----------------------------- MODULE MachineProofs -----------------------------
(***************************************************************************)
(* What holds of the programs that work on the user's own machine, for any  *)
(* number of calls, files, processes, requests and runs: the processes an   *)
(* agent leaves running, the index its tools look things up in, its patches *)
(* of files, the answers of the chat, and the desktop shell.  Each section  *)
(* is about one module; the sections share nothing.                         *)
(***************************************************************************)
EXTENDS AgentTerminal, AgentTools, AgentPatch, ChatServe, Desktop, FiniteSetTheorems, TLAPS

-----------------------------------------------------------------------------
(* AgentTerminal: processes that somebody answers for *)

\* A process that nobody told to end has a session that says it runs, and so a timer.
AnsweredFor ==
  ~down =>
    \A p \in living \ signalled :
      /\ session[p] = "RUNNING"
      /\ runEnd[StarterRun[p]] = "stopped" => p \in belated

TerminalInv ==
  /\ TerminalTypeOK
  /\ Cardinality(RunningNow) <= MaxConcurrent
  /\ AnsweredFor

\* No more sessions say that they run when only such sessions as did still do.
LEMMA FewerRun ==
  ASSUME Cardinality(RunningNow) <= MaxConcurrent,
         \A p \in Shells : session'[p] = "RUNNING" => session[p] = "RUNNING"
  PROVE  Cardinality(RunningNow') <= MaxConcurrent
<1>1. RunningNow' \subseteq RunningNow /\ IsFiniteSet(RunningNow)
  <2>1. RunningNow \subseteq Shells
    BY DEF RunningNow
  <2> QED BY <2>1, TerminalAssumption, FS_Subset DEF RunningNow, TerminalAssumption
<1>2. Cardinality(RunningNow') <= Cardinality(RunningNow)
      /\ Cardinality(RunningNow) \in Nat /\ Cardinality(RunningNow') \in Nat
  BY <1>1, FS_Subset, FS_CardinalityType
<1> QED BY <1>2, TerminalAssumption DEF TerminalAssumption

\* One more does when there was room.
LEMMA OneMoreRuns ==
  ASSUME Cardinality(RunningNow) < MaxConcurrent, NEW p \in Shells,
         \A q \in Shells \ {p} : session'[q] = "RUNNING" => session[q] = "RUNNING"
  PROVE  Cardinality(RunningNow') <= MaxConcurrent
<1>1. RunningNow' \subseteq RunningNow \cup {p} /\ IsFiniteSet(RunningNow)
  <2>1. RunningNow \subseteq Shells
    BY DEF RunningNow
  <2> QED BY <2>1, TerminalAssumption, FS_Subset DEF RunningNow, TerminalAssumption
<1>2. /\ Cardinality(RunningNow \cup {p}) <= Cardinality(RunningNow) + 1
      /\ IsFiniteSet(RunningNow \cup {p}) /\ Cardinality(RunningNow) \in Nat
  <2>1. Cardinality(RunningNow) \in Nat
    BY <1>1, FS_CardinalityType
  <2>2. IsFiniteSet(RunningNow \cup {p})
    BY <1>1, FS_AddElement
  <2>3. \/ Cardinality(RunningNow \cup {p}) = Cardinality(RunningNow)
        \/ Cardinality(RunningNow \cup {p}) = Cardinality(RunningNow) + 1
    BY <1>1, FS_AddElement
  <2> QED BY <2>1, <2>2, <2>3
<1>3. Cardinality(RunningNow') <= Cardinality(RunningNow \cup {p})
      /\ Cardinality(RunningNow') \in Nat /\ Cardinality(RunningNow \cup {p}) \in Nat
  BY <1>1, <1>2, FS_Subset, FS_CardinalityType
<1> QED BY <1>2, <1>3, TerminalAssumption DEF TerminalAssumption

LEMMA TerminalStarts == TerminalInit => TerminalInv
<1> SUFFICES ASSUME TerminalInit PROVE TerminalInv
  OBVIOUS
<1>1. RunningNow = {}
  BY DEF TerminalInit, RunningNow
<1>2. Cardinality(RunningNow) <= MaxConcurrent
  BY <1>1, FS_EmptySet, TerminalAssumption DEF TerminalAssumption
<1> QED BY <1>2 DEF TerminalInit, TerminalInv, TerminalTypeOK, AnsweredFor, SessionStatuses

LEMMA TerminalSteps == TerminalInv /\ [TerminalNext]_terminalVars => TerminalInv'
<1> SUFFICES ASSUME TerminalInv, [TerminalNext]_terminalVars PROVE TerminalInv'
  OBVIOUS
<1> USE DEF TerminalInv, TerminalTypeOK, SessionStatuses
<1>a. TerminalTypeOK'
  <2>1. ASSUME NEW p \in Shells, StartAsked(p) PROVE TerminalTypeOK'
    BY <2>1 DEF StartAsked, SessionIs
  <2>2. ASSUME NEW p \in Shells, SpawnShell(p) PROVE TerminalTypeOK'
    BY <2>2 DEF SpawnShell
  <2>3. ASSUME NEW p \in Shells, SpawnFails(p) \/ Dies(p) PROVE TerminalTypeOK'
    BY <2>3 DEF SpawnFails, Dies, SessionIs
  <2>4. ASSUME NEW p \in Shells, Closes(p) \/ StopOne(p) PROVE TerminalTypeOK'
    BY <2>4 DEF Closes, StopOne, SessionIs, Tells
  <2>5. ASSUME NEW r \in StarterRuns, CancelRun(r) \/ RunEnds(r) PROVE TerminalTypeOK'
    BY <2>5 DEF CancelRun, RunEnds
  <2>6. ASSUME NEW r \in StarterRuns, StopRun(r) PROVE TerminalTypeOK'
    BY <2>6 DEF StopRun, Tells, OfRun, RunningNow
  <2>7. ASSUME ApiIsGone PROVE TerminalTypeOK'
    BY <2>7 DEF ApiIsGone
  <2>8. CASE UNCHANGED terminalVars
    BY <2>8 DEF terminalVars
  <2> QED BY <2>1, <2>2, <2>3, <2>4, <2>5, <2>6, <2>7, <2>8 DEF TerminalNext
<1>b. \A p \in Shells : StarterRun[p] \in StarterRuns
  BY DEF StarterRuns
<1>1. ASSUME NEW p \in Shells, StartAsked(p) PROVE TerminalInv'
  <2>1. session' = [session EXCEPT ![p] = "asked"] /\ session[p] = "none"
        /\ UNCHANGED <<living, signalled, runEnd, down, belated>>
    BY <1>1 DEF StartAsked, SessionIs
  <2>2. Cardinality(RunningNow') <= MaxConcurrent
    BY <2>1, FewerRun
  <2>3. AnsweredFor'
    BY <2>1 DEF AnsweredFor
  <2> QED BY <1>a, <2>2, <2>3
<1>2. ASSUME NEW p \in Shells, SpawnShell(p) PROVE TerminalInv'
  <2> DEFINE old == {q \in Shells : session[q] \in SessionStatuses \ {"RUNNING"}}
             kept(gone) == [q \in Shells |-> IF q \in gone THEN "forgotten" ELSE session[q]]
  <2>1. PICK gone \in SUBSET old :
          \/ session' = [session EXCEPT ![p] = "refused"] /\ UNCHANGED living
          \/ session' = [kept(gone) EXCEPT ![p] = "refused"] /\ UNCHANGED living
          \/ /\ Cardinality(RunningNow) < MaxConcurrent
             /\ session' = [kept(gone) EXCEPT ![p] = "RUNNING"] /\ living' = living \cup {p}
    BY <1>2 DEF SpawnShell
  <2>2. /\ session[p] = "asked" /\ ~down /\ UNCHANGED <<signalled, runEnd, down>>
        /\ belated' = IF runEnd[StarterRun[p]] = "stopped" /\ p \in living'
                      THEN belated \cup {p} ELSE belated
    BY <1>2 DEF SpawnShell
  <2>3. \A q \in Shells \ {p} : session'[q] = "RUNNING" <=> session[q] = "RUNNING"
    BY <2>1
  <2>4. \/ living' = living /\ session'[p] = "refused"
        \/ /\ Cardinality(RunningNow) < MaxConcurrent
           /\ living' = living \cup {p} /\ session'[p] = "RUNNING"
    BY <2>1
  <2>5. Cardinality(RunningNow') <= MaxConcurrent
    <3>1. CASE session'[p] = "refused"
      BY <2>3, <3>1, FewerRun
    <3>2. CASE Cardinality(RunningNow) < MaxConcurrent
      BY <2>3, <3>2, OneMoreRuns
    <3> QED BY <2>4, <3>1, <3>2
  <2>6. AnsweredFor'
    BY <2>2, <2>3, <2>4 DEF AnsweredFor
  <2> QED BY <1>a, <2>5, <2>6
<1>3. ASSUME NEW p \in Shells, SpawnFails(p) \/ Closes(p) PROVE TerminalInv'
  <2>1. \E s \in {"EXITED", "FAILED"} : session' = [session EXCEPT ![p] = s] \/ UNCHANGED session
    BY <1>3 DEF SpawnFails, Closes, SessionIs
  <2>2. session[p] = "asked" \/ p \notin living
    BY <1>3 DEF SpawnFails, Closes
  <2>3. UNCHANGED <<living, signalled, runEnd, down, belated>>
    BY <1>3 DEF SpawnFails, Closes
  <2>4. \A q \in Shells : session'[q] = "RUNNING" => session[q] = "RUNNING"
    BY <2>1
  <2>5. Cardinality(RunningNow') <= MaxConcurrent
    BY <2>4, FewerRun
  <2>6. AnsweredFor'
    BY <2>1, <2>2, <2>3 DEF AnsweredFor
  <2> QED BY <1>a, <2>5, <2>6
<1>4. ASSUME NEW p \in Shells, Dies(p) PROVE TerminalInv'
  <2>1. living' \subseteq living /\ UNCHANGED <<session, signalled, runEnd, down, belated>>
    BY <1>4 DEF Dies
  <2>2. AnsweredFor'
    BY <2>1 DEF AnsweredFor
  <2> QED BY <1>a, <2>1, <2>2, FewerRun
<1>5. ASSUME NEW p \in Shells, StopOne(p) PROVE TerminalInv'
  <2>1. session' = [session EXCEPT ![p] = "STOPPED"] /\ signalled' = signalled \cup {p}
        /\ UNCHANGED <<living, runEnd, down, belated>>
    BY <1>5 DEF StopOne, SessionIs, Tells
  <2>2. Cardinality(RunningNow') <= MaxConcurrent
    BY <2>1, FewerRun
  <2>3. AnsweredFor'
    BY <2>1 DEF AnsweredFor
  <2> QED BY <1>a, <2>2, <2>3
<1>6. ASSUME NEW r \in StarterRuns, CancelRun(r) \/ RunEnds(r) PROVE TerminalInv'
  <2>1. /\ \E s \in {"cancelled", "over"} : runEnd' = [runEnd EXCEPT ![r] = s]
        /\ UNCHANGED <<session, living, signalled, down, belated>>
    BY <1>6 DEF CancelRun, RunEnds
  <2>2. Cardinality(RunningNow') <= MaxConcurrent
    BY <2>1, FewerRun
  <2>3. AnsweredFor'
    BY <2>1, <1>b DEF AnsweredFor
  <2> QED BY <1>a, <2>2, <2>3
\* The processes of a run that is stopped are told; those of a later start are belated.
<1>7. ASSUME NEW r \in StarterRuns, StopRun(r) PROVE TerminalInv'
  <2>1. /\ runEnd' = [runEnd EXCEPT ![r] = "stopped"] /\ UNCHANGED <<living, down, belated>>
        /\ session' = [p \in Shells |-> IF p \in OfRun(r) \cap RunningNow THEN "STOPPED" ELSE session[p]]
        /\ signalled' = signalled \cup (OfRun(r) \cap RunningNow)
    BY <1>7 DEF StopRun, Tells
  <2>2. Cardinality(RunningNow') <= MaxConcurrent
    BY <2>1, FewerRun
  <2>3. AnsweredFor'
    BY <2>1, <1>b DEF AnsweredFor, OfRun, RunningNow
  <2> QED BY <1>a, <2>2, <2>3
<1>8. ASSUME ApiIsGone PROVE TerminalInv'
  <2>1. Cardinality(RunningNow') <= MaxConcurrent
    BY <1>8, FewerRun DEF ApiIsGone
  <2>2. AnsweredFor'
    BY <1>8 DEF AnsweredFor, ApiIsGone
  <2> QED BY <1>a, <2>1, <2>2
<1>9. CASE UNCHANGED terminalVars
  <2>1. Cardinality(RunningNow') <= MaxConcurrent
    BY <1>9, FewerRun DEF terminalVars
  <2>2. AnsweredFor'
    BY <1>9 DEF AnsweredFor, terminalVars
  <2> QED BY <1>a, <2>1, <2>2
<1> QED BY <1>1, <1>2, <1>3, <1>4, <1>5, <1>6, <1>7, <1>8, <1>9 DEF TerminalNext

\* Whatever starts, stops, ends or is cancelled, and in whatever order the ends are noticed, no
\* more processes run than may, and while the API runs a process that nobody told to end has a
\* session with a timer, and outlived the stopping of its run's processes only if its start was then
\* under way (start, stop and stopRun of agent-terminal.service.ts).
THEOREM ProcessesHaveAnOwner == TerminalSpec => []ProcessesAreAnsweredFor
<1>1. TerminalInv => ProcessesAreAnsweredFor
  BY DEF TerminalInv, AnsweredFor, ProcessesAreAnsweredFor
<1> QED BY <1>1, TerminalStarts, TerminalSteps, PTL DEF TerminalSpec

-----------------------------------------------------------------------------
(* AgentTools: an index that is no older than the last patch *)

Readings == [TreeFiles -> Nat]
Positions == {"new", "build", "write", "save", "answered", "refused"}
CallRecords ==
  [pc : Positions, kind : {"", "ask", "look", "stat", "patch", "undo", "loose"}, target : TreeFiles \cup {""},
   has : Readings, left : SUBSET TreeFiles, stamp : Nat, crossed : BOOLEAN, owed : Readings]

ToolsTypes ==
  /\ changes \in Nat /\ file \in Readings
  /\ owed \in [Projects -> Readings]
  /\ cache \in [Projects -> [there : BOOLEAN, fresh : BOOLEAN, has : Readings, crossed : BOOLEAN]]
  /\ call \in [Calls -> CallRecords]
  /\ patched \in [Calls -> [there : BOOLEAN, target : TreeFiles \cup {""}, stamp : Nat]]
  /\ \A c \in Calls : patched[c].there => patched[c].target \in TreeFiles
  /\ \A f \in TreeFiles : file[f] <= changes

\* A patch that ended left a file as it is, or it was changed since; so did one that is not saved.
OwedIsThere == \A p \in Projects : \A f \in TreeFiles : owed[p][f] <= file[f]
\* An index that was built after a patch has what the patch left, or what came later.
IndexIsNew ==
  \A p \in Projects : cache[p].there /\ ~cache[p].crossed =>
    \A f \in Covers[p] : cache[p].has[f] >= owed[p][f]
\* What a call owes when it begins, it has read when it ends; what it has not read is there.
CallInv(c) ==
  /\ call[c].pc \in {"write", "save"} =>
       call[c].kind \in {"patch", "undo"} /\ call[c].target \in TreeFiles
  /\ call[c].pc = "save" => call[c].stamp <= file[call[c].target]
  /\ call[c].pc = "build" =>
       /\ call[c].kind \in {"ask", "look"}
       /\ \A f \in TreeFiles : call[c].owed[f] <= file[f]
       /\ \A f \in Covers[Cwd[c]] \ call[c].left : call[c].has[f] >= call[c].owed[f]
       /\ ~call[c].crossed => call[c].owed = owed[Cwd[c]]
  /\ call[c].pc = "answered" /\ call[c].kind \in {"ask", "look"} /\ ~call[c].crossed =>
       \A f \in Covers[Cwd[c]] : call[c].has[f] >= call[c].owed[f]

ToolsInv == ToolsTypes /\ OwedIsThere /\ IndexIsNew /\ \A c \in Calls : CallInv(c)

\* The files that an index covers are files.
LEMMA CoveredAreFiles ==
  ASSUME NEW p \in Projects PROVE Covers[p] \subseteq TreeFiles
  BY DEF TreeFiles

\* A call that begins has read nothing, and has no patch behind it.
LEMMA FreshCall ==
  /\ Fresh0 \in CallRecords
  /\ Fresh0.has = NothingSeen /\ ~Fresh0.crossed /\ NothingSeen \in Readings
  BY DEF Fresh0, CallRecords, NothingSeen, Readings, Positions

LEMMA ForgottenIndex ==
  /\ NoIndex \in [there : BOOLEAN, fresh : BOOLEAN, has : Readings, crossed : BOOLEAN]
  /\ ~NoIndex.there
  BY FreshCall DEF NoIndex

\* The number of a change is larger than that of any before it.
LEMMA ChangesGrow ==
  ASSUME ToolsTypes, NEW f \in TreeFiles, ChangesTo(f)
  PROVE  /\ changes' \in Nat /\ file' \in Readings
         /\ changes' = changes + 1 /\ file'[f] = changes'
         /\ \A g \in TreeFiles : file'[g] <= changes' /\ file[g] <= file'[g]
<1>1. changes \in Nat /\ file \in [TreeFiles -> Nat] /\ \A g \in TreeFiles : file[g] <= changes
  BY DEF ToolsTypes, Readings
<1>2. changes' = changes + 1 /\ file' = [file EXCEPT ![f] = changes']
  BY DEF ChangesTo
<1>3. changes' \in Nat
  BY <1>1, <1>2
<1>4. file' \in [TreeFiles -> Nat] /\ file'[f] = changes' /\ \A g \in TreeFiles \ {f} : file'[g] = file[g]
  BY <1>1, <1>2, <1>3
<1>5. ASSUME NEW g \in TreeFiles PROVE file'[g] <= changes' /\ file[g] <= file'[g]
  <2>1. file[g] \in Nat /\ file[g] <= changes
    BY <1>1
  <2> QED BY <1>1, <1>2, <1>3, <1>4, <2>1
<1> QED BY <1>2, <1>3, <1>4, <1>5 DEF Readings

\* One call goes on, and the files, the indexes and what was patched stay.
LEMMA CallGoesOn ==
  ASSUME ToolsInv, NEW c \in Calls, NEW r \in CallRecords, Becomes(c, r),
         UNCHANGED <<file, changes, cache, patched, owed>>, CallInv(c)'
  PROVE  ToolsInv'
<1>1. call' \in [Calls -> CallRecords] /\ \A d \in Calls \ {c} : call'[d] = call[d]
  BY DEF ToolsInv, ToolsTypes, Becomes
<1>2. ToolsTypes' /\ OwedIsThere' /\ IndexIsNew'
  BY <1>1 DEF ToolsInv, ToolsTypes, OwedIsThere, IndexIsNew
<1>3. ASSUME NEW d \in Calls \ {c} PROVE CallInv(d)'
  BY <1>1 DEF ToolsInv, CallInv
<1> QED BY <1>2, <1>3 DEF ToolsInv

\* A file changes, and with it the call that changed it.
LEMMA CallChangesFile ==
  ASSUME ToolsInv, NEW c \in Calls, NEW f \in TreeFiles, NEW r \in CallRecords, ChangesTo(f),
         Becomes(c, r), UNCHANGED <<cache, patched, owed>>,
         r.pc \in {"save", "answered", "refused"}, r.kind \in {"patch", "undo", "loose"},
         r.pc = "save" => r.kind # "loose" /\ r.target = f /\ r.stamp = changes'
  PROVE  ToolsInv'
<1>1. /\ changes' \in Nat /\ file' \in Readings
      /\ changes' = changes + 1 /\ file'[f] = changes'
      /\ \A g \in TreeFiles : file'[g] <= changes' /\ file[g] <= file'[g]
  BY ChangesGrow DEF ToolsInv
<1>2. call' \in [Calls -> CallRecords] /\ call'[c] = r /\ \A d \in Calls \ {c} : call'[d] = call[d]
  BY DEF ToolsInv, ToolsTypes, Becomes
<1>3. ToolsTypes' /\ IndexIsNew'
  BY <1>1, <1>2 DEF ToolsInv, ToolsTypes, IndexIsNew
<1>a. file \in Readings
  BY DEF ToolsInv, ToolsTypes
<1>4. OwedIsThere'
  <2> SUFFICES ASSUME NEW p \in Projects, NEW g \in TreeFiles PROVE owed[p][g] <= file'[g]
    BY DEF OwedIsThere
  <2>1. owed[p][g] \in Nat /\ file[g] \in Nat /\ file'[g] \in Nat
    BY <1>1, <1>a DEF ToolsInv, ToolsTypes, Readings
  <2>2. owed[p][g] <= file[g]
    BY DEF ToolsInv, OwedIsThere
  <2> QED BY <1>1, <2>1, <2>2
<1>5. CallInv(c)'
  BY <1>1, <1>2 DEF CallInv, Readings
<1>6. ASSUME NEW d \in Calls \ {c} PROVE CallInv(d)'
  <2>1. call[d] \in CallRecords /\ CallInv(d)
    BY DEF ToolsInv, ToolsTypes
  <2>2. \A g \in TreeFiles : /\ call[d].stamp <= file[g] => call[d].stamp <= file'[g]
                             /\ call[d].owed[g] <= file[g] => call[d].owed[g] <= file'[g]
    <3> TAKE g \in TreeFiles
    <3>1. call[d].owed[g] \in Nat /\ call[d].stamp \in Nat
      BY <2>1 DEF CallRecords, Readings
    <3>2. file[g] \in Nat /\ file'[g] \in Nat /\ file[g] <= file'[g]
      BY <1>1, <1>a DEF Readings
    <3> QED BY <3>1, <3>2
  <2> QED BY <1>2, <2>1, <2>2 DEF CallInv
<1> QED BY <1>3, <1>4, <1>5, <1>6 DEF ToolsInv

\* A patch in a folder ends: its index is forgotten, and who builds one is noted.
LEMMA PatchIsOver ==
  ASSUME ToolsInv, NEW c \in Calls, CallAt(c, "save"), Invalidate(Cwd[c]),
         CrossedAt(Cwd[c], c, "answered"), Owes(Cwd[c], call[c].target, call[c].stamp),
         UNCHANGED <<file, changes>>,
         patched' \in [Calls -> [there : BOOLEAN, target : TreeFiles \cup {""}, stamp : Nat]],
         \A d \in Calls : patched'[d].there => patched'[d].target \in TreeFiles
  PROVE  ToolsInv'
<1> DEFINE p == Cwd[c]
           f == call[c].target
<1>1. /\ p \in Projects /\ f \in TreeFiles /\ call[c].stamp \in Nat /\ call[c].stamp <= file[f]
      /\ call[c].kind \in {"patch", "undo"} /\ call[c].pc = "save" /\ call[c] \in CallRecords
  BY ToolsAssumption DEF ToolsAssumption, ToolsInv, ToolsTypes, CallInv, CallAt, CallRecords
<1>2. /\ owed' \in [Projects -> Readings] /\ owed'[p][f] = call[c].stamp
      /\ \A g \in TreeFiles \ {f} : owed'[p][g] = owed[p][g]
      /\ \A q \in Projects \ {p} : owed'[q] = owed[q]
  BY <1>1 DEF Owes, ToolsInv, ToolsTypes, Readings
<1>3. /\ cache'[p] = NoIndex /\ \A q \in Projects \ {p} : cache'[q] = cache[q]
      /\ cache' \in [Projects -> [there : BOOLEAN, fresh : BOOLEAN, has : Readings, crossed : BOOLEAN]]
  BY <1>1, ForgottenIndex DEF Invalidate, ToolsInv, ToolsTypes
<1>4. /\ call'[c] = [call[c] EXCEPT !.pc = "answered"]
      /\ \A d \in Calls \ {c} :
           call'[d] = IF call[d].pc = "build" /\ Cwd[d] = p THEN [call[d] EXCEPT !.crossed = TRUE]
                      ELSE call[d]
      /\ call' \in [Calls -> CallRecords]
  <2>1. /\ call'[c] = [call[c] EXCEPT !.pc = "answered"]
        /\ \A d \in Calls \ {c} :
             call'[d] = IF call[d].pc = "build" /\ Cwd[d] = p THEN [call[d] EXCEPT !.crossed = TRUE]
                        ELSE call[d]
        /\ call' = [d \in Calls |-> call'[d]]
    BY DEF CrossedAt, CallAt
  <2>2. ASSUME NEW d \in Calls PROVE call'[d] \in CallRecords
    <3>1. call[d] \in CallRecords
      BY DEF ToolsInv, ToolsTypes
    <3>2. CASE d = c
      BY <2>1, <3>1, <3>2 DEF CallRecords, Positions
    <3>3. CASE d # c /\ call[d].pc = "build" /\ Cwd[d] = p
      <4>1. call'[d] = [call[d] EXCEPT !.crossed = TRUE]
        BY <2>1, <3>3
      <4> QED BY <3>1, <4>1 DEF CallRecords
    <3>4. CASE d # c /\ ~(call[d].pc = "build" /\ Cwd[d] = p)
      BY <2>1, <3>1, <3>4
    <3> QED BY <3>2, <3>3, <3>4
  <2> QED BY <2>1, <2>2
<1>5. ToolsTypes'
  BY <1>2, <1>3, <1>4 DEF ToolsInv, ToolsTypes
<1>6. OwedIsThere'
  BY <1>1, <1>2 DEF ToolsInv, OwedIsThere
<1>7. IndexIsNew'
  <2>1. ~cache'[p].there
    BY <1>3, ForgottenIndex
  <2>2. ASSUME NEW q \in Projects \ {p} PROVE cache'[q] = cache[q] /\ owed'[q] = owed[q]
    BY <1>2, <1>3
  <2> SUFFICES ASSUME NEW q \in Projects, cache'[q].there, ~cache'[q].crossed, NEW g \in Covers[q]
               PROVE  cache'[q].has[g] >= owed'[q][g]
    BY DEF IndexIsNew
  <2>3. cache'[q] = cache[q] /\ owed'[q] = owed[q]
    BY <2>1, <2>2
  <2> QED BY <2>3 DEF ToolsInv, IndexIsNew
<1>8. CallInv(c)'
  <2>1. call'[c].pc = "answered" /\ call'[c].kind \in {"patch", "undo"}
    BY <1>1, <1>4 DEF CallRecords
  <2> QED BY <2>1 DEF CallInv
<1>9. ASSUME NEW d \in Calls \ {c} PROVE CallInv(d)'
  <2>1. call[d] \in CallRecords /\ CallInv(d) /\ Cwd[d] \in Projects
    BY ToolsAssumption DEF ToolsAssumption, ToolsInv, ToolsTypes
  <2>2. CASE call[d].pc = "build" /\ Cwd[d] = p
    <3>1. call'[d] = [call[d] EXCEPT !.crossed = TRUE]
      BY <1>4, <2>2
    <3>2. /\ call'[d].pc = "build" /\ call'[d].crossed /\ call'[d].kind = call[d].kind
          /\ call'[d].owed = call[d].owed /\ call'[d].has = call[d].has /\ call'[d].left = call[d].left
      BY <2>1, <2>2, <3>1 DEF CallRecords
    <3> QED BY <2>1, <2>2, <3>2 DEF CallInv
  <2>3. CASE call[d].pc = "build" /\ Cwd[d] # p
    <3>1. call'[d] = call[d] /\ owed'[Cwd[d]] = owed[Cwd[d]]
      BY <1>2, <1>4, <2>1, <2>3
    <3> QED BY <2>1, <2>3, <3>1 DEF CallInv
  <2>4. CASE call[d].pc # "build"
    <3>1. call'[d] = call[d]
      BY <1>4, <2>4
    <3> QED BY <2>1, <2>4, <3>1 DEF CallInv
  <2> QED BY <2>2, <2>3, <2>4
<1> QED BY <1>5, <1>6, <1>7, <1>8, <1>9 DEF ToolsInv

LEMMA ToolsStart == ToolsInit => ToolsInv
<1> SUFFICES ASSUME ToolsInit PROVE ToolsInv
  OBVIOUS
<1>1. NoPatch \in [there : BOOLEAN, target : TreeFiles \cup {""}, stamp : Nat] /\ ~NoPatch.there
  BY DEF NoPatch
<1>3. ToolsTypes
  <2>1. changes = 0 /\ file = NothingSeen /\ owed = [p \in Projects |-> NothingSeen]
    BY DEF ToolsInit
  <2>2. changes \in Nat /\ file \in Readings /\ owed \in [Projects -> Readings]
    BY <2>1, FreshCall
  <2>3. \A f \in TreeFiles : file[f] <= changes
    BY <2>1 DEF NothingSeen
  <2>4. cache \in [Projects -> [there : BOOLEAN, fresh : BOOLEAN, has : Readings, crossed : BOOLEAN]]
    BY ForgottenIndex DEF ToolsInit
  <2>5. call \in [Calls -> CallRecords]
    BY FreshCall DEF ToolsInit
  <2>6. /\ patched \in [Calls -> [there : BOOLEAN, target : TreeFiles \cup {""}, stamp : Nat]]
        /\ \A c \in Calls : ~patched[c].there
    BY <1>1 DEF ToolsInit
  <2> QED BY <2>2, <2>3, <2>4, <2>5, <2>6 DEF ToolsTypes
<1>4. OwedIsThere
  BY DEF ToolsInit, OwedIsThere, NothingSeen
<1>5. IndexIsNew
  BY ForgottenIndex DEF ToolsInit, IndexIsNew
<1>6. \A c \in Calls : CallInv(c)
  BY DEF ToolsInit, CallInv, Fresh0
<1> QED BY <1>3, <1>4, <1>5, <1>6 DEF ToolsInv

LEMMA ToolsSteps == ToolsInv /\ [ToolsNext]_toolVars => ToolsInv'
<1> SUFFICES ASSUME ToolsInv, [ToolsNext]_toolVars PROVE ToolsInv'
  OBVIOUS
<1>a. ASSUME NEW c \in Calls
      PROVE  /\ call[c] \in CallRecords /\ CallInv(c) /\ Cwd[c] \in Projects
             /\ Covers[Cwd[c]] \subseteq TreeFiles
             /\ owed[Cwd[c]] \in Readings
  <2>1. Cwd[c] \in Projects
    BY ToolsAssumption DEF ToolsAssumption
  <2> QED BY <2>1, CoveredAreFiles DEF ToolsInv, ToolsTypes
<1>1. ASSUME NEW p \in Projects, IndexAges(p) PROVE ToolsInv'
  <2>1. cache' = [cache EXCEPT ![p].fresh = FALSE] /\ UNCHANGED <<file, changes, call, patched, owed>>
    BY <1>1 DEF IndexAges
  <2>2. cache[p] \in [there : BOOLEAN, fresh : BOOLEAN, has : Readings, crossed : BOOLEAN]
    BY DEF ToolsInv, ToolsTypes
  <2>3. /\ cache'[p] = [cache[p] EXCEPT !.fresh = FALSE]
        /\ \A q \in Projects \ {p} : cache'[q] = cache[q]
    BY <2>1 DEF ToolsInv, ToolsTypes
  <2>4. cache'[p].there = cache[p].there /\ cache'[p].crossed = cache[p].crossed
        /\ cache'[p].has = cache[p].has
    BY <2>2, <2>3
  <2>5. ToolsTypes'
    BY <2>1, <2>2 DEF ToolsInv, ToolsTypes
  <2>6. IndexIsNew'
    BY <2>1, <2>3, <2>4 DEF ToolsInv, IndexIsNew
  <2>7. OwedIsThere' /\ \A c \in Calls : CallInv(c)'
    BY <2>1 DEF ToolsInv, OwedIsThere, CallInv
  <2> QED BY <2>5, <2>6, <2>7 DEF ToolsInv
\* An index that is there has what the patches left, unless a patch ended while it was built.
<1>2. ASSUME NEW c \in Calls, AskIndex(c) PROVE ToolsInv'
  <2> DEFINE p == Cwd[c]
             asks == [Fresh0 EXCEPT !.kind = "ask", !.owed = owed[p], !.left = Covers[p]]
  <2>1. asks \in CallRecords /\ asks.owed = owed[p] /\ asks.left = Covers[p] /\ asks.kind = "ask"
    BY <1>a, FreshCall DEF CallRecords
  <2>2. UNCHANGED <<file, changes, cache, patched, owed>>
    BY <1>2 DEF AskIndex
  <2>3. OwedIsThere /\ IndexIsNew
    BY DEF ToolsInv
  <2>4. CASE cache[p].there /\ cache[p].fresh
    <3> DEFINE r == [asks EXCEPT !.pc = "answered", !.has = cache[p].has, !.crossed = cache[p].crossed]
    <3>1. Becomes(c, r)
      BY <1>2, <2>4 DEF AskIndex
    <3>2. cache[p].has \in Readings /\ cache[p].crossed \in BOOLEAN
      BY <1>a DEF ToolsInv, ToolsTypes
    <3>3. /\ r \in CallRecords /\ r.pc = "answered" /\ r.has = cache[p].has
          /\ r.crossed = cache[p].crossed /\ r.owed = owed[p]
      BY <2>1, <3>2 DEF CallRecords, Positions
    <3>4. call'[c] = r
      BY <3>1 DEF Becomes, ToolsInv, ToolsTypes
    <3>5. ~r.crossed => \A f \in Covers[p] : r.has[f] >= r.owed[f]
      BY <1>a, <2>3, <2>4, <3>3 DEF IndexIsNew
    <3> HIDE DEF r
    <3>6. CallInv(c)'
      BY <3>3, <3>4, <3>5 DEF CallInv
    <3> QED BY <2>2, <3>1, <3>3, <3>6, CallGoesOn
  <2>5. CASE ~(cache[p].there /\ cache[p].fresh)
    <3> DEFINE r == [asks EXCEPT !.pc = "build"]
    <3>1. Becomes(c, r)
      BY <1>2, <2>5 DEF AskIndex
    <3>2. /\ r \in CallRecords /\ r.pc = "build" /\ r.kind = "ask" /\ r.left = Covers[p]
          /\ r.owed = owed[p]
      BY <2>1 DEF CallRecords, Positions
    <3>3. call'[c] = r
      BY <3>1 DEF Becomes, ToolsInv, ToolsTypes
    <3>4. \A f \in TreeFiles : r.owed[f] <= file[f]
      BY <1>a, <2>3, <3>2 DEF OwedIsThere
    <3> HIDE DEF r
    <3>5. CallInv(c)'
      BY <2>2, <3>2, <3>3, <3>4 DEF CallInv
    <3> QED BY <2>2, <3>1, <3>2, <3>5, CallGoesOn
  <2> QED BY <2>4, <2>5
<1>3. ASSUME NEW c \in Calls, LookAtFiles(c) PROVE ToolsInv'
  <2> DEFINE p == Cwd[c]
             r == [Fresh0 EXCEPT !.kind = "look", !.pc = "build", !.left = Covers[p], !.owed = owed[p]]
  <2>1. Becomes(c, r) /\ UNCHANGED <<file, changes, cache, patched, owed>>
    BY <1>3 DEF LookAtFiles
  <2>2. r \in CallRecords /\ r.pc = "build" /\ r.kind = "look" /\ r.left = Covers[p] /\ r.owed = owed[p]
    BY <1>a, FreshCall DEF CallRecords, Positions
  <2>3. call'[c] = r
    BY <2>1 DEF Becomes, ToolsInv, ToolsTypes
  <2>4. \A f \in TreeFiles : r.owed[f] <= file[f]
    BY <1>a, <2>2 DEF ToolsInv, OwedIsThere
  <2> HIDE DEF r
  <2>5. CallInv(c)'
    BY <2>1, <2>2, <2>3, <2>4 DEF CallInv
  <2> QED BY <2>1, <2>2, <2>5, CallGoesOn
\* What is read now is no older than what was owed when the call began.
<1>4. ASSUME NEW c \in Calls, NEW f \in TreeFiles, ReadNext(c, f) PROVE ToolsInv'
  <2> DEFINE r == [call[c] EXCEPT !.left = @ \ {f}, !.has[f] = file[f]]
  <2>1. /\ Becomes(c, r) /\ UNCHANGED <<file, changes, cache, patched, owed>>
        /\ call[c].pc = "build" /\ f \in call[c].left
    BY <1>4 DEF ReadNext, CallAt
  <2>2. call[c] \in CallRecords /\ CallInv(c)
    BY <1>a
  <2>3. file[f] \in Nat
    BY DEF ToolsInv, ToolsTypes, Readings
  <2>4. /\ r.pc = "build" /\ r.kind = call[c].kind /\ r.owed = call[c].owed
        /\ r.crossed = call[c].crossed /\ r.left = call[c].left \ {f}
        /\ r.has = [call[c].has EXCEPT ![f] = file[f]]
        /\ r.target = call[c].target /\ r.stamp = call[c].stamp
    BY <2>1, <2>2 DEF CallRecords
  <2>5. call[c].has \in Readings /\ r.has \in Readings
    BY <2>2, <2>3, <2>4 DEF CallRecords, Readings
  <2>6. r \in CallRecords
    BY <2>2, <2>5 DEF CallRecords
  <2>7. call'[c] = r
    BY <2>1 DEF Becomes, ToolsInv, ToolsTypes
  <2> HIDE DEF r
  <2>8. \A g \in Covers[Cwd[c]] \ r.left : r.has[g] >= r.owed[g]
    <3> TAKE g \in Covers[Cwd[c]] \ r.left
    <3>1. g \in TreeFiles
      BY <1>a
    <3>2. CASE g = f
      <4>1. r.has[g] = file[f]
        BY <2>4, <2>5, <3>2 DEF Readings
      <4>2. call[c].owed[f] <= file[f] /\ call[c].owed[f] \in Nat
        BY <2>1, <2>2 DEF CallInv, CallRecords, Readings
      <4> QED BY <2>3, <2>4, <3>2, <4>1, <4>2
    <3>3. CASE g # f
      <4>1. r.has[g] = call[c].has[g] /\ g \notin call[c].left
        BY <2>4, <2>5, <3>1, <3>3 DEF Readings
      <4> QED BY <2>1, <2>2, <2>4, <4>1 DEF CallInv
    <3> QED BY <3>2, <3>3
  <2>9. CallInv(c)'
    BY <2>1, <2>2, <2>4, <2>7, <2>8 DEF CallInv
  <2> QED BY <2>1, <2>6, <2>9, CallGoesOn
<1>5. ASSUME NEW c \in Calls, Indexed(c) PROVE ToolsInv'
  <2> DEFINE p == Cwd[c]
             r == [call[c] EXCEPT !.pc = "answered"]
             new == [there |-> TRUE, fresh |-> TRUE, has |-> call[c].has, crossed |-> call[c].crossed]
  <2>1. /\ Becomes(c, r) /\ UNCHANGED <<file, changes, patched, owed>>
        /\ call[c].pc = "build" /\ call[c].left = {}
        /\ cache' = IF call[c].kind = "look" THEN cache ELSE [cache EXCEPT ![p] = new]
    BY <1>5 DEF Indexed, CallAt, Ends
  <2>2. call[c] \in CallRecords /\ CallInv(c) /\ p \in Projects /\ Covers[p] \subseteq TreeFiles
    BY <1>a
  <2>3. /\ r \in CallRecords /\ r.pc = "answered" /\ r.has = call[c].has /\ r.owed = call[c].owed
        /\ r.crossed = call[c].crossed /\ r.kind = call[c].kind
    BY <2>2 DEF CallRecords, Positions
  <2>4. \A f \in Covers[p] : call[c].has[f] >= call[c].owed[f]
    BY <2>1, <2>2 DEF CallInv
  <2>5. /\ new \in [there : BOOLEAN, fresh : BOOLEAN, has : Readings, crossed : BOOLEAN]
        /\ new.crossed = call[c].crossed /\ new.has = call[c].has
    BY <2>2 DEF CallRecords
  <2>6. /\ call' \in [Calls -> CallRecords] /\ call'[c] = r
        /\ \A d \in Calls \ {c} : call'[d] = call[d]
    BY <2>1, <2>3 DEF Becomes, ToolsInv, ToolsTypes
  <2> HIDE DEF r, new
  <2>7. ToolsTypes'
    BY <2>1, <2>5, <2>6 DEF ToolsInv, ToolsTypes
  <2>8. IndexIsNew'
    <3>1. CASE call[c].kind = "look"
      BY <2>1, <3>1 DEF ToolsInv, IndexIsNew
    <3>2. CASE call[c].kind # "look"
      <4>1. cache'[p] = new /\ \A q \in Projects \ {p} : cache'[q] = cache[q]
        BY <2>1, <2>2, <3>2 DEF ToolsInv, ToolsTypes
      <4>2. ~call[c].crossed => call[c].owed = owed[p]
        BY <2>1, <2>2 DEF CallInv
      <4> SUFFICES ASSUME NEW q \in Projects, cache'[q].there, ~cache'[q].crossed, NEW g \in Covers[q]
                   PROVE  cache'[q].has[g] >= owed'[q][g]
        BY DEF IndexIsNew
      <4>3. CASE q = p
        BY <2>1, <2>4, <2>5, <4>1, <4>2, <4>3
      <4>4. CASE q # p
        <5>1. cache'[q] = cache[q] /\ owed'[q] = owed[q]
          BY <2>1, <4>1, <4>4
        <5> QED BY <5>1 DEF ToolsInv, IndexIsNew
      <4> QED BY <4>3, <4>4
    <3> QED BY <3>1, <3>2
  <2>9. OwedIsThere'
    BY <2>1 DEF ToolsInv, OwedIsThere
  <2>10. CallInv(c)'
    BY <2>3, <2>4, <2>6 DEF CallInv
  <2>11. ASSUME NEW d \in Calls \ {c} PROVE CallInv(d)'
    BY <2>1, <2>6 DEF ToolsInv, CallInv
  <2> QED BY <2>7, <2>8, <2>9, <2>10, <2>11 DEF ToolsInv
<1>6. ASSUME NEW c \in Calls, NEW f \in TreeFiles, BeginPatch(c, f) PROVE ToolsInv'
  <2> DEFINE asks == [Fresh0 EXCEPT !.kind = "patch", !.target = f]
  <2>1. UNCHANGED <<file, changes, cache, patched, owed>>
    BY <1>6 DEF BeginPatch
  <2>2. PICK pc \in {"write", "refused"} : Becomes(c, [asks EXCEPT !.pc = pc])
    BY <1>6 DEF BeginPatch
  <2> DEFINE r == [asks EXCEPT !.pc = pc]
  <2>3. r \in CallRecords /\ r.pc = pc /\ r.kind = "patch" /\ r.target = f
    BY FreshCall DEF CallRecords, Positions
  <2>4. call'[c] = r
    BY <2>2 DEF Becomes, ToolsInv, ToolsTypes
  <2>5. Becomes(c, r)
    BY <2>2
  <2> HIDE DEF r
  <2>6. CallInv(c)'
    BY <2>3, <2>4 DEF CallInv
  <2> QED BY <2>1, <2>3, <2>5, <2>6, CallGoesOn
<1>7. ASSUME NEW c \in Calls, CommitPatch(c) \/ CommitUndo(c) PROVE ToolsInv'
  <2> DEFINE f == call[c].target
             r == [call[c] EXCEPT !.pc = "save", !.stamp = changes']
  <2>1. /\ ChangesTo(f) /\ Becomes(c, r) /\ UNCHANGED <<cache, patched, owed>>
        /\ call[c].pc = "write"
    BY <1>7 DEF CommitPatch, CommitUndo, CallAt
  <2>2. call[c] \in CallRecords /\ call[c].kind \in {"patch", "undo"} /\ f \in TreeFiles
    BY <1>a, <2>1 DEF CallInv
  <2>3. changes' \in Nat
    BY <2>1, <2>2, ChangesGrow DEF ToolsInv
  <2>4. /\ r \in CallRecords /\ r.pc = "save" /\ r.kind \in {"patch", "undo"} /\ r.target = f
        /\ r.stamp = changes'
    BY <2>2, <2>3 DEF CallRecords, Positions
  <2> HIDE DEF r
  <2> QED BY <2>1, <2>2, <2>4, CallChangesFile
<1>8. ASSUME NEW c \in Calls, PatchApplied(c) PROVE ToolsInv'
  <2>1. /\ call[c] \in CallRecords /\ call[c].target \in TreeFiles
        /\ CallAt(c, "save")
    BY <1>a, <1>8 DEF PatchApplied, CallInv, CallAt
  <2>2. /\ patched' = [patched EXCEPT ![c] = [there |-> TRUE, target |-> call[c].target,
                                              stamp |-> call[c].stamp]]
        /\ call[c].stamp \in Nat
    BY <1>8, <2>1 DEF PatchApplied, CallRecords
  <2>3. patched' \in [Calls -> [there : BOOLEAN, target : TreeFiles \cup {""}, stamp : Nat]]
    BY <2>1, <2>2 DEF ToolsInv, ToolsTypes
  <2>4. \A d \in Calls : patched'[d].there => patched'[d].target \in TreeFiles
    BY <2>1, <2>2 DEF ToolsInv, ToolsTypes
  <2>5. /\ Invalidate(Cwd[c]) /\ CrossedAt(Cwd[c], c, "answered") /\ UNCHANGED <<file, changes>>
        /\ Owes(Cwd[c], call[c].target, call[c].stamp)
    BY <1>8 DEF PatchApplied
  <2> QED BY <2>1, <2>3, <2>4, <2>5, PatchIsOver
<1>9. ASSUME NEW c \in Calls, PatchUnsaved(c) PROVE ToolsInv'
  <2> DEFINE r == [call[c] EXCEPT !.pc = "refused"]
  <2>1. /\ ChangesTo(call[c].target) /\ Becomes(c, r) /\ UNCHANGED <<cache, patched, owed>>
        /\ call[c].pc = "save"
    BY <1>9 DEF PatchUnsaved, CallAt, Ends
  <2>2. call[c] \in CallRecords /\ call[c].kind \in {"patch", "undo"} /\ call[c].target \in TreeFiles
    BY <1>a, <2>1 DEF CallInv
  <2>3. r \in CallRecords /\ r.pc = "refused" /\ r.kind \in {"patch", "undo"}
    BY <2>2 DEF CallRecords, Positions
  <2> HIDE DEF r
  <2> QED BY <2>1, <2>2, <2>3, CallChangesFile
<1>10. ASSUME NEW c \in Calls, NEW d \in Calls, BeginUndo(c, d) PROVE ToolsInv'
  <2> DEFINE f == patched[d].target
  <2>1. UNCHANGED <<file, changes, cache, patched, owed>> /\ f \in TreeFiles
    BY <1>10 DEF BeginUndo, ToolsInv, ToolsTypes
  <2>2. PICK pc \in {"write", "refused"} :
          Becomes(c, [Fresh0 EXCEPT !.kind = "undo", !.target = f, !.pc = pc])
    BY <1>10 DEF BeginUndo
  <2> DEFINE r == [Fresh0 EXCEPT !.kind = "undo", !.target = f, !.pc = pc]
  <2>3. r \in CallRecords /\ r.pc = pc /\ r.kind = "undo" /\ r.target = f
    BY <2>1, FreshCall DEF CallRecords, Positions
  <2>4. call'[c] = r /\ Becomes(c, r)
    BY <2>2 DEF Becomes, ToolsInv, ToolsTypes
  <2> HIDE DEF r
  <2>5. CallInv(c)'
    BY <2>1, <2>3, <2>4 DEF CallInv
  <2> QED BY <2>1, <2>3, <2>4, <2>5, CallGoesOn
<1>11. ASSUME NEW c \in Calls, Undone(c) PROVE ToolsInv'
  <2>1. /\ CallAt(c, "save") /\ Invalidate(Cwd[c]) /\ CrossedAt(Cwd[c], c, "answered")
        /\ UNCHANGED <<file, changes, patched>> /\ Owes(Cwd[c], call[c].target, call[c].stamp)
    BY <1>11 DEF Undone
  <2>2. /\ patched' \in [Calls -> [there : BOOLEAN, target : TreeFiles \cup {""}, stamp : Nat]]
        /\ \A d \in Calls : patched'[d].there => patched'[d].target \in TreeFiles
    BY <2>1 DEF ToolsInv, ToolsTypes
  <2> QED BY <2>1, <2>2, PatchIsOver
<1>12. ASSUME NEW c \in Calls, NEW f \in TreeFiles, ChangeLoosely(c, f) PROVE ToolsInv'
  <2> DEFINE r == [Fresh0 EXCEPT !.kind = "loose", !.target = f, !.pc = "answered"]
  <2>1. ChangesTo(f) /\ Becomes(c, r) /\ UNCHANGED <<cache, patched, owed>>
    BY <1>12 DEF ChangeLoosely
  <2>2. r \in CallRecords /\ r.pc = "answered" /\ r.kind = "loose"
    BY FreshCall DEF CallRecords, Positions
  <2> HIDE DEF r
  <2> QED BY <2>1, <2>2, CallChangesFile
<1>14. ASSUME NEW c \in Calls, StatPath(c) PROVE ToolsInv'
  <2> DEFINE r == [Fresh0 EXCEPT !.kind = "stat", !.pc = "answered"]
  <2>1. Becomes(c, r) /\ UNCHANGED <<file, changes, cache, patched, owed>>
    BY <1>14 DEF StatPath
  <2>2. r \in CallRecords /\ r.pc = "answered" /\ r.kind = "stat"
    BY FreshCall DEF CallRecords, Positions
  <2>3. call'[c] = r
    BY <2>1 DEF Becomes, ToolsInv, ToolsTypes
  <2> HIDE DEF r
  <2>4. CallInv(c)'
    BY <2>2, <2>3 DEF CallInv
  <2> QED BY <2>1, <2>2, <2>4, CallGoesOn
<1>13. CASE UNCHANGED toolVars
  <2>1. UNCHANGED <<file, changes, cache, call, patched, owed>>
    BY <1>13 DEF toolVars
  <2>2. ToolsTypes' /\ OwedIsThere' /\ IndexIsNew'
    BY <2>1 DEF ToolsInv, ToolsTypes, OwedIsThere, IndexIsNew
  <2>3. \A c \in Calls : CallInv(c)'
    BY <2>1 DEF ToolsInv, CallInv
  <2> QED BY <2>2, <2>3 DEF ToolsInv
<1> QED BY <1>1, <1>2, <1>3, <1>4, <1>5, <1>6, <1>7, <1>8, <1>9, <1>10, <1>11, <1>12, <1>13,
        <1>14 DEF ToolsNext

\* Whoever asks the index after a patch in the same folder ended is told of the files as the patch
\* left them or later, whatever is built, ages, is patched, undone or moved meanwhile; an index that
\* was being built when the patch ended is excepted for as long as it is served (index, invalidate
\* and build of agent-code-index.service.ts, and their callers in agent-tools.service.ts).
THEOREM IndexIsNoOlder == ToolsSpec => []IndexFollowsPatches
<1>1. ToolsInv => IndexFollowsPatches
  BY DEF ToolsInv, CallInv, IndexFollowsPatches, CallAt
<1> QED BY <1>1, ToolsStart, ToolsSteps, PTL DEF ToolsSpec

-----------------------------------------------------------------------------
(* AgentPatch: all files or none, and nothing is lost, while at most one call fails *)

Untouched(p) == holds[p] = before[p] /\ aside[p] = "absent"
MovedAside(p) == holds[p] = "absent" /\ aside[p] = before[p]
Changed(p) == holds[p] = "new" /\ aside[p] = before[p]
Mine(f) == \E p \in Paths : f[p] = "mine"

\* Before there is a patch.
NotBegun ==
  /\ PatchAt("idle") /\ ~checkpoint.saved /\ (edited => Mine(holds))
  /\ \A p \in Paths : aside[p] = "absent" /\ fresh[p] = "absent" /\ holds[p] # "new"

\* The phases of a patch.  Files before the next one are through, those from it on are not.
Reads ==
  /\ ~checkpoint.saved /\ committed = {}
  /\ \A p \in Paths : /\ aside[p] = "absent" /\ holds[p] # "new"
                      /\ before[p] = IF p < task.next THEN holds[p] ELSE "absent"
Stages ==
  /\ ~checkpoint.saved /\ committed = {}
  /\ \A p \in Paths : Untouched(p) /\ (p < task.next => fresh[p] = "new")
Moves ==
  /\ ~checkpoint.saved /\ committed = {p \in Paths : p < task.next}
  /\ \A p \in Paths : IF p < task.next THEN Changed(p) ELSE fresh[p] = "new"
  /\ \A p \in Paths : p > task.next => Untouched(p)
ChangedAll == committed = Paths /\ \A p \in Paths : Changed(p)
PutsBack ==
  /\ ~checkpoint.saved /\ faults > 0
  /\ \A p \in Paths : IF p \in committed THEN p <= task.next /\ Changed(p)
                      ELSE Untouched(p) \/ (p <= task.next /\ MovedAside(p))
Cleans ==
  /\ \A p \in Paths : aside[p] = "absent"
  /\ IF checkpoint.saved THEN \A p \in Paths : holds[p] = "new"
     ELSE committed = {} /\ \A p \in Paths : holds[p] # "new" /\ before[p] \in {"absent", holds[p]}
IsOver ==
  /\ \A p \in Paths : aside[p] = "absent" /\ fresh[p] = "absent"
  /\ \A p \in Paths : IF checkpoint.saved THEN holds[p] \in {"new", "mine"}
                      ELSE holds[p] # "new" /\ (before[p] # "absent" => holds[p] \in {before[p], "mine"})

ApplyInv ==
  /\ checkpoint.saved => checkpoint.files = Texts
  /\ \A p \in Paths : before[p] # "new"
  /\ edited => Mine(holds) \/ Mine(before)
  /\ PatchAt("read") => Reads
  /\ PatchAt("stage") => Stages
  /\ PatchAt("aside") => Moves /\ Untouched(task.next)
  /\ PatchAt("place") => Moves /\ MovedAside(task.next)
  /\ PatchAt("save") => ~checkpoint.saved /\ ChangedAll
  /\ PatchAt("drop") => checkpoint.saved /\ ChangedAll
  /\ PatchAt("undo") => PutsBack
  /\ PatchAt("clean") => Cleans
  /\ PatchAt("idle") => IsOver
  /\ PatchAt("gone") => OldIsSomewhere

\* The phases of undoing it, as long as no call fails: either all files are found as the patch left
\* them, or one was changed and nothing is done.
AsPatched == \A p \in Paths : holds[p] \in {"new", "mine"}
Restored == \A p \in Paths : holds[p] = checkpoint.files[p]
Replaces ==
  /\ \A p \in Paths : p < task.next => holds[p] = checkpoint.files[p]
  /\ \A p \in Paths : p >= task.next => fresh[p] = checkpoint.files[p]
  /\ \A p \in Paths : before[p] = "new" /\ (p > task.next => holds[p] = "new")

UndoInv ==
  /\ edited => Mine(holds) \/ Mine(checkpoint.files)
  /\ PatchAt("read") => /\ AsPatched /\ committed = {}
                        /\ \A p \in Paths : p < task.next =>
                             holds[p] = "new" /\ before[p] = "new" /\ fresh[p] = checkpoint.files[p]
  /\ PatchAt("aside") => Replaces /\ holds[task.next] = "new"
  /\ PatchAt("place") => Replaces /\ holds[task.next] = "absent"
  /\ task.pc \in {"save", "drop"} => Restored
  /\ PatchAt("undo") => AsPatched /\ Mine(holds) /\ committed = {}
  /\ PatchAt("clean") => Restored \/ (AsPatched /\ Mine(holds))
  /\ PatchAt("idle") => UndoneOrRefused
  /\ ~PatchAt("stage")

PatchInv ==
  /\ PatchTypeOK /\ (raced => edited)
  /\ task.kind = "none" => task.next = 1 /\ NotBegun
  /\ ~raced => /\ task.kind = "apply" => ApplyInv
               /\ task.kind = "undo" /\ faults = 0 => UndoInv

Phases == {"idle", "read", "stage", "aside", "place", "save", "drop", "undo", "clean", "gone"}

LEMMA PatchTyped ==
  ASSUME PatchTypeOK
  PROVE  /\ holds \in [Paths -> Contents] /\ aside \in [Paths -> Contents]
         /\ fresh \in [Paths -> Contents] /\ before \in [Paths -> Contents]
         /\ checkpoint \in [saved : BOOLEAN, files : [Paths -> Contents]]
         /\ task \in [kind : {"none", "apply", "undo"}, next : Paths, pc : Phases]
         /\ task.next \in 1 .. Count /\ Count \in Nat /\ 1 \in Paths /\ Count \in Paths
         /\ committed \subseteq Paths /\ faults \in Nat /\ Nothing \in [Paths -> Contents]
  BY PatchAssumption DEF PatchAssumption, PatchTypeOK, Phases, Paths, Contents, Nothing

LEMMA GotoTask ==
  ASSUME PatchTypeOK, NEW pc \in Phases, NEW i \in Paths, Goto(pc, i)
  PROVE  /\ task' \in [kind : {"none", "apply", "undo"}, next : Paths, pc : Phases]
         /\ task'.kind = task.kind /\ task'.pc = pc /\ task'.next = i
<1>1. task \in [kind : {"none", "apply", "undo"}, next : Paths, pc : Phases]
  BY PatchTyped
<1>2. task' = [task EXCEPT !.pc = pc, !.next = i]
  BY DEF Goto
<1> QED BY <1>1, <1>2

\* The next file, if there is one, or the next phase.
LEMMA StepTask ==
  ASSUME PatchTypeOK, NEW pc \in Phases, NEW then \in Phases, Step(pc, then)
  PROVE  /\ task' \in [kind : {"none", "apply", "undo"}, next : Paths, pc : Phases]
         /\ task'.kind = task.kind
         /\ \/ task.next < Count /\ task'.pc = pc /\ task'.next = task.next + 1
            \/ task.next = Count /\ task'.pc = then /\ task'.next = 1
<1>1. CASE task.next < Count
  <2>1. task.next + 1 \in Paths
    BY <1>1, PatchTyped DEF Paths
  <2> QED BY <1>1, <2>1, GotoTask DEF Step
<1>2. CASE ~(task.next < Count)
  <2>1. task.next = Count /\ 1 \in Paths
    BY <1>2, PatchTyped
  <2> QED BY <1>2, <2>1, GotoTask DEF Step
<1> QED BY <1>1, <1>2

LEMMA FaultTask ==
  ASSUME PatchTypeOK, NEW pc \in Phases, Fault(pc)
  PROVE  /\ task' \in [kind : {"none", "apply", "undo"}, next : Paths, pc : Phases]
         /\ task'.kind = task.kind /\ task'.pc = pc /\ task'.next = Count
         /\ faults' = faults + 1 /\ faults' \in 0 .. MaxFaults
<1>1. faults < MaxFaults /\ faults' = faults + 1 /\ Goto(pc, Count)
  BY DEF Fault
<1>2. faults \in 0 .. MaxFaults /\ MaxFaults \in Nat
  BY PatchAssumption DEF PatchAssumption, PatchTypeOK
<1>3. Count \in Paths
  BY PatchTyped
<1> QED BY <1>1, <1>2, <1>3, GotoTask

\* The checkpoint is saved and what was moved aside dropped, in an order that depends on the kind.
LEMMA CheckpointKept ==
  ASSUME KeepCheckpoint
  PROVE  /\ UNCHANGED <<holds, fresh, before, committed, edited, raced>>
         /\ \/ /\ task.kind = "apply" /\ task.pc = "save" /\ Goto("drop", 1)
               /\ checkpoint' = [saved |-> TRUE, files |-> Texts] /\ UNCHANGED <<aside, faults>>
            \/ /\ task.kind = "apply" /\ task.pc = "drop" /\ Goto("clean", Count)
               /\ aside' = Nothing /\ UNCHANGED <<checkpoint, faults>>
            \/ /\ task.kind # "apply" /\ task.pc = "drop" /\ Goto("save", 1)
               /\ aside' = Nothing /\ UNCHANGED <<checkpoint, faults>>
            \/ /\ task.kind # "apply" /\ task.pc = "save" /\ Goto("clean", Count)
               /\ UNCHANGED <<aside, checkpoint, faults>>
            \/ task.pc = "save" /\ Fault("undo") /\ UNCHANGED <<aside, checkpoint>>
<1>1. /\ task.kind = "apply" => Order[1] = "save" /\ Order[2] = "drop"
      /\ task.kind # "apply" => Order[1] = "drop" /\ Order[2] = "save"
  BY DEF Order
<1>2. SaveThenDrop(Order)
  BY DEF KeepCheckpoint
<1> HIDE DEF Order
<1> QED BY <1>1, <1>2 DEF SaveThenDrop

\* What the checkpoint gets is contents, and the user's edit is text.
LEMMA TextsOfContents ==
  ASSUME before \in [Paths -> Contents]
  PROVE  Texts \in [Paths -> Contents] /\ (Mine(before) => Mine(Texts))
  BY DEF Texts, Text, Contents, Mine

LEMMA PatchTypesStay == PatchTypeOK /\ [PatchNext]_patchVars => PatchTypeOK'
<1> SUFFICES ASSUME PatchTypeOK, [PatchNext]_patchVars PROVE PatchTypeOK'
  OBVIOUS
<1> DEFINE Files == [Paths -> Contents]
           Tasks == [kind : {"none", "apply", "undo"}, next : Paths, pc : Phases]
<1>a. /\ holds \in Files /\ aside \in Files /\ fresh \in Files /\ before \in Files
      /\ checkpoint \in [saved : BOOLEAN, files : Files] /\ task \in Tasks /\ committed \subseteq Paths
      /\ Nothing \in Files /\ task.next \in Paths /\ Count \in Paths /\ 1 \in Paths
  BY PatchTyped
<1>b. faults \in 0 .. MaxFaults /\ edited \in BOOLEAN /\ raced \in BOOLEAN
  BY DEF PatchTypeOK
<1>c. {"read", "stage", "aside", "place", "save", "drop", "undo", "clean", "gone", "idle"} \subseteq Phases
      /\ {"absent", "old", "raw", "garbled", "new", "mine"} \subseteq Contents
  BY DEF Phases, Contents
<1>d. ASSUME /\ holds' \in Files /\ aside' \in Files /\ fresh' \in Files /\ before' \in Files
             /\ checkpoint' \in [saved : BOOLEAN, files : Files] /\ task' \in Tasks /\ committed' \subseteq Paths
             /\ faults' \in 0 .. MaxFaults /\ edited' \in BOOLEAN /\ raced' \in BOOLEAN
      PROVE  PatchTypeOK'
  BY <1>d DEF PatchTypeOK, Phases
<1>e. ASSUME NEW f \in Files, NEW p \in Paths, NEW c \in Contents PROVE [f EXCEPT ![p] = c] \in Files
  BY <1>e
<1>f. ASSUME NEW f \in Files, NEW p \in Paths PROVE f[p] \in Contents
  BY <1>f
<1>g. Texts \in Files
  BY <1>a, TextsOfContents
<1>1. ASSUME Begin PROVE PatchTypeOK'
  <2>1. task' \in Tasks
    BY <1>1, <1>a, <1>c DEF Begin, Task
  <2> QED BY <1>1, <1>a, <1>b, <1>d, <2>1 DEF Begin, placeVars, restVars
<1> HIDE DEF Files
<1>2. ASSUME ReadFile PROVE PatchTypeOK'
  <2>1. /\ task' \in Tasks /\ faults' \in 0 .. MaxFaults
    <3>1. CASE /\ UNCHANGED faults
               /\ Step("read", "stage") \/ Goto("clean", Count) \/ Step("read", "aside") \/ Goto("undo", Count)
      BY <1>a, <1>b, <1>c, <3>1, StepTask, GotoTask
    <3>2. CASE Fault(IF task.kind = "apply" THEN "clean" ELSE "undo")
      BY <1>c, <3>2, FaultTask
    <3> QED BY <1>2, <3>1, <3>2 DEF ReadFile
  <2>2. fresh' \in Files /\ before' \in Files
    BY <1>2, <1>a, <1>c, <1>e, <1>f DEF ReadFile
  <2> QED BY <1>2, <1>a, <1>b, <1>d, <2>1, <2>2 DEF ReadFile, restVars
<1>3. ASSUME Stage PROVE PatchTypeOK'
  <2>1. /\ task' \in Tasks /\ faults' \in 0 .. MaxFaults /\ fresh' \in Files
    <3>1. CASE Step("stage", "aside") /\ UNCHANGED faults /\ fresh' = [fresh EXCEPT ![task.next] = "new"]
      BY <1>a, <1>b, <1>c, <1>e, <3>1, StepTask
    <3>2. CASE Fault("undo") /\ UNCHANGED fresh
      BY <1>a, <1>c, <3>2, FaultTask
    <3> QED BY <1>3, <3>1, <3>2 DEF Stage
  <2> QED BY <1>3, <1>a, <1>b, <1>d, <2>1 DEF Stage, restVars
<1>4. ASSUME MoveAside PROVE PatchTypeOK'
  <2>1. task' \in Tasks /\ faults' \in 0 .. MaxFaults
    <3>1. CASE UNCHANGED faults /\ (Goto("place", task.next) \/ Goto("undo", Count))
      BY <1>a, <1>b, <1>c, <3>1, GotoTask
    <3>2. CASE Fault("undo")
      BY <1>c, <3>2, FaultTask
    <3> QED BY <1>4, <3>1, <3>2 DEF MoveAside
  <2>2. holds' \in Files /\ aside' \in Files
    BY <1>4, <1>a, <1>c, <1>e, <1>f DEF MoveAside
  <2> QED BY <1>4, <1>a, <1>b, <1>d, <2>1, <2>2 DEF MoveAside, restVars
<1>5. ASSUME Place PROVE PatchTypeOK'
  <2> DEFINE i == task.next
  <2>1. task' \in Tasks /\ faults' \in 0 .. MaxFaults
    <3>1. CASE i < Count /\ Goto("aside", i + 1) /\ UNCHANGED faults
      <4>1. i + 1 \in Paths
        BY <3>1, PatchTyped DEF Paths
      <4> QED BY <1>b, <1>c, <3>1, <4>1, GotoTask
    <3>2. CASE UNCHANGED faults /\ (Goto("save", 1) \/ Goto("drop", 1))
      BY <1>a, <1>b, <1>c, <3>2, GotoTask
    <3>3. CASE Fault("undo")
      BY <1>c, <3>3, FaultTask
    <3> QED BY <1>5, <3>1, <3>2, <3>3 DEF Place
  <2>2. holds' \in Files /\ aside' \in Files /\ fresh' \in Files /\ committed' \subseteq Paths
    <3>1. (IF task.kind = "undo" /\ fresh[i] = "absent" THEN holds[i] ELSE fresh[i]) \in Contents
      BY <1>a, <1>f
    <3>2. CASE UNCHANGED <<placeVars, committed>>
      BY <1>a, <3>2 DEF placeVars
    <3>3. CASE /\ holds' = [holds EXCEPT ![i] = IF task.kind = "undo" /\ fresh[i] = "absent"
                                                THEN holds[i] ELSE fresh[i]]
               /\ fresh' = [fresh EXCEPT ![i] = "absent"] /\ committed' = committed \cup {i}
               /\ UNCHANGED aside
      BY <1>a, <1>c, <1>e, <3>1, <3>3
    <3> QED BY <1>5, <3>2, <3>3 DEF Place
  <2> QED BY <1>5, <1>a, <1>b, <1>d, <2>1, <2>2 DEF Place, restVars
<1>6. ASSUME KeepCheckpoint PROVE PatchTypeOK'
  <2>1. task' \in Tasks /\ faults' \in 0 .. MaxFaults
    <3>1. CASE UNCHANGED faults /\ (Goto("save", 1) \/ Goto("drop", 1) \/ Goto("clean", Count))
      BY <1>a, <1>b, <1>c, <3>1, GotoTask
    <3>2. CASE Fault("undo")
      BY <1>c, <3>2, FaultTask
    <3> QED BY <1>6, <3>1, <3>2, CheckpointKept
  <2>2. checkpoint' \in [saved : BOOLEAN, files : Files] /\ aside' \in Files
    <3>1. checkpoint' = [saved |-> TRUE, files |-> Texts] \/ UNCHANGED checkpoint
      BY <1>6, CheckpointKept
    <3>2. aside' = Nothing \/ UNCHANGED aside
      BY <1>6, CheckpointKept
    <3>3. aside' \in Files
      BY <1>a, <3>2
    <3>4. CASE checkpoint' = [saved |-> TRUE, files |-> Texts]
      BY <1>a, <1>g, <3>3, <3>4
    <3>5. CASE UNCHANGED checkpoint
      BY <1>a, <1>b, <3>3, <3>5
    <3> QED BY <3>1, <3>4, <3>5
  <2> QED BY <1>6, <1>a, <1>b, <1>d, <2>1, <2>2, CheckpointKept
<1>7. ASSUME Undo PROVE PatchTypeOK'
  <2> DEFINE i == task.next
  <2>1. task' \in Tasks
    <3>1. CASE i > 1 /\ Goto("undo", i - 1)
      <4>1. i - 1 \in Paths
        BY <3>1, PatchTyped DEF Paths
      <4> QED BY <1>c, <3>1, <4>1, GotoTask
    <3>2. CASE Goto("clean", Count)
      BY <1>a, <1>c, <3>2, GotoTask
    <3> QED BY <1>7, <3>1, <3>2 DEF Undo
  <2>2. holds' \in Files /\ aside' \in Files
    BY <1>7, <1>a, <1>c, <1>e, <1>f DEF Undo
  <2>3. faults' \in 0 .. MaxFaults
    BY <1>7, <1>b, PatchAssumption DEF Undo, PatchAssumption
  <2> QED BY <1>7, <1>a, <1>b, <1>d, <2>1, <2>2, <2>3 DEF Undo, restVars
<1>8. ASSUME Clean PROVE PatchTypeOK'
  <2>1. task' \in Tasks
    BY <1>8, <1>a, <1>c, GotoTask DEF Clean
  <2>2. aside' \in Files
    BY <1>8, <1>a, <1>c, <1>f DEF Clean, Files
  <2> QED BY <1>8, <1>a, <1>b, <1>d, <2>1, <2>2 DEF Clean, restVars
<1>9. ASSUME NEW p \in Paths, UserEdits(p) PROVE PatchTypeOK'
  <2>1. holds' \in Files /\ raced' \in BOOLEAN
    BY <1>9, <1>a, <1>c, <1>e DEF UserEdits, PatchAt
  <2> QED BY <1>9, <1>a, <1>b, <1>d, <2>1 DEF UserEdits
<1>10. ASSUME PatchCrash PROVE PatchTypeOK'
  <2>1. task' \in Tasks
    BY <1>10, <1>a, <1>c, GotoTask DEF PatchCrash
  <2> QED BY <1>10, <1>a, <1>b, <1>d, <2>1 DEF PatchCrash, placeVars, restVars
<1>11. CASE UNCHANGED patchVars
  BY <1>11, <1>a, <1>b, <1>d DEF patchVars
<1> QED BY <1>1, <1>2, <1>3, <1>4, <1>5, <1>6, <1>7, <1>8, <1>9, <1>10, <1>11 DEF PatchNext

LEMMA PatchStarts == PatchInit => PatchInv
<1> SUFFICES ASSUME PatchInit PROVE PatchInv
  OBVIOUS
<1>1. task.kind = "none" /\ task.pc = "idle" /\ task.next = 1 /\ task = Task("none", "idle", 1)
  BY DEF PatchInit, Task
<1>2. 1 \in Paths
  BY PatchAssumption DEF PatchAssumption, Paths
<1>3. PatchTypeOK
  <2>1. /\ holds \in [Paths -> Contents] /\ Nothing \in [Paths -> Contents]
        /\ aside = Nothing /\ fresh = Nothing /\ before = Nothing
    BY DEF PatchInit, Contents, Nothing
  <2>2. checkpoint \in [saved : BOOLEAN, files : [Paths -> Contents]]
    BY <2>1 DEF PatchInit, Unsaved
  <2>3. faults \in 0 .. MaxFaults
    BY PatchAssumption DEF PatchInit, PatchAssumption
  <2> QED BY <1>1, <1>2, <2>1, <2>2, <2>3 DEF PatchInit, PatchTypeOK, Task
<1>4. NotBegun
  BY <1>1 DEF PatchInit, NotBegun, PatchAt, Nothing, Unsaved
<1>5. ~raced
  BY DEF PatchInit
<1> QED BY <1>1, <1>3, <1>4, <1>5 DEF PatchInv

\* A file that was read is where it was, beside its place, or in the checkpoint.
LEMMA ApplyKeepsOld ==
  ASSUME PatchTypeOK, ApplyInv, task.kind = "apply"
  PROVE  OldIsSomewhere
<1> SUFFICES ASSUME NEW p \in Paths, before[p] # "absent"
             PROVE  \/ before[p] \in {holds[p], aside[p]} \/ holds[p] = "mine"
                    \/ checkpoint = [saved |-> TRUE, files |-> Texts]
  BY DEF OldIsSomewhere
<1>1. task.pc \in Phases
  BY PatchTyped
<1>2. CASE task.pc \in {"read", "stage"}
  BY <1>2 DEF ApplyInv, PatchAt, Reads, Stages, Untouched
<1>3. CASE task.pc \in {"aside", "place"}
  <2>1. Moves /\ (Untouched(task.next) \/ MovedAside(task.next))
    BY <1>3 DEF ApplyInv, PatchAt
  <2>2. p < task.next \/ p = task.next \/ p > task.next
    BY PatchTyped DEF Paths
  <2> QED BY <2>1, <2>2 DEF Moves, Untouched, MovedAside, Changed
<1>4. CASE task.pc \in {"save", "drop"}
  BY <1>4 DEF ApplyInv, PatchAt, ChangedAll, Changed
<1>5. CASE task.pc = "undo"
  BY <1>5 DEF ApplyInv, PatchAt, PutsBack, Untouched, MovedAside, Changed
<1>6. checkpoint.saved => checkpoint = [saved |-> TRUE, files |-> Texts]
  BY DEF ApplyInv, PatchTypeOK
<1>7. CASE task.pc \in {"clean", "idle"}
  BY <1>6, <1>7 DEF ApplyInv, PatchAt, Cleans, IsOver
<1>8. CASE task.pc = "gone"
  BY <1>8 DEF ApplyInv, PatchAt, OldIsSomewhere
<1> QED BY <1>1, <1>2, <1>3, <1>4, <1>5, <1>7, <1>8 DEF Phases

\* A patch reads, writes beside, moves aside and into place; at any of these a call may fail.
LEMMA ApplyForward ==
  ASSUME PatchTypeOK, ApplyInv, task.kind = "apply",
         ReadFile \/ Stage \/ MoveAside \/ Place
  PROVE  ApplyInv' /\ task'.kind = "apply" /\ raced' = raced
<1> USE DEF Texts
<1> DEFINE i == task.next
<1>a. /\ holds \in [Paths -> Contents] /\ aside \in [Paths -> Contents]
      /\ fresh \in [Paths -> Contents] /\ before \in [Paths -> Contents]
      /\ i \in Paths /\ i \in 1 .. Count /\ Count \in Nat /\ Count \in Paths /\ 1 \in Paths
      /\ Paths = 1 .. Count /\ committed \subseteq Paths /\ faults \in Nat
  BY PatchTyped DEF Paths
<1>c. {"read", "stage", "aside", "place", "save", "drop", "undo", "clean", "gone", "idle"} \subseteq Phases
  BY DEF Phases
<1>d. /\ checkpoint.saved => checkpoint.files = Texts
      /\ \A p \in Paths : before[p] # "new"
      /\ edited => Mine(holds) \/ Mine(before)
  BY DEF ApplyInv
<1>1. CASE ReadFile
  <2>1. /\ task.pc = "read" /\ Reads /\ UNCHANGED <<holds, aside, committed, checkpoint, edited, raced>>
    BY <1>1 DEF ReadFile, ApplyInv, PatchAt, restVars
  <2>2. CASE before' = [before EXCEPT ![i] = holds[i]] /\ Step("read", "stage")
    <3>1. /\ task'.kind = "apply"
          /\ \/ i < Count /\ task'.pc = "read" /\ task'.next = i + 1
             \/ i = Count /\ task'.pc = "stage" /\ task'.next = 1
      BY <1>c, <2>2, StepTask
    <3>2. before'[i] = holds[i] /\ \A p \in Paths \ {i} : before'[p] = before[p]
      BY <1>a, <2>2
    <3>3. \A p \in Paths : before'[p] = IF p < i + 1 THEN holds[p] ELSE "absent"
      BY <1>a, <2>1, <3>2 DEF Reads
    <3>4. /\ checkpoint'.saved => checkpoint'.files = Texts'
          /\ \A p \in Paths : before'[p] # "new"
      BY <2>1, <3>3 DEF Reads
    <3>5. edited' => Mine(holds') \/ Mine(before')
      BY <1>a, <1>d, <2>1, <3>2 DEF Reads, Mine
    <3>6. CASE i < Count /\ task'.pc = "read" /\ task'.next = i + 1
      <4>1. Reads'
        BY <2>1, <3>3, <3>6 DEF Reads
      <4> QED BY <2>1, <3>1, <3>4, <3>5, <3>6, <4>1 DEF ApplyInv, PatchAt
    <3>7. CASE i = Count /\ task'.pc = "stage" /\ task'.next = 1
      <4>1. \A p \in Paths : before'[p] = holds[p] /\ ~(p < 1)
        BY <1>a, <3>3, <3>7
      <4>2. Stages'
        BY <2>1, <3>7, <4>1 DEF Stages, Reads, Untouched
      <4> QED BY <2>1, <3>1, <3>4, <3>5, <3>7, <4>2 DEF ApplyInv, PatchAt
    <3> QED BY <3>1, <3>6, <3>7
  <2>3. CASE (Goto("clean", Count) \/ Fault("clean")) /\ UNCHANGED <<before, fresh>>
    <3>1. task'.kind = "apply" /\ task'.pc = "clean"
      BY <1>a, <1>c, <2>3, GotoTask, FaultTask
    <3>2. Cleans'
      BY <2>1, <2>3, <3>1 DEF Cleans, Reads
    <3> QED BY <1>d, <2>1, <2>3, <3>1, <3>2 DEF ApplyInv, PatchAt, Mine
  <2> QED BY <1>1, <2>2, <2>3 DEF ReadFile
<1>2. CASE Stage
  <2>1. /\ task.pc = "stage" /\ Stages
        /\ UNCHANGED <<holds, aside, before, committed, checkpoint, edited, raced>>
    BY <1>2 DEF Stage, ApplyInv, PatchAt, restVars
  <2>2. CASE fresh' = [fresh EXCEPT ![i] = "new"] /\ Step("stage", "aside")
    <3>1. /\ task'.kind = "apply"
          /\ \/ i < Count /\ task'.pc = "stage" /\ task'.next = i + 1
             \/ i = Count /\ task'.pc = "aside" /\ task'.next = 1
      BY <1>c, <2>2, StepTask
    <3>2. \A p \in Paths : p < i + 1 => fresh'[p] = "new"
      BY <1>a, <2>1, <2>2 DEF Stages
    <3>3. CASE i < Count /\ task'.pc = "stage" /\ task'.next = i + 1
      <4>1. Stages'
        BY <2>1, <3>2, <3>3 DEF Stages, Untouched
      <4> QED BY <1>d, <2>1, <3>1, <3>3, <4>1 DEF ApplyInv, PatchAt, Mine
    <3>4. CASE i = Count /\ task'.pc = "aside" /\ task'.next = 1
      <4>1. \A p \in Paths : fresh'[p] = "new" /\ ~(p < 1)
        BY <1>a, <3>2, <3>4
      <4>2. Moves' /\ Untouched(1)'
        BY <1>a, <2>1, <3>4, <4>1 DEF Stages, Moves, Untouched
      <4> QED BY <1>d, <2>1, <3>1, <3>4, <4>2 DEF ApplyInv, PatchAt, Mine, Untouched
    <3> QED BY <3>1, <3>3, <3>4
  <2>3. CASE Fault("undo") /\ UNCHANGED fresh
    <3>1. task'.kind = "apply" /\ task'.pc = "undo" /\ faults' = faults + 1
      BY <1>c, <2>3, FaultTask
    <3>2. PutsBack'
      BY <1>a, <2>1, <3>1 DEF PutsBack, Stages, Untouched
    <3> QED BY <1>d, <2>1, <3>1, <3>2 DEF ApplyInv, PatchAt, Mine
  <2> QED BY <1>2, <2>2, <2>3 DEF Stage
<1>3. CASE MoveAside
  <2>1. /\ task.pc = "aside" /\ Moves /\ Untouched(i)
        /\ UNCHANGED <<fresh, before, committed, checkpoint, edited, raced>>
    BY <1>3 DEF MoveAside, ApplyInv, PatchAt, restVars
  <2>2. CASE Goto("place", i) /\ before[i] = "absent" /\ UNCHANGED <<holds, aside>>
    <3>1. task'.kind = "apply" /\ task'.pc = "place" /\ task'.next = i
      BY <1>a, <1>c, <2>2, GotoTask
    <3>2. Moves' /\ MovedAside(i)'
      BY <2>1, <2>2, <3>1 DEF Moves, Untouched, MovedAside, Changed
    <3> QED BY <1>d, <2>1, <2>2, <3>1, <3>2 DEF ApplyInv, PatchAt, Mine, MovedAside
  <2>3. CASE /\ aside' = [aside EXCEPT ![i] = holds[i]] /\ holds' = [holds EXCEPT ![i] = "absent"]
             /\ Goto("place", i)
    <3>1. task'.kind = "apply" /\ task'.pc = "place" /\ task'.next = i
      BY <1>a, <1>c, <2>3, GotoTask
    <3>2. /\ holds'[i] = "absent" /\ aside'[i] = before[i]
          /\ \A p \in Paths \ {i} : holds'[p] = holds[p] /\ aside'[p] = aside[p]
      BY <1>a, <2>1, <2>3 DEF Untouched
    <3>3. Moves' /\ MovedAside(i)'
      BY <1>a, <2>1, <3>1, <3>2 DEF Moves, Untouched, MovedAside, Changed
    <3>4. edited' => Mine(holds') \/ Mine(before')
      BY <1>a, <1>d, <2>1, <3>2 DEF Mine, Untouched
    <3> QED BY <1>d, <2>1, <3>1, <3>3, <3>4 DEF ApplyInv, PatchAt, MovedAside
  <2>4. CASE Fault("undo") /\ UNCHANGED <<holds, aside>>
    <3>1. task'.kind = "apply" /\ task'.pc = "undo" /\ faults' = faults + 1 /\ task'.next = Count
      BY <1>c, <2>4, FaultTask
    <3>2. PutsBack'
      BY <1>a, <2>1, <2>4, <3>1 DEF PutsBack, Moves, Untouched, Changed
    <3> QED BY <1>d, <2>1, <2>4, <3>1, <3>2 DEF ApplyInv, PatchAt, Mine
  <2> QED BY <1>3, <2>1, <2>2, <2>3, <2>4 DEF MoveAside, Untouched
<1>4. CASE Place
  <2>1. /\ task.pc = "place" /\ Moves /\ MovedAside(i) /\ fresh[i] = "new"
        /\ UNCHANGED <<before, checkpoint, edited, raced>>
    BY <1>4, <1>a DEF Place, ApplyInv, PatchAt, restVars, Moves
  <2>2. CASE /\ holds' = [holds EXCEPT ![i] = "new"]
             /\ fresh' = [fresh EXCEPT ![i] = "absent"] /\ committed' = committed \cup {i}
             /\ (IF i < Count THEN Goto("aside", i + 1) ELSE Goto("save", 1))
             /\ UNCHANGED aside
    <3>1. /\ holds'[i] = "new" /\ aside'[i] = before[i]
          /\ \A p \in Paths \ {i} : holds'[p] = holds[p] /\ aside'[p] = aside[p] /\ fresh'[p] = fresh[p]
      BY <1>a, <2>1, <2>2 DEF MovedAside
    <3>2. edited' => Mine(holds') \/ Mine(before')
      BY <1>a, <1>d, <2>1, <3>1 DEF Mine, MovedAside
    <3>3. CASE i < Count
      <4>1. i + 1 \in Paths
        BY <1>a, <3>3
      <4>2. task'.kind = "apply" /\ task'.pc = "aside" /\ task'.next = i + 1
        BY <1>c, <2>2, <3>3, <4>1, GotoTask
      <4>3. committed' = {p \in Paths : p < i + 1}
        BY <1>a, <2>1, <2>2 DEF Moves
      <4>4. ASSUME NEW p \in Paths
            PROVE  /\ IF p < i + 1 THEN holds'[p] = "new" /\ aside'[p] = before[p] ELSE fresh'[p] = "new"
                   /\ p > i => holds'[p] = before[p] /\ aside'[p] = "absent"
        BY <1>a, <2>1, <3>1 DEF Moves, Changed, Untouched
      <4>5. Moves'
        <5>1. ~checkpoint'.saved /\ committed' = {p \in Paths : p < task'.next} /\ before' = before
          BY <2>1, <4>2, <4>3 DEF Moves
        <5>2. \A p \in Paths : IF p < task'.next THEN Changed(p)' ELSE fresh'[p] = "new"
          BY <4>2, <4>4, <5>1 DEF Changed
        <5>3. \A p \in Paths : p > task'.next => Untouched(p)'
          BY <1>a, <4>2, <4>4, <5>1 DEF Untouched
        <5> QED BY <5>1, <5>2, <5>3 DEF Moves
      <4>6. Untouched(task.next)'
        BY <1>a, <2>1, <4>1, <4>2, <4>4 DEF Untouched
      <4> QED BY <1>d, <2>1, <3>2, <4>2, <4>5, <4>6 DEF ApplyInv, PatchAt
    <3>4. CASE i = Count
      <4>1. task'.kind = "apply" /\ task'.pc = "save"
        BY <1>a, <1>c, <2>2, <3>4, GotoTask
      <4>2. committed' = Paths
        BY <1>a, <2>1, <2>2, <3>4 DEF Moves
      <4>3. \A p \in Paths : holds'[p] = "new" /\ aside'[p] = before[p]
        BY <1>a, <2>1, <3>1, <3>4 DEF Moves, Changed
      <4>4. ChangedAll' /\ ~checkpoint'.saved
        BY <2>1, <4>2, <4>3 DEF ChangedAll, Changed, Moves
      <4> QED BY <1>d, <2>1, <3>2, <4>1, <4>4 DEF ApplyInv, PatchAt
    <3> QED BY <1>a, <3>3, <3>4
  <2>3. CASE Fault("undo") /\ UNCHANGED <<placeVars, committed>>
    <3>1. task'.kind = "apply" /\ task'.pc = "undo" /\ faults' = faults + 1 /\ task'.next = Count
      BY <1>c, <2>3, FaultTask
    <3>2. UNCHANGED <<holds, aside, committed>>
      BY <2>3 DEF placeVars
    <3>3. ASSUME NEW p \in Paths
          PROVE  IF p \in committed THEN p <= Count /\ Changed(p)
                 ELSE Untouched(p) \/ (p <= Count /\ MovedAside(p))
      <4>1. p \in committed <=> p < i
        BY <2>1 DEF Moves
      <4>2. CASE p < i
        BY <1>a, <2>1, <4>1, <4>2 DEF Moves
      <4>3. CASE p = i
        BY <1>a, <2>1, <4>1, <4>3
      <4>4. CASE p > i
        BY <1>a, <2>1, <4>1, <4>4 DEF Moves
      <4> QED BY <1>a, <4>2, <4>3, <4>4
    <3>4. PutsBack'
      BY <1>a, <2>1, <3>1, <3>2, <3>3 DEF PutsBack, Moves, Untouched, MovedAside, Changed
    <3> QED BY <1>d, <2>1, <3>1, <3>2, <3>4 DEF ApplyInv, PatchAt, Mine
  <2> QED BY <1>4, <2>1, <2>2, <2>3 DEF Place
<1> QED BY <1>1, <1>2, <1>3, <1>4

\* It saves its checkpoint, or puts the files back, cleans up, or stops where it is.  A file that
\* cannot be put back would be lost: it takes a second failure.
LEMMA ApplyBack ==
  ASSUME PatchTypeOK, ApplyInv, task.kind = "apply", MaxFaults <= 1,
         KeepCheckpoint \/ Undo \/ Clean \/ PatchCrash
  PROVE  ApplyInv' /\ task'.kind = "apply" /\ raced' = raced
<1> USE DEF Texts
<1> DEFINE i == task.next
<1>a. /\ holds \in [Paths -> Contents] /\ aside \in [Paths -> Contents]
      /\ before \in [Paths -> Contents]
      /\ i \in Paths /\ i \in 1 .. Count /\ Count \in Nat /\ Count \in Paths /\ 1 \in Paths
      /\ Paths = 1 .. Count /\ committed \subseteq Paths /\ faults \in Nat /\ MaxFaults \in Nat
  BY PatchTyped, PatchAssumption DEF Paths, PatchAssumption
<1>c. {"read", "stage", "aside", "place", "save", "drop", "undo", "clean", "gone", "idle"} \subseteq Phases
  BY DEF Phases
<1>d. /\ checkpoint.saved => checkpoint.files = Texts
      /\ \A p \in Paths : before[p] # "new"
      /\ edited => Mine(holds) \/ Mine(before)
  BY DEF ApplyInv
<1>1. CASE KeepCheckpoint
  <2>1. UNCHANGED <<holds, fresh, before, committed, edited, raced>>
    BY <1>1, CheckpointKept
  <2>2. CASE /\ task.pc = "save" /\ Goto("drop", 1) /\ UNCHANGED aside
             /\ checkpoint' = [saved |-> TRUE, files |-> Texts]
    <3>1. task'.kind = "apply" /\ task'.pc = "drop"
      BY <1>a, <1>c, <2>2, GotoTask
    <3>2. ChangedAll'
      BY <2>1, <2>2 DEF ApplyInv, PatchAt, ChangedAll, Changed
    <3> QED BY <1>d, <2>1, <2>2, <3>1, <3>2 DEF ApplyInv, PatchAt, Mine
  <2>3. CASE /\ task.pc = "drop" /\ Goto("clean", Count) /\ aside' = Nothing /\ UNCHANGED checkpoint
    <3>1. task'.kind = "apply" /\ task'.pc = "clean"
      BY <1>a, <1>c, <2>3, GotoTask
    <3>2. Cleans'
      BY <2>1, <2>3 DEF ApplyInv, PatchAt, ChangedAll, Changed, Cleans, Nothing
    <3> QED BY <1>d, <2>1, <2>3, <3>1, <3>2 DEF ApplyInv, PatchAt, Mine
  <2>4. CASE task.pc = "save" /\ Fault("undo") /\ UNCHANGED <<aside, checkpoint>>
    <3>1. task'.kind = "apply" /\ task'.pc = "undo" /\ faults' = faults + 1 /\ task'.next = Count
      BY <1>c, <2>4, FaultTask
    <3>2. PutsBack'
      BY <1>a, <2>1, <2>4, <3>1 DEF ApplyInv, PatchAt, ChangedAll, Changed, PutsBack
    <3> QED BY <1>d, <2>1, <2>4, <3>1, <3>2 DEF ApplyInv, PatchAt, Mine
  <2> QED BY <1>1, <2>2, <2>3, <2>4, CheckpointKept
<1>2. CASE Undo
  <2>1. /\ task.pc = "undo" /\ PutsBack /\ UNCHANGED <<fresh, before, checkpoint, edited, raced>>
        /\ committed' = committed \ {i}
        /\ IF i > 1 THEN Goto("undo", i - 1) ELSE Goto("clean", Count)
    BY <1>2 DEF Undo, ApplyInv, PatchAt, restVars
  <2>2. ~(faults < MaxFaults)
    BY <1>a, <2>1 DEF PutsBack
  <2>3. /\ \/ ~(i \in committed \/ aside[i] # "absent") /\ UNCHANGED <<holds, aside>>
           \/ /\ i \in committed \/ aside[i] # "absent"
              /\ holds' = [holds EXCEPT ![i] = aside[i]] /\ aside' = [aside EXCEPT ![i] = "absent"]
        /\ faults' = faults
    BY <1>2, <2>2 DEF Undo
  <2>4. /\ holds'[i] = before[i] /\ aside'[i] = "absent"
        /\ \A p \in Paths \ {i} : holds'[p] = holds[p] /\ aside'[p] = aside[p]
    <3>1. CASE ~(i \in committed \/ aside[i] # "absent") /\ UNCHANGED <<holds, aside>>
      BY <1>a, <2>1, <3>1 DEF PutsBack, Untouched, MovedAside
    <3>2. CASE /\ i \in committed \/ aside[i] # "absent"
               /\ holds' = [holds EXCEPT ![i] = aside[i]] /\ aside' = [aside EXCEPT ![i] = "absent"]
      <4>1. aside[i] = before[i] \/ (holds[i] = before[i] /\ aside[i] = "absent" /\ i \notin committed)
        BY <1>a, <2>1 DEF PutsBack, Untouched, MovedAside, Changed
      <4> QED BY <1>a, <3>2, <4>1
    <3> QED BY <2>3, <3>1, <3>2
  <2>5. edited' => Mine(holds') \/ Mine(before')
    <3>1. ASSUME NEW p \in Paths, holds[p] = "mine" PROVE holds'[p] = "mine" \/ before[p] = "mine"
      BY <1>a, <2>1, <2>4, <3>1 DEF PutsBack, Untouched, MovedAside, Changed
    <3> QED BY <1>d, <2>1, <3>1 DEF Mine
  <2>6. CASE i > 1
    <3>1. i - 1 \in Paths
      BY <1>a, <2>6
    <3>2. task'.kind = "apply" /\ task'.pc = "undo" /\ task'.next = i - 1
      BY <1>c, <2>1, <2>6, <3>1, GotoTask
    <3>3. ASSUME NEW p \in Paths
          PROVE  IF p \in committed' THEN p <= task'.next /\ Changed(p)'
                 ELSE Untouched(p)' \/ (p <= task'.next /\ MovedAside(p)')
      <4>1. CASE p = i
        BY <2>1, <2>4, <4>1 DEF Untouched
      <4>2. CASE p # i
        BY <1>a, <2>1, <2>4, <3>2, <4>2 DEF PutsBack, Untouched, MovedAside, Changed
      <4> QED BY <4>1, <4>2
    <3>4. PutsBack'
      BY <2>1, <2>3, <3>3 DEF PutsBack
    <3> QED BY <1>d, <2>1, <2>5, <3>2, <3>4 DEF ApplyInv, PatchAt
  <2>7. CASE ~(i > 1)
    <3>1. i = 1
      BY <1>a, <2>7
    <3>2. task'.kind = "apply" /\ task'.pc = "clean"
      BY <1>a, <1>c, <2>1, <2>7, GotoTask
    <3>3. ASSUME NEW p \in Paths PROVE p \notin committed' /\ aside'[p] = "absent" /\ holds'[p] = before[p]
      <4>1. CASE p = i
        BY <2>1, <2>4, <4>1
      <4>2. CASE p # i
        <5>1. ~(p <= i)
          BY <1>a, <3>1, <4>2
        <5> QED BY <2>1, <2>4, <4>2, <5>1 DEF PutsBack, Untouched
      <4> QED BY <4>1, <4>2
    <3>4. committed' = {}
      BY <1>a, <2>1, <3>3
    <3>5. Cleans'
      BY <1>d, <2>1, <3>3, <3>4 DEF Cleans, PutsBack
    <3> QED BY <1>d, <2>1, <2>5, <3>2, <3>5 DEF ApplyInv, PatchAt
  <2> QED BY <2>6, <2>7
<1>3. CASE Clean
  <2>1. /\ task.pc = "clean" /\ Cleans /\ UNCHANGED <<holds, before, committed, checkpoint, edited, raced>>
        /\ aside' = [p \in Paths |-> IF p \in committed THEN aside[p] ELSE "absent"]
        /\ fresh' = Nothing /\ Goto("idle", 1)
    BY <1>3 DEF Clean, ApplyInv, PatchAt, restVars
  <2>2. task'.kind = "apply" /\ task'.pc = "idle"
    BY <1>a, <1>c, <2>1, GotoTask
  <2>3. IsOver'
    BY <2>1 DEF Cleans, IsOver, Nothing
  <2> QED BY <1>d, <2>1, <2>2, <2>3 DEF ApplyInv, PatchAt, Mine
<1>4. CASE PatchCrash
  <2>1. /\ UNCHANGED <<holds, aside, before, checkpoint, edited, raced>> /\ Goto("gone", 1)
    BY <1>4 DEF PatchCrash, placeVars, restVars
  <2>2. task'.kind = "apply" /\ task'.pc = "gone"
    BY <1>a, <1>c, <2>1, GotoTask
  <2>3. OldIsSomewhere'
    BY <2>1, <2>2, ApplyKeepsOld DEF OldIsSomewhere
  <2> QED BY <1>d, <2>1, <2>2, <2>3 DEF ApplyInv, PatchAt, Mine
<1> QED BY <1>1, <1>2, <1>3, <1>4

\* Undoing a patch, while no call fails: all files are replaced, or none.
LEMMA UndoSteps ==
  ASSUME PatchTypeOK, UndoInv, task.kind = "undo", faults' = 0, faults = 0,
         ReadFile \/ Stage \/ MoveAside \/ Place \/ KeepCheckpoint \/ Undo \/ Clean \/ PatchCrash
  PROVE  UndoInv' /\ task'.kind = "undo" /\ raced' = raced
<1> DEFINE i == task.next
           c == checkpoint.files
<1>a. /\ holds \in [Paths -> Contents] /\ aside \in [Paths -> Contents]
      /\ fresh \in [Paths -> Contents] /\ before \in [Paths -> Contents]
      /\ i \in Paths /\ i \in 1 .. Count /\ Count \in Nat /\ Count \in Paths /\ 1 \in Paths
      /\ Paths = 1 .. Count /\ committed \subseteq Paths /\ c \in [Paths -> Contents]
  BY PatchTyped DEF Paths
<1>c. {"read", "stage", "aside", "place", "save", "drop", "undo", "clean", "gone", "idle"} \subseteq Phases
  BY DEF Phases
<1>d. edited => Mine(holds) \/ Mine(c)
  BY DEF UndoInv
<1>f. ASSUME NEW pc \in Phases, Fault(pc) PROVE FALSE
  BY <1>f DEF Fault
<1>1. CASE ReadFile
  <2>1. /\ task.pc = "read" /\ AsPatched /\ committed = {}
        /\ \A p \in Paths : p < i => holds[p] = "new" /\ before[p] = "new" /\ fresh[p] = c[p]
        /\ UNCHANGED <<holds, aside, committed, checkpoint, edited, raced>>
    BY <1>1 DEF ReadFile, UndoInv, PatchAt, restVars
  <2>2. CASE /\ holds[i] = "new" /\ before' = [before EXCEPT ![i] = "new"]
             /\ fresh' = [fresh EXCEPT ![i] = c[i]] /\ Step("read", "aside")
    <3>1. /\ task'.kind = "undo"
          /\ \/ i < Count /\ task'.pc = "read" /\ task'.next = i + 1
             \/ i = Count /\ task'.pc = "aside" /\ task'.next = 1
      BY <1>c, <2>2, StepTask
    <3>2. \A p \in Paths : p < i + 1 => holds[p] = "new" /\ before'[p] = "new" /\ fresh'[p] = c[p]
      BY <1>a, <2>1, <2>2
    <3>3. CASE i < Count /\ task'.pc = "read" /\ task'.next = i + 1
      BY <1>d, <2>1, <3>1, <3>2, <3>3 DEF UndoInv, PatchAt, AsPatched, Mine
    <3>4. CASE i = Count /\ task'.pc = "aside" /\ task'.next = 1
      <4>1. \A p \in Paths : holds[p] = "new" /\ before'[p] = "new" /\ fresh'[p] = c[p] /\ ~(p < 1)
        BY <1>a, <3>2, <3>4
      <4>2. Replaces' /\ holds'[task'.next] = "new"
        BY <1>a, <2>1, <3>4, <4>1 DEF Replaces
      <4> QED BY <1>d, <2>1, <3>1, <3>4, <4>2 DEF UndoInv, PatchAt, Mine
    <3> QED BY <3>1, <3>3, <3>4
  <2>3. CASE holds[i] # "new" /\ Goto("undo", Count)
    <3>1. task'.kind = "undo" /\ task'.pc = "undo"
      BY <1>a, <1>c, <2>3, GotoTask
    <3>2. Mine(holds)
      BY <1>a, <2>1, <2>3 DEF AsPatched, Mine
    <3> QED BY <1>d, <2>1, <3>1, <3>2 DEF UndoInv, PatchAt, AsPatched, Mine
  <2> QED BY <1>1, <1>c, <1>f, <2>2, <2>3 DEF ReadFile
<1>2. CASE Stage
  BY <1>2 DEF Stage, UndoInv
<1>3. CASE MoveAside
  <2>1. /\ task.pc = "aside" /\ Replaces /\ holds[i] = "new" /\ before[i] = "new"
        /\ UNCHANGED <<fresh, before, committed, checkpoint, edited, raced>>
    BY <1>3, <1>a DEF MoveAside, UndoInv, PatchAt, restVars, Replaces
  <2>2. holds' = [holds EXCEPT ![i] = "absent"] /\ Goto("place", i)
    BY <1>3, <1>c, <1>f, <2>1 DEF MoveAside
  <2>3. task'.kind = "undo" /\ task'.pc = "place" /\ task'.next = i
    BY <1>a, <1>c, <2>2, GotoTask
  <2>4. holds'[i] = "absent" /\ \A p \in Paths \ {i} : holds'[p] = holds[p]
    BY <1>a, <2>2
  <2>5. Replaces' /\ holds'[task'.next] = "absent"
    BY <1>a, <2>1, <2>3, <2>4 DEF Replaces
  <2>6. edited' => Mine(holds') \/ Mine(checkpoint'.files)
    BY <1>a, <1>d, <2>1, <2>4 DEF Mine
  <2> QED BY <2>1, <2>3, <2>5, <2>6 DEF UndoInv, PatchAt
<1>4. CASE Place
  <2>1. /\ task.pc = "place" /\ Replaces /\ holds[i] = "absent" /\ fresh[i] = c[i]
        /\ UNCHANGED <<before, checkpoint, edited, raced>>
    BY <1>4, <1>a DEF Place, UndoInv, PatchAt, restVars, Replaces
  <2>2. /\ holds' = [holds EXCEPT ![i] = IF fresh[i] = "absent" THEN holds[i] ELSE fresh[i]]
        /\ fresh' = [fresh EXCEPT ![i] = "absent"]
        /\ (IF i < Count THEN Goto("aside", i + 1) ELSE Goto("drop", 1))
    BY <1>4, <1>c, <1>f DEF Place
  <2>3. holds'[i] = c[i] /\ \A p \in Paths \ {i} : holds'[p] = holds[p] /\ fresh'[p] = fresh[p]
    BY <1>a, <2>1, <2>2
  <2>4. edited' => Mine(holds') \/ Mine(checkpoint'.files)
    BY <1>a, <1>d, <2>1, <2>3 DEF Mine
  <2>5. CASE i < Count
    <3>1. i + 1 \in Paths
      BY <1>a, <2>5
    <3>2. task'.kind = "undo" /\ task'.pc = "aside" /\ task'.next = i + 1
      BY <1>c, <2>2, <2>5, <3>1, GotoTask
    <3>3. ASSUME NEW p \in Paths
          PROVE  /\ p < i + 1 => holds'[p] = c[p]
                 /\ p >= i + 1 => fresh'[p] = c[p] /\ holds'[p] = "new"
      <4>1. CASE p = i
        BY <1>a, <2>3, <4>1
      <4>2. CASE p # i
        BY <1>a, <2>1, <2>3, <4>2 DEF Replaces
      <4> QED BY <4>1, <4>2
    <3>4. \A p \in Paths : before[p] = "new"
      BY <2>1 DEF Replaces
    <3>5. Replaces' /\ holds'[task'.next] = "new"
      BY <1>a, <2>1, <3>1, <3>2, <3>3, <3>4 DEF Replaces
    <3> QED BY <2>1, <2>4, <3>2, <3>5 DEF UndoInv, PatchAt
  <2>6. CASE ~(i < Count)
    <3>1. i = Count
      BY <1>a, <2>6
    <3>2. task'.kind = "undo" /\ task'.pc = "drop"
      BY <1>a, <1>c, <2>2, <2>6, GotoTask
    <3>3. Restored'
      BY <1>a, <2>1, <2>3, <3>1 DEF Replaces, Restored
    <3> QED BY <2>1, <2>4, <3>2, <3>3 DEF UndoInv, PatchAt
  <2> QED BY <2>5, <2>6
<1>5. CASE KeepCheckpoint
  <2>1. UNCHANGED <<holds, checkpoint, edited, raced>>
    BY <1>5, <1>c, <1>f, CheckpointKept
  <2>2. task.pc \in {"save", "drop"} /\ (Goto("save", 1) \/ Goto("clean", Count))
    BY <1>5, <1>c, <1>f, CheckpointKept
  <2>3. task'.kind = "undo" /\ task'.pc \in {"save", "clean"}
    BY <1>a, <1>c, <2>2, GotoTask
  <2>4. Restored'
    BY <2>1, <2>2 DEF UndoInv, Restored
  <2> QED BY <1>d, <2>1, <2>3, <2>4 DEF UndoInv, PatchAt, Mine
<1>6. CASE Undo
  <2>1. /\ task.pc = "undo" /\ AsPatched /\ Mine(holds) /\ committed = {}
        /\ UNCHANGED <<checkpoint, edited, raced>> /\ committed' = committed \ {i}
        /\ IF i > 1 THEN Goto("undo", i - 1) ELSE Goto("clean", Count)
    BY <1>6 DEF Undo, UndoInv, PatchAt, restVars
  <2>2. UNCHANGED holds
    BY <1>6, <2>1 DEF Undo
  <2>3. task'.kind = "undo" /\ task'.pc \in {"undo", "clean"}
    <3>1. i > 1 => i - 1 \in Paths
      BY <1>a
    <3> QED BY <1>a, <1>c, <2>1, <3>1, GotoTask
  <2> QED BY <2>1, <2>2, <2>3 DEF UndoInv, PatchAt, AsPatched, Mine
<1>7. CASE Clean
  <2>1. /\ task.pc = "clean" /\ UNCHANGED <<holds, checkpoint, edited, raced>> /\ Goto("idle", 1)
    BY <1>7 DEF Clean, PatchAt, restVars
  <2>2. task'.kind = "undo" /\ task'.pc = "idle"
    BY <1>a, <1>c, <2>1, GotoTask
  <2>3. Restored \/ (AsPatched /\ Mine(holds))
    BY <2>1 DEF UndoInv, PatchAt
  <2>4. UndoneOrRefused'
    <3>1. edited => Mine(holds)
      BY <1>d, <2>3 DEF Restored, Mine
    <3>2. \/ \A p \in Paths : holds[p] \in {c[p], "mine"}
          \/ \A p \in Paths : holds[p] \in {[q \in Paths |-> "new"][p], "mine"}
      BY <2>3 DEF Restored, AsPatched
    <3> QED BY <2>1, <3>1, <3>2 DEF UndoneOrRefused, Mine
  <2> QED BY <1>d, <2>1, <2>2, <2>4 DEF UndoInv, PatchAt, Mine
<1>8. CASE PatchCrash
  <2>1. UNCHANGED <<holds, checkpoint, edited, raced>> /\ Goto("gone", 1)
    BY <1>8 DEF PatchCrash, placeVars, restVars
  <2>2. task'.kind = "undo" /\ task'.pc = "gone"
    BY <1>a, <1>c, <2>1, GotoTask
  <2> QED BY <1>d, <2>1, <2>2 DEF UndoInv, PatchAt, Mine
<1> QED BY <1>1, <1>2, <1>3, <1>4, <1>5, <1>6, <1>7, <1>8


\* The user's edit is the only one: it is kept apart when it falls into an operation, and between
\* two operations it leaves "mine" where they look.
LEMMA EditsAreSeen ==
  ASSUME PatchInv, NEW p \in Paths, UserEdits(p)
  PROVE  PatchInv'
<1> USE DEF Texts
<1>1. PatchTypeOK /\ PatchTypeOK'
  BY PatchTypesStay DEF PatchInv, PatchNext
<1>2. /\ UNCHANGED <<aside, fresh, task, before, committed, checkpoint, faults>>
      /\ raced' = ~PatchAt("idle") /\ edited' = TRUE /\ ~edited
  BY DEF UserEdits
<1>3. holds'[p] = "mine" /\ \A q \in Paths \ {p} : holds'[q] = holds[q]
  BY <1>1, PatchTyped DEF UserEdits
<1>4. \A q \in Paths : holds'[q] = holds[q] \/ holds'[q] = "mine"
  BY <1>3
<1>5. Mine(holds')
  BY <1>3 DEF Mine
<1>6. ~raced /\ (raced' => edited')
  BY <1>2 DEF PatchInv
<1>7. CASE ~PatchAt("idle")
  <2>1. task.kind # "none"
    BY <1>7 DEF PatchInv, NotBegun
  <2> QED BY <1>1, <1>2, <1>6, <1>7, <2>1 DEF PatchInv
<1>8. CASE PatchAt("idle")
  <2>1. ASSUME task.kind = "none" PROVE task'.next = 1 /\ NotBegun'
    <3>1. task.next = 1 /\ NotBegun
      BY <2>1 DEF PatchInv
    <3> QED BY <1>2, <1>4, <1>5, <3>1 DEF NotBegun, PatchAt
  <2>2. ASSUME task.kind = "apply" PROVE ApplyInv'
    <3>1. ApplyInv
      BY <1>6, <2>2 DEF PatchInv
    <3>2. IsOver'
      BY <1>2, <1>4, <1>8, <3>1 DEF ApplyInv, IsOver
    <3> QED BY <1>2, <1>5, <1>8, <3>1, <3>2 DEF ApplyInv, PatchAt
  <2>3. ASSUME task.kind = "undo", faults = 0 PROVE UndoInv'
    <3>1. UndoInv
      BY <1>6, <2>3 DEF PatchInv
    <3>2. UndoneOrRefused'
      <4>1. PICK left \in {checkpoint.files, [q \in Paths |-> "new"]} : \A q \in Paths : holds[q] \in {left[q], "mine"}
        BY <1>8, <2>3, <3>1 DEF UndoInv, UndoneOrRefused, Ended, PatchAt
      <4>2. \A q \in Paths : holds'[q] \in {left[q], "mine"}
        BY <1>4, <4>1
      <4>3. \E q \in Paths : holds'[q] = "mine"
        BY <1>3
      <4> QED BY <1>2, <4>2, <4>3 DEF UndoneOrRefused
    <3> QED BY <1>2, <1>5, <1>8, <3>1, <3>2 DEF UndoInv, PatchAt
  <2> QED BY <1>1, <1>2, <1>6, <2>1, <2>2, <2>3 DEF PatchInv
<1> QED BY <1>7, <1>8

\* A patch begins with files nobody is changing, and the request to undo it with those it left.
LEMMA BeginsClean ==
  ASSUME PatchInv, Begin
  PROVE  PatchInv'
<1>1. PatchTypeOK /\ PatchTypeOK'
  BY PatchTypesStay DEF PatchInv, PatchNext
<1>2. /\ before' = Nothing /\ committed' = {}
      /\ UNCHANGED <<holds, aside, fresh, faults, checkpoint, edited, raced>>
  BY DEF Begin, placeVars, restVars
<1>3. CASE task = Task("none", "idle", 1) /\ task' = Task("apply", "read", 1)
  <2>1. task.kind = "none" /\ task'.kind = "apply" /\ task'.pc = "read" /\ task'.next = 1
    BY <1>3 DEF Task
  <2>2. NotBegun
    BY <2>1 DEF PatchInv
  <2>3. \A p \in Paths : ~(p < 1) /\ before'[p] = "absent"
    BY <1>2 DEF Paths, Nothing
  <2>4. Reads'
    BY <1>2, <2>1, <2>2, <2>3 DEF NotBegun, Reads
  <2>5. ApplyInv'
    BY <1>2, <2>1, <2>2, <2>3, <2>4 DEF NotBegun, ApplyInv, PatchAt, Mine
  <2> QED BY <1>1, <1>2, <2>1, <2>5 DEF PatchInv
<1>4. CASE task.kind = "apply" /\ PatchAt("idle") /\ checkpoint.saved /\ task' = Task("undo", "read", 1)
  <2>1. task'.kind = "undo" /\ task'.pc = "read" /\ task'.next = 1
    BY <1>4 DEF Task
  <2>2. ASSUME ~raced PROVE UndoInv'
    <3>1. ApplyInv /\ IsOver /\ checkpoint.files = Texts
      BY <1>4, <2>2 DEF PatchInv, ApplyInv
    <3>2. edited => Mine(holds) \/ Mine(checkpoint.files)
      BY <1>1, <3>1, PatchTyped, TextsOfContents DEF ApplyInv
    <3>3. \A p \in Paths : ~(p < 1) /\ holds[p] \in {"new", "mine"}
      BY <1>4, <3>1 DEF IsOver, Paths
    <3> QED BY <1>2, <2>1, <3>2, <3>3 DEF UndoInv, PatchAt, AsPatched, Mine
  <2> QED BY <1>1, <1>2, <2>1, <2>2 DEF PatchInv
<1> QED BY <1>3, <1>4 DEF Begin

\* Failures are counted and never forgotten.
LEMMA FaultsCount ==
  ASSUME PatchTypeOK, PatchNext
  PROVE  faults' = 0 => faults = 0
<1>1. faults \in Nat
  BY PatchTyped
<1>2. faults' = faults \/ faults' = faults + 1
  BY CheckpointKept DEF PatchNext, Begin, ReadFile, Stage, MoveAside, Place, Undo, Clean, PatchCrash, UserEdits, Fault
<1> QED BY <1>1, <1>2

LEMMA PatchSteps ==
  ASSUME MaxFaults <= 1
  PROVE  PatchInv /\ [PatchNext]_patchVars => PatchInv'
<1> SUFFICES ASSUME PatchInv, [PatchNext]_patchVars PROVE PatchInv'
  OBVIOUS
<1>1. PatchTypeOK /\ PatchTypeOK'
  BY PatchTypesStay DEF PatchInv
<1> DEFINE Forward == ReadFile \/ Stage \/ MoveAside \/ Place
           Back == KeepCheckpoint \/ Undo \/ Clean \/ PatchCrash
<1>2. CASE UNCHANGED patchVars
  <2>1. UNCHANGED <<holds, aside, fresh, task, before, committed, checkpoint, faults, edited, raced>>
    BY <1>2 DEF patchVars
  <2> QED BY <2>1, <1>1 DEF PatchInv, NotBegun, ApplyInv, Texts, UndoInv, PatchAt, Reads, Stages, Moves, ChangedAll,
      PutsBack, Cleans, IsOver, OldIsSomewhere, AsPatched, Restored, Replaces, UndoneOrRefused, Ended,
      Untouched, MovedAside, Changed, Mine
<1>3. CASE Begin
  BY <1>3, BeginsClean
<1>4. CASE \E p \in Paths : UserEdits(p)
  BY <1>4, EditsAreSeen
<1>5. ASSUME Forward \/ Back PROVE PatchInv'
  <2>1. ~PatchAt("idle")
    BY <1>5, CheckpointKept DEF ReadFile, Stage, MoveAside, Place, Undo, Clean, PatchCrash, PatchAt
  <2>2. UNCHANGED <<edited, raced>> /\ task'.kind = task.kind
    <3>1. UNCHANGED <<edited, raced>>
      BY <1>5, CheckpointKept DEF ReadFile, Stage, MoveAside, Place, Undo, Clean, PatchCrash, restVars
    <3>2. \E pc, i : task' = [task EXCEPT !.pc = pc, !.next = i]
      BY <1>5, CheckpointKept
      DEF ReadFile, Stage, MoveAside, Place, Undo, Clean, PatchCrash, Step, Fault, Goto
    <3>3. task \in [kind : {"none", "apply", "undo"}, next : Paths, pc : Phases]
      BY <1>1, PatchTyped
    <3> QED BY <3>1, <3>2, <3>3
  <2>3. task.kind # "none"
    BY <2>1 DEF PatchInv, NotBegun
  <2>4. ASSUME ~raced, task.kind = "apply" PROVE ApplyInv'
    <3>1. ApplyInv
      BY <2>4 DEF PatchInv
    <3> QED BY <1>1, <1>5, <2>4, <3>1, ApplyForward, ApplyBack
  <2>5. ASSUME ~raced, task.kind = "undo", faults' = 0 PROVE UndoInv'
    <3>1. faults = 0
      BY <1>1, <1>5, <2>5, FaultsCount DEF PatchNext
    <3>2. UndoInv
      BY <2>5, <3>1 DEF PatchInv
    <3> QED BY <1>1, <1>5, <2>5, <3>1, <3>2, UndoSteps
  <2> QED BY <1>1, <2>2, <2>3, <2>4, <2>5 DEF PatchInv
<1> QED BY <1>2, <1>3, <1>4, <1>5 DEF PatchNext

\* For any number of files, with the user editing between the operations, as long as at most one
\* call fails: what a patch found is not lost at any moment (though the checkpoint has only its
\* text), a patch that ended changed all of its files or none, and undoing that ended without a
\* failing call put the texts back or refused.  (A second failing call of a patch, while a file is
\* put back, loses that file; one is enough when it fails in undoing.)
THEOREM PatchesAreAtomic ==
  ASSUME MaxFaults <= 1
  PROVE  PatchSpec => []PatchIsAtomic
<1>1. PatchInit => PatchInv
  BY PatchStarts
<1>2. PatchInv /\ [PatchNext]_patchVars => PatchInv'
  BY PatchSteps
<1>3. PatchInv => PatchIsAtomic
  <2> SUFFICES ASSUME PatchInv, ~raced PROVE OldIsSomewhere /\ AllOrNone /\ UndoneOrRefused
    BY DEF PatchIsAtomic
  <2>1. PatchTypeOK
    BY DEF PatchInv
  <2>2. OldIsSomewhere
    BY <2>1, ApplyKeepsOld DEF PatchInv, OldIsSomewhere
  <2>3. AllOrNone
    <3> SUFFICES ASSUME task.kind = "apply", PatchAt("idle")
                 PROVE  /\ aside = Nothing /\ fresh = Nothing
                        /\ \A p \in Paths : IF checkpoint.saved THEN holds[p] \in {"new", "mine"}
                             ELSE holds[p] # "new" /\ (before[p] # "absent" => holds[p] \in {before[p], "mine"})
      BY DEF AllOrNone, Ended
    <3>1. IsOver
      BY DEF PatchInv, ApplyInv
    <3>2. /\ aside \in [Paths -> Contents] /\ fresh \in [Paths -> Contents]
      BY <2>1, PatchTyped
    <3>3. aside = Nothing /\ fresh = Nothing
      BY <3>1, <3>2 DEF IsOver, Nothing
    <3> QED BY <3>1, <3>3 DEF IsOver
  <2>4. UndoneOrRefused
    BY DEF PatchInv, UndoInv, UndoneOrRefused, Ended
  <2> QED BY <2>2, <2>3, <2>4
<1> QED BY <1>1, <1>2, <1>3, PTL DEF PatchSpec

-----------------------------------------------------------------------------
(* ChatServe: an answer is the node's, whole, or none of it *)

Turn == [pc : {"new", "check", "question", "ask", "stream", "store", "pay", "reconcile", "reward",
               "bill", "grant", "told", "ended"},
         kind : Kinds, lane : {"FAST", "FALLBACK"}, cost : Nat, ref : InferRefs \cup {"own"},
         by : Authors, left : Int, got : Nat, heard : SUBSET Authors,
         route : {"none", "FAST", "FALLBACK"}]
AnswerTypes ==
  /\ prompt \in [Turns -> Turn]
  /\ stream \in [Turns -> [queue : Nat, over : {"no", "done", "error"}]]
  /\ proxy \in [Turns -> [pc : {"none", "speaks", "ended"}, said : Nat, wired : BOOLEAN]]
  /\ charged \in [Turns -> Int] /\ rewarded \in [Turns -> Nat]

AllOfNode(t) == prompt[t].heard = {"node"} /\ prompt[t].got = Words

\* While the node's answer comes in, what is in the queue and what was taken from it is what the
\* node said over the connection that carried the request; `done` came after all of it.
ComesIn(t) ==
  IF prompt[t].by = "node"
  THEN /\ prompt[t].heard = IF prompt[t].got = 0 THEN {} ELSE {"node"}
       /\ proxy[t].pc = "speaks" /\ proxy[t].wired => prompt[t].got + stream[t].queue = proxy[t].said
       /\ stream[t].over = "done" => proxy[t].pc # "speaks" /\ prompt[t].got + stream[t].queue = Words
  ELSE prompt[t].heard = {}

\* The rest of a turn: who spoke, which lane is noted, and what was paid by then.
ToldApart(t) ==
  /\ prompt[t].kind = "infer" => prompt[t].by = "node"
  /\ prompt[t].pc = "store" =>
       IF prompt[t].by = "node" THEN AllOfNode(t) ELSE "node" \notin prompt[t].heard
  /\ prompt[t].pc \in {"bill", "grant", "told"} => prompt[t].kind = "infer" /\ AllOfNode(t)
  /\ prompt[t].pc \notin {"pay", "reconcile", "reward", "ended"} => prompt[t].route = "none"
  /\ prompt[t].route = "FAST" => AllOfNode(t)
  /\ prompt[t].route = "FALLBACK" => "node" \notin prompt[t].heard
  /\ prompt[t].pc \in {"pay", "reconcile", "reward"} =>
       prompt[t].route = IF prompt[t].by = "node" THEN "FAST" ELSE "FALLBACK"
PaidFirst(t) ==
  /\ prompt[t].pc \notin {"reconcile", "reward", "bill", "grant", "told", "ended"} => charged[t] = 0
  /\ prompt[t].pc \notin {"bill", "grant", "told", "ended"} => rewarded[t] = 0
  /\ prompt[t].pc = "reconcile" => prompt[t].by # "node"
  /\ prompt[t].pc = "reward" /\ prompt[t].by = "node" => charged[t] = prompt[t].cost
  /\ rewarded[t] > 0 /\ prompt[t].kind = "chat" =>
       prompt[t].route = "FAST" /\ charged[t] = prompt[t].cost

\* Nobody speaks and nothing waits for a turn that does not listen to the node.
Listens(t) == prompt[t].pc = "stream" /\ prompt[t].by = "node"
Rests(t) == stream[t].queue = 0 /\ proxy[t].pc # "speaks"

TurnInv(t) ==
  /\ prompt[t].pc = "stream" => ComesIn(t)
  /\ ~Listens(t) => Rests(t)
  /\ ToldApart(t) /\ PaidFirst(t)
AnswerInv == AnswerTypes /\ \A t \in Turns : TurnInv(t)

Steps == {"new", "check", "question", "ask", "stream", "store", "pay", "reconcile", "reward",
          "bill", "grant", "told", "ended"}
Places == [queue : Nat, over : {"no", "done", "error"}]
Proxies == [pc : {"none", "speaks", "ended"}, said : Nat, wired : BOOLEAN]

LEMMA TurnFields ==
  ASSUME AnswerTypes, NEW t \in Turns
  PROVE  /\ prompt[t] \in Turn
         /\ prompt[t].pc \in Steps /\ prompt[t].kind \in Kinds /\ prompt[t].cost \in Nat
         /\ prompt[t].by \in Authors /\ prompt[t].left \in Int /\ prompt[t].got \in Nat
         /\ prompt[t].heard \subseteq Authors
         /\ stream[t] \in Places /\ stream[t].queue \in Nat /\ stream[t].over \in {"no", "done", "error"}
         /\ proxy[t] \in Proxies /\ proxy[t].said \in Nat /\ proxy[t].wired \in BOOLEAN
         /\ charged[t] \in Int /\ rewarded[t] \in Nat
BY DEF AnswerTypes, Turn, Steps, Places, Proxies

\* The turn goes on, and nothing else of it changes.
LEMMA TurnGoes ==
  ASSUME AnswerTypes, NEW t \in Turns, NEW s \in Steps, TurnTo(t, s)
  PROVE  /\ prompt' \in [Turns -> Turn] /\ prompt'[t].pc = s
         /\ prompt'[t].kind = prompt[t].kind /\ prompt'[t].by = prompt[t].by
         /\ prompt'[t].heard = prompt[t].heard /\ prompt'[t].got = prompt[t].got
         /\ prompt'[t].route = prompt[t].route /\ prompt'[t].cost = prompt[t].cost
<1>1. prompt \in [Turns -> Turn] /\ prompt' = [prompt EXCEPT ![t].pc = s]
  BY DEF AnswerTypes, TurnTo
<1>2. [prompt[t] EXCEPT !.pc = s] \in Turn
  BY TurnFields DEF Turn, Steps
<1>3. prompt' \in [Turns -> Turn] /\ prompt'[t] = [prompt[t] EXCEPT !.pc = s]
  BY <1>1, <1>2
<1> QED BY <1>3, TurnFields DEF Turn

\* What follows a call: by then it is known who spoke.
LEMMA CallFollows ==
  ASSUME AnswerTypes, NEW t \in Turns, NEW by \in Authors, NEW heard \in SUBSET Authors,
         prompt' = AfterCall(t, by, heard)
  PROVE  /\ prompt' \in [Turns -> Turn]
         /\ prompt'[t].pc = IF prompt[t].kind = "infer" THEN "bill"
                            ELSE IF prompt[t].left > 1 THEN "ask" ELSE "store"
         /\ prompt'[t].kind = prompt[t].kind /\ prompt'[t].by = by
         /\ prompt'[t].heard = heard /\ prompt'[t].got = prompt[t].got
         /\ prompt'[t].route = prompt[t].route
<1> DEFINE pc == IF prompt[t].kind = "infer" THEN "bill"
                 ELSE IF prompt[t].left > 1 THEN "ask" ELSE "store"
           l == prompt[t].left - 1
           r == Called(prompt[t], by, heard)
<1>1. pc \in Steps /\ l \in Int
  BY TurnFields DEF Steps
<1>2. r = [prompt[t] EXCEPT !.by = by, !.heard = heard, !.left = l, !.pc = pc]
  BY DEF Called
<1> HIDE DEF pc, l, r
<1>3. /\ r \in Turn /\ r.pc = pc /\ r.kind = prompt[t].kind /\ r.by = by /\ r.heard = heard
      /\ r.got = prompt[t].got /\ r.route = prompt[t].route
  BY <1>1, <1>2, TurnFields DEF Turn, Steps
<1>4. prompt' \in [Turns -> Turn] /\ prompt'[t] = r
  BY <1>3 DEF AnswerTypes, AfterCall, r
<1> QED BY <1>3, <1>4 DEF pc

\* A step of one turn leaves the others alone.
LEMMA OthersStay ==
  ASSUME AnswerTypes, NEW t \in Turns, NEW u \in Turns \ {t}, TurnInv(u),
         UNCHANGED <<prompt[u], stream[u], proxy[u], charged[u], rewarded[u]>>
  PROVE  TurnInv(u)'
BY DEF TurnInv, ComesIn, Listens, Rests, ToldApart, PaidFirst, AllOfNode

LEMMA NewTurns == NewTurn \in Turn /\ NewTurn.route = "none"
BY DEF NewTurn, Turn, Kinds, Authors

LEMMA AnswersStart == ChatInit => AnswerInv
<1> SUFFICES ASSUME ChatInit PROVE AnswerInv
  OBVIOUS
<1>1. AnswerTypes
  BY NewTurns DEF ChatInit, AnswerTypes, Quiet, NoProxy
<1>2. ASSUME NEW t \in Turns PROVE TurnInv(t)
  <2>1. prompt[t].pc = "new" /\ prompt[t].kind = "chat" /\ prompt[t].route = "none"
        /\ charged[t] = 0 /\ rewarded[t] = 0 /\ Rests(t)
    BY DEF ChatInit, NewTurn, Rests, Quiet, NoProxy
  <2> QED BY <2>1 DEF TurnInv, ToldApart, PaidFirst
<1> QED BY <1>1, <1>2 DEF AnswerInv

\* The record of a turn that is planned, for the chat or for a desktop.
Planned(pc, kind, lane, cost, by, left) ==
  [NewTurn EXCEPT !.pc = pc, !.kind = kind, !.lane = lane, !.cost = cost, !.by = by, !.left = left]
Relayed(pc, ref) ==
  [NewTurn EXCEPT !.pc = pc, !.kind = "infer", !.lane = "FAST", !.cost = 1, !.by = "node", !.ref = ref]

LEMMA PlannedTurn ==
  ASSUME NEW pc \in {"check", "ask", "ended"}, NEW kind \in Kinds, NEW lane \in {"FAST", "FALLBACK"},
         NEW cost \in Nat, NEW by \in Authors, NEW left \in Int
  PROVE  LET r == Planned(pc, kind, lane, cost, by, left)
         IN r \in Turn /\ r.pc = pc /\ r.kind = kind /\ r.by = by /\ r.route = "none"
BY NewTurns DEF Turn, Planned

LEMMA RelayedTurn ==
  ASSUME NEW pc \in {"check", "ask", "ended"}, NEW ref \in InferRefs \cup {"own"}
  PROVE  LET r == Relayed(pc, ref)
         IN r \in Turn /\ r.pc = pc /\ r.by = "node" /\ r.route = "none"
BY NewTurns DEF Turn, Kinds, Authors, Relayed

\* The request is planned, its balance looked at, its question stored.
LEMMA RequestSteps ==
  ASSUME AnswerInv, NEW t \in Turns, PlanTurn(t) \/ CheckBalance(t) \/ AddQuestion(t)
  PROVE  AnswerTypes' /\ TurnInv(t)'
<1>a. AnswerTypes /\ TurnInv(t)
  BY DEF AnswerInv
<1>b. UNCHANGED <<stream, proxy, charged, rewarded>>
  BY DEF PlanTurn, CheckBalance, AddQuestion, KeepNode, KeepMoney, moneyVars
<1>c. {"new", "check", "question", "ask", "ended"} \subseteq Steps
  BY DEF Steps
<1>d. prompt[t].pc \in {"new", "check", "question"} /\ prompt[t].route = "none"
      /\ charged[t] = 0 /\ rewarded[t] = 0 /\ (prompt[t].kind = "infer" => prompt[t].by = "node")
      /\ Rests(t)
  BY <1>a DEF PlanTurn, CheckBalance, AddQuestion, OnStep, TurnInv, Listens, ToldApart, PaidFirst
<1>1. CASE PlanTurn(t)
  <2>1. PICK r : /\ r \in Turn /\ prompt' = [prompt EXCEPT ![t] = r]
                 /\ r.pc \in {"check", "ask", "ended"} /\ r.route = "none"
                 /\ r.kind = "infer" => r.by = "node"
    <3>1. ASSUME NEW kind \in {"chat", "file", "vision"}, NEW lane \in {"FAST", "FALLBACK"}
          PROVE  LET r == Planned(IF conversation THEN "check" ELSE "ended", kind, lane, Billable(lane),
                                  IF lane = "FAST" /\ kind # "vision" THEN "node" ELSE "local",
                                  IF kind = "file" THEN FileParts ELSE 1)
                 IN r \in Turn /\ r.pc \in {"check", "ask", "ended"} /\ r.route = "none"
                    /\ r.kind # "infer"
      <4> DEFINE pc == IF conversation THEN "check" ELSE "ended"
                 by == IF lane = "FAST" /\ kind # "vision" THEN "node" ELSE "local"
                 left == IF kind = "file" THEN FileParts ELSE 1
      <4>1. /\ pc \in {"check", "ask", "ended"} /\ Billable(lane) \in Nat /\ by \in Authors
            /\ left \in Int /\ kind \in Kinds /\ kind # "infer"
        BY ChatAssumption DEF ChatAssumption, Billable, Authors, Kinds
      <4> HIDE DEF pc, by, left
      <4>2. LET r == Planned(pc, kind, lane, Billable(lane), by, left)
            IN r \in Turn /\ r.pc \in {"check", "ask", "ended"} /\ r.route = "none" /\ r.kind # "infer"
        BY <4>1, PlannedTurn
      <4> QED BY <4>2 DEF pc, by, left
    <3>2. ASSUME NEW ref \in InferRefs \cup {"own"}
          PROVE  LET r == Relayed(IF nodeUp THEN "ask" ELSE "ended", ref)
                 IN r \in Turn /\ r.pc \in {"check", "ask", "ended"} /\ r.route = "none" /\ r.by = "node"
      <4> DEFINE pc == IF nodeUp THEN "ask" ELSE "ended"
      <4>1. pc \in {"check", "ask", "ended"}
        OBVIOUS
      <4> HIDE DEF pc
      <4>2. LET r == Relayed(pc, ref)
            IN r \in Turn /\ r.pc \in {"check", "ask", "ended"} /\ r.route = "none" /\ r.by = "node"
        BY <4>1, RelayedTurn
      <4> QED BY <4>2 DEF pc
    <3>3. \/ \E kind \in {"chat", "file", "vision"}, lane \in {"FAST", "FALLBACK"} :
               prompt' = [prompt EXCEPT
                 ![t] = Planned(IF conversation THEN "check" ELSE "ended", kind, lane, Billable(lane),
                                IF lane = "FAST" /\ kind # "vision" THEN "node" ELSE "local",
                                IF kind = "file" THEN FileParts ELSE 1)]
          \/ \E ref \in InferRefs \cup {"own"} :
               prompt' = [prompt EXCEPT ![t] = Relayed(IF nodeUp THEN "ask" ELSE "ended", ref)]
      BY <1>1, Zenon DEF PlanTurn, Planned, Relayed
    <3> QED BY <3>1, <3>2, <3>3
  <2>2. prompt' \in [Turns -> Turn] /\ prompt'[t] = r
    BY <1>a, <2>1 DEF AnswerTypes
  <2>3. AnswerTypes'
    BY <1>a, <1>b, <2>2 DEF AnswerTypes
  <2> QED BY <1>b, <1>d, <2>1, <2>2, <2>3 DEF TurnInv, Rests, ToldApart, PaidFirst
<1>2. CASE CheckBalance(t) \/ AddQuestion(t)
  <2>1. PICK s \in {"question", "ask", "ended"} : TurnTo(t, s)
    BY <1>2 DEF CheckBalance, AddQuestion
  <2>2. /\ prompt' \in [Turns -> Turn] /\ prompt'[t].pc = s
        /\ prompt'[t].kind = prompt[t].kind /\ prompt'[t].by = prompt[t].by
        /\ prompt'[t].route = prompt[t].route
    BY <1>a, <1>c, <2>1, TurnGoes
  <2>3. AnswerTypes'
    BY <1>a, <1>b, <2>2 DEF AnswerTypes
  <2> QED BY <1>b, <1>d, <2>2, <2>3 DEF TurnInv, Rests, ToldApart, PaidFirst
<1> QED BY <1>1, <1>2

\* What an earlier step of the turn leaves of the invariant for the next one.
LEMMA StaysApart ==
  ASSUME NEW t \in Turns, ToldApart(t), PaidFirst(t), UNCHANGED <<charged, rewarded>>,
         prompt[t].pc \in {"ask", "stream"},
         prompt'[t].kind = prompt[t].kind, prompt'[t].route = prompt[t].route,
         prompt'[t].kind = "infer" => prompt'[t].by = "node",
         \/ prompt'[t].pc \in {"ask", "stream", "ended"}
         \/ /\ prompt'[t].pc = "store"
            /\ IF prompt'[t].by = "node" THEN AllOfNode(t)' ELSE "node" \notin prompt'[t].heard
         \/ prompt'[t].pc = "bill" /\ prompt[t].kind = "infer" /\ AllOfNode(t)'
  PROVE  ToldApart(t)' /\ PaidFirst(t)'
BY DEF ToldApart, PaidFirst

LEMMA AskSteps ==
  ASSUME AnswerInv, NEW t \in Turns, Ask(t)
  PROVE  AnswerTypes' /\ TurnInv(t)'
<1>a. AnswerTypes /\ TurnInv(t)
  BY DEF AnswerInv
<1>b. UNCHANGED <<charged, rewarded>> /\ prompt[t].pc = "ask"
  BY DEF Ask, KeepMoney, moneyVars, OnStep
<1>c. prompt \in [Turns -> Turn] /\ stream \in [Turns -> Places] /\ proxy \in [Turns -> Proxies]
  BY <1>a DEF AnswerTypes, Places, Proxies
<1>1. CASE EndTurn(t) /\ UNCHANGED <<stream, proxy>>
  <2>1. "ended" \in Steps
    BY DEF Steps
  <2>2. /\ prompt' \in [Turns -> Turn] /\ prompt'[t].pc = "ended"
        /\ prompt'[t].kind = prompt[t].kind /\ prompt'[t].by = prompt[t].by
        /\ prompt'[t].route = prompt[t].route
    BY <1>a, <1>1, <2>1, TurnGoes DEF EndTurn
  <2>3. AnswerTypes'
    BY <1>a, <1>b, <1>1, <2>2 DEF AnswerTypes
  <2>4. ~Listens(t)' /\ Rests(t)'
    BY <1>a, <1>b, <1>1, <2>2 DEF TurnInv, Listens, Rests
  <2>5. ToldApart(t)' /\ PaidFirst(t)'
    BY <1>a, <1>b, <2>2, StaysApart DEF TurnInv, ToldApart
  <2> QED BY <2>2, <2>3, <2>4, <2>5 DEF TurnInv
<1>2. CASE /\ prompt' = [prompt EXCEPT ![t].pc = "stream", ![t].got = 0, ![t].heard = {}]
           /\ IF prompt[t].by = "node"
              THEN /\ proxy' = [proxy EXCEPT
                        ![t] = IF nodeUp THEN [pc |-> "speaks", said |-> 0, wired |-> TRUE] ELSE NoProxy]
                   /\ stream' = [stream EXCEPT
                        ![t] = [queue |-> 0, over |-> IF nodeUp THEN "no" ELSE "error"]]
              ELSE UNCHANGED <<stream, proxy>>
  <2> DEFINE r == [prompt[t] EXCEPT !.pc = "stream", !.got = 0, !.heard = {}]
  <2>1. r \in Turn /\ r.pc = "stream" /\ r.got = 0 /\ r.heard = {}
        /\ r.kind = prompt[t].kind /\ r.by = prompt[t].by /\ r.route = prompt[t].route
    BY <1>a, TurnFields DEF Turn
  <2>2. prompt' = [prompt EXCEPT ![t] = r]
    BY <1>2, <1>c
  <2>3. prompt' \in [Turns -> Turn] /\ prompt'[t] = r
    BY <1>c, <2>1, <2>2
  <2> HIDE DEF r
  <2>4. /\ stream' \in [Turns -> Places] /\ proxy' \in [Turns -> Proxies]
        /\ prompt[t].by = "node" =>
             /\ stream'[t].queue = 0 /\ stream'[t].over # "done"
             /\ proxy'[t].pc = "speaks" => proxy'[t].said = 0
    <3>1. /\ [queue |-> 0, over |-> IF nodeUp THEN "no" ELSE "error"] \in Places
          /\ (IF nodeUp THEN [pc |-> "speaks", said |-> 0, wired |-> TRUE] ELSE NoProxy) \in Proxies
      BY DEF Places, Proxies, NoProxy
    <3>2. CASE prompt[t].by # "node"
      BY <1>2, <1>c, <3>2
    <3>3. CASE prompt[t].by = "node"
      <4> DEFINE s == [queue |-> 0, over |-> IF nodeUp THEN "no" ELSE "error"]
                 x == IF nodeUp THEN [pc |-> "speaks", said |-> 0, wired |-> TRUE] ELSE NoProxy
      <4>1. s.queue = 0 /\ s.over # "done" /\ (x.pc = "speaks" => x.said = 0)
        BY DEF NoProxy
      <4>2. stream' = [stream EXCEPT ![t] = s] /\ proxy' = [proxy EXCEPT ![t] = x]
        BY <1>2, <3>3
      <4>3. s \in Places /\ x \in Proxies
        BY <3>1
      <4> HIDE DEF s, x
      <4> QED BY <1>c, <4>1, <4>2, <4>3
    <3> QED BY <3>2, <3>3
  <2>5. AnswerTypes'
    BY <1>a, <1>b, <2>3, <2>4 DEF AnswerTypes, Places, Proxies
  <2>6. ComesIn(t)'
    BY <2>1, <2>3, <2>4, ChatAssumption DEF ComesIn, ChatAssumption
  <2>7. ~Listens(t)' => Rests(t)'
    BY <1>a, <1>b, <1>2, <2>1, <2>3 DEF TurnInv, Listens, Rests
  <2>8. ToldApart(t)' /\ PaidFirst(t)'
    BY <1>a, <1>b, <2>1, <2>3, StaysApart DEF TurnInv, ToldApart
  <2> QED BY <2>5, <2>6, <2>7, <2>8 DEF TurnInv
<1> QED BY <1>1, <1>2 DEF Ask

\* The node speaks, and the words are taken from the queue.
LEMMA WordSteps ==
  ASSUME AnswerInv, NEW t \in Turns, NodeSpeaks(t) \/ NodeEnds(t) \/ StreamGivesUp(t) \/ TakeWord(t)
  PROVE  AnswerTypes' /\ TurnInv(t)'
<1>a. AnswerTypes /\ TurnInv(t)
  BY DEF AnswerInv
<1>b. UNCHANGED <<charged, rewarded>> /\ prompt[t].pc = "stream"
  BY DEF NodeSpeaks, NodeEnds, StreamGivesUp, TakeWord, KeepMoney, moneyVars, OnStep
<1>c. prompt \in [Turns -> Turn] /\ stream \in [Turns -> Places] /\ proxy \in [Turns -> Proxies]
  BY <1>a DEF AnswerTypes, Places, Proxies
<1>d. Listens(t)
  BY <1>a, <1>b DEF TurnInv, Rests, Listens, NodeSpeaks, NodeEnds, StreamGivesUp, TakeWord
<1>e. /\ prompt[t].heard = IF prompt[t].got = 0 THEN {} ELSE {"node"}
      /\ proxy[t].pc = "speaks" /\ proxy[t].wired => prompt[t].got + stream[t].queue = proxy[t].said
      /\ stream[t].over = "done" => proxy[t].pc # "speaks" /\ prompt[t].got + stream[t].queue = Words
  BY <1>a, <1>b, <1>d DEF TurnInv, Listens, ComesIn
<1>f. /\ prompt[t].got \in Nat /\ stream[t] \in Places /\ stream[t].queue \in Nat
      /\ proxy[t] \in Proxies /\ proxy[t].said \in Nat
  BY <1>a, TurnFields
<1>g. ASSUME UNCHANGED prompt, stream' \in [Turns -> Places], proxy' \in [Turns -> Proxies],
             /\ proxy'[t].pc = "speaks" /\ proxy'[t].wired => prompt[t].got + stream'[t].queue = proxy'[t].said
             /\ stream'[t].over = "done" => proxy'[t].pc # "speaks" /\ prompt[t].got + stream'[t].queue = Words
      PROVE  AnswerTypes' /\ TurnInv(t)'
  <2>1. AnswerTypes'
    BY <1>a, <1>b, <1>g DEF AnswerTypes, Places, Proxies
  <2>2. ComesIn(t)' /\ Listens(t)'
    BY <1>b, <1>d, <1>e, <1>g DEF ComesIn, Listens
  <2>3. ToldApart(t)' /\ PaidFirst(t)'
    BY <1>a, <1>b, <1>g DEF TurnInv, ToldApart, PaidFirst, AllOfNode
  <2> QED BY <2>1, <2>2, <2>3 DEF TurnInv
<1>1. CASE NodeSpeaks(t)
  <2> DEFINE s == [stream[t] EXCEPT !.queue = @ + 1]
             x == [proxy[t] EXCEPT !.said = @ + 1]
  <2>1. /\ proxy[t].pc = "speaks" /\ UNCHANGED prompt
        /\ proxy' = [proxy EXCEPT ![t] = x]
        /\ stream' = IF proxy[t].wired THEN [stream EXCEPT ![t] = s] ELSE stream
    BY <1>1, <1>c DEF NodeSpeaks, Heard
  <2>2. /\ s \in Places /\ s.queue = stream[t].queue + 1 /\ s.over = stream[t].over
        /\ x \in Proxies /\ x.said = proxy[t].said + 1 /\ x.pc = proxy[t].pc /\ x.wired = proxy[t].wired
    BY <1>f DEF Places, Proxies
  <2> HIDE DEF s, x
  <2>3. /\ stream' \in [Turns -> Places] /\ proxy' \in [Turns -> Proxies] /\ proxy'[t] = x
        /\ stream'[t] = IF proxy[t].wired THEN s ELSE stream[t]
    BY <1>c, <2>1, <2>2
  <2> QED BY <1>e, <1>f, <1>g, <2>1, <2>2, <2>3
<1>2. CASE NodeEnds(t)
  <2> DEFINE x == [proxy[t] EXCEPT !.pc = "ended"]
  <2>1. PICK over \in (IF proxy[t].said = Words THEN {"done"} ELSE {}) \cup {"error"} :
          stream' = IF ~proxy[t].wired THEN stream
                    ELSE [stream EXCEPT ![t].over = IF @ = "error" THEN @ ELSE over]
    BY <1>2 DEF NodeEnds, Heard
  <2> DEFINE o == IF stream[t].over = "error" THEN "error" ELSE over
             s == [stream[t] EXCEPT !.over = o]
  <2>2. stream' = IF proxy[t].wired THEN [stream EXCEPT ![t] = s] ELSE stream
    BY <1>c, <2>1
  <2>3. proxy[t].pc = "speaks" /\ UNCHANGED prompt /\ proxy' = [proxy EXCEPT ![t] = x]
    BY <1>2, <1>c DEF NodeEnds
  <2>4. /\ o \in {"done", "error"} /\ (o = "done" => proxy[t].said = Words)
    OBVIOUS
  <2> HIDE DEF o
  <2>5. /\ s \in Places /\ s.queue = stream[t].queue /\ s.over = o
        /\ x \in Proxies /\ x.said = proxy[t].said /\ x.pc = "ended"
    BY <1>f, <2>4 DEF Places, Proxies
  <2> HIDE DEF s, x
  <2>6. /\ stream' \in [Turns -> Places] /\ proxy' \in [Turns -> Proxies] /\ proxy'[t] = x
        /\ stream'[t] = IF proxy[t].wired THEN s ELSE stream[t]
    BY <1>c, <2>2, <2>3, <2>5
  <2> QED BY <1>e, <1>f, <1>g, <2>3, <2>4, <2>5, <2>6
<1>3. CASE StreamGivesUp(t)
  <2> DEFINE s == [stream[t] EXCEPT !.over = "error"]
  <2>1. UNCHANGED <<prompt, proxy>> /\ stream' = [stream EXCEPT ![t] = s]
    BY <1>3, <1>c DEF StreamGivesUp
  <2>2. s \in Places /\ s.queue = stream[t].queue /\ s.over = "error"
    BY <1>f DEF Places
  <2> HIDE DEF s
  <2>3. stream' \in [Turns -> Places] /\ stream'[t] = s
    BY <1>c, <2>1, <2>2
  <2> QED BY <1>c, <1>e, <1>g, <2>1, <2>2, <2>3
<1>4. CASE TakeWord(t)
  <2> DEFINE s == [stream[t] EXCEPT !.queue = @ - 1]
             got == prompt[t].got + 1
             heard == prompt[t].heard \cup {"node"}
             r == [prompt[t] EXCEPT !.got = got, !.heard = heard]
  <2>1. /\ stream[t].queue > 0 /\ UNCHANGED proxy
        /\ stream' = [stream EXCEPT ![t] = s] /\ prompt' = [prompt EXCEPT ![t] = r]
    BY <1>4, <1>c DEF TakeWord
  <2>2. s \in Places /\ s.queue = stream[t].queue - 1 /\ s.over = stream[t].over
    BY <1>f, <2>1 DEF Places
  <2>3. got \in Nat /\ got # 0 /\ heard \in SUBSET Authors /\ heard = {"node"}
    BY <1>a, <1>e, <1>f, TurnFields DEF Authors
  <2> HIDE DEF got, heard
  <2>4. /\ r \in Turn /\ r.got = got /\ r.heard = heard
        /\ r.pc = "stream" /\ r.by = "node" /\ r.kind = prompt[t].kind /\ r.route = prompt[t].route
    BY <1>a, <1>d, <2>3, TurnFields DEF Turn, Listens
  <2> HIDE DEF s, r
  <2>5. /\ stream' \in [Turns -> Places] /\ stream'[t] = s
        /\ prompt' \in [Turns -> Turn] /\ prompt'[t] = r
    BY <1>c, <2>1, <2>2, <2>4
  <2>6. AnswerTypes'
    BY <1>a, <1>b, <2>1, <2>5 DEF AnswerTypes, Places
  <2>7. prompt'[t].got + stream'[t].queue = prompt[t].got + stream[t].queue
    BY <1>f, <2>2, <2>4, <2>5 DEF got
  <2>8. ComesIn(t)' /\ Listens(t)'
    BY <1>e, <2>1, <2>2, <2>3, <2>4, <2>5, <2>7 DEF ComesIn, Listens
  <2>9. ToldApart(t)' /\ PaidFirst(t)'
    BY <1>a, <1>b, <2>4, <2>5, StaysApart DEF TurnInv
  <2> QED BY <2>6, <2>8, <2>9 DEF TurnInv
<1> QED BY <1>1, <1>2, <1>3, <1>4

\* A call that failed goes on with the mock only where the node has no word in what follows.
LEMMA FailsApart ==
  ASSUME AnswerTypes, NEW t \in Turns, prompt' = CallFails(t), prompt[t].pc = "stream",
         prompt[t].by # "node" => prompt[t].kind # "infer"
  PROVE  /\ prompt' \in [Turns -> Turn]
         /\ prompt'[t].kind = prompt[t].kind /\ prompt'[t].route = prompt[t].route
         /\ prompt'[t].kind = "infer" => prompt'[t].by = prompt[t].by
         /\ \/ prompt'[t].pc \in {"ask", "ended"}
            \/ prompt'[t].pc = "store" /\ prompt'[t].by # "node" /\ "node" \notin prompt'[t].heard
<1>1. CASE FallsBack(t)
  <2>1. prompt' = AfterCall(t, "mock", prompt[t].heard \cup {"mock"})
    BY <1>1 DEF CallFails
  <2>3. \/ prompt[t].kind = "chat" /\ prompt[t].heard = {}
        \/ prompt[t].kind = "file" /\ prompt[t].left > 1
    BY <1>1 DEF FallsBack
  <2> DEFINE spoke == prompt[t].heard \cup {"mock"}
  <2>2. "mock" \in Authors /\ spoke \in SUBSET Authors /\ prompt' = AfterCall(t, "mock", spoke)
    BY <2>1, TurnFields DEF Authors
  <2>4. prompt[t].heard = {} => spoke = {"mock"}
    OBVIOUS
  <2> HIDE DEF spoke
  <2>5. /\ prompt' \in [Turns -> Turn]
        /\ prompt'[t].pc = IF prompt[t].kind = "infer" THEN "bill"
                           ELSE IF prompt[t].left > 1 THEN "ask" ELSE "store"
        /\ prompt'[t].kind = prompt[t].kind /\ prompt'[t].by = "mock"
        /\ prompt'[t].heard = spoke /\ prompt'[t].route = prompt[t].route
    BY <2>2, CallFollows
  <2> QED BY <2>3, <2>4, <2>5
<1>2. CASE ~FallsBack(t)
  <2>1. TurnTo(t, "ended") /\ "ended" \in Steps
    BY <1>2 DEF CallFails, TurnTo, Steps
  <2> QED BY <2>1, TurnGoes
<1> QED BY <1>1, <1>2

LEMMA CallSteps ==
  ASSUME AnswerInv, NEW t \in Turns, CallEnds(t) \/ LocalCall(t)
  PROVE  AnswerTypes' /\ TurnInv(t)'
<1>a. AnswerTypes /\ TurnInv(t)
  BY DEF AnswerInv
<1>b. UNCHANGED <<charged, rewarded>> /\ prompt[t].pc = "stream"
  BY DEF CallEnds, LocalCall, KeepMoney, moneyVars, OnStep
<1>c. stream \in [Turns -> Places] /\ proxy \in [Turns -> Proxies]
  BY <1>a DEF AnswerTypes, Places, Proxies
<1>d. ToldApart(t) /\ PaidFirst(t) /\ ComesIn(t) /\ prompt[t].by \in Authors
      /\ (prompt[t].kind = "infer" => prompt[t].by = "node")
  BY <1>a, <1>b, TurnFields DEF TurnInv, ToldApart
<1>e. stream' \in [Turns -> Places] /\ proxy' \in [Turns -> Proxies] /\ Rests(t)'
  <2>1. CASE CallEnds(t)
    <3>1. Quiet \in Places /\ NoProxy \in Proxies
      BY DEF Quiet, NoProxy, Places, Proxies
    <3>2. stream' = [stream EXCEPT ![t] = Quiet] /\ proxy' = [proxy EXCEPT ![t] = NoProxy]
      BY <2>1 DEF CallEnds, ListenersOff
    <3>3. /\ stream' \in [Turns -> Places] /\ proxy' \in [Turns -> Proxies]
          /\ stream'[t] = Quiet /\ proxy'[t] = NoProxy
      BY <1>c, <3>1, <3>2
    <3> QED BY <3>3 DEF Rests, Quiet, NoProxy
  <2>2. CASE LocalCall(t)
    BY <1>a, <1>c, <2>2 DEF LocalCall, KeepNode, TurnInv, Listens, Rests
  <2> QED BY <2>1, <2>2
<1>f. ASSUME /\ prompt' \in [Turns -> Turn]
             /\ prompt'[t].kind = prompt[t].kind /\ prompt'[t].route = prompt[t].route
             /\ prompt'[t].kind = "infer" => prompt'[t].by = "node"
             /\ \/ prompt'[t].pc \in {"ask", "ended"}
                \/ /\ prompt'[t].pc = "store"
                   /\ IF prompt'[t].by = "node" THEN AllOfNode(t)' ELSE "node" \notin prompt'[t].heard
                \/ prompt'[t].pc = "bill" /\ prompt[t].kind = "infer" /\ AllOfNode(t)'
      PROVE  AnswerTypes' /\ TurnInv(t)'
  <2>1. AnswerTypes'
    BY <1>a, <1>b, <1>e, <1>f DEF AnswerTypes, Places, Proxies
  <2>2. ToldApart(t)' /\ PaidFirst(t)'
    BY <1>b, <1>d, <1>f, StaysApart
  <2> QED BY <1>e, <1>f, <2>1, <2>2 DEF TurnInv
<1>g. CASE prompt' = CallFails(t)
  BY <1>a, <1>b, <1>d, <1>f, <1>g, FailsApart
<1>1. CASE CallEnds(t)
  <2>1. prompt[t].by = "node" /\ stream[t].queue = 0
        /\ prompt' = IF stream[t].over = "done" THEN AfterCall(t, "node", prompt[t].heard) ELSE CallFails(t)
    BY <1>1 DEF CallEnds
  <2>2. CASE stream[t].over = "done"
    <3>1. prompt[t].got = Words /\ prompt[t].heard = {"node"}
      BY <1>a, <1>d, <2>1, <2>2, TurnFields, ChatAssumption DEF ComesIn, ChatAssumption
    <3>2. {"node"} \in SUBSET Authors /\ "node" \in Authors /\ prompt' = AfterCall(t, "node", {"node"})
      BY <2>1, <2>2, <3>1 DEF Authors
    <3>3. /\ prompt' \in [Turns -> Turn]
          /\ prompt'[t].pc = IF prompt[t].kind = "infer" THEN "bill"
                             ELSE IF prompt[t].left > 1 THEN "ask" ELSE "store"
          /\ prompt'[t].kind = prompt[t].kind /\ prompt'[t].by = "node"
          /\ prompt'[t].heard = {"node"} /\ prompt'[t].got = prompt[t].got
          /\ prompt'[t].route = prompt[t].route
      BY <1>a, <3>2, CallFollows
    <3> QED BY <1>f, <3>1, <3>3 DEF AllOfNode
  <2> QED BY <1>g, <2>1, <2>2
<1>2. CASE LocalCall(t)
  <2>1. prompt[t].by # "node" /\ prompt[t].kind # "infer"
    BY <1>2, <1>d DEF LocalCall
  <2>2. CASE prompt' = AfterCall(t, prompt[t].by, {prompt[t].by})
    <3> DEFINE by == prompt[t].by
    <3>1. {by} \in SUBSET Authors /\ by \in Authors /\ by # "node"
      BY <1>d, <2>1
    <3>2. /\ prompt' \in [Turns -> Turn]
          /\ prompt'[t].pc = IF prompt[t].kind = "infer" THEN "bill"
                             ELSE IF prompt[t].left > 1 THEN "ask" ELSE "store"
          /\ prompt'[t].kind = prompt[t].kind /\ prompt'[t].by = by
          /\ prompt'[t].heard = {by} /\ prompt'[t].route = prompt[t].route
      BY <1>a, <2>2, <3>1, CallFollows
    <3> QED BY <1>f, <2>1, <3>1, <3>2
  <2>3. CASE EndTurn(t)
    <3>1. TurnTo(t, "ended") /\ "ended" \in Steps
      BY <2>3 DEF EndTurn, Steps
    <3>2. /\ prompt' \in [Turns -> Turn] /\ prompt'[t].pc = "ended"
          /\ prompt'[t].kind = prompt[t].kind /\ prompt'[t].route = prompt[t].route
      BY <1>a, <3>1, TurnGoes
    <3> QED BY <1>f, <2>1, <3>2
  <2> QED BY <1>2, <1>g, <2>2, <2>3 DEF LocalCall
<1> QED BY <1>1, <1>2

\* An answer is stored before it is paid for, and paid for before the node is rewarded.
LEMMA MoneySteps ==
  ASSUME AnswerInv, NEW t \in Turns,
         Store(t) \/ Pay(t) \/ Reconcile(t) \/ Reward(t) \/ Bill(t) \/ RewardServe(t)
  PROVE  AnswerTypes' /\ TurnInv(t)'
<1>a. AnswerTypes /\ TurnInv(t)
  BY DEF AnswerInv
<1>b. UNCHANGED <<stream, proxy>> /\ ~Listens(t) /\ prompt[t].pc # "stream"
      /\ prompt[t].pc \in {"store", "pay", "reconcile", "reward", "bill", "grant"}
  BY DEF Store, Pay, Reconcile, Reward, Bill, RewardServe, KeepNode, OnStep, Listens
<1>c. /\ prompt \in [Turns -> Turn] /\ charged \in [Turns -> Int] /\ rewarded \in [Turns -> Nat]
      /\ charged[t] \in Int /\ rewarded[t] \in Nat /\ prompt[t].cost \in Nat
  BY <1>a, TurnFields DEF AnswerTypes
<1>d. ToldApart(t) /\ PaidFirst(t) /\ Rests(t)
  BY <1>a, <1>b DEF TurnInv
<1>e. {"pay", "reconcile", "reward", "grant", "told", "ended"} \subseteq Steps
  BY DEF Steps
<1>f. ASSUME prompt' \in [Turns -> Turn], charged' \in [Turns -> Int], rewarded' \in [Turns -> Nat],
             prompt'[t].pc # "stream", ToldApart(t)', PaidFirst(t)'
      PROVE  AnswerTypes' /\ TurnInv(t)'
  BY <1>a, <1>b, <1>d, <1>f DEF AnswerTypes, TurnInv, Rests, Listens
<1>g. ASSUME NEW s \in Steps, TurnTo(t, s)
      PROVE  /\ prompt' \in [Turns -> Turn] /\ prompt'[t].pc = s
             /\ prompt'[t].kind = prompt[t].kind /\ prompt'[t].by = prompt[t].by
             /\ prompt'[t].heard = prompt[t].heard /\ prompt'[t].got = prompt[t].got
             /\ prompt'[t].route = prompt[t].route /\ prompt'[t].cost = prompt[t].cost
  BY <1>a, <1>g, TurnGoes
<1>h. ASSUME NEW n \in Int, Charge(t, n)
      PROVE  charged' \in [Turns -> Int] /\ charged'[t] = charged[t] + n
  BY <1>c, <1>h DEF Charge
<1>i. ASSUME Grant(t) PROVE rewarded' \in [Turns -> Nat]
  BY <1>c, <1>i DEF Grant
<1>1. CASE Store(t)
  <2> DEFINE pc == IF conversation THEN "pay" ELSE "ended"
             route == IF ~conversation THEN "none"
                      ELSE IF prompt[t].by = "node" THEN "FAST" ELSE "FALLBACK"
             r == [prompt[t] EXCEPT !.pc = pc, !.route = route]
  <2>1. prompt' = [prompt EXCEPT ![t] = r] /\ UNCHANGED <<charged, rewarded>> /\ prompt[t].pc = "store"
    BY <1>1, <1>c DEF Store, KeepMoney, moneyVars, OnStep
  <2>2. /\ pc \in {"pay", "ended"} /\ route \in {"none", "FAST", "FALLBACK"}
        /\ pc = "pay" => route = IF prompt[t].by = "node" THEN "FAST" ELSE "FALLBACK"
        /\ route = "FAST" => prompt[t].by = "node"
        /\ route = "FALLBACK" => prompt[t].by # "node"
    OBVIOUS
  <2> HIDE DEF pc, route
  <2>3. /\ r \in Turn /\ r.pc = pc /\ r.route = route /\ r.kind = prompt[t].kind /\ r.by = prompt[t].by
        /\ r.heard = prompt[t].heard /\ r.got = prompt[t].got /\ r.cost = prompt[t].cost
    BY <1>a, <2>2, TurnFields DEF Turn
  <2> HIDE DEF r
  <2>4. prompt' \in [Turns -> Turn] /\ prompt'[t] = r
    BY <1>c, <2>1, <2>3
  <2>5. ToldApart(t)'
    BY <1>d, <2>1, <2>2, <2>3, <2>4 DEF ToldApart, AllOfNode
  <2>6. PaidFirst(t)'
    BY <1>d, <2>1, <2>2, <2>3, <2>4 DEF PaidFirst
  <2> QED BY <1>c, <1>f, <2>1, <2>2, <2>3, <2>4, <2>5, <2>6
<1>2. CASE Pay(t)
  <2>1. UNCHANGED rewarded /\ prompt[t].pc = "pay"
    BY <1>2 DEF Pay, OnStep
  <2>2. CASE EndTurn(t) /\ UNCHANGED charged
    <3>1. TurnTo(t, "ended") /\ "ended" \in Steps
      BY <1>e, <2>2 DEF EndTurn
    <3>2. ToldApart(t)' /\ PaidFirst(t)'
      BY <1>d, <1>g, <2>1, <2>2, <3>1 DEF ToldApart, PaidFirst, AllOfNode
    <3> QED BY <1>c, <1>f, <1>g, <2>1, <2>2, <3>1, <3>2
  <2>3. CASE /\ Charge(t, prompt[t].cost)
             /\ TurnTo(t, CASE prompt[t].kind # "chat" -> "ended"
                            [] prompt[t].by = "local" /\ prompt[t].cost > 0 -> "reconcile"
                            [] OTHER -> "reward")
    <3> DEFINE s == CASE prompt[t].kind # "chat" -> "ended"
                      [] prompt[t].by = "local" /\ prompt[t].cost > 0 -> "reconcile"
                      [] OTHER -> "reward"
    <3>1. s \in {"ended", "reconcile", "reward"} /\ (s = "reconcile" => prompt[t].by # "node")
      OBVIOUS
    <3>2. TurnTo(t, s)
      BY <2>3
    <3> HIDE DEF s
    <3>3. charged' \in [Turns -> Int] /\ charged'[t] = prompt[t].cost
      BY <1>c, <1>d, <1>h, <2>1, <2>3 DEF PaidFirst
    <3>4. /\ prompt' \in [Turns -> Turn] /\ prompt'[t].pc = s
          /\ prompt'[t].kind = prompt[t].kind /\ prompt'[t].by = prompt[t].by
          /\ prompt'[t].heard = prompt[t].heard /\ prompt'[t].got = prompt[t].got
          /\ prompt'[t].route = prompt[t].route /\ prompt'[t].cost = prompt[t].cost
      BY <1>e, <1>g, <3>1, <3>2
    <3>5. ToldApart(t)'
      BY <1>d, <2>1, <3>1, <3>4 DEF ToldApart, AllOfNode
    <3>6. PaidFirst(t)'
      BY <1>c, <1>d, <2>1, <3>1, <3>3, <3>4 DEF PaidFirst
    <3> QED BY <1>c, <1>f, <2>1, <3>1, <3>3, <3>4, <3>5, <3>6
  <2> QED BY <1>2, <2>2, <2>3 DEF Pay
<1>3. CASE Reconcile(t)
  <2>1. UNCHANGED rewarded /\ prompt[t].pc = "reconcile" /\ TurnTo(t, "reward") /\ "reward" \in Steps
    BY <1>3, <1>e DEF Reconcile, OnStep
  <2>2. charged' \in [Turns -> Int]
    <3>1. PICK actual \in 1 .. Price + 1 : Charge(t, actual - Price) \/ UNCHANGED charged
      BY <1>3 DEF Reconcile
    <3>2. actual - Price \in Int
      BY ChatAssumption DEF ChatAssumption
    <3> QED BY <1>c, <1>h, <3>1, <3>2
  <2>3. ToldApart(t)'
    BY <1>d, <1>g, <2>1 DEF ToldApart, AllOfNode
  <2>4. PaidFirst(t)'
    BY <1>c, <1>d, <1>g, <2>1 DEF PaidFirst
  <2> QED BY <1>c, <1>f, <1>g, <2>1, <2>2, <2>3, <2>4
<1>4. CASE Reward(t)
  <2>1. UNCHANGED charged /\ prompt[t].pc = "reward" /\ TurnTo(t, "ended") /\ "ended" \in Steps
    BY <1>4, <1>e DEF Reward, OnStep, EndTurn
  <2>2. rewarded' \in [Turns -> Nat] /\ (prompt[t].by = "node" \/ rewarded' = rewarded)
    BY <1>4, <1>c, <1>i DEF Reward, ServedByNode
  <2>3. ToldApart(t)'
    BY <1>d, <1>g, <2>1 DEF ToldApart, AllOfNode
  <2>4. PaidFirst(t)'
    BY <1>c, <1>d, <1>g, <2>1, <2>2 DEF PaidFirst, ToldApart
  <2> QED BY <1>c, <1>f, <1>g, <2>1, <2>2, <2>3, <2>4
<1>5. CASE Bill(t) \/ RewardServe(t)
  <2>1. prompt[t].kind = "infer" /\ prompt[t].kind # "chat" /\ prompt[t].pc \in {"bill", "grant"}
    BY <1>5, <1>d DEF Bill, RewardServe, OnStep, ToldApart
  <2>2. PICK s \in {"grant", "told"} : TurnTo(t, s)
    BY <1>5 DEF Bill, RewardServe
  <2>3. charged' \in [Turns -> Int]
    BY <1>5, <1>c, <1>h DEF Bill, RewardServe
  <2>4. rewarded' \in [Turns -> Nat]
    BY <1>5, <1>c, <1>i DEF Bill, RewardServe
  <2>5. /\ prompt' \in [Turns -> Turn] /\ prompt'[t].pc = s
        /\ prompt'[t].kind = prompt[t].kind /\ prompt'[t].by = prompt[t].by
        /\ prompt'[t].heard = prompt[t].heard /\ prompt'[t].got = prompt[t].got
        /\ prompt'[t].route = prompt[t].route
    BY <1>e, <1>g, <2>2
  <2>6. ToldApart(t)' /\ PaidFirst(t)'
    BY <1>d, <2>1, <2>5 DEF ToldApart, PaidFirst, AllOfNode
  <2> QED BY <1>f, <2>3, <2>4, <2>5, <2>6
<1> QED BY <1>1, <1>2, <1>3, <1>4, <1>5

\* A step of a turn touches what belongs to this turn.
LEMMA TurnsStayApart ==
  ASSUME AnswerTypes, NEW t \in Turns, TurnNext(t), NEW u \in Turns \ {t}
  PROVE  UNCHANGED <<prompt[u], stream[u], proxy[u], charged[u], rewarded[u]>>
<1>a. /\ DOMAIN prompt = Turns /\ DOMAIN stream = Turns /\ DOMAIN proxy = Turns
      /\ DOMAIN charged = Turns /\ DOMAIN rewarded = Turns /\ u \in Turns /\ u # t
  BY DEF AnswerTypes
<1>1. prompt'[u] = prompt[u]
  BY <1>a DEF TurnNext, PlanTurn, CheckBalance, AddQuestion, Ask, NodeSpeaks, NodeEnds, StreamGivesUp, TakeWord,
     CallEnds, LocalCall, Store, Pay, Reconcile, Reward, Bill, RewardServe, TurnTo, EndTurn, AfterCall, CallFails
<1>2. stream'[u] = stream[u] /\ proxy'[u] = proxy[u]
  BY <1>a DEF TurnNext, PlanTurn, CheckBalance, AddQuestion, Ask, NodeSpeaks, NodeEnds, StreamGivesUp, TakeWord,
     CallEnds, LocalCall, Store, Pay, Reconcile, Reward, Bill, RewardServe, KeepNode, ListenersOff
<1>3. charged'[u] = charged[u] /\ rewarded'[u] = rewarded[u]
  BY <1>a DEF TurnNext, PlanTurn, CheckBalance, AddQuestion, Ask, NodeSpeaks, NodeEnds, StreamGivesUp, TakeWord,
     CallEnds, LocalCall, Store, Pay, Reconcile, Reward, Bill, RewardServe, KeepMoney, moneyVars, Charge, Grant
<1> QED BY <1>1, <1>2, <1>3

LEMMA AnswerSteps == AnswerInv /\ [ChatNext]_chatVars => AnswerInv'
<1> SUFFICES ASSUME AnswerInv, [ChatNext]_chatVars PROVE AnswerInv'
  OBVIOUS
<1>a. AnswerTypes /\ \A t \in Turns : TurnInv(t)
  BY DEF AnswerInv
<1>c. prompt \in [Turns -> Turn] /\ stream \in [Turns -> Places] /\ proxy \in [Turns -> Proxies]
  BY <1>a DEF AnswerTypes, Places, Proxies
<1>1. ASSUME NEW t \in Turns, TurnNext(t) PROVE AnswerInv'
  <2>1. AnswerTypes' /\ TurnInv(t)'
    BY <1>1, RequestSteps, AskSteps, WordSteps, CallSteps, MoneySteps DEF TurnNext
  <2>2. ASSUME NEW u \in Turns \ {t} PROVE TurnInv(u)'
    BY <1>1, <1>a, <2>2, TurnsStayApart, OthersStay
  <2> QED BY <2>1, <2>2 DEF AnswerInv
<1>2. CASE NodeGoes
  <2>1. UNCHANGED <<prompt, stream, charged, rewarded>>
        /\ proxy' = [t \in Turns |-> [proxy[t] EXCEPT !.wired = FALSE]]
    BY <1>2 DEF NodeGoes, KeepMoney, moneyVars
  <2>2. ASSUME NEW t \in Turns
        PROVE  /\ [proxy[t] EXCEPT !.wired = FALSE] \in Proxies
               /\ proxy'[t].pc = proxy[t].pc /\ ~proxy'[t].wired
    BY <1>c, <2>1 DEF Proxies
  <2>3. proxy' \in [Turns -> Proxies]
    BY <2>1, <2>2
  <2>4. AnswerTypes'
    BY <1>a, <2>1, <2>3 DEF AnswerTypes, Proxies
  <2>5. ASSUME NEW t \in Turns PROVE TurnInv(t)'
    BY <1>a, <2>1, <2>2 DEF TurnInv, ComesIn, Listens, Rests, ToldApart, PaidFirst, AllOfNode
  <2> QED BY <2>4, <2>5 DEF AnswerInv
<1>3. CASE NodeReturns \/ RemoveConversation \/ UNCHANGED chatVars
  <2>1. UNCHANGED <<prompt, stream, proxy, charged, rewarded>>
    BY <1>3 DEF NodeReturns, RemoveConversation, KeepNode, KeepMoney, moneyVars, chatVars
  <2>2. AnswerTypes'
    BY <1>a, <2>1 DEF AnswerTypes
  <2>3. ASSUME NEW t \in Turns PROVE TurnInv(t)'
    BY <1>a, <2>1 DEF TurnInv, ComesIn, Listens, Rests, ToldApart, PaidFirst, AllOfNode
  <2> QED BY <2>2, <2>3 DEF AnswerInv
<1>4. CASE ApiStops
  <2>1. /\ UNCHANGED <<charged, rewarded>>
        /\ proxy' = [t \in Turns |-> NoProxy] /\ stream' = [t \in Turns |-> Quiet]
        /\ prompt' = [t \in Turns |-> IF prompt[t].pc \in {"new", "told"} THEN prompt[t]
                                      ELSE [prompt[t] EXCEPT !.pc = "ended"]]
    BY <1>4 DEF ApiStops, KeepMoney, moneyVars
  <2>2. proxy' \in [Turns -> Proxies] /\ stream' \in [Turns -> Places]
    BY <2>1 DEF NoProxy, Quiet, Proxies, Places
  <2>3. ASSUME NEW t \in Turns
        PROVE  /\ prompt'[t] \in Turn
               /\ prompt'[t].kind = prompt[t].kind /\ prompt'[t].by = prompt[t].by
               /\ prompt'[t].heard = prompt[t].heard /\ prompt'[t].got = prompt[t].got
               /\ prompt'[t].route = prompt[t].route /\ prompt'[t].cost = prompt[t].cost
               /\ \/ prompt'[t].pc = "ended"
                  \/ prompt[t].pc \in {"new", "told"} /\ prompt'[t].pc = prompt[t].pc
    BY <1>c, <2>1 DEF Turn
  <2>4. prompt' \in [Turns -> Turn]
    BY <2>1, <2>3
  <2>5. AnswerTypes'
    BY <1>a, <2>1, <2>2, <2>4 DEF AnswerTypes, Places, Proxies
  <2>6. ASSUME NEW t \in Turns PROVE TurnInv(t)'
    <3>1. Rests(t)' /\ prompt'[t].pc # "stream"
      BY <2>1, <2>3 DEF Rests, NoProxy, Quiet
    <3>2. ToldApart(t)'
      BY <1>a, <2>3 DEF TurnInv, ToldApart, AllOfNode
    <3>3. PaidFirst(t)'
      BY <1>a, <2>1, <2>3 DEF TurnInv, PaidFirst
    <3> QED BY <3>1, <3>2, <3>3 DEF TurnInv
  <2> QED BY <2>5, <2>6 DEF AnswerInv
<1> QED BY <1>1, <1>2, <1>3, <1>4 DEF ChatNext

\* An answer that is stored or relayed is all of the node's words or none of them, the lane that is
\* noted says which, and a chat rewards the node only for its own whole answer that was paid for:
\* for any number of turns, words and prices, wherever the node, the conversation or the API goes.
THEOREM AnswersAreWhole == ChatSpec => []AnswerIsWhole
<1>1. AnswerInv => AnswerIsWhole
  <2> SUFFICES ASSUME AnswerInv, NEW t \in Turns
               PROVE  /\ prompt[t].route = "FAST" \/ prompt[t].pc = "told" => AllOfNode(t)
                      /\ prompt[t].route = "FALLBACK" => "node" \notin prompt[t].heard
                      /\ rewarded[t] > 0 /\ prompt[t].kind = "chat" =>
                           prompt[t].route = "FAST" /\ charged[t] = prompt[t].cost
    BY DEF AnswerIsWhole, AllOfNode
  <2>1. ToldApart(t) /\ PaidFirst(t)
    BY DEF AnswerInv, TurnInv
  <2> QED BY <2>1 DEF ToldApart, PaidFirst
<1> QED BY <1>1, AnswersStart, AnswerSteps, PTL DEF ChatSpec

-----------------------------------------------------------------------------
(* Desktop: nothing the shell started survives it *)

ApiStates == {"none", "starting", "up", "hung", "dead"}
Down == database # "on" /\ ~webServer /\ PortFree

\* The window is there exactly while the shell is up.  Only from there, or when it fails to boot,
\* does it say that it means to quit, and it has stopped everything by then.  The tool runs while
\* the stack is brought up to date; a quit that finds the stack starting is early.
ShellInv ==
  /\ apis \in [Processes -> ApiStates]
  /\ window # "none" <=> stage = "up"
  /\ tool => stage = "migrate" \/ (stage = "ended" /\ early)
  /\ quit => stage \in {"up", "ended"} \/ early
  /\ isQuitting => stage \in {"up", "ended"} /\ Down
  /\ stage = "ended" /\ ~early => Down

LEMMA ShellStarts == DesktopInit => ShellInv
BY DEF DesktopInit, ShellInv, ApiStates

\* stopAll leaves no process that nobody stopped.
LEMMA StopAllStops ==
  ASSUME apis \in [Processes -> ApiStates], StopAll
  PROVE  apis' \in [Processes -> ApiStates] /\ Down'
BY DEF StopAll, Stopped, Running, Down, PortFree, ApiStates

\* Where no process runs, none gets anywhere by itself.
LEMMA DownStays ==
  ASSUME Down, UNCHANGED <<webServer, apis>>, database' = database \/ database' = "off"
  PROVE  Down'
BY DEF Down, PortFree, Running

LEMMA ShellSteps == ShellInv /\ [DesktopNext]_desktopVars => ShellInv'
<1> SUFFICES ASSUME ShellInv, [DesktopNext]_desktopVars PROVE ShellInv'
  OBVIOUS
<1>a. apis \in [Processes -> ApiStates]
  BY DEF ShellInv
<1>b. /\ window # "none" <=> stage = "up"
      /\ tool => stage = "migrate" \/ (stage = "ended" /\ early)
      /\ quit => stage \in {"up", "ended"} \/ early
      /\ isQuitting => stage \in {"up", "ended"} /\ Down
      /\ stage = "ended" /\ ~early => Down
  BY DEF ShellInv
<1> DEFINE Still == UNCHANGED <<stage, window, quit, isQuitting, early, tool>>
<1>1. CASE StartDb \/ Migrate
  <2>1. /\ UNCHANGED <<window, quit, isQuitting, early, apis>> /\ stage \in {"database", "migrate"}
        /\ stage' = "migrate" \/ (stage' = "api" /\ ~tool')
    BY <1>1 DEF StartDb, Migrate, BootTo, shellVars, stackVars
  <2> QED BY <1>a, <1>b, <2>1 DEF ShellInv
<1>2. ASSUME NEW a \in Processes, StartApi(a) PROVE ShellInv'
  BY <1>2, <1>a, <1>b DEF StartApi, BootTo, shellVars, ShellInv, ApiStates
<1>3. CASE ApiAnswered
  BY <1>3, <1>a, <1>b DEF ApiAnswered, BootTo, stackVars, ShellInv
<1>4. CASE ApiGivenUp
  BY <1>4, <1>a, <1>b DEF ApiGivenUp, BootTo, shellVars, ShellInv, ApiStates
<1>5. CASE BootFails
  <2>1. stage # "up" /\ stage' = "ended" /\ ~tool' /\ UNCHANGED <<window, quit>>
    BY <1>5 DEF BootFails, BootTo
  <2>2. apis' \in [Processes -> ApiStates] /\ Down'
    BY <1>5, <1>a, StopAllStops DEF BootFails
  <2> QED BY <1>b, <2>1, <2>2 DEF ShellInv
<1>6. ASSUME NEW a \in Processes, ApiDoes(a) PROVE ShellInv'
  <2>1. ~Down /\ Still /\ apis' \in [Processes -> ApiStates]
    BY <1>6, <1>a DEF ApiDoes, Down, PortFree, bootVars, shellVars, ApiStates
  <2> QED BY <1>b, <2>1 DEF ShellInv
<1>7. CASE Probe \/ RestartEnds
  <2>1. Still /\ UNCHANGED <<database, webServer, apis>>
    BY <1>7 DEF Probe, RestartEnds, bootVars, shellVars, stackVars
  <2> QED BY <1>a, <1>b, <2>1, DownStays DEF ShellInv
<1>8. CASE RestartKill
  <2>1. /\ Still /\ UNCHANGED <<database, webServer>>
        /\ isQuitting => UNCHANGED apis
        /\ stage = "up" /\ apis' \in [Processes -> ApiStates]
    BY <1>8, <1>a DEF RestartKill, bootVars, shellVars, ApiStates
  <2> QED BY <1>b, <2>1, DownStays DEF ShellInv
<1>9. ASSUME NEW a \in Processes, RestartSpawn(a) PROVE ShellInv'
  <2>1. /\ Still /\ UNCHANGED <<database, webServer>>
        /\ isQuitting => UNCHANGED apis
        /\ stage = "up" /\ apis' \in [Processes -> ApiStates]
    BY <1>9, <1>a DEF RestartSpawn, bootVars, shellVars, ApiStates
  <2> QED BY <1>b, <2>1, DownStays DEF ShellInv
<1>10. CASE CloseWindow \/ ShowWindow
  <2>1. /\ UNCHANGED <<stage, quit, isQuitting, early, tool, database, webServer, apis>>
        /\ window # "none" /\ window' # "none"
    BY <1>10 DEF CloseWindow, ShowWindow, bootVars, stackVars
  <2> QED BY <1>a, <1>b, <2>1, DownStays DEF ShellInv
<1>11. ASSUME NEW tray \in BOOLEAN, Quit(tray) PROVE ShellInv'
  <2>1. apis' \in [Processes -> ApiStates] /\ Down'
    BY <1>11, <1>a, StopAllStops DEF Quit
  <2>2. /\ UNCHANGED <<stage, window, tool>> /\ stage # "ended"
        /\ isQuitting' = (isQuitting \/ tray) /\ (tray => stage = "up")
        /\ early' = (stage # "up")
    BY <1>11 DEF Quit, bootVars
  <2> QED BY <1>b, <2>1, <2>2 DEF ShellInv
<1>12. CASE WindowAsked
  <2>1. /\ quit /\ ~quit' /\ stage # "ended"
        /\ UNCHANGED <<isQuitting, early, tool, database, webServer, apis>>
        /\ isQuitting \/ window = "none" => stage' = "ended" /\ window' = "none"
        /\ ~(isQuitting \/ window = "none") => UNCHANGED stage /\ window' = "hidden"
    <3>1. IF isQuitting \/ window = "none"
          THEN stage' = "ended" /\ window' = "none"
          ELSE window' = "hidden" /\ UNCHANGED stage
      BY <1>12 DEF WindowAsked, BootTo
    <3> QED BY <1>12, <3>1 DEF WindowAsked, stackVars
  <2>2. Down => Down'
    BY <2>1, DownStays
  <2>3. stage' = "ended" => early \/ (Down /\ ~tool)
    BY <2>1, <1>b
  <2> QED BY <1>a, <1>b, <2>1, <2>2, <2>3 DEF ShellInv
<1>13. CASE UpdateEnds \/ \E v \in 1 .. MaxVersion : CheckForUpdates(v)
  <2>1. Still /\ UNCHANGED <<database, webServer, apis>>
    BY <1>13 DEF UpdateEnds, CheckForUpdates, bootVars, shellVars, stackVars
  <2> QED BY <1>a, <1>b, <2>1, DownStays DEF ShellInv
<1>14. CASE InstallUpdate
  <2>1. apis' \in [Processes -> ApiStates] /\ Down'
    BY <1>14, <1>a, StopAllStops DEF InstallUpdate
  <2> QED BY <1>14, <1>b, <2>1 DEF InstallUpdate, ShellInv
<1>15. CASE Launch
  BY <1>15, <1>a, <1>b DEF Launch, BootTo, ShellInv
<1>16. CASE DbStops
  <2>1. Still /\ UNCHANGED <<webServer, apis>> /\ database' = "off"
    BY <1>16 DEF DbStops, bootVars, shellVars
  <2> QED BY <1>a, <1>b, <2>1, DownStays DEF ShellInv
<1>17. CASE UNCHANGED desktopVars
  <2>1. Still /\ UNCHANGED <<database, webServer, apis>>
    BY <1>17 DEF desktopVars
  <2> QED BY <1>a, <1>b, <2>1, DownStays DEF ShellInv
<1> QED BY <1>1, <1>2, <1>3, <1>4, <1>5, <1>6, <1>7, <1>8, <1>9, <1>10, <1>11, <1>12, <1>13, <1>14,
           <1>15, <1>16, <1>17 DEF DesktopNext

\* Whenever the user quits once the stack has started, or a boot fails, also in the middle of a
\* restart of the API: no web server or API outlives the shell, and no database that was not told
\* to stop.
THEOREM ShellTakesAllAlong == DesktopSpec => []NothingSurvives
<1>1. ShellInv => NothingSurvives
  BY DEF ShellInv, Down, NothingSurvives
<1> QED BY <1>1, ShellStarts, ShellSteps, PTL DEF DesktopSpec
=============================================================================
