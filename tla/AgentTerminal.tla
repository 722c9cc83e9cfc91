----------------------------- MODULE AgentTerminal -----------------------------
(***************************************************************************)
(* The processes that an agent leaves running (agent-terminal.service.ts):  *)
(* a session is kept for each, with a timer; a process ends by itself, is   *)
(* stopped by the agent, by its timer, or when its run is cancelled.  Its   *)
(* end is noticed some time after it, and to be told to end is not to end.  *)
(* Nothing is told when the API ends: onModuleDestroy would do it, but      *)
(* main.ts neither enables the shutdown hooks nor closes the application,   *)
(* so it never runs.  All of one user; what they write is left out.         *)
(***************************************************************************)
EXTENDS Integers, FiniteSets

CONSTANTS
  Shells,         \* calls of start_process
  StarterRun,     \* StarterRun[p]: the run that calls
  MaxConcurrent,  \* AGENT_PROCESS_MAX_CONCURRENT
  Stubborn        \* processes that pay no heed to SIGTERM

ASSUME TerminalAssumption ==
  MaxConcurrent \in Nat \ {0} /\ Stubborn \subseteq Shells /\ IsFiniteSet(Shells)

StarterRuns == {StarterRun[p] : p \in Shells}

VARIABLES
  session,   \* session[p]: "none", "asked" before it is started, its status, "refused", "forgotten"
  living,    \* processes that the system has
  signalled, \* processes that were told to end
  noticed,   \* processes whose `close` came
  runEnd,    \* runEnd[r]: "going", "cancelled" (the row and the signal), "stopped" (its processes
             \* too), "over"
  down,      \* whether the API has ended: by a signal, or a crash
  belated    \* processes started when those of their run had been stopped

terminalVars == <<session, living, signalled, noticed, runEnd, down, belated>>

SessionStatuses == {"RUNNING", "EXITED", "FAILED", "STOPPED"}
RunningNow == {p \in Shells : session[p] = "RUNNING"}

TerminalInit ==
  /\ session = [p \in Shells |-> "none"] /\ living = {} /\ signalled = {} /\ noticed = {}
  /\ runEnd = [r \in StarterRuns |-> "going"] /\ down = FALSE /\ belated = {}

\* terminate: no more timer, and SIGTERM.
Tells(s) == signalled' = signalled \cup s
SessionIs(p, s) == session' = [session EXCEPT ![p] = s]

-----------------------------------------------------------------------------
(* Starting *)

\* The tool: the call is logged and the folder looked at, while the run may be cancelled.
StartAsked(p) ==
  /\ session[p] = "none" /\ runEnd[StarterRun[p]] = "going" /\ ~down
  /\ \A q \in Shells : StarterRun[q] = StarterRun[p] => session[q] # "asked"
  /\ SessionIs(p, "asked") /\ UNCHANGED <<living, signalled, noticed, runEnd, down, belated>>

\* cleanup, the count and the spawn are one step.  The folder may not exist; there may be too many.
SpawnShell(p) ==
  /\ session[p] = "asked" /\ ~down
  /\ LET old == {q \in Shells : session[q] \in SessionStatuses \ {"RUNNING"}} IN
     \E gone \in SUBSET old :
       LET kept == [q \in Shells |-> IF q \in gone THEN "forgotten" ELSE session[q]] IN
       \/ session' = [session EXCEPT ![p] = "refused"] /\ UNCHANGED living
       \/ /\ Cardinality(RunningNow) >= MaxConcurrent
          /\ session' = [kept EXCEPT ![p] = "refused"] /\ UNCHANGED living
       \/ /\ Cardinality(RunningNow) < MaxConcurrent
          /\ session' = [kept EXCEPT ![p] = "RUNNING"] /\ living' = living \cup {p}
  /\ belated' = IF runEnd[StarterRun[p]] = "stopped" /\ p \in living' THEN belated \cup {p} ELSE belated
  /\ UNCHANGED <<signalled, noticed, runEnd, down>>
\* `error`: there is no process.
SpawnFails(p) ==
  /\ session[p] = "asked" /\ ~down /\ Cardinality(RunningNow) < MaxConcurrent
  /\ SessionIs(p, "FAILED") /\ UNCHANGED <<living, signalled, noticed, runEnd, down, belated>>

-----------------------------------------------------------------------------
(* Ending *)

\* By itself, or because it was told to.
Dies(p) ==
  /\ p \in living /\ (p \in signalled => p \notin Stubborn) /\ living' = living \ {p}
  /\ UNCHANGED <<session, signalled, noticed, runEnd, down, belated>>
\* `close`: a status that says how it ended, unless it was stopped.
Closes(p) ==
  /\ session[p] \in SessionStatuses \cup {"forgotten"} /\ ~down
  /\ p \notin living /\ p \notin noticed /\ noticed' = noticed \cup {p}
  /\ IF session[p] = "RUNNING" THEN \E s \in {"EXITED", "FAILED"} : SessionIs(p, s) ELSE UNCHANGED session
  /\ UNCHANGED <<living, signalled, runEnd, down, belated>>

\* The timer, or stop_process of a run that goes on: the status first, then the signal.
StopOne(p) ==
  /\ session[p] = "RUNNING" /\ ~down
  /\ SessionIs(p, "STOPPED") /\ Tells({p}) /\ UNCHANGED <<living, noticed, runEnd, down, belated>>

\* cancel: the row, the signal to the run, and its questions ...
CancelRun(r) ==
  /\ runEnd[r] = "going" /\ ~down /\ runEnd' = [runEnd EXCEPT ![r] = "cancelled"]
  /\ UNCHANGED <<session, living, signalled, noticed, down, belated>>
OfRun(r) == {p \in Shells : StarterRun[p] = r}
\* Broken variant (mutation check): only one process of the run is stopped.
StopRunOne(r) ==
  /\ runEnd[r] = "cancelled" /\ ~down /\ runEnd' = [runEnd EXCEPT ![r] = "stopped"]
  /\ LET s == OfRun(r) \cap RunningNow
         one == IF s = {} THEN {} ELSE {CHOOSE p \in s : TRUE}
     IN  session' = [p \in Shells |-> IF p \in one THEN "STOPPED" ELSE session[p]] /\ Tells(one)
  /\ UNCHANGED <<living, noticed, down, belated>>
\* ... and then stopRun: the sessions there are by then.
StopRun(r) ==
  /\ runEnd[r] = "cancelled" /\ ~down /\ runEnd' = [runEnd EXCEPT ![r] = "stopped"]
  /\ LET s == OfRun(r) \cap RunningNow IN
     session' = [p \in Shells |-> IF p \in s THEN "STOPPED" ELSE session[p]] /\ Tells(s)
  /\ UNCHANGED <<living, noticed, down, belated>>
\* A run that ends otherwise leaves its processes running.
RunEnds(r) ==
  /\ runEnd[r] = "going" /\ \A p \in OfRun(r) : session[p] # "asked"
  /\ runEnd' = [runEnd EXCEPT ![r] = "over"]
  /\ UNCHANGED <<session, living, signalled, noticed, down, belated>>

\* However the API ends, no process is told.
ApiIsGone ==
  /\ ~down /\ down' = TRUE
  /\ UNCHANGED <<session, living, signalled, noticed, runEnd, belated>>

TerminalNext ==
  \/ \E p \in Shells : \/ StartAsked(p) \/ SpawnShell(p) \/ SpawnFails(p)
                          \/ Dies(p) \/ Closes(p) \/ StopOne(p)
  \/ \E r \in StarterRuns : CancelRun(r) \/ StopRun(r) \/ RunEnds(r)
  \/ ApiIsGone

TerminalSpec == TerminalInit /\ [][TerminalNext]_terminalVars

-----------------------------------------------------------------------------
(* Properties *)

TerminalTypeOK ==
  /\ session \in [Shells -> SessionStatuses \cup {"none", "asked", "refused", "forgotten"}]
  /\ living \cup signalled \cup noticed \subseteq Shells
  /\ runEnd \in [StarterRuns -> {"going", "cancelled", "stopped", "over"}] /\ down \in BOOLEAN

\* "process stopped because the agent run ended": while the API runs, a process that nobody told to
\* end has a session that says it runs, which its timer will stop, and its run was not cancelled and
\* its processes stopped before it was started (`belated`: a call that looked at its folder in the
\* meantime).  No more run than may.  Says nothing of the processes when the API has ended.
ProcessesAreAnsweredFor ==
  /\ Cardinality(RunningNow) <= MaxConcurrent
  /\ ~down =>
       \A p \in living \ signalled :
         /\ session[p] = "RUNNING"
         /\ runEnd[StarterRun[p]] = "stopped" => p \in belated
=============================================================================
