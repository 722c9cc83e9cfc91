-------------------------- MODULE AgentRunsProofs --------------------------
(***************************************************************************)
(* What holds of an agent run: of AgentEvents, for any number of events,    *)
(* folders and watches; of AgentRuns, for every set of users, runs and      *)
(* approvals, any number of concurrent calls, and every length of the loop; *)
(* of AgentLoop, for every limit of steps, repairs and corrections; and of  *)
(* AgentContext, for conversations of every length.                         *)
(***************************************************************************)
EXTENDS AgentRuns, AgentLoop, AgentEvents, AgentContext, FilteringProofs

-----------------------------------------------------------------------------
(* AgentEvents: what the user sees of a run *)

Increasing(s) == \A i, j \in 1 .. Len(s) : i < j => s[i] < s[j]
LastOf(s, m) == IF m = 0 THEN 0 ELSE s[m]
Statuses == {"NONE", "RUNNING"} \cup Closed
WatchStates == [pc : {"off", "ask", "log", "reply"}, cursor : 0 .. MaxEvents, status : Statuses,
                rows : 0 .. Take]

\* Numbers are given in order, and events are written in that order: what waits comes after what
\* is written.
InOrder ==
  /\ emitted \in 0 .. MaxEvents /\ log \in Seq(1 .. MaxEvents) /\ writes \in Seq(1 .. MaxEvents)
  /\ Increasing(log) /\ Increasing(writes)
  /\ \A i \in 1 .. Len(log), j \in 1 .. Len(writes) : log[i] < writes[j]
  /\ \A i \in 1 .. Len(log) : log[i] <= emitted
  /\ \A j \in 1 .. Len(writes) : writes[j] <= emitted

\* A watch has read rows that are there.
Watching ==
  /\ status \in Statuses /\ watch \in [Slots -> WatchStates]
  /\ \A w \in Slots : watch[w].rows <= Len(log)

\* What the page has seen is what its transcript shows.
Seen ==
  /\ home \in Folders /\ excused \in BOOLEAN
  /\ page \in [folder : Folders, entries : Seq(0 .. MaxEvents), seen : SUBSET (1 .. MaxEvents),
               listed : BOOLEAN]
  /\ transcript \in [Folders -> Seq(0 .. MaxEvents)]
  /\ page.seen = ToSet(page.entries) \ {End}

BeforeTheRun ==
  status = "NONE" =>
    /\ execution = "none" /\ writes = << >> /\ page.entries = << >> /\ sent = << >>
    /\ \A f \in Folders : transcript[f] = << >>
    /\ \A w \in Slots : watch[w].pc = "off"

\* A stream has sent the first events, and its cursor is at the last of them.
HasSent(l, s, x) ==
  /\ Len(s) \in 0 .. Len(l) /\ s = SubSeq(l, 1, Len(s))
  /\ x.pc # "off" => x.cursor = LastOf(l, Len(s))

\* The transcript of the run's folder has the first m events; the page shows them when it is
\* there, and no watch of it is beyond the last of them.
HasShown(l, t, p, f, x, m) ==
  /\ Events(t[f]) = SubSeq(l, 1, m)
  /\ p.folder = f =>
       /\ p.entries = t[f]
       /\ \A w \in Watches : x[w].pc # "off" => x[w].cursor <= LastOf(l, m)

PageShows == ~excused => \E m \in 0 .. Len(log) : HasShown(log, transcript, page, home, watch, m)

EventsInv ==
  InOrder /\ Watching /\ Seen /\ BeforeTheRun /\ HasSent(log, sent, watch[Stream]) /\ PageShows

-----------------------------------------------------------------------------
(* Sequences of events *)

LEMMA EventsConstants ==
  /\ MaxEvents \in Nat /\ MaxEvents >= 1 /\ Take \in Nat /\ Keep \in Nat /\ Keep >= 1
  /\ Stream \notin Watches /\ Stream \in Slots /\ Watches \subseteq Slots
BY EventsAssumption DEF EventsAssumption, Slots

LEMMA Prefix ==
  ASSUME NEW A, NEW l \in Seq(A), NEW r \in 0 .. Len(l)
  PROVE  /\ SubSeq(l, 1, r) \in Seq(A) /\ Len(SubSeq(l, 1, r)) = r /\ r \in Nat
         /\ \A i \in 1 .. r : SubSeq(l, 1, r)[i] = l[i]
OBVIOUS

LEMMA NoPrefix ==
  ASSUME NEW A, NEW l \in Seq(A)
  PROVE  SubSeq(l, 1, 0) = << >> /\ 0 \in 0 .. Len(l)
OBVIOUS

LEMMA StretchShape ==
  ASSUME NEW A, NEW l \in Seq(A), NEW k \in 0 .. Len(l), NEW r \in 0 .. Len(l), k < r
  PROVE  /\ Len(SubSeq(l, k + 1, r)) = r - k /\ SubSeq(l, k + 1, r) # << >>
         /\ SubSeq(l, k + 1, r)[r - k] = l[r]
<1> DEFINE t == SubSeq(l, k + 1, r)
<1>1. Len(l) \in Nat /\ k + 1 \in 1 .. Len(l) /\ r \in 1 .. Len(l) /\ k + 1 <= r
  OBVIOUS
<1>2. Len(t) = r - (k + 1) + 1
  BY <1>1
<1>3. r - k \in 1 .. Len(t) /\ (k + 1) + (r - k) - 1 = r
  BY <1>1, <1>2
<1>4. t[r - k] = l[(k + 1) + (r - k) - 1]
  BY <1>1, <1>3
<1> HIDE DEF t
<1>5. Len(t) = r - k
  BY <1>1, <1>2
<1>6. t # << >>
  BY <1>1, <1>5
<1>7. t[r - k] = l[r]
  BY <1>3, <1>4
<1> QED BY <1>5, <1>6, <1>7 DEF t

LEMMA SeqWider ==
  ASSUME NEW S, NEW T, S \subseteq T, NEW s \in Seq(S)
  PROVE  s \in Seq(T)
OBVIOUS

LEMMA LastIsMember ==
  ASSUME NEW S, NEW s \in Seq(S), s # << >>
  PROVE  Len(s) \in 1 .. Len(s) /\ s[Len(s)] \in S
OBVIOUS

LEMMA IncreasingAppend ==
  ASSUME NEW s \in Seq(Nat), NEW x \in Nat, Increasing(s), \A i \in 1 .. Len(s) : s[i] < x
  PROVE  Increasing(Append(s, x))
<1> DEFINE t == Append(s, x)
<1>1. Len(s) \in Nat /\ Len(t) = Len(s) + 1 /\ t[Len(s) + 1] = x /\ \A i \in 1 .. Len(s) : t[i] = s[i]
  OBVIOUS
<1> HIDE DEF t
<1>2. ASSUME NEW i \in 1 .. Len(t), NEW j \in 1 .. Len(t), i < j PROVE t[i] < t[j]
  <2>1. i \in 1 .. Len(s)
    BY <1>1, <1>2
  <2>2. CASE j = Len(s) + 1
    BY <2>1, <2>2, <1>1
  <2>3. CASE j \in 1 .. Len(s)
    BY <2>1, <2>3, <1>1, <1>2 DEF Increasing
  <2> QED BY <2>2, <2>3, <1>1
<1>3. Increasing(t)
  BY <1>2 DEF Increasing
<1> QED BY <1>3 DEF t

LEMMA RemoveTheFirst ==
  ASSUME NEW A, NEW s \in Seq(A), 1 <= Len(s)
  PROVE  /\ RemoveAt(s, 1) \in Seq(A) /\ Len(RemoveAt(s, 1)) = Len(s) - 1
         /\ \A i \in 1 .. Len(s) - 1 : RemoveAt(s, 1)[i] = s[i + 1]
<1>0. Len(s) = 1 \/ Len(s) > 1
  <2> DEFINE n == Len(s)
  <2>1. n \in Nat /\ 1 <= n
    OBVIOUS
  <2> HIDE DEF n
  <2>2. n = 1 \/ n > 1
    BY <2>1
  <2> QED BY <2>2 DEF n
<1>1. RemoveAt(s, 1) = SubSeq(s, 1, 0) \o SubSeq(s, 2, Len(s))
  BY DEF RemoveAt
<1>2. SubSeq(s, 1, 0) = << >>
  OBVIOUS
<1> DEFINE t == SubSeq(s, 2, Len(s))
<1>3. t \in Seq(A) /\ Len(t) = Len(s) - 1 /\ \A i \in 1 .. Len(s) - 1 : t[i] = s[i + 1]
  <2>1. Len(s) \in Nat /\ 2 \in 1 .. Len(s) + 1 /\ Len(s) \in 1 .. Len(s)
    OBVIOUS
  <2>2. t \in Seq(A)
    BY <2>1
  <2>3. Len(t) = Len(s) - 1
    <3>1. CASE Len(s) = 1
      BY <3>1
    <3>2. CASE Len(s) > 1
      <4>1. Len(t) = Len(s) - 2 + 1
        BY <2>1, <3>2
      <4> QED BY <2>1, <4>1
    <3> HIDE DEF t
    <3> QED BY <3>1, <3>2, <1>0
  <2>4. \A i \in 1 .. Len(s) - 1 : t[i] = s[i + 1]
    BY <2>1
  <2> QED BY <2>2, <2>3, <2>4
<1>4. << >> \o t = t
  BY <1>3
<1> QED BY <1>1, <1>2, <1>3, <1>4

\* What came first stays first when the log grows.
LEMMA GrowKeeps ==
  ASSUME NEW A, NEW l \in Seq(A), NEW x \in A, NEW m \in 0 .. Len(l)
  PROVE  /\ SubSeq(Append(l, x), 1, m) = SubSeq(l, 1, m)
         /\ LastOf(Append(l, x), m) = LastOf(l, m) /\ m \in 0 .. Len(Append(l, x))
<1> DEFINE g == Append(l, x)
<1>1. /\ Len(l) \in Nat /\ g \in Seq(A) /\ Len(g) = Len(l) + 1
      /\ \A i \in 1 .. Len(l) : g[i] = l[i]
  OBVIOUS
<1> HIDE DEF g
<1>2. SubSeq(g, 1, m) = SubSeq(l, 1, m)
  BY <1>1
<1>3. LastOf(g, m) = LastOf(l, m)
  BY <1>1 DEF LastOf
<1>4. m \in 0 .. Len(g)
  BY <1>1
<1> QED BY <1>2, <1>3, <1>4 DEF g

\* Of the first r, those after the k-th.
LEMMA FilterPast ==
  ASSUME NEW A, NEW l \in Seq(A), NEW S, NEW r \in 0 .. Len(l), NEW k \in Nat,
         \A i \in 1 .. r : l[i] \in S <=> k < i
  PROVE  Filter(SubSeq(l, 1, r), S) = SubSeq(l, k + 1, r)
<1> DEFINE s == SubSeq(l, 1, r)
           lo == IF k < r THEN k + 1 ELSE r + 1
<1>1. /\ Len(l) \in Nat /\ s \in Seq(A) /\ Len(s) = r /\ r \in Nat
      /\ \A i \in 1 .. r : s[i] = l[i]
  OBVIOUS
<1> HIDE DEF s
<1>2. lo \in 1 .. Len(s) + 1 /\ r \in lo - 1 .. Len(s)
  BY <1>1
<1>3. \A i \in 1 .. Len(s) : s[i] \in S <=> lo <= i /\ i <= r
  BY <1>1
<1>4. Filter(s, S) = SubSeq(s, lo, r)
  <2> HIDE DEF lo
  <2> QED BY <1>1, <1>2, <1>3, FilterRange
<1>5. SubSeq(s, lo, r) = SubSeq(l, k + 1, r)
  <2>1. CASE k < r
    BY <1>1, <2>1
  <2>2. CASE ~(k < r)
    BY <1>1, <2>2
  <2> QED BY <2>1, <2>2
<1> QED BY <1>4, <1>5 DEF s

LEMMA Continue ==
  ASSUME NEW A, NEW l \in Seq(A), NEW r \in 0 .. Len(l), NEW k \in 0 .. Len(l)
  PROVE  SubSeq(l, 1, k) \o SubSeq(l, k + 1, r) = SubSeq(l, 1, IF k < r THEN r ELSE k)
<1>1. CASE k < r
  <2>1. SubSeq(l, 1, k) \o SubSeq(l, k + 1, r) = SubSeq(l, 1, r)
    BY <1>1
  <2> QED BY <1>1, <2>1
<1>2. CASE ~(k < r)
  <2>1. SubSeq(l, k + 1, r) = << >>
    BY <1>2
  <2>2. SubSeq(l, 1, k) \in Seq(A)
    OBVIOUS
  <2>3. SubSeq(l, 1, k) \o << >> = SubSeq(l, 1, k)
    BY <2>2
  <2> QED BY <1>2, <2>1, <2>3
<1> QED BY <1>1, <1>2

-----------------------------------------------------------------------------
(* The run goes on *)

LEMMA EmittedInOrder ==
  ASSUME InOrder, emitted < MaxEvents, emitted' = emitted + 1, writes' = Append(writes, emitted + 1),
         log' = log
  PROVE  InOrder'
<1> USE EventsConstants
<1> DEFINE x == emitted + 1
           t == Append(writes, x)
<1>1. /\ emitted \in Nat /\ x \in 1 .. MaxEvents /\ x \in Nat /\ emitted < x /\ writes \in Seq(Nat)
      /\ log \in Seq(1 .. MaxEvents) /\ writes \in Seq(1 .. MaxEvents)
      /\ Increasing(log) /\ Increasing(writes)
  BY DEF InOrder
<1>2. \A j \in 1 .. Len(writes) : writes[j] <= emitted /\ writes[j] \in Nat /\ writes[j] < x
  BY <1>1 DEF InOrder
<1>3. \A i \in 1 .. Len(log) : log[i] <= emitted /\ log[i] \in Nat /\ log[i] < x
  BY <1>1 DEF InOrder
<1> HIDE DEF x
<1>4. /\ t \in Seq(1 .. MaxEvents) /\ Len(writes) \in Nat /\ Len(t) = Len(writes) + 1 /\ t[Len(writes) + 1] = x
      /\ \A j \in 1 .. Len(writes) : t[j] = writes[j]
  BY <1>1
<1>5. Increasing(t)
  BY <1>1, <1>2, IncreasingAppend
<1> HIDE DEF t
<1>6. \A j \in 1 .. Len(t) : t[j] <= x
  <2> TAKE j \in 1 .. Len(t)
  <2>1. CASE j = Len(writes) + 1
    BY <2>1, <1>1, <1>4
  <2>2. CASE j \in 1 .. Len(writes)
    <3>1. t[j] = writes[j] /\ writes[j] \in Nat /\ writes[j] < x
      BY <2>2, <1>2, <1>4
    <3> QED BY <3>1, <1>1
  <2> QED BY <2>1, <2>2, <1>4
<1>7. \A i \in 1 .. Len(log), j \in 1 .. Len(t) : log[i] < t[j]
  <2> SUFFICES ASSUME NEW i \in 1 .. Len(log), NEW j \in 1 .. Len(t) PROVE log[i] < t[j]
    OBVIOUS
  <2>1. CASE j = Len(writes) + 1
    BY <2>1, <1>3, <1>4
  <2>2. CASE j \in 1 .. Len(writes)
    BY <2>2, <1>4 DEF InOrder
  <2> QED BY <2>1, <2>2, <1>4
<1>8. emitted' = x /\ writes' = t /\ log' = log
  BY DEF x, t
<1>9. x \in 0 .. MaxEvents /\ \A i \in 1 .. Len(log) : log[i] <= x
  BY <1>1, <1>3
<1> QED BY <1>1, <1>4, <1>5, <1>6, <1>7, <1>8, <1>9 DEF InOrder

LEMMA WrittenInOrder ==
  ASSUME InOrder, EventWritten
  PROVE  InOrder' /\ writes[1] \in 1 .. MaxEvents /\ log' \in {log, Append(log, writes[1])}
<1> USE EventsConstants
<1> DEFINE x == writes[1]
           t == RemoveAt(writes, 1)
           g == Append(log, x)
<1>1. /\ 1 <= Len(writes) /\ Len(writes) \in Nat /\ x \in 1 .. MaxEvents /\ x \in Nat /\ log \in Seq(Nat)
      /\ log \in Seq(1 .. MaxEvents) /\ writes \in Seq(1 .. MaxEvents) /\ emitted \in 0 .. MaxEvents
      /\ Increasing(log) /\ Increasing(writes) /\ Len(log) \in Nat
  BY DEF InOrder, EventWritten, Write
<1>2. writes' = t /\ log' \in {log, g} /\ emitted' = emitted
  BY DEF EventWritten, Write
<1>3. /\ t \in Seq(1 .. MaxEvents) /\ Len(t) = Len(writes) - 1
      /\ \A j \in 1 .. Len(writes) - 1 : t[j] = writes[j + 1]
  BY <1>1, RemoveTheFirst
<1> HIDE DEF t
<1>4. \A j \in 1 .. Len(t) : j + 1 \in 1 .. Len(writes) /\ t[j] = writes[j + 1]
  BY <1>1, <1>3
<1>5. Increasing(t)
  BY <1>1, <1>4 DEF Increasing
<1>6. \A j \in 1 .. Len(t) : x < t[j] /\ t[j] <= emitted
  BY <1>1, <1>4 DEF Increasing, InOrder
<1>7. \A i \in 1 .. Len(log) : log[i] < x /\ log[i] <= emitted
  BY <1>1 DEF InOrder
<1>8. x <= emitted
  BY <1>1 DEF InOrder
<1>9. \A i \in 1 .. Len(log), j \in 1 .. Len(t) : log[i] < t[j]
  BY <1>1, <1>4 DEF InOrder
<1>10. CASE log' = log
  BY <1>1, <1>2, <1>3, <1>5, <1>6, <1>7, <1>9, <1>10 DEF InOrder
<1>11. CASE log' = g
  <2>1. /\ g \in Seq(1 .. MaxEvents) /\ Len(g) = Len(log) + 1 /\ g[Len(log) + 1] = x
        /\ \A i \in 1 .. Len(log) : g[i] = log[i]
    BY <1>1
  <2>2. Increasing(g)
    BY <1>1, <1>7, IncreasingAppend
  <2> HIDE DEF g
  <2>3. \A i \in 1 .. Len(g) : g[i] <= emitted /\ \A j \in 1 .. Len(t) : g[i] < t[j]
    <3> TAKE i \in 1 .. Len(g)
    <3>1. CASE i = Len(log) + 1
      BY <3>1, <1>6, <1>8, <2>1
    <3>2. CASE i \in 1 .. Len(log)
      BY <3>2, <1>7, <1>9, <2>1
    <3> QED BY <3>1, <3>2, <2>1, <1>1
  <2> QED BY <1>1, <1>2, <1>3, <1>5, <1>6, <1>11, <2>1, <2>2, <2>3 DEF InOrder
<1> QED BY <1>1, <1>2, <1>10, <1>11

\* The log grows and is not changed otherwise.
LogGrows == log' = log \/ \E x \in 1 .. MaxEvents : log' = Append(log, x)

LEMMA RunInOrder ==
  ASSUME InOrder, [EventsNext]_eventVars
  PROVE  InOrder' /\ LogGrows
<1>1. CASE Emit \/ Final \/ TellsFailure
  <2>1. emitted < MaxEvents /\ emitted' = emitted + 1 /\ writes' = Append(writes, emitted + 1) /\ log' = log
    BY <1>1 DEF Emit, Final, TellsFailure
  <2> QED BY <2>1, EmittedInOrder DEF LogGrows
<1>2. CASE EventWritten
  BY <1>2, WrittenInOrder DEF LogGrows
<1>3. CASE EventsRestart
  <2>1. writes' = << >> /\ UNCHANGED <<emitted, log>>
    BY <1>3 DEF EventsRestart
  <2> QED BY <2>1 DEF InOrder, Increasing, LogGrows
<1>4. CASE UNCHANGED <<emitted, log, writes>>
  BY <1>4 DEF InOrder, Increasing, LogGrows
<1>5. ASSUME RunGoesOn PROVE Emit \/ Final \/ TellsFailure \/ EventWritten \/ EventsRestart \/ UNCHANGED <<emitted, log, writes>>
  BY <1>5 DEF RunGoesOn, Completes, Fails, RunCancelled, RunSwept, ExecutionLeaves
<1>6. ASSUME StreamNext PROVE UNCHANGED <<emitted, log, writes>>
  BY <1>6 DEF StreamNext, StreamOpens, StreamSends, Reads, ReadRow, ReadLog, runVars
<1>7. ASSUME PageNext PROVE UNCHANGED <<emitted, log, writes>>
  BY <1>7 DEF PageNext, Reads, ReadRow, ReadLog, PageReceives, RequestFails, StartRun, RunsListed, SwitchFolder, Reload, runVars
<1>8. ASSUME UNCHANGED eventVars PROVE UNCHANGED <<emitted, log, writes>>
  BY <1>8 DEF eventVars
<1> QED BY <1>1, <1>2, <1>3, <1>4, <1>5, <1>6, <1>7, <1>8 DEF EventsNext
LEMMA LogIsLonger ==
  ASSUME InOrder, LogGrows
  PROVE  Len(log) \in Nat /\ Len(log') \in Nat /\ Len(log) <= Len(log')
BY DEF InOrder, LogGrows

LEMMA LogKeeps ==
  ASSUME InOrder, LogGrows, NEW m \in 0 .. Len(log)
  PROVE  SubSeq(log', 1, m) = SubSeq(log, 1, m) /\ LastOf(log', m) = LastOf(log, m) /\ m \in 0 .. Len(log')
<1> DEFINE A == 1 .. MaxEvents
<1>1. log \in Seq(A)
  BY DEF InOrder
<1>2. log' = log \/ \E x \in A : log' = Append(log, x)
  BY DEF LogGrows
<1> HIDE DEF A
<1>3. CASE log' = log
  BY <1>3
<1>4. ASSUME NEW x \in A, log' = Append(log, x)
      PROVE  SubSeq(log', 1, m) = SubSeq(log, 1, m) /\ LastOf(log', m) = LastOf(log, m) /\ m \in 0 .. Len(log')
  BY <1>1, <1>4, GrowKeeps
<1> QED BY <1>2, <1>3, <1>4

-----------------------------------------------------------------------------
(* Watches *)

LEMMA WatchShapes ==
  /\ Off \in WatchStates /\ Off.pc = "off" /\ Off.rows = 0 /\ Off.cursor = 0
  /\ \A c \in 0 .. MaxEvents :
       LET x == [Off EXCEPT !.pc = "ask", !.cursor = c]
       IN  x \in WatchStates /\ x.pc = "ask" /\ x.cursor = c /\ x.rows = 0
  /\ [Off EXCEPT !.pc = "ask"] \in WatchStates /\ [Off EXCEPT !.pc = "ask"].rows = 0
  /\ [Off EXCEPT !.pc = "ask"].cursor = 0
<1> USE EventsConstants
<1>1. Off \in WatchStates /\ Off.pc = "off" /\ Off.rows = 0 /\ Off.cursor = 0
  BY DEF WatchStates, Off, Statuses
<1>2. ASSUME NEW c \in 0 .. MaxEvents
      PROVE  LET x == [Off EXCEPT !.pc = "ask", !.cursor = c]
             IN  x \in WatchStates /\ x.pc = "ask" /\ x.cursor = c /\ x.rows = 0
  <2> DEFINE x == [Off EXCEPT !.pc = "ask", !.cursor = c]
  <2>1. x \in WatchStates
    BY <1>1 DEF WatchStates
  <2>2. x.pc = "ask" /\ x.cursor = c /\ x.rows = 0
    BY <1>1 DEF WatchStates
  <2> QED BY <2>1, <2>2
<1>3. [Off EXCEPT !.pc = "ask"] = [pc |-> "ask", cursor |-> 0, status |-> "NONE", rows |-> 0]
  BY DEF Off
<1>4. [pc |-> "ask", cursor |-> 0, status |-> "NONE", rows |-> 0] \in WatchStates
  BY DEF WatchStates, Statuses
<1> QED BY <1>1, <1>2, <1>3, <1>4

LEMMA WatchTurns ==
  ASSUME NEW x \in WatchStates
  PROVE  /\ x.cursor \in 0 .. MaxEvents /\ x.rows \in 0 .. Take /\ x.status \in Statuses
         /\ \A s \in Statuses :
              LET y == [x EXCEPT !.pc = "log", !.status = s]
              IN  y \in WatchStates /\ y.cursor = x.cursor /\ y.rows = x.rows
         /\ \A r \in 0 .. Take :
              LET y == [x EXCEPT !.pc = "reply", !.rows = r]
              IN  y \in WatchStates /\ y.cursor = x.cursor /\ y.rows = r
BY DEF WatchStates

\* What a reply has is of the log, and the cursor moves to it.
LEMMA Replied ==
  ASSUME InOrder, Watching, NEW w \in Slots
  PROVE  /\ NewRows(w) \in Seq(1 .. MaxEvents)
         /\ Cursor(w) \in 0 .. MaxEvents
         /\ \/ Cursor(w) = watch[w].cursor
            \/ \E i \in 1 .. watch[w].rows : Cursor(w) = log[i]
<1> DEFINE r == watch[w].rows
           s == SubSeq(log, 1, r)
           rows == NewRows(w)
<1>1. r \in 0 .. Len(log) /\ watch[w].cursor \in 0 .. MaxEvents
  <2>1. watch[w] \in WatchStates
    BY DEF Watching
  <2>2. watch[w].cursor \in 0 .. MaxEvents /\ r \in 0 .. Take
    BY <2>1, WatchTurns
  <2>3. r <= Len(log) /\ Len(log) \in Nat
    BY DEF Watching, InOrder
  <2>4. Take \in Nat
    BY EventsConstants
  <2> HIDE DEF r
  <2> QED BY <2>2, <2>3, <2>4
<1>2. /\ s \in Seq(1 .. MaxEvents) /\ Len(s) = r /\ r \in Nat
      /\ \A i \in 1 .. r : s[i] = log[i]
  <2>1. log \in Seq(1 .. MaxEvents)
    BY DEF InOrder
  <2> HIDE DEF r
  <2> QED BY <1>1, <2>1, Prefix
<1>3. rows = Filter(s, watch[w].cursor + 1 .. MaxEvents)
  BY DEF NewRows
<1> HIDE DEF r, s, rows
<1>4. rows \in Seq((1 .. MaxEvents) \cap (watch[w].cursor + 1 .. MaxEvents))
  BY <1>2, <1>3, FilterType
<1>5. rows \in Seq(1 .. MaxEvents)
  BY <1>4, SeqWider
<1>6. CASE rows = << >>
  BY <1>1, <1>5, <1>6 DEF Cursor, rows
<1>7. CASE rows # << >>
  <2>1. Len(rows) \in 1 .. Len(rows) /\ rows[Len(rows)] \in 1 .. MaxEvents
    BY <1>5, <1>7, LastIsMember
  <2>2. PICK i \in 1 .. r : rows[Len(rows)] = s[i]
    BY <1>2, <1>3, <2>1, FilterMembers
  <2>3. Cursor(w) = rows[Len(rows)]
    BY <1>7 DEF Cursor, rows, Last
  <2>4. Cursor(w) = log[i]
    BY <1>2, <2>2, <2>3
  <2> QED BY <1>5, <2>1, <2>2, <2>3, <2>4 DEF r, rows
<1> QED BY <1>6, <1>7

\* A step that changes at most one watch.
OneWatch(w) ==
  \E x \in WatchStates :
    watch' = [watch EXCEPT ![w] = x] /\ x.rows <= Len(log)

LEMMA OneWatchMoves ==
  ASSUME InOrder, Watching, LogGrows, NEW w \in Slots, OneWatch(w), status' \in Statuses
  PROVE  Watching'
<1>1. PICK x \in WatchStates : watch' = [watch EXCEPT ![w] = x] /\ x.rows <= Len(log)
  BY DEF OneWatch
<1>2. watch' \in [Slots -> WatchStates]
  BY <1>1 DEF Watching
<1>3. Len(log) \in Nat /\ Len(log') \in Nat /\ Len(log) <= Len(log')
  BY LogIsLonger
<1>4. \A v \in Slots : watch'[v].rows \in Nat /\ watch'[v].rows <= Len(log)
  <2> TAKE v \in Slots
  <2>1. watch'[v] \in WatchStates
    BY <1>2
  <2>2. watch'[v].rows \in 0 .. Take
    BY <2>1, WatchTurns
  <2>3. watch'[v] = IF v = w THEN x ELSE watch[v]
    BY <1>1 DEF Watching
  <2> QED BY <1>1, <2>2, <2>3 DEF Watching
<1>5. \A v \in Slots : watch'[v].rows <= Len(log')
  BY <1>3, <1>4
<1> QED BY <1>2, <1>5 DEF Watching

LEMMA ReadsOneWatch ==
  ASSUME InOrder, Watching, NEW w \in Slots, Reads(w)
  PROVE  OneWatch(w)
<1> USE EventsConstants
<1>1. watch[w] \in WatchStates /\ status \in Statuses /\ watch[w].rows <= Len(log)
      /\ watch \in [Slots -> WatchStates]
  BY DEF Watching
<1>2. CASE ReadRow(w)
  <2>1. Len(log) \in Nat
    BY DEF InOrder
  <2> DEFINE y == [watch[w] EXCEPT !.pc = "log", !.status = status]
             x == IF w \in {current, Stream} THEN y ELSE Off
  <2>2. y \in WatchStates /\ y.rows = watch[w].rows
    BY <1>1, WatchTurns
  <2>3. x \in WatchStates /\ x.rows <= Len(log)
    <3>1. Off \in WatchStates /\ Off.rows = 0
      BY WatchShapes
    <3>3. 0 <= Len(log)
      BY <2>1
    <3>2. y \in WatchStates /\ y.rows <= Len(log)
      BY <1>1, <2>2
    <3> HIDE DEF y
    <3> QED BY <3>1, <3>2, <3>3
  <2>4. watch' = [watch EXCEPT ![w] = x]
    BY <1>1, <1>2 DEF ReadRow
  <2> HIDE DEF x
  <2> QED BY <2>3, <2>4 DEF OneWatch
<1>3. CASE ReadLog(w)
  <2> DEFINE r == IF Len(log) > Take THEN Take ELSE Len(log)
             x == [watch[w] EXCEPT !.pc = "reply", !.rows = r]
  <2>1. r \in 0 .. Take /\ r <= Len(log)
    BY DEF InOrder
  <2>2. watch' = [watch EXCEPT ![w] = x]
    BY <1>1, <1>3 DEF ReadLog
  <2> HIDE DEF r
  <2>3. x \in WatchStates /\ x.rows = r
    BY <1>1, <2>1, WatchTurns
  <2> HIDE DEF x
  <2> QED BY <2>1, <2>2, <2>3 DEF OneWatch
<1> QED BY <1>2, <1>3 DEF Reads

LEMMA AdvanceOneWatch ==
  ASSUME InOrder, Watching, NEW w \in Slots, Advance(w)
  PROVE  OneWatch(w)
<1> DEFINE y == [Off EXCEPT !.pc = "ask", !.cursor = Cursor(w)]
           x == IF Over(w) THEN Off ELSE y
<1>1. Cursor(w) \in 0 .. MaxEvents /\ 0 <= Len(log)
  BY Replied DEF InOrder
<1>2. y \in WatchStates /\ y.rows = 0
  BY <1>1, WatchShapes
<1>3. x \in WatchStates /\ x.rows <= Len(log)
  <2>1. Off \in WatchStates /\ Off.rows = 0
    BY WatchShapes
  <2> HIDE DEF y
  <2>2. CASE Over(w)
    <3>1. x = Off
      BY <2>2
    <3> QED BY <3>1, <2>1, <1>1
  <2>3. CASE ~Over(w)
    <3>1. x = y
      BY <2>3
    <3> QED BY <3>1, <1>1, <1>2
  <2> QED BY <2>2, <2>3
<1>4. watch' = [watch EXCEPT ![w] = x]
  BY DEF Advance
<1> HIDE DEF x
<1> QED BY <1>3, <1>4 DEF OneWatch

LEMMA NewOneWatch ==
  ASSUME InOrder, NEW w \in Slots, watch' = [watch EXCEPT ![w] = [Off EXCEPT !.pc = "ask"]]
  PROVE  OneWatch(w)
<1>1. 0 <= Len(log)
  BY DEF InOrder
<1> QED BY <1>1, WatchShapes DEF OneWatch

LEMMA WatchGoesOn ==
  ASSUME InOrder, Watching, [EventsNext]_eventVars
  PROVE  Watching'
<1> USE EventsConstants
<1>0. LogGrows /\ status \in Statuses
  BY RunInOrder DEF Watching
<1>1. CASE UNCHANGED watch /\ status' \in Statuses
  <2>1. Stream \in Slots /\ watch[Stream] \in WatchStates /\ watch[Stream].rows <= Len(log)
    BY DEF Watching
  <2>2. watch' = [watch EXCEPT ![Stream] = watch[Stream]]
    BY <1>1 DEF Watching
  <2>3. OneWatch(Stream)
    BY <2>1, <2>2 DEF OneWatch
  <2> QED BY <1>0, <1>1, <2>1, <2>3, OneWatchMoves
<1>2. ASSUME RunGoesOn, ~EventsRestart PROVE UNCHANGED watch /\ status' \in Statuses
  BY <1>0, <1>2 DEF RunGoesOn, Emit, Final, Completes, Fails, TellsFailure, RunCancelled, RunSwept, EventWritten,
     Write, ExecutionLeaves, viewVars, Statuses, Closed
<1>3. CASE EventsRestart
  <2>1. log' = log /\ status' \in Statuses
    BY <1>3, <1>0 DEF EventsRestart, Statuses, Closed
  <2>2. watch' = [w \in Slots |-> IF w = Stream THEN Off
                               ELSE IF watch[w].pc \in {"log", "reply"} THEN Again(w) ELSE watch[w]]
    BY <1>3 DEF EventsRestart
  <2>3. ASSUME NEW w \in Slots PROVE watch'[w] \in WatchStates /\ watch'[w].rows <= Len(log)
    <3>1. watch[w] \in WatchStates /\ watch[w].rows <= Len(log) /\ 0 <= Len(log)
      BY DEF Watching, InOrder
    <3>2. Again(w) \in WatchStates /\ Again(w).rows = 0
      BY <3>1, WatchTurns, WatchShapes DEF Again
    <3> QED BY <3>1, <3>2, <2>2, WatchShapes
  <2>4. watch' \in [Slots -> WatchStates]
    BY <2>2, <2>3
  <2> QED BY <2>1, <2>3, <2>4 DEF Watching
<1>4. ASSUME NEW w \in Slots, Reads(w) PROVE Watching'
  <2>1. status' \in Statuses
    BY <1>0, <1>4 DEF Reads, ReadRow, ReadLog, runVars
  <2> QED BY <1>0, <1>4, <2>1, ReadsOneWatch, OneWatchMoves
<1>5. ASSUME NEW w \in Slots, Advance(w), status' = status PROVE Watching'
  BY <1>0, <1>5, AdvanceOneWatch, OneWatchMoves
<1>6. ASSUME NEW w \in Slots, watch' = [watch EXCEPT ![w] = [Off EXCEPT !.pc = "ask"]], status' \in Statuses
      PROVE  Watching'
  BY <1>0, <1>6, NewOneWatch, OneWatchMoves
<1>7. ASSUME NEW w \in Watches, RequestFails(w) PROVE Watching'
  <2>1. watch[w] \in WatchStates /\ w \in Slots /\ 0 <= Len(log)
    BY DEF Watching, InOrder
  <2>2. Again(w) \in WatchStates /\ Again(w).rows = 0
    BY <2>1, WatchTurns, WatchShapes DEF Again
  <2>3. watch' = [watch EXCEPT ![w] = Again(w)] /\ status' = status
    BY <1>7 DEF RequestFails, runVars
  <2>4. OneWatch(w)
    BY <2>1, <2>2, <2>3 DEF OneWatch
  <2> QED BY <1>0, <2>1, <2>3, <2>4, OneWatchMoves
<1>8. CASE Reload
  <2>1. /\ log' = log /\ status' = status
        /\ watch' = [w \in Slots |-> IF w = Stream THEN watch[w] ELSE Off]
    BY <1>8 DEF Reload, runVars
  <2>2. ASSUME NEW w \in Slots PROVE watch'[w] \in WatchStates /\ watch'[w].rows <= Len(log)
    <3>1. watch[w] \in WatchStates /\ watch[w].rows <= Len(log) /\ 0 <= Len(log)
      BY DEF Watching, InOrder
    <3>2. Off \in WatchStates /\ Off.rows = 0
      BY WatchShapes
    <3> QED BY <2>1, <3>1, <3>2
  <2>3. watch' \in [Slots -> WatchStates]
    BY <2>1, <2>2
  <2> QED BY <1>0, <2>1, <2>2, <2>3 DEF Watching
<1>9. CASE StreamNext
  <2>1. CASE Reads(Stream)
    BY <1>4, <2>1
  <2>2. CASE StreamSends
    BY <1>5, <2>2 DEF StreamSends, runVars
  <2>3. CASE StreamOpens
    BY <1>0, <1>6, <2>3 DEF StreamOpens, runVars
  <2> QED BY <1>9, <2>1, <2>2, <2>3 DEF StreamNext
<1>10. ASSUME NEW w \in Watches, StartRun(w) PROVE Watching'
  <2>1. status' \in Statuses /\ w \in Slots /\ watch' = [watch EXCEPT ![w] = [Off EXCEPT !.pc = "ask"]]
    BY <1>10 DEF StartRun, Watch, Statuses
  <2> QED BY <2>1, <1>6
<1>11. ASSUME NEW w \in Watches, RunsListed(w) PROVE Watching'
  <2>1. status' = status
    BY <1>11 DEF RunsListed, runVars
  <2>2. UNCHANGED watch \/ watch' = [watch EXCEPT ![w] = [Off EXCEPT !.pc = "ask"]]
    BY <1>11 DEF RunsListed, Watch
  <2> QED BY <1>0, <2>1, <2>2, <1>1, <1>6
<1>12. ASSUME NEW w \in Watches, PageReceives(w) PROVE Watching'
  <2>1. Advance(w) /\ status' = status
    BY <1>12 DEF PageReceives, runVars
  <2> QED BY <2>1, <1>5
<1>13. ASSUME NEW f \in Folders, SwitchFolder(f) PROVE UNCHANGED watch /\ status' \in Statuses
  BY <1>0, <1>13 DEF SwitchFolder, runVars
<1>14. ASSUME UNCHANGED eventVars PROVE UNCHANGED watch /\ status' \in Statuses
  BY <1>0, <1>14 DEF eventVars
<1>15. CASE PageNext
  BY <1>15, <1>1, <1>4, <1>7, <1>8, <1>10, <1>11, <1>12, <1>13 DEF PageNext
<1> QED BY <1>1, <1>2, <1>3, <1>9, <1>14, <1>15 DEF EventsNext
-----------------------------------------------------------------------------
(* The page *)

Transcripts == Seq(0 .. MaxEvents)

LEMMA MembersOfBoth ==
  ASSUME NEW A, NEW s \in Seq(A), NEW t \in Seq(A)
  PROVE  s \o t \in Seq(A) /\ ToSet(s \o t) = ToSet(s) \cup ToSet(t)
<1> DEFINE st == s \o t
<1>1. /\ Len(s) \in Nat /\ Len(t) \in Nat /\ st \in Seq(A) /\ Len(st) = Len(s) + Len(t)
      /\ \A i \in 1 .. Len(s) : st[i] = s[i]
      /\ \A i \in 1 .. Len(t) : st[Len(s) + i] = t[i]
      /\ DOMAIN s = 1 .. Len(s) /\ DOMAIN t = 1 .. Len(t) /\ DOMAIN st = 1 .. Len(st)
  OBVIOUS
<1> HIDE DEF st
<1>2. ASSUME NEW i \in 1 .. Len(st) PROVE st[i] \in ToSet(s) \cup ToSet(t)
  <2>1. CASE i \in 1 .. Len(s)
    BY <2>1, <1>1 DEF ToSet
  <2>2. CASE ~(i \in 1 .. Len(s))
    <3>1. i - Len(s) \in 1 .. Len(t) /\ Len(s) + (i - Len(s)) = i
      BY <2>2, <1>1
    <3>2. st[i] = t[i - Len(s)]
      BY <3>1, <1>1
    <3> QED BY <3>1, <3>2, <1>1 DEF ToSet
  <2> QED BY <2>1, <2>2
<1>3. ASSUME NEW i \in 1 .. Len(s) PROVE s[i] \in ToSet(st)
  <2>1. i \in 1 .. Len(st)
    BY <1>1
  <2> QED BY <2>1, <1>1 DEF ToSet
<1>4. ASSUME NEW i \in 1 .. Len(t) PROVE t[i] \in ToSet(st)
  <2>1. Len(s) + i \in 1 .. Len(st)
    BY <1>1
  <2> QED BY <2>1, <1>1 DEF ToSet
<1>5. ToSet(st) = ToSet(s) \cup ToSet(t)
  BY <1>1, <1>2, <1>3, <1>4 DEF ToSet
<1> QED BY <1>1, <1>5 DEF st

LEMMA MembersOfMore ==
  ASSUME NEW A, NEW s \in Seq(A), NEW x \in A
  PROVE  Append(s, x) \in Seq(A) /\ ToSet(Append(s, x)) = ToSet(s) \cup {x}
<1> DEFINE t == Append(s, x)
<1>1. /\ Len(s) \in Nat /\ t \in Seq(A) /\ Len(t) = Len(s) + 1 /\ t[Len(s) + 1] = x
      /\ \A i \in 1 .. Len(s) : t[i] = s[i]
      /\ DOMAIN s = 1 .. Len(s) /\ DOMAIN t = 1 .. Len(t)
  OBVIOUS
<1> HIDE DEF t
<1>2. ToSet(t) \subseteq ToSet(s) \cup {x}
  <2> SUFFICES ASSUME NEW i \in 1 .. Len(t) PROVE t[i] \in ToSet(s) \cup {x}
    BY <1>1 DEF ToSet
  <2>1. CASE i = Len(s) + 1
    BY <2>1, <1>1
  <2>2. CASE i \in 1 .. Len(s)
    BY <2>2, <1>1 DEF ToSet
  <2> QED BY <2>1, <2>2, <1>1
<1>3. ToSet(s) \cup {x} \subseteq ToSet(t)
  <2>1. ASSUME NEW i \in 1 .. Len(s) PROVE s[i] \in ToSet(t)
    <3>1. i \in 1 .. Len(t)
      BY <1>1
    <3> QED BY <3>1, <1>1 DEF ToSet
  <2>2. Len(s) + 1 \in 1 .. Len(t)
    BY <1>1
  <2>3. x \in ToSet(t)
    BY <2>2, <1>1 DEF ToSet
  <2>4. \A y \in ToSet(s) : y \in ToSet(t)
    BY <2>1, <1>1 DEF ToSet
  <2> QED BY <2>3, <2>4
<1>4. ToSet(t) = ToSet(s) \cup {x}
  BY <1>2, <1>3
<1> QED BY <1>1, <1>4 DEF t

LEMMA MembersIn ==
  ASSUME NEW A, NEW s \in Seq(A)
  PROVE  ToSet(s) \subseteq A
<1>1. DOMAIN s = 1 .. Len(s) /\ \A i \in 1 .. Len(s) : s[i] \in A
  OBVIOUS
<1> QED BY <1>1 DEF ToSet

LEMMA KeptShape ==
  ASSUME NEW s \in Transcripts
  PROVE  Kept(s) \in Transcripts /\ (Len(s) <= Keep => Kept(s) = s)
<1> USE EventsConstants
<1> DEFINE A == 0 .. MaxEvents
<1>0. s \in Seq(A)
  BY DEF Transcripts
<1> HIDE DEF A
<1>1. CASE Len(s) > Keep
  <2> DEFINE lo == Len(s) - Keep + 1
  <2>1. Len(s) \in Nat /\ lo \in 1 .. Len(s) + 1
    BY <1>0, <1>1
  <2>2. Kept(s) = SubSeq(s, lo, Len(s))
    BY <1>1 DEF Kept
  <2>3. ~(Len(s) <= Keep)
    BY <1>1, <2>1
  <2> HIDE DEF lo
  <2>4. SubSeq(s, lo, Len(s)) \in Seq(A)
    BY <1>0, <2>1
  <2> QED BY <2>2, <2>3, <2>4 DEF Transcripts, A
<1>2. CASE ~(Len(s) > Keep)
  <2>1. Kept(s) = SubSeq(s, 1, Len(s))
    BY <1>2 DEF Kept
  <2>2. SubSeq(s, 1, Len(s)) = s
    BY <1>0
  <2> QED BY <2>1, <2>2, <1>0 DEF Transcripts, A
<1> QED BY <1>1, <1>2

Pages == [folder : Folders, entries : Transcripts, seen : SUBSET (1 .. MaxEvents), listed : BOOLEAN]

LEMMA SeenTypes ==
  Seen <=> /\ home \in Folders /\ excused \in BOOLEAN /\ page \in Pages
           /\ transcript \in [Folders -> Transcripts] /\ page.seen = ToSet(page.entries) \ {End}
BY DEF Seen, Pages, Transcripts

LEMMA RestoredShape ==
  ASSUME Seen, NEW f \in Folders
  PROVE  /\ Restored(f) \in Pages /\ Restored(f).folder = f /\ Restored(f).entries = transcript[f]
         /\ Restored(f).seen = ToSet(transcript[f]) \ {End} /\ Restored(f).listed = page.listed
         /\ [Restored(f) EXCEPT !.listed = FALSE] \in Pages
         /\ [Restored(f) EXCEPT !.listed = FALSE].folder = f
         /\ [Restored(f) EXCEPT !.listed = FALSE].entries = transcript[f]
         /\ [Restored(f) EXCEPT !.listed = FALSE].seen = ToSet(transcript[f]) \ {End}
<1> DEFINE seen == ToSet(transcript[f]) \ {End}
<1>1. page \in Pages /\ transcript[f] \in Transcripts
  BY SeenTypes
<1>2. ToSet(transcript[f]) \subseteq 0 .. MaxEvents
  BY <1>1, MembersIn DEF Transcripts
<1>3. seen \in SUBSET (1 .. MaxEvents)
  BY <1>2, EventsConstants DEF End
<1>4. Restored(f) = [page EXCEPT !.folder = f, !.entries = transcript[f], !.seen = seen]
  BY DEF Restored
<1> HIDE DEF seen
<1>5. /\ Restored(f) \in Pages /\ Restored(f).folder = f /\ Restored(f).entries = transcript[f]
      /\ Restored(f).seen = seen /\ Restored(f).listed = page.listed
  BY <1>1, <1>3, <1>4 DEF Pages
<1>6. /\ [Restored(f) EXCEPT !.listed = FALSE] \in Pages
      /\ [Restored(f) EXCEPT !.listed = FALSE].folder = Restored(f).folder
      /\ [Restored(f) EXCEPT !.listed = FALSE].entries = Restored(f).entries
      /\ [Restored(f) EXCEPT !.listed = FALSE].seen = Restored(f).seen
  BY <1>5 DEF Pages
<1> QED BY <1>5, <1>6 DEF seen

\* What a reply adds.
NewOnes(w) == Filter(NewRows(w), (1 .. MaxEvents) \ page.seen)
ShownNow(w) ==
  LET entries == page.entries \o NewOnes(w)
  IN  IF EndToTell(w, entries) THEN Append(entries, End) ELSE entries

LEMMA ReceivesShows ==
  ASSUME NEW w, PageReceives(w)
  PROVE  Show(ShownNow(w), page.seen \cup ToSet(NewOnes(w)))
BY DEF PageReceives, ShownNow, NewOnes

LEMMA ShownShape ==
  ASSUME InOrder, Watching, Seen, NEW w \in Slots
  PROVE  /\ NewOnes(w) \in Seq(1 .. MaxEvents)
         /\ page.entries \o NewOnes(w) \in Transcripts
         /\ ShownNow(w) \in Transcripts
         /\ page.seen \cup ToSet(NewOnes(w)) = ToSet(ShownNow(w)) \ {End}
         /\ page.seen \cup ToSet(NewOnes(w)) \in SUBSET (1 .. MaxEvents)
<1> USE EventsConstants
<1> DEFINE new == NewOnes(w)
           T == (1 .. MaxEvents) \cap ((1 .. MaxEvents) \ page.seen)
           both == page.entries \o new
<1>1. new \in Seq(1 .. MaxEvents)
  <2>1. NewRows(w) \in Seq(1 .. MaxEvents)
    BY Replied
  <2>2. new \in Seq(T)
    BY <2>1, FilterType DEF NewOnes
  <2> HIDE DEF new
  <2>3. T \subseteq 1 .. MaxEvents
    OBVIOUS
  <2> QED BY <2>2, <2>3, SeqWider
<1> HIDE DEF new
<1>2. page.entries \in Transcripts /\ page.seen = ToSet(page.entries) \ {End} /\ page.seen \in SUBSET (1 .. MaxEvents)
  BY SeenTypes DEF Pages
<1>3. ToSet(new) \subseteq 1 .. MaxEvents
  BY <1>1, MembersIn
<1>4. new \in Transcripts
  <2>1. 1 .. MaxEvents \subseteq 0 .. MaxEvents
    OBVIOUS
  <2> QED BY <1>1, <2>1, SeqWider DEF Transcripts
<1>5. both \in Transcripts /\ ToSet(both) = ToSet(page.entries) \cup ToSet(new)
  BY <1>2, <1>4, MembersOfBoth DEF Transcripts
<1> HIDE DEF both
<1>6. End \in 0 .. MaxEvents /\ End \notin 1 .. MaxEvents
  BY DEF End
<1>7. Append(both, End) \in Transcripts /\ ToSet(Append(both, End)) = ToSet(both) \cup {End}
  BY <1>5, <1>6, MembersOfMore DEF Transcripts
<1>8. ShownNow(w) = both \/ ShownNow(w) = Append(both, End)
  BY DEF ShownNow, both, new
<1>9. ShownNow(w) \in Transcripts /\ ToSet(ShownNow(w)) \ {End} = ToSet(both) \ {End}
  BY <1>5, <1>7, <1>8
<1>10. page.seen \cup ToSet(new) = ToSet(both) \ {End}
  BY <1>2, <1>3, <1>5, <1>6
<1>11. page.seen \cup ToSet(new) \in SUBSET (1 .. MaxEvents)
  BY <1>2, <1>3
<1> QED BY <1>1, <1>5, <1>9, <1>10, <1>11 DEF both, new

\* What is shown is kept for the folder of the page.
LEMMA ShowShape ==
  ASSUME Seen, NEW s \in Transcripts, NEW seen \in SUBSET (1 .. MaxEvents), Show(s, seen)
  PROVE  /\ page' \in Pages /\ page'.folder = page.folder /\ page'.entries = s /\ page'.seen = seen
         /\ transcript' \in [Folders -> Transcripts] /\ page.folder \in Folders
         /\ transcript'[page.folder] = IF s = << >> THEN transcript[page.folder] ELSE Kept(s)
         /\ \A f \in Folders \ {page.folder} : transcript'[f] = transcript[f]
         /\ excused' = (excused \/ Len(s) > Keep)
<1>1. page \in Pages /\ transcript \in [Folders -> Transcripts]
  BY SeenTypes
<1>2. page.folder \in Folders /\ Kept(s) \in Transcripts
  BY <1>1, KeptShape DEF Pages
<1>3. page' = [page EXCEPT !.entries = s, !.seen = seen]
  BY DEF Show
<1>4. page' \in Pages /\ page'.folder = page.folder /\ page'.entries = s /\ page'.seen = seen
  BY <1>1, <1>3 DEF Pages
<1>5. transcript' = IF s = << >> THEN transcript ELSE [transcript EXCEPT ![page.folder] = Kept(s)]
  BY DEF Show
<1> QED BY <1>1, <1>2, <1>4, <1>5 DEF Show
\* Steps after which the page and its transcripts are what they were.
PageStays == page' = page /\ transcript' = transcript /\ home' = home /\ excused' = excused

LEMMA StepsOfPage ==
  ASSUME [EventsNext]_eventVars
  PROVE  \/ PageStays
         \/ \E w \in Watches : PageReceives(w) \/ StartRun(w) \/ RunsListed(w)
         \/ Reload \/ \E f \in Folders : SwitchFolder(f)
<1>1. ASSUME RunGoesOn PROVE PageStays
  BY <1>1 DEF RunGoesOn, PageStays, Emit, Final, Completes, Fails, TellsFailure, RunCancelled, RunSwept, EventWritten,
     Write, ExecutionLeaves, EventsRestart, viewVars
<1>2. ASSUME StreamNext PROVE PageStays
  BY <1>2 DEF StreamNext, StreamOpens, StreamSends, Reads, ReadRow, ReadLog, runVars, PageStays
<1>3. ASSUME NEW w, Reads(w) \/ RequestFails(w) PROVE PageStays
  BY <1>3 DEF Reads, ReadRow, ReadLog, RequestFails, runVars, PageStays
<1>4. ASSUME UNCHANGED eventVars PROVE PageStays
  BY <1>4 DEF eventVars, PageStays
<1> QED BY <1>1, <1>2, <1>3, <1>4 DEF EventsNext, PageNext

LEMMA SeenGoesOn ==
  ASSUME InOrder, Watching, Seen, [EventsNext]_eventVars
  PROVE  Seen'
<1>1. CASE PageStays
  BY <1>1 DEF PageStays, Seen
<1>2. ASSUME NEW w \in Watches, PageReceives(w) PROVE Seen'
  <2> DEFINE s == ShownNow(w)
             seen == page.seen \cup ToSet(NewOnes(w))
  <2>1. w \in Slots
    BY EventsConstants
  <2>2. s \in Transcripts /\ seen = ToSet(s) \ {End} /\ seen \in SUBSET (1 .. MaxEvents)
    BY <2>1, ShownShape
  <2>3. Show(s, seen)
    BY <1>2, ReceivesShows
  <2>4. home' = home
    BY <1>2 DEF PageReceives, runVars
  <2> HIDE DEF s, seen
  <2>5. /\ page' \in Pages /\ page'.entries = s /\ page'.seen = seen
        /\ transcript' \in [Folders -> Transcripts] /\ excused' = (excused \/ Len(s) > Keep)
    BY <2>2, <2>3, ShowShape
  <2>6. excused' \in BOOLEAN
    BY <2>5 DEF Seen
  <2> QED BY <2>2, <2>4, <2>5, <2>6 DEF Seen, Pages, Transcripts
<1>3. ASSUME NEW w \in Watches, StartRun(w) PROVE Seen'
  <2>1. page' = page /\ transcript' = transcript /\ home' = page.folder /\ excused' = excused
    BY <1>3 DEF StartRun, Watch
  <2> QED BY <2>1 DEF Seen
<1>4. ASSUME NEW w \in Watches, RunsListed(w) PROVE Seen'
  <2>1. page' = [page EXCEPT !.listed = TRUE] /\ transcript' = transcript /\ home' = home /\ excused' = excused
    BY <1>4 DEF RunsListed, runVars
  <2>2. page \in Pages
    BY SeenTypes
  <2>3. page' \in Pages /\ page'.entries = page.entries /\ page'.seen = page.seen
    BY <2>1, <2>2 DEF Pages
  <2> QED BY <2>1, <2>3 DEF Seen, Pages, Transcripts
<1>5. CASE Reload
  <2>1. /\ page' = [Restored(page.folder) EXCEPT !.listed = FALSE]
        /\ transcript' = transcript /\ home' = home /\ excused' = excused
    BY <1>5 DEF Reload, runVars
  <2>2. page.folder \in Folders
    BY SeenTypes DEF Pages
  <2>3. page' \in Pages /\ page'.seen = ToSet(page'.entries) \ {End}
    BY <2>1, <2>2, RestoredShape
  <2> QED BY <2>1, <2>3 DEF Seen, Pages, Transcripts
<1>6. ASSUME NEW f \in Folders, SwitchFolder(f) PROVE Seen'
  <2>1. /\ page' = Restored(f) /\ transcript' = transcript /\ home' = home
        /\ excused' = (excused \/ \E w \in Watches : watch[w].pc # "off")
    BY <1>6 DEF SwitchFolder, runVars
  <2>2. page' \in Pages /\ page'.seen = ToSet(page'.entries) \ {End}
    BY <2>1, RestoredShape
  <2>3. excused' \in BOOLEAN
    BY <2>1 DEF Seen
  <2> QED BY <2>1, <2>2, <2>3 DEF Seen, Pages, Transcripts
<1> QED BY <1>1, <1>2, <1>3, <1>4, <1>5, <1>6, StepsOfPage

-----------------------------------------------------------------------------
(* Nothing is shown before the run *)

LEMMA NothingBefore ==
  ASSUME Watching, Seen, BeforeTheRun, [EventsNext]_eventVars
  PROVE  BeforeTheRun'
<1> USE EventsConstants
<1> SUFFICES ASSUME status' = "NONE" PROVE BeforeTheRun'
  BY DEF BeforeTheRun
<1>0. ASSUME status = "NONE"
      PROVE  /\ execution = "none" /\ writes = << >> /\ page.entries = << >> /\ sent = << >>
             /\ \A f \in Folders : transcript[f] = << >>
             /\ \A w \in Slots : watch[w].pc = "off"
  BY <1>0 DEF BeforeTheRun
<1>1. CASE status = "NONE" /\ UNCHANGED <<execution, writes, page, sent, transcript, watch>>
  BY <1>0, <1>1 DEF BeforeTheRun
<1>2. ASSUME RunGoesOn PROVE FALSE
  <2>1. execution # "none" \/ status # "NONE" \/ writes # << >>
    <3>1. ASSUME EventWritten PROVE writes # << >>
      BY <3>1 DEF EventWritten, Write
    <3> QED BY <1>2, <3>1 DEF RunGoesOn, Emit, Final, Completes, Fails, TellsFailure, RunCancelled, RunSwept,
         ExecutionLeaves, EventsRestart
  <2>2. status' = status \/ status' # "NONE"
    BY <1>2 DEF RunGoesOn, Emit, Final, Completes, Fails, TellsFailure, RunCancelled, RunSwept, EventWritten,
       Write, ExecutionLeaves, EventsRestart
  <2> QED BY <2>1, <2>2, <1>0
<1>3. status = "NONE"
  <2>1. ASSUME StreamNext \/ PageNext PROVE status' = status \/ status' = "RUNNING"
    BY <2>1 DEF StreamNext, PageNext, StreamOpens, StreamSends, Reads, ReadRow, ReadLog, PageReceives, RequestFails,
       StartRun, RunsListed, SwitchFolder, Reload, runVars
  <2>2. ASSUME UNCHANGED eventVars PROVE status' = status
    BY <2>2 DEF eventVars
  <2> QED BY <1>2, <2>1, <2>2 DEF EventsNext
<1>4. \A w \in Slots : watch[w].pc = "off"
  BY <1>0, <1>3
<1>5. ASSUME StreamNext PROVE FALSE
  BY <1>3, <1>4, <1>5 DEF StreamNext, StreamOpens, StreamSends, Reads, ReadRow, ReadLog
<1>6. ASSUME NEW w \in Watches, Reads(w) \/ PageReceives(w) \/ RequestFails(w) PROVE FALSE
  BY <1>4, <1>6 DEF Reads, ReadRow, ReadLog, PageReceives, RequestFails
<1>7. ASSUME NEW w \in Watches, StartRun(w) PROVE FALSE
  BY <1>7 DEF StartRun
<1>8. ASSUME NEW w \in Watches, RunsListed(w) PROVE BeforeTheRun'
  <2>1. /\ page' = [page EXCEPT !.listed = TRUE]
        /\ UNCHANGED <<execution, writes, sent, transcript, watch>>
    BY <1>3, <1>8 DEF RunsListed, runVars
  <2>2. page \in Pages
    BY SeenTypes
  <2>3. page'.entries = page.entries
    BY <2>1, <2>2 DEF Pages
  <2> QED BY <1>0, <1>3, <2>1, <2>3 DEF BeforeTheRun
<1>9. CASE Reload
  <2>1. /\ page' = [Restored(page.folder) EXCEPT !.listed = FALSE]
        /\ UNCHANGED <<execution, writes, sent, transcript>>
        /\ watch' = [w \in Slots |-> IF w = Stream THEN watch[w] ELSE Off]
    BY <1>9 DEF Reload, runVars
  <2>2. page.folder \in Folders
    BY SeenTypes DEF Pages
  <2>3. page'.entries = << >>
    BY <1>0, <1>3, <2>1, <2>2, RestoredShape
  <2>4. \A w \in Slots : watch'[w].pc = "off"
    BY <1>4, <2>1 DEF Off
  <2> QED BY <1>0, <1>3, <2>1, <2>3, <2>4 DEF BeforeTheRun
<1>10. ASSUME NEW f \in Folders, SwitchFolder(f) PROVE BeforeTheRun'
  <2>1. page' = Restored(f) /\ UNCHANGED <<execution, writes, sent, transcript, watch>>
    BY <1>10 DEF SwitchFolder, runVars
  <2>2. page'.entries = << >>
    BY <1>0, <1>3, <2>1, RestoredShape
  <2> QED BY <1>0, <1>3, <2>1, <2>2 DEF BeforeTheRun
<1>11. CASE UNCHANGED eventVars
  BY <1>1, <1>3, <1>11 DEF eventVars
<1> QED BY <1>2, <1>5, <1>6, <1>7, <1>8, <1>9, <1>10, <1>11 DEF EventsNext, PageNext

-----------------------------------------------------------------------------
(* The stream *)

\* What was sent, and the cursor of a watch that goes on, stay what they were.
LEMMA StreamStays ==
  ASSUME InOrder, HasSent(log, sent, watch[Stream]), LogGrows, sent' = sent,
         watch'[Stream].pc # "off" => watch[Stream].pc # "off" /\ watch'[Stream].cursor = watch[Stream].cursor
  PROVE  HasSent(log', sent', watch'[Stream])
<1>1. Len(sent) \in 0 .. Len(log)
  BY DEF HasSent
<1>2. /\ SubSeq(log', 1, Len(sent)) = SubSeq(log, 1, Len(sent))
      /\ LastOf(log', Len(sent)) = LastOf(log, Len(sent)) /\ Len(sent) \in 0 .. Len(log')
  BY <1>1, LogKeeps
<1> QED BY <1>2 DEF HasSent

LEMMA StreamSendsMore ==
  ASSUME InOrder, Watching, HasSent(log, sent, watch[Stream]), StreamSends
  PROVE  HasSent(log', sent', watch'[Stream])
<1> USE EventsConstants
<1> DEFINE k == Len(sent)
           c == watch[Stream].cursor
           r == watch[Stream].rows
           n == IF k < r THEN r ELSE k
           rows == NewRows(Stream)
           T == c + 1 .. MaxEvents
<1>1. /\ log' = log /\ sent' = sent \o rows /\ watch[Stream].pc = "reply"
      /\ watch' = [watch EXCEPT ![Stream] =
                IF Over(Stream) THEN Off ELSE [Off EXCEPT !.pc = "ask", !.cursor = Cursor(Stream)]]
  BY DEF StreamSends, Advance, runVars
<1>2. log \in Seq(1 .. MaxEvents) /\ Len(log) \in Nat /\ Increasing(log)
  BY DEF InOrder
<1>3. k \in 0 .. Len(log) /\ sent = SubSeq(log, 1, k) /\ c = LastOf(log, k)
  BY <1>1 DEF HasSent
<1>4. r \in 0 .. Len(log) /\ c \in 0 .. MaxEvents
  <2>1. watch[Stream] \in WatchStates /\ r <= Len(log)
    BY DEF Watching
  <2>2. r \in 0 .. Take /\ c \in 0 .. MaxEvents
    BY <2>1, WatchTurns
  <2> HIDE DEF r
  <2> QED BY <1>2, <2>1, <2>2
<1>5. rows = Filter(SubSeq(log, 1, r), T)
  BY DEF NewRows
<1> HIDE DEF k, c, r, rows
<1>6. \A i \in 1 .. r : log[i] \in T <=> k < i
  <2> TAKE i \in 1 .. r
  <2>1. i \in 1 .. Len(log) /\ log[i] \in 1 .. MaxEvents /\ i \in Nat /\ k \in Nat
    BY <1>2, <1>3, <1>4
  <2>2. CASE k = 0
    BY <2>1, <2>2, <1>3 DEF LastOf
  <2>3. CASE k # 0
    <3>1. k \in 1 .. Len(log) /\ c = log[k] /\ log[k] \in 1 .. MaxEvents
      BY <1>2, <1>3, <2>3 DEF LastOf
    <3>2. CASE k < i
      BY <3>1, <3>2, <2>1, <1>2 DEF Increasing
    <3>3. CASE k = i
      BY <3>1, <3>3, <2>1
    <3>4. CASE i < k
      BY <3>1, <3>4, <2>1, <1>2 DEF Increasing
    <3> QED BY <2>1, <3>2, <3>3, <3>4
  <2> QED BY <2>2, <2>3
<1> HIDE DEF T
<1>7. rows = SubSeq(log, k + 1, r)
  <2>1. k \in Nat
    BY <1>3
  <2> QED BY <2>1, <1>2, <1>4, <1>5, <1>6, FilterPast
<1>8. sent' = SubSeq(log, 1, n)
  BY <1>1, <1>2, <1>3, <1>4, <1>7, Continue
<1>9. n \in 0 .. Len(log) /\ n \in Nat
  BY <1>2, <1>3, <1>4
<1>10. Len(sent') = n
  <2> HIDE DEF n
  <2> QED BY <1>2, <1>8, <1>9, Prefix
<1>11. Cursor(Stream) = LastOf(log, n)
  <2>1. CASE k < r
    <3>1. Len(rows) = r - k /\ rows # << >> /\ rows[r - k] = log[r]
      BY <1>2, <1>3, <1>4, <1>7, <2>1, StretchShape
    <3>2. Cursor(Stream) = log[r]
      BY <3>1 DEF Cursor, Last, rows
    <3>3. n = r /\ r # 0
      BY <2>1, <1>3, <1>4
    <3> QED BY <3>2, <3>3 DEF LastOf
  <2>2. CASE ~(k < r)
    <3>1. rows = << >>
      BY <1>2, <1>3, <1>4, <1>7, <2>2
    <3>2. Cursor(Stream) = c
      BY <3>1 DEF Cursor, rows, c
    <3> QED BY <3>2, <2>2, <1>3
  <2> QED BY <2>1, <2>2
<1>12. watch'[Stream].pc # "off" => watch'[Stream].cursor = Cursor(Stream)
  <2>1. Stream \in Slots /\ watch \in [Slots -> WatchStates] /\ Cursor(Stream) \in 0 .. MaxEvents
    BY Replied DEF Watching
  <2>2. watch'[Stream] = IF Over(Stream) THEN Off ELSE [Off EXCEPT !.pc = "ask", !.cursor = Cursor(Stream)]
    BY <1>1, <2>1
  <2>3. [Off EXCEPT !.pc = "ask", !.cursor = Cursor(Stream)].cursor = Cursor(Stream) /\ Off.pc = "off"
    BY <2>1, WatchShapes
  <2> QED BY <2>2, <2>3
<1> HIDE DEF n
<1> QED BY <1>1, <1>8, <1>9, <1>10, <1>11, <1>12 DEF HasSent

LEMMA StreamGoesOn ==
  ASSUME InOrder, Watching, HasSent(log, sent, watch[Stream]), [EventsNext]_eventVars
  PROVE  HasSent(log', sent', watch'[Stream])
<1> USE EventsConstants
<1>0. LogGrows /\ watch \in [Slots -> WatchStates] /\ Stream \in Slots
  BY RunInOrder DEF Watching
<1> DEFINE Same == sent' = sent /\ watch'[Stream] = watch[Stream]
<1>1. CASE Same
  BY <1>0, <1>1, StreamStays
<1>2. ASSUME RunGoesOn, ~EventsRestart PROVE Same
  BY <1>2 DEF RunGoesOn, Emit, Final, Completes, Fails, TellsFailure, RunCancelled, RunSwept, EventWritten,
     Write, ExecutionLeaves, viewVars
<1>3. CASE EventsRestart
  <2>1. sent' = sent /\ watch'[Stream].pc = "off"
    BY <1>0, <1>3, WatchShapes DEF EventsRestart
  <2> QED BY <1>0, <2>1, StreamStays
<1>4. ASSUME NEW w \in Watches, Reads(w) \/ RequestFails(w) \/ PageReceives(w) \/ StartRun(w) \/ RunsListed(w) PROVE Same
  <2>1. w # Stream
    OBVIOUS
  <2>2. sent' = sent
    BY <1>4 DEF Reads, ReadRow, ReadLog, RequestFails, PageReceives, StartRun, RunsListed
  <2>3. UNCHANGED watch \/ \E x : watch' = [watch EXCEPT ![w] = x]
    BY <1>4 DEF Reads, ReadRow, ReadLog, RequestFails, PageReceives, StartRun, RunsListed, Advance, Watch
  <2> QED BY <1>0, <2>1, <2>2, <2>3
<1>5. CASE Reload
  BY <1>0, <1>1, <1>5 DEF Reload
<1>6. ASSUME NEW f \in Folders, SwitchFolder(f) PROVE Same
  BY <1>6 DEF SwitchFolder
<1>7. ASSUME UNCHANGED eventVars PROVE Same
  BY <1>7 DEF eventVars
<1>8. CASE Reads(Stream)
  <2>1. sent' = sent
    BY <1>8 DEF Reads, ReadRow, ReadLog
  <2>2. watch[Stream].pc # "off" /\ watch[Stream] \in WatchStates
    BY <1>0, <1>8 DEF Reads, ReadRow, ReadLog
  <2>3. watch'[Stream].cursor = watch[Stream].cursor
    BY <1>0, <1>8, <2>2 DEF Reads, ReadRow, ReadLog, WatchStates
  <2> QED BY <1>0, <2>1, <2>2, <2>3, StreamStays
<1>9. CASE StreamOpens
  <2>1. sent' = << >> /\ watch'[Stream].cursor = 0 /\ log' = log
    BY <1>0, <1>9, WatchShapes DEF StreamOpens, runVars
  <2>2. Len(sent') = 0 /\ 0 \in 0 .. Len(log) /\ SubSeq(log, 1, 0) = << >>
    BY <2>1 DEF InOrder
  <2> QED BY <2>1, <2>2 DEF HasSent, LastOf
<1>10. CASE StreamSends
  BY <1>10, StreamSendsMore
<1> QED BY <1>1, <1>2, <1>3, <1>4, <1>5, <1>6, <1>7, <1>8, <1>9, <1>10 DEF EventsNext, StreamNext, PageNext

-----------------------------------------------------------------------------
(* What the page shows *)

LEMMA LastGrows ==
  ASSUME InOrder, NEW m \in 0 .. Len(log), NEW n \in 0 .. Len(log), m <= n
  PROVE  /\ LastOf(log, m) \in Nat /\ LastOf(log, n) \in Nat /\ LastOf(log, m) <= LastOf(log, n)
         /\ \A i \in 1 .. n : log[i] <= LastOf(log, n)
<1>1. /\ Len(log) \in Nat /\ Increasing(log)
      /\ \A i \in 1 .. Len(log) : log[i] \in 1 .. MaxEvents /\ log[i] \in Nat
  BY EventsConstants DEF InOrder
<1>2. ASSUME NEW i \in 1 .. Len(log), NEW j \in 1 .. Len(log), i <= j PROVE log[i] <= log[j]
  <2>1. CASE i = j
    BY <2>1, <1>1
  <2>2. CASE i < j
    BY <2>2, <1>1 DEF Increasing
  <2> QED BY <2>1, <2>2, <1>2
<1>3. \A i \in 1 .. n : log[i] <= LastOf(log, n)
  BY <1>1, <1>2 DEF LastOf
<1>4. LastOf(log, m) \in Nat /\ LastOf(log, n) \in Nat
  BY <1>1 DEF LastOf
<1>5. LastOf(log, m) <= LastOf(log, n)
  BY <1>1, <1>3, <1>4 DEF LastOf
<1> QED BY <1>3, <1>4, <1>5

LEMMA SeenOfShown ==
  ASSUME InOrder, Seen, NEW m \in 0 .. Len(log), Events(page.entries) = SubSeq(log, 1, m)
  PROVE  \A i \in 1 .. Len(log) : log[i] \in page.seen <=> i <= m
<1> USE EventsConstants
<1> DEFINE A == 0 .. MaxEvents
           S == 1 .. MaxEvents
           e == page.entries
           f == Filter(e, S)
<1>1. /\ log \in Seq(S) /\ Len(log) \in Nat /\ Increasing(log)
      /\ \A i \in 1 .. Len(log) : log[i] \in S /\ log[i] \in Nat
  BY DEF InOrder
<1>2. e \in Seq(A) /\ page.seen = ToSet(e) \ {End}
  BY SeenTypes DEF Pages, Transcripts
<1>3. f = SubSeq(log, 1, m)
  BY DEF Events
<1>4. /\ \A i \in 1 .. Len(e) : e[i] \in S => \E j \in 1 .. Len(f) : f[j] = e[i]
      /\ \A j \in 1 .. Len(f) : \E i \in 1 .. Len(e) : e[i] \in S /\ f[j] = e[i]
  <2> HIDE DEF A, S, e
  <2> QED BY <1>2, FilterMembers
<1>5. Len(f) = m /\ \A j \in 1 .. m : f[j] = log[j]
  <2> HIDE DEF S, f
  <2> QED BY <1>1, <1>3, Prefix
<1>6. DOMAIN e = 1 .. Len(e)
  BY <1>2
<1>7. End \notin S
  BY DEF End
<1> HIDE DEF A, e, f
<1>8. ASSUME NEW i \in 1 .. Len(log), i <= m PROVE log[i] \in page.seen
  <2>1. i \in 1 .. m
    BY <1>1, <1>8
  <2>2. PICK j \in 1 .. Len(e) : e[j] \in S /\ log[i] = e[j]
    BY <1>4, <1>5, <2>1
  <2> HIDE DEF S
  <2>3. e[j] \in ToSet(e)
    BY <1>6 DEF ToSet
  <2> QED BY <2>2, <2>3, <1>2, <1>7
<1>9. ASSUME NEW i \in 1 .. Len(log), log[i] \in page.seen PROVE i <= m
  <2>1. PICK j \in 1 .. Len(e) : e[j] = log[i]
    BY <1>2, <1>6, <1>9 DEF ToSet
  <2>2. e[j] \in S
    BY <1>1, <2>1
  <2>3. PICK q \in 1 .. m : f[q] = e[j]
    BY <1>4, <1>5, <2>2
  <2>4. q \in 1 .. Len(log) /\ log[q] = log[i]
    BY <1>1, <1>5, <2>1, <2>3
  <2>5. ~(q < i)
    BY <1>1, <2>4 DEF Increasing
  <2> QED BY <2>5, <1>1
<1> QED BY <1>8, <1>9

\* What a reply adds to a page that shows the first m events, by a watch that is not beyond them.
LEMMA NewOnesAre ==
  ASSUME InOrder, Watching, Seen, NEW m \in 0 .. Len(log), Events(page.entries) = SubSeq(log, 1, m),
         NEW w \in Slots, watch[w].cursor <= LastOf(log, m)
  PROVE  NewOnes(w) = SubSeq(log, m + 1, watch[w].rows)
<1> USE EventsConstants
<1> DEFINE r == watch[w].rows
           c == watch[w].cursor
           S == c + 1 .. MaxEvents
           T == (1 .. MaxEvents) \ page.seen
           U == S \cap T
           A == 1 .. MaxEvents
<1>1. /\ log \in Seq(A) /\ Len(log) \in Nat /\ Increasing(log)
      /\ \A i \in 1 .. Len(log) : log[i] \in 1 .. MaxEvents /\ log[i] \in Nat
  BY DEF InOrder
<1>2. r \in 0 .. Len(log) /\ c \in 0 .. MaxEvents
  <2>1. watch[w] \in WatchStates /\ r <= Len(log)
    BY DEF Watching
  <2>2. r \in 0 .. Take /\ c \in 0 .. MaxEvents
    BY <2>1, WatchTurns
  <2> HIDE DEF r
  <2> QED BY <1>1, <2>1, <2>2
<1>3. c <= LastOf(log, m)
  OBVIOUS
<1> HIDE DEF c
<1>4. NewOnes(w) = Filter(Filter(SubSeq(log, 1, r), S), T)
  BY DEF NewOnes, NewRows, c
<1> HIDE DEF r
<1>5. \A i \in 1 .. r : log[i] \in U <=> m < i
  <2> TAKE i \in 1 .. r
  <2>1. i \in 1 .. Len(log) /\ i \in Nat /\ m \in Nat /\ log[i] \in 1 .. MaxEvents
    BY <1>1, <1>2
  <2>2. log[i] \in page.seen <=> i <= m
    BY <2>1, SeenOfShown
  <2>3. m < i => c < log[i]
    <3>1. CASE m = 0
      BY <2>1, <3>1, <1>2, <1>3 DEF LastOf
    <3>2. CASE m # 0
      <4>1. m \in 1 .. Len(log) /\ c <= log[m] /\ log[m] \in Nat
        BY <1>1, <1>3, <3>2 DEF LastOf
      <4> QED BY <4>1, <2>1, <1>1, <1>2 DEF Increasing
    <3> QED BY <3>1, <3>2
  <2> QED BY <2>1, <2>2, <2>3, <1>2
<1>6. SubSeq(log, 1, r) \in Seq(A)
  <2> HIDE DEF A
  <2> QED BY <1>1, <1>2, Prefix
<1> HIDE DEF S, T, A
<1>7. Filter(Filter(SubSeq(log, 1, r), S), T) = Filter(SubSeq(log, 1, r), U)
  <2> DEFINE q == SubSeq(log, 1, r)
  <2>1. q \in Seq(A)
    BY <1>6
  <2> HIDE DEF q
  <2>2. Filter(Filter(q, S), T) = Filter(q, S \cap T)
    BY <2>1, FilterTwice
  <2> QED BY <2>2 DEF q
<1> HIDE DEF U
<1>8. Filter(SubSeq(log, 1, r), U) = SubSeq(log, m + 1, r)
  <2>1. m \in Nat
    BY <1>1
  <2> QED BY <2>1, <1>1, <1>2, <1>5, FilterPast
<1> QED BY <1>4, <1>7, <1>8 DEF r

\* The events among what the page then shows.
LEMMA EventsShown ==
  ASSUME InOrder, Watching, Seen, NEW w \in Slots
  PROVE  /\ Events(ShownNow(w)) = Events(page.entries) \o NewOnes(w)
         /\ ShownNow(w) = << >> => page.entries = << >>
<1> USE EventsConstants
<1> DEFINE A == 0 .. MaxEvents
           S == 1 .. MaxEvents
           new == NewOnes(w)
           both == page.entries \o new
<1>1. page.entries \in Seq(A) /\ new \in Seq(S) /\ End \in A /\ End \notin S /\ S \subseteq A
  BY ShownShape, SeenTypes DEF Pages, Transcripts, End
<1>2. ShownNow(w) = both \/ ShownNow(w) = Append(both, End)
  BY DEF ShownNow
<1> HIDE DEF A, S, new
<1>3. new \in Seq(A)
  BY <1>1, SeqWider
<1>4. both \in Seq(A) /\ Len(both) = Len(page.entries) + Len(new) /\ Len(new) \in Nat /\ Len(page.entries) \in Nat
  BY <1>1, <1>3
<1>5. Filter(both, S) = Filter(page.entries, S) \o Filter(new, S)
  <2> DEFINE e == page.entries
  <2>1. e \in Seq(A)
    BY <1>1
  <2> HIDE DEF e
  <2>2. Filter(e \o new, S) = Filter(e, S) \o Filter(new, S)
    BY <2>1, <1>3, FilterConcat
  <2> QED BY <2>2 DEF e
<1>6. Filter(new, S) = new
  BY <1>1, FilterAll
<1> HIDE DEF both
<1>7. Filter(Append(both, End), S) = Filter(both, S)
  BY <1>1, <1>4, FilterAppend
<1>8. Filter(ShownNow(w), S) = Filter(page.entries, S) \o new
  BY <1>2, <1>5, <1>6, <1>7
<1>9. ASSUME ShownNow(w) = << >> PROVE page.entries = << >>
  <2>1. Append(both, End) # << >>
    BY <1>1, <1>4
  <2>2. Len(both) = 0
    BY <1>2, <1>9, <2>1
  <2>3. Len(page.entries) = 0
    BY <1>4, <2>2
  <2> QED BY <1>1, <2>3
<1> QED BY <1>8, <1>9 DEF Events, S, new

LEMMA ReceivesGoesOn ==
  ASSUME InOrder, Watching, Seen, PageShows, NEW w \in Watches, PageReceives(w)
  PROVE  PageShows'
<1> USE EventsConstants
<1> SUFFICES ASSUME ~excused' PROVE \E m \in 0 .. Len(log') : HasShown(log', transcript', page', home', watch', m)
  BY DEF PageShows
<1> DEFINE s == ShownNow(w)
           seen == page.seen \cup ToSet(NewOnes(w))
<1>0. w \in Slots /\ watch \in [Slots -> WatchStates] /\ watch[w].pc = "reply"
  BY DEF Watching, PageReceives
<1>1. s \in Transcripts /\ seen \in SUBSET (1 .. MaxEvents) /\ Show(s, seen)
  BY <1>0, ShownShape, ReceivesShows
<1>2. log' = log /\ home' = home /\ Advance(w)
  BY DEF PageReceives, runVars
<1> HIDE DEF s, seen
<1>3. /\ page'.folder = page.folder /\ page'.entries = s
      /\ transcript'[page.folder] = IF s = << >> THEN transcript[page.folder] ELSE Kept(s)
      /\ \A f \in Folders \ {page.folder} : transcript'[f] = transcript[f]
      /\ excused' = (excused \/ Len(s) > Keep)
  BY <1>1, ShowShape
<1>4. PICK m \in 0 .. Len(log) : HasShown(log, transcript, page, home, watch, m)
  BY <1>3 DEF PageShows
<1>5. home \in Folders /\ Len(log) \in Nat
  BY DEF Seen, InOrder
<1>6. CASE page.folder # home
  <2>1. transcript'[home] = transcript[home] /\ page'.folder # home'
    BY <1>2, <1>3, <1>5, <1>6
  <2>2. HasShown(log', transcript', page', home', watch', m)
    BY <1>2, <1>4, <2>1 DEF HasShown
  <2> QED BY <1>2, <2>2
<1>7. CASE page.folder = home
  <2> DEFINE r == watch[w].rows
             n == IF m < r THEN r ELSE m
  <2>1. /\ Events(page.entries) = SubSeq(log, 1, m) /\ page.entries = transcript[home]
        /\ \A v \in Watches : watch[v].pc # "off" => watch[v].cursor <= LastOf(log, m)
    BY <1>4, <1>7 DEF HasShown
  <2>2. r \in 0 .. Len(log)
    <3>1. watch[w] \in WatchStates /\ r <= Len(log)
      BY <1>0 DEF Watching
    <3>2. r \in 0 .. Take
      BY <3>1, WatchTurns
    <3> HIDE DEF r
    <3> QED BY <1>5, <3>1, <3>2
  <2>3. watch[w].cursor <= LastOf(log, m)
    BY <1>0, <2>1
  <2>4. NewOnes(w) = SubSeq(log, m + 1, r)
    BY <1>0, <2>1, <2>3, NewOnesAre
  <2>5. Events(s) = SubSeq(log, 1, m) \o NewOnes(w)
    BY <1>0, <2>1, EventsShown DEF s
  <2> HIDE DEF r
  <2>6. Events(s) = SubSeq(log, 1, n)
    <3> DEFINE A == 1 .. MaxEvents
    <3>1. log \in Seq(A)
      BY DEF InOrder
    <3> HIDE DEF A
    <3> QED BY <2>2, <2>4, <2>5, <3>1, Continue
  <2>7. n \in 0 .. Len(log) /\ m <= n /\ r <= n
    BY <1>5, <2>2
  <2>8. transcript'[home] = s
    <3>1. CASE s = << >>
      BY <1>0, <1>3, <1>7, <2>1, <3>1, EventsShown DEF s
    <3>2. CASE s # << >>
      <4>1. Len(s) \in Nat
        BY <1>1 DEF Transcripts
      <4>2. ~(Len(s) > Keep)
        BY <1>3
      <4>3. Len(s) <= Keep
        BY <4>1, <4>2
      <4>4. Kept(s) = s
        BY <1>1, <4>3, KeptShape
      <4> QED BY <1>3, <1>7, <3>2, <4>4
    <3> QED BY <3>1, <3>2
  <2> HIDE DEF n
  <2>9. /\ LastOf(log, m) \in Nat /\ LastOf(log, n) \in Nat /\ LastOf(log, m) <= LastOf(log, n)
        /\ \A i \in 1 .. n : log[i] <= LastOf(log, n)
    BY <2>7, LastGrows
  <2>10. Cursor(w) <= LastOf(log, n) /\ Cursor(w) \in 0 .. MaxEvents
    <3>1. /\ Cursor(w) \in 0 .. MaxEvents
          /\ Cursor(w) = watch[w].cursor \/ \E i \in 1 .. r : Cursor(w) = log[i]
      BY <1>0, Replied DEF r
    <3>2. CASE Cursor(w) = watch[w].cursor
      BY <2>3, <2>9, <3>1, <3>2
    <3>3. ASSUME NEW i \in 1 .. r, Cursor(w) = log[i] PROVE Cursor(w) <= LastOf(log, n)
      <4>1. i \in 1 .. n
        BY <2>2, <2>7, <1>5
      <4> QED BY <4>1, <2>9, <3>3
    <3> QED BY <3>1, <3>2, <3>3
  <2>11. ASSUME NEW v \in Watches, watch'[v].pc # "off" PROVE watch'[v].cursor <= LastOf(log, n)
    <3> DEFINE y == [Off EXCEPT !.pc = "ask", !.cursor = Cursor(w)]
    <3>1. watch' = [watch EXCEPT ![w] = IF Over(w) THEN Off ELSE y]
      BY <1>2 DEF Advance
    <3>2. y.cursor = Cursor(w) /\ Off.pc = "off"
      BY <2>10, WatchShapes
    <3> HIDE DEF y
    <3>3. CASE v = w
      <4>1. watch'[w] = IF Over(w) THEN Off ELSE y
        BY <3>1, <1>0
      <4> QED BY <3>2, <3>3, <4>1, <2>10, <2>11
    <3>4. CASE v # w
      <4>1. watch'[v] = watch[v] /\ v \in Slots
        BY <3>1, <3>4, <1>0
      <4>2. watch[v].cursor <= LastOf(log, m) /\ watch[v] \in WatchStates
        BY <4>1, <2>1, <2>11, <1>0
      <4>3. watch[v].cursor \in 0 .. MaxEvents
        BY <4>2, WatchTurns
      <4> QED BY <4>1, <4>2, <4>3, <2>9
    <3> QED BY <3>3, <3>4
  <2>12. HasShown(log', transcript', page', home', watch', n)
    BY <1>2, <1>3, <2>6, <2>8, <2>11 DEF HasShown
  <2> QED BY <1>2, <2>7, <2>12
<1> QED BY <1>6, <1>7

LEMMA ShowsGoesOn ==
  ASSUME InOrder, Watching, Seen, BeforeTheRun, PageShows, [EventsNext]_eventVars
  PROVE  PageShows'
<1> USE EventsConstants
<1>0. LogGrows /\ watch \in [Slots -> WatchStates] /\ Len(log) \in Nat /\ Len(log') \in Nat
  BY RunInOrder, LogIsLonger DEF Watching
<1> DEFINE Fewer == \A v \in Watches : watch'[v].pc # "off" =>
                      watch[v].pc # "off" /\ watch'[v].cursor = watch[v].cursor
\* The watches that go on are where they were.
<1>1. ASSUME PageStays, Fewer PROVE PageShows'
  <2> SUFFICES ASSUME ~excused' PROVE \E m \in 0 .. Len(log') : HasShown(log', transcript', page', home', watch', m)
    BY DEF PageShows
  <2>1. PICK m \in 0 .. Len(log) : HasShown(log, transcript, page, home, watch, m)
    BY <1>1 DEF PageShows, PageStays
  <2>2. /\ SubSeq(log', 1, m) = SubSeq(log, 1, m) /\ LastOf(log', m) = LastOf(log, m)
        /\ m \in 0 .. Len(log')
    BY <1>0, <2>1, LogKeeps
  <2>3. HasShown(log', transcript', page', home', watch', m)
    BY <1>1, <2>1, <2>2 DEF HasShown, PageStays
  <2> QED BY <2>2, <2>3
<1>2. ASSUME RunGoesOn PROVE PageStays /\ Fewer
  <2>1. PageStays
    BY <1>2 DEF RunGoesOn, PageStays, Emit, Final, Completes, Fails, TellsFailure, RunCancelled, RunSwept, EventWritten,
       Write, ExecutionLeaves, EventsRestart, viewVars
  <2>2. CASE EventsRestart
    <3> SUFFICES ASSUME NEW v \in Watches, watch'[v].pc # "off"
                 PROVE  watch[v].pc # "off" /\ watch'[v].cursor = watch[v].cursor
      BY <2>1
    <3>1. v \in Slots /\ v # Stream /\ watch[v] \in WatchStates
      BY <1>0
    <3>2. watch'[v] = IF watch[v].pc \in {"log", "reply"} THEN Again(v) ELSE watch[v]
      BY <2>2, <3>1 DEF EventsRestart
    <3>3. Again(v).cursor = watch[v].cursor
      BY <3>1, WatchTurns, WatchShapes DEF Again
    <3> QED BY <3>2, <3>3
  <2>3. CASE ~EventsRestart
    <3>1. watch' = watch
      BY <1>2, <2>3 DEF RunGoesOn, Emit, Final, Completes, Fails, TellsFailure, RunCancelled, RunSwept, EventWritten,
         Write, ExecutionLeaves, viewVars
    <3> QED BY <2>1, <3>1
  <2> QED BY <2>1, <2>2, <2>3
<1>3. ASSUME StreamNext PROVE PageStays /\ Fewer
  <2>1. PageStays
    BY <1>3 DEF StreamNext, StreamOpens, StreamSends, Reads, ReadRow, ReadLog, runVars, PageStays
  <2>2. \E x : watch' = [watch EXCEPT ![Stream] = x]
    BY <1>3 DEF StreamNext, StreamOpens, StreamSends, Reads, ReadRow, ReadLog, Advance
  <2>3. \A v \in Watches : watch'[v] = watch[v]
    BY <1>0, <2>2
  <2> QED BY <2>1, <2>3
<1>4. ASSUME NEW w \in Watches, Reads(w) PROVE PageStays /\ Fewer
  <2>1. PageStays
    BY <1>4 DEF Reads, ReadRow, ReadLog, runVars, PageStays
  <2>2. watch[w].pc # "off" /\ watch[w] \in WatchStates /\ w \in Slots
    BY <1>0, <1>4 DEF Reads, ReadRow, ReadLog
  <2>3. \A v \in Watches \ {w} : watch'[v] = watch[v]
    BY <1>0, <1>4 DEF Reads, ReadRow, ReadLog
  <2>4. watch'[w].pc # "off" => watch'[w].cursor = watch[w].cursor
    <3>1. CASE ReadRow(w)
      <4>1. watch'[w] = IF w \in {current, Stream} THEN [watch[w] EXCEPT !.pc = "log", !.status = status] ELSE Off
        BY <1>0, <2>2, <3>1 DEF ReadRow
      <4>2. [watch[w] EXCEPT !.pc = "log", !.status = status].cursor = watch[w].cursor
        BY <2>2 DEF WatchStates
      <4>3. Off.pc = "off"
        BY WatchShapes
      <4> QED BY <4>1, <4>2, <4>3
    <3>2. CASE ReadLog(w)
      BY <1>0, <2>2, <3>2 DEF ReadLog, WatchStates
    <3> QED BY <1>4, <3>1, <3>2 DEF Reads
  <2> QED BY <2>1, <2>2, <2>3, <2>4
<1>5. ASSUME NEW w \in Watches, RequestFails(w) PROVE PageStays /\ Fewer
  <2>1. PageStays
    BY <1>5 DEF RequestFails, runVars, PageStays
  <2>2. watch[w].pc # "off" /\ watch[w] \in WatchStates /\ w \in Slots
    BY <1>0, <1>5 DEF RequestFails
  <2>3. \A v \in Watches \ {w} : watch'[v] = watch[v]
    BY <1>0, <1>5 DEF RequestFails
  <2>4. watch'[w] = Again(w)
    BY <1>0, <1>5, <2>2 DEF RequestFails
  <2>5. Again(w).cursor = watch[w].cursor
    BY <2>2, WatchTurns, WatchShapes DEF Again
  <2> QED BY <2>1, <2>2, <2>3, <2>4, <2>5
<1>6. ASSUME UNCHANGED eventVars PROVE PageStays /\ Fewer
  BY <1>6 DEF eventVars, PageStays
<1>7. ASSUME NEW w \in Watches, PageReceives(w) PROVE PageShows'
  BY <1>7, ReceivesGoesOn
\* A run that begins has nothing to show, and the page is in its folder.
<1>8. ASSUME NEW w \in Watches, StartRun(w) PROVE PageShows'
  <2>1. /\ status = "NONE" /\ page' = page /\ transcript' = transcript /\ home' = page.folder /\ log' = log
        /\ watch' = [watch EXCEPT ![w] = [Off EXCEPT !.pc = "ask"]]
    BY <1>8 DEF StartRun, Watch
  <2>2. /\ page.entries = << >> /\ \A f \in Folders : transcript[f] = << >>
        /\ \A v \in Slots : watch[v].pc = "off"
    BY <2>1 DEF BeforeTheRun
  <2>3. page.folder \in Folders
    BY SeenTypes DEF Pages
  <2>4. transcript'[home'] = << >> /\ page'.entries = << >>
    BY <2>1, <2>2, <2>3
  <2>5. Events(<< >>) = SubSeq(log', 1, 0)
    BY <1>0, FilterEmpty, NoPrefix, RunInOrder DEF Events, InOrder
  <2>6. ASSUME NEW v \in Watches, watch'[v].pc # "off" PROVE watch'[v].cursor = 0
    <3>1. CASE v = w
      BY <3>1, <2>1, <1>0, WatchShapes
    <3>2. CASE v # w
      BY <3>2, <2>1, <2>2, <2>6, <1>0
    <3> QED BY <3>1, <3>2
  <2>7. HasShown(log', transcript', page', home', watch', 0)
    BY <2>1, <2>4, <2>5, <2>6 DEF HasShown, LastOf
  <2>8. 0 \in 0 .. Len(log')
    BY <1>0
  <2> QED BY <2>7, <2>8 DEF PageShows
\* A watch that begins is before every event.
<1>9. ASSUME NEW w \in Watches, RunsListed(w) PROVE PageShows'
  <2> SUFFICES ASSUME ~excused' PROVE \E m \in 0 .. Len(log') : HasShown(log', transcript', page', home', watch', m)
    BY DEF PageShows
  <2>1. /\ page' = [page EXCEPT !.listed = TRUE] /\ transcript' = transcript /\ home' = home /\ log' = log
        /\ excused' = excused
        /\ UNCHANGED watch \/ watch' = [watch EXCEPT ![w] = [Off EXCEPT !.pc = "ask"]]
    BY <1>9 DEF RunsListed, Watch, runVars
  <2>2. PICK m \in 0 .. Len(log) : HasShown(log, transcript, page, home, watch, m)
    BY <2>1 DEF PageShows
  <2>3. page'.folder = page.folder /\ page'.entries = page.entries
    BY <2>1, SeenTypes DEF Pages
  <2>4. LastOf(log, m) \in Nat
    BY LastGrows, <1>0
  <2>5. ASSUME NEW v \in Watches, watch'[v].pc # "off" PROVE watch'[v] = watch[v] \/ watch'[v].cursor = 0
    BY <2>1, <1>0, WatchShapes
  <2>6. HasShown(log', transcript', page', home', watch', m)
    BY <2>1, <2>2, <2>3, <2>4, <2>5 DEF HasShown
  <2> QED BY <2>1, <2>6
\* Nobody watches any more.
<1>10. CASE Reload
  <2> SUFFICES ASSUME ~excused' PROVE \E m \in 0 .. Len(log') : HasShown(log', transcript', page', home', watch', m)
    BY DEF PageShows
  <2>1. /\ page' = [Restored(page.folder) EXCEPT !.listed = FALSE]
        /\ transcript' = transcript /\ home' = home /\ log' = log /\ excused' = excused
        /\ watch' = [w \in Slots |-> IF w = Stream THEN watch[w] ELSE Off]
    BY <1>10 DEF Reload, runVars
  <2>2. PICK m \in 0 .. Len(log) : HasShown(log, transcript, page, home, watch, m)
    BY <2>1 DEF PageShows
  <2>3. page.folder \in Folders
    BY SeenTypes DEF Pages
  <2>4. page'.folder = page.folder /\ page'.entries = transcript[page.folder]
    BY <2>1, <2>3, RestoredShape
  <2>5. \A v \in Watches : watch'[v].pc = "off"
    BY <2>1, WatchShapes
  <2>6. HasShown(log', transcript', page', home', watch', m)
    BY <2>1, <2>2, <2>4, <2>5 DEF HasShown
  <2> QED BY <2>1, <2>6
<1>11. ASSUME NEW f \in Folders, SwitchFolder(f) PROVE PageShows'
  <2> SUFFICES ASSUME ~excused' PROVE \E m \in 0 .. Len(log') : HasShown(log', transcript', page', home', watch', m)
    BY DEF PageShows
  <2>1. /\ page' = Restored(f) /\ transcript' = transcript /\ home' = home /\ log' = log /\ watch' = watch
        /\ ~excused /\ \A w \in Watches : watch[w].pc = "off"
    BY <1>11 DEF SwitchFolder, runVars
  <2>2. PICK m \in 0 .. Len(log) : HasShown(log, transcript, page, home, watch, m)
    BY <2>1 DEF PageShows
  <2>4. page'.folder = f /\ page'.entries = transcript[f]
    BY <2>1, RestoredShape
  <2>6. HasShown(log', transcript', page', home', watch', m)
    BY <2>1, <2>2, <2>4 DEF HasShown
  <2> QED BY <2>1, <2>6
<1> QED BY <1>1, <1>2, <1>3, <1>4, <1>5, <1>6, <1>7, <1>8, <1>9, <1>10, <1>11 DEF EventsNext, PageNext

-----------------------------------------------------------------------------
(* The theorem *)

LEMMA EventsStart == EventsInit => EventsInv
<1> SUFFICES ASSUME EventsInit PROVE EventsInv
  OBVIOUS
<1> USE EventsConstants
<1>0. home \in Folders
  BY EventsAssumption DEF EventsAssumption, EventsInit
<1>1. InOrder
  BY DEF InOrder, EventsInit, Increasing
<1>2. Watching
  <2>1. watch \in [Slots -> WatchStates] /\ \A w \in Slots : watch[w].rows = 0
    BY WatchShapes DEF EventsInit
  <2>2. status \in Statuses /\ 0 <= Len(log)
    BY <1>1 DEF EventsInit, Statuses, InOrder
  <2> QED BY <2>1, <2>2 DEF Watching
<1>3. Seen
  <2>1. << >> \in Transcripts /\ ToSet(<< >>) = {}
    BY DEF Transcripts, ToSet
  <2>2. page = [folder |-> home, entries |-> << >>, seen |-> {}, listed |-> FALSE]
    BY DEF EventsInit
  <2>3. page \in Pages
    BY <1>0, <2>1, <2>2 DEF Pages
  <2>4. transcript \in [Folders -> Transcripts] /\ excused \in BOOLEAN
    BY <2>1 DEF EventsInit
  <2>5. page.entries = << >> /\ page.seen = {}
    BY <2>2
  <2>6. page.seen = ToSet(page.entries) \ {End}
    BY <2>1, <2>5
  <2> QED BY <1>0, <2>3, <2>4, <2>6, SeenTypes
<1>4. BeforeTheRun
  BY WatchShapes DEF BeforeTheRun, EventsInit
<1>5. HasSent(log, sent, watch[Stream])
  <2>1. log = << >> /\ sent = << >> /\ watch[Stream].pc = "off" /\ Len(sent) = 0
    BY WatchShapes DEF EventsInit
  <2>2. SubSeq(log, 1, 0) = << >> /\ 0 \in 0 .. Len(log)
    BY <1>1, NoPrefix DEF InOrder
  <2> QED BY <2>1, <2>2 DEF HasSent
<1>6. PageShows
  <2>1. Events(<< >>) = SubSeq(log, 1, 0) /\ 0 \in 0 .. Len(log)
    <3>1. log = << >>
      BY DEF EventsInit
    <3> QED BY <3>1, FilterEmpty, <1>1, NoPrefix DEF Events, InOrder
  <2>2. HasShown(log, transcript, page, home, watch, 0)
    BY <1>0, <2>1, WatchShapes DEF HasShown, EventsInit
  <2> QED BY <2>1, <2>2 DEF PageShows
<1> QED BY <1>1, <1>2, <1>3, <1>4, <1>5, <1>6 DEF EventsInv

LEMMA EventsSteps == EventsInv /\ [EventsNext]_eventVars => EventsInv'
BY RunInOrder, WatchGoesOn, SeenGoesOn, NothingBefore, StreamGoesOn, ShowsGoesOn DEF EventsInv

\* The first events are the events up to the last of them.
LEMMA FirstAreUpTo ==
  ASSUME InOrder, NEW m \in 0 .. Len(log), NEW s, s = SubSeq(log, 1, m)
  PROVE  s = UpTo(s)
<1> DEFINE A == 1 .. MaxEvents
           S == IF s = << >> THEN {} ELSE 1 .. Last(s)
<1>1. /\ log \in Seq(A) /\ Len(log) \in Nat /\ Increasing(log)
      /\ \A i \in 1 .. Len(log) : log[i] \in Nat /\ log[i] >= 1
  BY EventsConstants DEF InOrder
<1>2. s \in Seq(A) /\ Len(s) = m /\ \A i \in 1 .. m : s[i] = log[i]
  <2> HIDE DEF A
  <2> QED BY <1>1, Prefix
<1> HIDE DEF A
<1>3. ASSUME NEW i \in 1 .. Len(log) PROVE log[i] \in S <=> 1 <= i /\ i <= m
  <2>1. CASE m = 0
    BY <1>2, <2>1
  <2>2. CASE m # 0
    <3>1. m \in 1 .. Len(log) /\ s # << >>
      BY <1>1, <1>2, <2>2
    <3>2. Last(s) = log[m]
      BY <1>2, <3>1 DEF Last
    <3>3. S = 1 .. log[m]
      BY <3>1, <3>2
    <3>4. i <= m => log[i] <= log[m]
      BY <1>1, <3>1 DEF Increasing
    <3>5. m < i => log[m] < log[i]
      BY <1>1, <3>1 DEF Increasing
    <3>6. log[i] \in Nat /\ log[m] \in Nat /\ log[i] >= 1
      BY <1>1, <3>1
    <3>7. log[i] \in S <=> log[i] <= log[m]
      BY <3>3, <3>6
    <3>8. i \in Nat /\ m \in Nat /\ i >= 1
      BY <1>1
    <3> HIDE DEF S
    <3> QED BY <3>4, <3>5, <3>6, <3>7, <3>8
  <2> QED BY <2>1, <2>2
<1> HIDE DEF S
<1>4. Filter(log, S) = SubSeq(log, 1, m)
  <2>1. 1 \in 1 .. Len(log) + 1 /\ m \in 1 - 1 .. Len(log)
    BY <1>1
  <2> QED BY <1>1, <1>3, <2>1, FilterRange
<1> QED BY <1>4 DEF UpTo, S

LEMMA EventsShow == EventsInv => NothingIsSkipped
<1> SUFFICES ASSUME EventsInv PROVE NothingIsSkipped
  OBVIOUS
<1>1. sent = UpTo(sent)
  BY FirstAreUpTo DEF EventsInv, HasSent
<1>2. ASSUME ~excused, NEW entries \in ShownOfRun PROVE Events(entries) = UpTo(Events(entries))
  <2>1. PICK m \in 0 .. Len(log) : HasShown(log, transcript, page, home, watch, m)
    BY <1>2 DEF EventsInv, PageShows
  <2>2. entries = transcript[home]
    BY <2>1, <1>2 DEF HasShown, ShownOfRun
  <2>3. Events(entries) = SubSeq(log, 1, m)
    BY <2>1, <2>2 DEF HasShown
  <2> QED BY <2>3, FirstAreUpTo DEF EventsInv
<1> QED BY <1>1, <1>2 DEF NothingIsSkipped

\* What a stream sent and what the page shows of a run are the events of the table, in their order
\* and without a gap, for any number of events, folders and watches and any limits.
THEOREM EventsAreComplete == EventsSpec => []NothingIsSkipped
BY EventsStart, EventsSteps, EventsShow, PTL DEF EventsSpec

-----------------------------------------------------------------------------
(* AgentRuns: runs, their execution and their approvals *)

USE RunsAssumption DEF RunsAssumption

-----------------------------------------------------------------------------
(* Types *)

\* An execution at a given place has the fields of that place.
LEMMA ExecutionShape ==
  ASSUME NEW x \in AgentExecutions
  PROVE  /\ x.pc = "gone" <=> x = Gone
         /\ x.pc # "gone" => x.step \in Nat
         /\ x.pc = "append" => x.next \in {"top", "tool", "ask", "complete"}
         /\ x.pc \in {"wait", "ask", "await", "resume"} => x.next \in {"beat", "tool"}
         /\ x.pc \in {"await", "resume"} => x.id \in Approvals
         /\ x.pc \in {"gone", "start", "check", "compute", "top", "model", "reply", "tool", "beat",
                      "complete", "fail", "end", "append", "wait", "ask", "await", "resume"}
  BY DEF AgentExecutions, Gone

\* A call of start has the fields of its place.
LEMMA StartShape ==
  ASSUME NEW x \in Starts
  PROVE  /\ x # NoCall => x.user \in Users /\ x.pc \in {"query", "create", "register"}
         /\ x.pc = "register" => x.run \in Runs
         /\ x.pc \in {"query", "create", "register"} => x # NoCall
  BY DEF Starts, NoCall

\* Moving an execution to a place without data keeps the type of exec.
LEMMA GotoType ==
  ASSUME exec \in [Runs -> AgentExecutions], NEW r \in Runs, exec[r].pc # "gone",
         NEW pc \in {"start", "check", "compute", "top", "model", "reply", "tool", "beat",
                     "complete", "fail", "end"},
         Goto(r, pc)
  PROVE  exec' \in [Runs -> AgentExecutions]
<1>1. exec[r].step \in Nat
  BY ExecutionShape
<1>2. [pc |-> pc, step |-> exec[r].step] \in AgentExecutions
  BY <1>1 DEF AgentExecutions
<1> QED BY <1>2 DEF Goto

\* What a call of the approval service leaves well typed.
LEMMA AnswerType ==
  ASSUME AgentTypeOK, NEW ids \in SUBSET Approvals, NEW ok \in {"yes", "no"},
         NEW s \in {"none", "APPROVED", "DENIED", "EXPIRED"}, Answer(ids, ok, s)
  PROVE  /\ pending' \in SUBSET Approvals
         /\ answer' \in [Approvals -> {"none", "yes", "no", "gone"}]
         /\ settle' \in [Approvals -> {"none", "APPROVED", "DENIED", "EXPIRED", "failed"}]
  BY DEF Answer, AgentTypeOK

\* Expiring rows keeps them rows.
LEMMA ExpireType ==
  ASSUME AgentTypeOK, NEW ids, Expire(ids)
  PROVE  approval' \in [Approvals -> ApprovalRows]
  BY DEF Expire, AgentTypeOK, ApprovalRows, RowStates

\* The row of a run after a write of its status.
LEMMA StatusType ==
  ASSUME AgentTypeOK, NEW r \in Runs, NEW s \in Open \cup Ended, SetStatus(r, s)
  PROVE  run' \in [Runs -> RunRows]
  BY DEF SetStatus, AgentTypeOK, RunRows

\* The row of a run after a heartbeat, wherever it is written.
LEMMA BeatType ==
  ASSUME AgentTypeOK, NEW r \in Runs, Beat(r) \/ run' = [run EXCEPT ![r].fresh = TRUE]
  PROVE  run' \in [Runs -> RunRows]
<1>1. [run[r] EXCEPT !.fresh = TRUE] \in RunRows
  <2> run[r] \in RunRows BY DEF AgentTypeOK
  <2> QED BY DEF RunRows
<1> QED
  BY <1>1 DEF AgentTypeOK, Beat

\* The initial state is well typed.
LEMMA TypeInit == AgentInit => AgentTypeOK
<1>1. [status |-> "NONE", fresh |-> TRUE] \in RunRows
  BY DEF RunRows
<1>2. [status |-> "unused", run |-> NoRun] \in ApprovalRows
  BY DEF ApprovalRows, RowStates
<1>3. NoCall \in Starts /\ Gone \in AgentExecutions /\ NoCall \in Cancellations
  BY DEF Starts, AgentExecutions, Cancellations
<1> QED
  BY <1>1, <1>2, <1>3 DEF AgentInit, AgentTypeOK

\* Every step keeps the types.
LEMMA TypeStep == AgentTypeOK /\ [AgentNext]_agentVars => AgentTypeOK'
<1> SUFFICES ASSUME AgentTypeOK, [AgentNext]_agentVars PROVE AgentTypeOK'
  OBVIOUS
<1> USE DEF AgentTypeOK, memoryVars, restVars, execVars
<1>1. ASSUME NEW q \in Requests, NEW u \in Users, StartBegin(q, u) PROVE AgentTypeOK'
  BY <1>1 DEF StartBegin, Starts
<1>2. ASSUME NEW q \in Requests, StartQuery(q) PROVE AgentTypeOK'
  <2>1. start[q].user \in Users
    BY <1>2, StartShape DEF StartQuery
  <2> QED BY <1>2, <2>1 DEF StartQuery, Starts
<1>3. ASSUME NEW q \in Requests, NEW r \in Runs, StartCreate(q, r) PROVE AgentTypeOK'
  <2>1. start[q].user \in Users
    BY <1>3, StartShape DEF StartCreate
  <2>2. run' \in [Runs -> RunRows]
    BY <1>3, StatusType DEF StartCreate, Open
  <2> QED BY <1>3, <2>1, <2>2 DEF StartCreate, Starts
<1>4. ASSUME NEW q \in Requests, StartThrows(q) PROVE AgentTypeOK'
  BY <1>4 DEF StartThrows, Starts
<1>5. ASSUME NEW q \in Requests, StartRegister(q) PROVE AgentTypeOK'
  <2>1. start[q].run \in Runs
    BY <1>5, StartShape DEF StartRegister
  <2>2. [pc |-> "start", step |-> 0] \in AgentExecutions
    BY DEF AgentExecutions
  <2> QED BY <1>5, <2>1, <2>2 DEF StartRegister, Starts
<1>6. ASSUME NEW r \in Runs, ExecStart(r) PROVE AgentTypeOK'
  <2>1. exec' \in [Runs -> AgentExecutions]
    BY <1>6, GotoType DEF ExecStart, At
  <2>2. run' \in [Runs -> RunRows]
    BY <1>6, StatusType DEF ExecStart, Open
  <2> QED BY <1>6, <2>1, <2>2 DEF ExecStart
<1>7. ASSUME NEW r \in Runs, ExecCheck(r) PROVE AgentTypeOK'
  <2>1. exec' \in [Runs -> AgentExecutions]
    BY <1>7, GotoType DEF ExecCheck, At
  <2> QED BY <1>7, <2>1 DEF ExecCheck
<1>8. ASSUME NEW r \in Runs, ExecCompute(r) PROVE AgentTypeOK'
  <2>1. exec[r].step \in Nat
    BY <1>8, ExecutionShape DEF ExecCompute, At
  <2>2. exec' \in [Runs -> AgentExecutions]
    BY <1>8, <2>1 DEF ExecCompute, Goto, GotoNext, AgentExecutions
  <2> QED BY <1>8, <2>2 DEF ExecCompute
<1>9. ASSUME NEW r \in Runs, ExecBeat(r) PROVE AgentTypeOK'
  <2>1. exec' \in [Runs -> AgentExecutions]
    BY <1>9, GotoType DEF ExecBeat, At
  <2>2. run' \in [Runs -> RunRows]
    BY <1>9, BeatType DEF ExecBeat
  <2> QED BY <1>9, <2>1, <2>2 DEF ExecBeat
<1>10. ASSUME NEW r \in Runs, ExecTop(r) PROVE AgentTypeOK'
  <2>1. exec[r].step \in Nat
    BY <1>10, ExecutionShape DEF ExecTop, At
  <2>2. [pc |-> "model", step |-> exec[r].step + 1] \in AgentExecutions
    BY <2>1 DEF AgentExecutions
  <2>3. [pc |-> "fail", step |-> exec[r].step] \in AgentExecutions
    BY <2>1 DEF AgentExecutions
  <2>4. exec' \in [Runs -> AgentExecutions]
    BY <1>10, <2>2, <2>3 DEF ExecTop, Goto
  <2> QED BY <1>10, <2>4 DEF ExecTop
<1>11. ASSUME NEW r \in Runs, ExecModel(r) PROVE AgentTypeOK'
  <2>1. exec' \in [Runs -> AgentExecutions]
    BY <1>11, GotoType DEF ExecModel, At
  <2>2. run' \in [Runs -> RunRows]
    BY <1>11, BeatType DEF ExecModel
  <2> QED BY <1>11, <2>1, <2>2 DEF ExecModel
<1>12. ASSUME NEW r \in Runs, ExecReply(r) PROVE AgentTypeOK'
  <2>1. exec[r].step \in Nat
    BY <1>12, ExecutionShape DEF ExecReply, At
  <2>2. exec' \in [Runs -> AgentExecutions]
    BY <1>12, <2>1 DEF ExecReply, Goto, GotoNext, Replies, AgentExecutions
  <2> QED BY <1>12, <2>2 DEF ExecReply
<1>13. ASSUME NEW r \in Runs, ExecAppend(r) PROVE AgentTypeOK'
  <2>1. exec[r].step \in Nat /\ exec[r].next \in {"top", "tool", "ask", "complete"}
    BY <1>13, ExecutionShape DEF ExecAppend, At
  <2>2. exec' \in [Runs -> AgentExecutions]
    BY <1>13, <2>1 DEF ExecAppend, Goto, GotoNext, AgentExecutions
  <2> QED BY <1>13, <2>2 DEF ExecAppend, RunRows
<1>14. ASSUME NEW r \in Runs, ExecWait(r) PROVE AgentTypeOK'
  <2>1. exec[r].step \in Nat /\ exec[r].next \in {"beat", "tool"}
    BY <1>14, ExecutionShape DEF ExecWait, At
  <2>2. exec' \in [Runs -> AgentExecutions]
    BY <1>14, <2>1 DEF ExecWait, GotoNext, AgentExecutions
  <2>3. run' \in [Runs -> RunRows]
    BY <1>14, StatusType DEF ExecWait, Open
  <2> QED BY <1>14, <2>2, <2>3 DEF ExecWait
<1>15. ASSUME NEW r \in Runs, NEW a \in Approvals, ExecAsk(r, a) PROVE AgentTypeOK'
  <2>1. exec[r].step \in Nat /\ exec[r].next \in {"beat", "tool"}
    BY <1>15, ExecutionShape DEF ExecAsk, At
  <2>2. exec' \in [Runs -> AgentExecutions]
    BY <1>15, <2>1 DEF ExecAsk, AgentExecutions
  <2>3. [status |-> "issued", run |-> r] \in ApprovalRows
    BY DEF ApprovalRows, RowStates
  <2> QED BY <1>15, <2>2, <2>3 DEF ExecAsk
<1>16. ASSUME NEW r \in Runs, ExecAnswered(r) PROVE AgentTypeOK'
  <2>1. [exec[r] EXCEPT !.pc = "resume"] \in AgentExecutions
    BY <1>16 DEF ExecAnswered, At, AgentExecutions, Gone
  <2> QED BY <1>16, <2>1 DEF ExecAnswered
<1>17. ASSUME NEW r \in Runs, ExecResume(r) PROVE AgentTypeOK'
  <2>1. exec[r].next \in {"beat", "tool"}
    BY <1>17, ExecutionShape DEF ExecResume, At
  <2>2. exec' \in [Runs -> AgentExecutions]
    BY <1>17, <2>1, GotoType DEF ExecResume, At
  <2>3. run' \in [Runs -> RunRows]
    BY <1>17, StatusType DEF ExecResume, Open
  <2> QED BY <1>17, <2>2, <2>3 DEF ExecResume
<1>18. ASSUME NEW r \in Runs, ExecTool(r) PROVE AgentTypeOK'
  <2>1. exec' \in [Runs -> AgentExecutions]
    BY <1>18, GotoType DEF ExecTool, At
  <2> QED BY <1>18, <2>1 DEF ExecTool
<1>19. ASSUME NEW r \in Runs, ExecThrows(r) PROVE AgentTypeOK'
  <2>1. exec' \in [Runs -> AgentExecutions]
    BY <1>19, GotoType DEF ExecThrows
  <2> QED BY <1>19, <2>1 DEF ExecThrows
<1>20. ASSUME NEW r \in Runs, ExecComplete(r) PROVE AgentTypeOK'
  <2>1. exec' \in [Runs -> AgentExecutions]
    BY <1>20, GotoType DEF ExecComplete, At
  <2>2. run' \in [Runs -> RunRows]
    BY <1>20, StatusType DEF ExecComplete, Overwrite, Ended
  <2> QED BY <1>20, <2>1, <2>2 DEF ExecComplete
<1>21. ASSUME NEW r \in Runs, ExecFail(r) PROVE AgentTypeOK'
  <2>1. exec' \in [Runs -> AgentExecutions]
    BY <1>21, GotoType DEF ExecFail, At
  <2>2. run' \in [Runs -> RunRows]
    BY <1>21, StatusType DEF ExecFail, Overwrite, Ended
  <2> QED BY <1>21, <2>1, <2>2 DEF ExecFail
<1>22. ASSUME NEW r \in Runs, ExecEnd(r) PROVE AgentTypeOK'
  <2>1. Gone \in AgentExecutions
    BY DEF AgentExecutions
  <2> QED BY <1>22, <2>1 DEF ExecEnd
<1>23. ASSUME NEW r \in Runs, HeartbeatAges(r) PROVE AgentTypeOK'
  BY <1>23 DEF HeartbeatAges, RunRows
<1>24. ASSUME NEW k \in Cancels, NEW r \in Runs, CancelRead(k, r) PROVE AgentTypeOK'
  BY <1>24 DEF CancelRead, Cancellations
<1>25. ASSUME NEW k \in Cancels, CancelWrite(k) PROVE AgentTypeOK'
  <2>1. cancel[k].run \in Runs /\ [cancel[k] EXCEPT !.pc = "abort"] \in Cancellations
    BY <1>25 DEF CancelWrite, Cancellations, NoCall
  <2>2. run' \in [Runs -> RunRows]
    BY <1>25, <2>1, StatusType DEF CancelWrite, Ended
  <2>3. approval' \in [Approvals -> ApprovalRows]
    BY <1>25, ExpireType DEF CancelWrite
  <2> QED BY <1>25, <2>1, <2>2, <2>3 DEF CancelWrite
<1>26. ASSUME NEW k \in Cancels, CancelAbort(k) PROVE AgentTypeOK'
  <2>1. cancel[k].run \in Runs
    BY <1>26 DEF CancelAbort, Cancellations, NoCall
  <2>2. pending \cap OfRuns({cancel[k].run}) \in SUBSET Approvals
    OBVIOUS
  <2>3. Answer(pending \cap OfRuns({cancel[k].run}), "no", "DENIED")
    BY <1>26 DEF CancelAbort
  <2>4. /\ pending' \in SUBSET Approvals
        /\ answer' \in [Approvals -> {"none", "yes", "no", "gone"}]
        /\ settle' \in [Approvals -> {"none", "APPROVED", "DENIED", "EXPIRED", "failed"}]
    BY <2>2, <2>3, AnswerType
  <2> QED BY <1>26, <2>1, <2>4 DEF CancelAbort, Cancellations
<1>27. ASSUME NEW a \in Approvals, NEW approved \in BOOLEAN, Resolve(a, approved) PROVE AgentTypeOK'
  <2>1. /\ pending' \in SUBSET Approvals
        /\ answer' \in [Approvals -> {"none", "yes", "no", "gone"}]
        /\ settle' \in [Approvals -> {"none", "APPROVED", "DENIED", "EXPIRED", "failed"}]
    BY <1>27, AnswerType DEF Resolve
  <2> QED BY <1>27, <2>1 DEF Resolve
<1>28. ASSUME NEW a \in Approvals, TimeOut(a) PROVE AgentTypeOK'
  <2>1. /\ pending' \in SUBSET Approvals
        /\ answer' \in [Approvals -> {"none", "yes", "no", "gone"}]
        /\ settle' \in [Approvals -> {"none", "APPROVED", "DENIED", "EXPIRED", "failed"}]
    BY <1>28, AnswerType DEF TimeOut
  <2> QED BY <1>28, <2>1 DEF TimeOut
<1>29. ASSUME NEW a \in Approvals, RowInserted(a) PROVE AgentTypeOK'
  BY <1>29 DEF RowInserted, ApprovalRows, RowStates
<1>30. ASSUME NEW a \in Approvals, RowLost(a) PROVE AgentTypeOK'
  <2>1. approval' \in [Approvals -> ApprovalRows]
    BY <1>30 DEF RowLost, ApprovalRows, RowStates
  <2>2. /\ pending' \in SUBSET Approvals
        /\ answer' \in [Approvals -> {"none", "yes", "no", "gone"}]
        /\ settle' \in [Approvals -> {"none", "APPROVED", "DENIED", "EXPIRED", "failed"}]
    BY <1>30, AnswerType DEF RowLost
  <2> QED BY <1>30, <2>1, <2>2 DEF RowLost
<1>31. ASSUME NEW a \in Approvals, RowSettled(a) PROVE AgentTypeOK'
  <2>1. settle[a] \in {"APPROVED", "DENIED", "EXPIRED"}
    BY <1>31 DEF RowSettled, Settling
  <2>2. approval' \in [Approvals -> ApprovalRows]
    BY <1>31, <2>1 DEF RowSettled, ApprovalRows, RowStates
  <2>3. settle' \in [Approvals -> {"none", "APPROVED", "DENIED", "EXPIRED", "failed"}]
    BY <1>31 DEF RowSettled
  <2> QED BY <1>31, <2>2, <2>3 DEF RowSettled
<1>32. CASE SweepRuns
  BY <1>32 DEF SweepRuns, RunRows, Ended
<1>33. CASE SweepApprovals
  BY <1>33, ExpireType DEF SweepApprovals
<1>34. CASE AgentRestart
  <2>1. approval' \in [Approvals -> ApprovalRows]
    <3>1. ASSUME NEW a \in Approvals
          PROVE  /\ [approval[a] EXCEPT !.status = "EXPIRED"] \in ApprovalRows
                 /\ [approval[a] EXCEPT !.status = "PENDING"] \in ApprovalRows
                 /\ [approval[a] EXCEPT !.status = "lost"] \in ApprovalRows
                 /\ [approval[a] EXCEPT !.status = approval[a].status] \in ApprovalRows
      BY DEF ApprovalRows, RowStates
    <3>2. PICK arrived \in SUBSET {a \in Approvals : approval[a].status = "issued"} :
            approval' = [a \in Approvals |->
              LET s == IF approval[a].status = "issued"
                       THEN IF a \in arrived THEN "PENDING" ELSE "lost" ELSE approval[a].status
                  closed == /\ approval[a].run # NoRun
                            /\ run[approval[a].run].status \in Open \cup {"INTERRUPTED"}
              IN  [approval[a] EXCEPT !.status = IF s = "PENDING" /\ closed THEN "EXPIRED" ELSE s]]
      BY <1>34 DEF AgentRestart
    <3>3. ASSUME NEW a \in Approvals PROVE approval'[a] \in ApprovalRows
      BY <3>1, <3>2
    <3> QED BY <3>2, <3>3
  <2>2. run' \in [Runs -> RunRows]
    BY <1>34 DEF AgentRestart, RunRows, Ended
  <2>3. answer' \in [Approvals -> {"none", "yes", "no", "gone"}]
    BY <1>34 DEF AgentRestart
  <2> QED BY <1>34, <2>1, <2>2, <2>3 DEF AgentRestart, Starts, AgentExecutions, Cancellations
<1>35. CASE UNCHANGED agentVars
  BY <1>35 DEF agentVars
<1> QED
  BY <1>1, <1>2, <1>3, <1>4, <1>5, <1>6, <1>7, <1>8, <1>9, <1>10, <1>11, <1>12, <1>13, <1>14,
     <1>15, <1>16, <1>17, <1>18, <1>19, <1>20, <1>21, <1>22, <1>23, <1>24, <1>25, <1>26, <1>27,
     <1>28, <1>29, <1>30, <1>31, <1>32, <1>33, <1>34, <1>35
  DEF AgentNext, ExecStep, ApprovalStep
-----------------------------------------------------------------------------
(* The inductive invariant about runs *)

\* The statuses a run may have while its execution is at a given place.  The row is behind the
\* execution only by what the sweep or a cancellation wrote.
Possible(pc) ==
  CASE pc = "start" -> {"PENDING", "CANCELLED"}
    [] pc = "fail"  -> Open \cup {"INTERRUPTED", "CANCELLED"}
    [] pc = "end"   -> Ended
    [] OTHER        -> {"RUNNING", "WAITING_APPROVAL", "INTERRUPTED", "CANCELLED"}

\* An execution that is over has ended its row, unless it could not write that.
PlaceOK(r) ==
  exec[r] # Gone =>
    \/ run[r].status \in Possible(exec[r].pc)
    \/ exec[r].pc = "end" /\ run[r].status \in Open /\ r \in unsaved

\* A user has at most one call of `start` under way.
OneStart ==
  \A p, q \in Requests :
    start[p] # NoCall /\ start[q] # NoCall /\ start[p].user = start[q].user => p = q

\* A call that found no open run still finds none when it inserts its own.
CreateAlone == \A q \in Requests : start[q].pc = "create" => ~HasOpenRun(start[q].user)

\* A row that was just inserted belongs to the caller, has no execution yet, and can only have
\* been cancelled since.
RegisterOwned ==
  \A q \in Requests : start[q].pc = "register" =>
    /\ Owner[start[q].run] = start[q].user
    /\ exec[start[q].run] = Gone
    /\ run[start[q].run].status \in {"PENDING", "CANCELLED"}

RunsInv ==
  /\ AgentTypeOK
  /\ \A r \in Runs : PlaceOK(r)
  /\ OneStart
  /\ CreateAlone
  /\ RegisterOwned
  /\ OneOpenRun
  /\ OpenIsExecuted

\* How a status may change in one step, as EndsStay says it.
Moves(before, after) ==
  \/ before = after \/ Rank(before) < Rank(after)
  \/ {before, after} \subseteq {"RUNNING", "WAITING_APPROVAL"}
  \/ <<before, after>> = <<"PENDING", "RUNNING">>

\* The place of an execution after each kind of move.
LEMMA GotoPlace ==
  ASSUME AgentTypeOK, NEW r \in Runs, NEW pc, Goto(r, pc), pc # "gone"
  PROVE  exec'[r].pc = pc /\ exec'[r] # Gone /\ \A s \in Runs \ {r} : exec'[s] = exec[s]
  BY DEF Goto, AgentTypeOK, Gone

\* The same where the move carries where to go next.
LEMMA GotoNextPlace ==
  ASSUME AgentTypeOK, NEW r \in Runs, NEW pc, NEW next, GotoNext(r, pc, next), pc # "gone"
  PROVE  exec'[r].pc = pc /\ exec'[r] # Gone /\ \A s \in Runs \ {r} : exec'[s] = exec[s]
  BY DEF GotoNext, AgentTypeOK, Gone

\* What writing a status does to the statuses.
LEMMA StatusWritten ==
  ASSUME AgentTypeOK, NEW r \in Runs, NEW st, SetStatus(r, st)
  PROVE  run'[r].status = st /\ \A s \in Runs \ {r} : run'[s] = run[s]
  BY DEF SetStatus, AgentTypeOK

\* A heartbeat changes no status.
LEMMA BeatStatus ==
  ASSUME AgentTypeOK, NEW r \in Runs, Beat(r) \/ run' = [run EXCEPT ![r].fresh = TRUE]
  PROVE  run'[r].status = run[r].status /\ \A s \in Runs \ {r} : run'[s] = run[s]
<1>1. run[r] \in RunRows /\ r \in DOMAIN run
  BY DEF AgentTypeOK
<1>2. [run[r] EXCEPT !.fresh = TRUE].status = run[r].status
  BY <1>1 DEF RunRows
<1> QED
  BY <1>1, <1>2 DEF Beat, AgentTypeOK

\* A step of an execution: the statuses it can leave and find.
ExecFacts(r) ==
  /\ start' = start
  /\ unsaved \subseteq unsaved'
  /\ exec[r] # Gone
  /\ \A s \in Runs \ {r} : exec'[s] = exec[s] /\ run'[s] = run[s]
  /\ run'[r].status \in Open => run[r].status \in Open /\ (exec'[r] # Gone \/ r \in unsaved')
  /\ run'[r].status # "NONE"
  /\ PlaceOK(r)'
  /\ Moves(run[r].status, run'[r].status)

\* Every step of an execution is such a step.
LEMMA ExecEffect ==
  ASSUME AgentTypeOK, NEW r \in Runs, PlaceOK(r), ExecStep(r)
  PROVE  ExecFacts(r)
<1>0. /\ run[r].status \in {"NONE"} \cup Open \cup Ended
      /\ exec[r] \in AgentExecutions
      /\ r \in DOMAIN run /\ r \in DOMAIN exec
  BY DEF AgentTypeOK, RunRows
<1>a. exec[r] # Gone =>
        exec[r].pc # "gone" /\ (exec[r].pc # "end" => run[r].status \in Possible(exec[r].pc))
  BY <1>0, ExecutionShape DEF PlaceOK
<1>b. exec[r] = Gone => exec[r].pc = "gone"
  BY DEF Gone
<1> USE DEF PlaceOK, Possible, Moves, Open, Ended, restVars, At, ExecFacts
<1>1. CASE ExecStart(r)
  <2>1. exec[r] # Gone /\ run[r].status \in {"PENDING", "CANCELLED"}
    BY <1>1, <1>a, <1>b DEF ExecStart
  <2>2. exec'[r].pc = "check" /\ exec'[r] # Gone /\ \A s \in Runs \ {r} : exec'[s] = exec[s]
    BY <1>1, GotoPlace DEF ExecStart
  <2>3. /\ run'[r].status = IF run[r].status = "PENDING" THEN "RUNNING" ELSE run[r].status
        /\ \A s \in Runs \ {r} : run'[s] = run[s]
    BY <1>1, StatusWritten DEF ExecStart
  <2> QED BY <1>1, <2>1, <2>2, <2>3 DEF ExecStart
<1>2. CASE ExecCheck(r)
  <2>1. exec[r] # Gone
    BY <1>2, <1>b DEF ExecCheck
  <2>2. /\ exec'[r].pc \in {"fail", "compute"} /\ exec'[r] # Gone
        /\ \A s \in Runs \ {r} : exec'[s] = exec[s]
    BY <1>2, GotoPlace DEF ExecCheck
  <2> QED BY <1>2, <1>a, <2>1, <2>2 DEF ExecCheck
<1>3. CASE ExecCompute(r)
  <2>1. exec[r] # Gone
    BY <1>3, <1>b DEF ExecCompute
  <2>2. /\ exec'[r].pc \in {"beat", "complete", "wait"} /\ exec'[r] # Gone
        /\ \A s \in Runs \ {r} : exec'[s] = exec[s]
    BY <1>3, GotoPlace, GotoNextPlace DEF ExecCompute
  <2> QED BY <1>3, <1>a, <2>1, <2>2 DEF ExecCompute
<1>4. CASE ExecBeat(r) \/ ExecModel(r)
  <2>1. exec[r] # Gone
    BY <1>4, <1>b DEF ExecBeat, ExecModel
  <2>2. /\ exec'[r].pc \in {"top", "reply"} /\ exec'[r] # Gone
        /\ \A s \in Runs \ {r} : exec'[s] = exec[s]
    BY <1>4, GotoPlace DEF ExecBeat, ExecModel
  <2>3. run'[r].status = run[r].status /\ \A s \in Runs \ {r} : run'[s] = run[s]
    BY <1>4, BeatStatus DEF ExecBeat, ExecModel
  <2> QED BY <1>4, <1>a, <2>1, <2>2, <2>3 DEF ExecBeat, ExecModel
<1>5. CASE ExecTop(r)
  <2>1. exec[r] # Gone
    BY <1>5, <1>b DEF ExecTop
  <2>2. /\ exec'[r].pc \in {"fail", "model"} /\ exec'[r] # Gone
        /\ \A s \in Runs \ {r} : exec'[s] = exec[s]
    BY <1>5, GotoPlace DEF ExecTop, Gone, AgentTypeOK
  <2> QED BY <1>5, <1>a, <2>1, <2>2 DEF ExecTop
<1>6. CASE ExecReply(r)
  <2>1. exec[r] # Gone
    BY <1>6, <1>b DEF ExecReply
  <2>2. /\ exec'[r].pc \in {"fail", "append"} /\ exec'[r] # Gone
        /\ \A s \in Runs \ {r} : exec'[s] = exec[s]
    BY <1>6, GotoPlace, GotoNextPlace DEF ExecReply
  <2> QED BY <1>6, <1>a, <2>1, <2>2 DEF ExecReply
<1>7. CASE ExecAppend(r)
  <2>1. exec[r] # Gone
    BY <1>7, <1>b DEF ExecAppend
  <2>2. exec[r].next \in {"top", "tool", "ask", "complete"}
    BY <1>7, <1>0, ExecutionShape DEF ExecAppend
  <2>3. /\ exec'[r].pc \in {"wait", "top", "tool", "complete"} /\ exec'[r] # Gone
        /\ \A s \in Runs \ {r} : exec'[s] = exec[s]
    BY <1>7, <2>2, GotoPlace, GotoNextPlace DEF ExecAppend
  <2>4. run'[r].status = run[r].status /\ \A s \in Runs \ {r} : run'[s] = run[s]
    BY <1>7, BeatStatus DEF ExecAppend
  <2> QED BY <1>7, <1>a, <2>1, <2>3, <2>4 DEF ExecAppend
<1>8. CASE ExecWait(r)
  <2>1. exec[r] # Gone
    BY <1>8, <1>b DEF ExecWait
  <2>2. exec'[r].pc = "ask" /\ exec'[r] # Gone /\ \A s \in Runs \ {r} : exec'[s] = exec[s]
    BY <1>8, GotoNextPlace DEF ExecWait
  <2>3. /\ run'[r].status = IF run[r].status = "RUNNING" THEN "WAITING_APPROVAL" ELSE run[r].status
        /\ \A s \in Runs \ {r} : run'[s] = run[s]
    BY <1>8, StatusWritten DEF ExecWait
  <2> QED BY <1>8, <1>a, <2>1, <2>2, <2>3 DEF ExecWait
<1>9. CASE \E a \in Approvals : ExecAsk(r, a)
  <2>1. exec[r] # Gone
    BY <1>9, <1>b DEF ExecAsk
  <2>2. exec'[r].pc = "await" /\ exec'[r] # Gone /\ \A s \in Runs \ {r} : exec'[s] = exec[s]
    BY <1>9 DEF ExecAsk, Gone, AgentTypeOK
  <2> QED BY <1>9, <1>a, <2>1, <2>2 DEF ExecAsk
<1>10. CASE ExecAnswered(r)
  <2>1. exec[r] # Gone
    BY <1>10, <1>b DEF ExecAnswered
  <2>2. [exec[r] EXCEPT !.pc = "resume"].pc = "resume"
    BY <1>10, <1>0 DEF ExecAnswered, AgentExecutions, Gone
  <2>3. exec'[r].pc = "resume" /\ exec'[r] # Gone /\ \A s \in Runs \ {r} : exec'[s] = exec[s]
    BY <1>10, <2>2 DEF ExecAnswered, Gone, AgentTypeOK
  <2> QED BY <1>10, <1>a, <2>1, <2>3 DEF ExecAnswered
<1>11. CASE ExecResume(r)
  <2>1. exec[r] # Gone
    BY <1>11, <1>b DEF ExecResume
  <2>2. exec[r].next \in {"beat", "tool"}
    BY <1>11, <1>0, ExecutionShape DEF ExecResume
  <2>3. /\ exec'[r].pc \in {"top", "beat", "tool"} /\ exec'[r] # Gone
        /\ \A s \in Runs \ {r} : exec'[s] = exec[s]
    BY <1>11, <2>2, GotoPlace DEF ExecResume
  <2>4. /\ run'[r].status = IF run[r].status = "WAITING_APPROVAL" THEN "RUNNING" ELSE run[r].status
        /\ \A s \in Runs \ {r} : run'[s] = run[s]
    BY <1>11, StatusWritten DEF ExecResume
  <2> QED BY <1>11, <1>a, <2>1, <2>3, <2>4 DEF ExecResume
<1>12. CASE ExecTool(r)
  <2>1. exec[r] # Gone
    BY <1>12, <1>b DEF ExecTool
  <2>2. exec'[r].pc = "top" /\ exec'[r] # Gone /\ \A s \in Runs \ {r} : exec'[s] = exec[s]
    BY <1>12, GotoPlace DEF ExecTool
  <2> QED BY <1>12, <1>a, <2>1, <2>2 DEF ExecTool
<1>13. CASE ExecThrows(r)
  <2>1. exec[r] # Gone
    BY <1>13, <1>b DEF ExecThrows
  <2>2. exec'[r].pc = "fail" /\ exec'[r] # Gone /\ \A s \in Runs \ {r} : exec'[s] = exec[s]
    BY <1>13, GotoPlace DEF ExecThrows
  <2> QED BY <1>13, <1>a, <2>1, <2>2 DEF ExecThrows
<1>14. CASE ExecComplete(r) \/ (ExecFail(r) /\ Overwrite(r, "FAILED") /\ UNCHANGED unsaved)
  <2>1. exec[r] # Gone /\ run[r].status \in Open \cup {"INTERRUPTED", "CANCELLED"}
    BY <1>14, <1>a, <1>b DEF ExecComplete, ExecFail
  <2>2. exec'[r].pc = "end" /\ exec'[r] # Gone /\ \A s \in Runs \ {r} : exec'[s] = exec[s]
    BY <1>14, GotoPlace DEF ExecComplete, ExecFail
  <2>3. /\ \/ run'[r].status \in {"COMPLETED", "FAILED"} /\ run[r].status # "CANCELLED"
           \/ run'[r].status = "CANCELLED" /\ run[r].status = "CANCELLED"
        /\ \A s \in Runs \ {r} : run'[s] = run[s]
    BY <1>14, <2>1, StatusWritten DEF ExecComplete, ExecFail, Overwrite
  <2> QED BY <1>14, <2>1, <2>2, <2>3 DEF ExecComplete, ExecFail, Rank
<1>15. CASE ExecEnd(r)
  <2>1. exec[r] # Gone /\ run[r].status # "NONE" /\ (run[r].status \in Open => r \in unsaved)
    BY <1>15, <1>b DEF ExecEnd
  <2> QED BY <1>15, <2>1 DEF ExecEnd, AgentTypeOK
<1>16. CASE /\ ExecFail(r)
            /\ run[r].status \in Open /\ unsaved' = unsaved \cup {r} /\ UNCHANGED run
  <2>1. exec[r] # Gone
    BY <1>16, <1>b DEF ExecFail
  <2>2. exec'[r].pc = "end" /\ exec'[r] # Gone /\ \A s \in Runs \ {r} : exec'[s] = exec[s]
    BY <1>16, GotoPlace DEF ExecFail
  <2> QED BY <1>16, <2>1, <2>2 DEF ExecFail
<1> QED
  BY <1>1, <1>2, <1>3, <1>4, <1>5, <1>6, <1>7, <1>8, <1>9, <1>10, <1>11, <1>12, <1>13, <1>14, <1>15,
     <1>16
  DEF ExecStep, ExecFail
\* A step that starts nothing, opens no run and keeps every execution consistent with its row
\* keeps the invariant.
LEMMA NothingStarts ==
  ASSUME RunsInv, AgentTypeOK', start' = start, unsaved \subseteq unsaved',
         \A r \in Runs : run'[r].status \in Open =>
                           /\ run[r].status \in Open
                           /\ exec[r] # Gone => exec'[r] # Gone \/ r \in unsaved',
         \A r \in Runs : exec[r] = Gone =>
                           /\ exec'[r] = Gone
                           /\ run[r].status \in {"PENDING", "CANCELLED"}
                                => run'[r].status \in {"PENDING", "CANCELLED"},
         \A r \in Runs : PlaceOK(r)'
  PROVE  RunsInv'
<1> USE DEF RunsInv
<1>0. \A q \in Requests : start[q].pc = "register" => start[q].run \in Runs /\ start[q] # NoCall
  BY StartShape DEF AgentTypeOK
<1>1. OneStart'
  BY DEF OneStart
<1>2. CreateAlone'
  BY DEF CreateAlone, HasOpenRun
<1>3. RegisterOwned'
  BY <1>0 DEF RegisterOwned
<1>4. OneOpenRun'
  BY DEF OneOpenRun
<1>5. OpenIsExecuted'
  BY DEF OpenIsExecuted, Registering
<1> QED BY <1>1, <1>2, <1>3, <1>4, <1>5

\* The initial state satisfies the invariant.
LEMMA RunsInvInit == AgentInit => RunsInv
<1> SUFFICES ASSUME AgentInit PROVE RunsInv
  OBVIOUS
<1>1. \A r \in Runs : run[r].status = "NONE" /\ exec[r] = Gone
  BY DEF AgentInit
<1>2. \A q \in Requests : start[q] = NoCall /\ start[q].pc = "idle"
  BY DEF AgentInit, NoCall
<1> QED
  BY <1>1, <1>2, TypeInit
  DEF RunsInv, PlaceOK, OneStart, CreateAlone, RegisterOwned, OneOpenRun, OpenIsExecuted, Open

\* Every step keeps the invariant: what a call of `start` does, and then everything else.
LEMMA RunsInvStep == RunsInv /\ [AgentNext]_agentVars => RunsInv'
<1> SUFFICES ASSUME RunsInv, [AgentNext]_agentVars PROVE RunsInv'
  OBVIOUS
<1>0. AgentTypeOK /\ AgentTypeOK' /\ \A r \in Runs : PlaceOK(r)
  BY TypeStep DEF RunsInv
<1>s. \A q \in Requests : /\ start[q] # NoCall => start[q].user \in Users
                          /\ start[q].pc = "register" => start[q].run \in Runs
                          /\ start[q].pc \in {"query", "create", "register"} <=> start[q] # NoCall
                          /\ start[q] = NoCall => start[q].pc = "idle"
  BY <1>0, StartShape DEF AgentTypeOK, NoCall
<1>1. ASSUME NEW q \in Requests, NEW u \in Users, StartBegin(q, u) PROVE RunsInv'
  <2>1. /\ start'[q] # NoCall /\ start'[q].pc = "query" /\ start'[q].user = u
        /\ \A p \in Requests \ {q} : start'[p] = start[p]
        /\ exec' = exec /\ run' = run /\ unsaved' = unsaved /\ start[q] = NoCall
    BY <1>0, <1>1 DEF StartBegin, AgentTypeOK, NoCall
  <2>2. OneStart'
    BY <1>1, <2>1 DEF StartBegin, RunsInv, OneStart, Starting
  <2>3. CreateAlone'
    BY <2>1 DEF RunsInv, CreateAlone, HasOpenRun
  <2>4. RegisterOwned'
    BY <2>1 DEF RunsInv, RegisterOwned
  <2>5. OneOpenRun' /\ \A r \in Runs : PlaceOK(r)'
    BY <2>1 DEF RunsInv, OneOpenRun, PlaceOK
  <2>6. OpenIsExecuted'
    BY <2>1 DEF RunsInv, OpenIsExecuted, Registering
  <2> QED BY <1>0, <2>2, <2>3, <2>4, <2>5, <2>6 DEF RunsInv
<1>2. ASSUME NEW q \in Requests, StartQuery(q) \/ StartThrows(q) PROVE RunsInv'
  <2>1. /\ start[q].pc \in {"query", "create"} /\ start[q] # NoCall
        /\ \/ start'[q] = NoCall
           \/ ~HasOpenRun(start[q].user) /\ start'[q] = [pc |-> "create", user |-> start[q].user]
        /\ \A p \in Requests \ {q} : start'[p] = start[p]
        /\ exec' = exec /\ run' = run /\ unsaved' = unsaved
    BY <1>0, <1>2 DEF StartQuery, StartThrows, AgentTypeOK, NoCall
  <2>2. OneStart'
    BY <2>1 DEF RunsInv, OneStart
  <2>3. CreateAlone'
    BY <2>1 DEF RunsInv, CreateAlone, HasOpenRun, NoCall
  <2>4. RegisterOwned'
    BY <2>1 DEF RunsInv, RegisterOwned, NoCall
  <2>5. OneOpenRun' /\ \A r \in Runs : PlaceOK(r)'
    BY <2>1 DEF RunsInv, OneOpenRun, PlaceOK
  <2>6. OpenIsExecuted'
    BY <2>1 DEF RunsInv, OpenIsExecuted, Registering
  <2> QED BY <1>0, <2>2, <2>3, <2>4, <2>5, <2>6 DEF RunsInv
<1>3. ASSUME NEW q \in Requests, NEW r \in Runs, StartCreate(q, r) PROVE RunsInv'
  <2>1. /\ start[q].pc = "create" /\ start[q] # NoCall
        /\ start'[q] = [pc |-> "register", user |-> start[q].user, run |-> r]
        /\ \A p \in Requests \ {q} : start'[p] = start[p]
        /\ exec' = exec /\ unsaved' = unsaved /\ run[r].status = "NONE" /\ Owner[r] = start[q].user
    BY <1>0, <1>s, <1>3 DEF StartCreate, AgentTypeOK, NoCall
  <2>2. run'[r].status = "PENDING" /\ \A s \in Runs \ {r} : run'[s] = run[s]
    BY <1>0, <1>3, StatusWritten DEF StartCreate
  <2>3. exec[r] = Gone
    BY <1>0, <2>1 DEF PlaceOK, Possible, Open, Ended
  <2>4. ~HasOpenRun(start[q].user)
    BY <2>1 DEF RunsInv, CreateAlone
  <2>5. OneStart'
    BY <2>1 DEF RunsInv, OneStart, NoCall
  <2>6. \A p \in Requests : start'[p].pc = "create" => p # q /\ start[p].user # start[q].user
    BY <2>1, <1>s DEF RunsInv, OneStart
  <2>7. CreateAlone'
    BY <2>1, <2>2, <2>6 DEF RunsInv, CreateAlone, HasOpenRun
  <2>8. RegisterOwned'
    BY <1>s, <2>1, <2>2, <2>3 DEF RunsInv, RegisterOwned
  <2>9. OneOpenRun'
    BY <2>1, <2>2, <2>4 DEF RunsInv, OneOpenRun, HasOpenRun
  <2>10. OpenIsExecuted'
    BY <2>1, <2>2 DEF RunsInv, OpenIsExecuted, Registering, NoCall
  <2>11. \A s \in Runs : PlaceOK(s)'
    BY <1>0, <2>1, <2>2, <2>3 DEF PlaceOK
  <2> QED BY <1>0, <2>5, <2>7, <2>8, <2>9, <2>10, <2>11 DEF RunsInv
<1>4. ASSUME NEW q \in Requests, StartRegister(q) PROVE RunsInv'
  <2> DEFINE r == start[q].run
  <2>1. /\ start[q].pc = "register" /\ start[q] # NoCall /\ r \in Runs
        /\ start'[q] = NoCall /\ \A p \in Requests \ {q} : start'[p] = start[p]
        /\ exec'[r] = [pc |-> "start", step |-> 0] /\ exec'[r] # Gone
        /\ \A s \in Runs \ {r} : exec'[s] = exec[s]
        /\ run' = run /\ unsaved' = unsaved
    BY <1>0, <1>s, <1>4 DEF StartRegister, AgentTypeOK, Gone
  <2>2. run[r].status \in {"PENDING", "CANCELLED"} /\ Owner[r] = start[q].user
    BY <2>1 DEF RunsInv, RegisterOwned
  <2>3. OneStart'
    BY <2>1 DEF RunsInv, OneStart
  <2>4. CreateAlone'
    BY <2>1 DEF RunsInv, CreateAlone, HasOpenRun, NoCall
  <2>5. \A p \in Requests \ {q} : start[p].pc = "register" => start[p].run # r
    BY <1>s, <2>1, <2>2 DEF RunsInv, OneStart, RegisterOwned
  <2>6. RegisterOwned'
    BY <1>s, <2>1, <2>5 DEF RunsInv, RegisterOwned, NoCall
  <2>7. OneOpenRun'
    BY <2>1 DEF RunsInv, OneOpenRun
  <2>8. OpenIsExecuted'
    BY <2>1 DEF RunsInv, OpenIsExecuted, Registering
  <2>9. \A s \in Runs : PlaceOK(s)'
    BY <1>0, <2>1, <2>2 DEF PlaceOK, Possible
  <2> QED BY <1>0, <2>3, <2>4, <2>6, <2>7, <2>8, <2>9 DEF RunsInv
<1>5. ASSUME NEW r \in Runs, ExecStep(r) PROVE RunsInv'
  <2>1. ExecFacts(r)
    BY <1>0, <1>5, ExecEffect
  <2>2. \A s \in Runs : PlaceOK(s)'
    BY <1>0, <2>1 DEF ExecFacts, PlaceOK
  <2> QED BY <1>0, <2>1, <2>2, NothingStarts DEF ExecFacts
<1>6. ASSUME UNCHANGED <<start, exec, unsaved>>, \A r \in Runs : run'[r].status = run[r].status PROVE RunsInv'
  BY <1>0, <1>6, NothingStarts DEF PlaceOK
<1>7. ASSUME NEW r \in Runs, HeartbeatAges(r) PROVE RunsInv'
  <2>1. \A s \in Runs : run'[s].status = run[s].status
    BY <1>0, <1>7 DEF HeartbeatAges, AgentTypeOK, RunRows
  <2> QED BY <1>6, <1>7, <2>1 DEF HeartbeatAges, execVars
<1>8. ASSUME NEW k \in Cancels, CancelWrite(k) PROVE RunsInv'
  <2>1. cancel[k].run \in Runs
    BY <1>0, <1>8 DEF CancelWrite, AgentTypeOK, Cancellations, NoCall
  <2>2. \A s \in Runs : run'[s].status = run[s].status \/ run'[s].status = "CANCELLED"
    BY <1>0, <1>8, <2>1, StatusWritten DEF CancelWrite
  <2>3. \A s \in Runs : PlaceOK(s)'
    BY <1>0, <1>8, <2>2 DEF CancelWrite, PlaceOK, Possible, Open, Ended
  <2>4. \A s \in Runs : run'[s].status \in Open => run[s].status \in Open
    BY <2>2 DEF Open
  <2> QED BY <1>0, <1>8, <2>2, <2>3, <2>4, NothingStarts DEF CancelWrite
<1>9. ASSUME SweepRuns PROVE RunsInv'
  <2>1. \A s \in Runs :
          \/ run'[s] = run[s]
          \/ run[s].status \in {"RUNNING", "WAITING_APPROVAL"} /\ run'[s].status = "INTERRUPTED"
    BY <1>0, <1>9 DEF SweepRuns, Stale
  <2>2. \A s \in Runs : PlaceOK(s)'
    BY <1>0, <1>9, <2>1 DEF SweepRuns, PlaceOK, Possible, Open, Ended
  <2>3. \A s \in Runs : run'[s].status \in Open => run[s].status \in Open
    BY <2>1 DEF Open
  <2> QED BY <1>0, <1>9, <2>1, <2>2, <2>3, NothingStarts DEF SweepRuns
<1>10. ASSUME AgentRestart PROVE RunsInv'
  <2>1. /\ \A r \in Runs : run'[r].status \notin Open /\ exec'[r] = Gone
        /\ \A q \in Requests : start'[q] = NoCall /\ start'[q].pc = "idle"
    BY <1>10 DEF AgentRestart, Open, NoCall
  <2> QED
    BY <1>0, <2>1
    DEF RunsInv, PlaceOK, OneStart, CreateAlone, RegisterOwned, OneOpenRun, OpenIsExecuted
<1>11. CASE \/ \E k \in Cancels : CancelAbort(k) \/ \E r \in Runs : CancelRead(k, r)
            \/ \E a \in Approvals : ApprovalStep(a)
            \/ SweepApprovals
            \/ UNCHANGED agentVars
  BY <1>6, <1>11
  DEF CancelAbort, CancelRead, ApprovalStep, TimeOut, RowInserted, RowLost, RowSettled, Resolve,
      SweepApprovals, agentVars, execVars
<1> QED
  BY <1>1, <1>2, <1>3, <1>4, <1>5, <1>7, <1>8, <1>9, <1>10, <1>11 DEF AgentNext

\* The invariant holds in every reachable state.
LEMMA RunsInvariant == AgentSpec => []RunsInv
  BY RunsInvInit, RunsInvStep, PTL DEF AgentSpec

-----------------------------------------------------------------------------
(* What it shows *)

\* The model is well typed: a row, an execution and a call of `start` have the fields of their
\* place, whatever happens.
THEOREM AgentTypes == AgentSpec => []AgentTypeOK
<1>1. RunsInv => AgentTypeOK
  BY DEF RunsInv
<1> QED
  BY <1>1, RunsInvariant, PTL

\* However many calls of `start` race with each other, with the sweep, with cancellations and
\* with restarts, a user has one open run.
THEOREM OneRunPerUser == AgentSpec => []OneOpenRun
<1>1. RunsInv => OneOpenRun
  BY DEF RunsInv
<1> QED
  BY <1>1, RunsInvariant, PTL

\* An open run that nothing executes is one whose failure could not be written either: every
\* other run is inserted into the database and registered, or executed, or ended.
THEOREM OpenRunsAreExecuted == AgentSpec => []OpenIsExecuted
<1>1. RunsInv => OpenIsExecuted
  BY DEF RunsInv
<1> QED
  BY <1>1, RunsInvariant, PTL

\* Every step moves the status of a run, if at all, in the order that EndsStay allows.
LEMMA RunMoves ==
  ASSUME RunsInv, [AgentNext]_agentVars, NEW r \in Runs
  PROVE  Moves(run[r].status, run'[r].status)
<1>0. AgentTypeOK /\ (\A s \in Runs : PlaceOK(s)) /\ run[r].status \in {"NONE"} \cup Open \cup Ended
  BY DEF RunsInv, AgentTypeOK, RunRows
<1>1. CASE run'[r].status = run[r].status
  BY <1>1 DEF Moves
<1>2. CASE run[r].status = "NONE" /\ run'[r].status \in Open
  BY <1>2 DEF Moves, Rank, Open
<1>3. CASE run[r].status \in Open /\ run'[r].status = "INTERRUPTED"
  BY <1>3 DEF Moves, Rank, Open
<1>4. CASE run'[r].status = "CANCELLED"
  BY <1>0, <1>4 DEF Moves, Rank, Open, Ended
<1>5. ASSUME NEW s \in Runs, ExecStep(s) PROVE Moves(run[r].status, run'[r].status)
  BY <1>0, <1>1, <1>5, ExecEffect DEF ExecFacts
<1>6. ASSUME NEW s \in Runs, HeartbeatAges(s) PROVE run'[r].status = run[r].status
  BY <1>0, <1>6 DEF HeartbeatAges, AgentTypeOK, RunRows
<1>7. ASSUME NEW q \in Requests, NEW s \in Runs, StartCreate(q, s)
      PROVE  Moves(run[r].status, run'[r].status)
  <2>1. /\ run[s].status = "NONE" /\ run'[s].status = "PENDING"
        /\ \A t \in Runs \ {s} : run'[t] = run[t]
    BY <1>0, <1>7, StatusWritten DEF StartCreate
  <2> QED BY <1>1, <1>2, <2>1 DEF Open
<1>8. ASSUME NEW k \in Cancels, CancelWrite(k) PROVE Moves(run[r].status, run'[r].status)
  <2>1. cancel[k].run \in Runs
    BY <1>0, <1>8 DEF CancelWrite, AgentTypeOK, Cancellations, NoCall
  <2> QED BY <1>0, <1>1, <1>4, <1>8, <2>1, StatusWritten DEF CancelWrite
<1>9. CASE SweepRuns \/ AgentRestart
  BY <1>0, <1>1, <1>3, <1>9 DEF SweepRuns, AgentRestart, Stale, Open
<1>10. CASE \/ \E q \in Requests : \/ StartQuery(q) \/ StartThrows(q) \/ StartRegister(q)
                                   \/ \E u \in Users : StartBegin(q, u)
            \/ \E k \in Cancels : CancelAbort(k) \/ \E s \in Runs : CancelRead(k, s)
            \/ \E a \in Approvals : ApprovalStep(a)
            \/ SweepApprovals
            \/ UNCHANGED agentVars
  BY <1>1, <1>10
  DEF StartQuery, StartThrows, StartRegister, StartBegin, CancelAbort, CancelRead, ApprovalStep,
      TimeOut, RowInserted, RowLost, RowSettled, Resolve, SweepApprovals, agentVars
<1> QED
  BY <1>1, <1>5, <1>6, <1>7, <1>8, <1>9, <1>10 DEF AgentNext

\* How a run ended is only corrected upwards: interrupted, then completed or failed, then
\* cancelled.
THEOREM EndingsStay == AgentSpec => EndsStay
<1>1. RunsInv /\ [AgentNext]_agentVars =>
        [\A r \in Runs :
           LET before == run[r].status
               after == run'[r].status
           IN  before = after \/ Rank(before) < Rank(after)
               \/ {before, after} \subseteq {"RUNNING", "WAITING_APPROVAL"}
               \/ <<before, after>> = <<"PENDING", "RUNNING">>]_agentVars
  BY RunMoves DEF Moves
<1> QED
  BY <1>1, RunsInvariant, PTL DEF AgentSpec, EndsStay

-----------------------------------------------------------------------------
(* The inductive invariant about approvals *)

\* How the row, the entry in memory, the answer and the update on its way agree.
ApprovalOK(a) ==
  /\ approval[a].status = "unused" => a \notin pending /\ answer[a] = "none" /\ settle[a] = "none"
  /\ approval[a].status # "unused" =>
       approval[a].run \in Runs /\ run[approval[a].run].status # "NONE"
  /\ a \in pending => answer[a] = "none" /\ settle[a] = "none"
  /\ approval[a].status = "issued" => a \in pending \/ settle[a] # "none"
  /\ approval[a].status = "PENDING" /\ run[approval[a].run].status \in Open
       => a \in pending \/ settle[a] # "none"
  /\ settle[a] = "APPROVED" \/ approval[a].status = "APPROVED" => answer[a] = "yes"
  /\ settle[a] \in {"DENIED", "EXPIRED"} \/ approval[a].status = "DENIED" => answer[a] = "no"

ApprovalsInv == RunsInv /\ \A a \in Approvals : ApprovalOK(a)

\* What a step may do to the run of an approval: it neither forgets nor reopens it.
RunProceeds(r) ==
  run[r].status # "NONE" =>
    run'[r].status # "NONE" /\ (run'[r].status \in Open => run[r].status \in Open)

\* Every step is such a step.
LEMMA RunsGoOn ==
  ASSUME RunsInv, [AgentNext]_agentVars, NEW r \in Runs
  PROVE  RunProceeds(r)
<1>1. Moves(run[r].status, run'[r].status)
  BY RunMoves
<1>2. run[r].status \in {"NONE"} \cup Open \cup Ended /\ run'[r].status \in {"NONE"} \cup Open \cup Ended
  BY TypeStep DEF RunsInv, AgentTypeOK, RunRows
<1> QED
  BY <1>1, <1>2 DEF Moves, RunProceeds, Rank, Open, Ended

\* An approval that a step leaves alone.
Untouched(a) ==
  /\ approval'[a] = approval[a] /\ answer'[a] = answer[a] /\ settle'[a] = settle[a]
  /\ a \in pending' <=> a \in pending

\* What holds of an approval goes on holding while a step leaves it alone.
LEMMA UntouchedKept ==
  ASSUME NEW a, ApprovalOK(a), \A r \in Runs : RunProceeds(r), Untouched(a)
  PROVE  ApprovalOK(a)'
  BY DEF ApprovalOK, RunProceeds, Untouched

\* Answering approvals that are pending, and nothing else.
LEMMA AnsweredKept ==
  ASSUME AgentTypeOK, NEW a \in Approvals, ApprovalOK(a), \A r \in Runs : RunProceeds(r),
         NEW ids \in SUBSET pending, NEW ok, NEW s, Answer(ids, ok, s), approval' = approval,
         <<ok, s>> \in {<<"yes", "APPROVED">>, <<"no", "DENIED">>, <<"no", "EXPIRED">>}
  PROVE  ApprovalOK(a)'
<1>1. CASE a \in ids
  <2>1. a \notin pending' /\ answer'[a] = ok /\ settle'[a] = s
    BY <1>1 DEF Answer
  <2> QED
    BY <1>1, <2>1 DEF ApprovalOK, RunProceeds
<1>2. CASE a \notin ids
  BY <1>2, UntouchedKept DEF Answer, Untouched
<1> QED BY <1>1, <1>2

\* Expiring the rows that are still PENDING.
LEMMA ExpiredKept ==
  ASSUME AgentTypeOK, NEW a \in Approvals, ApprovalOK(a), \A r \in Runs : RunProceeds(r),
         NEW ids, Expire(ids), UNCHANGED memoryVars
  PROVE  ApprovalOK(a)'
<1>1. \/ approval'[a] = approval[a]
      \/ /\ approval[a].status = "PENDING" /\ approval'[a].status = "EXPIRED"
         /\ approval'[a].run = approval[a].run
  BY DEF Expire, AgentTypeOK, ApprovalRows
<1> QED
  BY <1>1 DEF ApprovalOK, RunProceeds, memoryVars

\* The initial state satisfies the invariant.
LEMMA ApprovalsInvInit == AgentInit => ApprovalsInv
  BY RunsInvInit DEF ApprovalsInv, ApprovalOK, AgentInit

\* Every step keeps the invariant.
LEMMA ApprovalsInvStep == ApprovalsInv /\ [AgentNext]_agentVars => ApprovalsInv'
<1> SUFFICES ASSUME ApprovalsInv, [AgentNext]_agentVars, NEW a \in Approvals PROVE ApprovalOK(a)'
  BY RunsInvStep DEF ApprovalsInv
<1>0. /\ AgentTypeOK /\ ApprovalOK(a) /\ RunsInv
      /\ \A r \in Runs : RunProceeds(r)
      /\ approval[a] \in ApprovalRows /\ a \in DOMAIN approval
  BY RunsGoOn DEF ApprovalsInv, RunsInv, AgentTypeOK
<1>1. ASSUME NEW r \in Runs, NEW b \in Approvals, ExecAsk(r, b) PROVE ApprovalOK(a)'
  <2>1. run[r].status # "NONE" /\ run' = run
    BY <1>0, <1>1 DEF ExecAsk, At, RunsInv, PlaceOK, Possible, Gone
  <2>2. CASE a = b
    <3>1. /\ approval[a].status = "unused" /\ approval'[a] = [status |-> "issued", run |-> r]
          /\ a \in pending' /\ answer' = answer /\ settle' = settle
      BY <1>0, <1>1, <2>2 DEF ExecAsk, AgentTypeOK
    <3> QED BY <1>0, <2>1, <3>1 DEF ApprovalOK
  <2>3. CASE a # b
    BY <1>0, <1>1, <2>3, UntouchedKept DEF ExecAsk, AgentTypeOK, Untouched
  <2> QED BY <2>2, <2>3
<1>2. ASSUME NEW b \in Approvals, TimeOut(b) \/ \E approved \in BOOLEAN : Resolve(b, approved)
      PROVE  ApprovalOK(a)'
  <2>1. {b} \in SUBSET pending /\ approval' = approval
    BY <1>2 DEF TimeOut, Resolve
  <2>2. Answer({b}, "yes", "APPROVED") \/ Answer({b}, "no", "DENIED") \/ Answer({b}, "no", "EXPIRED")
    BY <1>2 DEF TimeOut, Resolve
  <2> QED BY <1>0, <2>1, <2>2, AnsweredKept
<1>3. ASSUME NEW k \in Cancels, CancelAbort(k) PROVE ApprovalOK(a)'
  <2>1. Answer(pending \cap OfRuns({cancel[k].run}), "no", "DENIED") /\ approval' = approval
    BY <1>3 DEF CancelAbort
  <2>2. pending \cap OfRuns({cancel[k].run}) \in SUBSET pending
    OBVIOUS
  <2> QED BY <1>0, <2>1, <2>2, AnsweredKept
<1>4. ASSUME NEW b \in Approvals, RowInserted(b) PROVE ApprovalOK(a)'
  <2>1. CASE a = b
    <3>1. /\ approval[a].status = "issued" /\ approval'[a].status = "PENDING"
          /\ approval'[a].run = approval[a].run /\ UNCHANGED <<run, memoryVars>>
      BY <1>0, <1>4, <2>1 DEF RowInserted, ApprovalRows, AgentTypeOK
    <3> QED BY <1>0, <3>1 DEF ApprovalOK, memoryVars
  <2>2. CASE a # b
    BY <1>0, <1>4, <2>2, UntouchedKept DEF RowInserted, AgentTypeOK, memoryVars, Untouched
  <2> QED BY <2>1, <2>2
<1>5. ASSUME NEW b \in Approvals, RowLost(b) PROVE ApprovalOK(a)'
  <2>1. CASE a = b
    <3>1. /\ approval[a].status = "issued" /\ approval'[a].status = "lost"
          /\ approval'[a].run = approval[a].run /\ run' = run
      BY <1>0, <1>5, <2>1 DEF RowLost, ApprovalRows, AgentTypeOK
    <3>2. a \notin pending' /\ settle'[a] = "none"
      BY <1>0, <1>5, <2>1 DEF RowLost, Answer, AgentTypeOK
    <3> QED BY <1>0, <3>1, <3>2 DEF ApprovalOK
  <2>2. CASE a # b
    BY <1>0, <1>5, <2>2, UntouchedKept DEF RowLost, Answer, AgentTypeOK, Untouched
  <2> QED BY <2>1, <2>2
<1>6. ASSUME NEW b \in Approvals, RowSettled(b) PROVE ApprovalOK(a)'
  <2>1. CASE a = b
    <3>1. /\ settle[a] \in {"APPROVED", "DENIED", "EXPIRED"}
          /\ approval[a].status \notin {"unused", "issued"}
          /\ run' = run /\ UNCHANGED <<pending, answer>>
      BY <1>0, <1>6, <2>1 DEF RowSettled, Settling, AgentTypeOK
    <3>2. \/ /\ approval'[a].status =
                  IF approval[a].status = "PENDING" THEN settle[a] ELSE approval[a].status
             /\ approval'[a].run = approval[a].run /\ settle'[a] = "none"
          \/ approval' = approval /\ settle'[a] = "failed"
      BY <1>0, <1>6, <2>1 DEF RowSettled, ApprovalRows, AgentTypeOK
    <3> QED BY <1>0, <3>1, <3>2 DEF ApprovalOK
  <2>2. CASE a # b
    BY <1>0, <1>6, <2>2, UntouchedKept DEF RowSettled, AgentTypeOK, Untouched
  <2> QED BY <2>1, <2>2
<1>7. CASE (\E k \in Cancels : CancelWrite(k)) \/ SweepApprovals
  BY <1>0, <1>7, ExpiredKept DEF CancelWrite, SweepApprovals
<1>8. CASE AgentRestart
  <2>1. /\ a \notin pending' /\ settle'[a] = "none"
        /\ answer'[a] = IF answer[a] = "none" /\ approval[a].status # "unused" THEN "gone" ELSE answer[a]
    BY <1>8 DEF AgentRestart
  <2>2. /\ approval'[a].run = approval[a].run
        /\ approval'[a].status \in {approval[a].status, "lost", "EXPIRED", "PENDING"}
        /\ approval[a].status = "unused" <=> approval'[a].status = "unused"
        /\ approval'[a].status # "issued"
    <3>1. PICK arrived \in SUBSET {b \in Approvals : approval[b].status = "issued"} :
            approval' = [b \in Approvals |->
              LET s == IF approval[b].status = "issued"
                       THEN IF b \in arrived THEN "PENDING" ELSE "lost" ELSE approval[b].status
                  closed == /\ approval[b].run # NoRun
                            /\ run[approval[b].run].status \in Open \cup {"INTERRUPTED"}
              IN  [approval[b] EXCEPT !.status = IF s = "PENDING" /\ closed THEN "EXPIRED" ELSE s]]
      BY <1>8 DEF AgentRestart
    <3>2. \E s \in {approval[a].status, "lost", "EXPIRED", "PENDING"} :
            /\ approval'[a] = [approval[a] EXCEPT !.status = s]
            /\ approval[a].status = "unused" <=> s = "unused"
            /\ s # "issued"
      BY <3>1
    <3> QED BY <1>0, <3>2 DEF ApprovalRows
  <2>3. \A r \in Runs : run'[r].status \notin Open
    BY <1>8 DEF AgentRestart, Open
  <2> QED BY <1>0, <2>1, <2>2, <2>3 DEF ApprovalOK, RunProceeds
<1>9. CASE UNCHANGED <<approval, memoryVars>>
  BY <1>0, <1>9, UntouchedKept DEF memoryVars, Untouched
<1>10. CASE \E q \in Requests : \/ StartQuery(q) \/ StartThrows(q) \/ StartRegister(q)
                                \/ \E u \in Users : StartBegin(q, u)
                                \/ \E r \in Runs : StartCreate(q, r)
  BY <1>9, <1>10 DEF StartQuery, StartThrows, StartRegister, StartBegin, StartCreate
<1>11. ASSUME NEW r \in Runs, ExecStep(r) PROVE ApprovalOK(a)'
  BY <1>1, <1>9, <1>11
  DEF ExecStep, ExecStart, ExecCheck, ExecCompute, ExecBeat, ExecTop, ExecModel, ExecReply,
      ExecAppend, ExecWait, ExecAnswered, ExecResume, ExecTool, ExecThrows, ExecComplete, ExecFail,
      ExecEnd
<1>12. CASE \/ \E r \in Runs : HeartbeatAges(r)
            \/ \E k \in Cancels, r \in Runs : CancelRead(k, r)
            \/ SweepRuns
            \/ UNCHANGED agentVars
  BY <1>9, <1>12 DEF HeartbeatAges, CancelRead, SweepRuns, agentVars, memoryVars
<1> QED
  BY <1>2, <1>3, <1>4, <1>5, <1>6, <1>7, <1>8, <1>10, <1>11, <1>12 DEF AgentNext, ApprovalStep

\* The invariant holds in every reachable state.
LEMMA ApprovalsInvariant == AgentSpec => []ApprovalsInv
  BY ApprovalsInvInit, ApprovalsInvStep, PTL DEF AgentSpec

\* What the user sees as waiting can be answered, or is being settled, or the one update that
\* would have settled it failed: no row stays PENDING in an open run because the answer, the timer
\* or the insertion came in another order.
THEOREM ShownApprovalsWait == AgentSpec => []ShownIsWaiting
<1>1. ApprovalsInv => ShownIsWaiting
  BY DEF ApprovalsInv, ApprovalOK, ShownIsWaiting
<1> QED
  BY <1>1, ApprovalsInvariant, PTL

\* A row says APPROVED or DENIED only if that is what the execution was told.
THEOREM RowsTellAnswers == AgentSpec => []RowTellsAnswer
<1>1. ApprovalsInv => RowTellsAnswer
  BY DEF ApprovalsInv, ApprovalOK, RowTellsAnswer
<1> QED
  BY <1>1, ApprovalsInvariant, PTL

\* What an approval's row says and what its execution hears agree: a row that says APPROVED or
\* DENIED says what was heard, and one that still waits although it was answered is about to say
\* it, or could not be written.
THEOREM ApprovalsStayAgreed == AgentSpec => []ApprovalsAgree
  BY ShownApprovalsWait, RowsTellAnswers, PTL DEF ApprovalsAgree
-----------------------------------------------------------------------------
(* AgentLoop: what a run has checked before it answers *)

USE LoopAssumption DEF LoopAssumption

\* The types that matter to the argument.
Counted ==
  /\ {changed, checkedAt, reviewedAt, version} \subseteq Nat
  /\ {checked, reviewed} \subseteq Int
  /\ at \in {"ask", "final", "verify", "change", "sub", "review", "wrap", "over"}
  /\ check \in {"none", "pending", "passed", "failed", "denied"}
  /\ review \in {"none", "pending", "pass", "changes_required", "unknown"}
  /\ delegated \in BOOLEAN

\* What the loop counts, against what happened in the folder while no sub-agent changed it.
CountsAreTrue ==
  ~delegated =>
    /\ version = changed
    /\ check = "passed" => checkedAt = changed /\ checked = version
    /\ review = "pass" => reviewedAt = changed /\ reviewed = version

\* What is pending is behind, and nothing is ahead of the changes.
PendingIsBehind ==
  /\ checkedAt <= changed /\ reviewedAt <= changed
  /\ changed > 0 => check # "none" /\ review # "none"
  /\ check = "pending" => checkedAt < changed
  /\ review = "pending" => reviewedAt < changed
  /\ at = "review" => ReviewDue

\* An answer is the end.
AnsweredIsOver == ending.end = "answer" => at = "over"

LoopInv == Counted /\ CountsAreTrue /\ PendingIsBehind /\ AnsweredIsOver /\ AnswerIsHonest

LEMMA LoopInvInit == LoopInit => LoopInv
<1> SUFFICES ASSUME LoopInit PROVE LoopInv
  OBVIOUS
<1>1. delegated \in BOOLEAN
  BY Zenon DEF LoopInit
<1>2. Counted
  BY <1>1 DEF LoopInit, Counted, Never
<1>3. CountsAreTrue /\ PendingIsBehind
  BY DEF LoopInit, CountsAreTrue, PendingIsBehind
<1>4. AnsweredIsOver /\ AnswerIsHonest
  BY DEF LoopInit, AnsweredIsOver, AnswerIsHonest, NoAnswer
<1> QED BY <1>2, <1>3, <1>4 DEF LoopInv

\* A warning is left out only for what passed both, in either place where an answer is given.
LEMMA NoWarningNoDoubt ==
  ASSUME Counted, CountsAreTrue, PendingIsBehind, changed > 0, ~delegated,
         \/ Warning = "none" /\ changed <= checkedAt /\ ~ReviewDue
         \/ LastWarning = "none"
  PROVE  checked = version /\ reviewed = version
<1>1. CASE Warning = "none" /\ changed <= checkedAt /\ ~ReviewDue
  <2>1. checkedAt = changed
    BY <1>1 DEF Counted, PendingIsBehind
  <2>2. check = "passed"
    BY <1>1, <2>1 DEF Counted, PendingIsBehind, Warning
  <2>3. reviewedAt = changed
    BY <1>1, <2>1, <2>2 DEF Counted, PendingIsBehind, ReviewDue
  <2>4. review = "pass"
    BY <1>1, <2>1, <2>2, <2>3 DEF Counted, PendingIsBehind, Warning
  <2> QED BY <2>2, <2>4 DEF CountsAreTrue
<1>2. CASE LastWarning = "none"
  <2>1. checkedAt = changed /\ check \notin {"failed", "denied"}
    BY <1>2 DEF Counted, PendingIsBehind, LastWarning
  <2>2. reviewedAt = changed /\ review \notin {"changes_required", "unknown"}
    BY <1>2, <2>1 DEF Counted, PendingIsBehind, LastWarning
  <2>3. check = "passed" /\ review = "pass"
    BY <2>1, <2>2 DEF Counted, PendingIsBehind
  <2> QED BY <2>3 DEF CountsAreTrue
<1> QED BY <1>1, <1>2

\* A step that moves the loop only, and gives no answer.
LEMMA MovesOnly ==
  ASSUME LoopInv, at # "over", UNCHANGED <<gateVars, folderVars>>,
         at' \in {"ask", "final", "verify", "change", "sub", "review", "wrap", "over"},
         at' = "review" => ReviewDue,
         \/ UNCHANGED ending
         \/ ending' = [end |-> "failed", warning |-> "none"]
         \/ ending' = [end |-> "cancelled", warning |-> "none"]
  PROVE  LoopInv'
<1>1. ending.end # "answer"
  BY DEF LoopInv, AnsweredIsOver
<1>2. ending'.end # "answer" /\ (ending' = [end |-> "answer", warning |-> "none"] => FALSE)
  BY <1>1
<1>3. Counted' /\ CountsAreTrue' /\ PendingIsBehind'
  BY DEF LoopInv, Counted, CountsAreTrue, PendingIsBehind, ReviewDue, gateVars, folderVars
<1> QED BY <1>2, <1>3 DEF LoopInv, AnsweredIsOver, AnswerIsHonest

\* Every step keeps the invariant.
LEMMA LoopInvStep == LoopInv /\ [LoopNext]_loopVars => LoopInv'
<1> SUFFICES ASSUME LoopInv, [LoopNext]_loopVars PROVE LoopInv'
  OBVIOUS
<1>1. ASSUME NEW end \in {"failed", "cancelled"}, Throws(end) PROVE LoopInv'
  BY <1>1, MovesOnly DEF Throws, EndsWith
<1>2. CASE ReplyInvalid
  BY <1>2, MovesOnly DEF ReplyInvalid, Asked, NextTurn, gateVars
<1>3. ASSUME NEW what \in {"final", "verify", "change", "sub"}, Reply(what) PROVE LoopInv'
  BY <1>3, MovesOnly DEF Reply, Asked
<1>4. CASE TryFinal
  <2>1. CASE UNCHANGED ending
    BY <1>4, <2>1, MovesOnly DEF TryFinal, EndsWith
  <2>2. CASE changed <= checkedAt /\ ~ReviewDue /\ EndsWith("answer", Warning)
    <3>1. Counted' /\ CountsAreTrue' /\ PendingIsBehind' /\ AnsweredIsOver'
      BY <1>4, <2>2 DEF LoopInv, TryFinal, EndsWith, Counted, CountsAreTrue, PendingIsBehind,
                        AnsweredIsOver, ReviewDue, gateVars, folderVars
    <3>2. AnswerIsHonest'
      BY <1>4, <2>2, NoWarningNoDoubt DEF LoopInv, TryFinal, EndsWith, AnswerIsHonest, CountsAreTrue,
                                          Counted, gateVars, folderVars
    <3> QED BY <3>1, <3>2 DEF LoopInv
  <2> QED BY <1>4, <2>1, <2>2 DEF TryFinal
<1>5. ASSUME NEW verdict \in {"pass", "changes_required", "unknown"}, Review(verdict) PROVE LoopInv'
  <2>1. Counted' /\ CountsAreTrue'
    BY <1>5 DEF LoopInv, Review, Counted, CountsAreTrue, PendingIsBehind, ReviewDue, NextTurn, EndsWith
  <2>2. PendingIsBehind'
    BY <1>5 DEF LoopInv, Review, Counted, PendingIsBehind, ReviewDue, NextTurn, EndsWith
  <2>3. ending.end # "answer"
    BY <1>5 DEF LoopInv, AnsweredIsOver, Review
  <2>4. CASE UNCHANGED ending
    BY <2>1, <2>2, <2>3, <2>4 DEF LoopInv, AnsweredIsOver, AnswerIsHonest
  <2>5. CASE EndsWith("answer", Warning')
    <3>1. AnsweredIsOver'
      BY <2>5 DEF EndsWith, AnsweredIsOver
    <3>2. ASSUME Warning' = "none", ~delegated' PROVE checked' = version' /\ reviewed' = version'
      <4>1. verdict = "pass"
        BY <1>5, <3>2 DEF Warning, Review, LoopInv, PendingIsBehind, ReviewDue
      <4> QED BY <1>5, <3>2, <4>1 DEF Review, LoopInv, PendingIsBehind, ReviewDue, CountsAreTrue
    <3>3. AnswerIsHonest'
      BY <2>5, <3>2 DEF EndsWith, AnswerIsHonest
    <3> QED BY <2>1, <2>2, <3>1, <3>3 DEF LoopInv
  <2> QED BY <1>5, <2>4, <2>5 DEF Review, NextTurn
<1>6. ASSUME NEW outcome \in {"passed", "failed", "denied", "invalid", "blocked"}, Verify(outcome)
      PROVE  LoopInv'
  <2>1. Counted' /\ CountsAreTrue' /\ PendingIsBehind'
    BY <1>6 DEF LoopInv, Verify, Counted, CountsAreTrue, PendingIsBehind, ReviewDue, NextTurn
  <2>2. ending.end # "answer" /\ ending' = ending
    BY <1>6 DEF LoopInv, AnsweredIsOver, Verify, NextTurn
  <2> QED BY <2>1, <2>2 DEF LoopInv, AnsweredIsOver, AnswerIsHonest
<1>7. ASSUME NEW outcome \in {"applied", "nothing", "failed", "denied", "invalid"}, Change(outcome)
      PROVE  LoopInv'
  <2>1. Counted' /\ CountsAreTrue' /\ PendingIsBehind'
    BY <1>7 DEF LoopInv, Change, Counted, CountsAreTrue, PendingIsBehind, ReviewDue, NextTurn
  <2>2. ending.end # "answer" /\ ending' = ending
    BY <1>7 DEF LoopInv, AnsweredIsOver, Change, NextTurn
  <2> QED BY <2>1, <2>2 DEF LoopInv, AnsweredIsOver, AnswerIsHonest
<1>8. CASE SubChanges
  <2>1. Counted' /\ CountsAreTrue' /\ PendingIsBehind'
    BY <1>8 DEF LoopInv, SubChanges, Counted, CountsAreTrue, PendingIsBehind, ReviewDue, gateVars
  <2>2. ending.end # "answer" /\ ending' = ending
    BY <1>8 DEF LoopInv, AnsweredIsOver, SubChanges
  <2> QED BY <2>1, <2>2 DEF LoopInv, AnsweredIsOver, AnswerIsHonest
<1>9. CASE SubVerifies
  <2>1. Counted' /\ CountsAreTrue' /\ PendingIsBehind'
    BY <1>9 DEF LoopInv, SubVerifies, Counted, CountsAreTrue, PendingIsBehind, ReviewDue, gateVars
  <2>2. ending.end # "answer" /\ ending' = ending
    BY <1>9 DEF LoopInv, AnsweredIsOver, SubVerifies
  <2> QED BY <2>1, <2>2 DEF LoopInv, AnsweredIsOver, AnswerIsHonest
<1>10. ASSUME NEW completed \in BOOLEAN, SubEnds(completed) PROVE LoopInv'
  BY <1>10, MovesOnly DEF SubEnds, NextTurn
<1>11. CASE OutOfTurns
  BY <1>11, MovesOnly DEF OutOfTurns
<1>12. CASE WrapUp
  <2>1. Counted' /\ CountsAreTrue' /\ PendingIsBehind' /\ AnsweredIsOver'
    BY <1>12 DEF LoopInv, WrapUp, EndsWith, Counted, CountsAreTrue, PendingIsBehind, AnsweredIsOver,
                 ReviewDue, gateVars, folderVars
  <2>2. AnswerIsHonest'
    BY <1>12, NoWarningNoDoubt DEF LoopInv, WrapUp, EndsWith, AnswerIsHonest, CountsAreTrue, Counted,
                                   gateVars, folderVars
  <2> QED BY <2>1, <2>2 DEF LoopInv
<1>13. CASE UNCHANGED loopVars
  BY <1>13 DEF loopVars, gateVars, folderVars, LoopInv, Counted, CountsAreTrue, PendingIsBehind,
               AnsweredIsOver, AnswerIsHonest, ReviewDue
<1> QED BY <1>1, <1>2, <1>3, <1>4, <1>5, <1>6, <1>7, <1>8, <1>9, <1>10, <1>11, <1>12, <1>13
        DEF LoopNext

\* An answer without a warning is about files that passed the checks and the review as they are,
\* whatever the limits and however many changes, as long as no sub-agent changed one.
THEOREM AnswersAreHonest == LoopSpec => []AnswerIsHonest
<1>1. LoopInv => AnswerIsHonest
  BY DEF LoopInv
<1> QED BY LoopInvInit, LoopInvStep, <1>1, PTL DEF LoopSpec

-----------------------------------------------------------------------------
(* AgentContext: what is sent fits *)

\* The sums of the beginnings of a sequence.
SumStep(s, f, i) == IF i = 0 THEN 0 ELSE f[i - 1] + s[i]
Sums(s) == CHOOSE f : f = [i \in 0 .. Len(s) |-> SumStep(s, f, i)]

LEMMA AddedUpIs == ASSUME NEW s PROVE AddedUp(s) = Sums(s)[Len(s)]
BY DEF AddedUp, Sums, SumStep

LEMMA SumsExist ==
  ASSUME NEW s, NEW len \in Nat
  PROVE  \E f : f = [i \in 0 .. len |-> SumStep(s, f, i)]
<1> DEFINE Has == {k \in Nat : \E f : f = [i \in 0 .. k |-> SumStep(s, f, i)]}
<1>1. 0 \in Has
  <2> DEFINE f == [i \in 0 .. 0 |-> 0]
  <2>1. f = [i \in 0 .. 0 |-> SumStep(s, f, i)]
    BY DEF SumStep
  <2> QED BY <2>1
<1>2. ASSUME NEW k \in Nat, k \in Has PROVE k + 1 \in Has
  <2>1. PICK f : f = [i \in 0 .. k |-> SumStep(s, f, i)]
    BY <1>2
  <2> DEFINE g == [i \in 0 .. k + 1 |-> IF i = k + 1 THEN f[k] + s[k + 1] ELSE f[i]]
  <2>2. \A i \in 0 .. k : g[i] = f[i] /\ f[i] = SumStep(s, f, i)
    BY <2>1
  <2>3. ASSUME NEW i \in 0 .. k + 1 PROVE g[i] = SumStep(s, g, i)
    <3>1. CASE i = k + 1
      <4>1. i - 1 = k /\ k \in 0 .. k /\ i # 0 /\ g[i] = f[k] + s[k + 1]
        BY <3>1
      <4> HIDE DEF g
      <4> QED BY <2>2, <3>1, <4>1 DEF SumStep
    <3>2. CASE i = 0
      <4>1. 0 \in 0 .. k
        OBVIOUS
      <4> HIDE DEF g
      <4> QED BY <2>2, <3>2, <4>1 DEF SumStep
    <3>3. CASE i \in 1 .. k
      <4>1. i \in 0 .. k /\ i - 1 \in 0 .. k /\ i # 0
        BY <3>3
      <4> HIDE DEF g
      <4> QED BY <2>2, <4>1 DEF SumStep
    <3> QED BY <3>1, <3>2, <3>3
  <2>4. g = [i \in 0 .. k + 1 |-> g[i]]
    OBVIOUS
  <2>5. g = [i \in 0 .. k + 1 |-> SumStep(s, g, i)]
    <3> HIDE DEF g
    <3> QED BY <2>3, <2>4
  <2> HIDE DEF g
  <2> QED BY <2>5
<1>3. Nat \subseteq Has
  <2> HIDE DEF Has
  <2> QED BY <1>1, <1>2, Induction
<1> QED BY <1>3

LEMMA SumsAre ==
  ASSUME NEW s, Len(s) \in Nat
  PROVE  /\ Sums(s)[0] = 0
         /\ \A k \in 0 .. Len(s) - 1 : Sums(s)[k + 1] = Sums(s)[k] + s[k + 1]
<1> DEFINE len == Len(s)
           f == Sums(s)
<1>1. len \in Nat
  OBVIOUS
<1>2. f = [i \in 0 .. len |-> SumStep(s, f, i)]
  <2> HIDE DEF len
  <2>1. \E g : g = [i \in 0 .. len |-> SumStep(s, g, i)]
    BY ONLY <1>1, SumsExist
  <2> QED BY <2>1, Zenon DEF Sums, len
<1> HIDE DEF f, len
<1>3. \A i \in 0 .. len : f[i] = SumStep(s, f, i)
  BY <1>2
<1>4. f[0] = 0
  BY <1>1, <1>3, 0 \in 0 .. len DEF SumStep
<1>5. ASSUME NEW k \in 0 .. len - 1 PROVE f[k + 1] = f[k] + s[k + 1]
  <2>1. k + 1 \in 0 .. len /\ k + 1 # 0 /\ (k + 1) - 1 = k
    BY <1>1
  <2> QED BY <1>3, <2>1 DEF SumStep
<1> QED BY <1>4, <1>5 DEF f, len

\* Sums of numbers are numbers, and grow.
LEMMA SumsGrow ==
  ASSUME NEW s \in Seq(Nat)
  PROVE  /\ \A k \in 0 .. Len(s) : Sums(s)[k] \in Nat
         /\ \A a, b \in 0 .. Len(s) : a <= b => Sums(s)[a] <= Sums(s)[b]
<1> DEFINE len == Len(s)
           f == Sums(s)
           Holds == {k \in Nat : k <= len => f[k] \in Nat /\ \A a \in 0 .. k : f[a] \in Nat /\ f[a] <= f[k]}
<1>1. len \in Nat /\ \A k \in 1 .. len : s[k] \in Nat
  OBVIOUS
<1>2. f[0] = 0 /\ \A k \in 0 .. len - 1 : f[k + 1] = f[k] + s[k + 1]
  BY SumsAre
<1> HIDE DEF len, f
<1>3. 0 \in Holds
  BY <1>2
<1>4. ASSUME NEW k \in Nat, k \in Holds PROVE k + 1 \in Holds
  <2> SUFFICES ASSUME k + 1 <= len
               PROVE  f[k + 1] \in Nat /\ \A a \in 0 .. k + 1 : f[a] \in Nat /\ f[a] <= f[k + 1]
    OBVIOUS
  <2>1. f[k] \in Nat /\ \A a \in 0 .. k : f[a] \in Nat /\ f[a] <= f[k]
    BY <1>1, <1>4
  <2>2. k \in 0 .. len - 1 /\ k + 1 \in 1 .. len
    BY <1>1
  <2>3. f[k + 1] = f[k] + s[k + 1] /\ s[k + 1] \in Nat
    BY <1>1, <1>2, <2>2
  <2>4. \A a \in 0 .. k + 1 : a \in 0 .. k \/ a = k + 1
    OBVIOUS
  <2> QED BY <2>1, <2>3, <2>4
<1>5. Nat \subseteq Holds
  <2> HIDE DEF Holds
  <2> QED BY <1>3, <1>4, Induction
<1>6. \A k \in 0 .. len : f[k] \in Nat /\ \A a \in 0 .. k : f[a] <= f[k]
  BY <1>1, <1>5
<1> QED BY <1>1, <1>6 DEF f, len

LEMMA AddedUpType == ASSUME NEW s \in Seq(Nat) PROVE AddedUp(s) \in Nat
<1>1. Len(s) \in 0 .. Len(s)
  OBVIOUS
<1> QED BY <1>1, AddedUpIs, SumsGrow

LEMMA EndIs ==
  ASSUME NEW s \in Seq(Nat), NEW a \in 0 .. Len(s), NEW t, t = SubSeq(s, a + 1, Len(s))
  PROVE  t \in Seq(Nat) /\ Len(t) = Len(s) - a /\ \A k \in 1 .. Len(t) : t[k] = s[a + k]
<1> DEFINE len == Len(s)
<1>1. len \in Nat /\ a \in Nat /\ a <= len
  OBVIOUS
<1>2. Len(t) = len - a /\ t \in Seq(Nat) /\ \A k \in 1 .. Len(t) : t[k] = s[a + k]
  BY <1>1
<1> QED BY <1>2

LEMMA BeginningIs ==
  ASSUME NEW s \in Seq(Nat), NEW a \in 0 .. Len(s) PROVE SubSeq(s, 1, a) \in Seq(Nat)
OBVIOUS

\* The sum of an end is the whole without the beginning.
LEMMA EndOf ==
  ASSUME NEW s \in Seq(Nat), NEW a \in 0 .. Len(s), NEW t, t = SubSeq(s, a + 1, Len(s))
  PROVE  AddedUp(t) = Sums(s)[Len(s)] - Sums(s)[a]
<1> DEFINE len == Len(s)
           n == Len(t)
           f == Sums(s)
           g == Sums(t)
           Holds == {k \in Nat : k <= n => g[k] = f[a + k] - f[a]}
<1>1. len \in Nat /\ a \in Nat /\ a <= len
  OBVIOUS
<1>2. n = len - a /\ t \in Seq(Nat) /\ \A k \in 1 .. n : t[k] = s[a + k]
  BY ONLY EndIs, s \in Seq(Nat), a \in 0 .. Len(s), t = SubSeq(s, a + 1, Len(s))
<1>3. n \in Nat
  BY <1>1, <1>2
<1>4. f[0] = 0 /\ \A k \in 0 .. len - 1 : f[k + 1] = f[k] + s[k + 1]
  BY <1>1, SumsAre
<1>5. g[0] = 0 /\ \A k \in 0 .. n - 1 : g[k + 1] = g[k] + t[k + 1]
  BY <1>3, SumsAre
<1>6. \A k \in 0 .. len : f[k] \in Nat
  BY SumsGrow
<1>7. \A k \in 1 .. len : s[k] \in Nat
  OBVIOUS
<1>8. AddedUp(t) = g[n]
  BY AddedUpIs
<1> HIDE DEF len, n, f, g
<1>9. 0 \in Holds
  <2>1. f[a] \in Nat /\ a + 0 = a
    BY <1>1, <1>6
  <2> QED BY <1>5, <2>1
<1>10. ASSUME NEW k \in Nat, k \in Holds PROVE k + 1 \in Holds
  <2> SUFFICES ASSUME k + 1 <= n PROVE g[k + 1] = f[a + (k + 1)] - f[a]
    OBVIOUS
  <2>1. /\ k \in 0 .. n - 1 /\ k + 1 \in 1 .. n /\ a + k \in 0 .. len - 1 /\ a + k \in 0 .. len
        /\ a + (k + 1) = (a + k) + 1 /\ a + (k + 1) \in 1 .. len /\ a \in 0 .. len
    BY <1>1, <1>2, <1>3
  <2>2. g[k] = f[a + k] - f[a]
    BY <1>3, <1>10
  <2>3. g[k + 1] = g[k] + s[a + (k + 1)] /\ f[a + (k + 1)] = f[a + k] + s[a + (k + 1)]
    BY <1>2, <1>4, <1>5, <2>1
  <2>4. f[a] \in Nat /\ f[a + k] \in Nat /\ s[a + (k + 1)] \in Nat
    BY <1>6, <1>7, <2>1
  <2> QED BY <2>2, <2>3, <2>4
<1>11. Nat \subseteq Holds
  <2> HIDE DEF Holds
  <2> QED BY <1>9, <1>10, Induction
<1>12. g[n] = f[a + n] - f[a] /\ a + n = len
  <2>1. n \in Holds
    BY <1>3, <1>11
  <2>2. a + n = len
    BY <1>1, <1>2, <1>3
  <2>3. n <= n
    BY <1>3
  <2> QED BY <2>1, <2>2, <2>3
<1> QED BY <1>8, <1>12 DEF f, len

\* Two numbers at most.
LEMMA TwoAtMost ==
  ASSUME NEW s \in Seq(Nat), Len(s) <= 2, NEW c \in Nat, \A i \in 1 .. Len(s) : s[i] <= c
  PROVE  AddedUp(s) <= 2 * c
<1>1. Len(s) \in {0, 1, 2}
  <2> DEFINE n == Len(s)
  <2>1. n \in Nat /\ n <= 2
    OBVIOUS
  <2> HIDE DEF n
  <2>2. n \in {0, 1, 2}
    BY <2>1
  <2> QED BY <2>2 DEF n
<1>2. Sums(s)[0] = 0 /\ \A k \in 0 .. Len(s) - 1 : Sums(s)[k + 1] = Sums(s)[k] + s[k + 1]
  BY <1>1, SumsAre
<1>3. \A i \in 1 .. Len(s) : s[i] \in Nat
  OBVIOUS
<1> DEFINE f == Sums(s)
<1>4. AddedUp(s) = f[Len(s)]
  BY AddedUpIs
<1> HIDE DEF f
<1>5. CASE Len(s) = 0
  BY <1>2, <1>4, <1>5 DEF f
<1>6. CASE Len(s) = 1
  <2>1. f[1] = f[0] + s[1] /\ s[1] \in Nat /\ s[1] <= c
    BY <1>2, <1>3, <1>6, 0 + 1 = 1 DEF f
  <2> QED BY <1>2, <1>4, <1>6, <2>1 DEF f
<1>7. CASE Len(s) = 2
  <2>1. f[1] = f[0] + s[1] /\ s[1] \in Nat /\ s[1] <= c
    BY <1>2, <1>3, <1>7, 0 + 1 = 1 DEF f
  <2>2. f[2] = f[1] + s[2] /\ s[2] \in Nat /\ s[2] <= c
    BY <1>2, <1>3, <1>7, 1 + 1 = 2 DEF f
  <2> QED BY <1>2, <1>4, <1>7, <2>1, <2>2 DEF f
<1> QED BY <1>1, <1>5, <1>6, <1>7

LEMMA CostGrows ==
  ASSUME NEW a \in Int, NEW b \in Int, a <= b PROVE Cost(a) <= Cost(b)
BY ContextAssumption DEF Cost, EstimateTokens

LEMMA CostType == ASSUME NEW a \in Nat PROVE Cost(a) \in Nat
BY ContextAssumption DEF Cost, EstimateTokens

LEMMA CostsType ==
  ASSUME NEW m \in Seq(Nat), NEW costs, costs = [i \in DOMAIN m |-> Cost(m[i])]
  PROVE  costs \in Seq(Nat) /\ Len(costs) = Len(m) /\ \A i \in 1 .. Len(m) : costs[i] = Cost(m[i])
<1>1. DOMAIN m = 1 .. Len(m) /\ Len(m) \in Nat /\ \A i \in 1 .. Len(m) : m[i] \in Nat
  OBVIOUS
<1>2. \A i \in 1 .. Len(m) : Cost(m[i]) \in Nat
  BY <1>1, CostType
<1>3. costs = [i \in 1 .. Len(m) |-> Cost(m[i])]
  BY <1>1
<1> QED BY ONLY <1>1, <1>2, <1>3

\* A longer end costs more.
LEMMA LongerEnd ==
  ASSUME NEW m \in Seq(Nat), NEW a \in 0 .. Len(m), NEW b \in 0 .. Len(m), a <= b
  PROVE  Total(SubSeq(m, b + 1, Len(m))) <= Total(SubSeq(m, a + 1, Len(m)))
<1> DEFINE costs == [i \in DOMAIN m |-> Cost(m[i])]
<1>1. costs \in Seq(Nat) /\ Len(costs) = Len(m) /\ \A i \in 1 .. Len(m) : costs[i] = Cost(m[i])
  BY CostsType
<1> HIDE DEF costs
<1>2. ASSUME NEW c \in 0 .. Len(m)
      PROVE  Total(SubSeq(m, c + 1, Len(m))) = Sums(costs)[Len(m)] - Sums(costs)[c]
  <2> DEFINE t == SubSeq(m, c + 1, Len(m))
             n == Len(m)
             u == [i \in DOMAIN t |-> Cost(t[i])]
  <2>0. n \in Nat /\ c \in Nat /\ c <= n
    OBVIOUS
  <2>1. t \in Seq(Nat) /\ Len(t) = n - c /\ \A i \in 1 .. n - c : t[i] = m[c + i]
    <3>1. t \in Seq(Nat) /\ Len(t) = n - c /\ \A i \in 1 .. Len(t) : t[i] = m[c + i]
      BY EndIs
    <3> HIDE DEF t, n
    <3> QED BY <3>1
  <2> HIDE DEF t
  <2>2. u \in Seq(Nat) /\ Len(u) = n - c /\ \A i \in 1 .. n - c : u[i] = Cost(t[i])
    BY <2>1, CostsType
  <2> HIDE DEF u
  <2>3. \A i \in 1 .. n - c : c + i \in 1 .. n
    BY <2>0
  <2>4. \A i \in 1 .. n - c : u[i] = costs[c + i]
    BY <1>1, <2>1, <2>2, <2>3
  <2> DEFINE v == SubSeq(costs, c + 1, n)
  <2>5. v \in Seq(Nat) /\ Len(v) = n - c /\ \A i \in 1 .. n - c : v[i] = costs[c + i]
    BY <1>1, <2>0
  <2> HIDE DEF v, n
  <2>6. u = v
    <3>1. u = [i \in 1 .. n - c |-> u[i]] /\ v = [i \in 1 .. n - c |-> v[i]]
      BY <2>2, <2>5
    <3>2. \A i \in 1 .. n - c : u[i] = v[i]
      BY <2>4, <2>5
    <3> QED BY <3>1, <3>2
  <2>7. AddedUp(v) = Sums(costs)[n] - Sums(costs)[c]
    BY <1>1, EndOf DEF v, n
  <2> QED BY <2>6, <2>7 DEF Total, t, u, n
<1>3. /\ Sums(costs)[a] \in Nat /\ Sums(costs)[b] \in Nat /\ Sums(costs)[Len(m)] \in Nat
      /\ Sums(costs)[a] <= Sums(costs)[b]
  <2>1. Len(m) \in 0 .. Len(m)
    OBVIOUS
  <2> QED BY <1>1, <2>1, SumsGrow
<1> QED BY <1>2, <1>3

LEMMA TotalType == ASSUME NEW m \in Seq(Nat) PROVE Total(m) \in Nat
BY CostsType, AddedUpType DEF Total

\* Blocks: rounding up goes up, and at least a block is taken.
LEMMA Blocks ==
  ASSUME NEW n \in Nat
  PROVE  UpToBlock(n) \in Nat /\ UpToBlock(n) >= n /\ (n > 0 => UpToBlock(n) >= Block)
<1>1. Block \in Nat /\ Block > 0
  BY ContextAssumption
<1> DEFINE q == (n + Block - 1) \div Block
<1>2. q \in Nat /\ q * Block <= n + Block - 1 /\ n + Block - 1 < q * Block + Block
  BY <1>1
<1>3. n > 0 => q >= 1
  BY <1>1
<1> HIDE DEF q
<1>4. q * Block >= n /\ q * Block \in Nat
  BY <1>1, <1>2
<1>5. q >= 1 => q * Block >= Block
  BY <1>1, <1>2
<1>6. UpToBlock(n) = q * Block
  BY DEF UpToBlock, q
<1> QED BY <1>3, <1>4, <1>5, <1>6

\* The share of a message of many.
LEMMA ShareOfMany ==
  ASSUME NEW c \in Nat, NEW d \in Nat, d >= 8 PROVE c \div d \in Nat /\ c \div d <= c \div 8
<1> DEFINE q == c \div d
<1>1. q \in Nat /\ d * q <= c
  OBVIOUS
<1> HIDE DEF q
<1>2. 8 * q <= d * q
  BY <1>1
<1>3. 8 * q <= c
  BY <1>1, <1>2
<1>4. q <= c \div 8
  BY <1>1, <1>3
<1> QED BY <1>1, <1>4 DEF q

LEMMA BudgetType ==
  ASSUME NEW w \in Windows
  PROVE  InputBudget(w) \in Nat /\ CharBudget(w) \in Nat
<1>1. w \in Nat /\ Default \in Nat /\ LeastLimit \in Nat /\ Reserve \in Nat /\ LeastInput \in Nat
  BY ContextAssumption
<1>2. ContextLimit(w) \in Nat
  BY <1>1 DEF ContextLimit, AtLeast
<1>3. Share(78, ContextLimit(w)) - Reserve \in Int
  BY <1>1, <1>2 DEF Share
<1>4. InputBudget(w) \in Nat
  BY <1>1, <1>3 DEF InputBudget, AtLeast
<1> QED BY <1>4 DEF CharBudget

LEMMA PerMessageBound ==
  ASSUME CodesConstants, NEW w \in Windows, NEW m \in Seq(Nat)
  PROVE  /\ PerMessage(w, m) \in Nat
         /\ PerMessage(w, m) <= 1800 \/ PerMessage(w, m) <= CharBudget(w) \div 8
<1>1. Len(m) + 1 \in Nat /\ Len(m) + 1 > 0
  OBVIOUS
<1> DEFINE d == AtLeast(4, UpToBlock(Len(m) + 1))
<1>2. d \in Nat /\ d >= 8
  <2>1. UpToBlock(Len(m) + 1) \in Nat /\ UpToBlock(Len(m) + 1) >= Block
    BY <1>1, Blocks
  <2> QED BY ONLY <2>1, CodesConstants, ContextAssumption DEF CodesConstants, AtLeast
<1> DEFINE q == CharBudget(w) \div d
<1>3. q \in Nat /\ q <= CharBudget(w) \div 8
  <2> HIDE DEF d
  <2> QED BY <1>2, BudgetType, ShareOfMany
<1>4. PerMessage(w, m) = AtLeast(LeastPer, q)
  BY DEF PerMessage
<1> HIDE DEF q
<1>5. LeastPer \in Nat /\ LeastPer <= 1800
  BY ContextAssumption DEF CodesConstants
<1> QED BY <1>3, <1>4, <1>5 DEF AtLeast

\* The arithmetic: beside the prompt and the digest, two messages have room, and so does whatever
\* fits in the share of the newest.
LEMMA RoomBeside ==
  ASSUME CodesConstants, NEW w \in Windows, NEW per \in Nat,
         per <= 1800 \/ per <= CharBudget(w) \div 8
  PROVE  /\ Cost(Share(42, CharBudget(w))) + Cost(Share(25, CharBudget(w))) + 2 * Cost(per)
              <= AtLeast(Roomy, InputBudget(w))
         /\ Share(62, InputBudget(w)) + Cost(Share(25, CharBudget(w))) <= AtLeast(Roomy, InputBudget(w))
<1> DEFINE b == InputBudget(w)
           most == AtLeast(Roomy, b)
           c == CharBudget(w)
           x == Share(42, c)
           y == Share(25, c)
<1>1. b \in Nat /\ c \in Nat
  BY BudgetType
<1>2. c = (7 * b) \div 2
  BY DEF CharBudget
<1>3. Overhead \in Nat /\ Overhead <= 6
  BY ContextAssumption DEF CodesConstants
<1> HIDE DEF b, c
<1>m. most \in Nat /\ most >= 3195 /\ most >= b
  BY <1>1 DEF AtLeast, Roomy
<1> HIDE DEF most
<1>4. 2 * c <= 7 * most
  BY <1>1, <1>2, <1>m
<1>5. x \in Nat /\ y \in Nat /\ 100 * x <= 42 * c /\ 100 * y <= 25 * c
  BY <1>1 DEF Share
<1>6. \A a \in Nat : Cost(a) \in Nat /\ 7 * Cost(a) <= 2 * a + 6 + 42
  BY <1>3 DEF Cost, EstimateTokens
<1>7. per <= 1800 \/ 8 * per <= c
  BY <1>1 DEF c
<1> HIDE DEF x, y
<1>8. /\ 7 * Cost(x) <= 2 * x + 48 /\ 7 * Cost(y) <= 2 * y + 48 /\ 7 * Cost(per) <= 2 * per + 48
      /\ Cost(x) \in Nat /\ Cost(y) \in Nat /\ Cost(per) \in Nat
  BY <1>5, <1>6
<1>9. Cost(x) + Cost(y) + 2 * Cost(per) <= most
  BY <1>1, <1>m, <1>4, <1>5, <1>7, <1>8
<1>10. Share(62, b) + Cost(y) <= most
  BY <1>1, <1>m, <1>4, <1>5, <1>8 DEF Share
<1> QED BY <1>9, <1>10 DEF b, c, x, y, most

\* How many of the newest are taken, and that they fit.
LEMMA FitsIs ==
  ASSUME NEW w \in Windows, NEW c, c.tail \in Seq(Nat), c.system \in Nat
  PROVE  /\ Fits(w, c) \in 0 .. Len(c.tail)
         /\ Fits(w, c) > 2 =>
              Cost(c.system) + Total(SubSeq(c.tail, Len(c.tail) - Fits(w, c) + 1, Len(c.tail)))
                <= Share(62, InputBudget(w))
<1> DEFINE n == Len(c.tail)
           Stops(k) == k > 2 /\ Cost(c.system) + Total(SubSeq(c.tail, n - k + 1, n)) > Share(62, InputBudget(w))
           A == {k \in 0 .. n : \A l \in 1 .. k : ~Stops(l)}
           f == Fits(w, c)
<1>1. n \in Nat
  OBVIOUS
<1>2. f = CHOOSE x \in A : \A y \in A : x >= y
  BY DEF Fits, Max
<1> HIDE DEF Stops, f, n
<1>3. 0 \in A
  BY <1>1
<1>4. \E x \in A : \A y \in A : x >= y
  <2> DEFINE B == {n - k : k \in A}
  <2>0. \A k \in A : n - k \in Nat
    BY <1>1
  <2>1. B \subseteq Nat /\ B # {}
    <3> HIDE DEF A
    <3> QED BY <1>3, <2>0
  <2>2. \A x \in A : n - x \in B /\ x \in Int
    BY <1>1
  <2>3. \A z \in B : \E k \in A : z = n - k
    OBVIOUS
  <2> HIDE DEF B, A
  <2>4. PICK z \in B : \A y \in B : z <= y
    BY <2>1, LeastNumber
  <2>5. PICK k \in A : z = n - k
    BY <2>3
  <2>6. \A y \in A : k >= y
    BY <1>1, <2>2, <2>4, <2>5
  <2> QED BY <2>6
<1>5. f \in A
  <2> HIDE DEF A
  <2> QED BY <1>2, <1>4
<1>6. f \in 0 .. n /\ (f > 2 => ~Stops(f))
  BY <1>1, <1>5
<1>7. ASSUME f > 2
      PROVE  Cost(c.system) + Total(SubSeq(c.tail, n - f + 1, n)) <= Share(62, InputBudget(w))
  <2> DEFINE t == SubSeq(c.tail, (n - f) + 1, n)
  <2>1. n - f \in 0 .. n /\ n - f + 1 = (n - f) + 1
    BY <1>1, <1>6
  <2>2. t \in Seq(Nat)
    BY <2>1, EndIs DEF n
  <2>3. Total(t) \in Nat /\ Cost(c.system) \in Nat
    BY <2>2, TotalType, CostType
  <2>4. Share(62, InputBudget(w)) \in Int
    BY BudgetType DEF Share
  <2>5. ~(Cost(c.system) + Total(t) > Share(62, InputBudget(w)))
    BY <1>6, <1>7, <2>1 DEF Stops
  <2> HIDE DEF t
  <2>6. Cost(c.system) + Total(t) <= Share(62, InputBudget(w))
    BY <2>3, <2>4, <2>5
  <2> QED BY <2>6 DEF t
<1> QED BY <1>6, <1>7 DEF f, n

LEMMA ShortenedIs ==
  ASSUME NEW w \in Windows, NEW p \in Nat, NEW m \in Seq(Nat), PerMessage(w, m) \in Nat,
         NEW c, c = Shortened(w, p, m)
  PROVE  /\ c.system \in Nat /\ c.system <= Share(42, CharBudget(w))
         /\ c.tail \in Seq(Nat) /\ \A i \in 1 .. Len(c.tail) : c.tail[i] <= PerMessage(w, m)
<1> DEFINE per == PerMessage(w, m)
           tail == [i \in DOMAIN m |-> AtMost(per, m[i])]
           sys == AtMost(Share(42, CharBudget(w)), p)
<1>1. Share(42, CharBudget(w)) \in Nat
  BY BudgetType DEF Share
<1>2. sys \in Nat /\ sys <= Share(42, CharBudget(w))
  BY <1>1 DEF AtMost
<1>3. c.system = sys /\ c.tail = tail
  BY DEF Shortened, Unabridged
<1> HIDE DEF per, sys
<1>4. DOMAIN m = 1 .. Len(m) /\ Len(m) \in Nat /\ \A i \in 1 .. Len(m) : m[i] \in Nat
  OBVIOUS
<1>5. \A i \in 1 .. Len(m) : AtMost(per, m[i]) \in Nat /\ AtMost(per, m[i]) <= per
  BY <1>4 DEF AtMost, per
<1>6. tail = [i \in 1 .. Len(m) |-> AtMost(per, m[i])]
  BY <1>4
<1>7. tail \in Seq(Nat) /\ Len(tail) = Len(m) /\ \A i \in 1 .. Len(m) : tail[i] = AtMost(per, m[i])
  BY ONLY <1>4, <1>5, <1>6
<1> HIDE DEF tail
<1> QED BY <1>2, <1>3, <1>5, <1>7 DEF per

\* The digest is no longer than its share.
LEMMA DigestBound ==
  ASSUME NEW w \in Windows, NEW m \in Seq(Nat)
  PROVE  Digest(w, m) \in Nat /\ Digest(w, m) <= Share(25, CharBudget(w))
<1> DEFINE lines == [i \in DOMAIN m |-> AtMost(DigestLine, m[i])]
<1>1. DOMAIN m = 1 .. Len(m) /\ Len(m) \in Nat /\ \A i \in 1 .. Len(m) : m[i] \in Nat
  OBVIOUS
<1>2. \A i \in 1 .. Len(m) : AtMost(DigestLine, m[i]) \in Nat
  BY <1>1, ContextAssumption DEF AtMost
<1>3. lines = [i \in 1 .. Len(m) |-> AtMost(DigestLine, m[i])]
  BY <1>1
<1>4. lines \in Seq(Nat)
  BY ONLY <1>1, <1>2, <1>3
<1>5. Digest(w, m) = AtMost(Share(25, CharBudget(w)), Heading + AddedUp(lines))
  BY DEF Digest
<1> HIDE DEF lines
<1>6. AddedUp(lines) \in Nat /\ Heading \in Nat /\ Share(25, CharBudget(w)) \in Nat
  <2>1. AddedUp(lines) \in Nat
    BY <1>4, AddedUpType
  <2>2. Heading \in Nat
    BY ContextAssumption
  <2>3. CharBudget(w) \in Nat
    BY BudgetType
  <2>4. Share(25, CharBudget(w)) \in Nat
    BY ONLY <2>3 DEF Share
  <2> QED BY <2>1, <2>2, <2>4
<1> QED BY <1>5, <1>6 DEF AtMost

LEMMA TotalOfNone == Total(<< >>) = 0
<1> DEFINE costs == [i \in DOMAIN << >> |-> Cost(<< >>[i])]
<1>1. costs = << >>
  OBVIOUS
<1>2. Sums(<< >>)[0] = 0 /\ AddedUp(<< >>) = Sums(<< >>)[Len(<< >>)]
  BY SumsAre, AddedUpIs
<1> QED BY <1>1, <1>2 DEF Total

LEMMA TotalOfOne == ASSUME NEW d \in Nat PROVE Total(<<d>>) = Cost(d)
<1> DEFINE m == <<d>>
           costs == [i \in DOMAIN m |-> Cost(m[i])]
<1>1. m \in Seq(Nat) /\ Len(m) = 1 /\ m[1] = d
  OBVIOUS
<1> HIDE DEF m
<1>2. costs \in Seq(Nat) /\ Len(costs) = 1 /\ costs[1] = Cost(d)
  <2>1. costs \in Seq(Nat) /\ Len(costs) = Len(m) /\ \A i \in 1 .. Len(m) : costs[i] = Cost(m[i])
    BY <1>1, CostsType
  <2>2. 1 \in 1 .. Len(m)
    BY <1>1
  <2> HIDE DEF costs
  <2> QED BY <1>1, <2>1, <2>2
<1> HIDE DEF costs
<1>3. Sums(costs)[0] = 0 /\ Sums(costs)[1] = Sums(costs)[0] + costs[1] /\ AddedUp(costs) = Sums(costs)[1]
  <2>1. Len(costs) \in Nat /\ 0 \in 0 .. Len(costs) - 1 /\ 0 + 1 = 1
    BY <1>2
  <2>2. AddedUp(costs) = Sums(costs)[Len(costs)]
    BY AddedUpIs
  <2> QED BY <1>2, <2>1, <2>2, SumsAre
<1>4. AddedUp(costs) = Cost(d) /\ Cost(d) \in Nat
  BY <1>2, <1>3, CostType
<1> QED BY <1>4 DEF Total, costs, m

\* Two messages at most.
LEMMA TwoMessages ==
  ASSUME NEW m \in Seq(Nat), Len(m) <= 2, NEW per \in Nat, \A i \in 1 .. Len(m) : m[i] <= per
  PROVE  Total(m) <= 2 * Cost(per)
<1> DEFINE costs == [i \in DOMAIN m |-> Cost(m[i])]
<1>1. costs \in Seq(Nat) /\ Len(costs) = Len(m) /\ \A i \in 1 .. Len(m) : costs[i] = Cost(m[i])
  BY CostsType
<1>2. \A i \in 1 .. Len(m) : m[i] \in Nat
  OBVIOUS
<1> HIDE DEF costs
<1>3. \A i \in 1 .. Len(costs) : costs[i] <= Cost(per)
  BY <1>1, <1>2, CostGrows
<1>4. AddedUp(costs) <= 2 * Cost(per)
  BY <1>1, <1>3, CostType, TwoAtMost
<1> QED BY <1>4 DEF Total, costs

LEMMA WindowedFits ==
  ASSUME CodesConstants, NEW w \in Windows, NEW per \in Nat, per <= 1800 \/ per <= CharBudget(w) \div 8,
         NEW c, c.system \in Nat, c.system <= Share(42, CharBudget(w)),
         c.tail \in Seq(Nat), \A i \in 1 .. Len(c.tail) : c.tail[i] <= per,
         NEW prompt, NEW cut, cut = Cut(Len(c.tail), Fits(w, c)), prompt.system = c.system,
         prompt.tail = SubSeq(c.tail, cut + 1, Len(c.tail)),
         prompt.digest = IF cut = 0 THEN <<>> ELSE <<Digest(w, SubSeq(c.tail, 1, cut))>>
  PROVE  Estimated(prompt) <= AtLeast(Roomy, InputBudget(w))
<1> DEFINE n == Len(c.tail)
           f == Fits(w, c)
           end(k) == SubSeq(c.tail, k + 1, n)
           x == Cost(c.system)
           y == Total(prompt.digest)
           z == Total(prompt.tail)
           b == InputBudget(w)
           most == AtLeast(Roomy, b)
<1>1. n \in Nat /\ f \in 0 .. n
  BY FitsIs
<1>2. n - f \in Nat /\ UpToBlock(n - f) \in Nat /\ UpToBlock(n - f) >= n - f
  <2>1. n - f \in Nat
    BY <1>1
  <2> QED BY <2>1, Blocks
<1>3. /\ cut \in 0 .. n
      /\ \/ n - cut <= 2
         \/ cut >= n - f /\ f > 2
  <2>1. cut = AtMost(AtLeast(0, n - 2), UpToBlock(n - f))
    BY DEF Cut
  <2> HIDE DEF n, f
  <2> QED BY <1>1, <1>2, <2>1 DEF AtMost, AtLeast
<1>4. y \in Nat /\ y <= Cost(Share(25, CharBudget(w)))
  <2>0. Share(25, CharBudget(w)) \in Nat
    BY BudgetType DEF Share
  <2>1. CASE cut = 0
    <3>1. y = 0
      BY <2>1, TotalOfNone
    <3>2. Cost(Share(25, CharBudget(w))) \in Nat
      BY <2>0, CostType
    <3> HIDE DEF y
    <3> QED BY <3>1, <3>2
  <2>2. CASE cut # 0
    <3> DEFINE d == Digest(w, SubSeq(c.tail, 1, cut))
    <3>1. SubSeq(c.tail, 1, cut) \in Seq(Nat)
      BY <1>3, BeginningIs
    <3>2. d \in Nat /\ d <= Share(25, CharBudget(w))
      BY <3>1, DigestBound
    <3>0. prompt.digest = <<d>>
      BY <2>2
    <3> DEFINE s == Share(25, CharBudget(w))
    <3> HIDE DEF d
    <3>3. y = Cost(d)
      BY <3>0, <3>2, TotalOfOne
    <3> HIDE DEF s, y
    <3>4. d \in Nat /\ s \in Nat /\ d <= s
      BY <2>0, <3>2 DEF s
    <3>5. Cost(d) \in Nat /\ Cost(d) <= Cost(s)
      BY ONLY <3>4, CostType, CostGrows
    <3> QED BY <3>3, <3>5 DEF s
  <2> QED BY <2>1, <2>2
<1>5. x \in Nat /\ x <= Cost(Share(42, CharBudget(w)))
  <2>0. Share(42, CharBudget(w)) \in Nat
    BY BudgetType DEF Share
  <2> DEFINE s == Share(42, CharBudget(w))
             t == c.system
  <2> HIDE DEF s, t
  <2>1. t \in Nat /\ s \in Nat /\ t <= s
    BY <2>0 DEF s, t
  <2>2. Cost(t) \in Nat /\ Cost(t) <= Cost(s)
    BY ONLY <2>1, CostType, CostGrows
  <2> QED BY <2>2 DEF s, t
<1>6. prompt.tail = end(cut) /\ end(cut) \in Seq(Nat) /\ Len(end(cut)) = n - cut
      /\ \A i \in 1 .. Len(end(cut)) : end(cut)[i] = c.tail[cut + i]
  BY <1>3, EndIs
<1>7. z \in Nat
  BY <1>6, TotalType
<1>8. Estimated(prompt) = x + y + z
  BY DEF Estimated
<1>9. /\ Cost(Share(42, CharBudget(w))) + Cost(Share(25, CharBudget(w))) + 2 * Cost(per) <= most
      /\ Share(62, b) + Cost(Share(25, CharBudget(w))) <= most
      /\ most \in Nat /\ Cost(per) \in Nat /\ Share(62, b) \in Nat
      /\ Cost(Share(42, CharBudget(w))) \in Nat /\ Cost(Share(25, CharBudget(w))) \in Nat
  <2>1. b \in Nat /\ CharBudget(w) \in Nat
    BY BudgetType
  <2> HIDE DEF b
  <2>m. most \in Nat
    BY <2>1 DEF AtLeast, Roomy
  <2>2. Share(62, b) \in Nat /\ Share(42, CharBudget(w)) \in Nat /\ Share(25, CharBudget(w)) \in Nat
    BY <2>1 DEF Share
  <2>3. /\ Cost(per) \in Nat /\ Cost(Share(42, CharBudget(w))) \in Nat
        /\ Cost(Share(25, CharBudget(w))) \in Nat
    BY <2>2, CostType
  <2>4. /\ Cost(Share(42, CharBudget(w))) + Cost(Share(25, CharBudget(w))) + 2 * Cost(per) <= most
        /\ Share(62, b) + Cost(Share(25, CharBudget(w))) <= most
    BY RoomBeside DEF b
  <2> QED BY <2>m, <2>2, <2>3, <2>4
<1>10. CASE n - cut <= 2
  <2>1. \A i \in 1 .. Len(end(cut)) : end(cut)[i] <= per
    <3> DEFINE e == end(cut)
               len == Len(e)
    <3>1. \A i \in 1 .. len : cut + i \in 1 .. n
      <4> HIDE DEF e
      <4>1. len = n - cut
        BY <1>6 DEF e
      <4>2. n \in Nat /\ cut \in 0 .. n
        BY <1>1, <1>3
      <4> HIDE DEF len, n
      <4> QED BY ONLY <4>1, <4>2
    <3>2. \A i \in 1 .. len : e[i] = c.tail[cut + i]
      BY <1>6
    <3> HIDE DEF e
    <3>3. \A i \in 1 .. len : e[i] <= per
      BY <3>1, <3>2
    <3> QED BY <3>3 DEF e
  <2>2. z <= 2 * Cost(per)
    <3> HIDE DEF end
    <3> QED BY <1>6, <1>10, <2>1, TwoMessages
  <2> HIDE DEF x, y, z, most
  <2>3. x + y + z <= most
    <3> DEFINE p == Cost(Share(42, CharBudget(w)))
               q == Cost(Share(25, CharBudget(w)))
               u == Cost(per)
    <3>1. x \in Nat /\ x <= p /\ y \in Nat /\ y <= q
      BY <1>4, <1>5
    <3>2. p \in Nat /\ q \in Nat /\ u \in Nat /\ most \in Nat /\ p + q + 2 * u <= most
      BY <1>9
    <3>3. z \in Nat /\ z <= 2 * u
      BY <1>7, <2>2
    <3> HIDE DEF p, q, u
    <3> QED BY ONLY <3>1, <3>2, <3>3
  <2> QED BY <1>8, <2>3 DEF most
<1>11. CASE cut >= n - f /\ f > 2
  <2>1. x + Total(SubSeq(c.tail, n - f + 1, n)) <= Share(62, b)
    BY <1>11, FitsIs
  <2>2. Total(end(cut)) <= Total(SubSeq(c.tail, (n - f) + 1, n))
    <3>1. n - f \in 0 .. n
      BY <1>1
    <3> QED BY <1>3, <1>11, <3>1, LongerEnd
  <2>3. Total(SubSeq(c.tail, (n - f) + 1, n)) \in Nat
    <3>1. n - f \in 0 .. n
      BY <1>1
    <3> QED BY <3>1, EndIs, TotalType
  <2>4. z <= Total(SubSeq(c.tail, (n - f) + 1, n))
    BY <1>6, <2>2
  <2> DEFINE u == Total(SubSeq(c.tail, (n - f) + 1, n))
  <2>5. x + u <= Share(62, b) /\ z <= u /\ u \in Nat
    BY <2>1, <2>3, <2>4
  <2> HIDE DEF x, y, z, b, u, most
  <2>6. x + y + z <= most
    BY <1>4, <1>5, <1>7, <1>9, <2>5
  <2> QED BY <1>8, <2>6 DEF b, most
<1> QED BY <1>3, <1>10, <1>11

LEMMA CompiledFits ==
  ASSUME CodesConstants, NEW w \in Windows, NEW p \in Nat, NEW m \in Seq(Nat)
  PROVE  Estimated(Compiled(w, p, m)) <= AtLeast(Roomy, InputBudget(w))
<1> DEFINE c == Shortened(w, p, m)
           all == Unabridged(p, m)
           b == InputBudget(w)
           most == AtLeast(Roomy, b)
           per == PerMessage(w, m)
           r == Compiled(w, p, m)
<1>0. r = CASE Estimated(all) <= b -> all
            [] Estimated(all) > b /\ Estimated(c) <= b -> c
            [] OTHER -> Windowed(w, c)
  BY DEF Compiled
<1>1. per \in Nat /\ (per <= 1800 \/ per <= CharBudget(w) \div 8)
  BY PerMessageBound
<1>2. /\ c.system \in Nat /\ c.system <= Share(42, CharBudget(w))
      /\ c.tail \in Seq(Nat) /\ \A i \in 1 .. Len(c.tail) : c.tail[i] <= per
  BY <1>1, ShortenedIs
<1>3. Estimated(Windowed(w, c)) <= most
  <2> DEFINE cut == Cut(Len(c.tail), Fits(w, c))
             tail == SubSeq(c.tail, cut + 1, Len(c.tail))
             digest == IF cut = 0 THEN <<>> ELSE <<Digest(w, SubSeq(c.tail, 1, cut))>>
             prompt == Windowed(w, c)
  <2>1. prompt = [c EXCEPT !.tail = tail, !.digest = digest]
    BY DEF Windowed
  <2>2. c = [system |-> c.system, digest |-> <<>>, tail |-> c.tail]
    BY DEF Shortened, Unabridged
  <2> HIDE DEF c, prompt, tail, digest
  <2>3. prompt.system = c.system /\ prompt.tail = tail /\ prompt.digest = digest
    BY <2>1, <2>2
  <2> HIDE DEF cut, per
  <2>4. cut = Cut(Len(c.tail), Fits(w, c)) /\ prompt.tail = SubSeq(c.tail, cut + 1, Len(c.tail))
        /\ prompt.digest = IF cut = 0 THEN <<>> ELSE <<Digest(w, SubSeq(c.tail, 1, cut))>>
    BY <2>3 DEF cut, tail, digest
  <2>5. Estimated(prompt) <= most
    BY <1>1, <1>2, <2>3, <2>4, WindowedFits
  <2> QED BY <2>5 DEF prompt
<1>4. b \in Nat /\ most >= b /\ most \in Nat
  BY BudgetType DEF AtLeast, Roomy
<1>5. Estimated(all) \in Int /\ Estimated(c) \in Int
  <2>1. /\ Estimated(all) = Cost(p) + Total(<< >>) + Total(m)
        /\ Estimated(c) = Cost(c.system) + Total(<< >>) + Total(c.tail)
    BY DEF Estimated, Unabridged, Shortened
  <2>2. /\ Cost(p) \in Nat /\ Total(m) \in Nat /\ Total(<< >>) \in Nat
        /\ Cost(c.system) \in Nat /\ Total(c.tail) \in Nat
    <3> HIDE DEF c
    <3>1. Cost(p) \in Nat /\ Cost(c.system) \in Nat
      BY <1>2, CostType
    <3>2. Total(m) \in Nat
      BY TotalType
    <3>3. Total(c.tail) \in Nat
      <4>1. c.tail \in Seq(Nat)
        BY <1>2
      <4> QED BY ONLY <4>1, TotalType
    <3> QED BY <3>1, <3>2, <3>3, TotalOfNone
  <2> HIDE DEF all, c
  <2> QED BY <2>1, <2>2
<1> HIDE DEF c, all, b, r, most
<1> QED BY <1>0, <1>3, <1>4, <1>5 DEF r, b, most

\* However long the prompt is and however many messages come, of whatever length, for models of any
\* window: what a model gets is within its input budget, or within Roomy where that is more.
THEOREM PromptsFit == CodesConstants => (ContextSpec => []ContextFits)
<1> SUFFICES ASSUME CodesConstants PROVE ContextSpec => []ContextFits
  OBVIOUS
<1>1. ContextInit => ContextTypeOK
  BY DEF ContextInit, ContextTypeOK
<1>2. ContextTypeOK /\ [ContextNext]_contextVars => ContextTypeOK'
  BY DEF ContextTypeOK, ContextNext, Say, contextVars
<1>3. ContextTypeOK => ContextFits
  <2> SUFFICES ASSUME ContextTypeOK, NEW w \in Windows
               PROVE  Estimated(Compiled(w, system, said)) <= AtLeast(Roomy, InputBudget(w))
    BY DEF ContextFits
  <2>1. system \in Nat /\ said \in Seq(Nat)
    BY ContextAssumption DEF ContextTypeOK
  <2> QED BY <2>1, CompiledFits
<1> QED BY <1>1, <1>2, <1>3, PTL DEF ContextSpec
=============================================================================
