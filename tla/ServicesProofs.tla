---------------------------- MODULE ServicesProofs ----------------------------
(***************************************************************************)
(* What holds of the services that keep no process of their own, for any    *)
(* number of users, requests, tokens, files and works, any prices, limits   *)
(* and amounts: the ledger (at the end), the registration of nodes, the      *)
(* tokens, the downloads, the engine and the media works.                   *)
(* Each section is about one module; the sections share nothing.            *)
(***************************************************************************)
EXTENDS CreditsService, NodeRegistration, Accounts, Downloads, LocalEngine, MediaJobs, FiniteSetTheorems, TLAPS

-----------------------------------------------------------------------------
(* NodeRegistration: what the owner paid for *)

Holding(states) == {e \in Enrolments : enrol[e] \in states}

\* A slot is kept for every node, and for every call between the claim and its compensation.
Kept == Holding({"spend", "create", "refund", "return"})
\* A stake is paid for every node, and by every call that has neither a node nor its stake back.
Paying == Holding({"create", "refund"})

RegistrationInv ==
  /\ enrol \in [Enrolments -> {"new", "claim", "spend", "create", "refund", "return",
                               "registered", "refused"}]
  /\ staked \subseteq {e \in Enrolments : enrol[e] = "registered"}
  /\ nodeCount \in Int /\ purse \in Int
  /\ Cardinality(staked) + Cardinality(Kept) <= nodeCount
  /\ nodeCount <= NodeCap
  /\ purse + NodeStake * (Cardinality(staked) + Cardinality(Paying)) <= FirstPurse

\* Sets of calls are counted one call at a time.
LEMMA CountCalls ==
  ASSUME NEW X \in SUBSET Enrolments
  PROVE  /\ Cardinality(X) \in Nat
         /\ \A e \in Enrolments \ X : Cardinality(X \cup {e}) = Cardinality(X) + 1
         /\ \A e \in X : Cardinality(X \ {e}) = Cardinality(X) - 1
<1>1. IsFiniteSet(X)
  BY RegistrationAssumption, FS_Subset DEF RegistrationAssumption
<1> QED BY <1>1, FS_CardinalityType, FS_AddElement, FS_RemoveElement

\* How the sets change with one call.
LEMMA MoveCall ==
  ASSUME RegistrationInv, NEW e \in Enrolments, NEW s, enrol' = [enrol EXCEPT ![e] = s]
  PROVE  \A states : Holding(states)' = IF s \in states THEN Holding(states) \cup {e}
                                                        ELSE Holding(states) \ {e}
  BY DEF RegistrationInv, Holding

\* The credits that one more stake, or one less, stands for.
LEMMA OneStake ==
  ASSUME NEW n \in Int
  PROVE  /\ NodeStake * n \in Int
         /\ NodeStake * (n + 1) = NodeStake * n + NodeStake
         /\ NodeStake * (n - 1) = NodeStake * n - NodeStake
  BY RegistrationAssumption DEF RegistrationAssumption

\* A call that is given another state moves between the sets, which grow or shrink by one.
Counted(states, old, new, before, after) ==
  /\ old \in states /\ new \in states => after = before
  /\ old \notin states /\ new \notin states => after = before
  /\ old \notin states /\ new \in states => after = before + 1
  /\ old \in states /\ new \notin states => after = before - 1

\* Without a stake it does not matter how many there are.
LEMMA OneNoStake ==
  ASSUME NEW n \in Int, NEW m \in Int, m # n => NodeStake = 0
  PROVE  NodeStake * m = NodeStake * n
  OBVIOUS

LEMMA CountMoves ==
  ASSUME RegistrationInv, NEW e \in Enrolments, NEW s, enrol' = [enrol EXCEPT ![e] = s]
  PROVE  \A states : Counted(states, enrol[e], s, Cardinality(Holding(states)),
                             Cardinality(Holding(states)'))
<1> TAKE states
<1>1. Holding(states) \subseteq Enrolments /\ (e \in Holding(states) <=> enrol[e] \in states)
  BY DEF Holding
<1>2. Holding(states)' = IF s \in states THEN Holding(states) \cup {e} ELSE Holding(states) \ {e}
  BY MoveCall
<1> QED BY <1>1, <1>2, CountCalls DEF Counted

LEMMA RegistrationStarts == RegistrationInit => RegistrationInv
<1> SUFFICES ASSUME RegistrationInit PROVE RegistrationInv
  OBVIOUS
<1>1. Kept = {} /\ Paying = {} /\ staked = {}
  BY DEF RegistrationInit, Kept, Paying, Holding
<1>2. Cardinality({}) = 0
  BY FS_EmptySet
<1> QED BY <1>1, <1>2, RegistrationAssumption DEF RegistrationInit, RegistrationInv, RegistrationAssumption

\* No step of a call, and no stop, takes a slot from a node or gives back a stake twice.
LEMMA RegistrationSteps == RegistrationInv /\ [RegistrationNext]_registrationVars => RegistrationInv'
<1> SUFFICES ASSUME RegistrationInv, [RegistrationNext]_registrationVars PROVE RegistrationInv'
  OBVIOUS
<1> DEFINE S == Cardinality(staked)
           K == Cardinality(Kept)
           P == Cardinality(Paying)
<1>a. NodeStake \in Nat /\ NodeCap \in Nat /\ FirstPurse \in Nat
  BY RegistrationAssumption DEF RegistrationAssumption
<1>b. Kept \in SUBSET Enrolments /\ Paying \in SUBSET Enrolments /\ staked \in SUBSET Enrolments
  BY DEF Kept, Paying, Holding, RegistrationInv
<1>c. S \in Nat /\ K \in Nat /\ P \in Nat
  BY <1>b, CountCalls
<1>d. /\ nodeCount \in Int /\ purse \in Int /\ S + K <= nodeCount /\ nodeCount <= NodeCap
      /\ purse + NodeStake * (S + P) <= FirstPurse
  BY DEF RegistrationInv
<1>e. /\ NodeStake * (S + P) \in Int
      /\ NodeStake * (S + P + 1) = NodeStake * (S + P) + NodeStake
      /\ NodeStake * (S + P - 1) = NodeStake * (S + P) - NodeStake
  BY <1>c, OneStake
<1> DEFINE Moves(e, s) == enrol' = [enrol EXCEPT ![e] = s]
           States == {"new", "claim", "spend", "create", "refund", "return", "registered", "refused"}
\* What a call of the code changes is its state, and with it the numbers.
<1>f. ASSUME NEW e \in Enrolments, NEW s \in States, Moves(e, s)
      PROVE  /\ enrol' \in [Enrolments -> States]
             /\ Counted({"spend", "create", "refund", "return"}, enrol[e], s, K, K')
             /\ Counted({"create", "refund"}, enrol[e], s, P, P')
             /\ enrol[e] # "registered" => staked \subseteq {o \in Enrolments : enrol'[o] = "registered"}
             /\ enrol'[e] = s
  <2>1. enrol' \in [Enrolments -> States] /\ enrol'[e] = s
    BY <1>f DEF RegistrationInv
  <2>2. enrol[e] # "registered" => staked \subseteq {o \in Enrolments : enrol'[o] = "registered"}
    BY <1>f DEF RegistrationInv
  <2>3. \A states : Counted(states, enrol[e], s, Cardinality(Holding(states)),
                            Cardinality(Holding(states)'))
    BY <1>f, CountMoves
  <2>4. Counted({"spend", "create", "refund", "return"}, enrol[e], s, K, K')
    BY <2>3, Zenon DEF Kept
  <2>5. Counted({"create", "refund"}, enrol[e], s, P, P')
    BY <2>3, Zenon DEF Paying
  <2> QED BY <2>1, <2>2, <2>4, <2>5
<1> HIDE DEF S, K, P
<1>1. ASSUME NEW e \in Enrolments, RegisterNode(e) PROVE RegistrationInv'
  <2>1. K' = K /\ P' = P /\ S' = S
    BY <1>1, <1>c, <1>f DEF Counted, RegisterNode, EnrolTo, S
  <2> QED BY <1>1, <1>d, <1>f, <2>1 DEF RegisterNode, EnrolTo, RegistrationInv, S, K, P
<1>2. ASSUME NEW e \in Enrolments, ClaimSlot(e) PROVE RegistrationInv'
  <2>1. AfterClaim \in {"spend", "create"} /\ (AfterClaim = "create" => NodeStake = 0)
    BY <1>a DEF AfterClaim
  <2>2. CASE nodeCount < NodeCap
    <3>1. Moves(e, AfterClaim) /\ nodeCount' = nodeCount + 1 /\ purse' = purse /\ staked' = staked
      BY <1>2, <2>2 DEF ClaimSlot, EnrolTo
    <3>2. Counted({"spend", "create", "refund", "return"}, "claim", AfterClaim, K, K')
          /\ Counted({"create", "refund"}, "claim", AfterClaim, P, P')
      BY <1>2, <1>f, <2>1, <3>1 DEF ClaimSlot
    <3>3. K' = K + 1 /\ S' = S /\ (P' = P \/ (P' = P + 1 /\ NodeStake = 0))
      BY <1>c, <2>1, <3>1, <3>2 DEF Counted, S
    <3>4. NodeStake * (S + P') = NodeStake * (S + P)
      <4>1. CASE P' = P
        BY <4>1
      <4>2. CASE P' = P + 1 /\ NodeStake = 0
        BY <1>c, <4>2, OneNoStake
      <4> QED BY <3>3, <4>1, <4>2
    <3> QED BY <1>2, <1>a, <1>c, <1>d, <1>f, <2>1, <2>2, <3>1, <3>3, <3>4
            DEF ClaimSlot, RegistrationInv, S, K, P
  <2>3. CASE ~(nodeCount < NodeCap)
    <3>1. Moves(e, "refused") /\ UNCHANGED <<nodeCount, purse, staked>>
      BY <1>2, <2>3 DEF ClaimSlot, EnrolTo
    <3>2. K' = K /\ P' = P /\ S' = S
      BY <1>2, <1>c, <1>f, <3>1 DEF Counted, ClaimSlot, S
    <3> QED BY <1>2, <1>d, <1>f, <3>1, <3>2 DEF ClaimSlot, RegistrationInv, S, K, P
  <2> QED BY <2>2, <2>3
<1>3. ASSUME NEW e \in Enrolments, SpendStake(e) PROVE RegistrationInv'
  <2>1. K' = K /\ P' = P + 1 /\ S' = S
    BY <1>3, <1>c, <1>f DEF Counted, SpendStake, EnrolTo, S
  <2> QED BY <1>3, <1>a, <1>c, <1>d, <1>e, <1>f, <2>1 DEF SpendStake, EnrolTo, RegistrationInv, S, K, P
<1>4. ASSUME NEW e \in Enrolments, SpendFails(e) PROVE RegistrationInv'
  <2>1. K' = K /\ P' = P /\ S' = S
    BY <1>4, <1>c, <1>f DEF Counted, SpendFails, EnrolTo, S
  <2> QED BY <1>4, <1>d, <1>f, <2>1 DEF SpendFails, EnrolTo, RegistrationInv, S, K, P
<1>5. ASSUME NEW e \in Enrolments, CreateNode(e) PROVE RegistrationInv'
  <2>1. e \notin staked
    BY <1>5 DEF CreateNode, RegistrationInv
  <2>2. K' = K - 1 /\ P' = P - 1
    BY <1>5, <1>c, <1>f DEF Counted, CreateNode, EnrolTo
  <2>3. S' = S + 1
    BY <1>5, <1>b, <2>1, CountCalls DEF CreateNode, S
  <2>4. staked' \subseteq {o \in Enrolments : enrol'[o] = "registered"}
    BY <1>5, <1>f DEF CreateNode, EnrolTo
  <2> QED BY <1>5, <1>c, <1>d, <1>f, <2>2, <2>3, <2>4
          DEF CreateNode, EnrolTo, RegistrationInv, S, K, P
<1>6. ASSUME NEW e \in Enrolments, CreateNodeFails(e) PROVE RegistrationInv'
  <2> DEFINE s == IF NodeStake > 0 THEN "refund" ELSE "return"
  <2>1. s \in {"refund", "return"} /\ (s = "return" => NodeStake = 0) /\ Moves(e, s)
    BY <1>6, <1>a DEF CreateNodeFails, EnrolTo
  <2> HIDE DEF s
  <2>a. Counted({"spend", "create", "refund", "return"}, "create", s, K, K')
        /\ Counted({"create", "refund"}, "create", s, P, P')
    BY <1>6, <1>f, <2>1 DEF CreateNodeFails
  <2>2. K' = K /\ S' = S /\ (P' = P \/ (P' = P - 1 /\ NodeStake = 0))
    BY <1>6, <1>c, <2>1, <2>a DEF Counted, CreateNodeFails, S
  <2>3. NodeStake * (S + P') = NodeStake * (S + P)
    <3>1. CASE P' = P
      BY <3>1
    <3>2. CASE P' = P - 1 /\ NodeStake = 0
      BY <1>c, <3>2, OneNoStake
    <3> QED BY <2>2, <3>1, <3>2
  <2> QED BY <1>6, <1>c, <1>d, <1>f, <2>1, <2>2, <2>3 DEF CreateNodeFails, RegistrationInv, S, K, P
<1>7. ASSUME NEW e \in Enrolments, RefundStake(e) PROVE RegistrationInv'
  <2>1. K' = K /\ P' = P - 1 /\ S' = S
    BY <1>7, <1>c, <1>f DEF Counted, RefundStake, EnrolTo, S
  <2> QED BY <1>7, <1>a, <1>c, <1>d, <1>e, <1>f, <2>1
          DEF RefundStake, EnrolTo, RegistrationInv, S, K, P
<1>8. ASSUME NEW e \in Enrolments, ReturnSlot(e) PROVE RegistrationInv'
  <2>1. K' = K - 1 /\ P' = P /\ S' = S
    BY <1>8, <1>c, <1>f DEF Counted, ReturnSlot, EnrolTo, S
  <2> QED BY <1>8, <1>a, <1>c, <1>d, <1>f, <2>1 DEF ReturnSlot, EnrolTo, RegistrationInv, S, K, P
<1>9. ASSUME RegistrationStops PROVE RegistrationInv'
  <2>1. Kept' = {} /\ Paying' = {}
    BY <1>9 DEF RegistrationStops, Kept, Paying, Holding
  <2>2. K' = 0 /\ P' = 0 /\ S' = S
    BY <1>9, <2>1, FS_EmptySet DEF RegistrationStops, S, K, P
  <2>3. NodeStake * (S + 0) <= NodeStake * (S + P)
    <3>1. NodeStake * (S + P) = NodeStake * S + NodeStake * P /\ NodeStake * P >= 0
          /\ NodeStake * S \in Int
      BY <1>a, <1>c
    <3> QED BY <3>1, <1>a, <1>c
  <2>4. NodeStake * (S + 0) \in Int /\ NodeStake * (S + P) \in Int
    BY <1>a, <1>c, <1>e, OneStake
  <2>5. /\ enrol' \in [Enrolments -> States]
        /\ staked' \subseteq {o \in Enrolments : enrol'[o] = "registered"}
    BY <1>9 DEF RegistrationStops, RegistrationInv
  <2>6. nodeCount' = nodeCount /\ purse' = purse
    BY <1>9 DEF RegistrationStops
  <2>7. purse + NodeStake * (S + 0) <= FirstPurse
    BY <1>a, <1>d, <2>3, <2>4
  <2>8. S + 0 <= nodeCount
    BY <1>c, <1>d
  <2> QED BY <1>d, <2>2, <2>5, <2>6, <2>7, <2>8 DEF RegistrationInv, S, K, P
<1>10. ASSUME UNCHANGED registrationVars PROVE RegistrationInv'
  BY <1>10 DEF registrationVars, RegistrationInv, Kept, Paying, Holding
<1> QED BY <1>1, <1>2, <1>3, <1>4, <1>5, <1>6, <1>7, <1>8, <1>9, <1>10 DEF RegistrationNext

\* However many calls fail or stop half way, compensated or not: every node has a slot of its
\* own and its stake was paid and not given back, and the cap is kept.
THEOREM RegistrationIsPaid == RegistrationSpec => []NodesArePaid
<1>1. RegistrationInv => NodesArePaid
  BY DEF RegistrationInv, NodesArePaid, Kept, Paying, Holding
<1> QED BY <1>1, RegistrationStarts, RegistrationSteps, PTL DEF RegistrationSpec

-----------------------------------------------------------------------------
(* LocalEngine: the child that answers is the one that was announced *)

EngineTypes ==
  /\ launch \in [Launches -> [pc : {"new", "ensure", "poll", "probe", "answered", "done", "failed"},
                              model : Models \cup {NoModel}]]
  /\ child \in [Launches -> {"none", "loading", "up", "dying", "exited", "dead"}]
  /\ proc \in Launches \cup {NoChild} /\ ready \in BOOLEAN /\ installing \in BOOLEAN
  /\ announced \in Models \cup {NoModel} /\ saved \in Models \cup {NoModel}
  /\ overlap \in BOOLEAN /\ missed \in BOOLEAN

\* While calls do not overlap: one is under way, the child that is known is the one of a call that
\* spawned it, and the call that polls polls its own child, unless that child is gone.
EngineInOrder ==
  /\ \A s, o \in Launches : Under(s) /\ Under(o) => s = o
  /\ proc # NoChild => launch[proc].pc \notin {"new", "ensure"}
  /\ \A s \in Launches : launch[s].pc \in {"poll", "probe", "answered"} => proc \in {s, NoChild}
  /\ \A s \in Launches : launch[s].pc = "answered" /\ ~missed =>
       proc = s /\ child[s] \in {"up", "exited"}
  /\ \A s \in Launches : child[s] \in {"loading", "up"} => s = proc
  /\ \A s \in Launches : child[s] # "dying"
  /\ ~missed => Faithful

EngineInv == EngineTypes /\ (KillWaits /\ ~overlap => EngineInOrder)

LEMMA EngineStarts == EngineInit => EngineInv
<1> SUFFICES ASSUME EngineInit PROVE EngineInv
  OBVIOUS
<1>1. EngineTypes
  BY DEF EngineInit, EngineTypes
<1>2. EngineInOrder
  BY DEF EngineInit, EngineInOrder, Faithful, Under
<1> QED BY <1>1, <1>2 DEF EngineInv

LEMMA EngineStepTypes == EngineInv /\ [EngineNext]_engineVars => EngineTypes'
<1> SUFFICES ASSUME EngineInv, [EngineNext]_engineVars PROVE EngineTypes'
  OBVIOUS
<1> USE DEF EngineInv, EngineTypes
<1>1. Killed \in [Launches -> {"none", "loading", "up", "dying", "exited", "dead"}]
  BY DEF Killed
<1>2. ASSUME NEW s \in Launches, NEW m \in Models, EngineSetup(s, m) PROVE EngineTypes'
  BY <1>2 DEF EngineSetup
<1>3. ASSUME NEW s \in Launches, EnsureFails(s) \/ PollGone(s) \/ PollReady(s) PROVE EngineTypes'
  BY <1>3 DEF EnsureFails, PollGone, PollReady, LaunchTo
<1>11. ASSUME NEW s \in Launches, Probe(s) \/ ProbeAnswered(s) \/ ProbeFails(s) PROVE EngineTypes'
  BY <1>11 DEF Probe, ProbeAnswered, ProbeFails, LaunchTo
<1>4. ASSUME NEW s \in Launches, Spawn(s) PROVE EngineTypes'
  BY <1>4, <1>1 DEF Spawn, LaunchTo
<1>5. ASSUME NEW s \in Launches, Loaded(s) \/ ChildEnds(s) \/ ChildGone(s) \/ Exit(s)
      PROVE  EngineTypes'
  BY <1>5 DEF Loaded, ChildEnds, ChildGone, Exit
<1>6. ASSUME NEW s \in Launches, PollTimeOut(s) PROVE EngineTypes'
  BY <1>6, <1>1 DEF PollTimeOut, LaunchTo
<1>7. ASSUME NEW s \in Launches, Restore(s) PROVE EngineTypes'
  BY <1>7 DEF Restore
<1>8. ASSUME NEW survives \in BOOLEAN, ApiEnds(survives) PROVE EngineTypes'
  BY <1>8 DEF ApiEnds
<1>9. ASSUME Adopt PROVE EngineTypes'
  BY <1>9 DEF Adopt
<1>10. ASSUME UNCHANGED engineVars PROVE EngineTypes'
  BY <1>10 DEF engineVars
<1> QED BY <1>2, <1>3, <1>4, <1>5, <1>6, <1>7, <1>8, <1>9, <1>10, <1>11 DEF EngineNext

\* Once calls overlapped, or a child outlived the API, that stays noted.
LEMMA OverlapStays == EngineInv /\ [EngineNext]_engineVars => (overlap => overlap')
  BY DEF EngineInv, EngineTypes, EngineNext, EngineSetup, EnsureFails, Spawn, Loaded, ChildEnds,
         ChildGone, Exit, Probe, ProbeAnswered, ProbeFails, PollReady, PollGone, PollTimeOut, ApiEnds, Adopt, Restore, engineVars

LEMMA EngineStaysInOrder ==
  EngineInv /\ [EngineNext]_engineVars => (KillWaits /\ ~overlap' => EngineInOrder')
<1> SUFFICES ASSUME EngineInv, [EngineNext]_engineVars, KillWaits, ~overlap' PROVE EngineInOrder'
  OBVIOUS
<1>a. ~overlap /\ EngineInOrder /\ EngineTypes /\ EngineTypes'
  BY OverlapStays, EngineStepTypes DEF EngineInv
<1>n. NoChild \notin Launches
  BY EngineAssumption DEF EngineAssumption
\* After a kill no child is alive.
<1>b. /\ Killed \in [Launches -> {"none", "loading", "up", "dying", "exited", "dead"}]
      /\ \A s \in Launches : Killed[s] \notin {"loading", "up", "dying"}
  <2>1. CASE proc # NoChild /\ child[proc] \in {"loading", "up"}
    <3>1. proc \in Launches /\ Killed = [child EXCEPT ![proc] = "dead"]
      BY <1>a, <2>1 DEF Killed, EngineTypes
    <3> QED BY <1>a, <3>1 DEF EngineTypes, EngineInOrder
  <2>2. CASE ~(proc # NoChild /\ child[proc] \in {"loading", "up"})
    <3>1. Killed = child
      BY <2>2 DEF Killed
    <3>2. \A s \in Launches : child[s] \notin {"loading", "up", "dying"}
      BY <1>a, <1>n, <2>2 DEF EngineInOrder
    <3> QED BY <1>a, <3>1, <3>2 DEF EngineTypes
  <2> QED BY <2>1, <2>2
<1> USE DEF EngineTypes
<1>1. ASSUME NEW s \in Launches, NEW m \in Models, EngineSetup(s, m) PROVE EngineInOrder'
  <2>1. \A o \in Launches : ~Under(o)
    BY <1>a, <1>1 DEF EngineSetup, Underway
  <2>2. proc # s
    BY <1>a, <1>1, <1>n DEF EngineSetup, EngineInOrder
  <2> QED BY <1>a, <1>1, <2>1, <2>2 DEF EngineSetup, EngineInOrder, Under, Faithful
<1>2. ASSUME NEW s \in Launches, EnsureFails(s) \/ PollGone(s) PROVE EngineInOrder'
  BY <1>a, <1>2 DEF EnsureFails, PollGone, LaunchTo, EngineInOrder, Under, Faithful
<1>3. ASSUME NEW s \in Launches, Spawn(s) PROVE EngineInOrder'
  <2>1. \A o \in Launches \ {s} : ~Under(o)
    BY <1>a, <1>3 DEF Spawn, EngineInOrder, Under
  <2> QED BY <1>a, <1>b, <1>3, <1>n, <2>1 DEF Spawn, LaunchTo, EngineInOrder, Under, Faithful
<1>4. ASSUME NEW s \in Launches, Loaded(s) \/ ChildEnds(s) \/ ChildGone(s) PROVE EngineInOrder'
  BY <1>a, <1>4 DEF Loaded, ChildEnds, ChildGone, EngineInOrder, Under, Faithful
<1>5. ASSUME NEW s \in Launches, Exit(s) PROVE EngineInOrder'
  BY <1>a, <1>5 DEF Exit, EngineInOrder, Under, Faithful
<1>6. ASSUME NEW s \in Launches, PollReady(s) PROVE EngineInOrder'
  <2>1. /\ launch[s].pc = "answered" /\ launch' = [launch EXCEPT ![s].pc = "done"]
        /\ announced' = launch[s].model /\ saved' = launch[s].model /\ UNCHANGED <<child, proc, missed>>
    BY <1>6 DEF PollReady, LaunchTo
  <2>2. \A o \in Launches : Under(o)' => Under(o)
    BY <1>a, <2>1 DEF Under
  <2>3. ~missed' => Faithful'
    <3>1. ~missed => proc = s /\ child[s] \in {"up", "exited"}
      BY <1>a, <2>1 DEF EngineInOrder
    <3> QED BY <1>a, <1>n, <2>1, <3>1 DEF Faithful
  <2> QED BY <1>a, <2>1, <2>2, <2>3 DEF EngineInOrder
<1>12. ASSUME NEW s \in Launches, Probe(s) \/ ProbeFails(s) PROVE EngineInOrder'
  BY <1>a, <1>12 DEF Probe, ProbeFails, LaunchTo, EngineInOrder, Under, Faithful
\* The child that answers is the only one, and the one that is known.
<1>13. ASSUME NEW s \in Launches, ProbeAnswered(s) PROVE EngineInOrder'
  <2>1. PICK o \in Launches : child[o] = "up"
    BY <1>a, <1>13 DEF ProbeAnswered, Answers, EngineInOrder
  <2>2. o = proc /\ proc = s
    BY <1>a, <1>n, <1>13, <2>1 DEF ProbeAnswered, EngineInOrder
  <2> QED BY <1>a, <1>13, <2>1, <2>2 DEF ProbeAnswered, LaunchTo, EngineInOrder, Under, Faithful
<1>7. ASSUME NEW s \in Launches, PollTimeOut(s) PROVE EngineInOrder'
  BY <1>a, <1>b, <1>7 DEF PollTimeOut, LaunchTo, EngineInOrder, Under, Faithful
<1>8. ASSUME NEW s \in Launches, Restore(s) PROVE EngineInOrder'
  <2>1. \A o \in Launches : ~Under(o)
    BY <1>a, <1>8 DEF Restore, Underway
  <2>2. \A o \in Launches : child[o] \notin {"loading", "up"}
    BY <1>a, <1>8, <1>n DEF Restore, EngineInOrder
  <2> QED BY <1>a, <1>8, <1>n, <2>1, <2>2 DEF Restore, EngineInOrder, Under, Faithful
<1>9. ASSUME NEW survives \in BOOLEAN, ApiEnds(survives) PROVE EngineInOrder'
  BY <1>a, <1>9 DEF ApiEnds, EngineInOrder, Under, Faithful
<1>10. ASSUME Adopt PROVE EngineInOrder'
  BY <1>a, <1>10, <1>n DEF Adopt, Answers, EngineInOrder
<1>11. ASSUME UNCHANGED engineVars PROVE EngineInOrder'
  BY <1>a, <1>11 DEF engineVars, EngineInOrder, Under, Faithful
<1> QED BY <1>1, <1>2, <1>3, <1>4, <1>5, <1>6, <1>7, <1>8, <1>9, <1>10, <1>11, <1>12, <1>13
        DEF EngineNext

\* Whatever is asked of the engine and whenever its children end: as long as a kill is immediate,
\* calls do not overlap and no child outlived the API, no child runs that the engine does not know;
\* and what it says it runs is what that child loaded, unless the child's exit was noticed between
\* its answer to a probe and the step that took the answer for readiness.
THEOREM EngineIsFaithful == EngineSpec => []ReadyIsLoaded
<1>1. EngineInv /\ [EngineNext]_engineVars => EngineInv'
  BY EngineStepTypes, EngineStaysInOrder DEF EngineInv
<1>2. EngineInv => ReadyIsLoaded
  BY DEF EngineInv, EngineInOrder, ReadyIsLoaded, Alive
<1> QED BY <1>1, <1>2, EngineStarts, PTL DEF EngineSpec

-----------------------------------------------------------------------------
(* Accounts: a family has one live token, and none after a reuse *)

AliveIn(f) == {t \in OfFamily(f) : Live(t)}
Unfinished == {"create", "chain", "reuse", "logout"}

\* One request of a family at a time: what it read is the live token, the one it made may be the
\* second, and no family whose reuse was detected is rotated.
FamilyInv(f) ==
  /\ \A q, r \in Refreshes : q \in Serving(f) /\ r \in Serving(f) => q = r
  /\ Serving(f) = {} => /\ \A t, u \in Tokens : t \in AliveIn(f) /\ u \in AliveIn(f) => t = u
                        /\ f \in reused => AliveIn(f) = {}
  /\ \A q \in Serving(f) :
       /\ request[q].pc = "create" => AliveIn(f) \subseteq {request[q].token}
       /\ request[q].pc = "chain" => \E u \in Tokens : AliveIn(f) \subseteq {request[q].token, u}
       /\ request[q].pc \in {"create", "chain"} => f \notin reused

TokenTypes ==
  /\ family \in [Tokens -> Families \cup {NoFamily}]
  /\ request \in [Refreshes -> [pc : {"new", "done"} \cup Unfinished, token : Tokens \cup {0}]]
  /\ revoked \subseteq {t \in Tokens : family[t] \in Families}
  /\ \A q \in Refreshes : request[q].pc \in Unfinished =>
       request[q].token \in Tokens /\ family[request[q].token] \in Families
  /\ reused \subseteq Families
  /\ \A f \in reused : \E t \in Tokens : family[t] = f

AccountsInv == TokenTypes /\ \A f \in Families \ crossed : FamilyInv(f)

LEMMA MadeIsOfAFamily ==
  ASSUME TokenTypes
  PROVE  /\ \A t \in Tokens : Made(t) <=> family[t] \in Families
         /\ \A f \in Families : \A t : t \in AliveIn(f) <=> t \in Tokens /\ family[t] = f /\ t \notin revoked
  BY AccountsAssumption DEF AccountsAssumption, TokenTypes, Made, AliveIn, OfFamily, Live

LEMMA AccountsStart == AccountsInit => AccountsInv
<1> SUFFICES ASSUME AccountsInit PROVE AccountsInv
  OBVIOUS
<1>1. TokenTypes
  BY DEF AccountsInit, TokenTypes, Unfinished
<1>2. ASSUME NEW f \in Families PROVE Serving(f) = {} /\ AliveIn(f) = {}
  BY AccountsAssumption DEF AccountsAssumption, AccountsInit, Serving, AliveIn, OfFamily, Live, Made
<1> QED BY <1>1, <1>2 DEF AccountsInv, FamilyInv

LEMMA TokenTypesStay == TokenTypes /\ [AccountsNext]_accountVars => TokenTypes'
<1> SUFFICES ASSUME TokenTypes, [AccountsNext]_accountVars PROVE TokenTypes'
  OBVIOUS
<1>m. \A t \in Tokens : Made(t) <=> family[t] \in Families
  BY MadeIsOfAFamily
<1>1. ASSUME NEW f \in Families, NEW t \in Tokens, Login(f, t) PROVE TokenTypes'
  BY <1>1, <1>m DEF Login, NextToken, mailVars, TokenTypes
<1>2. ASSUME NEW t \in Tokens, NEW q \in Refreshes, RotateRead(q, t) PROVE TokenTypes'
  BY <1>2, <1>m DEF RotateRead, RequestTo, mailVars, TokenTypes, Unfinished
<1>3. ASSUME NEW t \in Tokens, NEW q \in Refreshes, RotateExpired(q, t) PROVE TokenTypes'
  BY <1>3, <1>m DEF RotateExpired, Live, RequestTo, mailVars, TokenTypes, Unfinished
<1>4. ASSUME NEW t \in Tokens, NEW q \in Refreshes, RotateCreate(q, t) PROVE TokenTypes'
  BY <1>4, <1>m DEF RotateCreate, NextToken, RequestTo, mailVars, TokenTypes, Unfinished
<1>5. ASSUME NEW t \in Tokens, NEW q \in Refreshes, LogoutRead(q, t) PROVE TokenTypes'
  BY <1>5, <1>m DEF LogoutRead, RequestTo, mailVars, TokenTypes, Unfinished
<1>6. ASSUME NEW q \in Refreshes, RotateChain(q) PROVE TokenTypes'
  BY <1>6, <1>m DEF RotateChain, RequestTo, mailVars, TokenTypes, Unfinished
<1>7. ASSUME NEW q \in Refreshes, RevokeFamily(q) PROVE TokenTypes'
  BY <1>7, <1>m DEF RevokeFamily, OfFamily, RequestTo, mailVars, TokenTypes, Unfinished
<1>8. ASSUME NEW d \in Redeems, ResetPassword(d) PROVE TokenTypes'
  BY <1>8, <1>m DEF ResetPassword, TokenTypes
<1>9. ASSUME AccountsStop PROVE TokenTypes'
  BY <1>9 DEF AccountsStop, TokenTypes, Unfinished
<1>10. ASSUME UNCHANGED <<refreshVars, reused>> PROVE TokenTypes'
  BY <1>10 DEF refreshVars, TokenTypes
<1>11. ASSUME \/ \E i \in Mailings : MailDelete(i) \/ \E m \in Mailed : MailCreate(i, m)
              \/ \E d \in Redeems : RedeemUse(d) \/ \E m \in Mailed : RedeemRead(d, m)
              \/ UNCHANGED accountVars
       PROVE  TokenTypes'
  BY <1>10, <1>11 DEF MailDelete, MailCreate, RedeemUse, RedeemRead, accountVars, refreshVars
<1> QED BY <1>1, <1>2, <1>3, <1>4, <1>5, <1>6, <1>7, <1>8, <1>9, <1>11 DEF AccountsNext

\* A step that neither serves, nor makes, nor revokes a token of a family leaves it as it was.
LEMMA OtherFamilies ==
  ASSUME NEW f, FamilyInv(f), AliveIn(f)' = AliveIn(f), Serving(f)' = Serving(f),
         \A q \in Serving(f) : request'[q] = request[q],
         f \in reused' <=> f \in reused
  PROVE  FamilyInv(f)'
  BY DEF FamilyInv

LEMMA FamiliesStayInOrder ==
  AccountsInv /\ [AccountsNext]_accountVars => \A f \in Families \ crossed' : FamilyInv(f)'
<1> SUFFICES ASSUME AccountsInv, [AccountsNext]_accountVars, NEW f \in Families, f \notin crossed'
             PROVE  FamilyInv(f)'
  OBVIOUS
<1>a. TokenTypes /\ TokenTypes'
  BY TokenTypesStay DEF AccountsInv
<1>b. f \notin crossed
  BY DEF AccountsNext, Login, RotateRead, RotateExpired, RotateCreate, RotateChain, LogoutRead,
         RevokeFamily, MailDelete, MailCreate, RedeemRead, RedeemUse, ResetPassword, AccountsStop,
         Crossing, accountVars
<1>c. FamilyInv(f)
  BY <1>b DEF AccountsInv
<1>d. \A t : t \in AliveIn(f) <=> t \in Tokens /\ family[t] = f /\ t \notin revoked
  BY <1>a, MadeIsOfAFamily
<1>e. \A t : t \in AliveIn(f)' <=> t \in Tokens /\ family'[t] = f /\ t \notin revoked'
  BY <1>a, AccountsAssumption DEF AccountsAssumption, TokenTypes, Made, AliveIn, OfFamily, Live
<1>g. /\ \A q : q \in Serving(f) <=> /\ q \in Refreshes /\ request[q].pc \in Unfinished
                                     /\ family[request[q].token] = f
      /\ \A q : q \in Serving(f)' <=> /\ q \in Refreshes /\ request'[q].pc \in Unfinished
                                      /\ family'[request'[q].token] = f
  BY DEF Serving, Unfinished
<1>m. \A t \in Tokens : Made(t) <=> family[t] \in Families
  BY <1>a, MadeIsOfAFamily
\* A request that has read a token of f is the only one of f, and nothing else happened to f.
<1>1. ASSUME NEW t \in Tokens, NEW q \in Refreshes, RotateRead(q, t) PROVE FamilyInv(f)'
  <2>1. /\ request[q].pc = "new" /\ request'[q].token = t
        /\ request'[q].pc = (IF t \in revoked THEN "reuse" ELSE "create")
        /\ \A r \in Refreshes \ {q} : request'[r] = request[r]
        /\ UNCHANGED <<family, revoked, reused>>
    BY <1>1, <1>a DEF RotateRead, RequestTo, TokenTypes
  <2>2. AliveIn(f)' = AliveIn(f)
    BY <1>d, <1>e, <2>1
  <2>3. CASE family[t] = f
    <3>1. Serving(f) = {}
      BY <1>1, <2>3 DEF RotateRead, Crossing
    <3>2. Serving(f)' = {q}
      BY <1>g, <2>1, <2>3, <3>1 DEF Unfinished
    <3>3. t \notin revoked => AliveIn(f) = {t} /\ f \notin reused
      BY <1>c, <1>d, <2>3, <3>1 DEF FamilyInv
    <3> QED BY <2>1, <2>2, <3>2, <3>3 DEF FamilyInv
  <2>4. CASE family[t] # f
    <3>0. q \notin Serving(f) /\ q \notin Serving(f)'
      BY <1>g, <2>1, <2>4 DEF Unfinished
    <3>b. \A r \in Refreshes \ {q} : r \in Serving(f)' <=> r \in Serving(f)
      BY <1>g, <2>1
    <3>1. Serving(f)' = Serving(f) /\ q \notin Serving(f)
      BY <1>g, <3>0, <3>b
    <3> QED BY <1>c, <1>g, <2>1, <2>2, <3>1, OtherFamilies
  <2> QED BY <2>3, <2>4
<1>2. ASSUME NEW t \in Tokens, NEW q \in Refreshes, LogoutRead(q, t) PROVE FamilyInv(f)'
  <2>1. /\ request[q].pc = "new" /\ request'[q].token = t /\ request'[q].pc = "logout"
        /\ \A r \in Refreshes \ {q} : request'[r] = request[r]
        /\ UNCHANGED <<family, revoked, reused>>
    BY <1>2, <1>a DEF LogoutRead, RequestTo, TokenTypes
  <2>2. AliveIn(f)' = AliveIn(f)
    BY <1>d, <1>e, <2>1
  <2>3. CASE family[t] = f
    <3>1. Serving(f) = {}
      BY <1>2, <2>3 DEF LogoutRead, Crossing
    <3>2. Serving(f)' = {q}
      BY <1>g, <2>1, <2>3, <3>1 DEF Unfinished
    <3> QED BY <2>1, <2>2, <3>2 DEF FamilyInv
  <2>4. CASE family[t] # f
    <3>0. q \notin Serving(f) /\ q \notin Serving(f)'
      BY <1>g, <2>1, <2>4 DEF Unfinished
    <3>b. \A r \in Refreshes \ {q} : r \in Serving(f)' <=> r \in Serving(f)
      BY <1>g, <2>1
    <3>1. Serving(f)' = Serving(f) /\ q \notin Serving(f)
      BY <1>g, <3>0, <3>b
    <3> QED BY <1>c, <1>g, <2>1, <2>2, <3>1, OtherFamilies
  <2> QED BY <2>3, <2>4
\* A token that is too old is given up at once.
<1>3. ASSUME NEW t \in Tokens, NEW q \in Refreshes, RotateExpired(q, t) PROVE FamilyInv(f)'
  <2>1. /\ request[q].pc = "new" /\ request'[q].pc = "done"
        /\ \A r \in Refreshes \ {q} : request'[r] = request[r]
        /\ UNCHANGED <<family, reused>> /\ revoked' = revoked \cup {t}
    BY <1>3, <1>a DEF RotateExpired, RequestTo, TokenTypes
  <2>0. q \notin Serving(f) /\ q \notin Serving(f)'
    BY <1>g, <2>1 DEF Unfinished
  <2>b. \A r \in Refreshes \ {q} : r \in Serving(f)' <=> r \in Serving(f)
    BY <1>g, <2>1
  <2>2. Serving(f)' = Serving(f) /\ q \notin Serving(f)
    BY <1>g, <2>0, <2>b
  <2>3. CASE family[t] = f
    <3>1. Serving(f) = {}
      BY <1>3, <2>3 DEF RotateExpired, Crossing
    <3>2. AliveIn(f)' \subseteq AliveIn(f)
      BY <1>d, <1>e, <2>1
    <3> QED BY <1>c, <2>1, <2>2, <3>1, <3>2 DEF FamilyInv
  <2>4. CASE family[t] # f
    <3>1. AliveIn(f)' = AliveIn(f)
      BY <1>d, <1>e, <2>1, <2>4
    <3> QED BY <1>c, <1>g, <2>1, <2>2, <3>1, OtherFamilies
  <2> QED BY <2>3, <2>4
\* The new token is the second one at most, until the old one is revoked.
<1>4. ASSUME NEW t \in Tokens, NEW q \in Refreshes, RotateCreate(q, t) PROVE FamilyInv(f)'
  <2> DEFINE old == request[q].token
  <2>1. /\ request[q].pc = "create" /\ request'[q].token = old /\ request'[q].pc = "chain"
        /\ \A r \in Refreshes \ {q} : request'[r] = request[r]
        /\ family'[t] = family[old] /\ family[t] \notin Families
        /\ \A u \in Tokens \ {t} : family'[u] = family[u]
        /\ UNCHANGED <<revoked, reused>>
    BY <1>4, <1>a, <1>m DEF RotateCreate, NextToken, RequestTo, TokenTypes
  <2>2. \A r \in Refreshes : request[r].pc \in Unfinished =>
          /\ request[r].token \in Tokens \ {t} /\ family'[request[r].token] = family[request[r].token]
    BY <1>a, <2>1 DEF TokenTypes
  <2>a. q \in Serving(f)' <=> q \in Serving(f)
    BY <1>g, <2>1, <2>2 DEF Unfinished
  <2>b. \A r \in Refreshes \ {q} : r \in Serving(f)' <=> r \in Serving(f)
    BY <1>g, <2>1, <2>2
  <2>3. Serving(f)' = Serving(f)
    BY <1>g, <2>a, <2>b
  <2>4. CASE family[old] = f
    <3>1. \A r \in Serving(f) : r = q
      BY <1>c, <1>g, <2>1, <2>4 DEF FamilyInv, Unfinished
    <3>2. q \in Serving(f)
      BY <1>g, <2>1, <2>4 DEF Unfinished
    <3>3. AliveIn(f) \subseteq {old} /\ f \notin reused
      BY <1>c, <2>1, <3>2 DEF FamilyInv
    <3>4. AliveIn(f)' \subseteq {old, t}
      BY <1>d, <1>e, <2>1, <3>3
    <3> QED BY <2>1, <2>3, <3>1, <3>2, <3>3, <3>4 DEF FamilyInv
  <2>5. CASE family[old] # f
    <3>1. AliveIn(f)' = AliveIn(f)
      BY <1>d, <1>e, <2>1, <2>5
    <3>2. q \notin Serving(f)
      BY <1>g, <2>5
    <3> QED BY <1>c, <1>g, <2>1, <2>3, <3>1, <3>2, OtherFamilies
  <2> QED BY <2>4, <2>5
<1>5. ASSUME NEW q \in Refreshes, RotateChain(q) PROVE FamilyInv(f)'
  <2> DEFINE old == request[q].token
  <2>1. /\ request[q].pc = "chain" /\ request'[q].pc = "done"
        /\ \A r \in Refreshes \ {q} : request'[r] = request[r]
        /\ UNCHANGED <<family, reused>> /\ revoked' = revoked \cup {old} /\ old \in Tokens
    BY <1>5, <1>a DEF RotateChain, RequestTo, TokenTypes, Unfinished
  <2>2. CASE family[old] = f
    <3>1. q \in Serving(f) /\ \A r \in Serving(f) : r = q
      BY <1>c, <1>g, <2>1, <2>2 DEF FamilyInv, Unfinished
    <3>2. Serving(f)' = {}
      BY <1>g, <2>1, <3>1 DEF Unfinished
    <3>3. PICK u \in Tokens : AliveIn(f) \subseteq {old, u}
      BY <1>c, <2>1, <3>1 DEF FamilyInv
    <3>4. AliveIn(f)' \subseteq {u} /\ f \notin reused
      BY <1>c, <1>d, <1>e, <2>1, <3>1, <3>3 DEF FamilyInv
    <3> QED BY <2>1, <3>2, <3>4 DEF FamilyInv
  <2>3. CASE family[old] # f
    <3>1. AliveIn(f)' = AliveIn(f)
      BY <1>d, <1>e, <2>1, <2>3
    <3>0. q \notin Serving(f) /\ q \notin Serving(f)'
      BY <1>g, <2>1, <2>3 DEF Unfinished
    <3>b. \A r \in Refreshes \ {q} : r \in Serving(f)' <=> r \in Serving(f)
      BY <1>g, <2>1
    <3>2. q \notin Serving(f) /\ Serving(f)' = Serving(f)
      BY <1>g, <3>0, <3>b
    <3> QED BY <1>c, <1>g, <2>1, <3>1, <3>2, OtherFamilies
  <2> QED BY <2>2, <2>3
\* Everything of the family is revoked, the tokens that replaced this one too.
<1>6. ASSUME NEW q \in Refreshes, RevokeFamily(q) PROVE FamilyInv(f)'
  <2> DEFINE g == family[request[q].token]
  <2>1. /\ request[q].pc \in {"reuse", "logout"} /\ request'[q].pc = "done"
        /\ \A r \in Refreshes \ {q} : request'[r] = request[r]
        /\ family' = family /\ revoked' = revoked \cup {t \in Tokens : family[t] = g}
        /\ reused' = reused \cup {g}
    BY <1>6, <1>a DEF RevokeFamily, OfFamily, RequestTo, TokenTypes
  <2>2. CASE g = f
    <3>1. q \in Serving(f) /\ \A r \in Serving(f) : r = q
      BY <1>c, <1>g, <2>1, <2>2 DEF FamilyInv, Unfinished
    <3>2. Serving(f)' = {}
      BY <1>g, <2>1, <3>1 DEF Unfinished
    <3>3. AliveIn(f)' = {}
      BY <1>e, <2>1, <2>2
    <3> QED BY <3>2, <3>3 DEF FamilyInv
  <2>3. CASE g # f
    <3>1. AliveIn(f)' = AliveIn(f)
      BY <1>d, <1>e, <2>1, <2>3
    <3>0. q \notin Serving(f) /\ q \notin Serving(f)'
      BY <1>g, <2>1, <2>3 DEF Unfinished
    <3>b. \A r \in Refreshes \ {q} : r \in Serving(f)' <=> r \in Serving(f)
      BY <1>g, <2>1
    <3>2. q \notin Serving(f) /\ Serving(f)' = Serving(f)
      BY <1>g, <3>0, <3>b
    <3> QED BY <1>c, <1>g, <2>1, <2>3, <3>1, <3>2, OtherFamilies
  <2> QED BY <2>2, <2>3
\* A login makes the first token of a family of its own.
<1>7. ASSUME NEW g \in Families, NEW t \in Tokens, Login(g, t) PROVE FamilyInv(f)'
  <2>1. /\ family'[t] = g /\ family[t] \notin Families
        /\ \A u \in Tokens : family[u] # g
        /\ \A u \in Tokens \ {t} : family'[u] = family[u]
        /\ UNCHANGED <<revoked, reused, request>>
    BY <1>7, <1>a, <1>m DEF Login, NextToken, OfFamily, TokenTypes
  <2>2. \A r \in Refreshes : request[r].pc \in Unfinished =>
          /\ request[r].token \in Tokens \ {t} /\ family'[request[r].token] = family[request[r].token]
    BY <1>a, <2>1 DEF TokenTypes
  <2>3. Serving(f)' = Serving(f)
    BY <1>g, <2>1, <2>2
  <2>4. CASE g = f
    <3>1. Serving(f) = {}
      BY <1>g, <2>1, <2>2, <2>4
    <3>2. AliveIn(f)' \subseteq {t}
      BY <1>e, <2>1, <2>4
    <3>3. f \notin reused
      BY <1>a, <2>1, <2>4 DEF TokenTypes
    <3> QED BY <2>1, <2>3, <3>1, <3>2, <3>3 DEF FamilyInv
  <2>5. CASE g # f
    <3>1. AliveIn(f)' = AliveIn(f)
      BY <1>d, <1>e, <2>1, <2>5
    <3> QED BY <1>c, <2>1, <2>3, <3>1, OtherFamilies
  <2> QED BY <2>4, <2>5
\* A reset and a stop find no request of f under way; a reset revokes what there is of f.
<1>8. ASSUME NEW d \in Redeems, ResetPassword(d) PROVE FamilyInv(f)'
  <2>1. UNCHANGED <<family, request>> /\ revoked' = revoked \cup {t \in Tokens : Made(t)}
    BY <1>8 DEF ResetPassword
  <2>2. Serving(f)' = Serving(f)
    BY <1>g, <2>1
  <2>3. AliveIn(f)' = {}
    BY <1>e, <1>m, <2>1
  <2>4. Serving(f) = {}
    <3> SUFFICES ASSUME Serving(f) # {} PROVE FALSE
      OBVIOUS
    <3>1. PICK u \in Tokens : Made(u) /\ family[u] = f
      BY <1>a, <1>g, <1>m DEF TokenTypes
    <3>2. f \in {family[t] : t \in {v \in Tokens : Made(v)}}
      BY <3>1
    <3> QED BY <1>8, <3>2 DEF ResetPassword
  <2> QED BY <2>2, <2>3, <2>4 DEF FamilyInv
<1>9. ASSUME AccountsStop PROVE FamilyInv(f)'
  <2>1. Serving(f) = {} /\ UNCHANGED <<family, revoked, reused>>
    BY <1>9 DEF AccountsStop
  <2>2. \A q \in Refreshes : request'[q].pc \notin Unfinished
    BY <1>9 DEF AccountsStop, Unfinished
  <2>3. Serving(f)' = {} /\ AliveIn(f)' = AliveIn(f)
    BY <1>d, <1>e, <1>g, <2>1, <2>2
  <2> QED BY <1>c, <2>1, <2>3 DEF FamilyInv
<1>10. ASSUME UNCHANGED <<refreshVars, reused>> PROVE FamilyInv(f)'
  BY <1>c, <1>10 DEF refreshVars, FamilyInv, AliveIn, OfFamily, Live, Made, Serving
<1>11. ASSUME \/ \E i \in Mailings : MailDelete(i) \/ \E m \in Mailed : MailCreate(i, m)
              \/ \E d \in Redeems : RedeemUse(d) \/ \E m \in Mailed : RedeemRead(d, m)
              \/ UNCHANGED accountVars
       PROVE  FamilyInv(f)'
  BY <1>10, <1>11 DEF MailDelete, MailCreate, RedeemUse, RedeemRead, accountVars, refreshVars
<1> QED BY <1>1, <1>2, <1>3, <1>4, <1>5, <1>6, <1>7, <1>8, <1>9, <1>11 DEF AccountsNext

\* For any number of logins, tokens, requests and resets: while the requests of a family do not
\* overlap and none is cut short, it has at most one live token when none is under way, and none
\* once a reuse was detected, its user logged out or the password was reset.
THEOREM FamiliesRotate == AccountsSpec => []RotationIsExclusive
<1>1. AccountsInv /\ [AccountsNext]_accountVars => AccountsInv'
  BY TokenTypesStay, FamiliesStayInOrder DEF AccountsInv
<1>2. AccountsInv => RotationIsExclusive
  <2> SUFFICES ASSUME AccountsInv, NEW f \in Families \ crossed, Serving(f) = {}
               PROVE  /\ Cardinality(AliveIn(f)) <= 1
                      /\ f \in reused => \A t \in OfFamily(f) : ~Live(t)
    BY DEF RotationIsExclusive, AliveIn
  <2>1. /\ \A t, u \in Tokens : t \in AliveIn(f) /\ u \in AliveIn(f) => t = u
        /\ f \in reused => AliveIn(f) = {}
    BY DEF AccountsInv, FamilyInv
  <2>2. CASE AliveIn(f) = {}
    BY <2>2, FS_EmptySet DEF AliveIn
  <2>3. CASE AliveIn(f) # {}
    <3>1. PICK t : AliveIn(f) = {t}
      BY <2>1, <2>3 DEF AliveIn, OfFamily
    <3>2. Cardinality({t}) = 1
      BY FS_Singleton
    <3> QED BY <2>1, <3>1, <3>2 DEF AliveIn
  <2> QED BY <2>2, <2>3
<1> QED BY <1>1, <1>2, AccountsStart, PTL DEF AccountsSpec

-----------------------------------------------------------------------------
(* Downloads: what looks installed is the model *)

Fetches == [pc : {"new", "next", "stream", "finish", "installed", "failed"}, part : 1 .. Parts + 1,
            from : {"peer", "publisher"}, file : Inodes \cup {NoFile}, sent : 0 .. Chunks,
            intact : BOOLEAN]

DownloadTypes ==
  /\ bytes \in [Inodes -> [1 .. Chunks -> {"hole", "good", "bad"}]]
  /\ length \in [Inodes -> 0 .. Chunks]
  /\ partial \in [Files -> Inodes \cup {NoFile}] /\ final \in [Files -> Inodes \cup {NoFile}]
  /\ fetch \in [Setups -> Fetches]
  /\ \A s \in Setups : /\ Fetching(s) => fetch[s].part \in Files /\ fetch[s].file \in Inodes
                       /\ fetch[s].pc = "installed" => fetch[s].part = Parts + 1

FetchesPart(s, f) == Fetching(s) /\ fetch[s].part = f
\* What the paths of a part name, and what its fetches have open.
Names(f, i) == \/ i \in {partial[f], final[f]}
               \/ \E s \in Setups : FetchesPart(s, f) /\ fetch[s].file = i
Apart == \A f, g \in Files, i \in Inodes : Names(f, i) /\ Names(g, i) => f = g

\* A part that no two setups fetched at the same time: the one fetch writes to the partial file,
\* which is not what is installed, and holds what was received; and a setup that went on past the
\* part left it installed.
PartInv(f) ==
  /\ \A s, o \in Setups : FetchesPart(s, f) /\ FetchesPart(o, f) => s = o
  /\ partial[f] # NoFile => partial[f] # final[f]
  /\ \A s \in Setups : FetchesPart(s, f) =>
       /\ fetch[s].file = partial[f] /\ length[fetch[s].file] = fetch[s].sent
       /\ fetch[s].intact => \A c \in 1 .. fetch[s].sent : bytes[fetch[s].file][c] = "good"
  /\ Whole(f)
  /\ \A s \in Setups : f < fetch[s].part => Ready(f)

DownloadsInv == DownloadTypes /\ Apart /\ \A f \in Files \ shared : PartInv(f)

LEMMA ImageOfCalls ==
  ASSUME NEW S, IsFiniteSet(S), NEW h
  PROVE  IsFiniteSet({h[x] : x \in S}) /\ Cardinality({h[x] : x \in S}) <= Cardinality(S)
<1> DEFINE T == {h[x] : x \in S}
           k == [x \in S |-> h[x]]
<1>1. k \in Surjection(S, T)
  BY DEF Surjection
<1> QED BY <1>1, FS_Surjection

\* There are more files than paths and open ones: an unnamed one is left for a setup that has none.
LEMMA SpareIsLeft ==
  ASSUME DownloadTypes, NEW s \in Setups, ~Fetching(s)
  PROVE  Spare \in Inodes /\ ~Named(Spare)
<1> DEFINE Open == {o \in Setups : Fetching(o)}
           Paths == {partial[f] : f \in Files}
           Installed == {final[f] : f \in Files}
           Streams == {[p \in Open |-> fetch[p].file][o] : o \in Open}
<1>1. IsFiniteSet(Files) /\ Cardinality(Files) = Parts /\ Parts \in Nat
  BY FS_Interval, DownloadsAssumption DEF DownloadsAssumption, Files
<1>2. /\ IsFiniteSet(Open) /\ Cardinality(Open) \in Nat /\ Cardinality(Setups) \in Nat
      /\ Cardinality(Open) < Cardinality(Setups)
  <2>1. IsFiniteSet(Setups) /\ Open \in SUBSET Setups /\ Open # Setups
    BY DownloadsAssumption DEF DownloadsAssumption
  <2> QED BY <2>1, FS_Subset, FS_CardinalityType
<1>3. /\ IsFiniteSet(Paths) /\ Cardinality(Paths) <= Parts
      /\ IsFiniteSet(Installed) /\ Cardinality(Installed) <= Parts
      /\ IsFiniteSet(Streams) /\ Cardinality(Streams) <= Cardinality(Open)
  <2>1. IsFiniteSet(Paths) /\ Cardinality(Paths) <= Parts
    BY <1>1, ImageOfCalls
  <2>2. IsFiniteSet(Installed) /\ Cardinality(Installed) <= Parts
    BY <1>1, ImageOfCalls
  <2> HIDE DEF Open
  <2>3. IsFiniteSet(Streams) /\ Cardinality(Streams) <= Cardinality(Open)
    BY <1>2, ImageOfCalls
  <2> QED BY <2>1, <2>2, <2>3
<1>4. \A i : Named(i) => i \in (Paths \cup Installed) \cup Streams
  BY DEF Named
<1> DEFINE All == (Paths \cup Installed) \cup Streams
<1>5. IsFiniteSet(All) /\ Cardinality(All) < Cardinality(Setups) + 2 * Parts
  <2> HIDE DEF Paths, Installed, Streams, Open
  <2>1. /\ Cardinality(Paths) \in Nat /\ Cardinality(Installed) \in Nat /\ Cardinality(Streams) \in Nat
    BY <1>3, FS_CardinalityType
  <2>2. /\ IsFiniteSet(Paths \cup Installed)
        /\ Cardinality(Paths \cup Installed) \in Nat
        /\ Cardinality(Paths \cup Installed) <= 2 * Parts
    <3>1. /\ IsFiniteSet(Paths \cup Installed)
          /\ Cardinality(Paths \cup Installed) =
               Cardinality(Paths) + Cardinality(Installed) - Cardinality(Paths \cap Installed)
      BY <1>3, FS_Union
    <3>2. Cardinality(Paths \cap Installed) \in Nat /\ Cardinality(Paths \cup Installed) \in Nat
      BY <1>3, <3>1, FS_Intersection, FS_CardinalityType
    <3> QED BY <1>1, <1>3, <2>1, <3>1, <3>2
  <2>3. /\ IsFiniteSet(All)
        /\ Cardinality(All) = Cardinality(Paths \cup Installed) + Cardinality(Streams)
                                - Cardinality((Paths \cup Installed) \cap Streams)
    BY <1>3, <2>2, FS_Union
  <2>4. Cardinality((Paths \cup Installed) \cap Streams) \in Nat /\ Cardinality(All) \in Nat
    BY <2>2, <2>3, FS_Intersection, FS_CardinalityType
  <2> QED BY <1>1, <1>2, <1>3, <2>1, <2>2, <2>3, <2>4
<1> HIDE DEF All
<1>6. \E i \in Inodes : ~Named(i)
  <2> SUFFICES ASSUME \A i \in Inodes : Named(i) PROVE FALSE
    OBVIOUS
  <2>1. Inodes \in SUBSET All
    BY <1>4 DEF All
  <2>2. Cardinality(Inodes) <= Cardinality(All)
    BY <1>5, <2>1, FS_Subset
  <2>3. Cardinality(Inodes) = Cardinality(Setups) + 2 * Parts
    BY <1>1, <1>2, FS_Interval DEF Inodes
  <2>4. Cardinality(All) \in Nat
    BY <1>5, FS_CardinalityType
  <2> QED BY <1>1, <1>2, <1>5, <2>2, <2>3, <2>4
<1> QED BY <1>6 DEF Spare

LEMMA DownloadsStart == DownloadsInit => DownloadsInv
<1> SUFFICES ASSUME DownloadsInit PROVE DownloadsInv
  OBVIOUS
<1>1. Parts \in Nat \ {0} /\ Chunks \in Nat \ {0} /\ NoFile \notin Inodes
  BY DownloadsAssumption DEF DownloadsAssumption, NoFile, Inodes
<1>2. DownloadTypes
  BY <1>1 DEF DownloadsInit, DownloadTypes, Fetches, Empty, Fetching, Files
<1>3. Apart /\ \A f \in Files : PartInv(f)
  BY <1>1 DEF DownloadsInit, Apart, Names, PartInv, FetchesPart, Fetching, Whole, Ready, Files
<1> QED BY <1>2, <1>3 DEF DownloadsInv

LEMMA DownloadTypesStay == DownloadTypes /\ [DownloadsNext]_downloadVars => DownloadTypes'
<1> SUFFICES ASSUME DownloadTypes, [DownloadsNext]_downloadVars PROVE DownloadTypes'
  OBVIOUS
<1>n. Parts \in Nat \ {0} /\ Chunks \in Nat \ {0} /\ NoFile \notin Inodes
  BY DownloadsAssumption DEF DownloadsAssumption, NoFile, Inodes
\* A setup goes on with a fetch of the right form.
<1>f. ASSUME NEW s \in Setups, NEW r \in Fetches, FetchTo(s, r),
             r.pc \in {"stream", "finish"} => r.part \in Files /\ r.file \in Inodes,
             r.pc = "installed" => r.part = Parts + 1
      PROVE  /\ fetch' \in [Setups -> Fetches]
             /\ \A o \in Setups : /\ Fetching(o)' => fetch'[o].part \in Files /\ fetch'[o].file \in Inodes
                                  /\ fetch'[o].pc = "installed" => fetch'[o].part = Parts + 1
  BY <1>f DEF DownloadTypes, FetchTo, Fetching
<1>r. ASSUME NEW s \in Setups
      PROVE  /\ fetch[s] \in Fetches /\ fetch[s].part \in 1 .. Parts + 1
             /\ fetch[s].pc \in {"stream", "finish"} =>
                  fetch[s].part \in Files /\ fetch[s].file \in Inodes /\ fetch[s].part + 1 \in 1 .. Parts + 1
  BY <1>n DEF DownloadTypes, Fetching, Fetches, Files
<1>1. ASSUME NEW s \in Setups, PartReady(s) PROVE DownloadTypes'
  <2> DEFINE r == [fetch[s] EXCEPT !.pc = "next", !.part = @ + 1, !.from = "peer"]
  <2>a. fetch[s].part + 1 \in 1 .. Parts + 1
    BY <1>1, <1>n, <1>r DEF PartReady
  <2>1. r \in Fetches /\ r.pc = "next" /\ FetchTo(s, r)
    BY <1>1, <1>r, <2>a DEF PartReady, Fetches
  <2> HIDE DEF r
  <2> QED BY <1>1, <1>f, <2>1 DEF PartReady, DownloadTypes
<1>2. ASSUME NEW s \in Setups, SetupDone(s) PROVE DownloadTypes'
  <2> DEFINE r == [fetch[s] EXCEPT !.pc = "installed"]
  <2>1. r \in Fetches /\ r.pc = "installed" /\ FetchTo(s, r) /\ r.part = Parts + 1
    BY <1>2, <1>n, <1>r DEF SetupDone, Fetches
  <2> HIDE DEF r
  <2> QED BY <1>2, <1>f, <2>1 DEF SetupDone, DownloadTypes
<1>3. ASSUME NEW s \in Setups, NoPeer(s) PROVE DownloadTypes'
  <2> DEFINE r == [fetch[s] EXCEPT !.pc = "next", !.from = "publisher"]
  <2>1. r \in Fetches /\ r.pc = "next" /\ FetchTo(s, r)
    BY <1>3, <1>n, <1>r DEF NoPeer, Fetches
  <2> HIDE DEF r
  <2> QED BY <1>3, <1>f, <2>1 DEF NoPeer, DownloadTypes
<1>4. ASSUME NEW s \in Setups, OpenPart(s) PROVE DownloadTypes'
  <2> DEFINE i == IF partial[fetch[s].part] # NoFile THEN partial[fetch[s].part] ELSE Spare
             r == [fetch[s] EXCEPT !.pc = "stream", !.file = i, !.sent = 0, !.intact = TRUE]
  <2>1. fetch[s].part \in Files /\ ~Fetching(s)
    BY <1>4, <1>n, <1>r DEF OpenPart, Files, Fetching
  <2>2. i \in Inodes
    BY <2>1, SpareIsLeft DEF DownloadTypes
  <2> HIDE DEF i
  <2>a. 0 \in 0 .. Chunks /\ i \in Inodes \cup {NoFile} /\ TRUE \in BOOLEAN
    BY <1>n, <2>2
  <2>3. r \in Fetches /\ r.part \in Files /\ r.file \in Inodes /\ r.pc = "stream"
    BY <1>r, <2>1, <2>2, <2>a DEF Fetches
  <2>4. /\ FetchTo(s, r) /\ bytes' = [bytes EXCEPT ![i] = Empty] /\ length' = [length EXCEPT ![i] = 0]
        /\ partial' = [partial EXCEPT ![fetch[s].part] = i] /\ final' = final
    BY <1>4 DEF OpenPart, i
  <2> HIDE DEF r
  <2>5. bytes' \in [Inodes -> [1 .. Chunks -> {"hole", "good", "bad"}]] /\ length' \in [Inodes -> 0 .. Chunks]
    BY <1>n, <2>2, <2>4 DEF DownloadTypes, Empty
  <2> QED BY <1>f, <2>1, <2>2, <2>3, <2>4, <2>5 DEF DownloadTypes
<1>5. ASSUME NEW s \in Setups, Receive(s) PROVE DownloadTypes'
  <2>1. PICK b \in {"good", "bad"} :
          /\ bytes' = [bytes EXCEPT ![fetch[s].file][fetch[s].sent + 1] = b]
          /\ FetchTo(s, [fetch[s] EXCEPT !.sent = @ + 1, !.intact = @ /\ b = "good"])
    BY <1>5 DEF Receive
  <2> DEFINE r == [fetch[s] EXCEPT !.sent = @ + 1, !.intact = @ /\ b = "good"]
  <2>2. /\ fetch[s].pc = "stream" /\ fetch[s].sent \in 0 .. Chunks /\ fetch[s].sent + 1 \in 1 .. Chunks
        /\ fetch[s].intact \in BOOLEAN
    BY <1>5, <1>n, <1>r DEF Receive, Fetches
  <2>a. fetch[s].sent + 1 \in 0 .. Chunks /\ (fetch[s].intact /\ b = "good") \in BOOLEAN
    BY <1>n, <2>2
  <2>3. r \in Fetches /\ r.part \in Files /\ r.file \in Inodes /\ r.pc = "stream"
    BY <1>r, <2>2, <2>a DEF Fetches
  <2> HIDE DEF r
  <2>4. bytes' \in [Inodes -> [1 .. Chunks -> {"hole", "good", "bad"}]]
    BY <1>r, <2>1, <2>2 DEF DownloadTypes
  <2>5. length' \in [Inodes -> 0 .. Chunks]
    BY <1>5, <1>n, <1>r, <2>2 DEF Receive, DownloadTypes
  <2> QED BY <1>5, <1>f, <2>1, <2>3, <2>4, <2>5 DEF Receive, DownloadTypes, r
<1>6. ASSUME NEW s \in Setups, StreamEnds(s) PROVE DownloadTypes'
  <2> DEFINE r == [fetch[s] EXCEPT !.pc = "finish"]
  <2>1. r \in Fetches /\ r.pc = "finish" /\ r.part \in Files /\ r.file \in Inodes /\ FetchTo(s, r)
    BY <1>6, <1>n, <1>r DEF StreamEnds, Fetches
  <2> HIDE DEF r
  <2> QED BY <1>6, <1>f, <2>1 DEF StreamEnds, DownloadTypes
<1>a. ASSUME NEW s \in Setups PROVE Failed(s) \in Fetches /\ Failed(s).pc \in {"next", "failed"}
  BY <1>r DEF Failed, Fetches
<1>7. ASSUME NEW s \in Setups, Discard(s) PROVE DownloadTypes'
  <2>1. partial' \in [Files -> Inodes \cup {NoFile}]
    BY <1>7 DEF Discard, DownloadTypes
  <2> QED BY <1>7, <1>a, <1>f, <2>1 DEF Discard, DownloadTypes
<1>8. ASSUME NEW s \in Setups, Install(s) PROVE DownloadTypes'
  <2> DEFINE r == IF partial[fetch[s].part] # NoFile
                  THEN [fetch[s] EXCEPT !.pc = "next", !.part = @ + 1, !.from = "peer", !.file = NoFile]
                  ELSE Failed(s)
  <2>1. fetch[s].part \in Files /\ fetch[s].part + 1 \in 1 .. Parts + 1
    BY <1>8, <1>r DEF Install, Rename
  <2>2. r \in Fetches /\ r.pc \in {"next", "failed"}
    BY <1>a, <1>r, <2>1 DEF Fetches
  <2>3. FetchTo(s, r)
    BY <1>8 DEF Install, Rename
  <2> HIDE DEF r
  <2>4. partial' \in [Files -> Inodes \cup {NoFile}] /\ final' \in [Files -> Inodes \cup {NoFile}]
    BY <1>8, <2>1 DEF Install, Rename, DownloadTypes
  <2> QED BY <1>8, <1>f, <2>2, <2>3, <2>4 DEF Install, Rename, DownloadTypes
<1>9. ASSUME DownloadsCrash PROVE DownloadTypes'
  <2>1. \A s \in Setups : [fetch[s] EXCEPT !.pc = "failed", !.file = NoFile] \in Fetches
    BY <1>r DEF Fetches
  <2>2. fetch' = [s \in Setups |-> IF Fetching(s) \/ fetch[s].pc = "next"
                                   THEN [fetch[s] EXCEPT !.pc = "failed", !.file = NoFile]
                                   ELSE fetch[s]]
    BY <1>9 DEF DownloadsCrash
  <2>3. /\ fetch' \in [Setups -> Fetches]
        /\ \A s \in Setups : /\ ~(fetch'[s].pc \in {"stream", "finish"})
                             /\ fetch'[s].pc = "installed" => fetch'[s] = fetch[s]
    BY <2>1, <2>2 DEF DownloadTypes, Fetching, Fetches
  <2>4. partial' \in [Files -> Inodes \cup {NoFile}]
    BY <1>9 DEF DownloadsCrash, DownloadTypes
  <2> QED BY <1>9, <2>3, <2>4 DEF DownloadsCrash, DownloadTypes, Fetching
<1>10. ASSUME UNCHANGED downloadVars PROVE DownloadTypes'
  BY <1>10 DEF downloadVars, DownloadTypes, Fetching
<1> QED BY <1>1, <1>2, <1>3, <1>4, <1>5, <1>6, <1>7, <1>8, <1>9, <1>10 DEF DownloadsNext

\* No step makes two parts name one file: only OpenPart makes a part name another, a spare one.
LEMMA ApartStays == DownloadTypes /\ Apart /\ [DownloadsNext]_downloadVars => Apart'
<1> SUFFICES ASSUME DownloadTypes, Apart, [DownloadsNext]_downloadVars PROVE Apart'
  OBVIOUS
<1>n. NoFile \notin Inodes /\ DownloadTypes'
  BY DownloadTypesStay DEF NoFile, Inodes
<1>r. \A s \in Setups : fetch[s] \in Fetches /\ \A r : FetchTo(s, r) => fetch'[s] = r
  BY DEF DownloadTypes, FetchTo
<1>1. ASSUME \A f \in Files, i \in Inodes : Names(f, i)' => Names(f, i) PROVE Apart'
  BY <1>1 DEF Apart
<1>2. ASSUME NEW s \in Setups, UNCHANGED <<partial, final>>,
             \A o \in Setups \ {s} : fetch'[o] = fetch[o],
             \/ fetch'[s].pc \notin {"stream", "finish"}
             \/ /\ Fetching(s) /\ fetch'[s].part = fetch[s].part /\ fetch'[s].file = fetch[s].file
      PROVE  Apart'
  <2>1. \A f \in Files, o \in Setups :
          FetchesPart(o, f)' => FetchesPart(o, f) /\ fetch'[o].file = fetch[o].file
    BY <1>2 DEF FetchesPart, Fetching
  <2> QED BY <1>1, <1>2, <2>1 DEF Names
<1>3. ASSUME NEW s \in Setups, PartReady(s) \/ SetupDone(s) \/ NoPeer(s) PROVE Apart'
  <2>1. \A o \in Setups \ {s} : fetch'[o] = fetch[o]
    BY <1>3 DEF PartReady, SetupDone, NoPeer, FetchTo, DownloadTypes
  <2>2. fetch'[s].pc \notin {"stream", "finish"}
    <3>1. fetch[s] \in Fetches
      BY <1>r
    <3>2. \/ fetch'[s] = [fetch[s] EXCEPT !.pc = "next", !.part = @ + 1, !.from = "peer"]
          \/ fetch'[s] = [fetch[s] EXCEPT !.pc = "installed"]
          \/ fetch'[s] = [fetch[s] EXCEPT !.pc = "next", !.from = "publisher"]
      BY <1>3, <1>r DEF PartReady, SetupDone, NoPeer
    <3> QED BY <3>1, <3>2 DEF Fetches
  <2> QED BY <1>2, <1>3, <2>1, <2>2 DEF PartReady, SetupDone, NoPeer
<1>4. ASSUME NEW s \in Setups, Receive(s) \/ StreamEnds(s) PROVE Apart'
  <2>1. /\ \A o \in Setups \ {s} : fetch'[o] = fetch[o]
        /\ Fetching(s) /\ fetch'[s].part = fetch[s].part /\ fetch'[s].file = fetch[s].file
        /\ UNCHANGED <<partial, final>>
    <3>1. PICK r : /\ FetchTo(s, r)
                   /\ \/ r = [fetch[s] EXCEPT !.pc = "finish"]
                      \/ \E b : r = [fetch[s] EXCEPT !.sent = @ + 1, !.intact = @ /\ b = "good"]
      BY <1>4 DEF Receive, StreamEnds
    <3>2. fetch'[s] = r /\ fetch[s] \in Fetches
      BY <1>r, <3>1
    <3>3. fetch'[s].pc \in {fetch[s].pc, "finish"} /\ fetch'[s].part = fetch[s].part
          /\ fetch'[s].file = fetch[s].file
      BY <3>1, <3>2 DEF Fetches
    <3>4. \A o \in Setups \ {s} : fetch'[o] = fetch[o]
      BY <3>1 DEF FetchTo, DownloadTypes
    <3> QED BY <1>4, <3>3, <3>4 DEF Receive, StreamEnds, Fetching
  <2> QED BY <1>2, <2>1
<1>5. ASSUME NEW s \in Setups, Discard(s) PROVE Apart'
  <2>1. \A o \in Setups \ {s} : fetch'[o] = fetch[o]
    BY <1>5 DEF Discard, FetchTo, DownloadTypes
  <2>2. ~Fetching(s)'
    BY <1>5 DEF Discard, FetchTo, Failed, DownloadTypes, Fetches, Fetching
  <2>3. \A f \in Files : partial'[f] \in {partial[f], NoFile} /\ final'[f] = final[f]
    BY <1>5 DEF Discard, DownloadTypes
  <2> QED BY <1>1, <1>n, <2>1, <2>2, <2>3 DEF Names, FetchesPart, Fetching
<1>6. ASSUME NEW s \in Setups, Install(s) PROVE Apart'
  <2>1. \A o \in Setups \ {s} : fetch'[o] = fetch[o]
    BY <1>6 DEF Install, Rename, FetchTo, DownloadTypes
  <2>2. ~Fetching(s)'
    BY <1>6 DEF Install, Rename, FetchTo, Failed, DownloadTypes, Fetches, Fetching
  <2>3. \A f \in Files : partial'[f] \in {partial[f], NoFile} /\ final'[f] \in {partial[f], final[f]}
    BY <1>6 DEF Install, Rename, DownloadTypes
  <2> QED BY <1>1, <1>n, <2>1, <2>2, <2>3 DEF Names, FetchesPart, Fetching
<1>7. ASSUME NEW s \in Setups, OpenPart(s) PROVE Apart'
  <2> DEFINE g == fetch[s].part
             k == IF partial[g] # NoFile THEN partial[g] ELSE Spare
  <2>1. /\ ~Fetching(s) /\ g \in Files /\ fetch'[s].part = g /\ fetch'[s].file = k
        /\ \A o \in Setups \ {s} : fetch'[o] = fetch[o]
        /\ partial' = [partial EXCEPT ![g] = k] /\ final' = final
    BY <1>7, DownloadsAssumption
       DEF OpenPart, FetchTo, DownloadTypes, Fetches, Fetching, Files, DownloadsAssumption
  <2>2. Names(g, k) \/ ~Named(k)
    BY <2>1, SpareIsLeft DEF Names
  <2> HIDE DEF g, k
  <2>3. \A f \in Files, i \in Inodes : Names(f, i)' => Names(f, i) \/ (f = g /\ i = k)
    BY <2>1 DEF Names, FetchesPart, Fetching, DownloadTypes
  <2>4. \A f \in Files, i \in Inodes : Names(f, i) => Named(i)
    BY DEF Names, Named, FetchesPart
  <2> QED BY <2>1, <2>2, <2>3, <2>4 DEF Apart
<1>8. ASSUME DownloadsCrash PROVE Apart'
  <2>1. \A s \in Setups : ~Fetching(s)'
    BY <1>8 DEF DownloadsCrash, Fetching, DownloadTypes, Fetches
  <2>2. \A f \in Files : partial'[f] \in {partial[f], NoFile} /\ final'[f] = final[f]
    BY <1>8 DEF DownloadsCrash
  <2> QED BY <1>1, <1>n, <2>1, <2>2 DEF Names, FetchesPart
<1>9. ASSUME UNCHANGED downloadVars PROVE Apart'
  BY <1>1, <1>9 DEF downloadVars, Names, FetchesPart, Fetching
<1> QED BY <1>3, <1>4, <1>5, <1>6, <1>7, <1>8, <1>9 DEF DownloadsNext

\* A step that leaves what a part names, and what these files hold, and lets no setup go past the
\* part unless it is installed.
LEMMA OtherParts ==
  ASSUME DownloadTypes, NEW f \in Files, PartInv(f),
         partial'[f] = partial[f], final'[f] = final[f],
         \A i \in Inodes : Names(f, i) => bytes'[i] = bytes[i] /\ length'[i] = length[i],
         \A s \in Setups : FetchesPart(s, f)' =>
           /\ FetchesPart(s, f) /\ fetch'[s].file = fetch[s].file
           /\ fetch'[s].sent = fetch[s].sent /\ fetch'[s].intact = fetch[s].intact,
         \A s \in Setups : f < fetch'[s].part => f < fetch[s].part \/ Ready(f)
  PROVE  PartInv(f)'
<1>1. final[f] # NoFile => bytes'[final[f]] = bytes[final[f]] /\ length'[final[f]] = length[final[f]]
  BY DEF DownloadTypes, Names
<1>2. (Ready(f)' <=> Ready(f)) /\ Whole(f)'
  BY <1>1 DEF PartInv, Ready, Whole
<1>3. \A s \in Setups : FetchesPart(s, f) =>
        bytes'[fetch[s].file] = bytes[fetch[s].file] /\ length'[fetch[s].file] = length[fetch[s].file]
  BY DEF Names, DownloadTypes, FetchesPart
<1>4. \A s, o \in Setups : FetchesPart(s, f)' /\ FetchesPart(o, f)' => s = o
  BY DEF PartInv
<1>5. ASSUME NEW s \in Setups, FetchesPart(s, f)'
      PROVE  /\ fetch'[s].file = partial'[f] /\ length'[fetch'[s].file] = fetch'[s].sent
             /\ fetch'[s].intact => \A c \in 1 .. fetch'[s].sent : bytes'[fetch'[s].file][c] = "good"
  BY <1>3, <1>5 DEF PartInv
<1>6. (partial[f] # NoFile => partial[f] # final[f])'
  BY DEF PartInv
<1>7. \A s \in Setups : f < fetch'[s].part => Ready(f)'
  BY <1>2 DEF PartInv
<1> QED BY <1>2, <1>4, <1>5, <1>6, <1>7 DEF PartInv

LEMMA PartsStayWhole ==
  DownloadsInv /\ [DownloadsNext]_downloadVars => \A f \in Files \ shared' : PartInv(f)'
<1> SUFFICES ASSUME DownloadsInv, [DownloadsNext]_downloadVars, NEW f \in Files, f \notin shared'
             PROVE  PartInv(f)'
  OBVIOUS
<1>a. DownloadTypes /\ Apart /\ DownloadTypes'
  BY DownloadTypesStay DEF DownloadsInv
<1>b. f \notin shared
  BY DEF DownloadsNext, PartReady, SetupDone, NoPeer, OpenPart, Receive, StreamEnds, Discard, Install,
         Rename, DownloadsCrash, downloadVars
<1>c. PartInv(f)
  BY <1>b DEF DownloadsInv
<1>n. NoFile \notin Inodes /\ Parts \in Nat \ {0} /\ Chunks \in Nat \ {0} /\ f \in Int
  BY DownloadsAssumption DEF NoFile, Inodes, DownloadsAssumption, Files
<1>r. \A s \in Setups : /\ fetch[s] \in Fetches /\ fetch[s].part \in Int /\ fetch[s].sent \in Nat
                        /\ fetch[s].sent <= Chunks
  BY <1>a, <1>n DEF DownloadTypes, Fetches
<1>t. \A s \in Setups : \A r : FetchTo(s, r) => fetch'[s] = r
  BY <1>a DEF DownloadTypes, FetchTo
\* Steps that go on to a part, or past one that is installed.
<1>1. ASSUME NEW s \in Setups, PartReady(s) \/ SetupDone(s) \/ NoPeer(s) PROVE PartInv(f)'
  <2>1. /\ UNCHANGED <<bytes, length, partial, final>>
        /\ \A o \in Setups \ {s} : fetch'[o] = fetch[o]
    BY <1>1, <1>a DEF PartReady, SetupDone, NoPeer, FetchTo, DownloadTypes
  <2>3. ~Fetching(s)'
    BY <1>1, <1>r, <1>t DEF PartReady, SetupDone, NoPeer, Fetches, Fetching
  <2>2. f < fetch'[s].part => f < fetch[s].part \/ Ready(f)
    <3>1. CASE PartReady(s)
      <4>1. fetch'[s].part = fetch[s].part + 1 /\ Ready(fetch[s].part)
        BY <1>a, <3>1 DEF PartReady, FetchTo, DownloadTypes, Fetches
      <4> QED BY <1>n, <1>r, <4>1
    <3>2. CASE SetupDone(s)
      <4>1. fetch'[s] = [fetch[s] EXCEPT !.pc = "installed"]
        BY <1>t, <3>2 DEF SetupDone
      <4> QED BY <1>r, <4>1 DEF Fetches
    <3>3. CASE NoPeer(s)
      <4>1. fetch'[s] = [fetch[s] EXCEPT !.pc = "next", !.from = "publisher"]
        BY <1>t, <3>3 DEF NoPeer
      <4> QED BY <1>r, <4>1 DEF Fetches
    <3> QED BY <1>1, <3>1, <3>2, <3>3
  <2> QED BY <1>a, <1>c, <2>1, <2>2, <2>3, OtherParts DEF FetchesPart, Fetching
<1>2. ASSUME NEW s \in Setups, StreamEnds(s) PROVE PartInv(f)'
  <2>1. /\ UNCHANGED <<bytes, length, partial, final>>
        /\ \A o \in Setups \ {s} : fetch'[o] = fetch[o]
        /\ Fetching(s) /\ fetch'[s] = [fetch[s] EXCEPT !.pc = "finish"]
    BY <1>2, <1>a DEF StreamEnds, FetchTo, DownloadTypes, Fetching
  <2>2. /\ fetch'[s].part = fetch[s].part /\ fetch'[s].file = fetch[s].file
        /\ fetch'[s].sent = fetch[s].sent /\ fetch'[s].intact = fetch[s].intact
    BY <1>r, <2>1 DEF Fetches
  <2> QED BY <1>a, <1>c, <2>1, <2>2, OtherParts DEF FetchesPart, Fetching
\* The fetch of f begins, with an empty file that is not the installed one.
<1>3. ASSUME NEW s \in Setups, OpenPart(s) PROVE PartInv(f)'
  <2> DEFINE g == fetch[s].part
             k == IF partial[g] # NoFile THEN partial[g] ELSE Spare
  <2>1. /\ ~Fetching(s) /\ g \in Files /\ fetch'[s].part = g /\ fetch'[s].file = k
        /\ fetch'[s].sent = 0
        /\ \A o \in Setups \ {s} : fetch'[o] = fetch[o]
        /\ partial' = [partial EXCEPT ![g] = k] /\ final' = final
        /\ bytes' = [bytes EXCEPT ![k] = Empty] /\ length' = [length EXCEPT ![k] = 0]
    BY <1>3, <1>a, <1>n DEF OpenPart, FetchTo, DownloadTypes, Fetches, Fetching, Files
  <2>2. k \in Inodes /\ (Names(g, k) \/ ~Named(k)) /\ (partial[g] = NoFile => ~Named(k))
    BY <1>a, <2>1, SpareIsLeft DEF Names, DownloadTypes
  <2>9. (partial[g] # NoFile => k = partial[g]) /\ (g = f /\ Others(s, f) # {} => f \in shared')
    BY <1>3 DEF OpenPart
  <2> HIDE DEF g, k
  <2>3. \A h \in Files, i \in Inodes : Names(h, i) => Named(i)
    BY DEF Names, Named, FetchesPart
  <2>4. CASE g = f
    <3>1. \A o \in Setups : ~FetchesPart(o, f)
      BY <2>1, <2>4, <2>9 DEF Others, FetchesPart
    <3>2. \A o \in Setups : FetchesPart(o, f)' => o = s
      BY <2>1, <3>1 DEF FetchesPart, Fetching
    <3>3. k # final[f]
      <4>1. CASE partial[f] # NoFile
        BY <1>c, <2>4, <2>9, <4>1 DEF PartInv
      <4>2. CASE partial[f] = NoFile
        BY <2>2, <2>4, <4>2 DEF Named
      <4> QED BY <4>1, <4>2
    <3>4. final[f] # NoFile => bytes'[final[f]] = bytes[final[f]] /\ length'[final[f]] = length[final[f]]
      BY <1>a, <2>1, <3>3 DEF DownloadTypes
    <3>5. (Ready(f)' <=> Ready(f)) /\ Whole(f)'
      BY <1>c, <2>1, <3>4 DEF PartInv, Ready, Whole
    <3>6. partial'[f] = k /\ length'[k] = 0
      BY <1>a, <2>1, <2>2, <2>4 DEF DownloadTypes
    <3>7. \A o \in Setups : f < fetch'[o].part => Ready(f)'
      <4>1. \A o \in Setups : fetch'[o].part = fetch[o].part
        BY <2>1 DEF g
      <4> QED BY <1>c, <3>5, <4>1 DEF PartInv
    <3> QED BY <2>1, <3>2, <3>3, <3>5, <3>6, <3>7 DEF PartInv
  <2>5. CASE g # f
    <3>1. ~Names(f, k)
      BY <1>a, <2>1, <2>2, <2>3, <2>5 DEF Apart
    <3>2. \A i \in Inodes : Names(f, i) => bytes'[i] = bytes[i] /\ length'[i] = length[i]
      BY <1>a, <2>1, <3>1 DEF DownloadTypes
    <3>3. partial'[f] = partial[f] /\ final'[f] = final[f]
      BY <1>a, <2>1, <2>5 DEF DownloadTypes
    <3>4. \A o \in Setups : FetchesPart(o, f)' => o # s /\ FetchesPart(o, f)
      BY <2>1, <2>5 DEF FetchesPart, Fetching
    <3>5. \A o \in Setups : fetch'[o].part = fetch[o].part
      BY <2>1 DEF g
    <3> QED BY <1>a, <1>c, <2>1, <3>2, <3>3, <3>4, <3>5, OtherParts
  <2> QED BY <2>4, <2>5
\* What is written is what was hashed.
<1>4. ASSUME NEW s \in Setups, Receive(s) PROVE PartInv(f)'
  <2> DEFINE g == fetch[s].part
             k == fetch[s].file
             n == fetch[s].sent
  <2>1. PICK b \in {"good", "bad"} :
          /\ bytes' = [bytes EXCEPT ![k][n + 1] = b]
          /\ FetchTo(s, [fetch[s] EXCEPT !.sent = @ + 1, !.intact = @ /\ b = "good"])
    BY <1>4 DEF Receive
  <2>a. fetch'[s] = [fetch[s] EXCEPT !.sent = @ + 1, !.intact = @ /\ b = "good"]
    BY <1>t, <2>1
  <2>b. /\ fetch'[s].part = g /\ fetch'[s].file = k /\ fetch'[s].sent = n + 1
        /\ fetch'[s].intact = (fetch[s].intact /\ b = "good") /\ fetch'[s].pc = fetch[s].pc
    BY <1>r, <2>a DEF Fetches
  <2>c. Fetching(s) /\ g \in Files /\ k \in Inodes /\ n \in Nat /\ n < Chunks
    BY <1>4, <1>a, <1>n, <1>r DEF Receive, DownloadTypes, Fetching
  <2>d. \A o \in Setups \ {s} : fetch'[o] = fetch[o]
    BY <1>a, <2>1 DEF FetchTo, DownloadTypes
  <2>2. /\ Fetching(s) /\ g \in Files /\ k \in Inodes /\ n \in Nat /\ n < Chunks
        /\ fetch'[s].part = g /\ fetch'[s].file = k /\ fetch'[s].sent = n + 1
        /\ fetch'[s].intact = (fetch[s].intact /\ b = "good")
        /\ \A o \in Setups \ {s} : fetch'[o] = fetch[o]
    BY <2>b, <2>c, <2>d
  <2>3. /\ length' = [length EXCEPT ![k] = IF length[k] > n + 1 THEN length[k] ELSE n + 1]
        /\ UNCHANGED <<partial, final>>
    BY <1>4 DEF Receive
  <2>4. FetchesPart(s, g)
    BY <2>2 DEF FetchesPart
  <2> HIDE DEF g, k, n
  <2>5. CASE g = f
    <3>1. k = partial[f] /\ k # final[f] /\ length[k] = n
      BY <1>c, <1>n, <2>2, <2>4, <2>5 DEF PartInv, k, n
    <3>2. final[f] # NoFile => bytes'[final[f]] = bytes[final[f]] /\ length'[final[f]] = length[final[f]]
      BY <1>a, <2>1, <2>3, <3>1 DEF DownloadTypes
    <3>3. (Ready(f)' <=> Ready(f)) /\ Whole(f)'
      BY <1>c, <2>3, <3>2 DEF PartInv, Ready, Whole
    <3>4. length'[k] = n + 1
      BY <1>a, <2>2, <2>3, <3>1 DEF DownloadTypes
    <3>5. fetch'[s].intact => \A c \in 1 .. n + 1 : bytes'[k][c] = "good"
      <4> SUFFICES ASSUME fetch'[s].intact, NEW c \in 1 .. n + 1 PROVE bytes'[k][c] = "good"
        OBVIOUS
      <4>1. fetch[s].intact /\ b = "good"
        BY <2>2
      <4>2. bytes[k] \in [1 .. Chunks -> {"hole", "good", "bad"}]
            /\ bytes'[k] = [bytes[k] EXCEPT ![n + 1] = b]
        BY <1>a, <2>1, <2>2 DEF DownloadTypes
      <4>3. CASE c = n + 1
        BY <1>n, <2>2, <4>1, <4>2, <4>3
      <4>4. CASE c # n + 1
        <5>1. c \in 1 .. n /\ c \in 1 .. Chunks
          BY <1>n, <2>2, <4>4
        <5>2. bytes[k][c] = "good"
          BY <1>c, <2>4, <2>5, <4>1, <5>1 DEF PartInv, k, n
        <5> QED BY <4>2, <4>4, <5>1, <5>2
      <4> QED BY <4>3, <4>4
    <3>6. \A o \in Setups : FetchesPart(o, f)' => o = s
      BY <1>c, <2>2, <2>4, <2>5 DEF PartInv, FetchesPart, Fetching
    <3>7. \A o \in Setups : f < fetch'[o].part => Ready(f)'
      <4>1. \A o \in Setups : fetch'[o].part = fetch[o].part
        BY <2>2 DEF g
      <4> QED BY <1>c, <3>3, <4>1 DEF PartInv
    <3> QED BY <2>2, <2>3, <3>1, <3>3, <3>4, <3>5, <3>6, <3>7 DEF PartInv
  <2>6. CASE g # f
    <3>1. ~Names(f, k)
      <4>1. Names(g, k)
        BY <2>4 DEF Names, k
      <4> QED BY <1>a, <2>2, <2>6, <4>1 DEF Apart
    <3>2. \A i \in Inodes : Names(f, i) => bytes'[i] = bytes[i] /\ length'[i] = length[i]
      BY <1>a, <2>1, <2>3, <3>1 DEF DownloadTypes
    <3>3. \A o \in Setups : FetchesPart(o, f)' => o # s /\ FetchesPart(o, f)
      BY <2>2, <2>6 DEF FetchesPart, Fetching
    <3>4. \A o \in Setups : fetch'[o].part = fetch[o].part
      BY <2>2 DEF g
    <3> QED BY <1>a, <1>c, <2>2, <2>3, <3>2, <3>3, <3>4, OtherParts
  <2> QED BY <2>5, <2>6
<1>f. ASSUME NEW s \in Setups
      PROVE  Failed(s).pc \in {"next", "failed"} /\ Failed(s).part = fetch[s].part
  BY <1>r DEF Failed, Fetches
<1>5. ASSUME NEW s \in Setups, Discard(s) PROVE PartInv(f)'
  <2> DEFINE g == fetch[s].part
  <2>1. /\ Fetching(s) /\ g \in Files /\ fetch'[s] = Failed(s)
        /\ \A o \in Setups \ {s} : fetch'[o] = fetch[o]
        /\ partial' = [partial EXCEPT ![g] = NoFile] /\ UNCHANGED <<bytes, length, final>>
    BY <1>5, <1>a DEF Discard, FetchTo, DownloadTypes, Fetching
  <2>2. ~Fetching(s)' /\ \A o \in Setups : fetch'[o].part = fetch[o].part
    BY <1>f, <2>1 DEF Fetching
  <2>3. FetchesPart(s, g)
    BY <2>1 DEF FetchesPart
  <2>4. partial'[g] = NoFile /\ (f # g => partial'[f] = partial[f])
    BY <1>a, <2>1 DEF DownloadTypes
  <2> HIDE DEF g
  <2>5. CASE g = f
    <3>1. \A o \in Setups : ~FetchesPart(o, f)'
      BY <1>c, <2>1, <2>2, <2>3, <2>5 DEF PartInv, FetchesPart, Fetching
    <3>2. (Ready(f)' <=> Ready(f)) /\ Whole(f)'
      BY <1>c, <2>1 DEF PartInv, Ready, Whole
    <3> QED BY <1>c, <2>2, <2>4, <2>5, <3>1, <3>2 DEF PartInv
  <2>6. CASE g # f
    <3>1. \A o \in Setups : FetchesPart(o, f)' => o # s /\ FetchesPart(o, f)
      BY <2>1, <2>2 DEF FetchesPart, Fetching
    <3> QED BY <1>a, <1>c, <2>1, <2>2, <2>4, <2>6, <3>1, OtherParts
  <2> QED BY <2>5, <2>6
\* The file that is renamed is the one whose bytes were verified.
<1>6. ASSUME NEW s \in Setups, Install(s) PROVE PartInv(f)'
  <2> DEFINE g == fetch[s].part
             r == IF partial[g] # NoFile
                  THEN [fetch[s] EXCEPT !.pc = "next", !.part = @ + 1, !.from = "peer", !.file = NoFile]
                  ELSE Failed(s)
  <2>1. /\ Fetching(s) /\ g \in Files /\ fetch'[s] = r /\ Verified(s)
        /\ \A o \in Setups \ {s} : fetch'[o] = fetch[o]
        /\ partial' = [partial EXCEPT ![g] = NoFile] /\ final' = [final EXCEPT ![g] = partial[g]]
        /\ UNCHANGED <<bytes, length>>
    BY <1>6, <1>a DEF Install, Rename, FetchTo, DownloadTypes, Fetching
  <2>2. r.pc \in {"next", "failed"} /\ r.part \in {g, g + 1}
    BY <1>f, <1>r DEF Fetches
  <2>3. FetchesPart(s, g) /\ g \in Int
    BY <1>r, <2>1 DEF FetchesPart
  <2>4. /\ partial'[g] = NoFile /\ final'[g] = partial[g]
        /\ f # g => partial'[f] = partial[f] /\ final'[f] = final[f]
    BY <1>a, <2>1 DEF DownloadTypes
  <2>5. ~Fetching(s)' /\ \A o \in Setups \ {s} : fetch'[o].part = fetch[o].part
    BY <2>1, <2>2 DEF Fetching
  <2>6. fetch'[s].part \in {g, g + 1}
    BY <2>1, <2>2
  <2> HIDE DEF r
  <2>7. CASE g = f
    <3>1. \A o \in Setups : ~FetchesPart(o, f)'
      BY <1>c, <2>1, <2>3, <2>5, <2>7 DEF PartInv, FetchesPart, Fetching
    <3>2. /\ partial[f] = fetch[s].file /\ fetch[s].file \in Inodes
          /\ length[partial[f]] = Chunks /\ \A c \in 1 .. Chunks : bytes[partial[f]][c] = "good"
      BY <1>a, <1>c, <2>1, <2>3, <2>7 DEF PartInv, Verified, Complete, DownloadTypes
    <3>3. Ready(f)' /\ Whole(f)'
      BY <1>n, <2>1, <2>4, <2>7, <3>2 DEF Ready, Whole
    <3> QED BY <2>4, <2>7, <3>1, <3>3 DEF PartInv
  <2>8. CASE g # f
    <3>1. \A o \in Setups : FetchesPart(o, f)' => o # s /\ FetchesPart(o, f)
      BY <2>1, <2>5 DEF FetchesPart, Fetching
    <3>2. f < fetch'[s].part => f < fetch[s].part
      BY <1>n, <2>3, <2>6, <2>8
    <3> HIDE DEF g
    <3> QED BY <1>a, <1>c, <2>1, <2>4, <2>5, <2>8, <3>1, <3>2, OtherParts
  <2> QED BY <2>7, <2>8
<1>7. ASSUME DownloadsCrash PROVE PartInv(f)'
  <2>1. /\ \A s \in Setups : ~Fetching(s)' /\ fetch'[s].part = fetch[s].part
        /\ partial'[f] \in {partial[f], NoFile} /\ UNCHANGED <<bytes, length, final>>
    BY <1>7, <1>r DEF DownloadsCrash, Fetching, Fetches
  <2>2. (Ready(f)' <=> Ready(f)) /\ Whole(f)'
    BY <1>c, <2>1 DEF PartInv, Ready, Whole
  <2> QED BY <1>c, <2>1, <2>2 DEF PartInv, FetchesPart
<1>8. ASSUME UNCHANGED downloadVars PROVE PartInv(f)'
  BY <1>c, <1>8 DEF downloadVars, PartInv, FetchesPart, Fetching, Whole, Ready
<1> QED BY <1>1, <1>2, <1>3, <1>4, <1>5, <1>6, <1>7, <1>8 DEF DownloadsNext

\* For any number of setups, files and chunks, whatever peers send and wherever the process stops:
\* what looks installed is the model, and a setup that succeeded leaves every part in place, as
\* long as no two setups fetch a part at the same time.
THEOREM DownloadsAreVerified == DownloadsSpec => []InstalledIsVerified
<1>1. DownloadsInv /\ [DownloadsNext]_downloadVars => DownloadsInv'
  BY DownloadTypesStay, ApartStays, PartsStayWhole DEF DownloadsInv
<1>2. DownloadsInv => InstalledIsVerified
  <2> SUFFICES ASSUME DownloadsInv, NEW f \in Files \ shared
               PROVE  Whole(f) /\ ((\E s \in Setups : fetch[s].pc = "installed") => Ready(f))
    BY DEF InstalledIsVerified
  <2>1. PartInv(f) /\ f < Parts + 1
    BY DownloadsAssumption DEF DownloadsInv, DownloadsAssumption, Files
  <2> QED BY <2>1 DEF DownloadsInv, DownloadTypes, PartInv
<1> QED BY <1>1, <1>2, DownloadsStart, PTL DEF DownloadsSpec

-----------------------------------------------------------------------------
(* MediaJobs: one work of a kind at a time, and what was deleted stays so *)

\* A picture that is made is the current one, and so is its child; what its user deleted has no
\* child that could still make a file, and its end writes nothing.
ImageInv(i) ==
  /\ work[i] \in {"no", "runs", "over"}
  /\ work[i] = "runs" => image.busy /\ image.running = i /\ image.proc = i
  /\ process[i] # "none" => work[i] = "runs"
  /\ work[i] = "no" => gallery[i] = "none" /\ i \notin deleted
  /\ i \in deleted => /\ gallery[i] = "none" /\ i \notin files /\ process[i] # "alive"
                      /\ work[i] = "runs" => i \in image.cancelled
\* The same of a clip, whose sound goes on after its last child.
ClipInv(v) ==
  /\ GoesOn(v) => clip.busy /\ clip.running = v
  /\ work[v] = "runs" => clip.proc = v
  /\ process[v] = "alive" => work[v] = "runs"
  /\ work[v] = "no" => gallery[v] = "none" /\ v \notin deleted
  /\ v \in deleted => /\ gallery[v] = "none" /\ v \notin files /\ process[v] # "alive"
                      /\ GoesOn(v) => v \in clip.cancelled

MediaInv ==
  /\ MediaTypeOK
  /\ late \cap Images = {} => \A i \in Images : ImageInv(i)
  /\ late \cap Clips = {} => \A v \in Clips : ClipInv(v)

LEMMA MediaStarts == MediaInit => MediaInv
<1> SUFFICES ASSUME MediaInit PROVE MediaInv
  OBVIOUS
<1>1. MediaTypeOK
  BY MediaAssumption DEF MediaAssumption, MediaInit, MediaTypeOK, SlotType, NoWork, Items
<1>2. \A i \in Images : ImageInv(i)
  BY DEF MediaInit, ImageInv, Items
<1>3. \A v \in Clips : ClipInv(v)
  BY DEF MediaInit, ClipInv, GoesOn, Items
<1> QED BY <1>1, <1>2, <1>3 DEF MediaInv

LEMMA MediaTypesStay == MediaTypeOK /\ [MediaNext]_mediaVars => MediaTypeOK'
<1> SUFFICES ASSUME MediaTypeOK, [MediaNext]_mediaVars PROVE MediaTypeOK'
  OBVIOUS
<1> DEFINE Galleries == [Items -> {"none", "running", "done", "failed"}]
           Works == [Items -> {"no", "runs", "audio", "over"}]
           Processes == [Items -> {"none", "alive", "killed", "ended"}]
<1>a. /\ gallery \in Galleries /\ files \subseteq Items /\ work \in Works /\ step \in [Clips -> 1 .. Steps]
      /\ process \in Processes /\ image \in SlotType(Images) /\ clip \in SlotType(Clips)
      /\ deleted \subseteq Items /\ late \subseteq Items
  BY DEF MediaTypeOK
<1>b. Images \subseteq Items /\ Clips \subseteq Items
  BY DEF Items
<1>c. NoWork \in SlotType(Images) /\ NoWork \in SlotType(Clips)
  BY DEF NoWork, SlotType
<1>k. \A p \in Items : Kill(p) \in Processes
  BY <1>a DEF Kill
<1>l. KilledBy(image) \in Processes /\ KilledBy(clip) \in Processes
  BY <1>a, <1>b, <1>k DEF KilledBy, SlotType
<1>s. \A v \in Clips, s \in {"running", "done", "failed"} : SaveClip(v, s) \in Galleries
  BY <1>a, <1>b DEF SaveClip
<1>r. \A stuck : Recovered(stuck) \in Galleries
  BY <1>a DEF Recovered
\* The globals of a kind, whoever is the current one.
<1>g. ASSUME NEW set \in {Images, Clips}, NEW g \in SlotType(set), NEW i \in set, NEW w \in BOOLEAN
      PROVE  /\ [g EXCEPT !.busy = FALSE, !.running = NoItem, !.proc = NoItem, !.cancelled = @ \ {i}]
                  \in SlotType(set)
             /\ [g EXCEPT !.busy = TRUE, !.running = i, !.proc = i] \in SlotType(set)
             /\ [g EXCEPT !.cancelled = @ \cup {i}] \in SlotType(set)
             /\ [g EXCEPT !.cancelled = @ \cup {i}, !.busy = w] \in SlotType(set)
             /\ [g EXCEPT !.proc = i] \in SlotType(set)
             /\ [g EXCEPT !.proc = IF @ = i THEN NoItem ELSE @] \in SlotType(set)
  BY <1>g DEF SlotType
<1>1. ASSUME NEW i \in Images, ImageGenerate(i) PROVE MediaTypeOK'
  <2>1. image' \in SlotType(Images)
    BY <1>1, <1>a, <1>g DEF ImageGenerate
  <2> QED BY <1>1, <1>a, <1>b, <2>1 DEF ImageGenerate, MediaTypeOK
<1>2. ASSUME NEW i \in Images, ImageChildEnds(i) PROVE MediaTypeOK'
  BY <1>2, <1>a, <1>b DEF ImageChildEnds, MediaTypeOK
<1>f. ASSUME NEW i \in Images, NEW s \in {"done", "failed"}, Finish(i, s)
      PROVE  image' \in SlotType(Images) /\ gallery' \in Galleries
  BY <1>f, <1>a, <1>b, <1>g DEF Finish
<1>3. ASSUME NEW i \in Images, ImageClosed(i) PROVE MediaTypeOK'
  <2>1. image' \in SlotType(Images) /\ gallery' \in Galleries
    BY <1>3, <1>f DEF ImageClosed
  <2> QED BY <1>3, <1>a, <1>b, <2>1 DEF ImageClosed, MediaTypeOK
<1>4. ASSUME NEW i \in Images, ImageTimeOut(i) PROVE MediaTypeOK'
  <2>1. image' \in SlotType(Images) /\ gallery' \in Galleries
    BY <1>4, <1>f DEF ImageTimeOut
  <2> QED BY <1>4, <1>a, <1>b, <1>k, <2>1 DEF ImageTimeOut, MediaTypeOK
<1>16. ASSUME NEW i \in Images, ImageError(i) PROVE MediaTypeOK'
  <2>1. image' \in SlotType(Images) /\ gallery' \in Galleries
    BY <1>16, <1>f DEF ImageError
  <2> QED BY <1>16, <1>a, <1>b, <2>1 DEF ImageError, MediaTypeOK
<1>5. ASSUME NEW i \in Images, ImageDelete(i) PROVE MediaTypeOK'
  <2>1. image' \in SlotType(Images) /\ process' \in Processes
    <3>1. [image EXCEPT !.cancelled = @ \cup {i}] \in SlotType(Images)
      BY <1>a, <1>g
    <3>2. CASE i = image.running
      BY <1>5, <1>l, <3>1, <3>2 DEF ImageDelete
    <3>3. CASE i # image.running
      BY <1>5, <1>a, <3>3 DEF ImageDelete
    <3> QED BY <3>2, <3>3
  <2> QED BY <1>5, <1>a, <1>b, <2>1 DEF ImageDelete, MediaTypeOK
<1>6. ASSUME NEW v \in Clips, ClipGenerate(v) PROVE MediaTypeOK'
  <2>1. clip' \in SlotType(Clips)
    BY <1>6, <1>a, <1>g DEF ClipGenerate
  <2>2. gallery' \in Galleries
    BY <1>6, <1>b, <1>r DEF ClipGenerate
  <2> QED BY <1>6, <1>a, <1>b, <2>1, <2>2 DEF ClipGenerate, MediaTypeOK
<1>7. ASSUME NEW v \in Clips, StepChildEnds(v) PROVE MediaTypeOK'
  BY <1>7, <1>a, <1>b DEF StepChildEnds, MediaTypeOK
<1>w. ASSUME NEW v \in Clips, NEW s \in {"done", "failed"}, WorkEnds(v, s)
      PROVE  clip' \in SlotType(Clips) /\ gallery' \in Galleries /\ work' \in Works
  BY <1>w, <1>a, <1>b, <1>g, <1>s DEF WorkEnds
<1>8. ASSUME NEW v \in Clips, StepDone(v) PROVE MediaTypeOK'
  <2>1. process' \in Processes
    <3>1. process' = [process EXCEPT ![v] = "alive"] \/ process' = [process EXCEPT ![v] = "none"]
      BY <1>8 DEF StepDone
    <3> QED BY <1>a, <1>b, <3>1
  <2>2. clip' \in SlotType(Clips) /\ gallery' \in Galleries /\ work' \in Works
    <3>1. CASE /\ gallery' = SaveClip(v, "running") /\ UNCHANGED work
               /\ clip' = [clip EXCEPT !.proc = v]
      <4>1. [clip EXCEPT !.proc = v] \in SlotType(Clips)
        BY <1>a, <1>g
      <4> QED BY <1>a, <1>s, <3>1, <4>1
    <3>2. CASE /\ gallery' = SaveClip(v, "running") /\ work' = [work EXCEPT ![v] = "audio"]
               /\ clip' = [clip EXCEPT !.proc = IF @ = v THEN NoItem ELSE @]
      <4>1. [clip EXCEPT !.proc = IF @ = v THEN NoItem ELSE @] \in SlotType(Clips)
        BY <1>a, <1>g
      <4> QED BY <1>a, <1>s, <3>2, <4>1
    <3>3. CASE WorkEnds(v, "done")
      BY <1>w, <3>3
    <3> QED BY <1>8, <3>1, <3>2, <3>3 DEF StepDone
  <2>3. step' \in [Clips -> 1 .. Steps]
    <3>1. Steps \in Nat /\ step[v] \in 1 .. Steps
      BY <1>a, MediaAssumption DEF MediaAssumption
    <3>2. CASE step[v] < Steps /\ step' = [step EXCEPT ![v] = @ + 1]
      <4>1. step[v] + 1 \in 1 .. Steps
        BY <3>1, <3>2
      <4> QED BY <1>a, <3>2, <4>1
    <3> QED BY <1>8, <1>a, <3>2 DEF StepDone
  <2> QED BY <1>8, <1>a, <2>1, <2>2, <2>3 DEF StepDone, MediaTypeOK
<1>9. ASSUME NEW v \in Clips, StepFails(v) PROVE MediaTypeOK'
  <2>1. clip' \in SlotType(Clips) /\ gallery' \in Galleries /\ work' \in Works
    BY <1>9, <1>w DEF StepFails
  <2>2. process' \in Processes /\ files' \subseteq Items
    BY <1>9, <1>a, <1>b DEF StepFails
  <2> QED BY <1>9, <1>a, <2>1, <2>2 DEF StepFails, MediaTypeOK
<1>10. ASSUME NEW v \in Clips, ClipChildEnds(v) PROVE MediaTypeOK'
  BY <1>10, <1>a, <1>b DEF ClipChildEnds, MediaTypeOK
<1>11. ASSUME NEW v \in Clips, AudioEnds(v) PROVE MediaTypeOK'
  BY <1>11, <1>a, <1>w DEF AudioEnds, MediaTypeOK
<1>12. ASSUME NEW v \in Clips, ClipDelete(v) PROVE MediaTypeOK'
  <2>1. clip' \in SlotType(Clips) /\ process' \in Processes
    <3>1. clip.busy \in BOOLEAN
      BY <1>a DEF SlotType
    <3>2. [clip EXCEPT !.cancelled = @ \cup {v}, !.busy = clip.busy] \in SlotType(Clips)
      BY <1>a, <1>g, <3>1
    <3>3. CASE v = clip.running
      BY <1>12, <1>l, <3>2, <3>3 DEF ClipDelete, DeleteClip
    <3>4. CASE v # clip.running
      BY <1>12, <1>a, <3>4 DEF ClipDelete, DeleteClip
    <3> QED BY <3>3, <3>4
  <2> QED BY <1>12, <1>a, <1>b, <2>1 DEF ClipDelete, DeleteClip, MediaTypeOK
<1>13. ASSUME NEW stuck \in SUBSET Clips, Recover(stuck) PROVE MediaTypeOK'
  <2>1. clip' \in SlotType(Clips)
    BY <1>13, <1>a DEF Recover, Globals, SlotType
  <2>2. process' \in Processes
    BY <1>13, <1>a, <1>l DEF Recover, Children
  <2> QED BY <1>13, <1>a, <1>b, <1>r, <2>1, <2>2 DEF Recover, MediaTypeOK
<1>14. ASSUME MediaRestart PROVE MediaTypeOK'
  <2>1. process' \in Processes /\ work' \in Works
    BY <1>14, <1>a DEF MediaRestart
  <2> QED BY <1>14, <1>a, <1>c, <2>1 DEF MediaRestart, MediaTypeOK
<1>15. ASSUME UNCHANGED mediaVars PROVE MediaTypeOK'
  BY <1>15 DEF mediaVars, MediaTypeOK
<1> QED BY <1>1, <1>2, <1>3, <1>4, <1>5, <1>6, <1>7, <1>8, <1>9, <1>10, <1>11, <1>12, <1>13, <1>14, <1>15, <1>16
        DEF MediaNext, ImagesNext, ClipsNext

\* What ended early is not forgotten.
LEMMA LateStays == [MediaNext]_mediaVars => late \subseteq late'
  BY DEF MediaNext, ImagesNext, ClipsNext, ImageGenerate, ImageChildEnds, ImageError, ImageClosed, ImageTimeOut,
         ImageDelete, ClipGenerate, StepChildEnds, StepDone, StepFails, ClipChildEnds, AudioEnds,
         ClipDelete, DeleteClip, Recover, MediaRestart, mediaVars

LEMMA ImagesStayApart ==
  MediaInv /\ [MediaNext]_mediaVars /\ late' \cap Images = {} => \A i \in Images : ImageInv(i)'
<1> SUFFICES ASSUME MediaInv, [MediaNext]_mediaVars, late' \cap Images = {}, NEW i \in Images
             PROVE  ImageInv(i)'
  OBVIOUS
<1>a. MediaTypeOK /\ \A j \in Images : ImageInv(j)
  BY LateStays DEF MediaInv
<1>b. i \in Items /\ i \notin Clips /\ i # NoItem /\ NoItem \notin Items
  BY MediaAssumption DEF MediaAssumption, Items
<1>t. /\ gallery \in [Items -> {"none", "running", "done", "failed"}] /\ files \subseteq Items
      /\ work \in [Items -> {"no", "runs", "audio", "over"}]
      /\ process \in [Items -> {"none", "alive", "killed", "ended"}]
      /\ image.running \in Images \cup {NoItem} /\ image.proc \in Images \cup {NoItem}
      /\ image \in SlotType(Images) /\ clip.proc \in Clips \cup {NoItem}
  BY <1>a DEF MediaTypeOK, SlotType
<1>c. ImageInv(i)
  BY <1>a
\* Nothing that is about another kind, or about another picture, concerns this one.
<1>u. ASSUME /\ work'[i] = work[i] /\ process'[i] = process[i] /\ gallery'[i] = gallery[i]
             /\ i \in files' <=> i \in files
             /\ i \in deleted' <=> i \in deleted
             /\ image'.busy = image.busy /\ image'.running = image.running /\ image'.proc = image.proc
             /\ i \in image'.cancelled <=> i \in image.cancelled
      PROVE  ImageInv(i)'
  BY <1>c, <1>u DEF ImageInv
<1>1. ASSUME NEW j \in Images, ImageGenerate(j) PROVE ImageInv(i)'
  <2>1. /\ work[j] = "no" /\ ~image.busy /\ work' = [work EXCEPT ![j] = "runs"]
        /\ process' = [process EXCEPT ![j] = "alive"] /\ gallery' = [gallery EXCEPT ![j] = "running"]
        /\ UNCHANGED <<files, deleted>>
    BY <1>1 DEF ImageGenerate
  <2>2. image'.busy /\ image'.running = j /\ image'.proc = j
    BY <1>1, <1>t DEF ImageGenerate, SlotType
  <2>3. CASE i = j
    BY <1>b, <1>c, <1>t, <2>1, <2>2, <2>3 DEF ImageInv
  <2>4. CASE i # j
    <3>1. work[i] # "runs" /\ work'[i] = work[i] /\ process'[i] = process[i] /\ gallery'[i] = gallery[i]
      BY <1>b, <1>c, <1>t, <2>1, <2>4 DEF ImageInv
    <3> QED BY <1>c, <2>1, <3>1 DEF ImageInv
  <2> QED BY <2>3, <2>4
<1>2. ASSUME NEW j \in Images, ImageChildEnds(j) PROVE ImageInv(i)'
  <2>1. /\ process' = [process EXCEPT ![j] = "ended"] /\ UNCHANGED <<gallery, work, image, deleted>>
        /\ process[j] \in {"alive", "killed"}
        /\ files' \in {files, files \cup {j}} /\ (process[j] # "alive" => files' = files)
    BY <1>2 DEF ImageChildEnds
  <2>2. CASE i = j
    <3>1. process'[i] = "ended"
      BY <1>b, <1>t, <2>1, <2>2
    <3> QED BY <1>c, <2>1, <2>2, <3>1 DEF ImageInv
  <2>3. CASE i # j
    BY <1>b, <1>t, <1>u, <2>1, <2>3
  <2> QED BY <2>2, <2>3
<1>3. ASSUME NEW j \in Images, ImageClosed(j) PROVE ImageInv(i)'
  <2>1. /\ process[j] = "ended" /\ process' = [process EXCEPT ![j] = "none"]
        /\ work' = [work EXCEPT ![j] = "over"] /\ UNCHANGED <<files, deleted>>
    BY <1>3 DEF ImageClosed
  <2>2. \E s : gallery' = (IF j \in image.cancelled THEN gallery ELSE [gallery EXCEPT ![j] = s])
    BY <1>3 DEF ImageClosed, Finish
  <2>3. ImageInv(j) /\ work[j] = "runs"
    BY <1>a, <2>1 DEF ImageInv
  <2>4. CASE i = j
    BY <1>b, <1>c, <1>t, <2>1, <2>2, <2>3, <2>4 DEF ImageInv
  <2>5. CASE i # j
    <3>1. work[i] # "runs" /\ work'[i] = work[i] /\ process'[i] = process[i] /\ gallery'[i] = gallery[i]
      BY <1>b, <1>c, <1>t, <2>1, <2>2, <2>3, <2>5 DEF ImageInv
    <3> QED BY <1>c, <2>1, <3>1 DEF ImageInv
  <2> QED BY <2>4, <2>5
\* An early end is the excuse.
<1>4. ASSUME NEW j \in Images, ImageTimeOut(j) \/ ImageError(j) PROVE FALSE
  BY <1>4 DEF ImageTimeOut, ImageError
<1>5. ASSUME NEW j \in Images, ImageDelete(j) PROVE ImageInv(i)'
  <2>1. /\ gallery[j] # "none" /\ gallery' = [gallery EXCEPT ![j] = "none"]
        /\ files' = files \ {j} /\ deleted' = deleted \cup {j} /\ UNCHANGED work
    BY <1>5 DEF ImageDelete
  <2>2. CASE j = image.running
    <3>1. /\ image'.cancelled = image.cancelled \cup {j} /\ image'.busy = image.busy
          /\ image'.running = image.running /\ image'.proc = image.proc
      BY <1>5, <1>t, <2>2 DEF ImageDelete, SlotType
    <3>2. \A k \in Items : process'[k] = IF k = image.proc /\ process[k] = "alive" THEN "killed" ELSE process[k]
      BY <1>5, <1>b, <1>t, <2>2 DEF ImageDelete, KilledBy, Kill, Items
    <3>3. CASE i = j
      BY <1>b, <1>c, <1>t, <2>1, <3>1, <3>2, <3>3 DEF ImageInv
    <3>4. CASE i # j
      <4>1. work[i] # "runs" /\ process[i] = "none"
        BY <1>c, <2>2, <3>4 DEF ImageInv
      <4>2. process'[i] = process[i] /\ gallery'[i] = gallery[i]
        BY <1>b, <1>t, <2>1, <3>2, <3>4, <4>1
      <4> QED BY <1>u, <2>1, <3>1, <3>4, <4>2
    <3> QED BY <3>3, <3>4
  <2>3. CASE j # image.running
    <3>1. UNCHANGED <<image, process>>
      BY <1>5, <2>3 DEF ImageDelete
    <3>2. CASE i = j
      BY <1>b, <1>c, <1>t, <2>1, <2>3, <3>1, <3>2 DEF ImageInv
    <3>3. CASE i # j
      BY <1>b, <1>t, <1>u, <2>1, <3>1, <3>3
    <3> QED BY <3>2, <3>3
  <2> QED BY <2>2, <2>3
\* The clips do not touch the pictures.
<1>k. /\ KilledBy(clip)[i] = process[i] /\ \A stuck : Recovered(stuck)[i] = gallery[i]
      /\ \A v \in Clips : \A s : SaveClip(v, s)[i] = gallery[i]
  <2>1. KilledBy(clip)[i] = process[i]
    BY <1>b, <1>t DEF KilledBy, Kill
  <2>2. \A stuck : Recovered(stuck)[i] = gallery[i]
    BY <1>b DEF Recovered, Lost
  <2>3. \A v \in Clips : \A s : SaveClip(v, s)[i] = gallery[i]
    BY <1>b, <1>t DEF SaveClip
  <2> QED BY <2>1, <2>2, <2>3
<1>6. ASSUME NEW v \in Clips, ClipGenerate(v) PROVE ImageInv(i)'
  <2>1. work'[i] = work[i] /\ process'[i] = process[i]
    BY <1>6, <1>b, <1>t DEF ClipGenerate
  <2>2. gallery'[i] = gallery[i]
    BY <1>6, <1>b, <1>k DEF ClipGenerate, Recovered
  <2> QED BY <1>6, <1>u, <2>1, <2>2 DEF ClipGenerate
<1>7. ASSUME NEW v \in Clips, StepChildEnds(v) \/ ClipChildEnds(v) PROVE ImageInv(i)'
  <2>1. process'[i] = process[i] /\ (i \in files' <=> i \in files)
    BY <1>7, <1>b, <1>t DEF StepChildEnds, ClipChildEnds
  <2> QED BY <1>7, <1>u, <2>1 DEF StepChildEnds, ClipChildEnds
<1>w. ASSUME NEW v \in Clips, NEW s, WorkEnds(v, s)
      PROVE  work'[i] = work[i] /\ gallery'[i] = gallery[i]
  BY <1>w, <1>b, <1>k, <1>t DEF WorkEnds
<1>8. ASSUME NEW v \in Clips, StepDone(v) PROVE ImageInv(i)'
  <2>1. process'[i] = process[i]
    <3>1. process' = [process EXCEPT ![v] = "alive"] \/ process' = [process EXCEPT ![v] = "none"]
      BY <1>8 DEF StepDone
    <3> QED BY <1>b, <1>t, <3>1
  <2>2. work'[i] = work[i] /\ gallery'[i] = gallery[i]
    <3>1. CASE WorkEnds(v, "done")
      BY <1>w, <3>1
    <3>2. CASE gallery' = SaveClip(v, "running") /\ work' \in {work, [work EXCEPT ![v] = "audio"]}
      BY <1>b, <1>k, <1>t, <3>2
    <3> QED BY <1>8, <3>1, <3>2 DEF StepDone
  <2> QED BY <1>8, <1>u, <2>1, <2>2 DEF StepDone
<1>9. ASSUME NEW v \in Clips, StepFails(v) PROVE ImageInv(i)'
  <2>1. process'[i] = process[i] /\ (i \in files' <=> i \in files)
    BY <1>9, <1>b, <1>t DEF StepFails
  <2>2. work'[i] = work[i] /\ gallery'[i] = gallery[i]
    BY <1>9, <1>w DEF StepFails
  <2> QED BY <1>9, <1>u, <2>1, <2>2 DEF StepFails
<1>10. ASSUME NEW v \in Clips, AudioEnds(v) PROVE ImageInv(i)'
  BY <1>10, <1>u, <1>w DEF AudioEnds
<1>11. ASSUME NEW v \in Clips, ClipDelete(v) PROVE ImageInv(i)'
  <2>1. process'[i] = process[i] /\ gallery'[i] = gallery[i]
    BY <1>11, <1>b, <1>k, <1>t DEF ClipDelete, DeleteClip
  <2>2. (i \in files' <=> i \in files) /\ (i \in deleted' <=> i \in deleted)
    BY <1>11, <1>b DEF ClipDelete, DeleteClip
  <2> QED BY <1>11, <1>u, <2>1, <2>2 DEF ClipDelete, DeleteClip
<1>12. ASSUME NEW stuck \in SUBSET Clips, Recover(stuck) PROVE ImageInv(i)'
  <2>1. process'[i] = process[i] /\ gallery'[i] = gallery[i]
    BY <1>12, <1>k DEF Recover, Children
  <2> QED BY <1>12, <1>u, <2>1 DEF Recover
<1>13. ASSUME MediaRestart PROVE ImageInv(i)'
  <2>1. process'[i] = "none" /\ work'[i] = IF work[i] = "no" THEN "no" ELSE "over"
    BY <1>13, <1>b DEF MediaRestart
  <2> QED BY <1>13, <1>c, <2>1 DEF MediaRestart, ImageInv
<1>14. ASSUME UNCHANGED mediaVars PROVE ImageInv(i)'
  BY <1>14, <1>u DEF mediaVars
<1> QED BY <1>1, <1>2, <1>3, <1>4, <1>5, <1>6, <1>7, <1>8, <1>9, <1>10, <1>11, <1>12, <1>13, <1>14
        DEF MediaNext, ImagesNext, ClipsNext

LEMMA ClipsStayApart ==
  MediaInv /\ [MediaNext]_mediaVars /\ late' \cap Clips = {} => \A v \in Clips : ClipInv(v)'
<1> SUFFICES ASSUME MediaInv, [MediaNext]_mediaVars, late' \cap Clips = {}, NEW v \in Clips
             PROVE  ClipInv(v)'
  OBVIOUS
<1>a. MediaTypeOK /\ \A u \in Clips : ClipInv(u)
  BY LateStays DEF MediaInv
<1>b. v \in Items /\ v \notin Images /\ v # NoItem /\ NoItem \notin Items /\ Clips \subseteq Items
  BY MediaAssumption DEF MediaAssumption, Items
<1>t. /\ gallery \in [Items -> {"none", "running", "done", "failed"}] /\ files \subseteq Items
      /\ work \in [Items -> {"no", "runs", "audio", "over"}]
      /\ process \in [Items -> {"none", "alive", "killed", "ended"}]
      /\ clip.running \in Clips \cup {NoItem} /\ clip.proc \in Clips \cup {NoItem}
      /\ clip \in SlotType(Clips) /\ image.proc \in Images \cup {NoItem}
  BY <1>a DEF MediaTypeOK, SlotType
<1>c. ClipInv(v)
  BY <1>a
<1>u. ASSUME /\ work'[v] = work[v] /\ process'[v] = process[v] /\ gallery'[v] = gallery[v]
             /\ v \in files' <=> v \in files
             /\ v \in deleted' <=> v \in deleted
             /\ clip'.busy = clip.busy /\ clip'.running = clip.running /\ clip'.proc = clip.proc
             /\ v \in clip'.cancelled <=> v \in clip.cancelled
      PROVE  ClipInv(v)'
  BY <1>c, <1>u DEF ClipInv, GoesOn
\* A clip that does not go on is not touched by what becomes of the current one.
<1>o. ASSUME /\ ~GoesOn(v) /\ work'[v] = work[v] /\ process'[v] = process[v] /\ gallery'[v] = gallery[v]
             /\ v \in files' <=> v \in files
             /\ v \in deleted' <=> v \in deleted
      PROVE  ClipInv(v)'
  BY <1>c, <1>o DEF ClipInv, GoesOn
\* The galleries are recovered without a timer: what is deleted stays away.
<1>r. Recovered({})[v] = IF gallery[v] = "running" /\ v \in Lost({}) THEN "failed" ELSE gallery[v]
  BY <1>b DEF Recovered, Lost
<1>1. ASSUME NEW u \in Clips, ClipGenerate(u) PROVE ClipInv(v)'
  <2>1. /\ work[u] = "no" /\ ~clip.busy /\ work' = [work EXCEPT ![u] = "runs"]
        /\ process' = [process EXCEPT ![u] = "alive"] /\ gallery' = [Recovered({}) EXCEPT ![u] = "running"]
        /\ UNCHANGED <<files, deleted>>
    BY <1>1 DEF ClipGenerate
  <2>2. clip'.busy /\ clip'.running = u /\ clip'.proc = u
    BY <1>1, <1>t DEF ClipGenerate, SlotType
  <2>3. CASE v = u
    <3>1. v \notin deleted /\ work'[v] = "runs"
      BY <1>b, <1>c, <1>t, <2>1, <2>3 DEF ClipInv
    <3> QED BY <2>1, <2>2, <2>3, <3>1 DEF ClipInv, GoesOn
  <2>4. CASE v # u
    <3>1. ~GoesOn(v) /\ work'[v] = work[v] /\ process'[v] = process[v]
      BY <1>b, <1>c, <1>t, <2>1, <2>4 DEF ClipInv
    <3>2. gallery'[v] = Recovered({})[v]
      BY <1>b, <2>1, <2>4 DEF Recovered
    <3>3. gallery[v] = "none" => gallery'[v] = "none"
      BY <1>r, <3>2
    <3> QED BY <1>c, <2>1, <3>1, <3>3 DEF ClipInv, GoesOn
  <2> QED BY <2>3, <2>4
<1>2. ASSUME NEW u \in Clips, StepChildEnds(u) PROVE ClipInv(v)'
  <2>1. /\ work[u] = "runs" /\ process[u] = "alive" /\ process' = [process EXCEPT ![u] = "ended"]
        /\ files' = files \cup {u} /\ UNCHANGED <<gallery, work, clip, deleted>>
    BY <1>2 DEF StepChildEnds
  <2>2. CASE v = u
    <3>1. v \notin deleted /\ process'[v] = "ended"
      BY <1>b, <1>c, <1>t, <2>1, <2>2 DEF ClipInv
    <3> QED BY <1>c, <2>1, <3>1 DEF ClipInv, GoesOn
  <2>3. CASE v # u
    BY <1>b, <1>t, <1>u, <2>1, <2>3
  <2> QED BY <2>2, <2>3
<1>w. ASSUME NEW u \in Clips, NEW s, WorkEnds(u, s), GoesOn(u)
      PROVE  /\ v # u => ~GoesOn(v) /\ work'[v] = work[v] /\ gallery'[v] = gallery[v]
             /\ v = u => work'[v] = "over" /\ (v \in deleted => gallery'[v] = "none")
  <2>1. work' = [work EXCEPT ![u] = "over"] /\ gallery' = SaveClip(u, s)
    BY <1>w DEF WorkEnds
  <2>2. ClipInv(u) /\ ClipInv(v)
    BY <1>a
  <2>3. v # u => gallery'[v] = gallery[v]
    BY <1>b, <1>t, <2>1 DEF SaveClip
  <2>4. v = u /\ v \in deleted => gallery'[v] = "none"
    BY <1>w, <2>1, <2>2 DEF SaveClip, ClipInv
  <2>5. v # u => ~GoesOn(v) /\ work'[v] = work[v]
    BY <1>b, <1>t, <1>w, <2>1, <2>2 DEF ClipInv
  <2>6. v = u => work'[v] = "over"
    BY <1>b, <1>t, <2>1
  <2> QED BY <2>3, <2>4, <2>5, <2>6
<1>3. ASSUME NEW u \in Clips, StepDone(u) PROVE ClipInv(v)'
  <2>1. /\ work[u] = "runs" /\ process[u] = "ended" /\ u \in files /\ UNCHANGED <<files, deleted>>
        /\ \/ /\ gallery' = SaveClip(u, "running") /\ clip' = [clip EXCEPT !.proc = u]
              /\ process' = [process EXCEPT ![u] = "alive"] /\ UNCHANGED work
           \/ /\ work' = [work EXCEPT ![u] = "audio"] /\ process' = [process EXCEPT ![u] = "none"]
              /\ gallery' = SaveClip(u, "running")
              /\ clip' = [clip EXCEPT !.proc = IF @ = u THEN NoItem ELSE @]
           \/ process' = [process EXCEPT ![u] = "none"] /\ WorkEnds(u, "done")
    BY <1>3 DEF StepDone
  <2>2. ClipInv(u) /\ GoesOn(u) /\ u \notin deleted
    BY <1>a, <2>1 DEF ClipInv, GoesOn
  <2>3. CASE v = u
    <3>1. CASE gallery' = SaveClip(u, "running") /\ clip' = [clip EXCEPT !.proc = u]
               /\ process' = [process EXCEPT ![u] = "alive"] /\ UNCHANGED work
      <4>1. clip'.proc = u /\ clip'.busy = clip.busy /\ clip'.running = clip.running
        BY <1>t, <3>1 DEF SlotType
      <4> QED BY <1>c, <2>1, <2>2, <2>3, <3>1, <4>1 DEF ClipInv, GoesOn
    <3>2. CASE /\ work' = [work EXCEPT ![u] = "audio"] /\ process' = [process EXCEPT ![u] = "none"]
               /\ clip' = [clip EXCEPT !.proc = IF @ = u THEN NoItem ELSE @]
      <4>1. clip'.busy = clip.busy /\ clip'.running = clip.running
        BY <1>t, <3>2 DEF SlotType
      <4>2. work'[v] = "audio" /\ process'[v] = "none"
        BY <1>b, <1>t, <2>3, <3>2
      <4> QED BY <1>c, <2>1, <2>2, <2>3, <4>1, <4>2 DEF ClipInv, GoesOn
    <3>3. CASE process' = [process EXCEPT ![u] = "none"] /\ WorkEnds(u, "done")
      <4>1. work'[v] = "over" /\ process'[v] = "none"
        BY <1>b, <1>t, <1>w, <2>2, <2>3, <3>3
      <4> QED BY <2>1, <2>2, <2>3, <4>1 DEF ClipInv, GoesOn
    <3> QED BY <2>1, <3>1, <3>2, <3>3
  <2>4. CASE v # u
    <3>1. ~GoesOn(v)
      BY <1>c, <2>2, <2>4 DEF ClipInv
    <3>2. process'[v] = process[v]
      <4>1. process' = [process EXCEPT ![u] = "alive"] \/ process' = [process EXCEPT ![u] = "none"]
        BY <2>1
      <4> QED BY <1>b, <1>t, <2>4, <4>1
    <3>3. work'[v] = work[v] /\ gallery'[v] = gallery[v]
      <4>1. CASE WorkEnds(u, "done")
        BY <1>w, <2>2, <2>4, <4>1
      <4>2. CASE gallery' = SaveClip(u, "running") /\ work' \in {work, [work EXCEPT ![u] = "audio"]}
        BY <1>b, <1>t, <2>4, <4>2 DEF SaveClip
      <4> QED BY <2>1, <4>1, <4>2
    <3> QED BY <1>o, <2>1, <3>1, <3>2, <3>3
  <2> QED BY <2>3, <2>4
<1>4. ASSUME NEW u \in Clips, StepFails(u) PROVE ClipInv(v)'
  <2>1. /\ work[u] = "runs" /\ WorkEnds(u, "failed") /\ UNCHANGED deleted
        /\ files' \in {files, files \ {u}}
        /\ \E c \in {"none", "killed"} : process' = [process EXCEPT ![u] = c]
    BY <1>4 DEF StepFails
  <2>2. GoesOn(u)
    BY <2>1 DEF GoesOn
  <2>3. CASE v = u
    <3>1. work'[v] = "over" /\ process'[v] \in {"none", "killed"} /\ (v \in deleted => gallery'[v] = "none")
      BY <1>b, <1>t, <1>w, <2>1, <2>2, <2>3
    <3> QED BY <1>c, <2>1, <3>1 DEF ClipInv, GoesOn
  <2>4. CASE v # u
    <3>1. process'[v] = process[v] /\ (v \in files' <=> v \in files)
      BY <1>b, <1>t, <2>1, <2>4
    <3> QED BY <1>o, <1>w, <2>1, <2>2, <2>4, <3>1
  <2> QED BY <2>3, <2>4
<1>5. ASSUME NEW u \in Clips, ClipChildEnds(u) PROVE ClipInv(v)'
  <2>1. /\ process' = [process EXCEPT ![u] = "none"] /\ UNCHANGED <<gallery, files, work, clip, deleted>>
    BY <1>5 DEF ClipChildEnds
  <2>2. process'[v] \in {process[v], "none"}
    BY <1>b, <1>t, <2>1
  <2> QED BY <1>c, <2>1, <2>2 DEF ClipInv, GoesOn
<1>6. ASSUME NEW u \in Clips, AudioEnds(u) PROVE ClipInv(v)'
  <2>1. work[u] = "audio" /\ WorkEnds(u, "done") /\ UNCHANGED <<files, process, deleted>>
    BY <1>6 DEF AudioEnds
  <2>2. GoesOn(u)
    BY <2>1 DEF GoesOn
  <2>3. CASE v = u
    <3>1. work'[v] = "over" /\ (v \in deleted => gallery'[v] = "none") /\ process[v] # "alive"
      BY <1>c, <1>w, <2>1, <2>2, <2>3 DEF ClipInv
    <3> QED BY <1>c, <2>1, <3>1 DEF ClipInv, GoesOn
  <2>4. CASE v # u
    BY <1>o, <1>w, <2>1, <2>2, <2>4
  <2> QED BY <2>3, <2>4
<1>7. ASSUME NEW u \in Clips, ClipDelete(u) PROVE ClipInv(v)'
  <2>1. /\ gallery[u] # "none" /\ gallery' = [gallery EXCEPT ![u] = "none"]
        /\ files' = files \ {u} /\ deleted' = deleted \cup {u} /\ UNCHANGED work
    BY <1>7 DEF ClipDelete, DeleteClip
  <2>2. CASE u = clip.running
    <3>a. clip' = [clip EXCEPT !.cancelled = @ \cup {u}, !.busy = clip.busy]
      BY <1>7, <2>2 DEF ClipDelete, DeleteClip
    <3>1. /\ clip'.cancelled = clip.cancelled \cup {u} /\ clip'.busy = clip.busy
          /\ clip'.running = clip.running /\ clip'.proc = clip.proc
      BY <1>t, <3>a DEF SlotType
    <3>2. \A k \in Items : process'[k] = IF k = clip.proc /\ process[k] = "alive" THEN "killed" ELSE process[k]
      BY <1>7, <1>b, <1>t, <2>2 DEF ClipDelete, DeleteClip, KilledBy, Kill
    <3>3. CASE v = u
      <4>1. process'[v] # "alive" /\ gallery'[v] = "none" /\ work[v] # "no"
        BY <1>b, <1>c, <1>t, <2>1, <3>2, <3>3 DEF ClipInv
      <4> QED BY <1>c, <2>1, <3>1, <3>3, <4>1 DEF ClipInv, GoesOn
    <3>4. CASE v # u
      <4>1. ~GoesOn(v) /\ process[v] # "alive"
        BY <1>c, <2>2, <3>4 DEF ClipInv, GoesOn
      <4>2. process'[v] = process[v] /\ gallery'[v] = gallery[v]
        BY <1>b, <1>t, <2>1, <3>2, <3>4, <4>1
      <4> QED BY <1>o, <2>1, <3>4, <4>1, <4>2
    <3> QED BY <3>3, <3>4
  <2>3. CASE u # clip.running
    <3>1. UNCHANGED <<clip, process>>
      BY <1>7, <2>3 DEF ClipDelete, DeleteClip
    <3>2. CASE v = u
      <4>1. ~GoesOn(v) /\ gallery'[v] = "none" /\ work[v] # "no" /\ process[v] # "alive"
        BY <1>b, <1>c, <1>t, <2>1, <2>3, <3>2 DEF ClipInv, GoesOn
      <4> QED BY <2>1, <3>1, <3>2, <4>1 DEF ClipInv, GoesOn
    <3>3. CASE v # u
      BY <1>b, <1>t, <1>u, <2>1, <3>1, <3>3
    <3> QED BY <3>2, <3>3
  <2> QED BY <2>2, <2>3
\* Without a clip that is stuck, the galleries are all that is recovered.
<1>8. ASSUME NEW stuck \in SUBSET Clips, Recover(stuck) PROVE ClipInv(v)'
  <2>1. stuck = {}
    BY <1>8 DEF Recover
  <2>2. /\ gallery' = Recovered({}) /\ clip' = clip /\ process' = process
        /\ UNCHANGED <<files, work, deleted>>
    BY <1>8, <2>1 DEF Recover, Globals, Children
  <2>3. gallery[v] = "none" => gallery'[v] = "none"
    BY <1>r, <2>2
  <2> QED BY <1>c, <2>2, <2>3 DEF ClipInv, GoesOn
<1>9. ASSUME MediaRestart PROVE ClipInv(v)'
  <2>1. process'[v] = "none" /\ work'[v] = IF work[v] = "no" THEN "no" ELSE "over"
    BY <1>9, <1>b DEF MediaRestart
  <2> QED BY <1>9, <1>c, <2>1 DEF MediaRestart, ClipInv, GoesOn
\* The pictures do not touch the clips.
<1>10. ASSUME NEW i \in Images,
              \/ ImageGenerate(i) \/ ImageChildEnds(i) \/ ImageError(i) \/ ImageClosed(i)
              \/ ImageTimeOut(i) \/ ImageDelete(i)
       PROVE  ClipInv(v)'
  <2>1. UNCHANGED clip /\ work'[v] = work[v]
    BY <1>10, <1>b, <1>t DEF ImageGenerate, ImageChildEnds, ImageError, ImageClosed, ImageTimeOut, ImageDelete
  <2>2. gallery'[v] = gallery[v]
    BY <1>10, <1>b, <1>t
       DEF ImageGenerate, ImageChildEnds, ImageError, ImageClosed, ImageTimeOut, ImageDelete, Finish
  <2>3. process'[v] = process[v]
    BY <1>10, <1>b, <1>t
       DEF ImageGenerate, ImageChildEnds, ImageError, ImageClosed, ImageTimeOut, ImageDelete, KilledBy, Kill
  <2>4. (v \in files' <=> v \in files) /\ (v \in deleted' <=> v \in deleted)
    BY <1>10, <1>b DEF ImageGenerate, ImageChildEnds, ImageError, ImageClosed, ImageTimeOut, ImageDelete
  <2> QED BY <1>u, <2>1, <2>2, <2>3, <2>4
<1>11. ASSUME UNCHANGED mediaVars PROVE ClipInv(v)'
  BY <1>11, <1>u DEF mediaVars
<1> QED BY <1>1, <1>2, <1>3, <1>4, <1>5, <1>6, <1>7, <1>8, <1>9, <1>10, <1>11
        DEF MediaNext, ImagesNext, ClipsNext

\* For any pictures, clips and steps, deletions and restarts: two works of a kind never go on
\* together, what goes on can be stopped, and what was deleted does not come back, as long as no
\* work of the kind was ended early: by a timer or by `error` before its child was closed, or
\* while its sound went on.
THEOREM MediaKeepApart == MediaSpec => []WorksKeepApart
<1>1. MediaInv /\ [MediaNext]_mediaVars => MediaInv'
  BY MediaTypesStay, ImagesStayApart, ClipsStayApart DEF MediaInv
<1>2. MediaInv => WorksKeepApart
  <2> SUFFICES ASSUME MediaInv, NEW kind \in {Images, Clips}, late \cap kind = {}, NEW i \in kind
               PROVE  LET slot == IF kind = Images THEN image ELSE clip
                      IN  /\ GoesOn(i) => slot.busy /\ slot.running = i
                          /\ i \in deleted => /\ gallery[i] = "none"
                                              /\ work[i] = "over" => i \notin files
    BY DEF WorksKeepApart
  <2>1. CASE kind = Images
    BY <2>1 DEF MediaInv, ImageInv, GoesOn
  <2>2. CASE kind = Clips
    <3>1. Clips # Images
      BY <2>2, MediaAssumption DEF MediaAssumption
    <3> QED BY <2>2, <3>1 DEF MediaInv, ClipInv
  <2> QED BY <2>1, <2>2
<1> QED BY <1>1, <1>2, MediaStarts, PTL DEF MediaSpec
-----------------------------------------------------------------------------
(* CreditsService: the ledger *)

USE CreditsAssumption DEF CreditsAssumption

-----------------------------------------------------------------------------
(* Types, and what an open transaction knows *)

\* An open transaction owns its user's row, so that the balance it computed is still the
\* right one; the key it inserted is in no other row, committed or not.
OpenTransactions ==
  /\ \A t \in Txs : tx[t] # Idle =>
       /\ tx[t].balanceAfter = balance[tx[t].user] + tx[t].amount
       /\ \A s \in Txs : tx[s] # Idle /\ tx[s].user = tx[t].user => s = t
  /\ \A t \in Txs : tx[t].pc = "inserted" =>
       /\ ~Committed(tx[t].key)
       /\ \A s \in Txs :
            tx[s].pc = "inserted" /\ tx[s].key = tx[t].key /\ tx[t].key # NoKey => s = t

CreditsInv == CreditsTypeOK /\ OpenTransactions /\ OncePerKey /\ LedgerExplainsBalance

\* A transaction that is not idle has the fields of a transaction.
LEMMA OpenShape ==
  ASSUME NEW x \in Transactions, x # Idle
  PROVE  /\ x.pc \in {"credited", "inserted"} /\ x.user \in Users /\ x.amount \in Amounts
         /\ x.balanceAfter \in Int /\ x.key \in Keys \cup {NoKey} /\ x.amount \in Nat
         /\ [x EXCEPT !.pc = "inserted"] \in Transactions
         /\ [x EXCEPT !.pc = "inserted"] # Idle
         /\ [x EXCEPT !.pc = "inserted"].pc = "inserted"
         /\ [x EXCEPT !.pc = "inserted"].user = x.user
         /\ [x EXCEPT !.pc = "inserted"].key = x.key
         /\ [x EXCEPT !.pc = "inserted"].amount = x.amount
         /\ [x EXCEPT !.pc = "inserted"].balanceAfter = x.balanceAfter
  BY DEF Transactions, Idle

\* What it means for a movement to be applied to the account of u.
Moved(u, amount, k) ==
  /\ balance[u] + amount \in Nat
  /\ amount \in Int
  /\ k \in Keys \cup {NoKey}
  /\ ~Committed(k)
  /\ Apply(u, Entry(amount, balance[u] + amount, k))

\* Committed rows after a movement: those of before and the new one, at the end.
LEMMA AppendedRows ==
  ASSUME CreditsTypeOK, NEW u \in Users, NEW amount, NEW k, Moved(u, amount, k)
  PROVE  /\ balance' \in [Users -> Nat] /\ ledger' \in [Users -> Seq(Ledgers)]
         /\ balance'[u] = balance[u] + amount
         /\ \A v \in Users \ {u} : balance'[v] = balance[v] /\ ledger'[v] = ledger[v]
         /\ Len(ledger[u]) \in Nat /\ Len(ledger'[u]) = Len(ledger[u]) + 1
         /\ \A i \in 1..Len(ledger[u]) : ledger'[u][i] = ledger[u][i]
         /\ ledger'[u][Len(ledger[u]) + 1] = Entry(amount, balance[u] + amount, k)
<1> DEFINE entry == Entry(amount, balance[u] + amount, k)
<1>1. entry \in Ledgers
  BY DEF Moved, Entry, Ledgers, CreditsTypeOK
<1>2. ledger[u] \in Seq(Ledgers)
  BY DEF CreditsTypeOK
<1>3. ledger'[u] = Append(ledger[u], entry)
  BY DEF Moved, Apply, CreditsTypeOK
<1>4. \A v \in Users \ {u} : balance'[v] = balance[v] /\ ledger'[v] = ledger[v]
  BY DEF Moved, Apply, CreditsTypeOK
<1>5. balance' \in [Users -> Nat] /\ balance'[u] = balance[u] + amount
  BY DEF Moved, Apply, Entry, CreditsTypeOK
<1>6. Append(ledger[u], entry) \in Seq(Ledgers)
  BY <1>1, <1>2
<1>7. ledger' \in [Users -> Seq(Ledgers)]
  BY <1>6 DEF Moved, Apply, CreditsTypeOK
<1> QED BY <1>1, <1>2, <1>3, <1>4, <1>5, <1>7

\* A key is in the ledger exactly when some row has it.
LEMMA CommittedRow ==
  ASSUME CreditsTypeOK, NEW k
  PROVE  Committed(k) <=> k # NoKey /\ \E u \in Users : \E i \in 1..Len(ledger[u]) : ledger[u][i].key = k
<1>1. \A u \in Users : DOMAIN ledger[u] = 1..Len(ledger[u])
  BY DEF CreditsTypeOK
<1> QED BY <1>1 DEF Committed

\* A movement keeps the ledger in order and its keys unique.
LEMMA MovementKeepsLedger ==
  ASSUME CreditsTypeOK, OncePerKey, LedgerExplainsBalance,
         NEW u \in Users, NEW amount, NEW k, Moved(u, amount, k)
  PROVE  LedgerExplainsBalance' /\ OncePerKey'
<1> PICK n \in Nat : n = Len(ledger[u])
  BY DEF CreditsTypeOK
<1>0. /\ balance'[u] = balance[u] + amount
      /\ \A v \in Users \ {u} : balance'[v] = balance[v] /\ ledger'[v] = ledger[v]
      /\ Len(ledger'[u]) = n + 1
      /\ \A i \in 1..n : ledger'[u][i] = ledger[u][i]
      /\ ledger'[u][n + 1] = Entry(amount, balance[u] + amount, k)
  BY AppendedRows
<1>1. \A v \in Users : Len(ledger[v]) \in Nat
  BY DEF CreditsTypeOK
<1>2. balance[u] = BalanceBefore(u, n + 1)
  BY DEF LedgerExplainsBalance
<1>3. ASSUME NEW v \in Users \ {u}
      PROVE  /\ \A i \in 1..Len(ledger'[v]) :
                  ledger'[v][i].balanceAfter = BalanceBefore(v, i)' + ledger'[v][i].amount
             /\ balance'[v] = BalanceBefore(v, Len(ledger[v]) + 1)'
  <2>1. ledger'[v] = ledger[v] /\ balance'[v] = balance[v]
    BY <1>0
  <2>2. \A i : BalanceBefore(v, i)' = BalanceBefore(v, i)
    BY <2>1 DEF BalanceBefore
  <2> QED BY <2>1, <2>2 DEF LedgerExplainsBalance
<1>4. ASSUME NEW i \in 1..(n + 1) PROVE BalanceBefore(u, i)' = BalanceBefore(u, i)
  <2>1. CASE i = 1
    BY <2>1 DEF BalanceBefore
  <2>2. CASE i # 1
    <3>1. i - 1 \in 1..n
      BY <2>2, <1>1
    <3> QED BY <2>2, <3>1, <1>0 DEF BalanceBefore
  <2> QED BY <2>1, <2>2
<1>5. ASSUME NEW i \in 1..n
      PROVE  ledger'[u][i].balanceAfter = BalanceBefore(u, i)' + ledger'[u][i].amount
  <2>1. i \in 1..(n + 1)
    BY <1>1
  <2>2. ledger[u][i].balanceAfter = BalanceBefore(u, i) + ledger[u][i].amount
    BY DEF LedgerExplainsBalance
  <2> QED BY <2>1, <2>2, <1>0, <1>4
<1>6. ledger'[u][n + 1].balanceAfter = BalanceBefore(u, n + 1)' + ledger'[u][n + 1].amount
  <2>1. n + 1 \in 1..(n + 1)
    BY <1>1
  <2>2. BalanceBefore(u, n + 1)' = balance[u]
    BY <2>1, <1>2, <1>4
  <2> QED BY <2>2, <1>0 DEF Entry
<1>7. balance'[u] = BalanceBefore(u, n + 2)'
  <2>1. BalanceBefore(u, n + 2)' = ledger'[u][n + 1].balanceAfter
    BY <1>1 DEF BalanceBefore
  <2> QED BY <2>1, <1>0, <1>1 DEF Entry
<1>8. LedgerExplainsBalance'
  <2> SUFFICES ASSUME NEW v \in Users
               PROVE  /\ \A i \in 1..Len(ledger'[v]) :
                           ledger'[v][i].balanceAfter = BalanceBefore(v, i)' + ledger'[v][i].amount
                      /\ balance'[v] = BalanceBefore(v, Len(ledger[v]) + 1)'
    BY DEF LedgerExplainsBalance
  <2>1. CASE v = u
    <3>1. \A i \in 1..(n + 1) : i \in 1..n \/ i = n + 1
      BY <1>1
    <3>2. BalanceBefore(u, Len(ledger[u]) + 1)' = BalanceBefore(u, n + 2)'
      BY <1>0 DEF BalanceBefore
    <3> QED BY <2>1, <3>1, <3>2, <1>0, <1>5, <1>6, <1>7
  <2>2. CASE v # u
    BY <2>2, <1>3
  <2> QED BY <2>1, <2>2
<1>9. OncePerKey'
  <2> SUFFICES ASSUME NEW v \in Users, NEW w \in Users,
                      NEW i \in 1..Len(ledger'[v]), NEW j \in 1..Len(ledger'[w]),
                      ledger'[v][i].key = ledger'[w][j].key, ledger'[v][i].key # NoKey
               PROVE  v = w /\ i = j
    BY DEF OncePerKey
  <2>1. k # NoKey => \A x \in Users : \A h \in 1..Len(ledger[x]) : ledger[x][h].key # k
    BY CommittedRow DEF Moved
  <2>2. ledger'[u][n + 1].key = k
    BY <1>0 DEF Entry
  <2>3. ASSUME NEW x \in Users, NEW h \in 1..Len(ledger'[x])
        PROVE  \/ x = u /\ h = n + 1
               \/ h \in 1..Len(ledger[x]) /\ ledger'[x][h] = ledger[x][h]
    <3>1. CASE x = u
      <4>1. h \in 1..n \/ h = n + 1
        BY <3>1, <1>0
      <4> QED BY <3>1, <4>1, <1>0
    <3>2. CASE x # u
      BY <3>2, <1>0
    <3> QED BY <3>1, <3>2
  <2>4. \/ v = u /\ i = n + 1
        \/ i \in 1..Len(ledger[v]) /\ ledger'[v][i] = ledger[v][i]
    BY <2>3
  <2>5. \/ w = u /\ j = n + 1
        \/ j \in 1..Len(ledger[w]) /\ ledger'[w][j] = ledger[w][j]
    BY <2>3
  <2>6. CASE v = u /\ i = n + 1 /\ ~(w = u /\ j = n + 1)
    BY <2>1, <2>2, <2>5, <2>6
  <2>7. CASE w = u /\ j = n + 1 /\ ~(v = u /\ i = n + 1)
    BY <2>1, <2>2, <2>4, <2>7
  <2>8. CASE ~(v = u /\ i = n + 1) /\ ~(w = u /\ j = n + 1)
    <3>1. /\ i \in 1..Len(ledger[v]) /\ ledger'[v][i] = ledger[v][i]
          /\ j \in 1..Len(ledger[w]) /\ ledger'[w][j] = ledger[w][j]
      BY <2>4, <2>5, <2>8
    <3>2. ledger[v][i].key = ledger[w][j].key /\ ledger[v][i].key # NoKey
      BY <3>1
    <3> QED BY <3>1, <3>2 DEF OncePerKey
  <2>9. CASE v = u /\ i = n + 1 /\ w = u /\ j = n + 1
    BY <2>9
  <2> QED BY <2>6, <2>7, <2>8, <2>9
<1> QED BY <1>8, <1>9

\* Initially nothing has moved.
LEMMA CreditsStart == CreditsInit => CreditsInv
<1> SUFFICES ASSUME CreditsInit PROVE CreditsInv
  OBVIOUS
<1> USE DEF CreditsInit
<1>1. CreditsTypeOK
  BY DEF CreditsTypeOK, Transactions
<1>2. \A u \in Users : Len(ledger[u]) = 0
  OBVIOUS
<1> QED BY <1>1, <1>2 DEF CreditsInv, OpenTransactions, OncePerKey, LedgerExplainsBalance,
                          BalanceBefore, Idle

-----------------------------------------------------------------------------
(* The inductive step *)

\* Committed rows, and with them the committed keys, only change in a movement.
LEMMA QuietLedger ==
  ASSUME LedgerExplainsBalance, OncePerKey, UNCHANGED <<balance, ledger>>
  PROVE  LedgerExplainsBalance' /\ OncePerKey' /\ \A k : Committed(k)' = Committed(k)
<1>1. balance' = balance /\ ledger' = ledger
  OBVIOUS
<1>2. LedgerExplainsBalance'
  BY <1>1 DEF LedgerExplainsBalance, BalanceBefore
<1>3. OncePerKey'
  BY <1>1 DEF OncePerKey
<1>4. \A k : Committed(k)' = Committed(k)
  BY <1>1 DEF Committed
<1> QED BY <1>2, <1>3, <1>4

\* After a movement the committed keys are those of before and the new one.
LEMMA CommittedAfter ==
  ASSUME CreditsTypeOK, NEW u \in Users, NEW amount, NEW k, Moved(u, amount, k),
         NEW other, Committed(other)'
  PROVE  Committed(other) \/ other = k
<1>1. PICK v \in Users : \E i \in DOMAIN ledger'[v] : ledger'[v][i].key = other
  BY DEF Committed
<1>2. PICK i \in DOMAIN ledger'[v] : ledger'[v][i].key = other
  BY <1>1
<1>3. other # NoKey
  BY DEF Committed
<1>4. CASE v # u
  BY <1>2, <1>3, <1>4, AppendedRows DEF Committed
<1>5. CASE v = u
  <2>1. i \in 1..(Len(ledger[u]) + 1) /\ Len(ledger[u]) \in Nat
    BY <1>5, AppendedRows
  <2>2. CASE i = Len(ledger[u]) + 1
    <3>1. ledger'[u][Len(ledger[u]) + 1] = Entry(amount, balance[u] + amount, k)
      BY AppendedRows
    <3>2. Entry(amount, balance[u] + amount, k).key = k
      BY DEF Entry
    <3> QED BY <3>1, <3>2, <2>2, <1>2, <1>5
  <2>3. CASE i \in 1..Len(ledger[u])
    <3>1. ledger[u][i].key = other /\ i \in DOMAIN ledger[u]
      BY <2>3, <1>2, <1>5, AppendedRows DEF CreditsTypeOK
    <3> QED BY <3>1, <1>3 DEF Committed
  <2> QED BY <2>1, <2>2, <2>3
<1> QED BY <1>4, <1>5

\* A debit is a movement of an account no open transaction owns.
LEMMA SpendKeeps ==
  ASSUME CreditsInv, NEW u \in Users, NEW amount \in Amounts, NEW k \in Keys \cup {NoKey},
         Spend(u, amount, k)
  PROVE  CreditsInv'
<1>1. Moved(u, -amount, k)
  BY DEF Spend, Moved, CreditsInv, CreditsTypeOK
<1>2. CreditsTypeOK /\ OncePerKey /\ LedgerExplainsBalance
  BY DEF CreditsInv
<1>3. LedgerExplainsBalance' /\ OncePerKey'
  BY <1>1, <1>2, MovementKeepsLedger
<1>4. tx' = tx /\ tx \in [Txs -> Transactions]
  BY <1>2 DEF Spend, CreditsTypeOK
<1>5. CreditsTypeOK'
  BY <1>1, <1>2, <1>4, AppendedRows DEF CreditsTypeOK
<1>6. \A t \in Txs : tx[t] # Idle => tx[t].user \in Users \ {u}
  BY <1>4, OpenShape DEF Spend, Locked
<1>7. \A t \in Txs : tx[t] # Idle => balance'[tx[t].user] = balance[tx[t].user]
  BY <1>1, <1>2, <1>6, AppendedRows
<1>8. ASSUME NEW t \in Txs, tx[t].pc = "inserted" PROVE ~Committed(tx[t].key)'
  <2>1. ~Committed(tx[t].key)
    BY <1>8 DEF CreditsInv, OpenTransactions
  <2>2. tx[t].key # k \/ tx[t].key = NoKey
    BY <1>8 DEF Spend, Claimed
  <2>3. CASE tx[t].key = NoKey
    BY <2>3, <1>4 DEF Committed
  <2>4. CASE tx[t].key # k
    BY <2>1, <2>4, <1>1, <1>2, <1>4, CommittedAfter
  <2> QED BY <2>2, <2>3, <2>4
<1>9. OpenTransactions'
  BY <1>4, <1>7, <1>8 DEF CreditsInv, OpenTransactions
<1> QED BY <1>3, <1>5, <1>9 DEF CreditsInv

\* A commit is a movement of the account the transaction owns.
LEMMA CommitMoves ==
  ASSUME CreditsInv, NEW t \in Txs, GrantCommit(t)
  PROVE  /\ tx[t] # Idle /\ tx[t].user \in Users /\ tx[t].amount \in Amounts
         /\ tx[t].key \in Keys \cup {NoKey}
         /\ Moved(tx[t].user, tx[t].amount, tx[t].key)
<1>1. tx[t] \in Transactions /\ tx[t] # Idle
  BY DEF GrantCommit, CreditsInv, CreditsTypeOK, Idle
<1>2. /\ tx[t].user \in Users /\ tx[t].amount \in Amounts /\ tx[t].amount \in Nat
      /\ tx[t].key \in Keys \cup {NoKey}
  BY <1>1, OpenShape
<1>3. tx[t].balanceAfter = balance[tx[t].user] + tx[t].amount /\ ~Committed(tx[t].key)
  BY <1>1 DEF GrantCommit, CreditsInv, OpenTransactions
<1>4. balance[tx[t].user] \in Nat
  BY <1>2 DEF CreditsInv, CreditsTypeOK
<1> QED BY <1>1, <1>2, <1>3, <1>4 DEF GrantCommit, Moved

LEMMA CommitKeeps ==
  ASSUME CreditsInv, NEW t \in Txs, GrantCommit(t)
  PROVE  CreditsInv'
<1> DEFINE u == tx[t].user
           k == tx[t].key
<1>1. /\ tx[t] # Idle /\ u \in Users /\ tx[t].amount \in Amounts /\ k \in Keys \cup {NoKey}
      /\ Moved(u, tx[t].amount, k)
  BY CommitMoves
<1>2. CreditsTypeOK /\ OncePerKey /\ LedgerExplainsBalance
  BY DEF CreditsInv
<1>3. LedgerExplainsBalance' /\ OncePerKey'
  BY <1>1, <1>2, MovementKeepsLedger
<1>4. /\ tx' \in [Txs -> Transactions] /\ tx'[t] = Idle
      /\ \A s \in Txs \ {t} : tx'[s] = tx[s]
  BY <1>2 DEF GrantCommit, CreditsTypeOK, Transactions
<1>5. CreditsTypeOK'
  BY <1>1, <1>2, <1>4, AppendedRows DEF CreditsTypeOK
<1>6. \A s \in Txs \ {t} : tx[s] # Idle => tx[s].user \in Users \ {u}
  BY <1>1, <1>2, OpenShape DEF CreditsInv, OpenTransactions, CreditsTypeOK
<1>7. \A s \in Txs \ {t} : tx[s] # Idle => balance'[tx[s].user] = balance[tx[s].user]
  BY <1>1, <1>2, <1>6, AppendedRows
<1>8. ASSUME NEW s \in Txs \ {t}, tx[s].pc = "inserted", NEW key, key = tx[s].key
      PROVE  ~Committed(key)'
  <2>1. ~Committed(key)
    BY <1>8 DEF CreditsInv, OpenTransactions
  <2>2. key # k \/ key = NoKey
    BY <1>8 DEF GrantCommit, CreditsInv, OpenTransactions
  <2>3. CASE key = NoKey
    BY <2>3 DEF Committed
  <2>4. CASE key # k
    BY <2>1, <2>4, <1>1, <1>2, CommittedAfter
  <2> QED BY <2>2, <2>3, <2>4
<1>9. OpenTransactions'
  BY <1>4, <1>7, <1>8 DEF CreditsInv, OpenTransactions, Idle
<1> QED BY <1>3, <1>5, <1>9 DEF CreditsInv

\* Every step keeps the invariant.
LEMMA CreditsStep == CreditsInv /\ [CreditsNext]_creditVars => CreditsInv'
<1> SUFFICES ASSUME CreditsInv, [CreditsNext]_creditVars PROVE CreditsInv'
  OBVIOUS
<1>0. CreditsTypeOK /\ OncePerKey /\ LedgerExplainsBalance /\ OpenTransactions
  BY DEF CreditsInv
<1>1. ASSUME NEW u \in Users, NEW amount \in Amounts, NEW k \in Keys \cup {NoKey},
             Spend(u, amount, k)
      PROVE  CreditsInv'
  BY <1>1, SpendKeeps
<1>2. ASSUME NEW u \in Users, NEW amount \in Amounts, NEW k \in Keys \cup {NoKey},
             NEW t \in Txs, GrantUpdate(t, u, amount, k)
      PROVE  CreditsInv'
  <2> DEFINE new == [pc |-> "credited", user |-> u, amount |-> amount,
                     balanceAfter |-> balance[u] + amount, key |-> k]
  <2>1. new \in Transactions
    BY <1>0 DEF Transactions, CreditsTypeOK
  <2>2. tx' = [tx EXCEPT ![t] = new] /\ balance' = balance /\ ledger' = ledger
    BY <1>2 DEF GrantUpdate
  <2>3. LedgerExplainsBalance' /\ OncePerKey' /\ \A x : Committed(x)' = Committed(x)
    BY <2>2, <1>0, QuietLedger
  <2>4. CreditsTypeOK'
    BY <2>1, <2>2, <1>0 DEF CreditsTypeOK
  <2>5. \A s \in Txs : tx[s] # Idle => tx[s].user # u
    BY <1>2 DEF GrantUpdate, Locked
  <2>6. OpenTransactions'
    BY <2>2, <2>3, <2>5, <1>0 DEF OpenTransactions, CreditsTypeOK
  <2> QED BY <2>3, <2>4, <2>6 DEF CreditsInv
<1>3. ASSUME NEW t \in Txs, GrantInsert(t) PROVE CreditsInv'
  <2>1. balance' = balance /\ ledger' = ledger
    BY <1>3 DEF GrantInsert
  <2>2. LedgerExplainsBalance' /\ OncePerKey' /\ \A x : Committed(x)' = Committed(x)
    BY <2>1, <1>0, QuietLedger
  <2>3. tx[t] \in Transactions /\ tx[t] # Idle
    BY <1>3, <1>0 DEF GrantInsert, CreditsTypeOK, Idle
  <2>4. CASE Committed(tx[t].key)
    <3>1. tx' = [tx EXCEPT ![t] = Idle]
      BY <2>4, <1>3 DEF GrantInsert
    <3>2. CreditsTypeOK'
      BY <3>1, <2>1, <1>0 DEF CreditsTypeOK, Transactions
    <3>3. OpenTransactions'
      BY <3>1, <2>1, <2>2, <1>0 DEF OpenTransactions, CreditsTypeOK, Idle
    <3> QED BY <3>2, <3>3, <2>2 DEF CreditsInv
  <2>5. CASE ~Committed(tx[t].key)
    <3> DEFINE new == [tx[t] EXCEPT !.pc = "inserted"]
    <3>1. tx' = [tx EXCEPT ![t] = new]
      BY <2>5, <1>3, <1>0 DEF GrantInsert, CreditsTypeOK
    <3>2. /\ new \in Transactions /\ new # Idle /\ new.pc = "inserted"
          /\ new.user = tx[t].user /\ new.key = tx[t].key
          /\ new.amount = tx[t].amount /\ new.balanceAfter = tx[t].balanceAfter
      BY <2>3, OpenShape
    <3> HIDE DEF new
    <3>3. CreditsTypeOK'
      BY <3>1, <3>2, <2>1, <1>0 DEF CreditsTypeOK
    <3>4. \A s \in Txs : tx[s].pc = "inserted" /\ tx[s].key = tx[t].key => tx[t].key = NoKey
      BY <1>3 DEF GrantInsert, Claimed
    <3>5. /\ tx'[t] = new /\ \A s \in Txs \ {t} : tx'[s] = tx[s]
      BY <3>1, <1>0 DEF CreditsTypeOK
    <3>6. OpenTransactions'
      BY <3>2, <3>4, <3>5, <2>1, <2>2, <2>3, <2>5, <1>0 DEF OpenTransactions
    <3> QED BY <3>3, <3>6, <2>2 DEF CreditsInv
  <2> QED BY <2>4, <2>5
<1>4. ASSUME NEW t \in Txs, GrantCommit(t) PROVE CreditsInv'
  BY <1>4, CommitKeeps
<1>5. ASSUME NEW t \in Txs, GrantAbort(t) PROVE CreditsInv'
  <2>1. balance' = balance /\ ledger' = ledger /\ tx' = [tx EXCEPT ![t] = Idle]
    BY <1>5 DEF GrantAbort
  <2>2. LedgerExplainsBalance' /\ OncePerKey' /\ \A x : Committed(x)' = Committed(x)
    BY <2>1, <1>0, QuietLedger
  <2>3. CreditsTypeOK'
    BY <2>1, <1>0 DEF CreditsTypeOK, Transactions
  <2>4. OpenTransactions'
    BY <2>1, <2>2, <1>0 DEF OpenTransactions, CreditsTypeOK, Idle
  <2> QED BY <2>2, <2>3, <2>4 DEF CreditsInv
<1>6. ASSUME UNCHANGED creditVars PROVE CreditsInv'
  <2>1. balance' = balance /\ ledger' = ledger /\ tx' = tx
    BY <1>6 DEF creditVars
  <2>2. LedgerExplainsBalance' /\ OncePerKey' /\ \A x : Committed(x)' = Committed(x)
    BY <2>1, <1>0, QuietLedger
  <2> QED BY <2>1, <2>2, <1>0 DEF CreditsInv, CreditsTypeOK, OpenTransactions
<1> QED BY <1>1, <1>2, <1>3, <1>4, <1>5, <1>6 DEF CreditsNext

\* Whatever transactions interleave and abort: no account is overdrawn (a balance is a
\* natural number), the ledger explains every balance, and a key moves credits once.
THEOREM CreditsAreSound ==
  CreditsSpec => [](CreditsTypeOK /\ LedgerExplainsBalance /\ OncePerKey)
<1>1. CreditsInv => CreditsTypeOK /\ LedgerExplainsBalance /\ OncePerKey
  BY DEF CreditsInv
<1> QED BY <1>1, CreditsStart, CreditsStep, PTL DEF CreditsSpec

-----------------------------------------------------------------------------
(* Refinement *)

\* What is in the book, row by row.
LEMMA BookEntry ==
  ASSUME NEW e
  PROVE  e \in Book <=> \E u \in Users : \E i \in 1..Len(ledger[u]) :
                          /\ ledger[u][i].key # NoKey
                          /\ e = [user |-> u, amount |-> ledger[u][i].amount, key |-> ledger[u][i].key]
  BY DEF Book

\* A key that no row has is not in the book.
LEMMA FreeKey ==
  ASSUME CreditsTypeOK, NEW k, ~Committed(k)
  PROVE  ~Atomic!Posted(k)
<1> SUFFICES ASSUME NEW e \in Book, e.key = k PROVE FALSE
  BY DEF Atomic!Posted
<1>1. PICK u \in Users : \E i \in 1..Len(ledger[u]) :
        /\ ledger[u][i].key # NoKey
        /\ e = [user |-> u, amount |-> ledger[u][i].amount, key |-> ledger[u][i].key]
  BY BookEntry
<1>2. PICK i \in 1..Len(ledger[u]) :
        /\ ledger[u][i].key # NoKey
        /\ e = [user |-> u, amount |-> ledger[u][i].amount, key |-> ledger[u][i].key]
  BY <1>1
<1> QED BY <1>2, CommittedRow

\* A movement adds its entry to the book, if it has a key, and nothing else.
LEMMA BookAfterMovement ==
  ASSUME CreditsTypeOK, NEW u \in Users, NEW amount, NEW k, Moved(u, amount, k)
  PROVE  Book' = IF k = NoKey THEN Book
                 ELSE Book \cup {[user |-> u, amount |-> amount, key |-> k]}
<1> DEFINE Is(e, v, row) == /\ row.key # NoKey
                            /\ e = [user |-> v, amount |-> row.amount, key |-> row.key]
<1> PICK n \in Nat : n = Len(ledger[u])
  BY DEF CreditsTypeOK
<1>1. /\ Len(ledger'[u]) = n + 1
      /\ \A i \in 1..n : ledger'[u][i] = ledger[u][i]
      /\ \A v \in Users \ {u} : ledger'[v] = ledger[v]
  BY AppendedRows
<1>2. ledger'[u][n + 1].amount = amount /\ ledger'[u][n + 1].key = k
  <2>1. ledger'[u][n + 1] = Entry(amount, balance[u] + amount, k)
    BY AppendedRows
  <2> QED BY <2>1 DEF Entry
<1>3. \A e : e \in Book <=> \E v \in Users : \E i \in 1..Len(ledger[v]) : Is(e, v, ledger[v][i])
  BY BookEntry
<1>4. \A e : e \in Book' <=> \E v \in Users : \E i \in 1..Len(ledger'[v]) : Is(e, v, ledger'[v][i])
  BY DEF Book
<1> HIDE DEF Is
<1>5. ASSUME NEW e, e \in Book PROVE e \in Book'
  <2>1. PICK v \in Users : \E i \in 1..Len(ledger[v]) : Is(e, v, ledger[v][i])
    BY <1>3, <1>5
  <2>2. PICK i \in 1..Len(ledger[v]) : Is(e, v, ledger[v][i])
    BY <2>1
  <2>3. i \in 1..Len(ledger'[v]) /\ ledger'[v][i] = ledger[v][i]
    <3>1. CASE v = u
      BY <3>1, <1>1
    <3>2. CASE v # u
      BY <3>2, <1>1
    <3> QED BY <3>1, <3>2
  <2> QED BY <2>2, <2>3, <1>4
<1>6. ASSUME NEW e, e \in Book', e \notin Book PROVE Is(e, u, ledger'[u][n + 1])
  <2>1. PICK v \in Users : \E i \in 1..Len(ledger'[v]) : Is(e, v, ledger'[v][i])
    BY <1>4, <1>6
  <2>2. PICK i \in 1..Len(ledger'[v]) : Is(e, v, ledger'[v][i])
    BY <2>1
  <2>3. CASE v # u
    BY <2>2, <2>3, <1>1, <1>3, <1>6
  <2>4. CASE v = u /\ i \in 1..n
    <3>1. ledger'[v][i] = ledger[v][i] /\ i \in 1..Len(ledger[v])
      BY <2>4, <1>1
    <3> QED BY <3>1, <2>2, <1>3, <1>6
  <2>5. v = u => i \in 1..n \/ i = n + 1
    BY <1>1
  <2> QED BY <2>2, <2>3, <2>4, <2>5
<1>7. ASSUME NEW e, Is(e, u, ledger'[u][n + 1]) PROVE e \in Book'
  <2>1. n + 1 \in 1..Len(ledger'[u])
    BY <1>1
  <2> QED BY <2>1, <1>4, <1>7
<1>8. \A e : Is(e, u, ledger'[u][n + 1]) <=>
               k # NoKey /\ e = [user |-> u, amount |-> amount, key |-> k]
  BY <1>2 DEF Is
<1>9. \A e : e \in Book' <=> e \in Book \/ (k # NoKey /\ e = [user |-> u, amount |-> amount, key |-> k])
  BY <1>5, <1>6, <1>7, <1>8
<1>10. CASE k = NoKey
  BY <1>9, <1>10
<1>11. CASE k # NoKey
  BY <1>9, <1>11
<1> QED BY <1>10, <1>11

\* A movement is an abstract posting.
LEMMA MovementPosts ==
  ASSUME CreditsTypeOK, NEW u \in Users, NEW amount, NEW k, Moved(u, amount, k)
  PROVE  Atomic!Post(u, amount, k)
<1>1. balance' = [balance EXCEPT ![u] = @ + amount] /\ balance[u] + amount >= 0
  BY DEF Moved, Apply, Entry, CreditsTypeOK
<1>2. ~Atomic!Posted(k)
  BY FreeKey DEF Moved
<1> QED BY <1>1, <1>2, BookAfterMovement DEF Atomic!Post

\* Every step is a posting or leaves the ledger alone.
LEMMA StepPosts == CreditsInv /\ [CreditsNext]_creditVars => [Atomic!LedgerNext]_Atomic!ledgerVars
<1> SUFFICES ASSUME CreditsInv, [CreditsNext]_creditVars
             PROVE  Atomic!LedgerNext \/ UNCHANGED Atomic!ledgerVars
  OBVIOUS
<1>0. CreditsTypeOK
  BY DEF CreditsInv
<1>1. ASSUME UNCHANGED <<balance, ledger>> PROVE UNCHANGED Atomic!ledgerVars
  BY <1>1 DEF Atomic!ledgerVars, Book
<1>2. ASSUME NEW u \in Users, NEW amount \in Amounts, NEW k \in Keys \cup {NoKey},
             Spend(u, amount, k)
      PROVE  Atomic!LedgerNext
  <2>1. Moved(u, -amount, k)
    BY <1>2, <1>0 DEF Spend, Moved, CreditsTypeOK
  <2> QED BY <2>1, <1>0, MovementPosts DEF Atomic!LedgerNext
<1>3. ASSUME NEW t \in Txs, GrantCommit(t) PROVE Atomic!LedgerNext
  BY <1>3, <1>0, CommitMoves, MovementPosts DEF Atomic!LedgerNext
<1>4. CASE UNCHANGED creditVars
  BY <1>1, <1>4 DEF creditVars
<1>5. ASSUME NEW u \in Users, NEW amount \in Amounts, NEW k \in Keys \cup {NoKey},
             NEW t \in Txs, GrantUpdate(t, u, amount, k)
      PROVE  UNCHANGED Atomic!ledgerVars
  BY <1>1, <1>5 DEF GrantUpdate
<1>6. ASSUME NEW t \in Txs, GrantInsert(t) \/ GrantAbort(t) PROVE UNCHANGED Atomic!ledgerVars
  BY <1>1, <1>6 DEF GrantInsert, GrantAbort
<1> QED BY <1>2, <1>3, <1>4, <1>5, <1>6 DEF CreditsNext

\* The grants and spends of CreditsService, with their transactions, aborts and waits,
\* implement the atomic ledger.
THEOREM CreditsImplementLedger == CreditsSpec => AtomicMovements
<1>1. CreditsInit => Atomic!LedgerInit
  <2> SUFFICES ASSUME CreditsInit PROVE Atomic!LedgerInit
    OBVIOUS
  <2>1. balance \in [Users -> Nat]
    BY DEF CreditsInit
  <2>2. \A u \in Users : Len(ledger[u]) = 0
    BY DEF CreditsInit
  <2>3. Book = {}
    BY <2>2 DEF Book
  <2> QED BY <2>1, <2>3 DEF Atomic!LedgerInit
<1> QED BY <1>1, CreditsStart, CreditsStep, StepPosts, PTL
        DEF CreditsSpec, AtomicMovements, Atomic!LedgerSpec
=============================================================================
