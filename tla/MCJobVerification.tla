------------------------- MODULE MCJobVerification -------------------------
(* Small instances of JobVerification for TLC. *)
EXTENDS JobVerification, TLC

CONSTANTS j1, j2, n1, n2, c1, v1, v2, requester, alice, bob

CapacityTwo == [n \in Nodes |-> 2]
AllSuitable == [j \in Jobs |-> Nodes]
AllActive == [n \in Nodes |-> "ACTIVE"]
AllOnProbation == [n \in Nodes |-> "PROBATION"]

OneRequester == [j \in Jobs |-> requester]
OwnerEach == [n \in Nodes |-> IF n = n1 THEN alice ELSE bob]
CostTwo == [j \in Jobs |-> 2]
RewardOne == [j \in Jobs |-> 1]
StakeOne == [n \in Nodes |-> 1]
AlwaysReference == [j \in Jobs |-> {TRUE}]
SecondMaybeChecked == [j \in Jobs |-> IF j = j1 THEN {TRUE} ELSE BOOLEAN]
AliceHasOne == [u \in Users |-> IF u = alice THEN 1 ELSE 0]
RequesterHasTwo == [u \in Users |-> IF u = requester THEN 2 ELSE 0]

CONSTANT Placed  \* jobs that are running on n1 when the model starts

\* A state some time after VerifyInit: n1 is online and runs the jobs in Placed.
WarmInit ==
  /\ job = [j \in Jobs |-> IF j \in Placed
                           THEN [status |-> "RUNNING", node |-> n1, attempt |-> 1, lease |-> "live"]
                           ELSE [status |-> "NONE", node |-> NoNode, attempt |-> 0, lease |-> "none"]]
  /\ running = {[stage |-> "started", job |-> j, node |-> n1, attempt |-> 1, claim |-> 1] : j \in Placed}
  /\ todo = {} /\ calls = [c \in Calls |-> Idle] /\ sockets = {n1} /\ net = {}
  /\ lifecycle = FirstLifecycle
  /\ balance = FirstBalance
  /\ book = {}
  /\ order = [j \in Jobs |-> IF j \in Placed THEN "created" ELSE "new"]
  /\ result = [j \in Jobs |-> NoResult]
  /\ trust = [n \in Nodes |-> [passes |-> 0, outstanding |-> 0, stakeRefunded |-> FALSE]]
  /\ verif = [v \in Verifiers |-> Free]
  /\ produced = [j \in Jobs |-> {}]

\* Two scenarios in one run, chosen at the start: both jobs at n1, each claimed once, or one job
\* that can be claimed twice, by two nodes.
VARIABLE scenario

Scenarios ==
  /\ scenario = "one node" => sockets \subseteq {n1} /\ \A j \in Jobs : job[j].attempt <= 1
  /\ scenario = "one job" => order[j2] = "new"

ScenarioInit == WarmInit /\ scenario \in {"one node", "one job"}
ScenarioNext == UNCHANGED scenario /\ VerifyNext /\ Scenarios'

ScenarioSpec == ScenarioInit /\ [][ScenarioNext]_<<verifyVars, scenario>>

VerifierSymmetry == Permutations(Verifiers)
=============================================================================
