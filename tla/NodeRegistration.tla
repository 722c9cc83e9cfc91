--------------------------- MODULE NodeRegistration ---------------------------
(***************************************************************************)
(* nodes.service.ts, register: an owner claims a node slot, pays the stake  *)
(* and gets a node, in three transactions with compensations that may fail  *)
(* themselves; the process may stop between any two of them.                *)
(*                                                                         *)
(* A statement that fails is taken to have changed nothing.                 *)
(***************************************************************************)
EXTENDS Integers, FiniteSets

CONSTANTS
  Enrolments,  \* calls of register by one owner
  NodeCap,     \* NODE_MAX_PER_OWNER
  NodeStake,   \* NODE_STAKE_CREDITS
  FirstPurse   \* the owner's credits at the start

ASSUME RegistrationAssumption ==
  /\ IsFiniteSet(Enrolments)
  /\ NodeCap \in Nat \ {0} /\ NodeStake \in Nat /\ FirstPurse \in Nat

VARIABLES
  nodeCount,  \* ownerReputation.nodeCount
  purse,      \* the owner's creditBalance
  enrol,      \* enrol[e]: how far a call is
  staked      \* calls whose computeNode row exists; its stakeCredits is NodeStake

registrationVars == <<nodeCount, purse, enrol, staked>>

EnrolTo(e, s) == enrol' = [enrol EXCEPT ![e] = s]

RegistrationInit ==
  /\ nodeCount = 0 /\ purse = FirstPurse /\ staked = {}
  /\ enrol = [e \in Enrolments |-> "new"]

\* The upsert of the owner's row, which exists from then on.
RegisterNode(e) ==
  /\ enrol[e] = "new" /\ EnrolTo(e, "claim")
  /\ UNCHANGED <<nodeCount, purse, staked>>

AfterClaim == IF NodeStake > 0 THEN "spend" ELSE "create"

ClaimSlot(e) ==
  /\ enrol[e] = "claim"
  /\ IF nodeCount < NodeCap
     THEN nodeCount' = nodeCount + 1 /\ EnrolTo(e, AfterClaim)
     ELSE EnrolTo(e, "refused") /\ UNCHANGED nodeCount
  /\ UNCHANGED <<purse, staked>>

\* CreditsService.spend is one conditional statement.
SpendStake(e) ==
  /\ enrol[e] = "spend" /\ purse >= NodeStake
  /\ purse' = purse - NodeStake /\ EnrolTo(e, "create")
  /\ UNCHANGED <<nodeCount, staked>>
\* The balance is short, or the database fails.
SpendFails(e) ==
  /\ enrol[e] = "spend" /\ EnrolTo(e, "return")
  /\ UNCHANGED <<nodeCount, purse, staked>>

CreateNode(e) ==
  /\ enrol[e] = "create" /\ EnrolTo(e, "registered")
  /\ staked' = staked \cup {e}
  /\ UNCHANGED <<nodeCount, purse>>
\* Broken variant (mutation check): `finally` instead of `catch`.
CreateNodeFinally(e) ==
  /\ enrol[e] = "create" /\ EnrolTo(e, IF NodeStake > 0 THEN "refund" ELSE "return")
  /\ staked' = staked \cup {e}
  /\ UNCHANGED <<nodeCount, purse>>
CreateNodeFails(e) ==
  /\ enrol[e] = "create" /\ EnrolTo(e, IF NodeStake > 0 THEN "refund" ELSE "return")
  /\ UNCHANGED <<nodeCount, purse, staked>>

\* Both compensations swallow their own failure.
RefundStake(e) ==
  /\ enrol[e] = "refund" /\ EnrolTo(e, "return")
  /\ purse' \in {purse, purse + NodeStake}
  /\ UNCHANGED <<nodeCount, staked>>
ReturnSlot(e) ==
  /\ enrol[e] = "return" /\ EnrolTo(e, "refused")
  /\ nodeCount' \in {nodeCount, nodeCount - 1}
  /\ UNCHANGED <<purse, staked>>
\* The process stops: nothing goes on with the calls under way.
RegistrationStops ==
  /\ \E e \in Enrolments : enrol[e] \notin {"new", "registered", "refused"}
  /\ enrol' = [e \in Enrolments |-> IF enrol[e] \in {"new", "registered"} THEN enrol[e] ELSE "refused"]
  /\ UNCHANGED <<nodeCount, purse, staked>>

RegistrationNext ==
  \/ \E e \in Enrolments :
       \/ RegisterNode(e) \/ ClaimSlot(e) \/ SpendStake(e) \/ SpendFails(e)
       \/ CreateNode(e) \/ CreateNodeFails(e) \/ RefundStake(e) \/ ReturnSlot(e)
  \/ RegistrationStops

RegistrationSpec == RegistrationInit /\ [][RegistrationNext]_registrationVars

-----------------------------------------------------------------------------
(* Properties *)

RegistrationTypeOK ==
  /\ nodeCount \in 0 .. NodeCap /\ purse \in 0 .. FirstPurse
  /\ staked \subseteq Enrolments
  /\ enrol \in [Enrolments -> {"new", "claim", "spend", "create", "refund", "return",
                               "registered", "refused"}]

\* What a compensation or a stop left behind is to the owner's cost, never in the owner's favour:
\* every node has a slot, which the calls under way do not count on, and its stake was paid and
\* not given back.
NodesArePaid ==
  LET holding(states) == {e \in Enrolments : enrol[e] \in states} IN
  /\ Cardinality(staked) + Cardinality(holding({"spend", "create", "refund", "return"}))
       <= nodeCount
  /\ nodeCount <= NodeCap
  /\ purse + NodeStake * (Cardinality(staked) + Cardinality(holding({"create", "refund"})))
       <= FirstPurse
=============================================================================
