-------------------------- MODULE VerificationProofs --------------------------
(***************************************************************************)
(* What holds of JobVerification for every set of jobs, nodes, accounts     *)
(* and concurrent verifications, and any prices, stakes and thresholds.     *)
(***************************************************************************)
EXTENDS JobVerification, JobSchedulerProofs

USE VerificationAssumption DEF VerificationAssumption

-----------------------------------------------------------------------------
(* Types *)

\* An activation of the verifier in a given phase has the fields of that phase.
LEMMA VerificationShape ==
  ASSUME NEW a \in Verifications
  PROVE  /\ a.pc \in {"claim", "job"} => a.job \in Jobs /\ a.output \in Outputs
         /\ a.pc = "node" => a.job \in Jobs /\ a.output \in Outputs /\ a.node \in Nodes
         /\ a.pc = "judge" => /\ a.job \in Jobs /\ a.output \in Outputs /\ a.node \in Nodes
                              /\ a.lifecycle \in Lifecycles /\ a.row \in Trusts
         /\ a.pc \in {"verified", "reward", "track", "flag", "account", "stake", "stakeflag", "finalize"} =>
              /\ a.job \in Jobs /\ a.node \in Nodes /\ a.how \in {"trusted", "provisional", "strict"}
              /\ a.row \in Trusts /\ a.graduate \in BOOLEAN
         /\ a.pc = "slash" => a.job \in Jobs /\ a.node \in Nodes /\ a.row \in Trusts
         /\ a.pc \in {"clawback", "suspend", "refund", "fail", "audit"} =>
              a.job \in Jobs /\ a.node \in Nodes /\ a.take \in Nat
         /\ a.pc = "next" => a.node \in Nodes /\ a.left \in SUBSET Prior
         /\ a.pc \in {"auditclawback", "auditrefund", "auditfail", "auditrecord"} =>
              /\ a.job \in Jobs /\ a.node \in Nodes /\ a.take \in Nat /\ a.left \in SUBSET Prior
  BY DEF Verifications, Free

\* Going on to the next phase of the same kind keeps the type.
LEMMA VerificationSteps ==
  ASSUME NEW a \in Verifications
  PROVE  /\ a.pc = "claim" => [a EXCEPT !.pc = "job"] \in Verifications
         /\ a.pc \in {"verified", "reward", "track", "flag", "account", "stake", "stakeflag", "finalize"} =>
              \A p \in {"reward", "track", "flag", "account", "stake", "stakeflag", "finalize"} :
                [a EXCEPT !.pc = p] \in Verifications
         /\ a.pc \in {"clawback", "suspend", "refund", "fail", "audit"} =>
              \A p \in {"suspend", "refund", "fail", "audit"} : [a EXCEPT !.pc = p] \in Verifications
         /\ a.pc \in {"auditclawback", "auditrefund", "auditfail", "auditrecord"} =>
              \A p \in {"auditrefund", "auditfail", "auditrecord"} : [a EXCEPT !.pc = p] \in Verifications
<1>1. a.pc = "claim" => [a EXCEPT !.pc = "job"] \in Verifications
  BY DEF Verifications, Free
<1>2. a.pc \in {"verified", "reward", "track", "flag", "account", "stake", "stakeflag", "finalize"} =>
        \A p \in {"reward", "track", "flag", "account", "stake", "stakeflag", "finalize"} :
          [a EXCEPT !.pc = p] \in Verifications
  BY DEF Verifications, Free
<1>3. a.pc \in {"clawback", "suspend", "refund", "fail", "audit"} =>
        \A p \in {"suspend", "refund", "fail", "audit"} : [a EXCEPT !.pc = p] \in Verifications
  BY DEF Verifications, Free
<1>4. a.pc \in {"auditclawback", "auditrefund", "auditfail", "auditrecord"} =>
        \A p \in {"auditrefund", "auditfail", "auditrecord"} : [a EXCEPT !.pc = p] \in Verifications
  BY DEF Verifications, Free
<1> QED BY <1>1, <1>2, <1>3, <1>4

\* The initial state is well typed.
LEMMA VerifyTypeInit == VerifyInit => VerifyTypeOK /\ ActiveIsLeased
<1> SUFFICES ASSUME VerifyInit PROVE VerifyTypeOK /\ ActiveIsLeased
  OBVIOUS
<1>1. SchedTypeOK
  BY TypeInit DEF VerifyInit
<1>2. ActiveIsLeased
  BY DEF VerifyInit, SchedInit, ActiveIsLeased, Active
<1>3. verif \in [Verifiers -> Verifications]
  BY DEF VerifyInit, Verifications
<1>4. result \in [Jobs -> Results] /\ trust \in [Nodes -> Trusts]
  BY DEF VerifyInit, Results, NoResult, Trusts, Verdicts
<1> QED BY <1>1, <1>2, <1>3, <1>4 DEF VerifyInit, VerifyTypeOK

\* The steps of the verifier that touch the grid write a settled status, or a lifecycle.
LEMMA VerifierAndGrid ==
  ASSUME VerifyTypeOK, NEW v \in Verifiers, VerifyStep(v)
  PROVE  /\ UNCHANGED gridVars
         /\ \/ job' = job
            \/ \E j \in Jobs, s \in {"VERIFYING", "VERIFIED", "REWARDED", "FAILED"} :
                 job' = [job EXCEPT ![j].status = s]
         /\ \/ lifecycle' = lifecycle
            \/ \E n \in Nodes, s \in Lifecycles : lifecycle' = [lifecycle EXCEPT ![n] = s]
<1>1. verif[v] \in Verifications
  BY DEF VerifyTypeOK
<1> DEFINE Grid == /\ UNCHANGED gridVars
                   /\ \/ job' = job
                      \/ \E j \in Jobs, s \in {"VERIFYING", "VERIFIED", "REWARDED", "FAILED"} :
                           job' = [job EXCEPT ![j].status = s]
                   /\ \/ lifecycle' = lifecycle
                      \/ \E n \in Nodes, s \in Lifecycles : lifecycle' = [lifecycle EXCEPT ![n] = s]
<1>2. ASSUME UNCHANGED schedVars PROVE Grid
  BY <1>2 DEF schedVars, gridVars
<1>3. ASSUME ClaimResult(v) PROVE Grid
  BY <1>1, <1>3, VerificationShape DEF ClaimResult, SetStatus, At
<1>4. ASSUME MarkVerified(v) PROVE Grid
  BY <1>1, <1>4, VerificationShape DEF MarkVerified, SetStatus, At
<1>5. ASSUME AccountNode(v) PROVE Grid
  BY <1>1, <1>5, VerificationShape DEF AccountNode, At, Lifecycles
<1>6. ASSUME Finalize(v) PROVE Grid
  BY <1>1, <1>6, VerificationShape DEF Finalize, SetStatus, At
<1>7. ASSUME Suspend(v) PROVE Grid
  BY <1>1, <1>7, VerificationShape DEF Suspend, At, Lifecycles
<1>8. ASSUME FailJob(v) PROVE Grid
  BY <1>1, <1>8, VerificationShape DEF FailJob, SetStatus, At
<1>9. ASSUME AuditFail(v) PROVE Grid
  BY <1>1, <1>9, VerificationShape DEF AuditFail, SetStatus, At
<1> HIDE DEF Grid
<1>10. Grid
  BY <1>2, <1>3, <1>4, <1>5, <1>6, <1>7, <1>8, <1>9
  DEF VerifyStep, ReadResultRow, ReadNodeRow, Judge, PayReward, TrackOutstanding, FlagOptimistic,
      RefundStake, FlagStake, ReadBalance, Clawback, RefundRequester, ReadPast, AuditNext,
      AuditClawback, AuditRefund, AuditRecord
<1> QED BY <1>10 DEF Grid

\* For the grid, a step of the composition is one of the scheduler, or one of the verifier.
LEMMA GridSteps ==
  ASSUME [VerifyNext]_verifyVars
  PROVE  [SchedNext]_schedVars \/ \E v \in Verifiers : VerifyStep(v)
<1>1. ASSUME NEW j \in Jobs, Charge(j) \/ CreateCharged(j) \/ CreateFails(j) PROVE [SchedNext]_schedVars
  BY <1>1 DEF Charge, CreateCharged, CreateFails, SchedNext
<1>2. ASSUME NEW v \in Verifiers, NEW m \in net, NEW o \in Outputs, CompleteWith(v, m, o)
      PROVE  [SchedNext]_schedVars
  BY <1>2 DEF CompleteWith, SchedNext
<1>3. ASSUME RestartAll PROVE [SchedNext]_schedVars
  BY <1>3 DEF RestartAll, SchedNext
<1>4. ASSUME UNCHANGED verifyVars PROVE [SchedNext]_schedVars
  BY <1>4 DEF verifyVars
<1>5. ASSUME SchedOther PROVE [SchedNext]_schedVars
  BY <1>5 DEF SchedNext
<1> QED BY <1>1, <1>2, <1>3, <1>4, <1>5 DEF VerifyNext

\* The scheduler's invariants survive what the verifier writes.
LEMMA GridTypes ==
  VerifyTypeOK /\ ActiveIsLeased /\ [VerifyNext]_verifyVars => SchedTypeOK' /\ ActiveIsLeased'
<1> SUFFICES ASSUME VerifyTypeOK, ActiveIsLeased, [VerifyNext]_verifyVars
             PROVE  SchedTypeOK' /\ ActiveIsLeased'
  OBVIOUS
<1>0. SchedTypeOK
  BY DEF VerifyTypeOK
<1>1. CASE [SchedNext]_schedVars
  BY <1>0, <1>1, TypeStep, LeasedStep
<1>2. ASSUME NEW v \in Verifiers, VerifyStep(v) PROVE SchedTypeOK' /\ ActiveIsLeased'
  <2>1. UNCHANGED gridVars
    BY <1>2, VerifierAndGrid
  <2>2. lifecycle' \in [Nodes -> Lifecycles]
    BY <1>0, <1>2, VerifierAndGrid DEF SchedTypeOK
  <2>3. CASE job' = job
    BY <1>0, <2>1, <2>2, <2>3 DEF SchedTypeOK, ActiveIsLeased, gridVars
  <2>4. ASSUME NEW j \in Jobs, NEW s \in {"VERIFYING", "VERIFIED", "REWARDED", "FAILED"},
               job' = [job EXCEPT ![j].status = s]
        PROVE  SchedTypeOK' /\ ActiveIsLeased'
    <3>1. job' \in [Jobs -> Rows]
      BY <1>0, <2>4 DEF SchedTypeOK, Rows, Statuses
    <3>2. \A i \in Jobs : /\ i # j => job'[i] = job[i]
                          /\ i = j => job'[i].status = s
      BY <1>0, <2>4 DEF SchedTypeOK, Rows
    <3> QED BY <1>0, <2>1, <2>2, <3>1, <3>2 DEF SchedTypeOK, ActiveIsLeased, gridVars, Active
  <2> QED BY <1>2, <2>3, <2>4, VerifierAndGrid
<1> QED BY <1>1, <1>2, GridSteps

-----------------------------------------------------------------------------
(* Credits *)

\* A posting adds to the book at most its own row, and never overdraws.
LEMMA Posting ==
  ASSUME balance \in [Users -> Nat], book \subseteq [user : Users, amount : Int, key : Keys],
         NEW u \in Users, NEW amount \in Int, NEW k \in Keys \cup {NoKey},
         Post(u, amount, k) \/ PostOrSkip(u, amount, k)
  PROVE  /\ balance' \in [Users -> Nat]
         /\ book' \subseteq [user : Users, amount : Int, key : Keys]
         /\ book \subseteq book'
         /\ \A e \in book' \ book : e.key = k /\ k # NoKey
<1>1. ASSUME Post(u, amount, k)
      PROVE  /\ balance' \in [Users -> Nat]
             /\ book' \in {book, book \cup {[user |-> u, amount |-> amount, key |-> k]}}
             /\ k = NoKey => book' = book
  BY <1>1 DEF Post, Ledger!Post
<1>2. ASSUME UNCHANGED moneyVars
      PROVE  balance' \in [Users -> Nat] /\ book' = book
  BY <1>2 DEF moneyVars
<1> QED BY <1>1, <1>2 DEF PostOrSkip

\* The keys that postings carry.
LEMMA KeysOf ==
  ASSUME NEW j \in Jobs, NEW n \in Nodes
  PROVE  {Key("reward", j), Key("clawback", j), Key("refund", j), Key("stakerefund", n)} \subseteq Keys
  BY DEF Keys, Key

\* No step overdraws an account, and the book only grows.
LEMMA MoneyTypes ==
  ASSUME VerifyTypeOK, [VerifyNext]_verifyVars
  PROVE  /\ balance' \in [Users -> Nat]
         /\ book' \subseteq [user : Users, amount : Int, key : Keys]
         /\ book \subseteq book'
<1> DEFINE Goal == /\ balance' \in [Users -> Nat]
                   /\ book' \subseteq [user : Users, amount : Int, key : Keys]
                   /\ book \subseteq book'
<1>0. ASSUME NEW u \in Users, NEW amount \in Int, NEW k \in Keys \cup {NoKey},
             Post(u, amount, k) \/ PostOrSkip(u, amount, k)
      PROVE  Goal
  BY <1>0, Posting DEF VerifyTypeOK
<1>1. ASSUME UNCHANGED moneyVars PROVE Goal
  BY <1>1 DEF moneyVars, VerifyTypeOK
<1> HIDE DEF Goal
<1>2. ASSUME NEW j \in Jobs, Charge(j) \/ CreateFails(j) PROVE Goal
  <2>1. Requester[j] \in Users /\ Cost[j] \in Int /\ -Cost[j] \in Int
    OBVIOUS
  <2> QED BY <1>0, <1>2, <2>1 DEF Charge, CreateFails
<1>3. ASSUME NEW v \in Verifiers, VerifyStep(v) PROVE Goal
  <2>1. verif[v] \in Verifications
    BY DEF VerifyTypeOK
  <2>2. ASSUME PayReward(v) PROVE Goal
    <3>1. verif[v].job \in Jobs /\ verif[v].node \in Nodes
      BY <2>1, <2>2, VerificationShape DEF PayReward, At
    <3>2. /\ Owner[verif[v].node] \in Users /\ Reward[verif[v].job] \in Int
          /\ Key("reward", verif[v].job) \in Keys
      BY <3>1, KeysOf
    <3> QED BY <1>0, <1>1, <2>2, <3>2 DEF PayReward
  <2>3. ASSUME RefundStake(v) PROVE Goal
    <3>1. verif[v].job \in Jobs /\ verif[v].node \in Nodes
      BY <2>1, <2>3, VerificationShape DEF RefundStake, At
    <3>2. /\ Owner[verif[v].node] \in Users /\ Stake[verif[v].node] \in Int
          /\ Key("stakerefund", verif[v].node) \in Keys
      BY <3>1, KeysOf
    <3> QED BY <1>0, <2>3, <3>2 DEF RefundStake
  <2>4. ASSUME Clawback(v) \/ AuditClawback(v) PROVE Goal
    <3>1. verif[v].job \in Jobs /\ verif[v].node \in Nodes /\ verif[v].take \in Nat
      BY <2>1, <2>4, VerificationShape DEF Clawback, AuditClawback, At
    <3>2. /\ Owner[verif[v].node] \in Users /\ -verif[v].take \in Int
          /\ Key("clawback", verif[v].job) \in Keys
      BY <3>1, KeysOf
    <3> QED BY <1>0, <2>4, <3>2 DEF Clawback, AuditClawback
  <2>5. ASSUME RefundRequester(v) \/ AuditRefund(v) PROVE Goal
    <3>1. verif[v].job \in Jobs /\ verif[v].node \in Nodes
      BY <2>1, <2>5, VerificationShape DEF RefundRequester, AuditRefund, At
    <3>2. /\ Requester[verif[v].job] \in Users /\ Cost[verif[v].job] \in Int
          /\ Key("refund", verif[v].job) \in Keys
      BY <3>1, KeysOf
    <3> QED BY <1>0, <2>5, <3>2 DEF RefundRequester, AuditRefund
  <2> QED
    BY <1>1, <1>3, <2>2, <2>3, <2>4, <2>5
    DEF VerifyStep, ClaimResult, ReadResultRow, ReadNodeRow, Judge, MarkVerified, TrackOutstanding,
        FlagOptimistic, AccountNode, FlagStake, Finalize, ReadBalance, Suspend, FailJob, ReadPast,
        AuditNext, AuditFail, AuditRecord
<1>4. Goal
  BY <1>1, <1>2, <1>3 DEF VerifyNext, CreateCharged, CompleteWith, RestartAll, verifyVars, moneyVars
<1> QED BY <1>4 DEF Goal

-----------------------------------------------------------------------------
(* Columns, activations and the history *)

\* What the handlers write into the verifier's columns has the columns' types.
LEMMA ColumnWrites ==
  ASSUME VerifyTypeOK
  PROVE  /\ \A j \in Jobs, o \in Outputs : [result EXCEPT ![j].output = o] \in [Jobs -> Results]
         /\ \A j \in Jobs, d \in Verdicts : [result EXCEPT ![j].verdict = d] \in [Jobs -> Results]
         /\ \A j \in Jobs : [result EXCEPT ![j].optimistic = TRUE] \in [Jobs -> Results]
         /\ \A j \in Jobs, c \in Nat, b \in BOOLEAN :
              [result EXCEPT ![j].rewardCredits = c, ![j].nrnEligible = b] \in [Jobs -> Results]
         /\ \A n \in Nodes, c \in Nat : [trust EXCEPT ![n].outstanding = @ + c] \in [Nodes -> Trusts]
         /\ \A n \in Nodes : [trust EXCEPT ![n].outstanding = 0] \in [Nodes -> Trusts]
         /\ \A n \in Nodes : \A h :
              [trust EXCEPT ![n].passes = IF h = "provisional" THEN @ ELSE @ + 1] \in [Nodes -> Trusts]
         /\ \A n \in Nodes : [trust EXCEPT ![n].stakeRefunded = TRUE] \in [Nodes -> Trusts]
<1>0. ASSUME NEW j \in Jobs, NEW o \in Outputs PROVE [result EXCEPT ![j].output = o] \in [Jobs -> Results]
  <2>1. [result[j] EXCEPT !.output = o] \in Results
    BY DEF VerifyTypeOK, Results
  <2> QED BY <2>1 DEF VerifyTypeOK
<1>1. ASSUME NEW j \in Jobs, NEW d \in Verdicts PROVE [result EXCEPT ![j].verdict = d] \in [Jobs -> Results]
  <2>1. [result[j] EXCEPT !.verdict = d] \in Results
    BY DEF VerifyTypeOK, Results
  <2> QED BY <2>1 DEF VerifyTypeOK
<1>2. \A j \in Jobs : [result EXCEPT ![j].optimistic = TRUE] \in [Jobs -> Results]
  BY DEF VerifyTypeOK, Results
<1>3. ASSUME NEW j \in Jobs, NEW c \in Nat, NEW b \in BOOLEAN
      PROVE  [result EXCEPT ![j].rewardCredits = c, ![j].nrnEligible = b] \in [Jobs -> Results]
  <2>1. [result[j] EXCEPT !.rewardCredits = c, !.nrnEligible = b] \in Results
    BY DEF VerifyTypeOK, Results
  <2>2. [result EXCEPT ![j].rewardCredits = c, ![j].nrnEligible = b]
          = [result EXCEPT ![j] = [result[j] EXCEPT !.rewardCredits = c, !.nrnEligible = b]]
    BY DEF VerifyTypeOK
  <2> QED BY <2>1, <2>2 DEF VerifyTypeOK
<1>4. /\ \A n \in Nodes, c \in Nat : [trust EXCEPT ![n].outstanding = @ + c] \in [Nodes -> Trusts]
      /\ \A n \in Nodes : [trust EXCEPT ![n].outstanding = 0] \in [Nodes -> Trusts]
  BY DEF VerifyTypeOK, Trusts
<1>5. \A n \in Nodes : \A h : 
              [trust EXCEPT ![n].passes = IF h = "provisional" THEN @ ELSE @ + 1] \in [Nodes -> Trusts]
  BY DEF VerifyTypeOK, Trusts
<1>6. \A n \in Nodes : [trust EXCEPT ![n].stakeRefunded = TRUE] \in [Nodes -> Trusts]
  BY DEF VerifyTypeOK, Trusts
<1> QED BY <1>0, <1>1, <1>2, <1>3, <1>4, <1>5, <1>6

\* The columns of the verifier keep their types.
LEMMA ColumnTypes ==
  ASSUME VerifyTypeOK, [VerifyNext]_verifyVars
  PROVE  /\ order' \in [Jobs -> {"new", "charged", "created", "refused"}]
         /\ result' \in [Jobs -> Results]
         /\ trust' \in [Nodes -> Trusts]
         /\ produced' \in [Jobs -> SUBSET (Nodes \X Outputs)]
<1> DEFINE R == [Jobs -> Results]
           T == [Nodes -> Trusts]
           O == [Jobs -> {"new", "charged", "created", "refused"}]
           P == [Jobs -> SUBSET (Nodes \X Outputs)]
           Goal == order' \in O /\ result' \in R /\ trust' \in T /\ produced' \in P
<1>0. order \in O /\ result \in R /\ trust \in T /\ produced \in P
  BY DEF VerifyTypeOK
<1>1. /\ \A j \in Jobs, o \in Outputs : [result EXCEPT ![j].output = o] \in R
      /\ \A j \in Jobs, d \in Verdicts : [result EXCEPT ![j].verdict = d] \in R
      /\ \A j \in Jobs : [result EXCEPT ![j].optimistic = TRUE] \in R
      /\ \A j \in Jobs, c \in Nat, b \in BOOLEAN :
           [result EXCEPT ![j].rewardCredits = c, ![j].nrnEligible = b] \in R
  BY ColumnWrites
<1>2. /\ \A n \in Nodes, c \in Nat : [trust EXCEPT ![n].outstanding = @ + c] \in T
      /\ \A n \in Nodes : [trust EXCEPT ![n].outstanding = 0] \in T
      /\ \A n \in Nodes : \A h : [trust EXCEPT ![n].passes = IF h = "provisional" THEN @ ELSE @ + 1] \in T
      /\ \A n \in Nodes : [trust EXCEPT ![n].stakeRefunded = TRUE] \in T
  BY ColumnWrites
<1>3. ASSUME NEW j \in Jobs, Charge(j) \/ CreateCharged(j) \/ CreateFails(j) PROVE Goal
  BY <1>0, <1>3 DEF Charge, CreateCharged, CreateFails
<1>4. ASSUME NEW m \in net, NEW o \in Outputs
      PROVE  [produced EXCEPT ![m.job] = @ \cup {<<m.node, o>>}] \in P
  BY <1>0 DEF VerifyTypeOK, SchedTypeOK, Messages
<1> HIDE DEF R, T, O, P
<1>5. ASSUME NEW v \in Verifiers, NEW m \in net, NEW o \in Outputs, CompleteWith(v, m, o) PROVE Goal
  <2>1. m.job \in Jobs
    BY DEF VerifyTypeOK, SchedTypeOK, Messages
  <2> QED BY <1>0, <1>1, <1>4, <1>5, <2>1 DEF CompleteWith
<1>6. ASSUME NEW v \in Verifiers, VerifyStep(v) PROVE Goal
  <2>1. verif[v] \in Verifications
    BY DEF VerifyTypeOK
  <2>0. verif[v].pc \in {"judge", "track", "flag", "account", "stakeflag", "finalize", "suspend",
                           "auditrecord"} => verif[v].job \in Jobs /\ verif[v].node \in Nodes
    BY <2>1, VerificationShape
  <2> USE DEF At
  <2>2. ASSUME Judge(v) PROVE Goal
    <3>1. PICK how \in Judgements(verif[v]) :
            result' = [result EXCEPT ![verif[v].job].verdict = VerdictOf(how)]
      BY <2>2 DEF Judge
    <3>2. VerdictOf(how) \in Verdicts
      BY <3>1 DEF Judgements, VerdictOf, Verdicts
    <3> QED BY <1>0, <1>1, <2>0, <2>2, <3>1, <3>2 DEF Judge
  <2>3. ASSUME TrackOutstanding(v) PROVE Goal
    <3>1. Reward[verif[v].job] \in Nat
      BY <2>1, <2>3, VerificationShape DEF TrackOutstanding, At
    <3> QED BY <1>0, <1>2, <2>0, <2>3, <3>1, Zenon DEF TrackOutstanding
  <2>4. ASSUME FlagOptimistic(v) PROVE Goal
    BY <1>0, <1>1, <2>0, <2>4, Zenon DEF FlagOptimistic
  <2>5. ASSUME AccountNode(v) PROVE Goal
    BY <1>0, <1>2, <2>0, <2>5, Zenon DEF AccountNode
  <2>6. ASSUME FlagStake(v) PROVE Goal
    BY <1>0, <1>2, <2>0, <2>6, Zenon DEF FlagStake
  <2>7. ASSUME Finalize(v) PROVE Goal
    <3>1. Reward[verif[v].job] \in Nat /\ (verif[v].how = "strict") \in BOOLEAN
      BY <2>1, <2>7, VerificationShape DEF Finalize, At
    <3> QED BY <1>0, <1>1, <2>0, <2>7, <3>1, Zenon DEF Finalize
  <2>8. ASSUME Suspend(v) PROVE Goal
    BY <1>0, <1>2, <2>0, <2>8, Zenon DEF Suspend
  <2>9. ASSUME AuditRecord(v) PROVE Goal
    <3>1. "FAIL" \in Verdicts
      BY DEF Verdicts
    <3> QED BY <1>0, <1>1, <2>0, <2>9, <3>1, Zenon DEF AuditRecord
  <2>10. ASSUME UNCHANGED rowVars PROVE Goal
    BY <1>0, <2>10 DEF rowVars
  <2> HIDE DEF Goal
  <2> QED
    BY <1>6, <2>2, <2>3, <2>4, <2>5, <2>6, <2>7, <2>8, <2>9, <2>10
    DEF VerifyStep, ClaimResult, ReadResultRow, ReadNodeRow, MarkVerified, PayReward, RefundStake,
        ReadBalance, Clawback, RefundRequester, FailJob, ReadPast, AuditNext, AuditClawback,
        AuditRefund, AuditFail
<1>7. ASSUME UNCHANGED rowVars PROVE Goal
  BY <1>0, <1>7 DEF rowVars
<1> HIDE DEF Goal
<1>8. Goal
  BY <1>3, <1>5, <1>6, <1>7 DEF VerifyNext, RestartAll, verifyVars, rowVars
<1> QED BY <1>8 DEF Goal, R, T, O, P

\* Every step of the verifier changes its own slot only, and leaves an activation there.
LEMMA OneSlot ==
  ASSUME VerifyTypeOK, NEW v \in Verifiers, VerifyStep(v)
  PROVE  \E a \in Verifications : verif' = [verif EXCEPT ![v] = a]
<1>1. verif[v] \in Verifications
  BY DEF VerifyTypeOK
<1> DEFINE Goal == \E a \in Verifications : verif' = [verif EXCEPT ![v] = a]
<1>2. Free \in Verifications
  BY DEF Verifications
<1> USE DEF At, Goto, Step, Finish
<1>3. ASSUME ClaimResult(v) PROVE Goal
  BY <1>1, <1>2, <1>3, VerificationSteps DEF ClaimResult
<1>4. ASSUME ReadResultRow(v) PROVE Goal
  <2>1. /\ verif[v].job \in Jobs /\ verif[v].output \in Outputs
        /\ job[verif[v].job].node \in Nodes \cup {NoNode}
    BY <1>1, <1>4, VerificationShape DEF ReadResultRow, VerifyTypeOK, SchedTypeOK, Rows
  <2>2. \A n \in Nodes : [pc |-> "node", job |-> verif[v].job, output |-> verif[v].output, node |-> n]
                           \in Verifications
    BY <2>1 DEF Verifications
  <2> QED BY <1>2, <1>4, <2>1, <2>2 DEF ReadResultRow
<1>5. ASSUME ReadNodeRow(v) PROVE Goal
  <2>1. /\ verif[v].job \in Jobs /\ verif[v].output \in Outputs /\ verif[v].node \in Nodes
        /\ lifecycle[verif[v].node] \in Lifecycles /\ trust[verif[v].node] \in Trusts
    BY <1>1, <1>5, VerificationShape DEF ReadNodeRow, VerifyTypeOK, SchedTypeOK
  <2>2. [pc |-> "judge", job |-> verif[v].job, output |-> verif[v].output, node |-> verif[v].node,
         lifecycle |-> lifecycle[verif[v].node], row |-> trust[verif[v].node]] \in Verifications
    BY <2>1 DEF Verifications
  <2> QED BY <1>5, <2>2 DEF ReadNodeRow
<1>6. ASSUME Judge(v) PROVE Goal
  <2>1. verif[v].job \in Jobs /\ verif[v].node \in Nodes /\ verif[v].row \in Trusts
    BY <1>1, <1>6, VerificationShape DEF Judge
  <2>2. [pc |-> "slash", job |-> verif[v].job, node |-> verif[v].node, row |-> verif[v].row] \in Verifications
    BY <2>1 DEF Verifications
  <2>3. ASSUME NEW how \in {"trusted", "provisional", "strict"}, NEW g \in BOOLEAN
        PROVE  [pc |-> "verified", job |-> verif[v].job, node |-> verif[v].node, how |-> how,
                row |-> verif[v].row, graduate |-> g] \in Verifications
    BY <2>1 DEF Verifications
  <2>4. \A how : Graduates(verif[v], how) \in BOOLEAN
    BY DEF Graduates
  <2>5. Judgements(verif[v]) \subseteq {"trusted", "provisional", "strict", "slash"}
    BY DEF Judgements
  <2> QED BY <1>6, <2>2, <2>3, <2>4, <2>5 DEF Judge
<1>7. ASSUME MarkVerified(v) \/ PayReward(v) \/ TrackOutstanding(v) \/ FlagOptimistic(v)
             \/ AccountNode(v) \/ RefundStake(v) \/ FlagStake(v) \/ Finalize(v)
      PROVE  Goal
  BY <1>1, <1>2, <1>7, VerificationSteps
  DEF MarkVerified, PayReward, TrackOutstanding, FlagOptimistic, AccountNode, RefundStake, FlagStake, Finalize
<1>8. ASSUME ReadBalance(v) PROVE Goal
  <2>1. verif[v].job \in Jobs /\ verif[v].node \in Nodes /\ verif[v].row \in Trusts
    BY <1>1, <1>8, VerificationShape DEF ReadBalance
  <2>2. verif[v].row.outstanding \in Nat /\ balance[Owner[verif[v].node]] \in Nat
    BY <2>1 DEF VerifyTypeOK, Trusts
  <2>3. ASSUME NEW t \in Nat, NEW pc \in {"clawback", "suspend"}
        PROVE  [pc |-> pc, job |-> verif[v].job, node |-> verif[v].node, take |-> t] \in Verifications
    BY <2>1 DEF Verifications
  <2> QED BY <1>8, <2>2, <2>3 DEF ReadBalance
<1>9. ASSUME Clawback(v) \/ Suspend(v) \/ RefundRequester(v) \/ FailJob(v) PROVE Goal
  BY <1>1, <1>9, VerificationSteps DEF Clawback, Suspend, RefundRequester, FailJob
<1>10. ASSUME ReadPast(v) PROVE Goal
  <2>1. verif[v].node \in Nodes
    BY <1>1, <1>10, VerificationShape DEF ReadPast
  <2>2. {[job |-> j, reward |-> result[j].rewardCredits] : j \in WrongJobs(verif[v].node)} \in SUBSET Prior
    <3>1. \A j \in Jobs : [job |-> j, reward |-> result[j].rewardCredits] \in Prior
      BY DEF Prior, VerifyTypeOK, Results
    <3> QED BY <3>1 DEF WrongJobs
  <2>3. \A left \in SUBSET Prior : [pc |-> "next", node |-> verif[v].node, left |-> left] \in Verifications
    BY <2>1 DEF Verifications
  <2> QED BY <1>10, <2>2, <2>3 DEF ReadPast
<1>11. ASSUME AuditNext(v) PROVE Goal
  <2>1. verif[v].node \in Nodes /\ verif[v].left \in SUBSET Prior
    BY <1>1, <1>11, VerificationShape DEF AuditNext
  <2>2. \A p \in verif[v].left : p.job \in Jobs /\ p.reward \in Nat
    BY <2>1 DEF Prior
  <2>3. balance[Owner[verif[v].node]] \in Nat
    BY <2>1 DEF VerifyTypeOK
  <2>4. ASSUME NEW j \in Jobs, NEW t \in Nat, NEW left \in SUBSET Prior,
               NEW pc \in {"auditclawback", "auditrefund"}
        PROVE  [pc |-> pc, job |-> j, node |-> verif[v].node, take |-> t, left |-> left] \in Verifications
    BY <2>1 DEF Verifications
  <2>5. ASSUME NEW p \in verif[v].left PROVE verif[v].left \ {p} \in SUBSET Prior
    BY <2>1
  <2> QED BY <1>2, <1>11, <2>2, <2>3, <2>4, <2>5 DEF AuditNext
<1>12. ASSUME AuditClawback(v) \/ AuditRefund(v) \/ AuditFail(v) PROVE Goal
  BY <1>1, <1>12, VerificationSteps DEF AuditClawback, AuditRefund, AuditFail
<1>13. ASSUME AuditRecord(v) PROVE Goal
  <2>1. verif[v].node \in Nodes /\ verif[v].left \in SUBSET Prior
    BY <1>1, <1>13, VerificationShape DEF AuditRecord
  <2>2. [pc |-> "next", node |-> verif[v].node, left |-> verif[v].left] \in Verifications
    BY <2>1 DEF Verifications
  <2> QED BY <1>13, <2>2 DEF AuditRecord
<1> HIDE DEF Goal
<1>14. Goal
  BY <1>3, <1>4, <1>5, <1>6, <1>7, <1>8, <1>9, <1>10, <1>11, <1>12, <1>13 DEF VerifyStep
<1> QED BY <1>14 DEF Goal

\* Every variable keeps its type, and the grid the scheduler's invariants.
LEMMA VerifyTypeStep ==
  VerifyTypeOK /\ ActiveIsLeased /\ [VerifyNext]_verifyVars => VerifyTypeOK' /\ ActiveIsLeased'
<1> SUFFICES ASSUME VerifyTypeOK, ActiveIsLeased, [VerifyNext]_verifyVars
             PROVE  VerifyTypeOK' /\ ActiveIsLeased'
  OBVIOUS
<1>0. verif \in [Verifiers -> Verifications]
  BY DEF VerifyTypeOK
<1>1. ASSUME NEW v \in Verifiers, VerifyStep(v) PROVE verif' \in [Verifiers -> Verifications]
  BY <1>0, <1>1, OneSlot
<1>2. ASSUME NEW v \in Verifiers, NEW m \in net, NEW o \in Outputs, CompleteWith(v, m, o)
      PROVE  verif' \in [Verifiers -> Verifications]
  <2>1. Started(m.job, o) \in Verifications
    BY DEF Started, Verifications, VerifyTypeOK, SchedTypeOK, Messages
  <2> QED BY <1>0, <1>2, <2>1 DEF CompleteWith, Goto
<1>3. ASSUME RestartAll PROVE verif' \in [Verifiers -> Verifications]
  BY <1>3 DEF RestartAll, Verifications
<1>4. verif' \in [Verifiers -> Verifications]
  BY <1>0, <1>1, <1>2, <1>3 DEF VerifyNext, Charge, CreateCharged, CreateFails, verifyVars
<1> QED BY <1>4, GridTypes, MoneyTypes, ColumnTypes DEF VerifyTypeOK

\* No account is ever overdrawn and every variable has its type, also with the money and the
\* verifier beside the scheduler; a job that occupies a node still has a lease and a node.
THEOREM VerificationTypes == VerifySpec => [](VerifyTypeOK /\ ActiveIsLeased)
  BY VerifyTypeInit, VerifyTypeStep, PTL DEF VerifySpec

-----------------------------------------------------------------------------
(* Who writes what the properties are about *)

\* The posting that a step of the verifier makes, by its key.
Pays(v, k) ==
  \/ PayReward(v) /\ k = Key("reward", verif[v].job)
  \/ RefundStake(v) /\ k = Key("stakerefund", verif[v].node)
  \/ (Clawback(v) \/ AuditClawback(v)) /\ k = Key("clawback", verif[v].job)
  \/ (RefundRequester(v) \/ AuditRefund(v)) /\ k = Key("refund", verif[v].job)

\* Movements with a key are made by the verifier only; those of the requester have none.
LEMMA NewPostings ==
  ASSUME VerifyTypeOK, [VerifyNext]_verifyVars, NEW k, Posted(k)', ~Posted(k)
  PROVE  \E v \in Verifiers : VerifyStep(v) /\ Pays(v, k)
<1>0. PICK e \in book' : e.key = k /\ e \notin book
  BY DEF Posted, Ledger!Posted
<1>1. ASSUME NEW u \in Users, NEW amount \in Int, NEW l \in Keys \cup {NoKey},
             Post(u, amount, l) \/ PostOrSkip(u, amount, l)
      PROVE  k = l /\ l # NoKey
  BY <1>0, <1>1, Posting DEF VerifyTypeOK
<1>2. ASSUME UNCHANGED moneyVars PROVE FALSE
  BY <1>0, <1>2 DEF moneyVars
<1>3. ASSUME NEW j \in Jobs, Charge(j) \/ CreateFails(j) PROVE FALSE
  <2>1. Requester[j] \in Users /\ Cost[j] \in Int /\ -Cost[j] \in Int
    OBVIOUS
  <2> QED BY <1>1, <1>3, <2>1 DEF Charge, CreateFails
<1>4. ASSUME NEW v \in Verifiers, VerifyStep(v) PROVE Pays(v, k)
  <2>1. verif[v] \in Verifications
    BY DEF VerifyTypeOK
  <2>2. ASSUME PayReward(v) PROVE Pays(v, k)
    <3>1. verif[v].job \in Jobs /\ verif[v].node \in Nodes
      BY <2>1, <2>2, VerificationShape DEF PayReward, At
    <3>2. /\ Owner[verif[v].node] \in Users /\ Reward[verif[v].job] \in Int
          /\ Key("reward", verif[v].job) \in Keys
      BY <3>1, KeysOf
    <3>3. Post(Owner[verif[v].node], Reward[verif[v].job], Key("reward", verif[v].job))
      BY <1>2, <2>2 DEF PayReward
    <3> QED BY <1>1, <2>2, <3>2, <3>3 DEF Pays
  <2>3. ASSUME RefundStake(v) PROVE Pays(v, k)
    <3>1. verif[v].job \in Jobs /\ verif[v].node \in Nodes
      BY <2>1, <2>3, VerificationShape DEF RefundStake, At
    <3>2. /\ Owner[verif[v].node] \in Users /\ Stake[verif[v].node] \in Int
          /\ Key("stakerefund", verif[v].node) \in Keys
      BY <3>1, KeysOf
    <3>3. PostOrSkip(Owner[verif[v].node], Stake[verif[v].node], Key("stakerefund", verif[v].node))
      BY <2>3 DEF RefundStake
    <3> QED BY <1>1, <2>3, <3>2, <3>3 DEF Pays
  <2>4. ASSUME Clawback(v) \/ AuditClawback(v) PROVE Pays(v, k)
    <3>1. verif[v].job \in Jobs /\ verif[v].node \in Nodes /\ verif[v].take \in Nat
      BY <2>1, <2>4, VerificationShape DEF Clawback, AuditClawback, At
    <3>2. /\ Owner[verif[v].node] \in Users /\ -verif[v].take \in Int
          /\ Key("clawback", verif[v].job) \in Keys
      BY <3>1, KeysOf
    <3>3. PostOrSkip(Owner[verif[v].node], -verif[v].take, Key("clawback", verif[v].job))
      BY <2>4 DEF Clawback, AuditClawback
    <3> QED BY <1>1, <2>4, <3>2, <3>3 DEF Pays
  <2>5. ASSUME RefundRequester(v) \/ AuditRefund(v) PROVE Pays(v, k)
    <3>1. verif[v].job \in Jobs /\ verif[v].node \in Nodes
      BY <2>1, <2>5, VerificationShape DEF RefundRequester, AuditRefund, At
    <3>2. /\ Requester[verif[v].job] \in Users /\ Cost[verif[v].job] \in Int
          /\ Key("refund", verif[v].job) \in Keys
      BY <3>1, KeysOf
    <3>3. PostOrSkip(Requester[verif[v].job], Cost[verif[v].job], Key("refund", verif[v].job))
      BY <2>5 DEF RefundRequester, AuditRefund
    <3> QED BY <1>1, <2>5, <3>2, <3>3 DEF Pays
  <2> QED
    BY <1>2, <1>4, <2>2, <2>3, <2>4, <2>5
    DEF VerifyStep, ClaimResult, ReadResultRow, ReadNodeRow, Judge, MarkVerified, TrackOutstanding,
        FlagOptimistic, AccountNode, FlagStake, Finalize, ReadBalance, Suspend, FailJob, ReadPast,
        AuditNext, AuditFail, AuditRecord
<1> QED
  BY <1>2, <1>3, <1>4 DEF VerifyNext, CreateCharged, CompleteWith, RestartAll, verifyVars, moneyVars

\* A row becomes REWARDED only when a verification finalizes it: no event, lease or failed report
\* of the scheduler makes it so.
LEMMA Rewarding ==
  ASSUME VerifyTypeOK, ActiveIsLeased, [VerifyNext]_verifyVars, NEW j \in Jobs,
         job'[j].status = "REWARDED", job[j].status # "REWARDED"
  PROVE  \E v \in Verifiers : Finalize(v) /\ verif[v].job = j
<1>0. SchedTypeOK /\ job[j] \in Rows
  BY DEF VerifyTypeOK, SchedTypeOK
<1>1. ASSUME [SchedNext]_schedVars PROVE FALSE
  <2>1. RowMove(j)
    BY <1>0, <1>1, RowMoves
  <2>2. ~Inserted(j) /\ ~Progressed(j) /\ ~RanOut(j)
    BY <1>0 DEF Inserted, Progressed, RanOut, Rows, Active
  <2>3. ~Claimed(j)
    <3>1. ASSUME NEW n, NEW k, job'[j] = [status |-> "ASSIGNED", node |-> n, attempt |-> k, lease |-> "live"]
          PROVE  job'[j].status = "ASSIGNED"
      BY <3>1
    <3> QED BY <3>1, Zenon DEF Claimed
  <2>4. ~Ended(j)
    BY <1>0 DEF Ended, Rows
  <2>5. ~Waits(j)
    BY <1>0 DEF Waits, Requeued, Rows
  <2> QED BY <2>1, <2>2, <2>3, <2>4, <2>5 DEF RowMove
<1>2. ASSUME NEW v \in Verifiers, VerifyStep(v) PROVE Finalize(v) /\ verif[v].job = j
  <2>1. job' # job
    OBVIOUS
  <2>2. ~ClaimResult(v) /\ ~MarkVerified(v) /\ ~FailJob(v) /\ ~AuditFail(v)
    <3>1. job' # [job EXCEPT ![verif[v].job].status = "VERIFYING"]
      BY <1>0 DEF SchedTypeOK, Rows
    <3>2. job' # [job EXCEPT ![verif[v].job].status = "VERIFIED"]
      BY <1>0 DEF SchedTypeOK, Rows
    <3>3. job' # [job EXCEPT ![verif[v].job].status = "FAILED"]
      BY <1>0 DEF SchedTypeOK, Rows
    <3> QED BY <2>1, <3>1, <3>2, <3>3 DEF ClaimResult, MarkVerified, FailJob, AuditFail, SetStatus
  <2>3. Finalize(v)
    BY <1>2, <2>1, <2>2
    DEF VerifyStep, ReadResultRow, ReadNodeRow, Judge, PayReward, TrackOutstanding, FlagOptimistic,
        AccountNode, RefundStake, FlagStake, ReadBalance, Clawback, Suspend, RefundRequester, ReadPast,
        AuditNext, AuditClawback, AuditRefund, AuditRecord, schedVars
  <2> QED BY <1>0, <2>3 DEF Finalize, SetStatus, SchedTypeOK, Rows
<1> QED BY <1>1, <1>2, GridSteps

\* Which step writes what into the columns of a result.
LEMMA ResultWrites ==
  ASSUME VerifyTypeOK, [VerifyNext]_verifyVars, NEW j \in Jobs
  PROVE  /\ result'[j].optimistic /\ ~result[j].optimistic =>
              \E v \in Verifiers : FlagOptimistic(v) /\ verif[v].job = j
         /\ result'[j].nrnEligible /\ ~result[j].nrnEligible =>
              \E v \in Verifiers : Finalize(v) /\ verif[v].job = j /\ verif[v].how = "strict"
         /\ \/ result'[j].output = result[j].output /\ produced'[j] = produced[j]
            \/ \E n \in Nodes : <<n, result'[j].output>> \in produced'[j]
         /\ produced[j] \subseteq produced'[j]
<1>0. /\ result \in [Jobs -> Results] /\ result[j] \in Results
      /\ produced \in [Jobs -> SUBSET (Nodes \X Outputs)]
  BY DEF VerifyTypeOK
<1> DEFINE Written == /\ result'[j].optimistic /\ ~result[j].optimistic =>
                           \E v \in Verifiers : FlagOptimistic(v) /\ verif[v].job = j
                      /\ result'[j].nrnEligible /\ ~result[j].nrnEligible =>
                           \E v \in Verifiers : Finalize(v) /\ verif[v].job = j /\ verif[v].how = "strict"
                      /\ \/ result'[j].output = result[j].output /\ produced'[j] = produced[j]
                         \/ \E n \in Nodes : <<n, result'[j].output>> \in produced'[j]
                      /\ produced[j] \subseteq produced'[j]
<1>1. ASSUME UNCHANGED <<result, produced>> PROVE Written
  BY <1>1
<1>2. ASSUME NEW v \in Verifiers, NEW m \in net, NEW o \in Outputs, CompleteWith(v, m, o) PROVE Written
  <2>1. m.job \in Jobs /\ m.node \in Nodes
    BY DEF VerifyTypeOK, SchedTypeOK, Messages
  <2>2. CASE UNCHANGED <<result, produced>>
    BY <1>1, <2>2
  <2>3. CASE /\ result' = [result EXCEPT ![m.job].output = o]
             /\ produced' = [produced EXCEPT ![m.job] = @ \cup {<<m.node, o>>}]
    <3>1. /\ result'[j].optimistic = result[j].optimistic
          /\ result'[j].nrnEligible = result[j].nrnEligible
      BY <1>0, <2>3 DEF Results
    <3>2. CASE m.job # j
      BY <1>0, <2>3, <3>1, <3>2
    <3>3. CASE m.job = j
      <4>1. result'[j].output = o /\ produced'[j] = produced[j] \cup {<<m.node, o>>}
        BY <1>0, <2>3, <3>3 DEF Results
      <4> QED BY <2>1, <3>1, <4>1
    <3> QED BY <3>2, <3>3
  <2> QED BY <1>2, <2>2, <2>3 DEF CompleteWith
<1>3. ASSUME NEW v \in Verifiers, VerifyStep(v) PROVE Written
  <2>1. ASSUME Judge(v) \/ AuditRecord(v) PROVE Written
    <3>1. \E d : result' = [result EXCEPT ![verif[v].job].verdict = d]
      BY <2>1 DEF Judge, AuditRecord
    <3>2. /\ result'[j].optimistic = result[j].optimistic
          /\ result'[j].nrnEligible = result[j].nrnEligible
          /\ result'[j].output = result[j].output
      BY <1>0, <3>1 DEF Results
    <3> QED BY <2>1, <3>2 DEF Judge, AuditRecord
  <2>2. ASSUME FlagOptimistic(v) PROVE Written
    <3>1. /\ result'[j].optimistic /\ ~result[j].optimistic => verif[v].job = j
          /\ result'[j].nrnEligible = result[j].nrnEligible
          /\ result'[j].output = result[j].output
      BY <1>0, <2>2 DEF FlagOptimistic, Results
    <3> QED BY <2>2, <3>1 DEF FlagOptimistic
  <2>3. ASSUME Finalize(v) PROVE Written
    <3>1. /\ result'[j].optimistic = result[j].optimistic
          /\ result'[j].output = result[j].output
          /\ result'[j].nrnEligible /\ ~result[j].nrnEligible => verif[v].job = j /\ verif[v].how = "strict"
      BY <1>0, <2>3 DEF Finalize, Results
    <3> QED BY <2>3, <3>1 DEF Finalize
  <2> HIDE DEF Written
  <2> QED
    BY <1>1, <1>3, <2>1, <2>2, <2>3
    DEF VerifyStep, ClaimResult, ReadResultRow, ReadNodeRow, MarkVerified, PayReward, TrackOutstanding,
        AccountNode, RefundStake, FlagStake, ReadBalance, Clawback, Suspend, RefundRequester, FailJob,
        ReadPast, AuditNext, AuditClawback, AuditRefund, AuditFail, rowVars
<1> HIDE DEF Written
<1>4. Written
  BY <1>1, <1>2, <1>3 DEF VerifyNext, Charge, CreateCharged, CreateFails, RestartAll, verifyVars, rowVars
<1> QED BY <1>4 DEF Written

-----------------------------------------------------------------------------
(* Credits follow results *)

\* A result on a row is one that was accepted.
LastIsStored ==
  \A j \in Jobs : produced[j] # {} => Produced(j, {result[j].output})

Judging == {"claim", "job", "node", "judge"}
Paying == {"verified", "reward", "track", "flag", "account", "stake", "stakeflag", "finalize"}
Paid == {"track", "flag", "account", "stake", "stakeflag", "finalize"}
Punishing == {"slash", "clawback", "suspend", "refund", "auditclawback", "auditrefund"}
Auditing == {"next", "auditclawback", "auditrefund", "auditfail", "auditrecord"}

\* What an activation knows of its job, from the result it was started with to the money it is
\* about to move: rows may have changed since it read them, but what was produced stays produced
\* and what was posted stays posted.
Evidence(a) ==
  /\ a.pc \in Judging => Produced(a.job, {a.output})
  /\ a.pc \in Paying => Produced(a.job, {"good", "wrong"})
  /\ a.pc \in Paying /\ a.how = "strict" => TRUE \in References[a.job] /\ Produced(a.job, {"good"})
  /\ a.pc \in Paid => Posted(Key("reward", a.job))
  /\ a.pc \in Punishing => Produced(a.job, {"wrong", "broken"})
  /\ a.pc \in Auditing => \A p \in a.left : Produced(p.job, {"wrong", "broken"})

ResultsInv ==
  /\ MoneyFollowsResults
  /\ EligibleOnlyIfVerified
  /\ LastIsStored
  /\ \A v \in Verifiers : Evidence(verif[v])

\* Results and postings are never taken back.
LEMMA Grows ==
  ASSUME VerifyTypeOK, [VerifyNext]_verifyVars
  PROVE  /\ \A j \in Jobs : \A outputs : Produced(j, outputs) => Produced(j, outputs)'
         /\ \A k : Posted(k) => Posted(k)'
<1>1. \A j \in Jobs : produced[j] \subseteq produced'[j]
  BY ResultWrites
<1>2. book \subseteq book'
  BY MoneyTypes
<1> QED BY <1>1, <1>2 DEF Produced, Posted, Ledger!Posted

\* What an activation knows stays true while it waits.
LEMMA EvidenceStays ==
  ASSUME VerifyTypeOK, [VerifyNext]_verifyVars, NEW a \in Verifications, Evidence(a)
  PROVE  Evidence(a)'
<1>1. a.pc \in Judging \cup Paying \cup Punishing => a.job \in Jobs
  BY VerificationShape DEF Judging, Paying, Punishing
<1>2. a.pc \in Auditing => \A p \in a.left : p.job \in Jobs
  BY VerificationShape DEF Auditing, Prior
<1> QED BY <1>1, <1>2, Grows DEF Evidence, Judging, Paying, Paid, Punishing

\* Going on to another phase keeps the fields of an activation.
LEMMA FieldsStay ==
  ASSUME NEW a \in Verifications, NEW p
  PROVE  LET b == [a EXCEPT !.pc = p]
         IN  /\ a.pc \in Judging => b.pc = p /\ b.job = a.job /\ b.output = a.output
             /\ a.pc \in Paying => /\ b.pc = p /\ b.job = a.job /\ b.node = a.node /\ b.how = a.how
                                   /\ b.row = a.row /\ b.graduate = a.graduate
             /\ a.pc \in {"clawback", "suspend", "refund", "fail", "audit"} =>
                  b.pc = p /\ b.job = a.job /\ b.node = a.node
             /\ a.pc \in Auditing => b.pc = p /\ b.node = a.node /\ b.left = a.left
             /\ a.pc \in Auditing \ {"next"} => b.job = a.job
  BY DEF Verifications, Free, Judging, Paying, Auditing

\* An activation without a job or a past to punish knows nothing.
LEMMA FreeKnowsNothing == Evidence(Free)
  BY DEF Evidence, Free, Judging, Paying, Paid, Punishing, Auditing

\* What an activation takes with it into its next phase, it knows.
LEMMA EvidenceNext ==
  ASSUME VerifyTypeOK, [VerifyNext]_verifyVars, ResultsInv, NEW v \in Verifiers, VerifyStep(v),
         NEW a \in Verifications, verif[v] = a,
         NEW b \in Verifications, verif' = [verif EXCEPT ![v] = b]
  PROVE  Evidence(b)'
<1>1. Evidence(a) /\ Evidence(a)'
  BY EvidenceStays DEF ResultsInv
<1>2. \A x : /\ Goto(v, x) => b = x
             /\ Step(v, x) => b = [a EXCEPT !.pc = x]
  BY DEF Goto, Step, VerifyTypeOK
<1>3. Finish(v) => b = Free
  BY <1>2 DEF Finish
<1>4. b = Free => Evidence(b)'
  BY DEF Evidence, Free, Judging, Paying, Paid, Punishing, Auditing
<1> USE DEF Judging, Paying, Paid, Punishing, Auditing
<1>5. ASSUME ClaimResult(v) PROVE Evidence(b)'
  <2>1. a.pc = "claim" /\ (b = Free \/ b = [a EXCEPT !.pc = "job"])
    BY <1>2, <1>3, <1>5 DEF ClaimResult, At
  <2>2. b = [a EXCEPT !.pc = "job"] => b.pc = "job" /\ b.job = a.job /\ b.output = a.output
    BY <2>1, FieldsStay
  <2> QED BY <1>1, <1>4, <2>1, <2>2 DEF Evidence
<1>6. ASSUME ReadResultRow(v) PROVE Evidence(b)'
  <2>1. a.pc = "job" /\ (b = Free \/ (b.pc = "node" /\ b.job = a.job /\ b.output = a.output))
    BY <1>2, <1>3, <1>6 DEF ReadResultRow, At
  <2> QED BY <1>1, <1>4, <2>1 DEF Evidence
<1>7. ASSUME ReadNodeRow(v) PROVE Evidence(b)'
  <2>1. a.pc = "node" /\ b.pc = "judge" /\ b.job = a.job /\ b.output = a.output
    BY <1>2, <1>7 DEF ReadNodeRow, At
  <2> QED BY <1>1, <2>1 DEF Evidence
<1>8. ASSUME Judge(v) PROVE Evidence(b)'
  <2>1. a.pc = "judge" /\ a.job \in Jobs /\ a.output \in Outputs
    BY <1>8, VerificationShape DEF Judge, At
  <2>2. PICK how \in Judgements(a) :
          b = IF how = "slash"
              THEN [pc |-> "slash", job |-> a.job, node |-> a.node, row |-> a.row]
              ELSE [pc |-> "verified", job |-> a.job, node |-> a.node, how |-> how,
                    row |-> a.row, graduate |-> Graduates(a, how)]
    BY <1>2, <1>8 DEF Judge
  <2>3. \E n \in Nodes : <<n, a.output>> \in produced'[a.job]
    BY <1>1, <2>1 DEF Evidence, Produced
  <2>4. CASE how = "slash"
    <3>1. a.output \in {"wrong", "broken"}
      BY <2>1, <2>2, <2>4 DEF Judgements, Outputs
    <3>2. b.pc = "slash" /\ b.job = a.job
      BY <2>2, <2>4
    <3> QED BY <2>3, <3>1, <3>2 DEF Evidence, Produced
  <2>5. CASE how # "slash"
    <3>1. a.output \in {"good", "wrong"}
      BY <2>1, <2>2, <2>5 DEF Judgements, Outputs
    <3>2. how = "strict" => a.output = "good" /\ TRUE \in References[a.job]
      BY <2>2 DEF Judgements
    <3>3. b.pc = "verified" /\ b.job = a.job /\ b.how = how
      BY <2>2, <2>5
    <3> QED BY <2>3, <3>1, <3>2, <3>3 DEF Evidence, Produced
  <2> QED BY <2>4, <2>5
<1>9. ASSUME a.pc \in Paying, NEW p \in Paying, b = [a EXCEPT !.pc = p],
             p \in Paid => a.pc \in Paid \/ Posted(Key("reward", a.job))'
      PROVE  Evidence(b)'
  <2>1. b.pc = p /\ b.job = a.job /\ b.how = a.how
    BY <1>9, FieldsStay
  <2> QED BY <1>1, <1>9, <2>1 DEF Evidence
<1>10. ASSUME MarkVerified(v) PROVE Evidence(b)'
  <2>1. a.pc = "verified" /\ b = [a EXCEPT !.pc = "reward"]
    BY <1>2, <1>10 DEF MarkVerified, At
  <2> QED BY <1>9, <2>1
<1>11. ASSUME PayReward(v) PROVE Evidence(b)'
  <2>1. /\ a.pc = "reward" /\ a.job \in Jobs
        /\ \/ b = Free
           \/ /\ b \in {[a EXCEPT !.pc = "account"], [a EXCEPT !.pc = "track"]}
              /\ Post(Owner[a.node], Reward[a.job], Key("reward", a.job))
    BY <1>2, <1>3, <1>11, VerificationShape DEF PayReward, At
  <2>2. Post(Owner[a.node], Reward[a.job], Key("reward", a.job)) => Posted(Key("reward", a.job))'
    <3>1. Post(Owner[a.node], Reward[a.job], Key("reward", a.job)) =>
            [user |-> Owner[a.node], amount |-> Reward[a.job], key |-> Key("reward", a.job)] \in book'
      <4>1. Key("reward", a.job) # NoKey
        BY <2>1, KeysAssumption DEF Keys, Key
      <4> QED BY <4>1 DEF Post, Ledger!Post
    <3> QED BY <3>1 DEF Posted, Ledger!Posted
  <2> QED BY <1>4, <1>9, <2>1, <2>2
<1>12. ASSUME TrackOutstanding(v) \/ FlagOptimistic(v) \/ AccountNode(v) \/ RefundStake(v) \/ FlagStake(v)
       PROVE  Evidence(b)'
  <2>1. a.pc \in Paid /\ \E p \in Paid : b = [a EXCEPT !.pc = p]
    BY <1>2, <1>12 DEF TrackOutstanding, FlagOptimistic, AccountNode, RefundStake, FlagStake, At
  <2> QED BY <1>9, <2>1
<1>13. ASSUME Finalize(v) PROVE Evidence(b)'
  BY <1>3, <1>4, <1>13 DEF Finalize
<1>14. ASSUME ReadBalance(v) PROVE Evidence(b)'
  <2>1. a.pc = "slash" /\ b.pc \in {"clawback", "suspend"} /\ b.job = a.job
    BY <1>2, <1>14 DEF ReadBalance, At
  <2> QED BY <1>1, <2>1 DEF Evidence
<1>15. ASSUME Clawback(v) \/ Suspend(v) \/ RefundRequester(v) \/ FailJob(v) PROVE Evidence(b)'
  <2>1. PICK p \in {"suspend", "refund", "fail", "audit"} :
          /\ b = [a EXCEPT !.pc = p] /\ a.pc \in {"clawback", "suspend", "refund", "fail"}
          /\ p \in {"suspend", "refund"} => a.pc \in Punishing
    BY <1>2, <1>15 DEF Clawback, Suspend, RefundRequester, FailJob, At
  <2>2. b.job = a.job /\ b.pc = p
    BY <2>1, FieldsStay
  <2> QED BY <1>1, <2>1, <2>2 DEF Evidence
<1>16. ASSUME ReadPast(v) PROVE Evidence(b)'
  <2>1. /\ b.pc = "next"
        /\ b.left = {[job |-> j, reward |-> result[j].rewardCredits] : j \in WrongJobs(a.node)}
    BY <1>2, <1>16 DEF ReadPast
  <2>2. ASSUME NEW p \in b.left PROVE Produced(p.job, {"wrong", "broken"})'
    <3>1. PICK j \in Jobs : /\ p.job = j /\ result[j].optimistic /\ result[j].output # "good"
      <4>1. PICK j \in WrongJobs(a.node) : p = [job |-> j, reward |-> result[j].rewardCredits]
        BY <2>1, <2>2
      <4> QED BY <4>1 DEF WrongJobs
    <3>2. Produced(j, {"good", "wrong"})
      BY <3>1 DEF ResultsInv, MoneyFollowsResults
    <3>3. Produced(j, {result[j].output}) /\ result[j].output \in {"wrong", "broken"}
      <4>1. Produced(j, {result[j].output})
        BY <3>2 DEF ResultsInv, LastIsStored, Produced
      <4>2. \A x \in produced[j] : x[2] \in Outputs
        BY DEF VerifyTypeOK
      <4> QED BY <3>1, <4>1, <4>2 DEF Produced, Outputs
    <3>4. Produced(j, {"wrong", "broken"})
      BY <3>3 DEF Produced
    <3> QED BY <3>1, <3>4, Grows
  <2> QED BY <2>1, <2>2 DEF Evidence
<1>17. ASSUME AuditNext(v) PROVE Evidence(b)'
  <2>1. a.pc = "next" /\ a.left \in SUBSET Prior
    BY <1>17, VerificationShape DEF AuditNext, At
  <2>2. \/ b = Free
        \/ \E p \in a.left : /\ b.pc \in {"auditclawback", "auditrefund"}
                             /\ b.job = p.job /\ b.left = a.left \ {p}
    <3> DEFINE Take(p) == IF balance[Owner[a.node]] < p.reward THEN balance[Owner[a.node]] ELSE p.reward
               Pc(p) == IF Take(p) > 0 THEN "auditclawback" ELSE "auditrefund"
    <3>1. \/ Finish(v)
          \/ \E p \in a.left : Goto(v, [pc |-> Pc(p), job |-> p.job, node |-> a.node,
                                        take |-> Take(p), left |-> a.left \ {p}])
      BY <1>17 DEF AuditNext
    <3>2. \A p : Pc(p) \in {"auditclawback", "auditrefund"}
      OBVIOUS
    <3> HIDE DEF Take, Pc
    <3>3. CASE Finish(v)
      BY <1>3, <3>3
    <3>4. ASSUME NEW p \in a.left,
                 Goto(v, [pc |-> Pc(p), job |-> p.job, node |-> a.node, take |-> Take(p),
                          left |-> a.left \ {p}])
          PROVE  /\ b.pc \in {"auditclawback", "auditrefund"}
                 /\ b.job = p.job /\ b.left = a.left \ {p}
      <4>1. b = [pc |-> Pc(p), job |-> p.job, node |-> a.node, take |-> Take(p), left |-> a.left \ {p}]
        BY <1>2, <3>4
      <4> QED BY <3>2, <4>1
    <3> QED BY <3>1, <3>3, <3>4
  <2> QED BY <1>1, <1>4, <2>1, <2>2 DEF Evidence
<1>18. ASSUME AuditClawback(v) \/ AuditRefund(v) \/ AuditFail(v) PROVE Evidence(b)'
  <2>1. PICK p \in {"auditrefund", "auditfail", "auditrecord"} :
          /\ b = [a EXCEPT !.pc = p] /\ a.pc \in {"auditclawback", "auditrefund", "auditfail"}
          /\ p = "auditrefund" => a.pc \in Punishing
    BY <1>2, <1>18 DEF AuditClawback, AuditRefund, AuditFail, At
  <2>2. b.job = a.job /\ b.left = a.left /\ b.pc = p
    BY <2>1, FieldsStay
  <2> QED BY <1>1, <2>1, <2>2 DEF Evidence
<1>19. ASSUME AuditRecord(v) PROVE Evidence(b)'
  <2>1. a.pc = "auditrecord" /\ b.pc = "next" /\ b.left = a.left
    BY <1>2, <1>19 DEF AuditRecord, At
  <2> QED BY <1>1, <2>1 DEF Evidence
<1> QED
  BY <1>5, <1>6, <1>7, <1>8, <1>10, <1>11, <1>12, <1>13, <1>14, <1>15, <1>16, <1>17, <1>18, <1>19
  DEF VerifyStep

\* An activation that was not there, or that its own step left, knows what it has to.
LEMMA EvidenceStep ==
  ASSUME VerifyTypeOK, VerifyTypeOK', [VerifyNext]_verifyVars, ResultsInv, NEW w \in Verifiers
  PROVE  Evidence(verif[w])'
<1>0. PICK a \in Verifications : a = verif[w]
  BY DEF VerifyTypeOK
<1>1. PICK b \in Verifications : b = verif'[w]
  BY DEF VerifyTypeOK
<1>2. Evidence(a)'
  BY <1>0, EvidenceStays DEF ResultsInv
<1>3. b = Free => Evidence(b)'
  BY DEF Evidence, Free, Judging, Paying, Paid, Punishing, Auditing
<1>4. ASSUME NEW v \in Verifiers, NEW m \in net, NEW o \in Outputs, CompleteWith(v, m, o) PROVE Evidence(b)'
  <2>1. CASE verif' = verif
    BY <1>0, <1>1, <1>2, <2>1
  <2>2. CASE verif' # verif
    <3>1. /\ verif' = [verif EXCEPT ![v] = Started(m.job, o)]
          /\ produced' = [produced EXCEPT ![m.job] = @ \cup {<<m.node, o>>}]
      BY <1>4, <2>2 DEF CompleteWith, Goto
    <3>2. CASE w # v
      BY <1>0, <1>1, <1>2, <3>1, <3>2
    <3>3. CASE w = v
      <4>1. b = Started(m.job, o)
        BY <1>1, <3>1, <3>3 DEF VerifyTypeOK
      <4>2. b.pc = "claim" /\ b.job = m.job /\ b.output = o
        BY <4>1 DEF Started
      <4>3. m.node \in Nodes /\ <<m.node, o>> \in produced'[m.job]
        BY <3>1 DEF VerifyTypeOK, SchedTypeOK, Messages
      <4> QED BY <4>2, <4>3 DEF Evidence, Produced, Judging, Paying, Paid, Punishing, Auditing
    <3> QED BY <3>2, <3>3
  <2> QED BY <2>1, <2>2
<1>5. ASSUME NEW v \in Verifiers, VerifyStep(v) PROVE Evidence(b)'
  <2>1. CASE w = v
    <3>1. verif' = [verif EXCEPT ![v] = b]
      BY <1>1, <1>5, <2>1, OneSlot DEF VerifyTypeOK
    <3> QED BY <1>0, <1>5, <2>1, <3>1, EvidenceNext
  <2>2. CASE w # v
    <3>1. b = a
      BY <1>0, <1>1, <1>5, <2>2, OneSlot DEF VerifyTypeOK
    <3> QED BY <1>2, <3>1
  <2> QED BY <2>1, <2>2
<1>6. ASSUME RestartAll PROVE b = Free
  BY <1>1, <1>6 DEF RestartAll
<1>7. ASSUME UNCHANGED verif PROVE b = a
  BY <1>0, <1>1, <1>7
<1>8. Evidence(b)'
  BY <1>2, <1>3, <1>4, <1>5, <1>6, <1>7
  DEF VerifyNext, Charge, CreateCharged, CreateFails, verifyVars
<1> QED BY <1>1, <1>8 DEF Evidence

\* Every step keeps the invariant: whoever posts, or marks a row, has the evidence for it.
LEMMA ResultsStep ==
  VerifyTypeOK /\ ActiveIsLeased /\ ResultsInv /\ [VerifyNext]_verifyVars => ResultsInv'
<1> SUFFICES ASSUME VerifyTypeOK, ActiveIsLeased, ResultsInv, [VerifyNext]_verifyVars
             PROVE  ResultsInv'
  OBVIOUS
<1>0. VerifyTypeOK'
  BY VerifyTypeStep
<1>1. \A v \in Verifiers : Evidence(verif[v]) /\ verif[v] \in Verifications
  BY DEF ResultsInv, VerifyTypeOK
<1> DEFINE Good(j) == Produced(j, {"good", "wrong"})
           Bad(j) == Produced(j, {"wrong", "broken"})
<1>2. ASSUME NEW j \in Jobs, Posted(Key("reward", j))' PROVE Good(j)'
  <2>1. CASE Posted(Key("reward", j))
    BY <2>1, Grows DEF ResultsInv, MoneyFollowsResults
  <2>2. CASE ~Posted(Key("reward", j))
    <3>1. PICK v \in Verifiers : Pays(v, Key("reward", j))
      BY <1>2, <2>2, NewPostings
    <3>2. verif[v].pc = "reward" /\ verif[v].job = j
      BY <3>1 DEF Pays, Key, PayReward, At
    <3> QED BY <1>1, <3>2, Grows DEF Evidence, Paying
  <2> QED BY <2>1, <2>2
<1>3. ASSUME NEW j \in Jobs, Posted(Key("refund", j))' PROVE Bad(j)'
  <2>1. CASE Posted(Key("refund", j))
    BY <2>1, Grows DEF ResultsInv, MoneyFollowsResults
  <2>2. CASE ~Posted(Key("refund", j))
    <3>1. PICK v \in Verifiers : Pays(v, Key("refund", j))
      BY <1>3, <2>2, NewPostings
    <3>2. verif[v].pc \in {"refund", "auditrefund"} /\ verif[v].job = j
      BY <3>1 DEF Pays, Key, RefundRequester, AuditRefund, At
    <3> QED BY <1>1, <3>2, Grows DEF Evidence, Punishing
  <2> QED BY <2>1, <2>2
<1>4. ASSUME NEW j \in Jobs, job'[j].status = "REWARDED" PROVE Posted(Key("reward", j))'
  <2>1. CASE job[j].status = "REWARDED"
    BY <2>1, Grows DEF ResultsInv, MoneyFollowsResults
  <2>2. CASE job[j].status # "REWARDED"
    <3>1. PICK v \in Verifiers : Finalize(v) /\ verif[v].job = j
      BY <1>4, <2>2, Rewarding
    <3> QED BY <1>1, <3>1, Grows DEF Evidence, Finalize, At, Paid
  <2> QED BY <2>1, <2>2
<1>5. ASSUME NEW j \in Jobs, result'[j].optimistic PROVE Posted(Key("reward", j))'
  <2>1. CASE result[j].optimistic
    BY <2>1, Grows DEF ResultsInv, MoneyFollowsResults
  <2>2. CASE ~result[j].optimistic
    <3>1. PICK v \in Verifiers : FlagOptimistic(v) /\ verif[v].job = j
      BY <1>5, <2>2, ResultWrites
    <3> QED BY <1>1, <3>1, Grows DEF Evidence, FlagOptimistic, At, Paid
  <2> QED BY <2>1, <2>2
<1>6. ASSUME NEW j \in Jobs, result'[j].nrnEligible
      PROVE  TRUE \in References[j] /\ Produced(j, {"good"})'
  <2>1. CASE result[j].nrnEligible
    BY <2>1, Grows DEF ResultsInv, EligibleOnlyIfVerified
  <2>2. CASE ~result[j].nrnEligible
    <3>1. PICK v \in Verifiers : Finalize(v) /\ verif[v].job = j /\ verif[v].how = "strict"
      BY <1>6, <2>2, ResultWrites
    <3> QED BY <1>1, <3>1, Grows DEF Evidence, Finalize, At, Paying
  <2> QED BY <2>1, <2>2
<1>7. ASSUME NEW j \in Jobs, produced'[j] # {} PROVE Produced(j, {result[j].output})'
  <2>1. CASE \E n \in Nodes : <<n, result'[j].output>> \in produced'[j]
    BY <2>1 DEF Produced
  <2>2. CASE result'[j].output = result[j].output /\ produced'[j] = produced[j]
    BY <1>7, <2>2 DEF ResultsInv, LastIsStored, Produced
  <2> QED BY <2>1, <2>2, ResultWrites
<1>8. \A v \in Verifiers : Evidence(verif[v])'
  BY <1>0, EvidenceStep
<1> QED
  BY <1>2, <1>3, <1>4, <1>5, <1>6, <1>7, <1>8
  DEF ResultsInv, MoneyFollowsResults, EligibleOnlyIfVerified, LastIsStored

\* At the start nothing was produced, posted or marked.
LEMMA ResultsInit == VerifyInit => ResultsInv
<1> SUFFICES ASSUME VerifyInit PROVE ResultsInv
  OBVIOUS
<1>1. MoneyFollowsResults
  BY DEF VerifyInit, SchedInit, MoneyFollowsResults, NoResult, Posted, Ledger!Posted
<1>2. EligibleOnlyIfVerified /\ LastIsStored
  BY DEF VerifyInit, EligibleOnlyIfVerified, LastIsStored, NoResult
<1>3. \A v \in Verifiers : Evidence(verif[v])
  BY FreeKnowsNothing DEF VerifyInit
<1> QED BY <1>1, <1>2, <1>3 DEF ResultsInv

\* Rewards are paid only for results that passed the sanity check, refunds only when a result was
\* not right, and rows say that they are paid, or paid on trust, only after the owner was: for any
\* number of verifications that use what they read long ago.
THEOREM MoneyIsJustified == VerifySpec => []MoneyFollowsResults
<1>1. VerifySpec => []ResultsInv
  BY ResultsInit, ResultsStep, VerificationTypes, PTL DEF VerifySpec
<1>2. ResultsInv => MoneyFollowsResults
  BY DEF ResultsInv
<1> QED BY <1>1, <1>2, PTL

\* No result becomes eligible for a payout on trust.
THEOREM EligibleIsVerified == VerifySpec => []EligibleOnlyIfVerified
<1>1. VerifySpec => []ResultsInv
  BY ResultsInit, ResultsStep, VerificationTypes, PTL DEF VerifySpec
<1>2. ResultsInv => EligibleOnlyIfVerified
  BY DEF ResultsInv
<1> QED BY <1>1, <1>2, PTL

-----------------------------------------------------------------------------
(* Trust is earned *)

\* A node that does not have to be sampled has earned it, or started that way.
Earned(n) == FirstLifecycle[n] = "ACTIVE" \/ trust[n].passes >= Passes
SomeEarned == \E n \in Nodes : Earned(n)

\* What an activation knows of its node: the count it read is at most the node's, it goes on with
\* graduation only when its own pass completes the count, and it trusts a node or does without a
\* reference only for a reason that lasts.
Grounds(a) ==
  /\ a.pc = "judge" => /\ a.row.passes <= trust[a.node].passes
                       /\ a.lifecycle = "ACTIVE" => Earned(a.node)
  /\ a.pc \in Paying => /\ a.how = "trusted" => SomeEarned
                        /\ a.how = "provisional" => FALSE \in References[a.job]
  /\ a.pc \in {"verified", "reward", "track", "flag", "account"} =>
       /\ a.row.passes <= trust[a.node].passes
       /\ a.graduate => a.how = "strict" /\ a.row.passes + 1 >= Passes
  /\ a.pc \in {"track", "flag"} => a.how # "strict"
  /\ a.pc = "stake" => trust[a.node].passes >= Passes

TrustInv ==
  /\ \A n \in Nodes : lifecycle[n] = "ACTIVE" => Earned(n)
  /\ \A n \in Nodes : Posted(Key("stakerefund", n)) => trust[n].passes >= Passes
  /\ \A j \in Jobs : result[j].optimistic => FALSE \in References[j] \/ SomeEarned
  /\ \A v \in Verifiers : Grounds(verif[v])

\* Only the verifier writes a node's lifecycle.
LEMMA SchedulerKeepsLifecycle == [SchedNext]_schedVars => lifecycle' = lifecycle
  BY DEF SchedNext, SchedOther, CallStep, Cancel, LeaseExpires, ReadJob, RecoverRead, ReadCandidates,
         PickNode, Claim, Dispatch, Rollback, FailedWrite, RecoverWrite, OnAccepted, OnStarted,
         AgentAccept, FailedRead, AgentStart, AgentComplete, AgentFail, NodeOnline, NodeOffline,
         AgentCrash, Create, OnCompleted, Restart, schedVars

\* A node becomes ACTIVE only when a verification that graduates it accounts for its pass.
LEMMA Graduating ==
  ASSUME VerifyTypeOK, [VerifyNext]_verifyVars, NEW n \in Nodes,
         lifecycle'[n] = "ACTIVE", lifecycle[n] # "ACTIVE"
  PROVE  \E v \in Verifiers : AccountNode(v) /\ verif[v].node = n /\ verif[v].graduate
<1>1. lifecycle \in [Nodes -> Lifecycles]
  BY DEF VerifyTypeOK, SchedTypeOK
<1>2. PICK v \in Verifiers : VerifyStep(v) /\ lifecycle' # lifecycle
  BY GridSteps, SchedulerKeepsLifecycle
<1>3. ~Suspend(v)
  BY <1>1 DEF Suspend
<1>4. AccountNode(v)
  BY <1>2, <1>3
  DEF VerifyStep, ClaimResult, ReadResultRow, ReadNodeRow, Judge, MarkVerified, PayReward,
      TrackOutstanding, FlagOptimistic, RefundStake, FlagStake, Finalize, ReadBalance, Clawback,
      RefundRequester, FailJob, ReadPast, AuditNext, AuditClawback, AuditRefund, AuditFail,
      AuditRecord, schedVars
<1> QED BY <1>1, <1>4 DEF AccountNode

\* Passes are counted one at a time, by a verification that was not provisional, and never taken
\* back.
LEMMA Counting ==
  ASSUME VerifyTypeOK, [VerifyNext]_verifyVars, NEW n \in Nodes
  PROVE  /\ trust[n].passes \in Nat /\ trust'[n].passes \in Nat
         /\ trust[n].passes <= trust'[n].passes
         /\ \A v \in Verifiers : AccountNode(v) /\ verif[v].node = n /\ verif[v].how # "provisional" =>
              trust'[n].passes = trust[n].passes + 1
<1>1. trust \in [Nodes -> Trusts] /\ trust[n].passes \in Nat
  BY DEF VerifyTypeOK, Trusts
<1>2. trust'[n].passes \in Nat
  BY ColumnTypes DEF Trusts
<1>3. ASSUME NEW v \in Verifiers, AccountNode(v)
      PROVE  /\ trust[n].passes <= trust'[n].passes
             /\ verif[v].node = n /\ verif[v].how # "provisional" =>
                  trust'[n].passes = trust[n].passes + 1
  <2>1. CASE verif[v].how = "provisional"
    BY <1>1, <1>3, <2>1 DEF AccountNode, Trusts
  <2>2. CASE verif[v].how # "provisional"
    BY <1>1, <1>3, <2>2 DEF AccountNode, Trusts
  <2> QED BY <2>1, <2>2
<1>4. ASSUME NEW v \in Verifiers, TrackOutstanding(v) \/ FlagStake(v) \/ Suspend(v)
      PROVE  trust[n].passes <= trust'[n].passes
  <2>1. ASSUME NEW m, NEW x, trust' = [trust EXCEPT ![m].outstanding = x]
        PROVE  trust'[n].passes = trust[n].passes
    BY <1>1, <2>1 DEF Trusts
  <2>2. CASE TrackOutstanding(v)
    BY <1>1, <2>1, <2>2 DEF TrackOutstanding
  <2>3. CASE Suspend(v)
    BY <1>1, <2>1, <2>3 DEF Suspend
  <2>4. CASE FlagStake(v)
    BY <1>1, <2>4 DEF FlagStake, Trusts
  <2> QED BY <1>4, <2>2, <2>3, <2>4
<1>5. ASSUME UNCHANGED trust PROVE trust[n].passes <= trust'[n].passes
  BY <1>1, <1>5
<1>6. ASSUME NEW v \in Verifiers, VerifyStep(v) PROVE trust[n].passes <= trust'[n].passes
  BY <1>1, <1>3, <1>4, <1>5, <1>6
  DEF VerifyStep, ClaimResult, ReadResultRow, ReadNodeRow, Judge, MarkVerified, PayReward,
      FlagOptimistic, RefundStake, Finalize, ReadBalance, Clawback,
      RefundRequester, FailJob, ReadPast, AuditNext, AuditClawback, AuditRefund, AuditFail,
      AuditRecord, rowVars
<1>7. trust[n].passes <= trust'[n].passes
  BY <1>1, <1>5, <1>6
  DEF VerifyNext, Charge, CreateCharged, CreateFails, CompleteWith, RestartAll, rowVars, verifyVars
<1> QED BY <1>1, <1>2, <1>3, <1>7

\* What was earned stays earned.
LEMMA EarnedStays ==
  ASSUME VerifyTypeOK, [VerifyNext]_verifyVars
  PROVE  /\ \A n \in Nodes : Earned(n) => Earned(n)'
         /\ SomeEarned => SomeEarned'
<1>1. ASSUME NEW n \in Nodes, Earned(n) PROVE Earned(n)'
  <2>1. trust[n].passes \in Nat /\ trust'[n].passes \in Nat /\ trust[n].passes <= trust'[n].passes
    BY Counting
  <2> QED BY <1>1, <2>1 DEF Earned
<1> QED BY <1>1 DEF SomeEarned

LEMMA GroundsStay ==
  ASSUME VerifyTypeOK, [VerifyNext]_verifyVars, NEW a \in Verifications, Grounds(a)
  PROVE  Grounds(a)'
<1>1. a.pc \in {"judge"} \cup Paying => a.node \in Nodes /\ a.row.passes \in Nat
  BY VerificationShape DEF Paying, Trusts
<1>2. ASSUME NEW n \in Nodes, NEW p \in Nat, p <= trust[n].passes PROVE p <= trust'[n].passes
  <2>1. trust[n].passes \in Nat /\ trust'[n].passes \in Nat /\ trust[n].passes <= trust'[n].passes
    BY Counting
  <2> QED BY <1>2, <2>1
<1>3. a.pc = "judge" => /\ a.row.passes <= trust'[a.node].passes
                        /\ a.lifecycle = "ACTIVE" => Earned(a.node)'
  BY <1>1, <1>2, EarnedStays DEF Grounds
<1>4. a.pc \in {"verified", "reward", "track", "flag", "account"} =>
        a.row.passes <= trust'[a.node].passes
  BY <1>1, <1>2 DEF Grounds, Paying
<1>5. a.pc = "stake" => trust'[a.node].passes >= Passes
  BY <1>1, Counting DEF Grounds, Paying
<1> QED BY <1>3, <1>4, <1>5, EarnedStays DEF Grounds

\* An activation that is not at one of the phases that need grounds has them.
LEMMA NoGrounds ==
  ASSUME NEW a, a.pc \notin {"judge"} \cup Paying
  PROVE  Grounds(a) /\ Grounds(a)'
  BY DEF Grounds, Paying

\* What an activation goes on to, it has grounds for.
LEMMA GroundsNext ==
  ASSUME VerifyTypeOK, VerifyTypeOK', [VerifyNext]_verifyVars, TrustInv, NEW v \in Verifiers, VerifyStep(v),
         NEW a \in Verifications, verif[v] = a,
         NEW b \in Verifications, verif' = [verif EXCEPT ![v] = b]
  PROVE  Grounds(b)'
<1>1. Grounds(a) /\ Grounds(a)'
  BY GroundsStay DEF TrustInv
<1>2. \A x : /\ Goto(v, x) => b = x
             /\ Step(v, x) => b = [a EXCEPT !.pc = x]
  BY DEF Goto, Step, VerifyTypeOK
<1>3. Finish(v) => b = Free
  BY <1>2 DEF Finish
<1>4. b.pc \notin {"judge"} \cup Paying => Grounds(b)'
  BY NoGrounds
<1>5. b = Free => Grounds(b)'
  BY <1>4 DEF Free, Paying
<1>6. ASSUME ReadNodeRow(v) PROVE Grounds(b)'
  <2>1. a.node \in Nodes
    BY <1>6, VerificationShape DEF ReadNodeRow, At
  <2>2. b = [pc |-> "judge", job |-> a.job, output |-> a.output, node |-> a.node,
             lifecycle |-> lifecycle[a.node], row |-> trust[a.node]]
    BY <1>2, <1>6 DEF ReadNodeRow
  <2>3. b.pc = "judge" /\ b.node = a.node /\ b.lifecycle = lifecycle[a.node] /\ b.row = trust[a.node]
    BY <2>2
  <2>4. b.row.passes <= trust'[b.node].passes
    BY <2>1, <2>3, Counting
  <2>5. b.lifecycle = "ACTIVE" => Earned(b.node)'
    BY <2>1, <2>3, EarnedStays DEF TrustInv
  <2> QED BY <2>3, <2>4, <2>5 DEF Grounds, Paying
<1>7. ASSUME Judge(v) PROVE Grounds(b)'
  <2>1. a.pc = "judge" /\ a.job \in Jobs /\ a.node \in Nodes /\ a.lifecycle \in Lifecycles
    BY <1>7, VerificationShape DEF Judge, At
  <2>2. PICK how \in Judgements(a) :
          b = IF how = "slash"
              THEN [pc |-> "slash", job |-> a.job, node |-> a.node, row |-> a.row]
              ELSE [pc |-> "verified", job |-> a.job, node |-> a.node, how |-> how,
                    row |-> a.row, graduate |-> Graduates(a, how)]
    BY <1>2, <1>7 DEF Judge
  <2>3. CASE how = "slash"
    BY <1>4, <2>2, <2>3 DEF Paying
  <2>4. CASE how # "slash"
    <3>1. /\ b.pc = "verified" /\ b.job = a.job /\ b.node = a.node /\ b.how = how
          /\ b.row = a.row /\ b.graduate = Graduates(a, how)
      BY <2>2, <2>4
    <3>2. how = "trusted" => SomeEarned'
      <4>1. how = "trusted" => a.lifecycle = "ACTIVE"
        BY <2>1, <2>2 DEF Judgements, MustSample, Lifecycles
      <4> QED BY <1>1, <2>1, <4>1 DEF Grounds, SomeEarned
    <3>3. how = "provisional" => FALSE \in References[a.job]
      BY <2>2 DEF Judgements
    <3>4. Graduates(a, how) => how = "strict" /\ a.row.passes + 1 >= Passes
      BY DEF Graduates
    <3> QED BY <1>1, <2>1, <3>1, <3>2, <3>3, <3>4 DEF Grounds, Paying
  <2> QED BY <2>3, <2>4
<1>8. ASSUME a.pc \in Paying, NEW p \in Paying, b = [a EXCEPT !.pc = p],
             p \in {"verified", "reward", "track", "flag", "account"} =>
               a.pc \in {"verified", "reward", "track", "flag", "account"},
             p \in {"track", "flag"} => a.how # "strict",
             p = "stake" => trust'[a.node].passes >= Passes
      PROVE  Grounds(b)'
  <2>1. /\ b.pc = p /\ b.job = a.job /\ b.node = a.node /\ b.how = a.how /\ b.row = a.row
        /\ b.graduate = a.graduate
    BY <1>8, FieldsStay
  <2>2. /\ b.how = "trusted" => SomeEarned'
        /\ b.how = "provisional" => FALSE \in References[b.job]
    BY <1>1, <1>8, <2>1 DEF Grounds
  <2>3. p \in {"verified", "reward", "track", "flag", "account"} =>
          /\ b.row.passes <= trust'[b.node].passes
          /\ b.graduate => b.how = "strict" /\ b.row.passes + 1 >= Passes
    BY <1>1, <1>8, <2>1 DEF Grounds
  <2> QED BY <1>8, <2>1, <2>2, <2>3 DEF Grounds, Paying
<1>9. ASSUME MarkVerified(v) PROVE Grounds(b)'
  <2>1. a.pc = "verified" /\ b = [a EXCEPT !.pc = "reward"]
    BY <1>2, <1>9 DEF MarkVerified, At
  <2> QED BY <1>8, <2>1 DEF Paying
<1>10. ASSUME PayReward(v) PROVE Grounds(b)'
  <2>1. /\ a.pc = "reward"
        /\ b = Free \/ b = [a EXCEPT !.pc = IF a.how = "strict" THEN "account" ELSE "track"]
    BY <1>2, <1>3, <1>10 DEF PayReward, At
  <2>2. CASE a.how = "strict" /\ b = [a EXCEPT !.pc = "account"]
    BY <1>8, <2>1, <2>2 DEF Paying
  <2>3. CASE a.how # "strict" /\ b = [a EXCEPT !.pc = "track"]
    BY <1>8, <2>1, <2>3 DEF Paying
  <2> QED BY <1>5, <2>1, <2>2, <2>3
<1>11. ASSUME TrackOutstanding(v) PROVE Grounds(b)'
  <2>1. a.pc = "track" /\ b = [a EXCEPT !.pc = "flag"]
    BY <1>2, <1>11 DEF TrackOutstanding, At
  <2>2. a.how # "strict"
    BY <1>1, <2>1 DEF Grounds
  <2> QED BY <1>8, <2>1, <2>2 DEF Paying
<1>12. ASSUME FlagOptimistic(v) PROVE Grounds(b)'
  <2>1. a.pc = "flag" /\ b = [a EXCEPT !.pc = "account"]
    BY <1>2, <1>12 DEF FlagOptimistic, At
  <2> QED BY <1>8, <2>1 DEF Paying
<1>13. ASSUME AccountNode(v) PROVE Grounds(b)'
  <2>1. /\ a.pc = "account" /\ a.node \in Nodes /\ a.row.passes \in Nat
        /\ \/ b = [a EXCEPT !.pc = "stake"] /\ a.graduate
           \/ b = [a EXCEPT !.pc = "finalize"]
    BY <1>2, <1>13, VerificationShape DEF AccountNode, At, Trusts
  <2>2. CASE b = [a EXCEPT !.pc = "stake"] /\ a.graduate
    <3>1. a.how = "strict" /\ a.row.passes + 1 >= Passes /\ a.row.passes <= trust[a.node].passes
      BY <1>1, <2>1, <2>2 DEF Grounds
    <3>2. trust[a.node].passes \in Nat /\ trust'[a.node].passes = trust[a.node].passes + 1
      BY <1>13, <2>1, <3>1, Counting
    <3>3. trust'[a.node].passes >= Passes
      BY <2>1, <3>1, <3>2
    <3> QED BY <1>8, <2>1, <2>2, <3>3 DEF Paying
  <2>3. CASE b = [a EXCEPT !.pc = "finalize"]
    BY <1>8, <2>1, <2>3 DEF Paying
  <2> QED BY <2>1, <2>2, <2>3
<1>14. ASSUME RefundStake(v) \/ FlagStake(v) PROVE Grounds(b)'
  <2>1. a.pc \in {"stake", "stakeflag"} /\ \E p \in {"stakeflag", "finalize"} : b = [a EXCEPT !.pc = p]
    BY <1>2, <1>14 DEF RefundStake, FlagStake, At
  <2> QED BY <1>8, <2>1 DEF Paying
<1>15. ASSUME ClaimResult(v) \/ ReadResultRow(v) PROVE b.pc \notin {"judge"} \cup Paying
  <2>1. \/ b = Free
        \/ a.pc = "claim" /\ b = [a EXCEPT !.pc = "job"]
        \/ b.pc = "node"
    BY <1>2, <1>3, <1>15 DEF ClaimResult, ReadResultRow, At
  <2>2. a.pc = "claim" /\ b = [a EXCEPT !.pc = "job"] => b.pc = "job"
    BY FieldsStay DEF Judging
  <2>3. b.pc \in {"free", "job", "node"}
    BY <2>1, <2>2 DEF Free
  <2> QED BY <2>3 DEF Paying
<1>16. ASSUME Finalize(v) PROVE Grounds(b)'
  BY <1>3, <1>5, <1>16 DEF Finalize
<1>17. ASSUME ReadBalance(v) \/ ReadPast(v) \/ AuditRecord(v) PROVE b.pc \notin {"judge"} \cup Paying
  <2>1. CASE ReadBalance(v)
    <3>1. b.pc \in {"clawback", "suspend"}
      BY <1>2, <2>1 DEF ReadBalance
    <3> QED BY <3>1 DEF Paying
  <2>2. CASE ReadPast(v) \/ AuditRecord(v)
    <3>1. b.pc = "next"
      BY <1>2, <2>2 DEF ReadPast, AuditRecord
    <3> QED BY <3>1 DEF Paying
  <2> QED BY <1>17, <2>1, <2>2
<1>18. ASSUME Clawback(v) \/ Suspend(v) \/ RefundRequester(v) \/ FailJob(v)
       PROVE  b.pc \notin {"judge"} \cup Paying
  <2>1. PICK p \in {"suspend", "refund", "fail", "audit"} :
          b = [a EXCEPT !.pc = p] /\ a.pc \in {"clawback", "suspend", "refund", "fail"}
    BY <1>2, <1>18 DEF Clawback, Suspend, RefundRequester, FailJob, At
  <2>2. b.pc = p
    BY <2>1, FieldsStay
  <2> QED BY <2>1, <2>2 DEF Paying
<1>19. ASSUME AuditClawback(v) \/ AuditRefund(v) \/ AuditFail(v) PROVE b.pc \notin {"judge"} \cup Paying
  <2>1. PICK p \in {"auditrefund", "auditfail", "auditrecord"} :
          b = [a EXCEPT !.pc = p] /\ a.pc \in {"auditclawback", "auditrefund", "auditfail"}
    BY <1>2, <1>19 DEF AuditClawback, AuditRefund, AuditFail, At
  <2>2. b.pc = p
    BY <2>1, FieldsStay DEF Auditing
  <2> QED BY <2>1, <2>2 DEF Paying
<1>20. ASSUME AuditNext(v) PROVE b.pc \notin {"judge"} \cup Paying
  <2> DEFINE Take(p) == IF balance[Owner[a.node]] < p.reward THEN balance[Owner[a.node]] ELSE p.reward
             Pc(p) == IF Take(p) > 0 THEN "auditclawback" ELSE "auditrefund"
  <2>1. \/ Finish(v)
        \/ \E p \in a.left : Goto(v, [pc |-> Pc(p), job |-> p.job, node |-> a.node,
                                      take |-> Take(p), left |-> a.left \ {p}])
    BY <1>20 DEF AuditNext
  <2>2. ASSUME NEW p PROVE Pc(p) \in {"auditclawback", "auditrefund"}
    OBVIOUS
  <2> HIDE DEF Take, Pc
  <2>3. CASE Finish(v)
    BY <1>3, <2>3 DEF Free, Paying
  <2>4. ASSUME NEW p \in a.left,
               Goto(v, [pc |-> Pc(p), job |-> p.job, node |-> a.node, take |-> Take(p),
                        left |-> a.left \ {p}])
        PROVE  b.pc = Pc(p)
    BY <1>2, <2>4
  <2>5. ASSUME NEW p \in a.left, b.pc = Pc(p) PROVE b.pc \notin {"judge"} \cup Paying
    BY <2>2, <2>5 DEF Paying
  <2> QED BY <2>1, <2>3, <2>4, <2>5
<1> QED
  BY <1>4, <1>6, <1>7, <1>9, <1>10, <1>11, <1>12, <1>13, <1>14, <1>15, <1>16, <1>17, <1>18, <1>19, <1>20
  DEF VerifyStep

\* The grounds of every activation, one step later.
LEMMA GroundsStep ==
  ASSUME VerifyTypeOK, VerifyTypeOK', [VerifyNext]_verifyVars, TrustInv, NEW w \in Verifiers
  PROVE  Grounds(verif[w])'
<1>0. PICK a \in Verifications : a = verif[w]
  BY DEF VerifyTypeOK
<1>1. PICK b \in Verifications : b = verif'[w]
  BY DEF VerifyTypeOK
<1>2. Grounds(a)'
  BY <1>0, GroundsStay DEF TrustInv
<1>3. b.pc \in {"free", "claim"} => Grounds(b)'
  BY NoGrounds DEF Paying
<1>4. ASSUME NEW v \in Verifiers, NEW m \in net, NEW o \in Outputs, CompleteWith(v, m, o)
      PROVE  b = a \/ b.pc = "claim"
  <2>1. verif' = verif \/ verif' = [verif EXCEPT ![v] = Started(m.job, o)]
    BY <1>4 DEF CompleteWith, Goto
  <2> QED BY <1>0, <1>1, <2>1 DEF Started, VerifyTypeOK
<1>5. ASSUME NEW v \in Verifiers, VerifyStep(v) PROVE Grounds(b)'
  <2>1. CASE w = v
    <3>1. verif' = [verif EXCEPT ![v] = b]
      BY <1>1, <1>5, <2>1, OneSlot DEF VerifyTypeOK
    <3> QED BY <1>0, <1>5, <2>1, <3>1, GroundsNext
  <2>2. CASE w # v
    <3>1. b = a
      BY <1>0, <1>1, <1>5, <2>2, OneSlot DEF VerifyTypeOK
    <3> QED BY <1>2, <3>1
  <2> QED BY <2>1, <2>2
<1>6. ASSUME RestartAll PROVE b.pc = "free"
  BY <1>1, <1>6 DEF RestartAll, Free
<1>7. ASSUME UNCHANGED verif PROVE b = a
  BY <1>0, <1>1, <1>7
<1>8. Grounds(b)'
  BY <1>2, <1>3, <1>4, <1>5, <1>6, <1>7
  DEF VerifyNext, Charge, CreateCharged, CreateFails, verifyVars
<1> QED BY <1>1, <1>8 DEF Grounds

\* Every step keeps the invariant: a count that was read is never more than the count that is.
LEMMA TrustStep ==
  VerifyTypeOK /\ ActiveIsLeased /\ TrustInv /\ [VerifyNext]_verifyVars => TrustInv'
<1> SUFFICES ASSUME VerifyTypeOK, ActiveIsLeased, TrustInv, [VerifyNext]_verifyVars
             PROVE  TrustInv'
  OBVIOUS
<1>0. VerifyTypeOK'
  BY VerifyTypeStep
<1>1. \A v \in Verifiers : Grounds(verif[v]) /\ verif[v] \in Verifications
  BY DEF TrustInv, VerifyTypeOK
<1>2. ASSUME NEW n \in Nodes, lifecycle'[n] = "ACTIVE" PROVE Earned(n)'
  <2>1. CASE lifecycle[n] = "ACTIVE"
    BY <2>1, EarnedStays DEF TrustInv
  <2>2. CASE lifecycle[n] # "ACTIVE"
    <3>1. PICK v \in Verifiers : AccountNode(v) /\ verif[v].node = n /\ verif[v].graduate
      BY <1>2, <2>2, Graduating
    <3>2. verif[v].pc = "account" /\ verif[v].row.passes \in Nat
      BY <1>1, <3>1, VerificationShape DEF AccountNode, At, Trusts
    <3>3. /\ verif[v].how = "strict" /\ verif[v].row.passes + 1 >= Passes
          /\ verif[v].row.passes <= trust[n].passes
      BY <1>1, <3>1, <3>2 DEF Grounds
    <3>4. trust[n].passes \in Nat /\ trust'[n].passes = trust[n].passes + 1
      BY <3>1, <3>3, Counting
    <3>5. trust'[n].passes >= Passes
      BY <3>2, <3>3, <3>4
    <3> QED BY <3>5 DEF Earned
  <2> QED BY <2>1, <2>2
<1>3. ASSUME NEW n \in Nodes, Posted(Key("stakerefund", n))' PROVE trust'[n].passes >= Passes
  <2>1. trust[n].passes >= Passes
    <3>1. CASE Posted(Key("stakerefund", n))
      BY <3>1 DEF TrustInv
    <3>2. CASE ~Posted(Key("stakerefund", n))
      <4>1. PICK v \in Verifiers : Pays(v, Key("stakerefund", n))
        BY <1>3, <3>2, NewPostings
      <4>2. verif[v].pc = "stake" /\ verif[v].node = n
        BY <4>1 DEF Pays, Key, RefundStake, At
      <4> QED BY <1>1, <4>2 DEF Grounds
    <3> QED BY <3>1, <3>2
  <2>2. trust[n].passes \in Nat /\ trust'[n].passes \in Nat /\ trust[n].passes <= trust'[n].passes
    BY Counting
  <2> QED BY <2>1, <2>2
<1>4. ASSUME NEW j \in Jobs, result'[j].optimistic PROVE FALSE \in References[j] \/ SomeEarned'
  <2>1. CASE result[j].optimistic
    BY <2>1, EarnedStays DEF TrustInv
  <2>2. CASE ~result[j].optimistic
    <3>1. PICK v \in Verifiers : FlagOptimistic(v) /\ verif[v].job = j
      BY <1>4, <2>2, ResultWrites
    <3>2. verif[v].pc = "flag" /\ verif[v].how \in {"trusted", "provisional", "strict"}
      BY <1>1, <3>1, VerificationShape DEF FlagOptimistic, At
    <3> QED BY <1>1, <3>1, <3>2, EarnedStays DEF Grounds, Paying
  <2> QED BY <2>1, <2>2
<1>5. \A v \in Verifiers : Grounds(verif[v])'
  BY <1>0, GroundsStep
<1> QED BY <1>2, <1>3, <1>4, <1>5 DEF TrustInv

\* A node that starts on probation becomes ACTIVE, and gets its stake back, only with
\* PROBATION_DEEP_PASSES passes, though concurrent verifications read the count long before they
\* write it; and until some node has earned its way out, nothing that can be checked is paid for on
\* trust.
THEOREM TrustHasBeenEarned == VerifySpec => []TrustIsEarned
<1>1. VerifyInit => TrustInv
  <2> SUFFICES ASSUME VerifyInit PROVE TrustInv
    OBVIOUS
  <2>1. \A n \in Nodes : lifecycle[n] = "ACTIVE" => Earned(n)
    BY DEF VerifyInit, SchedInit, Earned
  <2>2. /\ \A n \in Nodes : ~Posted(Key("stakerefund", n))
        /\ \A j \in Jobs : ~result[j].optimistic
    BY DEF VerifyInit, Posted, Ledger!Posted, NoResult
  <2>3. \A v \in Verifiers : Grounds(verif[v])
    <3>1. Free.pc \notin {"judge"} \cup Paying
      BY DEF Free, Paying
    <3> QED BY <3>1 DEF VerifyInit, Grounds, Free, Paying
  <2> QED BY <2>1, <2>2, <2>3 DEF TrustInv
<1>2. VerifySpec => []TrustInv
  BY <1>1, TrustStep, VerificationTypes, PTL DEF VerifySpec
<1>3. VerifyTypeOK /\ TrustInv => TrustIsEarned
  <2> SUFFICES ASSUME VerifyTypeOK, TrustInv PROVE TrustIsEarned
    OBVIOUS
  <2>1. \A n \in Nodes : trust[n].passes \in Nat
    BY DEF VerifyTypeOK, Trusts
  <2>2. ASSUME NEW n \in Nodes, FirstLifecycle[n] = "PROBATION",
               lifecycle[n] = "ACTIVE" \/ Posted(Key("stakerefund", n))
        PROVE  trust[n].passes >= Passes
    BY <2>2 DEF TrustInv, Earned
  <2>3. (\A n \in Nodes : FirstLifecycle[n] # "ACTIVE" /\ trust[n].passes < Passes) => ~SomeEarned
    BY <2>1 DEF Earned, SomeEarned
  <2> QED BY <2>2, <2>3 DEF TrustInv, TrustIsEarned
<1> QED BY <1>2, <1>3, VerificationTypes, PTL
=============================================================================
