--------------------------- MODULE JobVerification ---------------------------
(***************************************************************************)
(* The job pipeline with its money: JobScheduler, composed with the        *)
(* verifier (jobs/verification.service.ts) that judges each result and     *)
(* pays or slashes the node, the charge and refund of jobs.service.ts, and *)
(* the credit ledger.                                                      *)
(*                                                                         *)
(* handleCompleted is one activation with an action per database           *)
(* statement.  What it reads (the job's node, the node's row) it uses      *)
(* several statements later, while the scheduler, the requester and other  *)
(* activations go on.  Credit movements are the atomic postings that       *)
(* CreditsService implements.                                              *)
(***************************************************************************)
EXTENDS JobScheduler

CONSTANTS
  Users,         \* account holders
  NoKey,         \* idempotencyKey = null
  Requester,     \* Requester[j]: who pays for job j
  Owner,         \* Owner[n]: who is paid for the work of node n
  Cost,          \* Cost[j]: Job.costCredits
  Reward,        \* Reward[j]: JOB_REWARD of the job's type
  Stake,         \* Stake[n]: ComputeNode.stakeCredits
  Passes,        \* PROBATION_DEEP_PASSES
  References,    \* References[j]: whether the trusted executor can return a reference for the
                 \* type of j ({TRUE}, {FALSE}, or both when it depends on the deployment)
  Verifiers,     \* slots for activations of handleCompleted (bound)
  FirstBalance   \* FirstBalance[u]: credits of user u when the model starts

ASSUME VerificationAssumption ==
  /\ Requester \in [Jobs -> Users]
  /\ Owner \in [Nodes -> Users]
  /\ Cost \in [Jobs -> Nat \ {0}]
  /\ Reward \in [Jobs -> Nat \ {0}]
  /\ Stake \in [Nodes -> Nat]
  /\ Passes \in Nat \ {0}
  /\ References \in [Jobs -> (SUBSET BOOLEAN) \ {{}}]
  /\ FirstBalance \in [Users -> Nat]

VARIABLES
  balance,   \* User.creditBalance
  book,      \* ledger rows that carry an idempotency key
  order,     \* order[j]: how far JobsService.create has come for job j
  result,    \* the columns of the Job row that the verifier reads and writes
  trust,     \* the columns of the ComputeNode row that the verifier reads and writes
  verif,     \* verif[v]: the activation of handleCompleted in slot v
  produced   \* history: the results accepted so far, with the node that sent each

moneyVars == <<balance, book>>
rowVars == <<order, result, trust, produced>>
verifyVars == <<schedVars, moneyVars, rowVars, verif>>

\* The grid as the verifier leaves it alone, but for the job's status and the lifecycle.
gridVars == <<todo, calls, sockets, net, running>>

-----------------------------------------------------------------------------
(* Rows, keys and activations *)

\* A result is right, plausible but wrong, or not even plausible (fails the sanity check).
Outputs == {"good", "wrong", "broken"}
Verdicts == {"none", "PASS", "PENDING", "FAIL"}

Results == [output : Outputs \cup {"none"}, verdict : Verdicts, optimistic : BOOLEAN,
            rewardCredits : Nat, nrnEligible : BOOLEAN]
NoResult == [output |-> "none", verdict |-> "none", optimistic |-> FALSE,
             rewardCredits |-> 0, nrnEligible |-> FALSE]

\* verifiedJobCount, outstandingOptimisticCredits, stakeRefunded
Trusts == [passes : Nat, outstanding : Nat, stakeRefunded : BOOLEAN]

Key(kind, x) == <<kind, x>>
Keys == ({"reward", "clawback", "refund"} \X Jobs) \cup ({"stakerefund"} \X Nodes)

ASSUME KeysAssumption == NoKey \notin Keys

Ledger == INSTANCE AtomicLedger WITH Amounts <- Int

Post(u, amount, k) == Ledger!Post(u, amount, k)
Posted(k) == Ledger!Posted(k)

\* An optional posting whose failure the caller swallows (`.catch(() => undefined)`).
PostOrSkip(u, amount, k) ==
  IF Posted(k) \/ balance[u] + amount < 0 THEN UNCHANGED moneyVars ELSE Post(u, amount, k)

\* One activation: the job and output it was started with, the node it read, the node row as
\* it was then, how the result was judged, the amount it is about to claw back, and the jobs
\* the retro-audit still has to punish.
Free == [pc |-> "free"]
Started(j, o) == [pc |-> "claim", job |-> j, output |-> o]
Prior == [job : Jobs, reward : Nat]
Verifications ==
  {Free}
  \cup [pc : {"claim", "job"}, job : Jobs, output : Outputs]
  \cup [pc : {"node"}, job : Jobs, output : Outputs, node : Nodes]
  \cup [pc : {"judge"}, job : Jobs, output : Outputs, node : Nodes,
        lifecycle : Lifecycles, row : Trusts]
  \cup [pc : {"verified", "reward", "track", "flag", "account", "stake", "stakeflag", "finalize"},
        job : Jobs, node : Nodes, how : {"trusted", "provisional", "strict"},
        row : Trusts, graduate : BOOLEAN]
  \cup [pc : {"slash"}, job : Jobs, node : Nodes, row : Trusts]
  \cup [pc : {"clawback", "suspend", "refund", "fail", "audit"},
        job : Jobs, node : Nodes, take : Nat]
  \cup [pc : {"next"}, node : Nodes, left : SUBSET Prior]
  \cup [pc : {"auditclawback", "auditrefund", "auditfail", "auditrecord"},
        job : Jobs, node : Nodes, take : Nat, left : SUBSET Prior]

Goto(v, a) == verif' = [verif EXCEPT ![v] = a]
At(v, pc) == verif[v].pc = pc
Step(v, pc) == Goto(v, [verif[v] EXCEPT !.pc = pc])
Finish(v) == Goto(v, Free)

\* job.update by id: whatever status the row has by now.
SetStatus(j, s) == job' = [job EXCEPT ![j].status = s]

VerifyInit ==
  /\ SchedInit
  /\ balance = FirstBalance
  /\ book = {}
  /\ order = [j \in Jobs |-> "new"]
  /\ result = [j \in Jobs |-> NoResult]
  /\ trust = [n \in Nodes |-> [passes |-> 0, outstanding |-> 0, stakeRefunded |-> FALSE]]
  /\ verif = [v \in Verifiers |-> Free]
  /\ produced = [j \in Jobs |-> {}]

-----------------------------------------------------------------------------
(* JobsService.create around the row: charge first, refund when the row cannot be made *)

Charge(j) ==
  /\ order[j] = "new"
  /\ Post(Requester[j], -Cost[j], NoKey)
  /\ order' = [order EXCEPT ![j] = "charged"]
  /\ UNCHANGED <<schedVars, result, trust, produced, verif>>

CreateCharged(j) ==
  /\ order[j] = "charged"
  /\ Create(j)
  /\ order' = [order EXCEPT ![j] = "created"]
  /\ UNCHANGED <<moneyVars, result, trust, produced, verif>>

CreateFails(j) ==
  /\ order[j] = "charged"
  /\ Post(Requester[j], Cost[j], NoKey)
  /\ order' = [order EXCEPT ![j] = "refused"]
  /\ UNCHANGED <<schedVars, result, trust, produced, verif>>

-----------------------------------------------------------------------------
(* handleCompleted up to the verdict *)

\* onCompleted calls handleCompleted for a result it accepted.
CompleteWith(v, m, o) ==
  /\ OnCompleted(m)
  /\ IF Accepts(m)
     THEN /\ verif[v] = Free
          /\ Goto(v, Started(m.job, o))
          /\ result' = [result EXCEPT ![m.job].output = o]
          /\ produced' = [produced EXCEPT ![m.job] = @ \cup {<<m.node, o>>}]
     ELSE UNCHANGED <<verif, result, produced>>
  /\ UNCHANGED <<moneyVars, order, trust>>

\* The compare-and-set COMPLETED -> VERIFYING: one activation per result goes on.
ClaimResult(v) ==
  /\ At(v, "claim")
  /\ LET j == verif[v].job
     IN  IF job[j].status = "COMPLETED"
         THEN SetStatus(j, "VERIFYING") /\ Step(v, "job")
         ELSE Finish(v) /\ UNCHANGED job
  /\ UNCHANGED <<gridVars, lifecycle, moneyVars, rowVars>>

\* findUnique on the job: from here on its node is the one that is judged.
ReadResultRow(v) ==
  /\ At(v, "job")
  /\ LET a == verif[v]
         n == job[a.job].node
     IN  IF n = NoNode
         THEN Finish(v)
         ELSE Goto(v, [pc |-> "node", job |-> a.job, output |-> a.output, node |-> n])
  /\ UNCHANGED <<schedVars, moneyVars, rowVars>>

\* findUnique on the node: the snapshot that every later decision uses.
ReadNodeRow(v) ==
  /\ At(v, "node")
  /\ LET a == verif[v]
     IN  Goto(v, [pc |-> "judge", job |-> a.job, output |-> a.output, node |-> a.node,
                  lifecycle |-> lifecycle[a.node], row |-> trust[a.node]])
  /\ UNCHANGED <<schedVars, moneyVars, rowVars>>

\* Broken variant (mutation check): nodes on probation may be left unsampled.
NeverMustSample(a) == FALSE

\* shouldSample: always, unless the node is ACTIVE, when it is drawn at random.  (The rewards
\* of the enabled job types are below HIGH_VALUE_THRESHOLD.)
MustSample(a) == a.lifecycle \in {"PROBATION", "SUSPENDED"}

\* What the judgement may be, given the output and the snapshot: "trusted" without a look,
\* "provisional" without a reference, "strict" after a deep comparison, or "slash".
Judgements(a) ==
  IF a.output = "broken" THEN {"slash"}
  ELSE (IF MustSample(a) THEN {} ELSE {"trusted"})
       \cup (IF FALSE \in References[a.job] THEN {"provisional"} ELSE {})
       \cup (IF TRUE \in References[a.job]
             THEN {IF a.output = "good" THEN "strict" ELSE "slash"} ELSE {})

VerdictOf(judgement) ==
  CASE judgement \in {"trusted", "strict"} -> "PASS"
    [] judgement = "provisional" -> "PENDING"
    [] judgement = "slash" -> "FAIL"

\* Deep PASS number PROBATION_DEEP_PASSES, by the count in the snapshot.
Graduates(a, how) ==
  how = "strict" /\ a.lifecycle = "PROBATION" /\ a.row.passes + 1 >= Passes

Judge(v) ==
  /\ At(v, "judge")
  /\ LET a == verif[v]
     IN  \E how \in Judgements(a) :
           /\ result' = [result EXCEPT ![a.job].verdict = VerdictOf(how)]
           /\ Goto(v, IF how = "slash"
                      THEN [pc |-> "slash", job |-> a.job, node |-> a.node, row |-> a.row]
                      ELSE [pc |-> "verified", job |-> a.job, node |-> a.node, how |-> how,
                            row |-> a.row, graduate |-> Graduates(a, how)])
  /\ UNCHANGED <<schedVars, moneyVars, order, trust, produced>>

-----------------------------------------------------------------------------
(* The result stands: VERIFIED, pay, account, REWARDED *)

MarkVerified(v) ==
  /\ At(v, "verified")
  /\ SetStatus(verif[v].job, "VERIFIED")
  /\ Step(v, "reward")
  /\ UNCHANGED <<gridVars, lifecycle, moneyVars, rowVars>>

\* A collision on reward:<job> throws out of handleCompleted.
PayReward(v) ==
  /\ At(v, "reward")
  /\ LET a == verif[v]
         k == Key("reward", a.job)
     IN  IF Posted(k)
         THEN Finish(v) /\ UNCHANGED moneyVars
         ELSE /\ Post(Owner[a.node], Reward[a.job], k)
              /\ Step(v, IF a.how = "strict" THEN "account" ELSE "track")
  /\ UNCHANGED <<schedVars, rowVars>>

\* An optimistic reward is remembered on the node ...
TrackOutstanding(v) ==
  /\ At(v, "track")
  /\ LET a == verif[v]
     IN  trust' = [trust EXCEPT ![a.node].outstanding = @ + Reward[a.job]]
  /\ Step(v, "flag")
  /\ UNCHANGED <<schedVars, moneyVars, order, result, produced>>

\* ... and then on the job.
FlagOptimistic(v) ==
  /\ At(v, "flag")
  /\ result' = [result EXCEPT ![verif[v].job].optimistic = TRUE]
  /\ Step(v, "account")
  /\ UNCHANGED <<schedVars, moneyVars, order, trust, produced>>

\* The node's counters, and its lifecycle when the snapshot said that it graduates.
AccountNode(v) ==
  /\ At(v, "account")
  /\ LET a == verif[v]
     IN  /\ trust' = [trust EXCEPT ![a.node].passes = IF a.how = "provisional" THEN @ ELSE @ + 1]
         /\ lifecycle' = IF a.graduate THEN [lifecycle EXCEPT ![a.node] = "ACTIVE"] ELSE lifecycle
         /\ Step(v, IF a.graduate /\ Stake[a.node] > 0 /\ ~a.row.stakeRefunded
                    THEN "stake" ELSE "finalize")
  /\ UNCHANGED <<gridVars, job, moneyVars, order, result, produced>>

RefundStake(v) ==
  /\ At(v, "stake")
  /\ LET n == verif[v].node
     IN  PostOrSkip(Owner[n], Stake[n], Key("stakerefund", n))
  /\ Step(v, "stakeflag")
  /\ UNCHANGED <<schedVars, rowVars>>

FlagStake(v) ==
  /\ At(v, "stakeflag")
  /\ trust' = [trust EXCEPT ![verif[v].node].stakeRefunded = TRUE]
  /\ Step(v, "finalize")
  /\ UNCHANGED <<schedVars, moneyVars, order, result, produced>>

\* Broken variant (mutation check): every paid result is eligible.
FinalizeEligible(v) ==
  /\ At(v, "finalize")
  /\ LET a == verif[v]
     IN  /\ SetStatus(a.job, "REWARDED")
         /\ result' = [result EXCEPT ![a.job].rewardCredits = Reward[a.job],
                                     ![a.job].nrnEligible = TRUE]
  /\ Finish(v)
  /\ UNCHANGED <<gridVars, lifecycle, moneyVars, order, trust, produced>>

Finalize(v) ==
  /\ At(v, "finalize")
  /\ LET a == verif[v]
     IN  /\ SetStatus(a.job, "REWARDED")
         /\ result' = [result EXCEPT ![a.job].rewardCredits = Reward[a.job],
                                     ![a.job].nrnEligible = a.how = "strict"]
  /\ Finish(v)
  /\ UNCHANGED <<gridVars, lifecycle, moneyVars, order, trust, produced>>

-----------------------------------------------------------------------------
(* The result is wrong: claw back, suspend, refund, FAILED, and audit the node's past *)

\* getBalance, for the smaller of the balance and the node's outstanding credits.
ReadBalance(v) ==
  /\ At(v, "slash")
  /\ LET a == verif[v]
         bal == balance[Owner[a.node]]
         take == IF bal < a.row.outstanding THEN bal ELSE a.row.outstanding
     IN  Goto(v, [pc |-> IF take > 0 THEN "clawback" ELSE "suspend",
                  job |-> a.job, node |-> a.node, take |-> take])
  /\ UNCHANGED <<schedVars, moneyVars, rowVars>>

Clawback(v) ==
  /\ At(v, "clawback")
  /\ LET a == verif[v]
     IN  PostOrSkip(Owner[a.node], -a.take, Key("clawback", a.job))
  /\ Step(v, "suspend")
  /\ UNCHANGED <<schedVars, rowVars>>

Suspend(v) ==
  /\ At(v, "suspend")
  /\ LET n == verif[v].node
     IN  /\ lifecycle' = [lifecycle EXCEPT ![n] = "SUSPENDED"]
         /\ trust' = [trust EXCEPT ![n].outstanding = 0]
  /\ Step(v, "refund")
  /\ UNCHANGED <<gridVars, job, moneyVars, order, result, produced>>

RefundRequester(v) ==
  /\ At(v, "refund")
  /\ LET j == verif[v].job
     IN  PostOrSkip(Requester[j], Cost[j], Key("refund", j))
  /\ Step(v, "fail")
  /\ UNCHANGED <<schedVars, rowVars>>

FailJob(v) ==
  /\ At(v, "fail")
  /\ SetStatus(verif[v].job, "FAILED")
  /\ Step(v, "audit")
  /\ UNCHANGED <<gridVars, lifecycle, moneyVars, rowVars>>

\* Broken variant (mutation check): the audit punishes without comparing again.
WrongJobsUnchecked(n) ==
  {j \in Jobs : job[j].node = n /\ result[j].optimistic /\ job[j].status \in {"VERIFIED", "REWARDED"}}

\* The node's jobs that were paid on trust and whose result does not match the reference.
\* (RETRO_AUDIT_WINDOW is larger than Jobs.)
WrongJobs(n) ==
  {j \in Jobs : /\ job[j].node = n /\ result[j].optimistic
                /\ job[j].status \in {"VERIFIED", "REWARDED"}
                /\ result[j].output # "good" /\ TRUE \in References[j]}

\* retroAudit's findMany: the rows as they are now.
ReadPast(v) ==
  /\ At(v, "audit")
  /\ LET a == verif[v]
         left == {[job |-> j, reward |-> result[j].rewardCredits] : j \in WrongJobs(a.node)}
     IN  Goto(v, [pc |-> "next", node |-> a.node, left |-> left])
  /\ UNCHANGED <<schedVars, moneyVars, rowVars>>

\* The next of them (in the order they were verified, which is not modelled): nothing to take
\* back when the row the audit read had no reward on it yet.
AuditNext(v) ==
  /\ At(v, "next")
  /\ LET a == verif[v]
     IN  \/ /\ a.left = {}
            /\ Finish(v)
         \/ \E p \in a.left :
              LET bal == balance[Owner[a.node]]
                  take == IF bal < p.reward THEN bal ELSE p.reward
              IN  Goto(v, [pc |-> IF take > 0 THEN "auditclawback" ELSE "auditrefund",
                           job |-> p.job, node |-> a.node, take |-> take, left |-> a.left \ {p}])
  /\ UNCHANGED <<schedVars, moneyVars, rowVars>>

AuditClawback(v) ==
  /\ At(v, "auditclawback")
  /\ LET a == verif[v]
     IN  PostOrSkip(Owner[a.node], -a.take, Key("clawback", a.job))
  /\ Step(v, "auditrefund")
  /\ UNCHANGED <<schedVars, rowVars>>

AuditRefund(v) ==
  /\ At(v, "auditrefund")
  /\ LET j == verif[v].job
     IN  PostOrSkip(Requester[j], Cost[j], Key("refund", j))
  /\ Step(v, "auditfail")
  /\ UNCHANGED <<schedVars, rowVars>>

AuditFail(v) ==
  /\ At(v, "auditfail")
  /\ SetStatus(verif[v].job, "FAILED")
  /\ Step(v, "auditrecord")
  /\ UNCHANGED <<gridVars, lifecycle, moneyVars, rowVars>>

AuditRecord(v) ==
  /\ At(v, "auditrecord")
  /\ LET a == verif[v]
     IN  /\ result' = [result EXCEPT ![a.job].verdict = "FAIL"]
         /\ Goto(v, [pc |-> "next", node |-> a.node, left |-> a.left])
  /\ UNCHANGED <<schedVars, moneyVars, order, trust, produced>>

-----------------------------------------------------------------------------

\* The API process restarts: verifications that were under way are never resumed.
RestartAll ==
  /\ Restart
  /\ verif' = [v \in Verifiers |-> Free]
  /\ UNCHANGED <<moneyVars, rowVars>>

VerifyStep(v) ==
  \/ ClaimResult(v) \/ ReadResultRow(v) \/ ReadNodeRow(v) \/ Judge(v)
  \/ MarkVerified(v) \/ PayReward(v) \/ TrackOutstanding(v) \/ FlagOptimistic(v)
  \/ AccountNode(v) \/ RefundStake(v) \/ FlagStake(v) \/ Finalize(v)
  \/ ReadBalance(v) \/ Clawback(v) \/ Suspend(v) \/ RefundRequester(v) \/ FailJob(v)
  \/ ReadPast(v) \/ AuditNext(v) \/ AuditClawback(v) \/ AuditRefund(v) \/ AuditFail(v)
  \/ AuditRecord(v)

VerifyNext ==
  \/ SchedOther /\ UNCHANGED <<moneyVars, rowVars, verif>>
  \/ \E j \in Jobs : Charge(j) \/ CreateCharged(j) \/ CreateFails(j)
  \/ \E v \in Verifiers, m \in net, o \in Outputs : CompleteWith(v, m, o)
  \/ \E v \in Verifiers : VerifyStep(v)
  \/ RestartAll

VerifySpec == VerifyInit /\ [][VerifyNext]_verifyVars

-----------------------------------------------------------------------------
(* Properties *)

\* Every variable has its type; in particular no account is overdrawn.
VerifyTypeOK ==
  /\ SchedTypeOK
  /\ balance \in [Users -> Nat]
  /\ book \subseteq [user : Users, amount : Int, key : Keys]
  /\ order \in [Jobs -> {"new", "charged", "created", "refused"}]
  /\ result \in [Jobs -> Results]
  /\ trust \in [Nodes -> Trusts]
  /\ verif \in [Verifiers -> Verifications]
  /\ produced \in [Jobs -> SUBSET (Nodes \X Outputs)]

\* Some node has sent such a result for j, and the result was accepted.
Produced(j, outputs) == \E n \in Nodes, o \in outputs : <<n, o>> \in produced[j]

\* Credits follow results, however often a job was run and whichever node row was judged: a
\* reward is only ever paid for a result that passed the sanity check, the requester is
\* refunded only when some result was not right, and a row is marked as paid, or as paid on
\* trust, only after the owner was paid, so that the retro-audit never takes back what was not
\* given.
MoneyFollowsResults ==
  \A j \in Jobs :
    /\ Posted(Key("reward", j)) => Produced(j, {"good", "wrong"})
    /\ Posted(Key("refund", j)) => Produced(j, {"wrong", "broken"})
    /\ job[j].status = "REWARDED" \/ result[j].optimistic => Posted(Key("reward", j))

\* "Blocks pass-by-trust laundering": a job is eligible for a payout only if a right result was
\* compared with a reference, whatever the verifications that wrote the row did later.
EligibleOnlyIfVerified ==
  \A j \in Jobs :
    result[j].nrnEligible => TRUE \in References[j] /\ Produced(j, {"good"})

\* The count that decides on graduation is read long before it is written, and concurrent
\* verifications read the same one: still, a node that started on probation becomes ACTIVE
\* and gets its stake back only with PROBATION_DEEP_PASSES passes.  And while no node has earned
\* its way out, nothing that can be checked is paid for on trust, even if the node row a
\* verification looks at is not the one it should.
TrustIsEarned ==
  /\ \A n \in Nodes :
       FirstLifecycle[n] = "PROBATION" /\ (lifecycle[n] = "ACTIVE" \/ Posted(Key("stakerefund", n)))
         => trust[n].passes >= Passes
  /\ (\A n \in Nodes : FirstLifecycle[n] # "ACTIVE" /\ trust[n].passes < Passes)
       => \A j \in Jobs : result[j].optimistic => FALSE \in References[j]

\* The owner who is paid is the owner of a node that produced a result.
ProducerIsPaid ==
  \A e \in book : e.key[1] = "reward" => \E r \in produced[e.key[2]] : Owner[r[1]] = e.user
=============================================================================
