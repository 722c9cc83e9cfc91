------------------------- MODULE JobSchedulerProofs -------------------------
(***************************************************************************)
(* What holds of JobScheduler for every set of jobs and nodes, any number  *)
(* of concurrent handler activations, and every value of the limits.       *)
(***************************************************************************)
EXTENDS JobScheduler, TLAPS

USE SchedulerAssumption DEF SchedulerAssumption

-----------------------------------------------------------------------------
(* Types *)

\* An activation in a given phase has the fields of that phase.
LEMMA ActivationShape ==
  ASSUME NEW a \in Activations
  PROVE  /\ a.pc = "candidates" => a.job \in Jobs /\ a.attempt \in Nat
         /\ a.pc = "load" => a.job \in Jobs /\ a.attempt \in Nat /\ a.cands \in SUBSET Nodes
         /\ a.pc = "claim" => a.job \in Jobs /\ a.attempt \in Nat /\ a.node \in Nodes
         /\ a.pc = "dispatch" => /\ a.job \in Jobs /\ a.attempt \in Nat
                                 /\ a.node \in Nodes /\ a.claim \in Nat
         /\ a.pc = "rollback" => a.job \in Jobs /\ a.node \in Nodes
         /\ a.pc = "failed" => a.job \in Jobs /\ a.node \in Nodes /\ a.retry \in BOOLEAN
         /\ a.pc = "recover" => /\ a.job \in Jobs /\ a.status \in Active
                                /\ a.attempt \in Nat /\ a.node \in Nodes
  BY DEF Activations, Idle

\* An event of an execution, or of an assignment, is a message.
LEMMA EventType ==
  ASSUME NEW x \in Executions \cup Messages, NEW kind \in EventKinds
  PROVE  Event(kind, x) \in Messages
  BY DEF Event, Executions, Messages

\* The rows that the handlers write are rows.
LEMMA RowType ==
  ASSUME NEW row \in Rows, NEW s \in Statuses, NEW l \in Leases
  PROVE  /\ [row EXCEPT !.status = s, !.lease = l] \in Rows
         /\ Requeued(row) \in Rows
         /\ GivenUp(row) \in Rows
         /\ \A n \in Nodes : [GivenUp(row) EXCEPT !.node = n] \in Rows
  BY DEF Rows, Requeued, GivenUp, Statuses, Leases

\* The initial state is well typed.
LEMMA TypeInit == SchedInit => SchedTypeOK
  BY DEF SchedInit, SchedTypeOK, Rows, Statuses, Leases, Activations, Idle, Lifecycles

\* Every step keeps the types.
LEMMA TypeStep ==
  SchedTypeOK /\ ActiveIsLeased /\ [SchedNext]_schedVars => SchedTypeOK'
<1> SUFFICES ASSUME SchedTypeOK, ActiveIsLeased, [SchedNext]_schedVars
             PROVE  SchedTypeOK'
  OBVIOUS
<1> USE DEF SchedTypeOK
<1>1. ASSUME NEW j \in Jobs, Create(j) PROVE SchedTypeOK'
  BY <1>1 DEF Create, SetRow, Rows, Statuses
<1>2. ASSUME NEW j \in Jobs, Cancel(j) PROVE SchedTypeOK'
  BY <1>2 DEF Cancel, SetRow, Rows, Statuses, Leases
<1>3. ASSUME NEW j \in Jobs, LeaseExpires(j) PROVE SchedTypeOK'
  BY <1>3 DEF LeaseExpires, SetRow, Rows, Leases
<1>4. ASSUME NEW c \in Calls, NEW j \in Jobs, ReadJob(c, j) PROVE SchedTypeOK'
  BY <1>4 DEF ReadJob, SetCall, Activations, Rows
<1>5. ASSUME NEW c \in Calls, NEW j \in Jobs, RecoverRead(c, j) PROVE SchedTypeOK'
  BY <1>5 DEF RecoverRead, SetCall, Activations, Rows, ActiveIsLeased
<1>6. ASSUME NEW c \in Calls, ReadCandidates(c) PROVE SchedTypeOK'
  <2>1. calls[c] \in Activations
    OBVIOUS
  <2> QED BY <1>6, <2>1, ActivationShape DEF ReadCandidates, SetCall, Return, Activations
<1>7. ASSUME NEW c \in Calls, PickNode(c) PROVE SchedTypeOK'
  <2>1. calls[c] \in Activations
    OBVIOUS
  <2> QED BY <1>7, <2>1, ActivationShape DEF PickNode, SetCall, Return, Activations
<1>8. ASSUME NEW c \in Calls, Claim(c) PROVE SchedTypeOK'
  <2>1. calls[c] \in Activations
    OBVIOUS
  <2> QED BY <1>8, <2>1, ActivationShape DEF Claim, SetCall, SetRow, Return, Activations, Rows, Statuses, Leases, Active
<1>9. ASSUME NEW c \in Calls, Dispatch(c) PROVE SchedTypeOK'
  <2>1. calls[c] \in Activations
    OBVIOUS
  <2> QED BY <1>9, <2>1, ActivationShape DEF Dispatch, SetCall, Return, Activations, Messages
<1>10. ASSUME NEW c \in Calls, Rollback(c) PROVE SchedTypeOK'
  <2>1. calls[c] \in Activations
    OBVIOUS
  <2>2. \A i \in Jobs : Requeued(job[i]) \in Rows
    BY RowType DEF Statuses, Leases
  <2> QED BY <1>10, <2>1, <2>2, ActivationShape DEF Rollback, SetCall, SetRow, Return, Activations
<1>11. ASSUME NEW c \in Calls, FailedWrite(c) PROVE SchedTypeOK'
  <2>1. calls[c] \in Activations
    OBVIOUS
  <2>2. \A i \in Jobs : Requeued(job[i]) \in Rows /\ GivenUp(job[i]) \in Rows
    BY RowType DEF Statuses, Leases
  <2> QED BY <1>11, <2>1, <2>2, ActivationShape DEF FailedWrite, SetCall, SetRow, Return, Activations
<1>12. ASSUME NEW c \in Calls, RecoverWrite(c) PROVE SchedTypeOK'
  <2>1. calls[c] \in Activations
    OBVIOUS
  <2>2. \A i \in Jobs : /\ Requeued(job[i]) \in Rows
                      /\ \A n \in Nodes : [GivenUp(job[i]) EXCEPT !.node = n] \in Rows
    BY RowType DEF Statuses, Leases
  <2> QED BY <1>12, <2>1, <2>2, ActivationShape DEF RecoverWrite, SetCall, SetRow, Return, Activations
<1>13. ASSUME NEW m \in net, OnAccepted(m) PROVE SchedTypeOK'
  <2>1. m.job \in Jobs
    BY DEF Messages
  <2>2. [job[m.job] EXCEPT !.status = "ACCEPTED", !.lease = "live"] \in Rows
    BY <2>1, RowType DEF Statuses, Active, Leases
  <2> QED BY <1>13, <2>1, <2>2 DEF OnAccepted, SetRow
<1>14. ASSUME NEW m \in net, OnStarted(m) PROVE SchedTypeOK'
  <2>1. m.job \in Jobs
    BY DEF Messages
  <2>2. [job[m.job] EXCEPT !.status = "RUNNING", !.lease = "live"] \in Rows
    BY <2>1, RowType DEF Statuses, Active, Leases
  <2> QED BY <1>14, <2>1, <2>2 DEF OnStarted, SetRow
<1>15. ASSUME NEW m \in net, OnCompleted(m) PROVE SchedTypeOK'
  <2>1. m.job \in Jobs
    BY DEF Messages
  <2>2. [job[m.job] EXCEPT !.status = "COMPLETED", !.lease = "none"] \in Rows
    BY <2>1, RowType DEF Statuses, Active, Leases
  <2> QED BY <1>15, <2>1, <2>2 DEF OnCompleted, SetRow
<1>16. ASSUME NEW m \in net, AgentAccept(m) PROVE SchedTypeOK'
  <2>1. Event("accepted", m) \in Messages
    BY EventType DEF EventKinds
  <2>2. [stage |-> "accepted", job |-> m.job, node |-> m.node,
         attempt |-> m.attempt, claim |-> m.claim] \in Executions
    BY DEF Executions, Messages
  <2> QED BY <1>16, <2>1, <2>2 DEF AgentAccept
<1>17. ASSUME NEW m \in net, NEW c \in Calls, FailedRead(c, m) PROVE SchedTypeOK'
  <2>1. m.job \in Jobs /\ m.node \in Nodes
    BY DEF Messages
  <2>2. (job[m.job].attempt < MaxAttempts) \in BOOLEAN
    BY <2>1 DEF Rows
  <2>3. [pc |-> "failed", job |-> m.job, node |-> m.node,
         retry |-> job[m.job].attempt < MaxAttempts] \in Activations
    BY <2>1, <2>2 DEF Activations
  <2> QED BY <1>17, <2>3 DEF FailedRead, SetCall
<1>18. ASSUME NEW x \in running, AgentStart(x) PROVE SchedTypeOK'
  <2>1. Event("started", x) \in Messages
    BY EventType DEF EventKinds
  <2> QED BY <1>18, <2>1 DEF AgentStart, Executions
<1>19. ASSUME NEW x \in running, AgentComplete(x) PROVE SchedTypeOK'
  <2>1. Event("completed", x) \in Messages
    BY EventType DEF EventKinds
  <2> QED BY <1>19, <2>1 DEF AgentComplete, Executions
<1>20. ASSUME NEW x \in running, AgentFail(x) PROVE SchedTypeOK'
  <2>1. Event("failed", x) \in Messages
    BY EventType DEF EventKinds
  <2> QED BY <1>20, <2>1 DEF AgentFail, Executions
<1>21. ASSUME NEW n \in Nodes, NodeOnline(n) PROVE SchedTypeOK'
  BY <1>21 DEF NodeOnline
<1>22. ASSUME NEW n \in Nodes, NodeOffline(n) PROVE SchedTypeOK'
  BY <1>22 DEF NodeOffline
<1>23. ASSUME NEW n \in Nodes, AgentCrash(n) PROVE SchedTypeOK'
  BY <1>23 DEF AgentCrash
<1>24. ASSUME Restart PROVE SchedTypeOK'
  BY <1>24 DEF Restart, Activations
<1>25. ASSUME UNCHANGED schedVars PROVE SchedTypeOK'
  BY <1>25 DEF schedVars
<1> QED
  BY <1>1, <1>2, <1>3, <1>4, <1>5, <1>6, <1>7, <1>8, <1>9, <1>10, <1>11, <1>12, <1>13, <1>14, <1>15, <1>16, <1>17, <1>18, <1>19, <1>20, <1>21, <1>22, <1>23, <1>24, <1>25 DEF SchedNext, SchedOther, CallStep
-----------------------------------------------------------------------------
(* Rows *)

\* The moves a step of the scheduler can make with a row.
Inserted(i) == job[i].status = "NONE" /\ job'[i] = [job[i] EXCEPT !.status = "PENDING"]
Claimed(i) ==
  /\ job[i].status = "PENDING"
  /\ \E n \in Nodes : job'[i] = [status |-> "ASSIGNED", node |-> n,
                                attempt |-> job[i].attempt + 1, lease |-> "live"]
Progressed(i) ==
  /\ job[i].status \in Active
  /\ \E st \in Active : job'[i] = [job[i] EXCEPT !.status = st, !.lease = "live"]
RanOut(i) == job[i].lease = "live" /\ job'[i] = [job[i] EXCEPT !.lease = "expired"]
Ended(i) ==
  /\ job[i].status \notin {"NONE", "CANCELLED"}
  /\ \E st \in {"COMPLETED", "FAILED", "CANCELLED"}, n \in Nodes \cup {NoNode} :
       job'[i] = [job[i] EXCEPT !.status = st, !.lease = "none", !.node = n]
Waits(i) == job[i].status \notin {"NONE", "CANCELLED"} /\ job'[i] = Requeued(job[i])

RowMove(i) ==
  job'[i] = job[i] \/ Inserted(i) \/ Claimed(i) \/ Progressed(i) \/ RanOut(i) \/ Ended(i) \/ Waits(i)

LEMMA RowMoves ==
  SchedTypeOK /\ ActiveIsLeased /\ [SchedNext]_schedVars => \A i \in Jobs : RowMove(i)
<1> SUFFICES ASSUME SchedTypeOK, ActiveIsLeased, [SchedNext]_schedVars, NEW i \in Jobs
             PROVE  RowMove(i)
  OBVIOUS
<1> USE DEF SchedTypeOK
<1>1. ASSUME NEW j \in Jobs, Create(j) PROVE RowMove(i)
  BY <1>1 DEF Create, SetRow, RowMove, Inserted, Rows
<1>2. ASSUME NEW j \in Jobs, Cancel(j) PROVE RowMove(i)
  <2>1. CASE i # j
    BY <1>2, <2>1 DEF Cancel, SetRow, RowMove, Ended
  <2>2. CASE i = j
    <3>1. /\ job[i].status \notin {"NONE", "CANCELLED"}
          /\ job'[i] = [job[i] EXCEPT !.status = "CANCELLED", !.lease = "none"]
      BY <1>2, <2>2 DEF Cancel, SetRow
    <3>2. job'[i] = [job[i] EXCEPT !.status = "CANCELLED", !.lease = "none", !.node = job[i].node]
      BY <3>1, job[i] \in Rows DEF Rows
    <3> QED BY <3>1, <3>2, job[i] \in Rows DEF RowMove, Ended, Rows
  <2> QED BY <2>1, <2>2
<1>3. ASSUME NEW j \in Jobs, LeaseExpires(j) PROVE RowMove(i)
  BY <1>3 DEF LeaseExpires, SetRow, RowMove, RanOut, Rows
<1>4. ASSUME NEW c \in Calls, NEW j \in Jobs, ReadJob(c, j) PROVE RowMove(i)
  BY <1>4 DEF ReadJob, RowMove
<1>5. ASSUME NEW c \in Calls, NEW j \in Jobs, RecoverRead(c, j) PROVE RowMove(i)
  BY <1>5 DEF RecoverRead, RowMove
<1>6. ASSUME NEW c \in Calls, ReadCandidates(c) PROVE RowMove(i)
  BY <1>6 DEF ReadCandidates, RowMove
<1>7. ASSUME NEW c \in Calls, PickNode(c) PROVE RowMove(i)
  BY <1>7 DEF PickNode, RowMove
<1>8. ASSUME NEW c \in Calls, Claim(c) PROVE RowMove(i)
  <2>1. calls[c] \in Activations
    OBVIOUS
  <2>2. calls[c].job \in Jobs /\ calls[c].node \in Nodes
    BY <1>8, <2>1, ActivationShape DEF Claim
  <2>3. CASE i = calls[c].job /\ job[i].status = "PENDING"
    BY <1>8, <2>2, <2>3 DEF Claim, SetRow, RowMove, Claimed
  <2>4. CASE ~(i = calls[c].job /\ job[i].status = "PENDING")
    BY <1>8, <2>2, <2>4 DEF Claim, SetRow, RowMove, Claimed
  <2> QED BY <2>3, <2>4
<1>9. ASSUME NEW c \in Calls, Dispatch(c) PROVE RowMove(i)
  BY <1>9 DEF Dispatch, RowMove
<1>10. ASSUME NEW c \in Calls, Rollback(c) PROVE RowMove(i)
  <2>1. calls[c] \in Activations
    OBVIOUS
  <2> QED BY <1>10, <2>1, ActivationShape DEF Rollback, SetRow, RowMove, Waits, Requeued, Rows
<1>11. ASSUME NEW c \in Calls, FailedWrite(c) PROVE RowMove(i)
  <2>1. calls[c] \in Activations
    OBVIOUS
  <2>2. calls[c].job \in Jobs /\ calls[c].node \in Nodes
    BY <1>11, <2>1, ActivationShape DEF FailedWrite
  <2>3. CASE job'[i] = job[i]
    BY <2>3 DEF RowMove, Ended, Waits
  <2>4. CASE job'[i] # job[i]
    <3>1. /\ i = calls[c].job
          /\ job[i].node = calls[c].node /\ job[i].status \notin Settled
          /\ job'[i] = Requeued(job[i]) \/ job'[i] = GivenUp(job[i])
      BY <1>11, <2>2, <2>4 DEF FailedWrite, SetRow
    <3>2. job[i].status \notin {"NONE", "CANCELLED"}
      BY <3>1, <2>2 DEF ActiveIsLeased, Settled
    <3>3. GivenUp(job[i]) = [job[i] EXCEPT !.status = "FAILED", !.lease = "none", !.node = job[i].node]
      BY DEF GivenUp, Rows
    <3> QED BY <3>1, <3>2, <3>3, job[i] \in Rows DEF RowMove, Ended, Waits, Rows
  <2> QED BY <2>3, <2>4
<1>12. ASSUME NEW c \in Calls, RecoverWrite(c) PROVE RowMove(i)
  <2>1. calls[c] \in Activations
    OBVIOUS
  <2>2. calls[c].job \in Jobs /\ calls[c].node \in Nodes /\ calls[c].status \in Active
    BY <1>12, <2>1, ActivationShape DEF RecoverWrite
  <2>3. CASE job'[i] = job[i]
    BY <2>3 DEF RowMove, Ended, Waits
  <2>4. CASE job'[i] # job[i]
    <3> DEFINE n == calls[c].node
    <3>1. /\ i = calls[c].job
          /\ job[i].status \in Active
          /\ job'[i] = Requeued(job[i]) \/ job'[i] = [GivenUp(job[i]) EXCEPT !.node = n]
      BY <1>12, <2>2, <2>4 DEF RecoverWrite, SetRow
    <3>2. job[i].status \notin {"NONE", "CANCELLED"}
      BY <3>1 DEF Active
    <3>3. [GivenUp(job[i]) EXCEPT !.node = n] = [job[i] EXCEPT !.status = "FAILED", !.lease = "none", !.node = n]
      BY DEF GivenUp, Rows
    <3> QED BY <2>2, <3>1, <3>2, <3>3 DEF RowMove, Ended, Waits
  <2> QED BY <2>3, <2>4
<1>13. ASSUME NEW m \in net, OnAccepted(m) PROVE RowMove(i)
  BY <1>13 DEF OnAccepted, SetRow, RowMove, Progressed, Rows, Active
<1>14. ASSUME NEW m \in net, OnStarted(m) PROVE RowMove(i)
  BY <1>14 DEF OnStarted, SetRow, RowMove, Progressed, Rows, Active
<1>15. ASSUME NEW m \in net, OnCompleted(m) PROVE RowMove(i)
  <2>1. CASE job'[i] = job[i]
    BY <2>1 DEF RowMove, Ended
  <2>2. CASE job'[i] # job[i]
    <3>1. /\ job[i].status \in Active
          /\ job'[i] = [job[i] EXCEPT !.status = "COMPLETED", !.lease = "none"]
      BY <1>15, <2>2 DEF OnCompleted, SetRow, Accepts
    <3>2. job'[i] = [job[i] EXCEPT !.status = "COMPLETED", !.lease = "none", !.node = job[i].node]
      BY <3>1, job[i] \in Rows DEF Rows
    <3> QED BY <3>1, <3>2, job[i] \in Rows DEF RowMove, Ended, Rows, Active
  <2> QED BY <2>1, <2>2
<1>16. ASSUME NEW m \in net, AgentAccept(m) PROVE RowMove(i)
  BY <1>16 DEF AgentAccept, RowMove
<1>17. ASSUME NEW m \in net, NEW c \in Calls, FailedRead(c, m) PROVE RowMove(i)
  BY <1>17 DEF FailedRead, RowMove
<1>18. ASSUME NEW x \in running, AgentStart(x) PROVE RowMove(i)
  BY <1>18 DEF AgentStart, RowMove
<1>19. ASSUME NEW x \in running, AgentComplete(x) PROVE RowMove(i)
  BY <1>19 DEF AgentComplete, RowMove
<1>20. ASSUME NEW x \in running, AgentFail(x) PROVE RowMove(i)
  BY <1>20 DEF AgentFail, RowMove
<1>21. ASSUME NEW n \in Nodes, NodeOnline(n) PROVE RowMove(i)
  BY <1>21 DEF NodeOnline, RowMove
<1>22. ASSUME NEW n \in Nodes, NodeOffline(n) PROVE RowMove(i)
  BY <1>22 DEF NodeOffline, RowMove
<1>23. ASSUME NEW n \in Nodes, AgentCrash(n) PROVE RowMove(i)
  BY <1>23 DEF AgentCrash, RowMove
<1>24. ASSUME Restart PROVE RowMove(i)
  BY <1>24 DEF Restart, RowMove
<1>25. ASSUME UNCHANGED schedVars PROVE RowMove(i)
  BY <1>25 DEF schedVars, RowMove
<1> QED
  BY <1>1, <1>2, <1>3, <1>4, <1>5, <1>6, <1>7, <1>8, <1>9, <1>10, <1>11, <1>12, <1>13, <1>14, <1>15, <1>16, <1>17, <1>18, <1>19, <1>20, <1>21, <1>22, <1>23, <1>24, <1>25 DEF SchedNext, SchedOther, CallStep

\* A step touches one row.
OneRow == job' = job \/ \E i \in Jobs : \A k \in Jobs \ {i} : job'[k] = job[k]

LEMMA OneRowMoves == SchedTypeOK /\ [SchedNext]_schedVars => OneRow
<1> SUFFICES ASSUME SchedTypeOK, [SchedNext]_schedVars PROVE OneRow
  OBVIOUS
<1> USE DEF SchedTypeOK, OneRow
<1>1. ASSUME NEW j \in Jobs, Create(j) PROVE OneRow
  BY <1>1 DEF Create, SetRow
<1>2. ASSUME NEW j \in Jobs, Cancel(j) PROVE OneRow
  BY <1>2 DEF Cancel, SetRow
<1>3. ASSUME NEW j \in Jobs, LeaseExpires(j) PROVE OneRow
  BY <1>3 DEF LeaseExpires, SetRow
<1>4. ASSUME NEW c \in Calls, NEW j \in Jobs, ReadJob(c, j) PROVE OneRow
  BY <1>4 DEF ReadJob
<1>5. ASSUME NEW c \in Calls, NEW j \in Jobs, RecoverRead(c, j) PROVE OneRow
  BY <1>5 DEF RecoverRead
<1>6. ASSUME NEW c \in Calls, ReadCandidates(c) PROVE OneRow
  BY <1>6 DEF ReadCandidates
<1>7. ASSUME NEW c \in Calls, PickNode(c) PROVE OneRow
  BY <1>7 DEF PickNode
<1>8. ASSUME NEW c \in Calls, Claim(c) PROVE OneRow
  BY <1>8 DEF Claim, SetRow
<1>9. ASSUME NEW c \in Calls, Dispatch(c) PROVE OneRow
  BY <1>9 DEF Dispatch
<1>10. ASSUME NEW c \in Calls, Rollback(c) PROVE OneRow
  BY <1>10 DEF Rollback, SetRow
<1>11. ASSUME NEW c \in Calls, FailedWrite(c) PROVE OneRow
  BY <1>11 DEF FailedWrite, SetRow
<1>12. ASSUME NEW c \in Calls, RecoverWrite(c) PROVE OneRow
  BY <1>12 DEF RecoverWrite, SetRow
<1>13. ASSUME NEW m \in net, OnAccepted(m) PROVE OneRow
  BY <1>13 DEF OnAccepted, SetRow
<1>14. ASSUME NEW m \in net, OnStarted(m) PROVE OneRow
  BY <1>14 DEF OnStarted, SetRow
<1>15. ASSUME NEW m \in net, OnCompleted(m) PROVE OneRow
  BY <1>15 DEF OnCompleted, SetRow
<1>16. ASSUME NEW m \in net, AgentAccept(m) PROVE OneRow
  BY <1>16 DEF AgentAccept
<1>17. ASSUME NEW m \in net, NEW c \in Calls, FailedRead(c, m) PROVE OneRow
  BY <1>17 DEF FailedRead
<1>18. ASSUME NEW x \in running, AgentStart(x) PROVE OneRow
  BY <1>18 DEF AgentStart
<1>19. ASSUME NEW x \in running, AgentComplete(x) PROVE OneRow
  BY <1>19 DEF AgentComplete
<1>20. ASSUME NEW x \in running, AgentFail(x) PROVE OneRow
  BY <1>20 DEF AgentFail
<1>21. ASSUME NEW n \in Nodes, NodeOnline(n) PROVE OneRow
  BY <1>21 DEF NodeOnline
<1>22. ASSUME NEW n \in Nodes, NodeOffline(n) PROVE OneRow
  BY <1>22 DEF NodeOffline
<1>23. ASSUME NEW n \in Nodes, AgentCrash(n) PROVE OneRow
  BY <1>23 DEF AgentCrash
<1>24. ASSUME Restart PROVE OneRow
  BY <1>24 DEF Restart
<1>25. ASSUME UNCHANGED schedVars PROVE OneRow
  BY <1>25 DEF schedVars
<1> QED
  BY <1>1, <1>2, <1>3, <1>4, <1>5, <1>6, <1>7, <1>8, <1>9, <1>10, <1>11, <1>12, <1>13, <1>14, <1>15, <1>16, <1>17, <1>18, <1>19, <1>20, <1>21, <1>22, <1>23, <1>24, <1>25 DEF SchedNext, SchedOther, CallStep

\* A row in an active status keeps its node and its attempt while it stays active, and becomes
\* active only by a claim.
LEMMA ActiveMoves ==
  ASSUME SchedTypeOK, ActiveIsLeased, [SchedNext]_schedVars, NEW i \in Jobs
  PROVE  /\ job'[i].attempt \in {job[i].attempt, job[i].attempt + 1}
         /\ job'[i].attempt # job[i].attempt
              => /\ job[i].status = "PENDING" /\ job'[i].status = "ASSIGNED"
                 /\ job'[i].node \in Nodes
         /\ (job'[i].attempt = job[i].attempt /\ job'[i].status \in Active)
              => job[i].status \in Active /\ job'[i].node = job[i].node
<1>1. RowMove(i)
  BY RowMoves
<1>2. job[i] \in Rows
  BY DEF SchedTypeOK
<1>3. CASE Inserted(i)
  BY <1>2, <1>3 DEF Inserted, Rows, Active
<1>4. CASE Claimed(i)
  BY <1>2, <1>4 DEF Claimed, Rows
<1>5. CASE Progressed(i)
  BY <1>2, <1>5 DEF Progressed, Rows
<1>6. CASE RanOut(i)
  BY <1>2, <1>6 DEF RanOut, Rows
<1>7. CASE Ended(i)
  BY <1>2, <1>7 DEF Ended, Rows, Active
<1>8. CASE Waits(i)
  BY <1>2, <1>8 DEF Waits, Requeued, Rows, Active
<1> QED BY <1>1, <1>2, <1>3, <1>4, <1>5, <1>6, <1>7, <1>8 DEF RowMove, Rows

\* ActiveIsLeased holds initially and is kept by every step.
LEMMA LeasedStep ==
  SchedTypeOK /\ ActiveIsLeased /\ [SchedNext]_schedVars => ActiveIsLeased'
<1> SUFFICES ASSUME SchedTypeOK, ActiveIsLeased, [SchedNext]_schedVars, NEW i \in Jobs
             PROVE  /\ job'[i].status \in Active => job'[i].lease # "none" /\ job'[i].node \in Nodes
                    /\ job'[i].status \in {"NONE", "PENDING"}
                         => job'[i].lease = "none" /\ job'[i].node = NoNode
  BY DEF ActiveIsLeased
<1>1. RowMove(i)
  BY RowMoves
<1>2. job[i] \in Rows
  BY DEF SchedTypeOK
<1> USE DEF ActiveIsLeased
<1>3. CASE Inserted(i)
  BY <1>2, <1>3 DEF Inserted, Rows, Active
<1>4. CASE Claimed(i)
  BY <1>2, <1>4 DEF Claimed
<1>5. CASE Progressed(i)
  BY <1>2, <1>5 DEF Progressed, Rows, Active
<1>6. CASE RanOut(i)
  BY <1>2, <1>6 DEF RanOut, Rows
<1>7. CASE Ended(i)
  BY <1>2, <1>7 DEF Ended, Rows, Active
<1>8. CASE Waits(i)
  BY <1>2, <1>8 DEF Waits, Requeued, Rows, Active
<1> QED BY <1>1, <1>3, <1>4, <1>5, <1>6, <1>7, <1>8 DEF RowMove

\* In every behaviour the variables have their types, every active job has a node and a lease,
\* and a job that waits has neither.
THEOREM TypesAndLeases == SchedSpec => [](SchedTypeOK /\ ActiveIsLeased)
<1>1. SchedInit => ActiveIsLeased
  BY DEF SchedInit, ActiveIsLeased, Active
<1> QED BY TypeInit, <1>1, TypeStep, LeasedStep, PTL DEF SchedSpec

\* Cancelling wins over every activation of the scheduler that was under way.
THEOREM CancelIsFinal == SchedSpec => CancelSticks
<1>1. SchedTypeOK /\ ActiveIsLeased /\ [SchedNext]_schedVars
        => [\A j \in Jobs : job[j].status = "CANCELLED" => job'[j].status = "CANCELLED"]_schedVars
  <2> SUFFICES ASSUME SchedTypeOK, ActiveIsLeased, [SchedNext]_schedVars, NEW i \in Jobs,
                      job[i].status = "CANCELLED"
               PROVE  job'[i].status = "CANCELLED"
    OBVIOUS
  <2>1. RowMove(i)
    BY RowMoves
  <2>2. job[i] \in Rows
    BY DEF SchedTypeOK
  <2>3. ~Inserted(i) /\ ~Claimed(i) /\ ~Progressed(i) /\ ~Ended(i) /\ ~Waits(i)
    BY DEF Inserted, Claimed, Progressed, Ended, Waits, Active
  <2> QED BY <2>1, <2>2, <2>3 DEF RowMove, RanOut, Rows
<1> QED BY <1>1, TypesAndLeases, PTL DEF SchedSpec, CancelSticks

-----------------------------------------------------------------------------
(* The scheduler implements JobLease *)

\* Each job is held by at most one node at a time, changes hands only through nobody, and is
\* held in a new attempt each time.
THEOREM ImplementsLease == SchedSpec => LeaseRefinement
<1>1. SchedInit => Lease!LeaseInit
  BY DEF SchedInit, Lease!LeaseInit, Active
<1>2. SchedTypeOK /\ ActiveIsLeased /\ [SchedNext]_schedVars
        => [Lease!LeaseNext]_(Lease!leaseVars)
  <2> SUFFICES ASSUME SchedTypeOK, ActiveIsLeased, [SchedNext]_schedVars
               PROVE  Lease!LeaseNext \/ UNCHANGED Lease!leaseVars
    OBVIOUS
  <2> DEFINE H == [j \in Jobs |-> IF job[j].status \in Active THEN job[j].node ELSE NoNode]
             R == [j \in Jobs |-> job[j].attempt]
  <2>1. CASE job' = job
    BY <2>1 DEF Lease!leaseVars
  <2>2. CASE \E i \in Jobs : \A k \in Jobs \ {i} : job'[k] = job[k]
    <3>1. PICK i \in Jobs : \A k \in Jobs \ {i} : job'[k] = job[k]
      BY <2>2
    <3>2. /\ \A k \in Jobs \ {i} : H'[k] = H[k] /\ R'[k] = R[k]
          /\ H' = [H EXCEPT ![i] = H'[i]]
          /\ R' = [R EXCEPT ![i] = R'[i]]
      BY <3>1
    <3>3. /\ job[i] \in Rows /\ job'[i] \in Rows
          /\ job'[i].status \in Active => job'[i].node \in Nodes
          /\ job[i].status \in Active => job[i].node \in Nodes
      BY TypeStep, LeasedStep DEF SchedTypeOK, ActiveIsLeased
    <3>4. CASE job'[i].attempt # job[i].attempt
      <4>1. /\ R'[i] = R[i] + 1
            /\ H[i] = NoNode
            /\ H'[i] \in Nodes
        <5>1. /\ job[i].status = "PENDING" /\ job'[i].status = "ASSIGNED"
              /\ job'[i].attempt = job[i].attempt + 1 /\ job'[i].node \in Nodes
          BY <3>4, ActiveMoves
        <5> QED BY <5>1 DEF Active
      <4>2. PICK n \in Nodes : n = H'[i]
        BY <4>1
      <4>3. Lease!Take(i, n)
        BY <3>2, <4>1, <4>2 DEF Lease!Take
      <4> QED BY <4>3 DEF Lease!LeaseNext
    <3>5. CASE job'[i].attempt = job[i].attempt
      <4>1. R' = R
        BY <3>2, <3>5
      <4>2. CASE job'[i].status \in Active
        <5>1. H'[i] = H[i]
          BY <3>5, <4>2, ActiveMoves
        <5>2. H' = H
          BY <3>2, <5>1
        <5> QED BY <4>1, <5>2 DEF Lease!leaseVars
      <4>3. CASE job'[i].status \notin Active /\ job[i].status \in Active
        <5>1. H[i] # NoNode /\ H'[i] = NoNode
          BY <3>3, <4>3
        <5>2. Lease!Release(i)
          BY <3>2, <4>1, <5>1 DEF Lease!Release
        <5> QED BY <5>2 DEF Lease!LeaseNext
      <4>4. CASE job'[i].status \notin Active /\ job[i].status \notin Active
        <5>1. H' = H
          BY <3>2, <4>4
        <5> QED BY <4>1, <5>1 DEF Lease!leaseVars
      <4> QED BY <4>2, <4>3, <4>4
    <3> QED BY <3>4, <3>5
  <2> QED BY <2>1, <2>2, OneRowMoves DEF OneRow
<1> QED BY <1>1, <1>2, TypesAndLeases, PTL DEF SchedSpec, LeaseRefinement, Lease!LeaseSpec

-----------------------------------------------------------------------------
(* Work for a claim *)

\* Two pieces of work belong to the same claim of the same job, at the same node.
SameClaim(x, y) == x.job = y.job /\ x.node = y.node /\ x.claim = y.claim

\* The step adds no work except by continuing work that was there.
Continues == \A x \in Work' : \E y \in Work : SameClaim(x, y)

\* An activation takes a PENDING job.
Wins(c) == Claim(c) /\ job[calls[c].job].status = "PENDING"

\* Only a successful claim starts new work.
NewOrOld == Continues \/ \E c \in Calls : Wins(c)

LEMMA WorkContinues == SchedTypeOK /\ [SchedNext]_schedVars => NewOrOld
<1> SUFFICES ASSUME SchedTypeOK, [SchedNext]_schedVars PROVE NewOrOld
  OBVIOUS
<1> USE DEF SchedTypeOK, NewOrOld, Continues, Wins, Work, Dispatching, SameClaim
<1>1. ASSUME NEW j \in Jobs, Create(j) PROVE NewOrOld
  BY <1>1 DEF Create
<1>2. ASSUME NEW j \in Jobs, Cancel(j) PROVE NewOrOld
  BY <1>2 DEF Cancel
<1>3. ASSUME NEW j \in Jobs, LeaseExpires(j) PROVE NewOrOld
  BY <1>3 DEF LeaseExpires
<1>4. ASSUME NEW c \in Calls, NEW j \in Jobs, ReadJob(c, j) PROVE NewOrOld
  <2>1. Dispatching' \subseteq Dispatching
    BY <1>4 DEF ReadJob, SetCall, Idle
  <2>2. net' \subseteq net /\ running' \subseteq running
    BY <1>4 DEF ReadJob
  <2> QED BY <2>1, <2>2
<1>5. ASSUME NEW c \in Calls, NEW j \in Jobs, RecoverRead(c, j) PROVE NewOrOld
  <2>1. Dispatching' \subseteq Dispatching
    BY <1>5 DEF RecoverRead, SetCall, Idle
  <2>2. net' \subseteq net /\ running' \subseteq running
    BY <1>5 DEF RecoverRead
  <2> QED BY <2>1, <2>2
<1>6. ASSUME NEW c \in Calls, ReadCandidates(c) PROVE NewOrOld
  <2>1. Dispatching' \subseteq Dispatching
    BY <1>6 DEF ReadCandidates, SetCall, Return, Idle
  <2>2. net' \subseteq net /\ running' \subseteq running
    BY <1>6 DEF ReadCandidates
  <2> QED BY <2>1, <2>2
<1>7. ASSUME NEW c \in Calls, PickNode(c) PROVE NewOrOld
  <2>1. Dispatching' \subseteq Dispatching
    BY <1>7 DEF PickNode, SetCall, Return, Idle
  <2>2. net' \subseteq net /\ running' \subseteq running
    BY <1>7 DEF PickNode
  <2> QED BY <2>1, <2>2
<1>8. ASSUME NEW c \in Calls, Claim(c) PROVE NewOrOld
  <2>1. CASE job[calls[c].job].status = "PENDING"
    BY <1>8, <2>1
  <2>2. CASE job[calls[c].job].status # "PENDING"
    <3>1. Dispatching' \subseteq Dispatching
      BY <1>8, <2>2 DEF Claim, SetCall, Return, Idle
    <3> QED BY <1>8, <3>1 DEF Claim
  <2> QED BY <2>1, <2>2
<1>9. ASSUME NEW c \in Calls, Dispatch(c) PROVE NewOrOld
  <2>1. Dispatching' \subseteq Dispatching /\ running' = running
    BY <1>9 DEF Dispatch, SetCall, Return, Idle
  <2>2. calls[c] \in Dispatching
    BY <1>9 DEF Dispatch
  <2>3. \A x \in net' : x \in net \/ SameClaim(x, calls[c])
    BY <1>9 DEF Dispatch
  <2> QED BY <2>1, <2>2, <2>3
<1>10. ASSUME NEW c \in Calls, Rollback(c) PROVE NewOrOld
  <2>1. Dispatching' \subseteq Dispatching
    BY <1>10 DEF Rollback, SetCall, Return, Idle
  <2>2. net' \subseteq net /\ running' \subseteq running
    BY <1>10 DEF Rollback
  <2> QED BY <2>1, <2>2
<1>11. ASSUME NEW c \in Calls, FailedWrite(c) PROVE NewOrOld
  <2>1. Dispatching' \subseteq Dispatching
    BY <1>11 DEF FailedWrite, SetCall, Return, Idle
  <2>2. net' \subseteq net /\ running' \subseteq running
    BY <1>11 DEF FailedWrite
  <2> QED BY <2>1, <2>2
<1>12. ASSUME NEW c \in Calls, RecoverWrite(c) PROVE NewOrOld
  <2>1. Dispatching' \subseteq Dispatching
    BY <1>12 DEF RecoverWrite, SetCall, Return, Idle
  <2>2. net' \subseteq net /\ running' \subseteq running
    BY <1>12 DEF RecoverWrite
  <2> QED BY <2>1, <2>2
<1>13. ASSUME NEW m \in net, OnAccepted(m) PROVE NewOrOld
  BY <1>13 DEF OnAccepted
<1>14. ASSUME NEW m \in net, OnStarted(m) PROVE NewOrOld
  BY <1>14 DEF OnStarted
<1>15. ASSUME NEW m \in net, OnCompleted(m) PROVE NewOrOld
  BY <1>15 DEF OnCompleted
<1>16. ASSUME NEW m \in net, AgentAccept(m) PROVE NewOrOld
  <2>1. \A x \in net' : x \in net \/ SameClaim(x, m)
    BY <1>16 DEF AgentAccept, Event
  <2>2. \A x \in running' : x \in running \/ SameClaim(x, m)
    BY <1>16 DEF AgentAccept
  <2> QED BY <1>16, <2>1, <2>2 DEF AgentAccept
<1>17. ASSUME NEW m \in net, NEW c \in Calls, FailedRead(c, m) PROVE NewOrOld
  <2>1. Dispatching' \subseteq Dispatching
    BY <1>17 DEF FailedRead, SetCall, Idle
  <2>2. net' \subseteq net /\ running' \subseteq running
    BY <1>17 DEF FailedRead
  <2> QED BY <2>1, <2>2
<1>18. ASSUME NEW x \in running, AgentStart(x) PROVE NewOrOld
  <2>1. \A y \in net' : y \in net \/ SameClaim(y, x)
    BY <1>18 DEF AgentStart, Event
  <2>2. \A y \in running' : y \in running \/ SameClaim(y, x)
    BY <1>18 DEF AgentStart, SchedTypeOK, Executions
  <2> QED BY <1>18, <2>1, <2>2 DEF AgentStart
<1>19. ASSUME NEW x \in running, AgentComplete(x) PROVE NewOrOld
  <2>1. \A y \in net' : y \in net \/ SameClaim(y, x)
    BY <1>19 DEF AgentComplete, Event
  <2> QED BY <1>19, <2>1 DEF AgentComplete
<1>20. ASSUME NEW x \in running, AgentFail(x) PROVE NewOrOld
  <2>1. \A y \in net' : y \in net \/ SameClaim(y, x)
    BY <1>20 DEF AgentFail, Event
  <2> QED BY <1>20, <2>1 DEF AgentFail
<1>21. ASSUME NEW n \in Nodes, NodeOnline(n) PROVE NewOrOld
  BY <1>21 DEF NodeOnline
<1>22. ASSUME NEW n \in Nodes, NodeOffline(n) PROVE NewOrOld
  BY <1>22 DEF NodeOffline
<1>23. ASSUME NEW n \in Nodes, AgentCrash(n) PROVE NewOrOld
  BY <1>23 DEF AgentCrash
<1>24. ASSUME Restart PROVE NewOrOld
  <2>1. Dispatching' \subseteq Dispatching
    BY <1>24 DEF Restart, Idle
  <2>2. net' \subseteq net /\ running' \subseteq running
    BY <1>24 DEF Restart
  <2> QED BY <2>1, <2>2
<1>25. ASSUME UNCHANGED schedVars PROVE NewOrOld
  BY <1>25 DEF schedVars
<1> QED
  BY <1>1, <1>2, <1>3, <1>4, <1>5, <1>6, <1>7, <1>8, <1>9, <1>10, <1>11, <1>12, <1>13, <1>14, <1>15, <1>16, <1>17, <1>18, <1>19, <1>20, <1>21, <1>22, <1>23, <1>24, <1>25 DEF SchedNext, SchedOther, CallStep

\* The work for a claim stays at one node, and at the row's node while the claim is current.
LEMMA WorkStep ==
  SchedTypeOK /\ ActiveIsLeased /\ OneNodePerClaim /\ [SchedNext]_schedVars => OneNodePerClaim'
<1> SUFFICES ASSUME SchedTypeOK, ActiveIsLeased, OneNodePerClaim, [SchedNext]_schedVars
             PROVE  OneNodePerClaim'
  OBVIOUS
<1>1. \A x \in Work : x.job \in Jobs /\ x.node \in Nodes /\ x.claim \in Nat
  BY ActivationShape DEF Work, Dispatching, SchedTypeOK, Messages, Executions
<1>2. \A i \in Jobs : job[i].attempt \in Nat
  BY DEF SchedTypeOK, Rows
<1>3. CASE Continues
  <2>1. \A x, y \in Work' : x.job = y.job /\ x.claim = y.claim => x.node = y.node
    BY <1>3 DEF Continues, SameClaim, OneNodePerClaim
  <2>2. ASSUME NEW x \in Work'
        PROVE  /\ x.claim <= job'[x.job].attempt
               /\ job'[x.job].status \in Active /\ x.claim = job'[x.job].attempt
                    => x.node = job'[x.job].node
    <3>1. PICK y \in Work : SameClaim(x, y)
      BY <1>3 DEF Continues
    <3>2. /\ x.job \in Jobs /\ x.claim \in Nat
          /\ x.claim <= job[x.job].attempt
          /\ job[x.job].status \in Active /\ x.claim = job[x.job].attempt
               => x.node = job[x.job].node
      BY <1>1, <3>1 DEF SameClaim, OneNodePerClaim
    <3>3. /\ job'[x.job].attempt \in {job[x.job].attempt, job[x.job].attempt + 1}
          /\ job'[x.job].attempt = job[x.job].attempt /\ job'[x.job].status \in Active
               => job[x.job].status \in Active /\ job'[x.job].node = job[x.job].node
      BY <3>2, ActiveMoves
    <3> QED BY <1>2, <3>2, <3>3
  <2> QED BY <2>1, <2>2 DEF OneNodePerClaim
<1>4. CASE \E c \in Calls : Wins(c)
  <2>1. PICK c \in Calls : Wins(c)
    BY <1>4
  <2> DEFINE j == calls[c].job
             n == calls[c].node
             k == job[j].attempt + 1
             new == [pc |-> "dispatch", job |-> j, attempt |-> calls[c].attempt, node |-> n,
                     claim |-> k]
  <2>2. calls[c].pc = "claim" /\ j \in Jobs /\ n \in Nodes
    BY <2>1, ActivationShape DEF Wins, Claim, SchedTypeOK
  <2>3. \A x \in Work' : x \in Work \/ x = new
    BY <2>1, <2>2 DEF Wins, Claim, SetCall, Work, Dispatching, SchedTypeOK
  <2>4. /\ job'[j].attempt = k /\ job'[j].node = n
        /\ \A i \in Jobs \ {j} : job'[i] = job[i]
    BY <2>1, <2>2 DEF Wins, Claim, SetRow, SchedTypeOK
  <2>5. \A x \in Work : x.job = j => x.claim < k
    BY <1>1, <1>2, <2>2 DEF OneNodePerClaim
  <2> HIDE DEF k, n, j
  <2>6. new.job = j /\ new.node = n /\ new.claim = k
    OBVIOUS
  <2> HIDE DEF new
  <2>7. \A x, y \in Work' : x.job = y.job /\ x.claim = y.claim => x.node = y.node
    <3> SUFFICES ASSUME NEW x \in Work', NEW y \in Work', x.job = y.job, x.claim = y.claim
                 PROVE  x.node = y.node
      OBVIOUS
    <3>1. CASE x \in Work /\ y \in Work
      BY <3>1 DEF OneNodePerClaim
    <3>2. CASE x = new /\ y = new
      BY <3>2
    <3>3. CASE (x = new /\ y \in Work) \/ (y = new /\ x \in Work)
      BY <1>1, <3>3, <2>5, <2>6, k \in Nat, <1>2, <2>2 DEF k
    <3> QED BY <2>3, <3>1, <3>2, <3>3
  <2>8. ASSUME NEW x \in Work'
        PROVE  /\ x.claim <= job'[x.job].attempt
               /\ job'[x.job].status \in Active /\ x.claim = job'[x.job].attempt
                    => x.node = job'[x.job].node
    <3>0. k \in Nat
      BY <1>2, <2>2 DEF k
    <3>1. CASE x = new
      BY <3>0, <3>1, <2>4, <2>6
    <3>2. CASE x \in Work /\ x.job = j
      BY <3>0, <3>2, <1>1, <2>4, <2>5
    <3>3. CASE x \in Work /\ x.job # j
      BY <3>3, <1>1, <2>4 DEF OneNodePerClaim
    <3> QED BY <2>3, <3>1, <3>2, <3>3
  <2> QED BY <2>7, <2>8 DEF OneNodePerClaim
<1> QED BY <1>3, <1>4, WorkContinues DEF NewOrOld

\* In every behaviour the work for one claim of a job is at one node, and at the row's node
\* while that claim is the row's current one.
THEOREM WorkAtOneNode == SchedSpec => []OneNodePerClaim
<1>1. SchedInit => OneNodePerClaim
  BY DEF SchedInit, OneNodePerClaim, Work, Dispatching, Idle
<1> QED BY <1>1, WorkStep, TypesAndLeases, PTL DEF SchedSpec

-----------------------------------------------------------------------------
(* Attempt numbers on the wire *)

\* The attempt an activation read is not larger than the row's, and the attempt on the wire
\* is not larger than the claim it was sent for.
ReadsTrail ==
  /\ \A c \in Calls : calls[c].pc \in {"candidates", "load", "claim"}
                        => calls[c].attempt <= job[calls[c].job].attempt
  /\ \A c \in Calls : calls[c].pc = "dispatch" => calls[c].attempt + 1 <= calls[c].claim
  /\ \A x \in net \cup running : x.attempt <= x.claim

LEMMA TrailStep ==
  SchedTypeOK /\ ActiveIsLeased /\ ReadsTrail /\ [SchedNext]_schedVars => ReadsTrail'
<1> SUFFICES ASSUME SchedTypeOK, ActiveIsLeased, ReadsTrail, [SchedNext]_schedVars
             PROVE  ReadsTrail'
  OBVIOUS
<1> USE DEF ReadsTrail
<1>0. /\ \A j \in Jobs : /\ job[j].attempt \in Nat /\ job'[j].attempt \in Nat
                         /\ job[j].attempt <= job'[j].attempt
      /\ \A c \in Calls : calls[c].pc \in {"candidates", "load", "claim", "dispatch"}
                            => calls[c].job \in Jobs /\ calls[c].attempt \in Nat
      /\ \A c \in Calls : calls[c].pc = "dispatch" => calls[c].claim \in Nat
      /\ \A x \in net \cup running : x.attempt \in Nat /\ x.claim \in Nat
  <2>1. \A j \in Jobs : job[j] \in Rows /\ job'[j] \in Rows
    BY TypeStep DEF SchedTypeOK
  <2>2. \A j \in Jobs : job'[j].attempt \in {job[j].attempt, job[j].attempt + 1}
    BY ActiveMoves
  <2>3. \A j \in Jobs : /\ job[j].attempt \in Nat /\ job'[j].attempt \in Nat
                        /\ job[j].attempt <= job'[j].attempt
    BY <2>1, <2>2 DEF Rows
  <2>4. \A c \in Calls : calls[c] \in Activations
    BY DEF SchedTypeOK
  <2>5. \A x \in net \cup running : x.attempt \in Nat /\ x.claim \in Nat
    BY DEF SchedTypeOK, Messages, Executions
  <2> QED BY <2>3, <2>4, <2>5, ActivationShape
<1>1. ASSUME NEW j \in Jobs, Create(j) PROVE ReadsTrail'
  BY <1>1, <1>0 DEF Create
<1>2. ASSUME NEW j \in Jobs, Cancel(j) PROVE ReadsTrail'
  BY <1>2, <1>0 DEF Cancel
<1>3. ASSUME NEW j \in Jobs, LeaseExpires(j) PROVE ReadsTrail'
  BY <1>3, <1>0 DEF LeaseExpires
<1>4. ASSUME NEW c \in Calls, NEW j \in Jobs, ReadJob(c, j) PROVE ReadsTrail'
  BY <1>4, <1>0 DEF ReadJob, SetCall, SchedTypeOK, Rows
<1>5. ASSUME NEW c \in Calls, NEW j \in Jobs, RecoverRead(c, j) PROVE ReadsTrail'
  BY <1>5, <1>0 DEF RecoverRead, SetCall, SchedTypeOK
<1>6. ASSUME NEW c \in Calls, ReadCandidates(c) PROVE ReadsTrail'
  BY <1>6, <1>0 DEF ReadCandidates, SetCall, Return, Idle, SchedTypeOK
<1>7. ASSUME NEW c \in Calls, PickNode(c) PROVE ReadsTrail'
  BY <1>7, <1>0 DEF PickNode, SetCall, Return, Idle, SchedTypeOK
<1>8. ASSUME NEW c \in Calls, Claim(c) PROVE ReadsTrail'
  BY <1>8, <1>0 DEF Claim, SetCall, Return, Idle, SchedTypeOK, Rows
<1>9. ASSUME NEW c \in Calls, Dispatch(c) PROVE ReadsTrail'
  BY <1>9, <1>0 DEF Dispatch, SetCall, Return, Idle, SchedTypeOK
<1>10. ASSUME NEW c \in Calls, Rollback(c) PROVE ReadsTrail'
  BY <1>10, <1>0 DEF Rollback, SetCall, Return, Idle, SchedTypeOK
<1>11. ASSUME NEW c \in Calls, FailedWrite(c) PROVE ReadsTrail'
  BY <1>11, <1>0 DEF FailedWrite, SetCall, Return, Idle, SchedTypeOK
<1>12. ASSUME NEW c \in Calls, RecoverWrite(c) PROVE ReadsTrail'
  BY <1>12, <1>0 DEF RecoverWrite, SetCall, Return, Idle, SchedTypeOK
<1>13. ASSUME NEW m \in net, OnAccepted(m) PROVE ReadsTrail'
  BY <1>13, <1>0 DEF OnAccepted
<1>14. ASSUME NEW m \in net, OnStarted(m) PROVE ReadsTrail'
  BY <1>14, <1>0 DEF OnStarted
<1>15. ASSUME NEW m \in net, OnCompleted(m) PROVE ReadsTrail'
  BY <1>15, <1>0 DEF OnCompleted
<1>16. ASSUME NEW m \in net, AgentAccept(m) PROVE ReadsTrail'
  BY <1>16, <1>0 DEF AgentAccept, Event, SchedTypeOK, Messages
<1>17. ASSUME NEW m \in net, NEW c \in Calls, FailedRead(c, m) PROVE ReadsTrail'
  BY <1>17, <1>0 DEF FailedRead, SetCall, SchedTypeOK
<1>18. ASSUME NEW x \in running, AgentStart(x) PROVE ReadsTrail'
  BY <1>18, <1>0 DEF AgentStart, Event, SchedTypeOK, Executions
<1>19. ASSUME NEW x \in running, AgentComplete(x) PROVE ReadsTrail'
  BY <1>19, <1>0 DEF AgentComplete, Event, SchedTypeOK, Executions
<1>20. ASSUME NEW x \in running, AgentFail(x) PROVE ReadsTrail'
  BY <1>20, <1>0 DEF AgentFail, Event, SchedTypeOK, Executions
<1>21. ASSUME NEW n \in Nodes, NodeOnline(n) PROVE ReadsTrail'
  BY <1>21, <1>0 DEF NodeOnline
<1>22. ASSUME NEW n \in Nodes, NodeOffline(n) PROVE ReadsTrail'
  BY <1>22, <1>0 DEF NodeOffline
<1>23. ASSUME NEW n \in Nodes, AgentCrash(n) PROVE ReadsTrail'
  BY <1>23, <1>0 DEF AgentCrash
<1>24. ASSUME Restart PROVE ReadsTrail'
  BY <1>24, <1>0 DEF Restart, Idle
<1>25. ASSUME UNCHANGED schedVars PROVE ReadsTrail'
  BY <1>25, <1>0 DEF schedVars
<1> QED
  BY <1>1, <1>2, <1>3, <1>4, <1>5, <1>6, <1>7, <1>8, <1>9, <1>10, <1>11, <1>12, <1>13, <1>14, <1>15, <1>16, <1>17, <1>18, <1>19, <1>20, <1>21, <1>22, <1>23, <1>24, <1>25 DEF SchedNext, SchedOther, CallStep

\* An accepted, started or completed event that leaves the network is handled by the step.
HandledBy(e) == OnAccepted(e) \/ OnStarted(e) \/ OnCompleted(e)

LEMMA EventsAreHandled ==
  ASSUME [SchedNext]_schedVars, NEW e \in net \ net',
         e.kind \in {"accepted", "started", "completed"}
  PROVE  HandledBy(e)
<1>1. ASSUME NEW j \in Jobs, Create(j) PROVE HandledBy(e)
  BY <1>1 DEF Create, HandledBy
<1>2. ASSUME NEW j \in Jobs, Cancel(j) PROVE HandledBy(e)
  BY <1>2 DEF Cancel, HandledBy
<1>3. ASSUME NEW j \in Jobs, LeaseExpires(j) PROVE HandledBy(e)
  BY <1>3 DEF LeaseExpires, HandledBy
<1>4. ASSUME NEW c \in Calls, NEW j \in Jobs, ReadJob(c, j) PROVE HandledBy(e)
  BY <1>4 DEF ReadJob, HandledBy
<1>5. ASSUME NEW c \in Calls, NEW j \in Jobs, RecoverRead(c, j) PROVE HandledBy(e)
  BY <1>5 DEF RecoverRead, HandledBy
<1>6. ASSUME NEW c \in Calls, ReadCandidates(c) PROVE HandledBy(e)
  BY <1>6 DEF ReadCandidates, HandledBy
<1>7. ASSUME NEW c \in Calls, PickNode(c) PROVE HandledBy(e)
  BY <1>7 DEF PickNode, HandledBy
<1>8. ASSUME NEW c \in Calls, Claim(c) PROVE HandledBy(e)
  BY <1>8 DEF Claim, HandledBy
<1>9. ASSUME NEW c \in Calls, Dispatch(c) PROVE HandledBy(e)
  BY <1>9 DEF Dispatch, HandledBy
<1>10. ASSUME NEW c \in Calls, Rollback(c) PROVE HandledBy(e)
  BY <1>10 DEF Rollback, HandledBy
<1>11. ASSUME NEW c \in Calls, FailedWrite(c) PROVE HandledBy(e)
  BY <1>11 DEF FailedWrite, HandledBy
<1>12. ASSUME NEW c \in Calls, RecoverWrite(c) PROVE HandledBy(e)
  BY <1>12 DEF RecoverWrite, HandledBy
<1>13. ASSUME NEW m \in net, OnAccepted(m) PROVE HandledBy(e)
  BY <1>13 DEF OnAccepted, HandledBy
<1>14. ASSUME NEW m \in net, OnStarted(m) PROVE HandledBy(e)
  BY <1>14 DEF OnStarted, HandledBy
<1>15. ASSUME NEW m \in net, OnCompleted(m) PROVE HandledBy(e)
  BY <1>15 DEF OnCompleted, HandledBy
<1>16. ASSUME NEW m \in net, AgentAccept(m) PROVE HandledBy(e)
  BY <1>16 DEF AgentAccept, HandledBy
<1>17. ASSUME NEW m \in net, NEW c \in Calls, FailedRead(c, m) PROVE HandledBy(e)
  BY <1>17 DEF FailedRead, HandledBy
<1>18. ASSUME NEW x \in running, AgentStart(x) PROVE HandledBy(e)
  BY <1>18 DEF AgentStart, HandledBy
<1>19. ASSUME NEW x \in running, AgentComplete(x) PROVE HandledBy(e)
  BY <1>19 DEF AgentComplete, HandledBy
<1>20. ASSUME NEW x \in running, AgentFail(x) PROVE HandledBy(e)
  BY <1>20 DEF AgentFail, HandledBy
<1>21. ASSUME NEW n \in Nodes, NodeOnline(n) PROVE HandledBy(e)
  BY <1>21 DEF NodeOnline, HandledBy
<1>22. ASSUME NEW n \in Nodes, NodeOffline(n) PROVE HandledBy(e)
  BY <1>22 DEF NodeOffline, HandledBy
<1>23. ASSUME NEW n \in Nodes, AgentCrash(n) PROVE HandledBy(e)
  BY <1>23 DEF AgentCrash, HandledBy
<1>24. ASSUME Restart PROVE HandledBy(e)
  BY <1>24 DEF Restart, HandledBy
<1>25. ASSUME UNCHANGED schedVars PROVE HandledBy(e)
  BY <1>25 DEF schedVars, HandledBy
<1> QED
  BY <1>1, <1>2, <1>3, <1>4, <1>5, <1>6, <1>7, <1>8, <1>9, <1>10, <1>11, <1>12, <1>13, <1>14, <1>15, <1>16, <1>17, <1>18, <1>19, <1>20, <1>21, <1>22, <1>23, <1>24, <1>25 DEF SchedNext, SchedOther, CallStep

\* An event that carries an attempt acts only on the claim it was sent for.
THEOREM EventsAreFenced == SchedSpec => FencedEvents
<1>1. SchedInit => ReadsTrail
  BY DEF SchedInit, ReadsTrail, Idle
<1>2. SchedSpec => []ReadsTrail
  BY <1>1, TrailStep, TypesAndLeases, PTL DEF SchedSpec
<1>3. SchedTypeOK /\ ReadsTrail /\ OneNodePerClaim /\ [SchedNext]_schedVars
        => [\A m \in net \ net' :
              m.kind \in {"accepted", "started", "completed"} /\ m.attempt > 0
                /\ job'[m.job] # job[m.job]
              => m.claim = job[m.job].attempt]_schedVars
  <2> SUFFICES ASSUME SchedTypeOK, ReadsTrail, OneNodePerClaim, [SchedNext]_schedVars,
                      NEW m \in net \ net',
                      m.kind \in {"accepted", "started", "completed"}, m.attempt > 0,
                      job'[m.job] # job[m.job]
               PROVE  m.claim = job[m.job].attempt
    OBVIOUS
  <2>1. /\ m.attempt \in Nat /\ m.claim \in Nat /\ job[m.job].attempt \in Nat
        /\ m.attempt <= m.claim /\ m.claim <= job[m.job].attempt
    BY DEF SchedTypeOK, Messages, Rows, ReadsTrail, OneNodePerClaim, Work
  <2>2. OnAccepted(m) \/ OnStarted(m) \/ OnCompleted(m)
    BY EventsAreHandled DEF HandledBy
  <2>3. job[m.job].attempt = m.attempt
    BY <2>2, job'[m.job] # job[m.job], m.attempt > 0
       DEF OnAccepted, OnStarted, OnCompleted, Accepts, OwnRow, AttemptMatches
  <2> QED BY <2>1, <2>3
<1> QED BY <1>2, <1>3, TypesAndLeases, WorkAtOneNode, PTL DEF SchedSpec, FencedEvents
=============================================================================
