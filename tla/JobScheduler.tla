---------------------------- MODULE JobScheduler ----------------------------
(***************************************************************************)
(* The grid scheduler of the API (jobs/job-scheduler.service.ts), the      *)
(* requester's operations on a job row (jobs/jobs.service.ts), the part of *)
(* the node gateway the scheduler talks to, and the Go node agent's job    *)
(* loop (apps/node-agent/internal/agent/agent.go).                         *)
(*                                                                         *)
(* Every database statement is one step; a handler that awaits between two *)
(* statements is several actions, and what it read before the await is     *)
(* carried in its activation record (calls).  Handlers are started with    *)
(* `void f()`, so activations and node events interleave freely.           *)
(***************************************************************************)
EXTENDS Integers, FiniteSets

CONSTANTS
  Jobs,          \* job ids
  Nodes,         \* compute node ids
  NoNode,        \* nodeId = null
  Calls,         \* slots for handler activations that are between two awaits (bound)
  MaxAttempts,   \* Job.maxAttempts
  ClaimBound,    \* bound on Job.attempt, which nothing in the code bounds
  Capacity,      \* Capacity[n]: ComputeNode.maxConcurrentJobs and the agent's semaphore
  SendsAttempt,  \* nodes whose agent echoes `attempt` in its events (workers/fake-node does,
                 \* the Go agent does not)
  Suitable,      \* Suitable[j]: nodes that match job j by status, trust, type, GPU and region
  PublicJobs,    \* jobs with privacyLevel PUBLIC, which nodes in PROBATION may take
  FirstLifecycle \* FirstLifecycle[n]: lifecycle state of node n when the model starts

ASSUME SchedulerAssumption ==
  /\ NoNode \notin Nodes
  /\ MaxAttempts \in Nat
  /\ ClaimBound \in Nat
  /\ Capacity \in [Nodes -> Nat]
  /\ SendsAttempt \subseteq Nodes
  /\ Suitable \in [Jobs -> SUBSET Nodes]
  /\ PublicJobs \subseteq Jobs
  /\ FirstLifecycle \in [Nodes -> {"PROBATION", "ACTIVE", "SUSPENDED"}]

VARIABLES
  job,        \* the Job table: status, node, attempt and lease of each row
  todo,       \* jobs a handler is about to call tryAssign for
  calls,      \* calls[c]: the handler activation in slot c, with what it has read
  sockets,    \* nodes whose socket the gateway holds
  net,        \* messages between the gateway and the agents, handled in any order or never
  running,    \* executions in progress at the agents
  lifecycle   \* ComputeNode.lifecycleState

schedVars == <<job, todo, calls, sockets, net, running, lifecycle>>

-----------------------------------------------------------------------------
(* Rows, messages and activations *)

Active == {"ASSIGNED", "ACCEPTED", "RUNNING"}
Statuses == {"NONE", "PENDING", "COMPLETED", "VERIFYING", "VERIFIED", "REWARDED",
             "FAILED", "CANCELLED"} \cup Active
Lifecycles == {"PROBATION", "ACTIVE", "SUSPENDED"}

\* The lease is abstracted to whether leaseExpiresAt is null, in the future or past.  A
\* fresh deadline is written when an attempt is claimed, accepted and started, so a row's
\* (attempt, status) tells which deadline it carries.
Leases == {"none", "live", "expired"}

Rows == [status : Statuses, node : Nodes \cup {NoNode}, attempt : Nat, lease : Leases]

\* `attempt` is what the wire carries (0: absent); `claim` is the value of Job.attempt the
\* assignment was claimed with, which only the model sees.
EventKinds == {"accepted", "started", "completed", "failed"}
Messages == [kind : EventKinds \cup {"assign"}, job : Jobs, node : Nodes, attempt : Nat, claim : Nat]
Executions == [stage : {"accepted", "started"}, job : Jobs, node : Nodes, attempt : Nat, claim : Nat]

Idle == [pc |-> "idle"]
Activations ==
  {Idle}
  \cup [pc : {"candidates"}, job : Jobs, attempt : Nat]
  \cup [pc : {"load"}, job : Jobs, attempt : Nat, cands : SUBSET Nodes]
  \cup [pc : {"claim"}, job : Jobs, attempt : Nat, node : Nodes]
  \cup [pc : {"dispatch"}, job : Jobs, attempt : Nat, node : Nodes, claim : Nat]
  \cup [pc : {"rollback"}, job : Jobs, node : Nodes]
  \cup [pc : {"failed"}, job : Jobs, node : Nodes, retry : BOOLEAN]
  \cup [pc : {"recover"}, job : Jobs, status : Active, attempt : Nat, node : Nodes]

\* Broken variant (mutation check): the row is requeued with its old node.
RequeuedKeepsNode(row) == [row EXCEPT !.status = "PENDING", !.lease = "none"]

\* Job row after it lost its node: back to PENDING, or FAILED with the node kept.
Requeued(row) == [row EXCEPT !.status = "PENDING", !.node = NoNode, !.lease = "none"]
GivenUp(row) == [row EXCEPT !.status = "FAILED", !.lease = "none"]

\* Broken variant (mutation check): events are not fenced by the attempt.
AttemptIgnored(m) == TRUE

\* attemptWhere: a row matches when the event carries no attempt, or the row's own.
AttemptMatches(m) == m.attempt > 0 => job[m.job].attempt = m.attempt
OwnRow(m) == job[m.job].node = m.node /\ AttemptMatches(m)

\* groupBy over the active rows of a node.
Load(n) == Cardinality({j \in Jobs : job[j].node = n /\ job[j].status \in Active})

Eligible(j, n) ==
  /\ n \in Suitable[j]
  /\ lifecycle[n] \in (IF j \in PublicJobs THEN {"PROBATION", "ACTIVE"} ELSE {"ACTIVE"})

SetRow(j, row) == job' = [job EXCEPT ![j] = row]
SetCall(c, a) == calls' = [calls EXCEPT ![c] = a]
Return(c) == SetCall(c, Idle)

-----------------------------------------------------------------------------
(* Initial state: an empty job table and a fleet that is offline *)

SchedInit ==
  /\ job = [j \in Jobs |-> [status |-> "NONE", node |-> NoNode, attempt |-> 0, lease |-> "none"]]
  /\ todo = {}
  /\ calls = [c \in Calls |-> Idle]
  /\ sockets = {}
  /\ net = {}
  /\ running = {}
  /\ lifecycle = FirstLifecycle

-----------------------------------------------------------------------------
(* The requester: JobsService.create and JobsService.cancel *)

\* The row is inserted as PENDING and the scheduler is asked to place it.
Create(j) ==
  /\ job[j].status = "NONE"
  /\ SetRow(j, [job[j] EXCEPT !.status = "PENDING"])
  /\ todo' = todo \cup {j}
  /\ UNCHANGED <<calls, sockets, net, running, lifecycle>>

\* Cancel also hits a row in VERIFYING or FAILED; the node stays on the row.
Cancel(j) ==
  /\ job[j].status \notin {"NONE", "COMPLETED", "VERIFIED", "REWARDED", "CANCELLED"}
  /\ SetRow(j, [job[j] EXCEPT !.status = "CANCELLED", !.lease = "none"])
  /\ UNCHANGED <<todo, calls, sockets, net, running, lifecycle>>

-----------------------------------------------------------------------------
(* tryAssign, one action per await *)

\* findUnique: only a PENDING job goes on, with the attempt it had now.
ReadJob(c, j) ==
  /\ calls[c] = Idle
  /\ j \in todo
  /\ todo' = todo \ {j}
  /\ IF job[j].status = "PENDING"
     THEN SetCall(c, [pc |-> "candidates", job |-> j, attempt |-> job[j].attempt])
     ELSE UNCHANGED calls
  /\ UNCHANGED <<job, sockets, net, running, lifecycle>>

\* findMany over the nodes with a socket, then the region filter.
ReadCandidates(c) ==
  /\ calls[c].pc = "candidates"
  /\ LET j == calls[c].job
         cands == {n \in sockets : Eligible(j, n)}
     IN  IF cands = {}
         THEN Return(c)
         ELSE SetCall(c, [pc |-> "load", job |-> j, attempt |-> calls[c].attempt, cands |-> cands])
  /\ UNCHANGED <<job, todo, sockets, net, running, lifecycle>>

\* groupBy, then a candidate with room; without one the job stays PENDING.  Which one
\* comes first depends on the reputations, so any of them may.
PickNode(c) ==
  /\ calls[c].pc = "load"
  /\ LET free == {n \in calls[c].cands : Load(n) < Capacity[n]}
     IN  \/ /\ free = {}
            /\ Return(c)
         \/ \E n \in free :
              SetCall(c, [pc |-> "claim", job |-> calls[c].job, attempt |-> calls[c].attempt,
                          node |-> n])
  /\ UNCHANGED <<job, todo, sockets, net, running, lifecycle>>

\* Broken variants (mutation check): the claim forgets the attempt, or the status.
ClaimSameAttempt(c) ==
  /\ calls[c].pc = "claim"
  /\ LET j == calls[c].job
         n == calls[c].node
         k == job[j].attempt
     IN  IF job[j].status = "PENDING"
         THEN /\ SetRow(j, [status |-> "ASSIGNED", node |-> n, attempt |-> k, lease |-> "live"])
              /\ SetCall(c, [pc |-> "dispatch", job |-> j, attempt |-> calls[c].attempt,
                             node |-> n, claim |-> k])
         ELSE Return(c) /\ UNCHANGED job
  /\ UNCHANGED <<todo, sockets, net, running, lifecycle>>

ClaimAnyStatus(c) ==
  /\ calls[c].pc = "claim"
  /\ LET j == calls[c].job
         n == calls[c].node
         k == job[j].attempt + 1
     IN  /\ k <= ClaimBound
         /\ SetRow(j, [status |-> "ASSIGNED", node |-> n, attempt |-> k, lease |-> "live"])
         /\ SetCall(c, [pc |-> "dispatch", job |-> j, attempt |-> calls[c].attempt,
                        node |-> n, claim |-> k])
  /\ UNCHANGED <<todo, sockets, net, running, lifecycle>>

\* The compare-and-set PENDING -> ASSIGNED, which also increments the attempt.
Claim(c) ==
  /\ calls[c].pc = "claim"
  /\ LET j == calls[c].job
         n == calls[c].node
         k == job[j].attempt + 1
     IN  IF job[j].status = "PENDING"
         THEN /\ k <= ClaimBound
              /\ SetRow(j, [status |-> "ASSIGNED", node |-> n, attempt |-> k, lease |-> "live"])
              /\ SetCall(c, [pc |-> "dispatch", job |-> j, attempt |-> calls[c].attempt,
                             node |-> n, claim |-> k])
         ELSE Return(c) /\ UNCHANGED job
  /\ UNCHANGED <<todo, sockets, net, running, lifecycle>>

\* gateway.send: the assignment carries the attempt read at the start, plus one.
Dispatch(c) ==
  /\ calls[c].pc = "dispatch"
  /\ LET a == calls[c]
     IN  IF a.node \in sockets
         THEN /\ net' = net \cup {[kind |-> "assign", job |-> a.job, node |-> a.node,
                                   attempt |-> a.attempt + 1, claim |-> a.claim]}
              /\ Return(c)
         ELSE /\ SetCall(c, [pc |-> "rollback", job |-> a.job, node |-> a.node])
              /\ UNCHANGED net
  /\ UNCHANGED <<job, todo, sockets, running, lifecycle>>

\* Broken variant (mutation check): the rollback is fenced by the node alone.
RollbackAnyStatus(c) ==
  /\ calls[c].pc = "rollback"
  /\ LET j == calls[c].job
     IN  IF job[j].node = calls[c].node THEN SetRow(j, Requeued(job[j])) ELSE UNCHANGED job
  /\ Return(c)
  /\ UNCHANGED <<todo, sockets, net, running, lifecycle>>

\* Nothing was sent: a row still ASSIGNED to the node goes back to PENDING.
Rollback(c) ==
  /\ calls[c].pc = "rollback"
  /\ LET j == calls[c].job
     IN  IF job[j].status = "ASSIGNED" /\ job[j].node = calls[c].node
         THEN SetRow(j, Requeued(job[j]))
         ELSE UNCHANGED job
  /\ Return(c)
  /\ UNCHANGED <<todo, sockets, net, running, lifecycle>>

-----------------------------------------------------------------------------
(* Events of the nodes *)

\* job.accepted: ASSIGNED -> ACCEPTED with a new lease; otherwise ignored.
OnAccepted(m) ==
  /\ m.kind = "accepted"
  /\ net' = net \ {m}
  /\ IF job[m.job].status = "ASSIGNED" /\ OwnRow(m)
     THEN SetRow(m.job, [job[m.job] EXCEPT !.status = "ACCEPTED", !.lease = "live"])
     ELSE UNCHANGED job
  /\ UNCHANGED <<todo, calls, sockets, running, lifecycle>>

\* job.started: ASSIGNED or ACCEPTED -> RUNNING with a longer lease.
OnStarted(m) ==
  /\ m.kind = "started"
  /\ net' = net \ {m}
  /\ IF job[m.job].status \in {"ASSIGNED", "ACCEPTED"} /\ OwnRow(m)
     THEN SetRow(m.job, [job[m.job] EXCEPT !.status = "RUNNING", !.lease = "live"])
     ELSE UNCHANGED job
  /\ UNCHANGED <<todo, calls, sockets, running, lifecycle>>

\* job.completed: any active status -> COMPLETED.  The handler then calls the verifier.
Accepts(m) == job[m.job].status \in Active /\ OwnRow(m)

OnCompleted(m) ==
  /\ m.kind = "completed"
  /\ net' = net \ {m}
  /\ IF Accepts(m)
     THEN SetRow(m.job, [job[m.job] EXCEPT !.status = "COMPLETED", !.lease = "none"])
     ELSE UNCHANGED job
  /\ UNCHANGED <<todo, calls, sockets, running, lifecycle>>

\* job.failed, first await: findFirst decides whether to retry.
Settled == {"VERIFIED", "REWARDED", "CANCELLED"}

FailedRead(c, m) ==
  /\ m.kind = "failed"
  /\ calls[c] = Idle
  /\ net' = net \ {m}
  /\ IF OwnRow(m) /\ job[m.job].status \notin Settled
     THEN SetCall(c, [pc |-> "failed", job |-> m.job, node |-> m.node,
                      retry |-> job[m.job].attempt < MaxAttempts])
     ELSE UNCHANGED calls
  /\ UNCHANGED <<job, todo, sockets, running, lifecycle>>

\* job.failed, second await: the update is fenced by the node alone, and by no attempt.
FailedWrite(c) ==
  /\ calls[c].pc = "failed"
  /\ LET j == calls[c].job
         hit == job[j].node = calls[c].node /\ job[j].status \notin Settled
         retry == calls[c].retry
     IN  /\ IF hit
            THEN SetRow(j, IF retry THEN Requeued(job[j]) ELSE GivenUp(job[j]))
            ELSE UNCHANGED job
         /\ todo' = IF hit /\ retry THEN todo \cup {j} ELSE todo
  /\ Return(c)
  /\ UNCHANGED <<sockets, net, running, lifecycle>>

-----------------------------------------------------------------------------
(* Leases: the clock, and the sweep that runs every 30 seconds *)

LeaseExpires(j) ==
  /\ job[j].lease = "live"
  /\ SetRow(j, [job[j] EXCEPT !.lease = "expired"])
  /\ UNCHANGED <<todo, calls, sockets, net, running, lifecycle>>

\* Broken variant (mutation check): the sweep forgets the jobs that were accepted.
RecoverReadNotAccepted(c, j) ==
  /\ calls[c] = Idle
  /\ job[j].status \in {"ASSIGNED", "RUNNING"}
  /\ job[j].lease = "expired"
  /\ SetCall(c, [pc |-> "recover", job |-> j, status |-> job[j].status,
                 attempt |-> job[j].attempt, node |-> job[j].node])
  /\ UNCHANGED <<job, todo, sockets, net, running, lifecycle>>

\* findMany: an activation remembers the row as the query returned it.
RecoverRead(c, j) ==
  /\ calls[c] = Idle
  /\ job[j].status \in Active
  /\ job[j].lease = "expired"
  /\ SetCall(c, [pc |-> "recover", job |-> j, status |-> job[j].status,
                 attempt |-> job[j].attempt, node |-> job[j].node])
  /\ UNCHANGED <<job, todo, sockets, net, running, lifecycle>>

\* The compare-and-set on (status, leaseExpiresAt): the row carries the deadline that was
\* read exactly when its lease is past and its attempt and status are those that were read.
RecoverWrite(c) ==
  /\ calls[c].pc = "recover"
  /\ LET a == calls[c]
         j == a.job
         hit == /\ job[j].status = a.status
                /\ job[j].lease = "expired"
                /\ job[j].attempt = a.attempt
         retry == a.attempt < MaxAttempts
     IN  /\ IF hit
            THEN SetRow(j, IF retry THEN Requeued(job[j])
                                    ELSE [GivenUp(job[j]) EXCEPT !.node = a.node])
            ELSE UNCHANGED job
         /\ todo' = IF hit /\ retry THEN todo \cup {j} ELSE todo
  /\ Return(c)
  /\ UNCHANGED <<sockets, net, running, lifecycle>>

-----------------------------------------------------------------------------
(* The node agent and its connection *)

Event(kind, x) ==
  [kind |-> kind, job |-> x.job, node |-> x.node, claim |-> x.claim,
   attempt |-> IF x.node \in SendsAttempt THEN x.attempt ELSE 0]

\* runGridJob waits for its semaphore and announces the job.
AgentAccept(m) ==
  /\ m.kind = "assign"
  /\ Cardinality({x \in running : x.node = m.node}) < Capacity[m.node]
  /\ running' = running \cup {[stage |-> "accepted", job |-> m.job, node |-> m.node,
                               attempt |-> m.attempt, claim |-> m.claim]}
  /\ net' = (net \ {m}) \cup {Event("accepted", m)}
  /\ UNCHANGED <<job, todo, calls, sockets, lifecycle>>

\* The input is on disk and the container starts.
AgentStart(x) ==
  /\ x.stage = "accepted"
  /\ running' = (running \ {x}) \cup {[x EXCEPT !.stage = "started"]}
  /\ net' = net \cup {Event("started", x)}
  /\ UNCHANGED <<job, todo, calls, sockets, lifecycle>>

AgentComplete(x) ==
  /\ x.stage = "started"
  /\ running' = running \ {x}
  /\ net' = net \cup {Event("completed", x)}
  /\ UNCHANGED <<job, todo, calls, sockets, lifecycle>>

\* The input cannot be written, the container exits with an error, or its output is missing.
AgentFail(x) ==
  /\ running' = running \ {x}
  /\ net' = net \cup {Event("failed", x)}
  /\ UNCHANGED <<job, todo, calls, sockets, lifecycle>>

\* node.hello: the gateway stores the socket and emits node.online, and the scheduler
\* tries every PENDING job.
NodeOnline(n) ==
  /\ sockets' = sockets \cup {n}
  /\ todo' = todo \cup {j \in Jobs : job[j].status = "PENDING"}
  /\ UNCHANGED <<job, calls, net, running, lifecycle>>

\* The connection drops; the agent goes on with what it was running.
NodeOffline(n) ==
  /\ n \in sockets
  /\ sockets' = sockets \ {n}
  /\ UNCHANGED <<job, todo, calls, net, running, lifecycle>>

\* The agent process dies with its executions.
AgentCrash(n) ==
  /\ sockets' = sockets \ {n}
  /\ running' = {x \in running : x.node # n}
  /\ running' # running
  /\ UNCHANGED <<job, todo, calls, net, lifecycle>>

\* The API process restarts: the rows survive, activations and sockets do not.
Restart ==
  /\ todo' = {}
  /\ calls' = [c \in Calls |-> Idle]
  /\ sockets' = {}
  /\ UNCHANGED <<job, net, running, lifecycle>>

-----------------------------------------------------------------------------

\* What one activation of a handler does next.
CallStep(c) ==
  \/ ReadCandidates(c) \/ PickNode(c) \/ Claim(c) \/ Dispatch(c) \/ Rollback(c)
  \/ FailedWrite(c) \/ RecoverWrite(c)

\* Everything but the steps in which the credits or the verifier take part.
SchedOther ==
  \/ \E j \in Jobs : Cancel(j) \/ LeaseExpires(j)
  \/ \E c \in Calls : \E j \in Jobs : ReadJob(c, j) \/ RecoverRead(c, j)
  \/ \E c \in Calls : CallStep(c)
  \/ \E m \in net : OnAccepted(m) \/ OnStarted(m) \/ AgentAccept(m)
  \/ \E m \in net, c \in Calls : FailedRead(c, m)
  \/ \E x \in running : AgentStart(x) \/ AgentComplete(x) \/ AgentFail(x)
  \/ \E n \in Nodes : NodeOnline(n) \/ NodeOffline(n) \/ AgentCrash(n)

SchedNext ==
  \/ SchedOther
  \/ \E j \in Jobs : Create(j)
  \/ \E m \in net : OnCompleted(m)
  \/ Restart

SchedSpec == SchedInit /\ [][SchedNext]_schedVars

\* The timer fires for ever and every statement that was issued returns; nothing is assumed
\* of the requester, the nodes or the network.  Strong fairness on the sweep: it is retried
\* every 30 seconds, so it does not lose to other activations or to restarts for ever.
SchedFairness ==
  /\ \A j \in Jobs : WF_schedVars(LeaseExpires(j))
  /\ \A j \in Jobs : SF_schedVars(\E c \in Calls : RecoverRead(c, j))
  /\ \A c \in Calls : SF_schedVars(RecoverWrite(c))
  /\ \A c \in Calls : WF_schedVars(CallStep(c))

SchedLiveSpec == SchedSpec /\ SchedFairness

-----------------------------------------------------------------------------
(* Properties *)

\* Every variable has its type.
SchedTypeOK ==
  /\ job \in [Jobs -> Rows]
  /\ todo \in SUBSET Jobs
  /\ calls \in [Calls -> Activations]
  /\ sockets \in SUBSET Nodes
  /\ net \in SUBSET Messages
  /\ running \in SUBSET Executions
  /\ lifecycle \in [Nodes -> Lifecycles]

\* Whatever handlers interleave, a job that occupies a node can be found by the lease sweep
\* (it has a node and a deadline), and a job not yet placed, or waiting to be placed again,
\* belongs to nobody, so that no late event of an earlier node can match its row.
ActiveIsLeased ==
  \A j \in Jobs :
    /\ job[j].status \in Active => job[j].lease # "none" /\ job[j].node \in Nodes
    /\ job[j].status \in {"NONE", "PENDING"} => job[j].lease = "none" /\ job[j].node = NoNode

\* The claims that activations hold between the compare-and-set and gateway.send.
Dispatching == {calls[c] : c \in {d \in Calls : calls[d].pc = "dispatch"}}

\* All the work for one claim of a job, wherever it is: about to be sent, on the wire, in
\* execution, or coming back as an event.
Work == Dispatching \cup net \cup running

\* "A job is never assigned (and dispatched) twice" for one claim: all the work for a claim
\* is at one node, and while the row is active the work for the row's current claim is at
\* the row's node.
OneNodePerClaim ==
  /\ \A x, y \in Work : x.job = y.job /\ x.claim = y.claim => x.node = y.node
  /\ \A x \in Work : /\ x.claim <= job[x.job].attempt
                     /\ (job[x.job].status \in Active /\ x.claim = job[x.job].attempt)
                          => x.node = job[x.job].node

\* An event that carries an attempt changes the row only if it comes from the very claim the
\* row is in, although the attempt on the wire was computed from a read made before the
\* claim.  (job.failed is out of scope: its update comes after another await.)
FencedEvents ==
  [][\A m \in net \ net' :
       m.kind \in {"accepted", "started", "completed"} /\ m.attempt > 0 /\ job'[m.job] # job[m.job]
         => m.claim = job[m.job].attempt]_schedVars

\* No activation that was under way when the requester cancelled (an assignment, its
\* rollback, a failure report, a lease sweep) brings the job back.
CancelSticks ==
  [][\A j \in Jobs : job[j].status = "CANCELLED" => job'[j].status = "CANCELLED"]_schedVars

\* The scheduler implements the lease protocol of JobLease: a job passes from node to node
\* only through nobody, and each hold is a new attempt.
Lease == INSTANCE JobLease WITH
  holder <- [j \in Jobs |-> IF job[j].status \in Active THEN job[j].node ELSE NoNode],
  round <- [j \in Jobs |-> job[j].attempt]

LeaseRefinement == Lease!LeaseSpec

\* A node that goes silent does not keep a job: every attempt ends.
AttemptsEnd ==
  \A j \in Jobs, k \in 1..ClaimBound :
    (job[j].status \in Active /\ job[j].attempt = k)
      ~> ~(job[j].status \in Active /\ job[j].attempt = k)
=============================================================================
