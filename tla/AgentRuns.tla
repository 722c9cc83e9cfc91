------------------------------ MODULE AgentRuns ------------------------------
(***************************************************************************)
(* Agent runs: starting one (agent-execution.service.ts), the loop as the  *)
(* run table sees it (agent-orchestrator.service.ts), the rows and the     *)
(* recovery of runs (agent-run.service.ts) and the approval gate           *)
(* (agent-approval.service.ts).                                            *)
(*                                                                         *)
(* A run is a row in the database and an execution in the memory of one    *)
(* process.  So is an approval: the row tells the user that something      *)
(* waits, the entry in memory is what the execution awaits.  Every         *)
(* database statement is a step, and a restart loses the memory only.      *)
(***************************************************************************)
EXTENDS Integers, FiniteSets

CONSTANTS
  Users,      \* account holders
  Runs,       \* run ids
  Owner,      \* Owner[r]: the user whose start created run r
  Approvals,  \* approval ids (bound)
  NoRun,      \* no run (yet)
  Requests,   \* slots for calls of AgentExecutionService.start (bound)
  Cancels,    \* slots for calls of AgentExecutionService.cancel (bound)
  MaxSteps    \* how many actions the loop takes before it asks for a summary

ASSUME RunsAssumption ==
  /\ Owner \in [Runs -> Users]
  /\ NoRun \notin Runs
  /\ MaxSteps \in Nat

VARIABLES
  run,        \* the AgentRun table: status, and whether lastHeartbeatAt is recent
  approval,   \* the AgentApproval table: the run and the status of each row
  pending,    \* ids in AgentApprovalService.pending
  answer,     \* answer[a]: what the promise of approval a resolved to
  settle,     \* settle[a]: the update of the row that waits for the row's insertion, or failed
  start,      \* start[q]: the call of `start` in slot q
  exec,       \* exec[r]: the execution of run r, while it is in the `active` map
  unsaved,    \* runs whose execution ended, and whose end could not be written
  aborted,    \* runs with an execution whose AbortController was aborted
  cancel,     \* cancel[k]: the call of `cancel` in slot k
  sweeping    \* whether the sweep is between its two statements

agentVars ==
  <<run, approval, pending, answer, settle, start, exec, unsaved, aborted, cancel, sweeping>>

-----------------------------------------------------------------------------
(* Rows and activations *)

Open == {"PENDING", "RUNNING", "WAITING_APPROVAL"}
Ended == {"INTERRUPTED", "COMPLETED", "FAILED", "CANCELLED"}
RunRows == [status : {"NONE"} \cup Open \cup Ended, fresh : BOOLEAN]

\* `fresh` only matters while a run is RUNNING or WAITING_APPROVAL, and is TRUE otherwise.
\* A row is "issued" from the call of `create` until it is in the table, "lost" if it never is.
RowStates == {"unused", "issued", "lost", "PENDING", "APPROVED", "DENIED", "EXPIRED"}
ApprovalRows == [status : RowStates, run : Runs \cup {NoRun}]

NoCall == [pc |-> "idle"]
Cancellations == {NoCall} \cup [pc : {"write", "abort"}, run : Runs]
Starts == {NoCall} \cup [pc : {"query", "create"}, user : Users]
               \cup [pc : {"register"}, user : Users, run : Runs]

\* `step` counts the loop; `next` is where an answered question or a finished statement leads.
Gone == [pc |-> "gone"]
AgentExecutions ==
  {Gone}
  \cup [pc : {"start", "check", "compute", "top", "model", "reply", "tool", "beat",
              "complete", "fail", "end"}, step : Nat]
  \cup [pc : {"append"}, step : Nat, next : {"top", "tool", "ask", "complete"}]
  \cup [pc : {"wait", "ask"}, step : Nat, next : {"beat", "tool"}]
  \cup [pc : {"await", "resume"}, step : Nat, next : {"beat", "tool"}, id : Approvals]

SetStatus(r, s) == run' = [run EXCEPT ![r] = [status |-> s, fresh |-> TRUE]]
Goto(r, pc) == exec' = [exec EXCEPT ![r] = [pc |-> pc, step |-> @.step]]
GotoNext(r, pc, next) == exec' = [exec EXCEPT ![r] = [pc |-> pc, step |-> @.step, next |-> next]]
At(r, pc) == exec[r].pc = pc
IsCancelled(r) == run[r].status = "CANCELLED"

\* approval.updateMany where status is PENDING.
Expire(ids) ==
  approval' = [a \in Approvals |->
                 IF a \in ids /\ approval[a].status = "PENDING"
                 THEN [approval[a] EXCEPT !.status = "EXPIRED"] ELSE approval[a]]
OfRuns(rs) == {a \in Approvals : approval[a].run \in rs}

memoryVars == <<pending, answer, settle>>

AgentInit ==
  /\ run = [r \in Runs |-> [status |-> "NONE", fresh |-> TRUE]]
  /\ approval = [a \in Approvals |-> [status |-> "unused", run |-> NoRun]]
  /\ pending = {}
  /\ answer = [a \in Approvals |-> "none"]
  /\ settle = [a \in Approvals |-> "none"]
  /\ start = [q \in Requests |-> NoCall]
  /\ exec = [r \in Runs |-> Gone]
  /\ unsaved = {} /\ aborted = {}
  /\ cancel = [k \in Cancels |-> NoCall]
  /\ sweeping = FALSE

-----------------------------------------------------------------------------
(* AgentExecutionService.start *)

\* Broken variant (mutation check): nothing remembers the calls that have begun.
StartingIgnored(u) == FALSE

\* startingUsers holds the users of the calls that have begun; a second call is refused.
Starting(u) == \E q \in Requests : start[q] # NoCall /\ start[q].user = u

StartBegin(q, u) ==
  /\ start[q] = NoCall
  /\ ~Starting(u)
  /\ start' = [start EXCEPT ![q] = [pc |-> "query", user |-> u]]
  /\ UNCHANGED <<run, approval, memoryVars, exec, unsaved, aborted, cancel, sweeping>>

\* runs.active: an open run is returned instead of a new one.
HasOpenRun(u) == \E r \in Runs : Owner[r] = u /\ run[r].status \in Open

StartQuery(q) ==
  /\ start[q].pc = "query"
  /\ start' = [start EXCEPT ![q] =
                 IF HasOpenRun(start[q].user) THEN NoCall ELSE [pc |-> "create", user |-> @.user]]
  /\ UNCHANGED <<run, approval, memoryVars, exec, unsaved, aborted, cancel, sweeping>>

\* createRun inserts the row ...
StartCreate(q, r) ==
  /\ start[q].pc = "create"
  /\ run[r].status = "NONE" /\ Owner[r] = start[q].user
  /\ SetStatus(r, "PENDING")
  /\ start' = [start EXCEPT ![q] = [pc |-> "register", user |-> @.user, run |-> r]]
  /\ UNCHANGED <<approval, memoryVars, exec, unsaved, aborted, cancel, sweeping>>

\* ... or throws: the query failed, or the parent run is not the user's.
StartThrows(q) ==
  /\ start[q].pc \in {"query", "create"}
  /\ start' = [start EXCEPT ![q] = NoCall]
  /\ UNCHANGED <<run, approval, memoryVars, exec, unsaved, aborted, cancel, sweeping>>

\* The execution enters the `active` map and is scheduled.
StartRegister(q) ==
  /\ start[q].pc = "register"
  /\ exec' = [exec EXCEPT ![start[q].run] = [pc |-> "start", step |-> 0]]
  /\ start' = [start EXCEPT ![q] = NoCall]
  /\ UNCHANGED <<run, approval, memoryVars, unsaved, aborted, cancel, sweeping>>

-----------------------------------------------------------------------------
(* The execution: AgentOrchestratorService.run and its loop *)

\* Everything an execution leaves alone in a step that touches neither row nor memory.
restVars == <<start, unsaved, aborted, cancel, sweeping>>

\* Broken variant (mutation check): the status is not asked for.
ExecStartAnyStatus(r) ==
  /\ At(r, "start")
  /\ SetStatus(r, "RUNNING")
  /\ Goto(r, "check")
  /\ UNCHANGED <<approval, memoryVars, restVars>>

\* runs.start: PENDING -> RUNNING.
ExecStart(r) ==
  /\ At(r, "start")
  /\ IF run[r].status = "PENDING" THEN SetStatus(r, "RUNNING") ELSE UNCHANGED run
  /\ Goto(r, "check")
  /\ UNCHANGED <<approval, memoryVars, restVars>>

ExecCheck(r) ==
  /\ At(r, "check")
  /\ Goto(r, IF IsCancelled(r) THEN "fail" ELSE "compute")
  /\ UNCHANGED <<run, approval, memoryVars, restVars>>

\* resolveCompute: a provider is chosen, none is available (the message is the answer), or
\* the user is asked.
ExecCompute(r) ==
  /\ At(r, "compute")
  /\ \/ Goto(r, "beat")
     \/ Goto(r, "complete")
     \/ GotoNext(r, "wait", "beat")
  /\ UNCHANGED <<run, approval, memoryVars, restVars>>

\* runs.heartbeat before the loop.
Beat(r) == IF run[r].status \in {"RUNNING", "WAITING_APPROVAL"}
           THEN run' = [run EXCEPT ![r].fresh = TRUE] ELSE UNCHANGED run

ExecBeat(r) ==
  /\ At(r, "beat")
  /\ Beat(r)
  /\ Goto(r, "top")
  /\ UNCHANGED <<approval, memoryVars, restVars>>

\* The head of the loop: stop when cancelled; after the last step a summary is asked for
\* without asking again.
ExecTop(r) ==
  /\ At(r, "top")
  /\ IF exec[r].step < MaxSteps /\ IsCancelled(r)
     THEN Goto(r, "fail")
     ELSE exec' = [exec EXCEPT ![r] = [pc |-> "model", step |-> @.step + 1]]
  /\ UNCHANGED <<run, approval, memoryVars, restVars>>

\* callLLM beats before it sends the prompt.
ExecModel(r) ==
  /\ At(r, "model")
  /\ Beat(r)
  /\ Goto(r, "reply")
  /\ UNCHANGED <<approval, memoryVars, restVars>>

\* The reply is an action that cannot be used, a tool that needs no approval, one that does, or
\* the answer; the summary is an answer whatever it says.
Replies(step) == IF step > MaxSteps THEN {"complete"} ELSE {"top", "tool", "ask", "complete"}

\* The model's reply; an aborted request throws.
ExecReply(r) ==
  /\ At(r, "reply")
  /\ IF r \in aborted THEN Goto(r, "fail")
     ELSE \E next \in Replies(exec[r].step) : GotoNext(r, "append", next)
  /\ UNCHANGED <<run, approval, memoryVars, restVars>>

\* appendStep writes the heartbeat whatever the status is.
ExecAppend(r) ==
  /\ At(r, "append")
  /\ run' = [run EXCEPT ![r].fresh = TRUE]
  /\ IF exec[r].next = "ask" THEN GotoNext(r, "wait", "tool") ELSE Goto(r, exec[r].next)
  /\ UNCHANGED <<approval, memoryVars, restVars>>

\* waitForApproval: RUNNING -> WAITING_APPROVAL.
ExecWait(r) ==
  /\ At(r, "wait")
  /\ IF run[r].status = "RUNNING" THEN SetStatus(r, "WAITING_APPROVAL") ELSE UNCHANGED run
  /\ GotoNext(r, "ask", exec[r].next)
  /\ UNCHANGED <<approval, memoryVars, restVars>>

\* AgentApprovalService.wait: the entry in memory exists at once, the row is on its way.
ExecAsk(r, a) ==
  /\ At(r, "ask")
  /\ approval[a].status = "unused"
  /\ approval' = [approval EXCEPT ![a] = [status |-> "issued", run |-> r]]
  /\ pending' = pending \cup {a}
  /\ exec' = [exec EXCEPT ![r] = [pc |-> "await", step |-> @.step, next |-> @.next, id |-> a]]
  /\ UNCHANGED <<run, answer, settle, restVars>>

ExecAnswered(r) ==
  /\ At(r, "await")
  /\ answer[exec[r].id] # "none"
  /\ exec' = [exec EXCEPT ![r].pc = "resume"]
  /\ UNCHANGED <<run, approval, memoryVars, restVars>>

\* resumeAfterApproval: WAITING_APPROVAL -> RUNNING.  What was approved is then done without
\* another look at the run.
ExecResume(r) ==
  /\ At(r, "resume")
  /\ IF run[r].status = "WAITING_APPROVAL" THEN SetStatus(r, "RUNNING") ELSE UNCHANGED run
  /\ Goto(r, IF exec[r].next = "tool" /\ answer[exec[r].id] # "yes" THEN "top" ELSE exec[r].next)
  /\ UNCHANGED <<approval, memoryVars, restVars>>

\* The tool ends, or fails, which the loop reports to the model.
ExecTool(r) ==
  /\ At(r, "tool")
  /\ Goto(r, "top")
  /\ UNCHANGED <<run, approval, memoryVars, restVars>>

\* The model or a statement throws out of the loop.
ExecThrows(r) ==
  /\ exec[r].pc \in {"start", "check", "compute", "beat", "top", "model", "reply", "append", "wait",
                   "resume", "complete"}
  /\ Goto(r, "fail")
  /\ UNCHANGED <<run, approval, memoryVars, restVars>>

\* Broken variant (mutation check): only a RUNNING row is ended.
OverwriteRunning(r, s) == IF run[r].status = "RUNNING" THEN SetStatus(r, s) ELSE UNCHANGED run

Overwrite(r, s) == IF run[r].status \notin {"CANCELLED", "COMPLETED"}
                   THEN SetStatus(r, s) ELSE UNCHANGED run

ExecComplete(r) ==
  /\ At(r, "complete")
  /\ Overwrite(r, "COMPLETED")
  /\ Goto(r, "end")
  /\ UNCHANGED <<approval, memoryVars, restVars>>

\* The failure is written; if that fails too, nobody is told, and the row stays as it is.
ExecFail(r) ==
  /\ At(r, "fail")
  /\ \/ Overwrite(r, "FAILED") /\ UNCHANGED unsaved
     \/ run[r].status \in Open /\ unsaved' = unsaved \cup {r} /\ UNCHANGED run
  /\ Goto(r, "end")
  /\ UNCHANGED <<approval, memoryVars, start, aborted, cancel, sweeping>>

\* The event writes are done: the execution leaves the `active` map.
ExecEnd(r) ==
  /\ At(r, "end")
  /\ exec' = [exec EXCEPT ![r] = Gone]
  /\ aborted' = aborted \ {r}
  /\ UNCHANGED <<run, approval, memoryVars, start, unsaved, cancel, sweeping>>

ExecStep(r) ==
  \/ ExecStart(r) \/ ExecCheck(r) \/ ExecCompute(r) \/ ExecBeat(r) \/ ExecTop(r) \/ ExecModel(r)
  \/ ExecReply(r) \/ ExecAppend(r) \/ ExecWait(r) \/ ExecAnswered(r) \/ ExecResume(r)
  \/ ExecTool(r) \/ ExecThrows(r) \/ ExecComplete(r) \/ ExecFail(r) \/ ExecEnd(r)
  \/ \E a \in Approvals : ExecAsk(r, a)

-----------------------------------------------------------------------------
(* AgentApprovalService *)

execVars == <<start, exec, unsaved, aborted, cancel, sweeping>>

\* The promise resolves, and the row is to follow once it is inserted.
Answer(ids, ok, s) ==
  /\ pending' = pending \ ids
  /\ answer' = [a \in Approvals |-> IF a \in ids THEN ok ELSE answer[a]]
  /\ settle' = [a \in Approvals |-> IF a \in ids THEN s ELSE settle[a]]

\* resolve, called by the user.
Resolve(a, approved) ==
  /\ a \in pending
  /\ IF approved THEN Answer({a}, "yes", "APPROVED") ELSE Answer({a}, "no", "DENIED")
  /\ UNCHANGED <<run, approval, execVars>>

\* Broken variant (mutation check): the timer starts once the row is in the table.
TimeOutAfterRow(a) ==
  /\ a \in pending
  /\ approval[a].status = "PENDING"
  /\ Answer({a}, "no", "EXPIRED")
  /\ UNCHANGED <<run, approval, execVars>>

\* The timer of wait.
TimeOut(a) ==
  /\ a \in pending
  /\ Answer({a}, "no", "EXPIRED")
  /\ UNCHANGED <<run, approval, execVars>>

RowInserted(a) ==
  /\ approval[a].status = "issued"
  /\ approval' = [approval EXCEPT ![a].status = "PENDING"]
  /\ UNCHANGED <<run, memoryVars, execVars>>

\* The row cannot be inserted: whoever waits is denied, and no update follows.
RowLost(a) ==
  /\ approval[a].status = "issued"
  /\ approval' = [approval EXCEPT ![a].status = "lost"]
  /\ IF a \in pending THEN Answer({a}, "no", "none")
     ELSE settle' = [settle EXCEPT ![a] = "none"] /\ UNCHANGED <<pending, answer>>
  /\ UNCHANGED <<run, execVars>>

Settling(a) == settle[a] \notin {"none", "failed"}

\* Broken variant (mutation check): the update does not wait for the insertion.
RowSettledAtOnce(a) ==
  /\ Settling(a)
  /\ approval' = IF approval[a].status = "PENDING"
                 THEN [approval EXCEPT ![a].status = settle[a]] ELSE approval
  /\ settle' = [settle EXCEPT ![a] = "none"]
  /\ UNCHANGED <<run, pending, answer, execVars>>

\* The update that follows the insertion, where the row is still PENDING; nobody learns of one
\* that fails.
RowSettled(a) ==
  /\ Settling(a) /\ approval[a].status \notin {"unused", "issued"}
  /\ \/ /\ approval' = IF approval[a].status = "PENDING"
                       THEN [approval EXCEPT ![a].status = settle[a]] ELSE approval
        /\ settle' = [settle EXCEPT ![a] = "none"]
     \/ /\ approval[a].status = "PENDING" /\ settle' = [settle EXCEPT ![a] = "failed"]
        /\ UNCHANGED approval
  /\ UNCHANGED <<run, pending, answer, execVars>>

ApprovalStep(a) ==
  \/ TimeOut(a) \/ RowInserted(a) \/ RowLost(a) \/ RowSettled(a)
  \/ \E approved \in BOOLEAN : Resolve(a, approved)

-----------------------------------------------------------------------------
(* AgentExecutionService.cancel *)

\* runs.cancel reads the row: one that has ended is left alone.
CancelRead(k, r) ==
  /\ cancel[k] = NoCall /\ run[r].status # "NONE"
  /\ cancel' = [cancel EXCEPT ![k] =
       [pc |-> IF run[r].status \in {"COMPLETED", "FAILED", "CANCELLED"} THEN "abort" ELSE "write",
        run |-> r]]
  /\ UNCHANGED <<run, approval, memoryVars, start, exec, unsaved, aborted, sweeping>>

\* The transaction updates the row by id, whatever it has become, and expires the approvals.
CancelWrite(k) ==
  /\ cancel[k].pc = "write"
  /\ SetStatus(cancel[k].run, "CANCELLED")
  /\ Expire(OfRuns({cancel[k].run}))
  /\ cancel' = [cancel EXCEPT ![k].pc = "abort"]
  /\ UNCHANGED <<memoryVars, start, exec, unsaved, aborted, sweeping>>

\* Then the memory: abort the execution and deny what it waits for.  (The background processes
\* of the terminal service, which are stopped last, are not modelled.)
CancelAbort(k) ==
  /\ cancel[k].pc = "abort"
  /\ LET r == cancel[k].run
     IN  /\ aborted' = IF exec[r] # Gone THEN aborted \cup {r} ELSE aborted
         /\ Answer(pending \cap OfRuns({r}), "no", "DENIED")
  /\ cancel' = [cancel EXCEPT ![k] = NoCall]
  /\ UNCHANGED <<run, approval, start, exec, unsaved, sweeping>>

-----------------------------------------------------------------------------
(* Time, the sweep and restarts *)

\* AGENT_STALE_RUN_MINUTES pass without a heartbeat (a long tool, a slow model).
HeartbeatAges(r) ==
  /\ run[r].status \in {"RUNNING", "WAITING_APPROVAL"} /\ run[r].fresh
  /\ run' = [run EXCEPT ![r].fresh = FALSE]
  /\ UNCHANGED <<approval, memoryVars, execVars>>

Stale == {r \in Runs : run[r].status \in {"RUNNING", "WAITING_APPROVAL"} /\ ~run[r].fresh}

\* interruptStaleRuns, first statement ...
SweepRuns ==
  /\ Stale # {}
  /\ run' = [r \in Runs |-> IF r \in Stale
                            THEN [status |-> "INTERRUPTED", fresh |-> TRUE] ELSE run[r]]
  /\ sweeping' = TRUE
  /\ UNCHANGED <<approval, memoryVars, start, exec, unsaved, aborted, cancel>>

\* ... and second: the approvals of interrupted runs expire.
SweepApprovals ==
  /\ sweeping
  /\ Expire(OfRuns({r \in Runs : run[r].status = "INTERRUPTED"}))
  /\ sweeping' = FALSE
  /\ UNCHANGED <<run, memoryVars, start, exec, unsaved, aborted, cancel>>

\* The process stops and starts again.  Rows that were on their way arrived or did not; the
\* open runs and their approvals are closed (interruptOrphanedRuns) before anything else runs.
AgentRestart ==
  /\ \E arrived \in SUBSET {a \in Approvals : approval[a].status = "issued"} :
       approval' = [a \in Approvals |->
         LET s == IF approval[a].status = "issued"
                  THEN IF a \in arrived THEN "PENDING" ELSE "lost" ELSE approval[a].status
             closed == approval[a].run # NoRun /\ run[approval[a].run].status \in Open \cup {"INTERRUPTED"}
         IN  [approval[a] EXCEPT !.status = IF s = "PENDING" /\ closed THEN "EXPIRED" ELSE s]]
  /\ run' = [r \in Runs |-> IF run[r].status \in Open
                            THEN [status |-> "INTERRUPTED", fresh |-> TRUE] ELSE run[r]]
  /\ pending' = {}
  /\ answer' = [a \in Approvals |-> IF answer[a] = "none" /\ approval[a].status # "unused"
                                    THEN "gone" ELSE answer[a]]
  /\ settle' = [a \in Approvals |-> "none"]
  /\ start' = [q \in Requests |-> NoCall]
  /\ exec' = [r \in Runs |-> Gone]
  /\ unsaved' = {} /\ aborted' = {}
  /\ cancel' = [k \in Cancels |-> NoCall]
  /\ sweeping' = FALSE

-----------------------------------------------------------------------------

AgentNext ==
  \/ \E q \in Requests : \/ StartQuery(q) \/ StartThrows(q) \/ StartRegister(q)
                         \/ \E u \in Users : StartBegin(q, u)
                         \/ \E r \in Runs : StartCreate(q, r)
  \/ \E r \in Runs : ExecStep(r) \/ HeartbeatAges(r)
  \/ \E k \in Cancels : \/ CancelWrite(k) \/ CancelAbort(k)
                        \/ \E r \in Runs : CancelRead(k, r)
  \/ \E a \in Approvals : ApprovalStep(a)
  \/ SweepRuns \/ SweepApprovals \/ AgentRestart

AgentSpec == AgentInit /\ [][AgentNext]_agentVars

\* Statements and model requests return, tools end (each has a timeout), and timers fire.
\* Nothing is assumed of the user.
AgentFairness ==
  /\ \A r \in Runs : WF_agentVars(ExecStep(r))
  /\ \A a \in Approvals : WF_agentVars(TimeOut(a))

AgentLiveSpec == AgentSpec /\ AgentFairness

-----------------------------------------------------------------------------
(* Properties *)

\* Every variable has its type.
AgentTypeOK ==
  /\ run \in [Runs -> RunRows]
  /\ approval \in [Approvals -> ApprovalRows]
  /\ pending \in SUBSET Approvals
  /\ answer \in [Approvals -> {"none", "yes", "no", "gone"}]
  /\ settle \in [Approvals -> {"none", "APPROVED", "DENIED", "EXPIRED", "failed"}]
  /\ start \in [Requests -> Starts]
  /\ exec \in [Runs -> AgentExecutions]
  /\ unsaved \in SUBSET Runs /\ aborted \in SUBSET Runs
  /\ cancel \in [Cancels -> Cancellations]
  /\ sweeping \in BOOLEAN

\* A user has one open run, however many starts race with each other, with the sweep and with
\* cancellations.
OneOpenRun ==
  \A r, s \in Runs : Owner[r] = Owner[s] /\ run[r].status \in Open /\ run[s].status \in Open => r = s

\* An open run has an execution (or is about to): otherwise the user, who gets that run back
\* from every start, could not start another.  Only a failure that could not even be written
\* leaves one behind (the sweep finds it, unless it is still PENDING).
Registering(r) == \E q \in Requests : start[q] # NoCall /\ start[q].pc = "register" /\ start[q].run = r
OpenIsExecuted ==
  \A r \in Runs : run[r].status \in Open => exec[r] # Gone \/ Registering(r) \/ r \in unsaved

\* How a run ended is only ever corrected upwards: an execution that goes on after the sweep
\* gave it up may still end it, a cancellation wins over everything, and nothing reopens a run
\* or turns one ending into another of its rank.
Rank(s) == CASE s = "NONE" -> 0
             [] s \in Open -> 1
             [] s = "INTERRUPTED" -> 2
             [] s \in {"COMPLETED", "FAILED"} -> 3
             [] s = "CANCELLED" -> 4

EndsStay ==
  [][\A r \in Runs :
       LET before == run[r].status
           after == run'[r].status
       IN  before = after \/ Rank(before) < Rank(after) \/ {before, after} \subseteq {"RUNNING", "WAITING_APPROVAL"}
          \/ <<before, after>> = <<"PENDING", "RUNNING">>]_agentVars

\* What the user sees as waiting in an open run does wait: somebody can still answer it, or an
\* answer is on its way to the row (or was, and could not be written).
ShownIsWaiting ==
  \A a \in Approvals :
    approval[a].status = "PENDING" /\ run[approval[a].run].status \in Open
      => a \in pending \/ settle[a] # "none"

\* The table and the memory never contradict each other: a row says APPROVED or DENIED only if
\* that is what the execution was told.
RowTellsAnswer ==
  \A a \in Approvals : /\ approval[a].status = "APPROVED" => answer[a] = "yes"
                       /\ approval[a].status = "DENIED" => answer[a] = "no"

\* What an approval's row says and what its execution hears agree, in any order of answer,
\* timer and insertion.
ApprovalsAgree == ShownIsWaiting /\ RowTellsAnswer

\* A cancelled run stops, whatever it was doing and even if it asks a question afterwards.
CancelledStops == \A r \in Runs : run[r].status = "CANCELLED" ~> exec[r] = Gone
=============================================================================
