# A TLA+ model of Neurion

Neurion is a compute grid: people send jobs to an API, volunteers' nodes run them, the API
judges the results and moves credits.  The same API process is also the back end of a desktop
application: it runs coding agents, a local inference engine, a chat, media generation and a
peer-to-peer overlay.

This directory specifies the parts of the program where a state change of one actor meets one
of another, checks small instances of them with TLC and proves the most important properties
for every instance with TLAPS.  Everything is translated from the source; `PROJECT.json` gives,
for every definition, the lines it stands for.

    tlc -workers 2 -config MCJobScheduler.cfg MCJobScheduler     # check an instance
    tlapm JobSchedulerProofs.tla                                 # check the proofs

Contents: [the system](#1-the-system), [the modules](#2-the-modules), [the runs](#3-the-runs), [bounds
and fairness](#4-bounds-and-fairness), [the proofs](#5-the-proofs), [where the code
disagrees](#6-where-the-code-disagrees-with-what-is-said-of-it), [what is left
out](#7-what-is-left-out), [the plan](#8-the-plan).

## 1. The system

Paths are relative to `src/apps/api/src/` unless they start with `apps/`.

| component | state | operations | modules |
|---|---|---|---|
| **Grid scheduler** `jobs/job-scheduler.service.ts` | the `Job` rows | assign, the events of a job, the lease sweep, the retry when a node comes online | `JobScheduler` |
| **Job requests** `jobs/jobs.service.ts` | `Job` rows | create (charge, insert, refund on failure), cancel | `JobScheduler`, `JobVerification` |
| **Verifier** `jobs/verification.service.ts` | `Job`, `ComputeNode` rows | judge, pay, graduate, slash, audit | `JobVerification` |
| **Credits** `credits/credits.service.ts` | `User.creditBalance`, `CreditLedger` | `spend`, `grant`, `reward` | `CreditsService` |
| **Node gateway** `nodes/node-gateway.service.ts` | a map node -> socket, presence in Redis | hello, heartbeat, close, reconcile | `NodeGateway` |
| **Node registration** `nodes/nodes.service.ts` | `ComputeNode` rows, slots | register (slot, stake), enable, disable | `NodeRegistration`, `NodeGateway` |
| **Go node agent** `apps/node-agent/` | a semaphore, containers, one socket | run a job, stream a model's answer, reconnect | `JobScheduler`, `ChatServe` |
| **Agent runs** `agent/agent-run`, `agent-execution`, `agent-approval` | run and approval rows; executions and pending approvals in memory | start, approve, cancel, sweep, recover; events for the page | `AgentRuns`, `AgentEvents` |
| **Agent loop** `agent/agent-orchestrator.service.ts` | counters of changes, checks and reviews | reply, tool, check, review, correct, answer | `AgentLoop` |
| **Agent tools** `agent/agent-patch`, `agent-tools`, `agent-code-index`, `agent-terminal` | files and checkpoints, an index per folder, processes | apply and undo a patch, look up, start and stop a process | `AgentPatch`, `AgentTools`, `AgentTerminal` |
| **Agent context** `agent/agent-context.service.ts` | the conversation | cut it to the model's window | `AgentContext` |
| **Overlay** `ai/engine/kad.ts` | routing table, provider store | lookup, find, announce | `Kad` |
| **Peer service** `ai/engine/peer.service.ts` | upload slots, relay seats, attachments, lent compute, known peers | serve, relay, share, lend, borrow, discover | `PeerUploads`, `PeerSharing`, `PeerLending`, `PeerDiscovery` |
| **Local engine** `ai/engine/llama-engine.service.ts` | a child process | start, stop, adopt, restore | `LocalEngine` |
| **Downloads** `ai/engine/download.util.ts` | partial files | fetch from a peer or the publisher, verify, install | `Downloads` |
| **Chat and realtime inference** `chat/`, `ai/realtime-*.ts`, `ai/infer.controller.ts` | conversations, warm nodes | plan, stream, store, charge, reward | `ChatServe` |
| **Media** `ai/image.controller.ts`, `ai/video.controller.ts` | a gallery directory, one work of each kind | generate, stop, delete, recover | `MediaJobs` |
| **Accounts** `auth/` | refresh tokens, mailed tokens | rotate, revoke, use once | `Accounts` |
| **Desktop shell** `apps/desktop/` | child processes, an update | boot, watch, quit, update | `Desktop` |
| **Web application** `apps/web/` | what a page shows, who a tab is signed in as | follow a run, chat, sign in and out | `AgentEvents`, `ChatPage`, `WebSession` |
| Forum, projects, mail, audit, admin, network view, other pages | rows | single-statement reads and writes | not modelled |

### How the parts interact

1. `JobsService.create` charges the requester, inserts the row as PENDING and calls
   `void scheduler.tryAssign(id)`, which claims the row by a compare-and-set that increments
   `attempt`, and sends `job.assign` through the gateway.
2. The agent's events move the row through ACCEPTED, RUNNING and COMPLETED.  A failure event, or
   a lease that has passed, requeues the row (up to `maxAttempts`) or gives it up.
3. `job.completed` starts the verifier: a compare-and-set COMPLETED -> VERIFYING, a read of the
   node's row, the verdict, and then payment, counters and graduation, or clawback, refund,
   suspension and an audit of the node's earlier jobs.
4. The chat plans who answers (a warm node through the gateway, or a local engine), streams the
   answer to the page, stores it, charges its user and rewards the node's owner.
5. An agent run is a row in the database and an execution in memory.  The execution asks the
   model, calls tools (with approvals that its user answers through the API), and writes events
   that the page reads by polling or by a stream.
6. On a desktop, the shell starts the database, the web server and the API; the API starts the
   local engine, fetches models from peers and lends its own to them.

The API is one Node.js process and a PostgreSQL database.  Handlers are started with `void f()`,
so every `await` is a point at which any other handler may run; a database statement is atomic, a
sequence of them is not, and transactions are few.

### What is hard, and what makes each part correct

`PROJECT.json` lists the hazards, each at its line with the properties that cover it.  In short:

- *decisions on what was read some awaits ago*: the attempt number in `job.assign`, the retry in
  `onFailed`, the node row in the verifier, the balance before an answer, the count of a node's passes;
- *events, answers and words that come late*: those of an attempt that is over, of a connection that
  was replaced, of a relay that had been switched off, of a conversation that was left;
- *a stop between any two steps*: of an assignment, a payment, a patch, a download, a registration;
- *something of the machine that outlives the call that made it*: child processes, partial files,
  sockets, timers;
- *state kept twice*: approvals and executions in memory and in rows, an index and the files, a page
  and the database, a cookie jar and the tokens of its tabs.

A scheduler is correct if it implements a lease protocol (`JobLease`), credits if they implement an
atomic ledger (`AtomicLedger`).  The verifier is correct if money and trust follow results; runs if
rows, memory and approvals agree; the loop if its answer does not hide what was not checked; the
tools if files, index and processes are as the agent was told; a peer if what it counts, awaits,
says and writes down is so; the engine, the downloads and the media works if what looks ready,
installed or finished is; the pages if they show what the API has.

## 2. The modules

`JobScheduler` is extended by `JobVerification`, which composes it with the verifier and an
`AtomicLedger`; `CreditsService` is shown to implement that ledger.  The other modules share no state
in the program either: each is a component with the part of its environment that matters.  Where one
uses another (a chat that spends, a tool that applies a patch, a tab that rotates a token), the user's
module takes the step at once that the other module models in detail.

| module | models |
|---|---|
| `JobLease`, `AtomicLedger` | abstract specifications: who holds a job in which round; movements that are whole, covered and made once |
| `JobScheduler` | the scheduler, create and cancel on the row, the agent's job loop, sockets and messages |
| `CreditsService` | `spend` and `grant` as statements of overlapping transactions under READ COMMITTED |
| `JobVerification` | the verifier, the charge and refund of a job, slash and retro-audit |
| `NodeGateway` | connections of nodes to several API instances, Redis keys and presence messages, the owner's switch |
| `NodeRegistration` | the three transactions of `register` and their compensations |
| `AgentRuns` | rows, executions, approvals, sweep, cancellation and restart |
| `AgentEvents` | the events of a run, as a polling page and a stream read them |
| `AgentLoop` | the model's replies, the gates before an answer, sub-agents, limits |
| `AgentPatch` | one patch and its undoing, one action per file-system call, any of which may fail |
| `AgentTools` | calls that look and change, and the index of a folder |
| `AgentTerminal` | processes that are left running, their timers and their ends |
| `AgentContext` | `compile`: budgets, shortening, the cut of the oldest messages |
| `Accounts` | rotation, reuse detection, revocation, mailed tokens |
| `Downloads` | `ensureModel` and `downloadFile`, by inode |
| `LocalEngine` | calls of `start`, the child processes, the port, `engine.json` |
| `MediaJobs` | pictures and clips: the slot, the child, the gallery, deletion, restart |
| `ChatServe` | turns from the plan to the reward, the node's stream, `/ai/infer` |
| `ChatPage` | the chat page and its list of conversations |
| `WebSession` | tabs, the cookie jar, local storage, and the handlers of sessions |
| `Desktop` | boot, watchdog, quitting, updates |
| `Kad` | routing tables, provider records, iterative walks; an id is the set of its one bits; replies are taken in the order of distance to the target, acknowledgements of an announcement in any |
| `PeerUploads` | upload slots, relay seats and queues, every ending of a transfer |
| `PeerSharing` | the switch, the server, the rounds that join the index, the relay loop |
| `PeerLending` | lenders' slots, borrows of up to four requests, reciprocity |
| `PeerDiscovery` | announcements, sweeps, seeds, gossip, what is written down |
| `Filtering` | `filter`: the members of a sequence that are in a set, used by `AgentEvents`, `ChatPage`, `Kad` |
| `MC...` | the instances that TLC checks |
| `...Proofs` | the theorems, see [section 5](#5-the-proofs) |

State and actions follow the code: a variable is a column, a field, a map or a file; an action is a
statement between two awaits, or a whole handler when it has none, and is named after the method
(`ReadJob`, `ReadCandidates`, `Claim`, `Dispatch` and `Rollback` are the statements of `tryAssign`).  A
call that is under way is a record with a `pc` and what it has read.  Some conventions:

- *Clocks*.  A lease, a heartbeat, a record of the index is fresh or not, and an action lets it age.
  A timer is an action that may happen whenever it is set.
- *Messages and words*.  Messages are members of a set or of a queue; an answer is a number of words
  and who spoke them; a file's content is one of the few that the properties tell apart.
- *History*.  Some variables are seen by the properties only: `claim` of a message (the claim its
  work is for), `produced` (what each node sent), `answered` (where somebody spoke), `met`, `heard`,
  `vouched` (who was entered because somebody answered at its address).
- *Excuses*.  Where the code gives up a guarantee under a condition the authors know or a finding
  describes, a history variable remembers the condition (`shared`, `crossed`, `late`, `overlap`,
  `missed`, `raced`, `strayed`, `belated`, `early`, `unsaved`), and the property is stated without it:
  it then says that nothing else goes wrong.  Section 6 says what happens with it.
- *Broken variants*.  A definition marked as such in its comment is a plausible bug, never part of a
  specification: with it in place of the real one, TLC finds the property violated.
- `*TypeOK` states the types of a module; a proof establishes it where its invariant contains it.

## 3. The runs

| run | instance | properties |
|---|---|---|
| `job_scheduler` | one job, two nodes (one echoes the attempt, one does not; one on probation), two activations, two claims | `ActiveIsLeased`, `OneNodePerClaim`, `FencedEvents`, `CancelSticks`, the refinement `LeaseRefinement` |
| `verification` | two verifications at once: two jobs of one node, or one job that two nodes of two owners may run | `MoneyFollowsResults`, `EligibleOnlyIfVerified`, `TrustIsEarned` |
| `users` | two runs, two racing starts, an approval, ends that cannot be written; or two messages of the chat page over two conversations; or two tabs and two accounts, while sessions expire, passwords are reset and accounts disabled | `OneOpenRun`, `OpenIsExecuted`, `ApprovalsAgree`, `EndsStay`; `PageShowsItsConversation`; `SessionFollowsUser` |
| `peers` | three transfers to two addresses over one relay seat; the switch with two relays and two loops; two borrows over three machines; four nodes of the index | `SlotsAreHeld`; `AttachedIsPolled`; `ConfidenceIsEarned`; `TableIsProven`, `AnnouncedIsFound` |
| `live` | one job and one node; one run; a desktop; a peer and one other, under fairness | `AttemptsEnd`; `CancelledStops`; `HungIsReplaced`, `NothingSurvives`; `AloneFindsAgain`, `NothingOnHearsay` |
| `node_gateway` | one node, two overlapping connections, two API instances with Redis, under fairness | `ConnectedIsKnown` |
| `services` | one of fifteen instances at a time, see below | `LedgerExplainsBalance`, `AtomicMovements`, `NodesArePaid`, `RotationIsExclusive`, `InstalledIsVerified`, `ReadyIsLoaded`, `WorksKeepApart`, `NothingIsSkipped`, `PatchIsAtomic`, `AnswerIsHonest`, `AnswerIsWhole`, `IndexFollowsPatches`, `ProcessesAreAnsweredFor`, `ContextFits` |

What they show, beyond what their names say:

- `LeaseRefinement`: a job passes from node to node only through nobody, and each hold is a new
  attempt.  `FencedEvents` answers a question the code raises: the attempt in `job.assign` is computed
  from a read made before the claim, so it can be smaller than the claim's; still, an event that
  carries it never changes a row of another claim.
- `MoneyFollowsResults` holds although the verifier updates rows by id, because every payment has a
  key per job and is made before the row is marked; `TrustIsEarned`, although the count of passes is
  read long before it is written.
- `OneOpenRun` holds although `start` reads and inserts in two statements, because the call is
  remembered in memory in between; `OpenIsExecuted` says that no later `start` is given a run that
  nothing executes, but for one whose failure could not be written (the error is swallowed);
  `ApprovalsAgree`, that a question of an open run can be answered, but for one whose only update
  failed, and that a row never says another thing than the execution was told.
- `SlotsAreHeld`: no ending of a transfer (delivery, timers, departures, lost polls, dropped jobs)
  returns a slot twice, or one that another transfer holds: the counter is the number of holders.
  That a slot is returned in the end is `RefusalIsTemporary`, which is false.  `ConfidenceIsEarned`:
  "verified" is said only of an answer that another machine checked.  `AnnouncedIsFound`: walks
  neither stop nor trim too early while nobody leaves.  `TableIsProven`: whatever replies come, of
  whichever machine has an address by now, a table has only machines its owner heard from, or at
  whose given address somebody answered it (`locate` and `joinNetwork` enter those).
- `InstalledIsVerified` and `NodesArePaid` hold wherever the process stops or one call fails.
  `PatchIsAtomic` says of such moments that the old content is in place, beside the file or in the
  checkpoint, as text; that a patch changed all files or none, when it ended; and that undoing put all
  back or refused, when it ended and no call failed.  With one failing call the last part is false:
  that is `RollbackRestores`.
- `NothingSurvives` holds whenever the user quits a stack that started, also while the watchdog
  restarts the API: no API or web server is left, and the database has been told to stop, which
  nobody waits for.
- `ContextFits` with windows of 0, 2048, 5800, 6144 and 32768 tokens: what is sent is within the
  budget, or within 3195 tokens where the least shares are more than the budget.
- `PageShowsItsConversation` and `SessionFollowsUser` say what pages that keep copies of the API's
  state guarantee as long as nothing overlaps a load, an answer or a renewal: of a tab, that it works
  as the user it shows, and that the cookie renews that user's session unless it expired or a reset
  of the password revoked it.

Violation runs, each of one sentence that the repository says of the code, are explained in
[section 6](#6-where-the-code-disagrees-with-what-is-said-of-it): `producer_is_paid`, `off_is_off`,
`looks_installed_is_whole`, `rollback_restores`, `refusal_is_temporary`.

## 4. Bounds and fairness

The parts of `users`, `peers`, `live` and `services` share no variable: a behaviour runs one of them,
chosen at its start, and leaves the others as they begin.  A run of several parts thus has the
states of each part once, not their product.

- *Activations.*  `Calls`, `Verifiers`, `Txs`, `Requests`, `Refreshes`, `Setups`, `Borrows`, `Turns`: two
  (three where two interfere with a third) is the number at which every read can be outdated by
  another's write; the rows they meet at are one or two.
- *Counters.*  `ClaimBound`: the code does not bound `attempt`; two claims give a first holder, a
  second one and late events of the first.  `MaxAttempts` 2 retries once and gives up once.
  `LedgerBound`: three rows per user, a chain with a middle.  `MaxTokens` 3: a token, its
  successor, and the successor of that.  `MaxApis` 3, `MaxVersion` 2: a restart of a restart, one update.
- *Amounts.*  `Reward`, `Stake` 1 and `Cost` 2, so that a refund cannot be taken for a reward; `Passes` 1.
- *Agent loop.*  `StepLimit` 5 and `Grace` 5 let every correction and the limit itself be met.
- *Patches.*  Two files: one that is through while the other is not.  `MaxFaults` 1: see section 5.
- *Index.*  Ids of three bits and four nodes, of which three share a bucket of the fourth, with
  `K` 1: a full bucket, an eviction and a walk of two rounds.
- *Context.*  Prompts, messages and windows take values on both sides of each threshold, the least
  budget (2048, 5800) among them; twelve messages give a digest and a cut at a block.
- *Discovery.*  `MaxTurns` 1: something outside, or the user, intervenes once (a machine moves, an
  answer is lost, a peer is blocked).  `FewQuestions`: the index is
  consulted, and a seed is typed in, while nothing else is asked.  The code's caps of 60 questions and
  200 addresses are not reached.
- *Scenarios.*  `MCJobVerification` starts some steps after the initial state, with one node running
  the first job; the prefix is what `job_scheduler` explores.  `MCNodeGateway` dials the first instance
  first, one reconcile at a time, and flips the owner's switch while no close is under way.
  `MCUsers` ends a behaviour once every run has ended, or requests of a session crossed, and sends
  nothing more on a page that strayed: the properties claim nothing afterwards.  In it only an API that
  is no desktop's has a domain for its cookies.
- *Switches.*  `KillWaits` is TRUE: on Windows a kill returns when the process tree is gone; elsewhere
  two engines may overlap for a moment and `ReadyIsLoaded` claims nothing.  `Wanders` is FALSE
  (section 6), `Delegates`, `Edits`, `Crashes`, `MeterLocal` and `FsEnabled` are TRUE.
- *Symmetry* is used for interchangeable slots in runs without liveness.

Deadlock is not checked: a system in which every job, run or request has ended may stop.

Fairness is stated in the modules and comes from timers, the event loop and the database:

- `SchedFairness`: the clock and the statements of an activation (weak: a query that was issued
  returns), and the sweep (strong: `setInterval` repeats it every 30 s, with an activation of its own
  for each tick, so neither other activations, which in the model may hold the only slot, nor
  restarts keep it from running for ever).  Nothing is assumed of requesters, nodes or the network.
- `AgentFairness`: the steps of an execution (statements return, model requests and tools have a
  timeout) and the timer of an approval.  Nothing is assumed of the user or of the sweep.
- `DesktopFairness`: the watchdog's interval and the steps of a restart go on.
- `DiscoveryFairness`: the interval, the sweep, and that a question ends within its time, by an
  answer that is read or without one; answers to sweeps and to other questions each get their turn.
- `GatewayFairness`: handlers go on, presence messages arrive, keys expire, reconciliation is repeated,
  and a connected node goes on sending heartbeats.
- `SharingFairness` (`off_is_off`): requests of this process end, by an answer or by their timeout.
- `UploadsFairSpec` (`refusal_is_temporary`): timers fire, relayed peers go on polling, bytes that a
  connection takes are sent.  It is not assumed that a connection which was closed drains.

## 5. The proofs

Eight modules hold theorems.  Each theorem is about every value of the constants its module's
assumptions allow: any number of jobs, nodes, users, calls, files, addresses, any limits and prices.
The assumptions (`SchedulerAssumption`, `CreditsAssumption`, ...) say which sets are finite, which
numbers natural and which markers distinct; TLC evaluates all of them in the runs.  Two theorems have
a hypothesis beyond them, `PatchesAreAtomic` and `PromptsFit`: see there.  The
larger inductive invariants were checked with TLC as invariants of an instance before they were proved.

All invariants of the passing runs are theorems but one, all action properties and the refinement are,
and what is left to TLC is listed at the end of this section.

`JobSchedulerProofs`:

- `TypesAndLeases`: types and `ActiveIsLeased`, inductive together: what the sweep read has a node
  only because an active row has one.
- `RowMoves` is the lemma the rest builds on: whatever action happens, a row is inserted,
  claimed, progresses, ends, waits again or stays.  `CancelIsFinal` and `ImplementsLease` follow
  by cases over these moves; `OneRowMoves` adds that a step changes one row.
- `WorkAtOneNode`: each step either continues work that exists (`WorkContinues`) or wins a claim
  with a number larger than any in use.
- `EventsAreFenced` needs `ReadsTrail`: what was read is not larger than the row's attempt, and what
  is on the wire not larger than the claim.  An event that matches the row has `attempt =
  job.attempt`, hence `claim >= job.attempt`, and `OneNodePerClaim` gives the other direction.

`ServicesProofs`, credits: `CreditsAreSound`, with `OpenTransactions`: open transactions are on different
users and hold different keys, an inserted key is not committed, and the balance a transaction
computed is still the committed one plus its amount, which is what the row lock gives.
`CreditsImplementLedger`: `Spend` and `GrantCommit` are `Post`, everything else a stutter.

`AgentRunsProofs`:

- `AgentTypes`, `OneRunPerUser`, `OpenRunsAreExecuted` by `RunsInv`, whose `PlaceOK` says which statuses
  a row can have while its execution is at a place (any open one once its failure could not be written,
  `unsaved`), and whose `OneStart`, `CreateAlone` and
  `RegisterOwned` follow a call of `start` from the query to the entry in the map.  `EndingsStay` by
  `RunMoves`; `ShownApprovalsWait`, `RowsTellAnswers` and `ApprovalsStayAgreed` by `ApprovalOK`, which
  relates the row, the entry, the answer and the update on its way, which may fail.
- `AnswersAreHonest` by `LoopInv`: the loop's own counts are true of the folder as long as no sub-agent
  changed it, and what is pending is behind what changed.
- `EventsAreComplete` by `EventsInv`: the numbers of events rise along the log and on into the queue of
  writes (`InOrder`); a stream has sent a beginning of the log and its cursor is at the end of it
  (`HasSent`); while nothing was excused, the transcript of the run's folder is, but for the end marker,
  the first `m` events for some `m`, and no watch of the page is beyond the last of them (`PageShows`).
  A poll therefore asks for no more than what is missing.
- `PromptsFit`: the budget per message and the cut at blocks leave room, for conversations of any
  length and every window.  It rests on what a sum over an end of a sequence is and that longer ends
  cost more (`LongerEnd`), on the search for the longest end that fits (`FitsIs`), and on what a shortened
  message and a digest cost at most.  Its hypothesis `CodesConstants` gives the least share of a message
  (1800), its overhead and the size of a block as they are in the code.  `Roomy` is what the prompt, the
  digest and two messages of the least share may cost, 3195 tokens: above a window of 5891 that is
  within the budget, and below it the prompt may be larger than the budget but not than `Roomy`.

`VerificationProofs`:

- `VerificationTypes`: `VerifyTypeOK` with `ActiveIsLeased`; the credits part rests on lemmas about
  `AtomicLedger` (a posting keeps balances natural and its key new).
- `MoneyIsJustified` and `EligibleIsVerified` by `ResultsInv`.  What an activation read may be
  outdated; what it *knows* is not: `Evidence` says, for each place of `handleCompleted`, `slash` and
  `retroAudit`, what has been produced and posted by then.  Both only grow, so no other activation
  takes it away.  `LastIsStored` connects a row with what was accepted.
- `TrustHasBeenEarned` by `TrustInv`.  `Grounds` says why an activation may graduate a node, pay it on
  trust or do without a reference: the count it read is at most the node's, and it goes on with
  graduation only when its own pass completes the count.  Counts never fall, so a stale one is safe.

`ServicesProofs`:

- `RegistrationIsPaid` by `RegistrationInv`: slots and credits are bounded by how many registrations
  are at the places that hold one; `Counted` says how such a number changes with one of them.
- `EngineIsFaithful` by `EngineInOrder`: while calls do not overlap, one is under way, it polls its
  own child, and the child that is known is the one of a call that spawned it.  A probe is sent and
  answered in two steps; an exit that is noticed between them (`missed`) leaves the engine ready
  without a child, which the property excuses, and no child that the engine does not know.
- `FamiliesRotate` by `FamilyInv`: for each place of `rotate`, which tokens of the family may live.
  Of requests that cross it says nothing.
- `DownloadsAreVerified` by `PartInv`: the one fetch of a part writes to the partial file, which is not
  what is installed, and holds what was received.  `SpareIsLeft`: a new file gets an inode nobody has.
- `MediaKeepApart` by `ImageInv` and `ClipInv`: what goes on is what the slot names, and what was
  deleted has no child that could still make a file; both until a work is ended while its child goes on
  (`late`).

`MachineProofs`:

- `ProcessesHaveAnOwner` by `TerminalInv`, with the count of running sessions.  It is about processes
  that were not told to end, while the API runs.
- `IndexIsNoOlder` by `IndexIsNew` and `CallInv`: what a call owes when it begins it has read when it
  ends; what it has not read yet is there to be read.  An index that was being built while a patch
  ended owes nothing.
- `PatchesAreAtomic` by `PatchInv`, which has a formula for each phase of applying (`Reads`, `Stages`,
  `Moves`, `PutsBack`, `Cleans`, `IsOver`) and of undoing (`Replaces`, `Restored`): files before the next
  one are through, those after it are not.  The theorem assumes `MaxFaults <= 1`, and it must: when
  a second call fails while a file is put back, the clean-up removes the only copy of it, so the
  property is false with two.  Of an undoing it says that it put all back only where no call
  failed: with one that fails it does not hold (`rollback_restores`).
- `AnswersAreWhole` by `AnswerInv`: while an answer comes in, what is queued and what was taken is what
  the node said over the connection that carried the request (`ComesIn`), and what is paid follows the
  lane that was noted (`ToldApart`, `PaidFirst`).
- `ShellTakesAllAlong` by `ShellInv`: what `stopAll` leaves behind is a database that was told to stop and
  ends when it does; nothing is started after it, except by a stack that was still starting (`early`),
  which the property excuses.

`PeerProofs`:

- `CountedIsHeld` by `SlotInv`: a transfer takes a slot and an address that none has (`TakesOne`) and
  gives back its own; the count is the cardinality of those that hold one.  It is not a theorem that
  each of them gives it back: `refusal_is_temporary` shows one that never does.
- `AttachmentIsPolled` by `RelayInv`: a loop that ends lets go of the relay first, or another goes on.
- `ResultsAreEarned` by `HeardInTurn`: at each request of a borrow, which ones were heard before it.
- `DiscoveryIsFirstHand`: `NothingOnHearsay` is inductive: only an answer or an announcement writes.
- `TableIsFirstHand` by `KadInv`: an entry of a bucket is a node that its owner heard from, or at whose
  given address somebody answered it, in the bucket of its distance, and there once.  `SeenAllGood` carries this over the contacts of a whole reply: a
  table that changes for each member of a sequence is good after each beginning of it.
- `IndexStaysBounded` by `BoundInv`: `IndexIsBounded` holds for any number of machines and whatever they
  send: buckets, records and providers of a record, the shortlist of a walk, its queries, rounds
  and open requests.  That the `K` nearest are at most `K` needs that distance orders ids: of two
  ids exactly one is closer to a target (`OneIsCloser`), and closer is transitive (`CloserChain`).
  TLC checked `IndexIsBounded` on the instance of `peers`.

`WebProofs`:

- `SessionIsTheUsers` by `SessionInv`, whose `SessionSafe` holds as long as nothing crossed: one request
  about the session at a time, and the other tabs closed under one that begins or ends it
  (`OneAtATime`, `Asked`); a request of the session carries a token that is `Sound`, live or ended by
  something outside the browser, or its answer brings the next one (`Carried`); every access token that
  a tab, the storage or a request has is `Backed`: of the same user as what renews the session, which is
  there unless that session expired or was reset (`Owned`); after an end in a tab nothing is left
  that renews (`LeftOver`).
- `PageIsItsConversations` by `ChatInv`: `ChatPast` says what cannot be there yet (an answer before it
  was stored, a message before it was sent), and `ChatCalm` what the page shows while it did not
  stray: the rows of the open conversation and, last, the answer that is awaited.

`FilteringProofs`: what `Filter` returns, for every sequence and set (its type, its members, what it
does to `Append`, to a concatenation and to what is filtered already).  The induction it needs comes
from the least-number principle (`LeastNumber`, from `WFMin` and `NatLessThanWellFounded`) and is
stated for a set of numbers in place of a predicate (`Induction`).  `AgentRunsProofs`, `PeerProofs` and
`WebProofs` rest on it.

Only model-checked, and why:

- *liveness* (`AttemptsEnd`, `CancelledStops`, `HungIsReplaced`, `AloneFindsAgain`, `ConnectedIsKnown`):
  fairness and `ENABLED` are beyond the prover;
- `AnnouncedIsFound`: it does not hold for every value of the constants.  Whether a walk meets a record
  depends on `K`, `Alpha`, `MaxRounds` and on how well the first tables are filled; for a `MaxRounds`
  that is small against the number of machines it is false, and a condition on all tables that makes it
  true would assume most of what it says.

## 6. Where the code disagrees with what is said of it

With a run:

- `producer_is_paid`: the class comment says a node is paid iff its result is right.  A late
  failure report can requeue a COMPLETED or VERIFYING row (the same node runs the job
  twice, and the first execution fails after the second succeeded); another node claims it, and
  the verifier, which reads the row's node after its compare-and-set, pays that node's owner.
- `off_is_off`: "Off takes effect at once".  A registration with a relay that is under way when sharing
  is switched off attaches afterwards and starts a loop that serves; and a second switching-on
  loses the reference to the first server, which nothing closes any more.
- `looks_installed_is_whole`: "an interrupted download never leaves a truncated file that looks
  installed".  Two setups of one model open one `.part`; what one hashed is not what it renames.
- `rollback_restores`: when a rename fails while a patch is undone (`agent-patch.service.ts:183`), the
  file that was moved aside is not yet marked as committed, so the catch passes over it (`:202`), and the
  clean-up removes the copy beside it (`:214`): the file is gone, old content and new.  (The same loss,
  some steps later: what was moved aside is removed, at `:186`, before the artifact is saved, at `:188`; when
  that fails, the catch removes every restored file and has nothing to put back.)
- `refusal_is_temporary`: the refusal "not now, try again or try somebody else" (`peer.service.ts:516`) is
  for ever for an address whose transfer waits for a `drain` that a closed connection never sends
  (`:550`), or whose relay job lost its timer when its asker left (`:870`).

The models have the following too, without a run of their own (where a property is named, it is
in the module and false):

*Grid.*  `StakeForfeited`: a verification that decided on graduation before another one suspended
the node refunds its stake afterwards and makes it ACTIVE again (`verification.service.ts:290` and
`docs/FEATURES.md:209` say otherwise).  A slash and the audit that follows take the rewards of
the same jobs twice (`:236`, `:321`, `:506`).  `ConnectedIsReachable`: a hello that ends after the
close of its connection leaves a node known but not reachable (`node-gateway.service.ts:300`).
`DisabledIsDisabled`: a hello under way re-enables a node that its owner just disabled (`:240`).

*Agent.*  `InterruptedIsStopped`: the sweep writes INTERRUPTED to a run whose tool took longer than
`AGENT_STALE_RUN_MINUTES`; it goes on beside the execution that resumes it (`agent-run.service.ts:66`).
Sub-agents change files without any gate, and the counters of their parent do not move
(`agent-orchestrator.service.ts:368`); a third identical `verify_project` is blocked and counted as a
failure; commands and processes count as no change.  A user's edit between the read and the rename of a
patch is lost (`beforeHash` is not used); a second failure while a failed patch is put back removes the
only copy.  `move_path`, `delete_path`, `run_command` and processes never invalidate the index, which
is believed for 30 s; an index under way when a patch ends keeps what it read before; `append_file`
reads before it takes its turn; nested folders have indexes of their own.  Processes are stopped when a
run is cancelled, not when it ends; one whose start is under way then is spawned after `stopRun`; on
POSIX the signal goes to the shell alone, against "Stop a managed process and its child process tree."
(`agent-tools.service.ts:246`); a session is STOPPED before its process is gone.  `onModuleDestroy`
would stop all of them when the API ends, but it never runs, since `main.ts` neither enables shutdown
hooks nor closes the application: they outlive it.  `RestoresWhatWasThere`: a file is read as UTF-8
(`agent-patch.service.ts:331`), which is lossy for one that is not; the checkpoint has the decoded
text, and undoing writes that.  `InputBudgetHolds`: "estimatedTokens never exceeds the input budget
after compilation" (`scripts/context-test.ts:156`), but no message is shortened below 1800 characters
(`agent-context.service.ts:139`) and no budget is below 2048 tokens (`:115`): with a window of 2048 to
5891 tokens the parts that are always kept are more than the budget, and a model of 4096 gets more than
it has room for; a registry row of 2048 gets the whole window as its input.  When the row of a new run
cannot be changed to FAILED (`agent-orchestrator.service.ts:801`), it stays open without an execution,
and every start returns it: until the sweep, and if it is PENDING, until a restart.  When the update of
an approval fails (`agent-approval.service.ts:45`, `:95`), its row stays PENDING and the page goes on
asking.

*Agent page.*  Switching folders under a watch writes the run's events into the other folder's transcript
(`page.tsx:387`); a failure is told twice; the last events may be missed; a trimmed transcript gets old
events again on a reload; events beyond the first thousand are never shown.

*Chat.*  `CreditsPayForService`: "Credits pay for OTHER PEOPLE's hardware" (`chat.controller.ts:87`),
but a picture is priced by a plan that names a node (`:360`) and answered by a local engine (`:389`).
A node that fails before its first word is charged in full for the mock's reply; the balance is read
long before it is spent, and a stop between storing, paying and rewarding leaves the rest undone;
`infer.controller.ts:85` and `:87` and `meterNetwork` use one reference for the charge and the reward,
so that the reward is taken for a repetition, and a repeated `idempotencyKey` is answered for nothing;
`streamLargeFile` never rewards its node; an agent that falls back to a local model in mid-run does not
bill what the node served.  On the page, `patch(idx)` writes a stream into the conversation that is
open by then; loads may arrive out of order, and one in flight wipes a message just sent; a first
message that fails after its conversation was made leaves the next one to make another; the end of a
new conversation's answer pulls the user back to it; a charge that fails after the answer was stored
shows an error for it.  A question about a new file is answered from any document of the conversation.

*Accounts.*  Two requests with one refresh token, or a refresh that crosses a logout, may leave two
live tokens, or one after the logout: the rotation is two statements where a comment says "atomically"
(`refresh-token.service.ts:78`).  Two 401s refresh together, and the reuse detection then ends the
session (`web/lib/api.ts:120`, `:179`).  `SingleUse`: two requests may use one mailed token
(`auth-token.service.ts:10`).  Changing the password revokes no session.  The refresh cookie is cleared
without the domain it was set with (`auth.controller.ts:57`).  A session that expired, or was revoked
by a reset, goes on being shown until the tab asks for something; an account that was disabled gets
403, which signs nobody out.  A logout whose request is lost leaves a live cookie, and a reload signs
in again; another tab keeps its token; the desktop's layout asks once where it says it keeps asking.

*Peers.*  `OnlyNodesThatAnsweredUs`: "only nodes that answered us enter the routing table"
(`kad.ts:32`), but `locate` asks the address in a record with a `HEAD` and enters the machine that the
record names, whoever answered (`peer.service.ts:3079`).  `WithinComputeSlots`: the limit is read
before the body and the count incremented after it (`:1689`, `:1744`).  Checks of an answer are never
noted as given (`:2165`).  A blocked peer returns with its next announcement (`:605`).  Gossip is
bounded per answer, not in depth.  A relayed peer can never be located: `relayInfo()` is not called,
records carry no `via` (`kad.ts:344`), and `HEAD /peer/blob/…?via=` is answered 404 (`:1057`, `:3064`).
A renewal interval that is overwritten is never cleared and goes on joining (`:330`; `strayed` in
`PeerSharing`).

*Machine.*  `LendsWhatRuns`: a model announced to peers is not always the one that answers.  Where a
kill is not immediate, or two starts overlap, the engine announces one model and runs another; an exit
that is noticed while the last probe is awaited (`llama-engine.service.ts:630`) leaves it ready without
a process until it is stopped. `StackKeepsGoing`: a window that refuses to close cancels quitting after
everything was stopped (`main.js:1158`).  `stopAll` tells the database to stop and does not wait
(`main.js:1149`); a quit while the stack starts does not end `startStack`, which goes on to start what
was just stopped, and the processes of `initdb`, migrations and seeding are in no list.  (`ollama` is
started detached and left running on purpose, `main.js:1046`.)  A crash between `initdb` and the first
migration never seeds.  A picture whose timer fired goes on, and its end frees the slot of the next
one, so that two run and a deleted one returns (`image.controller.ts:477`); pictures that were running
stay "running" after a restart; a clip's recovery may write over a newer state
(`video.controller.ts:396`).  The model index of `provider-resolver` is not invalidated when the
bundled engine starts; the models page stops polling once the engine is up, though its comment says it
also asks on focus (`models/page.tsx:420`).  A picture whose child cannot be spawned is ended twice, by
`error` and by `close` (`image.controller.ts:481`), with the same effect as its timer.

## 7. What is left out

- *Inside the modelled parts*: the order of candidates by reputation (any may be chosen), filters by
  region, GPU and price (the constant `Suitable`), the sampling probability, the numeric comparison of
  outputs, timestamps other than "passed or not", queries that only read, audit and log rows,
  telemetry; keys, signatures and the router's protocols of the peer service; what a command
  writes and the pages a tool fetches; what `stat_path` tells of a file (it is a look without the guard
  `fsEnabled`); steps and artifacts of a run; which engine a plan chooses.  The status of an account is
  external, since nothing in the repository writes it; an account that is deleted on another device, and a
  second launch of the desktop beside what an early quit left, are not followed.  Peers are assumed to
  give their own name in an unsigned answer (`peer.service.ts:1288`), and `AnnouncedIsFound` claims
  nothing once a machine leaves its address.
- *Pages that only poll*: models, media, jobs, network; the index of `provider-resolver`.
- *Compute*: prompt assembly, knowledge retrieval and its pages, review prompts, classifiers, catalogues.
- *Not modelled*: forum, projects, mail, audit, compliance, admin, health, the landing page and
  deployment scripts (single-statement operations, user interface, I/O).  `PROJECT.json` gives the reason
  for each.

## 8. The plan

Done: the modules of section 2, the runs of section 3 and the theorems of section 5.  Left, in order:

1. `Accounts` as a refinement, while requests do not overlap: a family is a register with one owner.
2. The request router of the peer service (keys and signatures as markers), which would close the
   hazard that has no property: the count of running prompts is read before the body and
   incremented after it (`peer.service.ts:1689`).
3. The models page as a second reader of the local engine, with `provider-resolver`'s index.
4. A condition on tables under which `AnnouncedIsFound` can be proved without assuming it.
