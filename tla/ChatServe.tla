------------------------------ MODULE ChatServe ------------------------------
(***************************************************************************)
(* Answers to a prompt and their price: the chat's stream, its large files  *)
(* and its pictures (chat.controller.ts), the inference a desktop relays    *)
(* (infer.controller.ts), and the node that serves them over the gateway    *)
(* (realtime-node.provider.ts, realtime-pool.service.ts, proxyRealtime of   *)
(* agent.go).                                                              *)
(*                                                                         *)
(* One user with one conversation, and one node of another owner.  The text *)
(* of an answer is a number of words and who spoke them.  A turn reads the  *)
(* balance long before it spends, and the conversation may be deleted, the  *)
(* node may go and the API may stop between any two of its steps.           *)
(***************************************************************************)
EXTENDS Integers

CONSTANTS
  Turns,      \* requests
  Words,      \* words of a node's answer
  FileParts,  \* calls that a large file takes: its parts and the last one
  Price,      \* estCredits of a chat turn
  Savings,    \* the user's first balance
  InferRefs,  \* idempotency keys that the callers of /ai/infer choose
  MeterLocal  \* NEURION_METER_LOCAL

ASSUME ChatAssumption ==
  /\ Words \in Nat \ {0} /\ FileParts \in Nat \ {0, 1}
  /\ Price \in Nat \ {0} /\ Savings \in Nat
  /\ MeterLocal \in BOOLEAN

VARIABLES
  conversation, \* the conversation exists
  prompt,         \* prompt[t]: the request
  stream,       \* stream[t]: the queue of the node's words, and `done` and `error`
  proxy,        \* proxy[t]: proxyRealtime at the node, and whether its connection still stands
  nodeUp,       \* the node is connected
  savings,      \* User.creditBalance of the user
  earned,       \* credits of the node's owner
  refs,         \* CreditLedger.idempotencyKey
  charged,      \* charged[t]: what the user paid for the turn
  rewarded      \* rewarded[t]: what the owner got for it

moneyVars == <<savings, earned, refs, charged, rewarded>>
chatVars == <<conversation, prompt, stream, proxy, nodeUp, savings, earned, refs, charged, rewarded>>

-----------------------------------------------------------------------------
Kinds == {"chat", "file", "vision", "infer"}
Authors == {"node", "local", "mock"}
Quiet == [queue |-> 0, over |-> "no"]
NoProxy == [pc |-> "none", said |-> 0, wired |-> FALSE]
NewTurn == [pc |-> "new", kind |-> "chat", lane |-> "FALLBACK", cost |-> 0, ref |-> "own",
            by |-> "local", left |-> 1, got |-> 0, heard |-> {}, route |-> "none"]

ChatInit ==
  /\ conversation = TRUE
  /\ prompt = [t \in Turns |-> NewTurn]
  /\ stream = [t \in Turns |-> Quiet]
  /\ proxy = [t \in Turns |-> NoProxy]
  /\ nodeUp \in BOOLEAN
  /\ savings = Savings /\ earned = 0 /\ refs = {}
  /\ charged = [t \in Turns |-> 0]
  /\ rewarded = [t \in Turns |-> 0]

OnStep(t, s) == prompt[t].pc = s
TurnTo(t, s) == prompt' = [prompt EXCEPT ![t].pc = s]
EndTurn(t) == TurnTo(t, "ended")
KeepMoney == UNCHANGED moneyVars
KeepNode == UNCHANGED <<stream, proxy, nodeUp>>

-----------------------------------------------------------------------------
(* The request *)

\* billable: credits pay for a node's work; local work only where the deployment meters it.
Billable(lane) == IF MeterLocal \/ lane = "FAST" THEN Price ELSE 0

\* plan: a warm node that has the model and is trusted enough serves a request that is not
\* heavy; else a local engine does.  A picture is planned likewise and answered locally.
PlanTurn(t) ==
  /\ OnStep(t, "new")
  /\ \/ \E kind \in {"chat", "file", "vision"}, lane \in {"FAST", "FALLBACK"} :
          /\ lane = "FAST" => nodeUp
          /\ prompt' = [prompt EXCEPT
               ![t] = [NewTurn EXCEPT
                 !.pc = IF conversation THEN "check" ELSE "ended",
                 !.kind = kind, !.lane = lane, !.cost = Billable(lane),
                 !.by = IF lane = "FAST" /\ kind # "vision" THEN "node" ELSE "local",
                 !.left = IF kind = "file" THEN FileParts ELSE 1]]
     \/ \E ref \in InferRefs \cup {"own"} :
          prompt' = [prompt EXCEPT
            ![t] = [NewTurn EXCEPT
              !.pc = IF nodeUp THEN "ask" ELSE "ended",
              !.kind = "infer", !.lane = "FAST", !.cost = 1, !.by = "node", !.ref = ref]]
  /\ UNCHANGED conversation /\ KeepNode /\ KeepMoney

\* The balance is compared with the estimate, and the question is stored.
CheckBalance(t) ==
  /\ OnStep(t, "check")
  /\ TurnTo(t, IF savings < prompt[t].cost THEN "ended" ELSE "question")
  /\ UNCHANGED conversation /\ KeepNode /\ KeepMoney

AddQuestion(t) ==
  /\ OnStep(t, "question")
  /\ TurnTo(t, IF conversation THEN "ask" ELSE "ended")
  /\ UNCHANGED conversation /\ KeepNode /\ KeepMoney

\* buildContext fails without its conversation; streamChat listens and sends the request.
Ask(t) ==
  /\ OnStep(t, "ask")
  /\ UNCHANGED <<conversation, nodeUp>> /\ KeepMoney
  /\ \/ /\ ~conversation /\ prompt[t].kind # "infer" /\ prompt[t].left = 1
        /\ EndTurn(t) /\ UNCHANGED <<stream, proxy>>
     \/ /\ conversation \/ prompt[t].kind = "infer" \/ prompt[t].left > 1
        /\ prompt' = [prompt EXCEPT ![t].pc = "stream", ![t].got = 0, ![t].heard = {}]
        /\ IF prompt[t].by = "node"
           THEN /\ proxy' = [proxy EXCEPT
                     ![t] = IF nodeUp THEN [pc |-> "speaks", said |-> 0, wired |-> TRUE] ELSE NoProxy]
                /\ stream' = [stream EXCEPT ![t] = [queue |-> 0, over |-> IF nodeUp THEN "no" ELSE "error"]]
           ELSE UNCHANGED <<stream, proxy>>

-----------------------------------------------------------------------------
(* The node *)

\* Broken variant (mutation check): an agent that dials again goes on over the new connection.
HeardAgain(t) == nodeUp

\* An event reaches the stream if the connection that carried the request still stands.
Heard(t) == proxy[t].wired

\* proxyRealtime sends a word of the backend.
NodeSpeaks(t) ==
  /\ OnStep(t, "stream") /\ proxy[t].pc = "speaks" /\ proxy[t].said < Words
  /\ proxy' = [proxy EXCEPT ![t].said = @ + 1]
  /\ stream' = IF Heard(t) THEN [stream EXCEPT ![t].queue = @ + 1] ELSE stream
  /\ UNCHANGED <<conversation, prompt, nodeUp>> /\ KeepMoney

\* It says that the answer is over, or that its backend failed.
NodeEnds(t) ==
  /\ OnStep(t, "stream") /\ proxy[t].pc = "speaks"
  /\ proxy' = [proxy EXCEPT ![t].pc = "ended"]
  /\ \E over \in (IF proxy[t].said = Words THEN {"done"} ELSE {}) \cup {"error"} :
       stream' = IF ~Heard(t) THEN stream
                 ELSE [stream EXCEPT ![t].over = IF @ = "error" THEN @ ELSE over]
  /\ UNCHANGED <<conversation, prompt, nodeUp>> /\ KeepMoney

\* The node's connection breaks: the gateway tells no stream of it.  The agent dials again with
\* a new connection; what still speaks has only the old one.
NodeGoes ==
  /\ nodeUp
  /\ nodeUp' = FALSE
  /\ proxy' = [t \in Turns |-> [proxy[t] EXCEPT !.wired = FALSE]]
  /\ UNCHANGED <<conversation, prompt, stream>> /\ KeepMoney

NodeReturns ==
  /\ ~nodeUp
  /\ nodeUp' = TRUE
  /\ UNCHANGED <<conversation, prompt, stream, proxy>> /\ KeepMoney

\* The timer of the stream, or the chat's abort signal when its reader has gone.
StreamGivesUp(t) ==
  /\ OnStep(t, "stream") /\ prompt[t].by = "node" /\ stream[t].over = "no"
  /\ stream' = [stream EXCEPT ![t].over = "error"]
  /\ UNCHANGED <<conversation, prompt, proxy, nodeUp>> /\ KeepMoney

-----------------------------------------------------------------------------
(* The answer *)

TakeWord(t) ==
  /\ OnStep(t, "stream") /\ stream[t].queue > 0
  /\ stream' = [stream EXCEPT ![t].queue = @ - 1]
  /\ prompt' = [prompt EXCEPT ![t].got = @ + 1, ![t].heard = @ \cup {"node"}]
  /\ UNCHANGED <<conversation, proxy, nodeUp>> /\ KeepMoney

\* What follows a call that ended: the next part of a file, the row of the answer, or the bill
\* of a relayed inference.
Called(turn, by, heard) ==
  [turn EXCEPT !.by = by, !.heard = heard, !.left = turn.left - 1,
     !.pc = IF turn.kind = "infer" THEN "bill" ELSE IF turn.left > 1 THEN "ask" ELSE "store"]
AfterCall(t, by, heard) == [prompt EXCEPT ![t] = Called(prompt[t], by, heard)]

\* Broken variant (mutation check): the mock goes on where the node stopped.
FallsBackAnyway(t) == prompt[t].kind \in {"chat", "file"}

\* A call that failed: the mock answers in its place when a chat has no word yet, or for a
\* part of a file and all that follow; what failed otherwise ends the turn.
FallsBack(t) == \/ prompt[t].kind = "chat" /\ prompt[t].heard = {}
                \/ prompt[t].kind = "file" /\ prompt[t].left > 1

CallFails(t) ==
  IF FallsBack(t) THEN AfterCall(t, "mock", prompt[t].heard \cup {"mock"})
                  ELSE [prompt EXCEPT ![t].pc = "ended"]

\* From here on nobody hears the node of this call.
ListenersOff(t) ==
  /\ stream' = [stream EXCEPT ![t] = Quiet]
  /\ proxy' = [proxy EXCEPT ![t] = NoProxy]

\* Broken variant (mutation check): `done` is looked at before the queue.
CallOver(t) ==
  /\ OnStep(t, "stream") /\ prompt[t].by = "node" /\ stream[t].over # "no"
  /\ prompt' = IF stream[t].over = "done" THEN AfterCall(t, "node", prompt[t].heard) ELSE CallFails(t)
  /\ ListenersOff(t)
  /\ UNCHANGED <<conversation, nodeUp>> /\ KeepMoney

\* The loop of streamChat leaves with an empty queue, and throws what went wrong.
CallEnds(t) ==
  /\ OnStep(t, "stream") /\ prompt[t].by = "node" /\ stream[t].queue = 0 /\ stream[t].over # "no"
  /\ prompt' = IF stream[t].over = "done" THEN AfterCall(t, "node", prompt[t].heard) ELSE CallFails(t)
  /\ ListenersOff(t)
  /\ UNCHANGED <<conversation, nodeUp>> /\ KeepMoney

\* A local engine answers, or fails before or after its first word.  The mock always answers.
LocalCall(t) ==
  /\ OnStep(t, "stream") /\ prompt[t].by # "node"
  /\ \/ prompt' = AfterCall(t, prompt[t].by, {prompt[t].by})
     \/ /\ prompt[t].by = "local"
        /\ prompt' = CallFails(t)
     \/ /\ prompt[t].by = "local" /\ prompt[t].kind # "file"
        /\ EndTurn(t)
  /\ UNCHANGED conversation /\ KeepNode /\ KeepMoney

\* addAssistantMessage: the row says which lane served, the plan's only if the plan's provider
\* did.  It fails when the conversation was deleted.
Store(t) ==
  /\ OnStep(t, "store")
  /\ prompt' = [prompt EXCEPT ![t] = [@ EXCEPT
       !.pc = IF conversation THEN "pay" ELSE "ended",
       !.route = IF ~conversation THEN "none"
                 ELSE IF prompt[t].by = "node" THEN "FAST" ELSE "FALLBACK"]]
  /\ UNCHANGED conversation /\ KeepNode /\ KeepMoney

-----------------------------------------------------------------------------
(* The price *)

Charge(t, amount) ==
  /\ savings' = savings - amount
  /\ charged' = [charged EXCEPT ![t] = @ + amount]

\* spend throws when the balance no longer covers the price: the reader keeps the answer.
Pay(t) ==
  /\ OnStep(t, "pay")
  /\ IF savings >= prompt[t].cost
     THEN /\ Charge(t, prompt[t].cost)
          /\ TurnTo(t, CASE prompt[t].kind # "chat" -> "ended"
                         [] prompt[t].by = "local" /\ prompt[t].cost > 0 -> "reconcile"
                         [] OTHER -> "reward")
     ELSE EndTurn(t) /\ UNCHANGED <<savings, charged>>
  /\ UNCHANGED <<conversation, earned, refs, rewarded>> /\ KeepNode

\* An engine that reports its tokens: the difference to the estimate is given back, or charged
\* if the balance allows.
Reconcile(t) ==
  /\ OnStep(t, "reconcile")
  /\ \E actual \in 1 .. Price + 1 :
       IF savings >= actual - Price THEN Charge(t, actual - Price)
                                    ELSE UNCHANGED <<savings, charged>>
  /\ TurnTo(t, "reward")
  /\ UNCHANGED <<conversation, earned, refs, rewarded>> /\ KeepNode

Grant(t) ==
  /\ earned' = earned + 1
  /\ rewarded' = [rewarded EXCEPT ![t] = @ + 1]

\* Broken variant (mutation check): whoever answered, the node of the plan is rewarded.
ServedAsPlanned(t) == prompt[t].lane = "FAST"

\* rewardRealtimeServe, for an answer that came from the plan's node; its failure is ignored.
ServedByNode(t) == prompt[t].by = "node" /\ prompt[t].got > 0

Reward(t) ==
  /\ OnStep(t, "reward")
  /\ EndTurn(t)
  /\ \/ ServedByNode(t) /\ Grant(t)
     \/ UNCHANGED <<earned, rewarded>>
  /\ UNCHANGED <<conversation, savings, refs, charged>> /\ KeepNode

\* /ai/infer: both movements carry the same reference, of the caller or of this call alone, and
\* the ledger takes a reference once.  What fails is ignored, and the caller is told `done`.
RefOf(t) == IF prompt[t].ref = "own" THEN <<"own", t>> ELSE <<"given", prompt[t].ref>>

Bill(t) ==
  /\ OnStep(t, "bill")
  /\ TurnTo(t, "grant")
  /\ IF savings >= prompt[t].cost /\ RefOf(t) \notin refs
     THEN Charge(t, prompt[t].cost) /\ refs' = refs \cup {RefOf(t)}
     ELSE UNCHANGED <<savings, charged, refs>>
  /\ UNCHANGED <<conversation, earned, rewarded>> /\ KeepNode

RewardServe(t) ==
  /\ OnStep(t, "grant")
  /\ TurnTo(t, "told")
  /\ IF RefOf(t) \in refs THEN UNCHANGED <<earned, rewarded, refs>>
                          ELSE Grant(t) /\ refs' = refs \cup {RefOf(t)}
  /\ UNCHANGED <<conversation, savings, charged>> /\ KeepNode

-----------------------------------------------------------------------------

\* removeConversation deletes the messages with it.
RemoveConversation ==
  /\ conversation
  /\ conversation' = FALSE
  /\ UNCHANGED prompt /\ KeepNode /\ KeepMoney

\* The API stops: its requests are lost where they are, and the node with its connection.
ApiStops ==
  /\ \E t \in Turns : prompt[t].pc \notin {"new", "ended", "told"}
  /\ prompt' = [t \in Turns |-> IF prompt[t].pc \in {"new", "told"} THEN prompt[t]
                                ELSE [prompt[t] EXCEPT !.pc = "ended"]]
  /\ nodeUp' = FALSE
  /\ proxy' = [t \in Turns |-> NoProxy]
  /\ stream' = [t \in Turns |-> Quiet]
  /\ UNCHANGED conversation /\ KeepMoney

TurnNext(t) ==
  \/ PlanTurn(t) \/ CheckBalance(t) \/ AddQuestion(t) \/ Ask(t)
  \/ NodeSpeaks(t) \/ NodeEnds(t) \/ StreamGivesUp(t)
  \/ TakeWord(t) \/ CallEnds(t) \/ LocalCall(t) \/ Store(t)
  \/ Pay(t) \/ Reconcile(t) \/ Reward(t) \/ Bill(t) \/ RewardServe(t)

ChatNext == (\E t \in Turns : TurnNext(t)) \/ NodeGoes \/ NodeReturns \/ RemoveConversation \/ ApiStops

ChatSpec == ChatInit /\ [][ChatNext]_chatVars

-----------------------------------------------------------------------------
(* Properties *)

\* Types of the variables of ChatServe.
ChatTypeOK ==
  /\ conversation \in BOOLEAN /\ nodeUp \in BOOLEAN
  /\ \A t \in Turns :
       /\ prompt[t].kind \in Kinds /\ prompt[t].by \in Authors /\ prompt[t].heard \subseteq Authors
       /\ prompt[t].got \in 0 .. Words /\ stream[t].queue \in 0 .. Words
       /\ stream[t].over \in {"no", "done", "error"} /\ proxy[t].said \in 0 .. Words
       /\ charged[t] \in Nat /\ rewarded[t] \in {0, 1}
  /\ savings \in Nat /\ earned \in Nat

\* An answer that is stored, or that a relaying desktop is told is done, is one author's: all
\* the words of the node that served it, in spite of broken connections, timers and late words,
\* or none of them, and the lane that is noted with it says which.  A chat rewards the node for
\* its own whole answer, once the user has paid for it.
AnswerIsWhole ==
  \A t \in Turns :
    /\ prompt[t].route = "FAST" \/ prompt[t].pc = "told" =>
         prompt[t].heard = {"node"} /\ prompt[t].got = Words
    /\ prompt[t].route = "FALLBACK" => "node" \notin prompt[t].heard
    /\ rewarded[t] > 0 /\ prompt[t].kind = "chat" =>
         prompt[t].route = "FAST" /\ charged[t] = prompt[t].cost

\* "Credits pay for OTHER PEOPLE's hardware": once a request is over, its user was charged only
\* if the owner of a node was rewarded for it.
CreditsPayForService ==
  \A t \in Turns : prompt[t].pc \in {"ended", "told"} /\ charged[t] > 0 => rewarded[t] > 0
=============================================================================
