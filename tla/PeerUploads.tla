----------------------------- MODULE PeerUploads -----------------------------
(***************************************************************************)
(* Uploads of a peer (peer.service.ts): models sent from its own disk and   *)
(* models passed on for peers behind a closed door.  Both take an upload    *)
(* slot and the address they go to; both give them back when they end.      *)
(*                                                                         *)
(* A relayed transfer is a job: whoever asked holds a response open, the    *)
(* job waits for the relayed peer to poll, and the relayed peer then sends  *)
(* the bytes in a request of its own.  Connections may drop at any step.    *)
(***************************************************************************)
EXTENDS Integers, FiniteSets, Sequences

CONSTANTS
  Askers,     \* addresses that ask for models
  Relayed,    \* peers that cannot be reached and ask this one to answer for them
  Transfers,  \* transfer ids (bound); those of relayed transfers are job ids
  MaxSlots,   \* the largest limit the owner sets (bound; 50 in the code)
  MaxSeats,   \* relay seats (32 in the code)
  MaxQueue,   \* jobs that wait for one relayed peer (8 in the code)
  NoOne       \* no address, no peer

ASSUME UploadsAssumption ==
  /\ MaxSlots \in Nat \ {0} /\ MaxSeats \in Nat \ {0} /\ MaxQueue \in Nat \ {0}
  /\ NoOne \notin Askers \cup Relayed
  /\ IsFiniteSet(Transfers)

VARIABLES
  slots,        \* limits().slots
  uploads,      \* how many transfers are counted
  uploadingTo,  \* the addresses they go to
  stage,        \* stage[t]: where the code that serves transfer t is
  asker,        \* asker[t]: the address transfer t goes to
  open,         \* open[t]: the response of transfer t is not destroyed
  timer,        \* timer[t]: the timer of a relayed transfer is armed
  relayJobs,    \* jobs nobody has delivered or given up
  seats,        \* peers that hold a relay seat
  queue,        \* queue[p]: jobs that wait for p to poll
  waiting,      \* waiting[p]: the parked poll of p
  handed        \* handed[p]: jobs that p was told about and has not answered

xferVars == <<stage, asker, open, timer>>
relayVars == <<relayJobs, seats, queue, waiting, handed>>
uploadVars == <<slots, uploads, uploadingTo, stage, asker, open, timer,
                relayJobs, seats, queue, waiting, handed>>

-----------------------------------------------------------------------------
(* Slots *)

\* A relayed transfer waits for its bytes.  A transfer with bytes to send reads a chunk, is
\* held back by the rate limit, or waits for the socket to drain.
Stages == {"unused", "waiting", "reading", "throttled", "draining", "done"}
Held == {"waiting", "reading", "throttled", "draining"}
Holders == {t \in Transfers : stage[t] \in Held}

Refused(w) == uploads >= slots \/ w \in uploadingTo

Take(t, w, s) ==
  /\ uploads' = uploads + 1
  /\ uploadingTo' = uploadingTo \cup {w}
  /\ asker' = [asker EXCEPT ![t] = w]
  /\ stage' = [stage EXCEPT ![t] = s]
  /\ open' = [open EXCEPT ![t] = TRUE]

\* The end of a transfer closes the response, and that clears the timer.
Return(t) ==
  /\ uploads' = uploads - 1
  /\ uploadingTo' = uploadingTo \ {asker[t]}
  /\ stage' = [stage EXCEPT ![t] = "done"]
  /\ open' = [open EXCEPT ![t] = FALSE]
  /\ timer' = [timer EXCEPT ![t] = FALSE]
  /\ UNCHANGED asker

Unused(t) == stage[t] = "unused"
Goto(t, s) ==
  /\ stage' = [stage EXCEPT ![t] = s]
  /\ UNCHANGED <<uploads, uploadingTo, asker, open, timer>>

UploadsInit ==
  /\ slots \in 1..MaxSlots
  /\ uploads = 0 /\ uploadingTo = {}
  /\ stage = [t \in Transfers |-> "unused"]
  /\ asker = [t \in Transfers |-> NoOne]
  /\ open = [t \in Transfers |-> FALSE]
  /\ timer = [t \in Transfers |-> FALSE]
  /\ relayJobs = {} /\ seats = {}
  /\ queue = [p \in Relayed |-> <<>>]
  /\ waiting = [p \in Relayed |-> "none"]
  /\ handed = [p \in Relayed |-> {}]

\* The owner changes the limit; transfers under way go on.
SetLimits(n) ==
  /\ slots' = n
  /\ UNCHANGED <<uploads, uploadingTo, xferVars, relayVars>>

-----------------------------------------------------------------------------
(* Sending a blob; a request that is refused (503) changes nothing *)

SendBlob(w, t) ==
  /\ Unused(t) /\ ~Refused(w)
  /\ Take(t, w, "reading")
  /\ UNCHANGED <<slots, timer, relayVars>>

\* The next chunk is held back until the rate allows it.
ReadChunk(t) ==
  /\ stage[t] = "reading" /\ open[t]
  /\ Goto(t, "throttled")
  /\ UNCHANGED <<slots, relayVars>>

\* The last chunk ends the transfer; so does an error of the source, or finding the response
\* closed when the next chunk is there.
EndTransfer(t) ==
  /\ stage[t] = "reading"
  /\ Return(t)
  /\ UNCHANGED <<slots, relayVars>>

\* `write` returns FALSE when the buffer is full, and also when the response was closed in
\* the meantime.
WriteChunk(t) ==
  /\ stage[t] = "throttled"
  /\ \/ open[t] /\ Goto(t, "reading")
     \/ Goto(t, "draining")
  /\ UNCHANGED <<slots, relayVars>>

\* A response that is closed emits no `drain`.
Drain(t) ==
  /\ stage[t] = "draining" /\ open[t]
  /\ Goto(t, "reading")
  /\ UNCHANGED <<slots, relayVars>>

\* Whoever asked closes the connection.
AskerLeaves(t) ==
  /\ stage[t] \in Held /\ open[t]
  /\ open' = [open EXCEPT ![t] = FALSE]
  /\ timer' = [timer EXCEPT ![t] = FALSE]
  /\ UNCHANGED <<slots, uploads, uploadingTo, stage, asker, relayVars>>

-----------------------------------------------------------------------------
(* Relaying *)

RelayRegister(p) ==
  /\ p \notin seats /\ Cardinality(seats) < MaxSeats
  /\ seats' = seats \cup {p}
  /\ UNCHANGED <<slots, uploads, uploadingTo, xferVars, relayJobs, queue, waiting, handed>>

\* An answer to a poll reaches the peer or is lost with its connection.
Hand(p, t) ==
  \/ handed' = [handed EXCEPT ![p] = @ \cup {t}]
  \/ UNCHANGED handed

\* A poll takes the oldest job, or is parked in place of the one before.
RelayWait(p) ==
  /\ p \in seats
  /\ IF queue[p] # <<>>
     THEN /\ queue' = [queue EXCEPT ![p] = Tail(@)]
          /\ Hand(p, Head(queue[p]))
          /\ UNCHANGED waiting
     ELSE /\ waiting' = [waiting EXCEPT ![p] = "live"]
          /\ UNCHANGED <<queue, handed>>
  /\ UNCHANGED <<slots, uploads, uploadingTo, xferVars, relayJobs, seats>>

\* The connection of a parked poll drops; the service learns of it, or of the 25 s, later.
PollDrops(p) ==
  /\ waiting[p] = "live"
  /\ waiting' = [waiting EXCEPT ![p] = "gone"]
  /\ UNCHANGED <<slots, uploads, uploadingTo, xferVars, relayJobs, seats, queue, handed>>
PollEnds(p) ==
  /\ waiting[p] # "none"
  /\ waiting' = [waiting EXCEPT ![p] = "none"]
  /\ UNCHANGED <<slots, uploads, uploadingTo, xferVars, relayJobs, seats, queue, handed>>

\* A job wakes the parked poll (in vain if that is gone), or joins a queue that drops its
\* oldest job when it is full.
RelayDispatch(p, t) ==
  LET longer == Append(queue[p], t) IN
  /\ relayJobs' = relayJobs \cup {t}
  /\ IF waiting[p] # "none"
     THEN /\ waiting' = [waiting EXCEPT ![p] = "none"]
          /\ IF waiting[p] = "live" THEN Hand(p, t) ELSE UNCHANGED handed
          /\ UNCHANGED queue
     ELSE /\ queue' = [queue EXCEPT ![p] = IF Len(longer) > MaxQueue THEN Tail(longer) ELSE longer]
          /\ UNCHANGED <<waiting, handed>>

RelayFetch(w, p, t) ==
  /\ Unused(t) /\ p \in seats /\ ~Refused(w)
  /\ Take(t, w, "waiting")
  /\ timer' = [timer EXCEPT ![t] = TRUE]
  /\ RelayDispatch(p, t)
  /\ UNCHANGED <<slots, seats>>

\* Broken variant (mutation check): the timer returns the slot of a job that was delivered, too.
RelayTimeoutUnchecked(t) ==
  /\ timer[t]
  /\ IF t \in relayJobs
     THEN Return(t) /\ relayJobs' = relayJobs \ {t}
     ELSE /\ uploads' = uploads - 1 /\ uploadingTo' = uploadingTo \ {asker[t]}
          /\ timer' = [timer EXCEPT ![t] = FALSE]
          /\ UNCHANGED <<stage, asker, open, relayJobs>>
  /\ UNCHANGED <<slots, seats, queue, waiting, handed>>

\* 60 s without a delivery: the asker is answered 504.
RelayTimeout(t) ==
  /\ timer[t]
  /\ IF t \in relayJobs
     THEN Return(t) /\ relayJobs' = relayJobs \ {t}
     ELSE /\ timer' = [timer EXCEPT ![t] = FALSE]
          /\ UNCHANGED <<uploads, uploadingTo, stage, asker, open, relayJobs>>
  /\ UNCHANGED <<slots, seats, queue, waiting, handed>>

\* The relayed peer sends the bytes of a job (404 if the job is no longer known)...
RelayDeliver(p, t) ==
  /\ t \in handed[p]
  /\ handed' = [handed EXCEPT ![p] = @ \ {t}]
  /\ IF t \in relayJobs
     THEN relayJobs' = relayJobs \ {t} /\ Goto(t, "reading")
     ELSE UNCHANGED <<uploads, uploadingTo, xferVars, relayJobs>>
  /\ UNCHANGED <<slots, seats, queue, waiting>>

\* ... or does not: it has no such file, or it is gone.
RelayIgnore(p, t) ==
  /\ t \in handed[p]
  /\ handed' = [handed EXCEPT ![p] = @ \ {t}]
  /\ UNCHANGED <<slots, uploads, uploadingTo, xferVars, relayJobs, seats, queue, waiting>>

-----------------------------------------------------------------------------
ServeChunk(t) == ReadChunk(t) \/ EndTransfer(t) \/ WriteChunk(t) \/ Drain(t)
RelayNext(p) ==
  \/ RelayRegister(p) \/ RelayWait(p) \/ PollDrops(p) \/ PollEnds(p)
  \/ \E t \in Transfers : RelayDeliver(p, t) \/ RelayIgnore(p, t)

UploadsNext ==
  \/ \E n \in 1..MaxSlots : SetLimits(n)
  \/ \E t \in Transfers : ServeChunk(t) \/ AskerLeaves(t) \/ RelayTimeout(t)
  \/ \E w \in Askers, t \in Transfers : SendBlob(w, t) \/ \E p \in Relayed : RelayFetch(w, p, t)
  \/ \E p \in Relayed : RelayNext(p)

UploadsSpec == UploadsInit /\ [][UploadsNext]_uploadVars

\* Files end, sockets that are read drain, timers fire.  Nothing is assumed of relayed peers.
UploadsFairness ==
  \A t \in Transfers :
    /\ WF_uploadVars(WriteChunk(t)) /\ WF_uploadVars(Drain(t))
    /\ SF_uploadVars(EndTransfer(t)) /\ WF_uploadVars(RelayTimeout(t))
UploadsFairSpec == UploadsSpec /\ UploadsFairness

-----------------------------------------------------------------------------
(* Properties *)

\* Types of the variables of PeerUploads: counters within their bounds, queues no longer
\* than the code allows, a response and a timer only for transfers that have begun.
UploadsTypeOK ==
  /\ slots \in 1..MaxSlots
  /\ uploads \in Nat /\ uploadingTo \subseteq Askers
  /\ stage \in [Transfers -> Stages]
  /\ asker \in [Transfers -> Askers \cup {NoOne}]
  /\ open \in [Transfers -> BOOLEAN] /\ timer \in [Transfers -> BOOLEAN]
  /\ relayJobs \subseteq Transfers
  /\ seats \subseteq Relayed
  /\ queue \in [Relayed -> Seq(Transfers)] /\ \A p \in Relayed : Len(queue[p]) <= MaxQueue
  /\ waiting \in [Relayed -> {"none", "live", "gone"}]
  /\ handed \in [Relayed -> SUBSET Transfers]
  /\ \A t \in Transfers : stage[t] \in Held => asker[t] \in Askers

\* What is counted is what is held: deliveries, timers, departures, lost polls and dropped jobs
\* return no slot twice and none that another transfer holds, and a relay job whose asker is still
\* there has the timer that gives it up.  (That a slot is returned in the end it does not say: see
\* RefusalIsTemporary.)
SlotsAreHeld ==
  /\ uploads = Cardinality(Holders)
  /\ uploadingTo = {asker[t] : t \in Holders}
  /\ \A t, u \in Holders : asker[t] = asker[u] => t = u
  /\ relayJobs = {t \in Transfers : stage[t] = "waiting"}
  /\ \A t \in relayJobs : open[t] => timer[t]

\* "being told \"not now, try again or try somebody else\" is honest": an address that is refused
\* because a transfer to it is under way can be served later.  It is not so: a transfer whose asker
\* left while it waited for `drain`, or for the relayed peer, keeps its slot and its address.
RefusalIsTemporary == \A w \in Askers : (w \in uploadingTo) ~> (w \notin uploadingTo)
=============================================================================
