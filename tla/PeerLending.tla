----------------------------- MODULE PeerLending -----------------------------
(***************************************************************************)
(* Lent and borrowed compute (peer.service.ts): a machine answers or checks *)
(* a prompt for another with the model it has loaded, and a machine that    *)
(* cannot run a model has one peer write an answer and a second one check   *)
(* it, or write one too.  Both sides keep a ledger of favours.              *)
(*                                                                         *)
(* A borrow makes at most four requests, one after the other.  Whoever      *)
(* borrows may give up a request that the lender is still working on.       *)
(***************************************************************************)
EXTENDS Integers, FiniteSets, SequencesExt

CONSTANTS
  Machines,      \* peers
  Borrows,       \* calls of borrow (bound)
  Borrower,      \* Borrower[b]: the machine that makes call b
  ComputeSlots,  \* computeSlots(): 1 to 8, 2 unless set
  Asked,         \* the model the borrows are about
  OtherModel     \* another one, or none

ASSUME LendingAssumption ==
  /\ Borrower \in [Borrows -> Machines]
  /\ ComputeSlots \in 1..8
  /\ Asked # OtherModel

VARIABLES
  lends,     \* lends[m]: compute sharing is switched on at m
  loaded,    \* loaded[m]: the model m has loaded (runningModel)
  running,   \* running[m]: prompts that m counts as being run for others
  given,     \* given[m][a]: answers m noted to have given to a
  received,  \* received[a][m]: favours a noted to have received from m
  request,   \* request[b][k]: request k of borrow b, as its handler at the lender sees it
  borrow     \* borrow[b]: where borrow b is, whom it asks, what it heard

lenderVars == <<lends, loaded, running, given>>
lendingVars == <<lends, loaded, running, given, received, request, borrow>>

-----------------------------------------------------------------------------
(* The requests of a borrow: an answer of the first candidate; a check of its opening, and   *)
(* of a later window, by the second; an answer of the second.                                *)

\* `pc` is the request that a borrow awaits, or one of these two.
Idle == 0
Done == 5

First == 1
Opening == 2
Later == 3
Second == 4
Kinds == First..Second
Writes(k) == k \in {First, Second}

Lender(b, k) == borrow[b].cand[IF k = First THEN 1 ELSE 2]
HandlerStages == {"none", "sent", "reading", "working", "answered", "failed"}
Results == {"verified", "identical", "agreed", "disagreed", "single", "nothing"}
NoBorrow == [pc |-> Idle, cand |-> <<>>, heard |-> {}, ok |-> {}, result |-> "nothing"]

SetStage(b, k, s) == request' = [request EXCEPT ![b][k] = s]

LendingInit ==
  /\ lends \in [Machines -> BOOLEAN]
  /\ loaded \in [Machines -> {Asked, OtherModel}]
  /\ running = [m \in Machines |-> 0]
  /\ given = [m \in Machines |-> [a \in Machines |-> 0]]
  /\ received = [a \in Machines |-> [m \in Machines |-> 0]]
  /\ request = [b \in Borrows |-> [k \in Kinds |-> "none"]]
  /\ borrow = [b \in Borrows |-> NoBorrow]

-----------------------------------------------------------------------------
(* The lender *)

SetCompute(m, on) ==
  /\ lends' = [lends EXCEPT ![m] = on]
  /\ UNCHANGED <<loaded, running, given, received, request, borrow>>

\* The engine of m loads another model.
SetRunningModel(m, model) ==
  /\ loaded' = [loaded EXCEPT ![m] = model]
  /\ UNCHANGED <<lends, running, given, received, request, borrow>>

\* lendCompute and verifyForCaller up to the body: 403 when off, 429 when busy.
Admit(b, k) ==
  LET m == Lender(b, k) IN
  /\ request[b][k] = "sent"
  /\ SetStage(b, k, IF lends[m] /\ running[m] < ComputeSlots THEN "reading" ELSE "failed")
  /\ UNCHANGED <<lenderVars, received, borrow>>

\* The body has been read: 409 unless it is about the model that is loaded now.
Accept(b, k) ==
  LET m == Lender(b, k) IN
  /\ request[b][k] = "reading"
  /\ IF loaded[m] = Asked
     THEN SetStage(b, k, "working") /\ running' = [running EXCEPT ![m] = @ + 1]
     ELSE SetStage(b, k, "failed") /\ UNCHANGED running
  /\ UNCHANGED <<lends, loaded, given, received, borrow>>

\* The engine answers; an answer to a caller this machine knows is noted, a check is not.
Answer(b, k) ==
  LET m == Lender(b, k) IN
  /\ request[b][k] = "working"
  /\ SetStage(b, k, "answered")
  /\ running' = [running EXCEPT ![m] = @ - 1]
  /\ \/ Writes(k) /\ given' = [given EXCEPT ![m][Borrower[b]] = @ + 1]
     \/ UNCHANGED given
  /\ UNCHANGED <<lends, loaded, received, borrow>>

\* The engine refuses, is gone or takes too long.
EngineFails(b, k) ==
  /\ request[b][k] = "working"
  /\ SetStage(b, k, "failed")
  /\ running' = [running EXCEPT ![Lender(b, k)] = @ - 1]
  /\ UNCHANGED <<lends, loaded, given, received, borrow>>

-----------------------------------------------------------------------------
(* The borrower *)

Standing(a, m) == received[a][m] - given[a][m]

\* Up to two machines: those known to run the model, by standing, then those the index names.
Candidates(a) ==
  LET others == Machines \ {a} IN
  {c \in SeqOf(others, 2) :
     /\ c # <<>> /\ IsInjective(c)
     /\ \E near \in SUBSET others :
          \/ Cardinality(near) <= 1 /\ (near # {} => c[1] \in near)
          \/ /\ Len(c) = 2 /\ {c[1], c[2]} \subseteq near
             /\ \A m \in near \ {c[1]} : Standing(a, c[1]) <= Standing(a, m)
             /\ \A m \in near \ {c[1], c[2]} : Standing(a, c[2]) <= Standing(a, m)}

Send(b, k, next) ==
  /\ borrow' = [borrow EXCEPT ![b] = [next EXCEPT !.pc = k]]
  /\ SetStage(b, k, "sent")
End(b, next, result) ==
  /\ borrow' = [borrow EXCEPT ![b] = [next EXCEPT !.pc = Done, !.result = result]]
  /\ UNCHANGED request

BorrowBegins(b) ==
  /\ borrow[b].pc = Idle
  /\ \E c \in Candidates(Borrower[b]) :
       /\ borrow' = [borrow EXCEPT ![b] = [NoBorrow EXCEPT !.pc = First, !.cand = c]]
       /\ SetStage(b, First, "sent")
  /\ UNCHANGED <<lenderVars, received>>

\* A reply that is used, with the favour noted; a request that is not, whatever its handler does.
Hears(b, k) ==
  /\ borrow[b].pc = k /\ request[b][k] = "answered"
  /\ received' = IF k = Later THEN received
                 ELSE [received EXCEPT ![Borrower[b]][Lender(b, k)] = @ + 1]
  /\ UNCHANGED lenderVars
GivesUp(b, k) ==
  /\ borrow[b].pc = k
  /\ UNCHANGED <<lenderVars, received>>

Heard(b, k) == [borrow[b] EXCEPT !.heard = @ \cup {k}]

\* With one candidate its answer is the result.  With two, the second checks the answer if it
\* came with its tokens, and otherwise writes one.
HearFirst(b) ==
  /\ Hears(b, First)
  /\ IF Len(borrow[b].cand) = 1 THEN End(b, Heard(b, First), "single")
     ELSE Send(b, Opening, Heard(b, First)) \/ Send(b, Second, Heard(b, First))
NoFirst(b) ==
  /\ GivesUp(b, First)
  /\ IF Len(borrow[b].cand) = 1 THEN End(b, borrow[b], "nothing") ELSE Send(b, Second, borrow[b])

\* A good opening leads to the later window; a bad one, or none, to a second answer.
HearOpening(b) ==
  /\ Hears(b, Opening)
  /\ \/ Send(b, Later, [Heard(b, Opening) EXCEPT !.ok = @ \cup {Opening}])
     \/ Send(b, Second, Heard(b, Opening))
\* (broken variant for the mutation check: an answer that could not be checked counts as checked)
NoOpeningTrusted(b) == GivesUp(b, Opening) /\ End(b, borrow[b], "verified")
NoOpening(b) == GivesUp(b, Opening) /\ Send(b, Second, borrow[b])

\* Without the later window the opening decides.
HearLater(b) ==
  /\ Hears(b, Later)
  /\ \/ End(b, [Heard(b, Later) EXCEPT !.ok = @ \cup {Later}], "verified")
     \/ Send(b, Second, Heard(b, Later))
NoLater(b) == GivesUp(b, Later) /\ End(b, borrow[b], "verified")

Alone(b) == IF First \in borrow[b].heard THEN "single" ELSE "nothing"
HearSecond(b) ==
  /\ Hears(b, Second)
  /\ \E r \in {"identical", "agreed", "disagreed"} :
       End(b, Heard(b, Second), IF First \in borrow[b].heard THEN r ELSE "single")
NoSecond(b) == GivesUp(b, Second) /\ End(b, borrow[b], Alone(b))

-----------------------------------------------------------------------------
LenderNext ==
  \/ \E m \in Machines :
       \/ \E on \in BOOLEAN : SetCompute(m, on)
       \/ \E model \in {Asked, OtherModel} : SetRunningModel(m, model)
  \/ \E b \in Borrows, k \in Kinds : Admit(b, k) \/ Accept(b, k) \/ Answer(b, k) \/ EngineFails(b, k)
BorrowerNext ==
  \E b \in Borrows :
    \/ BorrowBegins(b)
    \/ HearFirst(b) \/ NoFirst(b) \/ HearOpening(b) \/ NoOpening(b)
    \/ HearLater(b) \/ NoLater(b) \/ HearSecond(b) \/ NoSecond(b)

LendingNext == LenderNext \/ BorrowerNext
LendingSpec == LendingInit /\ [][LendingNext]_lendingVars

-----------------------------------------------------------------------------
(* Properties *)

\* Types of the variables of PeerLending; a request is made only to a candidate.
LendingTypeOK ==
  /\ lends \in [Machines -> BOOLEAN]
  /\ loaded \in [Machines -> {Asked, OtherModel}]
  /\ running \in [Machines -> Nat]
  /\ given \in [Machines -> [Machines -> Nat]]
  /\ received \in [Machines -> [Machines -> Nat]]
  /\ request \in [Borrows -> [Kinds -> HandlerStages]]
  /\ \A b \in Borrows :
       /\ borrow[b].pc \in Idle..Done
       /\ borrow[b].heard \subseteq Kinds /\ borrow[b].ok \subseteq {Opening, Later}
       /\ borrow[b].result \in Results
       /\ borrow[b].cand \in Seq(Machines \ {Borrower[b]}) /\ Len(borrow[b].cand) <= 2
       /\ (borrow[b].pc = Idle) = (borrow[b].cand = <<>>)

\* A result says how far it can be trusted: checked by, compared with, or not compared with
\* what another machine than the writer did, and never by what was not heard of.
ConfidenceIsEarned ==
  \A b \in Borrows :
    LET heard == borrow[b].heard
        apart == Len(borrow[b].cand) = 2 /\ borrow[b].cand[1] # borrow[b].cand[2]
    IN borrow[b].pc = Done =>
         CASE borrow[b].result = "verified" -> apart /\ {First, Opening} \subseteq heard
                                                 /\ Opening \in borrow[b].ok
                                                 /\ (Later \in heard => Later \in borrow[b].ok)
           [] borrow[b].result = "nothing" -> {First, Second} \cap heard = {}
           [] borrow[b].result = "single" -> Cardinality({First, Second} \cap heard) = 1
           [] OTHER -> apart /\ {First, Second} \subseteq heard

\* "How many peers this machine will answer at the same time": no more than its slots.
WithinComputeSlots == \A m \in Machines : running[m] <= ComputeSlots
=============================================================================
