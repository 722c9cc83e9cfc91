------------------------------ MODULE PeerProofs ------------------------------
(***************************************************************************)
(* What holds of the peer service for any number of transfers, relays,      *)
(* machines, addresses and borrows: no slot is given back twice, a machine  *)
(* that is attached to a relay is polled for, a result says no more than    *)
(* what was heard, nobody is written down who never spoke, and a routing    *)
(* table holds nobody who was merely named.  Each section is about one      *)
(* module; the sections share nothing.                                      *)
(***************************************************************************)
EXTENDS PeerUploads, PeerSharing, PeerLending, PeerDiscovery, Kad, FilteringProofs, FiniteSetTheorems, TLAPS

-----------------------------------------------------------------------------
(* PeerUploads: slots and addresses are held by transfers, one each *)

SlotInv ==
  /\ stage \in [Transfers -> Stages] /\ DOMAIN asker = Transfers
  /\ DOMAIN open = Transfers /\ DOMAIN timer = Transfers
  /\ SlotsAreHeld

LEMMA UploadsStart == UploadsInit => SlotInv
<1> SUFFICES ASSUME UploadsInit PROVE SlotInv
  OBVIOUS
<1>1. stage \in [Transfers -> Stages] /\ DOMAIN asker = Transfers
  BY DEF UploadsInit, Stages
<1>2. Holders = {} /\ {t \in Transfers : stage[t] = "waiting"} = {}
  BY DEF UploadsInit, Holders, Held
<1>3. SlotsAreHeld
  BY <1>2, FS_EmptySet DEF UploadsInit, SlotsAreHeld
<1> QED BY <1>1, <1>3 DEF SlotInv, UploadsInit

LEMMA FewHolders == IsFiniteSet(Holders)
<1>1. IsFiniteSet(Transfers) /\ Holders \subseteq Transfers
  BY UploadsAssumption DEF UploadsAssumption, Holders
<1> QED BY <1>1, FS_Subset

\* A transfer that begins takes a slot, and an address that no other transfer goes to.
LEMMA TakesOne ==
  ASSUME SlotInv, NEW t \in Transfers, NEW w, NEW s \in Held, Unused(t), ~Refused(w), Take(t, w, s),
         relayJobs' = IF s = "waiting" THEN relayJobs \cup {t} ELSE relayJobs,
         timer' = IF s = "waiting" THEN [timer EXCEPT ![t] = TRUE] ELSE timer
  PROVE  SlotInv'
<1>1. stage' \in [Transfers -> Stages] /\ DOMAIN asker' = Transfers
  BY DEF SlotInv, Take, Held, Stages
<1>2. stage'[t] = s /\ asker'[t] = w /\ \A u \in Transfers \ {t} : stage'[u] = stage[u] /\ asker'[u] = asker[u]
  BY DEF SlotInv, Take
<1>3. t \notin Holders /\ stage[t] # "waiting"
  BY DEF Unused, Holders, Held
<1>4. Holders' = Holders \cup {t}
  BY <1>1, <1>2 DEF Holders, Held
<1>5. uploads' = Cardinality(Holders')
  BY <1>3, <1>4, FewHolders, FS_AddElement DEF Take, SlotInv, SlotsAreHeld
<1>6. uploadingTo' = {asker'[u] : u \in Holders'}
  <2>1. {asker'[u] : u \in Holders'} = {asker[u] : u \in Holders} \cup {w}
    BY <1>2, <1>3, <1>4 DEF Holders
  <2> QED BY <2>1 DEF Take, SlotInv, SlotsAreHeld
<1>7. ASSUME NEW u \in Holders', NEW v \in Holders', asker'[u] = asker'[v] PROVE u = v
  <2>1. \A x \in Holders : asker[x] # w /\ asker'[x] = asker[x]
    BY <1>2, <1>3 DEF Refused, SlotInv, SlotsAreHeld, Holders
  <2> QED BY <1>2, <1>4, <1>7, <2>1 DEF SlotInv, SlotsAreHeld
<1>8. relayJobs' = {u \in Transfers : stage'[u] = "waiting"}
  BY <1>2, <1>3 DEF SlotInv, SlotsAreHeld
<1>9. DOMAIN open' = Transfers /\ DOMAIN timer' = Transfers /\ \A u \in relayJobs' : open'[u] => timer'[u]
  <2>1. /\ DOMAIN open' = Transfers /\ DOMAIN timer' = Transfers
        /\ \A u \in Transfers \ {t} : open'[u] = open[u] /\ timer'[u] = timer[u]
        /\ s = "waiting" => timer'[t]
    BY DEF SlotInv, Take
  <2>2. t \notin relayJobs /\ relayJobs \subseteq Transfers /\ \A u \in relayJobs : open[u] => timer[u]
    BY <1>3 DEF SlotInv, SlotsAreHeld
  <2> QED BY <2>1, <2>2
<1> QED BY <1>1, <1>5, <1>6, <1>7, <1>8, <1>9 DEF SlotInv, SlotsAreHeld

\* A transfer that ends gives back its own.
LEMMA ReturnsOne ==
  ASSUME SlotInv, NEW t \in Transfers, stage[t] \in Held, Return(t), relayJobs' = relayJobs \ {t}
  PROVE  SlotInv'
<1>1. stage' \in [Transfers -> Stages] /\ asker' = asker
  BY DEF SlotInv, Return, Stages
<1>2. stage'[t] = "done" /\ \A u \in Transfers \ {t} : stage'[u] = stage[u]
  BY DEF SlotInv, Return
<1>3. t \in Holders
  BY DEF Holders
<1>4. Holders' = Holders \ {t}
  BY <1>1, <1>2 DEF Holders, Held
<1>5. uploads' = Cardinality(Holders')
  BY <1>3, <1>4, FewHolders, FS_RemoveElement DEF Return, SlotInv, SlotsAreHeld
<1>6. uploadingTo' = {asker'[u] : u \in Holders'}
  BY <1>1, <1>3, <1>4 DEF Return, SlotInv, SlotsAreHeld
<1>7. \A u, v \in Holders' : asker'[u] = asker'[v] => u = v
  BY <1>1, <1>4 DEF SlotInv, SlotsAreHeld
<1>8. relayJobs' = {u \in Transfers : stage'[u] = "waiting"}
  BY <1>2 DEF SlotInv, SlotsAreHeld
<1>9. DOMAIN open' = Transfers /\ DOMAIN timer' = Transfers /\ \A u \in relayJobs' : open'[u] => timer'[u]
  BY <1>8 DEF SlotInv, SlotsAreHeld, Return
<1> QED BY <1>1, <1>5, <1>6, <1>7, <1>8, <1>9 DEF SlotInv, SlotsAreHeld

\* What goes on in between keeps the slot.
LEMMA KeepsOne ==
  ASSUME SlotInv, NEW t \in Transfers, stage[t] \in Held, NEW s \in Held \ {"waiting"}, Goto(t, s),
         relayJobs' = relayJobs \ {t}
  PROVE  SlotInv'
<1>1. stage' \in [Transfers -> Stages] /\ UNCHANGED <<asker, uploads, uploadingTo, open, timer>>
  BY DEF SlotInv, Goto, Stages, Held
<1>2. stage'[t] = s /\ \A u \in Transfers \ {t} : stage'[u] = stage[u]
  BY DEF SlotInv, Goto
<1>3. Holders' = Holders
  BY <1>1, <1>2 DEF Holders, Held
<1>4. relayJobs' = {u \in Transfers : stage'[u] = "waiting"}
  BY <1>2 DEF SlotInv, SlotsAreHeld
<1> QED BY <1>1, <1>3, <1>4 DEF SlotInv, SlotsAreHeld

LEMMA NothingTaken ==
  ASSUME SlotInv, UNCHANGED <<uploads, uploadingTo, stage, asker, relayJobs>>,
         DOMAIN open' = Transfers, DOMAIN timer' = Transfers,
         \A t \in relayJobs : open'[t] => timer'[t]
  PROVE  SlotInv'
BY DEF SlotInv, SlotsAreHeld, Holders

LEMMA SlotSteps == SlotInv /\ [UploadsNext]_uploadVars => SlotInv'
<1> SUFFICES ASSUME SlotInv, [UploadsNext]_uploadVars PROVE SlotInv'
  OBVIOUS
<1>a. {"reading", "throttled", "draining"} \subseteq Held \ {"waiting"} /\ "waiting" \in Held
  BY DEF Held
<1>b. ASSUME NEW t \in Transfers PROVE t \in relayJobs <=> stage[t] = "waiting"
  BY DEF SlotInv, SlotsAreHeld
<1>c. ASSUME UNCHANGED <<uploads, uploadingTo, xferVars, relayJobs>> PROVE SlotInv'
  BY <1>c, NothingTaken DEF SlotInv, SlotsAreHeld, xferVars
<1>1. CASE \E n \in 1 .. MaxSlots : SetLimits(n)
  BY <1>1, <1>c DEF SetLimits, relayVars
<1>2. ASSUME NEW t \in Transfers, ServeChunk(t) PROVE SlotInv'
  <2>1. relayJobs' = relayJobs /\ stage[t] \in {"reading", "throttled", "draining"}
    BY <1>2 DEF ServeChunk, ReadChunk, EndTransfer, WriteChunk, Drain, relayVars
  <2>2. relayJobs' = relayJobs \ {t}
    BY <1>b, <2>1
  <2>3. CASE EndTransfer(t)
    BY <1>a, <2>1, <2>2, <2>3, ReturnsOne DEF EndTransfer
  <2>4. CASE Goto(t, "reading") \/ Goto(t, "throttled") \/ Goto(t, "draining")
    BY <1>a, <2>1, <2>2, <2>4, KeepsOne
  <2> QED BY <1>2, <2>3, <2>4 DEF ServeChunk, ReadChunk, WriteChunk, Drain
<1>3. ASSUME NEW t \in Transfers, AskerLeaves(t) PROVE SlotInv'
  <2>1. /\ DOMAIN open' = Transfers /\ DOMAIN timer' = Transfers
        /\ \A u \in Transfers \ {t} : open'[u] = open[u] /\ timer'[u] = timer[u]
        /\ ~open'[t]
    BY <1>3 DEF AskerLeaves, SlotInv
  <2>2. relayJobs \subseteq Transfers /\ \A u \in relayJobs : open[u] => timer[u]
    BY DEF SlotInv, SlotsAreHeld
  <2> QED BY <1>3, <2>1, <2>2, NothingTaken DEF AskerLeaves, relayVars
<1>4. ASSUME NEW t \in Transfers, RelayTimeout(t) PROVE SlotInv'
  <2>1. CASE t \in relayJobs
    BY <1>4, <1>a, <1>b, <2>1, ReturnsOne DEF RelayTimeout
  <2>2. CASE t \notin relayJobs
    <3>1. /\ UNCHANGED open /\ DOMAIN timer' = Transfers
          /\ \A u \in Transfers \ {t} : timer'[u] = timer[u]
      BY <1>4, <2>2 DEF RelayTimeout, SlotInv
    <3>2. \A u \in relayJobs : u \in Transfers /\ (open[u] => timer[u])
      BY DEF SlotInv, SlotsAreHeld
    <3> QED BY <1>4, <2>2, <3>1, <3>2, NothingTaken DEF RelayTimeout, SlotInv
  <2> QED BY <2>1, <2>2
<1>5. ASSUME NEW w \in Askers, NEW t \in Transfers, SendBlob(w, t) PROVE SlotInv'
  <2>1. Unused(t) /\ ~Refused(w) /\ Take(t, w, "reading") /\ UNCHANGED <<relayJobs, timer>>
    BY <1>5 DEF SendBlob, relayVars
  <2> QED BY <1>a, <2>1, TakesOne
<1>6. ASSUME NEW w \in Askers, NEW t \in Transfers, NEW p \in Relayed, RelayFetch(w, p, t) PROVE SlotInv'
  <2>1. /\ Unused(t) /\ ~Refused(w) /\ Take(t, w, "waiting") /\ relayJobs' = relayJobs \cup {t}
        /\ timer' = [timer EXCEPT ![t] = TRUE]
    BY <1>6 DEF RelayFetch, RelayDispatch
  <2> QED BY <1>a, <2>1, TakesOne
<1>7. ASSUME NEW p \in Relayed, RelayNext(p) PROVE SlotInv'
  <2>1. CASE RelayRegister(p) \/ RelayWait(p) \/ PollDrops(p) \/ PollEnds(p)
    BY <2>1, <1>c DEF RelayRegister, RelayWait, PollDrops, PollEnds
  <2>2. ASSUME NEW t \in Transfers, RelayDeliver(p, t) PROVE SlotInv'
    <3>1. CASE t \in relayJobs
      BY <1>a, <1>b, <2>2, <3>1, KeepsOne DEF RelayDeliver
    <3>2. CASE t \notin relayJobs
      BY <2>2, <3>2, <1>c DEF RelayDeliver
    <3> QED BY <3>1, <3>2
  <2>3. ASSUME NEW t \in Transfers, RelayIgnore(p, t) PROVE SlotInv'
    BY <2>3, <1>c DEF RelayIgnore
  <2> QED BY <1>7, <2>1, <2>2, <2>3 DEF RelayNext
<1>8. CASE UNCHANGED uploadVars
  BY <1>8, <1>c DEF uploadVars, xferVars
<1> QED BY <1>1, <1>2, <1>3, <1>4, <1>5, <1>6, <1>7, <1>8 DEF UploadsNext

\* The slots that are counted and the addresses that are refused are those of the transfers that
\* hold one, one each, for any number of transfers, relayed peers and lost polls; and a relay job
\* whose asker is there has its timer.  That each is returned in the end is not said, nor so.
THEOREM CountedIsHeld == UploadsSpec => []SlotsAreHeld
<1>1. SlotInv => SlotsAreHeld
  BY DEF SlotInv
<1> QED BY <1>1, UploadsStart, SlotSteps, PTL DEF UploadsSpec

-----------------------------------------------------------------------------
(* PeerSharing: a relay that is noted is polled *)

RelayInv ==
  /\ myRelay \in Relays \cup {NoRelay} /\ loop \in [Loops -> LoopStates]
  /\ AttachedIsPolled

LEMMA SharingStarts == SharingInit => RelayInv
BY DEF SharingInit, RelayInv, LoopStates, AttachedIsPolled

LEMMA RelaySteps == RelayInv /\ [SharingNext]_sharingVars => RelayInv'
<1> SUFFICES ASSUME RelayInv, [SharingNext]_sharingVars PROVE RelayInv'
  OBVIOUS
<1>a. /\ myRelay \in Relays \cup {NoRelay} /\ loop \in [Loops -> LoopStates]
      /\ myRelay # NoRelay => \E l \in Loops : loop[l] # "gone"
      /\ \A r \in Relays : r # "gone" /\ r # NoRelay
  BY SharingAssumption DEF RelayInv, AttachedIsPolled, SharingAssumption
<1>b. ASSUME UNCHANGED <<myRelay, loop>> PROVE RelayInv'
  BY <1>a, <1>b DEF RelayInv, AttachedIsPolled
<1>1. CASE Boot \/ SwitchOn \/ \E allowed \in BOOLEAN : SetReachable(allowed)
  BY <1>1, <1>b DEF Boot, SwitchOn, Start, SetReachable, relayedVars
<1>2. CASE SwitchOff
  BY <1>2, <1>a DEF SwitchOff, RelayInv, AttachedIsPolled
<1>3. CASE BecomeReachable \/ JoinPublishes \/ JoinEnds \/ NobodyAgrees \/ Intervals
  BY <1>3, <1>b DEF BecomeReachable, JoinPublishes, JoinEnds, NobodyAgrees, Intervals, Renew, RouterAnswers,
     JoinBegins, EnsureRelayed, relayedVars
<1>4. ASSUME NEW l \in Loops, RelayLoopTop(l) PROVE RelayInv'
  <2>1. /\ UNCHANGED myRelay /\ loop' \in [Loops -> LoopStates]
        /\ myRelay # NoRelay => loop'[l] = myRelay
    BY <1>4, <1>a DEF RelayLoopTop, LoopStates
  <2> QED BY <1>a, <2>1 DEF RelayInv, AttachedIsPolled
<1>5. ASSUME NEW l \in Loops, PollReturns(l) PROVE RelayInv'
  <2>1. UNCHANGED myRelay /\ loop' \in [Loops -> LoopStates] /\ loop'[l] = "top"
    BY <1>5, <1>a DEF PollReturns, LoopStates
  <2> QED BY <1>a, <2>1 DEF RelayInv, AttachedIsPolled
<1>6. ASSUME NEW l \in Loops, PollForgotten(l) PROVE RelayInv'
  <2>1. myRelay' = NoRelay /\ loop' \in [Loops -> LoopStates]
    BY <1>6, <1>a DEF PollForgotten, LoopStates
  <2> QED BY <2>1 DEF RelayInv, AttachedIsPolled
<1>7. ASSUME NEW l \in Loops, NEW h \in Relays, Registered(h, l) PROVE RelayInv'
  <2>1. myRelay' = h /\ loop' \in [Loops -> LoopStates] /\ loop'[l] = "top"
    BY <1>7, <1>a DEF Registered, LoopStates
  <2> QED BY <2>1 DEF RelayInv, AttachedIsPolled
<1>8. CASE UNCHANGED sharingVars
  BY <1>8, <1>b DEF sharingVars
<1> QED BY <1>1, <1>2, <1>3, <1>4, <1>5, <1>6, <1>7, <1>8 DEF SharingNext, User, Progress

\* While a machine is attached to a relay it has a loop that polls, in spite of registrations,
\* 404s and switches in any order and for any number of loops.
THEOREM AttachmentIsPolled == SharingSpec => []AttachedIsPolled
<1>1. RelayInv => AttachedIsPolled
  BY DEF RelayInv
<1> QED BY <1>1, SharingStarts, RelaySteps, PTL DEF SharingSpec

-----------------------------------------------------------------------------
(* PeerLending: a result says no more than what was heard *)

Candidate(c) == Len(c) \in {1, 2} /\ (Len(c) = 2 => c[1] # c[2])

\* What a borrow has heard of is what the requests before the one it awaits brought.
Earned(b) ==
  LET heard == borrow[b].heard
      apart == Len(borrow[b].cand) = 2 /\ borrow[b].cand[1] # borrow[b].cand[2] IN
  CASE borrow[b].result = "verified" -> apart /\ {First, Opening} \subseteq heard
                                          /\ Opening \in borrow[b].ok
                                          /\ (Later \in heard => Later \in borrow[b].ok)
    [] borrow[b].result = "nothing" -> {First, Second} \cap heard = {}
    [] borrow[b].result = "single" -> Cardinality({First, Second} \cap heard) = 1
    [] OTHER -> apart /\ {First, Second} \subseteq heard
HeardInTurn(b) ==
  /\ borrow[b].pc # Idle => Candidate(borrow[b].cand)
  /\ borrow[b].pc \in {Opening, Later, Second} => Len(borrow[b].cand) = 2
  /\ borrow[b].pc = First => borrow[b].heard = {} /\ borrow[b].ok = {}
  /\ borrow[b].pc = Opening => borrow[b].heard = {First} /\ borrow[b].ok = {}
  /\ borrow[b].pc = Later => borrow[b].heard = {First, Opening} /\ borrow[b].ok = {Opening}
  /\ borrow[b].pc = Second => borrow[b].heard \subseteq {First, Opening, Later}
  /\ borrow[b].pc = Done => Earned(b)

BorrowRecords ==
  [pc : Idle .. Done, cand : Seq(Machines), heard : SUBSET Kinds, ok : SUBSET Kinds, result : Results]
BorrowInv ==
  /\ borrow \in [Borrows -> BorrowRecords]
  /\ \A b \in Borrows : HeardInTurn(b)

LEMMA BorrowTyped ==
  ASSUME BorrowInv, NEW b \in Borrows
  PROVE  /\ borrow[b] \in BorrowRecords /\ borrow[b].pc \in Idle .. Done
         /\ borrow[b].cand \in Seq(Machines) /\ borrow[b].heard \subseteq Kinds
         /\ borrow[b].ok \subseteq Kinds /\ borrow[b].result \in Results
BY DEF BorrowInv, BorrowRecords

\* The five places of a borrow are five.
LEMMA PlacesDiffer ==
  /\ Idle = 0 /\ First = 1 /\ Opening = 2 /\ Later = 3 /\ Second = 4 /\ Done = 5
  /\ Kinds = 1 .. 4
BY DEF Idle, First, Opening, Later, Second, Done, Kinds

LEMMA TwoApart ==
  ASSUME NEW a \in Machines, NEW c \in Candidates(a)
  PROVE  c \in Seq(Machines) /\ Candidate(c)
<1>1. c \in SeqOf(Machines \ {a}, 2) /\ c # <<>> /\ IsInjective(c)
  BY DEF Candidates
<1>2. PICK n \in 0 .. 2 : c \in [1 .. n -> Machines \ {a}]
  BY <1>1 DEF SeqOf
<1>3. c \in Seq(Machines) /\ Len(c) = n /\ DOMAIN c = 1 .. n
  BY <1>2
<1>4. n # 0
  BY <1>1, <1>3
<1>5. n = 2 => c[1] # c[2]
  BY <1>1, <1>3 DEF IsInjective
<1> QED BY <1>3, <1>4, <1>5 DEF Candidate

\* A borrow that goes on or ends; the others do not.
OnlyThis(b) ==
  /\ borrow' \in [Borrows -> BorrowRecords]
  /\ \A c \in Borrows \ {b} : borrow'[c] = borrow[c]

LEMMA GoesOn ==
  ASSUME BorrowInv, NEW b \in Borrows, OnlyThis(b), HeardInTurn(b)'
  PROVE  BorrowInv'
<1>1. ASSUME NEW c \in Borrows \ {b} PROVE HeardInTurn(c)'
  BY <1>1 DEF BorrowInv, HeardInTurn, Earned, OnlyThis
<1> QED BY <1>1 DEF BorrowInv, OnlyThis

LEMMA SendsOn ==
  ASSUME BorrowInv, NEW b \in Borrows, NEW k \in Kinds, NEW next \in BorrowRecords, Send(b, k, next)
  PROVE  /\ OnlyThis(b)
         /\ borrow'[b].pc = k /\ borrow'[b].cand = next.cand
         /\ borrow'[b].heard = next.heard /\ borrow'[b].ok = next.ok
<1> DEFINE r == [next EXCEPT !.pc = k]
<1>1. borrow' = [borrow EXCEPT ![b] = r]
  BY DEF Send
<1>2. k \in Idle .. Done
  BY PlacesDiffer
<1>3. r \in BorrowRecords /\ r.pc = k /\ r.cand = next.cand /\ r.heard = next.heard /\ r.ok = next.ok
  BY <1>2 DEF BorrowRecords
<1> HIDE DEF r
<1> QED BY <1>1, <1>3 DEF BorrowInv, OnlyThis

LEMMA Ends ==
  ASSUME BorrowInv, NEW b \in Borrows, NEW next \in BorrowRecords, NEW result \in Results,
         End(b, next, result)
  PROVE  /\ OnlyThis(b)
         /\ borrow'[b].pc = Done /\ borrow'[b].cand = next.cand
         /\ borrow'[b].heard = next.heard /\ borrow'[b].ok = next.ok /\ borrow'[b].result = result
<1> DEFINE r == [next EXCEPT !.pc = Done, !.result = result]
<1>1. borrow' = [borrow EXCEPT ![b] = r]
  BY DEF End
<1>2. Done \in Idle .. Done
  BY PlacesDiffer
<1>3. /\ r \in BorrowRecords /\ r.pc = Done /\ r.cand = next.cand /\ r.heard = next.heard
      /\ r.ok = next.ok /\ r.result = result
  BY <1>2 DEF BorrowRecords
<1> HIDE DEF r
<1> QED BY <1>1, <1>3 DEF BorrowInv, OnlyThis

LEMMA HeardOf ==
  ASSUME BorrowInv, NEW b \in Borrows, NEW k \in Kinds
  PROVE  /\ Heard(b, k) \in BorrowRecords
         /\ Heard(b, k).heard = borrow[b].heard \cup {k} /\ Heard(b, k).ok = borrow[b].ok
         /\ Heard(b, k).cand = borrow[b].cand
<1> DEFINE heard == borrow[b].heard \cup {k}
<1>1. Heard(b, k) = [borrow[b] EXCEPT !.heard = heard]
  BY DEF Heard
<1>2. heard \in SUBSET Kinds
  BY BorrowTyped
<1> HIDE DEF heard
<1>3. /\ [borrow[b] EXCEPT !.heard = heard] \in BorrowRecords
      /\ [borrow[b] EXCEPT !.heard = heard].heard = heard
      /\ [borrow[b] EXCEPT !.heard = heard].ok = borrow[b].ok
      /\ [borrow[b] EXCEPT !.heard = heard].cand = borrow[b].cand
  BY <1>2, BorrowTyped DEF BorrowRecords
<1> QED BY <1>1, <1>3 DEF heard

\* ... and what was checked.
LEMMA FoundGood ==
  ASSUME BorrowInv, NEW b \in Borrows, NEW k \in Kinds
  PROVE  LET r == [Heard(b, k) EXCEPT !.ok = @ \cup {k}] IN
         /\ r \in BorrowRecords /\ r.heard = borrow[b].heard \cup {k} /\ r.ok = borrow[b].ok \cup {k}
         /\ r.cand = borrow[b].cand
<1> DEFINE h == Heard(b, k)
           ok == borrow[b].ok \cup {k}
<1>1. h \in BorrowRecords /\ h.heard = borrow[b].heard \cup {k} /\ h.ok = borrow[b].ok /\ h.cand = borrow[b].cand
  BY HeardOf
<1>2. ok \in SUBSET Kinds
  BY BorrowTyped
<1> HIDE DEF h, ok
<1>3. /\ [h EXCEPT !.ok = ok] \in BorrowRecords /\ [h EXCEPT !.ok = ok].heard = h.heard
      /\ [h EXCEPT !.ok = ok].ok = ok /\ [h EXCEPT !.ok = ok].cand = h.cand
  BY <1>1, <1>2 DEF BorrowRecords
<1>4. [h EXCEPT !.ok = @ \cup {k}] = [h EXCEPT !.ok = ok]
  BY <1>1 DEF ok
<1> QED BY <1>1, <1>3, <1>4 DEF h, ok

\* A borrow that has not begun has heard nothing and verified nothing.
LEMMA NoBorrowTyped ==
  /\ NoBorrow \in BorrowRecords /\ NoBorrow.pc = 0
  /\ NoBorrow.heard = {} /\ NoBorrow.ok = {}
BY PlacesDiffer DEF NoBorrow, BorrowRecords, Results

LEMMA BorrowStarts == LendingInit => BorrowInv
<1> SUFFICES ASSUME LendingInit PROVE BorrowInv
  OBVIOUS
<1>1. borrow \in [Borrows -> BorrowRecords] /\ \A b \in Borrows : borrow[b].pc = 0
  BY NoBorrowTyped DEF LendingInit
<1> QED BY <1>1, PlacesDiffer DEF BorrowInv, HeardInTurn

LEMMA BorrowerSteps ==
  ASSUME BorrowInv, NEW b \in Borrows,
         \/ BorrowBegins(b) \/ HearFirst(b) \/ NoFirst(b) \/ HearOpening(b) \/ NoOpening(b)
         \/ HearLater(b) \/ NoLater(b) \/ HearSecond(b) \/ NoSecond(b)
  PROVE  BorrowInv'
<1>a. /\ borrow[b] \in BorrowRecords /\ borrow[b].heard \subseteq Kinds /\ HeardInTurn(b)
      /\ 1 \in Kinds /\ 2 \in Kinds /\ 3 \in Kinds /\ 4 \in Kinds
  BY BorrowTyped, PlacesDiffer DEF BorrowInv
<1>b. /\ Idle = 0 /\ First = 1 /\ Opening = 2 /\ Later = 3 /\ Second = 4 /\ Done = 5
  BY PlacesDiffer
<1>c. {"verified", "identical", "agreed", "disagreed", "single", "nothing"} \subseteq Results
  BY DEF Results
<1>d. ASSUME borrow[b].pc \in Kinds PROVE Candidate(borrow[b].cand)
  BY <1>a, <1>b, <1>d, PlacesDiffer DEF HeardInTurn
<1>1. CASE BorrowBegins(b)
  <2>1. Borrower[b] \in Machines
    BY LendingAssumption DEF LendingAssumption
  <2>2. PICK c \in Candidates(Borrower[b]) :
          borrow' = [borrow EXCEPT ![b] = [NoBorrow EXCEPT !.pc = First, !.cand = c]]
    BY <1>1 DEF BorrowBegins
  <2>3. c \in Seq(Machines) /\ Candidate(c)
    BY <2>1, TwoApart
  <2> DEFINE r == [NoBorrow EXCEPT !.pc = First, !.cand = c]
  <2>4. r \in BorrowRecords /\ r.pc = 1 /\ r.cand = c /\ r.heard = {} /\ r.ok = {}
    <3>1. First \in Idle .. Done
      BY <1>b
    <3> QED BY <1>b, <2>3, <3>1, NoBorrowTyped DEF BorrowRecords
  <2> HIDE DEF r
  <2>5. OnlyThis(b) /\ borrow'[b] = r
    BY <2>2, <2>4 DEF BorrowInv, OnlyThis, r
  <2>6. HeardInTurn(b)'
    BY <1>b, <2>3, <2>4, <2>5 DEF HeardInTurn
  <2> QED BY <2>5, <2>6, GoesOn
<1>2. CASE HearFirst(b)
  <2>1. borrow[b].pc = 1 /\ borrow[b].heard = {} /\ borrow[b].ok = {} /\ Candidate(borrow[b].cand)
    BY <1>2, <1>a, <1>b, <1>d DEF HearFirst, Hears, HeardInTurn
  <2> DEFINE n == Heard(b, First)
  <2>2. n \in BorrowRecords /\ n.heard = {1} /\ n.ok = {} /\ n.cand = borrow[b].cand
    BY <1>a, <1>b, <2>1, HeardOf
  <2> HIDE DEF n
  <2>3. CASE Len(borrow[b].cand) = 1 /\ End(b, n, "single")
    <3>1. /\ OnlyThis(b) /\ borrow'[b].pc = 5 /\ borrow'[b].cand = borrow[b].cand
          /\ borrow'[b].heard = {1} /\ borrow'[b].result = "single"
      BY <1>b, <1>c, <2>2, <2>3, Ends
    <3>2. Cardinality({First, Second} \cap borrow'[b].heard) = 1
      <4>1. {First, Second} \cap borrow'[b].heard = {1}
        BY <1>b, <3>1
      <4> QED BY <4>1, FS_Singleton
    <3>3. HeardInTurn(b)'
      BY <1>b, <2>1, <3>1, <3>2 DEF HeardInTurn, Earned
    <3> QED BY <3>1, <3>3, GoesOn
  <2>4. CASE Len(borrow[b].cand) # 1 /\ (Send(b, Opening, n) \/ Send(b, Second, n))
    <3>1. /\ OnlyThis(b) /\ borrow'[b].pc \in {2, 4} /\ borrow'[b].cand = borrow[b].cand
          /\ borrow'[b].heard = {1} /\ borrow'[b].ok = {}
      BY <1>a, <1>b, <2>2, <2>4, SendsOn
    <3>2. HeardInTurn(b)'
      BY <1>b, <2>1, <2>4, <3>1 DEF HeardInTurn, Candidate
    <3> QED BY <3>1, <3>2, GoesOn
  <2> QED BY <1>2, <2>3, <2>4 DEF HearFirst, n
<1>3. CASE NoFirst(b)
  <2>1. borrow[b].pc = 1 /\ borrow[b].heard = {} /\ borrow[b].ok = {} /\ Candidate(borrow[b].cand)
    BY <1>3, <1>a, <1>b, <1>d DEF NoFirst, GivesUp, HeardInTurn
  <2>2. CASE Len(borrow[b].cand) = 1 /\ End(b, borrow[b], "nothing")
    <3>1. /\ OnlyThis(b) /\ borrow'[b].pc = 5 /\ borrow'[b].cand = borrow[b].cand
          /\ borrow'[b].heard = {} /\ borrow'[b].result = "nothing"
      BY <1>a, <1>b, <1>c, <2>1, <2>2, Ends
    <3>2. HeardInTurn(b)'
      BY <1>b, <2>1, <3>1 DEF HeardInTurn, Earned
    <3> QED BY <3>1, <3>2, GoesOn
  <2>3. CASE Len(borrow[b].cand) # 1 /\ Send(b, Second, borrow[b])
    <3>1. /\ OnlyThis(b) /\ borrow'[b].pc = 4 /\ borrow'[b].cand = borrow[b].cand
          /\ borrow'[b].heard = {}
      BY <1>a, <1>b, <2>1, <2>3, SendsOn
    <3>2. HeardInTurn(b)'
      BY <1>b, <2>1, <2>3, <3>1 DEF HeardInTurn, Candidate
    <3> QED BY <3>1, <3>2, GoesOn
  <2> QED BY <1>3, <2>2, <2>3 DEF NoFirst
<1>4. CASE HearOpening(b)
  <2>1. /\ borrow[b].pc = 2 /\ borrow[b].heard = {1} /\ borrow[b].ok = {} /\ Candidate(borrow[b].cand)
        /\ Len(borrow[b].cand) = 2
    BY <1>4, <1>a, <1>b, <1>d DEF HearOpening, Hears, HeardInTurn
  <2> DEFINE n == Heard(b, Opening)
             g == [Heard(b, Opening) EXCEPT !.ok = @ \cup {Opening}]
  <2>2. /\ n \in BorrowRecords /\ n.heard = {1, 2} /\ n.cand = borrow[b].cand
        /\ g \in BorrowRecords /\ g.heard = {1, 2} /\ g.ok = {2} /\ g.cand = borrow[b].cand
    <3>1. /\ n \in BorrowRecords /\ n.heard = borrow[b].heard \cup {Opening} /\ n.cand = borrow[b].cand
      BY <1>a, <1>b, HeardOf
    <3>2. /\ g \in BorrowRecords /\ g.heard = borrow[b].heard \cup {Opening}
          /\ g.ok = borrow[b].ok \cup {Opening} /\ g.cand = borrow[b].cand
      BY <1>a, <1>b, FoundGood
    <3> QED BY <1>b, <2>1, <3>1, <3>2
  <2>3. Send(b, Later, g) \/ Send(b, Second, n)
    BY <1>4 DEF HearOpening
  <2> HIDE DEF n, g
  <2>4. /\ OnlyThis(b) /\ borrow'[b].cand = borrow[b].cand /\ borrow'[b].heard = {1, 2}
        /\ borrow'[b].pc = 4 \/ (borrow'[b].pc = 3 /\ borrow'[b].ok = {2})
    BY <1>a, <1>b, <2>2, <2>3, SendsOn
  <2>5. HeardInTurn(b)'
    BY <1>b, <2>1, <2>4 DEF HeardInTurn
  <2> QED BY <2>4, <2>5, GoesOn
<1>5. CASE NoOpening(b)
  <2>1. /\ borrow[b].pc = 2 /\ borrow[b].heard = {1} /\ Candidate(borrow[b].cand) /\ Len(borrow[b].cand) = 2
    BY <1>5, <1>a, <1>b, <1>d DEF NoOpening, GivesUp, HeardInTurn
  <2>2. /\ OnlyThis(b) /\ borrow'[b].pc = 4 /\ borrow'[b].cand = borrow[b].cand /\ borrow'[b].heard = {1}
    BY <1>5, <1>a, <1>b, <2>1, SendsOn DEF NoOpening
  <2>3. HeardInTurn(b)'
    BY <1>b, <2>1, <2>2 DEF HeardInTurn
  <2> QED BY <2>2, <2>3, GoesOn
<1>6. CASE HearLater(b)
  <2>1. /\ borrow[b].pc = 3 /\ borrow[b].heard = {1, 2} /\ borrow[b].ok = {2} /\ Candidate(borrow[b].cand)
        /\ Len(borrow[b].cand) = 2
    BY <1>6, <1>a, <1>b, <1>d DEF HearLater, Hears, HeardInTurn
  <2> DEFINE n == Heard(b, Later)
             g == [Heard(b, Later) EXCEPT !.ok = @ \cup {Later}]
  <2>2. /\ n \in BorrowRecords /\ n.heard = {1, 2, 3} /\ n.cand = borrow[b].cand
        /\ g \in BorrowRecords /\ g.heard = {1, 2, 3} /\ g.ok = {2, 3} /\ g.cand = borrow[b].cand
    <3>1. /\ n \in BorrowRecords /\ n.heard = borrow[b].heard \cup {Later} /\ n.cand = borrow[b].cand
      BY <1>a, <1>b, HeardOf
    <3>2. /\ g \in BorrowRecords /\ g.heard = borrow[b].heard \cup {Later}
          /\ g.ok = borrow[b].ok \cup {Later} /\ g.cand = borrow[b].cand
      BY <1>a, <1>b, FoundGood
    <3> QED BY <1>b, <2>1, <3>1, <3>2
  <2>3. End(b, g, "verified") \/ Send(b, Second, n)
    BY <1>6 DEF HearLater
  <2> HIDE DEF n, g
  <2>4. CASE End(b, g, "verified")
    <3>1. /\ OnlyThis(b) /\ borrow'[b].pc = 5 /\ borrow'[b].cand = borrow[b].cand
          /\ borrow'[b].heard = {1, 2, 3} /\ borrow'[b].ok = {2, 3} /\ borrow'[b].result = "verified"
      BY <1>b, <1>c, <2>2, <2>4, Ends
    <3>2. HeardInTurn(b)'
      BY <1>b, <2>1, <3>1 DEF HeardInTurn, Earned, Candidate
    <3> QED BY <3>1, <3>2, GoesOn
  <2>5. CASE Send(b, Second, n)
    <3>1. /\ OnlyThis(b) /\ borrow'[b].pc = 4 /\ borrow'[b].cand = borrow[b].cand
          /\ borrow'[b].heard = {1, 2, 3}
      BY <1>a, <1>b, <2>2, <2>5, SendsOn
    <3>2. HeardInTurn(b)'
      BY <1>b, <2>1, <3>1 DEF HeardInTurn
    <3> QED BY <3>1, <3>2, GoesOn
  <2> QED BY <2>3, <2>4, <2>5
<1>7. CASE NoLater(b)
  <2>1. /\ borrow[b].pc = 3 /\ borrow[b].heard = {1, 2} /\ borrow[b].ok = {2} /\ Candidate(borrow[b].cand)
        /\ Len(borrow[b].cand) = 2
    BY <1>7, <1>a, <1>b, <1>d DEF NoLater, GivesUp, HeardInTurn
  <2>2. /\ OnlyThis(b) /\ borrow'[b].pc = 5 /\ borrow'[b].cand = borrow[b].cand
        /\ borrow'[b].heard = {1, 2} /\ borrow'[b].ok = {2} /\ borrow'[b].result = "verified"
    BY <1>7, <1>a, <1>b, <1>c, <2>1, Ends DEF NoLater
  <2>3. HeardInTurn(b)'
    BY <1>b, <2>1, <2>2 DEF HeardInTurn, Earned, Candidate
  <2> QED BY <2>2, <2>3, GoesOn
<1>8. CASE HearSecond(b)
  <2>1. /\ borrow[b].pc = 4 /\ borrow[b].heard \subseteq {1, 2, 3} /\ Candidate(borrow[b].cand)
        /\ Len(borrow[b].cand) = 2
    BY <1>8, <1>a, <1>b, <1>d DEF HearSecond, Hears, HeardInTurn
  <2> DEFINE n == Heard(b, Second)
  <2>2. n \in BorrowRecords /\ n.heard = borrow[b].heard \cup {4} /\ n.cand = borrow[b].cand
    BY <1>a, <1>b, HeardOf
  <2>3. PICK r \in {"identical", "agreed", "disagreed"} :
          End(b, n, IF First \in borrow[b].heard THEN r ELSE "single")
    BY <1>8 DEF HearSecond
  <2> HIDE DEF n
  <2>4. CASE 1 \in borrow[b].heard
    <3>1. /\ OnlyThis(b) /\ borrow'[b].pc = 5 /\ borrow'[b].cand = borrow[b].cand
          /\ borrow'[b].heard = borrow[b].heard \cup {4} /\ borrow'[b].result = r
      BY <1>b, <1>c, <2>2, <2>3, <2>4, Ends
    <3>2. HeardInTurn(b)'
      BY <1>b, <2>1, <2>4, <3>1 DEF HeardInTurn, Earned, Candidate
    <3> QED BY <3>1, <3>2, GoesOn
  <2>5. CASE 1 \notin borrow[b].heard
    <3>1. /\ OnlyThis(b) /\ borrow'[b].pc = 5 /\ borrow'[b].cand = borrow[b].cand
          /\ borrow'[b].heard = borrow[b].heard \cup {4} /\ borrow'[b].result = "single"
      BY <1>b, <1>c, <2>2, <2>3, <2>5, Ends
    <3>2. Cardinality({First, Second} \cap borrow'[b].heard) = 1
      <4>1. {First, Second} \cap borrow'[b].heard = {4}
        BY <1>b, <2>1, <2>5, <3>1
      <4> QED BY <4>1, FS_Singleton
    <3>3. HeardInTurn(b)'
      BY <1>b, <2>1, <3>1, <3>2 DEF HeardInTurn, Earned
    <3> QED BY <3>1, <3>3, GoesOn
  <2> QED BY <2>4, <2>5
<1>9. CASE NoSecond(b)
  <2>1. /\ borrow[b].pc = 4 /\ borrow[b].heard \subseteq {1, 2, 3} /\ Candidate(borrow[b].cand)
        /\ Len(borrow[b].cand) = 2
    BY <1>9, <1>a, <1>b, <1>d DEF NoSecond, GivesUp, HeardInTurn
  <2>2. End(b, borrow[b], IF 1 \in borrow[b].heard THEN "single" ELSE "nothing")
    BY <1>9, <1>b DEF NoSecond, Alone
  <2>3. /\ OnlyThis(b) /\ borrow'[b].pc = 5 /\ borrow'[b].cand = borrow[b].cand
        /\ borrow'[b].heard = borrow[b].heard
        /\ borrow'[b].result = IF 1 \in borrow[b].heard THEN "single" ELSE "nothing"
    BY <1>a, <1>b, <1>c, <2>2, Ends
  <2>4. CASE 1 \in borrow[b].heard
    <3>1. Cardinality({First, Second} \cap borrow'[b].heard) = 1
      <4>1. {First, Second} \cap borrow'[b].heard = {1}
        BY <1>b, <2>1, <2>3, <2>4
      <4> QED BY <4>1, FS_Singleton
    <3>2. HeardInTurn(b)'
      BY <1>b, <2>1, <2>3, <2>4, <3>1 DEF HeardInTurn, Earned
    <3> QED BY <2>3, <3>2, GoesOn
  <2>5. CASE 1 \notin borrow[b].heard
    <3>1. {First, Second} \cap borrow'[b].heard = {}
      BY <1>b, <2>1, <2>3, <2>5
    <3>2. HeardInTurn(b)'
      BY <1>b, <2>1, <2>3, <2>5, <3>1 DEF HeardInTurn, Earned
    <3> QED BY <2>3, <3>2, GoesOn
  <2> QED BY <2>4, <2>5
<1> QED BY <1>1, <1>2, <1>3, <1>4, <1>5, <1>6, <1>7, <1>8, <1>9

LEMMA BorrowSteps == BorrowInv /\ [LendingNext]_lendingVars => BorrowInv'
<1> SUFFICES ASSUME BorrowInv, [LendingNext]_lendingVars PROVE BorrowInv'
  OBVIOUS
<1>1. CASE LenderNext \/ UNCHANGED lendingVars
  <2>1. UNCHANGED borrow
    BY <1>1 DEF LenderNext, SetCompute, SetRunningModel, Admit, Accept, Answer, EngineFails, lendingVars
  <2> QED BY <2>1 DEF BorrowInv, HeardInTurn, Earned
<1>2. CASE BorrowerNext
  BY <1>2, BorrowerSteps DEF BorrowerNext
<1> QED BY <1>1, <1>2 DEF LendingNext

\* Whatever the lenders do, refuse or answer late, a result that says it was checked, or compared,
\* or not compared, says what was heard, and of two machines where it takes two.
THEOREM ResultsAreEarned == LendingSpec => []ConfidenceIsEarned
<1>1. BorrowInv => ConfidenceIsEarned
  BY DEF BorrowInv, HeardInTurn, Earned, ConfidenceIsEarned
<1> QED BY <1>1, BorrowStarts, BorrowSteps, PTL DEF LendingSpec

-----------------------------------------------------------------------------
(* PeerDiscovery: whom a machine writes down it has heard *)

LEMMA DiscoverySteps == NothingOnHearsay /\ [DiscoveryNext]_discoveryVars => NothingOnHearsay'
<1> SUFFICES ASSUME NothingOnHearsay, [DiscoveryNext]_discoveryVars PROVE NothingOnHearsay'
  OBVIOUS
<1>a. saved \subseteq answered /\ routes \subseteq answered /\ \A p \in peers : p.address \in answered
  BY DEF NothingOnHearsay
<1>b. ASSUME saved' \subseteq answered', routes' \subseteq answered', \A p \in peers' : p.address \in answered'
      PROVE  NothingOnHearsay'
  BY <1>b DEF NothingOnHearsay
<1>c. ASSUME NEW id, NEW address, NEW has, peers' = Remember(id, address, has),
             address \in answered', answered \subseteq answered'
      PROVE  \A p \in peers' : p.address \in answered'
  BY <1>a, <1>c DEF Remember
<1>1. CASE \/ Forget \/ Discover \/ Interval \/ SweepGoesOn \/ Locate \/ FindLenders \/ Block
           \/ AddSeed \/ RemoveSeed \/ Moves \/ \E q \in asks : NoAnswer(q)
  <2>1. UNCHANGED <<saved, routes, answered>> /\ peers' \subseteq peers
    BY <1>1 DEF Forget, Discover, Interval, SweepGoesOn, Locate, FindLenders, Block, AddSeed, RemoveSeed,
       Moves, NoAnswer
  <2> QED BY <1>a, <1>b, <2>1
<1>2. CASE OnAnnounce
  <2>1. PICK h \in Hosts : peers' = Remember(h, at[h], Stored[h]) /\ answered' = answered \cup {at[h]}
    BY <1>2 DEF OnAnnounce
  <2> QED BY <1>2, <1>a, <1>b, <1>c, <2>1 DEF OnAnnounce
<1>3. CASE AnswerKad
  BY <1>3, <1>a, <1>b DEF AnswerKad
<1>4. CASE JoinNetwork
  BY <1>4, <1>a, <1>b DEF JoinNetwork
<1>5. ASSUME NEW q \in asks, Hear(q) PROVE NothingOnHearsay'
  <2>1. answered' = answered \cup {q.to}
    BY <1>5 DEF Hear, Answers
  <2>2. saved' \subseteq saved \cup {q.to} /\ routes' \subseteq routes \cup {q.to}
    BY <1>5 DEF Hear
  <2>3. peers' = peers \/ \E id, has : peers' = Remember(id, q.to, has)
    BY <1>5 DEF Hear
  <2>4. \A p \in peers' : p.address \in answered'
    BY <1>a, <1>c, <2>1, <2>3
  <2> QED BY <1>a, <1>b, <2>1, <2>2, <2>4
<1>6. ASSUME NEW q \in asks, Located(q) \/ Lends(q) PROVE NothingOnHearsay'
  <2>1. answered' = answered \cup {q.to}
    BY <1>6 DEF Located, Lends, Answers
  <2>2. saved' \subseteq saved \cup {q.to} /\ routes' \subseteq routes \cup {q.to}
    BY <1>6 DEF Located, Lends
  <2>3. peers' = peers \/ \E id, has : peers' = Remember(id, q.to, has)
    BY <1>6 DEF Located, Lends
  <2>4. \A p \in peers' : p.address \in answered'
    BY <1>a, <1>c, <2>1, <2>3
  <2> QED BY <1>a, <1>b, <2>1, <2>2, <2>4
<1>7. CASE Reboot
  BY <1>7, <1>a, <1>b DEF Reboot
<1>8. CASE UNCHANGED discoveryVars
  BY <1>8, <1>a, <1>b DEF discoveryVars
<1> QED BY <1>1, <1>2, <1>3, <1>4, <1>5, <1>6, <1>7, <1>8 DEF DiscoveryNext

\* Nobody is in the picture, written down or shown to the index who never answered or spoke, for
\* any number of machines and addresses, however they move, and whatever is told of them.
THEOREM DiscoveryIsFirstHand == DiscoverySpec => []NothingOnHearsay
<1>1. DiscoveryInit => NothingOnHearsay
  BY DEF DiscoveryInit, NothingOnHearsay
<1> QED BY <1>1, DiscoverySteps, PTL DEF DiscoverySpec

-----------------------------------------------------------------------------
(* Kad: a bucket *)

KadEntries == [id : Nodes, stale : BOOLEAN]
KadRows == 0..Bits - 1
KadTables == [KadRows -> Seq(KadEntries)]

\* What a bucket of n holds: nodes that n heard from, other than n, that belong there, each once.
BucketGood(n, i, bucket, heard) ==
  /\ \A j \in 1 .. Len(bucket) : bucket[j].id \in heard \ {n} /\ BucketIndex(n, bucket[j].id) = i
  /\ \A j, l \in 1 .. Len(bucket) : bucket[j].id = bucket[l].id => j = l
TableGood(n, table, heard) == \A i \in KadRows : BucketGood(n, i, table[i], heard)

\* What is kept of a bucket is of the bucket, each once.

LEMMA KeptApart ==
  ASSUME NEW b \in Seq(KadEntries), NEW S, \A j, l \in 1 .. Len(b) : b[j].id = b[l].id => j = l,
         NEW k \in 0 .. Len(b)
  PROVE  /\ \A j \in 1 .. Len(KeptUpTo(b, S)[k]) :
              \E i \in 1 .. k : b[i] \in S /\ KeptUpTo(b, S)[k][j] = b[i]
         /\ \A j, l \in 1 .. Len(KeptUpTo(b, S)[k]) :
              KeptUpTo(b, S)[k][j].id = KeptUpTo(b, S)[k][l].id => j = l
<1> DEFINE Apart(f, m) == /\ \A j \in 1 .. Len(f) : \E i \in 1 .. m : b[i] \in S /\ f[j] = b[i]
                          /\ \A j, l \in 1 .. Len(f) : f[j].id = f[l].id => j = l
           Holds == {m \in Nat : m <= Len(b) => Apart(KeptUpTo(b, S)[m], m)}
<1>0. Len(b) \in Nat
  OBVIOUS
<1>1. 0 \in Holds
  <2>1. KeptUpTo(b, S)[0] = << >>
    BY <1>0, KeptNone
  <2>2. Apart(<< >>, 0)
    OBVIOUS
  <2> HIDE DEF Apart
  <2> QED BY <2>1, <2>2
<1>2. ASSUME NEW m \in Nat, m \in Holds PROVE m + 1 \in Holds
  <2> SUFFICES ASSUME m + 1 <= Len(b) PROVE Apart(KeptUpTo(b, S)[m + 1], m + 1)
    OBVIOUS
  <2> DEFINE f == KeptUpTo(b, S)[m]
             g == KeptUpTo(b, S)[m + 1]
             e == b[m + 1]
  <2>1. Apart(f, m)
    BY <1>0, <1>2
  <2>2. g = IF e \in S THEN Append(f, e) ELSE f
    BY <1>0, KeptNext
  <2>3. f \in Seq(KadEntries \cap S)
    <3>1. m \in 0 .. Len(b)
      BY <1>0
    <3> QED BY <3>1, KeptType
  <2>4. /\ m + 1 \in 1 .. Len(b) /\ m + 1 \in 1 .. m + 1
        /\ \A i \in 1 .. m : i \in 1 .. m + 1 /\ i \in 1 .. Len(b) /\ i # m + 1
    BY <1>0
  <2>5. e \in KadEntries
    BY <2>4
  <2> HIDE DEF f, g, e, Apart
  <2>6. CASE e \notin S
    <3>1. g = f
      BY <2>2, <2>6
    <3> QED BY <2>1, <2>4, <3>1 DEF Apart, g
  <2>7. CASE e \in S
    <3> DEFINE n == Len(f)
    <3>1. g = Append(f, e) /\ n \in Nat
      BY <2>2, <2>3, <2>7
    <3>2. Len(g) = n + 1 /\ g[n + 1] = e /\ \A j \in 1 .. n : g[j] = f[j]
      BY <2>3, <2>5, <2>7, <3>1
    <3>3. \A j \in 1 .. n : \E i \in 1 .. m : f[j] = b[i] /\ b[i] \in S
      BY <2>1 DEF Apart
    <3>4. \A j \in 1 .. n : f[j].id # e.id
      <4>1. \A i \in 1 .. m : b[i].id # e.id
        BY <2>4 DEF e
      <4> QED BY <3>3, <4>1
    <3>5. \A j, l \in 1 .. n : f[j].id = f[l].id => j = l
      BY <2>1 DEF Apart
    <3> HIDE DEF n
    <3>6. \A j \in 1 .. n + 1 : j \in 1 .. n \/ j = n + 1
      BY <3>1
    <3>7. \A j \in 1 .. n + 1 : \E i \in 1 .. m + 1 : b[i] \in S /\ g[j] = b[i]
      BY <2>4, <2>7, <3>2, <3>3, <3>6 DEF e
    <3>8. \A j, l \in 1 .. n + 1 : g[j].id = g[l].id => j = l
      BY <3>2, <3>4, <3>5, <3>6
    <3>9. Apart(g, m + 1)
      BY <3>2, <3>7, <3>8 DEF Apart
    <3> QED BY <3>9 DEF g
  <2> QED BY <2>6, <2>7
<1>3. Nat \subseteq Holds
  <2> HIDE DEF Holds
  <2> QED BY <1>1, <1>2, Induction
<1> QED BY <1>0, <1>3

\* A bucket in which nobody has an id is whole without it.

LEMMA OthersOf ==
  ASSUME NEW b \in Seq(KadEntries), \A j, l \in 1 .. Len(b) : b[j].id = b[l].id => j = l,
         NEW c \in Nodes, NEW others, others = Filter(b, {e \in ToSet(b) : e.id # c})
  PROVE  /\ others \in Seq(KadEntries)
         /\ \A j \in 1 .. Len(others) : \E i \in 1 .. Len(b) : b[i].id # c /\ others[j] = b[i]
         /\ \A j, l \in 1 .. Len(others) : others[j].id = others[l].id => j = l
         /\ (\A i \in 1 .. Len(b) : b[i].id # c) => others = b
<1> DEFINE S == {e \in ToSet(b) : e.id # c}
<1>0. Len(b) \in 0 .. Len(b) /\ Len(b) \in Nat
  OBVIOUS
<1>1. \A e \in S : e.id # c
  OBVIOUS
<1>2. others = Filter(b, S)
  OBVIOUS
<1>3. \A i \in 1 .. Len(b) : b[i].id # c => b[i] \in S
  BY DEF ToSet
<1>4. ToSet(b) \subseteq KadEntries
  BY DEF ToSet
<1> HIDE DEF S
<1>5. others = KeptUpTo(b, S)[Len(b)]
  BY <1>2, FilterIsKept
<1>6. others \in Seq(KadEntries \cap S)
  BY <1>2, FilterType
<1>7. others \in Seq(KadEntries)
  BY <1>6
<1>8. /\ \A j \in 1 .. Len(others) : \E i \in 1 .. Len(b) : b[i] \in S /\ others[j] = b[i]
      /\ \A j, l \in 1 .. Len(others) : others[j].id = others[l].id => j = l
  <2> DEFINE f == KeptUpTo(b, S)[Len(b)]
  <2>1. /\ \A j \in 1 .. Len(f) : \E i \in 1 .. Len(b) : b[i] \in S /\ f[j] = b[i]
        /\ \A j, l \in 1 .. Len(f) : f[j].id = f[l].id => j = l
    BY <1>0, KeptApart
  <2>2. others = f
    BY <1>5
  <2> HIDE DEF f
  <2> QED BY ONLY <2>1, <2>2
<1>9. ASSUME \A i \in 1 .. Len(b) : b[i].id # c PROVE others = b
  <2>1. \A i \in 1 .. Len(b) : b[i] \in S <=> 1 <= i /\ i <= Len(b)
    BY <1>3, <1>9
  <2> DEFINE A == KadEntries
  <2>2. 1 \in 1 .. Len(b) + 1 /\ Len(b) \in 1 - 1 .. Len(b)
    BY <1>0
  <2>3. Filter(b, S) = SubSeq(b, 1, Len(b))
    BY <2>1, <2>2, FilterRange
  <2>4. SubSeq(b, 1, Len(b)) = b
    OBVIOUS
  <2> QED BY <1>2, <2>3, <2>4
<1> QED BY <1>1, <1>7, <1>8, <1>9

\* Who drops a member keeps fewer.
LEMMA FilterShorter ==
  ASSUME NEW A, NEW s \in Seq(A), NEW S, NEW j \in 1 .. Len(s), s[j] \notin S
  PROVE  Len(Filter(s, S)) < Len(s)
<1> DEFINE n(k) == Len(KeptUpTo(s, S)[k])
           Holds == {k \in Nat : k <= Len(s) => n(k) \in Nat /\ n(k) <= k /\ (j <= k => n(k) < k)}
<1>0. Len(s) \in Nat /\ j \in Nat /\ j > 0 /\ j <= Len(s)
  OBVIOUS
<1>1. 0 \in Holds
  <2>1. n(0) = 0
    BY <1>0, KeptNone
  <2> HIDE DEF n
  <2> QED BY <1>0, <2>1
<1>2. ASSUME NEW k \in Nat, k \in Holds PROVE k + 1 \in Holds
  <2> SUFFICES ASSUME k + 1 <= Len(s)
               PROVE  n(k + 1) \in Nat /\ n(k + 1) <= k + 1 /\ (j <= k + 1 => n(k + 1) < k + 1)
    OBVIOUS
  <2>1. n(k) \in Nat /\ n(k) <= k /\ (j <= k => n(k) < k)
    BY <1>0, <1>2
  <2>2. k \in 0 .. Len(s)
    BY <1>0
  <2>3. KeptUpTo(s, S)[k] \in Seq(A)
    <3>1. KeptUpTo(s, S)[k] \in Seq(A \cap S)
      BY <2>2, KeptType
    <3> QED BY <3>1
  <2>4. n(k + 1) = IF s[k + 1] \in S THEN n(k) + 1 ELSE n(k)
    <3> DEFINE f == KeptUpTo(s, S)[k]
    <3>1. KeptUpTo(s, S)[k + 1] = IF s[k + 1] \in S THEN Append(f, s[k + 1]) ELSE f
      BY <1>0, KeptNext
    <3>2. s[k + 1] \in A
      BY <1>0
    <3>3. f \in Seq(A)
      BY <2>3
    <3> HIDE DEF f
    <3>4. Len(Append(f, s[k + 1])) = Len(f) + 1
      BY <3>2, <3>3
    <3>5. n(k + 1) = IF s[k + 1] \in S THEN Len(f) + 1 ELSE Len(f)
      BY <3>1, <3>4
    <3> QED BY <3>5 DEF f
  <2> HIDE DEF n
  <2>5. CASE s[k + 1] \in S
    <3>1. j # k + 1
      BY <2>5
    <3> QED BY <1>0, <2>1, <2>4, <2>5, <3>1
  <2>6. CASE s[k + 1] \notin S
    BY <1>0, <2>1, <2>4, <2>6
  <2> QED BY <2>5, <2>6
<1>3. Nat \subseteq Holds
  <2> HIDE DEF Holds
  <2> QED BY <1>1, <1>2, Induction
<1>4. n(Len(s)) < Len(s)
  <2> HIDE DEF n
  <2> QED BY <1>0, <1>3
<1> QED BY <1>4, FilterIsKept

LEMMA SeenInGood ==
  ASSUME NEW n, NEW i, NEW heard, NEW b \in Seq(KadEntries), BucketGood(n, i, b, heard),
         NEW c \in Nodes, c # n, BucketIndex(n, c) = i, KadAssumption
  PROVE  SeenIn(b, c) \in Seq(KadEntries) /\ BucketGood(n, i, SeenIn(b, c), heard \cup {c})
<1> DEFINE others == Filter(b, {e \in ToSet(b) : e.id # c})
           entry == [id |-> c, stale |-> FALSE]
           Apart(f) == \A j, l \in 1 .. Len(f) : f[j].id = f[l].id => j = l
<1>1. entry \in KadEntries /\ entry.id = c
  BY DEF KadEntries
<1>2. K \in Nat \ {0}
  BY DEF KadAssumption
<1>3. /\ \A j \in 1 .. Len(b) : b[j].id \in heard \ {n} /\ BucketIndex(n, b[j].id) = i
      /\ Apart(b)
  BY DEF BucketGood
<1>4. /\ others \in Seq(KadEntries)
      /\ \A j \in 1 .. Len(others) : \E k \in 1 .. Len(b) : b[k].id # c /\ others[j] = b[k]
      /\ \A j, l \in 1 .. Len(others) : others[j].id = others[l].id => j = l
      /\ (\A k \in 1 .. Len(b) : b[k].id # c) => others = b
  <2>1. \A j, l \in 1 .. Len(b) : b[j].id = b[l].id => j = l
    BY <1>3
  <2> HIDE DEF Apart
  <2> QED BY <2>1, OthersOf
<1> DEFINE r == SeenIn(b, c)
<1>5. r = IF Len(others) < Len(b) \/ Len(b) < K THEN Append(others, entry)
          ELSE IF Head(b).stale THEN Append(Tail(b), entry) ELSE b
  BY DEF SeenIn
<1> HIDE DEF others, entry, Apart, r
\* An entry joins a part of the bucket in which nobody has its id.
<1>6. ASSUME NEW f \in Seq(KadEntries), Apart(f), r = Append(f, entry),
             \A j \in 1 .. Len(f) : f[j].id # c /\ \E k \in 1 .. Len(b) : f[j] = b[k]
      PROVE  r \in Seq(KadEntries) /\ BucketGood(n, i, r, heard \cup {c})
  <2> DEFINE m == Len(f)
  <2>1. m \in Nat /\ r \in Seq(KadEntries) /\ Len(r) = m + 1 /\ r[m + 1] = entry /\ \A j \in 1 .. m : r[j] = f[j]
    BY <1>1, <1>6
  <2>2. \A j \in 1 .. m : f[j].id \in heard \ {n} /\ BucketIndex(n, f[j].id) = i /\ f[j].id # c
    BY <1>3, <1>6
  <2>3. \A j, l \in 1 .. m : f[j].id = f[l].id => j = l
    BY <1>6 DEF Apart
  <2> HIDE DEF m
  <2>4. \A j \in 1 .. m + 1 : j \in 1 .. m \/ j = m + 1
    BY <2>1
  <2>5. \A j \in 1 .. m + 1 : r[j].id \in (heard \cup {c}) \ {n} /\ BucketIndex(n, r[j].id) = i
    BY <1>1, <2>1, <2>2, <2>4
  <2>6. \A j, l \in 1 .. m + 1 : r[j].id = r[l].id => j = l
    BY <1>1, <2>1, <2>2, <2>3, <2>4
  <2> QED BY <2>1, <2>5, <2>6 DEF BucketGood
<1>7. CASE Len(others) < Len(b) \/ Len(b) < K
  <2>1. r = Append(others, entry) /\ Apart(others)
    BY <1>4, <1>5, <1>7 DEF Apart
  <2>2. \A j \in 1 .. Len(others) : others[j].id # c /\ \E k \in 1 .. Len(b) : others[j] = b[k]
    BY <1>4
  <2> QED BY <1>4, <1>6, <2>1, <2>2 DEF r
<1>8. CASE ~(Len(others) < Len(b) \/ Len(b) < K) /\ Head(b).stale
  <2>1. r = Append(Tail(b), entry)
    BY <1>5, <1>8
  <2> DEFINE m == Len(b)
  <2>2. m \in Nat /\ m > 0
    BY <1>2, <1>8
  <2>3. Tail(b) \in Seq(KadEntries) /\ Len(Tail(b)) = m - 1 /\ \A j \in 1 .. m - 1 : Tail(b)[j] = b[j + 1]
    BY <2>2
  <2> DEFINE rest == Tail(b)
  <2> HIDE DEF rest
  <2>4. \A j \in 1 .. m : b[j].id # c
    <3> SUFFICES ASSUME NEW j \in 1 .. m, b[j].id = c PROVE FALSE
      OBVIOUS
    <3>1. b[j] \notin {e \in ToSet(b) : e.id # c}
      OBVIOUS
    <3>2. Len(others) < Len(b)
      BY <3>1, FilterShorter DEF others
    <3> QED BY <1>8, <3>2
  <2>5. \A j \in 1 .. m - 1 : j + 1 \in 1 .. m
    BY <2>2
  <2>6. Apart(rest)
    <3>1. \A j, l \in 1 .. m - 1 : rest[j].id = rest[l].id => j + 1 = l + 1
      BY <1>3, <2>3, <2>5 DEF Apart, rest
    <3>2. \A j, l \in 1 .. m - 1 : j + 1 = l + 1 => j = l
      BY <2>2
    <3> QED BY <2>3, <3>1, <3>2 DEF Apart, rest
  <2>7. \A j \in 1 .. Len(rest) : rest[j].id # c /\ \E k \in 1 .. Len(b) : rest[j] = b[k]
    BY <2>3, <2>4, <2>5 DEF rest
  <2> QED BY <1>6, <2>1, <2>3, <2>6, <2>7 DEF rest, r
<1>9. CASE ~(Len(others) < Len(b) \/ Len(b) < K) /\ ~Head(b).stale
  <2>1. r = b
    BY <1>5, <1>9
  <2> QED BY <1>3, <2>1 DEF BucketGood, Apart, r
<1> QED BY <1>7, <1>8, <1>9 DEF r
-----------------------------------------------------------------------------
(* Kad: a table *)

LEMMA SeenGood ==
  ASSUME KadAssumption, NEW n, NEW heard, NEW table \in KadTables, TableGood(n, table, heard), NEW c \in Nodes
  PROVE  Seen(n, table, c) \in KadTables /\ TableGood(n, Seen(n, table, c), heard \cup {c})
<1>0. ASSUME NEW i \in KadRows PROVE BucketGood(n, i, table[i], heard \cup {c})
  BY DEF TableGood, BucketGood
<1>1. CASE c = n
  BY <1>0, <1>1 DEF Seen, TableGood
<1>2. CASE c # n
  <2> DEFINE k == BucketIndex(n, c)
  <2>1. Seen(n, table, c) = [table EXCEPT ![k] = SeenIn(table[k], c)]
    BY <1>2 DEF Seen
  <2>2. BucketIndex(n, c) = k
    OBVIOUS
  <2> HIDE DEF k
  <2>3. CASE k \in KadRows
    <3> DEFINE b == SeenIn(table[k], c)
    <3>1. table[k] \in Seq(KadEntries) /\ BucketGood(n, k, table[k], heard)
      BY <2>3 DEF KadTables, TableGood
    <3>2. b \in Seq(KadEntries) /\ BucketGood(n, k, b, heard \cup {c})
      BY <1>2, <2>2, <3>1, SeenInGood
    <3> HIDE DEF b
    <3>3. Seen(n, table, c) = [table EXCEPT ![k] = b]
      BY <2>1 DEF b
    <3>4. /\ Seen(n, table, c) \in KadTables
          /\ \A i \in KadRows : Seen(n, table, c)[i] = IF i = k THEN b ELSE table[i]
      BY <2>3, <3>2, <3>3 DEF KadTables
    <3> QED BY <1>0, <3>2, <3>4 DEF TableGood
  <2>4. CASE k \notin KadRows
    <3>1. Seen(n, table, c) = table
      BY <2>1, <2>4 DEF KadTables
    <3> QED BY <1>0, <3>1 DEF TableGood
  <2> QED BY <2>3, <2>4
<1> QED BY <1>1, <1>2

\* One more node is seen: the definition of SeenAll, step by step.
SeenStep(n, order, f, i) == IF i = 0 THEN buckets[n] ELSE Seen(n, f[i - 1], order[i])
SeenUpTo(n, order) == CHOOSE f : f = [i \in 0 .. Len(order) |-> SeenStep(n, order, f, i)]

LEMMA SeenAllIs == ASSUME NEW n, NEW order PROVE SeenAll(n, order) = SeenUpTo(n, order)[Len(order)]
BY DEF SeenAll, SeenUpTo, SeenStep

LEMMA SeenExists ==
  ASSUME NEW n, NEW order, NEW len \in Nat
  PROVE  \E f : f = [i \in 0 .. len |-> SeenStep(n, order, f, i)]
<1> DEFINE Has == {k \in Nat : \E f : f = [i \in 0 .. k |-> SeenStep(n, order, f, i)]}
<1>1. 0 \in Has
  <2> DEFINE f == [i \in 0 .. 0 |-> buckets[n]]
  <2>1. f = [i \in 0 .. 0 |-> SeenStep(n, order, f, i)]
    BY DEF SeenStep
  <2> QED BY <2>1
<1>2. ASSUME NEW k \in Nat, k \in Has PROVE k + 1 \in Has
  <2>1. PICK f : f = [i \in 0 .. k |-> SeenStep(n, order, f, i)]
    BY <1>2
  <2> DEFINE g == [i \in 0 .. k + 1 |-> IF i = k + 1 THEN Seen(n, f[k], order[k + 1]) ELSE f[i]]
  <2>2. \A i \in 0 .. k : g[i] = f[i] /\ f[i] = SeenStep(n, order, f, i)
    BY <2>1
  <2>3. ASSUME NEW i \in 0 .. k + 1 PROVE g[i] = SeenStep(n, order, g, i)
    <3>1. CASE i = k + 1
      <4>1. i - 1 = k /\ k \in 0 .. k /\ i # 0 /\ g[i] = Seen(n, f[k], order[k + 1])
        BY <3>1
      <4> HIDE DEF g
      <4> QED BY <2>2, <3>1, <4>1 DEF SeenStep
    <3>2. CASE i = 0
      <4>1. 0 \in 0 .. k
        OBVIOUS
      <4> HIDE DEF g
      <4> QED BY <2>2, <3>2, <4>1 DEF SeenStep
    <3>3. CASE i \in 1 .. k
      <4>1. i \in 0 .. k /\ i - 1 \in 0 .. k /\ i # 0
        BY <3>3
      <4> HIDE DEF g
      <4> QED BY <2>2, <4>1 DEF SeenStep
    <3> QED BY <3>1, <3>2, <3>3
  <2>4. g = [i \in 0 .. k + 1 |-> g[i]]
    OBVIOUS
  <2>5. g = [i \in 0 .. k + 1 |-> SeenStep(n, order, g, i)]
    <3> HIDE DEF g
    <3> QED BY <2>3, <2>4
  <2> HIDE DEF g
  <2> QED BY <2>5
<1>3. Nat \subseteq Has
  <2> HIDE DEF Has
  <2> QED BY <1>1, <1>2, Induction
<1> QED BY <1>3

LEMMA SeenAllGood ==
  ASSUME KadAssumption, NEW n, NEW heard, NEW order \in Seq(Nodes), buckets[n] \in KadTables,
         TableGood(n, buckets[n], heard)
  PROVE  /\ SeenAll(n, order) \in KadTables
         /\ TableGood(n, SeenAll(n, order), heard \cup {order[i] : i \in 1 .. Len(order)})
<1> DEFINE f == SeenUpTo(n, order)
           all == heard \cup {order[i] : i \in 1 .. Len(order)}
           Holds == {k \in Nat : k <= Len(order) => f[k] \in KadTables /\ TableGood(n, f[k], all)}
<1>0. Len(order) \in Nat /\ \A i \in 1 .. Len(order) : order[i] \in Nodes
  OBVIOUS
<1>1. f = [i \in 0 .. Len(order) |-> SeenStep(n, order, f, i)]
  <2>1. \E g : g = [i \in 0 .. Len(order) |-> SeenStep(n, order, g, i)]
    <3>1. Len(order) \in Nat
      BY <1>0
    <3> DEFINE len == Len(order)
    <3>2. len \in Nat
      BY <3>1
    <3> HIDE DEF len
    <3>3. \E g : g = [i \in 0 .. len |-> SeenStep(n, order, g, i)]
      BY ONLY <3>2, SeenExists
    <3> QED BY <3>3 DEF len
  <2> QED BY <2>1, Zenon DEF SeenUpTo
<1> HIDE DEF f
<1>2. \A i \in 0 .. Len(order) : f[i] = SeenStep(n, order, f, i)
  BY <1>1
<1>3. TableGood(n, buckets[n], all)
  BY DEF TableGood, BucketGood
<1>4. 0 \in Holds
  BY <1>0, <1>2, <1>3 DEF SeenStep
<1>5. ASSUME NEW k \in Nat, k \in Holds PROVE k + 1 \in Holds
  <2> SUFFICES ASSUME k + 1 <= Len(order) PROVE f[k + 1] \in KadTables /\ TableGood(n, f[k + 1], all)
    OBVIOUS
  <2>1. f[k] \in KadTables /\ TableGood(n, f[k], all)
    BY <1>0, <1>5
  <2>2. k + 1 \in 0 .. Len(order) /\ k + 1 # 0 /\ (k + 1) - 1 = k /\ k + 1 \in 1 .. Len(order)
    BY ONLY <1>0, k \in Nat, k + 1 <= Len(order)
  <2>3. f[k + 1] = Seen(n, f[k], order[k + 1])
    BY <1>2, <2>2 DEF SeenStep
  <2>4. all \cup {order[k + 1]} = all /\ order[k + 1] \in Nodes
    BY <1>0, <2>2
  <2> HIDE DEF all
  <2> QED BY <2>1, <2>3, <2>4, SeenGood
<1>6. Nat \subseteq Holds
  <2> HIDE DEF Holds
  <2> QED BY <1>4, <1>5, Induction
<1>7. f[Len(order)] \in KadTables /\ TableGood(n, f[Len(order)], all)
  <2>1. Len(order) \in Holds
    BY <1>0, <1>6
  <2> QED BY <1>0, <2>1
<1> QED BY <1>7, SeenAllIs DEF f

LEMMA NearestAmong == \A t, n, S : Nearest(t, n, S) \subseteq S
BY DEF Nearest

LEMMA ClosestKnown ==
  ASSUME NEW table \in KadTables, NEW t PROVE Closest(table, t) \subseteq Nodes /\ Contacts(table) \subseteq Nodes
<1>1. \A i \in KadRows : \A e \in ToSet(table[i]) : e \in KadEntries
  BY DEF KadTables, ToSet
<1>2. \A e \in KadEntries : e.id \in Nodes
  BY DEF KadEntries
<1>3. Contacts(table) \subseteq Nodes
  BY <1>1, <1>2 DEF Contacts, KadRows
<1> QED BY <1>3, NearestAmong DEF Closest

LEMMA NodesFinite == KadAssumption => IsFiniteSet(Nodes)
<1> SUFFICES ASSUME KadAssumption PROVE IsFiniteSet(Nodes)
  OBVIOUS
<1>1. Bits - 1 \in Int /\ 0 \in Int
  BY DEF KadAssumption
<1>2. IsFiniteSet(0..Bits - 1)
  BY <1>1, FS_Interval
<1>3. IsFiniteSet(SUBSET (0..Bits - 1))
  BY <1>2, FS_SUBSET
<1> QED BY <1>3, FS_Subset DEF KadAssumption, Ids

LEMMA InOrder ==
  ASSUME KadAssumption, NEW S, S \subseteq Nodes, NEW order \in SetToSeqs(S)
  PROVE  order \in Seq(Nodes) /\ {order[i] : i \in 1 .. Len(order)} \subseteq S
<1> DEFINE n == Cardinality(S)
<1>1. n \in Nat
  BY NodesFinite, FS_Subset, FS_CardinalityType
<1>2. order \in [1 .. n -> S]
  BY DEF SetToSeqs
<1> HIDE DEF n
<1>3. order \in Seq(S)
  BY <1>1, <1>2
<1>4. order \in Seq(Nodes) /\ \A i \in 1 .. Len(order) : order[i] \in S
  BY <1>3
<1> QED BY <1>4

LEMMA InSomeOrder ==
  ASSUME NEW S, IsFiniteSet(S)
  PROVE  /\ SetToSeq(S) \in Seq(S)
         /\ \A i, j \in 1 .. Len(SetToSeq(S)) : SetToSeq(S)[i] = SetToSeq(S)[j] => i = j
<1> DEFINE n == Cardinality(S)
<1>1. n \in Nat /\ ExistsBijection(1 .. n, S)
  BY FS_CardinalityType
<1>2. \E f \in [1 .. n -> S] : IsInjective(f)
  BY <1>1 DEF ExistsBijection, Bijection, Injection
<1>3. SetToSeq(S) \in [1 .. n -> S] /\ IsInjective(SetToSeq(S))
  BY <1>2 DEF SetToSeq
<1> DEFINE q == SetToSeq(S)
<1> HIDE DEF n, q
<1>4. q \in Seq(S) /\ Len(q) = n /\ DOMAIN q = 1 .. n
  BY <1>1, <1>3 DEF q
<1>5. \A i, j \in 1 .. n : q[i] = q[j] => i = j
  BY <1>3, <1>4 DEF IsInjective, q
<1> QED BY <1>4, <1>5 DEF q

LEMMA FirstTables ==
  ASSUME KadAssumption, NEW n \in Nodes, NEW b \in Tables(n)
  PROVE  b \in KadTables /\ TableGood(n, b, Contacts(b))
<1>1. PICK S \in SUBSET (Nodes \ {n}) :
        b = [i \in 0..Bits - 1 |-> SetToSeq({[id |-> m, stale |-> FALSE] : m \in {c \in S : BucketIndex(n, c) = i}})]
  BY DEF Tables
<1>2. ASSUME NEW i \in KadRows PROVE b[i] \in Seq(KadEntries) /\ BucketGood(n, i, b[i], Contacts(b))
  <2> DEFINE C == {c \in S : BucketIndex(n, c) = i}
             E == {[id |-> m, stale |-> FALSE] : m \in C}
             q == SetToSeq(E)
  <2>1. IsFiniteSet(C)
    <3>1. C \in SUBSET Nodes
      OBVIOUS
    <3> HIDE DEF C
    <3> QED BY <3>1, NodesFinite, FS_Subset
  <2>2. IsFiniteSet(E)
    <3> DEFINE f == [m \in C |-> [id |-> m, stale |-> FALSE]]
    <3>1. f \in [C -> E] /\ \A e \in E : \E m \in C : f[m] = e
      OBVIOUS
    <3>2. f \in Surjection(C, E)
      BY <3>1 DEF Surjection
    <3> HIDE DEF C, E, f
    <3> QED BY <2>1, <3>2, FS_Surjection
  <2>3. \A m \in C : m \in Nodes \ {n} /\ m \in S /\ BucketIndex(n, m) = i
    OBVIOUS
  <2>31. \A e \in E : \E m \in C : e = [id |-> m, stale |-> FALSE]
    OBVIOUS
  <2>4. b[i] = q
    BY <1>1 DEF KadRows
  <2> HIDE DEF C
  <2>32. \A e \in E : e \in KadEntries /\ e.id \in S /\ e.id # n /\ BucketIndex(n, e.id) = i
    <3> HIDE DEF E
    <3> SUFFICES ASSUME NEW e \in E
                 PROVE  e \in KadEntries /\ e.id \in S /\ e.id # n /\ BucketIndex(n, e.id) = i
      OBVIOUS
    <3>1. PICK m \in C : e = [id |-> m, stale |-> FALSE]
      BY <2>31
    <3>2. e.id = m /\ m \in Nodes /\ m # n /\ m \in S /\ BucketIndex(n, m) = i
      BY <2>3, <3>1
    <3>3. [id |-> m, stale |-> FALSE] \in KadEntries
      BY <3>2 DEF KadEntries
    <3> QED BY <3>1, <3>2, <3>3
  <2>33. \A e, d \in E : e.id = d.id => e = d
    <3> HIDE DEF E
    <3> SUFFICES ASSUME NEW e \in E, NEW d \in E, e.id = d.id PROVE e = d
      OBVIOUS
    <3>1. PICK m \in C : e = [id |-> m, stale |-> FALSE]
      BY <2>31
    <3>2. PICK l \in C : d = [id |-> l, stale |-> FALSE]
      BY <2>31
    <3>3. e.id = m /\ d.id = l
      BY <3>1, <3>2
    <3> QED BY <3>1, <3>2, <3>3
  <2> HIDE DEF E
  <2>5. q \in Seq(E) /\ \A j, k \in 1 .. Len(q) : q[j] = q[k] => j = k
    BY <2>2, InSomeOrder
  <2> HIDE DEF q
  <2>6. \A j \in 1 .. Len(q) : q[j] \in E
    BY <2>5
  <2>7. q \in Seq(KadEntries)
    BY <2>32, <2>5
  <2>8. \A j, k \in 1 .. Len(q) : q[j].id = q[k].id => j = k
    <3> SUFFICES ASSUME NEW j \in 1 .. Len(q), NEW k \in 1 .. Len(q), q[j].id = q[k].id PROVE j = k
      OBVIOUS
    <3>1. q[j] = q[k]
      BY <2>33, <2>6
    <3> QED BY <2>5, <3>1
  <2>9. \A j \in 1 .. Len(q) : q[j].id \in Contacts(b)
    <3>1. \A j \in 1 .. Len(q) : q[j] \in ToSet(b[i])
      BY <2>4, <2>5 DEF ToSet
    <3> QED BY <3>1 DEF Contacts, KadRows
  <2>10. \A j \in 1 .. Len(q) : q[j].id # n /\ BucketIndex(n, q[j].id) = i
    BY <2>32, <2>6
  <2> QED BY <2>4, <2>7, <2>8, <2>9, <2>10 DEF BucketGood
<1>3. b = [i \in KadRows |-> b[i]]
  BY <1>1 DEF KadRows
<1>4. b \in KadTables
  BY <1>2, <1>3 DEF KadTables
<1> QED BY <1>2, <1>4 DEF TableGood

-----------------------------------------------------------------------------
(* Kad: walks *)

RepliesGood(replies) ==
  /\ DOMAIN replies \subseteq Nodes
  /\ \A c \in DOMAIN replies : replies[c].t = "came" => replies[c].contacts \subseteq Nodes
\* A walk of a node, among nodes.
GoodWalk(x) ==
  \E pc, owner, call, target, kind, short, asked, providers, queries, round, replies :
    /\ x = [pc |-> pc, owner |-> owner, call |-> call, target |-> target, kind |-> kind, short |-> short,
            asked |-> asked, providers |-> providers, queries |-> queries, round |-> round,
            replies |-> replies]
    /\ owner \in Nodes /\ short \subseteq Nodes /\ RepliesGood(replies)

LEMMA GoodWalkFields ==
  ASSUME NEW x, GoodWalk(x)
  PROVE  x.owner \in Nodes /\ x.short \subseteq Nodes /\ RepliesGood(x.replies)
BY DEF GoodWalk

LEMMA WalkOf ==
  ASSUME NEW pc, NEW owner \in Nodes, NEW call, NEW target, NEW kind, NEW short, short \subseteq Nodes,
         NEW asked, NEW providers, NEW queries, NEW round, NEW replies, RepliesGood(replies),
         NEW x, x = [pc |-> pc, owner |-> owner, call |-> call, target |-> target, kind |-> kind,
                     short |-> short, asked |-> asked, providers |-> providers, queries |-> queries,
                     round |-> round, replies |-> replies]
  PROVE  GoodWalk(x)
<1> SUFFICES \E pc_, owner_, call_, target_, kind_, short_, asked_, providers_, queries_, round_, replies_ :
    /\ x = [pc |-> pc_, owner |-> owner_, call |-> call_, target |-> target_, kind |-> kind_,
            short |-> short_, asked |-> asked_, providers |-> providers_, queries |-> queries_,
            round |-> round_, replies |-> replies_]
    /\ owner_ \in Nodes /\ short_ \subseteq Nodes /\ RepliesGood(replies_)
  BY DEF GoodWalk
<1> WITNESS pc, owner, call, target, kind, short, asked, providers, queries, round, replies
<1> QED OBVIOUS

LEMMA GoodWalkField ==
  ASSUME NEW x, GoodWalk(x), NEW pc, NEW queries, NEW asked, NEW round, NEW providers,
         NEW short, short \subseteq Nodes, NEW replies, RepliesGood(replies)
  PROVE  /\ GoodWalk([x EXCEPT !.pc = pc])
         /\ GoodWalk([x EXCEPT !.round = round])
         /\ GoodWalk([x EXCEPT !.replies = replies])
         /\ GoodWalk([x EXCEPT !.providers = providers])
         /\ GoodWalk([x EXCEPT !.short = short])
         /\ GoodWalk([x EXCEPT !.queries = queries])
         /\ GoodWalk([x EXCEPT !.asked = asked])
<1>1. PICK pc0, owner0, call0, target0, kind0, short0, asked0, providers0, queries0, round0, replies0 :
        /\ x = [pc |-> pc0, owner |-> owner0, call |-> call0, target |-> target0, kind |-> kind0, short |-> short0,
                asked |-> asked0, providers |-> providers0, queries |-> queries0, round |-> round0,
                replies |-> replies0]
        /\ owner0 \in Nodes /\ short0 \subseteq Nodes /\ RepliesGood(replies0)
  BY DEF GoodWalk
<1>2. GoodWalk([x EXCEPT !.pc = pc])
  <2>1. [x EXCEPT !.pc = pc] =
      [pc |-> pc, owner |-> owner0, call |-> call0, target |-> target0, kind |-> kind0, short |-> short0,
       asked |-> asked0, providers |-> providers0, queries |-> queries0, round |-> round0, replies |-> replies0]
    BY <1>1
  <2> QED BY ONLY <1>1, <2>1, short \subseteq Nodes, RepliesGood(replies), WalkOf
<1>3. GoodWalk([x EXCEPT !.round = round])
  <2>1. [x EXCEPT !.round = round] =
      [pc |-> pc0, owner |-> owner0, call |-> call0, target |-> target0, kind |-> kind0, short |-> short0,
       asked |-> asked0, providers |-> providers0, queries |-> queries0, round |-> round, replies |-> replies0]
    BY <1>1
  <2> QED BY ONLY <1>1, <2>1, short \subseteq Nodes, RepliesGood(replies), WalkOf
<1>4. GoodWalk([x EXCEPT !.replies = replies])
  <2>1. [x EXCEPT !.replies = replies] =
      [pc |-> pc0, owner |-> owner0, call |-> call0, target |-> target0, kind |-> kind0, short |-> short0,
       asked |-> asked0, providers |-> providers0, queries |-> queries0, round |-> round0, replies |-> replies]
    BY <1>1
  <2> QED BY ONLY <1>1, <2>1, short \subseteq Nodes, RepliesGood(replies), WalkOf
<1>5. GoodWalk([x EXCEPT !.providers = providers])
  <2>1. [x EXCEPT !.providers = providers] =
      [pc |-> pc0, owner |-> owner0, call |-> call0, target |-> target0, kind |-> kind0, short |-> short0,
       asked |-> asked0, providers |-> providers, queries |-> queries0, round |-> round0, replies |-> replies0]
    BY <1>1
  <2> QED BY ONLY <1>1, <2>1, short \subseteq Nodes, RepliesGood(replies), WalkOf
<1>6. GoodWalk([x EXCEPT !.short = short])
  <2>1. [x EXCEPT !.short = short] =
      [pc |-> pc0, owner |-> owner0, call |-> call0, target |-> target0, kind |-> kind0, short |-> short,
       asked |-> asked0, providers |-> providers0, queries |-> queries0, round |-> round0, replies |-> replies0]
    BY <1>1
  <2> QED BY ONLY <1>1, <2>1, short \subseteq Nodes, RepliesGood(replies), WalkOf
<1>7. GoodWalk([x EXCEPT !.queries = queries])
  <2>1. [x EXCEPT !.queries = queries] =
      [pc |-> pc0, owner |-> owner0, call |-> call0, target |-> target0, kind |-> kind0, short |-> short0,
       asked |-> asked0, providers |-> providers0, queries |-> queries, round |-> round0, replies |-> replies0]
    BY <1>1
  <2> QED BY ONLY <1>1, <2>1, short \subseteq Nodes, RepliesGood(replies), WalkOf
<1>8. GoodWalk([x EXCEPT !.asked = asked])
  <2>1. [x EXCEPT !.asked = asked] =
      [pc |-> pc0, owner |-> owner0, call |-> call0, target |-> target0, kind |-> kind0, short |-> short0,
       asked |-> asked, providers |-> providers0, queries |-> queries0, round |-> round0, replies |-> replies0]
    BY <1>1
  <2> QED BY ONLY <1>1, <2>1, short \subseteq Nodes, RepliesGood(replies), WalkOf
<1> QED BY <1>2, <1>3, <1>4, <1>5, <1>6, <1>7, <1>8

LEMMA GoodWalkNext ==
  ASSUME NEW x, GoodWalk(x), NEW pc, NEW queries, NEW asked, NEW round, NEW providers,
         NEW short, short \subseteq Nodes, NEW replies, RepliesGood(replies)
  PROVE  /\ GoodWalk([x EXCEPT !.pc = pc, !.replies = replies])
         /\ GoodWalk([x EXCEPT !.pc = pc, !.replies = replies, !.providers = providers])
         /\ GoodWalk([x EXCEPT !.pc = pc, !.queries = queries, !.asked = asked, !.replies = replies])
         /\ GoodWalk([x EXCEPT !.pc = pc, !.round = round, !.replies = replies, !.providers = providers,
                               !.short = short])
<1>1. GoodWalk([x EXCEPT !.pc = pc, !.replies = replies])
  <2>0. [x EXCEPT !.pc = pc, !.replies = replies]
        = [[x EXCEPT !.pc = pc] EXCEPT !.replies = replies]
    BY ONLY GoodWalk(x) DEF GoodWalk
  <2>1. GoodWalk([x EXCEPT !.pc = pc])
    BY GoodWalkField
  <2>2. GoodWalk([[x EXCEPT !.pc = pc] EXCEPT !.replies = replies])
    BY <2>1, GoodWalkField
  <2> QED BY <2>0, <2>2
<1>2. GoodWalk([x EXCEPT !.pc = pc, !.replies = replies, !.providers = providers])
  <2>0. [x EXCEPT !.pc = pc, !.replies = replies, !.providers = providers]
        = [[[x EXCEPT !.pc = pc] EXCEPT !.replies = replies]
                  EXCEPT !.providers = providers]
    BY ONLY GoodWalk(x) DEF GoodWalk
  <2>1. GoodWalk([x EXCEPT !.pc = pc])
    BY GoodWalkField
  <2>2. GoodWalk([[x EXCEPT !.pc = pc] EXCEPT !.replies = replies])
    BY <2>1, GoodWalkField
  <2>3. GoodWalk([[[x EXCEPT !.pc = pc] EXCEPT !.replies = replies]
                  EXCEPT !.providers = providers])
    BY <2>2, GoodWalkField
  <2> QED BY <2>0, <2>3
<1>3. GoodWalk([x EXCEPT !.pc = pc, !.queries = queries, !.asked = asked, !.replies = replies])
  <2>0. [x EXCEPT !.pc = pc, !.queries = queries, !.asked = asked, !.replies = replies]
        = [[[[x EXCEPT !.pc = pc] EXCEPT !.queries = queries] EXCEPT !.asked = asked]
                  EXCEPT !.replies = replies]
    BY ONLY GoodWalk(x) DEF GoodWalk
  <2>1. GoodWalk([x EXCEPT !.pc = pc])
    BY GoodWalkField
  <2>2. GoodWalk([[x EXCEPT !.pc = pc] EXCEPT !.queries = queries])
    BY <2>1, GoodWalkField
  <2>3. GoodWalk([[[x EXCEPT !.pc = pc] EXCEPT !.queries = queries] EXCEPT !.asked = asked])
    BY <2>2, GoodWalkField
  <2>4. GoodWalk([[[[x EXCEPT !.pc = pc] EXCEPT !.queries = queries] EXCEPT !.asked = asked]
                  EXCEPT !.replies = replies])
    BY <2>3, GoodWalkField
  <2> QED BY <2>0, <2>4
<1>4. GoodWalk([x EXCEPT !.pc = pc, !.round = round, !.replies = replies, !.providers = providers,
                               !.short = short])
  <2>0. [x EXCEPT !.pc = pc, !.round = round, !.replies = replies, !.providers = providers, !.short = short]
        = [[[[[x EXCEPT !.pc = pc] EXCEPT !.round = round] EXCEPT !.replies = replies]
                  EXCEPT !.providers = providers] EXCEPT !.short = short]
    BY ONLY GoodWalk(x) DEF GoodWalk
  <2>1. GoodWalk([x EXCEPT !.pc = pc])
    BY GoodWalkField
  <2>2. GoodWalk([[x EXCEPT !.pc = pc] EXCEPT !.round = round])
    BY <2>1, GoodWalkField
  <2>3. GoodWalk([[[x EXCEPT !.pc = pc] EXCEPT !.round = round] EXCEPT !.replies = replies])
    BY <2>2, GoodWalkField
  <2>4. GoodWalk([[[[x EXCEPT !.pc = pc] EXCEPT !.round = round] EXCEPT !.replies = replies]
                  EXCEPT !.providers = providers])
    BY <2>3, GoodWalkField
  <2>5. GoodWalk([[[[[x EXCEPT !.pc = pc] EXCEPT !.round = round] EXCEPT !.replies = replies]
                  EXCEPT !.providers = providers] EXCEPT !.short = short])
    BY <2>4, GoodWalkField
  <2> QED BY <2>0, <2>5
<1> QED BY <1>1, <1>2, <1>3, <1>4

LEMMA GoodAfterEnd ==
  ASSUME NEW x, GoodWalk(x) PROVE GoodWalk(Ended(x))
<1> DEFINE r == [c \in Found(x) |-> Pending]
<1>1. Found(x) \subseteq Nodes
  BY GoodWalkFields, NearestAmong DEF Found
<1>2. RepliesGood(r)
  BY <1>1 DEF RepliesGood, Pending
<1> HIDE DEF r
<1>3. GoodWalk([x EXCEPT !.pc = "announce", !.replies = r]) /\ GoodWalk([x EXCEPT !.pc = "done"])
  <2>1. {} \subseteq Nodes
    OBVIOUS
  <2> QED BY <1>2, <2>1, GoodWalkNext, GoodWalkField
<1> QED BY <1>3 DEF Ended, r

-----------------------------------------------------------------------------
(* Kad: the invariant *)

\* Whatever a table holds was heard from, or answered for; what walks know and are told are nodes.
KadInv ==
  /\ met \in [Nodes -> SUBSET Nodes] /\ vouched \in [Nodes -> SUBSET Nodes]
  /\ buckets \in [Nodes -> KadTables]
  /\ \A n \in Nodes : TableGood(n, buckets[n], met[n] \cup vouched[n])
  /\ DOMAIN walk = Walks
  /\ \A w \in Walks : walk[w] = NoWalk \/ GoodWalk(walk[w])

\* A table of one node changes, and it has met more or heard somebody answer for more.

LEMMA TableChanges ==
  ASSUME KadInv, NEW n \in Nodes, NEW table \in KadTables, NEW more, more \subseteq Nodes,
         TableGood(n, table, met[n] \cup vouched[n] \cup more),
         buckets' = [buckets EXCEPT ![n] = table],
         \/ met' = [met EXCEPT ![n] = met[n] \cup more] /\ UNCHANGED vouched
         \/ vouched' = [vouched EXCEPT ![n] = vouched[n] \cup more] /\ UNCHANGED met
  PROVE  /\ met' \in [Nodes -> SUBSET Nodes] /\ vouched' \in [Nodes -> SUBSET Nodes]
         /\ buckets' \in [Nodes -> KadTables]
         /\ \A m \in Nodes : TableGood(m, buckets'[m], met'[m] \cup vouched'[m])
<1>1. met[n] \cup more \in SUBSET Nodes /\ vouched[n] \cup more \in SUBSET Nodes
  BY DEF KadInv
<1>2. /\ met' \in [Nodes -> SUBSET Nodes] /\ vouched' \in [Nodes -> SUBSET Nodes]
      /\ buckets' \in [Nodes -> KadTables]
  BY <1>1 DEF KadInv
<1>3. \A m \in Nodes : buckets'[m] = IF m = n THEN table ELSE buckets[m]
  BY DEF KadInv
<1>4. \A m \in Nodes : met'[m] \cup vouched'[m] =
        IF m = n THEN met[n] \cup vouched[n] \cup more ELSE met[m] \cup vouched[m]
  <2>1. CASE met' = [met EXCEPT ![n] = met[n] \cup more] /\ UNCHANGED vouched
    <3>1. \A m \in Nodes : met'[m] = IF m = n THEN met[n] \cup more ELSE met[m]
      BY <2>1 DEF KadInv
    <3> QED BY <2>1, <3>1
  <2>2. CASE vouched' = [vouched EXCEPT ![n] = vouched[n] \cup more] /\ UNCHANGED met
    <3>1. \A m \in Nodes : vouched'[m] = IF m = n THEN vouched[n] \cup more ELSE vouched[m]
      BY <2>2 DEF KadInv
    <3> QED BY <2>2, <3>1
  <2> QED BY <2>1, <2>2
<1>5. \A m \in Nodes \ {n} : TableGood(m, buckets[m], met[m] \cup vouched[m])
  BY DEF KadInv
<1> QED BY <1>2, <1>3, <1>4, <1>5

\* A walk changes.

LEMMA WalkChanges ==
  ASSUME KadInv, NEW w \in Walks, NEW x, x = NoWalk \/ GoodWalk(x), walk' = [walk EXCEPT ![w] = x]
  PROVE  DOMAIN walk' = Walks /\ \A v \in Walks : walk'[v] = NoWalk \/ GoodWalk(walk'[v])
<1>1. \A v \in Walks : walk'[v] = IF v = w THEN x ELSE walk[v]
  BY DEF KadInv
<1> QED BY <1>1 DEF KadInv

LEMMA WalkRuns ==
  ASSUME KadInv, NEW w \in Walks, walk[w].pc # "idle" PROVE GoodWalk(walk[w])
BY DEF KadInv, NoWalk

\* A reply names nodes.

LEMMA ReplyNamesNodes ==
  ASSUME NEW n, NEW table \in KadTables, NEW kind, NEW t PROVE Reply(n, table, kind, t).contacts \subseteq Nodes
<1>1. Closest(table, t) \subseteq Nodes
  BY ClosestKnown
<1> QED BY <1>1 DEF Reply

LEMMA OneReply ==
  ASSUME NEW x, GoodWalk(x), NEW c, NEW r, r.t = "came" => r.contacts \subseteq Nodes
  PROVE  GoodWalk([x EXCEPT !.replies[c] = r])
<1> DEFINE replies == [x.replies EXCEPT ![c] = r]
<1>1. RepliesGood(x.replies)
  BY GoodWalkFields
<1>2. RepliesGood(replies)
  <2>1. /\ DOMAIN replies = DOMAIN x.replies
        /\ \A d \in DOMAIN replies : replies[d] = IF d = c THEN r ELSE x.replies[d]
    OBVIOUS
  <2> HIDE DEF replies
  <2> QED BY <1>1, <2>1 DEF RepliesGood
<1>3. [x EXCEPT !.replies[c] = r] = [x EXCEPT !.replies = replies]
  OBVIOUS
<1> HIDE DEF replies
<1>4. {} \subseteq Nodes
  OBVIOUS
<1> QED BY <1>2, <1>3, <1>4, GoodWalkField

LEMMA KadInit_Inv == KadAssumption /\ KadInit => KadInv
<1> SUFFICES ASSUME KadAssumption, KadInit PROVE KadInv
  OBVIOUS
<1>1. \A n \in Nodes : buckets[n] \in Tables(n)
  BY DEF KadInit
<1>2. \A n \in Nodes : buckets[n] \in KadTables /\ TableGood(n, buckets[n], Contacts(buckets[n]))
  BY <1>1, FirstTables
<1>3. \A n \in Nodes : Contacts(buckets[n]) \subseteq Nodes
  BY <1>2, ClosestKnown
<1>4. buckets \in [Nodes -> KadTables]
  <2>1. buckets = [n \in Nodes |-> buckets[n]]
    BY DEF KadInit
  <2> QED BY <1>2, <2>1
<1>5. /\ met \in [Nodes -> SUBSET Nodes] /\ vouched \in [Nodes -> SUBSET Nodes]
      /\ \A n \in Nodes : met[n] \cup vouched[n] = Contacts(buckets[n])
  BY <1>3 DEF KadInit
<1>6. DOMAIN walk = Walks /\ \A w \in Walks : walk[w] = NoWalk
  BY DEF KadInit
<1> QED BY <1>2, <1>4, <1>5, <1>6 DEF KadInv

LEMMA BeginGood ==
  ASSUME KadInv, NEW n \in Nodes, NEW call, NEW t PROVE GoodWalk(Begin(n, call, t))
<1>1. Closest(buckets[n], t) \subseteq Nodes
  BY ClosestKnown DEF KadInv
<1>2. RepliesGood(<< >>)
  BY DEF RepliesGood
<1> QED BY <1>1, <1>2, WalkOf DEF Begin

\* A request reaches d, with whatever becomes of the reply.
LEMMA ReachesKeeps ==
  ASSUME KadAssumption, KadInv, NEW w \in Walks, GoodWalk(walk[w]), NEW d \in Nodes, Reaches(d, walk[w]),
         NEW c, NEW r, r.t = "came" => r.contacts \subseteq Nodes, walk' = [walk EXCEPT ![w].replies[c] = r]
  PROVE  KadInv'
<1> DEFINE x == walk[w]
           table == Seen(d, buckets[d], x.owner)
<1>1. x.owner \in Nodes
  BY GoodWalkFields
<1>2. table \in KadTables /\ TableGood(d, table, met[d] \cup vouched[d] \cup {x.owner})
  BY <1>1, SeenGood DEF KadInv
<1>3. /\ buckets' = [buckets EXCEPT ![d] = table] /\ met' = [met EXCEPT ![d] = met[d] \cup {x.owner}]
      /\ UNCHANGED vouched
  BY DEF Reaches
<1>4. walk' = [walk EXCEPT ![w] = [x EXCEPT !.replies[c] = r]]
  OBVIOUS
<1>5. GoodWalk([x EXCEPT !.replies[c] = r])
  BY OneReply
<1> HIDE DEF table, x
<1>6. {x.owner} \subseteq Nodes
  BY <1>1
<1>7. DOMAIN walk' = Walks /\ \A v \in Walks : walk'[v] = NoWalk \/ GoodWalk(walk'[v])
  BY <1>4, <1>5, WalkChanges
<1> QED BY <1>2, <1>3, <1>6, <1>7, TableChanges DEF KadInv

LEMMA HandleKeeps ==
  ASSUME KadAssumption, KadInv, NEW w \in Walks, NEW c \in Nodes, Handle(w, c) PROVE KadInv'
<1> DEFINE r == Came(ReplyOf(c, walk[w]))
<1>1. GoodWalk(walk[w])
  BY WalkRuns DEF Handle, Awaited
<1>2. Reaches(c, walk[w]) /\ walk' = [walk EXCEPT ![w].replies[c] = r]
  BY DEF Handle
<1>3. ReplyOf(c, walk[w]).contacts \subseteq Nodes
  <2>1. Seen(c, buckets[c], walk[w].owner) \in KadTables
    BY <1>1, GoodWalkFields, SeenGood DEF KadInv
  <2> QED BY <2>1, ReplyNamesNodes DEF ReplyOf
<1>4. r.contacts \subseteq Nodes
  BY <1>3 DEF Came
<1> HIDE DEF r
<1> QED BY <1>1, <1>2, <1>4, ReachesKeeps

LEMMA MisdirectedKeeps ==
  ASSUME KadAssumption, KadInv, NEW w \in Walks, NEW c \in Nodes, NEW d \in Nodes, Misdirected(w, c, d)
  PROVE  KadInv'
<1>1. GoodWalk(walk[w])
  BY WalkRuns DEF Misdirected, Awaited
<1>2. Reaches(d, walk[w]) /\ walk' = [walk EXCEPT ![w].replies[c] = OtherReply] /\ OtherReply.t # "came"
  BY DEF Misdirected, OtherReply
<1> QED BY <1>1, <1>2, ReachesKeeps

LEMMA LocateKeeps ==
  ASSUME KadAssumption, KadInv, NEW w \in Walks, NEW p \in Nodes, LocateHolder(w, p) PROVE KadInv'
<1> DEFINE n == walk[w].owner
           table == Seen(n, buckets[n], p)
<1>1. n \in Nodes
  BY WalkRuns, GoodWalkFields DEF LocateHolder
<1>2. table \in KadTables /\ TableGood(n, table, met[n] \cup vouched[n] \cup {p})
  BY <1>1, SeenGood DEF KadInv
<1>3. /\ buckets' = [buckets EXCEPT ![n] = table] /\ walk' = [walk EXCEPT ![w] = NoWalk]
      /\ \/ met' = [met EXCEPT ![n] = met[n] \cup {p}] /\ UNCHANGED vouched
         \/ vouched' = [vouched EXCEPT ![n] = vouched[n] \cup {p}] /\ UNCHANGED met
  BY DEF LocateHolder
<1> HIDE DEF n, table
<1>4. DOMAIN walk' = Walks /\ \A v \in Walks : walk'[v] = NoWalk \/ GoodWalk(walk'[v])
  BY <1>3, WalkChanges
<1>5. {p} \subseteq Nodes
  OBVIOUS
<1>6. /\ met' \in [Nodes -> SUBSET Nodes] /\ vouched' \in [Nodes -> SUBSET Nodes]
      /\ buckets' \in [Nodes -> KadTables]
      /\ \A v \in Nodes : TableGood(v, buckets'[v], met'[v] \cup vouched'[v])
  BY <1>1, <1>2, <1>3, <1>5, TableChanges
<1> QED BY <1>4, <1>6 DEF KadInv

LEMMA IntroducedKeeps ==
  ASSUME KadAssumption, KadInv, NEW n \in Nodes, NEW m \in Nodes, Introduced(n, m) PROVE KadInv'
<1> DEFINE table == Seen(n, buckets[n], m)
<1>1. table \in KadTables /\ TableGood(n, table, met[n] \cup vouched[n] \cup {m})
  BY SeenGood DEF KadInv
<1>2. buckets' = [buckets EXCEPT ![n] = table] /\ UNCHANGED <<vouched, walk>>
  BY DEF Introduced
<1> HIDE DEF table
<1>3. PICK more \in {{}, {m}} : /\ met' = [met EXCEPT ![n] = met[n] \cup more]
                               /\ TableGood(n, table, met[n] \cup vouched[n] \cup more)
  <2>1. CASE met' = [met EXCEPT ![n] = @ \cup {m}]
    BY <1>1, <2>1
  <2>2. CASE m \in met[n] \cup vouched[n] /\ UNCHANGED met
    <3>1. met[n] \cup {} = met[n] /\ met[n] \cup vouched[n] \cup {} = met[n] \cup vouched[n] \cup {m}
      BY <2>2
    <3>2. met' = [met EXCEPT ![n] = met[n] \cup {}]
      BY <2>2, <3>1 DEF KadInv
    <3> QED BY <1>1, <3>1, <3>2
  <2> QED BY <2>1, <2>2 DEF Introduced
<1>4. more \subseteq Nodes
  OBVIOUS
<1>5. /\ met' \in [Nodes -> SUBSET Nodes] /\ vouched' \in [Nodes -> SUBSET Nodes]
      /\ buckets' \in [Nodes -> KadTables]
      /\ \A v \in Nodes : TableGood(v, buckets'[v], met'[v] \cup vouched'[v])
  BY <1>1, <1>2, <1>3, <1>4, TableChanges
<1>6. UNCHANGED walk
  BY <1>2
<1> QED BY <1>5, <1>6 DEF KadInv

\* The owner takes the replies that came, in any order.

LEMMA TakingKeeps ==
  ASSUME KadAssumption, KadInv, NEW x, GoodWalk(x), NEW order \in SetToSeqs(Answered(x)),
         buckets' = [buckets EXCEPT ![x.owner] = SeenAll(x.owner, order)],
         met' = [met EXCEPT ![x.owner] = @ \cup Answered(x)], UNCHANGED vouched
  PROVE  /\ met' \in [Nodes -> SUBSET Nodes] /\ vouched' \in [Nodes -> SUBSET Nodes]
         /\ buckets' \in [Nodes -> KadTables]
         /\ \A m \in Nodes : TableGood(m, buckets'[m], met'[m] \cup vouched'[m])
<1> DEFINE n == x.owner
           more == Answered(x)
           table == SeenAll(n, order)
           heard == {order[i] : i \in 1 .. Len(order)}
<1>1. n \in Nodes /\ more \subseteq Nodes
  BY GoodWalkFields DEF Answered, RepliesGood
<1>2. order \in Seq(Nodes) /\ heard \subseteq more
  BY <1>1, InOrder
<1>3. table \in KadTables /\ TableGood(n, table, met[n] \cup vouched[n] \cup heard)
  BY <1>1, <1>2, SeenAllGood DEF KadInv
<1> HIDE DEF more, table, heard, n
<1>4. TableGood(n, table, met[n] \cup vouched[n] \cup more)
  BY <1>2, <1>3 DEF TableGood, BucketGood
<1>5. buckets' = [buckets EXCEPT ![n] = table] /\ met' = [met EXCEPT ![n] = met[n] \cup more]
  BY DEF n, table, more
<1> QED BY <1>1, <1>3, <1>4, <1>5, TableChanges

LEMMA TakeRepliesKeeps ==
  ASSUME KadAssumption, KadInv, NEW w \in Walks, TakeReplies(w) PROVE KadInv'
<1> DEFINE x == walk[w]
           fresh == Told(x) \ (x.short \cup x.asked)
           kept == (x.short \ Silent(x)) \cup fresh
           providers == x.providers \cup (UNION {x.replies[c].providers : c \in Answered(x)} \ {x.owner})
           short == Nearest(x.target, 2 * K, kept)
           next == [x EXCEPT !.pc = "round", !.round = @ + 1, !.replies = <<>>, !.providers = providers,
                             !.short = short]
<1>1. GoodWalk(x)
  BY WalkRuns DEF TakeReplies
<1>2. PICK order \in SetToSeqs(Answered(x)) : buckets' = [buckets EXCEPT ![x.owner] = SeenAll(x.owner, order)]
  BY DEF TakeReplies, Enter
<1>3. met' = [met EXCEPT ![x.owner] = @ \cup Answered(x)] /\ UNCHANGED vouched
  BY DEF TakeReplies
<1>4. /\ met' \in [Nodes -> SUBSET Nodes] /\ vouched' \in [Nodes -> SUBSET Nodes]
      /\ buckets' \in [Nodes -> KadTables]
      /\ \A m \in Nodes : TableGood(m, buckets'[m], met'[m] \cup vouched'[m])
  <2> HIDE DEF x
  <2> QED BY <1>1, <1>2, <1>3, TakingKeeps
<1>5. walk' = [walk EXCEPT ![w] = next] \/ walk' = [walk EXCEPT ![w] = Ended(next)]
  BY DEF TakeReplies
<1>6. Told(x) \subseteq Nodes
  <2>1. \A c \in Answered(x) : x.replies[c].contacts \subseteq Nodes
    BY <1>1, GoodWalkFields DEF RepliesGood, Answered
  <2> HIDE DEF x
  <2> QED BY <2>1 DEF Told
<1>7. short \subseteq Nodes
  <2>1. kept \subseteq Nodes
    BY <1>1, <1>6, GoodWalkFields
  <2> HIDE DEF kept
  <2> QED BY <2>1, NearestAmong
<1>8. RepliesGood(<< >>)
  BY DEF RepliesGood
<1>9. GoodWalk(next)
  <2> DEFINE round == x.round + 1
             pc == "round"
  <2>1. next = [x EXCEPT !.pc = pc, !.round = round, !.replies = << >>, !.providers = providers, !.short = short]
    OBVIOUS
  <2> HIDE DEF next, short, providers, round, pc, x
  <2> QED BY <1>1, <1>7, <1>8, <2>1, GoodWalkNext
<1> HIDE DEF next, x
<1>10. GoodWalk(Ended(next))
  BY <1>9, GoodAfterEnd
<1> QED BY <1>4, <1>5, <1>9, <1>10, WalkChanges DEF KadInv

LEMMA TakeAcksKeeps ==
  ASSUME KadAssumption, KadInv, NEW w \in Walks, TakeAcks(w) PROVE KadInv'
<1> DEFINE x == walk[w]
           providers == UNION {x.replies[c].providers : c \in Answered(x)}
           next == [x EXCEPT !.pc = "done", !.replies = << >>, !.providers = providers]
<1>1. GoodWalk(x)
  BY WalkRuns DEF TakeAcks
<1>2. PICK order \in SetToSeqs(Answered(x)) : buckets' = [buckets EXCEPT ![x.owner] = SeenAll(x.owner, order)]
  BY DEF TakeAcks
<1>3. /\ met' = [met EXCEPT ![x.owner] = @ \cup Answered(x)] /\ UNCHANGED vouched
      /\ walk' = [walk EXCEPT ![w] = next]
  BY DEF TakeAcks
<1>4. /\ met' \in [Nodes -> SUBSET Nodes] /\ vouched' \in [Nodes -> SUBSET Nodes]
      /\ buckets' \in [Nodes -> KadTables]
      /\ \A m \in Nodes : TableGood(m, buckets'[m], met'[m] \cup vouched'[m])
  <2> HIDE DEF x, next
  <2> QED BY <1>1, <1>2, <1>3, TakingKeeps
<1>5. RepliesGood(<< >>) /\ {} \subseteq Nodes
  BY DEF RepliesGood
<1>6. GoodWalk(next)
  <2> HIDE DEF providers, x
  <2> QED BY <1>1, <1>5, GoodWalkNext
<1> HIDE DEF next, x
<1> QED BY <1>3, <1>4, <1>6, WalkChanges DEF KadInv

LEMMA AskRoundKeeps ==
  ASSUME KadAssumption, KadInv, NEW w \in Walks, AskRound(w) PROVE KadInv'
<1> DEFINE x == walk[w]
           replies == [c \in Batch(x) |-> Pending]
           queries == x.queries + Cardinality(Batch(x))
           asked == x.asked \cup Batch(x)
           next == [x EXCEPT !.pc = "wait", !.queries = queries, !.asked = asked, !.replies = replies]
<1>1. GoodWalk(x)
  BY WalkRuns DEF AskRound
<1>2. Batch(x) \subseteq Nodes
  BY <1>1, GoodWalkFields, NearestAmong DEF Batch
<1>3. RepliesGood(replies) /\ {} \subseteq Nodes
  BY <1>2 DEF RepliesGood, Pending
<1>4. walk' = [walk EXCEPT ![w] = Ended(x)] \/ walk' = [walk EXCEPT ![w] = next]
  BY DEF AskRound
<1>5. GoodWalk(next)
  <2> HIDE DEF replies, queries, asked, x
  <2> QED BY <1>1, <1>3, GoodWalkNext
<1> HIDE DEF next, x
<1>6. GoodWalk(Ended(x))
  BY <1>1, GoodAfterEnd
<1>7. DOMAIN walk' = Walks /\ \A v \in Walks : walk'[v] = NoWalk \/ GoodWalk(walk'[v])
  BY <1>4, <1>5, <1>6, WalkChanges
<1> QED BY <1>7 DEF KadInv, AskRound, heardVars

LEMMA GrowStaleKeeps ==
  ASSUME KadAssumption, KadInv, NEW n \in Nodes, NEW i \in KadRows, GrowStale(n, i) PROVE KadInv'
<1> DEFINE b == buckets[n][i]
           c == [b EXCEPT ![1].stale = TRUE]
           table == [buckets[n] EXCEPT ![i] = c]
<1>1. b \in Seq(KadEntries) /\ buckets[n] \in KadTables /\ TableGood(n, buckets[n], met[n] \cup vouched[n])
  BY DEF KadInv, KadTables
<1>2. Len(b) \in Nat /\ Len(b) > 0
  BY DEF GrowStale, KadAssumption
<1>3. buckets' = [buckets EXCEPT ![n] = table]
  BY DEF GrowStale
<1> HIDE DEF b
<1>4. c \in Seq(KadEntries) /\ Len(c) = Len(b) /\ \A j \in 1 .. Len(b) : c[j].id = b[j].id
  <2> DEFINE e == [b[1] EXCEPT !.stale = TRUE]
             m == Len(b)
  <2>1. b[1] \in KadEntries
    BY <1>1, <1>2
  <2>2. e \in KadEntries /\ e.id = b[1].id
    BY <2>1 DEF KadEntries
  <2>3. c = [b EXCEPT ![1] = e]
    OBVIOUS
  <2>4. b \in [1 .. m -> KadEntries] /\ m \in Nat
    BY <1>1
  <2> HIDE DEF c, e, m
  <2>5. c \in [1 .. m -> KadEntries] /\ \A j \in 1 .. m : c[j] = IF j = 1 THEN e ELSE b[j]
    BY <2>2, <2>3, <2>4
  <2>6. c \in Seq(KadEntries) /\ Len(c) = m
    BY <2>4, <2>5
  <2>7. \A j \in 1 .. m : c[j].id = b[j].id
    BY <2>2, <2>5
  <2> QED BY <2>6, <2>7 DEF m
<1> HIDE DEF c
<1>5. BucketGood(n, i, b, met[n] \cup vouched[n])
  BY <1>1 DEF TableGood, b
<1>6. BucketGood(n, i, c, met[n] \cup vouched[n])
  BY <1>4, <1>5 DEF BucketGood
<1>7. table \in KadTables /\ \A j \in KadRows : table[j] = IF j = i THEN c ELSE buckets[n][j]
  BY <1>1, <1>4 DEF KadTables
<1> HIDE DEF table
<1>8. TableGood(n, table, met[n] \cup vouched[n])
  BY <1>1, <1>6, <1>7 DEF TableGood
<1>9. /\ buckets' \in [Nodes -> KadTables]
      /\ \A m \in Nodes : buckets'[m] = IF m = n THEN table ELSE buckets[m]
  BY <1>3, <1>7 DEF KadInv
<1> QED BY <1>8, <1>9 DEF KadInv, GrowStale, heardVars

LEMMA KadNext_Inv == KadAssumption /\ KadInv /\ [KadNext]_kadVars => KadInv'
<1> SUFFICES ASSUME KadAssumption, KadInv, [KadNext]_kadVars PROVE KadInv'
  OBVIOUS
<1>1. ASSUME NEW w \in Walks, NEW n \in Nodes, Call(w, n) PROVE KadInv'
  <2>1. PICK x : GoodWalk(x) /\ walk' = [walk EXCEPT ![w] = x]
    <3>1. CASE walk' = [walk EXCEPT ![w] = Begin(n, "lookup", n)]
      BY <3>1, BeginGood
    <3>2. CASE \E k \in Keys : walk' = [walk EXCEPT ![w] = Begin(n, "announce", k)]
      BY <3>2, BeginGood
    <3>3. CASE \E k \in Keys : walk' = [walk EXCEPT ![w] = Begin(n, "find", k)]
      BY <3>3, BeginGood
    <3> QED BY <1>1, <3>1, <3>2, <3>3 DEF Call
  <2>2. DOMAIN walk' = Walks /\ \A v \in Walks : walk'[v] = NoWalk \/ GoodWalk(walk'[v])
    BY <2>1, WalkChanges
  <2> QED BY <1>1, <2>2 DEF KadInv, Call, heardVars
<1>2. ASSUME NEW w \in Walks, NEW c \in Nodes, Unanswered(w, c) PROVE KadInv'
  <2>1. GoodWalk(walk[w])
    BY <1>2, WalkRuns DEF Unanswered, Awaited
  <2>2. GoodWalk([walk[w] EXCEPT !.replies[c] = NoReply])
    BY <2>1, OneReply DEF NoReply
  <2>3. walk' = [walk EXCEPT ![w] = [walk[w] EXCEPT !.replies[c] = NoReply]]
    BY <1>2 DEF Unanswered
  <2>4. DOMAIN walk' = Walks /\ \A v \in Walks : walk'[v] = NoWalk \/ GoodWalk(walk'[v])
    BY <2>2, <2>3, WalkChanges
  <2> QED BY <1>2, <2>4 DEF KadInv, Unanswered, heardVars
<1>3. ASSUME NEW w \in Walks, Release(w) PROVE KadInv'
  <2>1. DOMAIN walk' = Walks /\ \A v \in Walks : walk'[v] = NoWalk \/ GoodWalk(walk'[v])
    BY <1>3, WalkChanges DEF Release
  <2> QED BY <1>3, <2>1 DEF KadInv, Release, heardVars
<1>4. ASSUME NEW n \in Nodes, Leave(n) PROVE KadInv'
  BY <1>4 DEF Leave, KadInv, heardVars
<1>5. ASSUME NEW n \in Nodes, NEW k \in Keys, Expire(n, k) PROVE KadInv'
  BY <1>5 DEF Expire, KadInv, heardVars
<1>6. CASE UNCHANGED kadVars
  BY <1>6 DEF kadVars, KadInv
<1> QED BY <1>1, <1>2, <1>3, <1>4, <1>5, <1>6, AskRoundKeeps, TakeRepliesKeeps, TakeAcksKeeps, HandleKeeps,
           MisdirectedKeeps, LocateKeeps, IntroducedKeeps, GrowStaleKeeps DEF KadNext, KadRows

LEMMA KadInv_Proven == KadInv => TableIsProven
<1> SUFFICES ASSUME KadInv, NEW n \in Nodes, NEW i \in 0..Bits - 1
             PROVE  /\ \A e \in ToSet(buckets[n][i]) : e.id \in (met[n] \cup vouched[n]) \ {n} /\ BucketIndex(n, e.id) = i
                    /\ \A j, l \in DOMAIN buckets[n][i] : buckets[n][i][j].id = buckets[n][i][l].id => j = l
  BY DEF TableIsProven
<1>1. buckets[n][i] \in Seq(KadEntries) /\ BucketGood(n, i, buckets[n][i], met[n] \cup vouched[n])
  BY DEF KadInv, KadTables, KadRows, TableGood
<1> DEFINE b == buckets[n][i]
<1>2. DOMAIN b = 1 .. Len(b) /\ BucketGood(n, i, b, met[n] \cup vouched[n])
  BY <1>1
<1> HIDE DEF b
<1>3. /\ \A e \in ToSet(b) : e.id \in (met[n] \cup vouched[n]) \ {n} /\ BucketIndex(n, e.id) = i
      /\ \A j, l \in DOMAIN b : b[j].id = b[l].id => j = l
  BY <1>2 DEF BucketGood, ToSet
<1> QED BY <1>3 DEF b

\* Whatever machines leave, whatever is lost or reaches another machine, and in whatever order the
\* replies of a walk come, a routing table holds only nodes that the machine heard from or at whose
\* given address somebody answered it, each once and in the bucket of its distance: what a reply
\* names is asked before it is kept.
THEOREM TableIsFirstHand == KadSpec => []TableIsProven
<1>1. KadInit => KadInv
  BY KadAssumption, KadInit_Inv
<1>2. KadInv /\ [KadNext]_kadVars => KadInv'
  BY KadAssumption, KadNext_Inv
<1>3. KadInv => TableIsProven
  BY KadInv_Proven
<1> QED BY <1>1, <1>2, <1>3, PTL DEF KadSpec

-----------------------------------------------------------------------------
(* Kad: nearness *)

\* Of some bits, the most significant is one of them, and none is more significant.

LEMMA MostSignificant ==
  ASSUME KadAssumption, NEW S \in Ids, S # {}
  PROVE  /\ Max(S) \in S /\ \A y \in S : y <= Max(S)
         /\ \A x \in S : (\A y \in S : y <= x) => Max(S) = x
<1> DEFINE B == {Bits - x : x \in S}
<1>1. \A x \in S : x \in Int /\ Bits - x \in Nat
  BY DEF Ids, KadAssumption
<1>2. B \subseteq Nat /\ B # {}
  BY <1>1
<1>3. \A z \in B : \E x \in S : z = Bits - x
  OBVIOUS
<1>4. \A x \in S : Bits - x \in B
  OBVIOUS
<1> HIDE DEF B
<1>5. PICK z \in B : \A y \in B : z <= y
  BY <1>2, LeastNumber
<1>6. PICK x \in S : z = Bits - x
  BY <1>3
<1>7. \A y \in S : x >= y
  <2> SUFFICES ASSUME NEW y \in S PROVE x >= y
    OBVIOUS
  <2>1. Bits - x <= Bits - y
    BY <1>4, <1>5, <1>6
  <2>2. x \in Int /\ y \in Int /\ Bits \in Int
    BY <1>1 DEF KadAssumption
  <2> QED BY <2>1, <2>2
<1>8. Max(S) \in S /\ \A y \in S : Max(S) >= y
  BY <1>7 DEF Max
<1>9. \A y \in S : y <= Max(S)
  BY <1>1, <1>8
<1>10. ASSUME NEW y \in S, \A v \in S : v <= y PROVE Max(S) = y
  <2>1. Max(S) <= y /\ y <= Max(S) /\ y \in Int /\ Max(S) \in Int
    BY <1>1, <1>8, <1>9, <1>10
  <2> QED BY <2>1
<1> QED BY <1>8, <1>9, <1>10

LEMMA DistanceIs ==
  \A a, b : /\ Distance(a, b) = Distance(b, a)
            /\ \A x : x \in Distance(a, b) <=> (x \in a /\ x \notin b) \/ (x \in b /\ x \notin a)
BY DEF Distance

LEMMA DistanceType ==
  ASSUME NEW a \in Ids, NEW b \in Ids, a # b PROVE Distance(a, b) \in Ids /\ Distance(a, b) # {}
BY DEF Distance, Ids

\* Of two ids one is closer to a third: the one that agrees with it in the first bit in which they differ.

LEMMA OneIsCloser ==
  ASSUME KadAssumption, NEW t, NEW a \in Ids, NEW b \in Ids, a # b
  PROVE  Closer(t, a, b) <=> ~Closer(t, b, a)
<1> DEFINE m == Max(Distance(a, b))
<1>1. m \in Distance(a, b) /\ Distance(b, a) = Distance(a, b)
  BY DistanceType, DistanceIs, MostSignificant
<1>2. Closer(t, a, b) <=> m \notin Distance(t, a)
  BY DEF Closer
<1>3. Closer(t, b, a) <=> m \notin Distance(t, b)
  BY <1>1 DEF Closer
<1> HIDE DEF m
<1> QED BY <1>1, <1>2, <1>3, DistanceIs

LEMMA CloserChain ==
  ASSUME KadAssumption, NEW t, NEW a \in Ids, NEW b \in Ids, NEW c \in Ids, Closer(t, a, b), Closer(t, b, c)
  PROVE  Closer(t, a, c)
<1> DEFINE m == Max(Distance(a, b))
           n == Max(Distance(b, c))
<1>0. a # b /\ b # c
  BY DEF Closer
<1>1. m \in Distance(a, b) /\ \A x \in Distance(a, b) : x <= m
  BY <1>0, DistanceType, MostSignificant
<1>2. n \in Distance(b, c) /\ \A x \in Distance(b, c) : x <= n
  BY <1>0, DistanceType, MostSignificant
<1>3. m \notin Distance(t, a) /\ n \notin Distance(t, b)
  BY DEF Closer
<1> HIDE DEF m, n
<1>4. m \in Distance(t, b) /\ m # n
  BY <1>1, <1>3, DistanceIs
<1>5. m \in Int /\ n \in Int /\ \A x \in Distance(a, c) : x \in Int
  <2>1. ASSUME NEW i \in Ids PROVE \A x \in i : x \in Int
    BY KadAssumption DEF Ids, KadAssumption
  <2>2. \A x : x \in a \/ x \in b \/ x \in c => x \in Int
    BY <2>1
  <2> QED BY <1>1, <1>2, <2>2, DistanceIs
\* p is the first bit in which a and c differ.
<1>6. ASSUME NEW p \in Distance(a, c), \A x \in Distance(a, c) : x <= p, p \notin Distance(t, a)
      PROVE  Closer(t, a, c)
  <2>1. a # c
    BY DistanceIs
  <2>2. Max(Distance(a, c)) = p
    BY <1>6, <2>1, DistanceType, MostSignificant
  <2> QED BY <1>6, <2>1, <2>2 DEF Closer
<1>7. \A x \in Distance(a, c) : x \in Distance(a, b) \/ x \in Distance(b, c)
  BY DistanceIs
<1>8. CASE n < m
  <2>1. m \notin Distance(b, c)
    BY <1>2, <1>5, <1>8
  <2>2. m \in Distance(a, c)
    BY <1>1, <2>1, DistanceIs
  <2>3. \A x \in Distance(a, c) : x <= m
    <3> SUFFICES ASSUME NEW x \in Distance(a, c) PROVE x <= m
      OBVIOUS
    <3>1. x <= m \/ x <= n
      BY <1>1, <1>2, <1>7
    <3> QED BY <1>5, <1>8, <3>1
  <2> QED BY <1>3, <1>6, <2>2, <2>3
<1>9. CASE m < n
  <2>1. n \notin Distance(a, b)
    BY <1>1, <1>5, <1>9
  <2>2. n \in Distance(a, c) /\ n \notin Distance(t, a)
    BY <1>2, <1>3, <2>1, DistanceIs
  <2>3. \A x \in Distance(a, c) : x <= n
    <3> SUFFICES ASSUME NEW x \in Distance(a, c) PROVE x <= n
      OBVIOUS
    <3>1. x <= m \/ x <= n
      BY <1>1, <1>2, <1>7
    <3> QED BY <1>5, <1>9, <3>1
  <2> QED BY <1>6, <2>2, <2>3
<1> QED BY <1>4, <1>5, <1>8, <1>9

\* However many there are, no more than n are among the n nearest.

LEMMA NearestFew ==
  ASSUME KadAssumption, NEW t, NEW S, S \subseteq Nodes, NEW n \in Nat
  PROVE  IsFiniteSet(Nearest(t, n, S)) /\ Cardinality(Nearest(t, n, S)) <= n
<1> DEFINE N == Nearest(t, n, S)
           ahead(a) == {b \in S : Closer(t, b, a)}
           rank(a) == Cardinality(ahead(a))
<1>1. IsFiniteSet(S) /\ S \subseteq Ids
  BY NodesFinite, FS_Subset DEF KadAssumption
<1>2. ASSUME NEW a \in S PROVE IsFiniteSet(ahead(a)) /\ rank(a) \in Nat
  <2>1. ahead(a) \subseteq S
    OBVIOUS
  <2> HIDE DEF ahead
  <2> QED BY <1>1, <2>1, FS_Subset, FS_CardinalityType
<1>3. N \subseteq S /\ \A a \in N : rank(a) < n
  BY DEF Nearest
<1>4. IsFiniteSet(N)
  BY <1>1, <1>3, FS_Subset
<1> HIDE DEF N, rank
<1>5. CASE N = {}
  BY <1>4, <1>5, FS_EmptySet DEF N
<1>6. CASE N # {}
  <2> DEFINE B == {n - rank(a) : a \in N}
  <2>1. \A a \in N : n - rank(a) \in Nat
    <3> SUFFICES ASSUME NEW a \in N PROVE n - rank(a) \in Nat
      OBVIOUS
    <3>1. rank(a) \in Nat /\ rank(a) < n
      BY <1>2, <1>3
    <3> QED BY <3>1
  <2>2. B \subseteq Nat /\ B # {} /\ (\A a \in N : n - rank(a) \in B) /\ \A z \in B : \E a \in N : z = n - rank(a)
    BY <1>6, <2>1
  <2> HIDE DEF B
  <2>3. PICK z \in B : \A y \in B : z <= y
    BY <2>2, LeastNumber
  <2>4. PICK a \in N : z = n - rank(a)
    BY <2>2
  <2>5. \A b \in N : rank(b) <= rank(a)
    <3> SUFFICES ASSUME NEW b \in N PROVE rank(b) <= rank(a)
      OBVIOUS
    <3>1. n - rank(a) <= n - rank(b)
      BY <2>2, <2>3, <2>4
    <3>2. rank(a) \in Nat /\ rank(b) \in Nat
      BY <1>2, <1>3
    <3> QED BY <3>1, <3>2
  <2>6. ASSUME NEW b \in N, b # a PROVE b \in ahead(a)
    <3> SUFFICES ASSUME b \notin ahead(a) PROVE FALSE
      OBVIOUS
    <3>1. a \in Ids /\ b \in Ids /\ a \in S /\ b \in S
      BY <1>1, <1>3
    <3>2. Closer(t, a, b) /\ a \notin ahead(a)
      <4>1. ~Closer(t, b, a)
        BY <3>1
      <4> QED BY <2>6, <3>1, <4>1, OneIsCloser DEF Closer
    <3>3. ahead(a) \cup {a} \subseteq ahead(b)
      <4>1. \A c \in S : Closer(t, c, a) => Closer(t, c, b)
        BY <1>1, <3>1, <3>2, CloserChain
      <4> QED BY <3>1, <3>2, <4>1
    <3>4. IsFiniteSet(ahead(a)) /\ IsFiniteSet(ahead(b)) /\ rank(a) \in Nat /\ rank(b) \in Nat
      BY <1>2, <3>1
    <3> HIDE DEF ahead
    <3>5. Cardinality(ahead(a) \cup {a}) = Cardinality(ahead(a)) + 1
      BY <3>2, <3>4, FS_AddElement
    <3>6. Cardinality(ahead(a) \cup {a}) <= Cardinality(ahead(b))
      BY <3>3, <3>4, FS_Subset
    <3>7. rank(a) + 1 <= rank(b)
      BY <3>5, <3>6 DEF rank
    <3> QED BY <2>5, <3>4, <3>7
  <2>7. N \subseteq ahead(a) \cup {a}
    BY <2>6
  <2>8. IsFiniteSet(ahead(a)) /\ rank(a) \in Nat /\ rank(a) < n
    BY <1>2, <1>3
  <2>9. a \notin ahead(a)
    BY DEF Closer
  <2> HIDE DEF ahead
  <2>10. IsFiniteSet(ahead(a) \cup {a}) /\ Cardinality(ahead(a) \cup {a}) = rank(a) + 1
    BY <2>8, <2>9, FS_AddElement DEF rank
  <2>11. Cardinality(N) <= rank(a) + 1 /\ Cardinality(N) \in Nat
    BY <1>4, <2>7, <2>10, FS_Subset, FS_CardinalityType
  <2> QED BY <1>4, <2>8, <2>11 DEF N
<1> QED BY <1>5, <1>6

-----------------------------------------------------------------------------
(* Kad: the bounds *)

LEMMA FilterNoLonger ==
  ASSUME NEW A, NEW s \in Seq(A), NEW S PROVE Len(Filter(s, S)) <= Len(s)
<1> DEFINE n(k) == Len(KeptUpTo(s, S)[k])
           Holds == {k \in Nat : k <= Len(s) => n(k) \in Nat /\ n(k) <= k}
<1>0. Len(s) \in Nat
  OBVIOUS
<1>1. 0 \in Holds
  <2>1. n(0) = 0
    BY <1>0, KeptNone
  <2> HIDE DEF n
  <2> QED BY <1>0, <2>1
<1>2. ASSUME NEW k \in Nat, k \in Holds PROVE k + 1 \in Holds
  <2> SUFFICES ASSUME k + 1 <= Len(s) PROVE n(k + 1) \in Nat /\ n(k + 1) <= k + 1
    OBVIOUS
  <2>1. n(k) \in Nat /\ n(k) <= k
    BY <1>0, <1>2
  <2>2. n(k + 1) = n(k) + 1 \/ n(k + 1) = n(k)
    <3> DEFINE f == KeptUpTo(s, S)[k]
    <3>1. KeptUpTo(s, S)[k + 1] = IF s[k + 1] \in S THEN Append(f, s[k + 1]) ELSE f
      BY <1>0, KeptNext
    <3>2. s[k + 1] \in A
      BY <1>0
    <3>3. f \in Seq(A \cap S)
      <4>1. k \in 0 .. Len(s)
        BY <1>0
      <4> QED BY <4>1, KeptType
    <3>4. f \in Seq(A)
      BY <3>3
    <3> HIDE DEF f
    <3>5. Len(Append(f, s[k + 1])) = Len(f) + 1
      BY <3>2, <3>4
    <3>6. n(k + 1) = Len(f) + 1 \/ n(k + 1) = Len(f)
      BY <3>1, <3>5
    <3> QED BY <3>6 DEF f
  <2> HIDE DEF n
  <2> QED BY <2>1, <2>2
<1>3. Nat \subseteq Holds
  <2> HIDE DEF Holds
  <2> QED BY <1>1, <1>2, Induction
<1>4. n(Len(s)) <= Len(s)
  <2> HIDE DEF n
  <2> QED BY <1>0, <1>3
<1> QED BY <1>4, FilterIsKept

LEMMA SeenInShort ==
  ASSUME KadAssumption, NEW b \in Seq(KadEntries), Len(b) <= K, NEW c \in Nodes PROVE Len(SeenIn(b, c)) <= K
<1> DEFINE S == {e \in ToSet(b) : e.id # c}
           others == Filter(b, S)
           entry == [id |-> c, stale |-> FALSE]
           n == Len(b)
           o == Len(others)
           r == SeenIn(b, c)
<1>1. K \in Nat \ {0} /\ n \in Nat
  BY DEF KadAssumption
<1>2. others \in Seq(KadEntries \cap S) /\ o <= n
  BY FilterType, FilterNoLonger
<1>3. others \in Seq(KadEntries) /\ entry \in KadEntries
  BY <1>2 DEF KadEntries
<1>4. r = IF o < n \/ n < K THEN Append(others, entry) ELSE IF Head(b).stale THEN Append(Tail(b), entry) ELSE b
  BY DEF SeenIn
<1>5. o \in Nat /\ Len(Append(others, entry)) = o + 1
  BY <1>3
<1>6. n > 0 => Len(Append(Tail(b), entry)) = n
  BY <1>1, <1>3
<1>7. Len(r) = n \/ (Len(r) = o + 1 /\ (o < n \/ n < K))
  <2>1. CASE o < n \/ n < K
    <3>1. r = Append(others, entry)
      BY <1>4, <2>1
    <3> QED BY <1>5, <2>1, <3>1
  <2>2. CASE ~(o < n \/ n < K) /\ Head(b).stale
    <3>1. r = Append(Tail(b), entry)
      BY <1>4, <2>2
    <3>2. n > 0
      BY <1>1, <2>2
    <3> QED BY <1>6, <3>1, <3>2
  <2>3. CASE ~(o < n \/ n < K) /\ ~Head(b).stale
    <3>1. r = b
      BY <1>4, <2>3
    <3> QED BY <3>1
  <2> QED BY <2>1, <2>2, <2>3
<1>8. n <= K
  OBVIOUS
<1> HIDE DEF n, o, r, others
<1>9. Len(r) <= K
  BY <1>1, <1>2, <1>5, <1>7, <1>8
<1> QED BY <1>9 DEF r

TableShort(table) == \A i \in KadRows : Len(table[i]) <= K

LEMMA SeenShort ==
  ASSUME KadAssumption, NEW n, NEW table \in KadTables, TableShort(table), NEW c \in Nodes
  PROVE  TableShort(Seen(n, table, c))
<1>1. CASE c = n
  BY <1>1 DEF Seen
<1>2. CASE c # n
  <2> DEFINE k == BucketIndex(n, c)
             b == SeenIn(table[k], c)
  <2>1. Seen(n, table, c) = [table EXCEPT ![k] = b]
    BY <1>2 DEF Seen
  <2> HIDE DEF k
  <2>2. CASE k \in KadRows
    <3>1. table[k] \in Seq(KadEntries) /\ Len(table[k]) <= K
      BY <2>2 DEF KadTables, TableShort
    <3>2. Len(b) <= K
      BY <3>1, SeenInShort
    <3> HIDE DEF b
    <3>3. \A i \in KadRows : Seen(n, table, c)[i] = IF i = k THEN b ELSE table[i]
      BY <2>1, <2>2 DEF KadTables
    <3> QED BY <3>2, <3>3 DEF TableShort
  <2>3. CASE k \notin KadRows
    <3>1. Seen(n, table, c) = table
      BY <2>1, <2>3 DEF KadTables
    <3> QED BY <3>1
  <2> QED BY <2>2, <2>3
<1> QED BY <1>1, <1>2

LEMMA SeenAllShort ==
  ASSUME KadAssumption, NEW n, NEW heard, NEW order \in Seq(Nodes), buckets[n] \in KadTables,
         TableGood(n, buckets[n], heard), TableShort(buckets[n])
  PROVE  TableShort(SeenAll(n, order))
<1> DEFINE f == SeenUpTo(n, order)
           all == heard \cup {order[i] : i \in 1 .. Len(order)}
           Holds == {k \in Nat : k <= Len(order) =>
                       f[k] \in KadTables /\ TableGood(n, f[k], all) /\ TableShort(f[k])}
<1>0. Len(order) \in Nat /\ \A i \in 1 .. Len(order) : order[i] \in Nodes
  OBVIOUS
<1>1. f = [i \in 0 .. Len(order) |-> SeenStep(n, order, f, i)]
  <2> DEFINE len == Len(order)
  <2>1. len \in Nat
    BY <1>0
  <2> HIDE DEF len
  <2>2. \E g : g = [i \in 0 .. len |-> SeenStep(n, order, g, i)]
    BY ONLY <2>1, SeenExists
  <2> QED BY <2>2, Zenon DEF SeenUpTo, len
<1> HIDE DEF f
<1>2. \A i \in 0 .. Len(order) : f[i] = SeenStep(n, order, f, i)
  BY <1>1
<1>3. TableGood(n, buckets[n], all)
  BY DEF TableGood, BucketGood
<1>4. 0 \in Holds
  BY <1>0, <1>2, <1>3 DEF SeenStep
<1>5. ASSUME NEW k \in Nat, k \in Holds PROVE k + 1 \in Holds
  <2> SUFFICES ASSUME k + 1 <= Len(order)
               PROVE  f[k + 1] \in KadTables /\ TableGood(n, f[k + 1], all) /\ TableShort(f[k + 1])
    OBVIOUS
  <2>1. f[k] \in KadTables /\ TableGood(n, f[k], all) /\ TableShort(f[k])
    BY <1>0, <1>5
  <2>2. k + 1 \in 0 .. Len(order) /\ k + 1 # 0 /\ (k + 1) - 1 = k /\ k + 1 \in 1 .. Len(order)
    BY ONLY <1>0, k \in Nat, k + 1 <= Len(order)
  <2>3. f[k + 1] = Seen(n, f[k], order[k + 1])
    BY <1>2, <2>2 DEF SeenStep
  <2>4. all \cup {order[k + 1]} = all /\ order[k + 1] \in Nodes
    BY <1>0, <2>2
  <2> HIDE DEF all
  <2> QED BY <2>1, <2>3, <2>4, SeenGood, SeenShort
<1>6. Nat \subseteq Holds
  <2> HIDE DEF Holds
  <2> QED BY <1>4, <1>5, Induction
<1>7. TableShort(f[Len(order)])
  <2>1. Len(order) \in Holds
    BY <1>0, <1>6
  <2> QED BY <1>0, <2>1
<1> QED BY <1>7, SeenAllIs DEF f

LEMMA AllInOrder ==
  ASSUME NEW S, IsFiniteSet(S) PROVE Len(SetToSeq(S)) = Cardinality(S)
<1> DEFINE n == Cardinality(S)
<1>1. n \in Nat /\ ExistsBijection(1 .. n, S)
  BY FS_CardinalityType
<1>2. \E f \in [1 .. n -> S] : IsInjective(f)
  BY <1>1 DEF ExistsBijection, Bijection, Injection
<1>3. SetToSeq(S) \in [1 .. n -> S]
  BY <1>2 DEF SetToSeq
<1> DEFINE q == SetToSeq(S)
<1> HIDE DEF n, q
<1>4. Len(q) = n
  BY <1>1, <1>3 DEF q
<1> QED BY <1>4 DEF q, n

LEMMA FirstTablesShort ==
  ASSUME KadAssumption, NEW n \in Nodes, NEW b \in Tables(n) PROVE TableShort(b)
<1>1. PICK S \in {T \in SUBSET (Nodes \ {n}) : Filled(n, T)} :
        b = [i \in 0..Bits - 1 |-> SetToSeq({[id |-> m, stale |-> FALSE] : m \in {c \in S : BucketIndex(n, c) = i}})]
  BY DEF Tables
<1>2. S \subseteq Nodes \ {n} /\ Filled(n, S)
  OBVIOUS
<1>3. ASSUME NEW i \in KadRows PROVE Len(b[i]) <= K
  <2> DEFINE C == {c \in S : BucketIndex(n, c) = i}
             E == {[id |-> m, stale |-> FALSE] : m \in C}
             here == {m \in Nodes \ {n} : BucketIndex(n, m) = i}
  <2>1. C = S \cap here
    BY <1>2
  <2>2. IsFiniteSet(here) /\ K \in Nat
    <3>1. here \subseteq Nodes
      OBVIOUS
    <3> HIDE DEF here
    <3> QED BY <3>1, NodesFinite, FS_Subset DEF KadAssumption
  <2>3. Cardinality(S \cap here) = IF Cardinality(here) < K THEN Cardinality(here) ELSE K
    BY <1>2 DEF Filled, KadRows
  <2>4. IsFiniteSet(C) /\ Cardinality(C) <= K /\ Cardinality(C) \in Nat
    <3>1. C \subseteq here
      BY <2>1
    <3> HIDE DEF C, here
    <3>2. IsFiniteSet(C) /\ Cardinality(C) \in Nat /\ Cardinality(here) \in Nat
      BY <2>2, <3>1, FS_Subset, FS_CardinalityType
    <3> QED BY <2>1, <2>2, <2>3, <3>2
  <2>5. IsFiniteSet(E) /\ Cardinality(E) <= Cardinality(C)
    <3> DEFINE f == [m \in C |-> [id |-> m, stale |-> FALSE]]
    <3>1. f \in [C -> E] /\ \A e \in E : \E m \in C : f[m] = e
      OBVIOUS
    <3>2. f \in Surjection(C, E)
      BY <3>1 DEF Surjection
    <3> HIDE DEF C, E, f
    <3> QED BY <2>4, <3>2, FS_Surjection
  <2>6. b[i] = SetToSeq(E)
    BY <1>1 DEF KadRows
  <2> HIDE DEF C, E
  <2>7. Len(b[i]) = Cardinality(E) /\ Cardinality(E) \in Nat
    BY <2>5, <2>6, AllInOrder, FS_CardinalityType
  <2> QED BY <2>2, <2>4, <2>5, <2>7
<1> QED BY <1>3 DEF TableShort

-----------------------------------------------------------------------------
(* Kad: the store *)

Kept(s) == {k \in Keys : DOMAIN s[k] # {}}
StoreSmall(s) ==
  /\ DOMAIN s = Keys
  /\ \A k \in Keys : IsFiniteSet(DOMAIN s[k]) /\ Cardinality(DOMAIN s[k]) <= MaxProviders
  /\ Cardinality(Kept(s)) <= MaxKeys

LEMMA KeysFinite == KadAssumption => IsFiniteSet(Keys)
<1> SUFFICES ASSUME KadAssumption PROVE IsFiniteSet(Keys)
  OBVIOUS
<1>1. Bits - 1 \in Int /\ 0 \in Int
  BY DEF KadAssumption
<1>2. IsFiniteSet(SUBSET (0..Bits - 1))
  BY <1>1, FS_Interval, FS_SUBSET
<1> QED BY <1>2, FS_Subset DEF KadAssumption, Ids

\* Fewer keys with fewer records.

LEMMA FewerRecords ==
  ASSUME KadAssumption, NEW s, StoreSmall(s), NEW u, DOMAIN u = Keys,
         \A k \in Keys : DOMAIN u[k] \subseteq DOMAIN s[k]
  PROVE  StoreSmall(u)
<1>1. ASSUME NEW k \in Keys PROVE IsFiniteSet(DOMAIN u[k]) /\ Cardinality(DOMAIN u[k]) <= MaxProviders
  <2>1. IsFiniteSet(DOMAIN s[k]) /\ Cardinality(DOMAIN s[k]) <= MaxProviders /\ MaxProviders \in Nat
    BY DEF StoreSmall, KadAssumption
  <2>2. /\ IsFiniteSet(DOMAIN u[k]) /\ Cardinality(DOMAIN u[k]) <= Cardinality(DOMAIN s[k])
        /\ Cardinality(DOMAIN u[k]) \in Nat /\ Cardinality(DOMAIN s[k]) \in Nat
    BY <2>1, FS_Subset, FS_CardinalityType
  <2> QED BY <2>1, <2>2
<1>2. Kept(u) \subseteq Kept(s) /\ Kept(s) \subseteq Keys
  BY DEF Kept
<1>3. Cardinality(Kept(u)) <= MaxKeys
  <2>1. /\ Cardinality(Kept(u)) <= Cardinality(Kept(s)) /\ Cardinality(Kept(u)) \in Nat
        /\ Cardinality(Kept(s)) \in Nat
    BY <1>2, KeysFinite, FS_Subset, FS_CardinalityType
  <2> QED BY <2>1 DEF StoreSmall, KadAssumption
<1> QED BY <1>1, <1>3 DEF StoreSmall

LEMMA PrunedSmall ==
  ASSUME KadAssumption, NEW s, StoreSmall(s)
  PROVE  StoreSmall(Pruned(s)) /\ \A k \in Keys : Pruned(s)[k] = <<>> \/ DOMAIN Pruned(s)[k] # {}
<1> DEFINE left(k) == {q \in DOMAIN s[k] : ~s[k][q]}
<1>1. DOMAIN Pruned(s) = Keys /\ \A k \in Keys : Pruned(s)[k] = [p \in left(k) |-> FALSE]
  BY DEF Pruned
<1>2. \A k \in Keys : DOMAIN Pruned(s)[k] \subseteq DOMAIN s[k]
  BY <1>1
<1>3. ASSUME NEW k \in Keys PROVE Pruned(s)[k] = <<>> \/ DOMAIN Pruned(s)[k] # {}
  <2> DEFINE S == left(k)
             f == Pruned(s)[k]
  <2>1. f = [p \in S |-> FALSE]
    BY <1>1
  <2> HIDE DEF S, f
  <2>2. f = <<>> \/ DOMAIN f # {}
    BY <2>1
  <2> QED BY <2>2 DEF f
<1> QED BY <1>1, <1>2, <1>3, FewerRecords

LEMMA FiledSmall ==
  ASSUME KadAssumption, NEW n, StoreSmall(store[n]), NEW k, NEW p
  PROVE  StoreSmall(Filed(n, k, p))
<1> DEFINE s == Pruned(store[n])
           u == [s EXCEPT ![k] = [q \in DOMAIN s[k] \cup {p} |-> FALSE]]
<1>1. StoreSmall(s) /\ \A j \in Keys : s[j] = <<>> \/ DOMAIN s[j] # {}
  BY PrunedSmall
<1>2. Filed(n, k, p) = IF Accepts(n, k, p) THEN u ELSE s
  BY DEF Filed
<1>3. Accepts(n, k, p) => /\ s[k] # <<>> \/ Cardinality({j \in Keys : s[j] # <<>>}) < MaxKeys
                          /\ p \in DOMAIN s[k] \/ Cardinality(DOMAIN s[k]) < MaxProviders
  BY DEF Accepts
<1>4. ASSUME Accepts(n, k, p), k \notin Keys PROVE u = s
  BY <1>4 DEF Pruned
<1> HIDE DEF s
<1>5. ASSUME Accepts(n, k, p), k \in Keys PROVE StoreSmall(u)
  <2> DEFINE D == DOMAIN s[k]
  <2>1. DOMAIN u = Keys /\ DOMAIN u[k] = D \cup {p} /\ \A j \in Keys : j # k => u[j] = s[j]
    BY <1>1, <1>5 DEF StoreSmall
  <2>2. IsFiniteSet(D) /\ Cardinality(D) <= MaxProviders /\ MaxProviders \in Nat /\ MaxKeys \in Nat
    BY <1>1, <1>5 DEF StoreSmall, KadAssumption
  <2>3. p \in D \/ Cardinality(D) < MaxProviders
    BY <1>3, <1>5
  <2>4. s[k] # <<>> \/ Cardinality({j \in Keys : s[j] # <<>>}) < MaxKeys
    BY <1>3, <1>5
  <2> HIDE DEF D, u
  <2>5. IsFiniteSet(D \cup {p}) /\ Cardinality(D \cup {p}) <= MaxProviders
    <3>1. CASE p \in D
      <4>1. D \cup {p} = D
        BY <3>1
      <4> QED BY <2>2, <4>1
    <3>2. CASE p \notin D
      <4>1. IsFiniteSet(D \cup {p}) /\ Cardinality(D \cup {p}) = Cardinality(D) + 1
        BY <2>2, <3>2, FS_AddElement
      <4>2. Cardinality(D) \in Nat /\ Cardinality(D) < MaxProviders
        BY <2>2, <2>3, <3>2, FS_CardinalityType
      <4> QED BY <2>2, <4>1, <4>2
    <3> QED BY <3>1, <3>2
  <2>6. \A j \in Keys : IsFiniteSet(DOMAIN u[j]) /\ Cardinality(DOMAIN u[j]) <= MaxProviders
    BY <1>1, <2>1, <2>5 DEF StoreSmall
  <2>7. Kept(u) = Kept(s) \cup {k} /\ IsFiniteSet(Kept(s)) /\ Cardinality(Kept(s)) <= MaxKeys
    <3>1. Kept(u) = Kept(s) \cup {k}
      BY <1>5, <2>1 DEF Kept
    <3>2. Kept(s) \subseteq Keys
      BY DEF Kept
    <3> QED BY <1>1, <3>1, <3>2, KeysFinite, FS_Subset DEF StoreSmall
  <2>8. {j \in Keys : s[j] # <<>>} = Kept(s)
    BY <1>1 DEF Kept
  <2>9. Cardinality(Kept(u)) <= MaxKeys
    <3>1. CASE k \in Kept(s)
      <4>1. Kept(u) = Kept(s)
        BY <2>7, <3>1
      <4> QED BY <2>7, <4>1
    <3>2. CASE k \notin Kept(s)
      <4>1. s[k] = <<>>
        BY <1>1, <1>5, <3>2 DEF Kept
      <4>2. Cardinality(Kept(s)) < MaxKeys
        BY <2>4, <2>8, <4>1
      <4>3. Cardinality(Kept(u)) = Cardinality(Kept(s)) + 1 /\ Cardinality(Kept(s)) \in Nat
        BY <2>7, <3>2, FS_AddElement, FS_CardinalityType
      <4> QED BY <2>2, <4>2, <4>3
    <3> QED BY <3>1, <3>2
  <2> QED BY <2>1, <2>6, <2>9 DEF StoreSmall
<1> QED BY <1>1, <1>2, <1>4, <1>5

-----------------------------------------------------------------------------
(* Kad: walks and their bounds *)

WalkSmall(x) ==
  /\ x.queries \in 0 .. MaxQueries /\ x.round \in 0 .. MaxRounds
  /\ x.pc = "wait" => x.round < MaxRounds
  /\ IsFiniteSet(x.short) /\ Cardinality(x.short) <= 2 * K
  /\ x.pc = "wait" => Cardinality(DOMAIN x.replies) <= Alpha
  /\ x.pc = "announce" => Cardinality(DOMAIN x.replies) <= K

\* What an update of a walk leaves alone.
Shows(y, pc, queries, round, short, replies) ==
  y.pc = pc /\ y.queries = queries /\ y.round = round /\ y.short = short /\ y.replies = replies

LEMMA WalkUpdates ==
  ASSUME NEW x, GoodWalk(x), NEW pc, NEW queries, NEW asked, NEW round, NEW providers, NEW short, NEW replies
  PROVE  /\ Shows([x EXCEPT !.pc = pc],
                  pc, x.queries, x.round, x.short, x.replies)
         /\ Shows([x EXCEPT !.replies = replies],
                  x.pc, x.queries, x.round, x.short, replies)
         /\ Shows([x EXCEPT !.pc = pc, !.replies = replies],
                  pc, x.queries, x.round, x.short, replies)
         /\ Shows([x EXCEPT !.pc = pc, !.replies = replies, !.providers = providers],
                  pc, x.queries, x.round, x.short, replies)
         /\ Shows([x EXCEPT !.pc = pc, !.queries = queries, !.asked = asked, !.replies = replies],
                  pc, queries, x.round, x.short, replies)
         /\ Shows([x EXCEPT !.pc = pc, !.round = round, !.replies = replies, !.providers = providers,
                           !.short = short],
                  pc, x.queries, round, short, replies)
<1>1. DOMAIN x = {"pc", "owner", "call", "target", "kind", "short", "asked", "providers", "queries", "round", "replies"}
  BY DEF GoodWalk
<1>2. Shows([x EXCEPT !.pc = pc],
         pc, x.queries, x.round, x.short, x.replies)
  BY ONLY <1>1 DEF Shows
<1>3. Shows([x EXCEPT !.replies = replies],
         x.pc, x.queries, x.round, x.short, replies)
  BY ONLY <1>1 DEF Shows
<1>4. Shows([x EXCEPT !.pc = pc, !.replies = replies],
         pc, x.queries, x.round, x.short, replies)
  BY ONLY <1>1 DEF Shows
<1>5. Shows([x EXCEPT !.pc = pc, !.replies = replies, !.providers = providers],
         pc, x.queries, x.round, x.short, replies)
  BY ONLY <1>1 DEF Shows
<1>6. Shows([x EXCEPT !.pc = pc, !.queries = queries, !.asked = asked, !.replies = replies],
         pc, queries, x.round, x.short, replies)
  BY ONLY <1>1 DEF Shows
<1>7. Shows([x EXCEPT !.pc = pc, !.round = round, !.replies = replies, !.providers = providers,
                           !.short = short],
         pc, x.queries, round, short, replies)
  BY ONLY <1>1 DEF Shows
<1> QED BY <1>2, <1>3, <1>4, <1>5, <1>6, <1>7

LEMMA EndedSmall ==
  ASSUME KadAssumption, NEW x, GoodWalk(x), NEW short, x.short = short,
         x.queries \in 0 .. MaxQueries, x.round \in 0 .. MaxRounds,
         IsFiniteSet(short), Cardinality(short) <= 2 * K
  PROVE  WalkSmall(Ended(x))
<1> DEFINE r == [c \in Found(x) |-> Pending]
           y == Ended(x)
<1>1. Cardinality(Found(x)) <= K
  <2>1. x.short \cap x.asked \subseteq Nodes /\ K \in Nat
    BY GoodWalkFields DEF KadAssumption
  <2> QED BY <2>1, NearestFew DEF Found
<1>2. DOMAIN r = Found(x)
  OBVIOUS
<1> HIDE DEF r
<1>3. /\ (y.pc = "announce" /\ y.replies = r) \/ y.pc = "done"
      /\ y.queries = x.queries /\ y.round = x.round /\ y.short = x.short
  <2> DEFINE announce == "announce"
             done == "done"
  <2>1. y = [x EXCEPT !.pc = announce, !.replies = r] \/ y = [x EXCEPT !.pc = done]
    BY DEF Ended, r
  <2> HIDE DEF y, announce, done
  <2>2. /\ Shows([x EXCEPT !.pc = announce, !.replies = r], announce, x.queries, x.round, x.short, r)
        /\ Shows([x EXCEPT !.pc = done], done, x.queries, x.round, x.short, x.replies)
    BY WalkUpdates
  <2>3. \/ Shows(y, announce, x.queries, x.round, x.short, r)
        \/ Shows(y, done, x.queries, x.round, x.short, x.replies)
    BY <2>1, <2>2
  <2> QED BY <2>3 DEF announce, done, Shows
<1> HIDE DEF y
<1>4. WalkSmall(y)
  BY <1>1, <1>2, <1>3 DEF WalkSmall
<1> QED BY <1>4 DEF y

BoundInv ==
  /\ DOMAIN store = Nodes
  /\ \A n \in Nodes : TableShort(buckets[n]) /\ StoreSmall(store[n])
  /\ \A w \in Walks : walk[w] = NoWalk \/ WalkSmall(walk[w])

LEMMA TableStaysShort ==
  ASSUME KadInv, BoundInv, NEW n \in Nodes, NEW table, TableShort(table), buckets' = [buckets EXCEPT ![n] = table]
  PROVE  \A m \in Nodes : TableShort(buckets'[m])
<1>1. \A m \in Nodes : buckets'[m] = IF m = n THEN table ELSE buckets[m]
  BY DEF KadInv
<1> QED BY <1>1 DEF BoundInv

LEMMA StoreStaysSmall ==
  ASSUME BoundInv, NEW n \in Nodes, NEW s, StoreSmall(s), store' = [store EXCEPT ![n] = s]
  PROVE  DOMAIN store' = Nodes /\ \A m \in Nodes : StoreSmall(store'[m])
<1>1. DOMAIN store' = Nodes /\ \A m \in Nodes : store'[m] = IF m = n THEN s ELSE store[m]
  BY DEF BoundInv
<1> QED BY <1>1 DEF BoundInv

LEMMA WalkStaysSmall ==
  ASSUME KadInv, BoundInv, NEW w \in Walks, NEW x, x = NoWalk \/ WalkSmall(x), walk' = [walk EXCEPT ![w] = x]
  PROVE  \A v \in Walks : walk'[v] = NoWalk \/ WalkSmall(walk'[v])
<1>1. \A v \in Walks : walk'[v] = IF v = w THEN x ELSE walk[v]
  BY DEF KadInv
<1> QED BY <1>1 DEF BoundInv

LEMMA WalkRunsSmall ==
  ASSUME KadInv, BoundInv, NEW w \in Walks, walk[w].pc # "idle" PROVE WalkSmall(walk[w])
BY DEF BoundInv, NoWalk

LEMMA KadInit_Bound == KadAssumption /\ KadInit => BoundInv
<1> SUFFICES ASSUME KadAssumption, KadInit PROVE BoundInv
  OBVIOUS
<1>1. \A n \in Nodes : TableShort(buckets[n])
  BY FirstTablesShort DEF KadInit
<1>2. \A n \in Nodes : StoreSmall(store[n])
  <2> SUFFICES ASSUME NEW n \in Nodes PROVE StoreSmall(store[n])
    OBVIOUS
  <2>1. store[n] = [k \in Keys |-> <<>>]
    BY DEF KadInit
  <2>2. \A k \in Keys : DOMAIN store[n][k] = {}
    BY <2>1
  <2>3. Kept(store[n]) = {}
    BY <2>2 DEF Kept
  <2>4. IsFiniteSet({}) /\ Cardinality({}) = 0 /\ MaxKeys \in Nat /\ MaxProviders \in Nat
    BY FS_EmptySet DEF KadAssumption
  <2>5. \A k \in Keys : IsFiniteSet(DOMAIN store[n][k]) /\ Cardinality(DOMAIN store[n][k]) <= MaxProviders
    BY <2>2, <2>4
  <2>6. Cardinality(Kept(store[n])) <= MaxKeys
    BY <2>3, <2>4
  <2>7. DOMAIN store[n] = Keys
    BY <2>1
  <2> QED BY <2>5, <2>6, <2>7 DEF StoreSmall
<1> QED BY <1>1, <1>2 DEF BoundInv, KadInit

LEMMA BeginSmall ==
  ASSUME KadAssumption, KadInv, NEW n \in Nodes, NEW call, NEW t PROVE WalkSmall(Begin(n, call, t))
<1> DEFINE short == Closest(buckets[n], t)
           x == Begin(n, call, t)
<1>1. IsFiniteSet(short) /\ Cardinality(short) <= K /\ K \in Nat
  <2>1. Contacts(buckets[n]) \subseteq Nodes /\ K \in Nat
    BY ClosestKnown DEF KadInv, KadAssumption
  <2> QED BY <2>1, NearestFew DEF Closest
<1>2. x.pc = "round" /\ x.queries = 0 /\ x.round = 0 /\ x.short = short
  BY DEF Begin
<1> HIDE DEF x, short
<1>3. MaxQueries \in Nat /\ MaxRounds \in Nat /\ Cardinality(short) \in Nat
  BY <1>1, FS_CardinalityType DEF KadAssumption
<1>4. WalkSmall(x)
  BY <1>1, <1>2, <1>3 DEF WalkSmall
<1> QED BY <1>4 DEF x

LEMMA ReplySmall ==
  ASSUME NEW x, GoodWalk(x), WalkSmall(x), NEW c, NEW r PROVE WalkSmall([x EXCEPT !.replies[c] = r])
<1> DEFINE replies == [x.replies EXCEPT ![c] = r]
           y == [x EXCEPT !.replies[c] = r]
<1>1. DOMAIN replies = DOMAIN x.replies
  OBVIOUS
<1>2. y = [x EXCEPT !.replies = replies]
  OBVIOUS
<1> HIDE DEF replies, y
<1>3. Shows(y, x.pc, x.queries, x.round, x.short, replies)
  BY <1>2, WalkUpdates
<1>4. WalkSmall(y)
  BY <1>1, <1>3 DEF WalkSmall, Shows
<1> QED BY <1>4 DEF y

LEMMA ReachesBound ==
  ASSUME KadAssumption, KadInv, BoundInv, NEW w \in Walks, GoodWalk(walk[w]), WalkSmall(walk[w]),
         NEW d \in Nodes, Reaches(d, walk[w]), NEW c, NEW r, walk' = [walk EXCEPT ![w].replies[c] = r]
  PROVE  BoundInv'
<1> DEFINE x == walk[w]
           table == Seen(d, buckets[d], x.owner)
<1>1. GoodWalk(x) /\ WalkSmall(x) /\ x.owner \in Nodes
  BY GoodWalkFields
<1>2. TableShort(table)
  BY <1>1, SeenShort DEF KadInv, BoundInv
<1>3. buckets' = [buckets EXCEPT ![d] = table]
  BY DEF Reaches
<1>4. walk' = [walk EXCEPT ![w] = [x EXCEPT !.replies[c] = r]]
  OBVIOUS
<1>5. WalkSmall([x EXCEPT !.replies[c] = r])
  BY <1>1, ReplySmall
<1>6. store' = store \/ store' = [store EXCEPT ![d] = Filed(d, x.target, x.owner)]
  BY DEF Reaches
<1>7. DOMAIN store' = Nodes /\ \A m \in Nodes : StoreSmall(store'[m])
  <2>1. StoreSmall(Filed(d, x.target, x.owner))
    BY FiledSmall DEF BoundInv
  <2> HIDE DEF x
  <2> QED BY <1>6, <2>1, StoreStaysSmall DEF BoundInv
<1> HIDE DEF table, x
<1>8. \A m \in Nodes : TableShort(buckets'[m])
  BY <1>2, <1>3, TableStaysShort
<1>9. \A v \in Walks : walk'[v] = NoWalk \/ WalkSmall(walk'[v])
  BY <1>4, <1>5, WalkStaysSmall
<1> QED BY <1>7, <1>8, <1>9 DEF BoundInv

LEMMA HandleBound ==
  ASSUME KadAssumption, KadInv, BoundInv, NEW w \in Walks, NEW c \in Nodes,
         Handle(w, c) \/ \E d \in Nodes : Misdirected(w, c, d)
  PROVE  BoundInv'
<1>1. GoodWalk(walk[w]) /\ WalkSmall(walk[w])
  BY WalkRuns, WalkRunsSmall DEF Handle, Misdirected, Awaited
<1>2. PICK d \in Nodes : Reaches(d, walk[w])
  BY DEF Handle, Misdirected
<1>3. PICK r : walk' = [walk EXCEPT ![w].replies[c] = r]
  BY DEF Handle, Misdirected
<1> QED BY <1>1, <1>2, <1>3, ReachesBound

\* A node enters a table outside the walks.
LEMMA EntryBound ==
  ASSUME KadAssumption, KadInv, BoundInv, NEW n \in Nodes, NEW m \in Nodes,
         buckets' = [buckets EXCEPT ![n] = Seen(n, @, m)], UNCHANGED store,
         walk' = walk \/ \E w \in Walks : walk' = [walk EXCEPT ![w] = NoWalk]
  PROVE  BoundInv'
<1> DEFINE table == Seen(n, buckets[n], m)
<1>1. TableShort(table)
  BY SeenShort DEF KadInv, BoundInv
<1>2. buckets' = [buckets EXCEPT ![n] = table]
  OBVIOUS
<1> HIDE DEF table
<1>3. \A v \in Nodes : TableShort(buckets'[v])
  BY <1>1, <1>2, TableStaysShort
<1>4. \A v \in Walks : walk'[v] = NoWalk \/ WalkSmall(walk'[v])
  BY WalkStaysSmall DEF BoundInv
<1> QED BY <1>3, <1>4 DEF BoundInv

LEMMA TakingBound ==
  ASSUME KadAssumption, KadInv, BoundInv, NEW x, GoodWalk(x), NEW order \in SetToSeqs(Answered(x)),
         buckets' = [buckets EXCEPT ![x.owner] = SeenAll(x.owner, order)]
  PROVE  \A m \in Nodes : TableShort(buckets'[m])
<1>1. x.owner \in Nodes /\ Answered(x) \subseteq Nodes
  BY GoodWalkFields DEF Answered, RepliesGood
<1>2. order \in Seq(Nodes)
  BY <1>1, InOrder
<1>3. TableShort(SeenAll(x.owner, order))
  BY <1>1, <1>2, SeenAllShort DEF KadInv, BoundInv
<1> QED BY <1>1, <1>3, TableStaysShort

LEMMA TakeRepliesBound ==
  ASSUME KadAssumption, KadInv, BoundInv, NEW w \in Walks, TakeReplies(w) PROVE BoundInv'
<1> DEFINE x == walk[w]
           fresh == Told(x) \ (x.short \cup x.asked)
           kept == (x.short \ Silent(x)) \cup fresh
           providers == x.providers \cup (UNION {x.replies[c].providers : c \in Answered(x)} \ {x.owner})
           short == Nearest(x.target, 2 * K, kept)
           round == x.round + 1
           pc == "round"
           next == [x EXCEPT !.pc = pc, !.round = round, !.replies = <<>>, !.providers = providers,
                             !.short = short]
<1>1. GoodWalk(x) /\ WalkSmall(x)
  BY WalkRuns, WalkRunsSmall DEF TakeReplies
<1>2. \A m \in Nodes : TableShort(buckets'[m])
  <2>1. PICK order \in SetToSeqs(Answered(x)) : buckets' = [buckets EXCEPT ![x.owner] = SeenAll(x.owner, order)]
    BY DEF TakeReplies, Enter
  <2> HIDE DEF x
  <2> QED BY <1>1, <2>1, TakingBound
<1>3. walk' = [walk EXCEPT ![w] = next] \/ walk' = [walk EXCEPT ![w] = Ended(next)]
  BY DEF TakeReplies
<1>4. Told(x) \subseteq Nodes
  <2>1. \A c \in Answered(x) : x.replies[c].contacts \subseteq Nodes
    BY <1>1, GoodWalkFields DEF RepliesGood, Answered
  <2> HIDE DEF x
  <2> QED BY <2>1 DEF Told
<1>5. short \subseteq Nodes /\ IsFiniteSet(short) /\ Cardinality(short) <= 2 * K
  <2>1. kept \subseteq Nodes /\ 2 * K \in Nat
    BY <1>1, <1>4, GoodWalkFields DEF KadAssumption
  <2> HIDE DEF kept
  <2> QED BY <2>1, NearestAmong, NearestFew
<1>6. RepliesGood(<< >>)
  BY DEF RepliesGood
<1>7. round \in 0 .. MaxRounds /\ x.queries \in 0 .. MaxQueries
  <2>1. x.round \in 0 .. MaxRounds /\ x.round < MaxRounds /\ x.queries \in 0 .. MaxQueries
    BY <1>1 DEF WalkSmall, TakeReplies
  <2> QED BY <2>1 DEF KadAssumption
<1> HIDE DEF x, short, providers, round, pc
<1>8. GoodWalk(next)
  <2> HIDE DEF next
  <2>1. next = [x EXCEPT !.pc = pc, !.round = round, !.replies = << >>, !.providers = providers, !.short = short]
    BY DEF next
  <2> QED BY <1>1, <1>5, <1>6, <2>1, GoodWalkNext
<1>9. Shows(next, pc, x.queries, round, short, <<>>)
  BY <1>1, WalkUpdates
<1> HIDE DEF next
<1>10. WalkSmall(next)
  BY <1>5, <1>7, <1>9 DEF WalkSmall, pc, Shows
<1>11. WalkSmall(Ended(next))
  BY <1>5, <1>7, <1>8, <1>9, EndedSmall DEF Shows
<1>12. \A v \in Walks : walk'[v] = NoWalk \/ WalkSmall(walk'[v])
  BY <1>3, <1>10, <1>11, WalkStaysSmall
<1> QED BY <1>2, <1>12 DEF BoundInv, TakeReplies

LEMMA TakeAcksBound ==
  ASSUME KadAssumption, KadInv, BoundInv, NEW w \in Walks, TakeAcks(w) PROVE BoundInv'
<1> DEFINE x == walk[w]
           providers == UNION {x.replies[c].providers : c \in Answered(x)}
           pc == "done"
           next == [x EXCEPT !.pc = pc, !.replies = << >>, !.providers = providers]
<1>1. GoodWalk(x) /\ WalkSmall(x)
  BY WalkRuns, WalkRunsSmall DEF TakeAcks
<1>2. \A m \in Nodes : TableShort(buckets'[m])
  <2>1. PICK order \in SetToSeqs(Answered(x)) : buckets' = [buckets EXCEPT ![x.owner] = SeenAll(x.owner, order)]
    BY DEF TakeAcks
  <2> HIDE DEF x
  <2> QED BY <1>1, <2>1, TakingBound
<1>3. walk' = [walk EXCEPT ![w] = next]
  BY DEF TakeAcks
<1> HIDE DEF x, providers, pc
<1>4. Shows(next, pc, x.queries, x.round, x.short, <<>>)
  BY <1>1, WalkUpdates
<1> HIDE DEF next
<1>5. WalkSmall(next)
  BY <1>1, <1>4 DEF WalkSmall, pc, Shows
<1>6. \A v \in Walks : walk'[v] = NoWalk \/ WalkSmall(walk'[v])
  BY <1>3, <1>5, WalkStaysSmall
<1> QED BY <1>2, <1>6 DEF BoundInv, TakeAcks

LEMMA AskRoundBound ==
  ASSUME KadAssumption, KadInv, BoundInv, NEW w \in Walks, AskRound(w) PROVE BoundInv'
<1> DEFINE x == walk[w]
           replies == [c \in Batch(x) |-> Pending]
           queries == x.queries + Cardinality(Batch(x))
           asked == x.asked \cup Batch(x)
           pc == "wait"
           next == [x EXCEPT !.pc = pc, !.queries = queries, !.asked = asked, !.replies = replies]
<1>1. GoodWalk(x) /\ WalkSmall(x)
  BY WalkRuns, WalkRunsSmall DEF AskRound
<1>2. \/ walk' = [walk EXCEPT ![w] = Ended(x)]
      \/ walk' = [walk EXCEPT ![w] = next] /\ ~OutOfBudget(x)
  BY DEF AskRound
<1>3. IsFiniteSet(Batch(x)) /\ Cardinality(Batch(x)) <= Alpha /\ Cardinality(Batch(x)) \in Nat
  <2>1. x.short \ x.asked \subseteq Nodes /\ Alpha \in Nat
    BY <1>1, GoodWalkFields DEF KadAssumption
  <2>2. IsFiniteSet(Batch(x)) /\ Cardinality(Batch(x)) <= Alpha
    BY <2>1, NearestFew DEF Batch
  <2> QED BY <2>2, FS_CardinalityType
<1>4. DOMAIN replies = Batch(x)
  OBVIOUS
<1>5. ~OutOfBudget(x) => x.round < MaxRounds /\ queries <= MaxQueries
  <2>1. x.round \in Nat /\ x.queries \in Nat /\ MaxRounds \in Nat /\ MaxQueries \in Nat
    BY <1>1 DEF WalkSmall, KadAssumption
  <2> HIDE DEF x
  <2> QED BY <1>3, <2>1 DEF OutOfBudget
<1>6. queries \in Nat
  BY <1>1, <1>3 DEF WalkSmall
<1> HIDE DEF x, replies, queries, asked, pc
<1>7. Shows(next, pc, queries, x.round, x.short, replies)
  BY <1>1, WalkUpdates
<1> HIDE DEF next
<1>8. ~OutOfBudget(x) => WalkSmall(next)
  BY <1>1, <1>3, <1>4, <1>5, <1>6, <1>7 DEF WalkSmall, pc, KadAssumption, Shows
<1>9. WalkSmall(Ended(x))
  BY <1>1, EndedSmall DEF WalkSmall
<1>10. \A v \in Walks : walk'[v] = NoWalk \/ WalkSmall(walk'[v])
  BY <1>2, <1>8, <1>9, WalkStaysSmall
<1> QED BY <1>10 DEF BoundInv, AskRound

LEMMA KadNext_Bound == KadAssumption /\ KadInv /\ BoundInv /\ [KadNext]_kadVars => BoundInv'
<1> SUFFICES ASSUME KadAssumption, KadInv, BoundInv, [KadNext]_kadVars PROVE BoundInv'
  OBVIOUS
<1>1. ASSUME NEW w \in Walks, NEW n \in Nodes, Call(w, n) PROVE BoundInv'
  <2>1. PICK x : WalkSmall(x) /\ walk' = [walk EXCEPT ![w] = x]
    <3>1. CASE walk' = [walk EXCEPT ![w] = Begin(n, "lookup", n)]
      BY <3>1, BeginSmall
    <3>2. CASE \E k \in Keys : walk' = [walk EXCEPT ![w] = Begin(n, "announce", k)]
      BY <3>2, BeginSmall
    <3>3. CASE \E k \in Keys : walk' = [walk EXCEPT ![w] = Begin(n, "find", k)]
      BY <3>3, BeginSmall
    <3> QED BY <1>1, <3>1, <3>2, <3>3 DEF Call
  <2>2. \A v \in Walks : walk'[v] = NoWalk \/ WalkSmall(walk'[v])
    BY <2>1, WalkStaysSmall
  <2> QED BY <1>1, <2>2 DEF BoundInv, Call
<1>2. ASSUME NEW w \in Walks, NEW c \in Nodes, Unanswered(w, c) PROVE BoundInv'
  <2>1. GoodWalk(walk[w]) /\ WalkSmall(walk[w])
    BY <1>2, WalkRuns, WalkRunsSmall DEF Unanswered, Awaited
  <2>2. WalkSmall([walk[w] EXCEPT !.replies[c] = NoReply])
    BY <2>1, ReplySmall
  <2>3. walk' = [walk EXCEPT ![w] = [walk[w] EXCEPT !.replies[c] = NoReply]]
    BY <1>2 DEF Unanswered
  <2>4. \A v \in Walks : walk'[v] = NoWalk \/ WalkSmall(walk'[v])
    BY <2>2, <2>3, WalkStaysSmall
  <2> QED BY <1>2, <2>4 DEF BoundInv, Unanswered
<1>3. ASSUME NEW w \in Walks, Release(w) PROVE BoundInv'
  <2>1. \A v \in Walks : walk'[v] = NoWalk \/ WalkSmall(walk'[v])
    BY <1>3, WalkStaysSmall DEF Release
  <2> QED BY <1>3, <2>1 DEF BoundInv, Release
<1>4. ASSUME NEW n \in Nodes, Leave(n) PROVE BoundInv'
  BY <1>4 DEF Leave, BoundInv
<1>5. ASSUME NEW n \in Nodes, NEW k \in Keys, Expire(n, k) PROVE BoundInv'
  <2>1. PICK p : store' = [store EXCEPT ![n][k][p] = TRUE]
    BY <1>5 DEF Expire
  <2> DEFINE u == [store[n] EXCEPT ![k][p] = TRUE]
  <2>2. store' = [store EXCEPT ![n] = u]
    BY <2>1
  <2>3. StoreSmall(store[n]) /\ DOMAIN store[n] = Keys
    BY DEF BoundInv, StoreSmall
  <2>4. DOMAIN u = Keys /\ \A j \in Keys : DOMAIN u[j] \subseteq DOMAIN store[n][j]
    <3>1. DOMAIN u = Keys /\ u[k] = [store[n][k] EXCEPT ![p] = TRUE] /\ \A j \in Keys : j # k => u[j] = store[n][j]
      BY <2>3
    <3>2. DOMAIN [store[n][k] EXCEPT ![p] = TRUE] = DOMAIN store[n][k]
      OBVIOUS
    <3> HIDE DEF u
    <3> QED BY <3>1, <3>2
  <2> HIDE DEF u
  <2>5. StoreSmall(u)
    BY <2>3, <2>4, FewerRecords
  <2>6. DOMAIN store' = Nodes /\ \A m \in Nodes : StoreSmall(store'[m])
    BY <2>2, <2>5, StoreStaysSmall
  <2> QED BY <1>5, <2>6 DEF BoundInv, Expire
<1>6. ASSUME NEW n \in Nodes, NEW i \in KadRows, GrowStale(n, i) PROVE BoundInv'
  <2> DEFINE b == buckets[n][i]
             c == [b EXCEPT ![1].stale = TRUE]
             table == [buckets[n] EXCEPT ![i] = c]
  <2>1. b \in Seq(KadEntries) /\ buckets[n] \in KadTables /\ Len(b) <= K
    BY DEF KadInv, KadTables, BoundInv, TableShort
  <2>2. buckets' = [buckets EXCEPT ![n] = table]
    BY <1>6 DEF GrowStale
  <2>3. Len(c) = Len(b)
    <3> HIDE DEF b
    <3>1. b \in [1 .. Len(b) -> KadEntries] /\ Len(b) \in Nat
      BY <2>1
    <3>2. DOMAIN c = 1 .. Len(b)
      BY <3>1
    <3> HIDE DEF c
    <3> QED BY <3>1, <3>2
  <2> HIDE DEF b, c
  <2>4. \A j \in KadRows : table[j] = IF j = i THEN c ELSE buckets[n][j]
    BY <2>1 DEF KadTables
  <2> HIDE DEF table
  <2>5. TableShort(table)
    BY <2>1, <2>3, <2>4 DEF TableShort, BoundInv
  <2>6. \A m \in Nodes : TableShort(buckets'[m])
    BY <2>2, <2>5, TableStaysShort
  <2> QED BY <1>6, <2>6 DEF BoundInv, GrowStale
<1>7. CASE UNCHANGED kadVars
  BY <1>7 DEF kadVars, BoundInv
<1>8. ASSUME NEW w \in Walks, NEW p \in Nodes, LocateHolder(w, p) PROVE BoundInv'
  <2>1. walk[w].owner \in Nodes
    BY <1>8, WalkRuns, GoodWalkFields DEF LocateHolder
  <2>2. walk' = [walk EXCEPT ![w] = NoWalk]
    BY <1>8 DEF LocateHolder
  <2> QED BY <1>8, <2>1, <2>2, EntryBound DEF LocateHolder
<1>9. ASSUME NEW n \in Nodes, NEW m \in Nodes, Introduced(n, m) PROVE BoundInv'
  BY <1>9, EntryBound DEF Introduced
<1> QED BY <1>1, <1>2, <1>3, <1>4, <1>5, <1>6, <1>7, <1>8, <1>9, AskRoundBound, TakeRepliesBound, TakeAcksBound, HandleBound
        DEF KadNext, KadRows

\* However many machines there are, whatever they announce and however walks overlap: a bucket, the

\* keys a node stores and the records of each are within their bounds, and so are the requests of a
\* walk, its rounds, what it asks at a time and its shortlist.
THEOREM IndexStaysBounded == KadSpec => []IndexIsBounded
<1>1. KadInit => KadInv /\ BoundInv
  BY KadAssumption, KadInit_Inv, KadInit_Bound
<1>2. KadInv /\ BoundInv /\ [KadNext]_kadVars => (KadInv /\ BoundInv)'
  BY KadAssumption, KadNext_Inv, KadNext_Bound
<1>3. KadInv /\ BoundInv => IndexIsBounded
  <2> SUFFICES ASSUME BoundInv PROVE IndexIsBounded
    OBVIOUS
  <2>1. \A n \in Nodes :
          /\ \A i \in KadRows : Len(buckets[n][i]) <= K
          /\ Cardinality({k \in Keys : DOMAIN store[n][k] # {}}) <= MaxKeys
          /\ \A k \in Keys : Cardinality(DOMAIN store[n][k]) <= MaxProviders
    BY DEF BoundInv, TableShort, StoreSmall, Kept, KadRows
  <2>2. ASSUME NEW w \in Walks, walk[w] # NoWalk
        PROVE  /\ walk[w].queries <= MaxQueries /\ walk[w].round <= MaxRounds
               /\ Cardinality(walk[w].short) <= 2 * K
               /\ walk[w].pc = "wait" => Cardinality(DOMAIN walk[w].replies) <= Alpha
               /\ walk[w].pc = "announce" => Cardinality(DOMAIN walk[w].replies) <= K
    <3>1. WalkSmall(walk[w])
      BY <2>2 DEF BoundInv
    <3> QED BY <3>1 DEF WalkSmall
  <2> QED BY <2>1, <2>2 DEF IndexIsBounded, KadRows
<1> QED BY <1>1, <1>2, <1>3, PTL DEF KadSpec
=============================================================================
