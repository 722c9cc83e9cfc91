--------------------------------- MODULE Kad ---------------------------------
(***************************************************************************)
(* The distributed index (kad.ts): routing tables, provider records, and    *)
(* the iterative walk behind `lookup`, `findProviders` and `announce`.      *)
(*                                                                         *)
(* An id is the set of its one bits, so that XOR is symmetric difference    *)
(* and the most significant bit in which two ids differ decides which of    *)
(* them is closer to a third.  A contact is its id; that another machine    *)
(* has its address by now is a choice of the steps that dial it.            *)
(* A walk asks a batch of nodes, waits for all of them, and then takes      *)
(* their replies together; nodes may leave, entries grow stale and records  *)
(* expire in between.                                                       *)
(***************************************************************************)
EXTENDS Filtering, FiniteSets, SequencesExt

CONSTANTS
  Bits,        \* width of an id (128 in the code)
  Nodes,       \* ids of the machines
  Keys,        \* keys, of the same width
  Holder,      \* Holder[k]: the machine that holds (and announces) key k
  Walks,       \* slots for calls of lookup, findProviders, announce (bound)
  K,           \* contacts per bucket and per reply (8)
  Alpha,       \* requests at a time (3)
  MaxRounds,   \* rounds of a walk (12)
  MaxQueries,  \* requests of a walk (60)
  MaxKeys,     \* keys a node stores (4096)
  MaxProviders, \* records per key (64)
  MaxChurn     \* departures, losses, ageings, expiries of a run (bound)

Ids == SUBSET (0..Bits - 1)

ASSUME KadAssumption ==
  /\ Nodes \subseteq Ids /\ Keys \subseteq Ids
  /\ Holder \in [Keys -> Nodes]
  /\ {Bits, K, Alpha, MaxRounds, MaxQueries, MaxKeys, MaxProviders} \subseteq Nat \ {0}
  /\ MaxChurn \in Nat

VARIABLES
  alive,    \* nodes that answer
  churn,    \* how often a node left, a message was lost, an entry or a record aged
  buckets,  \* buckets[n][i]: contacts of n that share i leading bits with it, oldest first
  store,    \* store[n][k]: who announced key k to n, and whether the record has expired
  met,      \* met[n]: nodes that n heard from, themselves
  vouched,  \* vouched[n]: nodes at whose given address somebody answered n, unsigned
  walk      \* walk[w]: the walk in slot w

heardVars == <<met, vouched>>
kadVars == <<alive, churn, buckets, store, met, vouched, walk>>

-----------------------------------------------------------------------------
(* Distance *)

Distance(a, b) == (a \ b) \cup (b \ a)

\* a is closer to t than b is.
Closer(t, a, b) == a # b /\ Max(Distance(a, b)) \notin Distance(t, a)

\* The n members of S closest to t.
Nearest(t, n, S) == {a \in S : Cardinality({b \in S : Closer(t, b, a)}) < n}

BucketIndex(self, other) == Bits - 1 - Max(Distance(self, other))

-----------------------------------------------------------------------------
(* The routing table *)

\* A contact that is heard from moves to the back; a full bucket takes a newcomer only in
\* place of an oldest entry that has been quiet for long.
SeenIn(bucket, c) ==
  LET others == Filter(bucket, {e \in ToSet(bucket) : e.id # c})
      entry == [id |-> c, stale |-> FALSE]
  IN IF Len(others) < Len(bucket) \/ Len(bucket) < K THEN Append(others, entry)
     ELSE IF Head(bucket).stale THEN Append(Tail(bucket), entry)
     ELSE bucket

Seen(self, table, c) ==
  IF c = self THEN table ELSE [table EXCEPT ![BucketIndex(self, c)] = SeenIn(@, c)]

Contacts(table) == {e.id : e \in UNION {ToSet(table[i]) : i \in 0..Bits - 1}}
Closest(table, t) == Nearest(t, K, Contacts(table))

\* Every bucket holds what it can of the nodes that belong in it.
Filled(n, S) ==
  \A i \in 0..Bits - 1 :
    LET here == {m \in Nodes \ {n} : BucketIndex(n, m) = i}
    IN Cardinality(S \cap here) = IF Cardinality(here) < K THEN Cardinality(here) ELSE K
Tables(n) ==
  {[i \in 0..Bits - 1 |-> SetToSeq({[id |-> m, stale |-> FALSE] :
                                      m \in {c \in S : BucketIndex(n, c) = i}})] :
     S \in {T \in SUBSET (Nodes \ {n}) : Filled(n, T)}}

-----------------------------------------------------------------------------
(* Answering *)

Live(n, k) == {p \in DOMAIN store[n][k] : ~store[n][k][p]}
Providers(n, k) == Live(n, k) \cup (IF Holder[k] = n THEN {n} ELSE {})

\* Broken variant (mutation check): only the holder itself tells who holds a key.
ReplyOwnOnly(n, table, kind, t) ==
  IF kind = "find_value" /\ Holder[t] = n THEN [contacts |-> {}, providers |-> {n}]
  ELSE [contacts |-> Closest(table, t), providers |-> {}]

\* The reply of n, whose table is now `table`, to a request `find_node` or `find_value`.
Reply(n, table, kind, t) ==
  IF kind = "find_value" /\ Providers(n, t) # {}
  THEN [contacts |-> {}, providers |-> Providers(n, t)]
  ELSE [contacts |-> Closest(table, t), providers |-> {}]

Pruned(s) == [k \in Keys |-> [p \in {q \in DOMAIN s[k] : ~s[k][q]} |-> FALSE]]

\* Whether n accepts a record, and its store afterwards.
Accepts(n, k, p) ==
  LET s == Pruned(store[n]) IN
  /\ s[k] # <<>> \/ Cardinality({j \in Keys : s[j] # <<>>}) < MaxKeys
  /\ p \in DOMAIN s[k] \/ Cardinality(DOMAIN s[k]) < MaxProviders
Filed(n, k, p) ==
  LET s == Pruned(store[n]) IN
  IF Accepts(n, k, p)
  THEN [s EXCEPT ![k] = [q \in DOMAIN s[k] \cup {p} |-> FALSE]]
  ELSE s

-----------------------------------------------------------------------------
(* Walks *)

Churn == churn < MaxChurn /\ churn' = churn + 1

Pending == [t |-> "pending"]
NoReply == [t |-> "none"]
OtherReply == [t |-> "other"]
Came(r) == [t |-> "came", contacts |-> r.contacts, providers |-> r.providers]

NoWalk == [pc |-> "idle"]
Begin(n, call, t) ==
  [pc |-> "round", owner |-> n, call |-> call, target |-> t,
   kind |-> IF call = "find" THEN "find_value" ELSE "find_node",
   short |-> Closest(buckets[n], t), asked |-> {n}, providers |-> {},
   queries |-> 0, round |-> 0, replies |-> <<>>]

KadInit ==
  /\ alive = Nodes /\ churn = 0
  /\ buckets \in {b \in [Nodes -> UNION {Tables(n) : n \in Nodes}] : \A n \in Nodes : b[n] \in Tables(n)}
  /\ store = [n \in Nodes |-> [k \in Keys |-> <<>>]]
  /\ met = [n \in Nodes |-> Contacts(buckets[n])] /\ vouched = [n \in Nodes |-> {}]
  /\ walk = [w \in Walks |-> NoWalk]

\* `lookup` of the own id on joining, `announce` by who holds a key, `findProviders` by who wants it.
Call(w, n) ==
  /\ walk[w] = NoWalk /\ n \in alive
  /\ \/ walk' = [walk EXCEPT ![w] = Begin(n, "lookup", n)]
     \/ \E k \in Keys : Holder[k] = n /\ walk' = [walk EXCEPT ![w] = Begin(n, "announce", k)]
     \/ \E k \in Keys : /\ Holder[k] # n /\ Live(n, k) = {}
                        /\ walk' = [walk EXCEPT ![w] = Begin(n, "find", k)]
  /\ UNCHANGED <<alive, churn, buckets, store, heardVars>>

Batch(x) == Nearest(x.target, Alpha, x.short \ x.asked)
OutOfBudget(x) ==
  \/ x.round >= MaxRounds
  \/ Batch(x) = {}
  \/ x.queries + Cardinality(Batch(x)) > MaxQueries

\* The contacts a walk returns.
Found(x) == Nearest(x.target, K, x.short \cap x.asked)

\* The end of a walk; an announcement goes on with the contacts it found.
Ended(x) ==
  IF x.call = "announce"
  THEN [x EXCEPT !.pc = "announce", !.replies = [c \in Found(x) |-> Pending]]
  ELSE [x EXCEPT !.pc = "done"]

AskRound(w) ==
  LET x == walk[w] IN
  /\ x.pc = "round"
  /\ walk' = [walk EXCEPT ![w] =
       IF OutOfBudget(x) THEN Ended(x)
       ELSE [x EXCEPT !.pc = "wait", !.queries = @ + Cardinality(Batch(x)),
                      !.asked = @ \cup Batch(x),
                      !.replies = [c \in Batch(x) |-> Pending]]]
  /\ UNCHANGED <<alive, churn, buckets, store, heardVars>>

Awaited(x, c) ==
  x.pc \in {"wait", "announce"} /\ c \in DOMAIN x.replies /\ x.replies[c] = Pending

\* d handles a request that came to it: it hears from the owner x.owner, and files its record
\* if the request announces one.
Reaches(d, x) ==
  /\ d \in alive
  /\ buckets' = [buckets EXCEPT ![d] = Seen(d, @, x.owner)]
  /\ met' = [met EXCEPT ![d] = @ \cup {x.owner}]
  /\ store' = IF x.pc = "wait" THEN store ELSE [store EXCEPT ![d] = Filed(d, x.target, x.owner)]
  /\ UNCHANGED <<alive, vouched>>
ReplyOf(c, x) ==
  IF x.pc = "wait" THEN Reply(c, Seen(c, buckets[c], x.owner), x.kind, x.target)
  ELSE [contacts |-> {}, providers |-> IF Accepts(c, x.target, x.owner) THEN {c} ELSE {}]

\* c handles a request of the walk and replies in its own name.
Handle(w, c) ==
  /\ Awaited(walk[w], c) /\ Reaches(c, walk[w])
  /\ walk' = [walk EXCEPT ![w].replies[c] = Came(ReplyOf(c, walk[w]))]
  /\ UNCHANGED churn

\* Another machine has the address of c by now: it handles the request, and signs the reply
\* in its own name.
Misdirected(w, c, d) ==
  /\ Awaited(walk[w], c) /\ d \notin {c, walk[w].owner} /\ Reaches(d, walk[w])
  /\ walk' = [walk EXCEPT ![w].replies[c] = OtherReply]
  /\ Churn

\* A request or its reply is lost, or c is not there.
Unanswered(w, c) ==
  /\ Awaited(walk[w], c)
  /\ IF c \in alive THEN Churn ELSE UNCHANGED churn
  /\ walk' = [walk EXCEPT ![w].replies[c] = NoReply]
  /\ UNCHANGED <<alive, buckets, store, heardVars>>

AllIn(x) == \A c \in DOMAIN x.replies : x.replies[c] # Pending
Answered(x) == {c \in DOMAIN x.replies : x.replies[c].t = "came"}
Silent(x) == {c \in DOMAIN x.replies : x.replies[c].t = "none"}
Told(x) == UNION {x.replies[c].contacts : c \in Answered(x)}
\* The table of n once it has heard from some nodes, in the order of a sequence.
SeenAll(n, order) ==
  LET table[i \in 0..Len(order)] ==
        IF i = 0 THEN buckets[n] ELSE Seen(n, table[i - 1], order[i])
  IN table[Len(order)]

\* Broken variants (mutation check): contacts that a reply names enter the table; a walk stops
\* after a small round whatever it brought.
EnterToldToo(x) == Answered(x) \cup Told(x)
ExhaustedSoon(x, fresh) == Cardinality(DOMAIN x.replies) < Alpha

Enter(x) == Answered(x)
Exhausted(x, fresh) == fresh = {} /\ Cardinality(DOMAIN x.replies) < Alpha

\* All replies are there, and are taken by their distance to the target: who was silent leaves the
\* shortlist (who was answered for in another name stays in it), new contacts join it, and the walk
\* goes on unless it has what it wants or nothing is left to try.
TakeReplies(w) ==
  LET x == walk[w]
      fresh == Told(x) \ (x.short \cup x.asked)
      short == (x.short \ Silent(x)) \cup fresh
      providers == x.providers \cup (UNION {x.replies[c].providers : c \in Answered(x)} \ {x.owner})
      next == [x EXCEPT !.pc = "round", !.round = @ + 1, !.replies = <<>>, !.providers = providers,
                        !.short = Nearest(x.target, 2 * K, short)]
      enough == x.call = "find" /\ providers # {}
  IN
  /\ x.pc = "wait" /\ AllIn(x)
  /\ walk' = [walk EXCEPT ![w] = IF enough \/ Exhausted(x, fresh) THEN Ended(next) ELSE next]
  /\ \E order \in SetToSeqs(Enter(x)) :
       /\ \A i, j \in DOMAIN order : i < j => Closer(x.target, order[i], order[j])
       /\ buckets' = [buckets EXCEPT ![x.owner] = SeenAll(x.owner, order)]
  /\ met' = [met EXCEPT ![x.owner] = @ \cup Answered(x)]
  /\ UNCHANGED <<alive, churn, store, vouched>>

\* The acknowledgements of an announcement are there; they came in any order.
TakeAcks(w) ==
  LET x == walk[w] IN
  /\ x.pc = "announce" /\ AllIn(x)
  /\ walk' = [walk EXCEPT ![w] =
       [x EXCEPT !.pc = "done", !.replies = <<>>,
                 !.providers = UNION {x.replies[c].providers : c \in Answered(x)}]]
  /\ \E order \in SetToSeqs(Answered(x)) :
       buckets' = [buckets EXCEPT ![x.owner] = SeenAll(x.owner, order)]
  /\ met' = [met EXCEPT ![x.owner] = @ \cup Answered(x)]
  /\ UNCHANGED <<alive, churn, store, vouched>>

\* The caller has used what a walk returned.
Release(w) ==
  /\ walk[w].pc = "done"
  /\ walk' = [walk EXCEPT ![w] = NoWalk]
  /\ UNCHANGED <<alive, churn, buckets, store, heardVars>>

\* `locate` asks a holder that was found for the file, without a signature: the holder answers, or
\* a machine that has its address by now; either way the holder enters the table.
LocateHolder(w, p) ==
  LET n == walk[w].owner IN
  /\ walk[w].pc = "done" /\ walk[w].call = "find" /\ p \in walk[w].providers
  /\ \/ p \in alive /\ met' = [met EXCEPT ![n] = @ \cup {p}] /\ UNCHANGED <<churn, vouched>>
     \/ Churn /\ vouched' = [vouched EXCEPT ![n] = @ \cup {p}] /\ UNCHANGED met
  /\ buckets' = [buckets EXCEPT ![n] = Seen(n, @, p)]
  /\ walk' = [walk EXCEPT ![w] = NoWalk]
  /\ UNCHANGED <<alive, store>>

\* m enters the table of n outside a walk: it answered what it holds under its own name, or it is
\* remembered from such an answer when n joins the index.  (An introduction that changes no table
\* is left out.)
Introduced(n, m) ==
  /\ n \in alive
  /\ \/ m \in alive /\ met' = [met EXCEPT ![n] = @ \cup {m}]
     \/ m \in met[n] \cup vouched[n] /\ UNCHANGED met
  /\ Seen(n, buckets[n], m) # buckets[n]
  /\ buckets' = [buckets EXCEPT ![n] = Seen(n, @, m)]
  /\ UNCHANGED <<alive, churn, store, vouched, walk>>

-----------------------------------------------------------------------------
(* Time and churn *)

Leave(n) ==
  /\ Churn /\ n \in alive /\ alive' = alive \ {n}
  /\ UNCHANGED <<buckets, store, heardVars, walk>>
\* (it matters only while the bucket is full)
GrowStale(n, i) ==
  /\ Churn /\ Len(buckets[n][i]) = K /\ ~Head(buckets[n][i]).stale
  /\ buckets' = [buckets EXCEPT ![n][i][1].stale = TRUE]
  /\ UNCHANGED <<alive, store, heardVars, walk>>
Expire(n, k) ==
  /\ Churn /\ \E p \in Live(n, k) : store' = [store EXCEPT ![n][k][p] = TRUE]
  /\ UNCHANGED <<alive, buckets, heardVars, walk>>

KadNext ==
  \/ \E w \in Walks :
       \/ AskRound(w) \/ TakeReplies(w) \/ TakeAcks(w) \/ Release(w)
       \/ \E n \in Nodes : Call(w, n) \/ Handle(w, n) \/ Unanswered(w, n) \/ LocateHolder(w, n)
       \/ \E n, m \in Nodes : Misdirected(w, n, m)
  \/ \E n, m \in Nodes : Introduced(n, m)
  \/ \E n \in Nodes : \/ Leave(n)
                      \/ \E i \in 0..Bits - 1 : GrowStale(n, i)
                      \/ \E k \in Keys : Expire(n, k)

KadSpec == KadInit /\ [][KadNext]_kadVars

-----------------------------------------------------------------------------
(* Properties *)

\* Types of the variables of Kad.
KadTypeOK ==
  /\ alive \subseteq Nodes /\ churn \in 0..MaxChurn
  /\ \A n \in Nodes : met[n] \subseteq Nodes /\ vouched[n] \subseteq Nodes
  /\ \A w \in Walks : walk[w].pc \in {"idle", "round", "wait", "announce", "done"}

\* What is kept and what is asked stays within the bounds of the code, however many machines there
\* are and whatever they send.
IndexIsBounded ==
  /\ \A n \in Nodes :
       /\ \A i \in 0..Bits - 1 : Len(buckets[n][i]) <= K
       /\ Cardinality({k \in Keys : DOMAIN store[n][k] # {}}) <= MaxKeys
       /\ \A k \in Keys : Cardinality(DOMAIN store[n][k]) <= MaxProviders
  /\ \A w \in Walks : walk[w] # NoWalk =>
       /\ walk[w].queries <= MaxQueries /\ walk[w].round <= MaxRounds
       /\ Cardinality(walk[w].short) <= 2 * K
       /\ walk[w].pc = "wait" => Cardinality(DOMAIN walk[w].replies) <= Alpha
       /\ walk[w].pc = "announce" => Cardinality(DOMAIN walk[w].replies) <= K

\* What a reply merely names is asked first: whatever enters a routing table, by a walk, a request,
\* `locate` or an introduction, was heard from, or somebody answered at the address given for it;
\* and it stands there once, in its bucket.
TableIsProven ==
  \A n \in Nodes : \A i \in 0..Bits - 1 :
    /\ \A e \in ToSet(buckets[n][i]) :
         e.id \in (met[n] \cup vouched[n]) \ {n} /\ BucketIndex(n, e.id) = i
    /\ \A j, l \in DOMAIN buckets[n][i] : buckets[n][i][j].id = buckets[n][i][l].id => j = l

\* "Only nodes that answered us enter the routing table": every entry was heard from, itself.  It
\* is not so: `locate` enters whoever the index names once anybody answers at its address.
OnlyNodesThatAnsweredUs ==
  \A n \in Nodes : Contacts(buckets[n]) \subseteq met[n]

\* While nobody leaves, ages or is lost and tables are filled, an announcement reaches the node
\* closest to its key: the walk neither stops nor trims too early.
WalkFindsClosest ==
  churn = 0 => \A w \in Walks :
    walk[w].pc \in {"announce", "done"} /\ walk[w].call = "announce"
      => Nearest(walk[w].target, 1, Nodes \ {walk[w].owner}) \subseteq Found(walk[w])

\* "You find the model on a machine you have never met": and once its holder's announcement was
\* acknowledged, whoever looks for the key finds the holder.
AnnouncedIsFound ==
  /\ WalkFindsClosest
  /\ churn = 0 => \A w \in Walks :
       walk[w].pc = "done" /\ walk[w].call = "find"
         /\ (\E n \in Nodes : Holder[walk[w].target] \in Live(n, walk[w].target))
         => Holder[walk[w].target] \in walk[w].providers
=============================================================================
