---------------------------- MODULE PeerDiscovery ----------------------------
(***************************************************************************)
(* How a peer learns whom it can talk to (peer.service.ts): announcements   *)
(* over multicast, questions to single addresses (the sweep, the seeds, the *)
(* addresses of former times, gossip), and the machines that the index      *)
(* names.  The module is one machine's view; the others move, come and go.  *)
(*                                                                         *)
(* A question is a request in flight: whoever listens at the address when   *)
(* it is answered is heard, or nobody is.                                   *)
(* Sharing is on; PeerSharing turns it.  What a table of the index keeps of *)
(* the contacts it is shown is Kad's.                                       *)
(***************************************************************************)
EXTENDS Naturals, FiniteSets

CONSTANTS
  Hosts,       \* other machines
  Me,          \* this one
  Addresses,
  Mine,        \* an address at which this machine finds itself
  Local,       \* addresses of the subnet (the sweep, multicast)
  Starter,     \* addresses that the application was shipped with
  Files,       \* models
  Stored,      \* Stored[h]: the models of machine h
  Lenders,     \* machines that lend their processor for what they hold
  Nobody,
  MaxFresh,    \* addresses followed per answer (8)
  MaxTurns     \* moves, losses, restarts and settings of a run (bound)

ASSUME DiscoveryAssumption ==
  /\ Mine \in Addresses /\ Local \subseteq Addresses /\ Starter \subseteq Addresses
  /\ Stored \in [Hosts -> SUBSET Files] /\ Lenders \subseteq Hosts
  /\ Nobody \notin Hosts \cup {Me} /\ Me \notin Hosts
  /\ MaxFresh \in Nat /\ MaxTurns \in Nat

VARIABLES
  dated,     \* machines of a version without /peer/have
  at,        \* at[h]: the address at which machine h listens, or Nobody
  turns,     \* how often something outside, or the user, intervened
  peers,     \* the live picture: [id, address, has], one entry per id
  saved,     \* known-nodes.json
  seeds,     \* peer-seeds.json
  scanning,  \* whether the subnet may be swept (NEURION_PEER_SWEEP)
  sweep,     \* the stage of the sweep under way, "idle", or "off" before the socket is bound
  asks,      \* questions in flight: the address, the reason, the id expected there
  routes,    \* addresses of the contacts that the index was shown
  answered   \* addresses at which a machine has ever answered or spoken (history)

discoveryVars ==
  <<dated, at, turns, peers, saved, seeds, scanning, sweep, asks, routes, answered>>

\* An entry without an id of its own is named after its address.
Names == Hosts \cup Addresses
Reasons == {"sweep", "seed", "lend", "locate"}

DiscoveryTypeOK ==
  /\ dated \subseteq Hosts /\ at \in [Hosts -> Addresses \cup {Nobody}] /\ turns \in 0..MaxTurns
  /\ \A p \in peers : /\ p.id \in Names /\ p.address \in Addresses
                      /\ p.has \subseteq Files
  /\ \A p, q \in peers : p.id = q.id => p = q
  /\ saved \subseteq Addresses /\ seeds \subseteq Addresses
  /\ scanning \in BOOLEAN /\ sweep \in {"off", "idle", "remembered", "seeds", "subnet"}
  /\ asks \subseteq [to : Addresses, by : Reasons, id : Hosts \cup {Nobody}]
  /\ routes \subseteq Addresses /\ answered \subseteq Addresses

ListeningAt(address) == {h \in Hosts : at[h] = address}

-----------------------------------------------------------------------------
(* The live picture *)

Remember(id, address, has) ==
  {p \in peers : p.id # id} \cup {[id |-> id, address |-> address, has |-> has]}

SourceFor(f) == {p \in peers : f \in p.has}

\* Whoever was not heard from for the TTL is forgotten; every reader forgets first.
Forget ==
  /\ \E p \in peers : peers' = peers \ {p}
  /\ UNCHANGED <<dated, at, turns, saved, seeds, scanning, sweep, asks, routes, answered>>

-----------------------------------------------------------------------------
(* Speaking first *)

\* A signed announcement of a machine of this subnet.
OnAnnounce ==
  /\ sweep # "off"
  /\ \E h \in Hosts \ dated :
       /\ at[h] \in Local
       /\ peers' = Remember(h, at[h], Stored[h])
       /\ answered' = answered \cup {at[h]}
  /\ UNCHANGED <<dated, at, turns, saved, seeds, scanning, sweep, asks, routes>>

\* A machine asks this one something about the index; its address is the one observed.
AnswerKad ==
  /\ \E h \in Hosts :
       /\ at[h] # Nobody
       /\ routes' = routes \cup {at[h]}
       /\ answered' = answered \cup {at[h]}
  /\ UNCHANGED <<dated, at, turns, peers, saved, seeds, scanning, sweep, asks>>

\* The ten-minute round shows the index whoever is known by an id of its own.
JoinNetwork ==
  /\ routes' = routes \cup {p.address : p \in {k \in peers : k.id \in Hosts}}
  /\ UNCHANGED <<dated, at, turns, peers, saved, seeds, scanning, sweep, asks, answered>>

-----------------------------------------------------------------------------
(* Asking an address *)

Ask(addresses, by) ==
  {[to |-> a, by |-> by, id |-> Nobody] : a \in addresses}

\* Whoever listens at the address of q answers.
Answers(q, h) ==
  /\ h \in ListeningAt(q.to) \cup (IF q.to = Mine THEN {Me} ELSE {})
  /\ answered' = answered \cup {q.to}

\* No answer within the time allowed: nobody is there, the machine refuses, or the network fails.
NoAnswer(q) ==
  /\ IF ListeningAt(q.to) = {} /\ q.to # Mine THEN UNCHANGED turns
     ELSE turns < MaxTurns /\ turns' = turns + 1
  /\ asks' = asks \ {q}
  /\ UNCHANGED <<dated, at, peers, saved, seeds, scanning, sweep, routes, answered>>

\* The addresses of an answer that are asked in their turn: those not known, a handful.
Fresh(told, picture) ==
  LET new == {a \in told : \A p \in picture : p.address # a}
  IN IF Cardinality(new) <= MaxFresh THEN {new}
     ELSE {S \in SUBSET new : Cardinality(S) = MaxFresh}

\* Broken variant (mutation check): the addresses of an answer are written down, not asked.
HearBelieving(q) ==
  /\ q.by \in {"sweep", "seed"}
  /\ \E h \in Hosts, told \in SUBSET Addresses :
       /\ Answers(q, h)
       /\ peers' = Remember(h, q.to, Stored[h])
       /\ saved' = saved \cup {q.to} \cup told
       /\ routes' = routes \cup {q.to}
  /\ asks' = asks \ {q}
  /\ UNCHANGED <<dated, at, turns, seeds, scanning, sweep>>

\* A machine that answers `ask` is written down, enters the picture and is shown to the index.
\* It tells whom it knows (any addresses), which are asked in their turn.  One of an older
\* version answers 404, is asked for its models one by one, and is known by its address.
Hear(q) ==
  /\ q.by \in {"sweep", "seed"}
  /\ \/ /\ Answers(q, Me)
        /\ asks' = asks \ {q}
        /\ UNCHANGED <<peers, saved, routes>>
     \/ \E h \in dated :
          /\ Answers(q, h)
          /\ peers' = Remember(q.to, q.to, Stored[h])
          /\ asks' = asks \ {q}
          /\ UNCHANGED <<saved, routes>>
     \/ \E h \in Hosts \ dated, told \in SUBSET Addresses :
          /\ Answers(q, h)
          /\ peers' = Remember(h, q.to, Stored[h])
          /\ saved' = saved \cup {q.to}
          /\ routes' = routes \cup {q.to}
          /\ \E S \in Fresh(told, peers') : asks' = (asks \ {q}) \cup Ask(S, q.by)
  /\ UNCHANGED <<dated, at, turns, seeds, scanning, sweep>>

-----------------------------------------------------------------------------
(* The sweep *)

Sweeping == \E q \in asks : q.by = "sweep"

Stage(from, to, addresses) ==
  /\ sweep = from /\ ~Sweeping
  /\ sweep' = to
  /\ asks' = asks \cup Ask(addresses, "sweep")

\* The discovery socket is bound, and the timers run.
Discover ==
  /\ sweep = "off" /\ sweep' = "idle"
  /\ UNCHANGED <<dated, at, turns, peers, saved, seeds, scanning, asks, routes, answered>>

\* At once, then every half minute: a sweep while nobody is known (unless one runs), else only the seeds.
Interval ==
  /\ sweep # "off"
  /\ \/ peers # {} /\ asks' = asks \cup Ask(seeds, "seed") /\ UNCHANGED sweep
     \/ peers = {} /\ Stage("idle", "remembered", saved \cup Starter)
  /\ UNCHANGED <<dated, at, turns, peers, saved, seeds, scanning, routes, answered>>

\* Broken variant (mutation check): where the subnet may not be swept, nothing says that the
\* sweep is over.
SweepGoesOnStuck ==
  /\ \/ Stage("remembered", "seeds", seeds)
     \/ scanning /\ Stage("seeds", "subnet", Local)
     \/ Stage("subnet", "idle", {})
  /\ UNCHANGED <<dated, at, turns, peers, saved, seeds, scanning, routes, answered>>

\* The stages of a sweep; each waits for its questions and for those that followed from them.
SweepGoesOn ==
  /\ \/ Stage("remembered", "seeds", seeds)
     \/ scanning /\ Stage("seeds", "subnet", Local)
     \/ ~scanning /\ Stage("seeds", "idle", {})
     \/ Stage("subnet", "idle", {})
  /\ UNCHANGED <<dated, at, turns, peers, saved, seeds, scanning, routes, answered>>

-----------------------------------------------------------------------------
(* Machines that the index names *)

\* The index tells that machine h is at some address: a record may outlive the machine's stay.
Named(by) ==
  \E h \in Hosts, a \in Addresses :
    asks' = asks \cup {[to |-> a, by |-> by, id |-> h]}

\* `locate`: the neighbours first, then whoever the index names, asked one after the other.
Locate ==
  /\ \A q \in asks : q.by # "locate"
  /\ \E f \in Files : SourceFor(f) = {}
  /\ Named("locate")
  /\ UNCHANGED <<dated, at, turns, peers, saved, seeds, scanning, sweep, routes, answered>>

\* Whoever answers that it has the model is taken for the machine that the record named.
Located(q) ==
  /\ q.by = "locate"
  /\ \E h \in Hosts \cup {Me} :
       /\ Answers(q, h)
       /\ \/ /\ h \in Hosts
             /\ \E f \in Stored[h] : peers' = Remember(q.id, q.to, {f})
             /\ saved' = saved \cup {q.to}
             /\ routes' = routes \cup {q.to}
          \/ UNCHANGED <<peers, saved, routes>>
  /\ asks' = asks \ {q}
  /\ UNCHANGED <<dated, at, turns, seeds, scanning, sweep>>

\* `findLenders`: a machine that the index names is asked what it lends.
FindLenders ==
  /\ \A q \in asks : q.by # "lend"
  /\ Named("lend")
  /\ UNCHANGED <<dated, at, turns, peers, saved, seeds, scanning, sweep, routes, answered>>

\* It has to be the machine that was named, and to lend what was asked for.
Lends(q) ==
  /\ q.by = "lend"
  /\ \E h \in Hosts \cup {Me} :
       /\ Answers(q, h)
       /\ IF h = q.id /\ h \in Lenders \ dated
          THEN peers' = Remember(h, q.to, Stored[h]) /\ saved' = saved \cup {q.to}
          ELSE UNCHANGED <<peers, saved>>
  /\ asks' = asks \ {q}
  /\ UNCHANGED <<dated, at, turns, seeds, scanning, sweep, routes>>

-----------------------------------------------------------------------------
(* The user and the world *)

Turn == turns < MaxTurns /\ turns' = turns + 1

\* A blocked address leaves the picture; the list is read when others ask, and nowhere here.
Block ==
  /\ Turn
  /\ \E a \in Addresses : peers' = {p \in peers : p.address # a}
  /\ UNCHANGED <<dated, at, saved, seeds, scanning, sweep, asks, routes, answered>>

\* A new seed is tried at once.
AddSeed ==
  /\ Turn
  /\ \E a \in Addresses : seeds' = seeds \cup {a} /\ asks' = asks \cup Ask({a}, "seed")
  /\ UNCHANGED <<dated, at, peers, saved, scanning, sweep, routes, answered>>

RemoveSeed ==
  /\ Turn
  /\ \E a \in seeds : seeds' = seeds \ {a}
  /\ UNCHANGED <<dated, at, peers, saved, scanning, sweep, asks, routes, answered>>

\* A machine goes, comes, or takes another address.
Moves ==
  /\ Turn
  /\ \E h \in Hosts, a \in (Addresses \ {Mine}) \cup {Nobody} :
       /\ a # at[h] /\ (a # Nobody => ListeningAt(a) = {})
       /\ at' = [at EXCEPT ![h] = a]
  /\ UNCHANGED <<dated, peers, saved, seeds, scanning, sweep, asks, routes, answered>>

\* Only the files outlive the API.
Reboot ==
  /\ Turn
  /\ peers' = {} /\ sweep' = "off" /\ asks' = {} /\ routes' = {}
  /\ UNCHANGED <<dated, at, saved, seeds, scanning, answered>>

DiscoveryInit ==
  /\ dated \in SUBSET Hosts
  /\ at \in [Hosts -> (Addresses \ {Mine}) \cup {Nobody}]
  /\ \A g, h \in Hosts : at[g] = at[h] => g = h \/ at[g] = Nobody
  /\ turns = 0 /\ peers = {} /\ saved = {} /\ seeds = {}
  /\ scanning \in BOOLEAN
  /\ sweep = "off" /\ asks = {} /\ routes = {} /\ answered = {}

DiscoveryNext ==
  \/ Forget \/ OnAnnounce \/ AnswerKad \/ JoinNetwork
  \/ \E q \in asks : NoAnswer(q) \/ Hear(q) \/ Located(q) \/ Lends(q)
  \/ Discover \/ Interval \/ SweepGoesOn \/ Locate \/ FindLenders
  \/ Block \/ AddSeed \/ RemoveSeed \/ Moves \/ Reboot

DiscoverySpec == DiscoveryInit /\ [][DiscoveryNext]_discoveryVars

\* Timers fire, and a question ends within its time: by an answer that is read, or without one.
EndsOf(reasons) ==
  \E q \in asks : q.by \in reasons /\ (NoAnswer(q) \/ Hear(q) \/ Located(q) \/ Lends(q))

DiscoveryFairness ==
  /\ WF_discoveryVars(Interval) /\ WF_discoveryVars(SweepGoesOn)
  /\ WF_discoveryVars(EndsOf({"sweep"})) /\ WF_discoveryVars(EndsOf(Reasons \ {"sweep"}))

-----------------------------------------------------------------------------
(* Properties *)

\* Gossip, the index and the files of former times only say whom to ask: an address is in the
\* picture, written down or shown to the index only if somebody answered there, or spoke from
\* there, whatever moved, expired or restarted in between (peer.service.ts `ask`, `followGossip`,
\* `locate`, `findLenders`).
NothingOnHearsay ==
  saved \cup {p.address : p \in peers} \cup routes \subseteq answered

Reachable == \E a \in saved : ListeningAt(a) # {}

\* A machine that knows nobody finds somebody again as long as one of the addresses at which
\* somebody once answered still answers (`sweep`, `askRemembered`): no sweep is left behind
\* that keeps the next one from starting.
AloneFindsAgain == (sweep # "off" /\ peers = {} /\ Reachable) ~> (sweep = "off" \/ peers # {} \/ ~Reachable)
=============================================================================
