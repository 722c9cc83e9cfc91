----------------------------- MODULE PeerSharing -----------------------------
(***************************************************************************)
(* The sharing switch of a peer and what runs behind it (peer.service.ts):  *)
(* the HTTP server, the renewal of the router's port, the rounds that join  *)
(* and feed the index, and the loops by which a machine behind a closed     *)
(* door stays attached to a relay.                                          *)
(*                                                                         *)
(* Each of these awaits the network in the middle, so the switch may be     *)
(* turned while a handler is between a check and the step it checked for.   *)
(***************************************************************************)
EXTENDS Integers, FiniteSets

CONSTANTS
  Relays,       \* peers that may agree to answer for this machine
  Loops,        \* slots for activations of relayLoop (bound)
  MaxInFlight,  \* bound on activations of one handler, and on lost intervals
  NoRelay       \* not attached

ASSUME SharingAssumption ==
  NoRelay \notin Relays /\ {"gone", "top"} \cap Relays = {} /\ MaxInFlight \in Nat \ {0}

VARIABLES
  sharing,    \* enabled(): what the user chose, on disk
  reachable,  \* reachability() is "on": the user allows asking the router
  started,    \* start() has run since the last stopServing()
  listening,  \* a server of this process listens on the sharing port
  http,       \* this.http refers to that server
  mapping,    \* the router opened a port once
  becoming,   \* activations of becomeReachable that await their first answer
  renewal,    \* mapTimer refers to a live interval
  lost,       \* live renewal intervals that nothing refers to
  strayed,    \* a timer of joinNetwork's rounds that nothing refers to
  joining,    \* the round of joinNetwork under way
  myRelay,    \* the relay this machine is attached to
  ensuring,   \* activations of ensureRelayed that await an answer
  loop        \* loop[l]: "gone", between two polls, or the relay being polled

serveVars == <<sharing, reachable, started, listening, http>>
routerVars == <<mapping, becoming, renewal, lost>>
relayedVars == <<myRelay, ensuring, loop>>
roundVars == <<strayed, joining>>
sharingVars == <<sharing, reachable, started, listening, http,
                 mapping, becoming, renewal, lost, strayed, joining, myRelay, ensuring, loop>>

-----------------------------------------------------------------------------
LoopStates == {"gone", "top"} \cup Relays

SharingInit ==
  /\ sharing \in BOOLEAN /\ reachable \in BOOLEAN
  /\ started = FALSE /\ listening = FALSE /\ http = FALSE
  /\ mapping = FALSE /\ becoming = 0 /\ renewal = FALSE /\ lost = 0
  /\ strayed = FALSE /\ joining = "none"
  /\ myRelay = NoRelay /\ ensuring = 0 /\ loop = [l \in Loops |-> "gone"]

\* `serve` on a port that is taken, by an earlier server or by a stranger, drops the
\* reference, whatever it referred to.
Serve == \/ listening' = TRUE /\ http' = ~listening
         \/ UNCHANGED listening /\ http' = FALSE

\* start(): nothing if started or switched off.  Its timers for joinNetwork and ensureRelayed
\* replace those of the start before.
Start ==
  /\ sharing' = TRUE /\ started' = TRUE
  /\ Serve
  /\ becoming' = becoming + (IF reachable THEN 1 ELSE 0)
  /\ strayed' = (strayed \/ started)
  /\ UNCHANGED <<reachable, mapping, renewal, lost, joining, relayedVars>>

Boot ==
  /\ sharing /\ ~started /\ becoming < MaxInFlight
  /\ Start

\* setSharingEnabled(true) starts again, also when it is on already.
SwitchOn == becoming < MaxInFlight /\ Start

\* setSharingEnabled(false): stopServing closes what it has a reference to.
SwitchOff ==
  /\ sharing' = FALSE /\ started' = FALSE
  /\ listening' = (listening /\ ~http) /\ http' = FALSE
  /\ renewal' = FALSE
  /\ myRelay' = NoRelay
  /\ UNCHANGED <<reachable, mapping, becoming, lost, roundVars, ensuring, loop>>

-----------------------------------------------------------------------------
(* The router *)

SetReachable(allowed) ==
  /\ reachable' = allowed
  /\ IF allowed THEN becoming < MaxInFlight /\ becoming' = becoming + 1 /\ UNCHANGED renewal
                ELSE renewal' = FALSE /\ UNCHANGED becoming
  /\ UNCHANGED <<sharing, started, listening, http, mapping, lost, roundVars, relayedVars>>

\* The first statements of ensureRelayed, up to its first request.
EnsureBegins ==
  IF sharing /\ ~mapping' /\ myRelay = NoRelay
  THEN ensuring < MaxInFlight /\ ensuring' = ensuring + 1
  ELSE UNCHANGED ensuring

\* The router answers: it opened the port, or somebody is asked to answer for this machine.
RouterAnswers ==
  /\ \/ mapping' = TRUE /\ UNCHANGED ensuring
     \/ mapping' = mapping /\ (IF mapping THEN UNCHANGED ensuring ELSE EnsureBegins)
  /\ UNCHANGED <<myRelay, loop>>

\* The first answer of becomeReachable starts the interval, whatever happened meanwhile.
BecomeReachable ==
  /\ becoming > 0 /\ becoming' = becoming - 1
  /\ RouterAnswers
  /\ renewal' = TRUE
  /\ IF renewal THEN lost < MaxInFlight /\ lost' = lost + 1 ELSE UNCHANGED lost
  /\ UNCHANGED <<serveVars, roundVars>>

Renew ==
  /\ renewal \/ lost > 0
  /\ RouterAnswers
  /\ UNCHANGED <<serveVars, becoming, renewal, lost, roundVars>>

-----------------------------------------------------------------------------
(* The index: a round looks this machine up and then, if sharing is on, announces *)

JoinBegins ==
  /\ started \/ strayed
  /\ joining = "none"
  /\ joining' = "lookup"
  /\ UNCHANGED <<serveVars, routerVars, strayed, relayedVars>>
JoinPublishes ==
  /\ joining = "lookup"
  /\ joining' = IF sharing THEN "publish" ELSE "none"
  /\ UNCHANGED <<serveVars, routerVars, strayed, relayedVars>>
JoinEnds ==
  /\ joining = "publish" /\ joining' = "none"
  /\ UNCHANGED <<serveVars, routerVars, strayed, relayedVars>>

-----------------------------------------------------------------------------
(* Being relayed *)

\* Every minute; also from a renewal that failed and from a loop that was forgotten.
EnsureRelayed ==
  /\ started \/ strayed
  /\ mapping' = mapping /\ EnsureBegins
  /\ UNCHANGED <<serveVars, becoming, renewal, lost, roundVars, myRelay, loop>>

\* A peer agreed: attach to it, and start a loop.
Registered(h, l) ==
  /\ ensuring > 0 /\ ensuring' = ensuring - 1
  /\ loop[l] = "gone"
  /\ myRelay' = h
  /\ loop' = [loop EXCEPT ![l] = "top"]
  /\ UNCHANGED <<serveVars, routerVars, roundVars>>

\* Nobody did, of the eight that were asked.
NobodyAgrees ==
  /\ ensuring > 0 /\ ensuring' = ensuring - 1
  /\ UNCHANGED <<serveVars, routerVars, roundVars, myRelay, loop>>

RelayLoopTop(l) ==
  /\ loop[l] = "top"
  /\ loop' = [loop EXCEPT ![l] = IF myRelay = NoRelay THEN "gone" ELSE myRelay]
  /\ UNCHANGED <<serveVars, routerVars, roundVars, myRelay, ensuring>>

\* A poll brings nothing, a job (whose file is sent), or fails; the loop goes on.
PollReturns(l) ==
  /\ loop[l] \in Relays
  /\ loop' = [loop EXCEPT ![l] = "top"]
  /\ UNCHANGED <<serveVars, routerVars, roundVars, myRelay, ensuring>>

\* Broken variant (mutation check): the loop ends and leaves its relay noted.
PollForgottenStays(l) ==
  /\ loop[l] \in Relays
  /\ loop' = [loop EXCEPT ![l] = "gone"]
  /\ UNCHANGED <<serveVars, routerVars, roundVars, myRelay, ensuring>>

\* 404, the relay forgot this machine: detach, register again, and leave the loop.
PollForgotten(l) ==
  /\ loop[l] \in Relays
  /\ loop' = [loop EXCEPT ![l] = "gone"]
  /\ myRelay' = NoRelay
  /\ IF sharing /\ ~mapping THEN ensuring < MaxInFlight /\ ensuring' = ensuring + 1
                            ELSE UNCHANGED ensuring
  /\ UNCHANGED <<serveVars, routerVars, roundVars>>

-----------------------------------------------------------------------------
User == SwitchOn \/ SwitchOff \/ \E allowed \in BOOLEAN : SetReachable(allowed)
Progress ==
  \/ BecomeReachable \/ JoinPublishes \/ JoinEnds \/ NobodyAgrees
  \/ \E l \in Loops : \/ RelayLoopTop(l) \/ PollReturns(l) \/ PollForgotten(l)
                      \/ \E h \in Relays : Registered(h, l)
Intervals == Renew \/ JoinBegins \/ EnsureRelayed

SharingNext == Boot \/ User \/ Progress \/ Intervals
SharingSpec == SharingInit /\ [][SharingNext]_sharingVars

\* Requests of this process end, by an answer or by their timeout.
SharingFairness ==
  /\ WF_sharingVars(BecomeReachable)
  /\ WF_sharingVars(JoinPublishes) /\ WF_sharingVars(JoinEnds)
  /\ WF_sharingVars(NobodyAgrees \/ \E l \in Loops, h \in Relays : Registered(h, l))
  /\ \A l \in Loops : WF_sharingVars(RelayLoopTop(l) \/ PollReturns(l) \/ PollForgotten(l))
SharingFairSpec == SharingSpec /\ SharingFairness

-----------------------------------------------------------------------------
(* Properties *)

\* Types of the variables of PeerSharing; a reference to a server is to one that listens.
SharingTypeOK ==
  /\ sharing \in BOOLEAN /\ reachable \in BOOLEAN /\ started \in BOOLEAN
  /\ listening \in BOOLEAN /\ http \in BOOLEAN /\ (http => listening)
  /\ mapping \in BOOLEAN /\ renewal \in BOOLEAN
  /\ becoming \in 0..MaxInFlight /\ lost \in 0..MaxInFlight /\ ensuring \in 0..MaxInFlight
  /\ strayed \in BOOLEAN /\ joining \in {"none", "lookup", "publish"}
  /\ myRelay \in Relays \cup {NoRelay}
  /\ loop \in [Loops -> LoopStates]
  /\ started => sharing

\* ensureRelayed does nothing while a relay is noted, so a noted relay must be polled: no
\* order of registrations, 404s and switches leaves this machine attached with no loop.
AttachedIsPolled == myRelay # NoRelay => \E l \in Loops : loop[l] # "gone"

\* "Off takes effect at once": what was under way when sharing was switched off comes to an
\* end, and then nothing is served, directly or through a relay, and nothing is announced.
Quiet == ~listening /\ joining = "none" /\ \A l \in Loops : loop[l] = "gone"
OffIsOff == ~sharing ~> (sharing \/ Quiet)
=============================================================================
