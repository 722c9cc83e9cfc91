----------------------------- MODULE NodeGateway -----------------------------
(***************************************************************************)
(* The WebSocket gateway of the node fleet (node-gateway.service.ts) in one *)
(* or several API instances that share presence through Redis, and the      *)
(* owner's switch (nodes.service.ts).                                       *)
(*                                                                         *)
(* The handlers of one connection overlap: `node.hello` awaits the database *)
(* and Redis several times, and the connection may close meanwhile.  A node *)
(* that lost its connection dials again before the server has noticed.      *)
(* Presence messages reach every instance in the order of publication.      *)
(***************************************************************************)
EXTENDS Integers, Sequences, FiniteSets

CONSTANTS
  Fleet,   \* registered nodes
  MaxLinks, \* number of connections (bound)
  MaxNews, \* presence messages an instance may have waiting (bound)
  Apis,    \* API instances; one when there is no Redis
  Redis,   \* RedisService.enabled
  NoLink   \* no connection

ASSUME GatewayAssumption ==
  /\ MaxLinks \in Nat \ {0} /\ MaxNews \in Nat \ {0} /\ NoLink \notin 1 .. MaxLinks
  /\ Redis \in BOOLEAN /\ (Cardinality(Apis) > 1 => Redis)

VARIABLES
  nodeStatus,  \* nodeStatus[n]: computeNode.status
  wanted,      \* wanted[n]: what the owner of n asked for last
  link,        \* link[l]: the node and the instance of a connection, and whether it is open
  hello,       \* hello[l]: how far the handler of node.hello is
  closing,     \* closing[l]: how far the handler of `close` is
  known,       \* connections with state.nodeId
  socketOf,    \* socketOf[i][n]: this.sockets of instance i
  globalOnline,\* globalOnline[i]: nodes that instance i believes to be online somewhere
  alive,       \* nodes with a presence key in Redis
  inbox,       \* inbox[i]: presence messages that instance i has not handled
  scan         \* scan[i]: the set of keys that a reconcile of i has read, if one is under way

dbVars == <<nodeStatus, wanted>>
linkVars == <<link, hello, closing, known>>
presenceVars == <<globalOnline, alive, inbox, scan>>
gatewayVars == <<nodeStatus, wanted, link, hello, closing, known,
                 socketOf, globalOnline, alive, inbox, scan>>

-----------------------------------------------------------------------------
Links == 1 .. MaxLinks
NodeOf(l) == link[l].node
ApiOf(l) == link[l].api
NewLink == [node |-> "none", api |-> "none", open |-> FALSE]
IsOpen(l) == link[l].open

GatewayInit ==
  /\ nodeStatus = [n \in Fleet |-> "OFFLINE"]
  /\ wanted = [n \in Fleet |-> "enabled"]
  /\ link = [l \in Links |-> NewLink]
  /\ hello = [l \in Links |-> "none"]
  /\ closing = [l \in Links |-> "no"]
  /\ known = {}
  /\ socketOf = [i \in Apis |-> [n \in Fleet |-> NoLink]]
  /\ globalOnline = [i \in Apis |-> {}]
  /\ alive = {}
  /\ inbox = [i \in Apis |-> <<>>]
  /\ scan = [i \in Apis |-> {}]

Publish(kind, n) ==
  /\ \A i \in Apis : Len(inbox[i]) < MaxNews
  /\ inbox' = [i \in Apis |-> Append(inbox[i], [kind |-> kind, node |-> n])]

HelloTo(l, s) == hello' = [hello EXCEPT ![l] = s]
ClosingTo(l, s) == closing' = [closing EXCEPT ![l] = s]

-----------------------------------------------------------------------------
(* Connections *)

\* A node dials an instance, whatever has become of its earlier connections, and says hello.
Dial(n, i, l) ==
  /\ link[l] = NewLink /\ \A k \in 1 .. l - 1 : link[k] # NewLink
  /\ link' = [link EXCEPT ![l] = [node |-> n, api |-> i, open |-> TRUE]]
  /\ HelloTo(l, "read")
  /\ UNCHANGED <<dbVars, closing, known, socketOf, presenceVars>>

\* The credentials do not match the node's row.
HelloRejected(l) ==
  /\ hello[l] = "read" /\ HelloTo(l, "rejected")
  /\ link' = [link EXCEPT ![l].open = FALSE]
  /\ UNCHANGED <<dbVars, closing, known, socketOf, presenceVars>>

\* They match; the connection may have closed since they were sent.
HelloKnown(l) ==
  /\ hello[l] = "read" /\ HelloTo(l, "update")
  /\ known' = known \cup {l}
  /\ socketOf' = [socketOf EXCEPT ![ApiOf(l)][NodeOf(l)] = l]
  /\ UNCHANGED <<dbVars, link, closing, presenceVars>>

\* The row says ONLINE, and the instance knows.
HelloUpdate(l) ==
  /\ hello[l] = "update" /\ HelloTo(l, IF Redis THEN "set" ELSE "done")
  /\ nodeStatus' = [nodeStatus EXCEPT ![NodeOf(l)] = "ONLINE"]
  /\ globalOnline' = [globalOnline EXCEPT ![ApiOf(l)] = @ \cup {NodeOf(l)}]
  /\ UNCHANGED <<wanted, link, closing, known, socketOf, alive, inbox, scan>>

HelloSet(l) ==
  /\ hello[l] = "set" /\ HelloTo(l, "publish")
  /\ alive' = alive \cup {NodeOf(l)}
  /\ UNCHANGED <<dbVars, link, closing, known, socketOf, globalOnline, inbox, scan>>

HelloPublish(l) ==
  /\ hello[l] = "publish" /\ HelloTo(l, "done")
  /\ Publish("online", NodeOf(l))
  /\ UNCHANGED <<dbVars, link, closing, known, socketOf, globalOnline, alive, scan>>

\* Broken variant (mutation check): only node.hello writes the key.
HeartbeatRowsOnly(l) ==
  /\ Redis /\ l \in known /\ closing[l] # "done"
  /\ UNCHANGED gatewayVars

\* A heartbeat writes two rows before it renews the presence key; the close may be handled first.
Heartbeat(l) ==
  /\ Redis /\ l \in known /\ closing[l] # "done"
  /\ alive' = alive \cup {NodeOf(l)}
  /\ UNCHANGED <<dbVars, linkVars, socketOf, globalOnline, inbox, scan>>

\* The connection breaks; the instance handles that later.
Break(l) ==
  /\ IsOpen(l)
  /\ link' = [link EXCEPT ![l].open = FALSE]
  /\ UNCHANGED <<dbVars, hello, closing, known, socketOf, presenceVars>>

\* The entry of the node goes, whichever connection it is for.
Close(l) ==
  /\ link[l] # NewLink /\ ~IsOpen(l) /\ closing[l] = "no"
  /\ IF l \in known
     THEN /\ ClosingTo(l, IF Redis THEN "del" ELSE "update")
          /\ socketOf' = [socketOf EXCEPT ![ApiOf(l)][NodeOf(l)] = NoLink]
          /\ globalOnline' = [globalOnline EXCEPT ![ApiOf(l)] = @ \ {NodeOf(l)}]
     ELSE ClosingTo(l, "done") /\ UNCHANGED <<socketOf, globalOnline>>
  /\ UNCHANGED <<dbVars, link, hello, known, alive, inbox, scan>>

CloseDel(l) ==
  /\ closing[l] = "del" /\ ClosingTo(l, "publish")
  /\ alive' = alive \ {NodeOf(l)}
  /\ UNCHANGED <<dbVars, link, hello, known, socketOf, globalOnline, inbox, scan>>
ClosePublish(l) ==
  /\ closing[l] = "publish" /\ ClosingTo(l, "update")
  /\ Publish("offline", NodeOf(l))
  /\ UNCHANGED <<dbVars, link, hello, known, socketOf, globalOnline, alive, scan>>
CloseUpdate(l) ==
  /\ closing[l] = "update" /\ ClosingTo(l, "done")
  /\ nodeStatus' = [nodeStatus EXCEPT ![NodeOf(l)] = "OFFLINE"]
  /\ UNCHANGED <<wanted, link, hello, known, socketOf, presenceVars>>

-----------------------------------------------------------------------------
(* Presence *)

\* A key is not renewed for 35 s: no connection of the node has sent its heartbeats.
KeyExpires(n) ==
  /\ n \in alive
  /\ \A l \in known : NodeOf(l) = n => ~IsOpen(l)
  /\ alive' = alive \ {n}
  /\ UNCHANGED <<dbVars, linkVars, socketOf, globalOnline, inbox, scan>>

HandlePresence(i) ==
  /\ inbox[i] # <<>>
  /\ inbox' = [inbox EXCEPT ![i] = Tail(@)]
  /\ globalOnline' = [globalOnline EXCEPT ![i] =
       IF Head(inbox[i]).kind = "online" THEN @ \cup {Head(inbox[i]).node}
                                         ELSE @ \ {Head(inbox[i]).node}]
  /\ UNCHANGED <<dbVars, linkVars, socketOf, alive, scan>>

\* Every 15 s the keys are read, and then taken for the truth, with the own sockets.  (Before the
\* first connection that changes nothing.)
ReconcileScan(i) ==
  /\ Redis /\ scan[i] = {} /\ link[1] # NewLink
  /\ scan' = [scan EXCEPT ![i] = {alive}]
  /\ UNCHANGED <<dbVars, linkVars, socketOf, globalOnline, alive, inbox>>
Reconcile(i) ==
  /\ scan[i] # {}
  /\ scan' = [scan EXCEPT ![i] = {}]
  /\ globalOnline' = [globalOnline EXCEPT ![i] =
                        UNION scan[i] \cup {n \in Fleet : socketOf[i][n] # NoLink}]
  /\ UNCHANGED <<dbVars, linkVars, socketOf, alive, inbox>>

\* An instance stops and starts again: its connections break, and nobody handles that.
InstanceRestart(i) ==
  LET mine == {l \in Links : link[l] # NewLink /\ ApiOf(l) = i} IN
  /\ \E l \in mine : IsOpen(l)
  /\ link' = [l \in Links |-> IF l \in mine THEN [link[l] EXCEPT !.open = FALSE] ELSE link[l]]
  /\ hello' = [l \in Links |-> IF l \in mine THEN "done" ELSE hello[l]]
  /\ closing' = [l \in Links |-> IF l \in mine THEN "done" ELSE closing[l]]
  /\ socketOf' = [socketOf EXCEPT ![i] = [n \in Fleet |-> NoLink]]
  /\ globalOnline' = [globalOnline EXCEPT ![i] = {}]
  /\ inbox' = [inbox EXCEPT ![i] = <<>>]
  /\ scan' = [scan EXCEPT ![i] = {}]
  /\ UNCHANGED <<dbVars, known, alive>>

\* The owner disables or enables a node.
SetEnabled(n, w) ==
  /\ wanted' = [wanted EXCEPT ![n] = w]
  /\ nodeStatus' = [nodeStatus EXCEPT ![n] = IF w = "enabled" THEN "OFFLINE" ELSE "DISABLED"]
  /\ UNCHANGED <<linkVars, socketOf, presenceVars>>

-----------------------------------------------------------------------------
HelloSteps(l) == HelloKnown(l) \/ HelloUpdate(l) \/ HelloSet(l) \/ HelloPublish(l)
CloseSteps(l) == Close(l) \/ CloseDel(l) \/ ClosePublish(l) \/ CloseUpdate(l)

GatewayNext ==
  \/ \E l \in Links :
       \/ \E n \in Fleet, i \in Apis : Dial(n, i, l)
       \/ HelloRejected(l) \/ HelloSteps(l)
       \/ Heartbeat(l) \/ Break(l) \/ CloseSteps(l)
  \/ \E n \in Fleet : KeyExpires(n) \/ \E w \in {"enabled", "disabled"} : SetEnabled(n, w)
  \/ \E i \in Apis : HandlePresence(i) \/ ReconcileScan(i) \/ Reconcile(i) \/ InstanceRestart(i)

GatewaySpec == GatewayInit /\ [][GatewayNext]_gatewayVars

\* Handlers go on, messages arrive, the interval and the time to live of the keys run, and a
\* connected node goes on sending heartbeats.
GatewayFairness ==
  /\ \A l \in Links : /\ WF_gatewayVars(HelloSteps(l) \/ HelloRejected(l))
                      /\ WF_gatewayVars(CloseSteps(l))
                      /\ WF_gatewayVars(IsOpen(l) /\ Heartbeat(l))
  /\ \A n \in Fleet : WF_gatewayVars(KeyExpires(n))
  /\ \A i \in Apis : /\ WF_gatewayVars(HandlePresence(i))
                     /\ WF_gatewayVars(ReconcileScan(i)) /\ WF_gatewayVars(Reconcile(i))
GatewayFairSpec == GatewaySpec /\ GatewayFairness

-----------------------------------------------------------------------------
(* Properties *)

Online(i, n) == socketOf[i][n] # NoLink \/ (Redis /\ n \in globalOnline[i])
Connected(n) == \E l \in known : IsOpen(l) /\ NodeOf(l) = n

\* Types of the variables of NodeGateway; an entry of `sockets` is a connection of that node to
\* that instance that said hello.
GatewayTypeOK ==
  /\ nodeStatus \in [Fleet -> {"OFFLINE", "ONLINE", "DISABLED"}]
  /\ wanted \in [Fleet -> {"enabled", "disabled"}]
  /\ hello \in [Links -> {"none", "read", "rejected", "update", "set", "publish", "done"}]
  /\ closing \in [Links -> {"no", "del", "publish", "update", "done"}]
  /\ known \subseteq Links
  /\ \A i \in Apis, n \in Fleet :
       socketOf[i][n] # NoLink => /\ socketOf[i][n] \in known
                                  /\ NodeOf(socketOf[i][n]) = n /\ ApiOf(socketOf[i][n]) = i
  /\ globalOnline \in [Apis -> SUBSET Fleet] /\ alive \subseteq Fleet
  /\ scan \in [Apis -> SUBSET SUBSET Fleet]

\* With Redis, a node that stays connected is known to every instance in the end, whatever
\* order its earlier connections were closed in, and whichever instances restarted.
ConnectedIsKnown ==
  \A n \in Fleet, i \in Apis : Redis => (<>[]Connected(n) => <>[]Online(i, n))

\* "Owns the live nodeId -> socket map": a node that stays connected has its connection in the
\* map of some instance in the end, so that a message to it can be sent.
ConnectedIsReachable ==
  \A n \in Fleet : <>[]Connected(n) => <>[](\E i \in Apis : /\ socketOf[i][n] # NoLink
                                                             /\ IsOpen(socketOf[i][n]))

\* "Disable node (stops taking jobs)": the row of a node that its owner disabled says so.
DisabledIsDisabled == \A n \in Fleet : wanted[n] = "disabled" => nodeStatus[n] = "DISABLED"
=============================================================================
