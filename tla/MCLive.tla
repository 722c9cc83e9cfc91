-------------------------------- MODULE MCLive --------------------------------
(***************************************************************************)
(* Small instances for liveness: jobs, agent runs, the desktop's watchdog   *)
(* and a peer's search for others.  The parts share no variable: a          *)
(* behaviour runs one of them, chosen at its start, and leaves the others   *)
(* as they begin, where none of the fair actions is enabled.                *)
(***************************************************************************)
EXTENDS JobScheduler, AgentRuns, Desktop, PeerDiscovery

VARIABLE part

liveVars == <<part, schedVars, agentVars, desktopVars, discoveryVars>>

CONSTANTS n1, alice, f1

AllCapacityOne == [n \in Nodes |-> 1]
AllActive == [n \in Nodes |-> "ACTIVE"]
AllSuitable == [j \in Jobs |-> Nodes]
AllAlice == [r \in Runs |-> alice]

AllStored == [h \in Hosts |-> {f1}]

\* The index is consulted, and seeds are typed in, while nothing else is asked.
FewQuestions ==
  /\ (\E q \in asks' \ asks : q.by \in {"lend", "locate"}) =>
       asks = {} /\ sweep \in {"off", "idle"}
  /\ seeds' # seeds => asks = {}

LiveInit ==
  /\ part \in {"jobs", "runs", "desktop", "discovery"}
  /\ SchedInit /\ AgentInit /\ DesktopInit /\ DiscoveryInit
  /\ part # "desktop" => ~cluster /\ ~migrated
  /\ part # "discovery" => scanning /\ dated = {} /\ \A h \in Hosts : at[h] = Nobody

Others(p) ==
  /\ p # "jobs" => UNCHANGED schedVars
  /\ p # "runs" => UNCHANGED agentVars
  /\ p # "desktop" => UNCHANGED desktopVars
  /\ p # "discovery" => UNCHANGED discoveryVars

LiveNext ==
  /\ UNCHANGED part
  /\ \/ part = "jobs" /\ SchedNext
     \/ part = "runs" /\ AgentNext
     \/ part = "desktop" /\ DesktopNext
     \/ part = "discovery" /\ DiscoveryNext /\ FewQuestions
  /\ Others(part)

LiveSpec ==
  /\ LiveInit /\ [][LiveNext]_liveVars
  /\ SchedFairness /\ AgentFairness /\ DesktopFairness /\ DiscoveryFairness
=============================================================================
