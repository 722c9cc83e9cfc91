------------------------------ MODULE JobLease ------------------------------
(***************************************************************************)
(* What the grid promises about one job, seen from outside: at any time    *)
(* at most one node holds it, a hold is only ever taken while nobody holds *)
(* the job, and every hold has a round number of its own, larger than all  *)
(* the earlier ones.  Releasing a hold (result, failure, expiry, cancel)   *)
(* keeps the round.                                                        *)
(*                                                                         *)
(* JobScheduler implements this specification, with the row's node while   *)
(* its status is an active one for the holder and Job.attempt for the      *)
(* round.                                                                  *)
(***************************************************************************)
EXTENDS Naturals

CONSTANTS Jobs,     \* the jobs
          Nodes,    \* the compute nodes
          NoNode    \* stands for "nobody"

VARIABLES holder,   \* holder[j]: the node that holds job j, or NoNode
          round     \* round[j]: how often j has been taken

leaseVars == <<holder, round>>

LeaseInit == /\ holder = [j \in Jobs |-> NoNode]
             /\ round = [j \in Jobs |-> 0]

\* A free job is taken by a node, in a new round.
Take(j, n) == /\ holder[j] = NoNode
              /\ holder' = [holder EXCEPT ![j] = n]
              /\ round' = [round EXCEPT ![j] = @ + 1]

\* The holder of a job loses it; the round stays.
Release(j) == /\ holder[j] # NoNode
              /\ holder' = [holder EXCEPT ![j] = NoNode]
              /\ UNCHANGED round

LeaseNext == \E j \in Jobs : Release(j) \/ \E n \in Nodes : Take(j, n)

LeaseSpec == LeaseInit /\ [][LeaseNext]_leaseVars
=============================================================================
