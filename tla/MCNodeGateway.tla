---------------------------- MODULE MCNodeGateway ----------------------------
(* A small instance of NodeGateway for TLC. *)
EXTENDS NodeGateway

\* The first connection is to one of the instances, reconciles do not overlap, and the owner
\* uses the switch while no close is under way.
FirstApi == CHOOSE i \in Apis : TRUE
GatewaySteps ==
  /\ GatewayNext
  /\ wanted' # wanted => \A l \in Links : closing[l] = "done"
  /\ link[1] # link'[1] => link'[1].api = FirstApi
  /\ Cardinality({i \in Apis : scan'[i] # {}}) < 2

BoundedSpec == GatewayInit /\ [][GatewaySteps]_gatewayVars /\ GatewayFairness
=============================================================================
