------------------------------- MODULE MCPeers -------------------------------
(***************************************************************************)
(* Small instances of the four parts of a peer for TLC.  The parts share no *)
(* variable: a behaviour runs one of them, chosen at its start, and leaves  *)
(* the others at a state where they could begin.                            *)
(***************************************************************************)
EXTENDS PeerUploads, PeerSharing, PeerLending, Kad, TLC

CONSTANTS ma, mb, mc

VARIABLE part

peerVars == <<part, uploadVars, sharingVars, lendingVars, kadVars>>

\* ma borrows of the others.  They change what they lend during the first call only: while
\* there are two, both go on lending the model.
MaBorrows == [b \in Borrows |-> ma]
Lending == \A m \in {mb, mc} : lends[m] /\ loaded[m] = Asked
Roles == /\ ~lends[ma] /\ loaded[ma] = OtherModel
         /\ Cardinality({b \in Borrows : borrow[b].pc # Idle}) > 1 => Lending

\* Four ids of three bits; three of them share a bucket of the fourth.
FourIds == {{}, {0}, {1}, {0, 1, 2}}
OneKey == {{0, 1}}
HeldBySeven == [k \in Keys |-> {0, 1, 2}]
HeldByOne == [k \in Keys |-> {0}]

PeersInit ==
  /\ part \in {"uploads", "sharing", "lending", "index"}
  /\ UploadsInit /\ SharingInit /\ LendingInit /\ Roles /\ KadInit
  /\ (part # "uploads" => slots = 1)
  /\ (part # "sharing" => ~sharing /\ ~reachable)
  /\ (part # "lending" => Lending)
  /\ (part # "index" => \A n \in Nodes : buckets[n] = CHOOSE table \in Tables(n) : TRUE)

PeersNext ==
  /\ UNCHANGED part
  /\ \/ part = "uploads" /\ UploadsNext /\ UNCHANGED <<sharingVars, lendingVars, kadVars>>
     \/ part = "sharing" /\ SharingNext /\ UNCHANGED <<uploadVars, lendingVars, kadVars>>
     \/ part = "lending" /\ LendingNext /\ Roles' /\ UNCHANGED <<uploadVars, sharingVars, kadVars>>
     \/ part = "index" /\ KadNext /\ UNCHANGED <<uploadVars, sharingVars, lendingVars>>

PeersSpec == PeersInit /\ [][PeersNext]_peerVars

Interchangeable == Permutations(Borrows)
=============================================================================
