---------------------------- MODULE MCMonitoring ----------------------------
(* Small instances of Monitoring for TLC. *)
EXTENDS Monitoring, TLC

CONSTANTS n1, p1, p2

MCNoPeer == [p \in {} |-> n1]

MCOnePeer == p1 :> n1

\* Two peers that may share a router.
MCTwoPeers == p1 :> n1 @@ p2 :> n1

\* Thresholds of 1 and 2: a handshake in the future, and one at each threshold.
MCShown == {-1, 1, 2, NoHandshake, NotListed}
MCFewShown == {-1, NotListed}
MCEveryLink == {-1, 1, NotListed}
=============================================================================
