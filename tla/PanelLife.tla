----------------------------- MODULE PanelLife -----------------------------
(***************************************************************************)
(* The panel, the agent and the stores between them implement PeerLife.    *)
(***************************************************************************)
EXTENDS PanelPeers

\* Not generated yet, or held by a call that has not been carried out.
Fresh(k) == k \notin minted \/ \E r \in Requests : phase[r] = "sent" /\ made[r] = k

AccessOf(k) == IF live[k] # Absent THEN "given" ELSE IF Fresh(k) THEN "fresh" ELSE "lost"

RowState(p) ==
    IF peers[p] = NoRow THEN "none"
    ELSE IF peers[p].revoked = Never THEN "active" ELSE "revoked"

Answered(r, kind, code) == job[r] # NoJob /\ job[r].kind = kind /\ answer[r] = code

access == [k \in Keys |-> AccessOf(k)]
row == [p \in Requests |-> RowState(p)]
name == [p \in Requests |-> IF RowOf(p) THEN peers[p].key ELSE NoKey]
closed == nodeRow = "deleted"
handed == {p \in Requests : Answered(p, "create", 201)}
taken == {job[r].peer : r \in {r \in Requests : Answered(r, "revoke", 204)}}
kept == cache

Promised == INSTANCE PeerLife WITH Peers <- Requests

\* Whatever is lost, delayed, repeated or interleaved, a peer lives as PeerLife says: in
\* particular a revocation is never taken back, although two revokes may overwrite its
\* time (peer_service.py:104), and no two rows name one key.
KeepsPeerLife == Promised!Life
============================================================================
