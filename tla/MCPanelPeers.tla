---------------------------- MODULE MCPanelPeers ----------------------------
(* Small instances of PanelPeers for TLC. *)
EXTENDS PanelLife, TLC

\* Creates and revokes interfere with each other, and with one request of another kind.
OneOther ==
    \A q, r \in Requests :
        q # r /\ {job[q], job[r]} \subseteq Jobs =>
            {job[q].kind, job[r].kind} \cap {"create", "revoke"} # {}

\* Keys are interchangeable, and so are requests; used by the runs that check no
\* liveness.
Symmetry == Permutations(Keys) \cup Permutations(Requests)
============================================================================
