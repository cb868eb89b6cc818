----------------------------- MODULE MCAwgNode -----------------------------
(* Small instances of AwgNode for TLC. *)
EXTENDS AwgNodeRefinement, TLC

CONSTANTS k1, k2, k3, i1

\* One key of the three does not fit in a URL path.
MCSlashed == {k3}

Call(op) == [op |-> op, token |-> TRUE]

\* Every kind of call, a malformed address, a missing one and a wrong token included.
MCCalls ==
    {Call("init"), Call("status"), [op |-> "init", token |-> FALSE],
     [op |-> "create", token |-> TRUE, ips |-> i1],
     [op |-> "create", token |-> TRUE, ips |-> BadIps],
     [op |-> "patch", token |-> TRUE, key |-> k1, ips |-> NoIps]}
    \cup [op : {"delete"}, token : {TRUE}, key : Keys]
    \cup [op : {"patch"}, token : {TRUE}, key : {k1,k2}, ips : {i1}]

\* The calls that change the node; a created key and the patched one collide over the address.
MCChanges ==
    {Call("init"),
     [op |-> "create", token |-> TRUE, ips |-> i1],
     [op |-> "create", token |-> TRUE, ips |-> BadIps],
     [op |-> "delete", token |-> TRUE, key |-> k1],
     [op |-> "patch", token |-> TRUE, key |-> k1, ips |-> i1]}

\* Requests are interchangeable; used by the runs that check no liveness.
RequestSymmetry == Permutations(Requests)
============================================================================
