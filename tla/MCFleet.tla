------------------------------ MODULE MCFleet ------------------------------
(* A small instance of Fleet for TLC. *)
EXTENDS Fleet
MCSlashed == {CHOOSE k \in Keys : TRUE}
MCCalls == {c \in CallType : c.op \in {"init", "create", "delete"}}
\* All of Panel!JobType, which itself is instantiated with Jobs.
MCJobs ==
         [kind : {"create"}, ips : Ips]
    \cup [kind : {"revoke", "config"}, peer : Requests]
    \cup [kind : {"add_node", "retry_init", "delete_node"}]
============================================================================
