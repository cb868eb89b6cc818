------------------------------ MODULE PeerLife ------------------------------
(***************************************************************************)
(* What the panel promises of a peer, with no handler, call, timeout or    *)
(* crash: the life of its key, its row, its configuration and the answers  *)
(* that were given about it.  No step goes back: access that was lost is   *)
(* not given again, a revoked row is not made active again, and what was   *)
(* answered stays true.                                                    *)
(***************************************************************************)
CONSTANTS Keys, Peers, NoKey

VARIABLES
    access,   \* of each key: "fresh" (never given), "given" or "lost"
    row,      \* of each peer: "none", "active" or "revoked"
    name,     \* the key its row names
    closed,   \* the node was deleted
    handed,   \* the peers whose creation was answered 201
    taken,    \* the peers a revocation of which was answered 204
    kept      \* the peers whose configuration is stored

lifeVars == <<access, row, name, closed, handed, taken, kept>>

LifeInit ==
    /\ access \in [Keys -> {"fresh", "lost"}]
    /\ row = [p \in Peers |-> "none"] /\ name = [p \in Peers |-> NoKey]
    /\ closed = FALSE
    /\ handed = {} /\ taken = {} /\ kept = {}

Give(k) ==
    /\ access[k] = "fresh"
    /\ access' = [access EXCEPT ![k] = "given"]
    /\ UNCHANGED <<row, name, closed, handed, taken, kept>>

\* A peer is removed, the node restarts, or a key is dropped before it was used.
Lose ==
    /\ access' \in [Keys -> {"fresh", "given", "lost"}]
    /\ \A k \in Keys : access'[k] \in {access[k], "lost"}
    /\ UNCHANGED <<row, name, closed, handed, taken, kept>>

\* A row names a key that has been given, and that no other row names.
Record(p, k) ==
    /\ ~ closed /\ row[p] = "none"
    /\ access[k] # "fresh" /\ \A q \in Peers : name[q] # k
    /\ row' = [row EXCEPT ![p] = "active"] /\ name' = [name EXCEPT ![p] = k]
    /\ UNCHANGED <<access, closed, handed, taken, kept>>

Revoke(p) ==
    /\ row[p] = "active" /\ access[name[p]] = "lost"
    /\ row' = [row EXCEPT ![p] = "revoked"]
    /\ UNCHANGED <<access, name, closed, handed, taken, kept>>

\* The configuration is handed out once, with a row to revoke it by.
HandOut(p) ==
    /\ p \notin handed /\ (closed \/ row[p] # "none")
    /\ handed' = handed \cup {p} /\ kept' = kept \cup {p}
    /\ UNCHANGED <<access, row, name, closed, taken>>

TakeBack(p) ==
    /\ closed \/ row[p] = "revoked"
    /\ taken' = taken \cup {p} /\ kept' = kept \ {p}
    /\ UNCHANGED <<access, row, name, closed, handed>>

Drop(p) ==
    /\ kept' = kept \ {p}
    /\ UNCHANGED <<access, row, name, closed, handed, taken>>

\* The rows go with the node, the keys keep the access they had.
Close ==
    /\ closed' = TRUE
    /\ row' = [p \in Peers |-> "none"] /\ name' = [p \in Peers |-> NoKey]
    /\ UNCHANGED <<access, handed, taken, kept>>

LifeNext ==
    \/ Lose \/ Close
    \/ \E k \in Keys : Give(k)
    \/ \E p \in Peers :
          \/ \E k \in Keys : Record(p, k)
          \/ Revoke(p) \/ HandOut(p) \/ TakeBack(p) \/ Drop(p)

Life == LifeInit /\ [][LifeNext]_lifeVars
============================================================================
