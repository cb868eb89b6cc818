--------------------------- MODULE AgentContract ---------------------------
(***************************************************************************)
(* What the panel may rely on when it calls a node-agent: the promise      *)
(* behind docs/api-contract.md, with none of the exec calls, files or      *)
(* dumps that keep it.                                                     *)
(*                                                                         *)
(* A request takes effect at one instant between being sent and being      *)
(* answered, and at most once.  Success is answered only after that        *)
(* instant, a refusal (4xx) only if it never comes, and a failure (5xx) or *)
(* a lost answer says nothing.  Effects that have not been answered yet do *)
(* not pile up: there is at most one.                                      *)
(***************************************************************************)
EXTENDS Naturals

CONSTANTS Keys, Ips, Requests, Calls, NoKey, Absent, NoIps, NoCall

VARIABLES
    live,     \* peers the node accepts, and the address of each
    server,   \* the node's public key, NoKey while no interface is up
    minted,   \* keys generated so far
    phase,    \* how far each request is
    call,     \* what it asks for
    made      \* the key generated on its behalf

contractVars == <<live, server, minted, phase, call, made>>

NoPeers == [k \in Keys |-> Absent]

PeerTable == [Keys -> Ips \cup {NoIps, Absent}]

Pending == {"sent", "applied"}

ContractTypeOK ==
    /\ live \in PeerTable
    /\ server \in Keys \cup {NoKey}
    /\ minted \subseteq Keys
    /\ phase \in [Requests -> Pending \cup {"unsent", "ok", "refused", "failed", "lost"}]
    /\ call \in [Requests -> Calls \cup {NoCall}]
    /\ made \in [Requests -> Keys \cup {NoKey}]

ContractInit ==
    /\ live = NoPeers /\ server = NoKey /\ minted = {}
    /\ phase = [r \in Requests |-> "unsent"]
    /\ call = [r \in Requests |-> NoCall]
    /\ made = [r \in Requests |-> NoKey]
----------------------------------------------------------------------------
\* Key k gets the address, whoever had it loses it; the node is not its own peer.
Assigned(k, ips) ==
    IF k = server THEN live
    ELSE [j \in Keys |-> IF j = k THEN ips
                         ELSE IF live[j] = ips THEN NoIps ELSE live[j]]

Effect(r) ==
    CASE call[r].op = "create" -> Assigned(made[r], call[r].ips)
      [] call[r].op = "patch"  -> Assigned(call[r].key, call[r].ips)
      [] call[r].op = "delete" -> [live EXCEPT ![call[r].key] = Absent]

Enter(r, p) == phase' = [phase EXCEPT ![r] = p]

Forget(r) == made' = [made EXCEPT ![r] = NoKey]

Accept(r) ==
    /\ phase[r] = "unsent"
    /\ \E c \in Calls : call' = [call EXCEPT ![r] = c]
    /\ Enter(r, "sent")
    /\ UNCHANGED <<live, server, minted, made>>

Mint(r) ==
    /\ phase[r] = "sent" /\ call[r].op \in {"create", "init"}
    /\ \E k \in Keys \ minted :
          /\ minted' = minted \cup {k}
          /\ made' = [made EXCEPT ![r] = k]
    /\ UNCHANGED <<live, server, phase, call>>

Apply(r) ==
    /\ phase[r] = "sent" /\ server # NoKey
    /\ call[r].op \in {"create", "patch", "delete"}
    /\ call[r].op = "create" => made[r] # NoKey
    /\ \A q \in Requests : phase[q] # "applied"
    /\ live' = Effect(r)
    /\ Enter(r, "applied")
    /\ UNCHANGED <<server, minted, call, made>>

\* Only calls that ask for no change succeed without an effect.
Succeed(r) ==
    /\ \/ phase[r] = "applied"
       \/ phase[r] = "sent" /\ call[r].op = "status"
       \/ phase[r] = "sent" /\ call[r].op = "init" /\ server # NoKey
    /\ Enter(r, "ok") /\ Forget(r)
    /\ UNCHANGED <<live, server, minted, call>>

\* server/init brings an interface up, and drops no peer.  No file that can be brought up
\* has a peer in it: the agent never writes one, and an operator provisions a node without.
\* The key is that of the file, which need not be the one generated for the request.
BringUp(r) ==
    /\ phase[r] = "sent" /\ call[r].op = "init" /\ made[r] # NoKey
    /\ live = NoPeers /\ server' \in minted
    /\ Enter(r, "ok") /\ Forget(r)
    /\ UNCHANGED <<live, minted, call>>

Refuse(r) ==
    /\ phase[r] = "sent"
    /\ Enter(r, "refused") /\ Forget(r)
    /\ UNCHANGED <<live, server, minted, call>>

Fail(r) ==
    /\ phase[r] \in Pending
    /\ Enter(r, "failed") /\ Forget(r)
    /\ UNCHANGED <<live, server, minted, call>>

Crash ==
    /\ phase' = [r \in Requests |-> IF phase[r] \in Pending THEN "lost" ELSE phase[r]]
    /\ made' = [r \in Requests |-> IF phase[r] \in Pending THEN NoKey ELSE made[r]]
    /\ UNCHANGED <<live, server, minted, call>>

\* The node forgets every peer with its interface.
Restart ==
    /\ live' = NoPeers /\ server' = NoKey
    /\ UNCHANGED <<minted, phase, call, made>>

\* An operator brings the interface up, with a key of before or a new one.
Operate ==
    /\ server = NoKey
    /\ live' = NoPeers
    /\ \/ server' \in minted /\ UNCHANGED minted
       \/ \E k \in Keys \ minted : server' = k /\ minted' = minted \cup {k}
    /\ UNCHANGED <<phase, call, made>>

ContractNext ==
    \/ \E r \in Requests :
          \/ Accept(r) \/ Mint(r) \/ Apply(r) \/ Succeed(r) \/ BringUp(r)
          \/ Refuse(r) \/ Fail(r)
    \/ Crash \/ Restart \/ Operate

Contract == ContractInit /\ [][ContractNext]_contractVars
============================================================================
