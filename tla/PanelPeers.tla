----------------------------- MODULE PanelPeers -----------------------------
(***************************************************************************)
(* The panel (panel/src) and one node of its fleet: the handlers that      *)
(* create, revoke and download peers and add, initialise and delete the    *)
(* node, over three stores that share no transaction - the agent's node    *)
(* (AgentContract), Postgres and Redis.                                    *)
(*                                                                         *)
(* Handlers are coroutines: each action below runs from one await to the   *)
(* next, and the handlers of other requests run in between.  A request r   *)
(* makes at most one call to the agent and one row of `peers', so r names  *)
(* all three.  A call that the panel has given up on may still reach the   *)
(* agent, and be executed there.                                           *)
(***************************************************************************)
EXTENDS Naturals, FiniteSets

CONSTANTS
    Keys, Ips, Requests,             \* as in AgentContract
    NoKey, Absent, NoIps, NoCall,
    Jobs,                            \* what the administrators may ask for
    NoJob,
    NoRow,                           \* no such row in `peers'
    Never                            \* revoked_at is null

VARIABLES
    live, server, minted, phase, call, made,   \* the node and its agent
    given,    \* history: the keys with access that were generated for each request
    nodeRow,  \* the row of `nodes': "absent", "present" or "deleted"
    nodeKey,  \* its public_key
    peers,    \* the rows of `peers', each with the request that revoked it
    cache,    \* the peers whose configuration is in Redis
    pc,       \* the await each handler is at
    job,      \* what each request asks for
    snap,     \* the row a handler has loaded: the key and when it was revoked
    wire,     \* the HTTP call each handler has made to the agent
    body,     \* the public key in the agent's answer to it
    answer    \* the status code each request was answered

agentVars == <<live, server, minted, phase, call, made, given>>
stores == <<nodeRow, nodeKey, peers, cache>>
handlers == <<pc, job, snap, wire, answer>>
vars == <<agentVars, stores, handlers, body>>

PanelCalls ==
         [op : {"init"}]
    \cup [op : {"create"}, ips : Ips]
    \cup [op : {"delete"}, key : Keys]

Agent == INSTANCE AgentContract WITH Calls <- PanelCalls

ASSUME PanelAssumption ==
    /\ NoKey \notin Keys
    /\ Never \notin Requests
    /\ Absent \notin Ips /\ Absent # NoIps
    /\ NoCall \notin PanelCalls
    /\ NoRow \notin [key : Keys, revoked : Requests \cup {Never}]

JobType ==
         [kind : {"create"}, ips : Ips]
    \cup [kind : {"revoke", "config"}, peer : Requests]
    \cup [kind : {"add_node", "retry_init", "delete_node"}]

ASSUME JobAssumption == Jobs \subseteq JobType /\ NoJob \notin JobType

Rows == [key : Keys, revoked : Requests \cup {Never}]

NoSnap == [key |-> NoKey, revoked |-> Never]

\* Awaits on Postgres or Redis.
StoreSteps ==
    {"node", "peer", "insert", "refresh", "cache", "stamp", "uncache", "lookup",
     "insert_node", "refresh_node", "save_key", "refresh_key", "delete_node"}

Ended == {"done", "lost"}

TypeOK ==
    /\ Agent!ContractTypeOK
    /\ given \in [Requests -> SUBSET Keys]
    /\ nodeRow \in {"absent", "present", "deleted"}
    /\ nodeKey \in Keys \cup {NoKey}
    /\ peers \in [Requests -> Rows \cup {NoRow}]
    /\ cache \subseteq Requests
    /\ pc \in [Requests -> StoreSteps \cup {"waiting", "agent"} \cup Ended]
    /\ job \in [Requests -> Jobs \cup {NoJob}]
    /\ snap \in [Requests -> [key : Keys \cup {NoKey}, revoked : Requests \cup {Never}]]
    /\ wire \in [Requests -> PanelCalls \cup {NoCall}]
    /\ body \in [Requests -> Keys \cup {NoKey}]
    /\ answer \in [Requests -> {0, 200, 201, 204, 404, 409, 410, 500, 502}]

\* The node is not registered, or is and its agent was never initialised or is up.
Init ==
    /\ \/ Agent!ContractInit /\ nodeRow \in {"absent", "present"} /\ nodeKey = NoKey
       \/ /\ live = Agent!NoPeers /\ nodeRow = "present"
          /\ \E k \in Keys : server = k /\ minted = {k} /\ nodeKey = k
          /\ phase = [r \in Requests |-> "unsent"]
          /\ call = [r \in Requests |-> NoCall]
          /\ made = [r \in Requests |-> NoKey]
    /\ given = [r \in Requests |-> {}]
    /\ peers = [r \in Requests |-> NoRow]
    /\ cache = {}
    /\ pc = [r \in Requests |-> "waiting"]
    /\ job = [r \in Requests |-> NoJob]
    /\ snap = [r \in Requests |-> NoSnap]
    /\ wire = [r \in Requests |-> NoCall]
    /\ body = [r \in Requests |-> NoKey]
    /\ answer = [r \in Requests |-> 0]
----------------------------------------------------------------------------
(* The agent, and the network between.                                     *)

\* A call that was sent arrives, however late: the agent's event loop may have been
\* busy with another handler while the panel's timeout ran out.
Deliver(r) ==
    /\ wire[r] # NoCall
    /\ Agent!Accept(r)
    /\ call'[r] = wire[r]
    /\ UNCHANGED body

\* The answer has the key that was generated for the call; server/init on a node that is
\* up generates none and answers with the node's.
AgentSucceeds(r) ==
    /\ Agent!Succeed(r) \/ Agent!BringUp(r)
    /\ body' = [body EXCEPT ![r] = IF made[r] # NoKey THEN made[r]
                                   ELSE IF call[r].op = "init" THEN server
                                   ELSE NoKey]

\* The contract forgets whose key was whose with the answer; the history does not.
Remember ==
    given' = [r \in Requests |->
                 {k \in Keys : live'[k] # Absent /\ (k \in given[r] \/ k = made'[r])}]

AgentStep ==
    /\ \/ \E r \in Requests : Deliver(r) \/ AgentSucceeds(r)
       \/ /\ \/ \E r \in Requests :
                   Agent!Mint(r) \/ Agent!Apply(r) \/ Agent!Refuse(r) \/ Agent!Fail(r)
             \/ Agent!Crash \/ Agent!Restart \/ Agent!Operate
          /\ UNCHANGED body
    /\ Remember
    /\ UNCHANGED <<stores, handlers>>
----------------------------------------------------------------------------
(* Requests and their handlers.                                            *)

Goto(r, step) == pc' = [pc EXCEPT ![r] = step]

Reply(r, code) ==
    /\ Goto(r, "done")
    /\ answer' = [answer EXCEPT ![r] = code]
    /\ snap' = [snap EXCEPT ![r] = NoSnap]

Continue(r, step) == Goto(r, step) /\ UNCHANGED <<answer, snap>>

CallAgent(r, c) ==
    /\ Goto(r, "agent")
    /\ wire' = [wire EXCEPT ![r] = c]
    /\ UNCHANGED answer

FirstStep(kind) ==
    CASE kind \in {"revoke", "config"} -> "peer"
      [] kind = "add_node" -> "insert_node"
      [] OTHER -> "node"

\* An administrator names peers the panel shows, and registers the node once.
Arrive(r) ==
    /\ pc[r] = "waiting"
    /\ \E j \in Jobs :
          /\ j.kind \in {"revoke", "config"} => peers[j.peer] # NoRow
          /\ j.kind = "add_node" => nodeRow = "absent" /\ \A q \in Requests : job[q] # j
          /\ job' = [job EXCEPT ![r] = j]
          /\ Goto(r, FirstStep(j.kind))
    /\ UNCHANGED <<agentVars, stores, snap, wire, body, answer>>

GetPeer(r) ==
    /\ pc[r] = "peer"
    /\ \/ /\ peers[job[r].peer] = NoRow
          /\ Reply(r, 404)
       \/ /\ peers[job[r].peer] # NoRow
          /\ snap' = [snap EXCEPT ![r] = peers[job[r].peer]]
          /\ Goto(r, IF job[r].kind = "revoke" THEN "node" ELSE "lookup")
          /\ UNCHANGED answer
    /\ UNCHANGED <<agentVars, stores, job, wire, body>>

\* get_node, and the handler's first lines after it, up to its next await.
GetNode(r) ==
    /\ pc[r] = "node"
    /\ \/ /\ nodeRow # "present"
          /\ Reply(r, 404)
          /\ UNCHANGED wire
       \/ /\ nodeRow = "present" /\ job[r].kind = "create" /\ nodeKey = NoKey
          /\ Reply(r, 409)
          /\ UNCHANGED wire
       \/ /\ nodeRow = "present" /\ job[r].kind = "create" /\ nodeKey # NoKey
          /\ CallAgent(r, [op |-> "create", ips |-> job[r].ips])
          /\ UNCHANGED snap
       \/ /\ nodeRow = "present" /\ job[r].kind = "revoke"
          /\ CallAgent(r, [op |-> "delete", key |-> snap[r].key])
          /\ UNCHANGED snap
       \/ /\ nodeRow = "present" /\ job[r].kind = "retry_init"
          /\ CallAgent(r, [op |-> "init"])
          /\ snap' = [snap EXCEPT ![r].key = nodeKey]
       \/ /\ nodeRow = "present" /\ job[r].kind = "delete_node"
          /\ Continue(r, "delete_node")
          /\ UNCHANGED wire
    /\ UNCHANGED <<agentVars, stores, job, body>>

AfterCall(kind) ==
    CASE kind = "create" -> "insert"
      [] kind = "revoke" -> "stamp"
      [] OTHER -> "save_key"

\* Mutant: no raise_for_status.
HearSuccessUnchecked(r) ==
    /\ pc[r] = "agent" /\ phase[r] \in {"ok", "refused", "failed"}
    /\ Continue(r, AfterCall(job[r].kind))
    /\ UNCHANGED <<agentVars, stores, job, wire, body>>

HearSuccess(r) ==
    /\ pc[r] = "agent" /\ phase[r] = "ok"
    /\ Continue(r, AfterCall(job[r].kind))
    /\ UNCHANGED <<agentVars, stores, job, wire, body>>

\* Mutant: a 404 to a delete means that the peer is gone.
HearFailureTolerant(r) ==
    /\ pc[r] = "agent"
    /\ IF job[r].kind = "revoke" /\ phase[r] = "refused"
         THEN Continue(r, "stamp")
         ELSE Reply(r, IF job[r].kind = "add_node" THEN 201 ELSE 502)
    /\ UNCHANGED <<agentVars, stores, job, wire, body>>

\* Mutant: the client has no timeout.
HearFailureWaiting(r) ==
    /\ pc[r] = "agent" /\ phase[r] \in {"refused", "failed", "lost"}
    /\ Reply(r, IF job[r].kind = "add_node" THEN 201 ELSE 502)
    /\ UNCHANGED <<agentVars, stores, job, wire, body>>

\* A status of 4xx or 5xx, a refused or broken connection, or the client's timeout,
\* which can fire at any time: nothing is known of what the agent did or will do.
HearFailure(r) ==
    /\ pc[r] = "agent"
    /\ Reply(r, IF job[r].kind = "add_node" THEN 201 ELSE 502)
    /\ UNCHANGED <<agentVars, stores, job, wire, body>>

\* An exception of Postgres or Redis: no handler catches one.
StoreFails(r) ==
    /\ pc[r] \in StoreSteps
    /\ Reply(r, 500)
    /\ UNCHANGED <<agentVars, stores, job, wire, body>>
----------------------------------------------------------------------------
(* create_peer                                                             *)

\* Mutant: a commit that fails is logged, the configuration handed out.
InsertPeerLogged(r) ==
    /\ pc[r] = "insert"
    /\ \/ /\ nodeRow = "present"
          /\ peers' = [peers EXCEPT ![r] = [key |-> body[r], revoked |-> Never]]
          /\ Continue(r, "refresh")
       \/ Continue(r, "cache") /\ UNCHANGED peers
    /\ UNCHANGED <<agentVars, nodeRow, nodeKey, cache, job, wire, body>>

\* Mutant: an IntegrityError is answered 409.
InsertPeerConflict(r) ==
    /\ pc[r] = "insert"
    /\ \/ /\ nodeRow = "present"
          /\ peers' = [peers EXCEPT ![r] = [key |-> body[r], revoked |-> Never]]
          /\ Continue(r, "refresh")
       \/ Reply(r, 409) /\ UNCHANGED peers
    /\ UNCHANGED <<agentVars, nodeRow, nodeKey, cache, job, wire, body>>

\* The row refers to its node: once the node is deleted the insert fails.
InsertPeer(r) ==
    /\ pc[r] = "insert"
    /\ \/ /\ nodeRow = "present"
          /\ peers' = [peers EXCEPT ![r] = [key |-> body[r], revoked |-> Never]]
          /\ Continue(r, "refresh")
       \/ /\ nodeRow # "present"
          /\ Reply(r, 500)
          /\ UNCHANGED peers
    /\ UNCHANGED <<agentVars, nodeRow, nodeKey, cache, job, wire, body>>

RefreshPeer(r) ==
    /\ pc[r] = "refresh"
    /\ IF peers[r] # NoRow THEN Continue(r, "cache") ELSE Reply(r, 500)
    /\ UNCHANGED <<agentVars, stores, job, wire, body>>

CacheConfig(r) ==
    /\ pc[r] = "cache"
    /\ cache' = cache \cup {r}
    /\ Reply(r, 201)
    /\ UNCHANGED <<agentVars, nodeRow, nodeKey, peers, job, wire, body>>

(* revoke_peer                                                             *)

\* `peer.revoked_at or now', of the row as it was loaded: what is not changed is not
\* written, and an UPDATE that meets no row raises.
StampPeer(r) ==
    LET p == job[r].peer
    IN  /\ pc[r] = "stamp"
        /\ \/ /\ snap[r].revoked # Never
              /\ Continue(r, "uncache")
              /\ UNCHANGED peers
           \/ /\ snap[r].revoked = Never /\ peers[p] # NoRow
              /\ peers' = [peers EXCEPT ![p].revoked = r]
              /\ Continue(r, "uncache")
           \/ /\ snap[r].revoked = Never /\ peers[p] = NoRow
              /\ Reply(r, 500)
              /\ UNCHANGED peers
        /\ UNCHANGED <<agentVars, nodeRow, nodeKey, cache, job, wire, body>>

\* Mutant: the cached configuration is left to its TTL.
UncacheConfigLater(r) ==
    /\ pc[r] = "uncache"
    /\ Reply(r, 204)
    /\ UNCHANGED <<agentVars, stores, job, wire, body>>

UncacheConfig(r) ==
    /\ pc[r] = "uncache"
    /\ cache' = cache \ {job[r].peer}
    /\ Reply(r, 204)
    /\ UNCHANGED <<agentVars, nodeRow, nodeKey, peers, job, wire, body>>

(* redownload_config: whether the peer was revoked is not looked at.       *)

LookupConfig(r) ==
    /\ pc[r] = "lookup"
    /\ Reply(r, IF job[r].peer \in cache THEN 200 ELSE 410)
    /\ UNCHANGED <<agentVars, stores, job, wire, body>>
----------------------------------------------------------------------------
(* create_node and retry_init                                              *)

InsertNode(r) ==
    /\ pc[r] = "insert_node"
    /\ nodeRow' = "present"
    /\ Continue(r, "refresh_node")
    /\ UNCHANGED <<agentVars, nodeKey, peers, cache, job, wire, body>>

RefreshNode(r) ==
    /\ pc[r] = "refresh_node"
    /\ \/ /\ nodeRow = "present"
          /\ CallAgent(r, [op |-> "init"])
          /\ snap' = [snap EXCEPT ![r].key = nodeKey]
       \/ /\ nodeRow # "present"
          /\ Reply(r, 500)
          /\ UNCHANGED wire
    /\ UNCHANGED <<agentVars, stores, job, body>>

\* Again, only a key that differs from the one loaded is written.
SaveKey(r) ==
    /\ pc[r] = "save_key"
    /\ \/ /\ nodeRow = "present"
          /\ nodeKey' = IF body[r] = snap[r].key THEN nodeKey ELSE body[r]
          /\ Continue(r, "refresh_key")
       \/ /\ nodeRow # "present"
          /\ Reply(r, 500)
          /\ UNCHANGED nodeKey
    /\ UNCHANGED <<agentVars, nodeRow, peers, cache, job, wire, body>>

RefreshKey(r) ==
    /\ pc[r] = "refresh_key"
    /\ Reply(r, IF nodeRow # "present" THEN 500
                ELSE IF job[r].kind = "add_node" THEN 201 ELSE 200)
    /\ UNCHANGED <<agentVars, stores, job, wire, body>>

\* Mutant: the foreign key of the peers does not cascade.
DeleteNodeKeepsRows(r) ==
    /\ pc[r] = "delete_node"
    /\ nodeRow' = "deleted" /\ nodeKey' = NoKey
    /\ Reply(r, 204)
    /\ UNCHANGED <<agentVars, cache, peers, job, wire, body>>

(* delete_node: the rows of its peers go with it, and nothing else does.   *)

DeleteNode(r) ==
    /\ pc[r] = "delete_node"
    /\ nodeRow' = "deleted" /\ nodeKey' = NoKey
    /\ peers' = [p \in Requests |-> NoRow]
    /\ Reply(r, 204)
    /\ UNCHANGED <<agentVars, cache, job, wire, body>>
----------------------------------------------------------------------------
\* The panel process dies; what it wrote, and what it sent, stays.
PanelCrash ==
    LET pending == {r \in Requests : pc[r] \notin Ended \cup {"waiting"}}
    IN  /\ pending # {}
        /\ pc' = [r \in Requests |-> IF r \in pending THEN "lost" ELSE pc[r]]
        /\ snap' = [r \in Requests |-> IF r \in pending THEN NoSnap ELSE snap[r]]
        /\ UNCHANGED <<agentVars, stores, job, wire, body, answer>>

\* PEER_CONFIG_TTL_SECONDS have passed.
Expire ==
    /\ \E p \in cache : cache' = cache \ {p}
    /\ UNCHANGED <<agentVars, nodeRow, nodeKey, peers, handlers, body>>

PanelStep(r) ==
    \/ GetPeer(r) \/ GetNode(r) \/ HearSuccess(r) \/ HearFailure(r) \/ StoreFails(r)
    \/ InsertPeer(r) \/ RefreshPeer(r) \/ CacheConfig(r)
    \/ StampPeer(r) \/ UncacheConfig(r) \/ LookupConfig(r)
    \/ InsertNode(r) \/ RefreshNode(r) \/ SaveKey(r) \/ RefreshKey(r)
    \/ DeleteNode(r)

Next ==
    \/ \E r \in Requests : Arrive(r) \/ PanelStep(r)
    \/ AgentStep
    \/ PanelCrash \/ Expire

Spec == Init /\ [][Next]_vars

\* The panel's event loop runs on, and its HTTP client times out; the agent, the
\* network and the administrators owe nothing.
FairSpec == Spec /\ \A r \in Requests : WF_vars(PanelStep(r))
----------------------------------------------------------------------------
(* Properties.                                                             *)

RowOf(p) == peers[p] # NoRow

\* A peer the panel shows as revoked has no access: the row is stamped only after the
\* agent has removed the key (peer_service.py:103-105), and no call still on its way,
\* no retry and no restart of the node brings that key back.
RevokedIsGone ==
    \A p \in Requests :
        RowOf(p) /\ peers[p].revoked # Never => live[peers[p].key] = Absent

\* A configuration handed to an administrator is on record: while its key gives access
\* and the node is registered, the panel has the unrevoked row a revoke starts from, and
\* it names the key (create_peer commits before it answers).  Whether the agent then
\* carries the revoke out is another matter: see DeletesTakeBack of AwgNode, and the
\* keys with a "/", whose revoke it never sees.
HandedOutHasRow ==
    \A r \in Requests :
        /\ job[r] # NoJob /\ job[r].kind = "create" /\ answer[r] = 201
        /\ nodeRow = "present" /\ live[body[r]] # Absent
        => RowOf(r) /\ peers[r].key = body[r] /\ peers[r].revoked = Never

\* r is under way, was answered a 5xx, or was lost.
Unsettled(r) ==
    \/ pc[r] \notin {"waiting", "done"}
    \/ answer[r] \in {500, 502}

\* A key that has access and no unrevoked row was generated for one create, and that
\* very create is still under way, was lost with the panel, or was answered a 5xx: each
\* orphan has an administrator who saw no success for it.  No revoke, no initialisation,
\* no download, no 4xx and no failure of somebody else's create leaves one behind.
OrphansComeFromFailedCreates ==
    nodeRow = "present" =>
        \A k \in Keys :
            live[k] # Absent =>
                \/ \E p \in Requests :
                      RowOf(p) /\ peers[p].key = k /\ peers[p].revoked = Never
                \/ \E r \in Requests :
                      /\ k \in given[r]
                      /\ job[r] # NoJob /\ job[r].kind = "create" /\ Unsettled(r)

RevokeAnswered ==
    \A r \in Requests :
        pc[r] # "done" /\ pc'[r] = "done" /\ job[r].kind = "revoke" /\ answer'[r] = 204 =>
            LET p == job[r].peer
            IN  /\ live'[snap[r].key] = Absent
                /\ peers'[p] = NoRow \/ peers'[p].revoked # Never
                /\ pc[p] \in Ended => p \notin cache'

\* 204 to a revoke means all of it: the key has no access, the row is stamped or gone,
\* and the private key is out of Redis, unless the peer's own create_peer has not put
\* it there yet.
RevokeMeansGone == [][RevokeAnswered]_vars

\* Every request of an administrator is answered or lost with the panel, whatever the
\* agent does: the client's timeout is what guarantees it (agent_client.py).
EveryAdminRequestEnds ==
    \A r \in Requests : pc[r] \notin {"waiting"} \cup Ended ~> pc[r] \in Ended
----------------------------------------------------------------------------
(* What the documents say and the code does not do.                        *)

\* docs/db-schema.md:10, a node whose public_key is null "is created in the panel, but
\* the agent is not initialised yet".
NullMeansUninitialised ==
    nodeRow = "present" /\ nodeKey = NoKey /\ (\A r \in Requests : pc[r] \in Ended) =>
        ~\E r \in Requests : phase[r] = "ok" /\ call[r].op = "init"

\* docs/db-schema.md:28, revoked_at keeps "the history of who was connected and when":
\* the time of a revocation does not change.
FirstRevocationKept ==
    [][\A p \in Requests :
          RowOf(p) /\ peers[p].revoked # Never /\ peers'[p] # NoRow =>
              peers'[p].revoked = peers[p].revoked]_vars
============================================================================
