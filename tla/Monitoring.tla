----------------------------- MODULE Monitoring -----------------------------
(***************************************************************************)
(* The panel's monitoring loop (services/monitoring.py) among the handlers *)
(* that write the rows it reads and writes.                                *)
(*                                                                         *)
(* The loop polls the nodes one after the other.  A poll is one database   *)
(* transaction spread over several awaits: it loads the node, waits for    *)
(* the agent, flushes the node, walks the node's peers and commits.  The   *)
(* ORM flushes pending changes before a query, and an UPDATE locks its row *)
(* until the transaction ends; an UPDATE that matches no row raises        *)
(* StaleDataError, and the transaction is rolled back.  A handler that     *)
(* deletes a node or a router locks peers first and then that row, the     *)
(* other way round from a poll; PostgreSQL's deadlock detector rolls one   *)
(* of the two back.                                                        *)
(***************************************************************************)
EXTENDS Integers

CONSTANTS
    Nodes, Peers, Routers,    \* the primary keys: uuid4, so never used again
    NodeOf,                   \* peers.node_id
    Requests, Kinds,          \* the handlers that may run, and of which kind
    ThePoll,                  \* as a transaction among theirs
    Conditions,               \* what the agent of a node may be like
    Shown,                    \* and say of a peer: the age of its last handshake, or
    StaleAfter, DownAfter,    \* HANDSHAKE_STALE_AFTER_SECONDS, HANDSHAKE_DOWN_...
    NoHandshake,              \* the agent lists the peer, last_handshake is null
    NotListed,                \* the agent does not list the peer
    NoRouter,
    MaxCrashes                \* bounds how often the panel is restarted

AllKinds == {"add_node", "retry_init", "delete_node", "delete_router"}

\* "up" and "down" are its interface's; "unreachable" is any agent without a 2xx answer;
\* "garbled" is one whose 2xx answer is not what it should be: some other service listens
\* there, or the JSON lacks a field or has a date that does not parse.
Answers == {"up", "down"}
AllConditions == Answers \cup {"unreachable", "garbled"}

Ages == Shown \ {NoHandshake, NotListed}

ASSUME MonitoringAssumption ==
    /\ NodeOf \in [Peers -> Nodes]
    /\ Kinds \subseteq AllKinds
    /\ "up" \in Conditions /\ Conditions \subseteq AllConditions
    /\ NotListed \in Shown /\ NoHandshake # NotListed
    /\ Ages \subseteq Int /\ StaleAfter \in Int /\ DownAfter \in Int
    /\ NoRouter \notin Routers /\ ThePoll \notin Requests
    /\ MaxCrashes \in Nat
    /\ Nodes \cap Peers = {} /\ Nodes \cap Routers = {} /\ Peers \cap Routers = {}

VARIABLES
    agent,    \* what the agent of each node would answer now
    shown,    \* what it would say of each peer
    nodes,    \* the status of each row of `nodes', or why there is none
    peers,    \* the rows of `peers'
    links,    \* awg_link_status of each row of `routers'
    pc,       \* the await the loop is at
    tick,     \* the nodes this tick has yet to poll
    polled,   \* the node of the poll, its status as loaded, and the answer to it
    todo,     \* the peers the poll has loaded and has yet to look at
    pending,  \* the link statuses it has assigned to routers
    dirty,    \* the rows it has changed and not flushed
    held,     \* the rows it has flushed, and locked
    req,      \* the handlers
    crashes

env == <<agent, shown>>
tables == <<nodes, peers, links>>
session == <<polled, todo, pending, dirty, held>>
loop == <<pc, tick, session>>
vars == <<env, tables, loop, req, crashes>>

Rows == Nodes \cup Peers \cup Routers

Status == {"unknown", "online", "offline"}
Link == {"unknown", "up", "stale", "down"}
Gone == {"none", "deleted"}

Idle == [kind |-> "none", at |-> "idle", row |-> NoRouter, loaded |-> "unknown",
         rows |-> {}, holds |-> {}]
NoPoll == [node |-> NoRouter, loaded |-> "unknown", status |-> "unknown",
           report |-> [p \in Peers |-> NotListed]]
Keep == [q \in Routers |-> "keep"]

TypeOK ==
    /\ agent \in [Nodes -> Conditions]
    /\ shown \in [Peers -> Shown]
    /\ nodes \in [Nodes -> Status \cup Gone]
    /\ peers \in [Peers -> [row : {"active", "revoked"} \cup Gone,
                            router : Routers \cup {NoRouter}]]
    /\ links \in [Routers -> Link \cup Gone]
    /\ pc \in {"asleep", "next", "ask", "silent", "answered", "peers", "commit"}
    /\ tick \subseteq Nodes
    /\ polled \in [node : Nodes \cup {NoRouter}, loaded : Status, status : Status,
                   report : [Peers -> Shown]]
    /\ todo \subseteq Peers
    /\ pending \in [Routers -> Link \cup {"keep"}]
    /\ dirty \subseteq Rows
    /\ held \subseteq Rows
    /\ req \in [Requests -> [kind : AllKinds \cup {"none"},
                             at : {"idle", "agent", "save", "peers", "row", "cascade"},
                             row : Nodes \cup Routers \cup {NoRouter},
                             loaded : Status, rows : SUBSET Peers,
                             holds : SUBSET Rows]]
    /\ crashes \in 0..MaxCrashes

NodeRow(n) == nodes[n] \notin Gone
PeerRow(p) == peers[p].row \notin Gone
RouterRow(q) == links[q] \notin Gone
Active(p) == peers[p].row = "active"

Exists(x) == \/ x \in Nodes /\ NodeRow(x)
             \/ x \in Peers /\ PeerRow(x)
             \/ x \in Routers /\ RouterRow(x)

LockedByRequest(x) == \E r \in Requests : x \in req[r].holds

\* No other transaction has a row of S locked.
FreeFor(r, S) ==
    S \cap held = {} /\ (\A o \in Requests \ {r} : S \cap req[o].holds = {})

\* The panel has just started; what it manages may be in any state.
Init ==
    /\ agent \in [Nodes -> Conditions]
    /\ shown = [p \in Peers |-> NotListed]
    /\ nodes \in [Nodes -> {"none"} \cup Status]
    /\ peers = [p \in Peers |-> [row |-> "none", router |-> NoRouter]]
    /\ links = [q \in Routers |-> "none"]
    /\ pc = "asleep" /\ tick = {} /\ polled = NoPoll /\ todo = {}
    /\ pending = Keep /\ dirty = {} /\ held = {}
    /\ req = [r \in Requests |-> Idle]
    /\ crashes = 0
----------------------------------------------------------------------------
(* The loop.                                                               *)

\* Mutant: the thresholds themselves count as fresh.
HandshakeStatusInclusive(age) ==
    IF age = NoHandshake THEN "down"
    ELSE IF age <= StaleAfter THEN "up"
    ELSE IF age <= DownAfter THEN "stale"
    ELSE "down"

\* The thresholds of the link status; a handshake in the future has a negative age.
HandshakeStatus(age) ==
    IF age = NoHandshake THEN "down"
    ELSE IF age < StaleAfter THEN "up"
    ELSE IF age < DownAfter THEN "stale"
    ELSE "down"

\* Mutant: the session is not closed: what the poll has locked stays locked.
EndPollLeaks ==
    /\ pc' = "next"
    /\ polled' = NoPoll /\ todo' = {} /\ pending' = Keep /\ dirty' = {}
    /\ UNCHANGED held

\* The transaction is over: committed, or rolled back with the session.
EndPoll ==
    /\ pc' = "next"
    /\ polled' = NoPoll /\ todo' = {} /\ pending' = Keep /\ dirty' = {} /\ held' = {}

\* The loop wakes and lists the nodes, in a session of its own.
Tick ==
    /\ pc = "asleep"
    /\ pc' = "next"
    /\ tick' = {n \in Nodes : NodeRow(n)}
    /\ UNCHANGED <<env, tables, session, req, crashes>>

Sleep ==
    /\ pc = "next" /\ tick = {}
    /\ pc' = "asleep"
    /\ UNCHANGED <<env, tables, tick, session, req, crashes>>

\* Mutant: the node is marked as being checked before the agent is called.
BeginPollMarks(n) ==
    /\ pc = "next" /\ n \in tick /\ NodeRow(n) /\ ~ LockedByRequest(n)
    /\ tick' = tick \ {n}
    /\ pc' = "ask"
    /\ polled' = [NoPoll EXCEPT !.node = n, !.loaded = nodes[n]]
    /\ held' = {n}
    /\ UNCHANGED <<env, tables, todo, pending, dirty, req, crashes>>

\* session.get, which finds nothing if the node was deleted since the tick.
BeginPoll(n) ==
    /\ pc = "next" /\ n \in tick
    /\ tick' = tick \ {n}
    /\ IF NodeRow(n)
       THEN /\ pc' = "ask"
            /\ polled' = [NoPoll EXCEPT !.node = n, !.loaded = nodes[n]]
       ELSE UNCHANGED <<pc, polled>>
    /\ UNCHANGED <<env, tables, todo, pending, dirty, held, req, crashes>>

\* Mutant: the words for a node's status and for a router's are mixed up.
AgentSilentDown ==
    /\ pc = "ask" /\ agent[polled.node] = "unreachable"
    /\ pc' = "silent"
    /\ polled' = [polled EXCEPT !.status = "down"]
    /\ dirty' = {polled.node}
    /\ UNCHANGED <<env, tables, tick, todo, pending, held, req, crashes>>

\* Line 76: /server/status.  The agent does not answer in time, or not with a 2xx.
AgentSilent ==
    /\ pc = "ask" /\ agent[polled.node] = "unreachable"
    /\ pc' = "silent"
    /\ polled' = [polled EXCEPT !.status = "offline"]
    /\ dirty' = IF polled.loaded = "offline" THEN {} ELSE {polled.node}
    /\ UNCHANGED <<env, tables, tick, todo, pending, held, req, crashes>>

\* Mutant: whoever answers is online, its interface up or not.
AgentAnswersOnline ==
    /\ pc = "ask" /\ agent[polled.node] \in Answers
    /\ pc' = "answered"
    /\ polled' = [polled EXCEPT !.status = "online",
                    !.report = [p \in Peers |-> IF NodeOf[p] = polled.node
                                                THEN shown[p] ELSE NotListed]]
    /\ dirty' = {polled.node}
    /\ UNCHANGED <<env, tables, tick, todo, pending, held, req, crashes>>

\* The answer is of the instant the agent took it.  last_seen_at always changes.
AgentAnswers ==
    /\ pc = "ask" /\ agent[polled.node] \in Answers
    /\ pc' = "answered"
    /\ polled' = [polled EXCEPT
                    !.status = IF agent[polled.node] = "up" THEN "online" ELSE "offline",
                    !.report = [p \in Peers |-> IF NodeOf[p] = polled.node
                                                THEN shown[p] ELSE NotListed]]
    /\ dirty' = {polled.node}
    /\ UNCHANGED <<env, tables, tick, todo, pending, held, req, crashes>>

\* UPDATEs of the rows S: all are there, and nobody else has changed one.
Flush(S) ==
    /\ \A x \in S : Exists(x) /\ ~ LockedByRequest(x)
    /\ held' = held \cup S

ActivePeers(n) == {p \in Peers : Active(p) /\ NodeOf[p] = n}

\* Line 85: the routers behind the peers of a node that does not answer.
MarkUnknown ==
    /\ pc = "silent" /\ Flush(dirty)
    /\ LET behind == {q \in Routers : RouterRow(q) /\
                         \E p \in ActivePeers(polled.node) : peers[p].router = q}
       IN  /\ pending' = [q \in Routers |-> IF q \in behind THEN "unknown" ELSE "keep"]
           /\ dirty' = behind
    /\ pc' = "commit"
    /\ UNCHANGED <<env, tables, tick, polled, todo, req, crashes>>

\* Line 102: the peers of a node that does.
LoadPeers ==
    /\ pc = "answered" /\ Flush(dirty)
    /\ todo' = ActivePeers(polled.node)
    /\ dirty' = {}
    /\ pc' = "peers"
    /\ UNCHANGED <<env, tables, tick, polled, pending, req, crashes>>

\* A peer that has shaken hands has moved bytes since the last poll: its counters change.
Touched(p) == IF polled.report[p] \in Ages THEN dirty \cup {p} ELSE dirty

\* The session has not loaded the router of p: session.get issues a query, which flushes.
LooksUp(p) == peers[p].router # NoRouter /\ pending[peers[p].router] = "keep"

FlushedFor(p) == IF LooksUp(p) THEN Touched(p) ELSE {}

\* The link status that the agent's answer calls for, of a router behind p.
PeerLink(p) ==
    IF polled.report[p] = NotListed THEN "down" ELSE HandshakeStatus(polled.report[p])

\* Mutant: a peer with no router gives its status to the router of the turn before.
LookAtPeerLeaks(p) ==
    /\ pc = "peers" /\ p \in todo
    /\ todo' = todo \ {p}
    /\ Flush(FlushedFor(p))
    /\ dirty' = (Touched(p) \ FlushedFor(p)) \cup ({peers[p].router} \ {NoRouter})
    /\ pending' = [q \in Routers |->
                     IF peers[p].router = q \/ (peers[p].router = NoRouter /\ pending[q] # "keep")
                     THEN PeerLink(p) ELSE pending[q]]
    /\ UNCHANGED <<env, tables, pc, tick, polled, req, crashes>>

\* One turn of the loop over the peers, which come in any order.
LookAtPeer(p) ==
    LET q == peers[p].router
    IN  /\ pc = "peers" /\ p \in todo
        /\ todo' = todo \ {p}
        /\ Flush(FlushedFor(p))
        /\ IF q = NoRouter
           THEN dirty' = Touched(p) /\ UNCHANGED pending
           ELSE /\ dirty' = (Touched(p) \ FlushedFor(p)) \cup {q}
                /\ pending' = [pending EXCEPT ![q] = PeerLink(p)]
        /\ UNCHANGED <<env, tables, pc, tick, polled, req, crashes>>

\* The router the peer had when it was loaded has been deleted since: session.get looks
\* for it, which flushes, and finds none.
LookForRouter(p) ==
    /\ pc = "peers" /\ p \in todo
    /\ peers[p].router = NoRouter /\ \E q \in Routers : links[q] = "deleted"
    /\ todo' = todo \ {p}
    /\ Flush(Touched(p)) /\ dirty' = {}
    /\ UNCHANGED <<env, tables, pc, tick, polled, pending, req, crashes>>

PeersDone ==
    /\ pc = "peers" /\ todo = {}
    /\ pc' = "commit"
    /\ UNCHANGED <<env, tables, tick, session, req, crashes>>

\* Mutant: the routers are merged into the session: those that are gone are inserted again.
CommitMerges ==
    /\ pc = "commit"
    /\ \A x \in dirty : ~ LockedByRequest(x)
    /\ nodes' = [n \in Nodes |-> IF n \in held THEN polled.status ELSE nodes[n]]
    /\ links' = [q \in Routers |-> IF pending[q] = "keep" THEN links[q] ELSE pending[q]]
    /\ EndPoll
    /\ UNCHANGED <<env, peers, tick, req, crashes>>

\* The rest is flushed and all of it shows.  A column is written if it differs from
\* the value that was loaded.
Commit ==
    /\ pc = "commit"
    /\ \A x \in dirty : Exists(x) /\ ~ LockedByRequest(x)
    /\ nodes' = [n \in Nodes |->
                   IF n \in held /\ polled.status # polled.loaded THEN polled.status
                   ELSE nodes[n]]
    /\ links' = [q \in Routers |-> IF pending[q] = "keep" THEN links[q] ELSE pending[q]]
    /\ EndPoll
    /\ UNCHANGED <<env, peers, tick, req, crashes>>

\* What the poll is about to flush: it runs into the rows that are gone or locked.
AboutToFlush ==
    CASE pc \in {"silent", "answered", "commit"} -> {dirty}
      [] pc = "peers" -> {FlushedFor(p) : p \in todo}
      [] OTHER -> {}

\* A poll raises what poll_node_once does not catch: the answer cannot be read (whatever
\* it has assigned by then is lost with the session), or StaleDataError.
PollRaises ==
    \/ pc = "ask" /\ agent[polled.node] = "garbled"
    \/ \E S \in AboutToFlush : \E x \in S : ~ Exists(x)

\* Mutant: no try around the poll of one node: the one around the tick (lines 165-168)
\* catches the exception, and the nodes that were to be polled next are not.
PollFailsTick ==
    /\ PollRaises
    /\ pc' = "asleep" /\ tick' = {}
    /\ polled' = NoPoll /\ todo' = {} /\ pending' = Keep /\ dirty' = {} /\ held' = {}
    /\ UNCHANGED <<env, tables, req, crashes>>

\* The exception is logged and the loop goes on to the next node.
PollFails ==
    /\ PollRaises
    /\ EndPoll
    /\ UNCHANGED <<env, tables, tick, req, crashes>>
----------------------------------------------------------------------------
(* The handlers.                                                           *)

Set(r, value) == req' = [req EXCEPT ![r] = value]
Finish(r) == Set(r, Idle)

\* POST /api/nodes commits its row, then calls the agent.
AddNode(r, n) ==
    /\ "add_node" \in Kinds /\ req[r] = Idle /\ nodes[n] = "none"
    /\ nodes' = [nodes EXCEPT ![n] = "unknown"]
    /\ Set(r, [Idle EXCEPT !.kind = "add_node", !.at = "agent", !.row = n])
    /\ UNCHANGED <<env, peers, links, loop, crashes>>

\* POST /api/nodes/{id}/retry-init.
RetryInit(r, n) ==
    /\ "retry_init" \in Kinds /\ req[r] = Idle /\ NodeRow(n)
    /\ Set(r, [Idle EXCEPT !.kind = "retry_init", !.at = "agent", !.row = n,
                           !.loaded = nodes[n]])
    /\ UNCHANGED <<env, tables, loop, crashes>>

\* Both: /server/init brings the interface up, or there is no answer that can be read.
InitAnswered(r) ==
    /\ req[r].at = "agent" /\ agent[req[r].row] \in Answers
    /\ agent' = [agent EXCEPT ![req[r].row] = "up"]
    /\ Set(r, [req[r] EXCEPT !.at = "save"])
    /\ UNCHANGED <<shown, tables, loop, crashes>>

InitFails(r) ==
    /\ req[r].at = "agent" /\ agent[req[r].row] \notin Answers
    /\ Finish(r)
    /\ UNCHANGED <<env, tables, loop, crashes>>

\* A status that was loaded "online" is not written again; a row that is gone makes
\* the UPDATE, and the request, fail.
SaveOnline(r) ==
    LET n == req[r].row
    IN  /\ req[r].at = "save"
        /\ \/ req[r].loaded = "online" /\ UNCHANGED nodes
           \/ req[r].loaded # "online" /\ ~ NodeRow(n) /\ UNCHANGED nodes
           \/ /\ req[r].loaded # "online" /\ NodeRow(n) /\ FreeFor(r, {n})
              /\ nodes' = [nodes EXCEPT ![n] = "online"]
        /\ Finish(r)
        /\ UNCHANGED <<env, peers, links, loop, crashes>>

\* DELETE /api/nodes/{id} and /api/routers/{id}: the ORM loads the peers of the row.
Delete(r, kind, x) ==
    LET mine == {p \in Peers : PeerRow(p) /\ (NodeOf[p] = x \/ peers[p].router = x)}
    IN  /\ kind \in Kinds /\ req[r] = Idle
        /\ x \in (IF kind = "delete_node" THEN Nodes ELSE Routers) /\ Exists(x)
        /\ Set(r, [Idle EXCEPT !.kind = kind, !.at = "peers", !.row = x, !.rows = mine])
        /\ UNCHANGED <<env, tables, loop, crashes>>

\* It deletes the peers of a node - a row that is gone only makes it warn - or takes
\* the router off them with an UPDATE, which fails on a row that is gone.
LockPeers(r) ==
    /\ req[r].at = "peers"
    /\ LET there == {p \in req[r].rows : PeerRow(p)}
       IN  \/ /\ req[r].kind = "delete_router" /\ there # req[r].rows
              /\ Finish(r)
           \/ /\ req[r].kind = "delete_node" \/ there = req[r].rows
              /\ FreeFor(r, there)
              /\ Set(r, [req[r] EXCEPT !.at = "row", !.holds = there])
    /\ UNCHANGED <<env, tables, loop, crashes>>

\* The row itself.  Those who add a peer lock the rows it refers to as well.
LockRow(r) ==
    /\ req[r].at = "row" /\ FreeFor(r, {req[r].row})
    /\ Set(r, [req[r] EXCEPT !.at = "cascade", !.holds = @ \cup {req[r].row}])
    /\ UNCHANGED <<env, tables, loop, crashes>>

Dependents(r) ==
    {p \in Peers : PeerRow(p) /\ (NodeOf[p] = req[r].row \/ peers[p].router = req[r].row)}

\* By its foreign keys the row takes along the peers added since; then the commit.
CommitDelete(r) ==
    /\ req[r].at = "cascade" /\ FreeFor(r, Dependents(r))
    /\ IF req[r].kind = "delete_node"
       THEN /\ nodes' = [nodes EXCEPT ![req[r].row] = "deleted"]
            /\ peers' = [p \in Peers |-> IF p \in Dependents(r)
                                         THEN [peers[p] EXCEPT !.row = "deleted"]
                                         ELSE peers[p]]
            /\ UNCHANGED links
       ELSE /\ links' = [links EXCEPT ![req[r].row] = "deleted"]
            /\ peers' = [p \in Peers |-> IF p \in Dependents(r)
                                         THEN [peers[p] EXCEPT !.router = NoRouter]
                                         ELSE peers[p]]
            /\ UNCHANGED nodes
    /\ Finish(r)
    /\ UNCHANGED <<env, loop, crashes>>

\* Handlers that commit once: a router, a peer's row, the stamp on a revoked one.
AddRouter(q) ==
    /\ links[q] = "none"
    /\ links' = [links EXCEPT ![q] = "unknown"]
    /\ UNCHANGED <<env, nodes, peers, loop, req, crashes>>

AddPeer(p, q) ==
    /\ peers[p].row = "none" /\ NodeRow(NodeOf[p]) /\ ~ LockedByRequest(NodeOf[p])
    /\ q \in {x \in Routers : RouterRow(x) /\ ~ LockedByRequest(x)} \cup {NoRouter}
    /\ peers' = [peers EXCEPT ![p] = [row |-> "active", router |-> q]]
    /\ UNCHANGED <<env, nodes, links, loop, req, crashes>>

\* The agent has forgotten the peer before the row is stamped; any 2xx is taken for that.
Revoke(p) ==
    /\ Active(p) /\ p \notin held /\ ~ LockedByRequest(p) /\ agent[NodeOf[p]] # "unreachable"
    /\ shown' = IF agent[NodeOf[p]] \in Answers THEN [shown EXCEPT ![p] = NotListed] ELSE shown
    /\ peers' = [peers EXCEPT ![p].row = "revoked"]
    /\ UNCHANGED <<agent, nodes, links, loop, req, crashes>>
----------------------------------------------------------------------------
(* The database, the nodes, and the panel's restarts.                      *)

\* The rows the transaction of r is about to lock.
Wanted(r) ==
    CASE req[r].at = "peers" -> req[r].rows
      [] req[r].at = "row" -> {req[r].row}
      [] req[r].at = "cascade" -> Dependents(r)
      [] OTHER -> {}

\* Transactions are those of the requests and that of the poll.
WaitsFor(t, u) ==
    LET locked == IF u = ThePoll THEN held ELSE req[u].holds
    IN  /\ t # u
        /\ IF t = ThePoll THEN \E S \in AboutToFlush : S \cap locked # {}
           ELSE Wanted(t) \cap locked # {}

Deadlocked(t) ==
    \E ring \in SUBSET (Requests \cup {ThePoll}) :
        /\ t \in ring
        /\ \A u \in ring : /\ \E v \in ring : WaitsFor(u, v)
                           /\ \E v \in ring : WaitsFor(v, u)

\* One of those in a ring is rolled back: a poll is logged, a request answered with 500.
BreakDeadlock ==
    /\ \/ Deadlocked(ThePoll) /\ EndPoll /\ UNCHANGED req
       \/ \E r \in Requests : Deadlocked(r) /\ Finish(r) /\ UNCHANGED <<pc, session>>
    /\ UNCHANGED <<env, tables, tick, crashes>>

Drift ==
    /\ \/ \E n \in Nodes, s \in Conditions :
            agent' = [agent EXCEPT ![n] = s] /\ UNCHANGED shown
       \/ \E p \in Peers, s \in Shown :
            shown' = [shown EXCEPT ![p] = s] /\ UNCHANGED agent
    /\ UNCHANGED <<tables, loop, req, crashes>>

\* What was not committed is lost; the lifespan starts the loop again.
Restart ==
    /\ crashes < MaxCrashes
    /\ crashes' = crashes + 1
    /\ pc' = "asleep" /\ tick' = {} /\ polled' = NoPoll /\ todo' = {}
    /\ pending' = Keep /\ dirty' = {} /\ held' = {}
    /\ req' = [r \in Requests |-> Idle]
    /\ UNCHANGED <<env, tables>>
----------------------------------------------------------------------------
PollStep ==
    \/ Tick \/ Sleep \/ AgentSilent \/ AgentAnswers \/ MarkUnknown \/ LoadPeers
    \/ PeersDone \/ Commit \/ PollFails
    \/ \E n \in Nodes : BeginPoll(n)
    \/ \E p \in Peers : LookAtPeer(p) \/ LookForRouter(p)

HandlerStep(r) ==
    \/ InitAnswered(r) \/ InitFails(r) \/ SaveOnline(r)
    \/ LockPeers(r) \/ LockRow(r) \/ CommitDelete(r)

Arrive ==
    \/ \E r \in Requests :
         \/ \E n \in Nodes : AddNode(r, n) \/ RetryInit(r, n)
         \/ \E kind \in {"delete_node", "delete_router"}, x \in Nodes \cup Routers :
              Delete(r, kind, x)
    \/ \E q \in Routers : AddRouter(q)
    \/ \E p \in Peers : Revoke(p) \/ (\E q \in Routers \cup {NoRouter} : AddPeer(p, q))

Next ==
    \/ PollStep
    \/ \E r \in Requests : HandlerStep(r)
    \/ BreakDeadlock \/ Arrive \/ Drift \/ Restart

Spec == Init /\ [][Next]_vars

\* The loop's sleeps and the agent client's calls end, and the detector looks again and
\* again; PostgreSQL queues those who wait for a row, so a statement that could have run
\* infinitely often does (SF).
FairSpec == /\ Spec /\ SF_vars(PollStep) /\ WF_vars(BreakDeadlock)
            /\ \A r \in Requests : SF_vars(HandlerStep(r))
----------------------------------------------------------------------------
(* Properties.                                                             *)

\* No row stays locked while the panel sleeps, goes from node to node or waits for an
\* agent: a node that hangs for its whole timeout keeps nobody from writing
\* (monitoring.py:76 comes before the first assignment, line 83 or 97).
NobodyWaitsLocked ==
    /\ pc \in {"asleep", "next", "ask"} => held = {} /\ dirty = {}
    /\ \A r \in Requests : req[r].at \in {"agent", "save"} => req[r].holds = {}

\* A poll or a handler that has loaded a node, a router or a peer never brings it back
\* once another request has deleted it (lines 69-74: loaded again, not merged).
GoneStaysGone ==
    [][/\ \A n \in Nodes : nodes[n] = "deleted" => nodes'[n] = "deleted"
       /\ \A p \in Peers : peers[p].row = "deleted" => peers'[p].row = "deleted"
       /\ \A q \in Routers : links[q] = "deleted" => links'[q] = "deleted"]_vars

\* What a poll writes into the link status of a router is what its node's answer says of
\* one of the peers behind that router, or "unknown" if there was no answer: however many
\* peers share the router, in whatever order they come (lines 102-133), and whatever
\* is added, revoked or deleted between the load and the commit.
LinksFollowAPeer ==
    [][\A q \in Routers :
          links'[q] # links[q] /\ {links[q], links'[q]} \subseteq Link =>
              \E p \in Peers :
                  /\ peers[p].router = q /\ NodeOf[p] = polled.node
                  /\ \/ links'[q] = PeerLink(p)
                     \/ links'[q] = "unknown" /\ polled.status = "offline"]_vars

\* Every registered node is polled again and again, in whatever order the query returns
\* them, although the polls of the others may fail every time (lines 144-156).
EveryNodePolled == \A n \in Nodes : []<>(polled.node = n \/ ~ NodeRow(n))

\* Deletes, retries and registrations end, however they are entangled with polls.
RequestsEnd == \A r \in Requests : []<>(req[r] = Idle)

\* Nobody is deleting anything: a delete that is asked for again and again may each time
\* have a poll rolled back.
NoDeletes == \A r \in Requests : req[r].kind \notin {"delete_node", "delete_router"}

\* The status of a node whose agent stays as it is becomes right and stays right: a poll
\* that commits an older answer over a newer status is made good by the next one.  (Of a
\* node whose answers cannot be read every poll fails: it keeps the status it had.)
StatusConverges ==
    \A n \in Nodes :
        /\ <>[](NoDeletes /\ NodeRow(n) /\ agent[n] = "up") => <>[](nodes[n] = "online")
        /\ <>[](NoDeletes /\ NodeRow(n) /\ agent[n] \in {"down", "unreachable"})
            => <>[](nodes[n] = "offline")

OnlyPeer(p, q) ==
    \A o \in Peers : Active(o) /\ peers[o].router = q <=> o = p

\* Lines 8-15 of monitoring.py, of a router with one active peer p.
Documented(p) ==
    IF agent[NodeOf[p]] = "unreachable" THEN "unknown"
    ELSE IF shown[p] \notin Ages THEN "down"
    ELSE CHOOSE s \in {"up", "stale", "down"} :
           /\ s = "up" <=> StaleAfter - shown[p] > 0
           /\ s = "stale" <=> StaleAfter - shown[p] <= 0 /\ DownAfter - shown[p] > 0

\* The link status of a router behind one active peer becomes what the handshake that
\* peer shows calls for, thresholds and clock skew included, and stays so.
LinkConverges ==
    \A p \in Peers, q \in Routers, s \in Link :
        <>[](/\ NoDeletes /\ NodeRow(NodeOf[p]) /\ RouterRow(q)
             /\ agent[NodeOf[p]] # "garbled"
             /\ OnlyPeer(p, q) /\ Documented(p) = s)
            => <>[](links[q] = s)

\* monitoring.py:10-15 promises that the router of any peer missing from the response
\* goes down.
MissingMeansDown ==
    \A p \in Peers, q \in Routers :
        <>[](/\ NoDeletes /\ NodeRow(NodeOf[p]) /\ RouterRow(q) /\ PeerRow(p)
             /\ peers[p].router = q /\ shown[p] = NotListed
             /\ agent[NodeOf[p]] \in Answers)
            => <>[](links[q] = "down")
============================================================================
