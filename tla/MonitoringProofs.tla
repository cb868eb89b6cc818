-------------------------- MODULE MonitoringProofs --------------------------
(***************************************************************************)
(* Theorems about Monitoring, for every set of nodes, peers, routers and   *)
(* requests: whatever polls and handlers do to each other's rows.          *)
(***************************************************************************)
EXTENDS Monitoring, TLAPS

\* A row the poll has written is there, and nobody else has written it.
HeldInv ==
    /\ \A x \in held : Exists(x)
    /\ \A r \in Requests : req[r].holds \cap held = {}

\* A status assigned to a router waits for the flush, or for the commit.
PendingInv == \A q \in Routers : pending[q] # "keep" => q \in dirty \cup held

Deletes(r) == \/ req[r].kind = "delete_node" /\ req[r].row \in Nodes
              \/ req[r].kind = "delete_router" /\ req[r].row \in Routers

\* What a handler knows of the row it is about.
Knows(r) ==
    /\ req[r].at = "idle" => req[r].holds = {}
    /\ req[r].at \in {"agent", "save"} => req[r].row \in Nodes
    /\ req[r].at \in {"peers", "row", "cascade"} => Deletes(r)
    /\ req[r].at = "cascade" => req[r].row \in req[r].holds

\* The node of a poll, and that a poll is going on.
PolledInv == pc \notin {"asleep", "next"} => polled.node \in Nodes

MInv ==
    /\ TypeOK /\ NobodyWaitsLocked /\ HeldInv /\ PendingInv /\ PolledInv
    /\ \A r \in Requests : Knows(r)
----------------------------------------------------------------------------
\* The values a poll and a request start from.
LEMMA Blanks ==
    /\ NoPoll \in [node : Nodes \cup {NoRouter}, loaded : Status, status : Status,
                   report : [Peers -> Shown]]
    /\ Keep \in [Routers -> Link \cup {"keep"}] /\ \A q \in Routers : Keep[q] = "keep"
    /\ Idle \in [kind : AllKinds \cup {"none"},
                 at : {"idle", "agent", "save", "peers", "row", "cascade"},
                 row : Nodes \cup Routers \cup {NoRouter},
                 loaded : Status, rows : SUBSET Peers, holds : SUBSET Rows]
    /\ Idle.at = "idle" /\ Idle.holds = {} /\ Idle.loaded \in Status
BY MonitoringAssumption DEF NoPoll, Keep, Idle, Status, Link

\* The invariant holds initially.
LEMMA MInvInit == Init => MInv
<1> SUFFICES ASSUME Init PROVE MInv
  OBVIOUS
<1>1. TypeOK
  BY Blanks, MonitoringAssumption DEF Init, TypeOK, Status, Gone, Link, AllConditions
<1>2. NobodyWaitsLocked /\ HeldInv /\ PendingInv /\ PolledInv
  BY Blanks DEF Init, NobodyWaitsLocked, HeldInv, PendingInv, PolledInv
<1>3. \A r \in Requests : Knows(r)
  BY Blanks DEF Init, Knows
<1> QED
  BY <1>1, <1>2, <1>3 DEF MInv
----------------------------------------------------------------------------
(* Steps of the loop.                                                      *)

\* A step of the loop that ends no poll keeps the tables and the handlers.
LEMMA LoopOnly ==
    ASSUME MInv, UNCHANGED <<env, tables, req, crashes>>,
           pc' \in {"asleep", "next", "ask", "silent", "answered", "peers", "commit"},
           tick' \subseteq Nodes,
           polled' \in [node : Nodes \cup {NoRouter}, loaded : Status, status : Status,
                       report : [Peers -> Shown]],
           todo' \subseteq Peers, pending' \in [Routers -> Link \cup {"keep"}],
           dirty' \subseteq Rows, held' \subseteq Rows,
           pc' \in {"asleep", "next", "ask"} => held' = {} /\ dirty' = {},
           pc' \notin {"asleep", "next"} => polled'.node \in Nodes,
           PendingInv', HeldInv'
    PROVE  MInv'
<1>1. TypeOK'
  BY DEF MInv, TypeOK, env, tables
<1>2. NobodyWaitsLocked' /\ PolledInv'
  BY DEF MInv, NobodyWaitsLocked, PolledInv
<1>3. \A r \in Requests : Knows(r)'
  BY DEF MInv, Knows, Deletes
<1> QED
  BY <1>1, <1>2, <1>3 DEF MInv

LEMMA TickStep == ASSUME MInv, Tick \/ Sleep PROVE MInv'
<1>1. /\ UNCHANGED <<env, tables, session, req, crashes>>
      /\ pc \in {"asleep", "next"} /\ pc' \in {"asleep", "next"} /\ tick' \subseteq Nodes
  BY DEF Tick, Sleep, MInv, TypeOK
<1>2. held = {} /\ dirty = {} /\ held' = {} /\ dirty' = {} /\ pending' = pending
  BY <1>1 DEF MInv, NobodyWaitsLocked, session
<1>3. PendingInv' /\ HeldInv'
  BY <1>1, <1>2 DEF MInv, PendingInv, HeldInv
<1> QED
  BY <1>1, <1>2, <1>3, LoopOnly DEF MInv, TypeOK, session

LEMMA BeginPollStep == ASSUME MInv, NEW n \in Nodes, BeginPoll(n) PROVE MInv'
<1>1. /\ UNCHANGED <<env, tables, req, crashes, todo, pending, dirty, held>>
      /\ pc = "next" /\ pc' \in {"next", "ask"} /\ tick' \subseteq Nodes
  BY DEF BeginPoll, MInv, TypeOK
<1>2. held = {} /\ dirty = {}
  BY <1>1 DEF MInv, NobodyWaitsLocked
<1>3. /\ polled' \in [node : Nodes \cup {NoRouter}, loaded : Status, status : Status,
                      report : [Peers -> Shown]]
      /\ pc' = "ask" => polled'.node \in Nodes
  <2>1. CASE NodeRow(n)
    <3>1. nodes[n] \in Status
      BY <2>1 DEF MInv, TypeOK, NodeRow
    <3>2. polled' = [NoPoll EXCEPT !.node = n, !.loaded = nodes[n]]
      BY <2>1 DEF BeginPoll
    <3> QED
      BY <3>1, <3>2, Blanks
  <2>2. CASE ~ NodeRow(n)
    BY <1>1, <2>2 DEF BeginPoll, MInv, TypeOK
  <2> QED
    BY <2>1, <2>2
<1>4. PendingInv' /\ HeldInv'
  BY <1>1, <1>2 DEF MInv, PendingInv, HeldInv
<1> QED
  BY <1>1, <1>2, <1>3, <1>4, LoopOnly DEF MInv, TypeOK

LEMMA AnswerStep == ASSUME MInv, AgentSilent \/ AgentAnswers PROVE MInv'
<1>1. /\ UNCHANGED <<env, tables, req, crashes, tick, todo, pending, held>>
      /\ pc = "ask" /\ pc' \in {"silent", "answered"}
      /\ dirty' \subseteq {polled.node} /\ polled.node \in Nodes
  BY DEF AgentSilent, AgentAnswers, MInv, PolledInv
<1>2. held = {} /\ dirty = {}
  BY <1>1 DEF MInv, NobodyWaitsLocked
<1>3. /\ polled' \in [node : Nodes \cup {NoRouter}, loaded : Status, status : Status,
                      report : [Peers -> Shown]]
      /\ polled'.node = polled.node
  <2>1. CASE AgentSilent
    BY <2>1 DEF AgentSilent, MInv, TypeOK, Status
  <2>2. CASE AgentAnswers
    <3>1. [p \in Peers |-> IF NodeOf[p] = polled.node THEN shown[p] ELSE NotListed]
              \in [Peers -> Shown]
      BY MonitoringAssumption DEF MInv, TypeOK
    <3>2. (IF agent[polled.node] = "up" THEN "online" ELSE "offline") \in Status
      BY DEF Status
    <3> QED
      BY <2>2, <3>1, <3>2 DEF AgentAnswers, MInv, TypeOK
  <2> QED
    BY <2>1, <2>2
<1>4. PendingInv' /\ HeldInv'
  BY <1>1, <1>2 DEF MInv, PendingInv, HeldInv
<1> QED
  BY <1>1, <1>2, <1>3, <1>4, LoopOnly DEF MInv, TypeOK, Rows

\* What a flush does to the rows that are held.
LEMMA FlushHolds ==
    ASSUME MInv, NEW S \in SUBSET Rows, Flush(S), UNCHANGED <<tables, req>>
    PROVE  HeldInv' /\ held' \subseteq Rows
BY DEF MInv, TypeOK, Flush, HeldInv, LockedByRequest, tables, Exists, NodeRow, PeerRow, RouterRow

LEMMA MarkUnknownStep == ASSUME MInv, MarkUnknown PROVE MInv'
<1> DEFINE behind == {q \in Routers : RouterRow(q) /\
                         \E p \in ActivePeers(polled.node) : peers[p].router = q}
<1>1. /\ UNCHANGED <<env, tables, req, crashes, tick, todo, polled>>
      /\ pc = "silent" /\ pc' = "commit" /\ Flush(dirty) /\ dirty' = behind
      /\ pending' = [q \in Routers |-> IF q \in behind THEN "unknown" ELSE "keep"]
  BY DEF MarkUnknown
<1>2. HeldInv' /\ held' \subseteq Rows
  BY <1>1, FlushHolds DEF MInv, TypeOK
<1>3. pending' \in [Routers -> Link \cup {"keep"}] /\ dirty' \subseteq Rows
  BY <1>1 DEF Link, Rows
<1>4. PendingInv'
  BY <1>1 DEF PendingInv
<1> HIDE DEF behind
<1> QED
  BY <1>1, <1>2, <1>3, <1>4, LoopOnly DEF MInv, TypeOK, PolledInv

LEMMA LoadPeersStep == ASSUME MInv, LoadPeers PROVE MInv'
<1>1. /\ UNCHANGED <<env, tables, req, crashes, tick, pending, polled>>
      /\ pc = "answered" /\ pc' = "peers" /\ Flush(dirty) /\ dirty' = {}
      /\ held' = held \cup dirty /\ todo' \subseteq Peers
  BY DEF LoadPeers, Flush, ActivePeers
<1>2. HeldInv' /\ held' \subseteq Rows
  BY <1>1, FlushHolds DEF MInv, TypeOK
<1>3. PendingInv'
  BY <1>1 DEF MInv, PendingInv
<1> QED
  BY <1>1, <1>2, <1>3, LoopOnly DEF MInv, TypeOK, PolledInv

LEMMA LookAtPeerStep == ASSUME MInv, NEW p \in Peers, LookAtPeer(p) PROVE MInv'
<1> DEFINE q == peers[p].router
<1> DEFINE status == PeerLink(p)
<1>1. /\ UNCHANGED <<env, tables, req, crashes, tick, polled, pc>>
      /\ pc = "peers" /\ Flush(FlushedFor(p)) /\ held' = held \cup FlushedFor(p)
      /\ todo' \subseteq todo
      /\ \/ dirty' = Touched(p) /\ pending' = pending /\ q = NoRouter
         \/ /\ dirty' = (Touched(p) \ FlushedFor(p)) \cup {q} /\ q # NoRouter
            /\ pending' = [pending EXCEPT ![q] = status]
  BY DEF LookAtPeer, Flush
<1>2. q \in Routers \cup {NoRouter}
  BY DEF MInv, TypeOK
<1>3. status \in Link
  BY DEF PeerLink, HandshakeStatus, Link
<1>4. FlushedFor(p) \subseteq Touched(p) /\ Touched(p) \subseteq Rows
      /\ dirty \subseteq Touched(p)
  BY DEF FlushedFor, Touched, MInv, TypeOK, Rows
<1>5. HeldInv' /\ held' \subseteq Rows
  BY <1>1, <1>4, FlushHolds
<1>6. /\ dirty' \subseteq Rows /\ pending' \in [Routers -> Link \cup {"keep"}]
  <2> HIDE DEF status
  <2> QED
    BY <1>1, <1>2, <1>3, <1>4 DEF MInv, TypeOK, Rows
<1>7. PendingInv'
  <2> HIDE DEF status
  <2> QED
    BY <1>1, <1>2, <1>4 DEF MInv, TypeOK, PendingInv
<1>8. todo' \subseteq Peers
  BY <1>1 DEF MInv, TypeOK
<1> HIDE DEF q, status
<1> QED
  BY <1>1, <1>5, <1>6, <1>7, <1>8, LoopOnly DEF MInv, TypeOK, PolledInv

LEMMA LookForRouterStep == ASSUME MInv, NEW p \in Peers, LookForRouter(p) PROVE MInv'
<1>1. /\ UNCHANGED <<env, tables, req, crashes, tick, polled, pc, pending>>
      /\ pc = "peers" /\ Flush(Touched(p)) /\ held' = held \cup Touched(p)
      /\ todo' \subseteq todo /\ dirty' = {}
  BY DEF LookForRouter, Flush
<1>2. Touched(p) \subseteq Rows /\ dirty \subseteq Touched(p)
  BY DEF Touched, MInv, TypeOK, Rows
<1>3. HeldInv' /\ held' \subseteq Rows
  BY <1>1, <1>2, FlushHolds
<1>4. PendingInv'
  BY <1>1, <1>2 DEF MInv, TypeOK, PendingInv
<1>5. todo' \subseteq Peers
  BY <1>1 DEF MInv, TypeOK
<1> QED
  BY <1>1, <1>3, <1>4, <1>5, LoopOnly DEF MInv, TypeOK, PolledInv

LEMMA PeersDoneStep == ASSUME MInv, PeersDone PROVE MInv'
<1>1. /\ UNCHANGED <<env, tables, req, crashes, tick, session>>
      /\ pc = "peers" /\ pc' = "commit"
  BY DEF PeersDone
<1>2. PendingInv' /\ HeldInv'
  BY <1>1 DEF MInv, PendingInv, HeldInv, session, tables, Exists, NodeRow, PeerRow, RouterRow
<1> QED
  BY <1>1, <1>2, LoopOnly DEF MInv, TypeOK, PolledInv, session
\* The end of a poll, whatever becomes of the tables.
LEMMA EndPollStep ==
    ASSUME MInv, EndPoll, UNCHANGED <<env, peers, tick, req, crashes>>,
           nodes' \in [Nodes -> Status \cup Gone], links' \in [Routers -> Link \cup Gone]
    PROVE  MInv'
<1>1. TypeOK'
  BY Blanks DEF MInv, TypeOK, EndPoll, env
<1>2. NobodyWaitsLocked' /\ HeldInv' /\ PendingInv' /\ PolledInv'
  BY Blanks DEF MInv, EndPoll, NobodyWaitsLocked, HeldInv, PendingInv, PolledInv
<1>3. \A r \in Requests : Knows(r)'
  BY DEF MInv, Knows, Deletes
<1> QED
  BY <1>1, <1>2, <1>3 DEF MInv

LEMMA CommitStep == ASSUME MInv, Commit PROVE MInv'
<1>1. nodes' \in [Nodes -> Status \cup Gone] /\ links' \in [Routers -> Link \cup Gone]
  BY DEF Commit, MInv, TypeOK
<1> QED
  BY <1>1, EndPollStep DEF Commit

LEMMA PollFailsStep == ASSUME MInv, PollFails PROVE MInv'
BY EndPollStep DEF PollFails, MInv, TypeOK, tables
----------------------------------------------------------------------------
(* Steps of the handlers.                                                  *)

RequestType ==
    [kind : AllKinds \cup {"none"},
     at : {"idle", "agent", "save", "peers", "row", "cascade"},
     row : Nodes \cup Routers \cup {NoRouter},
     loaded : Status, rows : SUBSET Peers, holds : SUBSET Rows]

\* What may be said of a handler in place of Knows.
Sound(v) ==
    /\ v.at \in {"idle", "agent", "save"} => v.holds = {}
    /\ v.at \in {"agent", "save"} => v.row \in Nodes
    /\ v.at \in {"peers", "row", "cascade"} =>
           \/ v.kind = "delete_node" /\ v.row \in Nodes
           \/ v.kind = "delete_router" /\ v.row \in Routers
    /\ v.at = "cascade" => v.row \in v.holds
    /\ v.holds \cap held = {}

TablesTyped ==
    /\ nodes' \in [Nodes -> Status \cup Gone]
    /\ peers' \in [Peers -> [row : {"active", "revoked"} \cup Gone,
                             router : Routers \cup {NoRouter}]]
    /\ links' \in [Routers -> Link \cup Gone]

\* A step of one handler that leaves the rows the poll holds where they are.
LEMMA RequestStep ==
    ASSUME MInv, NEW r \in Requests, NEW v \in RequestType, Set(r, v), Sound(v),
           UNCHANGED <<loop, crashes>>, TablesTyped,
           agent' \in [Nodes -> Conditions], shown' \in [Peers -> Shown],
           \A x \in held : Exists(x)'
    PROVE  MInv'
<1>1. /\ req' \in [Requests -> RequestType] /\ req'[r] = v
      /\ \A o \in Requests \ {r} : req'[o] = req[o]
  BY DEF MInv, TypeOK, Set, RequestType
<1>2. TypeOK'
  BY <1>1 DEF MInv, TypeOK, RequestType, TablesTyped, loop, session
<1>3. NobodyWaitsLocked'
  BY <1>1 DEF MInv, NobodyWaitsLocked, Sound, loop, session
<1>4. HeldInv'
  BY <1>1 DEF MInv, HeldInv, Sound, loop, session
<1>5. PendingInv' /\ PolledInv'
  BY DEF MInv, PendingInv, PolledInv, loop, session
<1>6. \A o \in Requests : Knows(o)'
  BY <1>1 DEF MInv, Knows, Deletes, Sound
<1> QED
  BY <1>2, <1>3, <1>4, <1>5, <1>6 DEF MInv

\* What a handler is at the start of a step.
LEMMA RequestNow ==
    ASSUME MInv, NEW r \in Requests
    PROVE  /\ req[r] \in RequestType /\ Sound(req[r])
           /\ \A x \in held : Exists(x)
           /\ nodes \in [Nodes -> Status \cup Gone] /\ links \in [Routers -> Link \cup Gone]
           /\ peers \in [Peers -> [row : {"active", "revoked"} \cup Gone,
                                   router : Routers \cup {NoRouter}]]
           /\ agent \in [Nodes -> Conditions] /\ shown \in [Peers -> Shown]
           /\ held \subseteq Rows
BY DEF MInv, TypeOK, NobodyWaitsLocked, HeldInv, Knows, Deletes, Sound, RequestType

\* A handler that is idle again.
LEMMA IdleSound == Idle \in RequestType /\ Sound(Idle)
BY Blanks DEF RequestType, Sound

\* A step of one handler that only it sees.
LEMMA PrivateStep ==
    ASSUME MInv, NEW r \in Requests, NEW v \in RequestType, Set(r, v), Sound(v),
           UNCHANGED <<shown, tables, loop, crashes>>, agent' \in [Nodes -> Conditions]
    PROVE  MInv'
BY RequestStep, RequestNow
DEF TablesTyped, tables, Exists, NodeRow, PeerRow, RouterRow

LEMMA AddNodeStep ==
    ASSUME MInv, NEW r \in Requests, NEW n \in Nodes, AddNode(r, n) PROVE MInv'
<1> DEFINE v == [Idle EXCEPT !.kind = "add_node", !.at = "agent", !.row = n]
<1>1. v \in RequestType /\ Sound(v)
  BY IdleSound DEF RequestType, Sound, Idle, AllKinds, Status
<1>2. /\ Set(r, v) /\ nodes' = [nodes EXCEPT ![n] = "unknown"]
      /\ UNCHANGED <<env, peers, links, loop, crashes>>
  BY DEF AddNode
<1>3. TablesTyped
  BY <1>2, RequestNow DEF TablesTyped, Status
<1>4. \A x \in held : Exists(x)'
  BY <1>2, RequestNow DEF Exists, NodeRow, PeerRow, RouterRow, Gone
<1> HIDE DEF v
<1> QED
  BY <1>1, <1>2, <1>3, <1>4, RequestStep, RequestNow DEF env

LEMMA RetryInitStep ==
    ASSUME MInv, NEW r \in Requests, NEW n \in Nodes, RetryInit(r, n) PROVE MInv'
<1> DEFINE v == [Idle EXCEPT !.kind = "retry_init", !.at = "agent", !.row = n,
                             !.loaded = nodes[n]]
<1>1. nodes[n] \in Status
  BY RequestNow DEF RetryInit, NodeRow
<1>2. v \in RequestType /\ Sound(v)
  BY <1>1, IdleSound DEF RequestType, Sound, Idle, AllKinds
<1>3. Set(r, v) /\ UNCHANGED <<env, tables, loop, crashes>>
  BY DEF RetryInit
<1> HIDE DEF v
<1> QED
  BY <1>2, <1>3, PrivateStep, RequestNow DEF env

LEMMA InitAnsweredStep ==
    ASSUME MInv, NEW r \in Requests, InitAnswered(r) PROVE MInv'
<1> DEFINE v == [req[r] EXCEPT !.at = "save"]
<1>1. v \in RequestType /\ Sound(v)
  BY RequestNow DEF InitAnswered, RequestType, Sound
<1>2. Set(r, v) /\ UNCHANGED <<shown, tables, loop, crashes>>
  BY DEF InitAnswered
<1>3. agent' \in [Nodes -> Conditions]
  BY RequestNow, MonitoringAssumption DEF InitAnswered
<1> HIDE DEF v
<1> QED
  BY <1>1, <1>2, <1>3, PrivateStep

LEMMA InitFailsStep == ASSUME MInv, NEW r \in Requests, InitFails(r) PROVE MInv'
BY IdleSound, PrivateStep, RequestNow DEF InitFails, Finish, env

LEMMA SaveOnlineStep == ASSUME MInv, NEW r \in Requests, SaveOnline(r) PROVE MInv'
<1>1. /\ Set(r, Idle) /\ UNCHANGED <<env, peers, links, loop, crashes>>
      /\ nodes' = nodes \/ nodes' = [nodes EXCEPT ![req[r].row] = "online"]
  BY DEF SaveOnline, Finish
<1>2. TablesTyped
  BY <1>1, RequestNow DEF TablesTyped, Status
<1>3. \A x \in held : Exists(x)'
  BY <1>1, RequestNow DEF Exists, NodeRow, PeerRow, RouterRow, Gone
<1> QED
  BY <1>1, <1>2, <1>3, IdleSound, RequestStep, RequestNow DEF env

LEMMA DeleteStep ==
    ASSUME MInv, NEW r \in Requests, NEW kind \in {"delete_node", "delete_router"},
           NEW x \in Nodes \cup Routers, Delete(r, kind, x)
    PROVE  MInv'
<1> DEFINE mine == {p \in Peers : PeerRow(p) /\ (NodeOf[p] = x \/ peers[p].router = x)}
<1> DEFINE v == [Idle EXCEPT !.kind = kind, !.at = "peers", !.row = x, !.rows = mine]
<1>0. mine \in SUBSET Peers
  OBVIOUS
<1> HIDE DEF mine
<1>1. x \in (IF kind = "delete_node" THEN Nodes ELSE Routers)
  BY DEF Delete
<1>2. v \in RequestType /\ Sound(v)
  BY <1>0, <1>1, IdleSound DEF RequestType, Sound, Idle, AllKinds
<1>3. Set(r, v) /\ UNCHANGED <<env, tables, loop, crashes>>
  BY DEF Delete, mine
<1> HIDE DEF v
<1> QED
  BY <1>2, <1>3, PrivateStep, RequestNow DEF env

LEMMA LockPeersStep == ASSUME MInv, NEW r \in Requests, LockPeers(r) PROVE MInv'
<1> DEFINE there == {p \in req[r].rows : PeerRow(p)}
<1> DEFINE v == [req[r] EXCEPT !.at = "row", !.holds = there]
<1>1. there \subseteq Peers
  BY RequestNow DEF RequestType
<1>2. UNCHANGED <<env, tables, loop, crashes>> /\ req[r].at = "peers"
  BY DEF LockPeers
<1>3. CASE Finish(r)
  BY <1>2, <1>3, IdleSound, PrivateStep, RequestNow DEF Finish, env
<1>4. CASE FreeFor(r, there) /\ Set(r, v)
  <2>1. v \in RequestType
    BY <1>1, RequestNow DEF RequestType, Rows
  <2>2. Sound(v)
    BY <1>1, <1>2, <1>4, RequestNow DEF RequestType, Sound, FreeFor
  <2> HIDE DEF v
  <2> QED
    BY <1>2, <1>4, <2>1, <2>2, PrivateStep, RequestNow DEF env
<1> QED
  BY <1>3, <1>4 DEF LockPeers

LEMMA LockRowStep == ASSUME MInv, NEW r \in Requests, LockRow(r) PROVE MInv'
<1> DEFINE v == [req[r] EXCEPT !.at = "cascade", !.holds = @ \cup {req[r].row}]
<1>1. /\ req[r].at = "row" /\ FreeFor(r, {req[r].row}) /\ Set(r, v)
      /\ UNCHANGED <<env, tables, loop, crashes>>
  BY DEF LockRow
<1>2. req[r].row \in Nodes \cup Routers
  BY <1>1, RequestNow DEF Sound
<1>3. v \in RequestType
  BY <1>2, RequestNow DEF RequestType, Rows
<1>4. Sound(v)
  BY <1>1, RequestNow DEF RequestType, Sound, FreeFor
<1> HIDE DEF v
<1> QED
  BY <1>1, <1>3, <1>4, PrivateStep, RequestNow DEF env
\* The poll holds none of the rows that a delete takes away.
LEMMA CommitDeleteStep == ASSUME MInv, NEW r \in Requests, CommitDelete(r) PROVE MInv'
<1>1. /\ Set(r, Idle) /\ UNCHANGED <<env, loop, crashes>>
      /\ req[r].at = "cascade" /\ FreeFor(r, Dependents(r))
  BY DEF CommitDelete, Finish
<1>2. /\ req[r].row \notin held /\ Dependents(r) \cap held = {}
      /\ Dependents(r) \subseteq Peers
  BY <1>1, RequestNow DEF Sound, FreeFor, Dependents
<1>3. CASE req[r].kind = "delete_node"
  <2>1. /\ nodes' = [nodes EXCEPT ![req[r].row] = "deleted"] /\ links' = links
        /\ peers' = [p \in Peers |-> IF p \in Dependents(r)
                                    THEN [peers[p] EXCEPT !.row = "deleted"] ELSE peers[p]]
    BY <1>3 DEF CommitDelete
  <2>2. TablesTyped
    BY <2>1, RequestNow DEF TablesTyped, Gone
  <2>3. \A x \in held : Exists(x)'
    BY <1>2, <2>1, RequestNow DEF Exists, NodeRow, PeerRow, RouterRow
  <2> QED
    BY <1>1, <2>2, <2>3, IdleSound, RequestStep, RequestNow DEF env
<1>4. CASE req[r].kind # "delete_node"
  <2>1. /\ links' = [links EXCEPT ![req[r].row] = "deleted"] /\ nodes' = nodes
        /\ peers' = [p \in Peers |-> IF p \in Dependents(r)
                                    THEN [peers[p] EXCEPT !.router = NoRouter] ELSE peers[p]]
    BY <1>4 DEF CommitDelete
  <2>2. TablesTyped
    BY <2>1, RequestNow DEF TablesTyped, Gone
  <2>3. \A x \in held : Exists(x)'
    BY <1>2, <2>1, RequestNow DEF Exists, NodeRow, PeerRow, RouterRow
  <2> QED
    BY <1>1, <2>2, <2>3, IdleSound, RequestStep, RequestNow DEF env
<1> QED
  BY <1>3, <1>4
----------------------------------------------------------------------------
(* The other steps.                                                        *)

\* A step of somebody else that leaves the rows the poll holds where they are.
LEMMA OtherStep ==
    ASSUME MInv, UNCHANGED <<loop, req, crashes>>, TablesTyped,
           agent' \in [Nodes -> Conditions], shown' \in [Peers -> Shown],
           \A x \in held : Exists(x)'
    PROVE  MInv'
<1>1. TypeOK'
  BY DEF MInv, TypeOK, TablesTyped, loop, session
<1>2. NobodyWaitsLocked' /\ HeldInv' /\ PendingInv' /\ PolledInv'
  BY DEF MInv, NobodyWaitsLocked, HeldInv, PendingInv, PolledInv, loop, session
<1>3. \A r \in Requests : Knows(r)'
  BY DEF MInv, Knows, Deletes
<1> QED
  BY <1>1, <1>2, <1>3 DEF MInv

\* The same of what every step starts from, said without a request.
LEMMA TablesNow ==
    ASSUME MInv
    PROVE  /\ \A x \in held : Exists(x)
           /\ nodes \in [Nodes -> Status \cup Gone] /\ links \in [Routers -> Link \cup Gone]
           /\ peers \in [Peers -> [row : {"active", "revoked"} \cup Gone,
                                   router : Routers \cup {NoRouter}]]
           /\ agent \in [Nodes -> Conditions] /\ shown \in [Peers -> Shown]
BY DEF MInv, TypeOK, HeldInv

LEMMA AddRouterStep == ASSUME MInv, NEW q \in Routers, AddRouter(q) PROVE MInv'
<1>1. TablesTyped
  BY TablesNow DEF AddRouter, TablesTyped, Link
<1>2. \A x \in held : Exists(x)'
  BY TablesNow DEF AddRouter, Exists, NodeRow, PeerRow, RouterRow, Gone
<1> QED
  BY <1>1, <1>2, OtherStep, TablesNow DEF AddRouter, env

LEMMA AddPeerStep ==
    ASSUME MInv, NEW p \in Peers, NEW q \in Routers \cup {NoRouter}, AddPeer(p, q)
    PROVE  MInv'
<1>1. TablesTyped
  BY TablesNow DEF AddPeer, TablesTyped
<1>2. \A x \in held : Exists(x)'
  BY TablesNow DEF AddPeer, Exists, NodeRow, PeerRow, RouterRow, Gone
<1> QED
  BY <1>1, <1>2, OtherStep, TablesNow DEF AddPeer, env

LEMMA RevokeStep == ASSUME MInv, NEW p \in Peers, Revoke(p) PROVE MInv'
<1>1. TablesTyped /\ shown' \in [Peers -> Shown] /\ agent' = agent
  BY TablesNow, MonitoringAssumption DEF Revoke, TablesTyped
<1>2. \A x \in held : Exists(x)'
  BY TablesNow DEF Revoke, Exists, NodeRow, PeerRow, RouterRow, Gone
<1> QED
  BY <1>1, <1>2, OtherStep, TablesNow DEF Revoke

LEMMA DriftStep == ASSUME MInv, Drift PROVE MInv'
<1>1. /\ UNCHANGED <<tables, loop, req, crashes>>
      /\ agent' \in [Nodes -> Conditions] /\ shown' \in [Peers -> Shown]
  BY TablesNow DEF Drift
<1>2. TablesTyped /\ \A x \in held : Exists(x)'
  BY <1>1, TablesNow DEF TablesTyped, tables, Exists, NodeRow, PeerRow, RouterRow
<1> QED
  BY <1>1, <1>2, OtherStep

LEMMA RestartStep == ASSUME MInv, Restart PROVE MInv'
<1>1. TypeOK'
  <2>1. crashes' \in 0..MaxCrashes
    BY MonitoringAssumption DEF MInv, TypeOK, Restart
  <2> QED
    BY <2>1, Blanks DEF MInv, TypeOK, Restart, env, tables
<1>2. NobodyWaitsLocked' /\ HeldInv' /\ PendingInv' /\ PolledInv'
  BY Blanks DEF Restart, NobodyWaitsLocked, HeldInv, PendingInv, PolledInv
<1>3. \A r \in Requests : Knows(r)'
  BY Blanks DEF Restart, Knows
<1> QED
  BY <1>1, <1>2, <1>3 DEF MInv

LEMMA BreakDeadlockStep == ASSUME MInv, BreakDeadlock PROVE MInv'
<1>1. UNCHANGED <<env, tables, tick, crashes>>
  BY DEF BreakDeadlock
<1>2. CASE EndPoll /\ UNCHANGED req
  BY <1>1, <1>2, EndPollStep, TablesNow DEF tables
<1>3. CASE \E r \in Requests : Finish(r) /\ UNCHANGED <<pc, session>>
  BY <1>1, <1>3, IdleSound, PrivateStep, TablesNow DEF Finish, env, loop
<1> QED
  BY <1>2, <1>3 DEF BreakDeadlock
----------------------------------------------------------------------------
\* Every step preserves the invariant.
LEMMA MInvNext == MInv /\ [Next]_vars => MInv'
<1> SUFFICES ASSUME MInv, [Next]_vars PROVE MInv'
  OBVIOUS
<1>1. CASE PollStep
  BY <1>1, TickStep, BeginPollStep, AnswerStep, MarkUnknownStep, LoadPeersStep,
     LookAtPeerStep, LookForRouterStep, PeersDoneStep, CommitStep, PollFailsStep
  DEF PollStep
<1>2. ASSUME NEW r \in Requests, HandlerStep(r) PROVE MInv'
  BY <1>2, InitAnsweredStep, InitFailsStep, SaveOnlineStep, LockPeersStep, LockRowStep,
     CommitDeleteStep
  DEF HandlerStep
<1>3. CASE Arrive
  BY <1>3, AddNodeStep, RetryInitStep, DeleteStep, AddRouterStep, AddPeerStep, RevokeStep
  DEF Arrive
<1>4. CASE UNCHANGED vars
  <2>1. TablesTyped /\ \A x \in held : Exists(x)'
    BY <1>4, TablesNow DEF TablesTyped, vars, tables, Exists, NodeRow, PeerRow, RouterRow
  <2> QED
    BY <1>4, <2>1, OtherStep, TablesNow DEF vars, env
<1> QED
  BY <1>1, <1>2, <1>3, <1>4, BreakDeadlockStep, DriftStep, RestartStep DEF Next

\* What the loop and the handlers know always holds.
LEMMA MInvAlways == Spec => []MInv
BY MInvInit, MInvNext, PTL DEF Spec

\* The state of the loop, of the handlers and of the tables is well typed.
THEOREM MonitoringTypeCorrect == Spec => []TypeOK
<1>1. MInv => TypeOK
  BY DEF MInv
<1> QED
  BY <1>1, MInvAlways, PTL

\* While the panel sleeps or waits for an agent it keeps no row locked.
THEOREM NobodyEverWaitsLocked == Spec => []NobodyWaitsLocked
<1>1. MInv => NobodyWaitsLocked
  BY DEF MInv
<1> QED
  BY <1>1, MInvAlways, PTL
----------------------------------------------------------------------------
(* What is deleted stays so.                                               *)

StillGone ==
    /\ \A n \in Nodes : nodes[n] = "deleted" => nodes'[n] = "deleted"
    /\ \A p \in Peers : peers[p].row = "deleted" => peers'[p].row = "deleted"
    /\ \A q \in Routers : links[q] = "deleted" => links'[q] = "deleted"

\* A poll writes rows that it holds or has just found.
LEMMA CommitKeepsGone == ASSUME MInv, Commit PROVE StillGone
<1>1. \A n \in Nodes : n \in held => nodes[n] # "deleted"
  BY MonitoringAssumption DEF MInv, HeldInv, Exists, NodeRow, Gone
<1>2. \A q \in Routers : q \in dirty \cup held => links[q] # "deleted"
  BY MonitoringAssumption DEF Commit, MInv, HeldInv, Exists, RouterRow, Gone
<1>3. \A q \in Routers : pending[q] # "keep" => links[q] # "deleted"
  BY <1>2 DEF MInv, PendingInv
<1> QED
  BY <1>1, <1>3 DEF Commit, StillGone, MInv, TypeOK

LEMMA CommitDeleteKeepsGone ==
    ASSUME MInv, NEW r \in Requests, CommitDelete(r) PROVE StillGone
<1>1. CASE req[r].kind = "delete_node"
  BY <1>1, TablesNow DEF CommitDelete, StillGone
<1>2. CASE req[r].kind # "delete_node"
  BY <1>2, TablesNow DEF CommitDelete, StillGone
<1> QED
  BY <1>1, <1>2

LEMMA StepKeepsGone == ASSUME MInv, Next PROVE StillGone
<1>1. CASE UNCHANGED tables
  BY <1>1 DEF StillGone, tables
<1>2. ASSUME NEW r \in Requests, NEW n \in Nodes, AddNode(r, n) PROVE StillGone
  BY <1>2, TablesNow DEF AddNode, StillGone
<1>3. ASSUME NEW r \in Requests, SaveOnline(r) PROVE StillGone
  BY <1>3, TablesNow DEF SaveOnline, StillGone, NodeRow, Gone
<1>4. ASSUME NEW q \in Routers, AddRouter(q) PROVE StillGone
  BY <1>4, TablesNow DEF AddRouter, StillGone
<1>5. ASSUME NEW p \in Peers, NEW q \in Routers \cup {NoRouter}, AddPeer(p, q)
      PROVE StillGone
  BY <1>5, TablesNow DEF AddPeer, StillGone
<1>6. ASSUME NEW p \in Peers, Revoke(p) PROVE StillGone
  BY <1>6, TablesNow DEF Revoke, StillGone, Active
<1>7. CASE PollStep
  <2>1. Commit \/ UNCHANGED tables
    BY <1>7 DEF PollStep, Tick, Sleep, AgentSilent, AgentAnswers, MarkUnknown, LoadPeers,
                PeersDone, PollFails, BeginPoll, LookAtPeer, LookForRouter
  <2> QED
    BY <2>1, <1>1, CommitKeepsGone
<1>8. ASSUME NEW r \in Requests, HandlerStep(r) PROVE StillGone
  <2>1. SaveOnline(r) \/ CommitDelete(r) \/ UNCHANGED tables
    BY <1>8 DEF HandlerStep, InitAnswered, InitFails, LockPeers, LockRow
  <2> QED
    BY <2>1, <1>1, <1>3, CommitDeleteKeepsGone
<1>9. CASE Arrive
  <2>1. ASSUME NEW r \in Requests, NEW n \in Nodes, RetryInit(r, n) PROVE UNCHANGED tables
    BY <2>1 DEF RetryInit
  <2>2. ASSUME NEW r \in Requests, NEW kind \in {"delete_node", "delete_router"},
               NEW x \in Nodes \cup Routers, Delete(r, kind, x)
        PROVE UNCHANGED tables
    BY <2>2 DEF Delete
  <2> QED
    BY <1>1, <1>2, <1>4, <1>5, <1>6, <1>9, <2>1, <2>2 DEF Arrive
<1>10. CASE BreakDeadlock \/ Drift \/ Restart
  BY <1>1, <1>10 DEF BreakDeadlock, Drift, Restart
<1> QED
  BY <1>7, <1>8, <1>9, <1>10 DEF Next

\* No poll and no handler brings back a node, a router or a peer that another request
\* has deleted.
THEOREM DeletedStaysGone == Spec => GoneStaysGone
<1>1. MInv /\ [Next]_vars =>
        [/\ \A n \in Nodes : nodes[n] = "deleted" => nodes'[n] = "deleted"
         /\ \A p \in Peers : peers[p].row = "deleted" => peers'[p].row = "deleted"
         /\ \A q \in Routers : links[q] = "deleted" => links'[q] = "deleted"]_vars
  BY StepKeepsGone DEF StillGone
<1> QED
  BY <1>1, MInvAlways, PTL DEF Spec, GoneStaysGone
----------------------------------------------------------------------------
(* Where the link statuses come from.                                      *)

\* p calls for the status s of the router it is behind.
CallsFor(p, s) ==
    /\ NodeOf[p] = polled.node
    /\ \/ s = PeerLink(p)
       \/ s = "unknown" /\ polled.status = "offline"

\* Statuses are assigned only once the agent has answered or failed to, and each is that
\* of a peer which is still behind the router, unless the router is gone.
SourceInv ==
    /\ pc \in {"asleep", "next", "ask", "silent", "answered"} =>
           \A q \in Routers : pending[q] = "keep"
    /\ pc # "peers" => todo = {}
    /\ pc = "silent" => polled.status = "offline"
    /\ \A p \in todo : NodeOf[p] = polled.node
    /\ \A p \in Peers : peers[p].row = "none" => peers[p].router = NoRouter
    /\ \A q \in Routers : pending[q] # "keep" /\ links[q] # "deleted" =>
           \E p \in Peers : peers[p].router = q /\ CallsFor(p, pending[q])

LEMMA SourceInit == Init => SourceInv
BY Blanks DEF Init, SourceInv

\* Steps of the loop.
LEMMA LoopKeepsSource == ASSUME MInv, SourceInv, PollStep PROVE SourceInv'
<1>1. CASE Tick \/ Sleep
  BY <1>1 DEF Tick, Sleep, SourceInv, session, tables, CallsFor, PeerLink
<1>2. ASSUME NEW n \in Nodes, BeginPoll(n) PROVE SourceInv'
  BY <1>2 DEF BeginPoll, SourceInv, tables
<1>3. CASE AgentSilent \/ AgentAnswers
  <2>1. /\ pc = "ask" /\ UNCHANGED <<tables, todo, pending>>
        /\ pc' \in {"silent", "answered"} /\ (pc' = "silent" => polled'.status = "offline")
    BY <1>3 DEF AgentSilent, AgentAnswers, MInv, TypeOK
  <2> QED
    BY <2>1 DEF SourceInv, tables
<1>4. CASE MarkUnknown
  <2> DEFINE behind == {q \in Routers : RouterRow(q) /\
                           \E p \in ActivePeers(polled.node) : peers[p].router = q}
  <2>1. /\ pc = "silent" /\ pc' = "commit" /\ UNCHANGED <<tables, todo, polled>>
        /\ pending' = [q \in Routers |-> IF q \in behind THEN "unknown" ELSE "keep"]
    BY <1>4 DEF MarkUnknown
  <2>2. ASSUME NEW q \in Routers, pending'[q] # "keep"
        PROVE  \E p \in Peers : peers[p].router = q /\ CallsFor(p, "unknown")
    BY <2>1, <2>2 DEF SourceInv, ActivePeers, CallsFor
  <2>3. \A q \in Routers : pending'[q] \in {"unknown", "keep"}
    BY <2>1
  <2> HIDE DEF behind
  <2> QED
    BY <2>1, <2>2, <2>3 DEF SourceInv, tables, CallsFor, PeerLink
<1>5. CASE LoadPeers
  BY <1>5 DEF LoadPeers, SourceInv, ActivePeers, tables
<1>6. ASSUME NEW p \in Peers, LookAtPeer(p) PROVE SourceInv'
  <2>1. /\ pc = "peers" /\ pc' = pc /\ UNCHANGED <<tables, polled>>
        /\ p \in todo /\ todo' = todo \ {p}
        /\ \/ pending' = pending
           \/ pending' = [pending EXCEPT ![peers[p].router] = PeerLink(p)]
    BY <1>6 DEF LookAtPeer
  <2>2. CallsFor(p, PeerLink(p))
    BY <2>1 DEF SourceInv, CallsFor
  <2>3. \A q \in Routers : \/ pending'[q] = pending[q]
                           \/ peers[p].router = q /\ pending'[q] = PeerLink(p)
    BY <2>1 DEF MInv, TypeOK
  <2>4. \A o \in Peers, s \in Link : CallsFor(o, s) => CallsFor(o, s)'
    BY <2>1 DEF CallsFor, PeerLink
  <2>5. ASSUME NEW q \in Routers, pending'[q] # "keep", links'[q] # "deleted"
        PROVE  \E o \in Peers : peers'[o].router = q /\ CallsFor(o, pending[q]')
    <3>1. CASE pending'[q] = pending[q]
      BY <2>1, <2>5, <3>1 DEF SourceInv, tables, CallsFor, PeerLink
    <3>2. CASE peers[p].router = q /\ pending'[q] = PeerLink(p)
      BY <2>1, <2>2, <3>2 DEF tables, CallsFor, PeerLink
    <3> QED
      BY <2>3, <3>1, <3>2
  <2> QED
    BY <2>1, <2>5 DEF SourceInv, tables, CallsFor, PeerLink
<1>7. ASSUME NEW p \in Peers, LookForRouter(p) PROVE SourceInv'
  BY <1>7 DEF LookForRouter, SourceInv, tables, CallsFor, PeerLink
<1>8. CASE PeersDone
  BY <1>8 DEF PeersDone, SourceInv, session, tables, CallsFor, PeerLink
<1>9. CASE Commit \/ PollFails
  BY <1>9, Blanks DEF Commit, PollFails, EndPoll, SourceInv, tables
<1> QED
  BY <1>1, <1>2, <1>3, <1>4, <1>5, <1>6, <1>7, <1>8, <1>9 DEF PollStep

\* Steps of others, which take a router off a peer only to delete it.
LEMMA TablesKeepSource ==
    ASSUME SourceInv, UNCHANGED loop,
           \A p \in Peers :
              /\ peers'[p].row = "none" => peers'[p].router = NoRouter
              /\ \/ peers'[p].router = peers[p].router
                 \/ peers[p].router = NoRouter
                 \/ links'[peers[p].router] = "deleted",
           \A q \in Routers : links[q] = "deleted" => links'[q] = "deleted"
    PROVE  SourceInv'
<1>1. ASSUME NEW q \in Routers, pending[q] # "keep", links'[q] # "deleted"
      PROVE  \E p \in Peers : peers'[p].router = q /\ CallsFor(p, pending[q])
  BY <1>1, MonitoringAssumption DEF SourceInv
<1> QED
  BY <1>1 DEF SourceInv, loop, session, CallsFor, PeerLink

LEMMA CommitDeleteKeepsSource ==
    ASSUME MInv, SourceInv, NEW r \in Requests, CommitDelete(r) PROVE SourceInv'
<1>1. UNCHANGED loop /\ req[r].at = "cascade"
  BY DEF CommitDelete
<1>2. \A q \in Routers : links[q] = "deleted" => links'[q] = "deleted"
  BY CommitDeleteKeepsGone DEF StillGone
<1>3. CASE req[r].kind = "delete_node"
  <2>1. \A p \in Peers : /\ peers'[p].router = peers[p].router
                         /\ peers'[p].row \in {peers[p].row, "deleted"}
    BY <1>3, TablesNow DEF CommitDelete
  <2> QED
    BY <1>1, <1>2, <2>1, TablesKeepSource DEF SourceInv
<1>4. CASE req[r].kind # "delete_node"
  <2>1. req[r].row \in Routers
    BY <1>1, <1>4 DEF MInv, Knows, Deletes
  <2>2. links'[req[r].row] = "deleted"
    BY <1>4, <2>1, TablesNow DEF CommitDelete
  <2>3. \A p \in Peers :
           /\ peers'[p].row = peers[p].row
           /\ \/ peers'[p].router = peers[p].router
              \/ peers'[p].router = NoRouter /\ p \in Dependents(r)
    BY <1>4, TablesNow DEF CommitDelete
  <2>4. \A p \in Dependents(r) : peers[p].router = req[r].row
    BY <2>1, MonitoringAssumption DEF Dependents
  <2> QED
    BY <1>1, <1>2, <2>2, <2>3, <2>4, TablesKeepSource DEF SourceInv
<1> QED
  BY <1>3, <1>4

\* Every step keeps what is known of the sources.
LEMMA SourceNext == MInv /\ SourceInv /\ [Next]_vars => SourceInv'
<1> SUFFICES ASSUME MInv, SourceInv, [Next]_vars PROVE SourceInv'
  OBVIOUS
<1>1. ASSUME UNCHANGED <<loop, peers>>,
             \A q \in Routers : links[q] = "deleted" => links'[q] = "deleted"
      PROVE  SourceInv'
  BY <1>1, TablesKeepSource DEF SourceInv
<1>2. CASE PollStep
  BY <1>2, LoopKeepsSource
<1>3. ASSUME NEW r \in Requests, HandlerStep(r) PROVE SourceInv'
  <2>1. CommitDelete(r) \/ UNCHANGED <<loop, peers, links>>
    BY <1>3 DEF HandlerStep, InitAnswered, InitFails, SaveOnline, LockPeers, LockRow, tables
  <2> QED
    BY <1>1, <2>1, CommitDeleteKeepsSource
<1>4. CASE Arrive
  <2>1. ASSUME NEW r \in Requests, NEW n \in Nodes, AddNode(r, n) \/ RetryInit(r, n)
        PROVE  UNCHANGED <<loop, peers, links>>
    BY <2>1 DEF AddNode, RetryInit, tables
  <2>2. ASSUME NEW r \in Requests, NEW kind \in {"delete_node", "delete_router"},
               NEW x \in Nodes \cup Routers, Delete(r, kind, x)
        PROVE  UNCHANGED <<loop, peers, links>>
    BY <2>2 DEF Delete, tables
  <2>3. ASSUME NEW q \in Routers, AddRouter(q) PROVE SourceInv'
    BY <1>1, <2>3, TablesNow DEF AddRouter
  <2>4. ASSUME NEW p \in Peers, Revoke(p) PROVE SourceInv'
    <3>1. /\ \A o \in Peers : /\ peers'[o].router = peers[o].router
                              /\ peers'[o].row \in {peers[o].row, "revoked"}
          /\ UNCHANGED <<loop, links>>
      BY <2>4, TablesNow DEF Revoke
    <3> QED
      BY <3>1, TablesKeepSource DEF SourceInv
  <2>5. ASSUME NEW p \in Peers, NEW q \in Routers \cup {NoRouter}, AddPeer(p, q)
        PROVE  SourceInv'
    <3>1. /\ peers[p].router = NoRouter /\ UNCHANGED <<loop, links>>
          /\ peers'[p].row = "active" /\ \A o \in Peers : o # p => peers'[o] = peers[o]
      BY <2>5, TablesNow DEF AddPeer, SourceInv
    <3> QED
      BY <3>1, TablesKeepSource DEF SourceInv
  <2> QED
    BY <1>1, <1>4, <2>1, <2>2, <2>3, <2>4, <2>5 DEF Arrive
<1>5. CASE Drift \/ UNCHANGED vars
  BY <1>1, <1>5 DEF Drift, vars, tables
<1>6. CASE BreakDeadlock \/ Restart
  <2>1. CASE UNCHANGED <<loop, tables>>
    BY <1>1, <2>1 DEF tables
  <2>2. CASE /\ pc' \in {"asleep", "next"} /\ todo' = {} /\ pending' = Keep
             /\ UNCHANGED tables
    BY <2>2, Blanks DEF SourceInv, tables
  <2> QED
    BY <1>6, <2>1, <2>2 DEF BreakDeadlock, EndPoll, Restart, loop
<1> QED
  BY <1>2, <1>3, <1>4, <1>5, <1>6 DEF Next

\* Only a commit of the loop writes over a status with another.
LEMMA CommitWrites ==
    ASSUME MInv, SourceInv, [Next]_vars, NEW q \in Routers, links'[q] # links[q],
           {links[q], links'[q]} \subseteq Link
    PROVE  Commit
<1>1. "none" \notin Link /\ "deleted" \notin Link
  BY DEF Link
<1>2. ASSUME NEW o \in Routers, AddRouter(o) PROVE FALSE
  BY <1>1, <1>2, TablesNow DEF AddRouter
<1>3. ASSUME NEW r \in Requests, CommitDelete(r) PROVE FALSE
  <2>1. links' = links \/ links' = [links EXCEPT ![req[r].row] = "deleted"]
    BY <1>3 DEF CommitDelete
  <2> QED
    BY <1>1, <2>1, TablesNow
<1>4. ASSUME NEW r \in Requests, HandlerStep(r) PROVE CommitDelete(r) \/ links' = links
  BY <1>4 DEF HandlerStep, InitAnswered, InitFails, SaveOnline, LockPeers, LockRow, tables
<1>5. ASSUME Arrive PROVE links' = links \/ \E o \in Routers : AddRouter(o)
  BY <1>5 DEF Arrive, AddNode, RetryInit, Delete, Revoke, AddPeer, tables
<1>6. ASSUME PollStep PROVE Commit \/ links' = links
  BY <1>6 DEF PollStep, Tick, Sleep, AgentSilent, AgentAnswers, MarkUnknown, LoadPeers,
     PeersDone, PollFails, BeginPoll, LookAtPeer, LookForRouter, tables
<1>7. ASSUME BreakDeadlock \/ Drift \/ Restart \/ UNCHANGED vars PROVE links' = links
  BY <1>7 DEF BreakDeadlock, Drift, Restart, vars, tables
<1> QED
  BY <1>2, <1>3, <1>4, <1>5, <1>6, <1>7 DEF Next

\* However many peers share a router, and whatever is added, revoked or deleted while
\* the poll goes on, the status that is committed is one that a peer behind it calls for.
THEOREM LinksAlwaysFollowAPeer == Spec => LinksFollowAPeer
<1> DEFINE Follows ==
             \A q \in Routers :
                 links'[q] # links[q] /\ {links[q], links'[q]} \subseteq Link =>
                     \E p \in Peers :
                         /\ peers[p].router = q /\ NodeOf[p] = polled.node
                         /\ \/ links'[q] = PeerLink(p)
                            \/ links'[q] = "unknown" /\ polled.status = "offline"
<1>1. ASSUME MInv, SourceInv, [Next]_vars PROVE Follows
  <2> SUFFICES ASSUME NEW q \in Routers, links'[q] # links[q],
                      {links[q], links'[q]} \subseteq Link
               PROVE  \E p \in Peers : peers[p].router = q /\ CallsFor(p, links'[q])
    BY DEF CallsFor
  <2>1. links'[q] = pending[q] /\ pending[q] # "keep" /\ links[q] # "deleted"
    BY <1>1, CommitWrites DEF Commit, Link
  <2> QED
    BY <1>1, <2>1 DEF SourceInv
<1>2. Spec => []SourceInv
  BY SourceInit, SourceNext, MInvAlways, PTL DEF Spec
<1> HIDE DEF Follows
<1>3. MInv /\ SourceInv /\ [Next]_vars => [Follows]_vars
  BY <1>1
<1> USE DEF Follows
<1> QED
  BY <1>2, <1>3, MInvAlways, PTL DEF Spec, LinksFollowAPeer
=============================================================================
