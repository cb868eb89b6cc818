----------------------- MODULE PanelRevocationProofs -----------------------
(***************************************************************************)
(* Theorems about what an administrator can take back: every key that has  *)
(* access was generated for a create, and a create that was answered 201   *)
(* has left a row that names its key; a revoke that was answered 204 has   *)
(* stamped that row.  The invariant is that of PanelPeersProofs with the   *)
(* history of each create and each revoke.  The last part shows that the   *)
(* panel implements PeerLife.                                              *)
(***************************************************************************)
EXTENDS PanelLife, PanelPeersProofs

\* Deleted with its node, or stamped.
WasRevoked(p) == nodeRow = "deleted" \/ (RowOf(p) /\ peers[p].revoked # Never)

IsCreate(r) == job[r] # NoJob /\ job[r].kind = "create"

\* The node is registered once, and only by a handler that found it absent.
RegisteredOnce ==
    /\ \A r \in Requests :
          /\ pc[r] = "insert_node" => nodeRow = "absent"
          /\ pc[r] = "delete_node" => nodeRow # "absent" /\ job[r].kind = "delete_node"
    /\ \A r, q \in Requests :
          r # q /\ job[r] # NoJob /\ job[q] # NoJob /\ job[r].kind = "add_node" =>
              job[q].kind # "add_node"

\* The rows of its peers go with a node, and none is added to one that is gone.
RowsGoneWithNode == nodeRow = "deleted" => \A p \in Requests : peers[p] = NoRow

\* How far a create is, from its call, its row and its answer.
CreateKnows(r) ==
    /\ wire[r] # NoCall => (wire[r].op = "create" <=> IsCreate(r))
    /\ pc[r] \in {"insert", "refresh", "cache"} => Created(r)
    /\ answer[r] # 0 => pc[r] = "done"
    /\ IsCreate(r) /\ wire[r] # NoCall =>
           \/ pc[r] \in {"agent", "insert", "refresh", "cache", "lost"}
           \/ answer[r] \in {201, 500, 502}
    /\ IsCreate(r) /\ answer[r] = 201 => Created(r)
    /\ pc[r] \in {"refresh", "cache"} \/ (IsCreate(r) /\ answer[r] = 201) =>
           nodeRow = "deleted" \/ RowOf(r)
    /\ RowOf(r) => pc[r] \in {"refresh", "cache"} \cup Ended

\* What a revoke has read and done.
RevokeKnows(r) ==
    /\ /\ pc[r] \in {"node", "agent", "stamp"} /\ job[r].kind = "revoke"
       /\ snap[r].revoked # Never
       => WasRevoked(job[r].peer)
    /\ pc[r] = "uncache" =>
           /\ job[r].kind = "revoke" /\ Created(job[r].peer)
           /\ snap[r].key = body[job[r].peer] /\ live[snap[r].key] = Absent
           /\ WasRevoked(job[r].peer)

\* r's create call has brought k, or may have.
Brought(r, k) ==
    /\ IsCreate(r) /\ wire[r] # NoCall /\ k \in given[r]
    /\ \/ phase[r] = "applied" /\ made[r] = k
       \/ phase[r] = "ok" /\ body[r] = k
       \/ phase[r] \in {"failed", "lost"}

BroughtByCreates ==
    \A k \in Keys : live[k] # Absent => \E r \in Requests : Brought(r, k)

RInv ==
    /\ PInv /\ RegisteredOnce /\ RowsGoneWithNode /\ BroughtByCreates
    /\ \A r \in Requests : CreateKnows(r) /\ RevokeKnows(r)
----------------------------------------------------------------------------
\* The invariant holds initially.
LEMMA RInvInit == Init => RInv
<1> SUFFICES ASSUME Init PROVE RInv
  OBVIOUS
<1>1. PInv
  BY PInvInit
<1>2. live = Agent!NoPeers /\ phase = [r \in Requests |-> "unsent"]
  BY DEF Init, Agent!ContractInit
<1>3. RegisteredOnce /\ RowsGoneWithNode /\ BroughtByCreates
  BY <1>2 DEF Init, RegisteredOnce, RowsGoneWithNode, BroughtByCreates, Agent!NoPeers
<1>4. \A r \in Requests : CreateKnows(r) /\ RevokeKnows(r)
  BY <1>2, JobAssumption DEF Init, CreateKnows, RevokeKnows, IsCreate, RowOf
<1> QED
  BY <1>1, <1>3, <1>4 DEF RInv
----------------------------------------------------------------------------
(* Steps of the agent.                                                     *)

\* The call of a create is a create, and of nothing else.
LEMMA CreateCalls ==
    ASSUME RInv, NEW r \in Requests, phase[r] # "unsent", call[r].op = "create"
    PROVE  IsCreate(r) /\ wire[r] # NoCall
BY DEF RInv, CreateKnows, PInv, AgentInv

\* The one step of the agent that gives a key access: a create's.
LEMMA AccessIsBrought ==
    ASSUME RInv, NEW r \in Requests, Agent!Apply(r),
           NEW k \in Keys, live[k] = Absent, live'[k] # Absent
    PROVE  IsCreate(r) /\ wire[r] # NoCall /\ phase'[r] = "applied" /\ made'[r] = k
<1>1. PInv
  BY DEF RInv
<1>2. call[r] \in PanelCalls /\ call[r].op \in {"create", "delete"} /\ phase[r] = "sent"
      /\ phase'[r] = "applied" /\ made' = made
  BY <1>1, Types DEF Agent!Apply, PanelCalls, Agent!Enter
<1>3. call[r].op # "delete"
  <2>1. SUFFICES ASSUME call[r].op = "delete" PROVE FALSE
    OBVIOUS
  <2>2. live' = [live EXCEPT ![call[r].key] = Absent]
    BY <2>1 DEF Agent!Apply, Agent!Effect
  <2> QED
    BY <1>1, <2>2, Types
<1>4. call[r].op = "create" /\ call[r].ips \in Ips
  BY <1>2, <1>3 DEF PanelCalls
<1>5. live' = Agent!Assigned(made[r], call[r].ips)
  BY <1>4 DEF Agent!Apply, Agent!Effect
<1>6. k = made[r]
  BY <1>1, <1>4, <1>5, Types, PanelAssumption DEF Agent!Assigned
<1> QED
  BY <1>2, <1>4, <1>6, CreateCalls

\* What a call has brought stays brought.
LEMMA StillBrought ==
    ASSUME RInv, AgentStep, NEW k \in Keys, live'[k] # Absent,
           NEW r \in Requests, Brought(r, k)
    PROVE  Brought(r, k)'
<1>0. PInv /\ UNCHANGED <<job, wire>> /\ k \in given'[r]
  BY DEF RInv, AgentStep, handlers, Remember, Brought
<1>1. SUFFICES \/ phase'[r] = "applied" /\ made'[r] = k
               \/ phase'[r] = "ok" /\ body'[r] = k
               \/ phase'[r] \in {"failed", "lost"}
  BY <1>0 DEF Brought, IsCreate
<1>2. CASE phase[r] = "ok"
  BY <1>0, <1>2, CreatedStays DEF Brought
<1>3. phase[r] = "applied" => call[r].op = "create"
  <2>1. SUFFICES ASSUME phase[r] = "applied" PROVE call[r].op = "create"
    OBVIOUS
  <2>2. call[r] = wire[r] /\ wire[r] # NoCall
    BY <1>0, <2>1 DEF PInv, AgentInv
  <2>3. IsCreate(r)
    BY DEF Brought
  <2> QED
    BY <2>2, <2>3 DEF RInv, CreateKnows
<1>4. CASE phase[r] \in {"applied", "failed", "lost"}
  <2>1. ASSUME NEW q \in Requests, Deliver(q) \/ Agent!Mint(q) \/ Agent!Apply(q)
        PROVE  phase'[r] = phase[r] /\ (phase[r] = "applied" => made'[r] = made[r])
    BY <1>0, <1>4, <2>1, Types
    DEF Deliver, Agent!Accept, Agent!Mint, Agent!Apply, Agent!Enter
  <2>2. ASSUME NEW q \in Requests, AgentSucceeds(q), q # r
        PROVE  phase'[r] = phase[r] /\ made'[r] = made[r]
    BY <1>0, <2>2, Types
    DEF AgentSucceeds, Agent!Succeed, Agent!BringUp, Agent!Enter, Agent!Forget
  <2>3. ASSUME AgentSucceeds(r)
        PROVE  phase[r] = "applied" /\ phase'[r] = "ok" /\ body'[r] = made[r]
    BY <1>0, <1>3, <1>4, <2>3, Types
    DEF AgentSucceeds, Agent!Succeed, Agent!BringUp, Agent!Enter
  <2>4. ASSUME NEW q \in Requests, Agent!Refuse(q) \/ Agent!Fail(q)
        PROVE  \/ phase'[r] = "failed"
               \/ phase'[r] = phase[r] /\ made'[r] = made[r]
    BY <1>0, <1>4, <2>4, Types DEF Agent!Refuse, Agent!Fail, Agent!Enter, Agent!Forget
  <2>5. ASSUME Agent!Crash PROVE phase'[r] \in {"failed", "lost"}
    BY <1>0, <1>4, <2>5, Types DEF Agent!Crash, Agent!Pending
  <2>6. ASSUME Agent!Restart \/ Agent!Operate
        PROVE  phase'[r] = phase[r] /\ made'[r] = made[r]
    BY <2>6 DEF Agent!Restart, Agent!Operate
  <2> QED
    BY <1>4, <2>1, <2>2, <2>3, <2>4, <2>5, <2>6 DEF AgentStep, Brought
<1> QED
  BY <1>2, <1>4 DEF Brought

\* Steps of the agent keep the invariant.
LEMMA AgentKeepsRInv == ASSUME RInv, AgentStep PROVE RInv'
<1>0. PInv /\ UNCHANGED <<stores, handlers>>
  BY DEF RInv, AgentStep
<1>1. PInv'
  BY <1>0, AgentKeepsPInv
<1>2. RegisteredOnce' /\ RowsGoneWithNode'
  BY <1>0 DEF RInv, RegisteredOnce, RowsGoneWithNode, stores, handlers
<1>3. ASSUME NEW p \in Requests, Created(p)
      PROVE  /\ Created(p)' /\ body'[p] = body[p]
             /\ live[body[p]] = Absent => live'[body[p]] = Absent
  <2>1. Settled(body[p]) /\ body[p] \in Keys
    BY <1>0, <1>3, Types DEF PInv, AgentInv, Settled
  <2> QED
    BY <1>0, <1>3, <2>1, SettledStays, CreatedStays DEF Created
<1>4. ASSUME NEW r \in Requests PROVE CreateKnows(r)'
  BY <1>0, <1>3 DEF RInv, CreateKnows, IsCreate, RowOf, stores, handlers
<1>5. ASSUME NEW r \in Requests PROVE RevokeKnows(r)'
  <2>1. pc[r] = "uncache" /\ job[r].kind = "revoke" => job[r].peer \in Requests
    BY <1>0 DEF PInv, HandlerInv, HandlerKnows, JobType, StoreSteps
  <2> QED
    BY <1>0, <1>3, <2>1 DEF RInv, RevokeKnows, WasRevoked, RowOf, stores, handlers
<1>6. BroughtByCreates'
  <2> SUFFICES ASSUME NEW k \in Keys, live'[k] # Absent
               PROVE  \E r \in Requests : Brought(r, k)'
    BY DEF BroughtByCreates, Brought, IsCreate
  <2>1. CASE live[k] # Absent
    <3>1. PICK r \in Requests : Brought(r, k)
      BY <2>1 DEF RInv, BroughtByCreates
    <3> QED
      BY <3>1, StillBrought
  <2>2. CASE live[k] = Absent
    <3>1. PICK r \in Requests : Agent!Apply(r)
      <4>1. \/ live' = live \/ live' = Agent!NoPeers
            \/ \E r \in Requests : Agent!Apply(r)
        BY DEF AgentStep, Deliver, AgentSucceeds, Agent!Accept, Agent!Mint, Agent!Succeed,
               Agent!BringUp, Agent!Refuse, Agent!Fail, Agent!Crash, Agent!Restart,
               Agent!Operate
      <4>2. live' # live /\ live' # Agent!NoPeers
        BY <2>2 DEF Agent!NoPeers
      <4> QED
        BY <4>1, <4>2
    <3>2. IsCreate(r) /\ wire[r] # NoCall /\ phase'[r] = "applied" /\ made'[r] = k
      BY <2>2, <3>1, AccessIsBrought
    <3>3. k \in given'[r]
      BY <2>2, <3>2 DEF AgentStep, Remember
    <3> QED
      BY <1>0, <3>2, <3>3 DEF Brought, IsCreate, handlers
  <2> QED
    BY <2>1, <2>2
<1> QED
  BY <1>1, <1>2, <1>4, <1>5, <1>6 DEF RInv
----------------------------------------------------------------------------
(* Steps of the panel.                                                     *)

\* What a step of r's handler leaves of the others, and of the rows.
HandlerMoves(r) ==
    /\ Elsewhere /\ job' = job
    /\ \A q \in Requests : wire[q] # NoCall => wire'[q] = wire[q]
    /\ \A q \in Requests : q # r => /\ pc'[q] = pc[q] /\ snap'[q] = snap[q]
                                    /\ wire'[q] = wire[q] /\ answer'[q] = answer[q]

RowsGoOn(r) ==
    /\ nodeRow = "deleted" => nodeRow' = "deleted"
    /\ \A p \in Requests :
          /\ WasRevoked(p) => \/ nodeRow' = "deleted"
                              \/ peers'[p] # NoRow /\ peers'[p].revoked # Never
          /\ p # r /\ peers'[p] # NoRow => RowOf(p)
          /\ RowOf(p) => peers'[p] # NoRow \/ nodeRow' = "deleted"

\* The jobs of those who await the agent or a store.
LEMMA BusyJobs ==
    ASSUME RInv, NEW r \in Requests, pc[r] \in StoreSteps \cup {"agent"}
    PROVE  /\ job[r] \in JobType /\ job[r] # NoJob
           /\ job[r].kind \in {"revoke", "config"} => job[r].peer \in Requests
BY JobAssumption DEF RInv, PInv, HandlerInv, HandlerKnows, JobType

\* What has been brought stays so while the panel takes a step.
LEMMA PanelKeepsBrought ==
    ASSUME RInv, NEW r \in Requests, HandlerMoves(r)
    PROVE  BroughtByCreates'
<1>1. /\ live' = live /\ phase' = phase /\ made' = made /\ given' = given
      /\ body' = body /\ job' = job
  BY DEF HandlerMoves, Elsewhere, agentVars
<1>2. ASSUME NEW k \in Keys, NEW q \in Requests, Brought(q, k) PROVE Brought(q, k)'
  BY <1>1, <1>2 DEF Brought, IsCreate, HandlerMoves
<1> QED
  BY <1>1, <1>2 DEF RInv, BroughtByCreates

\* The others know what they knew.
LEMMA OthersGoOn ==
    ASSUME RInv, NEW r \in Requests, HandlerMoves(r), RowsGoOn(r), NEW q \in Requests, q # r
    PROVE  CreateKnows(q)' /\ RevokeKnows(q)'
<1>1. /\ live' = live /\ phase' = phase /\ call' = call /\ body' = body /\ job'[q] = job[q]
      /\ pc'[q] = pc[q] /\ snap'[q] = snap[q] /\ wire'[q] = wire[q] /\ answer'[q] = answer[q]
  BY DEF HandlerMoves, Elsewhere, agentVars
<1>2. CreateKnows(q) /\ RevokeKnows(q)
  BY DEF RInv
<1>3. CreateKnows(q)'
  BY <1>1, <1>2 DEF CreateKnows, IsCreate, Created, RowOf, RowsGoOn
<1>4. RevokeKnows(q)'
  <2>1. pc[q] \in StoreSteps \cup {"agent"} /\ job[q].kind = "revoke" =>
            job[q].peer \in Requests
    BY BusyJobs
  <2>2. WasRevoked(job[q].peer) /\ job[q].peer \in Requests => WasRevoked(job[q].peer)'
    BY <1>1 DEF RowsGoOn, WasRevoked, RowOf
  <2> QED
    BY <1>1, <1>2, <2>1, <2>2 DEF RevokeKnows, Created, StoreSteps
<1> QED
  BY <1>3, <1>4

\* Each step of a handler moves that handler only, and keeps every row but by deleting
\* the node.
LEMMA PanelStepMoves ==
    ASSUME RInv, NEW r \in Requests, PanelStep(r) PROVE HandlerMoves(r) /\ RowsGoOn(r)
<1>0. PInv
  BY DEF RInv
<1>1. ASSUME UNCHANGED <<nodeRow, peers>> PROVE RowsGoOn(r)
  BY <1>1 DEF RowsGoOn, WasRevoked, RowOf
<1>2. /\ \A code : Reply(r, code) => \A q \in Requests : q # r =>
             pc'[q] = pc[q] /\ snap'[q] = snap[q] /\ answer'[q] = answer[q]
      /\ \A step : Continue(r, step) => \A q \in Requests : q # r =>
             pc'[q] = pc[q] /\ snap'[q] = snap[q] /\ answer'[q] = answer[q]
  BY <1>0, PanelTypes DEF Reply, Continue, Goto
<1>3. /\ pc[r] \in {"node", "refresh_node"} => wire[r] = NoCall
      /\ \A c : CallAgent(r, c) /\ wire[r] = NoCall => \A q \in Requests :
             /\ wire[q] # NoCall => wire'[q] = wire[q]
             /\ q # r => pc'[q] = pc[q] /\ wire'[q] = wire[q] /\ answer'[q] = answer[q]
  BY <1>0, PanelTypes DEF PInv, HandlerInv, HandlerKnows, PreCall, CallAgent, Goto
<1>4. CASE GetPeer(r)
  <2>1. UNCHANGED <<nodeRow, peers>> /\ Elsewhere /\ job' = job /\ wire' = wire
    BY <1>4 DEF GetPeer, Elsewhere, stores
  <2>2. \A q \in Requests : q # r =>
           pc'[q] = pc[q] /\ snap'[q] = snap[q] /\ answer'[q] = answer[q]
    BY <1>0, <1>2, <1>4, PanelTypes DEF GetPeer, Goto
  <2> QED
    BY <1>1, <2>1, <2>2 DEF HandlerMoves
<1>5. CASE GetNode(r) \/ RefreshNode(r)
  <2>1. UNCHANGED <<nodeRow, peers>> /\ Elsewhere /\ job' = job
    BY <1>5 DEF GetNode, RefreshNode, Elsewhere, stores
  <2>2. \A q \in Requests : wire[q] # NoCall => wire'[q] = wire[q]
    BY <1>3, <1>5 DEF GetNode, RefreshNode
  <2>3. \A q \in Requests : q # r =>
           pc'[q] = pc[q] /\ wire'[q] = wire[q] /\ answer'[q] = answer[q]
    BY <1>2, <1>3, <1>5 DEF GetNode, RefreshNode
  <2>4. \A q \in Requests : q # r => snap'[q] = snap[q]
    BY <1>0, <1>2, <1>5, PanelTypes DEF GetNode, RefreshNode
  <2> QED
    BY <1>1, <2>1, <2>2, <2>3, <2>4 DEF HandlerMoves
<1>6. CASE \/ HearSuccess(r) \/ HearFailure(r) \/ StoreFails(r) \/ RefreshPeer(r)
           \/ CacheConfig(r) \/ UncacheConfig(r) \/ LookupConfig(r) \/ RefreshKey(r)
           \/ SaveKey(r)
  <2>1. UNCHANGED <<nodeRow, peers>> /\ Elsewhere /\ job' = job /\ wire' = wire
    BY <1>6 DEF HearSuccess, HearFailure, StoreFails, RefreshPeer, CacheConfig,
       UncacheConfig, LookupConfig, RefreshKey, SaveKey, Elsewhere, stores
  <2>2. (\E code : Reply(r, code)) \/ (\E step : Continue(r, step))
    BY <1>6 DEF HearSuccess, HearFailure, StoreFails, RefreshPeer, CacheConfig,
       UncacheConfig, LookupConfig, RefreshKey, SaveKey
  <2> QED
    BY <1>1, <1>2, <2>1, <2>2 DEF HandlerMoves
<1>7. CASE InsertPeer(r)
  <2>1. nodeRow' = nodeRow /\ Elsewhere /\ job' = job /\ wire' = wire
    BY <1>7 DEF InsertPeer, Elsewhere
  <2>2. (\E code : Reply(r, code)) \/ (\E step : Continue(r, step))
    BY <1>7 DEF InsertPeer
  <2>3. pc[r] = "insert" /\ peers[r] = NoRow
    BY <1>7 DEF InsertPeer, RInv, CreateKnows, RowOf, Ended
  <2>4. \/ peers' = peers
        \/ peers' = [peers EXCEPT ![r] = [key |-> body[r], revoked |-> Never]]
           /\ body[r] \in Keys
    BY <1>0, <1>7, <2>3, Types
    DEF InsertPeer, PInv, HandlerInv, HandlerKnows, AgentInv, Settled
  <2>5. [key |-> body[r], revoked |-> Never] # NoRow \/ peers' = peers
    BY <2>4, PanelAssumption
  <2>6. RowsGoOn(r)
    BY <1>0, <2>1, <2>3, <2>4, <2>5, PanelTypes
    DEF RowsGoOn, WasRevoked, RowOf, StoresTyped
  <2> QED
    BY <1>2, <2>1, <2>2, <2>6 DEF HandlerMoves
<1>8. CASE StampPeer(r)
  <2>1. nodeRow' = nodeRow /\ Elsewhere /\ job' = job /\ wire' = wire
    BY <1>8 DEF StampPeer, Elsewhere
  <2>2. (\E code : Reply(r, code)) \/ (\E step : Continue(r, step))
    BY <1>8 DEF StampPeer
  <2>3. \/ peers' = peers
        \/ peers[job[r].peer] # NoRow /\ peers' = [peers EXCEPT ![job[r].peer].revoked = r]
    BY <1>8 DEF StampPeer
  <2>4. job[r].peer \in Requests
    BY <1>8, BusyJobs DEF StampPeer, StoreSteps, RInv, PInv, HandlerInv, HandlerKnows
  <2>5. CASE peers' = peers
    BY <1>1, <1>2, <2>1, <2>2, <2>5 DEF HandlerMoves
  <2>6. CASE peers[job[r].peer] # NoRow /\ peers' = [peers EXCEPT ![job[r].peer].revoked = r]
    <3>1. peers[job[r].peer] \in Rows
      BY <1>0, <2>4, <2>6, PanelTypes DEF StoresTyped
    <3>2. /\ peers'[job[r].peer] = [peers[job[r].peer] EXCEPT !.revoked = r]
          /\ \A p \in Requests : p # job[r].peer => peers'[p] = peers[p]
      BY <1>0, <2>4, <2>6, PanelTypes DEF StoresTyped
    <3>3. peers'[job[r].peer] \in Rows /\ peers'[job[r].peer].revoked = r
      BY <3>1, <3>2 DEF Rows
    <3>4. peers'[job[r].peer] # NoRow /\ peers'[job[r].peer].revoked # Never
      BY <3>3, PanelAssumption DEF Rows
    <3>5. RowsGoOn(r)
      BY <2>1, <2>6, <3>2, <3>4 DEF RowsGoOn, WasRevoked, RowOf
    <3> QED
      BY <1>2, <2>1, <2>2, <3>5 DEF HandlerMoves
  <2> QED
    BY <2>3, <2>5, <2>6
<1>9. CASE InsertNode(r)
  <2>1. /\ peers' = peers /\ Elsewhere /\ job' = job /\ wire' = wire
        /\ Continue(r, "refresh_node") /\ nodeRow = "absent"
    BY <1>9 DEF InsertNode, Elsewhere, RInv, RegisteredOnce
  <2>2. RowsGoOn(r)
    BY <2>1 DEF RowsGoOn, WasRevoked, RowOf
  <2> QED
    BY <1>2, <2>1, <2>2 DEF HandlerMoves
<1>10. CASE DeleteNode(r)
  <2>1. /\ Elsewhere /\ job' = job /\ wire' = wire /\ Reply(r, 204)
        /\ nodeRow' = "deleted" /\ peers' = [p \in Requests |-> NoRow]
    BY <1>10 DEF DeleteNode, Elsewhere
  <2>2. RowsGoOn(r)
    BY <2>1 DEF RowsGoOn
  <2> QED
    BY <1>2, <2>1, <2>2 DEF HandlerMoves
<1> QED
  BY <1>4, <1>5, <1>6, <1>7, <1>8, <1>9, <1>10 DEF PanelStep

\* A handler that answers or goes on: its own program counter and answer.
LEMMA ReplySets ==
    ASSUME PInv, NEW r \in Requests, NEW code, Reply(r, code)
    PROVE  pc'[r] = "done" /\ answer'[r] = code
BY PanelTypes DEF Reply, Goto

LEMMA ContinueSets ==
    ASSUME PInv, NEW r \in Requests, NEW step, Continue(r, step)
    PROVE  pc'[r] = step /\ answer'[r] = answer[r] /\ snap'[r] = snap[r]
BY PanelTypes DEF Continue, Goto

LEMMA CallSets ==
    ASSUME PInv, NEW r \in Requests, NEW c, CallAgent(r, c)
    PROVE  pc'[r] = "agent" /\ answer'[r] = answer[r] /\ wire'[r] = c
BY PanelTypes DEF CallAgent, Goto

\* The step of a create keeps what it knows of itself.
LEMMA CreateGoesOn == ASSUME RInv, NEW r \in Requests, PanelStep(r) PROVE CreateKnows(r)'
<1>0. /\ PInv /\ CreateKnows(r) /\ job[r] \in JobType /\ answer[r] = 0
      /\ pc[r] \in StoreSteps \cup {"agent"}
      /\ pc[r] \in {"refresh", "cache"} \/ ~ RowOf(r)
  <2>1. pc[r] \in StoreSteps \cup {"agent"}
    BY DEF PanelStep, GetPeer, GetNode, HearSuccess, HearFailure, StoreFails, InsertPeer,
           RefreshPeer, CacheConfig, StampPeer, UncacheConfig, LookupConfig, InsertNode,
           RefreshNode, SaveKey, RefreshKey, DeleteNode, StoreSteps
  <2>2. pc[r] \notin Ended
    BY <2>1 DEF StoreSteps, Ended
  <2> QED
    BY <2>1, <2>2, BusyJobs DEF RInv, CreateKnows, Ended
<1>1. /\ HandlerMoves(r) /\ RowsGoOn(r) /\ job' = job /\ phase' = phase /\ call' = call
      /\ body' = body
  BY PanelStepMoves DEF HandlerMoves, Elsewhere, agentVars
<1>2. ASSUME wire' = wire, NEW code, pc'[r] = "done", answer'[r] = code,
             code # 201 \/ ~ IsCreate(r),
             IsCreate(r) /\ wire[r] # NoCall => code \in {500, 502}
      PROVE  CreateKnows(r)'
  BY <1>0, <1>1, <1>2 DEF CreateKnows, IsCreate, Created, RowOf, RowsGoOn, Ended
<1>3. ASSUME wire' = wire, answer'[r] = answer[r],
             pc'[r] \notin {"insert", "refresh", "cache", "done", "lost"},
             ~ IsCreate(r) \/ wire[r] = NoCall, pc[r] \notin {"refresh", "cache"},
             RowOf(r)' => RowOf(r)
      PROVE  CreateKnows(r)'
  BY <1>0, <1>1, <1>3 DEF CreateKnows, IsCreate, Created, RowsGoOn, Ended
<1>4. pc[r] \in PreCall => wire[r] = NoCall
  BY <1>0 DEF PInv, HandlerInv, HandlerKnows
<1>5. Created(r) => IsCreate(r) /\ wire[r] # NoCall
  BY CreateCalls DEF Created
<1>6. CASE GetPeer(r)
  <2>1. pc[r] = "peer" /\ wire' = wire /\ peers' = peers /\ wire[r] = NoCall
    BY <1>4, <1>6 DEF GetPeer, stores, PreCall
  <2>2. CASE Reply(r, 404)
    BY <1>0, <1>2, <2>1, <2>2, ReplySets
  <2>3. ASSUME Goto(r, IF job[r].kind = "revoke" THEN "node" ELSE "lookup"), UNCHANGED answer
        PROVE  CreateKnows(r)'
    <3>1. pc'[r] \in {"node", "lookup"}
      BY <1>0, <2>3, PanelTypes DEF Goto
    <3> QED
      BY <1>3, <2>1, <2>3, <3>1 DEF RowOf
  <2> QED
    BY <1>6, <2>2, <2>3 DEF GetPeer
<1>7. CASE GetNode(r) \/ RefreshNode(r)
  <2>1. /\ pc[r] \in {"node", "refresh_node"} /\ wire[r] = NoCall
        /\ peers' = peers /\ nodeRow' = nodeRow
    BY <1>4, <1>7 DEF GetNode, RefreshNode, stores, PreCall
  <2>2. ASSUME NEW code \in {404, 409, 500}, Reply(r, code), UNCHANGED wire
        PROVE  CreateKnows(r)'
    BY <1>0, <1>2, <2>1, <2>2, ReplySets
  <2>3. ASSUME Continue(r, "delete_node"), UNCHANGED wire PROVE CreateKnows(r)'
    BY <1>0, <1>3, <2>1, <2>3, ContinueSets DEF RowOf
  <2>4. ASSUME NEW c, CallAgent(r, c), c.op = "create" <=> IsCreate(r)
        PROVE  CreateKnows(r)'
    <3>1. pc'[r] = "agent" /\ answer'[r] = answer[r] /\ wire'[r] = c
      BY <1>0, <2>4, CallSets
    <3> QED
      BY <1>0, <1>1, <2>1, <2>4, <3>1 DEF CreateKnows, IsCreate, RowOf
  <2>5. pc[r] = "refresh_node" => job[r].kind = "add_node"
    BY <1>0 DEF PInv, HandlerInv, HandlerKnows
  <2> QED
    BY <1>0, <1>7, <2>2, <2>3, <2>4, <2>5, BusyJobs DEF GetNode, RefreshNode, IsCreate
<1>8. CASE HearSuccess(r)
  <2>1. /\ pc[r] = "agent" /\ phase[r] = "ok" /\ wire' = wire /\ peers' = peers
        /\ pc'[r] = AfterCall(job[r].kind) /\ answer'[r] = answer[r]
    BY <1>0, <1>8, ContinueSets DEF HearSuccess, stores
  <2>2. CASE job[r].kind = "create"
    <3>1. Created(r) /\ IsCreate(r) /\ pc'[r] = "insert"
      <4>1. IsCreate(r)
        BY <2>1, <2>2, BusyJobs DEF IsCreate
      <4>2. call[r] = wire[r] /\ wire[r] # NoCall
        BY <1>0, <2>1 DEF PInv, AgentInv
      <4> QED
        BY <1>0, <2>1, <2>2, <4>1, <4>2 DEF CreateKnows, Created, AfterCall
    <3> QED
      BY <1>0, <1>1, <2>1, <3>1 DEF CreateKnows, IsCreate, Created, RowOf
  <2>3. CASE job[r].kind # "create"
    BY <1>3, <2>1, <2>3 DEF AfterCall, IsCreate, RowOf
  <2> QED
    BY <2>2, <2>3
<1>9. CASE HearFailure(r) \/ StoreFails(r)
  <2>1. wire' = wire
    BY <1>9 DEF HearFailure, StoreFails
  <2>2. PICK code \in {201, 500, 502} :
           Reply(r, code) /\ (code = 201 => job[r].kind = "add_node")
    BY <1>9 DEF HearFailure, StoreFails
  <2> QED
    BY <1>0, <1>2, <2>1, <2>2, ReplySets DEF IsCreate
<1>10. CASE InsertPeer(r)
  <2>1. pc[r] = "insert" /\ wire' = wire /\ nodeRow' = nodeRow /\ Created(r)
    BY <1>0, <1>10 DEF InsertPeer, CreateKnows
  <2>2. CASE Reply(r, 500)
    BY <1>0, <1>2, <2>1, <2>2, ReplySets
  <2>3. ASSUME peers' = [peers EXCEPT ![r] = [key |-> body[r], revoked |-> Never]],
               Continue(r, "refresh")
        PROVE  CreateKnows(r)'
    <3>1. peers'[r] # NoRow
      <4>1. body[r] \in Keys
        BY <1>0, <2>1, Types DEF PInv, AgentInv, Settled
      <4> QED
        BY <1>0, <2>3, <4>1, PanelTypes, PanelAssumption DEF StoresTyped
    <3>2. pc'[r] = "refresh" /\ answer'[r] = answer[r]
      BY <1>0, <2>3, ContinueSets
    <3> QED
      BY <1>0, <1>1, <1>5, <2>1, <3>1, <3>2 DEF CreateKnows, IsCreate, Created, RowOf
  <2> QED
    BY <1>10, <2>2, <2>3 DEF InsertPeer
<1>11. CASE RefreshPeer(r)
  <2>1. pc[r] = "refresh" /\ wire' = wire /\ nodeRow' = nodeRow /\ peers' = peers /\ Created(r)
    BY <1>0, <1>11 DEF RefreshPeer, CreateKnows, stores
  <2>2. CASE Reply(r, 500)
    BY <1>0, <1>2, <2>1, <2>2, ReplySets
  <2>3. CASE Continue(r, "cache")
    <3>1. pc'[r] = "cache" /\ answer'[r] = answer[r]
      BY <1>0, <2>3, ContinueSets
    <3> QED
      BY <1>0, <1>1, <2>1, <3>1 DEF CreateKnows, IsCreate, Created, RowOf
  <2> QED
    BY <1>11, <2>2, <2>3 DEF RefreshPeer
<1>12. CASE CacheConfig(r)
  <2>1. /\ pc[r] = "cache" /\ wire' = wire /\ nodeRow' = nodeRow /\ peers' = peers
        /\ Created(r) /\ pc'[r] = "done" /\ answer'[r] = 201
    BY <1>0, <1>12, ReplySets DEF CacheConfig, CreateKnows
  <2> QED
    BY <1>0, <1>1, <1>5, <2>1 DEF CreateKnows, IsCreate, Created, RowOf, Ended
<1>13. CASE StampPeer(r)
  <2>1. pc[r] = "stamp" /\ wire' = wire
    BY <1>13 DEF StampPeer
  <2>2. job[r].kind = "revoke" /\ ~ IsCreate(r)
    BY <1>0, <2>1 DEF PInv, HandlerInv, HandlerKnows, IsCreate
  <2>3. CASE Reply(r, 500)
    BY <1>0, <1>2, <2>1, <2>2, <2>3, ReplySets
  <2>4. CASE Continue(r, "uncache")
    <3>1. pc'[r] = "uncache" /\ answer'[r] = answer[r]
      BY <1>0, <2>4, ContinueSets
    <3>2. ~ RowOf(r)
      BY <1>0, <2>1 DEF CreateKnows
    <3>3. RowOf(r)' => RowOf(r)
      BY <1>13, <3>2, <1>0, PanelTypes DEF StampPeer, RowOf, StoresTyped
    <3> QED
      BY <1>3, <2>1, <2>2, <3>1, <3>3
  <2> QED
    BY <1>13, <2>3, <2>4 DEF StampPeer
<1>14. CASE \/ UncacheConfig(r) \/ LookupConfig(r) \/ InsertNode(r) \/ SaveKey(r)
            \/ RefreshKey(r) \/ DeleteNode(r)
  <2>1. wire' = wire
    BY <1>14 DEF UncacheConfig, LookupConfig, InsertNode, SaveKey, RefreshKey, DeleteNode
  <2>2. pc[r] \in {"uncache", "lookup", "insert_node", "save_key", "refresh_key", "delete_node"}
    BY <1>14 DEF UncacheConfig, LookupConfig, InsertNode, SaveKey, RefreshKey, DeleteNode
  <2>3. wire[r] = NoCall \/ ~ IsCreate(r)
    BY <1>0, <2>2 DEF CreateKnows
  <2>4. (\E code : Reply(r, code) /\ (code = 201 => job[r].kind = "add_node"))
        \/ \E step \in {"refresh_node", "refresh_key"} : Continue(r, step)
    BY <1>14 DEF UncacheConfig, LookupConfig, InsertNode, SaveKey, RefreshKey, DeleteNode
  <2>5. ASSUME NEW code, Reply(r, code), code = 201 => job[r].kind = "add_node"
        PROVE  CreateKnows(r)'
    BY <1>0, <1>2, <2>1, <2>3, <2>5, ReplySets DEF IsCreate
  <2>6. ASSUME NEW step \in {"refresh_node", "refresh_key"}, Continue(r, step)
        PROVE  CreateKnows(r)'
    <3>1. pc'[r] = step /\ answer'[r] = answer[r]
      BY <1>0, <2>6, ContinueSets
    <3>2. peers' = peers
      BY <1>14, <2>6, <3>1, ReplySets, <1>0
      DEF UncacheConfig, LookupConfig, InsertNode, SaveKey, RefreshKey, DeleteNode, stores
    <3> QED
      BY <1>3, <2>1, <2>2, <2>3, <3>1, <3>2 DEF RowOf
  <2> QED
    BY <2>4, <2>5, <2>6
<1> QED
  BY <1>6, <1>7, <1>8, <1>9, <1>10, <1>11, <1>12, <1>13, <1>14 DEF PanelStep

\* The step of a revoke keeps what it knows of itself.
LEMMA RevokeGoesOn == ASSUME RInv, NEW r \in Requests, PanelStep(r) PROVE RevokeKnows(r)'
<1>0. PInv /\ RevokeKnows(r) /\ HandlerKnows(r)
  BY DEF RInv, PInv, HandlerInv
<1>1. /\ RowsGoOn(r) /\ job' = job /\ live' = live /\ phase' = phase /\ call' = call
      /\ body' = body
  BY PanelStepMoves DEF HandlerMoves, Elsewhere, agentVars
<1>2. ASSUME pc'[r] \notin {"node", "agent", "stamp", "uncache"} PROVE RevokeKnows(r)'
  BY <1>2 DEF RevokeKnows
<1>3. ASSUME NEW code, Reply(r, code) PROVE RevokeKnows(r)'
  BY <1>0, <1>2, <1>3, ReplySets
<1>5. CASE GetPeer(r)
  <2>1. pc[r] = "peer" /\ UNCHANGED <<nodeRow, peers>>
    BY <1>5 DEF GetPeer, stores
  <2>2. job[r].peer \in Requests
    BY <1>0, <2>1, BusyJobs DEF HandlerKnows, StoreSteps
  <2>3. ASSUME peers[job[r].peer] # NoRow, snap' = [snap EXCEPT ![r] = peers[job[r].peer]],
               Goto(r, IF job[r].kind = "revoke" THEN "node" ELSE "lookup")
        PROVE  RevokeKnows(r)'
    <3>1. pc'[r] \in {"node", "lookup"} /\ snap'[r] = peers[job[r].peer]
      BY <1>0, <2>3, PanelTypes DEF Goto
    <3> QED
      BY <1>1, <2>1, <2>3, <3>1 DEF RevokeKnows, WasRevoked, RowOf
  <2> QED
    BY <1>3, <1>5, <2>3 DEF GetPeer
<1>6. CASE GetNode(r)
  <2>1. pc[r] = "node" /\ UNCHANGED <<nodeRow, peers>>
    BY <1>6 DEF GetNode, stores
  <2>2. ASSUME NEW c, CallAgent(r, c), job[r].kind # "revoke" \/ snap' = snap
        PROVE  RevokeKnows(r)'
    <3>1. pc'[r] = "agent"
      BY <1>0, <2>2, CallSets
    <3> QED
      BY <1>0, <1>1, <2>1, <2>2, <3>1 DEF RevokeKnows, WasRevoked, RowOf
  <2>3. ASSUME Continue(r, "delete_node") PROVE RevokeKnows(r)'
    BY <1>0, <1>2, <2>3, ContinueSets
  <2> QED
    BY <1>3, <1>6, <2>2, <2>3 DEF GetNode
<1>7. CASE RefreshNode(r)
  <2>1. job[r].kind = "add_node"
    BY <1>0, <1>7 DEF RefreshNode, HandlerKnows
  <2>2. ASSUME NEW c, CallAgent(r, c) PROVE RevokeKnows(r)'
    <3>1. pc'[r] = "agent"
      BY <1>0, <2>2, CallSets
    <3> QED
      BY <1>1, <2>1, <3>1 DEF RevokeKnows
  <2> QED
    BY <1>3, <1>7, <2>2 DEF RefreshNode
<1>8. CASE HearSuccess(r)
  <2>1. /\ pc[r] = "agent" /\ UNCHANGED <<nodeRow, peers>>
        /\ pc'[r] = AfterCall(job[r].kind) /\ snap'[r] = snap[r]
    BY <1>0, <1>8, ContinueSets DEF HearSuccess, stores
  <2>2. AfterCall(job[r].kind) \in {"insert", "stamp", "save_key"}
    BY DEF AfterCall
  <2> QED
    BY <1>0, <1>1, <2>1, <2>2 DEF RevokeKnows, WasRevoked, RowOf
<1>9. CASE StampPeer(r)
  <2>1. /\ pc[r] = "stamp" /\ job[r].kind = "revoke" /\ live[snap[r].key] = Absent
        /\ Created(job[r].peer) /\ snap[r].key = body[job[r].peer] /\ nodeRow' = nodeRow
    BY <1>0, <1>9 DEF StampPeer, HandlerKnows
  <2>2. job[r].peer \in Requests
    BY <2>1, BusyJobs DEF StoreSteps
  <2>3. ASSUME Continue(r, "uncache"), WasRevoked(job[r].peer)' PROVE RevokeKnows(r)'
    <3>1. pc'[r] = "uncache" /\ snap'[r] = snap[r]
      BY <1>0, <2>3, ContinueSets
    <3> QED
      BY <1>1, <2>1, <2>3, <3>1 DEF RevokeKnows, Created
  <2>4. snap[r].revoked # Never => WasRevoked(job[r].peer)'
    BY <1>0, <1>1, <2>1, <2>2 DEF RevokeKnows, RowsGoOn, WasRevoked, RowOf
  <2>5. ASSUME peers[job[r].peer] # NoRow, peers' = [peers EXCEPT ![job[r].peer].revoked = r]
        PROVE  WasRevoked(job[r].peer)'
    <3>1. peers[job[r].peer] \in Rows
      BY <1>0, <2>2, <2>5, PanelTypes DEF StoresTyped
    <3>2. peers'[job[r].peer] = [peers[job[r].peer] EXCEPT !.revoked = r]
      BY <1>0, <2>2, <2>5, PanelTypes DEF StoresTyped
    <3>3. peers'[job[r].peer] \in Rows /\ peers'[job[r].peer].revoked = r
      BY <3>1, <3>2 DEF Rows
    <3> QED
      BY <1>1, <3>3, PanelAssumption DEF Rows, WasRevoked, RowOf
  <2> QED
    BY <1>3, <1>9, <2>3, <2>4, <2>5 DEF StampPeer
<1>10. CASE \/ HearFailure(r) \/ StoreFails(r) \/ RefreshPeer(r) \/ CacheConfig(r)
            \/ UncacheConfig(r) \/ LookupConfig(r) \/ RefreshKey(r) \/ SaveKey(r)
            \/ InsertPeer(r) \/ InsertNode(r) \/ DeleteNode(r)
  <2>1. \/ \E code : Reply(r, code)
        \/ \E step \in {"refresh", "cache", "refresh_node", "refresh_key"} : Continue(r, step)
    BY <1>10 DEF HearFailure, StoreFails, RefreshPeer, CacheConfig, UncacheConfig,
       LookupConfig, RefreshKey, SaveKey, InsertPeer, InsertNode, DeleteNode
  <2>2. ASSUME NEW step \in {"refresh", "cache", "refresh_node", "refresh_key"},
               Continue(r, step)
        PROVE  RevokeKnows(r)'
    BY <1>0, <1>2, <2>2, ContinueSets
  <2> QED
    BY <1>3, <2>1, <2>2
<1> QED
  BY <1>5, <1>6, <1>7, <1>8, <1>9, <1>10 DEF PanelStep

\* The node is registered once, whatever the handler.
LEMMA RegistrationGoesOn ==
    ASSUME RInv, NEW r \in Requests, PanelStep(r)
    PROVE  RegisteredOnce'
<1>0. PInv /\ RegisteredOnce
  BY DEF RInv
<1>1. job' = job /\ \A q \in Requests : q # r => pc'[q] = pc[q]
  BY PanelStepMoves DEF HandlerMoves
<1>2. ASSUME nodeRow' = nodeRow,
             pc'[r] # "insert_node",
             pc'[r] = "delete_node" => nodeRow # "absent" /\ job[r].kind = "delete_node"
      PROVE  RegisteredOnce'
  BY <1>0, <1>1, <1>2 DEF RegisteredOnce
<1>3. ASSUME NEW code, Reply(r, code), nodeRow' = nodeRow PROVE RegisteredOnce'
  BY <1>0, <1>2, <1>3, ReplySets
<1>4. ASSUME NEW step \in StoreSteps \ {"insert_node", "delete_node"}, Continue(r, step),
             nodeRow' = nodeRow
      PROVE  RegisteredOnce'
  BY <1>0, <1>2, <1>4, ContinueSets
<1>5. ASSUME NEW c, CallAgent(r, c), nodeRow' = nodeRow PROVE RegisteredOnce'
  BY <1>0, <1>2, <1>5, CallSets
<1>6. CASE GetPeer(r)
  <2>1. ASSUME Goto(r, IF job[r].kind = "revoke" THEN "node" ELSE "lookup")
        PROVE  pc'[r] \in {"node", "lookup"}
    BY <1>0, <2>1, PanelTypes DEF Goto
  <2> QED
    BY <1>2, <1>3, <1>6, <2>1 DEF GetPeer, stores
<1>7. CASE GetNode(r)
  <2>1. nodeRow' = nodeRow
    BY <1>7 DEF GetNode, stores
  <2>2. ASSUME Continue(r, "delete_node"), nodeRow = "present", job[r].kind = "delete_node"
        PROVE  RegisteredOnce'
    BY <1>0, <1>2, <2>1, <2>2, ContinueSets
  <2> QED
    BY <1>3, <1>5, <1>7, <2>1, <2>2 DEF GetNode
<1>8. CASE InsertNode(r)
  <2>1. /\ nodeRow' = "present" /\ pc'[r] = "refresh_node"
        /\ nodeRow = "absent" /\ job[r].kind = "add_node"
    BY <1>0, <1>8, ContinueSets
    DEF InsertNode, PInv, HandlerInv, HandlerKnows, RegisteredOnce
  <2>2. ASSUME NEW q \in Requests, q # r PROVE pc[q] # "insert_node"
    <3>1. SUFFICES ASSUME pc[q] = "insert_node" PROVE FALSE
      OBVIOUS
    <3>2. job[q].kind = "add_node" /\ job[q] # NoJob
      BY <1>0, <3>1, BusyJobs DEF PInv, HandlerInv, HandlerKnows, StoreSteps
    <3>3. job[r] # NoJob
      BY <1>8, BusyJobs DEF InsertNode, StoreSteps
    <3> QED
      BY <1>0, <2>1, <2>2, <3>2, <3>3 DEF RegisteredOnce
  <2> QED
    BY <1>0, <1>1, <2>1, <2>2 DEF RegisteredOnce
<1>9. CASE DeleteNode(r)
  <2>1. nodeRow' = "deleted" /\ pc'[r] = "done" /\ nodeRow # "absent"
    BY <1>0, <1>9, ReplySets DEF DeleteNode, RegisteredOnce
  <2> QED
    BY <1>0, <1>1, <2>1 DEF RegisteredOnce
<1>10. CASE \/ HearSuccess(r) \/ HearFailure(r) \/ StoreFails(r) \/ RefreshPeer(r)
            \/ CacheConfig(r) \/ UncacheConfig(r) \/ LookupConfig(r) \/ RefreshKey(r)
            \/ SaveKey(r) \/ InsertPeer(r) \/ StampPeer(r) \/ RefreshNode(r)
  <2>1. nodeRow' = nodeRow
    BY <1>10 DEF HearSuccess, HearFailure, StoreFails, RefreshPeer, CacheConfig,
       UncacheConfig, LookupConfig, RefreshKey, SaveKey, InsertPeer, StampPeer,
       RefreshNode, stores
  <2>2. \/ \E code : Reply(r, code)
        \/ \E c : CallAgent(r, c)
        \/ \E step \in StoreSteps \ {"insert_node", "delete_node"} : Continue(r, step)
    BY <1>10 DEF HearSuccess, HearFailure, StoreFails, RefreshPeer, CacheConfig,
       UncacheConfig, LookupConfig, RefreshKey, SaveKey, InsertPeer, StampPeer,
       RefreshNode, AfterCall, StoreSteps
  <2> QED
    BY <1>3, <1>4, <1>5, <2>1, <2>2
<1> QED
  BY <1>6, <1>7, <1>8, <1>9, <1>10 DEF PanelStep

\* No row is left, or added, where the node is gone.
LEMMA PanelKeepsRowsGone ==
    ASSUME RInv, NEW r \in Requests, PanelStep(r)
    PROVE  RowsGoneWithNode'
<1>1. RowsGoneWithNode /\ HandlerMoves(r) /\ RowsGoOn(r)
  BY PanelStepMoves DEF RInv
<1>2. ASSUME nodeRow' = "deleted", NEW p \in Requests, peers'[p] # NoRow PROVE FALSE
  <2>1. CASE UNCHANGED <<nodeRow, peers>>
    BY <1>1, <1>2, <2>1 DEF RowsGoneWithNode
  <2>2. CASE InsertPeer(r)
    BY <1>1, <1>2, <2>2 DEF InsertPeer, RowsGoneWithNode
  <2>3. CASE StampPeer(r)
    <3>1. nodeRow = "deleted" /\ \A q \in Requests : peers[q] = NoRow
      BY <1>1, <1>2, <2>3 DEF StampPeer, RowsGoneWithNode
    <3>2. job[r].peer \in Requests
      BY <2>3, BusyJobs DEF StampPeer, StoreSteps, RInv, PInv, HandlerInv, HandlerKnows
    <3> QED
      BY <1>2, <2>3, <3>1, <3>2 DEF StampPeer
  <2>4. CASE InsertNode(r) \/ DeleteNode(r)
    BY <1>2, <2>4 DEF InsertNode, DeleteNode
  <2> QED
    BY <2>1, <2>2, <2>3, <2>4
    DEF PanelStep, GetPeer, GetNode, HearSuccess, HearFailure, StoreFails, RefreshPeer,
        CacheConfig, UncacheConfig, LookupConfig, RefreshNode, SaveKey, RefreshKey, stores
<1> QED
  BY <1>2 DEF RowsGoneWithNode

\* Steps of the panel's handlers keep the invariant.
LEMMA PanelKeepsRInv == ASSUME RInv, NEW r \in Requests, PanelStep(r) PROVE RInv'
<1>1. PInv'
  BY PInvStep DEF RInv, Next
<1>2. \A q \in Requests : CreateKnows(q)' /\ RevokeKnows(q)'
  BY PanelStepMoves, OthersGoOn, CreateGoesOn, RevokeGoesOn
<1> QED
  BY <1>1, <1>2, PanelStepMoves, PanelKeepsBrought, PanelKeepsRowsGone,
     RegistrationGoesOn
  DEF RInv

\* A request that arrives is no create's, revoke's or registration's second.
LEMMA ArriveKeepsRInv == ASSUME RInv, NEW r \in Requests, Arrive(r) PROVE RInv'
<1>0. PInv /\ pc[r] = "waiting" /\ CreateKnows(r) /\ RegisteredOnce
  BY DEF RInv, Arrive
<1>1. PInv'
  BY PInvStep DEF RInv, Next
<1>2. Elsewhere /\ UNCHANGED <<stores, snap, wire, answer>>
  BY DEF Arrive, Elsewhere
<1>3. PICK j \in Jobs : /\ job' = [job EXCEPT ![r] = j] /\ Goto(r, FirstStep(j.kind))
                        /\ j.kind = "add_node" =>
                               nodeRow = "absent" /\ \A q \in Requests : job[q] # j
  BY DEF Arrive
<1>4. j \in JobType /\ j # NoJob
  BY JobAssumption
<1>5. /\ pc'[r] = FirstStep(j.kind) /\ job'[r] = j
      /\ \A q \in Requests : q # r => pc'[q] = pc[q] /\ job'[q] = job[q]
  BY <1>0, <1>3, PanelTypes DEF Goto
<1>6. /\ FirstStep(j.kind) \in {"peer", "insert_node", "node"}
      /\ FirstStep(j.kind) = "insert_node" <=> j.kind = "add_node"
      /\ FirstStep(j.kind) = "node" => j.kind # "revoke"
  BY <1>4 DEF FirstStep, JobType
<1>7. wire[r] = NoCall /\ ~ RowOf(r) /\ answer[r] = 0 /\ ~ Created(r)
  <2>1. wire[r] = NoCall
    BY <1>0 DEF PInv, HandlerInv, HandlerKnows, PreCall
  <2>2. ~ RowOf(r) /\ answer[r] = 0
    BY <1>0 DEF CreateKnows, Ended
  <2> QED
    BY <1>0, <2>1, <2>2 DEF PInv, AgentInv, Created
<1>8. CreateKnows(r)' /\ RevokeKnows(r)'
  BY <1>2, <1>5, <1>6, <1>7
  DEF CreateKnows, RevokeKnows, IsCreate, Created, RowOf, stores
<1>9. ASSUME NEW q \in Requests, q # r PROVE CreateKnows(q)' /\ RevokeKnows(q)'
  BY <1>2, <1>5, <1>9
  DEF RInv, CreateKnows, RevokeKnows, IsCreate, Created, RowOf, WasRevoked, stores,
      Elsewhere, agentVars
<1>10. RegisteredOnce'
  <2>1. ASSUME NEW q \in Requests, job[q] # NoJob, job[q].kind = "add_node"
        PROVE  j.kind # "add_node"
    <3>1. job[q] \in JobType
      BY <1>0, <2>1, PanelTypes, JobAssumption
    <3> QED
      BY <1>3, <1>4, <2>1, <3>1 DEF JobType
  <2> QED
    BY <1>0, <1>2, <1>3, <1>5, <1>6, <2>1 DEF RegisteredOnce, stores
<1>11. BroughtByCreates'
  <2>1. ASSUME NEW k \in Keys, NEW q \in Requests, Brought(q, k) PROVE Brought(q, k)'
    BY <1>2, <1>5, <1>7, <2>1 DEF Brought, IsCreate, Elsewhere, agentVars
  <2> QED
    BY <1>2, <2>1 DEF RInv, BroughtByCreates, Elsewhere, agentVars
<1>12. RowsGoneWithNode'
  BY <1>2 DEF RInv, RowsGoneWithNode, stores
<1> QED
  BY <1>1, <1>8, <1>9, <1>10, <1>11, <1>12 DEF RInv

\* A crash ends the handlers, and takes none of what they did.
LEMMA CrashKeepsRInv == ASSUME RInv, PanelCrash PROVE RInv'
<1>1. PInv'
  BY PInvStep DEF RInv, Next
<1>2. /\ Elsewhere /\ UNCHANGED <<stores, job, wire, answer>>
      /\ \A r \in Requests : /\ pc'[r] = "lost" \/ (pc'[r] = pc[r] /\ snap'[r] = snap[r])
                             /\ pc[r] \in Ended \cup {"waiting"} => pc'[r] = pc[r]
                             /\ pc[r] \notin Ended \cup {"waiting"} => pc'[r] = "lost"
  BY DEF PanelCrash, Elsewhere
<1>3. ASSUME NEW r \in Requests PROVE CreateKnows(r)' /\ RevokeKnows(r)'
  BY <1>2
  DEF RInv, CreateKnows, RevokeKnows, IsCreate, Created, RowOf, WasRevoked, stores,
      Elsewhere, agentVars, Ended
<1>4. RegisteredOnce' /\ RowsGoneWithNode' /\ BroughtByCreates'
  BY <1>2
  DEF RInv, RegisteredOnce, RowsGoneWithNode, BroughtByCreates, Brought, IsCreate,
      stores, Elsewhere, agentVars
<1> QED
  BY <1>1, <1>3, <1>4 DEF RInv

\* Every step keeps the invariant.
LEMMA RInvStep == RInv /\ [Next]_vars => RInv'
<1> SUFFICES ASSUME RInv, [Next]_vars PROVE RInv'
  OBVIOUS
<1>1. ASSUME NEW r \in Requests, Arrive(r) \/ PanelStep(r) PROVE RInv'
  BY <1>1, ArriveKeepsRInv, PanelKeepsRInv
<1>2. CASE AgentStep
  BY <1>2, AgentKeepsRInv
<1>3. CASE PanelCrash
  BY <1>3, CrashKeepsRInv
<1>4. CASE Expire \/ UNCHANGED vars
  <2>1. Elsewhere /\ UNCHANGED <<nodeRow, peers, handlers>>
    BY <1>4 DEF Expire, vars, stores, Elsewhere
  <2>2. PInv'
    BY PInvStep DEF RInv
  <2>3. ASSUME NEW r \in Requests PROVE CreateKnows(r)' /\ RevokeKnows(r)'
    BY <2>1 DEF RInv, CreateKnows, RevokeKnows, IsCreate, Created, RowOf, WasRevoked,
       handlers, Elsewhere, agentVars
  <2>4. RegisteredOnce' /\ RowsGoneWithNode' /\ BroughtByCreates'
    BY <2>1
    DEF RInv, RegisteredOnce, RowsGoneWithNode, BroughtByCreates, Brought, IsCreate,
       handlers, Elsewhere, agentVars
  <2> QED
    BY <2>2, <2>3, <2>4 DEF RInv
<1> QED
  BY <1>1, <1>2, <1>3, <1>4 DEF Next
----------------------------------------------------------------------------
\* The invariant holds in every reachable state.
LEMMA RInvAlways == Spec => []RInv
BY RInvInit, RInvStep, PTL DEF Spec

\* The row a create has left, and the access its key has.
LEMMA RowOfCreate ==
    ASSUME RInv, NEW r \in Requests, IsCreate(r), answer[r] = 201, nodeRow # "deleted",
           live[body[r]] # Absent
    PROVE  RowOf(r) /\ peers[r].key = body[r] /\ peers[r].revoked = Never
BY DEF RInv, CreateKnows, PInv, RowInv

\* A configuration that was handed out and still gives access has its unrevoked row,
\* whatever was lost, delayed or restarted in between, and however many creates and
\* revokes run together.
THEOREM HandedOutKeepsRow == Spec => []HandedOutHasRow
<1>1. RInv => HandedOutHasRow
  BY RowOfCreate DEF HandedOutHasRow, IsCreate
<1> QED
  BY <1>1, RInvAlways, PTL

\* A key with access and no row to revoke it by was generated for a create that itself
\* failed, was lost or is unfinished: no other handler leaves one behind.
THEOREM OrphansAreFailedCreates == Spec => []OrphansComeFromFailedCreates
<1>1. ASSUME RInv PROVE OrphansComeFromFailedCreates
  <2> SUFFICES ASSUME nodeRow = "present", NEW k \in Keys, live[k] # Absent
               PROVE  \/ \E p \in Requests :
                            RowOf(p) /\ peers[p].key = k /\ peers[p].revoked = Never
                      \/ \E r \in Requests :
                            /\ k \in given[r]
                            /\ job[r] # NoJob /\ job[r].kind = "create" /\ Unsettled(r)
    BY DEF OrphansComeFromFailedCreates
  <2>1. PICK r \in Requests : Brought(r, k)
    BY <1>1 DEF RInv, BroughtByCreates
  <2>2. IsCreate(r) /\ CreateKnows(r) /\ wire[r] # NoCall
    BY <1>1, <2>1 DEF RInv, Brought
  <2>3. CASE answer[r] = 201
    <3>1. phase[r] = "ok"
      BY <2>2, <2>3 DEF CreateKnows, Created
    <3>2. body[r] = k
      BY <2>1, <3>1 DEF Brought
    <3> QED
      BY <1>1, <2>2, <2>3, <3>2, RowOfCreate
  <2>4. CASE answer[r] # 201
    BY <2>1, <2>2, <2>4 DEF CreateKnows, Unsettled, IsCreate, Brought
  <2> QED
    BY <2>3, <2>4
<1> QED
  BY <1>1, RInvAlways, PTL

\* A revoke that is answered 204 has done all of it.
THEOREM RevokedMeansGone == Spec => RevokeMeansGone
<1>1. ASSUME RInv, [Next]_vars PROVE RevokeAnswered
  <2> SUFFICES ASSUME NEW r \in Requests, pc[r] # "done", pc'[r] = "done",
                      job[r].kind = "revoke", answer'[r] = 204
               PROVE  /\ live'[snap[r].key] = Absent
                      /\ \/ peers'[job[r].peer] = NoRow
                         \/ peers'[job[r].peer].revoked # Never
                      /\ pc[job[r].peer] \in Ended => job[r].peer \notin cache'
    BY DEF RevokeAnswered
  <2>0. PInv
    BY <1>1 DEF RInv
  <2>1. answer[r] = 0
    BY <1>1 DEF RInv, CreateKnows
  <2>2. PICK q \in Requests : PanelStep(q)
    BY <1>1, <2>0, <2>1, PanelTypes
    DEF Next, Arrive, AgentStep, PanelCrash, Expire, vars, stores, handlers
  <2>3. q = r
    BY <1>1, <2>2, PanelStepMoves DEF HandlerMoves
  <2>4. UncacheConfig(r)
    <3>1. \A code : Reply(r, code) => code = 204
      BY <2>0, ReplySets
    <3>2. \A step : ~ Continue(r, step) /\ \A c : ~ CallAgent(r, c)
      BY <2>0, <2>1, ContinueSets, CallSets
    <3>3. ~ (GetPeer(r) \/ GetNode(r) \/ HearSuccess(r) \/ HearFailure(r) \/ StoreFails(r)
             \/ InsertPeer(r) \/ RefreshPeer(r) \/ CacheConfig(r) \/ StampPeer(r)
             \/ LookupConfig(r) \/ InsertNode(r) \/ RefreshNode(r) \/ SaveKey(r)
             \/ RefreshKey(r))
      BY <2>1, <3>1, <3>2
      DEF GetPeer, GetNode, HearSuccess, HearFailure, StoreFails, InsertPeer, RefreshPeer,
          CacheConfig, StampPeer, LookupConfig, InsertNode, RefreshNode, SaveKey, RefreshKey
    <3>4. ~ DeleteNode(r)
      BY <1>1 DEF DeleteNode, RInv, RegisteredOnce
    <3> QED
      BY <2>2, <2>3, <3>3, <3>4 DEF PanelStep
  <2>5. /\ pc[r] = "uncache" /\ cache' = cache \ {job[r].peer}
        /\ UNCHANGED <<live, nodeRow, peers>>
    BY <2>4 DEF UncacheConfig, agentVars
  <2>6. live[snap[r].key] = Absent /\ WasRevoked(job[r].peer)
    BY <1>1, <2>5 DEF RInv, RevokeKnows
  <2>7. job[r].peer \in Requests
    BY <1>1, <2>5, BusyJobs DEF StoreSteps
  <2> QED
    BY <1>1, <2>5, <2>6, <2>7 DEF RInv, RowsGoneWithNode, WasRevoked, RowOf
<1> QED
  BY <1>1, RInvAlways, PTL DEF Spec, RevokeMeansGone
----------------------------------------------------------------------------
(***************************************************************************)
(* The panel implements PeerLife, for every choice of the constants: each  *)
(* step of a handler, of the agent or of the network is one step of a      *)
(* peer's life, or none.                                                   *)
(***************************************************************************)


\* What the mapping needs beyond RInv: a key with access is not fresh, a call that is
\* over holds no key, and two creates never brought one key.
AccessUsed == \A k \in Keys : live[k] # Absent => ~ Fresh(k)

MadePending == \A r \in Requests : phase[r] \notin {"sent", "applied"} => made[r] = NoKey

DistinctBodies ==
    \A p, q \in Requests : p # q /\ Created(p) /\ Created(q) => body[p] # body[q]

LInv == RInv /\ AccessUsed /\ MadePending /\ DistinctBodies

\* The invariant holds initially.
LEMMA LInvInit == Init => LInv
<1> SUFFICES ASSUME Init PROVE LInv
  OBVIOUS
<1>1. /\ live = Agent!NoPeers /\ phase = [r \in Requests |-> "unsent"]
      /\ made = [r \in Requests |-> NoKey]
  BY DEF Init, Agent!ContractInit
<1> QED
  BY <1>1, RInvInit
  DEF LInv, AccessUsed, MadePending, DistinctBodies, Created, Agent!NoPeers
----------------------------------------------------------------------------
(* Access.                                                                 *)

\* No key gains anything.
Losing ==
    \A k \in Keys : /\ live'[k] # Absent => live[k] # Absent
                    /\ Fresh(k)' => Fresh(k)

\* One fresh key is given access, and nothing happens to the others.
Giving(k) ==
    /\ Fresh(k) /\ ~ Fresh(k)' /\ live'[k] # Absent
    /\ \A j \in Keys \ {k} : /\ live'[j] = Absent <=> live[j] = Absent
                             /\ Fresh(j)' <=> Fresh(j)

\* A step that only takes keys out of the hands of calls.
LEMMA HandsEmptied ==
    ASSUME LInv, UNCHANGED <<live, minted>>,
           \A q \in Requests : phase'[q] = "sent" /\ made'[q] # NoKey =>
                                   phase[q] = "sent" /\ made'[q] = made[q]
    PROVE  Losing
BY PanelAssumption DEF Losing, Fresh

\* The agent adds the key it has generated for a create, or removes one.
LEMMA ApplyMoves ==
    ASSUME LInv, NEW r \in Requests, Agent!Apply(r)
    PROVE  Losing \/ \E k \in Keys : Giving(k)
<1>0. PInv /\ AccessUsed
  BY DEF LInv, RInv
<1>1. /\ call[r] \in PanelCalls /\ call[r].op \in {"create", "delete"}
      /\ phase[r] = "sent" /\ UNCHANGED <<server, minted, call, made>>
      /\ phase' = [phase EXCEPT ![r] = "applied"] /\ live' = Agent!Effect(r)
      /\ call[r].op = "create" => made[r] # NoKey
  BY <1>0, Types DEF Agent!Apply, PanelCalls, Agent!Enter
<1>2. \A q \in Requests : phase'[q] = "sent" => q # r /\ phase[q] = "sent"
  BY <1>0, <1>1, Types
<1>3. \A k \in Keys : Fresh(k)' => Fresh(k)
  BY <1>1, <1>2 DEF Fresh
<1>4. CASE call[r].op = "delete"
  <2>1. live' = [live EXCEPT ![call[r].key] = Absent]
    BY <1>1, <1>4 DEF Agent!Effect
  <2> QED
    BY <1>0, <1>3, <2>1, Types DEF Losing
<1>5. CASE call[r].op = "create" /\ made[r] = server
  BY <1>1, <1>3, <1>5 DEF Agent!Effect, Agent!Assigned, Losing
<1>6. CASE call[r].op = "create" /\ made[r] # server
  <2>0. PICK k \in Keys : k = made[r]
    BY <1>0, <1>1, <1>6, Types
  <2>1. call[r].ips \in Ips
    BY <1>0, <1>1, <1>6, Types DEF PanelCalls
  <2>2. live' = [j \in Keys |-> IF j = k THEN call[r].ips
                                ELSE IF live[j] = call[r].ips THEN NoIps ELSE live[j]]
    BY <1>1, <1>6, <2>0 DEF Agent!Effect, Agent!Assigned
  <2>3. \A q \in Requests : q # r => made[q] # k
    BY <1>0, <2>0, PanelAssumption DEF PInv, AgentInv
  <2>4. k \in minted
    BY <1>0, <1>1, <1>6, <2>0 DEF PInv, AgentInv
  <2>5. Fresh(k) /\ ~ Fresh(k)'
    BY <1>1, <1>2, <2>0, <2>3, <2>4 DEF Fresh
  <2>6. ASSUME NEW j \in Keys \ {k}, Fresh(j) PROVE Fresh(j)'
    <3>1. \A q \in Requests : q # r => phase'[q] = phase[q]
      BY <1>0, <1>1, Types
    <3> QED
      BY <1>1, <2>0, <2>6, <3>1 DEF Fresh
  <2>7. live'[k] # Absent /\ \A j \in Keys \ {k} : live'[j] = Absent <=> live[j] = Absent
    BY <2>1, <2>2, PanelAssumption
  <2> QED
    BY <1>3, <2>5, <2>6, <2>7 DEF Giving
<1> QED
  BY <1>1, <1>4, <1>5, <1>6

\* What a step of the agent does to the access of every key.
LEMMA AgentMovesAccess ==
    ASSUME LInv, AgentStep PROVE Losing \/ \E k \in Keys : Giving(k)
<1>0. PInv
  BY DEF LInv, RInv
<1>1. ASSUME NEW r \in Requests, Deliver(r) PROVE Losing
  <2>1. /\ phase[r] = "unsent" /\ UNCHANGED <<live, minted, made>>
        /\ \A q \in Requests : q # r => phase'[q] = phase[q]
    BY <1>0, <1>1, Types DEF Deliver, Agent!Accept, Agent!Enter
  <2>2. made[r] = NoKey
    BY <2>1 DEF LInv, MadePending
  <2> QED
    BY <2>1, <2>2, HandsEmptied
<1>2. ASSUME NEW r \in Requests, Agent!Mint(r) PROVE Losing
  <2>1. PICK k \in Keys \ minted : /\ minted' = minted \cup {k}
                                   /\ made' = [made EXCEPT ![r] = k]
    BY <1>2 DEF Agent!Mint
  <2>2. UNCHANGED <<live, phase>> /\ \A q \in Requests : q # r => made'[q] = made[q]
    BY <1>0, <1>2, <2>1, Types DEF Agent!Mint
  <2>3. made'[r] = k
    BY <1>0, <2>1, Types
  <2> QED
    BY <2>1, <2>2, <2>3 DEF Losing, Fresh
<1>3. ASSUME NEW r \in Requests,
             AgentSucceeds(r) \/ Agent!Refuse(r) \/ Agent!Fail(r)
      PROVE  Losing
  <2>1. /\ UNCHANGED <<live, minted>> /\ made'[r] = NoKey
        /\ \A q \in Requests : q # r => phase'[q] = phase[q] /\ made'[q] = made[q]
    BY <1>0, <1>3, Types
    DEF AgentSucceeds, Agent!Succeed, Agent!BringUp, Agent!Refuse, Agent!Fail, Agent!Enter,
        Agent!Forget
  <2> QED
    BY <2>1, HandsEmptied
<1>4. CASE Agent!Crash
  <2>1. /\ UNCHANGED <<live, minted>>
        /\ \A q \in Requests : phase'[q] = "sent" => FALSE
    BY <1>0, <1>4, Types DEF Agent!Crash, Agent!Pending
  <2> QED
    BY <2>1, HandsEmptied
<1>5. CASE Agent!Restart \/ Agent!Operate
  <2>1. live' = Agent!NoPeers /\ UNCHANGED <<phase, made>> /\ minted \subseteq minted'
    BY <1>5 DEF Agent!Restart, Agent!Operate
  <2> QED
    BY <2>1 DEF Losing, Fresh, Agent!NoPeers
<1> QED
  BY <1>1, <1>2, <1>3, <1>4, <1>5, ApplyMoves DEF AgentStep

\* Keys with access stay used.
LEMMA MovesKeepUsed ==
    ASSUME AccessUsed, Losing \/ \E k \in Keys : Giving(k) PROVE AccessUsed'
<1>1. CASE Losing
  BY <1>1 DEF AccessUsed, Losing
<1>2. ASSUME NEW k \in Keys, Giving(k) PROVE AccessUsed'
  BY <1>2 DEF AccessUsed, Giving
<1> QED
  BY <1>1, <1>2

\* A call that is over holds no key.
LEMMA AgentKeepsPending == ASSUME LInv, AgentStep PROVE MadePending'
<1>0. PInv /\ MadePending
  BY DEF LInv, RInv
<1>1. ASSUME NEW r \in Requests,
             \/ Deliver(r) \/ Agent!Mint(r) \/ Agent!Apply(r) \/ AgentSucceeds(r)
             \/ Agent!Refuse(r) \/ Agent!Fail(r)
      PROVE  /\ phase'[r] \in {"sent", "applied"} \/ made'[r] = NoKey
             /\ \A q \in Requests : q # r => phase'[q] = phase[q] /\ made'[q] = made[q]
  BY <1>0, <1>1, Types
  DEF Deliver, AgentSucceeds, Agent!Accept, Agent!Mint, Agent!Apply, Agent!Succeed,
      Agent!BringUp, Agent!Refuse, Agent!Fail, Agent!Enter, Agent!Forget
<1>2. CASE Agent!Crash
  BY <1>0, <1>2, Types DEF Agent!Crash, Agent!Pending, MadePending
<1>3. CASE Agent!Restart \/ Agent!Operate
  BY <1>0, <1>3 DEF Agent!Restart, Agent!Operate, MadePending
<1> QED
  BY <1>0, <1>1, <1>2, <1>3 DEF AgentStep, MadePending

\* A create that succeeds brings a key that no earlier one has brought.
LEMMA AgentKeepsDistinct == ASSUME LInv, AgentStep PROVE DistinctBodies'
<1>0. PInv /\ DistinctBodies
  BY DEF LInv, RInv
<1>1. ASSUME NEW r \in Requests, AgentSucceeds(r) PROVE DistinctBodies'
  <2>1. /\ call' = call
        /\ \A q \in Requests : q # r => phase'[q] = phase[q] /\ body'[q] = body[q]
        /\ call[r].op = "create" => body'[r] = made[r]
    BY <1>0, <1>1, Types
    DEF AgentSucceeds, Agent!Succeed, Agent!BringUp, Agent!Enter
  <2>2. \A q \in Requests : Created(q) => made[r] # body[q]
    BY <1>0 DEF PInv, AgentInv, Settled
  <2>3. \A q \in Requests : q # r => (Created(q)' <=> Created(q))
    BY <2>1 DEF Created
  <2>4. Created(r)' => call[r].op = "create"
    BY <2>1 DEF Created
  <2> QED
    BY <1>0, <2>1, <2>2, <2>3, <2>4 DEF DistinctBodies
<1>2. ASSUME body' = body, \A q \in Requests : Created(q)' => Created(q)
      PROVE  DistinctBodies'
  BY <1>0, <1>2 DEF DistinctBodies
<1>3. ASSUME NEW r \in Requests,
             Deliver(r) \/ Agent!Mint(r) \/ Agent!Apply(r) \/ Agent!Refuse(r) \/ Agent!Fail(r)
      PROVE  \A q \in Requests : Created(q)' => Created(q)
  BY <1>0, <1>3, Types
  DEF Deliver, Agent!Accept, Agent!Mint, Agent!Apply, Agent!Refuse, Agent!Fail,
      Agent!Enter, Created
<1>4. ASSUME Agent!Crash \/ Agent!Restart \/ Agent!Operate
      PROVE  \A q \in Requests : Created(q)' => Created(q)
  BY <1>0, <1>4, Types DEF Agent!Crash, Agent!Restart, Agent!Operate, Agent!Pending, Created
<1> QED
  BY <1>1, <1>2, <1>3, <1>4 DEF AgentStep, Deliver

\* Steps of the agent keep the invariant.
LEMMA AgentKeepsLInv == ASSUME LInv, AgentStep PROVE LInv'
BY AgentKeepsRInv, AgentMovesAccess, MovesKeepUsed, AgentKeepsPending, AgentKeepsDistinct
DEF LInv

\* Every step keeps the invariant.
LEMMA LInvStep == LInv /\ [Next]_vars => LInv'
<1> SUFFICES ASSUME LInv, [Next]_vars PROVE LInv'
  OBVIOUS
<1>1. CASE AgentStep
  BY <1>1, AgentKeepsLInv
<1>2. CASE ~ AgentStep
  <2>1. RInv'
    BY RInvStep DEF LInv
  <2>2. Elsewhere
    <3>1. ASSUME NEW r \in Requests, PanelStep(r) PROVE Elsewhere
      BY <3>1, PanelStepMoves DEF LInv, HandlerMoves
    <3> QED
      BY <1>2, <3>1 DEF Next, Arrive, PanelCrash, Expire, vars, Elsewhere
  <2> QED
    BY <2>1, <2>2
    DEF LInv, AccessUsed, Fresh, MadePending, DistinctBodies, Created, Elsewhere, agentVars
<1> QED
  BY <1>1, <1>2

LEMMA LInvAlways == Spec => []LInv
BY LInvInit, LInvStep, PTL DEF Spec
----------------------------------------------------------------------------
(* Every step is one of a peer's life.                                     *)

Mapped == Promised!LifeNext \/ UNCHANGED Promised!lifeVars

\* The initial state is that of a life.
LEMMA LifeBegins == Init => Promised!LifeInit
<1> SUFFICES ASSUME Init PROVE Promised!LifeInit
  OBVIOUS
<1>1. live = Agent!NoPeers /\ nodeRow # "deleted"
  BY DEF Init, Agent!ContractInit
<1>2. access \in [Keys -> {"fresh", "lost"}]
  BY <1>1 DEF access, AccessOf, Agent!NoPeers
<1>3. row = [p \in Requests |-> "none"] /\ name = [p \in Requests |-> NoKey]
  BY DEF Init, row, RowState, name, RowOf
<1>4. handed = {} /\ taken = {} /\ kept = {} /\ closed = FALSE
  BY <1>1 DEF Init, handed, taken, kept, closed, Answered
<1> QED
  BY <1>2, <1>3, <1>4 DEF Promised!LifeInit

\* What the agent does is seen in the access of the keys only.
LEMMA AgentLives == ASSUME LInv, AgentStep PROVE Mapped
<1>1. UNCHANGED <<row, name, closed, handed, taken, kept>>
  BY DEF AgentStep, stores, handlers, row, RowState, name, RowOf, closed, handed, taken,
         kept, Answered
<1>2. CASE Losing
  <2>1. \A k \in Keys : AccessOf(k)' \in {AccessOf(k), "lost"}
    BY <1>2 DEF Losing, AccessOf, LInv, AccessUsed
  <2>2. /\ access' \in [Keys -> {"fresh", "given", "lost"}]
        /\ \A k \in Keys : access'[k] \in {access[k], "lost"}
    BY <2>1 DEF access, AccessOf
  <2>3. Promised!Lose
    BY <1>1, <2>2 DEF Promised!Lose
  <2> QED
    BY <2>3 DEF Mapped, Promised!LifeNext
<1>3. ASSUME NEW k \in Keys, Giving(k) PROVE Mapped
  <2>1. AccessOf(k) = "fresh" /\ AccessOf(k)' = "given"
    BY <1>3 DEF Giving, AccessOf, LInv, AccessUsed
  <2>2. \A j \in Keys \ {k} : AccessOf(j)' = AccessOf(j)
    BY <1>3 DEF Giving, AccessOf
  <2>3. Promised!Give(k)
    BY <1>1, <2>1, <2>2 DEF Promised!Give, access
  <2> QED
    BY <2>3 DEF Mapped, Promised!LifeNext
<1> QED
  BY <1>2, <1>3, AgentMovesAccess

\* Nothing of what the panel does is seen in the access of the keys.
LEMMA AccessElsewhere == ASSUME Elsewhere PROVE access' = access
BY DEF Elsewhere, agentVars, access, AccessOf, Fresh

\* A step of r's handler that is answered nothing, or no 201 or 204 that counts.
LEMMA AnswersElsewhere ==
    ASSUME LInv, NEW r \in Requests, HandlerMoves(r), answer[r] = 0,
           answer'[r] = 201 => job[r].kind # "create",
           answer'[r] = 204 => job[r].kind # "revoke"
    PROVE  handed' = handed /\ taken' = taken
<1>1. \A q \in Requests : /\ Answered(q, "create", 201)' <=> Answered(q, "create", 201)
                          /\ Answered(q, "revoke", 204)' <=> Answered(q, "revoke", 204)
  BY DEF HandlerMoves, Answered
<1> QED
  BY <1>1 DEF HandlerMoves, handed, taken

\* A handler that takes a step has not been answered.
LEMMA Unanswered ==
    ASSUME LInv, NEW r \in Requests, PanelStep(r)
    PROVE  /\ PInv /\ HandlerMoves(r) /\ RowsGoOn(r) /\ answer[r] = 0
           /\ pc[r] \in StoreSteps \cup {"agent"}
<1>1. pc[r] \in StoreSteps \cup {"agent"}
  BY DEF PanelStep, GetPeer, GetNode, HearSuccess, HearFailure, StoreFails, InsertPeer,
         RefreshPeer, CacheConfig, StampPeer, UncacheConfig, LookupConfig, InsertNode,
         RefreshNode, SaveKey, RefreshKey, DeleteNode, StoreSteps
<1>2. answer[r] = 0
  BY <1>1 DEF LInv, RInv, CreateKnows, StoreSteps
<1> QED
  BY <1>1, <1>2, PanelStepMoves DEF LInv, RInv

\* Reads, calls, failures and what is written of the node are no step of a peer's life.
LEMMA QuietLives ==
    ASSUME LInv, NEW r \in Requests, PanelStep(r), UNCHANGED <<peers, cache>>,
           nodeRow' = "deleted" <=> nodeRow = "deleted",
           answer'[r] = 201 => job[r].kind # "create",
           answer'[r] = 204 => job[r].kind # "revoke"
    PROVE  Mapped
<1>1. HandlerMoves(r) /\ answer[r] = 0
  BY Unanswered
<1>2. handed' = handed /\ taken' = taken
  BY <1>1, AnswersElsewhere
<1>3. access' = access
  BY <1>1, AccessElsewhere DEF HandlerMoves
<1>4. UNCHANGED <<row, name, kept, closed>>
  BY DEF row, RowState, name, RowOf, kept, closed
<1> QED
  BY <1>2, <1>3, <1>4 DEF Mapped, Promised!lifeVars

\* The steps that are so.
LEMMA QuietSteps ==
    ASSUME LInv, NEW r \in Requests,
           \/ GetPeer(r) \/ GetNode(r) \/ HearSuccess(r) \/ HearFailure(r) \/ StoreFails(r)
           \/ RefreshPeer(r) \/ LookupConfig(r) \/ InsertNode(r) \/ RefreshNode(r)
           \/ SaveKey(r) \/ RefreshKey(r)
    PROVE  Mapped
<1>1. PanelStep(r)
  BY DEF PanelStep
<1>2. PInv /\ answer[r] = 0
  BY <1>1, Unanswered
<1>3. UNCHANGED <<peers, cache>> /\ (nodeRow' = "deleted" <=> nodeRow = "deleted")
  BY DEF GetPeer, GetNode, HearSuccess, HearFailure, StoreFails, RefreshPeer, LookupConfig,
         InsertNode, RefreshNode, SaveKey, RefreshKey, stores, LInv, RInv, RegisteredOnce
<1>4. \/ \E code \in {200, 201, 404, 409, 410, 500, 502} :
            Reply(r, code) /\ (code = 201 => job[r].kind = "add_node")
      \/ answer' = answer
  BY DEF GetPeer, GetNode, HearSuccess, HearFailure, StoreFails, RefreshPeer, LookupConfig,
         InsertNode, RefreshNode, SaveKey, RefreshKey, Continue, CallAgent
<1>5. answer'[r] = 201 => job[r].kind # "create"
  BY <1>2, <1>4, ReplySets
<1>6. answer'[r] # 204
  BY <1>2, <1>4, ReplySets
<1> QED
  BY <1>1, <1>3, <1>5, <1>6, QuietLives

\* The row of a create names the key that its call has brought, and no other row does.
LEMMA InsertPeerLives == ASSUME LInv, NEW r \in Requests, InsertPeer(r) PROVE Mapped
<1>0. /\ PanelStep(r) /\ PInv /\ HandlerMoves(r) /\ answer[r] = 0 /\ pc[r] = "insert"
      /\ cache' = cache /\ nodeRow' = nodeRow
  BY Unanswered DEF PanelStep, InsertPeer
<1>1. CASE Reply(r, 500) /\ peers' = peers
  BY <1>0, <1>1, ReplySets, QuietLives
<1>2. CASE /\ nodeRow = "present" /\ Continue(r, "refresh")
           /\ peers' = [peers EXCEPT ![r] = [key |-> body[r], revoked |-> Never]]
  <2>1. Created(r) /\ peers[r] = NoRow /\ body[r] \in Keys /\ Settled(body[r])
    BY <1>0, Types DEF LInv, RInv, CreateKnows, RowOf, Ended, PInv, AgentInv, Settled
  <2>2. [key |-> body[r], revoked |-> Never] # NoRow
    BY <2>1, PanelAssumption
  <2>3. /\ peers'[r] = [key |-> body[r], revoked |-> Never]
        /\ \A p \in Requests : p # r => peers'[p] = peers[p]
    BY <1>0, <1>2, PanelTypes DEF StoresTyped
  <2>4. row' = [row EXCEPT ![r] = "active"] /\ row[r] = "none"
    <3>1. RowState(r)' = "active" /\ RowState(r) = "none"
      BY <2>1, <2>2, <2>3 DEF RowState
    <3>2. \A p \in Requests : p # r => RowState(p)' = RowState(p)
      BY <2>3 DEF RowState
    <3> QED
      BY <3>1, <3>2 DEF row
  <2>5. name' = [name EXCEPT ![r] = body[r]]
    <3>1. RowOf(r)' /\ peers'[r].key = body[r]
      BY <2>2, <2>3 DEF RowOf
    <3>2. \A p \in Requests : p # r => (RowOf(p)' <=> RowOf(p)) /\ peers'[p] = peers[p]
      BY <2>3 DEF RowOf
    <3> QED
      BY <3>1, <3>2 DEF name
  <2>6. access[body[r]] # "fresh"
    BY <2>1 DEF access, AccessOf, Fresh, Settled
  <2>7. ASSUME NEW q \in Requests, name[q] = body[r] PROVE FALSE
    <3>1. RowOf(q) /\ peers[q].key = body[r]
      BY <2>1, <2>7, PanelAssumption DEF name
    <3>2. Created(q) /\ body[q] = body[r]
      BY <1>0, <3>1 DEF PInv, RowInv
    <3> QED
      BY <2>1, <3>1, <3>2 DEF LInv, DistinctBodies, RowOf
  <2>8. UNCHANGED <<access, handed, taken, closed, kept>>
    <3>1. answer'[r] = 0
      BY <1>0, <1>2, ContinueSets
    <3> QED
      BY <1>0, <3>1, AccessElsewhere, AnswersElsewhere DEF HandlerMoves, closed, kept
  <2>9. ~ closed
    BY <1>2 DEF closed
  <2>10. Promised!Record(r, body[r])
    BY <2>4, <2>5, <2>6, <2>7, <2>8, <2>9 DEF Promised!Record
  <2> QED
    BY <2>1, <2>10 DEF Mapped, Promised!LifeNext
<1> QED
  BY <1>1, <1>2 DEF InsertPeer

\* The configuration is handed out with a row, or with the node gone.
LEMMA CacheConfigLives == ASSUME LInv, NEW r \in Requests, CacheConfig(r) PROVE Mapped
<1>0. /\ PanelStep(r) /\ PInv /\ HandlerMoves(r) /\ answer[r] = 0 /\ pc[r] = "cache"
      /\ cache' = cache \cup {r} /\ UNCHANGED <<nodeRow, peers>> /\ Reply(r, 201)
  BY Unanswered DEF PanelStep, CacheConfig
<1>1. IsCreate(r) /\ (nodeRow = "deleted" \/ RowOf(r))
  BY <1>0, CreateCalls DEF LInv, RInv, CreateKnows, Created
<1>2. answer'[r] = 201
  BY <1>0, ReplySets
<1>3. \A q \in Requests : /\ Answered(q, "create", 201)' <=>
                                 q = r \/ Answered(q, "create", 201)
                          /\ Answered(q, "revoke", 204)' <=> Answered(q, "revoke", 204)
  BY <1>0, <1>1, <1>2 DEF HandlerMoves, Answered, IsCreate
<1>4. handed' = handed \cup {r} /\ r \notin handed
  BY <1>0, <1>3 DEF handed, Answered
<1>5. taken' = taken
  BY <1>0, <1>3 DEF taken, HandlerMoves
<1>6. UNCHANGED <<access, row, name, closed>> /\ kept' = kept \cup {r}
  BY <1>0, AccessElsewhere DEF HandlerMoves, row, RowState, name, RowOf, closed, kept
<1>7. closed \/ row[r] # "none"
  BY <1>1 DEF closed, row, RowState, RowOf
<1>8. Promised!HandOut(r)
  BY <1>4, <1>5, <1>6, <1>7 DEF Promised!HandOut
<1> QED
  BY <1>8 DEF Mapped, Promised!LifeNext

\* A row is stamped once its key has lost access, and stays stamped.
LEMMA StampPeerLives == ASSUME LInv, NEW r \in Requests, StampPeer(r) PROVE Mapped
<1> DEFINE p == job[r].peer
<1>0. /\ PanelStep(r) /\ PInv /\ HandlerMoves(r) /\ answer[r] = 0 /\ pc[r] = "stamp"
      /\ UNCHANGED <<nodeRow, cache>>
  BY Unanswered DEF PanelStep, StampPeer
<1>1. answer'[r] \in {0, 500}
  BY <1>0, ReplySets, ContinueSets DEF StampPeer
<1>2. CASE peers' = peers
  BY <1>0, <1>1, <1>2, QuietLives
<1>3. CASE peers[p] # NoRow /\ peers' = [peers EXCEPT ![p].revoked = r]
  <2>1. /\ p \in Requests /\ Created(p) /\ snap[r].key = body[p]
        /\ live[snap[r].key] = Absent /\ peers[p] \in Rows
    <3>1. job[r].kind = "revoke" /\ live[snap[r].key] = Absent
          /\ Created(p) /\ snap[r].key = body[p]
      BY <1>0 DEF PInv, HandlerInv, HandlerKnows
    <3>2. p \in Requests
      BY <1>0, <3>1, BusyJobs DEF LInv, StoreSteps
    <3>3. peers[p] \in Rows
      BY <1>0, <1>3, <3>2, PanelTypes DEF StoresTyped
    <3> QED
      BY <3>1, <3>2, <3>3
  <2>2. peers[p].key = body[p] /\ Settled(body[p]) /\ body[p] \in Keys
    BY <1>0, <1>3, <2>1, Types DEF PInv, RowInv, RowOf, AgentInv, Settled
  <2>3. /\ peers'[p] = [peers[p] EXCEPT !.revoked = r]
        /\ \A q \in Requests : q # p => peers'[q] = peers[q]
    BY <1>0, <1>3, <2>1, PanelTypes DEF StoresTyped
  <2>4. peers'[p] \in Rows /\ peers'[p].revoked = r /\ peers'[p].key = peers[p].key
    BY <2>1, <2>3 DEF Rows
  <2>5. peers'[p] # NoRow /\ peers'[p].revoked # Never
    BY <2>4, PanelAssumption DEF Rows
  <2> HIDE DEF p
  <2>6. row' = [row EXCEPT ![p] = "revoked"]
    BY <2>1, <2>3, <2>5 DEF row, RowState
  <2>7. name' = name
    BY <1>3, <2>3, <2>4, <2>5 DEF name, RowOf
  <2>8. row[p] \in {"active", "revoked"} /\ name[p] = body[p] /\ access[body[p]] = "lost"
    BY <1>3, <2>1, <2>2 DEF row, RowState, name, RowOf, access, AccessOf, Fresh, Settled
  <2>9. UNCHANGED <<access, handed, taken, closed, kept>>
    BY <1>0, <1>1, AccessElsewhere, AnswersElsewhere DEF HandlerMoves, closed, kept
  <2>10. CASE row[p] = "active"
    BY <2>1, <2>6, <2>7, <2>8, <2>9, <2>10 DEF Promised!Revoke, Mapped, Promised!LifeNext
  <2>11. CASE row[p] = "revoked"
    <3>1. row' = row
      BY <2>6, <2>11 DEF row
    <3> QED
      BY <2>7, <2>9, <3>1 DEF Mapped, Promised!lifeVars
  <2> QED
    BY <2>8, <2>10, <2>11
<1> QED
  BY <1>2, <1>3 DEF StampPeer

\* What was revoked is taken back.
LEMMA UncacheConfigLives == ASSUME LInv, NEW r \in Requests, UncacheConfig(r) PROVE Mapped
<1> DEFINE p == job[r].peer
<1>0. /\ PanelStep(r) /\ PInv /\ HandlerMoves(r) /\ answer[r] = 0 /\ pc[r] = "uncache"
      /\ cache' = cache \ {p} /\ UNCHANGED <<nodeRow, peers>> /\ Reply(r, 204)
  BY Unanswered DEF PanelStep, UncacheConfig
<1>1. job[r].kind = "revoke" /\ job[r] # NoJob /\ p \in Requests /\ WasRevoked(p)
  BY <1>0, BusyJobs DEF LInv, RInv, RevokeKnows, StoreSteps
<1>2. answer'[r] = 204
  BY <1>0, ReplySets
<1>3. \A q \in Requests : /\ Answered(q, "create", 201)' <=> Answered(q, "create", 201)
                          /\ Answered(q, "revoke", 204)' <=>
                                 q = r \/ Answered(q, "revoke", 204)
  BY <1>0, <1>1, <1>2 DEF HandlerMoves, Answered
<1>4. handed' = handed
  BY <1>3 DEF handed
<1>5. taken' = taken \cup {p}
  BY <1>0, <1>1, <1>3 DEF taken, HandlerMoves
<1>6. UNCHANGED <<access, row, name, closed>> /\ kept' = kept \ {p}
  BY <1>0, AccessElsewhere DEF HandlerMoves, row, RowState, name, RowOf, closed, kept
<1>7. closed \/ row[p] = "revoked"
  BY <1>1 DEF closed, row, RowState, RowOf, WasRevoked
<1> HIDE DEF p
<1>8. Promised!TakeBack(p)
  BY <1>4, <1>5, <1>6, <1>7 DEF Promised!TakeBack
<1> QED
  BY <1>1, <1>8 DEF Mapped, Promised!LifeNext, p

\* The rows go with the node.
LEMMA DeleteNodeLives == ASSUME LInv, NEW r \in Requests, DeleteNode(r) PROVE Mapped
<1>0. /\ PanelStep(r) /\ PInv /\ HandlerMoves(r) /\ answer[r] = 0
      /\ pc[r] = "delete_node" /\ nodeRow' = "deleted" /\ cache' = cache
      /\ peers' = [p \in Requests |-> NoRow] /\ Reply(r, 204)
  BY Unanswered DEF PanelStep, DeleteNode
<1>1. job[r].kind = "delete_node" /\ answer'[r] = 204
  BY <1>0, ReplySets DEF LInv, RInv, RegisteredOnce
<1>2. handed' = handed /\ taken' = taken
  BY <1>0, <1>1, AnswersElsewhere
<1>3. closed' = TRUE /\ kept' = kept
  BY <1>0 DEF closed, kept
<1>4. /\ row' = [p \in Requests |-> "none"] /\ name' = [p \in Requests |-> NoKey]
      /\ access' = access
  BY <1>0, AccessElsewhere DEF HandlerMoves, row, RowState, name, RowOf
<1> QED
  BY <1>2, <1>3, <1>4 DEF Mapped, Promised!LifeNext, Promised!Close

\* An arrival, a crash of the panel and the end of a TTL.
LEMMA OthersLive ==
    ASSUME LInv,
           PanelCrash \/ Expire \/ (UNCHANGED vars) \/ \E r \in Requests : Arrive(r)
    PROVE  Mapped
<1>1. Elsewhere /\ UNCHANGED <<nodeRow, peers, answer>>
  BY DEF Arrive, PanelCrash, Expire, vars, stores, handlers, Elsewhere
<1>2. UNCHANGED <<access, row, name, closed>>
  BY <1>1, AccessElsewhere DEF row, RowState, name, RowOf, closed
<1>3. \A q \in Requests : answer[q] # 0 => job'[q] = job[q]
  <2>1. ASSUME NEW r \in Requests, Arrive(r)
        PROVE  answer[r] = 0 /\ \A q \in Requests : q # r => job'[q] = job[q]
    BY <2>1, PanelTypes DEF Arrive, LInv, RInv, CreateKnows
  <2> QED
    BY <2>1 DEF PanelCrash, Expire, vars, handlers
<1>4. \A q \in Requests : /\ Answered(q, "create", 201)' <=> Answered(q, "create", 201)
                          /\ Answered(q, "revoke", 204)' <=> Answered(q, "revoke", 204)
  BY <1>1, <1>3 DEF Answered
<1>5. handed' = handed
  BY <1>4 DEF handed
<1>6. taken' = taken
  BY <1>3, <1>4 DEF taken, Answered
<1>7. CASE Expire
  <2>1. PICK p \in Requests : cache' = cache \ {p}
    BY <1>7, PanelTypes DEF Expire, LInv, RInv, StoresTyped
  <2> QED
    BY <1>2, <1>5, <1>6, <2>1 DEF Mapped, Promised!LifeNext, Promised!Drop, kept
<1>8. CASE kept' = kept
  BY <1>2, <1>5, <1>6, <1>8 DEF Mapped, Promised!lifeVars
<1> QED
  BY <1>7, <1>8 DEF Arrive, PanelCrash, vars, stores, kept

LEMMA StepLives == LInv /\ [Next]_vars => Mapped
<1> SUFFICES ASSUME LInv, [Next]_vars PROVE Mapped
  OBVIOUS
<1>1. ASSUME NEW r \in Requests, PanelStep(r) PROVE Mapped
  BY <1>1, QuietSteps, InsertPeerLives, CacheConfigLives, StampPeerLives,
     UncacheConfigLives, DeleteNodeLives
  DEF PanelStep
<1> QED
  BY <1>1, AgentLives, OthersLive DEF Next

\* Whatever is lost, delayed, repeated or interleaved, the panel, the agent and the stores
\* between them give every peer the life that PeerLife describes.
THEOREM PanelKeepsPeerLife == Spec => KeepsPeerLife
<1>1. LInv /\ [Next]_vars => [Promised!LifeNext]_(Promised!lifeVars)
  BY StepLives DEF Mapped
<1> QED
  BY <1>1, LifeBegins, LInvAlways, PTL DEF Spec, KeepsPeerLife, Promised!Life
============================================================================
