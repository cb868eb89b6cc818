-------------------------- MODULE PanelPeersProofs --------------------------
(***************************************************************************)
(* Theorems about PanelPeers, for every set of keys, addresses, requests   *)
(* and jobs: whatever the order in which calls, answers, timeouts, crashes *)
(* and restarts come.                                                      *)
(***************************************************************************)
EXTENDS PanelPeers, TLAPS

\* k was generated, and no create call still holds it: it will not be added again.
Settled(k) == k \in minted /\ \A q \in Requests : made[q] # k

\* The same of k after a step.
SettledNext(k) == k \in minted' /\ \A q \in Requests : made'[q] # k

\* The agent has answered r's create call with success.
Created(r) == phase[r] = "ok" /\ call[r].op = "create"

CreatedNext(r) == phase'[r] = "ok" /\ call'[r].op = "create"

\* Awaits before a handler's call of the agent.
PreCall == {"waiting", "peer", "node", "insert_node", "refresh_node"}

\* What the agent's state says of the calls made to it.
AgentInv ==
    /\ \A r \in Requests : made[r] # NoKey => made[r] \in minted
    /\ \A r, q \in Requests : r # q /\ made[r] = made[q] => made[r] = NoKey
    /\ \A r \in Requests :
          /\ phase[r] # "unsent" => call[r] = wire[r] /\ wire[r] # NoCall
          /\ phase[r] = "applied" /\ call[r].op = "create" => made[r] # NoKey
          /\ phase[r] \in {"applied", "ok"} /\ call[r].op = "delete" =>
                 live[call[r].key] = Absent
          /\ wire[r] # NoCall /\ wire[r].op = "delete" => Settled(wire[r].key)
          /\ Created(r) => Settled(body[r])

\* What a row and a handler's locals say of the agent.
RowInv ==
    \A p \in Requests :
        RowOf(p) =>
            /\ Created(p)
            /\ peers[p].key = body[p]
            /\ peers[p].revoked # Never => live[body[p]] = Absent

HandlerKnows(r) ==
    /\ pc[r] \in StoreSteps \cup {"agent"} => job[r] \in JobType
    /\ pc[r] \in PreCall => wire[r] = NoCall
    /\ pc[r] = "peer" => job[r].kind \in {"revoke", "config"}
    /\ pc[r] \in {"insert_node", "refresh_node"} => job[r].kind = "add_node"
    /\ pc[r] \in {"node", "agent", "stamp"} /\ job[r].kind = "revoke" =>
           Created(job[r].peer) /\ snap[r].key = body[job[r].peer]
    /\ pc[r] = "agent" /\ job[r].kind = "create" =>
           wire[r] \in PanelCalls /\ wire[r].op = "create"
    /\ pc[r] = "agent" /\ job[r].kind = "revoke" =>
           wire[r] = [op |-> "delete", key |-> snap[r].key]
    /\ pc[r] = "insert" => Created(r)
    /\ pc[r] = "stamp" => job[r].kind = "revoke" /\ live[snap[r].key] = Absent

HandlerInv == \A r \in Requests : HandlerKnows(r)

PInv == TypeOK /\ AgentInv /\ RowInv /\ HandlerInv
----------------------------------------------------------------------------
\* The invariant holds initially.
LEMMA PInvInit == Init => PInv
<1> SUFFICES ASSUME Init PROVE PInv
  OBVIOUS
<1>1. /\ live = Agent!NoPeers /\ server \in Keys \cup {NoKey} /\ minted \subseteq Keys
      /\ phase = [r \in Requests |-> "unsent"]
      /\ call = [r \in Requests |-> NoCall] /\ made = [r \in Requests |-> NoKey]
      /\ nodeRow \in {"absent", "present", "deleted"} /\ nodeKey \in Keys \cup {NoKey}
  BY DEF Init, Agent!ContractInit
<1>2. Agent!NoPeers \in Agent!PeerTable
  BY DEF Agent!NoPeers, Agent!PeerTable
<1>3. TypeOK
  BY <1>1, <1>2 DEF Init, TypeOK, Agent!ContractTypeOK, NoSnap, StoreSteps
<1>4. AgentInv
  BY <1>1 DEF Init, AgentInv, Created
<1>5. RowInv /\ HandlerInv
  BY DEF Init, RowInv, RowOf, HandlerInv, HandlerKnows, StoreSteps
<1> QED
  BY <1>3, <1>4, <1>5 DEF PInv
----------------------------------------------------------------------------
(* Steps of the agent and the network.                                     *)

\* The types every step starts from.
LEMMA Types ==
    ASSUME PInv
    PROVE  /\ live \in [Keys -> Ips \cup {NoIps, Absent}]
           /\ server \in Keys \cup {NoKey} /\ minted \subseteq Keys
           /\ phase \in [Requests ->
                 {"sent", "applied", "unsent", "ok", "refused", "failed", "lost"}]
           /\ call \in [Requests -> PanelCalls \cup {NoCall}]
           /\ made \in [Requests -> Keys \cup {NoKey}]
           /\ body \in [Requests -> Keys \cup {NoKey}]
           /\ wire \in [Requests -> PanelCalls \cup {NoCall}]
           /\ \A r \in Requests : phase[r] # "unsent" => call[r] \in PanelCalls
BY DEF PInv, AgentInv, TypeOK, Agent!ContractTypeOK, Agent!PeerTable, Agent!Pending

\* A step of one call's effect: an address is given, or a peer removed.
LEMMA EffectTypes ==
    ASSUME PInv, NEW r \in Requests, Agent!Apply(r)
    PROVE  /\ live' \in [Keys -> Ips \cup {NoIps, Absent}]
           /\ \A k \in Keys : live[k] = Absent /\ Settled(k) => live'[k] = Absent
           /\ call[r].op = "delete" => live'[call[r].key] = Absent
<1>1. call[r] \in PanelCalls /\ call[r].op \in {"create", "delete"}
  BY Types DEF Agent!Apply, PanelCalls
<1>2. CASE call[r].op = "create"
  <2>1. call[r].ips \in Ips /\ live' = Agent!Assigned(made[r], call[r].ips)
    BY <1>1, <1>2 DEF PanelCalls, Agent!Apply, Agent!Effect
  <2>2. made[r] \in Keys
    BY <1>2, Types DEF Agent!Apply
  <2> QED
    BY <1>2, <2>1, <2>2, Types, PanelAssumption DEF Agent!Assigned, Settled
<1>3. CASE call[r].op = "delete"
  <2>1. call[r].key \in Keys /\ live' = [live EXCEPT ![call[r].key] = Absent]
    BY <1>1, <1>3 DEF PanelCalls, Agent!Apply, Agent!Effect
  <2> QED
    BY <2>1, Types, <1>3
<1> QED
  BY <1>1, <1>2, <1>3

\* The agent's part of a step: a key that is settled stays so, and a settled key
\* without access gets none.
LEMMA SettledStays ==
    ASSUME PInv, AgentStep, NEW k \in Keys, Settled(k)
    PROVE  SettledNext(k) /\ (live[k] = Absent => live'[k] = Absent)
<1>0. k \in Keys /\ k # NoKey
  BY PanelAssumption
<1>1. ASSUME NEW r \in Requests, Agent!Mint(r) PROVE SettledNext(k) /\ live' = live
  BY <1>1, Types DEF Agent!Mint, Settled, SettledNext
<1>2. ASSUME NEW r \in Requests, Agent!Apply(r)
      PROVE SettledNext(k) /\ (live[k] = Absent => live'[k] = Absent)
  BY <1>2, EffectTypes DEF Agent!Apply, Settled, SettledNext
<1>3. ASSUME NEW r \in Requests, Agent!Accept(r) PROVE SettledNext(k) /\ live' = live
  BY <1>3 DEF Agent!Accept, Settled, SettledNext
<1>4. ASSUME NEW r \in Requests,
             Agent!Succeed(r) \/ Agent!BringUp(r) \/ Agent!Refuse(r) \/ Agent!Fail(r)
      PROVE SettledNext(k) /\ live' = live
  BY <1>0, <1>4, Types
  DEF Agent!Succeed, Agent!BringUp, Agent!Refuse, Agent!Fail, Agent!Forget, Settled, SettledNext
<1>5. CASE Agent!Crash
  BY <1>0, <1>5, Types DEF Agent!Crash, Settled, SettledNext
<1>6. CASE Agent!Restart \/ Agent!Operate
  BY <1>6, Types DEF Agent!Restart, Agent!Operate, Agent!NoPeers, Settled, SettledNext
<1> QED
  BY <1>1, <1>2, <1>3, <1>4, <1>5, <1>6 DEF AgentStep, Deliver, AgentSucceeds

\* A create call that has succeeded stays so, with its key.
LEMMA CreatedStays ==
    ASSUME PInv, AgentStep, NEW p \in Requests, phase[p] = "ok"
    PROVE  phase'[p] = "ok" /\ call'[p] = call[p] /\ body'[p] = body[p]
<1>1. ASSUME NEW r \in Requests, Deliver(r)
      PROVE phase'[p] = "ok" /\ call'[p] = call[p] /\ body' = body
  BY <1>1, Types DEF Deliver, Agent!Accept, Agent!Enter
<1>2. ASSUME NEW r \in Requests, AgentSucceeds(r)
      PROVE phase'[p] = "ok" /\ call' = call /\ body'[p] = body[p]
  BY <1>2, Types
  DEF AgentSucceeds, Agent!Succeed, Agent!BringUp, Agent!Enter
<1>3. ASSUME NEW r \in Requests,
             Agent!Mint(r) \/ Agent!Apply(r) \/ Agent!Refuse(r) \/ Agent!Fail(r)
      PROVE phase'[p] = "ok" /\ call' = call
  BY <1>3, Types DEF Agent!Mint, Agent!Apply, Agent!Refuse, Agent!Fail, Agent!Enter,
                     Agent!Pending
<1>4. ASSUME Agent!Crash \/ Agent!Restart \/ Agent!Operate
      PROVE phase'[p] = "ok" /\ call' = call
  BY <1>4, Types DEF Agent!Crash, Agent!Restart, Agent!Operate, Agent!Pending
<1> QED
  BY <1>1, <1>2, <1>3, <1>4 DEF AgentStep

\* Steps of the agent keep the types.
LEMMA AgentTypes == ASSUME PInv, AgentStep PROVE TypeOK'
<1>0. UNCHANGED <<stores, handlers>>
  BY DEF AgentStep
<1>1. ASSUME Agent!ContractTypeOK', body' \in [Requests -> Keys \cup {NoKey}] PROVE TypeOK'
  <2>1. given' \in [Requests -> SUBSET Keys]
    BY DEF AgentStep, Remember
  <2> QED
    BY <1>0, <1>1, <2>1 DEF PInv, TypeOK, stores, handlers
<1>2. ASSUME NEW r \in Requests, Deliver(r) PROVE TypeOK'
  BY <1>1, <1>2, Types
  DEF Deliver, Agent!Accept, Agent!Enter, Agent!ContractTypeOK, Agent!PeerTable,
      Agent!Pending
<1>3. ASSUME NEW r \in Requests, AgentSucceeds(r) PROVE TypeOK'
  <2>1. server' \in Keys \cup {NoKey}
    BY <1>3, Types DEF AgentSucceeds, Agent!Succeed, Agent!BringUp
  <2>2. body' \in [Requests -> Keys \cup {NoKey}]
    BY <1>3, <2>1, Types DEF AgentSucceeds
  <2> QED
    BY <1>1, <1>3, <2>1, <2>2, Types
    DEF AgentSucceeds, Agent!Succeed, Agent!BringUp, Agent!Enter, Agent!Forget,
        Agent!ContractTypeOK, Agent!PeerTable, Agent!Pending
<1>4. ASSUME NEW r \in Requests, body' = body, Agent!Mint(r) PROVE TypeOK'
  BY <1>1, <1>4, Types
  DEF Agent!Mint, Agent!ContractTypeOK, Agent!PeerTable, Agent!Pending
<1>5. ASSUME NEW r \in Requests, body' = body, Agent!Apply(r) PROVE TypeOK'
  <2>1. live' \in [Keys -> Ips \cup {NoIps, Absent}]
    BY <1>5, EffectTypes
  <2> QED
    BY <1>1, <1>5, <2>1, Types
    DEF Agent!Apply, Agent!Enter, Agent!ContractTypeOK, Agent!PeerTable, Agent!Pending
<1>6. ASSUME NEW r \in Requests, body' = body, Agent!Refuse(r) \/ Agent!Fail(r) PROVE TypeOK'
  BY <1>1, <1>6, Types
  DEF Agent!Refuse, Agent!Fail, Agent!Enter, Agent!Forget, Agent!ContractTypeOK,
      Agent!PeerTable, Agent!Pending
<1>7. ASSUME body' = body, Agent!Crash PROVE TypeOK'
  BY <1>1, <1>7, Types
  DEF Agent!Crash, Agent!ContractTypeOK, Agent!PeerTable, Agent!Pending
<1>8. ASSUME body' = body, Agent!Restart \/ Agent!Operate PROVE TypeOK'
  BY <1>1, <1>8, Types
  DEF Agent!Restart, Agent!Operate, Agent!NoPeers, Agent!ContractTypeOK,
      Agent!PeerTable, Agent!Pending
<1> QED
  BY <1>2, <1>3, <1>4, <1>5, <1>6, <1>7, <1>8 DEF AgentStep

\* Which calls hold a key: no two of them the same, and none a key never generated.
LEMMA AgentKeepsMade ==
    ASSUME PInv, AgentStep
    PROVE  /\ \A r \in Requests : made'[r] # NoKey => made'[r] \in minted'
           /\ \A r, q \in Requests : r # q /\ made'[r] = made'[q] => made'[r] = NoKey
<1>0. /\ \A r \in Requests : made[r] # NoKey => made[r] \in minted
      /\ \A r, q \in Requests : r # q /\ made[r] = made[q] => made[r] = NoKey
  BY DEF PInv, AgentInv
<1>1. ASSUME NEW r \in Requests, Agent!Mint(r)
      PROVE  /\ \A q \in Requests : made'[q] # NoKey => made'[q] \in minted'
             /\ \A p, q \in Requests : p # q /\ made'[p] = made'[q] => made'[p] = NoKey
  <2>1. PICK k \in Keys \ minted :
           minted' = minted \cup {k} /\ made' = [made EXCEPT ![r] = k]
    BY <1>1 DEF Agent!Mint
  <2>2. \A q \in Requests : made'[q] = IF q = r THEN k ELSE made[q]
    BY <2>1, Types
  <2> QED
    BY <1>0, <2>1, <2>2, PanelAssumption
<1>2. ASSUME \A q \in Requests : made'[q] \in {made[q], NoKey}, minted \subseteq minted'
      PROVE  /\ \A q \in Requests : made'[q] # NoKey => made'[q] \in minted'
             /\ \A p, q \in Requests : p # q /\ made'[p] = made'[q] => made'[p] = NoKey
  BY <1>0, <1>2
<1>3. ASSUME NEW r \in Requests,
             Agent!Accept(r) \/ Agent!Apply(r) \/ Agent!Succeed(r) \/ Agent!BringUp(r)
             \/ Agent!Refuse(r) \/ Agent!Fail(r)
      PROVE  (\A q \in Requests : made'[q] \in {made[q], NoKey}) /\ minted \subseteq minted'
  BY <1>3, Types
  DEF Agent!Accept, Agent!Apply, Agent!Succeed, Agent!BringUp, Agent!Refuse, Agent!Fail,
      Agent!Forget
<1>4. ASSUME Agent!Crash \/ Agent!Restart \/ Agent!Operate
      PROVE  (\A q \in Requests : made'[q] \in {made[q], NoKey}) /\ minted \subseteq minted'
  BY <1>4 DEF Agent!Crash, Agent!Restart, Agent!Operate
<1> QED
  BY <1>1, <1>2, <1>3, <1>4 DEF AgentStep, Deliver, AgentSucceeds

\* What each call has done, from its phase.
LEMMA AgentKeepsCalls ==
    ASSUME PInv, AgentStep, NEW r \in Requests
    PROVE  /\ phase'[r] # "unsent" => call'[r] = wire'[r] /\ wire'[r] # NoCall
           /\ phase'[r] = "applied" /\ call'[r].op = "create" => made'[r] # NoKey
           /\ phase'[r] \in {"applied", "ok"} /\ call'[r].op = "delete" =>
                  live'[call'[r].key] = Absent
           /\ wire'[r] # NoCall /\ wire'[r].op = "delete" => SettledNext(wire'[r].key)
           /\ CreatedNext(r) => SettledNext(body'[r])
<1>0. /\ phase[r] # "unsent" => call[r] = wire[r] /\ wire[r] # NoCall
      /\ phase[r] = "applied" /\ call[r].op = "create" => made[r] # NoKey
      /\ phase[r] \in {"applied", "ok"} /\ call[r].op = "delete" =>
             live[call[r].key] = Absent
      /\ wire[r] # NoCall /\ wire[r].op = "delete" => Settled(wire[r].key)
      /\ Created(r) => Settled(body[r])
      /\ wire' = wire
  BY DEF PInv, AgentInv, AgentStep, handlers
<1>1. wire'[r] # NoCall /\ wire'[r].op = "delete" =>
          /\ SettledNext(wire'[r].key)
          /\ live[wire[r].key] = Absent => live'[wire[r].key] = Absent
  <2>1. SUFFICES ASSUME wire[r] # NoCall, wire[r].op = "delete"
                 PROVE  /\ SettledNext(wire[r].key)
                        /\ live[wire[r].key] = Absent => live'[wire[r].key] = Absent
    BY <1>0
  <2>2. Settled(wire[r].key) /\ wire[r].key \in Keys
    BY <1>0, <2>1, Types DEF Settled
  <2> QED
    BY <2>2, SettledStays
<1>2. Created(r) => CreatedNext(r) /\ SettledNext(body'[r])
  <2>1. SUFFICES ASSUME Created(r) PROVE CreatedNext(r) /\ SettledNext(body[r]) /\ body'[r] = body[r]
    OBVIOUS
  <2>2. Settled(body[r]) /\ body[r] \in Keys
    BY <1>0, <2>1, Types DEF Settled
  <2> QED
    BY <2>1, <2>2, SettledStays, CreatedStays DEF Created, CreatedNext
<1>3. CASE phase'[r] = phase[r] /\ call'[r] = call[r]
           /\ (phase[r] = "applied" => made'[r] = made[r])
  BY <1>0, <1>1, <1>2, <1>3 DEF Created, CreatedNext
<1>4. CASE Deliver(r)
  BY <1>0, <1>1, <1>4, Types DEF Deliver, Agent!Accept, Agent!Enter, Created, CreatedNext
<1>5. CASE Agent!Apply(r)
  <2>1. phase'[r] = "applied" /\ call' = call /\ made' = made /\ phase[r] = "sent"
        /\ (call[r].op = "create" => made[r] # NoKey)
    BY <1>5, Types DEF Agent!Apply, Agent!Enter
  <2>2. call[r].op = "delete" => live'[call[r].key] = Absent
    BY <1>5, EffectTypes
  <2> QED
    BY <1>0, <1>1, <2>1, <2>2 DEF Created, CreatedNext
<1>6. CASE AgentSucceeds(r)
  <2>1. /\ phase'[r] = "ok" /\ call' = call /\ phase[r] \in {"sent", "applied"}
        /\ call[r].op \in {"create", "delete"} => phase[r] = "applied" /\ live' = live
    BY <1>6, Types
    DEF AgentSucceeds, Agent!Succeed, Agent!BringUp, Agent!Enter
  <2>2. call[r].op = "create" => SettledNext(made[r])
    <3>1. SUFFICES ASSUME call[r].op = "create" PROVE SettledNext(made[r])
      OBVIOUS
    <3>2. made[r] # NoKey /\ made[r] \in minted
          /\ \A q \in Requests : q # r => made[q] # made[r]
      BY <1>0, <2>1, <3>1 DEF PInv, AgentInv
    <3>3. minted' = minted /\ \A q \in Requests : made'[q] = IF q = r THEN NoKey ELSE made[q]
      BY <1>6, Types DEF AgentSucceeds, Agent!Succeed, Agent!BringUp, Agent!Forget
    <3> QED
      BY <3>2, <3>3 DEF SettledNext
  <2>3. call[r].op = "create" => body'[r] = made[r]
    BY <1>6, Types DEF AgentSucceeds
  <2> QED
    BY <1>0, <1>1, <2>1, <2>2, <2>3 DEF Created, CreatedNext
<1>7. CASE Agent!Refuse(r) \/ Agent!Fail(r)
  BY <1>0, <1>1, <1>7, Types DEF Agent!Refuse, Agent!Fail, Agent!Enter, Agent!Pending, Created, CreatedNext
<1>8. CASE Agent!Crash
  BY <1>0, <1>1, <1>2, <1>8, Types DEF Agent!Crash, Agent!Pending, Created, CreatedNext
<1>9. CASE Agent!Mint(r) \/ Agent!Restart \/ Agent!Operate
  <2>1. phase' = phase /\ call' = call /\ (phase[r] = "applied" => made'[r] = made[r])
    BY <1>9 DEF Agent!Mint, Agent!Restart, Agent!Operate
  <2> QED
    BY <1>3, <2>1
<1>10. ASSUME NEW q \in Requests, q # r,
              Deliver(q) \/ Agent!Mint(q) \/ Agent!Apply(q) \/ AgentSucceeds(q)
              \/ Agent!Refuse(q) \/ Agent!Fail(q)
       PROVE  phase'[r] = phase[r] /\ call'[r] = call[r] /\ made'[r] = made[r]
  BY <1>10, Types
  DEF Deliver, AgentSucceeds, Agent!Accept, Agent!Mint, Agent!Apply, Agent!Succeed,
      Agent!BringUp, Agent!Refuse, Agent!Fail, Agent!Enter, Agent!Forget
<1> QED
  BY <1>3, <1>4, <1>5, <1>6, <1>7, <1>8, <1>9, <1>10 DEF AgentStep

\* Steps of the agent keep the invariant.
LEMMA AgentKeepsPInv == ASSUME PInv, AgentStep PROVE PInv'
<1>0. UNCHANGED <<stores, handlers>>
  BY DEF AgentStep
<1>1. TypeOK'
  BY AgentTypes
<1>2. AgentInv'
  BY AgentKeepsMade, AgentKeepsCalls DEF AgentInv, Settled, SettledNext, Created, CreatedNext
<1>3. ASSUME NEW p \in Requests, Created(p)
      PROVE  /\ CreatedNext(p) /\ body'[p] = body[p]
             /\ live[body[p]] = Absent => live'[body[p]] = Absent
  <2>1. Settled(body[p]) /\ body[p] \in Keys
    BY <1>3, Types DEF PInv, AgentInv, Settled
  <2> QED
    BY <1>3, <2>1, SettledStays, CreatedStays DEF Created, CreatedNext
<1>4. RowInv'
  BY <1>0, <1>3 DEF PInv, RowInv, RowOf, stores, Created, CreatedNext
<1>5. HandlerInv'
  <2> SUFFICES ASSUME NEW r \in Requests
               PROVE  /\ pc[r] \in StoreSteps \cup {"agent"} => job[r] \in JobType
                      /\ pc[r] \in PreCall => wire[r] = NoCall
                      /\ pc[r] = "peer" => job[r].kind \in {"revoke", "config"}
                      /\ pc[r] \in {"insert_node", "refresh_node"} => job[r].kind = "add_node"
                      /\ pc[r] \in {"node", "agent", "stamp"} /\ job[r].kind = "revoke" =>
                             CreatedNext(job[r].peer) /\ snap[r].key = body'[job[r].peer]
                      /\ pc[r] = "agent" /\ job[r].kind = "create" =>
                             wire[r] \in PanelCalls /\ wire[r].op = "create"
                      /\ pc[r] = "agent" /\ job[r].kind = "revoke" =>
                             wire[r] = [op |-> "delete", key |-> snap[r].key]
                      /\ pc[r] = "insert" => CreatedNext(r)
                      /\ pc[r] = "stamp" =>
                             job[r].kind = "revoke" /\ live'[snap[r].key] = Absent
    BY <1>0 DEF HandlerInv, HandlerKnows, handlers, Created, CreatedNext
  <2>1. pc[r] \in {"node", "agent", "stamp"} /\ job[r].kind = "revoke" =>
            job[r].peer \in Requests
    BY DEF PInv, HandlerInv, HandlerKnows, JobType, StoreSteps
  <2> QED
    BY <1>3, <2>1 DEF PInv, HandlerInv, HandlerKnows
<1> QED
  BY <1>1, <1>2, <1>4, <1>5 DEF PInv
----------------------------------------------------------------------------
(* Steps of the panel.                                                     *)

Snaps == [key : Keys \cup {NoKey}, revoked : Requests \cup {Never}]

Codes == {200, 201, 204, 404, 409, 410, 500, 502}

\* What a step of the panel leaves alone.
Elsewhere == UNCHANGED <<agentVars, body>>

StoresTyped ==
    /\ nodeRow \in {"absent", "present", "deleted"}
    /\ nodeKey \in Keys \cup {NoKey}
    /\ peers \in [Requests -> Rows \cup {NoRow}]
    /\ cache \subseteq Requests

\* The types of the panel's own variables.
LEMMA PanelTypes ==
    ASSUME PInv
    PROVE  /\ StoresTyped
           /\ pc \in [Requests -> StoreSteps \cup {"waiting", "agent"} \cup Ended]
           /\ job \in [Requests -> Jobs \cup {NoJob}]
           /\ snap \in [Requests -> Snaps]
           /\ wire \in [Requests -> PanelCalls \cup {NoCall}]
           /\ body \in [Requests -> Keys \cup {NoKey}]
           /\ answer \in [Requests -> Codes \cup {0}]
BY DEF PInv, TypeOK, StoresTyped, Snaps, Codes

\* A step that sends no call keeps what is known of the calls.
LEMMA QuietAgentInv == ASSUME PInv, Elsewhere, wire' = wire PROVE AgentInv'
BY DEF PInv, AgentInv, Settled, Created, Elsewhere, agentVars

\* A step that changes no row keeps what is known of the rows.
LEMMA QuietRowInv == ASSUME PInv, Elsewhere, peers' = peers PROVE RowInv'
BY DEF PInv, RowInv, RowOf, Created, Elsewhere, agentVars

\* A step of r's handler keeps what the others know.
LEMMA OthersKnow ==
    ASSUME PInv, Elsewhere, NEW r \in Requests, HandlerKnows(r)',
           \A q \in Requests : q # r => /\ pc'[q] = pc[q] /\ job'[q] = job[q]
                                        /\ snap'[q] = snap[q] /\ wire'[q] = wire[q]
    PROVE  HandlerInv'
BY DEF PInv, HandlerInv, HandlerKnows, Created, Elsewhere, agentVars

\* Answering an administrator keeps the invariant.
LEMMA ReplyKeeps ==
    ASSUME PInv, NEW r \in Requests, NEW code \in Codes, Reply(r, code), Elsewhere,
           UNCHANGED <<job, wire>>, StoresTyped', RowInv'
    PROVE  PInv'
<1>1. /\ pc' = [pc EXCEPT ![r] = "done"] /\ answer' = [answer EXCEPT ![r] = code]
      /\ snap' = [snap EXCEPT ![r] = NoSnap]
  BY DEF Reply, Goto
<1>2. NoSnap \in Snaps /\ "done" \in Ended
  BY DEF NoSnap, Snaps, Ended
<1>3. TypeOK'
  BY <1>1, <1>2, PanelTypes DEF PInv, TypeOK, StoresTyped, Elsewhere, agentVars, Snaps,
     Codes, Agent!ContractTypeOK
<1>4. AgentInv'
  BY QuietAgentInv
<1>5. HandlerKnows(r)'
  BY <1>1, PanelTypes DEF HandlerKnows, StoreSteps, PreCall
<1>6. HandlerInv'
  BY <1>1, <1>5, PanelTypes, OthersKnow
<1> QED
  BY <1>3, <1>4, <1>6 DEF PInv

\* So does going on to the next await, when what the handler has to know there holds.
LEMMA GotoKeeps ==
    ASSUME PInv, NEW r \in Requests, NEW step \in StoreSteps, Goto(r, step), Elsewhere,
           UNCHANGED <<wire, answer>>, StoresTyped', RowInv',
           job' \in [Requests -> Jobs \cup {NoJob}], job'[r] \in JobType,
           snap' \in [Requests -> Snaps],
           \A q \in Requests : q # r => job'[q] = job[q] /\ snap'[q] = snap[q],
           step \in PreCall => wire[r] = NoCall,
           step = "peer" => job'[r].kind \in {"revoke", "config"},
           step \in {"insert_node", "refresh_node"} => job'[r].kind = "add_node",
           step \in {"node", "stamp"} /\ job'[r].kind = "revoke" =>
               Created(job'[r].peer) /\ snap'[r].key = body[job'[r].peer],
           step = "insert" => Created(r),
           step = "stamp" => job'[r].kind = "revoke" /\ live[snap'[r].key] = Absent
    PROVE  PInv'
<1>1. pc' = [pc EXCEPT ![r] = step]
  BY DEF Goto
<1>2. TypeOK'
  BY <1>1, PanelTypes DEF PInv, TypeOK, StoresTyped, Elsewhere, agentVars, Snaps, Codes,
     Agent!ContractTypeOK
<1>3. AgentInv'
  BY QuietAgentInv
<1>4. HandlerKnows(r)'
  <2>1. pc'[r] = step /\ step # "agent"
    BY <1>1, PanelTypes DEF StoreSteps
  <2> QED
    BY <2>1 DEF HandlerKnows, Created, Elsewhere, agentVars
<1>5. HandlerInv'
  BY <1>1, <1>4, PanelTypes, OthersKnow
<1> QED
  BY <1>2, <1>3, <1>5 DEF PInv

\* So does calling the agent.
LEMMA CallKeeps ==
    ASSUME PInv, NEW r \in Requests, NEW c \in PanelCalls, CallAgent(r, c),
           pc[r] \in {"node", "refresh_node"}, Elsewhere, UNCHANGED <<stores, job>>,
           snap' \in [Requests -> Snaps],
           \A q \in Requests : q # r => snap'[q] = snap[q],
           job[r].kind = "create" => c.op = "create",
           job[r].kind = "revoke" => c = [op |-> "delete", key |-> snap[r].key]
                                     /\ pc[r] = "node" /\ snap' = snap,
           job[r].kind # "revoke" => c.op # "delete"
    PROVE  PInv'
<1>1. pc' = [pc EXCEPT ![r] = "agent"] /\ wire' = [wire EXCEPT ![r] = c] /\ answer' = answer
  BY DEF CallAgent, Goto
<1>2. /\ HandlerKnows(r) /\ pc[r] \in StoreSteps /\ wire[r] = NoCall /\ job[r] \in JobType
  BY DEF PInv, HandlerInv, HandlerKnows, StoreSteps, PreCall
<1>3. TypeOK'
  BY <1>1, PanelTypes DEF PInv, TypeOK, StoresTyped, stores, Elsewhere, agentVars, Snaps,
     Codes, Agent!ContractTypeOK
<1>4. RowInv'
  BY QuietRowInv DEF stores
<1>5. c.op = "delete" => Settled(c.key)
  <2>1. SUFFICES ASSUME c.op = "delete" PROVE Settled(c.key)
    OBVIOUS
  <2>2. c.key = body[job[r].peer] /\ Created(job[r].peer) /\ job[r].peer \in Requests
    BY <1>2, <2>1 DEF HandlerKnows, JobType
  <2> QED
    BY <2>2 DEF PInv, AgentInv
<1>6. AgentInv'
  <2>1. phase[r] = "unsent"
    BY <1>2 DEF PInv, AgentInv
  <2>2. \A q \in Requests : wire'[q] = IF q = r THEN c ELSE wire[q]
    BY <1>1, PanelTypes
  <2> QED
    BY <1>5, <2>1, <2>2 DEF PInv, AgentInv, Settled, Created, Elsewhere, agentVars
<1>7. HandlerKnows(r)'
  <2>1. pc'[r] = "agent" /\ wire'[r] = c
    BY <1>1, PanelTypes
  <2> QED
    BY <1>2, <2>1 DEF HandlerKnows, Created, Elsewhere, agentVars, PreCall
<1>8. HandlerInv'
  BY <1>1, <1>7, PanelTypes, OthersKnow
<1> QED
  BY <1>3, <1>4, <1>6, <1>8 DEF PInv
----------------------------------------------------------------------------
\* Answering without touching a store.
LEMMA QuietReply ==
    ASSUME PInv, NEW r \in Requests, NEW code \in Codes, Reply(r, code), Elsewhere,
           UNCHANGED <<stores, job, wire>>
    PROVE  PInv'
<1>1. StoresTyped'
  BY PanelTypes DEF StoresTyped, stores
<1>2. RowInv'
  BY QuietRowInv DEF stores
<1> QED
  BY <1>1, <1>2, ReplyKeeps

\* A request arrives.
LEMMA ArriveKeeps == ASSUME PInv, NEW r \in Requests, Arrive(r) PROVE PInv'
<1>1. PICK j \in Jobs : job' = [job EXCEPT ![r] = j] /\ Goto(r, FirstStep(j.kind))
  BY DEF Arrive
<1>2. j \in JobType
  BY JobAssumption
<1>3. /\ FirstStep(j.kind) \in StoreSteps \ {"stamp", "insert"}
      /\ FirstStep(j.kind) = "node" => j.kind # "revoke"
      /\ FirstStep(j.kind) = "peer" => j.kind \in {"revoke", "config"}
      /\ FirstStep(j.kind) \in {"insert_node", "refresh_node"} => j.kind = "add_node"
  BY <1>2 DEF FirstStep, StoreSteps, JobType
<1>4. wire[r] = NoCall
  BY DEF Arrive, PInv, HandlerInv, HandlerKnows, PreCall
<1>5. Elsewhere /\ UNCHANGED <<stores, snap, wire, answer>>
  BY DEF Arrive, Elsewhere
<1>6. StoresTyped' /\ RowInv'
  BY <1>5, PanelTypes, QuietRowInv DEF StoresTyped, stores
<1>7. /\ job' \in [Requests -> Jobs \cup {NoJob}] /\ job'[r] = j
      /\ \A q \in Requests : q # r => job'[q] = job[q]
  BY <1>1, PanelTypes
<1>8. snap' \in [Requests -> Snaps] /\ \A q \in Requests : snap'[q] = snap[q]
  BY <1>5, PanelTypes
<1> QED
  BY <1>1, <1>2, <1>3, <1>4, <1>5, <1>6, <1>7, <1>8, GotoKeeps

\* get_peer: the row says which key its create call brought.
LEMMA GetPeerKeeps == ASSUME PInv, NEW r \in Requests, GetPeer(r) PROVE PInv'
<1>1. /\ pc[r] = "peer" /\ Elsewhere /\ UNCHANGED <<stores, job, wire>>
      /\ job[r] \in JobType /\ job[r].kind \in {"revoke", "config"} /\ wire[r] = NoCall
  BY DEF GetPeer, Elsewhere, PInv, HandlerInv, HandlerKnows, StoreSteps, PreCall
<1>2. CASE Reply(r, 404)
  BY <1>1, <1>2, QuietReply DEF Codes
<1>3. ASSUME peers[job[r].peer] # NoRow,
             snap' = [snap EXCEPT ![r] = peers[job[r].peer]],
             Goto(r, IF job[r].kind = "revoke" THEN "node" ELSE "lookup"),
             UNCHANGED answer
      PROVE  PInv'
  <2> DEFINE p == job[r].peer
             step == IF job[r].kind = "revoke" THEN "node" ELSE "lookup"
  <2>1. p \in Requests
    BY <1>1 DEF JobType
  <2>2. Created(p) /\ peers[p].key = body[p] /\ peers[p] \in Rows
    BY <1>3, <2>1, PanelTypes DEF PInv, RowInv, RowOf, StoresTyped
  <2>3. peers[p] \in Snaps
    BY <2>2 DEF Rows, Snaps
  <2>4. /\ snap' \in [Requests -> Snaps] /\ snap'[r] = peers[p]
        /\ \A q \in Requests : q # r => snap'[q] = snap[q]
    BY <1>3, <2>3, PanelTypes
  <2>5. StoresTyped' /\ RowInv'
    BY <1>1, PanelTypes, QuietRowInv DEF StoresTyped, stores
  <2>6. job' \in [Requests -> Jobs \cup {NoJob}] /\ job' = job
    BY <1>1, PanelTypes
  <2>7. step \in StoreSteps /\ step \in {"node", "lookup"} /\ Goto(r, step)
    BY <1>3 DEF StoreSteps
  <2> QED
    BY <1>1, <1>3, <2>2, <2>4, <2>5, <2>6, <2>7, GotoKeeps
<1> QED
  BY <1>2, <1>3 DEF GetPeer

\* Going on with no change to a store or to what the handler holds.
LEMMA ContinueKeeps ==
    ASSUME PInv, NEW r \in Requests, NEW step \in StoreSteps, Continue(r, step), Elsewhere,
           UNCHANGED <<job, wire>>, StoresTyped', RowInv', pc[r] \in StoreSteps \cup {"agent"},
           step \notin {"peer", "node"},
           step \in {"insert_node", "refresh_node"} => job[r].kind = "add_node",
           step \in PreCall => wire[r] = NoCall,
           step = "insert" => Created(r),
           step = "stamp" => /\ job[r].kind = "revoke" /\ live[snap[r].key] = Absent
                             /\ Created(job[r].peer) /\ snap[r].key = body[job[r].peer]
    PROVE  PInv'
<1>1. Goto(r, step) /\ UNCHANGED <<answer, snap>> /\ job[r] \in JobType
  BY DEF Continue, PInv, HandlerInv, HandlerKnows
<1>2. job' \in [Requests -> Jobs \cup {NoJob}] /\ job' = job
      /\ snap' \in [Requests -> Snaps] /\ snap' = snap
  BY <1>1, PanelTypes
<1> QED
  BY <1>1, <1>2, GotoKeeps

\* get_node and what follows it: a revoke calls with the key it has read.
LEMMA GetNodeKeeps == ASSUME PInv, NEW r \in Requests, GetNode(r) PROVE PInv'
<1>1. /\ pc[r] = "node" /\ Elsewhere /\ UNCHANGED <<stores, job>>
      /\ job[r] \in JobType /\ wire[r] = NoCall
  BY DEF GetNode, Elsewhere, PInv, HandlerInv, HandlerKnows, StoreSteps, PreCall
<1>2. ASSUME NEW code \in {404, 409}, Reply(r, code), UNCHANGED wire PROVE PInv'
  BY <1>1, <1>2, QuietReply DEF Codes
<1>3. ASSUME job[r].kind = "create", CallAgent(r, [op |-> "create", ips |-> job[r].ips]),
             UNCHANGED snap
      PROVE  PInv'
  <2>1. [op |-> "create", ips |-> job[r].ips] \in PanelCalls
    BY <1>1, <1>3 DEF JobType, PanelCalls
  <2> QED
    BY <1>1, <1>3, <2>1, PanelTypes, CallKeeps
<1>4. ASSUME job[r].kind = "revoke", CallAgent(r, [op |-> "delete", key |-> snap[r].key]),
             UNCHANGED snap
      PROVE  PInv'
  <2>1. Created(job[r].peer) /\ snap[r].key = body[job[r].peer] /\ job[r].peer \in Requests
    BY <1>1, <1>4 DEF PInv, HandlerInv, HandlerKnows, JobType
  <2>2. snap[r].key \in Keys
    BY <2>1, Types DEF PInv, AgentInv, Settled
  <2>3. [op |-> "delete", key |-> snap[r].key] \in PanelCalls
    BY <2>2 DEF PanelCalls
  <2> QED
    BY <1>1, <1>4, <2>3, PanelTypes, CallKeeps
<1>5. ASSUME job[r].kind = "retry_init", CallAgent(r, [op |-> "init"]),
             snap' = [snap EXCEPT ![r].key = nodeKey]
      PROVE  PInv'
  <2>1. [op |-> "init"] \in PanelCalls /\ [op |-> "init"].op # "delete"
    BY DEF PanelCalls
  <2>2. snap' \in [Requests -> Snaps] /\ \A q \in Requests : q # r => snap'[q] = snap[q]
    BY <1>5, PanelTypes DEF Snaps, StoresTyped
  <2> QED
    BY <1>1, <1>5, <2>1, <2>2, CallKeeps
<1>6. ASSUME Continue(r, "delete_node"), UNCHANGED wire PROVE PInv'
  <2>1. StoresTyped' /\ RowInv'
    BY <1>1, PanelTypes, QuietRowInv DEF StoresTyped, stores
  <2> QED
    BY <1>1, <1>6, <2>1, ContinueKeeps DEF StoreSteps
<1> QED
  BY <1>2, <1>3, <1>4, <1>5, <1>6 DEF GetNode

\* The agent's success: what the call has done is still so when its answer is read.
LEMMA HearSuccessKeeps == ASSUME PInv, NEW r \in Requests, HearSuccess(r) PROVE PInv'
<1>1. /\ pc[r] = "agent" /\ phase[r] = "ok" /\ Elsewhere /\ UNCHANGED <<stores, job, wire>>
      /\ Continue(r, AfterCall(job[r].kind)) /\ job[r] \in JobType
      /\ HandlerKnows(r)
  BY DEF HearSuccess, Elsewhere, PInv, HandlerInv, HandlerKnows
<1>2. /\ AfterCall(job[r].kind) \in {"insert", "stamp", "save_key"}
      /\ AfterCall(job[r].kind) = "insert" => job[r].kind = "create"
      /\ AfterCall(job[r].kind) = "stamp" => job[r].kind = "revoke"
  BY DEF AfterCall
<1>3. call[r] = wire[r]
      /\ (call[r].op = "delete" => live[call[r].key] = Absent)
  BY <1>1 DEF PInv, AgentInv
<1>4. job[r].kind = "create" => Created(r)
  BY <1>1, <1>3 DEF HandlerKnows, Created
<1>5. job[r].kind = "revoke" => /\ live[snap[r].key] = Absent
                                /\ Created(job[r].peer) /\ snap[r].key = body[job[r].peer]
  BY <1>1, <1>3 DEF HandlerKnows
<1>6. StoresTyped' /\ RowInv'
  BY <1>1, PanelTypes, QuietRowInv DEF StoresTyped, stores
<1> QED
  BY <1>1, <1>2, <1>4, <1>5, <1>6, ContinueKeeps DEF StoreSteps, PreCall

\* create_peer commits the row of a key its call has brought, and which no call holds.
LEMMA InsertPeerKeeps == ASSUME PInv, NEW r \in Requests, InsertPeer(r) PROVE PInv'
<1>1. /\ pc[r] = "insert" /\ Elsewhere /\ UNCHANGED <<nodeRow, nodeKey, cache, job, wire>>
      /\ Created(r)
  BY DEF InsertPeer, Elsewhere, PInv, HandlerInv, HandlerKnows
<1>2. CASE Reply(r, 500) /\ UNCHANGED peers
  BY <1>1, <1>2, QuietReply DEF Codes, stores
<1>3. ASSUME peers' = [peers EXCEPT ![r] = [key |-> body[r], revoked |-> Never]],
             Continue(r, "refresh")
      PROVE  PInv'
  <2>1. body[r] \in Keys
    BY <1>1, Types DEF PInv, AgentInv, Settled
  <2>2. [key |-> body[r], revoked |-> Never] \in Rows
    BY <2>1 DEF Rows
  <2>3. StoresTyped'
    BY <1>1, <1>3, <2>2, PanelTypes DEF StoresTyped
  <2>4. \A p \in Requests : peers'[p] = IF p = r THEN [key |-> body[r], revoked |-> Never]
                                        ELSE peers[p]
    BY <1>3, PanelTypes DEF StoresTyped
  <2>5. RowInv'
    BY <1>1, <2>4 DEF PInv, RowInv, RowOf, Created, Elsewhere, agentVars
  <2> QED
    BY <1>1, <1>3, <2>3, <2>5, ContinueKeeps DEF StoreSteps, PreCall
<1> QED
  BY <1>2, <1>3 DEF InsertPeer

\* revoke_peer stamps a row whose key has lost its access.
LEMMA StampPeerKeeps == ASSUME PInv, NEW r \in Requests, StampPeer(r) PROVE PInv'
<1> DEFINE p == job[r].peer
<1>1. /\ pc[r] = "stamp" /\ Elsewhere /\ UNCHANGED <<nodeRow, nodeKey, cache, job, wire>>
      /\ job[r] \in JobType /\ job[r].kind = "revoke" /\ live[snap[r].key] = Absent
      /\ Created(p) /\ snap[r].key = body[p]
  BY DEF StampPeer, Elsewhere, PInv, HandlerInv, HandlerKnows, StoreSteps
<1>2. p \in Requests
  BY <1>1 DEF JobType
<1>3. CASE Reply(r, 500) /\ UNCHANGED peers
  BY <1>1, <1>3, QuietReply DEF Codes, stores
<1>4. CASE Continue(r, "uncache") /\ UNCHANGED peers
  <2>1. StoresTyped' /\ RowInv'
    BY <1>1, <1>4, PanelTypes, QuietRowInv DEF StoresTyped
  <2> QED
    BY <1>1, <1>4, <2>1, ContinueKeeps DEF StoreSteps, PreCall
<1>5. ASSUME peers[p] # NoRow, peers' = [peers EXCEPT ![p].revoked = r],
             Continue(r, "uncache")
      PROVE  PInv'
  <2>1. peers[p] \in Rows
    BY <1>2, <1>5, PanelTypes DEF StoresTyped
  <2>2. peers'[p] = [peers[p] EXCEPT !.revoked = r]
    BY <1>2, <1>5, PanelTypes DEF StoresTyped
  <2>3. peers'[p] \in Rows /\ peers'[p].key = peers[p].key
    BY <2>1, <2>2 DEF Rows
  <2>4. \A q \in Requests : q # p => peers'[q] = peers[q]
    BY <1>5, PanelTypes DEF StoresTyped
  <2>5. peers' \in [Requests -> Rows \cup {NoRow}]
    BY <1>2, <1>5, <2>2, <2>3, PanelTypes DEF StoresTyped
  <2>6. StoresTyped'
    BY <1>1, <2>5, PanelTypes DEF StoresTyped
  <2>7. RowInv'
    BY <1>1, <1>2, <1>5, <2>3, <2>4 DEF PInv, RowInv, RowOf, Created, Elsewhere, agentVars
  <2> QED
    BY <1>1, <1>5, <2>6, <2>7, ContinueKeeps DEF StoreSteps, PreCall
<1> QED
  BY <1>3, <1>4, <1>5 DEF StampPeer

\* Steps that change neither a row of `peers' nor what a handler holds: they answer, or
\* go on to an await at which nothing has to be known.
LEMMA PlainKeeps ==
    ASSUME PInv, NEW r \in Requests, pc[r] \in StoreSteps, Elsewhere,
           UNCHANGED <<peers, job, wire>>, StoresTyped',
           \/ \E code \in Codes : Reply(r, code)
           \/ \E step \in {"cache", "refresh_key"} : Continue(r, step)
           \/ Continue(r, "refresh_node") /\ pc[r] = "insert_node"
    PROVE  PInv'
<1>1. RowInv'
  BY QuietRowInv
<1>2. ASSUME NEW code \in Codes, Reply(r, code) PROVE PInv'
  BY <1>1, <1>2, ReplyKeeps
<1>3. ASSUME NEW step \in {"cache", "refresh_key"}, Continue(r, step) PROVE PInv'
  BY <1>1, <1>3, ContinueKeeps DEF StoreSteps, PreCall
<1>4. ASSUME Continue(r, "refresh_node"), pc[r] = "insert_node" PROVE PInv'
  <2>1. wire[r] = NoCall /\ job[r].kind = "add_node"
    BY <1>4 DEF PInv, HandlerInv, HandlerKnows, PreCall
  <2> QED
    BY <1>1, <1>4, <2>1, ContinueKeeps DEF StoreSteps
<1> QED
  BY <1>2, <1>3, <1>4

\* The rest of create_peer, revoke_peer and redownload_config.
LEMMA PeerStepsKeep ==
    ASSUME PInv, NEW r \in Requests,
           RefreshPeer(r) \/ CacheConfig(r) \/ UncacheConfig(r) \/ LookupConfig(r)
    PROVE  PInv'
<1>1. /\ pc[r] \in StoreSteps /\ Elsewhere /\ UNCHANGED <<nodeRow, nodeKey, peers, job, wire>>
  BY DEF RefreshPeer, CacheConfig, UncacheConfig, LookupConfig, Elsewhere, StoreSteps, stores
<1>2. cache' \subseteq cache \cup {r}
  BY DEF RefreshPeer, CacheConfig, UncacheConfig, LookupConfig, stores
<1>3. StoresTyped'
  BY <1>1, <1>2, PanelTypes DEF StoresTyped
<1>4. \/ \E code \in Codes : Reply(r, code)
      \/ \E step \in {"cache", "refresh_key"} : Continue(r, step)
  BY DEF RefreshPeer, CacheConfig, UncacheConfig, LookupConfig, Codes
<1> QED
  BY <1>1, <1>3, <1>4, PlainKeeps

\* create_node and retry_init, but for the call.
LEMMA NodeStepsKeep ==
    ASSUME PInv, NEW r \in Requests, InsertNode(r) \/ SaveKey(r) \/ RefreshKey(r)
    PROVE  PInv'
<1>1. /\ pc[r] \in StoreSteps /\ Elsewhere /\ UNCHANGED <<peers, cache, job, wire>>
  BY DEF InsertNode, SaveKey, RefreshKey, Elsewhere, StoreSteps, stores
<1>2. StoresTyped'
  BY <1>1, PanelTypes DEF InsertNode, SaveKey, RefreshKey, StoresTyped, stores
<1>3. \/ \E code \in Codes : Reply(r, code)
      \/ \E step \in {"cache", "refresh_key"} : Continue(r, step)
      \/ Continue(r, "refresh_node") /\ pc[r] = "insert_node"
  BY DEF InsertNode, SaveKey, RefreshKey, Codes
<1> QED
  BY <1>1, <1>2, <1>3, PlainKeeps

\* create_node calls the agent for the row it has committed.
LEMMA RefreshNodeKeeps == ASSUME PInv, NEW r \in Requests, RefreshNode(r) PROVE PInv'
<1>1. /\ pc[r] = "refresh_node" /\ Elsewhere /\ UNCHANGED <<stores, job>>
  BY DEF RefreshNode, Elsewhere
<1>2. CASE Reply(r, 500) /\ UNCHANGED wire
  BY <1>1, <1>2, QuietReply DEF Codes
<1>3. ASSUME CallAgent(r, [op |-> "init"]), snap' = [snap EXCEPT ![r].key = nodeKey]
      PROVE  PInv'
  <2>1. [op |-> "init"] \in PanelCalls /\ [op |-> "init"].op # "delete"
    BY DEF PanelCalls
  <2>2. snap' \in [Requests -> Snaps] /\ \A q \in Requests : q # r => snap'[q] = snap[q]
    BY <1>3, PanelTypes DEF Snaps, StoresTyped
  <2>3. job[r].kind \notin {"create", "revoke"}
    BY <1>1 DEF PInv, HandlerInv, HandlerKnows
  <2> QED
    BY <1>1, <1>3, <2>1, <2>2, <2>3, CallKeeps
<1> QED
  BY <1>2, <1>3 DEF RefreshNode

\* A failure or a timeout is answered whatever the call did.
LEMMA FailuresKeep ==
    ASSUME PInv, NEW r \in Requests, HearFailure(r) \/ StoreFails(r) PROVE PInv'
BY QuietReply DEF HearFailure, StoreFails, Elsewhere, Codes

\* delete_node takes every row with it.
LEMMA DeleteNodeKeeps == ASSUME PInv, NEW r \in Requests, DeleteNode(r) PROVE PInv'
<1>1. /\ Elsewhere /\ UNCHANGED <<job, wire>> /\ Reply(r, 204)
      /\ nodeRow' = "deleted" /\ nodeKey' = NoKey /\ cache' = cache
      /\ peers' = [p \in Requests |-> NoRow]
  BY DEF DeleteNode, Elsewhere
<1>2. StoresTyped'
  BY <1>1, PanelTypes DEF StoresTyped
<1>3. RowInv'
  BY <1>1 DEF RowInv, RowOf
<1> QED
  BY <1>1, <1>2, <1>3, ReplyKeeps DEF Codes

\* A crash of the panel loses what its handlers knew, and nothing else.
LEMMA PanelCrashKeeps == ASSUME PInv, PanelCrash PROVE PInv'
<1>1. PICK pending \in SUBSET Requests :
        /\ pending = {r \in Requests : pc[r] \notin Ended \cup {"waiting"}}
        /\ pc' = [r \in Requests |-> IF r \in pending THEN "lost" ELSE pc[r]]
        /\ snap' = [r \in Requests |-> IF r \in pending THEN NoSnap ELSE snap[r]]
  BY DEF PanelCrash
<1>2. Elsewhere /\ UNCHANGED <<stores, job, wire, answer>>
  BY DEF PanelCrash, Elsewhere
<1>3. NoSnap \in Snaps /\ "lost" \in Ended
  BY DEF NoSnap, Snaps, Ended
<1>4. TypeOK'
  BY <1>1, <1>2, <1>3, PanelTypes
  DEF PInv, TypeOK, StoresTyped, stores, Elsewhere, agentVars, Snaps, Codes,
      Agent!ContractTypeOK
<1>5. AgentInv' /\ RowInv'
  BY <1>2, QuietAgentInv, QuietRowInv DEF stores
<1>6. HandlerInv'
  <2>1. \A r \in Requests : pc'[r] \in {"waiting", "done", "lost"}
    BY <1>1 DEF Ended
  <2>2. \A r \in Requests : pc'[r] = "waiting" => pc[r] = "waiting"
    BY <1>1
  <2> QED
    BY <1>2, <2>1, <2>2 DEF PInv, HandlerInv, HandlerKnows, StoreSteps, PreCall
<1> QED
  BY <1>4, <1>5, <1>6 DEF PInv

\* A step that leaves the calls, the rows and the handlers alone.
LEMMA IdleKeeps ==
    ASSUME PInv, Elsewhere, UNCHANGED <<nodeRow, nodeKey, peers, handlers>>,
           cache' \subseteq Requests
    PROVE  PInv'
<1>1. TypeOK'
  BY DEF PInv, TypeOK, Elsewhere, agentVars, handlers, Agent!ContractTypeOK
<1>2. AgentInv' /\ RowInv'
  BY QuietAgentInv, QuietRowInv DEF handlers
<1>3. HandlerInv'
  BY DEF PInv, HandlerInv, HandlerKnows, Created, Elsewhere, agentVars, handlers
<1> QED
  BY <1>1, <1>2, <1>3 DEF PInv

\* Every step keeps the invariant.
LEMMA PInvStep == PInv /\ [Next]_vars => PInv'
<1> SUFFICES ASSUME PInv, [Next]_vars PROVE PInv'
  OBVIOUS
<1>1. ASSUME NEW r \in Requests, Arrive(r) PROVE PInv'
  BY <1>1, ArriveKeeps
<1>2. ASSUME NEW r \in Requests, PanelStep(r) PROVE PInv'
  BY <1>2, GetPeerKeeps, GetNodeKeeps, HearSuccessKeeps, FailuresKeep, InsertPeerKeeps,
     StampPeerKeeps, PeerStepsKeep, NodeStepsKeep, RefreshNodeKeeps, DeleteNodeKeeps
  DEF PanelStep
<1>3. CASE AgentStep
  BY <1>3, AgentKeepsPInv
<1>4. CASE PanelCrash
  BY <1>4, PanelCrashKeeps
<1>5. CASE Expire
  <2>1. Elsewhere /\ UNCHANGED <<nodeRow, nodeKey, peers, handlers>> /\ cache' \subseteq cache
    BY <1>5 DEF Expire, Elsewhere
  <2> QED
    BY <2>1, IdleKeeps, PanelTypes DEF StoresTyped
<1>6. CASE UNCHANGED vars
  <2>1. Elsewhere /\ UNCHANGED <<nodeRow, nodeKey, peers, handlers>> /\ cache' = cache
    BY <1>6 DEF vars, stores, Elsewhere
  <2> QED
    BY <2>1, IdleKeeps, PanelTypes DEF StoresTyped
<1> QED
  BY <1>1, <1>2, <1>3, <1>4, <1>5, <1>6 DEF Next
----------------------------------------------------------------------------
\* The invariant holds in every reachable state.
LEMMA PInvAlways == Spec => []PInv
BY PInvInit, PInvStep, PTL DEF Spec

\* The state is always well typed: no step leaves a row, a call or a handler's local
\* malformed, whatever agent and panel do to each other.
THEOREM PanelTypeCorrect == Spec => []TypeOK
<1>1. PInv => TypeOK
  BY DEF PInv
<1> QED
  BY <1>1, PInvAlways, PTL

\* A peer whose row carries a revoked_at has no access, at any later time: no call still
\* on its way to the agent, no retry and no restart brings its key back.
THEOREM RevokedStaysGone == Spec => []RevokedIsGone
<1>1. PInv => RevokedIsGone
  BY DEF PInv, RowInv, RevokedIsGone
<1> QED
  BY <1>1, PInvAlways, PTL
============================================================================
