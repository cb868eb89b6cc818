---------------------- MODULE AwgNodeRefinementProofs ----------------------
(***************************************************************************)
(* AwgNode implements AgentContract, for every choice of the constants.    *)
(* Every exec of a handler is one step of the contract or none.            *)
(***************************************************************************)
EXTENDS AwgNodeRefinement, AwgNodeProofs

\* A text that can be brought up has no peer in it.
NoPeersIn(text) == text \in Conf => text.peers = Empty

\* What the mapping needs beyond IInv: an interface that is down has no key and no
\* peers, a file that can bring it up has no peers, a node that server/init is bringing up
\* has none either, a handler that adds a peer has a key for it, and an answer has a code.
MapInv ==
    /\ ~iface.up => iface = Down
    /\ NoPeersIn(disk)
    /\ \A r \in Requests :
          /\ pc[r] = "create_add" => reg[r].made \in Keys
          /\ pc[r] = "init_sync" => NoPeersIn(reg[r].text)
          /\ pc[r] \in BringUpSteps => iface.peers = Empty
          /\ pc[r] = "done" => reply[r].code # 0

\* The steps at which a handler holds the key it has generated.
HoldsKey(step, c) ==
    \/ step \in {"create_add", "create_status", "init_write", "init_strip", "init_sync", "init_up"}
    \/ step \in PersistSteps /\ c.op = "create"

KeyMade == \A r \in Requests : reg[r].made # NoKey <=> HoldsKey(pc[r], call[r])

RInv == IInv /\ MapInv /\ KeyMade

\* The refinement invariant holds initially.
LEMMA MapInit == Init => MapInv
BY DiskAssumption DEF Init, MapInv, NoPeersIn, BringUpSteps, InitSteps

\* The steps of server/init after its check.
LEMMA BringUpNames ==
    /\ BringUpSteps = {"init_key", "init_write", "init_strip", "init_sync", "init_up"}
    /\ BringUpSteps \subseteq Steps /\ BringUpSteps \subseteq InitSteps
BY DEF BringUpSteps, InitSteps, Steps

\* While server/init brings a node up, no other handler is at a step.
LEMMA BringUpAlone ==
    ASSUME RInv, NEW r \in Requests, NEW q \in Requests, q # r, pc[q] \in BringUpSteps
    PROVE  pc[r] \notin Steps
BY Alone DEF RInv, BringUpSteps, Steps

\* An answer keeps the refinement invariant.
LEMMA AnswerMapInv ==
    ASSUME RInv, TypeInv', NEW r \in Requests,
           NEW code \in {200, 201, 400, 401, 404, 500, 503}, NEW key, Answer(r, code, key),
           disk' = disk \/ disk' = Unexpanded,
           iface' = iface \/ pc[r] \in Steps,
           ~iface'.up => iface' = Down
    PROVE  MapInv'
<1>1. ASSUME NEW q \in Requests, q # r
      PROVE  pc'[q] = pc[q] /\ reg'[q] = reg[q] /\ reply'[q] = reply[q]
  BY <1>1 DEF Answer, Goto, RInv, IInv, TypeInv, TypeOK
<1>2. pc'[r] = "done" /\ reply'[r].code # 0
  BY DEF Answer, Goto, RInv, IInv, TypeInv, TypeOK
<1>3. \A q \in Requests : q # r /\ pc[q] \in BringUpSteps => iface' = iface
  BY BringUpAlone
<1>4. "done" \notin BringUpSteps
  BY DEF BringUpSteps, InitSteps
<1> QED
  BY <1>1, <1>2, <1>3, <1>4, DiskAssumption DEF MapInv, RInv, NoPeersIn

\* A handler that goes on keeps it.
LEMMA GotoMapInv ==
    ASSUME RInv, TypeInv', NEW r \in Requests, NEW step, step # "done", Goto(r, step),
           reply' = reply, \A q \in Requests : q # r => reg'[q] = reg[q],
           step = "create_add" => reg'[r].made \in Keys,
           step = "init_sync" => reg'[r].text = disk,
           step \in BringUpSteps => iface'.peers = Empty,
           disk' = disk \/ disk' = Unexpanded,
           iface' = iface \/ pc[r] \in Steps,
           ~iface'.up => iface' = Down
    PROVE  MapInv'
<1>1. ASSUME NEW q \in Requests, q # r
      PROVE  pc'[q] = pc[q] /\ reg'[q] = reg[q]
  BY <1>1 DEF Goto, RInv, IInv, TypeInv, TypeOK
<1>2. pc'[r] = step
  BY GotoSets DEF RInv, IInv
<1>3. \A q \in Requests : q # r /\ pc[q] \in BringUpSteps => iface' = iface
  BY BringUpAlone
<1> QED
  BY <1>1, <1>2, <1>3, DiskAssumption DEF MapInv, RInv, NoPeersIn

\* Every exec of a handler keeps it.
LEMMA HandlerMapInv ==
    ASSUME RInv, TypeInv', NEW r \in Requests, HandlerStep(r) PROVE MapInv'
<1>0. /\ TypeInv /\ reg \in [Requests -> Registers] /\ (~iface.up => iface = Down)
      /\ iface \in Interface /\ NoPeersIn(disk)
      /\ (iface.up => iface.key # NoKey)
      /\ (pc[r] \in BringUpSteps => iface.peers = Empty)
  BY ValuesAssumption DEF RInv, IInv, TypeInv, TypeOK, LocalsSet, MapInv
<1>s. pc[r] \in Steps
  BY StepNames
  DEF HandlerStep, CreateKey, AddPeer, CreateStatus, RemovePeerStep, UpdatePeer,
      PersistKey, PersistDump, PersistWrite, InitStatus, InitKey, InitWrite, InitStrip,
      InitSync, InitUp, StatusLookup, StatusExec, GenerateKeypair
<1>1. CASE CreateKey(r) \/ InitKey(r)
  <2>1. ASSUME Running PROVE MapInv'
    <3>1. /\ \/ Goto(r, "create_add")
             \/ Goto(r, "init_write") /\ pc[r] = "init_key"
          /\ UNCHANGED <<iface, disk, reply>>
      BY <1>1, <2>1 DEF CreateKey, InitKey, GenerateKeypair
    <3>2. PICK k \in Keys : reg' = [reg EXCEPT ![r].made = k]
      BY <1>1, <2>1 DEF CreateKey, InitKey, GenerateKeypair
    <3>3. reg'[r].made \in Keys /\ \A q \in Requests : q # r => reg'[q] = reg[q]
      BY <1>0, <1>s, <3>2 DEF Registers
    <3> QED
      BY <1>0, <1>s, <3>1, <3>3, GotoMapInv, BringUpNames
  <2>2. ASSUME ~Running PROVE MapInv'
    BY <1>0, <1>s, <1>1, <2>2, AnswerMapInv DEF CreateKey, InitKey, GenerateKeypair, Raise
  <2> QED
    BY <2>1, <2>2
<1>2. CASE AddPeer(r)
  <2>1. ~iface'.up => iface' = Down
    BY <1>0, <1>s, <1>2, SetPeerType DEF AddPeer, SetWorks
  <2> QED
    BY <1>s, <1>2, <2>1, AnswerMapInv, GotoMapInv, BringUpNames DEF AddPeer, Raise
<1>3. CASE RemovePeerStep(r)
  <2>1. ~iface'.up => iface' = Down
    BY <1>0, <1>s, <1>3, RemovePeerType DEF RemovePeerStep, DumpWorks
  <2> QED
    BY <1>s, <1>3, <2>1, AnswerMapInv, GotoMapInv, BringUpNames DEF RemovePeerStep, Raise
<1>4. CASE UpdatePeer(r)
  <2>1. ~iface'.up => iface' = Down
    BY <1>0, <1>s, <1>4, SetPeerType DEF UpdatePeer, SetWorks
  <2> QED
    BY <1>s, <1>4, <2>1, AnswerMapInv, GotoMapInv, BringUpNames DEF UpdatePeer, Raise
<1>5. CASE PersistKey(r) \/ PersistDump(r) \/ PersistWrite(r) \/ CreateStatus(r)
  BY <1>0, <1>s, <1>5, AnswerMapInv, GotoMapInv, BringUpNames
  DEF PersistKey, PersistDump, PersistWrite, CreateStatus, WriteServerConfig, Raise, node
<1>6. CASE InitStatus(r) \/ InitWrite(r)
  <2>1. pc[r] = "init_status" /\ StatusKey = NoKey => iface.peers = Empty
    BY <1>0 DEF StatusKey, Down
  <2> QED
    BY <2>1, <1>0, <1>s, <1>6, AnswerMapInv, GotoMapInv, BringUpNames
    DEF InitStatus, InitWrite, WriteServerConfig, Raise, node
<1>9. CASE InitStrip(r)
  <2>1. \/ Goto(r, "init_up") /\ UNCHANGED reg
        \/ /\ Goto(r, "init_sync") /\ reg'[r].text = disk
           /\ \A q \in Requests : q # r => reg'[q] = reg[q]
    <3>1. [reg[r] EXCEPT !.text = disk].text = disk
      BY <1>0 DEF Registers
    <3> QED
      BY <1>0, <1>s, <1>9, <3>1 DEF InitStrip
  <2> QED
    BY <1>0, <1>s, <1>9, <2>1, GotoMapInv, BringUpNames DEF InitStrip, node
<1>7. CASE InitSync(r) \/ InitUp(r)
  BY <1>0, <1>s, <1>7, AnswerMapInv, GotoMapInv, BringUpNames, UpWithType
  DEF InitSync, InitUp, Raise, Parses, UpWorks
<1>8. CASE StatusLookup(r) \/ StatusExec(r)
  BY <1>0, <1>s, <1>8, AnswerMapInv, GotoMapInv, BringUpNames DEF StatusLookup, StatusExec, Raise, node
<1> QED
  BY <1>1, <1>2, <1>3, <1>4, <1>5, <1>6, <1>7, <1>8, <1>9 DEF HandlerStep

----------------------------------------------------------------------------
(* Which handlers hold a key.                                              *)

\* A step of one request, after which it holds a key if its new step says so.
LEMMA KeyMadeOf ==
    ASSUME IInv, KeyMade, NEW r \in Requests, NEW step, Goto(r, step),
           \A q \in Requests : q # r => reg'[q].made = reg[q].made /\ call'[q] = call[q],
           reg'[r].made # NoKey <=> HoldsKey(step, call'[r])
    PROVE  KeyMade'
BY DEF KeyMade, HoldsKey, Goto, IInv, TypeInv, TypeOK

\* An answer leaves none.
LEMMA KeyMadeAnswered ==
    ASSUME IInv, KeyMade, NEW r \in Requests, NEW code, NEW key, Answer(r, code, key),
           call' = call
    PROVE  KeyMade'
<1>1. reg'[r].made = NoKey /\ \A q \in Requests : q # r => reg'[q] = reg[q]
  BY DEF Answer, Blank, IInv, TypeInv, TypeOK
<1>2. ~ HoldsKey("done", call'[r])
  BY DEF HoldsKey, PersistSteps
<1> QED
  BY <1>1, <1>2, KeyMadeOf DEF Answer

\* Every exec of a handler takes and keeps its key as its step says.
LEMMA KeyMadeHandler ==
    ASSUME IInv, KeyMade, NEW r \in Requests, HandlerStep(r) PROVE KeyMade'
<1>0. /\ reg \in [Requests -> Registers] /\ call' = call
      /\ reg[r].made # NoKey <=> HoldsKey(pc[r], call[r])
  BY DEF KeyMade, IInv, TypeInv, TypeOK, HandlerStep, CreateKey, AddPeer, CreateStatus,
         RemovePeerStep, UpdatePeer, PersistKey, PersistDump, PersistWrite, InitStatus,
         InitKey, InitWrite, InitStrip, InitSync, InitUp, StatusLookup, StatusExec,
         GenerateKeypair, node
<1>1. ASSUME NEW code, NEW key, Answer(r, code, key) PROVE KeyMade'
  BY <1>0, <1>1, KeyMadeAnswered
<1>2. ASSUME NEW step, Goto(r, step), UNCHANGED reg,
             HoldsKey(step, call[r]) <=> HoldsKey(pc[r], call[r])
      PROVE  KeyMade'
  BY <1>0, <1>2, KeyMadeOf
<1>3. CASE CreateKey(r) \/ InitKey(r)
  <2>1. ASSUME NEW k \in Keys, reg' = [reg EXCEPT ![r].made = k],
               Goto(r, "create_add") \/ Goto(r, "init_write")
        PROVE  KeyMade'
    <3>1. reg'[r].made # NoKey /\ \A q \in Requests : q # r => reg'[q] = reg[q]
      BY <1>0, <2>1, ValuesAssumption DEF Registers
    <3> QED
      BY <1>0, <2>1, <3>1, KeyMadeOf DEF HoldsKey
  <2> QED
    BY <1>1, <1>3, <2>1 DEF CreateKey, InitKey, GenerateKeypair, Raise
<1>4. CASE AddPeer(r) \/ RemovePeerStep(r) \/ UpdatePeer(r)
  BY <1>1, <1>2, <1>4
  DEF AddPeer, RemovePeerStep, UpdatePeer, Raise, HoldsKey, PersistSteps, IInv,
      HandlersConsistent, StepsOfCall, CreateSteps
<1>5. ASSUME NEW step, Goto(r, step), step \in PersistSteps, pc[r] \in PersistSteps,
             reg'[r].made = reg[r].made, \A q \in Requests : q # r => reg'[q] = reg[q]
      PROVE  KeyMade'
  BY <1>0, <1>5, KeyMadeOf DEF HoldsKey, PersistSteps
<1>6. CASE PersistKey(r) \/ PersistDump(r)
  <2>1. CASE Answer(r, 500, NoKey)
    BY <1>1, <2>1
  <2>2. CASE \/ reg' = [reg EXCEPT ![r].key = iface.key] /\ Goto(r, "persist_dump")
             \/ reg' = [reg EXCEPT ![r].peers = StatusPeers] /\ Goto(r, "persist_write")
    <3>1. reg'[r].made = reg[r].made /\ \A q \in Requests : q # r => reg'[q] = reg[q]
      BY <1>0, <2>2 DEF Registers
    <3>2. pc[r] \in PersistSteps
      BY <1>6 DEF PersistKey, PersistDump, PersistSteps
    <3> QED
      BY <2>2, <3>1, <3>2, <1>5 DEF PersistSteps
  <2> QED
    BY <1>6, <2>1, <2>2 DEF PersistKey, PersistDump, Raise
<1>7. CASE PersistWrite(r) \/ CreateStatus(r)
  BY <1>1, <1>2, <1>7 DEF PersistWrite, CreateStatus, Raise, HoldsKey, PersistSteps
<1>8. CASE InitStatus(r) \/ InitWrite(r) \/ InitSync(r) \/ InitUp(r)
  BY <1>1, <1>2, <1>8
  DEF InitStatus, InitWrite, InitSync, InitUp, Raise, HoldsKey, PersistSteps
<1>9. CASE InitStrip(r)
  <2>1. CASE reg' = [reg EXCEPT ![r].text = disk] /\ Goto(r, "init_sync")
    <3>1. reg'[r].made = reg[r].made /\ \A q \in Requests : q # r => reg'[q] = reg[q]
      BY <1>0, <2>1 DEF Registers
    <3> QED
      BY <1>0, <1>9, <2>1, <3>1, KeyMadeOf DEF InitStrip, HoldsKey
  <2>2. CASE Goto(r, "init_up") /\ UNCHANGED reg
    BY <1>2, <1>9, <2>2 DEF InitStrip, HoldsKey
  <2> QED
    BY <1>9, <2>1, <2>2 DEF InitStrip
<1>10. CASE StatusLookup(r) \/ StatusExec(r)
  BY <1>1, <1>2, <1>10 DEF StatusLookup, StatusExec, Raise, HoldsKey, PersistSteps
<1> QED
  BY <1>3, <1>4, <1>6, <1>7, <1>8, <1>9, <1>10 DEF HandlerStep

\* Every step keeps what the handlers hold.
LEMMA KeyMadeStep == ASSUME IInv, KeyMade, [Next]_vars PROVE KeyMade'
<1>1. ASSUME NEW r \in Requests, Send(r) PROVE KeyMade'
  <2>1. ~ HoldsKey("queued", call'[r]) /\ reg[r].made = NoKey
    BY <1>1 DEF Send, HoldsKey, KeyMade, PersistSteps
  <2>2. \A q \in Requests : q # r => call'[q] = call[q]
    BY <1>1 DEF Send, IInv, TypeInv, TypeOK
  <2> QED
    BY <1>1, <2>1, <2>2, KeyMadeOf DEF Send
<1>2. ASSUME NEW r \in Requests, Refuse(r) PROVE KeyMade'
  BY <1>2, KeyMadeAnswered DEF Refuse
<1>3. ASSUME NEW r \in Requests, Dispatch(r) PROVE KeyMade'
  <2>1. call[r] \in CallType /\ reg[r].made = NoKey
    BY <1>3, HandlerFacts DEF Dispatch, IInv, KeyMade, HoldsKey, PersistSteps
  <2>2. ~ HoldsKey(FirstStep(call[r].op), call[r])
    BY <2>1 DEF HoldsKey, FirstStep, CallType, PersistSteps
  <2>3. \A q \in Requests : reg'[q].made = reg[q].made
    BY <1>3 DEF Dispatch, IInv, TypeInv, TypeOK, Registers
  <2> QED
    BY <1>3, <2>1, <2>2, <2>3, KeyMadeOf DEF Dispatch
<1>4. CASE AgentCrash
  BY <1>4 DEF AgentCrash, KeyMade, HoldsKey, PersistSteps, Blank, Finished
<1>5. CASE ContainerStop \/ ContainerStart \/ Provision \/ ManualUp \/ UNCHANGED vars
  BY <1>5
  DEF ContainerStop, ContainerStart, Provision, ManualUp, vars, agent, KeyMade, HoldsKey
<1> QED
  BY <1>1, <1>2, <1>3, <1>4, <1>5, KeyMadeHandler DEF Next, Serve

\* Every step keeps the invariants together.
LEMMA RInvStep == RInv /\ [Next]_vars => RInv'
<1> SUFFICES ASSUME RInv, [Next]_vars PROVE RInv'
  OBVIOUS
<1>0. IInv' /\ TypeInv'
  BY IInvStep DEF RInv, IInv
<1>1. ASSUME NEW r \in Requests, Send(r) \/ Dispatch(r) PROVE MapInv'
  <2>1. ~iface'.up => iface' = Down
    BY <1>1 DEF Send, Dispatch, node, RInv, MapInv
  <2>2. CASE Send(r)
    BY <1>0, <2>1, <2>2, GotoMapInv, BringUpNames DEF Send, node
  <2>3. CASE Dispatch(r)
    <3>1. FirstStep(call[r].op) \notin {"done", "create_add"} \cup BringUpSteps
      <4>1. call[r] \in CallType
        BY <2>3, HandlerFacts DEF Dispatch, RInv, IInv
      <4> QED
        BY <4>1, BringUpNames DEF FirstStep, CallType
    <3>2. \A q \in Requests : q # r => reg'[q] = reg[q]
      BY <2>3 DEF Dispatch, RInv, IInv, TypeInv, TypeOK
    <3> QED
      BY <1>0, <2>1, <2>3, <3>1, <3>2, GotoMapInv, BringUpNames DEF Dispatch, node
  <2> QED
    BY <1>1, <2>2, <2>3
<1>2. ASSUME NEW r \in Requests, Refuse(r) PROVE MapInv'
  <2>1. Refusal(call[r]) \in {400, 401, 404} /\ (~iface'.up => iface' = Down)
    BY <1>2 DEF Refuse, Refusal, node, RInv, MapInv
  <2> QED
    BY <1>0, <1>2, <2>1, AnswerMapInv DEF Refuse, node
<1>3. ASSUME NEW r \in Requests, HandlerStep(r) PROVE MapInv'
  BY <1>0, <1>3, HandlerMapInv
<1>4. ASSUME AgentCrash PROVE MapInv'
  BY <1>4, BringUpNames DEF AgentCrash, MapInv, NoPeersIn, RInv, node, Finished
<1>5. ASSUME ContainerStop \/ ContainerStart \/ Provision \/ ManualUp PROVE MapInv'
  <2>1. ~iface'.up => iface' = Down
    BY <1>5
    DEF ContainerStop, ContainerStart, Provision, ManualUp, UpWith, RInv, MapInv
  <2>2. pc' = pc /\ reg' = reg /\ reply' = reply
    BY <1>5 DEF ContainerStop, ContainerStart, Provision, ManualUp, agent
  <2>3. NoPeersIn(disk)'
    BY <1>5, DiskAssumption
    DEF ContainerStop, ContainerStart, Provision, ManualUp, RenderServerConfig, NoPeersIn,
        RInv, MapInv
  <2>4. iface' = iface \/ iface'.peers = Empty
    BY <1>5
    DEF ContainerStop, ContainerStart, Provision, ManualUp, RenderServerConfig, NoPeersIn,
        Down, UpWith, UpWorks, Parses, RInv, MapInv
  <2> QED
    BY <2>1, <2>2, <2>3, <2>4 DEF MapInv, NoPeersIn, RInv
<1>6. ASSUME UNCHANGED vars PROVE MapInv'
  BY <1>6 DEF vars, node, agent, MapInv, NoPeersIn, RInv
<1>7. KeyMade'
  BY KeyMadeStep DEF RInv
<1> QED
  BY <1>0, <1>1, <1>2, <1>3, <1>4, <1>5, <1>6, <1>7 DEF RInv, Next, Serve
----------------------------------------------------------------------------
(* The mapping.                                                            *)

Outcome(code) ==
    IF code \in {200, 201} THEN "ok" ELSE IF code \in {500, 503} THEN "failed" ELSE "refused"

\* The phase of a request that is being served.
LEMMA PhaseServed ==
    ASSUME NEW r \in Requests
    PROVE  /\ pc[r] \in AppliedSteps => PhaseOf(r) = "applied"
           /\ pc[r] \in (Steps \cup {"queued"}) \ AppliedSteps => PhaseOf(r) = "sent"
BY StepNames
DEF PhaseOf, AppliedSteps, PersistSteps, Steps, CreateSteps, InitSteps

\* The phase of a request that is being served after a step, by its program counter.
LEMMA PhaseServedNext ==
    ASSUME NEW r \in Requests
    PROVE  /\ pc'[r] \in AppliedSteps => PhaseOf(r)' = "applied"
           /\ pc'[r] \in (Steps \cup {"queued"}) \ AppliedSteps => PhaseOf(r)' = "sent"
BY StepNames
DEF PhaseOf, AppliedSteps, PersistSteps, Steps, CreateSteps, InitSteps

\* An answer moves its request, and no other, to the outcome of its code.
LEMMA AnswerMaps ==
    ASSUME RInv, NEW r \in Requests,
           NEW code \in {200, 201, 400, 401, 404, 500, 503}, NEW key, Answer(r, code, key)
    PROVE  Abstract!Enter(r, Outcome(code)) /\ Abstract!Forget(r)
<1>1. ASSUME NEW q \in Requests, q # r
      PROVE  pc'[q] = pc[q] /\ reg'[q] = reg[q] /\ reply'[q] = reply[q]
  BY <1>1 DEF Answer, Goto, RInv, IInv, TypeInv, TypeOK
<1>2. pc'[r] = "done" /\ reply'[r].code = code /\ reg'[r] = Blank
  BY DEF Answer, Goto, RInv, IInv, TypeInv, TypeOK
<1>3. PhaseOf(r)' = Outcome(code)
  BY <1>2 DEF PhaseOf, Outcome, AppliedSteps, PersistSteps
<1>4. \A q \in Requests : q # r => PhaseOf(q)' = PhaseOf(q)
  BY <1>1 DEF PhaseOf
<1>5. Abstract!Enter(r, Outcome(code))
  <2>1. Phases' = [q \in Requests |-> IF q = r THEN Outcome(code) ELSE PhaseOf(q)]
    BY <1>3, <1>4 DEF Phases
  <2>2. [Phases EXCEPT ![r] = Outcome(code)]
           = [q \in Requests |-> IF q = r THEN Outcome(code) ELSE PhaseOf(q)]
    BY DEF Phases
  <2> QED
    BY <2>1, <2>2 DEF Abstract!Enter
<1>6. Abstract!Forget(r)
  <2>1. reg'[r].made = NoKey
    BY <1>2 DEF Blank
  <2>2. Made' = [q \in Requests |-> IF q = r THEN NoKey ELSE reg[q].made]
    BY <1>1, <2>1 DEF Made
  <2>3. [Made EXCEPT ![r] = NoKey] = [q \in Requests |-> IF q = r THEN NoKey ELSE reg[q].made]
    BY DEF Made
  <2> QED
    BY <2>2, <2>3 DEF Abstract!Forget
<1> QED
  BY <1>5, <1>6

\* A handler's move to its next exec, seen from the contract.
LEMMA GotoMaps ==
    ASSUME RInv, NEW r \in Requests, NEW step, Goto(r, step), reply' = reply
    PROVE  /\ step \in AppliedSteps => Abstract!Enter(r, "applied")
           /\ step \in (Steps \cup {"queued"}) \ AppliedSteps => Abstract!Enter(r, "sent")
<1>1. \A q \in Requests : q # r => pc'[q] = pc[q]
  BY DEF Goto, RInv, IInv, TypeInv, TypeOK
<1>2. pc'[r] = step
  BY GotoSets DEF RInv, IInv
<1>3. \A q \in Requests : q # r => PhaseOf(q)' = PhaseOf(q)
  BY <1>1 DEF PhaseOf
<1> QED
  BY <1>2, <1>3, PhaseServedNext DEF Abstract!Enter, Phases

\* A step from one exec to the next on the same side of the effect changes no phase.
LEMMA GotoStutters ==
    ASSUME RInv, NEW r \in Requests, NEW step, Goto(r, step), reply' = reply,
           \/ pc[r] \in AppliedSteps /\ step \in AppliedSteps
           \/ /\ pc[r] \in (Steps \cup {"queued"}) \ AppliedSteps
              /\ step \in (Steps \cup {"queued"}) \ AppliedSteps
    PROVE  Phases' = Phases
<1>1. \A q \in Requests : q # r => PhaseOf(q)' = PhaseOf(q)
  BY DEF Goto, RInv, IInv, TypeInv, TypeOK, PhaseOf
<1>2. pc'[r] = step
  BY GotoSets DEF RInv, IInv
<1>3. PhaseOf(r)' = PhaseOf(r)
  BY <1>2, PhaseServed, PhaseServedNext
<1> QED
  BY <1>1, <1>3 DEF Phases

\* The local variables other than the generated key are invisible.
LEMMA MadeStutters ==
    ASSUME \A q \in Requests : reg'[q].made = reg[q].made
    PROVE  Made' = Made
BY DEF Made

\* The phase of each request is the one its program counter says.
LEMMA PhaseValue ==
    ASSUME NEW r \in Requests, pc[r] \in Steps \cup {"queued"}
    PROVE  /\ Phases[r] \in Abstract!Pending
           /\ pc[r] \notin AppliedSteps => Phases[r] = "sent"
           /\ pc[r] \in AppliedSteps => Phases[r] = "applied"
BY PhaseServed DEF Phases, Abstract!Pending

\* A handler that answers 5xx is a failure, whatever it had done.
LEMMA FailureMaps ==
    ASSUME RInv, NEW r \in Requests, pc[r] \in Steps \cup {"queued"},
           NEW code \in {500, 503}, NEW key, Answer(r, code, key),
           UNCHANGED <<iface, minted, call>>
    PROVE  Abstract!Fail(r)
BY PhaseValue, AnswerMaps DEF Abstract!Fail, Outcome

\* A handler that answers 4xx has had no effect.
LEMMA RefusalMaps ==
    ASSUME RInv, NEW r \in Requests, pc[r] \in (Steps \cup {"queued"}) \ AppliedSteps,
           NEW code \in {400, 401, 404}, NEW key, Answer(r, code, key),
           UNCHANGED <<iface, minted, call>>
    PROVE  Abstract!Refuse(r)
BY PhaseValue, AnswerMaps DEF Abstract!Refuse, Outcome

\* A handler that answers with success has had its effect, or asks for none.
LEMMA SuccessMaps ==
    ASSUME RInv, NEW r \in Requests, pc[r] \in Steps,
           \/ pc[r] \in AppliedSteps
           \/ call[r].op = "status"
           \/ call[r].op = "init" /\ iface.key # NoKey,
           NEW code \in {200, 201}, NEW key, Answer(r, code, key),
           UNCHANGED <<iface, minted, call>>
    PROVE  Abstract!Succeed(r)
BY PhaseValue, AnswerMaps DEF Abstract!Succeed, Outcome
----------------------------------------------------------------------------
(* Every step of the node is a step of the contract.                       *)

Mapped == Abstract!ContractNext \/ UNCHANGED Abstract!contractVars

\* The facts of the refinement invariant the steps are proved from.
LEMMA RFacts ==
    ASSUME RInv
    PROVE  /\ IInv /\ TypeInv /\ iface \in Interface /\ call \in [Requests -> Calls \cup {NoCall}]
           /\ reg \in [Requests -> Registers] /\ pc \in [Requests -> PCs]
           /\ iface.up => iface.key \in Keys /\ iface.key # NoKey
           /\ ~iface.up => iface = Down
BY ValuesAssumption DEF RInv, IInv, TypeInv, TypeOK, LocalsSet, MapInv, PCs

\* While a handler runs, no other request is between its effect and its answer.
LEMMA NotApplied ==
    ASSUME RInv, NEW r \in Requests, pc[r] \in Steps \ AppliedSteps
    PROVE  \A q \in Requests : Phases[q] # "applied"
<1>1. \A q \in Requests : pc[q] \notin AppliedSteps
  BY Alone DEF RInv, AppliedSteps, PersistSteps, Steps, CreateSteps
<1> QED
  BY <1>1 DEF Phases, PhaseOf

\* awg set ... allowed-ips does to the peers what the contract says.
LEMMA SetPeerMaps ==
    ASSUME RInv, NEW k, NEW ips
    PROVE  SetPeer(iface, k, ips).peers = Abstract!Assigned(k, ips)
BY RFacts DEF SetPeer, Abstract!Assigned, Interface, Table

\* awg set ... remove takes one peer away.
LEMMA RemovePeerMaps ==
    ASSUME RInv, NEW k
    PROVE  RemovePeer(iface, k).peers = [iface.peers EXCEPT ![k] = Absent]
BY RFacts DEF RemovePeer, Interface

\* The exec that changes the peers is the instant the contract speaks of.
LEMMA ApplyMaps ==
    ASSUME RInv, NEW r \in Requests, pc[r] \in {"create_add", "delete", "patch"},
           Goto(r, "persist_key"), reply' = reply, reg' = reg, call' = call, minted' = minted,
           iface.up, iface'.key = iface.key,
           iface'.peers = Abstract!Effect(r)
    PROVE  Abstract!Apply(r)
<1>1. pc[r] \in Steps \ AppliedSteps
  BY StepNames DEF AppliedSteps, PersistSteps
<1>2. Phases[r] = "sent"
  BY <1>1, PhaseValue
<1>3. call[r].op \in {"create", "delete", "patch"}
  BY DEF RInv, IInv, HandlersConsistent, StepsOfCall, CreateSteps
<1>4. call[r].op = "create" => Made[r] # NoKey
  <2>1. pc[r] = "delete" \/ pc[r] = "patch" => call[r].op # "create"
    BY DEF RInv, IInv, HandlersConsistent, StepsOfCall
  <2>2. pc[r] = "create_add" => reg[r].made \in Keys
    BY DEF RInv, MapInv
  <2> QED
    BY <2>1, <2>2, ValuesAssumption DEF Made
<1>5. Abstract!Enter(r, "applied")
  BY GotoMaps DEF AppliedSteps, PersistSteps
<1>6. \A q \in Requests : Phases[q] # "applied"
  BY <1>1, NotApplied
<1>7. Made' = Made
  BY DEF Made
<1> QED
  BY <1>2, <1>3, <1>4, <1>5, <1>6, <1>7, RFacts DEF Abstract!Apply

\* The `awg set' of POST /peers is the effect of the call, or a failure.
LEMMA AddPeerMaps == ASSUME RInv, NEW r \in Requests, AddPeer(r) PROVE Mapped
<1>0. pc[r] = "create_add" /\ pc[r] \in Steps
  BY StepNames DEF AddPeer
<1>1. CASE SetWorks(call[r].ips)
  <2>1. call[r].op = "create" /\ call[r].ips \in Ips /\ iface.up
    BY <1>0, <1>1 DEF RInv, IInv, HandlersConsistent, StepsOfCall, CreateSteps, SetWorks
  <2>2. iface'.peers = Abstract!Effect(r)
    BY <1>1, <2>1, SetPeerMaps DEF AddPeer, Abstract!Effect, Made
  <2>3. iface'.key = iface.key
    BY <1>1, <2>1, SetPeerType, RFacts DEF AddPeer
  <2> QED
    BY <1>0, <1>1, <2>1, <2>2, <2>3, ApplyMaps DEF AddPeer, Mapped, Abstract!ContractNext
<1>2. CASE ~SetWorks(call[r].ips)
  BY <1>0, <1>2, FailureMaps DEF AddPeer, Raise, Mapped, Abstract!ContractNext
<1> QED
  BY <1>1, <1>2

\* The removal of DELETE /peers is its effect, a failure or a refusal.
LEMMA RemovePeerStepMaps == ASSUME RInv, NEW r \in Requests, RemovePeerStep(r) PROVE Mapped
<1>0. pc[r] = "delete" /\ pc[r] \in Steps /\ pc[r] \notin AppliedSteps
  BY StepNames DEF RemovePeerStep, AppliedSteps, PersistSteps
<1>1. CASE DumpWorks
  <2>1. call[r].op = "delete"
    BY <1>0 DEF RInv, IInv, HandlersConsistent, StepsOfCall
  <2>2. iface'.peers = Abstract!Effect(r)
    BY <1>1, <2>1, RemovePeerMaps DEF RemovePeerStep, Abstract!Effect
  <2>3. iface'.key = iface.key /\ iface.up
    BY <1>1, RemovePeerType, RFacts DEF RemovePeerStep, DumpWorks
  <2> QED
    BY <1>0, <1>1, <2>2, <2>3, ApplyMaps DEF RemovePeerStep, Mapped, Abstract!ContractNext
<1>2. CASE ~DumpWorks
  BY <1>0, <1>2, FailureMaps, RefusalMaps
  DEF RemovePeerStep, Raise, Mapped, Abstract!ContractNext
<1> QED
  BY <1>1, <1>2

\* The `awg set' of PATCH /peers is its effect, a failure or a refusal.
LEMMA UpdatePeerMaps == ASSUME RInv, NEW r \in Requests, UpdatePeer(r) PROVE Mapped
<1>0. pc[r] = "patch" /\ pc[r] \in Steps /\ pc[r] \notin AppliedSteps
  BY StepNames DEF UpdatePeer, AppliedSteps, PersistSteps
<1>1. CASE SetWorks(call[r].ips)
  <2>1. call[r].op = "patch" /\ call[r].ips \in Ips /\ iface.up
    BY <1>0, <1>1 DEF RInv, IInv, HandlersConsistent, StepsOfCall, SetWorks
  <2>2. iface'.peers = Abstract!Effect(r)
    BY <1>1, <2>1, SetPeerMaps DEF UpdatePeer, Abstract!Effect
  <2>3. iface'.key = iface.key
    BY <1>1, <2>1, SetPeerType, RFacts DEF UpdatePeer
  <2> QED
    BY <1>0, <1>1, <2>1, <2>2, <2>3, ApplyMaps DEF UpdatePeer, Mapped, Abstract!ContractNext
<1>2. CASE ~SetWorks(call[r].ips)
  BY <1>0, <1>2, FailureMaps, RefusalMaps DEF UpdatePeer, Raise, Mapped, Abstract!ContractNext
<1> QED
  BY <1>1, <1>2

\* Generating a key is the contract's Mint.
LEMMA GenerateKeypairMaps ==
    ASSUME RInv, NEW r \in Requests, NEW step \in {"create_key", "init_key"},
           NEW next \in {"create_add", "init_write"}, GenerateKeypair(r, step, next),
           call[r].op \in {"create", "init"}
    PROVE  Mapped
<1>0. pc[r] = step /\ step \in Steps \ AppliedSteps /\ next \in Steps \ AppliedSteps
  BY StepNames DEF GenerateKeypair, AppliedSteps, PersistSteps
<1>1. CASE Running
  <2>1. PICK k \in Keys \ minted :
           minted' = minted \cup {k} /\ reg' = [reg EXCEPT ![r].made = k]
    BY <1>1 DEF GenerateKeypair
  <2>2. Phases' = Phases
    BY <1>0, <1>1, GotoStutters DEF GenerateKeypair
  <2>3. Made' = [q \in Requests |-> IF q = r THEN k ELSE reg[q].made]
    BY <2>1, RFacts DEF Made, Registers
  <2>4. [Made EXCEPT ![r] = k] = [q \in Requests |-> IF q = r THEN k ELSE reg[q].made]
    BY DEF Made
  <2>5. Phases[r] = "sent"
    BY <1>0, PhaseValue
  <2>6. iface' = iface /\ call' = call
    BY DEF GenerateKeypair
  <2>7. Abstract!Mint(r)
    BY <2>1, <2>2, <2>3, <2>4, <2>5, <2>6 DEF Abstract!Mint
  <2> QED
    BY <2>7 DEF Mapped, Abstract!ContractNext
<1>2. CASE ~Running
  BY <1>0, <1>2, FailureMaps DEF GenerateKeypair, Raise, Mapped, Abstract!ContractNext
<1> QED
  BY <1>1, <1>2

\* Execs that read the node, or write only its file, are invisible.
LEMMA QuietStepMaps ==
    ASSUME RInv, NEW r \in Requests, NEW step, Goto(r, step), reply' = reply,
           \/ pc[r] \in AppliedSteps /\ step \in AppliedSteps
           \/ /\ pc[r] \in (Steps \cup {"queued"}) \ AppliedSteps
              /\ step \in (Steps \cup {"queued"}) \ AppliedSteps,
           \A q \in Requests : reg'[q].made = reg[q].made,
           UNCHANGED <<iface, minted, call>>
    PROVE  Mapped
BY GotoStutters, MadeStutters DEF Mapped, Abstract!contractVars

\* Which steps come before a call's effect and which after.
LEMMA AppliedNames ==
    /\ {"persist_key", "persist_dump", "persist_write", "create_status"} \subseteq AppliedSteps
    /\ {"create_key", "create_add", "delete", "patch", "status", "status_exec",
        "init_status", "init_key", "init_write", "init_strip", "init_sync", "init_up"}
       \subseteq Steps \ AppliedSteps
    /\ AppliedSteps \subseteq Steps
BY DEF AppliedSteps, PersistSteps, Steps, CreateSteps, InitSteps

\* The execs of _persist and the last status read are invisible, or answer.
LEMMA PersistMaps ==
    ASSUME RInv, NEW r \in Requests,
           PersistKey(r) \/ PersistDump(r) \/ PersistWrite(r) \/ CreateStatus(r)
    PROVE  Mapped
<1>0. pc[r] \in AppliedSteps /\ pc[r] \in Steps
  BY AppliedNames DEF PersistKey, PersistDump, PersistWrite, CreateStatus
<1>1. UNCHANGED <<iface, minted, call>>
  BY DEF PersistKey, PersistDump, PersistWrite, CreateStatus, node
<1>2. ASSUME NEW code \in {200, 201}, NEW key, Answer(r, code, key) PROVE Mapped
  BY <1>0, <1>1, <1>2, SuccessMaps DEF Mapped, Abstract!ContractNext
<1>3. ASSUME Raise(r) PROVE Mapped
  BY <1>0, <1>1, <1>3, FailureMaps DEF Raise, Mapped, Abstract!ContractNext
<1>4. CASE PersistKey(r) /\ DumpWorks
  <2>1. \A q \in Requests : reg'[q].made = reg[q].made
    BY <1>4, RFacts DEF PersistKey, Registers
  <2> QED
    BY <1>0, <1>1, <1>4, <2>1, QuietStepMaps, AppliedNames DEF PersistKey
<1>5. CASE PersistDump(r) /\ Running
  <2>1. \A q \in Requests : reg'[q].made = reg[q].made
    BY <1>5, RFacts DEF PersistDump, Registers
  <2> QED
    BY <1>0, <1>1, <1>5, <2>1, QuietStepMaps, AppliedNames DEF PersistDump
<1>6. CASE PersistWrite(r) /\ WriteWorks
  <2>1. CASE call[r].op = "create"
    BY <1>0, <1>1, <1>6, <2>1, QuietStepMaps, AppliedNames DEF PersistWrite
  <2>2. CASE call[r].op # "create"
    BY <1>2, <1>6, <2>2 DEF PersistWrite
  <2> QED
    BY <2>1, <2>2
<1>7. CASE CreateStatus(r)
  BY <1>2, <1>3, <1>7 DEF CreateStatus
<1> QED
  BY <1>3, <1>4, <1>5, <1>6, <1>7 DEF PersistKey, PersistDump, PersistWrite

\* Bringing the interface up and answering is one step of the contract.
LEMMA BringUpMaps ==
    ASSUME RInv, NEW r \in Requests, pc[r] \in BringUpSteps,
           pc[r] # "init_key",
           NEW conf \in Conf, conf.key \in minted, NoPeersIn(conf), iface' = UpWith(conf),
           NEW key, Answer(r, 200, key), UNCHANGED <<minted, call>>
    PROVE  Abstract!BringUp(r)
<1>1. call[r].op = "init"
  BY BringUpNames DEF RInv, IInv, HandlersConsistent, StepsOfCall
<1>2. Phases[r] = "sent"
  BY PhaseValue, BringUpNames DEF Steps, AppliedSteps, PersistSteps
<1>3. iface'.peers = Abstract!NoPeers /\ iface'.key \in minted
      /\ iface.peers = Abstract!NoPeers
  BY DEF RInv, MapInv, UpWith, NoPeersIn, Empty, Abstract!NoPeers
<1>4. Abstract!Enter(r, "ok") /\ Abstract!Forget(r)
  BY AnswerMaps DEF Outcome
<1>5. Made[r] # NoKey
  BY BringUpNames DEF Made, RInv, KeyMade, HoldsKey
<1> QED
  BY <1>1, <1>2, <1>3, <1>4, <1>5 DEF Abstract!BringUp

\* The execs of server/init are invisible until the one that answers.
LEMMA InitMaps ==
    ASSUME RInv, NEW r \in Requests,
           InitStatus(r) \/ InitWrite(r) \/ InitStrip(r) \/ InitSync(r) \/ InitUp(r)
    PROVE  Mapped
<1>0. pc[r] \in InitSteps /\ pc[r] \in Steps \ AppliedSteps
  BY AppliedNames DEF InitStatus, InitWrite, InitStrip, InitSync, InitUp, InitSteps
<1>1. call[r].op = "init"
  BY <1>0 DEF RInv, IInv, HandlersConsistent, StepsOfCall
<1>2. UNCHANGED <<minted, call>>
  BY DEF InitStatus, InitWrite, InitStrip, InitSync, InitUp, node
<1>3. ASSUME Raise(r), iface' = iface PROVE Mapped
  BY <1>0, <1>2, <1>3, FailureMaps DEF Raise, Mapped, Abstract!ContractNext
<1>4. ASSUME NEW step \in {"init_key", "init_strip", "init_sync", "init_up"},
             Goto(r, step), reply' = reply, iface' = iface,
             \A q \in Requests : reg'[q].made = reg[q].made
      PROVE  Mapped
  BY <1>0, <1>2, <1>4, QuietStepMaps, AppliedNames
<1>5. CASE InitStatus(r)
  <2>0. iface' = iface
    BY <1>5 DEF InitStatus, node
  <2>1. CASE StatusKey # NoKey /\ Answer(r, 200, StatusKey)
    <3>1. iface.key # NoKey
      BY <2>1 DEF StatusKey
    <3> QED
      BY <1>0, <1>1, <1>2, <2>0, <2>1, <3>1, SuccessMaps DEF Mapped, Abstract!ContractNext
  <2>2. CASE Goto(r, "init_key") /\ UNCHANGED <<loop, reg, reply>>
    BY <1>4, <2>0, <2>2
  <2>3. CASE Raise(r)
    BY <1>3, <2>0, <2>3
  <2> QED
    BY <1>5, <2>1, <2>2, <2>3 DEF InitStatus
<1>6. CASE InitWrite(r)
  BY <1>3, <1>4, <1>6 DEF InitWrite
<1>7. CASE InitStrip(r)
  <2>1. \A q \in Requests : reg'[q].made = reg[q].made
    BY <1>7, RFacts DEF InitStrip, Registers
  <2> QED
    BY <1>4, <1>7, <2>1 DEF InitStrip, node
<1>8. CASE InitSync(r)
  <2>1. /\ reg[r].text \in Conf => reg[r].text.key \in minted
        /\ NoPeersIn(reg[r].text)
    BY <1>8 DEF InitSync, RInv, IInv, MapInv, HandlersConsistent, KeysMinted
  <2> QED
    BY <1>0, <1>2, <1>4, <1>8, <2>1, BringUpMaps, BringUpNames
    DEF InitSync, Parses, Mapped, Abstract!ContractNext
<1>9. CASE InitUp(r)
  <2>1. (disk \in Conf => disk.key \in minted) /\ NoPeersIn(disk)
    BY DEF RInv, IInv, MapInv, HandlersConsistent, KeysMinted
  <2> QED
    BY <1>0, <1>2, <1>3, <1>9, <2>1, BringUpMaps, BringUpNames
    DEF InitUp, UpWorks, Parses, Mapped, Abstract!ContractNext
<1> QED
  BY <1>5, <1>6, <1>7, <1>8, <1>9

\* A status request changes nothing and is answered.
LEMMA StatusMaps ==
    ASSUME RInv, NEW r \in Requests, StatusLookup(r) \/ StatusExec(r) PROVE Mapped
<1>0. pc[r] \in {"status", "status_exec"} /\ pc[r] \in Steps \ AppliedSteps
      /\ UNCHANGED <<iface, minted, call>>
  BY AppliedNames DEF StatusLookup, StatusExec, node
<1>1. call[r].op = "status"
  BY <1>0 DEF RInv, IInv, HandlersConsistent, StepsOfCall
<1>2. CASE StatusLookup(r) /\ Running
  BY <1>0, <1>2, QuietStepMaps, AppliedNames DEF StatusLookup
<1>3. CASE StatusLookup(r) /\ ~Running
  BY <1>0, <1>3, FailureMaps DEF StatusLookup, Mapped, Abstract!ContractNext
<1>4. CASE StatusExec(r)
  BY <1>0, <1>1, <1>4, SuccessMaps, FailureMaps
  DEF StatusExec, Raise, Mapped, Abstract!ContractNext
<1> QED
  BY <1>2, <1>3, <1>4

\* A request arrives, is refused or is started.
LEMMA ArrivalMaps ==
    ASSUME RInv, NEW r \in Requests, Send(r) \/ Refuse(r) \/ Dispatch(r) PROVE Mapped
<1>1. CASE Send(r)
  <2>1. PICK c \in Calls : call' = [call EXCEPT ![r] = c]
    BY <1>1 DEF Send
  <2>2. Phases[r] = "unsent"
    BY <1>1 DEF Send, Phases, PhaseOf, AppliedSteps, PersistSteps
  <2>3. Abstract!Enter(r, "sent")
    BY <1>1, GotoMaps, StepNames DEF Send, AppliedSteps, PersistSteps
  <2>4. Made' = Made /\ iface' = iface /\ minted' = minted
    BY <1>1 DEF Send, Made, node
  <2>5. Abstract!Accept(r)
    BY <2>1, <2>2, <2>3, <2>4 DEF Abstract!Accept
  <2> QED
    BY <2>5 DEF Mapped, Abstract!ContractNext
<1>2. CASE Refuse(r)
  <2>1. Refusal(call[r]) \in {400, 401, 404}
    BY <1>2 DEF Refuse, Refusal
  <2>2. pc[r] \in (Steps \cup {"queued"}) \ AppliedSteps
    BY <1>2 DEF Refuse, AppliedSteps, PersistSteps
  <2> QED
    BY <1>2, <2>1, <2>2, RefusalMaps DEF Refuse, node, Mapped, Abstract!ContractNext
<1>3. CASE Dispatch(r)
  <2>1. call[r] \in CallType
    BY <1>3, HandlerFacts, RFacts DEF Dispatch
  <2>2. FirstStep(call[r].op) \in Steps \ AppliedSteps
    BY <2>1, AppliedNames DEF FirstStep, CallType
  <2>3. \A q \in Requests : reg'[q].made = reg[q].made
    BY <1>3, RFacts DEF Dispatch, Registers
  <2>4. pc[r] \in (Steps \cup {"queued"}) \ AppliedSteps
    BY <1>3 DEF Dispatch, AppliedSteps, PersistSteps
  <2> QED
    BY <1>3, <2>2, <2>3, <2>4, QuietStepMaps DEF Dispatch, node
<1> QED
  BY <1>1, <1>2, <1>3

\* A crash of the agent is the contract's Crash.
LEMMA CrashMaps == ASSUME RInv, AgentCrash PROVE Mapped
<1> DEFINE pending == {r \in Requests : pc[r] \notin Finished \cup {"unsent"}}
<1>1. /\ pc' = [r \in Requests |-> IF r \in pending THEN "lost" ELSE pc[r]]
      /\ reg' = [r \in Requests |-> IF r \in pending THEN Blank ELSE reg[r]]
      /\ UNCHANGED <<iface, minted, call, reply>>
  BY DEF AgentCrash, node
<1>2. \A r \in Requests : r \in pending <=> pc[r] \in Steps \cup {"queued"}
  BY RFacts, StepNames DEF PCs, Finished
<1>3. \A r \in Requests : r \in pending <=> Phases[r] \in Abstract!Pending
  <2> SUFFICES ASSUME NEW r \in Requests, r \notin pending
               PROVE  Phases[r] \notin Abstract!Pending
    BY <1>2, PhaseValue
  <2>1. pc[r] \in {"unsent", "lost", "done"} /\ (pc[r] = "done" => reply[r].code # 0)
    BY DEF Finished, RInv, MapInv
  <2>2. reply[r].code \in {0, 200, 201, 400, 401, 404, 500, 503}
    BY DEF RInv, IInv, TypeInv, TypeOK, Answers
  <2> QED
    BY <2>1, <2>2 DEF Phases, PhaseOf, Abstract!Pending, AppliedSteps, PersistSteps
<1>4. Phases' = [r \in Requests |-> IF r \in pending THEN "lost" ELSE Phases[r]]
  <2>1. ASSUME NEW r \in Requests, r \in pending PROVE PhaseOf(r)' = "lost"
    BY <1>1, <2>1 DEF PhaseOf, AppliedSteps, PersistSteps
  <2>2. ASSUME NEW r \in Requests, r \notin pending PROVE PhaseOf(r)' = PhaseOf(r)
    BY <1>1, <2>2 DEF PhaseOf
  <2> QED
    BY <2>1, <2>2 DEF Phases
<1>5. Made' = [r \in Requests |-> IF r \in pending THEN NoKey ELSE Made[r]]
  BY <1>1 DEF Made, Blank
<1>6. Abstract!Crash
  BY <1>1, <1>3, <1>4, <1>5 DEF Abstract!Crash
<1> QED
  BY <1>6 DEF Mapped, Abstract!ContractNext

\* Stops and operators are the contract's Restart and Operate.
LEMMA EnvironmentMaps ==
    ASSUME RInv, ContainerStop \/ ContainerStart \/ Provision \/ ManualUp PROVE Mapped
<1>0. Phases' = Phases /\ Made' = Made /\ call' = call
  BY DEF ContainerStop, ContainerStart, Provision, ManualUp, agent, Phases, PhaseOf, Made
<1>1. CASE ContainerStop
  BY <1>0, <1>1
  DEF ContainerStop, Down, Empty, Abstract!Restart, Abstract!NoPeers, Mapped,
      Abstract!ContractNext
<1>2. CASE ContainerStart
  BY <1>0, <1>2 DEF ContainerStart, Mapped, Abstract!contractVars
<1>3. CASE Provision
  <2>1. PICK k \in Keys \ minted :
           /\ minted' = minted \cup {k}
           /\ disk' = RenderServerConfig(k, "node", Empty)
           /\ iface' = UpWith(disk')
    BY <1>3 DEF Provision
  <2>2. iface.key = NoKey /\ iface'.peers = Abstract!NoPeers /\ iface'.key = k
    BY <1>3, <2>1, RFacts
    DEF Provision, Down, UpWith, RenderServerConfig, Empty, Abstract!NoPeers
  <2> QED
    BY <1>0, <2>1, <2>2 DEF Abstract!Operate, Mapped, Abstract!ContractNext
<1>4. CASE ManualUp
  <2>1. disk \in Conf /\ ~iface.up /\ iface' = UpWith(disk) /\ minted' = minted
    BY <1>4 DEF ManualUp, UpWorks, Parses
  <2>2. disk.key \in minted /\ disk.peers = Empty
    BY <2>1 DEF RInv, IInv, MapInv, NoPeersIn, HandlersConsistent, KeysMinted
  <2>3. iface.key = NoKey /\ iface'.peers = Abstract!NoPeers /\ iface'.key \in minted
    BY <2>1, <2>2, RFacts DEF Down, UpWith, Empty, Abstract!NoPeers
  <2> QED
    BY <1>0, <2>1, <2>3 DEF Abstract!Operate, Mapped, Abstract!ContractNext
<1> QED
  BY <1>1, <1>2, <1>3, <1>4

\* Every step of the node is a step of the contract or a stutter.
LEMMA StepMaps == RInv /\ [Next]_vars => [Abstract!ContractNext]_(Abstract!contractVars)
<1> SUFFICES ASSUME RInv, [Next]_vars PROVE Mapped
  BY DEF Mapped
<1>1. ASSUME NEW r \in Requests, HandlerStep(r) PROVE Mapped
  <2>1. CASE CreateKey(r)
    <3>1. call[r].op = "create"
      BY <2>1 DEF CreateKey, GenerateKeypair, RInv, IInv, HandlersConsistent, StepsOfCall,
                  CreateSteps
    <3> QED
      BY <2>1, <3>1, GenerateKeypairMaps DEF CreateKey
  <2>2. CASE InitKey(r)
    <3>1. call[r].op = "init"
      BY <2>2 DEF InitKey, GenerateKeypair, RInv, IInv, HandlersConsistent, StepsOfCall,
                  InitSteps
    <3> QED
      BY <2>2, <3>1, GenerateKeypairMaps DEF InitKey
  <2> QED
    BY <1>1, <2>1, <2>2, AddPeerMaps, RemovePeerStepMaps, UpdatePeerMaps, PersistMaps,
       InitMaps, StatusMaps
    DEF HandlerStep
<1>2. CASE UNCHANGED vars
  BY <1>2 DEF vars, node, agent, Mapped, Abstract!contractVars, Phases, PhaseOf, Made
<1> QED
  BY <1>1, <1>2, ArrivalMaps, CrashMaps, EnvironmentMaps DEF Next, Serve

\* Every initial state of the node is one of the contract.
LEMMA InitMapsInit == Init => Abstract!ContractInit
<1> SUFFICES ASSUME Init PROVE Abstract!ContractInit
  OBVIOUS
<1>1. Phases = [r \in Requests |-> "unsent"]
  BY DEF Init, Phases, PhaseOf, AppliedSteps, PersistSteps
<1>2. Made = [r \in Requests |-> NoKey]
  BY DEF Init, Made, Blank
<1> QED
  BY <1>1, <1>2 DEF Init, Abstract!ContractInit, Down, Empty, Abstract!NoPeers

\* The agent and its container keep the contract the panel is written against.
THEOREM AgentKeepsContract == Spec => KeepsContract
<1>1. Init => RInv
  BY IInvInit, MapInit DEF RInv, Init, KeyMade, HoldsKey, PersistSteps, Blank
<1> QED
  BY <1>1, RInvStep, StepMaps, InitMapsInit, PTL DEF Spec, KeepsContract, Abstract!Contract
----------------------------------------------------------------------------
(* A delete that was answered has taken the peer away.                     *)

\* Once a delete has removed its peer, the peer stays away until the answer, across
\* stops and operators too: no file that can be brought up has it.
Removed ==
    \A r \in Requests :
        pc[r] \in PersistSteps /\ call[r].op = "delete" => iface.peers[call[r].key] = Absent

\* Before its answer, only the handler itself could give a key access.
LEMMA StaysAway ==
    ASSUME RInv, [Next]_vars, NEW r \in Requests, pc[r] \in PersistSteps,
           NEW k \in Keys, iface.peers[k] = Absent
    PROVE  iface'.peers[k] = Absent
<1>0. pc[r] \in Steps /\ IInv
  BY DEF Steps, RInv
<1>1. ASSUME NEW q \in Requests, Send(q) \/ Refuse(q) \/ Dispatch(q) PROVE iface' = iface
  BY <1>1 DEF Send, Refuse, Dispatch, node
<1>2. ASSUME NEW q \in Requests, HandlerStep(q) PROVE iface' = iface
  <2>1. pc[q] \in Steps
    BY <1>2, StepNames
    DEF HandlerStep, CreateKey, AddPeer, CreateStatus, RemovePeerStep, UpdatePeer,
        PersistKey, PersistDump, PersistWrite, InitStatus, InitKey, InitWrite, InitStrip,
        InitSync, InitUp, StatusLookup, StatusExec, GenerateKeypair
  <2>2. q = r
    BY <1>0, <2>1, Alone
  <2>3. PersistKey(r) \/ PersistDump(r) \/ PersistWrite(r)
    BY <1>2, <2>2
    DEF PersistSteps, HandlerStep, CreateKey, AddPeer, CreateStatus, RemovePeerStep,
        UpdatePeer, InitStatus, InitKey, InitWrite, InitStrip, InitSync, InitUp,
        StatusLookup, StatusExec, GenerateKeypair
  <2> QED
    BY <2>3 DEF PersistKey, PersistDump, PersistWrite, node
<1>3. CASE ContainerStop \/ ContainerStart \/ Provision \/ ManualUp
  BY <1>3
  DEF ContainerStop, ContainerStart, Provision, ManualUp, RenderServerConfig, NoPeersIn,
      Down, UpWith, UpWorks, Parses, Empty, RInv, MapInv
<1>4. CASE AgentCrash \/ UNCHANGED vars
  BY <1>4 DEF AgentCrash, vars, node
<1> QED
  BY <1>1, <1>2, <1>3, <1>4 DEF Next, Serve

\* A step into the persisting of a delete is the removal, or another such step.
LEMMA PersistingDelete ==
    ASSUME RInv, [Next]_vars, NEW r \in Requests,
           pc'[r] \in PersistSteps, call'[r].op = "delete"
    PROVE  /\ call'[r] = call[r]
           /\ pc[r] \in PersistSteps \/ (RemovePeerStep(r) /\ DumpWorks)
<1>0. /\ IInv /\ TypeInv /\ PersistSteps \subseteq Steps
      /\ {"done", "lost", "unsent", "queued"} \cap PersistSteps = {}
  BY StepNames DEF RInv, IInv, Steps
<1>1. ASSUME NEW q \in Requests, Send(q) PROVE call'[r] = call[r] /\ pc[r] \in PersistSteps
  <2>1. pc' = [pc EXCEPT ![q] = "queued"] /\ \E c : call' = [call EXCEPT ![q] = c]
    BY <1>1 DEF Send, Goto
  <2>2. q # r
    BY <1>0, <2>1 DEF TypeInv, TypeOK
  <2> QED
    BY <1>0, <2>1, <2>2 DEF TypeInv, TypeOK
<1>2. ASSUME NEW q \in Requests, Refuse(q) \/ Dispatch(q)
      PROVE  call'[r] = call[r] /\ pc[r] \in PersistSteps
  <2>1. call' = call /\ PersistSteps \cap {"done", FirstStep(call[q].op)} = {}
    <3>1. pc[q] = "queued"
      BY <1>2 DEF Refuse, Dispatch
    <3>2. call[q] \in CallType
      BY <1>0, <3>1, HandlerFacts
    <3> QED
      BY <1>2, <3>2 DEF Refuse, Dispatch, FirstStep, CallType, PersistSteps
  <2>2. pc' = [pc EXCEPT ![q] = "done"] \/ pc' = [pc EXCEPT ![q] = FirstStep(call[q].op)]
    BY <1>2 DEF Refuse, Dispatch, Answer, Goto
  <2> QED
    BY <1>0, <2>1, <2>2 DEF TypeInv, TypeOK
<1>3. ASSUME NEW q \in Requests, HandlerStep(q)
      PROVE  call'[r] = call[r] /\ (pc[r] \in PersistSteps \/ (RemovePeerStep(r) /\ DumpWorks))
  <2>0. call' = call
    BY <1>3
    DEF HandlerStep, CreateKey, AddPeer, CreateStatus, RemovePeerStep, UpdatePeer,
        PersistKey, PersistDump, PersistWrite, InitStatus, InitKey, InitWrite, InitStrip,
        InitSync, InitUp, StatusLookup, StatusExec, GenerateKeypair, node
  <2>1. CASE q # r
    <3>1. \E step : pc' = [pc EXCEPT ![q] = step]
      BY <1>3
      DEF HandlerStep, CreateKey, AddPeer, CreateStatus, RemovePeerStep, UpdatePeer,
          PersistKey, PersistDump, PersistWrite, InitStatus, InitKey, InitWrite, InitStrip,
          InitSync, InitUp, StatusLookup, StatusExec, GenerateKeypair, Raise, Answer, Goto
    <3> QED
      BY <1>0, <2>0, <2>1, <3>1 DEF TypeInv, TypeOK
  <2>2. CASE q = r
    <3>0. StepsOfCall /\ call[r].op = "delete"
      BY <1>0, <2>0 DEF IInv, HandlersConsistent
    <3>1. ~(CreateKey(r) \/ AddPeer(r) \/ UpdatePeer(r))
      BY <3>0 DEF StepsOfCall, CreateKey, GenerateKeypair, AddPeer, UpdatePeer, CreateSteps
    <3>2. ~(InitStatus(r) \/ InitKey(r) \/ InitWrite(r) \/ InitStrip(r) \/ InitSync(r)
            \/ InitUp(r) \/ StatusLookup(r) \/ StatusExec(r) \/ CreateStatus(r))
      BY <3>0
      DEF StepsOfCall, InitStatus, InitKey, GenerateKeypair, InitWrite, InitStrip, InitSync,
          InitUp, StatusLookup, StatusExec, CreateStatus, InitSteps, CreateSteps
    <3>3. PersistKey(r) \/ PersistDump(r) \/ PersistWrite(r) => pc[r] \in PersistSteps
      BY DEF PersistKey, PersistDump, PersistWrite, PersistSteps
    <3>4. RemovePeerStep(r) => DumpWorks
      BY <1>0 DEF RemovePeerStep, Raise, Answer, Goto, TypeInv, TypeOK
    <3> QED
      BY <1>3, <2>0, <2>2, <3>1, <3>2, <3>3, <3>4 DEF HandlerStep
  <2> QED
    BY <2>1, <2>2
<1>4. CASE AgentCrash
  BY <1>0, <1>4 DEF AgentCrash
<1>5. CASE ContainerStop \/ ContainerStart \/ Provision \/ ManualUp \/ UNCHANGED vars
  BY <1>5 DEF ContainerStop, ContainerStart, Provision, ManualUp, vars, agent
<1> QED
  BY <1>1, <1>2, <1>3, <1>4, <1>5 DEF Next, Serve

\* Every step keeps what was removed away.
LEMMA RemovedStep == RInv /\ Removed /\ [Next]_vars => Removed'
<1> SUFFICES ASSUME RInv, Removed, [Next]_vars, NEW r \in Requests,
                    pc'[r] \in PersistSteps, call'[r].op = "delete"
             PROVE  iface'.peers[call'[r].key] = Absent
  BY DEF Removed
<1>1. call'[r] = call[r] /\ (pc[r] \in PersistSteps \/ (RemovePeerStep(r) /\ DumpWorks))
  BY PersistingDelete
<1>2. call[r] \in CallType /\ call[r].key \in Keys
  <2>1. pc[r] \in Steps
    BY <1>1, StepNames DEF RemovePeerStep, Steps
  <2> QED
    BY <1>1, <2>1, HandlerFacts DEF RInv, IInv, CallType
<1>3. CASE pc[r] \in PersistSteps
  BY <1>1, <1>2, <1>3, StaysAway DEF Removed
<1>4. CASE RemovePeerStep(r) /\ DumpWorks
  BY <1>1, <1>2, <1>4, RFacts DEF RemovePeerStep, RemovePeer, Interface, Table
<1> QED
  BY <1>1, <1>3, <1>4

\* The answer finds the peer gone.
LEMMA AnsweredDelete == RInv /\ Removed /\ [Next]_vars => GoneOnceAnswered
<1> SUFFICES ASSUME RInv, Removed, [Next]_vars, NEW r \in Requests, Ends(r),
                    call[r].op = "delete", call[r].token, call[r].key \notin Slashed
             PROVE  iface'.peers[call[r].key] = Absent
  BY DEF GoneOnceAnswered
<1>0. /\ IInv /\ TypeInv /\ pc[r] \in Steps \cup {"queued"} /\ pc'[r] = "done"
      /\ pc[r] # "done" /\ call[r].key \in Keys /\ StepsOfCall /\ DownWhenStopped
      /\ ~iface.up => iface = Down
  <2>1. call[r] \in CallType
    BY HandlerFacts DEF RInv, IInv, Ends
  <2> QED
    BY <2>1, StepNames DEF RInv, IInv, Ends, CallType, HandlersConsistent, MapInv
<1>1. ASSUME NEW q \in Requests, q # r, \E step : pc' = [pc EXCEPT ![q] = step] PROVE FALSE
  BY <1>0, <1>1 DEF TypeInv, TypeOK
<1>2. ASSUME NEW q \in Requests, Send(q) PROVE FALSE
  BY <1>0, <1>1, <1>2 DEF Send, Goto, TypeInv, TypeOK
<1>3. ASSUME NEW q \in Requests, Dispatch(q) PROVE FALSE
  <2>1. q = r
    BY <1>1, <1>3 DEF Dispatch, Goto
  <2> QED
    BY <1>0, <1>3, <2>1 DEF Dispatch, Goto, FirstStep, TypeInv, TypeOK
<1>4. ASSUME NEW q \in Requests, Refuse(q) PROVE FALSE
  <2>1. q = r
    BY <1>1, <1>4 DEF Refuse, Answer, Goto
  <2> QED
    BY <1>4, <2>1 DEF Refuse, Refusal, RouteMatches
<1>5. ASSUME NEW q \in Requests, HandlerStep(q)
      PROVE  iface'.peers[call[r].key] = Absent
  <2>1. q = r
    <3>1. \E step : pc' = [pc EXCEPT ![q] = step]
      BY <1>5
      DEF HandlerStep, CreateKey, AddPeer, CreateStatus, RemovePeerStep, UpdatePeer,
          PersistKey, PersistDump, PersistWrite, InitStatus, InitKey, InitWrite, InitStrip,
          InitSync, InitUp, StatusLookup, StatusExec, GenerateKeypair, Raise, Answer, Goto
    <3> QED
      BY <1>1, <3>1
  <2>2. ~(CreateKey(r) \/ AddPeer(r) \/ UpdatePeer(r))
    BY <1>0 DEF StepsOfCall, CreateKey, GenerateKeypair, AddPeer, UpdatePeer, CreateSteps
  <2>3. ~(InitStatus(r) \/ InitKey(r) \/ InitWrite(r) \/ InitStrip(r) \/ InitSync(r)
          \/ InitUp(r) \/ StatusLookup(r) \/ StatusExec(r) \/ CreateStatus(r))
    BY <1>0
    DEF StepsOfCall, InitStatus, InitKey, GenerateKeypair, InitWrite, InitStrip, InitSync,
        InitUp, StatusLookup, StatusExec, CreateStatus, InitSteps, CreateSteps
  <2>4. CASE RemovePeerStep(r)
    <3>1. ~DumpWorks /\ iface' = iface
      BY <1>0, <2>4 DEF RemovePeerStep, Goto, TypeInv, TypeOK
    <3>2. iface = Down
      BY <1>0, <3>1 DEF DumpWorks, Running, DownWhenStopped, TypeInv, TypeOK
    <3> QED
      BY <1>0, <3>1, <3>2 DEF Down, Empty
  <2>5. CASE PersistKey(r) \/ PersistDump(r) \/ PersistWrite(r)
    <3>1. pc[r] \in PersistSteps /\ iface' = iface
      BY <2>5 DEF PersistKey, PersistDump, PersistWrite, PersistSteps, node
    <3> QED
      BY <3>1 DEF Removed
  <2> QED
    BY <1>5, <2>1, <2>2, <2>3, <2>4, <2>5 DEF HandlerStep
<1>6. ~(AgentCrash \/ ContainerStop \/ ContainerStart \/ Provision \/ ManualUp \/ UNCHANGED vars)
  BY <1>0
  DEF AgentCrash, ContainerStop, ContainerStart, Provision, ManualUp, vars, agent, TypeInv,
      TypeOK
<1> QED
  BY <1>2, <1>3, <1>4, <1>5, <1>6 DEF Next, Serve

\* Whatever a delete of a key without a slash is answered, the key has no access then.
THEOREM DeletesTakePeersBack == Spec => DeletesTakeBack
<1>1. Init => RInv /\ Removed
  BY IInvInit, MapInit
  DEF Init, RInv, KeyMade, HoldsKey, PersistSteps, Blank, Removed
<1>2. RInv /\ Removed /\ [Next]_vars => (RInv /\ Removed)'
  BY RInvStep, RemovedStep
<1> QED
  BY <1>1, <1>2, AnsweredDelete, PTL DEF Spec, DeletesTakeBack
============================================================================
