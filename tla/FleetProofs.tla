---------------------------- MODULE FleetProofs ----------------------------
(***************************************************************************)
(* The panel with its real agent behaves as the panel with the contract,   *)
(* for every choice of the constants.                                      *)
(*                                                                         *)
(* AwgNodeRefinementProofs has each step of the node as one step of the    *)
(* contract or none; what is left is what the panel sees besides: which    *)
(* calls can arrive, and which public key an answer has in it.             *)
(***************************************************************************)
EXTENDS Fleet, AwgNodeRefinementProofs, FiniteSetTheorems

\* A call the panel makes.
PanelCall(c) ==
    \/ c = NoCall
    \/ c.op \in {"init", "delete"}
    \/ c.op = "create" /\ c.ips \in Ips

\* A handler that has begun has its job, and only calls of the panel are under way.
WireInv ==
    /\ at = [r \in Requests |-> at[r]]
    /\ job = [r \in Requests |-> job[r]]
    /\ wire = [r \in Requests |-> wire[r]]
    /\ \A r \in Requests :
          /\ at[r] # "waiting" => job[r] \in Jobs
          /\ PanelCall(wire[r])
          /\ PanelCall(call[r])

\* Only an answer has a public key in it.
NoKeyYet == \A r \in Requests : pc[r] # "done" => reply[r].key = NoKey

\* The history is up to date: another look at the node would change nothing.
Remembered ==
    given = [r \in Requests |->
                {k \in Keys : iface.peers[k] # Absent /\ (k \in given[r] \/ k = Made[r])}]

FInv == RInv /\ WireInv /\ NoKeyYet /\ Remembered

AgentVars == <<node, agent>>
----------------------------------------------------------------------------
(* The public key in an answer.                                            *)

\* The key PanelPeers expects in the answer to r.
KeyOf(r) ==
    IF reg[r].made # NoKey THEN reg[r].made
    ELSE IF call[r].op = "init" THEN iface.key
    ELSE NoKey

\* An answer to r has that key if it is a success, and none otherwise.
AnsweredWell(r) ==
    \E code \in {200, 201, 400, 401, 404, 500, 503}, key \in Keys \cup {NoKey} :
        /\ Answer(r, code, key)
        /\ key = IF code \in {200, 201} THEN KeyOf(r) ELSE NoKey

\* A step that answers r does so, and no other step touches the answers.
LEMMA HandlerAnswers ==
    ASSUME RInv, NEW r \in Requests, call[r].op \in {"init", "create", "delete"},
           Refuse(r) \/ Dispatch(r) \/ HandlerStep(r)
    PROVE  (pc[r] \in Steps \cup {"queued"} /\ AnsweredWell(r))
           \/ (reply' = reply /\ \A q \in Requests : pc'[q] = "done" <=> pc[q] = "done")
<1> DEFINE Silent == reply' = reply /\ \A q \in Requests : pc'[q] = "done" <=> pc[q] = "done"
<1>0. /\ reg[r].made # NoKey <=> HoldsKey(pc[r], call[r])
      /\ reg[r].made \in Keys \cup {NoKey}
      /\ iface.key \in Keys \cup {NoKey}
      /\ StepsOfCall
  BY DEF RInv, KeyMade, IInv, HandlersConsistent, TypeInv, TypeOK, Registers, Interface
<1>1. ASSUME NEW code \in {400, 401, 404, 500, 503}, Answer(r, code, NoKey)
      PROVE  AnsweredWell(r)
  BY <1>1 DEF AnsweredWell
<1>2. ASSUME NEW code \in {200, 201}, Answer(r, code, KeyOf(r)) PROVE AnsweredWell(r)
  BY <1>0, <1>2 DEF AnsweredWell, KeyOf
<1>3. ASSUME NEW step, step # "done", pc[r] # "done", Goto(r, step), reply' = reply
      PROVE  Silent
  BY <1>3 DEF Goto, RInv, IInv, TypeInv, TypeOK
<1>4. CASE Refuse(r)
  <2>1. Refusal(call[r]) \in {400, 401, 404}
    BY <1>4 DEF Refuse, Refusal
  <2> QED
    BY <1>1, <1>4, <2>1 DEF Refuse
<1>5. CASE Dispatch(r)
  <2>1. FirstStep(call[r].op) # "done"
    BY DEF FirstStep
  <2> QED
    BY <1>3, <1>5, <2>1 DEF Dispatch
<1>6. CASE HandlerStep(r)
  <2>0. pc[r] \in Steps
    BY <1>6, StepNames
    DEF HandlerStep, CreateKey, AddPeer, CreateStatus, RemovePeerStep, UpdatePeer,
        PersistKey, PersistDump, PersistWrite, InitStatus, InitKey, InitWrite, InitStrip,
        InitSync, InitUp, StatusLookup, StatusExec, GenerateKeypair
  <2>1. CASE CreateKey(r) \/ InitKey(r) \/ AddPeer(r) \/ RemovePeerStep(r)
    BY <1>1, <1>3, <2>0, <2>1
    DEF CreateKey, InitKey, GenerateKeypair, AddPeer, RemovePeerStep, Raise
  <2>2. CASE UpdatePeer(r) \/ StatusLookup(r) \/ StatusExec(r)
    BY <1>0, <2>2 DEF UpdatePeer, StatusLookup, StatusExec, StepsOfCall
  <2>3. CASE PersistKey(r) \/ PersistDump(r) \/ InitWrite(r)
    BY <1>1, <1>3, <2>0, <2>3 DEF PersistKey, PersistDump, InitWrite, Raise
  <2>4. CASE PersistWrite(r)
    <3>1. call[r].op # "create" => KeyOf(r) = NoKey
      BY <1>0, <2>4
      DEF PersistWrite, HoldsKey, KeyOf, StepsOfCall, PersistSteps, Mutations
    <3> QED
      BY <1>1, <1>2, <1>3, <2>0, <2>4, <3>1 DEF PersistWrite, Raise
  <2>5. CASE CreateStatus(r)
    <3>1. KeyOf(r) = reg[r].made
      BY <1>0, <2>5 DEF CreateStatus, HoldsKey, KeyOf
    <3> QED
      BY <1>1, <1>2, <2>0, <2>5, <3>1 DEF CreateStatus, Raise
  <2>6. CASE InitStatus(r)
    <3>1. StatusKey # NoKey => KeyOf(r) = StatusKey
      BY <1>0, <2>6
      DEF InitStatus, HoldsKey, KeyOf, StepsOfCall, InitSteps, PersistSteps, StatusKey
    <3> QED
      BY <1>1, <1>2, <1>3, <2>0, <2>6, <3>1 DEF InitStatus, Raise
  <2>7. CASE InitStrip(r)
    BY <1>3, <2>7 DEF InitStrip
  <2>8. CASE InitSync(r) \/ InitUp(r)
    <3>1. KeyOf(r) = reg[r].made
      BY <1>0, <2>8 DEF InitSync, InitUp, HoldsKey, KeyOf
    <3> QED
      BY <1>1, <1>2, <1>3, <2>0, <2>8, <3>1 DEF InitSync, InitUp, Raise
  <2> QED
    BY <1>6, <2>1, <2>2, <2>3, <2>4, <2>5, <2>6, <2>7, <2>8 DEF HandlerStep
<1> QED
  BY <1>4, <1>5, <1>6

Newly(r) == Phases[r] # "ok" /\ Phases'[r] = "ok"

Follows ==
    /\ \A q \in Requests : Bodies'[q] = IF Newly(q) THEN KeyOf(q) ELSE Bodies[q]
    /\ NoKeyYet'

\* The program counters of a request that is being served.
LEMMA ServedNames ==
    ASSUME NEW r \in Requests, pc[r] \in Steps \cup {"queued"}
    PROVE  Phases[r] # "ok" /\ pc[r] # "done"
BY PhaseValue, StepNames DEF Abstract!Pending

\* Every step of the node or the network: who newly succeeds gets its key, the other
\* answers stay, and there is no answer before its time.
LEMMA BodiesFollow ==
    ASSUME FInv, NodeStep \/ \E r \in Requests : Send(r) PROVE Follows
<1>0. /\ reply \in [Requests -> Answers] /\ TypeInv
      /\ \A q \in Requests : pc[q] # "done" => reply[q].key = NoKey
  BY DEF FInv, RInv, IInv, TypeInv, TypeOK, NoKeyYet
<1>1. ASSUME reply' = reply, \A q \in Requests : pc'[q] = "done" <=> pc[q] = "done"
      PROVE  /\ \A q \in Requests : ~ Newly(q)
             /\ Bodies' = Bodies /\ NoKeyYet'
  <2>1. ASSUME NEW q \in Requests, Phases'[q] = "ok" PROVE Phases[q] = "ok"
    <3>1. pc'[q] = "done" /\ reply'[q].code \in {200, 201}
      BY <2>1 DEF Phases, PhaseOf
    <3> QED
      BY <1>1, <3>1 DEF Phases, PhaseOf, AppliedSteps, PersistSteps
  <2>2. Bodies' = Bodies /\ NoKeyYet'
    BY <1>0, <1>1 DEF Bodies, NoKeyYet
  <2> QED
    BY <2>1, <2>2 DEF Newly
<1>2. ASSUME NEW r \in Requests, Serve(r) PROVE Follows
  <2>1. pc[r] \in Steps \cup {"queued"}
    BY <1>2, StepNames
    DEF Serve, Refuse, Dispatch, HandlerStep, CreateKey, AddPeer, CreateStatus,
        RemovePeerStep, UpdatePeer, PersistKey, PersistDump, PersistWrite, InitStatus,
        InitKey, InitWrite, InitStrip, InitSync, InitUp, StatusLookup, StatusExec,
        GenerateKeypair
  <2>2. call[r] # NoCall
    BY <1>0, <2>1, HandlerFacts, CallsAssumption
  <2>3. call[r].op \in {"init", "create", "delete"}
    BY <2>2 DEF FInv, WireInv, PanelCall
  <2>4. CASE AnsweredWell(r)
    <3>1. PICK code \in {200, 201, 400, 401, 404, 500, 503}, key \in Keys \cup {NoKey} :
             /\ Answer(r, code, key)
             /\ key = IF code \in {200, 201} THEN KeyOf(r) ELSE NoKey
      BY <2>4 DEF AnsweredWell
    <3>2. pc'[r] = "done" /\ reply'[r] = [code |-> code, key |-> key]
      BY <1>0, <3>1 DEF Answer, Goto, TypeInv, TypeOK
    <3>3. \A q \in Requests : q # r => pc'[q] = pc[q] /\ reply'[q] = reply[q]
      BY <1>0, <3>1 DEF Answer, Goto, TypeInv, TypeOK
    <3>4. Newly(r) <=> code \in {200, 201}
      BY <2>1, <3>2, ServedNames
      DEF Newly, Phases, PhaseOf, AppliedSteps, PersistSteps
    <3>5. Bodies'[r] = IF Newly(r) THEN KeyOf(r) ELSE Bodies[r]
      BY <1>0, <2>1, <3>1, <3>2, <3>4, ServedNames DEF Bodies
    <3>6. ASSUME NEW q \in Requests, q # r
          PROVE  ~ Newly(q) /\ Bodies'[q] = Bodies[q]
      BY <3>3, <3>6 DEF Newly, Phases, PhaseOf, Bodies
    <3>7. NoKeyYet'
      BY <1>0, <3>2, <3>3 DEF NoKeyYet
    <3> QED
      BY <3>5, <3>6, <3>7 DEF Follows
  <2> QED
    BY <1>1, <1>2, <2>3, <2>4, HandlerAnswers DEF FInv, Serve, Follows
<1>3. ASSUME NEW r \in Requests, Send(r) PROVE Follows
  BY <1>0, <1>1, <1>3 DEF Send, Goto, TypeInv, TypeOK, Follows
<1>4. CASE AgentCrash
  BY <1>1, <1>4 DEF AgentCrash, Finished, Follows
<1>5. CASE ContainerStop \/ ContainerStart \/ Provision \/ ManualUp
  BY <1>1, <1>5 DEF ContainerStop, ContainerStart, Provision, ManualUp, agent, Follows
<1> QED
  BY <1>2, <1>3, <1>4, <1>5 DEF NodeStep
----------------------------------------------------------------------------
(* A step of the node, as the panel's contract has it.                     *)

\* What the panel asks for and the agent is asked for are the same.
LEMMA AskedAgrees ==
    ASSUME NEW r \in Requests
    PROVE  /\ Asked[r].op = call[r].op
           /\ Asked[r].op = "create" => Asked[r].ips = call[r].ips
           /\ Asked[r].op = "delete" => Asked[r].key = call[r].key
BY DEF Asked, Bare

\* Seen from the panel, a call has the effect that it has on the agent.
LEMMA EffectAgrees ==
    ASSUME NEW r \in Requests, call[r].op \in {"create", "delete"}
    PROVE  Panel!Agent!Effect(r) = Abstract!Effect(r)
<1>1. CASE call[r].op = "create"
  BY <1>1, AskedAgrees
  DEF Panel!Agent!Effect, Abstract!Effect, Panel!Agent!Assigned, Abstract!Assigned
<1>2. CASE call[r].op = "delete"
  BY <1>2, AskedAgrees DEF Panel!Agent!Effect, Abstract!Effect
<1> QED
  BY <1>1, <1>2

\* Only success says so.
LEMMA NotNewly ==
    ASSUME FInv, Follows, \A q \in Requests : ~ Newly(q) PROVE Bodies' = Bodies
BY DEF Follows, Bodies

\* A success is the panel's AgentSucceeds: it has the key PanelPeers expects.
LEMMA SuccessHasKey ==
    ASSUME FInv, Follows, NEW r \in Requests, Abstract!Succeed(r) \/ Abstract!BringUp(r)
    PROVE  Bodies' = [Bodies EXCEPT ![r] = IF Made[r] # NoKey THEN Made[r]
                                           ELSE IF Asked[r].op = "init" THEN iface.key
                                           ELSE NoKey]
<1>1. Phases[r] # "ok" /\ Phases' = [Phases EXCEPT ![r] = "ok"]
  BY DEF Abstract!Succeed, Abstract!BringUp, Abstract!Enter
<1>2. \A q \in Requests : Newly(q) <=> q = r
  BY <1>1 DEF Newly, Phases
<1>3. KeyOf(r) = IF Made[r] # NoKey THEN Made[r]
                 ELSE IF Asked[r].op = "init" THEN iface.key ELSE NoKey
  BY AskedAgrees DEF KeyOf, Made
<1> QED
  BY <1>2, <1>3 DEF Follows, Bodies

\* A request that has been sent asks for something.
LEMMA PendingHasCall ==
    ASSUME FInv, NEW r \in Requests, Phases[r] = "sent" PROVE call[r] # NoCall
<1>1. pc[r] \in Steps \cup {"queued", "unsent", "lost", "done"}
      /\ reply[r].code \in {0, 200, 201, 400, 401, 404, 500, 503}
      /\ (pc[r] = "done" => reply[r].code # 0)
  BY DEF FInv, RInv, IInv, TypeInv, TypeOK, Answers, Finished, MapInv
<1>2. pc[r] \in Steps \cup {"queued"}
  BY <1>1 DEF Phases, PhaseOf, AppliedSteps, PersistSteps
<1> QED
  BY <1>2, HandlerFacts, CallsAssumption DEF FInv, RInv, IInv

\* A step of the contract that delivers no call, under AwgNode's calls, is one under the
\* panel's.
LEMMA ContractMaps ==
    ASSUME FInv, Follows, Abstract!ContractNext, call' = call, UNCHANGED panel,
           Panel!Remember,
           \A r \in Requests : ~ Abstract!Accept(r)
    PROVE  Panel!AgentStep
<1>0. Asked' = Asked /\ UNCHANGED <<Panel!stores, Panel!handlers>>
  BY DEF Asked, panel, Panel!stores, Panel!handlers
<1>1. ASSUME NEW r \in Requests, Abstract!Mint(r)
      PROVE  Panel!Agent!Mint(r) /\ Bodies' = Bodies
  <2>1. \A q \in Requests : ~ Newly(q)
    BY <1>1 DEF Abstract!Mint, Newly
  <2> QED
    BY <1>0, <1>1, <2>1, NotNewly, AskedAgrees DEF Abstract!Mint, Panel!Agent!Mint
<1>2. ASSUME NEW r \in Requests, Abstract!Apply(r)
      PROVE  Panel!Agent!Apply(r) /\ Bodies' = Bodies
  <2>1. call[r].op \in {"create", "delete"}
    BY <1>2, PendingHasCall DEF Abstract!Apply, FInv, WireInv, PanelCall
  <2>2. \A q \in Requests : ~ Newly(q)
    BY <1>2 DEF Abstract!Apply, Abstract!Enter, Newly, Phases
  <2> QED
    BY <1>0, <1>2, <2>1, <2>2, NotNewly, AskedAgrees, EffectAgrees
    DEF Abstract!Apply, Panel!Agent!Apply, Abstract!Enter, Panel!Agent!Enter
<1>3. ASSUME NEW r \in Requests, Abstract!Succeed(r) \/ Abstract!BringUp(r)
      PROVE  Panel!AgentSucceeds(r)
  <2>1. Panel!Agent!Succeed(r) \/ Panel!Agent!BringUp(r)
    BY <1>0, <1>3, AskedAgrees
    DEF Abstract!Succeed, Panel!Agent!Succeed, Abstract!BringUp, Panel!Agent!BringUp,
        Abstract!Enter, Panel!Agent!Enter, Abstract!Forget, Panel!Agent!Forget,
        Abstract!NoPeers, Panel!Agent!NoPeers
  <2> QED
    BY <1>3, <2>1, SuccessHasKey DEF Panel!AgentSucceeds
<1>4. ASSUME NEW r \in Requests, Abstract!Refuse(r) \/ Abstract!Fail(r)
      PROVE  (Panel!Agent!Refuse(r) \/ Panel!Agent!Fail(r)) /\ Bodies' = Bodies
  <2>1. \A q \in Requests : ~ Newly(q)
    BY <1>4 DEF Abstract!Refuse, Abstract!Fail, Abstract!Enter, Newly, Phases
  <2> QED
    BY <1>0, <1>4, <2>1, NotNewly
    DEF Abstract!Refuse, Panel!Agent!Refuse, Abstract!Fail, Panel!Agent!Fail,
        Abstract!Enter, Panel!Agent!Enter, Abstract!Forget, Panel!Agent!Forget,
        Abstract!Pending, Panel!Agent!Pending
<1>5. ASSUME Abstract!Crash PROVE Panel!Agent!Crash /\ Bodies' = Bodies
  <2>1. \A q \in Requests : ~ Newly(q)
    BY <1>5 DEF Abstract!Crash, Newly, Phases
  <2> QED
    BY <1>0, <1>5, <2>1, NotNewly
    DEF Abstract!Crash, Panel!Agent!Crash, Abstract!Pending, Panel!Agent!Pending
<1>6. ASSUME Abstract!Restart \/ Abstract!Operate
      PROVE  (Panel!Agent!Restart \/ Panel!Agent!Operate) /\ Bodies' = Bodies
  <2>1. \A q \in Requests : ~ Newly(q)
    BY <1>6 DEF Abstract!Restart, Abstract!Operate, Newly
  <2> QED
    BY <1>0, <1>6, <2>1, NotNewly
    DEF Abstract!Restart, Panel!Agent!Restart, Abstract!Operate, Panel!Agent!Operate,
        Abstract!NoPeers, Panel!Agent!NoPeers
<1> QED
  BY <1>0, <1>1, <1>2, <1>3, <1>4, <1>5, <1>6
  DEF Abstract!ContractNext, Panel!AgentStep
----------------------------------------------------------------------------
(* The steps of the fleet.                                                 *)

\* A request starts only by being sent.
LEMMA NodeStepStarts ==
    ASSUME FInv, NodeStep, NEW q \in Requests, pc[q] = "unsent" PROVE pc'[q] = "unsent"
<1>0. TypeInv
  BY DEF FInv, RInv, IInv
<1>1. ASSUME NEW r \in Requests, Serve(r) PROVE pc'[q] = "unsent"
  <2>1. pc[r] # "unsent"
    BY <1>1
    DEF Serve, Refuse, Dispatch, HandlerStep, CreateKey, AddPeer, CreateStatus,
        RemovePeerStep, UpdatePeer, PersistKey, PersistDump, PersistWrite, InitStatus,
        InitKey, InitWrite, InitStrip, InitSync, InitUp, StatusLookup, StatusExec,
        GenerateKeypair
  <2>2. \E step : Goto(r, step)
    BY <1>1
    DEF Serve, Refuse, Dispatch, HandlerStep, CreateKey, AddPeer, CreateStatus,
        RemovePeerStep, UpdatePeer, PersistKey, PersistDump, PersistWrite, InitStatus,
        InitKey, InitWrite, InitStrip, InitSync, InitUp, StatusLookup, StatusExec,
        GenerateKeypair, Raise, Answer
  <2> QED
    BY <1>0, <2>1, <2>2 DEF Goto, TypeInv, TypeOK
<1> QED
  BY <1>1
  DEF NodeStep, AgentCrash, ContainerStop, ContainerStart, Provision, ManualUp, agent,
      Finished

\* A step of the node is one of PanelPeers, or invisible.
LEMMA NodeStepMaps ==
    ASSUME FInv, NodeStep PROVE Panel!Next \/ UNCHANGED Panel!vars
<1>0. Follows /\ call' = call /\ UNCHANGED panel /\ Panel!Remember
  BY BodiesFollow
  DEF NodeStep, Serve, Refuse, Dispatch, HandlerStep, CreateKey, AddPeer, CreateStatus,
      RemovePeerStep, UpdatePeer, PersistKey, PersistDump, PersistWrite, InitStatus,
      InitKey, InitWrite, InitStrip, InitSync, InitUp, StatusLookup, StatusExec,
      GenerateKeypair, AgentCrash, ContainerStop, ContainerStart, Provision, ManualUp, agent
<1>1. Mapped
  BY StepMaps DEF FInv, NodeStep, Next, Mapped
<1>2. \A q \in Requests : ~ Abstract!Accept(q)
  <2>1. ASSUME NEW q \in Requests, Phases[q] = "unsent" PROVE Phases'[q] = "unsent"
    <3>1. pc[q] = "unsent"
      BY <2>1 DEF Phases, PhaseOf
    <3>2. pc'[q] = "unsent"
      BY <3>1, NodeStepStarts
    <3> QED
      BY <3>2 DEF Phases, PhaseOf, AppliedSteps, PersistSteps
  <2> QED
    BY <2>1 DEF Abstract!Accept, Abstract!Enter, Phases
<1>3. CASE Abstract!ContractNext
  BY <1>0, <1>2, <1>3, ContractMaps DEF Panel!Next
<1>4. CASE UNCHANGED Abstract!contractVars
  <2>1. \A q \in Requests : ~ Newly(q)
    BY <1>4 DEF Abstract!contractVars, Newly
  <2>2. Bodies' = Bodies
    BY <1>0, <2>1, NotNewly
  <2>3. given' = given
    BY <1>0, <1>4 DEF Panel!Remember, Abstract!contractVars, FInv, Remembered
  <2> QED
    BY <1>0, <1>4, <2>2, <2>3
    DEF Abstract!contractVars, Panel!vars, Panel!agentVars, Panel!stores,
        Panel!handlers, panel, Asked
<1> QED
  BY <1>1, <1>3, <1>4 DEF Mapped

\* The arrival of a call is PanelPeers' Deliver.
LEMMA DeliverMaps ==
    ASSUME FInv, NEW r \in Requests, Deliver(r) PROVE Panel!Deliver(r)
<1>0. Send(r) /\ Bare(call'[r]) = wire[r] /\ wire[r] # NoCall /\ UNCHANGED panel
  BY DEF Deliver
<1>1. PICK c \in Calls : call' = [call EXCEPT ![r] = c]
  BY <1>0 DEF Send
<1>2. wire[r] = Bare(c) /\ c \in CallType /\ c # NoCall
  BY <1>0, <1>1, CallsAssumption DEF FInv, RInv, IInv, TypeInv, TypeOK
<1>3. wire[r] \in Panel!PanelCalls
  BY <1>0, <1>2 DEF Bare, CallType, Panel!PanelCalls, FInv, WireInv, PanelCall
<1>4. Asked' = [Asked EXCEPT ![r] = wire[r]]
  BY <1>1, <1>2 DEF Asked, FInv, RInv, IInv, TypeInv, TypeOK
<1>5. Phases[r] = "unsent" /\ Panel!Agent!Enter(r, "sent")
  <2>1. Phases[r] = "unsent"
    BY <1>0 DEF Send, Phases, PhaseOf, AppliedSteps, PersistSteps
  <2>2. Abstract!Enter(r, "sent")
    BY <1>0, GotoMaps, StepNames DEF FInv, Send, AppliedSteps, PersistSteps
  <2> QED
    BY <2>1, <2>2 DEF Abstract!Enter, Panel!Agent!Enter
<1>6. Made' = Made /\ Bodies' = Bodies /\ iface' = iface /\ minted' = minted
  BY <1>0 DEF Send, Made, Bodies, node
<1>7. Asked'[r] = wire[r]
  BY <1>4 DEF Asked
<1> QED
  BY <1>0, <1>3, <1>4, <1>5, <1>6, <1>7 DEF Panel!Deliver, Panel!Agent!Accept

\* The panel's own steps are those of PanelPeers, and touch neither the node nor the agent.
LEMMA PanelStepMaps ==
    ASSUME PanelMoves \/ \E r \in Requests : Handle(r)
    PROVE  Panel!Next /\ UNCHANGED AgentVars
BY DEF PanelMoves, Handle, Panel!Next, AgentVars

\* Every step of the fleet is one of PanelPeers, or invisible.
LEMMA FleetStepMaps ==
    FInv /\ [FleetNext]_fleetVars => [Panel!Next]_(Panel!vars)
<1> SUFFICES ASSUME FInv, [FleetNext]_fleetVars PROVE Panel!Next \/ UNCHANGED Panel!vars
  OBVIOUS
<1>1. ASSUME NEW r \in Requests, Deliver(r) PROVE Panel!Next
  <2>1. UNCHANGED <<Panel!stores, Panel!handlers>>
    BY <1>1 DEF Deliver, panel, Panel!stores, Panel!handlers
  <2> QED
    BY <1>1, <2>1, DeliverMaps DEF Panel!Next, Panel!AgentStep, Deliver
<1>2. CASE UNCHANGED fleetVars
  BY <1>2
  DEF fleetVars, panel, node, agent, Panel!vars, Panel!agentVars, Panel!stores,
      Panel!handlers, Asked, Bodies, Made, Phases, PhaseOf
<1> QED
  BY <1>1, <1>2, NodeStepMaps, PanelStepMaps DEF FleetNext
----------------------------------------------------------------------------
(* The invariant.                                                          *)

\* A handler of the panel keeps its job, and calls the agent only as PanelCall says.
LEMMA HandleKeepsWires ==
    ASSUME WireInv, NEW r \in Requests, Handle(r) PROVE WireInv'
<1>1. Panel!PanelStep(r) /\ UNCHANGED <<node, agent>>
  BY DEF Handle
<1>2. job' = job /\ at[r] # "waiting" /\ \E step : at' = [at EXCEPT ![r] = step]
  BY <1>1
  DEF Panel!PanelStep, Panel!GetPeer, Panel!GetNode, Panel!HearSuccess,
      Panel!HearFailure, Panel!StoreFails, Panel!InsertPeer, Panel!RefreshPeer,
      Panel!CacheConfig, Panel!StampPeer, Panel!UncacheConfig, Panel!LookupConfig,
      Panel!InsertNode, Panel!RefreshNode, Panel!SaveKey, Panel!RefreshKey,
      Panel!DeleteNode, Panel!Reply, Panel!Continue, Panel!CallAgent, Panel!Goto,
      Panel!StoreSteps, Panel!handlers
<1>3. \/ wire' = wire
      \/ \E c : wire' = [wire EXCEPT ![r] = c] /\ PanelCall(c)
  <2>1. CASE Panel!GetNode(r)
    <3>1. job[r].kind = "create" => job[r].ips \in Ips
      BY <1>2, FleetAssumption DEF WireInv, Panel!JobType
    <3> QED
      BY <2>1, <3>1 DEF Panel!GetNode, Panel!CallAgent, PanelCall
  <2>2. CASE Panel!RefreshNode(r)
    BY <2>2 DEF Panel!RefreshNode, Panel!CallAgent, PanelCall
  <2> QED
    BY <1>1, <2>1, <2>2
    DEF Panel!PanelStep, Panel!GetPeer, Panel!HearSuccess,
        Panel!HearFailure, Panel!StoreFails, Panel!InsertPeer, Panel!RefreshPeer,
        Panel!CacheConfig, Panel!StampPeer, Panel!UncacheConfig, Panel!LookupConfig,
        Panel!InsertNode, Panel!SaveKey, Panel!RefreshKey, Panel!DeleteNode
<1>4. wire' = [q \in Requests |-> wire'[q]] /\ \A q \in Requests : PanelCall(wire'[q])
  BY <1>3 DEF WireInv
<1>5. at' = [q \in Requests |-> at'[q]] /\ \A q \in Requests : at'[q] # "waiting" => job[q] \in Jobs
  BY <1>2 DEF WireInv
<1> QED
  BY <1>1, <1>2, <1>4, <1>5 DEF WireInv, PanelCall, agent

\* Arrivals, a crash of the panel and the expiry of a configuration keep them too.
LEMMA MovesKeepWires == ASSUME WireInv, PanelMoves PROVE WireInv'
<1>0. wire' = wire /\ call' = call
  BY DEF PanelMoves, agent, Panel!Arrive, Panel!PanelCrash, Panel!Expire, Panel!handlers
<1>1. ASSUME NEW r \in Requests, Panel!Arrive(r) PROVE WireInv'
  <2>1. PICK j \in Jobs : /\ job' = [job EXCEPT ![r] = j]
                         /\ \E step : at' = [at EXCEPT ![r] = step]
    BY <1>1 DEF Panel!Arrive, Panel!Goto
  <2> QED
    BY <1>0, <2>1 DEF WireInv, PanelCall
<1>2. CASE Panel!PanelCrash
  BY <1>0, <1>2 DEF Panel!PanelCrash, Panel!Ended, WireInv, PanelCall
<1>3. CASE Panel!Expire
  BY <1>0, <1>3 DEF Panel!Expire, Panel!handlers, WireInv, PanelCall
<1> QED
  BY <1>1, <1>2, <1>3 DEF PanelMoves

\* A call that arrives is the panel's.
LEMMA DeliverKeepsWires ==
    ASSUME FInv, NEW r \in Requests, Deliver(r) PROVE WireInv'
<1>1. PICK c \in Calls : call' = [call EXCEPT ![r] = c]
  BY DEF Deliver, Send
<1>2. Bare(c) = wire[r] /\ wire[r] # NoCall /\ UNCHANGED panel
  BY <1>1 DEF Deliver, FInv, RInv, IInv, TypeInv, TypeOK
<1>3. PanelCall(c)
  BY <1>2 DEF FInv, WireInv, PanelCall, Bare
<1>4. \A q \in Requests : PanelCall(call'[q])
  BY <1>1, <1>3 DEF FInv, WireInv, RInv, IInv, TypeInv, TypeOK
<1> QED
  BY <1>2, <1>4 DEF FInv, WireInv, PanelCall, panel

\* What was just remembered is remembered.
LEMMA RememberedNow == ASSUME Panel!Remember PROVE Remembered'
BY DEF Panel!Remember, Remembered

\* The panel's own steps leave the history as it is.
LEMMA PanelKeepsRemembered ==
    ASSUME Remembered, PanelMoves \/ \E r \in Requests : Handle(r) PROVE Remembered'
<1>1. given' = given
  BY DEF PanelMoves, Handle, Panel!Arrive, Panel!PanelCrash, Panel!Expire, Panel!agentVars,
         Panel!PanelStep, Panel!GetPeer, Panel!GetNode, Panel!HearSuccess,
         Panel!HearFailure, Panel!StoreFails, Panel!InsertPeer, Panel!RefreshPeer,
         Panel!CacheConfig, Panel!StampPeer, Panel!UncacheConfig, Panel!LookupConfig,
         Panel!InsertNode, Panel!RefreshNode, Panel!SaveKey, Panel!RefreshKey,
         Panel!DeleteNode
<1> QED
  BY <1>1 DEF PanelMoves, Handle, node, agent, Remembered, Made

\* Every step keeps the invariant.
LEMMA FInvStep == FInv /\ [FleetNext]_fleetVars => FInv'
<1> SUFFICES ASSUME FInv, [FleetNext]_fleetVars PROVE FInv'
  OBVIOUS
<1>1. ASSUME NEW r \in Requests, Deliver(r) PROVE FInv'
  <2>1. Send(r)
    BY <1>1 DEF Deliver
  <2>2. RInv'
    BY <2>1, RInvStep DEF FInv, Next
  <2> QED
    BY <1>1, <2>1, <2>2, DeliverKeepsWires, BodiesFollow, RememberedNow
    DEF FInv, Follows, Deliver
<1>2. CASE NodeStep
  <2>1. RInv'
    BY <1>2, RInvStep DEF FInv, NodeStep, Next
  <2>2. call' = call /\ UNCHANGED panel
    BY <1>2
    DEF NodeStep, Serve, Refuse, Dispatch, HandlerStep, CreateKey, AddPeer, CreateStatus,
        RemovePeerStep, UpdatePeer, PersistKey, PersistDump, PersistWrite, InitStatus,
        InitKey, InitWrite, InitStrip, InitSync, InitUp, StatusLookup, StatusExec,
        GenerateKeypair, AgentCrash, ContainerStop, ContainerStart, Provision, ManualUp,
        agent
  <2>3. WireInv'
    BY <2>2 DEF FInv, WireInv, PanelCall, panel
  <2> QED
    BY <1>2, <2>1, <2>3, BodiesFollow, RememberedNow DEF FInv, Follows, NodeStep
<1>3. ASSUME UNCHANGED vars, WireInv', Remembered' PROVE FInv'
  <2>1. RInv'
    BY <1>3, RInvStep DEF FInv
  <2> QED
    BY <1>3, <2>1 DEF FInv, NoKeyYet, vars, agent
<1>4. CASE PanelMoves \/ \E r \in Requests : Handle(r)
  <2>1. UNCHANGED vars
    BY <1>4, PanelStepMaps DEF AgentVars, vars
  <2> QED
    BY <1>3, <1>4, <2>1, MovesKeepWires, HandleKeepsWires, PanelKeepsRemembered DEF FInv
<1>5. CASE UNCHANGED fleetVars
  <2>1. UNCHANGED vars /\ WireInv'
    BY <1>5 DEF fleetVars, panel, vars, node, agent, FInv, WireInv, PanelCall
  <2>2. Remembered'
    BY <1>5 DEF fleetVars, node, agent, FInv, Remembered, Made
  <2> QED
    BY <1>3, <2>1, <2>2
<1> QED
  BY <1>1, <1>2, <1>4, <1>5 DEF FleetNext
----------------------------------------------------------------------------
(* The initial states.                                                     *)

\* A provisioned node satisfies what the mapping of the node needs.
LEMMA ProvisionedRInv == ProvisionedInit => RInv
<1> SUFFICES ASSUME ProvisionedInit PROVE RInv
  OBVIOUS
<1>1. PICK k \in Keys : minted = {k} /\ disk = RenderServerConfig(k, "node", Empty)
  BY DEF ProvisionedInit
<1>2. disk \in Conf /\ disk.key = k /\ disk.peers = Empty
  BY <1>1, EmptyIsTable DEF RenderServerConfig, Conf, Params
<1>3. TypeOK
  BY <1>1, <1>2, UpWithType, BlankIsRegisters
  DEF ProvisionedInit, TypeOK, NoAnswer, Answers, Finished
<1>4. \A r \in Requests : pc[r] = "unsent" /\ pc[r] \notin Steps
  BY StepNames DEF ProvisionedInit
<1>5. TypeInv
  BY <1>2, <1>3, <1>4, UpWithType, StepNames DEF ProvisionedInit, TypeInv, LocalsSet
<1>6. HandlersConsistent
  BY <1>1, <1>2, <1>4, StepNames, ValuesAssumption
  DEF ProvisionedInit, UpWith, HandlersConsistent, OneHandler, StepsOfCall, EpochsPast,
      KeysMinted, DownWhenStopped, Steps
<1>7. MapInv
  BY <1>2, <1>4, BringUpNames DEF ProvisionedInit, UpWith, MapInv, NoPeersIn
<1>8. KeyMade
  BY DEF ProvisionedInit, KeyMade, HoldsKey, PersistSteps, Blank
<1> QED
  BY <1>5, <1>6, <1>7, <1>8 DEF RInv, IInv

\* The fleet starts in the invariant.
LEMMA FleetInitInv == FleetInit => FInv
<1> SUFFICES ASSUME FleetInit PROVE FInv
  OBVIOUS
<1>1. RInv
  BY IInvInit, MapInit, ProvisionedRInv
  DEF FleetInit, RInv, Init, KeyMade, HoldsKey, PersistSteps, Blank
<1>2. WireInv
  BY DEF FleetInit, Init, ProvisionedInit, Panel!Init, WireInv, PanelCall
<1>3. NoKeyYet
  BY DEF FleetInit, Init, ProvisionedInit, NoKeyYet, NoAnswer
<1>4. Remembered
  <2>1. iface.peers = Empty
    BY EmptyIsTable
    DEF FleetInit, Init, ProvisionedInit, Down, UpWith, RenderServerConfig
  <2>2. given = [r \in Requests |-> {}]
    BY DEF FleetInit, Panel!Init
  <2> QED
    BY <2>1, <2>2 DEF Remembered, Empty
<1> QED
  BY <1>1, <1>2, <1>3, <1>4 DEF FInv

\* The panel and the real agent together do nothing that the panel and the contract do
\* not do: whatever is proved of PanelPeers holds of the fleet.
THEOREM FleetKeepsPanel == FleetSpec => KeepsPanel
<1>1. FleetInit => Panel!Init
  BY DEF FleetInit
<1> QED
  BY <1>1, FleetInitInv, FInvStep, FleetStepMaps, PTL
  DEF FleetSpec, KeepsPanel, Panel!Spec
----------------------------------------------------------------------------
(* What is proved of the panel holds of the fleet.                         *)

\* The theorems about PanelPeers, read over the fleet.
Proved == INSTANCE PanelRevocationProofs WITH
    live   <- iface.peers,
    server <- iface.key,
    phase  <- Phases,
    call   <- Asked,
    made   <- Made,
    body   <- Bodies,
    pc     <- at

\* The three marks of an address are two by two distinct.
LEMMA MarksDiffer == Absent # NoIps
<1> SUFFICES ASSUME Absent = NoIps PROVE FALSE
  OBVIOUS
<1>1. {NoIps, Absent, BadIps} = ({} \cup {NoIps}) \cup {BadIps}
  OBVIOUS
<1>2. IsFiniteSet({} \cup {NoIps}) /\ Cardinality({} \cup {NoIps}) = 1
  BY FS_EmptySet, FS_AddElement
<1>3. Cardinality(({} \cup {NoIps}) \cup {BadIps}) \in {1, 2}
  BY <1>2, FS_AddElement
<1> QED
  BY <1>1, <1>3, ValuesAssumption

\* The constants of the fleet are as PanelPeers wants them.
LEMMA PanelConstants ==
    /\ NoKey \notin Keys
    /\ Never \notin Requests
    /\ Absent \notin Ips /\ Absent # NoIps
    /\ NoCall \notin Proved!PanelCalls
    /\ NoRow \notin [key : Keys, revoked : Requests \cup {Never}]
BY FleetAssumption, ValuesAssumption, MarksDiffer
DEF Panel!PanelCalls, Proved!PanelCalls, Panel!Rows

\* Its administrators may ask for what PanelPeers knows.
LEMMA PanelJobs == Jobs \subseteq Proved!JobType /\ NoJob \notin Proved!JobType
BY FleetAssumption DEF Panel!JobType, Proved!JobType

\* The two instances are one specification: all definitions are the same.
LEMMA OnePanel == Panel!Spec => Proved!Spec
BY DEF Panel!Spec, Panel!Init, Panel!Next, Panel!PanelStep, Panel!AgentStep,
       Panel!agentVars, Panel!stores, Panel!handlers, Panel!vars, Panel!PanelCalls,
       Panel!NoSnap, Panel!StoreSteps, Panel!Ended, Panel!Deliver, Panel!AgentSucceeds,
       Panel!Remember, Proved!Remember,
       Panel!Goto, Panel!Reply, Panel!Continue, Panel!CallAgent, Panel!FirstStep,
       Panel!Arrive, Panel!GetPeer, Panel!GetNode, Panel!AfterCall, Panel!HearSuccess,
       Panel!HearFailure, Panel!StoreFails, Panel!InsertPeer, Panel!RefreshPeer,
       Panel!CacheConfig, Panel!StampPeer, Panel!UncacheConfig, Panel!LookupConfig,
       Panel!InsertNode, Panel!RefreshNode, Panel!SaveKey, Panel!RefreshKey,
       Panel!DeleteNode, Panel!PanelCrash, Panel!Expire, Panel!Agent!NoPeers,
       Panel!Agent!Pending, Panel!Agent!ContractInit, Panel!Agent!Assigned,
       Panel!Agent!Effect, Panel!Agent!Enter, Panel!Agent!Forget, Panel!Agent!Accept,
       Panel!Agent!Mint, Panel!Agent!Apply, Panel!Agent!Succeed, Panel!Agent!BringUp,
       Panel!Agent!Refuse, Panel!Agent!Fail, Panel!Agent!Crash, Panel!Agent!Restart,
       Panel!Agent!Operate, Proved!Spec, Proved!Init, Proved!Next, Proved!PanelStep,
       Proved!AgentStep, Proved!agentVars, Proved!stores, Proved!handlers, Proved!vars,
       Proved!PanelCalls, Proved!NoSnap, Proved!StoreSteps, Proved!Ended, Proved!Deliver,
       Proved!AgentSucceeds, Proved!Goto, Proved!Reply, Proved!Continue, Proved!CallAgent,
       Proved!FirstStep, Proved!Arrive, Proved!GetPeer, Proved!GetNode, Proved!AfterCall,
       Proved!HearSuccess, Proved!HearFailure, Proved!StoreFails, Proved!InsertPeer,
       Proved!RefreshPeer, Proved!CacheConfig, Proved!StampPeer, Proved!UncacheConfig,
       Proved!LookupConfig, Proved!InsertNode, Proved!RefreshNode, Proved!SaveKey,
       Proved!RefreshKey, Proved!DeleteNode, Proved!PanelCrash, Proved!Expire,
       Proved!Agent!NoPeers, Proved!Agent!Pending, Proved!Agent!ContractInit,
       Proved!Agent!Assigned, Proved!Agent!Effect, Proved!Agent!Enter, Proved!Agent!Forget,
       Proved!Agent!Accept, Proved!Agent!Mint, Proved!Agent!Apply, Proved!Agent!Succeed,
       Proved!Agent!BringUp, Proved!Agent!Refuse, Proved!Agent!Fail, Proved!Agent!Crash,
       Proved!Agent!Restart, Proved!Agent!Operate

\* What is done to the node in the fleet, AwgNode does.
LEMMA FleetIsNode == [FleetNext]_fleetVars => [Next]_vars
BY DEF FleetNext, fleetVars, Deliver, NodeStep, Handle, PanelMoves, Next, vars

\* The node removes what it is told to in the fleet as it does alone.
LEMMA FleetRemoves == FleetSpec => DeletesTakeBack
<1>1. FleetInit => Removed
  BY DEF FleetInit, Init, ProvisionedInit, Removed, PersistSteps
<1>2. FInv /\ Removed /\ [FleetNext]_fleetVars => Removed' /\ [GoneOnceAnswered]_vars
  BY FleetIsNode, RemovedStep, AnsweredDelete DEF FInv
<1> QED
  BY <1>1, <1>2, FleetInitInv, FInvStep, PTL DEF FleetSpec, DeletesTakeBack

\* With the real agent, too: a peer shown as revoked has no access; a configuration that
\* was handed out has its row as long as it gives access; a key with access and no such
\* row was generated for a create that failed, was lost or is unfinished; 204 to a revoke
\* means all of it; and a delete the agent answers, whatever the answer, leaves its key
\* without access, if it has the token and the key no "/".
THEOREM FleetTakesBack ==
    FleetSpec => /\ []Panel!RevokedIsGone
                 /\ []Panel!HandedOutHasRow
                 /\ []Panel!OrphansComeFromFailedCreates
                 /\ Panel!RevokeMeansGone
                 /\ DeletesTakeBack
<1>1. FleetSpec => Proved!Spec
  BY FleetKeepsPanel, OnePanel DEF KeepsPanel
<1>2. Proved!Spec => []Proved!RevokedIsGone
  BY PanelConstants, PanelJobs, Proved!RevokedStaysGone
<1>3. Proved!Spec => []Proved!HandedOutHasRow
  BY PanelConstants, PanelJobs, Proved!HandedOutKeepsRow
<1>4. Proved!Spec => []Proved!OrphansComeFromFailedCreates
  BY PanelConstants, PanelJobs, Proved!OrphansAreFailedCreates
<1>5. Proved!Spec => Proved!RevokeMeansGone
  BY PanelConstants, PanelJobs, Proved!RevokedMeansGone
<1>6. []Proved!RevokedIsGone => []Panel!RevokedIsGone
  BY DEF Proved!RevokedIsGone, Panel!RevokedIsGone, Proved!RowOf, Panel!RowOf
<1>7. []Proved!HandedOutHasRow => []Panel!HandedOutHasRow
  BY DEF Proved!HandedOutHasRow, Panel!HandedOutHasRow, Proved!RowOf, Panel!RowOf
<1>8. []Proved!OrphansComeFromFailedCreates => []Panel!OrphansComeFromFailedCreates
  BY DEF Proved!OrphansComeFromFailedCreates, Panel!OrphansComeFromFailedCreates,
         Proved!RowOf, Panel!RowOf, Proved!Unsettled, Panel!Unsettled
<1>9. Proved!RevokeMeansGone => Panel!RevokeMeansGone
  BY DEF Panel!RevokeMeansGone, Panel!RevokeAnswered, Panel!Ended, Panel!vars,
         Panel!agentVars, Panel!stores, Panel!handlers, Proved!RevokeMeansGone,
         Proved!RevokeAnswered, Proved!Ended, Proved!vars, Proved!agentVars, Proved!stores,
         Proved!handlers
<1> QED
  BY <1>1, <1>2, <1>3, <1>4, <1>5, <1>6, <1>7, <1>8, <1>9, FleetRemoves

\* With the real agent, too, a peer lives as PeerLife says.
THEOREM FleetKeepsPeerLife == FleetSpec => Panel!KeepsPeerLife
<1>1. Proved!Spec => Proved!KeepsPeerLife
  BY PanelConstants, PanelJobs, Proved!PanelKeepsPeerLife
<1>2. Proved!KeepsPeerLife => Panel!KeepsPeerLife
  BY DEF Panel!KeepsPeerLife, Panel!Fresh, Panel!AccessOf, Panel!RowState, Panel!Answered,
         Panel!access, Panel!row, Panel!name, Panel!closed, Panel!handed, Panel!taken,
         Panel!kept, Panel!RowOf, Panel!Promised!lifeVars, Panel!Promised!LifeInit,
         Panel!Promised!Give, Panel!Promised!Lose, Panel!Promised!Record,
         Panel!Promised!Revoke, Panel!Promised!HandOut, Panel!Promised!TakeBack,
         Panel!Promised!Drop, Panel!Promised!Close, Panel!Promised!LifeNext,
         Panel!Promised!Life, Proved!KeepsPeerLife, Proved!Fresh, Proved!AccessOf,
         Proved!RowState, Proved!Answered, Proved!access, Proved!row, Proved!name,
         Proved!closed, Proved!handed, Proved!taken, Proved!kept, Proved!RowOf,
         Proved!Promised!lifeVars, Proved!Promised!LifeInit, Proved!Promised!Give,
         Proved!Promised!Lose, Proved!Promised!Record, Proved!Promised!Revoke,
         Proved!Promised!HandOut, Proved!Promised!TakeBack, Proved!Promised!Drop,
         Proved!Promised!Close, Proved!Promised!LifeNext, Proved!Promised!Life
<1> QED
  BY <1>1, <1>2, FleetKeepsPanel, OnePanel DEF KeepsPanel
============================================================================
