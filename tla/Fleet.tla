------------------------------- MODULE Fleet -------------------------------
(***************************************************************************)
(* The panel (PanelPeers) with the agent and the container it really has   *)
(* (AwgNode) in the place of the contract: each of the agent's execs can   *)
(* come between two awaits of the panel.  They share the HTTP calls, the   *)
(* panel's `wire' and the agent's `call', and the answers to them.         *)
(***************************************************************************)
EXTENDS AwgNodeRefinement

CONSTANTS Jobs, NoJob, NoRow, Never   \* as in PanelPeers

VARIABLES nodeRow, nodeKey, peers, cache, at, job, snap, wire, answer, given

panel == <<nodeRow, nodeKey, peers, cache, at, job, snap, wire, answer>>
fleetVars == <<node, agent, panel, given>>

\* A call as the panel makes it; whether its token is the agent's is for the agent to see.
Bare(c) ==
    IF c = NoCall THEN NoCall
    ELSE CASE c.op = "create" -> [op |-> "create", ips |-> c.ips]
           [] c.op = "delete" -> [op |-> "delete", key |-> c.key]
           [] OTHER -> [op |-> c.op]

Asked == [r \in Requests |-> Bare(call[r])]

Bodies == [r \in Requests |-> reply[r].key]

Panel == INSTANCE PanelLife WITH
    live   <- iface.peers,
    server <- iface.key,
    phase  <- Phases,
    call   <- Asked,
    made   <- Made,
    body   <- Bodies,
    pc     <- at

\* An operator has provisioned the node, and the panel knows its key; see Panel!Init.
ProvisionedInit ==
    /\ container = "running" /\ epoch = 0 /\ handed = NoFile
    /\ \E k \in Keys :
          /\ minted = {k}
          /\ disk = RenderServerConfig(k, "node", Empty)
    /\ iface = UpWith(disk)
    /\ loop = Idle
    /\ pc = [r \in Requests |-> "unsent"]
    /\ call = [r \in Requests |-> NoCall]
    /\ reg = [r \in Requests |-> Blank]
    /\ reply = [r \in Requests |-> NoAnswer]

\* What PanelPeers assumes of the constants.
ASSUME FleetAssumption ==
    /\ Jobs \subseteq Panel!JobType /\ NoJob \notin Panel!JobType
    /\ NoCall \notin Panel!PanelCalls
    /\ Never \notin Requests
    /\ NoRow \notin Panel!Rows

FleetInit == (Init \/ ProvisionedInit) /\ Panel!Init

\* A call arrives at the agent, however late.
Deliver(r) ==
    /\ wire[r] # NoCall
    /\ Send(r) /\ Bare(call'[r]) = wire[r]
    /\ Panel!Remember
    /\ UNCHANGED panel

NodeStep ==
    /\ \/ \E r \in Requests : Serve(r)
       \/ AgentCrash \/ ContainerStop \/ ContainerStart \/ Provision \/ ManualUp
    /\ Panel!Remember
    /\ UNCHANGED panel

Handle(r) == UNCHANGED <<node, agent>> /\ Panel!PanelStep(r)

PanelMoves ==
    /\ UNCHANGED <<node, agent>>
    /\ (\E r \in Requests : Panel!Arrive(r)) \/ Panel!PanelCrash \/ Panel!Expire

FleetNext ==
    \/ \E r \in Requests : Deliver(r) \/ Handle(r)
    \/ NodeStep \/ PanelMoves

FleetSpec == FleetInit /\ [][FleetNext]_fleetVars

\* The panel's event loop runs on, and its HTTP client times out.
FairFleet == FleetSpec /\ \A r \in Requests : WF_fleetVars(Handle(r))
----------------------------------------------------------------------------
\* What PanelPeers assumes of an agent is what this agent does: the two together make
\* only steps that PanelPeers makes with the contract.
KeepsPanel == Panel!Spec

EveryAdminRequestEnds == Panel!EveryAdminRequestEnds
============================================================================
