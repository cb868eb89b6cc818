------------------------- MODULE AwgNodeRefinement -------------------------
(***************************************************************************)
(* The node-agent with its container keeps the contract: AwgNode           *)
(* implements AgentContract.                                               *)
(***************************************************************************)
EXTENDS AwgNode

PhaseOf(r) ==
    CASE pc[r] \in {"unsent", "lost"} -> pc[r]
      [] pc[r] \in AppliedSteps -> "applied"
      [] pc[r] = "done" /\ reply[r].code \in {200, 201} -> "ok"
      [] pc[r] = "done" /\ reply[r].code \in {400, 401, 404} -> "refused"
      [] pc[r] = "done" /\ reply[r].code \in {500, 503} -> "failed"
      [] OTHER -> "sent"

Phases == [r \in Requests |-> PhaseOf(r)]

Made == [r \in Requests |-> reg[r].made]

Abstract == INSTANCE AgentContract WITH
    live   <- iface.peers,
    server <- iface.key,
    phase  <- Phases,
    made   <- Made

\* Seen from the panel, every handler of the agent does what the contract lets one
\* step do: success only after its one effect, 400, 401 and 404 only without any, and
\* no request changes a peer that it does not name or whose address it does not take.
KeepsContract == Abstract!Contract
============================================================================
