---------------------------- MODULE ProductDriver ----------------------------
(***************************************************************************)
(* The Product Driver (greentyper product_driver.rs): what composes the     *)
(* Runtime, Team and Tool Ledgers of one product into calls the front ends  *)
(* make.  The three Ledgers are one record, disk; the modules RuntimeKernel,*)
(* AgentTeam and ToolRuntime hold what the Kernel's parts do inside, here   *)
(* only what the driver's checks tell apart.                                *)
(*                                                                          *)
(* A function of the driver is the error it returns ("ok" for none) and,    *)
(* where it writes, the disk it leaves.  A driver that stays open across    *)
(* Provider and user interaction is the variable driver; the Ledgers' locks *)
(* allow one at a time.  The process can die between any two appends, and   *)
(* an append it dies in leaves a torn tail.                                 *)
(***************************************************************************)
EXTENDS Integers, Sequences, FiniteSets

CONSTANTS
    CallId,         \* call identifiers a Provider may choose
    Args,           \* Tool arguments, and the resources they resolve to
    MaxActive,      \* PRODUCT_MAX_ACTIVE_AGENTS
    MaxAgents,      \* bound: Agents ever admitted
    MaxTurns,       \* bound: Turns ever admitted
    MaxCalls,       \* bound: Tool calls ever requested
    MaxOperations   \* bound: Team operations ever committed

ASSUME DriverAssumption ==
    /\ MaxActive \in Nat \ {0}
    /\ {MaxAgents, MaxTurns, MaxCalls, MaxOperations} \subseteq Nat

VARIABLES
    disk,       \* what the three Ledger files hold
    driver,     \* the ProductDriver a front end holds open, if any
    ran,        \* ghost: the effects that ran, for whom, and what they had seen
    presented,  \* ghost: Team operations shown to the user
    delivered   \* ghost: Turns whose output was written out

Nobody == 0     \* the owner of a Turn of the single-Agent interface
Sidecars == {"team", "tool"}
NoDriver == [by |-> "none", at |-> "closed", goal |-> "none", session |-> Nobody,
             call |-> 0, want |-> 0, decision |-> "none", reviewed |-> {}, saw |-> {}, res |-> "ok"]
NoTurn == [phase |-> "None", origin |-> "none", retryable |-> FALSE]
EmptyDisk == [files |-> {}, torn |-> {}, agents |-> <<>>,
              op |-> [id |-> 0, kind |-> "none", acked |-> TRUE],
              turns |-> <<>>, pending |-> NoTurn, calls |-> <<>>,
              staged |-> {}, checkpoint |-> FALSE]

Closed == driver = NoDriver
At(step) == driver.at = step
Goto(step) == driver' = [driver EXCEPT !.at = step]
Done(res) == driver' = [driver EXCEPT !.at = "done", !.res = res]

CurrentTurn(d) == Len(d.turns)
Owner(d, t) == d.turns[t].owner
Status(d) == CASE d.pending.phase = "None" -> "Ready"
               [] d.pending.phase = "Admitted" -> "ResumeRequired"
               [] d.pending.phase = "Prepared" -> "ReconciliationRequired"
               [] d.pending.phase = "Blocked" -> "Blocked"

-----------------------------------------------------------------------------
(* What every call asks first.                                              *)

path_entry_exists(d, f) == f \in d.files

has_product_driver_state(d) ==
    IF Sidecars \cap d.files = {} THEN "no"
    ELSE IF Sidecars \subseteq d.files THEN "yes" ELSE "IncompleteState"

\* An inspection reads past a torn tail; only an executable mode may go on.
require_pending_context_mode_execution(d) ==
    IF d.pending.phase # "None" /\ ~d.turns[CurrentTurn(d)].executable
    THEN "UnsupportedContextMode" ELSE "ok"

\* open_with_team_and_tools_existing_strict: nothing is created or repaired.
OpenStrict(d) == IF d.torn # {} \/ ~Closed THEN "Ledger" ELSE "ok"

ExistingProduct(d, missing) ==
    IF ~path_entry_exists(d, "runtime") THEN missing
    ELSE IF has_product_driver_state(d) = "IncompleteState" THEN "IncompleteState"
    ELSE IF has_product_driver_state(d) = "no" THEN missing
    ELSE OpenStrict(d)

TeamReady(d) == IF d.op.acked THEN "ok" ELSE "TeamOperationReconciliationRequired"
ToolsReady(d) ==
    IF \E c \in DOMAIN d.calls : d.calls[c].status = "ReconciliationRequired"
    THEN "ToolReconciliationRequired" ELSE "ok"

\* Sessions are rebound for the Agents that have not ended.
Sessions(d) == {a \in DOMAIN d.agents : d.agents[a].status \in {"Active", "Dormant"}}
Active(d) == {a \in DOMAIN d.agents : d.agents[a].status = "Active"}
agent_session(d, a) == IF a \in Sessions(d) THEN "ok" ELSE "CurrentAgentUnavailable"

ActiveRoots(d) == {a \in Active(d) : d.agents[a].parent = Nobody}
active_root_agent(d) ==
    IF ActiveRoots(d) = {} THEN "CurrentAgentUnavailable"
    ELSE IF Cardinality(ActiveRoots(d)) > 1 THEN "UnexpectedRecovery" ELSE "ok"
TheRoot(d) == CHOOSE a \in ActiveRoots(d) : TRUE

provider_turn_session(d, t) ==
    IF t \notin DOMAIN d.turns THEN "UnknownTurn"
    ELSE IF Owner(d, t) \notin Sessions(d) THEN "ProviderTurnOwnerUnavailable" ELSE "ok"

-----------------------------------------------------------------------------
(* Opening a driver over existing state.                                    *)

open_existing_for_agent(d, a) ==
    IF require_pending_context_mode_execution(d) # "ok" THEN "UnsupportedContextMode"
    ELSE IF ExistingProduct(d, "TeamStateUnavailable") # "ok"
         THEN ExistingProduct(d, "TeamStateUnavailable")
    ELSE IF Status(d) # "Ready" THEN "Busy"
    ELSE IF TeamReady(d) # "ok" THEN TeamReady(d)
    ELSE IF a \notin DOMAIN d.agents THEN "UnknownAgent"
    ELSE IF a \notin Active(d) THEN "CurrentAgentUnavailable" ELSE "ok"

open_existing_for_provider_recovery(d, t) ==
    IF require_pending_context_mode_execution(d) # "ok" THEN "UnsupportedContextMode"
    ELSE IF ExistingProduct(d, "ProviderTurnStateUnavailable") # "ok"
         THEN ExistingProduct(d, "ProviderTurnStateUnavailable")
    ELSE IF Status(d) # "ResumeRequired" \/ t # CurrentTurn(d) THEN "Busy"
    ELSE IF TeamReady(d) # "ok" THEN TeamReady(d)
    ELSE provider_turn_session(d, t)

open_existing_for_tool_recovery(d, c) ==
    IF require_pending_context_mode_execution(d) # "ok" THEN "UnsupportedContextMode"
    ELSE IF ExistingProduct(d, "ToolStateUnavailable") # "ok"
         THEN ExistingProduct(d, "ToolStateUnavailable")
    ELSE IF TeamReady(d) # "ok" THEN TeamReady(d)
    ELSE IF c \notin DOMAIN d.calls \/ d.calls[c].status # "AwaitingApproval"
         THEN "ToolApprovalUnavailable"
    ELSE IF agent_session(d, d.calls[c].owner) # "ok" THEN "ToolOwnerUnavailable" ELSE "ok"

open_existing_for_delivery(d, t) ==
    IF ExistingProduct(d, "ProviderTurnStateUnavailable") # "ok"
    THEN ExistingProduct(d, "ProviderTurnStateUnavailable")
    ELSE IF Status(d) # "ReconciliationRequired" \/ t # CurrentTurn(d) THEN "Busy"
    ELSE IF TeamReady(d) # "ok" THEN TeamReady(d)
    ELSE provider_turn_session(d, t)

Hold(by, goal, step, session) ==
    driver' = [NoDriver EXCEPT !.by = by, !.goal = goal, !.at = step, !.session = session]

-----------------------------------------------------------------------------
(* open_with_executor: the one call that creates and repairs state.  The    *)
(* Ledgers are opened one after the other, the Team's before the Tools'.    *)

open_with_executor(by) ==
    /\ Closed
    /\ require_pending_context_mode_execution(disk) = "ok"
    /\ has_product_driver_state(disk) # "IncompleteState"
    /\ disk' = [disk EXCEPT !.files = @ \cup {"runtime"}, !.torn = @ \ {"runtime"}]
    /\ Hold(by, "run", "open_team", Nobody)
    /\ UNCHANGED <<ran, presented, delivered>>

OpenSidecar(f) ==
    /\ At(IF f = "team" THEN "open_team" ELSE "open_tool")
    /\ disk' = [disk EXCEPT !.files = @ \cup {f}, !.torn = @ \ {f}]
    /\ Goto(IF f = "team" THEN "open_tool" ELSE "recover")
    /\ UNCHANGED <<ran, presented, delivered>>

Committed(d, kind) == [d EXCEPT !.op = [id |-> d.op.id + 1, kind |-> kind, acked |-> FALSE]]

dispatch_team_error_Busy(d) ==
    IF ToolsReady(d) # "ok" THEN ToolsReady(d) ELSE TeamReady(d)
\* dispatch_team: only between Turns, effects and unacknowledged operations.
dispatch_team_error(d) ==
    IF ToolsReady(d) # "ok" THEN ToolsReady(d)
    ELSE IF Status(d) # "Ready" THEN "Busy" ELSE TeamReady(d)

admit_root ==
    IF dispatch_team_error(disk) # "ok"
    THEN Done(dispatch_team_error(disk)) /\ UNCHANGED disk
    ELSE /\ disk' = Committed([disk EXCEPT !.agents =
                        <<[status |-> "Active", parent |-> Nobody, preset |-> "none"]>>],
                        "RootAdmission")
         /\ Goto("present")

from_recovery ==
    /\ At("recover")
    /\ IF ~disk.op.acked /\ disk.op.kind # "RootAdmission"
       THEN Done("TeamOperationReconciliationRequired") /\ UNCHANGED disk
       ELSE IF ~disk.op.acked THEN Goto("present") /\ UNCHANGED disk
       ELSE IF disk.agents = <<>> THEN admit_root
       ELSE /\ IF active_root_agent(disk) # "ok" THEN Done(active_root_agent(disk))
               ELSE driver' = [driver EXCEPT !.at = "ready", !.session = TheRoot(disk)]
            /\ UNCHANGED disk
    /\ UNCHANGED <<ran, presented, delivered>>

\* interaction.present_team_operation, which may fail.
Present ==
    /\ At("present")
    /\ \/ Goto("acknowledge") /\ presented' = presented \cup {disk.op.id}
       \/ Done("Interaction") /\ UNCHANGED presented
    /\ UNCHANGED <<disk, ran, delivered>>

acknowledge_team_error(d) ==
    IF ToolsReady(d) # "ok" THEN ToolsReady(d)
    ELSE IF Status(d) # "Ready" THEN "Busy" ELSE "ok"

AcknowledgeRoot ==
    /\ At("acknowledge")
    /\ IF acknowledge_team_error(disk) # "ok"
       THEN Done(acknowledge_team_error(disk)) /\ UNCHANGED disk
       ELSE Goto("recover") /\ disk' = [disk EXCEPT !.op.acked = TRUE]
    /\ UNCHANGED <<ran, presented, delivered>>

-----------------------------------------------------------------------------
(* A Turn under an open driver.                                             *)

\* execute_with_observability, execute_with_provider_fallbacks: admission.
Admissible(d, session) ==
    IF session = Nobody THEN IF Status(d) = "Ready" THEN "ok" ELSE "Busy"
    ELSE IF ToolsReady(d) # "ok" THEN ToolsReady(d)
    ELSE IF TeamReady(d) # "ok" THEN TeamReady(d)
    ELSE IF session \notin Active(d) THEN "AgentNotActive"
    ELSE IF Status(d) # "Ready" THEN "Busy" ELSE "ok"

\* A staged selection is consumed by the Turn of its Agent and refuses the
\* Turns of every other.
Execute ==
    /\ At("ready")
    /\ CurrentTurn(disk) < MaxTurns
    /\ LET error == Admissible(disk, driver.session)
       IN  IF error # "ok" THEN Done(error) /\ UNCHANGED disk
           ELSE IF disk.staged \subseteq {driver.session}
           THEN /\ disk' = [disk EXCEPT
                    !.turns = Append(@, [owner |-> driver.session, ending |-> "none",
                                         executable |-> TRUE]),
                    !.pending = [NoTurn EXCEPT !.phase = "Admitted"],
                    !.staged = {}]
                /\ Goto("asking")
           ELSE Done("InvalidModelSelection") /\ UNCHANGED disk
    /\ UNCHANGED <<ran, presented, delivered>>

Block(d, origin, retryable) ==
    [d EXCEPT !.pending = [phase |-> "Blocked", origin |-> origin, retryable |-> retryable]]
Prepare(d) == [d EXCEPT !.pending.phase = "Prepared"]

\* drive_provider_turn without a Tool call.
ProviderAnswers ==
    /\ At("asking") \/ At("continuing")
    /\ \/ disk' = Prepare(disk) /\ Done("Prepared")
       \/ disk' = Block(disk, "Provider", At("asking")) /\ Done("Provider")
       \/ disk' = Block(disk, "Provider", FALSE) /\ Done("InvalidProviderOutput")
       \/ UNCHANGED disk /\ Done("Provider")      \* refused before the request is sent
    /\ UNCHANGED <<ran, presented, delivered>>

Known(d, t, i) == {c \in DOMAIN d.calls : d.calls[c].turn = t /\ d.calls[c].ident = i}
Awaiting(d) == {c \in DOMAIN d.calls : d.calls[c].status = "AwaitingApproval"}
FirstAwaiting(d) == CHOOSE c \in Awaiting(d) : \A e \in Awaiting(d) : c <= e

\* drive_provider_turn with a Tool call: arguments, resources or an intent the
\* Kernel refuses end the Turn; a known identity must mean the same.
ProviderCallsTool ==
    /\ At("asking")
    /\ \/ driver.session # Nobody /\ disk' = Block(disk, "Other", FALSE) /\ Done("Tool")
       \/ \E i \in CallId, a \in Args :
           LET t == CurrentTurn(disk)
               known == Known(disk, t, i)
           IN  IF driver.session = Nobody
               THEN disk' = Block(disk, "Provider", FALSE) /\ Done("InvalidProviderOutput")
               ELSE IF ToolsReady(disk) # "ok" THEN Done(ToolsReady(disk)) /\ UNCHANGED disk
               ELSE IF known = {}
               THEN /\ Len(disk.calls) < MaxCalls
                    /\ disk' = [disk EXCEPT !.calls = Append(@,
                           [owner |-> driver.session, turn |-> t, ident |-> i, args |-> a,
                            status |-> "AwaitingApproval"])]
                    /\ driver' = [driver EXCEPT !.at = "approval", !.call = Len(disk.calls) + 1]
               ELSE \E c \in known :
                       IF disk.calls[c].args # a \/ disk.calls[c].owner # driver.session
                       THEN Done("Tool") /\ UNCHANGED disk
                       ELSE IF disk.calls[c].status = "AwaitingApproval"
                       THEN driver' = [driver EXCEPT !.at = "approval", !.call = c] /\ UNCHANGED disk
                       ELSE Done("ProviderToolCallTerminated") /\ disk' = Block(disk, "Other", FALSE)
    /\ UNCHANGED <<ran, presented, delivered>>

\* resume_provider_turn asks the Provider again for the pending Turn.
resume_error(d, session) ==
    IF ToolsReady(d) # "ok" THEN ToolsReady(d)
    ELSE IF TeamReady(d) # "ok" THEN TeamReady(d)
    ELSE IF session \notin Active(d) THEN "AgentNotActive"
    ELSE IF Status(d) # "ResumeRequired" THEN "Busy"
    ELSE IF Owner(d, CurrentTurn(d)) # session THEN "ProviderTurnOwner" ELSE "ok"

-----------------------------------------------------------------------------
(* Deciding and running a Tool call.                                        *)

Resolve(decision) ==
    LET c == driver.call
        error == IF ToolsReady(disk) # "ok" THEN ToolsReady(disk)
                 ELSE IF TeamReady(disk) # "ok" THEN TeamReady(disk)
                 ELSE IF driver.session \notin Active(disk) THEN "AgentNotActive" ELSE "ok"
    IN  IF error # "ok" THEN Done(error) /\ UNCHANGED disk
        ELSE IF decision = "Deny"
        THEN /\ disk' = Block([disk EXCEPT !.calls[c].status = "Denied"], "Other", FALSE)
             /\ Done("Denied")
        ELSE disk' = [disk EXCEPT !.calls[c].status = "ReconciliationRequired"] /\ Goto("executing")

\* finish: an error of the interaction leaves the call awaiting approval.
finish ==
    /\ At("approval") /\ driver.goal \in {"run", "resume"}
    /\ \/ Done("Interaction") /\ UNCHANGED disk
       \/ driver.by = "cli" /\ \E decision \in {"Approve", "Deny"} : Resolve(decision)
    /\ UNCHANGED <<ran, presented, delivered>>

Binding(d, c) == [call |-> c, args |-> d.calls[c].args]

\* The executor runs and reports; a report it cannot trust stays ambiguous.
RunEffect ==
    /\ At("executing")
    /\ ran' = ran \cup {[binding |-> Binding(disk, driver.call), by |-> driver.by,
                         saw |-> driver.saw]}
    /\ LET c == driver.call
       IN  \/ disk' = [disk EXCEPT !.calls[c].status = "Succeeded"] /\ Goto("continuing")
           \/ /\ disk' = Block([disk EXCEPT !.calls[c].status = "Failed"], "Other", FALSE)
              /\ Done("ProviderToolCallTerminated")
           \/ UNCHANGED disk /\ Done("ToolReconciliationRequired")
    /\ UNCHANGED <<presented, delivered>>

\* recover_pending_tool_approval: the first call that awaits approval must be
\* the expected one, and the Provider, asked again, must ask for it again.
recover_pending_error(d, c, session) ==
    IF Awaiting(d) = {} THEN "ToolApprovalUnavailable"
    ELSE IF FirstAwaiting(d) # c THEN "ToolApprovalMismatch"
    ELSE IF d.calls[c].owner # session THEN "ToolOwnerUnavailable"
    ELSE resume_error(d, session)

\* acknowledge: by the owner of the Turn, once.
acknowledge_error(d, t, session) ==
    IF t \in DOMAIN d.turns /\ d.turns[t].ending = "completed" THEN "AlreadyAcknowledged"
    ELSE IF Status(d) # "ReconciliationRequired" \/ t # CurrentTurn(d) THEN "UnknownDelivery"
    ELSE IF session # Owner(d, t) THEN "ProviderTurnOwnerUnavailable" ELSE "ok"
Acknowledged(d) ==
    [d EXCEPT !.turns[CurrentTurn(d)].ending = "completed", !.pending = NoTurn]

-----------------------------------------------------------------------------
(* Calls that open, write once and close.                                   *)

cancel_error(d, t, session) ==
    IF t \notin DOMAIN d.turns THEN "UnknownTurn"
    ELSE IF Owner(d, t) # session THEN "TurnCancellationNotAllowed"
    ELSE IF d.turns[t].ending = "cancelled" THEN "AlreadyCancelled"
    ELSE IF t # CurrentTurn(d) \/ Status(d) # "Blocked" \/ d.pending.origin # "Provider"
         THEN "TurnCancellationNotAllowed" ELSE "ok"
Cancelled(d) == [d EXCEPT !.turns[CurrentTurn(d)].ending = "cancelled", !.pending = NoTurn]

cancel_product_provider_turn(d, t) ==
    IF ExistingProduct(d, "ProviderTurnStateUnavailable") # "ok"
    THEN ExistingProduct(d, "ProviderTurnStateUnavailable")
    ELSE IF provider_turn_session(d, t) # "ok" THEN provider_turn_session(d, t)
    ELSE cancel_error(d, t, Owner(d, t))

retry_error(d, t, session) ==
    IF t \notin DOMAIN d.turns THEN "UnknownTurn"
    ELSE IF Owner(d, t) # session \/ d.turns[t].ending # "none" THEN "TurnRetryNotAllowed"
    ELSE IF Status(d) # "Blocked" \/ d.pending.origin # "Provider" \/ ~d.pending.retryable
         THEN "TurnRetryNotAllowed" ELSE "ok"
Rearmed(d) == [d EXCEPT !.pending = [NoTurn EXCEPT !.phase = "Admitted"]]

request_product_provider_turn_recovery(d, t) ==
    IF require_pending_context_mode_execution(d) # "ok" THEN "UnsupportedContextMode"
    ELSE IF ExistingProduct(d, "ProviderTurnStateUnavailable") # "ok"
         THEN ExistingProduct(d, "ProviderTurnStateUnavailable")
    ELSE IF provider_turn_session(d, t) # "ok" THEN provider_turn_session(d, t)
    ELSE retry_error(d, t, Owner(d, t))

\* Only for the Agent the caller names.
request_product_agent_provider_turn_recovery(d, a, t) ==
    IF require_pending_context_mode_execution(d) # "ok" THEN "UnsupportedContextMode"
    ELSE IF ExistingProduct(d, "ProviderTurnStateUnavailable") # "ok"
         THEN ExistingProduct(d, "ProviderTurnStateUnavailable")
    ELSE IF t \notin DOMAIN d.turns THEN "UnknownTurn"
    ELSE IF Owner(d, t) = Nobody THEN "ProviderTurnOwnerUnavailable"
    ELSE IF Owner(d, t) # a THEN "TurnRetryNotAllowed"
    ELSE IF provider_turn_session(d, t) # "ok" THEN provider_turn_session(d, t)
    ELSE retry_error(d, t, a)

\* The lenient open, over complete state, for the Active root.
stage_product_model_selection(d) ==
    IF ExistingProduct([d EXCEPT !.torn = {}], "CurrentAgentUnavailable") # "ok"
    THEN ExistingProduct([d EXCEPT !.torn = {}], "CurrentAgentUnavailable")
    ELSE IF active_root_agent(d) # "ok" THEN "CurrentAgentUnavailable"
    ELSE IF Admissible(d, TheRoot(d)) # "ok" THEN Admissible(d, TheRoot(d))
    ELSE IF d.staged \subseteq {TheRoot(d)} THEN "ok" ELSE "InvalidModelSelection"
Staged(d) == [d EXCEPT !.staged = {TheRoot(d)}, !.torn = {}]

inspect_product_team(d) ==
    IF has_product_driver_state(d) # "yes" THEN has_product_driver_state(d)
    ELSE IF ~path_entry_exists(d, "runtime") THEN "IncompleteState" ELSE "ok"
inspect_product_tools(d) == inspect_product_team(d)

open_product_context_runtime(d) ==
    IF has_product_driver_state(d) = "IncompleteState" THEN "IncompleteState"
    ELSE IF ~path_entry_exists(d, "runtime") THEN "IncompleteState" ELSE OpenStrict(d)

\* require_context_safe_barrier.
SafeBarrier(d) ==
    IF Status(d) # "Ready" THEN "Busy"
    ELSE IF ToolsReady(d) # "ok" THEN ToolsReady(d)
    ELSE IF has_product_driver_state(d) = "yes" /\ Awaiting(d) # {}
         THEN "ContextCheckpointNotAtSafeBarrier"
    ELSE TeamReady(d)

\* The original, Active owner records what was observed of the effect.
reconcile_product_tool(d, c) ==
    IF ExistingProduct(d, "ToolStateUnavailable") # "ok"
    THEN ExistingProduct(d, "ToolStateUnavailable")
    ELSE IF c \notin DOMAIN d.calls THEN "UnknownToolCall"
    ELSE IF d.calls[c].owner \notin Sessions(d) THEN "ToolOwnerUnavailable"
    ELSE IF d.calls[c].owner \notin Active(d) THEN "AgentNotActive"
    ELSE IF d.calls[c].status \in {"AwaitingApproval", "Denied"} THEN "InvalidTransition" ELSE "ok"
Reconciled(d, c, status) ==
    IF d.calls[c].status = "ReconciliationRequired"
    THEN [d EXCEPT !.calls[c].status = status] ELSE d

-----------------------------------------------------------------------------
(* Team commands of the product.                                            *)

open_product_team_control(d) == ExistingProduct(d, "TeamStateUnavailable")

\* agent = Nobody asks for the Active root.
dispatch_product_agent_command(d, agent) ==
    IF open_product_team_control(d) # "ok" THEN open_product_team_control(d)
    ELSE IF agent # Nobody /\ agent \notin DOMAIN d.agents THEN "UnknownAgent"
    ELSE IF agent = Nobody /\ active_root_agent(d) # "ok" THEN active_root_agent(d)
    ELSE IF agent # Nobody /\ agent_session(d, agent) # "ok" THEN "CurrentAgentUnavailable"
    ELSE dispatch_team_error(d)
Target(d, agent) == IF agent = Nobody THEN TheRoot(d) ELSE agent

\* Of the Team's own rules, the one every command shares: only Cancel is for
\* an Agent that is not Active.
team_policy(d, agent, command) ==
    IF command = "cancel" \/ Target(d, agent) \in Active(d) THEN "ok" ELSE "Team"

NewStatus(d) == IF Cardinality(Active(d)) < MaxActive THEN "Active" ELSE "Dormant"
Promoted(d) ==
    LET waiting == {a \in DOMAIN d.agents : d.agents[a].status = "Dormant"}
    IN  IF waiting = {} \/ Cardinality(Active(d)) >= MaxActive THEN d
        ELSE [d EXCEPT !.agents[CHOOSE a \in waiting : \A b \in waiting : a <= b].status = "Active"]

delegate_product_agent(d, parent, preset) ==
    Committed([d EXCEPT !.agents = Append(@, [status |-> NewStatus(d),
                 parent |-> Target(d, parent), preset |-> preset])], "Delegation")
message_from_product_agent(d, agent) == Committed(d, "Message")
Terminal(d, agent, status) ==
    Committed(Promoted([d EXCEPT !.agents[Target(d, agent)].status = status]), "StateChange")
complete_product_agent(d, agent) == Terminal(d, agent, "Completed")
fail_product_agent(d, agent) == Terminal(d, agent, "Failed")
cancel_product_agent(d, agent) == Terminal(d, agent, "Cancelled")

\* Through the parent's Session, for a child that ended without completing.
requeue_product_agent_error(d, a) ==
    IF open_product_team_control(d) # "ok" THEN open_product_team_control(d)
    ELSE IF a \notin DOMAIN d.agents THEN "UnknownAgent"
    ELSE IF d.agents[a].parent \notin Sessions(d) THEN "CurrentAgentUnavailable"
    ELSE IF dispatch_team_error(d) # "ok" THEN dispatch_team_error(d)
    ELSE IF d.agents[a].status \notin {"Failed", "Cancelled"} THEN "Team" ELSE "ok"
requeue_product_agent(d, a) ==
    Committed(Promoted([d EXCEPT !.agents[a].status = "Dormant"]), "StateChange")

acknowledge_product_team_operation(d, id) ==
    IF open_product_team_control(d) # "ok" THEN open_product_team_control(d)
    ELSE IF id \notin 1..d.op.id THEN "UnknownTeamOperation"
    ELSE IF acknowledge_team_error(d) # "ok" THEN acknowledge_team_error(d)
    ELSE IF id = d.op.id /\ ~d.op.acked THEN "ok" ELSE "AlreadyAcknowledged"

-----------------------------------------------------------------------------
DriverStep ==
    \/ \E f \in Sidecars : OpenSidecar(f)
    \/ from_recovery
    \/ Present
    \/ AcknowledgeRoot
    \/ Execute
    \/ ProviderAnswers
    \/ ProviderCallsTool
    \/ finish
    \/ RunEffect
==============================================================================
