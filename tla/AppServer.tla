------------------------------ MODULE AppServer ------------------------------
(***************************************************************************)
(* The stdio App Server (greentyper app_server.rs): one connection that     *)
(* answers requests one at a time over the product's Ledgers and the Config *)
(* files.  A request that asks a Provider holds a Product Driver until the  *)
(* answer is in; every other request is one step.  A reply is the operation *)
(* it answers and its status or error category.                             *)
(*                                                                          *)
(* A Config is abstracted to what the requests ask of it: the default Model *)
(* Preset, whether the Presets still resolve, and whether their Context     *)
(* mode can be executed.                                                    *)
(***************************************************************************)
EXTENDS ProductDriver

CONSTANTS
    ConfigValue,    \* Configs: [default, resolves, executable]
    MaxRevision,    \* bound: commits to the Config files
    Observed        \* the operations whose answers are kept

ASSUME ServerAssumption == MaxRevision \in Nat

VARIABLES
    config,     \* the Config files: the revision and its value
    server,     \* the connection: the loaded Config, the tool review
    reply,      \* the last response
    shown       \* ghost: the reviews shown on this connection, not yet used

product == <<disk, driver, ran, presented, delivered>>
Resting == UNCHANGED product
ghosts == <<ran, presented, delivered>>

NewConnection == [config |-> config, review |-> {}]
NoReply == [op |-> "none", status |-> "none", call |-> 0]
AnswerCall(op, status, c) ==
    reply' = IF op \in Observed THEN [op |-> op, status |-> status, call |-> c] ELSE NoReply
Answer(op, status) == AnswerCall(op, status, 0)

\* handle starts a request only when the one before it was answered.
Ready == driver.by # "server"
Untouched == UNCHANGED <<config, server, shown>>

-----------------------------------------------------------------------------
(* Error categories.                                                        *)

runtime_cancel_error(e) ==
    CASE e = "UnknownTurn" -> "unknown_turn"
      [] e = "TurnCancellationNotAllowed" -> "turn_not_cancellable"
      [] OTHER -> "runtime_unavailable"
runtime_retry_error(e) ==
    CASE e = "UnknownTurn" -> "unknown_turn"
      [] e = "TurnRetryNotAllowed" -> "turn_not_retryable"
      [] OTHER -> "runtime_unavailable"
runtime_resume_error(e) ==
    CASE e \in {"Busy", "UnknownTurn"} -> "turn_not_resumable"
      [] e \in {"Provider", "InvalidProviderOutput"} -> "provider_unavailable"
      [] OTHER -> "runtime_unavailable"
team_control_error(e) ==
    CASE e = "UnknownAgent" -> "unknown_agent"
      [] e = "UnknownTeamOperation" -> "unknown_team_operation"
      [] e = "TeamOperationReconciliationRequired" -> "team_acknowledgement_required"
      [] e = "Busy" -> "runtime_busy"
      [] e = "Team" -> "invalid_value"
      [] OTHER -> "team_unavailable"
tool_control_error(e) ==
    CASE e = "UnknownToolCall" -> "unknown_tool_call"
      [] e = "ToolOwnerUnavailable" -> "tool_owner_unavailable"
      [] e = "InvalidTransition" -> "tool_not_reconcilable"
      [] e = "ToolApprovalUnavailable" -> "tool_not_awaiting_approval"
      [] e = "ToolApprovalMismatch" -> "tool_approval_mismatch"
      [] e = "Provider" -> "provider_unavailable"
      [] OTHER -> "tool_unavailable"
context_reduce_error(e) ==
    IF e \in {"Busy", "ContextCheckpointNotAtSafeBarrier", "ToolReconciliationRequired",
              "TeamOperationReconciliationRequired"}
    THEN "context_busy" ELSE "context_unavailable"

-----------------------------------------------------------------------------
(* Readiness, asked before state is changed.                                *)

product_control_ready(d) ==
    /\ path_entry_exists(d, "runtime") /\ "runtime" \notin d.torn
    /\ has_product_driver_state(d) = "yes"
    /\ inspect_product_team(d) = "ok" /\ "team" \notin d.torn /\ Active(d) # {}
    /\ inspect_product_tools(d) = "ok" /\ "tool" \notin d.torn

runtime_control_target(d) ==
    IF ~path_entry_exists(d, "runtime") \/ "runtime" \in d.torn THEN "none"
    ELSE IF has_product_driver_state(d) = "no" THEN "Runtime"
    ELSE IF product_control_ready(d) THEN "Product" ELSE "none"

\* open_existing_strict of the Runtime Ledger alone.
OpenRuntime(d) == IF "runtime" \in d.torn \/ ~Closed THEN "Ledger" ELSE "ok"

-----------------------------------------------------------------------------
(* runtime.*                                                                *)

RuntimeStatus ==
    /\ Ready
    /\ Answer("runtime.status", Status(disk))
    /\ Resting /\ Untouched

RuntimeCancel(t) ==
    LET target == runtime_control_target(disk)
        error == IF target = "Product" THEN cancel_product_provider_turn(disk, t)
                 ELSE IF OpenRuntime(disk) # "ok" THEN OpenRuntime(disk)
                 ELSE cancel_error(disk, t, Nobody)
    IN  /\ Ready
        /\ disk' = IF target # "none" /\ error = "ok" THEN Cancelled(disk) ELSE disk
        /\ Answer("runtime.cancel",
                  IF target = "none" THEN "runtime_unavailable"
                  ELSE IF error = "ok" THEN "cancelled"
                  ELSE IF error = "AlreadyCancelled" THEN "already_cancelled"
                  ELSE runtime_cancel_error(error))
        /\ UNCHANGED <<driver, ghosts>> /\ Untouched

RuntimeRetry(t) ==
    LET target == runtime_control_target(disk)
        error == IF require_pending_context_mode_execution(disk) # "ok"
                 THEN "UnsupportedContextMode"
                 ELSE IF target = "Product" THEN request_product_provider_turn_recovery(disk, t)
                 ELSE IF target = "none" \/ OpenRuntime(disk) # "ok" THEN "Ledger"
                 ELSE retry_error(disk, t, Nobody)
    IN  /\ Ready
        /\ disk' = IF error = "ok" THEN Rearmed(disk) ELSE disk
        /\ Answer("runtime.retry", IF error = "ok" THEN "resume_required"
                                   ELSE runtime_retry_error(error))
        /\ UNCHANGED <<driver, ghosts>> /\ Untouched

ResumeError(t) ==
    LET target == runtime_control_target(disk)
    IN  IF require_pending_context_mode_execution(disk) # "ok" THEN "UnsupportedContextMode"
        ELSE IF target = "none" THEN "Ledger"
        ELSE IF Status(disk) # "ResumeRequired" \/ t # CurrentTurn(disk) THEN "Busy"
        ELSE IF target = "Product" THEN open_existing_for_provider_recovery(disk, t)
        ELSE OpenRuntime(disk)

\* The frozen Provider is rebuilt from its Epoch and the vault, then asked.
RuntimeResume(t) ==
    LET error == ResumeError(t)
        session == IF runtime_control_target(disk) = "Product" THEN Owner(disk, t) ELSE Nobody
    IN  /\ Ready
        /\ IF error # "ok"
           THEN Answer("runtime.resume", runtime_resume_error(error)) /\ UNCHANGED driver
           ELSE \/ Answer("runtime.resume", "provider_unavailable") /\ UNCHANGED driver
                \/ IF session # Nobody /\ resume_error(disk, session) # "ok"
                   THEN /\ Answer("runtime.resume", runtime_resume_error(resume_error(disk, session)))
                        /\ UNCHANGED driver
                   ELSE /\ Hold("server", "resume", "asking", session)
                        /\ UNCHANGED reply
        /\ UNCHANGED <<disk, ghosts>> /\ Untouched

\* runtime.delivery shows the output again; runtime.acknowledge is the client's
\* word that it has it.
RuntimeDelivery(t) ==
    /\ Ready
    /\ IF "runtime" \in disk.torn THEN Answer("runtime.delivery", "runtime_unavailable") /\ delivered' = delivered
       ELSE IF Status(disk) = "ReconciliationRequired" /\ t = CurrentTurn(disk)
       THEN Answer("runtime.delivery", "prepared") /\ delivered' = delivered \cup {t}
       ELSE Answer("runtime.delivery", "unknown_delivery") /\ delivered' = delivered
    /\ UNCHANGED <<disk, driver, ran, presented>> /\ Untouched

AcknowledgeError(t) ==
    LET pending == Status(disk) = "ReconciliationRequired" /\ t = CurrentTurn(disk)
    IN  IF "runtime" \in disk.torn THEN "Ledger"
        ELSE IF ~pending /\ Status(disk) # "Ready" THEN "UnknownDelivery"
        ELSE IF has_product_driver_state(disk) = "IncompleteState" THEN "IncompleteState"
        ELSE IF pending /\ has_product_driver_state(disk) = "yes"
        THEN IF open_existing_for_delivery(disk, t) # "ok" THEN open_existing_for_delivery(disk, t)
             ELSE acknowledge_error(disk, t, Owner(disk, t))
        ELSE IF OpenRuntime(disk) # "ok" \/ ~path_entry_exists(disk, "runtime") THEN "Ledger"
        ELSE acknowledge_error(disk, t, IF pending THEN Owner(disk, t) ELSE Nobody)

RuntimeAcknowledge(t) ==
    LET error == AcknowledgeError(t)
    IN  /\ Ready
        /\ disk' = IF error = "ok" THEN Acknowledged(disk) ELSE disk
        /\ delivered' = IF error = "ok" THEN delivered \cup {t} ELSE delivered
        /\ Answer("runtime.acknowledge",
                  CASE error = "ok" -> "acknowledged"
                    [] error = "AlreadyAcknowledged" -> "already_acknowledged"
                    [] error = "UnknownDelivery" -> "unknown_delivery"
                    [] OTHER -> "runtime_unavailable")
        /\ UNCHANGED <<driver, ran, presented>> /\ Untouched

-----------------------------------------------------------------------------
(* context.reduce: every candidate's Context mode is checked, and a staged  *)
(* selection must still freeze to what was staged, before anything opens.   *)

preflight_product_context_reduction(value, d) ==
    IF ~value.resolves /\ (value.default # "none" \/ d.staged # {}) THEN "Config"
    ELSE IF ~value.executable THEN "UnsupportedContextMode" ELSE "ok"

ContextReduce ==
    LET preflight == preflight_product_context_reduction(server.config.value, disk)
        opened == open_product_context_runtime(disk)
        error == IF preflight # "ok" THEN preflight
                 ELSE IF opened # "ok" THEN opened ELSE SafeBarrier(disk)
    IN  /\ Ready
        /\ disk' = IF error = "ok" THEN [disk EXCEPT !.checkpoint = TRUE] ELSE disk
        /\ Answer("context.reduce", IF error = "ok" THEN "published"
                                    ELSE context_reduce_error(error))
        /\ UNCHANGED <<driver, ghosts>> /\ Untouched

-----------------------------------------------------------------------------
(* agent.*                                                                  *)

AgentList ==
    /\ Ready
    /\ Answer("agent.list", CASE inspect_product_team(disk) = "ok" -> "available"
                              [] inspect_product_team(disk) = "no" -> "unavailable"
                              [] OTHER -> "team_unavailable")
    /\ Resting /\ Untouched

\* What the five commands under an Agent's Session leave.
TeamCommand(command, agent) ==
    CASE command = "delegate" ->
            delegate_product_agent(disk, agent, server.config.value.default)
      [] command = "message" -> message_from_product_agent(disk, agent)
      [] command = "complete" -> complete_product_agent(disk, agent)
      [] command = "fail" -> fail_product_agent(disk, agent)
      [] command = "cancel" -> cancel_product_agent(disk, agent)
TeamCommands == {"delegate", "message", "complete", "fail", "cancel"}

AgentCommand(command, agent) ==
    LET dispatch == dispatch_product_agent_command(disk, agent)
        error == IF dispatch # "ok" THEN dispatch ELSE team_policy(disk, agent, command)
    IN  /\ Ready
        /\ disk.op.id < MaxOperations
        /\ command = "delegate" => Len(disk.agents) < MaxAgents
        /\ IF error = "ok"
           THEN disk' = TeamCommand(command, agent) /\ Answer("agent", "committed")
           ELSE UNCHANGED disk /\ Answer("agent", team_control_error(error))
        /\ UNCHANGED <<driver, ghosts>> /\ Untouched

AgentRequeue(a) ==
    LET error == requeue_product_agent_error(disk, a)
    IN  /\ Ready
        /\ disk.op.id < MaxOperations
        /\ disk' = IF error = "ok" THEN requeue_product_agent(disk, a) ELSE disk
        /\ Answer("agent", IF error = "ok" THEN "committed" ELSE team_control_error(error))
        /\ UNCHANGED <<driver, ghosts>> /\ Untouched

AgentAcknowledge(id) ==
    LET error == acknowledge_product_team_operation(disk, id)
    IN  /\ Ready
        /\ disk' = IF error = "ok" THEN [disk EXCEPT !.op.acked = TRUE] ELSE disk
        /\ presented' = IF error = "ok" THEN presented \cup {id} ELSE presented
        /\ Answer("agent.acknowledge",
                  CASE error = "ok" -> "acknowledged"
                    [] error = "AlreadyAcknowledged" -> "already_acknowledged"
                    [] OTHER -> team_control_error(error))
        /\ UNCHANGED <<driver, ran, delivered>> /\ Untouched

AgentRetry(a, t) ==
    LET error == request_product_agent_provider_turn_recovery(disk, a, t)
    IN  /\ Ready
        /\ disk' = IF error = "ok" THEN Rearmed(disk) ELSE disk
        /\ Answer("agent.retry", IF error = "ok" THEN "resume_required"
                                 ELSE runtime_retry_error(error))
        /\ UNCHANGED <<driver, ghosts>> /\ Untouched

\* The Agent's own Preset, resolved by the Config as it is now; every
\* candidate is checked before a Provider of the chain is built.
build_agent_provider_plan(value) ==
    IF ~value.resolves THEN {"Config"}
    ELSE IF ~value.executable THEN {"UnsupportedContextMode"} ELSE {"Provider", "ok"}

AgentTurn(a) ==
    LET error == open_existing_for_agent(disk, a)
    IN  /\ Ready
        /\ \/ Answer("agent.turn", "tool_execution_unavailable") /\ UNCHANGED driver
           \/ error # "ok" /\ Answer("agent.turn", team_control_error(error)) /\ UNCHANGED driver
           \/ /\ error = "ok"
              /\ IF disk.agents[a].preset = "none"
                 THEN Answer("agent.turn", "agent_preset_unavailable") /\ UNCHANGED driver
                 ELSE \E plan \in build_agent_provider_plan(server.config.value) :
                        IF plan = "ok" THEN Hold("server", "run", "ready", a) /\ UNCHANGED reply
                        ELSE /\ Answer("agent.turn", runtime_resume_error(plan))
                             /\ UNCHANGED driver
        /\ UNCHANGED <<disk, ghosts>> /\ Untouched

\* A Provider Turn of this connection is over: its output, or the first call
\* that awaits approval, is the answer.  AppServerProductInteraction decides
\* nothing itself.
TurnAnswered ==
    /\ driver.by = "server" /\ At("done") /\ driver.goal \in {"run", "resume"}
    /\ IF driver.res = "Prepared" THEN Answer("turn", "prepared")
       ELSE IF driver.res # "Interaction" THEN Answer("turn", runtime_resume_error(driver.res))
       ELSE IF Awaiting(disk) # {} /\ "tool" \notin disk.torn
       THEN AnswerCall("turn", "tool_approval_required", FirstAwaiting(disk))
       ELSE Answer("turn", "runtime_unavailable")
    /\ driver' = NoDriver
    /\ UNCHANGED <<disk, ghosts>> /\ Untouched

-----------------------------------------------------------------------------
(* tool.*                                                                   *)

ToolStatus ==
    /\ Ready
    /\ Answer("tool.status", IF inspect_product_tools(disk) = "IncompleteState"
                             THEN "tool_unavailable" ELSE "listed")
    /\ Resting /\ Untouched

ToolReconcile(c, status) ==
    LET error == IF product_control_ready(disk) THEN reconcile_product_tool(disk, c) ELSE "Ledger"
    IN  /\ Ready
        /\ disk' = IF error = "ok" THEN Reconciled(disk, c, status) ELSE disk
        /\ Answer("tool.reconcile", IF error = "ok" THEN "reconciled" ELSE tool_control_error(error))
        /\ UNCHANGED <<driver, ghosts>> /\ Untouched

\* Opening for tool.decide, and asking the Provider again.
DecideError(c) ==
    LET opened == open_existing_for_tool_recovery(disk, c)
    IN  IF ~product_control_ready(disk) THEN "Ledger"
        ELSE IF opened # "ok" THEN opened
        ELSE IF disk.pending.phase = "None" THEN "ToolApprovalUnavailable"
        ELSE recover_pending_error(disk, c, disk.calls[c].owner)

AskAgain(goal, c, decision, reviewed) ==
    IF DecideError(c) # "ok"
    THEN Answer("tool.decide", tool_control_error(DecideError(c))) /\ UNCHANGED driver
    ELSE \/ Answer("tool.decide", "provider_unavailable") /\ UNCHANGED driver
         \/ /\ driver' = [NoDriver EXCEPT !.by = "server", !.goal = goal, !.at = "asking",
                  !.session = disk.calls[c].owner, !.want = c, !.decision = decision,
                  !.reviewed = reviewed, !.saw = reviewed \cap shown]
            /\ UNCHANGED reply

\* The review that is there is dropped first, whatever happens next.
ToolReview(c) ==
    /\ Ready
    /\ server' = [server EXCEPT !.review = {}]
    /\ AskAgain("review", c, "none", {})
    /\ shown' = shown
    /\ UNCHANGED <<disk, ghosts, config>>

\* Approve or deny: the hashes must be those of the review on this connection,
\* which is used up before anything is opened.
ToolDecide_Unreviewed(c, decision, provided) ==
    /\ Ready
    /\ server' = [server EXCEPT !.review = {}]
    /\ AskAgain("decide", c, decision, {provided})
    /\ UNCHANGED <<disk, ghosts, config, shown>>
ToolDecide(c, decision, provided) ==
    /\ Ready
    /\ IF server.review = {}
       THEN Answer("tool.decide", "tool_review_required") /\ UNCHANGED <<driver, server, shown>>
       ELSE IF server.review # {provided}
       THEN Answer("tool.decide", "tool_approval_mismatch") /\ UNCHANGED <<driver, server, shown>>
       ELSE /\ server' = [server EXCEPT !.review = {}]
            /\ \/ Answer("tool.decide", "tool_execution_unavailable") /\ UNCHANGED driver
               \/ AskAgain("decide", c, decision, {provided})
            /\ shown' = shown \ {provided}
    /\ UNCHANGED <<disk, ghosts, config>>

Deciding == driver.by = "server" /\ driver.goal \in {"review", "decide"}

\* recover_pending_tool_approval has its answer: an approval for another call
\* is a mismatch; a review is kept and shown, a decision must still match it.
ApprovalRecovered ==
    /\ Deciding /\ At("approval")
    /\ IF driver.call # driver.want
       THEN /\ Answer("tool.decide", "tool_approval_mismatch")
            /\ driver' = NoDriver /\ UNCHANGED <<disk, server, shown>>
       ELSE IF driver.goal = "review"
       THEN /\ AnswerCall("tool.decide", "review_required", driver.call)
            /\ server' = [server EXCEPT !.review = {Binding(disk, driver.call)}]
            /\ shown' = shown \cup {Binding(disk, driver.call)}
            /\ driver' = NoDriver /\ UNCHANGED disk
       ELSE IF driver.reviewed # {Binding(disk, driver.call)}
       THEN /\ Answer("tool.decide", "tool_approval_mismatch")
            /\ driver' = NoDriver /\ UNCHANGED <<disk, server, shown>>
       ELSE Resolve(driver.decision) /\ UNCHANGED <<reply, server, shown>>
    /\ UNCHANGED <<ghosts, config>>

DecisionAnswered ==
    /\ Deciding /\ At("done")
    /\ Answer("tool.decide",
              CASE driver.res = "Denied" -> "denied"
                [] driver.goal = "review" /\ driver.res = "Prepared" -> "tool_not_awaiting_approval"
                [] driver.goal = "decide" /\ driver.res = "Prepared" ->
                        IF driver.call = 0 THEN "tool_not_awaiting_approval" ELSE "prepared"
                [] OTHER -> tool_control_error(driver.res))
    /\ driver' = NoDriver
    /\ UNCHANGED <<disk, ghosts>> /\ Untouched

-----------------------------------------------------------------------------
(* config.draft.commit, as far as the other requests can tell: a commit     *)
(* writes the files and loads what it wrote, a conflict loads what is there.*)
(* Module DraftStore holds the drafts themselves.                           *)

refresh_after_conflict ==
    /\ Ready
    /\ server' = [server EXCEPT !.config = config]
    /\ Answer("config.draft.commit", "revision_conflict")
    /\ Resting /\ UNCHANGED <<config, shown>>

DraftCommit(value) ==
    /\ Ready
    /\ config.revision < MaxRevision /\ server.config = config /\ value # config.value
    /\ config' = [revision |-> config.revision + 1, value |-> value]
    /\ server' = [server EXCEPT !.config = config']
    /\ Answer("config.draft.commit", "committed")
    /\ Resting /\ UNCHANGED shown

-----------------------------------------------------------------------------
\* The connection ends: the review is gone with it.
ServerRestarts ==
    /\ Ready
    /\ server' = NewConnection
    /\ shown' = {} /\ reply' = NoReply
    /\ Resting /\ UNCHANGED config

Turns == 1..MaxTurns
Agents == 1..MaxAgents
Calls == 1..MaxCalls

ServerStep ==
    \/ RuntimeStatus \/ AgentList \/ ToolStatus \/ ContextReduce
    \/ \E t \in Turns :
        \/ RuntimeCancel(t) \/ RuntimeRetry(t) \/ RuntimeResume(t)
        \/ RuntimeDelivery(t) \/ RuntimeAcknowledge(t)
        \/ \E a \in Agents : AgentRetry(a, t)
    \/ \E a \in Agents : AgentRequeue(a) \/ AgentTurn(a)
    \/ \E command \in TeamCommands, a \in Agents \cup {Nobody} : AgentCommand(command, a)
    \/ \E id \in 1..MaxOperations : AgentAcknowledge(id)
    \/ TurnAnswered
    \/ \E c \in Calls :
        \/ \E status \in {"Succeeded", "Failed"} : ToolReconcile(c, status)
        \/ ToolReview(c)
        \/ \E decision \in {"Approve", "Deny"}, a \in Args :
            ToolDecide(c, decision, [call |-> c, args |-> a])
    \/ ApprovalRecovered
    \/ DecisionAnswered
    \/ refresh_after_conflict
    \/ \E value \in ConfigValue : DraftCommit(value)
    \/ ServerRestarts
==============================================================================
