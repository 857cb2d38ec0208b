--------------------------- MODULE TerminalSession ---------------------------
(***************************************************************************)
(* The interactive terminal's half that acts on the product (greentyper     *)
(* terminal.rs, presentation.rs): blockers, agents, Tool approvals and      *)
(* Provider output.  A key becomes an intent by the context it is pressed   *)
(* in; the intent moves the session or calls the product; the view is a     *)
(* snapshot, and other processes change the product behind it.  What the    *)
(* product does is modelled in ProductDriver; here it is a record of what   *)
(* the terminal can see of it.                                              *)
(***************************************************************************)
EXTENDS Integers, Sequences

CONSTANTS
    MaxTurns,       \* bound: Turns admitted
    MaxAgents,      \* bound: Agents delegated
    MaxOperations,  \* bound: Team operations
    MaxText,        \* MAX_AGENT_TEXT_BYTES
    DetailLines,    \* width -> rows an approval's details take
    OutputLines     \* rows of a Provider output

ASSUME SessionAssumption ==
    /\ {MaxTurns, MaxAgents, MaxOperations, MaxText, OutputLines} \subseteq Nat
    /\ \A w \in DOMAIN DetailLines : DetailLines[w] \in Nat

VARIABLES
    world,      \* the product's Ledgers
    view,       \* TuiViewModel: what the terminal last read of them
    screen,     \* PresentationState
    selected,   \* the selected row
    detail,     \* whether the row's detail is open
    flow,       \* AgentLifecycleFlow
    text,       \* agent_text: its length
    reducing,   \* confirming_context_reduce
    approval,   \* tool_approval: the call shown
    output,     \* product_output: the delivery shown
    held,       \* LedgerPendingToolApproval: the call whose driver is open
    width,      \* of the viewport
    running     \* the loop has not ended

session_vars == <<world, view, screen, selected, detail, flow, text, reducing,
                  approval, output, held, width, running>>

NoFlow == [kind |-> "none"]

-----------------------------------------------------------------------------
(* The product as the terminal sees it.  A Turn has one Tool call and one   *)
(* delivery, which go by its number.                                        *)

\* What running a Provider may leave: output, a block, an approval to give, or
\* a Turn to resume.
Ran(w) ==
    {[w EXCEPT !.status = "Reconcile", !.call = FALSE],
     [w EXCEPT !.status = "Blocked", !.retryable = TRUE, !.call = FALSE],
     [w EXCEPT !.status = "Blocked", !.retryable = FALSE, !.call = FALSE],
     [w EXCEPT !.status = "Resume", !.call = TRUE],
     [w EXCEPT !.status = "Resume"]}
Settled(w) == [w EXCEPT !.status = "Ready", !.call = FALSE, !.owner = 0]

Active(w) == {a \in DOMAIN w.agents : w.agents[a] = "active"}

\* A Team command commits and waits for its acknowledgement.
Commanded(w, a, status) ==
    [w EXCEPT !.agents[a] = status, !.operation = w.operations + 1,
              !.operations = @ + 1, !.operator = a]
CanCommand(w, a) ==
    a \in Active(w) /\ w.operation = 0 /\ w.operations < MaxOperations
    /\ ~(w.owner = a /\ w.status # "Ready")

\* A Turn admitted and claimed for an Agent.
Begun(w, a) == [w EXCEPT !.turn = @ + 1, !.owner = a]

\* Everything another process may do between two keys.
Elsewhere(w) ==
    (IF w.status = "Ready" /\ w.turn < MaxTurns /\ w.operation = 0
     THEN UNION {Ran(Begun(w, a)) : a \in Active(w)} ELSE {})
    \cup (IF w.status = "Resume" THEN Ran(w) \cup {Settled(w)} ELSE {})
    \cup (IF w.status = "Blocked" /\ w.retryable
          THEN {[w EXCEPT !.status = "Resume"], Settled(w)} ELSE {})
    \cup (IF w.status = "Reconcile" THEN {Settled(w)} ELSE {})
    \cup {Commanded(w, a, s) : a \in {b \in Active(w) : CanCommand(w, b)},
                               s \in {"active", "succeeded", "failed", "cancelled"}}
    \cup (IF w.operation # 0 THEN {[w EXCEPT !.operation = 0, !.operator = 0]} ELSE {})

-----------------------------------------------------------------------------
(* Views.                                                                   *)

Row(kind, id) == [kind |-> kind, id |-> id]
When(condition, rows) == IF condition THEN rows ELSE <<>>

\* build_blockers: the runtime, the Team's operation and ended tasks, a Tool call.
build_blockers(v) ==
    When(v.status # "Ready", <<Row(v.status, v.turn)>>)
    \o When(v.operation # 0, <<Row("Operation", v.operation)>>)
    \o SelectSeq([a \in DOMAIN v.agents |-> Row(v.agents[a], a)],
                 LAMBDA r : r.kind \in {"failed", "cancelled"})
    \o When(v.call, <<Row("Approval", v.turn)>>)

\* AgentCenterView: how an Agent's pending Turn may be taken up again.
recovery(v, a) ==
    IF v.owner # a \/ v.status = "Ready" THEN "none"
    ELSE IF v.status = "Blocked" /\ v.retryable THEN "Retry" ELSE v.status

\* selected_agent_action_target.
selected_agent_action_target(v, a) ==
    LET operation == IF v.operator = a THEN v.operation ELSE 0
        active == v.agents[a] \notin {"succeeded", "failed", "cancelled"}
    IN  [kind |-> "Actions", agent |-> a, turn |-> v.turn, active |-> active,
         recovery |-> recovery(v, a), operation |-> operation,
         cancellable |-> operation = 0 /\ recovery(v, a) = "none" /\ active,
         requeueable |-> operation = 0 /\ recovery(v, a) = "none"
            /\ v.agents[a] \in {"failed", "cancelled"} /\ a # 1 /\ v.agents[1] = "active"]

\* The rows of the action menu, in the order both the menu and its keys use.
AgentActions(t) ==
    When(t.recovery = "Retry", <<"RetryAgentProvider">>)
    \o When(t.recovery = "Resume", <<"ResumeAgentProvider">>)
    \o When(t.recovery = "Reconcile", <<"LoadAgentOutput">>)
    \o When(t.cancellable, <<"ConfirmCancel">>)
    \o When(t.requeueable, <<"ConfirmRequeue">>)
    \o When(t.operation # 0, <<"ConfirmAcknowledgement">>)
    \o When(t.active /\ t.operation = 0 /\ t.recovery = "none",
            <<"Delegate", "Message", "Complete", "Fail">>)
    \o <<"Return">>

Entries(v, at) ==
    CASE at = "AgentCenter" -> Len(v.agents)
      [] at = "BlockerCenter" -> Len(build_blockers(v))
      [] OTHER -> 0

-----------------------------------------------------------------------------
(* Keys.                                                                    *)

input_context ==
    CASE flow.kind = "Actions" -> "AgentActions"
      [] flow.kind \in {"ConfirmCancel", "ConfirmRequeue", "ConfirmAcknowledgement"} -> "AgentConfirmation"
      [] flow.kind = "Text" -> "AgentText"
      [] flow.kind = "none" /\ reducing /\ screen \notin {"SlashPanel", "AgentCenter"} -> "ContextConfirmation"
      [] OTHER -> screen

Refreshable == {"SlashPanel", "AgentCenter", "Context", "BlockerCenter"}

\* TerminalInputState::apply, for these contexts.
apply(event, context) ==
    CASE event = "F6" -> IF context \in Refreshable THEN "RefreshSnapshot" ELSE "None"
      [] event = "r" -> IF context = "Context" THEN "ConfirmContextReduce"
                        ELSE IF context = "AgentText" THEN "EditAgentText" ELSE "None"
      [] event = "a" -> IF context = "AgentCenter" THEN "OpenAgentActions"
                        ELSE IF context = "AgentText" THEN "EditAgentText" ELSE "None"
      [] event \in {"Up", "Down"} ->
            CASE context \in {"AgentCenter", "BlockerCenter"} -> "MoveSelection"
              [] context = "AgentActions" -> "MoveAgentAction"
              [] context = "ToolApproval" -> "MoveToolApprovalSelection"
              [] context = "ProductOutput" -> "MoveProductOutputSelection"
              [] OTHER -> "None"
      [] event = "Delete" -> IF context = "AgentText" THEN "ClearAgentText" ELSE "None"
      [] event = "Enter" ->
            CASE context = "SlashPanel" -> "Activate"
              [] context = "AgentCenter" -> "ToggleAgentDetail"
              [] context = "ContextConfirmation" -> "ReduceContext"
              [] context = "AgentActions" -> "ActivateAgentAction"
              [] context = "AgentText" -> "SubmitAgentText"
              [] context = "AgentConfirmation" -> "ConfirmAgentAction"
              [] context = "BlockerCenter" -> "ActivateBlocker"
              [] context = "ToolApproval" -> "ActivateToolApproval"
              [] context = "ProductOutput" -> "AcknowledgeProductOutput"
              [] OTHER -> "None"
      [] event = "Escape" ->
            CASE context = "ContextConfirmation" -> "CancelContextReduce"
              [] context \in {"AgentActions", "AgentConfirmation", "AgentText"} -> "CancelAgentFlow"
              [] context = "ToolApproval" -> "CancelToolApproval"
              [] context = "SlashPanel" -> "Quit"
              [] OTHER -> "Back"
      [] OTHER -> "Quit"

Moved(offset, count) ==
    LET s == selected + offset IN IF s < 0 THEN 0 ELSE IF s > count - 1 THEN count - 1 ELSE s
Offset(event) == IF event = "Up" THEN -1 ELSE 1

\* Only the selection moves, or the screen changes.
Stay == UNCHANGED <<world, view, held>>
Quiet == UNCHANGED <<flow, text, reducing, approval, output, width, running>>
Show(at) == screen' = at /\ selected' = 0 /\ detail' = FALSE

\* refresh_terminal_view and reconcile_snapshot on the screen (at, s, d); a
\* refresh that fails leaves the view as it was.
Refresh(at, s, d) ==
    LET n == Entries(world', at) IN
    /\ screen' = at
    /\ \/ /\ view' = world'
          /\ selected' = IF at \notin {"AgentCenter", "BlockerCenter"} THEN s
                         ELSE IF n = 0 THEN 0 ELSE IF s >= n THEN n - 1 ELSE s
          /\ detail' = (IF at \in {"AgentCenter", "BlockerCenter"} /\ (n = 0 \/ s >= n)
                        THEN FALSE ELSE d)
       \/ UNCHANGED view /\ selected' = s /\ detail' = d

-----------------------------------------------------------------------------
(* Moving about.                                                            *)

RefreshSnapshot ==
    /\ UNCHANGED <<world, held>> /\ Quiet /\ Refresh(screen, selected, detail)

\* The slash panel's choice of a screen.
Activate(at) == Show(at) /\ Stay /\ Quiet

move_agent_selection(offset) ==
    IF Entries(view, screen) = 0 THEN 0 ELSE Moved(offset, Entries(view, screen))
MoveSelection(event) ==
    /\ selected' = move_agent_selection(Offset(event))
    /\ detail' = FALSE
    /\ UNCHANGED screen /\ Stay /\ Quiet

ToggleAgentDetail ==
    /\ selected < Entries(view, screen) /\ detail' = ~detail
    /\ UNCHANGED <<screen, selected>> /\ Stay /\ Quiet

Back_Anywhere ==
    /\ IF screen \in {"AgentCenter", "BlockerCenter"} /\ detail
       THEN detail' = FALSE /\ UNCHANGED <<screen, selected>>
       ELSE Show("SlashPanel")
    /\ Stay /\ Quiet
\* Output that was not acknowledged is not left; an open detail closes first.
Back ==
    /\ screen # "ProductOutput"
    /\ IF screen \in {"AgentCenter", "BlockerCenter"} /\ detail
       THEN detail' = FALSE /\ UNCHANGED <<screen, selected>>
       ELSE Show("SlashPanel")
    /\ Stay /\ Quiet

\* Neither does the terminal end over it; a review in progress is given up.
Quit ==
    /\ screen # "ProductOutput"
    /\ running' = FALSE /\ held' = 0
    /\ UNCHANGED <<world, view, screen, selected, detail, flow, text, reducing, approval, output, width>>

\* The two choices of an approval keep the focus, a detail row its number.
reflow_tool_approval_selection(w) ==
    CASE selected = DetailLines[width] -> DetailLines[w]
      [] selected = DetailLines[width] + 1 -> DetailLines[w] + 1
      [] selected > DetailLines[w] + 1 -> DetailLines[w] + 1
      [] OTHER -> selected
Resize(w) ==
    /\ w # width /\ width' = w
    /\ selected' = (IF screen = "ToolApproval" THEN reflow_tool_approval_selection(w) ELSE selected)
    /\ UNCHANGED <<screen, detail, flow, text, reducing, approval, output, running>> /\ Stay

-----------------------------------------------------------------------------
(* Context.                                                                 *)

ConfirmContextReduce ==
    /\ reducing' = TRUE
    /\ UNCHANGED <<screen, selected, detail, flow, text, approval, output, width, running>> /\ Stay
CancelContextReduce ==
    /\ reducing' = FALSE
    /\ UNCHANGED <<screen, selected, detail, flow, text, approval, output, width, running>> /\ Stay
\* Needs the safe barrier; the checkpoint is not part of what is shown here.
ReduceContext ==
    /\ reducing' = FALSE
    /\ UNCHANGED <<world, held, flow, text, approval, output, width, running>>
    /\ Refresh(screen, selected, detail)

-----------------------------------------------------------------------------
(* Agents.                                                                  *)

OpenAgentActions ==
    /\ selected < Len(view.agents)
    /\ flow' = [target |-> selected_agent_action_target(view, selected + 1), kind |-> "Actions", row |-> 0]
    /\ UNCHANGED <<screen, selected, detail, text, reducing, approval, output, width, running>> /\ Stay

MoveAgentAction(event) ==
    LET n == Len(AgentActions(flow.target))
        r == flow.row + Offset(event)
    IN  /\ flow' = [flow EXCEPT !.row = IF r < 0 THEN 0 ELSE IF r > n - 1 THEN n - 1 ELSE r]
        /\ UNCHANGED <<screen, selected, detail, text, reducing, approval, output, width, running>> /\ Stay

CancelAgentFlow ==
    /\ flow' = NoFlow /\ text' = 0
    /\ UNCHANGED <<screen, selected, detail, reducing, approval, output, width, running>> /\ Stay

\* A call of the product with the flow closed: it succeeds from a world that
\* allows it, or fails (a lock, a stale row) and may leave a flow to try again.
Call(new, again) ==
    /\ UNCHANGED <<held, reducing, approval, output, width, running>>
    /\ \/ /\ world' \in new
          /\ flow' = NoFlow /\ text' = 0
          /\ Refresh(screen, selected, detail)
       \/ /\ flow' = again
          /\ UNCHANGED <<world, view, screen, selected, detail, text>>

show_product_output(d) ==
    /\ output' = d /\ approval' = 0
    /\ screen' = "ProductOutput" /\ selected' = 0 /\ detail' = FALSE

\* retry_agent_provider, resume_agent_provider, load_agent_output: for the
\* owner of the Turn the row named, as the Ledger has it now.
Owned(t) == world.owner = t.agent /\ world.turn = t.turn

RetryAgentProvider(t) ==
    Call(IF Owned(t) /\ world.status = "Blocked" /\ world.retryable
         THEN {[world EXCEPT !.status = "Resume"]} ELSE {}, NoFlow)

\* The terminal's interaction answers no approval: a call the Provider makes
\* is left waiting, and the resume fails.
ResumeAgentProvider(t) ==
    /\ flow' = NoFlow
    /\ UNCHANGED <<held, text, reducing, width, running>>
    /\ \/ /\ Owned(t) /\ world.status = "Resume" /\ ~world.call
          /\ world' \in Ran(world)
          /\ IF world'.status = "Reconcile"
             THEN view' \in {view, world'} /\ show_product_output(world'.turn)
             ELSE UNCHANGED <<approval, output>> /\ Refresh(screen, selected, detail)
       \/ UNCHANGED <<world, approval, output>> /\ Refresh(screen, selected, detail)

LoadAgentOutput(t) ==
    /\ flow' = NoFlow
    /\ IF Owned(t) /\ world.status = "Reconcile"
       THEN show_product_output(t.turn)
       ELSE UNCHANGED <<screen, selected, detail, approval, output>>
    /\ UNCHANGED <<world, view, held, text, reducing, width, running>>

Confirming(kind, t) == [kind |-> kind, target |-> t]

ActivateAgentAction ==
    LET t == flow.target
        action == AgentActions(t)[flow.row + 1]
    IN  CASE action = "RetryAgentProvider" -> RetryAgentProvider(t)
          [] action = "ResumeAgentProvider" -> ResumeAgentProvider(t)
          [] action = "LoadAgentOutput" -> LoadAgentOutput(t)
          [] action \in {"ConfirmCancel", "ConfirmRequeue", "ConfirmAcknowledgement"} ->
                /\ flow' = Confirming(action, t)
                /\ UNCHANGED <<screen, selected, detail, text, reducing, approval, output, width, running>>
                /\ Stay
          [] action = "Return" -> CancelAgentFlow
          [] OTHER ->
                /\ flow' = [kind |-> "Text", target |-> t, action |-> action] /\ text' = 0
                /\ UNCHANGED <<screen, selected, detail, reducing, approval, output, width, running>>
                /\ Stay

\* Blank text does not count.
EditAgentText ==
    /\ text' = IF text < MaxText THEN text + 1 ELSE text
    /\ UNCHANGED <<screen, selected, detail, flow, reducing, approval, output, width, running>> /\ Stay
ClearAgentText ==
    /\ text' = 0
    /\ UNCHANGED <<screen, selected, detail, flow, reducing, approval, output, width, running>> /\ Stay

\* A command that fails puts its text back.
SubmitAgentText ==
    LET a == flow.target.agent
        ended == CASE flow.action = "Complete" -> "succeeded"
                   [] flow.action = "Fail" -> "failed"
                   [] OTHER -> "active"
        done == Commanded(world, a, ended)
    IN  /\ text # 0
        /\ Call(IF ~CanCommand(world, a) THEN {}
                ELSE IF flow.action # "Delegate" THEN {done}
                ELSE IF Len(world.agents) < MaxAgents
                THEN {[done EXCEPT !.agents = Append(@, "active")]} ELSE {},
                flow)

\* cancel_agent, requeue_agent and acknowledge_team_operation.
ConfirmAgentAction ==
    LET t == flow.target
        a == t.agent
    IN  CASE flow.kind = "ConfirmCancel" ->
                Call(IF CanCommand(world, a) THEN {Commanded(world, a, "cancelled")} ELSE {}, flow)
          [] flow.kind = "ConfirmRequeue" ->
                Call(IF /\ world.operation = 0 /\ world.operations < MaxOperations
                        /\ world.agents[a] \in {"failed", "cancelled"} /\ 1 \in Active(world)
                     THEN {Commanded(world, a, "active")} ELSE {}, NoFlow)
          [] OTHER ->
                Call(IF world.operation = t.operation
                     THEN {[world EXCEPT !.operation = 0, !.operator = 0]} ELSE {}, flow)

-----------------------------------------------------------------------------
(* Blockers, approvals and output.                                          *)

\* The driver of the call stays open while it is shown.
load_tool_approval(call) == world.call /\ world.turn = call
LoadToolApproval(call) ==
    /\ \/ /\ load_tool_approval(call)
          /\ held' = call /\ approval' = call
          /\ Show("ToolApproval")
          /\ UNCHANGED <<world, view>>
       \/ /\ held' = 0
          /\ UNCHANGED <<world, approval>> /\ Refresh(screen, selected, detail)
    /\ UNCHANGED <<flow, text, reducing, output, width, running>>

RetryProvider(turn) ==
    Call(IF world.turn = turn /\ world.status = "Blocked" /\ world.retryable
         THEN {[world EXCEPT !.status = "Resume"]} ELSE {}, flow)

\* The first Enter opens a blocker's detail; the second acts on it.
activate_blocker(blocker) ==
    CASE blocker.kind = "Approval" -> IF detail THEN "LoadToolApproval" ELSE "DetailChanged"
      [] blocker.kind = "Blocked" /\ view.retryable -> IF detail THEN "RetryProvider" ELSE "DetailChanged"
      [] OTHER -> "DetailChanged"
ActivateBlocker ==
    LET blocker == build_blockers(view)[selected + 1] IN
    /\ selected < Len(build_blockers(view))
    /\ CASE activate_blocker(blocker) = "LoadToolApproval" -> LoadToolApproval(blocker.id)
         [] activate_blocker(blocker) = "RetryProvider" -> RetryProvider(blocker.id)
         [] OTHER -> detail' = ~detail /\ UNCHANGED <<screen, selected>> /\ Stay /\ Quiet

MoveToolApprovalSelection(event) ==
    /\ selected' = Moved(Offset(event), DetailLines[width] + 2)
    /\ UNCHANGED <<screen, detail>> /\ Stay /\ Quiet

CancelToolApproval ==
    /\ held' = 0 /\ approval' = 0 /\ Show("BlockerCenter")
    /\ UNCHANGED <<world, view, flow, text, reducing, output, width, running>>

\* resolve_tool_approval with the driver that was held: the decision for the
\* call shown, then whatever the Provider does next.
resolve_tool_approval == held # 0 /\ held = approval
ResolveToolApproval(decision) ==
    /\ held' = 0 /\ approval' = 0
    /\ UNCHANGED <<flow, text, reducing, width, running>>
    /\ \/ /\ resolve_tool_approval /\ decision = "Approve"
          /\ world' \in Ran(world)
          /\ IF world'.status = "Reconcile"
             THEN view' \in {view, world'} /\ show_product_output(world'.turn)
             ELSE UNCHANGED output /\ Refresh("BlockerCenter", 0, FALSE)
       \/ /\ resolve_tool_approval /\ decision = "Deny"
          /\ world' = [world EXCEPT !.status = "Blocked", !.retryable = FALSE, !.call = FALSE]
          /\ output' = 0 /\ Refresh("BlockerCenter", 0, FALSE)
       \/ UNCHANGED <<world, output>> /\ Refresh("BlockerCenter", 0, FALSE)

activate_tool_approval ==
    CASE selected = DetailLines[width] -> {"Approve"}
      [] selected = DetailLines[width] + 1 -> {"Deny"}
      [] OTHER -> {}
ActivateToolApproval == \E decision \in activate_tool_approval : ResolveToolApproval(decision)

MoveProductOutputSelection(event) ==
    /\ selected' = Moved(Offset(event), OutputLines + 1)
    /\ UNCHANGED <<screen, detail>> /\ Stay /\ Quiet

\* acknowledge_output: the delivery shown must be the one the Ledger waits for.
AcknowledgeProductOutput ==
    /\ selected = OutputLines
    /\ world.status = "Reconcile" /\ world.turn = output
    /\ world' = Settled(world)
    /\ output' = 0 /\ approval' = 0 /\ held' = 0
    /\ UNCHANGED <<flow, text, reducing, width, running>>
    /\ Refresh("BlockerCenter", 0, FALSE)

-----------------------------------------------------------------------------
Events == {"F6", "r", "a", "Up", "Down", "Delete", "Enter", "Escape", "Quit"}

Handle(event, intent) ==
    \/ intent = "RefreshSnapshot" /\ RefreshSnapshot
    \/ intent = "Activate" /\ \E at \in {"AgentCenter", "Context", "BlockerCenter"} : Activate(at)
    \/ intent = "MoveSelection" /\ MoveSelection(event)
    \/ intent = "ToggleAgentDetail" /\ ToggleAgentDetail
    \/ intent = "Back" /\ Back
    \/ intent = "Quit" /\ Quit
    \/ intent = "ConfirmContextReduce" /\ ConfirmContextReduce
    \/ intent = "CancelContextReduce" /\ CancelContextReduce
    \/ intent = "ReduceContext" /\ ReduceContext
    \/ intent = "OpenAgentActions" /\ OpenAgentActions
    \/ intent = "MoveAgentAction" /\ MoveAgentAction(event)
    \/ intent = "ActivateAgentAction" /\ ActivateAgentAction
    \/ intent = "CancelAgentFlow" /\ CancelAgentFlow
    \/ intent = "EditAgentText" /\ EditAgentText
    \/ intent = "ClearAgentText" /\ ClearAgentText
    \/ intent = "SubmitAgentText" /\ SubmitAgentText
    \/ intent = "ConfirmAgentAction" /\ ConfirmAgentAction
    \/ intent = "ActivateBlocker" /\ ActivateBlocker
    \/ intent = "MoveToolApprovalSelection" /\ MoveToolApprovalSelection(event)
    \/ intent = "ActivateToolApproval" /\ ActivateToolApproval
    \/ intent = "CancelToolApproval" /\ CancelToolApproval
    \/ intent = "MoveProductOutputSelection" /\ MoveProductOutputSelection(event)
    \/ intent = "AcknowledgeProductOutput" /\ AcknowledgeProductOutput

\* The driver of a call under review keeps the Ledgers' writers locked.
OtherProcess ==
    /\ held = 0 /\ world' \in Elsewhere(world)
    /\ UNCHANGED <<view, screen, selected, detail, flow, text, reducing, approval,
                   output, held, width, running>>

SessionInit ==
    /\ world = [turn |-> 0, status |-> "Ready", retryable |-> FALSE, owner |-> 0, call |-> FALSE,
                agents |-> <<"active">>, operation |-> 0, operator |-> 0, operations |-> 0]
    /\ view = world
    /\ screen = "SlashPanel" /\ selected = 0 /\ detail = FALSE
    /\ flow = NoFlow /\ text = 0 /\ reducing = FALSE
    /\ approval = 0 /\ output = 0 /\ held = 0
    /\ width \in DOMAIN DetailLines /\ running = TRUE

SessionNext ==
    \/ OtherProcess
    \/ running /\ \E event \in Events : Handle(event, apply(event, input_context))
    \/ running /\ \E w \in DOMAIN DetailLines : Resize(w)

-----------------------------------------------------------------------------
\* A driver is held, and everyone else's writes refused, exactly while its
\* call is on the screen, and that call still waits for the decision.
ApprovalShownIsHeld ==
    IF running /\ screen = "ToolApproval"
    THEN held = approval /\ held # 0 /\ world.call /\ world.turn = held
    ELSE held = 0

\* Output leaves the screen only once its delivery has been acknowledged.
OutputStaysUntilAcknowledged ==
    [][screen = "ProductOutput" /\ running /\ ~(running' /\ screen' = "ProductOutput")
        => ~(world'.status = "Reconcile" /\ world'.turn = output)]_session_vars

\* What the terminal shows for the user to settle is really held for it, and
\* leaves the screen only settled.
PromptsAreKept == []ApprovalShownIsHeld /\ OutputStaysUntilAcknowledged

\* The output on the screen can be acknowledged.
OutputIsAcknowledgeable ==
    running /\ screen = "ProductOutput" => world.status = "Reconcile" /\ world.turn = output
==============================================================================
