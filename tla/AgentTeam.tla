----------------------------- MODULE AgentTeam -----------------------------
(***************************************************************************)
(* The Agent Team: delegation policy, dependency scheduling, the operation  *)
(* journal and its recovery (greentyper-core agent_team.rs with its durable *)
(* adapter agent_team/persistence.rs and the Kernel's KernelTeam gate in    *)
(* runtime.rs).                                                             *)
(*                                                                          *)
(* A command is planned against the live state, its events are applied to a *)
(* copy, the copy is reconciled (dependents blocked or readied, lowest      *)
(* Ready Tasks activated), validated, appended to the Team Ledger and only  *)
(* then published.  A command's transaction carries an operation identity,  *)
(* and the Kernel refuses the next command until it is acknowledged.        *)
(*                                                                          *)
(* Task and Agent identifiers are allocated together from 1 upwards, so one *)
(* number names a Task and its Owner; 0 stands for "no parent".  The Ledger *)
(* appears through what it promises (module FileLedger): an append is       *)
(* durable and acknowledged, or its writer is poisoned and the transaction  *)
(* is found whole or not at all by the next open.                           *)
(***************************************************************************)
EXTENDS Integers, Sequences, FiniteSets, FiniteSetsExt

CONSTANTS
    Labels,         \* scope labels
    Caps,           \* capabilities
    Budgets,        \* budgets a command may ask for: [tokens, calls]
    Limits,         \* max_active_agents values a caller may open with
    MaxTasks,       \* bound: Tasks (and Agents) ever created
    MaxOperations,  \* bound: operations ever committed
    MaxMessages     \* bound: messages ever sent

Budget == [tokens : Nat, calls : Nat]

ASSUME BudgetsAssumption == Budgets \subseteq Budget
ASSUME LimitsAssumption == Limits \subseteq Nat \ {0}
ASSUME BoundsAssumption == MaxTasks \in Nat /\ MaxOperations \in Nat /\ MaxMessages \in Nat

VARIABLES
    live,      \* TeamRuntime::state, the published projection
    durable,   \* the state the Team Ledger's transactions fold to
    mode,      \* the Kernel process: "closed", "open", or "poisoned"
    limit,     \* TeamRuntime::max_active_agents of this open
    sessions,  \* Agents whose AgentSession was issued during this open
    replay,    \* recover's fold of the journal: running limit and verdict
    reply      \* what the last call answered

vars == <<live, durable, mode, limit, sessions, replay, reply>>

TaskStatus == {"Pending", "Ready", "Running", "Blocked", "Succeeded", "Failed", "Cancelled"}
AgentStatus == {"Dormant", "Active", "Blocked", "Succeeded", "Failed", "Cancelled"}

Terminal == {"Succeeded", "Failed", "Cancelled"}
BlocksDependents == {"Blocked", "Failed", "Cancelled"}

Task == [deps : SUBSET Nat, scope : SUBSET Labels, status : TaskStatus]
Agent == [parent : Nat, status : AgentStatus, budget : Budget, reserved : Budget,
          caps : SUBSET Caps]
TeamState == [tasks : Seq(Task), agents : Seq(Agent), messages : Nat,
              committed : Nat, acked : Nat]

EmptyTeam == [tasks |-> <<>>, agents |-> <<>>, messages |-> 0, committed |-> 0, acked |-> 0]

-----------------------------------------------------------------------------
(* Queries on a Team state.                                                 *)

Ids(s) == DOMAIN s.tasks
Active(s) == {a \in DOMAIN s.agents : s.agents[a].status = "Active"}
InStatus(s, st) == {t \in Ids(s) : s.tasks[t].status = st}
Children(s, a) == {c \in DOMAIN s.agents : s.agents[c].parent = a}

OutstandingChildren(s, a) == {c \in Children(s, a) : s.agents[c].status \notin Terminal}

DependenciesSucceeded(s, t) ==
    \A d \in s.tasks[t].deps : s.tasks[d].status = "Succeeded"
FailedDependency(s, t) ==
    \E d \in s.tasks[t].deps : s.tasks[d].status \in BlocksDependents

\* Agents from a up to the root.
IsAncestorChain(s, p, C) ==
    /\ p \in C
    /\ \A a \in C : s.agents[a].parent # 0 => s.agents[a].parent \in C
Ancestors(s, p) ==
    {a \in DOMAIN s.agents :
        \A C \in SUBSET DOMAIN s.agents : IsAncestorChain(s, p, C) => a \in C}

BudgetContains(big, small) == big.tokens >= small.tokens /\ big.calls >= small.calls
Plus(x, y) == [tokens |-> x.tokens + y.tokens, calls |-> x.calls + y.calls]
NoBudget == [tokens |-> 0, calls |-> 0]
ChildBudgets(s, a) ==
    [tokens |-> MapThenSumSet(LAMBDA c : s.agents[c].budget.tokens, Children(s, a)),
     calls  |-> MapThenSumSet(LAMBDA c : s.agents[c].budget.calls, Children(s, a))]

-----------------------------------------------------------------------------
(* reconcile: what every transaction ends with.                             *)

\* Status of Task t once the waiting Tasks have taken their verdict v.
After(s, v, t) == IF t \in DOMAIN v THEN v[t] ELSE s.tasks[t].status

\* The pass over Pending Tasks in identifier order.  A Task depends only on
\* lower identifiers, so exactly one verdict satisfies the equation.
Verdicts(s) ==
    {v \in [InStatus(s, "Pending") -> {"Pending", "Ready", "Blocked"}] :
        \A t \in InStatus(s, "Pending") :
            v[t] = IF \E d \in s.tasks[t].deps : After(s, v, d) \in BlocksDependents
                   THEN "Blocked"
                   ELSE IF \A d \in s.tasks[t].deps : After(s, v, d) = "Succeeded"
                   THEN "Ready"
                   ELSE "Pending"}

\* The lowest Ready Tasks, as many as there are free slots.
Starting(s, v, max) ==
    LET ready == {t \in Ids(s) : After(s, v, t) = "Ready"}
        free == max - Cardinality(Active(s))
    IN  {t \in ready : Cardinality({u \in ready : u < t}) < free}

\* TaskReady, TaskBlocked and AgentBlocked: a Task and its Owner together.
Judged(s, v) ==
    [s EXCEPT
       !.tasks = [t \in Ids(s) |-> [s.tasks[t] EXCEPT !.status = After(s, v, t)]],
       !.agents = [a \in DOMAIN s.agents |->
            [s.agents[a] EXCEPT !.status =
                IF a \in DOMAIN v /\ v[a] = "Blocked" THEN "Blocked" ELSE @]]]

\* AgentActivated and TaskStarted.
Started(s, start) ==
    [s EXCEPT
       !.tasks = [t \in Ids(s) |->
            [s.tasks[t] EXCEPT !.status = IF t \in start THEN "Running" ELSE @]],
       !.agents = [a \in DOMAIN s.agents |->
            [s.agents[a] EXCEPT !.status = IF a \in start THEN "Active" ELSE @]]]

Reconciled(s, v, max) == Started(Judged(s, v), Starting(s, v, max))

-----------------------------------------------------------------------------
(* TeamState::validate and validate_quiescent.                              *)

Paired(task, agent) ==
    \/ task \in {"Pending", "Ready"} /\ agent = "Dormant"
    \/ task = "Running" /\ agent = "Active"
    \/ task \notin {"Pending", "Ready", "Running"} /\ agent = task

Valid(s, max) ==
    /\ Cardinality(Active(s)) <= max
    /\ DOMAIN s.agents = Ids(s)
    /\ \A t \in Ids(s) : Paired(s.tasks[t].status, s.agents[t].status)
    /\ \A a \in DOMAIN s.agents :
        /\ s.agents[a].parent \in DOMAIN s.agents \cup {0}
        /\ BudgetContains(s.agents[a].budget, s.agents[a].reserved)
        /\ s.agents[a].reserved = ChildBudgets(s, a)
        /\ s.agents[a].status \in Terminal => OutstandingChildren(s, a) = {}

Quiescent(s, max) ==
    /\ \A t \in InStatus(s, "Pending") :
        ~FailedDependency(s, t) /\ ~DependenciesSucceeded(s, t)
    /\ Cardinality(Active(s)) < max => InStatus(s, "Ready") = {}

-----------------------------------------------------------------------------
(* Committing a planned transaction.                                        *)

\* recover's bookkeeping for one more transaction in the journal.
Replayed(n) ==
    LET peak == Max({replay.limit, Cardinality(Active(n))})
    IN  [limit |-> peak, ok |-> replay.ok /\ Quiescent(n, peak)]

\* publish: the candidate becomes the state, and its Sessions are issued.
Publish(n, issued) ==
    /\ live' = n
    /\ sessions' = sessions \cup issued
    /\ reply' = "committed"

\* append_prepared: a receipt publishes the candidate; an I/O error poisons the
\* writer and leaves the transaction there or not.
AppendPrepared(n, issued) ==
    \/ /\ durable' = n /\ replay' = Replayed(n)
       /\ Publish(n, issued)
       /\ mode' = mode
    \/ /\ \/ durable' = n /\ replay' = Replayed(n)
          \/ UNCHANGED <<durable, replay>>
       /\ mode' = "poisoned"
       /\ reply' = "ledger error"
       /\ UNCHANGED <<live, sessions>>

Refuse(why) ==
    /\ reply' = why
    /\ UNCHANGED <<live, durable, mode, sessions, replay>>

\* KernelTeam::require_ready, then prepare_operation on the planned state.
Ready ==
    /\ mode = "open"
    /\ live.acked = live.committed
    /\ live.committed < MaxOperations

OperationCommitted(s) == [s EXCEPT !.committed = @ + 1]

Dispatch(planned, issued) ==
    /\ \E v \in Verdicts(planned) :
        LET n == Reconciled(OperationCommitted(planned), v, limit)
        IN  IF Valid(n, limit) /\ Quiescent(n, limit)
            THEN AppendPrepared(n, issued)
            ELSE Refuse("command invalid")
    /\ UNCHANGED limit

-----------------------------------------------------------------------------
(* Commands (TeamCommand).                                                  *)

Authenticated(a) == a \in sessions /\ a \in DOMAIN live.agents
RequireActive(a) == Authenticated(a) /\ live.agents[a].status = "Active"

\* validate_task_spec and validate_budget: dependencies exist, some tokens.
TaskSpecs(s) == [deps : SUBSET Ids(s), scope : SUBSET Labels]
ValidBudgets == {budget \in Budgets : budget.tokens > 0}

NewTask(deps, scope) == [deps |-> deps, scope |-> scope, status |-> "Pending"]
NewAgent(parent, budget, caps) ==
    [parent |-> parent, status |-> "Dormant", budget |-> budget,
     reserved |-> NoBudget, caps |-> caps]

AdmitRoot ==
    /\ Ready /\ live.agents = <<>> /\ MaxTasks > 0
    /\ \E task \in TaskSpecs(live), caps \in SUBSET Caps, budget \in ValidBudgets :
        Dispatch([live EXCEPT !.tasks = Append(@, NewTask(task.deps, task.scope)),
                              !.agents = Append(@, NewAgent(0, budget, caps))],
                 {1})

Granted(s, p, deps, scope, budget, caps) ==
    LET charged == [s.agents EXCEPT ![p].reserved = Plus(@, budget)]
    IN  [s EXCEPT !.tasks = Append(@, NewTask(deps, scope)),
                  !.agents = Append(charged, NewAgent(p, budget, caps))]

MayDelegate_RootCeiling(p, deps, scope, budget, caps) ==
    /\ deps \cap Ancestors(live, p) = {}
    /\ scope \subseteq live.tasks[1].scope
    /\ caps \subseteq live.agents[1].caps
    /\ BudgetContains(live.agents[p].budget, Plus(live.agents[p].reserved, budget))
MayDelegate(p, deps, scope, budget, caps) ==
    /\ deps \cap Ancestors(live, p) = {}
    /\ scope \subseteq live.tasks[p].scope
    /\ caps \subseteq live.agents[p].caps
    /\ BudgetContains(live.agents[p].budget, Plus(live.agents[p].reserved, budget))

Delegate ==
    /\ Ready /\ Len(live.tasks) < MaxTasks
    /\ \E p \in sessions : RequireActive(p) /\
        \E task \in TaskSpecs(live), budget \in ValidBudgets, caps \in SUBSET Caps :
            /\ MayDelegate(p, task.deps, task.scope, budget, caps)
            /\ Dispatch(Granted(live, p, task.deps, task.scope, budget, caps),
                        {Len(live.agents) + 1})

MessageSent(s) == [s EXCEPT !.messages = @ + 1]

\* The recipient 0 is the whole Team.
SendMessage ==
    /\ Ready /\ live.messages < MaxMessages
    /\ \E from \in sessions : RequireActive(from) /\
        \E to \in {0} \cup DOMAIN live.agents :
            /\ to # 0 => live.agents[to].status \notin Terminal
            /\ Dispatch(MessageSent(live), {})

Finished(s, a, st) == [s EXCEPT !.tasks[a].status = st, !.agents[a].status = st]

Complete_IgnoresChildren ==
    /\ Ready
    /\ \E a \in sessions :
        /\ RequireActive(a)
        /\ Dispatch(Finished(live, a, "Succeeded"), {})
Complete ==
    /\ Ready
    /\ \E a \in sessions :
        /\ RequireActive(a)
        /\ OutstandingChildren(live, a) = {}
        /\ Dispatch(Finished(live, a, "Succeeded"), {})

Fail ==
    /\ Ready
    /\ \E a \in sessions :
        /\ RequireActive(a)
        /\ OutstandingChildren(live, a) = {}
        /\ Dispatch(Finished(live, a, "Failed"), {})

Cancel ==
    /\ Ready
    /\ \E a \in sessions :
        /\ Authenticated(a)
        /\ live.agents[a].status \notin Terminal
        /\ OutstandingChildren(live, a) = {}
        /\ Dispatch(Finished(live, a, "Cancelled"), {})

Retriable_Succeeded == {"Blocked", "Failed", "Cancelled", "Succeeded"}
Retriable == {"Blocked", "Failed", "Cancelled"}

Requeued(s, c) == [s EXCEPT !.tasks[c].status = "Pending", !.agents[c].status = "Dormant"]

Retry ==
    /\ Ready
    /\ \E r \in sessions : RequireActive(r) /\
        \E c \in Children(live, r) :
            /\ live.agents[c].status \in Retriable
            /\ ~FailedDependency(live, c)
            /\ OutstandingChildren(live, c) = {}
            /\ Dispatch(Requeued(live, c), {})

OperationAcknowledged(s) == [s EXCEPT !.acked = @ + 1]

\* validate_operation_transaction: nothing was reconciled beside it.
OwnTransaction(acknowledged, n) == n = acknowledged

\* acknowledge_operation: the acknowledgement runs through prepare_events like
\* a command, and must come out of it as the only event of its transaction.
Acknowledge ==
    /\ mode = "open" /\ live.acked < live.committed
    /\ LET c == OperationAcknowledged(live)
       IN  \E v \in Verdicts(c) :
            LET n == Reconciled(c, v, limit)
            IN  IF Valid(n, limit) /\ Quiescent(n, limit) /\ OwnTransaction(c, n)
                THEN AppendPrepared(n, {})
                ELSE Refuse("acknowledgement refused")
    /\ UNCHANGED limit

-----------------------------------------------------------------------------
(* The process: open, crash.                                                *)

Closed == mode' = "closed" /\ sessions' = {}

\* recover_team under the caller's limit; non-terminal Agents are rebound.
Recoverable_AnyLimit(max) == replay.ok
Recoverable(max) == replay.ok /\ replay.limit <= max

OpenTeam ==
    /\ mode = "closed"
    /\ \E max \in Limits :
        /\ Recoverable(max)
        /\ limit' = max
        /\ live' = durable
        /\ sessions' = {a \in DOMAIN durable.agents : durable.agents[a].status \notin Terminal}
    /\ mode' = "open" /\ reply' = "opened"
    /\ UNCHANGED <<durable, replay>>

\* The process ends, by itself or by a crash: only the Ledger survives.
Crash ==
    /\ mode # "closed"
    /\ live' = EmptyTeam /\ reply' = "none"
    /\ Closed
    /\ UNCHANGED <<durable, limit, replay>>

Init ==
    /\ live = EmptyTeam /\ durable = EmptyTeam
    /\ mode = "closed" /\ limit \in Limits
    /\ sessions = {}
    /\ replay = [limit |-> 1, ok |-> TRUE]
    /\ reply = "none"

Command == AdmitRoot \/ Delegate \/ SendMessage \/ Complete \/ Fail \/ Cancel \/ Retry

Next == Command \/ Acknowledge \/ OpenTeam \/ Crash

Spec == Init /\ [][Next]_vars

-----------------------------------------------------------------------------
(* Properties.                                                              *)

\* Types of the Team's variables.
TypeOK ==
    /\ live \in TeamState /\ durable \in TeamState
    /\ mode \in {"closed", "open", "poisoned"}
    /\ limit \in Limits
    /\ sessions \subseteq DOMAIN live.agents
    /\ replay \in [limit : Nat, ok : BOOLEAN]
    /\ reply \in {"none", "opened", "committed", "ledger error", "command invalid",
                  "acknowledgement refused"}

\* The planning rules are strong enough for the final checks: no command that
\* passes plan_* is thrown out by TeamState::validate or validate_quiescent
\* (paired Task and Agent states, reserved budgets equal to the Delegations,
\* no terminal Agent with a live child, no idle slot beside a Ready Task).
ValidationNeverRefuses == reply # "command invalid"

\* recover accepts every journal the Runtime writes: whatever sequence of
\* limits it was opened with, each transaction replays as quiescent under the
\* running maximum of Active Agents that recover reconstructs.
JournalReplays == replay.ok

\* Authority only narrows along a Delegation chain: scope and Capability
\* Snapshot of an Agent lie within those of each of its ancestors.
AuthorityNarrows ==
    \A a \in DOMAIN live.agents : \A p \in Ancestors(live, a) :
        /\ live.tasks[a].scope \subseteq live.tasks[p].scope
        /\ live.agents[a].caps \subseteq live.agents[p].caps

\* A Task that is Ready, has run or is running had all its dependencies
\* Succeeded, and still has: no requeue takes an input away from a dependent.
InputsSucceeded ==
    \A t \in Ids(live) :
        live.tasks[t].status \in {"Ready", "Running", "Succeeded", "Failed"}
            => DependenciesSucceeded(live, t)

-----------------------------------------------------------------------------
(* What the documentation says and the code does not keep.                  *)

\* docs/agent-orchestration.md: a committed operation blocks new commands until
\* it is acknowledged, and after the Active limit is raised "the next Team
\* command reconciles new capacity": so the acknowledgement must be accepted.
AcknowledgementAccepted == reply # "acknowledgement refused"

\* t cannot end before u does: an unfinished dependency, or a live child.
WaitsFor(s, t, u) ==
    \/ s.tasks[t].status = "Pending" /\ u \in s.tasks[t].deps /\ s.tasks[u].status # "Succeeded"
    \/ s.agents[t].status \notin Terminal /\ u \in OutstandingChildren(s, t)

\* docs/agent-orchestration.md, invariant 4: a delegated Task must not close an
\* implicit cycle, in which descendants wait for Tasks that wait for them.
NoImplicitCycle ==
    ~ \E S \in SUBSET Ids(live) \ {{}} : \A t \in S : \E u \in S : WaitsFor(live, t, u)
=============================================================================
