--------------------------- MODULE RuntimeKernel ---------------------------
(***************************************************************************)
(* The Turn lifecycle of the Runtime Kernel (greentyper-core runtime.rs):   *)
(* admission with a frozen fallback chain, the Usage Attempts that bracket  *)
(* every Provider request, early failures and candidate switches, one Tool  *)
(* call with its continuation, prepared output and its acknowledgement,     *)
(* cancel, retry and resume, a staged Model selection, Context checkpoints. *)
(*                                                                          *)
(* Every commit applies its events to a copy of the fold and publishes the  *)
(* copy on the Ledger's receipt; the process can die, or a commit fail,     *)
(* between any two commits of a call.  One thread owns the Kernel, so a     *)
(* call is a sequence of steps of that thread and step says where it is.    *)
(*                                                                          *)
(* A Turn's number is its identifier and the pending Turn is always the     *)
(* last.  Config and Provider Epochs are frozen together, one pair per      *)
(* candidate, so a candidate's position in the chain names its pair, and    *)
(* config is the fingerprint of the primary one.  Team and Tool Runtime are *)
(* external here (modules AgentTeam and ToolRuntime).                       *)
(***************************************************************************)
EXTENDS Integers, Sequences, FiniteSets

CONSTANTS
    Agents,
    Nobody,       \* the single-Agent interface: a call without a Session
    Configs,      \* Config fingerprints
    CallIds,      \* call identifiers a Provider may choose
    FailureStages,  \* stages at which a Provider request may fail
    MaxChain,     \* bound: fallback candidates of a Turn
    MaxTurns,     \* bound: Turns ever admitted
    MaxAttempts,  \* bound: Usage Attempts of one Turn
    MaxHead       \* bound: Ledger head at which staging and checkpoints stop

ASSUME NobodyAssumption == Nobody \notin Agents
ASSUME StagesAssumption ==
    FailureStages \subseteq {"none", "BeforeResponse", "BeforeFirstEvent", "AfterFirstEvent"}
ASSUME ChainAssumption == MaxChain \in Nat
ASSUME KernelBoundsAssumption == MaxTurns \in Nat /\ MaxAttempts \in Nat /\ MaxHead \in Nat

VARIABLES
    live,       \* RuntimeKernel::state
    durable,    \* the state the Runtime Ledger replays to
    mode,       \* "closed", "open", or "poisoned" after a failed commit
    step,       \* where the Kernel thread is
    approvals,  \* ProviderToolApprovals the caller holds
    draft,      \* the ContextCheckpointDraft the caller holds, if any
    tools,      \* external: the Tool Ledger's record of each call
    active,     \* external: Active Agents
    teamBusy,   \* external: a Team operation awaits its acknowledgement
    sent        \* Provider requests sent for each Turn

vars == <<live, durable, mode, step, approvals, draft, tools, active, teamBusy, sent>>
team == <<active, teamBusy>>

Stages == {"none", "BeforeResponse", "BeforeFirstEvent", "AfterFirstEvent"}
Early == {"BeforeResponse", "BeforeFirstEvent"}
Callers == Agents \cup {Nobody}
Ran == {"ReconciliationRequired", "Succeeded", "Failed"}
ToolStatus == {"absent", "AwaitingApproval", "Denied"} \cup Ran

Attempt == [candidate : 0..MaxChain, kind : {"initial", "continuation"},
            outcome : {"open", "Succeeded", "Failed", "Interrupted"}, stage : Stages]
Turn == [agent : Callers, config : Configs, chain : 0..MaxChain, delivery : Nat,
         ending : {"none", "completed", "cancelled"}, attempts : Seq(Attempt)]
Pending == [phase : {"None", "Admitted", "Prepared", "Blocked"}, candidate : 0..MaxChain,
            origin : {"none", "Provider", "Other"}, stage : Stages]
Item == [turn : Nat, role : {"User", "Assistant"}]
RuntimeState == [turns : Seq(Turn), pending : Pending, items : Seq(Item), acknowledged : SUBSET Nat,
                 staged : SUBSET [agent : Agents, config : Configs],
                 checkpoint : SUBSET [source : Nat, at : Nat], head : Nat]

NoPending == [phase |-> "None", candidate |-> 0, origin |-> "none", stage |-> "none"]
EmptyState == [turns |-> <<>>, pending |-> NoPending, items |-> <<>>, acknowledged |-> {},
               staged |-> {}, checkpoint |-> {}, head |-> 0]

Idle == [at |-> "idle", turn |-> 0, kind |-> "initial", who |-> Nobody, loop |-> FALSE,
         call |-> "none"]

-----------------------------------------------------------------------------
(* The fold: what the events of a transaction do to a state.                *)

Current(s) == Len(s.turns)
Attempts(s) == s.turns[Current(s)].attempts
HasOpen(s) == Attempts(s) # <<>> /\ Attempts(s)[Len(Attempts(s))].outcome = "open"

\* UsageAttemptFinished with its cost evaluation.
Closed(s, outcome, stage) ==
    [s EXCEPT !.turns[Current(s)].attempts[Len(Attempts(s))] =
        [@ EXCEPT !.outcome = outcome, !.stage = stage]]

\* UsageAttemptStarted, after closing the attempt a dead process left open.
Started(s, kind) ==
    LET c == IF HasOpen(s) THEN Closed(s, "Interrupted", "none") ELSE s
    IN  [c EXCEPT !.turns[Current(s)].attempts =
            Append(@, [candidate |-> s.pending.candidate, kind |-> kind, outcome |-> "open",
                       stage |-> "none"])]

\* TurnBlocked.
Blocked(s, origin, stage) ==
    [s EXCEPT !.pending = [@ EXCEPT !.phase = "Blocked", !.origin = origin, !.stage = stage]]

\* AssistantItemStarted, its deltas and OutputPrepared.
Deliveries(s) == Cardinality({t \in DOMAIN s.turns : s.turns[t].delivery # 0})
Prepared(s) ==
    [s EXCEPT !.pending.phase = "Prepared",
              !.items = Append(@, [turn |-> Current(s), role |-> "Assistant"]),
              !.turns[Current(s)].delivery = Deliveries(s) + 1]

\* OutputAcknowledged and TurnCompleted.
Acknowledged_StaysPending(s) ==
    [s EXCEPT !.acknowledged = @ \cup {s.turns[Current(s)].delivery},
              !.turns[Current(s)].ending = "completed"]
Acknowledged(s) ==
    [s EXCEPT !.acknowledged = @ \cup {s.turns[Current(s)].delivery},
              !.turns[Current(s)].ending = "completed",
              !.pending = NoPending]

\* TurnCancelled: the Turn and its attempts stay in the history.
Cancelled(s) == [s EXCEPT !.turns[Current(s)].ending = "cancelled", !.pending = NoPending]

\* TurnRetryRequested.
Rearmed(s) == [s EXCEPT !.pending = [NoPending EXCEPT !.phase = "Admitted",
                                                     !.candidate = s.pending.candidate]]

\* ProviderFallbackRequested.
Advanced_SameCandidate(s) == Rearmed(s)
Advanced(s) == [Rearmed(s) EXCEPT !.pending.candidate = @ + 1]

Retryable(s) ==
    /\ s.pending.phase = "Blocked" /\ s.pending.origin = "Provider"
    /\ s.pending.stage \in Early

MoreCandidates(s) == s.pending.candidate < s.turns[Current(s)].chain

\* ConfigFrozen and ProviderFrozen for each candidate, then TurnAdmitted.
Admitted(s, who, config, chain) ==
    [s EXCEPT !.turns = Append(@, [agent |-> who, config |-> config, chain |-> chain,
                                   delivery |-> 0, ending |-> "none", attempts |-> <<>>]),
              !.items = Append(@, [turn |-> Current(s) + 1, role |-> "User"]),
              !.pending = [NoPending EXCEPT !.phase = "Admitted"],
              !.staged = {}]

-----------------------------------------------------------------------------
(* Gates.                                                                   *)

ToolPending == {i \in DOMAIN tools : tools[i].status = "ReconciliationRequired"}
RequireReady == live.pending.phase = "None"

\* require_provider_session for a Session, nothing for the plain interface.
Admissible(who) ==
    /\ ToolPending = {}
    /\ who \in Agents => who \in active /\ ~teamBusy

SafeBarrier ==
    /\ RequireReady
    /\ ToolPending = {} /\ \A i \in DOMAIN tools : tools[i].status # "AwaitingApproval"
    /\ ~teamBusy

\* The pending Turn is t and may be driven.
Drivable_AnyPhase(t) == Current(live) = t /\ live.pending.phase # "None"
Drivable(t) == Current(live) = t /\ live.pending.phase = "Admitted"

\* Attempts that a call entered now can still make stay within the bound.
Room == Len(Attempts(live)) + live.turns[Current(live)].chain - live.pending.candidate < MaxAttempts

\* commit: validate_quiescent is the invariant FoldIsQuiescent rather than a
\* guard here.  A poisoned writer refuses every further append.
Commit(s, next) ==
    LET n == [s EXCEPT !.head = @ + 1]
    IN  \/ /\ mode = "open"
           /\ live' = n /\ durable' = n /\ step' = next /\ mode' = mode
        \/ /\ durable' \in IF mode = "open" THEN {durable, n} ELSE {durable}
           /\ live' = live /\ step' = Idle /\ mode' = "poisoned"

Called == mode = "open" /\ step = Idle

-----------------------------------------------------------------------------
(* Between Turns.                                                           *)

Stage ==
    /\ Called /\ live.head < MaxHead
    /\ RequireReady
    /\ \E a \in Agents, c \in Configs :
        /\ Admissible(a)
        /\ \A q \in live.staged : q.agent = a
        /\ Commit([live EXCEPT !.staged = {[agent |-> a, config |-> c]}], Idle)
    /\ UNCHANGED <<approvals, draft, tools, team, sent>>

PrepareCheckpoint ==
    /\ Called /\ SafeBarrier
    /\ draft' = {live.head}
    /\ UNCHANGED <<live, durable, mode, step, approvals, tools, team, sent>>

PublishCheckpoint ==
    /\ Called /\ SafeBarrier /\ live.head < MaxHead
    /\ \E h \in draft :
        /\ h = live.head
        /\ Commit([live EXCEPT !.checkpoint = {[source |-> h, at |-> live.head + 1]}], Idle)
    /\ draft' = {}
    /\ UNCHANGED <<approvals, tools, team, sent>>

\* A staged selection admits only its Agent, under its Config.
MatchesStaged_AnyAgent(who, config) == \A q \in live.staged : q.config = config
MatchesStaged(who, config) == \A q \in live.staged : q.agent = who /\ q.config = config

Admit ==
    /\ Called /\ Current(live) < MaxTurns
    /\ RequireReady
    /\ \E who \in Callers, config \in Configs, chain \in 0..MaxChain :
        /\ Admissible(who) /\ MatchesStaged(who, config)
        /\ chain < MaxAttempts
        /\ Commit(Admitted(live, who, config, chain),
                  [Idle EXCEPT !.at = "begin", !.turn = Current(live) + 1, !.who = who,
                               !.loop = TRUE])
    /\ UNCHANGED <<approvals, draft, tools, team, sent>>

-----------------------------------------------------------------------------
(* Driving the pending Turn: drive_pending, drive_provider_turn, and the    *)
(* continuation of resolve_provider_tool_call.                              *)

\* begin_usage_attempt; the request goes out on its receipt.
Begin ==
    /\ step.at = "begin"
    /\ Drivable(step.turn) /\ Len(Attempts(live)) < MaxAttempts
    /\ Commit(Started(live, step.kind), [step EXCEPT !.at = "provider"])
    /\ sent' = IF mode' = "open" THEN [sent EXCEPT ![step.turn] = @ + 1] ELSE sent
    /\ UNCHANGED <<approvals, draft, tools, team>>

\* Busy: the Turn a held approval belongs to is no longer drivable.
BeginRefused ==
    /\ step.at = "begin" /\ ~Drivable(step.turn)
    /\ step' = Idle
    /\ UNCHANGED <<live, durable, mode, approvals, draft, tools, team, sent>>

\* A Provider error with its stage; "none" also stands for malformed events.
\* After a Tool the stage is not kept, so the block is not retryable.
BlockingStage_Kept(kind, stage) == stage
BlockingStage(kind, stage) == IF kind = "initial" THEN stage ELSE "none"

ProviderFails ==
    /\ step.at = "provider"
    /\ \E stage \in FailureStages :
        Commit(Blocked(Closed(live, "Failed", stage), "Provider", BlockingStage(step.kind, stage)),
               IF step.loop /\ step.kind = "initial" THEN [step EXCEPT !.at = "advance"] ELSE Idle)
    /\ UNCHANGED <<approvals, draft, tools, team, sent>>

ProviderCompletes ==
    /\ step.at = "provider"
    /\ Commit(Prepared(Closed(live, "Succeeded", "none")), Idle)
    /\ UNCHANGED <<approvals, draft, tools, team, sent>>

\* Output the Kernel rejects: a Tool call through the text interface or in a
\* continuation, or combined text beyond the frozen limit.
ProviderRejected ==
    /\ step.at = "provider"
    /\ step.who = Nobody \/ step.kind = "continuation"
    /\ Commit(Blocked(Closed(live, "Succeeded", "none"), "Provider", "none"), Idle)
    /\ UNCHANGED <<approvals, draft, tools, team, sent>>

ProviderCallsTool ==
    /\ step.at = "provider" /\ step.who # Nobody /\ step.kind = "initial"
    /\ \E c \in CallIds :
        Commit(Closed(live, "Succeeded", "none"), [step EXCEPT !.at = "tool", !.call = c])
    /\ UNCHANGED <<approvals, draft, tools, team, sent>>

\* The loop over the candidates: advance_provider_fallback.
AdvanceFallback ==
    /\ step.at = "advance"
    /\ Retryable(live) /\ MoreCandidates(live)
    /\ Commit(Advanced(live), [step EXCEPT !.at = "begin"])
    /\ UNCHANGED <<approvals, draft, tools, team, sent>>

NoFallback ==
    /\ step.at = "advance"
    /\ ~(Retryable(live) /\ MoreCandidates(live))
    /\ step' = Idle
    /\ UNCHANGED <<live, durable, mode, approvals, draft, tools, team, sent>>

-----------------------------------------------------------------------------
(* The Tool call of a Turn.                                                 *)

\* provider_tool_identity: the Turn and the Provider's own call identifier.
Identity(t, c) == <<t, c>>

\* request_tool_call answers with an approval request for a new or waiting call.
ToolRequested ==
    /\ step.at = "tool" /\ Admissible(step.who)
    /\ LET i == Identity(step.turn, step.call)
       IN  /\ \/ tools[i].status = "absent"
              \/ tools[i].status = "AwaitingApproval" /\ tools[i].agent = step.who
           /\ tools' = [tools EXCEPT ![i] = [status |-> "AwaitingApproval", agent |-> step.who]]
           /\ approvals' = approvals \cup {[turn |-> step.turn, call |-> step.call,
                                            who |-> step.who]}
    /\ step' = Idle
    /\ UNCHANGED <<live, durable, mode, draft, team, sent>>

\* Refused by the Tool Runtime (authority, identity, pending effect): an error
\* that leaves the Turn resumable.
ToolRefused ==
    /\ step.at = "tool"
    /\ step' = Idle
    /\ UNCHANGED <<live, durable, mode, approvals, draft, tools, team, sent>>

\* Bad arguments, resources or intent, or a call that already ended.
ToolUnusable ==
    /\ step.at = "tool"
    /\ step' = [step EXCEPT !.at = "block"]
    /\ UNCHANGED <<live, durable, mode, approvals, draft, tools, team, sent>>

\* resolve_provider_tool_call up to the Tool's durable outcome.
ResolveTool ==
    /\ mode # "closed" /\ step = Idle
    /\ \E ap \in approvals :
        LET i == Identity(ap.turn, ap.call)
            to(at) == [Idle EXCEPT !.at = at, !.turn = ap.turn, !.who = ap.who,
                                   !.kind = "continuation"]
        IN  /\ approvals' = approvals \ {ap}
            /\ \/ /\ Admissible(ap.who) /\ tools[i].status = "AwaitingApproval"
                  /\ Current(live) = ap.turn => Len(Attempts(live)) < MaxAttempts
                  /\ \E st \in Ran \cup {"Denied"} :
                      /\ tools' = [tools EXCEPT ![i].status = st]
                      /\ step' \in CASE st = "Succeeded" -> {to("begin"), to("block")}
                                     [] st = "ReconciliationRequired" -> {Idle}
                                     [] OTHER -> {to("block")}
               \/ UNCHANGED <<tools, step>>
    /\ UNCHANGED <<live, durable, mode, draft, team, sent>>

\* block_pending, refused by the fold unless the Turn is still Admitted.
BlockPending ==
    /\ step.at = "block"
    /\ IF Drivable(step.turn) /\ ~HasOpen(live)
       THEN Commit(Blocked(live, "Other", "none"), Idle)
       ELSE step' = Idle /\ UNCHANGED <<live, durable, mode>>
    /\ UNCHANGED <<approvals, draft, tools, team, sent>>

\* reconcile_tool_call.
ReconcileTool ==
    /\ mode # "closed" /\ step = Idle
    /\ \E i \in ToolPending, st \in {"Succeeded", "Failed"} :
        /\ tools[i].agent \in active
        /\ tools' = [tools EXCEPT ![i].status = st]
    /\ UNCHANGED <<live, durable, mode, step, approvals, draft, team, sent>>

-----------------------------------------------------------------------------
(* Recovery of a pending Turn.                                              *)

\* resume and resume_provider_turn: neither asks who owns the Turn.
Resume ==
    /\ Called
    /\ Drivable(Current(live)) /\ Room
    /\ \E who \in Callers :
        /\ Admissible(who)
        /\ step' = [Idle EXCEPT !.at = "begin", !.turn = Current(live), !.who = who]
    /\ UNCHANGED <<live, durable, mode, approvals, draft, tools, team, sent>>

OwnedBy(who) == live.turns[Current(live)].agent = who

Retry ==
    /\ Called
    /\ Retryable(live) /\ Room
    /\ \E who \in Callers :
        /\ Admissible(who) /\ OwnedBy(who)
        /\ Commit(Rearmed(live), Idle)
    /\ UNCHANGED <<approvals, draft, tools, team, sent>>

\* request_blocked_turn_recovery: the next candidate first, else a retry.
Recover ==
    /\ Called
    /\ Retryable(live) /\ Room
    /\ \E who \in Callers :
        /\ Admissible(who) /\ OwnedBy(who)
        /\ Commit(IF MoreCandidates(live) THEN Advanced(live) ELSE Rearmed(live), Idle)
    /\ UNCHANGED <<approvals, draft, tools, team, sent>>

\* The plain interface cancels without looking at pending Tool effects.
Cancel ==
    /\ Called
    /\ live.pending.phase = "Blocked" /\ live.pending.origin = "Provider"
    /\ \E who \in Callers :
        /\ who \in Agents => Admissible(who)
        /\ OwnedBy(who)
        /\ Commit(Cancelled(live), Idle)
    /\ UNCHANGED <<approvals, draft, tools, team, sent>>

Acknowledge ==
    /\ Called
    /\ live.pending.phase = "Prepared"
    /\ Commit(Acknowledged(live), Idle)
    /\ UNCHANGED <<approvals, draft, tools, team, sent>>

-----------------------------------------------------------------------------
(* The Team as the Kernel gates it, and the process.                        *)

TeamCommand ==
    /\ mode # "closed" /\ step = Idle
    /\ ToolPending = {} /\ RequireReady /\ ~teamBusy
    /\ active' \in SUBSET Agents
    /\ teamBusy' = TRUE
    /\ UNCHANGED <<live, durable, mode, step, approvals, draft, tools, sent>>

TeamAcknowledge ==
    /\ mode # "closed" /\ step = Idle
    /\ ToolPending = {} /\ RequireReady /\ teamBusy
    /\ teamBusy' = FALSE
    /\ UNCHANGED <<live, durable, mode, step, approvals, draft, tools, active, sent>>

Open ==
    /\ mode = "closed"
    /\ live' = durable /\ mode' = "open"
    /\ UNCHANGED <<durable, step, approvals, draft, tools, team, sent>>

Crash ==
    /\ mode # "closed"
    /\ mode' = "closed" /\ live' = EmptyState /\ step' = Idle
    /\ approvals' = {} /\ draft' = {}
    /\ UNCHANGED <<durable, tools, team, sent>>

Init ==
    /\ live = EmptyState /\ durable = EmptyState
    /\ mode = "closed" /\ step = Idle /\ approvals = {} /\ draft = {}
    /\ tools = [i \in (1..MaxTurns) \X CallIds |-> [status |-> "absent", agent |-> Nobody]]
    /\ active \in SUBSET Agents /\ teamBusy = FALSE
    /\ sent = [t \in 1..MaxTurns |-> 0]

\* What the Kernel thread does inside a call.
Thread ==
    \/ Begin \/ BeginRefused \/ ProviderFails \/ ProviderCompletes \/ ProviderRejected
    \/ ProviderCallsTool \/ AdvanceFallback \/ NoFallback
    \/ ToolRequested \/ ToolRefused \/ ToolUnusable \/ BlockPending

\* What a caller asks for, and the world.
Call ==
    \/ Stage \/ PrepareCheckpoint \/ PublishCheckpoint \/ Admit \/ ResolveTool \/ ReconcileTool
    \/ Resume \/ Retry \/ Recover \/ Cancel \/ Acknowledge
    \/ TeamCommand \/ TeamAcknowledge \/ Open \/ Crash

Next == Thread \/ Call

Spec == Init /\ [][Next]_vars

\* A call that was entered goes on: the Provider answers or times out.
FairSpec == Spec /\ WF_vars(Thread)

-----------------------------------------------------------------------------
(* Properties.                                                              *)

\* Types of the Kernel's variables.
TypeOK ==
    /\ live \in RuntimeState /\ durable \in RuntimeState
    /\ mode \in {"closed", "open", "poisoned"}
    /\ step \in [at : {"idle", "begin", "provider", "advance", "tool", "block"}, turn : Nat,
                 kind : {"initial", "continuation"}, who : Callers, loop : BOOLEAN,
                 call : CallIds \cup {"none"}]
    /\ approvals \subseteq [turn : Nat, call : CallIds, who : Agents]
    /\ draft \subseteq Nat
    /\ tools \in [(1..MaxTurns) \X CallIds -> [status : ToolStatus, agent : Callers]]
    /\ active \subseteq Agents /\ teamBusy \in BOOLEAN
    /\ sent \in [1..MaxTurns -> Nat]

Ended(t) == durable.turns[t].ending # "none"

\* validate_quiescent never refuses what the Kernel commits, so every Ledger it
\* writes replays: exactly the unended Turn is pending, a completed Turn has
\* an acknowledged delivery, a cancelled one no output, each Turn one user
\* Item, and the pending Turn's user Item is the newest (pending_provider_context).
FoldIsQuiescent ==
    LET s == durable
    IN  /\ \A t \in DOMAIN s.turns :
            /\ Ended(t) <=> (t # Current(s) \/ s.pending.phase = "None")
            /\ s.turns[t].ending = "completed" =>
                s.turns[t].delivery # 0 /\ s.turns[t].delivery \in s.acknowledged
            /\ s.turns[t].ending = "cancelled" => s.turns[t].delivery = 0
            /\ \A k, m \in DOMAIN s.items :
                s.items[k] = s.items[m] /\ s.items[k].turn = t => k = m
        /\ s.pending.phase \in {"Admitted", "Blocked"} =>
            s.items[Len(s.items)] = [turn |-> Current(s), role |-> "User"]

\* A Provider request leaves only after its Usage Attempt is durable, at most
\* the newest attempt is open, and none is once the Turn is blocked, prepared
\* or ended.
RequestsAreBracketed ==
    \A t \in DOMAIN sent :
        /\ t \notin DOMAIN durable.turns => sent[t] = 0
        /\ t \in DOMAIN durable.turns =>
            LET xs == durable.turns[t].attempts
            IN  /\ sent[t] <= Len(xs)
                /\ \A k \in DOMAIN xs : xs[k].outcome = "open" =>
                    /\ k = Len(xs) /\ t = Current(durable)
                    /\ durable.pending.phase = "Admitted"

\* Candidates are tried in order, and one is left only right after it failed
\* before its first event.
SwitchOnlyAfterEarlyFailure ==
    \A t \in DOMAIN durable.turns :
        LET xs == durable.turns[t].attempts
        IN  /\ xs # <<>> => xs[1].candidate = 0
            /\ \A k \in 1..Len(xs) - 1 : xs[k + 1].candidate # xs[k].candidate =>
                /\ xs[k + 1].candidate = xs[k].candidate + 1
                /\ xs[k].outcome = "Failed" /\ xs[k].stage \in Early

\* After a failure past the first event, malformed output, or any failure of a
\* continuation, no further request is ever made for the Turn.
LateFailureIsFinal ==
    \A t \in DOMAIN durable.turns :
        LET xs == durable.turns[t].attempts
        IN  \A k \in DOMAIN xs :
                /\ xs[k].outcome = "Failed"
                /\ xs[k].stage \notin Early \/ xs[k].kind = "continuation"
                => k = Len(xs)

\* The attempts of a Turn, over its whole fallback chain, its retries and its
\* crashes: each request is covered by a durable attempt, candidates change only
\* after an early failure, and a late failure is the last attempt.
AttemptsAreSafe == RequestsAreBracketed /\ SwitchOnlyAfterEarlyFailure /\ LateFailureIsFinal

\* Prepared output is never replaced and its Turn never runs again, whatever
\* approvals and retries are still around.
OutputIsFinal ==
    [][\A t \in DOMAIN durable.turns : durable.turns[t].delivery # 0 =>
        /\ durable'.turns[t].delivery = durable.turns[t].delivery
        /\ durable'.turns[t].attempts = durable.turns[t].attempts]_vars

\* A staged selection is given up only to a Turn of its Agent under its Config,
\* or replaced by the same Agent.
StagedGoesToItsTurn ==
    [][\A q \in durable.staged : q \notin durable'.staged =>
        \/ \E r \in durable'.staged : r.agent = q.agent
        \/ /\ Current(durable') = Current(durable) + 1
           /\ durable'.turns[Current(durable')].agent = q.agent
           /\ durable'.turns[Current(durable')].config = q.config]_vars

\* A call that drives a Turn comes back, through its whole fallback chain.
DriveReturns == step.at # "idle" ~> step.at = "idle"

-----------------------------------------------------------------------------
(* What the documentation says and the code does not keep.                  *)

RanCalls(t) == {c \in CallIds : tools[Identity(t, c)].status \in Ran}

\* docs/runtime-kernel.md: execution "never switches after the first event,
\* malformed output, Tool-derived state, or a post-Tool continuation failure".
ToolTurnKeepsItsCandidate ==
    [][\A t \in DOMAIN durable.turns :
        /\ t = Current(durable) /\ t = Current(durable')
        /\ RanCalls(t) # {} /\ durable'.pending.phase # "None"
        => durable'.pending.candidate = durable.pending.candidate]_vars
=============================================================================
