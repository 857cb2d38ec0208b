---------------------------- MODULE ToolRuntime ----------------------------
(***************************************************************************)
(* The Tool Runtime (greentyper-core tool_runtime.rs) behind the Kernel's   *)
(* three entry points request_tool_call, resolve_tool_call and              *)
(* reconcile_tool_call (runtime.rs).                                        *)
(*                                                                          *)
(* A Tool effect is approved and marked prepared in one durable transaction *)
(* before the executor is invoked, and its outcome is a later transaction:  *)
(* the process can die, or an append can fail, between any two of these.    *)
(* The executor runs outside the Runtime, so resolving a call is several    *)
(* steps of the one thread that owns the Kernel.                            *)
(*                                                                          *)
(* Tool name, argument hash and resource binding travel together and are    *)
(* one payload; Needs gives the capabilities it asks for.  The Team is      *)
(* external: the set of Active Agents and whether an operation awaits its   *)
(* acknowledgement.                                                         *)
(***************************************************************************)
EXTENDS Integers, Sequences, FiniteSets

CONSTANTS
    Identities,  \* caller-chosen call identities
    Agents,
    Payloads,
    Caps,
    Needs,       \* Needs[p]: capabilities payload p requires
    CapsOf,      \* CapsOf[a]: Capability Snapshot of Agent a
    MaxCalls     \* bound: Tool calls ever recorded

ASSUME NeedsAssumption == Needs \in [Payloads -> SUBSET Caps]
ASSUME CapsOfAssumption == CapsOf \in [Agents -> SUBSET Caps]
ASSUME MaxCallsAssumption == MaxCalls \in Nat

VARIABLES
    calls,        \* ToolState::calls as published in memory
    ledger,       \* the calls the Tool Ledger's transactions fold to
    mode,         \* "closed", "open", or "poisoned" after an append error
    step,         \* where the Kernel thread is inside resolve
    tokens,       \* ToolApprovalRequests handed out during this open
    active,       \* external: the Team's Active Agents
    teamPending,  \* external: a Team operation awaits its acknowledgement
    invoked,      \* how often the executor ran for an identity
    reported,     \* what the executor reported for it
    reconciled    \* identities settled by explicit reconciliation

vars == <<calls, ledger, mode, step, tokens, active, teamPending, invoked, reported,
          reconciled>>
process == <<calls, mode, step, tokens>>
world == <<active, teamPending, invoked, reported, reconciled>>

Status == {"AwaitingApproval", "Denied", "ReconciliationRequired", "Succeeded", "Failed"}
Decided == {"Denied", "Succeeded", "Failed"}
Reports == {"Succeeded", "TooLarge", "Failed", "Ambiguous"}

Record == [identity : Identities, agent : Agents, payload : Payloads, status : Status]
Token == [call : Nat, agent : Agents, identity : Identities, payload : Payloads]

Idle == [at |-> "idle", call |-> 0]

-----------------------------------------------------------------------------

Known(cs, i) == {c \in DOMAIN cs : cs[c].identity = i}
PendingReconciliation(cs) == {c \in DOMAIN cs : cs[c].status = "ReconciliationRequired"}

Matches(r, a, p) == r.agent = a /\ r.payload = p

Authorized(a, p) == Needs[p] \subseteq CapsOf[a]

\* append_events_with: the candidate is published on a receipt; an error
\* poisons the writer and leaves the transaction in the Ledger or not.
Appended(candidate) == calls' = candidate /\ ledger' = candidate /\ mode' = mode
AppendFails(candidate) ==
    /\ ledger' \in {ledger, candidate}
    /\ calls' = calls
    /\ mode' = "poisoned"

\* What the Kernel asks before it lets a Tool call in.
KernelAdmits(a) ==
    /\ mode = "open" /\ step = Idle
    /\ PendingReconciliation(calls) = {}
    /\ ~teamPending
    /\ a \in active

-----------------------------------------------------------------------------
(* request_tool_call.                                                       *)

Mint(c, a, i, p) ==
    tokens' = tokens \cup {[call |-> c, agent |-> a, identity |-> i, payload |-> p]}

RequestNew(a, i, p) ==
    LET candidate == Append(calls, [identity |-> i, agent |-> a, payload |-> p,
                                    status |-> "AwaitingApproval"])
    IN  /\ Known(calls, i) = {}
        /\ Len(calls) < MaxCalls
        /\ \/ Appended(candidate) /\ Mint(Len(calls) + 1, a, i, p)
           \/ AppendFails(candidate) /\ UNCHANGED tokens

\* A known identity with the same meaning gets a new approval request while it
\* awaits one; otherwise its record, or IdentityConflict, is returned.
RequestKnown(a, i, p) ==
    /\ \E c \in Known(calls, i) :
        /\ Matches(calls[c], a, p)
        /\ calls[c].status = "AwaitingApproval"
        /\ Mint(c, a, i, p)
    /\ UNCHANGED <<calls, ledger, mode>>

Request ==
    /\ \E a \in Agents, i \in Identities, p \in Payloads :
        /\ KernelAdmits(a)
        /\ Authorized(a, p)
        /\ RequestNew(a, i, p) \/ RequestKnown(a, i, p)
    /\ UNCHANGED <<step, world>>

-----------------------------------------------------------------------------
(* resolve_tool_call.                                                       *)

ValidRequest_AnyStatus(tok) ==
    /\ Authorized(tok.agent, tok.payload)
    /\ tok.call \in DOMAIN calls
    /\ Matches(calls[tok.call], tok.agent, tok.payload)
ValidRequest(tok) ==
    /\ Authorized(tok.agent, tok.payload)
    /\ tok.call \in DOMAIN calls
    /\ calls[tok.call].status = "AwaitingApproval"
    /\ Matches(calls[tok.call], tok.agent, tok.payload)

WithStatus(c, st) == [calls EXCEPT ![c].status = st]

Deny ==
    /\ \E tok \in tokens :
        /\ KernelAdmits(tok.agent) /\ ValidRequest(tok)
        /\ \/ Appended(WithStatus(tok.call, "Denied"))
           \/ AppendFails(WithStatus(tok.call, "Denied"))
    /\ UNCHANGED <<step, tokens, world>>

\* ApprovalGranted and EffectPrepared in one transaction; without its receipt
\* the executor is not reached.
Grant ==
    /\ \E tok \in tokens :
        /\ KernelAdmits(tok.agent) /\ ValidRequest(tok)
        /\ \/ /\ Appended(WithStatus(tok.call, "ReconciliationRequired"))
              /\ step' = [at |-> "execute", call |-> tok.call]
           \/ /\ AppendFails(WithStatus(tok.call, "ReconciliationRequired"))
              /\ step' = step
    /\ UNCHANGED <<tokens, world>>

\* executor.execute: the effect happens, whatever is reported of it.
Execute ==
    /\ step.at = "execute"
    /\ LET i == calls[step.call].identity
       IN  /\ invoked' = [invoked EXCEPT ![i] = @ + 1]
           /\ \E r \in Reports : reported' = [reported EXCEPT ![i] = r]
    /\ step' = [step EXCEPT !.at = "record"]
    /\ UNCHANGED <<calls, ledger, mode, tokens, active, teamPending, reconciled>>

Outcome_TrustsOversized(r) ==
    CASE r \in {"Succeeded", "TooLarge"} -> "Succeeded"
      [] r = "Failed" -> "Failed"
      [] OTHER -> "ReconciliationRequired"
Outcome(r) ==
    CASE r = "Succeeded" -> "Succeeded"
      [] r = "Failed" -> "Failed"
      [] OTHER -> "ReconciliationRequired"

RecordOutcome ==
    /\ step.at = "record"
    /\ LET candidate == WithStatus(step.call, Outcome(reported[calls[step.call].identity]))
       IN  Appended(candidate) \/ AppendFails(candidate)
    /\ step' = Idle
    /\ UNCHANGED <<tokens, world>>

-----------------------------------------------------------------------------
(* reconcile_tool_call: not gated by pending effects or by the Team's       *)
(* acknowledgement, but by the call's own Agent being Active.               *)

Reconcile ==
    /\ mode = "open" /\ step = Idle
    /\ \E c \in PendingReconciliation(calls), st \in {"Succeeded", "Failed"} :
        /\ calls[c].agent \in active
        /\ Authorized(calls[c].agent, calls[c].payload)
        /\ Appended(WithStatus(c, st)) \/ AppendFails(WithStatus(c, st))
        /\ reconciled' = reconciled \cup {calls[c].identity}
    /\ UNCHANGED <<step, tokens, active, teamPending, invoked, reported>>

-----------------------------------------------------------------------------
(* The Team seen from here, and the process.                                *)

\* dispatch_team: gated by the pending effects the process knows of.
TeamCommand ==
    /\ mode # "closed" /\ step = Idle
    /\ PendingReconciliation(calls) = {}
    /\ ~teamPending
    /\ active' \in SUBSET Agents
    /\ teamPending' = TRUE
    /\ UNCHANGED <<process, ledger, invoked, reported, reconciled>>

TeamAcknowledge ==
    /\ mode # "closed" /\ step = Idle
    /\ PendingReconciliation(calls) = {}
    /\ teamPending
    /\ teamPending' = FALSE
    /\ UNCHANGED <<process, ledger, active, invoked, reported, reconciled>>

Open ==
    /\ mode = "closed"
    /\ calls' = ledger
    /\ mode' = "open"
    /\ UNCHANGED <<ledger, step, tokens, world>>

Crash ==
    /\ mode # "closed"
    /\ calls' = <<>> /\ mode' = "closed" /\ step' = Idle /\ tokens' = {}
    /\ UNCHANGED <<ledger, world>>

Init ==
    /\ calls = <<>> /\ ledger = <<>>
    /\ mode = "closed" /\ step = Idle /\ tokens = {}
    /\ active \in SUBSET Agents /\ teamPending = FALSE
    /\ invoked = [i \in Identities |-> 0]
    /\ reported = [i \in Identities |-> "Ambiguous"]
    /\ reconciled = {}

Next ==
    \/ Request \/ Deny \/ Grant \/ Execute \/ RecordOutcome \/ Reconcile
    \/ TeamCommand \/ TeamAcknowledge \/ Open \/ Crash

Spec == Init /\ [][Next]_vars

-----------------------------------------------------------------------------
(* Properties.                                                              *)

\* Types of the Tool Runtime's variables.
TypeOK ==
    /\ calls \in Seq(Record) /\ ledger \in Seq(Record)
    /\ mode \in {"closed", "open", "poisoned"}
    /\ step \in [at : {"idle", "execute", "record"}, call : Nat]
    /\ tokens \subseteq Token
    /\ active \subseteq Agents /\ teamPending \in BOOLEAN
    /\ invoked \in [Identities -> Nat] /\ reported \in [Identities -> Reports]
    /\ reconciled \subseteq Identities

\* The executor runs at most once for an identity, through duplicate approval
\* requests, append errors, crashes at every point of resolve, restarts and
\* reconciliation.
AtMostOnce == \A i \in Identities : invoked[i] <= 1

\* An effect that ran is never forgotten: the Ledger holds its call, past
\* approval and not denied, so a restart finds it.
EffectIsRecorded ==
    \A i \in Identities : invoked[i] > 0 =>
        \E c \in DOMAIN ledger :
            /\ ledger[c].identity = i
            /\ ledger[c].status \notin {"AwaitingApproval", "Denied"}

\* An outcome nobody reconciled by hand is the one the executor reported: a
\* call is Succeeded or Failed only after it ran and said so.
OutcomeIsReported ==
    \A c \in DOMAIN ledger :
        LET i == ledger[c].identity
        IN  ledger[c].status \in {"Succeeded", "Failed"} /\ i \notin reconciled
                => invoked[i] = 1 /\ reported[i] = ledger[c].status

\* One identity names one call, and at most one call at a time is undecided
\* after its effect was prepared.
OneCallPerIdentity ==
    /\ \A c, d \in DOMAIN ledger : ledger[c].identity = ledger[d].identity => c = d
    /\ \A c, d \in PendingReconciliation(ledger) : c = d

-----------------------------------------------------------------------------
(* What the documentation says and the code does not keep.                  *)

\* docs/runtime-kernel.md: "A pending Tool effect blocks new Tool calls, Team
\* commands, and single-Agent execute/resume until explicit reconciliation":
\* so the Agent that alone may reconcile it is still Active.
PendingEffectKeepsItsAgent ==
    \A c \in PendingReconciliation(ledger) : ledger[c].agent \in active
=============================================================================
