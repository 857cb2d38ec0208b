---------------------------- MODULE ContextView ----------------------------
(***************************************************************************)
(* What of a conversation reaches a Provider (greentyper-core context.rs    *)
(* and its callers in runtime.rs): Items accumulate, checkpoints replace    *)
(* the older ones by references, Context Pressure decides whether a Turn    *)
(* is admitted, and every request of a Turn is projected anew from the      *)
(* Items and the latest checkpoint.  A text is its length in bytes and the  *)
(* number of its Item: digests are taken to be injective.                   *)
(***************************************************************************)
EXTENDS Integers, Sequences, SequencesExt

CONSTANTS
    MaxViewItems,       \* MAX_CONTEXT_VIEW_ITEMS
    MaxViewBytes,       \* MAX_CONTEXT_VIEW_BYTES
    TokenBytes,         \* characters per estimated token, 4
    TextSizes,          \* bound: lengths of texts
    DefaultPolicy,      \* the default ContextReductionPolicy
    ChosenPolicies,     \* bound: [bytes, items] asked for by `context reduce`
    PressureInputs,     \* bound: [limit, used, reserve], each a number or Unreported
    SoftPercent,        \* ContextPressurePolicy
    HardPercent,
    MaxTokenSum,        \* u64::MAX
    MaxTurnItems        \* bound: Items ever made

Unreported == -1

ASSUME ContextAssumption ==
    /\ {SoftPercent, HardPercent, MaxTokenSum} \subseteq Nat
    /\ 0 < SoftPercent /\ SoftPercent < HardPercent /\ HardPercent <= 100
    /\ {MaxViewItems, MaxViewBytes, TokenBytes} \subseteq Nat \ {0} /\ TextSizes \subseteq Nat
    /\ \A policy \in ChosenPolicies \cup {DefaultPolicy} :
          policy.bytes \in 1..MaxViewBytes /\ policy.items \in 1..MaxViewItems
    /\ \A input \in PressureInputs :
          {input.limit, input.used, input.reserve} \subseteq Nat \cup {Unreported}

VARIABLES
    items,      \* RuntimeState::items
    checkpoint, \* RuntimeState::context_checkpoint, or NoView
    turn,       \* "Ready", "Pressed" (between its two commits), "Admitted" or "Reconcile"
    prepared,   \* the ContextCheckpointDraft a caller holds, or NoView
    moved,      \* whether the Ledger head moved since it was prepared
    pressure,   \* the ContextPressureSnapshot of the call in progress
    asked       \* ghost: the views sent for the pending Turn

context_vars == <<items, checkpoint, turn, prepared, moved, pressure, asked>>

-----------------------------------------------------------------------------
(* ContextPressure::project.                                                *)

NoPressure == [state |-> "Unknown", admission |-> "Unknown", percent |-> -1]
project(input) ==
    LET projected == input.used + input.reserve
        scaled == projected * 100
        percent == IF scaled \div input.limit < 100 THEN scaled \div input.limit ELSE 100
    IN  IF input.limit = 0 THEN [state |-> "Error"]
        ELSE IF Unreported \in {input.limit, input.used, input.reserve} THEN NoPressure
        ELSE IF projected > MaxTokenSum THEN [state |-> "Error"]
        ELSE CASE scaled >= input.limit * HardPercent ->
                    [state |-> "Hard", admission |-> "Stop", percent |-> percent]
               [] scaled >= input.limit * SoftPercent /\ scaled < input.limit * HardPercent ->
                    [state |-> "Soft", admission |-> "Reduce", percent |-> percent]
               [] OTHER -> [state |-> "Normal", admission |-> "Allow", percent |-> percent]

-----------------------------------------------------------------------------
(* Views.  A reference and an Item of a view are both the Item they show:   *)
(* comparing a reference with its Item compares all of its fields.          *)

NoView == [kind |-> "none"]
Refused(error) == [kind |-> "error", error |-> error]
IsView(view) == view.kind = "view"

from_item(id, number, role, bytes) ==
    LET tokens == (bytes + TokenBytes - 1) \div TokenBytes
    IN  [id |-> id, turn |-> number, role |-> role, bytes |-> bytes, tokens |-> IF tokens < 1 THEN 1 ELSE tokens]

raw_bytes(s) == FoldLeft(LAMBDA sum, item : sum + item.bytes, 0, s)
estimated_tokens(s) == FoldLeft(LAMBDA sum, item : sum + item.tokens, 0, s)
Increasing(s) == \A i \in 2..Len(s) : s[i - 1].id < s[i].id

\* Assistant Items before the first User Item are left out of a request.
FirstUser(s) ==
    IF \E i \in DOMAIN s : s[i].role = "User"
    THEN SelectInSeq(s, LAMBDA item : item.role = "User") ELSE Len(s) + 1
RequestView(omitted, s) ==
    LET start == FirstUser(s)
        shown == SubSeq(s, start, Len(s))
    IN  [kind |-> "view", archived |-> omitted + start - 1, shown |-> shown,
         bytes |-> raw_bytes(shown), tokens |-> estimated_tokens(shown)]

\* ContextView::from_items and ContextRequestView::from_items.
request_from_items(history) ==
    IF Len(history) > MaxViewItems THEN Refused("TooManyItems")
    ELSE IF ~Increasing(history) THEN Refused("InvalidStoredView")
    ELSE IF raw_bytes(history) > MaxViewBytes THEN Refused("ViewTooLarge")
    ELSE RequestView(0, history)

\* Fault: a too large Item is stepped over, and smaller ones before it kept.
RecentItems_Skipping(history, policy) ==
    SelectSeq(SubSeq(history, IF Len(history) > policy.items THEN Len(history) - policy.items + 1 ELSE 1,
                     Len(history)),
              LAMBDA item : item.bytes <= policy.bytes)
\* The longest end of the history within both limits of the policy.
RecentItems(history, policy) ==
    LET End(n) == SubSeq(history, Len(history) - n + 1, Len(history))
        fits == {n \in 0..Len(history) : n <= policy.items /\ raw_bytes(End(n)) <= policy.bytes}
    IN  End(CHOOSE n \in fits : \A m \in fits : m <= n)

\* ReducedContextView::from_stored: what a checkpoint must be, when it is
\* built and when it is decoded.
from_stored(artifacts, recent) ==
    IF Len(artifacts) + Len(recent) > MaxViewItems THEN Refused("TooManyItems")
    ELSE IF ~Increasing(artifacts \o recent) THEN Refused("InvalidStoredView")
    ELSE IF raw_bytes(recent) > MaxViewBytes THEN Refused("ViewTooLarge")
    ELSE [kind |-> "view", artifacts |-> artifacts, recent |-> recent]

\* ReducedContextView::from_items.
reduced_from_items(history, policy) ==
    LET recent == RecentItems(history, policy)
    IN  IF Len(history) > MaxViewItems THEN Refused("TooManyItems")
        ELSE from_stored(SubSeq(history, 1, Len(history) - Len(recent)), recent)

validate_against_items(view, history) == view.artifacts \o view.recent = history

\* materialize_request: the checkpoint's end of the history, and what was
\* said since.
materialize_request(view, history) ==
    LET covered == Len(view.artifacts) + Len(view.recent)
        request == RequestView(Len(view.artifacts),
                               view.recent \o SubSeq(history, covered + 1, Len(history)))
    IN  IF Len(history) > MaxViewItems THEN Refused("TooManyItems")
        ELSE IF Len(history) < covered \/ ~validate_against_items(view, SubSeq(history, 1, covered))
        THEN Refused("ArtifactMismatch")
        ELSE IF ~Increasing(history) THEN Refused("InvalidStoredView")
        ELSE IF request.bytes > MaxViewBytes THEN Refused("ViewTooLarge")
        ELSE request

provider_context_for_history(history) ==
    IF history = <<>> THEN RequestView(0, <<>>)
    ELSE IF checkpoint # NoView THEN materialize_request(checkpoint, history)
    ELSE request_from_items(history)

\* The Items before the pending Turn's own; context_history_for_preview.
History == IF turn \in {"Admitted", "Reconcile"}
           THEN SubSeq(items, 1, (CHOOSE i \in DOMAIN items :
                                    /\ items[i].role = "User"
                                    /\ \A j \in DOMAIN items : items[j].role = "User" => j <= i) - 1)
           ELSE items
preview_from_state ==
    IF checkpoint # NoView THEN materialize_request(checkpoint, History)
    ELSE request_from_items(History)

-----------------------------------------------------------------------------
(* The Kernel's operations on them.  Every commit is a step.                *)

Commit == moved' = (prepared # NoView)
CanSay == Len(items) < MaxTurnItems
Said(role, bytes) ==
    LET number == IF role = "Assistant" THEN items[Len(items)].turn
                  ELSE IF items = <<>> THEN 1 ELSE items[Len(items)].turn + 1
    IN  Append(items, from_item(Len(items) + 1, number, role, bytes))

\* prepare_context_checkpoint and publish_context_checkpoint (`context
\* reduce`, context.reduce); the second may come after other commits.
PrepareReduction(policy) ==
    LET view == reduced_from_items(items, policy) IN
    /\ turn = "Ready" /\ IsView(view)
    /\ prepared' = view /\ moved' = FALSE
    /\ UNCHANGED <<items, checkpoint, turn, pressure, asked>>
PublishReduction ==
    /\ turn = "Ready" /\ prepared # NoView
    /\ checkpoint' = IF ~moved /\ validate_against_items(prepared, items) THEN prepared ELSE checkpoint
    /\ prepared' = NoView /\ moved' = FALSE
    /\ UNCHANGED <<items, turn, pressure, asked>>

\* execute_with_context_pressure: soft pressure publishes a checkpoint first.
Press(input) ==
    LET snapshot == project(input)
        view == reduced_from_items(items, DefaultPolicy)
    IN  /\ turn = "Ready" /\ CanSay /\ snapshot.state # "Error"
        /\ pressure' = snapshot
        /\ IF snapshot.admission = "Reduce"
           THEN IF IsView(view) THEN checkpoint' = view /\ turn' = "Pressed" /\ Commit
                ELSE UNCHANGED <<checkpoint, turn, moved>>
           ELSE turn' = "Pressed" /\ UNCHANGED <<checkpoint, moved>>
        /\ UNCHANGED <<items, prepared, asked>>
\* admit_turn.
AdmitPressed(bytes) ==
    /\ turn = "Pressed"
    /\ IF pressure.admission # "Stop" /\ IsView(provider_context_for_history(items))
       THEN items' = Said("User", bytes) /\ turn' = "Admitted" /\ Commit
       ELSE turn' = "Ready" /\ UNCHANGED <<items, moved>>
    /\ asked' = {} /\ pressure' = NoPressure
    /\ UNCHANGED <<checkpoint, prepared>>

\* pending_provider_context: for the first request, every retry, resume and
\* fallback of the Turn, in whichever process.
AskProvider ==
    LET view == provider_context_for_history(History) IN
    /\ turn = "Admitted"
    /\ asked' = asked \cup {IF IsView(view) THEN [kind |-> "view", shown |-> view.shown] ELSE view}
    /\ Commit
    /\ UNCHANGED <<items, checkpoint, turn, prepared, pressure>>
AnswerTurn(bytes) ==
    /\ turn = "Admitted" /\ asked # {} /\ CanSay
    /\ items' = Said("Assistant", bytes) /\ turn' = "Reconcile" /\ Commit
    /\ UNCHANGED <<checkpoint, prepared, pressure, asked>>
\* An acknowledged answer, or a cancelled Turn, whose User Item stays.
CloseTurn ==
    /\ turn = "Reconcile" \/ (turn = "Admitted" /\ asked # {})
    /\ turn' = "Ready" /\ asked' = {} /\ Commit
    /\ UNCHANGED <<items, checkpoint, prepared, pressure>>
\* The process ends; only the call in progress and a held draft are lost.
LoseProcess ==
    /\ turn = "Pressed" \/ prepared # NoView
    /\ turn' = IF turn = "Pressed" THEN "Ready" ELSE turn
    /\ prepared' = NoView /\ moved' = FALSE /\ pressure' = NoPressure
    /\ UNCHANGED <<items, checkpoint, asked>>

ContextInit ==
    /\ items = <<>> /\ checkpoint = NoView /\ turn = "Ready" /\ prepared = NoView
    /\ moved = FALSE /\ pressure = NoPressure /\ asked = {}

ContextNext ==
    \/ \E policy \in ChosenPolicies : PrepareReduction(policy)
    \/ PublishReduction
    \/ \E input \in PressureInputs : Press(input)
    \/ \E bytes \in TextSizes : AdmitPressed(bytes) \/ AnswerTurn(bytes)
    \/ AskProvider \/ CloseTurn \/ LoseProcess

-----------------------------------------------------------------------------
\* Every request of a Turn, however often it is retried or resumed, shows one
\* and the same unbroken end of the conversation before it, beginning with
\* something the user said, and the preview of it counts what is left out.
RequestsShowOneEnd ==
    /\ \A view \in asked :
        /\ IsView(view)
        /\ view.shown = SubSeq(History, Len(History) - Len(view.shown) + 1, Len(History))
        /\ view.shown # <<>> => view.shown[1].role = "User"
    /\ \A view, other \in asked : view = other
    /\ IsView(preview_from_state) =>
        /\ preview_from_state.archived + Len(preview_from_state.shown) = Len(History)
        /\ \A view \in asked : view.shown = preview_from_state.shown

\* Reducing the Context reopens admission for every history within the Item
\* limit, however large its texts are.
ReductionReopensAdmission ==
    turn = "Ready" /\ Len(items) <= MaxViewItems =>
        \A policy \in ChosenPolicies :
            LET view == reduced_from_items(items, policy)
            IN  IsView(view) /\ IsView(materialize_request(view, items))

\* The percentage shown and the decision taken agree at the thresholds.
DecisionMatchesPercent ==
    /\ pressure.state = "Hard" <=> pressure.percent >= HardPercent
    /\ pressure.state = "Soft" <=> pressure.percent >= SoftPercent /\ pressure.percent < HardPercent

\* What a Provider is told of the conversation, over any number of Turns,
\* reductions and restarts.
ContextIsFaithful == RequestsShowOneEnd /\ ReductionReopensAdmission /\ DecisionMatchesPercent

\* The conversation can go on: some reduction reopens every Ready history.
HistoryCanContinue ==
    turn = "Ready" => \E policy \in ChosenPolicies : IsView(reduced_from_items(items, policy))
=============================================================================
