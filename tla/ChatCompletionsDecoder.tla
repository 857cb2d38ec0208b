----------------------- MODULE ChatCompletionsDecoder -----------------------
(***************************************************************************)
(* The decoder of the Chat Completions dialect                             *)
(* (provider/chat_completions.rs): chunks of one choice, an optional usage *)
(* chunk after it, then [DONE].  Abstracted as ResponsesDecoder is; "kind" *)
(* is "chunk" or "[DONE]", an absent field of a delta is "none".           *)
(***************************************************************************)
EXTENDS Naturals, Sequences, FiniteSets

CONSTANTS MaxOutput, MaxArguments, ArgumentUnits, MaxEvents

Start == [completion_id |-> "none", service_tier |-> "none", role_seen |-> FALSE,
          choice_finished |-> FALSE, incomplete |-> FALSE, tool_call |-> <<>>,
          usage |-> FALSE, total_text |-> 0, processed |-> 0,
          terminal |-> FALSE, poisoned |-> FALSE, events |-> <<>>]

Poison(d) == [d EXCEPT !.poisoned = TRUE]
Emit(d, event) == [d EXCEPT !.events = Append(@, event)]

NewCall == [call_id |-> "none", name |-> "none", arguments |-> 0]

(* Every chunk names the completion and model of the first one. *)
validate_identity(d, e) == d.completion_id \in {"none", e.id}

observe_service_tier(d, e) ==
    e.service_tier = "none" \/ d.service_tier \in {"none", e.service_tier}

set_once_or_match(old, new) == new = "none" \/ old \in {"none", new}
Latest(old, new) == IF new = "none" THEN old ELSE new

(* One fragment of the single Tool call of the choice. *)
observe_tool_call(d, call) ==
    LET state == IF d.tool_call = <<>> THEN NewCall ELSE d.tool_call[1]
    IN  IF /\ call.index = 0 /\ call.valid
           /\ set_once_or_match(state.call_id, call.id)
           /\ set_once_or_match(state.name, call.name)
           /\ state.arguments + call.arguments <= MaxArguments
        THEN [d EXCEPT !.tool_call = <<[call_id |-> Latest(state.call_id, call.id),
                                        name |-> Latest(state.name, call.name),
                                        arguments |-> state.arguments + call.arguments]>>]
        ELSE Poison(d)

finish_choice(d, reason) ==
    LET finished == [d EXCEPT !.choice_finished = TRUE]
    IN  CASE reason = "stop" -> IF d.tool_call = <<>> THEN finished ELSE Poison(d)
          [] reason = "tool_calls" ->
                IF /\ d.tool_call # <<>>
                   /\ d.tool_call[1].call_id # "none" /\ d.tool_call[1].name # "none"
                   /\ d.tool_call[1].arguments = ArgumentUnits
                THEN Emit([finished EXCEPT !.tool_call = <<>>], [kind |-> "FunctionCall", id |-> d.tool_call[1].call_id])
                ELSE Poison(d)
          [] reason \in {"length", "content_filter"} ->
                Emit([finished EXCEPT !.incomplete = TRUE], [kind |-> "Incomplete"])
          [] OTHER -> Poison(d)

process_choice(d, e) ==
    LET seen == [d EXCEPT !.role_seen = @ \/ e.role # "none"]
        body == IF e.content > 0
                THEN Emit([seen EXCEPT !.total_text = @ + e.content], [kind |-> "TextDelta"])
                ELSE IF e.calls # <<>> THEN observe_tool_call(seen, e.calls[1]) ELSE seen
    IN  IF \/ ~e.valid
           \/ (e.role # "none" /\ (e.role # "assistant" \/ d.role_seen))
           \/ (e.has_content /\ e.calls # <<>>)
           \/ (e.finish_reason # "none" /\ (e.has_content \/ e.calls # <<>>))
           \/ (e.has_content /\ (e.content = 0 \/ d.total_text + e.content > MaxOutput))
           \/ body.poisoned
        THEN Poison(d)
        ELSE IF e.finish_reason = "none" THEN body ELSE finish_choice(body, e.finish_reason)

complete_stream(d) ==
    IF ~d.choice_finished THEN Poison(d)
    ELSE LET done == [d EXCEPT !.terminal = TRUE]
         IN  IF d.incomplete THEN done ELSE Emit(done, [kind |-> "Completed", usage |-> d.usage])

process_event(d, e) ==
    IF d.terminal \/ ~e.known THEN Poison(d)
    ELSE IF e.kind = "[DONE]" THEN complete_stream(d)
    ELSE IF ~validate_identity(d, e) \/ ~observe_service_tier(d, e) THEN Poison(d)
    ELSE LET named == [d EXCEPT !.completion_id = e.id,
                                !.service_tier = Latest(@, e.service_tier)]
         IN  IF e.usage
             THEN IF e.choices = 0 /\ d.choice_finished /\ ~d.usage /\ e.valid
                  THEN [named EXCEPT !.usage = TRUE] ELSE Poison(d)
             ELSE IF e.choices # 1 \/ d.choice_finished THEN Poison(d)
             ELSE process_choice(named, e)

process_framed_event(d, e) ==
    LET next == process_event(d, e)
    IN  IF next.poisoned \/ d.processed + 1 > MaxEvents THEN Poison(next)
        ELSE [next EXCEPT !.processed = @ + 1]

(* normalize_chat_completions_events: an incomplete choice is reported     *)
(* with ProviderError::unavailable, whose stage is BeforeResponse.         *)
normalize(events) ==
    LET Runtime(kind) == CASE kind = "FunctionCall" -> "call" [] kind = "TextDelta" -> "text" [] OTHER -> "completed"
    IN  IF \E i \in DOMAIN events : events[i].kind = "Incomplete"
        THEN [error |-> "BeforeResponse", events |-> <<>>]
        ELSE IF events = <<>> \/ events[Len(events)].kind # "Completed"
        THEN [error |-> "InvalidResponse", events |-> <<>>]
        ELSE [error |-> "none", events |-> [i \in DOMAIN events |-> Runtime(events[i].kind)]]

-----------------------------------------------------------------------------
(* The events a server may send. *)
Chunk == [kind |-> "chunk", known |-> TRUE, valid |-> TRUE, id |-> "a", service_tier |-> "none",
          usage |-> FALSE, choices |-> 1, role |-> "none", has_content |-> FALSE, content |-> 0,
          calls |-> <<>>, finish_reason |-> "none"]

Fragment == [index |-> 0, valid |-> TRUE, id |-> "none", name |-> "none", arguments |-> 1]

Wire ==
    {[Chunk EXCEPT !.kind = "[DONE]"], [Chunk EXCEPT !.known = FALSE], [Chunk EXCEPT !.valid = FALSE],
     [Chunk EXCEPT !.choices = 2], [Chunk EXCEPT !.usage = TRUE, !.choices = 0], [Chunk EXCEPT !.usage = TRUE]}
    \cup {[Chunk EXCEPT !.role = r] : r \in {"assistant", "user"}}
    \cup {[Chunk EXCEPT !.id = i, !.has_content = TRUE, !.content = n] : i \in {"a", "b"}, n \in 0..MaxOutput}
    \cup {[Chunk EXCEPT !.finish_reason = r] : r \in {"stop", "tool_calls", "length", "other"}}
    \cup {[Chunk EXCEPT !.service_tier = t] : t \in {"default", "flex"}}
    \cup {[Chunk EXCEPT !.calls = <<c>>] :
             c \in {[Fragment EXCEPT !.id = i, !.name = i, !.index = x] : i \in {"none", "a", "b"}, x \in {0, 1}}}
    \cup {[Chunk EXCEPT !.calls = <<Fragment>>, !.has_content = TRUE, !.content = 1]}

(* How many events of a kind were handed on. *)
Emitted(events, kind) == Cardinality({i \in DOMAIN events : events[i].kind = kind})

(* A choice that ends with a Tool call ends with exactly one, complete,    *)
(* and a completion is never emitted for a choice cut short.               *)
CompletedIsWhole(d) ==
    LET count(k) == Emitted(d.events, k)
    IN  /\ count("FunctionCall") <= 1 /\ count("Completed") <= 1
        /\ count("Completed") = 1 => count("Incomplete") = 0 /\ d.tool_call = <<>>
=============================================================================
