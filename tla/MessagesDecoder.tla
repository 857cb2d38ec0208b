-------------------------- MODULE MessagesDecoder ---------------------------
(***************************************************************************)
(* The decoder of the Messages dialect (provider/messages.rs): one message *)
(* of content blocks that are opened and closed in order, a message_delta  *)
(* with the stop reason, then message_stop.  Token counts are u64 values   *)
(* scaled down to 0..MaxU64; NoCount is an absent count.  Abstracted       *)
(* otherwise as ResponsesDecoder is.                                       *)
(***************************************************************************)
EXTENDS Integers, Sequences, FiniteSets

CONSTANTS MaxOutput, MaxArguments, ArgumentUnits, MaxEvents,
          MaxU64  \* the largest token count

NoCount == -1

Start == [message_id |-> "none", input |-> NoCount, output |-> NoCount, total |-> NoCount,
          next_block |-> 0, active |-> <<>>, tool_call_seen |-> FALSE,
          message_delta_seen |-> FALSE, incomplete |-> FALSE, total_text |-> 0,
          processed |-> 0, terminal |-> FALSE, poisoned |-> FALSE, events |-> <<>>]

Poison(d) == [d EXCEPT !.poisoned = TRUE]
Step(ok, d, next) == IF ok THEN next ELSE Poison(d)
Emit(d, event) == [d EXCEPT !.events = Append(@, event)]

(* refresh_usage_totals: the total is known when both counts are, and an   *)
(* overflow of the sum is an error.                                        *)
total_tokens(input, output) == IF NoCount \in {input, output} THEN NoCount ELSE input + output

refresh_usage_totals(d) ==
    Step(total_tokens(d.input, d.output) <= MaxU64, d, [d EXCEPT !.total = total_tokens(d.input, d.output)])

start_message(d, e) ==
    IF d.message_id # "none" \/ ~e.valid THEN Poison(d)
    ELSE refresh_usage_totals([d EXCEPT !.message_id = e.id, !.input = e.input, !.output = e.output])

start_block(d, e) ==
    Step(/\ d.message_id # "none" /\ ~d.message_delta_seen
         /\ d.active = <<>> /\ e.index = d.next_block /\ e.valid
         /\ e.type \in {"text", "tool_use"}
         /\ e.type = "tool_use" => ~d.tool_call_seen, d,
         [d EXCEPT !.active = <<[type |-> e.type, index |-> e.index, arguments |-> 0]>>,
                   !.tool_call_seen = @ \/ e.type = "tool_use"])

apply_block_delta(d, e) ==
    IF \/ d.message_delta_seen \/ d.active = <<>>
       \/ d.active[1].index # e.index \/ d.active[1].type # e.type
    THEN Poison(d)
    ELSE IF e.type = "text"
    THEN Step(e.text > 0 /\ d.total_text + e.text <= MaxOutput, d,
              Emit([d EXCEPT !.total_text = @ + e.text], [kind |-> "TextDelta"]))
    ELSE Step(d.active[1].arguments + e.text <= MaxArguments, d,
              [d EXCEPT !.active[1].arguments = @ + e.text])

(* An empty input stands for {}, any other must be an object. *)
canonical_arguments(n) == n \in {0, ArgumentUnits}

stop_block(d, e) ==
    LET closed == [d EXCEPT !.active = <<>>, !.next_block = @ + 1]
    IN  IF d.message_delta_seen \/ d.active = <<>> \/ d.active[1].index # e.index THEN Poison(d)
        ELSE IF d.active[1].type = "text" THEN closed
        ELSE Step(canonical_arguments(d.active[1].arguments), d,
                  Emit(closed, [kind |-> "FunctionCall", index |-> e.index]))

observe_output_usage(d, output) ==
    IF d.output # NoCount /\ output # NoCount /\ output < d.output THEN Poison(d)
    ELSE refresh_usage_totals([d EXCEPT !.output = IF output = NoCount THEN @ ELSE output])

apply_message_delta(d, e) ==
    LET counted == observe_output_usage(d, e.output)
        seen == [counted EXCEPT !.message_delta_seen = TRUE]
    IN  IF \/ d.message_id = "none" \/ d.active # <<>> \/ d.message_delta_seen \/ ~e.valid
           \/ counted.poisoned
        THEN Poison(d)
        ELSE CASE e.reason = "end_turn" -> Step(~d.tool_call_seen, d, seen)
               [] e.reason = "tool_use" -> Step(d.tool_call_seen, d, seen)
               [] e.reason = "max_tokens" -> Emit([seen EXCEPT !.incomplete = TRUE], [kind |-> "Incomplete"])
               [] OTHER -> Poison(d)

stop_message(d, e) ==
    IF ~d.message_delta_seen \/ d.active # <<>> THEN Poison(d)
    ELSE LET done == [d EXCEPT !.terminal = TRUE]
         IN  IF d.incomplete THEN done
             ELSE Emit(done, [kind |-> "Completed", total |-> d.total, id |-> d.message_id])

observe_error(d, e) == Step(e.valid, d, Emit([d EXCEPT !.terminal = TRUE], [kind |-> "Error"]))

process_event(d, e) ==
    IF d.terminal \/ ~e.known THEN Poison(d)
    ELSE CASE e.kind = "message_start" -> start_message(d, e)
           [] e.kind = "content_block_start" -> start_block(d, e)
           [] e.kind = "content_block_delta" -> apply_block_delta(d, e)
           [] e.kind = "content_block_stop" -> stop_block(d, e)
           [] e.kind = "message_delta" -> apply_message_delta(d, e)
           [] e.kind = "message_stop" -> stop_message(d, e)
           [] e.kind = "ping" -> d
           [] e.kind = "error" -> observe_error(d, e)

process_framed_event(d, e) ==
    LET next == process_event(d, e)
    IN  Step(~next.poisoned /\ d.processed + 1 <= MaxEvents, next, [next EXCEPT !.processed = @ + 1])

(* normalize_messages_events. *)
normalize(events) ==
    LET facts == {events[i].kind : i \in DOMAIN events}
        Runtime(kind) == CASE kind = "FunctionCall" -> "call" [] kind = "TextDelta" -> "text" [] OTHER -> "completed"
    IN  IF facts \cap {"Incomplete", "Error"} # {} THEN [error |-> "AfterFirstEvent", events |-> <<>>]
        ELSE IF "Completed" \notin facts THEN [error |-> "InvalidResponse", events |-> <<>>]
        ELSE [error |-> "none", events |-> [i \in DOMAIN events |-> Runtime(events[i].kind)]]

-----------------------------------------------------------------------------
(* The events a server may send. *)
Counts == {NoCount, 0, MaxU64}

Wire ==
    {[kind |-> "message_start", known |-> TRUE, valid |-> v, id |-> "a", input |-> i, output |-> o] :
        v \in BOOLEAN, i \in Counts, o \in Counts}
    \cup {[kind |-> "content_block_start", known |-> TRUE, valid |-> v, index |-> x, type |-> t] :
             v \in BOOLEAN, x \in 0..1, t \in {"text", "tool_use", "other"}}
    \cup {[kind |-> "content_block_delta", known |-> TRUE, index |-> x, type |-> t, text |-> n] :
             x \in 0..1, t \in {"text", "tool_use"}, n \in 0..MaxOutput}
    \cup {[kind |-> "content_block_stop", known |-> TRUE, index |-> x] : x \in 0..1}
    \cup {[kind |-> "message_delta", known |-> TRUE, valid |-> TRUE, reason |-> r, output |-> o] :
             r \in {"end_turn", "tool_use", "max_tokens", "other"}, o \in Counts}
    \cup {[kind |-> k, known |-> TRUE, valid |-> TRUE] : k \in {"message_stop", "ping", "error"}}
    \cup {[kind |-> "ping", known |-> FALSE], [kind |-> "error", known |-> TRUE, valid |-> FALSE]}

(* How many events of a kind were handed on. *)
Emitted(events, kind) == Cardinality({i \in DOMAIN events : events[i].kind = kind})

(* A completed message closed every block it opened, has at most one Tool  *)
(* call and that exactly when its stop reason says so, and its total is    *)
(* the sum of its counts.                                                  *)
CompletedIsWhole(d) ==
    LET count(k) == Emitted(d.events, k)
    IN  count("Completed") = 1 =>
            /\ d.active = <<>> /\ count("Incomplete") = 0
            /\ count("FunctionCall") = (IF d.tool_call_seen THEN 1 ELSE 0)
            /\ d.total = total_tokens(d.input, d.output) /\ d.total <= MaxU64
=============================================================================
