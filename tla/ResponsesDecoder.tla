-------------------------- MODULE ResponsesDecoder --------------------------
(***************************************************************************)
(* The decoder of the Responses dialect (provider/responses.rs): one state *)
(* machine over the framed events of a stream.  Texts and argument strings *)
(* are their lengths in units; an argument text is a JSON object when it   *)
(* has exactly ArgumentUnits units.  "valid" stands for the checks of one  *)
(* event by itself (its JSON, identifiers, tool name, status, text         *)
(* fields), "increasing" for a sequence number above the last one.  Every  *)
(* error poisons the decoder; the caller does not tell them apart.         *)
(***************************************************************************)
EXTENDS Naturals, Sequences, Functions, FiniteSetsExt

CONSTANTS OutputIndexes, ContentIndexes, \* indexes a stream uses
          MaxOutputItems, MaxContentParts, \* MAX_OUTPUT_ITEMS, MAX_CONTENT_PARTS
          MaxOutput,     \* max_output_bytes, in units
          MaxArguments,  \* MAX_ARGUMENT_BYTES, in units
          ArgumentUnits,
          MaxEvents      \* MAX_EVENTS

Ids == {"a", "b"}
NoId == "none"

Start == [response_id |-> NoId, items |-> <<>>, started |-> FALSE, total_text |-> 0,
          processed |-> 0, terminal |-> FALSE, poisoned |-> FALSE, events |-> <<>>]

Poison(d) == [d EXCEPT !.poisoned = TRUE]

(* The next state if the conditions of the handler hold, an error if not. *)
Step(ok, d, next) == IF ok THEN next ELSE Poison(d)

Emit(d, event) == [d EXCEPT !.events = Append(@, event)]

Update(f, k, v) == [x \in DOMAIN f \cup {k} |-> IF x = k THEN v ELSE f[x]]

(* The part of a text item, and its item, that an event names. *)
text_item(d, e, type) ==
    /\ e.index \in DOMAIN d.items
    /\ d.items[e.index].type = type /\ d.items[e.index].id = e.id

text_part(d, e, type) ==
    /\ e.part < MaxContentParts
    /\ text_item(d, e, type) /\ ~d.items[e.index].done
    /\ e.part \in DOMAIN d.items[e.index].parts

Part(d, e) == d.items[e.index].parts[e.part]
SetPart(d, e, part) == [d EXCEPT !.items[e.index].parts[e.part] = part]

reserve_text(d, n) == d.total_text + n <= MaxOutput

function(d, e) == text_item(d, e, "function_call")

validate_response(d, e) == d.response_id # NoId /\ d.response_id = e.id

created(d, e) ==
    Step(d.response_id = NoId /\ d.items = <<>> /\ e.valid, d,
         Emit([d EXCEPT !.response_id = e.id], [kind |-> "Created", id |-> e.id]))

in_progress(d, e) == Step(validate_response(d, e) /\ e.valid, d, d)

output_item_added(d, e) ==
    Step(/\ d.response_id # NoId
         /\ e.index < MaxOutputItems /\ e.valid
         /\ e.index \notin DOMAIN d.items
         /\ e.type \in {"message", "reasoning", "function_call"}
         /\ e.text <= MaxArguments, d,
         [d EXCEPT !.items = Update(@, e.index,
              [type |-> e.type, id |-> e.id, parts |-> <<>>, arguments |-> e.text,
               arguments_done |-> FALSE, done |-> FALSE])])

content_part_added(d, e) ==
    Step(/\ e.part < MaxContentParts /\ e.valid
         /\ e.type \in {"message", "reasoning"} /\ text_item(d, e, e.type)
         /\ reserve_text(d, e.text)
         /\ ~d.items[e.index].done
         /\ e.part \notin DOMAIN d.items[e.index].parts, d,
         [d EXCEPT !.total_text = @ + e.text,
                   !.items[e.index].parts = Update(@, e.part,
              [text |-> e.text, given |-> e.text, output_done |-> FALSE, content_done |-> FALSE])])

(* output_text_delta and reasoning_text_delta; only the first emits. *)
text_delta(d, e, type) ==
    LET next == SetPart([d EXCEPT !.total_text = @ + e.text], e,
                        [Part(d, e) EXCEPT !.text = @ + e.text])
    IN  Step(/\ e.text > 0 /\ reserve_text(d, e.text)
             /\ text_part(d, e, type)
             /\ ~Part(d, e).output_done /\ ~Part(d, e).content_done, d,
             IF type = "message"
             THEN Emit(next, [kind |-> "TextDelta", index |-> e.index, part |-> e.part, text |-> e.text])
             ELSE next)

(* output_text_done and reasoning_text_done. *)
text_done(d, e, type) ==
    Step(/\ text_part(d, e, type)
         /\ ~Part(d, e).output_done /\ ~Part(d, e).content_done
         /\ Part(d, e).text = e.text, d,
         SetPart(d, e, [Part(d, e) EXCEPT !.output_done = TRUE]))

content_part_done(d, e) ==
    Step(/\ e.valid /\ text_part(d, e, e.type)
         /\ Part(d, e).output_done /\ ~Part(d, e).content_done
         /\ Part(d, e).text = e.text, d,
         SetPart(d, e, [Part(d, e) EXCEPT !.content_done = TRUE]))

function_arguments_delta(d, e) ==
    Step(/\ e.text > 0 /\ function(d, e)
         /\ ~d.items[e.index].arguments_done /\ ~d.items[e.index].done
         /\ d.items[e.index].arguments + e.text <= MaxArguments, d,
         [d EXCEPT !.items[e.index].arguments = @ + e.text])

canonical_arguments(n) == n <= MaxArguments /\ n = ArgumentUnits

function_arguments_done(d, e) ==
    Step(/\ function(d, e) /\ e.valid
         /\ ~d.items[e.index].arguments_done /\ ~d.items[e.index].done
         /\ d.items[e.index].arguments = e.text
         /\ canonical_arguments(e.text), d,
         [d EXCEPT !.items[e.index].arguments_done = TRUE])

(* The content of the finished item repeats its parts, in order from 0. *)
validate_text_content(parts, content) ==
    /\ DOMAIN parts = {i - 1 : i \in DOMAIN content}
    /\ \A i \in DOMAIN content : parts[i - 1].text = content[i]

output_item_done(d, e) ==
    LET item == d.items[e.index]
        done == [d EXCEPT !.items[e.index].done = TRUE]
    IN  IF e.index \notin DOMAIN d.items THEN Poison(d)
        ELSE IF item.type = "function_call"
        THEN Step(/\ ~item.done /\ item.arguments_done /\ e.valid
                  /\ e.type = item.type /\ e.id = item.id /\ e.text = item.arguments, d,
                  Emit(done, [kind |-> "FunctionCall", index |-> e.index, id |-> item.id]))
        ELSE Step(/\ ~item.done /\ e.type = item.type /\ e.id = item.id /\ e.valid
                  /\ item.parts # <<>>
                  /\ \A p \in Range(item.parts) : p.output_done /\ p.content_done
                  /\ validate_text_content(item.parts, e.content), d, done)

Terminal(d, event) == Emit([d EXCEPT !.terminal = TRUE], event)

(* Fault: a completion is taken while an item is still open. *)
completed_Open(d, e) ==
    Step(validate_response(d, e) /\ e.valid, d, Terminal(d, [kind |-> "Completed", id |-> e.id]))

completed(d, e) ==
    Step(validate_response(d, e) /\ e.valid /\ \A i \in DOMAIN d.items : d.items[i].done, d,
         Terminal(d, [kind |-> "Completed", id |-> e.id]))

(* response.failed and response.incomplete. *)
failed(d, e) ==
    Step(validate_response(d, e) /\ e.valid, d, Terminal(d, [kind |-> "Failed"]))

error(d, e) == Step(e.valid, d, Terminal(d, [kind |-> "Error"]))

process_event(d, e) ==
    IF d.terminal \/ ~e.known \/ (d.started /\ ~e.increasing) THEN Poison(d)
    ELSE LET next ==
             CASE e.kind = "response.created" -> created(d, e)
               [] e.kind = "response.in_progress" -> in_progress(d, e)
               [] e.kind = "response.output_item.added" -> output_item_added(d, e)
               [] e.kind = "response.content_part.added" -> content_part_added(d, e)
               [] e.kind = "response.output_text.delta" -> text_delta(d, e, "message")
               [] e.kind = "response.output_text.done" -> text_done(d, e, "message")
               [] e.kind = "response.reasoning_text.delta" -> text_delta(d, e, "reasoning")
               [] e.kind = "response.reasoning_text.done" -> text_done(d, e, "reasoning")
               [] e.kind = "response.content_part.done" -> content_part_done(d, e)
               [] e.kind = "response.function_call_arguments.delta" -> function_arguments_delta(d, e)
               [] e.kind = "response.function_call_arguments.done" -> function_arguments_done(d, e)
               [] e.kind = "response.output_item.done" -> output_item_done(d, e)
               [] e.kind = "response.completed" -> completed(d, e)
               [] e.kind \in {"response.failed", "response.incomplete"} -> failed(d, e)
               [] e.kind = "error" -> error(d, e)
         IN  IF next.poisoned THEN next ELSE [next EXCEPT !.started = TRUE]

process_framed_event(d, e) ==
    LET next == process_event(d, e)
    IN  Step(~next.poisoned /\ d.processed + 1 <= MaxEvents, next,
             [next EXCEPT !.processed = @ + 1])

(* What normalize_responses_events makes of the facts of a finished        *)
(* stream: the Provider Runtime's events, or the class of the failure.     *)
normalize(events) ==
    LET facts == {events[i].kind : i \in DOMAIN events}
        Runtime(kind) == IF kind = "FunctionCall" THEN "call" ELSE IF kind = "TextDelta" THEN "text" ELSE "completed"
    IN  IF facts \cap {"Failed", "Error"} # {} THEN [error |-> "AfterFirstEvent", events |-> <<>>]
        ELSE IF events = <<>> \/ events[1].kind # "Created" \/ events[Len(events)].kind # "Completed"
        THEN [error |-> "InvalidResponse", events |-> <<>>]
        ELSE [error |-> "none", events |-> [i \in 1..(Len(events) - 1) |-> Runtime(events[i + 1].kind)]]

-----------------------------------------------------------------------------
(* The events a server may send, one set per kind of event. *)
Envelope == [known : BOOLEAN, increasing : BOOLEAN, valid : BOOLEAN]

Plain == [known |-> TRUE, increasing |-> TRUE, valid |-> TRUE]

Faults == {Plain, [Plain EXCEPT !.known = FALSE], [Plain EXCEPT !.increasing = FALSE],
           [Plain EXCEPT !.valid = FALSE]}

Message(fault, fields) == [k \in DOMAIN fields \cup DOMAIN fault |->
                              IF k \in DOMAIN fields THEN fields[k] ELSE fault[k]]

Types == {"message", "reasoning", "function_call"}
Texts == 0..MaxOutput

Wire ==
    {Message(f, [kind |-> k, id |-> i]) : f \in Faults, i \in Ids,
        k \in {"response.created", "response.completed", "response.failed"}}
    \cup {Message(f, [kind |-> "error"]) : f \in Faults}
    \cup {Message(Plain, [kind |-> k, id |-> "a"]) : k \in {"response.in_progress", "response.incomplete"}}
    \cup {Message(Plain, [kind |-> "response.output_item.added", index |-> x, id |-> "a", type |-> t, text |-> 0]) :
             x \in OutputIndexes, t \in Types \cup {"other"}}
    \cup {Message(Plain, [kind |-> k, index |-> x, id |-> i, part |-> p, type |-> t, text |-> n]) :
             x \in OutputIndexes, i \in Ids, p \in ContentIndexes, t \in Types \ {"function_call"}, n \in Texts,
             k \in {"response.content_part.added", "response.content_part.done"}}
    \cup {Message(Plain, [kind |-> k, index |-> x, id |-> "a", part |-> p, text |-> n]) :
             x \in OutputIndexes, p \in ContentIndexes, n \in Texts,
             k \in {"response.output_text.delta", "response.output_text.done",
                    "response.reasoning_text.delta", "response.reasoning_text.done"}}
    \cup {Message(Plain, [kind |-> k, index |-> x, id |-> "a", text |-> n]) :
             x \in OutputIndexes, n \in 0..(MaxArguments + 1),
             k \in {"response.function_call_arguments.delta", "response.function_call_arguments.done"}}
    \cup {Message(Plain, [kind |-> "response.output_item.done", index |-> x, id |-> "a", type |-> t,
                          text |-> n, content |-> c]) :
             x \in OutputIndexes, t \in Types, n \in 0..MaxArguments, c \in {<<>>} \cup {<<m>> : m \in Texts}}

-----------------------------------------------------------------------------
(* The events handed on for an item and for one of its parts, and the text *)
(* the latter add up to.                                                   *)
CallsOf(events, i) == {k \in DOMAIN events : events[k].kind = "FunctionCall" /\ events[k].index = i}
DeltasOf(events, i, p) ==
    {k \in DOMAIN events : events[k].kind = "TextDelta" /\ events[k].index = i /\ events[k].part = p}
TextOf(events, i, p) == MapThenSumSet(LAMBDA k : events[k].text, DeltasOf(events, i, p))

(* A stream that ends completed was handed on whole: every announced item  *)
(* is finished, every function call was emitted exactly once, and the      *)
(* deltas of every message part are the text the Provider confirmed, less  *)
(* what its part.added event already held.                                 *)
CompletedIsWhole(d) ==
    (d.events # <<>> /\ d.events[Len(d.events)].kind = "Completed") =>
        \A i \in DOMAIN d.items :
            /\ d.items[i].done
            /\ d.items[i].type = "function_call" => Cardinality(CallsOf(d.events, i)) = 1
            /\ d.items[i].type = "message" =>
                  \A p \in DOMAIN d.items[i].parts :
                      TextOf(d.events, i, p) = d.items[i].parts[p].text - d.items[i].parts[p].given
=============================================================================
