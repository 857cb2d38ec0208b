-------------------------- MODULE ServerSentEvents --------------------------
(***************************************************************************)
(* The framing of Server-Sent Events (provider/sse.rs): bytes arrive in    *)
(* chunks of any size, lines end with LF, CR or CR LF, an empty line       *)
(* dispatches the event collected so far.  A byte is abstracted to one of: *)
(* CR, LF, the start of a field ("event", "data", "comment", "other", or   *)
(* "bad": a line that is not UTF-8) and "more", the text that follows it.  *)
(***************************************************************************)
EXTENDS Naturals, Sequences, SequencesExt

CONSTANTS MaxTotal,     \* SseLimits::max_total_bytes
          MaxLine,      \* SseLimits::max_line_bytes
          MaxDataLines, \* MAX_DATA_LINES_PER_EVENT
          MaxStream,    \* bound: bytes a stream delivers
          MaxChunk      \* bound: bytes of one chunk

ASSUME SseLimitsAssumption ==
    /\ MaxTotal \in Nat \ {0} /\ MaxLine \in Nat \ {0} /\ MaxLine <= MaxTotal

VARIABLES sse,      \* the SseParser
          stream,   \* the bytes received so far
          sse_end   \* "open", "finished", "failed": what the caller was told

sse_vars == <<sse, stream, sse_end>>

Bytes == {"CR", "LF", "event", "data", "comment", "bad", "more"}

NewParser == [buffer |-> <<>>, event_type |-> FALSE, event_data |-> <<>>,
              lines |-> 0, events |-> <<>>, total |-> 0,
              poisoned |-> FALSE, skip_lf_after_cr |-> FALSE]

Poison(p) == [p EXCEPT !.poisoned = TRUE]

(* The index of the first CR or LF of a buffer, one past its end if none. *)
next_line_ending(b) ==
    CHOOSE i \in 1..Len(b) + 1 :
        /\ i <= Len(b) => b[i] \in {"CR", "LF"}
        /\ \A j \in 1..(i - 1) : b[j] \notin {"CR", "LF"}

dispatch(p) ==
    IF p.lines = 0 THEN [p EXCEPT !.event_type = FALSE]
    ELSE [p EXCEPT !.events = Append(@, [named |-> p.event_type, data |-> p.event_data]),
                   !.event_type = FALSE, !.event_data = <<>>, !.lines = 0]

process_line(p, line) ==
    IF line = <<>> THEN dispatch(p)
    ELSE IF line[1] = "comment" THEN p
    ELSE IF \E i \in 1..Len(line) : line[i] = "bad" THEN Poison(p)
    ELSE IF line[1] = "event" THEN [p EXCEPT !.event_type = TRUE]
    ELSE IF line[1] # "data" THEN p
    ELSE IF p.lines + 1 > MaxDataLines THEN Poison(p)
    ELSE [p EXCEPT !.lines = @ + 1, !.event_data = Append(@, Tail(line))]

(* One turn of the loop of push_inner, and whether there is another: the    *)
(* line feed of a CR LF, then one line, until no line is complete or, when  *)
(* asked to, until the first event.                                         *)
next_line(p, stop, before) ==
    LET b == p.buffer
        e == next_line_ending(b)
        read == process_line([p EXCEPT !.buffer = SubSeq(b, e + 1, Len(b)),
                                       !.skip_lf_after_cr = b[e] = "CR"],
                             SubSeq(b, 1, e - 1))
        Stop(q) == [parser |-> q, more |-> FALSE]
    IN  IF b = <<>> THEN Stop(p)
        ELSE IF p.skip_lf_after_cr
        THEN [parser |-> [p EXCEPT !.skip_lf_after_cr = FALSE,
                                   !.buffer = IF b[1] = "LF" THEN Tail(b) ELSE b],
              more |-> TRUE]
        ELSE IF e > Len(b) THEN Stop(IF Len(b) > MaxLine THEN Poison(p) ELSE p)
        ELSE IF e - 1 > MaxLine THEN Stop(Poison(p))
        ELSE [parser |-> read, more |-> ~read.poisoned /\ ~(stop /\ Len(read.events) > before)]

(* The loop of push_inner: at most two turns for every byte.                *)
Drain(p, stop, before) ==
    LET turns == 2 * Len(p.buffer) + 1
        after[n \in 0..turns] ==
            IF n = 0 THEN [parser |-> p, more |-> TRUE]
            ELSE LET last == after[n - 1]
                 IN  IF last.more THEN next_line(last.parser, stop, before) ELSE last
    IN  after[turns].parser

(* Fault: the pending line feed is forgotten between two chunks. *)
push_inner_Forgets(p, chunk, stop) ==
    LET q == [p EXCEPT !.total = @ + Len(chunk), !.buffer = @ \o chunk,
                       !.skip_lf_after_cr = FALSE]
    IN  IF q.total > MaxTotal THEN Poison([p EXCEPT !.total = q.total])
        ELSE Drain(q, stop, Len(p.events))

push_inner(p, chunk, stop) ==
    LET q == [p EXCEPT !.total = @ + Len(chunk), !.buffer = @ \o chunk]
    IN  IF q.total > MaxTotal THEN Poison([p EXCEPT !.total = q.total])
        ELSE Drain(q, stop, Len(p.events))

SseInit == sse = NewParser /\ stream = <<>> /\ sse_end = "open"

(* push, and push_until_first_event when stop is TRUE. *)
Push(chunk, stop) ==
    /\ sse_end = "open"
    /\ Len(stream) + Len(chunk) <= MaxStream
    /\ stream' = stream \o chunk
    /\ sse' = push_inner(sse, chunk, stop)
    /\ sse_end' = IF sse'.poisoned THEN "failed" ELSE "open"

(* finish drains what push_until_first_event left behind, then refuses an  *)
(* event that was begun and not ended.                                     *)
FinishStream ==
    /\ sse_end = "open"
    /\ sse' = push_inner(sse, <<>>, FALSE)
    /\ sse_end' = IF \/ sse'.poisoned \/ sse'.buffer # <<>>
                     \/ sse'.event_type \/ sse'.lines # 0
                  THEN "failed" ELSE "finished"
    /\ UNCHANGED stream

Chunks == UNION {[1..n -> Bytes] : n \in 1..MaxChunk}

SseNext == (\E c \in Chunks, stop \in BOOLEAN : Push(c, stop)) \/ FinishStream

-----------------------------------------------------------------------------
(* Reference: the lines of a whole stream, independent of its chunks. *)
LineEnds(s) == {i \in 1..Len(s) : s[i] = "CR" \/ (s[i] = "LF" /\ ~(i > 1 /\ s[i - 1] = "CR"))}

LineBefore(s, i) ==
    SubSeq(s, 1 + Max({0} \cup {j \in 1..(i - 1) : s[j] \in {"CR", "LF"}}), i - 1)

EventsOf(s) ==
    LET upto[i \in 0..Len(s)] ==
            IF i = 0 THEN NewParser
            ELSE IF i \in LineEnds(s) THEN process_line(upto[i - 1], LineBefore(s, i))
            ELSE upto[i - 1]
    IN  upto[Len(s)].events

(* However a stream is cut into chunks, a caller that reads it to the end  *)
(* gets the events of its lines, and before that a prefix of them: a CR LF *)
(* split between two reads is one line end and never an empty line, and    *)
(* stopping at the first event loses none of the bytes that follow it.     *)
EventsIgnoreChunking ==
    /\ sse_end = "open" => IsPrefix(sse.events, EventsOf(stream))
    /\ sse_end = "finished" => sse.events = EventsOf(stream)
=============================================================================
