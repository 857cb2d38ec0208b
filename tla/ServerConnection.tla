--------------------------- MODULE ServerConnection ---------------------------
(***************************************************************************)
(* The App Server's connection (greentyper app_server.rs): the frames it    *)
(* reads, and the Config drafts it keeps until they are committed or the    *)
(* connection ends.  Other processes commit to the same Config file.        *)
(***************************************************************************)
EXTENDS Integers, Sequences, FiniteSets

CONSTANTS
    Input,          \* bound: the byte streams clients send
    MaxRequest,     \* MAX_REQUEST_BYTES
    Values,         \* what a Config file may hold
    MaxDrafts,      \* MAX_ACTIVE_DRAFTS
    MaxDraftId,     \* u64::MAX
    MaxRevision     \* bound: commits

ASSUME ConnectionAssumption ==
    /\ {MaxRequest, MaxDrafts, MaxDraftId, MaxRevision} \subseteq Nat
    /\ \A bytes \in Input : bytes \in Seq({bytes[i] : i \in DOMAIN bytes})

VARIABLES
    sent,       \* the client's bytes not yet consumed
    line,       \* read_request_line: the bytes kept
    too_long,   \* read_request_line: the frame is over the limit
    frames,     \* the frames answered, in order
    stream,     \* ghost: all the client's bytes
    file,       \* the Config file: revision and value
    loaded,     \* the revision the connection has loaded
    drafts,     \* the drafts by number
    next_draft_id,
    rewritten   \* ghost: the drafts committed, with the revision they replaced

reader_vars == <<sent, line, too_long, frames, stream>>
draft_vars == <<file, loaded, drafts, next_draft_id, rewritten>>

-----------------------------------------------------------------------------
(* read_request_line, one fill_buf at a time.                               *)

Frame(bytes) ==
    IF bytes # <<>> /\ bytes[Len(bytes)] = "cr" THEN SubSeq(bytes, 1, Len(bytes) - 1) ELSE bytes
TooLong == <<"too long">>

Newline(bytes) == {i \in DOMAIN bytes : bytes[i] = "nl"}
First(s) == CHOOSE i \in s : \A j \in s : i <= j

\* What the loop keeps of a payload; nothing once the frame is too long.
kept(payload) ==
    IF too_long \/ Len(line) + Len(payload) > MaxRequest THEN <<>> ELSE line \o payload

overflow_Restarted(payload) == Len(line) + Len(payload) > MaxRequest
overflow(payload) == too_long \/ Len(line) + Len(payload) > MaxRequest

\* The buffer holds the next n bytes; a newline in it ends the frame.
FillBuf(n) ==
    /\ n \in 1..Len(sent)
    /\ LET available == SubSeq(sent, 1, n)
           payload == IF Newline(available) = {} THEN available
                      ELSE SubSeq(available, 1, First(Newline(available)) - 1)
           rest == IF Newline(available) = {} THEN Len(payload) + 1 ELSE Len(payload) + 2
       IN  /\ sent' = SubSeq(sent, rest, Len(sent))
           /\ IF Newline(available) = {}
              THEN /\ line' = kept(payload) /\ too_long' = overflow(payload)
                   /\ UNCHANGED frames
              ELSE /\ frames' = Append(frames,
                            IF overflow(payload) THEN TooLong ELSE Frame(kept(payload)))
                   /\ line' = <<>> /\ too_long' = FALSE
    /\ UNCHANGED stream

\* The stream ends: what is left is a frame, if anything is.
EndOfInput ==
    /\ sent = <<>> /\ (line # <<>> \/ too_long)
    /\ frames' = Append(frames, IF too_long THEN TooLong ELSE Frame(line))
    /\ line' = <<>> /\ too_long' = FALSE
    /\ UNCHANGED <<sent, stream>>

\* What the client meant: its lines.
Ends(bytes) == Newline(bytes) \cup
    (IF bytes # <<>> /\ bytes[Len(bytes)] # "nl" THEN {Len(bytes) + 1} ELSE {})
LineEnding(bytes, e) ==
    LET before == {i \in Newline(bytes) : i < e}
        start == IF before = {} THEN 1 ELSE 1 + (CHOOSE i \in before : \A j \in before : j <= i)
    IN  SubSeq(bytes, start, e - 1)
Nth(s, n) == CHOOSE e \in s : Cardinality({f \in s : f <= e}) = n
Lines(bytes) ==
    [n \in 1..Cardinality(Ends(bytes)) |->
        LET l == LineEnding(bytes, Nth(Ends(bytes), n))
        IN  IF Len(l) > MaxRequest THEN TooLong ELSE Frame(l)]

-----------------------------------------------------------------------------
(* config.draft.*                                                           *)

\* begin, and the two starters, which stage a value of their own: of what the
\* connection has loaded, numbered by store_draft.
store_draft(staged) ==
    /\ Cardinality(DOMAIN drafts) < MaxDrafts /\ next_draft_id < MaxDraftId
    /\ drafts' = [d \in DOMAIN drafts \cup {next_draft_id} |->
            IF d = next_draft_id THEN [base |-> loaded, value |-> staged] ELSE drafts[d]]
    /\ next_draft_id' = next_draft_id + 1
    /\ UNCHANGED <<file, loaded, rewritten>>

\* set and reset.
DraftSet(d, value) ==
    /\ d \in DOMAIN drafts
    /\ drafts' = [drafts EXCEPT ![d].value = value]
    /\ UNCHANGED <<file, loaded, next_draft_id, rewritten>>

Without(d) == [e \in DOMAIN drafts \ {d} |-> drafts[e]]

\* A preview, then the commit; either finds the file at another revision, and
\* then the Config is loaded again and the draft keeps its slot and its base.
DraftCommit(d) ==
    /\ d \in DOMAIN drafts /\ file.revision < MaxRevision
    /\ IF drafts[d].base # file.revision
       THEN loaded' = file.revision /\ UNCHANGED <<file, drafts, rewritten>>
       ELSE IF drafts[d].value = file.value
       THEN drafts' = Without(d) /\ UNCHANGED <<file, loaded, rewritten>>
       ELSE /\ file' = [revision |-> file.revision + 1, value |-> drafts[d].value]
            /\ loaded' = file.revision + 1
            /\ drafts' = Without(d)
            /\ rewritten' = rewritten \cup {<<d, drafts[d].base, file.revision>>}
    /\ UNCHANGED next_draft_id

OtherCommit(value) ==
    /\ file.revision < MaxRevision /\ value # file.value
    /\ file' = [revision |-> file.revision + 1, value |-> value]
    /\ UNCHANGED <<loaded, drafts, next_draft_id, rewritten>>

ConnectionInit ==
    /\ stream \in Input /\ sent = stream
    /\ line = <<>> /\ too_long = FALSE /\ frames = <<>>
    /\ file \in [revision : {0}, value : Values] /\ loaded = 0
    /\ drafts = [d \in {} |-> 0] /\ next_draft_id = 1 /\ rewritten = {}

ConnectionNext ==
    \/ /\ \/ \E n \in 1..Len(sent) : FillBuf(n)
          \/ EndOfInput
       /\ UNCHANGED draft_vars
    \/ /\ \/ \E value \in Values :
                \/ store_draft(value) \/ OtherCommit(value)
                \/ \E d \in DOMAIN drafts : DraftSet(d, value)
          \/ \E d \in DOMAIN drafts : DraftCommit(d)
       /\ UNCHANGED reader_vars

-----------------------------------------------------------------------------
\* Every line gets one answer, in order, however the bytes arrive; a line over
\* the limit is refused whole and the next one is read from its start.
FramesAreLines ==
    /\ Len(frames) <= Len(Lines(stream))
    /\ frames = SubSeq(Lines(stream), 1, Len(frames))
    /\ sent = <<>> /\ line = <<>> /\ ~too_long => Len(frames) = Len(Lines(stream))

\* A draft is written over the revision it began from or not at all, and no
\* number is given to two drafts.
DraftsReplaceTheirBase ==
    /\ \A w \in rewritten : w[2] = w[3]
    /\ \A w, v \in rewritten : w[1] = v[1] => w = v

\* A connection neither misreads its requests nor loses a foreign edit.
ConnectionIsFaithful == FramesAreLines /\ DraftsReplaceTheirBase
==============================================================================
