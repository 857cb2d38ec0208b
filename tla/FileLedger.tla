----------------------------- MODULE FileLedger -----------------------------
(***************************************************************************)
(* The synchronous append-only Event Ledger of                              *)
(* crates/greentyper-core/src/ledger.rs: one file, an exclusive advisory    *)
(* lock, checksummed transaction frames, complete-prefix replay, repair of  *)
(* one torn final frame, and a writer that poisons itself when a write,     *)
(* flush or sync fails.                                                     *)
(*                                                                          *)
(* The file is a header and a sequence of items.  An item is a complete     *)
(* frame or the fragment a partial write leaves behind.  A process may die  *)
(* between any two I/O calls, and the machine may lose power, which keeps   *)
(* what was synced and some prefix of what was not.                         *)
(***************************************************************************)
EXTENDS Integers, Sequences, FiniteSets, SequencesExt

CONSTANTS Procs,            \* processes that open the ledger
          NoProc,           \* nobody holds the lock
          Batches,          \* transactions a caller may append: non-empty
                            \* sequences of event payload sizes
          MaxReplayEvents,  \* MAX_REPLAY_EVENTS
          MaxReplayPayload  \* MAX_REPLAY_PAYLOAD_BYTES

ASSUME NoProcAssumption == NoProc \notin Procs
ASSUME BatchesAssumption ==
    Batches \subseteq Seq(Nat) /\ \A b \in Batches : Len(b) >= 1
ASSUME LimitsAssumption == MaxReplayEvents \in Nat /\ MaxReplayPayload \in Nat

VARIABLES header,    \* the 16-byte file header
          file,      \* the items after the header, as the next open reads them
          synced,    \* how many leading items a power loss cannot remove
          lock,      \* holder of the exclusive file lock
          pc,        \* where each process is in open / append
          policy,    \* how each process opened: "create", "strict"
          mem,       \* FileLedger.{head, events} of each process
          payload,   \* FileLedger.payload_bytes of each process
          inflight,  \* the frame each process is writing
          acked,     \* history: frames whose DurabilityReceipt was returned
          observed   \* history: frames some ReplayReport contained

fileVars == <<header, file, synced>>
procVars == <<lock, pc, policy, mem, payload, inflight>>
vars == <<header, file, synced, lock, pc, policy, mem, payload, inflight, acked, observed>>

Headers == {"missing", "empty", "torn", "written", "ok"}
Stages == {"closed", "locked", "creating", "truncated", "open",
           "writing", "partial", "written", "poisoned"}
Policies == {"create", "strict"}

Frame(transaction, first, batch) ==
    [torn |-> FALSE, transaction |-> transaction, first |-> first, sizes |-> batch]
TornFrame == [torn |-> TRUE, transaction |-> 0, first |-> 0, sizes |-> <<>>]

\* LedgerHead::default and the head after a frame.
NoHead == [transaction |-> 0, sequence |-> 0]
HeadOf(f) == [transaction |-> f.transaction,
              sequence    |-> f.first + Len(f.sizes) - 1]
HeadAt(items, n) == IF n = 0 THEN NoHead ELSE HeadOf(items[n])

SumSizes(s) == FoldLeft(LAMBDA total, size : total + size, 0, s)
EventCount(items) == FoldLeft(LAMBDA total, f : total + Len(f.sizes), 0, items)
PayloadBytes(items) == FoldLeft(LAMBDA total, f : total + SumSizes(f.sizes), 0, items)

NoMem == [head |-> NoHead, frames |-> <<>>]

-----------------------------------------------------------------------------
(* scan_transactions and decode_transaction                                 *)

\* The scan stops silently only at bytes too few to be a frame, and those can
\* only be the last ones of the file.
HasTail == file # <<>> /\ file[Len(file)].torn
ValidItems == IF HasTail THEN SubSeq(file, 1, Len(file) - 1) ELSE file

\* A fragment with bytes after it fails the checksum or commit-marker test;
\* a frame that does not continue the previous one fails decode_transaction.
Continues(items, i) ==
    /\ ~items[i].torn
    /\ items[i].transaction = HeadAt(items, i - 1).transaction + 1
    /\ items[i].first = HeadAt(items, i - 1).sequence + 1
Corrupt == \E i \in 1..Len(ValidItems) : ~Continues(ValidItems, i)
OverReplayLimit ==
    \/ EventCount(ValidItems) > MaxReplayEvents
    \/ PayloadBytes(ValidItems) > MaxReplayPayload
ScanFails == Corrupt \/ OverReplayLimit

ScannedMem == [head   |-> HeadAt(ValidItems, Len(ValidItems)),
               frames |-> ValidItems]

\* The FileLedger value a successful open returns.
Load(p) ==
    /\ mem' = [mem EXCEPT ![p] = ScannedMem]
    /\ payload' = [payload EXCEPT ![p] = PayloadBytes(ValidItems)]

-----------------------------------------------------------------------------
Init ==
    /\ header = "missing"
    /\ file = <<>>
    /\ synced = 0
    /\ lock = NoProc
    /\ pc = [p \in Procs |-> "closed"]
    /\ policy = [p \in Procs |-> "strict"]
    /\ mem = [p \in Procs |-> NoMem]
    /\ payload = [p \in Procs |-> 0]
    /\ inflight = [p \in Procs |-> TornFrame]
    /\ acked = {}
    /\ observed = {}

\* Fault: the lock result is ignored.
OpenAndLock_IgnoresLock(p, how) ==
    /\ pc[p] = "closed"
    /\ how = "strict" => header # "missing"
    /\ header' = IF header = "missing" THEN "empty" ELSE header
    /\ lock' = p
    /\ pc' = [pc EXCEPT ![p] = "locked"]
    /\ policy' = [policy EXCEPT ![p] = how]
    /\ UNCHANGED <<file, synced, mem, payload, inflight, acked, observed>>

\* validate_path, OpenOptions::open and try_lock: only open() creates the file,
\* and a held lock refuses the caller without touching anything.
OpenAndLock(p, how) ==
    /\ pc[p] = "closed"
    /\ lock = NoProc
    /\ how = "strict" => header # "missing"
    /\ header' = IF header = "missing" THEN "empty" ELSE header
    /\ lock' = p
    /\ pc' = [pc EXCEPT ![p] = "locked"]
    /\ policy' = [policy EXCEPT ![p] = how]
    /\ UNCHANGED <<file, synced, mem, payload, inflight, acked, observed>>

\* write_header, reached only for a file of length zero: write_all, then
\* sync_all.  A crash in between leaves a torn or an unsynced header.
StartHeader(p) ==
    /\ pc[p] = "locked" /\ policy[p] = "create" /\ header = "empty"
    /\ header' = "torn"
    /\ pc' = [pc EXCEPT ![p] = "creating"]
    /\ UNCHANGED <<file, synced, lock, policy, mem, payload, inflight, acked, observed>>

FinishHeader(p) ==
    /\ pc[p] = "creating" /\ header = "torn"
    /\ header' = "written"
    /\ UNCHANGED <<file, synced, procVars, acked, observed>>

SyncHeader(p) ==
    /\ pc[p] = "creating" /\ header = "written"
    /\ header' = "ok"
    /\ pc' = [pc EXCEPT ![p] = "locked"]
    /\ UNCHANGED <<file, synced, lock, policy, mem, payload, inflight, acked, observed>>

\* validate_header
HeaderValid == header \in {"written", "ok"}

\* The scan accepts a file without a tail as it is and does not sync it.
OpenComplete(p) ==
    /\ pc[p] = "locked" /\ HeaderValid
    /\ ~ScanFails /\ ~HasTail
    /\ Load(p)
    /\ pc' = [pc EXCEPT ![p] = "open"]
    /\ observed' = observed \cup Range(ValidItems)
    /\ UNCHANGED <<header, file, synced, lock, policy, inflight, acked>>

\* Fault: the repair cuts one complete transaction too many.
TruncateTail_CutsFrame(p) ==
    /\ pc[p] = "locked" /\ policy[p] = "create" /\ HeaderValid
    /\ ~ScanFails /\ HasTail
    /\ file' = SubSeq(file, 1, synced)
    /\ pc' = [pc EXCEPT ![p] = "truncated"]
    /\ UNCHANGED <<header, synced, lock, policy, mem, payload, inflight, acked, observed>>

\* repair_tail: set_len to the valid prefix, then sync_all.
TruncateTail(p) ==
    /\ pc[p] = "locked" /\ policy[p] = "create" /\ HeaderValid
    /\ ~ScanFails /\ HasTail
    /\ file' = ValidItems
    /\ synced' = IF synced < Len(file) THEN synced ELSE Len(file) - 1
    /\ pc' = [pc EXCEPT ![p] = "truncated"]
    /\ UNCHANGED <<header, lock, policy, mem, payload, inflight, acked, observed>>

SyncRepair(p) ==
    /\ pc[p] = "truncated"
    /\ synced' = Len(file)
    /\ header' = "ok"
    /\ Load(p)
    /\ pc' = [pc EXCEPT ![p] = "open"]
    /\ observed' = observed \cup Range(ValidItems)
    /\ UNCHANGED <<file, lock, policy, inflight, acked>>

\* Dropping the FileLedger value, or the death of its process.
Forget(p) ==
    /\ pc' = [pc EXCEPT ![p] = "closed"]
    /\ policy' = [policy EXCEPT ![p] = "strict"]
    /\ mem' = [mem EXCEPT ![p] = NoMem]
    /\ payload' = [payload EXCEPT ![p] = 0]
    /\ inflight' = [inflight EXCEPT ![p] = TornFrame]

\* Every early return of open_with_policy after the lock was taken drops the
\* LockedFile, which releases the lock.
OpenRefused(p) ==
    /\ pc[p] = "locked"
    /\ \/ header = "torn"
       \/ header = "empty" /\ policy[p] = "strict"
       \/ HeaderValid /\ (ScanFails \/ (HasTail /\ policy[p] = "strict"))
    /\ lock' = NoProc
    /\ Forget(p)
    /\ UNCHANGED <<fileVars, acked, observed>>

\* Fault: the poison test is missing.
AppendAccepted_Poisoned(p, expected, batch) ==
    /\ pc[p] \in {"open", "poisoned"}
    /\ expected = mem[p].head
    /\ EventCount(mem[p].frames) + Len(batch) <= MaxReplayEvents
    /\ payload[p] + SumSizes(batch) <= MaxReplayPayload

\* append_with_io up to the write: poison test, expected-head test, limits.
AppendAccepted(p, expected, batch) ==
    /\ pc[p] = "open"
    /\ expected = mem[p].head
    /\ EventCount(mem[p].frames) + Len(batch) <= MaxReplayEvents
    /\ payload[p] + SumSizes(batch) <= MaxReplayPayload

BeginAppend(p, expected, batch) ==
    /\ AppendAccepted(p, expected, batch)
    /\ inflight' = [inflight EXCEPT ![p] =
           Frame(expected.transaction + 1, expected.sequence + 1, batch)]
    /\ pc' = [pc EXCEPT ![p] = "writing"]
    /\ UNCHANGED <<fileVars, lock, policy, mem, payload, acked, observed>>

\* write_frame_synchronously: write_all at the end of the file, then sync_data.
WriteSome(p) ==
    /\ pc[p] = "writing"
    /\ file' = Append(file, TornFrame)
    /\ pc' = [pc EXCEPT ![p] = "partial"]
    /\ UNCHANGED <<header, synced, lock, policy, mem, payload, inflight, acked, observed>>

WriteRest(p) ==
    /\ pc[p] = "partial"
    /\ file' = [file EXCEPT ![Len(file)] = inflight[p]]
    /\ pc' = [pc EXCEPT ![p] = "written"]
    /\ UNCHANGED <<header, synced, lock, policy, mem, payload, inflight, acked, observed>>

\* sync_data makes the whole file durable; only then is the in-memory head
\* moved and the receipt returned.
SyncAppend(p) ==
    /\ pc[p] = "written"
    /\ synced' = Len(file)
    /\ header' = "ok"
    /\ mem' = [mem EXCEPT ![p] = [head   |-> HeadOf(inflight[p]),
                                  frames |-> Append(@.frames, inflight[p])]]
    /\ payload' = [payload EXCEPT ![p] = @ + SumSizes(inflight[p].sizes)]
    /\ acked' = acked \cup {inflight[p]}
    /\ pc' = [pc EXCEPT ![p] = "open"]
    /\ UNCHANGED <<file, lock, policy, inflight, observed>>

\* A failed write, flush or sync: DurabilityAmbiguous, and the writer refuses
\* every later append.
WriteFails(p) ==
    /\ pc[p] \in {"writing", "partial", "written"}
    /\ pc' = [pc EXCEPT ![p] = "poisoned"]
    /\ UNCHANGED <<fileVars, lock, policy, mem, payload, inflight, acked, observed>>

\* The writer is dropped, or its process dies between two I/O calls: the
\* operating system keeps every byte already written and releases the lock.
Exit(p) ==
    /\ pc[p] # "closed"
    /\ lock' = IF lock = p THEN NoProc ELSE lock
    /\ Forget(p)
    /\ UNCHANGED <<fileVars, acked, observed>>

\* inspect: shared lock, no repair; a torn tail is reported, not removed.
Inspect(p) ==
    /\ pc[p] = "closed" /\ lock = NoProc
    /\ HeaderValid /\ ~ScanFails
    /\ observed' = observed \cup Range(ValidItems)
    /\ UNCHANGED <<fileVars, procVars, acked>>

HeadersAfterLoss ==
    CASE header = "missing" -> {"missing"}
      [] header = "empty"   -> {"missing", "empty"}
      [] header = "torn"    -> {"missing", "empty", "torn"}
      [] header = "written" -> {"missing", "empty", "torn", "ok"}
      [] header = "ok"      -> {"ok"}

\* External: the machine loses power.  Synced bytes survive, unsynced bytes
\* survive up to some point; an unsynced truncation may be undone.
PowerLoss ==
    /\ \E n \in synced..Len(file), tear \in BOOLEAN, h \in HeadersAfterLoss :
         /\ tear => n < Len(file) \/ \E p \in Procs : pc[p] = "truncated"
         /\ h # "ok" => n = 0 /\ ~tear
         /\ file' = (IF tear THEN Append(SubSeq(file, 1, n), TornFrame)
                          ELSE SubSeq(file, 1, n))
         /\ synced' = n + (IF tear THEN 1 ELSE 0)
         /\ header' = h
    /\ lock' = NoProc
    /\ pc' = [p \in Procs |-> "closed"]
    /\ policy' = [p \in Procs |-> "strict"]
    /\ mem' = [p \in Procs |-> NoMem]
    /\ payload' = [p \in Procs |-> 0]
    /\ inflight' = [p \in Procs |-> TornFrame]
    /\ observed' = observed \cap Range(file')
    /\ UNCHANGED acked

Next ==
    \/ \E p \in Procs :
         \/ \E how \in Policies : OpenAndLock(p, how)
         \/ StartHeader(p) \/ FinishHeader(p) \/ SyncHeader(p)
         \/ OpenComplete(p) \/ TruncateTail(p) \/ SyncRepair(p) \/ OpenRefused(p)
         \/ \E batch \in Batches : BeginAppend(p, mem[p].head, batch)
         \/ WriteSome(p) \/ WriteRest(p) \/ SyncAppend(p) \/ WriteFails(p)
         \/ Exit(p) \/ Inspect(p)
    \/ PowerLoss

Spec == Init /\ [][Next]_vars

-----------------------------------------------------------------------------
(* Properties                                                               *)

Frames == [torn : BOOLEAN, transaction : Nat, first : Nat, sizes : Seq(Nat)]
Heads == [transaction : Nat, sequence : Nat]

\* Every variable keeps its type; in particular the in-memory head of a writer
\* stays a head although it is rebuilt by scans and moved by appends.  (The
\* payload counters are pinned exactly by WriterMatchesFile.)
TypeOK ==
    /\ header \in Headers
    /\ file \in Seq(Frames)
    /\ synced \in 0..Len(file)
    /\ lock \in Procs \cup {NoProc}
    /\ pc \in [Procs -> Stages]
    /\ policy \in [Procs -> Policies]
    /\ mem \in [Procs -> [head : Heads, frames : Seq(Frames)]]
    /\ inflight \in [Procs -> Frames]
    /\ acked \subseteq Frames
    /\ observed \subseteq Frames

\* A DurabilityReceipt is a promise: a receipted transaction is in the file at
\* the position its id names, behind a valid header and inside the synced
\* prefix, whatever write failures, deaths, repairs and power losses follow.
AckedDurable ==
    \A f \in acked : /\ header = "ok"
                     /\ f.transaction \in 1..synced
                     /\ file[f.transaction] = f

\* scan_transactions never meets corruption that the ledger itself produced:
\* a failed or interrupted append leaves at most one torn final frame, so the
\* only damage a writer's open has to repair is a tail.
NeverCorrupt == ~Corrupt

\* The limits append enforces are the limits the scan enforces, so no ledger
\* grows to a size its own next open refuses with ReplayLimitExceeded.
NeverOverReplayLimit == ~OverReplayLimit

\* An idle writer's head, events and payload count are those a fresh scan of
\* the file would compute, so the expected-head test of append compares with
\* the real file.
WriterMatchesFile ==
    \A p \in Procs : pc[p] = "open" =>
        /\ ~HasTail
        /\ mem[p] = ScannedMem
        /\ payload[p] = PayloadBytes(file)

\* No transaction is receipted while an earlier one could still be lost: what a
\* recovered writer replayed from unsynced bytes is hardened by its next append.
ReceiptHardensPrefix ==
    [][\A f \in acked' \ acked : synced' >= f.transaction /\ synced' = Len(file')]_vars

\* A transaction that some open or inspect reported disappears only when the
\* machine loses power; repair, retries after poison and process deaths keep it.
ObservedNotForgotten == \A f \in observed : f \in Range(file)

\* What processes believe of the file is so: an idle writer's memory is what a
\* scan would rebuild, that scan accepts the file, and what any open or inspect
\* has reported is still there.
ViewsAreTrue == WriterMatchesFile /\ NeverOverReplayLimit /\ ObservedNotForgotten

\* The file ledger implements the abstract durable log: what replay returns is
\* the log, the synced part of it is durable.  A torn tail, its repair, a
\* poisoned writer and a change of owner are invisible at that level.
Log == INSTANCE DurableLog
    WITH log     <- ValidItems,
         durable <- IF synced > Len(ValidItems) THEN Len(ValidItems) ELSE synced

ImplementsDurableLog == Log!Spec
=============================================================================
