-------------------------- MODULE FileLedgerProofs --------------------------
(***************************************************************************)
(* Theorems about FileLedger for every set of processes and transactions.   *)
(*                                                                          *)
(* AckedDurable is not inductive: whether a receipt can be trusted depends  *)
(* on the shape of the whole file and on what the one process inside        *)
(* open or append knows about it.  LedgerInv states both.                   *)
(*                                                                          *)
(* Also about the terminal in front of the Ledgers: what its session keeps  *)
(* on the screen, and that the screen shows the frame.                      *)
(***************************************************************************)
EXTENDS FileLedger, TerminalSession, TerminalRenderer, FoldSums, SequenceTheorems

\* Item i is a complete frame carrying transaction id i and the event numbers
\* that follow the previous frame's.
FrameAt(i) ==
    /\ ~file[i].torn
    /\ file[i].transaction = i
    /\ file[i].first = HeadAt(file, i - 1).sequence + 1
    /\ file[i].sizes \in Batches

\* Only the last item may be a fragment.
FileShape ==
    \A i \in 1..Len(file) : FrameAt(i) \/ (i = Len(file) /\ file[i] = TornFrame)

\* No frame lies behind a header that validate_header would refuse.
HeaderFirst == file # <<>> => HeaderValid

LockHeld == \A p \in Procs : pc[p] # "closed" => lock = p

\* The frame p is writing continues the first n items of the file.
InflightFollows(p, n) ==
    \E batch \in Batches :
        inflight[p] = Frame(HeadAt(file, n).transaction + 1,
                            HeadAt(file, n).sequence + 1, batch)

\* What the process inside open or append knows about the file.
StageOK(p) ==
    /\ pc[p] = "creating" => file = <<>> /\ header \in {"torn", "written"}
    /\ pc[p] = "truncated" => ~HasTail /\ HeaderValid
    /\ pc[p] = "open" =>
         ~HasTail /\ HeaderValid /\ mem[p].head = HeadAt(file, Len(file))
    /\ pc[p] = "writing" =>
         ~HasTail /\ HeaderValid /\ InflightFollows(p, Len(file))
    /\ pc[p] = "partial" =>
         HasTail /\ HeaderValid /\ InflightFollows(p, Len(file) - 1)
    /\ pc[p] = "written" =>
         ~HasTail /\ HeaderValid /\ file # <<>> /\ file[Len(file)] = inflight[p]

LedgerInv ==
    /\ TypeOK
    /\ FileShape
    /\ HeaderFirst
    /\ LockHeld
    /\ \A p \in Procs : StageOK(p)
    /\ AckedDurable

-----------------------------------------------------------------------------
\* A prefix of a sequence.
LEMMA PrefixSeq ==
    ASSUME NEW S, NEW s \in Seq(S), NEW n \in 0..Len(s)
    PROVE  /\ SubSeq(s, 1, n) \in Seq(S)
           /\ Len(SubSeq(s, 1, n)) = n
           /\ \A i \in 1..n : SubSeq(s, 1, n)[i] = s[i]
  <1>1. \A i \in 1..n : s[i] \in S
    OBVIOUS
  <1>2. /\ SubSeq(s, 1, n) \in Seq(S)
        /\ Len(SubSeq(s, 1, n)) = IF 1 <= n THEN n - 1 + 1 ELSE 0
        /\ \A i \in 1..n - 1 + 1 : SubSeq(s, 1, n)[i] = s[1 + i - 1]
    BY <1>1, SubSeqProperties
  <1>3. QED
    BY <1>2

LEMMA TornIsFrame == TornFrame \in Frames /\ TornFrame.torn
  <1>1. <<>> \in Seq(Nat)
    OBVIOUS
  <1>2. QED
    BY <1>1 DEF TornFrame, Frames

LEMMA FrameIsFrame ==
    ASSUME NEW t \in Nat, NEW n \in Nat, NEW b \in Batches
    PROVE  /\ Frame(t, n, b) \in Frames
           /\ ~Frame(t, n, b).torn
           /\ Frame(t, n, b).transaction = t
           /\ Frame(t, n, b).first = n
           /\ Frame(t, n, b).sizes = b
  BY BatchesAssumption DEF Frame, Frames

\* The head after a frame of the file is a head.
LEMMA HeadOfType ==
    ASSUME NEW f \in Frames, f.sizes \in Batches
    PROVE  HeadOf(f) \in Heads
  <1>1. Len(f.sizes) \in Nat /\ Len(f.sizes) >= 1
    BY BatchesAssumption
  <1>2. f.first + Len(f.sizes) - 1 \in Nat
    BY <1>1 DEF Frames
  <1>3. QED
    BY <1>2 DEF HeadOf, Heads, Frames

LEMMA HeadAtType ==
    ASSUME TypeOK, FileShape, NEW n \in 0..Len(file),
           n > 0 => ~file[n].torn
    PROVE  HeadAt(file, n) \in Heads /\ HeadAt(file, n).transaction = n
  <1>1. CASE n = 0
    BY <1>1 DEF HeadAt, NoHead, Heads
  <1>2. CASE n # 0
    <2>1. file[n] \in Frames /\ FrameAt(n)
      BY <1>2, TornIsFrame DEF TypeOK, FileShape
    <2>2. HeadOf(file[n]) \in Heads /\ HeadOf(file[n]).transaction = n
      BY <2>1, HeadOfType DEF FrameAt, HeadOf
    <2>3. QED
      BY <1>2, <2>2 DEF HeadAt
  <1>3. QED
    BY <1>1, <1>2

\* A scan of a well-shaped file drops at most the final fragment.
LEMMA ValidItemsShape ==
    ASSUME TypeOK, FileShape
    PROVE  /\ ValidItems \in Seq(Frames)
           /\ Len(ValidItems) = IF HasTail THEN Len(file) - 1 ELSE Len(file)
           /\ \A i \in 1..Len(ValidItems) :
                ValidItems[i] = file[i] /\ FrameAt(i)
           /\ ~HasTail => ValidItems = file
  <1>1. CASE HasTail
    <2>1. Len(file) \in Nat /\ Len(file) >= 1
      BY <1>1 DEF HasTail, TypeOK
    <2>2. file \in Seq(Frames) /\ Len(file) - 1 \in 0..Len(file)
      BY <2>1 DEF TypeOK
    <2>3. /\ SubSeq(file, 1, Len(file) - 1) \in Seq(Frames)
          /\ Len(SubSeq(file, 1, Len(file) - 1)) = Len(file) - 1
          /\ \A i \in 1..(Len(file) - 1) : SubSeq(file, 1, Len(file) - 1)[i] = file[i]
      BY <2>2, PrefixSeq
    <2>4. \A i \in 1..(Len(file) - 1) : FrameAt(i)
      BY <2>1 DEF FileShape
    <2>5. QED
      BY <1>1, <2>3, <2>4 DEF ValidItems
  <1>2. CASE ~HasTail
    <2>1. ValidItems = file
      BY <1>2 DEF ValidItems
    <2>2. \A i \in 1..Len(file) : FrameAt(i)
      BY <1>2, TornIsFrame DEF FileShape, HasTail, TypeOK
    <2>3. QED
      BY <1>2, <2>1, <2>2 DEF TypeOK
  <1>3. QED
    BY <1>1, <1>2

LEMMA InitInv == Init => LedgerInv
  <1> SUFFICES ASSUME Init PROVE LedgerInv
    OBVIOUS
  <1>1. file = <<>> /\ Len(file) = 0 /\ file \in Seq(Frames)
    BY DEF Init
  <1>2. NoMem \in [head : Heads, frames : Seq(Frames)]
    BY DEF NoMem, NoHead, Heads
  <1>3. TypeOK
    BY <1>1, <1>2, TornIsFrame DEF Init, TypeOK, Headers, Stages, Policies
  <1>4. FileShape /\ HeaderFirst /\ LockHeld /\ AckedDurable
    BY <1>1 DEF Init, FileShape, HeaderFirst, LockHeld, AckedDurable
  <1>5. \A p \in Procs : StageOK(p)
    BY DEF Init, StageOK
  <1>6. QED
    BY <1>3, <1>4, <1>5 DEF LedgerInv

-----------------------------------------------------------------------------
(* Steps that leave the items of the file alone.                            *)

\* StageOK(p) speaks of p's own state, the file and the header only, so it is
\* kept when those are kept.
LEMMA StageFrame ==
    ASSUME NEW q \in Procs, StageOK(q), file' = file,
           HeaderValid => HeaderValid',
           pc'[q] = pc[q], mem'[q] = mem[q], inflight'[q] = inflight[q],
           pc[q] = "creating" => header' \in {"torn", "written"}
    PROVE  StageOK(q)'
  BY DEF StageOK, HasTail, HeadAt, InflightFollows

\* A process that is closed constrains nothing.
LEMMA StageClosed ==
    ASSUME NEW q \in Procs, pc'[q] \in {"closed", "locked", "poisoned"}
    PROVE  StageOK(q)'
  BY DEF StageOK

\* The file and its header are kept, so everything but p's stage carries over.
LEMMA SameFileInv ==
    ASSUME LedgerInv, UNCHANGED <<header, file, synced, acked>>,
           TypeOK', LockHeld', \A q \in Procs : StageOK(q)'
    PROVE  LedgerInv'
  BY DEF LedgerInv, FileShape, FrameAt, HeadAt, HeaderFirst, HeaderValid,
         AckedDurable

\* While p holds the lock every other process is closed.
LEMMA OthersClosed ==
    ASSUME TypeOK, LockHeld, NEW p \in Procs, pc[p] # "closed",
           NEW q \in Procs, q # p
    PROVE  pc[q] = "closed"
  BY DEF LockHeld, TypeOK

-----------------------------------------------------------------------------
(* One lemma per action.                                                    *)

LEMMA OpenAndLockInv ==
    ASSUME LedgerInv, NEW p \in Procs, NEW how \in Policies, OpenAndLock(p, how)
    PROVE  LedgerInv'
  <1> USE DEF OpenAndLock
  <1>1. TypeOK'
    BY DEF LedgerInv, TypeOK, Headers, Stages
  <1>2. LockHeld'
    BY NoProcAssumption DEF LedgerInv, TypeOK, LockHeld
  <1>3. ASSUME NEW q \in Procs PROVE StageOK(q)'
    <2>1. pc'[q] \in {"closed", "locked"}
      BY NoProcAssumption DEF LedgerInv, TypeOK, LockHeld
    <2>2. QED
      BY <2>1, StageClosed
  <1>4. HeaderFirst' /\ FileShape'
    BY DEF LedgerInv, HeaderFirst, HeaderValid, FileShape, FrameAt, HeadAt
  <1>5. AckedDurable'
    BY DEF LedgerInv, AckedDurable
  <1>6. QED
    BY <1>1, <1>2, <1>3, <1>4, <1>5 DEF LedgerInv

LEMMA HeaderStepInv ==
    ASSUME LedgerInv, NEW p \in Procs,
           StartHeader(p) \/ FinishHeader(p) \/ SyncHeader(p)
    PROVE  LedgerInv'
  <1> USE DEF StartHeader, FinishHeader, SyncHeader, procVars
  <1>1. TypeOK'
    BY DEF LedgerInv, TypeOK, Headers, Stages
  <1>2. LockHeld'
    BY DEF LedgerInv, TypeOK, LockHeld
  <1>3. file = <<>> /\ header # "ok"
    BY DEF LedgerInv, HeaderFirst, HeaderValid, StageOK
  <1>4. HeaderFirst' /\ FileShape'
    BY <1>3 DEF LedgerInv, HeaderFirst, FileShape, FrameAt, HeadAt
  <1>5. AckedDurable'
    BY <1>3 DEF LedgerInv, AckedDurable
  <1>6. ASSUME NEW q \in Procs PROVE StageOK(q)'
    <2>1. CASE q = p
      BY <1>3, <2>1 DEF LedgerInv, TypeOK, StageOK, HeaderValid
    <2>2. CASE q # p
      <3>1. pc'[q] = "closed"
        BY <2>2, OthersClosed DEF LedgerInv, TypeOK
      <3>2. QED
        BY <3>1, StageClosed
    <2>3. QED
      BY <2>1, <2>2
  <1>7. QED
    BY <1>1, <1>2, <1>4, <1>5, <1>6 DEF LedgerInv

\* What a scan loads is a writer state that agrees with the file.
LEMMA ScannedMemType ==
    ASSUME TypeOK, FileShape
    PROVE  /\ ScannedMem \in [head : Heads, frames : Seq(Frames)]
           /\ ~HasTail => ScannedMem.head = HeadAt(file, Len(file))
           /\ Range(ValidItems) \subseteq Frames
  <1> DEFINE n == Len(ValidItems)
  <1>1. /\ n \in 0..Len(file)
        /\ ValidItems \in Seq(Frames)
        /\ \A i \in 1..n : ValidItems[i] = file[i] /\ FrameAt(i)
        /\ ~HasTail => ValidItems = file
    BY ValidItemsShape DEF HasTail, TypeOK
  <1>2. HeadAt(file, n) \in Heads
    BY <1>1, HeadAtType DEF FrameAt
  <1>3. HeadAt(ValidItems, n) = HeadAt(file, n)
    BY <1>1 DEF HeadAt
  <1>4. Range(ValidItems) \subseteq Frames
    BY <1>1 DEF Range
  <1>5. QED
    BY <1>1, <1>2, <1>3, <1>4 DEF ScannedMem

LEMMA OpenCompleteInv ==
    ASSUME LedgerInv, NEW p \in Procs, OpenComplete(p)
    PROVE  LedgerInv'
  <1> USE DEF OpenComplete, Load
  <1>1. /\ ScannedMem \in [head : Heads, frames : Seq(Frames)]
        /\ ScannedMem.head = HeadAt(file, Len(file))
        /\ Range(ValidItems) \subseteq Frames
    BY ScannedMemType DEF LedgerInv
  <1>2. TypeOK'
    BY <1>1 DEF LedgerInv, TypeOK, Stages
  <1>3. LockHeld'
    BY DEF LedgerInv, TypeOK, LockHeld
  <1>4. ASSUME NEW q \in Procs PROVE StageOK(q)'
    <2>1. CASE q = p
      BY <1>1, <2>1 DEF LedgerInv, TypeOK, StageOK, HasTail, HeaderValid, HeadAt
    <2>2. CASE q # p
      <3>1. pc'[q] = "closed"
        BY <2>2, OthersClosed DEF LedgerInv, TypeOK
      <3>2. QED
        BY <3>1, StageClosed
    <2>3. QED
      BY <2>1, <2>2
  <1>5. QED
    BY <1>2, <1>3, <1>4, SameFileInv

LEMMA BeginAppendInv ==
    ASSUME LedgerInv, NEW p \in Procs, NEW batch \in Batches,
           BeginAppend(p, mem[p].head, batch)
    PROVE  LedgerInv'
  <1> USE DEF BeginAppend, AppendAccepted, fileVars
  <1>1. mem[p].head \in Heads /\ mem[p].head = HeadAt(file, Len(file)) /\ ~HasTail /\ HeaderValid
    BY DEF LedgerInv, StageOK, TypeOK
  <1>2. Frame(mem[p].head.transaction + 1, mem[p].head.sequence + 1, batch) \in Frames
    BY <1>1, FrameIsFrame DEF Heads
  <1>3. TypeOK'
    BY <1>2 DEF LedgerInv, TypeOK, Stages
  <1>4. LockHeld'
    BY DEF LedgerInv, TypeOK, LockHeld
  <1>5. ASSUME NEW q \in Procs PROVE StageOK(q)'
    <2>1. CASE q = p
      <3>1. pc'[q] = "writing"
        BY <2>1 DEF LedgerInv, TypeOK
      <3>2. InflightFollows(q, Len(file))'
        BY <1>1, <2>1 DEF LedgerInv, TypeOK, InflightFollows, HeadAt
      <3>3. ~HasTail' /\ HeaderValid'
        BY <1>1 DEF HasTail, HeaderValid
      <3>4. QED
        BY <3>1, <3>2, <3>3 DEF StageOK
    <2>2. CASE q # p
      <3>1. pc'[q] = "closed"
        BY <2>2, OthersClosed DEF LedgerInv, TypeOK
      <3>2. QED
        BY <3>1, StageClosed
    <2>3. QED
      BY <2>1, <2>2
  <1>6. QED
    BY <1>3, <1>4, <1>5, SameFileInv

LEMMA WriteFailsInv ==
    ASSUME LedgerInv, NEW p \in Procs, WriteFails(p)
    PROVE  LedgerInv'
  <1> USE DEF WriteFails, fileVars
  <1>1. TypeOK' /\ LockHeld'
    BY DEF LedgerInv, TypeOK, LockHeld, Stages
  <1>2. ASSUME NEW q \in Procs PROVE StageOK(q)'
    <2>1. pc'[q] \in {"closed", "locked", "poisoned"}
      BY OthersClosed DEF LedgerInv, TypeOK
    <2>2. QED
      BY <2>1, StageClosed
  <1>3. QED
    BY <1>1, <1>2, SameFileInv

LEMMA LeaveInv ==
    ASSUME LedgerInv, NEW p \in Procs, OpenRefused(p) \/ Exit(p)
    PROVE  LedgerInv'
  <1>1. /\ pc[p] # "closed"
        /\ lock' \in Procs \cup {NoProc}
        /\ Forget(p)
        /\ UNCHANGED <<header, file, synced, acked, observed>>
    BY DEF OpenRefused, Exit, fileVars, LedgerInv, TypeOK
  <1>2. NoMem \in [head : Heads, frames : Seq(Frames)]
    BY DEF NoMem, NoHead, Heads
  <1>3. TypeOK'
    BY <1>1, <1>2, TornIsFrame DEF Forget, LedgerInv, TypeOK, Stages, Policies
  <1>4. ASSUME NEW q \in Procs PROVE pc'[q] = "closed"
    <2>1. CASE q = p
      BY <1>1, <2>1 DEF Forget, LedgerInv, TypeOK
    <2>2. CASE q # p
      <3>1. pc[q] = "closed"
        BY <1>1, <2>2, OthersClosed DEF LedgerInv
      <3>2. QED
        BY <1>1, <2>2, <3>1 DEF Forget, LedgerInv, TypeOK
    <2>3. QED
      BY <2>1, <2>2
  <1>5. LockHeld'
    BY <1>4 DEF LockHeld
  <1>6. \A q \in Procs : StageOK(q)'
    BY <1>4, StageClosed
  <1>7. QED
    BY <1>1, <1>3, <1>5, <1>6, SameFileInv

LEMMA InspectInv ==
    ASSUME LedgerInv, NEW p \in Procs, Inspect(p)
    PROVE  LedgerInv'
  <1> USE DEF Inspect, fileVars, procVars
  <1>1. Range(ValidItems) \subseteq Frames
    BY ScannedMemType DEF LedgerInv
  <1>2. TypeOK'
    BY <1>1 DEF LedgerInv, TypeOK
  <1>3. LockHeld'
    BY DEF LedgerInv, LockHeld
  <1>4. \A q \in Procs : StageOK(q)'
    BY DEF LedgerInv, StageOK, HasTail, HeaderValid, HeadAt, InflightFollows
  <1>5. QED
    BY <1>2, <1>3, <1>4, SameFileInv

-----------------------------------------------------------------------------
(* Steps that change the items of the file.                                 *)

LEMMA TruncateTailInv ==
    ASSUME LedgerInv, NEW p \in Procs, TruncateTail(p)
    PROVE  LedgerInv'
  <1> USE DEF TruncateTail
  <1>1. /\ file' \in Seq(Frames)
        /\ Len(file) \in Nat /\ Len(file) >= 1
        /\ Len(file') = Len(file) - 1
        /\ \A i \in 1..Len(file') : file'[i] = file[i] /\ FrameAt(i)
    BY ValidItemsShape DEF LedgerInv, HasTail, TypeOK
  <1>2. synced' \in 0..Len(file')
    BY <1>1 DEF LedgerInv, TypeOK
  <1>3. TypeOK'
    BY <1>1, <1>2 DEF LedgerInv, TypeOK, Stages
  <1>4. LockHeld' /\ HeaderFirst'
    BY DEF LedgerInv, TypeOK, LockHeld, HeaderFirst, HeaderValid
  <1>5. FileShape'
    <2> SUFFICES ASSUME NEW i \in 1..Len(file')
                 PROVE  FrameAt(i)'
      BY DEF FileShape
    <2>1. i \in Nat /\ i >= 1 /\ (i = 1 \/ i - 1 \in 1..Len(file'))
      BY <1>1
    <2>2. HeadAt(file', i - 1) = HeadAt(file, i - 1)
      BY <1>1, <2>1 DEF HeadAt
    <2>3. QED
      BY <1>1, <2>2 DEF FrameAt
  <1>6. AckedDurable'
    <2> SUFFICES ASSUME NEW f \in acked
                 PROVE  header' = "ok" /\ f.transaction \in 1..synced' /\ file'[f.transaction] = f
      BY DEF AckedDurable
    <2>1. header = "ok" /\ f.transaction \in 1..synced /\ file[f.transaction] = f /\ f \in Frames
      BY DEF LedgerInv, AckedDurable, TypeOK
    <2>2. file[Len(file)].torn
      BY DEF HasTail
    <2>3. ~f.torn
      <3>1. file[f.transaction] # TornFrame
        BY <2>1, <1>1 DEF TornFrame, LedgerInv, TypeOK
      <3>2. f.transaction \in 1..Len(file)
        BY <2>1, <1>1 DEF LedgerInv, TypeOK
      <3>3. QED
        BY <2>1, <3>1, <3>2 DEF LedgerInv, FileShape, FrameAt
    <2>4. f.transaction # Len(file)
      BY <2>1, <2>2, <2>3
    <2>5. f.transaction \in 1..synced' /\ f.transaction \in 1..Len(file')
      BY <1>1, <2>1, <2>4 DEF LedgerInv, TypeOK
    <2>6. QED
      BY <1>1, <2>1, <2>5
  <1>7. ASSUME NEW q \in Procs PROVE StageOK(q)'
    <2>1. CASE q = p
      <3>1. ~HasTail' /\ HeaderValid'
        BY <1>1, <1>3 DEF HasTail, HeaderValid, FrameAt, TypeOK
      <3>2. pc'[q] = "truncated"
        BY <2>1 DEF LedgerInv, TypeOK
      <3>3. QED
        BY <3>1, <3>2 DEF StageOK
    <2>2. CASE q # p
      <3>1. pc'[q] = "closed"
        BY <2>2, OthersClosed DEF LedgerInv, TypeOK
      <3>2. QED
        BY <3>1, StageClosed
    <2>3. QED
      BY <2>1, <2>2
  <1>8. QED
    BY <1>3, <1>4, <1>5, <1>6, <1>7 DEF LedgerInv

LEMMA SyncRepairInv ==
    ASSUME LedgerInv, NEW p \in Procs, SyncRepair(p)
    PROVE  LedgerInv'
  <1> USE DEF SyncRepair, Load
  <1>1. /\ ScannedMem \in [head : Heads, frames : Seq(Frames)]
        /\ ~HasTail => ScannedMem.head = HeadAt(file, Len(file))
        /\ Range(ValidItems) \subseteq Frames
    BY ScannedMemType DEF LedgerInv
  <1>2. TypeOK'
    BY <1>1 DEF LedgerInv, TypeOK, Stages, Headers
  <1>3. LockHeld' /\ HeaderFirst' /\ FileShape'
    BY DEF LedgerInv, TypeOK, LockHeld, HeaderFirst, HeaderValid, FileShape, FrameAt, HeadAt
  <1>4. AckedDurable'
    BY DEF LedgerInv, AckedDurable, TypeOK
  <1>5. ASSUME NEW q \in Procs PROVE StageOK(q)'
    <2>1. CASE q = p
      <3>1. ~HasTail
        BY DEF LedgerInv, StageOK
      <3>2. QED
        BY <1>1, <2>1, <3>1 DEF LedgerInv, TypeOK, StageOK, HasTail, HeaderValid, HeadAt
    <2>2. CASE q # p
      <3>1. pc'[q] = "closed"
        BY <2>2, OthersClosed DEF LedgerInv, TypeOK
      <3>2. QED
        BY <3>1, StageClosed
    <2>3. QED
      BY <2>1, <2>2
  <1>6. QED
    BY <1>2, <1>3, <1>4, <1>5 DEF LedgerInv

LEMMA WriteSomeInv ==
    ASSUME LedgerInv, NEW p \in Procs, WriteSome(p)
    PROVE  LedgerInv'
  <1> USE DEF WriteSome
  <1>1. /\ file' \in Seq(Frames)
        /\ Len(file) \in Nat
        /\ Len(file') = Len(file) + 1
        /\ \A i \in 1..Len(file) : file'[i] = file[i]
        /\ file'[Len(file')] = TornFrame
    BY TornIsFrame DEF LedgerInv, TypeOK
  <1>2. ~HasTail /\ HeaderValid /\ InflightFollows(p, Len(file))
    BY DEF LedgerInv, StageOK
  <1>3. \A i \in 1..Len(file) : FrameAt(i)
    BY <1>1, <1>2, ValidItemsShape DEF LedgerInv
  <1>4. TypeOK'
    BY <1>1 DEF LedgerInv, TypeOK, Stages
  <1>5. LockHeld' /\ HeaderFirst'
    BY <1>2 DEF LedgerInv, TypeOK, LockHeld, HeaderFirst, HeaderValid
  <1>6. FileShape'
    BY <1>1, <1>3 DEF FileShape, FrameAt, HeadAt
  <1>7. AckedDurable'
    BY <1>1 DEF LedgerInv, AckedDurable, TypeOK
  <1>8. ASSUME NEW q \in Procs PROVE StageOK(q)'
    <2>1. CASE q = p
      <3>1. HasTail'
        BY <1>1, TornIsFrame DEF HasTail
      <3>2. HeadAt(file', Len(file') - 1) = HeadAt(file, Len(file))
        BY <1>1 DEF HeadAt
      <3>3. InflightFollows(p, Len(file) - 1)'
        BY <1>2, <3>2 DEF InflightFollows
      <3>4. pc'[q] = "partial" /\ HeaderValid'
        BY <2>1, <1>2 DEF LedgerInv, TypeOK, HeaderValid
      <3>5. QED
        BY <2>1, <3>1, <3>3, <3>4 DEF StageOK
    <2>2. CASE q # p
      <3>1. pc'[q] = "closed"
        BY <2>2, OthersClosed DEF LedgerInv, TypeOK
      <3>2. QED
        BY <3>1, StageClosed
    <2>3. QED
      BY <2>1, <2>2
  <1>9. QED
    BY <1>4, <1>5, <1>6, <1>7, <1>8 DEF LedgerInv

LEMMA WriteRestInv ==
    ASSUME LedgerInv, NEW p \in Procs, WriteRest(p)
    PROVE  LedgerInv'
  <1> USE DEF WriteRest
  <1> DEFINE n == Len(file)
  <1>1. HasTail /\ HeaderValid /\ InflightFollows(p, n - 1)
    BY DEF LedgerInv, StageOK
  <1>2. n \in Nat /\ n >= 1 /\ file[n].torn
    BY <1>1 DEF HasTail, LedgerInv, TypeOK
  <1>3. \A i \in 1..(n - 1) : FrameAt(i)
    BY <1>2 DEF LedgerInv, FileShape
  <1>4. HeadAt(file, n - 1) \in Heads /\ HeadAt(file, n - 1).transaction = n - 1
    BY <1>2, <1>3, HeadAtType DEF LedgerInv, FrameAt
  <1>5. /\ inflight[p] \in Frames
        /\ ~inflight[p].torn
        /\ inflight[p].transaction = n
        /\ inflight[p].first = HeadAt(file, n - 1).sequence + 1
        /\ inflight[p].sizes \in Batches
    BY <1>1, <1>2, <1>4, FrameIsFrame DEF InflightFollows, Heads
  <1>6. /\ file' \in Seq(Frames)
        /\ Len(file') = n
        /\ \A i \in 1..n : file'[i] = IF i = n THEN inflight[p] ELSE file[i]
    BY <1>2, <1>5 DEF LedgerInv, TypeOK
  <1>7. TypeOK'
    BY <1>6 DEF LedgerInv, TypeOK, Stages
  <1>8. LockHeld' /\ HeaderFirst'
    BY <1>1 DEF LedgerInv, TypeOK, LockHeld, HeaderFirst, HeaderValid
  <1>9. ASSUME NEW i \in 1..n PROVE FrameAt(i)'
    <2>1. i - 1 \in 0..(n - 1)
      BY <1>2
    <2>2. HeadAt(file', i - 1) = HeadAt(file, i - 1)
      BY <1>2, <1>6, <2>1 DEF HeadAt
    <2>3. CASE i = n
      BY <1>5, <1>6, <2>2, <2>3 DEF FrameAt
    <2>4. CASE i # n
      <3>1. i \in 1..(n - 1)
        BY <1>2, <2>4
      <3>2. FrameAt(i)
        BY <1>3, <3>1
      <3>3. file'[i] = file[i]
        BY <1>6, <2>4, Zenon
      <3>4. QED
        BY <2>2, <3>2, <3>3 DEF FrameAt
    <2>5. QED
      BY <2>3, <2>4
  <1>10. FileShape'
    <2>1. ASSUME NEW i \in 1..Len(file') PROVE FrameAt(i)'
      <3>1. i \in 1..n
        BY <1>6
      <3> HIDE DEF n
      <3>2. QED
        BY <1>9, <3>1
    <2>2. QED
      BY <2>1, Zenon DEF FileShape
  <1>11. ASSUME NEW f \in acked
         PROVE  header' = "ok" /\ f.transaction \in 1..synced' /\ file'[f.transaction] = f
    <2>1. header = "ok" /\ f.transaction \in 1..synced /\ file[f.transaction] = f
      BY DEF LedgerInv, AckedDurable
    <2>2. f.transaction \in 1..n
      BY <2>1 DEF LedgerInv, TypeOK
    <2>3. f.transaction # n
      <3>1. file[n] = TornFrame
        BY <1>2 DEF LedgerInv, FileShape, FrameAt
      <3>2. TornFrame.transaction = 0
        BY DEF TornFrame
      <3>3. QED
        BY <1>2, <2>1, <3>1, <3>2
    <2>4. QED
      BY <1>6, <2>1, <2>2, <2>3
  <1>12. AckedDurable'
    BY <1>11 DEF AckedDurable
  <1>13. ASSUME NEW q \in Procs PROVE StageOK(q)'
    <2>1. CASE q = p
      <3>1. ~HasTail' /\ file' # <<>> /\ file'[Len(file')] = inflight[p]
        BY <1>2, <1>5, <1>6 DEF HasTail
      <3>2. HeaderValid' /\ pc'[p] = "written"
        BY <1>1 DEF HeaderValid, LedgerInv, TypeOK
      <3>3. QED
        BY <2>1, <3>1, <3>2 DEF StageOK
    <2>2. CASE q # p
      <3>1. pc'[q] = "closed"
        BY <2>2, OthersClosed DEF LedgerInv, TypeOK
      <3>2. QED
        BY <3>1, StageClosed
    <2>3. QED
      BY <2>1, <2>2
  <1>14. QED
    BY <1>7, <1>8, <1>10, <1>12, <1>13 DEF LedgerInv

LEMMA SyncAppendInv ==
    ASSUME LedgerInv, NEW p \in Procs, SyncAppend(p)
    PROVE  LedgerInv'
  <1> USE DEF SyncAppend
  <1> DEFINE n == Len(file)
  <1>1. ~HasTail /\ HeaderValid /\ file # <<>> /\ file[n] = inflight[p]
    BY DEF LedgerInv, StageOK
  <1>2. n \in Nat /\ n >= 1 /\ FrameAt(n) /\ inflight[p] \in Frames
    BY <1>1, TornIsFrame DEF LedgerInv, TypeOK, FileShape, HasTail
  <1>3. inflight[p].transaction = n /\ HeadOf(inflight[p]) \in Heads
    BY <1>1, <1>2, HeadOfType DEF FrameAt
  <1>4. Append(mem[p].frames, inflight[p]) \in Seq(Frames)
    BY <1>2 DEF LedgerInv, TypeOK
  <1>5. TypeOK'
    BY <1>2, <1>3, <1>4 DEF LedgerInv, TypeOK, Stages, Headers
  <1>6. LockHeld' /\ HeaderFirst' /\ FileShape'
    BY DEF LedgerInv, TypeOK, LockHeld, HeaderFirst, HeaderValid, FileShape, FrameAt, HeadAt
  <1>7. AckedDurable'
    BY <1>1, <1>2, <1>3 DEF LedgerInv, AckedDurable, TypeOK
  <1>8. ASSUME NEW q \in Procs PROVE StageOK(q)'
    <2>1. CASE q = p
      <3>1. mem'[p].head = HeadAt(file', Len(file'))
        BY <1>1, <1>2 DEF LedgerInv, TypeOK, HeadAt
      <3>2. ~HasTail' /\ HeaderValid' /\ pc'[p] = "open"
        BY <1>1 DEF LedgerInv, TypeOK, HasTail, HeaderValid
      <3>3. QED
        BY <2>1, <3>1, <3>2 DEF StageOK
    <2>2. CASE q # p
      <3>1. pc'[q] = "closed"
        BY <2>2, OthersClosed DEF LedgerInv, TypeOK
      <3>2. QED
        BY <3>1, StageClosed
    <2>3. QED
      BY <2>1, <2>2
  <1>9. QED
    BY <1>5, <1>6, <1>7, <1>8 DEF LedgerInv

\* What a power loss leaves: the first n items and possibly a fragment.
LEMMA CutFile ==
    ASSUME file \in Seq(Frames), NEW n \in 0..Len(file), NEW tear \in BOOLEAN,
           NEW cut, cut = (IF tear THEN Append(SubSeq(file, 1, n), TornFrame)
                                   ELSE SubSeq(file, 1, n))
    PROVE  /\ cut \in Seq(Frames)
           /\ Len(cut) = n + (IF tear THEN 1 ELSE 0)
           /\ \A i \in 1..n : cut[i] = file[i]
           /\ tear => cut[n + 1] = TornFrame
  <1>1. /\ SubSeq(file, 1, n) \in Seq(Frames)
        /\ Len(SubSeq(file, 1, n)) = n
        /\ \A i \in 1..n : SubSeq(file, 1, n)[i] = file[i]
    BY PrefixSeq
  <1>2. CASE tear
    <2>1. cut = Append(SubSeq(file, 1, n), TornFrame)
      BY <1>2
    <2>2. QED
      BY <1>1, <1>2, <2>1, TornIsFrame, AppendProperties
  <1>3. CASE ~tear
    <2>1. cut = SubSeq(file, 1, n)
      BY <1>3
    <2>2. QED
      BY <1>1, <1>3, <2>1
  <1>4. QED
    BY <1>2, <1>3

LEMMA PowerLossInv == ASSUME LedgerInv, PowerLoss PROVE LedgerInv'
  <1>1. PICK n \in synced..Len(file), tear \in BOOLEAN, h \in HeadersAfterLoss :
         /\ tear => n < Len(file) \/ \E p \in Procs : pc[p] = "truncated"
         /\ h # "ok" => n = 0 /\ ~tear
         /\ file' = (IF tear THEN Append(SubSeq(file, 1, n), TornFrame)
                          ELSE SubSeq(file, 1, n))
         /\ synced' = n + (IF tear THEN 1 ELSE 0)
         /\ header' = h
    BY DEF PowerLoss
  <1>2. /\ file \in Seq(Frames) /\ Len(file) \in Nat
        /\ synced \in 0..Len(file) /\ n \in 0..Len(file) /\ synced <= n
    BY DEF LedgerInv, TypeOK
  <1>3. /\ file' \in Seq(Frames)
        /\ Len(file') = n + (IF tear THEN 1 ELSE 0)
        /\ \A i \in 1..n : file'[i] = file[i]
        /\ tear => file'[n + 1] = TornFrame
    BY <1>1, <1>2, CutFile, SMTT(30)
  <1>4. h \in {"missing", "empty", "torn", "ok"} /\ (header = "ok" => h = "ok")
    BY DEF HeadersAfterLoss, LedgerInv, TypeOK, Headers
  <1>5. NoMem \in [head : Heads, frames : Seq(Frames)]
    BY DEF NoMem, NoHead, Heads
  <1>6. observed' \subseteq Frames
    BY DEF PowerLoss, LedgerInv, TypeOK
  <1>7. TypeOK'
    BY <1>1, <1>2, <1>3, <1>4, <1>5, <1>6, TornIsFrame
       DEF PowerLoss, LedgerInv, TypeOK, Headers, Stages, Policies
  <1>8. LockHeld' /\ \A q \in Procs : StageOK(q)'
    BY StageClosed DEF PowerLoss, LockHeld
  <1>9. HeaderFirst'
    BY <1>1, <1>2, <1>3, <1>4 DEF HeaderFirst, HeaderValid
  <1>10. FileShape'
    <2> SUFFICES ASSUME NEW i \in 1..Len(file')
                 PROVE  FrameAt(i)' \/ (i = Len(file') /\ file'[i] = TornFrame)
      BY DEF FileShape
    <2>1. CASE i \in 1..n
      <3>1. HeadAt(file', i - 1) = HeadAt(file, i - 1)
        BY <1>2, <1>3, <2>1 DEF HeadAt
      <3>2. CASE FrameAt(i)
        BY <1>3, <2>1, <3>1, <3>2 DEF FrameAt
      <3>3. CASE ~FrameAt(i)
        <4>1. i = Len(file) /\ file[i] = TornFrame
          BY <1>2, <2>1, <3>3 DEF LedgerInv, FileShape
        <4>2. ~tear
          <5>1. ASSUME NEW p \in Procs, pc[p] = "truncated" PROVE FALSE
            BY <5>1, <4>1, <1>2, <2>1, TornIsFrame DEF LedgerInv, StageOK, HasTail
          <5>2. QED
            BY <1>1, <1>2, <2>1, <4>1, <5>1
        <4>3. QED
          BY <1>2, <1>3, <2>1, <4>1, <4>2
      <3>4. QED
        BY <3>2, <3>3
    <2>2. CASE i \notin 1..n
      BY <1>2, <1>3, <2>2
    <2>3. QED
      BY <2>1, <2>2
  <1>11. AckedDurable'
    <2> SUFFICES ASSUME NEW f \in acked
                 PROVE  header' = "ok" /\ f.transaction \in 1..synced' /\ file'[f.transaction] = f
      BY DEF AckedDurable, PowerLoss
    <2>1. header = "ok" /\ f.transaction \in 1..synced /\ file[f.transaction] = f
      BY DEF LedgerInv, AckedDurable
    <2>2. f.transaction \in 1..n /\ f.transaction \in 1..synced'
      BY <1>1, <1>2, <2>1
    <2>3. QED
      BY <1>1, <1>3, <1>4, <2>1, <2>2
  <1>12. QED
    BY <1>7, <1>8, <1>9, <1>10, <1>11 DEF LedgerInv

-----------------------------------------------------------------------------
LEMMA NextInv == LedgerInv /\ [Next]_vars => LedgerInv'
  <1> SUFFICES ASSUME LedgerInv, [Next]_vars PROVE LedgerInv'
    OBVIOUS
  <1>1. CASE UNCHANGED vars
    <2>1. TypeOK' /\ LockHeld'
      BY <1>1 DEF vars, LedgerInv, TypeOK, LockHeld
    <2>2. \A q \in Procs : StageOK(q)'
      BY <1>1 DEF vars, LedgerInv, StageOK, HasTail, HeaderValid, HeadAt, InflightFollows
    <2>3. QED
      BY <1>1, <2>1, <2>2, SameFileInv DEF vars
  <1>2. CASE PowerLoss
    BY <1>2, PowerLossInv
  <1>3. ASSUME NEW p \in Procs,
               \/ \E how \in Policies : OpenAndLock(p, how)
               \/ StartHeader(p) \/ FinishHeader(p) \/ SyncHeader(p)
               \/ OpenComplete(p) \/ TruncateTail(p) \/ SyncRepair(p) \/ OpenRefused(p)
               \/ \E batch \in Batches : BeginAppend(p, mem[p].head, batch)
               \/ WriteSome(p) \/ WriteRest(p) \/ SyncAppend(p) \/ WriteFails(p)
               \/ Exit(p) \/ Inspect(p)
        PROVE  LedgerInv'
    BY <1>3, OpenAndLockInv, HeaderStepInv, OpenCompleteInv, TruncateTailInv,
       SyncRepairInv, LeaveInv, BeginAppendInv, WriteSomeInv, WriteRestInv,
       SyncAppendInv, WriteFailsInv, InspectInv
  <1>4. QED
    BY <1>1, <1>2, <1>3 DEF Next

\* Every state reachable by the ledger's own operations, process deaths and
\* power losses satisfies the inductive invariant.
THEOREM LedgerInvariant == Spec => []LedgerInv
  BY InitInv, NextInv, PTL DEF Spec

\* Types of the ledger's state, for every instance.
THEOREM LedgerTypes == Spec => []TypeOK
  <1>1. LedgerInv => TypeOK
    BY DEF LedgerInv
  <1>2. QED
    BY <1>1, LedgerInvariant, PTL

\* A returned DurabilityReceipt is never invalidated (append_with_io).
THEOREM ReceiptsAreDurable == Spec => []AckedDurable
  <1>1. LedgerInv => AckedDurable
    BY DEF LedgerInv
  <1>2. QED
    BY <1>1, LedgerInvariant, PTL

\* scan_transactions never finds corruption in a file only FileLedger wrote.
THEOREM LedgerNeverCorrupt == Spec => []NeverCorrupt
  <1>1. LedgerInv => NeverCorrupt
    <2> SUFFICES ASSUME LedgerInv, NEW i \in 1..Len(ValidItems)
                 PROVE  Continues(ValidItems, i)
      BY DEF NeverCorrupt, Corrupt
    <2>1. /\ Len(ValidItems) \in 0..Len(file)
          /\ \A j \in 1..Len(ValidItems) : ValidItems[j] = file[j] /\ FrameAt(j)
      BY ValidItemsShape DEF LedgerInv, TypeOK, HasTail
    <2>2. i \in Nat /\ i - 1 \in 0..Len(file) /\ (i # 1 => i - 1 \in 1..Len(ValidItems))
      BY <2>1
    <2>3. HeadAt(ValidItems, i - 1) = HeadAt(file, i - 1)
      BY <2>1, <2>2 DEF HeadAt
    <2>4. HeadAt(file, i - 1).transaction = i - 1
      BY <2>1, <2>2, HeadAtType, SMTT(30) DEF LedgerInv, FrameAt
    <2>5. QED
      BY <2>1, <2>2, <2>3, <2>4 DEF Continues, FrameAt
  <1>2. QED
    BY <1>1, LedgerInvariant, PTL

\* A receipt is returned only after the whole file, unsynced frames replayed
\* from an earlier process included, was synced (write_frame_synchronously).
THEOREM ReceiptsHardenPrefix == Spec => ReceiptHardensPrefix
  <1>1. LedgerInv /\ [Next]_vars =>
          [\A f \in acked' \ acked : synced' >= f.transaction /\ synced' = Len(file')]_vars
    <2> SUFFICES ASSUME LedgerInv, Next, NEW f \in acked' \ acked
                 PROVE  synced' >= f.transaction /\ synced' = Len(file')
      OBVIOUS
    <2>1. PICK p \in Procs : SyncAppend(p)
      BY DEF Next, OpenAndLock, StartHeader, FinishHeader, SyncHeader, OpenComplete,
             TruncateTail, SyncRepair, OpenRefused, BeginAppend, WriteSome, WriteRest,
             WriteFails, Exit, Inspect, PowerLoss, fileVars, procVars
    <2>2. f = inflight[p] /\ synced' = Len(file) /\ file' = file
      BY <2>1 DEF SyncAppend
    <2>3. Len(file) \in Nat /\ Len(file) >= 1 /\ file[Len(file)] = f /\ FrameAt(Len(file))
      BY <2>1, <2>2, TornIsFrame DEF SyncAppend, LedgerInv, StageOK, TypeOK, FileShape, HasTail
    <2>4. QED
      BY <2>2, <2>3 DEF FrameAt
  <1>2. QED
    BY <1>1, LedgerInvariant, PTL DEF Spec, ReceiptHardensPrefix

-----------------------------------------------------------------------------
(* What the writers know: ViewsAreTrue.  An idle writer's counters are a     *)
(* scan's only because the frame it wrote last was the one it had counted,   *)
(* so the invariant follows the counters through open, append and the steps  *)
(* in between.                                                               *)

\* A scan of these items is within the replay limits.
Fits(items) ==
    EventCount(items) <= MaxReplayEvents /\ PayloadBytes(items) <= MaxReplayPayload

\* The memory of the process inside append, by stage.
ViewOK(p) ==
    /\ pc[p] \in {"open", "writing", "partial"} =>
         mem[p].frames = ValidItems /\ payload[p] = PayloadBytes(ValidItems)
    /\ pc[p] \in {"writing", "partial"} => Fits(Append(ValidItems, inflight[p]))
    /\ pc[p] = "partial" => synced < Len(file)
    /\ pc[p] = "written" =>
         /\ file = Append(mem[p].frames, inflight[p])
         /\ PayloadBytes(file) = payload[p] + SumSizes(inflight[p].sizes)

\* What was reported is a complete frame, so repairing a tail cannot remove it.
ObservedKept == \A f \in observed : ~f.torn /\ f \in Range(file)

ViewsInv ==
    /\ payload \in [Procs -> Nat]
    /\ Fits(ValidItems)
    /\ \A p \in Procs : ViewOK(p)
    /\ ObservedKept

EventWeights(items) == [i \in 1..Len(items) |-> Len(items[i].sizes)]
PayloadWeights(items) == [i \in 1..Len(items) |-> SumSizes(items[i].sizes)]

\* SumSizes, EventCount and PayloadBytes are sums over the elements.
LEMMA SumSizesSums ==
    ASSUME NEW s \in Seq(Nat)
    PROVE  \E g : SumsOver(g, s, Len(s)) /\ SumSizes(s) = g[1..Len(s)]
  <1> DEFINE D(g) == g = [t \in SUBSET DOMAIN s |->
                            IF t = {} THEN 0 ELSE g[t \ {Max(t)}] + s[Max(t)]]
  <1>1. SumSizes(s) = (CHOOSE g : D(g))[DOMAIN s]
    BY Zenon DEF SumSizes, FoldLeft, MapThenFoldSet
  <1>2. Len(s) \in Nat /\ DOMAIN s = 1..Len(s)
    OBVIOUS
  <1>3. \A g : D(g) <=> SumsOver(g, s, Len(s))
    BY <1>2 DEF SumsOver
  <1>4. \E g : SumsOver(g, s, Len(s))
    BY <1>2, FoldsExist
  <1> HIDE DEF D
  <1>5. D(CHOOSE g : D(g))
    BY <1>3, <1>4
  <1>6. QED
    BY <1>1, <1>2, <1>3, <1>5

LEMMA SumSizesNat == ASSUME NEW s \in Seq(Nat) PROVE SumSizes(s) \in Nat
  <1>1. PICK g : SumsOver(g, s, Len(s)) /\ SumSizes(s) = g[1..Len(s)]
    BY SumSizesSums
  <1>2. Len(s) \in Nat /\ Len(s) \in 0..Len(s) /\ \A i \in 1..Len(s) : s[i] \in Nat
    OBVIOUS
  <1>3. QED
    BY <1>1, <1>2, FoldsStep

LEMMA EventCountSums ==
    ASSUME NEW items \in Seq(Frames)
    PROVE  \E g : /\ SumsOver(g, EventWeights(items), Len(items))
                  /\ EventCount(items) = g[1..Len(items)]
  <1> DEFINE D(g) == g = [t \in SUBSET DOMAIN items |->
                            IF t = {} THEN 0 ELSE g[t \ {Max(t)}] + Len(items[Max(t)].sizes)]
  <1>1. EventCount(items) = (CHOOSE g : D(g))[DOMAIN items]
    BY Zenon DEF EventCount, FoldLeft, MapThenFoldSet
  <1>2. Len(items) \in Nat /\ DOMAIN items = 1..Len(items)
    OBVIOUS
  <1>3. \A t \in SUBSET (1..Len(items)) :
          t # {} => EventWeights(items)[Max(t)] = Len(items[Max(t)].sizes)
    BY <1>2, MaxIsMember DEF EventWeights
  <1>4. \A g : D(g) <=> SumsOver(g, EventWeights(items), Len(items))
    BY <1>2, <1>3 DEF SumsOver
  <1>5. \E g : SumsOver(g, EventWeights(items), Len(items))
    BY <1>2, FoldsExist
  <1> HIDE DEF D
  <1>6. D(CHOOSE g : D(g))
    BY <1>4, <1>5
  <1>7. QED
    BY <1>1, <1>2, <1>4, <1>6

LEMMA PayloadBytesSums ==
    ASSUME NEW items \in Seq(Frames)
    PROVE  \E g : /\ SumsOver(g, PayloadWeights(items), Len(items))
                  /\ PayloadBytes(items) = g[1..Len(items)]
  <1> DEFINE D(g) == g = [t \in SUBSET DOMAIN items |->
                            IF t = {} THEN 0 ELSE g[t \ {Max(t)}] + SumSizes(items[Max(t)].sizes)]
  <1>1. PayloadBytes(items) = (CHOOSE g : D(g))[DOMAIN items]
    BY Zenon DEF PayloadBytes, FoldLeft, MapThenFoldSet
  <1>2. Len(items) \in Nat /\ DOMAIN items = 1..Len(items)
    OBVIOUS
  <1>3. \A t \in SUBSET (1..Len(items)) :
          t # {} => PayloadWeights(items)[Max(t)] = SumSizes(items[Max(t)].sizes)
    BY <1>2, MaxIsMember DEF PayloadWeights
  <1>4. \A g : D(g) <=> SumsOver(g, PayloadWeights(items), Len(items))
    BY <1>2, <1>3 DEF SumsOver
  <1>5. \E g : SumsOver(g, PayloadWeights(items), Len(items))
    BY <1>2, FoldsExist
  <1> HIDE DEF D
  <1>6. D(CHOOSE g : D(g))
    BY <1>4, <1>5
  <1>7. QED
    BY <1>1, <1>2, <1>4, <1>6

LEMMA WeightsNat ==
    ASSUME NEW items \in Seq(Frames)
    PROVE  \A i \in 1..Len(items) :
              EventWeights(items)[i] \in Nat /\ PayloadWeights(items)[i] \in Nat
  <1> SUFFICES ASSUME NEW i \in 1..Len(items)
               PROVE  EventWeights(items)[i] \in Nat /\ PayloadWeights(items)[i] \in Nat
    OBVIOUS
  <1>1. items[i] \in Frames
    OBVIOUS
  <1>2. items[i].sizes \in Seq(Nat)
    BY <1>1 DEF Frames
  <1>3. Len(items[i].sizes) \in Nat /\ SumSizes(items[i].sizes) \in Nat
    BY <1>2, SumSizesNat
  <1>4. QED
    BY <1>3 DEF EventWeights, PayloadWeights

LEMMA CountsOfNone == EventCount(<<>>) = 0 /\ PayloadBytes(<<>>) = 0
  <1>1. <<>> \in Seq(Frames) /\ Len(<<>>) = 0
    OBVIOUS
  <1>2. PICK g : SumsOver(g, EventWeights(<<>>), 0) /\ EventCount(<<>>) = g[1..0]
    BY <1>1, EventCountSums
  <1>3. PICK h : SumsOver(h, PayloadWeights(<<>>), 0) /\ PayloadBytes(<<>>) = h[1..0]
    BY <1>1, PayloadBytesSums
  <1>4. 1..0 = {} /\ 0 \in Nat
    OBVIOUS
  <1>5. QED
    BY <1>2, <1>3, <1>4, SumOfNone

LEMMA CountsNat ==
    ASSUME NEW items \in Seq(Frames)
    PROVE  EventCount(items) \in Nat /\ PayloadBytes(items) \in Nat
  <1>1. PICK g : SumsOver(g, EventWeights(items), Len(items))
                 /\ EventCount(items) = g[1..Len(items)]
    BY EventCountSums
  <1>2. PICK h : SumsOver(h, PayloadWeights(items), Len(items))
                 /\ PayloadBytes(items) = h[1..Len(items)]
    BY PayloadBytesSums
  <1>3. Len(items) \in Nat /\ Len(items) \in 0..Len(items)
    OBVIOUS
  <1>4. g[1..Len(items)] \in Nat
    BY <1>1, <1>3, WeightsNat, FoldsStep
  <1>5. h[1..Len(items)] \in Nat
    BY <1>2, <1>3, WeightsNat, FoldsStep
  <1>6. QED
    BY <1>1, <1>2, <1>4, <1>5

\* Appending a frame adds what it holds to both counters.
LEMMA CountsAppend ==
    ASSUME NEW items \in Seq(Frames), NEW f \in Frames
    PROVE  /\ EventCount(Append(items, f)) = EventCount(items) + Len(f.sizes)
           /\ PayloadBytes(Append(items, f)) = PayloadBytes(items) + SumSizes(f.sizes)
  <1> DEFINE n == Len(items)
             more == Append(items, f)
  <1>1. /\ n \in Nat /\ more \in Seq(Frames) /\ Len(more) = n + 1
        /\ more[n + 1] = f /\ \A i \in 1..n : more[i] = items[i]
    OBVIOUS
  <1> HIDE DEF more, n
  <1>2. /\ EventWeights(more)[n + 1] = Len(f.sizes)
        /\ \A i \in 1..n : EventWeights(items)[i] = EventWeights(more)[i]
    BY <1>1 DEF EventWeights, n
  <1>3. /\ PayloadWeights(more)[n + 1] = SumSizes(f.sizes)
        /\ \A i \in 1..n : PayloadWeights(items)[i] = PayloadWeights(more)[i]
    BY <1>1 DEF PayloadWeights, n
  <1>4. \A i \in 1..(n + 1) : EventWeights(more)[i] \in Nat /\ PayloadWeights(more)[i] \in Nat
    BY <1>1, WeightsNat
  <1>5. EventCount(more) = EventCount(items) + Len(f.sizes)
    <2>1. PICK g : SumsOver(g, EventWeights(items), n) /\ EventCount(items) = g[1..n]
      BY EventCountSums DEF n
    <2>2. PICK h : SumsOver(h, EventWeights(more), n + 1) /\ EventCount(more) = h[1..(n + 1)]
      BY <1>1, EventCountSums
    <2>3. \A i \in 1..(n + 1) : EventWeights(more)[i] \in Nat
      BY <1>4
    <2>4. n \in Nat /\ \A i \in 1..n : EventWeights(items)[i] = EventWeights(more)[i]
      BY <1>1, <1>2
    <2>5. h[1..(n + 1)] = g[1..n] + EventWeights(more)[n + 1]
      BY <2>1, <2>2, <2>3, <2>4, SumAppend
    <2>6. QED
      BY <1>2, <2>1, <2>2, <2>5
  <1>6. PayloadBytes(more) = PayloadBytes(items) + SumSizes(f.sizes)
    <2>1. PICK g : SumsOver(g, PayloadWeights(items), n) /\ PayloadBytes(items) = g[1..n]
      BY PayloadBytesSums DEF n
    <2>2. PICK h : SumsOver(h, PayloadWeights(more), n + 1) /\ PayloadBytes(more) = h[1..(n + 1)]
      BY <1>1, PayloadBytesSums
    <2>3. h[1..(n + 1)] = g[1..n] + PayloadWeights(more)[n + 1]
      BY <1>1, <1>3, <1>4, <2>1, <2>2, SumAppend
    <2>4. QED
      BY <1>3, <2>1, <2>2, <2>3
  <1>7. QED
    BY <1>5, <1>6 DEF more

\* What a power loss leaves fits when the whole did.
LEMMA FitsPrefix ==
    ASSUME NEW items \in Seq(Frames), Fits(items), NEW k \in 0..Len(items)
    PROVE  Fits(SubSeq(items, 1, k))
  <1> DEFINE n == Len(items)
             cut == SubSeq(items, 1, k)
  <1>1. /\ n \in Nat /\ cut \in Seq(Frames) /\ Len(cut) = k
        /\ \A i \in 1..k : cut[i] = items[i]
    BY PrefixSeq
  <1>2. k \in 0..n
    OBVIOUS
  <1> HIDE DEF cut
  <1>3. \A i \in 1..k : /\ EventWeights(items)[i] = EventWeights(cut)[i]
                        /\ PayloadWeights(items)[i] = PayloadWeights(cut)[i]
    BY <1>1 DEF EventWeights, PayloadWeights
  <1> HIDE DEF n
  <1>4. \A i \in 1..n : EventWeights(items)[i] \in Nat /\ PayloadWeights(items)[i] \in Nat
    BY WeightsNat DEF n
  <1>5. EventCount(cut) <= EventCount(items)
    <2>1. PICK g : SumsOver(g, EventWeights(items), n) /\ EventCount(items) = g[1..n]
      BY EventCountSums DEF n
    <2>2. PICK h : SumsOver(h, EventWeights(cut), k) /\ EventCount(cut) = h[1..k]
      BY <1>1, EventCountSums
    <2>3. h[1..k] <= g[1..n]
      BY <1>1, <1>2, <1>3, <1>4, <2>1, <2>2, SumPrefix
    <2>4. QED
      BY <2>1, <2>2, <2>3
  <1>6. PayloadBytes(cut) <= PayloadBytes(items)
    <2>1. PICK g : SumsOver(g, PayloadWeights(items), n) /\ PayloadBytes(items) = g[1..n]
      BY PayloadBytesSums DEF n
    <2>2. PICK h : SumsOver(h, PayloadWeights(cut), k) /\ PayloadBytes(cut) = h[1..k]
      BY <1>1, PayloadBytesSums
    <2>3. h[1..k] <= g[1..n]
      BY <1>1, <1>2, <1>3, <1>4, <2>1, <2>2, SumPrefix
    <2>4. QED
      BY <2>1, <2>2, <2>3
  <1>7. /\ EventCount(cut) \in Nat /\ PayloadBytes(cut) \in Nat
        /\ EventCount(items) \in Nat /\ PayloadBytes(items) \in Nat
    BY <1>1, CountsNat
  <1>8. Fits(cut)
    BY <1>5, <1>6, <1>7, LimitsAssumption DEF Fits
  <1>9. QED
    BY <1>8 DEF cut

-----------------------------------------------------------------------------
(* What each step does to the items a scan returns.                          *)

\* The durable part of those items, as the refinement mapping has it.
Durable == IF synced > Len(ValidItems) THEN Len(ValidItems) ELSE synced

LEMMA SameItems ==
    ASSUME file' = file
    PROVE  ValidItems' = ValidItems /\ HasTail' = HasTail
  BY DEF ValidItems, HasTail

LEMMA TruncateTailItems ==
    ASSUME LedgerInv, NEW p \in Procs, TruncateTail(p)
    PROVE  ValidItems' = ValidItems /\ Durable' = Durable
  <1>1. /\ file' = ValidItems /\ Len(ValidItems) = Len(file) - 1
        /\ Len(file) \in Nat /\ synced \in 0..Len(file)
        /\ synced' = IF synced < Len(file) THEN synced ELSE Len(file) - 1
    BY ValidItemsShape DEF TruncateTail, LedgerInv, TypeOK
  <1>2. ~HasTail'
    BY TruncateTailInv DEF TruncateTail, LedgerInv, TypeOK, StageOK
  <1>3. ValidItems' = file'
    BY <1>2 DEF ValidItems
  <1>4. QED
    BY <1>1, <1>3 DEF Durable

LEMMA WriteSomeItems ==
    ASSUME LedgerInv, NEW p \in Procs, WriteSome(p)
    PROVE  /\ ValidItems' = ValidItems /\ ValidItems = file
           /\ Len(file') = Len(file) + 1
           /\ Durable' = Durable
  <1>1. ~HasTail
    BY DEF WriteSome, LedgerInv, StageOK
  <1>2. /\ file \in Seq(Frames) /\ Len(file) \in Nat /\ synced \in 0..Len(file)
        /\ file' \in Seq(Frames) /\ Len(file') = Len(file) + 1
        /\ \A i \in 1..Len(file) : file'[i] = file[i]
        /\ file'[Len(file')] = TornFrame
    BY TornIsFrame DEF WriteSome, LedgerInv, TypeOK
  <1>3. HasTail'
    BY <1>2, TornIsFrame DEF HasTail
  <1>4. ValidItems' = SubSeq(file', 1, Len(file))
    BY <1>2, <1>3 DEF ValidItems
  <1>5. SubSeq(file', 1, Len(file)) = file
    <2>1. Len(file) \in 0..Len(file')
      BY <1>2
    <2>2. /\ SubSeq(file', 1, Len(file)) \in Seq(Frames)
          /\ Len(SubSeq(file', 1, Len(file))) = Len(file)
          /\ \A i \in 1..Len(file) : SubSeq(file', 1, Len(file))[i] = file'[i]
      BY <1>2, <2>1, PrefixSeq
    <2>3. QED
      BY <1>2, <2>2, SeqEqual
  <1>6. ValidItems = file
    BY <1>1 DEF ValidItems
  <1>7. Durable' = Durable
    BY <1>4, <1>5, <1>6 DEF Durable, WriteSome
  <1>8. QED
    BY <1>2, <1>4, <1>5, <1>6, <1>7

LEMMA WriteRestItems ==
    ASSUME LedgerInv, NEW p \in Procs, WriteRest(p)
    PROVE  /\ ValidItems' = Append(ValidItems, inflight[p])
           /\ file' = ValidItems'
           /\ Len(ValidItems) = Len(file) - 1
           /\ Len(file) \in Nat /\ Len(file) >= 1 /\ Len(file') = Len(file)
           /\ ValidItems \in Seq(Frames) /\ inflight[p] \in Frames
  <1> DEFINE n == Len(file)
  <1>1. HasTail
    BY DEF WriteRest, LedgerInv, StageOK
  <1>2. /\ file \in Seq(Frames) /\ n \in Nat /\ n >= 1 /\ inflight[p] \in Frames
        /\ ValidItems \in Seq(Frames) /\ Len(ValidItems) = n - 1
        /\ \A i \in 1..(n - 1) : ValidItems[i] = file[i]
    BY <1>1, ValidItemsShape DEF LedgerInv, TypeOK, HasTail
  <1>3. /\ file' \in Seq(Frames) /\ Len(file') = n
        /\ \A i \in 1..n : file'[i] = IF i = n THEN inflight[p] ELSE file[i]
    BY <1>2, ExceptSeq DEF WriteRest
  <1>4. ~HasTail'
    BY WriteRestInv DEF WriteRest, LedgerInv, TypeOK, StageOK
  <1>5. ValidItems' = file'
    BY <1>4 DEF ValidItems
  <1>6. file' = Append(ValidItems, inflight[p])
    <2>1. /\ Append(ValidItems, inflight[p]) \in Seq(Frames)
          /\ Len(Append(ValidItems, inflight[p])) = n
          /\ \A i \in 1..(n - 1) : Append(ValidItems, inflight[p])[i] = file[i]
          /\ Append(ValidItems, inflight[p])[n] = inflight[p]
      BY <1>2
    <2>2. \A i \in 1..n : Append(ValidItems, inflight[p])[i] = file'[i]
      BY <1>2, <1>3, <2>1
    <2>3. QED
      BY <1>3, <2>1, <2>2, SeqEqual
  <1>7. QED
    BY <1>2, <1>3, <1>5, <1>6

\* A power loss cuts the items back, never into the durable ones, and what it
\* leaves is durable.
LEMMA PowerLossItems ==
    ASSUME LedgerInv, PowerLoss
    PROVE  \E k \in Durable..Len(ValidItems) :
              ValidItems' = SubSeq(ValidItems, 1, k) /\ Durable' = k
  <1>1. PICK n \in synced..Len(file), tear \in BOOLEAN, h \in HeadersAfterLoss :
         /\ tear => n < Len(file) \/ \E p \in Procs : pc[p] = "truncated"
         /\ file' = (IF tear THEN Append(SubSeq(file, 1, n), TornFrame)
                          ELSE SubSeq(file, 1, n))
         /\ synced' = n + (IF tear THEN 1 ELSE 0)
    BY DEF PowerLoss
  <1> DEFINE m == Len(ValidItems)
             k == IF n < m THEN n ELSE m
  <1>2. /\ file \in Seq(Frames) /\ Len(file) \in Nat
        /\ synced \in 0..Len(file) /\ n \in 0..Len(file) /\ synced <= n
    BY DEF LedgerInv, TypeOK
  <1>3. /\ file' \in Seq(Frames)
        /\ Len(file') = n + (IF tear THEN 1 ELSE 0)
        /\ \A i \in 1..n : file'[i] = file[i]
        /\ tear => file'[n + 1] = TornFrame
    BY <1>1, <1>2, CutFile
  <1>4. /\ ValidItems \in Seq(Frames)
        /\ m = IF HasTail THEN Len(file) - 1 ELSE Len(file)
        /\ m \in Nat
        /\ \A i \in 1..m : ValidItems[i] = file[i] /\ FrameAt(i)
    BY ValidItemsShape DEF LedgerInv, TypeOK, HasTail
  <1>5. tear => n <= m
    <2>1. ASSUME NEW p \in Procs, pc[p] = "truncated" PROVE ~HasTail
      BY <2>1 DEF LedgerInv, StageOK
    <2>2. QED
      BY <1>1, <1>2, <1>4, <2>1
  <1>6. k \in Durable..m /\ k \in 0..m
    BY <1>2, <1>4 DEF Durable
  <1>7. /\ ValidItems' \in Seq(Frames) /\ Len(ValidItems') = k
        /\ \A i \in 1..k : ValidItems'[i] = file'[i]
    <2>1. /\ ValidItems' \in Seq(Frames)
          /\ Len(ValidItems') = IF HasTail' THEN Len(file') - 1 ELSE Len(file')
          /\ \A i \in 1..Len(ValidItems') : ValidItems'[i] = file'[i]
      <3>1. CASE HasTail'
        <4>1. Len(file') - 1 \in 0..Len(file')
          BY <1>2, <1>3, <3>1 DEF HasTail
        <4>2. ValidItems' = SubSeq(file', 1, Len(file') - 1)
          BY <3>1 DEF ValidItems
        <4>3. QED
          BY <1>3, <3>1, <4>1, <4>2, PrefixSeq
      <3>2. CASE ~HasTail'
        BY <1>3, <3>2 DEF ValidItems
      <3>3. QED
        BY <3>1, <3>2
    <2>2. CASE tear
      <3>1. HasTail'
        BY <1>2, <1>3, <2>2, TornIsFrame DEF HasTail
      <3>2. QED
        BY <1>2, <1>3, <1>4, <1>5, <2>1, <2>2, <3>1
    <2>3. CASE ~tear /\ n <= m
      <3>1. ~HasTail'
        <4>1. n > 0 => ~file[n].torn
          BY <1>2, <1>4, <2>3 DEF FrameAt
        <4>2. QED
          BY <1>2, <1>3, <2>3, <4>1 DEF HasTail
      <3>2. QED
        BY <1>2, <1>3, <1>4, <2>1, <2>3, <3>1
    <2>4. CASE ~tear /\ ~(n <= m)
      <3>1. HasTail /\ n = Len(file)
        BY <1>2, <1>4, <2>4
      <3>2. HasTail'
        <4>1. n >= 1 /\ file'[n].torn /\ Len(file') = n
          BY <1>2, <1>3, <2>4, <3>1 DEF HasTail
        <4>2. QED
          BY <1>3, <4>1 DEF HasTail
      <3>3. QED
        BY <1>2, <1>3, <1>4, <2>1, <2>4, <3>1, <3>2
    <2>5. QED
      BY <2>2, <2>3, <2>4
  <1>8. ValidItems' = SubSeq(ValidItems, 1, k)
    <2>1. /\ SubSeq(ValidItems, 1, k) \in Seq(Frames)
          /\ Len(SubSeq(ValidItems, 1, k)) = k
          /\ \A i \in 1..k : SubSeq(ValidItems, 1, k)[i] = ValidItems[i]
      BY <1>4, <1>6, PrefixSeq
    <2>2. \A i \in 1..k : ValidItems'[i] = ValidItems[i]
      BY <1>2, <1>3, <1>4, <1>7
    <2>3. QED
      BY <1>7, <2>1, <2>2, SeqEqual
  <1>9. Durable' = k
    BY <1>1, <1>2, <1>4, <1>5, <1>7 DEF Durable
  <1>10. QED
    BY <1>6, <1>8, <1>9

-----------------------------------------------------------------------------
(* ViewsInv is an invariant.                                                 *)

LEMMA InitViews == Init => ViewsInv
  <1> SUFFICES ASSUME Init PROVE ViewsInv
    OBVIOUS
  <1>1. ValidItems = <<>>
    BY DEF Init, ValidItems, HasTail
  <1>2. Fits(ValidItems)
    BY <1>1, CountsOfNone, LimitsAssumption DEF Fits
  <1>3. QED
    BY <1>2 DEF Init, ViewsInv, ViewOK, ObservedKept

\* Steps that leave the file alone keep every conjunct that p's own memory
\* does not touch.
LEMMA ViewFrame ==
    ASSUME NEW q \in Procs, ViewOK(q), file' = file, synced' = synced,
           pc'[q] = pc[q], mem'[q] = mem[q], payload'[q] = payload[q],
           inflight'[q] = inflight[q]
    PROVE  ViewOK(q)'
  <1>1. ValidItems' = ValidItems
    BY SameItems
  <1>2. QED
    BY <1>1 DEF ViewOK, Fits

LEMMA ViewClosed ==
    ASSUME NEW q \in Procs,
           pc'[q] \in {"closed", "locked", "creating", "truncated", "poisoned"}
    PROVE  ViewOK(q)'
  BY DEF ViewOK

\* Everyone but the process that holds the lock is closed before and after.
LEMMA OthersView ==
    ASSUME LedgerInv, NEW p \in Procs, pc[p] # "closed",
           NEW q \in Procs, q # p, pc'[q] = pc[q]
    PROVE  ViewOK(q)'
  BY OthersClosed, ViewClosed DEF LedgerInv

\* What a scan reports is complete and in the file.
LEMMA ScanReports ==
    ASSUME LedgerInv, NEW f \in Range(ValidItems)
    PROVE  ~f.torn /\ f \in Range(file)
  <1>1. /\ ValidItems \in Seq(Frames)
        /\ Len(ValidItems) <= Len(file) /\ Len(ValidItems) \in Nat /\ Len(file) \in Nat
        /\ \A i \in 1..Len(ValidItems) : ValidItems[i] = file[i] /\ FrameAt(i)
    BY ValidItemsShape DEF LedgerInv, TypeOK, HasTail
  <1>2. PICK i \in 1..Len(ValidItems) : f = ValidItems[i]
    BY <1>1 DEF Range
  <1>3. i \in DOMAIN file
    BY <1>1 DEF LedgerInv, TypeOK
  <1>4. QED
    BY <1>1, <1>2, <1>3 DEF FrameAt, Range

\* open and inspect: a scan that passed fits, and its result becomes the
\* memory of the writer.
LEMMA OpenViews ==
    ASSUME LedgerInv, ViewsInv, NEW p \in Procs,
           OpenComplete(p) \/ SyncRepair(p) \/ Inspect(p)
    PROVE  ViewsInv'
  <1>1. file' = file /\ observed' = observed \cup Range(ValidItems)
    BY DEF OpenComplete, SyncRepair, Inspect, fileVars
  <1>2. ValidItems' = ValidItems
    BY <1>1, SameItems
  <1>3. Fits(ValidItems)'
    BY <1>2 DEF ViewsInv, Fits
  <1>4. ObservedKept'
    BY <1>1, ScanReports DEF ViewsInv, ObservedKept
  <1>0. payload' \in [Procs -> Nat]
    <2>1. PayloadBytes(ValidItems) \in Nat
      BY ValidItemsShape, CountsNat DEF LedgerInv
    <2>2. QED
      BY <2>1 DEF OpenComplete, SyncRepair, Inspect, Load, procVars, ViewsInv
  <1>5. ASSUME NEW q \in Procs PROVE ViewOK(q)'
    <2>1. CASE Inspect(p)
      BY <2>1, ViewFrame DEF Inspect, fileVars, procVars, ViewsInv
    <2>2. CASE ~Inspect(p) /\ q = p
      <3>1. pc'[p] = "open" /\ mem'[p] = ScannedMem /\ payload'[p] = PayloadBytes(ValidItems)
        BY <2>2 DEF OpenComplete, SyncRepair, Load, LedgerInv, TypeOK, ViewsInv
      <3>2. QED
        BY <1>2, <2>2, <3>1 DEF ViewOK, ScannedMem
    <2>3. CASE ~Inspect(p) /\ q # p
      <3>1. pc[p] # "closed" /\ pc'[q] = pc[q]
        BY <2>3 DEF OpenComplete, SyncRepair, LedgerInv, TypeOK
      <3>2. QED
        BY <2>3, <3>1, OthersView
    <2>4. QED
      BY <2>1, <2>2, <2>3
  <1>6. QED
    BY <1>0, <1>3, <1>4, <1>5 DEF ViewsInv

\* Steps that change neither the file nor what was reported, and after which
\* the process is in no stage of append: the lock, the header, giving up.
LEMMA IdleViews ==
    ASSUME LedgerInv, ViewsInv, NEW p \in Procs,
           \/ \E how \in Policies : OpenAndLock(p, how)
           \/ StartHeader(p) \/ FinishHeader(p) \/ SyncHeader(p)
           \/ OpenRefused(p) \/ WriteFails(p) \/ Exit(p)
    PROVE  ViewsInv'
  <1> USE DEF OpenAndLock, StartHeader, FinishHeader, SyncHeader, OpenRefused,
              WriteFails, Exit, Forget, fileVars, procVars
  <1>1. file' = file /\ observed' = observed /\ payload' \in [Procs -> Nat]
    BY DEF ViewsInv
  <1>2. ValidItems' = ValidItems
    BY <1>1, SameItems
  <1>3. Fits(ValidItems)' /\ ObservedKept'
    BY <1>1, <1>2 DEF ViewsInv, Fits, ObservedKept
  <1>4. ASSUME NEW q \in Procs PROVE ViewOK(q)'
    <2>1. CASE q = p
      <3>1. pc'[p] \in {"closed", "locked", "creating", "poisoned"}
        BY DEF LedgerInv, TypeOK
      <3>2. QED
        BY <2>1, <3>1, ViewClosed
    <2>2. CASE q # p
      <3>1. pc[q] = "closed"
        BY <2>2, OthersClosed, NoProcAssumption DEF LedgerInv, LockHeld
      <3>2. pc'[q] = "closed"
        BY <2>2, <3>1 DEF LedgerInv, TypeOK
      <3>3. QED
        BY <3>2, ViewClosed
    <2>3. QED
      BY <2>1, <2>2
  <1>5. QED
    BY <1>1, <1>3, <1>4 DEF ViewsInv

\* append_with_io tests the limits of the next scan before it writes.
LEMMA BeginAppendViews ==
    ASSUME LedgerInv, ViewsInv, NEW p \in Procs, NEW batch \in Batches,
           BeginAppend(p, mem[p].head, batch)
    PROVE  ViewsInv'
  <1> USE DEF BeginAppend, AppendAccepted, fileVars
  <1> DEFINE f == Frame(mem[p].head.transaction + 1, mem[p].head.sequence + 1, batch)
  <1>1. file' = file /\ observed' = observed /\ payload' = payload /\ pc[p] = "open"
    OBVIOUS
  <1>2. ValidItems' = ValidItems
    BY <1>1, SameItems
  <1>3. Fits(ValidItems)' /\ ObservedKept'
    BY <1>1, <1>2 DEF ViewsInv, Fits, ObservedKept
  <1>4. mem[p].frames = ValidItems /\ payload[p] = PayloadBytes(ValidItems)
    BY <1>1 DEF ViewsInv, ViewOK
  <1>5. f \in Frames /\ f.sizes = batch
    BY FrameIsFrame DEF LedgerInv, TypeOK, Heads
  <1> HIDE DEF f
  <1>6. Fits(Append(ValidItems, f))
    <2>1. ValidItems \in Seq(Frames)
      BY ValidItemsShape DEF LedgerInv
    <2>2. /\ EventCount(Append(ValidItems, f)) = EventCount(ValidItems) + Len(batch)
          /\ PayloadBytes(Append(ValidItems, f)) = PayloadBytes(ValidItems) + SumSizes(batch)
      BY <1>5, <2>1, CountsAppend
    <2>3. QED
      BY <1>4, <2>2 DEF Fits
  <1>7. ViewOK(p)'
    <2>1. pc'[p] = "writing" /\ inflight'[p] = f /\ mem' = mem
      BY DEF LedgerInv, TypeOK, f
    <2>2. QED
      BY <1>1, <1>2, <1>4, <1>6, <2>1 DEF ViewOK, Fits
  <1>8. ASSUME NEW q \in Procs, q # p PROVE ViewOK(q)'
    <2>1. pc[p] # "closed" /\ pc'[q] = pc[q]
      BY <1>8 DEF LedgerInv, TypeOK
    <2>2. QED
      BY <1>8, <2>1, OthersView
  <1>9. QED
    BY <1>1, <1>3, <1>7, <1>8 DEF ViewsInv

LEMMA WriteSomeViews ==
    ASSUME LedgerInv, ViewsInv, NEW p \in Procs, WriteSome(p)
    PROVE  ViewsInv'
  <1>1. /\ ValidItems' = ValidItems /\ ValidItems = file
        /\ Len(file') = Len(file) + 1
    BY WriteSomeItems
  <1>2. /\ pc[p] = "writing" /\ pc' = [pc EXCEPT ![p] = "partial"]
        /\ file' = Append(file, TornFrame)
        /\ UNCHANGED <<synced, mem, payload, inflight, observed>>
    BY DEF WriteSome
  <1>3. Fits(ValidItems)'
    BY <1>1 DEF ViewsInv, Fits
  <1>4. ObservedKept'
    <2> SUFFICES ASSUME NEW f \in observed PROVE ~f.torn /\ f \in Range(file')
      BY <1>2 DEF ObservedKept
    <2>1. /\ ~f.torn /\ file \in Seq(Frames)
          /\ \E i \in 1..Len(file) : file[i] = f
      BY DEF ViewsInv, ObservedKept, Range, LedgerInv, TypeOK
    <2>2. \E i \in DOMAIN file' : file'[i] = f
      BY <1>2, <2>1, TornIsFrame
    <2>3. QED
      BY <2>1, <2>2 DEF Range
  <1>5. ViewOK(p)'
    <2>1. pc'[p] = "partial" /\ synced' < Len(file')
      BY <1>1, <1>2 DEF LedgerInv, TypeOK
    <2>2. /\ mem[p].frames = ValidItems /\ payload[p] = PayloadBytes(ValidItems)
          /\ Fits(Append(ValidItems, inflight[p]))
      BY <1>2 DEF ViewsInv, ViewOK
    <2>3. QED
      BY <1>1, <1>2, <2>1, <2>2 DEF ViewOK, Fits
  <1>6. ASSUME NEW q \in Procs, q # p PROVE ViewOK(q)'
    <2>1. pc[p] # "closed" /\ pc'[q] = pc[q]
      BY <1>2, <1>6 DEF LedgerInv, TypeOK
    <2>2. QED
      BY <1>6, <2>1, OthersView
  <1>7. QED
    BY <1>2, <1>3, <1>4, <1>5, <1>6 DEF ViewsInv

LEMMA WriteRestViews ==
    ASSUME LedgerInv, ViewsInv, NEW p \in Procs, WriteRest(p)
    PROVE  ViewsInv'
  <1>1. /\ ValidItems' = Append(ValidItems, inflight[p])
        /\ file' = ValidItems'
        /\ ValidItems \in Seq(Frames) /\ inflight[p] \in Frames
        /\ Len(ValidItems) = Len(file) - 1 /\ Len(file) \in Nat /\ Len(file) >= 1
    BY WriteRestItems
  <1>2. /\ pc[p] = "partial" /\ pc' = [pc EXCEPT ![p] = "written"]
        /\ UNCHANGED <<synced, mem, payload, inflight, observed>>
    BY DEF WriteRest
  <1>3. /\ mem[p].frames = ValidItems /\ payload[p] = PayloadBytes(ValidItems)
        /\ Fits(Append(ValidItems, inflight[p]))
    BY <1>2 DEF ViewsInv, ViewOK
  <1>4. Fits(ValidItems)'
    BY <1>1, <1>3 DEF Fits
  <1>5. ObservedKept'
    <2> SUFFICES ASSUME NEW f \in observed PROVE ~f.torn /\ f \in Range(file')
      BY <1>2 DEF ObservedKept
    <2>1. HasTail /\ file \in Seq(Frames)
      BY <1>2 DEF LedgerInv, StageOK, TypeOK
    <2>2. /\ ~f.torn
          /\ \E i \in 1..Len(file) : file[i] = f
      BY <2>1 DEF ViewsInv, ObservedKept, Range
    <2>3. PICK i \in 1..(Len(file) - 1) : file[i] = f
      BY <1>1, <2>1, <2>2 DEF HasTail
    <2>4. ValidItems[i] = f
      BY <2>1, <2>3, ValidItemsShape DEF LedgerInv
    <2>5. i \in DOMAIN file' /\ file'[i] = f
      BY <1>1, <2>3, <2>4
    <2>6. QED
      BY <2>2, <2>5 DEF Range
  <1>6. ViewOK(p)'
    <2>1. pc'[p] = "written"
      BY <1>2 DEF LedgerInv, TypeOK
    <2>2. PayloadBytes(file') = payload[p] + SumSizes(inflight[p].sizes)
      BY <1>1, <1>3, CountsAppend
    <2>3. file' = Append(mem[p].frames, inflight[p])
      BY <1>1, <1>3
    <2>4. QED
      BY <1>2, <2>1, <2>2, <2>3 DEF ViewOK
  <1>7. ASSUME NEW q \in Procs, q # p PROVE ViewOK(q)'
    <2>1. pc[p] # "closed" /\ pc'[q] = pc[q]
      BY <1>2, <1>7 DEF LedgerInv, TypeOK
    <2>2. QED
      BY <1>7, <2>1, OthersView
  <1>8. QED
    BY <1>2, <1>4, <1>5, <1>6, <1>7 DEF ViewsInv

LEMMA SyncAppendViews ==
    ASSUME LedgerInv, ViewsInv, NEW p \in Procs, SyncAppend(p)
    PROVE  ViewsInv'
  <1>1. /\ pc[p] = "written" /\ pc' = [pc EXCEPT ![p] = "open"]
        /\ file' = file /\ observed' = observed
        /\ mem'[p].frames = Append(mem[p].frames, inflight[p])
        /\ payload' = [payload EXCEPT ![p] = @ + SumSizes(inflight[p].sizes)]
    BY DEF SyncAppend, LedgerInv, TypeOK
  <1>2. ~HasTail
    BY <1>1 DEF LedgerInv, StageOK
  <1>3. ValidItems' = ValidItems /\ ValidItems = file
    BY <1>1, <1>2, SameItems DEF ValidItems
  <1>4. Fits(ValidItems)' /\ ObservedKept'
    BY <1>1, <1>3 DEF ViewsInv, Fits, ObservedKept
  <1>5. SumSizes(inflight[p].sizes) \in Nat
    BY SumSizesNat DEF LedgerInv, TypeOK, Frames
  <1>6. payload' \in [Procs -> Nat]
    BY <1>1, <1>5 DEF ViewsInv
  <1>7. ViewOK(p)'
    <2>1. /\ file = Append(mem[p].frames, inflight[p])
          /\ PayloadBytes(file) = payload[p] + SumSizes(inflight[p].sizes)
      BY <1>1 DEF ViewsInv, ViewOK
    <2>2. pc'[p] = "open" /\ payload'[p] = payload[p] + SumSizes(inflight[p].sizes)
      BY <1>1 DEF LedgerInv, TypeOK, ViewsInv
    <2>3. QED
      BY <1>1, <1>3, <2>1, <2>2 DEF ViewOK
  <1>8. ASSUME NEW q \in Procs, q # p PROVE ViewOK(q)'
    <2>1. pc[p] # "closed" /\ pc'[q] = pc[q]
      BY <1>1, <1>8 DEF LedgerInv, TypeOK
    <2>2. QED
      BY <1>8, <2>1, OthersView
  <1>9. QED
    BY <1>4, <1>6, <1>7, <1>8 DEF ViewsInv

\* The repair removes a fragment nobody was told about.
LEMMA TruncateTailViews ==
    ASSUME LedgerInv, ViewsInv, NEW p \in Procs, TruncateTail(p)
    PROVE  ViewsInv'
  <1>1. ValidItems' = ValidItems
    BY TruncateTailItems
  <1>2. /\ pc[p] = "locked" /\ pc' = [pc EXCEPT ![p] = "truncated"]
        /\ HasTail /\ file' = ValidItems
        /\ observed' = observed /\ payload' = payload
    BY DEF TruncateTail
  <1>3. Fits(ValidItems)'
    BY <1>1 DEF ViewsInv, Fits
  <1>4. ObservedKept'
    <2> SUFFICES ASSUME NEW f \in observed PROVE ~f.torn /\ f \in Range(file')
      BY <1>2 DEF ObservedKept
    <2>1. /\ file \in Seq(Frames) /\ Len(file) \in Nat
          /\ ValidItems \in Seq(Frames) /\ Len(ValidItems) = Len(file) - 1
          /\ \A i \in 1..Len(ValidItems) : ValidItems[i] = file[i]
      BY <1>2, ValidItemsShape DEF LedgerInv, TypeOK
    <2>2. ~f.torn /\ \E i \in 1..Len(file) : file[i] = f
      BY <2>1 DEF ViewsInv, ObservedKept, Range
    <2>3. PICK i \in 1..(Len(file) - 1) : file[i] = f
      BY <1>2, <2>1, <2>2 DEF HasTail
    <2>4. i \in DOMAIN file' /\ file'[i] = f
      BY <1>2, <2>1, <2>3, SMTT(30)
    <2>5. QED
      BY <2>2, <2>4 DEF Range
  <1>5. ASSUME NEW q \in Procs PROVE ViewOK(q)'
    <2>1. CASE q = p
      <3>1. pc'[p] = "truncated"
        BY <1>2 DEF LedgerInv, TypeOK
      <3>2. QED
        BY <2>1, <3>1, ViewClosed
    <2>2. CASE q # p
      <3>1. pc[p] # "closed" /\ pc'[q] = pc[q]
        BY <1>2, <2>2 DEF LedgerInv, TypeOK
      <3>2. QED
        BY <2>2, <3>1, OthersView
    <2>3. QED
      BY <2>1, <2>2
  <1>6. QED
    BY <1>2, <1>3, <1>4, <1>5 DEF ViewsInv

LEMMA PowerLossViews ==
    ASSUME LedgerInv, ViewsInv, PowerLoss
    PROVE  ViewsInv'
  <1>1. PICK k \in Durable..Len(ValidItems) : ValidItems' = SubSeq(ValidItems, 1, k)
    BY PowerLossItems
  <1>2. ValidItems \in Seq(Frames) /\ k \in 0..Len(ValidItems)
    BY ValidItemsShape DEF LedgerInv, TypeOK, Durable
  <1>3. Fits(ValidItems')
    BY <1>1, <1>2, FitsPrefix DEF ViewsInv
  <1>4. Fits(ValidItems)'
    BY <1>3 DEF Fits
  <1>5. ObservedKept'
    BY DEF PowerLoss, ViewsInv, ObservedKept
  <1>6. payload' \in [Procs -> Nat] /\ \A q \in Procs : ViewOK(q)'
    BY ViewClosed DEF PowerLoss
  <1>7. QED
    BY <1>4, <1>5, <1>6 DEF ViewsInv

LEMMA NextViews == LedgerInv /\ ViewsInv /\ [Next]_vars => ViewsInv'
  <1> SUFFICES ASSUME LedgerInv, ViewsInv, [Next]_vars PROVE ViewsInv'
    OBVIOUS
  <1>1. CASE UNCHANGED vars
    <2>1. ValidItems' = ValidItems
      BY <1>1, SameItems DEF vars
    <2>2. \A q \in Procs : ViewOK(q)'
      BY <1>1, ViewFrame DEF vars, ViewsInv
    <2>3. QED
      BY <1>1, <2>1, <2>2 DEF vars, ViewsInv, Fits, ObservedKept
  <1>2. CASE PowerLoss
    BY <1>2, PowerLossViews
  <1>3. ASSUME NEW p \in Procs,
               \/ \E how \in Policies : OpenAndLock(p, how)
               \/ StartHeader(p) \/ FinishHeader(p) \/ SyncHeader(p)
               \/ OpenComplete(p) \/ TruncateTail(p) \/ SyncRepair(p) \/ OpenRefused(p)
               \/ \E batch \in Batches : BeginAppend(p, mem[p].head, batch)
               \/ WriteSome(p) \/ WriteRest(p) \/ SyncAppend(p) \/ WriteFails(p)
               \/ Exit(p) \/ Inspect(p)
        PROVE  ViewsInv'
    BY <1>3, IdleViews, OpenViews, TruncateTailViews, BeginAppendViews,
       WriteSomeViews, WriteRestViews, SyncAppendViews
  <1>4. QED
    BY <1>1, <1>2, <1>3 DEF Next

\* What the counters of a writer, the limits of a scan and the reports of
\* earlier opens rest on, in every reachable state.
THEOREM ViewsInvariant == Spec => [](LedgerInv /\ ViewsInv)
  BY InitInv, InitViews, NextInv, NextViews, PTL DEF Spec

\* An idle writer's head, frames and payload counter are those of a fresh scan,
\* that scan never exceeds the replay limits append tested, and what any open
\* or inspect reported stays in the file until power is lost.
THEOREM LedgerViewsAreTrue == Spec => []ViewsAreTrue
  <1>1. LedgerInv /\ ViewsInv => ViewsAreTrue
    <2> SUFFICES ASSUME LedgerInv, ViewsInv PROVE ViewsAreTrue
      OBVIOUS
    <2>1. WriterMatchesFile
      <3> SUFFICES ASSUME NEW p \in Procs, pc[p] = "open"
                   PROVE  /\ ~HasTail /\ mem[p] = ScannedMem
                          /\ payload[p] = PayloadBytes(file)
        BY DEF WriterMatchesFile
      <3>1. ~HasTail /\ mem[p].head = HeadAt(file, Len(file))
        BY DEF LedgerInv, StageOK
      <3>2. ValidItems = file
        BY <3>1 DEF ValidItems
      <3>3. mem[p].frames = file /\ payload[p] = PayloadBytes(file)
        BY <3>2 DEF ViewsInv, ViewOK
      <3>4. mem[p] = [head |-> mem[p].head, frames |-> mem[p].frames]
        BY DEF LedgerInv, TypeOK
      <3>5. QED
        BY <3>1, <3>2, <3>3, <3>4 DEF ScannedMem
    <2>2. NeverOverReplayLimit
      <3>1. EventCount(ValidItems) \in Nat /\ PayloadBytes(ValidItems) \in Nat
        BY ValidItemsShape, CountsNat DEF LedgerInv
      <3>2. QED
        BY <3>1, LimitsAssumption DEF ViewsInv, Fits, NeverOverReplayLimit, OverReplayLimit
    <2>3. ObservedNotForgotten
      BY DEF ViewsInv, ObservedKept, ObservedNotForgotten
    <2>4. QED
      BY <2>1, <2>2, <2>3 DEF ViewsAreTrue
  <1>2. QED
    BY <1>1, ViewsInvariant, PTL

-----------------------------------------------------------------------------
(* Refinement of DurableLog.                                                 *)

\* A process's step is a stutter, an Extend or a Harden of the abstract log.
LEMMA ProcessRefines ==
    ASSUME LedgerInv, ViewsInv, NEW p \in Procs,
           \/ \E how \in Policies : OpenAndLock(p, how)
           \/ StartHeader(p) \/ FinishHeader(p) \/ SyncHeader(p)
           \/ OpenComplete(p) \/ TruncateTail(p) \/ SyncRepair(p) \/ OpenRefused(p)
           \/ \E batch \in Batches : BeginAppend(p, mem[p].head, batch)
           \/ WriteSome(p) \/ WriteRest(p) \/ SyncAppend(p) \/ WriteFails(p)
           \/ Exit(p) \/ Inspect(p)
    PROVE  \/ ValidItems' = ValidItems /\ Durable' = Durable
           \/ /\ Len(ValidItems') = Len(ValidItems) + 1
              /\ SubSeq(ValidItems', 1, Len(ValidItems)) = ValidItems
              /\ Durable' = Durable
           \/ ValidItems' = ValidItems /\ Durable' = Len(ValidItems)
  <1>1. CASE file' = file /\ synced' = synced
    BY <1>1, SameItems DEF Durable
  <1>2. CASE TruncateTail(p)
    BY <1>2, TruncateTailItems
  <1>3. CASE WriteSome(p)
    BY <1>3, WriteSomeItems
  <1>4. CASE WriteRest(p)
    <2>1. /\ ValidItems' = Append(ValidItems, inflight[p])
          /\ Len(ValidItems) = Len(file) - 1 /\ Len(file) \in Nat /\ Len(file) >= 1
          /\ ValidItems \in Seq(Frames) /\ inflight[p] \in Frames
      BY <1>4, WriteRestItems
    <2>2. synced' = synced /\ synced < Len(file) /\ synced \in Nat
      BY <1>4 DEF WriteRest, ViewsInv, ViewOK, LedgerInv, TypeOK
    <2>3. /\ ValidItems' \in Seq(Frames) /\ Len(ValidItems') = Len(ValidItems) + 1
          /\ \A i \in 1..Len(ValidItems) : ValidItems'[i] = ValidItems[i]
      BY <2>1
    <2>4. SubSeq(ValidItems', 1, Len(ValidItems)) = ValidItems
      <3>1. Len(ValidItems) \in 0..Len(ValidItems')
        BY <2>1, <2>3
      <3>2. /\ SubSeq(ValidItems', 1, Len(ValidItems)) \in Seq(Frames)
            /\ Len(SubSeq(ValidItems', 1, Len(ValidItems))) = Len(ValidItems)
            /\ \A i \in 1..Len(ValidItems) :
                  SubSeq(ValidItems', 1, Len(ValidItems))[i] = ValidItems'[i]
        BY <2>3, <3>1, PrefixSeq
      <3>3. QED
        BY <2>1, <2>3, <3>2, SeqEqual
    <2>5. Durable' = Durable
      BY <2>1, <2>2, <2>3 DEF Durable
    <2>6. QED
      BY <2>3, <2>4, <2>5
  <1>5. CASE SyncRepair(p) \/ SyncAppend(p)
    <2>1. ~HasTail /\ file' = file /\ synced' = Len(file)
      BY <1>5 DEF SyncRepair, SyncAppend, LedgerInv, StageOK
    <2>2. ValidItems' = ValidItems /\ ValidItems = file
      BY <2>1, SameItems DEF ValidItems
    <2>3. Durable' = Len(ValidItems)
      BY <2>1, <2>2 DEF Durable
    <2>4. QED
      BY <2>2, <2>3
  <1>6. QED
    BY <1>1, <1>2, <1>3, <1>4, <1>5
       DEF OpenAndLock, StartHeader, FinishHeader, SyncHeader, OpenComplete,
           OpenRefused, BeginAppend, WriteFails, Exit, Inspect, fileVars

\* FileLedger implements DurableLog: callers may think of one growing log with
\* a durable prefix that failures never cut into.
THEOREM LedgerImplementsDurableLog == Spec => ImplementsDurableLog
  <1>1. Init => Log!Init
    <2> SUFFICES ASSUME Init PROVE Log!Init
      OBVIOUS
    <2>1. ValidItems = <<>> /\ synced = 0 /\ Len(<<>>) = 0
      BY DEF Init, ValidItems, HasTail
    <2>2. QED
      BY <2>1 DEF Log!Init
  <1>2. LedgerInv /\ ViewsInv /\ [Next]_vars => [Log!Next]_<<ValidItems, Durable>>
    <2> SUFFICES ASSUME LedgerInv, ViewsInv, [Next]_vars
                 PROVE  Log!Next \/ (ValidItems' = ValidItems /\ Durable' = Durable)
      OBVIOUS
    <2>1. CASE UNCHANGED vars
      BY <2>1, SameItems DEF vars, Durable
    <2>2. CASE PowerLoss
      <3>1. Log!Lose
        BY <2>2, PowerLossItems DEF Log!Lose, Durable
      <3>2. QED
        BY <3>1 DEF Log!Next
    <2>3. ASSUME NEW p \in Procs,
                 \/ \E how \in Policies : OpenAndLock(p, how)
                 \/ StartHeader(p) \/ FinishHeader(p) \/ SyncHeader(p)
                 \/ OpenComplete(p) \/ TruncateTail(p) \/ SyncRepair(p) \/ OpenRefused(p)
                 \/ \E batch \in Batches : BeginAppend(p, mem[p].head, batch)
                 \/ WriteSome(p) \/ WriteRest(p) \/ SyncAppend(p) \/ WriteFails(p)
                 \/ Exit(p) \/ Inspect(p)
          PROVE  Log!Next \/ (ValidItems' = ValidItems /\ Durable' = Durable)
      <3>1. \/ ValidItems' = ValidItems /\ Durable' = Durable
            \/ /\ Len(ValidItems') = Len(ValidItems) + 1
               /\ SubSeq(ValidItems', 1, Len(ValidItems)) = ValidItems
               /\ Durable' = Durable
            \/ ValidItems' = ValidItems /\ Durable' = Len(ValidItems)
        BY <2>3, ProcessRefines
      <3>2. QED
        BY <3>1 DEF Log!Next, Log!Extend, Log!Harden, Durable
    <2>4. QED
      BY <2>1, <2>2, <2>3 DEF Next
  <1>3. QED
    BY <1>1, <1>2, ViewsInvariant, PTL
       DEF Spec, ImplementsDurableLog, Log!Spec, Durable
-----------------------------------------------------------------------------
(* The terminal's session.                                                  *)

SessionSpec == SessionInit /\ [][SessionNext]_session_vars

Screens == {"SlashPanel", "AgentCenter", "Context", "BlockerCenter", "ToolApproval", "ProductOutput"}

\* A call waits only in a Turn that can be resumed, and a Turn has a number.
WorldFields == {"turn", "status", "retryable", "owner", "call", "agents", "operation",
                "operator", "operations"}
IsWorld(w) ==
    /\ w = [f \in WorldFields |-> w[f]]
    /\ w.turn \in Nat /\ w.call \in BOOLEAN
    /\ w.call => w.status = "Resume"
    /\ w.status # "Ready" => w.turn # 0

\* Agents are acted on from their own screen only.
Flows == {"none", "Actions", "ConfirmCancel", "ConfirmRequeue", "ConfirmAcknowledgement", "Text"}
FlowIsOnAgents ==
    /\ "kind" \in DOMAIN flow /\ flow.kind \in Flows
    /\ flow.kind # "none" => screen = "AgentCenter"

SessionInv ==
    /\ IsWorld(world) /\ screen \in Screens /\ running \in BOOLEAN
    /\ FlowIsOnAgents /\ ApprovalShownIsHeld

\* What a step may not do with the output on the screen.
OutputKept ==
    screen = "ProductOutput" /\ running /\ ~(running' /\ screen' = "ProductOutput")
        => ~(world'.status = "Reconcile" /\ world'.turn = output)

\* A changed field of a world.
LEMMA WorldExcept ==
    ASSUME NEW w, w = [f \in WorldFields |-> w[f]], NEW g \in WorldFields, NEW value, NEW v,
           v = [w EXCEPT ![g] = value]
    PROVE  /\ v = [f \in WorldFields |-> v[f]]
           /\ v[g] = value /\ \A f \in WorldFields \ {g} : v[f] = w[f]
<1>1. DOMAIN w = WorldFields
  OBVIOUS
<1>2. v = [f \in WorldFields |-> IF f = g THEN value ELSE w[f]]
  BY <1>1
<1> QED
  BY <1>2

\* Only the Turn's own fields matter.
SameTurn(w, v) ==
    /\ v = [f \in WorldFields |-> v[f]]
    /\ v.turn = w.turn /\ v.status = w.status /\ v.call = w.call

LEMMA SameTurnIsWorld ==
    ASSUME NEW w, NEW v, IsWorld(w), SameTurn(w, v)
    PROVE  IsWorld(v)
BY DEF IsWorld, SameTurn

LEMMA OtherField ==
    ASSUME NEW w, IsWorld(w), NEW g \in WorldFields \ {"turn", "status", "call"}, NEW value
    PROVE  IsWorld([w EXCEPT ![g] = value])
<1> DEFINE v == [w EXCEPT ![g] = value]
<1>1. w = [f \in WorldFields |-> w[f]]
  BY DEF IsWorld
<1>2. v = [f \in WorldFields |-> v[f]] /\ \A f \in WorldFields \ {g} : v[f] = w[f]
  BY <1>1, WorldExcept
<1>3. {"turn", "status", "call"} \subseteq WorldFields \ {g}
  BY DEF WorldFields
<1> HIDE DEF v
<1>4. v["turn"] = w["turn"] /\ v["status"] = w["status"] /\ v["call"] = w["call"]
  BY <1>2, <1>3
<1>5. SameTurn(w, v)
  BY <1>2, <1>4 DEF SameTurn
<1> QED
  BY <1>5, SameTurnIsWorld DEF v

\* A call answered or the Turn moved on; a Turn resumed.
Answered(w, status) == [[w EXCEPT !.call = FALSE] EXCEPT !.status = status]
Resumed(w) == [w EXCEPT !.status = "Resume"]

LEMMA AnsweredIsWorld ==
    ASSUME NEW w, IsWorld(w), NEW status, status = "Ready" \/ w.turn # 0
    PROVE  IsWorld(Answered(w, status))
<1> DEFINE u == [w EXCEPT !.call = FALSE]
           v == [u EXCEPT !.status = status]
<1>1. {"turn", "status", "call"} \subseteq WorldFields /\ w = [f \in WorldFields |-> w[f]]
  BY DEF WorldFields, IsWorld
<1>2. /\ u = [f \in WorldFields |-> u[f]] /\ u["call"] = FALSE
      /\ \A f \in WorldFields \ {"call"} : u[f] = w[f]
  BY <1>1, WorldExcept
<1> HIDE DEF u
<1>4. /\ v = [f \in WorldFields |-> v[f]] /\ v["status"] = status
      /\ \A f \in WorldFields \ {"status"} : v[f] = u[f]
  BY <1>1, <1>2, WorldExcept
<1> HIDE DEF v
<1>5. v.turn = w.turn /\ v.call = FALSE /\ v.status = status
  BY <1>1, <1>2, <1>4
<1>7. IsWorld(v)
  BY <1>4, <1>5 DEF IsWorld
<1> QED
  BY <1>7 DEF u, v, Answered

LEMMA ResumedIsWorld ==
    ASSUME NEW w, IsWorld(w), w.turn # 0
    PROVE  IsWorld(Resumed(w))
<1> DEFINE x == [w EXCEPT !.status = "Resume"]
<1>1. {"turn", "status", "call"} \subseteq WorldFields /\ w = [f \in WorldFields |-> w[f]]
  BY DEF WorldFields, IsWorld
<1>2. /\ x = [f \in WorldFields |-> x[f]] /\ x["status"] = "Resume"
      /\ \A f \in WorldFields \ {"status"} : x[f] = w[f]
  BY <1>1, WorldExcept
<1> HIDE DEF x
<1>3. x.turn = w.turn /\ x.call = w.call /\ x.status = "Resume"
  BY <1>1, <1>2
<1>4. IsWorld(x)
  BY <1>2, <1>3 DEF IsWorld
<1> QED
  BY <1>4 DEF x, Resumed

\* Several fields at once are one after the other.
LEMMA RanIsWorld ==
    ASSUME NEW w, IsWorld(w), w.turn # 0, NEW v \in Ran(w)
    PROVE  IsWorld(v)
<1>1. w = [f \in WorldFields |-> w[f]] /\ DOMAIN w = WorldFields
  BY DEF IsWorld
<1>2. ASSUME NEW status, v = [w EXCEPT !.status = status, !.call = FALSE] PROVE IsWorld(v)
  <2>1. v = Answered(w, status)
    BY <1>1, <1>2 DEF Answered
  <2> QED
    BY <2>1, AnsweredIsWorld
<1>3. ASSUME NEW r, v = [w EXCEPT !.status = "Blocked", !.retryable = r, !.call = FALSE]
      PROVE  IsWorld(v)
  <2> DEFINE u == Answered(w, "Blocked")
  <2>1. v = [u EXCEPT !["retryable"] = r]
    BY <1>1, <1>3 DEF Answered
  <2>2. IsWorld(u)
    BY AnsweredIsWorld
  <2> HIDE DEF u
  <2>3. "retryable" \in WorldFields \ {"turn", "status", "call"}
    BY DEF WorldFields
  <2> QED
    BY <2>1, <2>2, <2>3, OtherField
<1>4. CASE v = [w EXCEPT !.status = "Resume"]
  <2>1. v = Resumed(w)
    BY <1>4 DEF Resumed
  <2> QED
    BY <2>1, ResumedIsWorld
<1>5. CASE v = [w EXCEPT !.status = "Resume", !.call = TRUE]
  <2> DEFINE u == Resumed(w)
  <2>1. v = [u EXCEPT !["call"] = TRUE]
    BY <1>5 DEF Resumed
  <2>2. IsWorld(u)
    BY ResumedIsWorld
  <2>3. u.turn = w.turn /\ u.status = "Resume"
    <3>1. "turn" \in WorldFields /\ "status" \in WorldFields
      BY DEF WorldFields
    <3> QED
      BY <1>1, <3>1 DEF Resumed
  <2> HIDE DEF u
  <2>4. u = [f \in WorldFields |-> u[f]] /\ {"turn", "status", "call"} \subseteq WorldFields
    BY <2>2 DEF IsWorld, WorldFields
  <2>5. /\ v = [f \in WorldFields |-> v[f]] /\ v["call"] = TRUE
        /\ \A f \in WorldFields \ {"call"} : v[f] = u[f]
    BY <2>1, <2>4, WorldExcept
  <2>6. v.turn = w.turn /\ v.status = "Resume" /\ v.call = TRUE
    BY <2>3, <2>4, <2>5
  <2> QED
    BY <2>5, <2>6 DEF IsWorld
<1>6. \/ v = [w EXCEPT !.status = "Reconcile", !.call = FALSE]
      \/ v = [w EXCEPT !.status = "Blocked", !.retryable = TRUE, !.call = FALSE]
      \/ v = [w EXCEPT !.status = "Blocked", !.retryable = FALSE, !.call = FALSE]
      \/ v = [w EXCEPT !.status = "Resume", !.call = TRUE]
      \/ v = [w EXCEPT !.status = "Resume"]
  BY Zenon DEF Ran
<1>7. CASE v = [w EXCEPT !.status = "Reconcile", !.call = FALSE]
  BY <1>2, <1>7, Zenon
<1>8. CASE v = [w EXCEPT !.status = "Blocked", !.retryable = TRUE, !.call = FALSE]
  BY <1>3, <1>8, Zenon
<1>9. CASE v = [w EXCEPT !.status = "Blocked", !.retryable = FALSE, !.call = FALSE]
  BY <1>3, <1>9, Zenon
<1> QED
  BY <1>4, <1>5, <1>6, <1>7, <1>8, <1>9, Zenon

LEMMA SettledIsWorld ==
    ASSUME NEW w, IsWorld(w)
    PROVE  IsWorld(Settled(w)) /\ Settled(w).status = "Ready"
<1>1. w = [f \in WorldFields |-> w[f]] /\ DOMAIN w = WorldFields /\ "status" \in WorldFields
  BY DEF IsWorld, WorldFields
<1> DEFINE u == Answered(w, "Ready")
<1>2. Settled(w) = [u EXCEPT !["owner"] = 0]
  BY <1>1 DEF Settled, Answered
<1>3. IsWorld(u)
  BY AnsweredIsWorld
<1>4. "owner" \in WorldFields \ {"turn", "status", "call"}
  BY DEF WorldFields
<1>5. IsWorld(Settled(w))
  <2> HIDE DEF u
  <2>1. IsWorld([u EXCEPT !["owner"] = 0])
    BY <1>3, <1>4, OtherField
  <2> QED
    BY <1>2, <2>1
<1> QED
  BY <1>1, <1>5 DEF Settled

LEMMA CommandedIsWorld ==
    ASSUME NEW w, IsWorld(w), NEW a, NEW status
    PROVE  IsWorld(Commanded(w, a, status))
<1> DEFINE t == [w EXCEPT !["agents"] = [w.agents EXCEPT ![a] = status]]
           u == [t EXCEPT !["operation"] = w.operations + 1]
           v == [u EXCEPT !["operations"] = w.operations + 1]
           x == [v EXCEPT !["operator"] = a]
<1>1. w = [f \in WorldFields |-> w[f]] /\ DOMAIN w = WorldFields
  BY DEF IsWorld
<1>2. {"agents", "operation", "operations", "operator"} \subseteq WorldFields \ {"turn", "status", "call"}
  BY DEF WorldFields
<1>3. Commanded(w, a, status) = x
  BY <1>1, <1>2 DEF Commanded
<1>4. IsWorld(t)
  BY <1>2, OtherField
<1> HIDE DEF t
<1>5. IsWorld(u)
  BY <1>2, <1>4, OtherField
<1> HIDE DEF u
<1>6. IsWorld(v)
  BY <1>2, <1>5, OtherField
<1> HIDE DEF v
<1>7. IsWorld(x)
  BY <1>2, <1>6, OtherField
<1> QED
  BY <1>3, <1>7

Acknowledged(w) == [w EXCEPT !.operation = 0, !.operator = 0]

LEMMA AcknowledgedIsWorld ==
    ASSUME NEW w, IsWorld(w)
    PROVE  IsWorld(Acknowledged(w))
<1> DEFINE u == [w EXCEPT !["operation"] = 0]
           v == [u EXCEPT !["operator"] = 0]
<1>1. {"operation", "operator"} \subseteq WorldFields \ {"turn", "status", "call"}
  BY DEF WorldFields
<1>2. IsWorld(u)
  BY <1>1, OtherField
<1>3. IsWorld(v)
  <2> HIDE DEF u
  <2> QED
    BY <1>1, <1>2, OtherField
<1>4. v = Acknowledged(w)
  BY DEF Acknowledged
<1> HIDE DEF v
<1> QED
  BY <1>3, <1>4

LEMMA ElsewhereIsWorld ==
    ASSUME NEW w, IsWorld(w), NEW v \in Elsewhere(w)
    PROVE  IsWorld(v)
<1>1. ASSUME NEW a, w.status = "Ready", v \in Ran(Begun(w, a))
      PROVE IsWorld(v)
  <2> DEFINE u == Begun(w, a)
  <2> DEFINE t == [w EXCEPT !["turn"] = w.turn + 1]
  <2>1. w = [f \in WorldFields |-> w[f]] /\ {"turn", "status", "call"} \subseteq WorldFields
    BY DEF WorldFields, IsWorld
  <2>2. /\ t = [f \in WorldFields |-> t[f]] /\ t["turn"] = w.turn + 1
        /\ \A f \in WorldFields \ {"turn"} : t[f] = w[f]
    BY <2>1, WorldExcept
  <2>3. u = [t EXCEPT !["owner"] = a]
    BY DEF Begun
  <2> HIDE DEF t
  <2>4. t.turn = w.turn + 1 /\ t.status = w.status /\ t.call = w.call
    BY <2>1, <2>2
  <2>5. IsWorld(t)
    BY <2>2, <2>4 DEF IsWorld
  <2>6. "owner" \in WorldFields \ {"turn", "status", "call"}
    BY DEF WorldFields
  <2>7. IsWorld(u)
    <3>1. IsWorld([t EXCEPT !["owner"] = a])
      BY <2>5, <2>6, OtherField
    <3> QED
      BY <2>3, <3>1
  <2>8. u.turn = w.turn + 1
    <3>1. t["turn"] = w.turn + 1 /\ t = [f \in WorldFields |-> t[f]] /\ "turn" \in WorldFields
      BY <2>1, <2>2
    <3>2. u["turn"] = t["turn"]
      BY <2>3, <3>1
    <3> QED
      BY <3>1, <3>2
  <2>9. u.turn # 0
    BY <2>8 DEF IsWorld
  <2> HIDE DEF u
  <2>10. v \in Ran(u)
    BY <1>1 DEF u
  <2> HIDE DEF u
  <2> QED
    BY <2>7, <2>9, <2>10, RanIsWorld
<1>2. CASE w.status = "Resume" /\ v \in Ran(w) \cup {Settled(w)}
  BY <1>2, RanIsWorld, SettledIsWorld DEF IsWorld
<1>3. CASE w.status = "Blocked" /\ v \in {Resumed(w), Settled(w)}
  <2>1. w.turn # 0
    BY <1>3 DEF IsWorld
  <2> QED
    BY <1>3, <2>1, ResumedIsWorld, SettledIsWorld
<1>4. CASE v = Settled(w)
  BY <1>4, SettledIsWorld
<1>6. CASE v = Acknowledged(w)
  BY <1>6, AcknowledgedIsWorld
<1> DEFINE B == IF w.status = "Ready" /\ w.turn < MaxTurns /\ w.operation = 0
                THEN UNION {Ran(Begun(w, a)) : a \in Active(w)} ELSE {}
           R == IF w.status = "Resume" THEN Ran(w) \cup {Settled(w)} ELSE {}
           K == IF w.status = "Blocked" /\ w.retryable
                THEN {[w EXCEPT !.status = "Resume"], Settled(w)} ELSE {}
           D == IF w.status = "Reconcile" THEN {Settled(w)} ELSE {}
           C == {Commanded(w, a, s) : a \in {b \in Active(w) : CanCommand(w, b)},
                                      s \in {"active", "succeeded", "failed", "cancelled"}}
           A == IF w.operation # 0 THEN {[w EXCEPT !.operation = 0, !.operator = 0]} ELSE {}
<1>7. v \in B \cup R \cup K \cup D \cup C \cup A
  <2>1. v \in Elsewhere(w)
    OBVIOUS
  <2>2. Elsewhere(w) = B \cup R \cup K \cup D \cup C \cup A
    BY DEF Elsewhere
  <2> HIDE DEF B, R, K, D, C, A
  <2> QED
    BY <2>1, <2>2
<1>8. v \in B \/ v \in R \/ v \in K \/ v \in D \/ v \in C \/ v \in A
  <2> HIDE DEF B, R, K, D, C, A
  <2> QED
    BY <1>7
<1>9. CASE v \in B
  <2>1. w.status = "Ready" /\ v \in UNION {Ran(Begun(w, a)) : a \in Active(w)}
    BY <1>9, Zenon
  <2>2. PICK a \in Active(w) : v \in Ran(Begun(w, a))
    BY <2>1, Zenon
  <2> QED
    BY <1>1, <2>1, <2>2, Zenon
<1>10. CASE v \in R
  BY <1>2, <1>10, Zenon
<1>11. CASE v \in K
  <2>1. w.status = "Blocked" /\ v \in {[w EXCEPT !.status = "Resume"], Settled(w)}
    BY <1>11, Zenon
  <2> QED
    BY <1>3, <2>1, Zenon DEF Resumed
<1>12. CASE v \in D
  BY <1>4, <1>12, Zenon
<1>13. CASE v \in C
  <2>1. PICK a \in {b \in Active(w) : CanCommand(w, b)},
             s \in {"active", "succeeded", "failed", "cancelled"} : v = Commanded(w, a, s)
    BY <1>13
  <2> QED
    BY <2>1, CommandedIsWorld, Zenon
<1>14. CASE v \in A
  BY <1>6, <1>14, Zenon DEF Acknowledged
<1> QED
  <2> HIDE DEF B, R, K, D, C, A
  <2> QED
    BY <1>8, <1>9, <1>10, <1>11, <1>12, <1>13, <1>14

-----------------------------------------------------------------------------
\* The context a key is pressed in is the screen, or an overlay of it.
LEMMA ContextIsScreen ==
    ASSUME SessionInv
    PROVE  /\ input_context \in Screens => screen = input_context /\ flow.kind = "none"
           /\ input_context \in {"AgentActions", "AgentConfirmation", "AgentText"} => screen = "AgentCenter"
           /\ input_context \in Screens \cup {"AgentActions", "AgentConfirmation", "AgentText",
                                               "ContextConfirmation"}
BY DEF SessionInv, FlowIsOnAgents, Flows, Screens, input_context

\* Which contexts the intents that move between screens come from.
LEMMA IntentHasContext ==
    ASSUME NEW event \in Events, NEW context
    PROVE  /\ apply(event, context) = "Activate" => context = "SlashPanel"
           /\ apply(event, context) = "Back" =>
                  context \notin {"ToolApproval", "SlashPanel", "ContextConfirmation", "AgentActions",
                                  "AgentConfirmation", "AgentText"}
           /\ apply(event, context) = "OpenAgentActions" => context = "AgentCenter"
           /\ apply(event, context) \in {"MoveAgentAction", "ActivateAgentAction"} => context = "AgentActions"
           /\ apply(event, context) = "SubmitAgentText" => context = "AgentText"
           /\ apply(event, context) = "ConfirmAgentAction" => context = "AgentConfirmation"
           /\ apply(event, context) = "ActivateBlocker" => context = "BlockerCenter"
           /\ apply(event, context) \in {"ActivateToolApproval", "CancelToolApproval"} => context = "ToolApproval"
           /\ apply(event, context) = "AcknowledgeProductOutput" => context = "ProductOutput"
<1>1. CASE event = "F6"
  BY <1>1 DEF apply
<1>2. CASE event = "r"
  BY <1>2 DEF apply
<1>3. CASE event = "a"
  BY <1>3 DEF apply
<1>4. CASE event = "Up"
  BY <1>4 DEF apply
<1>9. CASE event = "Down"
  BY <1>9 DEF apply
<1>5. CASE event = "Delete"
  BY <1>5 DEF apply
<1>6. CASE event = "Enter"
  BY <1>6 DEF apply
<1>7. CASE event = "Escape"
  BY <1>7 DEF apply
<1>8. CASE event = "Quit"
  BY <1>8 DEF apply
<1> QED
  BY <1>1, <1>2, <1>3, <1>4, <1>5, <1>6, <1>7, <1>8, <1>9 DEF Events

\* What every step of the session does.
Keeps == SessionInv' /\ OutputKept

\* The flow stays with the Agents, or ends.
FlowStays ==
    \/ flow' = flow
    \/ flow' = NoFlow
    \/ screen = "AgentCenter" /\ "kind" \in DOMAIN flow' /\ flow'.kind \in Flows

\* Nothing happens to the product, and the screen stays.
LEMMA StayingKeeps ==
    ASSUME SessionInv, world' = world, screen' = screen, running' = running,
           held' = held, approval' = approval, FlowStays
    PROVE  Keeps
<1>1. FlowIsOnAgents'
  <2>1. CASE flow' = flow
    BY <2>1 DEF SessionInv, FlowIsOnAgents
  <2>2. CASE flow' = NoFlow
    BY <2>2 DEF NoFlow, FlowIsOnAgents, Flows
  <2>3. CASE screen = "AgentCenter" /\ "kind" \in DOMAIN flow' /\ flow'.kind \in Flows
    BY <2>3 DEF FlowIsOnAgents
  <2> QED
    BY <2>1, <2>2, <2>3 DEF FlowStays
<1>2. ApprovalShownIsHeld'
  BY DEF SessionInv, ApprovalShownIsHeld
<1>3. OutputKept
  BY DEF OutputKept
<1> QED
  BY <1>1, <1>2, <1>3 DEF SessionInv, Keeps, IsWorld

\* The product moves on while no approval is shown and the screen stays.
LEMMA CallingKeeps ==
    ASSUME SessionInv, IsWorld(world'), screen' = screen, running' = running,
           held' = held, screen # "ToolApproval" \/ ~running, FlowStays
    PROVE  Keeps
<1>1. FlowIsOnAgents'
  <2>1. CASE flow' = flow
    BY <2>1 DEF SessionInv, FlowIsOnAgents
  <2>2. CASE flow' = NoFlow
    BY <2>2 DEF NoFlow, FlowIsOnAgents, Flows
  <2>3. CASE screen = "AgentCenter" /\ "kind" \in DOMAIN flow' /\ flow'.kind \in Flows
    BY <2>3 DEF FlowIsOnAgents
  <2> QED
    BY <2>1, <2>2, <2>3 DEF FlowStays
<1>2. ApprovalShownIsHeld'
  BY DEF SessionInv, ApprovalShownIsHeld
<1>3. OutputKept
  BY DEF OutputKept
<1> QED
  BY <1>1, <1>2, <1>3 DEF SessionInv, Keeps

\* Another screen is shown while none of the two kept screens is.
LEMMA ShowingKeeps ==
    ASSUME SessionInv, IsWorld(world'), running' = running, screen' \in Screens,
           held' = 0, flow' = NoFlow \/ (flow.kind = "none" /\ flow' = flow),
           screen' # "ToolApproval",
           screen # "ProductOutput" \/ ~(world'.status = "Reconcile" /\ world'.turn = output)
    PROVE  Keeps
<1>1. FlowIsOnAgents'
  BY DEF SessionInv, FlowIsOnAgents, NoFlow, Flows
<1>2. ApprovalShownIsHeld'
  BY DEF ApprovalShownIsHeld
<1>3. OutputKept
  BY DEF OutputKept
<1> QED
  BY <1>1, <1>2, <1>3 DEF SessionInv, Keeps

\* A call of the product from a screen without an approval.
LEMMA CallKeeps ==
    ASSUME SessionInv, NEW new, NEW again, \A w \in new : IsWorld(w),
           screen # "ToolApproval",
           again = flow \/ again = NoFlow,
           Call(new, again)
    PROVE  Keeps
<1>1. running' = running /\ held' = held /\ screen' = screen
  BY DEF Call, Refresh
<1>2. FlowStays
  BY DEF Call, FlowStays
<1>3. IsWorld(world')
  <2>1. CASE world' \in new
    BY <2>1
  <2>2. CASE world' = world
    BY <2>2 DEF SessionInv
  <2> QED
    BY <2>1, <2>2 DEF Call
<1> QED
  BY <1>1, <1>2, <1>3, CallingKeeps

\* A Blocked Turn is resumed.
LEMMA RetriedIsWorld ==
    ASSUME IsWorld(world), NEW c, NEW w \in IF c /\ world.status = "Blocked" /\ world.retryable
                                           THEN {[world EXCEPT !.status = "Resume"]} ELSE {}
    PROVE  IsWorld(w)
<1>1. world.turn # 0 /\ w = Resumed(world)
  BY DEF IsWorld, Resumed
<1> QED
  BY <1>1, ResumedIsWorld

LEMMA ResumeAgentKeeps ==
    ASSUME SessionInv, screen = "AgentCenter", NEW t, ResumeAgentProvider(t)
    PROVE  Keeps
<1>1. running' = running /\ held' = held /\ held = 0 /\ flow' = NoFlow
  BY DEF ResumeAgentProvider, SessionInv, ApprovalShownIsHeld
<1>2. CASE Owned(t) /\ world.status = "Resume" /\ ~world.call
           /\ world' \in Ran(world)
           /\ (screen' = "ProductOutput" \/ screen' = screen)
  <2>1. world.turn # 0
    BY <1>2 DEF SessionInv, IsWorld
  <2>2. IsWorld(world')
    BY <1>2, <2>1, RanIsWorld DEF SessionInv
  <2> QED
    BY <1>1, <1>2, <2>2, ShowingKeeps DEF Screens
<1>3. CASE world' = world /\ screen' = screen
  BY <1>1, <1>3, ShowingKeeps DEF SessionInv, Screens
<1> QED
  BY <1>2, <1>3 DEF ResumeAgentProvider, show_product_output, Refresh

LEMMA LoadAgentOutputKeeps ==
    ASSUME SessionInv, screen = "AgentCenter", NEW t, LoadAgentOutput(t)
    PROVE  Keeps
<1>1. running' = running /\ held' = held /\ held = 0 /\ flow' = NoFlow /\ world' = world
  BY DEF LoadAgentOutput, SessionInv, ApprovalShownIsHeld
<1>2. screen' \in Screens /\ screen' # "ToolApproval"
  BY DEF LoadAgentOutput, show_product_output, Screens
<1>3. IsWorld(world')
  BY <1>1 DEF SessionInv
<1>4. held' = 0 /\ screen # "ToolApproval" /\ screen # "ProductOutput"
  BY <1>1
<1> QED
  BY <1>1, <1>2, <1>3, <1>4, ShowingKeeps

LEMMA ActivateAgentActionKeeps ==
    ASSUME SessionInv, screen = "AgentCenter", ActivateAgentAction
    PROVE  Keeps
<1> DEFINE t == flow.target
           action == AgentActions(t)[flow.row + 1]
<1>1. CASE RetryAgentProvider(t)
  <2> DEFINE new == IF Owned(t) /\ world.status = "Blocked" /\ world.retryable
                    THEN {[world EXCEPT !.status = "Resume"]} ELSE {}
  <2>1. \A w \in new : IsWorld(w)
    BY RetriedIsWorld DEF SessionInv
  <2>2. Call(new, NoFlow)
    BY <1>1, Zenon DEF RetryAgentProvider
  <2> HIDE DEF new
  <2> QED
    BY <2>1, <2>2, CallKeeps
<1>2. CASE ResumeAgentProvider(t)
  BY <1>2, ResumeAgentKeeps
<1>3. CASE LoadAgentOutput(t)
  BY <1>3, LoadAgentOutputKeeps
<1>4. CASE /\ flow' = Confirming(action, t)
           /\ action \in {"ConfirmCancel", "ConfirmRequeue", "ConfirmAcknowledgement"}
           /\ UNCHANGED <<screen, approval, running, world, held>>
  <2>1. FlowStays
    BY <1>4 DEF FlowStays, Confirming, Flows
  <2> QED
    BY <1>4, <2>1, StayingKeeps
<1>5. CASE CancelAgentFlow
  BY <1>5, StayingKeeps DEF CancelAgentFlow, FlowStays, Stay
<1>6. CASE /\ flow' = [kind |-> "Text", target |-> t, action |-> action]
           /\ UNCHANGED <<screen, approval, running, world, held>>
  <2>1. FlowStays
    BY <1>6 DEF FlowStays, Flows
  <2> QED
    BY <1>6, <2>1, StayingKeeps
<1>7. \/ RetryAgentProvider(t) \/ ResumeAgentProvider(t) \/ LoadAgentOutput(t)
      \/ /\ flow' = Confirming(action, t)
         /\ action \in {"ConfirmCancel", "ConfirmRequeue", "ConfirmAcknowledgement"}
         /\ UNCHANGED <<screen, approval, running, world, held>>
      \/ CancelAgentFlow
      \/ /\ flow' = [kind |-> "Text", target |-> t, action |-> action]
         /\ UNCHANGED <<screen, approval, running, world, held>>
  BY Zenon DEF ActivateAgentAction, Stay
<1> QED
  BY <1>1, <1>2, <1>3, <1>4, <1>5, <1>6, <1>7

LEMMA SubmitAgentTextKeeps ==
    ASSUME SessionInv, screen = "AgentCenter", SubmitAgentText
    PROVE  Keeps
<1> DEFINE a == flow.target.agent
           ended == CASE flow.action = "Complete" -> "succeeded"
                      [] flow.action = "Fail" -> "failed"
                      [] OTHER -> "active"
           done == Commanded(world, a, ended)
           new == IF ~CanCommand(world, a) THEN {}
                  ELSE IF flow.action # "Delegate" THEN {done}
                  ELSE IF Len(world.agents) < MaxAgents
                  THEN {[done EXCEPT !.agents = Append(@, "active")]} ELSE {}
<1>1. IsWorld(done)
  <2> HIDE DEF a, ended
  <2> QED
    BY CommandedIsWorld DEF SessionInv
<1>2. \A w \in new : IsWorld(w)
  <2> HIDE DEF done
  <2>1. "agents" \in WorldFields \ {"turn", "status", "call"}
    BY DEF WorldFields
  <2>2. IsWorld([done EXCEPT !["agents"] = Append(done["agents"], "active")])
    BY <1>1, <2>1, OtherField
  <2> QED
    BY <1>1, <2>2
<1>3. Call(new, flow)
  BY Zenon DEF SubmitAgentText
<1> HIDE DEF new
<1> QED
  BY <1>2, <1>3, CallKeeps

LEMMA ConfirmAgentActionKeeps ==
    ASSUME SessionInv, screen = "AgentCenter", ConfirmAgentAction
    PROVE  Keeps
<1> DEFINE t == flow.target
           a == t.agent
           cancel == IF CanCommand(world, a) THEN {Commanded(world, a, "cancelled")} ELSE {}
           requeue == IF /\ world.operation = 0 /\ world.operations < MaxOperations
                         /\ world.agents[a] \in {"failed", "cancelled"} /\ 1 \in Active(world)
                      THEN {Commanded(world, a, "active")} ELSE {}
           done == IF world.operation = t.operation
                   THEN {[world EXCEPT !.operation = 0, !.operator = 0]} ELSE {}
<1>1. Call(cancel, flow) \/ Call(requeue, NoFlow) \/ Call(done, flow)
  BY Zenon DEF ConfirmAgentAction
<1>2. \A w \in cancel : IsWorld(w)
  <2> HIDE DEF a
  <2> QED
    BY CommandedIsWorld DEF SessionInv
<1>3. \A w \in requeue : IsWorld(w)
  <2> HIDE DEF a
  <2> QED
    BY CommandedIsWorld DEF SessionInv
<1>4. \A w \in done : IsWorld(w)
  <2>1. IsWorld(Acknowledged(world))
    BY AcknowledgedIsWorld DEF SessionInv
  <2> QED
    BY <2>1 DEF Acknowledged
<1> HIDE DEF cancel, requeue, done
<1> QED
  BY <1>1, <1>2, <1>3, <1>4, CallKeeps

\* An approval shown holds its driver.
LEMMA LoadToolApprovalKeeps ==
    ASSUME SessionInv, running, screen = "BlockerCenter", NEW call, LoadToolApproval(call)
    PROVE  Keeps
<1>1. held = 0 /\ flow.kind = "none" /\ flow' = flow /\ running' = running /\ world' = world
  BY DEF SessionInv, ApprovalShownIsHeld, FlowIsOnAgents, LoadToolApproval
<1>2. CASE load_tool_approval(call) /\ held' = call /\ approval' = call /\ screen' = "ToolApproval"
  <2>1. call # 0
    BY <1>2 DEF load_tool_approval, SessionInv, IsWorld
  <2>2. ApprovalShownIsHeld'
    BY <1>1, <1>2, <2>1 DEF ApprovalShownIsHeld, load_tool_approval
  <2>3. FlowIsOnAgents'
    BY <1>1 DEF SessionInv, FlowIsOnAgents
  <2>4. SessionInv'
    BY <1>1, <1>2, <2>2, <2>3 DEF SessionInv, Screens, IsWorld
  <2>5. OutputKept
    BY DEF OutputKept
  <2> QED
    BY <2>4, <2>5 DEF Keeps
<1>3. CASE held' = 0 /\ screen' = screen
  <2>1. IsWorld(world') /\ screen' \in Screens
    BY <1>1, <1>3 DEF SessionInv
  <2> QED
    BY <1>1, <1>3, <2>1, ShowingKeeps
<1> QED
  BY <1>2, <1>3 DEF LoadToolApproval, Show, Refresh

LEMMA ActivateBlockerKeeps ==
    ASSUME SessionInv, running, screen = "BlockerCenter", ActivateBlocker
    PROVE  Keeps
<1> DEFINE blocker == build_blockers(view)[selected + 1]
<1>1. \/ LoadToolApproval(blocker.id) \/ RetryProvider(blocker.id)
      \/ UNCHANGED <<screen, world, held>> /\ Quiet
  BY Zenon DEF ActivateBlocker, Stay
<1>2. CASE LoadToolApproval(blocker.id)
  BY <1>2, LoadToolApprovalKeeps
<1>3. CASE RetryProvider(blocker.id)
  <2> DEFINE turn == blocker.id
             new == IF world.turn = turn /\ world.status = "Blocked" /\ world.retryable
                    THEN {[world EXCEPT !.status = "Resume"]} ELSE {}
  <2>1. \A w \in new : IsWorld(w)
    <3> HIDE DEF turn
    <3> QED
      BY RetriedIsWorld DEF SessionInv
  <2>2. Call(new, flow)
    BY <1>3, Zenon DEF RetryProvider
  <2> HIDE DEF new
  <2> QED
    BY <2>1, <2>2, CallKeeps
<1>4. CASE UNCHANGED <<screen, world, held>> /\ Quiet
  <2>1. FlowStays
    BY <1>4 DEF Quiet, FlowStays
  <2> QED
    BY <1>4, <2>1, StayingKeeps DEF Quiet
<1> QED
  BY <1>1, <1>2, <1>3, <1>4

LEMMA CancelToolApprovalKeeps ==
    ASSUME SessionInv, screen = "ToolApproval", CancelToolApproval
    PROVE  Keeps
<1>1. /\ IsWorld(world') /\ running' = running /\ held' = 0 /\ screen' = "BlockerCenter"
      /\ flow' = flow
  BY DEF SessionInv, CancelToolApproval, Show
<1>2. flow.kind = "none"
  BY DEF SessionInv, FlowIsOnAgents
<1> QED
  BY <1>1, <1>2, ShowingKeeps DEF Screens

LEMMA ActivateToolApprovalKeeps ==
    ASSUME SessionInv, running, screen = "ToolApproval", ActivateToolApproval
    PROVE  Keeps
<1>1. PICK decision : ResolveToolApproval(decision)
  BY DEF ActivateToolApproval
<1>2. held' = 0 /\ flow' = flow /\ running' = running /\ flow.kind = "none" /\ world.turn # 0
  BY <1>1 DEF ResolveToolApproval, SessionInv, FlowIsOnAgents, ApprovalShownIsHeld
<1>3. screen' \in {"ProductOutput", "BlockerCenter"}
  BY <1>1 DEF ResolveToolApproval, show_product_output, Refresh
<1>4. IsWorld(world')
  <2>1. CASE world' \in Ran(world)
    BY <1>2, <2>1, RanIsWorld DEF SessionInv
  <2>2. CASE world' = [world EXCEPT !.status = "Blocked", !.retryable = FALSE, !.call = FALSE]
    <3>1. world' \in Ran(world)
      BY <2>2, Zenon DEF Ran
    <3> QED
      BY <2>1, <3>1
  <2>3. CASE world' = world
    BY <2>3 DEF SessionInv
  <2>4. \/ world' \in Ran(world)
        \/ world' = [world EXCEPT !.status = "Blocked", !.retryable = FALSE, !.call = FALSE]
        \/ world' = world
    BY <1>1, Zenon DEF ResolveToolApproval
  <2> QED
    BY <2>1, <2>2, <2>3, <2>4
<1> QED
  BY <1>2, <1>3, <1>4, ShowingKeeps DEF Screens

LEMMA AcknowledgeKeeps ==
    ASSUME SessionInv, screen = "ProductOutput", AcknowledgeProductOutput
    PROVE  Keeps
<1>1. /\ world' = Settled(world) /\ held' = 0 /\ running' = running /\ flow' = flow
      /\ screen' = "BlockerCenter"
  BY DEF AcknowledgeProductOutput, Refresh
<1>2. IsWorld(world') /\ world'.status = "Ready" /\ flow.kind = "none"
  BY <1>1, SettledIsWorld DEF SessionInv, FlowIsOnAgents
<1> QED
  BY <1>1, <1>2, ShowingKeeps DEF Screens

LEMMA ActivateKeeps ==
    ASSUME SessionInv, screen = "SlashPanel",
           NEW at \in {"AgentCenter", "Context", "BlockerCenter"}, Activate(at)
    PROVE  Keeps
<1>1. /\ IsWorld(world') /\ running' = running /\ held' = held /\ screen' = at /\ flow' = flow
  BY DEF SessionInv, Activate, Show, Stay, Quiet
<1>2. flow.kind = "none" /\ held = 0
  BY DEF SessionInv, FlowIsOnAgents, ApprovalShownIsHeld
<1> QED
  BY <1>1, <1>2, ShowingKeeps DEF Screens

LEMMA BackKeeps ==
    ASSUME SessionInv, screen # "ToolApproval", flow.kind = "none", Back
    PROVE  Keeps
<1>1. /\ IsWorld(world') /\ running' = running /\ held' = held /\ flow' = flow
      /\ screen # "ProductOutput" /\ screen' \in Screens /\ screen' # "ToolApproval"
  BY DEF SessionInv, Back, Show, Stay, Quiet, Screens
<1>2. held' = 0
  BY <1>1 DEF SessionInv, ApprovalShownIsHeld
<1> QED
  BY <1>1, <1>2, ShowingKeeps

LEMMA QuitKeeps ==
    ASSUME SessionInv, Quit
    PROVE  Keeps
<1>1. FlowIsOnAgents' /\ ApprovalShownIsHeld' /\ OutputKept
  BY DEF SessionInv, Quit, FlowIsOnAgents, ApprovalShownIsHeld, OutputKept
<1> QED
  BY <1>1 DEF SessionInv, Quit, Keeps, IsWorld

\* Every key the session handles.
LEMMA HandleKeeps ==
    ASSUME SessionInv, running, NEW event \in Events, Handle(event, apply(event, input_context))
    PROVE  Keeps
<1> DEFINE intent == apply(event, input_context)
<1>1. /\ intent = "Activate" => screen = "SlashPanel"
      /\ intent = "Back" => screen # "ToolApproval" /\ flow.kind = "none"
      /\ intent \in {"OpenAgentActions", "MoveAgentAction", "ActivateAgentAction",
                     "SubmitAgentText", "ConfirmAgentAction"} => screen = "AgentCenter"
      /\ intent = "ActivateBlocker" => screen = "BlockerCenter"
      /\ intent \in {"ActivateToolApproval", "CancelToolApproval"} => screen = "ToolApproval"
      /\ intent = "AcknowledgeProductOutput" => screen = "ProductOutput"
  <2> DEFINE context == input_context
  <2> HIDE DEF context, intent
  <2>1. intent = apply(event, context)
    BY DEF intent, context
  <2>2. /\ context \in Screens => screen = context /\ flow.kind = "none"
        /\ context \in {"AgentActions", "AgentConfirmation", "AgentText"} => screen = "AgentCenter"
        /\ context \in Screens \cup {"AgentActions", "AgentConfirmation", "AgentText",
                                      "ContextConfirmation"}
    BY ContextIsScreen DEF context
  <2>3. /\ intent = "Activate" => context = "SlashPanel"
        /\ intent = "Back" =>
               context \notin {"ToolApproval", "SlashPanel", "ContextConfirmation", "AgentActions",
                               "AgentConfirmation", "AgentText"}
        /\ intent = "OpenAgentActions" => context = "AgentCenter"
        /\ intent \in {"MoveAgentAction", "ActivateAgentAction"} => context = "AgentActions"
        /\ intent = "SubmitAgentText" => context = "AgentText"
        /\ intent = "ConfirmAgentAction" => context = "AgentConfirmation"
        /\ intent = "ActivateBlocker" => context = "BlockerCenter"
        /\ intent \in {"ActivateToolApproval", "CancelToolApproval"} => context = "ToolApproval"
        /\ intent = "AcknowledgeProductOutput" => context = "ProductOutput"
    BY <2>1, IntentHasContext
  <2> QED
    BY <2>2, <2>3 DEF Screens
<1>2. ASSUME UNCHANGED <<world, screen, running, held, approval, flow>>
      PROVE  Keeps
  BY <1>2, StayingKeeps DEF FlowStays
<1>3. CASE RefreshSnapshot
  BY <1>2, <1>3 DEF RefreshSnapshot, Quiet, Refresh
<1>4. CASE intent = "Activate" /\ \E at \in {"AgentCenter", "Context", "BlockerCenter"} : Activate(at)
  BY <1>1, <1>4, ActivateKeeps
<1>5. CASE MoveSelection(event) \/ ToggleAgentDetail \/ MoveToolApprovalSelection(event)
           \/ MoveProductOutputSelection(event)
  BY <1>2, <1>5 DEF MoveSelection, ToggleAgentDetail, MoveToolApprovalSelection,
                    MoveProductOutputSelection, Stay, Quiet
<1>6. CASE intent = "Back" /\ Back
  BY <1>1, <1>6, BackKeeps
<1>7. CASE Quit
  BY <1>7, QuitKeeps
<1>8. CASE ConfirmContextReduce \/ CancelContextReduce \/ EditAgentText \/ ClearAgentText
  BY <1>2, <1>8 DEF ConfirmContextReduce, CancelContextReduce, EditAgentText, ClearAgentText, Stay
<1>9. CASE ReduceContext
  BY <1>2, <1>9 DEF ReduceContext, Refresh
<1>10. CASE intent = "OpenAgentActions" /\ OpenAgentActions
  <2>1. UNCHANGED <<world, screen, running, held, approval>> /\ FlowStays
    BY <1>1, <1>10 DEF OpenAgentActions, Stay, FlowStays, Flows
  <2> QED
    BY <2>1, StayingKeeps
<1>11. CASE intent = "MoveAgentAction" /\ MoveAgentAction(event)
  <2>1. UNCHANGED <<world, screen, running, held, approval>>
    BY <1>11 DEF MoveAgentAction, Stay
  <2>2. "kind" \in DOMAIN flow' /\ flow'.kind = flow.kind
    BY <1>11 DEF MoveAgentAction, SessionInv, FlowIsOnAgents
  <2>3. FlowStays
    BY <1>1, <1>11, <2>2 DEF FlowStays, SessionInv, FlowIsOnAgents
  <2> QED
    BY <2>1, <2>3, StayingKeeps
<1>12. CASE intent = "ActivateAgentAction" /\ ActivateAgentAction
  BY <1>1, <1>12, ActivateAgentActionKeeps
<1>13. CASE CancelAgentFlow
  BY <1>13, StayingKeeps DEF CancelAgentFlow, FlowStays, Stay
<1>14. CASE intent = "SubmitAgentText" /\ SubmitAgentText
  BY <1>1, <1>14, SubmitAgentTextKeeps
<1>15. CASE intent = "ConfirmAgentAction" /\ ConfirmAgentAction
  BY <1>1, <1>15, ConfirmAgentActionKeeps
<1>16. CASE intent = "ActivateBlocker" /\ ActivateBlocker
  BY <1>1, <1>16, ActivateBlockerKeeps
<1>17. CASE intent = "ActivateToolApproval" /\ ActivateToolApproval
  BY <1>1, <1>17, ActivateToolApprovalKeeps
<1>18. CASE intent = "CancelToolApproval" /\ CancelToolApproval
  BY <1>1, <1>18, CancelToolApprovalKeeps
<1>19. CASE intent = "AcknowledgeProductOutput" /\ AcknowledgeProductOutput
  BY <1>1, <1>19, AcknowledgeKeeps
<1> HIDE DEF intent
<1>20. Handle(event, intent)
  BY DEF intent
<1> QED
  BY <1>20, <1>3, <1>4, <1>5, <1>6, <1>7, <1>8, <1>9, <1>10, <1>11, <1>12, <1>13, <1>14,
     <1>15, <1>16, <1>17, <1>18, <1>19, Zenon DEF Handle

LEMMA NextKeeps ==
    ASSUME SessionInv, [SessionNext]_session_vars
    PROVE  Keeps
<1>1. CASE OtherProcess
  <2>1. IsWorld(world') /\ UNCHANGED <<screen, running, held, approval, flow>>
    BY <1>1, ElsewhereIsWorld DEF OtherProcess, SessionInv
  <2>2. FlowStays
    BY <2>1 DEF FlowStays
  <2>3. screen # "ToolApproval" \/ ~running
    BY <1>1 DEF OtherProcess, SessionInv, ApprovalShownIsHeld
  <2> QED
    BY <2>1, <2>2, <2>3, CallingKeeps
<1>2. CASE running /\ \E event \in Events : Handle(event, apply(event, input_context))
  BY <1>2, HandleKeeps
<1>3. CASE running /\ \E w \in DOMAIN DetailLines : Resize(w)
  <2>1. UNCHANGED <<world, screen, running, held, approval, flow>>
    BY <1>3 DEF Resize, Stay
  <2>2. FlowStays
    BY <2>1 DEF FlowStays
  <2> QED
    BY <2>1, <2>2, StayingKeeps
<1>4. CASE UNCHANGED session_vars
  <2>1. UNCHANGED <<world, screen, running, held, approval, flow>>
    BY <1>4 DEF session_vars
  <2>2. FlowStays
    BY <2>1 DEF FlowStays
  <2> QED
    BY <2>1, <2>2, StayingKeeps
<1> QED
  BY <1>1, <1>2, <1>3, <1>4, Zenon DEF SessionNext

LEMMA SessionInitInv == ASSUME SessionInit PROVE SessionInv
<1>1. IsWorld(world)
  BY DEF SessionInit, IsWorld, WorldFields
<1> QED
  BY <1>1 DEF SessionInit, SessionInv, Screens, FlowIsOnAgents, Flows, NoFlow, ApprovalShownIsHeld

\* In every state of the session a call waits in a Turn that can be resumed, a
\* flow is open on the Agents' screen only, and the driver that is held is that
\* of the call on the screen (terminal.rs, presentation.rs).
THEOREM SessionInvariant == SessionSpec => []SessionInv
<1>1. SessionInv /\ [SessionNext]_session_vars => SessionInv'
  BY NextKeeps DEF Keeps
<1> QED
  BY <1>1, SessionInitInv, PTL DEF SessionSpec

\* Whatever keys are pressed, windows resized and other processes do, the
\* approval on the screen is the one whose driver is held and still waits for
\* its decision, and Provider output leaves the screen only acknowledged
\* (ResolveToolApproval, AcknowledgeProductOutput in terminal.rs).
THEOREM PromptsAreAlwaysKept == SessionSpec => PromptsAreKept
<1>1. SessionInv => ApprovalShownIsHeld
  BY DEF SessionInv
<1>2. SessionInv /\ [SessionNext]_session_vars =>
          [screen = "ProductOutput" /\ running /\ ~(running' /\ screen' = "ProductOutput")
              => ~(world'.status = "Reconcile" /\ world'.turn = output)]_session_vars
  BY NextKeeps DEF Keeps, OutputKept
<1> QED
  BY <1>1, <1>2, SessionInvariant, PTL
     DEF SessionSpec, PromptsAreKept, OutputStaysUntilAcknowledged
-----------------------------------------------------------------------------
(* The renderer: columns of a text.                                         *)

RendererSpec == RendererInit /\ [][RendererNext]_renderer_vars

Graphemes == Glyphs \cup {Space, Ellipsis}
Styles == {"Plain", "Dim", "Warning", "Accent", "Header"}
Symbols == {g.symbol : g \in Graphemes} \cup {"empty"}
Cells == [symbol : Symbols, continuation : BOOLEAN, style : Styles]

LEMMA GraphemeWidths ==
    /\ \A g \in Graphemes : g.width \in Nat
    /\ \A g, h \in Graphemes : g.symbol = h.symbol => g.width = h.width
    /\ Space \in Graphemes /\ Space.width = 1
  <1>1. Space.width = 1 /\ Ellipsis.width = 1
    BY DEF Space, Ellipsis
  <1>2. \A g, h \in Graphemes : g.symbol = h.symbol => g.width = h.width
    BY RendererAssumption DEF Graphemes
  <1>3. \A g \in Graphemes : g.width \in Nat
    BY <1>1, RendererAssumption DEF Graphemes
  <1> QED
    BY <1>1, <1>2, <1>3 DEF Graphemes

IsColumns(u, words, n) == u = [i \in 0..n |-> IF i = 0 THEN 0 ELSE u[i - 1] + words[i].width]

LEMMA ColumnsExist ==
    ASSUME NEW words, Len(words) \in Nat
    PROVE  IsColumns(columns(words), words, Len(words))
  <1> DEFINE T == {n \in 0..Len(words) : \E u : IsColumns(u, words, n)}
  <1>1. 0 \in T
    <2> DEFINE u == [i \in 0..0 |-> 0]
    <2>1. IsColumns(u, words, 0)
      BY DEF IsColumns
    <2> QED
      BY <2>1
  <1>2. ASSUME NEW n \in 1..Len(words), n - 1 \in T PROVE n \in T
    <2>1. PICK u : IsColumns(u, words, n - 1)
      BY <1>2
    <2> DEFINE v == [i \in 0..n |-> IF i = n THEN u[n - 1] + words[n].width ELSE u[i]]
    <2>2. \A i \in 0..n : v[i] = IF i = n THEN u[n - 1] + words[n].width ELSE u[i]
      OBVIOUS
    <2>3. \A i \in 0..n - 1 : u[i] = IF i = 0 THEN 0 ELSE u[i - 1] + words[i].width
      BY <2>1 DEF IsColumns
    <2>4. v = [i \in 0..n |-> v[i]]
      OBVIOUS
    <2> HIDE DEF v
    <2>5. ASSUME NEW i \in 0..n PROVE v[i] = IF i = 0 THEN 0 ELSE v[i - 1] + words[i].width
      <3>1. CASE i = 0
        <4>1. 0 \in 0..n /\ 0 # n /\ 0 \in 0..n - 1
          OBVIOUS
        <4> QED
          BY <2>2, <2>3, <3>1, <4>1
      <3>2. CASE i # 0
        <4>1. i - 1 \in 0..n /\ i - 1 # n
          BY <3>2
        <4>2. v[i - 1] = u[i - 1]
          BY <2>2, <4>1
        <4>3. CASE i = n
          BY <2>2, <3>2, <4>2, <4>3
        <4>4. CASE i # n
          <5>1. i \in 0..n - 1
            BY <4>4
          <5> QED
            BY <2>2, <2>3, <3>2, <4>2, <4>4, <5>1
        <4> QED
          BY <4>3, <4>4
      <3> QED
        BY <3>1, <3>2
    <2>6. IsColumns(v, words, n)
      BY <2>4, <2>5 DEF IsColumns
    <2> QED
      BY <2>6
  <1>3. Len(words) \in T
    <2>1. Len(words) \in 0..Len(words)
      OBVIOUS
    <2> HIDE DEF T
    <2> QED
      BY <1>1, <1>2, <2>1, IntervalInduction
  <1>4. \E u : IsColumns(u, words, Len(words))
    BY <1>3
  <1>5. columns(words) = CHOOSE u : IsColumns(u, words, Len(words))
    BY Zenon DEF columns, IsColumns
  <1> QED
    BY <1>4, <1>5

\* The columns a text takes grow with it.
LEMMA ColumnsGrow ==
    ASSUME NEW words \in Seq(Graphemes)
    PROVE  LET upto == columns(words)
           IN  /\ \A i \in 0..Len(words) : upto[i] \in Nat
               /\ upto[0] = 0
               /\ \A i \in 1..Len(words) : upto[i] = upto[i - 1] + words[i].width
               /\ \A j \in 0..Len(words) : \A i \in 0..j : upto[i] <= upto[j]
  <1> DEFINE upto == columns(words)
             P(n) == \A i \in 0..n : upto[i] \in Nat /\ upto[n] \in Nat /\ upto[i] <= upto[n]
             T == {n \in 0..Len(words) : P(n)}
  <1>1. Len(words) \in Nat
    OBVIOUS
  <1>2. IsColumns(upto, words, Len(words))
    BY <1>1, ColumnsExist
  <1> HIDE DEF upto
  <1>3. \A i \in 0..Len(words) : upto[i] = IF i = 0 THEN 0 ELSE upto[i - 1] + words[i].width
    BY <1>2 DEF IsColumns
  <1>4. upto[0] = 0
    BY <1>1, <1>3
  <1>5. \A i \in 1..Len(words) : upto[i] = upto[i - 1] + words[i].width
    BY <1>1, <1>3
  <1>6. \A i \in 1..Len(words) : words[i].width \in Nat
    BY GraphemeWidths
  <1>7. 0 \in T
    <2>1. P(0)
      BY <1>4
    <2> QED
      BY <1>1, <2>1
  <1>8. ASSUME NEW n \in 1..Len(words), n - 1 \in T PROVE n \in T
    <2>1. upto[n - 1] \in Nat /\ \A i \in 0..n - 1 : upto[i] \in Nat /\ upto[i] <= upto[n - 1]
      BY <1>8
    <2>2. upto[n] = upto[n - 1] + words[n].width /\ words[n].width \in Nat
      BY <1>5, <1>6
    <2>a. upto[n] \in Nat /\ upto[n - 1] <= upto[n]
      BY <2>1, <2>2
    <2>3. ASSUME NEW i \in 0..n PROVE upto[i] \in Nat /\ upto[i] <= upto[n]
      <3>1. CASE i = n
        BY <2>a, <3>1
      <3>2. CASE i # n
        <4>1. i \in 0..n - 1
          BY <1>1, <3>2
        <4>2. upto[i] <= upto[n - 1] /\ upto[i] \in Nat
          BY <2>1, <4>1
        <4> QED
          BY <2>1, <2>a, <4>2
      <3> QED
        BY <3>1, <3>2
    <2>4. P(n)
      BY <2>a, <2>3
    <2> QED
      BY <1>1, <2>4
  <1>9. \A n \in 0..Len(words) : n \in T
    <2> HIDE DEF T
    <2> QED
      BY <1>1, <1>7, <1>8, IntervalInduction
  <1>10. \A n \in 0..Len(words) : P(n)
    BY <1>9
  <1> QED
    BY <1>4, <1>5, <1>10 DEF upto

-----------------------------------------------------------------------------
(* Rows of cells.                                                           *)

Second(style) == Cell("empty", TRUE, style)

\* Where a wide character is, its second half follows it, and only there.
RowOK(row, n) ==
    /\ row \in [1..n -> Cells]
    /\ \A c \in 1..n :
        /\ row[c].continuation =>
            c - 1 \in 1..n /\ ~row[c - 1].continuation /\ display_width(row[c - 1]) = 2
        /\ ~row[c].continuation =>
            /\ display_width(row[c]) \in 1..2
            /\ display_width(row[c]) = 2 => c + 1 \in 1..n /\ row[c + 1] = Second(row[c].style)

LEMMA CellWidth ==
    ASSUME NEW g \in Graphemes, NEW style
    PROVE  display_width(Cell(g.symbol, FALSE, style)) = g.width
  <1> DEFINE cell == Cell(g.symbol, FALSE, style)
             h == CHOOSE h \in Graphemes : h.symbol = cell.symbol
  <1>1. cell.symbol = g.symbol /\ cell.continuation = FALSE
    BY DEF Cell
  <1> HIDE DEF cell
  <1>2. display_width(cell) = h.width
    BY <1>1, Zenon DEF display_width, Graphemes
  <1>3. h \in Graphemes /\ h.symbol = cell.symbol
    BY <1>1
  <1> HIDE DEF h
  <1>4. h.width = g.width
    BY <1>1, <1>3, GraphemeWidths
  <1> QED
    BY <1>2, <1>4 DEF cell

LEMMA BlankCell ==
    blank_cell \in Cells /\ ~blank_cell.continuation /\ display_width(blank_cell) = 1
  <1>1. blank_cell = Cell(Space.symbol, FALSE, "Plain")
    BY GraphemeWidths DEF blank_cell
  <1>2. display_width(blank_cell) = 1
    BY <1>1, CellWidth, GraphemeWidths
  <1>3. blank_cell = [symbol |-> Space.symbol, continuation |-> FALSE, style |-> "Plain"]
    BY DEF blank_cell, Cell
  <1>4. Space.symbol \in Symbols
    <2>1. Space \in Graphemes
      BY GraphemeWidths
    <2> QED
      BY <2>1, Zenon DEF Symbols
  <1> QED
    BY <1>2, <1>3, <1>4 DEF Cells, Styles

LEMMA BlankRow ==
    ASSUME NEW n \in Nat
    PROVE  RowOK([c \in 1..n |-> blank_cell], n)
  <1> DEFINE row == [c \in 1..n |-> blank_cell]
  <1>1. row \in [1..n -> Cells] /\ \A c \in 1..n : row[c] = blank_cell
    BY BlankCell
  <1> HIDE DEF row
  <1> QED
    BY <1>1, BlankCell DEF RowOK, row

LEMMA LengthOfRow ==
    ASSUME NEW S, NEW n \in Nat, NEW row \in [1..n -> S]
    PROVE  row \in Seq(S) /\ Len(row) = n /\ DOMAIN row = 1..n
OBVIOUS

\* A text set into a blank row leaves a row of whole characters.
LEMMA SetRow ==
    ASSUME NEW n \in Nat, NEW words \in Seq(Graphemes), ~UnsupportedCellWidth(words), NEW style \in Styles
    PROVE  RowOK(set_row([c \in 1..n |-> blank_cell], words, style), n)
  <1> DEFINE cells == [c \in 1..n |-> blank_cell]
             upto == columns(words)
             placed == {i \in DOMAIN words : upto[i] <= Len(cells)}
             At(c) == {i \in placed : c \in (upto[i - 1] + 1)..upto[i]}
             row == set_row(cells, words, style)
  <1>1. cells \in [1..n -> Cells] /\ \A c \in 1..n : cells[c] = blank_cell
    BY BlankCell
  <1>2. Len(cells) = n /\ DOMAIN cells = 1..n
    BY <1>1, LengthOfRow
  <1> HIDE DEF cells
  <1>3. row = [c \in 1..n |->
                 IF At(c) = {} THEN cells[c]
                 ELSE LET i == CHOOSE j \in At(c) : TRUE
                      IN  IF c = upto[i - 1] + 1 THEN Cell(words[i].symbol, FALSE, style)
                          ELSE Cell("empty", TRUE, style)]
    <2>1. row = [c \in DOMAIN cells |->
                 IF At(c) = {} THEN cells[c]
                 ELSE LET i == CHOOSE j \in At(c) : TRUE
                      IN  IF c = upto[i - 1] + 1 THEN Cell(words[i].symbol, FALSE, style)
                          ELSE Cell("empty", TRUE, style)]
      BY Zenon DEF set_row
    <2> HIDE DEF At, placed, row, upto
    <2> QED
      BY <1>2, <2>1
  <1>4. /\ Len(words) \in Nat /\ DOMAIN words = 1..Len(words)
        /\ \A i \in 1..Len(words) : words[i] \in Graphemes /\ words[i].width \in 1..2
    BY DEF UnsupportedCellWidth
  <1>5. /\ \A i \in 0..Len(words) : upto[i] \in Nat
        /\ \A i \in 1..Len(words) : upto[i] = upto[i - 1] + words[i].width
        /\ \A j \in 0..Len(words) : \A i \in 0..j : upto[i] <= upto[j]
    BY ColumnsGrow, Zenon
  <1> HIDE DEF upto
  <1>6. ASSUME NEW i \in placed
        PROVE  /\ i \in 1..Len(words) /\ upto[i - 1] \in Nat /\ upto[i] \in Nat /\ upto[i] <= n
               /\ upto[i] = upto[i - 1] + words[i].width /\ words[i].width \in 1..2
    <2>1. i \in 1..Len(words) /\ i - 1 \in 0..Len(words) /\ i \in 0..Len(words) /\ upto[i] <= n
      BY <1>2, <1>4
    <2> HIDE DEF placed
    <2> QED
      BY <1>4, <1>5, <2>1
  <1>7. ASSUME NEW c \in 1..n, NEW i \in At(c), NEW j \in At(c) PROVE i = j
    <2>1. /\ i \in placed /\ j \in placed /\ c \in (upto[i - 1] + 1)..upto[i]
          /\ c \in (upto[j - 1] + 1)..upto[j]
      OBVIOUS
    <2>2. /\ i \in 1..Len(words) /\ upto[i - 1] \in Nat /\ upto[i] \in Nat
          /\ j \in 1..Len(words) /\ upto[j - 1] \in Nat /\ upto[j] \in Nat
      BY <1>6, <2>1
    <2> HIDE DEF placed, At
    <2>a. Len(words) \in Nat /\ i \in 1..Len(words) /\ j \in 1..Len(words)
      BY <1>4, <2>2
    <2>3. ~(i < j)
      <3> SUFFICES ASSUME i < j PROVE FALSE
        OBVIOUS
      <3>1. j - 1 \in 0..Len(words) /\ i \in 0..j - 1
        BY <2>a
      <3>2. upto[i] <= upto[j - 1]
        BY <1>5, <3>1
      <3> QED
        BY <2>1, <2>2, <3>2
    <2>4. ~(j < i)
      <3> SUFFICES ASSUME j < i PROVE FALSE
        OBVIOUS
      <3>1. i - 1 \in 0..Len(words) /\ j \in 0..i - 1
        BY <2>a
      <3>2. upto[j] <= upto[i - 1]
        BY <1>5, <3>1
      <3> QED
        BY <2>1, <2>2, <3>2
    <2> QED
      BY <2>a, <2>3, <2>4
  <1>8. ASSUME NEW c \in 1..n, NEW i \in At(c)
        PROVE  row[c] = IF c = upto[i - 1] + 1 THEN Cell(words[i].symbol, FALSE, style)
                        ELSE Cell("empty", TRUE, style)
    <2>1. (CHOOSE j \in At(c) : TRUE) = i
      BY <1>7
    <2>2. At(c) # {}
      OBVIOUS
    <2> HIDE DEF placed, At, row
    <2>3. row[c] = LET k == CHOOSE j \in At(c) : TRUE
                   IN  IF c = upto[k - 1] + 1 THEN Cell(words[k].symbol, FALSE, style)
                       ELSE Cell("empty", TRUE, style)
      BY <1>3, <2>2
    <2> QED
      BY <2>1, <2>3, Zenon
  <1>9. \A c \in 1..n : At(c) = {} => row[c] = blank_cell
    <2> HIDE DEF placed, At, row
    <2> QED
      BY <1>1, <1>3
  <1>10. \A c \in 1..n : \A i \in At(c) : i \in placed /\ c \in (upto[i - 1] + 1)..upto[i]
    OBVIOUS
  <1>11. \A i \in placed : \A c \in (upto[i - 1] + 1)..upto[i] : i \in At(c)
    OBVIOUS
  <1>12. row = [c \in 1..n |-> row[c]]
    <2> HIDE DEF placed, At, row
    <2> QED
      BY <1>3
  <1> HIDE DEF placed, At, row
  <1>13. ASSUME NEW c \in 1..n
         PROVE  /\ row[c] \in Cells
                /\ row[c].continuation =>
                     c - 1 \in 1..n /\ ~row[c - 1].continuation /\ display_width(row[c - 1]) = 2
                /\ ~row[c].continuation =>
                     /\ display_width(row[c]) \in 1..2
                     /\ display_width(row[c]) = 2 => c + 1 \in 1..n /\ row[c + 1] = Second(row[c].style)
    <2>1. CASE At(c) = {}
      <3>1. row[c] = blank_cell
        BY <1>9, <2>1
      <3> QED
        BY <3>1, BlankCell
    <2>2. CASE At(c) # {}
      <3>1. PICK i : i \in At(c)
        BY <2>2
      <3>2. i \in placed /\ c \in (upto[i - 1] + 1)..upto[i]
        BY <1>10, <3>1
      <3>3. /\ i \in 1..Len(words) /\ upto[i - 1] \in Nat /\ upto[i] \in Nat /\ upto[i] <= n
            /\ upto[i] = upto[i - 1] + words[i].width /\ words[i].width \in 1..2
        BY <1>6, <3>2
      <3>4. row[c] = IF c = upto[i - 1] + 1 THEN Cell(words[i].symbol, FALSE, style)
                     ELSE Cell("empty", TRUE, style)
        BY <1>8, <3>1
      <3> DEFINE a == upto[i - 1]
                 b == upto[i]
                 w == words[i].width
      <3>a. a \in Nat /\ b \in Nat /\ b <= n /\ b = a + w /\ w \in 1..2 /\ c \in (a + 1)..b
        BY <3>2, <3>3
      <3> DEFINE first == Cell(words[i].symbol, FALSE, style)
      <3>5. /\ first \in Cells /\ first.continuation = FALSE /\ first.style = style
            /\ display_width(first) = words[i].width
        <4>1. words[i] \in Graphemes
          BY <1>4, <3>3
        <4>2. words[i].symbol \in Symbols
          BY <4>1, Zenon DEF Symbols
        <4>3. first \in Cells
          BY <4>2 DEF Cell, Cells
        <4>4. first.continuation = FALSE /\ first.style = style
          BY DEF Cell
        <4> QED
          BY <4>1, <4>3, <4>4, CellWidth
      <3>6. CASE c = upto[i - 1] + 1
        <4>1. row[c] = first
          BY <3>4, <3>6
        <4>2. ASSUME words[i].width = 2 PROVE c + 1 \in 1..n /\ row[c + 1] = Second(style)
          <5>1. c + 1 \in 1..n /\ c + 1 \in (a + 1)..b /\ c + 1 # a + 1
            <6>1. w = 2 /\ c = a + 1
              BY <3>6, <4>2
            <6> HIDE DEF a, b, w
            <6> QED
              BY <3>a, <6>1
          <5>2. i \in At(c + 1)
            BY <1>11, <3>2, <5>1
          <5>3. row[c + 1] = Cell("empty", TRUE, style)
            BY <1>8, <5>1, <5>2
          <5> QED
            BY <5>1, <5>3 DEF Second
        <4> HIDE DEF first
        <4> QED
          BY <3>3, <3>5, <4>1, <4>2
      <3>7. CASE c # upto[i - 1] + 1
        <4>1. row[c] = Cell("empty", TRUE, style)
          BY <3>4, <3>7
        <4>2. row[c] \in Cells /\ row[c].continuation
          <5>1. "empty" \in Symbols
            BY DEF Symbols
          <5>2. Cell("empty", TRUE, style) \in Cells
            BY <5>1 DEF Cells, Cell
          <5>3. Cell("empty", TRUE, style).continuation
            BY DEF Cell
          <5> QED
            BY <4>1, <5>2, <5>3
        <4>3. w = 2 /\ c - 1 = a + 1 /\ c - 1 \in 1..n /\ c - 1 \in (a + 1)..b
          <5>1. c # a + 1
            BY <3>7
          <5> HIDE DEF a, b, w
          <5> QED
            BY <3>a, <5>1
        <4>4. c - 1 \in 1..n /\ c - 1 \in (upto[i - 1] + 1)..upto[i] /\ c - 1 = upto[i - 1] + 1
          BY <4>3
        <4>5. i \in At(c - 1)
          BY <1>11, <3>2, <4>4
        <4>6. row[c - 1] = first
          BY <1>8, <4>4, <4>5
        <4> HIDE DEF first
        <4> QED
          BY <3>5, <4>2, <4>3, <4>4, <4>6
      <3> QED
        BY <3>6, <3>7
    <2> QED
      BY <2>1, <2>2
  <1>14. row \in [1..n -> Cells]
    BY <1>12, <1>13
  <1>15. RowOK(row, n)
    BY <1>13, <1>14 DEF RowOK
  <1> QED
    BY <1>15 DEF row, cells

-----------------------------------------------------------------------------
(* Drawing a row over the one before it.                                    *)

IsWritten(u, cells, old, new, n) ==
    u = [c \in 0..n |->
            IF c = 0 THEN cells
            ELSE IF c \in changed(old, new) /\ ~new[c].continuation
            THEN Put(u[c - 1], c, new[c], display_width(new[c]))
            ELSE u[c - 1]]

LEMMA WrittenExists ==
    ASSUME NEW cells, NEW old, NEW new, Len(new) \in Nat
    PROVE  \E u : IsWritten(u, cells, old, new, Len(new)) /\ Written(cells, old, new) = u[Len(new)]
  <1> DEFINE After(c, row) == IF c \in changed(old, new) /\ ~new[c].continuation
                              THEN Put(row, c, new[c], display_width(new[c])) ELSE row
             Is(u, n) == u = [c \in 0..n |-> IF c = 0 THEN cells ELSE After(c, u[c - 1])]
             T == {n \in 0..Len(new) : \E u : Is(u, n)}
  <1>1. \A u, n : Is(u, n) <=> IsWritten(u, cells, old, new, n)
    BY Zenon DEF IsWritten
  <1>2. Written(cells, old, new) = (CHOOSE u : IsWritten(u, cells, old, new, Len(new)))[Len(new)]
    BY Zenon DEF Written, IsWritten
  <1> HIDE DEF After
  <1>3. 0 \in T
    <2> DEFINE u == [c \in 0..0 |-> cells]
    <2>1. Is(u, 0)
      OBVIOUS
    <2> HIDE DEF u, Is
    <2> QED
      BY <2>1
  <1>4. ASSUME NEW n \in 1..Len(new), n - 1 \in T PROVE n \in T
    <2>1. PICK u : Is(u, n - 1)
      BY <1>4
    <2> DEFINE v == [c \in 0..n |-> IF c = n THEN After(n, u[n - 1]) ELSE u[c]]
    <2>2. \A c \in 0..n : v[c] = IF c = n THEN After(n, u[n - 1]) ELSE u[c]
      OBVIOUS
    <2>3. \A c \in 0..n - 1 : u[c] = IF c = 0 THEN cells ELSE After(c, u[c - 1])
      BY <2>1
    <2>4. v = [c \in 0..n |-> v[c]]
      OBVIOUS
    <2> HIDE DEF v
    <2>5. ASSUME NEW c \in 0..n PROVE v[c] = IF c = 0 THEN cells ELSE After(c, v[c - 1])
      <3>1. CASE c = 0
        <4>1. 0 \in 0..n /\ 0 # n /\ 0 \in 0..n - 1
          OBVIOUS
        <4> QED
          BY <2>2, <2>3, <3>1, <4>1
      <3>2. CASE c # 0
        <4>1. c - 1 \in 0..n /\ c - 1 # n
          BY <3>2
        <4>2. v[c - 1] = u[c - 1]
          BY <2>2, <4>1
        <4>3. CASE c = n
          BY <2>2, <3>2, <4>2, <4>3
        <4>4. CASE c # n
          <5>1. c \in 0..n - 1
            BY <4>4
          <5>2. u[c] = After(c, u[c - 1])
            BY <2>3, <3>2, <5>1
          <5> QED
            BY <2>2, <3>2, <4>2, <4>4, <5>2
        <4> QED
          BY <4>3, <4>4
      <3> QED
        BY <3>1, <3>2
    <2>6. Is(v, n)
      BY <2>4, <2>5
    <2> HIDE DEF Is
    <2> QED
      BY <2>6
  <1>5. Len(new) \in T
    <2>1. Len(new) \in 0..Len(new)
      OBVIOUS
    <2> HIDE DEF T
    <2> QED
      BY <1>3, <1>4, <2>1, IntervalInduction
  <1>6. \E u : Is(u, Len(new))
    BY <1>5
  <1> HIDE DEF Is
  <1>7. \E u : IsWritten(u, cells, old, new, Len(new))
    BY <1>1, <1>6
  <1> QED
    BY <1>2, <1>7

\* What a row shows while it is drawn: the new cells up to the end of the
\* last character written, then the old ones; an old second half whose first
\* is gone is blank.
EndAt(new, c) == IF c = 0 THEN 0
                 ELSE IF ~new[c].continuation /\ display_width(new[c]) = 2 THEN c + 1 ELSE c
Drawn(row, old, new, n, c) ==
    /\ row \in [1..n -> Cells]
    /\ \A k \in 1..n :
        /\ k <= EndAt(new, c) => row[k] = new[k]
        /\ k = EndAt(new, c) + 1 => row[k] = IF old[k].continuation THEN blank_cell ELSE old[k]
        /\ k > EndAt(new, c) + 1 => row[k] = old[k]

IsPut(put, row, c, cell, wide, n) ==
    /\ put = [k \in 1..n |-> put[k]]
    /\ put[c] = cell
    /\ \A k \in 1..n :
         /\ k < c => put[k] = row[k]
         /\ k = c + 1 /\ wide = 2 => put[k] = Second(cell.style)
         /\ k = c + wide => put[k] = IF row[k].continuation THEN blank_cell ELSE row[k]
         /\ k > c + wide => put[k] = row[k]

LEMMA PutIs ==
    ASSUME NEW n \in Nat, NEW row \in [1..n -> Cells], NEW c \in 1..n, NEW cell, NEW wide \in 1..2,
           ~row[c].continuation
    PROVE  IsPut(Put(row, c, cell, wide), row, c, cell, wide, n)
  <1> DEFINE First(k) == k = c
             Half(k) == k = c + 1 /\ wide = 2
             Before(k) == k = c - 1 /\ row[c].continuation
             After(k) == k = c + wide /\ row[k].continuation
             Value(k) == CASE First(k) -> cell
                           [] Half(k) -> Cell("empty", TRUE, cell.style)
                           [] Before(k) -> blank_cell
                           [] After(k) -> blank_cell
                           [] OTHER -> row[k]
             put == Put(row, c, cell, wide)
  <1>1. DOMAIN row = 1..n
    OBVIOUS
  <1>2. put = [k \in DOMAIN row |-> Value(k)]
    BY Zenon DEF Put
  <1>3. \A k \in 1..n : k = c => First(k) /\ ~Half(k) /\ ~Before(k) /\ ~After(k)
    OBVIOUS
  <1>4. \A k \in 1..n : k < c => ~First(k) /\ ~Half(k) /\ ~Before(k) /\ ~After(k)
    OBVIOUS
  <1>5. \A k \in 1..n : k = c + 1 /\ wide = 2 => ~First(k) /\ Half(k) /\ ~Before(k) /\ ~After(k)
    OBVIOUS
  <1>6. \A k \in 1..n : k = c + wide =>
            ~First(k) /\ ~Half(k) /\ ~Before(k) /\ (After(k) <=> row[k].continuation)
    OBVIOUS
  <1>7. \A k \in 1..n : k > c + wide => ~First(k) /\ ~Half(k) /\ ~Before(k) /\ ~After(k)
    OBVIOUS
  <1> HIDE DEF First, Half, Before, After
  <1>8. \A k \in 1..n :
          /\ First(k) /\ ~Half(k) /\ ~Before(k) /\ ~After(k) => Value(k) = cell
          /\ ~First(k) /\ Half(k) /\ ~Before(k) /\ ~After(k) => Value(k) = Cell("empty", TRUE, cell.style)
          /\ ~First(k) /\ ~Half(k) /\ ~Before(k) /\ After(k) => Value(k) = blank_cell
          /\ ~First(k) /\ ~Half(k) /\ ~Before(k) /\ ~After(k) => Value(k) = row[k]
    OBVIOUS
  <1> HIDE DEF Value, put
  <1>9. put = [k \in 1..n |-> put[k]] /\ \A k \in 1..n : put[k] = Value(k)
    BY <1>1, <1>2
  <1>10. put[c] = cell
    BY <1>3, <1>8, <1>9
  <1>11. ASSUME NEW k \in 1..n
         PROVE  /\ k < c => put[k] = row[k]
                /\ k = c + 1 /\ wide = 2 => put[k] = Second(cell.style)
                /\ k = c + wide => put[k] = IF row[k].continuation THEN blank_cell ELSE row[k]
                /\ k > c + wide => put[k] = row[k]
    <2>1. k < c => put[k] = row[k]
      BY <1>4, <1>8, <1>9
    <2>2. k = c + 1 /\ wide = 2 => put[k] = Second(cell.style)
      BY <1>5, <1>8, <1>9 DEF Second
    <2>3. k = c + wide => put[k] = IF row[k].continuation THEN blank_cell ELSE row[k]
      BY <1>6, <1>8, <1>9
    <2>4. k > c + wide => put[k] = row[k]
      BY <1>7, <1>8, <1>9
    <2> QED
      BY <2>1, <2>2, <2>3, <2>4
  <1> QED
    BY <1>9, <1>10, <1>11 DEF IsPut, put

LEMMA StepDraws ==
    ASSUME NEW n \in Nat, NEW old, NEW new, RowOK(old, n), RowOK(new, n),
           NEW c \in 1..n, NEW row, Drawn(row, old, new, n, c - 1)
    PROVE  Drawn(IF c \in changed(old, new) /\ ~new[c].continuation
                 THEN Put(row, c, new[c], display_width(new[c])) ELSE row, old, new, n, c)
  <1>0. new \in [1..n -> Cells] /\ old \in [1..n -> Cells] /\ row \in [1..n -> Cells]
    BY DEF RowOK, Drawn
  <1>1. CASE new[c].continuation
    <2>1. c - 1 \in 1..n /\ ~new[c - 1].continuation /\ display_width(new[c - 1]) = 2
      BY <1>1 DEF RowOK
    <2>2. EndAt(new, c - 1) = c /\ EndAt(new, c) = c
      BY <1>1, <2>1 DEF EndAt
    <2>3. Drawn(row, old, new, n, c)
      BY <2>2 DEF Drawn
    <2> QED
      BY <1>1, <2>3
  <1>2. CASE ~new[c].continuation
    <2>1. EndAt(new, c - 1) = c - 1
      <3>1. CASE c - 1 = 0
        BY <3>1 DEF EndAt
      <3>2. CASE c - 1 # 0
        <4>1. c - 1 \in 1..n /\ c - 1 + 1 = c
          BY <3>2
        <4>2. ~(~new[c - 1].continuation /\ display_width(new[c - 1]) = 2)
          <5> SUFFICES ASSUME ~new[c - 1].continuation, display_width(new[c - 1]) = 2 PROVE FALSE
            OBVIOUS
          <5>1. new[c] = Second(new[c - 1].style)
            BY <4>1 DEF RowOK
          <5>2. new[c].continuation
            BY <5>1 DEF Second, Cell
          <5> QED
            BY <1>2, <5>2
        <4> QED
          BY <3>2, <4>1, <4>2 DEF EndAt
      <3> QED
        BY <3>1, <3>2
    <2>2. /\ \A k \in 1..n : k < c => row[k] = new[k]
          /\ row[c] = IF old[c].continuation THEN blank_cell ELSE old[c]
          /\ \A k \in 1..n : k > c => row[k] = old[k]
      BY <2>1 DEF Drawn
    <2>3. ~row[c].continuation
      BY <2>2, BlankCell
    <2> DEFINE wide == display_width(new[c])
    <2>4. wide \in 1..2 /\ (wide = 2 => c + 1 \in 1..n /\ new[c + 1] = Second(new[c].style))
      BY <1>2 DEF RowOK
    <2>5. EndAt(new, c) = IF wide = 2 THEN c + 1 ELSE c
      BY <1>2 DEF EndAt
    <2> HIDE DEF wide
    <2>6. CASE c \in changed(old, new)
      <3> DEFINE put == Put(row, c, new[c], wide)
      <3>1. /\ put = [k \in 1..n |-> put[k]]
            /\ put[c] = new[c]
            /\ \A k \in 1..n :
                 /\ k < c => put[k] = row[k]
                 /\ k = c + 1 /\ wide = 2 => put[k] = Second(new[c].style)
                 /\ k = c + wide => put[k] = IF row[k].continuation THEN blank_cell ELSE row[k]
                 /\ k > c + wide => put[k] = row[k]
        <4>1. IsPut(put, row, c, new[c], wide, n)
          BY <1>0, <2>3, <2>4, PutIs
        <4> HIDE DEF put
        <4> QED
          BY <4>1 DEF IsPut
      <3> HIDE DEF put
      <3>2. \A k \in 1..n : k < c => put[k] = new[k]
        BY <2>2, <3>1
      <3>3. \A k \in 1..n : k > c + wide => put[k] = old[k]
        BY <2>2, <2>4, <3>1
      <3>4. \A k \in 1..n : k = c + wide => put[k] = IF old[k].continuation THEN blank_cell ELSE old[k]
        BY <2>2, <2>4, <3>1
      <3>5. wide = 2 => c + 1 \in 1..n /\ put[c + 1] = new[c + 1]
        BY <2>4, <3>1
      <3>6. EndAt(new, c) = c + wide - 1
        BY <2>4, <2>5
      <3>7. ASSUME NEW k \in 1..n PROVE put[k] \in Cells
        <4>1. new[k] \in Cells /\ old[k] \in Cells /\ blank_cell \in Cells
          BY <1>0, BlankCell
        <4>2. k < c \/ k = c \/ (wide = 2 /\ k = c + 1) \/ k = c + wide \/ k > c + wide
          BY <2>4
        <4> QED
          BY <3>1, <3>2, <3>3, <3>4, <3>5, <4>1, <4>2
      <3>8. put \in [1..n -> Cells]
        BY <3>1, <3>7
      <3>9. ASSUME NEW k \in 1..n
            PROVE  /\ k <= EndAt(new, c) => put[k] = new[k]
                   /\ k = EndAt(new, c) + 1 => put[k] = IF old[k].continuation THEN blank_cell ELSE old[k]
                   /\ k > EndAt(new, c) + 1 => put[k] = old[k]
        <4>1. /\ k <= EndAt(new, c) => k < c \/ k = c \/ (wide = 2 /\ k = c + 1)
              /\ k = EndAt(new, c) + 1 => k = c + wide
              /\ k > EndAt(new, c) + 1 => k > c + wide
          BY <2>4, <3>6
        <4> QED
          BY <3>1, <3>2, <3>3, <3>4, <3>5, <4>1
      <3>10. Drawn(put, old, new, n, c)
        BY <3>8, <3>9 DEF Drawn
      <3> QED
        BY <1>2, <2>6, <3>10 DEF put, wide
    <2>7. CASE c \notin changed(old, new)
      <3>0. DOMAIN new = 1..n
        BY <1>0
      <3>1. old[c] = new[c]
        BY <2>7, <3>0 DEF changed
      <3>2. row[c] = new[c]
        BY <1>2, <2>2, <3>1
      <3>3. CASE wide = 1
        <4>1. c + 1 \in 1..n => ~old[c + 1].continuation
          <5> SUFFICES ASSUME c + 1 \in 1..n, old[c + 1].continuation PROVE FALSE
            BY <1>0
          <5>1. c + 1 - 1 = c
            OBVIOUS
          <5>2. display_width(old[c + 1 - 1]) = 2
            BY DEF RowOK
          <5> QED
            BY <3>1, <3>3, <5>1, <5>2 DEF wide
        <4>2. Drawn(row, old, new, n, c)
          BY <1>0, <2>2, <2>5, <3>2, <3>3, <4>1 DEF Drawn
        <4> QED
          BY <2>7, <4>2
      <3>4. CASE wide = 2
        <4>1. c + 1 \in 1..n /\ new[c + 1].continuation
          BY <2>4, <3>4 DEF Second, Cell
        <4>2. old[c + 1] = new[c + 1]
          BY <2>7, <3>0, <4>1 DEF changed
        <4>3. c + 2 \in 1..n => ~old[c + 2].continuation
          <5> SUFFICES ASSUME c + 2 \in 1..n, old[c + 2].continuation PROVE FALSE
            BY <1>0
          <5>1. c + 2 - 1 = c + 1
            OBVIOUS
          <5>2. ~old[c + 2 - 1].continuation
            BY DEF RowOK
          <5> QED
            BY <4>1, <4>2, <5>1, <5>2
        <4>4. row[c + 1] = new[c + 1]
          BY <2>2, <4>1, <4>2
        <4>5. Drawn(row, old, new, n, c)
          BY <1>0, <2>2, <2>5, <3>2, <3>4, <4>1, <4>3, <4>4 DEF Drawn
        <4> QED
          BY <2>7, <4>5
      <3> QED
        BY <2>4, <3>3, <3>4
    <2> QED
      BY <2>6, <2>7
  <1> QED
    BY <1>1, <1>2

\* A drawn row shows the new one, whatever was where before.
LEMMA WrittenIsNew ==
    ASSUME NEW n \in Nat, NEW old, NEW new, RowOK(old, n), RowOK(new, n)
    PROVE  Written(old, old, new) = new
  <1>1. old \in [1..n -> Cells] /\ new \in [1..n -> Cells]
    BY DEF RowOK
  <1>2. Len(new) = n
    BY <1>1, LengthOfRow
  <1>3. PICK u : IsWritten(u, old, old, new, n) /\ Written(old, old, new) = u[n]
    BY <1>2, WrittenExists
  <1>4. /\ u[0] = old
        /\ \A c \in 1..n : u[c] = IF c \in changed(old, new) /\ ~new[c].continuation
                                  THEN Put(u[c - 1], c, new[c], display_width(new[c]))
                                  ELSE u[c - 1]
    <2> DEFINE After(c) == IF c \in changed(old, new) /\ ~new[c].continuation
                           THEN Put(u[c - 1], c, new[c], display_width(new[c])) ELSE u[c - 1]
    <2>1. u = [c \in 0..n |-> IF c = 0 THEN old ELSE After(c)]
      BY <1>3, Zenon DEF IsWritten
    <2> HIDE DEF After
    <2>2. u[0] = old /\ \A c \in 1..n : u[c] = After(c)
      BY <2>1
    <2> QED
      BY <2>2, Zenon DEF After
  <1> DEFINE P(c) == Drawn(u[c], old, new, n, c)
             T == {c \in 0..n : P(c)}
  <1>5. 0 \in T
    <2>1. EndAt(new, 0) = 0
      BY DEF EndAt
    <2>2. \A k \in 1..n : k = 1 => ~old[k].continuation
      BY <1>1 DEF RowOK
    <2>3. P(0)
      BY <1>1, <1>4, <2>1, <2>2 DEF Drawn
    <2> QED
      BY <2>3
  <1>6. ASSUME NEW c \in 1..n, c - 1 \in T PROVE c \in T
    <2>1. P(c - 1)
      BY <1>6
    <2>2. P(c)
      BY <1>4, <2>1, StepDraws
    <2> QED
      BY <2>2
  <1>7. n \in T
    <2>1. n \in 0..n
      OBVIOUS
    <2> HIDE DEF T
    <2> QED
      BY <1>5, <1>6, <2>1, IntervalInduction
  <1>8. Drawn(u[n], old, new, n, n)
    BY <1>7
  <1>9. EndAt(new, n) >= n
    BY DEF EndAt
  <1>10. u[n] = new
    <2>1. u[n] \in [1..n -> Cells] /\ \A k \in 1..n : u[n][k] = new[k]
      BY <1>8, <1>9 DEF Drawn, EndAt
    <2> QED
      BY <1>1, <2>1
  <1> QED
    BY <1>3, <1>10

-----------------------------------------------------------------------------
(* What is laid out is made of graphemes.                                   *)

LEMMA GreatestNat ==
    ASSUME NEW n \in Nat, NEW T, T \subseteq 0..n, T # {}
    PROVE  \E x \in T : \A y \in T : y <= x
  <1> DEFINE R == {r \in 0..n : n - r \in T}
  <1>1. R \subseteq Nat /\ R # {}
    <2>1. PICK x : x \in T
      OBVIOUS
    <2>2. n - x \in R
      BY <2>1
    <2> QED
      BY <2>2
  <1>2. PICK r \in R : \A q \in R : ~(q < r)
    <2> HIDE DEF R
    <2> QED
      BY <1>1, LeastNat
  <1>3. n - r \in T /\ \A y \in T : y <= n - r
    <2>1. ASSUME NEW y \in T PROVE y <= n - r
      <3>1. n - y \in R
        OBVIOUS
      <3>2. ~(n - y < r)
        BY <1>2, <3>1
      <3> QED
        BY <3>2
    <2> QED
      BY <2>1
  <1> QED
    BY <1>3

LEMMA FitTextIs ==
    ASSUME NEW words \in Seq(Graphemes), NEW max \in Nat
    PROVE  fit_text(words, max) \in Seq(Graphemes)
  <1> DEFINE upto == columns(words)
             fits == {i \in 0..Len(words) : upto[i] <= max - 1}
             n == CHOOSE i \in fits : \A j \in fits : j <= i
             kept == SubSeq(words, 1, n)
             last == LastNonSpace(kept)
             cut == Append(SubSeq(kept, 1, last), Ellipsis)
             one == <<Ellipsis>>
  <1>1. Ellipsis \in Graphemes
    BY DEF Graphemes
  <1>2. one \in Seq(Graphemes) /\ <<>> \in Seq(Graphemes)
    BY <1>1
  <1>3. fit_text(words, max) =
          IF upto[Len(words)] <= max THEN words
          ELSE CASE max = 0 -> <<>> [] max = 1 -> one [] OTHER -> cut
    BY Zenon DEF fit_text
  <1>4. CASE max \in {0, 1} \/ upto[Len(words)] <= max
    <2> HIDE DEF cut, one, upto
    <2> QED
      BY <1>2, <1>3, <1>4
  <1>5. CASE max \notin {0, 1} /\ ~(upto[Len(words)] <= max)
    <2>1. fit_text(words, max) = cut
      <3> HIDE DEF cut, one, upto
      <3> QED
        BY <1>3, <1>5
    <2>2. Len(words) \in Nat /\ upto[0] = 0
      BY ColumnsGrow
    <2>3. n \in 0..Len(words)
      <3>1. 0 \in fits
        <4> HIDE DEF upto
        <4> QED
          BY <1>5, <2>2
      <3>2. fits \subseteq 0..Len(words)
        OBVIOUS
      <3> HIDE DEF fits
      <3>3. \E x \in fits : \A y \in fits : y <= x
        BY <2>2, <3>1, <3>2, GreatestNat
      <3> QED
        BY <3>2, <3>3
    <2> HIDE DEF n
    <2>4. kept \in Seq(Graphemes) /\ Len(kept) \in Nat /\ DOMAIN kept = 1..Len(kept)
      BY <2>3, PrefixSeq
    <2> HIDE DEF kept
    <2>5. last \in 0..Len(kept)
      <3> DEFINE solid == {i \in DOMAIN kept : kept[i] # Space}
      <3>1. last = IF solid = {} THEN 0 ELSE CHOOSE i \in solid : \A j \in solid : j <= i
        BY Zenon DEF LastNonSpace
      <3>2. solid \subseteq 0..Len(kept)
        BY <2>4
      <3> HIDE DEF solid, last
      <3>3. CASE solid # {}
        <4>1. \E x \in solid : \A y \in solid : y <= x
          BY <2>4, <3>2, <3>3, GreatestNat
        <4> QED
          BY <3>1, <3>2, <3>3, <4>1
      <3>4. CASE solid = {}
        BY <2>4, <3>1, <3>4
      <3> QED
        BY <3>3, <3>4
    <2> HIDE DEF last
    <2>6. SubSeq(kept, 1, last) \in Seq(Graphemes)
      BY <2>4, <2>5, PrefixSeq
    <2>7. cut \in Seq(Graphemes)
      BY <1>1, <2>6
    <2> QED
      BY <2>1, <2>7
  <1> QED
    BY <1>4, <1>5

BodyRows == [text : Seq(Graphemes), selected : BOOLEAN]

LEMMA TruncatedIs ==
    ASSUME NEW rows \in Seq(BodyRows), NEW capacity \in Nat
    PROVE  truncate_rows_keeping_selection(rows, capacity) \in Seq(BodyRows)
  <1> DEFINE S == SelectedRow(rows)
             chosen == CHOOSE i \in S : \A j \in S : i <= j
             head == <<rows[1]>>
             tail == SubSeq(rows, chosen + 2 - capacity, chosen)
             one == <<rows[chosen]>>
             prefix == SubSeq(rows, 1, capacity)
  <1>1. Len(rows) \in Nat /\ DOMAIN rows = 1..Len(rows) /\ \A i \in 1..Len(rows) : rows[i] \in BodyRows
    OBVIOUS
  <1>2. truncate_rows_keeping_selection(rows, capacity) =
          IF Len(rows) <= capacity THEN rows
          ELSE IF S = {} THEN prefix
          ELSE CASE capacity = 0 -> <<>>
                 [] chosen <= capacity -> prefix
                 [] capacity = 1 -> one
                 [] OTHER -> head \o tail
    BY Zenon DEF truncate_rows_keeping_selection
  <1>3. Len(rows) > capacity => prefix \in Seq(BodyRows)
    BY <1>1, PrefixSeq
  <1>4. S \subseteq 1..Len(rows)
    BY <1>1 DEF SelectedRow
  <1> HIDE DEF S
  <1>5. ASSUME S # {} PROVE chosen \in 1..Len(rows)
    <2>1. S \subseteq Nat
      BY <1>1, <1>4
    <2>2. PICK x \in S : \A y \in S : ~(y < x)
      BY <1>5, <2>1, LeastNat
    <2>3. \A y \in S : x <= y
      BY <2>1, <2>2
    <2>4. chosen \in S
      BY <2>3
    <2> QED
      BY <1>4, <2>4
  <1> HIDE DEF chosen
  <1>6. S # {} => one \in Seq(BodyRows) /\ head \in Seq(BodyRows)
    BY <1>1, <1>5
  <1>7. ASSUME S # {}, capacity >= 2, ~(chosen <= capacity) PROVE tail \in Seq(BodyRows)
    <2> DEFINE a == chosen + 2 - capacity
    <2>1. a \in 1..Len(rows) /\ chosen \in 1..Len(rows)
      BY <1>1, <1>5, <1>7
    <2> HIDE DEF a
    <2>2. SubSeq(rows, a, chosen) \in Seq(BodyRows)
      BY <1>1, <2>1
    <2> QED
      BY <2>2 DEF a
  <1>8. ASSUME S # {}, capacity >= 2, ~(chosen <= capacity) PROVE head \o tail \in Seq(BodyRows)
    <2>1. head \in Seq(BodyRows) /\ tail \in Seq(BodyRows)
      BY <1>6, <1>7, <1>8
    <2> HIDE DEF head, tail
    <2> QED
      BY <2>1
  <1> HIDE DEF head, tail, one, prefix
  <1>9. CASE Len(rows) <= capacity
    BY <1>2, <1>9
  <1>10. CASE ~(Len(rows) <= capacity)
    <2>1. prefix \in Seq(BodyRows) /\ <<>> \in Seq(BodyRows)
      BY <1>1, <1>3, <1>10
    <2>2. CASE S = {}
      BY <1>2, <1>10, <2>1, <2>2
    <2>3. CASE S # {}
      <3> DEFINE kept == CASE capacity = 0 -> <<>>
                 [] chosen <= capacity -> prefix
                 [] capacity = 1 -> one
                 [] OTHER -> head \o tail
      <3>1. truncate_rows_keeping_selection(rows, capacity) = kept
        BY <1>2, <1>10, <2>3, Zenon
      <3>2. capacity = 0 \/ chosen <= capacity \/ capacity = 1 \/ (capacity >= 2 /\ ~(chosen <= capacity))
        OBVIOUS
      <3>3. kept \in {<<>>, prefix, one, head \o tail} /\
            (kept = head \o tail \/ kept \in {<<>>, prefix, one})
        OBVIOUS
      <3>4. kept \in Seq(BodyRows)
        <4>1. CASE capacity = 0 \/ chosen <= capacity \/ capacity = 1
          <5>1. kept \in {<<>>, prefix, one}
            BY <4>1
          <5> HIDE DEF kept
          <5> QED
            BY <1>6, <2>1, <2>3, <5>1
        <4>2. CASE ~(capacity = 0 \/ chosen <= capacity \/ capacity = 1)
          <5>1. kept = head \o tail
            BY <4>2
          <5>2. capacity >= 2 /\ ~(chosen <= capacity)
            BY <4>2
          <5> HIDE DEF kept
          <5> QED
            BY <1>8, <2>3, <5>1, <5>2
        <4> QED
          BY <4>1, <4>2
      <3> HIDE DEF kept
      <3> QED
        BY <3>1, <3>4
    <2> QED
      BY <2>2, <2>3
  <1> QED
    BY <1>9, <1>10

\* A laid out screen: texts of graphemes.
IsLayout(l) ==
    /\ Len(l.body) \in Nat /\ DOMAIN l.body = 1..Len(l.body)
    /\ \A r \in 1..Len(l.body) : l.body[r].text \in Seq(Graphemes)
    /\ l.status \in Seq(Graphemes)

LEMMA LayoutIs ==
    ASSUME NEW rows \in Seq(BodyRows), NEW listing, NEW status \in Seq(Graphemes),
           NEW v, v.width \in Nat, v.height \in Nat \ {0}
    PROVE  IsLayout(layout(rows, listing, status, v))
  <1> DEFINE capacity == v.height - 1
             m == IF Len(rows) < capacity THEN Len(rows) ELSE capacity
             body == IF listing THEN truncate_rows_keeping_selection(rows, capacity) ELSE SubSeq(rows, 1, m)
             RowAt(i) == [text |-> fit_text(body[i].text, v.width), selected |-> body[i].selected]
             shown == [i \in DOMAIN body |-> RowAt(i)]
  <1>1. capacity \in Nat /\ Len(rows) \in Nat
    OBVIOUS
  <1>2. body \in Seq(BodyRows)
    <2>1. m \in 0..Len(rows)
      BY <1>1
    <2> HIDE DEF m
    <2>2. SubSeq(rows, 1, m) \in Seq(BodyRows)
      BY <2>1, PrefixSeq
    <2>3. truncate_rows_keeping_selection(rows, capacity) \in Seq(BodyRows)
      BY <1>1, TruncatedIs
    <2> QED
      BY <2>2, <2>3
  <1>3. layout(rows, listing, status, v) = [body |-> shown, status |-> fit_text(status, v.width)]
    BY Zenon DEF layout
  <1> HIDE DEF body
  <1>4. Len(body) \in Nat /\ DOMAIN body = 1..Len(body)
    BY <1>2
  <1>5. ASSUME NEW i \in 1..Len(body) PROVE RowAt(i).text \in Seq(Graphemes)
    <2>1. body[i] \in BodyRows
      BY <1>2
    <2>2. body[i].text \in Seq(Graphemes)
      BY <2>1 DEF BodyRows
    <2>3. fit_text(body[i].text, v.width) \in Seq(Graphemes)
      BY <2>2, FitTextIs
    <2> QED
      BY <2>3
  <1>6. fit_text(status, v.width) \in Seq(Graphemes)
    BY FitTextIs
  <1> DEFINE R == {RowAt(i) : i \in 1..Len(body)}
  <1>7. shown \in [1..Len(body) -> R] /\ \A i \in 1..Len(body) : shown[i] = RowAt(i)
    BY <1>4
  <1> HIDE DEF RowAt, shown, R
  <1>8. Len(shown) = Len(body) /\ DOMAIN shown = 1..Len(body)
    BY <1>4, <1>7, LengthOfRow
  <1> DEFINE l == layout(rows, listing, status, v)
  <1>9. l.body = shown /\ l.status = fit_text(status, v.width)
    BY <1>3
  <1> HIDE DEF l
  <1>10. IsLayout(l)
    BY <1>4, <1>5, <1>6, <1>7, <1>8, <1>9 DEF IsLayout
  <1> QED
    BY <1>10 DEF l

-----------------------------------------------------------------------------
(* Frames, and the screen that shows them.                                  *)

\* A frame of whole characters, the size of the viewport.
FrameOK(frame, v) ==
    /\ frame = [r \in 1..v.height |-> frame[r]]
    /\ \A r \in 1..v.height : RowOK(frame[r], v.width)

LEMMA BlankFrame ==
    ASSUME NEW v, v.width \in Nat, v.height \in Nat
    PROVE  /\ FrameOK(blank_frame(v), v)
           /\ \A r \in 1..v.height : blank_frame(v)[r] = [c \in 1..v.width |-> blank_cell]
  <1> DEFINE row == [c \in 1..v.width |-> blank_cell]
  <1>1. blank_frame(v) = [r \in 1..v.height |-> row]
    BY Zenon DEF blank_frame
  <1>2. RowOK(row, v.width)
    BY BlankRow
  <1> HIDE DEF row
  <1> DEFINE frame == blank_frame(v)
  <1>3. frame = [r \in 1..v.height |-> frame[r]] /\ \A r \in 1..v.height : frame[r] = row
    BY <1>1
  <1> HIDE DEF frame
  <1>4. FrameOK(frame, v)
    BY <1>2, <1>3 DEF FrameOK
  <1> QED
    BY <1>3, <1>4 DEF frame, row

\* Setting a row of a frame leaves the others as they are.
LEMMA OneRowSet ==
    ASSUME NEW D, NEW old, old = [d \in D |-> old[d]], NEW k \in D, NEW row,
           NEW new, new = [old EXCEPT ![k] = row]
    PROVE  /\ new = [d \in D |-> new[d]] /\ new[k] = row
           /\ \A d \in D : d # k => new[d] = old[d]
  <1>1. DOMAIN old = D
    OBVIOUS
  <1>2. DOMAIN new = D /\ new[k] = row /\ \A d \in D : d # k => new[d] = old[d]
    BY <1>1
  <1>3. new = [d \in D |-> IF d = k THEN row ELSE old[d]]
    BY <1>1
  <1>4. new = [d \in D |-> new[d]]
    BY <1>3
  <1> QED
    BY <1>2, <1>4

LEMMA FrameIs ==
    ASSUME NEW l, IsLayout(l), NEW notice \in Seq(Graphemes),
           NEW v, v.width \in Nat, v.height \in Nat, v.height > 1,
           NEW limit, limit = v.height - (IF notice = <<>> THEN 1 ELSE 2),
           \A r \in 1..Len(l.body) : r <= limit => ~UnsupportedCellWidth(l.body[r].text),
           ~UnsupportedCellWidth(l.status), ~UnsupportedCellWidth(notice)
    PROVE  FrameOK(from_layout_with_notice(l, notice, v), v)
  <1> DEFINE start == v.height - 1
             notice_row == IF start = 0 THEN 0 ELSE start - 1
             body_limit == IF notice = <<>> THEN start ELSE notice_row
             blank == [c \in 1..v.width |-> blank_cell]
             Set(r) == set_row(blank_frame(v)[r], l.body[r].text, RowStyle(l.body[r], r))
             body == [r \in 1..v.height |->
                        IF r <= body_limit /\ r <= Len(l.body) THEN Set(r) ELSE blank_frame(v)[r]]
             shown == [body EXCEPT ![v.height] = set_row(@, l.status, "Dim")]
             noticed == [shown EXCEPT ![notice_row + 1] = set_row(@, notice, "Warning")]
             frame == from_layout_with_notice(l, notice, v)
  <1>0. v.height \in 1..v.height /\ v.height - 1 \in 1..v.height
    OBVIOUS
  <1>1. frame = IF notice = <<>> THEN shown ELSE noticed
    BY Zenon DEF from_layout_with_notice
  <1>2. body_limit = limit /\ notice_row + 1 = v.height - 1
    OBVIOUS
  <1>3. \A r \in 1..v.height : blank_frame(v)[r] = blank
    BY BlankFrame
  <1>4. RowOK(blank, v.width)
    BY BlankRow
  <1>5. \A r \in 1..v.height :
          body[r] = IF r <= body_limit /\ r <= Len(l.body) THEN Set(r) ELSE blank_frame(v)[r]
    <2> HIDE DEF Set, body_limit
    <2> QED
      OBVIOUS
  <1>6. body = [r \in 1..v.height |-> body[r]]
    <2> HIDE DEF Set, body_limit
    <2> QED
      OBVIOUS
  <1> HIDE DEF body, body_limit, notice_row
  <1>7. ASSUME NEW r \in 1..v.height PROVE RowOK(body[r], v.width)
    <2>1. CASE r <= body_limit /\ r <= Len(l.body)
      <3>1. r \in 1..Len(l.body)
        BY <2>1 DEF IsLayout
      <3>2. l.body[r].text \in Seq(Graphemes) /\ ~UnsupportedCellWidth(l.body[r].text)
        BY <1>2, <2>1, <3>1 DEF IsLayout
      <3>3. RowStyle(l.body[r], r) \in Styles
        BY DEF RowStyle, Styles
      <3>4. RowOK(set_row(blank, l.body[r].text, RowStyle(l.body[r], r)), v.width)
        BY <3>2, <3>3, SetRow
      <3> HIDE DEF blank
      <3>5. body[r] = Set(r)
        BY <1>5, <2>1
      <3>6. Set(r) = set_row(blank, l.body[r].text, RowStyle(l.body[r], r))
        BY <1>3
      <3> QED
        BY <3>4, <3>5, <3>6
    <2>2. CASE ~(r <= body_limit /\ r <= Len(l.body))
      <3> HIDE DEF blank
      <3>1. body[r] = blank_frame(v)[r]
        BY <1>5, <2>2
      <3> QED
        BY <1>3, <1>4, <3>1
    <2> QED
      BY <2>1, <2>2
  <1>8. ASSUME NEW r \in 1..v.height, r > limit PROVE body[r] = blank
    <2> HIDE DEF blank
    <2>1. ~(r <= body_limit)
      BY <1>2, <1>8
    <2> QED
      BY <1>3, <1>5, <2>1
  <1>9. RowOK(set_row(blank, l.status, "Dim"), v.width) /\ RowOK(set_row(blank, notice, "Warning"), v.width)
    BY SetRow DEF IsLayout, Styles
  <1> HIDE DEF blank
  <1>10. body[v.height] = blank
    <2>1. v.height \in 1..v.height /\ v.height > limit
      OBVIOUS
    <2> QED
      BY <1>8, <2>1
  <1>11. ASSUME notice # <<>> PROVE body[v.height - 1] = blank
    <2>1. limit = v.height - 2
      BY <1>11, Zenon
    <2>2. v.height - 1 \in 1..v.height
      BY <1>0
    <2>3. v.height - 1 > limit
      BY <2>1
    <2> QED
      BY <1>8, <2>2, <2>3
  <1> DEFINE status == set_row(body[v.height], l.status, "Dim")
  <1>12. RowOK(status, v.width)
    BY <1>9, <1>10
  <1>13. shown = [body EXCEPT ![v.height] = status]
    OBVIOUS
  <1> HIDE DEF status, shown
  <1>14. /\ shown = [r \in 1..v.height |-> shown[r]]
         /\ shown[v.height] = status
         /\ \A r \in 1..v.height : r # v.height => shown[r] = body[r]
    <2> DEFINE D == 1..v.height
    <2>1. v.height \in D /\ body = [d \in D |-> body[d]]
      BY <1>6, <1>0
    <2> HIDE DEF D
    <2>2. /\ shown = [d \in D |-> shown[d]] /\ shown[v.height] = status
          /\ \A d \in D : d # v.height => shown[d] = body[d]
      BY <1>13, <2>1, OneRowSet
    <2> QED
      BY <2>2 DEF D
  <1>15. FrameOK(shown, v)
    BY <1>7, <1>12, <1>14 DEF FrameOK
  <1>16. ASSUME notice # <<>> PROVE FrameOK(noticed, v)
    <2> DEFINE row == set_row(shown[v.height - 1], notice, "Warning")
    <2>1. RowOK(row, v.width)
      <3>1. v.height - 1 \in 1..v.height /\ v.height - 1 # v.height
        BY <1>0
      <3>2. shown[v.height - 1] = body[v.height - 1]
        BY <1>14, <3>1
      <3> QED
        BY <1>9, <1>11, <1>16, <3>2
    <2>2. noticed = [shown EXCEPT ![v.height - 1] = row]
      BY <1>2
    <2> HIDE DEF row, noticed
    <2>3. /\ noticed = [r \in 1..v.height |-> noticed[r]]
          /\ noticed[v.height - 1] = row
          /\ \A r \in 1..v.height : r # v.height - 1 => noticed[r] = shown[r]
      <3> DEFINE D == 1..v.height
      <3>1. v.height - 1 \in D /\ shown = [d \in D |-> shown[d]]
        BY <1>14, <1>0
      <3> HIDE DEF D
      <3>2. /\ noticed = [d \in D |-> noticed[d]] /\ noticed[v.height - 1] = row
            /\ \A d \in D : d # v.height - 1 => noticed[d] = shown[d]
        BY <2>2, <3>1, OneRowSet
      <3> QED
        BY <3>2 DEF D
    <2> QED
      BY <1>15, <2>1, <2>3 DEF FrameOK
  <1> HIDE DEF noticed, frame
  <1>17. FrameOK(frame, v)
    BY <1>1, <1>15, <1>16
  <1> QED
    BY <1>17 DEF frame

\* What the rows of a screen are, as they come to be drawn.
LEMMA RowsAreBodyRows ==
    ASSUME NEW texts \in Rows, NEW chosen
    PROVE  [i \in DOMAIN texts |-> [text |-> texts[i], selected |-> i = chosen]] \in Seq(BodyRows)
  <1>1. PICK n \in 1..MaxBody : texts \in [1..n -> Texts]
    BY DEF Rows
  <1>2. Texts \subseteq Seq(Graphemes)
    <2>1. \A words \in Texts : words \in Seq(Glyphs)
      BY RendererAssumption
    <2>2. Glyphs \subseteq Graphemes
      BY DEF Graphemes
    <2>3. ASSUME NEW words \in Seq(Glyphs) PROVE words \in Seq(Graphemes)
      BY <2>2
    <2> QED
      BY <2>1, <2>3
  <1> DEFINE RowAt(i) == [text |-> texts[i], selected |-> i = chosen]
             rows == [i \in 1..n |-> RowAt(i)]
  <1>3. \A i \in 1..n : RowAt(i) \in BodyRows
    BY <1>1, <1>2 DEF BodyRows
  <1>4. n \in Nat /\ DOMAIN texts = 1..n
    BY <1>1, RendererAssumption
  <1>5. rows \in [1..n -> BodyRows]
    <2> HIDE DEF RowAt
    <2> QED
      BY <1>3
  <1>6. rows \in Seq(BodyRows)
    <2> HIDE DEF rows
    <2> QED
      BY <1>4, <1>5, LengthOfRow
  <1> QED
    BY <1>4, <1>6

LEMMA TextsAreGraphemes ==
    /\ \A words \in Texts \cup Statuses \cup Notices : words \in Seq(Graphemes)
    /\ \A words \in Statuses : words \in Seq(Graphemes)
    /\ \A words \in Notices : words \in Seq(Graphemes)
  <1>1. Glyphs \subseteq Graphemes
    BY DEF Graphemes
  <1>2. ASSUME NEW words \in Seq(Glyphs) PROVE words \in Seq(Graphemes)
    BY <1>1
  <1>3. \A words \in Texts \cup Statuses \cup Notices : words \in Seq(Glyphs)
    BY RendererAssumption
  <1> QED
    BY <1>2, <1>3

\* The screen shows the frame, which is made of whole characters: what a
\* character drawn over the one before may cut is drawn again.
RendererInv ==
    /\ surface # "active" => ~raw
    /\ surface = "active" =>
        /\ viewport.width \in Nat /\ viewport.height \in Nat \ {0}
        /\ viewport.height > 1 => glass = previous /\ FrameOK(previous, viewport)

LEMMA DrawShowsFrame ==
    ASSUME NEW texts \in Rows, NEW chosen, NEW listing,
           NEW status \in Statuses, NEW notice \in Notices,
           RendererInv,
           draw([i \in DOMAIN texts |-> [text |-> texts[i], selected |-> i = chosen]],
                listing, status, notice)
    PROVE  RendererInv'
  <1> DEFINE rows == [i \in DOMAIN texts |-> [text |-> texts[i], selected |-> i = chosen]]
             l == layout(rows, listing, status, viewport)
             frame == from_layout_with_notice(l, notice, viewport)
             limit == viewport.height - (IF notice = <<>> THEN 1 ELSE 2)
             drawn == {l.body[r].text : r \in {i \in DOMAIN l.body : i <= limit}} \cup {l.status, notice}
             Bad == \E words \in drawn : UnsupportedCellWidth(words)
             painted == [r \in 1..viewport.height |-> Written(glass[r], previous[r], frame[r])]
  <1>1. rows \in Seq(BodyRows)
    BY RowsAreBodyRows
  <1>2. status \in Seq(Graphemes) /\ notice \in Seq(Graphemes)
    BY TextsAreGraphemes
  <1>3. draw(rows, listing, status, notice)
    OBVIOUS
  <1> HIDE DEF rows
  <1>4. /\ surface = "active" /\ UNCHANGED viewport
        /\ \/ Leave /\ UNCHANGED <<previous, has_frame, glass, picked>>
           \/ /\ ~Bad
              /\ UNCHANGED <<surface, raw>> \/ Leave
              /\ glass' = painted /\ previous' = frame
    <2> DEFINE Picked == picked' = [selected |-> SelectedRow(rows) # {},
                              shows |-> listing => \E r \in DOMAIN frame, c \in 1..viewport.width :
                                                        frame[r][c].style = "Accent"]
    <2>1. /\ surface = "active"
          /\ IF Bad THEN Leave /\ UNCHANGED <<previous, has_frame, glass, picked>>
             ELSE /\ UNCHANGED <<surface, raw>> \/ Leave
                  /\ glass' = painted
                  /\ previous' = frame /\ has_frame' = TRUE
                  /\ Picked
          /\ UNCHANGED viewport
      BY <1>3, Zenon DEF draw
    <2> HIDE DEF Bad, painted, frame, Picked
    <2> QED
      BY <2>1
  <1>5. viewport.width \in Nat /\ viewport.height \in Nat \ {0} /\ viewport' = viewport
    BY <1>4 DEF RendererInv
  <1>6. CASE Leave
    BY <1>6 DEF Leave, RendererInv
  <1>7. CASE ~Leave
    <2>1. ~Bad /\ UNCHANGED <<surface, raw>> /\ glass' = painted /\ previous' = frame
      <3> HIDE DEF Bad, painted, frame
      <3> QED
        BY <1>4, <1>7
    <2>2. IsLayout(l)
      BY <1>1, <1>2, <1>5, LayoutIs
    <2>3. ASSUME viewport.height > 1 PROVE painted = frame /\ FrameOK(frame, viewport)
      <3> HIDE DEF l
      <3>1. /\ \A r \in 1..Len(l.body) : r <= limit => ~UnsupportedCellWidth(l.body[r].text)
            /\ ~UnsupportedCellWidth(l.status) /\ ~UnsupportedCellWidth(notice)
        <4>1. DOMAIN l.body = 1..Len(l.body)
          BY <2>2 DEF IsLayout
        <4>2. \A r \in 1..Len(l.body) : r <= limit => l.body[r].text \in drawn
          <5> HIDE DEF limit
          <5> QED
            BY <4>1
        <4>3. l.status \in drawn /\ notice \in drawn
          OBVIOUS
        <4>4. \A words \in drawn : ~UnsupportedCellWidth(words)
          BY <2>1
        <4> HIDE DEF drawn, limit
        <4> QED
          BY <4>2, <4>3, <4>4
      <3>2. FrameOK(frame, viewport)
        <4>1. limit = viewport.height - (IF notice = <<>> THEN 1 ELSE 2)
          OBVIOUS
        <4> HIDE DEF limit
        <4> QED
          BY <1>2, <1>5, <2>2, <2>3, <3>1, <4>1, FrameIs
      <3> HIDE DEF frame
      <3>3. glass = previous /\ FrameOK(previous, viewport)
        BY <1>4, <2>3 DEF RendererInv
      <3>4. ASSUME NEW r \in 1..viewport.height PROVE Written(glass[r], previous[r], frame[r]) = frame[r]
        BY <1>5, <3>2, <3>3, WrittenIsNew DEF FrameOK
      <3>5. painted = [r \in 1..viewport.height |-> frame[r]]
        BY <3>4
      <3> QED
        BY <3>2, <3>5 DEF FrameOK
    <2> HIDE DEF frame, painted, Bad
    <2>4. surface' = surface /\ raw' = raw
      BY <2>1
    <2>5. viewport'.height > 1 => glass' = previous' /\ FrameOK(previous', viewport')
      BY <1>5, <2>1, <2>3
    <2> QED
      BY <1>4, <1>5, <2>4, <2>5 DEF RendererInv
  <1> QED
    BY <1>6, <1>7

LEMMA ClearedShowsFrame ==
    ASSUME NEW w \in Widths, NEW h \in Heights, RendererInv,
           enter([width |-> w, height |-> h]) \/ resize([width |-> w, height |-> h])
    PROVE  RendererInv'
  <1> DEFINE v == [width |-> w, height |-> h]
  <1>1. v.width \in Nat /\ v.height \in Nat
    BY RendererAssumption
  <1>2. enter(v) \/ resize(v)
    OBVIOUS
  <1> HIDE DEF v
  <1>3. \/ Leave
        \/ /\ v.width # 0 /\ v.height # 0
           /\ viewport' = v /\ previous' = blank_frame(v) /\ glass' = blank_frame(v)
           /\ surface' = "active"
    BY <1>2 DEF enter, resize
  <1>4. CASE Leave
    BY <1>4 DEF Leave, RendererInv
  <1>5. CASE ~Leave
    <2>1. FrameOK(blank_frame(v), v)
      BY <1>1, BlankFrame
    <2> QED
      BY <1>1, <1>3, <1>5, <2>1 DEF RendererInv
  <1> QED
    BY <1>4, <1>5

\* The invariant of the direct renderer (terminal.rs).
THEOREM RendererInvariant == RendererSpec => []RendererInv
  <1>1. RendererInit => RendererInv
    BY DEF RendererInit, RendererInv
  <1>2. RendererInv /\ [RendererNext]_renderer_vars => RendererInv'
    <2> SUFFICES ASSUME RendererInv, [RendererNext]_renderer_vars PROVE RendererInv'
      OBVIOUS
    <2>1. ASSUME NEW w \in Widths, NEW h \in Heights,
                 enter([width |-> w, height |-> h]) \/ resize([width |-> w, height |-> h])
          PROVE  RendererInv'
      BY <2>1, ClearedShowsFrame
    <2>2. CASE finish
      BY <2>2 DEF finish, Leave, RendererInv
    <2>3. ASSUME NEW texts \in Rows, NEW chosen \in 0..Len(texts), NEW listing \in BOOLEAN,
                 NEW status \in Statuses, NEW notice \in Notices,
                 draw([i \in DOMAIN texts |-> [text |-> texts[i], selected |-> i = chosen]],
                      listing, status, notice)
          PROVE  RendererInv'
      BY <2>3, DrawShowsFrame
    <2>4. CASE UNCHANGED renderer_vars
      BY <2>4 DEF renderer_vars, RendererInv
    <2> QED
      BY <2>1, <2>2, <2>3, <2>4, Zenon DEF RendererNext
  <1> QED
    BY <1>1, <1>2, PTL DEF RendererSpec

\* What the terminal shows is the frame last drawn, for every set of graphemes
\* and every viewport: the cells that differ, and the halves of the characters
\* they are part of, are all that has to be written (terminal.rs, the renderer's draw).
THEOREM ScreensShowFrames == RendererSpec => []ScreenShowsFrame
  <1>1. RendererInv => ScreenShowsFrame
    BY DEF RendererInv, ScreenShowsFrame
  <1> QED
    BY <1>1, RendererInvariant, PTL
=============================================================================
