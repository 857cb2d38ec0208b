----------------------------- MODULE DurableLog -----------------------------
(***************************************************************************)
(* What a caller of the Event Ledger may rely on: a log that grows one       *)
(* transaction at a time, a prefix of it that is durable, and losses that    *)
(* only ever cut the log back, never into the durable prefix and never out   *)
(* of the middle.                                                            *)
(***************************************************************************)
EXTENDS Naturals, Sequences

VARIABLES log,      \* the transactions the next replay returns
          durable   \* how many of them no failure can take away

Init == log = <<>> /\ durable = 0

\* One more complete transaction becomes visible to replay.
Extend ==
    /\ Len(log') = Len(log) + 1
    /\ SubSeq(log', 1, Len(log)) = log
    /\ durable' = durable

\* The whole log becomes durable.
Harden == log' = log /\ durable' = Len(log)

\* A failure drops a suffix that was not durable; what it leaves is.
Lose == \E n \in durable..Len(log) : log' = SubSeq(log, 1, n) /\ durable' = n

Next == Extend \/ Harden \/ Lose

Spec == Init /\ [][Next]_<<log, durable>>
=============================================================================
