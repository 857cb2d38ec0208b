---------------------------- MODULE MCFileLedger ----------------------------
(* A small instance of FileLedger: two processes, transactions of one or two *)
(* events, and replay limits that a few transactions reach.                  *)
EXTENDS FileLedger, TLC

\* A one-event transaction and a two-event transaction.
MCBatches == {<<1>>, <<0, 3>>}

\* The processes are interchangeable.
MCSymmetry == Permutations(Procs)
=============================================================================
