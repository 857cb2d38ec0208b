--------------------------- MODULE MCToolRuntime ---------------------------
(* Instances for TLC of the Tool Runtime, with two Agents of which only one  *)
(* holds the capability the second payload needs, and of the local process   *)
(* executor, over the smoke scenarios of local_process.rs; and of the Context *)
(* a Turn is asked with.  The parts share no state: a behaviour is one of a  *)
(* single part.                                                              *)
EXTENDS ToolRuntime, LocalProcess, ContextView

CONSTANTS i1, i2, alice, bob, read, write, cap

VARIABLE part

MCNeeds == [p \in {read, write} |-> IF p = write THEN {cap} ELSE {}]
MCCapsOf == [a \in {alice, bob} |-> IF a = alice THEN {cap} ELSE {}]

Runs(program) == [program |-> program, valid |-> TRUE, marker |-> FALSE, starts |-> TRUE]
MCScenarios ==
    [echo |-> Runs(Echo), flood |-> Runs(Flood), fail |-> Runs(Fail),
     descendant |-> Runs(DescendantHang), blocked |-> Runs(BlockedStdin),
     overflow |-> Runs(Overflow), environment |-> Runs(Environment),
     invalid |-> [Runs(Echo) EXCEPT !.valid = FALSE],
     marker |-> [Runs(Echo) EXCEPT !.marker = TRUE]]

(* Context: texts of one token, of two, and longer than a view; pressure     *)
(* unknown, below, between and above the thresholds, of no limit and past    *)
(* the largest number.                                                       *)
MCDefaultPolicy == [bytes |-> 6, items |-> 1]
MCPolicies == {[bytes |-> 9, items |-> 4], [bytes |-> 5, items |-> 3]}
Tokens(limit, used, reserve) == [limit |-> limit, used |-> used, reserve |-> reserve]
MCPressures == {Tokens(3, Unreported, 0), Tokens(3, 1, 0), Tokens(3, 1, 1), Tokens(20, 17, 1),
                Tokens(0, 0, 0), Tokens(3, 20, 1)}

ToolPart == Init /\ ProcessInit /\ smoke = "echo"
ExecutorPart == Init /\ active = {} /\ ProcessInit

MCInit ==
    /\ ContextInit
    /\ \/ part = "runtime" /\ ToolPart
       \/ part = "context" /\ ToolPart /\ active = {}
       \/ part = "executor" /\ ExecutorPart

MCNext ==
    /\ part' = part
    /\ \/ part = "runtime" /\ Next /\ UNCHANGED <<process_vars, context_vars>>
       \/ part = "executor" /\ ProcessNext /\ UNCHANGED <<vars, context_vars>>
       \/ part = "context" /\ ContextNext /\ UNCHANGED <<vars, process_vars>>

MCSpec == MCInit /\ [][MCNext]_<<part, vars, process_vars, context_vars>> /\ ProcessFairness
=============================================================================
