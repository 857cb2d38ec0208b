--------------------------- MODULE ConfigFallback ---------------------------
(* The depth-first searches of config/runtime.rs over the fallback lists,   *)
(* as written: validate_fallback_cycles refuses a cyclic graph, and         *)
(* model_preset_chain lists the candidates of a Turn in order.  Each is one *)
(* call as a function of the calls it makes, and those nested as deep as a  *)
(* search can get: a call that goes on has met one more preset.             *)
EXTENDS ConfigDocument, SequencesExt

Depth == Cardinality(Preset) + 1

(* visit's sets active and complete, and whether it found a cycle.          *)
Search == [active : SUBSET Preset, complete : SUBSET Preset, cycle : BOOLEAN]

(* Fault: a preset counts as complete before its fallbacks were searched. *)
visit_CompleteFirst(document, deeper, m, s) ==
    IF m \in s.complete \/ s.cycle THEN s
    ELSE IF m \in s.active THEN [s EXCEPT !.cycle = TRUE]
    ELSE FoldLeft(LAMBDA r, k : deeper[k][r], [s EXCEPT !.complete = @ \cup {m}], Fallback(document, m))

visit(document, deeper, m, s) ==
    IF m \in s.complete \/ s.cycle THEN s
    ELSE IF m \in s.active THEN [s EXCEPT !.cycle = TRUE]
    ELSE LET below == FoldLeft(LAMBDA r, k : deeper[k][r],
                               [s EXCEPT !.active = @ \cup {m}], Fallback(document, m))
         IN  [below EXCEPT !.active = @ \ {m}, !.complete = @ \cup {m}]

visits(document) ==
    LET deep[n \in 0..Depth] ==
            IF n = 0 THEN [m \in Preset |-> [s \in Search |-> s]]
            ELSE [m \in Preset |-> [s \in Search |-> visit(document, deep[n - 1], m, s)]]
    IN  deep[Depth]

(* The roots in the order of the map; active starts empty for each.         *)
FindsCycle(document) ==
    LET search == visits(document)
        from_root == [m \in Preset |-> [s \in Search |-> search[m][[s EXCEPT !.active = {}]]]]
    IN  FoldLeft(LAMBDA s, m : from_root[m][s],
                 [active |-> {}, complete |-> {}, cycle |-> FALSE],
                 SetToSeq(Ids(document, "model_presets"))).cycle

(* The visit of model_preset_chain: preorder, a preset at its first         *)
(* occurrence only.                                                         *)
collect(document, deeper, m, chain) ==
    IF m \in ToSet(chain) THEN chain
    ELSE FoldLeft(LAMBDA c, k : deeper[k][c], Append(chain, m), Fallback(document, m))

model_preset_chain(document, m) ==
    LET deep[n \in 0..Depth] ==
            IF n = 0 THEN [k \in Preset |-> [chain \in Seq(Preset) |-> chain]]
            ELSE [k \in Preset |-> [chain \in Seq(Preset) |-> collect(document, deep[n - 1], k, chain)]]
    IN  deep[Depth][m][<<>>]

-----------------------------------------------------------------------------
(* The search finds a cycle exactly when some presets fall back into        *)
(* themselves.                                                              *)
FindsWhatIsThere(document) ==
    FindsCycle(document) <=>
        \E S \in SUBSET Ids(document, "model_presets") :
            S # {} /\ \A m \in S : FallbackSet(document, m) \cap S # {}

(* The chain of each preset lists each of its candidates once, every one a  *)
(* preset with a Provider to call.                                          *)
ListsCandidates(document) ==
    \A m \in Ids(document, "model_presets") :
        LET chain == model_preset_chain(document, m)
        IN  /\ Len(chain) <= MaxCandidates
            /\ Cardinality(ToSet(chain)) = Len(chain)
            /\ ToSet(chain) = Candidates(document, m)
            /\ \A i \in DOMAIN chain :
                  /\ chain[i] \in Ids(document, "model_presets")
                  /\ document[<<"model_presets", chain[i], "provider">>]
                        \in Ids(document, "providers") \cup {"simulator"}

=============================================================================
