----------------------------- MODULE UsageLedger -----------------------------
(***************************************************************************)
(* Usage and pricing (greentyper-core usage.rs, pricing.rs and the attempt  *)
(* events of runtime.rs): every request to a Provider is an attempt with a  *)
(* start, an end and perhaps a token record; it is attributed to the named  *)
(* windows that hold its start, priced by the schedule that applies, and    *)
(* added to cached rollups.  Statistics are read in pages under a cursor.   *)
(* An instant is one unit of time, a day has DayLength of them.             *)
(***************************************************************************)
EXTENDS Integers, Sequences, FiniteSets, FiniteSetsExt

CONSTANTS
    MaxTokens,         \* largest count
    DayLength,      \* instants of a day (minutes in the code)
    Days,           \* days of a week
    Offset,         \* ruleset -> local time minus UTC
    Epochs,         \* [windows, book]: the usage windows [id, start, end, days] and
                    \* price schedules a configuration may give
    Contexts,       \* [profile, model, dialect] of a Turn's Provider
    Records,        \* token records a Provider may report
    Agents,
    MaxInstant, MaxTurns, MaxAttempts,  \* bounds
    PageSize, Span  \* of a report's page and of a rolling rollup

None == -1

\* Counts, rates and the bounds of a schedule are unsigned in the code.
ASSUME UsageAssumption ==
    /\ {MaxTokens, MaxInstant, MaxTurns, MaxAttempts} \subseteq Nat
    /\ {DayLength, Days, PageSize, Span} \subseteq Nat \ {0}
    /\ \A r \in DOMAIN Offset : Offset[r] \in Int
    /\ \A r \in Records :
          /\ {r.input, r.cached, r.write, r.output, r.reasoning} \subseteq {None} \cup (0..MaxTokens)
          /\ r.accuracy \in {"Exact", "Estimated"}
    /\ \A epoch \in Epochs : \A s \in epoch.book :
          /\ {s.id, s.min, s.from} \subseteq Nat /\ {s.max, s.until} \subseteq {None} \cup Nat
          /\ {s.rates.input, s.rates.cached, s.rates.write, s.rates.output, s.rates.reasoning}
                \subseteq Nat

VARIABLES
    ruleset,            \* time-zone rules of the running release
    turns,              \* admitted Turns: [agent, context, windows, book, ruleset]
    pending,            \* the current Turn may still send
    open,               \* started_at of the open attempt, or None
    attempts,           \* UsageProjection.attempts, in the order they finished
    rollups,            \* its cached rollups: scope -> rollup
    walk                \* a client's walk of pages: its cursor and what it has

usage_vars == <<ruleset, turns, pending, open, attempts, rollups, walk>>

Current == Len(turns)

-----------------------------------------------------------------------------
(* Usage windows.                                                           *)

\* UsageWindow::resolve.
ValidWindow(w) == w.start # w.end /\ w.days # {} /\ {w.start, w.end} \subseteq 0..(DayLength - 1)

\* A window that crosses midnight belongs to the day it started on.
contains(w, i, rules) ==
    LET minute == (i + Offset[rules]) % DayLength
        today == ((i + Offset[rules]) \div DayLength) % Days
        yesterday == (today + Days - 1) % Days
    IN  IF w.start < w.end THEN minute >= w.start /\ minute < w.end /\ today \in w.days
        ELSE \/ minute >= w.start /\ today \in w.days
             \/ minute < w.start /\ minute < w.end /\ yesterday \in w.days

-----------------------------------------------------------------------------
(* Price schedules.                                                         *)

selectors_overlap(a, b) == a = "any" \/ b = "any" \/ a = b
ranges_overlap(from, until, from2, until2) ==
    (until = None \/ from2 < until) /\ (until2 = None \/ from < until2)
overlaps(s, t) ==
    /\ s.profile = t.profile /\ s.model = t.model
    /\ selectors_overlap(s.dialect, t.dialect) /\ selectors_overlap(s.tier, t.tier)
    /\ ranges_overlap(s.min, s.max, t.min, t.max)
    /\ ranges_overlap(s.from, s.until, t.from, t.until)

\* PriceScheduleBook::new, of schedules each of which is in order.
ValidSchedule(s) ==
    /\ s.max # None => s.max > s.min
    /\ s.until # None => s.until > s.from
ValidBook(book) ==
    /\ \A s \in book : ValidSchedule(s)
    /\ \A s, t \in book : s # t => s.id # t.id /\ ~overlaps(s, t)

matches_base(s, c, i) ==
    /\ s.profile = c.profile /\ s.model = c.model /\ s.dialect \in {"any", c.dialect}
    /\ i >= s.from /\ (s.until = None \/ i < s.until)
matches_service_tier(s, r) == s.tier \in {"any", r.tier}
matches_context(s, r) == r.input >= s.min /\ (s.max = None \/ r.input < s.max)

Unknown(reason) == [known |-> FALSE, reason |-> reason]
Known(amount, s, r) ==
    [known |-> TRUE, amount |-> amount, currency |-> s.currency, schedule |-> s, accuracy |-> r.accuracy]

\* PriceSchedule::estimate: checked arithmetic on five classes of tokens.
estimate(s, r) ==
    LET rates == s.rates
        write == IF r.write = None /\ rates.write = 0 THEN 0 ELSE r.write
        reasoning == IF r.reasoning = None /\ rates.reasoning = rates.output THEN 0 ELSE r.reasoning
        uncached == r.input - r.cached - write
        visible == r.output - reasoning
        amount == uncached * rates.input + r.cached * rates.cached + write * rates.write
                  + visible * rates.output + reasoning * rates.reasoning
    IN  CASE r.input = None -> Unknown("MissingInputTokens")
          [] r.input # None /\ r.cached = None -> Unknown("MissingCachedInputTokens")
          [] r.input # None /\ r.cached # None /\ write = None -> Unknown("MissingCacheWriteInputTokens")
          [] None \notin {r.input, r.cached, write} /\ r.output = None -> Unknown("MissingOutputTokens")
          [] None \notin {r.input, r.cached, write, r.output} /\ reasoning = None ->
                Unknown("MissingReasoningOutputTokens")
          [] OTHER ->
                IF uncached < 0 THEN Unknown("InconsistentInputAccounting")
                ELSE IF visible < 0 THEN Unknown("InconsistentOutputAccounting")
                ELSE IF amount > MaxTokens THEN Unknown("ArithmeticOverflow")
                ELSE Known(amount, s, r)

\* estimate_attempt: of the schedules in the order of their ids, the first that applies.
estimate_attempt(book, c, i, r) ==
    LET base == {s \in book : matches_base(s, c, i)}
        tiers == {s \in base : matches_service_tier(s, r)}
        fitting == {s \in tiers : matches_context(s, r)}
    IN  CASE base = {} -> Unknown("NoMatchingSchedule")
          [] base # {} /\ tiers = {} ->
                Unknown(IF r.tier = "none" THEN "MissingServiceTier" ELSE "NoMatchingSchedule")
          [] tiers # {} /\ r.input = None -> Unknown("MissingInputTokens")
          [] tiers # {} /\ r.input # None /\ fitting = {} -> Unknown("NoMatchingSchedule")
          [] OTHER -> estimate(CHOOSE s \in fitting : \A t \in fitting : s.id <= t.id, r)

-----------------------------------------------------------------------------
(* Rollups.                                                                 *)

Accuracies == {"Exact", "Estimated"}
Capped(n) == IF n > MaxTokens THEN None ELSE n
Add(a, b) == IF None \in {a, b} THEN None ELSE Capped(a + b)

\* A sum per accuracy; None once it has overflowed.
EmptyQuantity == [sum |-> [a \in Accuracies |-> 0], unknown |-> 0]
ObserveQuantity(q, value, accuracy) ==
    IF value = None THEN [q EXCEPT !.unknown = @ + 1]
    ELSE [q EXCEPT !.sum[accuracy] = Add(@, value)]
MergeQuantity_Revived(q, p) ==
    [sum |-> [a \in Accuracies |-> IF q.sum[a] = None THEN p.sum[a] ELSE Add(q.sum[a], p.sum[a])],
     unknown |-> q.unknown + p.unknown]
MergeQuantity(q, p) ==
    [sum |-> [a \in Accuracies |-> Add(q.sum[a], p.sum[a])], unknown |-> q.unknown + p.unknown]

\* UsageRatio: two sums that overflow together.
EmptyRatio == [over |-> [a \in Accuracies |-> 0], under |-> [a \in Accuracies |-> 0],
               unknown |-> 0, inconsistent |-> 0]
Together(ratio) ==
    LET lost == {a \in Accuracies : None \in {ratio.over[a], ratio.under[a]}}
    IN  [ratio EXCEPT !.over = [a \in Accuracies |-> IF a \in lost THEN None ELSE @[a]],
                      !.under = [a \in Accuracies |-> IF a \in lost THEN None ELSE @[a]]]
ObserveRatio(ratio, n, d, accuracy) ==
    CASE None \in {n, d} -> [ratio EXCEPT !.unknown = @ + 1]
      [] None \notin {n, d} /\ d = 0 /\ n = 0 -> [ratio EXCEPT !.unknown = @ + 1]
      [] None \notin {n, d} /\ n > d -> [ratio EXCEPT !.inconsistent = @ + 1]
      [] OTHER -> Together([ratio EXCEPT !.over[accuracy] = Add(@, n), !.under[accuracy] = Add(@, d)])
MergeRatio(q, p) ==
    Together([over |-> [a \in Accuracies |-> Add(q.over[a], p.over[a])],
              under |-> [a \in Accuracies |-> Add(q.under[a], p.under[a])],
              unknown |-> q.unknown + p.unknown, inconsistent |-> q.inconsistent + p.inconsistent])

Outcomes == {"Succeeded", "Failed", "Interrupted"}
Currencies == {s.currency : s \in UNION {epoch.book : epoch \in Epochs}}
EmptyRollup ==
    [outcomes |-> [o \in Outcomes |-> 0], tokens |-> EmptyQuantity, read |-> EmptyRatio,
     costs |-> [c \in Currencies |-> EmptyQuantity], cost_unknown |-> 0]

\* UsageRollup::observe; one token class stands for the six.
Observe(rollup, a) ==
    LET r == a.record
        inconsistent == None \notin {r.input, r.cached, r.write} /\ r.cached + r.write > r.input
        Rate(ratio) == IF inconsistent THEN [ratio EXCEPT !.inconsistent = @ + 1]
                       ELSE ObserveRatio(ratio, r.cached, r.input, r.accuracy)
    IN  [rollup EXCEPT !.outcomes[a.outcome] = @ + 1,
                       !.tokens = ObserveQuantity(@, r.input, r.accuracy),
                       !.read = Rate(@),
                       !.cost_unknown = @ + 1]
\* observe_cost_evaluation, in the transaction of the attempt's end.
ObserveCost(rollup, cost) ==
    IF ~cost.known THEN rollup
    ELSE [rollup EXCEPT !.cost_unknown = @ - 1,
                        !.costs[cost.currency] = ObserveQuantity(@, cost.amount, cost.accuracy)]
Merge(q, p) ==
    [outcomes |-> [o \in Outcomes |-> q.outcomes[o] + p.outcomes[o]],
     tokens |-> MergeQuantity(q.tokens, p.tokens), read |-> MergeRatio(q.read, p.read),
     costs |-> [c \in Currencies |-> MergeQuantity(q.costs[c], p.costs[c])],
     cost_unknown |-> q.cost_unknown + p.cost_unknown]

ScopesOf(a) ==
    {<<"total", 0>>, <<"turn", a.turn>>, <<"agent", a.agent>>, <<"instant", a.started>>}
    \cup {<<"window", w>> : w \in a.windows}
Rollup(scope) == IF scope \in DOMAIN rollups THEN rollups[scope] ELSE EmptyRollup

\* UsageProjection::record and record_cost_evaluation.
Recorded(a) ==
    [scope \in DOMAIN rollups \cup ScopesOf(a) |->
        IF scope \in ScopesOf(a) THEN ObserveCost(Observe(Rollup(scope), a), a.cost) ELSE rollups[scope]]

\* rolling: the instants of a half-open interval, merged.
rolling(as_of, span) ==
    LET upto[i \in 0..(MaxInstant + 1)] ==
            IF i = 0 THEN EmptyRollup
            ELSE IF i - 1 >= as_of - span /\ i - 1 < as_of
            THEN Merge(upto[i - 1], Rollup(<<"instant", i - 1>>)) ELSE upto[i - 1]
    IN  upto[MaxInstant + 1]

-----------------------------------------------------------------------------
(* Attempts.                                                                *)

NoRecord == [input |-> None, cached |-> None, write |-> None, output |-> None, reasoning |-> None,
             tier |-> "none", accuracy |-> "Exact"]

\* usage_attempt_finish_events: windows and price are those of the Turn's
\* Config Epoch at the attempt's start; no rollup uses its end.
Ended(outcome, record) ==
    LET turn == turns[Current] IN
    [turn |-> Current, agent |-> turn.agent, started |-> open,
     outcome |-> outcome, record |-> record,
     windows |-> {w \in turn.windows : contains(w, open, turn.ruleset)},
     cost |-> IF outcome # "Succeeded" THEN Unknown("MissingUsageRecord")
              ELSE estimate_attempt(turn.book, turn.context, open, record)]

\* Applying UsageAttemptFinished and UsageAttemptCostEvaluated, one transaction.
RecordAttempt(a) ==
    /\ attempts' = Append(attempts, a)
    /\ rollups' = Recorded(a)

\* require_current_ruleset, of every window of the Epoch.
CurrentRuleset == turns[Current].windows = {} \/ turns[Current].ruleset = ruleset

Admit ==
    /\ ~pending /\ Current < MaxTurns
    /\ \E agent \in Agents, c \in Contexts, epoch \in Epochs :
          /\ \A w \in epoch.windows : ValidWindow(w)
          /\ ValidBook(epoch.book)
          /\ turns' = Append(turns, [agent |-> agent, context |-> c, windows |-> epoch.windows,
                                     book |-> epoch.book, ruleset |-> ruleset])
    /\ pending' = TRUE
    /\ UNCHANGED <<ruleset, open, attempts, rollups, walk>>

\* begin_usage_attempt: an attempt left open by a crash ends interrupted.  The
\* machine's clock is read anew and may have been set back since.
Begin ==
    /\ pending /\ CurrentRuleset /\ Len(attempts) < MaxAttempts
    /\ IF open = None THEN UNCHANGED <<attempts, rollups>>
       ELSE RecordAttempt(Ended("Interrupted", NoRecord))
    /\ open' \in 0..MaxInstant
    /\ UNCHANGED <<ruleset, turns, pending, walk>>

Finish ==
    /\ pending /\ open # None /\ CurrentRuleset /\ Len(attempts) < MaxAttempts
    /\ \E outcome \in {"Succeeded", "Failed"}, record \in Records \cup {NoRecord} :
          /\ outcome = "Failed" => record = NoRecord
          /\ RecordAttempt(Ended(outcome, record))
    /\ open' = None
    /\ pending' \in BOOLEAN
    /\ UNCHANGED <<ruleset, turns, walk>>

\* Another release opens the Ledger.
Upgrade ==
    /\ ruleset' \in DOMAIN Offset \ {ruleset}
    /\ UNCHANGED <<turns, pending, open, attempts, rollups, walk>>

-----------------------------------------------------------------------------
(* Reports.                                                                 *)

NoWalk == [cursor |-> None, revision |-> 0, seen |-> <<>>, whole |-> FALSE]

\* UsageProjection::report with a cursor: of this revision and this instant
\* only.  A commit that ends no attempt changes the revision too; its refusal is
\* one that a query of another instant also gets.
report(at, revision, same_instant) ==
    LET end == IF at + PageSize < Len(attempts) THEN at + PageSize ELSE Len(attempts)
    IN  [ok |-> revision = Len(attempts) /\ same_instant /\ at <= Len(attempts),
         page |-> SubSeq(attempts, at + 1, end),
         next |-> IF end < Len(attempts) THEN end ELSE None]

\* The first page, and the next one under the cursor; a refused cursor ends the walk.
FirstPage ==
    LET end == IF PageSize < Len(attempts) THEN PageSize ELSE Len(attempts) IN
    /\ walk' = [cursor |-> IF end < Len(attempts) THEN end ELSE None, revision |-> Len(attempts),
                seen |-> SubSeq(attempts, 1, end), whole |-> end = Len(attempts)]
    /\ UNCHANGED <<ruleset, turns, pending, open, attempts, rollups>>
NextPage ==
    /\ walk.cursor # None
    /\ \E same_instant \in BOOLEAN :
          LET r == report(walk.cursor, walk.revision, same_instant) IN
          walk' = IF r.ok THEN [walk EXCEPT !.seen = @ \o r.page, !.cursor = r.next, !.whole = r.next = None]
                  ELSE NoWalk
    /\ UNCHANGED <<ruleset, turns, pending, open, attempts, rollups>>

UsageInit ==
    /\ ruleset \in DOMAIN Offset
    /\ turns = <<>> /\ pending = FALSE /\ open = None
    /\ attempts = <<>> /\ rollups = <<>> /\ walk = NoWalk

UsageNext == Admit \/ Begin \/ Finish \/ Upgrade \/ FirstPage \/ NextPage

-----------------------------------------------------------------------------
(* Properties.                                                              *)

Among(P(_)) == {i \in DOMAIN attempts : P(attempts[i])}
SumOver(S, value) == Capped(MapThenSumSet(LAMBDA i : value[i], S))

\* What a rollup of the attempts S should say, computed from them directly.
Direct(as, S) ==
    LET rec(i) == as[i].record
        input == [i \in S |-> rec(i).input]
        cached == [i \in S |-> rec(i).cached]
        amount == [i \in S |-> as[i].cost.amount]
        bad == {i \in S : None \notin {input[i], cached[i]}
                    /\ (cached[i] > input[i] \/ (rec(i).write # None /\ cached[i] + rec(i).write > input[i]))}
        good == {i \in S \ bad : None \notin {input[i], cached[i]} /\ input[i] # 0}
        Of(T, a) == {i \in T : rec(i).accuracy = a}
        known == {i \in S : as[i].cost.known}
        fits(a) == SumOver(Of(good, a), input) # None
    IN  [outcomes |-> [o \in Outcomes |-> Cardinality({i \in S : as[i].outcome = o})],
         tokens |-> [sum |-> [a \in Accuracies |-> SumOver(Of({i \in S : input[i] # None}, a), input)],
                     unknown |-> Cardinality({i \in S : input[i] = None})],
         read |-> [over |-> [a \in Accuracies |-> IF fits(a) THEN SumOver(Of(good, a), cached) ELSE None],
                   under |-> [a \in Accuracies |-> SumOver(Of(good, a), input)],
                   unknown |-> Cardinality(S \ (bad \cup good)), inconsistent |-> Cardinality(bad)],
         costs |-> [c \in Currencies |->
                     [sum |-> [a \in Accuracies |->
                                SumOver({i \in Of(known, a) : as[i].cost.currency = c}, amount)],
                      unknown |-> 0]],
         cost_unknown |-> Cardinality(S \ known)]

\* Every cached rollup, and a rolling one merged from the instants, says what
\* its attempts add up to, through overflow, missing and inconsistent records.
RollupsAreSums ==
    /\ \A scope \in DOMAIN rollups :
          rollups[scope] = Direct(attempts, Among(LAMBDA a : scope \in ScopesOf(a)))
    /\ \A as_of \in 0..(MaxInstant + 1) : rolling(as_of, Span) =
          Direct(attempts, Among(LAMBDA a : a.started >= as_of - Span /\ a.started < as_of))

\* An attempt is in a window exactly when its start, in the local time of its
\* Epoch's rules, falls into an occurrence of the window: one that began on
\* one of the window's days, today or within a week before, and lasts until
\* its end, past midnight or not.
AttributedByStart ==
    \A i \in DOMAIN attempts :
        LET a == attempts[i]
            turn == turns[a.turn]
            local == a.started + Offset[turn.ruleset]
            today == local \div DayLength
        IN  a.windows = {w \in turn.windows :
                \E day \in (today - Days)..today :
                    /\ day % Days \in w.days
                    /\ local >= day * DayLength + w.start
                    /\ local < day * DayLength + w.start + ((w.end - w.start + DayLength) % DayLength)}

\* No configuration's price book leaves a choice between two schedules for an
\* attempt, whatever tier and size its record names.
CostIsOfOneSchedule ==
    \A i \in DOMAIN attempts :
        LET a == attempts[i] IN
        Cardinality({s \in turns[a.turn].book :
            /\ matches_base(s, turns[a.turn].context, a.started)
            /\ matches_service_tier(s, a.record) /\ matches_context(s, a.record)}) <= 1

\* The pages of a finished walk are the attempts of one revision, each once.
PagesAreOneSnapshot == walk.whole => walk.seen = SubSeq(attempts, 1, walk.revision)

\* Every number a report shows comes from the attempts it stands for: sums,
\* windows, costs and pages.
UsageIsAccounted ==
    RollupsAreSums /\ AttributedByStart /\ CostIsOfOneSchedule /\ PagesAreOneSnapshot

\* An estimate that is known does not depend on a token count the Provider
\* did not report.
KnownCostIsDetermined ==
    \A i \in DOMAIN attempts :
        LET r == attempts[i].record
            cost == attempts[i].cost
            Values(v) == IF v = None THEN 0..MaxTokens ELSE {v}
        IN  cost.known => \A w \in Values(r.write), g \in Values(r.reasoning) :
                /\ r.cached + w <= r.input /\ g <= r.output
                => estimate(cost.schedule, [r EXCEPT !.write = w, !.reasoning = g]).amount = cost.amount
==============================================================================
