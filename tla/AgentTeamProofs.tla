-------------------------- MODULE AgentTeamProofs --------------------------
(***************************************************************************)
(* Theorems about AgentTeam for every set of labels, capabilities, budgets  *)
(* and Active limits: the planning rules are strong enough for validate and *)
(* validate_quiescent, every journal the Runtime writes replays, authority  *)
(* only narrows, and no running Task loses an input.                        *)
(*                                                                          *)
(* Also what is known of Providers: the discovery of their models, the      *)
(* accounting of their usage, and the framing of their event streams.       *)
(***************************************************************************)
EXTENDS AgentTeam, UsageLedger, ProviderDiscovery, ServerSentEvents, FoldSums,
        SequenceTheorems, TLAPS

\* The parts of a sound Team state.
Shape(s) ==
    /\ s \in TeamState
    /\ DOMAIN s.agents = Ids(s)
    /\ \A t \in Ids(s) : s.tasks[t].deps \subseteq Ids(s)

Pairs(s) == \A t \in Ids(s) : Paired(s.tasks[t].status, s.agents[t].status)

Lineage(s) ==
    \A a \in DOMAIN s.agents : s.agents[a].parent \in DOMAIN s.agents \cup {0}

Narrow(s) ==
    \A a \in DOMAIN s.agents : s.agents[a].parent # 0 =>
        /\ s.tasks[a].scope \subseteq s.tasks[s.agents[a].parent].scope
        /\ s.agents[a].caps \subseteq s.agents[s.agents[a].parent].caps

BudgetsHeld(s) ==
    \A a \in DOMAIN s.agents :
        /\ BudgetContains(s.agents[a].budget, s.agents[a].reserved)
        /\ s.agents[a].reserved = ChildBudgets(s, a)

NoOrphans(s) ==
    \A a \in DOMAIN s.agents :
        s.agents[a].status \in Terminal => OutstandingChildren(s, a) = {}

HasRun == {"Ready", "Running", "Succeeded", "Failed"}
InputsKept(s) ==
    \A t \in Ids(s) : s.tasks[t].status \in HasRun => DependenciesSucceeded(s, t)

TeamOK(s) ==
    /\ Shape(s) /\ Pairs(s) /\ Lineage(s) /\ Narrow(s)
    /\ BudgetsHeld(s) /\ NoOrphans(s) /\ InputsKept(s)

\* The published state is the durable one while the Ledger is open; the limit
\* recover will reconstruct covers the durable state and is covered by the
\* limit of this open.
TeamInv ==
    /\ TypeOK
    /\ TeamOK(live) /\ TeamOK(durable)
    /\ mode = "open" => /\ live = durable
                        /\ Cardinality(Active(live)) <= limit
                        /\ replay.limit <= limit
    /\ Cardinality(Active(durable)) <= replay.limit
    /\ replay.ok
    /\ reply # "command invalid"

-----------------------------------------------------------------------------
(* Budgets of children.                                                      *)

TokensOf(s) == [c \in DOMAIN s.agents |-> s.agents[c].budget.tokens]
CallsOf(s) == [c \in DOMAIN s.agents |-> s.agents[c].budget.calls]

LEMMA AgentsShape ==
    ASSUME NEW s \in TeamState
    PROVE  /\ Len(s.agents) \in Nat
           /\ DOMAIN s.agents = 1..Len(s.agents)
           /\ \A a \in DOMAIN s.agents : s.agents[a] \in Agent
           /\ Len(s.tasks) \in Nat
           /\ Ids(s) = 1..Len(s.tasks)
           /\ \A t \in Ids(s) : s.tasks[t] \in Task
  BY DEF TeamState, Ids

\* ChildBudgets is the order-independent sum of the children's budgets.
LEMMA ChildBudgetsAre ==
    ASSUME NEW s \in TeamState, NEW n \in Nat, DOMAIN s.agents = 1..n,
           NEW m, Measures(m, TokensOf(s), n),
           NEW k, Measures(k, CallsOf(s), n), NEW a
    PROVE  ChildBudgets(s, a) = [tokens |-> m[Children(s, a)], calls |-> k[Children(s, a)]]
  <1> DEFINE S == Children(s, a)
  <1>0. S \in SUBSET (1..n) /\ S \subseteq DOMAIN s.agents
    BY DEF Children
  <1>1. MapThenSumSet(LAMBDA c : s.agents[c].budget.tokens, S) = m[S]
    <2> DEFINE D(g) == g = [T \in SUBSET S |->
                  IF T = {} THEN 0
                  ELSE s.agents[CHOOSE x \in T : TRUE].budget.tokens
                         + g[T \ {CHOOSE x \in T : TRUE}]]
    <2>1. MapThenSumSet(LAMBDA c : s.agents[c].budget.tokens, S) = (CHOOSE g : D(g))[S]
      BY Zenon DEF MapThenSumSet, MapThenFoldSet
    <2>2. \A T \in SUBSET S : T # {} =>
            TokensOf(s)[CHOOSE x \in T : TRUE] = s.agents[CHOOSE x \in T : TRUE].budget.tokens
      BY <1>0 DEF TokensOf
    <2> HIDE DEF S
    <2>3. \A g : D(g) <=> Picks(g, TokensOf(s), S)
      BY <2>2 DEF Picks
    <2> HIDE DEF D
    <2>4. /\ \E g : Picks(g, TokensOf(s), S)
          /\ \A g : Picks(g, TokensOf(s), S) => g[S] = m[S]
      BY <1>0, PicksMeasure
    <2>5. D(CHOOSE g : D(g))
      BY <2>3, <2>4
    <2>6. QED
      BY <2>1, <2>3, <2>4, <2>5
  <1>2. MapThenSumSet(LAMBDA c : s.agents[c].budget.calls, S) = k[S]
    <2> DEFINE D(g) == g = [T \in SUBSET S |->
                  IF T = {} THEN 0
                  ELSE s.agents[CHOOSE x \in T : TRUE].budget.calls
                         + g[T \ {CHOOSE x \in T : TRUE}]]
    <2>1. MapThenSumSet(LAMBDA c : s.agents[c].budget.calls, S) = (CHOOSE g : D(g))[S]
      BY Zenon DEF MapThenSumSet, MapThenFoldSet
    <2>2. \A T \in SUBSET S : T # {} =>
            CallsOf(s)[CHOOSE x \in T : TRUE] = s.agents[CHOOSE x \in T : TRUE].budget.calls
      BY <1>0 DEF CallsOf
    <2> HIDE DEF S
    <2>3. \A g : D(g) <=> Picks(g, CallsOf(s), S)
      BY <2>2 DEF Picks
    <2> HIDE DEF D
    <2>4. /\ \E g : Picks(g, CallsOf(s), S)
          /\ \A g : Picks(g, CallsOf(s), S) => g[S] = k[S]
      BY <1>0, PicksMeasure
    <2>5. D(CHOOSE g : D(g))
      BY <2>3, <2>4
    <2>6. QED
      BY <2>1, <2>3, <2>4, <2>5
  <1>3. QED
    BY <1>1, <1>2, Zenon DEF ChildBudgets

LEMMA BudgetMeasures ==
    ASSUME NEW s \in TeamState
    PROVE  /\ \E m : Measures(m, TokensOf(s), Len(s.agents))
           /\ \E k : Measures(k, CallsOf(s), Len(s.agents))
  <1>1. Len(s.agents) \in Nat /\ DOMAIN s.agents = 1..Len(s.agents)
    BY AgentsShape
  <1>2. \A c \in 1..Len(s.agents) : TokensOf(s)[c] \in Nat /\ CallsOf(s)[c] \in Nat
    BY <1>1, AgentsShape DEF TokensOf, CallsOf, Agent, Budget
  <1>3. QED
    BY <1>1, <1>2, MeasuresExist

-----------------------------------------------------------------------------
(* Steps that leave Delegations alone.                                       *)

\* n has the Tasks, Owners, authority and budgets of s; only statuses differ.
SameDelegations(s, n) ==
    /\ Ids(n) = Ids(s) /\ DOMAIN n.agents = DOMAIN s.agents
    /\ \A t \in Ids(s) : /\ n.tasks[t].deps = s.tasks[t].deps
                         /\ n.tasks[t].scope = s.tasks[t].scope
    /\ \A a \in DOMAIN s.agents :
          /\ n.agents[a].parent = s.agents[a].parent
          /\ n.agents[a].budget = s.agents[a].budget
          /\ n.agents[a].reserved = s.agents[a].reserved
          /\ n.agents[a].caps = s.agents[a].caps

LEMMA SameChildBudgets ==
    ASSUME NEW s \in TeamState, NEW n \in TeamState, SameDelegations(s, n), NEW a
    PROVE  ChildBudgets(n, a) = ChildBudgets(s, a)
  <1>1. PICK m : Measures(m, TokensOf(s), Len(s.agents))
    BY BudgetMeasures
  <1>2. PICK k : Measures(k, CallsOf(s), Len(s.agents))
    BY BudgetMeasures
  <1>3. TokensOf(n) = TokensOf(s) /\ CallsOf(n) = CallsOf(s)
    BY DEF SameDelegations, TokensOf, CallsOf
  <1>4. Children(n, a) = Children(s, a)
    BY DEF SameDelegations, Children
  <1>5. /\ Len(s.agents) \in Nat /\ DOMAIN s.agents = 1..Len(s.agents)
        /\ DOMAIN n.agents = 1..Len(s.agents)
    BY AgentsShape DEF SameDelegations
  <1>6. ChildBudgets(s, a) = [tokens |-> m[Children(s, a)], calls |-> k[Children(s, a)]]
    BY <1>1, <1>2, <1>5, ChildBudgetsAre
  <1>7. ChildBudgets(n, a) = [tokens |-> m[Children(n, a)], calls |-> k[Children(n, a)]]
    BY <1>1, <1>2, <1>3, <1>5, ChildBudgetsAre
  <1>8. QED
    BY <1>4, <1>6, <1>7

LEMMA DelegationsKept ==
    ASSUME NEW s, NEW n \in TeamState, Shape(s), Lineage(s), Narrow(s), BudgetsHeld(s),
           SameDelegations(s, n)
    PROVE  Shape(n) /\ Lineage(n) /\ Narrow(n) /\ BudgetsHeld(n)
  <1>1. Shape(n)
    BY DEF Shape, SameDelegations
  <1>2. Lineage(n)
    BY DEF Lineage, SameDelegations
  <1>3. Narrow(n)
    BY DEF Narrow, SameDelegations, Shape, Lineage
  <1>4. \A a \in DOMAIN n.agents : ChildBudgets(n, a) = ChildBudgets(s, a)
    BY SameChildBudgets DEF Shape
  <1>5. BudgetsHeld(n)
    BY <1>4 DEF BudgetsHeld, SameDelegations
  <1>6. QED
    BY <1>1, <1>2, <1>3, <1>5

-----------------------------------------------------------------------------
(* reconcile.                                                                *)

LEMMA FcnIsSeq ==
    ASSUME NEW S, NEW n \in Nat, NEW f \in [1..n -> S]
    PROVE  f \in Seq(S)
  BY SeqDef

\* What a verdict says of a Task.
LEMMA AfterIs ==
    ASSUME NEW s, Shape(s), NEW v \in Verdicts(s), NEW t \in Ids(s)
    PROVE  /\ DOMAIN v = InStatus(s, "Pending")
           /\ t \in DOMAIN v => v[t] \in {"Pending", "Ready", "Blocked"}
           /\ After(s, v, t) \in TaskStatus
           /\ s.tasks[t].status # "Pending" => t \notin DOMAIN v /\ After(s, v, t) = s.tasks[t].status
           /\ s.tasks[t].status = "Pending" => t \in DOMAIN v /\ After(s, v, t) = v[t]
  <1>1. DOMAIN v = InStatus(s, "Pending")
        /\ \A u \in InStatus(s, "Pending") : v[u] \in {"Pending", "Ready", "Blocked"}
    BY DEF Verdicts
  <1>2. s.tasks[t].status \in TaskStatus
    BY AgentsShape DEF Shape, Task
  <1>3. QED
    BY <1>1, <1>2 DEF After, InStatus, TaskStatus

LEMMA JudgedFields ==
    ASSUME NEW s, Shape(s), NEW v \in Verdicts(s), NEW j, j = Judged(s, v)
    PROVE  /\ j \in TeamState /\ SameDelegations(s, j)
           /\ j.messages = s.messages /\ j.committed = s.committed /\ j.acked = s.acked
           /\ \A t \in Ids(s) : j.tasks[t].status = After(s, v, t)
           /\ \A a \in DOMAIN s.agents : j.agents[a].status =
                IF a \in DOMAIN v /\ v[a] = "Blocked" THEN "Blocked" ELSE s.agents[a].status
  <1> DEFINE ts == [t \in Ids(s) |-> [s.tasks[t] EXCEPT !.status = After(s, v, t)]]
             as == [a \in DOMAIN s.agents |->
                      [s.agents[a] EXCEPT !.status =
                          IF a \in DOMAIN v /\ v[a] = "Blocked" THEN "Blocked" ELSE @]]
  <1>1. /\ s \in TeamState /\ Len(s.agents) \in Nat /\ DOMAIN s.agents = 1..Len(s.agents)
        /\ Len(s.tasks) \in Nat /\ Ids(s) = 1..Len(s.tasks)
        /\ \A a \in DOMAIN s.agents : s.agents[a] \in Agent
        /\ \A t \in Ids(s) : s.tasks[t] \in Task
    BY AgentsShape DEF Shape
  <1>2. /\ j.tasks = ts /\ j.agents = as
        /\ j.messages = s.messages /\ j.committed = s.committed /\ j.acked = s.acked
        /\ j = [tasks |-> ts, agents |-> as, messages |-> s.messages,
                committed |-> s.committed, acked |-> s.acked]
    <2>1. j = [s EXCEPT !.tasks = ts, !.agents = as]
      BY Zenon DEF Judged
    <2> HIDE DEF ts, as
    <2>2. QED
      BY <1>1, <2>1 DEF TeamState
  <1>3. ASSUME NEW t \in Ids(s)
        PROVE  /\ ts[t] \in Task /\ ts[t].deps = s.tasks[t].deps
               /\ ts[t].scope = s.tasks[t].scope /\ ts[t].status = After(s, v, t)
    BY <1>1, AfterIs DEF Task
  <1>4. ASSUME NEW a \in DOMAIN s.agents
        PROVE  /\ as[a] \in Agent
               /\ as[a].parent = s.agents[a].parent /\ as[a].budget = s.agents[a].budget
               /\ as[a].reserved = s.agents[a].reserved /\ as[a].caps = s.agents[a].caps
               /\ as[a].status =
                    IF a \in DOMAIN v /\ v[a] = "Blocked" THEN "Blocked" ELSE s.agents[a].status
    BY <1>1 DEF Agent, AgentStatus
  <1>5. ts \in Seq(Task) /\ DOMAIN ts = Ids(s)
    <2>1. ts \in [1..Len(s.tasks) -> Task]
      BY <1>1, <1>3
    <2>2. QED
      BY <1>1, <2>1, FcnIsSeq
  <1>6. as \in Seq(Agent) /\ DOMAIN as = DOMAIN s.agents
    <2>1. as \in [1..Len(s.agents) -> Agent]
      BY <1>1, <1>4
    <2>2. QED
      BY <1>1, <2>1, FcnIsSeq
  <1> HIDE DEF ts, as
  <1>7. j \in TeamState
    <2>1. s.messages \in Nat /\ s.committed \in Nat /\ s.acked \in Nat
      BY <1>1 DEF TeamState
    <2>2. QED
      BY <1>2, <1>5, <1>6, <2>1 DEF TeamState
  <1>8. SameDelegations(s, j)
    BY <1>2, <1>3, <1>4, <1>5, <1>6 DEF SameDelegations, Ids
  <1>9. QED
    BY <1>2, <1>3, <1>4, <1>7, <1>8

LEMMA StartedFields ==
    ASSUME NEW s, Shape(s), NEW start, NEW n, n = Started(s, start)
    PROVE  /\ n \in TeamState /\ SameDelegations(s, n)
           /\ n.messages = s.messages /\ n.committed = s.committed /\ n.acked = s.acked
           /\ \A t \in Ids(s) : n.tasks[t].status =
                IF t \in start THEN "Running" ELSE s.tasks[t].status
           /\ \A a \in DOMAIN s.agents : n.agents[a].status =
                IF a \in start THEN "Active" ELSE s.agents[a].status
  <1> DEFINE ts == [t \in Ids(s) |->
                      [s.tasks[t] EXCEPT !.status = IF t \in start THEN "Running" ELSE @]]
             as == [a \in DOMAIN s.agents |->
                      [s.agents[a] EXCEPT !.status = IF a \in start THEN "Active" ELSE @]]
  <1>1. /\ s \in TeamState /\ Len(s.agents) \in Nat /\ DOMAIN s.agents = 1..Len(s.agents)
        /\ Len(s.tasks) \in Nat /\ Ids(s) = 1..Len(s.tasks)
        /\ \A a \in DOMAIN s.agents : s.agents[a] \in Agent
        /\ \A t \in Ids(s) : s.tasks[t] \in Task
    BY AgentsShape DEF Shape
  <1>2. /\ n.tasks = ts /\ n.agents = as
        /\ n.messages = s.messages /\ n.committed = s.committed /\ n.acked = s.acked
        /\ n = [tasks |-> ts, agents |-> as, messages |-> s.messages,
                committed |-> s.committed, acked |-> s.acked]
    <2>1. n = [s EXCEPT !.tasks = ts, !.agents = as]
      BY Zenon DEF Started
    <2> HIDE DEF ts, as
    <2>2. QED
      BY <1>1, <2>1 DEF TeamState
  <1>3. ASSUME NEW t \in Ids(s)
        PROVE  /\ ts[t] \in Task /\ ts[t].deps = s.tasks[t].deps
               /\ ts[t].scope = s.tasks[t].scope
               /\ ts[t].status = IF t \in start THEN "Running" ELSE s.tasks[t].status
    BY <1>1 DEF Task, TaskStatus
  <1>4. ASSUME NEW a \in DOMAIN s.agents
        PROVE  /\ as[a] \in Agent
               /\ as[a].parent = s.agents[a].parent /\ as[a].budget = s.agents[a].budget
               /\ as[a].reserved = s.agents[a].reserved /\ as[a].caps = s.agents[a].caps
               /\ as[a].status = IF a \in start THEN "Active" ELSE s.agents[a].status
    BY <1>1 DEF Agent, AgentStatus
  <1>5. ts \in Seq(Task) /\ DOMAIN ts = Ids(s)
    <2>1. ts \in [1..Len(s.tasks) -> Task]
      BY <1>1, <1>3
    <2>2. QED
      BY <1>1, <2>1, FcnIsSeq
  <1>6. as \in Seq(Agent) /\ DOMAIN as = DOMAIN s.agents
    <2>1. as \in [1..Len(s.agents) -> Agent]
      BY <1>1, <1>4
    <2>2. QED
      BY <1>1, <2>1, FcnIsSeq
  <1> HIDE DEF ts, as
  <1>7. n \in TeamState
    <2>1. s.messages \in Nat /\ s.committed \in Nat /\ s.acked \in Nat
      BY <1>1 DEF TeamState
    <2>2. QED
      BY <1>2, <1>5, <1>6, <2>1 DEF TeamState
  <1>8. SameDelegations(s, n)
    BY <1>2, <1>3, <1>4, <1>5, <1>6 DEF SameDelegations, Ids
  <1>9. QED
    BY <1>2, <1>3, <1>4, <1>7, <1>8

\* The statuses reconcile leaves.
LEMMA ReconciledFields ==
    ASSUME NEW s, Shape(s), NEW v \in Verdicts(s), NEW max, NEW n, n = Reconciled(s, v, max)
    PROVE  /\ n \in TeamState /\ SameDelegations(s, n)
           /\ n.messages = s.messages /\ n.committed = s.committed /\ n.acked = s.acked
           /\ \A t \in Ids(s) : n.tasks[t].status =
                IF t \in Starting(s, v, max) THEN "Running" ELSE After(s, v, t)
           /\ \A a \in DOMAIN s.agents : n.agents[a].status =
                IF a \in Starting(s, v, max) THEN "Active"
                ELSE IF a \in DOMAIN v /\ v[a] = "Blocked" THEN "Blocked"
                ELSE s.agents[a].status
  <1> DEFINE j == Judged(s, v)
  <1>1. /\ j \in TeamState /\ SameDelegations(s, j)
        /\ j.messages = s.messages /\ j.committed = s.committed /\ j.acked = s.acked
        /\ \A t \in Ids(s) : j.tasks[t].status = After(s, v, t)
        /\ \A a \in DOMAIN s.agents : j.agents[a].status =
             IF a \in DOMAIN v /\ v[a] = "Blocked" THEN "Blocked" ELSE s.agents[a].status
    BY JudgedFields
  <1>2. n = Started(j, Starting(s, v, max))
    BY DEF Reconciled
  <1> HIDE DEF j
  <1>3. Shape(j)
    BY <1>1 DEF Shape, SameDelegations
  <1>4. /\ n \in TeamState /\ SameDelegations(j, n)
        /\ n.messages = j.messages /\ n.committed = j.committed /\ n.acked = j.acked
        /\ \A t \in Ids(j) : n.tasks[t].status =
             IF t \in Starting(s, v, max) THEN "Running" ELSE j.tasks[t].status
        /\ \A a \in DOMAIN j.agents : n.agents[a].status =
             IF a \in Starting(s, v, max) THEN "Active" ELSE j.agents[a].status
    BY <1>2, <1>3, StartedFields
  <1>5. SameDelegations(s, n)
    BY <1>1, <1>4 DEF SameDelegations
  <1>6. Ids(j) = Ids(s) /\ DOMAIN j.agents = DOMAIN s.agents
    BY <1>1 DEF SameDelegations
  <1>7. QED
    BY <1>1, <1>4, <1>5, <1>6

\* The lowest members of a set, up to a number, are that many unless they are
\* all of it.
LEMMA LowestFirst ==
    ASSUME NEW n \in Nat, NEW ready \in SUBSET (1..n), NEW free \in Nat, NEW start,
           start = {t \in ready : Cardinality({u \in ready : u < t}) < free}
    PROVE  /\ IsFiniteSet(start) /\ Cardinality(start) \in Nat
           /\ Cardinality(start) <= free
           /\ start # ready => Cardinality(start) >= free
  <1> DEFINE below(t) == {u \in ready : u < t}
  <1>1. IsFiniteSet(1..n)
    BY FS_Interval
  <1>2. \A S \in SUBSET (1..n) : IsFiniteSet(S) /\ Cardinality(S) \in Nat
    BY <1>1, FS_Subset, FS_CardinalityType
  <1>3. start \in SUBSET (1..n) /\ \A t : below(t) \in SUBSET (1..n)
    OBVIOUS
  <1>4. IsFiniteSet(start) /\ Cardinality(start) \in Nat
    BY <1>2, <1>3
  <1>5. Cardinality(start) <= free
    <2>1. CASE start = {}
      <3>1. Cardinality(start) = 0
        BY <2>1, FS_EmptySet
      <3>2. QED
        BY <3>1
    <2>2. CASE start # {}
      <3>1. PICK m \in start : \A y \in start : m >= y
        BY <1>3, <2>2, MaxIsMember
      <3>2. Cardinality(below(m)) < free /\ m \notin below(m)
        BY <3>1
      <3>3. start \in SUBSET (below(m) \cup {m})
        <4>1. \A y \in start : y \in ready /\ y \in Nat
          BY <1>3
        <4>2. \A y \in start : y < m \/ y = m
          BY <3>1, <4>1
        <4>3. \A y \in start : y \in below(m) \/ y = m
          BY <4>1, <4>2
        <4> HIDE DEF below
        <4>4. QED
          BY <4>3
      <3>4. IsFiniteSet(below(m)) /\ Cardinality(below(m)) \in Nat
        BY <1>2, <1>3
      <3> HIDE DEF below
      <3>5. /\ IsFiniteSet(below(m) \cup {m})
            /\ Cardinality(below(m) \cup {m}) = Cardinality(below(m)) + 1
        BY <3>2, <3>4, FS_AddElement
      <3>6. Cardinality(start) <= Cardinality(below(m) \cup {m})
        BY <3>3, <3>5, FS_Subset
      <3>7. QED
        BY <1>4, <3>2, <3>4, <3>5, <3>6
    <2>3. QED
      BY <2>1, <2>2
  <1>6. ASSUME start # ready PROVE Cardinality(start) >= free
    <2>1. ready \ start \subseteq Nat /\ ready \ start # {}
      <3>1. start \subseteq ready /\ ready \subseteq Nat
        OBVIOUS
      <3>2. QED
        BY <1>6, <3>1
    <2>2. PICK t \in ready \ start : \A y \in ready \ start : ~(y < t)
      BY <2>1, LeastNat
    <2>3. below(t) \in SUBSET start
      <3>1. \A y \in below(t) : y \in ready /\ y < t
        OBVIOUS
      <3>2. \A y \in below(t) : y \in start
        BY <2>2, <3>1
      <3>3. QED
        BY <3>2
    <2>4. ~(Cardinality(below(t)) < free)
      BY <2>2
    <2>5. Cardinality(below(t)) \in Nat
      BY <1>2, <1>3
    <2> HIDE DEF below
    <2>6. Cardinality(below(t)) <= Cardinality(start)
      BY <1>4, <2>3, FS_Subset
    <2>7. QED
      BY <1>4, <2>4, <2>5, <2>6
  <1>7. QED
    BY <1>4, <1>5, <1>6

LEMMA ActiveFinite ==
    ASSUME NEW s \in TeamState
    PROVE  IsFiniteSet(Active(s)) /\ Cardinality(Active(s)) \in Nat
  <1>1. Active(s) \in SUBSET (1..Len(s.agents)) /\ Len(s.agents) \in Nat
    BY AgentsShape DEF Active
  <1>2. IsFiniteSet(1..Len(s.agents))
    BY <1>1, FS_Interval
  <1>3. QED
    BY <1>1, <1>2, FS_Subset, FS_CardinalityType

\* activate_ready fills the free slots with the lowest Ready Tasks, no more,
\* and leaves a Ready Task waiting only when no slot is free.
LEMMA ReconciledActive ==
    ASSUME NEW s, Shape(s), Pairs(s), NEW v \in Verdicts(s), NEW max \in Nat,
           Cardinality(Active(s)) <= max, NEW n, n = Reconciled(s, v, max)
    PROVE  /\ Cardinality(Active(n)) <= max
           /\ Cardinality(Active(n)) < max => InStatus(n, "Ready") = {}
           /\ \A t \in Starting(s, v, max) : t \in Ids(s) /\ After(s, v, t) = "Ready"
  <1> DEFINE ready == {t \in Ids(s) : After(s, v, t) = "Ready"}
             free == max - Cardinality(Active(s))
             start == Starting(s, v, max)
  <1>1. start = {t \in ready : Cardinality({u \in ready : u < t}) < free}
    BY DEF Starting
  <1>2. /\ IsFiniteSet(Active(s)) /\ Cardinality(Active(s)) \in Nat /\ free \in Nat
        /\ Len(s.tasks) \in Nat /\ Ids(s) = 1..Len(s.tasks)
    BY ActiveFinite, AgentsShape DEF Shape
  <1>3. ready \in SUBSET (1..Len(s.tasks))
    BY <1>2
  <1>4. start \subseteq ready
    BY <1>1
  <1> HIDE DEF start, ready, free
  <1>5. /\ IsFiniteSet(start) /\ Cardinality(start) \in Nat
        /\ Cardinality(start) <= free
        /\ start # ready => Cardinality(start) >= free
    BY <1>1, <1>2, <1>3, LowestFirst
  <1>6. /\ n \in TeamState /\ SameDelegations(s, n)
        /\ \A t \in Ids(s) : n.tasks[t].status =
             IF t \in start THEN "Running" ELSE After(s, v, t)
        /\ \A a \in DOMAIN s.agents : n.agents[a].status =
             IF a \in start THEN "Active"
             ELSE IF a \in DOMAIN v /\ v[a] = "Blocked" THEN "Blocked"
             ELSE s.agents[a].status
    BY ReconciledFields DEF start
  <1>7. \A t \in Ids(s) : After(s, v, t) = "Ready" => s.agents[t].status = "Dormant"
    BY AfterIs DEF Pairs, Paired
  <1>8. \A t \in Ids(s) : t \in DOMAIN v => s.agents[t].status = "Dormant"
    BY AfterIs DEF Pairs, Paired
  <1>9. Active(n) = Active(s) \cup start
    <2>1. DOMAIN n.agents = DOMAIN s.agents /\ DOMAIN s.agents = Ids(s)
      BY <1>6 DEF SameDelegations, Shape
    <2>2. start \subseteq DOMAIN s.agents
      BY <1>4, <2>1 DEF ready
    <2>3. \A a \in DOMAIN s.agents : n.agents[a].status = "Active" <=>
             a \in start \/ s.agents[a].status = "Active"
      BY <1>6, <1>8, <2>1
    <2>4. QED
      BY <2>1, <2>2, <2>3 DEF Active
  <1>10. Active(s) \cap start = {}
    BY <1>4, <1>7 DEF ready, Active
  <1>11. Cardinality(Active(n)) = Cardinality(Active(s)) + Cardinality(start)
    <2>1. Cardinality(Active(s) \cap start) = 0
      BY <1>10, FS_EmptySet
    <2>2. Cardinality(Active(s) \cup start) =
            Cardinality(Active(s)) + Cardinality(start) - Cardinality(Active(s) \cap start)
      BY <1>2, <1>5, FS_Union
    <2>3. QED
      BY <1>2, <1>5, <1>9, <2>1, <2>2
  <1>12. Cardinality(Active(n)) <= max
    BY <1>2, <1>5, <1>11 DEF free
  <1>13. ASSUME Cardinality(Active(n)) < max PROVE InStatus(n, "Ready") = {}
    <2>1. start = ready
      <3>1. ~(Cardinality(start) >= free)
        BY <1>2, <1>5, <1>11, <1>13 DEF free
      <3>2. QED
        BY <1>5, <3>1
    <2>2. Ids(n) = Ids(s)
      BY <1>6 DEF SameDelegations
    <2>3. \A t \in Ids(s) : n.tasks[t].status # "Ready"
      BY <1>6, <2>1 DEF ready
    <2>4. QED
      BY <2>2, <2>3 DEF InStatus
  <1>14. \A t \in start : t \in Ids(s) /\ After(s, v, t) = "Ready"
    BY <1>4 DEF ready
  <1>15. QED
    BY <1>12, <1>13, <1>14 DEF start

\* A sound state passes every test of TeamState::validate.
LEMMA SoundIsValid ==
    ASSUME NEW n, TeamOK(n), NEW max, Cardinality(Active(n)) <= max
    PROVE  Valid(n, max)
  <1>1. /\ DOMAIN n.agents = Ids(n)
        /\ \A t \in Ids(n) : Paired(n.tasks[t].status, n.agents[t].status)
    BY Zenon DEF TeamOK, Shape, Pairs
  <1>2. \A a \in DOMAIN n.agents :
          /\ n.agents[a].parent \in DOMAIN n.agents \cup {0}
          /\ BudgetContains(n.agents[a].budget, n.agents[a].reserved)
          /\ n.agents[a].reserved = ChildBudgets(n, a)
          /\ n.agents[a].status \in Terminal => OutstandingChildren(n, a) = {}
    <2> SUFFICES ASSUME NEW a \in DOMAIN n.agents
                 PROVE  /\ n.agents[a].parent \in DOMAIN n.agents \cup {0}
                        /\ BudgetContains(n.agents[a].budget, n.agents[a].reserved)
                        /\ n.agents[a].reserved = ChildBudgets(n, a)
                        /\ n.agents[a].status \in Terminal => OutstandingChildren(n, a) = {}
      BY Zenon
    <2>1. n.agents[a].parent \in DOMAIN n.agents \cup {0}
      BY Zenon DEF TeamOK, Lineage
    <2>2. /\ BudgetContains(n.agents[a].budget, n.agents[a].reserved)
          /\ n.agents[a].reserved = ChildBudgets(n, a)
      BY Zenon DEF TeamOK, BudgetsHeld
    <2>3. n.agents[a].status \in Terminal => OutstandingChildren(n, a) = {}
      BY Zenon DEF TeamOK, NoOrphans
    <2>4. QED
      BY <2>1, <2>2, <2>3
  <1>3. QED
    BY <1>1, <1>2 DEF Valid

\* reconcile turns a sound plan into a sound, quiescent state within the limit.
LEMMA ReconciledOK ==
    ASSUME NEW s, TeamOK(s), NEW v \in Verdicts(s), NEW max \in Nat,
           Cardinality(Active(s)) <= max, NEW n, n = Reconciled(s, v, max)
    PROVE  /\ TeamOK(n) /\ SameDelegations(s, n)
           /\ Cardinality(Active(n)) <= max
           /\ Quiescent(n, max)
  <1> DEFINE start == Starting(s, v, max)
  <1>0. Shape(s) /\ Pairs(s) /\ Lineage(s) /\ Narrow(s) /\ BudgetsHeld(s)
        /\ NoOrphans(s) /\ InputsKept(s)
    BY DEF TeamOK
  <1>1. /\ n \in TeamState /\ SameDelegations(s, n)
        /\ \A t \in Ids(s) : n.tasks[t].status =
             IF t \in start THEN "Running" ELSE After(s, v, t)
        /\ \A a \in DOMAIN s.agents : n.agents[a].status =
             IF a \in start THEN "Active"
             ELSE IF a \in DOMAIN v /\ v[a] = "Blocked" THEN "Blocked"
             ELSE s.agents[a].status
    BY <1>0, ReconciledFields
  <1>2. /\ Cardinality(Active(n)) <= max
        /\ Cardinality(Active(n)) < max => InStatus(n, "Ready") = {}
        /\ \A t \in start : t \in Ids(s) /\ After(s, v, t) = "Ready"
    BY <1>0, ReconciledActive
  <1> HIDE DEF start
  <1>3. Shape(n) /\ Lineage(n) /\ Narrow(n) /\ BudgetsHeld(n)
    BY <1>0, <1>1, DelegationsKept
  <1>4. /\ Ids(n) = Ids(s) /\ DOMAIN n.agents = Ids(s) /\ DOMAIN s.agents = Ids(s)
        /\ \A t \in Ids(s) : n.tasks[t].deps = s.tasks[t].deps /\ s.tasks[t].deps \subseteq Ids(s)
        /\ \A a \in Ids(s) : n.agents[a].parent = s.agents[a].parent
    BY <1>0, <1>1 DEF SameDelegations, Shape
  <1>5. ASSUME NEW t \in Ids(s)
        PROVE  /\ s.tasks[t].status # "Pending" => After(s, v, t) = s.tasks[t].status /\ t \notin DOMAIN v
               /\ s.tasks[t].status = "Pending" => /\ t \in DOMAIN v /\ After(s, v, t) = v[t]
                                                   /\ v[t] \in {"Pending", "Ready", "Blocked"}
    BY <1>0, AfterIs
  <1>6. Pairs(n)
    <2> SUFFICES ASSUME NEW t \in Ids(s)
                 PROVE  Paired(n.tasks[t].status, n.agents[t].status)
      BY <1>4 DEF Pairs
    <2>1. Paired(s.tasks[t].status, s.agents[t].status)
      BY <1>0 DEF Pairs
    <2>2. QED
      BY <1>1, <1>2, <1>4, <1>5, <2>1 DEF Paired
  <1>7. \A t \in Ids(s) : s.tasks[t].status = "Succeeded" <=> n.tasks[t].status = "Succeeded"
    BY <1>1, <1>2, <1>5
  <1>8. \A t \in Ids(s) : /\ n.tasks[t].status = "Succeeded" <=> After(s, v, t) = "Succeeded"
                          /\ n.tasks[t].status \in BlocksDependents <=> After(s, v, t) \in BlocksDependents
    BY <1>1, <1>2 DEF BlocksDependents
  <1>9. \A t \in DOMAIN v :
          v[t] = IF \E d \in s.tasks[t].deps : After(s, v, d) \in BlocksDependents
                 THEN "Blocked"
                 ELSE IF \A d \in s.tasks[t].deps : After(s, v, d) = "Succeeded"
                 THEN "Ready"
                 ELSE "Pending"
    BY DEF Verdicts
  <1>10. InputsKept(n)
    <2> SUFFICES ASSUME NEW t \in Ids(s), n.tasks[t].status \in HasRun,
                        NEW d \in s.tasks[t].deps
                 PROVE  n.tasks[d].status = "Succeeded"
      BY <1>4 DEF InputsKept, DependenciesSucceeded
    <2>1. d \in Ids(s)
      BY <1>4
    <2>2. CASE s.tasks[t].status = "Pending"
      <3>1. v[t] = "Ready" /\ t \in DOMAIN v
        BY <1>1, <1>2, <1>5, <2>2 DEF HasRun
      <3>2. After(s, v, d) = "Succeeded"
        BY <1>9, <3>1
      <3>3. QED
        BY <1>8, <2>1, <3>2
    <2>3. CASE s.tasks[t].status # "Pending"
      <3>1. s.tasks[t].status \in HasRun
        BY <1>1, <1>2, <1>5, <2>3 DEF HasRun
      <3>2. s.tasks[d].status = "Succeeded"
        BY <1>0, <3>1 DEF InputsKept, DependenciesSucceeded
      <3>3. QED
        BY <1>7, <2>1, <3>2
    <2>4. QED
      BY <2>2, <2>3
  <1>11. \A a \in Ids(s) : n.agents[a].status \in Terminal <=> s.agents[a].status \in Terminal
    <2> SUFFICES ASSUME NEW a \in Ids(s)
                 PROVE  n.agents[a].status \in Terminal <=> s.agents[a].status \in Terminal
      OBVIOUS
    <2>1. Paired(s.tasks[a].status, s.agents[a].status)
      BY <1>0 DEF Pairs
    <2>2. a \in start \/ a \in DOMAIN v => s.agents[a].status = "Dormant"
      BY <1>2, <1>5, <2>1 DEF Paired
    <2>3. QED
      BY <1>1, <1>4, <2>2 DEF Terminal
  <1>12. NoOrphans(n)
    BY <1>0, <1>4, <1>11 DEF NoOrphans, OutstandingChildren, Children
  <1>13. TeamOK(n)
    BY <1>3, <1>6, <1>10, <1>12 DEF TeamOK
  <1>14. Quiescent(n, max)
    <2>1. ASSUME NEW t \in InStatus(n, "Pending")
          PROVE  ~FailedDependency(n, t) /\ ~DependenciesSucceeded(n, t)
      <3>1. t \in Ids(s) /\ n.tasks[t].status = "Pending"
        BY <1>4 DEF InStatus
      <3>2. t \in DOMAIN v /\ v[t] = "Pending"
        BY <1>1, <1>2, <1>5, <3>1
      <3>3. /\ ~ \E d \in s.tasks[t].deps : After(s, v, d) \in BlocksDependents
            /\ ~ \A d \in s.tasks[t].deps : After(s, v, d) = "Succeeded"
        BY <1>9, <3>2
      <3>4. QED
        BY <1>4, <1>8, <3>1, <3>3 DEF FailedDependency, DependenciesSucceeded
    <2>2. QED
      BY <1>2, <2>1 DEF Quiescent
  <1>15. QED
    BY <1>1, <1>2, <1>13, <1>14
-----------------------------------------------------------------------------
(* Plans: the state a command's own events lead to.                          *)

\* A plan that changes statuses only is sound when its statuses are.
LEMMA StatusesOK ==
    ASSUME NEW s, TeamOK(s), NEW n \in TeamState, SameDelegations(s, n),
           Pairs(n), NoOrphans(n), InputsKept(n)
    PROVE  TeamOK(n)
  <1>1. Shape(s) /\ Lineage(s) /\ Narrow(s) /\ BudgetsHeld(s)
    BY DEF TeamOK
  <1>2. Shape(n) /\ Lineage(n) /\ Narrow(n) /\ BudgetsHeld(n)
    BY <1>1, DelegationsKept
  <1>3. QED
    BY <1>2 DEF TeamOK

\* A plan that only moves a counter (operation committed or acknowledged,
\* message sent) is as sound as the state it starts from.
LEMMA CountersOK ==
    ASSUME NEW s, TeamOK(s), NEW n \in TeamState, n.tasks = s.tasks, n.agents = s.agents
    PROVE  /\ TeamOK(n) /\ Active(n) = Active(s) /\ Verdicts(n) = Verdicts(s)
           /\ DOMAIN n.agents = DOMAIN s.agents
  <1>1. Ids(n) = Ids(s)
    BY DEF Ids
  <1>2. SameDelegations(s, n)
    BY <1>1 DEF SameDelegations
  <1>3. Pairs(n)
    BY <1>1 DEF TeamOK, Pairs
  <1>4. NoOrphans(n)
    BY DEF TeamOK, NoOrphans, OutstandingChildren, Children
  <1>5. InputsKept(n)
    BY <1>1 DEF TeamOK, InputsKept, DependenciesSucceeded
  <1>6. TeamOK(n)
    BY <1>2, <1>3, <1>4, <1>5, StatusesOK
  <1>7. Active(n) = Active(s)
    BY DEF Active
  <1>8. InStatus(n, "Pending") = InStatus(s, "Pending")
    BY <1>1 DEF InStatus
  <1>9. Verdicts(n) = Verdicts(s)
    BY <1>8 DEF Verdicts, After
  <1>10. QED
    BY <1>6, <1>7, <1>9

LEMMA CommittedFields ==
    ASSUME NEW s \in TeamState
    PROVE  /\ OperationCommitted(s) \in TeamState
           /\ OperationCommitted(s).tasks = s.tasks /\ OperationCommitted(s).agents = s.agents
  BY SMTT(30) DEF OperationCommitted, TeamState

LEMMA AcknowledgedFields ==
    ASSUME NEW s \in TeamState
    PROVE  /\ OperationAcknowledged(s) \in TeamState
           /\ OperationAcknowledged(s).tasks = s.tasks /\ OperationAcknowledged(s).agents = s.agents
  BY DEF OperationAcknowledged, TeamState

LEMMA MessageFields ==
    ASSUME NEW s \in TeamState
    PROVE  /\ MessageSent(s) \in TeamState
           /\ MessageSent(s).tasks = s.tasks /\ MessageSent(s).agents = s.agents
  BY DEF MessageSent, TeamState

\* Task a and its Owner in a status pair, everything else as it was.
Restated(s, a, ts, as) == [s EXCEPT !.tasks[a].status = ts, !.agents[a].status = as]

LEMMA RestatedFields ==
    ASSUME NEW s, Shape(s), NEW a \in Ids(s), NEW ts \in TaskStatus, NEW as \in AgentStatus,
           NEW n, n = Restated(s, a, ts, as)
    PROVE  /\ n \in TeamState /\ SameDelegations(s, n)
           /\ \A t \in Ids(s) : n.tasks[t].status = IF t = a THEN ts ELSE s.tasks[t].status
           /\ \A t \in DOMAIN s.agents :
                n.agents[t].status = IF t = a THEN as ELSE s.agents[t].status
  <1> DEFINE tt == [s.tasks EXCEPT ![a].status = ts]
             aa == [s.agents EXCEPT ![a].status = as]
  <1>1. /\ s \in TeamState /\ Len(s.agents) \in Nat /\ DOMAIN s.agents = 1..Len(s.agents)
        /\ Len(s.tasks) \in Nat /\ Ids(s) = 1..Len(s.tasks) /\ Ids(s) = DOMAIN s.tasks
        /\ DOMAIN s.agents = Ids(s)
        /\ \A x \in DOMAIN s.agents : s.agents[x] \in Agent
        /\ \A t \in Ids(s) : s.tasks[t] \in Task
    BY AgentsShape DEF Shape, Ids
  <1>2. /\ n.tasks = tt /\ n.agents = aa
        /\ n = [tasks |-> tt, agents |-> aa, messages |-> s.messages,
                committed |-> s.committed, acked |-> s.acked]
    BY <1>1 DEF TeamState, Restated
  <1>3. ASSUME NEW t \in Ids(s)
        PROVE  /\ tt[t] \in Task /\ tt[t].deps = s.tasks[t].deps
               /\ tt[t].scope = s.tasks[t].scope
               /\ tt[t].status = IF t = a THEN ts ELSE s.tasks[t].status
    BY <1>1 DEF Task
  <1>4. ASSUME NEW t \in DOMAIN s.agents
        PROVE  /\ aa[t] \in Agent
               /\ aa[t].parent = s.agents[t].parent /\ aa[t].budget = s.agents[t].budget
               /\ aa[t].reserved = s.agents[t].reserved /\ aa[t].caps = s.agents[t].caps
               /\ aa[t].status = IF t = a THEN as ELSE s.agents[t].status
    BY <1>1 DEF Agent
  <1>5. tt \in Seq(Task) /\ DOMAIN tt = Ids(s)
    <2>1. tt \in [1..Len(s.tasks) -> Task]
      BY <1>1, <1>3
    <2>2. QED
      BY <1>1, <2>1, FcnIsSeq
  <1>6. aa \in Seq(Agent) /\ DOMAIN aa = DOMAIN s.agents
    <2>1. aa \in [1..Len(s.agents) -> Agent]
      BY <1>1, <1>4
    <2>2. QED
      BY <1>1, <2>1, FcnIsSeq
  <1> HIDE DEF tt, aa
  <1>7. n \in TeamState
    <2>1. s.messages \in Nat /\ s.committed \in Nat /\ s.acked \in Nat
      BY <1>1 DEF TeamState
    <2>2. QED
      BY <1>2, <1>5, <1>6, <2>1 DEF TeamState
  <1>8. SameDelegations(s, n)
    BY <1>2, <1>3, <1>4, <1>5, <1>6 DEF SameDelegations, Ids
  <1>9. QED
    BY <1>2, <1>3, <1>4, <1>7, <1>8

\* Complete, Fail and Cancel: an Agent without live children ends.  Complete
\* and Fail end a running Task; Cancel may end one that never ran.
LEMMA FinishedOK ==
    ASSUME NEW s, TeamOK(s), NEW a \in DOMAIN s.agents, s.agents[a].status \notin Terminal,
           OutstandingChildren(s, a) = {}, NEW st \in Terminal,
           s.agents[a].status = "Active" \/ st = "Cancelled"
    PROVE  /\ TeamOK(Finished(s, a, st)) /\ Active(Finished(s, a, st)) \subseteq Active(s)
           /\ DOMAIN Finished(s, a, st).agents = DOMAIN s.agents
  <1> DEFINE n == Finished(s, a, st)
  <1>0. /\ Shape(s) /\ Pairs(s) /\ NoOrphans(s) /\ InputsKept(s)
        /\ a \in Ids(s) /\ DOMAIN s.agents = Ids(s)
    BY DEF TeamOK, Shape
  <1>1. /\ n \in TeamState /\ SameDelegations(s, n)
        /\ \A t \in Ids(s) : n.tasks[t].status = IF t = a THEN st ELSE s.tasks[t].status
        /\ \A t \in DOMAIN s.agents : n.agents[t].status = IF t = a THEN st ELSE s.agents[t].status
    <2>1. st \in TaskStatus /\ st \in AgentStatus
      BY DEF Terminal, TaskStatus, AgentStatus
    <2>2. n = Restated(s, a, st, st)
      BY Zenon DEF Finished, Restated
    <2> HIDE DEF n
    <2>3. QED
      BY <1>0, <2>1, <2>2, RestatedFields
  <1> HIDE DEF n
  <1>2. /\ Ids(n) = Ids(s) /\ DOMAIN n.agents = Ids(s)
        /\ \A t \in Ids(s) : n.tasks[t].deps = s.tasks[t].deps /\ s.tasks[t].deps \subseteq Ids(s)
        /\ \A t \in Ids(s) : n.agents[t].parent = s.agents[t].parent
    BY <1>0, <1>1 DEF SameDelegations, Shape
  <1>3. Pairs(n)
    BY <1>0, <1>1, <1>2 DEF Pairs, Paired, Terminal
  <1>4. NoOrphans(n)
    <2> SUFFICES ASSUME NEW x \in Ids(s), n.agents[x].status \in Terminal,
                        NEW c \in Ids(s), s.agents[c].parent = x
                 PROVE  n.agents[c].status \in Terminal
      BY <1>2 DEF NoOrphans, OutstandingChildren, Children
    <2>1. CASE c = a
      BY <1>0, <1>1, <2>1
    <2>2. CASE c # a
      <3>1. n.agents[c].status = s.agents[c].status
        BY <1>0, <1>1, <2>2
      <3>2. OutstandingChildren(s, x) = {}
        BY <1>0, <1>1 DEF NoOrphans
      <3>3. QED
        BY <1>0, <3>1, <3>2 DEF OutstandingChildren, Children
    <2>3. QED
      BY <2>1, <2>2
  <1>5. s.tasks[a].status # "Succeeded"
    BY <1>0 DEF Pairs, Paired, Terminal
  <1>6. InputsKept(n)
    <2> SUFFICES ASSUME NEW t \in Ids(s), n.tasks[t].status \in HasRun,
                        NEW d \in s.tasks[t].deps
                 PROVE  n.tasks[d].status = "Succeeded"
      BY <1>2 DEF InputsKept, DependenciesSucceeded
    <2>1. d \in Ids(s)
      BY <1>2
    <2>2. s.tasks[t].status \in HasRun
      <3>1. CASE t # a
        BY <1>1, <3>1
      <3>2. CASE t = a
        <4>1. st # "Cancelled"
          BY <1>1, <3>2 DEF HasRun
        <4>2. s.tasks[a].status = "Running"
          BY <1>0, <4>1, AgentsShape DEF Shape, Task, TaskStatus, Pairs, Paired
        <4>3. QED
          BY <3>2, <4>2 DEF HasRun
      <3>3. QED
        BY <3>1, <3>2
    <2>3. s.tasks[d].status = "Succeeded"
      BY <1>0, <2>2 DEF InputsKept, DependenciesSucceeded
    <2>4. QED
      BY <1>1, <1>5, <2>1, <2>3
  <1>7. TeamOK(n)
    BY <1>1, <1>3, <1>4, <1>6, StatusesOK
  <1>8. Active(n) \subseteq Active(s)
    BY <1>0, <1>1, <1>2 DEF Active, Terminal
  <1>9. QED
    BY <1>0, <1>2, <1>7, <1>8 DEF n

\* RetryTask: a child that did not succeed, of an Active parent, is requeued.
LEMMA RequeuedOK ==
    ASSUME NEW s, TeamOK(s), NEW r \in DOMAIN s.agents, s.agents[r].status = "Active",
           NEW c \in Children(s, r), s.agents[c].status \in Retriable
    PROVE  /\ TeamOK(Requeued(s, c)) /\ Active(Requeued(s, c)) \subseteq Active(s)
           /\ DOMAIN Requeued(s, c).agents = DOMAIN s.agents
  <1> DEFINE n == Requeued(s, c)
  <1>0. /\ Shape(s) /\ Pairs(s) /\ NoOrphans(s) /\ InputsKept(s)
        /\ c \in Ids(s) /\ DOMAIN s.agents = Ids(s) /\ s.agents[c].parent = r
    BY DEF TeamOK, Shape, Children
  <1>1. /\ n \in TeamState /\ SameDelegations(s, n)
        /\ \A t \in Ids(s) : n.tasks[t].status = IF t = c THEN "Pending" ELSE s.tasks[t].status
        /\ \A t \in DOMAIN s.agents :
             n.agents[t].status = IF t = c THEN "Dormant" ELSE s.agents[t].status
    <2>1. "Pending" \in TaskStatus /\ "Dormant" \in AgentStatus
      BY DEF TaskStatus, AgentStatus
    <2>2. n = Restated(s, c, "Pending", "Dormant")
      BY Zenon DEF Requeued, Restated
    <2> HIDE DEF n
    <2>3. QED
      BY <1>0, <2>1, <2>2, RestatedFields
  <1> HIDE DEF n
  <1>2. /\ Ids(n) = Ids(s) /\ DOMAIN n.agents = Ids(s)
        /\ \A t \in Ids(s) : n.tasks[t].deps = s.tasks[t].deps /\ s.tasks[t].deps \subseteq Ids(s)
        /\ \A t \in Ids(s) : n.agents[t].parent = s.agents[t].parent
    BY <1>0, <1>1 DEF SameDelegations, Shape
  <1>3. Pairs(n)
    BY <1>0, <1>1, <1>2 DEF Pairs, Paired
  <1>4. NoOrphans(n)
    <2> SUFFICES ASSUME NEW x \in Ids(s), n.agents[x].status \in Terminal,
                        NEW k \in Ids(s), s.agents[k].parent = x
                 PROVE  n.agents[k].status \in Terminal
      BY <1>2 DEF NoOrphans, OutstandingChildren, Children
    <2>1. x # c
      BY <1>0, <1>1 DEF Terminal
    <2>2. s.agents[x].status \in Terminal
      BY <1>0, <1>1, <2>1
    <2>3. k # c
      BY <1>0, <2>2 DEF Terminal
    <2>4. n.agents[k].status = s.agents[k].status
      BY <1>0, <1>1, <2>3
    <2>5. OutstandingChildren(s, x) = {}
      BY <1>0, <2>2 DEF NoOrphans
    <2>6. QED
      BY <1>0, <2>4, <2>5 DEF OutstandingChildren, Children
  <1>5. s.tasks[c].status # "Succeeded"
    BY <1>0 DEF Pairs, Paired, Retriable
  <1>6. InputsKept(n)
    <2> SUFFICES ASSUME NEW t \in Ids(s), n.tasks[t].status \in HasRun,
                        NEW d \in s.tasks[t].deps
                 PROVE  n.tasks[d].status = "Succeeded"
      BY <1>2 DEF InputsKept, DependenciesSucceeded
    <2>1. d \in Ids(s)
      BY <1>2
    <2>2. s.tasks[t].status \in HasRun
      BY <1>1 DEF HasRun
    <2>3. s.tasks[d].status = "Succeeded"
      BY <1>0, <2>2 DEF InputsKept, DependenciesSucceeded
    <2>4. QED
      BY <1>1, <1>5, <2>1, <2>3
  <1>7. TeamOK(n)
    BY <1>1, <1>3, <1>4, <1>6, StatusesOK
  <1>8. Active(n) \subseteq Active(s)
    BY <1>0, <1>1, <1>2 DEF Active
  <1>9. QED
    BY <1>0, <1>2, <1>7, <1>8 DEF n
-----------------------------------------------------------------------------
(* Delegation.                                                               *)

LEMMA ChildlessBudget ==
    ASSUME NEW s \in TeamState, NEW a, Children(s, a) = {}
    PROVE  ChildBudgets(s, a) = NoBudget
  <1>1. PICK m : Measures(m, TokensOf(s), Len(s.agents))
    BY BudgetMeasures
  <1>2. PICK k : Measures(k, CallsOf(s), Len(s.agents))
    BY BudgetMeasures
  <1>3. Len(s.agents) \in Nat /\ DOMAIN s.agents = 1..Len(s.agents)
    BY AgentsShape
  <1>4. \A x : ChildBudgets(s, x) = [tokens |-> m[Children(s, x)], calls |-> k[Children(s, x)]]
    BY <1>1, <1>2, <1>3, ChildBudgetsAre
  <1>5. m[{}] = 0 /\ k[{}] = 0
    BY <1>1, <1>2 DEF Measures
  <1>6. QED
    BY <1>4, <1>5 DEF NoBudget

LEMMA NewTaskType ==
    ASSUME NEW s \in TeamState, NEW deps \in SUBSET Ids(s), NEW scope \in SUBSET Labels
    PROVE  /\ NewTask(deps, scope) \in Task
           /\ NewTask(deps, scope).deps = deps /\ NewTask(deps, scope).scope = scope
           /\ NewTask(deps, scope).status = "Pending"
  <1>1. deps \in SUBSET Nat
    BY AgentsShape
  <1>2. QED
    BY <1>1 DEF NewTask, Task, TaskStatus

LEMMA NewAgentType ==
    ASSUME NEW p \in Nat, NEW budget \in Budget, NEW caps \in SUBSET Caps
    PROVE  /\ NewAgent(p, budget, caps) \in Agent
           /\ NewAgent(p, budget, caps).parent = p
           /\ NewAgent(p, budget, caps).budget = budget
           /\ NewAgent(p, budget, caps).reserved = NoBudget
           /\ NewAgent(p, budget, caps).caps = caps
           /\ NewAgent(p, budget, caps).status = "Dormant"
  BY DEF NewAgent, Agent, AgentStatus, NoBudget, Budget

LEMMA PlusType ==
    ASSUME NEW x \in Budget, NEW y \in Budget
    PROVE  Plus(x, y) \in Budget
  BY DEF Plus, Budget

\* The state n a Delegation by p plans, field by field; l Agents before it.
Grants(s, p, deps, scope, budget, caps, n, l) ==
    /\ n \in TeamState /\ l \in Nat
    /\ DOMAIN s.agents = 1..l /\ Ids(s) = 1..l
    /\ DOMAIN n.agents = 1..(l + 1) /\ Ids(n) = 1..(l + 1)
    /\ \A t \in 1..l : n.tasks[t] = s.tasks[t]
    /\ n.tasks[l + 1] = NewTask(deps, scope)
    /\ n.agents[l + 1] = NewAgent(p, budget, caps)
    /\ \A a \in 1..l : /\ n.agents[a].parent = s.agents[a].parent
                       /\ n.agents[a].status = s.agents[a].status
                       /\ n.agents[a].budget = s.agents[a].budget
                       /\ n.agents[a].caps = s.agents[a].caps
                       /\ n.agents[a].reserved =
                            IF a = p THEN Plus(s.agents[p].reserved, budget)
                            ELSE s.agents[a].reserved

LEMMA GrantedFields ==
    ASSUME NEW s, Shape(s), NEW p \in DOMAIN s.agents, NEW deps \in SUBSET Ids(s),
           NEW scope \in SUBSET Labels, NEW budget \in Budget, NEW caps \in SUBSET Caps
    PROVE  Grants(s, p, deps, scope, budget, caps,
                  Granted(s, p, deps, scope, budget, caps), Len(s.agents))
  <1> DEFINE n == Granted(s, p, deps, scope, budget, caps)
             l == Len(s.agents)
  <1> DEFINE aa == [s.agents EXCEPT ![p].reserved = Plus(@, budget)]
             tt == Append(s.tasks, NewTask(deps, scope))
             nn == Append(aa, NewAgent(p, budget, caps))
  <1>1. /\ s \in TeamState /\ Len(s.agents) \in Nat /\ DOMAIN s.agents = 1..Len(s.agents)
        /\ Len(s.tasks) \in Nat /\ Ids(s) = 1..Len(s.tasks) /\ Ids(s) = DOMAIN s.tasks
        /\ DOMAIN s.agents = Ids(s)
        /\ \A x \in DOMAIN s.agents : s.agents[x] \in Agent
        /\ \A t \in Ids(s) : s.tasks[t] \in Task
        /\ s.tasks \in Seq(Task) /\ s.agents \in Seq(Agent)
    BY AgentsShape DEF Shape, Ids, TeamState
  <1>2. Len(s.tasks) = l
    BY <1>1
  <1>3. n = [s EXCEPT !.tasks = tt, !.agents = nn]
    BY DEF Granted
  <1>4. ASSUME NEW a \in 1..l
        PROVE  /\ aa[a] \in Agent
               /\ aa[a].parent = s.agents[a].parent /\ aa[a].budget = s.agents[a].budget
               /\ aa[a].status = s.agents[a].status /\ aa[a].caps = s.agents[a].caps
               /\ aa[a].reserved = IF a = p THEN Plus(s.agents[p].reserved, budget)
                                   ELSE s.agents[a].reserved
    <2>1. CASE a = p
      <3>1. aa[a] = [s.agents[a] EXCEPT !.reserved = Plus(s.agents[p].reserved, budget)]
        BY <1>1, <2>1
      <3>2. s.agents[p] \in Agent /\ s.agents[p].reserved \in Budget
        BY <1>1 DEF Agent
      <3>3. Plus(s.agents[p].reserved, budget) \in Budget
        BY <3>2, PlusType
      <3>4. QED
        BY <2>1, <3>1, <3>2, <3>3 DEF Agent
    <2>2. CASE a # p
      BY <1>1, <2>2
    <2>3. QED
      BY <2>1, <2>2
  <1>5. aa \in Seq(Agent) /\ Len(aa) = l
    <2>1. aa \in [1..l -> Agent]
      BY <1>1, <1>4
    <2> HIDE DEF aa
    <2>2. aa \in Seq(Agent) /\ DOMAIN aa = 1..l
      BY <1>1, <2>1, FcnIsSeq
    <2>3. QED
      BY <1>1, <2>2
  <1>6. NewTask(deps, scope) \in Task /\ NewAgent(p, budget, caps) \in Agent
    <2>1. p \in Nat
      BY <1>1
    <2>2. QED
      BY <1>1, <2>1, NewTaskType, NewAgentType
  <1> HIDE DEF aa
  <1>7. /\ tt \in Seq(Task) /\ DOMAIN tt = 1..(l + 1)
        /\ \A t \in 1..l : tt[t] = s.tasks[t]
        /\ tt[l + 1] = NewTask(deps, scope)
    BY <1>1, <1>2, <1>6
  <1>8. /\ nn \in Seq(Agent) /\ DOMAIN nn = 1..(l + 1)
        /\ \A a \in 1..l : nn[a] = aa[a]
        /\ nn[l + 1] = NewAgent(p, budget, caps)
    BY <1>1, <1>5, <1>6
  <1> HIDE DEF tt, nn
  <1>9. n \in TeamState /\ n.tasks = tt /\ n.agents = nn
    BY <1>1, <1>3, <1>7, <1>8 DEF TeamState
  <1>10. QED
    <2> HIDE DEF n, l
    <2>1. Ids(s) = 1..l /\ l \in Nat /\ DOMAIN s.agents = 1..l
      BY <1>1, <1>2 DEF l
    <2>2. Grants(s, p, deps, scope, budget, caps, n, l)
      BY <1>4, <1>7, <1>8, <1>9, <2>1 DEF Ids, Grants
    <2>3. QED
      BY <2>2 DEF n, l

\* A Delegation adds its budget to what the parent's children hold.
LEMMA GrantedBudgets ==
    ASSUME NEW s, Shape(s), Lineage(s), NEW p \in DOMAIN s.agents, NEW deps \in SUBSET Ids(s),
           NEW scope \in SUBSET Labels, NEW budget \in Budget, NEW caps \in SUBSET Caps,
           NEW n, n = Granted(s, p, deps, scope, budget, caps)
    PROVE  /\ ChildBudgets(n, Len(s.agents) + 1) = NoBudget
           /\ \A a \in DOMAIN s.agents : ChildBudgets(n, a) =
                IF a = p THEN Plus(ChildBudgets(s, a), budget) ELSE ChildBudgets(s, a)
  <1> DEFINE l == Len(s.agents)
  <1>0. l = Len(s.agents) /\ Grants(s, p, deps, scope, budget, caps, n, l)
    BY GrantedFields
  <1> HIDE DEF l
  <1>1. /\ n \in TeamState /\ l \in Nat
        /\ DOMAIN s.agents = 1..l
        /\ DOMAIN n.agents = 1..(l + 1)
        /\ n.agents[l + 1] = NewAgent(p, budget, caps)
        /\ \A a \in 1..l : /\ n.agents[a].parent = s.agents[a].parent
                           /\ n.agents[a].budget = s.agents[a].budget
    BY <1>0 DEF Grants
  <1>2. s \in TeamState
    BY DEF Shape
  <1>3. n.agents[l + 1].parent = p /\ n.agents[l + 1].budget = budget
    BY <1>1, NewAgentType
  <1>4. PICK m : Measures(m, TokensOf(n), l + 1)
    <2>1. Len(n.agents) = l + 1
      BY <1>1, AgentsShape
    <2>2. QED
      BY <1>1, <2>1, BudgetMeasures
  <1>5. PICK k : Measures(k, CallsOf(n), l + 1)
    <2>1. Len(n.agents) = l + 1
      BY <1>1, AgentsShape
    <2>2. QED
      BY <1>1, <2>1, BudgetMeasures
  <1>6. PICK h : Measures(h, TokensOf(s), l)
    BY <1>0, <1>2, BudgetMeasures
  <1>7. PICK g : Measures(g, CallsOf(s), l)
    BY <1>0, <1>2, BudgetMeasures
  <1>8. l \in 0..(l + 1) /\ l + 1 \in Nat
    BY <1>1
  <1>9. /\ \A i \in 1..l : TokensOf(s)[i] = TokensOf(n)[i] /\ CallsOf(s)[i] = CallsOf(n)[i]
        /\ TokensOf(n)[l + 1] = budget.tokens /\ CallsOf(n)[l + 1] = budget.calls
    BY <1>1, <1>3 DEF TokensOf, CallsOf
  <1>10. \A T \in SUBSET (1..l) : h[T] = m[T]
    BY <1>4, <1>6, <1>8, <1>9, MeasuresAgree
  <1>11. \A T \in SUBSET (1..l) : g[T] = k[T]
    BY <1>5, <1>7, <1>8, <1>9, MeasuresAgree
  <1>12. ASSUME NEW T \in SUBSET (1..l)
         PROVE  /\ T \in SUBSET (1..(l + 1)) /\ T \cup {l + 1} \in SUBSET (1..(l + 1))
                /\ (T \cup {l + 1}) \ {l + 1} = T
                /\ m[T \cup {l + 1}] = budget.tokens + m[T]
                /\ k[T \cup {l + 1}] = budget.calls + k[T]
    <2>1. T \in SUBSET (1..(l + 1)) /\ T \cup {l + 1} \in SUBSET (1..(l + 1))
      BY <1>1
    <2>2. (T \cup {l + 1}) \ {l + 1} = T
      BY <1>1
    <2>3. QED
      BY <1>4, <1>5, <1>9, <2>1, <2>2 DEF Measures
  <1>13. \A a : ChildBudgets(n, a) = [tokens |-> m[Children(n, a)], calls |-> k[Children(n, a)]]
    BY <1>1, <1>4, <1>5, <1>8, ChildBudgetsAre
  <1>14. \A a : ChildBudgets(s, a) = [tokens |-> h[Children(s, a)], calls |-> g[Children(s, a)]]
    BY <1>1, <1>2, <1>6, <1>7, ChildBudgetsAre
  <1>15. \A a : Children(s, a) \in SUBSET (1..l)
    BY <1>1 DEF Children
  <1>16. ASSUME NEW a \in 1..l, a # p
         PROVE  ChildBudgets(n, a) = ChildBudgets(s, a)
    <2>1. Children(n, a) = Children(s, a)
      BY <1>1, <1>3, <1>16 DEF Children
    <2>2. QED
      BY <1>10, <1>11, <1>13, <1>14, <1>15, <2>1
  <1>17. ChildBudgets(n, p) = Plus(ChildBudgets(s, p), budget)
    <2>1. Children(n, p) = Children(s, p) \cup {l + 1}
      BY <1>1, <1>3 DEF Children
    <2>2. /\ m[Children(n, p)] = budget.tokens + h[Children(s, p)]
          /\ k[Children(n, p)] = budget.calls + g[Children(s, p)]
      BY <1>10, <1>11, <1>12, <1>15, <2>1
    <2>3. h[Children(s, p)] \in Nat /\ g[Children(s, p)] \in Nat
      BY <1>6, <1>7, <1>15 DEF Measures
    <2>4. budget.tokens \in Nat /\ budget.calls \in Nat
      BY DEF Budget
    <2>5. QED
      BY <1>13, <1>14, <2>2, <2>3, <2>4 DEF Plus
  <1>18. ChildBudgets(n, l + 1) = NoBudget
    <2>1. \A c \in 1..l : s.agents[c].parent \in 0..l
      <3>1. \A c \in 1..l : s.agents[c].parent \in (1..l) \cup {0}
        BY <1>1 DEF Lineage
      <3>2. (1..l) \cup {0} = 0..l
        BY <1>1
      <3>3. QED
        BY <3>1, <3>2
    <2>2. Children(n, l + 1) = {}
      BY <1>1, <1>3, <2>1 DEF Children
    <2>3. QED
      BY <1>1, <2>2, ChildlessBudget
  <1>19. QED
    BY <1>0, <1>1, <1>16, <1>17, <1>18

\* DelegateTask keeps a Team sound: the authority and the budget handed down
\* come out of the parent's own.
LEMMA GrantedOK ==
    ASSUME NEW s, TeamOK(s), NEW p \in DOMAIN s.agents, s.agents[p].status = "Active",
           NEW deps \in SUBSET Ids(s), NEW scope \in SUBSET Labels,
           NEW budget \in Budget, NEW caps \in SUBSET Caps,
           scope \subseteq s.tasks[p].scope, caps \subseteq s.agents[p].caps,
           BudgetContains(s.agents[p].budget, Plus(s.agents[p].reserved, budget)),
           NEW n, n = Granted(s, p, deps, scope, budget, caps)
    PROVE  /\ TeamOK(n) /\ Active(n) = Active(s)
           /\ DOMAIN s.agents \subseteq DOMAIN n.agents /\ Len(s.agents) + 1 \in DOMAIN n.agents
  <1> DEFINE l == Len(s.agents)
  <1>0. /\ Shape(s) /\ Pairs(s) /\ Lineage(s) /\ Narrow(s) /\ BudgetsHeld(s)
        /\ NoOrphans(s) /\ InputsKept(s)
    BY DEF TeamOK
  <1>1. l = Len(s.agents) /\ Grants(s, p, deps, scope, budget, caps, n, l)
    BY <1>0, GrantedFields
  <1>2. /\ ChildBudgets(n, l + 1) = NoBudget
        /\ \A a \in DOMAIN s.agents : ChildBudgets(n, a) =
             IF a = p THEN Plus(ChildBudgets(s, a), budget) ELSE ChildBudgets(s, a)
    BY <1>0, GrantedBudgets
  <1> HIDE DEF l
  <1>3. /\ n \in TeamState /\ s \in TeamState /\ l \in Nat /\ p \in 1..l /\ p \in Nat
        /\ DOMAIN s.agents = 1..l /\ Ids(s) = 1..l
        /\ DOMAIN n.agents = 1..(l + 1) /\ Ids(n) = 1..(l + 1)
        /\ l + 1 \notin 1..l /\ l + 1 \in 1..(l + 1)
        /\ \A x \in 1..(l + 1) : x \in 1..l \/ x = l + 1
        /\ \A x \in 1..l : x \in 1..(l + 1) /\ x # l + 1
    BY <1>0, <1>1 DEF Grants, Shape
  <1>4. \A t \in 1..l : n.tasks[t] = s.tasks[t] /\ s.tasks[t].deps \subseteq 1..l
    BY <1>0, <1>1, <1>3 DEF Grants, Shape
  <1>5. /\ n.tasks[l + 1].deps = deps /\ n.tasks[l + 1].scope = scope
        /\ n.tasks[l + 1].status = "Pending"
    BY <1>1, <1>3, NewTaskType DEF Grants
  <1>6. /\ n.agents[l + 1].parent = p /\ n.agents[l + 1].budget = budget
        /\ n.agents[l + 1].reserved = NoBudget /\ n.agents[l + 1].caps = caps
        /\ n.agents[l + 1].status = "Dormant"
    BY <1>1, <1>3, NewAgentType DEF Grants
  <1>7. \A a \in 1..l : /\ n.agents[a].parent = s.agents[a].parent
                        /\ n.agents[a].status = s.agents[a].status
                        /\ n.agents[a].budget = s.agents[a].budget
                        /\ n.agents[a].caps = s.agents[a].caps
                        /\ s.agents[a].parent \in (1..l) \cup {0}
    BY <1>0, <1>1, <1>3 DEF Grants, Lineage
  <1>8. /\ n.agents[p].reserved = Plus(s.agents[p].reserved, budget)
        /\ \A a \in 1..l : a # p => n.agents[a].reserved = s.agents[a].reserved
    BY <1>1, <1>3 DEF Grants
  <1>9. Shape(n)
    <2>1. \A t \in 1..(l + 1) : n.tasks[t].deps \subseteq 1..(l + 1)
      BY <1>3, <1>4, <1>5
    <2>2. QED
      BY <1>3, <2>1 DEF Shape
  <1>10. Pairs(n)
    <2>1. Paired("Pending", "Dormant")
      BY DEF Paired
    <2>2. \A t \in 1..l : Paired(s.tasks[t].status, s.agents[t].status)
      BY <1>0, <1>3 DEF Pairs
    <2>3. Ids(n) = 1..(l + 1) /\ \A x \in 1..(l + 1) : x = l + 1 \/ x \in 1..l
      BY <1>3
    <2>4. \A t \in 1..l : Paired(n.tasks[t].status, n.agents[t].status)
      BY <1>4, <1>7, <2>2
    <2>5. Paired(n.tasks[l + 1].status, n.agents[l + 1].status)
      BY <1>5, <1>6, <2>1
    <2>6. QED
      BY <2>3, <2>4, <2>5 DEF Pairs
  <1>11. Lineage(n)
    BY <1>3, <1>6, <1>7, SMTT(20) DEF Lineage
  <1>12. Narrow(n)
    <2>1. ASSUME NEW a \in 1..l, n.agents[a].parent # 0
          PROVE  /\ n.tasks[a].scope \subseteq n.tasks[n.agents[a].parent].scope
                 /\ n.agents[a].caps \subseteq n.agents[n.agents[a].parent].caps
      <3>1. n.agents[a].parent = s.agents[a].parent /\ s.agents[a].parent \in 1..l
        BY <1>7, <2>1
      <3>2. /\ s.tasks[a].scope \subseteq s.tasks[s.agents[a].parent].scope
            /\ s.agents[a].caps \subseteq s.agents[s.agents[a].parent].caps
        BY <1>0, <1>3, <2>1, <3>1 DEF Narrow
      <3>3. /\ n.tasks[a] = s.tasks[a]
            /\ n.tasks[s.agents[a].parent] = s.tasks[s.agents[a].parent]
            /\ n.agents[a].caps = s.agents[a].caps
            /\ n.agents[s.agents[a].parent].caps = s.agents[s.agents[a].parent].caps
        BY <1>4, <1>7, <3>1
      <3>4. QED
        BY <3>1, <3>2, <3>3
    <2>2. /\ n.tasks[l + 1].scope \subseteq n.tasks[n.agents[l + 1].parent].scope
          /\ n.agents[l + 1].caps \subseteq n.agents[n.agents[l + 1].parent].caps
      BY <1>3, <1>4, <1>5, <1>6, <1>7
    <2>3. QED
      BY <1>3, <2>1, <2>2 DEF Narrow
  <1>13. BudgetsHeld(n)
    <2>1. ASSUME NEW a \in 1..l, a # p
          PROVE  /\ BudgetContains(n.agents[a].budget, n.agents[a].reserved)
                 /\ n.agents[a].reserved = ChildBudgets(n, a)
      BY <1>0, <1>2, <1>3, <1>7, <1>8, <2>1 DEF BudgetsHeld
    <2>2. /\ BudgetContains(n.agents[p].budget, n.agents[p].reserved)
          /\ n.agents[p].reserved = ChildBudgets(n, p)
      BY <1>0, <1>2, <1>3, <1>7, <1>8 DEF BudgetsHeld
    <2>3. /\ BudgetContains(n.agents[l + 1].budget, n.agents[l + 1].reserved)
          /\ n.agents[l + 1].reserved = ChildBudgets(n, l + 1)
      <3>1. BudgetContains(budget, NoBudget)
        BY DEF BudgetContains, NoBudget, Budget
      <3>2. QED
        BY <1>2, <1>6, <3>1
    <2>4. QED
      BY <1>3, <2>1, <2>2, <2>3 DEF BudgetsHeld
  <1>14. NoOrphans(n)
    <2> SUFFICES ASSUME NEW x \in 1..(l + 1), n.agents[x].status \in Terminal,
                        NEW c \in 1..(l + 1), n.agents[c].parent = x
                 PROVE  n.agents[c].status \in Terminal
      BY <1>3 DEF NoOrphans, OutstandingChildren, Children
    <2>1. x \in 1..l
      BY <1>3, <1>6 DEF Terminal
    <2>2. c \in 1..l
      BY <1>3, <1>6, <1>7, <2>1 DEF Terminal
    <2>3. OutstandingChildren(s, x) = {}
      BY <1>0, <1>3, <1>7, <2>1 DEF NoOrphans
    <2>4. QED
      BY <1>3, <1>7, <2>2, <2>3 DEF OutstandingChildren, Children
  <1>15. InputsKept(n)
    <2> SUFFICES ASSUME NEW t \in 1..(l + 1), n.tasks[t].status \in HasRun,
                        NEW d \in n.tasks[t].deps
                 PROVE  n.tasks[d].status = "Succeeded"
      BY <1>3 DEF InputsKept, DependenciesSucceeded
    <2>1. t \in 1..l
      BY <1>3, <1>5 DEF HasRun
    <2>2. d \in 1..l /\ s.tasks[d].status = "Succeeded"
      BY <1>0, <1>3, <1>4, <2>1 DEF InputsKept, DependenciesSucceeded
    <2>3. QED
      BY <1>4, <2>2
  <1>16. Active(n) = Active(s)
    BY <1>3, <1>6, <1>7 DEF Active
  <1>17. TeamOK(n)
    BY <1>9, <1>10, <1>11, <1>12, <1>13, <1>14, <1>15 DEF TeamOK
  <1>18. QED
    BY <1>1, <1>3, <1>16, <1>17

\* AdmitRoot, as a plan.
Rooted(s, deps, scope, budget, caps) ==
    [s EXCEPT !.tasks = Append(@, NewTask(deps, scope)),
              !.agents = Append(@, NewAgent(0, budget, caps))]

\* The first Agent has no parent, no children and no dependencies.
LEMMA RootedOK ==
    ASSUME NEW s, TeamOK(s), s.agents = <<>>, NEW deps \in SUBSET Ids(s),
           NEW scope \in SUBSET Labels, NEW budget \in Budget, NEW caps \in SUBSET Caps,
           NEW n, n = Rooted(s, deps, scope, budget, caps)
    PROVE  /\ TeamOK(n) /\ Active(n) = {}
           /\ DOMAIN s.agents \subseteq DOMAIN n.agents /\ 1 \in DOMAIN n.agents
  <1>1. /\ s \in TeamState /\ DOMAIN s.agents = {} /\ Ids(s) = {} /\ deps = {}
        /\ Len(s.tasks) = 0 /\ s.tasks \in Seq(Task) /\ s.agents \in Seq(Agent)
    <2>1. s \in TeamState /\ DOMAIN s.agents = Ids(s)
      BY DEF TeamOK, Shape
    <2>2. DOMAIN s.agents = {} /\ Ids(s) = {} /\ deps = {}
      BY <2>1
    <2>3. s.tasks \in Seq(Task) /\ s.agents \in Seq(Agent)
      BY <2>1 DEF TeamState
    <2>4. Len(s.tasks) = 0
      <3>1. Len(s.tasks) \in Nat /\ 1..Len(s.tasks) = {}
        BY <2>1, <2>2, AgentsShape
      <3>2. Len(s.tasks) > 0 => 1 \in 1..Len(s.tasks)
        BY <3>1
      <3>3. QED
        BY <3>1, <3>2
    <2>5. QED
      BY <2>1, <2>2, <2>3, <2>4
  <1>2. /\ NewTask(deps, scope) \in Task /\ NewTask(deps, scope).deps = {}
        /\ NewTask(deps, scope).status = "Pending"
    BY <1>1, NewTaskType
  <1>3. /\ NewAgent(0, budget, caps) \in Agent /\ NewAgent(0, budget, caps).parent = 0
        /\ NewAgent(0, budget, caps).budget = budget
        /\ NewAgent(0, budget, caps).reserved = NoBudget
        /\ NewAgent(0, budget, caps).status = "Dormant"
    BY NewAgentType
  <1> DEFINE tt == Append(s.tasks, NewTask(deps, scope))
             aa == Append(s.agents, NewAgent(0, budget, caps))
  <1>4. tt \in Seq(Task) /\ DOMAIN tt = {1} /\ tt[1] = NewTask(deps, scope)
    BY <1>1, <1>2
  <1>5. aa \in Seq(Agent) /\ DOMAIN aa = {1} /\ aa[1] = NewAgent(0, budget, caps)
    <2>1. Len(s.agents) = 0
      OBVIOUS
    <2>2. QED
      BY <1>1, <1>3, <2>1
  <1>6. n = [s EXCEPT !.tasks = tt, !.agents = aa]
    BY Zenon DEF Rooted
  <1> HIDE DEF tt, aa
  <1>7. n \in TeamState /\ n.tasks = tt /\ n.agents = aa
    BY <1>1, <1>4, <1>5, <1>6 DEF TeamState
  <1>8. /\ Ids(n) = {1} /\ DOMAIN n.agents = {1}
        /\ n.tasks[1].deps = {} /\ n.tasks[1].status = "Pending"
        /\ n.agents[1].parent = 0 /\ n.agents[1].budget = budget
        /\ n.agents[1].reserved = NoBudget /\ n.agents[1].status = "Dormant"
    BY <1>2, <1>3, <1>4, <1>5, <1>7 DEF Ids
  <1>9. ChildBudgets(n, 1) = NoBudget
    <2>1. Children(n, 1) = {}
      BY <1>8 DEF Children
    <2>2. QED
      BY <1>7, <2>1, ChildlessBudget
  <1>10. BudgetContains(budget, NoBudget)
    BY DEF BudgetContains, NoBudget, Budget
  <1>11. Shape(n) /\ Pairs(n) /\ Lineage(n) /\ Narrow(n)
    BY <1>7, <1>8 DEF Shape, Pairs, Paired, Lineage, Narrow
  <1>12. BudgetsHeld(n)
    BY <1>8, <1>9, <1>10 DEF BudgetsHeld
  <1>13. NoOrphans(n) /\ InputsKept(n)
    BY <1>8 DEF NoOrphans, Terminal, InputsKept, HasRun
  <1>14. TeamOK(n)
    BY <1>11, <1>12, <1>13 DEF TeamOK
  <1>15. Active(n) = {}
    BY <1>8 DEF Active
  <1>16. QED
    BY <1>1, <1>8, <1>14, <1>15

-----------------------------------------------------------------------------
(* Transactions.                                                             *)

LEMMA LimitType ==
    ASSUME NEW l \in Limits
    PROVE  l \in Nat /\ l >= 1
  BY LimitsAssumption

\* recover's running limit covers the new state, stays within the limit of
\* this open, and under it the new state is quiescent.
LEMMA ReplayedOK ==
    ASSUME TeamInv, mode = "open", NEW n, TeamOK(n), Cardinality(Active(n)) <= limit,
           Quiescent(n, limit)
    PROVE  /\ Replayed(n) \in [limit : Nat, ok : BOOLEAN] /\ Replayed(n).ok
           /\ Cardinality(Active(n)) <= Replayed(n).limit /\ Replayed(n).limit <= limit
  <1> DEFINE c == Cardinality(Active(n))
             peak == Max({replay.limit, c})
  <1>1. /\ c \in Nat /\ replay.limit \in Nat /\ limit \in Nat /\ replay.ok
        /\ replay.limit <= limit
    BY ActiveFinite, LimitType DEF TeamOK, Shape, TeamInv, TypeOK
  <1>2. peak \in {replay.limit, c} /\ peak >= replay.limit /\ peak >= c
    <2>1. \E x \in {replay.limit, c} : \A y \in {replay.limit, c} : x >= y
      BY <1>1
    <2>2. QED
      BY <2>1 DEF Max
  <1>3. peak \in Nat /\ peak <= limit /\ c <= peak
    BY <1>1, <1>2
  <1>4. Replayed(n) = [limit |-> peak, ok |-> replay.ok /\ Quiescent(n, peak)]
    BY DEF Replayed
  <1> HIDE DEF peak
  <1>5. Quiescent(n, peak)
    BY <1>1, <1>3 DEF Quiescent
  <1>6. (replay.ok /\ Quiescent(n, peak)) = TRUE
    BY <1>1, <1>5, Zenon
  <1>7. Replayed(n) = [limit |-> peak, ok |-> TRUE]
    BY <1>4, <1>6, Zenon
  <1>8. QED
    BY <1>3, <1>7

\* Whether the append is acknowledged or its writer is poisoned, the invariant
\* survives the transaction.
LEMMA AppendInv ==
    ASSUME TeamInv, mode = "open", NEW n, TeamOK(n), Cardinality(Active(n)) <= limit,
           Quiescent(n, limit), NEW issued \in SUBSET DOMAIN n.agents,
           DOMAIN live.agents \subseteq DOMAIN n.agents,
           AppendPrepared(n, issued), limit' = limit
    PROVE  TeamInv'
  <1>1. /\ Replayed(n) \in [limit : Nat, ok : BOOLEAN] /\ Replayed(n).ok
        /\ Cardinality(Active(n)) <= Replayed(n).limit /\ Replayed(n).limit <= limit
    BY ReplayedOK
  <1>2. n \in TeamState
    BY DEF TeamOK, Shape
  <1>3. CASE /\ durable' = n /\ replay' = Replayed(n)
             /\ Publish(n, issued) /\ mode' = mode
    <2>1. /\ live' = n /\ durable' = n /\ replay' = Replayed(n) /\ mode' = "open"
          /\ sessions' = sessions \cup issued /\ reply' = "committed"
      BY <1>3 DEF Publish
    <2>2. sessions' \subseteq DOMAIN live'.agents
      BY <2>1 DEF TeamInv, TypeOK
    <2>3. TypeOK'
      BY <1>1, <1>2, <2>1, <2>2 DEF TeamInv, TypeOK
    <2>4. TeamOK(live') /\ TeamOK(durable')
      BY <2>1
    <2>5. Cardinality(Active(live')) <= limit' /\ Cardinality(Active(durable')) <= replay'.limit
      BY <1>1, <2>1
    <2>6. QED
      BY <1>1, <2>1, <2>3, <2>4, <2>5 DEF TeamInv
  <1>4. CASE /\ durable' = n /\ replay' = Replayed(n)
             /\ mode' = "poisoned" /\ reply' = "ledger error" /\ UNCHANGED <<live, sessions>>
    <2>1. TypeOK'
      BY <1>1, <1>2, <1>4 DEF TeamInv, TypeOK
    <2>2. TeamOK(live') /\ TeamOK(durable')
      BY <1>4 DEF TeamInv
    <2>3. Cardinality(Active(durable')) <= replay'.limit
      BY <1>1, <1>4
    <2>4. QED
      BY <1>1, <1>4, <2>1, <2>2, <2>3 DEF TeamInv
  <1>5. CASE /\ UNCHANGED <<durable, replay>>
             /\ mode' = "poisoned" /\ reply' = "ledger error" /\ UNCHANGED <<live, sessions>>
    <2>1. TypeOK'
      BY <1>5 DEF TeamInv, TypeOK
    <2>2. TeamOK(live') /\ TeamOK(durable') /\ Cardinality(Active(durable')) <= replay'.limit
      BY <1>5 DEF TeamInv
    <2>3. QED
      BY <1>5, <2>1, <2>2 DEF TeamInv
  <1>6. QED
    BY <1>3, <1>4, <1>5 DEF AppendPrepared

\* A command whose plan is sound and within the limit is committed: after
\* reconcile no check refuses it.
LEMMA DispatchInv ==
    ASSUME TeamInv, mode = "open", NEW planned, TeamOK(planned),
           Cardinality(Active(planned)) <= limit,
           NEW issued \in SUBSET DOMAIN planned.agents,
           DOMAIN live.agents \subseteq DOMAIN planned.agents, Dispatch(planned, issued)
    PROVE  TeamInv'
  <1>1. limit \in Nat
    BY LimitType DEF TeamInv, TypeOK
  <1> DEFINE c == OperationCommitted(planned)
  <1>2. /\ TeamOK(c) /\ Active(c) = Active(planned) /\ Verdicts(c) = Verdicts(planned)
        /\ DOMAIN c.agents = DOMAIN planned.agents
    BY CommittedFields, CountersOK DEF TeamOK, Shape
  <1>3. PICK v \in Verdicts(planned) :
            LET n == Reconciled(c, v, limit)
            IN  IF Valid(n, limit) /\ Quiescent(n, limit)
                THEN AppendPrepared(n, issued)
                ELSE Refuse("command invalid")
    BY Zenon DEF Dispatch
  <1> DEFINE n == Reconciled(c, v, limit)
  <1>4. IF Valid(n, limit) /\ Quiescent(n, limit)
        THEN AppendPrepared(n, issued) ELSE Refuse("command invalid")
    BY <1>3
  <1> HIDE DEF c
  <1>5. /\ TeamOK(n) /\ SameDelegations(c, n) /\ Cardinality(Active(n)) <= limit
        /\ Quiescent(n, limit)
    BY <1>1, <1>2, ReconciledOK
  <1> HIDE DEF n
  <1>6. Valid(n, limit)
    BY <1>5, SoundIsValid
  <1>7. AppendPrepared(n, issued)
    BY <1>4, <1>5, <1>6
  <1>8. DOMAIN n.agents = DOMAIN planned.agents
    BY <1>2, <1>5 DEF SameDelegations
  <1>9. limit' = limit
    BY DEF Dispatch
  <1>10. QED
    BY <1>5, <1>7, <1>8, <1>9, AppendInv

-----------------------------------------------------------------------------
(* One lemma per command.                                                    *)

LEMMA OpenFacts ==
    ASSUME TeamInv, mode = "open"
    PROVE  /\ TeamOK(live) /\ live \in TeamState /\ Shape(live)
           /\ DOMAIN live.agents = Ids(live)
           /\ limit \in Nat /\ Cardinality(Active(live)) \in Nat
           /\ Cardinality(Active(live)) <= limit /\ IsFiniteSet(Active(live))
  BY LimitType, ActiveFinite DEF TeamInv, TypeOK, TeamOK, Shape

LEMMA FewerActive ==
    ASSUME TeamInv, mode = "open", NEW n, Active(n) \subseteq Active(live)
    PROVE  Cardinality(Active(n)) <= limit
  <1>1. /\ limit \in Nat /\ Cardinality(Active(live)) \in Nat
        /\ Cardinality(Active(live)) <= limit /\ IsFiniteSet(Active(live))
    BY OpenFacts
  <1>2. /\ IsFiniteSet(Active(n)) /\ Cardinality(Active(n)) <= Cardinality(Active(live))
    BY <1>1, FS_Subset
  <1>3. Cardinality(Active(n)) \in Nat
    BY <1>2, FS_CardinalityType
  <1>4. QED
    BY <1>1, <1>2, <1>3

LEMMA AdmitRootInv ==
    ASSUME TeamInv, AdmitRoot
    PROVE  TeamInv'
  <1>1. PICK task \in TaskSpecs(live), caps \in SUBSET Caps, budget \in ValidBudgets :
            Dispatch([live EXCEPT !.tasks = Append(@, NewTask(task.deps, task.scope)),
                                  !.agents = Append(@, NewAgent(0, budget, caps))], {1})
    BY DEF AdmitRoot
  <1>2. mode = "open" /\ live.agents = <<>>
    BY DEF AdmitRoot, Ready
  <1>3. task.deps \in SUBSET Ids(live) /\ task.scope \in SUBSET Labels
    BY DEF TaskSpecs
  <1>4. budget \in Budget
    BY BudgetsAssumption DEF ValidBudgets
  <1> DEFINE n == Rooted(live, task.deps, task.scope, budget, caps)
  <1>5. Dispatch(n, {1})
    BY <1>1, Zenon DEF Rooted
  <1>6. /\ TeamOK(live) /\ limit \in Nat
    BY <1>2, OpenFacts
  <1>7. /\ TeamOK(n) /\ Active(n) = {}
        /\ DOMAIN live.agents \subseteq DOMAIN n.agents /\ 1 \in DOMAIN n.agents
    BY <1>2, <1>3, <1>4, <1>6, RootedOK
  <1> HIDE DEF n
  <1>8. Cardinality(Active(n)) <= limit
    BY <1>6, <1>7, FS_EmptySet
  <1>9. QED
    BY <1>2, <1>5, <1>7, <1>8, DispatchInv

LEMMA DelegateInv ==
    ASSUME TeamInv, Delegate
    PROVE  TeamInv'
  <1>1. mode = "open"
    BY DEF Delegate, Ready
  <1>2. PICK p \in sessions : RequireActive(p) /\
            \E task \in TaskSpecs(live), budget \in ValidBudgets, caps \in SUBSET Caps :
                /\ MayDelegate(p, task.deps, task.scope, budget, caps)
                /\ Dispatch(Granted(live, p, task.deps, task.scope, budget, caps),
                            {Len(live.agents) + 1})
    BY DEF Delegate
  <1>3. PICK task \in TaskSpecs(live), budget \in ValidBudgets, caps \in SUBSET Caps :
                /\ MayDelegate(p, task.deps, task.scope, budget, caps)
                /\ Dispatch(Granted(live, p, task.deps, task.scope, budget, caps),
                            {Len(live.agents) + 1})
    BY <1>2
  <1>4. p \in DOMAIN live.agents /\ live.agents[p].status = "Active"
    BY <1>2 DEF RequireActive, Authenticated
  <1>5. task.deps \in SUBSET Ids(live) /\ task.scope \in SUBSET Labels
    BY DEF TaskSpecs
  <1>6. budget \in Budget
    BY BudgetsAssumption DEF ValidBudgets
  <1>7. /\ task.scope \subseteq live.tasks[p].scope /\ caps \subseteq live.agents[p].caps
        /\ BudgetContains(live.agents[p].budget, Plus(live.agents[p].reserved, budget))
    BY <1>3 DEF MayDelegate
  <1> DEFINE n == Granted(live, p, task.deps, task.scope, budget, caps)
  <1>8. Dispatch(n, {Len(live.agents) + 1})
    BY <1>3
  <1>9. TeamOK(live)
    BY <1>1, OpenFacts
  <1>10. /\ TeamOK(n) /\ Active(n) = Active(live)
         /\ DOMAIN live.agents \subseteq DOMAIN n.agents /\ Len(live.agents) + 1 \in DOMAIN n.agents
    BY <1>4, <1>5, <1>6, <1>7, <1>9, GrantedOK
  <1> HIDE DEF n
  <1>11. Cardinality(Active(n)) <= limit
    BY <1>1, <1>10, OpenFacts
  <1>12. QED
    BY <1>1, <1>8, <1>10, <1>11, DispatchInv

LEMMA SendMessageInv ==
    ASSUME TeamInv, SendMessage
    PROVE  TeamInv'
  <1>1. mode = "open" /\ Dispatch(MessageSent(live), {})
    BY DEF SendMessage, Ready
  <1>2. TeamOK(live) /\ live \in TeamState /\ Cardinality(Active(live)) <= limit
    BY <1>1, OpenFacts
  <1>3. /\ MessageSent(live) \in TeamState
        /\ MessageSent(live).tasks = live.tasks /\ MessageSent(live).agents = live.agents
    BY <1>2, MessageFields
  <1>4. /\ TeamOK(MessageSent(live)) /\ Active(MessageSent(live)) = Active(live)
        /\ DOMAIN MessageSent(live).agents = DOMAIN live.agents
    BY <1>2, <1>3, CountersOK
  <1>5. Cardinality(Active(MessageSent(live))) <= limit
    BY <1>2, <1>4
  <1>6. QED
    BY <1>1, <1>4, <1>5, DispatchInv

\* Complete, Fail and Cancel.
LEMMA FinishInv ==
    ASSUME TeamInv, mode = "open", NEW a \in DOMAIN live.agents,
           live.agents[a].status \notin Terminal, OutstandingChildren(live, a) = {},
           NEW st \in Terminal, live.agents[a].status = "Active" \/ st = "Cancelled",
           Dispatch(Finished(live, a, st), {})
    PROVE  TeamInv'
  <1>1. TeamOK(live)
    BY OpenFacts
  <1>2. /\ TeamOK(Finished(live, a, st)) /\ Active(Finished(live, a, st)) \subseteq Active(live)
        /\ DOMAIN Finished(live, a, st).agents = DOMAIN live.agents
    BY <1>1, FinishedOK
  <1>3. Cardinality(Active(Finished(live, a, st))) <= limit
    BY <1>2, FewerActive
  <1>4. QED
    BY <1>2, <1>3, DispatchInv

LEMMA CompleteInv ==
    ASSUME TeamInv, Complete
    PROVE  TeamInv'
  <1>1. mode = "open"
    BY DEF Complete, Ready
  <1>2. PICK a \in sessions : /\ RequireActive(a) /\ OutstandingChildren(live, a) = {}
                              /\ Dispatch(Finished(live, a, "Succeeded"), {})
    BY DEF Complete
  <1>3. a \in DOMAIN live.agents /\ live.agents[a].status = "Active"
    BY <1>2 DEF RequireActive, Authenticated
  <1>4. "Active" \notin Terminal /\ "Succeeded" \in Terminal
    BY DEF Terminal
  <1>5. QED
    BY <1>1, <1>2, <1>3, <1>4, FinishInv

LEMMA FailInv ==
    ASSUME TeamInv, Fail
    PROVE  TeamInv'
  <1>1. mode = "open"
    BY DEF Fail, Ready
  <1>2. PICK a \in sessions : /\ RequireActive(a) /\ OutstandingChildren(live, a) = {}
                              /\ Dispatch(Finished(live, a, "Failed"), {})
    BY DEF Fail
  <1>3. a \in DOMAIN live.agents /\ live.agents[a].status = "Active"
    BY <1>2 DEF RequireActive, Authenticated
  <1>4. "Active" \notin Terminal /\ "Failed" \in Terminal
    BY DEF Terminal
  <1>5. QED
    BY <1>1, <1>2, <1>3, <1>4, FinishInv

LEMMA CancelInv ==
    ASSUME TeamInv, Cancel
    PROVE  TeamInv'
  <1>1. mode = "open"
    BY DEF Cancel, Ready
  <1>2. PICK a \in sessions : /\ Authenticated(a) /\ live.agents[a].status \notin Terminal
                              /\ OutstandingChildren(live, a) = {}
                              /\ Dispatch(Finished(live, a, "Cancelled"), {})
    BY DEF Cancel
  <1>3. a \in DOMAIN live.agents /\ "Cancelled" \in Terminal
    BY <1>2 DEF Authenticated, Terminal
  <1>4. QED
    BY <1>1, <1>2, <1>3, FinishInv

LEMMA RetryInv ==
    ASSUME TeamInv, Retry
    PROVE  TeamInv'
  <1>1. mode = "open"
    BY DEF Retry, Ready
  <1>2. PICK r \in sessions : RequireActive(r) /\
            \E c \in Children(live, r) :
                /\ live.agents[c].status \in Retriable
                /\ ~FailedDependency(live, c)
                /\ OutstandingChildren(live, c) = {}
                /\ Dispatch(Requeued(live, c), {})
    BY DEF Retry
  <1>3. PICK c \in Children(live, r) : /\ live.agents[c].status \in Retriable
                                       /\ Dispatch(Requeued(live, c), {})
    BY <1>2
  <1>4. r \in DOMAIN live.agents /\ live.agents[r].status = "Active"
    BY <1>2 DEF RequireActive, Authenticated
  <1>5. TeamOK(live)
    BY <1>1, OpenFacts
  <1>6. /\ TeamOK(Requeued(live, c)) /\ Active(Requeued(live, c)) \subseteq Active(live)
        /\ DOMAIN Requeued(live, c).agents = DOMAIN live.agents
    BY <1>3, <1>4, <1>5, RequeuedOK
  <1>7. Cardinality(Active(Requeued(live, c))) <= limit
    BY <1>1, <1>6, FewerActive
  <1>8. QED
    BY <1>1, <1>3, <1>6, <1>7, DispatchInv

\* A refused acknowledgement changes the answer and nothing else.
LEMMA AcknowledgeInv ==
    ASSUME TeamInv, Acknowledge
    PROVE  TeamInv'
  <1> DEFINE c == OperationAcknowledged(live)
  <1>1. mode = "open" /\ limit' = limit
    BY DEF Acknowledge
  <1>2. /\ TeamOK(live) /\ live \in TeamState /\ limit \in Nat
        /\ Cardinality(Active(live)) <= limit
    BY <1>1, OpenFacts
  <1>3. /\ TeamOK(c) /\ Active(c) = Active(live) /\ DOMAIN c.agents = DOMAIN live.agents
    BY <1>2, AcknowledgedFields, CountersOK
  <1>4. PICK v \in Verdicts(c) :
            LET n == Reconciled(c, v, limit)
            IN  IF Valid(n, limit) /\ Quiescent(n, limit) /\ OwnTransaction(c, n)
                THEN AppendPrepared(n, {})
                ELSE Refuse("acknowledgement refused")
    BY Zenon DEF Acknowledge
  <1> DEFINE n == Reconciled(c, v, limit)
  <1>5. AppendPrepared(n, {}) \/ Refuse("acknowledgement refused")
    BY <1>4
  <1> HIDE DEF c
  <1>6. /\ TeamOK(n) /\ SameDelegations(c, n) /\ Cardinality(Active(n)) <= limit
        /\ Quiescent(n, limit)
    BY <1>2, <1>3, ReconciledOK
  <1> HIDE DEF n
  <1>7. CASE AppendPrepared(n, {})
    <2>1. DOMAIN n.agents = DOMAIN live.agents
      BY <1>3, <1>6 DEF SameDelegations
    <2>2. QED
      BY <1>1, <1>6, <1>7, <2>1, AppendInv
  <1>8. CASE Refuse("acknowledgement refused")
    BY <1>1, <1>8 DEF Refuse, TeamInv, TypeOK
  <1>9. QED
    BY <1>5, <1>7, <1>8

LEMMA OpenTeamInv ==
    ASSUME TeamInv, OpenTeam
    PROVE  TeamInv'
  <1>1. PICK max \in Limits :
            /\ Recoverable(max) /\ limit' = max /\ live' = durable
            /\ sessions' = {a \in DOMAIN durable.agents : durable.agents[a].status \notin Terminal}
    BY DEF OpenTeam
  <1>2. mode' = "open" /\ reply' = "opened" /\ durable' = durable /\ replay' = replay
    BY DEF OpenTeam
  <1>3. replay.limit <= max /\ max \in Nat
    BY <1>1, LimitType DEF Recoverable
  <1>4. Cardinality(Active(durable)) \in Nat /\ replay.limit \in Nat
    BY ActiveFinite DEF TeamInv, TypeOK
  <1>5. sessions' \subseteq DOMAIN live'.agents
    BY <1>1
  <1>6. TypeOK'
    BY <1>1, <1>2, <1>5 DEF TeamInv, TypeOK
  <1>7. TeamOK(live') /\ TeamOK(durable') /\ replay'.ok
        /\ Cardinality(Active(durable')) <= replay'.limit
    BY <1>1, <1>2 DEF TeamInv
  <1>8. live' = durable' /\ replay'.limit <= limit'
    BY <1>1, <1>2, <1>3
  <1>9. Cardinality(Active(live')) <= limit'
    <2>1. Cardinality(Active(durable)) <= replay.limit
      BY DEF TeamInv
    <2>2. Cardinality(Active(durable)) <= max
      BY <1>3, <1>4, <2>1
    <2>3. QED
      BY <1>1, <2>2
  <1>10. QED
    BY <1>2, <1>6, <1>7, <1>8, <1>9 DEF TeamInv

LEMMA EmptyTeamOK ==
    TeamOK(EmptyTeam) /\ Active(EmptyTeam) = {} /\ Cardinality(Active(EmptyTeam)) = 0
  <1>1. /\ EmptyTeam \in TeamState
        /\ DOMAIN EmptyTeam.agents = {} /\ Ids(EmptyTeam) = {}
    BY DEF EmptyTeam, TeamState, Ids
  <1>2. Active(EmptyTeam) = {}
    BY <1>1 DEF Active
  <1>3. TeamOK(EmptyTeam)
    BY <1>1 DEF TeamOK, Shape, Pairs, Lineage, Narrow, BudgetsHeld, NoOrphans, InputsKept
  <1>4. QED
    BY <1>2, <1>3, FS_EmptySet

LEMMA CrashInv ==
    ASSUME TeamInv, Crash
    PROVE  TeamInv'
  <1>1. /\ live' = EmptyTeam /\ reply' = "none" /\ mode' = "closed" /\ sessions' = {}
        /\ durable' = durable /\ limit' = limit /\ replay' = replay
    BY DEF Crash, Closed
  <1>2. TeamOK(EmptyTeam) /\ EmptyTeam \in TeamState
    BY EmptyTeamOK DEF TeamOK, Shape
  <1>3. TypeOK'
    BY <1>1, <1>2 DEF TeamInv, TypeOK
  <1>4. QED
    BY <1>1, <1>2, <1>3 DEF TeamInv

LEMMA InitInv ==
    ASSUME Init
    PROVE  TeamInv
  <1>1. TeamOK(EmptyTeam) /\ EmptyTeam \in TeamState /\ Cardinality(Active(EmptyTeam)) = 0
    BY EmptyTeamOK DEF TeamOK, Shape
  <1>2. TypeOK
    BY <1>1 DEF Init, TypeOK
  <1>3. QED
    BY <1>1, <1>2 DEF Init, TeamInv

-----------------------------------------------------------------------------
(* Theorems.                                                                 *)

\* Whatever the limits a Team is opened with, however its appends fail and
\* whenever it crashes, the published and the durable state stay sound: Tasks
\* paired with Owners, reserved budgets equal to the Delegations, no terminal
\* Agent with a live child, no running Task without its inputs.
THEOREM TeamInvariant == Spec => []TeamInv
  <1>1. Init => TeamInv
    BY InitInv
  <1>2. TeamInv /\ [Next]_vars => TeamInv'
    <2> SUFFICES ASSUME TeamInv, [Next]_vars PROVE TeamInv'
      OBVIOUS
    <2>1. CASE AdmitRoot
      BY <2>1, AdmitRootInv
    <2>2. CASE Delegate
      BY <2>2, DelegateInv
    <2>3. CASE SendMessage
      BY <2>3, SendMessageInv
    <2>4. CASE Complete
      BY <2>4, CompleteInv
    <2>5. CASE Fail
      BY <2>5, FailInv
    <2>6. CASE Cancel
      BY <2>6, CancelInv
    <2>7. CASE Retry
      BY <2>7, RetryInv
    <2>8. CASE Acknowledge
      BY <2>8, AcknowledgeInv
    <2>9. CASE OpenTeam
      BY <2>9, OpenTeamInv
    <2>10. CASE Crash
      BY <2>10, CrashInv
    <2>11. CASE UNCHANGED vars
      BY <2>11 DEF vars, TeamInv, TypeOK
    <2>12. QED
      BY <2>1, <2>2, <2>3, <2>4, <2>5, <2>6, <2>7, <2>8, <2>9, <2>10, <2>11 DEF Next, Command
  <1>3. QED
    BY <1>1, <1>2, PTL DEF Spec

\* The Team's variables keep their types.
THEOREM TeamTypes == Spec => []TypeOK
  <1>1. TeamInv => TypeOK
    BY DEF TeamInv
  <1>2. QED
    BY <1>1, TeamInvariant, PTL

\* No command that passes plan_* is thrown out by validate or by
\* validate_quiescent (TeamState in agent_team.rs).
THEOREM PlansAreValid == Spec => []ValidationNeverRefuses
  <1>1. TeamInv => ValidationNeverRefuses
    BY DEF TeamInv, ValidationNeverRefuses
  <1>2. QED
    BY <1>1, TeamInvariant, PTL

\* recover accepts every journal the Runtime writes, under whatever sequence
\* of Active limits it was written.
THEOREM JournalsReplay == Spec => []JournalReplays
  <1>1. TeamInv => JournalReplays
    BY DEF TeamInv, JournalReplays
  <1>2. QED
    BY <1>1, TeamInvariant, PTL

\* A Task that is Ready, running or has run keeps its Succeeded inputs: no
\* requeue, failure or crash takes one away.
THEOREM InputsAreKept == Spec => []InputsSucceeded
  <1>1. TeamInv => InputsSucceeded
    BY DEF TeamInv, TeamOK, InputsKept, HasRun, InputsSucceeded
  <1>2. QED
    BY <1>1, TeamInvariant, PTL

\* Scope and Capability Snapshot of an Agent lie within those of each of its
\* ancestors, however long the Delegation chain.
THEOREM AuthorityOnlyNarrows == Spec => []AuthorityNarrows
  <1>1. ASSUME TeamInv PROVE AuthorityNarrows
    <2> SUFFICES ASSUME NEW a \in DOMAIN live.agents, NEW p \in Ancestors(live, a)
                 PROVE  /\ live.tasks[a].scope \subseteq live.tasks[p].scope
                        /\ live.agents[a].caps \subseteq live.agents[p].caps
      BY DEF AuthorityNarrows
    <2> DEFINE C == {x \in DOMAIN live.agents :
                        /\ live.tasks[a].scope \subseteq live.tasks[x].scope
                        /\ live.agents[a].caps \subseteq live.agents[x].caps}
    <2>1. Lineage(live) /\ Narrow(live)
      BY <1>1 DEF TeamInv, TeamOK
    <2>2. a \in C
      OBVIOUS
    <2>3. ASSUME NEW x \in C, live.agents[x].parent # 0
          PROVE  live.agents[x].parent \in C
      <3>1. live.agents[x].parent \in DOMAIN live.agents
        BY <2>1, <2>3 DEF Lineage
      <3>2. /\ live.tasks[x].scope \subseteq live.tasks[live.agents[x].parent].scope
            /\ live.agents[x].caps \subseteq live.agents[live.agents[x].parent].caps
        BY <2>1, <2>3 DEF Narrow
      <3>3. QED
        BY <3>1, <3>2
    <2>4. C \in SUBSET DOMAIN live.agents
      OBVIOUS
    <2> HIDE DEF C
    <2>5. IsAncestorChain(live, a, C)
      BY <2>2, <2>3 DEF IsAncestorChain
    <2>6. p \in C
      BY <2>4, <2>5 DEF Ancestors
    <2>7. QED
      BY <2>6 DEF C
  <1>2. QED
    BY <1>1, TeamInvariant, PTL
-----------------------------------------------------------------------------
(* Provider discovery.                                                      *)

DiscoverySpec == DiscoveryInit /\ [][DiscoveryNext]_discovery_vars

IsConfig(c) ==
    /\ c = [revision |-> c.revision, selected |-> c.selected, profiles |-> c.profiles,
            presets |-> c.presets]
    /\ c.revision \in Nat /\ c.selected \in Profiles /\ c.profiles \in [Profiles -> Settings]

PerProcess(f) == f = [p \in Users |-> f[p]]

\* An endpoint with this fingerprint answered that it serves these models.
WasListed(id, models) == \A m \in models : <<id.profile, id.fingerprint, m>> \in listed

\* Every observation is its Profile's own and is what an endpoint answered.
StateIsListed(state) ==
    \A x \in DOMAIN state : state[x].identity.profile = x /\ WasListed(state[x].identity, state[x].models)

JobIsListed(p) ==
    job[p] # Nothing =>
        /\ job[p] = [by |-> job[p].by, identity |-> job[p].identity, endpoint |-> job[p].endpoint,
                      answer |-> job[p].answer]
        /\ job[p].answer # {Absent} => WasListed(job[p].identity, job[p].answer)

\* An observation on its way into the file is added to what the file still is.
ReplacingIsListed(p) ==
    replacing[p] # Nothing =>
        /\ lock = p /\ replacing[p].read = observed
        /\ WasListed(replacing[p].observation.identity, replacing[p].observation.models)

\* What a draft names was listed for the Profile of the Config it stands on.
DraftIsListed(p) ==
    draft[p] # Nothing =>
        /\ draft[p].base \in Nat /\ draft[p].base <= config.revision
        /\ draft[p].base = config.revision =>
            <<draft[p].profile, fingerprint(config.profiles[draft[p].profile]), draft[p].model>> \in listed

\* A Config that is loaded is an earlier one or the one in the file.
LoadedIsPast(p) ==
    /\ IsConfig(loaded[p]) /\ loaded[p].revision <= config.revision
    /\ loaded[p].revision = config.revision => loaded[p].profiles = config.profiles

DiscoveryShape ==
    /\ IsConfig(config) /\ PerProcess(loaded) /\ PerProcess(shown)
    /\ PerProcess(job) /\ PerProcess(replacing) /\ PerProcess(acceptance) /\ PerProcess(draft)

DiscoveryInv ==
    /\ DiscoveryShape
    /\ StateIsListed(observed) /\ observed = kept /\ accepted \subseteq listed
    /\ \A p \in Users :
        /\ StateIsListed(shown[p]) /\ JobIsListed(p) /\ ReplacingIsListed(p)
        /\ DraftIsListed(p) /\ LoadedIsPast(p)

LEMMA DiscoveryInitially == DiscoveryInit => DiscoveryInv
<1>1. SUFFICES ASSUME DiscoveryInit PROVE DiscoveryInv
  OBVIOUS
<1>2. PICK s \in Settings, x \in Profiles :
        config = [revision |-> 0, selected |-> x, profiles |-> [y \in Profiles |-> s], presets |-> {}]
  BY <1>1 DEF DiscoveryInit
<1>3. IsConfig(config) /\ config.revision = 0
  BY <1>2 DEF IsConfig
<1>4. /\ loaded = [p \in Users |-> config] /\ shown = [p \in Users |-> Nothing]
      /\ job = [p \in Users |-> Nothing] /\ replacing = job /\ acceptance = job /\ draft = job
      /\ observed = Nothing /\ kept = Nothing /\ accepted = {}
  BY <1>1 DEF DiscoveryInit
<1>5. DiscoveryShape
  <2>1. \A c : PerProcess([p \in Users |-> c])
    BY DEF PerProcess
  <2> QED
    BY <1>3, <1>4, <2>1 DEF DiscoveryShape
<1>6. StateIsListed(Nothing)
  BY DEF StateIsListed, Nothing
<1>7. ASSUME NEW p \in Users
      PROVE  /\ StateIsListed(shown[p]) /\ JobIsListed(p) /\ ReplacingIsListed(p)
             /\ DraftIsListed(p) /\ LoadedIsPast(p)
  <2>1. loaded[p] = config /\ shown[p] = Nothing
    BY <1>4
  <2>2. job[p] = Nothing /\ replacing[p] = Nothing /\ draft[p] = Nothing
    BY <1>4
  <2> QED
    BY <1>3, <1>6, <2>1, <2>2 DEF JobIsListed, ReplacingIsListed, DraftIsListed, LoadedIsPast
<1> QED
  BY <1>4, <1>5, <1>6, <1>7 DEF DiscoveryInv

\* What was listed stays listed.
LEMMA ListedGrows ==
    ASSUME listed \subseteq listed'
    PROVE  /\ \A id, models : WasListed(id, models) => WasListed(id, models)'
           /\ \A state : StateIsListed(state) => StateIsListed(state)'
  BY DEF WasListed, StateIsListed

\* An observation with its Profile's listed models keeps a state so.
LEMMA WithIsListed ==
    ASSUME NEW state, NEW o, StateIsListed(state), WasListed(o.identity, o.models)
    PROVE  StateIsListed(With(state, o))
<1>1. DOMAIN With(state, o) = DOMAIN state \cup {o.identity.profile}
  BY DEF With
<1>2. ASSUME NEW x \in DOMAIN With(state, o)
      PROVE  /\ With(state, o)[x].identity.profile = x
             /\ WasListed(With(state, o)[x].identity, With(state, o)[x].models)
  <2>1. CASE x = o.identity.profile
    <3>1. With(state, o)[x] = o
      BY <2>1 DEF With
    <3> QED
      BY <2>1, <3>1
  <2>2. CASE x # o.identity.profile
    <3>1. x \in DOMAIN state /\ With(state, o)[x] = state[x]
      BY <1>1, <2>2 DEF With
    <3> QED
      BY <3>1 DEF StateIsListed
  <2> QED
    BY <2>1, <2>2
<1> QED
  BY <1>2 DEF StateIsListed

\* What no step but the ones below touches.
LEMMA DiscoveryRest ==
    ASSUME DiscoveryInv, listed \subseteq listed', NEW p \in Users
    PROVE  /\ shown'[p] = shown[p] => StateIsListed(shown[p])'
           /\ job'[p] = job[p] => JobIsListed(p)'
           /\ replacing'[p] = replacing[p] /\ lock' = lock /\ observed' = observed
                => ReplacingIsListed(p)'
           /\ draft'[p] = draft[p] /\ config' = config => DraftIsListed(p)'
           /\ loaded'[p] = loaded[p] /\ config' = config => LoadedIsPast(p)'
           /\ job'[p] = Nothing => JobIsListed(p)'
           /\ replacing'[p] = Nothing => ReplacingIsListed(p)'
           /\ draft'[p] = Nothing => DraftIsListed(p)'
<1>1. /\ StateIsListed(shown[p]) /\ JobIsListed(p) /\ ReplacingIsListed(p)
      /\ DraftIsListed(p) /\ LoadedIsPast(p)
  BY DEF DiscoveryInv
<1>2. shown'[p] = shown[p] => StateIsListed(shown[p])'
  BY <1>1, ListedGrows
<1>3. (job'[p] = job[p] => JobIsListed(p)') /\ (job'[p] = Nothing => JobIsListed(p)')
  BY <1>1, ListedGrows DEF JobIsListed
<1>4. /\ replacing'[p] = replacing[p] /\ lock' = lock /\ observed' = observed
            => ReplacingIsListed(p)'
      /\ replacing'[p] = Nothing => ReplacingIsListed(p)'
  BY <1>1, ListedGrows DEF ReplacingIsListed
<1>5. /\ draft'[p] = draft[p] /\ config' = config => DraftIsListed(p)'
      /\ draft'[p] = Nothing => DraftIsListed(p)'
  BY <1>1 DEF DraftIsListed
<1>6. loaded'[p] = loaded[p] /\ config' = config => LoadedIsPast(p)'
  BY <1>1 DEF LoadedIsPast
<1> QED
  BY <1>2, <1>3, <1>4, <1>5, <1>6

\* A step that leaves the Configs and what is saved alone.
DiscoveryElsewhere(p) ==
    \A q \in Users \ {p} :
        /\ shown'[q] = shown[q] /\ job'[q] = job[q] /\ replacing'[q] = replacing[q]
        /\ draft'[q] = draft[q] /\ loaded'[q] = loaded[q]

\* The invariant after a step of one process, when it holds of that process.
LEMMA DiscoveryStepOf ==
    ASSUME DiscoveryInv, NEW p \in Users, DiscoveryElsewhere(p), DiscoveryShape',
           listed \subseteq listed', (accepted \subseteq listed)', config' = config,
           observed' = observed, kept' = kept, lock' = lock,
           (/\ StateIsListed(shown[p]) /\ JobIsListed(p) /\ ReplacingIsListed(p)
            /\ DraftIsListed(p) /\ LoadedIsPast(p))'
    PROVE  DiscoveryInv'
<1>1. ASSUME NEW q \in Users
      PROVE  (/\ StateIsListed(shown[q]) /\ JobIsListed(q) /\ ReplacingIsListed(q)
              /\ DraftIsListed(q) /\ LoadedIsPast(q))'
  <2>1. CASE q = p
    BY <2>1
  <2>2. CASE q # p
    BY <2>2, DiscoveryRest DEF DiscoveryElsewhere
  <2> QED
    BY <2>1, <2>2
<1>2. StateIsListed(observed)' /\ (observed = kept)'
  BY ListedGrows DEF DiscoveryInv
<1> QED
  BY <1>1, <1>2 DEF DiscoveryInv

\* What replacing one entry does to a table kept per process.
Replaced(f, g, p, v) ==
    PerProcess(g) /\ g[p] = v /\ \A q \in Users \ {p} : g[q] = f[q]

LEMMA PerProcessExcept ==
    ASSUME NEW f, NEW g, PerProcess(f), NEW p \in Users, NEW v, g = [f EXCEPT ![p] = v]
    PROVE  Replaced(f, g, p, v)
<1>1. DOMAIN f = Users
  BY DEF PerProcess
<1>2. g = [q \in Users |-> IF q = p THEN v ELSE f[q]]
  BY <1>1
<1>3. \A q \in Users : g[q] = IF q = p THEN v ELSE f[q]
  BY <1>2
<1>4. g = [q \in Users |-> g[q]]
  BY <1>2, <1>3
<1> QED
  BY <1>3, <1>4 DEF PerProcess, Replaced

LEMMA OpenKeeps ==
    ASSUME DiscoveryInv, NEW p \in Users, Open(p)
    PROVE  DiscoveryInv'
<1>1. /\ loaded' = [loaded EXCEPT ![p] = config] /\ shown' = [shown EXCEPT ![p] = observed]
      /\ UNCHANGED <<config, observed, lock, job, replacing, acceptance, draft, clock, listed, kept, accepted>>
  BY DEF Open
<1>2. /\ IsConfig(config) /\ PerProcess(loaded) /\ PerProcess(shown) /\ StateIsListed(observed)
      /\ accepted \subseteq listed
  BY DEF DiscoveryInv, DiscoveryShape
<1>3. /\ PerProcess(loaded') /\ loaded'[p] = config /\ \A q \in Users \ {p} : loaded'[q] = loaded[q]
      /\ PerProcess(shown') /\ shown'[p] = observed /\ \A q \in Users \ {p} : shown'[q] = shown[q]
  <2>1. Replaced(loaded, loaded', p, config)
    BY <1>1, <1>2, PerProcessExcept
  <2>2. Replaced(shown, shown', p, observed)
    BY <1>1, <1>2, PerProcessExcept
  <2> QED
    BY <2>1, <2>2 DEF Replaced
<1>4. DiscoveryShape'
  BY <1>1, <1>3 DEF DiscoveryInv, DiscoveryShape, PerProcess, IsConfig
<1>5. StateIsListed(shown[p])'
  BY <1>1, <1>2, <1>3 DEF StateIsListed, WasListed
<1>6. LoadedIsPast(p)'
  BY <1>1, <1>2, <1>3 DEF LoadedIsPast, IsConfig
<1>7. JobIsListed(p)' /\ ReplacingIsListed(p)' /\ DraftIsListed(p)'
  BY <1>1, DiscoveryRest
<1>8. DiscoveryElsewhere(p)
  BY <1>1, <1>3 DEF DiscoveryElsewhere
<1>9. listed \subseteq listed' /\ (accepted \subseteq listed)'
  BY <1>1, <1>2
<1> QED
  BY <1>1, <1>4, <1>5, <1>6, <1>7, <1>8, <1>9, DiscoveryStepOf

LEMMA StartKeeps ==
    ASSUME DiscoveryInv, NEW p \in Users, NEW x, NEW by, Start(p, x, by)
    PROVE  DiscoveryInv'
<1> DEFINE new == [by |-> by, identity |-> identity(x, loaded[p].profiles[x]),
                   endpoint |-> loaded[p].profiles[x].endpoint, answer |-> {Absent}]
<1>1. /\ job' = [job EXCEPT ![p] = new]
      /\ UNCHANGED <<config, loaded, observed, lock, replacing, shown, acceptance, draft, listed, kept, accepted>>
  BY DEF Start
<1>2. PerProcess(job) /\ accepted \subseteq listed
  BY DEF DiscoveryInv, DiscoveryShape
<1>3. PerProcess(job') /\ job'[p] = new /\ \A q \in Users \ {p} : job'[q] = job[q]
  <2>1. Replaced(job, job', p, new)
    BY <1>1, <1>2, PerProcessExcept
  <2> QED
    BY <2>1 DEF Replaced
<1>4. DiscoveryShape'
  BY <1>1, <1>3 DEF DiscoveryInv, DiscoveryShape, PerProcess, IsConfig
<1>5. JobIsListed(p)'
  BY <1>3 DEF JobIsListed
<1>6. /\ StateIsListed(shown[p])' /\ ReplacingIsListed(p)' /\ DraftIsListed(p)' /\ LoadedIsPast(p)'
  BY <1>1, DiscoveryRest
<1>7. DiscoveryElsewhere(p)
  BY <1>1, <1>3 DEF DiscoveryElsewhere
<1>8. listed \subseteq listed' /\ (accepted \subseteq listed)'
  BY <1>1, <1>2
<1> QED
  BY <1>1, <1>4, <1>5, <1>6, <1>7, <1>8, DiscoveryStepOf

LEMMA TestKeeps ==
    ASSUME DiscoveryInv, NEW p \in Users, NEW answer, test(p, answer)
    PROVE  DiscoveryInv'
<1> DEFINE models == parse_models(answer)
           id == job[p].identity
<1>1. /\ UNCHANGED <<config, loaded, observed, lock, replacing, shown, acceptance, draft, clock, kept, accepted>>
      /\ \/ /\ job' = [job EXCEPT ![p].answer = models]
            /\ listed' = listed \cup {<<id.profile, id.fingerprint, m>> : m \in models}
         \/ job' = [job EXCEPT ![p] = Nothing] /\ listed' = listed
  BY Zenon DEF test
<1> HIDE DEF models
<1>2. PerProcess(job) /\ accepted \subseteq listed /\ JobIsListed(p) /\ job[p] # Nothing
  BY DEF DiscoveryInv, DiscoveryShape, test
<1>3. listed \subseteq listed' /\ (accepted \subseteq listed)'
  BY <1>1, <1>2
<1>4. PICK new : job' = [job EXCEPT ![p] = new]
  BY <1>1
<1>5. PerProcess(job') /\ job'[p] = new /\ \A q \in Users \ {p} : job'[q] = job[q]
  <2>1. Replaced(job, job', p, new)
    BY <1>2, <1>4, PerProcessExcept
  <2> QED
    BY <2>1 DEF Replaced
<1>6. DiscoveryShape'
  BY <1>1, <1>5 DEF DiscoveryInv, DiscoveryShape, PerProcess, IsConfig
<1>7. JobIsListed(p)'
  <2>1. CASE job' = [job EXCEPT ![p] = Nothing] /\ listed' = listed
    <3>1. Replaced(job, job', p, Nothing)
      BY <1>2, <2>1, PerProcessExcept
    <3> QED
      BY <1>3, <3>1, DiscoveryRest DEF Replaced
  <2>2. CASE /\ job' = [job EXCEPT ![p].answer = models]
             /\ listed' = listed \cup {<<id.profile, id.fingerprint, m>> : m \in models}
    <3>1. DOMAIN job = Users
      BY <1>2 DEF PerProcess
    <3>2. job'[p] = [job[p] EXCEPT !.answer = models]
      BY <2>2, <3>1
    <3>3. job[p] = [by |-> job[p].by, identity |-> id, endpoint |-> job[p].endpoint,
                    answer |-> job[p].answer]
      BY <1>2 DEF JobIsListed
    <3>4. job'[p] = [by |-> job[p].by, identity |-> id, endpoint |-> job[p].endpoint, answer |-> models]
      BY <3>2, <3>3
    <3>5. WasListed(id, models)'
      BY <2>2 DEF WasListed
    <3> QED
      BY <3>4, <3>5 DEF JobIsListed, WasListed
  <2> QED
    BY <1>1, <2>1, <2>2
<1>8. /\ StateIsListed(shown[p])' /\ ReplacingIsListed(p)' /\ DraftIsListed(p)' /\ LoadedIsPast(p)'
  BY <1>1, <1>3, DiscoveryRest
<1>9. DiscoveryElsewhere(p)
  BY <1>1, <1>5 DEF DiscoveryElsewhere
<1> QED
  BY <1>1, <1>3, <1>6, <1>7, <1>8, <1>9, DiscoveryStepOf

\* The lock has one holder: nobody else has an observation on its way.
LEMMA OneReplacing ==
    ASSUME DiscoveryInv, NEW p \in Users, lock = Absent \/ lock = p
    PROVE  \A q \in Users : q # p \/ lock = Absent => replacing[q] = Nothing
<1>1. Absent \notin Users
  BY DiscoveryAssumption DEF Absent
<1> QED
  BY <1>1 DEF DiscoveryInv, ReplacingIsListed

LEMMA CompletedKeeps ==
    ASSUME DiscoveryInv, NEW p \in Users, Completed(p)
    PROVE  DiscoveryInv'
<1> DEFINE new == [observation |-> [identity |-> job[p].identity, at |-> clock, models |-> job[p].answer],
                   read |-> observed]
<1>1. /\ job[p] # Nothing /\ job[p].answer # {Absent} /\ job' = [job EXCEPT ![p] = Nothing]
      /\ \/ /\ lock = Absent /\ lock' = p /\ replacing' = [replacing EXCEPT ![p] = new]
         \/ UNCHANGED <<lock, replacing>>
      /\ UNCHANGED <<config, loaded, observed, shown, acceptance, draft, listed, kept, accepted>>
  BY DEF Completed, lock_state
<1>2. /\ PerProcess(job) /\ PerProcess(replacing) /\ accepted \subseteq listed /\ JobIsListed(p)
      /\ StateIsListed(observed) /\ observed = kept
  BY DEF DiscoveryInv, DiscoveryShape
<1>3. Replaced(job, job', p, Nothing)
  BY <1>1, <1>2, PerProcessExcept
<1>4. DiscoveryElsewhere(p) \/ Replaced(replacing, replacing', p, new)
  <2>1. CASE replacing' = [replacing EXCEPT ![p] = new]
    BY <1>2, <2>1, PerProcessExcept
  <2>2. CASE replacing' = replacing
    BY <1>1, <1>3, <2>2 DEF Replaced, DiscoveryElsewhere
  <2> QED
    BY <1>1, <2>1, <2>2
<1>5. DiscoveryShape'
  <2>1. PerProcess(replacing')
    <3>1. CASE replacing' = [replacing EXCEPT ![p] = new]
      BY <1>2, <3>1, PerProcessExcept DEF Replaced
    <3> QED
      BY <1>1, <1>2, <3>1
  <2> QED
    BY <1>1, <1>3, <2>1 DEF DiscoveryInv, DiscoveryShape, PerProcess, IsConfig, Replaced
<1>6. StateIsListed(observed)' /\ (observed = kept)' /\ (accepted \subseteq listed)'
  BY <1>1, <1>2 DEF StateIsListed, WasListed
<1>7. ASSUME NEW q \in Users
      PROVE  (/\ StateIsListed(shown[q]) /\ JobIsListed(q) /\ ReplacingIsListed(q)
              /\ DraftIsListed(q) /\ LoadedIsPast(q))'
  <2>1. (StateIsListed(shown[q]) /\ DraftIsListed(q) /\ LoadedIsPast(q))'
    BY <1>1, DiscoveryRest
  <2>2. JobIsListed(q)'
    <3>1. job'[q] = job[q] \/ job'[q] = Nothing
      BY <1>3 DEF Replaced
    <3> QED
      BY <1>1, <3>1, DiscoveryRest
  <2>3. ReplacingIsListed(q)'
    <3>1. CASE UNCHANGED <<lock, replacing>>
      BY <1>1, <3>1, DiscoveryRest
    <3>2. CASE lock = Absent /\ lock' = p /\ replacing' = [replacing EXCEPT ![p] = new]
      <4>1. Replaced(replacing, replacing', p, new)
        BY <1>2, <3>2, PerProcessExcept
      <4>2. CASE q # p
        <5>1. replacing'[q] = Nothing
          BY <3>2, <4>1, <4>2, OneReplacing DEF Replaced
        <5> QED
          BY <1>1, <5>1, DiscoveryRest
      <4>3. CASE q = p
        <5>1. WasListed(job[p].identity, job[p].answer)
          BY <1>1, <1>2 DEF JobIsListed
        <5>2. replacing'[p] = new
          BY <4>1 DEF Replaced
        <5> QED
          BY <1>1, <3>2, <4>3, <5>1, <5>2 DEF ReplacingIsListed, WasListed
      <4> QED
        BY <4>2, <4>3
    <3> QED
      BY <1>1, <3>1, <3>2
  <2> QED
    BY <2>1, <2>2, <2>3
<1> QED
  BY <1>5, <1>6, <1>7 DEF DiscoveryInv

LEMMA ReplaceKeeps ==
    ASSUME DiscoveryInv, NEW p \in Users, replace_profile(p)
    PROVE  DiscoveryInv'
<1> DEFINE o == replacing[p].observation
           state == With(replacing[p].read, o)
<1>1. /\ replacing[p] # Nothing /\ replacing' = [replacing EXCEPT ![p] = Nothing]
      /\ \/ observed' = state /\ kept' = With(kept, o) /\ shown' = [shown EXCEPT ![p] = state]
         \/ UNCHANGED <<observed, kept, shown>>
      /\ lock' = IF lock = p THEN Absent ELSE lock
      /\ UNCHANGED <<config, loaded, job, acceptance, draft, listed, accepted>>
  BY Zenon DEF replace_profile
<1>2. /\ PerProcess(replacing) /\ PerProcess(shown) /\ accepted \subseteq listed
      /\ StateIsListed(observed) /\ observed = kept /\ ReplacingIsListed(p)
  BY DEF DiscoveryInv, DiscoveryShape
<1>3. lock = p /\ replacing[p].read = observed /\ WasListed(o.identity, o.models)
  BY <1>1, <1>2 DEF ReplacingIsListed
<1>4. StateIsListed(state) /\ state = With(kept, o)
  BY <1>2, <1>3, WithIsListed
<1> HIDE DEF state
<1>5. Replaced(replacing, replacing', p, Nothing)
  BY <1>1, <1>2, PerProcessExcept
<1>6. (observed = kept)' /\ StateIsListed(observed)' /\ (accepted \subseteq listed)'
  BY <1>1, <1>2, <1>4 DEF StateIsListed, WasListed
<1>7. PerProcess(shown') /\ \A q \in Users : shown'[q] = shown[q] \/ shown'[q] = state
  <2>1. CASE shown' = [shown EXCEPT ![p] = state]
    <3>1. Replaced(shown, shown', p, state)
      BY <1>2, <2>1, PerProcessExcept
    <3> QED
      BY <3>1 DEF Replaced
  <2> QED
    BY <1>1, <1>2, <2>1
<1>8. DiscoveryShape'
  BY <1>1, <1>5, <1>7 DEF DiscoveryInv, DiscoveryShape, PerProcess, IsConfig, Replaced
<1>9. ASSUME NEW q \in Users
      PROVE  (/\ StateIsListed(shown[q]) /\ JobIsListed(q) /\ ReplacingIsListed(q)
              /\ DraftIsListed(q) /\ LoadedIsPast(q))'
  <2>1. (JobIsListed(q) /\ DraftIsListed(q) /\ LoadedIsPast(q))'
    BY <1>1, DiscoveryRest
  <2>2. replacing'[q] = Nothing
    BY <1>3, <1>5, OneReplacing DEF Replaced
  <2>3. ReplacingIsListed(q)'
    BY <1>1, <2>2, DiscoveryRest
  <2>4. StateIsListed(shown[q])'
    <3>1. StateIsListed(shown[q]) /\ StateIsListed(state)
      BY <1>4 DEF DiscoveryInv
    <3> QED
      BY <1>1, <1>7, <3>1 DEF StateIsListed, WasListed
  <2> QED
    BY <2>1, <2>3, <2>4
<1> QED
  BY <1>6, <1>8, <1>9 DEF DiscoveryInv

\* A draft stands on the Config that is loaded, for which its model was listed.
LEMMA StagedIsListed ==
    ASSUME DiscoveryInv, NEW p \in Users, NEW x, NEW m, Stage(p, x, m),
           <<x, fingerprint(loaded[p].profiles[x]), m>> \in listed,
           UNCHANGED <<config, listed>>
    PROVE  DraftIsListed(p)' /\ PerProcess(draft') /\ \A q \in Users \ {p} : draft'[q] = draft[q]
<1> DEFINE new == [base |-> loaded[p].revision, profile |-> x, model |-> m]
<1>1. PerProcess(draft) /\ LoadedIsPast(p)
  BY DEF DiscoveryInv, DiscoveryShape
<1>2. Replaced(draft, draft', p, new)
  BY <1>1, PerProcessExcept DEF Stage
<1>3. draft'[p] = new
  BY <1>2 DEF Replaced
<1>4. DraftIsListed(p)'
  BY <1>1, <1>3 DEF DraftIsListed, LoadedIsPast, IsConfig
<1> QED
  BY <1>2, <1>4 DEF Replaced

\* The rest of such a step.
LEMMA DraftStep ==
    ASSUME DiscoveryInv, NEW p \in Users, DraftIsListed(p)', PerProcess(draft'), PerProcess(acceptance'),
           \A q \in Users \ {p} : draft'[q] = draft[q],
           UNCHANGED <<config, loaded, observed, lock, job, replacing, shown, listed, kept, accepted>>
    PROVE  DiscoveryInv'
<1>1. DiscoveryShape'
  BY DEF DiscoveryInv, DiscoveryShape, PerProcess, IsConfig
<1>2. DiscoveryElsewhere(p)
  BY DEF DiscoveryElsewhere
<1>3. (/\ StateIsListed(shown[p]) /\ JobIsListed(p) /\ ReplacingIsListed(p) /\ LoadedIsPast(p))'
  BY DiscoveryRest
<1>4. (accepted \subseteq listed)'
  BY DEF DiscoveryInv
<1> QED
  BY <1>1, <1>2, <1>3, <1>4, DiscoveryStepOf

LEMMA BeginAcceptanceKeeps ==
    ASSUME DiscoveryInv, NEW p \in Users, NEW x, NEW m, BeginDiscoveryAcceptance(p, x, m)
    PROVE  DiscoveryInv'
<1>1. PICK a : acceptance' = [acceptance EXCEPT ![p] = a]
  BY DEF BeginDiscoveryAcceptance
<1>2. UNCHANGED <<config, loaded, observed, lock, job, replacing, shown, draft, listed, kept, accepted>>
  BY DEF BeginDiscoveryAcceptance
<1>3. PerProcess(acceptance) /\ PerProcess(draft)
  BY DEF DiscoveryInv, DiscoveryShape
<1>4. Replaced(acceptance, acceptance', p, a)
  BY <1>1, <1>3, PerProcessExcept
<1>5. DraftIsListed(p)'
  BY <1>2, DiscoveryRest
<1>6. PerProcess(draft') /\ PerProcess(acceptance')
  BY <1>2, <1>3, <1>4 DEF Replaced
<1> QED
  BY <1>2, <1>5, <1>6, DraftStep

LEMMA ConfirmAcceptanceKeeps ==
    ASSUME DiscoveryInv, NEW p \in Users, ConfirmDiscoveryAcceptance(p)
    PROVE  DiscoveryInv'
<1> DEFINE a == acceptance[p]
           x == a.identity.profile
<1>1. /\ acceptance' = [acceptance EXCEPT ![p] = Nothing]
      /\ UNCHANGED <<config, loaded, observed, lock, job, replacing, shown, listed, kept, accepted>>
      /\ (validate(p, a) /\ Stage(p, x, a.model)) \/ draft' = draft
  BY DEF ConfirmDiscoveryAcceptance
<1>2. PerProcess(acceptance) /\ PerProcess(draft) /\ StateIsListed(observed)
  BY DEF DiscoveryInv, DiscoveryShape
<1>3. Replaced(acceptance, acceptance', p, Nothing)
  BY <1>1, <1>2, PerProcessExcept
<1>4. DraftIsListed(p)' /\ PerProcess(draft') /\ \A q \in Users \ {p} : draft'[q] = draft[q]
  <2>1. CASE draft' = draft
    BY <1>1, <1>2, <2>1, DiscoveryRest
  <2>2. CASE validate(p, a) /\ Stage(p, x, a.model)
    <3>1. /\ identity(x, loaded[p].profiles[x]) = a.identity /\ x \in DOMAIN observed
          /\ observed[x].identity = a.identity /\ a.model \in observed[x].models
      BY <2>2 DEF validate
    <3>2. <<a.identity.profile, a.identity.fingerprint, a.model>> \in listed
      BY <1>2, <3>1 DEF StateIsListed, WasListed
    <3>3. a.identity.fingerprint = fingerprint(loaded[p].profiles[x])
      BY <3>1 DEF identity
    <3> QED
      BY <1>1, <2>2, <3>2, <3>3, StagedIsListed
  <2> QED
    BY <1>1, <2>1, <2>2
<1>5. PerProcess(acceptance')
  BY <1>3 DEF Replaced
<1> QED
  BY <1>1, <1>4, <1>5, DraftStep

LEMMA BeginPresetKeeps ==
    ASSUME DiscoveryInv, NEW p \in Users, NEW x, NEW m, begin_discovered_model_preset(p, x, m)
    PROVE  DiscoveryInv'
<1>1. /\ discovery_freshness(loaded[p], observed, x) = "Current" /\ m \in observed[x].models
      /\ Stage(p, x, m)
      /\ UNCHANGED <<config, loaded, observed, lock, job, replacing, shown, acceptance, listed, kept, accepted>>
  BY DEF begin_discovered_model_preset
<1>2. x \in DOMAIN observed /\ observed[x].identity = identity(x, loaded[p].profiles[x])
  BY <1>1 DEF discovery_freshness
<1>3. <<x, fingerprint(loaded[p].profiles[x]), m>> \in listed
  BY <1>1, <1>2 DEF DiscoveryInv, StateIsListed, WasListed, identity
<1>4. DraftIsListed(p)' /\ PerProcess(draft') /\ \A q \in Users \ {p} : draft'[q] = draft[q]
  BY <1>1, <1>3, StagedIsListed
<1>5. PerProcess(acceptance')
  BY <1>1 DEF DiscoveryInv, DiscoveryShape
<1> QED
  BY <1>1, <1>4, <1>5, DraftStep

\* Drafts and loaded Configs when the file gets a new revision.
LEMMA NewRevision ==
    ASSUME DiscoveryInv, config'.revision = config.revision + 1, NEW q \in Users,
           draft'[q] = draft[q] \/ draft'[q] = Nothing, loaded'[q] = loaded[q]
    PROVE  DraftIsListed(q)' /\ LoadedIsPast(q)'
<1>1. DraftIsListed(q) /\ LoadedIsPast(q) /\ IsConfig(config)
  BY DEF DiscoveryInv, DiscoveryShape
<1>2. DraftIsListed(q)'
  BY <1>1 DEF DraftIsListed, IsConfig
<1>3. LoadedIsPast(q)'
  BY <1>1 DEF LoadedIsPast, IsConfig
<1> QED
  BY <1>2, <1>3

LEMMA CommitKeeps ==
    ASSUME DiscoveryInv, NEW p \in Users, Commit(p)
    PROVE  DiscoveryInv'
<1> DEFINE x == draft[p].profile
           m == draft[p].model
<1>1. /\ draft[p] # Nothing /\ draft' = [draft EXCEPT ![p] = Nothing]
      /\ UNCHANGED <<observed, lock, job, replacing, shown, acceptance, listed, kept>>
      /\ \/ /\ draft[p].base = config.revision
            /\ config' = [config EXCEPT !.revision = @ + 1, !.presets = @ \cup {<<x, m>>}]
            /\ loaded' = [loaded EXCEPT ![p] = config']
            /\ accepted' = accepted \cup {<<x, fingerprint(config.profiles[x]), m>>}
         \/ UNCHANGED <<config, loaded, accepted>>
  BY DEF Commit
<1>2. /\ PerProcess(draft) /\ PerProcess(loaded) /\ DraftIsListed(p) /\ IsConfig(config)
      /\ accepted \subseteq listed
  BY DEF DiscoveryInv, DiscoveryShape
<1>3. Replaced(draft, draft', p, Nothing)
  BY <1>1, <1>2, PerProcessExcept
<1>4. CASE UNCHANGED <<config, loaded, accepted>>
  <2>1. DraftIsListed(p)'
    BY <1>1, <1>3, <1>4, DiscoveryRest DEF Replaced
  <2>2. PerProcess(acceptance')
    BY <1>1 DEF DiscoveryInv, DiscoveryShape
  <2> QED
    BY <1>1, <1>3, <1>4, <2>1, <2>2, DraftStep DEF Replaced
<1>5. CASE /\ draft[p].base = config.revision
           /\ config' = [config EXCEPT !.revision = @ + 1, !.presets = @ \cup {<<x, m>>}]
           /\ loaded' = [loaded EXCEPT ![p] = config']
           /\ accepted' = accepted \cup {<<x, fingerprint(config.profiles[x]), m>>}
  <2>1. config' = [revision |-> config.revision + 1, selected |-> config.selected,
                   profiles |-> config.profiles, presets |-> config.presets \cup {<<x, m>>}]
    BY <1>2, <1>5 DEF IsConfig
  <2>2. IsConfig(config') /\ config'.revision = config.revision + 1
    BY <1>2, <2>1 DEF IsConfig
  <2>3. Replaced(loaded, loaded', p, config')
    BY <1>2, <1>5, PerProcessExcept
  <2>4. (accepted \subseteq listed)'
    BY <1>1, <1>2, <1>5 DEF DraftIsListed
  <2>5. DiscoveryShape'
    BY <1>1, <1>3, <2>2, <2>3 DEF DiscoveryInv, DiscoveryShape, PerProcess, IsConfig, Replaced
  <2>6. StateIsListed(observed)' /\ (observed = kept)'
    BY <1>1, ListedGrows DEF DiscoveryInv
  <2>7. ASSUME NEW q \in Users
        PROVE  (/\ StateIsListed(shown[q]) /\ JobIsListed(q) /\ ReplacingIsListed(q)
                /\ DraftIsListed(q) /\ LoadedIsPast(q))'
    <3>1. (StateIsListed(shown[q]) /\ JobIsListed(q) /\ ReplacingIsListed(q))'
      BY <1>1, DiscoveryRest
    <3>2. CASE q # p
      BY <1>3, <2>2, <2>3, <3>1, <3>2, NewRevision DEF Replaced
    <3>3. CASE q = p
      <4>1. draft'[p] = Nothing /\ loaded'[p] = config'
        BY <1>3, <2>3 DEF Replaced
      <4>2. DraftIsListed(p)'
        BY <4>1 DEF DraftIsListed
      <4>3. LoadedIsPast(p)'
        BY <2>2, <4>1 DEF LoadedIsPast, IsConfig
      <4> QED
        BY <3>1, <3>3, <4>2, <4>3
    <3> QED
      BY <3>2, <3>3
  <2> QED
    BY <2>4, <2>5, <2>6, <2>7 DEF DiscoveryInv
<1> QED
  BY <1>1, <1>4, <1>5

LEMMA EditConfigKeeps ==
    ASSUME DiscoveryInv, NEW x \in Profiles, NEW s \in Settings, EditConfig(x, s)
    PROVE  DiscoveryInv'
<1>1. /\ \/ config' = [config EXCEPT !.revision = @ + 1, !.profiles[x] = s]
         \/ config' = [config EXCEPT !.revision = @ + 1, !.selected = x]
      /\ UNCHANGED <<loaded, observed, lock, job, replacing, shown, acceptance, draft, listed, kept, accepted>>
  BY DEF EditConfig
<1>2. IsConfig(config)
  BY DEF DiscoveryInv, DiscoveryShape
<1>3. IsConfig(config') /\ config'.revision = config.revision + 1
  <2>1. CASE config' = [config EXCEPT !.revision = @ + 1, !.selected = x]
    <3>1. config' = [revision |-> config.revision + 1, selected |-> x,
                     profiles |-> config.profiles, presets |-> config.presets]
      BY <1>2, <2>1 DEF IsConfig
    <3> QED
      BY <1>2, <3>1 DEF IsConfig
  <2>2. CASE config' = [config EXCEPT !.revision = @ + 1, !.profiles[x] = s]
    <3>1. config' = [revision |-> config.revision + 1, selected |-> config.selected,
                     profiles |-> [config.profiles EXCEPT ![x] = s], presets |-> config.presets]
      BY <1>2, <2>2 DEF IsConfig
    <3>2. [config.profiles EXCEPT ![x] = s] \in [Profiles -> Settings]
      BY <1>2 DEF IsConfig
    <3> QED
      BY <1>2, <3>1, <3>2 DEF IsConfig
  <2> QED
    BY <1>1, <2>1, <2>2
<1>4. DiscoveryShape'
  BY <1>1, <1>3 DEF DiscoveryInv, DiscoveryShape, PerProcess, IsConfig
<1>5. StateIsListed(observed)' /\ (observed = kept)' /\ (accepted \subseteq listed)'
  BY <1>1, ListedGrows DEF DiscoveryInv
<1>6. ASSUME NEW q \in Users
      PROVE  (/\ StateIsListed(shown[q]) /\ JobIsListed(q) /\ ReplacingIsListed(q)
              /\ DraftIsListed(q) /\ LoadedIsPast(q))'
  BY <1>1, <1>3, DiscoveryRest, NewRevision
<1> QED
  BY <1>4, <1>5, <1>6 DEF DiscoveryInv

LEMMA ProcessEndsKeeps ==
    ASSUME DiscoveryInv, NEW p \in Users, ProcessEnds(p)
    PROVE  DiscoveryInv'
<1>1. /\ job' = [job EXCEPT ![p] = Nothing] /\ replacing' = [replacing EXCEPT ![p] = Nothing]
      /\ acceptance' = [acceptance EXCEPT ![p] = Nothing] /\ draft' = [draft EXCEPT ![p] = Nothing]
      /\ lock' = IF lock = p THEN Absent ELSE lock
      /\ UNCHANGED <<config, loaded, observed, shown, listed, kept, accepted>>
  BY DEF ProcessEnds
<1>2. PerProcess(job) /\ PerProcess(replacing) /\ PerProcess(acceptance) /\ PerProcess(draft)
  BY DEF DiscoveryInv, DiscoveryShape
<1>3. Replaced(job, job', p, Nothing) /\ Replaced(replacing, replacing', p, Nothing)
  BY <1>1, <1>2, PerProcessExcept
<1>4. Replaced(acceptance, acceptance', p, Nothing) /\ Replaced(draft, draft', p, Nothing)
  BY <1>1, <1>2, PerProcessExcept
<1>5. DiscoveryShape'
  BY <1>1, <1>3, <1>4 DEF DiscoveryInv, DiscoveryShape, PerProcess, IsConfig, Replaced
<1>6. StateIsListed(observed)' /\ (observed = kept)' /\ (accepted \subseteq listed)'
  BY <1>1, ListedGrows DEF DiscoveryInv
<1>7. ASSUME NEW q \in Users
      PROVE  (/\ StateIsListed(shown[q]) /\ JobIsListed(q) /\ ReplacingIsListed(q)
              /\ DraftIsListed(q) /\ LoadedIsPast(q))'
  <2>1. /\ job'[q] = job[q] \/ job'[q] = Nothing
        /\ draft'[q] = draft[q] \/ draft'[q] = Nothing
    BY <1>3, <1>4 DEF Replaced
  <2>2. (StateIsListed(shown[q]) /\ JobIsListed(q) /\ DraftIsListed(q) /\ LoadedIsPast(q))'
    BY <1>1, <2>1, DiscoveryRest
  <2>3. ReplacingIsListed(q)'
    <3>1. CASE lock = p
      BY <1>1, <1>3, <3>1, OneReplacing, DiscoveryRest DEF Replaced
    <3>2. CASE lock # p
      BY <1>1, <1>3, <3>2, DiscoveryRest DEF Replaced
    <3> QED
      BY <3>1, <3>2
  <2> QED
    BY <2>2, <2>3
<1> QED
  BY <1>5, <1>6, <1>7 DEF DiscoveryInv

LEMMA DiscoveryStep == DiscoveryInv /\ [DiscoveryNext]_discovery_vars => DiscoveryInv'
<1>1. SUFFICES ASSUME DiscoveryInv, [DiscoveryNext]_discovery_vars PROVE DiscoveryInv'
  OBVIOUS
<1>2. CASE UNCHANGED discovery_vars
  <2>1. UNCHANGED <<config, loaded, observed, lock, job, replacing, shown, acceptance, draft, listed, kept, accepted>>
    BY <1>2 DEF discovery_vars
  <2>2. DiscoveryShape'
    BY <1>1, <2>1 DEF DiscoveryInv, DiscoveryShape, PerProcess, IsConfig
  <2>3. StateIsListed(observed)' /\ (observed = kept)' /\ (accepted \subseteq listed)'
    BY <1>1, <2>1, ListedGrows DEF DiscoveryInv
  <2>4. ASSUME NEW q \in Users
        PROVE  (/\ StateIsListed(shown[q]) /\ JobIsListed(q) /\ ReplacingIsListed(q)
                /\ DraftIsListed(q) /\ LoadedIsPast(q))'
    BY <1>1, <2>1, DiscoveryRest
  <2> QED
    BY <2>2, <2>3, <2>4 DEF DiscoveryInv
<1>3. ASSUME NEW p \in Users, Open(p) PROVE DiscoveryInv'
  BY <1>1, <1>3, OpenKeeps
<1>4. ASSUME NEW p \in Users, request(p) PROVE DiscoveryInv'
  BY <1>1, <1>4, StartKeeps DEF request
<1>5. ASSUME NEW p \in Users, Completed(p) PROVE DiscoveryInv'
  BY <1>1, <1>5, CompletedKeeps
<1>6. ASSUME NEW p \in Users, replace_profile(p) PROVE DiscoveryInv'
  BY <1>1, <1>6, ReplaceKeeps
<1>7. ASSUME NEW p \in Users, ConfirmDiscoveryAcceptance(p) PROVE DiscoveryInv'
  BY <1>1, <1>7, ConfirmAcceptanceKeeps
<1>8. ASSUME NEW p \in Users, Commit(p) PROVE DiscoveryInv'
  BY <1>1, <1>8, CommitKeeps
<1>9. ASSUME NEW p \in Users, ProcessEnds(p) PROVE DiscoveryInv'
  BY <1>1, <1>9, ProcessEndsKeeps
<1>10. ASSUME NEW p \in Users, NEW answer \in Answers, test(p, answer) PROVE DiscoveryInv'
  BY <1>1, <1>10, TestKeeps
<1>11. ASSUME NEW p \in Users, NEW x \in Profiles, refresh_provider_discovery(p, x) PROVE DiscoveryInv'
  BY <1>1, <1>11, StartKeeps DEF refresh_provider_discovery
<1>12. ASSUME NEW p \in Users, NEW x \in Profiles, NEW m \in Models, BeginDiscoveryAcceptance(p, x, m)
       PROVE DiscoveryInv'
  BY <1>1, <1>12, BeginAcceptanceKeeps
<1>13. ASSUME NEW p \in Users, NEW x \in Profiles, NEW m \in Models, begin_discovered_model_preset(p, x, m)
       PROVE DiscoveryInv'
  BY <1>1, <1>13, BeginPresetKeeps
<1>14. ASSUME NEW x \in Profiles, NEW s \in Settings, EditConfig(x, s) PROVE DiscoveryInv'
  BY <1>1, <1>14, EditConfigKeeps
<1> QED
  BY <1>1, <1>2, <1>3, <1>4, <1>5, <1>6, <1>7, <1>8, <1>9, <1>10, <1>11, <1>12, <1>13, <1>14
     DEF DiscoveryNext

\* The invariant that the next theorem needs: what every process holds was
\* answered by the endpoint it names, the lock has one holder, and what that
\* holder read is what the file still holds.
THEOREM DiscoveryInvariant == DiscoverySpec => []DiscoveryInv
<1>1. DiscoveryInit => DiscoveryInv
  BY DiscoveryInitially
<1>2. DiscoveryInv /\ [DiscoveryNext]_discovery_vars => DiscoveryInv'
  BY DiscoveryStep
<1> QED
  BY <1>1, <1>2, PTL DEF DiscoverySpec

LEMMA DiscoveryInvSuffices == DiscoveryInv => DiscoveryIsSound
<1>1. SUFFICES ASSUME DiscoveryInv PROVE DiscoveryIsSound
  OBVIOUS
<1>2. ASSUME NEW p \in Users, NEW x \in Profiles, NEW m \in Models,
             availability(loaded[p], shown[p], x, m) = "Available"
      PROVE  <<x, fingerprint(loaded[p].profiles[x]), m>> \in listed
  <2>1. x \in DOMAIN shown[p] /\ m \in shown[p][x].models
    BY <1>2 DEF availability, Discovered
  <2>2. discovery_freshness(loaded[p], shown[p], x) = "Current"
    <3>1. discovery_freshness(loaded[p], shown[p], x) \in {"Current", "Stale"}
      BY <1>2 DEF availability, Discovered, discovery_freshness
    <3> QED
      BY <1>2, <3>1 DEF availability
  <2>3. shown[p][x].identity = identity(x, loaded[p].profiles[x])
    BY <2>2 DEF discovery_freshness
  <2>4. StateIsListed(shown[p])
    BY <1>1 DEF DiscoveryInv
  <2> QED
    BY <2>1, <2>3, <2>4 DEF StateIsListed, WasListed, identity
<1>3. accepted \subseteq listed /\ observed = kept
  BY <1>1 DEF DiscoveryInv
<1> QED
  BY <1>2, <1>3 DEF DiscoveryIsSound, DiscoveredWasListed, ObservationsSurvive

\* For any processes, Profiles and endpoints: a model is shown as available, or
\* became a Preset, only if the Profile as it then was had answered that it
\* serves it, and no process undoes another's observation.
THEOREM DiscoveriesAreSound == DiscoverySpec => []DiscoveryIsSound
BY DiscoveryInvariant, DiscoveryInvSuffices, PTL
-----------------------------------------------------------------------------
(* Usage: sums over sets of attempts.                                       *)

TotalOf(w, S) == MapThenSumSet(LAMBDA i : w[i], S)

LEMMA TotalIsMeasure ==
    ASSUME NEW n \in Nat, NEW z, NEW m, Measures(m, z, n), NEW S \in SUBSET (1..n),
           NEW w, \A i \in S : w[i] = z[i]
    PROVE  TotalOf(w, S) = m[S]
  <1> DEFINE D(g) == g = [T \in SUBSET S |->
                  IF T = {} THEN 0
                  ELSE w[CHOOSE x \in T : TRUE] + g[T \ {CHOOSE x \in T : TRUE}]]
  <1>1. TotalOf(w, S) = (CHOOSE g : D(g))[S]
    BY Zenon DEF TotalOf, MapThenSumSet, MapThenFoldSet
  <1>2. \A T \in SUBSET S : T # {} => w[CHOOSE x \in T : TRUE] = z[CHOOSE x \in T : TRUE]
    OBVIOUS
  <1>3. \A g : D(g) <=> Picks(g, z, S)
    BY <1>2 DEF Picks
  <1> HIDE DEF D
  <1>4. /\ \E g : Picks(g, z, S)
        /\ \A g : Picks(g, z, S) => g[S] = m[S]
    BY PicksMeasure
  <1>5. D(CHOOSE g : D(g))
    BY <1>3, <1>4
  <1> QED
    BY <1>1, <1>3, <1>4, <1>5

LEMMA MeasuresAdd ==
    ASSUME NEW n \in Nat, NEW z, NEW m, Measures(m, z, n), \A i \in 1..n : z[i] \in Nat,
           NEW S \in SUBSET (1..n), NEW T \in SUBSET (1..n), S \cap T = {}
    PROVE  m[S \cup T] = m[S] + m[T]
  <1> DEFINE K == {k \in 0..n : m[S \cup (T \cap 1..k)] = m[S] + m[T \cap 1..k]}
  <1>0. \A U \in SUBSET (1..n) : m[U] \in Nat
    BY DEF Measures
  <1>1. 0 \in K
    <2>1. T \cap 1..0 = {} /\ S \cup {} = S /\ m[{}] = 0
      BY DEF Measures
    <2>2. m[S \cup (T \cap 1..0)] = m[S] + m[T \cap 1..0]
      BY <1>0, <2>1
    <2> QED
      BY <2>2
  <1>2. ASSUME NEW k \in 1..n, k - 1 \in K PROVE k \in K
    <2> DEFINE U == T \cap 1..(k - 1)
               V == T \cap 1..k
    <2>1. m[S \cup U] = m[S] + m[U] /\ U \in SUBSET (1..n) /\ V \in SUBSET (1..n)
      BY <1>2
    <2>2. CASE k \in T
      <3>1. V \ {k} = U /\ (S \cup V) \ {k} = S \cup U /\ k \in V /\ k \in S \cup V
        BY <2>2
      <3>2. m[V] = z[k] + m[U]
        BY <2>1, <3>1 DEF Measures
      <3>3. m[S \cup V] = z[k] + m[S \cup U]
        BY <2>1, <3>1 DEF Measures
      <3>4. m[S] \in Nat /\ m[U] \in Nat /\ z[k] \in Nat
        BY <1>0, <2>1
      <3> HIDE DEF U, V
      <3>5. m[S \cup V] = m[S] + m[V]
        BY <2>1, <3>2, <3>3, <3>4
      <3> QED
        BY <3>5 DEF V
    <2>3. CASE k \notin T
      <3>1. V = U
        BY <2>3
      <3>2. m[S \cup V] = m[S] + m[V]
        BY <2>1, <3>1
      <3> QED
        BY <3>2
    <2> QED
      BY <2>2, <2>3
  <1>3. n \in K
    <2>1. n \in 0..n
      OBVIOUS
    <2> HIDE DEF K
    <2> QED
      BY <1>1, <1>2, <2>1, IntervalInduction
  <1>4. T \cap 1..n = T
    OBVIOUS
  <1> QED
    BY <1>3, <1>4

LEMMA MeasuresBelow ==
    ASSUME NEW n \in Nat, NEW z, NEW m, Measures(m, z, n), \A i \in 1..n : z[i] \in Nat,
           NEW y, NEW l, Measures(l, y, n), \A i \in 1..n : y[i] \in Nat,
           NEW S \in SUBSET (1..n), \A i \in S : z[i] <= y[i]
    PROVE  m[S] <= l[S]
  <1> DEFINE K == {k \in 0..n : m[S \cap 1..k] <= l[S \cap 1..k]}
  <1>0. \A U \in SUBSET (1..n) : m[U] \in Nat /\ l[U] \in Nat
    BY DEF Measures
  <1>a. \A U \in SUBSET (1..n) : \A x \in U : m[U] = z[x] + m[U \ {x}]
    BY Zenon DEF Measures
  <1>b. \A U \in SUBSET (1..n) : \A x \in U : l[U] = y[x] + l[U \ {x}]
    BY Zenon DEF Measures
  <1>1. 0 \in K
    <2>1. S \cap 1..0 = {} /\ m[{}] = 0 /\ l[{}] = 0
      BY DEF Measures
    <2>2. m[S \cap 1..0] <= l[S \cap 1..0]
      BY <2>1
    <2> QED
      BY <2>2
  <1>2. ASSUME NEW k \in 1..n, k - 1 \in K PROVE k \in K
    <2> DEFINE U == S \cap 1..(k - 1)
               V == S \cap 1..k
    <2>1. m[U] <= l[U] /\ U \in SUBSET (1..n) /\ V \in SUBSET (1..n)
      BY <1>2
    <2>2. CASE k \in S
      <3>1. V \ {k} = U /\ k \in V
        BY <2>2
      <3>2. m[V] = z[k] + m[U]
        BY <1>a, <2>1, <3>1
      <3>3. l[V] = y[k] + l[U]
        BY <1>b, <2>1, <3>1, SMTT(20)
      <3>4. m[U] \in Nat /\ l[U] \in Nat /\ z[k] \in Nat /\ y[k] \in Nat /\ z[k] <= y[k]
        BY <1>0, <2>1, <2>2
      <3> HIDE DEF U, V
      <3>5. m[V] <= l[V]
        BY <2>1, <3>2, <3>3, <3>4
      <3> QED
        BY <3>5 DEF V
    <2>3. CASE k \notin S
      <3>1. V = U
        BY <2>3
      <3>2. m[V] <= l[V]
        BY <2>1, <3>1
      <3> QED
        BY <3>2
    <2> QED
      BY <2>2, <2>3
  <1>3. n \in K
    <2>1. n \in 0..n
      OBVIOUS
    <2> HIDE DEF K
    <2> QED
      BY <1>1, <1>2, <2>1, IntervalInduction
  <1>4. S \cap 1..n = S
    OBVIOUS
  <1> QED
    BY <1>3, <1>4

\* The weights of some attempts, nothing for the others.
Filled(w, S, n) == [i \in 1..n |-> IF i \in S THEN w[i] ELSE 0]

LEMMA FilledMeasure ==
    ASSUME NEW n \in Nat, NEW S \in SUBSET (1..n), NEW w, \A i \in S : w[i] \in Nat
    PROVE  /\ \A i \in 1..n : Filled(w, S, n)[i] \in Nat
           /\ \A i \in S : w[i] = Filled(w, S, n)[i]
           /\ \E m : Measures(m, Filled(w, S, n), n)
  <1>1. \A i \in 1..n : Filled(w, S, n)[i] = IF i \in S THEN w[i] ELSE 0
    BY DEF Filled
  <1>2. \A i \in 1..n : Filled(w, S, n)[i] \in Nat
    BY <1>1
  <1>3. \A i \in S : w[i] = Filled(w, S, n)[i]
    BY <1>1
  <1>4. \E m : Measures(m, Filled(w, S, n), n)
    BY <1>2, MeasuresExist
  <1> QED
    BY <1>2, <1>3, <1>4

LEMMA TotalAdds ==
    ASSUME NEW n \in Nat, NEW S \in SUBSET (1..n), NEW T \in SUBSET (1..n), S \cap T = {},
           NEW w, \A i \in S \cup T : w[i] \in Nat
    PROVE  /\ TotalOf(w, S \cup T) = TotalOf(w, S) + TotalOf(w, T)
           /\ TotalOf(w, S) \in Nat /\ TotalOf(w, T) \in Nat
  <1> DEFINE z == Filled(w, S \cup T, n)
  <1>1. /\ \A i \in 1..n : z[i] \in Nat
        /\ \A i \in S \cup T : w[i] = z[i]
        /\ \E m : Measures(m, z, n)
    BY FilledMeasure
  <1> HIDE DEF z
  <1>2. PICK m : Measures(m, z, n)
    BY <1>1
  <1>3. m[S \cup T] = m[S] + m[T]
    BY <1>1, <1>2, MeasuresAdd
  <1>4. S \cup T \in SUBSET (1..n)
    OBVIOUS
  <1>5. TotalOf(w, S \cup T) = m[S \cup T]
    BY <1>1, <1>2, <1>4, TotalIsMeasure
  <1>6. TotalOf(w, S) = m[S] /\ TotalOf(w, T) = m[T]
    BY <1>1, <1>2, TotalIsMeasure
  <1>7. m[S] \in Nat /\ m[T] \in Nat
    BY <1>2 DEF Measures
  <1> QED
    BY <1>3, <1>5, <1>6, <1>7

LEMMA TotalOfFew ==
    ASSUME NEW n \in Nat, NEW w, NEW i \in 1..n
    PROVE  /\ TotalOf(w, {}) = 0
           /\ w[i] \in Nat => TotalOf(w, {i}) = w[i]
  <1>1. TotalOf(w, {}) = 0
    <2> DEFINE z == Filled(w, {}, n)
    <2>1. /\ {} \in SUBSET (1..n)
          /\ \A j \in {} : w[j] = z[j]
          /\ \E m : Measures(m, z, n)
      BY FilledMeasure
    <2> HIDE DEF z
    <2>2. PICK m : Measures(m, z, n)
      BY <2>1
    <2>3. TotalOf(w, {}) = m[{}]
      BY <2>1, <2>2, TotalIsMeasure
    <2>4. m[{}] = 0
      BY <2>2 DEF Measures
    <2> QED
      BY <2>3, <2>4
  <1>2. ASSUME w[i] \in Nat PROVE TotalOf(w, {i}) = w[i]
    <2> DEFINE z == Filled(w, {i}, n)
    <2>0. {i} \in SUBSET (1..n) /\ \A j \in {i} : w[j] \in Nat
      BY <1>2
    <2>1. /\ {i} \in SUBSET (1..n)
          /\ \A j \in {i} : w[j] = z[j]
          /\ \E m : Measures(m, z, n)
      BY <2>0, FilledMeasure
    <2> HIDE DEF z
    <2>2. PICK m : Measures(m, z, n)
      BY <2>1
    <2>3. m[{i}] = z[i] + m[{i} \ {i}] /\ {i} \ {i} = {} /\ m[{}] = 0
      BY <2>2 DEF Measures
    <2>4. TotalOf(w, {i}) = m[{i}]
      BY <2>1, <2>2, TotalIsMeasure
    <2> QED
      BY <1>2, <2>1, <2>3, <2>4
  <1> QED
    BY <1>1, <1>2

LEMMA TotalsCompare ==
    ASSUME NEW n \in Nat, NEW S \in SUBSET (1..n), NEW w, NEW v,
           \A i \in S : w[i] \in Nat /\ v[i] \in Nat
    PROVE  /\ (\A i \in S : w[i] <= v[i]) => TotalOf(w, S) <= TotalOf(v, S)
           /\ (\A i \in S : w[i] = v[i]) => TotalOf(w, S) = TotalOf(v, S)
           /\ TotalOf(w, S) \in Nat
  <1> DEFINE z == Filled(w, S, n)
             y == Filled(v, S, n)
  <1>1. /\ \A i \in 1..n : z[i] \in Nat
        /\ \A i \in S : w[i] = z[i]
        /\ \E m : Measures(m, z, n)
    BY FilledMeasure
  <1>2. /\ \A i \in 1..n : y[i] \in Nat
        /\ \A i \in S : v[i] = y[i]
        /\ \E m : Measures(m, y, n)
    BY FilledMeasure
  <1> HIDE DEF z, y
  <1>3. PICK m : Measures(m, z, n)
    BY <1>1
  <1>4. PICK l : Measures(l, y, n)
    BY <1>2
  <1>5. TotalOf(w, S) = m[S] /\ TotalOf(v, S) = l[S] /\ m[S] \in Nat
    <2>1. TotalOf(w, S) = m[S]
      BY <1>1, <1>3, TotalIsMeasure
    <2>2. TotalOf(v, S) = l[S]
      BY <1>2, <1>4, TotalIsMeasure
    <2>3. m[S] \in Nat
      BY <1>3 DEF Measures
    <2> QED
      BY <2>1, <2>2, <2>3
  <1>6. (\A i \in S : w[i] <= v[i]) => m[S] <= l[S]
    BY <1>1, <1>2, <1>3, <1>4, MeasuresBelow
  <1>7. ASSUME \A i \in S : w[i] = v[i] PROVE TotalOf(w, S) = TotalOf(v, S)
    <2>1. \A i \in S : v[i] = z[i]
      BY <1>1, <1>7
    <2>2. TotalOf(v, S) = m[S]
      BY <1>3, <2>1, TotalIsMeasure
    <2> QED
      BY <1>5, <2>2
  <1> QED
    BY <1>5, <1>6, <1>7

-----------------------------------------------------------------------------
(* Usage: what a rollup is made of.                                         *)

AttemptOK(a) ==
    /\ a.outcome \in Outcomes
    /\ {a.record.input, a.record.cached, a.record.write} \subseteq {None} \cup (0..MaxTokens)
    /\ a.record.accuracy \in Accuracies
    /\ a.cost.known \in BOOLEAN
    /\ a.cost.known => /\ a.cost.amount \in 0..MaxTokens /\ a.cost.currency \in Currencies
                       /\ a.cost.accuracy = a.record.accuracy
AttemptsOK(ats) ==
    /\ Len(ats) \in Nat /\ DOMAIN ats = 1..Len(ats)
    /\ \A i \in 1..Len(ats) : AttemptOK(ats[i])

BadRecord(r) ==
    /\ None \notin {r.input, r.cached}
    /\ r.cached > r.input \/ (r.write # None /\ r.cached + r.write > r.input)
GoodRecord(r) == ~BadRecord(r) /\ None \notin {r.input, r.cached} /\ r.input # 0

InputOf(ats) == [i \in DOMAIN ats |-> ats[i].record.input]
CachedOf(ats) == [i \in DOMAIN ats |-> ats[i].record.cached]
AmountOf(ats) == [i \in DOMAIN ats |-> ats[i].cost.amount]

\* The attempts that count for each number of a rollup.
EndedSo(ats, o) == {i \in DOMAIN ats : ats[i].outcome = o}
Metered(ats, a) == {i \in DOMAIN ats : ats[i].record.input # None /\ ats[i].record.accuracy = a}
Unmetered(ats) == {i \in DOMAIN ats : ats[i].record.input = None}
Rated(ats, a) == {i \in DOMAIN ats : GoodRecord(ats[i].record) /\ ats[i].record.accuracy = a}
Unrated(ats) == {i \in DOMAIN ats : ~BadRecord(ats[i].record) /\ ~GoodRecord(ats[i].record)}
Misrated(ats) == {i \in DOMAIN ats : BadRecord(ats[i].record)}
Costed(ats, c, a) ==
    {i \in DOMAIN ats : ats[i].cost.known /\ ats[i].record.accuracy = a /\ ats[i].cost.currency = c}
Uncosted(ats) == {i \in DOMAIN ats : ~ats[i].cost.known}

Tokens(ats, S) ==
    [sum |-> [a \in Accuracies |-> Capped(TotalOf(InputOf(ats), S \cap Metered(ats, a)))],
     unknown |-> Cardinality(S \cap Unmetered(ats))]
Read(ats, S) ==
    [over |-> [a \in Accuracies |->
                IF Capped(TotalOf(InputOf(ats), S \cap Rated(ats, a))) # None
                THEN Capped(TotalOf(CachedOf(ats), S \cap Rated(ats, a))) ELSE None],
     under |-> [a \in Accuracies |-> Capped(TotalOf(InputOf(ats), S \cap Rated(ats, a)))],
     unknown |-> Cardinality(S \cap Unrated(ats)), inconsistent |-> Cardinality(S \cap Misrated(ats))]
Cost(ats, S, c) ==
    [sum |-> [a \in Accuracies |-> Capped(TotalOf(AmountOf(ats), S \cap Costed(ats, c, a)))],
     unknown |-> 0]
Parts(ats, S) ==
    [outcomes |-> [o \in Outcomes |-> Cardinality(S \cap EndedSo(ats, o))],
     tokens |-> Tokens(ats, S), read |-> Read(ats, S),
     costs |-> [c \in Currencies |-> Cost(ats, S, c)],
     cost_unknown |-> Cardinality(S \cap Uncosted(ats))]

\* The weights of the attempts that count are naturals within the limit.
LEMMA WeightsFit ==
    ASSUME NEW ats, AttemptsOK(ats)
    PROVE  /\ \A a : \A i \in Metered(ats, a) : InputOf(ats)[i] \in 0..MaxTokens
           /\ \A a : \A i \in Rated(ats, a) :
                 /\ InputOf(ats)[i] \in 0..MaxTokens /\ CachedOf(ats)[i] \in 0..MaxTokens
                 /\ CachedOf(ats)[i] <= InputOf(ats)[i]
           /\ \A c, a : \A i \in Costed(ats, c, a) : AmountOf(ats)[i] \in 0..MaxTokens
  <1>1. \A i \in DOMAIN ats : AttemptOK(ats[i])
    BY DEF AttemptsOK
  <1>2. ASSUME NEW a, NEW i \in Metered(ats, a) PROVE InputOf(ats)[i] \in 0..MaxTokens
    <2>1. i \in DOMAIN ats /\ ats[i].record.input # None /\ InputOf(ats)[i] = ats[i].record.input
      BY DEF Metered, InputOf
    <2> QED
      BY <1>1, <2>1 DEF AttemptOK
  <1>3. ASSUME NEW a, NEW i \in Rated(ats, a)
        PROVE  /\ InputOf(ats)[i] \in 0..MaxTokens /\ CachedOf(ats)[i] \in 0..MaxTokens
               /\ CachedOf(ats)[i] <= InputOf(ats)[i]
    <2>1. /\ i \in DOMAIN ats /\ GoodRecord(ats[i].record)
          /\ InputOf(ats)[i] = ats[i].record.input /\ CachedOf(ats)[i] = ats[i].record.cached
      BY DEF Rated, InputOf, CachedOf
    <2>2. ats[i].record.input \in 0..MaxTokens /\ ats[i].record.cached \in 0..MaxTokens
      BY <1>1, <2>1 DEF AttemptOK, GoodRecord
    <2>3. ~(ats[i].record.cached > ats[i].record.input)
      BY <2>1 DEF GoodRecord, BadRecord
    <2>4. MaxTokens \in Nat
      BY UsageAssumption
    <2> DEFINE x == ats[i].record.input
               y == ats[i].record.cached
    <2>5. x \in 0..MaxTokens /\ y \in 0..MaxTokens /\ ~(y > x)
      BY <2>2, <2>3
    <2>6. InputOf(ats)[i] = x /\ CachedOf(ats)[i] = y
      BY <2>1
    <2> HIDE DEF x, y
    <2> QED
      BY <2>4, <2>5, <2>6
  <1>4. ASSUME NEW c, NEW a, NEW i \in Costed(ats, c, a) PROVE AmountOf(ats)[i] \in 0..MaxTokens
    <2>1. i \in DOMAIN ats /\ ats[i].cost.known /\ AmountOf(ats)[i] = ats[i].cost.amount
      BY DEF Costed, AmountOf
    <2> QED
      BY <1>1, <2>1 DEF AttemptOK
  <1> QED
    BY <1>2, <1>3, <1>4

LEMMA NaturalWeights ==
    ASSUME NEW ats, AttemptsOK(ats)
    PROVE  /\ \A a : \A i \in Metered(ats, a) : InputOf(ats)[i] \in Nat
           /\ \A a : \A i \in Rated(ats, a) : InputOf(ats)[i] \in Nat /\ CachedOf(ats)[i] \in Nat
           /\ \A c, a : \A i \in Costed(ats, c, a) : AmountOf(ats)[i] \in Nat
  <1>1. \A x \in 0..MaxTokens : x \in Nat
    BY UsageAssumption
  <1>2. /\ \A a : \A i \in Metered(ats, a) : InputOf(ats)[i] \in 0..MaxTokens
        /\ \A a : \A i \in Rated(ats, a) : InputOf(ats)[i] \in 0..MaxTokens /\ CachedOf(ats)[i] \in 0..MaxTokens
        /\ \A c, a : \A i \in Costed(ats, c, a) : AmountOf(ats)[i] \in 0..MaxTokens
    BY WeightsFit, Zenon
  <1> QED
    BY <1>1, <1>2, Zenon

LEMMA SameTotal ==
    ASSUME NEW n \in Nat, NEW S \in SUBSET (1..n), NEW w, NEW v,
           \A i \in S : w[i] \in Nat, \A i \in S : w[i] = v[i]
    PROVE  TotalOf(v, S) = TotalOf(w, S)
  <1>1. \A i \in S : w[i] \in Nat /\ v[i] \in Nat
    OBVIOUS
  <1> QED
    BY <1>1, TotalsCompare

LEMMA DirectIsParts ==
    ASSUME NEW ats, AttemptsOK(ats), NEW S \in SUBSET (DOMAIN ats)
    PROVE  Direct(ats, S) = Parts(ats, S)
  <1> DEFINE input == [i \in S |-> ats[i].record.input]
             cached == [i \in S |-> ats[i].record.cached]
             amount == [i \in S |-> ats[i].cost.amount]
             bad == {i \in S : None \notin {input[i], cached[i]}
                    /\ (cached[i] > input[i] \/ (ats[i].record.write # None /\ cached[i] + ats[i].record.write > input[i]))}
             good == {i \in S \ bad : None \notin {input[i], cached[i]} /\ input[i] # 0}
             Of(T, a) == {i \in T : ats[i].record.accuracy = a}
             known == {i \in S : ats[i].cost.known}
             metered == {i \in S : input[i] # None}
             CostedBy(c, a) == {i \in Of(known, a) : ats[i].cost.currency = c}
             n == Len(ats)
  <1>0. n \in Nat /\ S \in SUBSET (1..n)
    BY DEF AttemptsOK
  <1>1. Direct(ats, S) =
         [outcomes |-> [o \in Outcomes |-> Cardinality({i \in S : ats[i].outcome = o})],
          tokens |-> [sum |-> [a \in Accuracies |-> Capped(TotalOf(input, Of(metered, a)))],
                      unknown |-> Cardinality({i \in S : input[i] = None})],
          read |-> [over |-> [a \in Accuracies |->
                        IF Capped(TotalOf(input, Of(good, a))) # None
                        THEN Capped(TotalOf(cached, Of(good, a))) ELSE None],
                    under |-> [a \in Accuracies |-> Capped(TotalOf(input, Of(good, a)))],
                    unknown |-> Cardinality(S \ (bad \cup good)), inconsistent |-> Cardinality(bad)],
          costs |-> [c \in Currencies |->
                      [sum |-> [a \in Accuracies |-> Capped(TotalOf(amount, CostedBy(c, a)))],
                       unknown |-> 0]],
          cost_unknown |-> Cardinality(S \ known)]
    BY Zenon DEF Direct, SumOver, TotalOf
  <1>2. /\ \A i \in S : input[i] = ats[i].record.input
        /\ \A i \in S : cached[i] = ats[i].record.cached
        /\ \A i \in S : amount[i] = ats[i].cost.amount
        /\ \A i \in S : input[i] = InputOf(ats)[i]
        /\ \A i \in S : cached[i] = CachedOf(ats)[i]
        /\ \A i \in S : amount[i] = AmountOf(ats)[i]
    BY DEF InputOf, CachedOf, AmountOf
  <1> HIDE DEF input, cached, amount
  <1>3. bad = S \cap Misrated(ats)
    BY <1>2 DEF Misrated, BadRecord
  <1>4. good = {i \in S : GoodRecord(ats[i].record)}
    <2>1. \A i \in S : i \in bad <=> BadRecord(ats[i].record)
      BY <1>3 DEF Misrated
    <2> HIDE DEF bad
    <2> QED
      BY <1>2, <2>1 DEF GoodRecord
  <1>5. S \ (bad \cup good) = S \cap Unrated(ats)
    <2>1. \A i \in S : i \in bad <=> BadRecord(ats[i].record)
      BY <1>3 DEF Misrated
    <2>2. \A i \in S : i \in good <=> GoodRecord(ats[i].record)
      BY <1>4
    <2>3. \A i \in S : i \in Unrated(ats) <=> ~BadRecord(ats[i].record) /\ ~GoodRecord(ats[i].record)
      BY DEF Unrated
    <2> HIDE DEF bad, good
    <2>4. \A i : i \in S \ (bad \cup good) <=> i \in S \cap Unrated(ats)
      BY <2>1, <2>2, <2>3, Zenon
    <2> QED
      BY <2>4, Zenon
  <1>6. ASSUME NEW a PROVE Of(good, a) = S \cap Rated(ats, a)
    <2> HIDE DEF bad, good
    <2> QED
      BY <1>4 DEF Rated
  <1>7. ASSUME NEW a PROVE Of(metered, a) = S \cap Metered(ats, a)
    BY <1>2 DEF Metered
  <1>8. {i \in S : input[i] = None} = S \cap Unmetered(ats)
    BY <1>2 DEF Unmetered
  <1>9. ASSUME NEW c, NEW a PROVE CostedBy(c, a) = S \cap Costed(ats, c, a)
    BY DEF Costed
  <1>10. S \ known = S \cap Uncosted(ats)
    BY DEF Uncosted
  <1>11. ASSUME NEW o PROVE {i \in S : ats[i].outcome = o} = S \cap EndedSo(ats, o)
    <2>1. \A i : i \in {j \in S : ats[j].outcome = o} <=> i \in S \cap EndedSo(ats, o)
      <3>1. \A i : i \in EndedSo(ats, o) <=> i \in DOMAIN ats /\ ats[i].outcome = o
        BY Zenon DEF EndedSo
      <3>2. \A i : i \in S => i \in DOMAIN ats
        OBVIOUS
      <3>3. \A i : i \in {j \in S : ats[j].outcome = o} <=> i \in S /\ ats[i].outcome = o
        BY Zenon
      <3> QED
        BY <3>1, <3>2, <3>3, Zenon
    <2> QED
      BY <2>1, Zenon
  <1>w. /\ \A a : \A i \in Metered(ats, a) : InputOf(ats)[i] \in Nat
        /\ \A a : \A i \in Rated(ats, a) : InputOf(ats)[i] \in Nat /\ CachedOf(ats)[i] \in Nat
        /\ \A c, a : \A i \in Costed(ats, c, a) : AmountOf(ats)[i] \in Nat
    BY NaturalWeights
  <1>12. ASSUME NEW a PROVE TotalOf(input, S \cap Metered(ats, a)) = TotalOf(InputOf(ats), S \cap Metered(ats, a))
    <2>1. \A i \in S \cap Metered(ats, a) : InputOf(ats)[i] \in Nat
      BY <1>w
    <2>2. \A i \in S \cap Metered(ats, a) : InputOf(ats)[i] = input[i]
      BY <1>2
    <2>3. S \cap Metered(ats, a) \in SUBSET (1..n)
      BY <1>0
    <2> QED
      BY <1>0, <2>1, <2>2, <2>3, SameTotal
  <1>13. ASSUME NEW a
         PROVE /\ TotalOf(input, S \cap Rated(ats, a)) = TotalOf(InputOf(ats), S \cap Rated(ats, a))
               /\ TotalOf(cached, S \cap Rated(ats, a)) = TotalOf(CachedOf(ats), S \cap Rated(ats, a))
    <2>1. \A i \in S \cap Rated(ats, a) : InputOf(ats)[i] \in Nat /\ CachedOf(ats)[i] \in Nat
      BY <1>w
    <2>2. \A i \in S \cap Rated(ats, a) : InputOf(ats)[i] = input[i] /\ CachedOf(ats)[i] = cached[i]
      BY <1>2
    <2>3. S \cap Rated(ats, a) \in SUBSET (1..n)
      BY <1>0
    <2>4. TotalOf(input, S \cap Rated(ats, a)) = TotalOf(InputOf(ats), S \cap Rated(ats, a))
      BY <1>0, <2>1, <2>2, <2>3, SameTotal
    <2>5. TotalOf(cached, S \cap Rated(ats, a)) = TotalOf(CachedOf(ats), S \cap Rated(ats, a))
      BY <1>0, <2>1, <2>2, <2>3, SameTotal
    <2> QED
      BY <2>4, <2>5
  <1>14. ASSUME NEW c, NEW a
         PROVE TotalOf(amount, S \cap Costed(ats, c, a)) = TotalOf(AmountOf(ats), S \cap Costed(ats, c, a))
    <2>1. \A i \in S \cap Costed(ats, c, a) : AmountOf(ats)[i] \in Nat
      BY <1>w
    <2>2. \A i \in S \cap Costed(ats, c, a) : AmountOf(ats)[i] = amount[i]
      BY <1>2
    <2>3. S \cap Costed(ats, c, a) \in SUBSET (1..n)
      BY <1>0
    <2> QED
      BY <1>0, <2>1, <2>2, <2>3, SameTotal
  <1> HIDE DEF bad, good, Of, known, metered, CostedBy
  <1>15. [a \in Accuracies |-> Capped(TotalOf(input, Of(metered, a)))]
          = [a \in Accuracies |-> Capped(TotalOf(InputOf(ats), S \cap Metered(ats, a)))]
    <2> DEFINE X(a) == TotalOf(input, Of(metered, a))
               Y(a) == TotalOf(InputOf(ats), S \cap Metered(ats, a))
    <2>1. \A a : X(a) = Y(a)
      BY <1>7, <1>12, Zenon
    <2> HIDE DEF X, Y
    <2>2. [a \in Accuracies |-> Capped(X(a))] = [a \in Accuracies |-> Capped(Y(a))]
      BY <2>1
    <2> QED
      BY <2>2, Zenon DEF X, Y
  <1>16. /\ [a \in Accuracies |-> IF Capped(TotalOf(input, Of(good, a))) # None
                        THEN Capped(TotalOf(cached, Of(good, a))) ELSE None]
              = [a \in Accuracies |->
                    IF Capped(TotalOf(InputOf(ats), S \cap Rated(ats, a))) # None
                    THEN Capped(TotalOf(CachedOf(ats), S \cap Rated(ats, a))) ELSE None]
         /\ [a \in Accuracies |-> Capped(TotalOf(input, Of(good, a)))]
              = [a \in Accuracies |-> Capped(TotalOf(InputOf(ats), S \cap Rated(ats, a)))]
    <2> DEFINE X(a) == TotalOf(input, Of(good, a))
               Y(a) == TotalOf(InputOf(ats), S \cap Rated(ats, a))
               V(a) == TotalOf(cached, Of(good, a))
               W(a) == TotalOf(CachedOf(ats), S \cap Rated(ats, a))
    <2>1. \A a : X(a) = Y(a) /\ V(a) = W(a)
      BY <1>6, <1>13, Zenon
    <2> HIDE DEF X, Y, V, W
    <2>2. /\ [a \in Accuracies |-> IF Capped(X(a)) # None THEN Capped(V(a)) ELSE None]
              = [a \in Accuracies |-> IF Capped(Y(a)) # None THEN Capped(W(a)) ELSE None]
          /\ [a \in Accuracies |-> Capped(X(a))] = [a \in Accuracies |-> Capped(Y(a))]
      BY <2>1
    <2> QED
      BY <2>2, Zenon DEF X, Y, V, W
  <1>18. ASSUME NEW c
         PROVE [a \in Accuracies |-> Capped(TotalOf(amount, CostedBy(c, a)))]
                = [a \in Accuracies |-> Capped(TotalOf(AmountOf(ats), S \cap Costed(ats, c, a)))]
    <2> DEFINE X(a) == TotalOf(amount, CostedBy(c, a))
               Y(a) == TotalOf(AmountOf(ats), S \cap Costed(ats, c, a))
    <2>1. \A a : X(a) = Y(a)
      BY <1>9, <1>14, Zenon
    <2> HIDE DEF X, Y
    <2>2. [a \in Accuracies |-> Capped(X(a))] = [a \in Accuracies |-> Capped(Y(a))]
      BY <2>1
    <2> QED
      BY <2>2, Zenon DEF X, Y
  <1>19. [c \in Currencies |->
                      [sum |-> [a \in Accuracies |-> Capped(TotalOf(amount, CostedBy(c, a)))],
                       unknown |-> 0]] = [c \in Currencies |-> Cost(ats, S, c)]
    BY <1>18 DEF Cost
  <1>20. [o \in Outcomes |-> Cardinality({i \in S : ats[i].outcome = o})]
          = [o \in Outcomes |-> Cardinality(S \cap EndedSo(ats, o))]
    BY <1>11, Zenon
  <1> QED
    BY <1>1, <1>3, <1>5, <1>8, <1>10, <1>15, <1>16, <1>19, <1>20 DEF Parts, Tokens, Read

-----------------------------------------------------------------------------
(* Usage: rollups of disjoint sets of attempts add up.                      *)

Part(ats, S) == S \in SUBSET (DOMAIN ats)

\* V is made of two disjoint sets of the attempts.
Joins(ats, V, S, T) ==
    /\ AttemptsOK(ats)
    /\ S \in SUBSET (DOMAIN ats) /\ T \in SUBSET (DOMAIN ats) /\ S \cap T = {} /\ V = S \cup T
Weighs(w, F) == \A i \in F : w[i] \in Nat

LEMMA JoinedSets ==
    ASSUME NEW ats, NEW V, NEW S, NEW T, Joins(ats, V, S, T)
    PROVE  \E n \in Nat : S \in SUBSET (1..n) /\ T \in SUBSET (1..n) /\ S \cap T = {} /\ V = S \cup T
  BY DEF AttemptsOK, Joins

LEMMA Weights ==
    ASSUME NEW ats, AttemptsOK(ats)
    PROVE  /\ \A a : Weighs(InputOf(ats), Metered(ats, a))
           /\ \A a : Weighs(InputOf(ats), Rated(ats, a)) /\ Weighs(CachedOf(ats), Rated(ats, a))
           /\ \A c, a : Weighs(AmountOf(ats), Costed(ats, c, a))
  BY NaturalWeights, Zenon DEF Weighs

\* How many of S are in F, and what they weigh.
Count(S, F) == Cardinality(S \cap F)
Total(w, S, F) == TotalOf(w, S \cap F)

LEMMA CountAdds ==
    ASSUME NEW ats, NEW V, NEW S, NEW T, Joins(ats, V, S, T)
    PROVE  \A F : Count(V, F) = Count(S, F) + Count(T, F) /\ Count(S, F) \in Nat /\ Count(T, F) \in Nat
  <1> SUFFICES ASSUME NEW F
               PROVE  /\ Cardinality(V \cap F) = Cardinality(S \cap F) + Cardinality(T \cap F)
                      /\ Cardinality(S \cap F) \in Nat /\ Cardinality(T \cap F) \in Nat
    BY Zenon DEF Count
  <1>0. PICK n \in Nat : S \in SUBSET (1..n) /\ T \in SUBSET (1..n) /\ S \cap T = {} /\ V = S \cup T
    BY JoinedSets
  <1>1. IsFiniteSet(1..n)
    BY <1>0, FS_Interval
  <1>2. IsFiniteSet(S \cap F) /\ IsFiniteSet(T \cap F)
    <2>1. S \cap F \in SUBSET (1..n) /\ T \cap F \in SUBSET (1..n)
      BY <1>0
    <2> QED
      BY <1>1, <2>1, FS_Subset
  <1>3. /\ Cardinality(S \cap F) \in Nat /\ Cardinality(T \cap F) \in Nat
    BY <1>2, FS_CardinalityType
  <1>4. Cardinality((S \cap F) \cup (T \cap F))
          = Cardinality(S \cap F) + Cardinality(T \cap F) - Cardinality((S \cap F) \cap (T \cap F))
    BY <1>2, FS_Union
  <1>5. (S \cap F) \cap (T \cap F) = {} /\ (S \cap F) \cup (T \cap F) = (S \cup T) \cap F
    BY <1>0
  <1>6. Cardinality({}) = 0
    BY FS_EmptySet
  <1> DEFINE x == Cardinality(S \cap F)
             y == Cardinality(T \cap F)
  <1>7. Cardinality((S \cup T) \cap F) = x + y - 0
    BY <1>4, <1>5, <1>6
  <1>8. x \in Nat /\ y \in Nat
    BY <1>3
  <1> HIDE DEF x, y
  <1>9. x + y - 0 = x + y
    BY <1>8
  <1> QED
    BY <1>0, <1>7, <1>8, <1>9 DEF x, y

LEMMA FilteredTotalAdds ==
    ASSUME NEW ats, NEW V, NEW S, NEW T, Joins(ats, V, S, T), NEW F, NEW w, Weighs(w, F)
    PROVE  /\ Total(w, V, F) = Total(w, S, F) + Total(w, T, F)
           /\ Total(w, S, F) \in Nat /\ Total(w, T, F) \in Nat
  <1>0. PICK n \in Nat : S \in SUBSET (1..n) /\ T \in SUBSET (1..n) /\ S \cap T = {} /\ V = S \cup T
    BY JoinedSets
  <1>w. \A i \in F : w[i] \in Nat
    BY DEF Weighs
  <1>1. /\ S \cap F \in SUBSET (1..n) /\ T \cap F \in SUBSET (1..n)
        /\ (S \cap F) \cap (T \cap F) = {}
        /\ \A i \in (S \cap F) \cup (T \cap F) : w[i] \in Nat
    BY <1>0, <1>w
  <1>2. /\ TotalOf(w, (S \cap F) \cup (T \cap F)) = TotalOf(w, S \cap F) + TotalOf(w, T \cap F)
        /\ TotalOf(w, S \cap F) \in Nat /\ TotalOf(w, T \cap F) \in Nat
    BY <1>0, <1>1, TotalAdds
  <1>3. (S \cap F) \cup (T \cap F) = V \cap F
    BY <1>0
  <1> QED
    BY <1>2, <1>3 DEF Total

LEMMA CountOne ==
    ASSUME NEW n \in Nat, NEW i \in 1..n, NEW F
    PROVE  Count({i}, F) = IF i \in F THEN 1 ELSE 0
  <1>0. Count({i}, F) = Cardinality({i} \cap F)
    BY DEF Count
  <1>1. CASE i \in F
    <2>1. {i} \cap F = {i}
      BY <1>1
    <2>2. Cardinality({i}) = 1
      BY FS_Singleton
    <2> QED
      BY <1>0, <1>1, <2>1, <2>2
  <1>2. CASE i \notin F
    <2>1. {i} \cap F = {}
      BY <1>2
    <2>2. Cardinality({}) = 0
      BY FS_EmptySet
    <2> QED
      BY <1>0, <1>2, <2>1, <2>2
  <1> QED
    BY <1>1, <1>2

LEMMA FilteredTotalOne ==
    ASSUME NEW n \in Nat, NEW i \in 1..n, NEW F, NEW w, Weighs(w, F)
    PROVE  Total(w, {i}, F) = IF i \in F THEN w[i] ELSE 0
  <1>0. Total(w, {i}, F) = TotalOf(w, {i} \cap F)
    BY DEF Total
  <1>1. CASE i \in F
    <2>1. {i} \cap F = {i} /\ w[i] \in Nat
      BY <1>1 DEF Weighs
    <2> QED
      BY <1>0, <1>1, <2>1, TotalOfFew
  <1>2. CASE i \notin F
    <2>1. {i} \cap F = {}
      BY <1>2
    <2> QED
      BY <1>0, <1>2, <2>1, TotalOfFew
  <1> QED
    BY <1>1, <1>2

\* Checked sums: an overflow stays one.
LEMMA CappedAdd ==
    ASSUME NEW x \in Nat, NEW y \in Nat
    PROVE  Add(Capped(x), Capped(y)) = Capped(x + y)
  BY UsageAssumption DEF Add, Capped, None

LEMMA CappedFits ==
    ASSUME NEW x \in 0..MaxTokens
    PROVE  Capped(x) = x /\ x \in Nat
  BY UsageAssumption DEF Capped

Over(u, o) == IF Capped(u) # None THEN Capped(o) ELSE None

LEMMA RatioAdd ==
    ASSUME NEW x \in Nat, NEW y \in Nat, NEW p \in Nat, NEW q \in Nat, p <= x, q <= y
    PROVE  LET v == Add(Over(x, p), Over(y, q))
               d == Add(Capped(x), Capped(y))
           IN  /\ (IF None \in {v, d} THEN None ELSE v) = Over(x + y, p + q)
               /\ (IF None \in {v, d} THEN None ELSE d) = Capped(x + y)
  <1> DEFINE v == Add(Over(x, p), Over(y, q))
             d == Add(Capped(x), Capped(y))
  <1>1. MaxTokens \in Nat
    BY UsageAssumption
  <1>2. CASE x + y <= MaxTokens
    <2>1. \A z \in {x, y, p, q, x + y, p + q} : z \in Nat /\ z <= MaxTokens
      BY <1>1, <1>2
    <2>2. \A z \in {x, y, p, q, x + y, p + q} : Capped(z) = z /\ z # None
      BY <1>1, <2>1 DEF Capped, None
    <2>3. Over(x, p) = p /\ Over(y, q) = q /\ Over(x + y, p + q) = p + q
      BY <2>2 DEF Over
    <2>4. d = x + y /\ v = p + q
      BY <2>2, <2>3 DEF Add
    <2> HIDE DEF v, d
    <2>5. /\ (IF None \in {v, d} THEN None ELSE v) = Over(x + y, p + q)
          /\ (IF None \in {v, d} THEN None ELSE d) = Capped(x + y)
      BY <2>2, <2>3, <2>4
    <2> QED
      BY <2>5, Zenon DEF v, d
  <1>3. CASE ~(x + y <= MaxTokens)
    <2>1. Capped(x + y) = None
      BY <1>1, <1>3 DEF Capped
    <2>2. d = None
      <3>1. ASSUME None \notin {Capped(x), Capped(y)} PROVE Capped(x) = x /\ Capped(y) = y
        BY <3>1 DEF Capped
      <3> QED
        BY <2>1, <3>1 DEF Add
    <2>3. Over(x + y, p + q) = None
      BY <2>1 DEF Over
    <2> HIDE DEF v, d
    <2>5. /\ (IF None \in {v, d} THEN None ELSE v) = Over(x + y, p + q)
          /\ (IF None \in {v, d} THEN None ELSE d) = Capped(x + y)
      BY <2>1, <2>2, <2>3
    <2> QED
      BY <2>5, Zenon DEF v, d
  <1> QED
    BY <1>2, <1>3

LEMMA RatioSet ==
    ASSUME NEW f, NEW g, NEW k, NEW m, NEW F, NEW G,
           NEW old, old = [over |-> f, under |-> g, unknown |-> k, inconsistent |-> m],
           NEW new, new = [old EXCEPT !.over = F, !.under = G]
    PROVE  new = [over |-> F, under |-> G, unknown |-> k, inconsistent |-> m]
  OBVIOUS

LEMMA TogetherIs ==
    ASSUME NEW f, NEW g, NEW k, NEW m
    PROVE  Together([over |-> f, under |-> g, unknown |-> k, inconsistent |-> m])
             = [over |-> [a \in Accuracies |-> IF None \in {f[a], g[a]} THEN None ELSE f[a]],
                under |-> [a \in Accuracies |-> IF None \in {f[a], g[a]} THEN None ELSE g[a]],
                unknown |-> k, inconsistent |-> m]
  <1> DEFINE ratio == [over |-> f, under |-> g, unknown |-> k, inconsistent |-> m]
             lost == {a \in Accuracies : None \in {ratio.over[a], ratio.under[a]}}
             F == [a \in Accuracies |-> IF a \in lost THEN None ELSE ratio.over[a]]
             G == [a \in Accuracies |-> IF a \in lost THEN None ELSE ratio.under[a]]
  <1>1. Together(ratio) = [ratio EXCEPT !.over = F, !.under = G]
    BY Zenon DEF Together
  <1>2. F = [a \in Accuracies |-> IF None \in {f[a], g[a]} THEN None ELSE f[a]]
    OBVIOUS
  <1>3. G = [a \in Accuracies |-> IF None \in {f[a], g[a]} THEN None ELSE g[a]]
    OBVIOUS
  <1> HIDE DEF F, G
  <1>4. [ratio EXCEPT !.over = F, !.under = G] = [over |-> F, under |-> G, unknown |-> k, inconsistent |-> m]
    <2> DEFINE new == [ratio EXCEPT !.over = F, !.under = G]
    <2>1. ratio = [over |-> f, under |-> g, unknown |-> k, inconsistent |-> m] /\ new = [ratio EXCEPT !.over = F, !.under = G]
      OBVIOUS
    <2> HIDE DEF new, ratio
    <2>2. new = [over |-> F, under |-> G, unknown |-> k, inconsistent |-> m]
      BY <2>1, RatioSet
    <2> QED
      BY <2>2 DEF new
  <1> QED
    BY <1>1, <1>2, <1>3, <1>4

\* What a rated attempt contributes, and what two sets of them do.
LEMMA RatedTotals ==
    ASSUME NEW ats, AttemptsOK(ats), NEW S, Part(ats, S), NEW a
    PROVE  /\ Total(InputOf(ats), S, Rated(ats, a)) \in Nat
           /\ Total(CachedOf(ats), S, Rated(ats, a)) \in Nat
           /\ Total(CachedOf(ats), S, Rated(ats, a)) <= Total(InputOf(ats), S, Rated(ats, a))
  <1> DEFINE U == S \cap Rated(ats, a)
             n == Len(ats)
             w == CachedOf(ats)
             v == InputOf(ats)
  <1>1. n \in Nat /\ U \in SUBSET (1..n)
    BY DEF AttemptsOK, Part
  <1>2. \A i \in U : w[i] \in Nat /\ v[i] \in Nat
    BY NaturalWeights
  <1>3. \A i \in U : w[i] <= v[i]
    BY WeightsFit
  <1> HIDE DEF n, U, w, v
  <1>4. TotalOf(w, U) <= TotalOf(v, U) /\ TotalOf(w, U) \in Nat
    BY <1>1, <1>2, <1>3, TotalsCompare
  <1>5. TotalOf(v, U) \in Nat
    BY <1>1, <1>2, TotalsCompare
  <1> QED
    BY <1>4, <1>5 DEF U, w, v, Total

LEMMA TokensMerge ==
    ASSUME NEW ats, NEW V, NEW S, NEW T, Joins(ats, V, S, T)
    PROVE  MergeQuantity(Tokens(ats, S), Tokens(ats, T)) = Tokens(ats, V)
  <1> DEFINE X(U, a) == Total(InputOf(ats), U, Metered(ats, a))
             N(U) == Count(U, Unmetered(ats))
  <1>0. AttemptsOK(ats) /\ Part(ats, S) /\ Part(ats, T)
    BY DEF Joins, Part
  <1>2. ASSUME NEW a PROVE X(V, a) = X(S, a) + X(T, a) /\ X(S, a) \in Nat /\ X(T, a) \in Nat
    <2>1. Weighs(InputOf(ats), Metered(ats, a))
      BY <1>0, Weights
    <2> QED
      BY <2>1, FilteredTotalAdds
  <1>3. N(V) = N(S) + N(T)
    <2> QED
      BY CountAdds
  <1>4. \A U : Tokens(ats, U) = [sum |-> [a \in Accuracies |-> Capped(X(U, a))], unknown |-> N(U)]
    BY Zenon DEF Tokens, Total, Count
  <1> HIDE DEF X, N
  <1>5. \A a : Add(Capped(X(S, a)), Capped(X(T, a))) = Capped(X(V, a))
    <2>1. ASSUME NEW a PROVE Add(Capped(X(S, a)), Capped(X(T, a))) = Capped(X(V, a))
      <3>1. X(S, a) \in Nat /\ X(T, a) \in Nat /\ X(V, a) = X(S, a) + X(T, a)
        BY <1>2
      <3>2. Add(Capped(X(S, a)), Capped(X(T, a))) = Capped(X(S, a) + X(T, a))
        BY <3>1, CappedAdd
      <3> QED
        BY <3>1, <3>2
    <2> QED
      BY <2>1
  <1>6. MergeQuantity(Tokens(ats, S), Tokens(ats, T)) =
          [sum |-> [a \in Accuracies |-> Add(Capped(X(S, a)), Capped(X(T, a)))], unknown |-> N(S) + N(T)]
    <2> DEFINE q == Tokens(ats, S)
               p == Tokens(ats, T)
    <2>1. /\ \A a \in Accuracies : q.sum[a] = Capped(X(S, a)) /\ p.sum[a] = Capped(X(T, a))
          /\ q.unknown = N(S) /\ p.unknown = N(T)
      BY <1>4
    <2> HIDE DEF q, p
    <2>2. MergeQuantity(q, p) =
            [sum |-> [a \in Accuracies |-> Add(q.sum[a], p.sum[a])], unknown |-> q.unknown + p.unknown]
      BY Zenon DEF MergeQuantity
    <2>3. [a \in Accuracies |-> Add(q.sum[a], p.sum[a])]
            = [a \in Accuracies |-> Add(Capped(X(S, a)), Capped(X(T, a)))]
      BY <2>1
    <2>4. MergeQuantity(q, p) =
            [sum |-> [a \in Accuracies |-> Add(Capped(X(S, a)), Capped(X(T, a)))], unknown |-> N(S) + N(T)]
      BY <2>1, <2>2, <2>3
    <2> QED
      BY <2>4 DEF q, p
  <1> QED
    BY <1>3, <1>4, <1>5, <1>6

LEMMA CostMerge ==
    ASSUME NEW ats, NEW V, NEW S, NEW T, Joins(ats, V, S, T),
           NEW c
    PROVE  MergeQuantity(Cost(ats, S, c), Cost(ats, T, c)) = Cost(ats, V, c)
  <1> DEFINE X(U, a) == Total(AmountOf(ats), U, Costed(ats, c, a))
  <1>0. AttemptsOK(ats) /\ Part(ats, S) /\ Part(ats, T)
    BY DEF Joins, Part
  <1>2. ASSUME NEW a PROVE X(V, a) = X(S, a) + X(T, a) /\ X(S, a) \in Nat /\ X(T, a) \in Nat
    <2>1. Weighs(AmountOf(ats), Costed(ats, c, a))
      BY <1>0, Weights
    <2> QED
      BY <2>1, FilteredTotalAdds
  <1>4. \A U : Cost(ats, U, c) = [sum |-> [a \in Accuracies |-> Capped(X(U, a))], unknown |-> 0]
    BY Zenon DEF Cost, Total
  <1> HIDE DEF X
  <1>5. \A a : Add(Capped(X(S, a)), Capped(X(T, a))) = Capped(X(V, a))
    <2>1. ASSUME NEW a PROVE Add(Capped(X(S, a)), Capped(X(T, a))) = Capped(X(V, a))
      <3>1. X(S, a) \in Nat /\ X(T, a) \in Nat /\ X(V, a) = X(S, a) + X(T, a)
        BY <1>2
      <3>2. Add(Capped(X(S, a)), Capped(X(T, a))) = Capped(X(S, a) + X(T, a))
        BY <3>1, CappedAdd
      <3> QED
        BY <3>1, <3>2
    <2> QED
      BY <2>1
  <1>6. MergeQuantity(Cost(ats, S, c), Cost(ats, T, c)) =
          [sum |-> [a \in Accuracies |-> Add(Capped(X(S, a)), Capped(X(T, a)))], unknown |-> 0]
    <2> DEFINE q == Cost(ats, S, c)
               p == Cost(ats, T, c)
    <2>1. /\ \A a \in Accuracies : q.sum[a] = Capped(X(S, a)) /\ p.sum[a] = Capped(X(T, a))
          /\ q.unknown = 0 /\ p.unknown = 0
      BY <1>4
    <2> HIDE DEF q, p
    <2>2. MergeQuantity(q, p) =
            [sum |-> [a \in Accuracies |-> Add(q.sum[a], p.sum[a])], unknown |-> q.unknown + p.unknown]
      BY Zenon DEF MergeQuantity
    <2>3. [a \in Accuracies |-> Add(q.sum[a], p.sum[a])]
            = [a \in Accuracies |-> Add(Capped(X(S, a)), Capped(X(T, a)))]
      BY <2>1
    <2>4. MergeQuantity(q, p) =
            [sum |-> [a \in Accuracies |-> Add(Capped(X(S, a)), Capped(X(T, a)))], unknown |-> 0]
      BY <2>1, <2>2, <2>3
    <2> QED
      BY <2>4 DEF q, p
  <1> QED
    BY <1>4, <1>5, <1>6

LEMMA ReadMerge ==
    ASSUME NEW ats, NEW V, NEW S, NEW T, Joins(ats, V, S, T)
    PROVE  MergeRatio(Read(ats, S), Read(ats, T)) = Read(ats, V)
  <1> DEFINE X(U, a) == Total(InputOf(ats), U, Rated(ats, a))
             P(U, a) == Total(CachedOf(ats), U, Rated(ats, a))
             N(U) == Count(U, Unrated(ats))
             M(U) == Count(U, Misrated(ats))
  <1>0. AttemptsOK(ats) /\ Part(ats, S) /\ Part(ats, T)
    BY DEF Joins, Part
  <1>2. ASSUME NEW a
        PROVE  /\ X(V, a) = X(S, a) + X(T, a) /\ P(V, a) = P(S, a) + P(T, a)
               /\ X(S, a) \in Nat /\ X(T, a) \in Nat /\ P(S, a) \in Nat /\ P(T, a) \in Nat
               /\ P(S, a) <= X(S, a) /\ P(T, a) <= X(T, a)
    <2>1. Weighs(InputOf(ats), Rated(ats, a))
      BY <1>0, Weights
    <2>2. Weighs(CachedOf(ats), Rated(ats, a))
      BY <1>0, Weights
    <2>3. X(V, a) = X(S, a) + X(T, a)
      <3> QED
        BY <2>1, FilteredTotalAdds
    <2>4. P(V, a) = P(S, a) + P(T, a)
      <3> QED
        BY <2>2, FilteredTotalAdds
    <2>5. X(S, a) \in Nat /\ P(S, a) \in Nat /\ P(S, a) <= X(S, a)
      BY <1>0, RatedTotals
    <2>6. X(T, a) \in Nat /\ P(T, a) \in Nat /\ P(T, a) <= X(T, a)
      BY <1>0, RatedTotals
    <2> QED
      BY <2>3, <2>4, <2>5, <2>6
  <1>3. N(V) = N(S) + N(T) /\ M(V) = M(S) + M(T)
    <2>1. N(V) = N(S) + N(T)
      BY CountAdds
    <2>2. M(V) = M(S) + M(T)
      BY CountAdds
    <2> QED
      BY <2>1, <2>2
  <1>4. \A U : Read(ats, U) = [over |-> [a \in Accuracies |-> Over(X(U, a), P(U, a))],
                              under |-> [a \in Accuracies |-> Capped(X(U, a))],
                              unknown |-> N(U), inconsistent |-> M(U)]
    BY Zenon DEF Read, Over, Total, Count
  <1> HIDE DEF X, P, N, M
  <1> DEFINE f == [a \in Accuracies |-> Add(Over(X(S, a), P(S, a)), Over(X(T, a), P(T, a)))]
             g == [a \in Accuracies |-> Add(Capped(X(S, a)), Capped(X(T, a)))]
             F == [a \in Accuracies |-> IF None \in {f[a], g[a]} THEN None ELSE f[a]]
             G == [a \in Accuracies |-> IF None \in {f[a], g[a]} THEN None ELSE g[a]]
  <1>5. MergeRatio(Read(ats, S), Read(ats, T)) =
          Together([over |-> f, under |-> g, unknown |-> N(S) + N(T), inconsistent |-> M(S) + M(T)])
    <2> DEFINE q == Read(ats, S)
               p == Read(ats, T)
    <2>1. /\ \A a \in Accuracies : q.over[a] = Over(X(S, a), P(S, a)) /\ p.over[a] = Over(X(T, a), P(T, a))
          /\ \A a \in Accuracies : q.under[a] = Capped(X(S, a)) /\ p.under[a] = Capped(X(T, a))
          /\ q.unknown = N(S) /\ p.unknown = N(T) /\ q.inconsistent = M(S) /\ p.inconsistent = M(T)
      BY <1>4
    <2> HIDE DEF q, p
    <2>2. MergeRatio(q, p) =
            Together([over |-> [a \in Accuracies |-> Add(q.over[a], p.over[a])],
                      under |-> [a \in Accuracies |-> Add(q.under[a], p.under[a])],
                      unknown |-> q.unknown + p.unknown, inconsistent |-> q.inconsistent + p.inconsistent])
      BY Zenon DEF MergeRatio
    <2>3. [a \in Accuracies |-> Add(q.over[a], p.over[a])] = f
      BY <2>1
    <2>4. [a \in Accuracies |-> Add(q.under[a], p.under[a])] = g
      BY <2>1
    <2> HIDE DEF f, g
    <2>5. MergeRatio(q, p) =
            Together([over |-> f, under |-> g, unknown |-> N(S) + N(T), inconsistent |-> M(S) + M(T)])
      BY <2>1, <2>2, <2>3, <2>4
    <2> QED
      BY <2>5 DEF q, p
  <1>6. Together([over |-> f, under |-> g, unknown |-> N(S) + N(T), inconsistent |-> M(S) + M(T)])
         = [over |-> F, under |-> G, unknown |-> N(S) + N(T), inconsistent |-> M(S) + M(T)]
    <2> HIDE DEF f, g
    <2> QED
      BY TogetherIs
  <1>7. ASSUME NEW a \in Accuracies
        PROVE  F[a] = Over(X(V, a), P(V, a)) /\ G[a] = Capped(X(V, a))
    <2> DEFINE v == Add(Over(X(S, a), P(S, a)), Over(X(T, a), P(T, a)))
               d == Add(Capped(X(S, a)), Capped(X(T, a)))
    <2>1. /\ (IF None \in {v, d} THEN None ELSE v) = Over(X(S, a) + X(T, a), P(S, a) + P(T, a))
          /\ (IF None \in {v, d} THEN None ELSE d) = Capped(X(S, a) + X(T, a))
      BY <1>2, RatioAdd, Zenon
    <2>2. f[a] = v /\ g[a] = d
      OBVIOUS
    <2> HIDE DEF v, d, f, g
    <2>3. /\ F[a] = IF None \in {v, d} THEN None ELSE v
          /\ G[a] = IF None \in {v, d} THEN None ELSE d
      BY <2>2
    <2> HIDE DEF F, G
    <2> QED
      BY <1>2, <2>1, <2>3
  <1>8. F = [a \in Accuracies |-> F[a]] /\ G = [a \in Accuracies |-> G[a]]
    <2> HIDE DEF f, g
    <2> QED
      OBVIOUS
  <1> HIDE DEF F, G
  <1>9. F = [a \in Accuracies |-> Over(X(V, a), P(V, a))]
    BY <1>7, <1>8
  <1>10. G = [a \in Accuracies |-> Capped(X(V, a))]
    BY <1>7, <1>8
  <1> QED
    BY <1>3, <1>4, <1>5, <1>6, <1>9, <1>10

LEMMA PartsMerge ==
    ASSUME NEW ats, NEW V, NEW S, NEW T, Joins(ats, V, S, T)
    PROVE  Merge(Parts(ats, S), Parts(ats, T)) = Parts(ats, V)
  <1> DEFINE N(U, o) == Count(U, EndedSo(ats, o))
             M(U) == Count(U, Uncosted(ats))
  <1>2. (\A o : N(V, o) = N(S, o) + N(T, o)) /\ M(V) = M(S) + M(T)
    <2>1. ASSUME NEW o PROVE N(V, o) = N(S, o) + N(T, o)
      BY CountAdds
    <2>2. M(V) = M(S) + M(T)
      BY CountAdds
    <2> QED
      BY <2>1, <2>2
  <1>3. \A U : Parts(ats, U) = [outcomes |-> [o \in Outcomes |-> N(U, o)],
                               tokens |-> Tokens(ats, U), read |-> Read(ats, U),
                               costs |-> [c \in Currencies |-> Cost(ats, U, c)], cost_unknown |-> M(U)]
    BY Zenon DEF Parts, Count
  <1> HIDE DEF N, M
  <1>4. Merge(Parts(ats, S), Parts(ats, T)) =
          [outcomes |-> [o \in Outcomes |-> N(S, o) + N(T, o)],
           tokens |-> MergeQuantity(Tokens(ats, S), Tokens(ats, T)),
           read |-> MergeRatio(Read(ats, S), Read(ats, T)),
           costs |-> [c \in Currencies |-> MergeQuantity(Cost(ats, S, c), Cost(ats, T, c))],
           cost_unknown |-> M(S) + M(T)]
    <2> DEFINE q == Parts(ats, S)
               p == Parts(ats, T)
    <2>1. /\ \A o \in Outcomes : q.outcomes[o] = N(S, o) /\ p.outcomes[o] = N(T, o)
          /\ q.tokens = Tokens(ats, S) /\ p.tokens = Tokens(ats, T)
          /\ q.read = Read(ats, S) /\ p.read = Read(ats, T)
          /\ \A c \in Currencies : q.costs[c] = Cost(ats, S, c) /\ p.costs[c] = Cost(ats, T, c)
          /\ q.cost_unknown = M(S) /\ p.cost_unknown = M(T)
      BY <1>3
    <2> HIDE DEF q, p
    <2>2. Merge(q, p) =
            [outcomes |-> [o \in Outcomes |-> q.outcomes[o] + p.outcomes[o]],
             tokens |-> MergeQuantity(q.tokens, p.tokens), read |-> MergeRatio(q.read, p.read),
             costs |-> [c \in Currencies |-> MergeQuantity(q.costs[c], p.costs[c])],
             cost_unknown |-> q.cost_unknown + p.cost_unknown]
      BY Zenon DEF Merge
    <2>3. [o \in Outcomes |-> q.outcomes[o] + p.outcomes[o]] = [o \in Outcomes |-> N(S, o) + N(T, o)]
      BY <2>1
    <2>4. [c \in Currencies |-> MergeQuantity(q.costs[c], p.costs[c])]
            = [c \in Currencies |-> MergeQuantity(Cost(ats, S, c), Cost(ats, T, c))]
      BY <2>1
    <2>5. Merge(q, p) =
            [outcomes |-> [o \in Outcomes |-> N(S, o) + N(T, o)],
             tokens |-> MergeQuantity(Tokens(ats, S), Tokens(ats, T)),
             read |-> MergeRatio(Read(ats, S), Read(ats, T)),
             costs |-> [c \in Currencies |-> MergeQuantity(Cost(ats, S, c), Cost(ats, T, c))],
             cost_unknown |-> M(S) + M(T)]
      BY <2>1, <2>2, <2>3, <2>4
    <2> QED
      BY <2>5 DEF q, p
  <1>5. [c \in Currencies |-> MergeQuantity(Cost(ats, S, c), Cost(ats, T, c))]
          = [c \in Currencies |-> Cost(ats, V, c)]
    <2>1. ASSUME NEW c PROVE MergeQuantity(Cost(ats, S, c), Cost(ats, T, c)) = Cost(ats, V, c)
      BY CostMerge
    <2> QED
      BY <2>1, Zenon
  <1>6. [o \in Outcomes |-> N(S, o) + N(T, o)] = [o \in Outcomes |-> N(V, o)]
    BY <1>2
  <1>7. MergeQuantity(Tokens(ats, S), Tokens(ats, T)) = Tokens(ats, V)
    BY TokensMerge
  <1>8. MergeRatio(Read(ats, S), Read(ats, T)) = Read(ats, V)
    BY ReadMerge
  <1> QED
    BY <1>2, <1>3, <1>4, <1>5, <1>6, <1>7, <1>8


-----------------------------------------------------------------------------
(* Usage: what one more attempt adds to a rollup.                           *)

LEMMA QuantityOne ==
    ASSUME NEW X, \A a \in Accuracies : X[a] \in Nat, NEW N \in Nat,
           NEW v \in {None} \cup (0..MaxTokens), NEW acc \in Accuracies,
           NEW q, q = [sum |-> [a \in Accuracies |-> Capped(X[a])], unknown |-> N]
    PROVE  ObserveQuantity(q, v, acc) =
             [sum |-> [a \in Accuracies |-> Capped(X[a] + IF v # None /\ a = acc THEN v ELSE 0)],
              unknown |-> N + IF v = None THEN 1 ELSE 0]
  <1> DEFINE Y == [a \in Accuracies |-> Capped(X[a] + IF v # None /\ a = acc THEN v ELSE 0)]
  <1>1. CASE v = None
    <2>1. ObserveQuantity(q, v, acc) = [q EXCEPT !.unknown = @ + 1]
      BY <1>1 DEF ObserveQuantity
    <2>2. Y = [a \in Accuracies |-> Capped(X[a])]
      <3>1. \A a \in Accuracies : X[a] + (IF v # None /\ a = acc THEN v ELSE 0) = X[a]
        BY <1>1
      <3> QED
        BY <3>1
    <2> HIDE DEF Y
    <2>3. [q EXCEPT !.unknown = @ + 1] = [sum |-> Y, unknown |-> N + 1]
      BY <2>2
    <2> QED
      BY <1>1, <2>1, <2>3 DEF Y
  <1>2. CASE v # None
    <2>1. ObserveQuantity(q, v, acc) = [q EXCEPT !.sum[acc] = Add(@, v)]
      BY <1>2 DEF ObserveQuantity
    <2>2. v \in 0..MaxTokens
      BY <1>2
    <2>3. v = Capped(v) /\ v \in Nat
      BY <2>2, CappedFits
    <2> DEFINE old == [a \in Accuracies |-> Capped(X[a])]
               Z == [old EXCEPT ![acc] = Add(@, v)]
    <2>4. \A a \in Accuracies : Z[a] = Y[a]
      <3>1. ASSUME NEW a \in Accuracies, a = acc PROVE Z[a] = Y[a]
        <4>1. Add(Capped(X[acc]), Capped(v)) = Capped(X[acc] + v)
          BY <2>3, CappedAdd
        <4>2. Z[a] = Add(Capped(X[acc]), v)
          BY <3>1
        <4>3. Y[a] = Capped(X[acc] + v)
          BY <1>2, <3>1
        <4> QED
          BY <2>3, <4>1, <4>2, <4>3
      <3>2. ASSUME NEW a \in Accuracies, a # acc PROVE Z[a] = Y[a]
        <4>1. Z[a] = Capped(X[a])
          BY <3>2
        <4>2. Y[a] = Capped(X[a] + 0)
          BY <3>2
        <4>3. X[a] + 0 = X[a]
          BY <3>2
        <4> QED
          BY <4>1, <4>2, <4>3
      <3> QED
        BY <3>1, <3>2
    <2>5. DOMAIN Z = Accuracies /\ DOMAIN Y = Accuracies
      OBVIOUS
    <2>6. Z = [a \in Accuracies |-> Z[a]] /\ Y = [a \in Accuracies |-> Y[a]]
      OBVIOUS
    <2>7. [q EXCEPT !.sum[acc] = Add(@, v)] = [sum |-> Z, unknown |-> N]
      OBVIOUS
    <2> HIDE DEF Z, Y
    <2>8. Z = Y
      BY <2>4, <2>6
    <2>9. N + 0 = N
      OBVIOUS
    <2> QED
      BY <1>2, <2>1, <2>7, <2>8, <2>9 DEF Y
  <1> QED
    BY <1>1, <1>2

\* The record of an attempt, as a rollup counts it.
Inconsistent(r) == None \notin {r.input, r.cached, r.write} /\ r.cached + r.write > r.input

LEMMA RecordKinds ==
    ASSUME NEW r, {r.input, r.cached, r.write} \subseteq {None} \cup (0..MaxTokens)
    PROVE  /\ Inconsistent(r) => BadRecord(r)
           /\ ~Inconsistent(r) /\ None \in {r.cached, r.input} => ~BadRecord(r) /\ ~GoodRecord(r)
           /\ ~Inconsistent(r) /\ None \notin {r.cached, r.input} /\ r.input = 0 /\ r.cached = 0
                => ~BadRecord(r) /\ ~GoodRecord(r)
           /\ ~Inconsistent(r) /\ None \notin {r.cached, r.input} /\ r.cached > r.input
                => BadRecord(r)
           /\ ~Inconsistent(r) /\ None \notin {r.cached, r.input} /\ ~(r.input = 0 /\ r.cached = 0)
                /\ ~(r.cached > r.input) => GoodRecord(r) /\ ~BadRecord(r)
           /\ BadRecord(r) => ~GoodRecord(r)
  <1>1. PICK x, y, w : x = r.input /\ y = r.cached /\ w = r.write
    OBVIOUS
  <1>2. {x, y, w} \subseteq {None} \cup (0..MaxTokens)
    BY <1>1
  <1>3. Inconsistent(r) <=> None \notin {x, y, w} /\ y + w > x
    BY <1>1 DEF Inconsistent
  <1>4. BadRecord(r) <=> /\ None \notin {x, y}
                         /\ y > x \/ (w # None /\ y + w > x)
    BY <1>1 DEF BadRecord
  <1>5. GoodRecord(r) <=> ~BadRecord(r) /\ None \notin {x, y} /\ x # 0
    BY <1>1 DEF GoodRecord
  <1> DEFINE bad == BadRecord(r)
             good == GoodRecord(r)
             odd == Inconsistent(r)
  <1>6. /\ odd <=> None \notin {x, y, w} /\ y + w > x
        /\ bad <=> /\ None \notin {x, y}
                   /\ y > x \/ (w # None /\ y + w > x)
        /\ good <=> ~bad /\ None \notin {x, y} /\ x # 0
    BY <1>3, <1>4, <1>5
  <1> HIDE DEF bad, good, odd
  <1>7. /\ odd => bad
        /\ ~odd /\ None \in {y, x} => ~bad /\ ~good
        /\ ~odd /\ None \notin {y, x} /\ x = 0 /\ y = 0 => ~bad /\ ~good
        /\ ~odd /\ None \notin {y, x} /\ y > x => bad
        /\ ~odd /\ None \notin {y, x} /\ ~(x = 0 /\ y = 0) /\ ~(y > x) => good /\ ~bad
        /\ bad => ~good
    BY <1>2, <1>6, UsageAssumption DEF None
  <1> QED
    BY <1>1, <1>7 DEF bad, good, odd

\* observe's share of a ratio.
RatioOf(ratio, r) ==
    IF Inconsistent(r) THEN [ratio EXCEPT !.inconsistent = @ + 1]
    ELSE ObserveRatio(ratio, r.cached, r.input, r.accuracy)

PutAdd(f, acc, n) == [f EXCEPT ![acc] = Add(@, n)]
RatioWith(q, acc, n, d) == [q EXCEPT !.over[acc] = Add(@, n), !.under[acc] = Add(@, d)]

LEMMA RatioPut ==
    ASSUME NEW f, NEW g, NEW k, NEW m, NEW acc, NEW n, NEW d
    PROVE  RatioWith([over |-> f, under |-> g, unknown |-> k, inconsistent |-> m], acc, n, d)
             = [over |-> PutAdd(f, acc, n), under |-> PutAdd(g, acc, d), unknown |-> k, inconsistent |-> m]
  <1> DEFINE q == [over |-> f, under |-> g, unknown |-> k, inconsistent |-> m]
             f2 == [f EXCEPT ![acc] = Add(@, n)]
             g2 == [g EXCEPT ![acc] = Add(@, d)]
             p == [q EXCEPT !.over[acc] = Add(@, n)]
  <1>1. p = [q EXCEPT !.over = f2]
    OBVIOUS
  <1>2. [p EXCEPT !.under[acc] = Add(@, d)] = [p EXCEPT !.under = g2]
    <2>1. p.under = g
      OBVIOUS
    <2> HIDE DEF p
    <2> QED
      BY <2>1
  <1>0. RatioWith(q, acc, n, d) = [p EXCEPT !.under[acc] = Add(@, d)]
    BY Zenon DEF RatioWith
  <1>3. RatioWith(q, acc, n, d) = [q EXCEPT !.over = f2, !.under = g2]
    <2> HIDE DEF p, f2, g2, q
    <2> QED
      BY <1>0, <1>1, <1>2
  <1> DEFINE new == [q EXCEPT !.over = f2, !.under = g2]
  <1>4. new = [over |-> f2, under |-> g2, unknown |-> k, inconsistent |-> m]
    <2>1. new = [q EXCEPT !.over = f2, !.under = g2]
      OBVIOUS
    <2>2. q = [over |-> f, under |-> g, unknown |-> k, inconsistent |-> m]
      OBVIOUS
    <2> HIDE DEF new, f2, g2, q
    <2> QED
      BY <2>1, <2>2, RatioSet
  <1>5. f2 = PutAdd(f, acc, n) /\ g2 = PutAdd(g, acc, d)
    BY Zenon DEF PutAdd
  <1> HIDE DEF q, f2, g2
  <1>6. RatioWith(q, acc, n, d) = [over |-> f2, under |-> g2, unknown |-> k, inconsistent |-> m]
    BY <1>3, <1>4
  <1> QED
    BY <1>5, <1>6 DEF q

\* A ratio of sums, before and after one record.
Rate(X, P, N, M) ==
    [over |-> [a \in Accuracies |-> Over(X[a], P[a])], under |-> [a \in Accuracies |-> Capped(X[a])],
     unknown |-> N, inconsistent |-> M]
Within(X, P) == \A a \in Accuracies : X[a] \in Nat /\ P[a] \in Nat /\ P[a] <= X[a]
Measured(r) ==
    {r.input, r.cached, r.write} \subseteq {None} \cup (0..MaxTokens) /\ r.accuracy \in Accuracies
NextRate(X, P, N, M, r) ==
    [over |-> [a \in Accuracies |->
                Over(X[a] + IF GoodRecord(r) /\ a = r.accuracy THEN r.input ELSE 0,
                     P[a] + IF GoodRecord(r) /\ a = r.accuracy THEN r.cached ELSE 0)],
     under |-> [a \in Accuracies |->
                Capped(X[a] + IF GoodRecord(r) /\ a = r.accuracy THEN r.input ELSE 0)],
     unknown |-> N + IF ~BadRecord(r) /\ ~GoodRecord(r) THEN 1 ELSE 0,
     inconsistent |-> M + IF BadRecord(r) THEN 1 ELSE 0]

LEMMA RatioOne ==
    ASSUME NEW X, NEW P, Within(X, P), NEW N \in Nat, NEW M \in Nat, NEW r, Measured(r)
    PROVE  RatioOf(Rate(X, P, N, M), r) = NextRate(X, P, N, M, r)
  <1> DEFINE q == Rate(X, P, N, M)
  <1> USE DEF Within, Measured
  <1>q. q = [over |-> [a \in Accuracies |-> Over(X[a], P[a])],
             under |-> [a \in Accuracies |-> Capped(X[a])], unknown |-> N, inconsistent |-> M]
    BY DEF Rate
  <1> HIDE DEF q
  <1> DEFINE x(a) == X[a] + IF GoodRecord(r) /\ a = r.accuracy THEN r.input ELSE 0
             p(a) == P[a] + IF GoodRecord(r) /\ a = r.accuracy THEN r.cached ELSE 0
             F == [a \in Accuracies |-> Over(x(a), p(a))]
             G == [a \in Accuracies |-> Capped(x(a))]
  <1>n. NextRate(X, P, N, M, r) =
          [over |-> F, under |-> G, unknown |-> N + IF ~BadRecord(r) /\ ~GoodRecord(r) THEN 1 ELSE 0,
           inconsistent |-> M + IF BadRecord(r) THEN 1 ELSE 0]
    BY Zenon DEF NextRate
  <1>1. ASSUME ~GoodRecord(r)
        PROVE  F = q.over /\ G = q.under
    <2>1. \A a \in Accuracies : x(a) = X[a] /\ p(a) = P[a]
      BY <1>1
    <2> HIDE DEF x, p
    <2> QED
      BY <1>q, <2>1
  <1>2. CASE BadRecord(r)
    <2>1. ~GoodRecord(r)
      BY <1>2, RecordKinds
    <2>2. RatioOf(q, r) = [q EXCEPT !.inconsistent = @ + 1]
      <3>1. CASE Inconsistent(r)
        BY <3>1 DEF RatioOf
      <3>2. CASE ~Inconsistent(r)
        <4>1. None \notin {r.cached, r.input}
          BY <1>2 DEF BadRecord
        <4>2. ~(r.input = 0 /\ r.cached = 0)
          BY <1>2, <3>2, <4>1, RecordKinds
        <4>3. r.cached > r.input
          BY <1>2, <3>2, <4>1, <4>2, RecordKinds
        <4>4. ObserveRatio(q, r.cached, r.input, r.accuracy) = [q EXCEPT !.inconsistent = @ + 1]
          BY <4>1, <4>2, <4>3 DEF ObserveRatio
        <4> QED
          BY <3>2, <4>4 DEF RatioOf
      <3> QED
        BY <3>1, <3>2
    <2>3. F = q.over /\ G = q.under
      BY <1>1, <2>1
    <2>4. q = [over |-> F, under |-> G, unknown |-> N, inconsistent |-> M]
      BY <1>q, <2>3
    <2> HIDE DEF F, G
    <2>5. [q EXCEPT !.inconsistent = @ + 1] = [over |-> F, under |-> G, unknown |-> N, inconsistent |-> M + 1]
      BY <2>4
    <2>6. N + 0 = N
      OBVIOUS
    <2> QED
      BY <1>2, <2>1, <2>2, <2>5, <2>6, <1>n DEF q
  <1>3. CASE ~BadRecord(r) /\ ~GoodRecord(r)
    <2>1. ~Inconsistent(r)
      BY <1>3, RecordKinds
    <2>2. \/ None \in {r.cached, r.input}
          \/ None \notin {r.cached, r.input} /\ r.input = 0 /\ r.cached = 0
      BY <1>3, <2>1, RecordKinds
    <2>3. ObserveRatio(q, r.cached, r.input, r.accuracy) = [q EXCEPT !.unknown = @ + 1]
      BY <2>2 DEF ObserveRatio
    <2>4. RatioOf(q, r) = [q EXCEPT !.unknown = @ + 1]
      BY <2>1, <2>3 DEF RatioOf
    <2>5. q = [over |-> F, under |-> G, unknown |-> N, inconsistent |-> M]
      BY <1>q, <1>1, <1>3
    <2> HIDE DEF F, G
    <2>6. [q EXCEPT !.unknown = @ + 1] = [over |-> F, under |-> G, unknown |-> N + 1, inconsistent |-> M]
      BY <2>5
    <2>7. M + 0 = M
      OBVIOUS
    <2> QED
      BY <1>3, <2>4, <2>6, <2>7, <1>n DEF q
  <1>4. CASE GoodRecord(r) /\ ~BadRecord(r)
    <2> DEFINE n == r.cached
               d == r.input
               acc == r.accuracy
               f == [a \in Accuracies |-> Over(X[a], P[a])]
               g == [a \in Accuracies |-> Capped(X[a])]
               f2 == PutAdd(f, acc, n)
               g2 == PutAdd(g, acc, d)
               FF == [a \in Accuracies |-> IF None \in {f2[a], g2[a]} THEN None ELSE f2[a]]
               GG == [a \in Accuracies |-> IF None \in {f2[a], g2[a]} THEN None ELSE g2[a]]
    <2>1. ~Inconsistent(r) /\ None \notin {n, d} /\ d # 0 /\ ~(n > d)
      BY <1>4, RecordKinds DEF GoodRecord
    <2>2. n \in 0..MaxTokens /\ d \in 0..MaxTokens /\ acc \in Accuracies
      BY <2>1
    <2>3. n = Capped(n) /\ d = Capped(d) /\ n \in Nat /\ d \in Nat /\ n <= d
      <3>1. n = Capped(n) /\ d = Capped(d) /\ n \in Nat /\ d \in Nat
        BY <2>2, CappedFits
      <3> HIDE DEF n, d
      <3> QED
        BY <2>1, <3>1
    <2>4. ObserveRatio(q, n, d, acc) = Together([q EXCEPT !.over[acc] = Add(@, n), !.under[acc] = Add(@, d)])
      BY <2>1 DEF ObserveRatio
    <2>5. RatioOf(q, r) = Together([q EXCEPT !.over[acc] = Add(@, n), !.under[acc] = Add(@, d)])
      BY <2>1, <2>4 DEF RatioOf
    <2>6. [q EXCEPT !.over[acc] = Add(@, n), !.under[acc] = Add(@, d)]
            = [over |-> f2, under |-> g2, unknown |-> N, inconsistent |-> M]
      <3>1. q = [over |-> f, under |-> g, unknown |-> N, inconsistent |-> M]
        BY <1>q
      <3>2. [q EXCEPT !.over[acc] = Add(@, n), !.under[acc] = Add(@, d)] = RatioWith(q, acc, n, d)
        BY Zenon DEF RatioWith
      <3>3. RatioWith([over |-> f, under |-> g, unknown |-> N, inconsistent |-> M], acc, n, d)
              = [over |-> f2, under |-> g2, unknown |-> N, inconsistent |-> M]
        <4> HIDE DEF f, g, n, d, acc
        <4> QED
          BY RatioPut
      <3> QED
        BY <3>1, <3>2, <3>3, Zenon
    <2>7. \A a \in Accuracies : /\ f2[a] = IF a = acc THEN Add(Over(X[a], P[a]), n) ELSE Over(X[a], P[a])
                                /\ g2[a] = IF a = acc THEN Add(Capped(X[a]), d) ELSE Capped(X[a])
      BY DEF PutAdd
    <2> HIDE DEF f2, g2
    <2>8. Together([over |-> f2, under |-> g2, unknown |-> N, inconsistent |-> M])
            = [over |-> FF, under |-> GG, unknown |-> N, inconsistent |-> M]
      BY TogetherIs
    <2>9. ASSUME NEW a \in Accuracies
          PROVE  FF[a] = Over(x(a), p(a)) /\ GG[a] = Capped(x(a))
      <3>1. CASE a = acc
        <4>1. x(a) = X[a] + d /\ p(a) = P[a] + n
          BY <1>4, <3>1
        <4>2. f2[a] = Add(Over(X[a], P[a]), n) /\ g2[a] = Add(Capped(X[a]), d)
          BY <2>7, <3>1
        <4>3. n = Over(d, n)
          BY <2>1, <2>3 DEF Over
        <4>4. f2[a] = Add(Over(X[a], P[a]), Over(d, n)) /\ g2[a] = Add(Capped(X[a]), Capped(d))
          BY <2>3, <4>2, <4>3
        <4>5. X[a] \in Nat /\ P[a] \in Nat /\ P[a] <= X[a]
          OBVIOUS
        <4>6. FF[a] = (IF None \in {f2[a], g2[a]} THEN None ELSE f2[a])
              /\ GG[a] = (IF None \in {f2[a], g2[a]} THEN None ELSE g2[a])
          OBVIOUS
        <4> DEFINE X1 == X[a]
                   P1 == P[a]
                   v == Add(Over(X1, P1), Over(d, n))
                   e == Add(Capped(X1), Capped(d))
        <4>7. X1 \in Nat /\ P1 \in Nat /\ P1 <= X1
          BY <4>5
        <4>8. f2[a] = v /\ g2[a] = e /\ x(a) = X1 + d /\ p(a) = P1 + n
          BY <4>1, <4>4
        <4> HIDE DEF n, d, FF, GG, x, p, X1, P1
        <4>9. /\ (IF None \in {v, e} THEN None ELSE v) = Over(X1 + d, P1 + n)
              /\ (IF None \in {v, e} THEN None ELSE e) = Capped(X1 + d)
          BY <2>3, <4>7, RatioAdd
        <4> HIDE DEF v, e
        <4> QED
          BY <4>6, <4>8, <4>9
      <3>2. CASE a # acc
        <4>1. x(a) = X[a] /\ p(a) = P[a]
          BY <3>2
        <4>2. f2[a] = Over(X[a], P[a]) /\ g2[a] = Capped(X[a])
          BY <2>7, <3>2
        <4>6. FF[a] = (IF None \in {f2[a], g2[a]} THEN None ELSE f2[a])
              /\ GG[a] = (IF None \in {f2[a], g2[a]} THEN None ELSE g2[a])
          OBVIOUS
        <4>7. None \in {f2[a], g2[a]} => f2[a] = None /\ g2[a] = None
          <5> DEFINE X1 == X[a]
                     P1 == P[a]
          <5>1. X1 \in Nat /\ P1 \in Nat /\ P1 <= X1
            OBVIOUS
          <5> HIDE DEF X1, P1
          <5>2. None \in {Over(X1, P1), Capped(X1)} => Over(X1, P1) = None /\ Capped(X1) = None
            BY <5>1, UsageAssumption DEF Over, Capped, None
          <5> QED
            BY <4>2, <5>2 DEF X1, P1
        <4> HIDE DEF FF, GG, x, p
        <4> QED
          BY <4>1, <4>2, <4>6, <4>7
      <3> QED
        BY <3>1, <3>2
    <2>10. FF = [a \in Accuracies |-> FF[a]] /\ GG = [a \in Accuracies |-> GG[a]]
      OBVIOUS
    <2> HIDE DEF FF, GG, x, p
    <2>11. FF = F /\ GG = G
      BY <2>9, <2>10
    <2>12. N + 0 = N /\ M + 0 = M
      OBVIOUS
    <2> HIDE DEF F, G
    <2>13. RatioOf(q, r) = [over |-> F, under |-> G, unknown |-> N + 0, inconsistent |-> M + 0]
      BY <2>5, <2>6, <2>8, <2>11, <2>12
    <2> QED
      BY <1>4, <2>13, <1>n DEF q
  <1>5. \/ BadRecord(r) \/ (~BadRecord(r) /\ ~GoodRecord(r)) \/ (GoodRecord(r) /\ ~BadRecord(r))
    OBVIOUS
  <1> QED
    BY <1>2, <1>3, <1>4, <1>5 DEF q

PutQuantity(c, currency, v, acc) == [c EXCEPT ![currency] = ObserveQuantity(@, v, acc)]
PutOne(o, outcome) == [o EXCEPT ![outcome] = @ + 1]
Five(o, t, r, c, u) == [outcomes |-> o, tokens |-> t, read |-> r, costs |-> c, cost_unknown |-> u]

\* A rollup of the five parts after one more attempt.
LEMMA ObserveIs ==
    ASSUME NEW o, NEW t, NEW r, NEW c, NEW u, NEW a
    PROVE  ObserveCost(Observe(Five(o, t, r, c, u), a), a.cost)
             = Five(PutOne(o, a.outcome), ObserveQuantity(t, a.record.input, a.record.accuracy),
                    RatioOf(r, a.record),
                    IF ~a.cost.known THEN c
                    ELSE PutQuantity(c, a.cost.currency, a.cost.amount, a.cost.accuracy),
                    IF ~a.cost.known THEN u + 1 ELSE (u + 1) - 1)
  <1> DEFINE q == Five(o, t, r, c, u)
             o2 == PutOne(o, a.outcome)
             t2 == ObserveQuantity(t, a.record.input, a.record.accuracy)
             r2 == RatioOf(r, a.record)
             c2 == PutQuantity(c, a.cost.currency, a.cost.amount, a.cost.accuracy)
             p == Observe(q, a)
  <1>1. q.outcomes = o /\ q.tokens = t /\ q.read = r /\ q.costs = c /\ q.cost_unknown = u
    BY DEF Five
  <1>2. p = [q EXCEPT !.outcomes = o2, !.tokens = t2, !.read = r2, !.cost_unknown = u + 1]
    <2>1. p = [q EXCEPT !.outcomes = PutOne(q.outcomes, a.outcome),
                       !.tokens = ObserveQuantity(q.tokens, a.record.input, a.record.accuracy),
                       !.read = RatioOf(q.read, a.record), !.cost_unknown = q.cost_unknown + 1]
      BY Zenon DEF Observe, Inconsistent, PutOne, RatioOf
    <2> HIDE DEF q, p
    <2> QED
      BY <1>1, <2>1, Zenon
  <1> HIDE DEF p, o2, t2, r2, c2
  <1>3. p = Five(o2, t2, r2, c, u + 1)
    BY <1>2 DEF Five
  <1>4. ASSUME a.cost.known
        PROVE  ObserveCost(p, a.cost) = Five(o2, t2, r2, c2, (u + 1) - 1)
    <2>1. ObserveCost(p, a.cost)
            = [p EXCEPT !.cost_unknown = @ - 1,
                        !.costs = PutQuantity(@, a.cost.currency, a.cost.amount, a.cost.accuracy)]
      BY <1>4, Zenon DEF ObserveCost, PutQuantity
    <2>2. p.cost_unknown = u + 1 /\ p.costs = c
      BY <1>3 DEF Five
    <2> DEFINE u2 == (u + 1) - 1
    <2>3. ObserveCost(p, a.cost) = [p EXCEPT !.cost_unknown = u2, !.costs = c2]
      <3> DEFINE q1 == [p EXCEPT !.cost_unknown = p.cost_unknown - 1]
      <3>1. ObserveCost(p, a.cost) = [q1 EXCEPT !.costs = PutQuantity(q1.costs, a.cost.currency, a.cost.amount, a.cost.accuracy)]
        BY <2>1, Zenon
      <3>2. q1.costs = c
        BY <1>3 DEF Five
      <3>3. q1 = [p EXCEPT !.cost_unknown = u2]
        BY <2>2, Zenon
      <3> HIDE DEF q1, u2
      <3>4. ObserveCost(p, a.cost) = [q1 EXCEPT !.costs = c2]
        BY <3>1, <3>2 DEF c2
      <3> QED
        BY <3>3, <3>4, Zenon
    <2> HIDE DEF u2
    <2>4. ObserveCost(p, a.cost) = Five(o2, t2, r2, c2, u2)
      <3> DEFINE new == ObserveCost(p, a.cost)
                 u1 == u + 1
      <3>1. p = Five(o2, t2, r2, c, u1) /\ new = [p EXCEPT !.cost_unknown = u2, !.costs = c2]
        BY <1>3, <2>3
      <3> HIDE DEF new, u1
      <3>2. new = Five(o2, t2, r2, c2, u2)
        BY <3>1 DEF Five
      <3> QED
        BY <3>2 DEF new
    <2> QED
      BY <2>4 DEF u2
  <1>5. ~a.cost.known => ObserveCost(p, a.cost) = p
    BY DEF ObserveCost
  <1> QED
    BY <1>3, <1>4, <1>5 DEF o2, t2, r2, c2, p

LEMMA PartsAreFive ==
    ASSUME NEW ats, NEW S
    PROVE  Parts(ats, S) = Five([o \in Outcomes |-> Count(S, EndedSo(ats, o))], Tokens(ats, S), Read(ats, S),
                               [c \in Currencies |-> Cost(ats, S, c)], Count(S, Uncosted(ats)))
  BY Zenon DEF Parts, Five, Count

\* V is S and one attempt more.
LEMMA JoinedOne ==
    ASSUME NEW ats, NEW V, NEW S, NEW i, Joins(ats, V, S, {i})
    PROVE  i \in DOMAIN ats /\ AttemptOK(ats[i]) /\ AttemptsOK(ats) /\ Part(ats, S)
  BY DEF Joins, AttemptsOK, Part

LEMMA CountMore ==
    ASSUME NEW ats, NEW V, NEW S, NEW i, Joins(ats, V, S, {i}), NEW F
    PROVE  Count(V, F) = Count(S, F) + (IF i \in F THEN 1 ELSE 0) /\ Count(S, F) \in Nat
  <1>1. PICK n \in Nat : i \in 1..n
    BY JoinedOne DEF Joins, AttemptsOK
  <1>2. Count({i}, F) = IF i \in F THEN 1 ELSE 0
    BY <1>1, CountOne
  <1>3. Count(V, F) = Count(S, F) + Count({i}, F) /\ Count(S, F) \in Nat
    BY CountAdds
  <1> QED
    BY <1>2, <1>3

LEMMA TotalMore ==
    ASSUME NEW ats, NEW V, NEW S, NEW i, Joins(ats, V, S, {i}), NEW w, NEW F, Weighs(w, F)
    PROVE  Total(w, V, F) = Total(w, S, F) + (IF i \in F THEN w[i] ELSE 0) /\ Total(w, S, F) \in Nat
  <1>1. PICK n \in Nat : i \in 1..n
    BY JoinedOne DEF Joins, AttemptsOK
  <1>2. Total(w, {i}, F) = IF i \in F THEN w[i] ELSE 0
    BY <1>1, FilteredTotalOne
  <1>3. Total(w, V, F) = Total(w, S, F) + Total(w, {i}, F) /\ Total(w, S, F) \in Nat
    BY FilteredTotalAdds
  <1> QED
    BY <1>2, <1>3

LEMMA OutcomesOne ==
    ASSUME NEW ats, NEW V, NEW S, NEW i, Joins(ats, V, S, {i})
    PROVE  PutOne([o \in Outcomes |-> Count(S, EndedSo(ats, o))], ats[i].outcome)
             = [o \in Outcomes |-> Count(V, EndedSo(ats, o))]
  <1> DEFINE N(U, o) == Count(U, EndedSo(ats, o))
             f == [o \in Outcomes |-> N(S, o)]
             k == ats[i].outcome
  <1>1. k \in Outcomes
    BY JoinedOne DEF AttemptOK
  <1>2. \A o : N(V, o) = N(S, o) + (IF o = k THEN 1 ELSE 0) /\ N(S, o) \in Nat
    <2>1. ASSUME NEW o PROVE N(V, o) = N(S, o) + (IF o = k THEN 1 ELSE 0) /\ N(S, o) \in Nat
      <3>1. i \in DOMAIN ats
        BY JoinedOne
      <3>2. i \in EndedSo(ats, o) <=> k = o
        BY <3>1 DEF EndedSo
      <3>3. N(V, o) = N(S, o) + (IF i \in EndedSo(ats, o) THEN 1 ELSE 0) /\ N(S, o) \in Nat
        BY CountMore
      <3> QED
        BY <3>2, <3>3
    <2> QED
      BY <2>1
  <1> HIDE DEF N, k
  <1>3. PutOne(f, k) = [o \in Outcomes |-> IF o = k THEN N(S, o) + 1 ELSE N(S, o)]
    BY <1>1 DEF PutOne
  <1>4. \A o : (IF o = k THEN N(S, o) + 1 ELSE N(S, o)) = N(V, o)
    BY <1>2
  <1>5. PutOne(f, k) = [o \in Outcomes |-> N(V, o)]
    BY <1>3, <1>4
  <1> QED
    BY <1>5 DEF N, k

LEMMA TokensOne ==
    ASSUME NEW ats, NEW V, NEW S, NEW i, Joins(ats, V, S, {i})
    PROVE  ObserveQuantity(Tokens(ats, S), ats[i].record.input, ats[i].record.accuracy) = Tokens(ats, V)
  <1> DEFINE X(U, a) == Total(InputOf(ats), U, Metered(ats, a))
             N(U) == Count(U, Unmetered(ats))
             v == ats[i].record.input
             acc == ats[i].record.accuracy
             f == [a \in Accuracies |-> X(S, a)]
  <1>0. i \in DOMAIN ats /\ AttemptOK(ats[i]) /\ AttemptsOK(ats)
    BY JoinedOne
  <1>1. v \in {None} \cup (0..MaxTokens) /\ acc \in Accuracies
    BY <1>0 DEF AttemptOK
  <1>2. \A a : X(V, a) = X(S, a) + (IF v # None /\ a = acc THEN v ELSE 0) /\ X(S, a) \in Nat
    <2>1. ASSUME NEW a PROVE X(V, a) = X(S, a) + (IF v # None /\ a = acc THEN v ELSE 0) /\ X(S, a) \in Nat
      <3>1. i \in Metered(ats, a) <=> v # None /\ a = acc
        BY <1>0 DEF Metered
      <3>2. InputOf(ats)[i] = v
        BY <1>0 DEF InputOf
      <3>3. Weighs(InputOf(ats), Metered(ats, a))
        BY <1>0, Weights
      <3>4. X(V, a) = X(S, a) + (IF i \in Metered(ats, a) THEN InputOf(ats)[i] ELSE 0) /\ X(S, a) \in Nat
        BY <3>3, TotalMore, ZenonT(60)
      <3> HIDE DEF X, v, acc
      <3> QED
        BY <3>1, <3>2, <3>4
    <2> QED
      BY <2>1
  <1>3. N(V) = N(S) + (IF v = None THEN 1 ELSE 0) /\ N(S) \in Nat
    <2>1. i \in Unmetered(ats) <=> v = None
      BY <1>0 DEF Unmetered
    <2>2. N(V) = N(S) + (IF i \in Unmetered(ats) THEN 1 ELSE 0) /\ N(S) \in Nat
      BY CountMore
    <2> QED
      BY <2>1, <2>2
  <1>4. \A U : Tokens(ats, U) = [sum |-> [a \in Accuracies |-> Capped(X(U, a))], unknown |-> N(U)]
    BY Zenon DEF Tokens, Total, Count
  <1> HIDE DEF X, N, v, acc
  <1>5. Tokens(ats, S) = [sum |-> [a \in Accuracies |-> Capped(f[a])], unknown |-> N(S)]
    <2>1. [a \in Accuracies |-> Capped(f[a])] = [a \in Accuracies |-> Capped(X(S, a))]
      OBVIOUS
    <2> QED
      BY <1>4, <2>1
  <1>6. \A a \in Accuracies : f[a] \in Nat /\ f[a] = X(S, a)
    BY <1>2
  <1> HIDE DEF f
  <1>7. ObserveQuantity(Tokens(ats, S), v, acc)
          = [sum |-> [a \in Accuracies |-> Capped(f[a] + IF v # None /\ a = acc THEN v ELSE 0)],
              unknown |-> N(S) + IF v = None THEN 1 ELSE 0]
    BY <1>1, <1>3, <1>5, <1>6, QuantityOne, ZenonT(60)
  <1>8. [a \in Accuracies |-> Capped(f[a] + IF v # None /\ a = acc THEN v ELSE 0)]
          = [a \in Accuracies |-> Capped(X(V, a))]
    BY <1>2, <1>6
  <1>9. ObserveQuantity(Tokens(ats, S), v, acc) = Tokens(ats, V)
    BY <1>3, <1>4, <1>7, <1>8
  <1> QED
    BY <1>9 DEF v, acc

LEMMA ReadOne ==
    ASSUME NEW ats, NEW V, NEW S, NEW i, Joins(ats, V, S, {i})
    PROVE  RatioOf(Read(ats, S), ats[i].record) = Read(ats, V)
  <1> DEFINE X(U, a) == Total(InputOf(ats), U, Rated(ats, a))
             P(U, a) == Total(CachedOf(ats), U, Rated(ats, a))
             N(U) == Count(U, Unrated(ats))
             M(U) == Count(U, Misrated(ats))
             r == ats[i].record
             f == [a \in Accuracies |-> X(S, a)]
             g == [a \in Accuracies |-> P(S, a)]
             good(a) == GoodRecord(r) /\ a = r.accuracy
             x(a) == IF good(a) THEN r.input ELSE 0
             y(a) == IF good(a) THEN r.cached ELSE 0
  <1>0. i \in DOMAIN ats /\ AttemptOK(ats[i]) /\ AttemptsOK(ats) /\ Part(ats, S)
    BY JoinedOne
  <1>1. {r.input, r.cached, r.write} \subseteq {None} \cup (0..MaxTokens) /\ r.accuracy \in Accuracies
    BY <1>0 DEF AttemptOK
  <1>2. ASSUME NEW a
        PROVE  /\ X(V, a) = X(S, a) + x(a)
               /\ P(V, a) = P(S, a) + y(a)
    <2>1. i \in Rated(ats, a) <=> good(a)
      BY <1>0 DEF Rated
    <2>2. InputOf(ats)[i] = r.input /\ CachedOf(ats)[i] = r.cached
      BY <1>0 DEF InputOf, CachedOf
    <2>3. Weighs(InputOf(ats), Rated(ats, a)) /\ Weighs(CachedOf(ats), Rated(ats, a))
      BY <1>0, Weights
    <2>4. X(V, a) = X(S, a) + (IF i \in Rated(ats, a) THEN InputOf(ats)[i] ELSE 0) /\ X(S, a) \in Nat
      BY <2>3, TotalMore, ZenonT(60)
    <2>5. P(V, a) = P(S, a) + (IF i \in Rated(ats, a) THEN CachedOf(ats)[i] ELSE 0) /\ P(S, a) \in Nat
      BY <2>3, TotalMore, ZenonT(60)
    <2> HIDE DEF X, P, good, r
    <2> QED
      BY <2>1, <2>2, <2>4, <2>5
  <1>3. \A a : X(S, a) \in Nat /\ P(S, a) \in Nat /\ P(S, a) <= X(S, a)
    <2>1. ASSUME NEW a PROVE X(S, a) \in Nat /\ P(S, a) \in Nat /\ P(S, a) <= X(S, a)
      BY <1>0, RatedTotals
    <2> QED
      BY <2>1, Zenon
  <1>4. N(V) = N(S) + (IF ~BadRecord(r) /\ ~GoodRecord(r) THEN 1 ELSE 0) /\ N(S) \in Nat
    <2>1. i \in Unrated(ats) <=> ~BadRecord(r) /\ ~GoodRecord(r)
      BY <1>0 DEF Unrated
    <2>2. N(V) = N(S) + (IF i \in Unrated(ats) THEN 1 ELSE 0) /\ N(S) \in Nat
      BY CountMore
    <2> QED
      BY <2>1, <2>2
  <1>5. M(V) = M(S) + (IF BadRecord(r) THEN 1 ELSE 0) /\ M(S) \in Nat
    <2>1. i \in Misrated(ats) <=> BadRecord(r)
      BY <1>0 DEF Misrated
    <2>2. M(V) = M(S) + (IF i \in Misrated(ats) THEN 1 ELSE 0) /\ M(S) \in Nat
      BY CountMore
    <2> QED
      BY <2>1, <2>2
  <1>6. \A U : Read(ats, U) = [over |-> [a \in Accuracies |-> Over(X(U, a), P(U, a))],
                              under |-> [a \in Accuracies |-> Capped(X(U, a))],
                              unknown |-> N(U), inconsistent |-> M(U)]
    BY Zenon DEF Read, Over, Total, Count
  <1> HIDE DEF X, P, N, M, r
  <1>7. \A a \in Accuracies : f[a] = X(S, a) /\ g[a] = P(S, a)
    OBVIOUS
  <1> HIDE DEF f, g
  <1>8. Read(ats, S) = [over |-> [a \in Accuracies |-> Over(f[a], g[a])],
                        under |-> [a \in Accuracies |-> Capped(f[a])], unknown |-> N(S), inconsistent |-> M(S)]
    <2>1. /\ [a \in Accuracies |-> Over(f[a], g[a])] = [a \in Accuracies |-> Over(X(S, a), P(S, a))]
          /\ [a \in Accuracies |-> Capped(f[a])] = [a \in Accuracies |-> Capped(X(S, a))]
      BY <1>7
    <2>2. Read(ats, S) = [over |-> [a \in Accuracies |-> Over(X(S, a), P(S, a))],
                          under |-> [a \in Accuracies |-> Capped(X(S, a))],
                          unknown |-> N(S), inconsistent |-> M(S)]
      BY <1>6, Zenon
    <2> QED
      BY <2>1, <2>2, Zenon
  <1>9. \A a \in Accuracies : f[a] \in Nat /\ g[a] \in Nat /\ g[a] <= f[a]
    BY <1>3, <1>7
  <1>10. N(S) \in Nat /\ M(S) \in Nat
    BY <1>4, <1>5
  <1>11. RatioOf(Read(ats, S), r) =
          [over |-> [a \in Accuracies |-> Over(f[a] + x(a), g[a] + y(a))],
           under |-> [a \in Accuracies |-> Capped(f[a] + x(a))],
           unknown |-> N(S) + (IF ~BadRecord(r) /\ ~GoodRecord(r) THEN 1 ELSE 0),
           inconsistent |-> M(S) + (IF BadRecord(r) THEN 1 ELSE 0)]
    <2>1. Within(f, g) /\ Measured(r)
      BY <1>1, <1>9 DEF Within, Measured
    <2>2. Read(ats, S) = Rate(f, g, N(S), M(S))
      BY <1>8, Zenon DEF Rate
    <2>3. RatioOf(Rate(f, g, N(S), M(S)), r) = NextRate(f, g, N(S), M(S), r)
      BY <1>10, <2>1, RatioOne
    <2> QED
      BY <2>2, <2>3, Zenon DEF NextRate
  <1>12. \A a \in Accuracies : f[a] + x(a) = X(V, a) /\ g[a] + y(a) = P(V, a)
    BY <1>2, <1>7
  <1> HIDE DEF x, y
  <1>13. /\ [a \in Accuracies |-> Over(f[a] + x(a), g[a] + y(a))] = [a \in Accuracies |-> Over(X(V, a), P(V, a))]
         /\ [a \in Accuracies |-> Capped(f[a] + x(a))] = [a \in Accuracies |-> Capped(X(V, a))]
    BY <1>12
  <1>14. RatioOf(Read(ats, S), r) =
          [over |-> [a \in Accuracies |-> Over(X(V, a), P(V, a))],
           under |-> [a \in Accuracies |-> Capped(X(V, a))], unknown |-> N(V), inconsistent |-> M(V)]
    BY <1>4, <1>5, <1>11, <1>13, Zenon
  <1>15. RatioOf(Read(ats, S), r) = Read(ats, V)
    BY <1>6, <1>14, Zenon
  <1> QED
    BY <1>15 DEF r

LEMMA CostOne ==
    ASSUME NEW ats, NEW V, NEW S, NEW i, Joins(ats, V, S, {i}), NEW c
    PROVE  Cost(ats, V, c) =
             IF ats[i].cost.known /\ ats[i].cost.currency = c
             THEN ObserveQuantity(Cost(ats, S, c), ats[i].cost.amount, ats[i].cost.accuracy)
             ELSE Cost(ats, S, c)
  <1> DEFINE X(U, a) == Total(AmountOf(ats), U, Costed(ats, c, a))
             v == ats[i].cost.amount
             acc == ats[i].record.accuracy
             mine == ats[i].cost.known /\ ats[i].cost.currency = c
             f == [a \in Accuracies |-> X(S, a)]
  <1>0. i \in DOMAIN ats /\ AttemptOK(ats[i]) /\ AttemptsOK(ats)
    BY JoinedOne
  <1>1. mine => v \in 0..MaxTokens /\ acc \in Accuracies /\ ats[i].cost.accuracy = acc
    BY <1>0 DEF AttemptOK
  <1>2. \A a : X(V, a) = X(S, a) + (IF mine /\ a = acc THEN v ELSE 0) /\ X(S, a) \in Nat
    <2>1. ASSUME NEW a PROVE X(V, a) = X(S, a) + (IF mine /\ a = acc THEN v ELSE 0) /\ X(S, a) \in Nat
      <3>1. i \in Costed(ats, c, a) <=> mine /\ a = acc
        BY <1>0 DEF Costed
      <3>2. AmountOf(ats)[i] = v
        BY <1>0 DEF AmountOf
      <3>3. Weighs(AmountOf(ats), Costed(ats, c, a))
        BY <1>0, Weights
      <3>4. X(V, a) = X(S, a) + (IF i \in Costed(ats, c, a) THEN AmountOf(ats)[i] ELSE 0) /\ X(S, a) \in Nat
        BY <3>3, TotalMore, ZenonT(60)
      <3> HIDE DEF X, v, acc, mine
      <3> QED
        BY <3>1, <3>2, <3>4
    <2> QED
      BY <2>1
  <1>4. \A U : Cost(ats, U, c) = [sum |-> [a \in Accuracies |-> Capped(X(U, a))], unknown |-> 0]
    BY Zenon DEF Cost, Total
  <1> HIDE DEF X, v, acc
  <1>5. CASE ~mine
    <2>1. \A a : X(V, a) = X(S, a)
      <3> HIDE DEF mine
      <3> QED
        BY <1>2, <1>5
    <2>2. [a \in Accuracies |-> Capped(X(V, a))] = [a \in Accuracies |-> Capped(X(S, a))]
      BY <2>1, Zenon
    <2>3. Cost(ats, V, c) = Cost(ats, S, c)
      BY <1>4, <2>2, Zenon
    <2> QED
      BY <1>5, <2>3
  <1>6. CASE mine
    <2>1. \A a \in Accuracies : f[a] = X(S, a) /\ f[a] \in Nat
      BY <1>2
    <2> HIDE DEF f
    <2>2. Cost(ats, S, c) = [sum |-> [a \in Accuracies |-> Capped(f[a])], unknown |-> 0]
      <3>1. [a \in Accuracies |-> Capped(f[a])] = [a \in Accuracies |-> Capped(X(S, a))]
        BY <2>1
      <3> QED
        BY <1>4, <3>1, Zenon
    <2>3. v # None /\ v \in {None} \cup (0..MaxTokens) /\ acc \in Accuracies
      BY <1>1, <1>6 DEF None
    <2>4. ObserveQuantity(Cost(ats, S, c), v, acc)
            = [sum |-> [a \in Accuracies |-> Capped(f[a] + IF v # None /\ a = acc THEN v ELSE 0)],
               unknown |-> 0 + IF v = None THEN 1 ELSE 0]
      BY <2>1, <2>2, <2>3, QuantityOne
    <2>5. [a \in Accuracies |-> Capped(f[a] + IF v # None /\ a = acc THEN v ELSE 0)]
            = [a \in Accuracies |-> Capped(X(V, a))]
      <3>1. \A a \in Accuracies : f[a] + (IF v # None /\ a = acc THEN v ELSE 0) = X(V, a)
        <4> HIDE DEF mine
        <4> QED
          BY <1>2, <1>6, <2>1, <2>3
      <3> QED
        BY <3>1
    <2>6. 0 + (IF v = None THEN 1 ELSE 0) = 0
      BY <2>3
    <2>7. ObserveQuantity(Cost(ats, S, c), v, acc) = Cost(ats, V, c)
      BY <1>4, <2>4, <2>5, <2>6
    <2>8. ats[i].cost.accuracy = acc
      BY <1>1, <1>6
    <2> QED
      BY <1>6, <2>7, <2>8 DEF v
  <1> QED
    BY <1>5, <1>6

LEMMA CostsOne ==
    ASSUME NEW ats, NEW V, NEW S, NEW i, Joins(ats, V, S, {i})
    PROVE  [c \in Currencies |-> Cost(ats, V, c)] =
             IF ~ats[i].cost.known THEN [c \in Currencies |-> Cost(ats, S, c)]
             ELSE PutQuantity([c \in Currencies |-> Cost(ats, S, c)],
                              ats[i].cost.currency, ats[i].cost.amount, ats[i].cost.accuracy)
  <1> DEFINE known == ats[i].cost.known
             k == ats[i].cost.currency
             v == ats[i].cost.amount
             acc == ats[i].cost.accuracy
             f == [c \in Currencies |-> Cost(ats, S, c)]
  <1>1. \A c : Cost(ats, V, c) = IF known /\ k = c THEN ObserveQuantity(Cost(ats, S, c), v, acc) ELSE Cost(ats, S, c)
    <2>1. ASSUME NEW c
          PROVE  Cost(ats, V, c) = IF known /\ k = c THEN ObserveQuantity(Cost(ats, S, c), v, acc) ELSE Cost(ats, S, c)
      BY CostOne
    <2> QED
      BY <2>1, Zenon
  <1>2. known => k \in Currencies
    BY JoinedOne DEF AttemptOK
  <1> HIDE DEF known, k, v, acc
  <1>3. CASE ~known
    <2>1. [c \in Currencies |-> Cost(ats, V, c)] = f
      BY <1>1, <1>3
    <2> QED
      BY <1>3, <2>1 DEF known
  <1>4. CASE known
    <2>1. PutQuantity(f, k, v, acc) = [c \in Currencies |-> IF c = k THEN ObserveQuantity(f[k], v, acc) ELSE f[c]]
      BY <1>2, <1>4 DEF PutQuantity
    <2>2. \A c \in Currencies : (IF c = k THEN ObserveQuantity(f[k], v, acc) ELSE f[c]) = Cost(ats, V, c)
      BY <1>1, <1>2, <1>4
    <2> HIDE DEF f
    <2>3. PutQuantity(f, k, v, acc) = [c \in Currencies |-> Cost(ats, V, c)]
      BY <2>1, <2>2
    <2> QED
      BY <1>4, <2>3 DEF known, k, v, acc, f
  <1> QED
    BY <1>3, <1>4

\* A rollup of a set of attempts, after one more, is that of the set with it.
LEMMA PartsOne ==
    ASSUME NEW ats, NEW V, NEW S, NEW i, Joins(ats, V, S, {i})
    PROVE  ObserveCost(Observe(Parts(ats, S), ats[i]), ats[i].cost) = Parts(ats, V)
  <1> DEFINE o(U) == [x \in Outcomes |-> Count(U, EndedSo(ats, x))]
             c(U) == [x \in Currencies |-> Cost(ats, U, x)]
             u(U) == Count(U, Uncosted(ats))
             a == ats[i]
             known == a.cost.known
  <1>1. \A U : Parts(ats, U) = Five(o(U), Tokens(ats, U), Read(ats, U), c(U), u(U))
    BY PartsAreFive, Zenon
  <1>2. PutOne(o(S), a.outcome) = o(V)
    BY OutcomesOne
  <1>3. ObserveQuantity(Tokens(ats, S), a.record.input, a.record.accuracy) = Tokens(ats, V)
    BY TokensOne, Zenon
  <1>4. RatioOf(Read(ats, S), a.record) = Read(ats, V)
    BY ReadOne, Zenon
  <1>5. (IF ~known THEN c(S) ELSE PutQuantity(c(S), a.cost.currency, a.cost.amount, a.cost.accuracy)) = c(V)
    BY CostsOne
  <1>6. (IF ~known THEN u(S) + 1 ELSE (u(S) + 1) - 1) = u(V)
    <2>1. i \in Uncosted(ats) <=> ~known
      BY JoinedOne DEF Uncosted
    <2>2. u(V) = u(S) + (IF i \in Uncosted(ats) THEN 1 ELSE 0) /\ u(S) \in Nat
      BY CountMore
    <2> HIDE DEF u, known
    <2> QED
      BY <2>1, <2>2
  <1>7. ObserveCost(Observe(Five(o(S), Tokens(ats, S), Read(ats, S), c(S), u(S)), a), a.cost)
          = Five(PutOne(o(S), a.outcome), ObserveQuantity(Tokens(ats, S), a.record.input, a.record.accuracy),
                 RatioOf(Read(ats, S), a.record),
                 IF ~known THEN c(S) ELSE PutQuantity(c(S), a.cost.currency, a.cost.amount, a.cost.accuracy),
                 IF ~known THEN u(S) + 1 ELSE (u(S) + 1) - 1)
    <2> HIDE DEF o, c, u
    <2> QED
      BY ObserveIs
  <1> HIDE DEF o, c, u, known
  <1>8. ObserveCost(Observe(Parts(ats, S), a), a.cost) = Five(o(V), Tokens(ats, V), Read(ats, V), c(V), u(V))
    BY <1>1, <1>2, <1>3, <1>4, <1>5, <1>6, <1>7
  <1>9. ObserveCost(Observe(Parts(ats, S), a), a.cost) = Parts(ats, V)
    BY <1>1, <1>8
  <1> QED
    BY <1>9

LEMMA NothingCounts ==
    /\ \A F : Count({}, F) = 0
    /\ \A w, F : Total(w, {}, F) = 0
  <1>1. ASSUME NEW F PROVE Count({}, F) = 0
    <2>1. Count({}, F) = Cardinality({})
      BY DEF Count
    <2> QED
      BY <2>1, FS_EmptySet
  <1>2. ASSUME NEW w, NEW F PROVE Total(w, {}, F) = 0
    <2>1. {} \cap F = {}
      OBVIOUS
    <2>2. Total(w, {}, F) = TotalOf(w, {})
      BY <2>1, Zenon DEF Total
    <2>3. TotalOf(w, {}) = 0
      <3>1. 1 \in Nat /\ 1 \in 1..1
        OBVIOUS
      <3> QED
        BY <3>1, TotalOfFew
    <2> QED
      BY <2>2, <2>3
  <1> QED
    BY <1>1, <1>2

LEMMA PartsNone ==
    ASSUME NEW ats
    PROVE  Parts(ats, {}) = EmptyRollup
  <1>1. Capped(0) = 0 /\ Over(0, 0) = 0
    BY UsageAssumption DEF Capped, Over, None
  <1>2. Tokens(ats, {}) = EmptyQuantity
    <2>1. Tokens(ats, {}) = [sum |-> [a \in Accuracies |-> Capped(Total(InputOf(ats), {}, Metered(ats, a)))],
                             unknown |-> Count({}, Unmetered(ats))]
      BY Zenon DEF Tokens, Total, Count
    <2>2. Tokens(ats, {}) = [sum |-> [a \in Accuracies |-> 0], unknown |-> 0]
      BY <1>1, <2>1, NothingCounts, Zenon
    <2> QED
      BY <2>2, Zenon DEF EmptyQuantity
  <1>3. Read(ats, {}) = EmptyRatio
    <2>1. Read(ats, {}) =
            [over |-> [a \in Accuracies |-> Over(Total(InputOf(ats), {}, Rated(ats, a)), Total(CachedOf(ats), {}, Rated(ats, a)))],
             under |-> [a \in Accuracies |-> Capped(Total(InputOf(ats), {}, Rated(ats, a)))],
             unknown |-> Count({}, Unrated(ats)), inconsistent |-> Count({}, Misrated(ats))]
      BY Zenon DEF Read, Over, Total, Count
    <2>2. Read(ats, {}) = [over |-> [a \in Accuracies |-> 0], under |-> [a \in Accuracies |-> 0],
                           unknown |-> 0, inconsistent |-> 0]
      BY <1>1, <2>1, NothingCounts, Zenon
    <2> QED
      BY <2>2, Zenon DEF EmptyRatio
  <1>4. ASSUME NEW c PROVE Cost(ats, {}, c) = EmptyQuantity
    <2>1. Cost(ats, {}, c) = [sum |-> [a \in Accuracies |-> Capped(Total(AmountOf(ats), {}, Costed(ats, c, a)))],
                              unknown |-> 0]
      BY Zenon DEF Cost, Total
    <2>2. Cost(ats, {}, c) = [sum |-> [a \in Accuracies |-> 0], unknown |-> 0]
      BY <1>1, <2>1, NothingCounts, Zenon
    <2> QED
      BY <2>2, Zenon DEF EmptyQuantity
  <1>5. /\ [o \in Outcomes |-> Count({}, EndedSo(ats, o))] = [o \in Outcomes |-> 0]
        /\ [c \in Currencies |-> Cost(ats, {}, c)] = [c \in Currencies |-> EmptyQuantity]
        /\ Count({}, Uncosted(ats)) = 0
    BY <1>4, NothingCounts, Zenon
  <1> QED
    BY <1>2, <1>3, <1>5, PartsAreFive, Zenon DEF Five, EmptyRollup

\* More attempts leave the rollup of the earlier ones alone.
Extends(new, ats) == DOMAIN ats \subseteq DOMAIN new /\ \A i \in DOMAIN ats : new[i] = ats[i]

LEMMA SameSums ==
    ASSUME NEW ats, AttemptsOK(ats), NEW S, Part(ats, S), NEW F, NEW G, S \cap F = S \cap G
    PROVE  /\ Count(S, F) = Count(S, G)
           /\ \A w, v : (\A i \in S \cap F : w[i] \in Nat /\ w[i] = v[i]) => Total(w, S, F) = Total(v, S, G)
  <1>1. Count(S, F) = Count(S, G)
    BY Zenon DEF Count
  <1>2. ASSUME NEW w, NEW v, \A i \in S \cap F : w[i] \in Nat /\ w[i] = v[i]
        PROVE  Total(w, S, F) = Total(v, S, G)
    <2>1. PICK n \in Nat : S \in SUBSET (1..n)
      BY DEF AttemptsOK, Part
    <2> DEFINE U == S \cap F
    <2>2. U \in SUBSET (1..n) /\ (\A i \in U : w[i] \in Nat) /\ (\A i \in U : w[i] = v[i])
      BY <1>2, <2>1
    <2> HIDE DEF U
    <2>3. TotalOf(v, U) = TotalOf(w, U)
      BY <2>1, <2>2, SameTotal
    <2> QED
      BY <2>3, Zenon DEF U, Total
  <1> QED
    BY <1>1, <1>2

LEMMA SameWeights ==
    ASSUME NEW new, NEW ats, AttemptsOK(ats), Extends(new, ats), NEW S, Part(ats, S)
    PROVE  /\ \A o : S \cap EndedSo(ats, o) = S \cap EndedSo(new, o)
           /\ \A a : S \cap Metered(ats, a) = S \cap Metered(new, a)
           /\ \A a : S \cap Rated(ats, a) = S \cap Rated(new, a)
           /\ \A c, a : S \cap Costed(ats, c, a) = S \cap Costed(new, c, a)
           /\ S \cap Unmetered(ats) = S \cap Unmetered(new)
           /\ S \cap Unrated(ats) = S \cap Unrated(new)
           /\ S \cap Misrated(ats) = S \cap Misrated(new)
           /\ S \cap Uncosted(ats) = S \cap Uncosted(new)
           /\ \A i \in S : InputOf(ats)[i] = InputOf(new)[i] /\ CachedOf(ats)[i] = CachedOf(new)[i]
                           /\ AmountOf(ats)[i] = AmountOf(new)[i]
  <1>1. \A i \in S : i \in DOMAIN ats /\ i \in DOMAIN new /\ new[i] = ats[i]
    BY DEF Extends, Part
  <1>2. \A o : S \cap EndedSo(ats, o) = S \cap EndedSo(new, o)
    BY <1>1 DEF EndedSo
  <1>3. \A a : S \cap Metered(ats, a) = S \cap Metered(new, a)
    BY <1>1 DEF Metered
  <1>4. \A a : S \cap Rated(ats, a) = S \cap Rated(new, a)
    BY <1>1 DEF Rated
  <1>5. \A c, a : S \cap Costed(ats, c, a) = S \cap Costed(new, c, a)
    BY <1>1 DEF Costed
  <1>6. S \cap Unmetered(ats) = S \cap Unmetered(new)
    BY <1>1 DEF Unmetered
  <1>7. S \cap Unrated(ats) = S \cap Unrated(new)
    BY <1>1 DEF Unrated
  <1>8. S \cap Misrated(ats) = S \cap Misrated(new)
    BY <1>1 DEF Misrated
  <1>9. S \cap Uncosted(ats) = S \cap Uncosted(new)
    BY <1>1 DEF Uncosted
  <1>10. \A i \in S : InputOf(ats)[i] = InputOf(new)[i] /\ CachedOf(ats)[i] = CachedOf(new)[i]
                      /\ AmountOf(ats)[i] = AmountOf(new)[i]
    BY <1>1 DEF InputOf, CachedOf, AmountOf
  <1> QED
    BY <1>2, <1>3, <1>4, <1>5, <1>6, <1>7, <1>8, <1>9, <1>10

LEMMA PartsAgree ==
    ASSUME NEW new, NEW ats, AttemptsOK(ats), Extends(new, ats), NEW S, Part(ats, S)
    PROVE  Parts(new, S) = Parts(ats, S)
  <1>w. /\ \A a : \A i \in Metered(ats, a) : InputOf(ats)[i] \in Nat
        /\ \A a : \A i \in Rated(ats, a) : InputOf(ats)[i] \in Nat /\ CachedOf(ats)[i] \in Nat
        /\ \A c, a : \A i \in Costed(ats, c, a) : AmountOf(ats)[i] \in Nat
    BY NaturalWeights
  <1>s. \A i \in S : InputOf(ats)[i] = InputOf(new)[i] /\ CachedOf(ats)[i] = CachedOf(new)[i]
                     /\ AmountOf(ats)[i] = AmountOf(new)[i]
    BY SameWeights
  <1>1. ASSUME NEW o PROVE Count(S, EndedSo(ats, o)) = Count(S, EndedSo(new, o))
    <2>1. S \cap EndedSo(ats, o) = S \cap EndedSo(new, o)
      BY SameWeights
    <2> QED
      BY <2>1, SameSums
  <1>2. ASSUME NEW a PROVE Total(InputOf(ats), S, Metered(ats, a)) = Total(InputOf(new), S, Metered(new, a))
    <2>1. S \cap Metered(ats, a) = S \cap Metered(new, a)
      BY SameWeights
    <2>2. \A i \in S \cap Metered(ats, a) : InputOf(ats)[i] \in Nat /\ InputOf(ats)[i] = InputOf(new)[i]
      BY <1>w, <1>s
    <2> QED
      BY <2>1, <2>2, SameSums
  <1>3. ASSUME NEW a
        PROVE  /\ Total(InputOf(ats), S, Rated(ats, a)) = Total(InputOf(new), S, Rated(new, a))
               /\ Total(CachedOf(ats), S, Rated(ats, a)) = Total(CachedOf(new), S, Rated(new, a))
    <2>1. S \cap Rated(ats, a) = S \cap Rated(new, a)
      BY SameWeights
    <2>2. \A i \in S \cap Rated(ats, a) : InputOf(ats)[i] \in Nat /\ InputOf(ats)[i] = InputOf(new)[i]
      BY <1>w, <1>s
    <2>3. \A i \in S \cap Rated(ats, a) : CachedOf(ats)[i] \in Nat /\ CachedOf(ats)[i] = CachedOf(new)[i]
      BY <1>w, <1>s
    <2>4. Total(InputOf(ats), S, Rated(ats, a)) = Total(InputOf(new), S, Rated(new, a))
      BY <2>1, <2>2, SameSums
    <2>5. Total(CachedOf(ats), S, Rated(ats, a)) = Total(CachedOf(new), S, Rated(new, a))
      BY <2>1, <2>3, SameSums
    <2> QED
      BY <2>4, <2>5
  <1>4. ASSUME NEW c, NEW a
        PROVE  Total(AmountOf(ats), S, Costed(ats, c, a)) = Total(AmountOf(new), S, Costed(new, c, a))
    <2>1. S \cap Costed(ats, c, a) = S \cap Costed(new, c, a)
      BY SameWeights
    <2>2. \A i \in S \cap Costed(ats, c, a) : AmountOf(ats)[i] \in Nat /\ AmountOf(ats)[i] = AmountOf(new)[i]
      BY <1>w, <1>s
    <2> DEFINE F == Costed(ats, c, a)
               G == Costed(new, c, a)
               w == AmountOf(ats)
               v == AmountOf(new)
    <2>3. S \cap F = S \cap G /\ \A i \in S \cap F : w[i] \in Nat /\ w[i] = v[i]
      BY <2>1, <2>2
    <2> HIDE DEF F, G, w, v
    <2>4. Total(w, S, F) = Total(v, S, G)
      BY <2>3, SameSums
    <2> QED
      BY <2>4 DEF F, G, w, v
  <1>5. Count(S, Unmetered(ats)) = Count(S, Unmetered(new))
    <2>1. S \cap Unmetered(ats) = S \cap Unmetered(new)
      BY SameWeights
    <2> QED
      BY <2>1, SameSums
  <1>6. Count(S, Unrated(ats)) = Count(S, Unrated(new))
    <2>1. S \cap Unrated(ats) = S \cap Unrated(new)
      BY SameWeights
    <2> QED
      BY <2>1, SameSums
  <1>7. Count(S, Misrated(ats)) = Count(S, Misrated(new))
    <2>1. S \cap Misrated(ats) = S \cap Misrated(new)
      BY SameWeights
    <2> QED
      BY <2>1, SameSums
  <1>8. Count(S, Uncosted(ats)) = Count(S, Uncosted(new))
    <2>1. S \cap Uncosted(ats) = S \cap Uncosted(new)
      BY SameWeights
    <2> QED
      BY <2>1, SameSums
  <1>9. Tokens(new, S) = Tokens(ats, S)
    <2>1. \A x : Tokens(x, S) = [sum |-> [a \in Accuracies |-> Capped(Total(InputOf(x), S, Metered(x, a)))],
                                 unknown |-> Count(S, Unmetered(x))]
      BY Zenon DEF Tokens, Total, Count
    <2>2. [a \in Accuracies |-> Capped(Total(InputOf(new), S, Metered(new, a)))]
            = [a \in Accuracies |-> Capped(Total(InputOf(ats), S, Metered(ats, a)))]
      BY <1>2, Zenon
    <2> QED
      BY <1>5, <2>1, <2>2, Zenon
  <1>10. Read(new, S) = Read(ats, S)
    <2>1. \A x : Read(x, S) =
            [over |-> [a \in Accuracies |-> Over(Total(InputOf(x), S, Rated(x, a)), Total(CachedOf(x), S, Rated(x, a)))],
             under |-> [a \in Accuracies |-> Capped(Total(InputOf(x), S, Rated(x, a)))],
             unknown |-> Count(S, Unrated(x)), inconsistent |-> Count(S, Misrated(x))]
      BY Zenon DEF Read, Over, Total, Count
    <2>2. [a \in Accuracies |-> Over(Total(InputOf(new), S, Rated(new, a)), Total(CachedOf(new), S, Rated(new, a)))]
            = [a \in Accuracies |-> Over(Total(InputOf(ats), S, Rated(ats, a)), Total(CachedOf(ats), S, Rated(ats, a)))]
      BY <1>3, Zenon
    <2>3. [a \in Accuracies |-> Capped(Total(InputOf(new), S, Rated(new, a)))]
            = [a \in Accuracies |-> Capped(Total(InputOf(ats), S, Rated(ats, a)))]
      BY <1>3, Zenon
    <2> QED
      BY <1>6, <1>7, <2>1, <2>2, <2>3, Zenon
  <1>11. ASSUME NEW c PROVE Cost(new, S, c) = Cost(ats, S, c)
    <2>1. \A x : Cost(x, S, c) = [sum |-> [a \in Accuracies |-> Capped(Total(AmountOf(x), S, Costed(x, c, a)))],
                                  unknown |-> 0]
      BY Zenon DEF Cost, Total
    <2>2. [a \in Accuracies |-> Capped(Total(AmountOf(new), S, Costed(new, c, a)))]
            = [a \in Accuracies |-> Capped(Total(AmountOf(ats), S, Costed(ats, c, a)))]
      BY <1>4, Zenon
    <2> QED
      BY <2>1, <2>2, Zenon
  <1>12. /\ [o \in Outcomes |-> Count(S, EndedSo(new, o))] = [o \in Outcomes |-> Count(S, EndedSo(ats, o))]
         /\ [c \in Currencies |-> Cost(new, S, c)] = [c \in Currencies |-> Cost(ats, S, c)]
    BY <1>1, <1>11, Zenon
  <1> QED
    BY <1>8, <1>9, <1>10, <1>12, PartsAreFive, Zenon

-----------------------------------------------------------------------------
(* Usage: windows, schedules and costs.                                     *)

LEMMA Divides ==
    ASSUME NEW x \in Int, NEW d \in Nat \ {0}
    PROVE  x = d * (x \div d) + (x % d) /\ x % d \in 0..(d - 1) /\ x \div d \in Int
  OBVIOUS

LEMMA ProductOrder ==
    ASSUME NEW x \in Int, NEW y \in Int, NEW d \in Nat, x <= y
    PROVE  d * x <= d * y
  <1>1. y - x \in Nat /\ y = x + (y - x)
    OBVIOUS
  <1>2. d * (y - x) \in Nat
    BY <1>1
  <1>3. d * y = d * x + d * (y - x)
    BY <1>1
  <1>4. d * x \in Int /\ d * y \in Int
    OBVIOUS
  <1> QED
    BY <1>2, <1>3, <1>4

LEMMA RemainderIs ==
    ASSUME NEW x \in Int, NEW d \in Nat \ {0}, NEW q \in Int, NEW r \in 0..(d - 1), x = d * q + r
    PROVE  x % d = r
  <1> DEFINE p == x \div d
             s == x % d
  <1>1. x = d * p + s /\ s \in 0..(d - 1) /\ p \in Int
    BY Divides
  <1> HIDE DEF p, s
  <1>2. ~(p <= q - 1)
    <2>1. SUFFICES ASSUME p <= q - 1 PROVE FALSE
      OBVIOUS
    <2>2. d * p <= d * (q - 1)
      BY <1>1, <2>1, ProductOrder
    <2>3. d * (q - 1) = d * q - d
      OBVIOUS
    <2>4. d * p \in Int /\ d * q \in Int
      BY <1>1
    <2> QED
      BY <1>1, <2>2, <2>3, <2>4
  <1>3. ~(q <= p - 1)
    <2>1. SUFFICES ASSUME q <= p - 1 PROVE FALSE
      OBVIOUS
    <2>2. d * q <= d * (p - 1)
      BY <1>1, <2>1, ProductOrder
    <2>3. d * (p - 1) = d * p - d
      BY <1>1
    <2>4. d * p \in Int /\ d * q \in Int
      BY <1>1
    <2> QED
      BY <1>1, <2>2, <2>3, <2>4
  <1>4. p = q
    BY <1>1, <1>2, <1>3
  <1>5. s = r
    <2>1. d * p = d * q /\ d * q \in Int
      BY <1>4
    <2> QED
      BY <1>1, <2>1
  <1> QED
    BY <1>5 DEF s

\* The day before, in the week.
LEMMA DayBefore ==
    ASSUME NEW x \in Int, NEW d \in Nat \ {0}
    PROVE  ((x % d) + d - 1) % d = (x - 1) % d
  <1> DEFINE q == x \div d
             r == x % d
  <1>1. x = d * q + r /\ r \in 0..(d - 1) /\ q \in Int
    BY Divides
  <1> HIDE DEF q, r
  <1>2. CASE r = 0
    <2>1. x - 1 = d * (q - 1) + (d - 1)
      BY <1>1, <1>2
    <2>2. (x - 1) % d = d - 1
      BY <1>1, <2>1, RemainderIs
    <2>3. r + d - 1 = d * 0 + (d - 1)
      BY <1>2
    <2>4. (r + d - 1) % d = d - 1
      BY <1>1, <2>3, RemainderIs
    <2> QED
      BY <2>2, <2>4 DEF r
  <1>3. CASE r # 0
    <2>1. x - 1 = d * q + (r - 1) /\ r - 1 \in 0..(d - 1)
      BY <1>1, <1>3
    <2>2. (x - 1) % d = r - 1
      BY <1>1, <2>1, RemainderIs
    <2>3. r + d - 1 = d * 1 + (r - 1)
      BY <1>1
    <2>4. (r + d - 1) % d = r - 1
      BY <1>1, <2>1, <2>3, RemainderIs
    <2> QED
      BY <2>2, <2>4 DEF r
  <1> QED
    BY <1>2, <1>3

\* An occurrence of a window that began on a day, and lasts for less than one.
LEMMA OccurrenceDays ==
    ASSUME NEW d \in Nat \ {0}, NEW t \in Int, NEW m \in 0..(d - 1), NEW s \in 0..(d - 1), NEW e \in 0..(d - 1),
           s # e, NEW day \in Int, day <= t
    PROVE  (day * d + s <= t * d + m /\ t * d + m < day * d + s + ((e - s + d) % d))
             <=> \/ day = t /\ s <= m /\ (s < e => m < e)
                 \/ day = t - 1 /\ e < s /\ m < e
  <1> DEFINE length == (e - s + d) % d
             x == day * d
             y == t * d
  <1>1. length = IF s < e THEN e - s ELSE e - s + d
    <2>1. CASE s < e
      <3>1. e - s + d = d * 1 + (e - s) /\ e - s \in 0..(d - 1) /\ e - s + d \in Int
        BY <2>1
      <3>2. length = e - s
        BY <3>1, RemainderIs
      <3> QED
        BY <2>1, <3>2
    <2>2. CASE ~(s < e)
      <3>1. e - s + d = d * 0 + (e - s + d) /\ e - s + d \in 0..(d - 1) /\ e - s + d \in Int
        BY <2>2
      <3>2. length = e - s + d
        BY <3>1, RemainderIs
      <3> QED
        BY <2>2, <3>2
    <2> QED
      BY <2>1, <2>2
  <1>2. x \in Int /\ y \in Int
    OBVIOUS
  <1>3. CASE day = t
    <2>1. x = y
      BY <1>3
    <2> HIDE DEF x, y, length
    <2>2. (x + s <= y + m /\ y + m < x + s + length) <=> s <= m /\ (s < e => m < e)
      BY <1>1, <1>2, <2>1
    <2>3. day # t - 1
      BY <1>3
    <2> QED
      BY <1>3, <2>2, <2>3 DEF x, y, length
  <1>4. CASE day = t - 1
    <2>1. x = y - d
      BY <1>4
    <2> HIDE DEF x, y, length
    <2>2. (x + s <= y + m /\ y + m < x + s + length) <=> e < s /\ m < e
      BY <1>1, <1>2, <2>1
    <2>3. day # t
      BY <1>4
    <2> QED
      BY <1>4, <2>2, <2>3 DEF x, y, length
  <1>5. CASE day <= t - 2
    <2>1. d * day <= d * (t - 2)
      BY <1>5, ProductOrder
    <2>2. d * (t - 2) = y - 2 * d /\ d * day = x
      OBVIOUS
    <2>3. x <= y - 2 * d
      BY <2>1, <2>2
    <2> HIDE DEF x, y, length
    <2>4. ~(y + m < x + s + length)
      BY <1>1, <1>2, <2>3
    <2>5. day # t - 1 /\ day # t
      BY <1>5
    <2> QED
      BY <2>4, <2>5 DEF x, y, length
  <1> QED
    BY <1>3, <1>4, <1>5

\* A window contains an instant exactly in one of its occurrences.
LEMMA WindowOccurs ==
    ASSUME NEW w, ValidWindow(w), NEW i \in Int, NEW rules, Offset[rules] \in Int
    PROVE  contains(w, i, rules) <=>
             LET local == i + Offset[rules]
                 today == local \div DayLength
             IN  \E day \in (today - Days)..today :
                    /\ day % Days \in w.days
                    /\ local >= day * DayLength + w.start
                    /\ local < day * DayLength + w.start + ((w.end - w.start + DayLength) % DayLength)
  <1> DEFINE local == i + Offset[rules]
             t == local \div DayLength
             m == local % DayLength
             s == w.start
             e == w.end
             D == w.days
  <1>0. DayLength \in Nat \ {0} /\ Days \in Nat \ {0}
    BY UsageAssumption
  <1>1. s \in 0..(DayLength - 1) /\ e \in 0..(DayLength - 1) /\ s # e
    BY DEF ValidWindow
  <1>2. local \in Int
    OBVIOUS
  <1>3. local = DayLength * t + m /\ m \in 0..(DayLength - 1) /\ t \in Int
    BY <1>0, <1>2, Divides
  <1>4. ((t % Days) + Days - 1) % Days = (t - 1) % Days
    BY <1>0, <1>3, DayBefore
  <1>5. contains(w, i, rules) <=>
          IF s < e THEN m >= s /\ m < e /\ t % Days \in D
          ELSE \/ m >= s /\ t % Days \in D
               \/ m < s /\ m < e /\ ((t % Days) + Days - 1) % Days \in D
    BY Zenon DEF contains
  <1> HIDE DEF local, t, m, s, e, D
  <1>6. local = t * DayLength + m
    BY <1>0, <1>3
  <1>7. ASSUME NEW day \in Int, day <= t
        PROVE  (local >= day * DayLength + s /\ local < day * DayLength + s + ((e - s + DayLength) % DayLength))
                 <=> \/ day = t /\ s <= m /\ (s < e => m < e)
                     \/ day = t - 1 /\ e < s /\ m < e
    <2>1. (day * DayLength + s <= t * DayLength + m
             /\ t * DayLength + m < day * DayLength + s + ((e - s + DayLength) % DayLength))
            <=> \/ day = t /\ s <= m /\ (s < e => m < e)
                \/ day = t - 1 /\ e < s /\ m < e
      BY <1>0, <1>1, <1>3, <1>7, OccurrenceDays
    <2> DEFINE x == day * DayLength + s
               y == day * DayLength + s + ((e - s + DayLength) % DayLength)
    <2>2. x \in Int /\ local \in Int
      BY <1>0, <1>1, <1>2
    <2>3. (x <= local /\ local < y)
            <=> \/ day = t /\ s <= m /\ (s < e => m < e)
                \/ day = t - 1 /\ e < s /\ m < e
      BY <1>6, <2>1
    <2> HIDE DEF x, y
    <2>4. (local >= x /\ local < y)
            <=> \/ day = t /\ s <= m /\ (s < e => m < e)
                \/ day = t - 1 /\ e < s /\ m < e
      BY <2>2, <2>3
    <2> QED
      BY <2>4 DEF x, y
  <1>8. t \in (t - Days)..t /\ t - 1 \in (t - Days)..t /\ \A day \in (t - Days)..t : day \in Int /\ day <= t
    BY <1>0, <1>3
  <1> DEFINE Holds(day) == local >= day * DayLength + s
                             /\ local < day * DayLength + s + ((e - s + DayLength) % DayLength)
  <1>9. \A day \in (t - Days)..t :
           Holds(day) <=> \/ day = t /\ s <= m /\ (s < e => m < e)
                          \/ day = t - 1 /\ e < s /\ m < e
    BY <1>7, <1>8
  <1> HIDE DEF Holds
  <1>10. (\E day \in (t - Days)..t : day % Days \in D /\ Holds(day))
           <=> \/ t % Days \in D /\ s <= m /\ (s < e => m < e)
               \/ (t - 1) % Days \in D /\ e < s /\ m < e
    <2>1. ASSUME NEW day \in (t - Days)..t, day % Days \in D, Holds(day)
          PROVE  \/ t % Days \in D /\ s <= m /\ (s < e => m < e)
                 \/ (t - 1) % Days \in D /\ e < s /\ m < e
      BY <1>9, <2>1
    <2>2. ASSUME t % Days \in D /\ s <= m /\ (s < e => m < e)
          PROVE  \E day \in (t - Days)..t : day % Days \in D /\ Holds(day)
      <3>1. Holds(t)
        BY <1>8, <1>9, <2>2
      <3> QED
        BY <1>8, <2>2, <3>1
    <2>3. ASSUME (t - 1) % Days \in D /\ e < s /\ m < e
          PROVE  \E day \in (t - Days)..t : day % Days \in D /\ Holds(day)
      <3>1. Holds(t - 1)
        BY <1>8, <1>9, <2>3
      <3> QED
        BY <1>8, <2>3, <3>1
    <2> QED
      BY <2>1, <2>2, <2>3
  <1> DEFINE u == t % Days \in D
             v == (t - 1) % Days \in D
  <1>11. contains(w, i, rules) <=>
          IF s < e THEN m >= s /\ m < e /\ u ELSE (m >= s /\ u) \/ (m < s /\ m < e /\ v)
    BY <1>4, <1>5
  <1>12. (\E day \in (t - Days)..t : day % Days \in D /\ Holds(day))
           <=> (u /\ s <= m /\ (s < e => m < e)) \/ (v /\ e < s /\ m < e)
    BY <1>10
  <1> DEFINE here == \E day \in (t - Days)..t : day % Days \in D /\ Holds(day)
             held == contains(w, i, rules)
  <1>13. /\ held <=> IF s < e THEN m >= s /\ m < e /\ u ELSE (m >= s /\ u) \/ (m < s /\ m < e /\ v)
         /\ here <=> (u /\ s <= m /\ (s < e => m < e)) \/ (v /\ e < s /\ m < e)
    BY <1>11, <1>12
  <1>14. s \in Int /\ e \in Int /\ m \in Int
    BY <1>1, <1>3, <1>0
  <1> HIDE DEF u, v, here, held
  <1>15. held <=> here
    BY <1>1, <1>13, <1>14
  <1>16. contains(w, i, rules) <=> here
    BY <1>15 DEF held
  <1> QED
    BY <1>16, Zenon DEF here, Holds, local, t, m, s, e, D

\* A price book leaves no choice between two schedules.
LEMMA OneSchedule ==
    ASSUME NEW book, ValidBook(book), NEW c, NEW i \in Int, NEW r, r.input \in Int,
           \A s \in book : /\ s.min \in Nat /\ s.from \in Nat
                           /\ s.max \in {None} \cup Nat /\ s.until \in {None} \cup Nat
    PROVE  Cardinality({s \in book : /\ matches_base(s, c, i)
                                     /\ matches_service_tier(s, r) /\ matches_context(s, r)}) <= 1
  <1> DEFINE S == {s \in book : /\ matches_base(s, c, i)
                                /\ matches_service_tier(s, r) /\ matches_context(s, r)}
  <1>1. ASSUME NEW s \in S, NEW t \in S, s # t PROVE FALSE
    <2>1. s \in book /\ t \in book /\ ~overlaps(s, t)
      BY <1>1 DEF ValidBook
    <2>2. /\ s.profile = t.profile /\ s.model = t.model
          /\ selectors_overlap(s.dialect, t.dialect) /\ selectors_overlap(s.tier, t.tier)
      BY DEF matches_base, matches_service_tier, selectors_overlap
    <2>3. /\ s.min <= r.input /\ (s.max = None \/ r.input < s.max)
          /\ t.min <= r.input /\ (t.max = None \/ r.input < t.max)
          /\ s.from <= i /\ (s.until = None \/ i < s.until)
          /\ t.from <= i /\ (t.until = None \/ i < t.until)
      BY DEF matches_base, matches_context
    <2>4. /\ s.min \in Nat /\ s.from \in Nat /\ t.min \in Nat /\ t.from \in Nat
          /\ s.max \in {None} \cup Nat /\ s.until \in {None} \cup Nat
          /\ t.max \in {None} \cup Nat /\ t.until \in {None} \cup Nat
      BY <2>1
    <2>5. /\ s.max = None \/ t.min < s.max
          /\ t.max = None \/ s.min < t.max
          /\ s.until = None \/ t.from < s.until
          /\ t.until = None \/ s.from < t.until
      BY <2>3, <2>4
    <2> QED
      BY <2>1, <2>2, <2>5 DEF overlaps, ranges_overlap
  <1> HIDE DEF S
  <1>2. CASE S = {}
    <2>1. Cardinality(S) = 0
      BY <1>2, FS_EmptySet
    <2> QED
      BY <2>1 DEF S
  <1>3. CASE S # {}
    <2>1. PICK s : s \in S
      BY <1>3
    <2>2. S = {s}
      BY <1>1, <2>1
    <2>3. Cardinality(S) = 1
      BY <2>2, FS_Singleton
    <2> QED
      BY <2>3 DEF S
  <1> QED
    BY <1>2, <1>3

\* Of some schedules with natural ids, one has the least.
LEMMA LeastSchedule ==
    ASSUME NEW S, S # {}, \A s \in S : s.id \in Nat
    PROVE  \E s \in S : \A t \in S : s.id <= t.id
  <1>1. SUFFICES ASSUME ~(\E s \in S : \A t \in S : s.id <= t.id) PROVE FALSE
    OBVIOUS
  <1>2. PICK last : last \in S
    OBVIOUS
  <1> DEFINE n == last.id
             K == {k \in 0..n : \A s \in S : s.id >= k}
  <1>3. n \in Nat
    BY <1>2
  <1>4. 0 \in K
    BY <1>3
  <1>5. ASSUME NEW k \in 1..n, k - 1 \in K PROVE k \in K
    <2>1. \A s \in S : s.id >= k - 1
      BY <1>5
    <2>2. ASSUME NEW s \in S, s.id = k - 1 PROVE FALSE
      BY <1>1, <2>1, <2>2
    <2>3. \A s \in S : s.id >= k
      <3>1. ASSUME NEW s \in S PROVE s.id >= k
        <4>1. s.id \in Nat /\ s.id >= k - 1 /\ s.id # k - 1
          BY <2>1, <2>2
        <4> DEFINE x == s.id
        <4>2. x \in Nat /\ x >= k - 1 /\ x # k - 1
          BY <4>1
        <4> HIDE DEF x
        <4>3. x >= k
          BY <4>2
        <4> QED
          BY <4>3 DEF x
      <3> QED
        BY <3>1
    <2> QED
      BY <2>3
  <1>6. n \in K
    <2> HIDE DEF K, n
    <2> QED
      BY <1>3, <1>4, <1>5, IntervalInduction
  <1>7. \A s \in S : last.id <= s.id
    BY <1>3, <1>6
  <1> QED
    BY <1>1, <1>2, <1>7

\* The schedules of a configuration: their ids, bounds and rates.
BookOK(book) ==
    \A s \in book :
        /\ s.id \in Nat /\ s.min \in Nat /\ s.from \in Nat
        /\ s.max \in {None} \cup Nat /\ s.until \in {None} \cup Nat
        /\ s.rates.input \in Nat /\ s.rates.cached \in Nat /\ s.rates.write \in Nat
        /\ s.rates.output \in Nat /\ s.rates.reasoning \in Nat
        /\ s.currency \in Currencies
RecordOK(r) ==
    /\ {r.input, r.cached, r.write, r.output, r.reasoning} \subseteq {None} \cup (0..MaxTokens)
    /\ r.accuracy \in Accuracies

LEMMA BooksAreOK ==
    ASSUME NEW epoch \in Epochs
    PROVE  BookOK(epoch.book)
  <1>1. \A s \in epoch.book : s.currency \in Currencies
    BY DEF Currencies
  <1>2. \A s \in epoch.book :
            /\ {s.id, s.min, s.from} \subseteq Nat /\ {s.max, s.until} \subseteq {None} \cup Nat
            /\ {s.rates.input, s.rates.cached, s.rates.write, s.rates.output, s.rates.reasoning}
                 \subseteq Nat
    BY UsageAssumption, Zenon
  <1> QED
    BY <1>1, <1>2 DEF BookOK

LEMMA RecordsAreOK ==
    ASSUME NEW r \in Records \cup {NoRecord}
    PROVE  RecordOK(r)
  <1>1. CASE r \in Records
    BY <1>1, UsageAssumption DEF RecordOK, Accuracies
  <1>2. CASE r = NoRecord
    BY <1>2 DEF RecordOK, NoRecord, Accuracies
  <1> QED
    BY <1>1, <1>2

LEMMA NaturalProduct ==
    ASSUME NEW x \in Nat, NEW y \in Nat
    PROVE  x * y \in Nat
  OBVIOUS

\* What a cost that is known must say.
CostOK(cost, r) ==
    /\ cost.known \in BOOLEAN
    /\ cost.known => /\ cost.amount \in 0..MaxTokens /\ cost.currency \in Currencies
                     /\ cost.accuracy = r.accuracy

LEMMA UnknownIsOK ==
    ASSUME NEW reason, NEW r
    PROVE  CostOK(Unknown(reason), r)
  BY DEF CostOK, Unknown

LEMMA EstimateIsOK ==
    ASSUME NEW book, BookOK(book), NEW s \in book, NEW r, RecordOK(r)
    PROVE  CostOK(estimate(s, r), r)
  <1> DEFINE rates == s.rates
             write == IF r.write = None /\ rates.write = 0 THEN 0 ELSE r.write
             reasoning == IF r.reasoning = None /\ rates.reasoning = rates.output THEN 0 ELSE r.reasoning
             uncached == r.input - r.cached - write
             visible == r.output - reasoning
             a1 == uncached * rates.input
             a2 == r.cached * rates.cached
             a3 == write * rates.write
             a4 == visible * rates.output
             a5 == reasoning * rates.reasoning
             amount == a1 + a2 + a3 + a4 + a5
             last == IF uncached < 0 THEN Unknown("InconsistentInputAccounting")
                     ELSE IF visible < 0 THEN Unknown("InconsistentOutputAccounting")
                     ELSE IF amount > MaxTokens THEN Unknown("ArithmeticOverflow")
                     ELSE Known(amount, s, r)
             c1 == r.input = None
             c2 == r.input # None /\ r.cached = None
             c3 == r.input # None /\ r.cached # None /\ write = None
             c4 == None \notin {r.input, r.cached, write} /\ r.output = None
             c5 == None \notin {r.input, r.cached, write, r.output} /\ reasoning = None
  <1>1. estimate(s, r) =
          CASE c1 -> Unknown("MissingInputTokens")
            [] c2 -> Unknown("MissingCachedInputTokens")
            [] c3 -> Unknown("MissingCacheWriteInputTokens")
            [] c4 -> Unknown("MissingOutputTokens")
            [] c5 -> Unknown("MissingReasoningOutputTokens")
            [] OTHER -> last
    BY Zenon DEF estimate
  <1>2. /\ rates.input \in Nat /\ rates.cached \in Nat /\ rates.write \in Nat
        /\ rates.output \in Nat /\ rates.reasoning \in Nat /\ s.currency \in Currencies
    BY DEF BookOK
  <1>3. {r.input, r.cached, r.write, r.output, r.reasoning} \subseteq {None} \cup (0..MaxTokens)
    BY DEF RecordOK
  <1>4. ~c1 /\ ~c2 /\ ~c3 /\ ~c4 /\ ~c5 =>
           /\ r.input \in 0..MaxTokens /\ r.cached \in 0..MaxTokens /\ r.output \in 0..MaxTokens
           /\ write \in 0..MaxTokens /\ reasoning \in 0..MaxTokens
    BY <1>3, UsageAssumption DEF None
  <1>5. ASSUME ~c1 /\ ~c2 /\ ~c3 /\ ~c4 /\ ~c5, ~(uncached < 0), ~(visible < 0), ~(amount > MaxTokens)
        PROVE  amount \in 0..MaxTokens
    <2>0. MaxTokens \in Nat
      BY UsageAssumption
    <2> DEFINE x == r.input
               y == r.cached
               z == r.output
               w == write
               g == reasoning
    <2>1. x \in Nat /\ y \in Nat /\ z \in Nat /\ w \in Nat /\ g \in Nat
      BY <1>4, <1>5, <2>0
    <2>2. uncached = x - y - w /\ visible = z - g
      OBVIOUS
    <2>3. uncached \in Nat /\ visible \in Nat
      <3> HIDE DEF x, y, z, w, g, uncached, visible
      <3> QED
        BY <1>5, <2>1, <2>2
    <2> HIDE DEF x, y, z, w, g, uncached, visible, rates
    <2>4. a1 \in Nat /\ a2 \in Nat /\ a3 \in Nat /\ a4 \in Nat /\ a5 \in Nat
      <3>1. a1 \in Nat
        BY <1>2, <2>3, NaturalProduct
      <3>2. a4 \in Nat
        BY <1>2, <2>3, NaturalProduct
      <3>3. y * rates.cached \in Nat
        BY <1>2, <2>1, NaturalProduct
      <3>4. w * rates.write \in Nat
        BY <1>2, <2>1, NaturalProduct
      <3>5. g * rates.reasoning \in Nat
        BY <1>2, <2>1, NaturalProduct
      <3> QED
        BY <3>1, <3>2, <3>3, <3>4, <3>5 DEF y, w, g
    <2> HIDE DEF a1, a2, a3, a4, a5
    <2> QED
      BY <1>5, <2>0, <2>4
  <1> HIDE DEF c1, c2, c3, c4, c5, uncached, visible, amount
  <1>6. ~c1 /\ ~c2 /\ ~c3 /\ ~c4 /\ ~c5 => CostOK(last, r)
    <2>1. ASSUME ~c1 /\ ~c2 /\ ~c3 /\ ~c4 /\ ~c5, ~(uncached < 0), ~(visible < 0), ~(amount > MaxTokens)
          PROVE  CostOK(Known(amount, s, r), r)
      BY <1>2, <1>5, <2>1 DEF CostOK, Known
    <2> QED
      BY <2>1, UnknownIsOK
  <1> HIDE DEF last
  <1>7. \/ estimate(s, r) = last /\ ~c1 /\ ~c2 /\ ~c3 /\ ~c4 /\ ~c5
        \/ \E reason : estimate(s, r) = Unknown(reason)
    BY <1>1
  <1> QED
    BY <1>6, <1>7, UnknownIsOK

LEMMA EstimatesAreOK ==
    ASSUME NEW book, BookOK(book), NEW c, NEW i, NEW r, RecordOK(r)
    PROVE  CostOK(estimate_attempt(book, c, i, r), r)
  <1> DEFINE base == {s \in book : matches_base(s, c, i)}
             tiers == {s \in base : matches_service_tier(s, r)}
             fitting == {s \in tiers : matches_context(s, r)}
             least == CHOOSE s \in fitting : \A t \in fitting : s.id <= t.id
             whose == IF r.tier = "none" THEN "MissingServiceTier" ELSE "NoMatchingSchedule"
  <1>1. estimate_attempt(book, c, i, r) =
          CASE base = {} -> Unknown("NoMatchingSchedule")
            [] base # {} /\ tiers = {} -> Unknown(whose)
            [] tiers # {} /\ r.input = None -> Unknown("MissingInputTokens")
            [] tiers # {} /\ r.input # None /\ fitting = {} -> Unknown("NoMatchingSchedule")
            [] OTHER -> estimate(least, r)
    BY Zenon DEF estimate_attempt
  <1>2. fitting # {} => least \in book
    <2>1. fitting \subseteq book
      OBVIOUS
    <2>2. \A s \in fitting : s.id \in Nat
      BY <2>1 DEF BookOK
    <2> HIDE DEF fitting
    <2>3. fitting # {} => \E s \in fitting : \A t \in fitting : s.id <= t.id
      BY <2>2, LeastSchedule
    <2>4. fitting # {} => least \in fitting
      BY <2>3
    <2> QED
      BY <2>1, <2>4
  <1>3. fitting # {} => CostOK(estimate(least, r), r)
    <2> HIDE DEF fitting, least
    <2> QED
      BY <1>2, EstimateIsOK
  <1>4. base = {} => tiers = {}
    OBVIOUS
  <1> HIDE DEF base, tiers, fitting, least, whose
  <1>5. \/ estimate_attempt(book, c, i, r) = estimate(least, r) /\ fitting # {}
        \/ \E reason : estimate_attempt(book, c, i, r) = Unknown(reason)
    BY <1>1, <1>4
  <1> QED
    BY <1>3, <1>5, UnknownIsOK

-----------------------------------------------------------------------------
(* Usage: the invariant.                                                    *)

IsList(s) == s \in Seq({s[i] : i \in DOMAIN s})

LEMMA ListOf ==
    ASSUME NEW S, NEW s \in Seq(S)
    PROVE  IsList(s) /\ Len(s) \in Nat /\ DOMAIN s = 1..Len(s)
  <1>1. PICK n \in Nat : s \in [1..n -> S]
    BY SeqDef
  <1>2. s \in [1..n -> {s[i] : i \in DOMAIN s}]
    BY <1>1
  <1>3. s \in Seq({s[i] : i \in DOMAIN s})
    BY <1>2, SeqDef, SMTT(20)
  <1>4. Len(s) \in Nat /\ DOMAIN s = 1..Len(s)
    OBVIOUS
  <1> QED
    BY <1>3, <1>4 DEF IsList

LEMMA Listed ==
    ASSUME NEW s, IsList(s)
    PROVE  Len(s) \in Nat /\ DOMAIN s = 1..Len(s)
  <1> DEFINE S == {s[i] : i \in DOMAIN s}
  <1>1. s \in Seq(S)
    BY DEF IsList
  <1> HIDE DEF S
  <1> QED
    BY <1>1, ListOf

LEMMA ListGrows ==
    ASSUME NEW s, IsList(s), NEW x
    PROVE  /\ IsList(Append(s, x)) /\ Len(Append(s, x)) = Len(s) + 1
           /\ DOMAIN Append(s, x) = 1..(Len(s) + 1)
           /\ \A i \in DOMAIN s : i \in DOMAIN Append(s, x) /\ Append(s, x)[i] = s[i]
           /\ Append(s, x)[Len(s) + 1] = x
  <1> DEFINE S == {s[i] : i \in DOMAIN s} \cup {x}
             t == Append(s, x)
  <1>1. s \in Seq(S) /\ x \in S
    <2>1. s \in Seq({s[i] : i \in DOMAIN s})
      BY DEF IsList
    <2> QED
      BY <2>1, SeqMonotonic
  <1> HIDE DEF S
  <1>2. t \in Seq(S) /\ Len(t) = Len(s) + 1 /\ (\A i \in 1..Len(s) : t[i] = s[i]) /\ t[Len(s) + 1] = x
    BY <1>1
  <1>3. IsList(t) /\ DOMAIN t = 1..Len(t)
    BY <1>2, ListOf
  <1>4. Len(s) \in Nat /\ DOMAIN s = 1..Len(s)
    BY Listed
  <1> HIDE DEF t
  <1>5. /\ IsList(t) /\ Len(t) = Len(s) + 1 /\ DOMAIN t = 1..(Len(s) + 1)
        /\ \A i \in DOMAIN s : i \in DOMAIN t /\ t[i] = s[i]
        /\ t[Len(s) + 1] = x
    BY <1>2, <1>3, <1>4
  <1> QED
    BY <1>5 DEF t

\* A Turn as a valid configuration admits it.
TurnOK(turn) ==
    /\ \A w \in turn.windows : ValidWindow(w)
    /\ ValidBook(turn.book) /\ BookOK(turn.book)
    /\ turn.ruleset \in DOMAIN Offset
TurnsOK(ts) == IsList(ts) /\ \A t \in DOMAIN ts : TurnOK(ts[t])

\* An attempt as its Turn's configuration attributes it.
Attributed(ts, a) ==
    /\ AttemptOK(a) /\ a.started \in 0..MaxInstant /\ a.turn \in DOMAIN ts
    /\ a.windows = {w \in ts[a.turn].windows : contains(w, a.started, ts[a.turn].ruleset)}
AllAttributed(ts, ats) == IsList(ats) /\ \A i \in DOMAIN ats : Attributed(ts, ats[i])

\* Every rollup kept is that of its scope's attempts, and none is missing.
OfScope(ats, scope) == {i \in DOMAIN ats : scope \in ScopesOf(ats[i])}
RolledUp(rs, ats) ==
    /\ \A i \in DOMAIN ats : ScopesOf(ats[i]) \subseteq DOMAIN rs
    /\ \A scope \in DOMAIN rs : rs[scope] = Parts(ats, OfScope(ats, scope))

\* A walk has read the attempts of its revision up to its cursor.
Walked(wk, ats) ==
    /\ wk = [cursor |-> wk.cursor, revision |-> wk.revision, seen |-> wk.seen, whole |-> wk.whole]
    /\ wk.whole \in BOOLEAN
    /\ wk.cursor # None => /\ wk.cursor \in 0..wk.revision /\ wk.revision \in 0..Len(ats)
                           /\ wk.seen = SubSeq(ats, 1, wk.cursor)
    /\ wk.whole => wk.revision \in 0..Len(ats) /\ wk.seen = SubSeq(ats, 1, wk.revision)

UsageInv ==
    /\ TurnsOK(turns) /\ AllAttributed(turns, attempts)
    /\ RolledUp(rollups, attempts) /\ Walked(walk, attempts)
    /\ pending \in BOOLEAN /\ ruleset \in DOMAIN Offset
    /\ pending => Current \in DOMAIN turns
    /\ open \in {None} \cup (0..MaxInstant)

LEMMA AttributedAreOK ==
    ASSUME NEW ts, NEW ats, AllAttributed(ts, ats)
    PROVE  AttemptsOK(ats)
  <1>1. Len(ats) \in Nat /\ DOMAIN ats = 1..Len(ats)
    BY Listed DEF AllAttributed
  <1> QED
    BY <1>1 DEF AllAttributed, Attributed, AttemptsOK

\* RecordAttempt keeps the rollups.
LEMMA RecordedRollsUp ==
    ASSUME AttemptsOK(attempts), IsList(attempts), RolledUp(rollups, attempts), NEW a, AttemptOK(a)
    PROVE  RolledUp(Recorded(a), Append(attempts, a))
  <1> DEFINE new == Append(attempts, a)
             rs == Recorded(a)
             n == Len(attempts) + 1
             D == DOMAIN rollups
             A == ScopesOf(a)
             after(scope) == ObserveCost(Observe(Rollup(scope), a), a.cost)
  <1>1. /\ DOMAIN new = 1..n /\ Len(new) = n /\ Len(attempts) \in Nat /\ DOMAIN attempts = 1..Len(attempts)
        /\ \A i \in DOMAIN attempts : i \in DOMAIN new /\ new[i] = attempts[i]
        /\ new[n] = a
    BY ListGrows, Listed
  <1>2. rs = [scope \in D \cup A |-> IF scope \in A THEN after(scope) ELSE rollups[scope]]
    BY Zenon DEF Recorded
  <1> HIDE DEF new
  <1>3. AttemptsOK(new)
    <2>1. \A i \in 1..n : AttemptOK(new[i])
      <3>1. ASSUME NEW i \in 1..n PROVE AttemptOK(new[i])
        <4>1. i \in DOMAIN attempts \/ i = n
          BY <1>1
        <4>2. \A j \in DOMAIN attempts : AttemptOK(attempts[j])
          BY <1>1 DEF AttemptsOK
        <4> QED
          BY <1>1, <4>1, <4>2
      <3> QED
        BY <3>1
    <2> QED
      BY <1>1, <2>1 DEF AttemptsOK
  <1>4. Extends(new, attempts)
    BY <1>1 DEF Extends
  <1>5. \A scope : OfScope(new, scope) = IF scope \in A THEN OfScope(attempts, scope) \cup {n}
                                         ELSE OfScope(attempts, scope)
    <2>1. ASSUME NEW scope
          PROVE  OfScope(new, scope) = IF scope \in A THEN OfScope(attempts, scope) \cup {n}
                                       ELSE OfScope(attempts, scope)
      <3>1. \A i : i \in DOMAIN new <=> i \in DOMAIN attempts \/ i = n
        BY <1>1
      <3>2. \A i : i \in OfScope(new, scope) <=> i \in DOMAIN new /\ scope \in ScopesOf(new[i])
        BY Zenon DEF OfScope
      <3>3. \A i : i \in OfScope(attempts, scope) <=> i \in DOMAIN attempts /\ scope \in ScopesOf(attempts[i])
        BY Zenon DEF OfScope
      <3>4. \A i \in DOMAIN attempts : new[i] = attempts[i]
        BY <1>1
      <3>5. new[n] = a
        BY <1>1
      <3>6. \A i : i \in OfScope(new, scope) <=> i \in OfScope(attempts, scope) \/ (i = n /\ scope \in A)
        BY <3>1, <3>2, <3>3, <3>4, <3>5
      <3> HIDE DEF A, n
      <3> QED
        BY <3>6
    <2> QED
      BY <2>1
  <1>6. \A scope : Rollup(scope) = Parts(attempts, OfScope(attempts, scope))
    <2>1. ASSUME NEW scope PROVE Rollup(scope) = Parts(attempts, OfScope(attempts, scope))
      <3>1. CASE scope \in D
        BY <3>1 DEF RolledUp, Rollup
      <3>2. CASE scope \notin D
        <4>1. OfScope(attempts, scope) = {}
          BY <3>2 DEF RolledUp, OfScope
        <4>2. Rollup(scope) = EmptyRollup
          BY <3>2 DEF Rollup
        <4> QED
          BY <4>1, <4>2, PartsNone
      <3> QED
        BY <3>1, <3>2
    <2> QED
      BY <2>1
  <1>7. \A scope : Parts(new, OfScope(attempts, scope)) = Parts(attempts, OfScope(attempts, scope))
    <2>1. ASSUME NEW scope
          PROVE  Parts(new, OfScope(attempts, scope)) = Parts(attempts, OfScope(attempts, scope))
      <3>1. Part(attempts, OfScope(attempts, scope))
        BY DEF Part, OfScope
      <3> QED
        BY <1>4, <3>1, PartsAgree
    <2> QED
      BY <2>1
  <1>8. \A scope \in A : after(scope) = Parts(new, OfScope(new, scope))
    <2>1. ASSUME NEW scope \in A PROVE after(scope) = Parts(new, OfScope(new, scope))
      <3> DEFINE S == OfScope(attempts, scope)
                 V == OfScope(new, scope)
      <3>1. V = S \cup {n}
        BY <1>5
      <3>2. S \in SUBSET (DOMAIN new) /\ {n} \in SUBSET (DOMAIN new) /\ S \cap {n} = {}
        BY <1>1 DEF OfScope
      <3>3. Joins(new, V, S, {n})
        BY <1>3, <3>1, <3>2 DEF Joins
      <3>4. ObserveCost(Observe(Parts(new, S), new[n]), new[n].cost) = Parts(new, V)
        <4> HIDE DEF S, V, n
        <4> QED
          BY <3>3, PartsOne
      <3>5. Parts(new, S) = Rollup(scope) /\ new[n] = a
        BY <1>1, <1>6, <1>7
      <3> QED
        BY <3>4, <3>5
    <2> QED
      BY <2>1
  <1> HIDE DEF after, A, D, n, rs
  <1>9. DOMAIN rs = D \cup A
    BY <1>2
  <1>10. \A scope \in DOMAIN rs : rs[scope] = Parts(new, OfScope(new, scope))
    <2>1. ASSUME NEW scope \in DOMAIN rs, scope \in A PROVE rs[scope] = Parts(new, OfScope(new, scope))
      BY <1>2, <1>8, <1>9, <2>1
    <2>2. ASSUME NEW scope \in DOMAIN rs, scope \notin A PROVE rs[scope] = Parts(new, OfScope(new, scope))
      <3>1. rs[scope] = rollups[scope] /\ scope \in D
        BY <1>2, <1>9, <2>2
      <3>2. rollups[scope] = Parts(attempts, OfScope(attempts, scope))
        BY <3>1 DEF RolledUp, D
      <3>3. OfScope(new, scope) = OfScope(attempts, scope)
        BY <1>5, <2>2
      <3> QED
        BY <1>7, <3>1, <3>2, <3>3
    <2> QED
      BY <2>1, <2>2
  <1>11. \A i \in DOMAIN new : ScopesOf(new[i]) \subseteq DOMAIN rs
    <2>1. ASSUME NEW i \in DOMAIN new PROVE ScopesOf(new[i]) \subseteq DOMAIN rs
      <3>1. i \in DOMAIN attempts \/ i = n
        BY <1>1 DEF n
      <3>2. CASE i \in DOMAIN attempts
        <4>1. ScopesOf(attempts[i]) \subseteq D /\ new[i] = attempts[i]
          BY <1>1, <3>2 DEF RolledUp, D
        <4> QED
          BY <1>9, <4>1
      <3>3. CASE i = n
        <4>1. ScopesOf(new[i]) = A
          BY <1>1, <3>3 DEF A
        <4> QED
          BY <1>9, <4>1
      <3> QED
        BY <3>1, <3>2, <3>3
    <2> QED
      BY <2>1
  <1> QED
    BY <1>10, <1>11 DEF RolledUp, rs, new

-----------------------------------------------------------------------------
(* Usage: what a step keeps.                                                *)

\* usage_attempt_finish_events attributes an attempt as its Turn says.
LEMMA EndedIsAttributed ==
    ASSUME TurnsOK(turns), Current \in DOMAIN turns, open \in 0..MaxInstant,
           NEW outcome \in Outcomes, NEW record \in Records \cup {NoRecord}
    PROVE  Attributed(turns, Ended(outcome, record))
  <1> DEFINE a == Ended(outcome, record)
             turn == turns[Current]
             cost == IF outcome # "Succeeded" THEN Unknown("MissingUsageRecord")
                     ELSE estimate_attempt(turn.book, turn.context, open, record)
             windows == {w \in turn.windows : contains(w, open, turn.ruleset)}
  <1>1. a = [turn |-> Current, agent |-> turn.agent, started |-> open,
             outcome |-> outcome, record |-> record, windows |-> windows, cost |-> cost]
    BY Zenon DEF Ended
  <1>2. RecordOK(record)
    BY RecordsAreOK
  <1>3. BookOK(turn.book)
    BY DEF TurnsOK, TurnOK
  <1>4. CostOK(cost, record)
    BY <1>2, <1>3, UnknownIsOK, EstimatesAreOK
  <1> HIDE DEF a, cost, windows
  <1>5. /\ a.turn = Current /\ a.started = open /\ a.outcome = outcome /\ a.record = record
        /\ a.windows = windows /\ a.cost = cost
    BY <1>1
  <1>6. AttemptOK(a)
    BY <1>2, <1>4, <1>5 DEF AttemptOK, CostOK, RecordOK
  <1>7. a.windows = {w \in turns[a.turn].windows : contains(w, a.started, turns[a.turn].ruleset)}
    BY <1>5, Zenon DEF windows
  <1> QED
    BY <1>5, <1>6, <1>7 DEF Attributed, a

\* A later Turn does not change what an attempt is attributed to.
LEMMA LaterTurnsKeep ==
    ASSUME NEW ts, IsList(ts), NEW turn, NEW a, Attributed(ts, a)
    PROVE  Attributed(Append(ts, turn), a)
  <1>1. a.turn \in DOMAIN Append(ts, turn) /\ Append(ts, turn)[a.turn] = ts[a.turn]
    BY ListGrows DEF Attributed
  <1> QED
    BY <1>1 DEF Attributed

\* A further attempt that is attributed, appended to the others.
LEMMA AllAttributedGrows ==
    ASSUME NEW ts, NEW ats, AllAttributed(ts, ats), NEW a, Attributed(ts, a)
    PROVE  AllAttributed(ts, Append(ats, a))
  <1> DEFINE new == Append(ats, a)
             n == Len(ats) + 1
  <1>1. /\ IsList(new) /\ DOMAIN new = 1..n /\ (\A i \in DOMAIN ats : new[i] = ats[i]) /\ new[n] = a
        /\ Len(ats) \in Nat /\ DOMAIN ats = 1..Len(ats)
    BY ListGrows, Listed DEF AllAttributed
  <1>2. ASSUME NEW i \in DOMAIN new PROVE Attributed(ts, new[i])
    <2> HIDE DEF new
    <2>1. i \in DOMAIN ats \/ i = n
      BY <1>1
    <2> QED
      BY <1>1, <2>1 DEF AllAttributed
  <1> QED
    BY <1>1, <1>2 DEF AllAttributed

\* What a walk has read stays the beginning of the attempts.
LEMMA PrefixStays ==
    ASSUME NEW s, IsList(s), NEW x, NEW k \in 0..Len(s)
    PROVE  SubSeq(Append(s, x), 1, k) = SubSeq(s, 1, k)
  <1>1. /\ Len(s) \in Nat /\ DOMAIN s = 1..Len(s)
        /\ \A i \in DOMAIN s : Append(s, x)[i] = s[i]
    BY ListGrows, Listed
  <1> DEFINE t == Append(s, x)
             S == {s[i] : i \in DOMAIN s}
             p == SubSeq(t, 1, k)
             q == SubSeq(s, 1, k)
  <1>2. \A i \in 1..k : s[i] \in S /\ t[i] \in S /\ t[i] = s[i]
    BY <1>1
  <1>k. k \in Int /\ 1 \in Int
    BY <1>1
  <1> HIDE DEF S, t
  <1>3. /\ p \in Seq(S) /\ Len(p) = (IF 1 <= k THEN k - 1 + 1 ELSE 0)
        /\ \A i \in 1..(k - 1 + 1) : p[i] = t[1 + i - 1]
    BY <1>2, <1>k, SubSeqProperties
  <1>4. /\ q \in Seq(S) /\ Len(q) = (IF 1 <= k THEN k - 1 + 1 ELSE 0)
        /\ \A i \in 1..(k - 1 + 1) : q[i] = s[1 + i - 1]
    BY <1>2, <1>k, SubSeqProperties
  <1> HIDE DEF p, q
  <1>5. Len(p) = k /\ Len(q) = k
    BY <1>1, <1>3, <1>4
  <1>6. \A i \in 1..Len(p) : p[i] = q[i]
    <2>1. ASSUME NEW i \in 1..k PROVE p[i] = q[i]
      <3>1. 1 + i - 1 = i /\ k - 1 + 1 = k
        BY <1>1
      <3> QED
        BY <1>2, <1>3, <1>4, <2>1, <3>1
    <2> QED
      BY <1>5, <2>1
  <1>7. p = q
    BY <1>3, <1>4, <1>5, <1>6, SeqEqual
  <1> QED
    BY <1>7 DEF p, q, t

LEMMA WalkedGrows ==
    ASSUME NEW wk, NEW ats, IsList(ats), Walked(wk, ats), NEW a
    PROVE  Walked(wk, Append(ats, a))
  <1> DEFINE new == Append(ats, a)
  <1>1. Len(new) = Len(ats) + 1 /\ Len(ats) \in Nat
    BY ListGrows, Listed
  <1>2. \A k \in 0..Len(ats) : SubSeq(new, 1, k) = SubSeq(ats, 1, k)
    BY PrefixStays
  <1> HIDE DEF new
  <1>3. 0..Len(ats) \subseteq 0..Len(new)
    BY <1>1
  <1>4. wk.cursor # None => wk.cursor \in 0..Len(ats)
    BY <1>1 DEF Walked
  <1>5. Walked(wk, new)
    BY <1>2, <1>3, <1>4, Zenon DEF Walked
  <1> QED
    BY <1>5 DEF new

\* FirstPage reads the attempts from their beginning.
LEMMA FirstPageWalks ==
    ASSUME IsList(attempts), FirstPage
    PROVE  Walked(walk', attempts)
  <1> DEFINE n == Len(attempts)
             end == IF PageSize < n THEN PageSize ELSE n
             new == [cursor |-> IF end < n THEN end ELSE None, revision |-> n,
                     seen |-> SubSeq(attempts, 1, end), whole |-> end = n]
  <1>1. walk' = new
    BY Zenon DEF FirstPage
  <1>2. n \in Nat /\ PageSize \in Nat
    BY Listed, UsageAssumption
  <1> HIDE DEF n
  <1>3. end \in 0..n
    BY <1>2
  <1> HIDE DEF end
  <1>4. /\ new.cursor = IF end < n THEN end ELSE None
        /\ new.revision = n /\ new.seen = SubSeq(attempts, 1, end) /\ new.whole = (end = n)
        /\ new = [cursor |-> new.cursor, revision |-> new.revision, seen |-> new.seen, whole |-> new.whole]
    OBVIOUS
  <1>6. new.whole \in BOOLEAN /\ (new.whole => end = n)
    <2>1. new.whole = (end = n)
      BY <1>4
    <2> HIDE DEF new
    <2> QED
      BY <2>1, Zenon
  <1>7. new.cursor # None => new.cursor = end
    BY <1>4
  <1> HIDE DEF new
  <1>8. n \in 0..n
    BY <1>2
  <1>5. Walked(new, attempts)
    <2> USE DEF n
    <2> QED
      BY <1>3, <1>4, <1>6, <1>7, <1>8, Zenon DEF Walked
  <1> QED
    BY <1>1, <1>5

\* NextPage goes on where the walk has stopped, or gives it up.
LEMMA NextPageWalks ==
    ASSUME IsList(attempts), Walked(walk, attempts), NextPage
    PROVE  Walked(walk', attempts)
  <1>1. PICK same_instant \in BOOLEAN :
            walk' = IF report(walk.cursor, walk.revision, same_instant).ok
                    THEN [walk EXCEPT !.seen = @ \o report(walk.cursor, walk.revision, same_instant).page,
                                      !.cursor = report(walk.cursor, walk.revision, same_instant).next,
                                      !.whole = report(walk.cursor, walk.revision, same_instant).next = None]
                    ELSE NoWalk
    BY Zenon DEF NextPage
  <1> DEFINE n == Len(attempts)
             at == walk.cursor
             end == IF at + PageSize < n THEN at + PageSize ELSE n
             r == report(walk.cursor, walk.revision, same_instant)
             ok == walk.revision = n /\ same_instant /\ at <= n
             page == SubSeq(attempts, at + 1, end)
             next == IF end < n THEN end ELSE None
  <1>2. r = [ok |-> ok, page |-> page, next |-> next]
    BY Zenon DEF report
  <1> HIDE DEF ok, page, next
  <1>o. r.ok = ok /\ r.page = page /\ r.next = next
    BY <1>2
  <1> HIDE DEF r
  <1>3. /\ walk = [cursor |-> walk.cursor, revision |-> walk.revision, seen |-> walk.seen, whole |-> walk.whole]
        /\ at \in 0..walk.revision /\ walk.revision \in 0..n /\ walk.seen = SubSeq(attempts, 1, at)
    BY DEF NextPage, Walked
  <1>4. n \in Nat /\ PageSize \in Nat \ {0}
    BY Listed, UsageAssumption
  <1>5. CASE ~ok
    <2>1. walk' = NoWalk
      BY <1>1, <1>5, <1>o, Zenon DEF r
    <2> QED
      BY <2>1 DEF Walked, NoWalk
  <1>6. CASE ok
    <2> DEFINE new == [cursor |-> next, revision |-> walk.revision, seen |-> walk.seen \o page,
                       whole |-> next = None]
    <2>1. walk' = new
      <3>2. walk' = [walk EXCEPT !.seen = @ \o page, !.cursor = next, !.whole = next = None]
        BY <1>1, <1>6, <1>o, Zenon DEF r
      <3> QED
        BY <1>3, <3>2
    <2>2. walk.revision = n /\ at \in 0..n /\ end \in at..n
      <3> HIDE DEF at, n
      <3> QED
        BY <1>3, <1>4, <1>6 DEF ok
    <2>3. walk.seen \o page = SubSeq(attempts, 1, end)
      <3> DEFINE S == {attempts[i] : i \in DOMAIN attempts}
      <3>1. attempts \in Seq(S)
        BY DEF IsList
      <3> HIDE DEF S
      <3>2. 1 \in 1..(Len(attempts) + 1) /\ at \in (1 - 1)..Len(attempts) /\ end \in at..Len(attempts)
        <4>1. 1 - 1 = 0 /\ 1 \in 1..(n + 1)
          BY <1>4
        <4> QED
          BY <2>2, <4>1
      <3> HIDE DEF end, at
      <3>3. SubSeq(attempts, 1, at) \o SubSeq(attempts, at + 1, end) = SubSeq(attempts, 1, end)
        BY <3>1, <3>2, ConcatAdjacentSubSeq
      <3> QED
        BY <1>3, <3>3 DEF page
    <2>4. next = (IF end < n THEN end ELSE None) /\ (next = None => end = n) /\ (next # None => next = end)
      <3>1. end \in 0..n
        BY <2>2, <1>4
      <3> HIDE DEF end, n
      <3> QED
        BY <1>4, <3>1 DEF None, next
    <2>5. /\ new.cursor = next /\ new.revision = n /\ new.seen = SubSeq(attempts, 1, end)
          /\ new.whole = (next = None)
          /\ new = [cursor |-> new.cursor, revision |-> new.revision, seen |-> new.seen, whole |-> new.whole]
      BY <2>2, <2>3
    <2>6. end \in 0..n /\ n \in 0..n
      BY <1>4, <2>2
    <2> HIDE DEF new, next, end
    <2>7. Walked(new, attempts)
      BY <2>4, <2>5, <2>6 DEF Walked, n
    <2> QED
      BY <2>1, <2>7
  <1> QED
    BY <1>5, <1>6

\* The attempts that started at an instant, and those of an interval's instants before k.
StartedAt(ats, k) == {i \in DOMAIN ats : ats[i].started = k}
StartedBefore(ats, from, until, k) ==
    {i \in DOMAIN ats : ats[i].started < k /\ ats[i].started >= from /\ ats[i].started < until}

\* The rollup of an instant.
LEMMA InstantIs ==
    ASSUME AttemptsOK(attempts), RolledUp(rollups, attempts), NEW k
    PROVE  Rollup(<<"instant", k>>) = Parts(attempts, StartedAt(attempts, k))
  <1> DEFINE scope == <<"instant", k>>
  <1>1. OfScope(attempts, scope) = StartedAt(attempts, k)
    <2>1. ASSUME NEW a PROVE scope \in ScopesOf(a) <=> a.started = k
      <3>1. scope \in ScopesOf(a) <=> \/ scope \in {<<"total", 0>>, <<"turn", a.turn>>, <<"agent", a.agent>>, <<"instant", a.started>>}
                                      \/ \E w \in a.windows : scope = <<"window", w>>
        BY Zenon DEF ScopesOf
      <3>2. /\ scope # <<"total", 0>> /\ scope # <<"turn", a.turn>> /\ scope # <<"agent", a.agent>>
            /\ \A w : scope # <<"window", w>>
            /\ scope = <<"instant", a.started>> <=> a.started = k
        OBVIOUS
      <3> HIDE DEF scope
      <3> QED
        BY <3>1, <3>2
    <2> HIDE DEF scope
    <2> QED
      BY <2>1, Zenon DEF OfScope, StartedAt
  <1> HIDE DEF scope
  <1>2. CASE scope \in DOMAIN rollups
    BY <1>1, <1>2 DEF RolledUp, Rollup, scope
  <1>3. CASE scope \notin DOMAIN rollups
    <2>1. OfScope(attempts, scope) = {}
      BY <1>3 DEF RolledUp, OfScope
    <2>2. Rollup(scope) = EmptyRollup
      BY <1>3 DEF Rollup
    <2>3. Parts(attempts, {}) = EmptyRollup
      BY PartsNone
    <2> QED
      BY <1>1, <2>1, <2>2, <2>3 DEF scope
  <1> QED
    BY <1>2, <1>3

\* The recursion of a rolling rollup over an interval's instants.
Merges(u, from, until, n) ==
    u = [i \in 0..n |->
            IF i = 0 THEN EmptyRollup
            ELSE IF i - 1 >= from /\ i - 1 < until
            THEN Merge(u[i - 1], Rollup(<<"instant", i - 1>>)) ELSE u[i - 1]]

LEMMA RollingIsMerges ==
    ASSUME NEW as_of, NEW span
    PROVE  rolling(as_of, span) =
             (CHOOSE u : Merges(u, as_of - span, as_of, MaxInstant + 1))[MaxInstant + 1]
  BY Zenon DEF rolling, Merges

\* One instant further.
LEMMA OneInstantMore ==
    ASSUME AttemptsOK(attempts), RolledUp(rollups, attempts),
           \A i \in DOMAIN attempts : attempts[i].started \in Nat,
           NEW from \in Int, NEW until \in Int, NEW k \in Nat \ {0}
    PROVE  Parts(attempts, StartedBefore(attempts, from, until, k)) =
             IF k - 1 >= from /\ k - 1 < until
             THEN Merge(Parts(attempts, StartedBefore(attempts, from, until, k - 1)),
                        Rollup(<<"instant", k - 1>>))
             ELSE Parts(attempts, StartedBefore(attempts, from, until, k - 1))
  <1> DEFINE V == StartedBefore(attempts, from, until, k)
             S == StartedBefore(attempts, from, until, k - 1)
             T == StartedAt(attempts, k - 1)
  <1>1. \A i : i \in V <=> /\ i \in DOMAIN attempts /\ attempts[i].started < k
                           /\ attempts[i].started >= from /\ attempts[i].started < until
    BY DEF StartedBefore
  <1>2. \A i : i \in S <=> /\ i \in DOMAIN attempts /\ attempts[i].started < k - 1
                           /\ attempts[i].started >= from /\ attempts[i].started < until
    BY DEF StartedBefore
  <1>3. \A i : i \in T <=> i \in DOMAIN attempts /\ attempts[i].started = k - 1
    BY DEF StartedAt
  <1> HIDE DEF V, S, T
  <1>4. CASE k - 1 >= from /\ k - 1 < until
    <2>1. \A i : i \in V <=> i \in S \cup T
      <3>1. ASSUME NEW i \in DOMAIN attempts PROVE i \in V <=> i \in S \/ i \in T
        <4> DEFINE x == attempts[i].started
        <4>1. x \in Nat
          OBVIOUS
        <4>2. /\ i \in V <=> x < k /\ x >= from /\ x < until
              /\ i \in S <=> x < k - 1 /\ x >= from /\ x < until
              /\ i \in T <=> x = k - 1
          BY <1>1, <1>2, <1>3
        <4> HIDE DEF x
        <4> QED
          BY <1>4, <4>1, <4>2
      <3> QED
        BY <1>1, <1>2, <1>3, <3>1
    <2>2. V = S \cup T
      BY <2>1
    <2>3. S \cap T = {}
      <3>1. ASSUME NEW i \in S, i \in T PROVE FALSE
        <4> DEFINE x == attempts[i].started
        <4>1. x \in Nat /\ x < k - 1 /\ x = k - 1
          BY <1>2, <1>3, <3>1
        <4> HIDE DEF x
        <4> QED
          BY <4>1
      <3> QED
        BY <3>1
    <2>4. S \in SUBSET (DOMAIN attempts) /\ T \in SUBSET (DOMAIN attempts)
      BY <1>2, <1>3
    <2>5. Joins(attempts, V, S, T)
      BY <2>2, <2>3, <2>4 DEF Joins
    <2>6. Merge(Parts(attempts, S), Parts(attempts, T)) = Parts(attempts, V)
      BY <2>5, PartsMerge
    <2>7. Rollup(<<"instant", k - 1>>) = Parts(attempts, T)
      BY InstantIs DEF T
    <2> QED
      BY <1>4, <2>6, <2>7, Zenon DEF V, S
  <1>5. CASE ~(k - 1 >= from /\ k - 1 < until)
    <2>1. \A i : i \in V <=> i \in S
      <3>1. ASSUME NEW i \in DOMAIN attempts PROVE i \in V <=> i \in S
        <4> DEFINE x == attempts[i].started
        <4>1. x \in Nat
          OBVIOUS
        <4>2. /\ i \in V <=> x < k /\ x >= from /\ x < until
              /\ i \in S <=> x < k - 1 /\ x >= from /\ x < until
          BY <1>1, <1>2
        <4> HIDE DEF x
        <4> QED
          BY <1>5, <4>1, <4>2
      <3> QED
        BY <1>1, <1>2, <3>1
    <2>2. V = S
      BY <2>1
    <2> QED
      BY <1>5, <2>2, Zenon DEF V, S
  <1> QED
    BY <1>4, <1>5, Zenon

\* A rolling rollup is that of the attempts that started in its interval.
LEMMA RollingIsParts ==
    ASSUME AllAttributed(turns, attempts), RolledUp(rollups, attempts), NEW as_of \in Int
    PROVE  rolling(as_of, Span) =
             Parts(attempts, {i \in DOMAIN attempts : attempts[i].started >= as_of - Span
                                                      /\ attempts[i].started < as_of})
  <1> DEFINE from == as_of - Span
             n == MaxInstant + 1
             Before(k) == StartedBefore(attempts, from, as_of, k)
             w == [k \in 0..n |-> Parts(attempts, Before(k))]
             u == CHOOSE f : Merges(f, from, as_of, n)
  <1>1. AttemptsOK(attempts)
    BY AttributedAreOK
  <1>2. n \in Nat \ {0} /\ from \in Int /\ MaxInstant \in Nat
    BY UsageAssumption
  <1>3. \A i \in DOMAIN attempts : attempts[i].started \in 0..MaxInstant
    BY DEF AllAttributed, Attributed
  <1>4. \A i \in DOMAIN attempts : attempts[i].started \in Nat
    BY <1>2, <1>3
  <1>5. Before(0) = {}
    BY <1>4 DEF StartedBefore
  <1>6. Parts(attempts, Before(0)) = EmptyRollup
    BY <1>5, PartsNone
  <1>7. \A k \in 1..n : Parts(attempts, Before(k)) =
             IF k - 1 >= from /\ k - 1 < as_of
             THEN Merge(Parts(attempts, Before(k - 1)), Rollup(<<"instant", k - 1>>))
             ELSE Parts(attempts, Before(k - 1))
    <2>1. ASSUME NEW k \in Nat \ {0}
          PROVE Parts(attempts, Before(k)) =
             IF k - 1 >= from /\ k - 1 < as_of
             THEN Merge(Parts(attempts, Before(k - 1)), Rollup(<<"instant", k - 1>>))
             ELSE Parts(attempts, Before(k - 1))
      <3> HIDE DEF from
      <3> QED
        BY <1>1, <1>2, <1>4, OneInstantMore
    <2>2. 1..n \subseteq Nat \ {0}
      BY <1>2
    <2> QED
      BY <2>1, <2>2, Zenon
  <1> DEFINE P(k) == Parts(attempts, Before(k))
             M(f, k) == IF k - 1 >= from /\ k - 1 < as_of
                        THEN Merge(f, Rollup(<<"instant", k - 1>>)) ELSE f
  <1>8. \A k \in 1..n : P(k) = M(P(k - 1), k)
    BY <1>7, Zenon
  <1>9. \A f : Merges(f, from, as_of, n) <=>
                 f = [k \in 0..n |-> IF k = 0 THEN EmptyRollup ELSE M(f[k - 1], k)]
    BY Zenon DEF Merges
  <1>10. w = [k \in 0..n |-> P(k)]
    OBVIOUS
  <1>11. P(0) = EmptyRollup
    BY <1>6
  <1> HIDE DEF M, P, w, n
  <1>12. Merges(w, from, as_of, n)
    <2>1. \A k \in 0..n : P(k) = IF k = 0 THEN EmptyRollup ELSE M(w[k - 1], k)
      <3>1. ASSUME NEW k \in 1..n PROVE P(k) = M(w[k - 1], k)
        <4>1. k - 1 \in 0..n
          BY <1>2
        <4>2. w[k - 1] = P(k - 1)
          BY <1>10, <4>1
        <4> QED
          BY <1>8, <4>2
      <3>2. \A k \in 0..n : k # 0 => k \in 1..n
        BY <1>2
      <3> QED
        BY <1>11, <3>1, <3>2
    <2>2. w = [k \in 0..n |-> IF k = 0 THEN EmptyRollup ELSE M(w[k - 1], k)]
      BY <1>10, <2>1
    <2> QED
      BY <1>9, <2>2
  <1>13. Merges(u, from, as_of, n)
    BY <1>12, Zenon
  <1> HIDE DEF u
  <1>14. u = [k \in 0..n |-> IF k = 0 THEN EmptyRollup ELSE M(u[k - 1], k)]
    BY <1>9, <1>13
  <1>15. \A k \in 0..n : k \in {j \in 0..n : u[j] = P(j)}
    <2> DEFINE G == {j \in 0..n : u[j] = P(j)}
    <2>1. 0 \in G
      BY <1>2, <1>11, <1>14
    <2>2. ASSUME NEW k \in 1..n, k - 1 \in G PROVE k \in G
      <3>1. k \in 0..n /\ k # 0
        BY <1>2
      <3>2. u[k] = M(u[k - 1], k)
        BY <1>14, <3>1
      <3> QED
        BY <1>8, <2>2, <3>1, <3>2
    <2> HIDE DEF G
    <2>3. \A k \in 0..n : k \in G
      BY <1>2, <2>1, <2>2, IntervalInduction
    <2> QED
      BY <2>3 DEF G
  <1>16. u[n] = P(n)
    BY <1>2, <1>15
  <1>17. Before(n) = {i \in DOMAIN attempts : attempts[i].started >= from /\ attempts[i].started < as_of}
    <2>1. \A i \in DOMAIN attempts : attempts[i].started < n
      BY <1>2, <1>3 DEF n
    <2> QED
      BY <2>1, Zenon DEF StartedBefore
  <1>18. rolling(as_of, Span) = u[n]
    BY RollingIsMerges DEF u, n
  <1> QED
    BY <1>16, <1>17, <1>18, Zenon DEF P

-----------------------------------------------------------------------------
(* Usage: the theorem.                                                      *)

LEMMA UsageInitially == UsageInit => UsageInv
  <1> SUFFICES ASSUME UsageInit PROVE UsageInv
    OBVIOUS
  <1>1. IsList(turns) /\ IsList(attempts) /\ DOMAIN turns = {} /\ DOMAIN attempts = {} /\ Len(attempts) = 0
    BY DEF UsageInit, IsList
  <1>2. TurnsOK(turns) /\ AllAttributed(turns, attempts)
    BY <1>1 DEF TurnsOK, AllAttributed
  <1>3. RolledUp(rollups, attempts)
    BY DEF UsageInit, RolledUp
  <1>4. Walked(walk, attempts)
    BY DEF UsageInit, Walked, NoWalk
  <1> QED
    BY <1>2, <1>3, <1>4 DEF UsageInit, UsageInv

\* RecordAttempt keeps the attempts, the rollups and the walk together.
LEMMA RecordAttemptKeeps ==
    ASSUME UsageInv, pending, open # None, UNCHANGED <<turns, walk>>,
           NEW outcome \in Outcomes, NEW record \in Records \cup {NoRecord},
           RecordAttempt(Ended(outcome, record))
    PROVE  AllAttributed(turns', attempts') /\ RolledUp(rollups', attempts') /\ Walked(walk', attempts')
  <1> DEFINE a == Ended(outcome, record)
  <1>1. Attributed(turns, a)
    BY EndedIsAttributed DEF UsageInv
  <1>2. AttemptsOK(attempts) /\ IsList(attempts) /\ AttemptOK(a)
    BY <1>1, AttributedAreOK DEF UsageInv, AllAttributed, Attributed
  <1>3. attempts' = Append(attempts, a) /\ rollups' = Recorded(a)
    BY DEF RecordAttempt
  <1> HIDE DEF a
  <1>4. AllAttributed(turns, Append(attempts, a))
    BY <1>1, AllAttributedGrows DEF UsageInv
  <1>5. RolledUp(Recorded(a), Append(attempts, a))
    BY <1>2, RecordedRollsUp DEF UsageInv
  <1>6. Walked(walk, Append(attempts, a))
    BY <1>2, WalkedGrows DEF UsageInv
  <1> QED
    BY <1>3, <1>4, <1>5, <1>6

LEMMA UsageStep == UsageInv /\ [UsageNext]_usage_vars => UsageInv'
  <1> SUFFICES ASSUME UsageInv, [UsageNext]_usage_vars PROVE UsageInv'
    OBVIOUS
  <1>i. /\ TurnsOK(turns) /\ AllAttributed(turns, attempts)
        /\ RolledUp(rollups, attempts) /\ Walked(walk, attempts)
        /\ pending \in BOOLEAN /\ ruleset \in DOMAIN Offset
        /\ pending => Current \in DOMAIN turns
        /\ open \in {None} \cup (0..MaxInstant)
    BY DEF UsageInv
  <1>l. IsList(turns) /\ IsList(attempts)
    BY <1>i DEF TurnsOK, AllAttributed
  <1>1. CASE Admit
    <2>1. PICK agent \in Agents, c \in Contexts, epoch \in Epochs :
             /\ \A w \in epoch.windows : ValidWindow(w)
             /\ ValidBook(epoch.book)
             /\ turns' = Append(turns, [agent |-> agent, context |-> c, windows |-> epoch.windows,
                                        book |-> epoch.book, ruleset |-> ruleset])
      BY <1>1, Zenon DEF Admit
    <2> DEFINE turn == [agent |-> agent, context |-> c, windows |-> epoch.windows,
                        book |-> epoch.book, ruleset |-> ruleset]
    <2>2. TurnOK(turn)
      <3>1. BookOK(epoch.book)
        BY BooksAreOK
      <3>2. turn.windows = epoch.windows /\ turn.book = epoch.book /\ turn.ruleset = ruleset
        OBVIOUS
      <3> HIDE DEF turn
      <3> QED
        BY <1>i, <2>1, <3>1, <3>2 DEF TurnOK
    <2>3. pending' = TRUE /\ UNCHANGED <<ruleset, open, attempts, rollups, walk>> /\ turns' = Append(turns, turn)
      BY <1>1, <2>1 DEF Admit
    <2> HIDE DEF turn
    <2>4. /\ IsList(turns') /\ Len(turns') = Len(turns) + 1 /\ DOMAIN turns' = 1..(Len(turns) + 1)
          /\ \A i \in DOMAIN turns : turns'[i] = turns[i]
          /\ turns'[Len(turns) + 1] = turn
          /\ Len(turns) \in Nat /\ DOMAIN turns = 1..Len(turns)
      BY <1>l, <2>3, ListGrows, Listed
    <2>5. TurnsOK(turns')
      <3>1. ASSUME NEW i \in DOMAIN turns' PROVE TurnOK(turns'[i])
        <4>1. i \in DOMAIN turns \/ i = Len(turns) + 1
          BY <2>4
        <4> QED
          BY <1>i, <2>2, <2>4, <4>1 DEF TurnsOK
      <3> QED
        BY <2>4, <3>1 DEF TurnsOK
    <2>6. AllAttributed(turns', attempts')
      <3>1. \A i \in DOMAIN attempts : Attributed(turns', attempts[i])
        BY <1>i, <1>l, <2>3, LaterTurnsKeep DEF AllAttributed
      <3> QED
        BY <1>l, <2>3, <3>1 DEF AllAttributed
    <2>7. Current' \in DOMAIN turns'
      BY <2>4 DEF Current
    <2> QED
      BY <1>i, <2>3, <2>5, <2>6, <2>7 DEF UsageInv
  <1>2. CASE Begin
    <2>1. /\ pending /\ open' \in 0..MaxInstant /\ UNCHANGED <<ruleset, turns, pending, walk>>
          /\ IF open = None THEN UNCHANGED <<attempts, rollups>>
             ELSE RecordAttempt(Ended("Interrupted", NoRecord))
      BY <1>2 DEF Begin
    <2>2. CASE open = None
      BY <1>i, <2>1, <2>2 DEF UsageInv, Current
    <2>3. CASE open # None
      <3>1. "Interrupted" \in Outcomes /\ NoRecord \in Records \cup {NoRecord}
        BY DEF Outcomes
      <3>2. RecordAttempt(Ended("Interrupted", NoRecord))
        BY <2>1, <2>3
      <3>3. AllAttributed(turns', attempts') /\ RolledUp(rollups', attempts') /\ Walked(walk', attempts')
        BY <2>1, <2>3, <3>1, <3>2, RecordAttemptKeeps
      <3>4. turns' = turns /\ pending' = pending /\ ruleset' = ruleset /\ Current' = Current
        BY <2>1 DEF Current
      <3> QED
        BY <1>i, <2>1, <3>3, <3>4 DEF UsageInv
    <2> QED
      BY <2>2, <2>3
  <1>3. CASE Finish
    <2>1. PICK outcome \in {"Succeeded", "Failed"}, record \in Records \cup {NoRecord} :
             RecordAttempt(Ended(outcome, record))
      BY <1>3, Zenon DEF Finish
    <2>2. /\ pending /\ open # None /\ open' = None /\ pending' \in BOOLEAN
          /\ UNCHANGED <<ruleset, turns, walk>>
      BY <1>3, Zenon DEF Finish
    <2>3. outcome \in Outcomes
      BY DEF Outcomes
    <2>4. AllAttributed(turns', attempts') /\ RolledUp(rollups', attempts') /\ Walked(walk', attempts')
      BY <2>1, <2>2, <2>3, RecordAttemptKeeps
    <2>5. turns' = turns /\ ruleset' = ruleset /\ Current' = Current /\ open' = None /\ pending' \in BOOLEAN
      BY <2>2, Zenon DEF Current
    <2>6. Current \in DOMAIN turns
      BY <1>i, <2>2
    <2> QED
      BY <1>i, <2>4, <2>5, <2>6 DEF UsageInv
  <1>4. CASE Upgrade
    BY <1>i, <1>4 DEF Upgrade, UsageInv, Current
  <1>5. CASE FirstPage
    <2>1. Walked(walk', attempts)
      BY <1>5, <1>l, FirstPageWalks
    <2>2. UNCHANGED <<ruleset, turns, pending, open, attempts, rollups>>
      BY <1>5 DEF FirstPage
    <2> QED
      BY <1>i, <2>1, <2>2 DEF UsageInv, Current
  <1>6. CASE NextPage
    <2>1. Walked(walk', attempts)
      BY <1>6, <1>i, <1>l, NextPageWalks
    <2>2. UNCHANGED <<ruleset, turns, pending, open, attempts, rollups>>
      BY <1>6 DEF NextPage
    <2> QED
      BY <1>i, <2>1, <2>2 DEF UsageInv, Current
  <1>7. CASE UNCHANGED usage_vars
    BY <1>i, <1>7 DEF usage_vars, UsageInv, Current
  <1> QED
    BY <1>1, <1>2, <1>3, <1>4, <1>5, <1>6, <1>7 DEF UsageNext

UsageSpec == UsageInit /\ [][UsageNext]_usage_vars

\* Through admissions, attempts, crashes, upgrades and reads, the rollups kept
\* are the sums of their scopes' attempts, every attempt is attributed as its
\* Turn's configuration says, and a walk is the beginning of its revision.
THEOREM UsageInvariant == UsageSpec => []UsageInv
  <1>1. UsageInit => UsageInv
    BY UsageInitially
  <1>2. UsageInv /\ [UsageNext]_usage_vars => UsageInv'
    BY UsageStep
  <1> QED
    BY <1>1, <1>2, PTL DEF UsageSpec

LEMMA RollupsAreTheirSums == UsageInv => RollupsAreSums
  <1> SUFFICES ASSUME UsageInv PROVE RollupsAreSums
    OBVIOUS
  <1>1. AttemptsOK(attempts) /\ AllAttributed(turns, attempts) /\ RolledUp(rollups, attempts)
    BY AttributedAreOK DEF UsageInv
  <1>2. \A scope \in DOMAIN rollups :
            rollups[scope] = Direct(attempts, {i \in DOMAIN attempts : scope \in ScopesOf(attempts[i])})
    <2>1. ASSUME NEW scope \in DOMAIN rollups
          PROVE  rollups[scope] = Direct(attempts, {i \in DOMAIN attempts : scope \in ScopesOf(attempts[i])})
      <3> DEFINE S == {i \in DOMAIN attempts : scope \in ScopesOf(attempts[i])}
      <3>1. rollups[scope] = Parts(attempts, S)
        BY <1>1, Zenon DEF RolledUp, OfScope
      <3>2. S \in SUBSET (DOMAIN attempts)
        OBVIOUS
      <3> HIDE DEF S
      <3>3. Direct(attempts, S) = Parts(attempts, S)
        BY <1>1, <3>2, DirectIsParts
      <3>4. rollups[scope] = Direct(attempts, S)
        BY <3>1, <3>3
      <3> QED
        BY <3>4 DEF S
    <2> QED
      BY <2>1
  <1>3. \A as_of \in 0..(MaxInstant + 1) : rolling(as_of, Span) =
            Direct(attempts, {i \in DOMAIN attempts : attempts[i].started >= as_of - Span
                                                      /\ attempts[i].started < as_of})
    <2>1. ASSUME NEW as_of \in 0..(MaxInstant + 1)
          PROVE  rolling(as_of, Span) =
                   Direct(attempts, {i \in DOMAIN attempts : attempts[i].started >= as_of - Span
                                                             /\ attempts[i].started < as_of})
      <3> DEFINE S == {i \in DOMAIN attempts : attempts[i].started >= as_of - Span
                                               /\ attempts[i].started < as_of}
      <3>1. as_of \in Int
        OBVIOUS
      <3>2. rolling(as_of, Span) = Parts(attempts, S)
        BY <1>1, <3>1, RollingIsParts
      <3>3. S \in SUBSET (DOMAIN attempts)
        OBVIOUS
      <3> HIDE DEF S
      <3>4. Direct(attempts, S) = Parts(attempts, S)
        BY <1>1, <3>3, DirectIsParts
      <3>5. rolling(as_of, Span) = Direct(attempts, S)
        BY <3>2, <3>4
      <3> QED
        BY <3>5 DEF S
    <2> QED
      BY <2>1
  <1> QED
    BY <1>2, <1>3, Zenon DEF RollupsAreSums, Among

LEMMA AttributionIsByStart == UsageInv => AttributedByStart
  <1> SUFFICES ASSUME UsageInv, NEW i \in DOMAIN attempts
               PROVE  LET a == attempts[i]
                          turn == turns[a.turn]
                          local == a.started + Offset[turn.ruleset]
                          today == local \div DayLength
                      IN  a.windows = {w \in turn.windows :
                            \E day \in (today - Days)..today :
                                /\ day % Days \in w.days
                                /\ local >= day * DayLength + w.start
                                /\ local < day * DayLength + w.start + ((w.end - w.start + DayLength) % DayLength)}
    BY Zenon DEF AttributedByStart
  <1> DEFINE a == attempts[i]
             turn == turns[a.turn]
             local == a.started + Offset[turn.ruleset]
             today == local \div DayLength
             Occurs(w) == \E day \in (today - Days)..today :
                                /\ day % Days \in w.days
                                /\ local >= day * DayLength + w.start
                                /\ local < day * DayLength + w.start + ((w.end - w.start + DayLength) % DayLength)
  <1>1. /\ a.turn \in DOMAIN turns /\ a.started \in 0..MaxInstant
        /\ a.windows = {w \in turn.windows : contains(w, a.started, turn.ruleset)}
    BY DEF UsageInv, AllAttributed, Attributed
  <1>2. TurnOK(turn)
    BY <1>1 DEF UsageInv, TurnsOK
  <1>3. a.started \in Int
    BY <1>1, UsageAssumption
  <1>4. Offset[turn.ruleset] \in Int
    BY <1>2, UsageAssumption DEF TurnOK
  <1>5. \A w \in turn.windows : ValidWindow(w)
    BY <1>2 DEF TurnOK
  <1>6. \A w \in turn.windows : contains(w, a.started, turn.ruleset) <=> Occurs(w)
    BY <1>3, <1>4, <1>5, WindowOccurs
  <1> HIDE DEF Occurs
  <1>7. a.windows = {w \in turn.windows : Occurs(w)}
    BY <1>1, <1>6
  <1> QED
    BY <1>7 DEF Occurs

LEMMA OneScheduleApplies == UsageInv => CostIsOfOneSchedule
  <1> SUFFICES ASSUME UsageInv, NEW i \in DOMAIN attempts
               PROVE  LET a == attempts[i] IN
                      Cardinality({s \in turns[a.turn].book :
                          /\ matches_base(s, turns[a.turn].context, a.started)
                          /\ matches_service_tier(s, a.record) /\ matches_context(s, a.record)}) <= 1
    BY Zenon DEF CostIsOfOneSchedule
  <1> DEFINE a == attempts[i]
             turn == turns[a.turn]
  <1>1. a.turn \in DOMAIN turns /\ a.started \in 0..MaxInstant /\ AttemptOK(a)
    BY DEF UsageInv, AllAttributed, Attributed
  <1>2. TurnOK(turn)
    BY <1>1 DEF UsageInv, TurnsOK
  <1>3. a.started \in Int /\ a.record.input \in Int
    BY <1>1, UsageAssumption DEF AttemptOK, None
  <1>4. ValidBook(turn.book)
    BY <1>2 DEF TurnOK
  <1>5. \A s \in turn.book : /\ s.min \in Nat /\ s.from \in Nat
                             /\ s.max \in {None} \cup Nat /\ s.until \in {None} \cup Nat
    BY <1>2 DEF TurnOK, BookOK
  <1> DEFINE book == turn.book
             c == turn.context
             x == a.started
             r == a.record
  <1>b. /\ ValidBook(book) /\ x \in Int /\ r.input \in Int
        /\ \A s \in book : /\ s.min \in Nat /\ s.from \in Nat
                            /\ s.max \in {None} \cup Nat /\ s.until \in {None} \cup Nat
    BY <1>3, <1>4, <1>5
  <1> HIDE DEF book, c, x, r
  <1>6. Cardinality({s \in book : /\ matches_base(s, c, x)
                                  /\ matches_service_tier(s, r) /\ matches_context(s, r)}) <= 1
    BY <1>b, OneSchedule
  <1> QED
    BY <1>6 DEF book, c, x, r

LEMMA UsageInvSuffices == UsageInv => UsageIsAccounted
  <1>1. UsageInv => PagesAreOneSnapshot
    BY DEF UsageInv, Walked, PagesAreOneSnapshot
  <1> QED
    BY <1>1, RollupsAreTheirSums, AttributionIsByStart, OneScheduleApplies DEF UsageIsAccounted

\* Whatever attempts were made, whatever their Providers reported, crashed or
\* set the clock back, what a report shows is what they add up to: the sums and
\* their overflow, the windows by local time, one price, one page of each.
THEOREM UsagesAreAccounted == UsageSpec => []UsageIsAccounted
  <1>1. UsageInv => UsageIsAccounted
    BY UsageInvSuffices
  <1>2. UsageSpec => []UsageInv
    BY UsageInvariant
  <1> QED
    BY <1>1, <1>2, PTL
-----------------------------------------------------------------------------
(* Server-Sent Events: lines, and what a parser has read.                   *)

\* The same elements make the same part of two sequences.
LEMMA SameSlice ==
    ASSUME NEW s, NEW t, NEW j \in Nat, NEW k \in Nat, NEW n \in Nat,
           \A i \in 1..n : s[j + i] = t[k + i]
    PROVE  SubSeq(s, j + 1, j + n) = SubSeq(t, k + 1, k + n)
  <1> DEFINE S == {s[j + i] : i \in 1..n}
             x == SubSeq(s, j + 1, j + n)
             y == SubSeq(t, k + 1, k + n)
  <1>1. \A i \in 1..n : s[j + i] \in S /\ t[k + i] \in S
    OBVIOUS
  <1> HIDE DEF S
  <1>2. /\ \A i \in (j + 1)..(j + n) : s[i] \in S
        /\ \A i \in (k + 1)..(k + n) : t[i] \in S
    <2>1. ASSUME NEW i \in (j + 1)..(j + n) PROVE s[i] \in S
      <3>1. i - j \in 1..n /\ j + (i - j) = i
        OBVIOUS
      <3> QED
        BY <1>1, <3>1
    <2>2. ASSUME NEW i \in (k + 1)..(k + n) PROVE t[i] \in S
      <3>1. i - k \in 1..n /\ k + (i - k) = i
        OBVIOUS
      <3> QED
        BY <1>1, <3>1
    <2> QED
      BY <2>1, <2>2
  <1>3. /\ x \in Seq(S) /\ Len(x) = (IF j + 1 <= j + n THEN j + n - (j + 1) + 1 ELSE 0)
        /\ \A i \in 1..(j + n - (j + 1) + 1) : x[i] = s[j + 1 + i - 1]
    BY <1>2, SubSeqProperties
  <1>4. /\ y \in Seq(S) /\ Len(y) = (IF k + 1 <= k + n THEN k + n - (k + 1) + 1 ELSE 0)
        /\ \A i \in 1..(k + n - (k + 1) + 1) : y[i] = t[k + 1 + i - 1]
    BY <1>2, SubSeqProperties
  <1> HIDE DEF x, y
  <1>5. Len(x) = n /\ Len(y) = n
    BY <1>3, <1>4
  <1>6. \A i \in 1..n : x[i] = y[i]
    <2>1. ASSUME NEW i \in 1..n PROVE x[i] = y[i]
      <3>1. /\ j + 1 + i - 1 = j + i /\ k + 1 + i - 1 = k + i
            /\ j + n - (j + 1) + 1 = n /\ k + n - (k + 1) + 1 = n
        OBVIOUS
      <3>2. x[i] = s[j + i] /\ y[i] = t[k + i]
        BY <1>3, <1>4, <3>1
      <3> QED
        BY <3>2
    <2> QED
      BY <2>1
  <1>7. x = y
    BY <1>3, <1>4, <1>5, <1>6, SeqEqual
  <1> QED
    BY <1>7 DEF x, y

LEMMA Greatest ==
    ASSUME NEW S, NEW k \in S, S \subseteq Int, \A y \in S : y <= k
    PROVE  Max(S) = k
  <1>1. \A y \in S : k >= y
    OBVIOUS
  <1>2. \A x \in S : (\A y \in S : x >= y) => x = k
    OBVIOUS
  <1> QED
    BY <1>1, <1>2 DEF Max

Ending == {"CR", "LF"}

\* The first line ending of a buffer.
LEMMA NextEnding ==
    ASSUME NEW b, IsList(b)
    PROVE  /\ next_line_ending(b) \in 1..(Len(b) + 1)
           /\ next_line_ending(b) <= Len(b) => b[next_line_ending(b)] \in Ending
           /\ \A j \in 1..(next_line_ending(b) - 1) : b[j] \notin Ending
  <1> DEFINE n == Len(b)
             P(i) == /\ i <= n => b[i] \in Ending
                     /\ \A j \in 1..(i - 1) : b[j] \notin Ending
             T == {i \in 1..n : b[i] \in Ending}
  <1>1. n \in Nat
    BY Listed
  <1> HIDE DEF n
  <1>2. \E i \in 1..(n + 1) : P(i)
    <2>1. CASE T = {}
      <3>1. \A i \in 1..n : b[i] \notin Ending
        BY <2>1
      <3>2. n + 1 \in 1..(n + 1) /\ ~(n + 1 <= n)
        BY <1>1
      <3>4. \A j \in 1..((n + 1) - 1) : j \in 1..n
        BY <1>1
      <3>3. P(n + 1)
        BY <3>1, <3>2, <3>4
      <3> HIDE DEF P
      <3> QED
        BY <3>2, <3>3
    <2>2. CASE T # {}
      <3>1. T \subseteq Nat
        BY <1>1
      <3>2. PICK i \in T : \A j \in T : ~(j < i)
        <4> HIDE DEF T
        <4> QED
          BY <2>2, <3>1, LeastNat
      <3>3. i \in 1..n /\ b[i] \in Ending
        BY <3>2
      <3>4. \A j \in 1..(i - 1) : b[j] \notin Ending
        <4>1. ASSUME NEW j \in 1..(i - 1), b[j] \in Ending PROVE FALSE
          <5>1. j \in T /\ j < i
            BY <1>1, <3>3, <4>1
          <5> QED
            BY <3>2, <5>1
        <4> QED
          BY <4>1
      <3>5. i \in 1..(n + 1)
        BY <1>1, <3>3
      <3> QED
        BY <3>3, <3>4, <3>5
    <2> QED
      BY <2>1, <2>2
  <1>3. next_line_ending(b) = CHOOSE i \in 1..(n + 1) : P(i)
    BY Zenon DEF next_line_ending, n, Ending
  <1> HIDE DEF P
  <1>4. next_line_ending(b) \in 1..(n + 1) /\ P(next_line_ending(b))
    BY <1>2, <1>3
  <1> QED
    BY <1>4 DEF P, n

IsParser(p) ==
    /\ p = [buffer |-> p.buffer, event_type |-> p.event_type, event_data |-> p.event_data,
            lines |-> p.lines, events |-> p.events, total |-> p.total,
            poisoned |-> p.poisoned, skip_lf_after_cr |-> p.skip_lf_after_cr]
    /\ IsList(p.events)

\* What two parsers have made of the lines they were given.
Same(p, q) ==
    /\ p.event_type = q.event_type /\ p.event_data = q.event_data
    /\ p.lines = q.lines /\ p.events = q.events

\* A line changes the event begun, the events, or poisons the parser.
MaybeOneMore(old, new) == new = old \/ \E x : new = Append(old, x)

LEMMA LineKeeps ==
    ASSUME NEW p, IsParser(p), NEW line
    PROVE  LET r == process_line(p, line)
           IN  /\ IsParser(r) /\ MaybeOneMore(p.events, r.events)
               /\ r.buffer = p.buffer /\ r.skip_lf_after_cr = p.skip_lf_after_cr
  <1> DEFINE Kept(r) == /\ IsParser(r) /\ MaybeOneMore(p.events, r.events)
                        /\ r.buffer = p.buffer /\ r.skip_lf_after_cr = p.skip_lf_after_cr
             x == [named |-> p.event_type, data |-> p.event_data]
  <1>k. ASSUME NEW r,
               r = [buffer |-> r.buffer, event_type |-> r.event_type, event_data |-> r.event_data,
                    lines |-> r.lines, events |-> r.events, total |-> r.total,
                    poisoned |-> r.poisoned, skip_lf_after_cr |-> r.skip_lf_after_cr],
               r.events = p.events, r.buffer = p.buffer, r.skip_lf_after_cr = p.skip_lf_after_cr
        PROVE  Kept(r)
    <2>1. IsList(r.events)
      BY <1>k DEF IsParser
    <2>2. IsParser(r)
      BY <1>k, <2>1, Zenon DEF IsParser
    <2> QED
      BY <1>k, <2>2 DEF MaybeOneMore
  <1>p. p = [buffer |-> p.buffer, event_type |-> p.event_type, event_data |-> p.event_data,
             lines |-> p.lines, events |-> p.events, total |-> p.total,
             poisoned |-> p.poisoned, skip_lf_after_cr |-> p.skip_lf_after_cr]
    BY DEF IsParser
  <1>1. Kept(p)
    <2> HIDE DEF Kept
    <2> QED
      BY <1>k, <1>p
  <1>2. Kept(Poison(p))
    <2> DEFINE r == [p EXCEPT !.poisoned = TRUE]
    <2>0. r = [p EXCEPT !.poisoned = TRUE]
      OBVIOUS
    <2> HIDE DEF r
    <2>1. /\ r = [buffer |-> r.buffer, event_type |-> r.event_type, event_data |-> r.event_data,
                  lines |-> r.lines, events |-> r.events, total |-> r.total,
                  poisoned |-> r.poisoned, skip_lf_after_cr |-> r.skip_lf_after_cr]
          /\ r.events = p.events /\ r.buffer = p.buffer /\ r.skip_lf_after_cr = p.skip_lf_after_cr
      BY <1>p, <2>0
    <2>2. Poison(p) = r
      BY DEF Poison, r
    <2> HIDE DEF Kept
    <2> QED
      BY <1>k, <2>1, <2>2
  <1>3. Kept(dispatch(p))
    <2>1. CASE p.lines = 0
      BY <2>1 DEF dispatch, IsParser, MaybeOneMore
    <2>2. CASE p.lines # 0
      <3> DEFINE r == dispatch(p)
      <3>1. r = [p EXCEPT !.events = Append(@, x), !.event_type = FALSE, !.event_data = <<>>, !.lines = 0]
        BY <2>2 DEF dispatch
      <3> HIDE DEF r, x
      <3>2. /\ r = [buffer |-> r.buffer, event_type |-> r.event_type, event_data |-> r.event_data,
                    lines |-> r.lines, events |-> r.events, total |-> r.total,
                    poisoned |-> r.poisoned, skip_lf_after_cr |-> r.skip_lf_after_cr]
            /\ r.events = Append(p.events, x) /\ r.buffer = p.buffer
            /\ r.skip_lf_after_cr = p.skip_lf_after_cr
        BY <3>1 DEF IsParser
      <3>3. IsList(r.events)
        BY <3>2, ListGrows DEF IsParser
      <3> QED
        BY <3>2, <3>3 DEF IsParser, MaybeOneMore, r
    <2> QED
      BY <2>1, <2>2
  <1>4. Kept([p EXCEPT !.event_type = TRUE])
    <2> DEFINE r == [p EXCEPT !.event_type = TRUE]
    <2>0. r = [p EXCEPT !.event_type = TRUE]
      OBVIOUS
    <2> HIDE DEF r
    <2>1. /\ r = [buffer |-> r.buffer, event_type |-> r.event_type, event_data |-> r.event_data,
                  lines |-> r.lines, events |-> r.events, total |-> r.total,
                  poisoned |-> r.poisoned, skip_lf_after_cr |-> r.skip_lf_after_cr]
          /\ r.events = p.events /\ r.buffer = p.buffer /\ r.skip_lf_after_cr = p.skip_lf_after_cr
      BY <1>p, <2>0
    <2> HIDE DEF Kept
    <2>2. Kept(r)
      BY <1>k, <2>1
    <2> QED
      BY <2>2 DEF r
  <1>5. Kept([p EXCEPT !.lines = @ + 1, !.event_data = Append(@, Tail(line))])
    <2> DEFINE r == [p EXCEPT !.lines = @ + 1, !.event_data = Append(@, Tail(line))]
    <2>0. r = [p EXCEPT !.lines = @ + 1, !.event_data = Append(@, Tail(line))]
      OBVIOUS
    <2> HIDE DEF r
    <2>1. /\ r = [buffer |-> r.buffer, event_type |-> r.event_type, event_data |-> r.event_data,
                  lines |-> r.lines, events |-> r.events, total |-> r.total,
                  poisoned |-> r.poisoned, skip_lf_after_cr |-> r.skip_lf_after_cr]
          /\ r.events = p.events /\ r.buffer = p.buffer /\ r.skip_lf_after_cr = p.skip_lf_after_cr
      BY <1>p, <2>0
    <2> HIDE DEF Kept
    <2>2. Kept(r)
      BY <1>k, <2>1
    <2> QED
      BY <2>2 DEF r
  <1> HIDE DEF Kept
  <1>6. Kept(process_line(p, line))
    BY <1>1, <1>2, <1>3, <1>4, <1>5 DEF process_line
  <1> QED
    BY <1>6 DEF Kept

LEMMA LineAgrees ==
    ASSUME NEW p, NEW q, IsParser(p), IsParser(q), Same(p, q), NEW line
    PROVE  Same(process_line(p, line), process_line(q, line))
  <1>1. Same(Poison(p), Poison(q))
    BY DEF Poison, IsParser, Same
  <1>2. Same(dispatch(p), dispatch(q))
    BY DEF dispatch, IsParser, Same
  <1>3. Same([p EXCEPT !.event_type = TRUE], [q EXCEPT !.event_type = TRUE])
    BY DEF IsParser, Same
  <1>4. Same([p EXCEPT !.lines = @ + 1, !.event_data = Append(@, Tail(line))],
             [q EXCEPT !.lines = @ + 1, !.event_data = Append(@, Tail(line))])
    BY DEF IsParser, Same
  <1>5. p.lines = q.lines
    BY DEF Same
  <1> DEFINE p1 == Poison(p)
             q1 == Poison(q)
             p2 == dispatch(p)
             q2 == dispatch(q)
             p3 == [p EXCEPT !.event_type = TRUE]
             q3 == [q EXCEPT !.event_type = TRUE]
             p4 == [p EXCEPT !.lines = @ + 1, !.event_data = Append(@, Tail(line))]
             q4 == [q EXCEPT !.lines = @ + 1, !.event_data = Append(@, Tail(line))]
             bad == \E i \in 1..Len(line) : line[i] = "bad"
             full == p.lines + 1 > MaxDataLines
  <1>6. /\ process_line(p, line) =
             IF line = <<>> THEN p2 ELSE IF line[1] = "comment" THEN p ELSE IF bad THEN p1
             ELSE IF line[1] = "event" THEN p3 ELSE IF line[1] # "data" THEN p
             ELSE IF full THEN p1 ELSE p4
        /\ process_line(q, line) =
             IF line = <<>> THEN q2 ELSE IF line[1] = "comment" THEN q ELSE IF bad THEN q1
             ELSE IF line[1] = "event" THEN q3 ELSE IF line[1] # "data" THEN q
             ELSE IF full THEN q1 ELSE q4
    BY <1>5, Zenon DEF process_line
  <1> HIDE DEF p1, q1, p2, q2, p3, q3, p4, q4, bad, full
  <1>7. Same(p1, q1) /\ Same(p2, q2) /\ Same(p3, q3) /\ Same(p4, q4)
    BY <1>1, <1>2, <1>3, <1>4 DEF p1, q1, p2, q2, p3, q3, p4, q4
  <1> QED
    BY <1>6, <1>7

\* The reference parser after each byte of a stream.
IsUpto(f, s, n) ==
    f = [i \in 0..n |->
            IF i = 0 THEN NewParser
            ELSE IF i \in LineEnds(s) THEN process_line(f[i - 1], LineBefore(s, i))
            ELSE f[i - 1]]
Upto(s) == CHOOSE f : IsUpto(f, s, Len(s))

LEMMA UptoExists ==
    ASSUME NEW s, NEW n \in Nat
    PROVE  \E f : IsUpto(f, s, n)
  <1> DEFINE Turn(q, i) == IF i \in LineEnds(s) THEN process_line(q, LineBefore(s, i)) ELSE q
             T == {k \in 0..n : \E f : IsUpto(f, s, k)}
  <1>1. \A f, k : IsUpto(f, s, k) <=>
                    f = [i \in 0..k |-> IF i = 0 THEN NewParser ELSE Turn(f[i - 1], i)]
    BY Zenon DEF IsUpto
  <1> HIDE DEF Turn
  <1>2. 0 \in T
    <2> DEFINE f == [i \in 0..0 |-> NewParser]
    <2>1. f = [i \in 0..0 |-> IF i = 0 THEN NewParser ELSE Turn(f[i - 1], i)]
      OBVIOUS
    <2> HIDE DEF f
    <2>2. IsUpto(f, s, 0)
      BY <1>1, <2>1
    <2> QED
      BY <2>2
  <1>3. ASSUME NEW k \in 1..n, k - 1 \in T PROVE k \in T
    <2>1. PICK g : IsUpto(g, s, k - 1)
      BY <1>3
    <2>2. g = [i \in 0..(k - 1) |-> IF i = 0 THEN NewParser ELSE Turn(g[i - 1], i)]
      BY <1>1, <2>1
    <2> DEFINE f == [i \in 0..k |-> IF i = k THEN Turn(g[k - 1], k) ELSE g[i]]
    <2>3. /\ \A i \in 0..(k - 1) : f[i] = g[i]
          /\ f[k] = Turn(g[k - 1], k)
          /\ DOMAIN f = 0..k
      OBVIOUS
    <2>4. f = [i \in 0..k |-> f[i]]
      OBVIOUS
    <2> HIDE DEF f
    <2>5. \A i \in 0..k : f[i] = IF i = 0 THEN NewParser ELSE Turn(f[i - 1], i)
      <3>1. ASSUME NEW i \in 0..(k - 1) PROVE f[i] = IF i = 0 THEN NewParser ELSE Turn(f[i - 1], i)
        <4>1. i # 0 => i - 1 \in 0..(k - 1)
          OBVIOUS
        <4>2. g[i] = IF i = 0 THEN NewParser ELSE Turn(g[i - 1], i)
          BY <2>2
        <4> QED
          BY <2>3, <4>1, <4>2
      <3>2. f[k] = Turn(f[k - 1], k) /\ k # 0
        <4>1. k - 1 \in 0..(k - 1)
          OBVIOUS
        <4> QED
          BY <2>3, <4>1
      <3>3. \A i \in 0..k : i \in 0..(k - 1) \/ i = k
        OBVIOUS
      <3> QED
        BY <3>1, <3>2, <3>3
    <2>6. f = [i \in 0..k |-> IF i = 0 THEN NewParser ELSE Turn(f[i - 1], i)]
      BY <2>4, <2>5
    <2>7. IsUpto(f, s, k)
      BY <1>1, <2>6
    <2> QED
      BY <2>7
  <1>4. n \in T
    <2> HIDE DEF T
    <2> QED
      BY <1>2, <1>3, IntervalInduction
  <1> QED
    BY <1>4

LEMMA UptoSteps ==
    ASSUME NEW s, IsList(s)
    PROVE  /\ Upto(s)[0] = NewParser
           /\ \A i \in 1..Len(s) : Upto(s)[i] = IF i \in LineEnds(s)
                                                THEN process_line(Upto(s)[i - 1], LineBefore(s, i))
                                                ELSE Upto(s)[i - 1]
           /\ EventsOf(s) = Upto(s)[Len(s)].events
  <1> DEFINE n == Len(s)
             u == Upto(s)
  <1>1. n \in Nat
    BY Listed
  <1>2. IsUpto(u, s, n)
    BY <1>1, UptoExists, Zenon DEF Upto
  <1>3. EventsOf(s) = u[n].events
    BY Zenon DEF EventsOf, Upto, IsUpto
  <1> HIDE DEF u, n
  <1>4. u = [i \in 0..n |-> IF i = 0 THEN NewParser
                            ELSE IF i \in LineEnds(s) THEN process_line(u[i - 1], LineBefore(s, i))
                            ELSE u[i - 1]]
    BY <1>2, Zenon DEF IsUpto
  <1>5. u[0] = NewParser
    <2>1. 0 \in 0..n
      BY <1>1
    <2> QED
      BY <1>4, <2>1
  <1>6. \A i \in 1..n : u[i] = IF i \in LineEnds(s) THEN process_line(u[i - 1], LineBefore(s, i)) ELSE u[i - 1]
    <2>1. \A i \in 1..n : i \in 0..n /\ i # 0
      BY <1>1
    <2> QED
      BY <1>4, <2>1
  <1> QED
    BY <1>3, <1>5, <1>6 DEF u, n

LEMMA UptoParsers ==
    ASSUME NEW s, IsList(s)
    PROVE  \A i \in 0..Len(s) : IsParser(Upto(s)[i])
  <1> DEFINE n == Len(s)
             u == Upto(s)
             T == {i \in 0..n : IsParser(u[i])}
  <1>1. n \in Nat
    BY Listed
  <1>2. u[0] = NewParser /\ \A i \in 1..n : u[i] = IF i \in LineEnds(s) THEN process_line(u[i - 1], LineBefore(s, i)) ELSE u[i - 1]
    BY UptoSteps
  <1> HIDE DEF n, u
  <1>3. 0 \in T
    <2>1. IsParser(NewParser)
      BY DEF NewParser, IsParser, IsList
    <2> QED
      BY <1>1, <1>2, <2>1
  <1>4. ASSUME NEW i \in 1..n, i - 1 \in T PROVE i \in T
    <2>1. i \in 0..n
      BY <1>1
    <2>2. IsParser(u[i - 1])
      BY <1>4
    <2>3. IsParser(process_line(u[i - 1], LineBefore(s, i)))
      BY <2>2, LineKeeps
    <2> QED
      BY <1>2, <2>1, <2>2, <2>3
  <1>5. \A i \in 0..n : i \in T
    <2> HIDE DEF T
    <2> QED
      BY <1>1, <1>3, <1>4, IntervalInduction
  <1> QED
    BY <1>5 DEF n, u

\* A further event leaves those before it where they are.
LEMMA PrefixGrows ==
    ASSUME NEW s, IsList(s), NEW t, IsList(t), NEW r, MaybeOneMore(t, r), IsPrefix(s, t)
    PROVE  IsPrefix(s, r)
  <1>1. Len(s) \in Nat /\ Len(t) \in Nat /\ Len(s) <= Len(t)
    BY Listed DEF IsPrefix
  <1>2. CASE r = t
    BY <1>2
  <1>3. ASSUME NEW x, r = Append(t, x) PROVE IsPrefix(s, r)
    <2>1. Len(r) = Len(t) + 1
      BY <1>3, ListGrows
    <2>2. Len(s) \in 0..Len(t)
      BY <1>1
    <2>3. SubSeq(r, 1, Len(s)) = SubSeq(t, 1, Len(s))
      BY <1>3, <2>2, PrefixStays
    <2>4. Len(s) <= Len(r)
      BY <1>1, <2>1
    <2> QED
      BY <2>3, <2>4 DEF IsPrefix
  <1> QED
    BY <1>2, <1>3 DEF MaybeOneMore

LEMMA UptoGrows ==
    ASSUME NEW s, IsList(s), NEW k \in 0..Len(s)
    PROVE  IsPrefix(Upto(s)[k].events, EventsOf(s))
  <1> DEFINE n == Len(s)
             u == Upto(s)
             T == {j \in 0..(n - k) : IsPrefix(u[k].events, u[k + j].events)}
  <1>1. n \in Nat /\ k \in 0..n
    BY Listed
  <1>2. /\ \A i \in 1..n : u[i] = IF i \in LineEnds(s) THEN process_line(u[i - 1], LineBefore(s, i)) ELSE u[i - 1]
        /\ EventsOf(s) = u[n].events
    BY UptoSteps
  <1>3. \A i \in 0..n : IsParser(u[i])
    BY UptoParsers
  <1> HIDE DEF n, u
  <1>4. 0 \in T
    <2>1. IsPrefix(u[k].events, u[k].events)
      <3>1. IsList(u[k].events)
        BY <1>1, <1>3 DEF IsParser
      <3>2. Len(u[k].events) \in Nat
        BY <3>1, Listed
      <3> QED
        BY <3>2 DEF IsPrefix
    <2>2. k + 0 = k /\ 0 \in 0..(n - k)
      BY <1>1
    <2> QED
      BY <2>1, <2>2
  <1>5. ASSUME NEW j \in 1..(n - k), j - 1 \in T PROVE j \in T
    <2> DEFINE i == k + j
    <2>1. /\ i \in 1..n /\ i - 1 = k + (j - 1) /\ i - 1 \in 0..n /\ j \in 0..(n - k) /\ k \in 0..n
      BY <1>1
    <2>2. IsPrefix(u[k].events, u[i - 1].events)
      BY <1>5, <2>1
    <2> HIDE DEF i
    <2>3. IsParser(u[i - 1]) /\ IsParser(u[k])
      BY <1>3, <2>1
    <2>4. MaybeOneMore(u[i - 1].events, u[i].events)
      <3>1. CASE i \in LineEnds(s)
        <4>1. u[i] = process_line(u[i - 1], LineBefore(s, i))
          BY <1>2, <2>1, <3>1
        <4> QED
          BY <2>3, <4>1, LineKeeps
      <3>2. CASE i \notin LineEnds(s)
        <4>1. u[i] = u[i - 1]
          BY <1>2, <2>1, <3>2
        <4> QED
          BY <4>1 DEF MaybeOneMore
      <3> QED
        BY <3>1, <3>2
    <2>5. IsPrefix(u[k].events, u[i].events)
      BY <2>2, <2>3, <2>4, PrefixGrows DEF IsParser
    <2> QED
      BY <2>1, <2>5 DEF i
  <1>6. n - k \in T
    <2>1. n - k \in Nat /\ n - k \in 0..(n - k)
      BY <1>1
    <2> HIDE DEF T
    <2> QED
      BY <1>4, <1>5, <2>1, IntervalInduction
  <1>7. k + (n - k) = n
    BY <1>1
  <1> QED
    BY <1>2, <1>6, <1>7 DEF u

LEMMA BoundedMax ==
    ASSUME NEW n \in Nat, NEW S, S \subseteq 0..n, S # {}
    PROVE  Max(S) \in S /\ \A y \in S : y <= Max(S)
  <1> DEFINE T == {n - y : y \in S}
  <1>1. T \subseteq Nat /\ T # {}
    <2>1. \A y \in S : n - y \in Nat
      OBVIOUS
    <2>2. PICK y \in S : TRUE
      OBVIOUS
    <2>3. n - y \in T
      OBVIOUS
    <2> QED
      BY <2>1, <2>3
  <1>2. PICK x \in T : \A y \in T : ~(y < x)
    <2> HIDE DEF T
    <2> QED
      BY <1>1, LeastNat
  <1>3. PICK k \in S : x = n - k
    BY <1>2
  <1>4. \A y \in S : y <= k
    <2>1. ASSUME NEW y \in S PROVE y <= k
      <3>1. n - y \in T /\ y \in 0..n /\ k \in 0..n
        OBVIOUS
      <3>2. ~(n - y < n - k)
        BY <1>2, <1>3, <3>1
      <3> QED
        BY <3>1, <3>2
    <2> QED
      BY <2>1
  <1>5. Max(S) = k
    <2>1. S \subseteq Int
      OBVIOUS
    <2> QED
      BY <1>4, <2>1, Greatest
  <1> QED
    BY <1>4, <1>5

\* What follows the bytes read leaves their lines as they are.
LEMMA LineStays ==
    ASSUME NEW s, IsList(s), NEW t, IsList(t), Len(s) <= Len(t),
           \A i \in 1..Len(s) : t[i] = s[i], NEW i \in 1..Len(s)
    PROVE  /\ i \in LineEnds(t) <=> i \in LineEnds(s)
           /\ LineBefore(t, i) = LineBefore(s, i)
  <1> DEFINE n == Len(s)
             m == Len(t)
  <1>1. n \in Nat /\ m \in Nat /\ n <= m /\ i \in 1..n
    BY Listed
  <1>2. \A j \in 1..i : t[j] = s[j]
    <2>1. \A j \in 1..i : j \in 1..n
      BY <1>1
    <2> QED
      BY <2>1
  <1>3. i \in LineEnds(t) <=> i \in LineEnds(s)
    <2>1. t[i] = s[i] /\ (i > 1 => t[i - 1] = s[i - 1])
      <3>1. i \in 1..i /\ (i > 1 => i - 1 \in 1..i)
        BY <1>1
      <3> QED
        BY <1>2, <3>1
    <2>2. i \in 1..n /\ i \in 1..m
      BY <1>1
    <2> HIDE DEF n, m
    <2>3. i \in LineEnds(t) <=> (t[i] = "CR" \/ (t[i] = "LF" /\ ~(i > 1 /\ t[i - 1] = "CR")))
      BY <2>2 DEF LineEnds, m
    <2>4. i \in LineEnds(s) <=> (s[i] = "CR" \/ (s[i] = "LF" /\ ~(i > 1 /\ s[i - 1] = "CR")))
      BY <2>2 DEF LineEnds, n
    <2> QED
      BY <2>1, <2>3, <2>4
  <1> DEFINE S == {0} \cup {j \in 1..(i - 1) : s[j] \in {"CR", "LF"}}
             T == {0} \cup {j \in 1..(i - 1) : t[j] \in {"CR", "LF"}}
             k == Max(S)
  <1>4. S = T
    <2>1. \A j \in 1..(i - 1) : j \in 1..i
      BY <1>1
    <2> QED
      BY <1>2, <2>1
  <1>5. S \subseteq 0..(i - 1) /\ S # {} /\ i - 1 \in Nat
    BY <1>1
  <1>6. LineBefore(t, i) = SubSeq(t, 1 + Max(T), i - 1) /\ LineBefore(s, i) = SubSeq(s, 1 + k, i - 1)
    BY Zenon DEF LineBefore
  <1> HIDE DEF S, T, n, m
  <1>7. k \in 0..(i - 1)
    BY <1>5, BoundedMax
  <1>8. Max(T) = k
    BY <1>4
  <1> HIDE DEF k
  <1> DEFINE h == i - 1 - k
  <1>9. h \in Nat /\ 1 + k = k + 1 /\ i - 1 = k + h /\ k \in Nat
    BY <1>1, <1>7
  <1>10. \A j \in 1..h : t[k + j] = s[k + j]
    <2>1. \A j \in 1..h : k + j \in 1..i
      BY <1>1, <1>7
    <2> QED
      BY <1>2, <2>1
  <1> HIDE DEF h
  <1>11. SubSeq(t, k + 1, k + h) = SubSeq(s, k + 1, k + h)
    BY <1>9, <1>10, SameSlice
  <1> QED
    BY <1>3, <1>6, <1>8, <1>9, <1>11

LEMMA UptoExtends ==
    ASSUME NEW s, IsList(s), NEW t, IsList(t), Len(s) <= Len(t),
           \A i \in 1..Len(s) : t[i] = s[i]
    PROVE  \A i \in 0..Len(s) : Upto(t)[i] = Upto(s)[i]
  <1> DEFINE n == Len(s)
             m == Len(t)
             u == Upto(s)
             v == Upto(t)
             T == {i \in 0..n : v[i] = u[i]}
  <1>1. n \in Nat /\ m \in Nat /\ n <= m
    BY Listed
  <1>2. /\ u[0] = NewParser
        /\ \A i \in 1..n : u[i] = IF i \in LineEnds(s) THEN process_line(u[i - 1], LineBefore(s, i)) ELSE u[i - 1]
    BY UptoSteps
  <1>3. /\ v[0] = NewParser
        /\ \A i \in 1..m : v[i] = IF i \in LineEnds(t) THEN process_line(v[i - 1], LineBefore(t, i)) ELSE v[i - 1]
    BY UptoSteps
  <1>4. \A i \in 1..n : (i \in LineEnds(t) <=> i \in LineEnds(s)) /\ LineBefore(t, i) = LineBefore(s, i)
    BY LineStays
  <1> HIDE DEF n, m, u, v
  <1>5. 0 \in T
    BY <1>1, <1>2, <1>3
  <1>6. ASSUME NEW i \in 1..n, i - 1 \in T PROVE i \in T
    <2>1. i \in 0..n /\ i \in 1..m
      BY <1>1
    <2>2. v[i - 1] = u[i - 1]
      BY <1>6
    <2>3. v[i] = u[i]
      BY <1>2, <1>3, <1>4, <2>1, <2>2
    <2> QED
      BY <2>1, <2>3
  <1>7. \A i \in 0..n : i \in T
    <2> HIDE DEF T
    <2> QED
      BY <1>1, <1>5, <1>6, IntervalInduction
  <1> QED
    BY <1>7 DEF n, u, v

\* What is left of a buffer whose first bytes were read.
LEMMA Rest ==
    ASSUME NEW b, IsList(b), NEW m \in 0..Len(b)
    PROVE  /\ IsList(SubSeq(b, m + 1, Len(b))) /\ Len(SubSeq(b, m + 1, Len(b))) = Len(b) - m
           /\ \A i \in 1..(Len(b) - m) : SubSeq(b, m + 1, Len(b))[i] = b[m + i]
  <1> DEFINE n == Len(b)
             S == {b[i] : i \in DOMAIN b}
             r == SubSeq(b, m + 1, n)
  <1>1. n \in Nat /\ DOMAIN b = 1..n /\ m \in 0..n
    BY Listed
  <1>2. \A i \in (m + 1)..n : b[i] \in S
    <2>1. \A i \in (m + 1)..n : i \in DOMAIN b
      BY <1>1
    <2> QED
      BY <2>1
  <1>3. m + 1 \in Int /\ n \in Int
    BY <1>1
  <1> HIDE DEF S, n
  <1>4. /\ r \in Seq(S) /\ Len(r) = (IF m + 1 <= n THEN n - (m + 1) + 1 ELSE 0)
        /\ \A i \in 1..(n - (m + 1) + 1) : r[i] = b[m + 1 + i - 1]
    BY <1>2, <1>3, SubSeqProperties
  <1> HIDE DEF r
  <1>5. IsList(r)
    BY <1>4, ListOf
  <1>6. Len(r) = n - m
    BY <1>1, <1>4
  <1>7. \A i \in 1..(n - m) : r[i] = b[m + i]
    <2>1. ASSUME NEW i \in 1..(n - m) PROVE r[i] = b[m + i]
      <3>1. i \in 1..(n - (m + 1) + 1) /\ m + 1 + i - 1 = m + i
        BY <1>1
      <3> QED
        BY <1>4, <3>1
    <2> QED
      BY <2>1
  <1> QED
    BY <1>5, <1>6, <1>7 DEF r, n

LEMMA TailIsRest ==
    ASSUME NEW b, IsList(b), b # <<>>
    PROVE  /\ 1 \in 1..Len(b) /\ IsList(Tail(b)) /\ Len(Tail(b)) = Len(b) - 1
           /\ \A i \in 1..(Len(b) - 1) : Tail(b)[i] = b[1 + i]
  <1> DEFINE S == {b[i] : i \in DOMAIN b}
             z == 1
  <1>1. b \in Seq(S)
    BY DEF IsList
  <1> HIDE DEF S
  <1>2. Len(b) \in Nat /\ Len(b) # 0
    BY <1>1
  <1>3. Tail(b) = SubSeq(b, z + 1, Len(b))
    BY <1>1, <1>2
  <1>4. z \in 0..Len(b) /\ 1 \in 1..Len(b) /\ z = 1
    BY <1>2
  <1> HIDE DEF z
  <1>5. /\ IsList(Tail(b)) /\ Len(Tail(b)) = Len(b) - z
        /\ \A i \in 1..(Len(b) - z) : Tail(b)[i] = b[z + i]
    <2>1. /\ IsList(SubSeq(b, z + 1, Len(b))) /\ Len(SubSeq(b, z + 1, Len(b))) = Len(b) - z
          /\ \A i \in 1..(Len(b) - z) : SubSeq(b, z + 1, Len(b))[i] = b[z + i]
      BY <1>4, Rest, Zenon
    <2> QED
      BY <1>3, <2>1, Zenon
  <1> QED
    BY <1>4, <1>5

\* The parser has read the first k bytes of a stream: the others are in its
\* buffer, and it has made of the lines that end among the k what the
\* reference makes of them.  Between a CR and what follows it, the parser
\* remembers to pass over a line feed.
ReadTo(p, s, k) ==
    /\ IsParser(p) /\ IsList(p.buffer)
    /\ Len(p.buffer) = Len(s) - k
    /\ \A j \in 1..(Len(s) - k) : p.buffer[j] = s[k + j]
    /\ Same(p, Upto(s)[k])
    /\ k > 0 => s[k] \in Ending
    /\ p.skip_lf_after_cr \in BOOLEAN
    /\ p.skip_lf_after_cr => k > 0 /\ s[k] = "CR"
    /\ ~p.skip_lf_after_cr => (k = 0 \/ s[k] # "CR" \/ (k + 1 \in 1..Len(s) /\ s[k + 1] # "LF"))

Reads(p, s) == \E k \in 0..Len(s) : ReadTo(p, s, k)

LEMMA PoisonReads ==
    ASSUME NEW s, NEW k, NEW p, ReadTo(p, s, k)
    PROVE  ReadTo(Poison(p), s, k)
  <1> DEFINE r == [p EXCEPT !.poisoned = TRUE]
  <1>0. r = [p EXCEPT !.poisoned = TRUE]
    OBVIOUS
  <1>p. p = [buffer |-> p.buffer, event_type |-> p.event_type, event_data |-> p.event_data,
             lines |-> p.lines, events |-> p.events, total |-> p.total,
             poisoned |-> p.poisoned, skip_lf_after_cr |-> p.skip_lf_after_cr]
    BY DEF ReadTo, IsParser
  <1> HIDE DEF r
  <1>1. /\ r = [buffer |-> r.buffer, event_type |-> r.event_type, event_data |-> r.event_data,
                lines |-> r.lines, events |-> r.events, total |-> r.total,
                poisoned |-> r.poisoned, skip_lf_after_cr |-> r.skip_lf_after_cr]
        /\ r.events = p.events /\ r.buffer = p.buffer /\ r.skip_lf_after_cr = p.skip_lf_after_cr
        /\ r.event_type = p.event_type /\ r.event_data = p.event_data /\ r.lines = p.lines
    BY <1>p, <1>0
  <1>2. IsList(p.events)
    BY DEF ReadTo, IsParser
  <1>3. IsParser(r)
    <2>1. IsList(r.events)
      BY <1>1, <1>2
    <2> QED
      BY <1>1, <2>1, Zenon DEF IsParser
  <1>4. Same(r, Upto(s)[k])
    BY <1>1 DEF ReadTo, Same
  <1>5. ReadTo(r, s, k)
    BY <1>1, <1>3, <1>4, Zenon DEF ReadTo
  <1> QED
    BY <1>5 DEF Poison, r

\* The buffer's first line ending ends the stream's next line.
LEMMA LineComplete ==
    ASSUME NEW s, IsList(s), NEW k \in 0..Len(s), NEW p, ReadTo(p, s, k), ~p.skip_lf_after_cr,
           next_line_ending(p.buffer) <= Len(p.buffer)
    PROVE  LET e == next_line_ending(p.buffer)
           IN  /\ k + e \in 1..Len(s)
               /\ s[k + e] \in Ending /\ s[k + e] = p.buffer[e]
               /\ Upto(s)[k + e] = process_line(Upto(s)[k], SubSeq(p.buffer, 1, e - 1))
  <1> DEFINE n == Len(s)
             b == p.buffer
             e == next_line_ending(b)
             u == Upto(s)
             Before(i) == {0} \cup {j \in 1..(i - 1) : s[j] \in {"CR", "LF"}}
  <1>1. n \in Nat /\ k \in 0..n /\ Len(b) = n - k
    BY Listed DEF ReadTo
  <1>2. IsList(b) /\ (\A j \in 1..(n - k) : b[j] = s[k + j])
    BY DEF ReadTo
  <1>3. e \in 1..(Len(b) + 1) /\ b[e] \in Ending /\ \A j \in 1..(e - 1) : b[j] \notin Ending
    BY <1>2, NextEnding
  <1>4. e \in 1..(n - k) /\ k + e \in 1..n /\ s[k + e] = b[e]
    <2>1. e <= n - k
      BY <1>1
    <2> HIDE DEF e, n, b
    <2>2. e \in 1..(n - k) /\ k + e \in 1..n
      BY <1>1, <1>3, <2>1
    <2> QED
      BY <1>2, <2>2
  <1>5. k > 0 => s[k] \in Ending
    BY DEF ReadTo
  <1>6. ~(k \in 1..(n - 1) /\ s[k] = "CR" /\ s[k + 1] = "LF")
    <2>1. k = 0 \/ s[k] # "CR" \/ (k + 1 \in 1..Len(s) /\ s[k + 1] # "LF")
      BY Zenon DEF ReadTo
    <2>2. k \in 1..(n - 1) => k # 0
      OBVIOUS
    <2> QED
      BY <2>1, <2>2
  <1>7. \A i \in 1..n : u[i] = IF i \in LineEnds(s) THEN process_line(u[i - 1], LineBefore(s, i)) ELSE u[i - 1]
    BY UptoSteps
  <1>8. \A i : i \in LineEnds(s) <=> (i \in 1..n /\ (s[i] = "CR" \/ (s[i] = "LF" /\ ~(i > 1 /\ s[i - 1] = "CR"))))
    BY DEF LineEnds
  <1>9. \A i : LineBefore(s, i) = SubSeq(s, 1 + Max(Before(i)), i - 1)
    BY Zenon DEF LineBefore
  <1> HIDE DEF n, b, e, u, Before
  <1>10. \A j \in 1..(e - 1) : s[k + j] \notin Ending
    <2>1. \A j \in 1..(e - 1) : j \in 1..(n - k)
      BY <1>1, <1>4
    <2> QED
      BY <1>2, <1>3, <2>1
  <1>11. k + e \in LineEnds(s)
    <2>1. s[k + e] = "CR" \/ s[k + e] = "LF"
      BY <1>3, <1>4 DEF Ending
    <2>2. ASSUME k + e > 1, s[(k + e) - 1] = "CR", s[k + e] = "LF" PROVE FALSE
      <3>1. CASE e = 1
        <4>1. k \in 1..(n - 1) /\ k + e = k + 1 /\ (k + e) - 1 = k
          BY <1>1, <1>4, <2>2, <3>1
        <4> QED
          BY <1>6, <2>2, <4>1
      <3>2. CASE e # 1
        <4>1. e - 1 \in 1..(e - 1) /\ (k + e) - 1 = k + (e - 1)
          BY <1>1, <1>4, <3>2
        <4> QED
          BY <1>10, <2>2, <4>1 DEF Ending
      <3> QED
        BY <3>1, <3>2
    <2> QED
      BY <1>4, <1>8, <2>1, <2>2
  <1>12. LineBefore(s, k + e) = SubSeq(b, 1, e - 1)
    <2> DEFINE S == Before(k + e)
               h == e - 1
               z == 0
    <2>1. S \subseteq Int
      BY <1>1, <1>4 DEF Before
    <2>2. k \in S
      <3>1. k = 0 \/ k \in 1..((k + e) - 1)
        BY <1>1, <1>4
      <3>2. k = 0 \/ k > 0
        BY <1>1
      <3> QED
        BY <1>5, <3>1, <3>2 DEF Before, Ending
    <2>3. \A y \in S : y <= k
      <3>1. ASSUME NEW y \in 1..((k + e) - 1), s[y] \in {"CR", "LF"}, ~(y <= k) PROVE FALSE
        <4>1. y - k \in 1..(e - 1) /\ k + (y - k) = y
          BY <1>1, <1>4, <3>1
        <4> QED
          BY <1>10, <3>1, <4>1 DEF Ending
      <3> QED
        BY <1>1, <3>1 DEF Before
    <2>4. LineBefore(s, k + e) = SubSeq(s, 1 + Max(S), (k + e) - 1)
      BY <1>9
    <2> HIDE DEF S
    <2>5. Max(S) = k
      BY <2>1, <2>2, <2>3, Greatest
    <2>6. h \in Nat /\ 1 + k = k + 1 /\ (k + e) - 1 = k + h /\ k \in Nat /\ z + 1 = 1 /\ z + h = e - 1 /\ z \in Nat
      BY <1>1, <1>4
    <2>7. \A i \in 1..h : s[k + i] = b[z + i]
      <3>1. \A i \in 1..h : i \in 1..(n - k) /\ z + i = i
        BY <1>1, <1>4
      <3> QED
        BY <1>2, <3>1
    <2> HIDE DEF h, z
    <2>8. SubSeq(s, k + 1, k + h) = SubSeq(b, z + 1, z + h)
      BY <2>6, <2>7, SameSlice
    <2> QED
      BY <2>4, <2>5, <2>6, <2>8
  <1>13. u[(k + e) - 1] = u[k]
    <2> DEFINE T == {j \in 0..(e - 1) : u[k + j] = u[k]}
    <2>1. 0 \in T
      <3>1. k + 0 = k /\ 0 \in 0..(e - 1)
        BY <1>1, <1>4
      <3> QED
        BY <3>1
    <2>2. ASSUME NEW j \in 1..(e - 1), j - 1 \in T PROVE j \in T
      <3>1. j \in 0..(e - 1) /\ k + j \in 1..n /\ k + j - 1 = k + (j - 1)
        BY <1>1, <1>4
      <3>2. k + j \notin LineEnds(s)
        BY <1>8, <1>10 DEF Ending
      <3>3. u[k + (j - 1)] = u[k]
        BY <2>2
      <3>4. u[k + j] = u[k + j - 1]
        BY <1>7, <3>1, <3>2
      <3> QED
        BY <3>1, <3>3, <3>4
    <2>3. e - 1 \in T
      <3>1. e - 1 \in Nat /\ e - 1 \in 0..(e - 1)
        BY <1>4
      <3> HIDE DEF T
      <3> QED
        BY <2>1, <2>2, <3>1, IntervalInduction
    <2>4. k + (e - 1) = (k + e) - 1
      BY <1>1, <1>4
    <2> QED
      BY <2>3, <2>4
  <1>14. u[k + e] = process_line(u[k], SubSeq(b, 1, e - 1))
    <2>1. u[k + e] = process_line(u[(k + e) - 1], LineBefore(s, k + e))
      BY <1>4, <1>7, <1>11
    <2> QED
      BY <1>12, <1>13, <2>1, Zenon
  <1>15. /\ k + e \in 1..n /\ s[k + e] \in Ending /\ s[k + e] = b[e]
         /\ u[k + e] = process_line(u[k], SubSeq(b, 1, e - 1))
    BY <1>3, <1>4, <1>14
  <1> QED
    BY <1>15 DEF n, b, e, u

LEMMA Moved ==
    ASSUME NEW p, IsParser(p), NEW x, NEW y, NEW r,
           \/ r = [p EXCEPT !.buffer = x, !.skip_lf_after_cr = y]
           \/ r = [p EXCEPT !.skip_lf_after_cr = y, !.buffer = x]
    PROVE  /\ IsParser(r) /\ r.buffer = x /\ r.skip_lf_after_cr = y
           /\ \A q : Same(p, q) => Same(r, q)
  <1>p. p = [buffer |-> p.buffer, event_type |-> p.event_type, event_data |-> p.event_data,
             lines |-> p.lines, events |-> p.events, total |-> p.total,
             poisoned |-> p.poisoned, skip_lf_after_cr |-> p.skip_lf_after_cr]
    BY DEF IsParser
  <1>1. /\ r = [buffer |-> r.buffer, event_type |-> r.event_type, event_data |-> r.event_data,
                lines |-> r.lines, events |-> r.events, total |-> r.total,
                poisoned |-> r.poisoned, skip_lf_after_cr |-> r.skip_lf_after_cr]
        /\ r.buffer = x /\ r.skip_lf_after_cr = y
        /\ r.event_type = p.event_type /\ r.event_data = p.event_data
        /\ r.lines = p.lines /\ r.events = p.events
    BY <1>p
  <1>2. IsList(p.events)
    BY DEF IsParser
  <1>3. IsParser(r)
    <2>1. IsList(r.events)
      BY <1>1, <1>2
    <2> QED
      BY <1>1, <2>1, Zenon DEF IsParser
  <1>4. \A q : Same(p, q) => Same(r, q)
    BY <1>1 DEF Same
  <1> QED
    BY <1>1, <1>3, <1>4

\* The line feed of a CR LF: it ends no line.
LEMMA FeedRead ==
    ASSUME NEW s, IsList(s), NEW k \in 0..Len(s), NEW p, ReadTo(p, s, k), p.skip_lf_after_cr,
           p.buffer # <<>>
    PROVE  Reads([p EXCEPT !.skip_lf_after_cr = FALSE,
                           !.buffer = IF p.buffer[1] = "LF" THEN Tail(p.buffer) ELSE p.buffer], s)
  <1> DEFINE n == Len(s)
             b == p.buffer
             c == IF b[1] = "LF" THEN Tail(b) ELSE b
             r == [p EXCEPT !.skip_lf_after_cr = FALSE, !.buffer = c]
             u == Upto(s)
  <1>1. n \in Nat /\ k \in 0..n /\ Len(b) = n - k
    BY Listed DEF ReadTo
  <1>2. IsParser(p) /\ IsList(b) /\ (\A j \in 1..(n - k) : b[j] = s[k + j])
    BY DEF ReadTo
  <1>3. k > 0 /\ s[k] = "CR" /\ Same(p, u[k])
    BY DEF ReadTo
  <1>4. \A i \in 1..n : u[i] = IF i \in LineEnds(s) THEN process_line(u[i - 1], LineBefore(s, i)) ELSE u[i - 1]
    BY UptoSteps
  <1>5. 1 \in 1..(n - k) /\ k + 1 \in 1..n
    <2>1. 1 \in 1..Len(b)
      BY <1>2, TailIsRest
    <2> HIDE DEF n, b
    <2> QED
      BY <1>1, <2>1
  <1>6. \A i : i \in LineEnds(s) => (s[i] = "CR" \/ (s[i] = "LF" /\ ~(i > 1 /\ s[i - 1] = "CR")))
    BY DEF LineEnds
  <1>7. IsParser(r) /\ r.buffer = c /\ r.skip_lf_after_cr = FALSE /\ (\A q : Same(p, q) => Same(r, q))
    <2> DEFINE no == FALSE
    <2> HIDE DEF c, r, b, no
    <2>1. r = [p EXCEPT !.skip_lf_after_cr = no, !.buffer = c]
      BY DEF r, no
    <2>2. \/ r = [p EXCEPT !.buffer = c, !.skip_lf_after_cr = no]
          \/ r = [p EXCEPT !.skip_lf_after_cr = no, !.buffer = c]
      BY <2>1, Zenon
    <2>3. IsParser(r) /\ r.buffer = c /\ r.skip_lf_after_cr = no /\ (\A q : Same(p, q) => Same(r, q))
      BY <1>2, <2>2, Moved, ZenonT(60)
    <2> QED
      BY <2>3, Zenon DEF no
  <1>8. s[k + 1] = b[1]
    BY <1>2, <1>5
  <1>9. c = IF b[1] = "LF" THEN Tail(b) ELSE b
    OBVIOUS
  <1>10. /\ IsList(Tail(b)) /\ Len(Tail(b)) = Len(b) - 1
         /\ \A i \in 1..(Len(b) - 1) : Tail(b)[i] = b[1 + i]
    BY <1>2, TailIsRest
  <1> HIDE DEF n, b, c, r, u
  <1>11. CASE b[1] = "LF"
    <2>1. k + 1 \in 0..n /\ k + 1 > 1 /\ (k + 1) - 1 = k
      BY <1>1, <1>3, <1>5
    <2>2. u[k + 1] = u[k]
      <3>1. k + 1 \notin LineEnds(s)
        BY <1>3, <1>6, <1>8, <1>11, <2>1
      <3> QED
        BY <1>4, <1>5, <2>1, <3>1
    <2>3. /\ IsList(r.buffer) /\ Len(r.buffer) = n - (k + 1)
          /\ \A j \in 1..(n - (k + 1)) : r.buffer[j] = s[(k + 1) + j]
      <3>1. r.buffer = Tail(b) /\ IsList(Tail(b)) /\ Len(Tail(b)) = Len(b) - 1
        BY <1>5, <1>7, <1>9, <1>10, <1>11
      <3>2. Len(b) - 1 = n - (k + 1)
        BY <1>1
      <3>3. ASSUME NEW j \in 1..(n - (k + 1)) PROVE Tail(b)[j] = s[(k + 1) + j]
        <4>1. j \in 1..(Len(b) - 1) /\ 1 + j \in 1..(n - k) /\ k + (1 + j) = (k + 1) + j
          BY <1>1
        <4>2. Tail(b)[j] = b[1 + j]
          BY <1>5, <1>10, <4>1
        <4> QED
          BY <1>2, <4>1, <4>2
      <3> QED
        BY <3>1, <3>2, <3>3
    <2>4. ReadTo(r, s, k + 1)
      <3>1. Same(r, u[k + 1])
        BY <1>3, <1>7, <2>2
      <3>2. s[k + 1] \in Ending /\ s[k + 1] # "CR"
        BY <1>8, <1>11 DEF Ending
      <3>3. r.skip_lf_after_cr = FALSE /\ IsParser(r)
        BY <1>7
      <3> QED
        BY <2>3, <3>1, <3>2, <3>3 DEF ReadTo, n, u
    <2> QED
      BY <2>1, <2>4 DEF Reads, n, r, c, b
  <1>12. CASE b[1] # "LF"
    <2>1. r.buffer = b
      BY <1>7, <1>9, <1>12
    <2>2. Same(r, u[k])
      BY <1>3, <1>7
    <2>3. s[k] \in Ending /\ s[k + 1] # "LF"
      BY <1>3, <1>8, <1>12 DEF Ending
    <2>4. ReadTo(r, s, k)
      BY <1>1, <1>2, <1>5, <1>7, <2>1, <2>2, <2>3 DEF ReadTo, n, u
    <2> QED
      BY <1>1, <2>4 DEF Reads, n, r, c, b
  <1> QED
    BY <1>11, <1>12

\* A complete line.
LEMMA LineRead ==
    ASSUME NEW s, IsList(s), NEW k \in 0..Len(s), NEW p, ReadTo(p, s, k), ~p.skip_lf_after_cr,
           next_line_ending(p.buffer) <= Len(p.buffer)
    PROVE  LET e == next_line_ending(p.buffer)
           IN  Reads(process_line([p EXCEPT !.buffer = SubSeq(p.buffer, e + 1, Len(p.buffer)),
                                            !.skip_lf_after_cr = p.buffer[e] = "CR"],
                                  SubSeq(p.buffer, 1, e - 1)), s)
  <1> DEFINE n == Len(s)
             b == p.buffer
             e == next_line_ending(b)
             c == SubSeq(b, e + 1, Len(b))
             cr == b[e] = "CR"
             line == SubSeq(b, 1, e - 1)
             q == [p EXCEPT !.buffer = c, !.skip_lf_after_cr = cr]
             r == process_line(q, line)
             u == Upto(s)
  <1>1. n \in Nat /\ k \in 0..n /\ Len(b) = n - k
    BY Listed DEF ReadTo
  <1>2. IsParser(p) /\ IsList(b) /\ (\A j \in 1..(n - k) : b[j] = s[k + j]) /\ Same(p, u[k])
    BY DEF ReadTo
  <1>3. /\ k + e \in 1..n /\ s[k + e] \in Ending /\ s[k + e] = b[e]
        /\ u[k + e] = process_line(u[k], line)
    BY LineComplete
  <1>4. e \in 1..(Len(b) + 1)
    BY <1>2, NextEnding
  <1>5. IsParser(u[k])
    BY UptoParsers
  <1>6. q = [p EXCEPT !.buffer = c, !.skip_lf_after_cr = cr]
    OBVIOUS
  <1>7. e \in 1..(n - k) /\ e \in 0..Len(b)
    <2> HIDE DEF e, n, b
    <2> QED
      BY <1>1, <1>3, <1>4
  <1>8. IsList(c) /\ Len(c) = Len(b) - e /\ \A i \in 1..(Len(b) - e) : c[i] = b[e + i]
    <2> HIDE DEF e, b
    <2> QED
      BY <1>2, <1>7, Rest
  <1>9. (cr = TRUE /\ b[e] = "CR") \/ (cr = FALSE /\ b[e] # "CR")
    OBVIOUS
  <1> HIDE DEF cr
  <1> HIDE DEF n, b, e, c, line, q, r, u
  <1>10. IsParser(q) /\ q.buffer = c /\ q.skip_lf_after_cr = cr /\ Same(q, u[k])
    <2>1. \/ q = [p EXCEPT !.buffer = c, !.skip_lf_after_cr = cr]
          \/ q = [p EXCEPT !.skip_lf_after_cr = cr, !.buffer = c]
      BY <1>6, Zenon
    <2>2. IsParser(q) /\ q.buffer = c /\ q.skip_lf_after_cr = cr /\ (\A x : Same(p, x) => Same(q, x))
      BY <1>2, <2>1, Moved, ZenonT(60)
    <2> QED
      BY <1>2, <2>2
  <1>11. IsParser(r) /\ r.buffer = c /\ r.skip_lf_after_cr = cr
    BY <1>10, LineKeeps DEF r
  <1>12. Same(r, u[k + e])
    <2>1. Same(process_line(q, line), process_line(u[k], line))
      BY <1>5, <1>10, LineAgrees
    <2> QED
      BY <1>3, <2>1 DEF r
  <1>13. Len(c) = n - (k + e) /\ \A j \in 1..(n - (k + e)) : c[j] = s[(k + e) + j]
    <2>1. Len(b) - e = n - (k + e)
      BY <1>1, <1>7
    <2>2. ASSUME NEW j \in 1..(n - (k + e)) PROVE c[j] = s[(k + e) + j]
      <3>1. j \in 1..(Len(b) - e) /\ e + j \in 1..(n - k) /\ k + (e + j) = (k + e) + j
        BY <1>1, <1>7
      <3> QED
        BY <1>2, <1>8, <3>1
    <2> QED
      BY <1>8, <2>1, <2>2
  <1>14. ReadTo(r, s, k + e)
    <2>1. /\ IsParser(r) /\ IsList(r.buffer) /\ Len(r.buffer) = Len(s) - (k + e)
          /\ \A j \in 1..(Len(s) - (k + e)) : r.buffer[j] = s[(k + e) + j]
          /\ Same(r, Upto(s)[k + e])
      BY <1>8, <1>11, <1>12, <1>13 DEF n, u
    <2>2. s[k + e] \in Ending /\ k + e > 0
      BY <1>3
    <2>3. CASE cr = TRUE /\ b[e] = "CR"
      BY <1>3, <1>11, <2>1, <2>2, <2>3 DEF ReadTo
    <2>4. CASE cr = FALSE /\ b[e] # "CR"
      BY <1>3, <1>11, <2>1, <2>2, <2>4 DEF ReadTo
    <2> QED
      BY <1>9, <2>3, <2>4
  <1>15. k + e \in 0..n
    BY <1>3
  <1>16. Reads(r, s)
    BY <1>14, <1>15 DEF Reads, n
  <1> QED
    BY <1>16 DEF r, q, c, cr, line, e, b

LEMMA NextReads ==
    ASSUME NEW s, IsList(s), NEW p, Reads(p, s), NEW stop, NEW before
    PROVE  Reads(next_line(p, stop, before).parser, s)
  <1>1. PICK k \in 0..Len(s) : ReadTo(p, s, k)
    BY DEF Reads
  <1> DEFINE b == p.buffer
             e == next_line_ending(b)
             fed == [p EXCEPT !.skip_lf_after_cr = FALSE,
                              !.buffer = IF b[1] = "LF" THEN Tail(b) ELSE b]
             read == process_line([p EXCEPT !.buffer = SubSeq(b, e + 1, Len(b)),
                                            !.skip_lf_after_cr = b[e] = "CR"],
                                  SubSeq(b, 1, e - 1))
             more == ~read.poisoned /\ ~(stop /\ Len(read.events) > before)
             N == next_line(p, stop, before)
  <1>2. N = IF b = <<>> THEN [parser |-> p, more |-> FALSE]
            ELSE IF p.skip_lf_after_cr THEN [parser |-> fed, more |-> TRUE]
            ELSE IF e > Len(b) THEN [parser |-> IF Len(b) > MaxLine THEN Poison(p) ELSE p, more |-> FALSE]
            ELSE IF e - 1 > MaxLine THEN [parser |-> Poison(p), more |-> FALSE]
            ELSE [parser |-> read, more |-> more]
    BY Zenon DEF next_line
  <1>3. Reads(Poison(p), s)
    BY <1>1, PoisonReads DEF Reads
  <1>4. p.skip_lf_after_cr /\ b # <<>> => Reads(fed, s)
    BY <1>1, FeedRead
  <1>5. ~p.skip_lf_after_cr /\ e <= Len(b) => Reads(read, s)
    BY <1>1, LineRead
  <1>6. e > Len(b) \/ e <= Len(b)
    <2>1. IsList(b)
      BY <1>1 DEF ReadTo
    <2>2. e \in 1..(Len(b) + 1) /\ Len(b) \in Nat
      BY <2>1, NextEnding, Listed
    <2> HIDE DEF e, b
    <2> QED
      BY <2>2
  <1>7. p.skip_lf_after_cr \in BOOLEAN
    BY <1>1 DEF ReadTo
  <1> HIDE DEF fed, read, more, e, N
  <1>8. Reads(N.parser, s)
    <2>1. CASE b = <<>>
      BY <1>2, <2>1
    <2>2. CASE b # <<>> /\ p.skip_lf_after_cr
      BY <1>2, <1>4, <2>2
    <2>3. CASE b # <<>> /\ ~p.skip_lf_after_cr /\ e > Len(b)
      BY <1>2, <1>3, <2>3
    <2>4. CASE b # <<>> /\ ~p.skip_lf_after_cr /\ e <= Len(b) /\ ~(e > Len(b))
      <3>1. CASE e - 1 > MaxLine
        BY <1>2, <1>3, <2>4, <3>1
      <3>2. CASE ~(e - 1 > MaxLine)
        BY <1>2, <1>5, <2>4, <3>2
      <3> QED
        BY <3>1, <3>2
    <2> QED
      BY <1>6, <2>1, <2>2, <2>3, <2>4
  <1> QED
    BY <1>8 DEF N

\* The turns of the loop.
IsAfter(f, p, stop, before, n) ==
    f = [i \in 0..n |->
            IF i = 0 THEN [parser |-> p, more |-> TRUE]
            ELSE IF f[i - 1].more THEN next_line(f[i - 1].parser, stop, before) ELSE f[i - 1]]

LEMMA AfterExists ==
    ASSUME NEW p, NEW stop, NEW before, NEW n \in Nat
    PROVE  \E f : IsAfter(f, p, stop, before, n)
  <1> DEFINE First == [parser |-> p, more |-> TRUE]
             Turn(q) == IF q.more THEN next_line(q.parser, stop, before) ELSE q
             T == {k \in 0..n : \E f : IsAfter(f, p, stop, before, k)}
  <1>1. \A f, k : IsAfter(f, p, stop, before, k) <=>
                    f = [i \in 0..k |-> IF i = 0 THEN First ELSE Turn(f[i - 1])]
    BY Zenon DEF IsAfter
  <1> HIDE DEF First, Turn
  <1>2. 0 \in T
    <2> DEFINE f == [i \in 0..0 |-> First]
    <2>1. f = [i \in 0..0 |-> IF i = 0 THEN First ELSE Turn(f[i - 1])]
      OBVIOUS
    <2> HIDE DEF f
    <2>2. IsAfter(f, p, stop, before, 0)
      BY <1>1, <2>1
    <2> QED
      BY <2>2
  <1>3. ASSUME NEW k \in 1..n, k - 1 \in T PROVE k \in T
    <2>1. PICK g : IsAfter(g, p, stop, before, k - 1)
      BY <1>3
    <2>2. g = [i \in 0..(k - 1) |-> IF i = 0 THEN First ELSE Turn(g[i - 1])]
      BY <1>1, <2>1
    <2> DEFINE f == [i \in 0..k |-> IF i = k THEN Turn(g[k - 1]) ELSE g[i]]
    <2>3. /\ \A i \in 0..(k - 1) : f[i] = g[i]
          /\ f[k] = Turn(g[k - 1])
          /\ DOMAIN f = 0..k
      OBVIOUS
    <2>4. f = [i \in 0..k |-> f[i]]
      OBVIOUS
    <2> HIDE DEF f
    <2>5. \A i \in 0..k : f[i] = IF i = 0 THEN First ELSE Turn(f[i - 1])
      <3>1. ASSUME NEW i \in 0..(k - 1) PROVE f[i] = IF i = 0 THEN First ELSE Turn(f[i - 1])
        <4>1. i # 0 => i - 1 \in 0..(k - 1)
          OBVIOUS
        <4>2. g[i] = IF i = 0 THEN First ELSE Turn(g[i - 1])
          BY <2>2
        <4> QED
          BY <2>3, <4>1, <4>2
      <3>2. f[k] = Turn(f[k - 1]) /\ k # 0
        <4>1. k - 1 \in 0..(k - 1)
          OBVIOUS
        <4> QED
          BY <2>3, <4>1
      <3>3. \A i \in 0..k : i \in 0..(k - 1) \/ i = k
        OBVIOUS
      <3> QED
        BY <3>1, <3>2, <3>3
    <2>6. f = [i \in 0..k |-> IF i = 0 THEN First ELSE Turn(f[i - 1])]
      BY <2>4, <2>5
    <2>7. IsAfter(f, p, stop, before, k)
      BY <1>1, <2>6
    <2> QED
      BY <2>7
  <1>4. n \in T
    <2> HIDE DEF T
    <2> QED
      BY <1>2, <1>3, IntervalInduction
  <1> QED
    BY <1>4

\* Reading goes on where it stopped, whatever is asked of it.
LEMMA DrainReads ==
    ASSUME NEW s, IsList(s), NEW p, Reads(p, s), NEW stop, NEW before
    PROVE  Reads(Drain(p, stop, before), s)
  <1> DEFINE n == 2 * Len(p.buffer) + 1
             f == CHOOSE g : IsAfter(g, p, stop, before, n)
             T == {i \in 0..n : Reads(f[i].parser, s)}
  <1>1. n \in Nat
    <2>1. PICK k \in 0..Len(s) : ReadTo(p, s, k)
      BY DEF Reads
    <2>2. Len(p.buffer) \in Nat
      BY <2>1, Listed DEF ReadTo
    <2> QED
      BY <2>2
  <1>2. Drain(p, stop, before) = f[n].parser
    BY Zenon DEF Drain, IsAfter
  <1>3. IsAfter(f, p, stop, before, n)
    <2> HIDE DEF n
    <2> QED
      BY <1>1, AfterExists, Zenon
  <1> HIDE DEF n, f
  <1>4. f = [i \in 0..n |-> IF i = 0 THEN [parser |-> p, more |-> TRUE]
                            ELSE IF f[i - 1].more THEN next_line(f[i - 1].parser, stop, before)
                            ELSE f[i - 1]]
    BY <1>3, Zenon DEF IsAfter
  <1>5. 0 \in T
    <2>1. 0 \in 0..n
      BY <1>1
    <2>2. f[0] = [parser |-> p, more |-> TRUE]
      BY <1>4, <2>1
    <2> QED
      BY <2>1, <2>2
  <1>6. ASSUME NEW i \in 1..n, i - 1 \in T PROVE i \in T
    <2>1. i \in 0..n /\ i # 0
      BY <1>1
    <2>2. f[i] = IF f[i - 1].more THEN next_line(f[i - 1].parser, stop, before) ELSE f[i - 1]
      BY <1>4, <2>1
    <2>3. Reads(f[i - 1].parser, s)
      BY <1>6
    <2>4. Reads(next_line(f[i - 1].parser, stop, before).parser, s)
      BY <2>3, NextReads
    <2> QED
      BY <2>1, <2>2, <2>3, <2>4
  <1>7. n \in T
    <2>1. n \in 0..n
      BY <1>1
    <2> HIDE DEF T
    <2> QED
      BY <1>1, <1>5, <1>6, <2>1, IntervalInduction
  <1> QED
    BY <1>2, <1>7

LEMMA Joined ==
    ASSUME NEW s, IsList(s), NEW t, IsList(t)
    PROVE  /\ IsList(s \o t) /\ Len(s \o t) = Len(s) + Len(t)
           /\ \A i \in 1..Len(s) : (s \o t)[i] = s[i]
           /\ \A i \in 1..Len(t) : (s \o t)[Len(s) + i] = t[i]
  <1> DEFINE S == {s[i] : i \in DOMAIN s} \cup {t[i] : i \in DOMAIN t}
             r == s \o t
  <1>1. s \in Seq(S) /\ t \in Seq(S)
    BY SeqMonotonic DEF IsList
  <1> HIDE DEF S
  <1>2. r \in Seq(S)
    BY <1>1
  <1>3. /\ Len(r) = Len(s) + Len(t) /\ (\A i \in 1..Len(s) : r[i] = s[i])
        /\ \A i \in 1..Len(t) : r[Len(s) + i] = t[i]
    <2>1. Len(s) \in Nat /\ Len(t) \in Nat
      BY Listed
    <2>2. Len(r) = Len(s) + Len(t)
      BY <1>1
    <2>3. ASSUME NEW i \in 1..Len(s) PROVE r[i] = s[i]
      BY <1>1, <2>1
    <2>4. ASSUME NEW i \in 1..Len(t) PROVE r[Len(s) + i] = t[i]
      <3>1. Len(s) + i \in 1..(Len(s) + Len(t)) /\ ~(Len(s) + i <= Len(s)) /\ (Len(s) + i) - Len(s) = i
        BY <2>1
      <3> QED
        BY <1>1, <3>1
    <2> QED
      BY <2>2, <2>3, <2>4
  <1> HIDE DEF r
  <1>4. IsList(r)
    BY <1>2, ListOf
  <1> QED
    BY <1>3, <1>4 DEF r

\* The bytes of a chunk go behind those the buffer holds.
LEMMA ChunkReads ==
    ASSUME NEW s, IsList(s), NEW p, Reads(p, s), NEW chunk, IsList(chunk), NEW m
    PROVE  Reads([p EXCEPT !.total = m, !.buffer = p.buffer \o chunk], s \o chunk)
  <1>1. PICK k \in 0..Len(s) : ReadTo(p, s, k)
    BY DEF Reads
  <1> DEFINE n == Len(s)
             b == p.buffer
             h == Len(chunk)
             t == s \o chunk
             c == b \o chunk
             r == [p EXCEPT !.total = m, !.buffer = c]
  <1>2. n \in Nat /\ h \in Nat /\ k \in 0..n /\ Len(b) = n - k
    BY <1>1, Listed DEF ReadTo
  <1>3. IsParser(p) /\ IsList(b) /\ (\A j \in 1..(n - k) : b[j] = s[k + j]) /\ Same(p, Upto(s)[k])
    BY <1>1 DEF ReadTo
  <1>4. /\ IsList(t) /\ Len(t) = n + h /\ (\A i \in 1..n : t[i] = s[i])
        /\ \A i \in 1..h : t[n + i] = chunk[i]
    BY Joined
  <1>5. /\ IsList(c) /\ Len(c) = Len(b) + h /\ (\A i \in 1..Len(b) : c[i] = b[i])
        /\ \A i \in 1..h : c[Len(b) + i] = chunk[i]
    BY <1>3, Joined
  <1>6. Upto(t)[k] = Upto(s)[k]
    <2>1. n <= n + h
      BY <1>2
    <2>2. Len(s) <= Len(t)
      BY <1>4, <2>1
    <2>3. \A i \in 1..Len(s) : t[i] = s[i]
      BY <1>4
    <2> HIDE DEF t
    <2> QED
      BY <1>4, <2>2, <2>3, UptoExtends
  <1>7. r = [p EXCEPT !.total = m, !.buffer = c]
    OBVIOUS
  <1> HIDE DEF n, b, h, t, c, r
  <1>p. p = [buffer |-> p.buffer, event_type |-> p.event_type, event_data |-> p.event_data,
             lines |-> p.lines, events |-> p.events, total |-> p.total,
             poisoned |-> p.poisoned, skip_lf_after_cr |-> p.skip_lf_after_cr]
    BY <1>3 DEF IsParser
  <1>8. /\ r = [buffer |-> r.buffer, event_type |-> r.event_type, event_data |-> r.event_data,
                lines |-> r.lines, events |-> r.events, total |-> r.total,
                poisoned |-> r.poisoned, skip_lf_after_cr |-> r.skip_lf_after_cr]
        /\ r.buffer = c /\ r.skip_lf_after_cr = p.skip_lf_after_cr
        /\ r.event_type = p.event_type /\ r.event_data = p.event_data
        /\ r.lines = p.lines /\ r.events = p.events
    BY <1>p, <1>7
  <1>9. IsParser(r) /\ Same(r, Upto(t)[k])
    <2>1. IsList(r.events)
      BY <1>3, <1>8 DEF IsParser
    <2>2. IsParser(r)
      BY <1>8, <2>1, Zenon DEF IsParser
    <2> QED
      BY <1>3, <1>6, <1>8, <2>2 DEF Same
  <1>10. Len(c) = (n + h) - k /\ \A j \in 1..((n + h) - k) : c[j] = t[k + j]
    <2>1. Len(c) = (n + h) - k
      BY <1>2, <1>5
    <2>2. ASSUME NEW j \in 1..((n + h) - k) PROVE c[j] = t[k + j]
      <3>1. CASE j <= n - k
        <4>1. j \in 1..(n - k) /\ j \in 1..Len(b) /\ k + j \in 1..n
          BY <1>2, <3>1
        <4> QED
          BY <1>3, <1>4, <1>5, <4>1
      <3>2. CASE ~(j <= n - k)
        <4>1. j - (n - k) \in 1..h /\ Len(b) + (j - (n - k)) = j /\ n + (j - (n - k)) = k + j
          BY <1>2, <3>2
        <4> QED
          BY <1>4, <1>5, <4>1
      <3> QED
        BY <3>1, <3>2
    <2> QED
      BY <2>1, <2>2
  <1>11. k > 0 => t[k] = s[k] /\ s[k] \in Ending
    <2>1. k > 0 => k \in 1..n
      BY <1>2
    <2> QED
      BY <1>1, <1>4, <2>1 DEF ReadTo
  <1>12. p.skip_lf_after_cr \in BOOLEAN /\ (p.skip_lf_after_cr => k > 0 /\ s[k] = "CR")
    BY <1>1 DEF ReadTo
  <1>13. ~p.skip_lf_after_cr => (k = 0 \/ t[k] # "CR" \/ (k + 1 \in 1..(n + h) /\ t[k + 1] # "LF"))
    <2>1. ~p.skip_lf_after_cr => (k = 0 \/ s[k] # "CR" \/ (k + 1 \in 1..n /\ s[k + 1] # "LF"))
      BY <1>1, Zenon DEF ReadTo, n
    <2>2. k = 0 \/ t[k] = s[k]
      BY <1>2, <1>11
    <2>3. k + 1 \in 1..n => k + 1 \in 1..(n + h) /\ t[k + 1] = s[k + 1]
      BY <1>2, <1>4
    <2> QED
      BY <2>1, <2>2, <2>3
  <1>14. ReadTo(r, t, k)
    <2>1. /\ Len(r.buffer) = Len(t) - k /\ \A j \in 1..(Len(t) - k) : r.buffer[j] = t[k + j]
      BY <1>4, <1>8, <1>10
    <2>2. IsList(r.buffer)
      BY <1>5, <1>8
    <2>3. ~r.skip_lf_after_cr => (k = 0 \/ t[k] # "CR" \/ (k + 1 \in 1..Len(t) /\ t[k + 1] # "LF"))
      BY <1>4, <1>8, <1>13
    <2>4. k > 0 => t[k] \in Ending
      BY <1>11
    <2>5. r.skip_lf_after_cr \in BOOLEAN /\ (r.skip_lf_after_cr => k > 0 /\ t[k] = "CR")
      BY <1>8, <1>11, <1>12
    <2> QED
      BY <1>9, <2>1, <2>2, <2>3, <2>4, <2>5, Zenon DEF ReadTo
  <1>15. k \in 0..Len(t)
    BY <1>2, <1>4
  <1>16. Reads(r, t)
    BY <1>14, <1>15 DEF Reads
  <1> QED
    BY <1>16 DEF r, t, c, b

LEMMA PushReads ==
    ASSUME NEW s, IsList(s), NEW p, Reads(p, s), NEW chunk, IsList(chunk), NEW stop
    PROVE  push_inner(p, chunk, stop).poisoned \/ Reads(push_inner(p, chunk, stop), s \o chunk)
  <1> DEFINE m == p.total + Len(chunk)
             q == [p EXCEPT !.total = m, !.buffer = p.buffer \o chunk]
             r == Poison([p EXCEPT !.total = q.total])
             d == Drain(q, stop, Len(p.events))
             o == push_inner(p, chunk, stop)
  <1>1. o = IF q.total > MaxTotal THEN r ELSE d
    BY DEF push_inner
  <1>2. r.poisoned
    <2>1. PICK k \in 0..Len(s) : ReadTo(p, s, k)
      BY DEF Reads
    <2>2. p = [buffer |-> p.buffer, event_type |-> p.event_type, event_data |-> p.event_data,
               lines |-> p.lines, events |-> p.events, total |-> p.total,
               poisoned |-> p.poisoned, skip_lf_after_cr |-> p.skip_lf_after_cr]
      BY <2>1 DEF ReadTo, IsParser
    <2> HIDE DEF q
    <2> QED
      BY <2>2 DEF Poison
  <1>3. Reads(q, s \o chunk)
    <2> HIDE DEF m
    <2> QED
      BY ChunkReads
  <1>4. IsList(s \o chunk)
    BY Joined
  <1> HIDE DEF q
  <1>5. Reads(d, s \o chunk)
    BY <1>3, <1>4, DrainReads
  <1> HIDE DEF r, d, o
  <1>6. o.poisoned \/ Reads(o, s \o chunk)
    BY <1>1, <1>2, <1>5
  <1> QED
    BY <1>6 DEF o

SseInv ==
    /\ IsList(stream) /\ sse_end \in {"open", "finished", "failed"}
    /\ sse_end # "failed" => Reads(sse, stream)
    /\ sse_end = "finished" => sse.buffer = <<>>

\* The empty stream has been read to its end.
LEMMA SseInitially == SseInit => SseInv
  <1> SUFFICES ASSUME SseInit PROVE SseInv
    OBVIOUS
  <1>1. sse = NewParser /\ stream = <<>> /\ sse_end = "open"
    BY DEF SseInit
  <1>2. IsList(stream) /\ Len(stream) = 0
    BY <1>1 DEF IsList
  <1>3. Upto(stream)[0] = NewParser
    BY <1>2, UptoSteps
  <1>4. IsParser(sse) /\ sse.buffer = <<>> /\ sse.skip_lf_after_cr = FALSE
    BY <1>1 DEF NewParser, IsParser, IsList
  <1>5. ReadTo(sse, stream, 0)
    <2>1. IsList(sse.buffer) /\ Len(sse.buffer) = Len(stream) - 0
      BY <1>2, <1>4 DEF IsList
    <2>2. \A j \in 1..(Len(stream) - 0) : sse.buffer[j] = stream[0 + j]
      BY <1>2
    <2>3. Same(sse, Upto(stream)[0])
      BY <1>1, <1>3 DEF Same
    <2>4. ~(0 > 0)
      OBVIOUS
    <2>5. sse.skip_lf_after_cr \in BOOLEAN /\ ~sse.skip_lf_after_cr
      BY <1>4, Zenon
    <2> QED
      BY <1>4, <2>1, <2>2, <2>3, <2>4, <2>5, Zenon DEF ReadTo
  <1>6. 0 \in 0..Len(stream)
    BY <1>2
  <1>7. Reads(sse, stream)
    BY <1>5, <1>6 DEF Reads
  <1> QED
    BY <1>1, <1>2, <1>7 DEF SseInv

LEMMA PushKeeps ==
    ASSUME SseInv, NEW c \in Chunks, NEW stop, Push(c, stop)
    PROVE  SseInv'
  <1>1. /\ sse_end = "open" /\ stream' = stream \o c /\ sse' = push_inner(sse, c, stop)
        /\ sse_end' = IF sse'.poisoned THEN "failed" ELSE "open"
    BY Zenon DEF Push
  <1>2. IsList(stream) /\ Reads(sse, stream)
    BY <1>1 DEF SseInv
  <1>3. IsList(c)
    <2>1. PICK n \in 1..MaxChunk : c \in [1..n -> Bytes]
      BY DEF Chunks
    <2>2. n \in Nat
      OBVIOUS
    <2>3. c \in Seq(Bytes)
      BY <2>1, <2>2, SeqDef
    <2> QED
      BY <2>3, ListOf
  <1>4. sse'.poisoned \/ Reads(sse', stream')
    BY <1>1, <1>2, <1>3, PushReads
  <1>5. IsList(stream')
    BY <1>1, <1>2, <1>3, Joined
  <1>6. IsList(stream)' /\ (sse'.poisoned \/ Reads(sse, stream)')
    BY <1>4, <1>5
  <1> QED
    BY <1>1, <1>6 DEF SseInv

LEMMA FinishKeeps ==
    ASSUME SseInv, FinishStream
    PROVE  SseInv'
  <1>1. /\ sse_end = "open" /\ stream' = stream /\ sse' = push_inner(sse, <<>>, FALSE)
        /\ sse_end' = IF sse'.poisoned \/ sse'.buffer # <<>> \/ sse'.event_type \/ sse'.lines # 0
                      THEN "failed" ELSE "finished"
    BY Zenon DEF FinishStream
  <1>2. IsList(stream) /\ Reads(sse, stream)
    BY <1>1 DEF SseInv
  <1> DEFINE no == <<>>
  <1>3. IsList(no)
    BY DEF IsList
  <1>4. stream \o no = stream
    <2> DEFINE S == {stream[i] : i \in DOMAIN stream}
    <2>1. stream \in Seq(S)
      BY <1>2 DEF IsList
    <2> HIDE DEF S
    <2> QED
      BY <2>1
  <1>5. sse' = push_inner(sse, no, FALSE)
    BY <1>1
  <1> HIDE DEF no
  <1>6. sse'.poisoned \/ Reads(sse', stream')
    BY <1>1, <1>2, <1>3, <1>4, <1>5, PushReads
  <1>7. sse'.poisoned \/ Reads(sse, stream)'
    BY <1>6
  <1> QED
    BY <1>1, <1>2, <1>7 DEF SseInv

LEMMA SseStep == SseInv /\ [SseNext]_sse_vars => SseInv'
  <1> SUFFICES ASSUME SseInv, [SseNext]_sse_vars PROVE SseInv'
    OBVIOUS
  <1>1. ASSUME NEW c \in Chunks, NEW stop \in BOOLEAN, Push(c, stop) PROVE SseInv'
    BY <1>1, PushKeeps
  <1>2. CASE FinishStream
    BY <1>2, FinishKeeps
  <1>3. CASE UNCHANGED sse_vars
    BY <1>3 DEF sse_vars, SseInv
  <1> QED
    BY <1>1, <1>2, <1>3 DEF SseNext

SseSpec == SseInit /\ [][SseNext]_sse_vars

\* What the parser of an event stream (SseParser, provider/sse.rs) has made of
\* the bytes it has read is what their lines make, and the bytes it has not
\* read are in its buffer, whether it was asked to stop or not, until it
\* refuses the stream.
THEOREM SseInvariant == SseSpec => []SseInv
  <1>1. SseInit => SseInv
    BY SseInitially
  <1>2. SseInv /\ [SseNext]_sse_vars => SseInv'
    BY SseStep
  <1> QED
    BY <1>1, <1>2, PTL DEF SseSpec

LEMMA SseInvSuffices == SseInv => EventsIgnoreChunking
  <1> SUFFICES ASSUME SseInv PROVE EventsIgnoreChunking
    OBVIOUS
  <1> DEFINE n == Len(stream)
  <1>1. ASSUME Reads(sse, stream), IsList(stream)
        PROVE  /\ IsPrefix(sse.events, EventsOf(stream))
               /\ sse.buffer = <<>> => sse.events = EventsOf(stream)
    <2>1. PICK k \in 0..n : ReadTo(sse, stream, k)
      BY <1>1 DEF Reads
    <2>2. sse.events = Upto(stream)[k].events /\ Len(sse.buffer) = n - k
      BY <2>1 DEF ReadTo, Same
    <2>3. IsPrefix(sse.events, EventsOf(stream))
      BY <1>1, <2>2, UptoGrows
    <2>4. EventsOf(stream) = Upto(stream)[n].events /\ n \in Nat
      BY <1>1, UptoSteps, Listed
    <2>5. sse.buffer = <<>> => k = n
      <3> HIDE DEF n
      <3> QED
        BY <2>1, <2>2, <2>4
    <2> QED
      BY <2>2, <2>3, <2>4, <2>5
  <1> QED
    BY <1>1 DEF SseInv, EventsIgnoreChunking

\* However a stream is cut into chunks, and wherever push_until_first_event
\* stops, what was decoded is a prefix of the events of the stream's lines,
\* and all of them once finish accepts the stream (sse.rs).
THEOREM EventsAreOfLines == SseSpec => []EventsIgnoreChunking
  <1>1. SseSpec => []SseInv
    BY SseInvariant
  <1>2. SseInv => EventsIgnoreChunking
    BY SseInvSuffices
  <1> QED
    BY <1>1, <1>2, PTL
=============================================================================
