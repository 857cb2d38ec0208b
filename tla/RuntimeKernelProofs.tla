------------------------ MODULE RuntimeKernelProofs ------------------------
(***************************************************************************)
(* Theorems about RuntimeKernel for every set of Agents, Configs and call   *)
(* identifiers and every length of the fallback chain: whatever is          *)
(* interleaved with a Turn, and wherever the process dies or a commit       *)
(* fails, the Ledger replays, every request is covered by a durable Usage   *)
(* Attempt, and prepared output is final.                                   *)
(***************************************************************************)
EXTENDS RuntimeKernel, SequenceTheorems, FiniteSetTheorems, TLAPS

Last(xs) == xs[Len(xs)]

\* A failure after which the Turn must not be tried again.
Late(a) == a.outcome = "Failed" /\ (a.stage \notin Early \/ a.kind = "continuation")
EarlyFailed(a) == a.outcome = "Failed" /\ a.stage \in Early

\* What holds of the Usage Attempts of every Turn.
AttemptsOK(xs) ==
    /\ xs # <<>> => xs[1].candidate = 0
    /\ \A k \in 1..Len(xs) - 1 : xs[k + 1].candidate # xs[k].candidate =>
          xs[k + 1].candidate = xs[k].candidate + 1 /\ EarlyFailed(xs[k])
    /\ \A k \in DOMAIN xs : Late(xs[k]) \/ xs[k].outcome = "open" => k = Len(xs)

\* The candidate to be tried next is the last one tried, or its successor right
\* after an early failure.
Follows(xs, candidate) ==
    /\ xs = <<>> => candidate = 0
    /\ xs # <<>> => \/ candidate = Last(xs).candidate
                    \/ candidate = Last(xs).candidate + 1 /\ EarlyFailed(Last(xs))

NoOpen(xs) == \A k \in DOMAIN xs : xs[k].outcome # "open"

TurnOK(u, acknowledged) ==
    /\ AttemptsOK(u.attempts)
    /\ u.ending = "completed" => u.delivery # 0 /\ u.delivery \in acknowledged
    /\ u.ending = "cancelled" => u.delivery = 0

\* The pending Turn u under the pending record p: a retryable block stands on
\* an early failure of an initial request to the pending candidate.
PendingOK(u, p) ==
    /\ u.ending = "none"
    /\ p.candidate <= u.chain /\ Follows(u.attempts, p.candidate)
    /\ p.phase = "Prepared" <=> u.delivery # 0
    /\ p.phase # "Admitted" => NoOpen(u.attempts)
    /\ p.phase = "Admitted" /\ u.attempts # <<>> => ~Late(Last(u.attempts))
    /\ p.phase = "Blocked" /\ p.origin = "Provider" /\ p.stage \in Early =>
          /\ u.attempts # <<>> /\ EarlyFailed(Last(u.attempts))
          /\ Last(u.attempts).kind = "initial" /\ Last(u.attempts).candidate = p.candidate

TurnsOK(s) ==
    \A t \in DOMAIN s.turns :
        /\ TurnOK(s.turns[t], s.acknowledged)
        /\ t # Len(s.turns) \/ s.pending.phase = "None" =>
              s.turns[t].ending # "none" /\ NoOpen(s.turns[t].attempts)

CurrentOK(s) ==
    s.pending.phase # "None" =>
        s.turns # <<>> /\ PendingOK(s.turns[Len(s.turns)], s.pending)

\* Items belong to Turns, an assistant Item to one with output; no Item is
\* there twice, and the user Item of a Turn still to be driven is the newest.
ItemsOK(s) ==
    /\ \A k \in DOMAIN s.items :
          /\ s.items[k].turn \in DOMAIN s.turns
          /\ s.items[k].role = "Assistant" => s.turns[s.items[k].turn].delivery # 0
    /\ \A k, m \in DOMAIN s.items : s.items[k] = s.items[m] => k = m
    /\ s.pending.phase \in {"Admitted", "Blocked"} =>
          s.items # <<>> /\ s.items[Len(s.items)] = [turn |-> Len(s.turns), role |-> "User"]

KernelOK(s) ==
    /\ s \in RuntimeState /\ Len(s.turns) <= MaxTurns
    /\ TurnsOK(s) /\ CurrentOK(s) /\ ItemsOK(s)

\* The Kernel thread waits for a Provider only with a durable open attempt of
\* the pending Turn, of the kind it is making.
StepOK ==
    /\ step.at = "provider" =>
          /\ mode = "open" /\ Drivable(step.turn)
          /\ Attempts(live) # <<>> /\ Last(Attempts(live)).outcome = "open"
          /\ Last(Attempts(live)).kind = step.kind
    /\ step.at = "tool" => step.call \in CallIds /\ step.who \in Agents

SentOK ==
    \A t \in 1..MaxTurns :
        /\ t \notin DOMAIN durable.turns => sent[t] = 0
        /\ t \in DOMAIN durable.turns => sent[t] <= Len(durable.turns[t].attempts)

KernelInv ==
    /\ TypeOK
    /\ KernelOK(live) /\ KernelOK(durable)
    /\ mode = "open" => live = durable
    /\ StepOK /\ SentOK

-----------------------------------------------------------------------------
(* Usage Attempts of one Turn.                                               *)

LEMMA Replaced ==
    ASSUME NEW S, NEW q \in Seq(S), NEW i \in DOMAIN q, NEW e \in S,
           NEW r, r = [q EXCEPT ![i] = e]
    PROVE  /\ r \in Seq(S) /\ Len(r) = Len(q) /\ DOMAIN r = DOMAIN q /\ r[i] = e
           /\ \A k \in DOMAIN q : k # i => r[k] = q[k]
  <1>1. Len(q) \in Nat /\ DOMAIN q = 1..Len(q) /\ \A k \in DOMAIN q : q[k] \in S
    OBVIOUS
  <1>2. r \in [1..Len(q) -> S] /\ DOMAIN r = 1..Len(q)
    BY <1>1
  <1>3. r \in Seq(S)
    BY <1>1, <1>2, SeqDef
  <1>4. Len(r) = Len(q)
    BY <1>1, <1>2, <1>3
  <1>5. QED
    BY <1>1, <1>2, <1>3, <1>4

LEMMA LastAttempt ==
    ASSUME NEW xs \in Seq(Attempt), xs # <<>>
    PROVE  /\ Len(xs) \in Nat /\ Len(xs) >= 1 /\ Len(xs) \in DOMAIN xs
           /\ DOMAIN xs = 1..Len(xs) /\ Last(xs) = xs[Len(xs)] /\ Last(xs) \in Attempt
  BY DEF Last

\* Finishing the open attempt with an outcome and a stage.
FinishedAttempts(xs, outcome, stage) ==
    [xs EXCEPT ![Len(xs)] = [xs[Len(xs)] EXCEPT !.outcome = outcome, !.stage = stage]]

LEMMA FinishAttempt ==
    ASSUME NEW xs \in Seq(Attempt), xs # <<>>, Last(xs).outcome = "open", AttemptsOK(xs),
           NEW c, Follows(xs, c), NEW o \in {"Succeeded", "Failed", "Interrupted"},
           NEW st \in Stages, NEW ys, ys = FinishedAttempts(xs, o, st)
    PROVE  /\ ys \in Seq(Attempt) /\ ys # <<>> /\ Len(ys) = Len(xs)
           /\ AttemptsOK(ys) /\ Follows(ys, c) /\ NoOpen(ys)
           /\ Last(ys).outcome = o /\ Last(ys).stage = st
           /\ Last(ys).kind = Last(xs).kind /\ Last(ys).candidate = c
  <1> DEFINE l == Len(xs)
             e == [xs[l] EXCEPT !.outcome = o, !.stage = st]
  <1>1. /\ l \in Nat /\ l >= 1 /\ l \in DOMAIN xs /\ DOMAIN xs = 1..l
        /\ Last(xs) = xs[l] /\ xs[l] \in Attempt
    BY LastAttempt
  <1>2. /\ e \in Attempt /\ e.outcome = o /\ e.stage = st /\ e.kind = xs[l].kind
        /\ e.candidate = xs[l].candidate
    BY <1>1 DEF Attempt
  <1>3. ys = [xs EXCEPT ![l] = e]
    BY DEF FinishedAttempts
  <1> HIDE DEF e, l
  <1>4. /\ ys \in Seq(Attempt) /\ Len(ys) = Len(xs) /\ DOMAIN ys = DOMAIN xs /\ ys[l] = e
        /\ \A k \in DOMAIN xs : k # l => ys[k] = xs[k]
    BY <1>1, <1>2, <1>3, Replaced
  <1>5. Len(ys) = l /\ ys # <<>> /\ Last(ys) = e
    BY <1>1, <1>4 DEF l, Last
  <1>6. c = xs[l].candidate
    BY <1>1 DEF Follows, EarlyFailed
  <1>7. \A k \in DOMAIN xs : xs[k].outcome = "open" \/ Late(xs[k]) => k = l
    BY DEF AttemptsOK, l
  <1>8. AttemptsOK(ys)
    <2>1. ys[1].candidate = 0
      <3>1. xs[1].candidate = 0 /\ 1 \in DOMAIN xs
        BY <1>1 DEF AttemptsOK
      <3>2. QED
        BY <1>1, <1>2, <1>4, <3>1
    <2>2. ASSUME NEW k \in 1..l - 1, ys[k + 1].candidate # ys[k].candidate
          PROVE  ys[k + 1].candidate = ys[k].candidate + 1 /\ EarlyFailed(ys[k])
      <3>1. k \in DOMAIN xs /\ k + 1 \in DOMAIN xs /\ k # l
        BY <1>1
      <3>2. ys[k] = xs[k] /\ ys[k + 1].candidate = xs[k + 1].candidate
        BY <1>2, <1>4, <3>1
      <3>3. QED
        BY <2>2, <3>2 DEF AttemptsOK, l
    <2>3. ASSUME NEW k \in DOMAIN ys, Late(ys[k]) \/ ys[k].outcome = "open"
          PROVE  k = l
      BY <1>4, <1>7, <2>3
    <2>4. QED
      BY <1>5, <2>1, <2>2, <2>3 DEF AttemptsOK
  <1>9. NoOpen(ys)
    BY <1>2, <1>4, <1>7 DEF NoOpen
  <1>10. Follows(ys, c)
    BY <1>2, <1>5, <1>6 DEF Follows
  <1>11. QED
    BY <1>1, <1>2, <1>4, <1>5, <1>6, <1>8, <1>9, <1>10

\* Starting an attempt of the pending candidate.
Kinds == {"initial", "continuation"}
Candidates == 0..MaxChain
NewAttempt(c, kind) == [candidate |-> c, kind |-> kind, outcome |-> "open", stage |-> "none"]

StartedAttempts(xs, c, kind) == Append(xs, NewAttempt(c, kind))

LEMMA StartAttempt ==
    ASSUME NEW xs \in Seq(Attempt), AttemptsOK(xs), NEW c \in Candidates, Follows(xs, c),
           NoOpen(xs), xs # <<>> => ~Late(Last(xs)), NEW kind \in Kinds,
           NEW ys, ys = StartedAttempts(xs, c, kind)
    PROVE  /\ ys \in Seq(Attempt) /\ ys # <<>> /\ Len(ys) = Len(xs) + 1
           /\ AttemptsOK(ys) /\ Follows(ys, c) /\ ~Late(Last(ys))
           /\ Last(ys).outcome = "open" /\ Last(ys).kind = kind
  <1> DEFINE l == Len(xs)
             e == NewAttempt(c, kind)
  <1>1. l \in Nat /\ DOMAIN xs = 1..l
    OBVIOUS
  <1>2. e \in Attempt /\ e.candidate = c /\ e.outcome = "open" /\ e.kind = kind
    BY DEF NewAttempt, Attempt, Stages, Kinds, Candidates
  <1> HIDE DEF e
  <1>3. /\ ys \in Seq(Attempt) /\ Len(ys) = l + 1 /\ DOMAIN ys = 1..(l + 1)
        /\ ys[l + 1] = e /\ \A k \in 1..l : ys[k] = xs[k]
    BY <1>1, <1>2 DEF e, StartedAttempts
  <1> HIDE DEF l
  <1>4. ys # <<>> /\ Last(ys) = e
    BY <1>1, <1>3 DEF Last
  <1>5. xs # <<>> => l >= 1 /\ Last(xs) = xs[l]
    BY <1>1 DEF l, Last
  <1>6. xs = <<>> => l = 0
    BY DEF l
  <1>7. AttemptsOK(ys)
    <2>1. ys[1].candidate = 0
      <3>1. CASE xs = <<>>
        BY <1>2, <1>3, <1>6, <3>1 DEF Follows
      <3>2. CASE xs # <<>>
        <4>1. xs[1].candidate = 0 /\ 1 \in 1..l
          BY <1>1, <1>5, <3>2 DEF AttemptsOK
        <4>2. QED
          BY <1>3, <4>1
      <3>3. QED
        BY <3>1, <3>2
    <2>2. ASSUME NEW k \in 1..l, ys[k + 1].candidate # ys[k].candidate
          PROVE  ys[k + 1].candidate = ys[k].candidate + 1 /\ EarlyFailed(ys[k])
      <3>1. CASE k = l
        <4>1. xs # <<>>
          BY <1>1, <1>6
        <4>2. ys[k] = Last(xs) /\ ys[k + 1] = e
          BY <1>3, <1>5, <3>1, <4>1
        <4>3. QED
          BY <1>2, <2>2, <4>1, <4>2 DEF Follows
      <3>2. CASE k # l
        <4>1. k \in 1..l - 1 /\ k + 1 \in 1..l
          BY <1>1, <3>2
        <4>2. ys[k] = xs[k] /\ ys[k + 1] = xs[k + 1]
          BY <1>3, <4>1
        <4>3. QED
          BY <2>2, <4>1, <4>2 DEF AttemptsOK, l
      <3>3. QED
        BY <3>1, <3>2
    <2>3. ASSUME NEW k \in 1..(l + 1), Late(ys[k]) \/ ys[k].outcome = "open"
          PROVE  k = l + 1
      <3>1. SUFFICES ASSUME k \in 1..l PROVE FALSE
        BY <1>1
      <3>2. ys[k] = xs[k] /\ k \in DOMAIN xs
        BY <1>1, <1>3, <3>1
      <3>3. xs[k].outcome # "open"
        BY <3>2 DEF NoOpen
      <3>4. Late(xs[k]) /\ k = Len(xs)
        BY <2>3, <3>2, <3>3 DEF AttemptsOK
      <3>5. xs # <<>> /\ xs[k] = Last(xs)
        BY <1>1, <1>5, <1>6, <3>1, <3>4 DEF l
      <3>6. QED
        BY <3>4, <3>5
    <2>4. (l + 1) - 1 = l
      BY <1>1
    <2>5. QED
      BY <1>3, <2>1, <2>2, <2>3, <2>4 DEF AttemptsOK
  <1>8. Follows(ys, c)
    BY <1>2, <1>4 DEF Follows
  <1>9. ~Late(Last(ys))
    BY <1>2, <1>4 DEF Late
  <1>10. QED
    BY <1>2, <1>3, <1>4, <1>7, <1>8, <1>9 DEF l

-----------------------------------------------------------------------------
(* Transactions that change the pending Turn only.                           *)

\* n has the Turns of s, the last of them replaced by u.
Changed(s, n, u) ==
    /\ Len(n.turns) = Len(s.turns) /\ DOMAIN n.turns = DOMAIN s.turns
    /\ n.turns[Len(s.turns)] = u
    /\ \A t \in DOMAIN s.turns : t # Len(s.turns) => n.turns[t] = s.turns[t]

LEMMA PendingFacts ==
    ASSUME NEW s, KernelOK(s), s.pending.phase # "None"
    PROVE  /\ s \in RuntimeState /\ Len(s.turns) \in Nat /\ Len(s.turns) >= 1
           /\ DOMAIN s.turns = 1..Len(s.turns) /\ Len(s.turns) \in DOMAIN s.turns
           /\ s.turns[Len(s.turns)] \in Turn /\ s.pending \in Pending
           /\ TurnOK(s.turns[Len(s.turns)], s.acknowledged)
           /\ PendingOK(s.turns[Len(s.turns)], s.pending)
  <1>1. s \in RuntimeState /\ s.turns \in Seq(Turn) /\ s.pending \in Pending
    BY DEF KernelOK, RuntimeState
  <1>2. s.turns # <<>> /\ PendingOK(s.turns[Len(s.turns)], s.pending)
    BY DEF KernelOK, CurrentOK
  <1>3. Len(s.turns) \in Nat /\ Len(s.turns) >= 1 /\ DOMAIN s.turns = 1..Len(s.turns)
    BY <1>1, <1>2
  <1>4. Len(s.turns) \in DOMAIN s.turns /\ s.turns[Len(s.turns)] \in Turn
    BY <1>1, <1>3
  <1>5. TurnOK(s.turns[Len(s.turns)], s.acknowledged)
    BY <1>4 DEF KernelOK, TurnsOK
  <1>6. QED
    BY <1>1, <1>2, <1>3, <1>4, <1>5

LEMMA CurrentTurnOK ==
    ASSUME NEW s, KernelOK(s), s.pending.phase # "None", NEW n \in RuntimeState, NEW u,
           Changed(s, n, u), s.acknowledged \subseteq n.acknowledged,
           TurnOK(u, n.acknowledged),
           n.pending.phase = "None" => u.ending # "none" /\ NoOpen(u.attempts),
           n.pending.phase # "None" => PendingOK(u, n.pending),
           \/ /\ n.items = s.items
              /\ s.turns[Len(s.turns)].delivery # 0 => u.delivery # 0
              /\ n.pending.phase \in {"Admitted", "Blocked"} =>
                    s.pending.phase \in {"Admitted", "Blocked"}
           \/ /\ n.items = Append(s.items, [turn |-> Len(s.turns), role |-> "Assistant"])
              /\ s.pending.phase # "Prepared" /\ n.pending.phase = "Prepared"
    PROVE  KernelOK(n)
  <1> DEFINE l == Len(s.turns)
  <1>1. /\ s \in RuntimeState /\ l \in Nat /\ l >= 1 /\ DOMAIN s.turns = 1..l
        /\ l \in DOMAIN s.turns /\ PendingOK(s.turns[l], s.pending)
    BY PendingFacts
  <1>2. /\ Len(n.turns) = l /\ DOMAIN n.turns = DOMAIN s.turns /\ n.turns[l] = u
        /\ \A t \in DOMAIN s.turns : t # l => n.turns[t] = s.turns[t]
    BY DEF Changed
  <1>3. /\ TurnsOK(s) /\ ItemsOK(s) /\ l <= MaxTurns /\ s.items \in Seq(Item)
    BY <1>1 DEF KernelOK, RuntimeState
  <1> HIDE DEF l
  <1>4. TurnsOK(n)
    <2> SUFFICES ASSUME NEW t \in DOMAIN n.turns
                 PROVE  /\ TurnOK(n.turns[t], n.acknowledged)
                        /\ t # Len(n.turns) \/ n.pending.phase = "None" =>
                              n.turns[t].ending # "none" /\ NoOpen(n.turns[t].attempts)
      BY DEF TurnsOK
    <2>1. CASE t = l
      BY <1>2, <2>1
    <2>2. CASE t # l
      <3>1. n.turns[t] = s.turns[t] /\ t \in DOMAIN s.turns
        BY <1>2, <2>2
      <3>2. /\ TurnOK(s.turns[t], s.acknowledged)
            /\ s.turns[t].ending # "none" /\ NoOpen(s.turns[t].attempts)
        BY <1>3, <2>2, <3>1 DEF TurnsOK, l
      <3>3. TurnOK(s.turns[t], n.acknowledged)
        BY <3>2 DEF TurnOK
      <3>4. QED
        BY <3>1, <3>2, <3>3
    <2>3. QED
      BY <2>1, <2>2
  <1>5. CurrentOK(n)
    <2>1. n.turns # <<>>
      BY <1>1, <1>2
    <2>2. QED
      BY <1>2, <2>1 DEF CurrentOK
  <1>6. ASSUME NEW t \in DOMAIN s.turns, s.turns[t].delivery # 0
        PROVE  n.turns[t].delivery # 0
    <2>1. CASE t # l
      BY <1>2, <1>6, <2>1
    <2>2. CASE t = l
      <3>1. u.delivery # 0
        <4>1. CASE n.pending.phase = "Prepared"
          BY <4>1 DEF PendingOK
        <4>2. CASE n.pending.phase # "Prepared"
          BY <1>6, <2>2, <4>2 DEF l
        <4>3. QED
          BY <4>1, <4>2
      <3>2. QED
        BY <1>2, <2>2, <3>1
    <2>3. QED
      BY <2>1, <2>2
  <1>7. ItemsOK(n)
    <2>1. CASE /\ n.items = s.items
               /\ n.pending.phase \in {"Admitted", "Blocked"} =>
                     s.pending.phase \in {"Admitted", "Blocked"}
      <3>1. \A k \in DOMAIN n.items :
              /\ n.items[k].turn \in DOMAIN n.turns
              /\ n.items[k].role = "Assistant" => n.turns[n.items[k].turn].delivery # 0
        BY <1>2, <1>3, <1>6, <2>1 DEF ItemsOK
      <3>2. \A k, m \in DOMAIN n.items : n.items[k] = n.items[m] => k = m
        BY <1>3, <2>1 DEF ItemsOK
      <3>3. n.pending.phase \in {"Admitted", "Blocked"} =>
              n.items # <<>> /\ n.items[Len(n.items)] = [turn |-> Len(n.turns), role |-> "User"]
        BY <1>2, <1>3, <2>1 DEF ItemsOK, l
      <3>4. QED
        BY <3>1, <3>2, <3>3 DEF ItemsOK
    <2>2. CASE /\ n.items = Append(s.items, [turn |-> Len(s.turns), role |-> "Assistant"])
               /\ s.pending.phase # "Prepared" /\ n.pending.phase = "Prepared"
      <3> DEFINE i == [turn |-> l, role |-> "Assistant"]
                 q == Len(s.items)
      <3>1. q \in Nat /\ DOMAIN s.items = 1..q
        BY <1>3
      <3>2. i \in Item /\ i.turn = l /\ i.role = "Assistant"
        BY <1>1 DEF Item
      <3>3. n.items = Append(s.items, i)
        BY <2>2 DEF l
      <3> HIDE DEF i
      <3>4. /\ DOMAIN n.items = 1..(q + 1) /\ n.items[q + 1] = i
            /\ \A k \in 1..q : n.items[k] = s.items[k]
        BY <1>3, <3>1, <3>2, <3>3
      <3> HIDE DEF q
      <3>5. s.turns[l].delivery = 0 /\ u.delivery # 0
        BY <1>1, <2>2 DEF PendingOK
      <3>6. \A k \in 1..q : s.items[k] # i
        BY <1>3, <3>1, <3>2, <3>5 DEF ItemsOK
      <3>7. ASSUME NEW k \in 1..(q + 1)
            PROVE  /\ n.items[k].turn \in DOMAIN n.turns
                   /\ n.items[k].role = "Assistant" => n.turns[n.items[k].turn].delivery # 0
        <4>1. CASE k = q + 1
          BY <1>1, <1>2, <3>2, <3>4, <3>5, <4>1
        <4>2. CASE k # q + 1
          <5>1. k \in 1..q
            BY <3>1, <4>2
          <5>2. /\ s.items[k].turn \in DOMAIN s.turns
                /\ s.items[k].role = "Assistant" => s.turns[s.items[k].turn].delivery # 0
            BY <1>3, <3>1, <5>1 DEF ItemsOK
          <5>3. QED
            BY <1>2, <1>6, <3>4, <5>1, <5>2
        <4>3. QED
          BY <4>1, <4>2
      <3>8. ASSUME NEW k \in 1..(q + 1), NEW m \in 1..(q + 1), n.items[k] = n.items[m]
            PROVE  k = m
        <4>1. \A x \in 1..(q + 1) : x \in 1..q \/ x = q + 1
          BY <3>1
        <4>2. \A x, y \in 1..q : s.items[x] = s.items[y] => x = y
          BY <1>3, <3>1 DEF ItemsOK
        <4>3. QED
          BY <3>4, <3>6, <3>8, <4>1, <4>2
      <3>9. QED
        BY <2>2, <3>4, <3>7, <3>8 DEF ItemsOK
    <2>3. QED
      BY <2>1, <2>2
  <1>8. QED
    BY <1>2, <1>3, <1>4, <1>5, <1>7 DEF KernelOK

-----------------------------------------------------------------------------
(* What each event does, field by field.                                     *)

\* A later Ledger keeps the Turns of an earlier one: attempts are only added,
\* none to a Turn with output, and a staged selection is given up only to its
\* own Turn or to another selection of its Agent.
Succeeds(s, n) ==
    /\ \A t \in DOMAIN s.turns :
          /\ t \in DOMAIN n.turns
          /\ Len(s.turns[t].attempts) <= Len(n.turns[t].attempts)
          /\ s.turns[t].delivery # 0 => /\ n.turns[t].delivery = s.turns[t].delivery
                                        /\ n.turns[t].attempts = s.turns[t].attempts
    /\ \A q \in s.staged : q \notin n.staged =>
          \/ \E r \in n.staged : r.agent = q.agent
          \/ /\ Len(n.turns) = Len(s.turns) + 1
             /\ n.turns[Len(n.turns)].agent = q.agent
             /\ n.turns[Len(n.turns)].config = q.config

LEMMA TurnFields ==
    ASSUME NEW s \in RuntimeState, NEW t \in DOMAIN s.turns
    PROVE  /\ s.turns[t] \in Turn /\ s.turns[t].attempts \in Seq(Attempt)
           /\ Len(s.turns[t].attempts) \in Nat /\ s.turns[t].delivery \in Nat
  <1>1. s.turns[t] \in Turn
    BY DEF RuntimeState
  <1>2. s.turns[t].attempts \in Seq(Attempt) /\ s.turns[t].delivery \in Nat
    BY <1>1 DEF Turn
  <1>3. QED
    BY <1>1, <1>2

LEMMA SucceedsItself ==
    ASSUME NEW s \in RuntimeState
    PROVE  Succeeds(s, s)
  BY TurnFields DEF Succeeds

\* A transaction that leaves Turns and staged selection alone.
LEMMA SucceedsSame ==
    ASSUME NEW s \in RuntimeState, NEW n, n.turns = s.turns, n.staged = s.staged
    PROVE  Succeeds(s, n)
  BY TurnFields DEF Succeeds

LEMMA SucceedsChanged ==
    ASSUME NEW s \in RuntimeState, NEW n, NEW u, Changed(s, n, u), n.staged = s.staged,
           Len(s.turns) \in DOMAIN s.turns,
           Len(s.turns[Len(s.turns)].attempts) <= Len(u.attempts),
           s.turns[Len(s.turns)].delivery # 0 =>
              /\ u.delivery = s.turns[Len(s.turns)].delivery
              /\ u.attempts = s.turns[Len(s.turns)].attempts
    PROVE  Succeeds(s, n)
  <1>1. ASSUME NEW t \in DOMAIN s.turns
        PROVE  /\ t \in DOMAIN n.turns
               /\ Len(s.turns[t].attempts) <= Len(n.turns[t].attempts)
               /\ s.turns[t].delivery # 0 => /\ n.turns[t].delivery = s.turns[t].delivery
                                             /\ n.turns[t].attempts = s.turns[t].attempts
    <2>1. CASE t = Len(s.turns)
      BY <2>1 DEF Changed
    <2>2. CASE t # Len(s.turns)
      BY <2>2, TurnFields DEF Changed
    <2>3. QED
      BY <2>1, <2>2
  <1>2. QED
    BY <1>1 DEF Succeeds

\* Every field but the named ones is kept.
KeepsRest(s, n) ==
    n.staged = s.staged /\ n.checkpoint = s.checkpoint /\ n.head = s.head

LEMMA StateFields ==
    ASSUME NEW s \in RuntimeState
    PROVE  /\ s.turns \in Seq(Turn) /\ s.pending \in Pending /\ s.items \in Seq(Item)
           /\ s.acknowledged \in SUBSET Nat /\ s.staged \in SUBSET [agent : Agents, config : Configs]
           /\ s.checkpoint \in SUBSET [source : Nat, at : Nat] /\ s.head \in Nat
  BY DEF RuntimeState

\* The state s with xs as the attempts of its last Turn.
WithAttempts(s, xs) == [s EXCEPT !.turns[Len(s.turns)].attempts = xs]

LEMMA WithAttemptsFields ==
    ASSUME NEW s \in RuntimeState, Len(s.turns) \in DOMAIN s.turns, NEW xs \in Seq(Attempt),
           NEW n, n = WithAttempts(s, xs)
    PROVE  /\ n \in RuntimeState /\ KeepsRest(s, n)
           /\ n.pending = s.pending /\ n.items = s.items /\ n.acknowledged = s.acknowledged
           /\ Changed(s, n, n.turns[Len(s.turns)])
           /\ n.turns[Len(s.turns)].attempts = xs
           /\ n.turns[Len(s.turns)].delivery = s.turns[Len(s.turns)].delivery
           /\ n.turns[Len(s.turns)].ending = s.turns[Len(s.turns)].ending
           /\ n.turns[Len(s.turns)].chain = s.turns[Len(s.turns)].chain
           /\ n.turns[Len(s.turns)] \in Turn
  <1> DEFINE l == Len(s.turns)
             u == [s.turns[l] EXCEPT !.attempts = xs]
             r == [s.turns EXCEPT ![l] = u]
  <1>1. s.turns \in Seq(Turn) /\ s.turns[l] \in Turn
    BY StateFields, TurnFields
  <1>2. /\ u \in Turn /\ u.attempts = xs /\ u.delivery = s.turns[l].delivery
        /\ u.ending = s.turns[l].ending /\ u.chain = s.turns[l].chain
    BY <1>1 DEF Turn
  <1>3. n = [s EXCEPT !.turns = r]
    BY Zenon DEF WithAttempts
  <1> HIDE DEF u
  <1>4. /\ r \in Seq(Turn) /\ Len(r) = l /\ DOMAIN r = DOMAIN s.turns /\ r[l] = u
        /\ \A k \in DOMAIN s.turns : k # l => r[k] = s.turns[k]
    BY <1>1, <1>2, Replaced
  <1> HIDE DEF r
  <1>5. /\ n = [turns |-> r, pending |-> s.pending, items |-> s.items,
                acknowledged |-> s.acknowledged, staged |-> s.staged,
                checkpoint |-> s.checkpoint, head |-> s.head]
    BY <1>3 DEF RuntimeState
  <1>6. n \in RuntimeState
    <2>1. /\ s.turns \in Seq(Turn) /\ s.pending \in Pending /\ s.items \in Seq(Item)
          /\ s.acknowledged \in SUBSET Nat
          /\ s.staged \in SUBSET [agent : Agents, config : Configs]
          /\ s.checkpoint \in SUBSET [source : Nat, at : Nat] /\ s.head \in Nat
      BY StateFields
    <2>2. QED
      BY <1>4, <1>5, <2>1 DEF RuntimeState
  <1>7. /\ n.turns = r /\ KeepsRest(s, n)
        /\ n.pending = s.pending /\ n.items = s.items /\ n.acknowledged = s.acknowledged
    BY <1>5 DEF KeepsRest
  <1>8. QED
    BY <1>2, <1>4, <1>6, <1>7 DEF Changed

\* UsageAttemptFinished.
LEMMA ClosedIs ==
    ASSUME NEW s, NEW o, NEW st
    PROVE  Closed(s, o, st) =
             WithAttempts(s, FinishedAttempts(s.turns[Len(s.turns)].attempts, o, st))
  BY Zenon DEF Closed, WithAttempts, FinishedAttempts, Attempts, Current

\* A state that differs from s in what is pending only.
Origins == {"Provider", "Other"}

LEMMA BlockedFields ==
    ASSUME NEW s \in RuntimeState, NEW o \in Origins, NEW st \in Stages,
           NEW n, n = Blocked(s, o, st)
    PROVE  /\ n \in RuntimeState /\ KeepsRest(s, n) /\ n.turns = s.turns
           /\ n.items = s.items /\ n.acknowledged = s.acknowledged
           /\ n.pending.phase = "Blocked" /\ n.pending.candidate = s.pending.candidate
           /\ n.pending.origin = o /\ n.pending.stage = st
  <1> DEFINE p == [s.pending EXCEPT !.phase = "Blocked", !.origin = o, !.stage = st]
  <1>1. /\ p \in Pending /\ p.phase = "Blocked" /\ p.candidate = s.pending.candidate
        /\ p.origin = o /\ p.stage = st
    BY StateFields DEF Pending, Origins
  <1>2. n = [s EXCEPT !.pending = p]
    BY Zenon DEF Blocked
  <1> HIDE DEF p
  <1>3. n = [turns |-> s.turns, pending |-> p, items |-> s.items,
             acknowledged |-> s.acknowledged, staged |-> s.staged,
             checkpoint |-> s.checkpoint, head |-> s.head]
    BY <1>2 DEF RuntimeState
  <1>4. n \in RuntimeState
    <2>1. /\ s.turns \in Seq(Turn) /\ s.pending \in Pending /\ s.items \in Seq(Item)
          /\ s.acknowledged \in SUBSET Nat
          /\ s.staged \in SUBSET [agent : Agents, config : Configs]
          /\ s.checkpoint \in SUBSET [source : Nat, at : Nat] /\ s.head \in Nat
      BY StateFields
    <2>2. QED
      BY <1>1, <1>3, <2>1 DEF RuntimeState
  <1>5. QED
    BY <1>1, <1>3, <1>4 DEF KeepsRest

LEMMA RearmedFields ==
    ASSUME NEW s \in RuntimeState, NEW n, n = Rearmed(s)
    PROVE  /\ n \in RuntimeState /\ KeepsRest(s, n) /\ n.turns = s.turns
           /\ n.items = s.items /\ n.acknowledged = s.acknowledged
           /\ n.pending.phase = "Admitted" /\ n.pending.candidate = s.pending.candidate
  <1> DEFINE p == [NoPending EXCEPT !.phase = "Admitted", !.candidate = s.pending.candidate]
  <1>1. p \in Pending /\ p.phase = "Admitted" /\ p.candidate = s.pending.candidate
    BY StateFields DEF Pending, NoPending, Stages
  <1>2. n = [s EXCEPT !.pending = p]
    BY Zenon DEF Rearmed
  <1> HIDE DEF p
  <1>3. n = [turns |-> s.turns, pending |-> p, items |-> s.items,
             acknowledged |-> s.acknowledged, staged |-> s.staged,
             checkpoint |-> s.checkpoint, head |-> s.head]
    BY <1>2 DEF RuntimeState
  <1>4. n \in RuntimeState
    <2>1. /\ s.turns \in Seq(Turn) /\ s.pending \in Pending /\ s.items \in Seq(Item)
          /\ s.acknowledged \in SUBSET Nat
          /\ s.staged \in SUBSET [agent : Agents, config : Configs]
          /\ s.checkpoint \in SUBSET [source : Nat, at : Nat] /\ s.head \in Nat
      BY StateFields
    <2>2. QED
      BY <1>1, <1>3, <2>1 DEF RuntimeState
  <1>5. QED
    BY <1>1, <1>3, <1>4 DEF KeepsRest

LEMMA AdvancedFields ==
    ASSUME NEW s \in RuntimeState, s.pending.candidate + 1 <= MaxChain, NEW n, n = Advanced(s)
    PROVE  /\ n \in RuntimeState /\ KeepsRest(s, n) /\ n.turns = s.turns
           /\ n.items = s.items /\ n.acknowledged = s.acknowledged
           /\ n.pending.phase = "Admitted" /\ n.pending.candidate = s.pending.candidate + 1
  <1> DEFINE m == Rearmed(s)
             p == [m.pending EXCEPT !.candidate = m.pending.candidate + 1]
  <1>1. /\ m \in RuntimeState /\ KeepsRest(s, m) /\ m.turns = s.turns
        /\ m.items = s.items /\ m.acknowledged = s.acknowledged
        /\ m.pending.phase = "Admitted" /\ m.pending.candidate = s.pending.candidate
    BY RearmedFields
  <1>2. n = [m EXCEPT !.pending = p]
    BY Zenon DEF Advanced
  <1> HIDE DEF m
  <1>3. p \in Pending /\ p.phase = "Admitted" /\ p.candidate = s.pending.candidate + 1
    <2>1. m.pending \in Pending /\ s.pending \in Pending
      BY <1>1, StateFields
    <2>2. s.pending.candidate + 1 \in 0..MaxChain
      BY <2>1, ChainAssumption DEF Pending
    <2>3. QED
      BY <1>1, <2>1, <2>2 DEF Pending
  <1> HIDE DEF p
  <1>4. n = [turns |-> m.turns, pending |-> p, items |-> m.items,
             acknowledged |-> m.acknowledged, staged |-> m.staged,
             checkpoint |-> m.checkpoint, head |-> m.head]
    BY <1>1, <1>2 DEF RuntimeState
  <1>5. n \in RuntimeState
    <2>1. /\ m.turns \in Seq(Turn) /\ m.pending \in Pending /\ m.items \in Seq(Item)
          /\ m.acknowledged \in SUBSET Nat
          /\ m.staged \in SUBSET [agent : Agents, config : Configs]
          /\ m.checkpoint \in SUBSET [source : Nat, at : Nat] /\ m.head \in Nat
      BY <1>1, StateFields
    <2>2. QED
      BY <1>1, <1>3, <1>4, <2>1 DEF RuntimeState
  <1>6. QED
    BY <1>1, <1>3, <1>4, <1>5 DEF KeepsRest

LEMMA DeliveriesType ==
    ASSUME NEW s \in RuntimeState
    PROVE  Deliveries(s) \in Nat
  <1>1. Len(s.turns) \in Nat /\ DOMAIN s.turns = 1..Len(s.turns)
    BY StateFields
  <1>2. IsFiniteSet(DOMAIN s.turns)
    BY <1>1, FS_Interval
  <1>3. IsFiniteSet({t \in DOMAIN s.turns : s.turns[t].delivery # 0})
    BY <1>2, FS_Subset
  <1>4. QED
    BY <1>3, FS_CardinalityType DEF Deliveries

\* OutputPrepared.
LEMMA PreparedFields ==
    ASSUME NEW s \in RuntimeState, Len(s.turns) \in DOMAIN s.turns, NEW n, n = Prepared(s)
    PROVE  /\ n \in RuntimeState /\ KeepsRest(s, n) /\ n.acknowledged = s.acknowledged
           /\ n.items = Append(s.items, [turn |-> Len(s.turns), role |-> "Assistant"])
           /\ n.pending.phase = "Prepared" /\ n.pending.candidate = s.pending.candidate
           /\ Changed(s, n, n.turns[Len(s.turns)])
           /\ n.turns[Len(s.turns)].attempts = s.turns[Len(s.turns)].attempts
           /\ n.turns[Len(s.turns)].delivery # 0
           /\ n.turns[Len(s.turns)].ending = s.turns[Len(s.turns)].ending
           /\ n.turns[Len(s.turns)].chain = s.turns[Len(s.turns)].chain
  <1> DEFINE l == Len(s.turns)
             u == [s.turns[l] EXCEPT !.delivery = Deliveries(s) + 1]
             r == [s.turns EXCEPT ![l] = u]
             p == [s.pending EXCEPT !.phase = "Prepared"]
             i == [turn |-> l, role |-> "Assistant"]
  <1>1. s.turns \in Seq(Turn) /\ s.turns[l] \in Turn /\ l \in Nat
    BY StateFields, TurnFields
  <1>2. /\ u \in Turn /\ u.attempts = s.turns[l].attempts /\ u.delivery # 0
        /\ u.ending = s.turns[l].ending /\ u.chain = s.turns[l].chain
    <2>1. Deliveries(s) + 1 \in Nat /\ Deliveries(s) + 1 # 0
      BY DeliveriesType
    <2>2. QED
      BY <1>1, <2>1 DEF Turn
  <1>3. p \in Pending /\ p.phase = "Prepared" /\ p.candidate = s.pending.candidate
    BY StateFields DEF Pending
  <1>4. i \in Item
    BY <1>1 DEF Item
  <1>5. n = [s EXCEPT !.pending = p, !.items = Append(s.items, i), !.turns = r]
    BY DEF Prepared, Current, RuntimeState
  <1> HIDE DEF u, p, i
  <1>6. /\ r \in Seq(Turn) /\ Len(r) = l /\ DOMAIN r = DOMAIN s.turns /\ r[l] = u
        /\ \A k \in DOMAIN s.turns : k # l => r[k] = s.turns[k]
    BY <1>1, <1>2, Replaced
  <1> HIDE DEF r
  <1>7. n = [turns |-> r, pending |-> p, items |-> Append(s.items, i),
             acknowledged |-> s.acknowledged, staged |-> s.staged,
             checkpoint |-> s.checkpoint, head |-> s.head]
    BY <1>5 DEF RuntimeState
  <1>8. n \in RuntimeState
    <2>1. /\ s.turns \in Seq(Turn) /\ s.pending \in Pending /\ s.items \in Seq(Item)
          /\ s.acknowledged \in SUBSET Nat
          /\ s.staged \in SUBSET [agent : Agents, config : Configs]
          /\ s.checkpoint \in SUBSET [source : Nat, at : Nat] /\ s.head \in Nat
      BY StateFields
    <2>2. Append(s.items, i) \in Seq(Item)
      BY <1>4, <2>1
    <2>3. QED
      BY <1>3, <1>6, <1>7, <2>1, <2>2 DEF RuntimeState
  <1>9. /\ n.turns = r /\ KeepsRest(s, n) /\ n.acknowledged = s.acknowledged
        /\ n.pending = p /\ n.items = Append(s.items, i)
    BY <1>7 DEF KeepsRest
  <1>10. QED
    BY <1>2, <1>3, <1>6, <1>8, <1>9 DEF Changed, i

\* TurnCancelled, and OutputAcknowledged with TurnCompleted: the Turn ends.
EndedTurn(s, ending, ac) ==
    [s EXCEPT !.acknowledged = ac, !.turns[Len(s.turns)].ending = ending, !.pending = NoPending]

LEMMA EndedFields ==
    ASSUME NEW s \in RuntimeState, Len(s.turns) \in DOMAIN s.turns,
           NEW ending \in {"completed", "cancelled"}, NEW ac \in SUBSET Nat,
           NEW n, n = EndedTurn(s, ending, ac)
    PROVE  /\ n \in RuntimeState /\ KeepsRest(s, n) /\ n.acknowledged = ac
           /\ n.items = s.items /\ n.pending.phase = "None"
           /\ Changed(s, n, n.turns[Len(s.turns)])
           /\ n.turns[Len(s.turns)].attempts = s.turns[Len(s.turns)].attempts
           /\ n.turns[Len(s.turns)].delivery = s.turns[Len(s.turns)].delivery
           /\ n.turns[Len(s.turns)].ending = ending
  <1> DEFINE l == Len(s.turns)
             u == [s.turns[l] EXCEPT !.ending = ending]
             r == [s.turns EXCEPT ![l] = u]
  <1>1. s.turns \in Seq(Turn) /\ s.turns[l] \in Turn /\ l \in Nat
    BY StateFields, TurnFields
  <1>2. /\ u \in Turn /\ u.attempts = s.turns[l].attempts
        /\ u.delivery = s.turns[l].delivery /\ u.ending = ending
    BY <1>1 DEF Turn
  <1>3. NoPending \in Pending /\ NoPending.phase = "None"
    BY ChainAssumption DEF NoPending, Pending, Stages
  <1>4. n = [s EXCEPT !.acknowledged = ac, !.turns = r, !.pending = NoPending]
    BY DEF EndedTurn, RuntimeState
  <1> HIDE DEF u
  <1>5. /\ r \in Seq(Turn) /\ Len(r) = l /\ DOMAIN r = DOMAIN s.turns /\ r[l] = u
        /\ \A k \in DOMAIN s.turns : k # l => r[k] = s.turns[k]
    BY <1>1, <1>2, Replaced
  <1> HIDE DEF r
  <1>6. n = [turns |-> r, pending |-> NoPending, items |-> s.items,
             acknowledged |-> ac, staged |-> s.staged,
             checkpoint |-> s.checkpoint, head |-> s.head]
    BY <1>4 DEF RuntimeState
  <1>7. n \in RuntimeState
    <2>1. /\ s.turns \in Seq(Turn) /\ s.pending \in Pending /\ s.items \in Seq(Item)
          /\ s.acknowledged \in SUBSET Nat
          /\ s.staged \in SUBSET [agent : Agents, config : Configs]
          /\ s.checkpoint \in SUBSET [source : Nat, at : Nat] /\ s.head \in Nat
      BY StateFields
    <2>2. QED
      BY <1>3, <1>5, <1>6, <2>1 DEF RuntimeState
  <1>8. /\ n.turns = r /\ KeepsRest(s, n) /\ n.acknowledged = ac
        /\ n.pending = NoPending /\ n.items = s.items
    BY <1>6 DEF KeepsRest
  <1>9. QED
    BY <1>2, <1>3, <1>5, <1>7, <1>8 DEF Changed

LEMMA CancelledIs ==
    ASSUME NEW s \in RuntimeState
    PROVE  Cancelled(s) = EndedTurn(s, "cancelled", s.acknowledged)
  BY DEF Cancelled, EndedTurn, Current, RuntimeState

LEMMA AcknowledgedIs ==
    ASSUME NEW s \in RuntimeState
    PROVE  Acknowledged(s) = EndedTurn(s, "completed",
                               s.acknowledged \cup {s.turns[Len(s.turns)].delivery})
  BY DEF Acknowledged, EndedTurn, Current, RuntimeState

\* TurnAdmitted: a new last Turn, its user Item, and no staged selection.
LEMMA AdmittedFields ==
    ASSUME NEW s \in RuntimeState, NEW who \in Callers, NEW config \in Configs,
           NEW chain \in 0..MaxChain, NEW n, n = Admitted(s, who, config, chain)
    PROVE  /\ n \in RuntimeState /\ n.acknowledged = s.acknowledged /\ n.staged = {}
           /\ n.items = Append(s.items, [turn |-> Len(s.turns) + 1, role |-> "User"])
           /\ n.pending.phase = "Admitted" /\ n.pending.candidate = 0
           /\ Len(s.turns) \in Nat /\ Len(n.turns) = Len(s.turns) + 1
           /\ DOMAIN s.turns = 1..Len(s.turns) /\ DOMAIN n.turns = 1..(Len(s.turns) + 1)
           /\ \A t \in DOMAIN s.turns : n.turns[t] = s.turns[t]
           /\ n.turns[Len(s.turns) + 1] =
                [agent |-> who, config |-> config, chain |-> chain, delivery |-> 0,
                 ending |-> "none", attempts |-> <<>>]
  <1> DEFINE l == Len(s.turns)
             u == [agent |-> who, config |-> config, chain |-> chain, delivery |-> 0,
                   ending |-> "none", attempts |-> <<>>]
             r == Append(s.turns, u)
             p == [NoPending EXCEPT !.phase = "Admitted"]
             i == [turn |-> l + 1, role |-> "User"]
  <1>1. s.turns \in Seq(Turn) /\ l \in Nat /\ DOMAIN s.turns = 1..l
    BY StateFields
  <1>2. u \in Turn
    BY DEF Turn
  <1>3. p \in Pending /\ p.phase = "Admitted" /\ p.candidate = 0
    BY ChainAssumption DEF Pending, NoPending, Stages
  <1>4. i \in Item
    BY <1>1 DEF Item
  <1>5. n = [s EXCEPT !.turns = r, !.items = Append(s.items, i), !.pending = p, !.staged = {}]
    BY DEF Admitted, Current, RuntimeState
  <1> HIDE DEF u, p, i
  <1>6. /\ r \in Seq(Turn) /\ Len(r) = l + 1 /\ DOMAIN r = 1..(l + 1) /\ r[l + 1] = u
        /\ \A k \in DOMAIN s.turns : r[k] = s.turns[k]
    BY <1>1, <1>2
  <1> HIDE DEF r
  <1>7. n = [turns |-> r, pending |-> p, items |-> Append(s.items, i),
             acknowledged |-> s.acknowledged, staged |-> {},
             checkpoint |-> s.checkpoint, head |-> s.head]
    BY <1>5 DEF RuntimeState
  <1>8. n \in RuntimeState
    <2>1. /\ s.turns \in Seq(Turn) /\ s.pending \in Pending /\ s.items \in Seq(Item)
          /\ s.acknowledged \in SUBSET Nat
          /\ s.staged \in SUBSET [agent : Agents, config : Configs]
          /\ s.checkpoint \in SUBSET [source : Nat, at : Nat] /\ s.head \in Nat
      BY StateFields
    <2>2. Append(s.items, i) \in Seq(Item)
      BY <1>4, <2>1
    <2>3. QED
      BY <1>3, <1>6, <1>7, <2>1, <2>2 DEF RuntimeState
  <1>9. /\ n.turns = r /\ n.acknowledged = s.acknowledged
        /\ n.pending = p /\ n.items = Append(s.items, i) /\ n.staged = {}
    BY <1>7
  <1>10. QED
    BY <1>1, <1>3, <1>6, <1>8, <1>9 DEF u, i

\* The Ledger head, a staged selection, a checkpoint: nothing that the folds of
\* Turns and Items look at.
LEMMA AsideOK ==
    ASSUME NEW s, KernelOK(s), NEW n \in RuntimeState, n.turns = s.turns,
           n.pending = s.pending, n.items = s.items, n.acknowledged = s.acknowledged
    PROVE  KernelOK(n)
  BY DEF KernelOK, TurnsOK, CurrentOK, ItemsOK

Bumped(s) == [s EXCEPT !.head = @ + 1]

LEMMA BumpedFields ==
    ASSUME NEW s \in RuntimeState
    PROVE  /\ Bumped(s) \in RuntimeState /\ Bumped(s).turns = s.turns
           /\ Bumped(s).pending = s.pending /\ Bumped(s).items = s.items
           /\ Bumped(s).acknowledged = s.acknowledged /\ Bumped(s).staged = s.staged
  <1>1. Bumped(s) = [turns |-> s.turns, pending |-> s.pending, items |-> s.items,
                     acknowledged |-> s.acknowledged, staged |-> s.staged,
                     checkpoint |-> s.checkpoint, head |-> s.head + 1]
    BY DEF Bumped, RuntimeState
  <1>2. Bumped(s) \in RuntimeState
    <2>1. /\ s.turns \in Seq(Turn) /\ s.pending \in Pending /\ s.items \in Seq(Item)
          /\ s.acknowledged \in SUBSET Nat
          /\ s.staged \in SUBSET [agent : Agents, config : Configs]
          /\ s.checkpoint \in SUBSET [source : Nat, at : Nat] /\ s.head \in Nat
      BY StateFields
    <2>2. QED
      BY <1>1, <2>1 DEF RuntimeState
  <1>3. QED
    BY <1>1, <1>2

-----------------------------------------------------------------------------
(* Every transaction keeps the fold sound.                                   *)

\* s has an unfinished request under way.
InFlight(s) ==
    /\ s.pending.phase = "Admitted"
    /\ Attempts(s) # <<>> /\ Last(Attempts(s)).outcome = "open"

\* The state after the open attempt has been finished, as every later event of
\* the same transaction finds it.
LEMMA FinishedState ==
    ASSUME NEW s, KernelOK(s), InFlight(s), NEW o \in {"Succeeded", "Failed", "Interrupted"},
           NEW st \in Stages, NEW n, n = Closed(s, o, st), NEW u, u = n.turns[Len(s.turns)]
    PROVE  /\ n \in RuntimeState /\ KeepsRest(s, n) /\ Changed(s, n, u)
           /\ n.pending = s.pending /\ n.items = s.items /\ n.acknowledged = s.acknowledged
           /\ u.delivery = 0 /\ s.turns[Len(s.turns)].delivery = 0 /\ u.ending = "none"
           /\ u.chain = s.turns[Len(s.turns)].chain /\ s.pending.candidate <= u.chain
           /\ u.attempts \in Seq(Attempt) /\ u.attempts # <<>>
           /\ Len(u.attempts) = Len(s.turns[Len(s.turns)].attempts)
           /\ AttemptsOK(u.attempts) /\ Follows(u.attempts, s.pending.candidate)
           /\ NoOpen(u.attempts)
           /\ Last(u.attempts).outcome = o /\ Last(u.attempts).stage = st
           /\ Last(u.attempts).kind = Last(Attempts(s)).kind
           /\ Last(u.attempts).candidate = s.pending.candidate
  <1> DEFINE l == Len(s.turns)
             xs == s.turns[l].attempts
             ys == FinishedAttempts(xs, o, st)
  <1>1. /\ s \in RuntimeState /\ l \in DOMAIN s.turns /\ TurnOK(s.turns[l], s.acknowledged)
        /\ PendingOK(s.turns[l], s.pending) /\ s.pending.phase = "Admitted"
    BY PendingFacts DEF InFlight
  <1>2. xs \in Seq(Attempt) /\ xs = Attempts(s) /\ xs # <<>> /\ Last(xs).outcome = "open"
    BY <1>1, TurnFields DEF InFlight, Attempts, Current
  <1>3. AttemptsOK(xs) /\ Follows(xs, s.pending.candidate)
    BY <1>1 DEF TurnOK, PendingOK
  <1> HIDE DEF xs
  <1>4. /\ ys \in Seq(Attempt) /\ ys # <<>> /\ Len(ys) = Len(xs)
        /\ AttemptsOK(ys) /\ Follows(ys, s.pending.candidate) /\ NoOpen(ys)
        /\ Last(ys).outcome = o /\ Last(ys).stage = st
        /\ Last(ys).kind = Last(xs).kind /\ Last(ys).candidate = s.pending.candidate
    BY <1>2, <1>3, FinishAttempt
  <1>5. n = WithAttempts(s, ys)
    BY ClosedIs DEF xs
  <1> HIDE DEF ys
  <1>6. /\ n \in RuntimeState /\ KeepsRest(s, n)
        /\ n.pending = s.pending /\ n.items = s.items /\ n.acknowledged = s.acknowledged
        /\ Changed(s, n, u) /\ u.attempts = ys /\ u.delivery = s.turns[l].delivery
        /\ u.ending = s.turns[l].ending /\ u.chain = s.turns[l].chain
    BY <1>1, <1>4, <1>5, WithAttemptsFields
  <1>7. s.turns[l].delivery = 0 /\ s.turns[l].ending = "none" /\ s.pending.candidate <= s.turns[l].chain
    BY <1>1 DEF PendingOK
  <1>8. QED
    BY <1>2, <1>4, <1>6, <1>7 DEF xs

\* UsageAttemptFinished alone: the Provider called a Tool.
LEMMA ClosedOK ==
    ASSUME NEW s, KernelOK(s), InFlight(s), NEW n, n = Closed(s, "Succeeded", "none")
    PROVE  KernelOK(n) /\ Succeeds(s, n)
  <1> DEFINE u == n.turns[Len(s.turns)]
  <1>0. "none" \in Stages /\ s.pending.phase = "Admitted" /\ s \in RuntimeState
        /\ Len(s.turns) \in DOMAIN s.turns
    BY PendingFacts DEF Stages, InFlight
  <1>1. /\ n \in RuntimeState /\ KeepsRest(s, n) /\ Changed(s, n, u)
        /\ n.pending = s.pending /\ n.items = s.items /\ n.acknowledged = s.acknowledged
        /\ u.delivery = 0 /\ s.turns[Len(s.turns)].delivery = 0 /\ u.ending = "none"
        /\ s.pending.candidate <= u.chain /\ u.attempts \in Seq(Attempt)
        /\ Len(u.attempts) = Len(s.turns[Len(s.turns)].attempts)
        /\ AttemptsOK(u.attempts) /\ Follows(u.attempts, s.pending.candidate)
        /\ NoOpen(u.attempts) /\ Last(u.attempts).outcome = "Succeeded"
    BY <1>0, FinishedState
  <1> HIDE DEF u
  <1>2. TurnOK(u, n.acknowledged)
    BY <1>1 DEF TurnOK
  <1>3. PendingOK(u, n.pending)
    BY <1>0, <1>1 DEF PendingOK, Late
  <1>4. KernelOK(n)
    BY <1>0, <1>1, <1>2, <1>3, CurrentTurnOK
  <1>5. Succeeds(s, n)
    <2>1. Len(u.attempts) \in Nat
      BY <1>1
    <2>2. QED
      BY <1>0, <1>1, <2>1, SucceedsChanged DEF KeepsRest
  <1>6. QED
    BY <1>4, <1>5

\* ... with TurnBlocked: a block is retryable only when it stands on an early
\* failure of an initial request.
LEMMA FailedOK ==
    ASSUME NEW s, KernelOK(s), InFlight(s), NEW o \in {"Succeeded", "Failed"}, NEW st \in Stages,
           NEW bst \in Stages,
           bst \in Early => o = "Failed" /\ bst = st /\ Last(Attempts(s)).kind = "initial",
           NEW n, n = Blocked(Closed(s, o, st), "Provider", bst)
    PROVE  KernelOK(n) /\ Succeeds(s, n)
  <1> DEFINE c == Closed(s, o, st)
             u == c.turns[Len(s.turns)]
  <1>0. /\ s.pending.phase = "Admitted" /\ s \in RuntimeState /\ Len(s.turns) \in DOMAIN s.turns
        /\ n = Blocked(c, "Provider", bst)
    BY PendingFacts DEF InFlight
  <1>1. /\ c \in RuntimeState /\ KeepsRest(s, c) /\ Changed(s, c, u)
        /\ c.pending = s.pending /\ c.items = s.items /\ c.acknowledged = s.acknowledged
        /\ u.delivery = 0 /\ s.turns[Len(s.turns)].delivery = 0 /\ u.ending = "none"
        /\ s.pending.candidate <= u.chain /\ u.attempts \in Seq(Attempt) /\ u.attempts # <<>>
        /\ Len(u.attempts) = Len(s.turns[Len(s.turns)].attempts)
        /\ AttemptsOK(u.attempts) /\ Follows(u.attempts, s.pending.candidate)
        /\ NoOpen(u.attempts) /\ Last(u.attempts).outcome = o /\ Last(u.attempts).stage = st
        /\ Last(u.attempts).kind = Last(Attempts(s)).kind
        /\ Last(u.attempts).candidate = s.pending.candidate
    BY FinishedState
  <1> HIDE DEF c
  <1>2. /\ n \in RuntimeState /\ KeepsRest(c, n) /\ n.turns = c.turns
        /\ n.items = c.items /\ n.acknowledged = c.acknowledged
        /\ n.pending.phase = "Blocked" /\ n.pending.candidate = c.pending.candidate
        /\ n.pending.origin = "Provider" /\ n.pending.stage = bst
    <2>1. "Provider" \in Origins
      BY DEF Origins
    <2>2. QED
      BY <1>0, <1>1, <2>1, BlockedFields
  <1>3. Changed(s, n, u) /\ n.items = s.items /\ n.acknowledged = s.acknowledged
        /\ n.staged = s.staged
    BY <1>1, <1>2 DEF Changed, KeepsRest
  <1> HIDE DEF u
  <1>4. TurnOK(u, n.acknowledged)
    BY <1>1 DEF TurnOK
  <1>5. PendingOK(u, n.pending)
    <2>1. bst \in Early => /\ u.attempts # <<>> /\ EarlyFailed(Last(u.attempts))
                           /\ Last(u.attempts).kind = "initial"
                           /\ Last(u.attempts).candidate = n.pending.candidate
      BY <1>1, <1>2 DEF EarlyFailed
    <2>2. QED
      BY <1>1, <1>2, <2>1 DEF PendingOK
  <1>6. KernelOK(n)
    BY <1>0, <1>1, <1>2, <1>3, <1>4, <1>5, CurrentTurnOK
  <1>7. Succeeds(s, n)
    <2>1. Len(u.attempts) \in Nat
      BY <1>1
    <2>2. QED
      BY <1>0, <1>1, <1>3, <2>1, SucceedsChanged
  <1>8. QED
    BY <1>6, <1>7

\* ... with OutputPrepared.
LEMMA PreparedOK ==
    ASSUME NEW s, KernelOK(s), InFlight(s), NEW n, n = Prepared(Closed(s, "Succeeded", "none"))
    PROVE  KernelOK(n) /\ Succeeds(s, n)
  <1> DEFINE c == Closed(s, "Succeeded", "none")
             v == c.turns[Len(s.turns)]
             u == n.turns[Len(s.turns)]
  <1>0. "none" \in Stages /\ s.pending.phase = "Admitted" /\ s \in RuntimeState
        /\ Len(s.turns) \in DOMAIN s.turns
    BY PendingFacts DEF Stages, InFlight
  <1>1. /\ c \in RuntimeState /\ KeepsRest(s, c) /\ Changed(s, c, v)
        /\ c.pending = s.pending /\ c.items = s.items /\ c.acknowledged = s.acknowledged
        /\ s.turns[Len(s.turns)].delivery = 0 /\ v.ending = "none"
        /\ s.pending.candidate <= v.chain /\ v.attempts \in Seq(Attempt)
        /\ Len(v.attempts) = Len(s.turns[Len(s.turns)].attempts)
        /\ AttemptsOK(v.attempts) /\ Follows(v.attempts, s.pending.candidate)
        /\ NoOpen(v.attempts)
    BY <1>0, FinishedState
  <1> HIDE DEF c
  <1>2. Len(c.turns) = Len(s.turns) /\ Len(c.turns) \in DOMAIN c.turns
    BY <1>0, <1>1 DEF Changed
  <1>3. /\ n \in RuntimeState /\ KeepsRest(c, n) /\ n.acknowledged = c.acknowledged
        /\ n.items = Append(c.items, [turn |-> Len(s.turns), role |-> "Assistant"])
        /\ n.pending.phase = "Prepared" /\ n.pending.candidate = c.pending.candidate
        /\ Changed(c, n, u) /\ u.attempts = v.attempts /\ u.delivery # 0
        /\ u.ending = v.ending /\ u.chain = v.chain
    BY <1>1, <1>2, PreparedFields, SMTT(30) DEF c
  <1>4. Changed(s, n, u)
    BY <1>1, <1>3 DEF Changed
  <1>5. n.staged = s.staged
    BY <1>1, <1>3 DEF KeepsRest
  <1> HIDE DEF u, v
  <1>6. TurnOK(u, n.acknowledged)
    BY <1>1, <1>3 DEF TurnOK
  <1>7. PendingOK(u, n.pending)
    BY <1>1, <1>3 DEF PendingOK
  <1>8. KernelOK(n)
    BY <1>0, <1>1, <1>3, <1>4, <1>6, <1>7, CurrentTurnOK
  <1>9. Succeeds(s, n)
    <2>1. Len(u.attempts) \in Nat /\ Len(u.attempts) = Len(s.turns[Len(s.turns)].attempts)
      BY <1>1, <1>3
    <2>2. QED
      BY <1>0, <1>1, <1>4, <1>5, <2>1, SucceedsChanged
  <1>10. QED
    BY <1>8, <1>9

\* A transaction that leaves the Turns as they are and moves what is pending.
LEMMA PendingMoved ==
    ASSUME NEW s, KernelOK(s), s.pending.phase \in {"Admitted", "Blocked"},
           NEW n \in RuntimeState, KeepsRest(s, n), n.turns = s.turns, n.items = s.items,
           n.acknowledged = s.acknowledged, n.pending.phase # "None",
           PendingOK(s.turns[Len(s.turns)], n.pending)
    PROVE  KernelOK(n) /\ Succeeds(s, n)
  <1> DEFINE u == s.turns[Len(s.turns)]
  <1>1. s \in RuntimeState /\ TurnOK(u, s.acknowledged) /\ s.pending.phase # "None"
    BY PendingFacts
  <1>2. Changed(s, n, u)
    BY DEF Changed
  <1>3. KernelOK(n)
    BY <1>1, <1>2, CurrentTurnOK
  <1>4. Succeeds(s, n)
    BY <1>1, SucceedsSame DEF KeepsRest
  <1>5. QED
    BY <1>3, <1>4

\* block_pending, for what is not the Provider's fault.
LEMMA BlockedOtherOK ==
    ASSUME NEW s, KernelOK(s), s.pending.phase = "Admitted", ~HasOpen(s),
           NEW n, n = Blocked(s, "Other", "none")
    PROVE  KernelOK(n) /\ Succeeds(s, n)
  <1> DEFINE u == s.turns[Len(s.turns)]
  <1>1. /\ s \in RuntimeState /\ Len(s.turns) \in DOMAIN s.turns
        /\ TurnOK(u, s.acknowledged) /\ PendingOK(u, s.pending)
    BY PendingFacts
  <1>2. /\ n \in RuntimeState /\ KeepsRest(s, n) /\ n.turns = s.turns
        /\ n.items = s.items /\ n.acknowledged = s.acknowledged
        /\ n.pending.phase = "Blocked" /\ n.pending.candidate = s.pending.candidate
        /\ n.pending.origin = "Other"
    <2>1. "Other" \in Origins /\ "none" \in Stages
      BY DEF Origins, Stages
    <2>2. QED
      BY <1>1, <2>1, BlockedFields
  <1>3. NoOpen(u.attempts)
    <2>1. u.attempts \in Seq(Attempt) /\ AttemptsOK(u.attempts)
      BY <1>1, TurnFields DEF TurnOK
    <2>2. u.attempts # <<>> => u.attempts[Len(u.attempts)].outcome # "open"
      BY DEF HasOpen, Attempts, Current
    <2> HIDE DEF u
    <2>3. QED
      BY <2>1, <2>2 DEF AttemptsOK, NoOpen
  <1> HIDE DEF u
  <1>4. PendingOK(u, n.pending)
    BY <1>1, <1>2, <1>3 DEF PendingOK
  <1>5. QED
    BY <1>2, <1>4, PendingMoved DEF u

LEMMA RetryableFacts ==
    ASSUME NEW s, KernelOK(s), Retryable(s), NEW u, u = s.turns[Len(s.turns)]
    PROVE  /\ s \in RuntimeState /\ u \in Turn /\ PendingOK(u, s.pending)
           /\ s.pending.phase = "Blocked" /\ s.pending.candidate \in 0..MaxChain
           /\ u.attempts # <<>> /\ EarlyFailed(Last(u.attempts)) /\ ~Late(Last(u.attempts))
           /\ Last(u.attempts).candidate = s.pending.candidate
  <1>1. /\ s.pending.phase = "Blocked" /\ s.pending.origin = "Provider"
        /\ s.pending.stage \in Early
    BY DEF Retryable
  <1>2. s \in RuntimeState /\ u \in Turn /\ PendingOK(u, s.pending) /\ s.pending \in Pending
    BY <1>1, PendingFacts
  <1>3. /\ u.attempts # <<>> /\ EarlyFailed(Last(u.attempts))
        /\ Last(u.attempts).kind = "initial" /\ Last(u.attempts).candidate = s.pending.candidate
    BY <1>1, <1>2 DEF PendingOK
  <1>4. ~Late(Last(u.attempts))
    BY <1>3 DEF Late, EarlyFailed
  <1>5. QED
    BY <1>1, <1>2, <1>3, <1>4 DEF Pending

\* TurnRetryRequested.
LEMMA RearmedOK ==
    ASSUME NEW s, KernelOK(s), Retryable(s), NEW n, n = Rearmed(s)
    PROVE  KernelOK(n) /\ Succeeds(s, n)
  <1> DEFINE u == s.turns[Len(s.turns)]
  <1>1. /\ s \in RuntimeState /\ PendingOK(u, s.pending) /\ s.pending.phase = "Blocked"
        /\ u.attempts # <<>> /\ ~Late(Last(u.attempts))
    BY RetryableFacts
  <1>2. /\ n \in RuntimeState /\ KeepsRest(s, n) /\ n.turns = s.turns
        /\ n.items = s.items /\ n.acknowledged = s.acknowledged
        /\ n.pending.phase = "Admitted" /\ n.pending.candidate = s.pending.candidate
    BY <1>1, RearmedFields
  <1> HIDE DEF u
  <1>3. PendingOK(u, n.pending)
    BY <1>1, <1>2 DEF PendingOK
  <1>4. QED
    BY <1>1, <1>2, <1>3, PendingMoved DEF u

\* ProviderFallbackRequested: the next candidate, after an early failure.
LEMMA AdvancedOK ==
    ASSUME NEW s, KernelOK(s), Retryable(s), MoreCandidates(s), NEW n, n = Advanced(s)
    PROVE  KernelOK(n) /\ Succeeds(s, n)
  <1> DEFINE u == s.turns[Len(s.turns)]
  <1>1. /\ s \in RuntimeState /\ PendingOK(u, s.pending) /\ s.pending.phase = "Blocked"
        /\ u.attempts # <<>> /\ EarlyFailed(Last(u.attempts)) /\ ~Late(Last(u.attempts))
        /\ Last(u.attempts).candidate = s.pending.candidate
        /\ u \in Turn /\ s.pending.candidate \in 0..MaxChain
    BY RetryableFacts
  <1>2. /\ u.chain \in 0..MaxChain /\ s.pending.candidate < u.chain
        /\ s.pending.candidate + 1 <= u.chain /\ s.pending.candidate + 1 <= MaxChain
    <2>1. u.chain \in 0..MaxChain /\ s.pending.candidate < u.chain
      BY <1>1 DEF MoreCandidates, Current, Turn
    <2> HIDE DEF u
    <2>2. QED
      BY <1>1, <2>1, ChainAssumption
  <1>3. /\ n \in RuntimeState /\ KeepsRest(s, n) /\ n.turns = s.turns
        /\ n.items = s.items /\ n.acknowledged = s.acknowledged
        /\ n.pending.phase = "Admitted" /\ n.pending.candidate = s.pending.candidate + 1
    BY <1>1, <1>2, AdvancedFields
  <1> HIDE DEF u
  <1>4. Follows(u.attempts, n.pending.candidate)
    BY <1>1, <1>3 DEF Follows
  <1>5. PendingOK(u, n.pending)
    BY <1>1, <1>2, <1>3, <1>4 DEF PendingOK
  <1>6. QED
    BY <1>1, <1>3, <1>5, PendingMoved DEF u

\* The Turn ends: cancelled without output, or completed with its output
\* acknowledged.
LEMMA EndedOK ==
    ASSUME NEW s, KernelOK(s), NEW ending \in {"completed", "cancelled"}, NEW ac \in SUBSET Nat,
           s.acknowledged \subseteq ac,
           \/ ending = "cancelled" /\ s.pending.phase = "Blocked"
           \/ /\ ending = "completed" /\ s.pending.phase = "Prepared"
              /\ s.turns[Len(s.turns)].delivery \in ac,
           NEW n, n = EndedTurn(s, ending, ac)
    PROVE  KernelOK(n) /\ Succeeds(s, n)
  <1> DEFINE v == s.turns[Len(s.turns)]
             u == n.turns[Len(s.turns)]
  <1>1. /\ s \in RuntimeState /\ Len(s.turns) \in DOMAIN s.turns /\ s.pending.phase # "None"
        /\ TurnOK(v, s.acknowledged) /\ PendingOK(v, s.pending)
    BY PendingFacts
  <1>2. /\ n \in RuntimeState /\ KeepsRest(s, n) /\ n.acknowledged = ac
        /\ n.items = s.items /\ n.pending.phase = "None" /\ Changed(s, n, u)
        /\ u.attempts = v.attempts /\ u.delivery = v.delivery /\ u.ending = ending
    BY <1>1, EndedFields
  <1>3. Len(v.attempts) \in Nat /\ NoOpen(v.attempts)
        /\ (ending = "cancelled" => v.delivery = 0)
        /\ (ending = "completed" => v.delivery # 0 /\ v.delivery \in ac)
    BY <1>1, TurnFields DEF PendingOK
  <1>4. v.delivery # 0 => u.delivery # 0
    BY <1>2
  <1> HIDE DEF u
  <1>5. TurnOK(u, n.acknowledged)
    BY <1>1, <1>2, <1>3 DEF TurnOK
  <1>6. u.ending # "none" /\ NoOpen(u.attempts)
    BY <1>2, <1>3
  <1>7. KernelOK(n)
    BY <1>1, <1>2, <1>4, <1>5, <1>6, CurrentTurnOK
  <1>8. Succeeds(s, n)
    BY <1>1, <1>2, <1>3, SucceedsChanged DEF KeepsRest
  <1>9. QED
    BY <1>7, <1>8

LEMMA CancelledOK ==
    ASSUME NEW s, KernelOK(s), s.pending.phase = "Blocked", NEW n, n = Cancelled(s)
    PROVE  KernelOK(n) /\ Succeeds(s, n)
  <1>1. s \in RuntimeState /\ s.acknowledged \in SUBSET Nat
    BY StateFields DEF KernelOK
  <1>2. n = EndedTurn(s, "cancelled", s.acknowledged)
    BY <1>1, CancelledIs
  <1>3. QED
    BY <1>1, <1>2, EndedOK

LEMMA AcknowledgedOK ==
    ASSUME NEW s, KernelOK(s), s.pending.phase = "Prepared", NEW n, n = Acknowledged(s)
    PROVE  KernelOK(n) /\ Succeeds(s, n)
  <1> DEFINE ac == s.acknowledged \cup {s.turns[Len(s.turns)].delivery}
  <1>1. s \in RuntimeState /\ s.acknowledged \in SUBSET Nat /\ Len(s.turns) \in DOMAIN s.turns
    BY PendingFacts, StateFields
  <1>2. ac \in SUBSET Nat /\ s.acknowledged \subseteq ac /\ s.turns[Len(s.turns)].delivery \in ac
    BY <1>1, TurnFields
  <1>3. n = EndedTurn(s, "completed", ac)
    BY <1>1, AcknowledgedIs
  <1> HIDE DEF ac
  <1>4. QED
    BY <1>1, <1>2, <1>3, EndedOK

LEMMA NoAttempts ==
    AttemptsOK(<<>>) /\ NoOpen(<<>>) /\ Follows(<<>>, 0)
  BY DEF AttemptsOK, NoOpen, Follows

\* TurnAdmitted, under a staged selection of the same Agent and Config.
LEMMA AdmittedOK ==
    ASSUME NEW s, KernelOK(s), s.pending.phase = "None", Len(s.turns) < MaxTurns,
           NEW who \in Callers, NEW config \in Configs, NEW chain \in 0..MaxChain,
           \A q \in s.staged : q.agent = who /\ q.config = config,
           NEW n, n = Admitted(s, who, config, chain)
    PROVE  KernelOK(n) /\ Succeeds(s, n)
  <1> DEFINE l == Len(s.turns)
             u == [agent |-> who, config |-> config, chain |-> chain, delivery |-> 0,
                   ending |-> "none", attempts |-> <<>>]
             i == [turn |-> l + 1, role |-> "User"]
  <1>0. s \in RuntimeState /\ TurnsOK(s) /\ ItemsOK(s) /\ s.items \in Seq(Item)
    BY DEF KernelOK, RuntimeState
  <1>1. /\ n \in RuntimeState /\ n.acknowledged = s.acknowledged /\ n.staged = {}
        /\ n.items = Append(s.items, i)
        /\ n.pending.phase = "Admitted" /\ n.pending.candidate = 0
        /\ l \in Nat /\ Len(n.turns) = l + 1
        /\ DOMAIN s.turns = 1..l /\ DOMAIN n.turns = 1..(l + 1)
        /\ \A t \in DOMAIN s.turns : n.turns[t] = s.turns[t]
        /\ n.turns[l + 1] = u
    BY <1>0, AdmittedFields
  <1>2. /\ u.ending = "none" /\ u.delivery = 0 /\ u.attempts = <<>> /\ u.chain = chain
        /\ u.agent = who /\ u.config = config
    OBVIOUS
  <1>3. l + 1 <= MaxTurns
    BY <1>1, KernelBoundsAssumption
  <1>4. i \in Item /\ i.turn = l + 1 /\ i.role = "User"
    BY <1>1 DEF Item
  <1> HIDE DEF u, l
  <1>5. TurnsOK(n)
    <2> SUFFICES ASSUME NEW t \in 1..(l + 1)
                 PROVE  /\ TurnOK(n.turns[t], n.acknowledged)
                        /\ t # l + 1 => n.turns[t].ending # "none" /\ NoOpen(n.turns[t].attempts)
      BY <1>1 DEF TurnsOK
    <2>1. CASE t = l + 1
      BY <1>1, <1>2, <2>1, NoAttempts DEF TurnOK
    <2>2. CASE t # l + 1
      <3>1. t \in DOMAIN s.turns
        BY <1>1, <2>2
      <3>2. QED
        BY <1>0, <1>1, <2>2, <3>1 DEF TurnsOK
    <2>3. QED
      BY <2>1, <2>2
  <1>6. CurrentOK(n)
    <2>1. n.turns # <<>>
      BY <1>1
    <2>2. PendingOK(u, n.pending)
      BY <1>1, <1>2, NoAttempts DEF PendingOK
    <2>3. QED
      BY <1>1, <2>1, <2>2 DEF CurrentOK
  <1>7. ItemsOK(n)
    <2> DEFINE q == Len(s.items)
    <2>1. q \in Nat /\ DOMAIN s.items = 1..q
      BY <1>0
    <2> HIDE DEF i
    <2>2. /\ DOMAIN n.items = 1..(q + 1) /\ n.items[q + 1] = i /\ Len(n.items) = q + 1
          /\ \A k \in 1..q : n.items[k] = s.items[k]
      BY <1>0, <1>1, <1>4, <2>1
    <2> HIDE DEF q
    <2>3. \A k \in 1..q : s.items[k].turn \in 1..l
      BY <1>0, <1>1, <2>1 DEF ItemsOK
    <2>4. \A k \in 1..q : s.items[k] # i
      BY <1>1, <1>4, <2>3
    <2>5. \A k \in 1..(q + 1) : k \in 1..q \/ k = q + 1
      BY <2>1
    <2>6. ASSUME NEW k \in 1..(q + 1)
          PROVE  /\ n.items[k].turn \in DOMAIN n.turns
                 /\ n.items[k].role = "Assistant" => n.turns[n.items[k].turn].delivery # 0
      <3>1. CASE k = q + 1
        BY <1>1, <1>4, <2>2, <3>1
      <3>2. CASE k \in 1..q
        <4>1. /\ n.items[k] = s.items[k] /\ s.items[k].turn \in DOMAIN s.turns
              /\ s.items[k].role = "Assistant" => s.turns[s.items[k].turn].delivery # 0
          BY <1>0, <2>1, <2>2, <3>2 DEF ItemsOK
        <4>2. n.turns[s.items[k].turn] = s.turns[s.items[k].turn]
          BY <1>1, <4>1
        <4>3. s.items[k].turn \in DOMAIN n.turns
          BY <1>1, <4>1
        <4>4. QED
          BY <4>1, <4>2, <4>3
      <3>3. QED
        BY <2>5, <3>1, <3>2
    <2>7. ASSUME NEW k \in 1..(q + 1), NEW m \in 1..(q + 1), n.items[k] = n.items[m]
          PROVE  k = m
      <3>1. \A x, y \in 1..q : s.items[x] = s.items[y] => x = y
        BY <1>0, <2>1 DEF ItemsOK
      <3>2. QED
        BY <2>2, <2>4, <2>5, <2>7, <3>1
    <2>8. n.items # <<>> /\ n.items[Len(n.items)] = [turn |-> Len(n.turns), role |-> "User"]
      BY <1>1, <2>1, <2>2 DEF i
    <2>9. QED
      BY <2>2, <2>6, <2>7, <2>8 DEF ItemsOK
  <1>8. KernelOK(n)
    BY <1>1, <1>3, <1>5, <1>6, <1>7 DEF KernelOK
  <1>9. Succeeds(s, n)
    <2>1. \A t \in DOMAIN s.turns : Len(s.turns[t].attempts) \in Nat /\ t \in DOMAIN n.turns
      BY <1>0, <1>1, TurnFields, SMTT(30)
    <2>2. QED
      BY <1>1, <1>2, <2>1 DEF Succeeds, l
  <1>10. QED
    BY <1>8, <1>9

\* A staged selection may be replaced by its own Agent only.
LEMMA StagedOK ==
    ASSUME NEW s, KernelOK(s), NEW a \in Agents, NEW c \in Configs,
           \A q \in s.staged : q.agent = a,
           NEW n, n = [s EXCEPT !.staged = {[agent |-> a, config |-> c]}]
    PROVE  KernelOK(n) /\ Succeeds(s, n)
  <1> DEFINE g == {[agent |-> a, config |-> c]}
  <1>1. s \in RuntimeState
    BY DEF KernelOK
  <1>2. g \in SUBSET [agent : Agents, config : Configs] /\ \E r \in g : r.agent = a
    OBVIOUS
  <1> HIDE DEF g
  <1>3. n = [turns |-> s.turns, pending |-> s.pending, items |-> s.items,
             acknowledged |-> s.acknowledged, staged |-> g,
             checkpoint |-> s.checkpoint, head |-> s.head]
    BY <1>1 DEF RuntimeState, g
  <1>4. n \in RuntimeState
    BY <1>1, <1>2, <1>3 DEF RuntimeState
  <1>5. /\ n.turns = s.turns /\ n.pending = s.pending /\ n.items = s.items
        /\ n.acknowledged = s.acknowledged /\ n.staged = g
    BY <1>3
  <1>6. KernelOK(n)
    BY <1>4, <1>5, AsideOK
  <1>7. Succeeds(s, n)
    <2>1. Succeeds(s, s)
      BY <1>1, SucceedsItself
    <2>2. \A q \in s.staged : \E r \in n.staged : r.agent = q.agent
      BY <1>2, <1>5
    <2>3. QED
      BY <1>5, <2>1, <2>2 DEF Succeeds
  <1>8. QED
    BY <1>6, <1>7

LEMMA CheckpointOK ==
    ASSUME NEW s, KernelOK(s), NEW h \in Nat, NEW at \in Nat,
           NEW n, n = [s EXCEPT !.checkpoint = {[source |-> h, at |-> at]}]
    PROVE  KernelOK(n) /\ Succeeds(s, n)
  <1> DEFINE g == {[source |-> h, at |-> at]}
  <1>1. s \in RuntimeState
    BY DEF KernelOK
  <1>2. g \in SUBSET [source : Nat, at : Nat]
    OBVIOUS
  <1> HIDE DEF g
  <1>3. n = [turns |-> s.turns, pending |-> s.pending, items |-> s.items,
             acknowledged |-> s.acknowledged, staged |-> s.staged,
             checkpoint |-> g, head |-> s.head]
    BY <1>1 DEF RuntimeState, g
  <1>4. n \in RuntimeState
    BY <1>1, <1>2, <1>3, SMTT(30) DEF RuntimeState
  <1>5. KernelOK(n)
    BY <1>3, <1>4, AsideOK
  <1>6. QED
    BY <1>1, <1>3, <1>5, SucceedsSame

\* UsageAttemptStarted: an attempt a dead process left open is interrupted
\* first, so at most the newest is ever open.
LEMMA StartedOK ==
    ASSUME NEW s, KernelOK(s), s.pending.phase = "Admitted",
           NEW kind \in Kinds, NEW n, n = Started(s, kind)
    PROVE  /\ KernelOK(n) /\ Succeeds(s, n) /\ n.pending = s.pending
           /\ Len(n.turns) = Len(s.turns)
           /\ Attempts(n) # <<>> /\ Last(Attempts(n)).outcome = "open"
           /\ Last(Attempts(n)).kind = kind
           /\ Len(n.turns[Len(s.turns)].attempts) = Len(s.turns[Len(s.turns)].attempts) + 1
  <1> DEFINE l == Len(s.turns)
             ws == s.turns[l].attempts
             b == IF HasOpen(s) THEN Closed(s, "Interrupted", "none") ELSE s
             v == b.turns[l]
             cand == s.pending.candidate
             zs == Append(b.turns[l].attempts, NewAttempt(cand, kind))
             u == n.turns[l]
             vs == v.attempts
  <1>1. /\ s \in RuntimeState /\ l \in DOMAIN s.turns /\ l \in Nat /\ "none" \in Stages
        /\ TurnOK(s.turns[l], s.acknowledged) /\ PendingOK(s.turns[l], s.pending)
        /\ ws \in Seq(Attempt) /\ cand \in 0..MaxChain
    BY PendingFacts, TurnFields DEF Stages, Pending
  <1>2. /\ b \in RuntimeState /\ KeepsRest(s, b) /\ Changed(s, b, v)
        /\ b.pending = s.pending /\ b.items = s.items /\ b.acknowledged = s.acknowledged
        /\ v.delivery = 0 /\ v.ending = "none" /\ s.turns[l].delivery = 0
        /\ v.chain = s.turns[l].chain /\ v.attempts \in Seq(Attempt)
        /\ Len(v.attempts) = Len(ws) /\ AttemptsOK(v.attempts) /\ Follows(v.attempts, cand)
        /\ NoOpen(v.attempts) /\ (v.attempts # <<>> => ~Late(Last(v.attempts)))
    <2>1. CASE HasOpen(s)
      <3>1. InFlight(s)
        BY <2>1 DEF HasOpen, InFlight, Last
      <3>2. b = Closed(s, "Interrupted", "none")
        BY <2>1
      <3> HIDE DEF b
      <3>3. /\ b \in RuntimeState /\ KeepsRest(s, b) /\ Changed(s, b, v)
            /\ b.pending = s.pending /\ b.items = s.items /\ b.acknowledged = s.acknowledged
            /\ v.delivery = 0 /\ v.ending = "none" /\ s.turns[l].delivery = 0
            /\ v.chain = s.turns[l].chain /\ v.attempts \in Seq(Attempt)
            /\ Len(v.attempts) = Len(ws) /\ AttemptsOK(v.attempts) /\ Follows(v.attempts, cand)
            /\ NoOpen(v.attempts) /\ Last(v.attempts).outcome = "Interrupted"
        BY <1>1, <3>1, <3>2, FinishedState
      <3>4. QED
        BY <3>3 DEF Late
    <2>2. CASE ~HasOpen(s)
      <3>1. b = s /\ v = s.turns[l]
        BY <2>2
      <3>2. NoOpen(ws)
        <4>1. AttemptsOK(ws) /\ (ws # <<>> => ws[Len(ws)].outcome # "open")
          BY <1>1, <2>2 DEF TurnOK, HasOpen, Attempts, Current
        <4> HIDE DEF ws
        <4>2. QED
          BY <1>1, <4>1 DEF AttemptsOK, NoOpen
      <3>3. /\ s.turns[l].delivery = 0 /\ s.turns[l].ending = "none" /\ AttemptsOK(ws)
            /\ Follows(ws, cand) /\ (ws # <<>> => ~Late(Last(ws)))
        BY <1>1 DEF PendingOK, TurnOK
      <3>4. KeepsRest(s, s) /\ Changed(s, s, s.turns[l])
        BY DEF KeepsRest, Changed
      <3> HIDE DEF b
      <3>5. QED
        BY <1>1, <3>1, <3>2, <3>3, <3>4
    <2>3. QED
      BY <2>1, <2>2
  <1>3. n = WithAttempts(b, zs)
    <2>1. n = [b EXCEPT !.turns[l].attempts = zs]
      BY Zenon DEF Started, Current, NewAttempt
    <2> HIDE DEF b
    <2>2. Len(b.turns) = l
      BY <1>2 DEF Changed
    <2>3. QED
      BY <2>1, <2>2 DEF WithAttempts
  <1> HIDE DEF b
  <1>4. Len(b.turns) = l /\ Len(b.turns) \in DOMAIN b.turns
    BY <1>1, <1>2 DEF Changed
  <1>5. /\ zs \in Seq(Attempt) /\ zs # <<>> /\ Len(zs) = Len(ws) + 1
        /\ AttemptsOK(zs) /\ Follows(zs, cand) /\ ~Late(Last(zs))
        /\ Last(zs).outcome = "open" /\ Last(zs).kind = kind
    <2> HIDE DEF ws, cand, v
    <2>1. zs = StartedAttempts(vs, cand, kind)
      BY DEF v, StartedAttempts
    <2>2. cand \in Candidates
      BY <1>1 DEF Candidates
    <2>3. /\ vs \in Seq(Attempt) /\ AttemptsOK(vs) /\ Follows(vs, cand)
          /\ NoOpen(vs) /\ (vs # <<>> => ~Late(Last(vs))) /\ Len(vs) = Len(ws)
      BY <1>2
    <2> HIDE DEF zs, vs
    <2>4. /\ zs \in Seq(Attempt) /\ zs # <<>> /\ Len(zs) = Len(vs) + 1
          /\ AttemptsOK(zs) /\ Follows(zs, cand) /\ ~Late(Last(zs))
          /\ Last(zs).outcome = "open" /\ Last(zs).kind = kind
      BY <2>1, <2>2, <2>3, StartAttempt
    <2>5. QED
      BY <2>3, <2>4
  <1> HIDE DEF zs
  <1>6. /\ n \in RuntimeState /\ KeepsRest(b, n)
        /\ n.pending = b.pending /\ n.items = b.items /\ n.acknowledged = b.acknowledged
        /\ Changed(b, n, u) /\ u.attempts = zs /\ u.delivery = v.delivery
        /\ u.ending = v.ending /\ u.chain = v.chain
    BY <1>2, <1>3, <1>4, <1>5, WithAttemptsFields
  <1>7. Changed(s, n, u)
    BY <1>2, <1>6 DEF Changed
  <1>8. n.pending = s.pending /\ n.items = s.items /\ n.acknowledged = s.acknowledged
        /\ n.staged = s.staged
    BY <1>2, <1>6 DEF KeepsRest
  <1>9. s.pending.candidate <= s.turns[l].chain
    BY <1>1 DEF PendingOK
  <1> HIDE DEF u, v
  <1>10. TurnOK(u, n.acknowledged)
    BY <1>2, <1>5, <1>6 DEF TurnOK
  <1>11. PendingOK(u, n.pending)
    BY <1>2, <1>5, <1>6, <1>8, <1>9 DEF PendingOK
  <1>12. KernelOK(n)
    BY <1>2, <1>6, <1>7, <1>8, <1>10, <1>11, CurrentTurnOK
  <1>13. Len(ws) \in Nat
    BY <1>1
  <1>14. Succeeds(s, n)
    BY <1>1, <1>2, <1>5, <1>6, <1>7, <1>8, <1>13, SucceedsChanged, SMTT(30)
  <1>15. Attempts(n) = zs /\ Len(n.turns) = l /\ n.turns[l].attempts = zs
    BY <1>6, <1>7 DEF Attempts, Current, Changed, u
  <1>16. QED
    BY <1>5, <1>8, <1>12, <1>14, <1>15

-----------------------------------------------------------------------------
(* Steps of the thread, of its callers and of the process.                   *)

StepType == [at : {"idle", "begin", "provider", "advance", "tool", "block"}, turn : Nat,
             kind : {"initial", "continuation"}, who : Callers, loop : BOOLEAN,
             call : CallIds \cup {"none"}]

\* What a step may move to without a request of its own in flight.
Calm(next) ==
    /\ next \in StepType /\ next.at # "provider"
    /\ next.at = "tool" => next.call \in CallIds /\ next.who \in Agents

\* The variables a transaction leaves to its caller.
RestOK ==
    /\ approvals \subseteq [turn : Nat, call : CallIds, who : Agents]
    /\ draft \subseteq Nat
    /\ tools \in [(1..MaxTurns) \X CallIds -> [status : ToolStatus, agent : Callers]]
    /\ active \subseteq Agents /\ teamBusy \in BOOLEAN
    /\ sent \in [1..MaxTurns -> Nat]

LEMMA InvParts ==
    ASSUME KernelInv
    PROVE  /\ RestOK /\ step \in StepType /\ mode \in {"closed", "open", "poisoned"}
           /\ KernelOK(live) /\ KernelOK(durable) /\ live \in RuntimeState
           /\ durable \in RuntimeState /\ (mode = "open" => live = durable)
           /\ StepOK /\ SentOK
  BY DEF KernelInv, TypeOK, RestOK, StepType

LEMMA IdleIsCalm ==
    Idle.at = "idle" /\ Calm(Idle)
  BY DEF Idle, Calm, StepType, Callers

\* The Ledger after a transaction, whether or not its receipt came back.
LEMMA CommitOK ==
    ASSUME KernelInv, NEW s, KernelOK(s), Succeeds(live, s), NEW next, Commit(s, next)
    PROVE  /\ KernelOK(live') /\ KernelOK(durable') /\ (mode' = "open" => live' = durable')
           /\ Succeeds(durable, durable')
           /\ \/ /\ mode = "open" /\ mode' = "open"
                 /\ live' = Bumped(s) /\ durable' = Bumped(s) /\ step' = next
              \/ mode' = "poisoned" /\ step' = Idle
  <1>1. s \in RuntimeState /\ durable \in RuntimeState
    BY InvParts DEF KernelOK
  <1>2. /\ Bumped(s) \in RuntimeState /\ Bumped(s).turns = s.turns
        /\ Bumped(s).pending = s.pending /\ Bumped(s).items = s.items
        /\ Bumped(s).acknowledged = s.acknowledged /\ Bumped(s).staged = s.staged
    BY <1>1, BumpedFields
  <1>3. KernelOK(Bumped(s))
    BY <1>2, AsideOK
  <1>4. Succeeds(live, Bumped(s))
    BY <1>2 DEF Succeeds
  <1>5. mode = "open" => Succeeds(durable, Bumped(s))
    BY <1>4, InvParts
  <1>6. Succeeds(durable, durable)
    BY <1>1, SucceedsItself
  <1>7. \/ mode = "open" /\ live' = Bumped(s) /\ durable' = Bumped(s) /\ step' = next
           /\ mode' = mode
        \/ /\ durable' = durable \/ (mode = "open" /\ durable' = Bumped(s))
           /\ live' = live /\ step' = Idle /\ mode' = "poisoned"
    BY Zenon DEF Commit, Bumped
  <1>8. QED
    BY <1>3, <1>5, <1>6, <1>7, InvParts

LEMMA SentStaysCovered ==
    ASSUME KernelInv, KernelOK(durable'), Succeeds(durable, durable'), NEW t \in 1..MaxTurns
    PROVE  /\ t \notin DOMAIN durable'.turns => sent[t] = 0
           /\ t \in DOMAIN durable'.turns => sent[t] <= Len(durable'.turns[t].attempts)
  <1>1. /\ t \notin DOMAIN durable.turns => sent[t] = 0
        /\ t \in DOMAIN durable.turns => sent[t] <= Len(durable.turns[t].attempts)
    BY InvParts DEF SentOK
  <1>2. sent[t] \in Nat /\ durable \in RuntimeState /\ durable' \in RuntimeState
    BY InvParts DEF RestOK, KernelOK
  <1>3. t \in DOMAIN durable'.turns => Len(durable'.turns[t].attempts) \in Nat
    BY <1>2, TurnFields
  <1>4. CASE t \in DOMAIN durable.turns
    <2>1. /\ t \in DOMAIN durable'.turns
          /\ Len(durable.turns[t].attempts) <= Len(durable'.turns[t].attempts)
      BY <1>4 DEF Succeeds
    <2>2. Len(durable.turns[t].attempts) \in Nat
      BY <1>2, <1>4, TurnFields
    <2>3. QED
      BY <1>1, <1>2, <1>3, <1>4, <2>1, <2>2
  <1>5. CASE t \notin DOMAIN durable.turns
    BY <1>1, <1>2, <1>3, <1>5
  <1>6. QED
    BY <1>4, <1>5

LEMMA SentKept ==
    ASSUME KernelInv, KernelOK(durable'), Succeeds(durable, durable'), sent' = sent
    PROVE  SentOK'
  BY SentStaysCovered DEF SentOK

\* Every transaction but the start of an attempt.
LEMMA CommitStep ==
    ASSUME KernelInv, NEW s, KernelOK(s), Succeeds(live, s), NEW next, Calm(next),
           Commit(s, next), RestOK', sent' = sent
    PROVE  KernelInv' /\ Succeeds(durable, durable')
  <1>1. /\ KernelOK(live') /\ KernelOK(durable') /\ (mode' = "open" => live' = durable')
        /\ Succeeds(durable, durable') /\ mode' \in {"open", "poisoned"}
        /\ step' = next \/ step' = Idle
    BY CommitOK
  <1>2. Calm(step')
    BY <1>1, IdleIsCalm
  <1>3. StepOK'
    BY <1>2 DEF StepOK, Calm
  <1>4. live' \in RuntimeState /\ durable' \in RuntimeState /\ step' \in StepType
    BY <1>1, <1>2 DEF KernelOK, Calm
  <1>5. TypeOK'
    BY <1>1, <1>4 DEF TypeOK, RestOK, StepType
  <1>6. SentOK'
    BY <1>1, SentKept
  <1>7. QED
    BY <1>1, <1>3, <1>5, <1>6 DEF KernelInv

\* A step that commits nothing.
LEMMA QuietStep ==
    ASSUME KernelInv, UNCHANGED <<live, durable, mode, sent>>, RestOK',
           step' = step \/ Calm(step')
    PROVE  KernelInv' /\ Succeeds(durable, durable')
  <1>1. /\ live' = live /\ durable' = durable /\ mode' = mode /\ sent' = sent
    OBVIOUS
  <1>2. Succeeds(durable, durable')
    BY <1>1, InvParts, SucceedsItself
  <1>3. StepOK'
    <2>1. CASE step' = step
      BY <1>1, <2>1, InvParts DEF StepOK, Drivable, Current
    <2>2. CASE Calm(step')
      BY <2>2 DEF StepOK, Calm
    <2>3. QED
      BY <2>1, <2>2
  <1>4. step' \in StepType
    BY InvParts DEF Calm
  <1>5. TypeOK'
    BY <1>1, <1>4, InvParts DEF TypeOK, RestOK, StepType
  <1>6. SentOK'
    BY <1>1, InvParts DEF SentOK
  <1>7. QED
    BY <1>1, <1>2, <1>3, <1>5, <1>6, InvParts DEF KernelInv

\* Most steps leave the rest alone.
LEMMA RestKept ==
    ASSUME KernelInv, UNCHANGED <<approvals, draft, tools, team, sent>>
    PROVE  RestOK' /\ sent' = sent
  BY InvParts DEF RestOK, team

LEMMA ProviderFacts ==
    ASSUME KernelInv, step.at = "provider"
    PROVE  /\ InFlight(live) /\ KernelOK(live) /\ step \in StepType
           /\ Last(Attempts(live)).kind = step.kind
  BY InvParts DEF StepOK, InFlight, Drivable

LEMMA StageStep ==
    ASSUME KernelInv, Stage
    PROVE  KernelInv' /\ Succeeds(durable, durable')
  <1>1. PICK a \in Agents, c \in Configs :
          /\ \A q \in live.staged : q.agent = a
          /\ Commit([live EXCEPT !.staged = {[agent |-> a, config |-> c]}], Idle)
    BY DEF Stage
  <1> DEFINE n == [live EXCEPT !.staged = {[agent |-> a, config |-> c]}]
  <1>2. KernelOK(n) /\ Succeeds(live, n)
    BY <1>1, InvParts, StagedOK
  <1>3. RestOK' /\ sent' = sent
    BY RestKept DEF Stage
  <1>4. Commit(n, Idle)
    BY <1>1
  <1> HIDE DEF n
  <1>5. QED
    BY <1>2, <1>3, <1>4, CommitStep, IdleIsCalm

LEMMA PrepareCheckpointStep ==
    ASSUME KernelInv, PrepareCheckpoint
    PROVE  KernelInv' /\ Succeeds(durable, durable')
  <1>1. live.head \in Nat
    BY InvParts, StateFields
  <1>2. RestOK'
    BY <1>1, InvParts DEF PrepareCheckpoint, RestOK, team
  <1>3. QED
    BY <1>2, QuietStep DEF PrepareCheckpoint

LEMMA PublishCheckpointStep ==
    ASSUME KernelInv, PublishCheckpoint
    PROVE  KernelInv' /\ Succeeds(durable, durable')
  <1>1. PICK h \in draft :
          Commit([live EXCEPT !.checkpoint = {[source |-> h, at |-> live.head + 1]}], Idle)
    BY DEF PublishCheckpoint
  <1> DEFINE at == live.head + 1
             n == [live EXCEPT !.checkpoint = {[source |-> h, at |-> at]}]
  <1>2. h \in Nat /\ at \in Nat
    BY InvParts, StateFields DEF RestOK
  <1>3. Commit(n, Idle)
    BY <1>1
  <1> HIDE DEF at
  <1>4. KernelOK(n) /\ Succeeds(live, n)
    BY <1>2, InvParts, CheckpointOK
  <1>5. RestOK' /\ sent' = sent
    BY InvParts DEF PublishCheckpoint, RestOK, team
  <1> HIDE DEF n
  <1>6. QED
    BY <1>3, <1>4, <1>5, CommitStep, IdleIsCalm

LEMMA AdmitStep ==
    ASSUME KernelInv, Admit
    PROVE  KernelInv' /\ Succeeds(durable, durable')
  <1>1. PICK who \in Callers, config \in Configs, chain \in 0..MaxChain :
          /\ MatchesStaged(who, config)
          /\ Commit(Admitted(live, who, config, chain),
                    [Idle EXCEPT !.at = "begin", !.turn = Current(live) + 1, !.who = who,
                                 !.loop = TRUE])
    BY DEF Admit
  <1> DEFINE n == Admitted(live, who, config, chain)
             tn == Current(live) + 1
             next == [Idle EXCEPT !.at = "begin", !.turn = tn, !.who = who, !.loop = TRUE]
  <1>2. live.pending.phase = "None" /\ Len(live.turns) < MaxTurns
    BY DEF Admit, RequireReady, Current
  <1>3. \A q \in live.staged : q.agent = who /\ q.config = config
    BY <1>1 DEF MatchesStaged
  <1>4. KernelOK(n) /\ Succeeds(live, n)
    BY <1>2, <1>3, InvParts, AdmittedOK
  <1>5. Calm(next)
    <2>1. tn \in Nat
      BY InvParts, StateFields DEF Current
    <2> HIDE DEF tn
    <2>2. QED
      BY <2>1 DEF Calm, StepType, Idle
  <1>6. RestOK' /\ sent' = sent
    BY RestKept DEF Admit
  <1>7. Commit(n, next)
    BY <1>1
  <1> HIDE DEF n, next
  <1>8. QED
    BY <1>4, <1>5, <1>6, <1>7, CommitStep

\* The attempt is durable, and open, before the request leaves.
LEMMA BeginStep ==
    ASSUME KernelInv, Begin
    PROVE  KernelInv' /\ Succeeds(durable, durable')
  <1> DEFINE n == Started(live, step.kind)
             next == [step EXCEPT !.at = "provider"]
             l == Len(live.turns)
  <1>1. /\ step.at = "begin" /\ live.pending.phase = "Admitted" /\ step.turn = l
        /\ Commit(n, next)
        /\ sent' = IF mode' = "open" THEN [sent EXCEPT ![step.turn] = @ + 1] ELSE sent
    BY DEF Begin, Drivable, Current
  <1>2. step.kind \in Kinds /\ step \in StepType
    BY InvParts DEF StepType, Kinds
  <1>3. /\ KernelOK(n) /\ Succeeds(live, n) /\ n.pending = live.pending
        /\ Len(n.turns) = l /\ Attempts(n) # <<>> /\ Last(Attempts(n)).outcome = "open"
        /\ Last(Attempts(n)).kind = step.kind
        /\ Len(n.turns[l].attempts) = Len(live.turns[l].attempts) + 1
    BY <1>1, <1>2, InvParts, StartedOK
  <1>4. /\ next \in StepType /\ next.at = "provider" /\ next.turn = step.turn
        /\ next.kind = step.kind
    BY <1>2 DEF StepType
  <1>5. /\ l \in Nat /\ l \in DOMAIN live.turns /\ l >= 1 /\ l <= MaxTurns
        /\ live \in RuntimeState
    BY <1>1, InvParts, PendingFacts DEF KernelOK
  <1> HIDE DEF n, next, l
  <1>6. /\ KernelOK(live') /\ KernelOK(durable') /\ (mode' = "open" => live' = durable')
        /\ Succeeds(durable, durable')
        /\ \/ /\ mode = "open" /\ mode' = "open"
              /\ live' = Bumped(n) /\ durable' = Bumped(n) /\ step' = next
           \/ mode' = "poisoned" /\ step' = Idle
    BY <1>1, <1>3, CommitOK
  <1>7. /\ approvals' = approvals /\ draft' = draft /\ tools' = tools /\ active' = active
        /\ teamBusy' = teamBusy
    BY DEF Begin, team
  <1>8. step.turn \in 1..MaxTurns
    BY <1>1, <1>5, KernelBoundsAssumption
  <1>9. sent' \in [1..MaxTurns -> Nat]
    BY <1>1, <1>8, InvParts DEF RestOK
  <1>10. RestOK'
    BY <1>7, <1>9, InvParts DEF RestOK
  <1>11. step' \in StepType /\ live' \in RuntimeState /\ durable' \in RuntimeState
    BY <1>4, <1>6, IdleIsCalm DEF Calm, KernelOK
  <1>12. TypeOK'
    BY <1>6, <1>10, <1>11 DEF TypeOK, RestOK, StepType
  <1>13. CASE mode' = "poisoned" /\ step' = Idle
    <2>1. sent' = sent
      BY <1>1, <1>13
    <2>2. SentOK'
      BY <1>6, <2>1, SentKept
    <2>3. StepOK'
      BY <1>13, IdleIsCalm DEF StepOK
    <2>4. QED
      BY <1>6, <1>12, <1>13, <2>2, <2>3 DEF KernelInv
  <1>14. CASE /\ mode = "open" /\ mode' = "open"
              /\ live' = Bumped(n) /\ durable' = Bumped(n) /\ step' = next
    <2>1. n \in RuntimeState
      BY <1>3 DEF KernelOK
    <2>2. live'.turns = n.turns /\ live'.pending = n.pending /\ durable'.turns = n.turns
      BY <1>14, <2>1, BumpedFields
    <2>3. StepOK'
      <3>1. Current(live') = step'.turn /\ live'.pending.phase = "Admitted"
        BY <1>1, <1>3, <1>4, <1>14, <2>2 DEF Current
      <3>2. Attempts(live') = Attempts(n)
        BY <2>2 DEF Attempts, Current
      <3>3. QED
        BY <1>3, <1>4, <1>14, <3>1, <3>2 DEF StepOK, Drivable
    <2>4. SentOK'
      <3> SUFFICES ASSUME NEW t \in 1..MaxTurns
                   PROVE  /\ t \notin DOMAIN durable'.turns => sent'[t] = 0
                          /\ t \in DOMAIN durable'.turns =>
                                sent'[t] <= Len(durable'.turns[t].attempts)
        BY DEF SentOK
      <3>1. sent \in [1..MaxTurns -> Nat] /\ sent' = [sent EXCEPT ![l] = @ + 1]
        BY <1>1, <1>14, InvParts DEF RestOK
      <3>2. CASE t # l
        <4>1. sent'[t] = sent[t]
          BY <3>1, <3>2
        <4>2. QED
          BY <1>6, <4>1, SentStaysCovered
      <3>3. CASE t = l
        <4>1. sent'[l] = sent[l] + 1 /\ sent[l] \in Nat
          BY <3>1, <3>3
        <4>2. live = durable
          BY <1>14, InvParts
        <4>3. sent[l] <= Len(live.turns[l].attempts)
          BY <1>5, <3>3, <4>2, InvParts DEF SentOK
        <4>4. Len(live.turns[l].attempts) \in Nat
          BY <1>5, TurnFields
        <4>5. Len(durable'.turns[l].attempts) = Len(live.turns[l].attempts) + 1
          BY <1>3, <2>2
        <4>6. l \in DOMAIN durable'.turns
          BY <1>5, <1>6, <4>2 DEF Succeeds
        <4>7. QED
          BY <3>3, <4>1, <4>3, <4>4, <4>5, <4>6
      <3>4. QED
        BY <3>2, <3>3
    <2>5. QED
      BY <1>6, <1>12, <1>14, <2>3, <2>4 DEF KernelInv
  <1>15. QED
    BY <1>6, <1>13, <1>14

LEMMA ProviderFailsStep ==
    ASSUME KernelInv, ProviderFails
    PROVE  KernelInv' /\ Succeeds(durable, durable')
  <1>1. PICK stage \in FailureStages :
          Commit(Blocked(Closed(live, "Failed", stage), "Provider",
                         BlockingStage(step.kind, stage)),
                 IF step.loop /\ step.kind = "initial" THEN [step EXCEPT !.at = "advance"]
                                                       ELSE Idle)
    BY DEF ProviderFails
  <1> DEFINE bst == BlockingStage(step.kind, stage)
             n == Blocked(Closed(live, "Failed", stage), "Provider", bst)
             next == IF step.loop /\ step.kind = "initial" THEN [step EXCEPT !.at = "advance"]
                                                           ELSE Idle
  <1>2. /\ InFlight(live) /\ KernelOK(live) /\ step \in StepType
        /\ Last(Attempts(live)).kind = step.kind
    BY ProviderFacts DEF ProviderFails
  <1>3. stage \in Stages
    BY StagesAssumption DEF Stages
  <1>4. bst \in Stages /\ (bst \in Early => bst = stage /\ step.kind = "initial")
    BY <1>3 DEF BlockingStage, Stages, Early
  <1>5. Calm([step EXCEPT !.at = "advance"])
    BY <1>2 DEF Calm, StepType
  <1>6. Calm(next)
    BY <1>5, IdleIsCalm
  <1>7. Commit(n, next)
    BY <1>1
  <1> HIDE DEF bst, next
  <1>8. KernelOK(n) /\ Succeeds(live, n)
    BY <1>2, <1>3, <1>4, FailedOK
  <1>9. RestOK' /\ sent' = sent
    BY RestKept DEF ProviderFails
  <1> HIDE DEF n
  <1>10. QED
    BY <1>6, <1>7, <1>8, <1>9, CommitStep

LEMMA ProviderCompletesStep ==
    ASSUME KernelInv, ProviderCompletes
    PROVE  KernelInv' /\ Succeeds(durable, durable')
  <1> DEFINE n == Prepared(Closed(live, "Succeeded", "none"))
  <1>1. InFlight(live) /\ KernelOK(live)
    BY ProviderFacts DEF ProviderCompletes
  <1>2. KernelOK(n) /\ Succeeds(live, n)
    BY <1>1, PreparedOK
  <1>3. RestOK' /\ sent' = sent /\ Commit(n, Idle)
    BY RestKept DEF ProviderCompletes
  <1> HIDE DEF n
  <1>4. QED
    BY <1>2, <1>3, CommitStep, IdleIsCalm

LEMMA ProviderRejectedStep ==
    ASSUME KernelInv, ProviderRejected
    PROVE  KernelInv' /\ Succeeds(durable, durable')
  <1> DEFINE n == Blocked(Closed(live, "Succeeded", "none"), "Provider", "none")
  <1>1. InFlight(live) /\ KernelOK(live)
    BY ProviderFacts DEF ProviderRejected
  <1>2. "none" \in Stages /\ "none" \notin Early
    BY DEF Stages, Early
  <1>3. KernelOK(n) /\ Succeeds(live, n)
    BY <1>1, <1>2, FailedOK
  <1>4. RestOK' /\ sent' = sent /\ Commit(n, Idle)
    BY RestKept DEF ProviderRejected
  <1> HIDE DEF n
  <1>5. QED
    BY <1>3, <1>4, CommitStep, IdleIsCalm

LEMMA ProviderCallsToolStep ==
    ASSUME KernelInv, ProviderCallsTool
    PROVE  KernelInv' /\ Succeeds(durable, durable')
  <1>1. PICK c \in CallIds :
          Commit(Closed(live, "Succeeded", "none"), [step EXCEPT !.at = "tool", !.call = c])
    BY DEF ProviderCallsTool
  <1> DEFINE n == Closed(live, "Succeeded", "none")
             next == [step EXCEPT !.at = "tool", !.call = c]
  <1>2. InFlight(live) /\ KernelOK(live) /\ step \in StepType
    BY ProviderFacts DEF ProviderCallsTool
  <1>3. step.who \in Agents
    BY <1>2 DEF ProviderCallsTool, StepType, Callers
  <1>4. Calm(next)
    BY <1>2, <1>3 DEF Calm, StepType
  <1>5. KernelOK(n) /\ Succeeds(live, n)
    BY <1>2, ClosedOK
  <1>6. RestOK' /\ sent' = sent
    BY RestKept DEF ProviderCallsTool
  <1>7. Commit(n, next)
    BY <1>1
  <1> HIDE DEF n, next
  <1>8. QED
    BY <1>4, <1>5, <1>6, <1>7, CommitStep

LEMMA AdvanceFallbackStep ==
    ASSUME KernelInv, AdvanceFallback
    PROVE  KernelInv' /\ Succeeds(durable, durable')
  <1> DEFINE n == Advanced(live)
             next == [step EXCEPT !.at = "begin"]
  <1>1. KernelOK(n) /\ Succeeds(live, n)
    BY InvParts, AdvancedOK DEF AdvanceFallback
  <1>2. Calm(next)
    BY InvParts DEF Calm, StepType
  <1>3. RestOK' /\ sent' = sent /\ Commit(n, next)
    BY RestKept DEF AdvanceFallback
  <1> HIDE DEF n, next
  <1>4. QED
    BY <1>1, <1>2, <1>3, CommitStep

\* BeginRefused, NoFallback and ToolRefused give the call up.
LEMMA ReturnsStep ==
    ASSUME KernelInv, BeginRefused \/ NoFallback \/ ToolRefused
    PROVE  KernelInv' /\ Succeeds(durable, durable')
  <1>1. /\ step' = Idle
        /\ UNCHANGED <<live, durable, mode, approvals, draft, tools, team, sent>>
    BY DEF BeginRefused, NoFallback, ToolRefused
  <1>2. RestOK'
    BY <1>1, RestKept
  <1>3. QED
    BY <1>1, <1>2, IdleIsCalm, QuietStep

LEMMA ToolRequestedStep ==
    ASSUME KernelInv, ToolRequested
    PROVE  KernelInv' /\ Succeeds(durable, durable')
  <1> DEFINE i == <<step.turn, step.call>>
             w == [status |-> "AwaitingApproval", agent |-> step.who]
             ap == [turn |-> step.turn, call |-> step.call, who |-> step.who]
  <1>1. /\ step' = Idle /\ UNCHANGED <<live, durable, mode, draft, team, sent>>
        /\ tools' = [tools EXCEPT ![i] = w] /\ approvals' = approvals \cup {ap}
    BY DEF ToolRequested, Identity
  <1>2. step.call \in CallIds /\ step.who \in Agents /\ step.turn \in Nat
    BY InvParts DEF ToolRequested, StepOK, StepType
  <1>3. w \in [status : ToolStatus, agent : Callers]
    BY <1>2 DEF ToolStatus, Callers
  <1>4. ap \in [turn : Nat, call : CallIds, who : Agents]
    BY <1>2
  <1> HIDE DEF i, w, ap
  <1>5. tools' \in [(1..MaxTurns) \X CallIds -> [status : ToolStatus, agent : Callers]]
    BY <1>1, <1>3, InvParts DEF RestOK
  <1>6. RestOK'
    BY <1>1, <1>4, <1>5, InvParts DEF RestOK, team
  <1>7. QED
    BY <1>1, <1>6, IdleIsCalm, QuietStep

LEMMA ToolUnusableStep ==
    ASSUME KernelInv, ToolUnusable
    PROVE  KernelInv' /\ Succeeds(durable, durable')
  <1>1. Calm([step EXCEPT !.at = "block"])
    BY InvParts DEF Calm, StepType
  <1>2. RestOK' /\ UNCHANGED <<live, durable, mode, sent>> /\ Calm(step')
    BY <1>1, RestKept DEF ToolUnusable
  <1>3. QED
    BY <1>2, QuietStep

\* A Tool that has run, or was denied, leaves the rest of the Ledger alone.
LEMMA StatusSet ==
    ASSUME RestOK, NEW i, NEW st \in ToolStatus, tools' = [tools EXCEPT ![i].status = st]
    PROVE  tools' \in [(1..MaxTurns) \X CallIds -> [status : ToolStatus, agent : Callers]]
  <1> DEFINE w == [tools[i] EXCEPT !.status = st]
  <1>1. tools' = [tools EXCEPT ![i] = w]
    OBVIOUS
  <1>2. CASE i \in (1..MaxTurns) \X CallIds
    <2>1. tools[i] \in [status : ToolStatus, agent : Callers]
      BY <1>2 DEF RestOK
    <2>2. w \in [status : ToolStatus, agent : Callers]
      BY <2>1
    <2> HIDE DEF w
    <2>3. QED
      BY <1>1, <2>2 DEF RestOK
  <1>3. CASE i \notin (1..MaxTurns) \X CallIds
    <2> HIDE DEF w
    <2>1. QED
      BY <1>1, <1>3 DEF RestOK
  <1>4. QED
    BY <1>2, <1>3

LEMMA ResolveToolStep ==
    ASSUME KernelInv, ResolveTool
    PROVE  KernelInv' /\ Succeeds(durable, durable')
  <1> DEFINE to(ap, at) == [Idle EXCEPT !.at = at, !.turn = ap.turn, !.who = ap.who,
                                        !.kind = "continuation"]
  <1>1. PICK ap \in approvals :
          /\ approvals' = approvals \ {ap}
          /\ \/ \E st \in Ran \cup {"Denied"} :
                  /\ tools' = [tools EXCEPT ![Identity(ap.turn, ap.call)].status = st]
                  /\ step' \in {to(ap, "begin"), to(ap, "block"), Idle}
             \/ UNCHANGED <<tools, step>>
    BY DEF ResolveTool
  <1>2. ap.turn \in Nat /\ ap.who \in Callers
    BY InvParts DEF RestOK, Callers
  <1>3. Calm(to(ap, "begin")) /\ Calm(to(ap, "block"))
    BY <1>2 DEF Calm, StepType, Idle
  <1> HIDE DEF to
  <1>4. UNCHANGED <<live, durable, mode, draft, team, sent>>
    BY DEF ResolveTool
  <1>5. step' = step \/ Calm(step')
    BY <1>1, <1>3, IdleIsCalm
  <1>6. tools' \in [(1..MaxTurns) \X CallIds -> [status : ToolStatus, agent : Callers]]
    <2>1. CASE UNCHANGED <<tools, step>>
      BY <2>1, InvParts DEF RestOK
    <2>2. ASSUME NEW st \in Ran \cup {"Denied"},
                 tools' = [tools EXCEPT ![Identity(ap.turn, ap.call)].status = st]
          PROVE  tools' \in [(1..MaxTurns) \X CallIds -> [status : ToolStatus, agent : Callers]]
      <3>1. st \in ToolStatus
        BY DEF ToolStatus
      <3>2. QED
        BY <2>2, <3>1, InvParts, StatusSet
    <2>3. QED
      BY <1>1, <2>1, <2>2
  <1>7. RestOK'
    BY <1>1, <1>4, <1>6, InvParts DEF RestOK, team
  <1>8. QED
    BY <1>4, <1>5, <1>7, QuietStep

LEMMA ReconcileToolStep ==
    ASSUME KernelInv, ReconcileTool
    PROVE  KernelInv' /\ Succeeds(durable, durable')
  <1>1. PICK i \in ToolPending, st \in {"Succeeded", "Failed"} :
          tools' = [tools EXCEPT ![i].status = st]
    BY DEF ReconcileTool
  <1>2. st \in ToolStatus
    BY DEF ToolStatus, Ran
  <1>3. tools' \in [(1..MaxTurns) \X CallIds -> [status : ToolStatus, agent : Callers]]
    BY <1>1, <1>2, InvParts, StatusSet
  <1>4. UNCHANGED <<live, durable, mode, step, approvals, draft, team, sent>>
    BY DEF ReconcileTool
  <1>5. RestOK'
    BY <1>3, <1>4, InvParts DEF RestOK, team
  <1>6. QED
    BY <1>4, <1>5, QuietStep

LEMMA BlockPendingStep ==
    ASSUME KernelInv, BlockPending
    PROVE  KernelInv' /\ Succeeds(durable, durable')
  <1>1. RestOK' /\ sent' = sent
    BY RestKept DEF BlockPending
  <1>2. CASE Drivable(step.turn) /\ ~HasOpen(live)
    <2> DEFINE n == Blocked(live, "Other", "none")
    <2>1. live.pending.phase = "Admitted" /\ Commit(n, Idle)
      BY <1>2 DEF BlockPending, Drivable
    <2>2. KernelOK(n) /\ Succeeds(live, n)
      BY <1>2, <2>1, InvParts, BlockedOtherOK
    <2> HIDE DEF n
    <2>3. QED
      BY <1>1, <2>1, <2>2, CommitStep, IdleIsCalm
  <1>3. CASE ~(Drivable(step.turn) /\ ~HasOpen(live))
    <2>1. step' = Idle /\ UNCHANGED <<live, durable, mode, sent>>
      BY <1>1, <1>3 DEF BlockPending
    <2>2. QED
      BY <1>1, <2>1, IdleIsCalm, QuietStep
  <1>4. QED
    BY <1>2, <1>3

LEMMA ResumeStep ==
    ASSUME KernelInv, Resume
    PROVE  KernelInv' /\ Succeeds(durable, durable')
  <1> DEFINE tn == Current(live)
  <1>1. PICK who \in Callers : step' = [Idle EXCEPT !.at = "begin", !.turn = tn, !.who = who]
    BY DEF Resume
  <1>2. tn \in Nat
    BY InvParts, StateFields DEF Current
  <1>3. RestOK' /\ UNCHANGED <<live, durable, mode, sent>>
    BY RestKept DEF Resume
  <1> HIDE DEF tn
  <1>4. Calm(step')
    BY <1>1, <1>2 DEF Calm, StepType, Idle
  <1>5. QED
    BY <1>3, <1>4, QuietStep

LEMMA RetryStep ==
    ASSUME KernelInv, Retry
    PROVE  KernelInv' /\ Succeeds(durable, durable')
  <1> DEFINE n == Rearmed(live)
  <1>1. KernelOK(n) /\ Succeeds(live, n)
    BY InvParts, RearmedOK DEF Retry
  <1>2. RestOK' /\ sent' = sent /\ Commit(n, Idle)
    BY RestKept DEF Retry
  <1> HIDE DEF n
  <1>3. QED
    BY <1>1, <1>2, CommitStep, IdleIsCalm

LEMMA RecoverStep ==
    ASSUME KernelInv, Recover
    PROVE  KernelInv' /\ Succeeds(durable, durable')
  <1> DEFINE n == IF MoreCandidates(live) THEN Advanced(live) ELSE Rearmed(live)
  <1>1. KernelOK(n) /\ Succeeds(live, n)
    BY InvParts, AdvancedOK, RearmedOK DEF Recover
  <1>2. RestOK' /\ sent' = sent /\ Commit(n, Idle)
    BY RestKept DEF Recover
  <1> HIDE DEF n
  <1>3. QED
    BY <1>1, <1>2, CommitStep, IdleIsCalm

LEMMA CancelStep ==
    ASSUME KernelInv, Cancel
    PROVE  KernelInv' /\ Succeeds(durable, durable')
  <1> DEFINE n == Cancelled(live)
  <1>1. KernelOK(n) /\ Succeeds(live, n)
    BY InvParts, CancelledOK DEF Cancel
  <1>2. RestOK' /\ sent' = sent /\ Commit(n, Idle)
    BY RestKept DEF Cancel
  <1> HIDE DEF n
  <1>3. QED
    BY <1>1, <1>2, CommitStep, IdleIsCalm

LEMMA AcknowledgeStep ==
    ASSUME KernelInv, Acknowledge
    PROVE  KernelInv' /\ Succeeds(durable, durable')
  <1> DEFINE n == Acknowledged(live)
  <1>1. KernelOK(n) /\ Succeeds(live, n)
    BY InvParts, AcknowledgedOK DEF Acknowledge
  <1>2. RestOK' /\ sent' = sent /\ Commit(n, Idle)
    BY RestKept DEF Acknowledge
  <1> HIDE DEF n
  <1>3. QED
    BY <1>1, <1>2, CommitStep, IdleIsCalm

LEMMA TeamStep ==
    ASSUME KernelInv, TeamCommand \/ TeamAcknowledge
    PROVE  KernelInv' /\ Succeeds(durable, durable')
  <1>1. /\ UNCHANGED <<live, durable, mode, step, approvals, draft, tools, sent>>
        /\ active' \subseteq Agents /\ teamBusy' \in BOOLEAN
    BY InvParts DEF TeamCommand, TeamAcknowledge, RestOK
  <1>2. RestOK'
    BY <1>1, InvParts DEF RestOK
  <1>3. QED
    BY <1>1, <1>2, QuietStep

LEMMA EmptyOK ==
    KernelOK(EmptyState)
  <1>1. EmptyState \in RuntimeState
    BY ChainAssumption DEF EmptyState, RuntimeState, NoPending, Pending, Stages
  <1>2. /\ EmptyState.turns = <<>> /\ EmptyState.items = <<>>
        /\ EmptyState.pending.phase = "None"
    BY DEF EmptyState, NoPending
  <1>3. QED
    BY <1>1, <1>2, KernelBoundsAssumption DEF KernelOK, TurnsOK, CurrentOK, ItemsOK

LEMMA OpenStep ==
    ASSUME KernelInv, Open
    PROVE  KernelInv' /\ Succeeds(durable, durable')
  <1>1. /\ live' = durable /\ mode' = "open" /\ durable' = durable /\ step' = step
        /\ sent' = sent
    BY DEF Open
  <1>2. RestOK'
    BY RestKept DEF Open
  <1>3. step.at # "provider"
    BY InvParts DEF Open, StepOK
  <1>4. StepOK'
    BY <1>1, <1>3, InvParts DEF StepOK
  <1>5. TypeOK'
    BY <1>1, <1>2, InvParts DEF TypeOK, RestOK, StepType
  <1>6. SentOK'
    BY <1>1, InvParts DEF SentOK
  <1>7. Succeeds(durable, durable')
    BY <1>1, InvParts, SucceedsItself
  <1>8. QED
    BY <1>1, <1>4, <1>5, <1>6, <1>7, InvParts DEF KernelInv

LEMMA CrashStep ==
    ASSUME KernelInv, Crash
    PROVE  KernelInv' /\ Succeeds(durable, durable')
  <1>1. /\ live' = EmptyState /\ mode' = "closed" /\ durable' = durable /\ step' = Idle
        /\ sent' = sent /\ tools' = tools /\ active' = active /\ teamBusy' = teamBusy
        /\ approvals' = {} /\ draft' = {}
    BY DEF Crash, team
  <1>2. RestOK'
    BY <1>1, InvParts DEF RestOK
  <1>3. StepOK'
    BY <1>1, IdleIsCalm DEF StepOK
  <1>4. step' \in StepType /\ live' \in RuntimeState
    BY <1>1, IdleIsCalm, EmptyOK DEF Calm, KernelOK
  <1>5. TypeOK'
    BY <1>1, <1>2, <1>4, InvParts DEF TypeOK, RestOK, StepType
  <1>6. SentOK'
    BY <1>1, InvParts DEF SentOK
  <1>7. Succeeds(durable, durable')
    BY <1>1, InvParts, SucceedsItself
  <1>8. QED
    BY <1>1, <1>3, <1>5, <1>6, <1>7, EmptyOK, InvParts DEF KernelInv

LEMMA InitOK ==
    ASSUME Init
    PROVE  KernelInv
  <1>1. /\ live = EmptyState /\ durable = EmptyState /\ mode = "closed" /\ step = Idle
        /\ sent = [t \in 1..MaxTurns |-> 0]
    BY DEF Init
  <1>2. RestOK
    BY DEF Init, RestOK, ToolStatus, Callers
  <1>3. step \in StepType /\ live \in RuntimeState
    BY <1>1, IdleIsCalm, EmptyOK DEF Calm, KernelOK
  <1>4. TypeOK
    BY <1>1, <1>2, <1>3 DEF TypeOK, RestOK, StepType
  <1>5. StepOK
    BY <1>1, IdleIsCalm DEF StepOK
  <1>6. SentOK
    BY <1>1 DEF SentOK, EmptyState
  <1>7. QED
    BY <1>1, <1>4, <1>5, <1>6, EmptyOK DEF KernelInv

\* Every step of the Kernel, its callers and the process keeps the invariant,
\* and the Ledger it leaves behind succeeds the one it found.
LEMMA KernelStep ==
    ASSUME KernelInv, [Next]_vars
    PROVE  KernelInv' /\ Succeeds(durable, durable')
  <1>1. CASE UNCHANGED vars
    <2>1. /\ UNCHANGED <<live, durable, mode, sent>> /\ step' = step
          /\ UNCHANGED <<approvals, draft, tools, team, sent>>
      BY <1>1 DEF vars, team
    <2>2. QED
      BY <2>1, RestKept, QuietStep
  <1>2. CASE Thread
    BY <1>2, BeginStep, ReturnsStep, ProviderFailsStep, ProviderCompletesStep,
       ProviderRejectedStep, ProviderCallsToolStep, AdvanceFallbackStep, ToolRequestedStep,
       ToolUnusableStep, BlockPendingStep
       DEF Thread
  <1>3. CASE Call
    BY <1>3, StageStep, PrepareCheckpointStep, PublishCheckpointStep, AdmitStep,
       ResolveToolStep, ReconcileToolStep, ResumeStep, RetryStep, RecoverStep, CancelStep,
       AcknowledgeStep, TeamStep, OpenStep, CrashStep
       DEF Call
  <1>4. QED
    BY <1>1, <1>2, <1>3 DEF Next

\* The inductive invariant of the Runtime Kernel: memory and Ledger are folds in
\* which a retryable block stands on an early failure, a waiting thread has a
\* durable open attempt, and no request is uncovered.
THEOREM KernelInvariant == Spec => []KernelInv
  <1>1. Init => KernelInv
    BY InitOK
  <1>2. KernelInv /\ [Next]_vars => KernelInv'
    BY KernelStep
  <1>3. QED
    BY <1>1, <1>2, PTL DEF Spec

\* The variables keep their types.
THEOREM KernelTypes == Spec => []TypeOK
  <1>1. KernelInv => TypeOK
    BY DEF KernelInv
  <1>2. QED
    BY <1>1, KernelInvariant, PTL

\* Whatever the Kernel commits, and wherever a crash or a failed commit leaves
\* the Ledger, validate_quiescent accepts what it replays to.
THEOREM LedgerReplays == Spec => []FoldIsQuiescent
  <1>1. ASSUME KernelInv PROVE FoldIsQuiescent
    <2> DEFINE s == durable
    <2>1. KernelOK(s) /\ s \in RuntimeState
      BY <1>1, InvParts
    <2>2. TurnsOK(s) /\ CurrentOK(s) /\ ItemsOK(s)
      BY <2>1 DEF KernelOK
    <2>3. ASSUME NEW t \in DOMAIN s.turns
          PROVE  /\ Ended(t) <=> (t # Current(s) \/ s.pending.phase = "None")
                 /\ s.turns[t].ending = "completed" =>
                      s.turns[t].delivery # 0 /\ s.turns[t].delivery \in s.acknowledged
                 /\ s.turns[t].ending = "cancelled" => s.turns[t].delivery = 0
                 /\ \A k, m \in DOMAIN s.items :
                      s.items[k] = s.items[m] /\ s.items[k].turn = t => k = m
      <3>1. TurnOK(s.turns[t], s.acknowledged)
        BY <2>2, <2>3 DEF TurnsOK
      <3>2. t # Current(s) \/ s.pending.phase = "None" => Ended(t)
        BY <2>2, <2>3 DEF TurnsOK, Current, Ended
      <3>3. t = Current(s) /\ s.pending.phase # "None" => ~Ended(t)
        BY <2>2 DEF CurrentOK, PendingOK, Current, Ended
      <3>4. \A k, m \in DOMAIN s.items : s.items[k] = s.items[m] => k = m
        BY <2>2 DEF ItemsOK
      <3> HIDE DEF s
      <3>5. QED
        BY <3>1, <3>2, <3>3, <3>4 DEF TurnOK
    <2>4. s.pending.phase \in {"Admitted", "Blocked"} =>
            s.items[Len(s.items)] = [turn |-> Current(s), role |-> "User"]
      BY <2>2 DEF ItemsOK, Current
    <2>5. QED
      BY <2>3, <2>4 DEF FoldIsQuiescent
  <1>2. QED
    BY <1>1, KernelInvariant, PTL

\* Every Provider request is covered by a durable Usage Attempt, a candidate is
\* left only right after an early failure, and a late failure is the last
\* attempt of its Turn: for any chain, any retries and any crashes.
THEOREM AttemptsStaySafe == Spec => []AttemptsAreSafe
  <1>1. ASSUME KernelInv PROVE AttemptsAreSafe
    <2>1. /\ KernelOK(durable) /\ durable \in RuntimeState /\ SentOK
          /\ sent \in [1..MaxTurns -> Nat]
      BY <1>1, InvParts DEF RestOK
    <2>2. TurnsOK(durable) /\ CurrentOK(durable)
      BY <2>1 DEF KernelOK
    <2>3. ASSUME NEW t \in DOMAIN durable.turns
          PROVE  AttemptsOK(durable.turns[t].attempts)
      BY <2>2, <2>3 DEF TurnsOK, TurnOK
    <2>4. ASSUME NEW t \in DOMAIN durable.turns,
                 NEW k \in DOMAIN durable.turns[t].attempts,
                 durable.turns[t].attempts[k].outcome = "open"
          PROVE  /\ k = Len(durable.turns[t].attempts) /\ t = Current(durable)
                 /\ durable.pending.phase = "Admitted"
      <3>1. k = Len(durable.turns[t].attempts)
        BY <2>3, <2>4 DEF AttemptsOK
      <3>2. ~NoOpen(durable.turns[t].attempts)
        BY <2>4 DEF NoOpen
      <3>3. t = Len(durable.turns) /\ durable.pending.phase # "None"
        BY <2>2, <3>2 DEF TurnsOK
      <3>4. durable.pending.phase = "Admitted"
        BY <2>2, <3>2, <3>3 DEF CurrentOK, PendingOK
      <3>5. QED
        BY <3>1, <3>3, <3>4 DEF Current
    <2>5. RequestsAreBracketed
      <3> SUFFICES ASSUME NEW t \in 1..MaxTurns
                   PROVE  /\ t \notin DOMAIN durable.turns => sent[t] = 0
                          /\ t \in DOMAIN durable.turns =>
                                /\ sent[t] <= Len(durable.turns[t].attempts)
                                /\ \A k \in DOMAIN durable.turns[t].attempts :
                                      durable.turns[t].attempts[k].outcome = "open" =>
                                        /\ k = Len(durable.turns[t].attempts)
                                        /\ t = Current(durable)
                                        /\ durable.pending.phase = "Admitted"
        BY <2>1 DEF RequestsAreBracketed
      <3>1. QED
        BY <2>1, <2>4 DEF SentOK
    <2>6. SwitchOnlyAfterEarlyFailure
      BY <2>3 DEF SwitchOnlyAfterEarlyFailure, AttemptsOK, EarlyFailed
    <2>7. LateFailureIsFinal
      BY <2>3 DEF LateFailureIsFinal, AttemptsOK, Late
    <2>8. QED
      BY <2>5, <2>6, <2>7 DEF AttemptsAreSafe
  <1>2. QED
    BY <1>1, KernelInvariant, PTL

\* Prepared output is never replaced and no attempt is added to its Turn,
\* whatever approvals, retries and crashes follow.
THEOREM PreparedOutputIsFinal == Spec => OutputIsFinal
  <1>1. KernelInv /\ [Next]_vars =>
          [\A t \in DOMAIN durable.turns : durable.turns[t].delivery # 0 =>
             /\ durable'.turns[t].delivery = durable.turns[t].delivery
             /\ durable'.turns[t].attempts = durable.turns[t].attempts]_vars
    BY KernelStep DEF Succeeds
  <1>2. QED
    BY <1>1, KernelInvariant, PTL DEF Spec, OutputIsFinal

\* A staged Model selection is given up only to a Turn of its Agent under its
\* Config, or to another selection of the same Agent.
THEOREM StagedReachesItsTurn == Spec => StagedGoesToItsTurn
  <1>1. KernelInv /\ [Next]_vars =>
          [\A q \in durable.staged : q \notin durable'.staged =>
             \/ \E r \in durable'.staged : r.agent = q.agent
             \/ /\ Current(durable') = Current(durable) + 1
                /\ durable'.turns[Current(durable')].agent = q.agent
                /\ durable'.turns[Current(durable')].config = q.config]_vars
    BY KernelStep DEF Succeeds, Current
  <1>2. QED
    BY <1>1, KernelInvariant, PTL DEF Spec, StagedGoesToItsTurn
=============================================================================
