------------------------- MODULE CommandLineProofs -------------------------
(***************************************************************************)
(* Theorems about the composed application of CommandLine, for any number   *)
(* of Agents, Turns, Tool calls, Team operations and crashes: whatever the  *)
(* App Server and the processes of the command line do to the Ledgers, and  *)
(* wherever one of them dies, an effect the App Server runs was reviewed,   *)
(* what is closed was seen, and the owner of a pending Turn is Active.      *)
(* The arguments of a command agree with its line of USAGE.                 *)
(***************************************************************************)
EXTENDS CommandLine, ArgumentParser, SequenceTheorems, TLAPS

DiskFields == {"files", "torn", "agents", "op", "turns", "pending", "calls", "staged", "checkpoint"}
DriverFields == {"by", "at", "goal", "session", "call", "want", "decision", "reviewed", "saw", "res"}
Phases == {"None", "Admitted", "Prepared", "Blocked"}
Presets == {"none"} \cup {value.default : value \in ConfigValue}

Endings == {"none", "completed", "cancelled"}
AgentStatus == {"Active", "Dormant", "Completed", "Failed", "Cancelled"}
CallStatus == {"AwaitingApproval", "Denied", "ReconciliationRequired", "Succeeded", "Failed"}

Agent == [status : AgentStatus, parent : Nat, preset : Presets]
Turn == [owner : Nat, ending : Endings, executable : BOOLEAN]
ToolCall == [owner : Nat, turn : Nat, ident : CallId, args : Args, status : CallStatus]

DiskOK(d) ==
    /\ DOMAIN d = DiskFields
    /\ d.agents \in Seq(Agent) /\ d.turns \in Seq(Turn) /\ d.calls \in Seq(ToolCall)
    /\ DOMAIN d.op = {"id", "kind", "acked"} /\ d.op.id \in Nat /\ d.op.acked \in BOOLEAN
    /\ DOMAIN d.pending = {"phase", "origin", "retryable"} /\ d.pending.phase \in Phases

OwnerActive(d) ==
    d.pending.phase # "None" /\ Owner(d, CurrentTurn(d)) # Nobody
        => Owner(d, CurrentTurn(d)) \in Active(d)

CompletedIn(d, D) == \A t \in DOMAIN d.turns : d.turns[t].ending = "completed" => t \in D
AckedIn(d, P) == d.op.acked /\ d.op.id > 0 => d.op.id \in P

\* What the Ledgers hold, D being the Turns whose output was written out and P
\* the Team operations that were shown.
DiskSafe(d, D, P) == DiskOK(d) /\ OwnerActive(d) /\ CompletedIn(d, D) /\ AckedIn(d, P)

\* Where a driver has a Turn under way.
UnderWay == {"asking", "approval", "executing", "continuing"}

DriverOK ==
    /\ DOMAIN driver = DriverFields
    /\ driver.session \in Nat

\* What the open driver has done to get where it is.
PlaceOK ==
    /\ driver.at \in UnderWay => disk.pending.phase = "Admitted"
    /\ driver.at \in {"approval", "executing"} => driver.call \in DOMAIN disk.calls
    /\ driver.at = "deliver" => CurrentTurn(disk) \in delivered
    /\ driver.at = "acknowledge" => disk.op.id \in presented

\* A decision is about what was reviewed; an effect of the App Server is the
\* one decided about.
DecisionOK ==
    /\ driver.by = "server" /\ driver.goal = "decide" => driver.saw = driver.reviewed
    /\ driver.by = "server" /\ driver.at = "executing" => driver.saw = {Binding(disk, driver.call)}

ConnectionOK ==
    /\ config.value \in ConfigValue
    /\ DOMAIN server = {"config", "review"} /\ server.config.value \in ConfigValue
    /\ server.review \subseteq shown

AppInv ==
    /\ DiskSafe(disk, delivered, presented)
    /\ DriverOK /\ PlaceOK /\ DecisionOK /\ ConnectionOK
    /\ EffectsWereReviewed

-----------------------------------------------------------------------------
(* What the driver's functions leave of the Ledgers.                         *)

LEMMA StatusIs ==
    ASSUME NEW d, DiskOK(d)
    PROVE  /\ Status(d) = "Ready" <=> d.pending.phase = "None"
           /\ Status(d) = "ResumeRequired" <=> d.pending.phase = "Admitted"
           /\ Status(d) = "ReconciliationRequired" <=> d.pending.phase = "Prepared"
           /\ Status(d) = "Blocked" <=> d.pending.phase = "Blocked"
  BY DEF Status, DiskOK, Phases

LEMMA Larger ==
    ASSUME NEW d, NEW D, NEW P, DiskSafe(d, D, P), NEW E, NEW Q, D \subseteq E, P \subseteq Q
    PROVE  DiskSafe(d, E, Q)
  BY DEF DiskSafe, CompletedIn, AckedIn

\* Files, torn tails, the staged selection and the checkpoint play no part.
LEMMA SameCore ==
    ASSUME NEW d, NEW D, NEW P, DiskSafe(d, D, P), NEW e, DOMAIN e = DiskFields,
           e.agents = d.agents, e.op = d.op, e.turns = d.turns, e.pending = d.pending,
           e.calls = d.calls
    PROVE  DiskSafe(e, D, P)
  <1>1. DiskOK(e)
    BY DEF DiskSafe, DiskOK
  <1>2. OwnerActive(e)
    BY DEF DiskSafe, OwnerActive, Owner, CurrentTurn, Active
  <1>3. CompletedIn(e, D) /\ AckedIn(e, P)
    BY DEF DiskSafe, CompletedIn, AckedIn
  <1>4. QED
    BY <1>1, <1>2, <1>3 DEF DiskSafe

\* The end of the pending Turn, completed or cancelled.
EndTurn(d, ending) ==
    [d EXCEPT !.turns[CurrentTurn(d)].ending = ending, !.pending = NoTurn]

LEMMA EndTurnFields ==
    ASSUME NEW d, DiskOK(d), NEW ending \in Endings, NEW e, e = EndTurn(d, ending)
    PROVE  /\ DOMAIN e = DiskFields /\ e.agents = d.agents /\ e.op = d.op /\ e.calls = d.calls
           /\ e.pending = NoTurn /\ e.turns \in Seq(Turn) /\ Len(e.turns) = Len(d.turns)
           /\ DOMAIN e.turns = DOMAIN d.turns
           /\ \A t \in DOMAIN d.turns :
                 e.turns[t].ending = IF t = Len(d.turns) THEN ending ELSE d.turns[t].ending
  <1>1. PICK n : n = CurrentTurn(d)
    OBVIOUS
  <1>2. PICK r : r = [d.turns[n] EXCEPT !.ending = ending]
    OBVIOUS
  <1>3. PICK ts : ts = [d.turns EXCEPT ![n] = r]
    OBVIOUS
  <1>4. e = [d EXCEPT !.turns = ts, !.pending = NoTurn]
    BY <1>1, <1>2, <1>3 DEF EndTurn
  <1>5. /\ DOMAIN e = DiskFields /\ e.agents = d.agents /\ e.op = d.op /\ e.calls = d.calls
        /\ e.pending = NoTurn /\ e.turns = ts
    BY <1>4 DEF DiskOK, DiskFields
  <1>6. d.turns \in Seq(Turn) /\ n = Len(d.turns) /\ n \in Nat /\ DOMAIN d.turns = 1..n
    BY <1>1, LenProperties DEF DiskOK, CurrentTurn
  <1>7. n \in 1..n => d.turns[n] \in Turn
    BY <1>6
  <1>8. n \in 1..n => r \in Turn /\ r.ending = ending
    BY <1>2, <1>7 DEF Turn
  <1>9. /\ DOMAIN ts = 1..n
        /\ \A t \in 1..n : ts[t] = IF t = n THEN r ELSE d.turns[t]
    BY <1>3, <1>6
  <1>10. \A t \in 1..n : ts[t] \in Turn
    BY <1>6, <1>8, <1>9
  <1>11. ts \in Seq(Turn) /\ Len(ts) = n
    <2>1. ts = [t \in 1..n |-> ts[t]]
      BY <1>3, <1>6
    <2>2. ts \in [1..n -> Turn]
      BY <1>10, <2>1
    <2>3. QED
      BY <1>6, <2>2
  <1>12. QED
    BY <1>5, <1>6, <1>8, <1>9, <1>11

LEMMA EndTurnSafe ==
    ASSUME NEW d, NEW D, NEW P, DiskSafe(d, D, P), NEW ending \in Endings,
           ending = "completed" => CurrentTurn(d) \in D,
           NEW e, e = EndTurn(d, ending)
    PROVE  DiskSafe(e, D, P) /\ e.calls = d.calls /\ e.op = d.op
  <1>1. DiskOK(d)
    BY DEF DiskSafe
  <1>2. /\ DOMAIN e = DiskFields /\ e.agents = d.agents /\ e.op = d.op /\ e.calls = d.calls
        /\ e.pending = NoTurn /\ e.turns \in Seq(Turn) /\ Len(e.turns) = Len(d.turns)
        /\ DOMAIN e.turns = DOMAIN d.turns
        /\ \A t \in DOMAIN d.turns :
              e.turns[t].ending = IF t = Len(d.turns) THEN ending ELSE d.turns[t].ending
    BY <1>1, EndTurnFields
  <1>3. DiskOK(e) /\ OwnerActive(e)
    BY <1>1, <1>2 DEF DiskOK, NoTurn, Phases, OwnerActive
  <1>4. CompletedIn(e, D)
    BY <1>2 DEF DiskSafe, CompletedIn, CurrentTurn
  <1>5. AckedIn(e, P)
    BY <1>2 DEF DiskSafe, AckedIn
  <1>6. QED
    BY <1>2, <1>3, <1>4, <1>5 DEF DiskSafe

LEMMA CancelledSafe ==
    ASSUME NEW d, NEW D, NEW P, DiskSafe(d, D, P)
    PROVE  DiskSafe(Cancelled(d), D, P)
  <1>1. PICK ending \in Endings : ending = "cancelled"
    BY DEF Endings
  <1>2. Cancelled(d) = EndTurn(d, ending)
    BY <1>1, Zenon DEF Cancelled, EndTurn
  <1>3. ending = "completed" => CurrentTurn(d) \in D
    BY <1>1
  <1>4. QED
    BY <1>2, <1>3, EndTurnSafe

LEMMA AcknowledgedSafe ==
    ASSUME NEW d, NEW D, NEW P, DiskSafe(d, D, P), CurrentTurn(d) \in D
    PROVE  DiskSafe(Acknowledged(d), D, P)
  <1>1. PICK ending \in Endings : ending = "completed"
    BY DEF Endings
  <1>2. Acknowledged(d) = EndTurn(d, ending)
    BY <1>1, Zenon DEF Acknowledged, EndTurn
  <1>3. ending = "completed" => CurrentTurn(d) \in D
    BY <1>1
  <1>4. QED
    BY <1>2, <1>3, EndTurnSafe

\* A pending Turn stays pending: it is blocked, prepared or armed again.
LEMMA PendingSafe ==
    ASSUME NEW d, NEW D, NEW P, DiskSafe(d, D, P), d.pending.phase # "None",
           NEW pending, DOMAIN pending = {"phase", "origin", "retryable"}, pending.phase \in Phases,
           NEW e, e = [d EXCEPT !.pending = pending]
    PROVE  DiskSafe(e, D, P) /\ e.pending = pending /\ e.calls = d.calls
  <1>1. /\ DOMAIN e = DiskFields /\ e.agents = d.agents /\ e.op = d.op /\ e.calls = d.calls
        /\ e.turns = d.turns /\ e.pending = pending
    BY DEF DiskSafe, DiskOK, DiskFields
  <1>2. DiskOK(e)
    BY <1>1 DEF DiskSafe, DiskOK
  <1>3. OwnerActive(e)
    BY <1>1 DEF DiskSafe, OwnerActive, Owner, CurrentTurn, Active
  <1>4. CompletedIn(e, D) /\ AckedIn(e, P)
    BY <1>1 DEF DiskSafe, CompletedIn, AckedIn
  <1>5. QED
    BY <1>1, <1>2, <1>3, <1>4 DEF DiskSafe

Armed == [NoTurn EXCEPT !.phase = "Admitted"]
LEMMA ArmedIs == DOMAIN Armed = {"phase", "origin", "retryable"} /\ Armed.phase = "Admitted"
  BY DEF Armed, NoTurn

LEMMA RearmedSafe ==
    ASSUME NEW d, NEW D, NEW P, DiskSafe(d, D, P), d.pending.phase # "None"
    PROVE  DiskSafe(Rearmed(d), D, P)
  <1>1. Rearmed(d) = [d EXCEPT !.pending = Armed]
    BY Zenon DEF Rearmed, Armed
  <1>2. Armed.phase \in Phases
    BY ArmedIs DEF Phases
  <1>3. QED
    BY <1>1, <1>2, ArmedIs, PendingSafe

LEMMA BlockSafe ==
    ASSUME NEW d, NEW D, NEW P, DiskSafe(d, D, P), d.pending.phase # "None",
           NEW origin, NEW retryable
    PROVE  DiskSafe(Block(d, origin, retryable), D, P)
  <1>1. PICK pending : pending = [phase |-> "Blocked", origin |-> origin, retryable |-> retryable]
    OBVIOUS
  <1>2. Block(d, origin, retryable) = [d EXCEPT !.pending = pending]
    BY <1>1 DEF Block
  <1>3. DOMAIN pending = {"phase", "origin", "retryable"} /\ pending.phase \in Phases
    BY <1>1 DEF Phases
  <1>4. QED
    BY <1>2, <1>3, PendingSafe

LEMMA PrepareSafe ==
    ASSUME NEW d, NEW D, NEW P, DiskSafe(d, D, P), d.pending.phase # "None"
    PROVE  DiskSafe(Prepare(d), D, P)
  <1>1. PICK pending : pending = [d.pending EXCEPT !.phase = "Prepared"]
    OBVIOUS
  <1>2. Prepare(d) = [d EXCEPT !.pending = pending]
    BY <1>1 DEF Prepare
  <1>3. DOMAIN pending = {"phase", "origin", "retryable"} /\ pending.phase \in Phases
    BY <1>1 DEF Phases, DiskSafe, DiskOK
  <1>4. QED
    BY <1>2, <1>3, PendingSafe

\* One field of one record of a Ledger's list.
LEMMA ListUpdate ==
    ASSUME NEW S, NEW s \in Seq(S), NEW x, NEW r, x \in DOMAIN s => r \in S,
           NEW t, t = [s EXCEPT ![x] = r]
    PROVE  /\ t \in Seq(S) /\ DOMAIN t = DOMAIN s /\ Len(t) = Len(s)
           /\ \A i \in DOMAIN s : t[i] = IF i = x THEN r ELSE s[i]
  <1>1. PICK n \in Nat : n = Len(s) /\ DOMAIN s = 1..n
    BY LenProperties
  <1>2. DOMAIN t = 1..n /\ \A i \in 1..n : t[i] = IF i = x THEN r ELSE s[i]
    BY <1>1
  <1>3. \A i \in 1..n : t[i] \in S
    BY <1>1, <1>2
  <1>4. t = [i \in 1..n |-> t[i]]
    BY <1>1
  <1>5. t \in [1..n -> S]
    BY <1>3, <1>4
  <1>6. t \in Seq(S) /\ Len(t) = n
    BY <1>5
  <1>7. QED
    BY <1>1, <1>2, <1>6

SetCall(d, c, status) == [d EXCEPT !.calls[c].status = status]

LEMMA SetCallSafe ==
    ASSUME NEW d, NEW D, NEW P, DiskSafe(d, D, P), NEW c \in DOMAIN d.calls,
           NEW status \in CallStatus, NEW e, e = SetCall(d, c, status)
    PROVE  /\ DiskSafe(e, D, P) /\ e.pending = d.pending /\ e.turns = d.turns /\ e.op = d.op
           /\ DOMAIN e.calls = DOMAIN d.calls /\ e.calls[c].args = d.calls[c].args
  <1>1. PICK r : r = [d.calls[c] EXCEPT !.status = status]
    OBVIOUS
  <1>2. PICK calls : calls = [d.calls EXCEPT ![c] = r]
    OBVIOUS
  <1>3. e = [d EXCEPT !.calls = calls]
    BY <1>1, <1>2 DEF SetCall
  <1>4. /\ DOMAIN e = DiskFields /\ e.agents = d.agents /\ e.op = d.op /\ e.calls = calls
        /\ e.turns = d.turns /\ e.pending = d.pending
    BY <1>3 DEF DiskSafe, DiskOK, DiskFields
  <1>5. d.calls \in Seq(ToolCall) /\ d.calls[c] \in ToolCall
    BY DEF DiskSafe, DiskOK
  <1>6. r \in ToolCall /\ r.args = d.calls[c].args
    BY <1>1, <1>5 DEF ToolCall
  <1>7. /\ calls \in Seq(ToolCall) /\ DOMAIN calls = DOMAIN d.calls
        /\ calls[c] = r
    BY <1>2, <1>5, <1>6, ListUpdate
  <1>8. DiskOK(e)
    BY <1>4, <1>7 DEF DiskSafe, DiskOK
  <1>9. OwnerActive(e)
    BY <1>4 DEF DiskSafe, OwnerActive, Owner, CurrentTurn, Active
  <1>10. CompletedIn(e, D) /\ AckedIn(e, P)
    BY <1>4 DEF DiskSafe, CompletedIn, AckedIn
  <1>11. QED
    BY <1>4, <1>6, <1>7, <1>8, <1>9, <1>10 DEF DiskSafe

AddCall(d, r) == [d EXCEPT !.calls = Append(@, r)]

LEMMA AddCallSafe ==
    ASSUME NEW d, NEW D, NEW P, DiskSafe(d, D, P), NEW r \in ToolCall, NEW e, e = AddCall(d, r)
    PROVE  /\ DiskSafe(e, D, P) /\ e.pending = d.pending
           /\ Len(d.calls) + 1 \in DOMAIN e.calls
  <1>1. PICK calls : calls = Append(d.calls, r)
    OBVIOUS
  <1>2. e = [d EXCEPT !.calls = calls]
    BY <1>1 DEF AddCall
  <1>3. /\ DOMAIN e = DiskFields /\ e.agents = d.agents /\ e.op = d.op /\ e.calls = calls
        /\ e.turns = d.turns /\ e.pending = d.pending
    BY <1>2 DEF DiskSafe, DiskOK, DiskFields
  <1>4. calls \in Seq(ToolCall) /\ Len(d.calls) + 1 \in DOMAIN calls
    <2>1. d.calls \in Seq(ToolCall)
      BY DEF DiskSafe, DiskOK
    <2>2. calls \in Seq(ToolCall) /\ Len(calls) = Len(d.calls) + 1 /\ Len(d.calls) \in Nat
      BY <1>1, <2>1, AppendProperties, LenProperties
    <2>3. QED
      BY <2>2, LenProperties
  <1>5. DiskOK(e)
    BY <1>3, <1>4 DEF DiskSafe, DiskOK
  <1>6. OwnerActive(e)
    BY <1>3 DEF DiskSafe, OwnerActive, Owner, CurrentTurn, Active
  <1>7. CompletedIn(e, D) /\ AckedIn(e, P)
    BY <1>3 DEF DiskSafe, CompletedIn, AckedIn
  <1>8. QED
    BY <1>3, <1>4, <1>5, <1>6, <1>7 DEF DiskSafe

\* A Turn is admitted for an Active Agent, or for nobody.
AddTurn(d, r) == [d EXCEPT !.turns = Append(@, r), !.pending = Armed, !.staged = {}]

LEMMA AddTurnSafe ==
    ASSUME NEW d, NEW D, NEW P, DiskSafe(d, D, P), NEW r \in Turn, r.ending = "none",
           r.owner = Nobody \/ r.owner \in Active(d), NEW e, e = AddTurn(d, r)
    PROVE  DiskSafe(e, D, P) /\ e.pending.phase = "Admitted"
  <1>1. PICK turns : turns = Append(d.turns, r)
    OBVIOUS
  <1>2. e = [d EXCEPT !.turns = turns, !.pending = Armed, !.staged = {}]
    BY <1>1 DEF AddTurn
  <1>3. /\ DOMAIN e = DiskFields /\ e.agents = d.agents /\ e.op = d.op /\ e.calls = d.calls
        /\ e.turns = turns /\ e.pending = Armed
    BY <1>2 DEF DiskSafe, DiskOK, DiskFields
  <1>4. d.turns \in Seq(Turn)
    BY DEF DiskSafe, DiskOK
  <1>5. PICK n \in Nat : n = Len(d.turns) /\ DOMAIN d.turns = 1..n
    BY <1>4, LenProperties
  <1>6. /\ turns \in Seq(Turn) /\ Len(turns) = n + 1 /\ turns[n + 1] = r
        /\ DOMAIN turns = 1..(n + 1) /\ \A i \in 1..n : turns[i] = d.turns[i]
    <2>1. turns \in Seq(Turn) /\ Len(turns) = Len(d.turns) + 1
      BY <1>1, <1>4, AppendProperties
    <2>2. turns[Len(d.turns) + 1] = r /\ \A i \in 1..Len(d.turns) : turns[i] = d.turns[i]
      BY <1>1, <1>4, AppendProperties
    <2>3. DOMAIN turns = 1..Len(turns)
      BY <2>1, LenProperties
    <2>4. QED
      BY <1>5, <2>1, <2>2, <2>3
  <1>7. DiskOK(e)
    BY <1>3, <1>6, ArmedIs DEF DiskSafe, DiskOK, Phases
  <1>8. OwnerActive(e)
    <2>1. Active(e) = Active(d)
      BY <1>3 DEF Active
    <2>2. Owner(e, CurrentTurn(e)) = r.owner
      BY <1>3, <1>6 DEF Owner, CurrentTurn
    <2>3. QED
      BY <2>1, <2>2 DEF OwnerActive
  <1>9. CompletedIn(e, D)
    <2>1. ASSUME NEW t \in 1..(n + 1), turns[t].ending = "completed" PROVE t \in D
      <3>1. CASE t \in 1..n
        BY <1>5, <1>6, <2>1, <3>1 DEF DiskSafe, CompletedIn
      <3>2. CASE t = n + 1
        BY <1>6, <2>1, <3>2
      <3>3. QED
        BY <1>5, <3>1, <3>2
    <2>2. QED
      BY <1>3, <1>6, <2>1 DEF CompletedIn
  <1>10. AckedIn(e, P)
    BY <1>3 DEF DiskSafe, AckedIn
  <1>11. QED
    BY <1>3, <1>7, <1>8, <1>9, <1>10, ArmedIs DEF DiskSafe

-----------------------------------------------------------------------------
(* The Team's commands, given between Turns.                                 *)

\* The list of Agents while no Turn is pending.
LEMMA AgentsSafe ==
    ASSUME NEW d, NEW D, NEW P, DiskSafe(d, D, P), d.pending.phase = "None",
           NEW agents \in Seq(Agent), NEW e, e = [d EXCEPT !.agents = agents]
    PROVE  DiskSafe(e, D, P) /\ e.pending = d.pending /\ e.agents = agents
  <1>1. /\ DOMAIN e = DiskFields /\ e.agents = agents /\ e.op = d.op /\ e.calls = d.calls
        /\ e.turns = d.turns /\ e.pending = d.pending
    BY DEF DiskSafe, DiskOK, DiskFields
  <1>2. DiskOK(e)
    BY <1>1 DEF DiskSafe, DiskOK
  <1>3. OwnerActive(e)
    BY <1>1 DEF OwnerActive
  <1>4. CompletedIn(e, D) /\ AckedIn(e, P)
    BY <1>1 DEF DiskSafe, CompletedIn, AckedIn
  <1>5. QED
    BY <1>1, <1>2, <1>3, <1>4 DEF DiskSafe

SetAgent(d, a, status) == [d EXCEPT !.agents[a].status = status]

LEMMA SetAgentSafe ==
    ASSUME NEW d, NEW D, NEW P, DiskSafe(d, D, P), d.pending.phase = "None",
           NEW a, NEW status \in AgentStatus, NEW e, e = SetAgent(d, a, status)
    PROVE  DiskSafe(e, D, P) /\ e.pending = d.pending
  <1>1. PICK r : r = [d.agents[a] EXCEPT !.status = status]
    OBVIOUS
  <1>2. PICK agents : agents = [d.agents EXCEPT ![a] = r]
    OBVIOUS
  <1>3. e = [d EXCEPT !.agents = agents]
    BY <1>1, <1>2 DEF SetAgent
  <1>4. d.agents \in Seq(Agent)
    BY DEF DiskSafe, DiskOK
  <1>5. a \in DOMAIN d.agents => r \in Agent
    <2>1. a \in DOMAIN d.agents => d.agents[a] \in Agent
      BY <1>4
    <2>2. QED
      BY <1>1, <2>1 DEF Agent
  <1>6. agents \in Seq(Agent)
    BY <1>2, <1>4, <1>5, ListUpdate
  <1>7. QED
    BY <1>3, <1>6, AgentsSafe

LEMMA PromotedSafe ==
    ASSUME NEW d, NEW D, NEW P, DiskSafe(d, D, P), d.pending.phase = "None"
    PROVE  DiskSafe(Promoted(d), D, P) /\ Promoted(d).pending = d.pending
  <1> DEFINE waiting == {a \in DOMAIN d.agents : d.agents[a].status = "Dormant"}
  <1>1. PICK a : a = CHOOSE b \in waiting : \A c \in waiting : b <= c
    OBVIOUS
  <1>2. Promoted(d) = d \/ Promoted(d) = SetAgent(d, a, "Active")
    BY <1>1 DEF Promoted, SetAgent
  <1>3. "Active" \in AgentStatus
    BY DEF AgentStatus
  <1>4. QED
    BY <1>2, <1>3, SetAgentSafe

LEMMA CommittedSafe ==
    ASSUME NEW d, NEW D, NEW P, DiskSafe(d, D, P), NEW kind, NEW e, e = Committed(d, kind)
    PROVE  DiskSafe(e, D, P) /\ e.pending = d.pending
  <1>1. PICK o : o = [id |-> d.op.id + 1, kind |-> kind, acked |-> FALSE]
    OBVIOUS
  <1>2. e = [d EXCEPT !.op = o]
    BY <1>1 DEF Committed
  <1>3. /\ DOMAIN e = DiskFields /\ e.agents = d.agents /\ e.op = o /\ e.calls = d.calls
        /\ e.turns = d.turns /\ e.pending = d.pending
    BY <1>2 DEF DiskSafe, DiskOK, DiskFields
  <1>4. DOMAIN o = {"id", "kind", "acked"} /\ o.id \in Nat
    BY <1>1 DEF DiskSafe, DiskOK
  <1>5. o.acked \in BOOLEAN /\ ~o.acked
    BY <1>1
  <1>6. DiskOK(e)
    BY <1>3, <1>4, <1>5 DEF DiskSafe, DiskOK
  <1>7. OwnerActive(e)
    BY <1>3 DEF DiskSafe, OwnerActive, Owner, CurrentTurn, Active
  <1>8. CompletedIn(e, D)
    BY <1>3 DEF DiskSafe, CompletedIn
  <1>9. AckedIn(e, P)
    BY <1>3, <1>5 DEF AckedIn
  <1>10. QED
    BY <1>3, <1>6, <1>7, <1>8, <1>9 DEF DiskSafe

LEMMA TerminalSafe ==
    ASSUME NEW d, NEW D, NEW P, DiskSafe(d, D, P), d.pending.phase = "None",
           NEW a, NEW status \in AgentStatus
    PROVE  DiskSafe(Committed(Promoted(SetAgent(d, a, status)), "StateChange"), D, P)
  <1>1. PICK e : e = SetAgent(d, a, status)
    OBVIOUS
  <1>2. DiskSafe(e, D, P) /\ e.pending = d.pending
    BY <1>1, SetAgentSafe
  <1>3. DiskSafe(Promoted(e), D, P)
    BY <1>2, PromotedSafe
  <1>4. QED
    BY <1>1, <1>3, CommittedSafe

\* The operation's acknowledgement: it was shown.
LEMMA AckSafe ==
    ASSUME NEW d, NEW D, NEW P, DiskSafe(d, D, P), d.op.id \in P,
           NEW e, e = [d EXCEPT !.op.acked = TRUE]
    PROVE  DiskSafe(e, D, P) /\ e.pending = d.pending /\ e.calls = d.calls
  <1>1. PICK o : o = [d.op EXCEPT !.acked = TRUE]
    OBVIOUS
  <1>2. e = [d EXCEPT !.op = o]
    BY <1>1
  <1>3. /\ DOMAIN e = DiskFields /\ e.agents = d.agents /\ e.op = o /\ e.calls = d.calls
        /\ e.turns = d.turns /\ e.pending = d.pending
    BY <1>2 DEF DiskSafe, DiskOK, DiskFields
  <1>4. DOMAIN o = {"id", "kind", "acked"} /\ o.id = d.op.id /\ o.id \in Nat
    BY <1>1 DEF DiskSafe, DiskOK
  <1>5. o.acked \in BOOLEAN
    BY <1>1 DEF DiskSafe, DiskOK
  <1>6. DiskOK(e)
    BY <1>3, <1>4, <1>5 DEF DiskSafe, DiskOK
  <1>7. OwnerActive(e)
    BY <1>3 DEF DiskSafe, OwnerActive, Owner, CurrentTurn, Active
  <1>8. CompletedIn(e, D) /\ AckedIn(e, P)
    BY <1>3, <1>4 DEF DiskSafe, CompletedIn, AckedIn
  <1>9. QED
    BY <1>3, <1>6, <1>7, <1>8 DEF DiskSafe

-----------------------------------------------------------------------------
(* Frames.                                                                   *)

LEMMA AppFacts ==
    ASSUME AppInv
    PROVE  /\ DiskSafe(disk, delivered, presented) /\ DiskOK(disk) /\ DriverOK /\ PlaceOK
           /\ DecisionOK /\ ConnectionOK /\ EffectsWereReviewed
  BY DEF AppInv, DiskSafe

LEMMA SameConnection ==
    ASSUME AppInv, UNCHANGED <<config, server, shown>>
    PROVE  ConnectionOK'
  BY AppFacts DEF ConnectionOK

LEMMA SameEffects ==
    ASSUME AppInv, ran' = ran
    PROVE  EffectsWereReviewed'
  BY AppFacts DEF EffectsWereReviewed

LEMMA NoDriverIs ==
    /\ DOMAIN NoDriver = DriverFields /\ NoDriver.session \in Nat /\ NoDriver.at = "closed"
    /\ NoDriver.by = "none"
  BY DEF NoDriver, DriverFields, Nobody

\* Nothing but answers, and what was shown or delivered.
LEMMA QuietStep ==
    ASSUME AppInv, disk' = disk, driver' = driver, ran' = ran,
           delivered \subseteq delivered', presented \subseteq presented', ConnectionOK'
    PROVE  AppInv'
  <1>1. DiskSafe(disk', delivered', presented')
    BY AppFacts, Larger
  <1>2. DriverOK' /\ PlaceOK'
    BY AppFacts DEF DriverOK, PlaceOK
  <1>3. DecisionOK'
    BY AppFacts DEF DecisionOK, Binding
  <1>4. QED
    BY <1>1, <1>2, <1>3, SameEffects DEF AppInv

\* No driver is open afterwards.
LEMMA IdleStep ==
    ASSUME AppInv, driver' = NoDriver, ran' = ran, DiskSafe(disk', delivered', presented'),
           ConnectionOK'
    PROVE  AppInv'
  <1>1. DriverOK' /\ PlaceOK' /\ DecisionOK'
    BY NoDriverIs DEF DriverOK, PlaceOK, DecisionOK, UnderWay
  <1>2. QED
    BY <1>1, SameEffects DEF AppInv

\* A call that opens, writes once and closes.
LEMMA ControlStep ==
    ASSUME AppInv, Closed, driver' = driver, ran' = ran, DiskSafe(disk', delivered', presented'),
           ConnectionOK'
    PROVE  AppInv'
  BY IdleStep DEF Closed

\* The open driver ends its Turn.
LEMMA DoneStep ==
    ASSUME AppInv, NEW res, Done(res), DiskSafe(disk', delivered', presented'),
           EffectsWereReviewed', ConnectionOK'
    PROVE  AppInv'
  <1>1. driver' = [driver EXCEPT !.at = "done", !.res = res]
    BY DEF Done
  <1>2. /\ DOMAIN driver' = DriverFields /\ driver'.session = driver.session
        /\ driver'.at = "done" /\ driver'.by = driver.by /\ driver'.goal = driver.goal
        /\ driver'.saw = driver.saw /\ driver'.reviewed = driver.reviewed
    BY <1>1, AppFacts DEF DriverOK, DriverFields
  <1>3. DriverOK' /\ PlaceOK'
    BY <1>2, AppFacts DEF DriverOK, PlaceOK, UnderWay
  <1>4. DecisionOK'
    BY <1>2, AppFacts DEF DecisionOK
  <1>5. QED
    BY <1>3, <1>4 DEF AppInv

LEMMA GotoIs ==
    ASSUME AppInv, NEW step, Goto(step)
    PROVE  /\ DOMAIN driver' = DriverFields /\ driver'.session = driver.session
           /\ driver'.at = step /\ driver'.by = driver.by /\ driver'.goal = driver.goal
           /\ driver'.saw = driver.saw /\ driver'.reviewed = driver.reviewed
           /\ driver'.call = driver.call
  <1>1. driver' = [driver EXCEPT !.at = step]
    BY DEF Goto
  <1>2. QED
    BY <1>1, AppFacts DEF DriverOK, DriverFields

\* The open driver goes on, before a call is decided.
LEMMA GotoStep ==
    ASSUME AppInv, NEW step, Goto(step), step # "executing",
           DiskSafe(disk', delivered', presented'), ran' = ran, PlaceOK', ConnectionOK'
    PROVE  AppInv'
  <1>1. DriverOK'
    BY GotoIs, AppFacts DEF DriverOK
  <1>2. DecisionOK'
    BY GotoIs, AppFacts DEF DecisionOK
  <1>3. QED
    BY <1>1, <1>2, SameEffects DEF AppInv

\* A driver is opened.
LEMMA HoldStep ==
    ASSUME AppInv, NEW by, NEW goal, NEW step, NEW session \in Nat, Hold(by, goal, step, session),
           step \in {"open_team", "ready", "asking"}, goal \in {"run", "resume"},
           step = "asking" => disk'.pending.phase = "Admitted",
           DiskSafe(disk', delivered', presented'), ran' = ran, ConnectionOK'
    PROVE  AppInv'
  <1>1. driver' = [NoDriver EXCEPT !.by = by, !.goal = goal, !.at = step, !.session = session]
    BY DEF Hold
  <1>2. /\ DOMAIN driver' = DriverFields /\ driver'.session = session /\ driver'.at = step
        /\ driver'.goal = goal
    BY <1>1 DEF NoDriver, DriverFields
  <1>3. DriverOK' /\ PlaceOK' /\ DecisionOK'
    BY <1>2 DEF DriverOK, PlaceOK, DecisionOK, UnderWay
  <1>4. QED
    BY <1>3, SameEffects DEF AppInv

-----------------------------------------------------------------------------
(* Only a call that found the Ledgers free writes to them.                   *)

LEMMA ExistingIsClosed ==
    ASSUME NEW d, NEW missing, missing # "ok", ExistingProduct(d, missing) = "ok"
    PROVE  Closed
  BY DEF ExistingProduct, OpenStrict, has_product_driver_state

LEMMA RuntimeIsClosed ==
    ASSUME NEW d, OpenRuntime(d) = "ok" PROVE Closed
  BY DEF OpenRuntime

LEMMA CancelIsClosed ==
    ASSUME NEW d, NEW t, cancel_product_provider_turn(d, t) = "ok" PROVE Closed
  <1>1. ExistingProduct(d, "ProviderTurnStateUnavailable") = "ok"
    BY DEF cancel_product_provider_turn
  <1>2. QED
    BY <1>1, ExistingIsClosed

LEMMA RetryIs ==
    ASSUME NEW d, DiskOK(d), NEW t, NEW session, retry_error(d, t, session) = "ok"
    PROVE  d.pending.phase # "None"
  <1>1. Status(d) = "Blocked"
    BY DEF retry_error
  <1>2. QED
    BY <1>1, StatusIs

LEMMA RecoveryIs ==
    ASSUME NEW d, DiskOK(d), NEW t, request_product_provider_turn_recovery(d, t) = "ok"
    PROVE  Closed /\ d.pending.phase # "None"
  <1>1. /\ ExistingProduct(d, "ProviderTurnStateUnavailable") = "ok"
        /\ retry_error(d, t, Owner(d, t)) = "ok"
    BY DEF request_product_provider_turn_recovery
  <1>2. QED
    BY <1>1, ExistingIsClosed, RetryIs

LEMMA AgentRecoveryIs ==
    ASSUME NEW d, DiskOK(d), NEW a, NEW t,
           request_product_agent_provider_turn_recovery(d, a, t) = "ok"
    PROVE  Closed /\ d.pending.phase # "None"
  <1>1. /\ ExistingProduct(d, "ProviderTurnStateUnavailable") = "ok"
        /\ retry_error(d, t, a) = "ok"
    BY DEF request_product_agent_provider_turn_recovery, provider_turn_session
  <1>2. QED
    BY <1>1, ExistingIsClosed, RetryIs

LEMMA TeamControlIs ==
    ASSUME NEW d, open_product_team_control(d) = "ok" PROVE Closed
  BY ExistingIsClosed DEF open_product_team_control

LEMMA DispatchIs ==
    ASSUME NEW d, DiskOK(d), dispatch_team_error(d) = "ok"
    PROVE  d.pending.phase = "None"
  <1>1. Status(d) = "Ready"
    BY DEF dispatch_team_error, ToolsReady
  <1>2. QED
    BY <1>1, StatusIs

\* Opening for one Agent, for the pending Turn, for a call that awaits approval.
LEMMA AgentOpenIs ==
    ASSUME NEW d, NEW a, open_existing_for_agent(d, a) = "ok"
    PROVE  Closed
  <1>1. ExistingProduct(d, "TeamStateUnavailable") = "ok"
    BY DEF open_existing_for_agent
  <1>2. QED
    BY <1>1, ExistingIsClosed

LEMMA ProviderRecoveryIs ==
    ASSUME NEW d, DiskOK(d), NEW t, open_existing_for_provider_recovery(d, t) = "ok"
    PROVE  Closed /\ d.pending.phase = "Admitted"
  <1>1. /\ ExistingProduct(d, "ProviderTurnStateUnavailable") = "ok"
        /\ Status(d) = "ResumeRequired"
    BY DEF open_existing_for_provider_recovery
  <1>2. QED
    BY <1>1, ExistingIsClosed, StatusIs

LEMMA DecideIs ==
    ASSUME AppInv, NEW c, DecideError(c) = "ok"
    PROVE  /\ Closed /\ disk.pending.phase = "Admitted" /\ c \in DOMAIN disk.calls
           /\ disk.calls[c].owner \in Nat
  <1>1. open_existing_for_tool_recovery(disk, c) = "ok"
    BY DEF DecideError
  <1>2. recover_pending_error(disk, c, disk.calls[c].owner) = "ok"
    BY <1>1 DEF DecideError
  <1>3. ExistingProduct(disk, "ToolStateUnavailable") = "ok" /\ c \in DOMAIN disk.calls
    BY <1>1 DEF open_existing_for_tool_recovery, TeamReady
  <1>4. Status(disk) = "ResumeRequired"
    BY <1>2 DEF recover_pending_error, resume_error, ToolsReady, TeamReady
  <1>5. disk.calls[c] \in ToolCall
    BY <1>3, AppFacts DEF DiskOK
  <1>6. QED
    BY <1>3, <1>4, <1>5, ExistingIsClosed, StatusIs, AppFacts DEF ToolCall

-----------------------------------------------------------------------------
(* The App Server.                                                           *)

LEMMA ReadSteps ==
    ASSUME AppInv, RuntimeStatus \/ AgentList \/ ToolStatus
    PROVE  AppInv'
  <1>1. disk' = disk /\ driver' = driver /\ ran' = ran /\ delivered' = delivered /\ presented' = presented
        /\ UNCHANGED <<config, server, shown>>
    BY DEF RuntimeStatus, AgentList, ToolStatus, Resting, product, Untouched
  <1>2. QED
    BY <1>1, QuietStep, SameConnection

\* What a control request leaves: the Ledgers it wrote, or everything as it was.
LEMMA ControlOrQuiet ==
    ASSUME AppInv, NEW error, NEW e, disk' = IF error = "ok" THEN e ELSE disk,
           UNCHANGED <<driver, ran, presented, delivered, config, server, shown>>,
           error = "ok" => Closed /\ DiskSafe(e, delivered, presented)
    PROVE  AppInv'
  <1>1. CASE error = "ok"
    BY <1>1, ControlStep, SameConnection
  <1>2. CASE error # "ok"
    BY <1>2, QuietStep, SameConnection
  <1>3. QED
    BY <1>1, <1>2

LEMMA RuntimeCancelStep ==
    ASSUME AppInv, NEW t, RuntimeCancel(t)
    PROVE  AppInv'
  <1> DEFINE target == runtime_control_target(disk)
             reason == IF target = "Product" THEN cancel_product_provider_turn(disk, t)
                       ELSE IF OpenRuntime(disk) # "ok" THEN OpenRuntime(disk)
                       ELSE cancel_error(disk, t, Nobody)
  <1>1. PICK error : error = IF target # "none" /\ reason = "ok" THEN "ok" ELSE "refused"
    OBVIOUS
  <1>2. disk' = IF error = "ok" THEN Cancelled(disk) ELSE disk
    BY <1>1 DEF RuntimeCancel
  <1>3. UNCHANGED <<driver, ran, presented, delivered, config, server, shown>>
    BY DEF RuntimeCancel, ghosts, Untouched
  <1>4. error = "ok" => Closed
    BY <1>1, CancelIsClosed, RuntimeIsClosed
  <1>5. DiskSafe(Cancelled(disk), delivered, presented)
    BY AppFacts, CancelledSafe
  <1>6. QED
    BY <1>2, <1>3, <1>4, <1>5, ControlOrQuiet

LEMMA RuntimeRetryStep ==
    ASSUME AppInv, NEW t, RuntimeRetry(t)
    PROVE  AppInv'
  <1> DEFINE target == runtime_control_target(disk)
  <1>1. PICK error : error = IF require_pending_context_mode_execution(disk) # "ok"
                 THEN "UnsupportedContextMode"
                 ELSE IF target = "Product" THEN request_product_provider_turn_recovery(disk, t)
                 ELSE IF target = "none" \/ OpenRuntime(disk) # "ok" THEN "Ledger"
                 ELSE retry_error(disk, t, Nobody)
    OBVIOUS
  <1>2. disk' = IF error = "ok" THEN Rearmed(disk) ELSE disk
    BY <1>1 DEF RuntimeRetry
  <1>3. UNCHANGED <<driver, ran, presented, delivered, config, server, shown>>
    BY DEF RuntimeRetry, ghosts, Untouched
  <1>4. error = "ok" => Closed /\ disk.pending.phase # "None"
    BY <1>1, AppFacts, RecoveryIs, RuntimeIsClosed, RetryIs
  <1>5. error = "ok" => DiskSafe(Rearmed(disk), delivered, presented)
    BY <1>4, AppFacts, RearmedSafe
  <1>6. QED
    BY <1>2, <1>3, <1>4, <1>5, ControlOrQuiet

LEMMA AgentRetryStep ==
    ASSUME AppInv, NEW a, NEW t, AgentRetry(a, t)
    PROVE  AppInv'
  <1>1. PICK error : error = request_product_agent_provider_turn_recovery(disk, a, t)
    OBVIOUS
  <1>2. disk' = IF error = "ok" THEN Rearmed(disk) ELSE disk
    BY <1>1 DEF AgentRetry
  <1>3. UNCHANGED <<driver, ran, presented, delivered, config, server, shown>>
    BY DEF AgentRetry, ghosts, Untouched
  <1>4. error = "ok" => Closed /\ disk.pending.phase # "None"
    BY <1>1, AppFacts, AgentRecoveryIs
  <1>5. error = "ok" => DiskSafe(Rearmed(disk), delivered, presented)
    BY <1>4, AppFacts, RearmedSafe
  <1>6. QED
    BY <1>2, <1>3, <1>4, <1>5, ControlOrQuiet

LEMMA ContextReduceStep ==
    ASSUME AppInv, ContextReduce
    PROVE  AppInv'
  <1>1. PICK error : error = LET preflight == preflight_product_context_reduction(server.config.value, disk)
                                 opened == open_product_context_runtime(disk)
                             IN  IF preflight # "ok" THEN preflight
                                 ELSE IF opened # "ok" THEN opened ELSE SafeBarrier(disk)
    OBVIOUS
  <1>2. PICK e : e = [disk EXCEPT !.checkpoint = TRUE]
    OBVIOUS
  <1>3. disk' = IF error = "ok" THEN e ELSE disk
    BY <1>1, <1>2 DEF ContextReduce
  <1>4. UNCHANGED <<driver, ran, presented, delivered, config, server, shown>>
    BY DEF ContextReduce, ghosts, Untouched
  <1>5. error = "ok" => Closed
    BY <1>1 DEF open_product_context_runtime, OpenStrict
  <1>6. DiskSafe(e, delivered, presented)
    <2>1. /\ DOMAIN e = DiskFields /\ e.agents = disk.agents /\ e.op = disk.op
          /\ e.turns = disk.turns /\ e.pending = disk.pending /\ e.calls = disk.calls
      BY <1>2, AppFacts DEF DiskOK, DiskFields
    <2>2. QED
      BY <2>1, AppFacts, SameCore
  <1>7. QED
    BY <1>3, <1>4, <1>5, <1>6, ControlOrQuiet

LEMMA RuntimeDeliveryStep ==
    ASSUME AppInv, NEW t, RuntimeDelivery(t)
    PROVE  AppInv'
  <1>1. disk' = disk /\ driver' = driver /\ ran' = ran /\ presented' = presented
        /\ UNCHANGED <<config, server, shown>>
    BY DEF RuntimeDelivery, Untouched
  <1>2. delivered \subseteq delivered'
    BY DEF RuntimeDelivery
  <1>3. QED
    BY <1>1, <1>2, QuietStep, SameConnection

LEMMA AcknowledgeIs ==
    ASSUME AppInv, NEW t, AcknowledgeError(t) = "ok"
    PROVE  Closed /\ t = CurrentTurn(disk)
  <1> DEFINE pending == Status(disk) = "ReconciliationRequired" /\ t = CurrentTurn(disk)
  <1>1. CASE pending /\ has_product_driver_state(disk) = "yes"
    <2>1. open_existing_for_delivery(disk, t) = "ok"
      BY <1>1 DEF AcknowledgeError
    <2>2. ExistingProduct(disk, "ProviderTurnStateUnavailable") = "ok"
      BY <2>1 DEF open_existing_for_delivery
    <2>3. QED
      BY <1>1, <2>2, ExistingIsClosed
  <1>2. CASE ~(pending /\ has_product_driver_state(disk) = "yes")
    <2>1. /\ OpenRuntime(disk) = "ok"
          /\ acknowledge_error(disk, t, IF pending THEN Owner(disk, t) ELSE Nobody) = "ok"
      BY <1>2 DEF AcknowledgeError
    <2>2. t = CurrentTurn(disk)
      BY <2>1 DEF acknowledge_error
    <2>3. QED
      BY <2>1, <2>2, RuntimeIsClosed
  <1>3. QED
    BY <1>1, <1>2

LEMMA RuntimeAcknowledgeStep ==
    ASSUME AppInv, NEW t, RuntimeAcknowledge(t)
    PROVE  AppInv'
  <1>1. PICK error : error = AcknowledgeError(t)
    OBVIOUS
  <1>2. /\ disk' = IF error = "ok" THEN Acknowledged(disk) ELSE disk
        /\ delivered' = IF error = "ok" THEN delivered \cup {t} ELSE delivered
        /\ UNCHANGED <<driver, ran, presented, config, server, shown>>
    BY <1>1 DEF RuntimeAcknowledge, Untouched
  <1>3. CASE error = "ok"
    <2>1. Closed /\ t = CurrentTurn(disk)
      BY <1>1, <1>3, AcknowledgeIs
    <2>2. delivered' = delivered \cup {t} /\ disk' = Acknowledged(disk)
      BY <1>2, <1>3
    <2>3. DiskSafe(disk, delivered', presented)
      BY <2>2, AppFacts, Larger
    <2>4. DiskSafe(disk', delivered', presented')
      BY <1>2, <2>1, <2>2, <2>3, AcknowledgedSafe
    <2>5. QED
      BY <1>2, <2>1, <2>4, ControlStep, SameConnection
  <1>4. CASE error # "ok"
    BY <1>2, <1>4, QuietStep, SameConnection
  <1>5. QED
    BY <1>3, <1>4

LEMMA RuntimeResumeStep ==
    ASSUME AppInv, NEW t, RuntimeResume(t)
    PROVE  AppInv'
  <1> DEFINE session == IF runtime_control_target(disk) = "Product" THEN Owner(disk, t) ELSE Nobody
  <1>1. disk' = disk /\ ran' = ran /\ delivered' = delivered /\ presented' = presented
        /\ UNCHANGED <<config, server, shown>>
    BY DEF RuntimeResume, ghosts, Untouched
  <1>2. \/ driver' = driver
        \/ ResumeError(t) = "ok" /\ Hold("server", "resume", "asking", session)
    BY DEF RuntimeResume
  <1>3. CASE driver' = driver
    BY <1>1, <1>3, QuietStep, SameConnection
  <1>4. CASE ResumeError(t) = "ok" /\ Hold("server", "resume", "asking", session)
    <2>1. Status(disk) = "ResumeRequired" /\ t = CurrentTurn(disk)
      BY <1>4 DEF ResumeError
    <2>2. disk.pending.phase = "Admitted"
      BY <2>1, AppFacts, StatusIs
    <2>3. session \in Nat
      <3>1. CASE runtime_control_target(disk) = "Product"
        <4>1. open_existing_for_provider_recovery(disk, t) = "ok"
          BY <1>4, <3>1 DEF ResumeError
        <4>2. t \in DOMAIN disk.turns
          BY <4>1 DEF open_existing_for_provider_recovery, provider_turn_session, TeamReady
        <4>3. disk.turns[t] \in Turn
          BY <4>2, AppFacts DEF DiskOK
        <4>4. QED
          BY <3>1, <4>3 DEF Owner, Turn
      <3>2. CASE runtime_control_target(disk) # "Product"
        BY <3>2 DEF Nobody
      <3>3. QED
        BY <3>1, <3>2
    <2> HIDE DEF session
    <2>4. DiskSafe(disk', delivered', presented') /\ disk'.pending.phase = "Admitted"
      BY <1>1, <2>2, AppFacts
    <2>5. PICK goal, step : goal = "resume" /\ step = "asking"
      OBVIOUS
    <2>6. Hold("server", goal, step, session) /\ step \in {"open_team", "ready", "asking"}
          /\ goal \in {"run", "resume"}
      BY <1>4, <2>5
    <2>7. QED
      BY <1>1, <2>3, <2>4, <2>6, HoldStep, SameConnection
  <1>5. QED
    BY <1>2, <1>3, <1>4

LEMMA AgentTurnStep ==
    ASSUME AppInv, NEW a \in Nat, AgentTurn(a)
    PROVE  AppInv'
  <1>1. disk' = disk /\ ran' = ran /\ delivered' = delivered /\ presented' = presented
        /\ UNCHANGED <<config, server, shown>>
    BY DEF AgentTurn, ghosts, Untouched
  <1>2. driver' = driver \/ Hold("server", "run", "ready", a)
    BY DEF AgentTurn
  <1>3. CASE driver' = driver
    BY <1>1, <1>3, QuietStep, SameConnection
  <1>4. CASE Hold("server", "run", "ready", a)
    <2>1. PICK goal, step : goal = "run" /\ step = "ready"
      OBVIOUS
    <2>2. Hold("server", goal, step, a) /\ step \in {"open_team", "ready", "asking"}
          /\ goal \in {"run", "resume"} /\ step # "asking"
      BY <1>4, <2>1
    <2>3. DiskSafe(disk', delivered', presented')
      BY <1>1, AppFacts
    <2>4. QED
      BY <1>1, <2>2, <2>3, HoldStep, SameConnection
  <1>5. QED
    BY <1>2, <1>3, <1>4

LEMMA RootIs ==
    ASSUME NEW d, DiskOK(d), active_root_agent(d) = "ok"
    PROVE  TheRoot(d) \in Active(d) /\ TheRoot(d) \in Nat
  <1>1. ActiveRoots(d) # {}
    BY DEF active_root_agent
  <1>2. TheRoot(d) \in ActiveRoots(d)
    BY <1>1 DEF TheRoot
  <1>3. TheRoot(d) \in Active(d) /\ TheRoot(d) \in DOMAIN d.agents
    BY <1>2 DEF ActiveRoots, Active
  <1>4. DOMAIN d.agents = 1..Len(d.agents) /\ Len(d.agents) \in Nat
    BY LenProperties DEF DiskOK
  <1>5. QED
    BY <1>3, <1>4

LEMMA DelegateSafe ==
    ASSUME NEW d, NEW D, NEW P, DiskSafe(d, D, P), d.pending.phase = "None",
           NEW parent, Target(d, parent) \in Nat, NEW preset \in Presets
    PROVE  DiskSafe(delegate_product_agent(d, parent, preset), D, P)
  <1>1. PICK r : r = [status |-> NewStatus(d), parent |-> Target(d, parent), preset |-> preset]
    OBVIOUS
  <1>2. r \in Agent
    <2>1. NewStatus(d) \in AgentStatus
      BY DEF NewStatus, AgentStatus
    <2>2. QED
      BY <1>1, <2>1 DEF Agent
  <1>3. PICK agents : agents = Append(d.agents, r)
    OBVIOUS
  <1>4. agents \in Seq(Agent)
    BY <1>2, <1>3, AppendProperties DEF DiskSafe, DiskOK
  <1>5. PICK e : e = [d EXCEPT !.agents = agents]
    OBVIOUS
  <1>6. delegate_product_agent(d, parent, preset) = Committed(e, "Delegation")
    BY <1>1, <1>3, <1>5 DEF delegate_product_agent
  <1>7. DiskSafe(e, D, P)
    BY <1>4, <1>5, AgentsSafe
  <1>8. QED
    BY <1>6, <1>7, CommittedSafe

LEMMA TeamCommandSafe ==
    ASSUME AppInv, disk.pending.phase = "None", NEW command \in TeamCommands, NEW agent,
           Target(disk, agent) \in Nat
    PROVE  DiskSafe(TeamCommand(command, agent), delivered, presented)
  <1>1. CASE command = "delegate"
    <2>1. TeamCommand(command, agent) = delegate_product_agent(disk, agent, server.config.value.default)
      BY <1>1 DEF TeamCommand
    <2>2. server.config.value.default \in Presets
      BY AppFacts DEF ConnectionOK, Presets
    <2>3. QED
      BY <2>1, <2>2, AppFacts, DelegateSafe
  <1>2. CASE command = "message"
    <2>1. TeamCommand(command, agent) = Committed(disk, "Message")
      BY <1>2 DEF TeamCommand, message_from_product_agent
    <2>2. QED
      BY <2>1, AppFacts, CommittedSafe
  <1>3. CASE command \in {"complete", "fail", "cancel"}
    <2>1. PICK status \in AgentStatus : TeamCommand(command, agent) = Terminal(disk, agent, status)
      BY <1>3 DEF TeamCommand, complete_product_agent, fail_product_agent, cancel_product_agent,
                  AgentStatus
    <2>2. Terminal(disk, agent, status)
            = Committed(Promoted(SetAgent(disk, Target(disk, agent), status)), "StateChange")
      BY Zenon DEF Terminal, SetAgent
    <2>3. QED
      BY <2>1, <2>2, AppFacts, TerminalSafe
  <1>4. QED
    BY <1>1, <1>2, <1>3 DEF TeamCommands

LEMMA AgentCommandStep ==
    ASSUME AppInv, NEW command \in TeamCommands, NEW agent \in Nat, AgentCommand(command, agent)
    PROVE  AppInv'
  <1>1. PICK error : error = IF dispatch_product_agent_command(disk, agent) # "ok"
                             THEN dispatch_product_agent_command(disk, agent)
                             ELSE team_policy(disk, agent, command)
    OBVIOUS
  <1>2. disk' = IF error = "ok" THEN TeamCommand(command, agent) ELSE disk
    BY <1>1 DEF AgentCommand
  <1>3. UNCHANGED <<driver, ran, presented, delivered, config, server, shown>>
    BY DEF AgentCommand, ghosts, Untouched
  <1>4. ASSUME error = "ok"
        PROVE  Closed /\ DiskSafe(TeamCommand(command, agent), delivered, presented)
    <2>1. dispatch_product_agent_command(disk, agent) = "ok"
      BY <1>1, <1>4
    <2>2. /\ open_product_team_control(disk) = "ok" /\ dispatch_team_error(disk) = "ok"
          /\ agent = Nobody => active_root_agent(disk) = "ok"
      BY <2>1 DEF dispatch_product_agent_command
    <2>3. Target(disk, agent) \in Nat
      BY <2>2, AppFacts, RootIs DEF Target
    <2>4. Closed /\ disk.pending.phase = "None"
      BY <2>2, AppFacts, TeamControlIs, DispatchIs
    <2>5. QED
      BY <2>3, <2>4, TeamCommandSafe
  <1>5. QED
    BY <1>2, <1>3, <1>4, ControlOrQuiet

LEMMA AgentRequeueStep ==
    ASSUME AppInv, NEW a, AgentRequeue(a)
    PROVE  AppInv'
  <1>1. PICK error : error = requeue_product_agent_error(disk, a)
    OBVIOUS
  <1>2. disk' = IF error = "ok" THEN requeue_product_agent(disk, a) ELSE disk
    BY <1>1 DEF AgentRequeue
  <1>3. UNCHANGED <<driver, ran, presented, delivered, config, server, shown>>
    BY DEF AgentRequeue, ghosts, Untouched
  <1>4. ASSUME error = "ok"
        PROVE  Closed /\ DiskSafe(requeue_product_agent(disk, a), delivered, presented)
    <2>1. open_product_team_control(disk) = "ok" /\ dispatch_team_error(disk) = "ok"
      BY <1>1, <1>4 DEF requeue_product_agent_error
    <2>2. Closed /\ disk.pending.phase = "None"
      BY <2>1, AppFacts, TeamControlIs, DispatchIs
    <2>3. requeue_product_agent(disk, a)
            = Committed(Promoted(SetAgent(disk, a, "Dormant")), "StateChange")
      BY Zenon DEF requeue_product_agent, SetAgent
    <2>4. "Dormant" \in AgentStatus
      BY DEF AgentStatus
    <2>5. QED
      BY <2>2, <2>3, <2>4, AppFacts, TerminalSafe
  <1>5. QED
    BY <1>2, <1>3, <1>4, ControlOrQuiet

LEMMA AgentAcknowledgeStep ==
    ASSUME AppInv, NEW id, AgentAcknowledge(id)
    PROVE  AppInv'
  <1>1. PICK error : error = acknowledge_product_team_operation(disk, id)
    OBVIOUS
  <1>2. PICK e : e = [disk EXCEPT !.op.acked = TRUE]
    OBVIOUS
  <1>3. /\ disk' = IF error = "ok" THEN e ELSE disk
        /\ presented' = IF error = "ok" THEN presented \cup {id} ELSE presented
        /\ UNCHANGED <<driver, ran, delivered, config, server, shown>>
    BY <1>1, <1>2 DEF AgentAcknowledge, Untouched
  <1>4. CASE error = "ok"
    <2>1. open_product_team_control(disk) = "ok" /\ id = disk.op.id
      BY <1>1, <1>4 DEF acknowledge_product_team_operation
    <2>2. Closed
      BY <2>1, TeamControlIs
    <2>3. disk' = e /\ presented' = presented \cup {id}
      BY <1>3, <1>4
    <2>4. DiskSafe(disk, delivered, presented')
      BY <2>3, AppFacts, Larger
    <2>5. DiskSafe(disk', delivered', presented')
      BY <1>2, <1>3, <2>1, <2>3, <2>4, AckSafe
    <2>6. QED
      BY <1>3, <2>2, <2>5, ControlStep, SameConnection
  <1>5. CASE error # "ok"
    BY <1>3, <1>5, QuietStep, SameConnection
  <1>6. QED
    BY <1>4, <1>5

LEMMA AnsweredSteps ==
    ASSUME AppInv, TurnAnswered \/ DecisionAnswered
    PROVE  AppInv'
  <1>1. /\ driver' = NoDriver /\ disk' = disk /\ ran' = ran
        /\ delivered' = delivered /\ presented' = presented
        /\ UNCHANGED <<config, server, shown>>
    BY DEF TurnAnswered, DecisionAnswered, ghosts, Untouched
  <1>2. DiskSafe(disk', delivered', presented')
    BY <1>1, AppFacts
  <1>3. QED
    BY <1>1, <1>2, IdleStep, SameConnection

LEMMA ToolReconcileStep ==
    ASSUME AppInv, NEW c, NEW status \in CallStatus, ToolReconcile(c, status)
    PROVE  AppInv'
  <1>1. PICK error : error = IF product_control_ready(disk) THEN reconcile_product_tool(disk, c) ELSE "Ledger"
    OBVIOUS
  <1>2. disk' = IF error = "ok" THEN Reconciled(disk, c, status) ELSE disk
    BY <1>1 DEF ToolReconcile
  <1>3. UNCHANGED <<driver, ran, presented, delivered, config, server, shown>>
    BY DEF ToolReconcile, ghosts, Untouched
  <1>4. ASSUME error = "ok"
        PROVE  Closed /\ DiskSafe(Reconciled(disk, c, status), delivered, presented)
    <2>1. reconcile_product_tool(disk, c) = "ok"
      BY <1>1, <1>4
    <2>2. ExistingProduct(disk, "ToolStateUnavailable") = "ok" /\ c \in DOMAIN disk.calls
      BY <2>1 DEF reconcile_product_tool
    <2>3. Reconciled(disk, c, status) = disk \/ Reconciled(disk, c, status) = SetCall(disk, c, status)
      BY DEF Reconciled, SetCall
    <2>4. QED
      BY <2>2, <2>3, ExistingIsClosed, AppFacts, SetCallSafe
  <1>5. QED
    BY <1>2, <1>3, <1>4, ControlOrQuiet

\* The Provider is asked again for a call to review or decide about.
LEMMA AskAgainStep ==
    ASSUME AppInv, NEW goal, NEW c, NEW decision, NEW reviewed,
           goal = "decide" => reviewed \subseteq shown,
           AskAgain(goal, c, decision, reviewed), ConnectionOK',
           disk' = disk, ran' = ran, delivered' = delivered, presented' = presented
    PROVE  AppInv'
  <1>1. CASE driver' = driver
    BY <1>1, QuietStep
  <1>2. CASE driver' # driver
    <2>1. /\ DecideError(c) = "ok"
          /\ driver' = [NoDriver EXCEPT !.by = "server", !.goal = goal, !.at = "asking",
                  !.session = disk.calls[c].owner, !.want = c, !.decision = decision,
                  !.reviewed = reviewed, !.saw = reviewed \cap shown]
      BY <1>2 DEF AskAgain
    <2>2. PICK session, saw : session = disk.calls[c].owner /\ saw = reviewed \cap shown
      OBVIOUS
    <2>3. driver' = [NoDriver EXCEPT !.by = "server", !.goal = goal, !.at = "asking",
                  !.session = session, !.want = c, !.decision = decision,
                  !.reviewed = reviewed, !.saw = saw]
      BY <2>1, <2>2
    <2>4. /\ DOMAIN driver' = DriverFields /\ driver'.session = session /\ driver'.at = "asking"
          /\ driver'.goal = goal /\ driver'.saw = saw /\ driver'.reviewed = reviewed
      BY <2>3 DEF NoDriver, DriverFields
    <2>5. disk.pending.phase = "Admitted" /\ session \in Nat
      BY <2>1, <2>2, DecideIs
    <2>6. DriverOK' /\ PlaceOK'
      BY <2>4, <2>5 DEF DriverOK, PlaceOK, UnderWay
    <2>7. goal = "decide" => saw = reviewed
      BY <2>2
    <2>8. DecisionOK'
      BY <2>4, <2>7 DEF DecisionOK
    <2>9. DiskSafe(disk', delivered', presented')
      BY AppFacts
    <2>10. QED
      BY <2>6, <2>8, <2>9, SameEffects DEF AppInv
  <1>3. QED
    BY <1>1, <1>2

\* The connection with its review used up.
LEMMA ReviewDropped ==
    ASSUME AppInv, server' = [server EXCEPT !.review = {}], config' = config
    PROVE  ConnectionOK'
  BY AppFacts DEF ConnectionOK

LEMMA ToolReviewStep ==
    ASSUME AppInv, NEW c, ToolReview(c)
    PROVE  AppInv'
  <1>1. /\ server' = [server EXCEPT !.review = {}] /\ AskAgain("review", c, "none", {})
        /\ disk' = disk /\ ran' = ran /\ delivered' = delivered /\ presented' = presented
        /\ config' = config
    BY DEF ToolReview, ghosts
  <1>2. QED
    BY <1>1, ReviewDropped, AskAgainStep

LEMMA ToolDecideStep ==
    ASSUME AppInv, NEW c, NEW decision, NEW provided, ToolDecide(c, decision, provided)
    PROVE  AppInv'
  <1>1. disk' = disk /\ ran' = ran /\ delivered' = delivered /\ presented' = presented
        /\ config' = config
    BY DEF ToolDecide, ghosts
  <1>2. CASE server.review # {provided}
    <2>1. UNCHANGED <<driver, server, shown>>
      BY <1>2 DEF ToolDecide
    <2>2. QED
      BY <1>1, <2>1, QuietStep, SameConnection
  <1>3. CASE server.review = {provided}
    <2>1. /\ server' = [server EXCEPT !.review = {}]
          /\ driver' = driver \/ AskAgain("decide", c, decision, {provided})
      BY <1>3 DEF ToolDecide
    <2>2. ConnectionOK'
      BY <1>1, <2>1, ReviewDropped
    <2>3. {provided} \subseteq shown
      BY <1>3, AppFacts DEF ConnectionOK
    <2>4. CASE driver' = driver
      BY <1>1, <2>2, <2>4, QuietStep
    <2>5. CASE AskAgain("decide", c, decision, {provided})
      BY <1>1, <2>2, <2>3, <2>5, AskAgainStep
    <2>6. QED
      BY <2>1, <2>4, <2>5
  <1>4. QED
    BY <1>2, <1>3

-----------------------------------------------------------------------------
(* A decision about a Tool call.                                             *)

LEMMA ResolveStep ==
    ASSUME AppInv, NEW decision, driver.at = "approval", Resolve(decision),
           driver.by = "server" => driver.saw = {Binding(disk, driver.call)},
           ran' = ran, delivered' = delivered, presented' = presented, ConnectionOK'
    PROVE  AppInv'
  <1>1. driver.call \in DOMAIN disk.calls /\ disk.pending.phase = "Admitted"
    BY AppFacts DEF PlaceOK, UnderWay
  <1>2. PICK c : c = driver.call
    OBVIOUS
  <1>3. \/ disk' = disk /\ \E error : Done(error)
        \/ disk' = Block(SetCall(disk, c, "Denied"), "Other", FALSE) /\ Done("Denied")
        \/ disk' = SetCall(disk, c, "ReconciliationRequired") /\ Goto("executing")
    BY <1>2 DEF Resolve, SetCall
  <1>4. CASE disk' = disk /\ \E error : Done(error)
    <2>1. PICK error : Done(error)
      BY <1>4
    <2>2. DiskSafe(disk', delivered', presented')
      BY <1>4, AppFacts
    <2>3. QED
      BY <2>1, <2>2, DoneStep, SameEffects
  <1>5. CASE disk' = Block(SetCall(disk, c, "Denied"), "Other", FALSE) /\ Done("Denied")
    <2>1. PICK status \in CallStatus : status = "Denied"
      BY DEF CallStatus
    <2>2. PICK d : d = SetCall(disk, c, status)
      OBVIOUS
    <2>3. DiskSafe(d, delivered, presented) /\ d.pending = disk.pending
      BY <1>1, <1>2, <2>2, AppFacts, SetCallSafe
    <2>4. DiskSafe(Block(d, "Other", FALSE), delivered, presented)
      BY <1>1, <2>3, BlockSafe
    <2>5. DiskSafe(disk', delivered', presented')
      BY <1>5, <2>1, <2>2, <2>4
    <2>6. QED
      BY <1>5, <2>5, DoneStep, SameEffects
  <1>6. CASE disk' = SetCall(disk, c, "ReconciliationRequired") /\ Goto("executing")
    <2>1. PICK status \in CallStatus : status = "ReconciliationRequired"
      BY DEF CallStatus
    <2>2. disk' = SetCall(disk, c, status)
      BY <1>6, <2>1
    <2>3. /\ DiskSafe(disk', delivered', presented') /\ disk'.pending = disk.pending
          /\ DOMAIN disk'.calls = DOMAIN disk.calls /\ disk'.calls[c].args = disk.calls[c].args
      BY <1>1, <1>2, <2>2, AppFacts, SetCallSafe
    <2>4. PICK step : step = "executing" /\ Goto(step)
      BY <1>6
    <2>5. /\ DOMAIN driver' = DriverFields /\ driver'.session = driver.session
          /\ driver'.at = "executing" /\ driver'.by = driver.by /\ driver'.goal = driver.goal
          /\ driver'.saw = driver.saw /\ driver'.reviewed = driver.reviewed
          /\ driver'.call = c
      BY <1>2, <2>4, GotoIs
    <2>6. DriverOK' /\ PlaceOK'
      BY <1>1, <1>2, <2>3, <2>5, AppFacts DEF DriverOK, PlaceOK, UnderWay
    <2>7. DecisionOK'
      BY <1>2, <2>3, <2>5, AppFacts DEF DecisionOK, Binding
    <2>8. QED
      BY <2>3, <2>6, <2>7, SameEffects DEF AppInv
  <1>7. QED
    BY <1>3, <1>4, <1>5, <1>6

LEMMA ApprovalRecoveredStep ==
    ASSUME AppInv, ApprovalRecovered
    PROVE  AppInv'
  <1>1. /\ driver.by = "server" /\ driver.goal \in {"review", "decide"} /\ driver.at = "approval"
        /\ ran' = ran /\ delivered' = delivered /\ presented' = presented /\ config' = config
    BY DEF ApprovalRecovered, Deciding, At, ghosts
  <1>2. \/ driver' = NoDriver /\ UNCHANGED <<disk, server, shown>>
        \/ /\ driver' = NoDriver /\ disk' = disk
           /\ server' = [server EXCEPT !.review = {Binding(disk, driver.call)}]
           /\ shown' = shown \cup {Binding(disk, driver.call)}
        \/ /\ driver.goal # "review" /\ driver.reviewed = {Binding(disk, driver.call)}
           /\ Resolve(driver.decision) /\ UNCHANGED <<server, shown>>
    BY DEF ApprovalRecovered
  <1>3. CASE driver' = NoDriver /\ UNCHANGED <<disk, server, shown>>
    <2>1. DiskSafe(disk', delivered', presented')
      BY <1>1, <1>3, AppFacts
    <2>2. QED
      BY <1>1, <1>3, <2>1, IdleStep, SameConnection
  <1>4. CASE /\ driver' = NoDriver /\ disk' = disk
             /\ server' = [server EXCEPT !.review = {Binding(disk, driver.call)}]
             /\ shown' = shown \cup {Binding(disk, driver.call)}
    <2>1. DiskSafe(disk', delivered', presented')
      BY <1>1, <1>4, AppFacts
    <2>2. PICK b : b = Binding(disk, driver.call)
      OBVIOUS
    <2>3. server' = [server EXCEPT !.review = {b}] /\ shown' = shown \cup {b}
      BY <1>4, <2>2
    <2>4. ConnectionOK'
      BY <1>1, <2>3, AppFacts DEF ConnectionOK
    <2>5. QED
      BY <1>1, <1>4, <2>1, <2>4, IdleStep
  <1>5. CASE /\ driver.goal # "review" /\ driver.reviewed = {Binding(disk, driver.call)}
             /\ Resolve(driver.decision) /\ UNCHANGED <<server, shown>>
    <2>1. driver.saw = {Binding(disk, driver.call)}
      BY <1>1, <1>5, AppFacts DEF DecisionOK
    <2>2. ConnectionOK'
      BY <1>1, <1>5, SameConnection
    <2>3. QED
      BY <1>1, <1>5, <2>1, <2>2, ResolveStep
  <1>6. QED
    BY <1>2, <1>3, <1>4, <1>5

\* The Config is loaded again, committed, or loaded by a new connection.
LEMMA ConfigSteps ==
    ASSUME AppInv,
           refresh_after_conflict \/ (\E value \in ConfigValue : DraftCommit(value))
               \/ ServerRestarts
    PROVE  AppInv'
  <1>1. /\ disk' = disk /\ driver' = driver /\ ran' = ran
        /\ delivered' = delivered /\ presented' = presented
    BY DEF refresh_after_conflict, DraftCommit, ServerRestarts, Resting, product
  <1>2. ConnectionOK'
    <2>1. CASE refresh_after_conflict
      <3>1. server' = [server EXCEPT !.config = config] /\ config' = config /\ shown' = shown
        BY <2>1 DEF refresh_after_conflict
      <3>2. QED
        BY <3>1, AppFacts DEF ConnectionOK
    <2>2. ASSUME NEW value \in ConfigValue, DraftCommit(value) PROVE ConnectionOK'
      <3>1. /\ config' = [revision |-> config.revision + 1, value |-> value]
            /\ server' = [server EXCEPT !.config = config'] /\ shown' = shown
        BY <2>2 DEF DraftCommit
      <3>2. config'.value = value
        BY <3>1
      <3>3. QED
        BY <3>1, <3>2, AppFacts DEF ConnectionOK
    <2>3. CASE ServerRestarts
      <3>1. server' = [config |-> config, review |-> {}] /\ config' = config
        BY <2>3 DEF ServerRestarts, NewConnection
      <3>2. QED
        BY <3>1, AppFacts DEF ConnectionOK
    <2>4. QED
      BY <2>1, <2>2, <2>3
  <1>3. QED
    BY <1>1, <1>2, QuietStep

LEMMA ServerStepSafe ==
    ASSUME AppInv, ServerStep
    PROVE  AppInv'
  <1>1. ASSUME NEW t \in Turns,
               \/ RuntimeCancel(t) \/ RuntimeRetry(t) \/ RuntimeResume(t)
               \/ RuntimeDelivery(t) \/ RuntimeAcknowledge(t)
               \/ \E a \in Agents : AgentRetry(a, t)
        PROVE  AppInv'
    BY <1>1, RuntimeCancelStep, RuntimeRetryStep, RuntimeResumeStep, RuntimeDeliveryStep,
       RuntimeAcknowledgeStep, AgentRetryStep
  <1>2. \A a \in Agents \cup {Nobody} : a \in Nat
    <2>1. Agents \subseteq Nat
      BY DriverAssumption DEF Agents
    <2>2. QED
      BY <2>1 DEF Nobody
  <1>3. ASSUME NEW a \in Agents, AgentRequeue(a) \/ AgentTurn(a)
        PROVE  AppInv'
    BY <1>2, <1>3, AgentRequeueStep, AgentTurnStep
  <1>4. ASSUME NEW command \in TeamCommands, NEW a \in Agents \cup {Nobody}, AgentCommand(command, a)
        PROVE  AppInv'
    BY <1>2, <1>4, AgentCommandStep
  <1>5. ASSUME NEW id \in 1..MaxOperations, AgentAcknowledge(id)
        PROVE  AppInv'
    BY <1>5, AgentAcknowledgeStep
  <1>6. ASSUME NEW c \in Calls,
               \/ \E status \in {"Succeeded", "Failed"} : ToolReconcile(c, status)
               \/ ToolReview(c)
               \/ \E decision \in {"Approve", "Deny"}, a \in Args :
                    ToolDecide(c, decision, [call |-> c, args |-> a])
        PROVE  AppInv'
    <2>1. ASSUME NEW status \in {"Succeeded", "Failed"}, ToolReconcile(c, status)
          PROVE  AppInv'
      <3>1. status \in CallStatus
        BY DEF CallStatus
      <3>2. QED
        BY <2>1, <3>1, ToolReconcileStep
    <2>2. ASSUME NEW decision \in {"Approve", "Deny"}, NEW a \in Args,
                 ToolDecide(c, decision, [call |-> c, args |-> a])
          PROVE  AppInv'
      BY <2>2, ToolDecideStep
    <2>3. QED
      BY <1>6, <2>1, <2>2, ToolReviewStep
  <1>7. QED
    BY <1>1, <1>3, <1>4, <1>5, <1>6, ReadSteps, ContextReduceStep, AnsweredSteps,
       ApprovalRecoveredStep, ConfigSteps DEF ServerStep

-----------------------------------------------------------------------------
(* The open driver.                                                          *)

\* Files are made and torn tails dropped.
LEMMA FilesSafe ==
    ASSUME AppInv, NEW files, NEW torn, NEW e,
           e = [disk EXCEPT !.files = files, !.torn = torn]
    PROVE  /\ DiskSafe(e, delivered, presented) /\ e.pending = disk.pending
           /\ e.calls = disk.calls /\ e.turns = disk.turns /\ e.op = disk.op
  <1>1. /\ DOMAIN e = DiskFields /\ e.agents = disk.agents /\ e.op = disk.op
        /\ e.turns = disk.turns /\ e.pending = disk.pending /\ e.calls = disk.calls
    BY AppFacts DEF DiskOK, DiskFields
  <1>2. QED
    BY <1>1, AppFacts, SameCore

LEMMA OpenSidecarStep ==
    ASSUME AppInv, NEW f, OpenSidecar(f), UNCHANGED <<config, server, shown>>
    PROVE  AppInv'
  <1>1. PICK files, torn : files = disk.files \cup {f} /\ torn = disk.torn \ {f}
    OBVIOUS
  <1>2. /\ disk' = [disk EXCEPT !.files = files, !.torn = torn]
        /\ ran' = ran /\ presented' = presented /\ delivered' = delivered
    BY <1>1 DEF OpenSidecar
  <1>3. PICK step : step = (IF f = "team" THEN "open_tool" ELSE "recover") /\ Goto(step)
    BY DEF OpenSidecar
  <1>4. DiskSafe(disk', delivered', presented')
    BY <1>2, FilesSafe
  <1>5. step # "executing" /\ step \notin UnderWay /\ step # "deliver" /\ step # "acknowledge"
        /\ step # "approval"
    BY <1>3 DEF UnderWay
  <1>6. PlaceOK'
    BY <1>3, <1>5, GotoIs DEF PlaceOK
  <1>7. QED
    BY <1>2, <1>3, <1>4, <1>5, <1>6, GotoStep, SameConnection

\* A driver that is not under way goes on.
LEMMA GotoStart ==
    ASSUME AppInv, NEW step, Goto(step), step \in {"present", "recover", "ready"},
           DiskSafe(disk', delivered', presented'), ran' = ran, ConnectionOK'
    PROVE  AppInv'
  <1>1. step # "executing" /\ step \notin UnderWay /\ step # "deliver" /\ step # "acknowledge"
        /\ step # "approval"
    BY DEF UnderWay
  <1>2. PlaceOK'
    BY <1>1, GotoIs DEF PlaceOK
  <1>3. QED
    BY <1>1, <1>2, GotoStep

LEMMA AdmitRootStep ==
    ASSUME AppInv, admit_root, UNCHANGED <<config, server, shown, ran, presented, delivered>>
    PROVE  AppInv'
  <1>1. CASE dispatch_team_error(disk) # "ok"
    <2>1. PICK error : Done(error) /\ disk' = disk
      BY <1>1 DEF admit_root
    <2>2. DiskSafe(disk', delivered', presented')
      BY <2>1, AppFacts
    <2>3. QED
      BY <2>1, <2>2, DoneStep, SameEffects, SameConnection
  <1>2. CASE dispatch_team_error(disk) = "ok"
    <2>1. PICK agents : agents = <<[status |-> "Active", parent |-> Nobody, preset |-> "none"]>>
      OBVIOUS
    <2>2. PICK e : e = [disk EXCEPT !.agents = agents]
      OBVIOUS
    <2>3. disk' = Committed(e, "RootAdmission") /\ Goto("present")
      BY <1>2, <2>1, <2>2 DEF admit_root
    <2>4. agents \in Seq(Agent)
      <3>1. PICK r : r = [status |-> "Active", parent |-> Nobody, preset |-> "none"]
        OBVIOUS
      <3>2. r \in Agent
        BY <3>1 DEF Agent, AgentStatus, Nobody, Presets
      <3>3. agents = <<r>>
        BY <2>1, <3>1
      <3>4. QED
        BY <3>2, <3>3
    <2>5. DiskSafe(e, delivered, presented)
      BY <1>2, <2>2, <2>4, AppFacts, DispatchIs, AgentsSafe
    <2>6. DiskSafe(disk', delivered', presented')
      BY <2>3, <2>5, CommittedSafe
    <2>7. PICK step : step = "present" /\ Goto(step)
      BY <2>3
    <2>8. QED
      BY <2>6, <2>7, GotoStart, SameConnection
  <1>3. QED
    BY <1>1, <1>2

LEMMA FromRecoveryStep ==
    ASSUME AppInv, from_recovery, UNCHANGED <<config, server, shown>>
    PROVE  AppInv'
  <1>1. ran' = ran /\ presented' = presented /\ delivered' = delivered
    BY DEF from_recovery
  <1>2. \/ disk' = disk /\ \E error : Done(error)
        \/ disk' = disk /\ Goto("present")
        \/ admit_root
        \/ /\ disk' = disk /\ active_root_agent(disk) = "ok"
           /\ driver' = [driver EXCEPT !.at = "ready", !.session = TheRoot(disk)]
    BY DEF from_recovery
  <1>3. disk' = disk => DiskSafe(disk', delivered', presented')
    BY <1>1, AppFacts
  <1>4. CASE disk' = disk /\ \E error : Done(error)
    <2>1. PICK error : Done(error)
      BY <1>4
    <2>2. QED
      BY <1>1, <1>3, <1>4, <2>1, DoneStep, SameEffects, SameConnection
  <1>5. CASE disk' = disk /\ Goto("present")
    <2>1. PICK step : step = "present" /\ Goto(step)
      BY <1>5
    <2>2. QED
      BY <1>1, <1>3, <1>5, <2>1, GotoStart, SameConnection
  <1>6. CASE admit_root
    BY <1>1, <1>6, AdmitRootStep
  <1>7. CASE /\ disk' = disk /\ active_root_agent(disk) = "ok"
             /\ driver' = [driver EXCEPT !.at = "ready", !.session = TheRoot(disk)]
    <2>1. PICK a : a = TheRoot(disk)
      OBVIOUS
    <2>2. a \in Nat
      BY <1>7, <2>1, AppFacts, RootIs
    <2>3. driver' = [driver EXCEPT !.at = "ready", !.session = a]
      BY <1>7, <2>1
    <2>4. /\ DOMAIN driver' = DriverFields /\ driver'.session = a /\ driver'.at = "ready"
          /\ driver'.by = driver.by /\ driver'.goal = driver.goal
          /\ driver'.saw = driver.saw /\ driver'.reviewed = driver.reviewed
      BY <2>3, AppFacts DEF DriverOK, DriverFields
    <2>5. DriverOK' /\ PlaceOK' /\ DecisionOK'
      BY <2>2, <2>4, AppFacts DEF DriverOK, PlaceOK, DecisionOK, UnderWay
    <2>6. QED
      BY <1>1, <1>3, <1>7, <2>5, SameEffects, SameConnection DEF AppInv
  <1>8. QED
    BY <1>2, <1>4, <1>5, <1>6, <1>7

LEMMA PresentStep ==
    ASSUME AppInv, Present, UNCHANGED <<config, server, shown>>
    PROVE  AppInv'
  <1>1. disk' = disk /\ ran' = ran /\ delivered' = delivered
    BY DEF Present
  <1>2. \/ Goto("acknowledge") /\ presented' = presented \cup {disk.op.id}
        \/ Done("Interaction") /\ presented' = presented
    BY DEF Present
  <1>3. DiskSafe(disk', delivered', presented')
    BY <1>1, <1>2, AppFacts, Larger
  <1>4. CASE Goto("acknowledge") /\ presented' = presented \cup {disk.op.id}
    <2>1. PICK step : step = "acknowledge" /\ Goto(step)
      BY <1>4
    <2>2. PlaceOK'
      BY <1>1, <1>4, <2>1, GotoIs DEF PlaceOK, UnderWay
    <2>3. QED
      BY <1>1, <1>3, <2>1, <2>2, GotoStep, SameConnection
  <1>5. CASE Done("Interaction") /\ presented' = presented
    BY <1>1, <1>3, <1>5, DoneStep, SameEffects, SameConnection
  <1>6. QED
    BY <1>2, <1>4, <1>5

LEMMA AcknowledgeRootStep ==
    ASSUME AppInv, AcknowledgeRoot, UNCHANGED <<config, server, shown>>
    PROVE  AppInv'
  <1>1. ran' = ran /\ presented' = presented /\ delivered' = delivered /\ driver.at = "acknowledge"
    BY DEF AcknowledgeRoot, At
  <1>2. PICK e : e = [disk EXCEPT !.op.acked = TRUE]
    OBVIOUS
  <1>3. \/ disk' = disk /\ \E error : Done(error)
        \/ disk' = e /\ Goto("recover")
    BY <1>2 DEF AcknowledgeRoot
  <1>4. CASE disk' = disk /\ \E error : Done(error)
    <2>1. PICK error : Done(error)
      BY <1>4
    <2>2. DiskSafe(disk', delivered', presented')
      BY <1>1, <1>4, AppFacts
    <2>3. QED
      BY <1>1, <2>1, <2>2, DoneStep, SameEffects, SameConnection
  <1>5. CASE disk' = e /\ Goto("recover")
    <2>1. disk.op.id \in presented
      BY <1>1, AppFacts DEF PlaceOK
    <2>2. DiskSafe(disk', delivered', presented')
      BY <1>1, <1>2, <1>5, <2>1, AppFacts, AckSafe
    <2>3. PICK step : step = "recover" /\ Goto(step)
      BY <1>5
    <2>4. QED
      BY <1>1, <2>2, <2>3, GotoStart, SameConnection
  <1>6. QED
    BY <1>3, <1>4, <1>5

LEMMA ExecuteStep ==
    ASSUME AppInv, Execute, UNCHANGED <<config, server, shown>>
    PROVE  AppInv'
  <1>1. ran' = ran /\ presented' = presented /\ delivered' = delivered
    BY DEF Execute
  <1>2. PICK r : r = [owner |-> driver.session, ending |-> "none", executable |-> TRUE]
    OBVIOUS
  <1>3. \/ disk' = disk /\ \E error : Done(error)
        \/ /\ Admissible(disk, driver.session) = "ok" /\ disk' = AddTurn(disk, r)
           /\ Goto("asking")
    BY <1>2 DEF Execute, AddTurn, Armed
  <1>4. CASE disk' = disk /\ \E error : Done(error)
    <2>1. PICK error : Done(error)
      BY <1>4
    <2>2. DiskSafe(disk', delivered', presented')
      BY <1>1, <1>4, AppFacts
    <2>3. QED
      BY <1>1, <2>1, <2>2, DoneStep, SameEffects, SameConnection
  <1>5. CASE /\ Admissible(disk, driver.session) = "ok" /\ disk' = AddTurn(disk, r)
             /\ Goto("asking")
    <2>1. r \in Turn
      <3>1. DOMAIN r = {"owner", "ending", "executable"} /\ r.owner \in Nat /\ r.ending \in Endings
        BY <1>2, AppFacts DEF DriverOK, Endings
      <3>2. r.executable \in BOOLEAN
        BY <1>2
      <3>3. QED
        BY <1>2, <3>1, <3>2 DEF Turn
    <2>2. r.ending = "none" /\ r.owner = driver.session
      BY <1>2
    <2>3. driver.session = Nobody \/ driver.session \in Active(disk)
      BY <1>5 DEF Admissible
    <2>4. DiskSafe(disk', delivered', presented') /\ disk'.pending.phase = "Admitted"
      BY <1>1, <1>5, <2>1, <2>2, <2>3, AppFacts, AddTurnSafe
    <2>5. PICK step : step = "asking" /\ Goto(step)
      BY <1>5
    <2>6. PlaceOK'
      BY <2>4, <2>5, GotoIs DEF PlaceOK
    <2>7. QED
      BY <1>1, <2>4, <2>5, <2>6, GotoStep, SameConnection
  <1>6. QED
    BY <1>3, <1>4, <1>5

\* The Turn ends with what is known of it.
LEMMA TurnEnds ==
    ASSUME AppInv, driver.at \in UnderWay, NEW res, Done(res),
           \/ disk' = disk \/ disk' = Prepare(disk)
           \/ \E origin, retryable : disk' = Block(disk, origin, retryable),
           UNCHANGED <<config, server, shown, ran, presented, delivered>>
    PROVE  AppInv'
  <1>1. disk.pending.phase # "None"
    BY AppFacts DEF PlaceOK
  <1>2. DiskSafe(disk', delivered', presented')
    BY <1>1, AppFacts, PrepareSafe, BlockSafe
  <1>3. QED
    BY <1>2, DoneStep, SameEffects, SameConnection

LEMMA ProviderAnswersStep ==
    ASSUME AppInv, ProviderAnswers, UNCHANGED <<config, server, shown>>
    PROVE  AppInv'
  <1>1. driver.at \in UnderWay /\ ran' = ran /\ presented' = presented /\ delivered' = delivered
    BY DEF ProviderAnswers, At, UnderWay
  <1>2. \E res : /\ Done(res)
                 /\ \/ disk' = disk \/ disk' = Prepare(disk)
                    \/ \E origin, retryable : disk' = Block(disk, origin, retryable)
    BY DEF ProviderAnswers
  <1>3. QED
    BY <1>1, <1>2, TurnEnds

\* The Provider asks for a call; the driver waits for its approval.
LEMMA ApprovalStep ==
    ASSUME AppInv, driver.at = "asking", NEW c, c \in DOMAIN disk'.calls,
           driver' = [driver EXCEPT !.at = "approval", !.call = c],
           DiskSafe(disk', delivered', presented'), disk'.pending = disk.pending,
           ran' = ran, ConnectionOK'
    PROVE  AppInv'
  <1>1. /\ DOMAIN driver' = DriverFields /\ driver'.session = driver.session
        /\ driver'.at = "approval" /\ driver'.by = driver.by /\ driver'.goal = driver.goal
        /\ driver'.saw = driver.saw /\ driver'.reviewed = driver.reviewed /\ driver'.call = c
    BY AppFacts DEF DriverOK, DriverFields
  <1>2. DriverOK' /\ PlaceOK'
    BY <1>1, AppFacts DEF DriverOK, PlaceOK, UnderWay
  <1>3. DecisionOK'
    BY <1>1, AppFacts DEF DecisionOK
  <1>4. QED
    BY <1>2, <1>3, SameEffects DEF AppInv

LEMMA ProviderCallsToolStep ==
    ASSUME AppInv, ProviderCallsTool, UNCHANGED <<config, server, shown>>
    PROVE  AppInv'
  <1> DEFINE Wanted(i, a) == [owner |-> driver.session, turn |-> CurrentTurn(disk), ident |-> i,
                              args |-> a, status |-> "AwaitingApproval"]
             Waiting(c) == driver' = [driver EXCEPT !.at = "approval", !.call = c]
  <1>1. driver.at = "asking" /\ ran' = ran /\ presented' = presented /\ delivered' = delivered
    BY DEF ProviderCallsTool, At
  <1>2. \/ \E res : /\ Done(res)
                    /\ disk' = disk \/ \E origin, retryable : disk' = Block(disk, origin, retryable)
        \/ \E i \in CallId, a \in Args :
              disk' = AddCall(disk, Wanted(i, a)) /\ Waiting(Len(disk.calls) + 1)
        \/ \E c \in DOMAIN disk.calls : disk' = disk /\ Waiting(c)
    BY DEF ProviderCallsTool, Known, AddCall
  <1>3. ASSUME NEW res, Done(res),
               disk' = disk \/ \E origin, retryable : disk' = Block(disk, origin, retryable)
        PROVE  AppInv'
    <2>1. driver.at \in UnderWay
      BY <1>1 DEF UnderWay
    <2>2. QED
      BY <1>1, <1>3, <2>1, TurnEnds
  <1>4. ASSUME NEW i \in CallId, NEW a \in Args,
               disk' = AddCall(disk, Wanted(i, a)), Waiting(Len(disk.calls) + 1)
        PROVE  AppInv'
    <2>1. PICK r : r = Wanted(i, a)
      OBVIOUS
    <2>2. r \in ToolCall
      <3>1. CurrentTurn(disk) \in Nat
        BY AppFacts, LenProperties DEF CurrentTurn, DiskOK
      <3>2. "AwaitingApproval" \in CallStatus
        BY DEF CallStatus
      <3>3. QED
        BY <2>1, <3>1, <3>2, AppFacts DEF ToolCall, DriverOK
    <2>3. PICK c : c = Len(disk.calls) + 1
      OBVIOUS
    <2>4. disk' = AddCall(disk, r) /\ Waiting(c)
      BY <1>4, <2>1, <2>3
    <2>5. /\ DiskSafe(disk', delivered', presented') /\ disk'.pending = disk.pending
          /\ c \in DOMAIN disk'.calls
      BY <1>1, <2>2, <2>3, <2>4, AppFacts, AddCallSafe
    <2>6. QED
      BY <1>1, <2>4, <2>5, ApprovalStep, SameConnection
  <1>5. ASSUME NEW c \in DOMAIN disk.calls, disk' = disk, Waiting(c)
        PROVE  AppInv'
    <2>1. DiskSafe(disk', delivered', presented')
      BY <1>1, <1>5, AppFacts
    <2>2. QED
      BY <1>1, <1>5, <2>1, ApprovalStep, SameConnection
  <1> HIDE DEF Wanted, Waiting
  <1>6. QED
    BY <1>2, <1>3, <1>4, <1>5

LEMMA FinishStep ==
    ASSUME AppInv, finish, UNCHANGED <<config, server, shown>>
    PROVE  AppInv'
  <1>1. driver.at = "approval" /\ ran' = ran /\ presented' = presented /\ delivered' = delivered
    BY DEF finish, At
  <1>2. \/ Done("Interaction") /\ disk' = disk
        \/ driver.by = "cli" /\ \E decision \in {"Approve", "Deny"} : Resolve(decision)
    BY DEF finish
  <1>3. CASE Done("Interaction") /\ disk' = disk
    <2>1. driver.at \in UnderWay
      BY <1>1 DEF UnderWay
    <2>2. QED
      BY <1>1, <1>3, <2>1, TurnEnds
  <1>4. CASE driver.by = "cli" /\ \E decision \in {"Approve", "Deny"} : Resolve(decision)
    <2>1. PICK decision : Resolve(decision)
      BY <1>4
    <2>2. driver.by # "server"
      BY <1>4
    <2>3. QED
      BY <1>1, <2>1, <2>2, ResolveStep, SameConnection
  <1>5. QED
    BY <1>2, <1>3, <1>4

LEMMA RunEffectStep ==
    ASSUME AppInv, RunEffect, UNCHANGED <<config, server, shown>>
    PROVE  AppInv'
  <1>1. driver.at = "executing" /\ presented' = presented /\ delivered' = delivered
    BY DEF RunEffect, At
  <1>2. PICK c : c = driver.call
    OBVIOUS
  <1>3. c \in DOMAIN disk.calls /\ disk.pending.phase = "Admitted"
    BY <1>1, <1>2, AppFacts DEF PlaceOK, UnderWay
  <1>4. PICK effect : effect = [binding |-> Binding(disk, driver.call), by |-> driver.by,
                                saw |-> driver.saw]
    OBVIOUS
  <1>5. ran' = ran \cup {effect}
    BY <1>4 DEF RunEffect
  <1>6. EffectsWereReviewed'
    <2>1. PICK b : b = Binding(disk, driver.call)
      OBVIOUS
    <2>2. driver.by = "server" => driver.saw = {b}
      BY <1>1, <2>1, AppFacts DEF DecisionOK
    <2>3. effect.by = driver.by /\ effect.saw = driver.saw /\ effect.binding = b
      BY <1>4, <2>1
    <2>4. effect.by = "server" => effect.saw = {effect.binding}
      BY <2>2, <2>3
    <2>5. QED
      BY <1>5, <2>4, AppFacts DEF EffectsWereReviewed
  <1>7. \/ disk' = SetCall(disk, c, "Succeeded") /\ Goto("continuing")
        \/ disk' = Block(SetCall(disk, c, "Failed"), "Other", FALSE) /\ \E res : Done(res)
        \/ disk' = disk /\ \E res : Done(res)
    BY <1>2 DEF RunEffect, SetCall
  <1>8. CASE disk' = SetCall(disk, c, "Succeeded") /\ Goto("continuing")
    <2>1. PICK status \in CallStatus : status = "Succeeded"
      BY DEF CallStatus
    <2>2. DiskSafe(disk', delivered', presented') /\ disk'.pending = disk.pending
      BY <1>1, <1>3, <1>8, <2>1, AppFacts, SetCallSafe
    <2>3. PICK step : step = "continuing" /\ Goto(step)
      BY <1>8
    <2>4. DriverOK' /\ PlaceOK'
      BY <1>3, <2>2, <2>3, GotoIs, AppFacts DEF DriverOK, PlaceOK, UnderWay
    <2>5. DecisionOK'
      BY <2>3, GotoIs, AppFacts DEF DecisionOK
    <2>6. QED
      BY <1>6, <2>2, <2>4, <2>5, SameConnection DEF AppInv
  <1>9. CASE disk' = Block(SetCall(disk, c, "Failed"), "Other", FALSE) /\ \E res : Done(res)
    <2>1. PICK status \in CallStatus : status = "Failed"
      BY DEF CallStatus
    <2>2. PICK d : d = SetCall(disk, c, status)
      OBVIOUS
    <2>3. DiskSafe(d, delivered, presented) /\ d.pending = disk.pending
      BY <1>3, <2>2, AppFacts, SetCallSafe
    <2>4. DiskSafe(Block(d, "Other", FALSE), delivered, presented)
      BY <1>3, <2>3, BlockSafe
    <2>5. DiskSafe(disk', delivered', presented')
      BY <1>1, <1>9, <2>1, <2>2, <2>4
    <2>6. PICK res : Done(res)
      BY <1>9
    <2>7. QED
      BY <1>6, <2>5, <2>6, DoneStep, SameConnection
  <1>10. CASE disk' = disk /\ \E res : Done(res)
    <2>1. PICK res : Done(res)
      BY <1>10
    <2>2. DiskSafe(disk', delivered', presented')
      BY <1>1, <1>10, AppFacts
    <2>3. QED
      BY <1>6, <2>1, <2>2, DoneStep, SameConnection
  <1>11. QED
    BY <1>7, <1>8, <1>9, <1>10

LEMMA DriverStepSafe ==
    ASSUME AppInv, DriverStep, UNCHANGED <<config, server, shown>>
    PROVE  AppInv'
  BY OpenSidecarStep, FromRecoveryStep, PresentStep, AcknowledgeRootStep, ExecuteStep,
     ProviderAnswersStep, ProviderCallsToolStep, FinishStep, RunEffectStep DEF DriverStep

-----------------------------------------------------------------------------
(* The command line.                                                         *)

LEMMA TailsSafe ==
    ASSUME AppInv, NEW torn, NEW e, e = [disk EXCEPT !.torn = torn]
    PROVE  /\ DiskSafe(e, delivered, presented) /\ e.pending = disk.pending
           /\ e.calls = disk.calls /\ e.turns = disk.turns /\ e.op = disk.op
  <1>1. /\ DOMAIN e = DiskFields /\ e.agents = disk.agents /\ e.op = disk.op
        /\ e.turns = disk.turns /\ e.pending = disk.pending /\ e.calls = disk.calls
    BY AppFacts DEF DiskOK, DiskFields
  <1>2. QED
    BY <1>1, AppFacts, SameCore

LEMMA NewTurnSteps ==
    ASSUME AppInv, HeadlessPlain \/ run_product_turn
    PROVE  AppInv'
  <1>1. PICK files, torn : files = disk.files \cup {"runtime"} /\ torn = disk.torn \ {"runtime"}
    OBVIOUS
  <1>2. /\ disk' = [disk EXCEPT !.files = files, !.torn = torn]
        /\ Hold("cli", "run", "ready", Nobody) \/ Hold("cli", "run", "open_team", Nobody)
        /\ ran' = ran /\ presented' = presented /\ delivered' = delivered
        /\ UNCHANGED <<config, server, shown>>
    BY <1>1 DEF HeadlessPlain, run_product_turn, open_with_executor, ghosts, cli
  <1>3. DiskSafe(disk', delivered', presented')
    BY <1>2, FilesSafe
  <1>4. PICK goal, step : /\ goal = "run" /\ step \in {"ready", "open_team"}
                          /\ Hold("cli", goal, step, Nobody)
    BY <1>2
  <1>5. step \in {"open_team", "ready", "asking"} /\ goal \in {"run", "resume"}
        /\ step # "asking" /\ Nobody \in Nat
    BY <1>4 DEF Nobody
  <1>6. QED
    BY <1>2, <1>3, <1>4, <1>5, HoldStep, SameConnection

LEMMA ResumePlainStep ==
    ASSUME AppInv, ResumePlain
    PROVE  AppInv'
  <1>1. PICK torn : torn = disk.torn \ {"runtime"}
    OBVIOUS
  <1>2. /\ disk' = [disk EXCEPT !.torn = torn] /\ Status(disk) = "ResumeRequired"
        /\ ran' = ran /\ presented' = presented /\ delivered' = delivered
        /\ UNCHANGED <<config, server, shown>>
    BY <1>1 DEF ResumePlain, ghosts, cli
  <1>3. DiskSafe(disk', delivered', presented') /\ disk'.pending = disk.pending
    BY <1>2, TailsSafe
  <1>4. disk'.pending.phase = "Admitted"
    BY <1>2, <1>3, AppFacts, StatusIs
  <1>5. PICK goal, step : goal = "resume" /\ step = "asking" /\ Hold("cli", goal, step, Nobody)
    BY DEF ResumePlain
  <1>6. step \in {"open_team", "ready", "asking"} /\ goal \in {"run", "resume"} /\ Nobody \in Nat
    BY <1>5 DEF Nobody
  <1>7. QED
    BY <1>2, <1>3, <1>4, <1>5, <1>6, HoldStep, SameConnection

LEMMA ResumeProductStep ==
    ASSUME AppInv, resume_product_turn
    PROVE  AppInv'
  <1>1. PICK t : t = CurrentTurn(disk)
    OBVIOUS
  <1>2. /\ open_existing_for_provider_recovery(disk, t) = "ok"
        /\ Hold("cli", "resume", "asking", Owner(disk, t))
        /\ disk' = disk /\ ran' = ran /\ presented' = presented /\ delivered' = delivered
        /\ UNCHANGED <<config, server, shown>>
    BY <1>1 DEF resume_product_turn, ghosts, cli
  <1>3. disk.pending.phase = "Admitted"
    BY <1>2, AppFacts, ProviderRecoveryIs
  <1>4. PICK session : session = Owner(disk, t)
    OBVIOUS
  <1>5. session \in Nat
    <2>1. t \in DOMAIN disk.turns
      BY <1>2 DEF open_existing_for_provider_recovery, provider_turn_session, TeamReady
    <2>2. disk.turns[t] \in Turn
      BY <2>1, AppFacts DEF DiskOK
    <2>3. QED
      BY <1>4, <2>2 DEF Owner, Turn
  <1>6. DiskSafe(disk', delivered', presented') /\ disk'.pending.phase = "Admitted"
    BY <1>2, <1>3, AppFacts
  <1>7. PICK goal, step : goal = "resume" /\ step = "asking" /\ Hold("cli", goal, step, session)
    BY <1>2, <1>4
  <1>8. step \in {"open_team", "ready", "asking"} /\ goal \in {"run", "resume"}
    BY <1>7
  <1>9. QED
    BY <1>2, <1>5, <1>6, <1>7, <1>8, HoldStep, SameConnection

LEMMA RetryStep ==
    ASSUME AppInv, NEW t, Retry(t) \/ \E a : retry_product_agent_turn(a, t)
    PROVE  AppInv'
  <1>1. /\ disk' = Rearmed(disk) /\ driver' = driver
        /\ ran' = ran /\ presented' = presented /\ delivered' = delivered
        /\ UNCHANGED <<config, server, shown>>
    BY DEF Retry, retry_product_agent_turn, ghosts, cli
  <1>2. Closed /\ disk.pending.phase # "None"
    <2>1. CASE Retry(t)
      <3>1. \/ request_product_provider_turn_recovery(disk, t) = "ok"
            \/ OpenRuntime(disk) = "ok" /\ retry_error(disk, t, Nobody) = "ok"
        BY <2>1 DEF Retry
      <3>2. QED
        BY <3>1, AppFacts, RecoveryIs, RuntimeIsClosed, RetryIs
    <2>2. CASE \E a : retry_product_agent_turn(a, t)
      <3>1. PICK a : request_product_agent_provider_turn_recovery(disk, a, t) = "ok"
        BY <2>2 DEF retry_product_agent_turn
      <3>2. QED
        BY <3>1, AppFacts, AgentRecoveryIs
    <2>3. QED
      BY <2>1, <2>2
  <1>3. DiskSafe(disk', delivered', presented')
    BY <1>1, <1>2, AppFacts, RearmedSafe
  <1>4. QED
    BY <1>1, <1>2, <1>3, ControlStep, SameConnection

LEMMA CancelTurnStep ==
    ASSUME AppInv, NEW t, CancelTurn(t)
    PROVE  AppInv'
  <1>1. /\ disk' = Cancelled(disk) /\ driver' = driver
        /\ ran' = ran /\ presented' = presented /\ delivered' = delivered
        /\ UNCHANGED <<config, server, shown>>
    BY DEF CancelTurn, ghosts, cli
  <1>2. cancel_product_provider_turn(disk, t) = "ok" \/ OpenRuntime(disk) = "ok"
    BY DEF CancelTurn
  <1>3. Closed
    BY <1>2, CancelIsClosed, RuntimeIsClosed
  <1>4. DiskSafe(disk', delivered', presented')
    BY <1>1, AppFacts, CancelledSafe
  <1>5. QED
    BY <1>1, <1>3, <1>4, ControlStep, SameConnection

LEMMA RunAgentStep ==
    ASSUME AppInv, NEW a \in Nat, run_agent_turn(a)
    PROVE  AppInv'
  <1>1. /\ disk' = disk /\ ran' = ran /\ presented' = presented /\ delivered' = delivered
        /\ UNCHANGED <<config, server, shown>>
    BY DEF run_agent_turn, ghosts, cli
  <1>2. PICK goal, step : goal = "run" /\ step = "ready" /\ Hold("cli", goal, step, a)
    BY DEF run_agent_turn
  <1>3. step \in {"open_team", "ready", "asking"} /\ goal \in {"run", "resume"} /\ step # "asking"
    BY <1>2
  <1>4. DiskSafe(disk', delivered', presented')
    BY <1>1, AppFacts
  <1>5. QED
    BY <1>1, <1>2, <1>3, <1>4, HoldStep, SameConnection

LEMMA DeliverStep ==
    ASSUME AppInv, deliver_product_and_ack
    PROVE  AppInv'
  <1>1. /\ disk' = disk /\ ran' = ran /\ presented' = presented
        /\ UNCHANGED <<config, server, shown>>
    BY DEF deliver_product_and_ack, cli
  <1>2. \/ delivered' = delivered \cup {CurrentTurn(disk)} /\ Goto("deliver")
        \/ driver' = NoDriver /\ delivered' = delivered
    BY DEF deliver_product_and_ack
  <1>3. DiskSafe(disk', delivered', presented')
    BY <1>1, <1>2, AppFacts, Larger
  <1>4. CASE delivered' = delivered \cup {CurrentTurn(disk)} /\ Goto("deliver")
    <2>1. PICK step : step = "deliver" /\ Goto(step)
      BY <1>4
    <2>2. CurrentTurn(disk)' \in delivered'
      BY <1>1, <1>4 DEF CurrentTurn
    <2>3. PlaceOK'
      BY <2>1, <2>2, GotoIs DEF PlaceOK, UnderWay
    <2>4. QED
      BY <1>1, <1>3, <2>1, <2>3, GotoStep, SameConnection
  <1>5. CASE driver' = NoDriver /\ delivered' = delivered
    BY <1>1, <1>3, <1>5, IdleStep, SameConnection
  <1>6. QED
    BY <1>2, <1>4, <1>5

LEMMA AcknowledgeDeliveredStep ==
    ASSUME AppInv, AcknowledgeDelivered
    PROVE  AppInv'
  <1>1. /\ driver.at = "deliver" /\ driver' = NoDriver
        /\ disk' = disk \/ disk' = Acknowledged(disk)
        /\ ran' = ran /\ presented' = presented /\ delivered' = delivered
        /\ UNCHANGED <<config, server, shown>>
    BY DEF AcknowledgeDelivered, At, ghosts, cli
  <1>2. CurrentTurn(disk) \in delivered
    BY <1>1, AppFacts DEF PlaceOK
  <1>3. DiskSafe(disk', delivered', presented')
    BY <1>1, <1>2, AppFacts, AcknowledgedSafe
  <1>4. QED
    BY <1>1, <1>3, IdleStep, SameConnection

LEMMA ReconcileStep ==
    ASSUME AppInv, Reconcile
    PROVE  AppInv'
  <1>1. PICK torn : torn = disk.torn \ {"runtime"}
    OBVIOUS
  <1>2. PICK e : e = [disk EXCEPT !.torn = torn]
    OBVIOUS
  <1>3. /\ Closed /\ disk' = Acknowledged(e) /\ delivered' = delivered \cup {CurrentTurn(disk)}
        /\ driver' = driver /\ ran' = ran /\ presented' = presented
        /\ UNCHANGED <<config, server, shown>>
    BY <1>1, <1>2 DEF Reconcile, cli
  <1>4. DiskSafe(e, delivered, presented) /\ e.turns = disk.turns
    BY <1>2, TailsSafe
  <1>5. DiskSafe(e, delivered', presented')
    BY <1>3, <1>4, Larger
  <1>6. CurrentTurn(e) \in delivered'
    BY <1>3, <1>4 DEF CurrentTurn
  <1>7. DiskSafe(disk', delivered', presented')
    BY <1>3, <1>5, <1>6, AcknowledgedSafe
  <1>8. QED
    BY <1>3, <1>7, ControlStep, SameConnection

LEMMA StageStep ==
    ASSUME AppInv, StageSelection
    PROVE  AppInv'
  <1>1. /\ stage_product_model_selection(disk) = "ok" /\ disk' = Staged(disk) /\ driver' = driver
        /\ ran' = ran /\ presented' = presented /\ delivered' = delivered
        /\ UNCHANGED <<config, server, shown>>
    BY DEF StageSelection, ghosts, cli
  <1>2. Closed
    <2>1. PICK d : d = [disk EXCEPT !.torn = {}]
      OBVIOUS
    <2>2. ExistingProduct(d, "CurrentAgentUnavailable") = "ok"
      BY <1>1, <2>1 DEF stage_product_model_selection
    <2>3. QED
      BY <2>2, ExistingIsClosed
  <1>3. PICK staged : staged = {TheRoot(disk)}
    OBVIOUS
  <1>4. disk' = [disk EXCEPT !.staged = staged, !.torn = {}]
    BY <1>1, <1>3 DEF Staged
  <1>5. /\ DOMAIN disk' = DiskFields /\ disk'.agents = disk.agents /\ disk'.op = disk.op
        /\ disk'.turns = disk.turns /\ disk'.pending = disk.pending /\ disk'.calls = disk.calls
    BY <1>4, AppFacts DEF DiskOK, DiskFields
  <1>6. DiskSafe(disk', delivered', presented')
    BY <1>1, <1>5, AppFacts, SameCore
  <1>7. QED
    BY <1>1, <1>2, <1>6, ControlStep, SameConnection

LEMMA ConfigSetStep ==
    ASSUME AppInv, NEW value \in ConfigValue, ConfigSet(value)
    PROVE  AppInv'
  <1>1. /\ config' = [revision |-> config.revision + 1, value |-> value]
        /\ disk' = disk /\ driver' = driver /\ ran' = ran
        /\ presented' = presented /\ delivered' = delivered /\ UNCHANGED <<server, shown>>
    BY DEF ConfigSet, ghosts
  <1>2. config'.value = value
    BY <1>1
  <1>3. ConnectionOK'
    BY <1>1, <1>2, AppFacts DEF ConnectionOK
  <1>4. QED
    BY <1>1, <1>3, QuietStep

LEMMA CrashStep ==
    ASSUME AppInv, Crash
    PROVE  AppInv'
  <1>1. /\ driver' = NoDriver /\ ran' = ran /\ presented' = presented /\ delivered' = delivered
        /\ config' = config
    BY DEF Crash, ghosts
  <1>2. PICK torn : disk' = [disk EXCEPT !.torn = torn]
    BY DEF Crash
  <1>3. DiskSafe(disk', delivered', presented')
    BY <1>1, <1>2, TailsSafe
  <1>4. ConnectionOK'
    <2>1. CASE UNCHANGED <<server, shown>>
      BY <1>1, <2>1, SameConnection
    <2>2. CASE server' = [config |-> config, review |-> {}]
      BY <1>1, <2>2, AppFacts DEF ConnectionOK
    <2>3. QED
      BY <2>1, <2>2 DEF Crash, NewConnection
  <1>5. QED
    BY <1>1, <1>3, <1>4, IdleStep

LEMMA CliStepSafe ==
    ASSUME AppInv, CliStep
    PROVE  AppInv'
  <1>1. ASSUME NEW t \in Turns,
               Retry(t) \/ CancelTurn(t) \/ \E a \in Agents : retry_product_agent_turn(a, t)
        PROVE  AppInv'
    BY <1>1, RetryStep, CancelTurnStep
  <1>2. ASSUME NEW a \in Agents, run_agent_turn(a)
        PROVE  AppInv'
    <2>1. a \in Nat
      BY DriverAssumption DEF Agents
    <2>2. QED
      BY <1>2, <2>1, RunAgentStep
  <1>3. QED
    BY <1>1, <1>2, NewTurnSteps, ResumePlainStep, ResumeProductStep, DeliverStep,
       AcknowledgeDeliveredStep, ReconcileStep, StageStep, ConfigSetStep, CrashStep DEF CliStep

-----------------------------------------------------------------------------
(* The theorems.                                                             *)

LEMMA AppInit ==
    ASSUME Init
    PROVE  AppInv
  <1>1. /\ driver = NoDriver /\ ran = {} /\ config \in [revision : {0}, value : ConfigValue]
        /\ server = [config |-> config, review |-> {}]
        /\ disk = EmptyDisk \/ disk = OldTurn
    BY DEF Init, NewConnection
  <1>2. ConnectionOK
    BY <1>1 DEF ConnectionOK
  <1>3. DriverOK /\ PlaceOK /\ DecisionOK /\ EffectsWereReviewed
    BY <1>1, NoDriverIs DEF DriverOK, PlaceOK, DecisionOK, EffectsWereReviewed, UnderWay
  <1>4. PICK o : o = [id |-> 0, kind |-> "none", acked |-> TRUE]
    OBVIOUS
  <1>5. DOMAIN o = {"id", "kind", "acked"} /\ o.id = 0
    BY <1>4
  <1>6. o.acked \in BOOLEAN
    BY <1>4
  <1>7. CASE disk = EmptyDisk
    <2>1. /\ DOMAIN disk = DiskFields /\ disk.agents = <<>> /\ disk.turns = <<>> /\ disk.calls = <<>>
          /\ disk.op = o /\ disk.pending = NoTurn
      BY <1>4, <1>7 DEF EmptyDisk, DiskFields
    <2>2. DiskOK(disk) /\ OwnerActive(disk)
      BY <1>5, <1>6, <2>1 DEF DiskOK, OwnerActive, NoTurn, Phases
    <2>3. CompletedIn(disk, delivered) /\ AckedIn(disk, presented)
      BY <1>5, <2>1 DEF CompletedIn, AckedIn
    <2>4. QED
      BY <1>2, <1>3, <2>2, <2>3 DEF AppInv, DiskSafe
  <1>8. CASE disk = OldTurn
    <2>1. PICK r : r = [owner |-> Nobody, ending |-> "none", executable |-> FALSE]
      OBVIOUS
    <2>2. disk = [EmptyDisk EXCEPT !.files = {"runtime"}, !.turns = <<r>>, !.pending = Armed]
      BY <1>8, <2>1 DEF OldTurn, Armed
    <2>3. /\ DOMAIN disk = DiskFields /\ disk.agents = <<>> /\ disk.turns = <<r>> /\ disk.calls = <<>>
          /\ disk.op = o /\ disk.pending = Armed
      BY <1>4, <2>2 DEF EmptyDisk, DiskFields
    <2>4. r \in Turn /\ r.owner = Nobody /\ r.ending = "none"
      <3>1. r.executable \in BOOLEAN
        BY <2>1
      <3>2. QED
        BY <2>1, <3>1 DEF Turn, Nobody, Endings
    <2>5. disk.turns \in Seq(Turn) /\ Len(disk.turns) = 1 /\ disk.turns[1] = r /\ DOMAIN disk.turns = {1}
      BY <2>3, <2>4
    <2>6. DiskOK(disk)
      BY <1>5, <1>6, <2>3, <2>5, ArmedIs DEF DiskOK, Phases
    <2>7. OwnerActive(disk)
      BY <2>4, <2>5 DEF OwnerActive, Owner, CurrentTurn
    <2>8. CompletedIn(disk, delivered) /\ AckedIn(disk, presented)
      BY <1>5, <2>3, <2>4, <2>5 DEF CompletedIn, AckedIn
    <2>9. QED
      BY <1>2, <1>3, <2>6, <2>7, <2>8 DEF AppInv, DiskSafe
  <1>9. QED
    BY <1>1, <1>7, <1>8

LEMMA AppStep ==
    ASSUME AppInv, [Next]_vars
    PROVE  AppInv'
  <1>1. CASE DriverStep /\ UNCHANGED <<cli, crashes>>
    BY <1>1, DriverStepSafe DEF cli
  <1>2. CASE ServerStep
    BY <1>2, ServerStepSafe
  <1>3. CASE CliStep
    BY <1>3, CliStepSafe
  <1>4. CASE UNCHANGED vars
    <2>1. /\ disk' = disk /\ driver' = driver /\ ran' = ran /\ delivered' = delivered
          /\ presented' = presented /\ UNCHANGED <<config, server, shown>>
      BY <1>4 DEF vars
    <2>2. QED
      BY <2>1, QuietStep, SameConnection
  <1>5. QED
    BY <1>1, <1>2, <1>3, <1>4 DEF Next

\* The inductive invariant: what the Ledgers hold, where the open driver is,
\* what it was told, and what the connection has shown.
THEOREM AppInvariant == Spec => []AppInv
  <1>1. Init => AppInv
    BY AppInit
  <1>2. AppInv /\ [Next]_vars => AppInv'
    BY AppStep
  <1>3. QED
    BY <1>1, <1>2, PTL DEF Spec

\* Every effect the App Server lets run was shown on the connection that
\* approved it, with the same arguments (tool.review and tool.decide of
\* app_server.rs over recover_pending_tool_approval of the Product Driver),
\* whatever restarts, crashes and commands of other processes come in between.
THEOREM EffectsReviewed == Spec => []EffectsWereReviewed
  <1>1. AppInv => EffectsWereReviewed
    BY DEF AppInv
  <1>2. QED
    BY <1>1, AppInvariant, PTL

\* The Agent that owns a pending Turn is Active: Team commands are refused
\* while a Turn is pending (dispatch_team of product_driver.rs), and a Turn is
\* admitted only for an Active Agent.
THEOREM OwnersStayActive == Spec => []PendingTurnOwnerIsActive
  <1>1. AppInv => PendingTurnOwnerIsActive
    <2>1. ASSUME AppInv, Status(disk) # "Ready", Owner(disk, CurrentTurn(disk)) # Nobody
          PROVE  Owner(disk, CurrentTurn(disk)) \in Active(disk)
      <3>1. disk.pending.phase # "None"
        BY <2>1, AppFacts, StatusIs
      <3>2. QED
        BY <2>1, <3>1, AppFacts DEF DiskSafe, OwnerActive
    <2>2. QED
      BY <2>1 DEF PendingTurnOwnerIsActive
  <1>2. QED
    BY <1>1, AppInvariant, PTL

\* A completed Turn's output was written out, and an acknowledged Team
\* operation was presented, whichever process closed it and whatever crashed in
\* between (deliver_product_and_ack of cli.rs, runtime.acknowledge and
\* agent.acknowledge of app_server.rs).
THEOREM ClosedSeen == Spec => []ClosedWasSeen
  <1>1. AppInv => ClosedWasSeen
    BY AppFacts DEF DiskSafe, CompletedIn, AckedIn, ClosedWasSeen, CompletedWasDelivered,
                    AcknowledgedWasPresented
  <1>2. QED
    BY <1>1, AppInvariant, PTL
-----------------------------------------------------------------------------
(* The command line: what a parser that reads arguments knows.              *)

\* Read so far: options of the command's family, the ones that may be given
\* again, and positionals where a family takes them.
Readable ==
    /\ cmd \in Commands
    /\ seen \subseteq Options[cmd[1]] /\ again \subseteq seen \cap Repeatable(cmd[1])
    /\ "--capability" \in seen => cmd[2] = "delegate"
    /\ positional \in Nat
    /\ cmd[1] \notin {"config", "credential"} => positional = 0
ParserInv == Readable /\ (verdict = "accepted" => parse)

\* The line of USAGE of the command.
AsUsed ==
    LET usage == Usage(cmd[1], cmd[2])
    IN  /\ usage.must \subseteq seen /\ seen \subseteq usage.must \cup usage.may
        /\ positional = usage.positionals /\ Alternatives

\* What a command must be given, and what it must not.
Follows(must, never, n) ==
    (\A o \in must : o \in seen) /\ (\A o \in never : o \notin seen) /\ positional = n

LEMMA SynopsisIs ==
    ASSUME NEW must, NEW may, NEW n, NEW options, seen \subseteq options,
           Usage(cmd[1], cmd[2]) = Synopsis(must, may, n)
    PROVE  AsUsed <=> Follows(must, options \ (must \cup may), n) /\ Alternatives
  <1>1. /\ Usage(cmd[1], cmd[2]).must = must /\ Usage(cmd[1], cmd[2]).may = may
        /\ Usage(cmd[1], cmd[2]).positionals = n
    BY DEF Synopsis
  <1>2. AsUsed <=> must \subseteq seen /\ seen \subseteq must \cup may /\ positional = n /\ Alternatives
    BY <1>1, Zenon DEF AsUsed
  <1>3. must \subseteq seen <=> \A o \in must : o \in seen
    OBVIOUS
  <1>4. seen \subseteq must \cup may <=> \A o \in options \ (must \cup may) : o \notin seen
    OBVIOUS
  <1> QED
    BY <1>2, <1>3, <1>4, Zenon DEF Follows

LEMMA Tests ==
    ASSUME NEW S
    PROVE  /\ Has(S) <=> \A o \in S : o \in seen
           /\ Rejects(S) <=> \A o \in S : o \notin seen
  BY DEF Has, Rejects

\* The commands of each family.
LEMMA CommandOf ==
    ASSUME Readable
    PROVE  /\ cmd = <<cmd[1], cmd[2]>>
           /\ cmd[1] = "plain" => cmd[2] \in {"tui", "headless", "resume", "status", "stats", "reconcile"}
           /\ cmd[1] = "turn" => cmd[2] \in {"cancel", "retry"}
           /\ cmd[1] = "server" => cmd[2] = "stdio"
           /\ cmd[1] = "context" => cmd[2] \in {"status", "preview", "handoff", "reduce"}
           /\ cmd[1] = "workspace" =>
                cmd[2] \in WorkspaceRead \cup {"apply", "allocate", "merge-check", "merge"}
           /\ cmd[1] = "skill" => cmd[2] \in {"list", "run"}
           /\ cmd[1] = "tool" => cmd[2] \in {"status", "reconcile"}
           /\ cmd[1] = "agent" =>
                cmd[2] \in AgentCommands \cup {"fail", "cancel", "turn", "retry", "requeue"}
           /\ cmd[1] = "credential" => cmd[2] \in {"bind", "replace", "test", "forget"}
           /\ cmd[1] = "config" =>
                cmd[2] \in Discovery \cup {"model_add", "presets", "accept-starter", "update-starter",
                                           "get", "set", "reset", "repair", "test-provider"}
           /\ cmd[1] \in {"plain", "turn", "server", "context", "workspace", "skill", "tool", "agent",
                          "credential", "config"} \cup Smokes
  <1>1. cmd \in Commands
    BY DEF Readable
  <1> QED
    BY <1>1 DEF Commands, Smokes

LEMMA PlainFollows ==
    ASSUME Readable, cmd[1] = "plain"
    PROVE  parse <=> AsUsed
  <1>1. seen \subseteq parse_options /\ again = {} /\ positional = 0
    BY DEF Readable, Options, Repeatable
  <1>2. parse <=> parse_plain(cmd[2])
    BY DEF parse
  <1>3. Alternatives <=> ~Has({"--preset", "--dialect"}) /\ ~Has({"--summary-only", "--limit"})
                        /\ ("--cursor" \in seen => "--limit" \in seen)
    BY <1>1, CommandOf DEF Alternatives
  <1>4. CASE cmd[2] = "tui"
    <2>1. Usage(cmd[1], cmd[2]) = Synopsis({}, {"--ledger"}, 0)
      BY <1>4 DEF Usage, Smokes, LedgerOnly, Synopsis
    <2>2. AsUsed <=> Follows({}, parse_options \ ({} \cup {"--ledger"}), 0) /\ Alternatives
      BY <1>1, <2>1, SynopsisIs
    <2> QED
      BY <1>1, <1>2, <1>3, <1>4, <2>2, Tests DEF parse_plain, reject_stats_options, parse_options, Follows
  <1>5. CASE cmd[2] = "status"
    <2>1. Usage(cmd[1], cmd[2]) = Synopsis({}, {"--ledger"}, 0)
      BY <1>5 DEF Usage, Smokes, LedgerOnly, Synopsis
    <2>2. AsUsed <=> Follows({}, parse_options \ ({} \cup {"--ledger"}), 0) /\ Alternatives
      BY <1>1, <2>1, SynopsisIs
    <2> QED
      BY <1>1, <1>2, <1>3, <1>5, <2>2, Tests DEF parse_plain, reject_stats_options, parse_options, Follows
  <1>6. CASE cmd[2] = "headless"
    <2>1. Usage(cmd[1], cmd[2]) = Synopsis({"--input"}, {"--ledger", "--preset", "--dialect", "--tool"}, 0)
      BY <1>6 DEF Usage, Smokes
    <2>2. AsUsed <=> Follows({"--input"}, parse_options \ ({"--input"} \cup {"--ledger", "--preset", "--dialect", "--tool"}), 0) /\ Alternatives
      BY <1>1, <2>1, SynopsisIs
    <2> QED
      BY <1>1, <1>2, <1>3, <1>6, <2>2, Tests DEF parse_plain, reject_stats_options, parse_options, Follows
  <1>7. CASE cmd[2] = "resume"
    <2>1. Usage(cmd[1], cmd[2]) = Synopsis({}, {"--ledger", "--tool"}, 0)
      BY <1>7 DEF Usage, Smokes
    <2>2. AsUsed <=> Follows({}, parse_options \ ({} \cup {"--ledger", "--tool"}), 0) /\ Alternatives
      BY <1>1, <2>1, SynopsisIs
    <2> QED
      BY <1>1, <1>2, <1>3, <1>7, <2>2, Tests DEF parse_plain, reject_stats_options, parse_options, Follows
  <1>8. CASE cmd[2] = "stats"
    <2>1. Usage(cmd[1], cmd[2]) = Synopsis({}, {"--ledger", "--at", "--summary-only", "--limit", "--cursor"}, 0)
      BY <1>8 DEF Usage, Smokes
    <2>2. AsUsed <=> Follows({}, parse_options \ ({} \cup {"--ledger", "--at", "--summary-only", "--limit", "--cursor"}), 0) /\ Alternatives
      BY <1>1, <2>1, SynopsisIs
    <2> QED
      BY <1>1, <1>2, <1>3, <1>8, <2>2, Tests DEF parse_plain, reject_stats_options, parse_options, Follows
  <1>9. CASE cmd[2] = "reconcile"
    <2>1. Usage(cmd[1], cmd[2]) = Synopsis({"--delivery"}, {"--ledger"}, 0)
      BY <1>9 DEF Usage, Smokes
    <2>2. AsUsed <=> Follows({"--delivery"}, parse_options \ ({"--delivery"} \cup {"--ledger"}), 0) /\ Alternatives
      BY <1>1, <2>1, SynopsisIs
    <2> QED
      BY <1>1, <1>2, <1>3, <1>9, <2>2, Tests DEF parse_plain, reject_stats_options, parse_options, Follows
  <1> QED
    BY CommandOf, <1>4, <1>5, <1>6, <1>7, <1>8, <1>9

LEMMA TurnFollows ==
    ASSUME Readable, cmd[1] = "turn"
    PROVE  parse <=> AsUsed
  <1>1. seen \subseteq parse_turn_target_options /\ again = {} /\ positional = 0
    BY DEF Readable, Options, Repeatable
  <1>2. parse <=> Has({"--turn"})
    BY DEF parse
  <1>3. Alternatives <=> TRUE
    BY <1>1, CommandOf DEF Alternatives
  <1>4. CASE cmd[2] \in {"cancel", "retry"}
    <2>1. Usage(cmd[1], cmd[2]) = Synopsis({"--turn"}, {"--ledger"}, 0)
      BY <1>4 DEF Usage, Smokes
    <2>2. AsUsed <=> Follows({"--turn"}, parse_turn_target_options \ ({"--turn"} \cup {"--ledger"}), 0) /\ Alternatives
      BY <1>1, <2>1, SynopsisIs
    <2> QED
      BY <1>1, <1>2, <1>3, <1>4, <2>2, Tests DEF parse_turn_target_options, Follows
  <1> QED
    BY CommandOf, <1>4

LEMMA ServerFollows ==
    ASSUME Readable, cmd[1] = "server"
    PROVE  parse <=> AsUsed
  <1>1. seen \subseteq parse_app_server_options /\ again = {} /\ positional = 0
    BY DEF Readable, Options, Repeatable
  <1>2. parse <=> Has({"--stdio"})
    BY DEF parse
  <1>3. Alternatives <=> TRUE
    BY <1>1, CommandOf DEF Alternatives
  <1>4. CASE cmd[2] = "stdio"
    <2>1. Usage(cmd[1], cmd[2]) = Synopsis({"--stdio"}, {"--ledger"}, 0)
      BY <1>4 DEF Usage, Smokes
    <2>2. AsUsed <=> Follows({"--stdio"}, parse_app_server_options \ ({"--stdio"} \cup {"--ledger"}), 0) /\ Alternatives
      BY <1>1, <2>1, SynopsisIs
    <2> QED
      BY <1>1, <1>2, <1>3, <1>4, <2>2, Tests DEF parse_app_server_options, Follows
  <1> QED
    BY CommandOf, <1>4

LEMMA ContextFollows ==
    ASSUME Readable, cmd[1] = "context"
    PROVE  parse <=> AsUsed
  <1>1. seen \subseteq parse_context_options /\ again = {} /\ positional = 0
    BY DEF Readable, Options, Repeatable
  <1>2. parse <=> parse_context(cmd[2])
    BY DEF parse
  <1>3. Alternatives <=> TRUE
    BY <1>1, CommandOf DEF Alternatives
  <1>4. CASE cmd[2] = "reduce"
    <2>1. Usage(cmd[1], cmd[2]) = Synopsis({}, {"--ledger", "--max-raw-bytes", "--max-raw-items"}, 0)
      BY <1>4 DEF Usage, Smokes
    <2>2. AsUsed <=> Follows({}, parse_context_options \ ({} \cup {"--ledger", "--max-raw-bytes", "--max-raw-items"}), 0) /\ Alternatives
      BY <1>1, <2>1, SynopsisIs
    <2> QED
      BY <1>1, <1>2, <1>3, <1>4, <2>2, Tests DEF parse_context, parse_context_options, Follows
  <1>5. CASE cmd[2] \in {"status", "preview", "handoff"}
    <2>1. Usage(cmd[1], cmd[2]) = Synopsis({}, {"--ledger"}, 0)
      BY <1>5 DEF Usage, Smokes, LedgerOnly, Synopsis
    <2>2. AsUsed <=> Follows({}, parse_context_options \ ({} \cup {"--ledger"}), 0) /\ Alternatives
      BY <1>1, <2>1, SynopsisIs
    <2> QED
      BY <1>1, <1>2, <1>3, <1>5, <2>2, Tests DEF parse_context, parse_context_options, Follows
  <1> QED
    BY CommandOf, <1>4, <1>5

LEMMA WorkspaceReadFollows ==
    ASSUME Readable, cmd[1] = "workspace", cmd[2] \in WorkspaceRead
    PROVE  parse <=> AsUsed
  <1>1. seen \subseteq parse_workspace_options /\ again \subseteq seen \cap {"--path"} /\ positional = 0
    BY DEF Readable, Options, Repeatable
  <1>2. parse <=> parse_workspace_read(cmd[2])
    BY DEF parse, WorkspaceRead
  <1>3. Alternatives <=> again \subseteq (IF cmd[2] = "capture" THEN {"--path"} ELSE {})
    BY <1>1, CommandOf DEF Alternatives
  <1>4. CASE cmd[2] = "inspect"
    <2>1. Usage(cmd[1], cmd[2]) = Synopsis({"--root"}, {}, 0)
      BY <1>4 DEF Usage, Smokes
    <2>2. AsUsed <=> Follows({"--root"}, parse_workspace_options \ ({"--root"} \cup {}), 0) /\ Alternatives
      BY <1>1, <2>1, SynopsisIs
    <2> QED
      BY <1>1, <1>2, <1>3, <1>4, <2>2, Tests DEF parse_workspace_read, parse_workspace_options, Follows
  <1>5. CASE cmd[2] = "list"
    <2>1. Usage(cmd[1], cmd[2]) = Synopsis({"--root"}, {}, 0)
      BY <1>5 DEF Usage, Smokes
    <2>2. AsUsed <=> Follows({"--root"}, parse_workspace_options \ ({"--root"} \cup {}), 0) /\ Alternatives
      BY <1>1, <2>1, SynopsisIs
    <2> QED
      BY <1>1, <1>2, <1>3, <1>5, <2>2, Tests DEF parse_workspace_read, parse_workspace_options, Follows
  <1>6. CASE cmd[2] = "remove"
    <2>1. Usage(cmd[1], cmd[2]) = Synopsis({"--root", "--worktree"}, {"--delete-branch"}, 0)
      BY <1>6 DEF Usage, Smokes
    <2>2. AsUsed <=> Follows({"--root", "--worktree"}, parse_workspace_options \ ({"--root", "--worktree"} \cup {"--delete-branch"}), 0) /\ Alternatives
      BY <1>1, <2>1, SynopsisIs
    <2> QED
      BY <1>1, <1>2, <1>3, <1>6, <2>2, Tests DEF parse_workspace_read, parse_workspace_options, Follows
  <1>7. CASE cmd[2] = "capture"
    <2>1. Usage(cmd[1], cmd[2]) = Synopsis({"--root", "--path"}, {}, 0)
      BY <1>7 DEF Usage, Smokes
    <2>2. AsUsed <=> Follows({"--root", "--path"}, parse_workspace_options \ ({"--root", "--path"} \cup {}), 0) /\ Alternatives
      BY <1>1, <2>1, SynopsisIs
    <2> QED
      BY <1>1, <1>2, <1>3, <1>7, <2>2, Tests DEF parse_workspace_read, parse_workspace_options, Follows
  <1>8. CASE cmd[2] = "validate"
    <2>1. Usage(cmd[1], cmd[2]) = Synopsis({"--root", "--read-set"}, {}, 0)
      BY <1>8 DEF Usage, Smokes
    <2>2. AsUsed <=> Follows({"--root", "--read-set"}, parse_workspace_options \ ({"--root", "--read-set"} \cup {}), 0) /\ Alternatives
      BY <1>1, <2>1, SynopsisIs
    <2> QED
      BY <1>1, <1>2, <1>3, <1>8, <2>2, Tests DEF parse_workspace_read, parse_workspace_options, Follows
  <1> QED
    BY CommandOf, <1>4, <1>5, <1>6, <1>7, <1>8 DEF WorkspaceRead

LEMMA WorkspaceChangeFollows ==
    ASSUME Readable, cmd[1] = "workspace", cmd[2] \notin WorkspaceRead
    PROVE  parse <=> AsUsed
  <1>1. seen \subseteq parse_workspace_options /\ again \subseteq seen \cap {"--path"} /\ positional = 0
    BY DEF Readable, Options, Repeatable
  <1>2. parse <=> parse_workspace_change(cmd[2])
    BY DEF parse, WorkspaceRead
  <1>3. Alternatives <=> again = {}
    BY <1>1, CommandOf DEF Alternatives
  <1>4. CASE cmd[2] = "apply"
    <2>1. Usage(cmd[1], cmd[2]) = Synopsis({"--root", "--read-set", "--path", "--input"}, {}, 0)
      BY <1>4 DEF Usage, Smokes
    <2>2. AsUsed <=> Follows({"--root", "--read-set", "--path", "--input"}, parse_workspace_options \ ({"--root", "--read-set", "--path", "--input"} \cup {}), 0) /\ Alternatives
      BY <1>1, <2>1, SynopsisIs
    <2> QED
      BY <1>1, <1>2, <1>3, <1>4, <2>2, Tests DEF parse_workspace_change, parse_workspace_options, Follows
  <1>5. CASE cmd[2] = "allocate"
    <2>1. Usage(cmd[1], cmd[2]) = Synopsis({"--root", "--worktree", "--branch"}, {"--base"}, 0)
      BY <1>5 DEF Usage, Smokes
    <2>2. AsUsed <=> Follows({"--root", "--worktree", "--branch"}, parse_workspace_options \ ({"--root", "--worktree", "--branch"} \cup {"--base"}), 0) /\ Alternatives
      BY <1>1, <2>1, SynopsisIs
    <2> QED
      BY <1>1, <1>2, <1>3, <1>5, <2>2, Tests DEF parse_workspace_change, parse_workspace_options, Follows
  <1>6. CASE cmd[2] = "merge-check"
    <2>1. Usage(cmd[1], cmd[2]) = Synopsis({"--root", "--target", "--source"}, {}, 0)
      BY <1>6 DEF Usage, Smokes
    <2>2. AsUsed <=> Follows({"--root", "--target", "--source"}, parse_workspace_options \ ({"--root", "--target", "--source"} \cup {}), 0) /\ Alternatives
      BY <1>1, <2>1, SynopsisIs
    <2> QED
      BY <1>1, <1>2, <1>3, <1>6, <2>2, Tests DEF parse_workspace_change, parse_workspace_options, Follows
  <1>7. CASE cmd[2] = "merge"
    <2>1. Usage(cmd[1], cmd[2]) = Synopsis({"--root", "--target", "--source"}, {}, 0)
      BY <1>7 DEF Usage, Smokes
    <2>2. AsUsed <=> Follows({"--root", "--target", "--source"}, parse_workspace_options \ ({"--root", "--target", "--source"} \cup {}), 0) /\ Alternatives
      BY <1>1, <2>1, SynopsisIs
    <2> QED
      BY <1>1, <1>2, <1>3, <1>7, <2>2, Tests DEF parse_workspace_change, parse_workspace_options, Follows
  <1> QED
    BY CommandOf, <1>4, <1>5, <1>6, <1>7 DEF WorkspaceRead

LEMMA SkillFollows ==
    ASSUME Readable, cmd[1] = "skill"
    PROVE  parse <=> AsUsed
  <1>1. seen \subseteq parse_skill_options /\ again = {} /\ positional = 0
    BY DEF Readable, Options, Repeatable
  <1>2. parse <=> parse_skill(cmd[2])
    BY DEF parse
  <1>3. Alternatives <=> TRUE
    BY <1>1, CommandOf DEF Alternatives
  <1>4. CASE cmd[2] = "list"
    <2>1. Usage(cmd[1], cmd[2]) = Synopsis({}, {"--project"}, 0)
      BY <1>4 DEF Usage, Smokes
    <2>2. AsUsed <=> Follows({}, parse_skill_options \ ({} \cup {"--project"}), 0) /\ Alternatives
      BY <1>1, <2>1, SynopsisIs
    <2> QED
      BY <1>1, <1>2, <1>3, <1>4, <2>2, Tests DEF parse_skill, parse_skill_options, Follows
  <1>5. CASE cmd[2] = "run"
    <2>1. Usage(cmd[1], cmd[2]) = Synopsis({"--id"}, {"--project", "--ledger", "--message", "--approve"}, 0)
      BY <1>5 DEF Usage, Smokes
    <2>2. AsUsed <=> Follows({"--id"}, parse_skill_options \ ({"--id"} \cup {"--project", "--ledger", "--message", "--approve"}), 0) /\ Alternatives
      BY <1>1, <2>1, SynopsisIs
    <2> QED
      BY <1>1, <1>2, <1>3, <1>5, <2>2, Tests DEF parse_skill, parse_skill_options, Follows
  <1> QED
    BY CommandOf, <1>4, <1>5

LEMMA ToolFollows ==
    ASSUME Readable, cmd[1] = "tool"
    PROVE  parse <=> AsUsed
  <1>1. seen \subseteq parse_tool_options /\ again = {} /\ positional = 0
    BY DEF Readable, Options, Repeatable
  <1>2. parse <=> parse_tool(cmd[2])
    BY DEF parse
  <1>3. Alternatives <=> /\ ~Has({"--failed", "--succeeded-digest"})
                         /\ (cmd[2] = "reconcile" => ~Rejects({"--failed", "--succeeded-digest"}))
    BY <1>1, CommandOf DEF Alternatives
  <1>4. CASE cmd[2] = "status"
    <2>1. Usage(cmd[1], cmd[2]) = Synopsis({}, {"--ledger"}, 0)
      BY <1>4 DEF Usage, Smokes, LedgerOnly, Synopsis
    <2>2. AsUsed <=> Follows({}, parse_tool_options \ ({} \cup {"--ledger"}), 0) /\ Alternatives
      BY <1>1, <2>1, SynopsisIs
    <2> QED
      BY <1>1, <1>2, <1>3, <1>4, <2>2, Tests DEF parse_tool, parse_tool_options, Follows
  <1>5. CASE cmd[2] = "reconcile"
    <2>1. Usage(cmd[1], cmd[2]) = Synopsis({"--call"}, {"--ledger", "--failed", "--succeeded-digest"}, 0)
      BY <1>5 DEF Usage, Smokes
    <2>2. AsUsed <=> Follows({"--call"}, parse_tool_options \ ({"--call"} \cup {"--ledger", "--failed", "--succeeded-digest"}), 0) /\ Alternatives
      BY <1>1, <2>1, SynopsisIs
    <2> QED
      BY <1>1, <1>2, <1>3, <1>5, <2>2, Tests DEF parse_tool, parse_tool_options, Follows
  <1> QED
    BY CommandOf, <1>4, <1>5

LEMMA AgentCommandFollows ==
    ASSUME Readable, cmd[1] = "agent", cmd[2] \in AgentCommands
    PROVE  parse <=> AsUsed
  <1>1. seen \subseteq parse_agent_options /\ again \subseteq seen \cap {"--capability"} /\ ("--capability" \in seen => cmd[2] = "delegate") /\ positional = 0
    BY DEF Readable, Options, Repeatable
  <1>2. parse <=> parse_agent_command(cmd[2])
    BY DEF parse, AgentCommands
  <1>3. Alternatives <=> again \subseteq (IF cmd[2] = "delegate" THEN {"--capability"} ELSE {})
    BY <1>1, CommandOf DEF Alternatives
  <1>4. CASE cmd[2] = "status"
    <2>1. Usage(cmd[1], cmd[2]) = Synopsis({}, {"--ledger"}, 0)
      BY <1>4 DEF Usage, Smokes, LedgerOnly, Synopsis
    <2>2. AsUsed <=> Follows({}, parse_agent_options \ ({} \cup {"--ledger"}), 0) /\ Alternatives
      BY <1>1, <2>1, SynopsisIs
    <2> QED
      BY <1>1, <1>2, <1>3, <1>4, <2>2, Tests DEF parse_agent_command, AgentTaskOptions, parse_agent_options, Follows
  <1>5. CASE cmd[2] = "list"
    <2>1. Usage(cmd[1], cmd[2]) = Synopsis({}, {"--ledger"}, 0)
      BY <1>5 DEF Usage, Smokes, LedgerOnly, Synopsis
    <2>2. AsUsed <=> Follows({}, parse_agent_options \ ({} \cup {"--ledger"}), 0) /\ Alternatives
      BY <1>1, <2>1, SynopsisIs
    <2> QED
      BY <1>1, <1>2, <1>3, <1>5, <2>2, Tests DEF parse_agent_command, AgentTaskOptions, parse_agent_options, Follows
  <1>6. CASE cmd[2] = "acknowledge"
    <2>1. Usage(cmd[1], cmd[2]) = Synopsis({"--operation"}, {"--ledger"}, 0)
      BY <1>6 DEF Usage, Smokes
    <2>2. AsUsed <=> Follows({"--operation"}, parse_agent_options \ ({"--operation"} \cup {"--ledger"}), 0) /\ Alternatives
      BY <1>1, <2>1, SynopsisIs
    <2> QED
      BY <1>1, <1>2, <1>3, <1>6, <2>2, Tests DEF parse_agent_command, AgentTaskOptions, parse_agent_options, Follows
  <1>7. CASE cmd[2] = "delegate"
    <2>1. Usage(cmd[1], cmd[2]) = Synopsis({"--title"}, {"--ledger", "--parent", "--scope", "--token-budget", "--tool-budget", "--capability"}, 0)
      BY <1>7 DEF Usage, Smokes
    <2>2. AsUsed <=> Follows({"--title"}, parse_agent_options \ ({"--title"} \cup {"--ledger", "--parent", "--scope", "--token-budget", "--tool-budget", "--capability"}), 0) /\ Alternatives
      BY <1>1, <2>1, SynopsisIs
    <2> QED
      BY <1>1, <1>2, <1>3, <1>7, <2>2, Tests DEF parse_agent_command, AgentTaskOptions, parse_agent_options, Follows
  <1>8. CASE cmd[2] = "message"
    <2>1. Usage(cmd[1], cmd[2]) = Synopsis({"--body"}, {"--ledger", "--agent", "--recipient"}, 0)
      BY <1>8 DEF Usage, Smokes
    <2>2. AsUsed <=> Follows({"--body"}, parse_agent_options \ ({"--body"} \cup {"--ledger", "--agent", "--recipient"}), 0) /\ Alternatives
      BY <1>1, <2>1, SynopsisIs
    <2> QED
      BY <1>1, <1>2, <1>3, <1>8, <2>2, Tests DEF parse_agent_command, AgentTaskOptions, parse_agent_options, Follows
  <1>9. CASE cmd[2] = "complete"
    <2>1. Usage(cmd[1], cmd[2]) = Synopsis({"--outcome"}, {"--ledger", "--agent"}, 0)
      BY <1>9 DEF Usage, Smokes
    <2>2. AsUsed <=> Follows({"--outcome"}, parse_agent_options \ ({"--outcome"} \cup {"--ledger", "--agent"}), 0) /\ Alternatives
      BY <1>1, <2>1, SynopsisIs
    <2> QED
      BY <1>1, <1>2, <1>3, <1>9, <2>2, Tests DEF parse_agent_command, AgentTaskOptions, parse_agent_options, Follows
  <1> QED
    BY CommandOf, <1>4, <1>5, <1>6, <1>7, <1>8, <1>9 DEF AgentCommands

LEMMA AgentControlFollows ==
    ASSUME Readable, cmd[1] = "agent", cmd[2] \notin AgentCommands
    PROVE  parse <=> AsUsed
  <1>1. seen \subseteq parse_agent_options /\ again \subseteq seen \cap {"--capability"} /\ ("--capability" \in seen => cmd[2] = "delegate") /\ positional = 0
    BY DEF Readable, Options, Repeatable
  <1>2. parse <=> parse_agent_control(cmd[2])
    BY DEF parse, AgentCommands
  <1>3. Alternatives <=> again = {}
    BY <1>1, CommandOf DEF Alternatives
  <1>4. CASE cmd[2] = "fail"
    <2>1. Usage(cmd[1], cmd[2]) = Synopsis({"--reason"}, {"--ledger", "--agent"}, 0)
      BY <1>4 DEF Usage, Smokes
    <2>2. AsUsed <=> Follows({"--reason"}, parse_agent_options \ ({"--reason"} \cup {"--ledger", "--agent"}), 0) /\ Alternatives
      BY <1>1, <2>1, SynopsisIs
    <2> QED
      BY <1>1, <1>2, <1>3, <1>4, <2>2, Tests DEF parse_agent_control, AgentTaskOptions, parse_agent_options, Follows
  <1>5. CASE cmd[2] = "cancel"
    <2>1. Usage(cmd[1], cmd[2]) = Synopsis({}, {"--ledger", "--agent", "--reason"}, 0)
      BY <1>5 DEF Usage, Smokes
    <2>2. AsUsed <=> Follows({}, parse_agent_options \ ({} \cup {"--ledger", "--agent", "--reason"}), 0) /\ Alternatives
      BY <1>1, <2>1, SynopsisIs
    <2> QED
      BY <1>1, <1>2, <1>3, <1>5, <2>2, Tests DEF parse_agent_control, AgentTaskOptions, parse_agent_options, Follows
  <1>6. CASE cmd[2] = "turn"
    <2>1. Usage(cmd[1], cmd[2]) = Synopsis({"--agent", "--input"}, {"--ledger", "--tool"}, 0)
      BY <1>6 DEF Usage, Smokes
    <2>2. AsUsed <=> Follows({"--agent", "--input"}, parse_agent_options \ ({"--agent", "--input"} \cup {"--ledger", "--tool"}), 0) /\ Alternatives
      BY <1>1, <2>1, SynopsisIs
    <2> QED
      BY <1>1, <1>2, <1>3, <1>6, <2>2, Tests DEF parse_agent_control, AgentTaskOptions, parse_agent_options, Follows
  <1>7. CASE cmd[2] = "retry"
    <2>1. Usage(cmd[1], cmd[2]) = Synopsis({"--agent", "--turn"}, {"--ledger"}, 0)
      BY <1>7 DEF Usage, Smokes
    <2>2. AsUsed <=> Follows({"--agent", "--turn"}, parse_agent_options \ ({"--agent", "--turn"} \cup {"--ledger"}), 0) /\ Alternatives
      BY <1>1, <2>1, SynopsisIs
    <2> QED
      BY <1>1, <1>2, <1>3, <1>7, <2>2, Tests DEF parse_agent_control, AgentTaskOptions, parse_agent_options, Follows
  <1>8. CASE cmd[2] = "requeue"
    <2>1. Usage(cmd[1], cmd[2]) = Synopsis({"--agent"}, {"--ledger"}, 0)
      BY <1>8 DEF Usage, Smokes
    <2>2. AsUsed <=> Follows({"--agent"}, parse_agent_options \ ({"--agent"} \cup {"--ledger"}), 0) /\ Alternatives
      BY <1>1, <2>1, SynopsisIs
    <2> QED
      BY <1>1, <1>2, <1>3, <1>8, <2>2, Tests DEF parse_agent_control, AgentTaskOptions, parse_agent_options, Follows
  <1> QED
    BY CommandOf, <1>4, <1>5, <1>6, <1>7, <1>8 DEF AgentCommands

LEMMA CredentialFollows ==
    ASSUME Readable, cmd[1] = "credential"
    PROVE  parse <=> AsUsed
  <1>1. seen \subseteq parse_credential_options /\ again = {} /\ positional \in Nat
    BY DEF Readable, Options, Repeatable
  <1>2. parse <=> Has({"--profile", "--origin"}) /\ positional = 1
    BY DEF parse
  <1>3. Alternatives <=> TRUE
    BY <1>1, CommandOf DEF Alternatives
  <1>4. CASE cmd[2] \in {"bind", "replace", "test", "forget"}
    <2>1. Usage(cmd[1], cmd[2]) = Synopsis({"--profile", "--origin"}, {}, 1)
      BY <1>4 DEF Usage, Smokes
    <2>2. AsUsed <=> Follows({"--profile", "--origin"}, parse_credential_options \ ({"--profile", "--origin"} \cup {}), 1) /\ Alternatives
      BY <1>1, <2>1, SynopsisIs
    <2> QED
      BY <1>1, <1>2, <1>3, <1>4, <2>2, Tests DEF parse_credential_options, Follows
  <1> QED
    BY CommandOf, <1>4

LEMMA DiscoveryFollows ==
    ASSUME Readable, cmd[1] = "config", cmd[2] \in Discovery
    PROVE  parse <=> AsUsed
  <1>1. seen \subseteq parse_config_options /\ again = {} /\ positional \in Nat
    BY DEF Readable, Options, Repeatable
  <1>2. parse <=> parse_config_discovery(cmd[2])
    BY DEF parse, Discovery
  <1>3. Alternatives <=> TRUE
    BY <1>1, CommandOf DEF Alternatives
  <1>4. CASE cmd[2] = "discovery_status"
    <2>1. Usage(cmd[1], cmd[2]) = Synopsis({}, {"--discovery-state", "--user-config", "--project-config"}, 0)
      BY <1>4 DEF Usage, Smokes, Edit, ConfigPaths, Synopsis
    <2>2. AsUsed <=> Follows({}, parse_config_options \ ({} \cup {"--discovery-state", "--user-config", "--project-config"}), 0) /\ Alternatives
      BY <1>1, <2>1, SynopsisIs
    <2> QED
      BY <1>1, <1>2, <1>3, <1>4, <2>2, Tests DEF parse_config_discovery, parse_config_options, Follows
  <1>5. CASE cmd[2] = "discovery_refresh"
    <2>1. Usage(cmd[1], cmd[2]) = Synopsis({}, {"--discovery-state", "--user-config", "--project-config"}, 1)
      BY <1>5 DEF Usage, Smokes, Edit, ConfigPaths, Synopsis
    <2>2. AsUsed <=> Follows({}, parse_config_options \ ({} \cup {"--discovery-state", "--user-config", "--project-config"}), 1) /\ Alternatives
      BY <1>1, <2>1, SynopsisIs
    <2> QED
      BY <1>1, <1>2, <1>3, <1>5, <2>2, Tests DEF parse_config_discovery, parse_config_options, Follows
  <1>6. CASE cmd[2] = "discovery_catalog"
    <2>1. Usage(cmd[1], cmd[2]) = Synopsis({}, {"--discovery-state", "--user-config", "--project-config"}, 1)
      BY <1>6 DEF Usage, Smokes, Edit, ConfigPaths, Synopsis
    <2>2. AsUsed <=> Follows({}, parse_config_options \ ({} \cup {"--discovery-state", "--user-config", "--project-config"}), 1) /\ Alternatives
      BY <1>1, <2>1, SynopsisIs
    <2> QED
      BY <1>1, <1>2, <1>3, <1>6, <2>2, Tests DEF parse_config_discovery, parse_config_options, Follows
  <1>7. CASE cmd[2] = "discovery_accept"
    <2>1. Usage(cmd[1], cmd[2]) = Synopsis({"--scope", "--dialect"}, {"--dry-run", "--discovery-state", "--user-config", "--project-config"}, 3)
      BY <1>7 DEF Usage, Smokes, Edit, ConfigPaths, Synopsis
    <2>2. AsUsed <=> Follows({"--scope", "--dialect"}, parse_config_options \ ({"--scope", "--dialect"} \cup {"--dry-run", "--discovery-state", "--user-config", "--project-config"}), 3) /\ Alternatives
      BY <1>1, <2>1, SynopsisIs
    <2> QED
      BY <1>1, <1>2, <1>3, <1>7, <2>2, Tests DEF parse_config_discovery, parse_config_options, Follows
  <1> QED
    BY CommandOf, <1>4, <1>5, <1>6, <1>7 DEF Discovery

LEMMA ObjectFollows ==
    ASSUME Readable, cmd[1] = "config", cmd[2] \notin Discovery
    PROVE  parse <=> AsUsed
  <1>1. seen \subseteq parse_config_options /\ again = {} /\ positional \in Nat
    BY DEF Readable, Options, Repeatable
  <1>2. parse <=> parse_config_object(cmd[2])
    BY DEF parse, Discovery
  <1>3. Alternatives <=> TRUE
    BY <1>1, CommandOf DEF Alternatives
  <1>4. CASE cmd[2] = "model_add"
    <2>1. Usage(cmd[1], cmd[2]) = Synopsis({"--scope", "--dialect"}, {"--dry-run", "--user-config", "--project-config"}, 3)
      BY <1>4 DEF Usage, Smokes, Edit, ConfigPaths, Synopsis
    <2>2. AsUsed <=> Follows({"--scope", "--dialect"}, parse_config_options \ ({"--scope", "--dialect"} \cup {"--dry-run", "--user-config", "--project-config"}), 3) /\ Alternatives
      BY <1>1, <2>1, SynopsisIs
    <2> QED
      BY <1>1, <1>2, <1>3, <1>4, <2>2, Tests DEF parse_config_object, parse_config_options, Follows
  <1>5. CASE cmd[2] = "presets"
    <2>1. Usage(cmd[1], cmd[2]) = Synopsis({}, {"--user-config", "--project-config"}, 0)
      BY <1>5 DEF Usage, Smokes, Edit, ConfigPaths, Synopsis
    <2>2. AsUsed <=> Follows({}, parse_config_options \ ({} \cup {"--user-config", "--project-config"}), 0) /\ Alternatives
      BY <1>1, <2>1, SynopsisIs
    <2> QED
      BY <1>1, <1>2, <1>3, <1>5, <2>2, Tests DEF parse_config_object, parse_config_options, Follows
  <1>6. CASE cmd[2] = "test-provider"
    <2>1. Usage(cmd[1], cmd[2]) = Synopsis({}, {"--user-config", "--project-config"}, 0)
      BY <1>6 DEF Usage, Smokes, Edit, ConfigPaths, Synopsis
    <2>2. AsUsed <=> Follows({}, parse_config_options \ ({} \cup {"--user-config", "--project-config"}), 0) /\ Alternatives
      BY <1>1, <2>1, SynopsisIs
    <2> QED
      BY <1>1, <1>2, <1>3, <1>6, <2>2, Tests DEF parse_config_object, parse_config_options, Follows
  <1>7. CASE cmd[2] = "accept-starter"
    <2>1. Usage(cmd[1], cmd[2]) = Synopsis({"--scope"}, {"--dry-run", "--user-config", "--project-config"}, 3)
      BY <1>7 DEF Usage, Smokes, Edit, ConfigPaths, Synopsis
    <2>2. AsUsed <=> Follows({"--scope"}, parse_config_options \ ({"--scope"} \cup {"--dry-run", "--user-config", "--project-config"}), 3) /\ Alternatives
      BY <1>1, <2>1, SynopsisIs
    <2> QED
      BY <1>1, <1>2, <1>3, <1>7, <2>2, Tests DEF parse_config_object, parse_config_options, Follows
  <1>8. CASE cmd[2] = "update-starter"
    <2>1. Usage(cmd[1], cmd[2]) = Synopsis({"--scope"}, {"--dry-run", "--user-config", "--project-config"}, 1)
      BY <1>8 DEF Usage, Smokes, Edit, ConfigPaths, Synopsis
    <2>2. AsUsed <=> Follows({"--scope"}, parse_config_options \ ({"--scope"} \cup {"--dry-run", "--user-config", "--project-config"}), 1) /\ Alternatives
      BY <1>1, <2>1, SynopsisIs
    <2> QED
      BY <1>1, <1>2, <1>3, <1>8, <2>2, Tests DEF parse_config_object, parse_config_options, Follows
  <1>9. CASE cmd[2] = "get"
    <2>1. Usage(cmd[1], cmd[2]) = Synopsis({}, {"--user-config", "--project-config"}, 1)
      BY <1>9 DEF Usage, Smokes, Edit, ConfigPaths, Synopsis
    <2>2. AsUsed <=> Follows({}, parse_config_options \ ({} \cup {"--user-config", "--project-config"}), 1) /\ Alternatives
      BY <1>1, <2>1, SynopsisIs
    <2> QED
      BY <1>1, <1>2, <1>3, <1>9, <2>2, Tests DEF parse_config_object, parse_config_options, Follows
  <1>10. CASE cmd[2] = "set"
    <2>1. Usage(cmd[1], cmd[2]) = Synopsis({"--scope"}, {"--dry-run", "--user-config", "--project-config"}, 2)
      BY <1>10 DEF Usage, Smokes, Edit, ConfigPaths, Synopsis
    <2>2. AsUsed <=> Follows({"--scope"}, parse_config_options \ ({"--scope"} \cup {"--dry-run", "--user-config", "--project-config"}), 2) /\ Alternatives
      BY <1>1, <2>1, SynopsisIs
    <2> QED
      BY <1>1, <1>2, <1>3, <1>10, <2>2, Tests DEF parse_config_object, parse_config_options, Follows
  <1>11. CASE cmd[2] = "reset"
    <2>1. Usage(cmd[1], cmd[2]) = Synopsis({"--scope"}, {"--dry-run", "--user-config", "--project-config"}, 1)
      BY <1>11 DEF Usage, Smokes, Edit, ConfigPaths, Synopsis
    <2>2. AsUsed <=> Follows({"--scope"}, parse_config_options \ ({"--scope"} \cup {"--dry-run", "--user-config", "--project-config"}), 1) /\ Alternatives
      BY <1>1, <2>1, SynopsisIs
    <2> QED
      BY <1>1, <1>2, <1>3, <1>11, <2>2, Tests DEF parse_config_object, parse_config_options, Follows
  <1>12. CASE cmd[2] = "repair"
    <2>1. Usage(cmd[1], cmd[2]) = Synopsis({"--scope"}, {"--user-config", "--project-config"}, 0)
      BY <1>12 DEF Usage, Smokes, Edit, ConfigPaths, Synopsis
    <2>2. AsUsed <=> Follows({"--scope"}, parse_config_options \ ({"--scope"} \cup {"--user-config", "--project-config"}), 0) /\ Alternatives
      BY <1>1, <2>1, SynopsisIs
    <2> QED
      BY <1>1, <1>2, <1>3, <1>12, <2>2, Tests DEF parse_config_object, parse_config_options, Follows
  <1> QED
    BY CommandOf, <1>4, <1>5, <1>6, <1>7, <1>8, <1>9, <1>10, <1>11, <1>12 DEF Discovery

LEMMA ProcessSmokeFollows ==
    ASSUME Readable, cmd[1] = "process_smoke"
    PROVE  parse <=> AsUsed
  <1>1. seen \subseteq parse_local_process_smoke_options /\ again = {} /\ positional = 0
    BY DEF Readable, Options, Repeatable
  <1>2. parse <=> Has(parse_local_process_smoke_options)
    BY DEF parse, Options
  <1>3. Alternatives <=> TRUE
    BY <1>1, CommandOf DEF Alternatives
  <1>4. CASE cmd[1] = "process_smoke"
    <2>1. Usage(cmd[1], cmd[2]) = Synopsis(parse_local_process_smoke_options, {}, 0)
      BY <1>4 DEF Usage, Smokes, Options
    <2>2. AsUsed <=> Follows(parse_local_process_smoke_options, parse_local_process_smoke_options \ (parse_local_process_smoke_options \cup {}), 0) /\ Alternatives
      BY <1>1, <2>1, SynopsisIs
    <2> QED
      BY <1>1, <1>2, <1>3, <1>4, <2>2, Tests DEF parse_local_process_smoke_options, Follows
  <1> QED
    BY CommandOf, <1>4

LEMMA HttpSmokeFollows ==
    ASSUME Readable, cmd[1] = "http_smoke"
    PROVE  parse <=> AsUsed
  <1>1. seen \subseteq parse_provider_http_smoke_options /\ again = {} /\ positional = 0
    BY DEF Readable, Options, Repeatable
  <1>2. parse <=> Has(parse_provider_http_smoke_options)
    BY DEF parse, Options
  <1>3. Alternatives <=> TRUE
    BY <1>1, CommandOf DEF Alternatives
  <1>4. CASE cmd[1] = "http_smoke"
    <2>1. Usage(cmd[1], cmd[2]) = Synopsis(parse_provider_http_smoke_options, {}, 0)
      BY <1>4 DEF Usage, Smokes, Options
    <2>2. AsUsed <=> Follows(parse_provider_http_smoke_options, parse_provider_http_smoke_options \ (parse_provider_http_smoke_options \cup {}), 0) /\ Alternatives
      BY <1>1, <2>1, SynopsisIs
    <2> QED
      BY <1>1, <1>2, <1>3, <1>4, <2>2, Tests DEF parse_provider_http_smoke_options, Follows
  <1> QED
    BY CommandOf, <1>4

LEMMA PresentationSmokeFollows ==
    ASSUME Readable, cmd[1] = "presentation_smoke"
    PROVE  parse <=> AsUsed
  <1>1. seen \subseteq parse_presentation_smoke_options /\ again = {} /\ positional = 0
    BY DEF Readable, Options, Repeatable
  <1>2. parse <=> Has(parse_presentation_smoke_options)
    BY DEF parse, Options
  <1>3. Alternatives <=> TRUE
    BY <1>1, CommandOf DEF Alternatives
  <1>4. CASE cmd[1] = "presentation_smoke"
    <2>1. Usage(cmd[1], cmd[2]) = Synopsis(parse_presentation_smoke_options, {}, 0)
      BY <1>4 DEF Usage, Smokes, Options
    <2>2. AsUsed <=> Follows(parse_presentation_smoke_options, parse_presentation_smoke_options \ (parse_presentation_smoke_options \cup {}), 0) /\ Alternatives
      BY <1>1, <2>1, SynopsisIs
    <2> QED
      BY <1>1, <1>2, <1>3, <1>4, <2>2, Tests DEF parse_presentation_smoke_options, Follows
  <1> QED
    BY CommandOf, <1>4

\* A command is accepted as its line of USAGE says, whatever its family.
LEMMA ParseFollowsUsage ==
    ASSUME Readable
    PROVE  parse <=> AsUsed
  BY CommandOf, PlainFollows, TurnFollows, ServerFollows, ContextFollows, WorkspaceReadFollows,
     WorkspaceChangeFollows, SkillFollows, ToolFollows, AgentCommandFollows, AgentControlFollows,
     CredentialFollows, DiscoveryFollows, ObjectFollows, ProcessSmokeFollows, HttpSmokeFollows,
     PresentationSmokeFollows DEF Smokes

LEMMA ParserInvSuffices == ParserInv => ParserFollowsUsage
  <1>1. ParserFollowsUsage <=> /\ verdict = "accepted" => AsUsed
                               /\ verdict = "reading" /\ AsUsed => parse
    BY Zenon DEF ParserFollowsUsage, AsUsed
  <1> QED
    BY <1>1, ParseFollowsUsage DEF ParserInv

\* The rules look at what was read and at nothing else.
LEMMA ParseIsOfReading ==
    ASSUME UNCHANGED <<cmd, seen, again, positional>>
    PROVE  parse' <=> parse
  <1>1. cmd' = cmd /\ seen' = seen /\ again' = again /\ positional' = positional
    OBVIOUS
  <1> QED
    BY <1>1 DEF parse, parse_plain, parse_context, parse_workspace_read, parse_workspace_change,
        parse_skill, parse_tool, parse_agent_command, parse_agent_control, parse_config_discovery,
        parse_config_object, Has, Rejects

LEMMA ParserInitially == ParserInit => ParserInv
  BY DEF ParserInit, ParserInv, Readable

LEMMA ParserStep == ParserInv /\ [ParserNext]_parser_vars => ParserInv'
  <1> SUFFICES ASSUME ParserInv, [ParserNext]_parser_vars PROVE ParserInv'
    OBVIOUS
  <1>i. /\ cmd \in Commands
        /\ seen \subseteq Options[cmd[1]] /\ again \subseteq seen \cap Repeatable(cmd[1])
        /\ "--capability" \in seen => cmd[2] = "delegate"
        /\ positional \in Nat
        /\ cmd[1] \notin {"config", "credential"} => positional = 0
    BY DEF ParserInv, Readable
  <1>r. Refuse => ParserInv'
    <2>1. ASSUME Refuse PROVE ParserInv'
      <3>1. cmd' = cmd /\ seen' = seen /\ again' = again /\ positional' = positional /\ verdict' = "refused"
        BY <2>1 DEF Refuse
      <3> QED
        BY <1>i, <3>1 DEF ParserInv, Readable, Repeatable
    <2> QED
      BY <2>1
  <1>1. ASSUME NEW o \in AllOptions, NEW v \in ValueClass, ReadOption(o, v)
        PROVE  ParserInv'
    <2>1. CASE Refuse
      BY <1>r, <2>1
    <2>2. CASE ~Refuse
      <3>1. /\ verdict = "reading" /\ o \in Options[cmd[1]]
            /\ o \in seen => o \in Repeatable(cmd[1])
            /\ o = "--capability" => cmd[2] = "delegate"
            /\ seen' = seen \cup {o}
            /\ again' = IF o \in seen THEN again \cup {o} ELSE again
            /\ cmd' = cmd /\ positional' = positional /\ verdict' = verdict
        BY <1>1, <2>2 DEF ReadOption
      <3>2. again' \subseteq seen' \cap Repeatable(cmd[1])
        BY <1>i, <3>1
      <3> QED
        BY <1>i, <3>1, <3>2 DEF ParserInv, Readable, Repeatable
    <2> QED
      BY <2>1, <2>2
  <1>2. ASSUME ReadPositional PROVE ParserInv'
    <2>1. CASE Refuse
      BY <1>r, <2>1
    <2>2. CASE ~Refuse
      <3>1. /\ cmd[1] \in {"config", "credential"} /\ verdict = "reading"
            /\ positional' = positional + 1 /\ UNCHANGED <<cmd, seen, again, only, verdict>>
        BY <1>2, <2>2 DEF ReadPositional
      <3> QED
        BY <1>i, <3>1 DEF ParserInv, Readable, Repeatable
    <2> QED
      BY <2>1, <2>2
  <1>3. ASSUME ReadSeparator PROVE ParserInv'
    <2>1. CASE Refuse
      BY <1>r, <2>1
    <2>2. CASE ~Refuse
      <3>1. verdict = "reading" /\ UNCHANGED <<cmd, seen, again, positional, verdict>>
        BY <1>3, <2>2 DEF ReadSeparator
      <3> QED
        BY <1>i, <3>1 DEF ParserInv, Readable, Repeatable
    <2> QED
      BY <2>1, <2>2
  <1>4. ASSUME EndOfArguments PROVE ParserInv'
    <2>1. /\ UNCHANGED <<cmd, seen, again, positional>>
          /\ verdict' = IF parse THEN "accepted" ELSE "refused"
      BY <1>4 DEF EndOfArguments
    <2>2. verdict' = "accepted" => parse'
      BY <2>1, ParseIsOfReading
    <2> QED
      BY <1>i, <2>1, <2>2 DEF ParserInv, Readable, Repeatable
  <1>5. CASE UNCHANGED parser_vars
    <2>1. UNCHANGED <<cmd, seen, again, positional, verdict>>
      BY <1>5 DEF parser_vars
    <2>2. verdict' = "accepted" => parse'
      BY <2>1, ParseIsOfReading DEF ParserInv
    <2> QED
      BY <1>i, <2>1, <2>2 DEF ParserInv, Readable, Repeatable
  <1> QED
    BY <1>1, <1>2, <1>3, <1>4, <1>5 DEF ParserNext

ParserSpec == ParserInit /\ [][ParserNext]_parser_vars

\* The loops hand the rules only options of the command's family, again only
\* what may be repeated, and a command is accepted only by its own rules.
THEOREM ParserInvariant == ParserSpec => []ParserInv
  <1>1. ParserInit => ParserInv
    BY ParserInitially
  <1>2. ParserInv /\ [ParserNext]_parser_vars => ParserInv'
    BY ParserStep
  <1> QED
    BY <1>1, <1>2, PTL DEF ParserSpec

\* However many arguments, in whatever order: no option is read and ignored,
\* and nothing the text of --help offers is refused.
THEOREM ParserAgreesWithUsage == ParserSpec => []ParserFollowsUsage
  <1>1. ParserInv => ParserFollowsUsage
    BY ParserInvSuffices
  <1>2. ParserSpec => []ParserInv
    BY ParserInvariant
  <1> QED
    BY <1>1, <1>2, PTL
=============================================================================
