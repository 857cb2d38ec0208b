------------------------- MODULE ToolRuntimeProofs -------------------------
(***************************************************************************)
(* Proofs about ToolRuntime: for every set of Agents, identities, payloads  *)
(* and capabilities, an effect runs at most once, is never forgotten, and   *)
(* its recorded outcome is the reported one.                                *)
(*                                                                          *)
(* The argument: while the writer is healthy memory equals the Ledger, and  *)
(* the thread is inside resolve only then; a call that awaits approval or   *)
(* was denied never ran; and an identity that ran has a call in the Ledger, *)
(* so the identity of a new call cannot have run before.                    *)
(*                                                                          *)
(* Also about the executor of local processes, the Config screens of the    *)
(* terminal and the Context a Turn is asked with, for any program run, any  *)
(* fields and any conversation.                                             *)
(***************************************************************************)
EXTENDS ToolRuntime, LocalProcess, TerminalConfig, ContextView, FoldSums, TLAPS

\* While the writer is healthy, memory is the Ledger; the thread is inside
\* resolve only with a healthy writer.
MemoryIsLedger ==
    /\ mode = "open" => calls = ledger
    /\ step.at # "idle" => mode = "open"

\* Identities are unique, and so is an undecided prepared call.
UniqueCalls == OneCallPerIdentity

\* A call that awaits approval or was denied never ran.
NotYetRun ==
    \A c \in DOMAIN ledger :
        ledger[c].status \in {"AwaitingApproval", "Denied"} => invoked[ledger[c].identity] = 0

\* An identity that ran has its call in the Ledger.
RanIsKnown ==
    \A i \in Identities : invoked[i] # 0 => \E c \in DOMAIN ledger : ledger[c].identity = i

\* The call being resolved is prepared; it ran iff the thread is past execute.
InResolve ==
    step.at # "idle" =>
        /\ step.call \in DOMAIN ledger
        /\ ledger[step.call].status = "ReconciliationRequired"
        /\ step.at = "execute" => invoked[ledger[step.call].identity] = 0
        /\ step.at = "record" => invoked[ledger[step.call].identity] = 1

ToolInv ==
    /\ TypeOK
    /\ MemoryIsLedger
    /\ UniqueCalls
    /\ NotYetRun
    /\ RanIsKnown
    /\ InResolve
    /\ AtMostOnce
    /\ OutcomeIsReported

-----------------------------------------------------------------------------

LEMMA InitInv == Init => ToolInv
<1> SUFFICES ASSUME Init PROVE ToolInv
  OBVIOUS
<1>1. TypeOK
  <2>1. calls \in Seq(Record) /\ ledger \in Seq(Record)
    BY DEF Init
  <2>2. step \in [at : {"idle", "execute", "record"}, call : Nat]
    BY DEF Init, Idle
  <2>3. invoked \in [Identities -> Nat] /\ reported \in [Identities -> Reports]
    BY DEF Init, Reports
  <2>4. active \subseteq Agents /\ teamPending \in BOOLEAN
    BY DEF Init
  <2>5. tokens \subseteq Token /\ reconciled \subseteq Identities
    BY DEF Init
  <2>6. QED
    BY <2>1, <2>2, <2>3, <2>4, <2>5 DEF Init, TypeOK
<1>2. DOMAIN ledger = {}
  BY DEF Init
<1>3. MemoryIsLedger /\ InResolve
  BY DEF Init, MemoryIsLedger, InResolve, Idle
<1>4. UniqueCalls /\ NotYetRun /\ OutcomeIsReported
  BY <1>2 DEF UniqueCalls, OneCallPerIdentity, PendingReconciliation, NotYetRun, OutcomeIsReported
<1>5. RanIsKnown /\ AtMostOnce
  BY DEF Init, RanIsKnown, AtMostOnce
<1>6. QED
  BY <1>1, <1>3, <1>4, <1>5 DEF ToolInv

LEMMA RecordFields ==
  ASSUME NEW l \in Seq(Record), NEW d \in DOMAIN l
  PROVE  l[d].identity \in Identities
<1>1. l[d] \in Record
  OBVIOUS
<1>2. QED
  BY <1>1 DEF Record

\* Changing only the status of a known call keeps types and uniqueness of
\* identities.
LEMMA StatusChange ==
  ASSUME NEW l \in Seq(Record), NEW c \in DOMAIN l, NEW st \in Status
  PROVE  LET n == [l EXCEPT ![c].status = st]
         IN  /\ n \in Seq(Record)
             /\ DOMAIN n = DOMAIN l
             /\ n[c].status = st
             /\ \A d \in DOMAIN l : n[d].identity = l[d].identity
             /\ \A d \in DOMAIN l : d # c => n[d] = l[d]
<1> DEFINE n == [l EXCEPT ![c].status = st]
<1>1. l[c] \in Record /\ DOMAIN l = 1..Len(l)
  OBVIOUS
<1>2. n = [l EXCEPT ![c] = [l[c] EXCEPT !.status = st]]
  OBVIOUS
<1>3. [l[c] EXCEPT !.status = st] \in Record
  BY <1>1 DEF Record
<1>4. n \in Seq(Record)
  BY <1>2, <1>3
<1>5. n[c] = [l[c] EXCEPT !.status = st]
  BY <1>2
<1>6. n[c].status = st /\ n[c].identity = l[c].identity
  BY <1>1, <1>5 DEF Record
<1>7. \A d \in DOMAIN l : d # c => n[d] = l[d]
  BY <1>2
<1>8. DOMAIN n = DOMAIN l
  BY <1>2
<1>9. QED
  BY <1>4, <1>6, <1>7, <1>8

\* Appending a call for an unknown identity.
LEMMA NewCall ==
  ASSUME NEW l \in Seq(Record), NEW r \in Record
  PROVE  LET n == Append(l, r)
         IN  /\ n \in Seq(Record)
             /\ DOMAIN n = DOMAIN l \cup {Len(l) + 1}
             /\ n[Len(l) + 1] = r
             /\ Len(l) + 1 \notin DOMAIN l
             /\ \A d \in DOMAIN l : n[d] = l[d]
  OBVIOUS

\* What the Ledger-only conjuncts of the invariant need of a step.
LedgerOK == UniqueCalls /\ NotYetRun /\ RanIsKnown /\ AtMostOnce /\ OutcomeIsReported

\* A transaction that gives call c the status st, durable or not.
LEMMA StatusStep ==
  ASSUME ToolInv, NEW c \in DOMAIN ledger, NEW st \in Status,
         ledger' \in {ledger, [ledger EXCEPT ![c].status = st]},
         invoked' = invoked, reported' = reported, reconciled \subseteq reconciled',
         st = "ReconciliationRequired" => PendingReconciliation(ledger) \subseteq {c},
         st \in {"AwaitingApproval", "Denied"} => invoked[ledger[c].identity] = 0,
         st \in {"Succeeded", "Failed"} =>
            \/ ledger[c].identity \in reconciled'
            \/ invoked[ledger[c].identity] = 1 /\ reported[ledger[c].identity] = st
  PROVE  /\ ledger' \in Seq(Record)
         /\ DOMAIN ledger' = DOMAIN ledger
         /\ \A d \in DOMAIN ledger : ledger'[d].identity = ledger[d].identity
         /\ LedgerOK'
<1> USE DEF ToolInv
<1> DEFINE n == [ledger EXCEPT ![c].status = st]
<1>1. ledger \in Seq(Record)
  BY DEF TypeOK
<1>2. /\ n \in Seq(Record) /\ DOMAIN n = DOMAIN ledger /\ n[c].status = st
      /\ \A d \in DOMAIN ledger : n[d].identity = ledger[d].identity
      /\ \A d \in DOMAIN ledger : d # c => n[d] = ledger[d]
  BY <1>1, StatusChange
<1>3. CASE ledger' = ledger
  <2>1. LedgerOK'
    BY <1>3 DEF LedgerOK, UniqueCalls, OneCallPerIdentity, PendingReconciliation, NotYetRun,
                RanIsKnown, AtMostOnce, OutcomeIsReported
  <2>2. QED
    BY <1>1, <1>3, <2>1
<1>4. CASE ledger' = n
  <2> HIDE DEF n
  <2>1. UniqueCalls'
    BY <1>2, <1>4 DEF UniqueCalls, OneCallPerIdentity, PendingReconciliation
  <2>2. NotYetRun'
    BY <1>2, <1>4 DEF NotYetRun
  <2>3. RanIsKnown'
    BY <1>2, <1>4 DEF RanIsKnown
  <2>4. AtMostOnce'
    BY DEF AtMostOnce
  <2>5. OutcomeIsReported'
    BY <1>2, <1>4 DEF OutcomeIsReported
  <2>6. QED
    BY <1>2, <1>4, <2>1, <2>2, <2>3, <2>4, <2>5 DEF LedgerOK
<1>5. QED
  BY <1>3, <1>4

\* A transaction that records a call for an identity memory does not know.
LEMMA RequestStep ==
  ASSUME ToolInv, NEW a \in Agents, NEW i \in Identities, NEW p \in Payloads,
         \A d \in DOMAIN ledger : ledger[d].identity # i,
         ledger' \in {ledger, Append(ledger, [identity |-> i, agent |-> a, payload |-> p,
                                             status |-> "AwaitingApproval"])},
         invoked' = invoked, reported' = reported, reconciled' = reconciled
  PROVE  ledger' \in Seq(Record) /\ LedgerOK'
<1> USE DEF ToolInv
<1> DEFINE r == [identity |-> i, agent |-> a, payload |-> p, status |-> "AwaitingApproval"]
           n == Append(ledger, r)
<1>1. ledger \in Seq(Record) /\ invoked \in [Identities -> Nat]
  BY DEF TypeOK
<1>2. r \in Record
  BY DEF Record, Status
<1>3. /\ n \in Seq(Record) /\ DOMAIN n = DOMAIN ledger \cup {Len(ledger) + 1}
      /\ n[Len(ledger) + 1] = r /\ Len(ledger) + 1 \notin DOMAIN ledger
      /\ \A d \in DOMAIN ledger : n[d] = ledger[d]
  BY <1>1, <1>2, NewCall
<1>4. r.identity = i /\ r.status = "AwaitingApproval"
  OBVIOUS
<1>5. invoked[i] = 0
  BY <1>1 DEF RanIsKnown
<1>6. CASE ledger' = ledger
  <2>1. LedgerOK'
    BY <1>6 DEF LedgerOK, UniqueCalls, OneCallPerIdentity, PendingReconciliation, NotYetRun,
                RanIsKnown, AtMostOnce, OutcomeIsReported
  <2>2. QED
    BY <1>1, <1>6, <2>1
<1>7. CASE ledger' = n
  <2> HIDE DEF n, r
  <2>1. UniqueCalls'
    BY <1>3, <1>4, <1>7 DEF UniqueCalls, OneCallPerIdentity, PendingReconciliation
  <2>2. NotYetRun'
    BY <1>3, <1>4, <1>5, <1>7 DEF NotYetRun
  <2>3. RanIsKnown'
    BY <1>3, <1>7 DEF RanIsKnown
  <2>4. AtMostOnce'
    BY DEF AtMostOnce
  <2>5. OutcomeIsReported'
    BY <1>3, <1>4, <1>7 DEF OutcomeIsReported
  <2>6. QED
    BY <1>3, <1>7, <2>1, <2>2, <2>3, <2>4, <2>5 DEF LedgerOK
<1>8. QED
  BY <1>6, <1>7

-----------------------------------------------------------------------------
(* One lemma per action.                                                    *)

LEMMA RequestInv == ToolInv /\ Request => ToolInv'
<1> SUFFICES ASSUME ToolInv, Request PROVE ToolInv'
  OBVIOUS
<1>1. PICK a \in Agents, i \in Identities, p \in Payloads :
        KernelAdmits(a) /\ Authorized(a, p) /\ (RequestNew(a, i, p) \/ RequestKnown(a, i, p))
  BY DEF Request
<1>2. /\ step' = step /\ active' = active /\ teamPending' = teamPending
      /\ invoked' = invoked /\ reported' = reported /\ reconciled' = reconciled
  BY DEF Request, world
<1>3. mode = "open" /\ step = Idle /\ step.at = "idle" /\ calls = ledger
  BY <1>1 DEF KernelAdmits, ToolInv, MemoryIsLedger, Idle
<1>4. TypeOK
  BY DEF ToolInv
<1>5. \A c \in Nat : [call |-> c, agent |-> a, identity |-> i, payload |-> p] \in Token
  BY DEF Token
<1>6. InResolve'
  BY <1>2, <1>3 DEF InResolve
<1>7. CASE RequestNew(a, i, p)
  <2> DEFINE r == [identity |-> i, agent |-> a, payload |-> p, status |-> "AwaitingApproval"]
             n == Append(ledger, r)
  <2>1. \A d \in DOMAIN ledger : ledger[d].identity # i
    BY <1>3, <1>7 DEF RequestNew, Known
  <2>2. /\ ledger' \in {ledger, n}
        /\ \/ calls' = n /\ ledger' = n /\ mode' = mode /\ Mint(Len(calls) + 1, a, i, p)
           \/ calls' = calls /\ mode' = "poisoned" /\ tokens' = tokens
    BY <1>3, <1>7 DEF RequestNew, Appended, AppendFails
  <2>3. ledger' \in Seq(Record) /\ LedgerOK'
    BY <1>2, <2>1, <2>2, RequestStep
  <2>4. MemoryIsLedger'
    BY <1>2, <1>3, <2>2 DEF MemoryIsLedger
  <2>5. calls' \in Seq(Record) /\ mode' \in {"closed", "open", "poisoned"}
    BY <1>3, <1>4, <2>2, <2>3 DEF TypeOK
  <2>6. tokens' \subseteq Token
    <3>1. Len(calls) + 1 \in Nat
      BY <1>4 DEF TypeOK
    <3>2. QED
      BY <1>4, <1>5, <2>2, <3>1 DEF TypeOK, Mint
  <2>7. TypeOK'
    BY <1>2, <1>4, <2>3, <2>5, <2>6 DEF TypeOK
  <2>8. QED
    BY <1>6, <2>3, <2>4, <2>7 DEF ToolInv, LedgerOK
<1>8. CASE RequestKnown(a, i, p)
  <2>1. PICK c \in DOMAIN calls : Mint(c, a, i, p)
    BY <1>8 DEF RequestKnown, Known
  <2>2. calls' = calls /\ ledger' = ledger /\ mode' = mode
    BY <1>8 DEF RequestKnown
  <2>3. tokens' \subseteq Token
    <3>1. c \in Nat
      BY <1>4, <2>1 DEF TypeOK
    <3>2. QED
      BY <1>4, <1>5, <2>1, <3>1 DEF TypeOK, Mint
  <2>4. TypeOK'
    BY <1>2, <1>4, <2>2, <2>3 DEF TypeOK
  <2>5. LedgerOK' /\ MemoryIsLedger'
    BY <1>2, <2>2 DEF ToolInv, LedgerOK, UniqueCalls, OneCallPerIdentity, PendingReconciliation,
       NotYetRun, RanIsKnown, AtMostOnce, OutcomeIsReported, MemoryIsLedger
  <2>6. QED
    BY <1>6, <2>4, <2>5 DEF ToolInv, LedgerOK
<1>9. QED
  BY <1>1, <1>7, <1>8

LEMMA DenyInv == ToolInv /\ Deny => ToolInv'
<1> SUFFICES ASSUME ToolInv, Deny PROVE ToolInv'
  OBVIOUS
<1>1. PICK tok \in tokens : /\ KernelAdmits(tok.agent) /\ ValidRequest(tok)
                            /\ \/ Appended(WithStatus(tok.call, "Denied"))
                               \/ AppendFails(WithStatus(tok.call, "Denied"))
  BY DEF Deny
<1>2. /\ step' = step /\ tokens' = tokens /\ active' = active /\ teamPending' = teamPending
      /\ invoked' = invoked /\ reported' = reported /\ reconciled' = reconciled
  BY DEF Deny, world
<1>3. mode = "open" /\ step.at = "idle" /\ calls = ledger /\ TypeOK
  BY <1>1 DEF KernelAdmits, ToolInv, MemoryIsLedger, Idle
<1> DEFINE c == tok.call
           n == [ledger EXCEPT ![c].status = "Denied"]
<1>4. c \in DOMAIN ledger /\ ledger[c].status = "AwaitingApproval"
  BY <1>1, <1>3 DEF ValidRequest
<1>5. /\ ledger' \in {ledger, n}
      /\ \/ calls' = n /\ ledger' = n /\ mode' = mode
         \/ calls' = calls /\ mode' = "poisoned"
  BY <1>1, <1>3 DEF Appended, AppendFails, WithStatus
<1>6. invoked[ledger[c].identity] = 0
  BY <1>4 DEF ToolInv, NotYetRun
<1>7. ledger' \in Seq(Record) /\ LedgerOK'
  <2> HIDE DEF c
  <2>1. "Denied" \in Status
    BY DEF Status
  <2>2. QED
    BY <1>2, <1>4, <1>5, <1>6, <2>1, StatusStep
<1>8. TypeOK'
  BY <1>2, <1>3, <1>5, <1>7 DEF TypeOK
<1>9. MemoryIsLedger' /\ InResolve'
  BY <1>2, <1>3, <1>5 DEF MemoryIsLedger, InResolve
<1>10. QED
  BY <1>7, <1>8, <1>9 DEF ToolInv, LedgerOK

LEMMA GrantInv == ToolInv /\ Grant => ToolInv'
<1> SUFFICES ASSUME ToolInv, Grant PROVE ToolInv'
  OBVIOUS
<1>1. PICK tok \in tokens :
        /\ KernelAdmits(tok.agent) /\ ValidRequest(tok)
        /\ \/ /\ Appended(WithStatus(tok.call, "ReconciliationRequired"))
              /\ step' = [at |-> "execute", call |-> tok.call]
           \/ /\ AppendFails(WithStatus(tok.call, "ReconciliationRequired"))
              /\ step' = step
  BY DEF Grant
<1>2. /\ tokens' = tokens /\ active' = active /\ teamPending' = teamPending
      /\ invoked' = invoked /\ reported' = reported /\ reconciled' = reconciled
  BY DEF Grant, world
<1>3. /\ mode = "open" /\ step.at = "idle" /\ calls = ledger /\ TypeOK
      /\ PendingReconciliation(ledger) = {}
  BY <1>1 DEF KernelAdmits, ToolInv, MemoryIsLedger, Idle
<1> DEFINE c == tok.call
           n == [ledger EXCEPT ![c].status = "ReconciliationRequired"]
<1>4. c \in DOMAIN ledger /\ ledger[c].status = "AwaitingApproval"
  BY <1>1, <1>3 DEF ValidRequest
<1>5. /\ ledger' \in {ledger, n}
      /\ \/ /\ calls' = n /\ ledger' = n /\ mode' = mode
            /\ step' = [at |-> "execute", call |-> c]
         \/ calls' = calls /\ mode' = "poisoned" /\ step' = step
  BY <1>1, <1>3 DEF Appended, AppendFails, WithStatus
<1>6. invoked[ledger[c].identity] = 0
  BY <1>4 DEF ToolInv, NotYetRun
<1>7. /\ ledger' \in Seq(Record) /\ LedgerOK' /\ DOMAIN ledger' = DOMAIN ledger
      /\ \A d \in DOMAIN ledger : ledger'[d].identity = ledger[d].identity
  <2> HIDE DEF c
  <2>1. "ReconciliationRequired" \in Status
    BY DEF Status
  <2>2. QED
    BY <1>2, <1>3, <1>4, <1>5, <2>1, StatusStep
<1>8. TypeOK'
  <2>1. c \in Nat
    BY <1>3, <1>4 DEF TypeOK
  <2>2. step' \in [at : {"idle", "execute", "record"}, call : Nat]
    BY <1>3, <1>5, <2>1 DEF TypeOK
  <2>3. QED
    BY <1>2, <1>3, <1>5, <1>7, <2>2 DEF TypeOK
<1>9. MemoryIsLedger'
  BY <1>3, <1>5 DEF MemoryIsLedger
<1>10. InResolve'
  <2>1. CASE step' = step
    BY <1>3, <2>1 DEF InResolve
  <2>2. CASE ledger' = n /\ step' = [at |-> "execute", call |-> c]
    <3>1. step'.at = "execute" /\ step'.call = c
      BY <2>2
    <3>2. ledger'[c].status = "ReconciliationRequired"
      <4>1. "ReconciliationRequired" \in Status /\ ledger \in Seq(Record)
        BY <1>3 DEF Status, TypeOK
      <4>2. QED
        BY <1>4, <2>2, <4>1, StatusChange
    <3>3. QED
      BY <1>2, <1>4, <1>6, <1>7, <3>1, <3>2 DEF InResolve
  <2>3. QED
    BY <1>5, <2>1, <2>2
<1>11. QED
  BY <1>7, <1>8, <1>9, <1>10 DEF ToolInv, LedgerOK

LEMMA ExecuteInv == ToolInv /\ Execute => ToolInv'
<1> SUFFICES ASSUME ToolInv, Execute PROVE ToolInv'
  OBVIOUS
<1> DEFINE i == ledger[step.call].identity
<1>1. /\ step.at = "execute" /\ mode = "open" /\ calls = ledger /\ TypeOK
      /\ step.call \in DOMAIN ledger /\ invoked[i] = 0
      /\ ledger[step.call].status = "ReconciliationRequired"
  BY DEF Execute, ToolInv, MemoryIsLedger, InResolve
<1>2. /\ ledger' = ledger /\ calls' = calls /\ mode' = mode /\ tokens' = tokens
      /\ active' = active /\ teamPending' = teamPending /\ reconciled' = reconciled
      /\ step' = [step EXCEPT !.at = "record"]
      /\ invoked' = [invoked EXCEPT ![i] = @ + 1]
  BY <1>1 DEF Execute
<1>3. PICK r \in Reports : reported' = [reported EXCEPT ![i] = r]
  BY <1>1 DEF Execute
<1>4. i \in Identities
  BY <1>1, RecordFields DEF TypeOK
<1>5. invoked' \in [Identities -> Nat] /\ reported' \in [Identities -> Reports]
  BY <1>1, <1>2, <1>3, <1>4 DEF TypeOK
<1>6. invoked'[i] = 1 /\ \A j \in Identities : j # i => invoked'[j] = invoked[j] /\ reported'[j] = reported[j]
  BY <1>1, <1>2, <1>3, <1>4 DEF TypeOK
<1>7. step' \in [at : {"idle", "execute", "record"}, call : Nat] /\ step'.at = "record" /\ step'.call = step.call
  BY <1>1, <1>2 DEF TypeOK
<1>8. \A d \in DOMAIN ledger : ledger[d].identity \in Identities
  BY <1>1, RecordFields DEF TypeOK
<1>9. \A d \in DOMAIN ledger : ledger[d].identity = i => d = step.call
  BY <1>1 DEF ToolInv, UniqueCalls, OneCallPerIdentity
<1> HIDE DEF i
<1>10. TypeOK'
  BY <1>1, <1>2, <1>5, <1>7 DEF TypeOK
<1>11. MemoryIsLedger'
  BY <1>1, <1>2 DEF MemoryIsLedger
<1>12. UniqueCalls'
  BY <1>2 DEF ToolInv, UniqueCalls, OneCallPerIdentity, PendingReconciliation
<1>13. NotYetRun'
  BY <1>1, <1>2, <1>6, <1>8, <1>9 DEF ToolInv, NotYetRun
<1>14. RanIsKnown'
  BY <1>1, <1>2, <1>6 DEF ToolInv, RanIsKnown, i
<1>15. InResolve'
  BY <1>1, <1>2, <1>6, <1>7 DEF InResolve, i
<1>16. AtMostOnce'
  BY <1>6 DEF ToolInv, AtMostOnce
<1>17. OutcomeIsReported'
  BY <1>1, <1>2, <1>6, <1>8, <1>9 DEF ToolInv, OutcomeIsReported
<1>18. QED
  BY <1>10, <1>11, <1>12, <1>13, <1>14, <1>15, <1>16, <1>17 DEF ToolInv

LEMMA RecordOutcomeInv == ToolInv /\ RecordOutcome => ToolInv'
<1> SUFFICES ASSUME ToolInv, RecordOutcome PROVE ToolInv'
  OBVIOUS
<1> DEFINE c == step.call
           i == ledger[c].identity
           st == Outcome(reported[i])
           n == [ledger EXCEPT ![c].status = st]
<1>1. /\ mode = "open" /\ calls = ledger /\ TypeOK
      /\ c \in DOMAIN ledger /\ invoked[i] = 1
      /\ ledger[c].status = "ReconciliationRequired"
  BY DEF RecordOutcome, ToolInv, MemoryIsLedger, InResolve
<1>2. /\ tokens' = tokens /\ active' = active /\ teamPending' = teamPending
      /\ invoked' = invoked /\ reported' = reported /\ reconciled' = reconciled
      /\ step' = Idle
  BY DEF RecordOutcome, world
<1>3. /\ ledger' \in {ledger, n}
      /\ \/ calls' = n /\ ledger' = n /\ mode' = mode
         \/ calls' = calls /\ mode' = "poisoned"
  BY <1>1 DEF RecordOutcome, Appended, AppendFails, WithStatus
<1>4. /\ st \in {"Succeeded", "Failed", "ReconciliationRequired"}
      /\ st \in {"Succeeded", "Failed"} => reported[i] = st
  BY DEF Outcome
<1>5. PendingReconciliation(ledger) \subseteq {c}
  BY <1>1 DEF ToolInv, UniqueCalls, OneCallPerIdentity, PendingReconciliation
<1>6. ledger' \in Seq(Record) /\ LedgerOK'
  <2> HIDE DEF c, st
  <2>1. st \in Status
    BY <1>4 DEF Status
  <2>2. st \in {"AwaitingApproval", "Denied"} => invoked[ledger[c].identity] = 0
    BY <1>4
  <2>3. QED
    BY <1>1, <1>2, <1>3, <1>4, <1>5, <2>1, <2>2, StatusStep
<1>7. TypeOK'
  BY <1>1, <1>2, <1>3, <1>6 DEF TypeOK, Idle
<1>8. MemoryIsLedger' /\ InResolve'
  BY <1>1, <1>2, <1>3 DEF MemoryIsLedger, InResolve, Idle
<1>9. QED
  BY <1>6, <1>7, <1>8 DEF ToolInv, LedgerOK

LEMMA ReconcileInv == ToolInv /\ Reconcile => ToolInv'
<1> SUFFICES ASSUME ToolInv, Reconcile PROVE ToolInv'
  OBVIOUS
<1>1. PICK c \in PendingReconciliation(calls), st \in {"Succeeded", "Failed"} :
        /\ Appended(WithStatus(c, st)) \/ AppendFails(WithStatus(c, st))
        /\ reconciled' = reconciled \cup {calls[c].identity}
  BY DEF Reconcile
<1>2. /\ tokens' = tokens /\ active' = active /\ teamPending' = teamPending
      /\ invoked' = invoked /\ reported' = reported /\ step' = step
  BY DEF Reconcile
<1>3. mode = "open" /\ step.at = "idle" /\ calls = ledger /\ TypeOK
  BY DEF Reconcile, ToolInv, MemoryIsLedger, Idle
<1>4. c \in DOMAIN ledger
  BY <1>1, <1>3 DEF PendingReconciliation
<1> DEFINE n == [ledger EXCEPT ![c].status = st]
<1>5. /\ ledger' \in {ledger, n}
      /\ \/ calls' = n /\ ledger' = n /\ mode' = mode
         \/ calls' = calls /\ mode' = "poisoned"
  BY <1>1, <1>3 DEF Appended, AppendFails, WithStatus
<1>6. ledger' \in Seq(Record) /\ LedgerOK'
  <2>1. st \in Status /\ st # "ReconciliationRequired" /\ st \notin {"AwaitingApproval", "Denied"}
    BY DEF Status
  <2>2. ledger[c].identity \in reconciled' /\ reconciled \subseteq reconciled'
    BY <1>1, <1>3
  <2>3. QED
    BY <1>2, <1>4, <1>5, <2>1, <2>2, StatusStep
<1>7. TypeOK'
  <2>1. ledger[c].identity \in Identities
    BY <1>3, <1>4, RecordFields DEF TypeOK
  <2>2. reconciled' \subseteq Identities
    BY <1>1, <1>3, <2>1 DEF TypeOK
  <2>3. QED
    BY <1>2, <1>3, <1>5, <1>6, <2>2 DEF TypeOK
<1>8. MemoryIsLedger' /\ InResolve'
  BY <1>2, <1>3, <1>5 DEF MemoryIsLedger, InResolve
<1>9. QED
  BY <1>6, <1>7, <1>8 DEF ToolInv, LedgerOK

LEMMA TeamInv == ToolInv /\ (TeamCommand \/ TeamAcknowledge) => ToolInv'
<1> SUFFICES ASSUME ToolInv, TeamCommand \/ TeamAcknowledge PROVE ToolInv'
  OBVIOUS
<1>1. /\ ledger' = ledger /\ calls' = calls /\ mode' = mode /\ step' = step /\ tokens' = tokens
      /\ invoked' = invoked /\ reported' = reported /\ reconciled' = reconciled
      /\ active' \subseteq Agents /\ teamPending' \in BOOLEAN
  BY DEF TeamCommand, TeamAcknowledge, process, ToolInv, TypeOK
<1>2. QED
  BY <1>1 DEF ToolInv, TypeOK, MemoryIsLedger, UniqueCalls, OneCallPerIdentity,
     PendingReconciliation, NotYetRun, RanIsKnown, InResolve, AtMostOnce, OutcomeIsReported

LEMMA ProcessInv == ToolInv /\ (Open \/ Crash) => ToolInv'
<1> SUFFICES ASSUME ToolInv, Open \/ Crash PROVE ToolInv'
  OBVIOUS
<1>1. /\ ledger' = ledger /\ invoked' = invoked /\ reported' = reported
      /\ reconciled' = reconciled /\ active' = active /\ teamPending' = teamPending
  BY DEF Open, Crash, world
<1>2. \/ calls' = ledger /\ mode = "closed" /\ mode' = "open" /\ step' = step /\ tokens' = tokens
      \/ calls' = <<>> /\ mode' = "closed" /\ step' = Idle /\ tokens' = {}
  BY DEF Open, Crash
<1>3. TypeOK'
  <2>0. <<>> \in Seq(Record)
    OBVIOUS
  <2>1. calls' \in Seq(Record) /\ tokens' \subseteq Token
    <3>1. CASE calls' = ledger /\ tokens' = tokens
      BY <3>1 DEF ToolInv, TypeOK
    <3>2. CASE calls' = <<>> /\ tokens' = {}
      BY <3>2, <2>0
    <3>3. QED
      BY <1>2, <3>1, <3>2
  <2>2. step' \in [at : {"idle", "execute", "record"}, call : Nat]
    BY <1>2 DEF ToolInv, TypeOK, Idle
  <2>3. QED
    BY <1>1, <1>2, <2>1, <2>2 DEF ToolInv, TypeOK
<1>4. step'.at = "idle"
  BY <1>2 DEF ToolInv, MemoryIsLedger, Idle
<1>5. MemoryIsLedger' /\ InResolve'
  BY <1>1, <1>2, <1>4 DEF MemoryIsLedger, InResolve
<1>6. QED
  BY <1>1, <1>3, <1>5 DEF ToolInv, UniqueCalls, OneCallPerIdentity,
     PendingReconciliation, NotYetRun, RanIsKnown, AtMostOnce, OutcomeIsReported

LEMMA StutterInv == ToolInv /\ UNCHANGED vars => ToolInv'
  BY DEF vars, ToolInv, TypeOK, MemoryIsLedger, UniqueCalls, OneCallPerIdentity,
     PendingReconciliation, NotYetRun, RanIsKnown, InResolve, AtMostOnce, OutcomeIsReported

-----------------------------------------------------------------------------
(* Theorems.                                                                *)

\* ToolInv is an invariant of the Tool Runtime.
THEOREM ToolInvariant == Spec => []ToolInv
<1>1. ToolInv /\ [Next]_vars => ToolInv'
  BY RequestInv, DenyInv, GrantInv, ExecuteInv, RecordOutcomeInv, ReconcileInv, TeamInv,
     ProcessInv, StutterInv DEF Next
<1>2. QED
  BY <1>1, InitInv, PTL DEF Spec

\* Whatever fails or crashes, the executor runs at most once for an identity
\* (resolve_with_boundary, tool_runtime.rs).
THEOREM EffectsRunAtMostOnce == Spec => []AtMostOnce
<1>1. ToolInv => AtMostOnce
  BY DEF ToolInv
<1>2. QED
  BY <1>1, ToolInvariant, PTL

\* An effect that ran has a durable call past its approval (EffectPrepared is
\* synced before the executor is entered).
THEOREM EffectsAreRecorded == Spec => []EffectIsRecorded
<1>1. ToolInv => EffectIsRecorded
  <2> SUFFICES ASSUME ToolInv, NEW i \in Identities, invoked[i] > 0
               PROVE  \E c \in DOMAIN ledger :
                        /\ ledger[c].identity = i
                        /\ ledger[c].status \notin {"AwaitingApproval", "Denied"}
    BY DEF EffectIsRecorded
  <2>1. invoked[i] # 0
    BY DEF ToolInv, TypeOK
  <2>2. QED
    BY <2>1 DEF ToolInv, RanIsKnown, NotYetRun
<1>2. QED
  BY <1>1, ToolInvariant, PTL

\* A terminal status nobody reconciled is what the executor reported.
THEOREM OutcomesAreReported == Spec => []OutcomeIsReported
<1>1. ToolInv => OutcomeIsReported
  BY DEF ToolInv
<1>2. QED
  BY <1>1, ToolInvariant, PTL

\* One call per identity and at most one undecided prepared effect.
THEOREM CallsAreUnique == Spec => []OneCallPerIdentity
<1>1. ToolInv => OneCallPerIdentity
  BY DEF ToolInv, UniqueCalls
<1>2. QED
  BY <1>1, ToolInvariant, PTL
-----------------------------------------------------------------------------
(* The local process: the outcome of an effect is that of its one child.    *)
(*                                                                          *)
(* What a child was to write on a stream is in one of four places: not yet  *)
(* written, in the pipe, in the reader's hands, or counted.  The counts add *)
(* up to total, everything counted of standard output is kept as long as    *)
(* the limit holds, and a total past it is announced or about to be.        *)

Programmed(x) == IF x = "out" THEN child.program.out ELSE child.program.err
Counted(x) == Programmed(x) - child[x] - pipe[x] - reader[x].chunk

ProcessTypes ==
    /\ smoke \in Names
    /\ call \in {"none", "AwaitingApproval", "ReconciliationRequired", "Succeeded", "Failed"}
    /\ main \in {"none", "requested", "execute", "parked", "waiting", "joining", "killing",
                 "abandoned", "done"}
    /\ child \in [state : {"none", "run", "killed", "exit0", "exit1"}, program : Programs,
                  out : Nat, err : Nat, got : Nat]
    /\ stdin \in [units : Nat, open : BOOLEAN]
    /\ pipe \in [Streams -> Nat]
    /\ writer \in [state : {"none", "writing", "done", "failed"}, left : Nat]
    /\ reader \in [Streams -> [state : {"none", "reading", "read", "over", "done"},
                               chunk : Nat, kept : Nat]]
    /\ total \in Nat
    /\ result \in [kind : {"none", "Failed", "Ambiguous", "Succeeded"}, output : Nat]
    /\ ran \in Nat

\* Conservation of the output, and what the readers owe the limit.
OutputIsConserved ==
    /\ \A x \in Streams : Counted(x) >= 0
    /\ total = Counted("out") + Counted("err")
    /\ total <= MaxOutput => reader["out"].kept = Counted("out")
    /\ total > MaxOutput => exceeded \/ \E x \in Streams : reader[x].state = "over"

\* A reader holds a chunk only between reading and counting it, and has ended
\* only on an empty pipe whose child is gone.
ReadersAreHonest ==
    \A x \in Streams :
        /\ reader[x].state # "read" => reader[x].chunk = 0
        /\ reader[x].state = "done" => pipe[x] = 0 /\ child.state # "run"

\* Where the command stands says what its child may be, and a child that
\* exited well has written everything.
ChildIsAsWaitedFor ==
    /\ main \in {"none", "requested", "execute", "parked"} =>
          child = NoChild /\ total = 0 /\ exceeded = FALSE
    /\ main \in {"none", "requested", "execute", "parked"} =>
          \A x \in Streams : pipe[x] = 0 /\ reader[x] = [state |-> "none", chunk |-> 0, kept |-> 0]
    /\ main = "waiting" => child.state \in {"run", "exit0", "exit1"}
    /\ main = "joining" => child.state \in {"exit0", "exit1"}
    /\ main \in {"abandoned", "done"} => child.state # "run"
    /\ child.state = "exit0" => child.out = 0 /\ child.err = 0
    /\ result.kind # "none" <=> main = "done"

\* A call is started once, and its effect after its durable grant.
GrantedBeforeRun ==
    /\ call \in {"none", "AwaitingApproval"} => ran = 0
    /\ main = "requested" => call = "AwaitingApproval"
    /\ main \notin {"none", "requested"} => call = "ReconciliationRequired"
    /\ main \in {"execute", "parked"} => ran = 0
    /\ ran <= 1

ExecutorInv ==
    /\ ProcessTypes
    /\ OutputIsConserved
    /\ ReadersAreHonest
    /\ ChildIsAsWaitedFor
    /\ GrantedBeforeRun
    /\ OutcomeIsEarned

LEMMA ExecutorInit == ProcessInit => ExecutorInv
<1> SUFFICES ASSUME ProcessInit PROVE ExecutorInv
  OBVIOUS
<1>1. Hang \in Programs /\ NoChild.program = Hang /\ Hang.out = 0 /\ Hang.err = 0
  BY DEF Hang, Child, Programs, NoChild
<1>2. /\ NoChild \in [state : {"none", "run", "killed", "exit0", "exit1"}, program : Programs,
                      out : Nat, err : Nat, got : Nat]
      /\ NoChild.state = "none" /\ NoChild.out = 0 /\ NoChild.err = 0
      /\ NoChild["out"] = 0 /\ NoChild["err"] = 0
  BY <1>1 DEF NoChild
<1>3. ProcessTypes
  BY <1>2 DEF ProcessInit, ProcessTypes
<1>4. \A x \in Streams : Counted(x) = 0
  BY <1>1, <1>2 DEF ProcessInit, Counted, Programmed, Streams
<1>5. "out" \in Streams /\ "err" \in Streams
  BY DEF Streams
<1>6. OutputIsConserved
  BY <1>4, <1>5, ProcessAssumption DEF ProcessInit, OutputIsConserved
<1>7. ReadersAreHonest /\ GrantedBeforeRun
  BY DEF ProcessInit, ReadersAreHonest, GrantedBeforeRun
<1>8. ChildIsAsWaitedFor /\ OutcomeIsEarned
  BY <1>2 DEF ProcessInit, ChildIsAsWaitedFor, OutcomeIsEarned
<1>9. QED
  BY <1>3, <1>6, <1>7, <1>8 DEF ExecutorInv

\* Only the place of the output counts: what is left of it to write, in the
\* pipes, in the readers and counted.
LEMMA OutputUnchanged ==
  ASSUME ExecutorInv, \A x \in Streams : Programmed(x)' = Programmed(x) /\ child'[x] = child[x],
         pipe' = pipe, reader' = reader, total' = total, exceeded' = exceeded
  PROVE  OutputIsConserved'
<1>1. \A x \in Streams : Counted(x)' = Counted(x)
  BY DEF Counted
<1>2. "out" \in Streams /\ "err" \in Streams
  BY DEF Streams
<1>3. QED
  BY <1>1, <1>2 DEF ExecutorInv, OutputIsConserved

\* The steps of the command around the process.
LEMMA CommandStep ==
  ASSUME ExecutorInv, Start \/ GrantCall \/ RefuseCall \/ Park \/ NotStarted \/ SeeExit \/ GiveUp
  PROVE  ExecutorInv'
<1>1. /\ child' = child /\ descendant' = descendant /\ stdin' = stdin /\ pipe' = pipe
      /\ writer' = writer /\ reader' = reader /\ total' = total /\ exceeded' = exceeded
      /\ smoke' = smoke /\ ran' = ran
  BY DEF Start, GrantCall, RefuseCall, Park, NotStarted, SeeExit, GiveUp
<1>2. ProcessTypes'
  BY <1>1 DEF ExecutorInv, ProcessTypes, Start, GrantCall, RefuseCall, Park, NotStarted, SeeExit, GiveUp
<1>3. OutputIsConserved'
  BY <1>1, OutputUnchanged DEF Programmed
<1>4. ReadersAreHonest'
  BY <1>1 DEF ExecutorInv, ReadersAreHonest
<1>5. NoChild.state = "none"
  BY DEF NoChild
<1>6. ChildIsAsWaitedFor'
  BY <1>1, <1>5 DEF ExecutorInv, ProcessTypes, ChildIsAsWaitedFor, Start, GrantCall, RefuseCall, Park,
     NotStarted, SeeExit, GiveUp
<1>7. GrantedBeforeRun'
  BY <1>1 DEF ExecutorInv, GrantedBeforeRun, Start, GrantCall, RefuseCall, Park, NotStarted, SeeExit, GiveUp
<1>8. OutcomeIsEarned'
  BY <1>1, <1>5 DEF ExecutorInv, ChildIsAsWaitedFor, OutcomeIsEarned, Start, GrantCall, RefuseCall, Park,
     NotStarted, SeeExit, GiveUp
<1>9. QED
  BY <1>2, <1>3, <1>4, <1>6, <1>7, <1>8 DEF ExecutorInv

\* A command that ends, settled or dead, leaves nothing behind.
LEMMA EndStep ==
  ASSUME ExecutorInv, SettleCall \/ CommandDies
  PROVE  ExecutorInv'
<1>1. Hang \in Programs /\ NoChild.program = Hang /\ Hang.out = 0 /\ Hang.err = 0
  BY DEF Hang, Child, Programs, NoChild
<1>2. /\ NoChild \in [state : {"none", "run", "killed", "exit0", "exit1"}, program : Programs,
                      out : Nat, err : Nat, got : Nat]
      /\ NoChild.state = "none" /\ NoChild.out = 0 /\ NoChild.err = 0
      /\ NoChild["out"] = 0 /\ NoChild["err"] = 0
  BY <1>1 DEF NoChild
<1>3. /\ main' = "none" /\ child' = NoChild /\ total' = 0 /\ exceeded' = FALSE
      /\ stdin' = [units |-> 0, open |-> FALSE] /\ pipe' = [x \in Streams |-> 0]
      /\ writer' = [state |-> "none", left |-> 0]
      /\ reader' = [x \in Streams |-> [state |-> "none", chunk |-> 0, kept |-> 0]]
      /\ result' = [kind |-> "none", output |-> 0] /\ smoke' = smoke /\ ran' = ran
  BY DEF SettleCall, CommandDies, NoThreads
<1>4. \/ call' = call
      \/ main = "done" /\ call' \in {"ReconciliationRequired", "Succeeded", "Failed"}
  <2>1. result.kind \in {"none", "Failed", "Ambiguous", "Succeeded"}
    BY DEF ExecutorInv, ProcessTypes
  <2>2. main = "done" => result.kind # "none"
    BY DEF ExecutorInv, ChildIsAsWaitedFor
  <2>3. CASE SettleCall
    BY <2>1, <2>2, <2>3 DEF SettleCall
  <2>4. CASE CommandDies
    <3>1. call' = call
      BY <2>4 DEF CommandDies
    <3>2. QED
      BY <3>1
  <2>5. QED
    BY <2>3, <2>4
<1>5. ProcessTypes'
  BY <1>2, <1>3, <1>4 DEF ExecutorInv, ProcessTypes
<1>6. \A x \in Streams : Counted(x)' = 0
  BY <1>1, <1>2, <1>3 DEF Counted, Programmed, Streams
<1>7. "out" \in Streams /\ "err" \in Streams
  BY DEF Streams
<1>8. OutputIsConserved'
  BY <1>3, <1>6, <1>7, ProcessAssumption DEF OutputIsConserved
<1>9. ReadersAreHonest' /\ GrantedBeforeRun'
  BY <1>3, <1>4 DEF ExecutorInv, ReadersAreHonest, GrantedBeforeRun
<1>10. ChildIsAsWaitedFor' /\ OutcomeIsEarned'
  BY <1>2, <1>3 DEF ChildIsAsWaitedFor, OutcomeIsEarned
<1>11. QED
  BY <1>5, <1>8, <1>9, <1>10 DEF ExecutorInv

LEMMA UncontainedStep ==
  ASSUME ExecutorInv, Uncontained
  PROVE  ExecutorInv'
<1>1. /\ main = "execute" /\ child = NoChild /\ call = "ReconciliationRequired" /\ ran = 0
      /\ result.kind = "none"
  BY DEF Uncontained, ExecutorInv, ProcessTypes, ChildIsAsWaitedFor, GrantedBeforeRun
<1>2. /\ child' = [child EXCEPT !.state = "killed"] /\ ran' = 1 /\ main' = "done"
      /\ result' = [kind |-> "Ambiguous", output |-> 0] /\ call' = call /\ smoke' = smoke
      /\ stdin' = stdin /\ pipe' = pipe /\ writer' = writer /\ reader' = reader /\ total' = total
      /\ exceeded' = exceeded
  BY <1>1 DEF Uncontained
<1>3. /\ child.state = "none" /\ child.out = 0 /\ child.err = 0
      /\ child'.state = "killed" /\ child'.out = child.out /\ child'.err = child.err
      /\ child'["out"] = child["out"] /\ child'["err"] = child["err"] /\ child'.program = child.program
  BY <1>1, <1>2 DEF NoChild
<1>4. ProcessTypes'
  BY <1>2 DEF ExecutorInv, ProcessTypes
<1>5. OutputIsConserved'
  BY <1>2, <1>3, OutputUnchanged DEF Programmed, Streams
<1>6. ReadersAreHonest' /\ GrantedBeforeRun'
  BY <1>1, <1>2, <1>3 DEF ExecutorInv, ReadersAreHonest, GrantedBeforeRun
<1>7. ChildIsAsWaitedFor' /\ OutcomeIsEarned'
  BY <1>2, <1>3 DEF ChildIsAsWaitedFor, OutcomeIsEarned
<1>8. QED
  BY <1>4, <1>5, <1>6, <1>7 DEF ExecutorInv

LEMMA SpawnStep ==
  ASSUME ExecutorInv, Spawn
  PROVE  ExecutorInv'
<1> DEFINE program == Scenarios[smoke].program
<1>1. /\ main = "execute" /\ call = "ReconciliationRequired" /\ ran = 0 /\ result.kind = "none"
      /\ total = 0 /\ exceeded = FALSE /\ \A x \in Streams : pipe[x] = 0
  BY DEF Spawn, ExecutorInv, ProcessTypes, ChildIsAsWaitedFor, GrantedBeforeRun
<1>2. program \in Programs /\ program.out \in Nat /\ program.err \in Nat
  BY ScenarioAssumption DEF ExecutorInv, ProcessTypes, Programs
<1>3. /\ child' = [state |-> "run", program |-> program, out |-> program.out, err |-> program.err,
                   got |-> 0]
      /\ ran' = 1 /\ stdin' = [units |-> 0, open |-> TRUE]
      /\ writer' = [state |-> "writing", left |-> Message]
      /\ reader' = [x \in Streams |-> [state |-> "reading", chunk |-> 0, kept |-> 0]]
      /\ main' = "waiting" /\ call' = call /\ smoke' = smoke /\ pipe' = pipe /\ total' = total
      /\ exceeded' = exceeded /\ result' = result
  BY <1>1 DEF Spawn
<1> HIDE DEF program
<1>4. ProcessTypes'
  BY <1>2, <1>3, ProcessAssumption DEF ExecutorInv, ProcessTypes
<1>5. \A x \in Streams : Counted(x)' = 0
  BY <1>1, <1>2, <1>3 DEF Counted, Programmed, Streams
<1>6. "out" \in Streams /\ "err" \in Streams
  BY DEF Streams
<1>7. OutputIsConserved'
  BY <1>1, <1>3, <1>5, <1>6, ProcessAssumption DEF OutputIsConserved
<1>8. ReadersAreHonest' /\ GrantedBeforeRun'
  BY <1>1, <1>3 DEF ReadersAreHonest, GrantedBeforeRun
<1>9. ChildIsAsWaitedFor' /\ OutcomeIsEarned'
  BY <1>1, <1>3 DEF ExecutorInv, ChildIsAsWaitedFor, OutcomeIsEarned
<1>10. QED
  BY <1>4, <1>7, <1>8, <1>9 DEF ExecutorInv

\* A thread or the child takes a step: the command, its call and its result
\* stay where they are.
Elsewhere == main' = main /\ call' = call /\ smoke' = smoke /\ result' = result /\ ran' = ran

LEMMA WriteStep ==
  ASSUME ExecutorInv, Write
  PROVE  ExecutorInv'
<1>1. /\ Elsewhere /\ child' = child /\ pipe' = pipe /\ reader' = reader /\ total' = total
      /\ exceeded' = exceeded
  BY DEF Write, Elsewhere
<1>2. stdin' \in [units : Nat, open : BOOLEAN]
  <2>1. stdin \in [units : Nat, open : BOOLEAN]
    BY DEF ExecutorInv, ProcessTypes
  <2>2. stdin' = [stdin EXCEPT !.open = FALSE] \/ stdin' = [stdin EXCEPT !.units = @ + 1]
    BY DEF Write
  <2>3. CASE stdin' = [stdin EXCEPT !.open = FALSE]
    BY <2>1, <2>3
  <2>4. CASE stdin' = [stdin EXCEPT !.units = @ + 1]
    BY <2>1, <2>4
  <2>5. QED
    BY <2>2, <2>3, <2>4
<1>3. writer' \in [state : {"none", "writing", "done", "failed"}, left : Nat]
  BY DEF Write, ExecutorInv, ProcessTypes
<1>4. ProcessTypes'
  BY <1>1, <1>2, <1>3 DEF ExecutorInv, ProcessTypes, Elsewhere
<1>5. OutputIsConserved'
  BY <1>1, OutputUnchanged DEF Programmed
<1>6. QED
  BY <1>1, <1>4, <1>5 DEF ExecutorInv, ReadersAreHonest, ChildIsAsWaitedFor, GrantedBeforeRun,
     OutcomeIsEarned, Elsewhere

\* The readers run only while the command waits for its child or its threads.
LEMMA ReaderIsRunning ==
  ASSUME ExecutorInv, NEW x \in Streams, reader[x].state # "none"
  PROVE  main \notin {"none", "requested", "execute", "parked"}
  BY DEF ExecutorInv, ChildIsAsWaitedFor

\* What the output facts say, stream by stream.
LEMMA OutputFacts ==
  ASSUME ExecutorInv
  PROVE  /\ Streams = {"out", "err"}
         /\ \A x \in Streams :
              /\ Programmed(x) \in Nat /\ child[x] \in Nat /\ pipe[x] \in Nat
              /\ reader[x] \in [state : {"none", "reading", "read", "over", "done"},
                                chunk : Nat, kept : Nat]
              /\ Counted(x) \in Nat
         /\ total \in Nat /\ MaxOutput \in Nat
<1>1. /\ child.program.out \in Nat /\ child.program.err \in Nat
      /\ child["out"] \in Nat /\ child["err"] \in Nat
  BY DEF ExecutorInv, ProcessTypes, Programs
<1>2. \A x \in Streams : Programmed(x) \in Nat /\ child[x] \in Nat
  BY <1>1 DEF Programmed, Streams
<1>3. \A x \in Streams : /\ pipe[x] \in Nat
                         /\ reader[x] \in [state : {"none", "reading", "read", "over", "done"},
                                           chunk : Nat, kept : Nat]
  BY DEF ExecutorInv, ProcessTypes
<1>4. \A x \in Streams : Counted(x) \in Int /\ Counted(x) >= 0
  BY <1>2, <1>3 DEF Counted, ExecutorInv, OutputIsConserved
<1>5. total \in Nat /\ MaxOutput \in Nat
  BY ProcessAssumption DEF ExecutorInv, ProcessTypes
<1>6. QED
  BY <1>2, <1>3, <1>4, <1>5 DEF Streams

LEMMA ReadStep ==
  ASSUME ExecutorInv, NEW x \in Streams, Read(x)
  PROVE  ExecutorInv'
<1>1. /\ Elsewhere /\ child' = child /\ stdin' = stdin /\ writer' = writer /\ total' = total
      /\ exceeded' = exceeded
  BY DEF Read, Elsewhere
<1>2. reader[x].state = "reading" /\ reader[x].chunk = 0
  BY DEF Read, ExecutorInv, ReadersAreHonest
<1>3. main \notin {"none", "requested", "execute", "parked"}
  BY <1>2, ReaderIsRunning
<1>4. \/ /\ pipe[x] > 0 /\ pipe' = [pipe EXCEPT ![x] = 0]
         /\ reader' = [reader EXCEPT ![x] = [@ EXCEPT !.state = "read", !.chunk = pipe[x]]]
      \/ /\ ~(pipe[x] > 0) /\ child.state # "run" /\ pipe' = pipe
         /\ reader' = [reader EXCEPT ![x].state = "done"]
  BY DEF Read
<1>5. /\ \A y \in Streams : /\ pipe[y] \in Nat
                            /\ reader[y] \in [state : {"none", "reading", "read", "over", "done"},
                                              chunk : Nat, kept : Nat]
      /\ pipe \in [Streams -> Nat] /\ DOMAIN reader = Streams
  BY OutputFacts DEF ExecutorInv, ProcessTypes
<1> DEFINE held == [reader[x] EXCEPT !.state = "read", !.chunk = pipe[x]]
           ended == [reader[x] EXCEPT !.state = "done"]
<1>6. /\ \A y \in Streams : y # x => reader'[y] = reader[y] /\ pipe'[y] = pipe[y]
      /\ reader'[x].kept = reader[x].kept /\ pipe'[x] = 0
      /\ reader'[x].state # "over"
      /\ \/ reader'[x].state = "read" /\ reader'[x].chunk = pipe[x]
         \/ reader'[x].state = "done" /\ reader'[x].chunk = 0 /\ pipe[x] = 0 /\ child.state # "run"
      /\ pipe' \in [Streams -> Nat]
      /\ reader' \in [Streams -> [state : {"none", "reading", "read", "over", "done"},
                                  chunk : Nat, kept : Nat]]
  <2>1. /\ held \in [state : {"none", "reading", "read", "over", "done"}, chunk : Nat, kept : Nat]
        /\ held.kept = reader[x].kept /\ held.state = "read" /\ held.chunk = pipe[x]
        /\ ended \in [state : {"none", "reading", "read", "over", "done"}, chunk : Nat, kept : Nat]
        /\ ended.kept = reader[x].kept /\ ended.state = "done" /\ ended.chunk = reader[x].chunk
    BY <1>5
  <2>2. /\ pipe' \in [Streams -> Nat]
        /\ \A y \in Streams : y # x => pipe'[y] = pipe[y]
        /\ pipe'[x] = 0
    BY <1>4, <1>5
  <2>3. \/ reader' = [reader EXCEPT ![x] = held]
        \/ reader' = [reader EXCEPT ![x] = ended] /\ pipe[x] = 0 /\ child.state # "run"
    BY <1>4, <1>5
  <2> HIDE DEF held, ended
  <2>4. reader \in [Streams -> [state : {"none", "reading", "read", "over", "done"},
                               chunk : Nat, kept : Nat]]
    BY DEF ExecutorInv, ProcessTypes
  <2>5. /\ reader' \in [Streams -> [state : {"none", "reading", "read", "over", "done"},
                                  chunk : Nat, kept : Nat]]
        /\ \A y \in Streams : y # x => reader'[y] = reader[y]
        /\ reader'[x] = held \/ (reader'[x] = ended /\ pipe[x] = 0 /\ child.state # "run")
    <3>1. CASE reader' = [reader EXCEPT ![x] = held]
      BY <2>1, <2>4, <3>1
    <3>2. CASE reader' = [reader EXCEPT ![x] = ended] /\ pipe[x] = 0 /\ child.state # "run"
      BY <2>1, <2>4, <3>2
    <3>3. QED
      BY <2>3, <3>1, <3>2
  <2>6. QED
    BY <1>2, <2>1, <2>2, <2>5
<1>7. pipe' \in [Streams -> Nat]
      /\ reader' \in [Streams -> [state : {"none", "reading", "read", "over", "done"},
                                  chunk : Nat, kept : Nat]]
  BY <1>6
<1> HIDE DEF held, ended
<1>8. ProcessTypes'
  BY <1>1, <1>7 DEF ExecutorInv, ProcessTypes, Elsewhere
<1>9. \A y \in Streams : Counted(y)' = Counted(y)
  <2>1. \A y \in Streams : Programmed(y)' = Programmed(y) /\ Programmed(y) \in Nat /\ child[y] \in Nat
    BY <1>1, OutputFacts DEF Programmed
  <2>2. TAKE y \in Streams
  <2>3. QED
    BY <1>1, <1>2, <1>5, <1>6, <2>1 DEF Counted
<1>10. OutputIsConserved'
  <2>1. "out" \in Streams /\ "err" \in Streams
    BY DEF Streams
  <2>2. reader'["out"].kept = reader["out"].kept
    BY <1>6, <2>1
  <2>3. \A y \in Streams : reader[y].state = "over" => reader'[y].state = "over"
    BY <1>2, <1>6
  <2>4. QED
    BY <1>1, <1>9, <2>1, <2>2, <2>3 DEF ExecutorInv, OutputIsConserved
<1>11. ReadersAreHonest'
  BY <1>1, <1>6 DEF ExecutorInv, ReadersAreHonest
<1>12. ChildIsAsWaitedFor' /\ GrantedBeforeRun' /\ OutcomeIsEarned'
  BY <1>1, <1>3 DEF ExecutorInv, ChildIsAsWaitedFor, GrantedBeforeRun, OutcomeIsEarned, Elsewhere
<1>13. QED
  BY <1>8, <1>10, <1>11, <1>12 DEF ExecutorInv

LEMMA CountStep ==
  ASSUME ExecutorInv, NEW x \in Streams, Count(x)
  PROVE  ExecutorInv'
<1> DEFINE n == reader[x].chunk
           over == n > MaxOutput - total
<1>1. /\ Elsewhere /\ child' = child /\ stdin' = stdin /\ writer' = writer /\ pipe' = pipe
      /\ exceeded' = exceeded /\ total' = total + n
  BY DEF Count, Elsewhere
<1>2. reader[x].state = "read"
  BY DEF Count
<1>3. main \notin {"none", "requested", "execute", "parked"}
  BY <1>2, ReaderIsRunning
<1>4. /\ n \in Nat /\ reader[x].kept \in Nat /\ total \in Nat /\ MaxOutput \in Nat
      /\ DOMAIN reader = Streams
  BY OutputFacts DEF ExecutorInv, ProcessTypes
<1>5. Kept(total, n) \in Nat
  BY <1>4 DEF Kept
<1>6. /\ reader' = [reader EXCEPT ![x] = reader'[x]]
      /\ reader'[x] = [state |-> IF over THEN "over" ELSE "reading", chunk |-> 0,
                       kept |-> IF x = "out" THEN reader[x].kept + Kept(total, n) ELSE reader[x].kept]
  BY <1>4 DEF Count
<1>7. /\ \A y \in Streams : y # x => reader'[y] = reader[y]
      /\ reader'[x].chunk = 0 /\ reader'[x].state = IF over THEN "over" ELSE "reading"
      /\ reader'[x].kept = IF x = "out" THEN reader[x].kept + Kept(total, n) ELSE reader[x].kept
  BY <1>4, <1>6
<1>8. reader'[x] \in [state : {"none", "reading", "read", "over", "done"}, chunk : Nat, kept : Nat]
  BY <1>4, <1>5, <1>6
<1>9. reader' \in [Streams -> [state : {"none", "reading", "read", "over", "done"},
                               chunk : Nat, kept : Nat]]
  BY <1>6, <1>8 DEF ExecutorInv, ProcessTypes
<1>10. ProcessTypes'
  BY <1>1, <1>4, <1>9 DEF ExecutorInv, ProcessTypes, Elsewhere
<1>11. /\ \A y \in Streams : Counted(y) \in Nat /\ (y # x => Counted(y)' = Counted(y))
       /\ Counted(x)' = Counted(x) + n
  <2>1. \A y \in Streams : /\ Programmed(y)' = Programmed(y) /\ Programmed(y) \in Nat /\ child[y] \in Nat
                           /\ pipe[y] \in Nat /\ Counted(y) \in Nat
    BY <1>1, OutputFacts DEF Programmed
  <2>2. \A y \in Streams : y # x => Counted(y)' = Counted(y)
    BY <1>1, <1>7, <2>1 DEF Counted
  <2>3. Counted(x)' = Counted(x) + n
    BY <1>1, <1>4, <1>7, <2>1 DEF Counted
  <2>4. QED
    BY <2>1, <2>2, <2>3
<1>12. OutputIsConserved'
  <2>1. x \in {"out", "err"} /\ "out" \in Streams /\ "err" \in Streams
    BY DEF Streams
  <2>2. total' = Counted("out")' + Counted("err")'
    BY <1>1, <1>4, <1>11, <2>1 DEF ExecutorInv, OutputIsConserved
  <2>3. \A y \in Streams : Counted(y)' >= 0
    BY <1>4, <1>11
  <2>4. ASSUME total' <= MaxOutput PROVE reader'["out"].kept = Counted("out")'
    <3>1. total <= MaxOutput /\ Kept(total, n) = n
      BY <1>1, <1>4, <2>4 DEF Kept
    <3>2. reader["out"].kept = Counted("out")
      BY <3>1 DEF ExecutorInv, OutputIsConserved
    <3>3. QED
      BY <1>7, <1>11, <2>1, <3>1, <3>2
  <2>5. ASSUME total' > MaxOutput PROVE exceeded' \/ \E y \in Streams : reader'[y].state = "over"
    <3>1. over
      BY <1>1, <1>4, <2>5
    <3>2. QED
      BY <1>7, <3>1
  <2>6. QED
    BY <2>2, <2>3, <2>4, <2>5 DEF OutputIsConserved
<1>13. ReadersAreHonest'
  BY <1>1, <1>7 DEF ExecutorInv, ReadersAreHonest
<1>14. ChildIsAsWaitedFor' /\ GrantedBeforeRun' /\ OutcomeIsEarned'
  BY <1>1, <1>3 DEF ExecutorInv, ChildIsAsWaitedFor, GrantedBeforeRun, OutcomeIsEarned, Elsewhere
<1>15. QED
  BY <1>10, <1>12, <1>13, <1>14 DEF ExecutorInv

LEMMA AnnounceStep ==
  ASSUME ExecutorInv, NEW x \in Streams, Announce(x)
  PROVE  ExecutorInv'
<1>1. /\ Elsewhere /\ child' = child /\ stdin' = stdin /\ writer' = writer /\ pipe' = pipe
      /\ total' = total /\ exceeded' = TRUE /\ reader[x].state = "over"
      /\ reader' = [reader EXCEPT ![x].state = "reading"]
  BY DEF Announce, Elsewhere
<1>2. main \notin {"none", "requested", "execute", "parked"}
  BY <1>1, ReaderIsRunning
<1>3. /\ \A y \in Streams : reader[y] \in [state : {"none", "reading", "read", "over", "done"},
                                           chunk : Nat, kept : Nat]
      /\ DOMAIN reader = Streams
  BY OutputFacts DEF ExecutorInv, ProcessTypes
<1>4. /\ \A y \in Streams : y # x => reader'[y] = reader[y]
      /\ reader'[x].chunk = reader[x].chunk /\ reader'[x].kept = reader[x].kept
      /\ reader'[x].state = "reading"
  BY <1>1, <1>3
<1>5. reader' \in [Streams -> [state : {"none", "reading", "read", "over", "done"},
                               chunk : Nat, kept : Nat]]
  BY <1>1, <1>3 DEF ExecutorInv, ProcessTypes
<1>6. ProcessTypes'
  BY <1>1, <1>5 DEF ExecutorInv, ProcessTypes, Elsewhere
<1>7. \A y \in Streams : Counted(y)' = Counted(y)
  BY <1>1, <1>4 DEF Counted, Programmed
<1>8. "out" \in Streams /\ "err" \in Streams /\ reader'["out"].kept = reader["out"].kept
  BY <1>4 DEF Streams
<1>9. OutputIsConserved'
  BY <1>1, <1>7, <1>8 DEF ExecutorInv, OutputIsConserved
<1>10. ReadersAreHonest'
  BY <1>1, <1>4 DEF ExecutorInv, ReadersAreHonest
<1>11. ChildIsAsWaitedFor' /\ GrantedBeforeRun' /\ OutcomeIsEarned'
  BY <1>1, <1>2 DEF ExecutorInv, ChildIsAsWaitedFor, GrantedBeforeRun, OutcomeIsEarned, Elsewhere
<1>12. QED
  BY <1>6, <1>9, <1>10, <1>11 DEF ExecutorInv

\* The child, its descendant and its killing leave the readers alone.
LEMMA ChildLeavesReaders ==
  ASSUME ExecutorInv, Elsewhere, UNCHANGED <<writer, reader, total, exceeded>>,
         pipe' \in [Streams -> Nat], stdin' \in [units : Nat, open : BOOLEAN],
         child.state = "run", main # "done",
         child' \in [state : {"run", "exit0", "exit1"}, program : Programs,
                     out : Nat, err : Nat, got : Nat],
         \A x \in Streams : Programmed(x)' = Programmed(x) /\ child'[x] + pipe'[x] = child[x] + pipe[x],
         child'.state = "exit0" => child'.out = 0 /\ child'.err = 0
  PROVE  ExecutorInv'
<1>1. ProcessTypes'
  BY DEF ExecutorInv, ProcessTypes, Elsewhere
<1>2. main \notin {"none", "requested", "execute", "parked", "joining", "abandoned", "done"}
  <2>1. NoChild.state = "none"
    BY DEF NoChild
  <2>2. QED
    BY <2>1 DEF ExecutorInv, ChildIsAsWaitedFor
<1>3. \A x \in Streams : Counted(x)' = Counted(x)
  <2>1. \A x \in Streams : child'[x] \in Nat /\ pipe'[x] \in Nat
    BY DEF Streams
  <2>2. TAKE x \in Streams
  <2>3. /\ Programmed(x) \in Nat /\ child[x] \in Nat /\ pipe[x] \in Nat /\ reader[x].chunk \in Nat
        /\ reader' = reader
    BY OutputFacts
  <2>4. QED
    BY <2>1, <2>3 DEF Counted
<1>4. OutputIsConserved'
  BY <1>3 DEF ExecutorInv, OutputIsConserved, Streams
<1>5. \A x \in Streams : reader[x].state # "done"
  BY DEF ExecutorInv, ReadersAreHonest
<1>6. ReadersAreHonest'
  BY <1>5 DEF ExecutorInv, ReadersAreHonest
<1>7. ChildIsAsWaitedFor' /\ GrantedBeforeRun' /\ OutcomeIsEarned'
  <2>1. result.kind = "none"
    BY <1>2 DEF ExecutorInv, ChildIsAsWaitedFor
  <2>2. child'.state \in {"run", "exit0", "exit1"}
    OBVIOUS
  <2>3. QED
    BY <1>2, <2>1, <2>2 DEF ExecutorInv, ChildIsAsWaitedFor, GrantedBeforeRun, OutcomeIsEarned, Elsewhere
<1>8. QED
  BY <1>1, <1>4, <1>6, <1>7 DEF ExecutorInv

\* A running child, spelled out.
LEMMA RunningChild ==
  ASSUME ExecutorInv, child.state = "run"
  PROVE  /\ child \in [state : {"run", "exit0", "exit1"}, program : Programs,
                       out : Nat, err : Nat, got : Nat]
         /\ main # "done"
         /\ child.program \in Programs
         /\ stdin \in [units : Nat, open : BOOLEAN] /\ pipe \in [Streams -> Nat]
  BY DEF ExecutorInv, ProcessTypes, ChildIsAsWaitedFor

LEMMA ReadInputStep ==
  ASSUME ExecutorInv, ReadInput
  PROVE  ExecutorInv'
<1>1. /\ Elsewhere /\ UNCHANGED <<writer, reader, total, exceeded>> /\ pipe' = pipe
      /\ child.state = "run" /\ stdin' = [stdin EXCEPT !.units = 0]
      /\ child' = [child EXCEPT !.got = @ + stdin.units]
  BY DEF ReadInput, Elsewhere
<1>2. /\ child \in [state : {"run", "exit0", "exit1"}, program : Programs, out : Nat, err : Nat, got : Nat]
      /\ stdin \in [units : Nat, open : BOOLEAN] /\ pipe \in [Streams -> Nat] /\ main # "done"
  BY <1>1, RunningChild
<1>3. /\ child' \in [state : {"run", "exit0", "exit1"}, program : Programs,
                     out : Nat, err : Nat, got : Nat]
      /\ child'.state = "run" /\ child'.program = child.program
      /\ child'["out"] = child["out"] /\ child'["err"] = child["err"]
  BY <1>1, <1>2
<1>4. stdin' \in [units : Nat, open : BOOLEAN]
  BY <1>1, <1>2
<1>5. \A x \in Streams : Programmed(x)' = Programmed(x) /\ child'[x] + pipe'[x] = child[x] + pipe[x]
  BY <1>1, <1>3 DEF Programmed, Streams
<1>6. QED
  BY <1>1, <1>2, <1>3, <1>4, <1>5, ChildLeavesReaders

LEMMA WriteOutputStep ==
  ASSUME ExecutorInv, NEW x \in Streams, WriteOutput(x)
  PROVE  ExecutorInv'
<1>1. /\ Elsewhere /\ UNCHANGED <<writer, reader, total, exceeded>> /\ stdin' = stdin
      /\ child.state = "run" /\ child[x] > 0
      /\ child' = [child EXCEPT ![x] = @ - 1] /\ pipe' = [pipe EXCEPT ![x] = @ + 1]
  BY DEF WriteOutput, Elsewhere
<1>2. /\ child \in [state : {"run", "exit0", "exit1"}, program : Programs, out : Nat, err : Nat, got : Nat]
      /\ stdin \in [units : Nat, open : BOOLEAN] /\ pipe \in [Streams -> Nat] /\ main # "done"
  BY <1>1, RunningChild
<1>3. x \in {"out", "err"}
  BY DEF Streams
<1>4. /\ child' \in [state : {"run", "exit0", "exit1"}, program : Programs,
                     out : Nat, err : Nat, got : Nat]
      /\ child'.state = "run" /\ child'.program = child.program
      /\ child'[x] = child[x] - 1 /\ child[x] \in Nat
      /\ \A y \in {"out", "err"} : child[y] \in Nat /\ (y # x => child'[y] = child[y])
  BY <1>1, <1>2, <1>3
<1>5. /\ pipe' \in [Streams -> Nat] /\ pipe'[x] = pipe[x] + 1 /\ pipe[x] \in Nat
      /\ \A y \in Streams : pipe[y] \in Nat /\ (y # x => pipe'[y] = pipe[y])
  BY <1>1, <1>2
<1>6. \A y \in Streams : Programmed(y)' = Programmed(y) /\ child'[y] + pipe'[y] = child[y] + pipe[y]
  <2>1. \A y \in Streams : Programmed(y)' = Programmed(y)
    BY <1>4 DEF Programmed
  <2>2. \A y \in Streams : y \in {"out", "err"}
    BY DEF Streams
  <2>3. QED
    BY <1>4, <1>5, <2>1, <2>2
<1>7. QED
  BY <1>1, <1>2, <1>4, <1>5, <1>6, ChildLeavesReaders

LEMMA SpawnDescendantStep ==
  ASSUME ExecutorInv, SpawnDescendant
  PROVE  ExecutorInv'
<1>1. /\ Elsewhere /\ UNCHANGED <<writer, reader, total, exceeded>> /\ stdin' = stdin /\ pipe' = pipe
      /\ child.state = "run" /\ child' = [child EXCEPT !.program.spawns = FALSE]
  BY DEF SpawnDescendant, Elsewhere
<1>2. /\ child \in [state : {"run", "exit0", "exit1"}, program : Programs, out : Nat, err : Nat, got : Nat]
      /\ child.program \in Programs
      /\ stdin \in [units : Nat, open : BOOLEAN] /\ pipe \in [Streams -> Nat] /\ main # "done"
  BY <1>1, RunningChild
<1> DEFINE program == [child.program EXCEPT !.spawns = FALSE]
<1>3. program \in Programs /\ program.out = child.program.out /\ program.err = child.program.err
  BY <1>2 DEF Programs
<1>4. child' = [child EXCEPT !.program = program]
  BY <1>1, <1>2
<1> HIDE DEF program
<1>5. /\ child' \in [state : {"run", "exit0", "exit1"}, program : Programs,
                     out : Nat, err : Nat, got : Nat]
      /\ child'.state = "run" /\ child'.program = program
      /\ child'["out"] = child["out"] /\ child'["err"] = child["err"]
  BY <1>1, <1>2, <1>3, <1>4
<1>6. \A x \in Streams : Programmed(x)' = Programmed(x) /\ child'[x] + pipe'[x] = child[x] + pipe[x]
  BY <1>1, <1>3, <1>5 DEF Programmed, Streams
<1>7. QED
  BY <1>1, <1>2, <1>5, <1>6, ChildLeavesReaders

LEMMA ExitStep ==
  ASSUME ExecutorInv, Exit
  PROVE  ExecutorInv'
<1>1. /\ Elsewhere /\ UNCHANGED <<writer, reader, total, exceeded>> /\ stdin' = stdin /\ pipe' = pipe
      /\ child.state = "run" /\ child.out = 0 /\ child.err = 0
      /\ \/ child' = [child EXCEPT !.state = "exit1"] \/ child' = [child EXCEPT !.state = "exit0"]
  BY DEF Exit, Elsewhere
<1>2. /\ child \in [state : {"run", "exit0", "exit1"}, program : Programs, out : Nat, err : Nat, got : Nat]
      /\ stdin \in [units : Nat, open : BOOLEAN] /\ pipe \in [Streams -> Nat] /\ main # "done"
  BY <1>1, RunningChild
<1>3. /\ child' \in [state : {"run", "exit0", "exit1"}, program : Programs,
                     out : Nat, err : Nat, got : Nat]
      /\ child'.program = child.program /\ child'.out = child.out /\ child'.err = child.err
      /\ child'["out"] = child["out"] /\ child'["err"] = child["err"]
  BY <1>1, <1>2
<1>4. \A x \in Streams : Programmed(x)' = Programmed(x) /\ child'[x] + pipe'[x] = child[x] + pipe[x]
  BY <1>1, <1>3 DEF Programmed, Streams
<1>5. QED
  BY <1>1, <1>2, <1>3, <1>4, ChildLeavesReaders

LEMMA DescendantExitsStep ==
  ASSUME ExecutorInv, DescendantExits
  PROVE  ExecutorInv'
<1>1. /\ Elsewhere /\ child' = child /\ stdin' = stdin /\ pipe' = pipe /\ writer' = writer
      /\ reader' = reader /\ total' = total /\ exceeded' = exceeded
  BY DEF DescendantExits, Elsewhere
<1>2. OutputIsConserved'
  BY <1>1, OutputUnchanged DEF Programmed
<1>3. QED
  BY <1>1, <1>2 DEF ExecutorInv, ProcessTypes, ReadersAreHonest, ChildIsAsWaitedFor, GrantedBeforeRun,
     OutcomeIsEarned, Elsewhere

LEMMA TerminateStep ==
  ASSUME ExecutorInv, Terminate
  PROVE  ExecutorInv'
<1>1. /\ UNCHANGED <<call, smoke, stdin, pipe, writer, reader, total, exceeded, result, ran>>
      /\ main = "killing" /\ main' = "abandoned"
      /\ \/ child.state = "run" /\ child' = [child EXCEPT !.state = "killed"]
         \/ child.state # "run" /\ child' = child
  BY DEF Terminate
<1>2. child \in [state : {"none", "run", "killed", "exit0", "exit1"}, program : Programs,
                 out : Nat, err : Nat, got : Nat]
  BY DEF ExecutorInv, ProcessTypes
<1>3. /\ child' \in [state : {"none", "run", "killed", "exit0", "exit1"}, program : Programs,
                     out : Nat, err : Nat, got : Nat]
      /\ child'.program = child.program /\ child'.out = child.out /\ child'.err = child.err
      /\ child'["out"] = child["out"] /\ child'["err"] = child["err"]
      /\ child'.state # "run" /\ (child'.state = "killed" \/ child'.state = child.state)
  BY <1>1, <1>2
<1>4. ProcessTypes'
  BY <1>1, <1>3 DEF ExecutorInv, ProcessTypes
<1>5. \A x \in Streams : Programmed(x)' = Programmed(x) /\ child'[x] = child[x]
  BY <1>3 DEF Programmed, Streams
<1>6. OutputIsConserved'
  BY <1>1, <1>5, OutputUnchanged
<1>7. result.kind = "none"
  BY <1>1 DEF ExecutorInv, ProcessTypes, ChildIsAsWaitedFor
<1>8. ReadersAreHonest' /\ GrantedBeforeRun'
  BY <1>1, <1>3 DEF ExecutorInv, ReadersAreHonest, GrantedBeforeRun
<1>9. ChildIsAsWaitedFor' /\ OutcomeIsEarned'
  BY <1>1, <1>3, <1>7 DEF ExecutorInv, ChildIsAsWaitedFor, OutcomeIsEarned
<1>10. QED
  BY <1>4, <1>6, <1>8, <1>9 DEF ExecutorInv

\* The threads have ended before anything is classified, so a success has all
\* of its standard output, and a total past the limit was announced.
LEMMA ReturnStep ==
  ASSUME ExecutorInv, Return
  PROVE  ExecutorInv'
<1>1. /\ UNCHANGED <<call, smoke, child, descendant, stdin, pipe, writer, reader, total, exceeded, ran>>
      /\ main \in {"joining", "abandoned"} /\ main' = "done"
      /\ \A x \in Streams : reader[x].state = "done"
      /\ result' = [kind |-> classify_process,
                    output |-> IF classify_process = "Succeeded" THEN reader["out"].kept ELSE 0]
  BY DEF Return, Joined
<1>2. /\ child.state # "run" /\ (child.state = "exit0" => child.out = 0 /\ child.err = 0)
      /\ (main = "joining" => child.state \in {"exit0", "exit1"})
      /\ call = "ReconciliationRequired"
  BY <1>1 DEF ExecutorInv, ChildIsAsWaitedFor, GrantedBeforeRun
<1>3. "out" \in Streams /\ "err" \in Streams /\ reader["out"].kept \in Nat
  BY DEF Streams, ExecutorInv, ProcessTypes
<1>4. \A x \in Streams : Counted(x) = Programmed(x) - child[x] /\ Programmed(x) \in Nat /\ child[x] \in Nat
  <2>1. TAKE x \in Streams
  <2>2. pipe[x] = 0 /\ reader[x].chunk = 0
    BY <1>1 DEF ExecutorInv, ReadersAreHonest
  <2>3. Programmed(x) \in Nat /\ child[x] \in Nat
    BY OutputFacts
  <2>4. QED
    BY <2>2, <2>3 DEF Counted
<1>5. classify_process \in {"Succeeded", "Failed", "Ambiguous"}
  BY DEF classify_process
<1>6. classify_process = "Succeeded" => main = "joining" /\ exceeded # TRUE /\ child.state = "exit0"
  BY DEF classify_process
<1>7. classify_process = "Failed" => child.state = "exit1"
  BY <1>1, <1>2 DEF classify_process
<1>8. result'.kind = classify_process /\ result' \in [kind : {"none", "Failed", "Ambiguous", "Succeeded"}, output : Nat]
  BY <1>1, <1>3, <1>5
<1>9. ProcessTypes'
  BY <1>1, <1>8 DEF ExecutorInv, ProcessTypes
<1>10. OutputIsConserved'
  BY <1>1, OutputUnchanged DEF Programmed
<1>11. ReadersAreHonest' /\ GrantedBeforeRun'
  BY <1>1, <1>2 DEF ExecutorInv, ReadersAreHonest, GrantedBeforeRun
<1>12. ChildIsAsWaitedFor'
  BY <1>1, <1>2, <1>5, <1>8 DEF ExecutorInv, ChildIsAsWaitedFor
<1>13. ASSUME classify_process = "Succeeded"
       PROVE  /\ child.out = 0 /\ child.program.out + child.program.err <= MaxOutput
              /\ reader["out"].kept = child.program.out - child.out
  <2>1. child.out = 0 /\ child.err = 0 /\ child["out"] = 0 /\ child["err"] = 0
    BY <1>2, <1>6, <1>13
  <2>2. ~(total > MaxOutput)
    BY <1>1, <1>6, <1>13 DEF ExecutorInv, OutputIsConserved
  <2>3. total <= MaxOutput /\ total = Counted("out") + Counted("err")
    BY <2>2, OutputFacts DEF ExecutorInv, OutputIsConserved
  <2>4. reader["out"].kept = Counted("out")
    BY <2>3 DEF ExecutorInv, OutputIsConserved
  <2>5. Counted("out") = child.program.out /\ Counted("err") = child.program.err
        /\ child.program.out \in Nat /\ child.program.err \in Nat
    BY <1>3, <1>4, <2>1 DEF Programmed
  <2>6. QED
    BY <2>1, <2>3, <2>4, <2>5
<1>14. OutcomeIsEarned'
  <2>1. classify_process = "Succeeded" => result'.output = reader["out"].kept
    BY <1>1
  <2>2. QED
    BY <1>1, <1>6, <1>7, <1>8, <1>13, <2>1 DEF OutcomeIsEarned
<1>15. QED
  BY <1>9, <1>10, <1>11, <1>12, <1>14 DEF ExecutorInv

LEMMA ProcessStutter ==
  ASSUME ExecutorInv, UNCHANGED process_vars
  PROVE  ExecutorInv'
<1>1. UNCHANGED <<smoke, call, main, child, descendant, stdin, pipe, writer, reader, total,
                  exceeded, result, ran>>
  BY DEF process_vars
<1>2. OutputIsConserved'
  BY <1>1, OutputUnchanged DEF Programmed
<1>3. QED
  BY <1>1, <1>2 DEF ExecutorInv, ProcessTypes, ReadersAreHonest, ChildIsAsWaitedFor, GrantedBeforeRun,
     OutcomeIsEarned

\* ExecutorInv is an invariant of the local process executor.
THEOREM ExecutorInvariant == ProcessSpec => []ExecutorInv
<1>1. ExecutorInv /\ [ProcessNext]_process_vars => ExecutorInv'
  <2> SUFFICES ASSUME ExecutorInv, [ProcessNext]_process_vars PROVE ExecutorInv'
    OBVIOUS
  <2>1. "out" \in Streams /\ "err" \in Streams
    BY DEF Streams
  <2>2. CASE ChildSteps
    BY <2>1, <2>2, ReadInputStep, WriteOutputStep, SpawnDescendantStep, ExitStep, DescendantExitsStep
       DEF ChildSteps
  <2>3. CASE Start \/ GrantCall \/ RefuseCall \/ Park \/ NotStarted \/ SeeExit \/ GiveUp
    BY <2>3, CommandStep
  <2>4. CASE SettleCall \/ CommandDies
    BY <2>4, EndStep
  <2>5. CASE \E x \in Streams : Read(x) \/ Count(x) \/ Announce(x)
    BY <2>5, ReadStep, CountStep, AnnounceStep
  <2>6. CASE Uncontained \/ Spawn \/ Write \/ Terminate \/ Return
    BY <2>6, UncontainedStep, SpawnStep, WriteStep, TerminateStep, ReturnStep
  <2>7. CASE UNCHANGED process_vars
    BY <2>7, ProcessStutter
  <2>8. QED
    BY <2>2, <2>3, <2>4, <2>5, <2>6, <2>7 DEF ProcessNext
<1>2. QED
  BY <1>1, ExecutorInit, PTL DEF ProcessSpec

\* A success is of a child that exited well with all of its output within the
\* limit, a failure of one never started or ended badly by itself, and there
\* is one child over any number of commands and crashes (run_echo and
\* classify_process, local_process.rs).
THEOREM EffectsAreSettledAlways == ProcessSpec => []EffectsAreSettled
<1>1. ExecutorInv => EffectsAreSettled
  <2>1. SUFFICES ASSUME ExecutorInv PROVE EffectRunsOnce
    BY DEF EffectsAreSettled, ExecutorInv
  <2>2. QED
    BY <2>1 DEF ExecutorInv, ProcessTypes, GrantedBeforeRun, EffectRunsOnce
<1>2. QED
  BY <1>1, ExecutorInvariant, PTL
-----------------------------------------------------------------------------
(* The terminal's configuration.                                            *)

TConfigSpec == TConfigInit /\ [][TConfigNext]_tconfig_vars

\* A model value is no record: TLC's Nothing is not a draft.
NothingIsNoRecord == "document" \notin DOMAIN Nothing

EditorFields == {"object", "operation", "base", "document", "field", "dirty", "connection", "previewed"}
PanelFields == {"section", "pending", "selected", "detail", "group"}
EditorScreens == {"ConfigEditor", "ProviderWizard"}
Pages == EditorScreens \cup {"SlashPanel", "ConfigCenter", "ConfigObjectCreate",
                             "ModelDiscoveryDialect", "ModelSelector", "Stats"}

\* A revision names one document.
LayerInv ==
    /\ file.revision \in Nat /\ loaded.revision \in Nat /\ loaded.revision <= file.revision
    /\ loaded.revision = file.revision => loaded.document = file.document

\* A draft is of the layer that was loaded, and differs from it only if it is
\* marked so; the connection result beside it is of that draft.
IsDraft(e) ==
    /\ e = [f \in EditorFields |-> e[f]]
    /\ e.object[1] \in Kinds /\ e.field \in ToSet(Fields[e.object[1]])
    /\ e.dirty \in BOOLEAN
    /\ e.base = loaded.revision
    /\ ~e.dirty => e.document = loaded.document
    /\ e.connection # Nothing => e.connection = e.document

EditorInv ==
    IF editor = Nothing THEN page \in Pages \ EditorScreens
    ELSE page \in EditorScreens /\ IsDraft(editor)

\* What was chosen before an object is: its section and route, or its kind.
IsPanel(p) ==
    /\ p = [f \in PanelFields |-> p[f]]
    /\ p.pending # Nothing =>
          /\ p.section \in Kinds /\ p.pending[1] \in {"Edit", "Delete"}
          /\ p.pending[2] \in ToSet(Fields[p.section])
PromptInv ==
    page \in {"ConfigObjectCreate", "ModelDiscoveryDialect"} =>
        "kind" \in DOMAIN prompt /\ prompt.kind \in Kinds

\* A credential flow runs beside a committed draft.
CredInv ==
    cred # Nothing =>
        /\ editor # Nothing /\ editor.document = loaded.document
        /\ cred = [f \in {"step", "scope", "action", "input"} |-> cred[f]]
        /\ cred.step \in CredentialContexts

ConfigInv ==
    /\ LayerInv /\ EditorInv /\ IsPanel(panel) /\ PromptInv /\ CredInv
    /\ discarding \in BOOLEAN /\ open \in BOOLEAN
    /\ ~open => ~Unsaved
    /\ AppliedWasShown

\* What a step may not do with a draft, and with the credential vault.
PromisesKept ==
    /\ editor # Nothing /\ (Pending \/ editor.document # loaded.document)
       => /\ open'
          /\ editor' = Nothing =>
                \/ file'.document = Flushed.document
                \/ config_context \in {"Choice", "ConfigDeleteConfirmation", "DiscardConfirmation"}
          /\ editor' # Nothing /\ editor'.field # editor.field =>
                editor'.document = Flushed.document
    /\ dispatched' # dispatched /\ dispatched' # Nothing
       => dispatched'.scope = ScopeIn(loaded.document, editor.object)

TKeeps == ConfigInv' /\ PromisesKept

LEMMA DraftExcept ==
    ASSUME NEW w, w = [f \in EditorFields |-> w[f]], NEW g \in EditorFields, NEW value, NEW v,
           v = [w EXCEPT ![g] = value]
    PROVE  /\ v = [f \in EditorFields |-> v[f]]
           /\ v[g] = value /\ \A f \in EditorFields \ {g} : v[f] = w[f]
<1>1. DOMAIN w = EditorFields
  OBVIOUS
<1>2. v = [f \in EditorFields |-> IF f = g THEN value ELSE w[f]]
  BY <1>1
<1> QED
  BY <1>2

\* A draft is a record.
LEMMA DraftIsSomething ==
    ASSUME NothingIsNoRecord, NEW e, IsDraft(e)
    PROVE  e # Nothing
<1>1. DOMAIN e = EditorFields
  BY DEF IsDraft
<1> QED
  BY <1>1 DEF EditorFields, NothingIsNoRecord

\* A change is staged: the draft is dirty and nothing said of it still counts.
Changed(e, document) ==
    [e EXCEPT !.document = document, !.dirty = TRUE, !.previewed = Nothing, !.connection = Nothing]

LEMMA ChangedIsDraft ==
    ASSUME NEW e, IsDraft(e), NEW document
    PROVE  /\ IsDraft(Changed(e, document))
           /\ Changed(e, document).document = document
           /\ Changed(e, document).field = e.field
<1> DEFINE u == [e EXCEPT !["document"] = document]
           v == [u EXCEPT !["dirty"] = TRUE]
           w == [v EXCEPT !["previewed"] = Nothing]
           x == [w EXCEPT !["connection"] = Nothing]
<1>1. EditorFields = {"object", "operation", "base", "document", "field", "dirty", "connection",
                      "previewed"}
  BY DEF EditorFields
<1>2. e = [f \in EditorFields |-> e[f]]
  BY DEF IsDraft
<1>3. /\ u = [f \in EditorFields |-> u[f]]
      /\ u["document"] = document /\ \A f \in EditorFields \ {"document"} : u[f] = e[f]
  BY <1>1, <1>2, DraftExcept
<1>4. Changed(e, document) = x
  BY <1>1, <1>2 DEF Changed
<1> HIDE DEF u
<1>5. /\ v = [f \in EditorFields |-> v[f]]
      /\ v["dirty"] = TRUE /\ \A f \in EditorFields \ {"dirty"} : v[f] = u[f]
  BY <1>1, <1>3, DraftExcept
<1> HIDE DEF v
<1>6. /\ w = [f \in EditorFields |-> w[f]]
      /\ \A f \in EditorFields \ {"previewed"} : w[f] = v[f]
  BY <1>1, <1>5, DraftExcept
<1> HIDE DEF w
<1>7. /\ x = [f \in EditorFields |-> x[f]]
      /\ x["connection"] = Nothing /\ \A f \in EditorFields \ {"connection"} : x[f] = w[f]
  BY <1>1, <1>6, DraftExcept
<1> HIDE DEF x
<1>8. /\ x.document = document /\ x.dirty = TRUE /\ x.connection = Nothing
      /\ x.object = e.object /\ x.field = e.field /\ x.base = e.base
  BY <1>1, <1>3, <1>5, <1>6, <1>7
<1>9. IsDraft(x)
  BY <1>7, <1>8 DEF IsDraft
<1> QED
  BY <1>4, <1>8, <1>9

\* The focus moves to another field of the object.
LEMMA FocusedIsDraft ==
    ASSUME NEW e, IsDraft(e), NEW g \in ToSet(Fields[e.object[1]])
    PROVE  /\ IsDraft([e EXCEPT !.field = g])
           /\ [e EXCEPT !.field = g].document = e.document
<1> DEFINE u == [e EXCEPT !["field"] = g]
<1>1. EditorFields = {"object", "operation", "base", "document", "field", "dirty", "connection",
                      "previewed"}
  BY DEF EditorFields
<1>2. e = [f \in EditorFields |-> e[f]]
  BY DEF IsDraft
<1>3. /\ u = [f \in EditorFields |-> u[f]]
      /\ u["field"] = g /\ \A f \in EditorFields \ {"field"} : u[f] = e[f]
  BY <1>1, <1>2, DraftExcept
<1> HIDE DEF u
<1>4. /\ u.document = e.document /\ u.dirty = e.dirty /\ u.connection = e.connection
      /\ u.object = e.object /\ u.field = g /\ u.base = e.base
  BY <1>1, <1>3
<1>5. IsDraft(u)
  BY <1>3, <1>4 DEF IsDraft
<1> QED
  BY <1>4, <1>5 DEF u

\* The connection of a draft was tested.
LEMMA TestedIsDraft ==
    ASSUME NEW e, IsDraft(e)
    PROVE  /\ IsDraft([e EXCEPT !.connection = e.document])
           /\ [e EXCEPT !.connection = e.document].field = e.field
<1> DEFINE u == [e EXCEPT !["connection"] = e.document]
<1>1. EditorFields = {"object", "operation", "base", "document", "field", "dirty", "connection",
                      "previewed"}
  BY DEF EditorFields
<1>2. e = [f \in EditorFields |-> e[f]]
  BY DEF IsDraft
<1>3. /\ u = [f \in EditorFields |-> u[f]]
      /\ u["connection"] = e.document /\ \A f \in EditorFields \ {"connection"} : u[f] = e[f]
  BY <1>1, <1>2, DraftExcept
<1> HIDE DEF u
<1>4. /\ u.document = e.document /\ u.dirty = e.dirty /\ u.connection = e.document
      /\ u.object = e.object /\ u.field = e.field /\ u.base = e.base
  BY <1>1, <1>3
<1>5. IsDraft(u)
  BY <1>3, <1>4 DEF IsDraft
<1> QED
  BY <1>4, <1>5 DEF u

\* A draft that can be committed is of the layer as it is on the disk.
LEMMA PreviewedIsDraft ==
    ASSUME LayerInv, NEW e, IsDraft(e), Committable(e)
    PROVE  IsDraft(Previewed(e)) /\ Previewed(e).field = e.field
<1> DEFINE differs == e.document # file.document
           u == [e EXCEPT !["dirty"] = differs]
           v == [u EXCEPT !["previewed"] = e.document]
<1>1. EditorFields = {"object", "operation", "base", "document", "field", "dirty", "connection",
                      "previewed"}
  BY DEF EditorFields
<1>2. e = [f \in EditorFields |-> e[f]]
  BY DEF IsDraft
<1>0. Previewed(e) = v
  BY <1>1, <1>2 DEF Previewed
<1>a. loaded.document = file.document
  BY DEF LayerInv, IsDraft, Committable
<1>b. differs \in BOOLEAN /\ (~differs => e.document = loaded.document)
  BY <1>a
<1> HIDE DEF differs
<1>3. /\ u = [f \in EditorFields |-> u[f]]
      /\ u["dirty"] = differs /\ \A f \in EditorFields \ {"dirty"} : u[f] = e[f]
  BY <1>1, <1>2, DraftExcept
<1> HIDE DEF u
<1>4. /\ v = [f \in EditorFields |-> v[f]]
      /\ \A f \in EditorFields \ {"previewed"} : v[f] = u[f]
  BY <1>1, <1>3, DraftExcept
<1> HIDE DEF v
<1>5. /\ v.document = e.document /\ v.dirty = differs /\ v.connection = e.connection
      /\ v.object = e.object /\ v.field = e.field /\ v.base = e.base
  BY <1>1, <1>3, <1>4
<1>6. IsDraft(v)
  BY <1>4, <1>5, <1>b DEF IsDraft
<1> QED
  BY <1>0, <1>5, <1>6

\* The pending text is staged first.
LEMMA FlushedIsDraft ==
    ASSUME IsDraft(editor)
    PROVE  IsDraft(Flushed) /\ Flushed.field = editor.field
<1>1. CASE Pending
  <2> DEFINE d == PutValue(editor.document, Here(editor), typed.value)
  <2>1. Flushed = Changed(editor, d)
    BY <1>1, Zenon DEF Flushed, Changed
  <2> HIDE DEF d
  <2> QED
    BY <2>1, ChangedIsDraft
<1>2. CASE ~Pending
  BY <1>2 DEF Flushed
<1> QED
  BY <1>1, <1>2

\* A session starts on the first field of its object.
LEMMA SessionIsDraft ==
    ASSUME NEW object, object[1] \in Kinds, NEW operation, NEW document, NEW dirty \in BOOLEAN,
           ~dirty => document = loaded.document
    PROVE  /\ IsDraft(Session(object, operation, document, dirty))
           /\ Session(object, operation, document, dirty).object = object
<1> DEFINE k == object[1]
<1>1. Fields[k] \in Seq(DOMAIN Interaction) /\ Fields[k] # <<>>
  BY TerminalConfigAssumption
<1>2. 1 \in DOMAIN Fields[k]
  BY <1>1
<1>3. Fields[k][1] \in ToSet(Fields[k])
  BY <1>2 DEF ToSet
<1> QED
  BY <1>3 DEF Session, IsDraft, EditorFields

-----------------------------------------------------------------------------
\* The context a key is pressed in tells what is open.
ConfigContexts ==
    PanelContexts \cup CredentialContexts
        \cup {"Other", "Choice", "Text", "Deferred", "Credential", "DiscardConfirmation",
              "ConfigDeleteConfirmation"}

LEMMA ContextTells ==
    ASSUME ConfigInv
    PROVE  /\ config_context \in ConfigContexts
           /\ config_context \in PanelContexts \cup {"Other"} => editor = Nothing /\ cred = Nothing
           /\ config_context \in PanelContexts \ {"ConfigObject"} => page = config_context
           /\ config_context = "ConfigObject" => page = "ConfigCenter" /\ panel.pending # Nothing
           /\ config_context \in CredentialContexts => cred # Nothing
           /\ config_context \in {"Choice", "Text", "Deferred", "Credential", "ConfigDeleteConfirmation"}
                  => editor # Nothing /\ cred = Nothing
           /\ config_context = "DiscardConfirmation" => cred = Nothing
<1>1. CASE cred # Nothing
  <2>1. config_context = cred.step
    BY <1>1 DEF config_context
  <2> QED
    BY <1>1, <2>1 DEF ConfigInv, CredInv, CredentialContexts, PanelContexts, ConfigContexts
<1>2. CASE cred = Nothing /\ discarding
  <2>1. config_context = "DiscardConfirmation"
    BY <1>2 DEF config_context
  <2> QED
    BY <1>2, <2>1 DEF CredentialContexts, PanelContexts, ConfigContexts
<1>3. CASE cred = Nothing /\ ~discarding /\ editor # Nothing
  <2>1. editor.field \in DOMAIN Interaction
    <3> DEFINE s == Fields[editor.object[1]]
    <3>1. s \in Seq(DOMAIN Interaction) /\ editor.field \in ToSet(s)
      BY <1>3, TerminalConfigAssumption DEF ConfigInv, EditorInv, IsDraft
    <3> HIDE DEF s
    <3> QED
      BY <3>1 DEF ToSet
  <2>2. Interaction[editor.field] \in {"Choice", "Text", "Deferred", "Credential"}
    BY <2>1, TerminalConfigAssumption
  <2>3. config_context = IF editor.operation = "Delete" THEN "ConfigDeleteConfirmation"
                         ELSE Interaction[editor.field]
    BY <1>3 DEF config_context, ConfigInv, EditorInv, EditorScreens
  <2> QED
    BY <1>3, <2>2, <2>3 DEF CredentialContexts, PanelContexts, ConfigContexts
<1>4. CASE cred = Nothing /\ ~discarding /\ editor = Nothing /\ page = "ConfigCenter"
  <2>1. config_context = IF panel.pending # Nothing THEN "ConfigObject" ELSE "Other"
    BY <1>4 DEF config_context
  <2> QED
    BY <1>4, <2>1 DEF CredentialContexts, PanelContexts, ConfigContexts
<1>5. CASE cred = Nothing /\ ~discarding /\ editor = Nothing /\ page # "ConfigCenter"
  <2>1. config_context = page
    BY <1>5 DEF config_context
  <2>2. page \in {"SlashPanel", "ConfigObjectCreate", "ModelDiscoveryDialect", "ModelSelector", "Stats"}
    BY <1>5 DEF ConfigInv, EditorInv, Pages, EditorScreens
  <2> QED
    BY <1>5, <2>1, <2>2 DEF CredentialContexts, PanelContexts, ConfigContexts
<1>6. discarding \in BOOLEAN
  BY DEF ConfigInv
<1> QED
  BY <1>1, <1>2, <1>3, <1>4, <1>5, <1>6

\* What is lost by leaving is unsaved.
LEMMA LossIsUnsaved ==
    ASSUME ConfigInv, editor # Nothing, Pending \/ editor.document # loaded.document
    PROVE  Unsaved
BY DEF ConfigInv, EditorInv, IsDraft, Pending, Unsaved

-----------------------------------------------------------------------------
(* Kinds of steps.                                                          *)

\* The draft changes in place.
LEMMA EditingKeeps ==
    ASSUME NothingIsNoRecord, ConfigInv, editor # Nothing, cred = Nothing, open,
           IsDraft(editor'), editor'.field = editor.field \/ editor'.document = Flushed.document,
           UNCHANGED <<file, loaded, page, prompt, cred, dispatched, applied, open>>,
           IsPanel(panel'), discarding' \in BOOLEAN
    PROVE  TKeeps
<1>1. editor' # Nothing
  BY DraftIsSomething
<1>2. EditorInv'
  BY <1>1 DEF ConfigInv, EditorInv, IsDraft
<1>3. LayerInv' /\ IsPanel(panel)' /\ PromptInv' /\ CredInv'
  BY DEF ConfigInv, LayerInv, IsPanel, PromptInv, CredInv
<1>4. AppliedWasShown'
  BY DEF ConfigInv, AppliedWasShown
<1>5. ConfigInv'
  BY <1>2, <1>3, <1>4 DEF ConfigInv
<1>6. PromisesKept
  BY <1>1 DEF PromisesKept
<1> QED
  BY <1>5, <1>6 DEF TKeeps

\* The editor closes, or nothing was open.
LEMMA LeavingKeeps ==
    ASSUME NothingIsNoRecord, ConfigInv, cred = Nothing, open,
           \/ editor = Nothing \/ ~Unsaved
           \/ file'.document = Flushed.document
           \/ config_context \in {"Choice", "ConfigDeleteConfirmation", "DiscardConfirmation"},
           Closed, LayerInv', discarding' \in BOOLEAN,
           UNCHANGED <<cred, dispatched, applied, open>>
    PROVE  TKeeps
<1>1. EditorInv' /\ PromptInv'
  BY DEF Closed, EditorInv, PromptInv, Pages, EditorScreens
<1>2. IsPanel(panel)'
  BY DEF Closed, IsPanel, NoPanel, PanelFields
<1>3. CredInv'
  BY DEF CredInv
<1>4. AppliedWasShown'
  BY DEF ConfigInv, AppliedWasShown
<1>5. ConfigInv'
  BY <1>1, <1>2, <1>3, <1>4 DEF ConfigInv
<1>6. PromisesKept
  BY LossIsUnsaved DEF PromisesKept, Closed
<1> QED
  BY <1>5, <1>6 DEF TKeeps

\* Nothing is being edited yet.
LEMMA PanelKeeps ==
    ASSUME ConfigInv, editor = Nothing, cred = Nothing, open,
           EditorInv', LayerInv', IsPanel(panel'), PromptInv', AppliedWasShown',
           discarding' \in BOOLEAN, UNCHANGED <<cred, dispatched, open>>
    PROVE  TKeeps
<1>1. CredInv' /\ IsPanel(panel)'
  BY DEF CredInv, IsPanel
<1>2. ConfigInv'
  BY <1>1 DEF ConfigInv
<1>3. PromisesKept
  BY DEF PromisesKept
<1> QED
  BY <1>2, <1>3 DEF TKeeps

\* The credential flow goes on beside an unchanged draft.
LEMMA CredentialKeeps ==
    ASSUME ConfigInv, open, editor # Nothing, editor.document = loaded.document, Editing,
           UNCHANGED dispatched \/ dispatched' = Nothing \/ dispatched'.scope = current_credential_scope,
           \/ cred' = Nothing
           \/ /\ cred' = [f \in {"step", "scope", "action", "input"} |-> cred'[f]]
              /\ cred'.step \in CredentialContexts
    PROVE  TKeeps
<1>1. UNCHANGED <<file, loaded, shown, page, panel, prompt, editor, applied, open, typed, discarding>>
  BY DEF Editing, SameTexts, Disk
<1>2. EditorInv' /\ LayerInv' /\ IsPanel(panel)' /\ PromptInv' /\ AppliedWasShown'
  BY <1>1 DEF ConfigInv, EditorInv, IsDraft, LayerInv, IsPanel, PromptInv, AppliedWasShown
<1>3. CredInv'
  BY <1>1 DEF CredInv
<1>4. ConfigInv'
  BY <1>1, <1>2, <1>3 DEF ConfigInv
<1>5. PromisesKept
  BY <1>1 DEF PromisesKept, current_credential_scope
<1> QED
  BY <1>4, <1>5 DEF TKeeps

-----------------------------------------------------------------------------
(* The panels.                                                              *)

LEMMA PanelExcept ==
    ASSUME NEW w, IsPanel(w), NEW g \in PanelFields \ {"section", "pending"}, NEW value
    PROVE  IsPanel([w EXCEPT ![g] = value])
<1> DEFINE v == [w EXCEPT ![g] = value]
<1>1. w = [f \in PanelFields |-> w[f]] /\ DOMAIN w = PanelFields
  BY DEF IsPanel
<1>2. v = [f \in PanelFields |-> IF f = g THEN value ELSE w[f]]
  BY <1>1
<1>3. "section" \in PanelFields \ {g} /\ "pending" \in PanelFields \ {g}
  BY DEF PanelFields
<1> HIDE DEF v
<1>4. v = [f \in PanelFields |-> v[f]] /\ v["section"] = w["section"] /\ v["pending"] = w["pending"]
  BY <1>2, <1>3
<1>5. IsPanel(v)
  BY <1>4 DEF IsPanel
<1> QED
  BY <1>5 DEF v

LEMMA NoPanelIsPanel == IsPanel(NoPanel)
BY DEF NoPanel, IsPanel, PanelFields

\* Only the panel changes.
LEMMA TurningKeeps ==
    ASSUME ConfigInv, editor = Nothing, cred = Nothing, open, IsPanel(panel'),
           UNCHANGED <<page, prompt, editor>>, SameTexts, Disk, Outside
    PROVE  TKeeps
<1>1. EditorInv' /\ LayerInv' /\ PromptInv' /\ AppliedWasShown' /\ discarding' \in BOOLEAN
  BY DEF ConfigInv, EditorInv, LayerInv, PromptInv, AppliedWasShown, SameTexts, Disk, Outside
<1>2. UNCHANGED <<cred, dispatched, open>>
  BY DEF Outside
<1> QED
  BY <1>1, <1>2, PanelKeeps

LEMMA MovingKeeps ==
    ASSUME ConfigInv, editor = Nothing, cred = Nothing, open, NEW event,
           \/ MoveConfigObjectSelection(event) \/ MovePanelGroup(event)
           \/ MovePanelSelection(event) \/ TogglePanelDetail
    PROVE  TKeeps
<1>1. IsPanel(panel)
  BY DEF ConfigInv
<1>2. {"selected", "detail", "group"} \subseteq PanelFields \ {"section", "pending"}
  BY DEF PanelFields
<1>3. CASE MoveConfigObjectSelection(event)
  <2> DEFINE n == Clamp(panel.selected + Step(event), Len(Listed))
  <2>1. panel' = [panel EXCEPT !["selected"] = n]
    BY <1>3, Zenon DEF MoveConfigObjectSelection
  <2> HIDE DEF n
  <2>2. IsPanel([panel EXCEPT !["selected"] = n])
    BY <1>1, <1>2, PanelExcept
  <2>3. IsPanel(panel')
    BY <2>1, <2>2
  <2> QED
    BY <1>3, <2>3, TurningKeeps DEF MoveConfigObjectSelection
<1>4. CASE MovePanelGroup(event)
  <2> DEFINE n == (panel.group + Step(event)) % GroupCount
             u == [panel EXCEPT !["group"] = n]
             v == [u EXCEPT !["selected"] = 0]
             w == [v EXCEPT !["detail"] = FALSE]
  <2>0. DOMAIN panel = PanelFields
    BY <1>1 DEF IsPanel
  <2>1. panel' = w
    BY <1>4, <2>0, <1>2 DEF MovePanelGroup
  <2>2. IsPanel(u)
    <3> HIDE DEF n
    <3> QED
      BY <1>1, <1>2, PanelExcept
  <2> HIDE DEF u
  <2>3. IsPanel(v)
    BY <1>2, <2>2, PanelExcept
  <2> HIDE DEF v
  <2>4. IsPanel(w)
    BY <1>2, <2>3, PanelExcept
  <2>5. IsPanel(panel')
    BY <2>1, <2>4
  <2> QED
    BY <1>4, <2>5, TurningKeeps DEF MovePanelGroup
<1>5. CASE MovePanelSelection(event)
  <2> DEFINE n == Clamp(panel.selected + Step(event), RowCount)
             u == [panel EXCEPT !["selected"] = n]
             w == [u EXCEPT !["detail"] = FALSE]
  <2>0. DOMAIN panel = PanelFields
    BY <1>1 DEF IsPanel
  <2>1. panel' = w
    <3>1. panel' = [panel EXCEPT !.selected = n, !.detail = FALSE]
      BY <1>5, Zenon DEF MovePanelSelection
    <3> HIDE DEF n
    <3> QED
      BY <3>1, <2>0, <1>2
  <2>2. IsPanel(u)
    <3> HIDE DEF n
    <3> QED
      BY <1>1, <1>2, PanelExcept
  <2> HIDE DEF u
  <2>3. IsPanel(w)
    BY <1>2, <2>2, PanelExcept
  <2>4. IsPanel(panel')
    BY <2>1, <2>3
  <2> QED
    BY <1>5, <2>4, TurningKeeps DEF MovePanelSelection
<1>6. CASE TogglePanelDetail
  <2> DEFINE d == IF page = "Stats" THEN ~panel.detail ELSE TRUE
  <2>1. panel' = [panel EXCEPT !["detail"] = d]
    BY <1>6, Zenon DEF TogglePanelDetail
  <2> HIDE DEF d
  <2>2. IsPanel([panel EXCEPT !["detail"] = d])
    BY <1>1, <1>2, PanelExcept
  <2>3. IsPanel(panel')
    BY <2>1, <2>2
  <2> QED
    BY <1>6, <2>3, TurningKeeps DEF TogglePanelDetail
<1> QED
  BY <1>3, <1>4, <1>5, <1>6

\* A route of the slash panel.
LEMMA ActivateConfigKeeps ==
    ASSUME ConfigInv, editor = Nothing, cred = Nothing, open, page = "SlashPanel", ActivateConfig
    PROVE  TKeeps
<1> DEFINE Screen(at) ==
              /\ page' = at
              /\ panel' = [NoPanel EXCEPT !.group = IF at = "ModelSelector" THEN 3 ELSE 0]
              /\ UNCHANGED <<prompt, editor>>
           Route(k, route, f) ==
              /\ route = "Delete" => f = Fields[k][1]
              /\ panel' = [NoPanel EXCEPT !.section = k, !.pending = <<route, f>>]
           Named(k) == prompt' = [kind |-> k, id |-> Nothing, starter |-> Nothing]
<1>0. \/ /\ \E at \in {"ModelSelector", "Stats", "ConfigCenter"} : Screen(at)
         /\ SyncText /\ Disk
         /\ applied' = Nothing /\ UNCHANGED <<cred, dispatched, open>>
      \/ /\ \E k \in Kinds : Named(k)
         /\ page' = "ConfigObjectCreate" /\ UNCHANGED <<panel, editor>>
         /\ SyncText /\ Disk /\ Outside
      \/ /\ \E k \in Kinds, route \in {"Edit", "Delete"} : \E f \in ToSet(Fields[k]) : Route(k, route, f)
         /\ page' = "ConfigCenter" /\ UNCHANGED <<prompt, editor>>
         /\ SyncText /\ Disk /\ Outside
  BY Zenon DEF ActivateConfig
<1>1. ASSUME NEW at \in {"ModelSelector", "Stats", "ConfigCenter"}, Screen(at),
             SyncText, Disk, applied' = Nothing, UNCHANGED <<cred, dispatched, open>>
      PROVE  TKeeps
  <2>1. IsPanel(panel')
    <3> DEFINE n == IF at = "ModelSelector" THEN 3 ELSE 0
    <3>1. panel' = [NoPanel EXCEPT !["group"] = n] /\ "group" \in PanelFields \ {"section", "pending"}
      BY <1>1 DEF PanelFields
    <3> HIDE DEF n
    <3>2. IsPanel([NoPanel EXCEPT !["group"] = n])
      BY <3>1, NoPanelIsPanel, PanelExcept
    <3> QED
      BY <3>1, <3>2
  <2>2. EditorInv' /\ PromptInv' /\ LayerInv' /\ AppliedWasShown' /\ discarding' \in BOOLEAN
    BY <1>1 DEF EditorInv, PromptInv, Pages, EditorScreens, ConfigInv, LayerInv, AppliedWasShown,
                SyncText, Disk
  <2> QED
    BY <1>1, <2>1, <2>2, PanelKeeps
<1>2. ASSUME NEW k \in Kinds, Named(k), page' = "ConfigObjectCreate", UNCHANGED <<panel, editor>>,
             SyncText, Disk, Outside
      PROVE  TKeeps
  <2>1. prompt' = [kind |-> k, id |-> Nothing, starter |-> Nothing]
    BY <1>2
  <2>2. PromptInv'
    BY <2>1 DEF PromptInv
  <2>3. EditorInv' /\ LayerInv' /\ AppliedWasShown' /\ discarding' \in BOOLEAN /\ IsPanel(panel')
    BY <1>2 DEF EditorInv, Pages, EditorScreens, ConfigInv, LayerInv, AppliedWasShown,
                SyncText, Disk, Outside
  <2> QED
    BY <1>2, <2>2, <2>3, PanelKeeps DEF Outside
<1>3. ASSUME NEW k \in Kinds, NEW route \in {"Edit", "Delete"}, NEW f \in ToSet(Fields[k]),
             Route(k, route, f), page' = "ConfigCenter", UNCHANGED <<prompt, editor>>,
             SyncText, Disk, Outside
      PROVE  TKeeps
  <2>1. panel' = [section |-> k, pending |-> <<route, f>>, selected |-> 0, detail |-> FALSE, group |-> 0]
    BY <1>3 DEF NoPanel
  <2>2. IsPanel(panel')
    BY <2>1 DEF IsPanel, PanelFields
  <2>3. EditorInv' /\ PromptInv' /\ LayerInv' /\ AppliedWasShown' /\ discarding' \in BOOLEAN
    BY <1>3 DEF EditorInv, PromptInv, Pages, EditorScreens, ConfigInv, LayerInv, AppliedWasShown,
                SyncText, Disk, Outside
  <2> QED
    BY <1>3, <2>2, <2>3, PanelKeeps DEF Outside
<1> HIDE DEF Screen, Route, Named
<1> QED
  BY <1>0, <1>1, <1>2, <1>3, Zenon

\* An editor opens on what was chosen.
LEMMA OpenedKeeps ==
    ASSUME NothingIsNoRecord, ConfigInv, editor = Nothing, cred = Nothing, open,
           NEW e, IsDraft(e), editor' = e, page' \in EditorScreens, panel' = NoPanel,
           Disk, Outside, SyncText
    PROVE  TKeeps
<1>1. e # Nothing
  BY DraftIsSomething
<1>2. EditorInv' /\ PromptInv'
  BY <1>1 DEF EditorInv, PromptInv, IsDraft, Disk, EditorScreens
<1>3. LayerInv' /\ AppliedWasShown' /\ discarding' \in BOOLEAN
  BY DEF ConfigInv, LayerInv, AppliedWasShown, Disk, Outside, SyncText
<1>4. IsPanel(panel') /\ UNCHANGED <<cred, dispatched, open>>
  BY NoPanelIsPanel DEF Outside
<1> QED
  BY <1>2, <1>3, <1>4, PanelKeeps

LEMMA NotedIsDraft ==
    ASSUME NEW e, IsDraft(e), NEW value
    PROVE  IsDraft([e EXCEPT !.previewed = value])
<1> DEFINE u == [e EXCEPT !["previewed"] = value]
<1>1. EditorFields = {"object", "operation", "base", "document", "field", "dirty", "connection",
                      "previewed"}
  BY DEF EditorFields
<1>2. e = [f \in EditorFields |-> e[f]]
  BY DEF IsDraft
<1>3. u = [f \in EditorFields |-> u[f]] /\ \A f \in EditorFields \ {"previewed"} : u[f] = e[f]
  BY <1>1, <1>2, DraftExcept
<1> HIDE DEF u
<1>4. /\ u.document = e.document /\ u.dirty = e.dirty /\ u.connection = e.connection
      /\ u.object = e.object /\ u.field = e.field /\ u.base = e.base
  BY <1>1, <1>3
<1>5. IsDraft(u)
  BY <1>3, <1>4 DEF IsDraft
<1> QED
  BY <1>5 DEF u

LEMMA ActivateConfigObjectKeeps ==
    ASSUME NothingIsNoRecord, ConfigInv, editor = Nothing, cred = Nothing, open,
           panel.pending # Nothing, ActivateConfigObject
    PROVE  TKeeps
<1> DEFINE object == <<panel.section, Listed[panel.selected + 1]>>
           route == panel.pending[1]
           f == panel.pending[2]
<1>1. /\ object[1] = panel.section /\ object[1] \in Kinds /\ route \in {"Edit", "Delete"}
      /\ f \in ToSet(Fields[object[1]])
  BY DEF ConfigInv, IsPanel
<1>2. \/ OpenRoute(route, object, f) /\ SyncText
      \/ Closed /\ SameTexts
  BY Zenon DEF ActivateConfigObject
<1>3. Disk /\ Outside
  BY DEF ActivateConfigObject
<1> HIDE DEF object, route, f
<1>4. CASE Closed /\ SameTexts
  <2>1. LayerInv' /\ discarding' \in BOOLEAN
    BY <1>3, <1>4 DEF ConfigInv, LayerInv, Disk, SameTexts
  <2> QED
    BY <1>3, <1>4, <2>1, LeavingKeeps DEF Outside
<1>5. CASE OpenRoute(route, object, f) /\ SyncText /\ route = "Edit"
  <2> DEFINE s == Session(object, "Edit", loaded.document, FALSE)
             t == [s EXCEPT !.field = f]
             e == [t EXCEPT !.previewed = loaded.document]
  <2>1. IsDraft(s) /\ s.object = object
    BY <1>1, SessionIsDraft
  <2>2. Opened(e)
    <3>1. Opened([s EXCEPT !.field = f, !.previewed = loaded.document])
      BY <1>5 DEF OpenRoute
    <3>2. e = [s EXCEPT !.field = f, !.previewed = loaded.document]
      OBVIOUS
    <3> QED
      BY <3>1, <3>2
  <2> HIDE DEF s
  <2>3. IsDraft(t)
    BY <1>1, <2>1, FocusedIsDraft
  <2> HIDE DEF t
  <2>4. IsDraft(e)
    BY <2>3, NotedIsDraft
  <2> HIDE DEF e
  <2>5. editor' = e /\ page' \in EditorScreens /\ panel' = NoPanel
    BY <2>2 DEF Opened, EditorScreen, EditorScreens
  <2> QED
    BY <1>3, <1>5, <2>4, <2>5, OpenedKeeps
<1>6. CASE OpenRoute(route, object, f) /\ SyncText /\ route = "Delete"
  <2> DEFINE d == Without(loaded.document, {Path(object, g) : g \in ToSet(Fields[object[1]])})
             e == Session(object, "Delete", d, TRUE)
  <2>1. IsDraft(e)
    <3> HIDE DEF d
    <3> QED
      BY <1>1, SessionIsDraft
  <2>2. editor' = e /\ page' = "ConfigEditor" /\ panel' = NoPanel
    BY <1>6 DEF OpenRoute
  <2> HIDE DEF e
  <2> QED
    BY <1>3, <1>6, <2>1, <2>2, OpenedKeeps DEF EditorScreens
<1> QED
  BY <1>1, <1>2, <1>4, <1>5, <1>6

LEMMA EditConfigObjectIdKeeps ==
    ASSUME ConfigInv, editor = Nothing, cred = Nothing, open,
           page = "ConfigObjectCreate", EditConfigObjectId
    PROVE  TKeeps
<1>1. PICK i \in ToSet(Ids) \cup {Nothing} : prompt' = [prompt EXCEPT !.id = i]
  BY DEF EditConfigObjectId
<1>2. "kind" \in DOMAIN prompt /\ prompt.kind \in Kinds
  BY DEF ConfigInv, PromptInv
<1>3. "kind" \in DOMAIN prompt' /\ prompt'.kind = prompt.kind
  BY <1>1, <1>2
<1>4. UNCHANGED <<page, panel, editor>> /\ SameTexts /\ Disk /\ Outside
  BY DEF EditConfigObjectId
<1>5. PromptInv' /\ EditorInv' /\ LayerInv' /\ AppliedWasShown' /\ discarding' \in BOOLEAN
  BY <1>2, <1>3, <1>4 DEF ConfigInv, PromptInv, EditorInv, LayerInv, AppliedWasShown, SameTexts, Disk, Outside
<1> QED
  BY <1>4, <1>5, PanelKeeps DEF ConfigInv, Outside

LEMMA SubmitConfigObjectIdKeeps ==
    ASSUME NothingIsNoRecord, ConfigInv, editor = Nothing, cred = Nothing, open,
           page = "ConfigObjectCreate", SubmitConfigObjectId
    PROVE  TKeeps
<1> DEFINE object == <<prompt.kind, prompt.id>>
<1>1. object[1] \in Kinds
  BY DEF ConfigInv, PromptInv
<1>2. \/ Opened(Session(object, "Create", loaded.document, FALSE))
      \/ Opened(Session(object, "Create", Started(object), TRUE))
      \/ page' = "ModelDiscoveryDialect" /\ panel' = NoPanel /\ UNCHANGED <<prompt, editor>>
  BY Zenon DEF SubmitConfigObjectId
<1>3. SyncText /\ Disk /\ Outside
  BY DEF SubmitConfigObjectId
<1> HIDE DEF object
<1>4. ASSUME NEW e, IsDraft(e), Opened(e) PROVE TKeeps
  BY <1>3, <1>4, OpenedKeeps DEF Opened, EditorScreen, EditorScreens
<1>5. CASE page' = "ModelDiscoveryDialect" /\ panel' = NoPanel /\ UNCHANGED <<prompt, editor>>
  <2>1. PromptInv' /\ EditorInv' /\ LayerInv' /\ AppliedWasShown' /\ discarding' \in BOOLEAN
    BY <1>3, <1>5 DEF ConfigInv, PromptInv, EditorInv, LayerInv, AppliedWasShown, SyncText, Disk,
                      Outside, Pages, EditorScreens
  <2> QED
    BY <1>3, <1>5, <2>1, PanelKeeps, NoPanelIsPanel DEF Outside
<1>6. /\ IsDraft(Session(object, "Create", loaded.document, FALSE))
      /\ IsDraft(Session(object, "Create", Started(object), TRUE))
  BY <1>1, SessionIsDraft
<1> QED
  BY <1>2, <1>4, <1>5, <1>6

LEMMA ConfirmDialectKeeps ==
    ASSUME NothingIsNoRecord, ConfigInv, editor = Nothing, cred = Nothing, open,
           ConfirmDiscoveredModelDialect
    PROVE  TKeeps
<1> DEFINE object == <<"preset", prompt.id>>
           e == Session(object, "Create", Started(object), TRUE)
<1>1. IsDraft(e)
  <2>1. object[1] \in Kinds
    BY DEF Kinds
  <2> HIDE DEF object
  <2> QED
    BY <2>1, SessionIsDraft
<1>2. Disk /\ Outside
  BY DEF ConfirmDiscoveredModelDialect
<1>3. \/ Opened(e) /\ SyncText
      \/ /\ page' = "ModelSelector" /\ panel' = [NoPanel EXCEPT !.group = 3]
         /\ UNCHANGED editor /\ SameTexts
  BY Zenon DEF ConfirmDiscoveredModelDialect
<1> HIDE DEF e
<1>4. CASE Opened(e) /\ SyncText
  BY <1>1, <1>2, <1>4, OpenedKeeps DEF Opened, EditorScreen, EditorScreens
<1>5. CASE /\ page' = "ModelSelector" /\ panel' = [NoPanel EXCEPT !.group = 3]
           /\ UNCHANGED editor /\ SameTexts
  <2>1. PromptInv' /\ EditorInv' /\ LayerInv' /\ AppliedWasShown' /\ discarding' \in BOOLEAN
    BY <1>2, <1>5 DEF ConfigInv, PromptInv, EditorInv, LayerInv, AppliedWasShown, SameTexts, Disk,
                      Outside, Pages, EditorScreens
  <2>2. IsPanel(panel')
    BY <1>5, NoPanelIsPanel, PanelExcept DEF PanelFields
  <2> QED
    BY <1>2, <1>5, <2>1, <2>2, PanelKeeps DEF Outside
<1> QED
  BY <1>3, <1>4, <1>5

LEMMA RefreshConfigKeeps ==
    ASSUME ConfigInv, editor = Nothing, cred = Nothing, open, RefreshConfig
    PROVE  TKeeps
<1>1. /\ UNCHANGED <<file, page, prompt, editor>> /\ SameTexts /\ Outside
      /\ loaded' = file
  BY DEF RefreshConfig
<1>2. IsPanel(panel')
  <2> DEFINE n == Len(SelectSeq(Ids, LAMBDA x : x \in IdsOf(file.document, "preset"))) + Len(Catalog)
             s == Clamp(panel.selected, n)
             d == panel.detail /\ panel.selected < n
             u == [panel EXCEPT !["selected"] = s]
             w == [u EXCEPT !["detail"] = d]
  <2>0. DOMAIN panel = PanelFields /\ IsPanel(panel)
    BY DEF ConfigInv, IsPanel
  <2>00. {"selected", "detail"} \subseteq PanelFields \ {"section", "pending"}
    BY DEF PanelFields
  <2>1. panel' = panel \/ panel' = [panel EXCEPT !.selected = s, !.detail = d]
    BY Zenon DEF RefreshConfig
  <2> HIDE DEF s, d
  <2>2. panel' = panel \/ panel' = w
    BY <2>1, <2>0, <2>00
  <2>3. IsPanel(u)
    BY <2>0, <2>00, PanelExcept
  <2> HIDE DEF u
  <2>4. IsPanel(w)
    BY <2>00, <2>3, PanelExcept
  <2> HIDE DEF w
  <2> QED
    BY <2>0, <2>2, <2>4
<1>3. PromptInv' /\ EditorInv' /\ LayerInv' /\ AppliedWasShown' /\ discarding' \in BOOLEAN
  BY <1>1 DEF ConfigInv, PromptInv, EditorInv, LayerInv, AppliedWasShown, SameTexts, Outside
<1> QED
  BY <1>1, <1>2, <1>3, PanelKeeps DEF Outside

LEMMA ActivateModelEntryKeeps ==
    ASSUME ConfigInv, editor = Nothing, cred = Nothing, open, ActivateModelEntry
    PROVE  TKeeps
<1> DEFINE row == VisibleRows[panel.selected + 1]
<1>1. \/ /\ CanApply(row.id)
         /\ applied' = [shown |-> PresetIn(shown.document, row.id),
                        staged |-> PresetIn(loaded.document, row.id)]
         /\ loaded' = file
         /\ UNCHANGED <<file, page, panel, prompt, editor, cred, dispatched, open>> /\ SameTexts
      \/ /\ prompt' = [kind |-> "preset", id |-> Nothing, starter |-> row.source]
         /\ page' = "ConfigObjectCreate"
         /\ UNCHANGED <<panel, editor>> /\ SameTexts /\ Disk /\ Outside
  BY Zenon DEF ActivateModelEntry
<1> HIDE DEF row
<1>2. CASE /\ CanApply(row.id)
           /\ applied' = [shown |-> PresetIn(shown.document, row.id),
                          staged |-> PresetIn(loaded.document, row.id)]
           /\ loaded' = file
           /\ UNCHANGED <<file, page, panel, prompt, editor, cred, dispatched, open>> /\ SameTexts
  <2>1. AppliedWasShown'
    BY <1>2 DEF AppliedWasShown, CanApply
  <2>2. PromptInv' /\ EditorInv' /\ LayerInv' /\ discarding' \in BOOLEAN /\ IsPanel(panel')
    BY <1>2 DEF ConfigInv, PromptInv, EditorInv, LayerInv, SameTexts
  <2> QED
    BY <1>2, <2>1, <2>2, PanelKeeps
<1>3. CASE /\ prompt' = [kind |-> "preset", id |-> Nothing, starter |-> row.source]
           /\ page' = "ConfigObjectCreate"
           /\ UNCHANGED <<panel, editor>> /\ SameTexts /\ Disk /\ Outside
  <2>1. PromptInv'
    BY <1>3 DEF PromptInv, Kinds
  <2>2. EditorInv' /\ LayerInv' /\ AppliedWasShown' /\ discarding' \in BOOLEAN /\ IsPanel(panel')
    BY <1>3 DEF ConfigInv, EditorInv, LayerInv, AppliedWasShown, SameTexts, Disk, Outside, Pages,
                EditorScreens
  <2> QED
    BY <1>3, <2>1, <2>2, PanelKeeps DEF Outside
<1> QED
  BY <1>1, <1>2, <1>3

\* Leaving a screen, or an editor without anything unsaved.
LEMMA BackConfigKeeps ==
    ASSUME NothingIsNoRecord, ConfigInv, cred = Nothing, open, BackConfig
    PROVE  TKeeps
<1>1. Disk /\ Outside /\ LayerInv' /\ AppliedWasShown'
  BY DEF BackConfig, ConfigInv, LayerInv, AppliedWasShown, Disk, Outside
<1>2. \/ /\ Unsaved /\ discarding' = TRUE
         /\ UNCHANGED <<page, panel, prompt, editor>>
      \/ /\ page = "ModelDiscoveryDialect" /\ page' = "ConfigObjectCreate"
         /\ UNCHANGED <<panel, prompt, editor>> /\ ClearText
      \/ /\ panel' = [panel EXCEPT !.detail = FALSE]
         /\ UNCHANGED <<page, prompt, editor>> /\ ClearText
      \/ ~Unsaved /\ Closed /\ ClearText
  BY Zenon DEF BackConfig
<1>3. ASSUME UNCHANGED <<page, prompt, editor>>, IsPanel(panel'), discarding' \in BOOLEAN
      PROVE  TKeeps
  <2>1. CASE editor # Nothing
    <3>1. IsDraft(editor')
      BY <1>3, <2>1 DEF ConfigInv, EditorInv
    <3> QED
      BY <1>1, <1>3, <2>1, <3>1, EditingKeeps DEF Disk, Outside
  <2>2. CASE editor = Nothing
    <3>1. EditorInv' /\ PromptInv'
      BY <1>3, <2>2 DEF ConfigInv, EditorInv, PromptInv
    <3> QED
      BY <1>1, <1>3, <2>2, <3>1, PanelKeeps DEF Outside
  <2> QED
    BY <2>1, <2>2
<1>4. CASE /\ Unsaved /\ discarding' = TRUE
           /\ UNCHANGED <<page, panel, prompt, editor>>
  BY <1>3, <1>4 DEF ConfigInv
<1>5. CASE /\ page = "ModelDiscoveryDialect" /\ page' = "ConfigObjectCreate"
           /\ UNCHANGED <<panel, prompt, editor>> /\ ClearText
  <2>1. editor = Nothing /\ "kind" \in DOMAIN prompt /\ prompt.kind \in Kinds
    BY <1>5 DEF ConfigInv, EditorInv, EditorScreens, PromptInv
  <2>2. EditorInv' /\ PromptInv' /\ IsPanel(panel') /\ discarding' \in BOOLEAN
    BY <1>5, <2>1 DEF ConfigInv, EditorInv, PromptInv, Pages, EditorScreens, ClearText
  <2> QED
    BY <1>1, <2>1, <2>2, PanelKeeps DEF Outside
<1>6. CASE /\ panel' = [panel EXCEPT !.detail = FALSE]
           /\ UNCHANGED <<page, prompt, editor>> /\ ClearText
  <2>1. IsPanel([panel EXCEPT !["detail"] = FALSE])
    BY PanelExcept DEF ConfigInv, PanelFields
  <2> QED
    BY <1>3, <1>6, <2>1 DEF ClearText
<1>7. CASE ~Unsaved /\ Closed /\ ClearText
  BY <1>1, <1>7, LeavingKeeps DEF Outside, ClearText
<1> QED
  BY <1>2, <1>4, <1>5, <1>6, <1>7

-----------------------------------------------------------------------------
(* The editor.                                                              *)

LEMMA StagingKeeps ==
    ASSUME NothingIsNoRecord, ConfigInv, editor # Nothing, cred = Nothing, open,
           editor' = editor \/ \E d : editor' = Changed(editor, d),
           UNCHANGED <<page, panel, prompt>>, Disk, Outside, discarding' \in BOOLEAN
    PROVE  TKeeps
<1>1. IsDraft(editor)
  BY DEF ConfigInv, EditorInv
<1>2. IsDraft(editor') /\ editor'.field = editor.field
  BY <1>1, ChangedIsDraft
<1>3. UNCHANGED <<file, loaded, page, prompt, cred, dispatched, applied, open>>
  BY DEF Disk, Outside
<1>4. IsPanel(panel')
  BY DEF ConfigInv
<1> QED
  BY <1>2, <1>3, <1>4, EditingKeeps

LEMMA EditConfigTextKeeps ==
    ASSUME NothingIsNoRecord, ConfigInv, editor # Nothing, cred = Nothing, open,
           NEW event, EditConfigText(event) \/ ClearConfigText
    PROVE  TKeeps
<1>1. UNCHANGED <<page, panel, prompt>> /\ Disk /\ Outside
  BY DEF EditConfigText, ClearConfigText
<1>2. ResetField \/ (discarding' = FALSE /\ (UNCHANGED editor \/ \E d : Staged(d)))
  BY Zenon DEF EditConfigText, ClearConfigText
<1>3. ASSUME NEW d, Staged(d) PROVE editor' = Changed(editor, d)
  BY <1>3, Zenon DEF Staged, Changed
<1>4. discarding' = FALSE /\ (editor' = editor \/ \E d : editor' = Changed(editor, d))
  BY <1>2, <1>3 DEF ResetField
<1> QED
  BY <1>1, <1>4, StagingKeeps

LEMMA MoveConfigFieldKeeps ==
    ASSUME NothingIsNoRecord, ConfigInv, editor # Nothing, cred = Nothing, open,
           NEW event, MoveConfigField(event)
    PROVE  TKeeps
<1> DEFINE fields == Fields[editor.object[1]]
           n == Clamp(FieldIndex(editor) - 1 + Step(event), Len(fields)) + 1
<1>1. IsDraft(editor) /\ IsDraft(Flushed) /\ Flushed.object = editor.object
  <2>1. IsDraft(editor)
    BY DEF ConfigInv, EditorInv
  <2>2. DOMAIN editor = EditorFields
    BY <2>1 DEF IsDraft
  <2>3. Flushed.object = editor.object
    BY <2>2 DEF Flushed, EditorFields
  <2> QED
    BY <2>1, <2>3, FlushedIsDraft
<1>2. fields \in Seq(DOMAIN Interaction) /\ Len(fields) \in Nat /\ Len(fields) > 0
  <2>1. fields \in Seq(DOMAIN Interaction) /\ fields # <<>>
    BY <1>1, TerminalConfigAssumption DEF IsDraft
  <2> HIDE DEF fields
  <2> QED
    BY <2>1
<1>3. FieldIndex(editor) \in DOMAIN fields
  <2>1. \E i \in DOMAIN fields : fields[i] = editor.field
    BY <1>1 DEF IsDraft, ToSet
  <2> QED
    BY <2>1 DEF FieldIndex
<1>4. n \in DOMAIN fields
  <2> DEFINE s == FieldIndex(editor) - 1 + Step(event)
  <2>1. s \in Int
    BY <1>2, <1>3 DEF Step
  <2> HIDE DEF fields, s
  <2>2. Clamp(s, Len(fields)) \in 0..(Len(fields) - 1)
    BY <1>2, <2>1 DEF Clamp
  <2>3. Clamp(s, Len(fields)) + 1 \in DOMAIN fields
    BY <1>2, <2>2
  <2> QED
    BY <2>3 DEF s
<1>5. fields[n] \in ToSet(Fields[Flushed.object[1]])
  <2> HIDE DEF n
  <2> QED
    BY <1>1, <1>4 DEF ToSet
<1>6. editor' = [Flushed EXCEPT !.field = fields[n]]
  BY Zenon DEF MoveConfigField
<1> HIDE DEF fields, n
<1>7. IsDraft(editor') /\ editor'.document = Flushed.document
  BY <1>1, <1>5, <1>6, FocusedIsDraft
<1>8. /\ UNCHANGED <<file, loaded, page, prompt, cred, dispatched, applied, open>>
      /\ IsPanel(panel') /\ discarding' \in BOOLEAN
  BY DEF MoveConfigField, Disk, Outside, SyncText, ConfigInv
<1> QED
  BY <1>7, <1>8, EditingKeeps

LEMMA MoveConfigChoiceKeeps ==
    ASSUME NothingIsNoRecord, ConfigInv, editor # Nothing, cred = Nothing, open,
           NEW event, MoveConfigChoice(event)
    PROVE  TKeeps
<1>1. \E d : Staged(d)
  BY Zenon DEF MoveConfigChoice
<1>2. ASSUME NEW d, Staged(d) PROVE editor' = Changed(editor, d)
  BY <1>2, Zenon DEF Staged, Changed
<1>3. UNCHANGED <<page, panel, prompt>> /\ Disk /\ Outside /\ discarding' \in BOOLEAN
  BY DEF MoveConfigChoice, ConfigInv
<1> QED
  BY <1>1, <1>2, <1>3, StagingKeeps

LEMMA PreviewConfigKeeps ==
    ASSUME NothingIsNoRecord, ConfigInv, editor # Nothing, cred = Nothing, open, PreviewConfig
    PROVE  TKeeps
<1>1. IsDraft(editor) /\ LayerInv
  BY DEF ConfigInv, EditorInv
<1>2. IsDraft(editor') /\ editor'.field = editor.field
  BY <1>1, PreviewedIsDraft DEF PreviewConfig
<1>3. /\ UNCHANGED <<file, loaded, page, prompt, cred, dispatched, applied, open>>
      /\ IsPanel(panel') /\ discarding' \in BOOLEAN
  BY DEF PreviewConfig, Disk, Outside, ConfigInv
<1> QED
  BY <1>2, <1>3, EditingKeeps

\* What a commit writes is the draft, and the terminal loads it.
LEMMA CommitDraftWrites ==
    ASSUME ConfigInv, NEW e, CommitDraft(e)
    PROVE  LayerInv' /\ file'.document = e.document /\ Closed
<1>1. CASE e.document = file.document
  BY <1>1 DEF CommitDraft, ConfigInv, LayerInv
<1>2. CASE e.document # file.document
  <2>1. file' = [revision |-> file.revision + 1, document |-> e.document] /\ loaded' = file'
    BY <1>2 DEF CommitDraft
  <2>2. file'.revision \in Nat /\ file'.document = e.document
    BY <2>1 DEF ConfigInv, LayerInv
  <2> QED
    BY <2>1, <2>2 DEF CommitDraft, LayerInv
<1> QED
  BY <1>1, <1>2

LEMMA CommitConfigKeeps ==
    ASSUME NothingIsNoRecord, ConfigInv, editor # Nothing, cred = Nothing, open,
           config_context \in {"Choice", "ConfigDeleteConfirmation"},
           CommitConfig \/ ConfirmConfigDelete
    PROVE  TKeeps
<1>1. CommitDraft(editor) /\ Outside /\ discarding' \in BOOLEAN
  BY DEF CommitConfig, ConfirmConfigDelete, ClearText, ConfigInv
<1>2. LayerInv' /\ Closed
  BY <1>1, CommitDraftWrites
<1> QED
  BY <1>1, <1>2, LeavingKeeps DEF Outside

LEMMA SubmitConfigTextKeeps ==
    ASSUME NothingIsNoRecord, ConfigInv, editor # Nothing, cred = Nothing, open, SubmitConfigText
    PROVE  TKeeps
<1> DEFINE e == Flushed
           t == [typed EXCEPT !.pending = FALSE]
<1>1. IsDraft(editor) /\ LayerInv /\ IsDraft(e) /\ e.field = editor.field
  BY FlushedIsDraft DEF ConfigInv, EditorInv
<1>2. \/ UNCHANGED <<file, loaded, page, panel, prompt, editor, discarding>>
      \/ /\ editor' = IF Committable(e) THEN Previewed(e) ELSE e
         /\ UNCHANGED <<page, panel, prompt, discarding>> /\ Disk
      \/ CommitDraft(e) /\ ClearText
  BY Zenon DEF SubmitConfigText
<1>3. Outside
  BY DEF SubmitConfigText
<1> HIDE DEF t
<1>4. CASE UNCHANGED <<file, loaded, page, panel, prompt, editor, discarding>>
  BY <1>1, <1>3, <1>4, EditingKeeps DEF Outside, ConfigInv
<1>5. CASE /\ editor' = IF Committable(e) THEN Previewed(e) ELSE e
           /\ UNCHANGED <<page, panel, prompt, discarding>> /\ Disk
  <2> HIDE DEF e
  <2>1. IsDraft(editor') /\ editor'.field = editor.field
    BY <1>1, <1>5, PreviewedIsDraft
  <2> QED
    BY <1>3, <1>5, <2>1, EditingKeeps DEF Outside, ConfigInv, Disk
<1>6. CASE CommitDraft(e) /\ ClearText
  <2>1. LayerInv' /\ Closed /\ file'.document = Flushed.document
    BY <1>6, CommitDraftWrites
  <2> QED
    BY <1>3, <1>6, <2>1, LeavingKeeps DEF Outside, ClearText
<1> QED
  BY <1>2, <1>4, <1>5, <1>6

LEMMA DiscardConfigKeeps ==
    ASSUME NothingIsNoRecord, ConfigInv, cred = Nothing, open,
           config_context \in {"Choice", "ConfigDeleteConfirmation", "DiscardConfirmation"},
           DiscardConfig
    PROVE  TKeeps
<1>1. LayerInv' /\ discarding' = FALSE /\ Closed /\ Outside
  BY DEF DiscardConfig, ConfigInv, LayerInv, Disk, ClearText
<1> QED
  BY <1>1, LeavingKeeps DEF Outside

LEMMA CancelDiscardKeeps ==
    ASSUME NothingIsNoRecord, ConfigInv, cred = Nothing, open, CancelDiscard
    PROVE  TKeeps
<1>1. /\ UNCHANGED <<file, loaded, page, panel, prompt, editor, cred, dispatched, applied, open>>
      /\ discarding' = FALSE
  BY DEF CancelDiscard, Disk, Outside
<1>2. CASE editor # Nothing
  BY <1>1, <1>2, EditingKeeps DEF ConfigInv, EditorInv
<1>3. CASE editor = Nothing
  <2>1. EditorInv' /\ LayerInv' /\ PromptInv' /\ AppliedWasShown'
    BY <1>1, <1>3 DEF ConfigInv, EditorInv, LayerInv, PromptInv, AppliedWasShown
  <2> QED
    BY <1>1, <1>3, <2>1, PanelKeeps DEF ConfigInv
<1> QED
  BY <1>2, <1>3

LEMMA TestConnectionKeeps ==
    ASSUME NothingIsNoRecord, ConfigInv, cred = Nothing, open, TestProviderConnection
    PROVE  TKeeps
<1>1. editor # Nothing
  BY DEF TestProviderConnection, ConfigInv, EditorInv, Pages, EditorScreens
<1>2. IsDraft(editor') /\ editor'.field = editor.field
  BY <1>1, TestedIsDraft DEF TestProviderConnection, ConfigInv, EditorInv
<1>3. /\ UNCHANGED <<file, loaded, page, prompt, cred, dispatched, applied, open>>
      /\ IsPanel(panel') /\ discarding' \in BOOLEAN
  BY DEF TestProviderConnection, Disk, Outside, ConfigInv, SameTexts
<1> QED
  BY <1>1, <1>2, <1>3, EditingKeeps

-----------------------------------------------------------------------------
(* The credential's flow.                                                   *)

LEMMA OpenCredentialKeeps ==
    ASSUME ConfigInv, editor # Nothing, open, OpenCredentialActions
    PROVE  TKeeps
<1>1. editor.document = loaded.document
  BY DEF OpenCredentialActions, ConfigInv, EditorInv, IsDraft, Unsaved
<1>2. /\ cred' = [f \in {"step", "scope", "action", "input"} |-> cred'[f]]
      /\ cred'.step \in CredentialContexts
  BY DEF OpenCredentialActions, Choosing, CredentialContexts
<1> QED
  BY <1>1, <1>2, CredentialKeeps DEF OpenCredentialActions

CredFields == {"step", "scope", "action", "input"}
IsFlow(c) == c = [f \in CredFields |-> c[f]] /\ c.step \in CredentialContexts

LEMMA FlowExcept ==
    ASSUME NEW c, IsFlow(c), NEW g \in CredFields, NEW value, g = "step" => value \in CredentialContexts
    PROVE  IsFlow([c EXCEPT ![g] = value])
<1> DEFINE v == [c EXCEPT ![g] = value]
<1>1. c = [f \in CredFields |-> c[f]] /\ DOMAIN c = CredFields /\ "step" \in CredFields
  BY DEF IsFlow, CredFields
<1>2. v = [f \in CredFields |-> IF f = g THEN value ELSE c[f]]
  BY <1>1
<1> HIDE DEF v
<1>3. v = [f \in CredFields |-> v[f]] /\ v["step"] = IF g = "step" THEN value ELSE c["step"]
  BY <1>1, <1>2
<1>4. IsFlow(v)
  BY <1>3 DEF IsFlow
<1> QED
  BY <1>4 DEF v

LEMMA ChoosingIsFlow == ASSUME NEW scope, NEW n PROVE IsFlow(Choosing(scope, n))
BY DEF Choosing, IsFlow, CredFields, CredentialContexts

LEMMA CredentialKeyKeeps ==
    ASSUME ConfigInv, cred # Nothing, open, NEW event, NEW context \in CredentialContexts,
           CredentialKey(event, context)
    PROVE  TKeeps
<1>1. editor # Nothing /\ editor.document = loaded.document /\ IsFlow(cred)
  BY DEF ConfigInv, CredInv, IsFlow, CredFields
<1>2. ASSUME Editing,
             UNCHANGED dispatched \/ dispatched' = Nothing \/ dispatched'.scope = current_credential_scope,
             cred' = Nothing \/ IsFlow(cred')
      PROVE  TKeeps
  BY <1>1, <1>2, CredentialKeeps DEF IsFlow, CredFields
<1>3. {"step", "action", "input"} \subseteq CredFields
  BY DEF CredFields
<1>4. ASSUME NEW a, cred' = [cred EXCEPT !["action"] = a] PROVE IsFlow(cred')
  BY <1>1, <1>3, <1>4, FlowExcept
<1>5. ASSUME NEW a, cred' = [cred EXCEPT !["input"] = a] PROVE IsFlow(cred')
  BY <1>1, <1>3, <1>5, FlowExcept
<1>6. ASSUME NEW s \in CredentialContexts, cred' = [cred EXCEPT !["step"] = s] PROVE IsFlow(cred')
  BY <1>1, <1>3, <1>6, FlowExcept
<1>7. ASSUME NEW s \in CredentialContexts, cred' = [cred EXCEPT !.step = s, !.input = 0]
      PROVE  IsFlow(cred')
  <2> DEFINE u == [cred EXCEPT !["step"] = s]
  <2>1. IsFlow(u)
    BY <1>1, <1>3, FlowExcept
  <2>2. cred' = [u EXCEPT !["input"] = 0]
    BY <1>7
  <2> HIDE DEF u
  <2>3. IsFlow([u EXCEPT !["input"] = 0])
    BY <1>3, <2>1, FlowExcept
  <2> QED
    BY <2>2, <2>3
<1>8. CASE MoveCredentialAction(event)
  <2> DEFINE a == Clamp(cred.action - 1 + Step(event), 4) + 1
  <2>1. cred' = [cred EXCEPT !["action"] = a] /\ UNCHANGED dispatched /\ Editing
    BY <1>8, Zenon DEF MoveCredentialAction
  <2> HIDE DEF a
  <2> QED
    BY <1>2, <1>4, <2>1
<1>9. CASE EditCredentialSecret(event)
  <2>1. \E a : cred' = [cred EXCEPT !["input"] = a]
    BY <1>9, Zenon DEF EditCredentialSecret
  <2>2. UNCHANGED dispatched /\ Editing
    BY <1>9 DEF EditCredentialSecret
  <2> QED
    BY <1>2, <1>5, <2>1, <2>2
<1>10. CASE CancelCredentialFlow
  <2>1. cred' = Nothing \/ cred' = Choosing(cred.scope, cred.action)
    BY <1>10 DEF CancelCredentialFlow
  <2>2. dispatched' = Nothing /\ Editing
    BY <1>10 DEF CancelCredentialFlow
  <2> QED
    BY <1>2, <2>1, <2>2, ChoosingIsFlow
<1>11. ASSUME NEW action, SameScope, Dispatch(action)
       PROVE  dispatched'.scope = current_credential_scope
  BY <1>11 DEF SameScope, Dispatch
<1>12. CASE ActivateCredentialAction
  <2>1. Editing
    BY <1>12 DEF ActivateCredentialAction
  <2>2. \/ cred' = Nothing /\ UNCHANGED dispatched
        \/ cred' = [cred EXCEPT !.step = "CredentialSecret", !.input = 0] /\ UNCHANGED dispatched
        \/ SameScope /\ UNCHANGED cred /\ Dispatch("Test")
        \/ cred' = [cred EXCEPT !.step = "CredentialConfirmation"] /\ UNCHANGED dispatched
    BY <1>12, Zenon DEF ActivateCredentialAction
  <2>3. {"CredentialSecret", "CredentialConfirmation"} \subseteq CredentialContexts
    BY DEF CredentialContexts
  <2>a. ASSUME cred' = [cred EXCEPT !.step = "CredentialSecret", !.input = 0]
       PROVE  IsFlow(cred')
    BY <1>7, <2>3, <2>a, Zenon
  <2>b. ASSUME cred' = [cred EXCEPT !.step = "CredentialConfirmation"]
       PROVE  IsFlow(cred')
    BY <1>6, <2>3, <2>b, Zenon
  <2>4. cred' = Nothing \/ IsFlow(cred')
    BY <1>1, <2>2, <2>a, <2>b
  <2>5. UNCHANGED dispatched \/ dispatched'.scope = current_credential_scope
    BY <1>11, <2>2
  <2> QED
    BY <1>2, <2>1, <2>4, <2>5
<1>13. CASE SubmitCredentialSecret
  <2>1. Editing
    BY <1>13 DEF SubmitCredentialSecret
  <2>2. \/ cred' = Nothing /\ UNCHANGED dispatched
        \/ UNCHANGED <<cred, dispatched>>
        \/ SameScope /\ cred' = Choosing(cred.scope, 1) /\ Dispatch("Bind")
        \/ cred' = [cred EXCEPT !.step = "CredentialConfirmation", !.input = 0] /\ UNCHANGED dispatched
    BY <1>13, Zenon DEF SubmitCredentialSecret
  <2>3. "CredentialConfirmation" \in CredentialContexts
    BY DEF CredentialContexts
  <2>a. ASSUME cred' = [cred EXCEPT !.step = "CredentialConfirmation", !.input = 0]
        PROVE  IsFlow(cred')
    BY <1>7, <2>3, <2>a, Zenon
  <2>b. IsFlow(Choosing(cred.scope, 1))
    BY ChoosingIsFlow
  <2>4. cred' = Nothing \/ IsFlow(cred')
    BY <1>1, <2>2, <2>a, <2>b
  <2>5. UNCHANGED dispatched \/ dispatched'.scope = current_credential_scope
    BY <1>11, <2>2
  <2> QED
    BY <1>2, <2>1, <2>4, <2>5
<1>14. CASE ConfirmCredentialAction
  <2>1. Editing
    BY <1>14 DEF ConfirmCredentialAction
  <2>2. \/ cred' = Nothing /\ UNCHANGED dispatched
        \/ /\ SameScope /\ cred' = Choosing(cred.scope, cred.action)
           /\ Dispatch(CredentialActions[cred.action])
    BY <1>14, Zenon DEF ConfirmCredentialAction
  <2>4. cred' = Nothing \/ IsFlow(cred')
    BY <2>2, ChoosingIsFlow
  <2>5. UNCHANGED dispatched \/ dispatched'.scope = current_credential_scope
    BY <1>11, <2>2
  <2> QED
    BY <1>2, <2>1, <2>4, <2>5
<1>15. \/ MoveCredentialAction(event) \/ EditCredentialSecret(event) \/ CancelCredentialFlow
       \/ ActivateCredentialAction \/ SubmitCredentialSecret \/ ConfirmCredentialAction
  BY DEF CredentialKey, CredentialContexts
<1> QED
  BY <1>8, <1>9, <1>10, <1>12, <1>13, <1>14, <1>15

-----------------------------------------------------------------------------
(* The steps.                                                               *)

\* The loop ends with nothing unsaved.
LEMMA QuitConfigKeeps ==
    ASSUME ConfigInv, QuitConfig
    PROVE  TKeeps
<1>1. /\ ~Unsaved /\ open' = FALSE
      /\ UNCHANGED <<file, loaded, page, panel, prompt, editor, cred, dispatched, applied, typed, discarding>>
  BY DEF QuitConfig, SameTexts, Disk
<1>2. EditorInv' /\ LayerInv' /\ PromptInv' /\ CredInv' /\ AppliedWasShown' /\ IsPanel(panel)'
      /\ Unsaved' = Unsaved
  BY <1>1 DEF ConfigInv, EditorInv, IsDraft, LayerInv, PromptInv, CredInv, AppliedWasShown, IsPanel, Unsaved
<1>3. ConfigInv'
  BY <1>1, <1>2 DEF ConfigInv
<1>4. PromisesKept
  BY <1>1, LossIsUnsaved DEF PromisesKept
<1> QED
  BY <1>3, <1>4 DEF TKeeps

LEMMA PanelKeyKeeps ==
    ASSUME NothingIsNoRecord, ConfigInv, open, NEW event, NEW context \in PanelContexts,
           context = config_context, PanelKey(event, context)
    PROVE  TKeeps
<1>1. /\ editor = Nothing /\ cred = Nothing
      /\ context # "ConfigObject" => page = context
      /\ context = "ConfigObject" => panel.pending # Nothing
  BY ContextTells
<1>2. CASE context = "SlashPanel"
  <2>1. ActivateConfig \/ RefreshConfig \/ QuitConfig
    BY <1>2, Zenon DEF PanelKey
  <2>2. page = "SlashPanel"
    BY <1>1, <1>2
  <2> QED
    BY <1>1, <2>1, <2>2, ActivateConfigKeeps, RefreshConfigKeeps, QuitConfigKeeps
<1>3. CASE context = "ConfigObjectCreate"
  <2>1. EditConfigObjectId \/ SubmitConfigObjectId \/ BackConfig
    BY <1>3, Zenon DEF PanelKey
  <2>2. page = "ConfigObjectCreate"
    BY <1>1, <1>3
  <2> QED
    BY <1>1, <2>1, <2>2, EditConfigObjectIdKeeps, SubmitConfigObjectIdKeeps, BackConfigKeeps
<1>4. CASE context = "ModelDiscoveryDialect"
  <2>1. ConfirmDiscoveredModelDialect \/ BackConfig
    BY <1>4, Zenon DEF PanelKey
  <2> QED
    BY <1>1, <2>1, ConfirmDialectKeeps, BackConfigKeeps
<1>5. CASE context = "ConfigObject"
  <2>1. MoveConfigObjectSelection(event) \/ ActivateConfigObject \/ BackConfig
    BY <1>5, Zenon DEF PanelKey
  <2>2. panel.pending # Nothing
    BY <1>1, <1>5
  <2> QED
    BY <1>1, <2>1, <2>2, MovingKeeps, ActivateConfigObjectKeeps, BackConfigKeeps
<1>6. CASE context \in {"ModelSelector", "Stats"}
  <2>1. \/ MovePanelSelection(event) \/ MovePanelGroup(event) \/ TogglePanelDetail
        \/ ActivateModelEntry \/ RefreshConfig \/ BackConfig
    BY <1>6, Zenon DEF PanelKey
  <2> QED
    BY <1>1, <2>1, MovingKeeps, ActivateModelEntryKeeps, RefreshConfigKeeps, BackConfigKeeps
<1> QED
  BY <1>2, <1>3, <1>4, <1>5, <1>6 DEF PanelContexts

LEMMA EditorKeyKeeps ==
    ASSUME NothingIsNoRecord, ConfigInv, open, NEW event, NEW context,
           context \in {"Choice", "Text", "Deferred", "Credential", "DiscardConfirmation",
                        "ConfigDeleteConfirmation"},
           context = config_context, EditorKey(event, context)
    PROVE  TKeeps
<1>1. /\ cred = Nothing
      /\ context # "DiscardConfirmation" => editor # Nothing
  BY ContextTells
<1>2. CASE context = "Choice"
  <2>1. \/ MoveConfigChoice(event) \/ MoveConfigField(event) \/ PreviewConfig \/ CommitConfig
        \/ DiscardConfig \/ TestProviderConnection \/ BackConfig
    BY <1>2, Zenon DEF EditorKey
  <2>2. editor # Nothing /\ config_context = "Choice"
    BY <1>1, <1>2
  <2> QED
    BY <1>1, <2>1, <2>2, MoveConfigChoiceKeeps, MoveConfigFieldKeeps, PreviewConfigKeeps,
       CommitConfigKeeps, DiscardConfigKeeps, TestConnectionKeeps, BackConfigKeeps
<1>3. CASE context \in {"Text", "Deferred", "Credential"}
  <2>1. \/ EditConfigText(event) \/ ClearConfigText \/ MoveConfigField(event) \/ SubmitConfigText
        \/ TestProviderConnection \/ OpenCredentialActions \/ BackConfig
    BY <1>3, Zenon DEF EditorKey
  <2>2. editor # Nothing
    BY <1>1, <1>3
  <2> QED
    BY <1>1, <2>1, <2>2, EditConfigTextKeeps, MoveConfigFieldKeeps, SubmitConfigTextKeeps,
       TestConnectionKeeps, OpenCredentialKeeps, BackConfigKeeps
<1>4. CASE context = "DiscardConfirmation"
  <2>1. DiscardConfig \/ CancelDiscard \/ TestProviderConnection
    BY <1>4, Zenon DEF EditorKey
  <2>2. config_context = "DiscardConfirmation"
    BY <1>4
  <2> QED
    BY <1>1, <2>1, <2>2, DiscardConfigKeeps, CancelDiscardKeeps, TestConnectionKeeps
<1>5. CASE context = "ConfigDeleteConfirmation"
  <2>1. ConfirmConfigDelete \/ DiscardConfig
    BY <1>5, Zenon DEF EditorKey
  <2>2. editor # Nothing /\ config_context = "ConfigDeleteConfirmation"
    BY <1>1, <1>5
  <2> QED
    BY <1>1, <2>1, <2>2, CommitConfigKeeps, DiscardConfigKeeps
<1> QED
  BY <1>2, <1>3, <1>4, <1>5

LEMMA KeyKeeps ==
    ASSUME NothingIsNoRecord, ConfigInv, open, NEW event, Key(event, config_context)
    PROVE  TKeeps
<1> DEFINE context == config_context
<1>1. /\ context \in ConfigContexts
      /\ context = "Other" => cred = Nothing
      /\ context \in CredentialContexts => cred # Nothing
  BY ContextTells
<1>2. Key(event, context)
  OBVIOUS
<1>3. context = config_context
  OBVIOUS
<1> HIDE DEF context
<1>4. CASE context \in PanelContexts
  <2>1. PanelKey(event, context)
    BY <1>2, <1>4 DEF Key, PanelContexts, CredentialContexts
  <2> QED
    BY <1>3, <1>4, <2>1, PanelKeyKeeps
<1>5. CASE context \in CredentialContexts
  <2>1. CredentialKey(event, context)
    BY <1>2, <1>5 DEF Key, PanelContexts, CredentialContexts
  <2> QED
    BY <1>1, <1>5, <2>1, CredentialKeyKeeps
<1>6. CASE context = "Other"
  <2>1. BackConfig
    BY <1>2, <1>6 DEF Key, PanelContexts, CredentialContexts
  <2> QED
    BY <1>1, <1>6, <2>1, BackConfigKeeps
<1>7. CASE context \in {"Choice", "Text", "Deferred", "Credential", "DiscardConfirmation",
                        "ConfigDeleteConfirmation"}
  <2>1. EditorKey(event, context)
    BY <1>2, <1>7 DEF Key, PanelContexts, CredentialContexts
  <2> QED
    BY <1>3, <1>7, <2>1, EditorKeyKeeps
<1> QED
  BY <1>1, <1>4, <1>5, <1>6, <1>7 DEF ConfigContexts

\* Another process writes the layer: what is loaded is an older revision.
LEMMA OtherWriterKeeps ==
    ASSUME ConfigInv, OtherWriter
    PROVE  TKeeps
<1>1. PICK document \in UserDocuments : file' = [revision |-> file.revision + 1, document |-> document]
  BY DEF OtherWriter
<1>2. UNCHANGED <<loaded, shown, page, panel, prompt, editor, typed, validChoice, validText,
                  discarding, cred, dispatched, applied, open>>
  BY DEF OtherWriter
<1>3. LayerInv'
  <2>1. file'.revision = file.revision + 1
    BY <1>1
  <2> QED
    BY <1>2, <2>1 DEF ConfigInv, LayerInv
<1>4. EditorInv' /\ PromptInv' /\ CredInv' /\ AppliedWasShown' /\ IsPanel(panel)' /\ Unsaved' = Unsaved
  BY <1>2 DEF ConfigInv, EditorInv, IsDraft, PromptInv, CredInv, AppliedWasShown, IsPanel, Unsaved
<1>5. ConfigInv'
  BY <1>2, <1>3, <1>4 DEF ConfigInv
<1>6. editor # Nothing /\ (Pending \/ editor.document # loaded.document) => open
  BY LossIsUnsaved DEF ConfigInv
<1>7. PromisesKept
  BY <1>2, <1>6 DEF PromisesKept
<1> QED
  BY <1>5, <1>7 DEF TKeeps

\* The invariant, and what a step may not do.
LEMMA ConfigStepKeeps ==
    ASSUME NothingIsNoRecord, ConfigInv, TConfigNext
    PROVE  TKeeps
<1>1. CASE OtherWriter
  BY <1>1, OtherWriterKeeps
<1>2. CASE open /\ \E event \in TConfigEvents : Key(event, config_context)
  BY <1>2, KeyKeeps
<1>3. CASE open /\ QuitConfig
  BY <1>3, QuitConfigKeeps
<1> QED
  BY <1>1, <1>2, <1>3 DEF TConfigNext

LEMMA ConfigStutterKeeps ==
    ASSUME ConfigInv, UNCHANGED tconfig_vars
    PROVE  ConfigInv'
BY DEF tconfig_vars, ConfigInv, LayerInv, EditorInv, IsDraft, IsPanel, PromptInv, CredInv, Unsaved,
       AppliedWasShown

LEMMA ConfigInitiallyKept ==
    ASSUME TConfigInit
    PROVE  ConfigInv
<1>1. LayerInv
  BY DEF TConfigInit, LayerInv
<1>2. EditorInv /\ PromptInv /\ CredInv /\ AppliedWasShown /\ ~Unsaved
  BY DEF TConfigInit, EditorInv, PromptInv, CredInv, AppliedWasShown, Unsaved, Pages, EditorScreens
<1>3. IsPanel(panel)
  BY NoPanelIsPanel DEF TConfigInit
<1> QED
  BY <1>1, <1>2, <1>3 DEF TConfigInit, ConfigInv

\* The terminal's configuration editor, for every schema and every sequence of
\* keys and of writes by other processes: a revision names one document, the
\* draft is of the layer that was loaded and differs from it only if it is
\* marked, the connection result beside it is of that draft, and a credential
\* flow runs beside a committed draft only.
THEOREM EditorInvariant ==
    ASSUME NothingIsNoRecord
    PROVE  TConfigSpec => []ConfigInv
<1>1. TConfigInit => ConfigInv
  BY ConfigInitiallyKept
<1>2. ConfigInv /\ [TConfigNext]_tconfig_vars => ConfigInv'
  BY ConfigStepKeeps, ConfigStutterKeeps DEF TKeeps
<1> QED
  BY <1>1, <1>2, PTL DEF TConfigSpec

\* Typed input and credentials go where the user put them (presentation.rs's
\* leaving, moving, committing and quitting; the credential flow's scope
\* compared before each command).
THEOREM DraftsAreAlwaysHonoured ==
    ASSUME NothingIsNoRecord
    PROVE  TConfigSpec => DraftsAreHonoured
<1>1. ConfigInv /\ [TConfigNext]_tconfig_vars
      => [editor # Nothing /\ (Pending \/ editor.document # loaded.document)
          => /\ open'
             /\ editor' = Nothing =>
                   \/ file'.document = Flushed.document
                   \/ config_context \in {"Choice", "ConfigDeleteConfirmation", "DiscardConfirmation"}
             /\ editor' # Nothing /\ editor'.field # editor.field =>
                   editor'.document = Flushed.document]_tconfig_vars
  BY ConfigStepKeeps DEF TKeeps, PromisesKept
<1>2. ConfigInv /\ [TConfigNext]_tconfig_vars
      => [dispatched' # dispatched /\ dispatched' # Nothing
          => dispatched'.scope = ScopeIn(loaded.document, editor.object)]_tconfig_vars
  BY ConfigStepKeeps DEF TKeeps, PromisesKept
<1>3. TConfigSpec => UnsavedIsNotDropped
  BY <1>1, EditorInvariant, PTL DEF TConfigSpec, UnsavedIsNotDropped
<1>4. TConfigSpec => CredentialIsForCommitted
  BY <1>2, EditorInvariant, PTL DEF TConfigSpec, CredentialIsForCommitted
<1> QED
  BY <1>3, <1>4, PTL DEF DraftsAreHonoured

\* What a screen offers to act on is current: the preset that is staged for the
\* Agent is the one shown, and a connection result is of the draft beside it.
THEOREM ScreensAreCurrent ==
    ASSUME NothingIsNoRecord
    PROVE  TConfigSpec => []ScreenIsCurrent
<1>1. ConfigInv => ScreenIsCurrent
  BY DEF ConfigInv, EditorInv, IsDraft, ScreenIsCurrent, TestedIsCurrent
<1> QED
  BY <1>1, EditorInvariant, PTL
-----------------------------------------------------------------------------
(* Parts of sequences.                                                      *)

LEMMA PartOfSequence ==
    ASSUME NEW S, NEW h \in Seq(S), NEW a \in Nat, NEW n \in Nat, a + n <= Len(h)
    PROVE  /\ SubSeq(h, a + 1, a + n) \in Seq(S)
           /\ Len(SubSeq(h, a + 1, a + n)) = n
           /\ \A i \in 1..n : SubSeq(h, a + 1, a + n)[i] = h[a + i]
  <1> DEFINE p == SubSeq(h, a + 1, a + n)
  <1>0. Len(h) \in Nat
    OBVIOUS
  <1>1. p \in Seq(S)
    BY <1>0
  <1>2. Len(p) = n
    BY <1>0
  <1>3. ASSUME NEW i \in 1..n PROVE p[i] = h[a + i]
    BY <1>0
  <1> QED
    BY <1>1, <1>2, <1>3

LEMMA JoinedSequence ==
    ASSUME NEW S, NEW s \in Seq(S), NEW t \in Seq(S)
    PROVE  s \o t \in Seq(S)
OBVIOUS

LEMMA JoinedLength ==
    ASSUME NEW S, NEW s \in Seq(S), NEW t \in Seq(S)
    PROVE  Len(s \o t) = Len(s) + Len(t)
OBVIOUS

LEMMA JoinedHead ==
    ASSUME NEW S, NEW s \in Seq(S), NEW t \in Seq(S)
    PROVE  \A i \in 1..Len(s) : (s \o t)[i] = s[i]
OBVIOUS

LEMMA JoinedTail ==
    ASSUME NEW S, NEW s \in Seq(S), NEW t \in Seq(S)
    PROVE  \A i \in 1..Len(t) : (s \o t)[Len(s) + i] = t[i]
OBVIOUS

LEMMA SequencesAgree ==
    ASSUME NEW S, NEW s \in Seq(S), NEW t \in Seq(S), Len(s) = Len(t),
           \A i \in 1..Len(s) : s[i] = t[i]
    PROVE  s = t
OBVIOUS

\* What is left of an end of a sequence, itself an end.
LEMMA EndOfEnd ==
    ASSUME NEW S, NEW h \in Seq(S), NEW k \in 0..Len(h), NEW j \in 0..Len(h) - k
    PROVE  LET s == SubSeq(h, k + 1, Len(h))
           IN  SubSeq(s, j + 1, Len(s)) = SubSeq(h, k + j + 1, Len(h))
  <1> DEFINE n == Len(h) - k
             m == n - j
             s == SubSeq(h, k + 1, k + n)
             p == SubSeq(s, j + 1, j + m)
             e == SubSeq(h, (k + j) + 1, (k + j) + m)
  <1>1. /\ Len(h) \in Nat /\ n \in Nat /\ m \in Nat /\ k \in Nat /\ j \in Nat /\ k + j \in Nat
        /\ k + n = Len(h) /\ j + m = n /\ (k + j) + m = Len(h)
    OBVIOUS
  <1> HIDE DEF n, m
  <1>2. s \in Seq(S) /\ Len(s) = n /\ \A i \in 1..n : s[i] = h[k + i]
    <2>1. k + n <= Len(h)
      BY <1>1
    <2> QED
      BY <1>1, <2>1, PartOfSequence
  <1> HIDE DEF s
  <1>3. p \in Seq(S) /\ Len(p) = m /\ \A i \in 1..m : p[i] = s[j + i]
    <2>1. j + m <= Len(s)
      BY <1>1, <1>2
    <2> QED
      BY <1>1, <1>2, <2>1, PartOfSequence
  <1>4. e \in Seq(S) /\ Len(e) = m /\ \A i \in 1..m : e[i] = h[(k + j) + i]
    <2>1. (k + j) + m <= Len(h)
      BY <1>1
    <2> QED
      BY <1>1, <2>1, PartOfSequence
  <1> HIDE DEF p, e
  <1>5. ASSUME NEW i \in 1..m PROVE p[i] = e[i]
    <2>1. j + i \in 1..n /\ k + (j + i) = (k + j) + i
      BY <1>1
    <2> QED
      BY <1>2, <1>3, <1>4, <2>1
  <1>6. p = e
    BY <1>3, <1>4, <1>5, SequencesAgree
  <1>7. s = SubSeq(h, k + 1, Len(h))
    BY <1>1 DEF s
  <1>8. p = SubSeq(s, j + 1, Len(s)) /\ e = SubSeq(h, k + j + 1, Len(h))
    BY <1>1, <1>2 DEF p, e
  <1> QED
    BY <1>6, <1>7, <1>8

\* A sequence whose beginning is kept and whose rest is said, less some
\* of its beginning.
LEMMA RestIsJoined ==
    ASSUME NEW S, NEW h \in Seq(S), NEW a \in Seq(S), NEW r \in Seq(S),
           Len(a) + Len(r) <= Len(h), a \o r = SubSeq(h, 1, Len(a) + Len(r))
    PROVE  r \o SubSeq(h, Len(a) + Len(r) + 1, Len(h)) = SubSeq(h, Len(a) + 1, Len(h))
  <1> DEFINE k == Len(a)
             c == k + Len(r)
             q == Len(h) - c
             t == SubSeq(h, c + 1, c + q)
             e == SubSeq(h, k + 1, k + (Len(r) + q))
             b == SubSeq(h, 0 + 1, 0 + c)
  <1>1. /\ k \in Nat /\ Len(r) \in Nat /\ c \in Nat /\ q \in Nat /\ Len(r) + q \in Nat
        /\ c + q = Len(h) /\ k + (Len(r) + q) = Len(h) /\ Len(a) = k /\ c = k + Len(r)
    OBVIOUS
  <1>0. a \o r = b
    OBVIOUS
  <1> HIDE DEF k, c, q
  <1>2. t \in Seq(S) /\ Len(t) = q /\ \A i \in 1..q : t[i] = h[c + i]
    <2>1. c + q <= Len(h)
      BY <1>1
    <2> QED
      BY <1>1, <2>1, PartOfSequence
  <1>3. e \in Seq(S) /\ Len(e) = Len(r) + q /\ \A i \in 1..(Len(r) + q) : e[i] = h[k + i]
    <2>1. k + (Len(r) + q) <= Len(h)
      BY <1>1
    <2> QED
      BY <1>1, <2>1, PartOfSequence
  <1>4. \A i \in 1..c : b[i] = h[0 + i]
    <2>1. 0 + c <= Len(h) /\ 0 \in Nat
      BY <1>1
    <2> QED
      BY <1>1, <2>1, PartOfSequence
  <1> HIDE DEF t, e, b
  <1>5. \A i \in 1..Len(r) : r[i] = h[k + i]
    <2> SUFFICES ASSUME NEW i \in 1..Len(r) PROVE r[i] = h[k + i]
      OBVIOUS
    <2>0. \A j \in 1..Len(r) : (a \o r)[Len(a) + j] = r[j]
      BY JoinedTail, Zenon
    <2>1. (a \o r)[k + i] = r[i]
      BY <1>1, <2>0
    <2>2. k + i \in 1..c /\ 0 + (k + i) = k + i
      BY <1>1
    <2> QED
      BY <1>0, <1>4, <2>1, <2>2
  <1>6. /\ r \o t \in Seq(S) /\ Len(r \o t) = Len(r) + q
        /\ \A i \in 1..Len(r) : (r \o t)[i] = r[i]
        /\ \A i \in 1..Len(t) : (r \o t)[Len(r) + i] = t[i]
    <2>1. r \o t \in Seq(S)
      BY <1>2, JoinedSequence, Zenon
    <2>2. Len(r \o t) = Len(r) + Len(t)
      BY <1>2, JoinedLength, Zenon
    <2>3. \A i \in 1..Len(r) : (r \o t)[i] = r[i]
      BY <1>2, JoinedHead, Zenon
    <2>4. \A i \in 1..Len(t) : (r \o t)[Len(r) + i] = t[i]
      <3>1. r \in Seq(S) /\ t \in Seq(S)
        BY <1>2
      <3> QED
        BY <3>1, JoinedTail, Zenon
    <2> QED
      BY <1>2, <2>1, <2>2, <2>3, <2>4, Zenon
  <1>7. ASSUME NEW i \in 1..Len(r) + q PROVE (r \o t)[i] = e[i]
    <2>1. e[i] = h[k + i]
      BY <1>3
    <2>2. CASE i <= Len(r)
      <3>1. i \in 1..Len(r)
        BY <1>1, <2>2
      <3> QED
        BY <1>5, <1>6, <2>1, <3>1
    <2>3. CASE ~(i <= Len(r))
      <3> DEFINE j == i - Len(r)
      <3>1. j \in 1..q /\ i = Len(r) + j /\ c + j = k + i
        BY <1>1, <2>3
      <3> HIDE DEF j
      <3>2. (r \o t)[i] = t[j] /\ t[j] = h[c + j]
        BY <1>2, <1>6, <3>1
      <3> QED
        BY <2>1, <3>1, <3>2
    <2> QED
      BY <2>2, <2>3
  <1>8. r \o t = e
    BY <1>3, <1>6, <1>7, SequencesAgree
  <1>9. t = SubSeq(h, c + 1, Len(h)) /\ e = SubSeq(h, k + 1, Len(h))
    BY <1>1 DEF t, e
  <1>10. r \o SubSeq(h, c + 1, Len(h)) = SubSeq(h, k + 1, Len(h))
    BY <1>8, <1>9
  <1> QED
    BY <1>10 DEF k, c

-----------------------------------------------------------------------------
(* What of a conversation reaches a Provider.                               *)

ContextSpec == ContextInit /\ [][ContextNext]_context_vars

Item == [id : Nat, turn : Nat, role : {"User", "Assistant"}, bytes : Nat, tokens : Nat]

Numbered(h) == h \in Seq(Item) /\ \A i \in DOMAIN h : h[i].id = i

\* What is asked with a checkpoint.
AskedWith(view, history) ==
    IF history = <<>> THEN RequestView(0, <<>>)
    ELSE IF view # NoView THEN materialize_request(view, history)
    ELSE request_from_items(history)
Asked(history) == AskedWith(checkpoint, history)
Begun == turn \in {"Admitted", "Reconcile"}

\* A checkpoint that is stored or held.
IsStored(view) ==
    view # NoView => IsView(view) /\ view.artifacts \in Seq(Item) /\ view.recent \in Seq(Item)

\* The Items are numbered, and a pending Turn's own are the last.
Own(t) == IF t = "Admitted" THEN 1 ELSE IF t = "Reconcile" THEN 2 ELSE 0
Fits(s, t) ==
    /\ Numbered(s)
    /\ t \in {"Ready", "Pressed", "Admitted", "Reconcile"}
    /\ t = "Admitted" => Len(s) > 0 /\ s[Len(s)].role = "User"
    /\ t = "Reconcile" =>
        /\ Len(s) > 1 /\ s[Len(s)].role = "Assistant"
        /\ s[Len(s) - 1].role = "User"
ItemsInv == Fits(items, turn)

\* What a pending Turn was asked with is what it would be asked with now.
AskedInv ==
    /\ ~Begun => asked = {}
    /\ Begun => IsView(Asked(History))
    /\ \A view \in asked : view = [kind |-> "view", shown |-> Asked(History).shown]

ContextInv ==
    ItemsInv /\ IsStored(checkpoint) /\ IsStored(prepared) /\ AskedInv /\ DecisionMatchesPercent

ByteWeights(s) == [i \in 1..Len(s) |-> s[i].bytes]

\* raw_bytes is a sum over the Items.
LEMMA RawBytesSums ==
    ASSUME NEW s \in Seq(Item)
    PROVE  \E g : SumsOver(g, ByteWeights(s), Len(s)) /\ raw_bytes(s) = g[1..Len(s)]
  <1> DEFINE D(g) == g = [t \in SUBSET DOMAIN s |->
                            IF t = {} THEN 0 ELSE g[t \ {Max(t)}] + s[Max(t)].bytes]
  <1>1. raw_bytes(s) = (CHOOSE g : D(g))[DOMAIN s]
    BY Zenon DEF raw_bytes, FoldLeft, MapThenFoldSet
  <1>2. Len(s) \in Nat /\ DOMAIN s = 1..Len(s)
    OBVIOUS
  <1>3. \A t \in SUBSET (1..Len(s)) : t # {} => ByteWeights(s)[Max(t)] = s[Max(t)].bytes
    BY <1>2, MaxIsMember DEF ByteWeights
  <1>4. \A g : D(g) <=> SumsOver(g, ByteWeights(s), Len(s))
    BY <1>2, <1>3 DEF SumsOver
  <1>5. \E g : SumsOver(g, ByteWeights(s), Len(s))
    BY <1>2, FoldsExist
  <1> HIDE DEF D
  <1>6. D(CHOOSE g : D(g))
    BY <1>4, <1>5
  <1>7. QED
    BY <1>1, <1>2, <1>4, <1>6

LEMMA RawBytesOfNone == raw_bytes(<<>>) = 0
  <1>1. <<>> \in Seq(Item) /\ Len(<<>>) = 0
    OBVIOUS
  <1>2. PICK g : SumsOver(g, ByteWeights(<<>>), 0) /\ raw_bytes(<<>>) = g[1..0]
    BY <1>1, RawBytesSums
  <1>3. 1..0 = {} /\ 0 \in Nat
    OBVIOUS
  <1>4. QED
    BY <1>2, <1>3, SumOfNone

LEMMA RawBytesAppend ==
    ASSUME NEW s \in Seq(Item), NEW item \in Item
    PROVE  /\ raw_bytes(s) \in Nat
           /\ raw_bytes(Append(s, item)) = raw_bytes(s) + item.bytes
  <1> DEFINE n == Len(s)
             more == Append(s, item)
  <1>1. /\ n \in Nat /\ more \in Seq(Item) /\ Len(more) = n + 1
        /\ more[n + 1] = item /\ \A i \in 1..n : more[i] = s[i]
    OBVIOUS
  <1> HIDE DEF more, n
  <1>2. /\ ByteWeights(more)[n + 1] = item.bytes
        /\ \A i \in 1..n : ByteWeights(s)[i] = ByteWeights(more)[i]
    BY <1>1 DEF ByteWeights, n
  <1>3. \A i \in 1..(n + 1) : ByteWeights(more)[i] \in Nat
    <2>1. \A i \in 1..(n + 1) : more[i] \in Item
      BY <1>1
    <2>2. \A i \in 1..(n + 1) : more[i].bytes \in Nat
      BY <2>1 DEF Item
    <2> QED
      BY <1>1, <2>2 DEF ByteWeights
  <1>4. PICK g : SumsOver(g, ByteWeights(s), n) /\ raw_bytes(s) = g[1..n]
    BY RawBytesSums DEF n
  <1>5. PICK h : SumsOver(h, ByteWeights(more), n + 1) /\ raw_bytes(more) = h[1..(n + 1)]
    BY <1>1, RawBytesSums
  <1>6. h[1..(n + 1)] = g[1..n] + ByteWeights(more)[n + 1]
    <2>1. n \in Nat /\ \A i \in 1..n : ByteWeights(s)[i] = ByteWeights(more)[i]
      BY <1>1, <1>2
    <2> QED
      BY <1>3, <1>4, <1>5, <2>1, SumAppend
  <1>7. g[1..n] \in Nat
    <2>1. n \in 0..n /\ \A i \in 1..n : ByteWeights(s)[i] \in Nat
      BY <1>1, <1>2, <1>3
    <2>2. QED
      BY <1>1, <1>4, <2>1, FoldsStep
  <1>8. QED
    BY <1>2, <1>4, <1>5, <1>6, <1>7 DEF more

\* The end of a conversation is no larger than a longer end of it.
LEMMA EndIsSmaller ==
    ASSUME NEW s \in Seq(Item), NEW k \in 1..Len(s) + 1
    PROVE  raw_bytes(SubSeq(s, k, Len(s))) <= raw_bytes(s)
  <1> DEFINE All(n) == SubSeq(s, 1, n)
             Part(n) == SubSeq(s, k, n)
             P(n) == All(n) \in Seq(Item) /\ Part(n) \in Seq(Item) /\ raw_bytes(Part(n)) <= raw_bytes(All(n))
             T == {n \in 0..Len(s) : P(n)}
  <1>0. Len(s) \in Nat
    OBVIOUS
  <1>1. 0 \in T
    <2>1. All(0) = <<>> /\ Part(0) = <<>> /\ <<>> \in Seq(Item)
      OBVIOUS
    <2>a. All(0) \in Seq(Item) /\ Part(0) \in Seq(Item)
      OBVIOUS
    <2> HIDE DEF All, Part
    <2>0. raw_bytes(Part(0)) = 0 /\ raw_bytes(All(0)) = 0
      BY <2>1, RawBytesOfNone, Zenon
    <2>b. raw_bytes(Part(0)) <= raw_bytes(All(0))
      BY <2>0
    <2>2. P(0)
      BY <2>a, <2>b, Zenon
    <2> QED
      BY <1>0, <2>2
  <1>2. ASSUME NEW n \in 1..Len(s), n - 1 \in T PROVE n \in T
    <2>1. s[n] \in Item
      OBVIOUS
    <2>2. s[n].bytes \in Nat
      BY <2>1 DEF Item
    <2>3. All(n) = Append(All(n - 1), s[n]) /\ All(n) \in Seq(Item)
      OBVIOUS
    <2>4. IF n < k THEN Part(n) = <<>> ELSE Part(n) = Append(Part(n - 1), s[n])
      OBVIOUS
    <2>5. Part(n) \in Seq(Item)
      OBVIOUS
    <2>6. P(n - 1)
      BY <1>2
    <2> HIDE DEF All, Part
    <2>7. raw_bytes(All(n)) = raw_bytes(All(n - 1)) + s[n].bytes /\ raw_bytes(All(n - 1)) \in Nat
      BY <2>1, <2>3, <2>6, RawBytesAppend
    <2>8. raw_bytes(Part(n)) <= raw_bytes(All(n))
      <3>1. CASE n < k
        <4>1. raw_bytes(Part(n)) = 0
          BY <2>4, <3>1, RawBytesOfNone
        <4> QED
          BY <2>2, <2>7, <4>1
      <3>2. CASE ~(n < k)
        <4>1. /\ raw_bytes(Part(n)) = raw_bytes(Part(n - 1)) + s[n].bytes
              /\ raw_bytes(Part(n - 1)) \in Nat
          BY <2>1, <2>4, <2>6, <3>2, RawBytesAppend
        <4>2. raw_bytes(Part(n - 1)) <= raw_bytes(All(n - 1))
          BY <2>6
        <4> QED
          BY <2>2, <2>7, <4>1, <4>2
      <3> QED
        BY <3>1, <3>2
    <2>9. P(n)
      BY <2>3, <2>5, <2>8
    <2> QED
      BY <2>9
  <1>3. Len(s) \in T
    <2>1. Len(s) \in 0..Len(s)
      BY <1>0
    <2> HIDE DEF T
    <2> QED
      BY <1>0, <1>1, <1>2, <2>1, IntervalInduction
  <1>4. All(Len(s)) = s
    OBVIOUS
  <1>5. P(Len(s))
    BY <1>3
  <1> HIDE DEF All
  <1> QED
    BY <1>4, <1>5

LEMMA RawBytesIsNat ==
    ASSUME NEW s \in Seq(Item), NEW k \in 1..Len(s) + 1
    PROVE  raw_bytes(s) \in Nat /\ raw_bytes(SubSeq(s, k, Len(s))) \in Nat
  <1>1. ASSUME NEW t \in Seq(Item) PROVE raw_bytes(t) \in Nat
    <2>0. Len(t) \in Nat
      OBVIOUS
    <2>1. CASE Len(t) = 0
      <3>1. t = <<>>
        BY <2>1
      <3> QED
        BY <3>1, RawBytesOfNone
    <2>2. CASE Len(t) > 0
      <3> DEFINE u == SubSeq(t, 1, Len(t) - 1)
      <3>1. u \in Seq(Item) /\ t[Len(t)] \in Item
        BY <2>0, <2>2
      <3>2. t = Append(u, t[Len(t)])
        BY <2>0, <2>2
      <3>3. t[Len(t)].bytes \in Nat
        BY <3>1 DEF Item
      <3> HIDE DEF u
      <3>4. raw_bytes(u) \in Nat /\ raw_bytes(Append(u, t[Len(t)])) = raw_bytes(u) + t[Len(t)].bytes
        BY <3>1, RawBytesAppend
      <3>5. raw_bytes(t) = raw_bytes(u) + t[Len(t)].bytes
        BY <3>2, <3>4
      <3> QED
        BY <3>3, <3>4, <3>5
    <2> QED
      BY <2>0, <2>1, <2>2
  <1>2. SubSeq(s, k, Len(s)) \in Seq(Item)
    OBVIOUS
  <1> QED
    BY <1>1, <1>2

-----------------------------------------------------------------------------
(* Views.                                                                   *)

LEMMA NumberedIncreases == ASSUME NEW h, Numbered(h) PROVE Increasing(h)
BY DEF Numbered, Increasing

LEMMA PrefixIsNumbered ==
    ASSUME NEW h, Numbered(h), NEW n \in 0..Len(h)
    PROVE  Numbered(SubSeq(h, 1, n)) /\ Len(SubSeq(h, 1, n)) = n
BY DEF Numbered

\* Where what is shown begins.
LEMMA FirstUserIs ==
    ASSUME NEW s \in Seq(Item)
    PROVE  /\ FirstUser(s) \in 1..Len(s) + 1
           /\ FirstUser(s) <= Len(s) => s[FirstUser(s)].role = "User"
  <1> DEFINE I == {i \in 1..Len(s) : s[i].role = "User"}
  <1>1. CASE \E i \in DOMAIN s : s[i].role = "User"
    <2>1. I \in SUBSET (1..Len(s)) /\ I # {}
      BY <1>1
    <2>2. FirstUser(s) = Min(I)
      BY <1>1, <2>1, Zenon DEF FirstUser, SelectInSeq
    <2>3. I \subseteq Nat /\ I # {} /\ I \subseteq Int
      BY <2>1
    <2>4. Min(I) \in I
      <3> HIDE DEF I
      <3>1. PICK x \in I : \A y \in I : ~(y < x)
        <4>1. I \subseteq Nat /\ I # {}
          BY <2>3
        <4> QED
          BY <4>1, LeastNat, Zenon
      <3>2. \A y \in I : x <= y
        BY <2>3, <3>1
      <3> QED
        BY <3>2 DEF Min
    <2> QED
      BY <2>2, <2>4
  <1>2. CASE ~\E i \in DOMAIN s : s[i].role = "User"
    BY <1>2 DEF FirstUser
  <1> QED
    BY <1>1, <1>2

\* A view of the end of a conversation.
ShowsEndOf(view, h) ==
    /\ view.shown \in Seq(Item)
    /\ view.shown = SubSeq(h, Len(h) - Len(view.shown) + 1, Len(h))
    /\ view.shown # <<>> => view.shown[1].role = "User"
    /\ view.archived + Len(view.shown) = Len(h)

LEMMA RequestViewShows ==
    ASSUME NEW h \in Seq(Item), NEW k \in 0..Len(h)
    PROVE  /\ ShowsEndOf(RequestView(k, SubSeq(h, k + 1, Len(h))), h)
           /\ IsView(RequestView(k, SubSeq(h, k + 1, Len(h))))
  <1> DEFINE s == SubSeq(h, k + 1, Len(h))
             start == FirstUser(s)
             j == start - 1
             told == SubSeq(s, start, Len(s))
  <1>1. s \in Seq(Item) /\ Len(s) = Len(h) - k /\ Len(h) \in Nat
    <2> DEFINE n == Len(h) - k
    <2>1. k + n = Len(h) /\ k + n <= Len(h) /\ n \in Nat /\ k \in Nat /\ Len(h) \in Nat
      OBVIOUS
    <2> HIDE DEF n
    <2>2. SubSeq(h, k + 1, k + n) \in Seq(Item) /\ Len(SubSeq(h, k + 1, k + n)) = n
      BY <2>1, PartOfSequence
    <2>3. s \in Seq(Item) /\ Len(s) = n
      BY <2>1, <2>2
    <2> HIDE DEF s
    <2> QED
      BY <2>1, <2>3 DEF n
  <1>2. start \in 1..Len(s) + 1 /\ (start <= Len(s) => s[start].role = "User")
    <2> HIDE DEF s
    <2> QED
      BY <1>1, FirstUserIs
  <1>3. j \in 0..Len(h) - k /\ start = j + 1
    <2> HIDE DEF start, s
    <2> QED
      BY <1>1, <1>2
  <1>4. told = SubSeq(h, k + j + 1, Len(h))
    <2> HIDE DEF start
    <2>1. j \in 0..Len(h) - k /\ start = j + 1
      BY <1>3
    <2> HIDE DEF j
    <2>2. SubSeq(s, j + 1, Len(s)) = SubSeq(h, k + j + 1, Len(h))
      BY <2>1, EndOfEnd
    <2>3. told = SubSeq(s, start, Len(s))
      OBVIOUS
    <2> HIDE DEF s, told
    <2> QED
      BY <2>1, <2>2, <2>3, Zenon
  <1>5. told \in Seq(Item) /\ Len(told) = Len(h) - (k + j)
        /\ (Len(told) > 0 => told[1] = s[start])
    <2> HIDE DEF start
    <2> DEFINE n == Len(s) - j
    <2>1. j \in Nat /\ n \in Nat /\ j + n = Len(s) /\ j + n <= Len(s) /\ start = j + 1
      <3> HIDE DEF s
      <3> QED
        BY <1>1, <1>3
    <2>2. s \in Seq(Item) /\ Len(s) = Len(h) - k /\ k \in Nat /\ Len(h) \in Nat
      BY <1>1
    <2> HIDE DEF n, j, s
    <2>3. /\ SubSeq(s, j + 1, j + n) \in Seq(Item)
          /\ Len(SubSeq(s, j + 1, j + n)) = n
          /\ \A i \in 1..n : SubSeq(s, j + 1, j + n)[i] = s[j + i]
      BY <2>1, <2>2, PartOfSequence
    <2>4. told = SubSeq(s, j + 1, j + n)
      BY <2>1
    <2> HIDE DEF told
    <2>5. n = Len(h) - (k + j)
      BY <2>1, <2>2 DEF n
    <2>6. n > 0 => told[1] = s[j + 1]
      BY <2>1, <2>3, <2>4
    <2> QED
      BY <2>1, <2>3, <2>4, <2>5, <2>6
  <1>6. RequestView(k, s) = [kind |-> "view", archived |-> k + start - 1, shown |-> told,
                             bytes |-> raw_bytes(told), tokens |-> estimated_tokens(told)]
    BY Zenon DEF RequestView
  <1>7. Len(s) \in Nat
    BY <1>1
  <1> DEFINE view == RequestView(k, s)
  <1> HIDE DEF start, s, told
  <1>8. view.shown = told /\ view.archived = k + start - 1 /\ view.kind = "view"
    BY <1>6
  <1>9. start \in Int /\ k \in Nat /\ start - 1 = j /\ j \in Nat
    BY <1>3
  <1> HIDE DEF view, j
  <1>10. view.archived + Len(view.shown) = Len(h)
    <2>1. Len(view.shown) = Len(told) /\ view.archived = k + start - 1
      BY <1>8
    <2>2. Len(told) = Len(h) - (k + j) /\ Len(h) \in Nat
      BY <1>1, <1>5
    <2> QED
      BY <1>9, <2>1, <2>2
  <1>11. told # <<>> => told[1].role = "User"
    <2> SUFFICES ASSUME told # <<>> PROVE told[1].role = "User"
      OBVIOUS
    <2>1. Len(told) > 0
      BY <1>5
    <2>2. start <= Len(s)
      BY <1>1, <1>5, <1>9, <2>1
    <2> QED
      BY <1>2, <1>5, <2>1, <2>2
  <1>12. Len(h) - Len(told) + 1 = k + j + 1
    BY <1>1, <1>5, <1>9
  <1>13. view.shown = SubSeq(h, Len(h) - Len(view.shown) + 1, Len(h))
    BY <1>4, <1>8, <1>12
  <1>14. ShowsEndOf(view, h) /\ IsView(view)
    BY <1>5, <1>8, <1>10, <1>11, <1>13 DEF ShowsEndOf, IsView
  <1> QED
    BY <1>14 DEF view, s

\* What a checkpoint keeps and what was said since are the rest of the
\* conversation.
LEMMA MaterializedView ==
    ASSUME NEW view, view.artifacts \in Seq(Item), view.recent \in Seq(Item), NEW h \in Seq(Item),
           IsView(materialize_request(view, h))
    PROVE  \E k \in 0..Len(h) : materialize_request(view, h) = RequestView(k, SubSeq(h, k + 1, Len(h)))
  <1> DEFINE covered == Len(view.artifacts) + Len(view.recent)
             k == Len(view.artifacts)
             s == view.recent \o SubSeq(h, covered + 1, Len(h))
  <1>1. /\ materialize_request(view, h) = RequestView(k, s)
        /\ ~(Len(h) < covered) /\ view.artifacts \o view.recent = SubSeq(h, 1, covered)
    BY DEF materialize_request, validate_against_items, IsView, Refused
  <1>2. k \in 0..Len(h) /\ covered <= Len(h)
    <2>1. k \in Nat /\ Len(view.recent) \in Nat /\ Len(h) \in Nat
      OBVIOUS
    <2>2. ~(Len(h) < covered) /\ covered = k + Len(view.recent)
      BY <1>1
    <2> HIDE DEF k, covered
    <2> QED
      BY <2>1, <2>2
  <1>3. s = SubSeq(h, k + 1, Len(h))
    BY <1>1, <1>2, RestIsJoined
  <1> QED
    BY <1>1, <1>2, <1>3

LEMMA StoredView ==
    ASSUME NEW h \in Seq(Item), IsView(request_from_items(h))
    PROVE  request_from_items(h) = RequestView(0, SubSeq(h, 0 + 1, Len(h)))
  <1>1. request_from_items(h) = RequestView(0, h)
    BY DEF request_from_items, IsView, Refused
  <1>2. h = SubSeq(h, 0 + 1, Len(h))
    OBVIOUS
  <1> QED
    BY <1>1, <1>2

LEMMA RequestsShowTheEnd ==
    ASSUME NEW h \in Seq(Item), IsStored(checkpoint)
    PROVE  IsView(Asked(h)) => ShowsEndOf(Asked(h), h)
  <1> SUFFICES ASSUME IsView(Asked(h)) PROVE ShowsEndOf(Asked(h), h)
    OBVIOUS
  <1>1. Len(h) \in Nat /\ 0 \in 0..Len(h)
    OBVIOUS
  <1>2. CASE h = <<>>
    <2>1. h = SubSeq(h, 0 + 1, Len(h))
      OBVIOUS
    <2>2. Asked(h) = RequestView(0, h)
      BY <1>2 DEF Asked, AskedWith
    <2> QED
      BY <1>1, <2>1, <2>2, RequestViewShows
  <1>3. CASE h # <<>> /\ checkpoint # NoView
    <2>1. Asked(h) = materialize_request(checkpoint, h)
      BY <1>3 DEF Asked, AskedWith
    <2>2. \E k \in 0..Len(h) : Asked(h) = RequestView(k, SubSeq(h, k + 1, Len(h)))
      BY <1>3, <2>1, MaterializedView DEF IsStored
    <2> QED
      BY <2>2, RequestViewShows
  <1>4. CASE h # <<>> /\ checkpoint = NoView
    <2>1. Asked(h) = request_from_items(h)
      BY <1>4 DEF Asked, AskedWith
    <2> QED
      BY <1>1, <2>1, StoredView, RequestViewShows
  <1> QED
    BY <1>2, <1>3, <1>4

\* The preview is what would be asked.
LEMMA PreviewIsAsked ==
    ASSUME History \in Seq(Item), IsStored(checkpoint), IsView(preview_from_state)
    PROVE  preview_from_state = Asked(History)
  <1> DEFINE h == History
  <1>1. CASE h # <<>>
    BY <1>1 DEF preview_from_state, Asked, AskedWith
  <1>2. CASE h = <<>>
    <2>0. h \in Seq(Item) /\ Len(h) = 0
      BY <1>2
    <2>1. Asked(h) = RequestView(0, <<>>)
      BY <1>2 DEF Asked, AskedWith
    <2>2. CASE checkpoint # NoView
      <3>1. preview_from_state = materialize_request(checkpoint, h)
        BY <2>2 DEF preview_from_state
      <3> HIDE DEF h
      <3>2. PICK k \in 0..0 : preview_from_state = RequestView(k, SubSeq(h, k + 1, Len(h)))
        BY <2>0, <2>2, <3>1, MaterializedView DEF IsStored
      <3>3. k = 0 /\ SubSeq(h, k + 1, Len(h)) = <<>>
        BY <1>2
      <3> QED
        BY <2>1, <3>2, <3>3 DEF h
    <2>3. CASE checkpoint = NoView
      <3>1. preview_from_state = request_from_items(h)
        BY <2>3 DEF preview_from_state
      <3> HIDE DEF h
      <3>2. preview_from_state = RequestView(0, SubSeq(h, 0 + 1, Len(h)))
        BY <2>0, <3>1, StoredView
      <3>3. SubSeq(h, 0 + 1, Len(h)) = <<>>
        BY <1>2
      <3> QED
        BY <2>1, <3>2, <3>3 DEF h
    <2> QED
      BY <2>2, <2>3
  <1> QED
    BY <1>1, <1>2

-----------------------------------------------------------------------------
(* What a reduction keeps.                                                  *)

LEMMA SplitSequence ==
    ASSUME NEW S, NEW h \in Seq(S), NEW k \in 0..Len(h)
    PROVE  SubSeq(h, 1, k) \o SubSeq(h, k + 1, Len(h)) = h
  <1> DEFINE a == SubSeq(h, 1, k)
  <1>1. a \in Seq(S) /\ Len(a) = k
    OBVIOUS
  <1>2. <<>> \in Seq(S) /\ Len(<<>>) = 0 /\ k \in Nat /\ k <= Len(h) /\ Len(h) \in Nat
    OBVIOUS
  <1> DEFINE n == Len(h) - k
             e == SubSeq(h, k + 1, k + n)
  <1>3. n \in Nat /\ k + n = Len(h) /\ k + n <= Len(h)
    BY <1>2
  <1> HIDE DEF n
  <1>4. e \in Seq(S) /\ Len(e) = n /\ \A i \in 1..n : e[i] = h[k + i]
    BY <1>2, <1>3, PartOfSequence
  <1>5. \A i \in 1..k : a[i] = h[i]
    OBVIOUS
  <1> HIDE DEF a, e
  <1>6. a \o e \in Seq(S)
    <2>1. e \in Seq(S)
      BY <1>4
    <2> QED
      BY <1>1, <2>1, JoinedSequence, Zenon
  <1>7. Len(a \o e) = k + n
    <2>1. e \in Seq(S) /\ Len(e) = n
      BY <1>4
    <2>2. Len(a \o e) = Len(a) + Len(e)
      BY <1>1, <2>1, JoinedLength, Zenon
    <2> QED
      BY <1>1, <2>1, <2>2
  <1>8. ASSUME NEW i \in 1..Len(h) PROVE (a \o e)[i] = h[i]
    <2>1. e \in Seq(S) /\ Len(e) = n
      BY <1>4
    <2>2. CASE i <= k
      <3>1. i \in 1..Len(a) /\ i \in 1..k
        BY <1>1, <1>2, <2>2
      <3>2. (a \o e)[i] = a[i]
        BY <1>1, <2>1, <3>1, JoinedHead, Zenon
      <3> QED
        BY <1>5, <3>1, <3>2
    <2>3. CASE ~(i <= k)
      <3> DEFINE j == i - k
      <3>1. j \in 1..Len(e) /\ i = k + j /\ j \in 1..n
        BY <1>2, <1>3, <2>1, <2>3
      <3> HIDE DEF j
      <3>2. (a \o e)[Len(a) + j] = e[j]
        BY <1>1, <2>1, <3>1, JoinedTail, Zenon
      <3> QED
        BY <1>1, <1>4, <3>1, <3>2
    <2> QED
      BY <2>2, <2>3
  <1>9. a \o e = h
    <2>1. Len(a \o e) = Len(h)
      BY <1>3, <1>7
    <2> QED
      BY <1>6, <1>8, <2>1, SequencesAgree
  <1> QED
    BY <1>3, <1>9 DEF a, e

\* The longest end that fits the policy, which may be none of it.
LEMMA RecentFits ==
    ASSUME NEW h \in Seq(Item), NEW policy, policy.bytes \in Nat, policy.items \in Nat
    PROVE  \E k \in 0..Len(h) :
              /\ RecentItems(h, policy) = SubSeq(h, k + 1, Len(h))
              /\ raw_bytes(SubSeq(h, k + 1, Len(h))) <= policy.bytes
  <1> DEFINE End(n) == SubSeq(h, Len(h) - n + 1, Len(h))
             fits == {n \in 0..Len(h) : n <= policy.items /\ raw_bytes(End(n)) <= policy.bytes}
             best == CHOOSE n \in fits : \A m \in fits : m <= n
             R == {r \in 0..Len(h) : \E n \in fits : r = Len(h) - n}
  <1>1. Len(h) \in Nat /\ RecentItems(h, policy) = End(best)
    BY DEF RecentItems
  <1>2. 0 \in fits
    <2>1. End(0) = <<>>
      BY <1>1
    <2>2. raw_bytes(End(0)) = 0
      BY <2>1, RawBytesOfNone
    <2> HIDE DEF End
    <2> QED
      BY <1>1, <2>2
  <1>3. fits \subseteq 0..Len(h) /\ \A n \in fits : raw_bytes(End(n)) <= policy.bytes
    OBVIOUS
  <1> HIDE DEF fits, End
  <1>4. PICK r \in R : \A q \in R : ~(q < r)
    <2>1. R \subseteq Nat /\ R # {}
      BY <1>1, <1>2, <1>3
    <2> HIDE DEF R
    <2> QED
      BY <2>1, LeastNat
  <1>5. PICK top \in fits : r = Len(h) - top
    BY <1>4
  <1>6. \A m \in fits : m <= top
    <2> SUFFICES ASSUME NEW m \in fits PROVE m <= top
      OBVIOUS
    <2>1. Len(h) - m \in R
      BY <1>1, <1>3
    <2>2. ~(Len(h) - m < r)
      BY <1>4, <2>1
    <2> QED
      BY <1>1, <1>3, <1>5, <2>2
  <1>7. best \in fits
    BY <1>5, <1>6
  <1>8. best \in 0..Len(h) /\ raw_bytes(End(best)) <= policy.bytes
    BY <1>3, <1>7
  <1> HIDE DEF best
  <1> DEFINE k == Len(h) - best
  <1>9. k \in 0..Len(h) /\ Len(h) - best + 1 = k + 1
    BY <1>1, <1>8
  <1>10. End(best) = SubSeq(h, k + 1, Len(h))
    BY <1>9 DEF End
  <1> HIDE DEF k
  <1> QED
    BY <1>1, <1>8, <1>9, <1>10

\* A reduction of a history within the Item limit is a checkpoint, and the
\* next request can be made from it.
LEMMA ReductionReopens ==
    ASSUME NEW h, Numbered(h), Len(h) <= MaxViewItems,
           NEW policy, policy.bytes \in 1..MaxViewBytes, policy.items \in 1..MaxViewItems
    PROVE  LET view == reduced_from_items(h, policy)
           IN  IsView(view) /\ IsView(materialize_request(view, h))
  <1> DEFINE view == reduced_from_items(h, policy)
  <1>0. MaxViewBytes \in Nat /\ MaxViewItems \in Nat /\ policy.bytes \in Nat /\ policy.items \in Nat
        /\ policy.bytes <= MaxViewBytes
    <2>1. MaxViewBytes \in Nat /\ MaxViewItems \in Nat
      BY ContextAssumption
    <2> QED
      BY <2>1
  <1>1. h \in Seq(Item) /\ Len(h) \in Nat /\ Increasing(h)
    BY NumberedIncreases DEF Numbered
  <1>2. PICK k \in 0..Len(h) :
           /\ RecentItems(h, policy) = SubSeq(h, k + 1, Len(h))
           /\ raw_bytes(SubSeq(h, k + 1, Len(h))) <= policy.bytes
    BY <1>0, <1>1, RecentFits
  <1> DEFINE artifacts == SubSeq(h, 1, k)
             recent == SubSeq(h, k + 1, Len(h))
             n == Len(h) - k
  <1>3. /\ recent \in Seq(Item) /\ Len(recent) = n /\ artifacts \in Seq(Item) /\ Len(artifacts) = k
    <2>1. /\ k \in Nat /\ n \in Nat /\ k + n = Len(h) /\ k + n <= Len(h) /\ 0 \in Nat
          /\ 0 + k = k /\ 0 + 1 = 1 /\ 0 + k <= Len(h)
      BY <1>1
    <2>2. SubSeq(h, 0 + 1, 0 + k) \in Seq(Item) /\ Len(SubSeq(h, 0 + 1, 0 + k)) = k
      BY <1>1, <2>1, PartOfSequence
    <2> HIDE DEF n
    <2>3. SubSeq(h, k + 1, k + n) \in Seq(Item) /\ Len(SubSeq(h, k + 1, k + n)) = n
      BY <1>1, <2>1, PartOfSequence
    <2> QED
      BY <2>1, <2>2, <2>3
  <1>4. artifacts \o recent = h
    BY <1>1, SplitSequence
  <1>5. k + n = Len(h) /\ k \in Nat /\ n \in Nat /\ Len(h) - n = k
    BY <1>1
  <1>6. RecentItems(h, policy) = recent /\ raw_bytes(recent) <= policy.bytes
    BY <1>2
  <1>7. SubSeq(h, 1, Len(h) - Len(recent)) = artifacts
    <2> HIDE DEF recent, n
    <2> QED
      BY <1>3, <1>5
  <1> HIDE DEF recent, artifacts, n
  <1>8. raw_bytes(recent) <= MaxViewBytes /\ raw_bytes(recent) \in Int
    <2>1. raw_bytes(recent) \in Nat
      <3>1. recent = <<>> \/ recent # <<>>
        OBVIOUS
      <3> QED
        BY <1>3, RawBytesIsNat
    <2> QED
      BY <1>0, <1>6, <2>1
  <1>9. view = from_stored(artifacts, recent)
    <2>1. ~(Len(h) > MaxViewItems)
      BY <1>0, <1>1
    <2> QED
      BY <1>6, <1>7, <2>1 DEF reduced_from_items
  <1>10. view = [kind |-> "view", artifacts |-> artifacts, recent |-> recent]
    <2>1. ~(Len(artifacts) + Len(recent) > MaxViewItems) /\ ~(raw_bytes(recent) > MaxViewBytes)
      BY <1>0, <1>1, <1>3, <1>5, <1>8
    <2>2. Increasing(artifacts \o recent)
      BY <1>1, <1>4
    <2> QED
      BY <1>9, <2>1, <2>2 DEF from_stored
  <1> HIDE DEF view
  <1>11. view.kind = "view" /\ view.artifacts = artifacts /\ view.recent = recent
    BY <1>10
  <1> DEFINE covered == Len(view.artifacts) + Len(view.recent)
             rest == view.recent \o SubSeq(h, covered + 1, Len(h))
             request == RequestView(Len(view.artifacts), rest)
  <1>12. covered = Len(h)
    BY <1>3, <1>5, <1>11
  <1>13. rest = recent
    <2> HIDE DEF covered
    <2>1. SubSeq(h, covered + 1, Len(h)) = <<>>
      BY <1>1, <1>12
    <2>2. recent \o <<>> = recent
      BY <1>3
    <2> QED
      BY <1>11, <2>1, <2>2
  <1>14. SubSeq(h, 1, covered) = h
    <2> HIDE DEF covered
    <2> QED
      BY <1>1, <1>12
  <1>15. validate_against_items(view, SubSeq(h, 1, covered))
    <2> HIDE DEF covered
    <2> QED
      BY <1>4, <1>11, <1>14 DEF validate_against_items
  <1>16. ~(Len(h) < covered) /\ ~(Len(h) > MaxViewItems)
    <2> HIDE DEF covered
    <2> QED
      BY <1>0, <1>1, <1>12
  <1>17. request.bytes = raw_bytes(SubSeq(recent, FirstUser(recent), Len(recent))) /\ request.kind = "view"
    <2>1. request = RequestView(k, recent)
      BY <1>3, <1>11, <1>13
    <2> HIDE DEF request
    <2> QED
      BY <2>1 DEF RequestView
  <1>18. request.bytes <= MaxViewBytes
    <2>1. FirstUser(recent) \in 1..Len(recent) + 1
      BY <1>3, FirstUserIs
    <2>2. raw_bytes(SubSeq(recent, FirstUser(recent), Len(recent))) <= raw_bytes(recent)
      BY <1>3, <2>1, EndIsSmaller
    <2>3. raw_bytes(SubSeq(recent, FirstUser(recent), Len(recent))) \in Nat
      BY <1>3, <2>1, RawBytesIsNat
    <2>4. request.bytes = raw_bytes(SubSeq(recent, FirstUser(recent), Len(recent)))
      BY <1>17
    <2> HIDE DEF request
    <2> QED
      BY <1>0, <1>8, <2>2, <2>3, <2>4
  <1>19. ~(request.bytes > MaxViewBytes)
    <2>1. request.bytes \in Nat
      BY <1>3, <1>17, FirstUserIs, RawBytesIsNat
    <2> HIDE DEF request
    <2> QED
      BY <1>0, <1>18, <2>1
  <1>20. materialize_request(view, h) = request
    BY <1>1, <1>15, <1>16, <1>19, Zenon DEF materialize_request
  <1> HIDE DEF request
  <1>21. IsView(view) /\ IsView(materialize_request(view, h))
    BY <1>11, <1>17, <1>20 DEF IsView
  <1> QED
    BY <1>21 DEF view

-----------------------------------------------------------------------------
(* The decision and its percentage.                                         *)

LEMMA TimesGrows ==
    ASSUME NEW d \in Nat, NEW x \in Nat, NEW y \in Nat, x <= y
    PROVE  d * x <= d * y
  <1> DEFINE e == y - x
  <1>1. e \in Nat /\ y = x + e
    OBVIOUS
  <1> HIDE DEF e
  <1>2. d * (x + e) = d * x + d * e /\ d * e \in Nat /\ d * x \in Nat
    BY <1>1
  <1> QED
    BY <1>1, <1>2

LEMMA QuotientReaches ==
    ASSUME NEW n \in Nat, NEW d \in Nat \ {0}, NEW h \in Nat
    PROVE  /\ n \div d \in Nat
           /\ n \div d >= h <=> n >= d * h
  <1> DEFINE q == n \div d
  <1>1. q \in Nat /\ d * q <= n /\ n < d * q + d
    OBVIOUS
  <1> HIDE DEF q
  <1>2. d * (q + 1) = d * q + d /\ d * q \in Nat /\ d * h \in Nat /\ d * (q + 1) \in Nat
    BY <1>1
  <1>3. CASE q >= h
    <2>1. d * h <= d * q
      BY <1>1, <1>3, TimesGrows
    <2> QED
      BY <1>1, <1>2, <1>3, <2>1 DEF q
  <1>4. CASE ~(q >= h)
    <2>1. q + 1 \in Nat /\ q + 1 <= h
      BY <1>1, <1>4
    <2>2. d * (q + 1) <= d * h
      BY <2>1, TimesGrows
    <2> QED
      BY <1>1, <1>2, <1>4, <2>2 DEF q
  <1> QED
    BY <1>3, <1>4

MatchesPercent(snapshot) ==
    /\ snapshot.state = "Hard" <=> snapshot.percent >= HardPercent
    /\ snapshot.state = "Soft" <=> snapshot.percent >= SoftPercent /\ snapshot.percent < HardPercent

LEMMA NoPressureMatches == MatchesPercent(NoPressure)
  <1>1. SoftPercent \in Nat /\ HardPercent \in Nat
    BY ContextAssumption
  <1> QED
    BY <1>1 DEF MatchesPercent, NoPressure

LEMMA ProjectionMatches ==
    ASSUME NEW input \in PressureInputs, project(input).state # "Error"
    PROVE  MatchesPercent(project(input))
  <1> DEFINE limit == input.limit
             projected == input.used + input.reserve
             scaled == projected * 100
             q == scaled \div limit
             percent == IF q < 100 THEN q ELSE 100
  <1>0. /\ SoftPercent \in Nat /\ HardPercent \in Nat /\ SoftPercent < HardPercent /\ HardPercent <= 100
        /\ limit \in Nat \cup {Unreported} /\ input.used \in Nat \cup {Unreported}
        /\ input.reserve \in Nat \cup {Unreported}
    BY ContextAssumption
  <1>1. CASE Unreported \in {limit, input.used, input.reserve}
    <2>1. project(input) = NoPressure \/ project(input) = [state |-> "Error"]
      BY <1>1 DEF project
    <2> QED
      BY <2>1, NoPressureMatches
  <1>2. CASE limit = 0 \/ projected > MaxTokenSum
    <2>1. project(input) = NoPressure \/ project(input) = [state |-> "Error"]
      BY <1>2 DEF project
    <2> QED
      BY <2>1, NoPressureMatches
  <1>3. CASE ~(Unreported \in {limit, input.used, input.reserve}) /\ ~(limit = 0 \/ projected > MaxTokenSum)
    <2>1. limit \in Nat \ {0} /\ input.used \in Nat /\ input.reserve \in Nat
      BY <1>0, <1>3
    <2>2. scaled \in Nat
      BY <2>1
    <2> DEFINE hard == scaled >= limit * HardPercent
               soft == scaled >= limit * SoftPercent /\ scaled < limit * HardPercent
    <2>3. project(input) =
            CASE hard -> [state |-> "Hard", admission |-> "Stop", percent |-> percent]
              [] soft -> [state |-> "Soft", admission |-> "Reduce", percent |-> percent]
              [] OTHER -> [state |-> "Normal", admission |-> "Allow", percent |-> percent]
      BY <1>3, Zenon DEF project
    <2> HIDE DEF limit, projected
    <2>a. scaled \in Nat /\ limit \in Nat \ {0}
      BY <2>1, <2>2
    <2> HIDE DEF scaled
    <2>4. q \in Nat /\ (q >= HardPercent <=> scaled >= limit * HardPercent)
      BY <1>0, <2>a, QuotientReaches
    <2>5. q >= SoftPercent <=> scaled >= limit * SoftPercent
      BY <1>0, <2>a, QuotientReaches
    <2>6. limit * HardPercent \in Nat /\ limit * SoftPercent \in Nat
      BY <1>0, <2>a
    <2> HIDE DEF q
    <2>7. hard <=> q >= HardPercent
      BY <2>4
    <2>8. soft <=> q >= SoftPercent /\ q < HardPercent
      BY <1>0, <2>a, <2>4, <2>5, <2>6
    <2> HIDE DEF hard, soft
    <2>9. percent \in Nat /\ (percent >= HardPercent <=> q >= HardPercent)
          /\ (percent >= SoftPercent <=> q >= SoftPercent)
      BY <1>0, <2>4
    <2> HIDE DEF percent
    <2>10. CASE hard
      <3>1. ~soft
        BY <1>0, <2>4, <2>7, <2>8, <2>10
      <3>2. project(input) = [state |-> "Hard", admission |-> "Stop", percent |-> percent]
        BY <2>3, <2>10, <3>1
      <3>3. project(input).state = "Hard" /\ project(input).percent = percent
        BY <3>2
      <3> QED
        BY <1>0, <2>4, <2>7, <2>9, <2>10, <3>3 DEF MatchesPercent
    <2>11. CASE ~hard /\ soft
      <3>1. project(input) = [state |-> "Soft", admission |-> "Reduce", percent |-> percent]
        BY <2>3, <2>11
      <3>2. project(input).state = "Soft" /\ project(input).percent = percent
        BY <3>1
      <3> QED
        BY <1>0, <2>4, <2>7, <2>8, <2>9, <2>11, <3>2 DEF MatchesPercent
    <2>12. CASE ~hard /\ ~soft
      <3>1. project(input) = [state |-> "Normal", admission |-> "Allow", percent |-> percent]
        BY <2>3, <2>12
      <3>2. project(input).state = "Normal" /\ project(input).percent = percent
        BY <3>1
      <3> QED
        BY <1>0, <2>4, <2>7, <2>8, <2>9, <2>12, <3>2 DEF MatchesPercent
    <2> QED
      BY <2>10, <2>11, <2>12
  <1> QED
    BY <1>1, <1>2, <1>3

-----------------------------------------------------------------------------
(* The steps.                                                               *)

LEMMA AskedIs == \A h : provider_context_for_history(h) = Asked(h)
BY DEF provider_context_for_history, Asked, AskedWith

LEMMA ItemsAreItems ==
    ASSUME ItemsInv
    PROVE  items \in Seq(Item) /\ Len(items) \in Nat /\ DOMAIN items = 1..Len(items)
BY DEF ItemsInv, Fits, Numbered

\* What was said before the pending Turn.
PastOf(s, t) == IF t \in {"Admitted", "Reconcile"}
                THEN SubSeq(s, 1, (CHOOSE i \in DOMAIN s :
                                     /\ s[i].role = "User"
                                     /\ \A j \in DOMAIN s : s[j].role = "User" => j <= i) - 1)
                ELSE s

LEMMA PastIs ==
    ASSUME NEW s, NEW t, Fits(s, t)
    PROVE  PastOf(s, t) = SubSeq(s, 1, Len(s) - Own(t)) /\ Len(s) - Own(t) \in 0..Len(s)
  <1>1. s \in Seq(Item) /\ Len(s) \in Nat /\ DOMAIN s = 1..Len(s)
    BY DEF Fits, Numbered
  <1> DEFINE last == CHOOSE i \in DOMAIN s :
                       s[i].role = "User" /\ \A j \in DOMAIN s : s[j].role = "User" => j <= i
  <1>2. CASE t = "Admitted"
    <2>1. Len(s) > 0 /\ Len(s) \in DOMAIN s /\ s[Len(s)].role = "User"
      BY <1>1, <1>2 DEF Fits
    <2>2. \A i \in DOMAIN s :
            (s[i].role = "User" /\ \A j \in DOMAIN s : s[j].role = "User" => j <= i) <=> i = Len(s)
      BY <1>1, <2>1
    <2>3. last = Len(s)
      BY <2>1, <2>2
    <2>4. PastOf(s, t) = SubSeq(s, 1, last - 1) /\ Own(t) = 1
      BY <1>2 DEF PastOf, Own
    <2> HIDE DEF last
    <2>5. last - 1 = Len(s) - 1 /\ Len(s) - 1 \in 0..Len(s)
      BY <1>1, <2>1, <2>3
    <2> QED
      BY <2>4, <2>5
  <1>3. CASE t = "Reconcile"
    <2>1. /\ Len(s) > 1 /\ Len(s) - 1 \in DOMAIN s
          /\ s[Len(s)].role = "Assistant" /\ s[Len(s) - 1].role = "User"
      BY <1>1, <1>3 DEF Fits
    <2>2. \A j \in DOMAIN s : s[j].role = "User" => j <= Len(s) - 1
      BY <1>1, <2>1
    <2>3. \A i \in DOMAIN s :
            (s[i].role = "User" /\ \A j \in DOMAIN s : s[j].role = "User" => j <= i) <=> i = Len(s) - 1
      BY <1>1, <2>1, <2>2
    <2>4. last = Len(s) - 1
      BY <2>1, <2>3
    <2>5. PastOf(s, t) = SubSeq(s, 1, last - 1) /\ Own(t) = 2
      BY <1>3 DEF PastOf, Own
    <2> HIDE DEF last
    <2>6. last - 1 = Len(s) - 2 /\ Len(s) - 2 \in 0..Len(s)
      BY <1>1, <2>1, <2>4
    <2> QED
      BY <2>5, <2>6
  <1>4. CASE t \notin {"Admitted", "Reconcile"}
    <2>1. PastOf(s, t) = s /\ Own(t) = 0
      BY <1>4 DEF PastOf, Own
    <2>2. s = SubSeq(s, 1, Len(s) - 0) /\ Len(s) - 0 \in 0..Len(s)
      BY <1>1
    <2> QED
      BY <2>1, <2>2
  <1> QED
    BY <1>2, <1>3, <1>4

LEMMA HistoryIsNumbered == ASSUME ItemsInv PROVE Numbered(History)
  <1>1. items \in Seq(Item) /\ Len(items) \in Nat /\ Numbered(items)
    BY ItemsAreItems DEF ItemsInv, Fits
  <1> DEFINE n == Len(items) - Own(turn)
  <1>2. n \in 0..Len(items) /\ PastOf(items, turn) = SubSeq(items, 1, n)
    BY PastIs DEF ItemsInv
  <1>3. History = PastOf(items, turn)
    BY DEF History, PastOf
  <1> HIDE DEF n
  <1> QED
    BY <1>1, <1>2, <1>3, PrefixIsNumbered

LEMMA ItemMade ==
    ASSUME NEW id \in Nat, NEW number \in Nat, NEW role \in {"User", "Assistant"}, NEW bytes \in Nat
    PROVE  /\ from_item(id, number, role, bytes) \in Item
           /\ from_item(id, number, role, bytes).id = id
           /\ from_item(id, number, role, bytes).role = role
  <1> DEFINE count == (bytes + TokenBytes - 1) \div TokenBytes
             told == IF count < 1 THEN 1 ELSE count
  <1>1. TokenBytes \in Nat \ {0}
    BY ContextAssumption
  <1>2. bytes + TokenBytes - 1 \in Nat
    BY <1>1
  <1>3. count \in Nat
    BY <1>1, <1>2, QuotientReaches
  <1> HIDE DEF count
  <1>4. told \in Nat
    BY <1>3
  <1>5. from_item(id, number, role, bytes) =
          [id |-> id, turn |-> number, role |-> role, bytes |-> bytes, tokens |-> told]
    BY Zenon DEF from_item, count
  <1> HIDE DEF told
  <1> QED
    BY <1>4, <1>5 DEF Item

\* Something is said: the conversation is one Item longer.
LEMMA ItemsGrow ==
    ASSUME ItemsInv, NEW role \in {"User", "Assistant"}, NEW bytes \in TextSizes,
           role = "Assistant" => items # <<>>, items' = Said(role, bytes)
    PROVE  /\ Numbered(items') /\ Len(items') = Len(items) + 1
           /\ \A i \in 1..Len(items) : items'[i] = items[i]
           /\ items'[Len(items')].role = role
           /\ \A n \in 0..Len(items) : SubSeq(items', 1, n) = SubSeq(items, 1, n)
  <1>1. items \in Seq(Item) /\ Len(items) \in Nat /\ \A i \in 1..Len(items) : items[i].id = i
    BY ItemsAreItems DEF ItemsInv, Fits, Numbered
  <1> DEFINE number == IF role = "Assistant" THEN items[Len(items)].turn
                       ELSE IF items = <<>> THEN 1 ELSE items[Len(items)].turn + 1
             item == from_item(Len(items) + 1, number, role, bytes)
  <1>2. number \in Nat
    <2>1. items # <<>> => items[Len(items)] \in Item
      BY <1>1
    <2>2. items # <<>> => items[Len(items)].turn \in Nat
      BY <2>1 DEF Item
    <2> QED
      BY <2>2
  <1>3. bytes \in Nat
    BY ContextAssumption
  <1>4. items' = Append(items, item)
    BY Zenon DEF Said
  <1> HIDE DEF number
  <1>5. item \in Item /\ item.id = Len(items) + 1 /\ item.role = role
    <2>1. Len(items) + 1 \in Nat
      BY <1>1
    <2> QED
      BY <1>2, <1>3, <2>1, ItemMade
  <1> HIDE DEF item
  <1>6. /\ items' \in Seq(Item) /\ Len(items') = Len(items) + 1
        /\ items'[Len(items) + 1] = item
        /\ \A i \in 1..Len(items) : items'[i] = items[i]
    BY <1>1, <1>4, <1>5
  <1>7. Numbered(items')
    <2> SUFFICES ASSUME NEW i \in DOMAIN items' PROVE items'[i].id = i
      BY <1>6 DEF Numbered
    <2>1. i \in 1..Len(items) \/ i = Len(items) + 1
      BY <1>1, <1>6
    <2> QED
      BY <1>1, <1>5, <1>6, <2>1
  <1>8. ASSUME NEW n \in 0..Len(items) PROVE SubSeq(items', 1, n) = SubSeq(items, 1, n)
    <2> DEFINE p == SubSeq(items', 1, n)
               q == SubSeq(items, 1, n)
    <2>1. p \in Seq(Item) /\ Len(p) = n /\ \A i \in 1..n : p[i] = items'[i]
      BY <1>1, <1>6
    <2>2. q \in Seq(Item) /\ Len(q) = n /\ \A i \in 1..n : q[i] = items[i]
      BY <1>1
    <2> HIDE DEF p, q
    <2>3. \A i \in 1..Len(p) : p[i] = q[i]
      <3> SUFFICES ASSUME NEW i \in 1..Len(p) PROVE p[i] = q[i]
        OBVIOUS
      <3>1. i \in 1..n /\ i \in 1..Len(items)
        BY <1>1, <2>1
      <3>2. items'[i] = items[i]
        BY <1>6, <3>1
      <3> QED
        BY <2>1, <2>2, <3>1, <3>2
    <2>4. p = q
      BY <2>1, <2>2, <2>3, SequencesAgree
    <2> QED
      BY <2>4 DEF p, q
  <1> QED
    BY <1>5, <1>6, <1>7, <1>8

LEMMA ReductionIsStored ==
    ASSUME ItemsInv, NEW policy \in ChosenPolicies \cup {DefaultPolicy},
           IsView(reduced_from_items(items, policy))
    PROVE  IsStored(reduced_from_items(items, policy))
  <1> DEFINE h == items
             view == reduced_from_items(h, policy)
             recent == RecentItems(h, policy)
             artifacts == SubSeq(h, 1, Len(h) - Len(recent))
  <1>1. policy.bytes \in Nat /\ policy.items \in Nat
    BY ContextAssumption
  <1>2. h \in Seq(Item) /\ Len(h) \in Nat
    BY ItemsAreItems
  <1>3. recent \in Seq(Item) /\ Len(recent) \in 0..Len(h)
    <2> HIDE DEF h
    <2>1. PICK k \in 0..Len(h) : recent = SubSeq(h, k + 1, Len(h))
      BY <1>1, <1>2, RecentFits
    <2> HIDE DEF recent
    <2> QED
      BY <1>2, <2>1
  <1>4. artifacts \in Seq(Item)
    <2> HIDE DEF h, recent
    <2> QED
      BY <1>2, <1>3
  <1>5. view = from_stored(artifacts, recent)
    BY DEF IsView, Refused, reduced_from_items
  <1> HIDE DEF artifacts, recent, h
  <1>6. view = [kind |-> "view", artifacts |-> artifacts, recent |-> recent]
    BY <1>5 DEF IsView, Refused, from_stored, h
  <1> HIDE DEF view
  <1>7. IsStored(view)
    BY <1>3, <1>4, <1>6 DEF IsStored, IsView
  <1> QED
    BY <1>7 DEF view, h

\* What would be asked stays the same as long as the checkpoint and what was
\* said before the pending Turn do.
LEMMA AskingIsStable ==
    ASSUME checkpoint' = checkpoint, NEW g, NEW h, g = h
    PROVE  AskedWith(checkpoint', g) = AskedWith(checkpoint, h)
OBVIOUS

LEMMA PrepareReductionKeeps ==
    ASSUME ContextInv, NEW policy \in ChosenPolicies, PrepareReduction(policy)
    PROVE  ContextInv'
  <1>1. IsStored(prepared')
    <2>1. prepared' = reduced_from_items(items, policy) /\ IsView(reduced_from_items(items, policy))
      BY DEF PrepareReduction
    <2> QED
      BY <2>1, ReductionIsStored DEF ContextInv
  <1>2. /\ items' = items /\ checkpoint' = checkpoint /\ turn' = turn /\ pressure' = pressure
        /\ asked' = asked
    BY DEF PrepareReduction
  <1>3. ItemsInv' /\ AskedInv' /\ DecisionMatchesPercent' /\ IsStored(checkpoint)'
    BY <1>2 DEF ContextInv, ItemsInv, Fits, AskedInv, DecisionMatchesPercent, Begun, Asked, History
  <1> QED
    BY <1>1, <1>3 DEF ContextInv

LEMMA PublishReductionKeeps ==
    ASSUME ContextInv, PublishReduction
    PROVE  ContextInv'
  <1>1. /\ items' = items /\ turn' = turn /\ pressure' = pressure /\ asked' = asked
        /\ turn = "Ready" /\ prepared' = NoView /\ (checkpoint' = prepared \/ checkpoint' = checkpoint)
    BY DEF PublishReduction
  <1>2. ItemsInv' /\ DecisionMatchesPercent'
    BY <1>1 DEF ContextInv, ItemsInv, Fits, DecisionMatchesPercent
  <1>3. IsStored(checkpoint') /\ IsStored(prepared')
    BY <1>1 DEF ContextInv, IsStored
  <1>4. ~Begun /\ ~Begun' /\ asked' = {}
    BY <1>1 DEF Begun, ContextInv, AskedInv
  <1>5. AskedInv'
    BY <1>4 DEF AskedInv
  <1> QED
    BY <1>2, <1>3, <1>5 DEF ContextInv

LEMMA PressKeeps ==
    ASSUME ContextInv, NEW input \in PressureInputs, Press(input)
    PROVE  ContextInv'
  <1> DEFINE view == reduced_from_items(items, DefaultPolicy)
             snapshot == project(input)
  <1>1. /\ items' = items /\ prepared' = prepared /\ asked' = asked /\ turn = "Ready"
        /\ turn' \in {"Ready", "Pressed"}
        /\ pressure' = snapshot /\ snapshot.state # "Error"
        /\ checkpoint' = checkpoint \/ (IsView(view) /\ checkpoint' = view)
    <2> HIDE DEF view, snapshot
    <2>1. /\ turn = "Ready" /\ snapshot.state # "Error" /\ pressure' = snapshot
          /\ UNCHANGED <<items, prepared, asked>>
          /\ IF snapshot.admission = "Reduce"
             THEN IF IsView(view) THEN checkpoint' = view /\ turn' = "Pressed" /\ Commit
                  ELSE UNCHANGED <<checkpoint, turn, moved>>
             ELSE turn' = "Pressed" /\ UNCHANGED <<checkpoint, moved>>
      BY Zenon DEF Press, view, snapshot
    <2> QED
      BY <2>1
  <1>2. Numbered(items)'
    BY <1>1 DEF ContextInv, ItemsInv, Fits
  <1>3. ItemsInv'
    BY <1>1, <1>2 DEF ItemsInv, Fits
  <1>4. IsStored(checkpoint') /\ IsStored(prepared')
    <2>1. IsView(view) => IsStored(view)
      BY ReductionIsStored DEF ContextInv
    <2> HIDE DEF view
    <2> QED
      BY <1>1, <2>1 DEF ContextInv
  <1>5. AskedInv'
    <2>1. ~Begun /\ ~Begun' /\ asked' = {}
      BY <1>1 DEF Begun, ContextInv, AskedInv
    <2> QED
      BY <2>1 DEF AskedInv
  <1>6. DecisionMatchesPercent'
    <2>1. MatchesPercent(snapshot)
      BY <1>1, ProjectionMatches
    <2> HIDE DEF snapshot
    <2> QED
      BY <1>1, <2>1 DEF MatchesPercent, DecisionMatchesPercent
  <1> QED
    BY <1>3, <1>4, <1>5, <1>6 DEF ContextInv

LEMMA AdmitPressedKeeps ==
    ASSUME ContextInv, NEW bytes \in TextSizes, AdmitPressed(bytes)
    PROVE  ContextInv'
  <1>1. /\ asked' = {} /\ pressure' = NoPressure /\ checkpoint' = checkpoint /\ prepared' = prepared
        /\ turn = "Pressed"
    BY DEF AdmitPressed
  <1>2. DecisionMatchesPercent'
    BY <1>1, NoPressureMatches DEF MatchesPercent, DecisionMatchesPercent
  <1>3. IsStored(checkpoint') /\ IsStored(prepared')
    BY <1>1 DEF ContextInv
  <1>4. CASE turn' = "Ready" /\ items' = items
    <2>1. Numbered(items')
      BY <1>4 DEF ContextInv, ItemsInv, Fits
    <2>2. ItemsInv' /\ AskedInv'
      BY <1>1, <1>4, <2>1 DEF ItemsInv, Fits, AskedInv, Begun
    <2> QED
      BY <1>2, <1>3, <2>2 DEF ContextInv
  <1>5. CASE IsView(Asked(items)) /\ items' = Said("User", bytes) /\ turn' = "Admitted"
    <2>1. /\ Numbered(items') /\ Len(items') = Len(items) + 1 /\ items'[Len(items')].role = "User"
          /\ \A n \in 0..Len(items) : SubSeq(items', 1, n) = SubSeq(items, 1, n)
      BY <1>5, ItemsGrow DEF ContextInv
    <2>2. items \in Seq(Item) /\ Len(items) \in Nat
      BY ItemsAreItems DEF ContextInv
    <2>3. ItemsInv'
      BY <1>5, <2>1, <2>2 DEF ItemsInv, Fits
    <2>4. History' = items
      <3>a. Fits(items', turn') /\ History' = PastOf(items', turn')
        BY <2>3 DEF ItemsInv, History, PastOf
      <3>1. History' = SubSeq(items', 1, Len(items') - Own(turn'))
        BY <3>a, PastIs
      <3>2. Len(items') - Own(turn') = Len(items)
        BY <1>5, <2>1, <2>2 DEF Own
      <3>3. SubSeq(items', 1, Len(items)) = SubSeq(items, 1, Len(items))
        BY <2>1, <2>2
      <3>4. SubSeq(items, 1, Len(items)) = items
        BY <2>2
      <3> QED
        BY <3>1, <3>2, <3>3, <3>4, Zenon
    <2>5. IsView(AskedWith(checkpoint', History'))
      BY <1>1, <1>5, <2>4 DEF Asked
    <2>6. AskedInv'
      BY <1>1, <1>5, <2>5 DEF AskedInv, Begun, Asked
    <2> QED
      BY <1>2, <1>3, <2>3, <2>6 DEF ContextInv
  <1>6. QED
    <2>1. IF pressure.admission # "Stop" /\ IsView(Asked(items))
          THEN items' = Said("User", bytes) /\ turn' = "Admitted"
          ELSE turn' = "Ready" /\ items' = items
      BY AskedIs DEF AdmitPressed
    <2> QED
      BY <1>4, <1>5, <2>1

LEMMA AskProviderKeeps ==
    ASSUME ContextInv, AskProvider
    PROVE  ContextInv'
  <1> DEFINE view == Asked(History)
             sent == [kind |-> "view", shown |-> view.shown]
  <1>1. /\ items' = items /\ checkpoint' = checkpoint /\ turn' = turn /\ prepared' = prepared
        /\ pressure' = pressure /\ turn = "Admitted"
    BY DEF AskProvider
  <1>2. IsView(view)
    BY <1>1 DEF ContextInv, AskedInv, Begun
  <1>3. asked' = asked \cup {sent}
    <2>1. provider_context_for_history(History) = view
      BY AskedIs
    <2>2. asked' = asked \cup {IF IsView(view) THEN [kind |-> "view", shown |-> view.shown] ELSE view}
      BY <2>1, Zenon DEF AskProvider
    <2> QED
      BY <1>2, <2>2, Zenon
  <1>4. History' = History
    BY <1>1 DEF History
  <1>5. AskedWith(checkpoint', History') = view
    BY <1>1, <1>4 DEF Asked
  <1>6. \A v \in asked' : v = [kind |-> "view", shown |-> view.shown]
    BY <1>3 DEF ContextInv, AskedInv
  <1> HIDE DEF view, sent
  <1>7. AskedInv'
    <2>1. Begun'
      BY <1>1 DEF Begun
    <2> QED
      BY <1>2, <1>5, <1>6, <2>1 DEF AskedInv, Asked
  <1>8. ItemsInv' /\ DecisionMatchesPercent' /\ IsStored(checkpoint') /\ IsStored(prepared')
    BY <1>1 DEF ContextInv, ItemsInv, Fits, DecisionMatchesPercent
  <1> QED
    BY <1>7, <1>8 DEF ContextInv

LEMMA AnswerTurnKeeps ==
    ASSUME ContextInv, NEW bytes \in TextSizes, AnswerTurn(bytes)
    PROVE  ContextInv'
  <1>1. /\ asked' = asked /\ pressure' = pressure /\ checkpoint' = checkpoint /\ prepared' = prepared
        /\ turn = "Admitted" /\ turn' = "Reconcile" /\ items' = Said("Assistant", bytes)
    BY DEF AnswerTurn
  <1>2. DecisionMatchesPercent' /\ IsStored(checkpoint') /\ IsStored(prepared')
    BY <1>1 DEF DecisionMatchesPercent, ContextInv
  <1>3. /\ items \in Seq(Item) /\ Len(items) \in Nat /\ Len(items) > 0
        /\ items[Len(items)].role = "User" /\ items # <<>>
    BY <1>1, ItemsAreItems DEF ContextInv, ItemsInv, Fits
  <1>4. /\ Numbered(items') /\ Len(items') = Len(items) + 1 /\ items'[Len(items')].role = "Assistant"
        /\ \A i \in 1..Len(items) : items'[i] = items[i]
        /\ \A n \in 0..Len(items) : SubSeq(items', 1, n) = SubSeq(items, 1, n)
    BY <1>1, <1>3, ItemsGrow DEF ContextInv
  <1>5. ItemsInv'
    BY <1>1, <1>3, <1>4 DEF ItemsInv, Fits
  <1>6. History' = History
    <2>a. Fits(items', turn') /\ History' = PastOf(items', turn')
      BY <1>5 DEF ItemsInv, History, PastOf
    <2>b. Fits(items, turn) /\ History = PastOf(items, turn)
      BY DEF ContextInv, ItemsInv, History, PastOf
    <2>1. History' = SubSeq(items', 1, Len(items') - Own(turn'))
      BY <2>a, PastIs
    <2>2. History = SubSeq(items, 1, Len(items) - Own(turn))
      BY <2>b, PastIs
    <2>3. /\ Len(items') - Own(turn') = Len(items) - 1
          /\ Len(items) - Own(turn) = Len(items) - 1
          /\ Len(items) - 1 \in 0..Len(items)
      BY <1>1, <1>3, <1>4 DEF Own
    <2>4. SubSeq(items', 1, Len(items) - 1) = SubSeq(items, 1, Len(items) - 1)
      BY <1>4, <2>3
    <2> QED
      BY <2>1, <2>2, <2>3, <2>4, Zenon
  <1>7. AskedInv'
    <2>1. Begun /\ Begun' /\ AskedWith(checkpoint', History') = Asked(History)
      BY <1>1, <1>6 DEF Begun, Asked
    <2> QED
      BY <1>1, <2>1 DEF ContextInv, AskedInv, Asked
  <1> QED
    BY <1>2, <1>5, <1>7 DEF ContextInv

LEMMA CloseTurnKeeps ==
    ASSUME ContextInv, CloseTurn
    PROVE  ContextInv'
  <1>1. /\ items' = items /\ checkpoint' = checkpoint /\ prepared' = prepared /\ pressure' = pressure
        /\ asked' = {} /\ turn' = "Ready"
    BY DEF CloseTurn
  <1>2. Numbered(items')
    BY <1>1 DEF ContextInv, ItemsInv, Fits
  <1>3. ItemsInv' /\ AskedInv'
    BY <1>1, <1>2 DEF ItemsInv, Fits, AskedInv, Begun
  <1> QED
    BY <1>1, <1>3 DEF ContextInv, DecisionMatchesPercent

LEMMA LoseProcessKeeps ==
    ASSUME ContextInv, LoseProcess
    PROVE  ContextInv'
  <1>1. /\ items' = items /\ checkpoint' = checkpoint /\ prepared' = NoView /\ pressure' = NoPressure
        /\ asked' = asked /\ turn' = IF turn = "Pressed" THEN "Ready" ELSE turn
    BY DEF LoseProcess
  <1>2. DecisionMatchesPercent'
    BY <1>1, NoPressureMatches DEF MatchesPercent, DecisionMatchesPercent
  <1>3. Numbered(items')
    BY <1>1 DEF ContextInv, ItemsInv, Fits
  <1>4. ItemsInv'
    BY <1>1, <1>3 DEF ContextInv, ItemsInv, Fits
  <1>5. History' = History /\ (Begun' <=> Begun)
    BY <1>1 DEF History, Begun
  <1>6. AskedInv'
    <2>1. AskedWith(checkpoint', History') = Asked(History)
      BY <1>1, <1>5 DEF Asked
    <2> QED
      BY <1>1, <1>5, <2>1 DEF ContextInv, AskedInv, Asked
  <1>7. IsStored(checkpoint') /\ IsStored(prepared')
    BY <1>1 DEF ContextInv, IsStored
  <1> QED
    BY <1>2, <1>4, <1>6, <1>7 DEF ContextInv

-----------------------------------------------------------------------------
\* In every state the Items are numbered in their order, a stored or held
\* checkpoint is made of Items, and what a pending Turn was asked with is what
\* it would be asked with again.
THEOREM ContextInvariant == ContextSpec => []ContextInv
  <1>1. ContextInit => ContextInv
    <2> SUFFICES ASSUME ContextInit PROVE ContextInv
      OBVIOUS
    <2>1. <<>> \in Seq(Item) /\ DOMAIN <<>> = {}
      OBVIOUS
    <2>2. items = <<>> /\ checkpoint = NoView /\ turn = "Ready" /\ prepared = NoView
          /\ pressure = NoPressure /\ asked = {}
      BY DEF ContextInit
    <2>3. ItemsInv /\ AskedInv
      BY <2>1, <2>2 DEF ItemsInv, Fits, Numbered, AskedInv, Begun
    <2>4. DecisionMatchesPercent
      BY <2>2, NoPressureMatches DEF MatchesPercent, DecisionMatchesPercent
    <2> QED
      BY <2>2, <2>3, <2>4 DEF ContextInv, IsStored
  <1>2. ContextInv /\ [ContextNext]_context_vars => ContextInv'
    <2> SUFFICES ASSUME ContextInv, [ContextNext]_context_vars PROVE ContextInv'
      OBVIOUS
    <2>1. ASSUME NEW policy \in ChosenPolicies, PrepareReduction(policy) PROVE ContextInv'
      BY <2>1, PrepareReductionKeeps
    <2>2. CASE PublishReduction
      BY <2>2, PublishReductionKeeps
    <2>3. ASSUME NEW input \in PressureInputs, Press(input) PROVE ContextInv'
      BY <2>3, PressKeeps
    <2>4. ASSUME NEW bytes \in TextSizes, AdmitPressed(bytes) PROVE ContextInv'
      BY <2>4, AdmitPressedKeeps
    <2>5. ASSUME NEW bytes \in TextSizes, AnswerTurn(bytes) PROVE ContextInv'
      BY <2>5, AnswerTurnKeeps
    <2>6. CASE AskProvider
      BY <2>6, AskProviderKeeps
    <2>7. CASE CloseTurn
      BY <2>7, CloseTurnKeeps
    <2>8. CASE LoseProcess
      BY <2>8, LoseProcessKeeps
    <2>9. CASE UNCHANGED context_vars
      <3>1. /\ items' = items /\ checkpoint' = checkpoint /\ turn' = turn /\ prepared' = prepared
            /\ pressure' = pressure /\ asked' = asked
        BY <2>9 DEF context_vars
      <3> QED
        BY <3>1 DEF ContextInv, ItemsInv, Fits, AskedInv, DecisionMatchesPercent, Begun, Asked, History
    <2> QED
      BY <2>1, <2>2, <2>3, <2>4, <2>5, <2>6, <2>7, <2>8, <2>9 DEF ContextNext
  <1> QED
    BY <1>1, <1>2, PTL DEF ContextSpec

\* What a Provider is told of the conversation (runtime.rs,
\* pending_provider_context): every request of a Turn shows one and the same
\* end of the conversation before it, a reduction reopens admission, and the
\* percentage shown agrees with the decision taken.
THEOREM ContextsAreFaithful == ContextSpec => []ContextIsFaithful
  <1>1. ContextInv => ContextIsFaithful
    <2> SUFFICES ASSUME ContextInv PROVE ContextIsFaithful
      OBVIOUS
    <2>1. Numbered(History) /\ History \in Seq(Item) /\ IsStored(checkpoint)
      BY HistoryIsNumbered DEF ContextInv, Numbered
    <2>2. ASSUME NEW view \in asked
          PROVE  /\ view.kind = "view" /\ view.shown = Asked(History).shown
                 /\ ShowsEndOf(Asked(History), History)
      <3>1. view = [kind |-> "view", shown |-> Asked(History).shown] /\ IsView(Asked(History))
        BY DEF ContextInv, AskedInv
      <3>2. view.kind = "view" /\ view.shown = Asked(History).shown
        BY <3>1
      <3> QED
        BY <2>1, <3>1, <3>2, RequestsShowTheEnd
    <2>3. ASSUME NEW view \in asked, NEW other \in asked PROVE view = other
      BY DEF ContextInv, AskedInv
    <2>4. ASSUME IsView(preview_from_state)
          PROVE  preview_from_state = Asked(History) /\ ShowsEndOf(Asked(History), History)
      BY <2>1, <2>4, PreviewIsAsked, RequestsShowTheEnd
    <2>5. RequestsShowOneEnd
      <3>1. \A view \in asked :
              /\ IsView(view)
              /\ view.shown = SubSeq(History, Len(History) - Len(view.shown) + 1, Len(History))
              /\ view.shown # <<>> => view.shown[1].role = "User"
        BY <2>2 DEF IsView, ShowsEndOf
      <3>2. IsView(preview_from_state) =>
              /\ preview_from_state.archived + Len(preview_from_state.shown) = Len(History)
              /\ \A view \in asked : view.shown = preview_from_state.shown
        BY <2>2, <2>4 DEF ShowsEndOf
      <3> QED
        BY <2>3, <3>1, <3>2 DEF RequestsShowOneEnd
    <2>6. ReductionReopensAdmission
      <3> SUFFICES ASSUME Len(items) <= MaxViewItems, NEW policy \in ChosenPolicies
                   PROVE  LET view == reduced_from_items(items, policy)
                          IN  IsView(view) /\ IsView(materialize_request(view, items))
        BY DEF ReductionReopensAdmission
      <3>1. policy.bytes \in 1..MaxViewBytes /\ policy.items \in 1..MaxViewItems
        BY ContextAssumption
      <3>2. Numbered(items)
        BY DEF ContextInv, ItemsInv, Fits
      <3> QED
        BY <3>1, <3>2, ReductionReopens
    <2> QED
      BY <2>5, <2>6 DEF ContextInv, ContextIsFaithful
  <1> QED
    BY <1>1, ContextInvariant, PTL
=============================================================================
