----------------------- MODULE PermissionBrokerProofs -----------------------
(***************************************************************************)
(* Proofs about PermissionBroker, for every value of its constants.        *)
(***************************************************************************)
EXTENDS PermissionBroker, FiniteSetTheorems, TLAPS

-----------------------------------------------------------------------------
(* Lemmas about the policy operators. *)

(* resolvePolicy returns a policy, and its answer is one of the table's    *)
(* when its source is not the default.                                     *)
LEMMA ResolvedPolicy ==
    ASSUME NEW table \in SUBSET Answer, NEW cap \in Capabilities, NEW c \in Contexts
    PROVE  LET p == ResolvePolicy(table, cap, c)
           IN  /\ p.decision \in Policies
               /\ p.source # "default" => p.decision \in Decisions
               /\ p.source = "default" => p.decision = DefaultPolicy[cap]
<1>1. CASE AnswersAt(table, cap, c) # {}
  <2>1. (CHOOSE e \in AnswersAt(table, cap, c) : TRUE) \in Answer
    BY <1>1 DEF AnswersAt
  <2>2. QED
    BY <1>1, <2>1 DEF ResolvePolicy, Answer, Decisions, Policies
<1>2. CASE AnswersAt(table, cap, c) = {} /\ AnswersAt(table, cap, Global) # {}
  <2>1. (CHOOSE e \in AnswersAt(table, cap, Global) : TRUE) \in Answer
    BY <1>2 DEF AnswersAt
  <2>2. QED
    BY <1>2, <2>1 DEF ResolvePolicy, Answer, Decisions, Policies
<1>3. CASE AnswersAt(table, cap, c) = {} /\ AnswersAt(table, cap, Global) = {}
  BY <1>3, DefaultPolicyAssumption DEF ResolvePolicy, Policies
<1>4. QED
  BY <1>1, <1>2, <1>3

(* Remembering an answer keeps the table free of rivals at its scope. *)
LEMMA RememberKeepsOneAnswer ==
    ASSUME NEW table \in SUBSET Answer, NEW e \in Answer, OneAnswerPerScope(table)
    PROVE  /\ Remember(table, e) \in SUBSET Answer
           /\ OneAnswerPerScope(Remember(table, e))
BY DEF Remember, AnswersAt, OneAnswerPerScope

(* A table without rivals stays so when answers are taken out. *)
LEMMA FewerAnswers ==
    ASSUME NEW table, NEW sub \in SUBSET table, OneAnswerPerScope(table)
    PROVE  OneAnswerPerScope(sub)
BY DEF OneAnswerPerScope

-----------------------------------------------------------------------------
(* Type correctness. *)

LEMMA SuspendType ==
    ASSUME TypeOK, NEW k \in Calls, NEW at \in Awaits,
           NEW r \in RequestIds \union {NoRequest}, NEW phase \in AuditPhases \union {"none"},
           Suspend(k, at, r, phase)
    PROVE  calls' \in [Calls -> Call]
BY DEF TypeOK, Suspend, Call

LEMMA KnownRequest ==
    ASSUME TypeOK, NEW r \in RequestIds, Known(r)
    PROVE  requests[r] \in Request
BY DEF TypeOK, Known

LEMMA SetStatusType ==
    ASSUME TypeOK, NEW r \in RequestIds, Known(r), NEW status \in Statuses,
           SetStatus(r, status)
    PROVE  requests' \in [RequestIds -> Request \union {NoRequest}]
BY KnownRequest DEF TypeOK, SetStatus, Request

LEMMA BirthTypes ==
    ASSUME NEW policy
    PROVE  /\ StatusFor(policy) \in {"pending", "allowed", "denied"}
           /\ BirthPhase(StatusFor(policy)) \in AuditPhases
BY DEF StatusFor, BirthPhase, AuditPhases

(* Every variable keeps the type the code gives it: request states, audit  *)
(* phases and the awaits a call can be suspended in.                       *)
LEMMA TypeStep == TypeOK /\ CallsConsistent /\ [Next]_vars => TypeOK'
<1> SUFFICES ASSUME TypeOK, CallsConsistent, [Next]_vars PROVE TypeOK'
  OBVIOUS
<1> USE DEF brokerVars, history
<1>1. ASSUME NEW k \in Calls, NEW r \in RequestIds, NEW cap \in Capabilities,
             NEW c \in Contexts, Propose(k, r, cap, c)
      PROVE  TypeOK'
  <2> DEFINE status == StatusFor(EffectivePolicy(cap, c))
  <2>1. status \in Statuses /\ BirthPhase(status) \in AuditPhases
    BY BirthTypes DEF Statuses
  <2>2. calls' \in [Calls -> Call]
    <3>1. Suspend(k, "audit", r, BirthPhase(status))
      BY <1>1 DEF Propose
    <3>2. QED
      BY <2>1, <3>1, SuspendType DEF Awaits
  <2>3. [capability |-> cap, context |-> c, status |-> status, userDecided |-> FALSE]
            \in Request
    BY <2>1 DEF Request
  <2>4. QED
    BY <1>1, <2>2, <2>3 DEF Propose, TypeOK
<1>2. ASSUME NEW k \in Calls, NEW r \in RequestIds, NEW decision \in Decisions,
             NEW remember \in BOOLEAN, NEW global \in BOOLEAN,
             Decide(k, r, decision, remember, global)
      PROVE  TypeOK'
  <2>1. requests[r] \in Request
    BY <1>2, KnownRequest DEF Decide, Decidable
  <2>2. calls' \in [Calls -> Call]
    <3>1. Suspend(k, "mkdir", r, "decided") \/ Suspend(k, "audit", r, "decided")
      BY <1>2 DEF Decide
    <3>2. QED
      BY <3>1, SuspendType DEF Awaits, AuditPhases
  <2>3. requests' \in [RequestIds -> Request \union {NoRequest}]
    BY <1>2, <2>1 DEF Decide, TypeOK, Request, Statuses
  <2>4. remembered' \subseteq Answer
    <3>1. AnswerFor(r, decision, global) \in Answer
      BY <2>1 DEF AnswerFor, Answer, Request, Scopes
    <3>2. QED
      BY <1>2, <3>1 DEF Decide, Remember, TypeOK
  <2>5. QED
    BY <1>2, <2>2, <2>3, <2>4 DEF Decide, TypeOK
<1>3. ASSUME NEW k \in Calls, NEW r \in RequestIds, Cancel(k, r)
      PROVE  TypeOK'
  <2>1. calls' \in [Calls -> Call]
    BY <1>3, SuspendType DEF Cancel, Awaits, AuditPhases
  <2>2. requests' \in [RequestIds -> Request \union {NoRequest}]
    BY <1>3, SetStatusType DEF Cancel, Cancellable, Statuses
  <2>3. QED
    BY <1>3, <2>1, <2>2 DEF Cancel, TypeOK
<1>4. ASSUME NEW k \in Calls, NEW r \in RequestIds, ExecuteTurnedDown(k, r)
      PROVE  TypeOK'
  <2>1. calls' \in [Calls -> Call]
    BY <1>4, SuspendType DEF ExecuteTurnedDown, Awaits, AuditPhases
  <2>2. requests' \in [RequestIds -> Request \union {NoRequest}]
    BY <1>4, SetStatusType DEF ExecuteTurnedDown, Executable, Statuses
  <2>3. QED
    BY <1>4, <2>1, <2>2 DEF ExecuteTurnedDown, TypeOK
<1>5. ASSUME NEW k \in Calls, NEW r \in RequestIds, ExecuteStart(k, r)
      PROVE  TypeOK'
  <2>1. calls' \in [Calls -> Call]
    BY <1>5, SuspendType DEF ExecuteStart, Awaits
  <2>2. QED
    BY <1>5, <2>1 DEF ExecuteStart, TypeOK
<1>6. ASSUME NEW k \in Calls, NEW succeeded \in BOOLEAN, ActionDone(k, succeeded)
      PROVE  TypeOK'
  <2> DEFINE r == calls[k].request
             status == IF succeeded THEN "executed" ELSE "failed"
  <2>1. r \in RequestIds /\ Known(r) /\ requests[r] \in Request
    BY <1>6, KnownRequest DEF ActionDone, CallsConsistent
  <2>2. calls' \in [Calls -> Call]
    <3>1. Suspend(k, "audit", r, status) /\ status \in AuditPhases
      BY <1>6 DEF ActionDone, AuditPhases
    <3>2. QED
      BY <2>1, <3>1, SuspendType DEF Awaits
  <2>3. requests' \in [RequestIds -> Request \union {NoRequest}]
    <3>1. SetStatus(r, status) /\ status \in Statuses
      BY <1>6 DEF ActionDone, Statuses
    <3>2. QED
      BY <2>1, <3>1, SetStatusType
  <2>4. relays' \subseteq Contexts /\ relayed' \subseteq RequestIds \X Contexts
    BY <1>6, <2>1 DEF ActionDone, TypeOK, Request
  <2>5. QED
    BY <1>6, <2>2, <2>3, <2>4 DEF ActionDone, TypeOK
<1>7. ASSUME NEW k \in Calls, NEW cap \in Capabilities \union {"any"},
             NEW scope \in Scopes \union {"any"}, Revoke(k, cap, scope)
      PROVE  TypeOK'
  <2>1. calls' \in [Calls -> Call]
    BY <1>7, SuspendType DEF Revoke, Awaits, AuditPhases
  <2>2. QED
    BY <1>7, <2>1 DEF Revoke, TypeOK
<1>8. ASSUME NEW k \in Calls,
             SnapshotPolicies(k) \/ TruncateFile(k) \/ WriteFile(k)
      PROVE  TypeOK'
  <2>1. calls[k] \in Call
    BY DEF TypeOK
  <2>2. CASE SnapshotPolicies(k)
    BY <2>1, <2>2 DEF SnapshotPolicies, TypeOK, Call, Awaits
  <2>3. CASE TruncateFile(k)
    BY <2>1, <2>3 DEF TruncateFile, TypeOK, Call, Awaits
  <2>4. CASE WriteFile(k)
    <3>1. calls' \in [Calls -> Call]
      BY <2>1, <2>4, SuspendType DEF WriteFile, Call, Awaits
    <3>2. policyFile' \subseteq Answer
      BY <2>1, <2>4 DEF WriteFile, Written, Call
    <3>3. QED
      BY <2>4, <3>1, <3>2 DEF WriteFile, TypeOK
  <2>5. QED
    BY <1>8, <2>2, <2>3, <2>4
<1>9. ASSUME NEW k \in Calls, AppendAudit(k) \/ CallFails(k)
      PROVE  TypeOK'
  <2>1. calls[k] \in Call /\ Idle \in Call
    BY DEF TypeOK, Idle, Call
  <2>2. CASE AppendAudit(k)
    <3>1. calls[k].phase \in AuditPhases
      BY <2>2 DEF AppendAudit, CallsConsistent, Awaits
    <3>2. [request |-> calls[k].request, phase |-> calls[k].phase] \in AuditRow
      BY <2>1, <3>1 DEF Call, AuditRow
    <3>3. QED
      BY <2>1, <2>2, <3>2 DEF AppendAudit, TypeOK
  <2>3. CASE CallFails(k)
    BY <2>1, <2>3 DEF CallFails, TypeOK
  <2>4. QED
    BY <1>9, <2>2, <2>3
<1>10. CASE Restart
  BY <1>10 DEF Restart, TypeOK, Call, Idle, Awaits
<1>11. CASE UNCHANGED vars
  BY <1>11 DEF TypeOK, vars
<1>12. QED
  BY <1>1, <1>2, <1>3, <1>4, <1>5, <1>6, <1>7, <1>8, <1>9, <1>10, <1>11
  DEF Next, Arrive, Continue

-----------------------------------------------------------------------------
(* The inductive invariant. *)

(* How the calls change: one is suspended, one moves on, or one ends. *)
LEMMA SuspendCalls ==
    ASSUME TypeOK, NEW k \in Calls, NEW at, NEW r, NEW phase, Suspend(k, at, r, phase)
    PROVE  \A j \in Calls :
            calls'[j] = IF j = k
                        THEN [at |-> at, request |-> r, phase |-> phase, table |-> {}]
                        ELSE calls[j]
BY DEF TypeOK, Suspend

(* A status change touches nothing else of any request. *)
LEMMA SetStatusEffect ==
    ASSUME TypeOK, NEW r \in RequestIds, Known(r), NEW status, SetStatus(r, status)
    PROVE  /\ \A q \in RequestIds : q # r => requests'[q] = requests[q]
           /\ requests'[r].capability = requests[r].capability
           /\ requests'[r].context = requests[r].context
           /\ requests'[r].userDecided = requests[r].userDecided
           /\ requests'[r].status = status
           /\ requests'[r] \in [capability : Capabilities, context : Contexts,
                                status : {status}, userDecided : BOOLEAN]
<1>1. requests[r] \in Request
  BY KnownRequest
<1>2. requests' = [requests EXCEPT ![r] = [requests[r] EXCEPT !.status = status]]
  BY DEF SetStatus
<1>3. requests'[r] = [requests[r] EXCEPT !.status = status]
  BY <1>2 DEF TypeOK
<1>4. QED
  BY <1>1, <1>2, <1>3 DEF TypeOK, Request

(* What is not suspended anew stays consistent while no request is         *)
(* forgotten and no count goes down.                                       *)
LEMMA CallsStayConsistent ==
    ASSUME TypeOK, CallsConsistent,
           \A q \in RequestIds : Known(q) => Known(q)' /\ runs'[q] >= runs[q],
           runs' \in [RequestIds -> Nat],
           NEW k \in Calls, NEW at \in Awaits \union {"idle"}, NEW r, NEW phase,
           \A j \in Calls : calls'[j].at = IF j = k THEN at ELSE calls[j].at,
           \A j \in Calls : calls'[j].request = IF j = k THEN r ELSE calls[j].request,
           \A j \in Calls : calls'[j].phase = IF j = k THEN phase ELSE calls[j].phase,
           at = "acting" => r \in RequestIds /\ Known(r)' /\ runs'[r] > 0,
           at \in Awaits \ {"acting"} => phase \in AuditPhases
    PROVE  CallsConsistent'
<1> SUFFICES ASSUME NEW j \in Calls
             PROVE  /\ calls'[j].at = "acting" =>
                        /\ calls'[j].request \in RequestIds
                        /\ requests'[calls'[j].request] # NoRequest
                        /\ runs'[calls'[j].request] > 0
                    /\ calls'[j].at \in Awaits \ {"acting"} => calls'[j].phase \in AuditPhases
  BY DEF CallsConsistent, Known
<1>1. CASE j = k
  BY <1>1 DEF Known
<1>2. CASE j # k
  <2>1. /\ calls'[j].at = calls[j].at
        /\ calls'[j].request = calls[j].request
        /\ calls'[j].phase = calls[j].phase
    BY <1>2
  <2>2. QED
    BY <2>1 DEF CallsConsistent, TypeOK, Known
<1>3. QED
  BY <1>1, <1>2

(* The same for a call that is suspended anew.                             *)
LEMMA SuspendStaysConsistent ==
    ASSUME TypeOK, CallsConsistent,
           \A q \in RequestIds : Known(q) => Known(q)' /\ runs'[q] >= runs[q],
           runs' \in [RequestIds -> Nat],
           NEW k \in Calls, NEW at \in Awaits, NEW r, NEW phase, Suspend(k, at, r, phase),
           at = "acting" => r \in RequestIds /\ Known(r)' /\ runs'[r] > 0,
           at # "acting" => phase \in AuditPhases
    PROVE  CallsConsistent'
<1>1. \A j \in Calls :
        calls'[j] = IF j = k
                    THEN [at |-> at, request |-> r, phase |-> phase, table |-> {}]
                    ELSE calls[j]
  BY SuspendCalls
<1>2. \A j \in Calls :
        /\ calls'[j].at = IF j = k THEN at ELSE calls[j].at
        /\ calls'[j].request = IF j = k THEN r ELSE calls[j].request
        /\ calls'[j].phase = IF j = k THEN phase ELSE calls[j].phase
  BY <1>1
<1>3. QED
  BY <1>2, CallsStayConsistent

(* A table of a suspended call is a snapshot only while it waits to write. *)
LEMMA SuspendTables ==
    ASSUME TypeOK, TablesUnique, OneAnswerPerScope(remembered)', OneAnswerPerScope(policyFile)',
           NEW k \in Calls, NEW at, NEW r, NEW phase, Suspend(k, at, r, phase)
    PROVE  TablesUnique'
<1>1. OneAnswerPerScope({})
  BY DEF OneAnswerPerScope
<1>2. ASSUME NEW j \in Calls PROVE OneAnswerPerScope(calls'[j].table)
  <2>1. calls'[j].table = {} \/ calls'[j].table = calls[j].table
    BY DEF Suspend, TypeOK
  <2>2. QED
    BY <1>1, <2>1 DEF TablesUnique
<1>3. QED
  BY <1>2 DEF TablesUnique, OneAnswerPerScope

(* Nothing is in the ledger that was not, and nothing new has been         *)
(* relayed: the record of relays stays complete.                           *)
LEMMA RelaysStayRecorded ==
    ASSUME TypeOK, RelaysRecorded, UNCHANGED <<relays, relayed>>,
           \A x \in relayed : Known(x[1])' => Known(x[1])
    PROVE  RelaysRecorded'
BY DEF RelaysRecorded, RelaysInto, Tainted

(* In a context without a relay the policy of agent.relay is its default   *)
(* or a remembered answer: never `ask`.                                    *)
LEMMA RelayPolicy ==
    ASSUME TypeOK, NEW c \in Contexts, Relay \in Capabilities, c \notin relays
    PROVE  EffectivePolicy(Relay, c) \in {"allow", "deny"}
BY ResolvedPolicy, RelayAssumption DEF EffectivePolicy, Tainted, Decisions, TypeOK

LEMMA ProposeStep ==
    ASSUME BrokerInv, TypeOK', NEW k \in Calls, NEW r \in RequestIds,
           NEW cap \in Capabilities, NEW c \in Contexts, Propose(k, r, cap, c)
    PROVE  BrokerInv'
<1> DEFINE status == StatusFor(EffectivePolicy(cap, c))
           new == [capability |-> cap, context |-> c,
                   status |-> status, userDecided |-> FALSE]
<1> USE DEF BrokerInv, history
<1>1. r \notin issued /\ runs[r] = 0 /\ ~Known(r)
  BY DEF Propose, HistoryConsistent
<1>2. /\ status \in {"pending", "allowed", "denied"}
      /\ BirthPhase(status) \in AuditPhases
  BY BirthTypes
<1>3. new \in Request
  BY <1>2 DEF Request, Statuses
<1>4. /\ requests' = [requests EXCEPT ![r] = new]
      /\ requests'[r] = new
      /\ \A q \in RequestIds : q # r => requests'[q] = requests[q]
  BY DEF Propose, TypeOK
<1>5. Suspend(k, "audit", r, BirthPhase(status))
  BY DEF Propose
<1>6. UNCHANGED <<remembered, relays, policyFile, runs, relayed>>
  BY DEF Propose
<1>7. CallsConsistent'
  <2>1. \A q \in RequestIds : Known(q) => Known(q)' /\ runs'[q] >= runs[q]
    BY <1>1, <1>4, <1>6 DEF Known, TypeOK
  <2>2. "audit" \in Awaits /\ runs' \in [RequestIds -> Nat]
    BY DEF Awaits, TypeOK
  <2>3. QED
    BY <1>2, <1>5, <2>1, <2>2, SuspendStaysConsistent
<1>8. TablesUnique'
  BY <1>5, <1>6, SuspendTables DEF TablesUnique, OneAnswerPerScope
<1>9. HistoryConsistent'
  BY <1>1, <1>2, <1>4, <1>6 DEF HistoryConsistent, Propose, Known, Status
<1>10. RelaysRecorded'
  BY <1>1, <1>4, <1>6, RelaysStayRecorded DEF HistoryConsistent, Known, TypeOK
<1>11. RelayNeverAsked'
  <2>1. cap = Relay => status # "pending"
    BY RelayPolicy DEF Propose, RelayRefused, StatusFor
  <2>2. QED
    BY <1>4, <2>1 DEF RelayNeverAsked, Known, Status
<1>12. QED
  BY <1>7, <1>8, <1>9, <1>10, <1>11

(* decide() settles a pending request and touches no other. *)
LEMMA DecideEffect ==
    ASSUME TypeOK, NEW k \in Calls, NEW r \in RequestIds, NEW decision \in Decisions,
           NEW remember \in BOOLEAN, NEW global \in BOOLEAN,
           Decide(k, r, decision, remember, global)
    PROVE  /\ Known(r) /\ requests[r].status = "pending" /\ requests[r] \in Request
           /\ requests'[r] \in Request
           /\ requests'[r].capability = requests[r].capability
           /\ requests'[r].status = IF decision = "allow" THEN "allowed" ELSE "denied"
           /\ \A q \in RequestIds : q # r => requests'[q] = requests[q]
<1>1. Known(r) /\ requests[r].status = "pending" /\ requests[r] \in Request
  BY KnownRequest DEF Decide, Decidable, Status
<1>2. QED
  BY <1>1 DEF Decide, TypeOK, Request, Statuses

(* decide() answers a request that has not run. *)
LEMMA DecideStep ==
    ASSUME BrokerInv, TypeOK', NEW k \in Calls, NEW r \in RequestIds,
           NEW decision \in Decisions, NEW remember \in BOOLEAN, NEW global \in BOOLEAN,
           Decide(k, r, decision, remember, global)
    PROVE  BrokerInv'
<1> DEFINE status == IF decision = "allow" THEN "allowed" ELSE "denied"
           at == IF remember THEN "mkdir" ELSE "audit"
           e == AnswerFor(r, decision, global)
<1> USE DEF BrokerInv, history
<1>1. Known(r) /\ requests[r].status = "pending" /\ requests[r] \in Request
  BY DecideEffect
<1>2. /\ requests'[r] \in Request
      /\ requests'[r].capability = requests[r].capability
      /\ requests'[r].status = status
      /\ \A q \in RequestIds : q # r => requests'[q] = requests[q]
  BY DecideEffect
<1>3. Suspend(k, at, r, "decided")
  BY DEF Decide
<1>4. UNCHANGED <<relays, policyFile, issued, runs, relayed>>
  BY DEF Decide
<1>5. \A q \in RequestIds : Known(q)' <=> Known(q)
  BY <1>1, <1>2, NoRequestAssumption DEF Known
<1>6. CallsConsistent'
  <2>1. \A q \in RequestIds : Known(q) => Known(q)' /\ runs'[q] >= runs[q]
    BY <1>4, <1>5 DEF TypeOK
  <2>2. "decided" \in AuditPhases /\ at \in Awaits \ {"acting"}
    BY DEF Awaits, AuditPhases
  <2>3. QED
    BY <1>3, <2>1, <2>2, SuspendStaysConsistent DEF TypeOK
<1>7. TablesUnique'
  <2>1. e \in Answer
    BY <1>1 DEF AnswerFor, Answer, Request, Scopes
  <2>2. OneAnswerPerScope(remembered')
    BY <2>1, RememberKeepsOneAnswer DEF Decide, TypeOK, TablesUnique
  <2>3. QED
    BY <1>3, <1>4, <2>2, SuspendTables DEF TablesUnique, OneAnswerPerScope
<1>8. HistoryConsistent'
  BY <1>1, <1>2, <1>4, <1>5 DEF HistoryConsistent, Status
<1>9. RelaysRecorded'
  BY <1>4, <1>5, RelaysStayRecorded DEF TypeOK
<1>10. RelayNeverAsked'
  BY <1>1, <1>2, <1>5 DEF RelayNeverAsked, Status
<1>11. QED
  BY <1>6, <1>7, <1>8, <1>9, <1>10

(* A change of one known request's status to one that is not pending, with *)
(* a suspended call and no change to the policies, keeps the invariant.    *)
LEMMA StatusStep ==
    ASSUME BrokerInv, TypeOK', NEW k \in Calls, NEW r \in RequestIds, Known(r),
           NEW status \in Statuses \ {"pending"}, SetStatus(r, status),
           NEW phase \in AuditPhases, Suspend(k, "audit", r, phase),
           UNCHANGED <<remembered, policyFile, issued, runs>>,
           status \in {"executed", "failed"} => runs[r] > 0
    PROVE  /\ CallsConsistent' /\ TablesUnique' /\ RelayNeverAsked'
           /\ \A q \in RequestIds : Known(q)' <=> Known(q)
           /\ relayed' = relayed => HistoryConsistent'
           /\ UNCHANGED <<relays, relayed>> => RelaysRecorded'
<1> USE DEF BrokerInv
<1>1. /\ requests'[r] \in Request
      /\ requests'[r].status = status
      /\ requests'[r].capability = requests[r].capability
      /\ requests'[r].userDecided = requests[r].userDecided
      /\ \A q \in RequestIds : q # r => requests'[q] = requests[q]
  BY SetStatusEffect DEF Request
<1>2. \A q \in RequestIds : Known(q)' <=> Known(q)
  BY <1>1, NoRequestAssumption DEF Known
<1>3. CallsConsistent'
  <2>1. "audit" \in Awaits /\ runs' \in [RequestIds -> Nat]
    BY DEF Awaits, TypeOK
  <2>2. \A q \in RequestIds : Known(q) => Known(q)' /\ runs'[q] >= runs[q]
    BY <1>2 DEF TypeOK
  <2>3. QED
    BY <2>1, <2>2, SuspendStaysConsistent
<1>4. TablesUnique'
  BY SuspendTables DEF TablesUnique, OneAnswerPerScope
<1>5. RelayNeverAsked'
  BY <1>1, <1>2 DEF RelayNeverAsked, Status
<1>6. relayed' = relayed => HistoryConsistent'
  BY <1>1, <1>2 DEF HistoryConsistent, Status
<1>7. UNCHANGED <<relays, relayed>> => RelaysRecorded'
  BY <1>2, RelaysStayRecorded DEF TypeOK
<1>8. QED
  BY <1>2, <1>3, <1>4, <1>5, <1>6, <1>7

LEMMA CancelStep ==
    ASSUME BrokerInv, TypeOK', NEW k \in Calls, NEW r \in RequestIds,
           Cancel(k, r) \/ ExecuteTurnedDown(k, r)
    PROVE  BrokerInv'
<1> USE DEF BrokerInv, history
<1>1. CASE Cancel(k, r)
  BY <1>1, StatusStep DEF Cancel, Cancellable, Statuses, AuditPhases
<1>2. CASE ExecuteTurnedDown(k, r)
  BY <1>2, StatusStep DEF ExecuteTurnedDown, Executable, Statuses, AuditPhases
<1>3. QED
  BY <1>1, <1>2

LEMMA ExecuteStartStep ==
    ASSUME BrokerInv, TypeOK', NEW k \in Calls, NEW r \in RequestIds, ExecuteStart(k, r)
    PROVE  BrokerInv'
<1> USE DEF BrokerInv, brokerVars
<1>1. Known(r) /\ Status(r) = "allowed"
  BY DEF ExecuteStart, Executable
<1>2. UNCHANGED <<remembered, requests, relays, policyFile, issued, relayed>>
  BY DEF ExecuteStart
<1>3. /\ runs'[r] = runs[r] + 1
      /\ \A q \in RequestIds : q # r => runs'[q] = runs[q]
  BY DEF ExecuteStart, TypeOK
<1>4. Suspend(k, "acting", r, "none")
  BY DEF ExecuteStart
<1>5. CallsConsistent'
  <2>1. \A q \in RequestIds : Known(q) => Known(q)' /\ runs'[q] >= runs[q]
    BY <1>2, <1>3 DEF Known, TypeOK
  <2>2. runs'[r] > 0
    BY <1>3 DEF TypeOK
  <2>3. QED
    <3>1. Known(r)'
      BY <1>1, <2>1
    <3>2. "acting" \in Awaits /\ runs' \in [RequestIds -> Nat]
      BY DEF Awaits, TypeOK
    <3>3. QED
      BY <1>4, <2>1, <2>2, <3>1, <3>2, SuspendStaysConsistent
<1>6. TablesUnique'
  BY <1>2, <1>4, SuspendTables DEF TablesUnique, OneAnswerPerScope
<1>7. HistoryConsistent'
  BY <1>1, <1>2, <1>3 DEF HistoryConsistent, Known, Status, TypeOK
<1>8. RelaysRecorded'
  BY <1>2 DEF RelaysRecorded, RelaysInto, Known, Tainted
<1>9. RelayNeverAsked'
  BY <1>2 DEF RelayNeverAsked, Known, Status
<1>10. QED
  BY <1>5, <1>6, <1>7, <1>8, <1>9

(* The end of an action: a relay that ran is recorded in the same step. *)
LEMMA ActionDoneStep ==
    ASSUME BrokerInv, TypeOK', NEW k \in Calls, NEW succeeded \in BOOLEAN,
           ActionDone(k, succeeded)
    PROVE  BrokerInv'
<1> DEFINE r == calls[k].request
           c == requests[r].context
           status == IF succeeded THEN "executed" ELSE "failed"
<1> USE DEF BrokerInv
<1>1. r \in RequestIds /\ Known(r) /\ runs[r] > 0
  BY DEF ActionDone, CallsConsistent
<1>2. /\ SetStatus(r, status)
      /\ Suspend(k, "audit", r, status)
      /\ status \in Statuses \ {"pending"}
      /\ status \in AuditPhases
      /\ UNCHANGED <<remembered, policyFile, issued, runs>>
  BY DEF ActionDone, Statuses, AuditPhases
<1>3. /\ CallsConsistent' /\ TablesUnique' /\ RelayNeverAsked'
      /\ \A q \in RequestIds : Known(q)' <=> Known(q)
      /\ relayed' = relayed => HistoryConsistent'
  BY <1>1, <1>2, StatusStep
<1>4. \/ UNCHANGED <<relays, relayed>>
      \/ relays' = relays \union {c} /\ relayed' = relayed \union {<<r, c>>}
  BY DEF ActionDone
<1>5. r \in issued
  BY <1>1 DEF HistoryConsistent
<1>6. HistoryConsistent'
  <2>1. /\ requests'[r].status = status
        /\ \A q \in RequestIds : q # r => requests'[q] = requests[q]
    BY <1>1, <1>2, SetStatusEffect
  <2>2. QED
    BY <1>1, <1>2, <1>3, <1>4, <1>5, <2>1 DEF HistoryConsistent, Status
<1>7. RelaysRecorded'
  BY <1>3, <1>4 DEF RelaysRecorded, RelaysInto, Tainted, TypeOK
<1>8. QED
  BY <1>3, <1>6, <1>7

(* Revocation only takes answers out of the table. *)
LEMMA RevokeStep ==
    ASSUME BrokerInv, TypeOK', NEW k \in Calls, NEW cap \in Capabilities \union {"any"},
           NEW scope \in Scopes \union {"any"}, Revoke(k, cap, scope)
    PROVE  BrokerInv'
<1> USE DEF BrokerInv, history
<1>1. UNCHANGED <<requests, relays, policyFile, issued, runs, relayed>>
  BY DEF Revoke
<1>2. Suspend(k, "mkdir", NoRequest, "revoked")
  BY DEF Revoke
<1>3. CallsConsistent'
  <2>1. \A q \in RequestIds : Known(q) => Known(q)' /\ runs'[q] >= runs[q]
    BY <1>1 DEF Known, TypeOK
  <2>2. "revoked" \in AuditPhases /\ "mkdir" \in Awaits \ {"acting"}
    BY DEF Awaits, AuditPhases
  <2>3. QED
    BY <1>2, <2>1, <2>2, SuspendStaysConsistent DEF TypeOK
<1>4. TablesUnique'
  <2>1. OneAnswerPerScope(remembered')
    BY FewerAnswers DEF Revoke, TablesUnique
  <2>2. QED
    BY <1>1, <1>2, <2>1, SuspendTables DEF TablesUnique, OneAnswerPerScope
<1>5. HistoryConsistent' /\ RelaysRecorded' /\ RelayNeverAsked'
  BY <1>1 DEF HistoryConsistent, RelaysRecorded, RelaysInto, RelayNeverAsked, Known, Status, Tainted
<1>6. QED
  BY <1>3, <1>4, <1>5

(* The file and the audit log: only calls, policyFile and audit change. *)
LEMMA DiskStep ==
    ASSUME BrokerInv, TypeOK', NEW k \in Calls,
           \/ SnapshotPolicies(k) \/ TruncateFile(k) \/ WriteFile(k)
           \/ AppendAudit(k) \/ CallFails(k)
    PROVE  BrokerInv'
<1> USE DEF BrokerInv, brokerVars, history
<1>1. UNCHANGED <<remembered, requests, relays, issued, runs, relayed>>
  BY DEF SnapshotPolicies, TruncateFile, WriteFile, AppendAudit, CallFails
<1>2. HistoryConsistent' /\ RelaysRecorded' /\ RelayNeverAsked'
  BY <1>1 DEF HistoryConsistent, RelaysRecorded, RelaysInto, RelayNeverAsked, Known, Status, Tainted
<1>3. /\ OneAnswerPerScope({})
      /\ OneAnswerPerScope(remembered)
      /\ OneAnswerPerScope(policyFile)
      /\ \A j \in Calls : OneAnswerPerScope(calls[j].table)
  BY DEF TablesUnique, OneAnswerPerScope
<1>4. calls[k].at \in {"mkdir", "open", "write", "audit"} /\ calls[k].at \in Awaits \ {"acting"}
  BY DEF SnapshotPolicies, TruncateFile, WriteFile, AppendAudit, CallFails, Awaits
<1>5. calls[k].phase \in AuditPhases
  BY <1>4 DEF CallsConsistent
<1>6. \A j \in Calls : j # k => calls'[j] = calls[j]
  BY DEF SnapshotPolicies, TruncateFile, WriteFile, AppendAudit, CallFails, Suspend, TypeOK
<1>7. /\ calls'[k].at \in (Awaits \union {"idle"}) \ {"acting"}
      /\ calls'[k].at # "idle" => calls'[k].phase = calls[k].phase
      /\ calls'[k].table \in {{}, remembered, calls[k].table}
  <2>1. calls[k] \in Call
    BY DEF TypeOK
  <2>2. QED
    BY <2>1 DEF SnapshotPolicies, TruncateFile, WriteFile, AppendAudit, CallFails,
                Suspend, Idle, TypeOK, Call, Awaits
<1>8. CallsConsistent'
  <2>1. ASSUME NEW j \in Calls
        PROVE  /\ calls'[j].at = "acting" =>
                    /\ calls'[j].request \in RequestIds
                    /\ requests'[calls'[j].request] # NoRequest
                    /\ runs'[calls'[j].request] > 0
               /\ calls'[j].at \in Awaits \ {"acting"} => calls'[j].phase \in AuditPhases
    <3>1. CASE j = k
      BY <1>5, <1>7, <3>1 DEF Awaits
    <3>2. CASE j # k
      <4>1. calls'[j] = calls[j]
        BY <1>6, <3>2
      <4>2. QED
        BY <1>1, <4>1 DEF CallsConsistent, Known
    <3>3. QED
      BY <3>1, <3>2
  <2>2. QED
    BY <2>1 DEF CallsConsistent, Known
<1>9. OneAnswerPerScope(policyFile')
  <2>1. policyFile' \in {{}, policyFile, calls[k].table}
    BY DEF SnapshotPolicies, TruncateFile, WriteFile, Written, AppendAudit, CallFails
  <2>2. QED
    BY <1>3, <2>1
<1>10. TablesUnique'
  <2>1. \A j \in Calls : OneAnswerPerScope(calls'[j].table)
    BY <1>3, <1>6, <1>7
  <2>2. QED
    BY <1>1, <1>3, <1>9, <2>1 DEF TablesUnique, OneAnswerPerScope
<1>11. QED
  BY <1>2, <1>8, <1>10

LEMMA RestartStep ==
    ASSUME BrokerInv, TypeOK', Restart
    PROVE  BrokerInv'
<1> USE DEF BrokerInv, Restart
<1>1. \A r \in RequestIds : ~Known(r)'
  BY DEF Known
<1>2. CallsConsistent' /\ TablesUnique'
  BY DEF CallsConsistent, TablesUnique, OneAnswerPerScope, Idle, Awaits
<1>3. HistoryConsistent'
  BY <1>1 DEF HistoryConsistent
<1>4. RelaysRecorded'
  BY <1>1 DEF RelaysRecorded, RelaysInto, TypeOK
<1>5. RelayNeverAsked'
  BY <1>1 DEF RelayNeverAsked
<1>6. QED
  BY <1>2, <1>3, <1>4, <1>5

LEMMA InvInit == Init => BrokerInv
<1> SUFFICES ASSUME Init PROVE BrokerInv
  OBVIOUS
<1> USE DEF Init
<1>1. TypeOK
  BY StoredPoliciesAssumption DEF TypeOK, Call, Idle
<1>2. \A r \in RequestIds : ~Known(r)
  BY DEF Known
<1>3. CallsConsistent /\ HistoryConsistent /\ RelaysRecorded /\ RelayNeverAsked
  BY <1>2 DEF CallsConsistent, HistoryConsistent, RelaysRecorded, RelaysInto,
              RelayNeverAsked, Idle, Awaits
<1>4. TablesUnique
  BY StoredPoliciesAssumption DEF TablesUnique, OneAnswerPerScope, Idle
<1>5. QED
  BY <1>1, <1>3, <1>4 DEF BrokerInv

LEMMA InvStep == BrokerInv /\ [Next]_vars => BrokerInv'
<1> SUFFICES ASSUME BrokerInv, [Next]_vars PROVE BrokerInv'
  OBVIOUS
<1>1. TypeOK'
  BY TypeStep DEF BrokerInv
<1>2. CASE Next
  BY <1>1, <1>2, ProposeStep, DecideStep, CancelStep, ExecuteStartStep, ActionDoneStep,
     RevokeStep, DiskStep, RestartStep DEF Next, Arrive, Continue
<1>3. CASE UNCHANGED vars
  BY <1>1, <1>3 DEF vars, brokerVars, history, BrokerInv, CallsConsistent, TablesUnique,
     OneAnswerPerScope, HistoryConsistent, RelaysRecorded, RelaysInto, RelayNeverAsked,
     Known, Status, Tainted
<1>4. QED
  BY <1>2, <1>3

(* The inductive invariant holds in every reachable state. *)
THEOREM BrokerInvariant == Spec => []BrokerInv
<1>1. QED
  BY InvInit, InvStep, PTL DEF Spec

(* The types of the broker's state, of the calls in flight and of the      *)
(* policy file.                                                            *)
THEOREM TypeCorrect == Spec => []TypeOK
BY BrokerInvariant, PTL DEF BrokerInv

(* broker.ts "A remembered decision replaces any previous one at the same  *)
(* scope": also across stale snapshots, lost writes and restarts.          *)
THEOREM AnswersUnique == Spec => []UniqueAnswers
<1>1. BrokerInv => UniqueAnswers
  BY DEF BrokerInv, TablesUnique, UniqueAnswers
<1>2. QED
  BY <1>1, BrokerInvariant, PTL

(* The user is never asked about agent.relay. *)
THEOREM RelayIsNeverAsked == Spec => []RelayNeverAsked
BY BrokerInvariant, PTL DEF BrokerInv

-----------------------------------------------------------------------------
(* What the check at the start of execute() guarantees. *)

(* Only the start of execute() counts as a start of the action, and it     *)
(* found the request allowed and not turned down.                          *)
LEMMA StartIsChecked ==
    ASSUME BrokerInv, [Next]_vars, NEW r \in RequestIds, Starts(r)
    PROVE  Known(r) /\ Status(r) = "allowed" /\ ~TurnedDown(r)
<1>1. runs' # runs
  BY DEF Starts, BrokerInv, TypeOK
<1>2. \E k \in Calls, q \in RequestIds : ExecuteStart(k, q)
  <2>1. ASSUME NEW k \in Calls, NEW q \in RequestIds,
               Cancel(k, q) \/ ExecuteTurnedDown(k, q)
                    \/ (\E cap \in Capabilities, c \in Contexts : Propose(k, q, cap, c))
                    \/ (\E decision \in Decisions, remember, global \in BOOLEAN :
                            Decide(k, q, decision, remember, global))
        PROVE  runs' = runs
    BY <2>1 DEF Cancel, ExecuteTurnedDown, Propose, Decide, history
  <2>2. ASSUME NEW k \in Calls,
               Continue(k) \/ CallFails(k)
                    \/ (\E cap \in Capabilities \union {"any"}, scope \in Scopes \union {"any"} :
                            Revoke(k, cap, scope))
        PROVE  runs' = runs
    BY <2>2 DEF Continue, CallFails, Revoke, ActionDone, SnapshotPolicies, TruncateFile,
                WriteFile, AppendAudit, history
  <2>3. Restart \/ UNCHANGED vars => runs' = runs
    BY DEF Restart, vars, history
  <2>4. QED
    BY <1>1, <2>1, <2>2, <2>3 DEF Next, Arrive
<1>3. PICK k \in Calls, q \in RequestIds : ExecuteStart(k, q)
  BY <1>2
<1>4. q = r
  BY <1>3 DEF ExecuteStart, Starts, BrokerInv, TypeOK
<1>5. QED
  BY <1>3, <1>4 DEF ExecuteStart, Executable

(* What resolvePolicy says of a capability, in terms of the answers.       *)
LEMMA ResolvedAllow ==
    ASSUME NEW table \in SUBSET Answer, NEW cap \in Capabilities, NEW c \in Contexts,
           OneAnswerPerScope(table)
    PROVE  LET p == ResolvePolicy(table, cap, c)
               own == AnswersAt(table, cap, c)
               global == AnswersAt(table, cap, Global)
           IN  /\ p.decision # "deny" =>
                    /\ \A e \in own : e.decision = "allow"
                    /\ own = {} => \A e \in global : e.decision = "allow"
                    /\ DefaultPolicy[cap] = "deny" => own \union global # {}
               /\ p.decision = "allow" =>
                    \/ DefaultPolicy[cap] = "allow"
                    \/ \E e \in own \union global : e.decision = "allow"
<1> DEFINE own == AnswersAt(table, cap, c)
           global == AnswersAt(table, cap, Global)
<1>1. \A d, e \in own : d = e
  BY DEF AnswersAt, OneAnswerPerScope
<1>2. \A d, e \in global : d = e
  BY DEF AnswersAt, OneAnswerPerScope
<1>3. \A e \in own \union global : e.decision \in {"allow", "deny"}
  BY DEF AnswersAt, Answer, Decisions
<1>4. CASE own # {}
  <2>1. PICK e \in own : e = CHOOSE d \in own : TRUE
    BY <1>4
  <2>2. ResolvePolicy(table, cap, c).decision = e.decision
    BY <1>4, <2>1 DEF ResolvePolicy
  <2>3. QED
    BY <1>1, <1>3, <1>4, <2>1, <2>2
<1>5. CASE own = {} /\ global # {}
  <2>1. PICK e \in global : e = CHOOSE d \in global : TRUE
    BY <1>5
  <2>2. ResolvePolicy(table, cap, c).decision = e.decision
    BY <1>5, <2>1 DEF ResolvePolicy
  <2>3. QED
    BY <1>2, <1>3, <1>5, <2>1, <2>2
<1>6. CASE own = {} /\ global = {}
  BY <1>6 DEF ResolvePolicy
<1>7. QED
  BY <1>4, <1>5, <1>6

(* What a start means for the policy in force. *)
LEMMA StartPolicy ==
    ASSUME BrokerInv, NEW r \in RequestIds, Known(r), ~TurnedDown(r)
    PROVE  LET p == ResolvePolicy(remembered, requests[r].capability, requests[r].context)
           IN  /\ requests[r].capability \in Capabilities
               /\ requests[r].context \in Contexts
               /\ p.decision # "deny"
               /\ ~requests[r].userDecided => p.decision = "allow"
               /\ ~requests[r].userDecided /\ Tainted(requests[r].context) =>
                    p.source = "default" /\ DefaultPolicy[requests[r].capability] = "allow"
<1>1. requests[r] \in Request
  BY KnownRequest DEF BrokerInv
<1>2. requests[r].capability \in Capabilities /\ requests[r].context \in Contexts
  BY <1>1 DEF Request
<1>3. QED
  BY <1>2, ResolvedPolicy DEF TurnedDown, EffectivePolicy, BrokerInv, TypeOK, Policies

(* A deny recorded before the action starts wins, at every scope, for      *)
(* every capability and however the calls interleave.                      *)
THEOREM DenyAlwaysWins == Spec => DenyWins
<1>1. ASSUME BrokerInv, [Next]_vars, NEW r \in RequestIds, Starts(r)
      PROVE  /\ \A e \in OwnAnswers(r) : e.decision = "allow"
             /\ OwnAnswers(r) = {} => \A e \in GlobalAnswers(r) : e.decision = "allow"
             /\ Default(r) = "deny" => OwnAnswers(r) \union GlobalAnswers(r) # {}
  BY <1>1, StartIsChecked, StartPolicy, ResolvedAllow
  DEF OwnAnswers, GlobalAnswers, Default, BrokerInv, TypeOK, TablesUnique
<1>2. BrokerInv /\ [Next]_vars =>
        [\A r \in RequestIds : Starts(r) =>
            /\ \A e \in OwnAnswers(r) : e.decision = "allow"
            /\ OwnAnswers(r) = {} => \A e \in GlobalAnswers(r) : e.decision = "allow"
            /\ Default(r) = "deny" => OwnAnswers(r) \union GlobalAnswers(r) # {}]_vars
  BY <1>1
<1>3. QED
  BY <1>2, BrokerInvariant, PTL DEF DenyWins, Spec

(* A standing grant that was withdrawn authorises nothing any more. *)
THEOREM RevokedGrantsNeverRun == Spec => RevokedGrantNeverRuns
<1>1. ASSUME BrokerInv, [Next]_vars, NEW r \in RequestIds, Starts(r), ~requests[r].userDecided
      PROVE  \/ Default(r) = "allow"
             \/ \E e \in OwnAnswers(r) \union GlobalAnswers(r) : e.decision = "allow"
  BY <1>1, StartIsChecked, StartPolicy, ResolvedAllow
  DEF OwnAnswers, GlobalAnswers, Default, BrokerInv, TypeOK, TablesUnique
<1>2. BrokerInv /\ [Next]_vars =>
        [\A r \in RequestIds : Starts(r) /\ ~requests[r].userDecided =>
            \/ Default(r) = "allow"
            \/ \E e \in OwnAnswers(r) \union GlobalAnswers(r) : e.decision = "allow"]_vars
  BY <1>1
<1>3. QED
  BY <1>2, BrokerInvariant, PTL DEF RevokedGrantNeverRuns, Spec

(* In a context that received a relay nothing runs on a remembered grant.  *)
THEOREM NoGrantIsLaundered == Spec => NoLaunderedGrant
<1>1. ASSUME BrokerInv, [Next]_vars, NEW r \in RequestIds, Starts(r),
             RelaysInto(requests[r].context) # {}
      PROVE  requests[r].userDecided \/ Default(r) = "allow"
  <2>1. Known(r) /\ ~TurnedDown(r)
    BY <1>1, StartIsChecked
  <2>2. Tainted(requests[r].context)
    BY <1>1, <2>1, StartPolicy DEF BrokerInv, RelaysRecorded
  <2>3. QED
    BY <1>1, <2>1, <2>2, StartPolicy DEF Default
<1>2. BrokerInv /\ [Next]_vars =>
        [\A r \in RequestIds :
            Starts(r) /\ RelaysInto(requests[r].context) # {} =>
                requests[r].userDecided \/ Default(r) = "allow"]_vars
  BY <1>1
<1>3. QED
  BY <1>2, BrokerInvariant, PTL DEF NoLaunderedGrant, Spec

-----------------------------------------------------------------------------
(* The broker implements the consent gate. *)

(* The phase of a request, now and after a step. *)
LEMMA PhaseNow ==
    ASSUME BrokerInv, NEW r \in RequestIds
    PROVE  /\ r \notin issued => GatePhase[r] = "absent"
           /\ r \in issued /\ ~Known(r) => GatePhase[r] = "gone"
           /\ Known(r) /\ runs[r] > 0 => GatePhase[r] = "started"
           /\ Known(r) /\ runs[r] = 0 /\ Status(r) = "pending" => GatePhase[r] = "asked"
           /\ Known(r) /\ runs[r] = 0 /\ Status(r) = "allowed" => GatePhase[r] = "granted"
           /\ Known(r) /\ runs[r] = 0 /\ Status(r) \in {"denied", "cancelled"} =>
                GatePhase[r] = "refused"
BY DEF GatePhase, BrokerInv, HistoryConsistent

LEMMA PhaseNext ==
    ASSUME BrokerInv', NEW r \in RequestIds
    PROVE  /\ r \notin issued' => GatePhase'[r] = "absent"
           /\ r \in issued' /\ ~Known(r)' => GatePhase'[r] = "gone"
           /\ Known(r)' /\ runs'[r] > 0 => GatePhase'[r] = "started"
           /\ Known(r)' /\ runs'[r] = 0 /\ Status(r)' = "pending" => GatePhase'[r] = "asked"
           /\ Known(r)' /\ runs'[r] = 0 /\ Status(r)' = "allowed" => GatePhase'[r] = "granted"
           /\ Known(r)' /\ runs'[r] = 0 /\ Status(r)' \in {"denied", "cancelled"} =>
                GatePhase'[r] = "refused"
BY DEF GatePhase, BrokerInv, HistoryConsistent

(* A step that touches one request moves that request's phase alone, so it *)
(* is a step of the gate when the two phases are joined by one of its      *)
(* actions, and a stutter when they are equal.                             *)
LEMMA OneRequestMoves ==
    ASSUME NEW r \in RequestIds,
           \A q \in RequestIds : q # r =>
                /\ requests'[q] = requests[q]
                /\ runs'[q] = runs[q]
                /\ q \in issued' <=> q \in issued,
           \/ GatePhase'[r] = GatePhase[r]
           \/ GatePhase[r] = "absent" /\ GatePhase'[r] \in {"asked", "granted", "refused"}
           \/ GatePhase[r] = "asked" /\ GatePhase'[r] \in {"granted", "refused"}
           \/ GatePhase[r] = "granted" /\ GatePhase'[r] \in {"refused", "started"}
    PROVE  [Gate!Next]_GatePhase
<1>1. \A q \in RequestIds : q # r => GatePhase'[q] = GatePhase[q]
  BY DEF GatePhase, Known, Status
<1>2. GatePhase' = [GatePhase EXCEPT ![r] = GatePhase'[r]]
  <2>1. /\ GatePhase = [q \in RequestIds |-> GatePhase[q]]
        /\ GatePhase' = [q \in RequestIds |-> GatePhase'[q]]
    BY DEF GatePhase
  <2>2. QED
    BY <1>1, <2>1
<1>3. CASE GatePhase'[r] = GatePhase[r]
  BY <1>1, <1>3 DEF GatePhase
<1>4. CASE GatePhase'[r] # GatePhase[r]
  <2>1. Gate!Ask(r) \/ Gate!Grant(r) \/ Gate!Refuse(r) \/ Gate!Start(r)
    BY <1>2, <1>4 DEF Gate!Ask, Gate!Grant, Gate!Refuse, Gate!Start, Gate!Move
  <2>2. QED
    BY <2>1 DEF Gate!Next
<1>5. QED
  BY <1>3, <1>4

(* A proposal is asked, granted or refused; an answer settles what was     *)
(* asked; a request turned down or cancelled before it ran is refused, and *)
(* one that ran stays started whatever its status says.                    *)
LEMMA RequestStep ==
    ASSUME BrokerInv, BrokerInv', NEW k \in Calls, NEW r \in RequestIds,
           \/ \E cap \in Capabilities, c \in Contexts : Propose(k, r, cap, c)
           \/ \E decision \in Decisions, remember, global \in BOOLEAN :
                    Decide(k, r, decision, remember, global)
           \/ Cancel(k, r) \/ ExecuteTurnedDown(k, r) \/ ExecuteStart(k, r)
           \/ \E succeeded \in BOOLEAN : ActionDone(k, succeeded) /\ calls[k].request = r
    PROVE  [Gate!Next]_GatePhase
<1> USE DEF BrokerInv, TypeOK, history, brokerVars
<1>1. ASSUME NEW cap \in Capabilities, NEW c \in Contexts, Propose(k, r, cap, c)
      PROVE  [Gate!Next]_GatePhase
  <2>1. GatePhase[r] = "absent" /\ runs[r] = 0
    BY <1>1, PhaseNow DEF Propose, HistoryConsistent
  <2>2. /\ requests'[r].status = StatusFor(EffectivePolicy(cap, c))
        /\ requests'[r] \in [capability : Capabilities, context : Contexts,
                             status : {"pending", "allowed", "denied"}, userDecided : BOOLEAN]
    BY <1>1, BirthTypes DEF Propose
  <2>3. Known(r)' /\ Status(r)' \in {"pending", "allowed", "denied"}
    BY <2>2, NoRequestAssumption DEF Known, Status, Request, Statuses
  <2>4. GatePhase'[r] \in {"asked", "granted", "refused"}
    BY <1>1, <2>1, <2>3, PhaseNext DEF Propose
  <2>5. \A q \in RequestIds : q # r =>
            requests'[q] = requests[q] /\ runs'[q] = runs[q] /\ (q \in issued' <=> q \in issued)
    BY <1>1 DEF Propose
  <2>6. QED
    BY <2>1, <2>4, <2>5, OneRequestMoves
<1>2. ASSUME ~ \E cap \in Capabilities, c \in Contexts : Propose(k, r, cap, c)
      PROVE  [Gate!Next]_GatePhase
  <2>1. Known(r) /\ requests[r] \in Request
    BY <1>2, KnownRequest
    DEF Decide, Decidable, Cancel, Cancellable, ExecuteTurnedDown, ExecuteStart,
        Executable, ActionDone, CallsConsistent
  <2>2. issued' = issued
    BY <1>2 DEF Decide, Cancel, ExecuteTurnedDown, ExecuteStart, ActionDone
  <2>3. /\ \A q \in RequestIds : q # r =>
            requests'[q] = requests[q] /\ runs'[q] = runs[q] /\ (q \in issued' <=> q \in issued)
        /\ requests'[r] \in Request
        /\ runs'[r] >= runs[r]
    <3>1. CASE \E decision \in Decisions, remember, global \in BOOLEAN :
                    Decide(k, r, decision, remember, global)
      <4>1. PICK decision \in Decisions, remember \in BOOLEAN, global \in BOOLEAN :
                    Decide(k, r, decision, remember, global)
        BY <3>1
      <4>2. UNCHANGED <<issued, runs>>
        BY <4>1 DEF Decide
      <4>3. QED
        BY <4>1, <4>2, DecideEffect
    <3>2. CASE ExecuteStart(k, r)
      BY <2>1, <3>2 DEF ExecuteStart
    <3>3. CASE Cancel(k, r) \/ ExecuteTurnedDown(k, r)
      <4>1. PICK status \in {"denied", "cancelled"} : SetStatus(r, status)
        BY <3>3 DEF Cancel, ExecuteTurnedDown
      <4>2. UNCHANGED <<issued, runs>>
        BY <3>3 DEF Cancel, ExecuteTurnedDown
      <4>3. QED
        BY <2>1, <4>1, <4>2, SetStatusEffect DEF Request, Statuses
    <3>4. CASE \E succeeded \in BOOLEAN : ActionDone(k, succeeded) /\ calls[k].request = r
      <4>1. PICK status \in {"executed", "failed"} : SetStatus(r, status)
        BY <3>4 DEF ActionDone
      <4>2. UNCHANGED <<issued, runs>>
        BY <3>4 DEF ActionDone
      <4>3. QED
        BY <2>1, <4>1, <4>2, SetStatusEffect DEF Request, Statuses
    <3>5. QED
      BY <1>2, <3>1, <3>2, <3>3, <3>4
  <2>4. Known(r)'
    BY <2>3, NoRequestAssumption DEF Known
  <2>5. CASE runs[r] > 0
    <3>1. runs'[r] > 0
      BY <2>3, <2>5
    <3>2. GatePhase[r] = "started" /\ GatePhase'[r] = "started"
      BY <2>1, <2>4, <2>5, <3>1, PhaseNow, PhaseNext
    <3>3. QED
      BY <2>3, <3>2, OneRequestMoves
  <2>6. CASE runs[r] = 0
    <3>1. CASE ExecuteStart(k, r)
      <4>1. GatePhase[r] = "granted"
        BY <2>6, <3>1, PhaseNow DEF ExecuteStart, Executable
      <4>2. runs'[r] > 0
        BY <2>6, <3>1 DEF ExecuteStart
      <4>3. GatePhase'[r] = "started"
        BY <2>4, <4>2, PhaseNext
      <4>4. QED
        BY <2>3, <4>1, <4>3, OneRequestMoves
    <3>2. CASE Cancel(k, r) \/ ExecuteTurnedDown(k, r)
      <4>1. runs'[r] = 0 /\ Status(r)' \in {"denied", "cancelled"}
        BY <2>1, <2>6, <3>2, SetStatusEffect DEF Cancel, ExecuteTurnedDown, Status
      <4>2. GatePhase'[r] = "refused"
        BY <2>4, <4>1, PhaseNext
      <4>3. Status(r) \in {"pending", "allowed", "denied", "cancelled"}
        BY <2>1, <2>6 DEF HistoryConsistent, Request, Statuses, Status
      <4>4. GatePhase[r] \in {"asked", "granted", "refused"}
        BY <2>1, <2>6, <4>3, PhaseNow
      <4>5. QED
        BY <2>3, <4>2, <4>4, OneRequestMoves
    <3>3. CASE \E decision \in Decisions, remember, global \in BOOLEAN :
                    Decide(k, r, decision, remember, global)
      <4>1. GatePhase[r] = "asked"
        BY <2>6, <3>3, PhaseNow DEF Decide, Decidable
      <4>2. runs'[r] = 0 /\ Status(r)' \in {"allowed", "denied"}
        <5>1. PICK decision \in Decisions, remember \in BOOLEAN, global \in BOOLEAN :
                    Decide(k, r, decision, remember, global)
          BY <3>3
        <5>2. requests'[r].status \in {"allowed", "denied"}
          BY <5>1, DecideEffect
        <5>3. runs' = runs
          BY <5>1 DEF Decide
        <5>4. QED
          BY <2>6, <5>2, <5>3 DEF Status
      <4>3. GatePhase'[r] \in {"granted", "refused"}
        BY <2>4, <4>2, PhaseNext
      <4>4. QED
        BY <2>3, <4>1, <4>3, OneRequestMoves
    <3>4. QED
      BY <1>2, <2>6, <3>1, <3>2, <3>3 DEF ActionDone, CallsConsistent
  <2>7. QED
    BY <2>5, <2>6
<1>3. QED
  BY <1>1, <1>2

(* Every step of the broker is a step of the gate or leaves it alone; a    *)
(* restart forgets every request that was proposed.                        *)
LEMMA GateStep ==
    ASSUME BrokerInv, BrokerInv', [Next]_vars
    PROVE  [Gate!Next]_GatePhase
<1>1. ASSUME UNCHANGED <<requests, issued, runs>>
      PROVE  [Gate!Next]_GatePhase
  BY <1>1 DEF GatePhase, Known, Status
<1>2. ASSUME NEW k \in Calls, Arrive(k) \/ Continue(k) \/ CallFails(k)
      PROVE  [Gate!Next]_GatePhase
  <2>1. CASE \E cap \in Capabilities \union {"any"}, scope \in Scopes \union {"any"} :
                Revoke(k, cap, scope)
    BY <1>1, <2>1 DEF Revoke, history
  <2>2. CASE SnapshotPolicies(k) \/ TruncateFile(k) \/ WriteFile(k) \/ AppendAudit(k)
                \/ CallFails(k)
    BY <1>1, <2>2
    DEF SnapshotPolicies, TruncateFile, WriteFile, AppendAudit, CallFails, brokerVars, history
  <2>3. CASE \E succeeded \in BOOLEAN : ActionDone(k, succeeded)
    <3>1. calls[k].request \in RequestIds
      BY <2>3 DEF ActionDone, BrokerInv, CallsConsistent
    <3>2. QED
      BY <2>3, <3>1, RequestStep
  <2>4. QED
    BY <1>2, <2>1, <2>2, <2>3, RequestStep DEF Arrive, Continue
<1>3. CASE Restart
  <2>1. \A r \in RequestIds :
            GatePhase'[r] = IF GatePhase[r] = "absent" THEN "absent" ELSE "gone"
    <3> SUFFICES ASSUME NEW r \in RequestIds
                 PROVE  GatePhase'[r] = IF GatePhase[r] = "absent" THEN "absent" ELSE "gone"
      OBVIOUS
    <3>1. ~Known(r)' /\ issued' = issued
      BY <1>3 DEF Restart, Known
    <3>2. r \in issued => GatePhase[r] # "absent"
      BY DEF GatePhase
    <3>3. QED
      BY <3>1, <3>2, PhaseNow, PhaseNext
  <2>2. Gate!Forget
    BY <2>1 DEF Gate!Forget, GatePhase
  <2>3. QED
    BY <2>2 DEF Gate!Next
<1>4. CASE UNCHANGED vars
  BY <1>1, <1>4 DEF vars, brokerVars, history
<1>5. QED
  BY <1>2, <1>3, <1>4 DEF Next

(* The broker implements the consent gate: no action starts that was not   *)
(* granted, and nothing refused, cancelled or forgotten ever starts,       *)
(* however calls, failures and restarts interleave.                        *)
THEOREM BrokerImplementsConsentGate == Spec => ImplementsConsentGate
<1>1. Init => Gate!Init
  <2> SUFFICES ASSUME Init PROVE Gate!Init
    OBVIOUS
  <2>1. \A r \in RequestIds : GatePhase[r] = "absent"
    BY InvInit, PhaseNow DEF Init
  <2>2. QED
    BY <2>1 DEF Gate!Init, GatePhase
<1>2. BrokerInv /\ BrokerInv' /\ [Next]_vars => [Gate!Next]_GatePhase
  BY GateStep
<1>3. QED
  BY <1>1, <1>2, BrokerInvariant, PTL DEF Spec, ImplementsConsentGate, Gate!Spec

-----------------------------------------------------------------------------
(* What the runs of a request leave behind.  First, what the steps do to   *)
(* the calls and the requests.                                             *)

LEMMA SuspendFields ==
    ASSUME TypeOK, NEW k \in Calls, NEW at, NEW r, NEW phase, Suspend(k, at, r, phase)
    PROVE  /\ calls'[k].at = at /\ calls'[k].request = r /\ calls'[k].phase = phase
           /\ calls'[k].table = {}
           /\ \A j \in Calls \ {k} : calls'[j] = calls[j]
<1>1. \A j \in Calls :
        calls'[j] = IF j = k
                    THEN [at |-> at, request |-> r, phase |-> phase, table |-> {}]
                    ELSE calls[j]
  BY SuspendCalls
<1>2. calls'[k] = [at |-> at, request |-> r, phase |-> phase, table |-> {}]
  BY <1>1
<1>3. QED
  BY <1>1, <1>2

(* A call that arrives was idle and now serves a request: the one it is    *)
(* about, or none when it withdraws grants.                                *)
LEMMA ArriveCalls ==
    ASSUME TypeOK, NEW k \in Calls, Arrive(k)
    PROVE  /\ calls[k].at = "idle"
           /\ calls'[k].at # "idle"
           /\ calls'[k].at \in {"acting", "mkdir", "audit"}
           /\ \A j \in Calls \ {k} : calls'[j] = calls[j]
           /\ UNCHANGED <<policyFile, audit, relayed, restarts>>
<1>1. ASSUME NEW at \in {"acting", "mkdir", "audit"}, NEW r, NEW phase,
             Suspend(k, at, r, phase)
      PROVE  /\ calls'[k].at \in {"acting", "mkdir", "audit"}
             /\ calls'[k].at # "idle"
             /\ \A j \in Calls \ {k} : calls'[j] = calls[j]
  BY <1>1, SuspendFields
<1>2. CASE \E r \in RequestIds, cap \in Capabilities, c \in Contexts : Propose(k, r, cap, c)
  BY <1>1, <1>2 DEF Propose, IsIdle
<1>3. CASE \E r \in RequestIds, decision \in Decisions, remember, global \in BOOLEAN :
                Decide(k, r, decision, remember, global)
  BY <1>1, <1>3 DEF Decide, IsIdle, history
<1>4. CASE \E r \in RequestIds : Cancel(k, r) \/ ExecuteTurnedDown(k, r) \/ ExecuteStart(k, r)
  BY <1>1, <1>4 DEF Cancel, ExecuteTurnedDown, ExecuteStart, IsIdle, history
<1>5. CASE \E cap \in Capabilities \union {"any"}, scope \in Scopes \union {"any"} :
                Revoke(k, cap, scope)
  BY <1>1, <1>5 DEF Revoke, IsIdle, history
<1>6. QED
  BY <1>2, <1>3, <1>4, <1>5 DEF Arrive

(* What a call does to itself between its first await and its end.         *)
LEMMA DiskCalls ==
    ASSUME TypeOK, NEW k \in Calls,
           SnapshotPolicies(k) \/ TruncateFile(k) \/ WriteFile(k) \/ AppendAudit(k)
                \/ CallFails(k)
    PROVE  /\ calls[k].at \in {"mkdir", "open", "write", "audit"}
           /\ calls'[k].at \in {"open", "write", "audit", "idle"}
           /\ \A j \in Calls \ {k} : calls'[j] = calls[j]
           /\ UNCHANGED <<brokerVars, issued, runs, relayed>>
<1>1. calls[k] \in Call
  BY DEF TypeOK
<1>2. CASE SnapshotPolicies(k) \/ TruncateFile(k)
  BY <1>1, <1>2 DEF SnapshotPolicies, TruncateFile, TypeOK, Call, history
<1>3. CASE WriteFile(k)
  BY <1>3, SuspendFields DEF WriteFile, history
<1>4. CASE AppendAudit(k) \/ CallFails(k)
  <2>1. calls' = [calls EXCEPT ![k] = Idle]
    BY <1>4 DEF AppendAudit, CallFails
  <2>2. calls'[k].at = "idle" /\ \A j \in Calls \ {k} : calls'[j] = calls[j]
    BY <2>1 DEF TypeOK, Idle
  <2>3. QED
    BY <1>4, <2>2 DEF AppendAudit, CallFails, history
<1>5. QED
  BY <1>2, <1>3, <1>4

LEMMA ActionDoneCalls ==
    ASSUME BrokerInv, NEW k \in Calls, NEW succeeded \in BOOLEAN, ActionDone(k, succeeded)
    PROVE  LET r == calls[k].request
           IN  /\ r \in RequestIds /\ Known(r) /\ calls[k].at = "acting"
               /\ calls'[k].at = "audit" /\ calls'[k].request = r
               /\ calls'[k].phase = IF succeeded THEN "executed" ELSE "failed"
               /\ \A j \in Calls \ {k} : calls'[j] = calls[j]
               /\ \A q \in RequestIds : q # r => requests'[q] = requests[q]
               /\ requests'[r] \in Request
               /\ requests'[r].capability = requests[r].capability
               /\ requests'[r].context = requests[r].context
               /\ requests'[r].status = IF succeeded THEN "executed" ELSE "failed"
               /\ UNCHANGED <<remembered, policyFile, audit, issued, runs, restarts>>
<1> DEFINE r == calls[k].request
           status == IF succeeded THEN "executed" ELSE "failed"
<1>1. r \in RequestIds /\ Known(r) /\ calls[k].at = "acting"
  BY DEF ActionDone, BrokerInv, CallsConsistent
<1>2. SetStatus(r, status) /\ Suspend(k, "audit", r, status)
  BY DEF ActionDone
<1>3. TypeOK /\ UNCHANGED <<remembered, policyFile, audit, issued, runs, restarts>>
  BY DEF ActionDone, BrokerInv
<1>4. /\ calls'[k].at = "audit" /\ calls'[k].request = r /\ calls'[k].phase = status
      /\ \A j \in Calls \ {k} : calls'[j] = calls[j]
  BY <1>2, <1>3, SuspendFields
<1>5. /\ \A q \in RequestIds : q # r => requests'[q] = requests[q]
      /\ requests'[r].capability = requests[r].capability
      /\ requests'[r].context = requests[r].context
      /\ requests'[r].status = status
      /\ requests'[r] \in Request
  <2> HIDE DEF r, status
  <2>1. status \in Statuses
    BY DEF status, Statuses
  <2>2. QED
    BY <1>1, <1>2, <1>3, <2>1, SetStatusEffect DEF Request
<1>6. QED
  BY <1>1, <1>3, <1>4, <1>5

(* A proposal is of a request nobody knew.                                 *)
LEMMA ProposeRequests ==
    ASSUME BrokerInv, NEW k \in Calls, NEW r \in RequestIds,
           NEW cap \in Capabilities, NEW c \in Contexts, Propose(k, r, cap, c)
    PROVE  /\ r \notin issued /\ ~Known(r) /\ runs[r] = 0
           /\ requests'[r] \in Request
           /\ requests'[r].status = StatusFor(EffectivePolicy(cap, c))
           /\ \A q \in RequestIds : q # r => requests'[q] = requests[q]
           /\ calls'[k].at = "audit" /\ calls'[k].request = r
           /\ calls'[k].phase = BirthPhase(StatusFor(EffectivePolicy(cap, c)))
           /\ UNCHANGED <<remembered, runs, relayed>>
<1> DEFINE status == StatusFor(EffectivePolicy(cap, c))
           new == [capability |-> cap, context |-> c,
                   status |-> status, userDecided |-> FALSE]
<1>1. r \notin issued /\ runs[r] = 0 /\ ~Known(r)
  BY DEF Propose, HistoryConsistent, BrokerInv
<1>2. new \in Request
  BY BirthTypes DEF Request, Statuses
<1>3. /\ requests' = [requests EXCEPT ![r] = new]
      /\ Suspend(k, "audit", r, BirthPhase(status))
      /\ UNCHANGED <<remembered, runs, relayed>>
  BY DEF Propose
<1>4. /\ requests'[r] = new
      /\ \A q \in RequestIds : q # r => requests'[q] = requests[q]
  BY <1>3 DEF BrokerInv, TypeOK
<1>5. /\ calls'[k].at = "audit" /\ calls'[k].request = r
      /\ calls'[k].phase = BirthPhase(status)
  BY <1>3, SuspendFields DEF BrokerInv
<1>6. QED
  BY <1>1, <1>2, <1>3, <1>4, <1>5

(* The steps that change the status of a known request.                    *)
LEMMA StatusRequests ==
    ASSUME BrokerInv, NEW k \in Calls, NEW r \in RequestIds,
           Cancel(k, r) \/ ExecuteTurnedDown(k, r)
    PROVE  /\ Known(r) /\ requests'[r] \in Request
           /\ \A q \in RequestIds : q # r => requests'[q] = requests[q]
           /\ requests'[r].capability = requests[r].capability
           /\ requests'[r].context = requests[r].context
           /\ requests'[r].status \in {"cancelled", "denied"}
           /\ calls'[k].at = "audit" /\ calls'[k].request = r
           /\ UNCHANGED <<remembered, runs, relayed>>
<1>1. PICK status \in {"cancelled", "denied"}, phase \in AuditPhases :
            SetStatus(r, status) /\ Suspend(k, "audit", r, phase)
  BY DEF Cancel, ExecuteTurnedDown, AuditPhases
<1>2. Known(r) /\ UNCHANGED <<remembered, runs, relayed>>
  BY DEF Cancel, ExecuteTurnedDown, Cancellable, Executable, history
<1>3. status \in Statuses /\ TypeOK
  BY DEF Statuses, BrokerInv
<1>4. /\ \A q \in RequestIds : q # r => requests'[q] = requests[q]
      /\ requests'[r].capability = requests[r].capability
      /\ requests'[r].context = requests[r].context
      /\ requests'[r].status = status
      /\ requests'[r] \in Request
  BY <1>1, <1>2, <1>3, SetStatusEffect DEF Request
<1>5. calls'[k].at = "audit" /\ calls'[k].request = r
  BY <1>1, <1>3, SuspendFields
<1>6. QED
  BY <1>2, <1>4, <1>5

(* Only the start and the end of execute() change what is acting.          *)
LEMMA ActingKept ==
    ASSUME NEW k \in Calls, \A j \in Calls \ {k} : calls'[j] = calls[j],
           calls[k].at # "acting", calls'[k].at # "acting"
    PROVE  \A q : ActingOn(q)' = ActingOn(q) /\ (Acting(q)' <=> Acting(q))
<1>1. ASSUME NEW q PROVE ActingOn(q)' = ActingOn(q)
  BY DEF ActingOn
<1>2. QED
  BY <1>1 DEF Acting

-----------------------------------------------------------------------------
(* No run after the end of one. *)

(* A request nobody has started has no run in flight.                      *)
LEMMA NeverStarted ==
    ASSUME BrokerInv, NEW r \in RequestIds, ~Known(r) \/ runs[r] = 0
    PROVE  ActingOn(r) = {} /\ Cardinality(ActingOn(r)) = 0
<1>1. ActingOn(r) = {}
  BY DEF ActingOn, BrokerInv, CallsConsistent
<1>2. QED
  BY <1>1, FS_EmptySet

LEMMA RunsInvArrives ==
    ASSUME BrokerInv, RunsInv, NEW k \in Calls, Arrive(k)
    PROVE  RunsInv'
<1> USE DEF BrokerInv, RunsInv
<1>1. /\ calls[k].at = "idle" /\ calls'[k].at # "idle"
      /\ \A j \in Calls \ {k} : calls'[j] = calls[j]
  BY ArriveCalls
(* A step that is about request r alone and starts nothing. *)
<1>2. ASSUME NEW r \in RequestIds,
             \A q \in RequestIds : q # r => requests'[q] = requests[q],
             UNCHANGED runs, calls'[k].at # "acting",
             ~Known(r) \/ runs[r] = 0 \/ Status(r)' # "allowed",
             runs[r] = 0 \/ Status(r)' # "allowed"
      PROVE  RunsInv'
  <2>1. \A q : ActingOn(q)' = ActingOn(q)
    BY <1>1, <1>2, ActingKept
  <2>2. runs[r] = 0 => runs[r] = Cardinality(ActingOn(r))
    BY NeverStarted
  <2>3. QED
    BY <1>2, <2>1, <2>2 DEF Known, Status
<1>3. ASSUME NEW r \in RequestIds, NEW cap \in Capabilities, NEW c \in Contexts,
             Propose(k, r, cap, c)
      PROVE  RunsInv'
  BY <1>2, <1>3, ProposeRequests
<1>4. ASSUME NEW r \in RequestIds, NEW decision \in Decisions,
             NEW remember \in BOOLEAN, NEW global \in BOOLEAN,
             Decide(k, r, decision, remember, global)
      PROVE  RunsInv'
  <2>1. /\ Known(r) /\ Status(r) = "pending"
        /\ \A q \in RequestIds : q # r => requests'[q] = requests[q]
    BY <1>4, DecideEffect DEF Status
  <2>2. runs[r] = 0
    BY <2>1 DEF HistoryConsistent
  <2>3. PICK at \in {"mkdir", "audit"} : Suspend(k, at, r, "decided")
    BY <1>4 DEF Decide
  <2>4. calls'[k].at # "acting"
    BY <2>3, SuspendFields
  <2>5. UNCHANGED runs
    BY <1>4 DEF Decide, history
  <2>6. QED
    BY <1>2, <2>1, <2>2, <2>4, <2>5
<1>5. ASSUME NEW r \in RequestIds, Cancel(k, r) \/ ExecuteTurnedDown(k, r)
      PROVE  RunsInv'
  <2>1. /\ \A q \in RequestIds : q # r => requests'[q] = requests[q]
        /\ requests'[r].status \in {"cancelled", "denied"}
        /\ calls'[k].at = "audit" /\ UNCHANGED runs
    BY <1>5, StatusRequests
  <2>2. QED
    BY <1>2, <2>1 DEF Status
<1>6. ASSUME NEW r \in RequestIds, ExecuteStart(k, r)
      PROVE  RunsInv'
  <2>1. calls'[k].at = "acting" /\ calls'[k].request = r
    BY <1>6, SuspendFields DEF ExecuteStart
  <2>2. Known(r) /\ Status(r) = "allowed" /\ runs[r] = Cardinality(ActingOn(r))
    BY <1>6 DEF ExecuteStart, Executable
  <2>3. runs' = [runs EXCEPT ![r] = runs[r] + 1] /\ UNCHANGED requests
    BY <1>6 DEF ExecuteStart, brokerVars, TypeOK
  <2>4. ActingOn(r)' = ActingOn(r) \union {k} /\ k \notin ActingOn(r)
    BY <1>1, <2>1 DEF ActingOn
  <2>5. IsFiniteSet(ActingOn(r))
    BY FS_Subset, BoundsAssumption DEF ActingOn
  <2>6. Cardinality(ActingOn(r)') = Cardinality(ActingOn(r)) + 1
    BY <2>4, <2>5, FS_AddElement
  <2>7. \A q \in RequestIds : q # r => ActingOn(q)' = ActingOn(q)
    BY <1>1, <2>1 DEF ActingOn
  <2>8. QED
    BY <2>2, <2>3, <2>6, <2>7 DEF Known, Status, TypeOK
<1>7. ASSUME NEW cap \in Capabilities \union {"any"}, NEW scope \in Scopes \union {"any"},
             Revoke(k, cap, scope)
      PROVE  RunsInv'
  <2>1. calls'[k].at = "mkdir" /\ UNCHANGED <<requests, runs>>
    BY <1>7, SuspendFields DEF Revoke, history
  <2>2. \A q : ActingOn(q)' = ActingOn(q)
    BY <1>1, <2>1, ActingKept
  <2>3. QED
    BY <2>1, <2>2 DEF Known, Status
<1>8. QED
  BY <1>3, <1>4, <1>5, <1>6, <1>7 DEF Arrive

LEMMA RunsInvStep == BrokerInv /\ RunsInv /\ [Next]_vars => RunsInv'
<1> SUFFICES ASSUME BrokerInv, RunsInv, [Next]_vars
             PROVE  RunsInv'
  OBVIOUS
<1> USE DEF BrokerInv, RunsInv
<1>1. ASSUME NEW k \in Calls, NEW succeeded \in BOOLEAN, ActionDone(k, succeeded)
      PROVE  RunsInv'
  <2>1. PICK r \in RequestIds :
            /\ r = calls[k].request /\ Known(r)
            /\ calls[k].at = "acting" /\ calls'[k].at = "audit"
            /\ \A j \in Calls \ {k} : calls'[j] = calls[j]
            /\ \A q \in RequestIds : q # r => requests'[q] = requests[q]
            /\ requests'[r].status \in {"executed", "failed"}
            /\ UNCHANGED runs
    BY <1>1, ActionDoneCalls
  <2>2. \A q \in RequestIds : q # r => ActingOn(q)' = ActingOn(q)
    BY <2>1 DEF ActingOn
  <2>3. QED
    BY <2>1, <2>2 DEF Known, Status
<1>2. ASSUME NEW k \in Calls,
             SnapshotPolicies(k) \/ TruncateFile(k) \/ WriteFile(k) \/ AppendAudit(k)
                \/ CallFails(k)
      PROVE  RunsInv'
  <2>1. \A q : ActingOn(q)' = ActingOn(q)
    BY <1>2, DiskCalls, ActingKept
  <2>2. UNCHANGED <<requests, runs>>
    BY <1>2, DiskCalls DEF brokerVars
  <2>3. QED
    BY <2>1, <2>2 DEF Known, Status
<1>3. CASE Restart
  BY <1>3 DEF Restart, Known
<1>4. CASE UNCHANGED vars
  BY <1>4 DEF vars, brokerVars, history, ActingOn, Known, Status
<1>5. QED
  BY <1>1, <1>2, <1>3, <1>4, RunsInvArrives DEF Next, Continue

LEMMA RunsInvInit == Init => RunsInv
BY DEF Init, RunsInv, Known

(* What is still allowed has nothing behind it but runs in flight.         *)
THEOREM RunsInvariant == Spec => []RunsInv
BY RunsInvInit, RunsInvStep, BrokerInvariant, PTL DEF Spec

(* However execute() calls overlap, a start finds no run of its request    *)
(* that has ended: `once` is consumed by the first end at the latest.      *)
THEOREM EndedActionsNeverRunAgain == Spec => EndedNeverRunsAgain
<1>1. BrokerInv /\ RunsInv /\ [Next]_vars =>
        [\A r \in RequestIds : Starts(r) => runs[r] = Cardinality(ActingOn(r))]_vars
  <2> SUFFICES ASSUME BrokerInv, RunsInv, [Next]_vars, NEW r \in RequestIds, Starts(r)
               PROVE  runs[r] = Cardinality(ActingOn(r))
    OBVIOUS
  <2>1. Known(r) /\ Status(r) = "allowed"
    BY StartIsChecked
  <2>2. QED
    BY <2>1 DEF RunsInv
<1>2. QED
  BY <1>1, RunsInvariant, BrokerInvariant, PTL DEF EndedNeverRunsAgain, Spec

(* A call that arrives leaves the runs in flight alone, or adds one, and   *)
(* touches no request that was executed or cancelled, but to cancel it.    *)
LEMMA SettledArrives ==
    ASSUME BrokerInv, NEW k \in Calls, Arrive(k), NEW r \in RequestIds, Known(r)
    PROVE  /\ Acting(r) => Acting(r)'
           /\ Status(r) \in {"executed", "cancelled"} => requests'[r] = requests[r]
<1> USE DEF BrokerInv
<1>1. Acting(r) => Acting(r)'
  <2>1. calls[k].at = "idle" /\ \A j \in Calls \ {k} : calls'[j] = calls[j]
    BY ArriveCalls
  <2>2. QED
    BY <2>1 DEF Acting, ActingOn
<1>2. ASSUME Status(r) \in {"executed", "cancelled"}
      PROVE  requests'[r] = requests[r]
  <2>1. ASSUME NEW q \in RequestIds, NEW cap \in Capabilities, NEW c \in Contexts,
               Propose(k, q, cap, c)
        PROVE  requests'[r] = requests[r]
    BY <2>1, ProposeRequests
  <2>2. ASSUME NEW q \in RequestIds, NEW decision \in Decisions,
               NEW remember \in BOOLEAN, NEW global \in BOOLEAN,
               Decide(k, q, decision, remember, global)
        PROVE  requests'[r] = requests[r]
    BY <1>2, <2>2, DecideEffect DEF Status
  <2>3. ASSUME NEW q \in RequestIds, Cancel(k, q)
        PROVE  requests'[r] = requests[r]
    <3>1. CASE q # r
      BY <2>3, <3>1, StatusRequests
    <3>2. CASE q = r
      <4>1. Status(r) = "cancelled" /\ SetStatus(r, "cancelled")
        BY <1>2, <2>3, <3>2 DEF Cancel, Cancellable
      <4>2. requests'[r] = [requests[r] EXCEPT !.status = "cancelled"]
        BY <4>1 DEF SetStatus, TypeOK
      <4>3. requests[r] \in Request
        BY KnownRequest
      <4>4. QED
        BY <4>1, <4>2, <4>3 DEF Request, Status
    <3>3. QED
      BY <3>1, <3>2
  <2>4. ASSUME NEW q \in RequestIds, ExecuteTurnedDown(k, q)
        PROVE  requests'[r] = requests[r]
    BY <1>2, <2>4, StatusRequests DEF ExecuteTurnedDown, Executable
  <2>5. ASSUME NEW q \in RequestIds, ExecuteStart(k, q)
        PROVE  requests'[r] = requests[r]
    BY <2>5 DEF ExecuteStart, brokerVars
  <2>6. ASSUME NEW cap \in Capabilities \union {"any"}, NEW scope \in Scopes \union {"any"},
               Revoke(k, cap, scope)
        PROVE  requests'[r] = requests[r]
    BY <2>6 DEF Revoke
  <2>7. QED
    BY <2>1, <2>2, <2>3, <2>4, <2>5, <2>6 DEF Arrive
<1>3. QED
  BY <1>1, <1>2

LEMMA OutcomeStep ==
    ASSUME BrokerInv, [Next]_vars, NEW r \in RequestIds, Known(r), Known(r)'
    PROVE  /\ Acting(r) /\ ~Acting(r)' => Status(r)' \in {"executed", "failed"}
           /\ ~Acting(r) /\ Status(r) \in {"executed", "cancelled"} =>
                    requests'[r] = requests[r]
<1> USE DEF BrokerInv
<1>1. ASSUME NEW k \in Calls, Arrive(k)
      PROVE  /\ Acting(r) => Acting(r)'
             /\ Status(r) \in {"executed", "cancelled"} => requests'[r] = requests[r]
  BY <1>1, SettledArrives
<1>2. ASSUME NEW k \in Calls, NEW succeeded \in BOOLEAN, ActionDone(k, succeeded)
      PROVE  /\ Acting(r) /\ ~Acting(r)' => Status(r)' \in {"executed", "failed"}
             /\ ~Acting(r) => requests'[r] = requests[r]
  <2>1. PICK q \in RequestIds :
            /\ q = calls[k].request /\ calls[k].at = "acting" /\ calls'[k].at = "audit"
            /\ \A j \in Calls \ {k} : calls'[j] = calls[j]
            /\ \A p \in RequestIds : p # q => requests'[p] = requests[p]
            /\ requests'[q].status \in {"executed", "failed"}
    BY <1>2, ActionDoneCalls
  <2>2. CASE q = r
    BY <2>1, <2>2 DEF Acting, ActingOn, Status
  <2>3. CASE q # r
    <3>1. ActingOn(r)' = ActingOn(r)
      BY <2>1, <2>3 DEF ActingOn
    <3>2. QED
      BY <2>1, <2>3, <3>1 DEF Acting
  <2>4. QED
    BY <2>2, <2>3
<1>3. ASSUME NEW k \in Calls,
             SnapshotPolicies(k) \/ TruncateFile(k) \/ WriteFile(k) \/ AppendAudit(k)
                \/ CallFails(k)
      PROVE  (Acting(r)' <=> Acting(r)) /\ requests'[r] = requests[r]
  BY <1>3, DiskCalls, ActingKept DEF brokerVars
<1>4. Restart => FALSE
  BY DEF Restart, Known
<1>5. UNCHANGED vars => (Acting(r)' <=> Acting(r)) /\ requests'[r] = requests[r]
  BY DEF vars, brokerVars, Acting, ActingOn
<1>6. QED
  BY <1>1, <1>2, <1>3, <1>4, <1>5 DEF Next, Continue

(* A request tells that its action ran, also when it was cancelled or      *)
(* turned down while the action was awaited.                               *)
THEOREM OutcomesAreNotHidden == Spec => OutcomeIsNotHidden
<1>1. BrokerInv /\ [Next]_vars =>
        [\A r \in RequestIds : Known(r) /\ Known(r)' =>
            /\ Acting(r) /\ ~Acting(r)' => Status(r)' \in {"executed", "failed"}
            /\ ~Acting(r) /\ Status(r) \in {"executed", "cancelled"} =>
                    requests'[r] = requests[r]]_vars
  BY OutcomeStep
<1>2. QED
  BY <1>1, BrokerInvariant, PTL DEF OutcomeIsNotHidden, Spec

-----------------------------------------------------------------------------
(* No hop after a hop. *)

(* A relay that starts finds its context without one: the ledger would     *)
(* have turned it down, for it is never the user's own answer.             *)
LEMMA RelayStartsFirst ==
    ASSUME BrokerInv, NEW r \in RequestIds, Known(r), ~TurnedDown(r),
           requests[r].capability = Relay
    PROVE  RelaysInto(requests[r].context) = {}
<1>1. Relay \in Capabilities /\ requests[r].context \in Contexts
  BY StartPolicy
<1>2. ~requests[r].userDecided
  BY DEF BrokerInv, RelayNeverAsked
<1>3. ~Tainted(requests[r].context)
  BY <1>1, <1>2, StartPolicy, RelayAssumption
<1>4. QED
  BY <1>1, <1>3 DEF BrokerInv, RelaysRecorded

(* However relays were proposed and allowed, none starts in a context that *)
(* one has run into.                                                       *)
THEOREM NoRelayAfterARelay == Spec => NoHopAfterHop
<1>1. BrokerInv /\ [Next]_vars =>
        [\A r \in RequestIds : Starts(r) /\ requests[r].capability = Relay =>
            RelaysInto(requests[r].context) = {}]_vars
  BY StartIsChecked, RelayStartsFirst
<1>2. QED
  BY <1>1, BrokerInvariant, PTL DEF NoHopAfterHop, Spec

-----------------------------------------------------------------------------
(* Both steps in the log, when the disk does not fail and every phase is   *)
(* kept: here calls may overlap in any way.                                *)

LEMMA RowsOfOthers ==
    ASSUME NEW k \in Calls, \A j \in Calls \ {k} : calls'[j] = calls[j],
           audit \subseteq audit', NEW r, NEW phase, Logged(r, phase),
           \/ calls[k].phase # phase
           \/ calls'[k].request = calls[k].request /\ calls'[k].phase = calls[k].phase
           \/ [request |-> calls[k].request, phase |-> calls[k].phase] \in audit'
    PROVE  Logged(r, phase)'
<1>1. CASE [request |-> r, phase |-> phase] \in audit
  BY <1>1 DEF Logged
<1>2. CASE \E j \in Calls : calls[j].request = r /\ calls[j].phase = phase
  <2>1. PICK j \in Calls : calls[j].request = r /\ calls[j].phase = phase
    BY <1>2
  <2>2. CASE j # k
    BY <2>1, <2>2 DEF Logged
  <2>3. CASE j = k
    BY <2>1, <2>3 DEF Logged
  <2>4. QED
    BY <2>2, <2>3
<1>3. QED
  BY <1>1, <1>2 DEF Logged

(* No row is forgotten between the step it tells of and the log.           *)
LEMMA RowsAreKept ==
    ASSUME ~DiskMayFail, AuditPhases \subseteq KeptPhases, BrokerInv, LogInv,
           NEW k \in Calls, Arrive(k) \/ Continue(k) \/ CallFails(k),
           NEW r, NEW phase \in AuditPhases, Logged(r, phase)
    PROVE  Logged(r, phase)'
<1> USE DEF BrokerInv
<1>1. "none" \notin AuditPhases
  BY DEF AuditPhases
<1>2. CASE Arrive(k)
  <2>1. calls[k].phase = "none"
    BY <1>2, ArriveCalls DEF LogInv
  <2>2. QED
    BY <1>1, <1>2, <2>1, ArriveCalls, RowsOfOthers
<1>3. ASSUME NEW succeeded \in BOOLEAN, ActionDone(k, succeeded)
      PROVE  Logged(r, phase)'
  <2>1. calls[k].phase = "none"
    BY <1>3, ActionDoneCalls DEF LogInv
  <2>2. \A j \in Calls \ {k} : calls'[j] = calls[j]
    BY <1>3, ActionDoneCalls
  <2>3. audit' = audit
    BY <1>3 DEF ActionDone
  <2>4. QED
    BY <1>1, <2>1, <2>2, <2>3, RowsOfOthers
<1>4. CASE SnapshotPolicies(k) \/ TruncateFile(k) \/ WriteFile(k)
  <2>1. calls'[k].request = calls[k].request /\ calls'[k].phase = calls[k].phase
    <3>1. calls[k] \in Call
      BY DEF TypeOK
    <3>2. CASE SnapshotPolicies(k) \/ TruncateFile(k)
      BY <3>1, <3>2 DEF SnapshotPolicies, TruncateFile, TypeOK, Call
    <3>3. CASE WriteFile(k)
      BY <3>3, SuspendFields DEF WriteFile
    <3>4. QED
      BY <1>4, <3>2, <3>3
  <2>2. audit' = audit
    BY <1>4 DEF SnapshotPolicies, TruncateFile, WriteFile
  <2>3. QED
    BY <1>4, <2>1, <2>2, DiskCalls, RowsOfOthers
<1>5. CASE AppendAudit(k)
  <2>1. calls[k].phase \in KeptPhases
    BY <1>5 DEF AppendAudit, CallsConsistent, Awaits
  <2>2. audit' = audit \union {[request |-> calls[k].request, phase |-> calls[k].phase]}
    BY <1>5, <2>1 DEF AppendAudit
  <2>3. QED
    BY <1>5, <2>2, DiskCalls, RowsOfOthers
<1>6. QED
  BY <1>2, <1>3, <1>4, <1>5 DEF Continue, CallFails

(* Call k is the one whose step it is: its own row is the phase it will    *)
(* append, and a call without one says `none`.                             *)
LEMMA PhaseOfCall ==
    ASSUME BrokerInv, LogInv, NEW k \in Calls, Arrive(k) \/ Continue(k) \/ CallFails(k)
    PROVE  \A j \in Calls : calls'[j].at \in {"idle", "acting"} => calls'[j].phase = "none"
<1> USE DEF BrokerInv
<1>1. \A j \in Calls \ {k} : calls'[j] = calls[j]
  BY ArriveCalls, DiskCalls, ActionDoneCalls DEF Continue
<1>2. calls'[k].at \in {"idle", "acting"} => calls'[k].phase = "none"
  <2>1. CASE Arrive(k)
    <3>1. ASSUME NEW at, NEW r, NEW phase, Suspend(k, at, r, phase),
                 at = "acting" => phase = "none", at # "idle"
          PROVE  calls'[k].at \in {"idle", "acting"} => calls'[k].phase = "none"
      BY <3>1, SuspendFields
    <3>2. QED
      BY <2>1, <3>1
      DEF Arrive, Propose, Decide, Cancel, ExecuteTurnedDown, ExecuteStart, Revoke
  <2>2. CASE \E succeeded \in BOOLEAN : ActionDone(k, succeeded)
    BY <2>2, ActionDoneCalls
  <2>3. CASE SnapshotPolicies(k) \/ TruncateFile(k) \/ WriteFile(k)
    <3>1. calls[k] \in Call
      BY DEF TypeOK
    <3>2. CASE SnapshotPolicies(k) \/ TruncateFile(k)
      BY <3>1, <3>2 DEF SnapshotPolicies, TruncateFile, TypeOK, Call
    <3>3. CASE WriteFile(k)
      BY <3>3, SuspendFields DEF WriteFile
    <3>4. QED
      BY <2>3, <3>2, <3>3
  <2>4. CASE AppendAudit(k) \/ CallFails(k)
    BY <2>4 DEF AppendAudit, CallFails, Idle, TypeOK
  <2>5. QED
    BY <2>1, <2>2, <2>3, <2>4 DEF Continue
<1>3. QED
  BY <1>1, <1>2 DEF LogInv

(* A row about request r is on the record as soon as a call carries it.    *)
LEMMA CarriedIsLogged ==
    ASSUME NEW k \in Calls, NEW r, NEW phase,
           calls'[k].request = r, calls'[k].phase = phase
    PROVE  Logged(r, phase)'
BY DEF Logged

Granted(r) == Logged(r, "auto-allowed") \/ Logged(r, "decided")
Ended(r) == Logged(r, "executed") \/ Logged(r, "failed")

LEMMA LogInvStep ==
    ASSUME ~DiskMayFail, AuditPhases \subseteq KeptPhases, BrokerInv, LogInv, [Next]_vars
    PROVE  LogInv'
<1> USE DEF BrokerInv
<1>0. {"auto-allowed", "decided", "executed", "failed"} \subseteq AuditPhases
  BY DEF AuditPhases
<1>a. \A r \in RequestIds :
        /\ Known(r) /\ (Status(r) = "allowed" \/ runs[r] > 0) => Granted(r)
        /\ Known(r) /\ runs[r] > 0 => Acting(r) \/ Ended(r)
  BY DEF LogInv, BothStepsLogged, Granted, Ended
<1>b. ASSUME NEW k \in Calls, Arrive(k) \/ Continue(k) \/ CallFails(k),
             \A r \in RequestIds :
                /\ Known(r)' /\ (Status(r)' = "allowed" \/ runs'[r] > 0) => Granted(r)'
                /\ Known(r)' /\ runs'[r] > 0 => Acting(r)' \/ Ended(r)'
      PROVE  LogInv'
  BY <1>b, PhaseOfCall DEF LogInv, BothStepsLogged, Granted, Ended
<1>c. ASSUME NEW k \in Calls, Arrive(k) \/ Continue(k) \/ CallFails(k), NEW r
      PROVE  (Granted(r) => Granted(r)') /\ (Ended(r) => Ended(r)')
  BY <1>0, <1>c, RowsAreKept DEF Granted, Ended
(* A step that is about request r alone, and starts or ends nothing. *)
<1>d. ASSUME NEW k \in Calls, Arrive(k), NEW r \in RequestIds,
             \A q \in RequestIds : q # r => requests'[q] = requests[q],
             UNCHANGED runs, calls'[k].at # "acting",
             Status(r)' = "allowed" => Granted(r)',
             Known(r)' /\ runs[r] > 0 => Known(r)
      PROVE  LogInv'
  <2>1. \A q : Acting(q)' <=> Acting(q)
    BY <1>d, ArriveCalls, ActingKept
  <2>2. \A q : (Granted(q) => Granted(q)') /\ (Ended(q) => Ended(q)')
    BY <1>c, <1>d
  <2>3. \A q \in RequestIds :
            /\ Known(q)' /\ (Status(q)' = "allowed" \/ runs'[q] > 0) => Granted(q)'
            /\ Known(q)' /\ runs'[q] > 0 => Acting(q)' \/ Ended(q)'
    BY <1>a, <1>d, <2>1, <2>2 DEF Known, Status
  <2>4. QED
    BY <1>b, <1>d, <2>3
(* A step that changes no request and no count. *)
<1>e. ASSUME NEW k \in Calls, Arrive(k) \/ Continue(k) \/ CallFails(k),
             UNCHANGED <<requests, runs>>, \A q : Acting(q)' <=> Acting(q)
      PROVE  LogInv'
  <2>1. \A q : (Granted(q) => Granted(q)') /\ (Ended(q) => Ended(q)')
    BY <1>c, <1>e
  <2>2. \A q \in RequestIds :
            /\ Known(q)' /\ (Status(q)' = "allowed" \/ runs'[q] > 0) => Granted(q)'
            /\ Known(q)' /\ runs'[q] > 0 => Acting(q)' \/ Ended(q)'
    BY <1>a, <1>e, <2>1 DEF Known, Status
  <2>3. QED
    BY <1>b, <1>e, <2>2
<1>1. ASSUME NEW k \in Calls, NEW r \in RequestIds, NEW cap \in Capabilities,
             NEW c \in Contexts, Propose(k, r, cap, c)
      PROVE  LogInv'
  <2>1. Arrive(k)
    BY <1>1 DEF Arrive
  <2>2. /\ ~Known(r) /\ runs[r] = 0 /\ UNCHANGED runs
        /\ \A q \in RequestIds : q # r => requests'[q] = requests[q]
        /\ calls'[k].at = "audit" /\ calls'[k].request = r
        /\ calls'[k].phase = BirthPhase(requests'[r].status)
    BY <1>1, ProposeRequests
  <2>3. Status(r)' = "allowed" => Granted(r)'
    BY <2>2, CarriedIsLogged DEF Status, BirthPhase, Granted
  <2>4. QED
    BY <1>d, <2>1, <2>2, <2>3
<1>2. ASSUME NEW k \in Calls, NEW r \in RequestIds, NEW decision \in Decisions,
             NEW remember \in BOOLEAN, NEW global \in BOOLEAN,
             Decide(k, r, decision, remember, global)
      PROVE  LogInv'
  <2>1. Arrive(k)
    BY <1>2 DEF Arrive
  <2>2. PICK at \in {"mkdir", "audit"} : Suspend(k, at, r, "decided")
    BY <1>2 DEF Decide
  <2>3. calls'[k].at # "acting" /\ calls'[k].request = r /\ calls'[k].phase = "decided"
    BY <2>2, SuspendFields
  <2>4. Granted(r)'
    BY <2>3, CarriedIsLogged DEF Granted
  <2>5. Known(r) /\ \A q \in RequestIds : q # r => requests'[q] = requests[q]
    BY <1>2, DecideEffect
  <2>6. UNCHANGED runs
    BY <1>2 DEF Decide, history
  <2>7. QED
    BY <1>d, <2>1, <2>3, <2>4, <2>5, <2>6
<1>3. ASSUME NEW k \in Calls, NEW r \in RequestIds, Cancel(k, r) \/ ExecuteTurnedDown(k, r)
      PROVE  LogInv'
  <2>1. Arrive(k)
    BY <1>3 DEF Arrive
  <2>2. /\ Known(r) /\ UNCHANGED runs /\ calls'[k].at = "audit"
        /\ \A q \in RequestIds : q # r => requests'[q] = requests[q]
        /\ Status(r)' # "allowed"
    BY <1>3, StatusRequests DEF Status
  <2>3. QED
    BY <1>d, <2>1, <2>2
<1>4. ASSUME NEW k \in Calls, NEW r \in RequestIds, ExecuteStart(k, r)
      PROVE  LogInv'
  <2>1. Arrive(k)
    BY <1>4 DEF Arrive
  <2>2. /\ calls[k].at = "idle" /\ calls'[k].at = "acting" /\ calls'[k].request = r
        /\ \A j \in Calls \ {k} : calls'[j] = calls[j]
    BY <1>4, SuspendFields DEF ExecuteStart, IsIdle
  <2>3. /\ Known(r) /\ Status(r) = "allowed" /\ UNCHANGED requests
        /\ \A q \in RequestIds : q # r => runs'[q] = runs[q]
    BY <1>4 DEF ExecuteStart, Executable, brokerVars, TypeOK
  <2>4. Acting(r)' /\ \A q : Acting(q) => Acting(q)'
    BY <2>2 DEF Acting, ActingOn
  <2>5. \A q : (Granted(q) => Granted(q)') /\ (Ended(q) => Ended(q)')
    BY <1>c, <2>1
  <2>6. \A q \in RequestIds :
            /\ Known(q)' /\ (Status(q)' = "allowed" \/ runs'[q] > 0) => Granted(q)'
            /\ Known(q)' /\ runs'[q] > 0 => Acting(q)' \/ Ended(q)'
    BY <1>a, <2>3, <2>4, <2>5 DEF Known, Status
  <2>7. QED
    BY <1>b, <2>1, <2>6
<1>5. ASSUME NEW k \in Calls, NEW succeeded \in BOOLEAN, ActionDone(k, succeeded)
      PROVE  LogInv'
  <2>1. Continue(k)
    BY <1>5 DEF Continue
  <2>2. PICK r \in RequestIds :
            /\ r = calls[k].request /\ Known(r) /\ calls[k].at = "acting"
            /\ calls'[k].request = r /\ calls'[k].phase \in {"executed", "failed"}
            /\ \A j \in Calls \ {k} : calls'[j] = calls[j]
            /\ \A q \in RequestIds : q # r => requests'[q] = requests[q]
            /\ requests'[r].status # "allowed" /\ UNCHANGED runs
    BY <1>5, ActionDoneCalls
  <2>3. runs[r] > 0
    BY <2>2 DEF CallsConsistent
  <2>4. Ended(r)'
    BY <2>2, CarriedIsLogged DEF Ended
  <2>5. \A q : q # r /\ Acting(q) => Acting(q)'
    BY <2>2 DEF Acting, ActingOn
  <2>6. \A q : (Granted(q) => Granted(q)') /\ (Ended(q) => Ended(q)')
    BY <1>c, <2>1
  <2>7. \A q \in RequestIds :
            /\ Known(q)' /\ (Status(q)' = "allowed" \/ runs'[q] > 0) => Granted(q)'
            /\ Known(q)' /\ runs'[q] > 0 => Acting(q)' \/ Ended(q)'
    BY <1>a, <2>2, <2>3, <2>4, <2>5, <2>6 DEF Known, Status
  <2>8. QED
    BY <1>b, <2>1, <2>7
<1>6. ASSUME NEW k \in Calls, NEW cap \in Capabilities \union {"any"},
             NEW scope \in Scopes \union {"any"}, Revoke(k, cap, scope)
      PROVE  LogInv'
  <2>1. Arrive(k) /\ UNCHANGED <<requests, runs>>
    BY <1>6 DEF Arrive, Revoke, history
  <2>2. calls'[k].at = "mkdir"
    BY <1>6, SuspendFields DEF Revoke
  <2>3. \A q : Acting(q)' <=> Acting(q)
    BY <2>1, <2>2, ArriveCalls, ActingKept
  <2>4. QED
    BY <1>e, <2>1, <2>3
<1>7. ASSUME NEW k \in Calls,
             SnapshotPolicies(k) \/ TruncateFile(k) \/ WriteFile(k) \/ AppendAudit(k)
                \/ CallFails(k)
      PROVE  LogInv'
  <2>1. \A q : Acting(q)' <=> Acting(q)
    BY <1>7, DiskCalls, ActingKept
  <2>2. UNCHANGED <<requests, runs>>
    BY <1>7, DiskCalls DEF brokerVars
  <2>3. QED
    BY <1>7, <1>e, <2>1, <2>2 DEF Continue
<1>8. CASE Restart
  BY <1>8 DEF Restart, LogInv, BothStepsLogged, Idle, Known
<1>9. CASE UNCHANGED vars
  BY <1>9 DEF vars, brokerVars, history, LogInv, BothStepsLogged, Known, Status, Acting, ActingOn, Logged
<1>10. QED
  BY <1>1, <1>2, <1>3, <1>4, <1>5, <1>6, <1>7, <1>8, <1>9 DEF Next, Arrive, Continue

LEMMA LogInvInit == Init => LogInv
BY DEF Init, LogInv, BothStepsLogged, Idle, Known

(* "The audit trail always contains both steps" (propose): a started       *)
(* action was granted on the record and a finished one has its outcome     *)
(* there, however the calls overlap.                                       *)
THEOREM AuditTrailHasBothSteps ==
    ASSUME ~DiskMayFail, AuditPhases \subseteq KeptPhases
    PROVE  Spec => []BothStepsLogged
<1>1. BrokerInv /\ LogInv /\ [Next]_vars => LogInv'
  BY LogInvStep
<1>2. LogInv => BothStepsLogged
  BY DEF LogInv
<1>3. QED
  BY <1>1, <1>2, LogInvInit, BrokerInvariant, PTL DEF Spec
=============================================================================
