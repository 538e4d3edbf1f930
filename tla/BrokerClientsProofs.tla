------------------------- MODULE BrokerClientsProofs -------------------------
(***************************************************************************)
(* Proofs about the two clients of the broker, ApprovalRelay and           *)
(* Dictation, for every value of their constants.  Both act on the broker  *)
(* only through its own steps, so what is proved of the broker carries     *)
(* over to each of them.                                                   *)
(***************************************************************************)
EXTENDS ApprovalRelay, Dictation, PermissionBrokerProofs

-----------------------------------------------------------------------------
(* The approval relay and the shell.                                       *)

-----------------------------------------------------------------------------
(* The broker within the system: its steps are steps of its own           *)
(* specification, so that its invariant holds there too.                   *)

LEMMA BrokerStepOfSystem == LoopsConsistent /\ [RelayNext]_systemVars => [Next]_vars
<1> SUFFICES ASSUME LoopsConsistent, [RelayNext]_systemVars PROVE [Next]_vars
  OBVIOUS
<1>1. ASSUME NEW a \in Approvals,
             \/ \E cap \in Capabilities : Raise(a, cap)
             \/ RelayLoop(a) \/ DeadlinePasses(a) \/ GatewayGivesUp(a)
      PROVE  [Next]_vars
  <2>1. CASE \E k \in Calls, r \in RequestIds : RelayPropose(a, k, r)
    <3>1. PICK k \in Calls, r \in RequestIds : RelayPropose(a, k, r)
      BY <2>1
    <3>2. approvals[a].capability \in Capabilities
      BY <3>1 DEF RelayPropose, At, LoopsConsistent, LoopConsistent, MayBeRelayed
    <3>3. QED
      BY <3>1, <3>2, ApprovalContextAssumption DEF RelayPropose, Next, Arrive
  <2>2. QED
    BY <1>1, <2>1 DEF Raise, RelayLoop, ProposeFails, AskStatus, StatusArrives, TimesOut,
                      Tell, DeadlinePasses, GatewayGivesUp
<1>2. ASSUME NEW k \in Calls, Shell(k)
      PROVE  [Next]_vars
  <2>1. CASE \E r \in RequestIds, decision \in Decisions, remember \in BOOLEAN :
                UserAnswers(k, r, decision, remember)
    BY <2>1 DEF UserAnswers, Next, Arrive
  <2>2. CASE \E r \in RequestIds : UserCancels(k, r) \/ ShellExecutes(k, r)
    BY <2>2 DEF UserCancels, ShellExecutes, Next, Arrive
  <2>3. CASE \E cap \in Capabilities, scope \in Scopes : GrantWithdrawn(k, cap, scope)
    BY <2>3 DEF GrantWithdrawn, Next, Arrive
  <2>4. QED
    BY <1>2, <2>1, <2>2, <2>3 DEF Shell
<1>3. ASSUME NEW k \in Calls, BrokerWorks(k) \/ BrokerAnswers(k) \/ BrokerErrs(k)
      PROVE  [Next]_vars
  BY <1>3 DEF BrokerWorks, BrokerAnswers, BrokerErrs, Next, Continue
<1>4. CASE BrokerRestarts
  BY <1>4 DEF BrokerRestarts, Next
<1>5. CASE UNCHANGED systemVars
  BY <1>5 DEF systemVars
<1>6. QED
  BY <1>1, <1>2, <1>3, <1>4, <1>5 DEF RelayNext, RelayStep

-----------------------------------------------------------------------------
(* Types. *)

(* One loop moves and the others stay. *)
LEMMA LoopMoves ==
    ASSUME RelayTypeOK, NEW a \in Approvals, NEW new \in Approval,
           approvals' = [approvals EXCEPT ![a] = new]
    PROVE  approvals' \in [Approvals -> Approval]
BY DEF RelayTypeOK

(* A step of a loop, of the clock and of the gateway. *)
LEMMA LoopType ==
    ASSUME RelayTypeOK, LoopsConsistent, NEW a \in Approvals,
           \/ \E cap \in Capabilities : Raise(a, cap)
           \/ RelayLoop(a) \/ DeadlinePasses(a) \/ GatewayGivesUp(a)
    PROVE  /\ approvals' \in [Approvals -> Approval]
           /\ gateway' \in [Approvals -> {"idle", "blocked", "performed", "refused"}]
           /\ answering' \subseteq Calls
           /\ executeNext' \subseteq RequestIds \union {NoRequest}
<1> USE DEF RelayTypeOK
<1>1. approvals[a] \in Approval
  OBVIOUS
<1>2. CASE \E cap \in Capabilities : Raise(a, cap)
  <2>1. PICK cap \in Capabilities : Raise(a, cap)
    BY <1>2
  <2>2. \E new \in Approval : approvals' = [approvals EXCEPT ![a] = new]
    BY <2>1 DEF Raise, NewApproval, Approval, RelayAwaits, Seen, Decisions
  <2>3. QED
    BY <2>1, <2>2, LoopMoves DEF Raise
<1>3. CASE \E k \in Calls, r \in RequestIds : RelayPropose(a, k, r)
  <2>1. PICK k \in Calls, r \in RequestIds : RelayPropose(a, k, r)
    BY <1>3
  <2>2. [approvals[a] EXCEPT !.at = "proposing", !.request = r, !.calls = {k}] \in Approval
    BY <1>1 DEF Approval, RelayAwaits
  <2>3. approvals' \in [Approvals -> Approval]
    BY <2>1, <2>2 DEF RelayPropose
  <2>4. QED
    BY <2>1, <2>3 DEF RelayPropose
<1>4. CASE ProposeFails(a)
  BY <1>1, <1>4 DEF ProposeFails, Approval, RelayAwaits, Decisions
<1>5. CASE AskStatus(a)
  <2>1. PICK seen \in {IF Known(approvals[a].request) THEN Status(approvals[a].request)
                       ELSE "undefined", "undefined"} :
            approvals' = [approvals EXCEPT ![a].at = "asking", ![a].seen = seen]
    BY <1>5 DEF AskStatus
  <2>2. approvals[a].request \in RequestIds
    BY <1>5 DEF AskStatus, At, LoopsConsistent, LoopConsistent
  <2>3. seen \in Seen
    BY <2>2, KnownRequest DEF Status, Seen, Request
  <2>4. [approvals[a] EXCEPT !.at = "asking", !.seen = seen] \in Approval
    BY <1>1, <2>3 DEF Approval, RelayAwaits
  <2>5. approvals' \in [Approvals -> Approval]
    BY <2>1, <2>4
  <2>6. QED
    BY <1>5, <2>5 DEF AskStatus
<1>6. CASE StatusArrives(a) \/ TimesOut(a)
  <2>1. PICK at \in {"check", "settle"}, decision \in {"allow", "deny", approvals[a].decision} :
            approvals' = [approvals EXCEPT ![a].at = at, ![a].decision = decision]
    <3>1. DecisionOn(approvals[a].seen) \in {"allow", "deny", NoDecision}
      BY DEF DecisionOn
    <3>2. GoTo(a, "check") =>
            approvals' = [approvals EXCEPT ![a].at = "check", ![a].decision = approvals[a].decision]
      BY <1>1 DEF GoTo, Approval
    <3>3. QED
      BY <1>6, <3>1, <3>2 DEF StatusArrives, TimesOut, Settle
  <2>2. [approvals[a] EXCEPT !.at = at, !.decision = decision] \in Approval
    BY <1>1 DEF Approval, RelayAwaits, Decisions
  <2>3. approvals' \in [Approvals -> Approval]
    BY <2>1, <2>2
  <2>4. QED
    BY <1>6, <2>3 DEF StatusArrives, TimesOut
<1>7. CASE Tell(a) \/ DeadlinePasses(a) \/ GatewayGivesUp(a)
  <2>1. /\ [approvals[a] EXCEPT !.at = "done"] \in Approval
        /\ [approvals[a] EXCEPT !.expired = TRUE] \in Approval
    BY <1>1 DEF Approval, RelayAwaits
  <2>2. approvals' \in [Approvals -> Approval]
    BY <1>7, <2>1 DEF Tell, GoTo, DeadlinePasses, GatewayGivesUp
  <2>3. gateway' \in [Approvals -> {"idle", "blocked", "performed", "refused"}]
    BY <1>7 DEF Tell, DeadlinePasses, GatewayGivesUp
  <2>4. QED
    BY <1>7, <2>2, <2>3 DEF Tell, DeadlinePasses, GatewayGivesUp
<1>8. QED
  BY <1>2, <1>3, <1>4, <1>5, <1>6, <1>7 DEF RelayLoop

-----------------------------------------------------------------------------
(* The loops. *)

(* A loop that does not move stays consistent while grants only grow. *)
LEMMA UnmovedLoop ==
    ASSUME NEW b \in Approvals, LoopConsistent(b), approvals'[b] = approvals[b],
           gateway'[b] = gateway[b], granted \subseteq granted'
    PROVE  LoopConsistent(b)'
BY DEF LoopConsistent, At, Performed

(* A loop that moves: what it has read, and what it decides, the broker    *)
(* has granted.                                                            *)
LEMMA MovedLoop ==
    ASSUME RelayInv, NEW a \in Approvals, granted \subseteq granted',
           \/ \E cap \in Capabilities : Raise(a, cap)
           \/ RelayLoop(a) \/ DeadlinePasses(a) \/ GatewayGivesUp(a)
    PROVE  LoopConsistent(a)'
<1> USE DEF RelayInv, RelayTypeOK
<1>1. LoopConsistent(a) /\ approvals[a] \in Approval
  BY DEF LoopsConsistent
<1>2. CASE \E cap \in Capabilities : Raise(a, cap)
  <2>1. PICK cap \in Capabilities : Raise(a, cap)
    BY <1>2
  <2>2. gateway'[a] = "blocked"
    BY <2>1 DEF Raise
  <2>3. \/ approvals'[a].at = "settle" /\ approvals'[a].decision = "deny"
        \/ /\ approvals'[a].at = "propose" /\ approvals'[a].decision = NoDecision
           /\ approvals'[a].capability = cap /\ MayBeRelayed(cap)
    <3>1. PICK policy \in {DefaultPolicy[cap], "deny"} :
                approvals' = [approvals EXCEPT ![a] =
                    IF PreDenied(cap, policy)
                    THEN [NewApproval EXCEPT !.at = "settle", !.capability = cap,
                                             !.decision = "deny"]
                    ELSE [NewApproval EXCEPT !.at = "propose", !.capability = cap]]
      BY <2>1 DEF Raise
    <3>2. CASE PreDenied(cap, policy)
      BY <3>1, <3>2 DEF NewApproval
    <3>3. CASE ~PreDenied(cap, policy)
      BY <3>1, <3>3 DEF NewApproval, PreDenied, MayBeRelayed
    <3>4. QED
      BY <3>2, <3>3
  <2>4. QED
    BY <2>2, <2>3 DEF LoopConsistent, At, Performed, NoDecision
<1>3. CASE \E k \in Calls, r \in RequestIds : RelayPropose(a, k, r)
  <2>1. PICK k \in Calls, r \in RequestIds : RelayPropose(a, k, r)
    BY <1>3
  <2>2. /\ At(a, "propose")
        /\ approvals'[a].at = "proposing"
        /\ approvals'[a].request = r
        /\ approvals'[a].capability = approvals[a].capability
        /\ approvals'[a].decision = approvals[a].decision
        /\ gateway'[a] = gateway[a]
    BY <1>1, <2>1 DEF RelayPropose, Approval
  <2>3. QED
    BY <1>1, <2>2 DEF LoopConsistent, At, Performed, NoDecision
<1>4. CASE ProposeFails(a) \/ TimesOut(a)
  <2>1. /\ approvals[a].at \in {"propose", "proposing", "check"}
        /\ approvals'[a].at = "settle"
        /\ approvals'[a].decision = "deny"
        /\ gateway'[a] = gateway[a]
    BY <1>1, <1>4 DEF ProposeFails, TimesOut, Settle, At, Approval
  <2>2. QED
    BY <1>1, <2>1 DEF LoopConsistent, At, Performed, NoDecision
<1>5. CASE AskStatus(a)
  <2>1. PICK seen \in {IF Known(approvals[a].request) THEN Status(approvals[a].request)
                       ELSE "undefined", "undefined"} :
            approvals' = [approvals EXCEPT ![a].at = "asking", ![a].seen = seen]
    BY <1>5 DEF AskStatus
  <2>2. /\ approvals'[a].at = "asking"
        /\ approvals'[a].seen = seen
        /\ approvals'[a].request = approvals[a].request
        /\ approvals'[a].capability = approvals[a].capability
        /\ approvals'[a].decision = approvals[a].decision
        /\ gateway'[a] = gateway[a]
    BY <1>1, <1>5, <2>1 DEF AskStatus, Approval
  <2>3. At(a, "check") /\ approvals[a].request \in RequestIds
    BY <1>1, <1>5 DEF AskStatus, At, LoopConsistent
  <2>4. seen \in {"allowed", "executed"} => approvals[a].request \in granted
    BY <2>3 DEF GrantsRecorded, BrokerInv, HistoryConsistent
  <2>5. QED
    BY <1>1, <2>2, <2>3, <2>4 DEF LoopConsistent, At, Performed, NoDecision
<1>6. CASE StatusArrives(a)
  <2>1. At(a, "asking") /\ gateway'[a] = gateway[a]
    BY <1>6 DEF StatusArrives
  <2>2. CASE DecisionOn(approvals[a].seen) = NoDecision
    <3>1. /\ approvals'[a].at = "check"
          /\ approvals'[a].request = approvals[a].request
          /\ approvals'[a].capability = approvals[a].capability
          /\ approvals'[a].decision = approvals[a].decision
      BY <1>1, <1>6, <2>2 DEF StatusArrives, GoTo, Approval
    <3>2. QED
      BY <1>1, <2>1, <3>1 DEF LoopConsistent, At, Performed, NoDecision
  <2>3. CASE DecisionOn(approvals[a].seen) # NoDecision
    <3>1. /\ approvals'[a].at = "settle"
          /\ approvals'[a].request = approvals[a].request
          /\ approvals'[a].capability = approvals[a].capability
          /\ approvals'[a].decision = DecisionOn(approvals[a].seen)
      BY <1>1, <1>6, <2>3 DEF StatusArrives, Settle, Approval
    <3>2. DecisionOn(approvals[a].seen) = "allow" => approvals[a].seen \in {"allowed", "executed"}
      BY DEF DecisionOn, NoDecision
    <3>3. QED
      BY <1>1, <2>1, <3>1, <3>2 DEF LoopConsistent, At, Performed, NoDecision
  <2>4. QED
    BY <2>2, <2>3
<1>7. CASE Tell(a) \/ DeadlinePasses(a) \/ GatewayGivesUp(a)
  <2>1. /\ approvals'[a].at \in {approvals[a].at, "done"}
        /\ approvals'[a].at = "done" => approvals[a].at \in {"settle", "done"}
        /\ approvals'[a].seen = approvals[a].seen
        /\ approvals'[a].request = approvals[a].request
        /\ approvals'[a].capability = approvals[a].capability
        /\ approvals'[a].decision = approvals[a].decision
    BY <1>1, <1>7 DEF Tell, GoTo, DeadlinePasses, GatewayGivesUp, At, Approval
  <2>2. Performed(a)' => Performed(a) \/ approvals[a].decision = "allow"
    BY <1>7 DEF Tell, DeadlinePasses, GatewayGivesUp, Performed
  <2>3. QED
    BY <1>1, <2>1, <2>2 DEF LoopConsistent, At, Performed, NoDecision
<1>8. QED
  BY <1>2, <1>3, <1>4, <1>5, <1>6, <1>7 DEF RelayLoop

(* The broker answers: a proposal that was served is asked about next, one *)
(* that failed is decided, and no other loop moves.                        *)
LEMMA AnsweredLoops ==
    ASSUME RelayInv, NEW served \in SUBSET Calls, NEW ok \in BOOLEAN, Answered(served, ok),
           granted \subseteq granted'
    PROVE  /\ approvals' \in [Approvals -> Approval]
           /\ LoopsConsistent'
<1> USE DEF RelayInv, RelayTypeOK
<1>1. ASSUME NEW a \in Approvals
      PROVE  approvals'[a] \in Approval /\ LoopConsistent(a)'
  <2>1. LoopConsistent(a) /\ approvals[a] \in Approval
    BY DEF LoopsConsistent
  <2>2. gateway'[a] = gateway[a]
    BY DEF Answered
  <2>3. CASE approvals'[a] = approvals[a]
    BY <2>1, <2>2, <2>3, UnmovedLoop
  <2>4. CASE At(a, "proposing") /\ approvals'[a] = [approvals[a] EXCEPT !.at = "check", !.calls = {}]
    <3>1. approvals'[a] \in Approval
      BY <2>1, <2>4 DEF Approval, RelayAwaits
    <3>2. /\ approvals'[a].at = "check"
          /\ approvals'[a].request = approvals[a].request
          /\ approvals'[a].capability = approvals[a].capability
          /\ approvals'[a].decision = approvals[a].decision
      BY <2>1, <2>4 DEF Approval
    <3>3. LoopConsistent(a)'
      BY <2>1, <2>2, <2>4, <3>2 DEF LoopConsistent, At, Performed, NoDecision
    <3>4. QED
      BY <3>1, <3>3
  <2>5. CASE At(a, "proposing") /\ approvals'[a] =
                [approvals[a] EXCEPT !.at = "settle", !.decision = "deny", !.calls = {}]
    <3>1. approvals'[a] \in Approval
      BY <2>1, <2>5 DEF Approval, RelayAwaits, Decisions
    <3>2. approvals'[a].at = "settle" /\ approvals'[a].decision = "deny"
      BY <2>1, <2>5 DEF Approval
    <3>3. LoopConsistent(a)'
      BY <2>1, <2>2, <2>5, <3>2 DEF LoopConsistent, At, Performed, NoDecision
    <3>4. QED
      BY <3>1, <3>3
  <2>6. QED
    BY <2>3, <2>4, <2>5 DEF Answered
<1>2. approvals' \in [Approvals -> Approval]
  BY <1>1 DEF Answered
<1>3. QED
  BY <1>1, <1>2 DEF LoopsConsistent

(* Every step leaves the loops as they were, moves one, or is an answer of *)
(* the broker.                                                             *)
LEMMA LoopsStep ==
    ASSUME RelayInv, RelayNext
    PROVE  /\ approvals' \in [Approvals -> Approval]
           /\ gateway' \in [Approvals -> {"idle", "blocked", "performed", "refused"}]
           /\ answering' \subseteq Calls
           /\ executeNext' \subseteq RequestIds \union {NoRequest}
           /\ LoopsConsistent'
<1> USE DEF RelayInv, RelayTypeOK
<1>1. granted \subseteq granted'
  BY DEF RelayNext
<1>2. ASSUME NEW a \in Approvals,
             \/ \E cap \in Capabilities : Raise(a, cap)
             \/ RelayLoop(a) \/ DeadlinePasses(a) \/ GatewayGivesUp(a)
      PROVE  /\ approvals' \in [Approvals -> Approval]
             /\ gateway' \in [Approvals -> {"idle", "blocked", "performed", "refused"}]
             /\ answering' \subseteq Calls
             /\ executeNext' \subseteq RequestIds \union {NoRequest}
             /\ LoopsConsistent'
  <2>1. \A b \in Approvals : b # a => approvals'[b] = approvals[b] /\ gateway'[b] = gateway[b]
    BY <1>2 DEF Raise, RelayLoop, RelayPropose, ProposeFails, AskStatus, StatusArrives,
                TimesOut, Tell, GoTo, Settle, DeadlinePasses, GatewayGivesUp
  <2>2. \A b \in Approvals : b # a => LoopConsistent(b)'
    BY <1>1, <2>1, UnmovedLoop DEF LoopsConsistent
  <2>3. LoopConsistent(a)'
    BY <1>1, <1>2, MovedLoop
  <2>4. QED
    BY <1>2, <2>2, <2>3, LoopType DEF LoopsConsistent
<1>3. ASSUME UNCHANGED <<approvals, gateway>>
      PROVE  /\ approvals' \in [Approvals -> Approval]
             /\ gateway' \in [Approvals -> {"idle", "blocked", "performed", "refused"}]
             /\ LoopsConsistent'
  BY <1>1, <1>3, UnmovedLoop DEF LoopsConsistent
<1>4. ASSUME NEW k \in Calls, Shell(k) \/ BrokerWorks(k)
      PROVE  /\ UNCHANGED <<approvals, gateway>>
             /\ answering' \subseteq Calls
             /\ executeNext' \subseteq RequestIds \union {NoRequest}
  BY <1>4 DEF Shell, UserAnswers, UserCancels, ShellExecutes, GrantWithdrawn, BrokerWorks,
              relayVars
<1>5. ASSUME NEW served \in SUBSET Calls, NEW ok \in BOOLEAN, Answered(served, ok)
      PROVE  /\ approvals' \in [Approvals -> Approval]
             /\ gateway' \in [Approvals -> {"idle", "blocked", "performed", "refused"}]
             /\ answering' \subseteq Calls
             /\ executeNext' \subseteq RequestIds \union {NoRequest}
             /\ LoopsConsistent'
  <2>1. \A k \in Calls : calls[k].request \in RequestIds \union {NoRequest}
    BY DEF TypeOK, Call
  <2>2. QED
    BY <1>1, <1>5, <2>1, AnsweredLoops DEF Answered
<1>6. QED
  BY <1>2, <1>3, <1>4, <1>5 DEF RelayNext, RelayStep, BrokerAnswers, BrokerErrs, BrokerRestarts

(* What is allowed, and what was ever started, has been granted.           *)
LEMMA GrantsStep ==
    ASSUME RelayInv, [Next]_vars, BrokerInv',
           granted' = granted \union
                {r \in RequestIds : requests'[r] # NoRequest /\ requests'[r].status = "allowed"}
    PROVE  GrantsRecorded'
<1> SUFFICES ASSUME NEW r \in RequestIds,
                    (Known(r) /\ Status(r) = "allowed")' \/ runs'[r] > 0
             PROVE  r \in granted'
  BY DEF GrantsRecorded
<1>1. CASE (Known(r) /\ Status(r) = "allowed")'
  BY <1>1 DEF Known, Status
<1>2. CASE runs'[r] > 0
  <2>1. CASE runs[r] > 0
    BY <2>1 DEF RelayInv, GrantsRecorded
  <2>2. CASE ~(runs[r] > 0)
    <3>1. Starts(r)
      BY <1>2, <2>2 DEF Starts, RelayInv, BrokerInv, TypeOK
    <3>2. Known(r) /\ Status(r) = "allowed"
      BY <3>1, StartIsChecked DEF RelayInv
    <3>3. QED
      BY <3>2 DEF RelayInv, GrantsRecorded
  <2>3. QED
    BY <2>1, <2>2
<1>3. QED
  BY <1>1, <1>2

-----------------------------------------------------------------------------
(* The invariant of the whole system. *)

LEMMA RelayInvInit == RelayInit => RelayInv
<1> SUFFICES ASSUME RelayInit PROVE RelayInv
  OBVIOUS
<1>1. BrokerInv
  BY InvInit DEF RelayInit
<1>2. RelayTypeOK
  BY <1>1 DEF RelayInit, RelayTypeOK, BrokerInv, NewApproval, Approval, RelayAwaits, Seen
<1>3. GrantsRecorded
  BY DEF RelayInit, Init, GrantsRecorded, Known
<1>4. LoopsConsistent
  BY DEF RelayInit, LoopsConsistent, LoopConsistent, NewApproval, At, Performed,
         NoDecision
<1>5. QED
  BY <1>1, <1>2, <1>3, <1>4 DEF RelayInv

LEMMA RelayInvStep == RelayInv /\ [RelayNext]_systemVars => RelayInv'
<1> SUFFICES ASSUME RelayInv, [RelayNext]_systemVars PROVE RelayInv'
  OBVIOUS
<1>1. BrokerInv'
  BY BrokerStepOfSystem, InvStep DEF RelayInv
<1>2. CASE RelayNext
  <2>1. granted' \subseteq RequestIds
    BY <1>2 DEF RelayNext, RelayInv, RelayTypeOK
  <2>2. RelayTypeOK'
    BY <1>1, <1>2, <2>1, LoopsStep DEF RelayTypeOK, BrokerInv
  <2>3. GrantsRecorded'
    BY <1>1, <1>2, BrokerStepOfSystem, GrantsStep DEF RelayInv, RelayNext
  <2>4. QED
    BY <1>1, <1>2, <2>2, <2>3, LoopsStep DEF RelayInv
<1>3. CASE UNCHANGED systemVars
  <2>1. RelayTypeOK'
    BY <1>1, <1>3 DEF systemVars, relayVars, RelayInv, RelayTypeOK, BrokerInv
  <2>2. UNCHANGED <<requests, runs, granted, approvals, gateway>>
    BY <1>3 DEF systemVars, vars, brokerVars, history, relayVars
  <2>3. GrantsRecorded'
    BY <2>2 DEF RelayInv, GrantsRecorded, Known, Status
  <2>4. LoopsConsistent'
    BY <2>2, UnmovedLoop DEF RelayInv, LoopsConsistent
  <2>5. QED
    BY <1>1, <2>1, <2>3, <2>4 DEF RelayInv
<1>4. QED
  BY <1>2, <1>3

(* The invariant of the system holds in every reachable state. *)
THEOREM RelayInvariant == RelaySpec => []RelayInv
BY RelayInvInit, RelayInvStep, PTL DEF RelaySpec

(* The state of the loops, the gateway and the shell keeps its types. *)
THEOREM RelayTypeCorrect == RelaySpec => []RelayTypeOK
BY RelayInvariant, PTL DEF RelayInv

(* The bridge and the shell only call the broker: every step of the system *)
(* is a step of the broker or leaves it alone.                             *)
THEOREM SystemRefinesBroker == RelaySpec => ClientsOnlyCall
<1>1. RelayInit => Init
  BY DEF RelayInit
<1>2. RelayInv /\ [RelayNext]_systemVars => [Next]_vars
  BY BrokerStepOfSystem DEF RelayInv
<1>3. QED
  BY <1>1, <1>2, RelayInvariant, PTL DEF RelaySpec, ClientsOnlyCall, Spec

(* So a grant that was withdrawn, and a deny that was remembered, bind the *)
(* broker whatever an agent's approvals and the user's answers do.         *)
THEOREM DenyWinsInSystem == RelaySpec => DenyWins
BY SystemRefinesBroker, DenyAlwaysWins DEF ClientsOnlyCall

(* The relay fails closed, for any number of approvals, requests, calls    *)
(* and restarts.                                                           *)
THEOREM RelayFailsClosed == RelaySpec => []FailsClosed
<1>1. RelayInv => FailsClosed
  BY DEF RelayInv, LoopsConsistent, LoopConsistent, MayBeRelayed, FailsClosed
<1>2. QED
  BY <1>1, RelayInvariant, PTL

-----------------------------------------------------------------------------
(* Dictation: the call which serves an utterance is disturbed by nobody    *)
(* else.                                                                   *)

-----------------------------------------------------------------------------
(* The broker, as the page sees it. *)

(* A call that arrives takes an idle slot and writes no audit row yet. *)
LEMMA ArriveEffect ==
    ASSUME TypeOK, NEW k \in Calls, Arrive(k)
    PROVE  /\ IsIdle(k)
           /\ \A j \in Calls \ {k} : calls'[j] = calls[j]
           /\ audit' = audit
           /\ issued \subseteq issued'
<1> USE DEF TypeOK, Suspend, history
<1>1. CASE \E r \in RequestIds, cap \in Capabilities, c \in Contexts : Propose(k, r, cap, c)
  BY <1>1 DEF Propose
<1>2. CASE \E r \in RequestIds, decision \in Decisions, remember, global \in BOOLEAN :
                Decide(k, r, decision, remember, global)
  BY <1>2 DEF Decide
<1>3. CASE \E r \in RequestIds : Cancel(k, r) \/ ExecuteTurnedDown(k, r) \/ ExecuteStart(k, r)
  BY <1>3 DEF Cancel, ExecuteTurnedDown, ExecuteStart
<1>4. CASE \E cap \in Capabilities \union {"any"}, scope \in Scopes \union {"any"} :
                Revoke(k, cap, scope)
  BY <1>4 DEF Revoke
<1>5. QED
  BY <1>1, <1>2, <1>3, <1>4 DEF Arrive

(* What one call does when it goes on or fails. *)
LEMMA ContinueEffect ==
    ASSUME TypeOK, NEW k \in Calls, Continue(k) \/ CallFails(k)
    PROVE  /\ calls[k].at # "idle"
           /\ \A j \in Calls \ {k} : calls'[j] = calls[j]
           /\ audit \subseteq audit'
           /\ issued' = issued
<1> USE DEF TypeOK, Suspend, history
<1>1. CASE \E succeeded \in BOOLEAN : ActionDone(k, succeeded)
  BY <1>1 DEF ActionDone
<1>2. CASE SnapshotPolicies(k) \/ TruncateFile(k) \/ WriteFile(k)
  BY <1>2 DEF SnapshotPolicies, TruncateFile, WriteFile
<1>3. CASE AppendAudit(k)
  BY <1>3 DEF AppendAudit
<1>4. CASE CallFails(k)
  BY <1>4 DEF CallFails
<1>5. QED
  BY <1>1, <1>2, <1>3, <1>4 DEF Continue

-----------------------------------------------------------------------------
(* The page only calls the broker. *)

LEMMA BrokerStepOfPage == DictationInv /\ [DictationNext]_dictationVars => [Next]_vars
<1> SUFFICES ASSUME DictationInv, [DictationNext]_dictationVars PROVE [Next]_vars
  OBVIOUS
<1> USE DEF DictationInv
<1>1. ASSUME NEW u \in Utterances, Progress(u) \/ AnswerLost(u) \/ Recogniser(u)
      PROVE  [Next]_vars
  <2>1. CASE \E k \in Calls, r \in RequestIds : SendPropose(u, k, r)
    <3>1. PICK k \in Calls, r \in RequestIds : SendPropose(u, k, r)
      BY <2>1
    <3>2. utterances[u].context \in Contexts
      BY <3>1 DEF SendPropose, UtteranceConsistent
    <3>3. Arrive(k)
      BY <3>1, <3>2, MicrophoneAssumption DEF SendPropose, Arrive
    <3>4. QED
      BY <3>3 DEF Next
  <2>2. CASE \E k \in Calls : SendExecute(u, k)
    <3>1. PICK k \in Calls : SendExecute(u, k)
      BY <2>2
    <3>2. utterances[u].request \in RequestIds
      BY <3>1 DEF SendExecute, Is, UtteranceConsistent, DictationTypeOK, Utterance
    <3>3. QED
      BY <3>1, <3>2 DEF SendExecute, Next, Arrive
  <2>3. QED
    BY <1>1, <2>1, <2>2 DEF Progress, SendFails, Resume, AnswerLost, Recogniser,
                            RecogniserFails, RecogniserEnds
<1>2. ASSUME Person PROVE [Next]_vars
  <2>1. ASSUME NEW k \in Calls, NEW decision \in Decisions, NEW remember \in BOOLEAN,
               pendingRequest # NoRequest, Decide(k, pendingRequest, decision, remember, FALSE)
        PROVE  [Next]_vars
    <3>1. pendingRequest \in RequestIds
      BY <2>1 DEF DictationTypeOK
    <3>2. QED
      BY <2>1, <3>1 DEF Next, Arrive
  <2>2. CASE \E k \in Calls : Refuse(k) \/ \E remember \in BOOLEAN : Grant(k, remember)
    BY <2>1, <2>2 DEF Refuse, Grant, Decisions
  <2>3. QED
    BY <1>2, <2>2 DEF Person, Hold, Release, Discard, Leave
<1>3. ASSUME NEW k \in Calls, Broker(k) \/ OtherClient(k)
      PROVE  [Next]_vars
  <2>1. CASE Broker(k)
    BY <2>1 DEF Broker, PageBrokerWorks, PageBrokerAnswers, PageBrokerErrs, Next, Continue
  <2>2. CASE OtherClient(k)
    <3>1. Arrive(k)
      BY <2>2 DEF OtherClient, Arrive
    <3>2. QED
      BY <3>1 DEF Next
  <2>3. QED
    BY <1>3, <2>1, <2>2
<1>4. CASE PageBrokerRestarts
  BY <1>4 DEF PageBrokerRestarts, Next
<1>5. CASE Render
  BY <1>5 DEF Render
<1>6. CASE UNCHANGED dictationVars
  BY <1>6 DEF dictationVars
<1>7. QED
  BY <1>1, <1>2, <1>3, <1>4, <1>5, <1>6 DEF DictationNext

-----------------------------------------------------------------------------
(* Utterances that do not move. *)

LEMMA ServedStays ==
    ASSUME NEW u \in Utterances, NEW k, ServedBy(u, k), calls'[k] = calls[k],
           utterances'[u] = utterances[u]
    PROVE  ServedBy(u, k)'
BY DEF ServedBy, Is

LEMMA Unmoved ==
    ASSUME NEW u \in Utterances, UtteranceConsistent(u), utterances'[u] = utterances[u],
           issued \subseteq issued', audit \subseteq audit',
           \A k \in utterances[u].calls : ServedBy(u, k)'
    PROVE  UtteranceConsistent(u)'
BY DEF UtteranceConsistent, Is, Recognised, ExecutedOnRecord

(* A call that serves an utterance is at work. *)
LEMMA ServedIsBusy ==
    ASSUME NEW u \in Utterances, UtteranceConsistent(u), NEW k \in utterances[u].calls
    PROVE  ~IsIdle(k)
BY DEF UtteranceConsistent, ServedBy, IsIdle

(* Nor do they when a call arrives or the broker is left alone. *)
LEMMA UnmovedByArrival ==
    ASSUME DictationInv, NEW u \in Utterances, utterances'[u] = utterances[u],
           UNCHANGED vars \/ \E k \in Calls : Arrive(k)
    PROVE  UtteranceConsistent(u)'
<1> USE DEF DictationInv
<1>0. UtteranceConsistent(u) /\ utterances[u].calls \subseteq Calls
  BY DEF DictationTypeOK, Utterance
<1>1. CASE UNCHANGED vars
  <2>1. UNCHANGED <<issued, audit, calls>>
    BY <1>1 DEF vars, history
  <2>2. \A k \in utterances[u].calls : ServedBy(u, k)'
    BY <1>0, <2>1, ServedStays DEF UtteranceConsistent
  <2>3. QED
    BY <1>0, <2>1, <2>2, Unmoved
<1>2. ASSUME NEW k \in Calls, Arrive(k) PROVE UtteranceConsistent(u)'
  <2>1. IsIdle(k) /\ (\A j \in Calls \ {k} : calls'[j] = calls[j])
            /\ audit' = audit /\ issued \subseteq issued'
    BY <1>2, ArriveEffect DEF DictationTypeOK
  <2>2. \A j \in utterances[u].calls : calls'[j] = calls[j]
    BY <1>0, <2>1, ServedIsBusy
  <2>3. \A j \in utterances[u].calls : ServedBy(u, j)'
    BY <1>0, <2>2, ServedStays DEF UtteranceConsistent
  <2>4. QED
    BY <1>0, <2>1, <2>3, Unmoved
<1>3. QED
  BY <1>1, <1>2

(* Nor when a call goes on that does not serve them. *)
LEMMA UnmovedByBroker ==
    ASSUME DictationInv, NEW k \in Calls, Continue(k) \/ CallFails(k),
           NEW u \in Utterances, utterances'[u] = utterances[u],
           k \notin utterances[u].calls
    PROVE  UtteranceConsistent(u)'
<1> USE DEF DictationInv
<1>0. UtteranceConsistent(u) /\ utterances[u].calls \subseteq Calls
  BY DEF DictationTypeOK, Utterance
<1>1. (\A j \in Calls \ {k} : calls'[j] = calls[j]) /\ audit \subseteq audit' /\ issued' = issued
  BY ContinueEffect DEF DictationTypeOK
<1>2. \A j \in utterances[u].calls : ServedBy(u, j)'
  BY <1>0, <1>1, ServedStays DEF UtteranceConsistent
<1>3. QED
  BY <1>0, <1>1, <1>2, Unmoved

-----------------------------------------------------------------------------
(* What a step does to the utterances. *)

UtterancesInv ==
    /\ utterances \in [Utterances -> Utterance]
    /\ \A u \in Utterances : UtteranceConsistent(u)
    /\ OwnRequests

(* Utterance u becomes `new`, whose request is its old one or none. *)
LEMMA OneMoves ==
    ASSUME DictationInv, NEW u \in Utterances, NEW new \in Utterance,
           utterances' = [utterances EXCEPT ![u] = new],
           new.request \in {utterances[u].request, NoRequest},
           UNCHANGED vars \/ \E k \in Calls : Arrive(k),
           UtteranceConsistent(u)'
    PROVE  UtterancesInv'
<1> USE DEF DictationInv
<1>1. utterances \in [Utterances -> Utterance]
  BY DEF DictationTypeOK
<1>2. utterances' \in [Utterances -> Utterance] /\ utterances'[u] = new
        /\ \A v \in Utterances \ {u} : utterances'[v] = utterances[v]
  BY <1>1
<1>3. \A v \in Utterances : UtteranceConsistent(v)'
  BY <1>2, UnmovedByArrival
<1>4. OwnRequests'
  BY <1>2 DEF OwnRequests
<1>5. QED
  BY <1>2, <1>3, <1>4 DEF UtterancesInv

(* None moves. *)
LEMMA NoneMoves ==
    ASSUME DictationInv, UNCHANGED utterances,
           UNCHANGED vars \/ \E k \in Calls : Arrive(k)
    PROVE  UtterancesInv'
<1> USE DEF DictationInv
<1>1. \A u \in Utterances : UtteranceConsistent(u)'
  BY UnmovedByArrival
<1>2. OwnRequests'
  BY DEF OwnRequests
<1>3. QED
  BY <1>1, <1>2 DEF UtterancesInv, DictationTypeOK

LEMMA BeginMoves ==
    ASSUME DictationInv, UNCHANGED vars, Begin
    PROVE  UtterancesInv'
<1>1. CASE UNCHANGED utterances
  BY <1>1, NoneMoves
<1>2. ASSUME NEW u \in Utterances, NEW c \in Contexts, Is(u, "absent"),
             utterances' = [utterances EXCEPT ![u] = [Silent EXCEPT !.at = "propose", !.context = c]]
      PROVE  UtterancesInv'
  <2> DEFINE new == [Silent EXCEPT !.at = "propose", !.context = c]
  <2>1. new \in Utterance
    BY DEF Silent, Utterance
  <2>2. utterances'[u] = new
    BY <1>2 DEF DictationInv, DictationTypeOK
  <2>3. UtteranceConsistent(u)'
    BY <2>2 DEF UtteranceConsistent, Is, Recognised, ExecutedOnRecord, Silent
  <2>4. QED
    BY <1>2, <2>1, <2>3, OneMoves DEF Silent
<1>3. QED
  BY <1>1, <1>2 DEF Begin

(* Only the recogniser changes, of an utterance that has one. *)
LEMMA RecogniserMoves ==
    ASSUME DictationInv, UNCHANGED vars, NEW u \in Utterances, Recognised(u),
           NEW recogniser \in {"closing", "ended"},
           utterances' = [utterances EXCEPT ![u].recogniser = recogniser]
    PROVE  UtterancesInv'
<1> DEFINE new == [utterances[u] EXCEPT !.recogniser = recogniser]
<1>1. utterances[u] \in Utterance /\ UtteranceConsistent(u)
  BY DEF DictationInv, DictationTypeOK
<1>2. new \in Utterance /\ utterances'[u] = new
  BY <1>1 DEF Utterance, DictationInv, DictationTypeOK
<1>3. UNCHANGED <<issued, audit>>
  BY DEF vars, history
<1>4. Is(u, "done") /\ utterances[u].calls = {} /\ ExecutedOnRecord(u)
  BY <1>1 DEF UtteranceConsistent, Is
<1>5. ExecutedOnRecord(u)'
  BY <1>1, <1>2, <1>3, <1>4 DEF ExecutedOnRecord, Utterance, Is
<1>6. UtteranceConsistent(u)'
  BY <1>1, <1>2, <1>3, <1>4, <1>5 DEF UtteranceConsistent, Is, Recognised, Utterance
<1>7. QED
  BY <1>1, <1>2, <1>6, OneMoves DEF Utterance

LEMMA CloseMoves ==
    ASSUME DictationInv, UNCHANGED vars, CloseCurrent
    PROVE  UtterancesInv'
<1>1. CASE dictation # NoUtterance /\ Open(dictation)
  <2>1. dictation \in Utterances
    BY <1>1 DEF DictationInv, DictationTypeOK
  <2>2. QED
    BY <1>1, <2>1, RecogniserMoves DEF CloseCurrent, Open, Recognised
<1>2. CASE ~(dictation # NoUtterance /\ Open(dictation))
  BY <1>2, NoneMoves DEF CloseCurrent
<1>3. QED
  BY <1>1, <1>2

LEMMA ProposeMoves ==
    ASSUME DictationInv, NEW u \in Utterances, NEW k \in Calls, NEW r \in RequestIds,
           SendPropose(u, k, r)
    PROVE  UtterancesInv'
<1> USE DEF DictationInv
<1>1. utterances[u] \in Utterance /\ UtteranceConsistent(u) /\ Is(u, "propose")
  BY DEF DictationTypeOK, SendPropose
<1>2. r \notin issued /\ issued' = issued \union {r} /\ audit' = audit
  BY DEF SendPropose, Propose
<1>3. calls'[k].at = "audit" /\ calls'[k].request = r
  BY DEF SendPropose, Propose, Suspend, DictationTypeOK, TypeOK
<1>4. Arrive(k)
  BY <1>1, MicrophoneAssumption DEF SendPropose, Arrive, UtteranceConsistent
<1> DEFINE new == [utterances[u] EXCEPT !.at = "proposing", !.request = r, !.calls = {k}]
<1>5. new \in Utterance /\ utterances' = [utterances EXCEPT ![u] = new] /\ utterances'[u] = new
  BY <1>1 DEF Utterance, SendPropose, DictationTypeOK
<1>6. /\ utterances'[u].at = "proposing" /\ utterances'[u].request = r
      /\ utterances'[u].calls = {k} /\ utterances'[u].recogniser = utterances[u].recogniser
  <2> HIDE DEF DictationInv
  <2>1. utterances[u] \in Utterance
    BY <1>1
  <2>2. /\ new.at = "proposing" /\ new.request = r /\ new.calls = {k}
        /\ new.recogniser = utterances[u].recogniser
    BY <2>1 DEF Utterance
  <2>3. QED
    BY <1>5, <2>2
<1>7. UtteranceConsistent(u)'
  <2>1. ~Recognised(u)
    BY <1>1 DEF UtteranceConsistent, Is
  <2>2. ServedBy(u, k)'
    BY <1>3, <1>6 DEF ServedBy, Is
  <2>3. QED
    BY <1>2, <1>6, <2>1, <2>2, NoRequestAssumption
       DEF UtteranceConsistent, Is, Recognised, ExecutedOnRecord
<1>8. \A v \in Utterances \ {u} : utterances'[v] = utterances[v] /\ utterances[v].request # r
  <2>1. \A v \in Utterances \ {u} : utterances'[v] = utterances[v]
    BY <1>5
  <2>2. \A v \in Utterances : utterances[v].request # r
    BY <1>2, NoRequestAssumption DEF UtteranceConsistent
  <2>3. QED
    BY <2>1, <2>2
<1>9. OwnRequests'
  BY <1>8, <1>6 DEF OwnRequests
<1>10. \A v \in Utterances : UtteranceConsistent(v)'
  BY <1>4, <1>7, <1>8, UnmovedByArrival
<1>11. QED
  BY <1>5, <1>9, <1>10 DEF UtterancesInv, DictationTypeOK

LEMMA ExecuteMoves ==
    ASSUME DictationInv, NEW u \in Utterances, NEW k \in Calls, SendExecute(u, k)
    PROVE  UtterancesInv'
<1> DEFINE r == utterances[u].request
<1>1. utterances[u] \in Utterance /\ UtteranceConsistent(u) /\ Is(u, "execute")
  BY DEF DictationInv, DictationTypeOK, SendExecute
<1>2. r \in RequestIds /\ r # NoRequest /\ ~Recognised(u) /\ utterances[u].calls = {}
        /\ r \in issued
  BY <1>1, NoRequestAssumption DEF UtteranceConsistent, Is, Utterance
<1>3. CASE /\ ExecuteStart(k, r) \/ ExecuteTurnedDown(k, r)
           /\ utterances' = [utterances EXCEPT ![u].at = "executing", ![u].calls = {k}]
  <2>1. Arrive(k) /\ issued' = issued
    BY <1>2, <1>3 DEF Arrive, ExecuteStart, ExecuteTurnedDown, history
  <2>2. /\ calls'[k].request = r
        /\ \/ calls'[k].at = "acting"
           \/ calls'[k].at = "audit" /\ calls'[k].phase = "auto-denied"
    BY <1>3 DEF ExecuteStart, ExecuteTurnedDown, Suspend, DictationInv, DictationTypeOK, TypeOK
  <2> DEFINE new == [utterances[u] EXCEPT !.at = "executing", !.calls = {k}]
  <2>3. new \in Utterance /\ new.request = r /\ new.at = "executing" /\ new.calls = {k}
            /\ new.recogniser = utterances[u].recogniser
    BY <1>1 DEF Utterance
  <2>4. utterances' = [utterances EXCEPT ![u] = new] /\ utterances'[u] = new
    BY <1>1, <1>3 DEF DictationInv, DictationTypeOK
  <2>5. ServedBy(u, k)'
    BY <2>2, <2>3, <2>4 DEF ServedBy, Is
  <2>6. UtteranceConsistent(u)'
    <3> HIDE DEF new
    <3>1. QED
      BY <1>2, <2>1, <2>3, <2>4, <2>5 DEF UtteranceConsistent, Is, Recognised, ExecutedOnRecord
  <2>7. QED
    BY <2>1, <2>3, <2>4, <2>6, OneMoves
<1>4. CASE /\ utterances' = [utterances EXCEPT ![u].at = "executed", ![u].seen = "undefined"]
           /\ UNCHANGED vars
  <2> DEFINE new == [utterances[u] EXCEPT !.at = "executed", !.seen = "undefined"]
  <2>1. new \in Utterance /\ new.request = r /\ new.at = "executed" /\ new.calls = {}
            /\ new.recogniser = utterances[u].recogniser /\ new.seen = "undefined"
    BY <1>1, <1>2 DEF Utterance
  <2>2. utterances' = [utterances EXCEPT ![u] = new] /\ utterances'[u] = new
    BY <1>1, <1>4 DEF DictationInv, DictationTypeOK
  <2>3. UNCHANGED <<issued, audit>>
    BY <1>4 DEF vars, history
  <2>4. UtteranceConsistent(u)'
    <3> HIDE DEF new
    <3>1. QED
      BY <1>2, <2>1, <2>2, <2>3 DEF UtteranceConsistent, Is, Recognised, ExecutedOnRecord
  <2>5. QED
    BY <1>4, <2>1, <2>2, <2>4, OneMoves
<1>5. QED
  BY <1>3, <1>4 DEF SendExecute

(* A call that fails, or whose answer is lost. *)
LEMMA UnansweredMoves ==
    ASSUME DictationInv, UNCHANGED vars, NEW u \in Utterances,
           utterances[u].at \in {"propose", "proposing", "execute", "executing"},
           utterances' = [utterances EXCEPT ![u] = AnswerIs(u, "undefined")]
    PROVE  UtterancesInv'
<1> DEFINE new == AnswerIs(u, "undefined")
<1>1. utterances[u] \in Utterance /\ UtteranceConsistent(u)
  BY DEF DictationInv, DictationTypeOK
<1>2. /\ new \in Utterance /\ new.request = utterances[u].request
      /\ new.at \in {"proposed", "executed"} /\ new.calls = {} /\ new.seen = "undefined"
      /\ new.recogniser = utterances[u].recogniser
  BY <1>1 DEF Utterance, AnswerIs, AfterAnswer
<1>3. utterances'[u] = new
  BY DEF DictationInv, DictationTypeOK
<1>4. UNCHANGED <<issued, audit>>
  BY DEF vars, history
<1>5. ~Recognised(u)
  BY <1>1 DEF UtteranceConsistent, Is
<1>6. UtteranceConsistent(u)'
  BY <1>1, <1>2, <1>3, <1>4, <1>5 DEF UtteranceConsistent, Is, Recognised, ExecutedOnRecord
<1>7. QED
  BY <1>2, <1>6, OneMoves

(* begin() goes on to `at`, and startCapture() only on an answer "executed". *)
LEMMA ResumeMoves ==
    ASSUME DictationInv, NEW u \in Utterances, Resume(u)
    PROVE  UtterancesInv'
<1>1. utterances[u] \in Utterance /\ UtteranceConsistent(u)
  BY DEF DictationInv, DictationTypeOK
<1>2. UNCHANGED vars /\ UNCHANGED <<issued, audit>>
  BY DEF Resume, vars, history
<1>3. utterances[u].calls = {} /\ ~Recognised(u)
  BY <1>1 DEF Resume, UtteranceConsistent, Is
<1>4. PICK at \in {"execute", "done"}, recogniser \in {"none", "open"} :
        /\ utterances' = [utterances EXCEPT ![u].at = at, ![u].recogniser = recogniser]
        /\ at = "execute" => utterances[u].request # NoRequest
        /\ recogniser = "open" => Is(u, "executed") /\ utterances[u].seen = "executed"
        /\ recogniser = "open" => at = "done"
  <2>1. Becomes(u, "done") =>
            utterances' = [utterances EXCEPT ![u].at = "done", ![u].recogniser = "none"]
    BY <1>1, <1>3 DEF Becomes, Recognised, Utterance
  <2>2. Becomes(u, "execute") =>
            utterances' = [utterances EXCEPT ![u].at = "execute", ![u].recogniser = "none"]
    BY <1>1, <1>3 DEF Becomes, Recognised, Utterance
  <2>3. CASE Is(u, "proposed") /\ ResumeProposed(u)
    BY <1>1, <2>1, <2>2, <2>3 DEF ResumeProposed, GivesUp, UtteranceConsistent
  <2>4. CASE Is(u, "executed") /\ ResumeExecuted(u)
    BY <2>1, <2>4 DEF ResumeExecuted, GivesUp, StartCapture
  <2>5. CASE Ends(u)
    BY <2>1, <2>5 DEF Ends
  <2>6. QED
    BY <2>3, <2>4, <2>5 DEF Resume
<1> DEFINE new == [utterances[u] EXCEPT !.at = at, !.recogniser = recogniser]
<1>5. /\ new \in Utterance /\ new.request = utterances[u].request /\ new.at = at
      /\ new.calls = {} /\ new.recogniser = recogniser
  BY <1>1, <1>3 DEF Utterance
<1>6. utterances' = [utterances EXCEPT ![u] = new] /\ utterances'[u] = new
  BY <1>1, <1>4 DEF DictationInv, DictationTypeOK
<1>7. UtteranceConsistent(u)'
  BY <1>1, <1>2, <1>4, <1>5, <1>6 DEF UtteranceConsistent, Is, Recognised, ExecutedOnRecord
<1>8. QED
  BY <1>2, <1>5, <1>6, <1>7, OneMoves

-----------------------------------------------------------------------------
(* Answers of the broker. *)

(* An utterance that waits for a call is answered with `seen`. *)
LEMMA AnsweredUtterance ==
    ASSUME DictationInv, NEW u \in Utterances, NEW seen \in Statuses \union {"undefined"},
           utterances[u].calls # {}, utterances'[u] = AnswerIs(u, seen),
           issued \subseteq issued', audit \subseteq audit',
           Is(u, "executing") /\ seen = "executed" =>
                [request |-> utterances[u].request, phase |-> "executed"] \in audit'
    PROVE  /\ utterances'[u] \in Utterance
           /\ utterances'[u].request = utterances[u].request
           /\ UtteranceConsistent(u)'
<1>1. utterances[u] \in Utterance /\ UtteranceConsistent(u)
  BY DEF DictationInv, DictationTypeOK
<1> DEFINE new == AnswerIs(u, seen)
<1>2. Is(u, "proposing") \/ Is(u, "executing")
  BY <1>1 DEF UtteranceConsistent
<1>3. /\ new \in Utterance /\ new.request = utterances[u].request
      /\ new.at = (IF Is(u, "proposing") THEN "proposed" ELSE "executed")
      /\ new.calls = {} /\ new.seen = seen /\ new.recogniser = utterances[u].recogniser
  BY <1>1, <1>2 DEF Utterance, AnswerIs, AfterAnswer, Is
<1>4. ~Recognised(u) /\ utterances[u].request # NoRequest
  BY <1>1, <1>2 DEF UtteranceConsistent, Is
<1> HIDE DEF new
<1>5. utterances'[u] = new
  BY DEF new
<1>6. UtteranceConsistent(u)'
  BY <1>1, <1>2, <1>3, <1>4, <1>5 DEF UtteranceConsistent, Is, Recognised, ExecutedOnRecord
<1>7. QED
  BY <1>3, <1>5, <1>6

LEMMA AnswerType ==
    ASSUME DictationInv, NEW k \in Calls, NEW ok \in BOOLEAN
    PROVE  AnswerOf(k, ok) \in Statuses \union {"undefined"}
<1>1. TypeOK /\ calls[k].request \in RequestIds \union {NoRequest}
  BY DEF DictationInv, DictationTypeOK, TypeOK, Call
<1>2. CASE calls[k].request # NoRequest /\ Known(calls[k].request)
  BY <1>1, <1>2, KnownRequest DEF AnswerOf, Status, Request
<1>3. CASE ~(calls[k].request # NoRequest /\ Known(calls[k].request))
  BY <1>3 DEF AnswerOf
<1>4. QED
  BY <1>2, <1>3

(* "executed" is answered when the row has been appended. *)
LEMMA AnsweredOnRecord ==
    ASSUME DictationInv, NEW u \in Utterances, NEW k \in utterances[u].calls,
           Is(u, "executing"), AppendAudit(k), AnswerOf(k, TRUE) = "executed"
    PROVE  [request |-> utterances[u].request, phase |-> "executed"] \in audit'
<1>1. ServedBy(u, k)
  BY DEF DictationInv, UtteranceConsistent
<1>2. calls[k].phase \in {"executed", "auto-denied"}
  BY <1>1 DEF ServedBy, AppendAudit
<1>3. calls[k].phase # "auto-denied"
  BY DEF AnswerOf
<1>4. QED
  BY <1>1, <1>2, <1>3, MicrophoneAssumption DEF ServedBy, AppendAudit

(* Every utterance whose call is in `served` is answered. *)
LEMMA AnswersMove ==
    ASSUME DictationInv, NEW served \in SUBSET Calls, NEW ok \in BOOLEAN,
           PageAnswered(served, ok),
           issued \subseteq issued', audit \subseteq audit',
           ok => \E k \in Calls : served = {k} /\ AppendAudit(k),
           \A u \in Utterances :
                utterances'[u] = utterances[u] /\ utterances[u].calls \intersect served = {} =>
                    UtteranceConsistent(u)'
    PROVE  UtterancesInv'
<1> DEFINE answer(u) == AnswerOf(CHOOSE k \in utterances[u].calls : TRUE, ok)
<1>1. utterances \in [Utterances -> Utterance] /\ \A u \in Utterances : UtteranceConsistent(u)
  BY DEF DictationInv, DictationTypeOK
<1>2. utterances' = [u \in Utterances |->
            IF utterances[u].calls \intersect served = {} THEN utterances[u]
            ELSE AnswerIs(u, answer(u))]
  BY DEF PageAnswered
<1>3. ASSUME NEW u \in Utterances
      PROVE  /\ utterances'[u] \in Utterance
             /\ utterances'[u].request = utterances[u].request
             /\ UtteranceConsistent(u)'
  <2>1. CASE utterances[u].calls \intersect served = {}
    BY <1>1, <1>2, <2>1
  <2>2. CASE utterances[u].calls \intersect served # {}
    <3>1. PICK k \in utterances[u].calls : k \in served
      BY <2>2
    <3>2. (CHOOSE j \in utterances[u].calls : TRUE) = k
      BY <1>1, <3>1 DEF UtteranceConsistent
    <3>3. answer(u) = AnswerOf(k, ok)
      BY <3>2
    <3>4. answer(u) \in Statuses \union {"undefined"}
      BY <3>1, <3>3, AnswerType
    <3>5. Is(u, "executing") /\ answer(u) = "executed" =>
            [request |-> utterances[u].request, phase |-> "executed"] \in audit'
      <4>1. CASE ok
        <5>1. AppendAudit(k)
          BY <3>1, <4>1
        <5>2. ok = TRUE
          BY <4>1
        <5>3. QED
          BY <3>1, <3>3, <5>1, <5>2, AnsweredOnRecord
      <4>2. CASE ~ok
        BY <3>3, <4>2 DEF AnswerOf
      <4>3. QED
        BY <4>1, <4>2
    <3>6. utterances'[u] = AnswerIs(u, answer(u))
      BY <1>2, <2>2
    <3> HIDE DEF answer
    <3>7. QED
      BY <3>1, <3>4, <3>5, <3>6, AnsweredUtterance
  <2>3. QED
    BY <2>1, <2>2
<1>4. OwnRequests'
  BY <1>3 DEF DictationInv, OwnRequests
<1>5. utterances' \in [Utterances -> Utterance]
  BY <1>2, <1>3
<1>6. QED
  BY <1>3, <1>4, <1>5 DEF UtterancesInv

LEMMA BrokerMoves ==
    ASSUME DictationInv, NEW k \in Calls, Broker(k) \/ OtherClient(k)
    PROVE  UtterancesInv'
<1>1. CASE OtherClient(k)
  <2>1. Arrive(k) /\ UNCHANGED utterances
    BY <1>1 DEF OtherClient, Arrive, pageVars
  <2>2. QED
    BY <2>1, NoneMoves
<1>2. CASE PageBrokerWorks(k)
  <2>1. Continue(k) /\ UNCHANGED utterances
    BY <1>2 DEF PageBrokerWorks, Continue, pageVars
  <2>2. ASSUME NEW u \in Utterances PROVE UtteranceConsistent(u)'
    <3>1. UtteranceConsistent(u) /\ utterances[u].calls \subseteq Calls
      BY DEF DictationInv, DictationTypeOK, Utterance
    <3>2. CASE k \notin utterances[u].calls
      BY <2>1, <3>2, UnmovedByBroker
    <3>3. CASE k \in utterances[u].calls
      <4>1. ServedBy(u, k) /\ utterances[u].calls = {k}
        BY <3>1, <3>3 DEF UtteranceConsistent
      <4>2. calls[k].at \in {"acting", "audit"}
        BY <3>1, <3>3, <4>1 DEF ServedBy, UtteranceConsistent
      <4>3. ActionDone(k, TRUE)
        BY <1>2, <4>2 DEF PageBrokerWorks, SnapshotPolicies, TruncateFile, WriteFile
      <4>4. calls'[k].at = "audit" /\ calls'[k].phase = "executed"
                /\ calls'[k].request = calls[k].request
        BY <4>3 DEF ActionDone, Suspend, DictationInv, DictationTypeOK, TypeOK
      <4>5. Is(u, "executing")
        BY <3>1, <3>3, <4>1, <4>3 DEF ServedBy, UtteranceConsistent, ActionDone
      <4>6. ServedBy(u, k)'
        BY <2>1, <4>1, <4>4, <4>5 DEF ServedBy, Is
      <4>7. audit \subseteq audit' /\ issued \subseteq issued'
        BY <2>1, ContinueEffect DEF DictationInv, DictationTypeOK
      <4>8. QED
        BY <2>1, <3>1, <4>1, <4>6, <4>7, Unmoved
    <3>4. QED
      BY <3>2, <3>3
  <2>3. OwnRequests'
    BY <2>1 DEF DictationInv, OwnRequests
  <2>4. QED
    BY <2>1, <2>2, <2>3 DEF UtterancesInv, DictationInv, DictationTypeOK
<1>3. ASSUME NEW ok \in BOOLEAN, PageAnswered({k}, ok),
             Continue(k) \/ CallFails(k), ok => AppendAudit(k)
      PROVE  UtterancesInv'
  <2>1. audit \subseteq audit' /\ issued \subseteq issued'
    BY <1>3, ContinueEffect DEF DictationInv, DictationTypeOK
  <2>2. \A u \in Utterances :
            utterances'[u] = utterances[u] /\ utterances[u].calls \intersect {k} = {} =>
                UtteranceConsistent(u)'
    BY <1>3, UnmovedByBroker
  <2>3. QED
    BY <1>3, <2>1, <2>2, AnswersMove
<1>4. CASE PageBrokerAnswers(k)
  BY <1>3, <1>4 DEF PageBrokerAnswers, Continue
<1>5. CASE PageBrokerErrs(k)
  BY <1>3, <1>5 DEF PageBrokerErrs
<1>6. QED
  BY <1>1, <1>2, <1>4, <1>5 DEF Broker

LEMMA RestartMoves ==
    ASSUME DictationInv, PageBrokerRestarts
    PROVE  UtterancesInv'
<1>1. UNCHANGED <<issued, audit>>
  BY DEF PageBrokerRestarts, Restart
<1>2. ASSUME NEW u \in Utterances, utterances'[u] = utterances[u],
             utterances[u].calls \intersect Calls = {}
      PROVE  UtteranceConsistent(u)'
  <2>1. UtteranceConsistent(u) /\ utterances[u].calls = {}
    BY <1>2 DEF DictationInv, DictationTypeOK, Utterance
  <2>2. QED
    BY <1>1, <1>2, <2>1, Unmoved
<1>3. QED
  BY <1>1, <1>2, AnswersMove DEF PageBrokerRestarts

-----------------------------------------------------------------------------
(* Every step. *)

LEMMA UtterancesStep == DictationInv /\ [DictationNext]_dictationVars => UtterancesInv'
<1> SUFFICES ASSUME DictationInv, [DictationNext]_dictationVars PROVE UtterancesInv'
  OBVIOUS
<1>1. ASSUME NEW u \in Utterances, Progress(u) \/ AnswerLost(u) \/ Recogniser(u)
      PROVE  UtterancesInv'
  <2>1. CASE \E k \in Calls, r \in RequestIds : SendPropose(u, k, r)
    BY <2>1, ProposeMoves
  <2>2. CASE \E k \in Calls : SendExecute(u, k)
    BY <2>2, ExecuteMoves
  <2>3. CASE SendFails(u) \/ AnswerLost(u)
    BY <2>3, UnansweredMoves DEF SendFails, AnswerLost, Is
  <2>4. CASE Resume(u)
    BY <2>4, ResumeMoves
  <2>5. CASE Recogniser(u)
    BY <2>5, RecogniserMoves
       DEF Recogniser, RecogniserFails, RecogniserEnds, Recognising, Recognised
  <2>6. QED
    BY <1>1, <2>1, <2>2, <2>3, <2>4, <2>5 DEF Progress
<1>2. CASE Hold
  BY <1>2, BeginMoves DEF Hold
<1>3. CASE Release
  BY <1>3, CloseMoves, NoneMoves DEF Release
<1>4. CASE Discard \/ Leave
  BY <1>4, CloseMoves DEF Discard, Leave
<1>5. ASSUME NEW k \in Calls, NEW remember \in BOOLEAN, Refuse(k) \/ Grant(k, remember)
      PROVE  UtterancesInv'
  <2>1. pendingRequest # NoRequest => pendingRequest \in RequestIds
    BY DEF DictationInv, DictationTypeOK
  <2>2. UNCHANGED vars \/ Arrive(k)
    BY <1>5, <2>1 DEF Refuse, Grant, Arrive, Decisions
  <2>3. UNCHANGED utterances
    BY <1>5 DEF Refuse, Grant
  <2>4. QED
    BY <2>2, <2>3, NoneMoves
<1>6. CASE Render \/ UNCHANGED dictationVars
  BY <1>6, NoneMoves DEF Render, dictationVars, pageVars
<1>7. CASE \E k \in Calls : Broker(k) \/ OtherClient(k)
  BY <1>7, BrokerMoves
<1>8. CASE PageBrokerRestarts
  BY <1>8, RestartMoves
<1>9. CASE \E k \in Calls : Refuse(k)
  <2>1. TRUE \in BOOLEAN
    OBVIOUS
  <2>2. QED
    BY <1>5, <1>9, <2>1
<1>10. CASE \E k \in Calls : \E remember \in BOOLEAN : Grant(k, remember)
  BY <1>5, <1>10
<1>11. QED
  BY <1>1, <1>2, <1>3, <1>4, <1>6, <1>7, <1>8, <1>9, <1>10 DEF DictationNext, Person

(* The phase, the refs and the prompt. *)
PageTypeOK ==
    /\ dictation \in Utterances \union {NoUtterance}
    /\ {busy, held, alive} \subseteq BOOLEAN
    /\ {phase, rendered} \subseteq Phases
    /\ pendingRequest \in RequestIds \union {NoRequest}
    /\ granting \subseteq Calls

LEMMA PageTypeStep == DictationInv /\ [DictationNext]_dictationVars => PageTypeOK'
<1> SUFFICES ASSUME DictationInv, [DictationNext]_dictationVars PROVE PageTypeOK'
  OBVIOUS
<1> USE DEF PageTypeOK, Phases
<1>0. PageTypeOK /\ \A u \in Utterances : utterances[u] \in Utterance
  BY DEF DictationInv, DictationTypeOK
<1>1. ASSUME NEW u \in Utterances, Progress(u) \/ AnswerLost(u) \/ Recogniser(u)
      PROVE  PageTypeOK'
  <2>1. CASE \E k \in Calls, r \in RequestIds : SendPropose(u, k, r)
    BY <1>0, <2>1 DEF SendPropose
  <2>2. CASE \E k \in Calls : SendExecute(u, k)
    BY <1>0, <2>2 DEF SendExecute
  <2>3. CASE SendFails(u) \/ AnswerLost(u)
    BY <1>0, <2>3 DEF SendFails, AnswerLost
  <2>4. CASE Resume(u)
    <3>1. utterances[u].request \in RequestIds \union {NoRequest}
      BY <1>0 DEF Utterance
    <3>2. UNCHANGED <<rendered, granting, held, alive>>
      BY <2>4 DEF Resume
    <3>3. CASE ResumeProposed(u)
      BY <1>0, <3>1, <3>2, <3>3 DEF ResumeProposed, GivesUp
    <3>4. CASE ResumeExecuted(u)
      BY <1>0, <3>2, <3>4 DEF ResumeExecuted, GivesUp, StartCapture
    <3>5. CASE Ends(u)
      BY <1>0, <3>2, <3>5 DEF Ends
    <3>6. QED
      BY <2>4, <3>3, <3>4, <3>5 DEF Resume
  <2>5. CASE Recogniser(u)
    BY <1>0, <2>5 DEF Recogniser, RecogniserFails, RecogniserEnds
  <2>6. QED
    BY <1>1, <2>1, <2>2, <2>3, <2>4, <2>5 DEF Progress
<1>2. CASE Hold
  BY <1>0, <1>2 DEF Hold, Begin
<1>3. CASE Release
  BY <1>0, <1>3 DEF Release
<1>4. CASE Discard \/ Leave
  BY <1>0, <1>4 DEF Discard, Leave
<1>5. CASE \E k \in Calls : Refuse(k) \/ \E remember \in BOOLEAN : Grant(k, remember)
  BY <1>0, <1>5 DEF Refuse, Grant
<1>6. CASE Render \/ UNCHANGED dictationVars
  BY <1>0, <1>6 DEF Render, dictationVars, pageVars
<1>7. ASSUME NEW k \in Calls, Broker(k) \/ OtherClient(k)
      PROVE  PageTypeOK'
  BY <1>0, <1>7 DEF Broker, PageBrokerWorks, PageBrokerAnswers, PageBrokerErrs, PageAnswered, OtherClient, pageVars
<1>8. CASE PageBrokerRestarts
  BY <1>0, <1>8 DEF PageBrokerRestarts, PageAnswered
<1>9. QED
  BY <1>1, <1>2, <1>3, <1>4, <1>5, <1>6, <1>7, <1>8 DEF DictationNext, Person

-----------------------------------------------------------------------------
(* What the page shows and whom it hears. *)

(* Something will still change the phase, or clear the ref. *)
Working(u) == InFlight(u) \/ Recognising(u)

LEMMA HearsAndAsks ==
    DictationInv /\ [DictationNext]_dictationVars => NeverDeaf' /\ AskingIsInFlight'
<1> SUFFICES ASSUME DictationInv, [DictationNext]_dictationVars
             PROVE  NeverDeaf' /\ AskingIsInFlight'
  OBVIOUS
<1> USE DEF NeverDeaf, AskingIsInFlight
<1>0. /\ NeverDeaf /\ AskingIsInFlight
      /\ utterances \in [Utterances -> Utterance]
      /\ \A u \in Utterances : UtteranceConsistent(u)
      /\ {busy, alive} \subseteq BOOLEAN
  BY DEF DictationInv, DictationTypeOK
(* A step that keeps what is in flight or recognising, and sets neither.   *)
<1>a. ASSUME alive' => alive, busy' => busy, phase' = "authorising" => phase = "authorising",
             \A u \in Utterances : /\ InFlight(u) => InFlight(u)'
                                   /\ Recognising(u) => Recognising(u)'
      PROVE  NeverDeaf' /\ AskingIsInFlight'
  BY <1>0, <1>a
<1>1. ASSUME NEW u \in Utterances, Progress(u) \/ AnswerLost(u)
      PROVE  NeverDeaf' /\ AskingIsInFlight'
  <2>1. CASE \E k \in Calls, r \in RequestIds : SendPropose(u, k, r)
    BY <1>0, <1>a, <2>1 DEF SendPropose, InFlight, Recognising, Utterance
  <2>2. CASE \E k \in Calls : SendExecute(u, k)
    BY <1>0, <1>a, <2>2 DEF SendExecute, InFlight, Recognising, Utterance
  <2>3. CASE SendFails(u) \/ AnswerLost(u)
    <3> DEFINE new == AnswerIs(u, "undefined")
    <3>1. new.at \in {"proposed", "executed"} /\ new.recogniser = utterances[u].recogniser
      BY <1>0 DEF AnswerIs, AfterAnswer, Utterance
    <3>2. utterances' = [utterances EXCEPT ![u] = new] /\ UNCHANGED <<busy, phase, alive>>
      BY <2>3 DEF SendFails, AnswerLost
    <3> HIDE DEF new
    <3>3. \A v \in Utterances : /\ InFlight(v) => InFlight(v)'
                                /\ Recognising(v) => Recognising(v)'
      BY <1>0, <3>1, <3>2 DEF InFlight, Recognising
    <3>4. QED
      BY <1>a, <3>2, <3>3
  <2>4. CASE Resume(u)
    <3>1. CASE alive /\ Is(u, "proposed") /\ ResumeProposed(u)
      BY <1>0, <3>1 DEF ResumeProposed, GivesUp, Becomes, InFlight, Recognising, Utterance
    <3>2. CASE alive /\ Is(u, "executed") /\ ResumeExecuted(u)
      BY <1>0, <3>2 DEF ResumeExecuted, GivesUp, StartCapture, Becomes, InFlight, Recognising, Utterance
    <3>3. CASE ~alive
      BY <2>4, <3>3 DEF Resume
    <3>4. QED
      BY <2>4, <3>1, <3>2, <3>3 DEF Resume
  <2>5. QED
    BY <1>1, <2>1, <2>2, <2>3, <2>4 DEF Progress
<1>2. ASSUME NEW u \in Utterances, Recogniser(u)
      PROVE  NeverDeaf' /\ AskingIsInFlight'
  BY <1>0, <1>2 DEF Recogniser, RecogniserFails, RecogniserEnds, InFlight, Recognising, Utterance
<1>b. CloseCurrent => \A u \in Utterances : /\ InFlight(u) => InFlight(u)'
                                            /\ Recognising(u) => Recognising(u)'
  BY <1>0 DEF CloseCurrent, Open, InFlight, Recognising, Utterance, DictationInv, DictationTypeOK
<1>c. UNCHANGED utterances => \A u \in Utterances : /\ InFlight(u) => InFlight(u)'
                                                    /\ Recognising(u) => Recognising(u)'
  BY DEF InFlight, Recognising
<1>3. CASE Hold
  <2>1. CASE UNCHANGED <<utterances, busy, phase>>
    BY <1>2, <1>a, <1>c, <1>3, <2>1 DEF Hold
  <2>2. ASSUME NEW u \in Utterances, NEW c \in Contexts,
               utterances' = [utterances EXCEPT ![u] = [Silent EXCEPT !.at = "propose", !.context = c]]
        PROVE  NeverDeaf' /\ AskingIsInFlight'
    <3>1. InFlight(u)'
      BY <1>0, <2>2 DEF InFlight, Silent
    <3>2. QED
      BY <3>1
  <2>3. QED
    BY <1>3, <2>1, <2>2 DEF Hold, Begin
<1>4. CASE Release
  BY <1>a, <1>b, <1>c, <1>4 DEF Release
<1>5. CASE Discard \/ Leave
  BY <1>a, <1>b, <1>5 DEF Discard, Leave
<1>6. CASE \E k \in Calls : Refuse(k) \/ \E remember \in BOOLEAN : Grant(k, remember)
  <2>1. UNCHANGED <<utterances, busy, alive>> /\ phase' \in {phase, "idle"}
    BY <1>6 DEF Refuse, Grant
  <2>2. QED
    BY <1>a, <1>c, <2>1
<1>7. CASE Render \/ UNCHANGED dictationVars
  BY <1>a, <1>c, <1>7 DEF Render, dictationVars, pageVars
<1>8. ASSUME NEW served, NEW ok, PageAnswered(served, ok)
      PROVE  NeverDeaf' /\ AskingIsInFlight'
  <2>1. \A u \in Utterances : /\ InFlight(u) => InFlight(u)'
                              /\ Recognising(u) => Recognising(u)'
    BY <1>0, <1>8 DEF PageAnswered, AnswerIs, AfterAnswer, InFlight, Recognising, Utterance
  <2>2. QED
    BY <1>a, <1>8, <2>1 DEF PageAnswered
<1>9. CASE \E k \in Calls : Broker(k) \/ OtherClient(k)
  <2>1. CASE \E k \in Calls : PageBrokerAnswers(k) \/ PageBrokerErrs(k)
    <3>1. PICK k \in Calls : PageAnswered({k}, TRUE) \/ PageAnswered({k}, FALSE)
      BY <2>1, Zenon DEF PageBrokerAnswers, PageBrokerErrs
    <3>2. QED
      BY <1>8, <3>1, Zenon
  <2>2. CASE \E k \in Calls : PageBrokerWorks(k) \/ OtherClient(k)
    <3>1. UNCHANGED <<utterances, busy, phase, alive>>
      BY <2>2 DEF PageBrokerWorks, OtherClient, pageVars
    <3>2. QED
      BY <1>a, <1>c, <3>1
  <2>3. QED
    BY <1>9, <2>1, <2>2 DEF Broker
<1>10. CASE PageBrokerRestarts
  BY <1>8, <1>10 DEF PageBrokerRestarts
<1>11. QED
  BY <1>1, <1>2, <1>3, <1>4, <1>5, <1>6, <1>7, <1>9, <1>10 DEF DictationNext, Person

-----------------------------------------------------------------------------
(* The invariant. *)

LEMMA DictationInitially == DictationInit => DictationInv
<1> SUFFICES ASSUME DictationInit PROVE DictationInv
  OBVIOUS
<1> USE DEF DictationInit
<1>1. BrokerInv
  BY InvInit
<1>2. Silent \in Utterance
  BY DEF Silent, Utterance
<1>3. DictationTypeOK
  BY <1>1, <1>2 DEF DictationTypeOK, BrokerInv, Phases
<1>4. \A u \in Utterances : UtteranceConsistent(u)
  BY DEF UtteranceConsistent, Is, Recognised, ExecutedOnRecord, Silent
<1>5. OwnRequests
  BY DEF OwnRequests, Silent
<1>6. NeverDeaf /\ AskingIsInFlight
  BY DEF NeverDeaf, AskingIsInFlight
<1>7. QED
  BY <1>1, <1>3, <1>4, <1>5, <1>6 DEF DictationInv

LEMMA DictationStep == DictationInv /\ [DictationNext]_dictationVars => DictationInv'
<1> SUFFICES ASSUME DictationInv, [DictationNext]_dictationVars PROVE DictationInv'
  OBVIOUS
<1>1. BrokerInv'
  BY BrokerStepOfPage, InvStep DEF DictationInv
<1>2. UtterancesInv' /\ PageTypeOK' /\ NeverDeaf' /\ AskingIsInFlight'
  BY UtterancesStep, PageTypeStep, HearsAndAsks
<1>3. DictationTypeOK'
  BY <1>1, <1>2 DEF DictationTypeOK, BrokerInv, UtterancesInv, PageTypeOK
<1>4. QED
  BY <1>1, <1>2, <1>3 DEF DictationInv, UtterancesInv

-----------------------------------------------------------------------------
(* Theorems. *)

(* The broker's invariant, the types of the page, and that the call which  *)
(* serves an utterance is disturbed by no one, whatever is held, released, *)
(* refused, lost or restarted (useDictation.ts).                           *)
THEOREM DictationInvariant == DictationSpec => []DictationInv
BY DictationInitially, DictationStep, PTL DEF DictationSpec

(* The state of the page is always what its types say. *)
THEOREM DictationTypes == DictationSpec => []DictationTypeOK
BY DictationInvariant, PTL DEF DictationInv

(* Every step of the page is a step of the broker's own specification or   *)
(* leaves the broker alone.                                                *)
THEOREM PageRefinesBroker == DictationSpec => PageOnlyCalls
<1>1. DictationInit => Init
  BY DEF DictationInit
<1>2. QED
  BY <1>1, BrokerStepOfPage, DictationInvariant, PTL DEF DictationSpec, PageOnlyCalls, Spec

(* Through either client the broker is still a consent gate: an action     *)
(* starts only once it was granted, and never after it was refused.        *)
THEOREM ClientsKeepTheGate == RelaySpec \/ DictationSpec => ImplementsConsentGate
BY SystemRefinesBroker, PageRefinesBroker, BrokerImplementsConsentGate
   DEF ClientsOnlyCall, PageOnlyCalls

(* Neither do a relay and its answers, or the talk key and the permission  *)
(* list, let a revoked grant run or a remembered answer pass the taint.    *)
THEOREM ClientsLaunderNothing ==
    RelaySpec \/ DictationSpec => RevokedGrantNeverRuns /\ NoLaunderedGrant
BY SystemRefinesBroker, PageRefinesBroker, RevokedGrantsNeverRun, NoGrantIsLaundered
   DEF ClientsOnlyCall, PageOnlyCalls

(* No microphone was ever opened without a request of its own whose        *)
(* execution is in the audit log (SECURITY.md: "allowed-and-executed").    *)
THEOREM MicrophoneIsAuthorised == DictationSpec => []CapturesAuthorised
<1>1. DictationInv => CapturesAuthorised
  BY DEF DictationInv, UtteranceConsistent, ExecutedOnRecord, OwnRequests, CapturesAuthorised
<1>2. QED
  BY <1>1, DictationInvariant, PTL

(* Holds are turned away only while something is under way that will end,  *)
(* and the page says it is asking only while it is.                        *)
THEOREM PageHears == DictationSpec => [](NeverDeaf /\ AskingIsInFlight)
BY DictationInvariant, PTL DEF DictationInv

LEMMA OpeningStep ==
    DictationInv /\ [DictationNext]_dictationVars =>
        \A u \in Utterances : Opens(u) => alive
<1> SUFFICES ASSUME DictationInv, [DictationNext]_dictationVars, ~alive,
                    NEW w \in Utterances
             PROVE  ~Opens(w)
  OBVIOUS
<1> USE DEF Opens, Open
<1>0. utterances \in [Utterances -> Utterance]
  BY DEF DictationInv, DictationTypeOK
<1>1. ASSUME NEW u \in Utterances, Progress(u) \/ AnswerLost(u) \/ Recogniser(u)
      PROVE  ~Opens(w)
  <2>1. CASE \E k \in Calls, r \in RequestIds : SendPropose(u, k, r)
    BY <1>0, <2>1 DEF SendPropose, Utterance
  <2>2. CASE \E k \in Calls : SendExecute(u, k)
    BY <1>0, <2>2 DEF SendExecute, Utterance
  <2>3. CASE SendFails(u) \/ AnswerLost(u)
    <3>1. AnswerIs(u, "undefined").recogniser = utterances[u].recogniser
      BY <1>0 DEF AnswerIs, Utterance
    <3>2. utterances' = [utterances EXCEPT ![u] = AnswerIs(u, "undefined")]
      BY <2>3 DEF SendFails, AnswerLost
    <3>3. QED
      BY <1>0, <3>1, <3>2
  <2>4. CASE Resume(u)
    BY <1>0, <2>4 DEF Resume, Ends, Becomes, Utterance
  <2>5. CASE Recogniser(u)
    BY <1>0, <2>5 DEF Recogniser, RecogniserFails, RecogniserEnds, Utterance
  <2>6. QED
    BY <1>1, <2>1, <2>2, <2>3, <2>4, <2>5 DEF Progress
<1>2. CASE Person
  <2>1. UNCHANGED utterances
    BY <1>2 DEF Person, Hold, Release, Discard, Leave, Refuse, Grant, Prompted
  <2>2. QED
    BY <2>1
<1>3. ASSUME NEW served, NEW ok, PageAnswered(served, ok)
      PROVE  ~Opens(w)
  BY <1>0, <1>3 DEF PageAnswered, AnswerIs, Utterance
<1>4. CASE \E k \in Calls : PageBrokerAnswers(k) \/ PageBrokerErrs(k)
  BY <1>3, <1>4 DEF PageBrokerAnswers, PageBrokerErrs
<1>5. CASE PageBrokerRestarts
  BY <1>3, <1>5 DEF PageBrokerRestarts
<1>6. CASE \/ Render \/ UNCHANGED dictationVars
           \/ \E k \in Calls : PageBrokerWorks(k) \/ OtherClient(k)
  <2>1. UNCHANGED utterances
    BY <1>6 DEF Render, dictationVars, pageVars, PageBrokerWorks, OtherClient
  <2>2. QED
    BY <2>1
<1>7. QED
  BY <1>1, <1>2, <1>4, <1>5, <1>6 DEF DictationNext, Broker

(* A surface that is gone opens no microphone, whatever the broker answers *)
(* afterwards (the alive checks of begin()).                               *)
THEOREM NoMicrophoneAfterLeaving == DictationSpec => NoCaptureAfterLeaving
BY OpeningStep, DictationInvariant, PTL DEF DictationSpec, NoCaptureAfterLeaving
=============================================================================
