-------------------------- MODULE PermissionBroker --------------------------
(***************************************************************************)
(* services/permission-broker: the PermissionBroker class (broker.ts), its *)
(* RelayLedger (relay.ts), the policy file and the audit log.              *)
(*                                                                         *)
(* The broker is one Node process.  Code between two awaits is atomic; the *)
(* calls it serves interleave at their awaits.  calls[k] is one HTTP call  *)
(* in flight and `at` is the await it is suspended in:                     *)
(*   acting   executeAction() of execute()                                 *)
(*   mkdir    mkdir() of #persistPolicies()                                *)
(*   open     writeFile() called, the file not yet truncated               *)
(*   write    the file truncated, the text not yet written                 *)
(*   audit    audit.append(), with `phase` the record it appends           *)
(* A call that only reads, or is refused with no effect, is not a step.    *)
(***************************************************************************)
EXTENDS PolicyRules, Naturals, FiniteSets

CONSTANTS
    RequestIds,      \* ids newId('req') can issue; never issued twice
    NoRequest,       \* NO_REQUEST of audit.ts; also an id not in the map
    Relay,           \* the capability "agent.relay"
    Calls,           \* the calls in flight at once (bound)
    KeptPhases,      \* the audit phases whose rows are kept in `audit` (bound)
    StoredPolicies,  \* policy files found at the first start
    MaxRestarts,     \* restarts explored (bound)
    DiskMayFail      \* whether a file operation of a call may throw

ASSUME RelayAssumption ==
    Relay \in Capabilities => DefaultPolicy[Relay] = "deny"
ASSUME StoredPoliciesAssumption ==
    /\ StoredPolicies \subseteq SUBSET Answer
    /\ \A table \in StoredPolicies : OneAnswerPerScope(table)
ASSUME BoundsAssumption ==
    /\ MaxRestarts \in Nat
    /\ DiskMayFail \in BOOLEAN
    /\ IsFiniteSet(Calls)

VARIABLES
    remembered,   \* #remembered
    requests,     \* #requests: id -> request, or NoRequest when not in the map
    relays,       \* #relays: the contexts RelayLedger holds
    policyFile,   \* what load() would read from the policy file: a file that is
                  \* missing, empty or does not parse holds no answers
    audit,        \* the rows of the audit log on disk
    calls,        \* the calls in flight
    issued,       \* history: the ids issued so far
    runs,         \* history: how often each request's action was started
    relayed,      \* history: <<id, context>> of every relay that ran
    restarts      \* restarts so far

brokerVars == <<remembered, requests, relays>>
history == <<issued, runs, relayed, restarts>>
vars == <<brokerVars, policyFile, audit, calls, history>>

Statuses == {"pending", "allowed", "denied", "executed", "failed", "cancelled"}
Request == [capability : Capabilities, context : Contexts,
            status : Statuses, userDecided : BOOLEAN]
ASSUME NoRequestAssumption == NoRequest \notin RequestIds /\ NoRequest \notin Request

AuditPhases == {"proposed", "auto-allowed", "auto-denied", "decided",
                "executed", "failed", "cancelled", "revoked"}
AuditRow == [request : RequestIds \union {NoRequest}, phase : AuditPhases]
Awaits == {"acting", "mkdir", "open", "write", "audit"}
Call == [at : Awaits \union {"idle"}, request : RequestIds \union {NoRequest},
         phase : AuditPhases \union {"none"}, table : SUBSET Answer]

TypeOK ==
    /\ remembered \subseteq Answer
    /\ requests \in [RequestIds -> Request \union {NoRequest}]
    /\ relays \subseteq Contexts
    /\ policyFile \subseteq Answer
    /\ audit \subseteq AuditRow
    /\ calls \in [Calls -> Call]
    /\ issued \subseteq RequestIds
    /\ runs \in [RequestIds -> Nat]
    /\ relayed \subseteq RequestIds \X Contexts
    /\ restarts \in Nat

-----------------------------------------------------------------------------
(* Policy. *)

Tainted(c) == c \in relays

(* Mutant: the taint is forgotten. *)
EffectivePolicyNoTaint(cap, c) == ResolvePolicy(remembered, cap, c).decision

(* effectivePolicy: after a relay into the context a remembered `allow`    *)
(* falls back to `ask`; a deny and a default stand.                        *)
EffectivePolicy(cap, c) ==
    LET resolved == ResolvePolicy(remembered, cap, c)
    IN  IF Tainted(c) /\ resolved.decision = "allow" /\ resolved.source # "default"
        THEN "ask"
        ELSE resolved.decision

-----------------------------------------------------------------------------
(* Calls. *)

Idle == [at |-> "idle", request |-> NoRequest, phase |-> "none", table |-> {}]

IsIdle(k) == calls[k].at = "idle"

(* Call k, serving request r, goes to sleep in await `at`; `phase` is the  *)
(* audit row it will append.                                               *)
Suspend(k, at, r, phase) ==
    calls' = [calls EXCEPT ![k] =
                [at |-> at, request |-> r, phase |-> phase, table |-> {}]]

Known(r) == requests[r] # NoRequest
Status(r) == requests[r].status

(* Mutants: a settled request can be answered or run again. *)
DecidableUntilRun(r) == Known(r) /\ Status(r) # "executed"
ExecutableUntilDenied(r) == Known(r) /\ Status(r) \in {"allowed", "executed"}

(* What decide(), execute() and cancel() ask of the request. *)
Decidable(r) == Known(r) /\ Status(r) = "pending"
Executable(r) == Known(r) /\ Status(r) = "allowed"
Cancellable(r) == Known(r) /\ Status(r) # "executed"

SetStatus(r, status) == requests' = [requests EXCEPT ![r].status = status]

-----------------------------------------------------------------------------
(* Phase 2: propose, decide, cancel. *)

StatusFor(policy) ==
    CASE policy = "allow" -> "allowed"
      [] policy = "deny" -> "denied"
      [] OTHER -> "pending"

(* Mutant: the row does not say what became of the proposal. *)
BirthPhaseProposed(status) == "proposed"

BirthPhase(status) ==
    CASE status = "allowed" -> "auto-allowed"
      [] status = "denied" -> "auto-denied"
      [] OTHER -> "proposed"

(* Mutant: the structural rule is left to the policy. *)
RelayRefusedNever(cap, c) == FALSE

(* RelayLedger.refuse: a context that received a relay starts no other. *)
RelayRefused(cap, c) == cap = Relay /\ c \in relays

Propose(k, r, cap, c) ==
    LET status == StatusFor(EffectivePolicy(cap, c))
    IN  /\ IsIdle(k)
        /\ r \notin issued
        /\ ~RelayRefused(cap, c)
        /\ issued' = issued \union {r}
        /\ requests' = [requests EXCEPT ![r] =
                [capability |-> cap, context |-> c,
                 status |-> status, userDecided |-> FALSE]]
        /\ Suspend(k, "audit", r, BirthPhase(status))
        /\ UNCHANGED <<remembered, relays, policyFile, audit, runs, relayed, restarts>>

AnswerFor(r, decision, global) ==
    [capability |-> requests[r].capability,
     scope |-> IF global THEN Global ELSE requests[r].context,
     decision |-> decision]

(* decide: the request is settled, and a remembered answer is in the table *)
(* before the first await.                                                 *)
Decide(k, r, decision, remember, global) ==
    /\ IsIdle(k)
    /\ Decidable(r)
    /\ requests' = [requests EXCEPT
            ![r].status = IF decision = "allow" THEN "allowed" ELSE "denied",
            ![r].userDecided = TRUE]
    /\ \/ /\ remember
          /\ remembered' = Remember(remembered, AnswerFor(r, decision, global))
          /\ Suspend(k, "mkdir", r, "decided")
       \/ /\ ~remember
          /\ Suspend(k, "audit", r, "decided")
          /\ UNCHANGED remembered
    /\ UNCHANGED <<relays, policyFile, audit, history>>

Cancel(k, r) ==
    /\ IsIdle(k)
    /\ Cancellable(r)
    /\ SetStatus(r, "cancelled")
    /\ Suspend(k, "audit", r, "cancelled")
    /\ UNCHANGED <<remembered, relays, policyFile, audit, history>>

-----------------------------------------------------------------------------
(* Phase 3: execute.  The policy is read again before the action starts;   *)
(* nothing is read again when it ends.                                     *)

(* Mutants: one of the two reasons is not looked at. *)
TurnedDownOnRevocation(r) ==
    /\ ~requests[r].userDecided
    /\ EffectivePolicy(requests[r].capability, requests[r].context) # "allow"
TurnedDownOnDeny(r) ==
    EffectivePolicy(requests[r].capability, requests[r].context) = "deny"

(* Why execute() turns an allowed request down: a deny has been recorded,  *)
(* or the standing grant that allowed it without the user is gone.         *)
TurnedDown(r) ==
    LET current == EffectivePolicy(requests[r].capability, requests[r].context)
    IN  \/ current = "deny"
        \/ ~requests[r].userDecided /\ current # "allow"

ExecuteTurnedDown(k, r) ==
    /\ IsIdle(k)
    /\ Executable(r)
    /\ TurnedDown(r)
    /\ SetStatus(r, "denied")
    /\ Suspend(k, "audit", r, "auto-denied")
    /\ UNCHANGED <<remembered, relays, policyFile, audit, history>>

ExecuteStart(k, r) ==
    /\ IsIdle(k)
    /\ Executable(r)
    /\ ~TurnedDown(r)
    /\ runs' = [runs EXCEPT ![r] = @ + 1]
    /\ Suspend(k, "acting", r, "none")
    /\ UNCHANGED <<brokerVars, policyFile, audit, issued, relayed, restarts>>

(* Mutant: a request that was cancelled meanwhile stays cancelled. *)
ActionDoneUnlessCancelled(k, succeeded) ==
    LET r == calls[k].request
        c == requests[r].context
        status == IF succeeded THEN "executed" ELSE "failed"
        hop == succeeded /\ requests[r].capability = Relay
    IN  /\ calls[k].at = "acting"
        /\ relays' = IF hop THEN relays \union {c} ELSE relays
        /\ relayed' = IF hop THEN relayed \union {<<r, c>>} ELSE relayed
        /\ SetStatus(r, IF Status(r) = "cancelled" THEN "cancelled" ELSE status)
        /\ Suspend(k, "audit", r, status)
        /\ UNCHANGED <<remembered, policyFile, audit, issued, runs, restarts>>

(* The rest of execute() once executeAction has resolved with `succeeded`. *)
ActionDone(k, succeeded) ==
    LET r == calls[k].request
        c == requests[r].context
        status == IF succeeded THEN "executed" ELSE "failed"
        hop == succeeded /\ requests[r].capability = Relay
    IN  /\ calls[k].at = "acting"
        /\ relays' = IF hop THEN relays \union {c} ELSE relays
        /\ relayed' = IF hop THEN relayed \union {<<r, c>>} ELSE relayed
        /\ SetStatus(r, status)
        /\ Suspend(k, "audit", r, status)
        /\ UNCHANGED <<remembered, policyFile, audit, issued, runs, restarts>>

-----------------------------------------------------------------------------
(* Withdrawing grants, the policy file, the audit log. *)

(* The filter of revoke(): "any" leaves a field out.  Both left out is     *)
(* all:true; a call with no filter at all is refused.                      *)
Matches(e, cap, scope) ==
    /\ cap = "any" \/ e.capability = cap
    /\ scope = "any" \/ e.scope = scope

Revoke(k, cap, scope) ==
    /\ IsIdle(k)
    /\ \E e \in remembered : Matches(e, cap, scope)
    /\ remembered' = {e \in remembered : ~Matches(e, cap, scope)}
    /\ Suspend(k, "mkdir", NoRequest, "revoked")
    /\ UNCHANGED <<requests, relays, policyFile, audit, history>>

(* mkdir has resolved: writeFile is called on the table as it is now. *)
SnapshotPolicies(k) ==
    /\ calls[k].at = "mkdir"
    /\ calls' = [calls EXCEPT ![k].at = "open", ![k].table = remembered]
    /\ UNCHANGED <<brokerVars, policyFile, audit, history>>

(* writeFile opens with the "w" flag, which empties the file. *)
TruncateFile(k) ==
    /\ calls[k].at = "open"
    /\ policyFile' = {}
    /\ calls' = [calls EXCEPT ![k].at = "write"]
    /\ UNCHANGED <<brokerVars, audit, history>>

(* What writing `table` from the start leaves of `file`: another writer's  *)
(* text, if longer, keeps its tail and the file no longer parses.          *)
Written(file, table) == IF file \in {{}, table} THEN {table} ELSE {table, {}}

WriteFile(k) ==
    /\ calls[k].at = "write"
    /\ policyFile' \in Written(policyFile, calls[k].table)
    /\ Suspend(k, "audit", calls[k].request, calls[k].phase)
    /\ UNCHANGED <<brokerVars, audit, history>>

(* Mutant: the row is lost when the log is written. *)
AppendAuditLost(k) ==
    /\ calls[k].at = "audit"
    /\ calls' = [calls EXCEPT ![k] = Idle]
    /\ UNCHANGED <<brokerVars, policyFile, audit, history>>

(* audit.append has resolved and the call is answered.  revoke() appends   *)
(* one row an entry, one after the other; they are one row here.           *)
AppendAudit(k) ==
    /\ calls[k].at = "audit"
    /\ audit' = IF calls[k].phase \in KeptPhases
                THEN audit \union {[request |-> calls[k].request, phase |-> calls[k].phase]}
                ELSE audit
    /\ calls' = [calls EXCEPT ![k] = Idle]
    /\ UNCHANGED <<brokerVars, policyFile, history>>

(* A file operation throws: the call is answered with an error and what it *)
(* changed in memory stays changed.                                        *)
CallFails(k) ==
    /\ DiskMayFail
    /\ calls[k].at \in {"mkdir", "open", "write", "audit"}
    /\ policyFile' \in IF calls[k].at = "write" THEN {policyFile, {}} ELSE {policyFile}
    /\ calls' = [calls EXCEPT ![k] = Idle]
    /\ UNCHANGED <<brokerVars, audit, history>>

-----------------------------------------------------------------------------
(* The process dies at any point and main.ts starts it again: the map and  *)
(* the ledger are empty, the table is what load() reads.                   *)
Restart ==
    /\ restarts < MaxRestarts
    /\ restarts' = restarts + 1
    /\ remembered' = policyFile
    /\ requests' = [r \in RequestIds |-> NoRequest]
    /\ relays' = {}
    /\ calls' = [k \in Calls |-> Idle]
    /\ UNCHANGED <<policyFile, audit, issued, runs, relayed>>

Init ==
    /\ policyFile \in StoredPolicies
    /\ remembered = policyFile
    /\ requests = [r \in RequestIds |-> NoRequest]
    /\ relays = {}
    /\ audit = {}
    /\ calls = [k \in Calls |-> Idle]
    /\ issued = {}
    /\ runs = [r \in RequestIds |-> 0]
    /\ relayed = {}
    /\ restarts = 0

(* Call k continues from the await it sleeps in. *)
Continue(k) ==
    \/ \E succeeded \in BOOLEAN : ActionDone(k, succeeded)
    \/ SnapshotPolicies(k)
    \/ TruncateFile(k)
    \/ WriteFile(k)
    \/ AppendAudit(k)

(* A client's call arrives and runs up to its first await. *)
Arrive(k) ==
    \/ \E r \in RequestIds, cap \in Capabilities, c \in Contexts : Propose(k, r, cap, c)
    \/ \E r \in RequestIds, decision \in Decisions, remember, global \in BOOLEAN :
            Decide(k, r, decision, remember, global)
    \/ \E r \in RequestIds : Cancel(k, r) \/ ExecuteTurnedDown(k, r) \/ ExecuteStart(k, r)
    \/ \E cap \in Capabilities \union {"any"}, scope \in Scopes \union {"any"} :
            Revoke(k, cap, scope)

Next ==
    \/ \E k \in Calls : Arrive(k) \/ Continue(k) \/ CallFails(k)
    \/ Restart

Spec == Init /\ [][Next]_vars

(* Node resumes a call whose await has resolved, and every file operation  *)
(* and action of the broker resolves.                                      *)
Fairness == \A k \in Calls : WF_vars(Continue(k))

FairSpec == Spec /\ Fairness

-----------------------------------------------------------------------------
(* Properties. *)

(* The answers that concern request r: its own context's, and the global   *)
(* ones.                                                                   *)
OwnAnswers(r) == AnswersAt(remembered, requests[r].capability, requests[r].context)
GlobalAnswers(r) == AnswersAt(remembered, requests[r].capability, Global)
Default(r) == DefaultPolicy[requests[r].capability]

Starts(r) == runs'[r] > runs[r]

(* The relays that ran into context c since the broker started. *)
RelaysInto(c) == {x \in relayed : x[2] = c /\ Known(x[1])}

(* Logged(r, phase): the row is on disk, or the call that appends it is    *)
(* still in flight.                                                        *)
Logged(r, phase) ==
    \/ [request |-> r, phase |-> phase] \in audit
    \/ \E k \in Calls : calls[k].request = r /\ calls[k].phase = phase

(* The runs of r's action that are in flight. *)
ActingOn(r) == {k \in Calls : calls[k].at = "acting" /\ calls[k].request = r}
Acting(r) == ActingOn(r) # {}

(* broker.ts "A remembered decision replaces any previous one at the same  *)
(* scope": two answers would make find() depend on the list's order, also  *)
(* after a restart on whatever the policy file then holds.                 *)
UniqueAnswers == OneAnswerPerScope(remembered)

(* agent.relay is denied by default and a context that received a relay    *)
(* may not propose another, so a relay is never put to the user: not even  *)
(* in the tainted contexts, where every other remembered allow falls back  *)
(* to asking.                                                              *)
RelayNeverAsked ==
    \A r \in RequestIds :
        Known(r) /\ requests[r].capability = Relay =>
            Status(r) # "pending" /\ ~requests[r].userDecided

(* "The audit trail always contains both steps" (propose): an action that  *)
(* was started was granted on the record, and one that has ended has its   *)
(* outcome on the record, whatever calls overlapped with it.               *)
BothStepsLogged ==
    \A r \in RequestIds :
        Known(r) /\ runs[r] > 0 =>
            /\ Logged(r, "auto-allowed") \/ Logged(r, "decided")
            /\ Acting(r) \/ Logged(r, "executed") \/ Logged(r, "failed")

(* "`once` is consumed by the next execute()" (DecisionInput): however     *)
(* often execute is called, a request's action runs at most once.  The     *)
(* broker does not see to it (MCBrokerRunsTwice.cfg).                      *)
RunsOnce == \A r \in RequestIds : runs[r] <= 1

(* What is left of it when calls overlap: an action is started again only  *)
(* while every earlier run of it is still awaited.  What has ended, well   *)
(* or badly, is never retried on the same answer.                          *)
EndedNeverRunsAgain ==
    [][\A r \in RequestIds : Starts(r) => runs[r] = Cardinality(ActingOn(r))]_vars

(* cancel "Cancels a request that has not executed" and decides that by    *)
(* the status, which says `allowed` while the action is awaited; a deny    *)
(* found by a second execute() settles the request meanwhile too.  Neither *)
(* hides that the action ran: when the last run has ended, the request     *)
(* tells its outcome, and `executed` stays, as does a cancel of a request  *)
(* with no run in flight.                                                  *)
OutcomeIsNotHidden ==
    [][\A r \in RequestIds : Known(r) /\ Known(r)' =>
        /\ Acting(r) /\ ~Acting(r)' => Status(r)' \in {"executed", "failed"}
        /\ ~Acting(r) /\ Status(r) \in {"executed", "cancelled"} =>
                requests'[r] = requests[r]]_vars

(* "ONE HOP" (relay.ts): no relay starts in a context that one has run     *)
(* into since the broker started, whenever it was proposed or allowed.     *)
(* (Two that run together are not kept apart: the ledger learns of a relay *)
(* when it has ended.)                                                     *)
NoHopAfterHop ==
    [][\A r \in RequestIds : Starts(r) /\ requests[r].capability = Relay =>
        RelaysInto(requests[r].context) = {}]_vars

(* A "deny and remember recorded between the decision and the execution    *)
(* must win" (execute), at any scope, and a capability denied by default   *)
(* never starts without a remembered allow.                                *)
DenyWins ==
    [][\A r \in RequestIds : Starts(r) =>
        /\ \A e \in OwnAnswers(r) : e.decision = "allow"
        /\ OwnAnswers(r) = {} => \A e \in GlobalAnswers(r) : e.decision = "allow"
        /\ Default(r) = "deny" => OwnAnswers(r) \union GlobalAnswers(r) # {}]_vars

(* An action the user was not asked about starts only while an answer that *)
(* allows it, or the default, is in force: a grant withdrawn between       *)
(* proposal and execution authorises nothing.                              *)
RevokedGrantNeverRuns ==
    [][\A r \in RequestIds : Starts(r) /\ ~requests[r].userDecided =>
        \/ Default(r) = "allow"
        \/ \E e \in OwnAnswers(r) \union GlobalAnswers(r) : e.decision = "allow"]_vars

(* "After a relay, remembered grants stop resolving in that context"       *)
(* (effectivePolicy): once a relay ran into a context, nothing starts      *)
(* there on a remembered grant, not even what was proposed before it.      *)
NoLaunderedGrant ==
    [][\A r \in RequestIds :
        Starts(r) /\ RelaysInto(requests[r].context) # {} =>
            requests[r].userDecided \/ Default(r) = "allow"]_vars

(* The same over restarts, which relay.ts says it needs no record for:     *)
(* "a restart is a fresh set of grants anyway".                            *)
NoLaunderedGrantAfterRestart ==
    [][\A r \in RequestIds :
        Starts(r) /\ (\E x \in relayed : x[2] = requests[r].context) =>
            requests[r].userDecided \/ Default(r) = "allow"]_vars

(* Every action that was started ends up in the audit log on disk with its *)
(* outcome, unless the broker dies first.                                  *)
OutcomeReachesAuditLog ==
    \A r \in RequestIds :
        runs[r] > 0 ~>
            \/ ~Known(r)
            \/ \E phase \in {"executed", "failed"} : [request |-> r, phase |-> phase] \in audit

(* What the invariants above need to be inductive. *)

(* A call serves what it says: an executing one a known request whose      *)
(* action was started, any other suspended one has an audit row to append. *)
CallsConsistent ==
    \A k \in Calls :
        /\ calls[k].at = "acting" =>
            calls[k].request \in RequestIds /\ Known(calls[k].request)
                /\ runs[calls[k].request] > 0
        /\ calls[k].at \in Awaits \ {"acting"} => calls[k].phase \in AuditPhases

(* The table, the file and every snapshot still to be written. *)
TablesUnique ==
    /\ OneAnswerPerScope(remembered)
    /\ OneAnswerPerScope(policyFile)
    /\ \A k \in Calls : OneAnswerPerScope(calls[k].table)

(* Ids are used once, a pending action has not run, an ended one has. *)
HistoryConsistent ==
    /\ \A r \in RequestIds :
        /\ r \notin issued => ~Known(r) /\ runs[r] = 0
        /\ Known(r) /\ Status(r) = "pending" => runs[r] = 0
        /\ Known(r) /\ Status(r) \in {"executed", "failed"} => runs[r] > 0
    /\ \A x \in relayed : x[1] \in issued

(* A relay that ran since the start is in the ledger. *)
RelaysRecorded == \A c \in Contexts : RelaysInto(c) # {} => Tainted(c)

BrokerInv ==
    /\ TypeOK
    /\ CallsConsistent
    /\ TablesUnique
    /\ HistoryConsistent
    /\ RelaysRecorded
    /\ RelayNeverAsked

(* Every run of a request that is still `allowed` is in flight.            *)
RunsInv ==
    \A r \in RequestIds :
        Known(r) /\ Status(r) = "allowed" => runs[r] = Cardinality(ActingOn(r))

(* What is granted is granted on the record, and no row is forgotten       *)
(* between the step it tells of and the log.                               *)
LogInv ==
    /\ \A k \in Calls : calls[k].at \in {"idle", "acting"} => calls[k].phase = "none"
    /\ \A r \in RequestIds : Known(r) /\ Status(r) = "allowed" =>
            Logged(r, "auto-allowed") \/ Logged(r, "decided")
    /\ BothStepsLogged

(* The phase of the consent gate each request id is in. *)
GatePhase ==
    [r \in RequestIds |->
        CASE r \notin issued -> "absent"
          [] r \in issued /\ ~Known(r) -> "gone"
          [] Known(r) /\ runs[r] > 0 -> "started"
          [] Known(r) /\ runs[r] = 0 /\ Status(r) = "pending" -> "asked"
          [] Known(r) /\ runs[r] = 0 /\ Status(r) = "allowed" -> "granted"
          [] OTHER -> "refused"]

Gate == INSTANCE ConsentGate WITH phase <- GatePhase

(* The broker implements the consent gate: nothing starts that was not     *)
(* granted; what was refused, cancelled or forgotten in a restart never    *)
(* starts.                                                                 *)
ImplementsConsentGate == Gate!Spec
=============================================================================
