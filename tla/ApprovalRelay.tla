---------------------------- MODULE ApprovalRelay ----------------------------
(***************************************************************************)
(* services/agent-bridge/src/approval-relay.ts: an approval that OpenClaw  *)
(* blocks on, carried through the permission broker.                       *)
(*                                                                         *)
(* Four processes: the OpenClaw gateway (gateway), the bridge's relay loop *)
(* (approvals), the broker (PermissionBroker, every step of it), and the   *)
(* shell, which posts the user's answers straight to the broker and, when  *)
(* an allow has been recorded, asks the broker to execute the request      *)
(* (answering, executeNext).  The bridge and the shell share nothing but   *)
(* the broker.                                                             *)
(***************************************************************************)
EXTENDS PermissionBroker

CONSTANTS
    Approvals,       \* the externalIds of the gateway; each runs in its own loop
    ApprovalContext, \* the context of the agent run they belong to
    NeverRelay       \* NEVER_RELAY

ASSUME ApprovalContextAssumption == ApprovalContext \in Contexts
ASSUME NeverRelayAssumption == NeverRelay \subseteq Capabilities

VARIABLES
    approvals,    \* relayApproval(), one loop for each approval
    gateway,      \* what OpenClaw does about each approval
    answering,    \* the calls in flight that carry an allow from the shell
    executeNext,  \* the requests the shell will ask the broker to execute
    granted       \* history: the requests that have been in status "allowed"

relayVars == <<approvals, gateway, answering, executeNext>>
systemVars == <<vars, relayVars, granted>>

(* Where the loop is suspended: about to propose, in propose(), about to   *)
(* compare the clock with the deadline, in status(), about to tell the     *)
(* gateway.                                                                *)
RelayAwaits == {"absent", "propose", "proposing", "check", "asking", "settle", "done"}
NoDecision == "none"

(* What a status() call brings back; undefined stands for an unknown       *)
(* request, an unreachable broker and an unreadable answer alike.          *)
Seen == Statuses \union {"undefined"}

(* `call` and `seen` are what the answer of the broker will be matched     *)
(* with; `expired` says the clock has passed the deadline.                 *)
Approval == [at : RelayAwaits, capability : Capabilities \union {"none"},
             request : RequestIds \union {NoRequest}, calls : SUBSET Calls,
             seen : Seen, expired : BOOLEAN, decision : Decisions \union {NoDecision}]

NewApproval == [at |-> "absent", capability |-> "none", request |-> NoRequest,
                calls |-> {}, seen |-> "undefined", expired |-> FALSE,
                decision |-> NoDecision]

RelayTypeOK ==
    /\ TypeOK
    /\ approvals \in [Approvals -> Approval]
    /\ gateway \in [Approvals -> {"idle", "blocked", "performed", "refused"}]
    /\ answering \subseteq Calls
    /\ executeNext \subseteq RequestIds \union {NoRequest}
    /\ granted \subseteq RequestIds

-----------------------------------------------------------------------------
(* The relay loop. *)

At(a, at) == approvals[a].at = at

(* Loop a goes on to `at`; a decision moves it to telling the gateway. *)
GoTo(a, at) == approvals' = [approvals EXCEPT ![a].at = at]
Settle(a, decision) ==
    approvals' = [approvals EXCEPT ![a].at = "settle", ![a].decision = decision]

(* preDecide: refuse without asking anyone.  The bridge reads the default  *)
(* policies only; a policy() call that fails reads as deny.                *)
PreDenied(cap, policy) == cap \in NeverRelay \/ policy = "deny"

(* exec.approval.requested arrives and the agent run starts a relay. *)
Raise(a, cap) ==
    /\ At(a, "absent")
    /\ gateway' = [gateway EXCEPT ![a] = "blocked"]
    /\ \E policy \in {DefaultPolicy[cap], "deny"} :
        approvals' = [approvals EXCEPT ![a] =
            IF PreDenied(cap, policy)
            THEN [NewApproval EXCEPT !.at = "settle", !.capability = cap, !.decision = "deny"]
            ELSE [NewApproval EXCEPT !.at = "propose", !.capability = cap]]
    /\ UNCHANGED <<vars, answering, executeNext>>

(* propose(): the broker serves it as call k. *)
RelayPropose(a, k, r) ==
    /\ At(a, "propose")
    /\ Propose(k, r, approvals[a].capability, ApprovalContext)
    /\ approvals' = [approvals EXCEPT ![a].at = "proposing", ![a].request = r, ![a].calls = {k}]
    /\ UNCHANGED <<gateway, answering, executeNext>>

(* The broker cannot be reached, or its answer is lost on the way: an      *)
(* error, whatever the broker did with the proposal.                       *)
ProposeFails(a) ==
    /\ At(a, "propose") \/ At(a, "proposing")
    /\ approvals' = [approvals EXCEPT
            ![a].at = "settle", ![a].decision = "deny", ![a].calls = {}]
    /\ UNCHANGED <<vars, gateway, answering, executeNext>>

(* Mutant: the loop has no deadline. *)
AskStatusForever(a) ==
    LET r == approvals[a].request
    IN  /\ At(a, "check")
        /\ \E seen \in {IF Known(r) THEN Status(r) ELSE "undefined", "undefined"} :
            approvals' = [approvals EXCEPT ![a].at = "asking", ![a].seen = seen]
        /\ UNCHANGED <<vars, gateway, answering, executeNext>>

(* now() < deadline: ask the broker for the status.  The answer is what    *)
(* the broker holds when it serves the call, which changes nothing there.  *)
AskStatus(a) ==
    LET r == approvals[a].request
    IN  /\ At(a, "check")
        /\ ~approvals[a].expired
        /\ \E seen \in {IF Known(r) THEN Status(r) ELSE "undefined", "undefined"} :
            approvals' = [approvals EXCEPT ![a].at = "asking", ![a].seen = seen]
        /\ UNCHANGED <<vars, gateway, answering, executeNext>>

(* Mutant: a status that is not a refusal counts as consent. *)
DecisionOnGuess(seen) ==
    CASE seen \in {"denied", "cancelled", "failed", "undefined"} -> "deny"
      [] OTHER -> "allow"

(* What a status says about the approval: `pending` keeps the loop going. *)
DecisionOn(seen) ==
    CASE seen \in {"allowed", "executed"} -> "allow"
      [] seen \in {"denied", "cancelled", "failed", "undefined"} -> "deny"
      [] OTHER -> NoDecision

(* The answer of status() arrives; a pending request is asked about again  *)
(* after wait(pollIntervalMs).                                             *)
StatusArrives(a) ==
    LET decision == DecisionOn(approvals[a].seen)
    IN  /\ At(a, "asking")
        /\ IF decision = NoDecision THEN GoTo(a, "check") ELSE Settle(a, decision)
        /\ UNCHANGED <<vars, gateway, answering, executeNext>>

(* The clock passes the deadline (120 s), at any point of the loop. *)
DeadlinePasses(a) ==
    /\ approvals[a].at \in {"check", "asking"}
    /\ ~approvals[a].expired
    /\ approvals' = [approvals EXCEPT ![a].expired = TRUE]
    /\ UNCHANGED <<vars, gateway, answering, executeNext>>

(* The loop ends without an answer.  The request stays with the broker. *)
TimesOut(a) ==
    /\ At(a, "check")
    /\ approvals[a].expired
    /\ Settle(a, "deny")
    /\ UNCHANGED <<vars, gateway, answering, executeNext>>

(* resolve(): the gateway learns the decision and acts on it, unless it    *)
(* has stopped waiting; a resolve that throws changes nothing.             *)
Tell(a) ==
    /\ At(a, "settle")
    /\ GoTo(a, "done")
    /\ \/ /\ gateway[a] = "blocked"
          /\ gateway' = [gateway EXCEPT ![a] =
                IF approvals[a].decision = "allow" THEN "performed" ELSE "refused"]
       \/ UNCHANGED gateway
    /\ UNCHANGED <<vars, answering, executeNext>>

(* OpenClaw's own timeout. *)
GatewayGivesUp(a) ==
    /\ gateway[a] = "blocked"
    /\ gateway' = [gateway EXCEPT ![a] = "refused"]
    /\ UNCHANGED <<vars, approvals, answering, executeNext>>

-----------------------------------------------------------------------------
(* The shell: the user answers what the broker lists for the context. *)

(* decide() of App.tsx and useSairi.ts posts the answer ... *)
UserAnswers(k, r, decision, remember) ==
    /\ Decide(k, r, decision, remember, FALSE)
    /\ answering' = IF decision = "allow" THEN answering \union {k} ELSE answering
    /\ UNCHANGED <<approvals, gateway, executeNext>>

UserCancels(k, r) ==
    /\ Cancel(k, r)
    /\ UNCHANGED relayVars

(* ... and, once an allow has been recorded, asks for the execution.  The  *)
(* broker starts it, turns it down, or refuses it with no effect.          *)
ShellExecutes(k, r) ==
    /\ r \in executeNext
    /\ IsIdle(k)
    /\ \/ ExecuteStart(k, r)
       \/ ExecuteTurnedDown(k, r)
       \/ ~Executable(r) /\ UNCHANGED vars
    /\ executeNext' = executeNext \ {r}
    /\ UNCHANGED <<approvals, gateway, answering>>

GrantWithdrawn(k, cap, scope) ==
    /\ Revoke(k, cap, scope)
    /\ UNCHANGED relayVars

-----------------------------------------------------------------------------
(* The broker's own steps, and what its answers mean to who waits for them. *)

BrokerWorks(k) ==
    /\ \/ \E succeeded \in BOOLEAN : ActionDone(k, succeeded)
       \/ SnapshotPolicies(k)
       \/ TruncateFile(k)
       \/ WriteFile(k)
    /\ UNCHANGED relayVars

(* The calls in `served` are answered, with success or an error: a         *)
(* proposal succeeds or is refused, and an allow that was recorded is      *)
(* followed by an execute.                                                 *)
Answered(served, ok) ==
    /\ approvals' = [a \in Approvals |->
            IF ~At(a, "proposing") \/ approvals[a].calls \intersect served = {}
            THEN approvals[a]
            ELSE IF ok
            THEN [approvals[a] EXCEPT !.at = "check", !.calls = {}]
            ELSE [approvals[a] EXCEPT !.at = "settle", !.decision = "deny", !.calls = {}]]
    /\ executeNext' = IF ok
                      THEN executeNext \union {calls[k].request : k \in answering \intersect served}
                      ELSE executeNext
    /\ answering' = answering \ served
    /\ UNCHANGED gateway

BrokerAnswers(k) == AppendAudit(k) /\ Answered({k}, TRUE)
BrokerErrs(k) == CallFails(k) /\ Answered({k}, FALSE)
BrokerRestarts == Restart /\ Answered(Calls, FALSE)

-----------------------------------------------------------------------------
RelayInit ==
    /\ Init
    /\ approvals = [a \in Approvals |-> NewApproval]
    /\ gateway = [a \in Approvals |-> "idle"]
    /\ answering = {}
    /\ executeNext = {}
    /\ granted = {}

RelayLoop(a) ==
    \/ \E k \in Calls, r \in RequestIds : RelayPropose(a, k, r)
    \/ ProposeFails(a)
    \/ AskStatus(a)
    \/ StatusArrives(a)
    \/ TimesOut(a)
    \/ Tell(a)

Shell(k) ==
    \/ \E r \in RequestIds, decision \in Decisions, remember \in BOOLEAN :
            UserAnswers(k, r, decision, remember)
    \/ \E r \in RequestIds : UserCancels(k, r) \/ ShellExecutes(k, r)
    \/ \E cap \in Capabilities, scope \in Scopes : GrantWithdrawn(k, cap, scope)

RelayStep ==
    \/ \E a \in Approvals :
        \/ \E cap \in Capabilities : Raise(a, cap)
        \/ RelayLoop(a) \/ DeadlinePasses(a) \/ GatewayGivesUp(a)
    \/ \E k \in Calls : Shell(k) \/ BrokerWorks(k) \/ BrokerAnswers(k) \/ BrokerErrs(k)
    \/ BrokerRestarts

RelayNext ==
    /\ RelayStep
    /\ granted' = granted \union
            {r \in RequestIds : requests'[r] # NoRequest /\ requests'[r].status = "allowed"}

RelaySpec == RelayInit /\ [][RelayNext]_systemVars

(* The clock runs, the bridge's loop and the broker's calls are resumed    *)
(* when what they await has resolved.  Nobody has to answer a prompt, and  *)
(* no fetch has to succeed.                                                *)
RelayFairness ==
    /\ \A a \in Approvals :
        /\ WF_systemVars(RelayLoop(a) /\ RelayNext)
        /\ WF_systemVars(DeadlinePasses(a) /\ RelayNext)
    /\ \A k \in Calls : WF_systemVars((BrokerWorks(k) \/ BrokerAnswers(k)) /\ RelayNext)

FairRelaySpec == RelaySpec /\ RelayFairness

-----------------------------------------------------------------------------
(* Properties. *)

Performed(a) == gateway[a] = "performed"

(* "It fails closed" (relayApproval): OpenClaw acts only on an approval    *)
(* whose own request the broker has allowed, and never on one that is      *)
(* denied by default or never relayed; a broker that is down, restarts or  *)
(* answers with an error, a lost request and a timeout all end in a        *)
(* refusal.                                                                *)
FailsClosed ==
    \A a \in Approvals : Performed(a) =>
        /\ approvals[a].request \in granted
        /\ approvals[a].capability \notin NeverRelay
        /\ DefaultPolicy[approvals[a].capability] # "deny"

(* No approval blocks OpenClaw, or the agent run that carries it, for      *)
(* ever: every one is decided, even when nobody answers the prompt.        *)
EveryApprovalSettles == \A a \in Approvals : ~At(a, "absent") ~> At(a, "done")

(* "The only path to `allow` is a broker request a human moved to          *)
(* `allowed`" (SECURITY.md): an approval OpenClaw acts on was answered by  *)
(* the user.                                                               *)
OnlyAHumanAllows ==
    [][\A a \in Approvals :
        Performed(a)' /\ ~Performed(a) /\ Known(approvals[a].request) =>
            requests[approvals[a].request].userDecided]_systemVars

(* "Relayed approval: OPENCLAW performs the action ... SairiOS decides     *)
(* whether it may, and then it is out of our hands" (approval-relay.ts):   *)
(* the broker does not perform the action as well.                         *)
PerformedByOne == \A a \in Approvals : Performed(a) => runs[approvals[a].request] = 0

(* The bridge and the shell are clients like any other: what they do to    *)
(* the broker are steps of the broker's own specification.                 *)
ClientsOnlyCall == Spec

(* What FailsClosed needs to be inductive. *)

(* Whatever is allowed, or was ever started, has been granted. *)
GrantsRecorded ==
    \A r \in RequestIds :
        (Known(r) /\ Status(r) = "allowed") \/ runs[r] > 0 => r \in granted

MayBeRelayed(cap) ==
    cap \in Capabilities \ NeverRelay /\ DefaultPolicy[cap] # "deny"

(* A loop past the first check carries a capability that may be relayed;   *)
(* an allow it has read, or decided, is one the broker gave.               *)
LoopConsistent(a) ==
    /\ approvals[a].at \in {"propose", "proposing", "check", "asking"} =>
        MayBeRelayed(approvals[a].capability)
    /\ approvals[a].at \in {"proposing", "check", "asking"} =>
        approvals[a].request \in RequestIds
    /\ approvals[a].at \notin {"settle", "done"} => approvals[a].decision = NoDecision
    /\ At(a, "asking") /\ approvals[a].seen \in {"allowed", "executed"} =>
        approvals[a].request \in granted
    /\ approvals[a].decision = "allow" =>
        MayBeRelayed(approvals[a].capability) /\ approvals[a].request \in granted
    /\ Performed(a) => approvals[a].decision = "allow"

LoopsConsistent == \A a \in Approvals : LoopConsistent(a)

RelayInv == BrokerInv /\ RelayTypeOK /\ GrantsRecorded /\ LoopsConsistent
=============================================================================
