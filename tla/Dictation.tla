----------------------------- MODULE Dictation -----------------------------
(***************************************************************************)
(* apps/shell/src/sairi/useDictation.ts: hold-to-talk through the          *)
(* permission broker, with the key and the button that hold it             *)
(* (SairiOS.tsx, Talk.tsx), the recogniser of the browser (speech.ts), and *)
(* every step of the broker.                                               *)
(*                                                                         *)
(* The page is one thread: a handler, a continuation or a recogniser's     *)
(* event runs to its end.  An utterance is one run of begin(), asleep in   *)
(* one of its two calls to the broker; nothing can stop one that has       *)
(* begun.  Handlers see the phase of the last render, refs the present.    *)
(***************************************************************************)
EXTENDS PermissionBroker

CONSTANTS
    Utterances,   \* the runs of begin() that are not turned away (bound)
    NoUtterance,  \* `undefined` in the ref `dictation`
    Microphone    \* the capability "audio.capture"

ASSUME UtterancesAssumption == NoUtterance \notin Utterances
ASSUME MicrophoneAssumption == Microphone \in Capabilities /\ "executed" \in KeptPhases

VARIABLES
    utterances,      \* every run of begin(), with its recogniser
    dictation,       \* the utterance whose recogniser the ref holds
    busy,            \* the ref that turns key repeat away
    phase,           \* the state `phase` as last set
    rendered,        \* `phase` as the handlers see it: that of the last render
    pendingRequest,  \* the request the prompt on screen is about
    granting,        \* the calls in flight that carry a grant()
    held,            \* whether the key or the button is held (one at a time)
    alive            \* whether the surface is mounted

pageVars == <<utterances, dictation, busy, phase, rendered, pendingRequest,
              granting, held, alive>>
dictationVars == <<vars, pageVars>>

Phases == {"idle", "authorising", "awaiting-consent", "listening", "refused"}

(* Where begin() is: its call on its way to the broker (propose, execute), *)
(* being served (proposing, executing), answered (proposed, executed).     *)
Utterance == [at : {"absent", "propose", "proposing", "proposed",
                    "execute", "executing", "executed", "done"},
              context : Contexts \union {Global},
              request : RequestIds \union {NoRequest},
              calls : SUBSET Calls,
              seen : Statuses \union {"undefined"},
              recogniser : {"none", "open", "closing", "ended"}]

Silent == [at |-> "absent", context |-> Global, request |-> NoRequest, calls |-> {},
           seen |-> "undefined", recogniser |-> "none"]

DictationTypeOK ==
    /\ TypeOK
    /\ utterances \in [Utterances -> Utterance]
    /\ dictation \in Utterances \union {NoUtterance}
    /\ {busy, held, alive} \subseteq BOOLEAN
    /\ {phase, rendered} \subseteq Phases
    /\ pendingRequest \in RequestIds \union {NoRequest}
    /\ granting \subseteq Calls

Is(u, at) == utterances[u].at = at
Becomes(u, at) == utterances' = [utterances EXCEPT ![u].at = at]

InFlight(u) == utterances[u].at \notin {"absent", "done"}
Recognised(u) == utterances[u].recogniser # "none"
Open(u) == utterances[u].recogniser = "open"
Recognising(u) == utterances[u].recogniser \in {"open", "closing"}

-----------------------------------------------------------------------------
(* The key and the button. *)

(* begin(): turned away while busy.  `context` is the one selected now. *)
Begin ==
    \/ busy /\ UNCHANGED <<utterances, busy, phase>>
    \/ /\ ~busy
       /\ \E u \in Utterances, c \in Contexts :
            /\ Is(u, "absent")
            /\ utterances' = [utterances EXCEPT ![u] = [Silent EXCEPT !.at = "propose", !.context = c]]
       /\ busy' = TRUE
       /\ phase' = "authorising"

(* The key has been down for HOLD_MS, or the button of Talk.tsx is down. *)
Hold ==
    /\ alive /\ ~held
    /\ Begin
    /\ held' = TRUE
    /\ UNCHANGED <<vars, dictation, rendered, pendingRequest, granting, alive>>

(* The recogniser of the ref is told to stop or to abort: it stops         *)
(* listening and its `end` follows.                                        *)
CloseCurrent ==
    IF dictation # NoUtterance /\ Open(dictation)
    THEN utterances' = [utterances EXCEPT ![dictation].recogniser = "closing"]
    ELSE UNCHANGED utterances

(* keyup, blur or pointerup: end(); also of a tap shorter than HOLD_MS,    *)
(* which began nothing.                                                    *)
Release ==
    /\ alive
    /\ held' = FALSE
    /\ CASE rendered = "listening" -> CloseCurrent /\ UNCHANGED <<busy, phase>>
         [] rendered = "authorising" ->
                busy' = FALSE /\ phase' = "idle" /\ UNCHANGED utterances
         [] OTHER -> UNCHANGED <<utterances, busy, phase>>
    /\ UNCHANGED <<vars, dictation, rendered, pendingRequest, granting, alive>>

(* Escape, or a pointer that is cancelled (which also ends the hold). *)
Discard ==
    /\ alive
    /\ CloseCurrent
    /\ busy' = FALSE
    /\ phase' = "idle"
    /\ held' \in {held, FALSE}
    /\ UNCHANGED <<vars, dictation, rendered, pendingRequest, granting, alive>>

Render ==
    /\ alive /\ rendered # phase
    /\ rendered' = phase
    /\ UNCHANGED <<vars, utterances, dictation, busy, phase, pendingRequest, granting,
                   held, alive>>

(* The surface is unmounted: its listeners and the timer go, the           *)
(* recogniser of the ref is aborted.                                       *)
Leave ==
    /\ alive
    /\ alive' = FALSE
    /\ CloseCurrent
    /\ UNCHANGED <<vars, dictation, busy, phase, rendered, pendingRequest, granting, held>>

-----------------------------------------------------------------------------
(* begin() after its first await, and its calls to the broker. *)

SendPropose(u, k, r) ==
    /\ Is(u, "propose")
    /\ Propose(k, r, Microphone, utterances[u].context)
    /\ utterances' = [utterances EXCEPT ![u].at = "proposing", ![u].request = r, ![u].calls = {k}]
    /\ UNCHANGED <<dictation, busy, phase, rendered, pendingRequest, granting, held, alive>>

(* The broker starts the action, turns it down, or refuses the call.  *)
SendExecute(u, k) ==
    LET r == utterances[u].request
    IN  /\ Is(u, "execute")
        /\ IsIdle(k)
        /\ \/ /\ ExecuteStart(k, r) \/ ExecuteTurnedDown(k, r)
              /\ utterances' = [utterances EXCEPT ![u].at = "executing", ![u].calls = {k}]
           \/ /\ ~Executable(r)
              /\ utterances' = [utterances EXCEPT ![u].at = "executed", ![u].seen = "undefined"]
              /\ UNCHANGED vars
        /\ UNCHANGED <<dictation, busy, phase, rendered, pendingRequest, granting, held, alive>>

(* What becomes of begin() when its call is answered with `seen`. *)
AfterAnswer(at) == IF at \in {"propose", "proposing"} THEN "proposed" ELSE "executed"
AnswerIs(u, seen) ==
    [utterances[u] EXCEPT !.at = AfterAnswer(@), !.seen = seen, !.calls = {}]

(* The call does not reach the broker ... *)
SendFails(u) ==
    /\ Is(u, "propose") \/ Is(u, "execute")
    /\ utterances' = [utterances EXCEPT ![u] = AnswerIs(u, "undefined")]
    /\ UNCHANGED <<vars, dictation, busy, phase, rendered, pendingRequest, granting, held, alive>>

(* ... or its answer does not come back. *)
AnswerLost(u) ==
    /\ Is(u, "proposing") \/ Is(u, "executing")
    /\ utterances' = [utterances EXCEPT ![u] = AnswerIs(u, "undefined")]
    /\ UNCHANGED <<vars, dictation, busy, phase, rendered, pendingRequest, granting, held, alive>>

(* Mutant: begin() gives up without making way for the next one. *)
GivesUpBusy(u, status) ==
    /\ Becomes(u, "done")
    /\ phase' = "refused"
    /\ UNCHANGED <<busy, dictation, pendingRequest>>

(* Every refusal of begin(): the phase shows it and the next hold is heard. *)
GivesUp(u, status) ==
    /\ Becomes(u, "done")
    /\ busy' = FALSE
    /\ phase' = "refused"
    /\ UNCHANGED <<dictation, pendingRequest>>

(* startCapture(). *)
StartCapture(u) ==
    /\ utterances' = [utterances EXCEPT ![u].at = "done", ![u].recogniser = "open"]
    /\ dictation' = u
    /\ phase' = "listening"
    /\ UNCHANGED <<busy, pendingRequest>>

Ends(u) == Becomes(u, "done") /\ UNCHANGED <<dictation, busy, phase, pendingRequest>>

(* Mutant: the microphone opens on the permission alone. *)
ResumeProposedEager(u) ==
    LET seen == utterances[u].seen
    IN  CASE seen \in {"undefined", "denied"} -> GivesUp(u, seen)
          [] seen = "allowed" -> StartCapture(u)
          [] OTHER -> Ends(u)

(* The broker's answer to the proposal.  An allowed one is executed; any   *)
(* other that is not denied puts the prompt on screen.                     *)
ResumeProposed(u) ==
    LET seen == utterances[u].seen
    IN  CASE seen \in {"undefined", "denied"} -> GivesUp(u, seen)
          [] seen = "allowed" ->
                Becomes(u, "execute") /\ UNCHANGED <<dictation, busy, phase, pendingRequest>>
          [] OTHER ->
                /\ Becomes(u, "done")
                /\ pendingRequest' = utterances[u].request
                /\ phase' = "awaiting-consent"
                /\ busy' = FALSE
                /\ UNCHANGED dictation

ResumeExecuted(u) ==
    IF utterances[u].seen = "executed"
    THEN StartCapture(u)
    ELSE GivesUp(u, utterances[u].seen)

(* Mutant: nobody looks whether the surface is still there. *)
ResumeUnmounted(u) ==
    /\ \/ Is(u, "proposed") /\ ResumeProposed(u)
       \/ Is(u, "executed") /\ ResumeExecuted(u)
    /\ UNCHANGED <<vars, rendered, granting, held, alive>>

(* begin() goes on after either await, unless the surface is gone. *)
Resume(u) ==
    /\ \/ alive /\ Is(u, "proposed") /\ ResumeProposed(u)
       \/ alive /\ Is(u, "executed") /\ ResumeExecuted(u)
       \/ ~alive /\ (Is(u, "proposed") \/ Is(u, "executed")) /\ Ends(u)
    /\ UNCHANGED <<vars, rendered, granting, held, alive>>

-----------------------------------------------------------------------------
(* The recogniser. *)

(* The browser reports an error that is shown; its `end` follows. *)
RecogniserFails(u) ==
    /\ Recognising(u)
    /\ utterances' = [utterances EXCEPT ![u].recogniser = "closing"]
    /\ phase' = "refused"
    /\ UNCHANGED <<vars, dictation, busy, rendered, pendingRequest, granting, held, alive>>

(* `end`: asked for, or by the browser itself. *)
RecogniserEnds(u) ==
    /\ Recognising(u)
    /\ utterances' = [utterances EXCEPT ![u].recogniser = "ended"]
    /\ busy' = FALSE
    /\ phase' = IF phase = "listening" THEN "idle" ELSE phase
    /\ UNCHANGED <<vars, dictation, rendered, pendingRequest, granting, held, alive>>

-----------------------------------------------------------------------------
(* The prompt of Talk.tsx. *)

Prompted == alive /\ rendered = "awaiting-consent"

(* grant(): nothing changes until its call is answered, with whatever      *)
(* result; an answer that comes at once is of a call the broker refuses or *)
(* does not get.                                                           *)
Grant(k, remember) ==
    /\ Prompted /\ pendingRequest # NoRequest
    /\ \/ /\ Decide(k, pendingRequest, "allow", remember, FALSE)
          /\ granting' = granting \union {k}
          /\ UNCHANGED <<phase, pendingRequest>>
       \/ /\ pendingRequest' = NoRequest
          /\ phase' = "idle"
          /\ UNCHANGED <<vars, granting>>
    /\ UNCHANGED <<utterances, dictation, busy, rendered, held, alive>>

(* refuse(): nobody waits for the call. *)
Refuse(k) ==
    /\ Prompted
    /\ \/ pendingRequest # NoRequest /\ Decide(k, pendingRequest, "deny", FALSE, FALSE)
       \/ UNCHANGED vars
    /\ pendingRequest' = NoRequest
    /\ phase' = "idle"
    /\ UNCHANGED <<utterances, dictation, busy, rendered, granting, held, alive>>

-----------------------------------------------------------------------------
(* The broker's own steps, what its answers mean to the page, and the      *)
(* broker's other clients: the shell's permission list answers, executes   *)
(* and cancels the same requests, and grants are withdrawn.                *)

(* executeAction of audio.capture performs nothing, and the purpose that   *)
(* begin() sends passes its only check.                                    *)
PageBrokerWorks(k) ==
    /\ ActionDone(k, TRUE) \/ SnapshotPolicies(k) \/ TruncateFile(k) \/ WriteFile(k)
    /\ UNCHANGED pageVars

(* An execution that was turned down is answered with an error; otherwise  *)
(* the answer is the request as it is when it is sent.                     *)
AnswerOf(k, ok) ==
    LET r == calls[k].request
        turnedDown == calls[k].phase = "auto-denied" /\ \E u \in Utterances :
                        Is(u, "executing") /\ k \in utterances[u].calls
    IN  IF ok /\ ~turnedDown /\ r # NoRequest /\ Known(r) THEN Status(r) ELSE "undefined"

PageAnswered(served, ok) ==
    /\ utterances' = [u \in Utterances |->
            IF utterances[u].calls \intersect served = {} THEN utterances[u]
            ELSE AnswerIs(u, AnswerOf(CHOOSE k \in utterances[u].calls : TRUE, ok))]
    /\ LET granted == alive /\ granting \intersect served # {}
       IN  /\ pendingRequest' = IF granted THEN NoRequest ELSE pendingRequest
           /\ phase' = IF granted THEN "idle" ELSE phase
    /\ granting' = granting \ served
    /\ UNCHANGED <<dictation, busy, rendered, held, alive>>

PageBrokerAnswers(k) == AppendAudit(k) /\ PageAnswered({k}, TRUE)
PageBrokerErrs(k) == CallFails(k) /\ PageAnswered({k}, FALSE)
PageBrokerRestarts == Restart /\ PageAnswered(Calls, FALSE)

OtherClient(k) ==
    /\ \/ \E r \in RequestIds, decision \in Decisions, remember \in BOOLEAN :
            Decide(k, r, decision, remember, FALSE)
       \/ \E r \in RequestIds : Cancel(k, r) \/ ExecuteTurnedDown(k, r) \/ ExecuteStart(k, r)
       \/ \E cap \in Capabilities, scope \in Scopes : Revoke(k, cap, scope)
    /\ UNCHANGED pageVars

-----------------------------------------------------------------------------
DictationInit ==
    /\ Init
    /\ utterances = [u \in Utterances |-> Silent]
    /\ dictation = NoUtterance
    /\ busy = FALSE
    /\ phase = "idle"
    /\ rendered = "idle"
    /\ pendingRequest = NoRequest
    /\ granting = {}
    /\ held = FALSE
    /\ alive = TRUE

Progress(u) ==
    \/ \E k \in Calls, r \in RequestIds : SendPropose(u, k, r)
    \/ \E k \in Calls : SendExecute(u, k)
    \/ SendFails(u)
    \/ Resume(u)

Recogniser(u) == RecogniserFails(u) \/ RecogniserEnds(u)

Person ==
    \/ Hold \/ Release \/ Discard \/ Leave
    \/ \E k \in Calls : Refuse(k) \/ \E remember \in BOOLEAN : Grant(k, remember)

Broker(k) == PageBrokerWorks(k) \/ PageBrokerAnswers(k) \/ PageBrokerErrs(k)

DictationNext ==
    \/ \E u \in Utterances : Progress(u) \/ AnswerLost(u) \/ Recogniser(u)
    \/ Person
    \/ Render
    \/ \E k \in Calls : Broker(k) \/ OtherClient(k)
    \/ PageBrokerRestarts

DictationSpec == DictationInit /\ [][DictationNext]_dictationVars

-----------------------------------------------------------------------------
(* Properties. *)

Opens(u) == ~Open(u) /\ Open(u)'

(* "The shell opens no microphone without an allowed-and-executed request" *)
(* and "each utterance leaves its own audit entry": every recogniser that  *)
(* was ever started has a request of its own, whose execution is in the    *)
(* audit log on disk.                                                      *)
CapturesAuthorised ==
    \A u \in Utterances : Recognised(u) =>
        /\ [request |-> utterances[u].request, phase |-> "executed"] \in audit
        /\ \A v \in Utterances \ {u} : utterances[v].request # utterances[u].request

(* busy turns every hold away: when it is set, an utterance is in flight   *)
(* or a recogniser is running whose end will clear it, whatever was        *)
(* refused, failed, released or discarded before.                          *)
NeverDeaf ==
    alive /\ busy => \E u \in Utterances : InFlight(u) \/ Recognising(u)

(* The alive checks after both awaits: a surface that is gone opens no     *)
(* microphone, whatever the broker answers afterwards.                     *)
NoCaptureAfterLeaving == [][\A u \in Utterances : Opens(u) => alive]_dictationVars

(* "Asking permission..." is on screen only while begin() is in flight and *)
(* will replace it, even when the broker is down, fails or restarts, the   *)
(* key is released and held again, and two utterances overlap.             *)
AskingIsInFlight ==
    alive /\ phase = "authorising" => \E u \in Utterances : InFlight(u)

(* "A microphone that opens after the key is up is the exact thing         *)
(* push-to-talk exists to make impossible" (end).                          *)
OpensOnlyWhileHeld == [][\A u \in Utterances : Opens(u) => held]_dictationVars

(* The page is a client like any other. *)
PageOnlyCalls == Spec

(* What the invariants above need to be inductive. *)

(* The call that serves an utterance is its own, and has not ended. *)
ServedBy(u, k) ==
    /\ calls[k].request = utterances[u].request
    /\ Is(u, "proposing") => calls[k].at = "audit"
    /\ Is(u, "executing") =>
        \/ calls[k].at = "acting"
        \/ calls[k].at = "audit" /\ calls[k].phase \in {"executed", "auto-denied"}

(* The answer that opens a microphone comes after the audit row. *)
ExecutedOnRecord(u) ==
    Recognised(u) \/ (Is(u, "executed") /\ utterances[u].seen = "executed") =>
        /\ utterances[u].request # NoRequest
        /\ [request |-> utterances[u].request, phase |-> "executed"] \in audit

UtteranceConsistent(u) ==
    /\ utterances[u].request \in issued \union {NoRequest}
    /\ Is(u, "propose") => utterances[u].context \in Contexts
    /\ utterances[u].at \in {"proposing", "execute", "executing"} =>
        utterances[u].request # NoRequest
    /\ Is(u, "proposed") /\ utterances[u].seen # "undefined" =>
        utterances[u].request # NoRequest
    /\ Recognised(u) => Is(u, "done")
    /\ utterances[u].calls # {} => Is(u, "proposing") \/ Is(u, "executing")
    /\ \A j, k \in utterances[u].calls : j = k
    /\ \A k \in utterances[u].calls : ServedBy(u, k)
    /\ ExecutedOnRecord(u)

OwnRequests ==
    \A u, v \in Utterances :
        u # v /\ utterances[u].request = utterances[v].request =>
            utterances[u].request = NoRequest

DictationInv ==
    /\ BrokerInv
    /\ DictationTypeOK
    /\ \A u \in Utterances : UtteranceConsistent(u)
    /\ OwnRequests
    /\ NeverDeaf
    /\ AskingIsInFlight
=============================================================================
