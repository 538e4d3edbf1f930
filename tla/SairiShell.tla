----------------------------- MODULE SairiShell -----------------------------
(***************************************************************************)
(* The Sairi OS surface: useSairi.ts, SairiOS.tsx, and the calls of api.ts. *)
(* Any call may fail: refused by the service, by the front door without    *)
(* its cookie (access.mjs), or by the door because the service behind it   *)
(* does not answer (proxy.mjs); a failed call may have done its work.      *)
(*                                                                         *)
(* begin() creates a context and reads the stream of its run; nothing      *)
(* keeps a second begin() from running beside the first, and select() and  *)
(* decide() run beside both.  Run r creates context r; context 0 is there  *)
(* from the start.  A context has at most one permission request, `broker` *)
(* is its status.  Answers land in any order, and hold a status as old as  *)
(* it likes.  One browser tab is modelled; another one decides and runs    *)
(* requests too.                                                           *)
(***************************************************************************)
EXTENDS Naturals, FiniteSets

CONSTANTS
    Asking,       \* the runs whose agent asks for a permission
    Hosted,       \* whether the provider is the hosted one, which passes on what
                  \* comes after a `done` (StreamIsTerminated of AgentRun)
    MaxRuns,      \* intentions submitted in a behaviour (bound)
    MaxClicks,    \* decisions clicked in a behaviour (bound)
    MaxActs       \* intentions and decisions together (bound)

ASSUME ShellAssumption ==
    /\ Asking \subseteq 1..MaxRuns
    /\ Hosted \in BOOLEAN
    /\ {MaxRuns, MaxClicks, MaxActs} \subseteq Nat

VARIABLES
    stored,       \* the contexts of the context service
    broker,       \* per context, the status of its request at the broker
    mounted,      \* alive.current
    active,       \* activeId
    shown,        \* permissions: whose request is shown, and whether with buttons
    display,      \* run: its status, and the run that wrote it last
    run,          \* per run, where begin() stands
    asked,        \* answers in flight to refresh() and loadPermissions()
    click,        \* per click, where decide() stands
    executes,     \* history: per context, execute calls this tab has made
    allowedHere   \* history: the contexts whose request a click of this tab allowed

shell == <<mounted, active, shown, display>>
services == <<stored, broker>>
history == <<executes, allowedHere>>
vars == <<services, shell, run, asked, click, history>>

Runs == 1..MaxRuns
Contexts == 0..MaxRuns
Clicks == 1..MaxClicks
NoContext == MaxRuns + 1
List == MaxRuns + 2    \* what refresh() asks for; loadPermissions asks for a context's
Statuses == {"none", "pending", "allowed", "denied", "ran"}
\* `finished`: a `done` was read and the stream goes on; `late`: after it an
\* event set the surface to work; `strayed`: the stream ended like that.
Phases == {"unborn", "creating", "submitting", "opening", "streaming", "finished", "late",
           "over", "strayed", "lost"}

ShellTypeOK ==
    /\ stored \in SUBSET Contexts
    /\ broker \in [Contexts -> Statuses]
    /\ mounted \in BOOLEAN
    /\ active \in Contexts \union {NoContext}
    /\ shown \in [of : Contexts \union {NoContext}, pending : BOOLEAN]
    /\ display \in [status : {"idle", "working"}, by : Runs \union {0}]
    /\ run \in [Runs -> Phases]
    /\ asked \in SUBSET (Contexts \union {List})
    /\ click \in [Clicks -> [phase : {"unborn", "deciding", "executing", "over"},
                             on : Contexts, allow : BOOLEAN, under : Contexts]]
    /\ executes \in [Contexts -> 0..MaxClicks]
    /\ allowedHere \in SUBSET Contexts

Nothing == [of |-> NoContext, pending |-> FALSE]
Idle == [status |-> "idle", by |-> 0]

\* What the broker may have answered when a request has this status now.
Earlier(status) ==
    {status} \union CASE status = "pending" -> {"none"}
                      [] status \in {"allowed", "denied"} -> {"none", "pending"}
                      [] status = "ran" -> {"none", "pending", "allowed"}
                      [] OTHER -> {}

Init ==
    /\ stored = {0}
    /\ broker = [c \in Contexts |-> "none"]
    /\ mounted = TRUE
    /\ active = NoContext
    /\ shown = Nothing
    /\ display = Idle
    /\ run = [r \in Runs |-> "unborn"]
    /\ asked = {List}
    /\ click = [k \in Clicks |-> [phase |-> "unborn", on |-> 0, allow |-> FALSE, under |-> 0]]
    /\ executes = [c \in Contexts |-> 0]
    /\ allowedHere = {}

-----------------------------------------------------------------------------
(* refresh() and loadPermissions(). *)

\* An effect loads the permissions when the active context has changed.
\* The answer of refresh() changes nothing more here once a context is active.
Effect(answers) ==
    asked' = (IF active' = NoContext THEN answers ELSE answers \ {List})
                \union (IF active' # active THEN {active'} ELSE {})

\* refresh(): the first context listed becomes the active one when none is.  The
\* rail shows the list; without one it says that the services are not reached.
ListLands ==
    /\ List \in asked
    /\ \/ active = NoContext /\ active' \in stored
       \/ UNCHANGED active
    /\ Effect(asked \ {List})
    /\ UNCHANGED <<services, mounted, shown, display, run, click, history>>

\* All of one context's requests take the place of whatever was shown.
PermissionsLand ==
    /\ \E c \in asked \ {List} :
         /\ \/ UNCHANGED shown
            \/ \E status \in Earlier(broker[c]) : 
                    shown' = [of |-> c, pending |-> status = "pending"]
         /\ asked' = asked \ {c}
    /\ UNCHANGED <<services, mounted, active, display, run, click, history>>

Select ==
    /\ mounted
    /\ active' \in stored
    /\ display' = Idle
    /\ Effect(asked)
    /\ UNCHANGED <<services, mounted, shown, run, click, history>>

\* The component and its state are gone; whatever lands after this is dropped.
Unmount ==
    /\ mounted
    /\ mounted' = FALSE
    /\ asked' = {}
    /\ active' = NoContext /\ shown' = Nothing /\ display' = Idle
    /\ UNCHANGED <<services, run, click, history>>

\* What the user does next is within the bound.
MayAct ==
    Cardinality({r \in Runs : run[r] # "unborn"})
        + Cardinality({k \in Clicks : click[k].phase # "unborn"}) < MaxActs

-----------------------------------------------------------------------------
(* begin(). *)

Writes(r, status) == display' = [status |-> status, by |-> r]

Begin(r) ==
    /\ mounted /\ MayAct
    /\ run[r] = "unborn" /\ \A q \in Runs : q < r => run[q] # "unborn"
    /\ run' = [run EXCEPT ![r] = "creating"]
    /\ display' = [status |-> "working", by |-> r]
    /\ UNCHANGED <<services, mounted, active, shown, asked, click, history>>

\* The context is stored; the answer may be lost on its way.
Created(r) ==
    /\ run[r] = "creating"
    /\ stored' = stored \union {r}
    /\ IF mounted
       THEN /\ run' = [run EXCEPT ![r] = "submitting"]
            /\ active' = r
            /\ Effect(asked)
       ELSE /\ run' = [run EXCEPT ![r] = "over"]
            /\ UNCHANGED <<active, asked>>
    /\ UNCHANGED <<broker, mounted, shown, display, click, history>>

\* Mutant: the error is set and the status left.
NotCreatedStill(r) ==
    /\ run[r] = "creating"
    /\ run' = [run EXCEPT ![r] = "over"]
    /\ stored' \in {stored, stored \union {r}}
    /\ IF mounted THEN display' = [status |-> display.status, by |-> r] ELSE UNCHANGED display
    /\ UNCHANGED <<broker, mounted, active, shown, asked, click, history>>

NotCreated(r) ==
    /\ run[r] = "creating"
    /\ run' = [run EXCEPT ![r] = "over"]
    /\ stored' \in {stored, stored \union {r}}
    /\ IF mounted THEN display' = [status |-> "idle", by |-> r] ELSE UNCHANGED display
    /\ UNCHANGED <<broker, mounted, active, shown, asked, click, history>>

\* submitIntention's answer is not looked at.
Submitted(r) ==
    /\ run[r] = "submitting"
    /\ run' = [run EXCEPT ![r] = "opening"]
    /\ UNCHANGED <<services, shell, asked, click, history>>

Opened(r) ==
    /\ run[r] = "opening"
    /\ run' = [run EXCEPT ![r] = "streaming"]
    /\ UNCHANGED <<services, shell, asked, click, history>>

\* What `done` does, refresh() aside (see Effect); the loop goes on reading.
Done(r, next) ==
    /\ run' = [run EXCEPT ![r] = next]
    /\ IF mounted
       THEN Writes(r, "idle") /\ asked' = asked \union {r}
       ELSE UNCHANGED <<display, asked>>
    /\ UNCHANGED <<services, mounted, active, shown, click, history>>

\* No answer, a refusal of the door or of the bridge, or its 502: runIntention
\* makes an error and a done of it, and ends.
NotOpened(r) == run[r] = "opening" /\ Done(r, "over")

\* The loop awaits the next event of r; one comes after a done only from the
\* hosted provider.
Reading(r) == run[r] \in {"streaming", "finished", "late"}
MayGoOn(r) == run[r] = "streaming" \/ (Hosted /\ Reading(r))

StreamDone(r) == MayGoOn(r) /\ Done(r, "finished")

\* session, status, message, ui, ui-rejected, error: what they do to the display.
StreamEvent(r) ==
    /\ MayGoOn(r) /\ mounted
    /\ \E status \in {"idle", "working", display.status} :
         /\ Writes(r, status)
         /\ run' = [run EXCEPT ![r] =
                IF @ = "finished" /\ status # display.status /\ status = "working"
                THEN "late" ELSE @]
    /\ UNCHANGED <<services, mounted, active, shown, asked, click, history>>

\* permission-pending: the bridge has proposed the request to the broker.
StreamAsks(r) ==
    /\ MayGoOn(r)
    /\ r \in Asking /\ broker[r] = "none"
    /\ broker' = [broker EXCEPT ![r] = "pending"]
    /\ IF mounted
       THEN Writes(r, display.status)
            /\ asked' = asked \union {r}
       ELSE UNCHANGED <<display, asked>>
    /\ UNCHANGED <<stored, mounted, active, shown, run, click, history>>

\* A stream that has brought a done ends, or is cut, which changes no more.
StreamEnds(r) ==
    /\ \/ run[r] = "finished" /\ run' = [run EXCEPT ![r] = "over"]
       \/ run[r] = "late" /\ run' = [run EXCEPT ![r] = "strayed"]
    /\ UNCHANGED <<services, shell, asked, click, history>>

\* The connection breaks in the middle: reading throws out of begin(), or
\* nothing more arrives.
StreamCut(r) ==
    /\ run[r] = "streaming"
    /\ run' = [run EXCEPT ![r] = "lost"]
    /\ UNCHANGED <<services, shell, asked, click, history>>

-----------------------------------------------------------------------------
(* decide(): the prompt of the active context's request, if the broker     *)
(* knows it; the buttons stay while an earlier click is being answered.    *)

Click(k) ==
    /\ mounted /\ MayAct
    /\ click[k].phase = "unborn" /\ \A j \in Clicks : j < k => click[j].phase # "unborn"
    /\ shown.of = active /\ active # NoContext /\ shown.pending
    /\ \E allow \in BOOLEAN :
         click' = [click EXCEPT ![k] = [phase |-> "deciding", on |-> active, allow |-> allow,
                                        under |-> active]]
    /\ UNCHANGED <<services, shell, run, asked, history>>

\* The broker decides what is pending and refuses anything else.
Decision(c, allow) ==
    broker' = [broker EXCEPT ![c] = IF @ # "pending" THEN @
                                    ELSE IF allow THEN "allowed" ELSE "denied"]

\* The same, asked for by a click of this tab.
DecisionOf(k) ==
    LET c == click[k].on
    IN  /\ Decision(c, click[k].allow)
        /\ allowedHere' = IF broker[c] = "pending" /\ click[k].allow
                          THEN allowedHere \union {c} ELSE allowedHere

\* loadPermissions() after the decision, for the context of the click.
Reloads(k) == asked' = asked \union {click[k].under}

\* Mutant: execute is called whatever the broker answered.
DecidedAnyhow(k) ==
    LET c == click[k].on  ok == broker[c] = "pending"
    IN  /\ click[k].phase = "deciding"
        /\ DecisionOf(k)
        /\ IF mounted /\ click[k].allow
           THEN /\ click' = [click EXCEPT ![k].phase = "executing"]
                /\ executes' = [executes EXCEPT ![c] = @ + 1]
           ELSE /\ click' = [click EXCEPT ![k].phase = "over"]
                /\ UNCHANGED executes
        /\ IF mounted /\ ok /\ ~click[k].allow THEN Reloads(k) ELSE UNCHANGED asked
        /\ UNCHANGED <<stored, shell, run>>

Decided(k) ==
    LET c == click[k].on  ok == broker[c] = "pending"
    IN  /\ click[k].phase = "deciding"
        /\ DecisionOf(k)
        /\ IF mounted /\ ok /\ click[k].allow
           THEN /\ click' = [click EXCEPT ![k].phase = "executing"]
                /\ executes' = [executes EXCEPT ![c] = @ + 1]
           ELSE /\ click' = [click EXCEPT ![k].phase = "over"]
                /\ UNCHANGED executes
        /\ IF mounted /\ ok /\ ~click[k].allow THEN Reloads(k) ELSE UNCHANGED asked
        /\ UNCHANGED <<stored, shell, run>>

\* The call or its answer is lost: the broker may have decided.
NotDecided(k) ==
    /\ click[k].phase = "deciding"
    /\ \/ UNCHANGED <<broker, allowedHere>>
       \/ DecisionOf(k)
    /\ click' = [click EXCEPT ![k].phase = "over"]
    /\ UNCHANGED <<stored, shell, run, asked, executes>>

\* execute's answer is not looked at.
Executed(k) ==
    /\ click[k].phase = "executing"
    /\ \/ UNCHANGED broker
       \/ broker' = [broker EXCEPT ![click[k].on] = IF @ = "allowed" THEN "ran" ELSE @]
    /\ click' = [click EXCEPT ![k].phase = "over"]
    /\ IF mounted THEN Reloads(k) ELSE UNCHANGED asked
    /\ UNCHANGED <<stored, shell, run, history>>

\* Another tab decides a request, or runs one that is allowed.
OtherTab ==
    /\ \E c \in Contexts :
         \/ broker[c] = "pending" /\ \E allow \in BOOLEAN : Decision(c, allow)
         \/ broker[c] = "allowed" /\ broker' = [broker EXCEPT ![c] = "ran"]
    /\ UNCHANGED <<stored, shell, run, asked, click, history>>

-----------------------------------------------------------------------------
BeginStep(r) == Created(r) \/ NotCreated(r) \/ Submitted(r) \/ Opened(r) \/ NotOpened(r)
Stream(r) ==
    \/ StreamDone(r) \/ StreamEvent(r) \/ StreamAsks(r) \/ StreamEnds(r) \/ StreamCut(r)
Decide(k) == Decided(k) \/ NotDecided(k) \/ Executed(k)
Next ==
    \/ ListLands \/ PermissionsLand \/ Select \/ Unmount \/ OtherTab
    \/ \E r \in Runs : Begin(r) \/ BeginStep(r) \/ Stream(r)
    \/ \E k \in Clicks : Click(k) \/ Decide(k)

\* A call ends, and the bridge terminates a stream whose connection holds
\* (StreamIsTerminated of AgentRun; RunEnds says under which conditions).
\* A connection that was terminated is also ended.
Fairness ==
    \A r \in Runs :
        /\ WF_vars(BeginStep(r))
        /\ WF_vars(run[r] = "streaming" /\ (StreamDone(r) \/ StreamCut(r)))
        /\ WF_vars(StreamEnds(r))

Spec == Init /\ [][Next]_vars /\ Fairness

-----------------------------------------------------------------------------
(* Properties. *)

\* "an allow still needs an execute" (useSairi.ts:198), and only its own: this
\* tab has a request executed at most once, and only one that a click of this
\* tab moved from pending to allowed at the broker - with the buttons live
\* while a click is being answered, answers lost, and another tab that denies,
\* allows or runs the same request in between.
ExecuteFollowsItsAllow ==
    \A c \in Contexts : executes[c] <= 1 /\ (executes[c] = 1 => c \in allowedHere)

\* The surface does not stay at work: from working its status comes to idle,
\* through refused calls, overlapping runs, and contexts selected meanwhile,
\* unless a connection was lost in the middle of a stream, or the hosted
\* provider set it to work again after the `done` of a run and said no more.
RunSettles ==
    (display.status = "working") ~>
        \/ display.status = "idle" \/ ~mounted
        \/ \E r \in Runs : run[r] \in {"lost", "strayed"}

\* "Switching away from a context must not leave its status bar describing the
\* one you left" (useSairi.ts:102-103): a run that streams is the last to have
\* written the run state only if its context is the active one.
RunDescribesTheActive ==
    \A r \in Runs : display.by = r /\ run[r] = "streaming" => r = active

\* "Broker requests for the active context" (useSairi.ts:32): what is shown is
\* the active context's, once no answer is in flight.
PromptsAreTheActives == asked = {} => shown.of \in {active, NoContext}
=============================================================================
