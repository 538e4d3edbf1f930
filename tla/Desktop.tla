------------------------------- MODULE Desktop -------------------------------
(***************************************************************************)
(* The shipped desktop of the shell (apps/shell/src/App.tsx): its windows, *)
(* the list of contexts they show, and the asynchronous work that menus,   *)
(* windows, the dialog of a crystallization and the terminal begin.        *)
(*                                                                         *)
(* Each piece of work is a job: the calls it makes to the services one     *)
(* after the other, in the order of its Plan.  Jobs overlap freely; what   *)
(* the code does on an answer, up to the next call, is one step.           *)
(*                                                                         *)
(* The services are external here.  The context service is the kinds of    *)
(* the contexts it holds; a list it answers is the contexts it held at     *)
(* some moment between the request and the answer, the first so many of    *)
(* them.  Prompts are modelled in SairiShell and left out, as are notices, *)
(* health and the texts of the status bar.                                 *)
(***************************************************************************)
EXTENDS Windows

CONSTANTS
    Jobs,        \* the jobs in flight at once (bound)
    Stored,      \* the kinds of the contexts the service holds at the start
    Tools,       \* the windows menus and dock open
    Viewports,   \* widths the desktop may have, the greatest at the start
    Places,      \* where a drag would put the left edge, or the corner
    MaxMoves,    \* what the user does to the windows (bound)
    MaxBegins    \* what else the user does (bound)

VARIABLES
    wm,        \* the window manager's WindowsState
    viewport,  \* the width of the desktop
    service,   \* external: the contexts of the context service, by kind
    listed,    \* how many of them `contexts` lists
    busy,      \* `busy`: one flag for every run and for the dialog
    activity,  \* the contexts the title bar of whose window says "thinking"
    preview,   \* the context of the dialog, 0 without one
    jobs,      \* what is in flight
    moves,     \* what the user has done to the windows so far
    begins     \* what else the user has done so far

desktop == <<wm, viewport, service, listed, busy, activity, preview, jobs, moves, begins>>
bounds == <<moves, begins>>

ASSUME DesktopAssumption ==
    /\ IsFiniteSet(ContextIds) /\ ContextIds = 1 .. Cardinality(ContextIds)
    /\ Jobs \subseteq Nat /\ Jobs # {}
    /\ Stored \in Seq({"plain", "template"}) /\ Len(Stored) <= Cardinality(ContextIds)
    /\ Tools \subseteq {"context-map", "terminal", "system-status"}
    /\ Viewports \subseteq Nat
    /\ \E view \in Viewports : \A other \in Viewports : view >= other
    /\ Places \subseteq Int
    /\ MaxMoves \in Nat
    /\ MaxBegins \in Nat

(* The calls of each job, in order.  listThenOpen is refreshContexts()     *)
(* followed by openContextWindow(), listThenRun by both and runIntention() *)
(* up to its first wait.  submitIntention() and the calls that only reload *)
(* prompts delay a job and change nothing here: they are left out, and     *)
(* with them the withdrawal of a prompt.                                   *)
Plan ==
    [create             |-> <<"create", "listThenRun", "run", "list">>,
     startCrystallize   |-> <<"previewCrystallize">>,
     confirmCrystallize |-> <<"crystallize", "listThenOpen">>,
     instantiate        |-> <<"instantiate", "listThenOpen">>,
     complete           |-> <<"setStatus", "list">>,
     allow              |-> <<"decide", "execute", "list">>,
     deny               |-> <<"decide", "list">>,
     refresh            |-> <<"list">>,
     cliCreate          |-> <<"create", "list">>,
     cliOpen            |-> <<"find">>,
     cliCrystallize     |-> <<"find", "crystallize", "list">>,
     cliComplete        |-> <<"find", "setStatus", "list">>]
Commands == {"cliCreate", "cliOpen", "cliCrystallize", "cliComplete"}

(* `since` is what the service held when the call in flight was made;      *)
(* `viewport` and `count` are those of the render the job was begun from;  *)
(* `here` says that the terminal that began it is still mounted.           *)
NoJob == [kind |-> "none", calls |-> <<>>, context |-> 0, since |-> 0,
          viewport |-> 0, count |-> 0, here |-> FALSE]

(* The refreshContexts() of the mount. *)
FirstList == [NoJob EXCEPT !.kind = "refresh", !.calls = Plan["refresh"],
                           !.since = Len(Stored)]

Free(j) == jobs[j].calls = <<>>
Calling(j, call) == ~Free(j) /\ Head(jobs[j].calls) = call

Mounted(id, known) == id[1] # "context" \/ id[2] <= known
Shown(id) ==
    /\ Mounted(id, listed)
    /\ \E i \in DOMAIN wm.windows : wm.windows[i].id = id /\ ~wm.windows[i].minimized
At(id) == (CHOOSE i \in DOMAIN wm.windows : wm.windows[i].id = id)

DesktopInit ==
    /\ viewport = Max(Viewports)
    /\ wm = Open([windows |-> <<>>, nextZ |-> 0], Only("context-map"),
                 Cascade(0, Only("context-map"), viewport))
    /\ service = Stored
    /\ listed = 0
    /\ busy = FALSE
    /\ activity = {}
    /\ preview = 0
    /\ jobs = [j \in Jobs |-> IF j = Min(Jobs) THEN FirstList ELSE NoJob]
    /\ moves = 0
    /\ begins = 0

-----------------------------------------------------------------------------
(* The windows. *)

(* What only the windows see.  A terminal that is minimized or closed is   *)
(* unmounted, and with it the state that said a command is running.        *)
Terminated(next) ==
    [j \in Jobs |-> [jobs[j] EXCEPT !.here =
        @ /\ \E i \in DOMAIN next.windows :
                next.windows[i].id = Only("terminal") /\ ~next.windows[i].minimized]]

Moves == moves < MaxMoves /\ moves' = moves + 1 /\ begins' = begins
Begins == begins < MaxBegins /\ begins' = begins + 1 /\ moves' = moves

Windowing(next) ==
    /\ Moves
    /\ wm' = next
    /\ jobs' = Terminated(next)
    /\ UNCHANGED <<viewport, service, listed, busy, activity, preview>>

(* wm.open(): a frame that is new pulls itself back as it appears. *)
OpenedFrame(id, count, view) ==
    LET next == Open(wm, id, Cascade(count, id, view))
    IN IF IsOpen(wm, id) THEN next ELSE PulledBack(next, {id}, viewport)

(* Menus, dock and icons open the map, the terminal and the status. *)
OpenTool(kind) == Windowing(OpenedFrame(Only(kind), Len(wm.windows), viewport))

(* The map opens what it lists. *)
OpenListed(c) ==
    /\ Shown(Only("context-map"))
    /\ c <= listed
    /\ Windowing(OpenedFrame(ContextWindow(c), Len(wm.windows), viewport))

(* Pressing anywhere on a frame, its buttons included, focuses it first.   *)
FocusWindow(id) == Shown(id) /\ Windowing(Focus(wm, id))
MinimizeWindow(id) == Shown(id) /\ Windowing(Minimize(Focus(wm, id), id))

(* The button of the frame, or the menu for the focused window, which need *)
(* not be rendered.                                                        *)
CloseWindow(id) ==
    \/ Shown(id) /\ Windowing(Close(Focus(wm, id), id))
    \/ IsFocused(wm, id) /\ Windowing(Close(wm, id))

(* The status bar lists what is minimized; wm.restore() raises it. *)
RestoreWindow(id) ==
    /\ \E i \in DOMAIN wm.windows : wm.windows[i].id = id /\ wm.windows[i].minimized
    /\ Windowing(Raise(wm, id))

ToggleWindow(id) ==
    Shown(id) /\ Windowing(ToggleMaximize(Focus(wm, id), id, viewport))

(* A drag of the title bar that would put the window at x.  A maximized    *)
(* window does not move.                                                   *)
DragWindow(id, x) ==
    /\ Shown(id)
    /\ ~wm.windows[At(id)].maximized
    /\ Windowing(Move(Focus(wm, id), id,
                      ClampX(x, wm.windows[At(id)].at.width, viewport)))

(* A drag of the corner, let go with the pointer at x. *)
ResizeWindow(id, x) ==
    /\ Shown(id)
    /\ ~wm.windows[At(id)].maximized
    /\ x >= 0
    /\ LET left == wm.windows[At(id)].at.x
       IN Windowing(Resize(Focus(wm, id), id,
                Min({Max({MinWidth, x - left}), viewport - ChromeRight - left})))

MinimizeAll == Windowing(AllMinimized(wm, TRUE))
BringAllToFront == Windowing(AllMinimized(wm, FALSE))
TileWindows ==
    /\ \E i \in DOMAIN wm.windows : ~wm.windows[i].minimized
    /\ Windowing(Tile(wm, viewport))

(* The desktop is resized, and every frame pulls itself back. *)
ViewportChanges ==
    \E view \in Viewports \ {viewport} :
        /\ Moves
        /\ viewport' = view
        /\ wm' = PulledBack(wm, {id \in IdsOf(wm) : Mounted(id, listed)}, view)
        /\ UNCHANGED <<service, listed, busy, activity, preview, jobs>>

WindowStep ==
    \/ \E kind \in Tools : OpenTool(kind)
    \/ \E c \in ContextIds : OpenListed(c)
    \/ \E id \in IdsOf(wm) :
        \/ CloseWindow(id)
        \/ FocusWindow(id)
        \/ MinimizeWindow(id)
        \/ RestoreWindow(id)
        \/ ToggleWindow(id)
        \/ \E x \in Places : DragWindow(id, x) \/ ResizeWindow(id, x)
    \/ MinimizeAll
    \/ BringAllToFront
    \/ TileWindows
    \/ ViewportChanges

-----------------------------------------------------------------------------
(* What begins a job. *)

BeginJob(kind, c) ==
    /\ Begins
    /\ \E j \in Jobs :
        /\ Free(j)
        /\ \A k \in Jobs : Free(k) => j <= k
        /\ jobs' = [jobs EXCEPT ![j] =
            [kind |-> kind, calls |-> Plan[kind], context |-> c,
             since |-> Len(service), viewport |-> viewport,
             count |-> Len(wm.windows), here |-> kind \in Commands]]
    /\ UNCHANGED <<wm, viewport, service, listed>>

(* ContextMapWindow: the form is closed while the desktop is busy. *)
SubmitForm ==
    /\ Shown(Only("context-map"))
    /\ ~busy
    /\ BeginJob("create", 0)
    /\ UNCHANGED <<busy, activity, preview>>

(* Edit > Crystallize and Edit > Mark complete are about the context of    *)
(* the focused window; the panel and the actions of a context's window are *)
(* about that context.                                                     *)
About(c) ==
    \/ Shown(ContextWindow(c))
    \/ IsFocused(wm, ContextWindow(c))

StartCrystallize(c) ==
    /\ About(c)
    /\ BeginJob("startCrystallize", c)
    /\ UNCHANGED <<busy, activity, preview>>

Complete(c) ==
    /\ About(c)
    /\ BeginJob("complete", c)
    /\ UNCHANGED <<busy, activity, preview>>

(* run.briefing may come from the interface of any context, and the        *)
(* service answers for what is no template.                                *)
Instantiate(c) ==
    /\ Shown(ContextWindow(c))
    /\ BeginJob("instantiate", c)
    /\ UNCHANGED <<busy, activity, preview>>

(* An answer to a prompt of the window. *)
AnswerPrompt(c) ==
    /\ Shown(ContextWindow(c))
    /\ \E kind \in {"allow", "deny"} : BeginJob(kind, c)
    /\ UNCHANGED <<busy, activity, preview>>

Refresh == BeginJob("refresh", 0) /\ UNCHANGED <<busy, activity, preview>>

(* The terminal takes no input while it runs a command. *)
Command(kind) ==
    /\ Shown(Only("terminal"))
    /\ \A j \in Jobs : ~(~Free(j) /\ jobs[j].here)
    /\ BeginJob(kind, 0)
    /\ UNCHANGED <<busy, activity, preview>>

(* The buttons of the dialog are closed while the desktop is busy. *)
ConfirmDialog ==
    /\ preview # 0
    /\ ~busy
    /\ BeginJob("confirmCrystallize", preview)
    /\ busy' = TRUE
    /\ UNCHANGED <<activity, preview>>

CancelDialog ==
    /\ preview # 0
    /\ ~busy
    /\ Begins
    /\ preview' = 0
    /\ UNCHANGED <<wm, viewport, service, listed, busy, activity, jobs>>

BeginSomething ==
    \/ SubmitForm
    \/ Refresh
    \/ \E c \in ContextIds :
        \/ StartCrystallize(c)
        \/ Complete(c)
        \/ Instantiate(c)
        \/ AnswerPrompt(c)
    \/ \E kind \in Commands : Command(kind)
    \/ ConfirmDialog
    \/ CancelDialog

-----------------------------------------------------------------------------
(* Answers. *)

(* What the job is at its next call. *)
Onward(j, c, since) ==
    IF Len(jobs[j].calls) = 1 THEN NoJob
    ELSE [jobs[j] EXCEPT !.calls = Tail(jobs[j].calls), !.context = c, !.since = since]

GoesOn(j, c) == jobs' = [jobs EXCEPT ![j] = Onward(j, c, Len(service'))]

Ends(j) == jobs' = [jobs EXCEPT ![j] = NoJob]

(* A call the service makes a context for. *)
MakesContext(j) ==
    \E call \in {"create", "crystallize", "instantiate"} :
        /\ Calling(j, call)
        /\ Len(service) < Cardinality(ContextIds)
        /\ call = "crystallize" => service[jobs[j].context] = "plain"
        /\ call = "instantiate" => service[jobs[j].context] = "template"
        /\ service' = Append(service, IF call = "crystallize" THEN "template" ELSE "plain")
        /\ GoesOn(j, Len(service'))
        /\ IF jobs[j].kind = "confirmCrystallize"
           THEN busy' = FALSE /\ preview' = 0
           ELSE UNCHANGED <<busy, preview>>
        /\ UNCHANGED <<wm, viewport, listed, activity, bounds>>

(* Mutant: the refusal leaves the dialog as it was. *)
RefusedAndStuck(j) ==
    /\ \E call \in {"create", "crystallize", "instantiate", "setStatus",
                    "decide", "previewCrystallize"} : Calling(j, call)
    /\ Ends(j)
    /\ UNCHANGED <<wm, viewport, service, listed, busy, activity, preview, bounds>>

(* A call that is refused or gets no answer, where the job ends with it.   *)
Refused(j) ==
    /\ \E call \in {"create", "crystallize", "instantiate", "setStatus",
                    "decide", "previewCrystallize"} : Calling(j, call)
    /\ Ends(j)
    /\ IF jobs[j].kind = "confirmCrystallize"
       THEN busy' = FALSE /\ preview' = 0
       ELSE UNCHANGED <<busy, preview>>
    /\ UNCHANGED <<wm, viewport, service, listed, activity, bounds>>

PreviewLands(j) ==
    /\ Calling(j, "previewCrystallize")
    /\ service[jobs[j].context] = "plain"
    /\ preview' = jobs[j].context
    /\ Ends(j)
    /\ UNCHANGED <<wm, viewport, service, listed, busy, activity, bounds>>

(* A call whose answer, good or bad, changes nothing here. *)
Answered(j) ==
    /\ \E call \in {"setStatus", "decide", "execute"} : Calling(j, call)
    /\ UNCHANGED <<wm, viewport, service, listed, busy, activity, preview, bounds>>
    /\ GoesOn(j, jobs[j].context)

(* refreshContexts(): what was listed, or the list as it was.  A frame of  *)
(* a context that was not listed appears and pulls itself back.            *)
ListIs(known) ==
    /\ listed' = known
    /\ wm' = PulledBack(wm, {id \in IdsOf(wm) : Mounted(id, known) /\ ~Mounted(id, listed)},
                        viewport)

ListAnswered(j) ==
    /\ Calling(j, "list")
    /\ \E known \in (jobs[j].since .. Len(service)) \union {listed} : ListIs(known)
    /\ UNCHANGED <<viewport, service, busy, activity, preview, bounds>>
    /\ GoesOn(j, jobs[j].context)

(* The list, and openContextWindow() from the render the job began in. *)
ListsAndOpens(j) ==
    \E known \in (jobs[j].since .. Len(service)) \union {listed} :
        LET id == ContextWindow(jobs[j].context)
            opened == Open(wm, id, Cascade(jobs[j].count, id, jobs[j].viewport))
            appears == {other \in IdsOf(wm) : Mounted(other, known) /\ ~Mounted(other, listed)}
                        \union (IF Mounted(id, known) THEN {id} \ IdsOf(wm) ELSE {})
        IN /\ listed' = known
           /\ wm' = PulledBack(opened, appears, viewport)

ListLandsAndOpens(j) ==
    /\ Calling(j, "listThenOpen")
    /\ ListsAndOpens(j)
    /\ UNCHANGED <<viewport, service, busy, activity, preview, bounds>>
    /\ GoesOn(j, jobs[j].context)

ListLandsAndRuns(j) ==
    /\ Calling(j, "listThenRun")
    /\ ListsAndOpens(j)
    /\ busy' = TRUE
    /\ activity' = activity \union {jobs[j].context}
    /\ UNCHANGED <<viewport, service, preview, bounds>>
    /\ GoesOn(j, jobs[j].context)

(* Mutant: the activity goes, and `busy` stays to the next run. *)
RunEndsBusy(j) ==
    /\ Calling(j, "run")
    /\ activity' = activity \ {jobs[j].context}
    /\ UNCHANGED <<wm, viewport, service, listed, busy, preview, bounds>>
    /\ GoesOn(j, jobs[j].context)

(* The `finally` of runIntention(), however the stream ends. *)
RunEnds(j) ==
    /\ Calling(j, "run")
    /\ busy' = FALSE
    /\ activity' = activity \ {jobs[j].context}
    /\ UNCHANGED <<wm, viewport, service, listed, preview, bounds>>
    /\ GoesOn(j, jobs[j].context)

(* cli.ts findContext() in a list read for the command, or in the cached   *)
(* one if that is not to be had: one context, or a refusal.                *)
FindAnswers(j) ==
    /\ Calling(j, "find")
    /\ \/ /\ Ends(j)
          /\ wm' = wm
       \/ \E c \in 1 .. Len(service) :
            IF jobs[j].kind = "cliOpen"
            THEN /\ Ends(j)
                 /\ wm' = PulledBack(
                        Open(wm, ContextWindow(c),
                             Cascade(jobs[j].count, ContextWindow(c), jobs[j].viewport)),
                        IF Mounted(ContextWindow(c), listed)
                        THEN {ContextWindow(c)} \ IdsOf(wm) ELSE {}, viewport)
            ELSE /\ wm' = wm
                 /\ jobs' = [jobs EXCEPT ![j] = Onward(j, c, jobs[j].since)]
    /\ UNCHANGED <<viewport, service, listed, busy, activity, preview, bounds>>

Answer(j) ==
    \/ MakesContext(j)
    \/ Refused(j)
    \/ PreviewLands(j)
    \/ Answered(j)
    \/ ListAnswered(j)
    \/ ListLandsAndOpens(j)
    \/ ListLandsAndRuns(j)
    \/ RunEnds(j)
    \/ FindAnswers(j)

DesktopNext == WindowStep \/ BeginSomething \/ \E j \in Jobs : Answer(j)

(* Every call gets an answer or fails, and every stream ends. *)
DesktopSpec == DesktopInit /\ [][DesktopNext]_desktop /\ \A j \in Jobs : WF_desktop(Answer(j))

-----------------------------------------------------------------------------
CallNames == {"create", "crystallize", "instantiate", "setStatus", "decide", "execute",
              "previewCrystallize", "find", "list", "listThenOpen", "listThenRun", "run"}
Job == [kind : DOMAIN Plan \union {"none"}, calls : Seq(CallNames), context : Nat,
        since : Nat, viewport : Nat, count : Nat, here : BOOLEAN]

DesktopTypeOK ==
    /\ wm \in WindowsState
    /\ jobs \in [Jobs -> Job]
    /\ viewport \in Viewports
    /\ service \in Seq({"plain", "template"})
    /\ Len(service) <= Cardinality(ContextIds)
    /\ listed \in Nat
    /\ busy \in BOOLEAN
    /\ activity \subseteq Nat
    /\ preview \in Nat
    /\ moves \in Nat
    /\ begins \in Nat

(* A crystallization that was confirmed in the dialog waits for its answer.*)
Confirming ==
    \E j \in Jobs : jobs[j].kind = "confirmCrystallize" /\ Calling(j, "crystallize")

(* windows.ts:81-83: opening what is open raises it, whatever opens it:    *)
(* the map, a menu, the terminal or the end of a job that began before the *)
(* window was there.                                                       *)
WindowsStacked == Stacked(wm)

(* App.tsx 176-230, 288-304: all runs and the dialog share one `busy`.     *)
(* However they overlap and fail, the form and the dialog are closed only  *)
(* while one of them is working, and a title bar says "thinking" exactly   *)
(* while its run works.                                                    *)
IndicatorsAreTruthful ==
    /\ busy => Confirming \/ \E j \in Jobs : Calling(j, "run")
    /\ activity = {jobs[j].context : j \in {k \in Jobs : Calling(k, "run")}}

(* App.tsx 288-304: a crystallization that was confirmed ends with the     *)
(* dialog gone, whether the service made the template or refused.          *)
ConfirmSettles == Confirming ~> preview = 0 /\ ~Confirming

(* Window.tsx:12,37: "A window is never allowed to move fully off-screen"; *)
(* at least KEEP_VISIBLE of it stays reachable at every edge.              *)
TitleBarsReachable ==
    \A i \in DOMAIN wm.windows :
        Mounted(wm.windows[i].id, listed) =>
            LET at == wm.windows[i].at
            IN /\ at.x + at.width >= ChromeLeft + KeepVisible
               /\ at.x <= viewport - KeepVisible

-----------------------------------------------------------------------------
(* What the invariants above need to be inductive. *)

(* What is left of a plan: a run comes after the list that opens its       *)
(* window, and such a list after the call that makes the context.          *)
Planned(calls) ==
    \A i \in DOMAIN calls :
        /\ calls[i] = "listThenRun" => i < Len(calls) /\ calls[i + 1] = "run"
        /\ calls[i] = "run" /\ i > 1 => calls[i - 1] = "listThenRun"
        /\ calls[i] \in {"listThenRun", "listThenOpen"} /\ i > 1 =>
            calls[i - 1] \in {"create", "crystallize", "instantiate"}

Opening(j) == Calling(j, "listThenOpen") \/ Calling(j, "listThenRun") \/ Calling(j, "run")
Running(j) == Calling(j, "listThenRun") \/ Calling(j, "run")

(* The context of such a job is one the service made, and no other's.      *)
JobsApart ==
    /\ \A j \in Jobs : Planned(jobs[j].calls)
    /\ \A j \in Jobs : Opening(j) => jobs[j].context \in 1 .. Len(service)
    /\ \A j, k \in Jobs : j # k /\ Running(j) /\ Running(k) =>
            jobs[j].context # jobs[k].context

DesktopInv == DesktopTypeOK /\ WindowsStacked /\ JobsApart /\ IndicatorsAreTruthful
=============================================================================
