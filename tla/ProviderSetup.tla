--------------------------- MODULE ProviderSetup ---------------------------
(***************************************************************************)
(* How a model provider is attached: POST /setup of the agent bridge       *)
(* (setup.ts, server.ts) and the two pages that call it, the first-run     *)
(* wizard (SetupWizard.tsx) and the desktop's dialog (SetupDialog.tsx).    *)
(*                                                                         *)
(* A call suspends at every await and calls overlap: two pages may call,   *)
(* and a page whose connection was lost may call again while its first     *)
(* call runs on.  A file is the set of the calls whose bytes it holds: {}  *)
(* is a missing or a truncated file, two calls are one written over the    *)
(* other.  Any command of OpenClaw may fail, having done its work or not.  *)
(* Modes, formats and key patterns are left out: an input is good or not.  *)
(***************************************************************************)
EXTENDS Naturals, FiniteSets

CONSTANTS
    Wizards,      \* pages that show the wizard (SairiOS.tsx)
    Dialogs,      \* pages that show the dialog (App.tsx)
    MaxCalls      \* calls of POST /setup in a behaviour (bound)

ASSUME SetupAssumption ==
    /\ Wizards \intersect Dialogs = {} /\ Wizards \union Dialogs # {}
    /\ MaxCalls \in Nat

VARIABLES
    page,         \* per page: what it shows and what its form holds
    calls,        \* number of calls so far
    call,         \* per call: where its handler stands
    envFile,      \* the 0600 file with the credential
    stateFile,    \* the file with the chosen provider and model
    openclaw,     \* OpenClaw: who onboarded it, whose model is its primary
    touched,      \* history: calls that opened the credential file
    onboarded     \* history: calls whose onboarding succeeded

files == <<envFile, stateFile>>
history == <<touched, onboarded>>
vars == <<page, calls, call, files, openclaw, history>>

Pages == Wizards \union Dialogs
Calls == 1..MaxCalls
Steps == {"off", "closed", "welcome", "runtime", "provider", "key", "connecting",
          "done", "form", "broken"}
Active == {"checking", "writingEnv", "onboarding", "setting", "writingState", "reading"}

SetupTypeOK ==
    /\ page \in [Pages -> [screen : Steps, typed : BOOLEAN,
                           catalogue : BOOLEAN, awaits : 0..MaxCalls]]
    /\ calls \in 0..MaxCalls
    /\ call \in [Calls -> [phase : Active \union {"unborn", "answered"},
                           by : Pages, heard : BOOLEAN, alone : BOOLEAN,
                           answer : {"none", "success", "refused", "failed", "broken"},
                           told : SUBSET Calls]]
    /\ envFile \in SUBSET Calls /\ stateFile \in SUBSET Calls
    /\ openclaw \in [by : SUBSET Calls, primary : SUBSET Calls]
    /\ touched \in SUBSET Calls /\ onboarded \in SUBSET Calls

Unloaded == [screen |-> "off", typed |-> FALSE, catalogue |-> TRUE, awaits |-> 0]

Unborn == [phase |-> "unborn", by |-> CHOOSE p \in Pages : TRUE, heard |-> FALSE,
           alone |-> FALSE, answer |-> "none", told |-> {}]

Init ==
    /\ page = [p \in Pages |-> Unloaded]
    /\ calls = 0
    /\ call = [c \in Calls |-> Unborn]
    /\ envFile = {} /\ stateFile = {}
    /\ openclaw = [by |-> {}, primary |-> {}]
    /\ touched = {} /\ onboarded = {}

-----------------------------------------------------------------------------
(* The handler of POST /setup. *)

Running(c) == call[c].phase \in Active

\* A recorded provider that can be read back: one call's bytes, whole.
Configured(file) == Cardinality(file) = 1

\* The handler goes on to its next await.
Proceeds(c, from, to) ==
    /\ call[c].phase = from
    /\ call' = [call EXCEPT ![c].phase = to]

Answers(c, from, answer) ==
    /\ call[c].phase = from
    /\ call' = [call EXCEPT ![c].phase = "answered", ![c].answer = answer]

\* Bytes over what another call has written: its tail may stay.
Overwritten(file, c) == IF file = {} THEN {{c}} ELSE {{c}, file \union {c}}

\* A call of page p arrives.  What is not valid is refused on the spot.
Arrive(p, good) ==
    /\ calls < MaxCalls
    /\ calls' = calls + 1
    /\ call' = [call EXCEPT ![calls'] =
          [phase |-> IF good THEN "checking" ELSE "answered", by |-> p, heard |-> FALSE,
           alone |-> \A d \in Calls : ~Running(d),
           answer |-> IF good THEN "none" ELSE "refused", told |-> {}]]

\* Mutant: the file is opened for the new key before OpenClaw is looked for.
OpensFirst(c) ==
    /\ \/ Proceeds(c, "checking", "writingEnv")
       \/ Answers(c, "checking", "refused")
    /\ envFile' = {}
    /\ touched' = touched \union {c}
    /\ UNCHANGED <<page, calls, stateFile, openclaw, onboarded>>

\* `openclaw --version`; then writeFile opens, and so truncates, the file.
Checked(c) ==
    /\ \/ /\ Proceeds(c, "checking", "writingEnv")
          /\ envFile' = {}
          /\ touched' = touched \union {c}
       \/ /\ Answers(c, "checking", "refused")
          /\ UNCHANGED <<envFile, touched>>
       \/ /\ Answers(c, "checking", "broken")
          /\ UNCHANGED <<envFile, touched>>
    /\ UNCHANGED <<page, calls, stateFile, openclaw, onboarded>>

\* The bytes are written and the mode is set, or the filesystem fails.
EnvWritten(c) ==
    /\ \/ Proceeds(c, "writingEnv", "onboarding") /\ envFile' \in Overwritten(envFile, c)
       \/ Answers(c, "writingEnv", "broken") /\ envFile' \in {envFile, {c}}
    /\ UNCHANGED <<page, calls, stateFile, openclaw, history>>

\* Mutant: a failure of `openclaw onboard` is as little fatal as one of `config set`.
OnboardsAnyway(c) ==
    /\ Proceeds(c, "onboarding", "setting")
    /\ \/ openclaw' = [by |-> {c}, primary |-> {}] /\ onboarded' = onboarded \union {c}
       \/ UNCHANGED <<openclaw, onboarded>>
    /\ UNCHANGED <<page, calls, files, touched>>

\* `openclaw onboard`, which picks a primary model of its own.
Onboards(c) ==
    /\ \/ /\ Proceeds(c, "onboarding", "setting")
          /\ openclaw' = [by |-> {c}, primary |-> {}]
          /\ onboarded' = onboarded \union {c}
       \/ /\ Answers(c, "onboarding", "failed")
          /\ openclaw' \in {openclaw, [by |-> {c}, primary |-> {}]}
          /\ UNCHANGED onboarded
    /\ UNCHANGED <<page, calls, files, touched>>

\* `openclaw config set`; its failure is a warning.  The state file is opened.
SetsModel(c) ==
    /\ \/ Proceeds(c, "setting", "writingState") /\ stateFile' = {}
       \/ Answers(c, "setting", "broken") /\ UNCHANGED stateFile
    /\ openclaw' \in {openclaw, [openclaw EXCEPT !.primary = {c}]}
    /\ UNCHANGED <<page, calls, envFile, history>>

\* Mutant: the answer is read while the state is still being written.
StateUnawaited(c) ==
    /\ Proceeds(c, "writingState", "reading")
    /\ UNCHANGED <<page, calls, files, openclaw, history>>

StateWritten(c) ==
    /\ \/ Proceeds(c, "writingState", "reading") /\ stateFile' \in Overwritten(stateFile, c)
       \/ Answers(c, "writingState", "broken") /\ stateFile' \in {stateFile, {c}}
    /\ UNCHANGED <<page, calls, envFile, openclaw, history>>

\* The success is answered with status(), as the files are by then.
Succeeds(c) ==
    /\ call[c].phase = "reading"
    /\ call' = [call EXCEPT ![c].phase = "answered", ![c].answer = "success",
                            ![c].told = IF Configured(stateFile) /\ envFile # {}
                                        THEN stateFile ELSE {}]
    /\ UNCHANGED <<page, calls, files, openclaw, history>>

Handler(c) ==
    Checked(c) \/ EnvWritten(c) \/ Onboards(c) \/ SetsModel(c) \/ StateWritten(c) \/ Succeeds(c)

\* The bridge stops, and the command it was waiting for with it.
Crash ==
    /\ \E c \in Calls : Running(c)
    /\ call' = [c \in Calls |->
          IF Running(c) THEN [call[c] EXCEPT !.phase = "answered", !.answer = "broken"]
                        ELSE call[c]]
    /\ \/ UNCHANGED openclaw
       \/ \E c \in Calls : call[c].phase = "onboarding" /\ openclaw' = [by |-> {c}, primary |-> {}]
    /\ UNCHANGED <<page, calls, files, history>>

-----------------------------------------------------------------------------
(* The pages.  GET /setup carries the catalogue of providers the pages     *)
(* render from; what POST /setup answers is a status without one.          *)

GetCarriesCatalogue == TRUE
PostCarriesCatalogue == FALSE

\* A page that renders its choices needs the catalogue: without it rendering throws.
Rendered(pg) ==
    IF pg.catalogue \/ pg.screen \in {"off", "closed"} THEN pg ELSE [pg EXCEPT !.screen = "broken"]

Show(p, pg) == page' = [page EXCEPT ![p] = IF @.screen = "broken" THEN @ ELSE Rendered(pg)]
Go(p, screen) == Show(p, [page[p] EXCEPT !.screen = screen])
StaysOnPage == UNCHANGED <<calls, call, files, openclaw, history>>

\* The page asks for the status when it loads and opens by itself on a machine
\* with no provider; without an answer there is no setup on it.
Load(p) ==
    /\ page[p].screen = "off"
    /\ Show(p, [page[p] EXCEPT !.catalogue = GetCarriesCatalogue,
                               !.screen = IF Configured(stateFile) THEN "closed"
                                          ELSE IF p \in Wizards THEN "welcome" ELSE "form"])
    /\ StaysOnPage

Open(p) ==
    /\ page[p].screen = "closed"
    /\ Show(p, [page[p] EXCEPT !.screen = IF p \in Wizards THEN "welcome" ELSE "form",
                               !.typed = FALSE, !.awaits = 0])
    /\ StaysOnPage

\* The wizard's steps, forward and back.  It goes on from "runtime" when the
\* last check found OpenClaw, which it may at any time.
Turn(p) ==
    /\ p \in Wizards
    /\ \E from, to \in Steps :
         /\ page[p].screen = from
         /\ <<from, to>> \in {<<"welcome", "runtime">>, <<"runtime", "provider">>,
                              <<"provider", "key">>, <<"key", "provider">>,
                              <<"provider", "runtime">>}
         /\ Go(p, to)
    /\ StaysOnPage

\* The answer of a recheck, which may come when the wizard has gone on.
Recheck(p) ==
    /\ page[p].screen \in {"runtime", "provider", "key", "connecting"}
    /\ Show(p, [page[p] EXCEPT !.catalogue = GetCarriesCatalogue])
    /\ StaysOnPage

\* Not now, Later, or Start working, the button of the last step.
Dismiss(p) ==
    /\ page[p].screen \in {"welcome", "runtime", "form", "done"}
    /\ Show(p, [page[p] EXCEPT !.screen = "closed", !.typed = FALSE, !.awaits = 0])
    /\ StaysOnPage

TypeKey(p) ==
    /\ page[p].screen \in {"key", "form"}
    /\ Show(p, [page[p] EXCEPT !.typed = TRUE])
    /\ StaysOnPage

\* connect() of the wizard and submit() of the dialog, which is off while it waits.
Submit(p, good) ==
    /\ page[p].screen \in {"key", "form"}
    /\ page[p].typed /\ page[p].awaits = 0
    /\ Arrive(p, good)
    /\ Show(p, [page[p] EXCEPT !.awaits = calls',
                               !.screen = IF @ = "key" THEN "connecting" ELSE @])
    /\ UNCHANGED <<files, openclaw, history>>

\* The key leaves the form that sent it, whatever the answer.
Answered(pg, c) == IF pg.awaits = c THEN [pg EXCEPT !.awaits = 0, !.typed = FALSE] ELSE pg

\* A success: the wizard shows its last step with the status it was given; the
\* dialog hands the status to the desktop, which closes whichever is open.
HearSuccess(c) ==
    LET p == call[c].by  pg == Answered(page[p], c)
    IN  /\ call[c].answer = "success" /\ ~call[c].heard
        /\ call' = [call EXCEPT ![c].heard = TRUE]
        /\ Show(p, [pg EXCEPT !.catalogue = PostCarriesCatalogue,
                              !.screen = IF p \in Wizards THEN "done" ELSE "closed"])
        /\ UNCHANGED <<calls, files, openclaw, history>>

\* An error answer, or no answer: the connection may be lost while the call runs on.
HearFailure(c) ==
    LET p == call[c].by  pg == Answered(page[p], c)
    IN  /\ call[c].phase # "unborn" /\ call[c].answer # "success" /\ ~call[c].heard
        /\ call' = [call EXCEPT ![c].heard = TRUE]
        /\ Show(p, IF pg.screen = "connecting" THEN [pg EXCEPT !.screen = "key"] ELSE pg)
        /\ UNCHANGED <<calls, files, openclaw, history>>

\* The page is loaded again, or its boundary mounts it anew; it forgets its calls.
Reload(p) ==
    /\ page[p].screen # "off"
    /\ page' = [page EXCEPT ![p] = Unloaded]
    /\ call' = [c \in Calls |-> [call[c] EXCEPT !.heard = @ \/ (call[c].by = p /\ c <= calls)]]
    /\ UNCHANGED <<calls, files, openclaw, history>>

-----------------------------------------------------------------------------
Page(p) ==
    \/ Load(p) \/ Open(p) \/ Turn(p) \/ Recheck(p) \/ Dismiss(p) \/ TypeKey(p)
    \/ \E good \in BOOLEAN : Submit(p, good)
    \/ Reload(p)
Hear(c) == HearSuccess(c) \/ HearFailure(c)
Next ==
    \/ \E p \in Pages : Page(p)
    \/ \E c \in Calls : Handler(c) \/ Hear(c)
    \/ Crash

\* A command ends, if at execFile's timeout, and the page hears how the call ended.
Fairness == \A c \in Calls : WF_vars(Handler(c)) /\ WF_vars(Hear(c))

Spec == Init /\ [][Next]_vars /\ Fairness

-----------------------------------------------------------------------------
(* Properties. *)

\* "all rejected without touching the filesystem" (setup.ts:155): a call that is
\* refused, for its input or because OpenClaw is missing, has not opened the
\* credential file, whatever other calls do meanwhile.
RefusalLeavesNoTrace == \A c \in Calls : call[c].answer = "refused" => c \notin touched

\* The machine says it is configured for a call only if OpenClaw was onboarded
\* for that call: after failures, restarts and overlapping calls.
ConfiguredIsOnboarded == \A c \in Calls : stateFile = {c} => c \in onboarded

\* A success is whole: when the last call began with no other running and was
\* answered with success, the credential, OpenClaw and the recorded provider
\* are all its own, OpenClaw's model is the chosen one or its default, and the
\* answer said so.
SuccessIsWhole ==
    \A c \in Calls :
        (c = calls /\ call[c].alone /\ call[c].answer = "success") =>
            /\ envFile = {c} /\ stateFile = {c} /\ call[c].told = {c}
            /\ openclaw.by = {c} /\ openclaw.primary \subseteq {c}

\* "connecting is its own beat with a real result" (SetupWizard.tsx:33): from
\* connecting the wizard comes to its last step or back to the key, or the
\* person loads the page again.
ConnectingHasAResult ==
    \A p \in Wizards :
        (page[p].screen = "connecting") ~> (page[p].screen \in {"done", "key", "off"})
=============================================================================
