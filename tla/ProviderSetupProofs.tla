------------------------ MODULE ProviderSetupProofs ------------------------
(***************************************************************************)
(* What attaching a provider promises, for any number of pages and calls.  *)
(*                                                                         *)
(* A call reaches the state file only through its onboarding, which gives  *)
(* ConfiguredIsOnboarded, and the credential file only past the last       *)
(* refusal, which gives RefusalLeavesNoTrace.  For SuccessIsWhole the      *)
(* invariant follows the last call, when it began alone, from file to      *)
(* file: no other call is running, because none was when it came and none  *)
(* came after it.                                                          *)
(***************************************************************************)
EXTENDS ProviderSetup, FiniteSetTheorems, TLAPS

PageState == [screen : Steps, typed : BOOLEAN, catalogue : BOOLEAN, awaits : 0..MaxCalls]
Answer == {"none", "success", "refused", "failed", "broken"}
CallState == [phase : Active \union {"unborn", "answered"}, by : Pages, heard : BOOLEAN,
              alone : BOOLEAN, answer : Answer, told : SUBSET Calls]

(* Calls are numbered as they come, and answered once.                     *)
Numbered == \A c \in Calls : calls < c => call[c].phase = "unborn"
AnsweredAtTheEnd == \A c \in Calls : call[c].phase # "answered" => call[c].answer = "none"

(* The credential file is opened past the last refusal.                    *)
RefusedEarly ==
    \A c \in Calls : call[c].phase \in {"unborn", "checking"} \/ call[c].answer = "refused"
                        => c \notin touched

(* The state file is written past the onboarding.                          *)
Onboarded == {"setting", "writingState", "reading"}
OnboardedFirst ==
    /\ stateFile \subseteq onboarded
    /\ \A c \in Calls : call[c].phase \in Onboarded => c \in onboarded

(* Where the files stand when only call c has worked on them.              *)
Progress(c) ==
    /\ call[c].phase = "writingEnv" => envFile = {}
    /\ call[c].phase \in Onboarded \union {"onboarding"} => envFile = {c}
    /\ call[c].phase \in Onboarded => openclaw.by = {c} /\ openclaw.primary \subseteq {c}
    /\ call[c].phase = "writingState" => stateFile = {}
    /\ call[c].phase = "reading" => stateFile = {c}
    /\ call[c].answer = "success" =>
         /\ envFile = {c} /\ stateFile = {c} /\ call[c].told = {c}
         /\ openclaw.by = {c} /\ openclaw.primary \subseteq {c}

LastAlone(c) == c = calls /\ call[c].alone

Undisturbed ==
    \A c \in Calls : LastAlone(c) =>
        /\ \A d \in Calls : d # c => ~Running(d)
        /\ Progress(c)

SetupInv ==
    /\ SetupTypeOK
    /\ Numbered /\ AnsweredAtTheEnd /\ RefusedEarly /\ OnboardedFirst /\ Undisturbed

LEMMA TypesNamed ==
  /\ SetupTypeOK => page \in [Pages -> PageState] /\ call \in [Calls -> CallState]
  /\ page' \in [Pages -> PageState] /\ calls' \in 0..MaxCalls
       /\ call' \in [Calls -> CallState]
       /\ envFile' \in SUBSET Calls /\ stateFile' \in SUBSET Calls
       /\ openclaw' \in [by : SUBSET Calls, primary : SUBSET Calls]
       /\ touched' \in SUBSET Calls /\ onboarded' \in SUBSET Calls
     => SetupTypeOK'
  BY DEF SetupTypeOK, PageState, CallState, Answer

LEMMA InitHolds == Init => SetupInv
<1> SUFFICES ASSUME Init PROVE SetupInv
  OBVIOUS
<1> USE SetupAssumption DEF Init
<1>1. Pages # {} /\ (CHOOSE p \in Pages : TRUE) \in Pages
  BY DEF Pages
<1>2. \A c \in Calls : call[c].phase = "unborn" /\ call[c].answer = "none" /\ ~call[c].alone
  BY DEF Unborn
<1>3. SetupTypeOK
  BY <1>1 DEF SetupTypeOK, Unborn, Unloaded, Steps, Calls
<1> QED
  BY <1>2, <1>3 DEF SetupInv, Numbered, AnsweredAtTheEnd, RefusedEarly, OnboardedFirst,
     Undisturbed, LastAlone, Onboarded

-----------------------------------------------------------------------------
(* Steps of the pages.  Nothing but the types speaks of the pages, so a    *)
(* step that leaves the calls alone has only a page state to give.         *)

LEMMA ShowTypes ==
  ASSUME page \in [Pages -> PageState], NEW p, NEW pg \in PageState, Show(p, pg)
  PROVE  page' \in [Pages -> PageState]
  BY DEF Show, Rendered, PageState, Steps

LEMMA StayHolds ==
  ASSUME SetupInv, StaysOnPage, page' \in [Pages -> PageState]
  PROVE  SetupInv'
<1>1. SetupTypeOK'
  BY TypesNamed DEF SetupInv, SetupTypeOK, StaysOnPage, files, history
<1> QED
  BY <1>1 DEF SetupInv, Numbered, AnsweredAtTheEnd, RefusedEarly, OnboardedFirst, Undisturbed,
     LastAlone, Progress, Running, StaysOnPage, files, history

LEMMA PageStepsHold ==
  ASSUME SetupInv, NEW p \in Pages,
         Load(p) \/ Open(p) \/ Turn(p) \/ Recheck(p) \/ Dismiss(p) \/ TypeKey(p)
  PROVE  SetupInv'
<1>1. page \in [Pages -> PageState] /\ page[p] \in PageState /\ 0 \in 0..MaxCalls
  BY SetupAssumption, TypesNamed DEF SetupInv
<1> USE <1>1 DEF PageState
<1>2. CASE Load(p)
  <2>1. [page[p] EXCEPT !.catalogue = GetCarriesCatalogue,
           !.screen = IF Configured(stateFile) THEN "closed"
                      ELSE IF p \in Wizards THEN "welcome" ELSE "form"] \in PageState
    BY DEF GetCarriesCatalogue, Steps
  <2> QED BY <1>2, <2>1, ShowTypes, StayHolds DEF Load
<1>3. CASE Open(p)
  <2>1. [page[p] EXCEPT !.screen = IF p \in Wizards THEN "welcome" ELSE "form",
           !.typed = FALSE, !.awaits = 0] \in PageState
    BY DEF Steps
  <2> QED BY <1>3, <2>1, ShowTypes, StayHolds DEF Open
<1>4. CASE Turn(p)
  <2>1. PICK to \in Steps : Go(p, to)
    BY <1>4 DEF Turn
  <2>2. [page[p] EXCEPT !.screen = to] \in PageState
    OBVIOUS
  <2> QED BY <1>4, <2>1, <2>2, ShowTypes, StayHolds DEF Turn, Go
<1>5. CASE Recheck(p)
  <2>1. [page[p] EXCEPT !.catalogue = GetCarriesCatalogue] \in PageState
    BY DEF GetCarriesCatalogue
  <2> QED BY <1>5, <2>1, ShowTypes, StayHolds DEF Recheck
<1>6. CASE Dismiss(p)
  <2>1. [page[p] EXCEPT !.screen = "closed", !.typed = FALSE, !.awaits = 0] \in PageState
    BY DEF Steps
  <2> QED BY <1>6, <2>1, ShowTypes, StayHolds DEF Dismiss
<1>7. CASE TypeKey(p)
  <2>1. [page[p] EXCEPT !.typed = TRUE] \in PageState
    OBVIOUS
  <2> QED BY <1>7, <2>1, ShowTypes, StayHolds DEF TypeKey
<1> QED BY <1>2, <1>3, <1>4, <1>5, <1>6, <1>7

(* A page that hears of a call, or forgets its calls, only changes who has *)
(* heard.                                                                  *)
LEMMA HearingHolds ==
  ASSUME SetupInv, page' \in [Pages -> PageState], call' \in [Calls -> CallState],
         UNCHANGED <<calls, files, openclaw, history>>,
         \A c \in Calls :
            /\ call'[c].phase = call[c].phase /\ call'[c].answer = call[c].answer
            /\ call'[c].alone = call[c].alone /\ call'[c].told = call[c].told
  PROVE  SetupInv'
<1>1. SetupTypeOK'
  BY TypesNamed DEF SetupInv, SetupTypeOK, files, history
<1>2. Undisturbed'
  BY DEF SetupInv, Undisturbed, LastAlone, Progress, Running, files, history
<1> QED
  BY <1>1, <1>2 DEF SetupInv, Numbered, AnsweredAtTheEnd, RefusedEarly, OnboardedFirst,
     files, history

LEMMA HeardType ==
  ASSUME NEW st \in CallState, NEW yes \in BOOLEAN
  PROVE  [st EXCEPT !.heard = yes] \in CallState
  BY DEF CallState

LEMMA HearHolds ==
  ASSUME SetupInv, NEW c \in Calls, Hear(c)
  PROVE  SetupInv'
<1>1. /\ page \in [Pages -> PageState] /\ call \in [Calls -> CallState]
      /\ call[c].by \in Pages /\ page[call[c].by] \in PageState
  BY TypesNamed DEF SetupInv, CallState
<1>2. call' = [call EXCEPT ![c].heard = TRUE] /\ UNCHANGED <<calls, files, openclaw, history>>
  BY DEF Hear, HearSuccess, HearFailure
<1>3. page' \in [Pages -> PageState]
  <2> DEFINE p == call[c].by
             pg == Answered(page[p], c)
  <2>1. pg \in PageState
    <3>1. page[p] \in PageState /\ 0 \in 0..MaxCalls
      BY <1>1, SetupAssumption
    <3>2. [page[p] EXCEPT !.awaits = 0, !.typed = FALSE] \in PageState
      BY <3>1 DEF PageState
    <3> QED BY <3>1, <3>2 DEF Answered
  <2>2. CASE HearSuccess(c)
    <3>1. [pg EXCEPT !.catalogue = PostCarriesCatalogue,
                     !.screen = IF p \in Wizards THEN "done" ELSE "closed"] \in PageState
      BY <2>1 DEF PageState, Steps, PostCarriesCatalogue
    <3> QED BY <1>1, <2>2, <3>1, ShowTypes DEF HearSuccess
  <2>3. CASE HearFailure(c)
    <3>1. (IF pg.screen = "connecting" THEN [pg EXCEPT !.screen = "key"] ELSE pg) \in PageState
      BY <2>1 DEF PageState, Steps
    <3> QED BY <1>1, <2>3, <3>1, ShowTypes DEF HearFailure
  <2> QED BY <2>2, <2>3 DEF Hear
<1>4. call' \in [Calls -> CallState]
  <2>1. [call[c] EXCEPT !.heard = TRUE] \in CallState
    BY <1>1, HeardType
  <2> QED BY <1>1, <1>2, <2>1
<1>5. \A d \in Calls :
        /\ call'[d].phase = call[d].phase /\ call'[d].answer = call[d].answer
        /\ call'[d].alone = call[d].alone /\ call'[d].told = call[d].told
  BY <1>1, <1>2 DEF CallState
<1> QED BY <1>2, <1>3, <1>4, <1>5, HearingHolds

LEMMA ReloadHolds ==
  ASSUME SetupInv, NEW p \in Pages, Reload(p)
  PROVE  SetupInv'
<1>1. page \in [Pages -> PageState] /\ call \in [Calls -> CallState] /\ 0 \in 0..MaxCalls
  BY SetupAssumption, TypesNamed DEF SetupInv
<1>2. page' \in [Pages -> PageState]
  BY <1>1 DEF Reload, Unloaded, PageState, Steps
<1>3. call' \in [Calls -> CallState]
  <2>1. \A d \in Calls, yes \in BOOLEAN : [call[d] EXCEPT !.heard = yes] \in CallState
    BY <1>1, HeardType
  <2>2. call' = [d \in Calls |-> [call[d] EXCEPT !.heard = @ \/ (call[d].by = p /\ d <= calls)]]
    BY DEF Reload
  <2>3. \A d \in Calls : (call[d].heard \/ (call[d].by = p /\ d <= calls)) \in BOOLEAN
    OBVIOUS
  <2> QED BY <2>1, <2>2, <2>3
<1>4. \A d \in Calls :
        /\ call'[d].phase = call[d].phase /\ call'[d].answer = call[d].answer
        /\ call'[d].alone = call[d].alone /\ call'[d].told = call[d].told
  BY <1>1 DEF Reload, CallState
<1> QED BY <1>2, <1>3, <1>4, HearingHolds DEF Reload

-----------------------------------------------------------------------------
(* A call arrives.                                                         *)

LEMMA SubmitHolds ==
  ASSUME SetupInv, NEW p \in Pages, NEW good \in BOOLEAN, Submit(p, good)
  PROVE  SetupInv'
<1> DEFINE new == [phase |-> IF good THEN "checking" ELSE "answered", by |-> p,
                   heard |-> FALSE, alone |-> \A d \in Calls : ~Running(d),
                   answer |-> IF good THEN "none" ELSE "refused", told |-> {}]
           n == calls + 1
<1>1. /\ page \in [Pages -> PageState] /\ call \in [Calls -> CallState]
      /\ calls \in 0..MaxCalls /\ MaxCalls \in Nat /\ calls < MaxCalls
  BY SetupAssumption, TypesNamed DEF SetupInv, SetupTypeOK, Submit, Arrive
<1>2. /\ calls' = n /\ n \in Calls /\ n \in 0..MaxCalls
      /\ call' = [call EXCEPT ![n] = new]
      /\ UNCHANGED <<files, openclaw, history>>
  BY <1>1 DEF Submit, Arrive, Calls
<1>3. call' \in [Calls -> CallState]
  <2>1. new \in CallState
    BY DEF CallState, Active, Answer
  <2> QED BY <1>1, <1>2, <2>1
<1>4. page' \in [Pages -> PageState]
  <2>1. page[p] \in PageState
    BY <1>1
  <2>2. [page[p] EXCEPT !.awaits = n,
                        !.screen = IF @ = "key" THEN "connecting" ELSE @] \in PageState
    BY <1>2, <2>1 DEF PageState, Steps
  <2> QED BY <1>1, <1>2, <2>2, ShowTypes DEF Submit
<1>5. SetupTypeOK'
  BY <1>2, <1>3, <1>4, TypesNamed DEF SetupInv, SetupTypeOK, files, history
<1>6. /\ call'[n] = new
      /\ \A d \in Calls : d # n => call'[d] = call[d]
  BY <1>1, <1>2
<1>7. call[n].phase = "unborn" /\ n \notin touched
  BY <1>1, <1>2 DEF SetupInv, Numbered, RefusedEarly
<1>8. Numbered' /\ AnsweredAtTheEnd' /\ RefusedEarly' /\ OnboardedFirst'
  BY <1>1, <1>2, <1>6, <1>7 DEF SetupInv, Numbered, AnsweredAtTheEnd, RefusedEarly, OnboardedFirst,
     Onboarded, Calls, files, history
<1>9. Undisturbed'
  <2> SUFFICES ASSUME NEW c \in Calls, LastAlone(c)'
               PROVE  /\ \A d \in Calls : d # c => ~Running(d)'
                      /\ Progress(c)'
    BY DEF Undisturbed
  <2>1. c = n
    BY <1>2 DEF LastAlone
  <2>2. \A d \in Calls : ~Running(d)
    BY <1>6, <2>1 DEF LastAlone
  <2>3. \A d \in Calls : d # c => ~Running(d)'
    BY <1>6, <2>1, <2>2 DEF Running
  <2>4. Progress(c)'
    BY <1>6, <2>1 DEF Progress, Onboarded
  <2> QED BY <2>3, <2>4
<1> QED BY <1>5, <1>8, <1>9 DEF SetupInv

-----------------------------------------------------------------------------
(* The handler.  Each of its steps takes one running call c from its phase *)
(* to the next or to its answer: what is shown of the step is what it does *)
(* to the files, and that its files are c's when c is the last and alone.  *)

LEMMA HandlerStep ==
  ASSUME SetupInv, NEW c \in Calls, Running(c), UNCHANGED <<page, calls>>,
         call' \in [Calls -> CallState], call'[c].alone = call[c].alone,
         \A d \in Calls : d # c => call'[d] = call[d],
         call'[c].phase \in Active \union {"answered"},
         call'[c].phase # "answered" => call'[c].answer = "none",
         call'[c].phase = "checking" \/ call'[c].answer = "refused" => c \notin touched',
         touched' \subseteq touched \union {c},
         onboarded \subseteq onboarded', onboarded' \in SUBSET Calls,
         stateFile' \subseteq stateFile \union {c},
         c \in stateFile' \ stateFile \/ call'[c].phase \in Onboarded => c \in onboarded',
         envFile' \in SUBSET Calls,
         openclaw' \in [by : SUBSET Calls, primary : SUBSET Calls],
         LastAlone(c) => Progress(c)'
  PROVE  SetupInv'
<1>1. call[c].phase \in Active /\ call[c].phase # "unborn" /\ call[c].phase # "answered"
  BY DEF Running, Active
<1>2. SetupTypeOK'
  BY TypesNamed DEF SetupInv, SetupTypeOK
<1>3. Numbered'
  <2> SUFFICES ASSUME NEW d \in Calls, calls < d PROVE call'[d].phase = "unborn"
    BY DEF Numbered
  <2>1. d # c
    BY <1>1 DEF SetupInv, Numbered
  <2> QED BY <2>1 DEF SetupInv, Numbered
<1>4. AnsweredAtTheEnd'
  BY DEF SetupInv, AnsweredAtTheEnd
<1>5. RefusedEarly'
  <2> SUFFICES ASSUME NEW d \in Calls,
                      call'[d].phase \in {"unborn", "checking"} \/ call'[d].answer = "refused"
               PROVE  d \notin touched'
    BY DEF RefusedEarly
  <2>1. CASE d = c
    BY <2>1 DEF Active
  <2>2. CASE d # c
    BY <2>2 DEF SetupInv, RefusedEarly
  <2> QED BY <2>1, <2>2
<1>6. OnboardedFirst'
  BY DEF SetupInv, OnboardedFirst
<1>7. Undisturbed'
  <2> SUFFICES ASSUME NEW e \in Calls, LastAlone(e)'
               PROVE  /\ \A d \in Calls : d # e => ~Running(d)'
                      /\ Progress(e)'
    BY DEF Undisturbed
  <2>1. LastAlone(e)
    BY DEF LastAlone
  <2>2. e = c
    BY <2>1 DEF SetupInv, Undisturbed
  <2>3. \A d \in Calls : d # e => ~Running(d)'
    BY <2>1, <2>2 DEF SetupInv, Undisturbed, Running
  <2> QED BY <2>1, <2>2, <2>3
<1> QED BY <1>2, <1>3, <1>4, <1>5, <1>6, <1>7 DEF SetupInv

(* What a handler step makes of its call.                                  *)
LEMMA ProceedsTo ==
  ASSUME call \in [Calls -> CallState], NEW c \in Calls, NEW from \in Active, NEW to \in Active,
         AnsweredAtTheEnd, Proceeds(c, from, to)
  PROVE  /\ Running(c) /\ call' \in [Calls -> CallState]
         /\ call'[c].phase = to /\ call'[c].answer = "none"
         /\ call'[c].alone = call[c].alone
         /\ \A d \in Calls : d # c => call'[d] = call[d]
<1>1. call[c] \in CallState /\ call[c].answer = "none"
  BY DEF AnsweredAtTheEnd, Proceeds, Active
<1>2. [call[c] EXCEPT !.phase = to] \in CallState
  BY <1>1 DEF CallState
<1> QED BY <1>1, <1>2 DEF Proceeds, Running, CallState

LEMMA AnswersWith ==
  ASSUME call \in [Calls -> CallState], NEW c \in Calls, NEW from \in Active,
         NEW answer \in Answer, Answers(c, from, answer)
  PROVE  /\ Running(c) /\ call' \in [Calls -> CallState]
         /\ call'[c].phase = "answered" /\ call'[c].answer = answer
         /\ call'[c].alone = call[c].alone
         /\ \A d \in Calls : d # c => call'[d] = call[d]
<1>1. call[c] \in CallState
  OBVIOUS
<1>2. [call[c] EXCEPT !.phase = "answered", !.answer = answer] \in CallState
  BY <1>1 DEF CallState
<1> QED BY <1>1, <1>2 DEF Answers, Running, CallState

(* An answer that is no success says nothing of the files.                 *)
LEMMA FailureIsNoProgress ==
  ASSUME NEW c \in Calls, call'[c].phase = "answered", call'[c].answer # "success"
  PROVE  Progress(c)'
  BY DEF Progress, Onboarded

LEMMA CheckedHolds ==
  ASSUME SetupInv, NEW c \in Calls, Checked(c)
  PROVE  SetupInv'
<1>1. call \in [Calls -> CallState] /\ AnsweredAtTheEnd /\ c \in Calls /\ SetupTypeOK
  BY TypesNamed DEF SetupInv
<1>2. CASE Proceeds(c, "checking", "writingEnv") /\ envFile' = {} /\ touched' = touched \union {c}
  <2>1. /\ Running(c) /\ call' \in [Calls -> CallState]
        /\ call'[c].phase = "writingEnv" /\ call'[c].answer = "none"
        /\ call'[c].alone = call[c].alone /\ \A d \in Calls : d # c => call'[d] = call[d]
    BY <1>1, <1>2, ProceedsTo DEF Active
  <2>2. Progress(c)'
    BY <1>2, <2>1 DEF Progress, Onboarded
  <2> QED
    BY <1>1, <1>2, <2>1, <2>2, HandlerStep DEF Checked, Active, Onboarded, SetupTypeOK
<1>3. CASE /\ Answers(c, "checking", "refused") \/ Answers(c, "checking", "broken")
           /\ UNCHANGED <<envFile, touched>>
  <2>1. /\ Running(c) /\ call' \in [Calls -> CallState]
        /\ call'[c].phase = "answered" /\ call'[c].answer \in {"refused", "broken"}
        /\ call'[c].alone = call[c].alone /\ \A d \in Calls : d # c => call'[d] = call[d]
    BY <1>1, <1>3, AnswersWith DEF Active, Answer
  <2>2. Progress(c)'
    BY <2>1, FailureIsNoProgress
  <2>3. c \notin touched
    BY <1>3 DEF SetupInv, RefusedEarly, Answers
  <2> QED
    BY <1>1, <1>3, <2>1, <2>2, <2>3, HandlerStep DEF Checked, Onboarded, SetupTypeOK
<1> QED BY <1>2, <1>3 DEF Checked

LEMMA EnvWrittenHolds ==
  ASSUME SetupInv, NEW c \in Calls, EnvWritten(c)
  PROVE  SetupInv'
<1>1. call \in [Calls -> CallState] /\ AnsweredAtTheEnd /\ c \in Calls /\ SetupTypeOK
  BY TypesNamed DEF SetupInv
<1>2. CASE Proceeds(c, "writingEnv", "onboarding") /\ envFile' \in Overwritten(envFile, c)
  <2>1. /\ Running(c) /\ call' \in [Calls -> CallState]
        /\ call'[c].phase = "onboarding" /\ call'[c].answer = "none"
        /\ call'[c].alone = call[c].alone /\ \A d \in Calls : d # c => call'[d] = call[d]
    BY <1>1, <1>2, ProceedsTo DEF Active
  <2>2. LastAlone(c) => Progress(c)'
    <3>1. LastAlone(c) => envFile = {}
      BY <1>2 DEF SetupInv, Undisturbed, Progress, Proceeds
    <3> QED BY <1>2, <2>1, <3>1 DEF Progress, Onboarded, Overwritten
  <2>3. envFile' \in SUBSET Calls
    BY <1>1, <1>2 DEF Overwritten, SetupTypeOK
  <2> QED
    BY <1>1, <2>1, <2>2, <2>3, HandlerStep DEF EnvWritten, Active, Onboarded, SetupTypeOK, history
<1>3. CASE Answers(c, "writingEnv", "broken") /\ envFile' \in {envFile, {c}}
  <2>1. /\ Running(c) /\ call' \in [Calls -> CallState]
        /\ call'[c].phase = "answered" /\ call'[c].answer = "broken"
        /\ call'[c].alone = call[c].alone /\ \A d \in Calls : d # c => call'[d] = call[d]
    BY <1>1, <1>3, AnswersWith DEF Active, Answer
  <2>2. Progress(c)'
    BY <2>1, FailureIsNoProgress
  <2> QED
    BY <1>1, <1>3, <2>1, <2>2, HandlerStep DEF EnvWritten, Onboarded, SetupTypeOK, history
<1> QED BY <1>2, <1>3 DEF EnvWritten

LEMMA OnboardsHolds ==
  ASSUME SetupInv, NEW c \in Calls, Onboards(c)
  PROVE  SetupInv'
<1>1. call \in [Calls -> CallState] /\ AnsweredAtTheEnd /\ c \in Calls /\ SetupTypeOK
  BY TypesNamed DEF SetupInv
<1>2. CASE /\ Proceeds(c, "onboarding", "setting")
           /\ openclaw' = [by |-> {c}, primary |-> {}] /\ onboarded' = onboarded \union {c}
  <2>1. /\ Running(c) /\ call' \in [Calls -> CallState]
        /\ call'[c].phase = "setting" /\ call'[c].answer = "none"
        /\ call'[c].alone = call[c].alone /\ \A d \in Calls : d # c => call'[d] = call[d]
    BY <1>1, <1>2, ProceedsTo DEF Active
  <2>2. LastAlone(c) => Progress(c)'
    <3>1. LastAlone(c) => envFile = {c}
      BY <1>2 DEF SetupInv, Undisturbed, Progress, Proceeds
    <3> QED BY <1>2, <2>1, <3>1 DEF Progress, Onboarded, Onboards, files
  <2> QED
    BY <1>1, <1>2, <2>1, <2>2, HandlerStep
       DEF Onboards, Active, Onboarded, SetupTypeOK, files
<1>3. CASE /\ Answers(c, "onboarding", "failed") /\ UNCHANGED onboarded
           /\ openclaw' \in {openclaw, [by |-> {c}, primary |-> {}]}
  <2>1. /\ Running(c) /\ call' \in [Calls -> CallState]
        /\ call'[c].phase = "answered" /\ call'[c].answer = "failed"
        /\ call'[c].alone = call[c].alone /\ \A d \in Calls : d # c => call'[d] = call[d]
    BY <1>1, <1>3, AnswersWith DEF Active, Answer
  <2>2. Progress(c)'
    BY <2>1, FailureIsNoProgress
  <2> QED
    BY <1>1, <1>3, <2>1, <2>2, HandlerStep DEF Onboards, Onboarded, SetupTypeOK, files
<1> QED BY <1>2, <1>3 DEF Onboards

LEMMA SetsModelHolds ==
  ASSUME SetupInv, NEW c \in Calls, SetsModel(c)
  PROVE  SetupInv'
<1>1. call \in [Calls -> CallState] /\ AnsweredAtTheEnd /\ c \in Calls /\ SetupTypeOK
  BY TypesNamed DEF SetupInv
<1>2. /\ openclaw' \in [by : SUBSET Calls, primary : SUBSET Calls]
      /\ openclaw'.by = openclaw.by /\ openclaw'.primary \subseteq openclaw.primary \union {c}
  BY <1>1 DEF SetsModel, SetupTypeOK
<1>3. CASE Proceeds(c, "setting", "writingState") /\ stateFile' = {}
  <2>1. /\ Running(c) /\ call' \in [Calls -> CallState]
        /\ call'[c].phase = "writingState" /\ call'[c].answer = "none"
        /\ call'[c].alone = call[c].alone /\ \A d \in Calls : d # c => call'[d] = call[d]
    BY <1>1, <1>3, ProceedsTo DEF Active
  <2>2. LastAlone(c) => Progress(c)'
    <3>1. LastAlone(c) => envFile = {c} /\ openclaw.by = {c} /\ openclaw.primary \subseteq {c}
      BY <1>3 DEF SetupInv, Undisturbed, Progress, Proceeds, Onboarded
    <3> QED BY <1>2, <1>3, <2>1, <3>1 DEF Progress, Onboarded, SetsModel
  <2>3. c \in onboarded
    BY <1>3 DEF SetupInv, OnboardedFirst, Onboarded, Proceeds
  <2> QED
    BY <1>1, <1>2, <1>3, <2>1, <2>2, <2>3, HandlerStep
       DEF SetsModel, Active, Onboarded, SetupTypeOK, history
<1>4. CASE Answers(c, "setting", "broken") /\ UNCHANGED stateFile
  <2>1. /\ Running(c) /\ call' \in [Calls -> CallState]
        /\ call'[c].phase = "answered" /\ call'[c].answer = "broken"
        /\ call'[c].alone = call[c].alone /\ \A d \in Calls : d # c => call'[d] = call[d]
    BY <1>1, <1>4, AnswersWith DEF Active, Answer
  <2>2. Progress(c)'
    BY <2>1, FailureIsNoProgress
  <2> QED
    BY <1>1, <1>2, <1>4, <2>1, <2>2, HandlerStep DEF SetsModel, Onboarded, SetupTypeOK, history
<1> QED BY <1>3, <1>4 DEF SetsModel

LEMMA StateWrittenHolds ==
  ASSUME SetupInv, NEW c \in Calls, StateWritten(c)
  PROVE  SetupInv'
<1>1. call \in [Calls -> CallState] /\ AnsweredAtTheEnd /\ c \in Calls /\ SetupTypeOK
  BY TypesNamed DEF SetupInv
<1>2. c \in onboarded
  BY DEF SetupInv, OnboardedFirst, Onboarded, StateWritten, Proceeds, Answers
<1>3. CASE Proceeds(c, "writingState", "reading") /\ stateFile' \in Overwritten(stateFile, c)
  <2>1. /\ Running(c) /\ call' \in [Calls -> CallState]
        /\ call'[c].phase = "reading" /\ call'[c].answer = "none"
        /\ call'[c].alone = call[c].alone /\ \A d \in Calls : d # c => call'[d] = call[d]
    BY <1>1, <1>3, ProceedsTo DEF Active
  <2>2. LastAlone(c) => Progress(c)'
    <3>1. LastAlone(c) => /\ envFile = {c} /\ stateFile = {}
                          /\ openclaw.by = {c} /\ openclaw.primary \subseteq {c}
      BY <1>3 DEF SetupInv, Undisturbed, Progress, Proceeds, Onboarded
    <3> QED BY <1>3, <2>1, <3>1 DEF Progress, Onboarded, StateWritten, Overwritten
  <2>3. stateFile' \subseteq stateFile \union {c}
    BY <1>3 DEF Overwritten
  <2> QED
    BY <1>1, <1>2, <2>1, <2>2, <2>3, HandlerStep
       DEF StateWritten, Active, Onboarded, SetupTypeOK, history
<1>4. CASE Answers(c, "writingState", "broken") /\ stateFile' \in {stateFile, {c}}
  <2>1. /\ Running(c) /\ call' \in [Calls -> CallState]
        /\ call'[c].phase = "answered" /\ call'[c].answer = "broken"
        /\ call'[c].alone = call[c].alone /\ \A d \in Calls : d # c => call'[d] = call[d]
    BY <1>1, <1>4, AnswersWith DEF Active, Answer
  <2>2. Progress(c)'
    BY <2>1, FailureIsNoProgress
  <2> QED
    BY <1>1, <1>2, <1>4, <2>1, <2>2, HandlerStep DEF StateWritten, Onboarded, SetupTypeOK, history
<1> QED BY <1>3, <1>4 DEF StateWritten

LEMMA SucceedsHolds ==
  ASSUME SetupInv, NEW c \in Calls, Succeeds(c)
  PROVE  SetupInv'
<1> DEFINE told == IF Configured(stateFile) /\ envFile # {} THEN stateFile ELSE {}
<1>1. call \in [Calls -> CallState] /\ call[c] \in CallState /\ c \in Calls /\ SetupTypeOK
  BY TypesNamed DEF SetupInv
<1>2. /\ call' = [call EXCEPT ![c].phase = "answered", ![c].answer = "success", ![c].told = told]
      /\ Running(c)
  BY DEF Succeeds, Running, Active
<1>3. [call[c] EXCEPT !.phase = "answered", !.answer = "success", !.told = told] \in CallState
  <2>1. told \in SUBSET Calls
    BY <1>1 DEF SetupTypeOK
  <2> QED BY <1>1, <2>1 DEF CallState, Answer
<1>4. /\ call' \in [Calls -> CallState]
      /\ call'[c].phase = "answered" /\ call'[c].answer = "success" /\ call'[c].told = told
      /\ call'[c].alone = call[c].alone /\ \A d \in Calls : d # c => call'[d] = call[d]
  BY <1>1, <1>2, <1>3 DEF CallState
<1>5. LastAlone(c) => Progress(c)'
  <2> SUFFICES ASSUME LastAlone(c) PROVE Progress(c)'
    OBVIOUS
  <2>1. /\ envFile = {c} /\ stateFile = {c}
        /\ openclaw.by = {c} /\ openclaw.primary \subseteq {c}
    BY DEF SetupInv, Undisturbed, Progress, Succeeds, Onboarded
  <2>2. told = {c}
    BY <2>1, FS_Singleton DEF Configured
  <2> QED BY <1>4, <2>1, <2>2 DEF Progress, Onboarded, Succeeds, files
<1> QED
  BY <1>1, <1>2, <1>4, <1>5, HandlerStep DEF Succeeds, Onboarded, SetupTypeOK, files, history

(* The bridge stops: what was running has failed.                          *)
LEMMA CrashHolds ==
  ASSUME SetupInv, Crash
  PROVE  SetupInv'
<1>1. call \in [Calls -> CallState] /\ SetupTypeOK
  BY TypesNamed DEF SetupInv
<1>2. ASSUME NEW c \in Calls
      PROVE  [call[c] EXCEPT !.phase = "answered", !.answer = "broken"] \in CallState
  <2>1. call[c] \in CallState /\ "broken" \in Answer
    BY <1>1 DEF Answer
  <2> QED BY <2>1 DEF CallState
<1>3. /\ call' \in [Calls -> CallState]
      /\ \A c \in Calls :
           /\ call'[c].alone = call[c].alone
           /\ Running(c) => call'[c].phase = "answered" /\ call'[c].answer = "broken"
           /\ ~Running(c) => call'[c] = call[c]
  BY <1>1, <1>2 DEF Crash, CallState
<1>4. openclaw' \in [by : SUBSET Calls, primary : SUBSET Calls]
  <2>1. CASE UNCHANGED openclaw
    BY <1>1, <2>1 DEF SetupTypeOK
  <2>2. CASE \E c \in Calls : openclaw' = [by |-> {c}, primary |-> {}]
    BY <2>2
  <2> QED BY <2>1, <2>2 DEF Crash
<1>5. SetupTypeOK'
  BY <1>1, <1>3, <1>4, TypesNamed DEF SetupTypeOK, Crash, files, history
<1>6. Numbered' /\ AnsweredAtTheEnd' /\ RefusedEarly' /\ OnboardedFirst'
  BY <1>3 DEF SetupInv, Numbered, AnsweredAtTheEnd, RefusedEarly, OnboardedFirst, Onboarded,
     Running, Active, Crash, files, history
<1>7. Undisturbed'
  <2> SUFFICES ASSUME NEW c \in Calls, LastAlone(c)'
               PROVE  /\ \A d \in Calls : d # c => ~Running(d)'
                      /\ Progress(c)'
    BY DEF Undisturbed
  <2>1. LastAlone(c)
    BY <1>3 DEF LastAlone, Crash
  <2>2. \A d \in Calls : ~Running(d)'
    BY <1>3 DEF Running, Active
  <2>3. Running(c)
    BY <2>1 DEF SetupInv, Undisturbed, Crash
  <2>4. call'[c].phase = "answered" /\ call'[c].answer # "success"
    BY <1>3, <2>3
  <2>5. Progress(c)'
    BY <2>4, FailureIsNoProgress
  <2> QED BY <2>2, <2>5
<1> QED BY <1>5, <1>6, <1>7 DEF SetupInv

-----------------------------------------------------------------------------
LEMMA NextHolds == SetupInv /\ [Next]_vars => SetupInv'
<1> SUFFICES ASSUME SetupInv, [Next]_vars PROVE SetupInv'
  OBVIOUS
<1>1. CASE UNCHANGED vars
  <2>1. page' \in [Pages -> PageState]
    BY <1>1, TypesNamed DEF SetupInv, vars
  <2> QED BY <1>1, <2>1, StayHolds DEF vars, StaysOnPage
<1>2. ASSUME NEW p \in Pages, Page(p) PROVE SetupInv'
  BY <1>2, PageStepsHold, SubmitHolds, ReloadHolds DEF Page
<1>3. ASSUME NEW c \in Calls, Handler(c) \/ Hear(c) PROVE SetupInv'
  BY <1>3, CheckedHolds, EnvWrittenHolds, OnboardsHolds, SetsModelHolds, StateWrittenHolds,
     SucceedsHolds, HearHolds DEF Handler
<1>4. CASE Crash
  BY <1>4, CrashHolds
<1> QED BY <1>1, <1>2, <1>3, <1>4 DEF Next

(* SetupInv is an invariant of the attaching of providers.                 *)
THEOREM SetupInvariant == Spec => []SetupInv
  BY InitHolds, NextHolds, PTL DEF Spec

(* A refused call has not opened the credential file.                      *)
THEOREM RefusalsAreClean == Spec => []RefusalLeavesNoTrace
<1>1. SetupInv => RefusalLeavesNoTrace
  BY DEF SetupInv, RefusedEarly, RefusalLeavesNoTrace
<1> QED BY SetupInvariant, <1>1, PTL

(* A machine is configured only for a call whose onboarding succeeded.     *)
THEOREM ConfiguredAfterOnboarding == Spec => []ConfiguredIsOnboarded
<1>1. SetupInv => ConfiguredIsOnboarded
  BY DEF SetupInv, OnboardedFirst, ConfiguredIsOnboarded
<1> QED BY SetupInvariant, <1>1, PTL

(* A call that began alone, was the last, and was answered with success    *)
(* has its credential, its OpenClaw and its recorded provider in place.    *)
THEOREM SuccessesAreWhole == Spec => []SuccessIsWhole
<1>1. SetupInv => SuccessIsWhole
  BY DEF SetupInv, Undisturbed, LastAlone, Progress, SuccessIsWhole
<1> QED BY SetupInvariant, <1>1, PTL
=============================================================================
