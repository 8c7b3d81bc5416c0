---------------------------- MODULE SurveyWidget ----------------------------
(***************************************************************************)
(* How a survey gets on the page: one at a time, by the flag                 *)
(* isSurveyRunning, after the user is identified, its script and the         *)
(* recaptcha script are there and its delay is over.                         *)
(***************************************************************************)
EXTENDS UpdateQueue, Sequences, SequencesExt

CONSTANTS
    Surveys,
    Segmented,   \* surveys whose segment has filters
    Guarded      \* surveys with spam protection

ASSUME SurveyAssumption == Segmented \subseteq Surveys /\ Guarded \subseteq Surveys

VARIABLES
    isSurveyRunning,
    todo,       \* surveys the current action still has to trigger
    waiting,    \* the survey that waits for the identification
    loading,    \* the survey that waits for its scripts
    stack,      \* TimeoutStack: the delays that were started, and which are over
    shown,      \* surveys in a container on the page
    captcha,    \* is the recaptcha script in the page?
    acts,       \* bound: interactions with a survey that is shown
    blocked,    \* history: did the recaptcha script fail to load?
    freed       \* history: was the flag freed with a survey still under way?

pageVars == <<stack, shown>>
renderVars == <<isSurveyRunning, todo, waiting, loading, captcha>>
widgetVars == <<renderVars, pageVars, acts, blocked, freed>>

Timeout == [survey: Surveys, over: BOOLEAN]

RenderTypeOK ==
    /\ isSurveyRunning \in BOOLEAN /\ captcha \in BOOLEAN
    /\ blocked \in BOOLEAN /\ freed \in BOOLEAN
    /\ todo \subseteq Surveys /\ waiting \subseteq Surveys /\ loading \subseteq Surveys

PageTypeOK == stack \in Seq(Timeout) /\ shown \in Seq(Surveys) /\ acts \in Nat

WidgetTypeOK == RenderTypeOK /\ PageTypeOK

EmptyPage ==
    /\ isSurveyRunning' = FALSE /\ captcha' = FALSE /\ blocked' = FALSE /\ freed' = FALSE
    /\ todo' = {} /\ waiting' = {} /\ loading' = {} /\ stack' = <<>> /\ shown' = <<>>

WidgetInit ==
    /\ isSurveyRunning = FALSE /\ captcha = FALSE /\ blocked = FALSE /\ freed = FALSE
    /\ todo = {} /\ waiting = {} /\ loading = {} /\ stack = <<>> /\ shown = <<>>

Delayed == {i \in DOMAIN stack : ~stack[i].over}

(* Where a survey that is under way is.                                      *)
Places ==
    ({"identification"} \X waiting) \cup ({"scripts"} \X loading)
    \cup ({"delay"} \X Delayed) \cup ({"container"} \X DOMAIN shown)

FlagFreed == isSurveyRunning' = FALSE /\ freed' = (Places' # {})

(* closeSurvey removes the first container and frees the flag.               *)
CloseSurvey ==
    /\ shown' = IF shown = <<>> THEN <<>> ELSE Tail(shown)
    /\ UNCHANGED <<todo, waiting, loading, captcha, stack, acts, blocked>>
    /\ FlagFreed

-----------------------------------------------------------------------------
(* triggerSurvey and renderWidget, for one survey after the other            *)

HasPendingWork == updates # {} \/ pendingFlush

(* Mutant: a survey is rendered although another one runs.                   *)
NeverRunning == FALSE

Running == isSurveyRunning

Trigger(s) ==
    /\ s \in todo /\ waiting = {} /\ loading = {}
    /\ todo' = todo \ {s}
    /\ \/ UNCHANGED <<isSurveyRunning, waiting, loading, pendingFlush, debounce>>
       \/ /\ ~Running
          /\ isSurveyRunning' = TRUE
          /\ IF HasPendingWork
             THEN waiting' = {s} /\ ProcessUpdates /\ UNCHANGED loading
             ELSE loading' = {s} /\ UNCHANGED <<waiting, pendingFlush, debounce>>
    /\ UNCHANGED <<captcha, pageVars, acts, blocked, freed,
                   config, updates, flights, server, fails, wishVars>>

Identified(s) ==
    /\ s \in waiting /\ ~pendingFlush
    /\ waiting' = {} /\ loading' = {s}
    /\ UNCHANGED <<isSurveyRunning, todo, captcha, pageVars, acts, blocked, freed>>

(* After five seconds; the debounce is over by then.                         *)
IdentificationTimesOut(s) ==
    /\ s \in waiting /\ pendingFlush /\ ~debounce
    /\ UNCHANGED <<todo, captcha, pageVars, acts, blocked>>
    /\ waiting' = {}
    /\ IF s \in Segmented
       THEN UNCHANGED loading /\ FlagFreed
       ELSE loading' = {s} /\ UNCHANGED <<isSurveyRunning, freed>>

(* Mutant: a survey without the language keeps the flag.                     *)
KeepFlag == UNCHANGED <<isSurveyRunning, freed>>

GiveUp == FlagFreed

(* The survey is not there in the language, or its library does not load.    *)
NotAvailable(s) ==
    /\ s \in loading /\ loading' = {}
    /\ UNCHANGED <<todo, waiting, captcha, pageVars, acts, blocked>>
    /\ GiveUp

(* loadRecaptchaScript rejects; nobody catches it before the command queue.  *)
RecaptchaFails(s) ==
    /\ s \in loading \cap Guarded /\ loading' = {}
    /\ ~captcha /\ captcha' = TRUE
    /\ todo' = {}
    /\ blocked' = TRUE
    /\ UNCHANGED <<isSurveyRunning, waiting, pageVars, acts, freed>>

Loaded(s) ==
    /\ s \in loading /\ loading' = {}
    /\ captcha' = (captcha \/ s \in Guarded)
    /\ stack' = Append(stack, [survey |-> s, over |-> FALSE])
    /\ UNCHANGED <<isSurveyRunning, todo, waiting, shown, acts, blocked, freed>>

(* The entry stays in the stack.                                             *)
TimerFires(s) ==
    /\ \E i \in Delayed :
          /\ stack[i].survey = s
          /\ stack' = [stack EXCEPT ![i].over = TRUE]
    /\ shown' = Append(shown, s)
    /\ UNCHANGED <<renderVars, acts, blocked, freed>>

RenderStep(s) ==
    \/ Trigger(s)
    \/ /\ \/ Identified(s) \/ IdentificationTimesOut(s) \/ NotAvailable(s)
          \/ RecaptchaFails(s) \/ Loaded(s) \/ TimerFires(s)
       /\ UNCHANGED <<updateVars, fails, wishVars>>

-----------------------------------------------------------------------------
(* What the visitor does                                                     *)

(* onDisplayCreated, onResponseCreated, onFinished                           *)
Interact(s) ==
    /\ s \in ToSet(shown) /\ acts > 0 /\ acts' = acts - 1
    /\ RefreshSegments
    /\ UNCHANGED <<renderVars, pageVars, blocked, freed,
                   config, flights, server, fails, wishVars>>

Close ==
    /\ shown # <<>>
    /\ CloseSurvey
    /\ UNCHANGED <<updateVars, fails, wishVars>>

(* checkPageUrl and checkTimeOnPage, on a page that the action of s does not *)
(* match: the first entry is removed, its timer cleared, over or not.        *)
LeavePage(s) ==
    /\ \E i \in DOMAIN stack :
          /\ stack[i].survey = s /\ \A j \in 1..(i-1) : stack[j].survey # s
          /\ stack' = RemoveAt(stack, i)
    /\ UNCHANGED <<todo, waiting, loading, captcha, shown, acts, blocked,
                   updateVars, fails, wishVars>>
    /\ FlagFreed

VisitorActs == Close \/ \E s \in Surveys : Interact(s) \/ LeavePage(s)
=============================================================================
