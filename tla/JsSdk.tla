------------------------------- MODULE JsSdk --------------------------------
(***************************************************************************)
(* The JS SDK on one page: the website's commands run one after the other,   *)
(* those that depend on the user after the updates that were pending.        *)
(***************************************************************************)
EXTENDS SurveyWidget

CONSTANT Scripts   \* what a website may do: bounds and sequences of commands

VARIABLES
    script,    \* commands the website has not given yet
    reloads,   \* bound: reloads of the page
    queue,     \* CommandQueue.queue
    command,   \* the command under way: none or one, that awaits a flush or setup
    isSetup

queueVars == <<queue, command, isSetup>>
websiteVars == <<script, reloads>>
vars == <<websiteVars, queueVars, widgetVars, updateVars, fails, wishVars>>

Command ==
    [op: {"setup", "logout"}]
    \cup [op: {"setUserId"}, user: Users]
    \cup [op: {"setAttributes"}, attrs: SUBSET Attrs]
    \cup [op: {"track"}, surveys: SUBSET Surveys]

Script == [commands: Seq(Command), fails: Nat, acts: Nat, reloads: Nat]
ASSUME ScriptAssumption == Scripts \subseteq Script

TypeOK ==
    /\ UpdateTypeOK /\ OneFlush /\ WidgetTypeOK
    /\ script \in Seq(Command) /\ reloads \in Nat
    /\ queue \in Seq(Command)
    /\ command \subseteq Command /\ \A c, d \in command : c = d
    /\ isSetup \in BOOLEAN

Init ==
    /\ UpdateInit /\ WidgetInit
    /\ \E s \in Scripts :
          /\ script = s.commands /\ fails = s.fails /\ acts = s.acts /\ reloads = s.reloads
    /\ queue = <<>> /\ command = {} /\ isSetup = FALSE

-----------------------------------------------------------------------------
(* The commands                                                              *)

(* tearDown: the timers of surveys and pending updates are left alone.       *)
TearDown ==
    /\ config' = DefaultState
    /\ CloseSurvey

SetUserId(user) ==
    /\ owner' = user
    /\ IF config.user = user
       THEN UNCHANGED <<config, updates, pendingFlush, debounce, wanted, calm, widgetVars>>
       ELSE /\ IF config.user = NoUser THEN UNCHANGED <<config, widgetVars>> ELSE TearDown
            /\ Identify(user)
    /\ UNCHANGED <<failed, dropped>>

SetAttributes(attrs) ==
    /\ AddAttributes(attrs)
    /\ UNCHANGED <<config, owner, failed, dropped, widgetVars>>

Logout ==
    /\ TearDown
    /\ owner' = NoUser
    /\ UNCHANGED <<updates, pendingFlush, debounce, wanted, failed, dropped, calm>>

Track(surveys) ==
    /\ todo' = surveys
    /\ UNCHANGED <<config, updates, pendingFlush, debounce, wishVars, isSurveyRunning,
                   waiting, loading, captcha, pageVars, acts, blocked, freed>>

Execute(c) ==
    /\ CASE c.op = "setUserId" -> SetUserId(c.user)
         [] c.op = "setAttributes" -> SetAttributes(c.attrs)
         [] c.op = "logout" -> Logout
         [] c.op = "track" -> Track(c.surveys)
    /\ UNCHANGED <<flights, server, fails>>

-----------------------------------------------------------------------------
(* CommandQueue.run                                                          *)

(* Mutant: a logout does not wait.                                           *)
OnlyTrackWaits(c) == c.op = "track"

GeneralAction(c) == c.op \in {"logout", "track"}

Busy == command # {} \/ todo # {} \/ waiting # {} \/ loading # {}

(* Before setup commands are dropped.                                        *)
Run ==
    /\ ~Busy /\ queue # <<>>
    /\ queue' = Tail(queue)
    /\ LET c == Head(queue) IN
       IF c.op = "setup"
       THEN /\ command' = IF isSetup THEN {} ELSE {c}
            /\ UNCHANGED <<widgetVars, updateVars, fails, wishVars>>
       ELSE IF ~isSetup
       THEN UNCHANGED <<command, widgetVars, updateVars, fails, wishVars>>
       ELSE IF GeneralAction(c) /\ updates # {}
       THEN /\ command' = {c}
            /\ ProcessUpdates
            /\ UNCHANGED <<widgetVars, config, updates, flights, server, fails, wishVars>>
       ELSE Execute(c) /\ UNCHANGED command
    /\ UNCHANGED <<websiteVars, isSetup>>

Awaiting == \E c \in command : c.op # "setup"

(* The flush is over: the command goes on in the same turn, without another  *)
(* look at the updates.                                                      *)
Resume ==
    /\ \E c \in command : c.op # "setup" /\ Execute(c)
    /\ ~pendingFlush
    /\ command' = {}
    /\ UNCHANGED <<websiteVars, queue, isSetup>>

(* setup ends: with an error, with what is stored, or with the state of the  *)
(* stored user fetched anew.                                                 *)
SetupEnds ==
    /\ \E c \in command : c.op = "setup"
    /\ command' = {}
    /\ \/ UNCHANGED <<isSetup, config, server>>
       \/ isSetup' = TRUE /\ UNCHANGED <<config, server>>
       \/ /\ isSetup' = TRUE /\ config.user # NoUser
          /\ LET contact == Updated(server[config.user], {}) IN
             /\ server' = [server EXCEPT ![config.user] = contact]
             /\ config' = AnswerOf(config.user, contact)
    /\ UNCHANGED <<websiteVars, queue, updates, pendingFlush, debounce, flights, fails,
                   widgetVars, wishVars>>

-----------------------------------------------------------------------------
(* The website                                                               *)

Add ==
    /\ script # <<>>
    /\ queue' = Append(queue, Head(script))
    /\ script' = Tail(script)
    /\ UNCHANGED <<reloads, command, isSetup, widgetVars, updateVars, fails, wishVars>>

(* Of the SDK only the stored configuration is left: updates that wait are   *)
(* lost without a word, and so is a request under way, unless it reached the *)
(* endpoint before.                                                          *)
Reload ==
    /\ reloads > 0 /\ reloads' = reloads - 1
    /\ updates' = {} /\ pendingFlush' = FALSE /\ debounce' = FALSE /\ flights' = {}
    /\ queue' = <<>> /\ command' = {} /\ isSetup' = FALSE
    /\ EmptyPage
    /\ owner' = config.user
    /\ dropped' = dropped \cup Owned(PendingAttrs)
    /\ UNCHANGED <<script, config, server, fails, acts, wanted, failed, calm>>

(* What awaits a flush, and the surveys of an action, go on before another   *)
(* turn.                                                                     *)
Settled ==
    /\ pendingFlush \/ ~(Awaiting \/ waiting # {})
    /\ todo = {} \/ waiting # {} \/ loading # {}

Flush == (DebounceFires \/ FlightMoves) /\ UNCHANGED <<websiteVars, queueVars, widgetVars>>
Render == \E s \in Surveys : RenderStep(s) /\ UNCHANGED <<websiteVars, queueVars>>
Visitor == VisitorActs /\ UNCHANGED <<websiteVars, queueVars>>

Next ==
    \/ Resume
    \/ Render
    \/ Settled /\ (Flush \/ Run \/ SetupEnds)
    \/ Settled /\ (Add \/ Reload \/ Visitor)

Spec == Init /\ [][Next]_vars

(* The browser runs its timers and promises, and a request or a script that  *)
(* was asked for is answered or fails.                                       *)
Fairness ==
    /\ WF_vars(Resume) /\ WF_vars(Render)
    /\ WF_vars(Settled /\ Flush) /\ WF_vars(Settled /\ Run) /\ WF_vars(Settled /\ SetupEnds)

FairSpec == Spec /\ Fairness

-----------------------------------------------------------------------------
(* Properties                                                                *)

(* After a logout the browser holds no user until the next setUserId: no     *)
(* answer that was on its way, refresh or setup brings the user back.        *)
LogoutSticks == owner = NoUser => config.user = NoUser

(* The state of a user is never replaced by an older answer of the endpoint. *)
NoOlderAnswer ==
    config'.user = config.user /\ config.user # NoUser => config'.ver >= config.ver
OrderedAnswers == [][NoOlderAnswer]_vars

(* An attribute that was set for a user is at that user's contact, on its    *)
(* way to it, or its failure was logged, as long as the website's calls do   *)
(* not cross a request or a change of the user (calm).  Two cases apart, in  *)
(* which nothing is logged (dropped): a language that is set after the       *)
(* identification of its user failed stays in the browser, and what waits or *)
(* is under way when the page is reloaded is gone.                           *)
Pending ==
    UNION ({{u.user} \X u.attrs : u \in updates} \cup
           {{f.user} \X f.attrs : f \in flights})
Stored == {w \in wanted : w[2] \in server[w[1]].attrs}
Waiting == {w \in wanted : w[1] = owner /\ <<NoUser, w[2]>> \in Pending}
AttributesKept ==
    calm => wanted \subseteq Stored \cup Pending \cup Waiting \cup failed \cup dropped

(* As long as calls do not cross, a contact has only attributes that were    *)
(* set for that user, or before any user and for the user set next.          *)
AttributesOwn == calm => \A u \in Users : {u} \X server[u].attrs \subseteq wanted

(* The flag is set only while a survey is under way, unless the recaptcha    *)
(* script was blocked: it does not keep later surveys from being shown.      *)
FlagHeld == isSurveyRunning => Places # {} \/ blocked

(* One survey at a time, until the flag is freed while another survey waits  *)
(* for its delay or is in its container, and again when those are over.      *)
OneAtATime == ~freed => \A p, q \in Places : p = q

(* Every command is run: no flush, no survey and no script that fails blocks *)
(* the command queue.                                                        *)
CommandsRun == queue # <<>> ~> queue = <<>> /\ command = {}

(* A survey that took the flag is shown or gives it back.                    *)
SurveyComes == isSurveyRunning ~> ~isSurveyRunning \/ shown # <<>> \/ blocked
=============================================================================
