---------------------------- MODULE JsSdkProofs -----------------------------
(***************************************************************************)
(* The JS SDK keeps its types, a logout sticks, answers of the endpoint are  *)
(* taken over in their order, the flag of a running survey is not lost, and  *)
(* attributes are kept with their owner while calls do not cross, for any    *)
(* website, users, attributes and surveys.                                   *)
(***************************************************************************)
EXTENDS JsSdk, TLAPS

-----------------------------------------------------------------------------
(* Types                                                                     *)

LEMMA PendingTyped == ASSUME UpdateTypeOK PROVE PendingUser \in Users \cup {NoUser} /\ PendingAttrs \subseteq Attrs
<1>1. CASE updates = {}
  BY <1>1 DEF PendingUser, PendingAttrs
<1>2. CASE updates # {}
  <2>1. (CHOOSE u \in updates : TRUE) \in updates
    BY <1>2
  <2> QED BY <1>2, <2>1 DEF PendingUser, PendingAttrs, UpdateTypeOK, Update
<1> QED BY <1>1, <1>2

LEMMA MergeTyped ==
    ASSUME UpdateTypeOK, NEW user \in Users \cup {NoUser}, NEW attrs \in SUBSET Attrs,
           Merge(user, attrs)
    PROVE  updates' \subseteq Update /\ updates' # {} /\ (\A u, v \in updates' : u = v)
  BY PendingTyped DEF Merge, Update

LEMMA CommandTyped ==
    ASSUME NEW c \in Command
    PROVE  /\ c.op \in {"setup", "logout", "setUserId", "setAttributes", "track"}
           /\ c.op = "setUserId" => c.user \in Users
           /\ c.op = "setAttributes" => c.attrs \subseteq Attrs
           /\ c.op = "track" => c.surveys \subseteq Surveys
  BY DEF Command

LEMMA OwnedTyped ==
    ASSUME UpdateTypeOK, NEW attrs \in SUBSET Attrs
    PROVE  Owned(attrs) \subseteq Users \X Attrs
  BY DEF Owned, UpdateTypeOK

LEMMA InitTyped == Init => TypeOK
<1> SUFFICES ASSUME Init PROVE TypeOK
  OBVIOUS
<1>1. PICK s \in Scripts : script = s.commands /\ fails = s.fails /\ acts = s.acts /\ reloads = s.reloads
  BY DEF Init
<1>2. s.commands \in Seq(Command) /\ s.fails \in Nat /\ s.acts \in Nat /\ s.reloads \in Nat
  BY <1>1, ScriptAssumption DEF Script
<1>3. UpdateTypeOK
  BY <1>1, <1>2 DEF Init, UpdateInit, UpdateTypeOK, DefaultState, State, Contact
<1>4. WidgetTypeOK
  <2>1. stack \in Seq(Timeout) /\ shown \in Seq(Surveys) /\ acts \in Nat
    BY <1>1, <1>2 DEF Init, WidgetInit
  <2> QED BY <2>1 DEF Init, WidgetInit, WidgetTypeOK, RenderTypeOK, PageTypeOK
<1>5. OneFlush
  BY <1>3 DEF Init, UpdateInit, OneFlush, UpdateTypeOK
<1>6. script \in Seq(Command) /\ reloads \in Nat
  BY <1>1, <1>2
<1>7. queue \in Seq(Command) /\ command = {} /\ isSetup = FALSE
  BY DEF Init
<1> QED BY <1>3, <1>4, <1>5, <1>6, <1>7 DEF TypeOK

LEMMA FlushTyped ==
    ASSUME UpdateTypeOK, OneFlush, DebounceFires \/ FlightMoves
    PROVE  UpdateTypeOK' /\ OneFlush'
<1>1. CASE DebounceFires
  <2>1. PICK update \in updates :
          IF update.user = NoUser THEN KeepLocally(update) ELSE Send(update)
    BY <1>1 DEF DebounceFires
  <2>2. update \in Update
    BY <2>1 DEF UpdateTypeOK
  <2>3. CASE update.user = NoUser
    <3>1. KeepLocally(update)
      BY <2>1, <2>3
    <3>2. config' \in State
      BY <3>1 DEF KeepLocally, UpdateTypeOK, State
    <3>3. failed' \subseteq Users \X Attrs /\ dropped' \subseteq Users \X Attrs
      <4>1. \A attrs \in SUBSET Attrs : Owned(attrs) \subseteq Users \X Attrs
        BY OwnedTyped
      <4>2. update.attrs \subseteq Attrs
        BY <2>2 DEF Update
      <4> QED BY <3>1, <4>1, <4>2 DEF KeepLocally, UpdateTypeOK
    <3> QED BY <1>1, <3>1, <3>2, <3>3
          DEF DebounceFires, KeepLocally, FlushEnds, UpdateTypeOK, OneFlush
  <2>4. CASE update.user # NoUser
    <3>1. Send(update)
      BY <2>1, <2>4
    <3>2. [user |-> update.user, attrs |-> update.attrs, done |-> FALSE, ver |-> 0, lang |-> FALSE] \in Flight
      BY <2>2, <2>4 DEF Update, Flight
    <3> QED BY <1>1, <3>1, <3>2 DEF DebounceFires, Send, UpdateTypeOK, OneFlush
  <2> QED BY <2>3, <2>4
<1>2. ASSUME NEW f \in flights, ServerUpdates(f) PROVE UpdateTypeOK' /\ OneFlush'
  <2>1. f \in Flight /\ server[f.user] \in Contact
    BY <1>2 DEF UpdateTypeOK, Flight
  <2>2. Updated(server[f.user], f.attrs) \in Contact
    BY <2>1 DEF Updated, Contact, Flight
  <2> DEFINE contact == Updated(server[f.user], f.attrs)
  <2>3. contact.ver \in Nat /\ (Language \in contact.attrs) \in BOOLEAN
    BY <2>2 DEF Contact
  <2>4. /\ server' = [server EXCEPT ![f.user] = contact]
        /\ flights' = (flights \ {f}) \cup
              {[f EXCEPT !.done = TRUE, !.ver = contact.ver, !.lang = Language \in contact.attrs]}
    BY <1>2 DEF ServerUpdates
  <2> HIDE DEF contact
  <2>5. flights' \subseteq Flight
    <3>1. [f EXCEPT !.done = TRUE, !.ver = contact.ver, !.lang = Language \in contact.attrs] \in Flight
      BY <2>1, <2>3 DEF Flight
    <3> QED BY <2>4, <3>1 DEF UpdateTypeOK
  <2>6. contact \in Contact
    BY <2>2 DEF contact
  <2>7. server' \in [Users -> Contact]
    BY <2>1, <2>4, <2>6 DEF UpdateTypeOK, Flight
  <2>8. flights' # {} /\ \A g, h \in flights' : g = h
    BY <1>2, <2>4 DEF OneFlush
  <2> QED BY <1>2, <2>5, <2>7, <2>8 DEF ServerUpdates, UpdateTypeOK, OneFlush, wishVars
<1>3. ASSUME NEW f \in flights, Answered(f) \/ AnswerFails(f) PROVE UpdateTypeOK' /\ OneFlush'
  <2>1. f \in Flight /\ flights \ {f} = {} /\ ~debounce
    BY <1>3 DEF UpdateTypeOK, OneFlush
  <2>2. CASE Answered(f)
    <3>1. config' \in State
      BY <2>1, <2>2 DEF Answered, State, Flight
    <3> QED BY <2>1, <2>2, <3>1 DEF Answered, FlushEnds, UpdateTypeOK, OneFlush, wishVars
  <2>3. CASE AnswerFails(f)
    <3>1. {f.user} \X f.attrs \subseteq Users \X Attrs
      BY <2>1 DEF Flight
    <3>2. failed' \subseteq Users \X Attrs
      BY <2>3, <3>1 DEF AnswerFails, UpdateTypeOK
    <3>3. fails' \in Nat
      BY <2>3 DEF AnswerFails, UpdateTypeOK
    <3>4. UpdateTypeOK'
      BY <2>1, <2>3, <3>2, <3>3 DEF AnswerFails, FlushEnds, UpdateTypeOK
    <3> QED BY <2>1, <2>3, <3>4 DEF AnswerFails, FlushEnds, OneFlush
  <2> QED BY <1>3, <2>2, <2>3
<1> QED BY <1>1, <1>2, <1>3 DEF FlightMoves

LEMMA CloseTyped == ASSUME WidgetTypeOK, CloseSurvey PROVE WidgetTypeOK'
<1>1. shown' \in Seq(Surveys)
  BY DEF WidgetTypeOK, RenderTypeOK, PageTypeOK, CloseSurvey
<1>2. freed' \in BOOLEAN
  BY DEF WidgetTypeOK, RenderTypeOK, PageTypeOK, CloseSurvey, FlagFreed
<1> QED BY <1>1, <1>2 DEF WidgetTypeOK, RenderTypeOK, PageTypeOK, CloseSurvey, FlagFreed

LEMMA RequestTyped ==
    ASSUME UpdateTypeOK, OneFlush, NEW user \in Users \cup {NoUser}, NEW attrs \in SUBSET Attrs,
           Merge(user, attrs), ProcessUpdates, flights' = flights
    PROVE  /\ updates' \subseteq Update /\ \A u, v \in updates' : u = v
           /\ pendingFlush' \in BOOLEAN /\ debounce' \in BOOLEAN
           /\ OneFlush'
  BY MergeTyped DEF ProcessUpdates, UpdateTypeOK, OneFlush

LEMMA ExecuteTyped ==
    ASSUME UpdateTypeOK, OneFlush, WidgetTypeOK,
           NEW c \in Command, c.op # "setup", Execute(c)
    PROVE  UpdateTypeOK' /\ OneFlush' /\ WidgetTypeOK'
<1> USE DEF Execute
<1>1. CASE c.op = "setUserId"
  <2>1. c.user \in Users /\ SetUserId(c.user)
    BY <1>1, CommandTyped
  <2>2. CASE config.user = c.user
    BY <2>1, <2>2 DEF SetUserId, UpdateTypeOK, OneFlush, WidgetTypeOK, RenderTypeOK, PageTypeOK, widgetVars, renderVars, pageVars
  <2>3. CASE config.user # c.user
    <3>1. Identify(c.user)
      BY <2>1, <2>3 DEF SetUserId
    <3>2. {c.user} \X PendingAttrs \subseteq Users \X Attrs
      BY <2>1, PendingTyped
    <3>3. wanted' \subseteq Users \X Attrs /\ calm' \in BOOLEAN
      BY <3>1, <3>2 DEF Identify, UpdateTypeOK
    <3>4. config' \in State /\ WidgetTypeOK'
      <4>1. CASE config.user = NoUser
        BY <2>1, <2>3, <4>1 DEF SetUserId, UpdateTypeOK, WidgetTypeOK, RenderTypeOK, PageTypeOK, widgetVars, renderVars, pageVars
      <4>2. CASE config.user # NoUser
        <5>1. TearDown
          BY <2>1, <2>3, <4>2 DEF SetUserId
        <5> QED BY <5>1, CloseTyped DEF TearDown, DefaultState, State
      <4> QED BY <4>1, <4>2
    <3>5. /\ updates' \subseteq Update /\ \A u, v \in updates' : u = v
          /\ pendingFlush' \in BOOLEAN /\ debounce' \in BOOLEAN
          /\ OneFlush'
      BY <2>1, <3>1, RequestTyped DEF Identify
    <3> QED BY <2>1, <3>3, <3>4, <3>5 DEF SetUserId, UpdateTypeOK
  <2> QED BY <2>2, <2>3
<1>2. CASE c.op = "setAttributes"
  <2>1. c.attrs \subseteq Attrs /\ AddAttributes(c.attrs)
    BY <1>2, CommandTyped DEF SetAttributes
  <2>2. PICK user \in Users \cup {NoUser} : Merge(user, c.attrs) /\ ProcessUpdates
    BY <2>1, PendingTyped DEF AddAttributes, UpdateTypeOK, State
  <2>3. wanted' \subseteq Users \X Attrs
    <3>1. Owned(c.attrs) \subseteq Users \X Attrs
      BY <2>1, OwnedTyped
    <3> QED BY <2>1, <3>1 DEF AddAttributes, UpdateTypeOK
  <2>4. calm' \in BOOLEAN
    BY <2>1 DEF AddAttributes, UpdateTypeOK
  <2>5. /\ updates' \subseteq Update /\ \A u, v \in updates' : u = v
        /\ pendingFlush' \in BOOLEAN /\ debounce' \in BOOLEAN
        /\ OneFlush'
    BY <2>1, <2>2, RequestTyped
  <2> QED BY <1>2, <2>3, <2>4, <2>5
        DEF SetAttributes, UpdateTypeOK, WidgetTypeOK, RenderTypeOK, PageTypeOK, widgetVars, renderVars, pageVars
<1>3. CASE c.op = "logout"
  <2>1. TearDown
    BY <1>3 DEF Logout
  <2>2. WidgetTypeOK' /\ config' \in State
    BY <2>1, CloseTyped DEF TearDown, DefaultState, State
  <2> QED BY <1>3, <2>2 DEF Logout, UpdateTypeOK, OneFlush
<1>4. CASE c.op = "track"
  BY <1>4, CommandTyped DEF Track, UpdateTypeOK, OneFlush, WidgetTypeOK, RenderTypeOK, PageTypeOK, wishVars, pageVars
<1> QED BY <1>1, <1>2, <1>3, <1>4, CommandTyped

LEMMA RenderTyped ==
    ASSUME UpdateTypeOK, OneFlush, WidgetTypeOK, NEW s \in Surveys, RenderStep(s)
    PROVE  UpdateTypeOK' /\ OneFlush' /\ WidgetTypeOK'
<1> USE DEF pageVars
<1>1. CASE Trigger(s)
  <2>1. WidgetTypeOK'
    BY <1>1 DEF Trigger, WidgetTypeOK, RenderTypeOK, PageTypeOK
  <2>2. HasPendingWork => pendingFlush
    BY DEF HasPendingWork, OneFlush
  <2>3. UNCHANGED <<config, updates, flights, server, fails, wishVars>>
    BY <1>1 DEF Trigger
  <2>4. UNCHANGED <<pendingFlush, debounce>>
    BY <1>1, <2>2 DEF Trigger, ProcessUpdates, UpdateTypeOK
  <2> QED BY <2>1, <2>3, <2>4 DEF UpdateTypeOK, OneFlush, wishVars
<1>2. CASE UNCHANGED <<updateVars, fails, wishVars>> /\ WidgetTypeOK'
  BY <1>2 DEF UpdateTypeOK, OneFlush, updateVars, wishVars
<1>3. ASSUME Identified(s) PROVE WidgetTypeOK'
  BY <1>3 DEF Identified, WidgetTypeOK, RenderTypeOK, PageTypeOK
<1>4. ASSUME IdentificationTimesOut(s) PROVE WidgetTypeOK'
  BY <1>4 DEF IdentificationTimesOut, FlagFreed, WidgetTypeOK, RenderTypeOK, PageTypeOK
<1>5. ASSUME NotAvailable(s) PROVE WidgetTypeOK'
  BY <1>5 DEF NotAvailable, GiveUp, FlagFreed, WidgetTypeOK, RenderTypeOK, PageTypeOK
<1>6. ASSUME RecaptchaFails(s) PROVE WidgetTypeOK'
  BY <1>6 DEF RecaptchaFails, WidgetTypeOK, RenderTypeOK, PageTypeOK
<1>7. ASSUME Loaded(s) PROVE WidgetTypeOK'
  <2>1. [survey |-> s, over |-> FALSE] \in Timeout
    BY DEF Timeout
  <2>2. stack' \in Seq(Timeout)
    BY <1>7, <2>1 DEF Loaded, WidgetTypeOK, RenderTypeOK, PageTypeOK
  <2> QED BY <1>7, <2>2 DEF Loaded, WidgetTypeOK, RenderTypeOK, PageTypeOK
<1>8. ASSUME TimerFires(s) PROVE WidgetTypeOK'
  <2>1. PICK i \in Delayed : stack' = [stack EXCEPT ![i].over = TRUE]
    BY <1>8 DEF TimerFires
  <2> DEFINE t == [stack[i] EXCEPT !.over = TRUE]
  <2>2. i \in DOMAIN stack /\ stack \in Seq(Timeout)
    BY DEF Delayed, WidgetTypeOK, PageTypeOK
  <2>3. t \in Timeout
    <3>1. stack[i] \in Timeout
      BY <2>2
    <3> QED BY <3>1 DEF Timeout
  <2>4. stack' = [stack EXCEPT ![i] = t]
    BY <2>1
  <2> HIDE DEF t
  <2>5. stack' \in Seq(Timeout)
    BY <2>2, <2>3, <2>4
  <2>6. shown' \in Seq(Surveys) /\ acts' \in Nat
    BY <1>8 DEF TimerFires, WidgetTypeOK, PageTypeOK
  <2>7. RenderTypeOK'
    BY <1>8 DEF TimerFires, WidgetTypeOK, RenderTypeOK, renderVars
  <2> QED BY <2>5, <2>6, <2>7 DEF WidgetTypeOK, PageTypeOK
<1> QED BY <1>1, <1>2, <1>3, <1>4, <1>5, <1>6, <1>7, <1>8 DEF RenderStep

LEMMA VisitorTyped ==
    ASSUME UpdateTypeOK, OneFlush, WidgetTypeOK, VisitorActs
    PROVE  UpdateTypeOK' /\ OneFlush' /\ WidgetTypeOK'
<1>1. CASE Close
  BY <1>1, CloseTyped DEF Close, UpdateTypeOK, OneFlush, updateVars, wishVars
<1>2. ASSUME NEW s \in Surveys, Interact(s) PROVE UpdateTypeOK' /\ OneFlush' /\ WidgetTypeOK'
  <2>1. WidgetTypeOK'
    BY <1>2 DEF Interact, WidgetTypeOK, RenderTypeOK, PageTypeOK, renderVars, pageVars
  <2>2. config.user \in Users
    BY <1>2 DEF Interact, RefreshSegments, UpdateTypeOK, State
  <2>3. /\ updates' \subseteq Update /\ \A u, v \in updates' : u = v
        /\ pendingFlush' \in BOOLEAN /\ debounce' \in BOOLEAN
        /\ OneFlush'
    BY <1>2, <2>2, RequestTyped DEF Interact, RefreshSegments
  <2> QED BY <1>2, <2>1, <2>3 DEF Interact, UpdateTypeOK, wishVars
<1>3. ASSUME NEW s \in Surveys, LeavePage(s) PROVE UpdateTypeOK' /\ OneFlush' /\ WidgetTypeOK'
  <2>1. PICK i \in DOMAIN stack : stack' = RemoveAt(stack, i)
    BY <1>3 DEF LeavePage
  <2>2. SubSeq(stack, 1, i - 1) \in Seq(Timeout) /\ SubSeq(stack, i + 1, Len(stack)) \in Seq(Timeout)
    BY DEF WidgetTypeOK, RenderTypeOK, PageTypeOK
  <2>3. stack' \in Seq(Timeout)
    BY <2>1, <2>2 DEF RemoveAt
  <2>4. freed' \in BOOLEAN /\ isSurveyRunning' \in BOOLEAN
    BY <1>3 DEF LeavePage, FlagFreed, WidgetTypeOK, RenderTypeOK, PageTypeOK
  <2> QED BY <1>3, <2>3, <2>4
        DEF LeavePage, UpdateTypeOK, OneFlush, WidgetTypeOK, RenderTypeOK, PageTypeOK, updateVars, wishVars
<1> QED BY <1>1, <1>2, <1>3 DEF VisitorActs

LEMMA NextTyped == TypeOK /\ [Next]_vars => TypeOK'
<1> SUFFICES ASSUME TypeOK, [Next]_vars PROVE TypeOK'
  OBVIOUS
<1> USE DEF TypeOK
<1>1. CASE Resume
  <2>1. PICK c \in command : c.op # "setup" /\ Execute(c)
    BY <1>1 DEF Resume
  <2>2. UpdateTypeOK' /\ OneFlush' /\ WidgetTypeOK'
    BY <2>1, ExecuteTyped
  <2> QED BY <1>1, <2>2 DEF Resume, websiteVars
<1>2. CASE Render
  BY <1>2, RenderTyped DEF Render, websiteVars, queueVars
<1>3. CASE Flush
  <2>1. UpdateTypeOK' /\ OneFlush'
    BY <1>3, FlushTyped DEF Flush
  <2> QED BY <1>3, <2>1
        DEF Flush, WidgetTypeOK, RenderTypeOK, PageTypeOK, websiteVars, queueVars, widgetVars, renderVars, pageVars
<1>4. CASE Run
  <2>1. Head(queue) \in Command /\ Tail(queue) \in Seq(Command)
    BY <1>4 DEF Run
  <2>2. queue' \in Seq(Command) /\ UNCHANGED <<script, reloads, isSetup>>
    BY <1>4, <2>1 DEF Run, websiteVars
  <2> DEFINE c == Head(queue)
  <2>3. CASE UNCHANGED <<widgetVars, updateVars, fails, wishVars>> /\ command' \in {{}, {c}, command}
    BY <2>1, <2>2, <2>3 DEF UpdateTypeOK, OneFlush, WidgetTypeOK, RenderTypeOK, PageTypeOK, widgetVars, renderVars,
                            pageVars, updateVars, wishVars
  <2>4. CASE /\ updates # {} /\ ProcessUpdates /\ command' = {c}
             /\ UNCHANGED <<widgetVars, config, updates, flights, server, fails, wishVars>>
    <3>1. UNCHANGED <<pendingFlush, debounce>>
      BY <2>4 DEF ProcessUpdates, OneFlush, UpdateTypeOK
    <3> QED BY <2>1, <2>2, <2>4, <3>1 DEF UpdateTypeOK, OneFlush, WidgetTypeOK, RenderTypeOK, PageTypeOK, widgetVars,
                                          renderVars, pageVars, wishVars
  <2>5. CASE c.op # "setup" /\ Execute(c) /\ UNCHANGED command
    <3>1. UpdateTypeOK' /\ OneFlush' /\ WidgetTypeOK'
      BY <2>1, <2>5, ExecuteTyped
    <3> QED BY <2>2, <2>5, <3>1
  <2> QED BY <1>4, <2>3, <2>4, <2>5 DEF Run
<1>5. CASE SetupEnds
  <2>1. CASE UNCHANGED <<config, server>>
    BY <1>5, <2>1 DEF SetupEnds, UpdateTypeOK, OneFlush, WidgetTypeOK, RenderTypeOK, PageTypeOK, websiteVars, widgetVars,
                      renderVars, pageVars, wishVars
  <2>2. CASE ~UNCHANGED <<config, server>>
    <3> DEFINE contact == Updated(server[config.user], {})
    <3>1. /\ config.user \in Users
          /\ server' = [server EXCEPT ![config.user] = contact]
          /\ config' = AnswerOf(config.user, contact)
          /\ isSetup' = TRUE
      BY <1>5, <2>2 DEF SetupEnds, UpdateTypeOK, State
    <3>2. contact \in Contact
      BY <3>1 DEF Updated, Contact, UpdateTypeOK
    <3> HIDE DEF contact
    <3>3. server' \in [Users -> Contact]
      BY <3>1, <3>2 DEF UpdateTypeOK
    <3>4. config' \in State
      BY <3>1, <3>2 DEF AnswerOf, State, Contact
    <3> QED BY <1>5, <3>1, <3>3, <3>4
          DEF SetupEnds, UpdateTypeOK, OneFlush, WidgetTypeOK, RenderTypeOK, PageTypeOK, websiteVars, widgetVars,
              renderVars, pageVars, wishVars
  <2> QED BY <2>1, <2>2
<1>6. CASE Add
  <2>1. queue' \in Seq(Command) /\ script' \in Seq(Command)
    BY <1>6 DEF Add
  <2> QED BY <1>6, <2>1 DEF Add, UpdateTypeOK, OneFlush, WidgetTypeOK, RenderTypeOK, PageTypeOK, widgetVars,
                            renderVars, pageVars, updateVars, wishVars
<1>7. CASE Reload
  <2>1. EmptyPage /\ acts' = acts
    BY <1>7 DEF Reload
  <2>2. WidgetTypeOK'
    <3>1. stack' \in Seq(Timeout)
      BY <2>1 DEF EmptyPage
    <3>2. shown' \in Seq(Surveys)
      BY <2>1 DEF EmptyPage
    <3>3. RenderTypeOK'
      BY <2>1 DEF EmptyPage, RenderTypeOK
    <3>4. acts' \in Nat
      BY <2>1 DEF WidgetTypeOK, PageTypeOK
    <3> QED BY <3>1, <3>2, <3>3, <3>4 DEF WidgetTypeOK, PageTypeOK
  <2>3. reloads' \in Nat
    BY <1>7 DEF Reload
  <2>4. queue' = <<>> /\ command' = {} /\ isSetup' = FALSE /\ script' = script
    BY <1>7 DEF Reload
  <2>5. UpdateTypeOK' /\ OneFlush'
    <3>1. dropped' \subseteq Users \X Attrs
      <4>1. PendingAttrs \in SUBSET Attrs
        BY PendingTyped
      <4>2. Owned(PendingAttrs) \subseteq Users \X Attrs
        BY <4>1, OwnedTyped
      <4> QED BY <1>7, <4>2 DEF Reload, UpdateTypeOK
    <3> QED BY <1>7, <3>1 DEF Reload, UpdateTypeOK, OneFlush, State
  <2>6. queue' \in Seq(Command)
    BY <2>4
  <2>7. command' \subseteq Command /\ (\A c, d \in command' : c = d) /\ isSetup' \in BOOLEAN
    BY <2>4
  <2> QED BY <2>2, <2>3, <2>4, <2>5, <2>6, <2>7
<1>8. CASE Visitor
  BY <1>8, VisitorTyped DEF Visitor, websiteVars, queueVars
<1>9. CASE UNCHANGED vars
  BY <1>9 DEF vars, UpdateTypeOK, OneFlush, WidgetTypeOK, RenderTypeOK, PageTypeOK, websiteVars, queueVars, widgetVars,
              renderVars, pageVars, updateVars, wishVars
<1> QED BY <1>1, <1>2, <1>3, <1>4, <1>5, <1>6, <1>7, <1>8, <1>9 DEF Next

(* The configuration, the updates, the queues and the page keep their types, *)
(* and there is one flush at a time, for any website.                        *)
THEOREM TypeCorrect == Spec => []TypeOK
  BY InitTyped, NextTyped, PTL DEF Spec

-----------------------------------------------------------------------------
(* The user                                                                  *)

(* Before set-up the page is empty and only set-up may be under way.         *)
SetupFirst ==
    /\ \A c \in command : c.op = "setup" <=> ~isSetup
    /\ ~isSetup => /\ updates = {} /\ todo = {} /\ waiting = {} /\ loading = {}
                   /\ stack = <<>> /\ shown = <<>>

(* Without a user nothing is on its way for one.                             *)
LoggedOut ==
    owner = NoUser => config.user = NoUser /\ flights = {} /\ \A u \in updates : u.user = NoUser

(* The answer under way is as new as what the browser holds of its user.     *)
AnswersInOrder ==
    /\ config.user # NoUser => config.ver <= server[config.user].ver
    /\ \A f \in flights :
          f.done => f.ver <= server[f.user].ver /\ (f.user = config.user => config.ver <= f.ver)

UserInv == TypeOK /\ SetupFirst /\ LoggedOut /\ AnswersInOrder

LEMMA IdleFlush == TypeOK /\ (~pendingFlush \/ updates = {}) => updates = {} /\ flights = {}
  BY DEF TypeOK, UpdateTypeOK, OneFlush

LEMMA InitUser == Init => UserInv
<1> SUFFICES ASSUME Init PROVE UserInv
  OBVIOUS
<1>1. TypeOK
  BY InitTyped
<1>2. SetupFirst
  BY DEF Init, UpdateInit, WidgetInit, SetupFirst
<1>3. LoggedOut /\ AnswersInOrder
  BY DEF Init, UpdateInit, LoggedOut, AnswersInOrder, DefaultState
<1> QED BY <1>1, <1>2, <1>3 DEF UserInv

LEMMA SetupStep == UserInv /\ [Next]_vars => SetupFirst'
<1> SUFFICES ASSUME UserInv, [Next]_vars PROVE SetupFirst'
  OBVIOUS
<1> USE DEF UserInv, SetupFirst
<1>1. CASE Resume
  BY <1>1 DEF Resume, websiteVars
<1>2. CASE Render
  <2>1. PICK s \in Surveys : RenderStep(s) /\ UNCHANGED <<websiteVars, queueVars>>
    BY <1>2 DEF Render
  <2>2. isSetup
    BY <2>1 DEF RenderStep, Trigger, Identified, IdentificationTimesOut, NotAvailable, RecaptchaFails,
                Loaded, TimerFires, Delayed
  <2> QED BY <2>1, <2>2 DEF queueVars
<1>3. CASE Flush
  <2>1. isSetup
    BY <1>3 DEF Flush, DebounceFires, FlightMoves, TypeOK, OneFlush
  <2> QED BY <1>3, <2>1 DEF Flush, queueVars
<1>4. CASE Run
  <2>1. command = {} /\ isSetup' = isSetup
    BY <1>4 DEF Run, Busy
  <2>2. CASE isSetup
    <3>1. \A c \in command' : c.op # "setup"
      BY <1>4, <2>1, <2>2 DEF Run, GeneralAction
    <3> QED BY <2>1, <2>2, <3>1
  <2>3. CASE ~isSetup
    <3>1. UNCHANGED <<widgetVars, updateVars>> /\ \A c \in command' : c.op = "setup"
      BY <1>4, <2>1, <2>3 DEF Run
    <3> QED BY <2>1, <2>3, <3>1 DEF widgetVars, renderVars, pageVars, updateVars
  <2> QED BY <2>2, <2>3
<1>5. CASE SetupEnds
  BY <1>5 DEF SetupEnds, widgetVars, renderVars, pageVars
<1>6. CASE Add
  BY <1>6 DEF Add, widgetVars, renderVars, pageVars, updateVars
<1>7. CASE Reload
  BY <1>7 DEF Reload, EmptyPage
<1>8. CASE Visitor
  <2>1. isSetup
    BY <1>8 DEF Visitor, VisitorActs, Close, Interact, LeavePage, ToSet
  <2> QED BY <1>8, <2>1 DEF Visitor, queueVars
<1>9. CASE UNCHANGED vars
  BY <1>9 DEF vars, queueVars, widgetVars, renderVars, pageVars, updateVars
<1> QED BY <1>1, <1>2, <1>3, <1>4, <1>5, <1>6, <1>7, <1>8, <1>9 DEF Next

UserStep == LoggedOut' /\ AnswersInOrder' /\ NoOlderAnswer

LEMMA QuietStep ==
    ASSUME UserInv, UNCHANGED <<config, updates, flights, server, owner>>
    PROVE  UserStep
  BY DEF UserInv, TypeOK, UpdateTypeOK, State, UserStep, LoggedOut, AnswersInOrder, NoOlderAnswer

LEMMA FlushStep ==
    ASSUME UserInv, DebounceFires \/ FlightMoves
    PROVE  UserStep
<1> USE DEF UserInv, UserStep, LoggedOut, AnswersInOrder, NoOlderAnswer, wishVars
<1>1. CASE DebounceFires
  <2>1. PICK update \in updates :
          IF update.user = NoUser THEN KeepLocally(update) ELSE Send(update)
    BY <1>1 DEF DebounceFires
  <2>2. flights = {} /\ server' = server /\ owner' = owner
    BY <1>1 DEF DebounceFires, TypeOK, OneFlush
  <2>3. CASE update.user = NoUser
    <3>1. config'.user = config.user /\ config'.ver = config.ver /\ updates' = {} /\ flights' = flights
      BY <2>1, <2>3 DEF KeepLocally, FlushEnds, TypeOK, UpdateTypeOK, State
    <3> QED BY <2>2, <3>1 DEF TypeOK, UpdateTypeOK, State
  <2>4. CASE update.user # NoUser
    <3>1. config' = config /\ updates' = updates /\ \A f \in flights' : ~f.done
      BY <2>1, <2>2, <2>4 DEF Send
    <3>2. owner # NoUser
      BY <2>1, <2>4
    <3> QED BY <2>2, <3>1, <3>2 DEF TypeOK, UpdateTypeOK, State
  <2> QED BY <2>3, <2>4
<1>2. ASSUME NEW f \in flights, ServerUpdates(f) PROVE UserStep
  <2>1. f \in Flight /\ server[f.user] \in Contact /\ flights = {f}
    BY <1>2 DEF TypeOK, UpdateTypeOK, OneFlush, Flight
  <2> DEFINE contact == Updated(server[f.user], f.attrs)
             g == [f EXCEPT !.done = TRUE, !.ver = contact.ver, !.lang = Language \in contact.attrs]
  <2>2. contact.ver = server[f.user].ver + 1 /\ server[f.user].ver \in Nat
    BY <2>1 DEF Updated, Contact
  <2>3. g.user = f.user /\ g.ver = contact.ver
    BY <2>1 DEF Flight
  <2>4. /\ server' = [server EXCEPT ![f.user] = contact] /\ flights' = {g}
        /\ UNCHANGED <<config, updates, owner>>
    BY <1>2, <2>1 DEF ServerUpdates
  <2> HIDE DEF contact, g
  <2>5. server'[f.user] = contact /\ f.user \in Users
    BY <2>1, <2>4 DEF Flight, TypeOK, UpdateTypeOK
  <2>6. \A u \in Users : server[u].ver \in Nat /\ server'[u].ver \in Nat /\ server'[u].ver >= server[u].ver
    BY <2>1, <2>2, <2>4, <2>5 DEF Flight, TypeOK, UpdateTypeOK, Contact
  <2>7. config.ver \in Nat /\ config.user \in Users \cup {NoUser}
    BY DEF TypeOK, UpdateTypeOK, State
  <2>8. LoggedOut'
    BY <1>2, <2>4
  <2>9. AnswersInOrder'
    <3>1. config.user # NoUser => config.ver <= server'[config.user].ver
      <4>1. ASSUME config.user # NoUser PROVE config.ver <= server[config.user].ver
        BY <4>1
      <4> QED BY <2>6, <2>7, <4>1
    <3>2. f.user = config.user => config.ver <= contact.ver
      BY <2>2, <2>5, <2>7, UserAssumption
    <3> QED BY <2>2, <2>3, <2>4, <2>5, <3>1, <3>2
  <2> QED BY <2>4, <2>7, <2>8, <2>9
<1>3. ASSUME NEW f \in flights, Answered(f) PROVE UserStep
  <2>1. f \in Flight /\ flights' = {} /\ updates' = {} /\ UNCHANGED <<server, owner>>
    BY <1>3 DEF Answered, FlushEnds, TypeOK, UpdateTypeOK, OneFlush
  <2>2. config'.user = f.user /\ config'.ver = f.ver /\ f.done
    BY <1>3 DEF Answered
  <2>3. owner # NoUser
    BY <1>3
  <2> QED BY <1>3, <2>1, <2>2, <2>3
<1>4. ASSUME NEW f \in flights, AnswerFails(f) PROVE UserStep
  <2>1. flights' = {} /\ updates' = {} /\ UNCHANGED <<config, server, owner>>
    BY <1>4 DEF AnswerFails, FlushEnds, TypeOK, OneFlush
  <2> QED BY <2>1 DEF TypeOK, UpdateTypeOK, State
<1> QED BY <1>1, <1>2, <1>3, <1>4 DEF FlightMoves

LEMMA ExecuteStep ==
    ASSUME UserInv, NEW c \in Command, c.op # "setup", Execute(c),
           c.op = "logout" => updates = {}
    PROVE  UserStep
<1> USE DEF UserInv, UserStep, LoggedOut, AnswersInOrder, NoOlderAnswer, Execute
<1>1. CASE c.op = "setUserId"
  <2>1. c.user \in Users /\ SetUserId(c.user) /\ flights' = flights /\ server' = server
    BY <1>1, CommandTyped
  <2>2. owner' # NoUser
    BY <2>1, UserAssumption DEF SetUserId
  <2>3. config' = config \/ config' = DefaultState
    BY <2>1 DEF SetUserId, TearDown
  <2>4. CASE config' = config
    BY <2>1, <2>2, <2>4 DEF TypeOK, UpdateTypeOK, State
  <2>5. CASE config' = DefaultState
    <3>1. config'.user = NoUser
      BY <2>5 DEF DefaultState
    <3>2. \A f \in flights : f.user # NoUser
      BY UserAssumption DEF TypeOK, UpdateTypeOK, Flight
    <3> QED BY <2>1, <2>2, <3>1, <3>2
  <2> QED BY <2>3, <2>4, <2>5
<1>2. CASE c.op = "setAttributes"
  <2>1. /\ AddAttributes(c.attrs)
        /\ UNCHANGED <<config, owner, flights, server>>
    BY <1>2 DEF SetAttributes
  <2>2. owner = NoUser => \A u \in updates' : u.user = NoUser
    <3>1. owner = NoUser => PendingUser = NoUser
      <4>1. updates # {} => (CHOOSE u \in updates : TRUE) \in updates
        OBVIOUS
      <4> QED BY <4>1 DEF PendingUser
    <3> QED BY <2>1, <3>1 DEF AddAttributes, Merge
  <2> QED BY <2>1, <2>2 DEF TypeOK, UpdateTypeOK, State
<1>3. CASE c.op = "logout"
  <2>1. /\ config' = DefaultState /\ owner' = NoUser
        /\ UNCHANGED <<updates, flights, server>>
    BY <1>3 DEF Logout, TearDown
  <2>2. updates = {} /\ flights = {}
    BY <1>3, IdleFlush
  <2> QED BY <2>1, <2>2 DEF DefaultState
<1>4. CASE c.op = "track"
  BY <1>4, QuietStep DEF Track, wishVars
<1> QED BY <1>1, <1>2, <1>3, <1>4, CommandTyped

LEMMA UserSteps == UserInv /\ [Next]_vars => UserStep
<1> SUFFICES ASSUME UserInv, [Next]_vars PROVE UserStep
  OBVIOUS
<1>1. CASE Resume
  <2>1. PICK c \in command : c.op # "setup" /\ Execute(c)
    BY <1>1 DEF Resume
  <2>2. c \in Command /\ updates = {}
    BY <1>1, IdleFlush DEF Resume, UserInv, TypeOK
  <2> QED BY <2>1, <2>2, ExecuteStep
<1>2. CASE Render
  BY <1>2, QuietStep DEF Render, RenderStep, Trigger, updateVars, wishVars
<1>3. CASE Flush
  BY <1>3, FlushStep DEF Flush
<1>4. CASE Run
  <2> DEFINE c == Head(queue)
  <2>1. c \in Command
    BY <1>4 DEF Run, UserInv, TypeOK
  <2>2. \/ UNCHANGED <<config, updates, flights, server, owner>>
        \/ c.op # "setup" /\ Execute(c) /\ (c.op = "logout" => updates = {})
    BY <1>4 DEF Run, GeneralAction, updateVars, wishVars
  <2> QED BY <2>1, <2>2, QuietStep, ExecuteStep
<1>5. CASE SetupEnds
  <2>1. CASE UNCHANGED <<config, server>>
    BY <1>5, <2>1, QuietStep DEF SetupEnds, wishVars
  <2>2. CASE ~UNCHANGED <<config, server>>
    <3> DEFINE contact == Updated(server[config.user], {})
    <3>1. /\ config.user \in Users
          /\ server' = [server EXCEPT ![config.user] = contact]
          /\ config' = AnswerOf(config.user, contact)
          /\ UNCHANGED <<updates, flights, owner>>
      BY <1>5, <2>2 DEF SetupEnds, UserInv, TypeOK, UpdateTypeOK, State, wishVars
    <3>2. flights = {}
      BY <1>5, IdleFlush DEF SetupEnds, UserInv, SetupFirst
    <3>3. contact.ver = server[config.user].ver + 1 /\ server[config.user].ver \in Nat /\ config.ver \in Nat
      BY <3>1 DEF Updated, UserInv, TypeOK, UpdateTypeOK, Contact, State
    <3> HIDE DEF contact
    <3>4. server'[config.user] = contact /\ config'.user = config.user /\ config'.ver = contact.ver
      BY <3>1 DEF AnswerOf, UserInv, TypeOK, UpdateTypeOK
    <3> QED BY <3>1, <3>2, <3>3, <3>4, UserAssumption
          DEF UserInv, UserStep, LoggedOut, AnswersInOrder, NoOlderAnswer
  <2> QED BY <2>1, <2>2
<1>6. CASE Add
  BY <1>6, QuietStep DEF Add, updateVars, wishVars
<1>7. CASE Reload
  <2>1. updates' = {} /\ flights' = {} /\ owner' = config.user /\ UNCHANGED <<config, server>>
    BY <1>7 DEF Reload
  <2> QED BY <2>1 DEF UserInv, TypeOK, UpdateTypeOK, State, UserStep, LoggedOut, AnswersInOrder, NoOlderAnswer
<1>8. CASE Visitor
  <2>1. CASE UNCHANGED <<config, updates, flights, server, owner>>
    BY <2>1, QuietStep
  <2>2. CASE ~UNCHANGED <<config, updates, flights, server, owner>>
    <3>1. config.user # NoUser /\ UNCHANGED <<config, flights, server, owner>>
      BY <1>8, <2>2 DEF Visitor, VisitorActs, Close, LeavePage, Interact, RefreshSegments, updateVars, wishVars
    <3> QED BY <3>1 DEF UserInv, TypeOK, UpdateTypeOK, State, UserStep, LoggedOut, AnswersInOrder, NoOlderAnswer
  <2> QED BY <2>1, <2>2
<1>9. CASE UNCHANGED vars
  BY <1>9, QuietStep DEF vars, updateVars, wishVars
<1> QED BY <1>1, <1>2, <1>3, <1>4, <1>5, <1>6, <1>7, <1>8, <1>9 DEF Next

LEMMA UserCorrect == Spec => []UserInv
<1>1. UserInv /\ [Next]_vars => UserInv'
  BY NextTyped, SetupStep, UserSteps DEF UserInv, UserStep
<1> QED BY <1>1, InitUser, PTL DEF Spec

(* After a logout no answer, refresh or set-up brings the user back before   *)
(* the website sets one.                                                     *)
THEOREM LogoutHolds == Spec => []LogoutSticks
<1>1. UserInv => LogoutSticks
  BY DEF UserInv, LoggedOut, LogoutSticks
<1> QED BY <1>1, UserCorrect, PTL

(* The state of a user is never replaced by an older answer.                 *)
THEOREM OrderHolds == Spec => OrderedAnswers
<1>1. UserInv /\ [Next]_vars => [NoOlderAnswer]_vars
  BY UserSteps DEF UserStep
<1> QED BY <1>1, UserCorrect, PTL DEF Spec, OrderedAnswers

-----------------------------------------------------------------------------
(* The flag                                                                  *)

FlagInv == FlagHeld /\ OneAtATime /\ (Places # {} /\ ~freed => isSurveyRunning)

LEMMA PlaceOf ==
    ASSUME NEW p
    PROVE  p \in Places <=>
             \/ \E s \in waiting : p = <<"identification", s>>
             \/ \E s \in loading : p = <<"scripts", s>>
             \/ \E i \in Delayed : p = <<"delay", i>>
             \/ \E i \in DOMAIN shown : p = <<"container", i>>
  BY DEF Places

LEMMA SamePlaces ==
    ASSUME FlagInv, UNCHANGED <<isSurveyRunning, waiting, loading, pageVars, blocked, freed>>
    PROVE  FlagInv'
<1>1. Places' = Places
  BY DEF Places, Delayed, pageVars
<1> QED BY <1>1 DEF FlagInv, FlagHeld, OneAtATime

LEMMA FreedStep == ASSUME FlagFreed PROVE FlagInv'
  BY DEF FlagFreed, FlagInv, FlagHeld, OneAtATime

(* A survey that goes from one place to the next is the only one if it was.  *)
LEMMA MoveStep ==
    ASSUME FlagInv, NEW p \in Places, NEW q \in Places',
           \A r \in Places' : r = q \/ r \in Places \ {p},
           UNCHANGED <<isSurveyRunning, freed>>
    PROVE  FlagInv'
  BY DEF FlagInv, FlagHeld, OneAtATime

(* The surveys of an action are rendered one after the other.                *)
OneRenders == (waiting = {} \/ loading = {}) /\ \A s, t \in waiting \cup loading : s = t

Still == UNCHANGED <<isSurveyRunning, waiting, loading, pageVars, blocked, freed>>

(* What a step may do to the surveys that are under way.                     *)
LEMMA PageMoves ==
    ASSUME TypeOK, [Next]_vars
    PROVE  \/ \E s \in Surveys : RenderStep(s)
           \/ FlagFreed /\ UNCHANGED <<waiting, loading>>
           \/ EmptyPage
           \/ Still
<1> USE DEF Still, pageVars
<1>1. ASSUME NEW c \in Command, c.op # "setup", Execute(c)
      PROVE  (FlagFreed /\ UNCHANGED <<waiting, loading>>) \/ Still
  <2>1. CASE c.op = "setUserId"
    BY <1>1, <2>1 DEF Execute, SetUserId, TearDown, CloseSurvey, widgetVars, renderVars
  <2>2. CASE c.op = "setAttributes"
    BY <1>1, <2>2 DEF Execute, SetAttributes, widgetVars, renderVars
  <2>3. CASE c.op = "logout"
    BY <1>1, <2>3 DEF Execute, Logout, TearDown, CloseSurvey
  <2>4. CASE c.op = "track"
    BY <1>1, <2>4 DEF Execute, Track
  <2> QED BY <1>1, <2>1, <2>2, <2>3, <2>4, CommandTyped
<1>2. CASE Resume
  BY <1>1, <1>2 DEF Resume, TypeOK
<1>3. CASE Run
  <2>1. Head(queue) \in Command
    BY <1>3 DEF Run, TypeOK
  <2>2. UNCHANGED widgetVars \/ (Head(queue).op # "setup" /\ Execute(Head(queue)))
    BY <1>3 DEF Run
  <2>3. UNCHANGED widgetVars => Still
    BY DEF widgetVars, renderVars
  <2> QED BY <1>1, <2>1, <2>2, <2>3
<1>4. CASE Visitor
  BY <1>4 DEF Visitor, VisitorActs, Close, CloseSurvey, Interact, LeavePage, renderVars
<1>5. CASE Render \/ Reload
  BY <1>5 DEF Render, Reload
<1>6. CASE Flush \/ SetupEnds \/ Add \/ UNCHANGED vars
  BY <1>6 DEF Flush, SetupEnds, Add, vars, widgetVars, renderVars
<1> QED BY <1>2, <1>3, <1>4, <1>5, <1>6 DEF Next

LEMMA RenderFlag ==
    ASSUME TypeOK, FlagInv, OneRenders, NEW s \in Surveys, RenderStep(s)
    PROVE  FlagInv' /\ OneRenders'
<1> USE DEF OneRenders
<1>1. CASE Trigger(s)
  <2>1. CASE UNCHANGED <<isSurveyRunning, waiting, loading>>
    BY <1>1, <2>1, SamePlaces DEF Trigger
  <2>2. CASE ~UNCHANGED <<isSurveyRunning, waiting, loading>>
    <3>1. /\ ~isSurveyRunning /\ isSurveyRunning'
          /\ waiting = {} /\ loading = {}
          /\ (waiting' = {s} /\ loading' = {}) \/ (waiting' = {} /\ loading' = {s})
          /\ UNCHANGED <<pageVars, freed, blocked>>
      BY <1>1, <2>2 DEF Trigger, Running
    <3>2. \E q \in Places' : \A r \in Places' : r = q \/ r \in Places
      <4>1. CASE waiting' = {s} /\ loading' = {}
        <5>1. <<"identification", s>> \in Places'
          BY <4>1 DEF Places
        <5>2. \A r \in Places' : r = <<"identification", s>> \/ r \in Places
          BY <3>1, <4>1 DEF Places, Delayed, pageVars
        <5> QED BY <5>1, <5>2
      <4>2. CASE waiting' = {} /\ loading' = {s}
        <5>1. <<"scripts", s>> \in Places'
          BY <4>2 DEF Places
        <5>2. \A r \in Places' : r = <<"scripts", s>> \/ r \in Places
          BY <3>1, <4>2 DEF Places, Delayed, pageVars
        <5> QED BY <5>1, <5>2
      <4> QED BY <3>1, <4>1, <4>2
    <3>3. freed \/ Places = {}
      BY <3>1 DEF FlagInv
    <3> QED BY <3>1, <3>2, <3>3 DEF FlagInv, FlagHeld, OneAtATime
  <2> QED BY <2>1, <2>2
<1>2. ASSUME s \in waiting, waiting' = {}, loading' = {s}, UNCHANGED <<isSurveyRunning, pageVars, freed>>
      PROVE  FlagInv' /\ OneRenders'
  <2>1. <<"identification", s>> \in Places /\ <<"scripts", s>> \in Places'
    BY <1>2 DEF Places
  <2>2. waiting = {s}
    BY <1>2
  <2>3. \A r \in Places' : r = <<"scripts", s>> \/ r \in Places \ {<<"identification", s>>}
    BY <1>2, <2>2 DEF Places, Delayed, pageVars
  <2> QED BY <1>2, <2>1, <2>3, MoveStep
<1>3. CASE Identified(s)
  BY <1>2, <1>3 DEF Identified
<1>4. CASE IdentificationTimesOut(s)
  BY <1>2, <1>4, FreedStep DEF IdentificationTimesOut
<1>5. CASE NotAvailable(s)
  BY <1>5, FreedStep DEF NotAvailable, GiveUp
<1>6. CASE RecaptchaFails(s)
  <2>1. Places' \subseteq Places /\ blocked' /\ UNCHANGED <<isSurveyRunning, freed>>
    BY <1>6 DEF RecaptchaFails, Places, Delayed, pageVars
  <2>2. FlagInv'
    BY <2>1 DEF FlagInv, FlagHeld, OneAtATime
  <2> QED BY <1>6, <2>2 DEF RecaptchaFails
<1>7. CASE Loaded(s)
  <2> DEFINE n == Len(stack) + 1
  <2>1. stack \in Seq(Timeout) /\ stack' = Append(stack, [survey |-> s, over |-> FALSE])
    BY <1>7 DEF Loaded, TypeOK, WidgetTypeOK, PageTypeOK
  <2>2. /\ DOMAIN stack' = DOMAIN stack \cup {n} /\ ~stack'[n].over
        /\ \A i \in DOMAIN stack : stack'[i] = stack[i]
    BY <2>1
  <2>3. Delayed' = Delayed \cup {n}
    BY <2>1, <2>2 DEF Delayed
  <2>4. loading = {s} /\ loading' = {} /\ waiting = {} /\ waiting' = {} /\ shown' = shown
    BY <1>7 DEF Loaded
  <2> HIDE DEF n
  <2>5. <<"scripts", s>> \in Places /\ <<"delay", n>> \in Places'
    BY <2>3, <2>4 DEF Places
  <2>6. \A r \in Places' : r = <<"delay", n>> \/ r \in Places \ {<<"scripts", s>>}
    BY <2>3, <2>4 DEF Places
  <2> QED BY <1>7, <2>4, <2>5, <2>6, MoveStep DEF Loaded
<1>8. CASE TimerFires(s)
  <2> DEFINE n == Len(shown) + 1
  <2>1. PICK i \in Delayed : stack' = [stack EXCEPT ![i].over = TRUE]
    BY <1>8 DEF TimerFires
  <2>2. stack \in Seq(Timeout) /\ i \in DOMAIN stack
    BY DEF TypeOK, WidgetTypeOK, PageTypeOK, Delayed
  <2>3. DOMAIN stack' = DOMAIN stack /\ stack'[i].over /\ \A j \in DOMAIN stack \ {i} : stack'[j] = stack[j]
    <3>1. stack[i] \in Timeout
      BY <2>2
    <3> QED BY <2>1, <2>2, <3>1 DEF Timeout
  <2>4. Delayed' = Delayed \ {i}
    BY <2>2, <2>3 DEF Delayed
  <2>5. DOMAIN shown' = DOMAIN shown \cup {n}
    BY <1>8 DEF TimerFires, TypeOK, WidgetTypeOK, PageTypeOK
  <2> HIDE DEF n
  <2>6. UNCHANGED <<waiting, loading, isSurveyRunning, freed>>
    BY <1>8 DEF TimerFires, renderVars
  <2>7. <<"delay", i>> \in Places /\ <<"container", n>> \in Places'
    BY <2>1, <2>5 DEF Places
  <2>8. \A r \in Places' : r = <<"container", n>> \/ r \in Places \ {<<"delay", i>>}
    BY <2>4, <2>5, <2>6 DEF Places
  <2> QED BY <2>6, <2>7, <2>8, MoveStep
<1> QED BY <1>1, <1>3, <1>4, <1>5, <1>6, <1>7, <1>8 DEF RenderStep

LEMMA FlagSteps == TypeOK /\ FlagInv /\ OneRenders /\ [Next]_vars => FlagInv' /\ OneRenders'
<1> SUFFICES ASSUME TypeOK, FlagInv, OneRenders, [Next]_vars PROVE FlagInv' /\ OneRenders'
  OBVIOUS
<1>1. CASE \E s \in Surveys : RenderStep(s)
  BY <1>1, RenderFlag
<1>2. CASE FlagFreed /\ UNCHANGED <<waiting, loading>>
  BY <1>2, FreedStep DEF OneRenders
<1>3. CASE EmptyPage
  <2>1. Places' = {}
    BY <1>3 DEF EmptyPage, Places, Delayed
  <2> QED BY <1>3, <2>1 DEF EmptyPage, FlagInv, FlagHeld, OneAtATime, OneRenders
<1>4. CASE Still
  BY <1>4, SamePlaces DEF Still, OneRenders
<1> QED BY <1>1, <1>2, <1>3, <1>4, PageMoves

LEMMA FlagCorrect == Spec => [](FlagInv /\ OneRenders)
<1>1. Init => FlagInv /\ OneRenders
  <2> SUFFICES ASSUME Init PROVE FlagInv /\ OneRenders
    OBVIOUS
  <2>1. Places = {}
    BY DEF Init, WidgetInit, Places, Delayed
  <2> QED BY <2>1 DEF Init, WidgetInit, FlagInv, FlagHeld, OneAtATime, OneRenders
<1> QED BY <1>1, FlagSteps, TypeCorrect, PTL DEF Spec

(* The flag of a running survey stands for a survey that is under way, or    *)
(* for one whose recaptcha script was blocked.                               *)
THEOREM FlagHolds == Spec => []FlagHeld
<1>1. FlagInv => FlagHeld
  BY DEF FlagInv
<1> QED BY <1>1, FlagCorrect, PTL

(* Until the flag is freed too early there is one survey at a time.          *)
THEOREM OneHolds == Spec => []OneAtATime
<1>1. FlagInv => OneAtATime
  BY DEF FlagInv
<1> QED BY <1>1, FlagCorrect, PTL

-----------------------------------------------------------------------------
(* The attributes                                                            *)

Kept(u, a) ==
    \/ a \in server[u].attrs \/ <<u, a>> \in failed \cup dropped
    \/ \E f \in flights : f.user = u /\ a \in f.attrs
    \/ \E x \in updates : a \in x.attrs /\ (x.user = u \/ (x.user = NoUser /\ u = owner))

(* While calls do not cross, whatever is under way is the owner's, what is    *)
(* on its way is what waits, and an answer stands for what the contact has.   *)
ConfigWish == config.user \in {NoUser, owner}

UpdatesWish ==
    \A x \in updates :
        /\ x.user \in {NoUser, owner}
        /\ x.user = NoUser => config.user = NoUser
        /\ x.user # NoUser => \A a \in x.attrs : <<x.user, a>> \in wanted

FlightsWish ==
    \A f \in flights :
        /\ f.user = owner
        /\ \A a \in f.attrs : <<f.user, a>> \in wanted
        /\ f.done => f.attrs \subseteq server[f.user].attrs
        /\ \A x \in updates : x.user = f.user /\ x.attrs = f.attrs

ServerWish == \A u \in Users : \A a \in server[u].attrs : <<u, a>> \in wanted

KeptWish == \A u \in Users, a \in Attrs : <<u, a>> \in wanted => Kept(u, a)

WishOK == ConfigWish /\ UpdatesWish /\ FlightsWish /\ ServerWish /\ KeptWish

WishInv == calm => WishOK

LEMMA Held ==
    ASSUME TypeOK
    PROVE  /\ updates = {} => PendingUser = NoUser /\ PendingAttrs = {}
           /\ \A x \in updates : updates = {x} /\ PendingUser = x.user /\ PendingAttrs = x.attrs
<1>1. updates # {} => (CHOOSE u \in updates : TRUE) \in updates
  OBVIOUS
<1>2. \A x \in updates : updates = {x}
  BY DEF TypeOK, UpdateTypeOK
<1> QED
  BY <1>1, <1>2 DEF PendingUser, PendingAttrs

LEMMA Merged ==
    ASSUME NEW user, NEW attrs, Merge(user, attrs)
    PROVE  \E x : updates' = {x} /\ x.user = user /\ x.attrs = PendingAttrs \cup attrs
<1> DEFINE y == [user |-> user, attrs |-> PendingAttrs \cup attrs]
<1>1. updates' = {y}
  BY DEF Merge
<1>2. y.user = user /\ y.attrs = PendingAttrs \cup attrs
  OBVIOUS
<1> HIDE DEF y
<1> QED
  BY <1>1, <1>2

LEMMA SameWish ==
    ASSUME WishInv, UNCHANGED <<config, updates, flights, server, wishVars>>
    PROVE  WishInv'
BY DEF WishInv, WishOK, ConfigWish, UpdatesWish, FlightsWish, ServerWish, KeptWish, Kept, wishVars

(* A call that names a user.                                                 *)
LEMMA SetUserIdWish ==
    ASSUME TypeOK, WishOK, LoggedOut, NEW user \in Users, SetUserId(user), calm',
           UNCHANGED <<flights, server>>
    PROVE  WishOK'
<1>1. CASE config.user = user
  <2>1. owner = user
    BY <1>1, UserAssumption DEF WishOK, ConfigWish
  <2>2. owner' = owner /\ UNCHANGED <<config, updates, wanted, failed, dropped>>
    BY <1>1, <2>1 DEF SetUserId
  <2> QED
    BY <2>2 DEF WishOK, ConfigWish, UpdatesWish, FlightsWish, ServerWish, KeptWish, Kept
<1>2. CASE config.user # user
  <2>1. /\ Identify(user) /\ owner' = user /\ failed' = failed /\ dropped' = dropped
        /\ config'.user = NoUser
    BY <1>2 DEF SetUserId, TearDown, DefaultState
  <2>2. flights = {} /\ (updates = {} \/ owner \in {NoUser, user})
    BY <2>1 DEF Identify, Crossing
  <2>3. wanted' = wanted \cup {user} \X PendingAttrs
    BY <2>1 DEF Identify
  <2>4. PICK y : updates' = {y} /\ y.user = user /\ y.attrs = PendingAttrs
    <3>1. Merge(user, {})
      BY <2>1 DEF Identify
    <3>2. PICK y : updates' = {y} /\ y.user = user /\ y.attrs = PendingAttrs \cup {}
      BY <3>1, Merged
    <3>3. y.attrs = PendingAttrs
      BY <3>2
    <3> QED
      BY <3>2, <3>3
  <2>5. PendingAttrs \subseteq Attrs
    BY PendingTyped DEF TypeOK
  <2>6. ConfigWish'
    BY <2>1 DEF ConfigWish
  <2>7. UpdatesWish'
    BY <2>1, <2>3, <2>4, UserAssumption DEF UpdatesWish
  <2>8. FlightsWish'
    BY <2>2 DEF FlightsWish
  <2>9. ServerWish'
    BY <2>3 DEF WishOK, ServerWish
  <2>10. KeptWish'
    <3>1. ASSUME NEW u \in Users, NEW a \in Attrs, <<u, a>> \in wanted' PROVE Kept(u, a)'
      <4>1. CASE u = user /\ a \in PendingAttrs
        BY <2>4, <4>1 DEF Kept
      <4>2. CASE ~(u = user /\ a \in PendingAttrs)
        <5>1. <<u, a>> \in wanted
          BY <2>3, <3>1, <4>2
        <5>2. Kept(u, a)
          BY <5>1 DEF WishOK, KeptWish
        <5>3. ~\E x \in updates : a \in x.attrs /\ (x.user = u \/ (x.user = NoUser /\ u = owner))
          <6>1. ASSUME NEW x \in updates, a \in x.attrs, x.user = u \/ (x.user = NoUser /\ u = owner)
                PROVE  FALSE
            <7>1. a \in PendingAttrs
              BY <6>1, Held
            <7>2. u = owner
              BY <6>1, UserAssumption DEF WishOK, UpdatesWish
            <7>3. u = user
              BY <2>2, <6>1, <7>2, UserAssumption
            <7> QED
              BY <4>2, <7>1, <7>3
          <6> QED
            BY <6>1
        <5> QED
          BY <2>1, <2>2, <5>2, <5>3 DEF Kept
      <4> QED
        BY <4>1, <4>2
    <3> QED
      BY <3>1 DEF KeptWish
  <2> QED
    BY <2>6, <2>7, <2>8, <2>9, <2>10 DEF WishOK
<1> QED
  BY <1>1, <1>2

LEMMA SetAttributesWish ==
    ASSUME TypeOK, WishOK, NEW attrs \in SUBSET Attrs, SetAttributes(attrs), calm',
           UNCHANGED <<flights, server>>
    PROVE  WishOK'
<1> DEFINE user == IF updates = {} THEN config.user ELSE PendingUser
<1>1. UNCHANGED <<config, owner, failed, dropped>> /\ flights = {} /\ Merge(user, attrs)
  BY DEF SetAttributes, AddAttributes
<1>2. wanted' = IF owner = NoUser THEN wanted ELSE wanted \cup {owner} \X attrs
  BY DEF SetAttributes, AddAttributes, Owned
<1>3. /\ user \in {NoUser, owner}
      /\ user = NoUser => config.user = NoUser
      /\ user # NoUser => \A a \in PendingAttrs : <<user, a>> \in wanted
  <2>1. CASE updates = {}
    BY <2>1, Held DEF WishOK, ConfigWish
  <2>2. ASSUME NEW x \in updates PROVE <1>3!1 /\ <1>3!2 /\ <1>3!3
    BY <2>2, Held DEF WishOK, UpdatesWish
  <2> QED
    BY <2>1, <2>2
<1>4. PICK y : updates' = {y} /\ y.user = user /\ y.attrs = PendingAttrs \cup attrs
  BY <1>1, Merged
<1>5. \A x \in updates : x.user = user /\ x.attrs = PendingAttrs
  BY Held
<1> HIDE DEF user
<1>6. ConfigWish'
  BY <1>1 DEF WishOK, ConfigWish
<1>7. UpdatesWish'
  BY <1>1, <1>2, <1>3, <1>4 DEF UpdatesWish
<1>8. FlightsWish'
  BY <1>1 DEF FlightsWish
<1>9. ServerWish'
  BY <1>2 DEF WishOK, ServerWish
<1>10. KeptWish'
  <2>1. ASSUME NEW u \in Users, NEW a \in Attrs, <<u, a>> \in wanted' PROVE Kept(u, a)'
    <3>1. CASE u = owner /\ a \in attrs
      BY <1>1, <1>3, <1>4, <3>1 DEF Kept
    <3>2. CASE ~(u = owner /\ a \in attrs)
      <4>1. <<u, a>> \in wanted
        BY <1>2, <2>1, <3>2
      <4>2. Kept(u, a)
        BY <4>1 DEF WishOK, KeptWish
      <4> QED
        BY <1>1, <1>4, <1>5, <4>2 DEF Kept
    <3> QED
      BY <3>1, <3>2
  <2> QED
    BY <2>1 DEF KeptWish
<1> QED
  BY <1>6, <1>7, <1>8, <1>9, <1>10 DEF WishOK

(* Nothing waits: the user may go.                                           *)
LEMMA ForgetWish ==
    ASSUME TypeOK, WishOK, updates = {}, flights = {}, updates' = {}, flights' = {},
           config'.user \in {NoUser, owner'}, UNCHANGED <<server, wanted, failed, dropped>>
    PROVE  WishOK'
BY DEF WishOK, ConfigWish, UpdatesWish, FlightsWish, ServerWish, KeptWish, Kept

LEMMA ExecuteWish ==
    ASSUME TypeOK, LoggedOut, WishInv, NEW c \in Command, c.op # "setup", Execute(c),
           c.op = "logout" => updates = {}
    PROVE  WishInv'
<1> SUFFICES ASSUME calm' PROVE WishOK'
  BY DEF WishInv
<1>0. UNCHANGED <<flights, server>>
  BY DEF Execute
<1>1. CASE c.op = "setUserId"
  <2>1. c.user \in Users /\ SetUserId(c.user)
    BY <1>1, CommandTyped DEF Execute
  <2>2. WishOK
    BY <2>1 DEF SetUserId, Identify, WishInv
  <2> QED
    BY <1>0, <2>1, <2>2, SetUserIdWish
<1>2. CASE c.op = "setAttributes"
  <2>1. c.attrs \subseteq Attrs /\ SetAttributes(c.attrs)
    BY <1>2, CommandTyped DEF Execute
  <2>2. WishOK
    BY <2>1 DEF SetAttributes, AddAttributes, WishInv
  <2> QED
    BY <1>0, <2>1, <2>2, SetAttributesWish
<1>3. CASE c.op = "logout"
  <2>1. Logout /\ updates = {} /\ flights = {}
    BY <1>3, IdleFlush DEF Execute
  <2>2. config'.user = NoUser /\ calm
    BY <2>1 DEF Logout, TearDown, DefaultState
  <2> QED
    BY <1>0, <2>1, <2>2, ForgetWish DEF Logout, WishInv
<1>4. CASE c.op = "track"
  BY <1>0, <1>4, SameWish DEF Execute, Track, WishInv
<1> QED
  BY <1>1, <1>2, <1>3, <1>4, CommandTyped

LEMMA DebounceWish ==
    ASSUME TypeOK, WishOK, DebounceFires
    PROVE  WishOK'
<1>1. PICK x \in updates : IF x.user = NoUser THEN KeepLocally(x) ELSE Send(x)
  BY DEF DebounceFires
<1>2. /\ updates = {x} /\ flights = {} /\ x \in Update
      /\ UNCHANGED <<server, owner, wanted>>
  BY <1>1 DEF DebounceFires, TypeOK, UpdateTypeOK, OneFlush
<1>3. CASE x.user = NoUser
  <2>1. /\ config'.user = config.user /\ updates' = {} /\ flights' = {}
        /\ failed' = failed \cup Owned(x.attrs \ {Language})
        /\ dropped' = dropped \cup Owned(x.attrs \cap {Language})
    BY <1>1, <1>2, <1>3 DEF KeepLocally, FlushEnds, TypeOK, UpdateTypeOK, State
  <2>2. ConfigWish' /\ UpdatesWish' /\ FlightsWish' /\ ServerWish'
    BY <1>2, <2>1 DEF WishOK, ConfigWish, UpdatesWish, FlightsWish, ServerWish
  <2>3. ASSUME NEW u \in Users, NEW a \in Attrs, <<u, a>> \in wanted' PROVE Kept(u, a)'
    <3>1. Kept(u, a)
      BY <1>2, <2>3 DEF WishOK, KeptWish
    <3>2. CASE u = owner /\ a \in x.attrs
      BY <2>1, <3>2, UserAssumption DEF Kept, Owned
    <3>3. CASE ~(u = owner /\ a \in x.attrs)
      BY <1>2, <1>3, <2>1, <3>1, <3>3, UserAssumption DEF Kept
    <3> QED
      BY <3>2, <3>3
  <2> QED
    BY <2>2, <2>3 DEF WishOK, KeptWish
<1>4. CASE x.user # NoUser
  <2> DEFINE g == [user |-> x.user, attrs |-> x.attrs, done |-> FALSE, ver |-> 0, lang |-> FALSE]
  <2>0. g.user = x.user /\ g.attrs = x.attrs /\ ~g.done
    OBVIOUS
  <2>1. flights' = {g} /\ UNCHANGED <<config, updates, failed, dropped>>
    BY <1>1, <1>2, <1>4 DEF Send
  <2> HIDE DEF g
  <2>2. ConfigWish' /\ UpdatesWish' /\ ServerWish'
    BY <1>2, <2>1 DEF WishOK, ConfigWish, UpdatesWish, ServerWish
  <2>3. FlightsWish'
    BY <1>2, <1>4, <2>0, <2>1 DEF WishOK, UpdatesWish, FlightsWish
  <2>4. KeptWish'
    BY <1>2, <2>1 DEF WishOK, KeptWish, Kept
  <2> QED
    BY <2>2, <2>3, <2>4 DEF WishOK
<1> QED
  BY <1>3, <1>4

LEMMA ServerUpdatesWish ==
    ASSUME TypeOK, WishOK, NEW f \in flights, ServerUpdates(f)
    PROVE  WishOK'
<1> DEFINE contact == Updated(server[f.user], f.attrs)
           lang == Language \in contact.attrs
           g == [f EXCEPT !.done = TRUE, !.ver = contact.ver, !.lang = lang]
<1>0. f \in Flight /\ flights = {f} /\ f.user \in Users
  BY DEF TypeOK, UpdateTypeOK, OneFlush, Flight
<1>1. contact.attrs = server[f.user].attrs \cup f.attrs
  BY DEF Updated
<1>2. g.user = f.user /\ g.attrs = f.attrs
  BY <1>0 DEF Flight
<1>3. flights' = {g}
  BY <1>0 DEF ServerUpdates
<1>4. server' = [server EXCEPT ![f.user] = contact] /\ UNCHANGED <<config, updates, wishVars>>
  BY DEF ServerUpdates
<1> HIDE DEF g, contact, lang
<1>5. /\ server'[f.user].attrs = server[f.user].attrs \cup f.attrs
      /\ \A u \in Users : u # f.user => server'[u] = server[u]
  BY <1>0, <1>1, <1>4 DEF TypeOK, UpdateTypeOK
<1>6. ConfigWish' /\ UpdatesWish'
  BY <1>4 DEF WishOK, ConfigWish, UpdatesWish, wishVars
<1>7. FlightsWish'
  BY <1>0, <1>2, <1>3, <1>4, <1>5 DEF WishOK, FlightsWish, wishVars
<1>8. ServerWish'
  <2>1. ASSUME NEW u \in Users, NEW a \in server'[u].attrs PROVE <<u, a>> \in wanted
    BY <1>0, <1>5 DEF WishOK, ServerWish, FlightsWish
  <2> QED
    BY <1>4, <2>1 DEF ServerWish, wishVars
<1>9. KeptWish'
  <2>1. ASSUME NEW u \in Users, NEW a \in Attrs, Kept(u, a) PROVE Kept(u, a)'
    BY <1>0, <1>2, <1>3, <1>4, <1>5, <2>1 DEF Kept, wishVars
  <2> QED
    BY <1>4, <2>1 DEF WishOK, KeptWish, wishVars
<1> QED
  BY <1>6, <1>7, <1>8, <1>9 DEF WishOK

LEMMA AnswerWish ==
    ASSUME TypeOK, WishOK, NEW f \in flights, Answered(f) \/ AnswerFails(f)
    PROVE  WishOK'
<1>0. f \in Flight /\ flights = {f} /\ f.user \in Users
  BY DEF TypeOK, UpdateTypeOK, OneFlush, Flight
<1>1. /\ flights' = {} /\ updates' = {} /\ UNCHANGED <<server, owner, wanted, dropped>>
      /\ config'.user \in {config.user, f.user}
      /\ failed \subseteq failed'
      /\ \A a \in f.attrs : a \in server[f.user].attrs \/ <<f.user, a>> \in failed'
  <2>1. CASE Answered(f)
    BY <1>0, <2>1 DEF Answered, FlushEnds, wishVars, WishOK, FlightsWish
  <2>2. CASE AnswerFails(f)
    BY <1>0, <2>2 DEF AnswerFails, FlushEnds
  <2> QED
    BY <2>1, <2>2
<1>2. ConfigWish' /\ UpdatesWish' /\ FlightsWish' /\ ServerWish'
  BY <1>0, <1>1 DEF WishOK, ConfigWish, UpdatesWish, FlightsWish, ServerWish
<1>3. ASSUME NEW u \in Users, NEW a \in Attrs, <<u, a>> \in wanted' PROVE Kept(u, a)'
  <2>1. Kept(u, a)
    BY <1>1, <1>3 DEF WishOK, KeptWish
  <2>2. \A x \in updates : x.user = f.user /\ x.attrs = f.attrs
    BY DEF WishOK, FlightsWish
  <2>3. CASE u = f.user /\ a \in f.attrs
    BY <1>1, <2>3 DEF Kept
  <2>4. CASE ~(u = f.user /\ a \in f.attrs)
    BY <1>0, <1>1, <2>1, <2>2, <2>4, UserAssumption DEF Kept
  <2> QED
    BY <2>3, <2>4
<1> QED
  BY <1>2, <1>3 DEF WishOK, KeptWish

LEMMA FlushWish ==
    ASSUME TypeOK, WishInv, DebounceFires \/ FlightMoves
    PROVE  WishInv'
<1>1. calm' = calm
  BY DEF DebounceFires, FlightMoves, ServerUpdates, Answered, AnswerFails, wishVars
<1> QED
  BY <1>1, DebounceWish, ServerUpdatesWish, AnswerWish DEF FlightMoves, WishInv

(* An interaction refreshes the segments of the user who is there.           *)
LEMMA RefreshWish ==
    ASSUME TypeOK, WishInv, RefreshSegments, UNCHANGED <<config, flights, server, wishVars>>
    PROVE  WishInv'
<1> SUFFICES ASSUME calm, WishOK PROVE WishOK'
  BY DEF WishInv, wishVars
<1>1. config.user = owner /\ owner # NoUser
  BY DEF RefreshSegments, WishOK, ConfigWish
<1>2. PICK y : updates' = {y} /\ y.user = owner /\ y.attrs = PendingAttrs
  <2>1. Merge(owner, {})
    BY <1>1 DEF RefreshSegments
  <2> QED
    BY <2>1, Merged
<1>3. \A x \in updates : updates = {x} /\ x.user = owner /\ x.attrs = PendingAttrs
  BY <1>1, Held DEF WishOK, UpdatesWish
<1>4. updates = {} => PendingAttrs = {} /\ flights = {}
  BY Held, IdleFlush
<1>5. UpdatesWish'
  BY <1>1, <1>2, <1>3, <1>4 DEF WishOK, UpdatesWish, wishVars
<1>6. FlightsWish'
  BY <1>2, <1>3, <1>4 DEF WishOK, FlightsWish, wishVars
<1>7. KeptWish'
  BY <1>2, <1>3, <1>4 DEF WishOK, KeptWish, Kept, wishVars
<1> QED
  BY <1>5, <1>6, <1>7 DEF WishOK, ConfigWish, ServerWish, wishVars

LEMMA SetupWish ==
    ASSUME TypeOK, WishInv, SetupEnds
    PROVE  WishInv'
<1>1. CASE UNCHANGED <<config, server>>
  BY <1>1, SameWish DEF SetupEnds
<1>2. CASE ~UNCHANGED <<config, server>>
  <2> DEFINE contact == Updated(server[config.user], {})
  <2>1. /\ config.user \in Users
        /\ server' = [server EXCEPT ![config.user] = contact]
        /\ config'.user = config.user
        /\ UNCHANGED <<updates, flights, wishVars>>
    BY <1>2 DEF SetupEnds, AnswerOf, TypeOK, UpdateTypeOK, State
  <2>2. contact.attrs = server[config.user].attrs
    BY DEF Updated
  <2> HIDE DEF contact
  <2>3. \A u \in Users : server'[u].attrs = server[u].attrs
    BY <2>1, <2>2 DEF TypeOK, UpdateTypeOK
  <2>4. \A f \in flights : f.user \in Users
    BY DEF TypeOK, UpdateTypeOK, Flight
  <2> QED
    BY <2>1, <2>3, <2>4
       DEF WishInv, WishOK, ConfigWish, UpdatesWish, FlightsWish, ServerWish, KeptWish, Kept, wishVars
<1> QED
  BY <1>1, <1>2

(* A reload drops what waits and what is on its way.                         *)
LEMMA ReloadWish ==
    ASSUME TypeOK, WishInv, Reload
    PROVE  WishInv'
<1> SUFFICES ASSUME WishOK PROVE WishOK'
  BY DEF WishInv, Reload
<1>1. /\ updates' = {} /\ flights' = {} /\ owner' = config.user
      /\ dropped' = dropped \cup Owned(PendingAttrs)
      /\ UNCHANGED <<config, server, wanted, failed>>
  BY DEF Reload
<1>2. ConfigWish' /\ UpdatesWish' /\ FlightsWish' /\ ServerWish'
  BY <1>1 DEF WishOK, ConfigWish, UpdatesWish, FlightsWish, ServerWish
<1>3. ASSUME NEW u \in Users, NEW a \in Attrs, <<u, a>> \in wanted' PROVE Kept(u, a)'
  <2>1. Kept(u, a)
    BY <1>1, <1>3 DEF WishOK, KeptWish
  <2>2. ASSUME NEW x \in updates, a \in x.attrs, x.user = u \/ (x.user = NoUser /\ u = owner)
        PROVE  <<u, a>> \in Owned(PendingAttrs)
    <3>1. u = owner /\ u # NoUser /\ a \in PendingAttrs
      BY <2>2, Held, UserAssumption DEF WishOK, UpdatesWish
    <3> QED
      BY <3>1 DEF Owned
  <2>3. ASSUME NEW f \in flights, f.user = u, a \in f.attrs
        PROVE  <<u, a>> \in Owned(PendingAttrs)
    <3>1. PICK x \in updates : TRUE
      BY DEF TypeOK, OneFlush
    <3>2. x.user = u /\ x.attrs = f.attrs
      BY <2>3, <3>1 DEF WishOK, FlightsWish
    <3> QED
      BY <2>2, <2>3, <3>1, <3>2
  <2> QED
    BY <1>1, <2>1, <2>2, <2>3 DEF Kept
<1> QED
  BY <1>2, <1>3 DEF WishOK, KeptWish

LEMMA WishSteps == UserInv /\ WishInv /\ [Next]_vars => WishInv'
<1> SUFFICES ASSUME UserInv, WishInv, [Next]_vars PROVE WishInv'
  OBVIOUS
<1>0. TypeOK /\ LoggedOut
  BY DEF UserInv
<1>1. CASE Resume
  <2>1. PICK c \in command : c.op # "setup" /\ Execute(c)
    BY <1>1 DEF Resume
  <2>2. c \in Command /\ updates = {}
    BY <1>0, <1>1, IdleFlush DEF Resume, TypeOK
  <2> QED
    BY <1>0, <2>1, <2>2, ExecuteWish
<1>2. CASE Render
  BY <1>2, SameWish DEF Render, RenderStep, Trigger, updateVars
<1>3. CASE Flush
  BY <1>0, <1>3, FlushWish DEF Flush
<1>4. CASE Run
  <2> DEFINE c == Head(queue)
  <2>1. c \in Command
    BY <1>0, <1>4 DEF Run, TypeOK
  <2>2. \/ UNCHANGED <<config, updates, flights, server, wishVars>>
        \/ c.op # "setup" /\ Execute(c) /\ (c.op = "logout" => updates = {})
    BY <1>4 DEF Run, GeneralAction, updateVars
  <2> QED
    BY <1>0, <2>1, <2>2, SameWish, ExecuteWish
<1>5. CASE SetupEnds
  BY <1>0, <1>5, SetupWish
<1>6. CASE Add
  BY <1>6, SameWish DEF Add, updateVars
<1>7. CASE Reload
  BY <1>0, <1>7, ReloadWish
<1>8. CASE Visitor
  <2>1. CASE \E s \in Surveys : Interact(s)
    BY <1>0, <2>1, RefreshWish DEF Interact
  <2>2. CASE UNCHANGED <<config, updates, flights, server, wishVars>>
    BY <2>2, SameWish
  <2> QED
    BY <1>8, <2>1, <2>2 DEF Visitor, VisitorActs, Close, LeavePage, updateVars
<1>9. CASE UNCHANGED vars
  BY <1>9, SameWish DEF vars, updateVars
<1> QED
  BY <1>1, <1>2, <1>3, <1>4, <1>5, <1>6, <1>7, <1>8, <1>9 DEF Next

LEMMA WishCorrect == Spec => []WishInv
<1>1. Init => WishInv
  BY DEF Init, UpdateInit, DefaultState, WishInv, WishOK, ConfigWish, UpdatesWish, FlightsWish,
         ServerWish, KeptWish
<1> QED
  BY <1>1, WishSteps, UserCorrect, PTL DEF Spec

(* As long as calls do not cross, an attribute that was set is at the contact, *)
(* on its way, or logged as failed, but for the two losses the code does not  *)
(* log: a language set while the user is not identified, and what waits or is *)
(* under way at a reload.                                                     *)
THEOREM AttributesHold == Spec => []AttributesKept
<1>1. TypeOK /\ WishInv => AttributesKept
  <2> SUFFICES ASSUME TypeOK, WishOK, NEW w \in wanted
               PROVE  w \in Stored \cup Pending \cup Waiting \cup failed \cup dropped
    BY DEF WishInv, AttributesKept
  <2>1. PICK u \in Users, a \in Attrs : w = <<u, a>>
    BY DEF TypeOK, UpdateTypeOK
  <2>2. Kept(u, a)
    BY <2>1 DEF WishOK, KeptWish
  <2>3. CASE a \in server[u].attrs
    BY <2>1, <2>3 DEF Stored
  <2>4. ASSUME NEW f \in flights, f.user = u, a \in f.attrs PROVE w \in Pending
    <3> DEFINE own == {f.user} \X f.attrs
               all == {{g.user} \X g.attrs : g \in flights}
    <3>1. w \in own
      BY <2>1, <2>4
    <3>2. own \in all
      OBVIOUS
    <3>3. UNION all \subseteq Pending
      BY DEF Pending
    <3> HIDE DEF own, all
    <3> QED
      BY <3>1, <3>2, <3>3
  <2>5. ASSUME NEW x \in updates, a \in x.attrs PROVE <<x.user, a>> \in Pending
    <3>1. <<x.user, a>> \in {x.user} \X x.attrs
      BY <2>5
    <3>2. {x.user} \X x.attrs \in {{g.user} \X g.attrs : g \in updates}
      OBVIOUS
    <3> QED
      BY <3>1, <3>2 DEF Pending
  <2>6. u = owner /\ <<NoUser, a>> \in Pending => w \in Waiting
    BY <2>1 DEF Waiting
  <2> QED
    BY <2>1, <2>2, <2>3, <2>4, <2>5, <2>6 DEF Kept
<1> QED
  BY <1>1, TypeCorrect, WishCorrect, PTL

(* And no contact has an attribute that was not set for that user.            *)
THEOREM AttributesOwned == Spec => []AttributesOwn
<1>1. WishInv => AttributesOwn
  BY DEF WishInv, WishOK, ServerWish, AttributesOwn
<1> QED
  BY <1>1, WishCorrect, PTL
=============================================================================
