----------------------------- MODULE SurveyPage ------------------------------
(***************************************************************************)
(* The survey page around the response queue: the respondent answers, the   *)
(* connection comes and goes, the page is loaded again.                     *)
(***************************************************************************)
EXTENDS QueueStore

(* onSubmit, ResponseQueue.add: the answer is queued and its write, with the *)
(* save of the progress right behind it, is requested.                       *)
Answer ==
    /\ asked < NumAnswers
    /\ error = "none"
    /\ ~over
    /\ asked' = asked + 1
    /\ queue' = Append(queue, asked + 1)
    /\ snapshot' = [snapshot EXCEPT ![asked + 1] =
                       [responseId |-> surveyState.responseId,
                        displayId |-> surveyState.displayId]]
    /\ idb' = Append(idb, DbRequest("add", asked + 1))
    /\ UNCHANGED <<apiVars, error, over, online, pendingDbIds, pendingRemoval, locks,
                   surveyState, req, syn, db, progress, stray, budget>>

(* createDisplay's reply.                                                    *)
CreateDisplay ==
    /\ surveyState.displayId = 0
    /\ budget.display > 0
    /\ surveyState' = [surveyState EXCEPT !.displayId = MaxDisplays - budget.display + 1]
    /\ budget' = [budget EXCEPT !.display = @ - 1]
    /\ idb' = Append(idb, DbRequest("patchDisplay", MaxDisplays - budget.display + 1))
    /\ UNCHANGED <<apiVars, page, memory, locks, req, syn, storage, stray>>

(* retryResponse, from the card of a retryable error.                        *)
Retry ==
    /\ error = "retry"
    /\ ~req.manual
    /\ \A i \in DOMAIN idb : idb[i].op # "retry"
    /\ idb' = ProcessQueue(idb, "retry", queue, isRequestInProgress, isSyncing)
    /\ UNCHANGED <<apiVars, page, memory, locks, surveyState, req, syn, storage, stray, budget>>

GoOffline ==
    /\ online
    /\ budget.flap > 0
    /\ online' = FALSE
    /\ budget' = [budget EXCEPT !.flap = @ - 1]
    /\ UNCHANGED <<apiVars, asked, error, over, memory, locks, surveyState, req, syn, idb,
                   storage, stray>>

(* Going online runs the sync effect, which first counts what is pending.    *)
GoOnline ==
    /\ ~online
    /\ online' = TRUE
    /\ idb' = Append(idb, DbRequest("effect", 0))
    /\ UNCHANGED <<apiVars, asked, error, over, memory, locks, surveyState, req, syn,
                   storage, stray, budget>>

InFlight ==
    (IF req.pc = "flight" THEN {req.msg} ELSE {}) \cup
    (IF syn.pc = "flight" THEN {syn.msg} ELSE {})

(* What a load makes of the saved progress: nothing is restored when there   *)
(* is none, when it is a day old, or when the survey was finished and sent.  *)
Unfinished(expired) ==
    /\ progress.saved
    /\ ~expired
    /\ db = {} => progress.upto < NumAnswers

StartOver(expired) ==
    /\ ~Unfinished(expired)
    /\ over' = TRUE
    /\ asked' = asked - Cardinality({i \in DOMAIN idb : idb[i].op = "add"})
    /\ surveyState' = FreshState
    /\ progress' = NoProgress
    /\ stray' = IF expired THEN {} ELSE stray \cup InFlight

(* With nothing pending and no response known, the response is looked up by  *)
(* the display; if that finds none or fails, the next answer creates one     *)
(* from all that was accumulated.                                            *)
Lookup ==
    LET d == progress.displayId
        found == {r \in DOMAIN responses : responses[r].display = d}
        bootstrapped == [responseId |-> 0, displayId |-> d, bootstrap |-> TRUE]
    IN  \/ /\ surveyState' = bootstrapped
           /\ progress' = progress
           /\ d # 0 => found = {} \/ ~online \/ netFaults > 0
        \/ \E r \in found :
              /\ d # 0 /\ online
              /\ IF responses[r].live
                 THEN /\ surveyState' = [bootstrapped EXCEPT !.responseId = r, !.bootstrap = FALSE]
                      /\ progress' = [progress EXCEPT !.responseId = r]
                 ELSE /\ surveyState' = [bootstrapped EXCEPT !.displayId = 0]
                      /\ progress' = [progress EXCEPT !.displayId = 0]

(* Mutant: the responseId is not restored.                                   *)
RestoreForgets ==
    /\ asked' = progress.upto
    /\ surveyState' = [FreshState EXCEPT !.displayId = progress.displayId]
    /\ progress' = progress
    /\ stray' = stray \cup InFlight
    /\ UNCHANGED over

Restore ==
    /\ asked' = progress.upto
    /\ IF db = {} /\ progress.responseId = 0
       THEN Lookup
       ELSE /\ surveyState' = [responseId |-> progress.responseId,
                               displayId |-> progress.displayId, bootstrap |-> FALSE]
            /\ progress' = progress
    /\ stray' = stray \cup InFlight
    /\ UNCHANGED over

(* The page is loaded again: memory, locks and unfinished IndexedDB requests *)
(* are gone; progress is restored and the sync effect runs.                  *)
Reload ==
    /\ asked > 0
    /\ budget.reload > 0
    /\ budget' = [budget EXCEPT !.reload = @ - 1]
    /\ \E expired \in {FALSE, StaleReloads} :
          \/ StartOver(expired)
          \/ Unfinished(expired) /\ Restore
    /\ error' = "none"
    /\ queue' = <<>>
    /\ pendingDbIds' = {}
    /\ pendingRemoval' = {}
    /\ isRequestInProgress' = FALSE
    /\ isSyncing' = FALSE
    /\ req' = IdleReq
    /\ syn' = IdleSyn
    /\ idb' = IF online THEN <<DbRequest("effect", 0)>> ELSE <<>>
    /\ unheard' = (unheard \/ over' \/ surveyState.responseId # progress.responseId)
    /\ UNCHANGED <<responses, turnedDown, refused, netFaults, online, db, snapshot>>

(* A request of the page before: the server sees it after all, or never.     *)
StrayArrives ==
    /\ \E m \in stray :
          /\ stray' = stray \ {m}
          /\ \/ /\ Acceptable(m)
                /\ responses' = Stored(m)
                /\ unheard' = (unheard \/ m.response = 0)
             \/ UNCHANGED <<responses, unheard>>
    /\ UNCHANGED <<turnedDown, refused, netFaults, page, memory, locks, surveyState, req, syn, idb,
                   storage, budget>>

OwnerDeletes ==
    /\ budget.delete > 0
    /\ budget' = [budget EXCEPT !.delete = @ - 1]
    /\ \E r \in DOMAIN responses : DeleteResponse(r)
    /\ UNCHANGED <<page, memory, locks, surveyState, req, syn, idb, storage, stray>>

PageStep ==
    \/ Answer
    \/ CreateDisplay
    \/ Retry
    \/ GoOffline
    \/ GoOnline
    \/ Reload
    \/ StrayArrives
    \/ OwnerDeletes
==============================================================================
