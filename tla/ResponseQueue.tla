---------------------------- MODULE ResponseQueue ----------------------------
(***************************************************************************)
(* ResponseQueue.processQueue: the head of the queue is sent, with retries, *)
(* by the one call that holds the request lock.  One action is one turn of  *)
(* the event loop.                                                          *)
(***************************************************************************)
EXTENDS QueueStore

(* Mutant: the progress is saved as it was before the answer.                *)
AddedStale ==
    /\ Oldest("add")
    /\ LET a == Head(idb).n
       IN  /\ progress' = [saved |-> TRUE, upto |-> a - 1,
                           responseId |-> snapshot[a].responseId,
                           displayId |-> snapshot[a].displayId]
           /\ \/ /\ db' = db \cup {a}
                 /\ pendingDbIds' = pendingDbIds \cup {a}
                 /\ UNCHANGED budget
              \/ /\ budget.add > 0
                 /\ budget' = [budget EXCEPT !.add = @ - 1]
                 /\ UNCHANGED <<db, pendingDbIds>>
    /\ idb' = ProcessQueue(Tail(idb), "count", queue, isRequestInProgress, isSyncing)
    /\ UNCHANGED <<apiVars, page, queue, pendingRemoval, locks, surveyState, req, syn,
                   snapshot, stray>>

(* addPendingResponse settles, stored or not; processQueue is called.        *)
Added ==
    /\ Oldest("add")
    /\ LET a == Head(idb).n
       IN  /\ progress' = [saved |-> TRUE, upto |-> a,
                           responseId |-> snapshot[a].responseId,
                           displayId |-> snapshot[a].displayId]
           /\ \/ /\ db' = db \cup {a}
                 /\ pendingDbIds' = pendingDbIds \cup {a}
                 /\ UNCHANGED budget
              \/ /\ budget.add > 0
                 /\ budget' = [budget EXCEPT !.add = @ - 1]
                 /\ UNCHANGED <<db, pendingDbIds>>
    /\ idb' = ProcessQueue(Tail(idb), "count", queue, isRequestInProgress, isSyncing)
    /\ UNCHANGED <<apiVars, page, queue, pendingRemoval, locks, surveyState, req, syn,
                   snapshot, stray>>

(* patchSurveyProgressSnapshot leaves an entry that is not there alone.      *)
Patched ==
    /\ Oldest("patchResponse") \/ Oldest("patchDisplay")
    /\ progress' =
          IF ~progress.saved THEN progress
          ELSE IF Head(idb).op = "patchResponse"
               THEN [progress EXCEPT !.responseId = Head(idb).n]
               ELSE [progress EXCEPT !.displayId = Head(idb).n]
    /\ idb' = Tail(idb)
    /\ UNCHANGED <<apiVars, page, memory, locks, surveyState, req, syn, db, snapshot,
                   stray, budget>>

Cleared ==
    /\ Oldest("clear")
    /\ progress' = NoProgress
    /\ idb' = Tail(idb)
    /\ UNCHANGED <<apiVars, page, memory, locks, surveyState, req, syn, db, snapshot,
                   stray, budget>>
-----------------------------------------------------------------------------
(* processQueue.                                                             *)

Counting == Oldest("count") \/ Oldest("retry")

CountFails ==
    /\ Counting
    /\ DbFault
    /\ idb' = Tail(idb)
    /\ UNCHANGED <<apiVars, page, memory, locks, surveyState, req, syn, storage, stray>>

(* Mutant: no second look at the locks after the await.                      *)
CountedUnchecked ==
    /\ Counting
    /\ CleanUp
    /\ queue # <<>>
    /\ IF Cardinality(db') > Cardinality(pendingRemoval') + 1
       THEN /\ StartSync(Tail(idb), FALSE)
            /\ UNCHANGED <<isRequestInProgress, req>>
       ELSE /\ isRequestInProgress' = TRUE
            /\ req' = [pc |-> "flight", answer |-> Head(queue), attempt |-> 0,
                       manual |-> Head(idb).op = "retry",
                       msg |-> Message(Head(queue), surveyState)]
            /\ idb' = Tail(idb)
            /\ UNCHANGED <<isSyncing, syn>>
    /\ UNCHANGED <<apiVars, page, queue, surveyState, snapshot, progress, stray>>

(* Back from the await: give up if a sender has started or nothing is left;  *)
(* leave more than one stored answer to the sync; else send the head.        *)
Counted ==
    /\ Counting
    /\ CleanUp
    /\ IF isSyncing \/ isRequestInProgress \/ queue = <<>>
       THEN /\ idb' = Tail(idb)
            /\ UNCHANGED <<locks, req, syn>>
       ELSE IF Cardinality(db') > Cardinality(pendingRemoval') + 1
       THEN /\ StartSync(Tail(idb), FALSE)
            /\ UNCHANGED <<isRequestInProgress, req>>
       ELSE /\ isRequestInProgress' = TRUE
            /\ req' = [pc |-> "flight", answer |-> Head(queue), attempt |-> 0,
                       manual |-> Head(idb).op = "retry",
                       msg |-> Message(Head(queue), surveyState)]
            /\ idb' = Tail(idb)
            /\ UNCHANGED <<isSyncing, syn>>
    /\ UNCHANGED <<apiVars, page, queue, surveyState, snapshot, progress, stray>>

(* handleSuccessfulResponse, with d the IndexedDB requests under way.        *)
Succeeded(q, d) ==
    /\ isRequestInProgress' = FALSE
    /\ req' = IdleReq
    /\ error' = IF req.manual \/ req.answer = NumAnswers THEN "none" ELSE error
    /\ idb' = ProcessQueue(d, "count", q, FALSE, isSyncing)

(* Mutant: the offline return forgets the lock.                              *)
FailedKeepsLock(card) ==
    /\ isRequestInProgress' = ~online
    /\ req' = IdleReq
    /\ error' = IF online THEN card ELSE error

(* handleFailedResponse: a card is shown, unless the browser is offline.     *)
Failed(card) ==
    /\ isRequestInProgress' = FALSE
    /\ req' = IdleReq
    /\ error' = IF online THEN card ELSE error

SendOk ==
    /\ req.pc = "flight"
    /\ Accept(req.msg)
    /\ surveyState' = Learn(req.msg)
    /\ queue' = Tail(queue)
    /\ LET d == PatchAfter(req.msg, idb)
       IN  IF req.answer \in pendingDbIds
           THEN /\ req' = [req EXCEPT !.pc = "sent", !.msg = NoMessage]
                /\ idb' = Append(d, DbRequest("sent", 0))
                /\ UNCHANGED <<error, isRequestInProgress>>
           ELSE Succeeded(Tail(queue), d)
    /\ UNCHANGED <<asked, over, online, pendingDbIds, pendingRemoval, isSyncing, syn,
                   storage, stray, budget>>

(* A terminal 4xx: the answer is dropped, if the browser is online.          *)
SendRefused ==
    /\ req.pc = "flight"
    /\ Refuse(req.msg)
    /\ IF ~online
       THEN Failed("final") /\ UNCHANGED <<queue, idb>>
       ELSE /\ queue' = Tail(queue)
            /\ IF req.answer \in pendingDbIds
               THEN /\ req' = [req EXCEPT !.pc = "dropped", !.msg = NoMessage]
                    /\ idb' = Append(idb, DbRequest("dropped", 0))
                    /\ UNCHANGED <<error, isRequestInProgress>>
               ELSE Failed("final") /\ UNCHANGED idb
    /\ UNCHANGED <<asked, over, online, pendingDbIds, pendingRemoval, isSyncing, surveyState,
                   syn, storage, stray, budget>>

SendSuspected ==
    /\ req.pc = "flight"
    /\ Suspect(req.msg, FALSE)
    /\ Failed("final")
    /\ UNCHANGED <<asked, over, online, memory, isSyncing, surveyState, syn, idb, storage,
                   stray, budget>>

SendFails ==
    /\ req.pc = "flight"
    /\ Fail(req.msg, online) \/ NotFound(req.msg)
    /\ req' = [req EXCEPT !.pc = "backoff", !.msg = NoMessage]
    /\ UNCHANGED <<page, memory, locks, surveyState, syn, idb, storage, stray, budget>>

(* Mutant: one attempt too many.                                             *)
ResendOnceMore ==
    /\ req.pc = "backoff"
    /\ IF req.attempt < RetryAttempts
       THEN /\ req' = [req EXCEPT !.pc = "flight", !.attempt = @ + 1,
                                  !.msg = Message(req.answer, surveyState)]
            /\ UNCHANGED <<error, isRequestInProgress>>
       ELSE Failed("retry")
    /\ UNCHANGED <<apiVars, asked, over, online, memory, isSyncing, surveyState, syn, idb,
                   storage, stray, budget>>

(* The backoff ends: once more, or no more attempts.                         *)
Resend ==
    /\ req.pc = "backoff"
    /\ IF req.attempt + 1 < RetryAttempts
       THEN /\ req' = [req EXCEPT !.pc = "flight", !.attempt = @ + 1,
                                  !.msg = Message(req.answer, surveyState)]
            /\ UNCHANGED <<error, isRequestInProgress>>
       ELSE Failed("retry")
    /\ UNCHANGED <<apiVars, asked, over, online, memory, isSyncing, surveyState, syn, idb,
                   storage, stray, budget>>

SentRemoved ==
    /\ Oldest("sent")
    /\ req.pc = "sent"
    /\ RemoveStored(req.answer)
    /\ ForgetRemoved(req.answer)
    /\ Succeeded(queue, Tail(idb))
    /\ UNCHANGED <<apiVars, asked, over, online, queue, isSyncing, surveyState, syn,
                   snapshot, progress, stray>>

DroppedRemoved ==
    /\ Oldest("dropped")
    /\ req.pc = "dropped"
    /\ RemoveStored(req.answer)
    /\ ForgetRemoved(req.answer)
    /\ isRequestInProgress' = FALSE
    /\ req' = IdleReq
    /\ error' = "final"
    /\ idb' = Tail(idb)
    /\ UNCHANGED <<apiVars, asked, over, online, queue, isSyncing, surveyState, syn,
                   snapshot, progress, stray>>

QueueStep ==
    \/ Added
    \/ Patched
    \/ Cleared
    \/ CountFails
    \/ Counted
    \/ SendOk
    \/ SendRefused
    \/ SendSuspected
    \/ SendFails
    \/ Resend
    \/ SentRemoved
    \/ DroppedRemoved
==============================================================================
