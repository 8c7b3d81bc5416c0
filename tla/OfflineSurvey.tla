---------------------------- MODULE OfflineSurvey ----------------------------
(***************************************************************************)
(* A survey with offline support: the page and the two senders, whose       *)
(* actions interleave as turns of one event loop, and the server.           *)
(***************************************************************************)
EXTENDS ResponseQueue, ResponseSync, SurveyPage

Next == PageStep \/ QueueStep \/ SyncStep

Spec == Init /\ [][Next]_vars

(* The event loop goes on: IndexedDB and the server answer or fail, backoffs *)
(* end.  The connection comes back.  Nothing is assumed of the respondent.   *)
Fairness ==
    /\ WF_vars(QueueStep)
    /\ WF_vars(SyncStep)
    /\ WF_vars(GoOnline)

FairSpec == Spec /\ Fairness
-----------------------------------------------------------------------------
(* Properties.                                                               *)

(* "Only one sync/send runs at a time per survey": processQueue and          *)
(* syncPersistedResponses never both have something under way.               *)
OneSender == req.pc = "idle" \/ syn.pc = "idle"

(* While processQueue sends, its answer is the head of the queue, so that    *)
(* queue.shift() after the await removes that answer and no other.           *)
HeadIsSent ==
    req.pc \in {"flight", "backoff"} => queue # <<>> /\ Head(queue) = req.answer

NoneDeleted == \A r \in DOMAIN responses : responses[r].live

Queued(a) == \E i \in DOMAIN queue : queue[i] = a
BeingAdded(a) == \E i \in DOMAIN idb : idb[i] = DbRequest("add", a)
Pending(a) == Queued(a) \/ a \in db \ pendingRemoval \/ BeingAdded(a)

(* As long as the client knows the response it created, no response was      *)
(* deleted and every answer could be stored, every answer given has reached  *)
(* the server, was turned down by it, or is still to be sent.                *)
AnswersKept ==
    ~unheard /\ NoneDeleted /\ budget.add = MaxAddFaults =>
        \A a \in 1..asked : Delivered(a) \/ a \in turnedDown \/ Pending(a)

(* As long as the client knows the response it created and none was deleted, *)
(* one pass through the survey creates one response, however the senders,    *)
(* retries and syncs interleave and whatever IndexedDB fails to do.          *)
OneResponse ==
    ~unheard /\ NoneDeleted => Len(responses) <= 1

(* "Drains them in order": no answer reaches the server unless every earlier *)
(* one has, or was refused, provided every answer could be stored.           *)
InOrder ==
    budget.add = MaxAddFaults =>
        \A a \in Answers : Delivered(a) => \A b \in 1..(a - 1) : Delivered(b) \/ b \in refused

Requested(op) == \E i \in DOMAIN idb : idb[i].op = op

(* Every sender that took a lock gives it back: whoever holds one waits for  *)
(* the server, for the end of a backoff or for an IndexedDB request that is  *)
(* under way; no return, error or reload leaves a lock behind.               *)
LocksReleased ==
    /\ isRequestInProgress =>
          \/ req.pc \in {"flight", "backoff"}
          \/ req.pc \in {"sent", "dropped"} /\ Requested(req.pc)
    /\ isSyncing =>
          \/ syn.pc = "flight"
          \/ syn.pc = "reading" /\ Requested("read")
          \/ syn.pc = "removing" /\ Requested("synced")

(* The survey keeps the answers it is given and delivers them in order,      *)
(* through retries, syncs and reloads: it is an AnswerChannel.  An answer is *)
(* let go of only when it arrived or was refused, and a reload goes on right *)
(* behind the last answer that was stored, as long as all could be stored.   *)
Channel == INSTANCE AnswerChannel WITH
    given <- asked,
    written <- {a \in 1..asked : ~BeingAdded(a)},
    held <- {a \in Answers : Pending(a)},
    arrived <- {a \in Answers : Delivered(a)},
    whole <- budget.add = MaxAddFaults
ImplementsChannel == Channel!Spec

(* "Kick off processQueue for any entries added during sync": with the        *)
(* connection back, a stored answer is sent, or the respondent sees an error *)
(* card.  (Not so: the call is made before the sync lock is freed.)          *)
EveryAnswerSynced ==
    \A a \in Answers :
        a \in db /\ error = "none" ~> a \notin db \/ error # "none"

(* "All pending responses are automatically synced": an answer given is on   *)
(* the server, was refused, or is still to be sent.  (Not so: when the reply *)
(* to the create is lost, every later create is refused, for a display that  *)
(* has its response, and the answers are dropped.)                           *)
NothingLost ==
    \A a \in 1..asked : Delivered(a) \/ a \in turnedDown \/ Pending(a)
==============================================================================
