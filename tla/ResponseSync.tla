---------------------------- MODULE ResponseSync -----------------------------
(***************************************************************************)
(* ResponseQueue.syncPersistedResponses: what IndexedDB holds is sent in    *)
(* order, by the one call that holds the sync lock.                         *)
(***************************************************************************)
EXTENDS QueueStore

(* Mutant: a sync may start while processQueue has a request under way.      *)
EffectCountedUnguarded ==
    /\ Oldest("effect")
    /\ CleanUp
    /\ IF Cardinality(db') > Cardinality(pendingRemoval') /\ ~isSyncing
       THEN StartSync(Tail(idb), TRUE)
       ELSE idb' = Tail(idb) /\ UNCHANGED <<isSyncing, syn>>
    /\ UNCHANGED <<apiVars, page, queue, isRequestInProgress, surveyState, req, snapshot,
                   progress, stray>>

(* The effect's getPendingCount; an error counts as nothing pending.         *)
EffectCounted ==
    /\ Oldest("effect")
    /\ \/ /\ DbFault
          /\ idb' = Tail(idb)
          /\ UNCHANGED <<memory, db, isSyncing, syn>>
       \/ /\ CleanUp
          /\ IF Cardinality(db') > Cardinality(pendingRemoval') /\ ~isSyncing
                                                               /\ ~isRequestInProgress
             THEN StartSync(Tail(idb), TRUE)
             ELSE idb' = Tail(idb) /\ UNCHANGED <<isSyncing, syn>>
          /\ UNCHANGED queue
    /\ UNCHANGED <<apiVars, page, isRequestInProgress, surveyState, req, snapshot, progress,
                   stray>>

(* The snapshot's responseId, if it has one, replaces the current one.       *)
StateFor(a, st) ==
    IF snapshot[a].responseId # 0 THEN [st EXCEPT !.responseId = snapshot[a].responseId] ELSE st

(* removeProcessedQueueItemsByDbId: left[n] is what is left of the first n.  *)
Unprocessed(done) ==
    LET left[n \in 0..Len(queue)] ==
            IF n = 0 THEN <<>>
            ELSE IF queue[n] \in pendingDbIds /\ queue[n] \in done
            THEN left[n - 1]
            ELSE Append(left[n - 1], queue[n])
    IN  left[Len(queue)]

(* The call of processQueue for answers added meanwhile comes before the     *)
(* finally block frees the lock.                                             *)
SyncSucceeds(done, d) ==
    LET after == ProcessQueue(d, "count", Unprocessed(done), isRequestInProgress, isSyncing)
    IN  idb' = IF syn.byEffect THEN Append(after, DbRequest("clear", 0)) ELSE after

EndSync(done) ==
    /\ isSyncing' = FALSE
    /\ syn' = IdleSyn
    /\ queue' = Unprocessed(done)

(* The next entry, or the end.                                               *)
SyncNext(todo, done, d) ==
    IF todo = {}
    THEN /\ EndSync(done)
         /\ SyncSucceeds(done, d)
         /\ UNCHANGED surveyState
    ELSE LET a == Earliest(todo)
         IN  /\ surveyState' = StateFor(a, surveyState)
             /\ syn' = [syn EXCEPT !.pc = "flight", !.todo = todo \ {a}, !.done = done,
                                   !.answer = a, !.msg = Message(a, surveyState')]
             /\ idb' = d
             /\ UNCHANGED <<queue, isSyncing>>

SyncRead ==
    /\ Oldest("read")
    /\ syn.pc = "reading"
    /\ \/ /\ DbFault
          /\ EndSync({})
          /\ idb' = Tail(idb)
          /\ UNCHANGED <<pendingDbIds, pendingRemoval, db, surveyState>>
       \/ /\ CleanUp
          /\ SyncNext(db' \ pendingRemoval', {}, Tail(idb))
    /\ UNCHANGED <<apiVars, page, isRequestInProgress, req, snapshot, progress, stray>>

SyncOk ==
    /\ syn.pc = "flight"
    /\ Accept(syn.msg)
    /\ surveyState' = Learn(syn.msg)
    /\ syn' = [syn EXCEPT !.pc = "removing", !.msg = NoMessage]
    /\ idb' = Append(PatchAfter(syn.msg, idb), DbRequest("synced", 0))
    /\ UNCHANGED <<page, memory, locks, req, storage, stray, budget>>

SyncRefused ==
    /\ syn.pc = "flight"
    /\ Refuse(syn.msg) \/ Suspect(syn.msg, TRUE)
    /\ syn' = [syn EXCEPT !.pc = "removing", !.msg = NoMessage]
    /\ idb' = Append(idb, DbRequest("synced", 0))
    /\ UNCHANGED <<page, memory, locks, surveyState, req, storage, stray, budget>>

(* A 404: the entry is sent once more, as a create.                          *)
SyncNotFound ==
    /\ syn.pc = "flight"
    /\ NotFound(syn.msg)
    /\ surveyState' = [surveyState EXCEPT
                          !.responseId = 0,
                          !.displayId = IF snapshot[syn.answer].displayId # 0
                                        THEN snapshot[syn.answer].displayId ELSE @]
    /\ syn' = [syn EXCEPT !.msg = Message(syn.answer, surveyState')]
    /\ UNCHANGED <<page, memory, locks, req, idb, storage, stray, budget>>

(* Mutant: any error is taken for a final one, and the entry is removed.     *)
SyncFailsDrops ==
    /\ syn.pc = "flight"
    /\ Fail(syn.msg, online)
    /\ syn' = [syn EXCEPT !.pc = "removing", !.msg = NoMessage]
    /\ idb' = Append(idb, DbRequest("synced", 0))
    /\ UNCHANGED <<page, memory, locks, surveyState, req, storage, stray, budget>>

SyncFails ==
    /\ syn.pc = "flight"
    /\ Fail(syn.msg, online)
    /\ EndSync(syn.done)
    /\ pendingDbIds' = pendingDbIds \ syn.done
    /\ UNCHANGED <<page, pendingRemoval, isRequestInProgress, surveyState, req, idb, storage,
                   stray, budget>>

SyncedRemoved ==
    /\ Oldest("synced")
    /\ syn.pc = "removing"
    /\ RemoveStored(syn.answer)
    /\ LET done == syn.done \cup {syn.answer}
       IN  IF syn.answer \in pendingRemoval'
           THEN /\ EndSync(done)
                /\ pendingDbIds' = pendingDbIds \ done
                /\ idb' = Tail(idb)
                /\ UNCHANGED surveyState
           ELSE /\ SyncNext(syn.todo, done, Tail(idb))
                /\ pendingDbIds' = IF syn.todo = {} THEN pendingDbIds \ done ELSE pendingDbIds
    /\ UNCHANGED <<apiVars, page, isRequestInProgress, req, snapshot, progress, stray>>

SyncStep ==
    \/ EffectCounted
    \/ SyncRead
    \/ SyncOk
    \/ SyncRefused
    \/ SyncNotFound
    \/ SyncFails
    \/ SyncedRemoved
==============================================================================
