---------------------------- MODULE DrainProofs -----------------------------
(***************************************************************************)
(* While nothing fails, no job leaves the queue with its run undecided.  A   *)
(* handler then holds the lock it was given and counts its attempts right,   *)
(* a row that reads running is a handler's own, and what a handler has read  *)
(* still holds when it acts on it, but for what the sweeps and the deletion  *)
(* of a run change.  Every step is first reduced to one of four effects.     *)
(***************************************************************************)
EXTENDS SendOnceProofs

-----------------------------------------------------------------------------
Decided(r) == run[r] \in Terminal \cup {"deleted"}

(* What holds whatever fails: a job, and whoever holds or is about to add     *)
(* one, has a row; a step is skipped only once its run is decided.            *)
RowsInv ==
    /\ \A r \in Runs :
          /\ job[r] # "absent" => run[r] # "none"
          /\ \A s \in Steps :
                /\ run[r] = "deleted" => log[r][s] = "none"
                /\ log[r][s] = "skipped" => Decided(r)
    /\ \A w \in Workers : wk[w].pc # "idle" => run[wk[w].run] # "none"
    /\ \A p \in Passes : pass[p].pc = "dispatch" => run[pass[p].run] # "none"
    /\ \A k \in Ticks : \A o \in orphans[k].todo : run[o.run] # "none"
    /\ \A k \in Ticks : stuck[k].skip # NoRun => Decided(stuck[k].skip)

Calm == faults = 0 /\ crashes = 0

(* An active job has one handler, which holds its lock and counts its         *)
(* attempts right.                                                            *)
LockInv ==
    /\ \A w \in Workers : wk[w].pc # "idle" =>
          /\ lock[wk[w].run] = w
          /\ wk[w].attempt = Attempt(wk[w].run)
    /\ \A r \in Runs : job[r] = "active" =>
          \E w \in Workers : wk[w].pc # "idle" /\ wk[w].run = r

(* What a handler has read still holds, but for what the sweeps and the       *)
(* deletion of a run change.                                                  *)
ReadHolds(w) ==
    LET r == wk[w].run
        s == wk[w].step
    IN
    /\ wk[w].pc = "claim" =>
          wk[w].loaded # "none" /\ (wk[w].loaded = "queued" => run[r] # "running")
    /\ wk[w].pc \in InStep \cup {"context", "complete"} => run[r] # "queued"
    /\ wk[w].pc = "create" => log[r][s] = "none"
    /\ wk[w].pc = "takeover" => log[r][s] \in {"failed", "skipped"} \/ run[r] = "deleted"

OwnedInv ==
    \A r \in Runs, s \in Steps : log[r][s] = "running" => \E w \in Workers : Owns(w, r, s)

DrainInv == \A r \in Runs : job[r] \in {"completed", "failed"} => Decided(r)

CalmInv ==
    Calm => LockInv /\ OwnedInv /\ DrainInv /\ \A w \in Workers : ReadHolds(w)

LEMMA DecidedStays == ASSUME TypeOK, [Next]_vars, NEW r \in Runs, Decided(r) PROVE Decided(r)'
BY StatusMoves DEF StatusMove, Decided, Exists, Terminal, TypeOK, TablesTypeOK

-----------------------------------------------------------------------------
(* The rows.                                                                 *)

LEMMA ExecutorLogs ==
    ASSUME TypeOK, RowsInv, NEW w \in Workers, ExecutorStep(w)
    PROVE  \/ log' = log
           \/ \E r \in Runs, s \in Steps, st \in {"running", "succeeded", "failed"} :
                 Exists(r) /\ r = wk[w].run /\ WriteLog(r, s, st)
<1>1. CASE log' = log
  BY <1>1
<1>2. CASE CreateStep(w) \/ RecordStep(w)
  <2>1. PICK r \in Runs, s \in Steps : r = wk[w].run /\ s = wk[w].step
    BY <1>2, StepTyped DEF CreateStep, RecordStep, At, InStep
  <2> QED
    BY <1>2, <2>1 DEF CreateStep, RecordStep
<1>3. CASE TakeOverStep(w)
  <2>1. PICK r \in Runs, s \in Steps : r = wk[w].run /\ s = wk[w].step
    BY <1>3, StepTyped DEF TakeOverStep, At, InStep
  <2>2. log[r][s] = "failed" => Exists(r)
    BY <1>3, <2>1 DEF RowsInv, Exists, TakeOverStep, At
  <2> QED
    BY <1>3, <2>1, <2>2 DEF TakeOverStep
<1> QED
  BY <1>1, <1>2, <1>3 DEF ExecutorStep, Deliver, Execute, LoadRun, ClaimRun, LoadContext,
     FindStep, SendEmail, CompleteRun, HandleRunError, WorkerCrash, LoseLock

LEMMA UpdateChanges ==
    ASSUME TypeOK, NEW q \in Runs, NEW from \in SUBSET {"queued", "running"},
           NEW to \in {"running", "completed", "failed"}, UpdateRun(q, from, to)
    PROVE  \A r \in Runs : \/ run'[r] = run[r]
                          \/ /\ r = q
                             /\ run[r] \in {"queued", "running"}
                             /\ run'[r] \in {"running", "completed", "failed"}
BY DEF UpdateRun, rowVars, TypeOK, TablesTypeOK

(* A handler changes the status of its own run only, and never deletes it.    *)
LEMMA ExecutorRuns ==
    ASSUME TypeOK, NEW w \in Workers, ExecutorStep(w)
    PROVE  \A r \in Runs : \/ run'[r] = run[r]
                          \/ /\ r = wk[w].run
                             /\ run[r] \in {"queued", "running"}
                             /\ run'[r] \in {"running", "completed", "failed"}
<1>1. CASE UNCHANGED rowVars
  BY <1>1 DEF rowVars
<1>2. CASE ~UNCHANGED rowVars
  <2>1. PICK q \in Runs : q = wk[w].run
    BY <1>2, ExecutorQueueEffect DEF ExecutorStep, Deliver
  <2>2. \/ UpdateRun(q, {"queued"}, "running")
        \/ UpdateRun(q, {"running"}, "completed")
        \/ UpdateRun(q, {"queued", "running"}, "failed")
        \/ UpdateRun(q, {"queued", "running"}, run[q])
    BY <1>2, <2>1 DEF ExecutorStep, Deliver, Execute, LoadRun, ClaimRun, LoadContext, FindStep,
           CreateStep, TakeOverStep, SendEmail, RecordStep, CompleteRun, HandleRunError,
           WorkerCrash, LoseLock
  <2>3. CASE UpdateRun(q, {"queued", "running"}, run[q])
    BY <1>2, <2>3 DEF UpdateRun, TypeOK, TablesTypeOK
  <2> QED
    BY <2>1, <2>2, <2>3, UpdateChanges
<1> QED
  BY <1>1, <1>2

(* What every step does to the log: a handler writes a row of a run that      *)
(* exists, a sweep closes rows of a decided one, a deletion removes them.      *)
LogStep ==
    \/ log' = log /\ \A r \in Runs : run'[r] = "deleted" => run[r] = "deleted"
    \/ /\ \A r \in Runs : run'[r] = "deleted" => run[r] = "deleted"
       /\ \E r \in Runs, s \in Steps, st \in {"running", "succeeded", "failed"} :
             Exists(r) /\ WriteLog(r, s, st)
    \/ Skips /\ \A r \in Runs : Decided(r) \/ log'[r] = log[r]
    \/ Deletes

LEMMA SkipsDecided ==
    ASSUME TypeOK, RowsInv, NEW k \in Ticks, ReconcilerStep(k), Skips
    PROVE  \A r \in Runs : Decided(r) \/ log'[r] = log[r]
<1>1. CASE log' = log
  BY <1>1
<1>2. CASE log' # log
  <2>1. SkipSteps(k)
    BY <1>2 DEF ReconcilerStep, Reconcile, ScanOrphans, AgeOut, Redispatch, StampOrphan, ScanStuck,
                FailStuck, TickCrash
  <2>2. \A r \in Runs : r # stuck[k].skip => log'[r] = log[r]
    BY <1>2, <2>1 DEF SkipSteps, TypeOK, TablesTypeOK
  <2>3. Decided(stuck[k].skip)
    BY <2>1 DEF SkipSteps, RowsInv
  <2> QED
    BY <2>2, <2>3
<1> QED
  BY <1>1, <1>2

LEMMA LogSteps == ASSUME TypeOK, RowsInv, [Next]_vars PROVE LogStep
<1>1. CASE Outside
  BY <1>1, RunsAdvanceEffect DEF Outside, LogStep
<1>2. CASE UNCHANGED vars
  BY <1>2 DEF vars, rowVars, LogStep
<1>3. ASSUME NEW w \in Workers, ExecutorStep(w) PROVE LogStep
  BY <1>3, ExecutorLogs, ExecutorRuns DEF LogStep
<1>4. ASSUME NEW p \in Passes, ProducerStep(p) PROVE LogStep
  BY <1>1, <1>4, ProducerKind
<1>5. ASSUME NEW k \in Ticks, ReconcilerStep(k) PROVE LogStep
  BY <1>1, <1>5, ReconcilerKind, SkipsDecided DEF LogStep
<1>6. ASSUME NEW r \in Runs, WorldStep(r) PROVE LogStep
  BY <1>1, <1>6, WorldKind DEF LogStep
<1> QED
  BY <1>2, <1>3, <1>4, <1>5, <1>6 DEF Next

LEMMA LogRows ==
    ASSUME TypeOK, RowsInv, [Next]_vars, NEW r \in Runs, NEW s \in Steps
    PROVE  /\ run'[r] = "deleted" => log'[r][s] = "none"
           /\ log'[r][s] = "skipped" => Decided(r)'
<1>0. /\ run[r] = "deleted" => log[r][s] = "none"
      /\ log[r][s] = "skipped" => Decided(r)
  BY DEF RowsInv
<1>1. CASE log' = log /\ \A q \in Runs : run'[q] = "deleted" => run[q] = "deleted"
  BY <1>0, <1>1, DecidedStays
<1>2. CASE /\ \A q \in Runs : run'[q] = "deleted" => run[q] = "deleted"
           /\ \E q \in Runs, t \in Steps, st \in {"running", "succeeded", "failed"} :
                 Exists(q) /\ WriteLog(q, t, st)
  <2>1. PICK q \in Runs, t \in Steps, st \in {"running", "succeeded", "failed"} :
           Exists(q) /\ WriteLog(q, t, st)
    BY <1>2
  <2>2. CASE q = r /\ t = s
    BY <1>2, <2>1, <2>2, WriteLogEffect DEF Exists
  <2>3. CASE ~(q = r /\ t = s)
    BY <1>0, <1>2, <2>1, <2>3, WriteLogEffect, DecidedStays
  <2> QED
    BY <2>2, <2>3
<1>3. CASE Skips /\ \A q \in Runs : Decided(q) \/ log'[q] = log[q]
  <2>1. log'[r][s] = log[r][s] \/ (log[r][s] = "running" /\ log'[r][s] = "skipped")
    BY <1>3 DEF Skips, TypeOK, TablesTypeOK
  <2> QED
    BY <1>0, <1>3, <2>1, DecidedStays DEF Skips
<1>4. CASE Deletes
  BY <1>0, <1>4, DecidedStays DEF Deletes, NoLog, TypeOK, TablesTypeOK
<1> QED
  BY <1>1, <1>2, <1>3, <1>4, LogSteps DEF LogStep

-----------------------------------------------------------------------------
(* The jobs: one is added only for a run that has a row.                      *)
JobsFrom == \A r \in Runs : job'[r] # "absent" => job[r] # "absent" \/ run[r] # "none"

LEMMA AddFrom ==
    ASSUME TypeOK, NEW r \in Runs, run[r] # "none", AddJob(r) \/ UNCHANGED queueVars
    PROVE  JobsFrom
BY DEF AddJob, JobsFrom, queueVars, TypeOK, QueueTypeOK

LEMMA EffectFrom ==
    ASSUME TypeOK, NEW w \in Workers, NEW r \in Runs, QueueEffect(w, r),
           run[r] # "none"
    PROVE  JobsFrom
<1>1. CASE AddJob(r) \/ UNCHANGED queueVars
  BY <1>1, AddFrom
<1> USE DEF TypeOK, QueueTypeOK, JobsFrom, queueVars
<1>2. CASE TakeJob(w, r)
  BY <1>2 DEF TakeJob
<1>3. CASE JobReturned(w, r)
  BY <1>3 DEF JobReturned
<1>4. CASE JobThrew(w, r)
  BY <1>4 DEF JobThrew
<1>5. CASE DropLock(w)
  BY <1>5 DEF DropLock
<1>6. CASE RecoverStalled(r)
  BY <1>6 DEF RecoverStalled
<1>7. CASE Evict(r)
  BY <1>7 DEF Evict
<1> QED
  BY <1>1, <1>2, <1>3, <1>4, <1>5, <1>6, <1>7 DEF QueueEffect

LEMMA JobSteps == ASSUME TypeOK, RowsInv, [Next]_vars PROVE JobsFrom
<1>1. CASE UNCHANGED queueVars
  BY <1>1 DEF queueVars, JobsFrom
<1>2. ASSUME NEW w \in Workers, ExecutorStep(w) PROVE JobsFrom
  <2>1. CASE \E r \in Runs : Deliver(w, r)
    BY <2>1 DEF Deliver, TakeJob, JobsFrom, TypeOK, QueueTypeOK
  <2>2. CASE ~\E r \in Runs : Deliver(w, r)
    <3>1. wk[w].run \in Runs /\ QueueEffect(w, wk[w].run) /\ wk[w].pc # "idle"
      <4>1. Execute(w) \/ WorkerCrash(w) \/ LoseLock(w)
        BY <1>2, <2>2 DEF ExecutorStep
      <4>2. wk[w].pc # "idle"
        BY <4>1 DEF Execute, LoadRun, ClaimRun, LoadContext, FindStep, CreateStep, TakeOverStep,
                    SendEmail, RecordStep, CompleteRun, HandleRunError, WorkerCrash, LoseLock, At
      <4> QED
        BY <4>1, <4>2, ExecutorQueueEffect
    <3> QED
      BY <3>1, EffectFrom DEF RowsInv
  <2> QED
    BY <2>1, <2>2
<1>3. ASSUME NEW p \in Passes, ProducerStep(p) PROVE JobsFrom
  <2>1. CASE DispatchRun(p)
    <3>1. PICK r \in Runs : r = pass[p].run /\ run[r] # "none"
      BY <2>1 DEF DispatchRun, TypeOK, ProducerTypeOK, RowsInv
    <3> QED
      BY <2>1, <3>1, AddFrom DEF DispatchRun
  <2> QED
    BY <1>1, <1>3, <2>1 DEF ProducerStep, Produce, PersistRun, StampRun, PassCrash
<1>4. ASSUME NEW k \in Ticks, ReconcilerStep(k) PROVE JobsFrom
  <2>1. ASSUME NEW o \in orphans[k].todo, Redispatch(k, o) PROVE JobsFrom
    <3>1. PICK r \in Runs : r = o.run /\ run[r] # "none"
      BY DEF TypeOK, ReconcilerTypeOK, OrphanRow, RowsInv
    <3> QED
      BY <2>1, <3>1, AddFrom DEF Redispatch
  <2> QED
    BY <1>1, <1>4, <2>1 DEF ReconcilerStep, Reconcile, ScanOrphans, AgeOut, StampOrphan, ScanStuck,
                            FailStuck, SkipSteps, TickCrash
<1>5. ASSUME NEW r \in Runs, WorldStep(r) PROVE JobsFrom
  <2>1. CASE RecoverStalled(r) \/ Evict(r)
    BY <2>1 DEF RecoverStalled, Evict, JobsFrom, TypeOK, QueueTypeOK
  <2> QED
    BY <1>1, <1>5, <2>1 DEF WorldStep, World, GrowOld, GoIdle, DeleteRun, StallCheck, EvictJob
<1> QED
  BY <1>1, <1>2, <1>3, <1>4, <1>5 DEF Next, vars

-----------------------------------------------------------------------------
(* The handlers: one ends or goes on with its delivery.                       *)
GoesOn(w) == wk'[w].run = wk[w].run /\ wk'[w].attempt = wk[w].attempt

LEMMA GotoGoesOn ==
    ASSUME TypeOK, NEW w \in Workers, NEW p, Goto(w, p)
    PROVE  Others(w) /\ GoesOn(w)
BY DEF TypeOK, ExecutorTypeOK, HandlerState, Goto, MovesTo, Others, GoesOn

LEMMA StepDoneGoesOn ==
    ASSUME TypeOK, NEW w \in Workers, NEW i, StepDone(w, i)
    PROVE  Others(w) /\ GoesOn(w)
<1>1. CASE i < NumSteps
  BY <1>1 DEF TypeOK, ExecutorTypeOK, HandlerState, StepDone, MovesTo, Others, GoesOn
<1>2. CASE ~(i < NumSteps)
  BY <1>2, GotoGoesOn DEF StepDone
<1> QED
  BY <1>1, <1>2

LEMMA HandlerMoves ==
    ASSUME TypeOK, NEW w \in Workers, Execute(w)
    PROVE  wk[w].pc # "idle" /\ Others(w) /\ (wk'[w].pc = "idle" \/ GoesOn(w))
<1> USE IdleMoves, GotoGoesOn DEF Return, Throw, Catch, At
<1>1. CASE LoadRun(w)
  <2>1. CASE MovesTo(w, [wk[w] EXCEPT !.pc = "claim", !.loaded = run[wk[w].run]])
    BY <1>1, <2>1 DEF LoadRun, TypeOK, ExecutorTypeOK, HandlerState, MovesTo, Others, GoesOn
  <2> QED
    BY <1>1, <2>1 DEF LoadRun
<1>2. CASE ClaimRun(w)
  BY <1>2 DEF ClaimRun
<1>3. CASE LoadContext(w)
  BY <1>3, StepDoneGoesOn DEF LoadContext
<1>4. CASE FindStep(w)
  BY <1>4, StepDoneGoesOn DEF FindStep
<1>5. CASE CreateStep(w)
  BY <1>5 DEF CreateStep
<1>6. CASE TakeOverStep(w)
  BY <1>6 DEF TakeOverStep
<1>7. CASE SendEmail(w)
  BY <1>7 DEF SendEmail, TypeOK, ExecutorTypeOK, HandlerState, MovesTo, Others, GoesOn
<1>8. CASE RecordStep(w)
  BY <1>8, StepDoneGoesOn DEF RecordStep
<1>9. CASE CompleteRun(w)
  BY <1>9 DEF CompleteRun
<1>10. CASE HandleRunError(w)
  BY <1>10 DEF HandleRunError
<1> QED
  BY <1>1, <1>2, <1>3, <1>4, <1>5, <1>6, <1>7, <1>8, <1>9, <1>10 DEF Execute

LEMMA DeliverMoves ==
    ASSUME TypeOK, NEW w \in Workers, NEW r \in Runs, Deliver(w, r)
    PROVE  /\ Others(w) /\ wk[w].pc = "idle" /\ job[r] = "waiting"
           /\ wk'[w].pc = "load" /\ wk'[w].run = r /\ wk'[w].attempt = Attempt(r)
BY DEF Deliver, TakeJob, At, MovesTo, Idle, Others, TypeOK, ExecutorTypeOK

LEMMA OutsideHandlers ==
    ASSUME [Next]_vars, \A w \in Workers : ~ExecutorStep(w)
    PROVE  UNCHANGED executorVars
BY DEF Next, vars, ProducerStep, ReconcilerStep, WorldStep

LEMMA HandlersHaveRows ==
    ASSUME TypeOK, RowsInv, [Next]_vars, NEW v \in Workers, wk'[v].pc # "idle"
    PROVE  run'[wk'[v].run] # "none"
<1>1. CASE wk[v].pc # "idle" /\ wk'[v].run = wk[v].run
  BY <1>1, RowsStay, StepTyped DEF RowsInv
<1>2. CASE wk'[v] = wk[v]
  BY <1>1, <1>2
<1>3. ASSUME NEW w \in Workers, ExecutorStep(w) PROVE run'[wk'[v].run] # "none"
  <2>1. CASE v # w
    <3>1. Others(w)
      BY <1>3, HandlerMoves, DeliverMoves, IdleMoves
         DEF ExecutorStep, WorkerCrash, LoseLock, executorVars, Others
    <3> QED
      BY <1>2, <2>1, <3>1 DEF Others
  <2>2. CASE v = w
    <3>1. ASSUME NEW r \in Runs, Deliver(w, r) PROVE run'[wk'[v].run] # "none"
      BY <2>2, <3>1, DeliverMoves, RowsStay DEF RowsInv
    <3>2. CASE Execute(w)
      BY <1>1, <2>2, <3>2, HandlerMoves DEF GoesOn
    <3>3. CASE WorkerCrash(w)
      BY <2>2, <3>3, IdleMoves DEF WorkerCrash
    <3>4. CASE LoseLock(w)
      BY <1>2, <3>4 DEF LoseLock, executorVars
    <3> QED
      BY <1>3, <3>1, <3>2, <3>3, <3>4 DEF ExecutorStep
  <2> QED
    BY <2>1, <2>2
<1> QED
  BY <1>2, <1>3, OutsideHandlers DEF executorVars

LEMMA PassesHaveRows ==
    ASSUME TypeOK, RowsInv, [Next]_vars, NEW q \in Passes, pass'[q].pc = "dispatch"
    PROVE  run'[pass'[q].run] # "none"
<1>1. CASE pass[q].pc = "dispatch" /\ pass'[q].run = pass[q].run
  BY <1>1, RowsStay DEF RowsInv, TypeOK, ProducerTypeOK
<1>2. CASE pass'[q] = pass[q]
  BY <1>1, <1>2
<1>3. ASSUME NEW p \in Passes, ProducerStep(p) PROVE run'[pass'[q].run] # "none"
  <2>1. ASSUME NEW r \in Runs, PersistRun(p, r),
               run' = [run EXCEPT ![r] = IF @ = "none" THEN "queued" ELSE @],
               pass' = [pass EXCEPT ![p] = PassAt("dispatch", pass[p].todo \ {r}, r, run[r] = "none")]
        PROVE  run'[pass'[q].run] # "none"
    <3> DEFINE x == PassAt("dispatch", pass[p].todo \ {r}, r, run[r] = "none")
    <3>1. x.run = r
      BY DEF PassAt
    <3> HIDE DEF x
    <3>2. pass'[p] = x /\ \A o \in Passes : o # p => pass'[o] = pass[o]
      BY <2>1 DEF x, TypeOK, ProducerTypeOK
    <3>3. run'[r] # "none"
      BY <2>1 DEF TypeOK, TablesTypeOK
    <3>4. CASE q = p
      BY <3>1, <3>2, <3>3, <3>4
    <3>5. CASE q # p
      BY <1>2, <3>2, <3>5
    <3> QED
      BY <3>4, <3>5
  <2>2. ASSUME NEW todo, NextMatch(p, todo) \/ Abort(p) PROVE run'[pass'[q].run] # "none"
    <3>1. q # p /\ pass'[q] = pass[q]
      BY <2>2 DEF NextMatch, Abort, PassAt, TypeOK, ProducerTypeOK
    <3> QED
      BY <1>2, <3>1
  <2>3. CASE DispatchRun(p) /\ pass' = [pass EXCEPT ![p].pc = "mark"]
    BY <1>2, <2>3 DEF TypeOK, ProducerTypeOK
  <2> QED
    BY <1>3, <2>1, <2>2, <2>3 DEF ProducerStep, Produce, PersistRun, DispatchRun, StampRun, PassCrash
<1> QED
  BY <1>2, <1>3 DEF Next, vars, ExecutorStep, ReconcilerStep, WorldStep, producerVars

Closed(status) == status \in Terminal \cup {"deleted"}

LEMMA SweepsHaveRows ==
    ASSUME TypeOK, RowsInv, [Next]_vars, NEW j \in Ticks
    PROVE  /\ \A o \in orphans'[j].todo : run'[o.run] # "none"
           /\ stuck'[j].skip # NoRun => Closed(run'[stuck'[j].skip])
<1>0. /\ \A o \in orphans[j].todo : o.run \in Runs
      /\ stuck[j].skip # NoRun => stuck[j].skip \in Runs
  BY DEF TypeOK, ReconcilerTypeOK, OrphanRow
<1>1. ASSUME orphans'[j].todo \subseteq orphans[j].todo
      PROVE  \A o \in orphans'[j].todo : run'[o.run] # "none"
  BY <1>0, <1>1, RowsStay DEF RowsInv
<1>2. ASSUME stuck'[j].skip \in {NoRun, stuck[j].skip}
      PROVE  stuck'[j].skip # NoRun => Closed(run'[stuck'[j].skip])
  <2>1. ASSUME NEW r \in Runs, Decided(r) PROVE Closed(run'[r])
    BY <2>1, DecidedStays DEF Decided, Closed
  <2>2. stuck[j].skip # NoRun => Closed(run'[stuck[j].skip])
    BY <1>0, <2>1 DEF RowsInv
  <2> QED
    BY <1>2, <2>2
<1>3. ASSUME NEW k \in Ticks, ReconcilerStep(k)
      PROVE  /\ \A o \in orphans'[j].todo : run'[o.run] # "none"
             /\ stuck'[j].skip # NoRun => Closed(run'[stuck'[j].skip])
  <2>1. CASE ScanOrphans(k)
    <3>1. stuck' = stuck /\ run' = run
      BY <2>1 DEF ScanOrphans, rowVars
    <3>2. \A o \in orphans'[k].todo : run[o.run] = "queued"
      BY <2>1 DEF ScanOrphans, TypeOK, ReconcilerTypeOK
    <3>3. j # k => orphans'[j] = orphans[j]
      BY <2>1 DEF ScanOrphans, TypeOK, ReconcilerTypeOK
    <3> QED
      BY <1>1, <1>2, <3>1, <3>2, <3>3
  <2>2. ASSUME NEW r \in stuck[k].todo, FailStuck(k, r)
        PROVE  /\ \A o \in orphans'[j].todo : run'[o.run] # "none"
               /\ stuck'[j].skip # NoRun => Closed(run'[stuck'[j].skip])
    <3>0. r \in Runs
      BY DEF TypeOK, ReconcilerTypeOK
    <3>1. orphans' = orphans
      BY <2>2 DEF FailStuck
    <3>2. stuck'[j].skip \in {NoRun, stuck[j].skip} \/ (stuck'[j].skip = r /\ run'[r] = "failed")
      <4>1. CASE j # k
        BY <2>2, <4>1 DEF FailStuck, TypeOK, ReconcilerTypeOK
      <4>2. CASE j = k /\ run[r] = "running"
        <5>1. run'[r] = "failed" \/ stuck' = [stuck EXCEPT ![k].todo = @ \ {r}]
          BY <2>2, <3>0, <4>2 DEF FailStuck, UpdateRun, TypeOK, TablesTypeOK
        <5> QED
          BY <2>2, <4>2, <5>1 DEF FailStuck, TypeOK, ReconcilerTypeOK
      <4>3. CASE j = k /\ run[r] # "running"
        BY <2>2, <4>3 DEF FailStuck, TypeOK, ReconcilerTypeOK
      <4> QED
        BY <4>1, <4>2, <4>3
    <3> QED
      BY <1>1, <1>2, <3>0, <3>1, <3>2 DEF Closed, Terminal
  <2>3. CASE ~ScanOrphans(k) /\ \A r \in stuck[k].todo : ~FailStuck(k, r)
    <3>1. orphans'[j].todo \subseteq orphans[j].todo
      BY <1>3, <2>3 DEF ReconcilerStep, Reconcile, AgeOut, Redispatch, StampOrphan, ScanStuck,
                 SkipSteps, TickCrash, TypeOK, ReconcilerTypeOK
    <3>2. stuck'[j].skip \in {NoRun, stuck[j].skip}
      <4>1. CASE ScanStuck(k)
        <5>1. CASE j = k
          BY <4>1, <5>1 DEF ScanStuck, TypeOK, ReconcilerTypeOK
        <5>2. CASE j # k
          BY <4>1, <5>2 DEF ScanStuck, TypeOK, ReconcilerTypeOK
        <5> QED
          BY <5>1, <5>2
      <4>2. CASE SkipSteps(k)
        <5>1. CASE j = k
          BY <4>2, <5>1 DEF SkipSteps, TypeOK, ReconcilerTypeOK
        <5>2. CASE j # k
          BY <4>2, <5>2 DEF SkipSteps, TypeOK, ReconcilerTypeOK
        <5> QED
          BY <5>1, <5>2
      <4>3. CASE TickCrash(k)
        BY <4>3 DEF TickCrash, TypeOK, ReconcilerTypeOK
      <4> QED
        BY <1>3, <2>3, <4>1, <4>2, <4>3
           DEF ReconcilerStep, Reconcile, AgeOut, Redispatch, StampOrphan
    <3> QED
      BY <1>1, <1>2, <3>1, <3>2
  <2> QED
    BY <2>1, <2>2, <2>3
<1> QED
  BY <1>1, <1>2, <1>3 DEF Next, vars, ExecutorStep, ProducerStep, WorldStep, reconcilerVars

LEMMA RowsStep == ASSUME TypeOK, RowsInv, [Next]_vars PROVE RowsInv'
<1>1. \A r \in Runs : job'[r] # "absent" => run'[r] # "none"
  BY RowsStay, JobSteps DEF JobsFrom, RowsInv
<1> QED
  BY <1>1, LogRows, HandlersHaveRows, PassesHaveRows, SweepsHaveRows DEF RowsInv, Decided, Closed

-----------------------------------------------------------------------------
(* The bounds: a calm state comes only from a calm one, by a step in which    *)
(* nothing fails.                                                            *)

LEMMA ExecutorCounts ==
    ASSUME NEW w \in Workers, ExecutorStep(w)
    PROVE  (faults' = faults \/ CallFails) /\ (crashes' = crashes \/ Crash)
<1>1. faults' = faults \/ CallFails
  BY DEF ExecutorStep, Deliver, Execute, LoadRun, ClaimRun, LoadContext, FindStep, CreateStep,
         TakeOverStep, SendEmail, RecordStep, CompleteRun, HandleRunError, WorkerCrash, LoseLock,
         Catch, budgetVars
<1>2. crashes' = crashes \/ Crash
  BY DEF ExecutorStep, Deliver, Execute, LoadRun, ClaimRun, LoadContext, FindStep, CreateStep,
         TakeOverStep, SendEmail, RecordStep, CompleteRun, HandleRunError, WorkerCrash, LoseLock,
         budgetVars
<1> QED
  BY <1>1, <1>2

LEMMA CallsCount ==
    ASSUME [Next]_vars
    PROVE  (faults' = faults \/ CallFails) /\ (crashes' = crashes \/ Crash)
<1>1. ASSUME NEW p \in Passes, ProducerStep(p)
      PROVE  (faults' = faults \/ CallFails) /\ (crashes' = crashes \/ Crash)
  BY <1>1 DEF ProducerStep, Produce, PersistRun, DispatchRun, StampRun, PassCrash
<1>2. ASSUME NEW k \in Ticks, ReconcilerStep(k)
      PROVE  (faults' = faults \/ CallFails) /\ (crashes' = crashes \/ Crash)
  BY <1>2 DEF ReconcilerStep, Reconcile, ScanOrphans, AgeOut, Redispatch, StampOrphan, ScanStuck,
              FailStuck, SkipSteps, TickCrash, budgetVars
<1>3. ASSUME NEW r \in Runs, WorldStep(r)
      PROVE  faults' = faults /\ crashes' = crashes
  BY <1>3 DEF WorldStep, World, GrowOld, GoIdle, DeleteRun, StallCheck, EvictJob, budgetVars
<1> QED
  BY <1>1, <1>2, <1>3, ExecutorCounts DEF Next, vars, budgetVars

LEMMA CalmBefore ==
    ASSUME TypeOK, [Next]_vars, Calm'
    PROVE  Calm /\ ~CallFails /\ ~Crash
<1>1. faults \in Nat /\ crashes \in Nat
  BY BoundsAssumption DEF TypeOK, TablesTypeOK
<1>2. ~CallFails /\ ~Crash
  BY <1>1 DEF Calm, CallFails, Crash
<1> QED
  BY <1>2, CallsCount DEF Calm

-----------------------------------------------------------------------------
(* What a calm step does to the handlers, their jobs and their rows.          *)

CalmOK ==
    /\ LockInv
    /\ OwnedInv
    /\ DrainInv
    /\ \A w \in Workers : ReadHolds(w)

OthersRows(w) ==
    \A q \in Runs \ {wk[w].run} : run'[q] = run[q] /\ log'[q] = log[q]

(* A delivery: the handler starts.                                           *)
Starts(w) ==
    /\ UNCHANGED <<run, log>>
    /\ Others(w) /\ wk[w].pc = "idle" /\ wk'[w].pc = "load"
    /\ \E r \in Runs : TakeJob(w, r) /\ wk'[w].run = r /\ wk'[w].attempt = Attempt(r)

(* The handler ends: with its run decided, or to be retried.                 *)
Finishes(w) ==
    /\ wk[w].pc \notin {"idle", "send", "record"}
    /\ Others(w) /\ wk'[w].pc = "idle"
    /\ log' = log /\ OthersRows(w)
    /\ \/ JobReturned(w, wk[w].run) /\ run'[wk[w].run] \in Terminal \cup {"deleted"}
       \/ JobThrew(w, wk[w].run) /\ wk[w].attempt < MaxAttempts

(* The handler goes on, and knows what it has read.                          *)
Advances(w) ==
    /\ wk[w].pc # "idle" /\ wk'[w].pc # "idle"
    /\ Others(w) /\ GoesOn(w) /\ UNCHANGED queueVars
    /\ OthersRows(w)
    /\ \A s \in Steps : log'[wk[w].run][s] = "running" => Owns(w, wk[w].run, s)'
    /\ ReadHolds(w)'

(* The step is not a handler's.                                              *)
Elsewhere ==
    /\ wk' = wk
    /\ \A r \in Runs :
          /\ job[r] = "active" =>
                job'[r] = "active" /\ lock'[r] = lock[r] /\ attemptsMade'[r] = attemptsMade[r]
          /\ job'[r] = "active" => job[r] = "active"
          /\ job'[r] \in {"completed", "failed"} => job[r] \in {"completed", "failed"}
          /\ run'[r] = "running" => run[r] = "running"
          /\ run'[r] = "queued" => run[r] \in {"queued", "none"}
          /\ \A s \in Steps :
                \/ log'[r][s] = log[r][s]
                \/ run'[r] = "deleted" /\ log'[r][s] = "none"
                \/ log[r][s] = "running" /\ log'[r][s] = "skipped"

(* One handler per job.                                                      *)
LEMMA OneHandler ==
    ASSUME LockInv, NEW v \in Workers, NEW w \in Workers, wk[v].pc # "idle", wk[w].pc # "idle",
           wk[v].run = wk[w].run
    PROVE  v = w
BY DEF LockInv

LEMMA RunningIsOwn ==
    ASSUME TypeOK, CalmOK, NEW w \in Workers, wk[w].pc # "idle", NEW s \in Steps,
           log[wk[w].run][s] = "running"
    PROVE  Owns(w, wk[w].run, s)
<1>0. PICK r \in Runs : r = wk[w].run
  BY StepTyped
<1>1. PICK v \in Workers : Owns(v, r, s)
  BY <1>0 DEF CalmOK, OwnedInv
<1>2. wk[v].run = wk[w].run /\ wk[v].pc # "idle"
  BY <1>0, <1>1 DEF Owns
<1>3. v = w
  BY <1>2, OneHandler DEF CalmOK
<1> QED
  BY <1>0, <1>1, <1>3

LEMMA HeldIsActive ==
    ASSUME TypeOK, LockInv, NEW w \in Workers, wk[w].pc # "idle"
    PROVE  job[wk[w].run] = "active" /\ lock[wk[w].run] = w /\ wk[w].attempt = Attempt(wk[w].run)
BY StepTyped, NoWorkerAssumption DEF LockInv, TypeOK, QueueTypeOK

-----------------------------------------------------------------------------
(* Each of them keeps the invariant.                                         *)

LEMMA ElsewhereCalm ==
    ASSUME TypeOK, RowsInv, [Next]_vars, CalmOK, Elsewhere
    PROVE  CalmOK'
<1>1. LockInv'
  <2>1. ASSUME NEW w \in Workers, wk'[w].pc # "idle"
        PROVE  lock'[wk'[w].run] = w /\ wk'[w].attempt = attemptsMade'[wk'[w].run] + 1
    BY <2>1, HeldIsActive, StepTyped DEF Elsewhere, CalmOK, Attempt
  <2>2. ASSUME NEW r \in Runs, job'[r] = "active"
        PROVE  \E w \in Workers : wk'[w].pc # "idle" /\ wk'[w].run = r
    BY <2>2 DEF Elsewhere, CalmOK, LockInv
  <2> QED
    BY <2>1, <2>2 DEF LockInv, Attempt
<1>2. OwnedInv'
  BY DEF Elsewhere, CalmOK, OwnedInv, Owns
<1>3. DrainInv'
  BY DecidedStays DEF Elsewhere, CalmOK, DrainInv
<1>4. ASSUME NEW w \in Workers PROVE ReadHolds(w)'
  <2>1. CASE wk[w].pc = "idle"
    BY <2>1 DEF ReadHolds, Elsewhere, InStep
  <2>2. CASE wk[w].pc # "idle"
    <3>1. PICK r \in Runs : r = wk[w].run
      BY <2>2, StepTyped
    <3>2. run[r] # "none"
      BY <2>2, <3>1 DEF RowsInv
    <3>3. run[r] = "deleted" => run'[r] = "deleted"
      BY StatusMoves DEF StatusMove, Exists
    <3>4. wk[w].pc \in InStep => wk[w].step \in Steps
      BY StepTyped
    <3> QED
      BY <3>1, <3>2, <3>3, <3>4 DEF ReadHolds, Elsewhere, CalmOK, InStep
  <2> QED
    BY <2>1, <2>2
<1> QED
  BY <1>1, <1>2, <1>3, <1>4 DEF CalmOK

LEMMA StartsCalm ==
    ASSUME TypeOK, RowsInv, [Next]_vars, CalmOK, NEW w \in Workers, Starts(w)
    PROVE  CalmOK'
<1>0. PICK r \in Runs : TakeJob(w, r) /\ wk'[w].run = r /\ wk'[w].attempt = Attempt(r)
  BY DEF Starts
<1>1. /\ job[r] = "waiting" /\ job'[r] = "active" /\ lock'[r] = w /\ attemptsMade' = attemptsMade
      /\ \A q \in Runs \ {r} : job'[q] = job[q] /\ lock'[q] = lock[q]
  BY <1>0 DEF TakeJob, TypeOK, QueueTypeOK
<1>2. \A v \in Workers : v # w => wk'[v] = wk[v]
  BY DEF Starts, Others
<1>3. LockInv'
  <2>1. ASSUME NEW v \in Workers, wk'[v].pc # "idle"
        PROVE  lock'[wk'[v].run] = v /\ wk'[v].attempt = attemptsMade'[wk'[v].run] + 1
    <3>1. CASE v = w
      BY <1>0, <1>1, <3>1 DEF Attempt
    <3>2. CASE v # w
      BY <1>1, <1>2, <2>1, <3>2, HeldIsActive, StepTyped DEF CalmOK, Attempt
    <3> QED
      BY <3>1, <3>2
  <2>2. ASSUME NEW q \in Runs, job'[q] = "active"
        PROVE  \E v \in Workers : wk'[v].pc # "idle" /\ wk'[v].run = q
    <3>1. CASE q = r
      BY <1>0, <3>1 DEF Starts
    <3>2. CASE q # r
      <4>1. PICK v \in Workers : wk[v].pc # "idle" /\ wk[v].run = q
        BY <1>1, <2>2, <3>2 DEF CalmOK, LockInv
      <4> QED
        BY <1>2, <4>1 DEF Starts
    <3> QED
      BY <3>1, <3>2
  <2> QED
    BY <2>1, <2>2 DEF LockInv, Attempt
<1>4. OwnedInv'
  BY <1>2 DEF Starts, CalmOK, OwnedInv, Owns
<1>5. DrainInv'
  <2>1. ASSUME NEW q \in Runs, job'[q] \in {"completed", "failed"} PROVE Decided(q)
    BY <1>1, <2>1 DEF CalmOK, DrainInv
  <2> QED
    BY <2>1, DecidedStays DEF DrainInv
<1>6. ASSUME NEW v \in Workers PROVE ReadHolds(v)'
  <2>1. CASE v = w
    BY <2>1 DEF Starts, ReadHolds, InStep
  <2>2. CASE v # w
    BY <1>2, <2>2 DEF Starts, ReadHolds, CalmOK
  <2> QED
    BY <2>1, <2>2
<1> QED
  BY <1>3, <1>4, <1>5, <1>6 DEF CalmOK

(* The other handlers are on other runs, and read what they read.             *)
LEMMA OthersRead ==
    ASSUME TypeOK, CalmOK, NEW w \in Workers, wk[w].pc # "idle", Others(w), OthersRows(w),
           NEW v \in Workers, v # w
    PROVE  /\ wk'[v] = wk[v]
           /\ wk[v].pc # "idle" => wk[v].run \in Runs \ {wk[w].run}
           /\ ReadHolds(v)'
<1>1. wk'[v] = wk[v]
  BY DEF Others
<1>2. wk[v].pc # "idle" => wk[v].run \in Runs \ {wk[w].run}
  BY StepTyped, OneHandler DEF CalmOK
<1>3. CASE wk[v].pc = "idle"
  BY <1>1, <1>2, <1>3 DEF ReadHolds, InStep
<1>4. CASE wk[v].pc # "idle"
  <2>1. PICK q \in Runs : q = wk[v].run /\ run'[q] = run[q] /\ log'[q] = log[q]
    BY <1>2, <1>4 DEF OthersRows
  <2> QED
    BY <1>1, <1>2, <2>1 DEF ReadHolds, CalmOK
<1> QED
  BY <1>1, <1>2, <1>3, <1>4

LEMMA FinishesCalm ==
    ASSUME TypeOK, RowsInv, [Next]_vars, CalmOK, NEW w \in Workers, Finishes(w)
    PROVE  CalmOK'
<1>0. PICK r \in Runs : r = wk[w].run
  BY StepTyped DEF Finishes
<1>1. /\ job'[r] # "active"
      /\ job'[r] \in {"completed", "failed"} => Decided(r)'
      /\ \A q \in Runs \ {r} :
            job'[q] = job[q] /\ lock'[q] = lock[q] /\ attemptsMade'[q] = attemptsMade[q]
  <2>1. lock[r] = w /\ wk[w].attempt = Attempt(r)
    BY <1>0, HeldIsActive DEF Finishes, CalmOK
  <2>2. CASE JobReturned(w, r) /\ run'[r] \in Terminal \cup {"deleted"}
    BY <2>1, <2>2 DEF JobReturned, Decided, TypeOK, QueueTypeOK
  <2>3. CASE JobThrew(w, r) /\ wk[w].attempt < MaxAttempts
    BY <2>1, <2>3 DEF JobThrew, TypeOK, QueueTypeOK
  <2> QED
    BY <1>0, <2>2, <2>3 DEF Finishes
<1>2. \A v \in Workers : v # w =>
          /\ wk'[v] = wk[v]
          /\ wk[v].pc # "idle" => wk[v].run \in Runs \ {r}
          /\ ReadHolds(v)'
  BY <1>0, OthersRead DEF Finishes
<1>3. LockInv'
  <2>1. ASSUME NEW v \in Workers, wk'[v].pc # "idle"
        PROVE  lock'[wk'[v].run] = v /\ wk'[v].attempt = attemptsMade'[wk'[v].run] + 1
    <3>1. v # w /\ wk'[v] = wk[v] /\ wk[v].run \in Runs \ {r}
      BY <1>2, <2>1 DEF Finishes
    <3> QED
      BY <1>1, <2>1, <3>1, HeldIsActive DEF CalmOK, Attempt
  <2>2. ASSUME NEW q \in Runs, job'[q] = "active"
        PROVE  \E v \in Workers : wk'[v].pc # "idle" /\ wk'[v].run = q
    <3>1. q # r /\ job[q] = "active"
      BY <1>1, <2>2
    <3>2. PICK v \in Workers : wk[v].pc # "idle" /\ wk[v].run = q
      BY <3>1 DEF CalmOK, LockInv
    <3> QED
      BY <1>0, <1>2, <3>1, <3>2
  <2> QED
    BY <2>1, <2>2 DEF LockInv, Attempt
<1>4. OwnedInv'
  BY <1>2 DEF Finishes, CalmOK, OwnedInv, Owns
<1>5. DrainInv'
  <2>1. ASSUME NEW q \in Runs, q # r, job'[q] \in {"completed", "failed"} PROVE Decided(q)
    BY <1>1, <2>1 DEF CalmOK, DrainInv
  <2> QED
    BY <1>1, <2>1, DecidedStays DEF DrainInv
<1>6. ReadHolds(w)'
  BY DEF Finishes, ReadHolds, InStep
<1> QED
  BY <1>2, <1>3, <1>4, <1>5, <1>6 DEF CalmOK

LEMMA AdvancesCalm ==
    ASSUME TypeOK, RowsInv, [Next]_vars, CalmOK, NEW w \in Workers, Advances(w)
    PROVE  CalmOK'
<1>0. PICK r \in Runs : r = wk[w].run
  BY StepTyped DEF Advances
<1>1. job' = job /\ lock' = lock /\ attemptsMade' = attemptsMade
  BY DEF Advances, queueVars
<1>2. \A v \in Workers : v # w =>
          /\ wk'[v] = wk[v]
          /\ wk[v].pc # "idle" => wk[v].run \in Runs \ {r}
          /\ ReadHolds(v)'
  BY <1>0, OthersRead DEF Advances
<1>3. \A v \in Workers :
          /\ wk'[v].pc # "idle" <=> wk[v].pc # "idle"
          /\ wk'[v].run = wk[v].run /\ wk'[v].attempt = wk[v].attempt
  BY <1>2 DEF Advances, GoesOn
<1>4. LockInv'
  BY <1>1, <1>3 DEF CalmOK, LockInv, Attempt
<1>5. OwnedInv'
  <2>1. ASSUME NEW q \in Runs, NEW s \in Steps, log'[q][s] = "running"
        PROVE  \E v \in Workers : Owns(v, q, s)'
    <3>1. CASE q = r
      BY <1>0, <2>1, <3>1 DEF Advances, Owns, GoesOn
    <3>2. CASE q # r
      <4>1. log[q][s] = "running"
        BY <1>0, <2>1, <3>2 DEF Advances, OthersRows
      <4>2. PICK v \in Workers : Owns(v, q, s)
        BY <4>1 DEF CalmOK, OwnedInv
      <4>3. v # w
        BY <1>0, <3>2, <4>2 DEF Owns
      <4> QED
        BY <1>2, <4>2, <4>3 DEF Owns
    <3> QED
      BY <3>1, <3>2
  <2> QED
    BY <2>1 DEF OwnedInv
<1>6. DrainInv'
  BY <1>1, DecidedStays DEF CalmOK, DrainInv
<1>7. ReadHolds(w)'
  BY DEF Advances
<1> QED
  BY <1>2, <1>4, <1>5, <1>6, <1>7 DEF CalmOK

-----------------------------------------------------------------------------
(* Every calm step is one of them.                                           *)

LEMMA UpdateEffect ==
    ASSUME TypeOK, NEW r \in Runs, NEW from, NEW to, UpdateRun(r, from, to)
    PROVE  /\ run'[r] = IF run[r] \in from THEN to ELSE run[r]
           /\ \A q \in Runs \ {r} : run'[q] = run[q]
BY DEF UpdateRun, rowVars, TypeOK, TablesTypeOK

LEMMA RunKnown ==
    ASSUME TypeOK, RowsInv, NEW w \in Workers, wk[w].pc # "idle"
    PROVE  /\ wk[w].run \in Runs
           /\ run[wk[w].run] \in {"queued", "running", "deleted"} \cup Terminal
BY StepTyped DEF RowsInv, TypeOK, TablesTypeOK, RunStatus

LEMMA ThenFinishes ==
    ASSUME TypeOK, NEW w \in Workers, wk[w].pc \notin {"idle", "send", "record"}, log' = log,
           \A q \in Runs \ {wk[w].run} : run'[q] = run[q],
           \/ Return(w) /\ run'[wk[w].run] \in Terminal \cup {"deleted"}
           \/ Throw(w) /\ wk[w].attempt < MaxAttempts
    PROVE  Finishes(w)
<1>1. Others(w) /\ wk'[w].pc = "idle"
  BY IdleMoves DEF Return, Throw
<1> QED
  BY <1>1 DEF Finishes, OthersRows, Return, Throw

LEMMA ThenAdvances ==
    ASSUME TypeOK, CalmOK, NEW w \in Workers, wk[w].pc \notin {"idle", "send", "record"},
           UNCHANGED queueVars, log' = log, \A q \in Runs \ {wk[w].run} : run'[q] = run[q],
           Others(w), GoesOn(w), wk'[w].pc # "idle", ReadHolds(w)'
    PROVE  Advances(w)
<1>1. \A s \in Steps : log[wk[w].run][s] # "running"
  BY RunningIsOwn DEF Owns
<1> QED
  BY <1>1 DEF Advances, OthersRows

LEMMA LoadRunCalm ==
    ASSUME TypeOK, RowsInv, CalmOK, ~CallFails, NEW w \in Workers, LoadRun(w)
    PROVE  Advances(w) \/ Finishes(w)
<1>0. PICK r \in Runs : /\ r = wk[w].run
                        /\ run[r] \in {"queued", "running", "deleted"} \cup Terminal
  BY RunKnown DEF LoadRun, At
<1>1. wk[w].pc = "load" /\ log' = log /\ run' = run
  BY DEF LoadRun, At, rowVars
<1>2. CASE /\ run[r] \in {"queued", "running"} /\ UNCHANGED queueVars
           /\ MovesTo(w, [wk[w] EXCEPT !.pc = "claim", !.loaded = run[r]])
  <2>1. /\ Others(w) /\ GoesOn(w)
        /\ wk'[w].pc = "claim" /\ wk'[w].loaded = run[r]
    BY <1>2 DEF TypeOK, ExecutorTypeOK, HandlerState, MovesTo, Others, GoesOn
  <2>2. ReadHolds(w)'
    BY <1>0, <1>1, <1>2, <2>1 DEF ReadHolds, GoesOn, InStep
  <2> QED
    BY <1>1, <1>2, <2>1, <2>2, ThenAdvances
<1>3. CASE run[r] \in Terminal \cup {"deleted"} /\ Return(w)
  BY <1>0, <1>1, <1>3, ThenFinishes
<1> QED
  BY <1>0, <1>2, <1>3 DEF LoadRun, Exists, Terminal

LEMMA ClaimRunCalm ==
    ASSUME TypeOK, RowsInv, CalmOK, ~CallFails, NEW w \in Workers, ClaimRun(w)
    PROVE  Advances(w) \/ Finishes(w)
<1>0. PICK r \in Runs : /\ r = wk[w].run
                        /\ run[r] \in {"queued", "running", "deleted"} \cup Terminal
  BY RunKnown DEF ClaimRun, At
<1>1. wk[w].pc = "claim" /\ log' = log /\ UpdateRun(r, {"queued"}, "running")
  BY <1>0 DEF ClaimRun, Catch, At
<1>2. /\ run'[r] # "queued" /\ (run[r] # "queued" => run'[r] = run[r])
      /\ \A q \in Runs \ {r} : run'[q] = run[q]
  BY <1>0, <1>1, UpdateEffect
<1>3. CASE Goto(w, "context") /\ UNCHANGED queueVars
  <2>1. Others(w) /\ GoesOn(w) /\ wk'[w].pc = "context"
    BY <1>3, GotoMoves, GotoGoesOn
  <2>2. ReadHolds(w)'
    BY <1>0, <1>2, <2>1 DEF ReadHolds, GoesOn, InStep
  <2> QED
    BY <1>0, <1>1, <1>2, <1>3, <2>1, <2>2, ThenAdvances
<1>4. CASE run[r] # "queued" /\ wk[w].loaded = "queued" /\ Return(w)
  <2>1. run[r] # "running"
    BY <1>0, <1>1, <1>4 DEF CalmOK, ReadHolds
  <2> QED
    BY <1>0, <1>1, <1>2, <1>4, <2>1, ThenFinishes
<1> QED
  BY <1>0, <1>3, <1>4 DEF ClaimRun, Catch

(* After a step, or before the first: the next one, or the completion.       *)
LEMMA StepDoneReads ==
    ASSUME TypeOK, NEW w \in Workers, NEW i \in 0..NumSteps, StepDone(w, i),
           run'[wk[w].run] # "queued"
    PROVE  Others(w) /\ GoesOn(w) /\ wk'[w].pc # "idle" /\ ReadHolds(w)'
<1>1. Others(w) /\ GoesOn(w)
  BY StepDoneGoesOn
<1>2. wk'[w].pc \in {"find", "complete"}
  BY StepDoneMoves
<1> QED
  BY <1>1, <1>2 DEF ReadHolds, GoesOn

LEMMA GotoFailReads ==
    ASSUME TypeOK, NEW w \in Workers, Goto(w, "fail")
    PROVE  Others(w) /\ GoesOn(w) /\ wk'[w].pc = "fail" /\ ReadHolds(w)'
<1>1. Others(w) /\ GoesOn(w) /\ wk'[w].pc = "fail"
  BY GotoMoves, GotoGoesOn
<1> QED
  BY <1>1 DEF ReadHolds, InStep

LEMMA LoadContextCalm ==
    ASSUME TypeOK, RowsInv, CalmOK, ~CallFails, NEW w \in Workers, LoadContext(w)
    PROVE  Advances(w)
<1>1. wk[w].pc = "context" /\ log' = log /\ run' = run /\ UNCHANGED queueVars
  BY DEF LoadContext, At, rowVars, Catch
<1>2. run[wk[w].run] # "queued"
  BY <1>1 DEF CalmOK, ReadHolds
<1>3. CASE StepDone(w, 0)
  <2>1. 0 \in 0..NumSteps
    BY StepsAssumption
  <2>2. Others(w) /\ GoesOn(w) /\ wk'[w].pc # "idle" /\ ReadHolds(w)'
    BY <1>1, <1>2, <1>3, <2>1, StepDoneReads
  <2> QED
    BY <1>1, <2>2, ThenAdvances
<1>4. CASE Goto(w, "fail")
  BY <1>1, <1>4, GotoFailReads, ThenAdvances
<1> QED
  BY <1>3, <1>4 DEF LoadContext, Catch

LEMMA FindStepCalm ==
    ASSUME TypeOK, RowsInv, CalmOK, ~CallFails, NEW w \in Workers, FindStep(w)
    PROVE  Advances(w)
<1>0. PICK r \in Runs, s \in Steps : r = wk[w].run /\ s = wk[w].step
  BY StepTyped DEF FindStep, At, InStep
<1>1. wk[w].pc = "find" /\ log' = log /\ run' = run
  BY DEF FindStep, At, rowVars
<1>2. run[r] # "queued"
  BY <1>0, <1>1 DEF CalmOK, ReadHolds, InStep
<1>3. log[r][s] # "running"
  BY <1>0, <1>1, RunningIsOwn DEF Owns
<1>4. CASE StepDone(w, s) /\ UNCHANGED queueVars
  <2>1. s \in 0..NumSteps
    BY DEF Steps
  <2>2. Others(w) /\ GoesOn(w) /\ wk'[w].pc # "idle" /\ ReadHolds(w)'
    BY <1>0, <1>1, <1>2, <1>4, <2>1, StepDoneReads
  <2> QED
    BY <1>1, <1>4, <2>2, ThenAdvances
<1>5. ASSUME NEW p \in {"create", "takeover"}, Goto(w, p), UNCHANGED queueVars,
             p = "create" => log[r][s] = "none",
             p = "takeover" => log[r][s] \in {"failed", "skipped"}
      PROVE  Advances(w)
  <2>1. Others(w) /\ GoesOn(w) /\ wk'[w].pc = p /\ wk'[w].step = s
    BY <1>0, <1>5, GotoMoves, GotoGoesOn DEF Stays
  <2>2. ReadHolds(w)'
    BY <1>0, <1>1, <1>2, <1>5, <2>1 DEF ReadHolds, GoesOn
  <2> QED
    BY <1>1, <1>5, <2>1, <2>2, ThenAdvances
<1> QED
  BY <1>0, <1>3, <1>4, <1>5 DEF FindStep, Catch

(* A claim that went through.                                                *)
LEMMA ClaimedCalm ==
    ASSUME TypeOK, CalmOK, NEW w \in Workers, wk[w].pc \in {"create", "takeover"},
           WriteLog(wk[w].run, wk[w].step, "running"), Goto(w, "send"),
           UNCHANGED queueVars, run' = run
    PROVE  Advances(w)
<1>0. PICK r \in Runs, s \in Steps : r = wk[w].run /\ s = wk[w].step
  BY StepTyped DEF InStep
<1>1. Others(w) /\ GoesOn(w) /\ wk'[w].pc = "send" /\ wk'[w].step = s
  BY <1>0, GotoMoves, GotoGoesOn DEF Stays
<1>2. \A q \in Runs, t \in Steps : q # r \/ t # s => log'[q][t] = log[q][t]
  BY <1>0, WriteLogEffect
<1>3. \A q \in Runs \ {r} : log'[q] = log[q]
  BY <1>0 DEF WriteLog, TypeOK, TablesTypeOK
<1>4. \A t \in Steps : log[r][t] # "running"
  BY <1>0, RunningIsOwn DEF Owns
<1>5. run[r] # "queued"
  BY <1>0 DEF CalmOK, ReadHolds, InStep
<1>6. ReadHolds(w)'
  BY <1>0, <1>1, <1>5 DEF ReadHolds, GoesOn
<1>7. \A t \in Steps : log'[r][t] = "running" => t = s
  BY <1>2, <1>4
<1> QED
  BY <1>0, <1>1, <1>3, <1>6, <1>7 DEF Advances, OthersRows, Owns, GoesOn

LEMMA CreateStepCalm ==
    ASSUME TypeOK, RowsInv, CalmOK, ~CallFails, NEW w \in Workers, CreateStep(w)
    PROVE  Advances(w)
<1>0. PICK r \in Runs, s \in Steps : r = wk[w].run /\ s = wk[w].step
  BY StepTyped DEF CreateStep, At, InStep
<1>1. wk[w].pc = "create" /\ run' = run
  BY DEF CreateStep, At, rowVars
<1>2. log[r][s] = "none"
  BY <1>0, <1>1 DEF CalmOK, ReadHolds
<1>3. CASE WriteLog(r, s, "running") /\ Goto(w, "send") /\ UNCHANGED queueVars
  BY <1>0, <1>1, <1>3, ClaimedCalm
<1>4. CASE Goto(w, "fail") /\ log' = log /\ UNCHANGED queueVars
  BY <1>1, <1>4, GotoFailReads, ThenAdvances
<1> QED
  BY <1>0, <1>2, <1>3, <1>4 DEF CreateStep, Catch

LEMMA TakeOverStepCalm ==
    ASSUME TypeOK, RowsInv, CalmOK, ~CallFails, NEW w \in Workers, TakeOverStep(w)
    PROVE  Advances(w) \/ Finishes(w)
<1>0. PICK r \in Runs, s \in Steps : r = wk[w].run /\ s = wk[w].step
  BY StepTyped DEF TakeOverStep, At, InStep
<1>1. wk[w].pc = "takeover" /\ run' = run
  BY DEF TakeOverStep, At, rowVars
<1>2. log[r][s] \in {"failed", "skipped"} \/ run[r] = "deleted"
  BY <1>0, <1>1 DEF CalmOK, ReadHolds
<1>3. CASE WriteLog(r, s, "running") /\ Goto(w, "send") /\ UNCHANGED queueVars
  BY <1>0, <1>1, <1>3, ClaimedCalm
<1>4. CASE log[r][s] # "failed" /\ Return(w) /\ log' = log
  <2>1. run'[r] \in Terminal \cup {"deleted"}
    BY <1>1, <1>2, <1>4 DEF RowsInv, Decided
  <2> QED
    BY <1>0, <1>1, <1>4, <2>1, ThenFinishes
<1> QED
  BY <1>0, <1>3, <1>4 DEF TakeOverStep, Catch

LEMMA SendEmailCalm ==
    ASSUME TypeOK, RowsInv, CalmOK, NEW w \in Workers, SendEmail(w)
    PROVE  Advances(w)
<1>0. PICK r \in Runs, s \in Steps : r = wk[w].run /\ s = wk[w].step
  BY StepTyped DEF SendEmail, At, InStep
<1>1. wk[w].pc = "send" /\ run' = run /\ log' = log /\ UNCHANGED queueVars
  BY DEF SendEmail, At, rowVars
<1>2. Others(w) /\ GoesOn(w) /\ wk'[w].pc = "record" /\ wk'[w].step = s
  BY <1>0 DEF SendEmail, TypeOK, ExecutorTypeOK, HandlerState, MovesTo, Others, GoesOn
<1>3. run[r] # "queued"
  BY <1>0, <1>1 DEF CalmOK, ReadHolds, InStep
<1>4. ReadHolds(w)'
  BY <1>0, <1>1, <1>2, <1>3 DEF ReadHolds, GoesOn
<1>5. \A t \in Steps : log[r][t] = "running" => t = s
  BY <1>0, <1>1, RunningIsOwn DEF Owns
<1> QED
  BY <1>0, <1>1, <1>2, <1>4, <1>5 DEF Advances, OthersRows, Owns, GoesOn

LEMMA RecordStepCalm ==
    ASSUME TypeOK, RowsInv, CalmOK, ~CallFails, NEW w \in Workers, RecordStep(w)
    PROVE  Advances(w)
<1>0. PICK r \in Runs, s \in Steps : r = wk[w].run /\ s = wk[w].step
  BY StepTyped DEF RecordStep, At, InStep
<1>1. wk[w].pc = "record" /\ run' = run /\ UNCHANGED queueVars
  BY DEF RecordStep, At, rowVars, Catch
<1>2. run[r] # "queued"
  BY <1>0, <1>1 DEF CalmOK, ReadHolds, InStep
<1>3. \A t \in Steps : log[r][t] = "running" => t = s
  BY <1>0, <1>1, RunningIsOwn DEF Owns
<1>4. Others(w) /\ GoesOn(w) /\ wk'[w].pc # "idle" /\ ReadHolds(w)'
  <2>1. StepDone(w, s) \/ Goto(w, "fail")
    BY <1>0 DEF RecordStep, Catch
  <2>2. s \in 0..NumSteps
    BY DEF Steps
  <2> QED
    BY <1>0, <1>1, <1>2, <2>1, <2>2, StepDoneReads, GotoFailReads
<1>5. /\ \A q \in Runs \ {r} : log'[q] = log[q]
      /\ \A t \in Steps : log'[r][t] # "running"
  <2>1. ASSUME NEW st \in {"succeeded", "failed"}, WriteLog(r, s, st)
        PROVE  /\ \A q \in Runs \ {r} : log'[q] = log[q]
               /\ \A t \in Steps : log'[r][t] # "running"
    <3>1. \A q \in Runs \ {r} : log'[q] = log[q]
      BY <2>1 DEF WriteLog, TypeOK, TablesTypeOK
    <3> QED
      BY <1>3, <2>1, <3>1, WriteLogEffect
  <2>2. CASE log' = log /\ ~Exists(r)
    <3>1. run[r] = "deleted"
      BY <1>0, <1>1, <2>2, RunKnown DEF Exists, Terminal
    <3> QED
      BY <2>2, <3>1 DEF RowsInv
  <2> QED
    BY <1>0, <2>1, <2>2 DEF RecordStep, Catch
<1> QED
  BY <1>0, <1>1, <1>4, <1>5 DEF Advances, OthersRows

LEMMA CompleteRunCalm ==
    ASSUME TypeOK, RowsInv, CalmOK, ~CallFails, NEW w \in Workers, CompleteRun(w)
    PROVE  Finishes(w)
<1>0. PICK r \in Runs : /\ r = wk[w].run
                        /\ run[r] \in {"queued", "running", "deleted"} \cup Terminal
  BY RunKnown DEF CompleteRun, At
<1>1. /\ wk[w].pc = "complete" /\ log' = log /\ Return(w)
      /\ UpdateRun(r, {"running"}, "completed")
  BY <1>0 DEF CompleteRun, Catch, At
<1>2. run[r] # "queued"
  BY <1>0, <1>1 DEF CalmOK, ReadHolds
<1>3. /\ run'[r] \in Terminal \cup {"deleted"}
      /\ \A q \in Runs \ {r} : run'[q] = run[q]
  BY <1>0, <1>1, <1>2, UpdateEffect DEF Terminal
<1> QED
  BY <1>0, <1>1, <1>3, ThenFinishes

LEMMA HandleRunErrorCalm ==
    ASSUME TypeOK, RowsInv, CalmOK, ~CallFails, NEW w \in Workers, HandleRunError(w)
    PROVE  Finishes(w)
<1>0. PICK r \in Runs : /\ r = wk[w].run
                        /\ run[r] \in {"queued", "running", "deleted"} \cup Terminal
  BY RunKnown DEF HandleRunError, At
<1>1. wk[w].pc = "fail" /\ log' = log
  BY DEF HandleRunError, At
<1>2. CASE wk[w].attempt >= MaxAttempts
  <2>1. UpdateRun(r, {"queued", "running"}, "failed") /\ Return(w)
    BY <1>0, <1>2 DEF HandleRunError
  <2>2. /\ run'[r] \in Terminal \cup {"deleted"}
        /\ \A q \in Runs \ {r} : run'[q] = run[q]
    BY <1>0, <2>1, UpdateEffect DEF Terminal
  <2> QED
    BY <1>0, <1>1, <2>1, <2>2, ThenFinishes
<1>3. CASE ~(wk[w].attempt >= MaxAttempts)
  <2>1. UpdateRun(r, {"queued", "running"}, run[r]) /\ Throw(w)
    BY <1>0, <1>3 DEF HandleRunError
  <2>2. wk[w].attempt < MaxAttempts
    BY <1>3, AttemptsAssumption DEF TypeOK, ExecutorTypeOK, HandlerState
  <2>3. \A q \in Runs \ {r} : run'[q] = run[q]
    BY <2>1, UpdateEffect
  <2> QED
    BY <1>0, <1>1, <2>1, <2>2, <2>3, ThenFinishes
<1> QED
  BY <1>2, <1>3

LEMMA ExecutorCalm ==
    ASSUME TypeOK, RowsInv, CalmOK, ~CallFails, ~Crash, NEW w \in Workers, ExecutorStep(w)
    PROVE  Starts(w) \/ Advances(w) \/ Finishes(w)
<1>1. ASSUME NEW r \in Runs, Deliver(w, r) PROVE Starts(w)
  BY <1>1, DeliverMoves DEF Deliver, Starts, rowVars
<1>2. CASE Execute(w)
  BY <1>2, LoadRunCalm, ClaimRunCalm, LoadContextCalm, FindStepCalm, CreateStepCalm,
     TakeOverStepCalm, SendEmailCalm, RecordStepCalm, CompleteRunCalm, HandleRunErrorCalm
     DEF Execute
<1> QED
  BY <1>1, <1>2 DEF ExecutorStep, WorkerCrash, LoseLock

-----------------------------------------------------------------------------
(* The steps of the others.                                                  *)

JobsElsewhere ==
    \A r \in Runs :
        /\ job[r] = "active" =>
              job'[r] = "active" /\ lock'[r] = lock[r] /\ attemptsMade'[r] = attemptsMade[r]
        /\ job'[r] = "active" => job[r] = "active"
        /\ job'[r] \in {"completed", "failed"} => job[r] \in {"completed", "failed"}

RowsElsewhere ==
    \A r \in Runs :
        /\ run'[r] = "running" => run[r] = "running"
        /\ run'[r] = "queued" => run[r] \in {"queued", "none"}
        /\ \A s \in Steps :
              \/ log'[r][s] = log[r][s]
              \/ run'[r] = "deleted" /\ log'[r][s] = "none"
              \/ log[r][s] = "running" /\ log'[r][s] = "skipped"

LEMMA AddElsewhere ==
    ASSUME TypeOK, NEW r \in Runs, AddJob(r) \/ UNCHANGED queueVars
    PROVE  JobsElsewhere
BY DEF AddJob, queueVars, JobsElsewhere, TypeOK, QueueTypeOK

LEMMA ProducerElsewhere ==
    ASSUME TypeOK, NEW p \in Passes, ProducerStep(p)
    PROVE  JobsElsewhere /\ RowsElsewhere
<1>1. JobsElsewhere
  <2>1. CASE DispatchRun(p)
    <3>1. PICK r \in Runs : r = pass[p].run
      BY <2>1 DEF DispatchRun, TypeOK, ProducerTypeOK
    <3> QED
      BY <2>1, <3>1, AddElsewhere DEF DispatchRun
  <2>2. CASE UNCHANGED queueVars
    BY <2>2 DEF queueVars, JobsElsewhere
  <2> QED
    BY <2>1, <2>2 DEF ProducerStep, Produce, PersistRun, StampRun, PassCrash
<1>2. log' = log
  BY DEF ProducerStep, Produce, PersistRun, DispatchRun, StampRun, PassCrash
<1>3. \/ run' = run
      \/ \E r \in Runs : run' = [run EXCEPT ![r] = IF @ = "none" THEN "queued" ELSE @]
  BY DEF ProducerStep, Produce, PersistRun, DispatchRun, StampRun, PassCrash, MarkDispatched, rowVars
<1>4. RowsElsewhere
  BY <1>2, <1>3 DEF RowsElsewhere, TypeOK, TablesTypeOK
<1> QED
  BY <1>1, <1>4

LEMMA ReconcilerElsewhere ==
    ASSUME TypeOK, NEW k \in Ticks, ReconcilerStep(k)
    PROVE  JobsElsewhere /\ RowsElsewhere
<1>1. JobsElsewhere
  <2>1. ASSUME NEW o \in orphans[k].todo, Redispatch(k, o) PROVE JobsElsewhere
    <3>1. PICK r \in Runs : r = o.run
      BY DEF TypeOK, ReconcilerTypeOK, OrphanRow
    <3> QED
      BY <2>1, <3>1, AddElsewhere DEF Redispatch
  <2>2. CASE UNCHANGED queueVars
    BY <2>2 DEF queueVars, JobsElsewhere
  <2> QED
    BY <2>1, <2>2 DEF ReconcilerStep, Reconcile, ScanOrphans, AgeOut, StampOrphan, ScanStuck,
                      FailStuck, SkipSteps, TickCrash
<1>2. \A r \in Runs : run'[r] = run[r] \/ run'[r] = "failed"
  <2>1. \/ run' = run
        \/ \E r \in Runs, from \in SUBSET {"queued", "running"} : UpdateRun(r, from, "failed")
    BY DEF ReconcilerStep, Reconcile, ScanOrphans, AgeOut, Redispatch, StampOrphan, ScanStuck,
           FailStuck, SkipSteps, TickCrash, MarkDispatched, rowVars, TypeOK, ReconcilerTypeOK, OrphanRow
  <2> QED
    BY <2>1, UpdateEffect
<1>3. \A r \in Runs, s \in Steps :
         log'[r][s] = log[r][s] \/ (log[r][s] = "running" /\ log'[r][s] = "skipped")
  <2>1. CASE log' = log
    BY <2>1
  <2>2. CASE Skips
    BY <2>2 DEF Skips, TypeOK, TablesTypeOK
  <2> QED
    BY <2>1, <2>2, ReconcilerKind DEF Outside
<1>4. RowsElsewhere
  BY <1>2, <1>3 DEF RowsElsewhere
<1> QED
  BY <1>1, <1>4

LEMMA WorldElsewhere ==
    ASSUME TypeOK, LockInv, NEW r \in Runs, WorldStep(r)
    PROVE  JobsElsewhere /\ RowsElsewhere
<1>1. JobsElsewhere
  <2>1. ~RecoverStalled(r)
    BY NoWorkerAssumption DEF RecoverStalled, LockInv
  <2>2. CASE Evict(r)
    BY <2>2 DEF Evict, JobsElsewhere, TypeOK, QueueTypeOK
  <2>3. CASE UNCHANGED queueVars
    BY <2>3 DEF queueVars, JobsElsewhere
  <2> QED
    BY <2>1, <2>2, <2>3 DEF WorldStep, World, GrowOld, GoIdle, DeleteRun, StallCheck, EvictJob
<1>2. RowsElsewhere
  <2>1. CASE DeleteRun(r)
    BY <2>1 DEF DeleteRun, RowsElsewhere, NoLog, TypeOK, TablesTypeOK
  <2>2. CASE run' = run /\ log' = log
    BY <2>2 DEF RowsElsewhere
  <2> QED
    BY <2>1, <2>2 DEF WorldStep, World, GrowOld, GoIdle, StallCheck, EvictJob, rowVars
<1> QED
  BY <1>1, <1>2

LEMMA OthersElsewhere ==
    ASSUME TypeOK, LockInv, [Next]_vars, \A w \in Workers : ~ExecutorStep(w)
    PROVE  Elsewhere
<1>1. CASE UNCHANGED vars
  BY <1>1 DEF vars, queueVars, rowVars, executorVars, Elsewhere
<1>2. CASE ~UNCHANGED vars
  <2>1. JobsElsewhere /\ RowsElsewhere
    BY <1>2, ProducerElsewhere, ReconcilerElsewhere, WorldElsewhere DEF Next
  <2> QED
    BY <2>1, OutsideHandlers DEF executorVars, Elsewhere, JobsElsewhere, RowsElsewhere
<1> QED
  BY <1>1, <1>2

LEMMA CalmStep == ASSUME TypeOK, RowsInv, CalmInv, [Next]_vars PROVE CalmInv'
<1> SUFFICES ASSUME Calm' PROVE CalmOK'
  BY DEF CalmInv, CalmOK
<1>1. CalmOK /\ ~CallFails /\ ~Crash
  BY CalmBefore DEF CalmInv, CalmOK
<1>2. ASSUME NEW w \in Workers, ExecutorStep(w) PROVE CalmOK'
  BY <1>1, <1>2, ExecutorCalm, StartsCalm, AdvancesCalm, FinishesCalm
<1>3. CASE \A w \in Workers : ~ExecutorStep(w)
  BY <1>1, <1>3, OthersElsewhere, ElsewhereCalm DEF CalmOK
<1> QED
  BY <1>2, <1>3

(* While no call fails, no process dies and no lock is lost, a job leaves the *)
(* queue only with its run decided (DrainedMeansDecided): the handler holds   *)
(* the lock it was given, knows its attempt, and what it has read still       *)
(* holds, so that each way it ends on is one that decides the run or leaves   *)
(* an attempt.                                                               *)
THEOREM DrainedDecided == Spec => []DrainedMeansDecided
<1>1. Init => RowsInv /\ CalmInv
  <2> SUFFICES ASSUME Init PROVE RowsInv /\ CalmInv
    OBVIOUS
  <2>1. \A w \in Workers : wk[w].pc = "idle"
    BY DEF Init, ExecutorInit, Idle
  <2>2. \A p \in Passes : pass[p].pc = "ready"
    BY DEF Init, ProducerInit, PassAt
  <2>3. \A k \in Ticks : orphans[k].todo = {} /\ stuck[k].skip = NoRun
    BY DEF Init, ReconcilerInit
  <2>4. \A r \in Runs : job[r] = "absent" /\ run[r] = "none" /\ \A s \in Steps : log[r][s] = "none"
    BY DEF Init, QueueInit, TablesInit, NoLog
  <2> QED
    BY <2>1, <2>2, <2>3, <2>4
       DEF RowsInv, CalmInv, LockInv, OwnedInv, DrainInv, ReadHolds, InStep, Decided
<1>2. TypeOK /\ RowsInv /\ CalmInv /\ [Next]_vars => RowsInv' /\ CalmInv'
  BY RowsStep, CalmStep
<1>3. CalmInv => DrainedMeansDecided
  BY DEF CalmInv, Calm, DrainInv, Decided, DrainedMeansDecided
<1> QED
  BY TypeCorrect, <1>1, <1>2, <1>3, PTL DEF Spec
=============================================================================
