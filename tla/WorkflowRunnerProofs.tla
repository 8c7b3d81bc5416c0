------------------------ MODULE WorkflowRunnerProofs ------------------------
(***************************************************************************)
(* Theorems about WorkflowRunner, for every number of runs, steps, workers,  *)
(* passes, ticks, attempts, failures and crashes.                            *)
(***************************************************************************)
EXTENDS WorkflowRunner, TLAPS

-----------------------------------------------------------------------------
(* Adding a job.                                                             *)
LEMMA AddTyped ==
    ASSUME QueueTypeOK, NEW r \in Runs, AddJob(r) \/ UNCHANGED queueVars
    PROVE  QueueTypeOK'
<1> USE AttemptsAssumption DEF QueueTypeOK, JobState
<1>1. CASE job[r] = "absent" /\ AddJob(r)
  <2>1. /\ job' \in [Runs -> JobState]
        /\ stalled' \in [Runs -> BOOLEAN]
        /\ added' \in [Runs -> BOOLEAN]
    BY <1>1 DEF AddJob
  <2>4. attemptsMade' \in [Runs -> 0..MaxAttempts]
    BY <1>1 DEF AddJob
  <2>5. lock' \in [Runs -> Workers \cup {NoWorker}]
    BY <1>1 DEF AddJob
  <2>2. \A q \in Runs : job'[q] \in {"waiting", "active"} => attemptsMade'[q] < MaxAttempts
    BY <1>1 DEF AddJob
  <2>3. \A q \in Runs : lock'[q] # NoWorker => job'[q] = "active"
    BY <1>1 DEF AddJob
  <2> QED
    BY <2>1, <2>2, <2>3, <2>4, <2>5
<1>2. CASE UNCHANGED queueVars
  BY <1>2 DEF queueVars
<1> QED
  BY <1>1, <1>2 DEF AddJob

(* The queue's fragments keep the queue's types.                             *)
QueueEffect(w, r) ==
    \/ AddJob(r)
    \/ TakeJob(w, r)
    \/ JobReturned(w, r)
    \/ JobThrew(w, r)
    \/ DropLock(w)
    \/ RecoverStalled(r)
    \/ Evict(r)
    \/ UNCHANGED queueVars

LEMMA QueueEffectTyped ==
    ASSUME QueueTypeOK, NEW r \in Runs, NEW w \in Workers, QueueEffect(w, r)
    PROVE  QueueTypeOK'
<1> USE AttemptsAssumption, NoWorkerAssumption DEF QueueTypeOK, JobState
<1>1. CASE AddJob(r)
  BY <1>1, AddTyped
<1>2. CASE TakeJob(w, r)
  BY <1>2 DEF TakeJob
<1>3. CASE JobReturned(w, r)
  BY <1>3 DEF JobReturned, queueVars
<1>4. CASE JobThrew(w, r)
  BY <1>4 DEF JobThrew, Attempt, queueVars
<1>5. CASE DropLock(w)
  BY <1>5 DEF DropLock
<1>6. CASE RecoverStalled(r)
  BY <1>6 DEF RecoverStalled
<1>7. CASE Evict(r)
  BY <1>7 DEF Evict
<1>8. CASE UNCHANGED queueVars
  BY <1>8 DEF queueVars
<1> QED
  BY <1>1, <1>2, <1>3, <1>4, <1>5, <1>6, <1>7, <1>8 DEF QueueEffect

(* The guarded writes keep the rows' types.                                  *)
RowsTypeOK ==
    /\ run \in [Runs -> RunStatus]
    /\ dispatchedAt \in [Runs -> BOOLEAN]
    /\ age \in [Runs -> Age]
    /\ idle \in [Runs -> BOOLEAN]

LogTypeOK == log \in [Runs -> [Steps -> StepStatus]]

BudgetTypeOK == faults \in 0..MaxFaults /\ crashes \in 0..MaxCrashes

LEMMA TablesSplit == TablesTypeOK <=> RowsTypeOK /\ LogTypeOK /\ BudgetTypeOK
BY DEF TablesTypeOK, RowsTypeOK, LogTypeOK, BudgetTypeOK

LEMMA TablesSplitPrimed == TablesTypeOK' <=> RowsTypeOK' /\ LogTypeOK' /\ BudgetTypeOK'
BY DEF TablesTypeOK, RowsTypeOK, LogTypeOK, BudgetTypeOK

LEMMA UpdateTyped ==
    ASSUME RowsTypeOK, NEW r, NEW from, NEW to \in RunStatus, UpdateRun(r, from, to)
    PROVE  RowsTypeOK'
BY DEF RowsTypeOK, UpdateRun, rowVars

LEMMA MarkTyped ==
    ASSUME RowsTypeOK, NEW r, MarkDispatched(r)
    PROVE  RowsTypeOK'
BY DEF RowsTypeOK, MarkDispatched, rowVars

LEMMA RowsUnchanged == ASSUME RowsTypeOK, UNCHANGED rowVars PROVE RowsTypeOK'
BY DEF RowsTypeOK, rowVars

LEMMA WriteLogTyped ==
    ASSUME LogTypeOK, NEW r \in Runs, NEW s \in Steps, NEW status \in StepStatus,
           WriteLog(r, s, status)
    PROVE  LogTypeOK'
BY DEF LogTypeOK, WriteLog

LEMMA LogUnchanged == ASSUME LogTypeOK, UNCHANGED log PROVE LogTypeOK'
BY DEF LogTypeOK

LEMMA BudgetTyped ==
    ASSUME BudgetTypeOK, UNCHANGED faults \/ CallFails, UNCHANGED crashes \/ Crash
    PROVE  BudgetTypeOK'
BY BoundsAssumption DEF BudgetTypeOK, CallFails, Crash

-----------------------------------------------------------------------------
(* What a step does to the record of its own handler.                        *)
WellPlaced(h) ==
    /\ h \in HandlerState
    /\ h.pc # "idle" => h.run \in Runs
    /\ h.pc \in InStep => h.step \in Steps

LEMMA HandlerPlaced ==
    ASSUME ExecutorTypeOK, NEW w \in Workers
    PROVE  WellPlaced(wk[w])
BY DEF ExecutorTypeOK, WellPlaced

LEMMA MoveTyped ==
    ASSUME ExecutorTypeOK, NEW w \in Workers, NEW h, WellPlaced(h), MovesTo(w, h),
           sent' \in [Runs -> [Steps -> Nat]]
    PROVE  ExecutorTypeOK'
<1>1. wk' \in [Workers -> HandlerState]
  BY DEF ExecutorTypeOK, WellPlaced, MovesTo
<1>2. ASSUME NEW v \in Workers PROVE wk'[v] = IF v = w THEN h ELSE wk[v]
  BY DEF ExecutorTypeOK, MovesTo
<1> QED
  BY <1>1, <1>2 DEF ExecutorTypeOK, WellPlaced

LEMMA IdlePlaced == WellPlaced(Idle)
BY AttemptsAssumption, StepsAssumption DEF WellPlaced, HandlerState, Idle, WorkerPc, InStep

(* The new records that occur, and their fields.                             *)
LEMMA GotoPlaced ==
    ASSUME NEW h, WellPlaced(h), h.pc # "idle", NEW p \in WorkerPc,
           p \in InStep => h.step \in Steps
    PROVE  LET g == [h EXCEPT !.pc = p] IN
           /\ WellPlaced(g)
           /\ g.pc = p /\ g.run = h.run /\ g.step = h.step /\ g.loaded = h.loaded
           /\ g.sendOk = h.sendOk
BY DEF WellPlaced, HandlerState

LEMMA NextStepPlaced ==
    ASSUME NEW h, WellPlaced(h), h.pc # "idle", NEW s \in Steps
    PROVE  LET g == [h EXCEPT !.pc = "find", !.step = s] IN
           /\ WellPlaced(g) /\ g.pc = "find" /\ g.step = s /\ g.run = h.run
<1>1. s \in 0..NumSteps
  BY StepsAssumption DEF Steps
<1> QED
  BY <1>1 DEF WellPlaced, HandlerState, WorkerPc

LEMMA LoadedPlaced ==
    ASSUME NEW h, WellPlaced(h), h.pc # "idle", NEW l \in {"queued", "running"}
    PROVE  LET g == [h EXCEPT !.pc = "claim", !.loaded = l] IN
           /\ WellPlaced(g) /\ g.pc = "claim" /\ g.loaded = l
           /\ g.run = h.run /\ g.step = h.step
BY DEF WellPlaced, HandlerState, WorkerPc, InStep

LEMMA SentPlaced ==
    ASSUME NEW h, WellPlaced(h), h.pc = "send", NEW ok \in BOOLEAN
    PROVE  LET g == [h EXCEPT !.pc = "record", !.sendOk = ok] IN
           /\ WellPlaced(g) /\ g.pc = "record" /\ g.sendOk = ok
           /\ g.run = h.run /\ g.step = h.step
BY DEF WellPlaced, HandlerState, WorkerPc, InStep

LEMMA BegunPlaced ==
    ASSUME NEW r \in Runs, NEW n \in 0..MaxAttempts
    PROVE  LET g == [Idle EXCEPT !.pc = "load", !.run = r, !.attempt = n] IN
           WellPlaced(g) /\ g.pc = "load" /\ g.run = r
<1>1. ASSUME NEW h \in HandlerState
      PROVE  LET g == [h EXCEPT !.pc = "load", !.run = r, !.attempt = n] IN
             WellPlaced(g) /\ g.pc = "load" /\ g.run = r
  BY DEF WellPlaced, HandlerState, WorkerPc, InStep
<1> QED
  BY <1>1, IdlePlaced DEF WellPlaced

-----------------------------------------------------------------------------
(* What a step of the executor does, told by its effects: on the handler, on *)
(* the queue, on the run's row, on the step's row and on the messages.       *)
Ends(w) == MovesTo(w, Idle)

Goes(w) ==
    /\ wk[w].pc # "idle"
    /\ \E p \in WorkerPc : /\ p \in InStep => wk[w].pc \in InStep
                           /\ MovesTo(w, [wk[w] EXCEPT !.pc = p])

NextStep(w) ==
    /\ wk[w].pc # "idle"
    /\ \E s \in Steps : MovesTo(w, [wk[w] EXCEPT !.pc = "find", !.step = s])

Loads(w) ==
    /\ wk[w].pc # "idle"
    /\ \E l \in {"queued", "running"} :
          MovesTo(w, [wk[w] EXCEPT !.pc = "claim", !.loaded = l])

Sends(w) ==
    /\ wk[w].pc = "send"
    /\ \E ok \in BOOLEAN : MovesTo(w, [wk[w] EXCEPT !.pc = "record", !.sendOk = ok])

Begins(w) ==
    \E r \in Runs, n \in 0..MaxAttempts :
       MovesTo(w, [Idle EXCEPT !.pc = "load", !.run = r, !.attempt = n])

HandlerEffect(w) ==
    Ends(w) \/ Goes(w) \/ NextStep(w) \/ Loads(w) \/ Sends(w) \/ Begins(w)

LEMMA HandlerEffectTyped ==
    ASSUME ExecutorTypeOK, NEW w \in Workers, HandlerEffect(w),
           sent' \in [Runs -> [Steps -> Nat]]
    PROVE  ExecutorTypeOK'
<1>1. WellPlaced(wk[w])
  BY HandlerPlaced
<1>2. CASE Ends(w)
  BY <1>2, IdlePlaced, MoveTyped DEF Ends
<1>3. CASE Goes(w)
  <2>1. PICK p \in WorkerPc : /\ p \in InStep => wk[w].pc \in InStep
                              /\ MovesTo(w, [wk[w] EXCEPT !.pc = p])
    BY <1>3 DEF Goes
  <2>2. WellPlaced([wk[w] EXCEPT !.pc = p])
    BY <1>1, <1>3, <2>1, GotoPlaced DEF Goes, WellPlaced
  <2> QED
    BY <2>1, <2>2, MoveTyped
<1>4. CASE NextStep(w)
  <2>1. PICK s \in Steps : MovesTo(w, [wk[w] EXCEPT !.pc = "find", !.step = s])
    BY <1>4 DEF NextStep
  <2>2. WellPlaced([wk[w] EXCEPT !.pc = "find", !.step = s])
    BY <1>1, <1>4, NextStepPlaced DEF NextStep
  <2> QED
    BY <2>1, <2>2, MoveTyped
<1>5. CASE Loads(w)
  <2>1. PICK l \in {"queued", "running"} : MovesTo(w, [wk[w] EXCEPT !.pc = "claim", !.loaded = l])
    BY <1>5 DEF Loads
  <2>2. WellPlaced([wk[w] EXCEPT !.pc = "claim", !.loaded = l])
    BY <1>1, <1>5, LoadedPlaced DEF Loads
  <2> QED
    BY <2>1, <2>2, MoveTyped
<1>6. CASE Sends(w)
  <2>1. PICK ok \in BOOLEAN : MovesTo(w, [wk[w] EXCEPT !.pc = "record", !.sendOk = ok])
    BY <1>6 DEF Sends
  <2>2. WellPlaced([wk[w] EXCEPT !.pc = "record", !.sendOk = ok])
    BY <1>1, <1>6, SentPlaced DEF Sends
  <2> QED
    BY <2>1, <2>2, MoveTyped
<1>7. CASE Begins(w)
  <2>1. PICK r \in Runs, n \in 0..MaxAttempts :
             MovesTo(w, [Idle EXCEPT !.pc = "load", !.run = r, !.attempt = n])
    BY <1>7 DEF Begins
  <2>2. WellPlaced([Idle EXCEPT !.pc = "load", !.run = r, !.attempt = n])
    BY BegunPlaced
  <2> QED
    BY <2>1, <2>2, MoveTyped
<1> QED
  BY <1>2, <1>3, <1>4, <1>5, <1>6, <1>7 DEF HandlerEffect

LEMMA StepDoneEffect ==
    ASSUME NEW w \in Workers, wk[w].pc # "idle", NEW i \in 0..NumSteps, StepDone(w, i)
    PROVE  HandlerEffect(w)
<1>1. CASE i < NumSteps
  <2>1. i + 1 \in Steps
    BY <1>1, StepsAssumption DEF Steps
  <2> QED
    BY <1>1, <2>1 DEF StepDone, NextStep, HandlerEffect
<1>2. CASE ~(i < NumSteps)
  BY <1>2 DEF StepDone, Goto, Goes, HandlerEffect, WorkerPc, InStep
<1> QED
  BY <1>1, <1>2

LEMMA AttemptTyped ==
    ASSUME QueueTypeOK, NEW r \in Runs, NEW w, TakeJob(w, r)
    PROVE  Attempt(r) \in 0..MaxAttempts
<1>1. attemptsMade[r] \in 0..MaxAttempts /\ attemptsMade[r] < MaxAttempts
  BY DEF QueueTypeOK, TakeJob
<1> QED
  BY <1>1, AttemptsAssumption DEF Attempt

LEMMA ExecutorHandlerEffect ==
    ASSUME TypeOK, NEW w \in Workers,
           (\E r \in Runs : Deliver(w, r)) \/ Execute(w) \/ WorkerCrash(w)
    PROVE  HandlerEffect(w)
<1> USE StepsAssumption
       DEF TypeOK, ExecutorTypeOK, HandlerEffect, At, Return, Throw, Catch, Goto
<1>1. WellPlaced(wk[w])
  BY HandlerPlaced
<1>2. CASE \E r \in Runs : Deliver(w, r)
  <2>1. PICK r \in Runs : Deliver(w, r)
    BY <1>2
  <2>2. Attempt(r) \in 0..MaxAttempts
    BY <2>1, AttemptTyped DEF Deliver
  <2>3. Begins(w)
    BY <2>1, <2>2 DEF Deliver, Begins
  <2> QED
    BY <2>3
<1>3. CASE LoadRun(w)
  BY <1>1, <1>3 DEF LoadRun, Ends, Loads, Exists, Terminal, RunStatus, TablesTypeOK
<1>4. CASE ClaimRun(w)
  BY <1>1, <1>4 DEF ClaimRun, Ends, Goes, WorkerPc, InStep
<1>5. CASE LoadContext(w)
  <2>1. 0 \in 0..NumSteps /\ wk[w].pc = "context"
    BY <1>5 DEF LoadContext
  <2>2. CASE StepDone(w, 0)
    BY <2>1, <2>2, StepDoneEffect
  <2>3. CASE ~StepDone(w, 0)
    BY <1>5, <2>1, <2>3 DEF LoadContext, Goes, WorkerPc, InStep
  <2> QED
    BY <2>2, <2>3
<1>6. CASE FindStep(w)
  <2>1. wk[w].step \in 0..NumSteps /\ wk[w].pc = "find"
    BY <1>1, <1>6 DEF FindStep, WellPlaced, InStep, Steps
  <2>2. CASE StepDone(w, wk[w].step)
    BY <2>1, <2>2, StepDoneEffect
  <2>3. CASE ~StepDone(w, wk[w].step)
    BY <1>6, <2>1, <2>3 DEF FindStep, Ends, Goes, WorkerPc, InStep
  <2> QED
    BY <2>2, <2>3
<1>7. CASE CreateStep(w)
  BY <1>1, <1>7 DEF CreateStep, Ends, Goes, WorkerPc, InStep
<1>8. CASE TakeOverStep(w)
  BY <1>1, <1>8 DEF TakeOverStep, Ends, Goes, WorkerPc, InStep
<1>9. CASE SendEmail(w)
  BY <1>1, <1>9 DEF SendEmail, Sends
<1>10. CASE RecordStep(w)
  <2>1. wk[w].step \in 0..NumSteps /\ wk[w].pc = "record"
    BY <1>1, <1>10 DEF RecordStep, WellPlaced, InStep, Steps
  <2>2. CASE StepDone(w, wk[w].step)
    BY <2>1, <2>2, StepDoneEffect
  <2>3. CASE ~StepDone(w, wk[w].step)
    BY <1>10, <2>1, <2>3 DEF RecordStep, Goes, WorkerPc, InStep
  <2> QED
    BY <2>2, <2>3
<1>11. CASE CompleteRun(w)
  BY <1>1, <1>11 DEF CompleteRun, Ends, Goes, WorkerPc, InStep
<1>12. CASE HandleRunError(w)
  BY <1>1, <1>12 DEF HandleRunError, Ends
<1>13. CASE WorkerCrash(w)
  BY <1>1, <1>13 DEF WorkerCrash, Ends
<1> QED
  BY <1>2, <1>3, <1>4, <1>5, <1>6, <1>7, <1>8, <1>9, <1>10, <1>11, <1>12, <1>13 DEF Execute

LEMMA ExecutorQueueEffect ==
    ASSUME TypeOK, NEW w \in Workers, Execute(w) \/ WorkerCrash(w) \/ LoseLock(w)
    PROVE  wk[w].run \in Runs /\ QueueEffect(w, wk[w].run)
<1> USE DEF TypeOK, ExecutorTypeOK, QueueEffect, At, Return, Throw, Catch
<1>1. CASE LoadRun(w)
  BY <1>1 DEF LoadRun
<1>2. CASE ClaimRun(w)
  BY <1>2 DEF ClaimRun
<1>3. CASE LoadContext(w)
  BY <1>3 DEF LoadContext
<1>4. CASE FindStep(w)
  BY <1>4 DEF FindStep
<1>5. CASE CreateStep(w)
  BY <1>5 DEF CreateStep
<1>6. CASE TakeOverStep(w)
  BY <1>6 DEF TakeOverStep
<1>7. CASE SendEmail(w)
  BY <1>7 DEF SendEmail
<1>8. CASE RecordStep(w)
  BY <1>8 DEF RecordStep
<1>9. CASE CompleteRun(w)
  BY <1>9 DEF CompleteRun
<1>10. CASE HandleRunError(w)
  BY <1>10 DEF HandleRunError
<1>11. CASE WorkerCrash(w)
  BY <1>11 DEF WorkerCrash
<1>12. CASE LoseLock(w)
  BY <1>12 DEF LoseLock
<1> QED
  BY <1>1, <1>2, <1>3, <1>4, <1>5, <1>6, <1>7, <1>8, <1>9, <1>10, <1>11, <1>12 DEF Execute

LEMMA ExecutorTablesTyped ==
    ASSUME TypeOK, NEW w \in Workers,
           (\E r \in Runs : Deliver(w, r)) \/ Execute(w) \/ WorkerCrash(w) \/ LoseLock(w)
    PROVE  TablesTypeOK' /\ sent' \in [Runs -> [Steps -> Nat]]
<1>1. RowsTypeOK /\ LogTypeOK /\ BudgetTypeOK
  BY TablesSplit DEF TypeOK
<1>2. BudgetTypeOK'
  <2>1. (UNCHANGED faults \/ CallFails) /\ (UNCHANGED crashes \/ Crash)
    BY DEF Deliver, Execute, LoadRun, ClaimRun, LoadContext, FindStep, CreateStep, TakeOverStep,
           SendEmail, RecordStep, CompleteRun, HandleRunError, WorkerCrash, LoseLock, Catch, budgetVars
  <2> QED
    BY <1>1, <2>1, BudgetTyped
<1>3. RowsTypeOK'
  <2>1. \/ UNCHANGED rowVars
        \/ UpdateRun(wk[w].run, {"queued"}, "running")
        \/ UpdateRun(wk[w].run, {"running"}, "completed")
        \/ UpdateRun(wk[w].run, {"queued", "running"}, "failed")
        \/ UpdateRun(wk[w].run, {"queued", "running"}, run[wk[w].run]) /\ Execute(w)
    BY DEF Deliver, Execute, LoadRun, ClaimRun, LoadContext, FindStep, CreateStep, TakeOverStep,
           SendEmail, RecordStep, CompleteRun, HandleRunError, WorkerCrash, LoseLock
  <2>2. Execute(w) => run[wk[w].run] \in RunStatus
    BY <1>1, ExecutorQueueEffect DEF RowsTypeOK
  <2>3. {"queued", "running", "completed", "failed"} \subseteq RunStatus
    BY DEF RunStatus, Terminal
  <2> QED
    BY <1>1, <2>1, <2>2, <2>3, UpdateTyped, RowsUnchanged
<1>4. LogTypeOK'
  <2>1. \/ UNCHANGED log
        \/ /\ wk[w].run \in Runs /\ wk[w].step \in Steps
           /\ \E status \in StepStatus : WriteLog(wk[w].run, wk[w].step, status)
    BY DEF Deliver, Execute, LoadRun, ClaimRun, LoadContext, FindStep, CreateStep, TakeOverStep,
           SendEmail, RecordStep, CompleteRun, HandleRunError, WorkerCrash, LoseLock,
           TypeOK, ExecutorTypeOK, At, InStep, StepStatus
  <2> QED
    BY <1>1, <2>1, WriteLogTyped, LogUnchanged
<1>5. sent' \in [Runs -> [Steps -> Nat]]
  <2>1. CASE SendEmail(w)
    BY <2>1 DEF SendEmail, TypeOK, ExecutorTypeOK, At, InStep
  <2>2. CASE ~SendEmail(w)
    BY <2>2 DEF Deliver, Execute, LoadRun, ClaimRun, LoadContext, FindStep, CreateStep, TakeOverStep,
           RecordStep, CompleteRun, HandleRunError, WorkerCrash, LoseLock, executorVars,
           TypeOK, ExecutorTypeOK
  <2> QED
    BY <2>1, <2>2
<1> QED
  BY <1>2, <1>3, <1>4, <1>5, TablesSplitPrimed

LEMMA ExecutorTyped ==
    ASSUME TypeOK, NEW w \in Workers, ExecutorStep(w)
    PROVE  TypeOK'
<1>1. ProducerTypeOK' /\ ReconcilerTypeOK'
  BY DEF ExecutorStep, TypeOK, producerVars, reconcilerVars, ProducerTypeOK, ReconcilerTypeOK
<1>2. TablesTypeOK' /\ sent' \in [Runs -> [Steps -> Nat]]
  BY ExecutorTablesTyped DEF ExecutorStep
<1>3. QueueTypeOK'
  <2>1. CASE \E r \in Runs : Deliver(w, r)
    BY <2>1, QueueEffectTyped DEF Deliver, QueueEffect, TypeOK
  <2>2. CASE ~\E r \in Runs : Deliver(w, r)
    BY <2>2, ExecutorQueueEffect, QueueEffectTyped DEF ExecutorStep, TypeOK
  <2> QED
    BY <2>1, <2>2
<1>4. ExecutorTypeOK'
  <2>1. CASE LoseLock(w)
    BY <2>1 DEF LoseLock, executorVars, TypeOK, ExecutorTypeOK
  <2>2. CASE ~LoseLock(w)
    BY <1>2, <2>2, ExecutorHandlerEffect, HandlerEffectTyped DEF ExecutorStep, TypeOK
  <2> QED
    BY <2>1, <2>2
<1> QED
  BY <1>1, <1>2, <1>3, <1>4 DEF TypeOK

-----------------------------------------------------------------------------
(* The producer's, the reconciler's and the world's steps keep the types.    *)
LEMMA InsertTyped ==
    ASSUME RowsTypeOK, NEW r, UNCHANGED <<dispatchedAt, age, idle>>,
           run' = [run EXCEPT ![r] = IF @ = "none" THEN "queued" ELSE @]
    PROVE  RowsTypeOK'
BY DEF RowsTypeOK, RunStatus

LEMMA PassAtTyped ==
    ASSUME ProducerTypeOK, NEW p \in Passes, NEW pc \in PassPc, NEW todo \in SUBSET Runs,
           NEW r \in Runs \cup {NoRun}, NEW isNew \in BOOLEAN,
           pc \in {"dispatch", "mark"} => r \in Runs,
           pass' = [pass EXCEPT ![p] = PassAt(pc, todo, r, isNew)],
           metered' \in [Runs -> Nat]
    PROVE  ProducerTypeOK'
<1> DEFINE x == PassAt(pc, todo, r, isNew)
           PassState == [pc: PassPc, todo: SUBSET Runs, run: Runs \cup {NoRun}, isNew: BOOLEAN]
<1>1. x \in PassState /\ x.pc = pc /\ x.run = r
  BY DEF PassAt
<1>2. pass \in [Passes -> PassState]
  BY DEF ProducerTypeOK
<1> HIDE DEF x, PassState
<1>3. pass' = [pass EXCEPT ![p] = x]
  BY DEF x
<1>4. pass' \in [Passes -> PassState]
  BY <1>1, <1>2, <1>3
<1>5. \A q \in Passes : pass'[q] = IF q = p THEN x ELSE pass[q]
  BY <1>2, <1>3
<1>6. \A q \in Passes : pass'[q].pc \in {"dispatch", "mark"} => pass'[q].run \in Runs
  BY <1>1, <1>5 DEF ProducerTypeOK
<1> QED
  BY <1>4, <1>6 DEF ProducerTypeOK, PassState

LEMMA NextMatchTyped ==
    ASSUME ProducerTypeOK, NEW p \in Passes, NEW todo \in SUBSET Runs,
           NextMatch(p, todo) \/ Abort(p), metered' \in [Runs -> Nat]
    PROVE  ProducerTypeOK'
<1>1. CASE NextMatch(p, todo)
  BY <1>1, PassAtTyped DEF NextMatch, PassPc
<1>2. CASE Abort(p)
  BY <1>2, PassAtTyped DEF Abort, PassPc
<1> QED
  BY <1>1, <1>2

LEMMA PassTyped ==
    ASSUME ProducerTypeOK, NEW p \in Passes
    PROVE  /\ pass[p].todo \in SUBSET Runs
           /\ pass[p].pc \in {"dispatch", "mark"} => pass[p].run \in Runs
           /\ metered \in [Runs -> Nat]
BY DEF ProducerTypeOK

LEMMA ProducerTyped ==
    ASSUME TypeOK, NEW p \in Passes, ProducerStep(p)
    PROVE  TypeOK'
<1>1. ExecutorTypeOK' /\ ReconcilerTypeOK'
  BY DEF ProducerStep, TypeOK, executorVars, reconcilerVars, ExecutorTypeOK, ReconcilerTypeOK
<1>2. RowsTypeOK /\ LogTypeOK /\ BudgetTypeOK /\ ProducerTypeOK
  BY TablesSplit DEF TypeOK
<1> DEFINE d == pass[p]
<1>3. /\ d.todo \in SUBSET Runs
      /\ d.pc \in {"dispatch", "mark"} => d.run \in Runs
      /\ metered \in [Runs -> Nat]
  BY <1>2, PassTyped
<1>4. ASSUME NEW r \in Runs, PersistRun(p, r)
      PROVE  TablesTypeOK' /\ ProducerTypeOK' /\ QueueTypeOK'
  <2>1. RowsTypeOK'
    BY <1>2, <1>4, InsertTyped, RowsUnchanged DEF PersistRun, rowVars
  <2>2. LogTypeOK' /\ BudgetTypeOK'
    BY <1>2, <1>4, LogUnchanged, BudgetTyped DEF PersistRun
  <2>3. ProducerTypeOK'
    <3>1. metered' \in [Runs -> Nat]
      BY <1>3, <1>4 DEF PersistRun
    <3>2. CASE NextMatch(p, d.todo \ {r}) \/ Abort(p)
      BY <1>2, <1>3, <3>1, <3>2, NextMatchTyped
    <3>3. CASE ~(NextMatch(p, d.todo \ {r}) \/ Abort(p))
      <4>1. pass' = [pass EXCEPT ![p] = PassAt("dispatch", d.todo \ {r}, r, run[r] = "none")]
        BY <1>4, <3>3 DEF PersistRun
      <4> QED
        BY <1>2, <1>3, <3>1, <4>1, PassAtTyped DEF PassPc
    <3> QED
      BY <3>2, <3>3
  <2>4. QueueTypeOK'
    BY <1>4 DEF PersistRun, queueVars, TypeOK, QueueTypeOK
  <2> QED
    BY <2>1, <2>2, <2>3, <2>4, TablesSplitPrimed
<1>5. CASE DispatchRun(p)
  <2>1. RowsTypeOK' /\ LogTypeOK' /\ BudgetTypeOK'
    BY <1>2, <1>5, RowsUnchanged, LogUnchanged, BudgetTyped DEF DispatchRun
  <2>2. d.run \in Runs /\ (AddJob(d.run) \/ UNCHANGED queueVars)
    BY <1>3, <1>5 DEF DispatchRun
  <2>3. QueueTypeOK'
    BY <2>2, AddTyped DEF TypeOK
  <2>4. metered' \in [Runs -> Nat]
    BY <1>3, <1>5 DEF DispatchRun
  <2>5. ProducerTypeOK'
    <3>1. CASE NextMatch(p, d.todo)
      BY <1>2, <1>3, <2>4, <3>1, NextMatchTyped
    <3>2. CASE pass' = [pass EXCEPT ![p].pc = "mark"]
      BY <1>2, <2>2, <2>4, <3>2 DEF ProducerTypeOK, PassPc
    <3> QED
      BY <1>5, <3>1, <3>2 DEF DispatchRun
  <2> QED
    BY <1>1, <2>1, <2>3, <2>5, TablesSplitPrimed DEF TypeOK
<1>6. CASE StampRun(p)
  <2>1. RowsTypeOK' /\ LogTypeOK' /\ BudgetTypeOK'
    BY <1>2, <1>6, MarkTyped, RowsUnchanged, LogUnchanged, BudgetTyped DEF StampRun
  <2>2. ProducerTypeOK'
    BY <1>2, <1>3, <1>6, NextMatchTyped DEF StampRun
  <2>3. QueueTypeOK'
    BY <1>6 DEF StampRun, queueVars, TypeOK, QueueTypeOK
  <2> QED
    BY <1>1, <2>1, <2>2, <2>3, TablesSplitPrimed DEF TypeOK
<1>7. CASE PassCrash(p)
  <2>1. RowsTypeOK' /\ LogTypeOK' /\ BudgetTypeOK'
    BY <1>2, <1>7, RowsUnchanged, LogUnchanged, BudgetTyped DEF PassCrash
  <2>2. ProducerTypeOK'
    BY <1>2, <1>3, <1>7, NextMatchTyped DEF PassCrash
  <2>3. QueueTypeOK'
    BY <1>7 DEF PassCrash, queueVars, TypeOK, QueueTypeOK
  <2> QED
    BY <1>1, <2>1, <2>2, <2>3, TablesSplitPrimed DEF TypeOK
<1> QED
  BY <1>1, <1>4, <1>5, <1>6, <1>7 DEF ProducerStep, Produce, TypeOK

LEMMA ReconcilerTyped ==
    ASSUME TypeOK, NEW k \in Ticks, ReconcilerStep(k)
    PROVE  TypeOK'
<1>1. ExecutorTypeOK' /\ ProducerTypeOK'
  BY DEF ReconcilerStep, TypeOK, executorVars, producerVars, ExecutorTypeOK, ProducerTypeOK
<1>2. RowsTypeOK /\ LogTypeOK /\ BudgetTypeOK /\ ReconcilerTypeOK /\ QueueTypeOK
  BY TablesSplit DEF TypeOK
<1> DEFINE todo == orphans[k].todo
           mark == orphans[k].mark
           found == stuck[k].todo
           skip == stuck[k].skip
<1>3. /\ todo \in SUBSET OrphanRow /\ mark \in Runs \cup {NoRun}
      /\ found \in SUBSET Runs /\ skip \in Runs \cup {NoRun}
      /\ orphans[k] = [todo |-> todo, mark |-> mark]
      /\ stuck[k] = [todo |-> found, skip |-> skip]
  BY <1>2 DEF ReconcilerTypeOK
<1>4. "failed" \in RunStatus /\ "skipped" \in StepStatus
  BY DEF RunStatus, Terminal, StepStatus
<1>5. CASE ScanOrphans(k)
  <2>1. ReconcilerTypeOK'
    <3>1. PICK scanned \in SUBSET OrphanRow :
               orphans' = [orphans EXCEPT ![k].todo = scanned]
      <4> DEFINE scanned ==
              {[run |-> r, expired |-> age[r] = "expired", unstamped |-> ~dispatchedAt[r]]
                  : r \in {r \in Runs : run[r] = "queued" /\ age[r] # "young"}}
      <4>2. ASSUME NEW o \in scanned PROVE o \in OrphanRow
        <5>1. PICK r \in Runs :
                   o = [run |-> r, expired |-> age[r] = "expired", unstamped |-> ~dispatchedAt[r]]
          OBVIOUS
        <5>2. (age[r] = "expired") \in BOOLEAN /\ (~dispatchedAt[r]) \in BOOLEAN
          OBVIOUS
        <5> QED
          BY <5>1, <5>2 DEF OrphanRow
      <4>3. orphans' = [orphans EXCEPT ![k].todo = scanned]
        BY <1>5 DEF ScanOrphans
      <4> QED
        BY <4>2, <4>3
    <3> QED
      BY <1>2, <1>5, <3>1 DEF ScanOrphans, ReconcilerTypeOK
  <2>2. TablesTypeOK' /\ QueueTypeOK'
    BY <1>2, <1>5, RowsUnchanged, LogUnchanged, BudgetTyped, TablesSplitPrimed
       DEF ScanOrphans, budgetVars, queueVars, QueueTypeOK
  <2> QED
    BY <1>1, <2>1, <2>2 DEF TypeOK
<1>6. ASSUME NEW o \in todo, AgeOut(k, o)
      PROVE  TypeOK'
  <2>1. ReconcilerTypeOK'
    BY <1>2, <1>6 DEF AgeOut, ReconcilerTypeOK
  <2>2. RowsTypeOK'
    BY <1>2, <1>4, <1>6, UpdateTyped, RowsUnchanged DEF AgeOut
  <2>3. LogTypeOK' /\ BudgetTypeOK' /\ QueueTypeOK'
    BY <1>2, <1>6, LogUnchanged, BudgetTyped DEF AgeOut, queueVars, QueueTypeOK
  <2> QED
    BY <1>1, <2>1, <2>2, <2>3, TablesSplitPrimed DEF TypeOK
<1>7. ASSUME NEW o \in todo, Redispatch(k, o)
      PROVE  TypeOK'
  <2>1. o.run \in Runs
    BY <1>3 DEF OrphanRow
  <2>2. ReconcilerTypeOK'
    BY <1>2, <1>7, <2>1 DEF Redispatch, ReconcilerTypeOK
  <2>3. RowsTypeOK' /\ LogTypeOK' /\ BudgetTypeOK'
    BY <1>2, <1>7, RowsUnchanged, LogUnchanged, BudgetTyped DEF Redispatch
  <2>4. QueueTypeOK'
    BY <1>2, <1>7, <2>1, AddTyped DEF Redispatch
  <2> QED
    BY <1>1, <2>2, <2>3, <2>4, TablesSplitPrimed DEF TypeOK
<1>8. CASE StampOrphan(k)
  <2>1. ReconcilerTypeOK'
    BY <1>2, <1>8 DEF StampOrphan, ReconcilerTypeOK
  <2>2. RowsTypeOK'
    BY <1>2, <1>8, MarkTyped, RowsUnchanged DEF StampOrphan
  <2>3. LogTypeOK' /\ BudgetTypeOK' /\ QueueTypeOK'
    BY <1>2, <1>8, LogUnchanged, BudgetTyped DEF StampOrphan, queueVars, QueueTypeOK
  <2> QED
    BY <1>1, <2>1, <2>2, <2>3, TablesSplitPrimed DEF TypeOK
<1>9. CASE ScanStuck(k)
  <2>1. ReconcilerTypeOK'
    BY <1>2, <1>9 DEF ScanStuck, ReconcilerTypeOK
  <2>2. TablesTypeOK' /\ QueueTypeOK'
    BY <1>2, <1>9, RowsUnchanged, LogUnchanged, BudgetTyped, TablesSplitPrimed
       DEF ScanStuck, budgetVars, queueVars, QueueTypeOK
  <2> QED
    BY <1>1, <2>1, <2>2 DEF TypeOK
<1>10. ASSUME NEW r \in found, FailStuck(k, r)
       PROVE  TypeOK'
  <2>1. ReconcilerTypeOK'
    BY <1>2, <1>3, <1>10 DEF FailStuck, ReconcilerTypeOK
  <2>2. RowsTypeOK'
    BY <1>2, <1>4, <1>10, UpdateTyped, RowsUnchanged DEF FailStuck
  <2>3. LogTypeOK' /\ BudgetTypeOK' /\ QueueTypeOK'
    BY <1>2, <1>10, LogUnchanged, BudgetTyped DEF FailStuck, queueVars, QueueTypeOK
  <2> QED
    BY <1>1, <2>1, <2>2, <2>3, TablesSplitPrimed DEF TypeOK
<1>11. CASE SkipSteps(k)
  <2>1. ReconcilerTypeOK'
    BY <1>2, <1>11 DEF SkipSteps, ReconcilerTypeOK
  <2>2. LogTypeOK'
    BY <1>2, <1>4, <1>11 DEF SkipSteps, LogTypeOK
  <2>3. RowsTypeOK' /\ BudgetTypeOK' /\ QueueTypeOK'
    BY <1>2, <1>11, RowsUnchanged, BudgetTyped DEF SkipSteps, queueVars, QueueTypeOK
  <2> QED
    BY <1>1, <2>1, <2>2, <2>3, TablesSplitPrimed DEF TypeOK
<1>12. CASE TickCrash(k)
  <2>1. ReconcilerTypeOK'
    BY <1>2, <1>12 DEF TickCrash, ReconcilerTypeOK
  <2>2. TablesTypeOK' /\ QueueTypeOK'
    BY <1>2, <1>12, RowsUnchanged, LogUnchanged, BudgetTyped, TablesSplitPrimed
       DEF TickCrash, queueVars, QueueTypeOK
  <2> QED
    BY <1>1, <2>1, <2>2 DEF TypeOK
<1> QED
  BY <1>5, <1>6, <1>7, <1>8, <1>9, <1>10, <1>11, <1>12 DEF ReconcilerStep, Reconcile

LEMMA WorldTyped ==
    ASSUME TypeOK, NEW r \in Runs, WorldStep(r)
    PROVE  TypeOK'
<1>1. ExecutorTypeOK' /\ ProducerTypeOK' /\ ReconcilerTypeOK'
  BY DEF WorldStep, TypeOK, executorVars, producerVars, reconcilerVars,
         ExecutorTypeOK, ProducerTypeOK, ReconcilerTypeOK
<1>2. RowsTypeOK /\ LogTypeOK /\ BudgetTypeOK /\ QueueTypeOK
  BY TablesSplit DEF TypeOK
<1>3. RowsTypeOK'
  BY <1>2 DEF WorldStep, World, GrowOld, GoIdle, DeleteRun, StallCheck, EvictJob,
              RowsTypeOK, rowVars, RunStatus, Age
<1>4. LogTypeOK' /\ BudgetTypeOK'
  BY <1>2 DEF WorldStep, World, GrowOld, GoIdle, DeleteRun, StallCheck, EvictJob,
              LogTypeOK, BudgetTypeOK, budgetVars, NoLog, StepStatus
<1>5. QueueTypeOK'
  <2>1. CASE UNCHANGED queueVars
    BY <1>2, <2>1 DEF queueVars, QueueTypeOK
  <2>2. CASE RecoverStalled(r)
    BY <1>2, <2>2 DEF RecoverStalled, QueueTypeOK, JobState
  <2>3. CASE Evict(r)
    BY <1>2, <2>3 DEF Evict, QueueTypeOK, JobState
  <2> QED
    BY <2>1, <2>2, <2>3 DEF WorldStep, World, GrowOld, GoIdle, DeleteRun, StallCheck, EvictJob
<1> QED
  BY <1>1, <1>3, <1>4, <1>5, TablesSplitPrimed DEF TypeOK

LEMMA StutterTyped == ASSUME TypeOK, UNCHANGED vars PROVE TypeOK'
BY DEF TypeOK, vars, queueVars, rowVars, budgetVars, executorVars, producerVars, reconcilerVars,
       QueueTypeOK, TablesTypeOK, ExecutorTypeOK, ProducerTypeOK, ReconcilerTypeOK

LEMMA InitTyped == Init => TypeOK
<1> SUFFICES ASSUME Init PROVE TypeOK
  OBVIOUS
<1> USE DEF Init
<1>1. QueueTypeOK
  BY AttemptsAssumption DEF QueueInit, QueueTypeOK, JobState
<1>2. TablesTypeOK
  BY BoundsAssumption DEF TablesInit, TablesTypeOK, RunStatus, Age, StepStatus, NoLog
<1>3. ExecutorTypeOK
  BY IdlePlaced DEF ExecutorInit, ExecutorTypeOK, WellPlaced
<1>4. ProducerTypeOK
  BY DEF ProducerInit, ProducerTypeOK, PassAt, PassPc
<1>5. ReconcilerTypeOK
  BY DEF ReconcilerInit, ReconcilerTypeOK
<1> QED
  BY <1>1, <1>2, <1>3, <1>4, <1>5 DEF TypeOK

(* Every reachable state is well typed; among others a job never outlives    *)
(* its attempts, and only an active job is locked.                           *)
THEOREM TypeCorrect == Spec => []TypeOK
<1>1. TypeOK /\ [Next]_vars => TypeOK'
  BY ExecutorTyped, ProducerTyped, ReconcilerTyped, WorldTyped, StutterTyped DEF Next
<1> QED
  BY InitTyped, <1>1, PTL DEF Spec
=============================================================================
