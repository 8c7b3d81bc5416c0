--------------------------- MODULE WorkflowRunner ---------------------------
(***************************************************************************)
(* The workflow runner: producer, executor and reconciler over the shared    *)
(* rows and queue, with time, eviction, crashes and deletion around them.    *)
(***************************************************************************)
EXTENDS RunExecutor, RunProducer, RunReconciler

CONSTANT TimelyOwners   \* does every handler in progress end within the hour?

ASSUME TimelyAssumption == TimelyOwners \in BOOLEAN

vars == <<rowVars, log, queueVars, budgetVars,
          executorVars, producerVars, reconcilerVars>>

TypeOK ==
    /\ QueueTypeOK
    /\ TablesTypeOK
    /\ ExecutorTypeOK
    /\ ProducerTypeOK
    /\ ReconcilerTypeOK

Init ==
    /\ QueueInit
    /\ TablesInit
    /\ ExecutorInit
    /\ ProducerInit
    /\ ReconcilerInit

-----------------------------------------------------------------------------
(* The world around the three parts                                          *)

(* createdAt passes the grace window, then the ceiling.  Only the age of a   *)
(* queued run is ever looked at.                                            *)
GrowOld(r) ==
    /\ run[r] = "queued"
    /\ age[r] # "expired"
    /\ age' = [age EXCEPT ![r] = IF @ = "young" THEN "orphan" ELSE "expired"]
    /\ UNCHANGED <<run, dispatchedAt, idle, log, queueVars, budgetVars>>

(* A running row goes an hour without a write.  Under TimelyOwners no        *)
(* handler is at work on the run when the hour is full.                      *)
GoIdle(r) ==
    /\ run[r] = "running"
    /\ ~idle[r]
    /\ TimelyOwners => \A w \in Workers : wk[w].run # r
    /\ idle' = [idle EXCEPT ![r] = TRUE]
    /\ UNCHANGED <<run, dispatchedAt, age, log, queueVars, budgetVars>>

(* The workflow, workspace or response is deleted: the run row and its log   *)
(* rows go with it.                                                         *)
DeleteRun(r) ==
    /\ Exists(r)
    /\ run' = [run EXCEPT ![r] = "deleted"]
    /\ dispatchedAt' = [dispatchedAt EXCEPT ![r] = FALSE]
    /\ age' = [age EXCEPT ![r] = "young"]
    /\ idle' = [idle EXCEPT ![r] = FALSE]
    /\ log' = [log EXCEPT ![r] = NoLog]
    /\ UNCHANGED <<queueVars, budgetVars>>

StallCheck(r) == RecoverStalled(r) /\ UNCHANGED <<rowVars, log, budgetVars>>
EvictJob(r) == Evict(r) /\ UNCHANGED <<rowVars, log, budgetVars>>

World(r) ==
    \/ GrowOld(r)
    \/ GoIdle(r)
    \/ DeleteRun(r)
    \/ StallCheck(r)
    \/ EvictJob(r)

-----------------------------------------------------------------------------
ExecutorStep(w) ==
    /\ \/ \E r \in Runs : Deliver(w, r)
       \/ Execute(w)
       \/ WorkerCrash(w)
       \/ LoseLock(w)
    /\ UNCHANGED <<producerVars, reconcilerVars>>

ProducerStep(p) ==
    /\ Produce(p) \/ PassCrash(p)
    /\ UNCHANGED <<executorVars, reconcilerVars>>

ReconcilerStep(k) ==
    /\ Reconcile(k) \/ TickCrash(k)
    /\ UNCHANGED <<executorVars, producerVars>>

WorldStep(r) ==
    /\ World(r)
    /\ UNCHANGED <<executorVars, producerVars, reconcilerVars>>

Next ==
    \/ \E w \in Workers : ExecutorStep(w)
    \/ \E p \in Passes : ProducerStep(p)
    \/ \E k \in Ticks : ReconcilerStep(k)
    \/ \E r \in Runs : WorldStep(r)

Spec == Init /\ [][Next]_vars

(* A handler or sweep in progress goes on, a waiting job is taken, a stalled *)
(* one is found, the reconcile schedule fires and time passes.  Nothing is   *)
(* assumed of failures, evictions, deletions or of the producer.             *)
Fairness ==
    /\ \A w \in Workers :
          WF_vars(Execute(w) /\ UNCHANGED <<producerVars, reconcilerVars>>)
    /\ \A r \in Runs :
          WF_vars(\E w \in Workers : /\ Deliver(w, r)
                                     /\ UNCHANGED <<producerVars, reconcilerVars>>)
    /\ \A k \in Ticks :
          WF_vars(Reconcile(k) /\ UNCHANGED <<executorVars, producerVars>>)
    /\ \A r \in Runs :
          WF_vars(/\ GrowOld(r) \/ GoIdle(r) \/ StallCheck(r)
                  /\ UNCHANGED <<executorVars, producerVars, reconcilerVars>>)

FairSpec == Spec /\ Fairness

-----------------------------------------------------------------------------
(* The inductive invariant behind AtMostOnceEmail, CompletedMeansAllSent and *)
(* the contract.                                                             *)

(* A handler owns a step from its claim until it has recorded the outcome.   *)
Owns(w, r, s) ==
    wk[w].run = r /\ wk[w].step = s /\ wk[w].pc \in {"send", "record"}

(* A step has one owner at most, and while it has one its row blocks every   *)
(* other claim.                                                             *)
OwnerInv ==
    /\ \A v, w \in Workers, r \in Runs, s \in Steps :
          Owns(v, r, s) /\ Owns(w, r, s) => v = w
    /\ \A w \in Workers, r \in Runs, s \in Steps :
          Owns(w, r, s) /\ Exists(r) => log[r][s] \in {"running", "skipped"}

(* What the rows say of the messages: a row that can be claimed stands for a *)
(* message that never went out.                                             *)
LogInv ==
    \A r \in Runs, s \in Steps :
        /\ run[r] # "deleted" /\ log[r][s] = "none" => sent[r][s] = 0
        /\ log[r][s] = "failed" => sent[r][s] = 0
        /\ log[r][s] = "succeeded" => sent[r][s] = 1
        /\ run[r] = "deleted" => log[r][s] = "none"

Went(r, s) == sent[r][s] = 1 /\ (log[r][s] = "succeeded" \/ run[r] = "deleted")

(* Where a handler is, against what it has done so far.                      *)
HandlerOK(w) ==
    LET r == wk[w].run
        s == wk[w].step
    IN
    /\ wk[w].pc \notin {"idle", "load"} => run[r] # "none"
    /\ wk[w].pc \in InStep \cup {"context", "complete"} => run[r] # "queued"
    /\ wk[w].pc \in InStep => \A t \in 1..(s - 1) : Went(r, t)
    /\ wk[w].pc = "complete" => \A t \in Steps : Went(r, t)
    /\ wk[w].pc = "send" => sent[r][s] = 0
    /\ wk[w].pc = "record" => sent[r][s] = IF wk[w].sendOk THEN 1 ELSE 0

HandlerInv == \A w \in Workers : HandlerOK(w)

-----------------------------------------------------------------------------
(* Properties                                                                *)

(* The mail server never accepts the message of the same step of the same    *)
(* run twice, whatever deliveries, replays and sweeps overlap: the claim     *)
(* before the send holds.                                                   *)
AtMostOnceEmail == \A r \in Runs, s \in Steps : sent[r][s] <= 1

(* A run is marked completed only if each of its steps went out and says so. *)
(* No delivery finalizes a run on the strength of another's unfinished step. *)
CompletedMeansAllSent ==
    \A r \in Runs : run[r] = "completed" =>
        \A s \in Steps : log[r][s] = "succeeded" /\ sent[r][s] = 1

(* dispatchedAt is stamped only on runs whose job did reach the queue: the   *)
(* marker tells a producer orphan from a lagging run.                        *)
DispatchMarkerTruthful == \A r \in Runs : dispatchedAt[r] => added[r]

(* All of it: the state predicate every step preserves when the mail server   *)
(* never takes a message it reports as refused.                              *)
SendInv ==
    /\ OwnerInv
    /\ LogInv
    /\ HandlerInv
    /\ AtMostOnceEmail
    /\ CompletedMeansAllSent

(* A run is billed at most once, however often its pipeline pass is replayed.*)
MeteredAtMostOnce == \A r \in Runs : metered[r] <= 1

(* As long as no call fails, no process dies and no lock is lost, a job      *)
(* leaves the queue only with its run decided: the last attempt never        *)
(* strands a run that only the sweeps could still recover.                   *)
DrainedMeansDecided ==
    faults = 0 /\ crashes = 0 =>
        \A r \in Runs : job[r] \in {"completed", "failed"} =>
                            run[r] \in Terminal \cup {"deleted"}

(* The guarded writes never change a verdict: a terminal run keeps its       *)
(* status until it is deleted, and a deleted one never comes back.           *)
TerminalIsFinal ==
    [][\A r \in Runs :
          /\ run[r] \in Terminal => run'[r] \in {run[r], "deleted"}
          /\ run[r] = "deleted" => run'[r] = "deleted"]_vars

(* A step the stuck sweep skipped is not in the hands of a live handler.     *)
SkipSparesLiveOwner ==
    \A w \in Workers : wk[w].pc \in {"send", "record"} /\ Exists(wk[w].run) =>
        log[wk[w].run][wk[w].step] # "skipped"

(* Every run is decided (or deleted) in the end: one whose job was lost,     *)
(* whose handler died or whose retries ran out is recovered by the sweeps.   *)
EveryRunSettles ==
    \A r \in Runs :
        run[r] \in {"queued", "running"} ~> run[r] \in Terminal \cup {"deleted"}

(* The runner keeps the contract: in order, once each, decided once.         *)
Contract == INSTANCE RunContract WITH status <- run, emails <- sent
ImplementsContract == Contract!Spec
=============================================================================
