------------------------------ MODULE JobQueue ------------------------------
(***************************************************************************)
(* The BullMQ queue behind packages/jobs, as much of it as the workflow     *)
(* runner relies on.  A job is identified by the id its producer chose, so  *)
(* a second add of a job that is still retained is dropped.  A worker that  *)
(* loses its lock (a long event-loop stall, a lost Redis connection) keeps  *)
(* running its handler: the queue hands the job to another worker and       *)
(* ignores what the first one reports.                                      *)
(*                                                                          *)
(* The operators below are fragments that constrain the queue's variables;  *)
(* the components that use the queue conjoin them with their own.           *)
(***************************************************************************)
EXTENDS Naturals

CONSTANTS
    Runs,         \* job ids: the id of the WorkflowRun the job executes
    Workers,      \* concurrent handler slots, over all processes
    NoWorker,     \* "nobody holds the lock"
    MaxAttempts   \* JobsOptions.attempts

ASSUME NoWorkerAssumption == NoWorker \notin Workers
ASSUME AttemptsAssumption == MaxAttempts \in Nat \ {0}

VARIABLES
    job,           \* where the job is; "waiting" covers delayed retries
    attemptsMade,  \* attempts whose handler has thrown
    stalled,       \* has the job already been recovered from a stall?
    lock,          \* the worker whose outcome the queue will accept
    added          \* history: has the job ever been in the queue?

queueVars == <<job, attemptsMade, stalled, lock, added>>

JobState == {"absent", "waiting", "active", "completed", "failed"}

QueueTypeOK ==
    /\ job \in [Runs -> JobState]
    /\ attemptsMade \in [Runs -> 0..MaxAttempts]
    /\ stalled \in [Runs -> BOOLEAN]
    /\ lock \in [Runs -> Workers \cup {NoWorker}]
    /\ added \in [Runs -> BOOLEAN]
    /\ \A r \in Runs :
          /\ job[r] \in {"waiting", "active"} => attemptsMade[r] < MaxAttempts
          /\ lock[r] # NoWorker => job[r] = "active"

QueueInit ==
    /\ job = [r \in Runs |-> "absent"]
    /\ attemptsMade = [r \in Runs |-> 0]
    /\ stalled = [r \in Runs |-> FALSE]
    /\ lock = [r \in Runs |-> NoWorker]
    /\ added = [r \in Runs |-> FALSE]

(* queue.add with jobId = the run's id: a no-op while a job of that id is    *)
(* retained, whatever its state.                                            *)
AddJob(r) ==
    IF job[r] = "absent"
    THEN /\ job' = [job EXCEPT ![r] = "waiting"]
         /\ attemptsMade' = [attemptsMade EXCEPT ![r] = 0]
         /\ stalled' = [stalled EXCEPT ![r] = FALSE]
         /\ added' = [added EXCEPT ![r] = TRUE]
         /\ UNCHANGED lock
    ELSE UNCHANGED queueVars

(* A worker takes a waiting job and its lock; the handler is told this is    *)
(* attempt Attempt(r).                                                      *)
TakeJob(w, r) ==
    /\ job[r] = "waiting"
    /\ job' = [job EXCEPT ![r] = "active"]
    /\ lock' = [lock EXCEPT ![r] = w]
    /\ UNCHANGED <<attemptsMade, stalled, added>>

Attempt(r) == attemptsMade[r] + 1

(* The handler returned.  Only the lock holder's report counts.              *)
JobReturned(w, r) ==
    IF lock[r] = w
    THEN /\ job' = [job EXCEPT ![r] = "completed"]
         /\ lock' = [lock EXCEPT ![r] = NoWorker]
         /\ UNCHANGED <<attemptsMade, stalled, added>>
    ELSE UNCHANGED queueVars

(* The handler threw: retry after a backoff, or give up at the last attempt. *)
JobThrew(w, r) ==
    IF lock[r] = w
    THEN /\ attemptsMade' = [attemptsMade EXCEPT ![r] = @ + 1]
         /\ job' = [job EXCEPT ![r] =
                IF Attempt(r) < MaxAttempts THEN "waiting" ELSE "failed"]
         /\ lock' = [lock EXCEPT ![r] = NoWorker]
         /\ UNCHANGED <<stalled, added>>
    ELSE UNCHANGED queueVars

(* The lock expires: its holder died, or lives on without knowing.           *)
DropLock(w) ==
    /\ lock' = [r \in Runs |-> IF lock[r] = w THEN NoWorker ELSE lock[r]]
    /\ UNCHANGED <<job, attemptsMade, stalled, added>>

(* Mutant: the check does not wait for the lock to expire.                   *)
RecoverStalledLocked(r) ==
    /\ job[r] = "active"
    /\ job' = [job EXCEPT ![r] = IF stalled[r] THEN "failed" ELSE "waiting"]
    /\ stalled' = [stalled EXCEPT ![r] = TRUE]
    /\ UNCHANGED <<attemptsMade, lock, added>>

(* The stalled-job check: the first stall puts the job back without using    *)
(* an attempt, the second fails it (maxStalledCount = 1).                    *)
RecoverStalled(r) ==
    /\ job[r] = "active"
    /\ lock[r] = NoWorker
    /\ job' = [job EXCEPT ![r] = IF stalled[r] THEN "failed" ELSE "waiting"]
    /\ stalled' = [stalled EXCEPT ![r] = TRUE]
    /\ UNCHANGED <<attemptsMade, lock, added>>

(* removeOnComplete / removeOnFail evict a finished job, by age or count.    *)
Evict(r) ==
    /\ job[r] \in {"completed", "failed"}
    /\ job' = [job EXCEPT ![r] = "absent"]
    /\ UNCHANGED <<attemptsMade, stalled, lock, added>>
=============================================================================
