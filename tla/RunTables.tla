----------------------------- MODULE RunTables ------------------------------
(***************************************************************************)
(* The rows of WorkflowRun and WorkflowRunLog that the runner's three       *)
(* parts share, and the guarded writes they make.  Every write is one       *)
(* Prisma statement, so it is atomic; nothing holds across two of them.     *)
(***************************************************************************)
EXTENDS JobQueue

CONSTANTS
    NoRun,        \* "no run at hand"
    NumSteps,     \* executable steps of the published definition
    MaxFaults,    \* bound: failed database or Redis calls in a behaviour
    MaxCrashes    \* bound: process deaths and lost job locks in a behaviour

ASSUME NoRunAssumption == NoRun \notin Runs
ASSUME StepsAssumption == NumSteps \in Nat
ASSUME BoundsAssumption == MaxFaults \in Nat /\ MaxCrashes \in Nat

VARIABLES
    run,           \* status of the row; "none" before create, "deleted" after
    dispatchedAt,  \* has the dispatch marker been stamped?
    age,           \* createdAt against the reconciler's two thresholds
    idle,          \* updatedAt of a running row is over an hour old
    log,           \* status of each step's row; "none" when there is no row
    faults,        \* failed calls so far
    crashes        \* process deaths and lost locks so far

rowVars == <<run, dispatchedAt, age, idle>>
budgetVars == <<faults, crashes>>

Steps == 1..NumSteps

Terminal == {"completed", "failed", "canceled"}
Exists(r) == run[r] \notin {"none", "deleted"}

RunStatus == {"none", "queued", "running", "deleted"} \cup Terminal
StepStatus == {"none", "running", "succeeded", "failed", "skipped"}
Age == {"young", "orphan", "expired"}

TablesTypeOK ==
    /\ run \in [Runs -> RunStatus]
    /\ dispatchedAt \in [Runs -> BOOLEAN]
    /\ age \in [Runs -> Age]
    /\ idle \in [Runs -> BOOLEAN]
    /\ log \in [Runs -> [Steps -> StepStatus]]
    /\ faults \in 0..MaxFaults
    /\ crashes \in 0..MaxCrashes

NoLog == [s \in Steps |-> "none"]

TablesInit ==
    /\ run = [r \in Runs |-> "none"]
    /\ dispatchedAt = [r \in Runs |-> FALSE]
    /\ age = [r \in Runs |-> "young"]
    /\ idle = [r \in Runs |-> FALSE]
    /\ log = [r \in Runs |-> NoLog]
    /\ faults = 0
    /\ crashes = 0

(* updateMany where status is in from: a match also moves updatedAt.         *)
UpdateRun(r, from, to) ==
    IF run[r] \in from
    THEN /\ run' = [run EXCEPT ![r] = to]
         /\ idle' = [idle EXCEPT ![r] = FALSE]
         /\ UNCHANGED <<dispatchedAt, age>>
    ELSE UNCHANGED rowVars

(* markWorkflowRunDispatched: stamps whatever row is there.                  *)
MarkDispatched(r) ==
    IF Exists(r)
    THEN /\ dispatchedAt' = [dispatchedAt EXCEPT ![r] = TRUE]
         /\ idle' = [idle EXCEPT ![r] = FALSE]
         /\ UNCHANGED <<run, age>>
    ELSE UNCHANGED rowVars

WriteLog(r, s, status) == log' = [log EXCEPT ![r][s] = status]

CallFails == faults < MaxFaults /\ faults' = faults + 1
Crash == crashes < MaxCrashes /\ crashes' = crashes + 1
=============================================================================
