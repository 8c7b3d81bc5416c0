--------------------------- MODULE MigrationTables --------------------------
(***************************************************************************)
(* The database as the migration runners meet it: the two tables that say   *)
(* which migrations were applied, and `prisma migrate deploy`, which a      *)
(* runner starts as a child process and which one runner at a time has.     *)
(* A migration is its place in the checked-in history.                      *)
(***************************************************************************)
EXTENDS Integers, Sequences, FiniteSets

CONSTANTS
    Runners,    \* containers that run the migrations when they start
    History,    \* the kind of each migration, in the order of their timestamps
    Releases,   \* how many migrations each release ships
    MaxFaults   \* bound: failed statements and runners that die

Migrations == DOMAIN History

ASSUME HistoryAssumption ==
    /\ History \in Seq({"schema", "data"})
    /\ Releases \in Seq(Migrations) /\ Releases # <<>>
    /\ \A i, j \in DOMAIN Releases : i <= j => Releases[i] <= Releases[j]
    /\ MaxFaults \in Nat

Data == {m \in Migrations : History[m] = "data"}
Schema == Migrations \ Data

(* "A normal partial upgrade always has recorded data migrations."           *)
ASSUME DataFromTheFirst == \E d \in Data : d <= Releases[1]

VARIABLES
    release,    \* the release that is installed
    inUse,      \* the application has run on this database
    applied,    \* _prisma_migrations: finished
    begun,      \* _prisma_migrations: started and not finished, at most one
    record,     \* status in DataMigration, as committed
    runner,     \* the runs of applyMigrations under way
    faults,
    \* history
    runs,       \* how often a data migration's changes were committed
    misplaced,  \* data migrations that ran on another schema than theirs
    failedOnce, \* data migrations that were ever marked failed
    baselined,  \* marked applied without a run, on a database not in use
    torn        \* an interleaved run began where a fast one was not over

tables == <<applied, begun, record>>
history == <<runs, misplaced, failedOnce, baselined, torn>>
vars == <<release, inUse, tables, runner, faults, history>>

PCs == {"idle", "count", "deploy", "deploying", "read", "insert", "run", "mark",
        "baseline", "done"}
Idle == [pc |-> "idle", last |-> 0, snap |-> {}, dir |-> {}, pos |-> 0,
         hasLock |-> FALSE, fast |-> FALSE]
At(r, pc) == runner[r].pc = pc

Fault == faults < MaxFaults /\ faults' = faults + 1

Before(d) == {m \in Schema : m < d}

(* A data migration is still to run, and the schema is past its place.       *)
Ahead(d) == record[d] # "applied" /\ \E m \in applied : m > d

-----------------------------------------------------------------------------
(* The rows of DataMigration that a transaction has inserted and not         *)
(* committed: nobody sees them, but an insert of the same id waits.          *)
Holds(r, d) == runner[r].pos = d /\ runner[r].hasLock /\ At(r, "run")
FreeFor(r, d) == \A q \in Runners \ {r} : ~Holds(q, d)

-----------------------------------------------------------------------------
(* prisma migrate deploy with the runner's directory: under an advisory      *)
(* lock, unless a migration was left in the middle.                          *)

Deploying == \E r \in Runners : At(r, "deploying")
Pending(r) == runner[r].dir \ applied

Lock(r) ==
    /\ At(r, "deploy")
    /\ ~Deploying /\ begun = {}
    /\ runner' = [runner EXCEPT ![r].pc = "deploying"]
    /\ UNCHANGED <<release, inUse, tables, faults, history>>

(* The lock is not to be had in ten seconds, a migration was left in the     *)
(* middle, or the directory lacks one that was applied.                      *)
Rejected(r) ==
    /\ At(r, "deploy")
    /\ Deploying \/ begun # {} \/ ~(applied \subseteq runner[r].dir)
    /\ runner' = [runner EXCEPT ![r] = Idle]
    /\ UNCHANGED <<release, inUse, tables, faults, history>>

BeginNext(r) ==
    /\ At(r, "deploying") /\ begun = {} /\ Pending(r) # {}
    /\ begun' = {m \in Pending(r) : \A n \in Pending(r) : m <= n}
    /\ UNCHANGED <<release, inUse, applied, record, runner, faults, history>>

FinishNext(r) ==
    /\ At(r, "deploying") /\ begun # {}
    /\ applied' = applied \cup begun
    /\ begun' = {}
    /\ UNCHANGED <<release, inUse, record, runner, faults, history>>

(* A statement fails; the row of its migration stays.                        *)
DeployFails(r) ==
    /\ At(r, "deploying") /\ Fault
    /\ runner' = [runner EXCEPT ![r] = Idle]
    /\ UNCHANGED <<release, inUse, tables, history>>

-----------------------------------------------------------------------------
TablesInit ==
    /\ release = 1 /\ inUse = FALSE
    /\ applied = {} /\ begun = {}
    /\ record = [d \in Data |-> "none"]
    /\ runner = [r \in Runners |-> Idle]
    /\ faults = 0
    /\ runs = [d \in Data |-> 0]
    /\ misplaced = {} /\ failedOnce = {} /\ baselined = {} /\ torn = FALSE

RunnerSet ==
    [pc : PCs, last : Nat, snap : SUBSET Schema, dir : SUBSET Schema,
     pos : Nat, hasLock : BOOLEAN, fast : BOOLEAN]

TablesTypeOK ==
    /\ release \in DOMAIN Releases /\ inUse \in BOOLEAN
    /\ applied \subseteq Schema
    /\ begun \subseteq Schema /\ \A m, n \in begun : m = n
    /\ record \in [Data -> {"none", "applied", "failed"}]
    /\ runner \in [Runners -> RunnerSet]
    /\ \A r \in Runners :
          /\ runner[r].pc \in {"read", "insert", "run", "mark"} => runner[r].pos \in Data
          /\ runner[r].hasLock => runner[r].pc \in {"run", "mark"}
    /\ faults \in Nat
    /\ runs \in [Data -> Nat]
    /\ {misplaced, failedOnce, baselined} \subseteq SUBSET Data
    /\ torn \in BOOLEAN
=============================================================================
