--------------------------- MODULE MigrationRunner --------------------------
(***************************************************************************)
(* applyMigrations: schema and data migrations in the order of their         *)
(* timestamps, or, on a new database, all of the schema at once and the      *)
(* data migrations marked as applied without a run.  Every container runs    *)
(* it when it starts, and is started again when it failed.                   *)
(***************************************************************************)
EXTENDS MigrationTables

Init == TablesInit

SchemaOf(last) == {m \in Schema : m <= last}
DataOf(last) == {m \in Data : m <= last}

(* The next data migration from i on, or the end.                            *)
NextData(i, last) ==
    CHOOSE d \in 1..(last + 1) :
        /\ d >= i /\ d \in Data \cup {last + 1}
        /\ \A e \in Data : i <= e /\ e <= last => d <= e

After(d, last) == IF d > last THEN "done" ELSE "read"

(* Mutant: migrations that were applied are not copied.                      *)
FlushedWithoutCopy(run, i) ==
    LET d == NextData(i, run.last)
        batch == {m \in Schema : i <= m /\ m < d}
    IN [run EXCEPT !.dir = @ \cup (batch \ run.snap), !.pos = d, !.hasLock = FALSE,
                   !.pc = IF batch \subseteq run.snap THEN After(d, run.last) ELSE "deploy"]

(* Mutant: hasLock belongs to the runner and outlives the migration.         *)
FlushedHolding(run, i) ==
    LET d == NextData(i, run.last)
        batch == {m \in Schema : i <= m /\ m < d}
    IN [run EXCEPT !.dir = @ \cup batch, !.pos = d,
                   !.pc = IF batch \subseteq run.snap THEN After(d, run.last) ELSE "deploy"]

(* Mutant: nothing is deployed when one of them was applied before.          *)
FlushedIfAny(run, i) ==
    LET d == NextData(i, run.last)
        batch == {m \in Schema : i <= m /\ m < d}
    IN [run EXCEPT !.dir = @ \cup batch, !.pos = d, !.hasLock = FALSE,
                   !.pc = IF batch = {} \/ batch \cap run.snap # {}
                          THEN After(d, run.last) ELSE "deploy"]

(* flushSchemaBatch: the schema migrations up to the next data migration are *)
(* copied, and deployed unless all of them were applied before.              *)
Flushed(run, i) ==
    LET d == NextData(i, run.last)
        batch == {m \in Schema : i <= m /\ m < d}
    IN [run EXCEPT !.dir = @ \cup batch, !.pos = d, !.hasLock = FALSE,
                   !.pc = IF batch \subseteq run.snap THEN After(d, run.last) ELSE "deploy"]

-----------------------------------------------------------------------------
(* runMigrations                                                             *)

(* loadAppliedSchemaMigrations, once                                         *)
Start(r) ==
    /\ At(r, "idle")
    /\ runner' = [runner EXCEPT ![r] =
                     [Idle EXCEPT !.pc = "count", !.last = Releases[release], !.snap = applied]]
    /\ UNCHANGED <<release, inUse, tables, faults, history>>

(* Mutant: the records of data migrations are not looked at.                 *)
FreshBySchema(run) ==
    /\ DataOf(run.last) # {}
    /\ run.snap = {} \/ SchemaOf(run.last) \subseteq run.snap

(* Nothing recorded, and no schema or the whole of it.                       *)
Fresh(run) ==
    /\ DataOf(run.last) # {}
    /\ \A d \in Data : record[d] = "none"
    /\ run.snap = {} \/ SchemaOf(run.last) \subseteq run.snap

FastPath(run) ==
    [run EXCEPT !.dir = SchemaOf(run.last), !.fast = TRUE, !.pos = run.last + 1,
                !.pc = IF SchemaOf(run.last) \subseteq run.snap THEN "baseline" ELSE "deploy"]

(* Another run is at work on the other path.                                 *)
Beside(r, fast) ==
    \E q \in Runners \ {r} :
        runner[q].pc \notin {"idle", "count", "done"} /\ runner[q].fast = fast

Choose(r) ==
    /\ At(r, "count")
    /\ LET run == runner[r]
           open == {d \in DataOf(run.last) : record[d] = "none"}
       IN IF Fresh(run)
          THEN /\ runner' = [runner EXCEPT ![r] = FastPath(run)]
               /\ torn' = (torn \/ Beside(r, FALSE))
          ELSE /\ runner' = [runner EXCEPT ![r] = Flushed(run, 1)]
               /\ torn' = (torn \/ (\E d \in open : Ahead(d) \/ Beside(r, TRUE)))
    /\ UNCHANGED <<release, inUse, tables, faults, runs, misplaced, failedOnce, baselined>>

Deployed(r) ==
    /\ At(r, "deploying") /\ begun = {} /\ Pending(r) = {}
    /\ LET run == runner[r] IN
       runner' = [runner EXCEPT ![r].pc =
                     IF run.fast THEN "baseline" ELSE After(run.pos, run.last)]
    /\ UNCHANGED <<release, inUse, tables, faults, history>>

(* baselineDataMigrations: one statement, which leaves recorded ones alone   *)
(* and waits for inserts that are not committed.                             *)
Baseline(r) ==
    /\ At(r, "baseline")
    /\ \A d \in DataOf(runner[r].last) : FreeFor(r, d)
    /\ LET new == {d \in DataOf(runner[r].last) : record[d] = "none"} IN
       /\ record' = [d \in Data |-> IF d \in new THEN "applied" ELSE record[d]]
       /\ baselined' = IF inUse THEN baselined ELSE baselined \cup new
    /\ runner' = [runner EXCEPT ![r].pc = "done"]
    /\ UNCHANGED <<release, inUse, applied, begun, faults, runs, misplaced, failedOnce, torn>>

(* The container goes on to start the application.                           *)
Succeed(r) ==
    /\ At(r, "done")
    /\ inUse' = TRUE
    /\ runner' = [runner EXCEPT ![r] = Idle]
    /\ UNCHANGED <<release, tables, faults, history>>

-----------------------------------------------------------------------------
(* runDataMigration                                                          *)

(* A row that is "pending" is never seen: it is committed as "applied".      *)
ReadRecord(r) ==
    /\ At(r, "read")
    /\ runner' = [runner EXCEPT ![r] =
          CASE record[@.pos] = "applied" -> Flushed(@, @.pos + 1)
            [] record[@.pos] = "failed" -> [@ EXCEPT !.pc = "run"]
            [] record[@.pos] = "none" -> [@ EXCEPT !.pc = "insert"]]
    /\ UNCHANGED <<release, inUse, tables, faults, history>>

(* Mutant: an insert that does nothing when the row is there.                *)
InsertOrGoOn(r) ==
    /\ At(r, "insert")
    /\ FreeFor(r, runner[r].pos)
    /\ runner' = [runner EXCEPT ![r].pc = "run", ![r].hasLock = TRUE]
    /\ UNCHANGED <<release, inUse, tables, faults, history>>

(* The insert waits for another one of the same id, and fails if that was    *)
(* committed.                                                                *)
InsertPending(r) ==
    /\ At(r, "insert")
    /\ FreeFor(r, runner[r].pos)
    /\ runner' = [runner EXCEPT ![r] =
          IF record[@.pos] = "none" THEN [@ EXCEPT !.pc = "run", !.hasLock = TRUE] ELSE Idle]
    /\ UNCHANGED <<release, inUse, tables, faults, history>>

(* The changes and the mark are committed.                                   *)
Commits(d) ==
    /\ record' = [record EXCEPT ![d] = "applied"]
    /\ runs' = [runs EXCEPT ![d] = @ + 1]
    /\ misplaced' = IF applied = Before(d) THEN misplaced ELSE misplaced \cup {d}

Commit(r) ==
    /\ At(r, "run")
    /\ Commits(runner[r].pos)
    /\ runner' = [runner EXCEPT ![r] = Flushed(@, @.pos + 1)]
    /\ UNCHANGED <<release, inUse, applied, begun, faults, failedOnce, baselined, torn>>

Thrown(r) == runner' = [runner EXCEPT ![r] = IF @.hasLock THEN [@ EXCEPT !.pc = "mark"] ELSE Idle]

(* The migration throws, of itself where the schema is not its own.          *)
RunFails(r) ==
    /\ At(r, "run")
    /\ \/ Fault
       \/ applied # Before(runner[r].pos) /\ UNCHANGED faults
    /\ Thrown(r)
    /\ UNCHANGED <<release, inUse, tables, history>>

(* The transaction is committed, but its runner hears of an error.           *)
CommitUnheard(r) ==
    /\ At(r, "run") /\ Fault
    /\ Commits(runner[r].pos)
    /\ Thrown(r)
    /\ UNCHANGED <<release, inUse, applied, begun, failedOnce, baselined, torn>>

(* The failure is written whatever is there, outside of the transaction.     *)
MarkFailed(r) ==
    /\ At(r, "mark")
    /\ FreeFor(r, runner[r].pos)
    /\ record' = [record EXCEPT ![runner[r].pos] = "failed"]
    /\ failedOnce' = failedOnce \cup {runner[r].pos}
    /\ runner' = [runner EXCEPT ![r] = Idle]
    /\ UNCHANGED <<release, inUse, applied, begun, faults, runs, misplaced, baselined, torn>>

-----------------------------------------------------------------------------
(* The start script kills a run after five minutes; containers die.          *)
Die(r) ==
    /\ ~At(r, "idle") /\ Fault
    /\ runner' = [runner EXCEPT ![r] = Idle]
    /\ UNCHANGED <<release, inUse, tables, history>>

(* A new release is installed where the old one runs, or while no runner is  *)
(* at work.                                                                  *)
Upgrade ==
    /\ release < Len(Releases)
    /\ inUse \/ \A r \in Runners : At(r, "idle")
    /\ release' = release + 1
    /\ UNCHANGED <<inUse, tables, runner, faults, history>>

Deploy(r) == Lock(r) \/ Rejected(r) \/ BeginNext(r) \/ FinishNext(r) \/ Deployed(r)
DataStep(r) == ReadRecord(r) \/ InsertPending(r) \/ Commit(r) \/ MarkFailed(r)
Step(r) == Start(r) \/ Choose(r) \/ Deploy(r) \/ DataStep(r) \/ Baseline(r) \/ Succeed(r)
Fails(r) == DeployFails(r) \/ RunFails(r) \/ CommitUnheard(r) \/ Die(r)

Next == (\E r \in Runners : Step(r) \/ Fails(r)) \/ Upgrade

Spec == Init /\ [][Next]_vars

(* Containers are started again and go on.                                   *)
Fairness == \A r \in Runners : WF_vars(Step(r))
FairSpec == Spec /\ Fairness

-----------------------------------------------------------------------------
TypeOK == TablesTypeOK

(* "Must run in that exact order": the changes of a data migration are made  *)
(* on the schema of the migrations before it and no other, as long as no     *)
(* interleaved run began where a fast one had been cut off or was at work,   *)
(* and unless it is the retry of a failed one, which has no lock.            *)
InOrder == ~torn => misplaced \subseteq failedOnce

(* A data migration's changes are made once, however many containers start   *)
(* at the same time and wherever they die, unless it was marked as failed.   *)
OnceUnlessFailed == \A d \in Data : runs[d] <= 1 \/ d \in failedOnce

(* A record says "applied" only of changes that were made, or that an empty  *)
(* database did not need.                                                    *)
AppliedMeansDone ==
    \A d \in Data : record[d] = "applied" => runs[d] > 0 \/ d \in baselined

Complete ==
    \A m \in 1..Releases[release] : IF m \in Schema THEN m \in applied ELSE record[m] = "applied"

(* Containers that are started again and again get the database to their     *)
(* release, unless the schema is past a data migration that did not run or a *)
(* schema migration was left in the middle.                                  *)
Upgraded == <>[](Complete \/ begun # {} \/ \E d \in Data : Ahead(d))
=============================================================================
