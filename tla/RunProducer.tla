---------------------------- MODULE RunProducer -----------------------------
(***************************************************************************)
(* The producer half of the runner: a pass of the response pipeline that     *)
(* persists one run per matched workflow of a finished response and hands    *)
(* each to the queue.  A pass is replayed when its job is retried or         *)
(* redelivered, so several passes over the same matches may overlap.  Runs   *)
(* are the matches: the (workflow, response) pairs the unique key separates. *)
(***************************************************************************)
EXTENDS RunTables

CONSTANT Passes   \* the original pipeline job and its replays

VARIABLES
    pass,     \* per pass, where it is and its match and those that remain
    metered   \* history of billing events, per run

producerVars == <<pass, metered>>

PassPc == {"ready", "dispatch", "mark", "done"}

ProducerTypeOK ==
    /\ pass \in [Passes -> [pc: PassPc, todo: SUBSET Runs,
                            run: Runs \cup {NoRun}, isNew: BOOLEAN]]
    /\ \A p \in Passes : pass[p].pc \in {"dispatch", "mark"} => pass[p].run \in Runs
    /\ metered \in [Runs -> Nat]

PassAt(pc, todo, r, isNew) ==
    [pc |-> pc, todo |-> todo, run |-> r, isNew |-> isNew]

ProducerInit ==
    /\ pass = [p \in Passes |-> PassAt("ready", Runs, NoRun, FALSE)]
    /\ metered = [r \in Runs |-> 0]

Abort(p) == pass' = [pass EXCEPT ![p] = PassAt("done", {}, NoRun, FALSE)]

(* On to the next match: those done are no longer in todo.                   *)
NextMatch(p, todo) ==
    pass' = [pass EXCEPT ![p] =
                PassAt(IF todo = {} THEN "done" ELSE "ready", todo, NoRun, FALSE)]

(* Mutant: a replay takes an existing row for a new one.                     *)
PersistRunAlwaysNew(p, r) ==
    /\ pass[p].pc = "ready"
    /\ r \in pass[p].todo
    /\ run[r] # "deleted"
    /\ run' = [run EXCEPT ![r] = IF @ = "none" THEN "queued" ELSE @]
    /\ pass' = [pass EXCEPT ![p] = PassAt("dispatch", pass[p].todo \ {r}, r, TRUE)]
    /\ UNCHANGED <<dispatchedAt, age, idle, log, queueVars, metered, budgetVars>>

(* Create the queued row, or find the one an earlier pass created.  An error *)
(* of the create skips the match, except pool exhaustion, which aborts the   *)
(* pass so that the pipeline job is retried; the row may be there all the    *)
(* same.  A deleted run's workflow or response is gone: the create fails.    *)
PersistRun(p, r) ==
    LET rest == pass[p].todo \ {r}
        insert == run' = [run EXCEPT ![r] = IF @ = "none" THEN "queued" ELSE @]
        skip == NextMatch(p, rest) \/ Abort(p)
    IN
    /\ pass[p].pc = "ready"
    /\ r \in pass[p].todo
    /\ \/ /\ run[r] # "deleted"
          /\ insert
          /\ pass' = [pass EXCEPT ![p] = PassAt("dispatch", rest, r, run[r] = "none")]
          /\ UNCHANGED faults
       \/ run[r] = "deleted" /\ NextMatch(p, rest) /\ UNCHANGED <<run, faults>>
       \/ CallFails /\ skip /\ (UNCHANGED run \/ insert)
    /\ UNCHANGED <<dispatchedAt, age, idle, log, queueVars, metered, crashes>>

(* Mutant: the marker is stamped although the add failed.                    *)
DispatchRunMarksAnyway(p) ==
    LET r == pass[p].run IN
    /\ pass[p].pc = "dispatch"
    /\ metered' = IF pass[p].isNew THEN [metered EXCEPT ![r] = @ + 1] ELSE metered
    /\ pass' = [pass EXCEPT ![p].pc = "mark"]
    /\ \/ AddJob(r) /\ UNCHANGED faults
       \/ CallFails /\ UNCHANGED queueVars
    /\ UNCHANGED <<rowVars, log, crashes>>

(* Start the meter event of a new run, then add the job.  A failed add       *)
(* leaves the run queued without the marker, with or without its job.        *)
DispatchRun(p) ==
    LET r == pass[p].run IN
    /\ pass[p].pc = "dispatch"
    /\ metered' = IF pass[p].isNew THEN [metered EXCEPT ![r] = @ + 1] ELSE metered
    /\ \/ /\ AddJob(r)
          /\ pass' = [pass EXCEPT ![p].pc = "mark"]
          /\ UNCHANGED faults
       \/ /\ CallFails
          /\ AddJob(r) \/ UNCHANGED queueVars
          /\ NextMatch(p, pass[p].todo)
    /\ UNCHANGED <<rowVars, log, crashes>>

(* Stamp the dispatch marker, best effort.                                   *)
StampRun(p) ==
    /\ pass[p].pc = "mark"
    /\ \/ MarkDispatched(pass[p].run) /\ UNCHANGED faults
       \/ CallFails /\ UNCHANGED rowVars
    /\ NextMatch(p, pass[p].todo)
    /\ UNCHANGED <<log, queueVars, metered, crashes>>

Produce(p) ==
    \/ \E r \in Runs : PersistRun(p, r)
    \/ DispatchRun(p)
    \/ StampRun(p)

(* The process dies in the middle of a pass.                                 *)
PassCrash(p) ==
    /\ pass[p].pc \in {"dispatch", "mark"}
    /\ Crash
    /\ Abort(p)
    /\ UNCHANGED <<rowVars, log, queueVars, metered, faults>>
=============================================================================
