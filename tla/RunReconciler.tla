--------------------------- MODULE RunReconciler ----------------------------
(***************************************************************************)
(* The recurring workflow-run.reconcile job.  A tick runs two sweeps side by *)
(* side: the orphan sweep re-dispatches queued runs past the grace window    *)
(* and fails those past the ceiling; the stuck sweep fails running runs      *)
(* whose row has not moved for an hour and skips their in-flight steps.      *)
(* Each acts on the rows it scanned, one run after the other, whatever has   *)
(* happened since.  Ticks are the overlapping ticks: a slow one is not       *)
(* awaited by the next.                                                      *)
(***************************************************************************)
EXTENDS RunTables

CONSTANT Ticks   \* reconcile jobs that may be in progress at once

VARIABLES
    orphans,   \* per tick, where the orphan sweep is and its scanned rows
    stuck      \* per tick, where the stuck sweep is and its scanned rows

reconcilerVars == <<orphans, stuck>>

(* What the orphan scan keeps of a row.                                      *)
OrphanRow == [run: Runs, expired: BOOLEAN, unstamped: BOOLEAN]

ReconcilerTypeOK ==
    /\ orphans \in [Ticks -> [todo: SUBSET OrphanRow, mark: Runs \cup {NoRun}]]
    /\ stuck \in [Ticks -> [todo: SUBSET Runs, skip: Runs \cup {NoRun}]]

ReconcilerInit ==
    /\ orphans = [k \in Ticks |-> [todo |-> {}, mark |-> NoRun]]
    /\ stuck = [k \in Ticks |-> [todo |-> {}, skip |-> NoRun]]

-----------------------------------------------------------------------------
(* The orphan sweep                                                          *)

(* Queued runs past the grace window, as they are now.                       *)
ScanOrphans(k) ==
    LET eligible == {r \in Runs : run[r] = "queued" /\ age[r] # "young"} IN
    /\ orphans[k] = [todo |-> {}, mark |-> NoRun]
    /\ eligible # {}
    /\ orphans' = [orphans EXCEPT ![k].todo =
            {[run |-> r, expired |-> age[r] = "expired", unstamped |-> ~dispatchedAt[r]]
                : r \in eligible}]
    /\ UNCHANGED <<rowVars, log, queueVars, stuck, budgetVars>>

(* Past the ceiling: fail the run if it is still queued.                     *)
AgeOut(k, o) ==
    /\ orphans[k].mark = NoRun
    /\ o \in orphans[k].todo /\ o.expired
    /\ \/ UpdateRun(o.run, {"queued"}, "failed") /\ UNCHANGED faults
       \/ CallFails /\ UNCHANGED rowVars
    /\ orphans' = [orphans EXCEPT ![k].todo = @ \ {o}]
    /\ UNCHANGED <<log, queueVars, stuck, crashes>>

(* Otherwise dispatch again; a row scanned without the marker is stamped.    *)
Redispatch(k, o) ==
    /\ orphans[k].mark = NoRun
    /\ o \in orphans[k].todo /\ ~o.expired
    /\ \/ /\ AddJob(o.run)
          /\ orphans' = [orphans EXCEPT ![k] =
                [todo |-> @.todo \ {o}, mark |-> IF o.unstamped THEN o.run ELSE NoRun]]
          /\ UNCHANGED faults
       \/ /\ CallFails
          /\ AddJob(o.run) \/ UNCHANGED queueVars
          /\ orphans' = [orphans EXCEPT ![k].todo = @ \ {o}]
    /\ UNCHANGED <<rowVars, log, stuck, crashes>>

StampOrphan(k) ==
    /\ orphans[k].mark # NoRun
    /\ \/ MarkDispatched(orphans[k].mark) /\ UNCHANGED faults
       \/ CallFails /\ UNCHANGED rowVars
    /\ orphans' = [orphans EXCEPT ![k].mark = NoRun]
    /\ UNCHANGED <<log, queueVars, stuck, crashes>>

-----------------------------------------------------------------------------
(* The stuck sweep                                                           *)

(* Mutant: a run with a step in flight is taken to be owned.                 *)
ScanStuckUnowned(k) ==
    LET eligible == {r \in Runs : /\ run[r] = "running" /\ idle[r]
                                 /\ \A s \in Steps : log[r][s] # "running"} IN
    /\ stuck[k] = [todo |-> {}, skip |-> NoRun]
    /\ eligible # {}
    /\ stuck' = [stuck EXCEPT ![k].todo = eligible]
    /\ UNCHANGED <<rowVars, log, queueVars, orphans, budgetVars>>

(* Running rows without a write for an hour, as they are now.                *)
ScanStuck(k) ==
    LET eligible == {r \in Runs : run[r] = "running" /\ idle[r]} IN
    /\ stuck[k] = [todo |-> {}, skip |-> NoRun]
    /\ eligible # {}
    /\ stuck' = [stuck EXCEPT ![k].todo = eligible]
    /\ UNCHANGED <<rowVars, log, queueVars, orphans, budgetVars>>

(* Fail the run if it is still running; only the sweep that failed it goes   *)
(* on to its steps.                                                         *)
FailStuck(k, r) ==
    /\ stuck[k].skip = NoRun
    /\ r \in stuck[k].todo
    /\ \/ /\ UpdateRun(r, {"running"}, "failed")
          /\ stuck' = [stuck EXCEPT ![k] =
                [todo |-> @.todo \ {r}, skip |-> IF run[r] = "running" THEN r ELSE NoRun]]
          /\ UNCHANGED faults
       \/ /\ CallFails
          /\ UpdateRun(r, {"running"}, "failed") \/ UNCHANGED rowVars
          /\ stuck' = [stuck EXCEPT ![k].todo = @ \ {r}]
    /\ UNCHANGED <<log, queueVars, orphans, crashes>>

(* Mutant: the step is marked failed, as if it had never gone out.           *)
SkipStepsAsFailed(k) ==
    LET r == stuck[k].skip IN
    /\ r # NoRun
    /\ log' = [log EXCEPT ![r] =
            [s \in Steps |-> IF @[s] = "running" THEN "failed" ELSE @[s]]]
    /\ stuck' = [stuck EXCEPT ![k].skip = NoRun]
    /\ UNCHANGED <<rowVars, queueVars, orphans, budgetVars>>

(* The in-flight steps of the run this sweep failed are closed.              *)
SkipSteps(k) ==
    LET r == stuck[k].skip IN
    /\ r # NoRun
    /\ \/ /\ log' = [log EXCEPT ![r] =
                [s \in Steps |-> IF @[s] = "running" THEN "skipped" ELSE @[s]]]
          /\ UNCHANGED faults
       \/ CallFails /\ UNCHANGED log
    /\ stuck' = [stuck EXCEPT ![k].skip = NoRun]
    /\ UNCHANGED <<rowVars, queueVars, orphans, crashes>>

Reconcile(k) ==
    \/ ScanOrphans(k)
    \/ \E o \in orphans[k].todo : AgeOut(k, o) \/ Redispatch(k, o)
    \/ StampOrphan(k)
    \/ ScanStuck(k)
    \/ \E r \in stuck[k].todo : FailStuck(k, r)
    \/ SkipSteps(k)

(* The process dies in the middle of a tick: both sweeps of it are lost.     *)
TickCrash(k) ==
    /\ orphans[k] # [todo |-> {}, mark |-> NoRun] \/ stuck[k] # [todo |-> {}, skip |-> NoRun]
    /\ Crash
    /\ orphans' = [orphans EXCEPT ![k] = [todo |-> {}, mark |-> NoRun]]
    /\ stuck' = [stuck EXCEPT ![k] = [todo |-> {}, skip |-> NoRun]]
    /\ UNCHANGED <<rowVars, log, queueVars, faults>>
=============================================================================
