----------------------------- MODULE BillingSync ----------------------------
(***************************************************************************)
(* The writers of the billing snapshot.  Each reads the row, perhaps asks    *)
(* the billing service, writes a row built from what it read and then        *)
(* deletes the cached copy; nothing keeps two of them apart.                 *)
(***************************************************************************)
EXTENDS BillingRow

(* A step of call p that changes its own state only.                         *)
Quietly == UNCHANGED <<rowVars, left, stripeVars>>

ReadRow(p, pc) ==
    /\ proc' = [proc EXCEPT ![p].snap = row, ![p].pc = pc]
    /\ Quietly

WriteRow(p, new, pc) ==
    /\ row' = new
    /\ proc' = [proc EXCEPT ![p].snap = NewRow, ![p].pc = pc]
    /\ UNCHANGED <<cache, lock, left, stripeVars>>

(* Finish call p without touching the row.                                   *)
Finish(p) == Return(p) /\ UNCHANGED <<rowVars, left>>

-----------------------------------------------------------------------------
(* syncOrganizationBillingFromStripe                                         *)

(* The event was processed, or is older than one that was.                   *)
ShouldSkip(snap, ev) ==
    /\ ev # NoEvent
    /\ ev.id = snap.eventId \/ SecondOf(ev.id) < SecondOf(snap.eventId)

SyncRead(p) ==
    /\ At(p, "syncRead")
    /\ IF ShouldSkip(row, proc[p].ev) THEN Finish(p) ELSE ReadRow(p, "syncStripe")

(* The new row, from the one that was read and what the billing service      *)
(* says.  A payment failure stays unless an event or a change of plan        *)
(* settles it.                                                               *)
SyncedRow(snap, ev) ==
    LET sub == IF Current = 0 THEN NoSub ELSE subs[Current] IN
    [snap EXCEPT !.plan = sub.plan, !.status = sub.status, !.sub = Current,
                 !.pm = Current # 0 /\ card, !.pending = PendingOf(sub),
                 !.banner = IF ev # NoEvent \/ sub.plan # snap.plan THEN 0 ELSE @,
                 !.eventId = IF ev # NoEvent THEN ev.id ELSE @,
                 !.fresh = TRUE]

(* The subscriptions, the entitlements, the schedule and the payment method  *)
(* are read one after the other; the model reads them at once.               *)
SyncStripe(p) ==
    /\ At(p, "syncStripe")
    /\ proc' = [proc EXCEPT ![p].snap = SyncedRow(proc[p].snap, proc[p].ev),
                            ![p].pc = "syncWrite"]
    /\ Quietly

SyncWrite(p) == At(p, "syncWrite") /\ WriteRow(p, proc[p].snap, "syncDel")

SyncDel(p) ==
    /\ At(p, "syncDel")
    /\ cache' = {}
    /\ Return(p)
    /\ UNCHANGED <<row, lock, left>>

Sync(p) == SyncRead(p) \/ SyncStripe(p) \/ SyncWrite(p) \/ SyncDel(p)

-----------------------------------------------------------------------------
(* The other writers                                                         *)

(* setOrganizationPaymentAttemptError, for a payment event                   *)
PayRead(p) ==
    /\ At(p, "payRead")
    /\ IF SecondOf(proc[p].ev.id) < SecondOf(row.eventId) THEN Finish(p) ELSE ReadRow(p, "payWrite")

PayWrite(p) ==
    /\ At(p, "payWrite")
    /\ WriteRow(p, [proc[p].snap EXCEPT !.banner = proc[p].ev.id, !.fresh = TRUE], "lastDel")

(* updatePendingPlanChangeSnapshot                                           *)
PendRead(p) == At(p, "pendRead") /\ ReadRow(p, "pendWrite")

PendWrite(p) ==
    /\ At(p, "pendWrite")
    /\ WriteRow(p, [proc[p].snap EXCEPT
                       !.pending = IF proc[p].path = "later" THEN proc[p].target ELSE "none",
                       !.fresh = TRUE],
                IF proc[p].path = "later" THEN "lastDel" ELSE "pendDel")

(* The copy is deleted.  A plan change that took effect is then synced, one  *)
(* that waits for the customer to confirm a payment is not.                  *)
LastDel(p) ==
    /\ At(p, "lastDel")
    /\ cache' = {}
    /\ Return(p)
    /\ UNCHANGED <<row, lock, left>>

PendDel(p) ==
    /\ At(p, "pendDel")
    /\ cache' = {}
    /\ IF proc[p].path = "wait"
       THEN Return(p)
       ELSE Goto(p, "syncRead") /\ UNCHANGED stripeVars
    /\ UNCHANGED <<row, lock, left>>

SmallWrites(p) ==
    \/ PayRead(p) \/ PayWrite(p) \/ PendRead(p) \/ PendWrite(p) \/ LastDel(p) \/ PendDel(p)

-----------------------------------------------------------------------------
(* getOrganizationBillingWithReadThroughSync                                 *)

(* A fresh copy is served as it is; a miss reads the row.                    *)
CacheGet(p) ==
    \/ /\ \E c \in cache : ~c.fresh
       /\ proc' = [proc EXCEPT ![p] = [Idle EXCEPT !.op = "page", !.pc = "tryLock"]]
    \/ /\ cache = {}
       /\ proc' = [proc EXCEPT ![p] = [Idle EXCEPT !.op = "page", !.pc = "cacheFill",
                                                   !.snap = row]]

(* The row that was read goes to the cache, whatever was written since.      *)
CacheFill(p) ==
    /\ At(p, "cacheFill")
    /\ cache' = {proc[p].snap}
    /\ IF proc[p].snap.fresh
       THEN Return(p)
       ELSE /\ proc' = [proc EXCEPT ![p].pc = "tryLock", ![p].snap = NewRow]
            /\ UNCHANGED stripeVars
    /\ UNCHANGED <<row, lock, left>>

TryLock(p) ==
    /\ At(p, "tryLock")
    /\ IF lock THEN Finish(p)
       ELSE /\ lock' = TRUE
            /\ Goto(p, "syncRead")
            /\ UNCHANGED <<row, cache, left, stripeVars>>

ReadThrough(p) == CacheFill(p) \/ TryLock(p)
=============================================================================
