----------------------------- MODULE BillingRow -----------------------------
(***************************************************************************)
(* What the application keeps about billing: the OrganizationBilling row of  *)
(* one organization, its copy in Redis, the lock of the read-through         *)
(* refresh, and the calls in progress.                                       *)
(***************************************************************************)
EXTENDS StripeCustomer

CONSTANTS
    Hooks,    \* webhook handlers that run at the same time
    Pages,    \* page renders
    Admins    \* billing actions of the organization's admins

ASSUME ActorAssumption ==
    Hooks \cap Pages = {} /\ Hooks \cap Admins = {} /\ Pages \cap Admins = {}

VARIABLES
    row,     \* the snapshot in the database
    cache,   \* its copy in Redis: empty or one row
    lock,    \* is the sync lock taken?
    proc     \* the calls in progress

rowVars == <<row, cache, lock>>
billingVars == <<row, cache, lock, proc, left, stripeVars>>

Procs == Hooks \cup Pages \cup Admins

(* fresh: lastSyncedAt is at most five minutes old.  banner: the event of    *)
(* paymentAttemptError, 0 for none.  eventId: the last event, whose second   *)
(* is kept beside it.                                                        *)
Row == [plan: Plans, status: LiveStatus \cup {"none"}, sub: 0..MaxSubs,
        pm: BOOLEAN, pending: Plans \cup {"none"},
        banner: Nat, eventId: Nat, fresh: BOOLEAN]

NewRow == [plan |-> "hobby", status |-> "none", sub |-> 0, pm |-> FALSE,
           pending |-> "none", banner |-> 0, eventId |-> 0, fresh |-> TRUE]

Pcs == {"idle", "cacheFill", "tryLock",
        "recList", "recFresh", "recCreate", "recCancel",
        "syncRead", "syncStripe", "syncWrite", "syncDel",
        "payRead", "payWrite", "pendRead", "pendWrite",
        "lastDel", "pendDel",
        "trialCheck", "trialCreate",
        "choose", "uncancel", "release", "apply", "toHobby",
        "schedule", "reschedule", "rbRelease", "rbCancel"}

(* op, pc: the call and where it is.  ev: a handler's event.  snap: the row  *)
(* as it was read or will be written.  at, sub: the subscription as read.    *)
(* ids: the hobby subscriptions to cancel.  n: the number of subscriptions.  *)
(* target, path: the plan asked for and the way to it.  made: did the call   *)
(* create the schedule?  out: how the last call of an admin ended.           *)
Local == [op: {"none", "hook", "page", "trial", "hobby", "switch", "undo"}, pc: Pcs,
          ev: Event, snap: Row, at: 0..MaxSubs, sub: Sub,
          ids: SUBSET SubIds, n: 0..MaxSubs, target: Plans \cup {"none"},
          path: {"none", "now", "later", "trial", "clear", "wait"}, made: BOOLEAN,
          out: {"none", "ok", "error"}]

Idle == [op |-> "none", pc |-> "idle", ev |-> NoEvent, snap |-> NewRow, at |-> 0,
         sub |-> NoSub, ids |-> {}, n |-> 0, target |-> "none",
         path |-> "none", made |-> FALSE, out |-> "none"]

RowTypeOK ==
    /\ row \in Row
    /\ cache \subseteq Row /\ \A c, d \in cache : c = d
    /\ lock \in BOOLEAN
    /\ proc \in [Procs -> Local]

(* Mutant: any schedule is a pending change.                                 *)
PendingOfAnySchedule(sub) ==
    IF sub.sched # "none" THEN sub.sched ELSE IF sub.ends THEN "hobby" ELSE "none"

(* resolvePendingPlanChange                                                  *)
PendingOf(sub) ==
    IF sub.sched \in Plans THEN sub.sched
    ELSE IF sub.ends THEN "hobby" ELSE "none"

(* The row agrees with the subscription the customer begins with.            *)
RowInit ==
    /\ row = [NewRow EXCEPT !.plan = subs[1].plan, !.status = subs[1].status,
                            !.sub = used, !.pm = used # 0 /\ card,
                            !.pending = PendingOf(subs[1])]
    /\ cache = {}
    /\ lock = FALSE
    /\ proc = [p \in Procs |-> Idle]

At(p, pc) == proc[p].pc = pc
Goto(p, pc) == proc' = [proc EXCEPT ![p].pc = pc]

(* The end of a call.  An acknowledged event is not delivered again; one     *)
(* whose handler answered 500 is.                                            *)
Ended(p, out) ==
    IF p \in Admins
    THEN IF out = "error" /\ proc[p].path = "later"
         THEN [proc[p] EXCEPT !.pc = "idle", !.snap = NewRow, !.out = out]
         ELSE [Idle EXCEPT !.out = out]
    ELSE Idle
Return(p) ==
    /\ proc' = [proc EXCEPT ![p] = Ended(p, "ok")]
    /\ IF p \in Hooks THEN Acknowledge(proc[p].ev) ELSE UNCHANGED stripeVars
Throw(p) ==
    /\ proc' = [proc EXCEPT ![p] = Ended(p, "error")]
    /\ UNCHANGED <<stripeVars, rowVars>>

-----------------------------------------------------------------------------
(* The cached copy                                                           *)

(* Five minutes pass: the row, its copy and what calls hold are stale; only  *)
(* pages look at that.                                                       *)
SnapshotAges ==
    /\ left.pages
    /\ \E c \in cache \cup {row} : c.fresh
    /\ row' = [row EXCEPT !.fresh = FALSE]
    /\ cache' = {[c EXCEPT !.fresh = FALSE] : c \in cache}
    /\ proc' = [p \in Procs |-> IF At(p, "idle") THEN proc[p]
                                ELSE [proc[p] EXCEPT !.snap.fresh = FALSE]]
    /\ UNCHANGED <<lock, left, stripeVars>>

(* A copy was made after its lastSyncedAt and lives five minutes as well: it *)
(* is stale before it expires.                                               *)
CopyExpires ==
    /\ \E c \in cache : ~c.fresh
    /\ cache' = {}
    /\ UNCHANGED <<row, lock, proc, left, stripeVars>>

(* Mutant: the lock has no lease.                                            *)
LockStays ==
    /\ lock
    /\ UNCHANGED billingVars

(* The lock is never released, only its lease ends; the sync may still run.  *)
LockExpires ==
    /\ lock
    /\ lock' = FALSE
    /\ UNCHANGED <<row, cache, proc, left, stripeVars>>
=============================================================================
