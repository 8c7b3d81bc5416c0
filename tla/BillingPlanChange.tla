------------------------- MODULE BillingPlanChange --------------------------
(***************************************************************************)
(* A change of plan and its undoing: a sequence of calls on the subscription *)
(* and its schedule, decided by the subscription as it was read at first.    *)
(***************************************************************************)
EXTENDS BillingReconcile

(* A call on a subscription that has ended is refused.                       *)
Change(p, new, next) ==
    LET i == proc[p].at IN
    IF Live(i)
    THEN ChangeSub(i, new) /\ proc' = next /\ UNCHANGED <<rowVars, left>>
    ELSE Throw(p) /\ UNCHANGED left

Pc(p, pc) == [proc EXCEPT ![p].pc = pc]

(* Where each way goes on, by the subscription as it was read.               *)
AfterUncancel(path, sub) ==
    CASE path = "now" -> "apply"
      [] path = "later" -> "schedule"
      [] path = "trial" -> "toHobby"
      [] OTHER -> IF sub.sched # "none" THEN "release" ELSE "pendRead"
AfterRelease(path, sub) ==
    IF path # "trial" THEN "pendRead"
    ELSE IF sub.ends THEN "uncancel" ELSE "toHobby"
FirstStep(path, sub) ==
    CASE path = "trial" /\ sub.sched # "none" -> "release"
      [] path = "trial" -> AfterRelease(path, sub)
      [] sub.ends -> "uncancel"
      [] OTHER -> AfterUncancel(path, sub)

Take(p, path) ==
    /\ proc' = [proc EXCEPT ![p].at = Current, ![p].sub = subs[Current], ![p].path = path,
                            ![p].pc = FirstStep(path, subs[Current])]
    /\ Quietly

(* changeBillingPlanAction's own guard reads the snapshot, the others read   *)
(* the subscription; the model reads both at once.                           *)
Choose(p) ==
    LET sub == subs[Current]
        target == proc[p].target
        trialing == sub.status = "trialing"
    IN
    /\ At(p, "choose")
    /\ IF \/ Current = 0
          \/ /\ proc[p].op = "switch" /\ target # "hobby"
             /\ ~row.pm \/ (trialing /\ ~card)
       THEN Throw(p) /\ UNCHANGED left
       ELSE IF proc[p].op = "undo" THEN Take(p, "clear")
       ELSE IF trialing THEN Take(p, IF target = "hobby" THEN "trial" ELSE "now")
       ELSE IF target = sub.plan THEN Goto(p, "syncRead") /\ Quietly
       ELSE Take(p, IF Level[target] > Level[sub.plan] THEN "now" ELSE "later")

Uncancel(p) ==
    /\ At(p, "uncancel")
    /\ Change(p, [subs[proc[p].at] EXCEPT !.ends = FALSE],
              Pc(p, AfterUncancel(proc[p].path, proc[p].sub)))

(* A release is refused when the schedule is gone.                           *)
Release(p) ==
    /\ At(p, "release")
    /\ IF subs[proc[p].at].sched = "none"
       THEN Throw(p) /\ UNCHANGED left
       ELSE Change(p, [subs[proc[p].at] EXCEPT !.sched = "none"],
                   Pc(p, AfterRelease(proc[p].path, proc[p].sub)))

(* The end of a trial bills at once; another upgrade counts when its invoice *)
(* is paid, perhaps only after the customer confirmed the payment.  Then     *)
(* clearPendingPlanState, by the same reading of the subscription.           *)
Apply(p) ==
    LET sub == subs[proc[p].at]
        to(path) == [proc EXCEPT ![p].path = path, ![p].pc = FirstStep(path, proc[p].sub)]
    IN
    /\ At(p, "apply")
    /\ \/ Change(p, [sub EXCEPT !.plan = proc[p].target, !.status = "active",
                                !.hold = "none"], to("clear"))
       \/ /\ proc[p].sub.status = "active"
          /\ Change(p, [sub EXCEPT !.hold = proc[p].target], to("wait"))

ToHobby(p) ==
    /\ At(p, "toHobby")
    /\ Change(p, [subs[proc[p].at] EXCEPT !.plan = "hobby", !.status = "active"],
              Pc(p, "pendRead"))

-----------------------------------------------------------------------------
(* scheduleSubscriptionPlanChange                                            *)

(* A second schedule for a subscription is refused; a schedule that was      *)
(* released has no current phase.                                            *)
Schedule(p) ==
    LET sub == subs[proc[p].at]
        create == proc[p].sub.sched = "none"
    IN
    /\ At(p, "schedule")
    /\ IF create # (sub.sched = "none") THEN Throw(p) /\ UNCHANGED left
       ELSE IF create
       THEN Change(p, [sub EXCEPT !.sched = "bare"],
                   [proc EXCEPT ![p].made = TRUE, ![p].pc = "reschedule"])
       ELSE Goto(p, "reschedule") /\ Quietly

RollbackFirst(made, had) ==
    IF made THEN "rbRelease" ELSE IF had THEN "rbCancel" ELSE "idle"

(* Give up: through what is left of the rollback, then with an error.        *)
Rollback(p, pc) ==
    proc' = [proc EXCEPT ![p] = IF pc = "idle" THEN Ended(p, "error")
                                ELSE [proc[p] EXCEPT !.pc = pc]]

Reschedule(p) ==
    LET sub == subs[proc[p].at] IN
    /\ At(p, "reschedule")
    /\ IF Live(proc[p].at) /\ sub.sched # "none"
       THEN Change(p, [sub EXCEPT !.sched = proc[p].target], Pc(p, "pendRead"))
       ELSE Rollback(p, RollbackFirst(proc[p].made, proc[p].sub.ends)) /\ Quietly

(* The failures of the rollback itself are logged only.                      *)
RbRelease(p) ==
    LET i == proc[p].at IN
    /\ At(p, "rbRelease")
    /\ Rollback(p, RollbackFirst(FALSE, proc[p].sub.ends))
    /\ IF Live(i) /\ subs[i].sched # "none"
       THEN ChangeSub(i, [subs[i] EXCEPT !.sched = "none"])
       ELSE UNCHANGED stripeVars
    /\ UNCHANGED <<rowVars, left>>

RbCancel(p) ==
    LET i == proc[p].at IN
    /\ At(p, "rbCancel")
    /\ Rollback(p, "idle")
    /\ IF Live(i)
       THEN ChangeSub(i, [subs[i] EXCEPT !.ends = TRUE])
       ELSE UNCHANGED stripeVars
    /\ UNCHANGED <<rowVars, left>>

PlanChange(p) ==
    \/ Choose(p) \/ Uncancel(p) \/ Release(p) \/ Apply(p) \/ ToHobby(p)
    \/ Schedule(p) \/ Reschedule(p) \/ RbRelease(p) \/ RbCancel(p)
=============================================================================
