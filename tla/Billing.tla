------------------------------- MODULE Billing ------------------------------
(***************************************************************************)
(* Billing of one organization: webhook handlers, page renders and admins    *)
(* over one row, its cached copy and the customer at the billing service.    *)
(***************************************************************************)
EXTENDS BillingPlanChange

TypeOK == StripeTypeOK /\ RowTypeOK

Init == StripeInit /\ RowInit

-----------------------------------------------------------------------------
(* How calls begin                                                           *)

Begin(p, op, pc, ev, target) ==
    /\ At(p, "idle")
    /\ proc' = [proc EXCEPT ![p] = [Idle EXCEPT !.op = op, !.pc = pc, !.ev = ev,
                                                !.target = target]]
    /\ UNCHANGED <<rowVars, stripeVars>>

(* webhookHandler: events come in any order, again when not acknowledged,    *)
(* and also while a first delivery is still at work.                         *)
Webhook(h) ==
    /\ \E e \in events :
          Begin(h, "hook", IF e.kind = "pay" THEN "payRead" ELSE "recList", e, "none")
    /\ UNCHANGED left

PageLoad(g) ==
    /\ At(g, "idle")
    /\ CacheGet(g)
    /\ left.pages
    /\ UNCHANGED <<rowVars, left, stripeVars>>

(* startHobbyAction, startProTrialAction, changeBillingPlanAction and        *)
(* undoPendingPlanChangeAction, or the setup of a new organization, which    *)
(* does what startHobbyAction does                                           *)
AdminActs(a) ==
    /\ Spend("ops")
    /\ \E op \in left.acts :
          CASE op = "hobby" -> Begin(a, op, "recList", NoEvent, "none")
            [] op = "trial" -> Begin(a, op, "trialCheck", NoEvent, "none")
            [] op = "undo" -> Begin(a, op, "choose", NoEvent, "none")
            [] op = "switch" -> \E target \in Plans : Begin(a, op, "choose", NoEvent, target)

(* A call throws, or its process dies; the schedule's update is caught and   *)
(* rolled back, and the rollback's own failures are passed over.             *)
CallFails(p) ==
    /\ ~At(p, "idle")
    /\ Spend("fails")
    /\ CASE At(p, "reschedule") ->
              Rollback(p, RollbackFirst(proc[p].made, proc[p].sub.ends))
         [] At(p, "rbRelease") -> Rollback(p, RollbackFirst(FALSE, proc[p].sub.ends))
         [] OTHER -> proc' = [proc EXCEPT ![p] = Ended(p, "error")]
    /\ UNCHANGED <<rowVars, stripeVars>>

Step(p) ==
    \/ Reconcile(p) \/ Sync(p) \/ SmallWrites(p) \/ ReadThrough(p)
    \/ StartTrial(p) \/ PlanChange(p)

-----------------------------------------------------------------------------
(* The billing service                                                       *)

(* A key outlives every request that may still use it.                       *)
PruneIdleKeys ==
    /\ \A p \in Procs : ~At(p, "recCreate") /\ ~At(p, "trialCreate")
    /\ PruneKeys
    /\ UNCHANGED <<rowVars, proc>>

ServiceActs ==
    /\ \/ \E i \in SubIds : PortalCancels(i) \/ PeriodEnds(i) \/ PaymentConfirmed(i)
       \/ PaymentFails
       \/ row.sub = 0 /\ \E plan \in Plans : CheckoutCompletes(plan)
    /\ UNCHANGED <<rowVars, proc>>

Next ==
    \/ \E h \in Hooks : Webhook(h)
    \/ \E g \in Pages : PageLoad(g)
    \/ \E a \in Admins : AdminActs(a)
    \/ \E p \in Procs : Step(p) \/ CallFails(p)
    \/ PruneIdleKeys
    \/ SnapshotAges \/ CopyExpires \/ LockExpires
    \/ ServiceActs

Spec == Init /\ [][Next]_billingVars

(* Calls go on, events are delivered until they are acknowledged, pages are  *)
(* opened again and again, and time passes.  Nothing is assumed of admins,   *)
(* failures or of what happens at the service.                               *)
Fairness ==
    /\ \A p \in Procs : WF_billingVars(Step(p))
    /\ \A h \in Hooks : WF_billingVars(Webhook(h))
    /\ \A g \in Pages : WF_billingVars(PageLoad(g))
    /\ WF_billingVars(SnapshotAges)
    /\ WF_billingVars(CopyExpires)
    /\ WF_billingVars(LockExpires)

FairSpec == Spec /\ Fairness

-----------------------------------------------------------------------------
(* There is never a second pro trial: two starts at the same time share an   *)
(* idempotency key, a later one finds the first trial, and the key is kept   *)
(* as long as a request that found none may still run.                       *)
OneTrial ==
    \A i, j \in 1..used : subs[i].born = "trial" /\ subs[j].born = "trial" => i = j

(* Concurrent reconciliations of a customer without subscriptions create one *)
(* hobby subscription between them, as long as none was ever canceled (the   *)
(* key then counts one more).                                                *)
OneHobbyUntilCancel ==
    (\A i \in 1..used : subs[i].status # "canceled") =>
        \A i, j \in 1..used : subs[i].born = "hobby" /\ subs[j].born = "hobby" => i = j

Agrees(copy) ==
    LET sub == IF Current = 0 THEN NoSub ELSE subs[Current] IN
    /\ copy.plan = sub.plan /\ copy.status = sub.status /\ copy.sub = Current
    /\ copy.pending = PendingOf(sub)

(* Whatever the order of webhooks, lost updates and failures, as long as     *)
(* pages are opened: in the end the                                          *)
(* row and its copy say what the billing service says, the customer has a    *)
(* subscription, and none is a hobby one beside a paid one.                  *)
Settled ==
    /\ Agrees(row) /\ \A c \in cache : Agrees(c)
    /\ used > 0 => LiveIds # {}
    /\ \A i, j \in LiveIds : Paid(i) => Paid(j)
BillingSettles == left.pages => <>[]Settled

(* A change of plan that failed leaves a cancellation the customer asked for *)
(* as it was.                                                                *)
FailedChangeKeepsCancellation ==
    \A a \in Admins :
        proc[a].out = "error" /\ proc[a].path = "later" /\ proc[a].sub.ends
            => subs[proc[a].at].ends \/ subs[proc[a].at].status = "canceled"
=============================================================================
