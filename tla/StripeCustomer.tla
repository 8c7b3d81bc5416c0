--------------------------- MODULE StripeCustomer ---------------------------
(***************************************************************************)
(* The billing service as the application uses it: one customer, its         *)
(* subscriptions, the idempotency keys of create calls and the events that   *)
(* wait to be delivered.  Everything here is outside src/.                   *)
(***************************************************************************)
EXTENDS Naturals, FiniteSets

CONSTANTS
    MaxSubs,   \* subscriptions the customer can ever have
    Limits     \* what a behaviour may have, one of these (see left)

Plans == {"hobby", "pro", "scale"}
Acts == {"trial", "hobby", "switch", "undo"}

VARIABLES
    subs,      \* the subscriptions, those not yet created with status "none"
    used,      \* how many were created
    idem,      \* idempotency key -> the subscription its first call created, 0 if unused
    card,      \* does the customer have a default payment method?
    events,    \* undelivered or unacknowledged events
    emitted,   \* number of events so far
    left       \* bounds: what may still happen

stripeVars == <<subs, used, idem, card, events, emitted>>

SubIds == 1..MaxSubs
Level == [hobby |-> 0, pro |-> 1, scale |-> 2]
LiveStatus == {"trialing", "active"}

(* ends: cancel_at_period_end.  sched: the attached schedule, "bare" without *)
(* a next phase, otherwise the plan of that phase.  hold: the plan of a      *)
(* pending update whose invoice is not paid.  born: who created it.          *)
Sub == [plan: Plans, status: LiveStatus \cup {"none", "canceled"}, ends: BOOLEAN,
        sched: Plans \cup {"none", "bare"}, hold: Plans \cup {"none"},
        born: {"hobby", "trial", "checkout"}]

NewSub(plan, status, born) ==
    [plan |-> plan, status |-> status, ends |-> FALSE, sched |-> "none",
     hold |-> "none", born |-> born]
NoSub == NewSub("hobby", "none", "hobby")

(* env: changes that start outside the application.  ops, acts: actions of   *)
(* admins, how many and which.  fails: calls that throw.  pages: are pages   *)
(* opened?  card, start: does the customer begin with a payment method, and   *)
(* with what subscription?                                                   *)
Left == [env: Nat, ops: Nat, acts: SUBSET Acts, fails: Nat, pages: BOOLEAN,
         card: BOOLEAN, start: Sub]
Spend(what) == left[what] > 0 /\ left' = [left EXCEPT ![what] = @ - 1]

ASSUME StripeAssumption ==
    /\ MaxSubs \in Nat \ {0}
    /\ \A l \in Limits : l \in Left /\ (l.start = NoSub \/ l.start.status \in LiveStatus)

(* A key of the hobby subscription carries the number of subscriptions.      *)
HobbyKey(n) == n
TrialKey == MaxSubs + 1
Keys == 0..TrialKey

(* Two changes in a row share the second of event.created.                   *)
Event == [id: Nat, kind: {"sub", "pay"}]
EventOf(n, kind) == [id |-> n, kind |-> kind]
NoEvent == EventOf(0, "sub")
SecondOf(n) == (n + 1) \div 2

StripeTypeOK ==
    /\ subs \in [SubIds -> Sub]
    /\ used \in 0..MaxSubs
    /\ idem \in [Keys -> 0..MaxSubs]
    /\ card \in BOOLEAN
    /\ \A e \in events : e \in Event
    /\ emitted \in Nat
    /\ left \in Left

StripeInit ==
    /\ left \in Limits
    /\ used = IF left.start = NoSub THEN 0 ELSE 1
    /\ subs = [i \in SubIds |-> IF i = 1 THEN left.start ELSE NoSub]
    /\ idem = [k \in Keys |-> 0]
    /\ card = left.card
    /\ events = {}
    /\ emitted = 0

Live(i) == i \in SubIds /\ subs[i].status \in LiveStatus
LiveIds == {i \in SubIds : Live(i)}
Paid(i) == subs[i].plan # "hobby"

(* resolveCurrentSubscription's order: the highest plan, then the latest.    *)
Preferred(i) ==
    /\ i \in LiveIds
    /\ \A j \in LiveIds : \/ Level[subs[j].plan] < Level[subs[i].plan]
                          \/ (Level[subs[j].plan] = Level[subs[i].plan] /\ j <= i)
Current == IF \E i \in LiveIds : Preferred(i)
           THEN CHOOSE i \in LiveIds : Preferred(i) ELSE 0

Emit(kind) ==
    /\ emitted' = emitted + 1
    /\ events' = events \cup {EventOf(emitted + 1, kind)}

-----------------------------------------------------------------------------
(* The calls that change something                                           *)

ChangeSub(i, new) ==
    /\ subs' = [subs EXCEPT ![i] = new]
    /\ Emit("sub")
    /\ UNCHANGED <<used, idem, card>>

(* A create call replays the first answer its key was given.                 *)
CreateSub(key, new) ==
    IF idem[key] # 0
    THEN UNCHANGED stripeVars
    ELSE /\ used < MaxSubs
         /\ used' = used + 1
         /\ subs' = [subs EXCEPT ![used + 1] = new]
         /\ idem' = [idem EXCEPT ![key] = used + 1]
         /\ Emit("sub")
         /\ UNCHANGED <<card>>

Acknowledge(e) ==
    /\ events' = events \ {e}
    /\ UNCHANGED <<subs, used, idem, card, emitted>>

-----------------------------------------------------------------------------
(* What happens at the service by itself                                     *)

(* The customer cancels at period end in the customer portal.                *)
PortalCancels(i) ==
    /\ Live(i) /\ Paid(i) /\ ~subs[i].ends
    /\ Spend("env")
    /\ subs' = [subs EXCEPT ![i].ends = TRUE]
    /\ Emit("sub")
    /\ UNCHANGED <<used, idem, card>>

(* A payment needs action or was canceled for a failed invoice.              *)
PaymentFails ==
    /\ \E i \in SubIds : Live(i) /\ Paid(i)
    /\ Spend("env")
    /\ Emit("pay")
    /\ UNCHANGED <<subs, used, idem, card>>

(* A checkout session that was opened when there was no subscription ends in *)
(* a paid one.                                                               *)
CheckoutCompletes(plan) ==
    /\ plan # "hobby"
    /\ used < MaxSubs
    /\ Spend("env")
    /\ used' = used + 1
    /\ subs' = [subs EXCEPT ![used + 1] = NewSub(plan, "active", "checkout")]
    /\ card' = TRUE
    /\ Emit("sub")
    /\ UNCHANGED idem

(* A trial without a card is canceled at its end, a period with a pending    *)
(* cancellation ends the subscription, a schedule moves to its next phase.   *)
PeriodEnds(i) ==
    /\ Live(i)
    /\ Spend("env")
    /\ \/ /\ subs[i].ends \/ (subs[i].status = "trialing" /\ ~card)
          /\ ChangeSub(i, NewSub(subs[i].plan, "canceled", subs[i].born))
       \/ /\ ~subs[i].ends
          /\ subs[i].status = "trialing" => card
          /\ subs[i].status = "trialing" \/ subs[i].sched \in Plans
          /\ ChangeSub(i, [subs[i] EXCEPT
                !.status = "active",
                !.plan = IF subs[i].sched \in Plans THEN subs[i].sched ELSE @,
                !.sched = IF @ \in Plans THEN "none" ELSE @])

(* The invoice of a pending update is paid.                                  *)
PaymentConfirmed(i) ==
    /\ Live(i) /\ subs[i].hold # "none"
    /\ Spend("env")
    /\ ChangeSub(i, [subs[i] EXCEPT !.plan = subs[i].hold, !.hold = "none"])

(* Keys are pruned after a day.                                              *)
PruneKeys ==
    /\ \E k \in Keys : idem[k] # 0
    /\ idem' = [k \in Keys |-> 0]
    /\ UNCHANGED <<subs, used, card, events, emitted, left>>
=============================================================================
