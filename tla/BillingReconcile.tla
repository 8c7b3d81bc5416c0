-------------------------- MODULE BillingReconcile --------------------------
(***************************************************************************)
(* The calls that create and cancel subscriptions: the reconciliation that   *)
(* gives the customer a hobby subscription or takes it away beside a paid    *)
(* one, and the start of the pro trial.                                      *)
(***************************************************************************)
EXTENDS BillingSync

ToSync(p) == [proc EXCEPT ![p].pc = "syncRead", ![p].ids = {}, ![p].n = 0]

ListedHobbies == {i \in LiveIds : ~Paid(i)}

RecList(p) ==
    /\ At(p, "recList")
    /\ proc' = IF LiveIds = {} THEN [proc EXCEPT ![p].pc = "recFresh"]
               ELSE IF /\ \E i \in LiveIds : Paid(i)
                       /\ ListedHobbies # {}
               THEN [proc EXCEPT ![p].pc = "recCancel", ![p].ids = ListedHobbies]
               ELSE ToSync(p)
    /\ Quietly

(* The listed subscriptions are canceled in any order; one that is gone is   *)
(* skipped.                                                                  *)
RecCancel(p) ==
    /\ At(p, "recCancel")
    /\ \E i \in proc[p].ids :
          /\ proc' = IF proc[p].ids = {i} THEN ToSync(p)
                     ELSE [proc EXCEPT ![p].ids = @ \ {i}]
          /\ IF Live(i)
             THEN ChangeSub(i, NewSub(subs[i].plan, "canceled", subs[i].born))
             ELSE UNCHANGED stripeVars
    /\ UNCHANGED <<rowVars, left>>

RecFresh(p) ==
    /\ At(p, "recFresh")
    /\ proc' = IF LiveIds = {}
               THEN [proc EXCEPT ![p].pc = "recCreate", ![p].n = used]
               ELSE ToSync(p)
    /\ Quietly

(* Mutant: the key is not the same for concurrent calls.                     *)
HobbyKeyOfNow(n) == HobbyKey(used)

(* The idempotency key of ensureHobbySubscription                            *)
EnsureHobbyKey(n) == HobbyKey(n)

RecCreate(p) ==
    /\ At(p, "recCreate")
    /\ CreateSub(EnsureHobbyKey(proc[p].n), NewSub("hobby", "active", "hobby"))
    /\ proc' = ToSync(p)
    /\ UNCHANGED <<rowVars, left>>

Reconcile(p) == RecList(p) \/ RecCancel(p) \/ RecFresh(p) \/ RecCreate(p)

-----------------------------------------------------------------------------
(* createProTrialSubscription                                                *)

(* Mutant: nobody asks whether there was a trial.                            *)
TrialUsedUnchecked == FALSE

(* A subscription with a trial_start, of this or another customer of the     *)
(* email.                                                                    *)
TrialUsed == \E i \in 1..used : subs[i].born = "trial"

TrialCheck(p) ==
    /\ At(p, "trialCheck")
    /\ IF TrialUsed THEN Throw(p) /\ UNCHANGED left
       ELSE Goto(p, "trialCreate") /\ Quietly

TrialCreate(p) ==
    /\ At(p, "trialCreate")
    /\ CreateSub(TrialKey, NewSub("pro", "trialing", "trial"))
    /\ Goto(p, "recList")
    /\ UNCHANGED <<rowVars, left>>

StartTrial(p) == TrialCheck(p) \/ TrialCreate(p)
=============================================================================
