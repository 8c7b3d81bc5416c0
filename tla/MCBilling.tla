------------------------------ MODULE MCBilling -----------------------------
(* Instances of Billing for TLC: one webhook handler, one page and two       *)
(* admins over the customers below, each with its own bounds.                *)
EXTENDS Billing

CONSTANTS h1, g1, a1, a2

TheHook == {h1}
ThePage == {g1}
TwoAdmins == {a1, a2}

NewCustomer == [env |-> 0, ops |-> 1, acts |-> Acts, fails |-> 0, pages |-> TRUE,
                card |-> TRUE, start |-> NoSub]
Pro == NewSub("pro", "active", "checkout")
Trial == NewSub("pro", "trialing", "trial")

(* Two admins at once; the end of a trial; one action beside pages.          *)
Starts ==
    {[NewCustomer EXCEPT !.ops = 2, !.acts = {"trial", "hobby"}, !.pages = FALSE],
     [NewCustomer EXCEPT !.env = 1, !.acts = {"trial"}, !.pages = FALSE, !.card = FALSE],
     NewCustomer}

(* A change of plan that may fail, of a subscription in each of its states;  *)
(* a change at the service beside it, or beside pages.                       *)
Changing == [NewCustomer EXCEPT !.acts = {"switch", "undo"}, !.fails = 1, !.pages = FALSE]
Changes ==
    {[Changing EXCEPT !.start = s] :
        s \in {[Pro EXCEPT !.ends = TRUE], [Pro EXCEPT !.sched = "hobby"]}}
    \cup {[Changing EXCEPT !.fails = 0, !.start = s] :
        s \in {Trial, [Trial EXCEPT !.sched = "hobby", !.ends = TRUE]}}
    \cup {[Changing EXCEPT !.start = Pro, !.env = 1],
          [NewCustomer EXCEPT !.start = Pro, !.env = 1, !.ops = 0]}

Customers == Starts \cup Changes
Failing == {[Changing EXCEPT !.start = [Pro EXCEPT !.ends = TRUE]]}
=============================================================================
