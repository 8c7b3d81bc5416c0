---------------------------- MODULE RunContract -----------------------------
(***************************************************************************)
(* What the workflow runner promises of a run, whatever carries it out: it   *)
(* is created once, decided once, and while it is being carried out the      *)
(* e-mails of its steps go out in order, each at most once; a run counts as  *)
(* completed only if every one of them went out.                             *)
(***************************************************************************)
EXTENDS Naturals

CONSTANTS Runs, NumSteps

VARIABLES
    status,   \* the run's status
    emails    \* messages sent, per run and step

vars == <<status, emails>>

Steps == 1..NumSteps

Init ==
    /\ status = [r \in Runs |-> "none"]
    /\ emails = [r \in Runs |-> [s \in Steps |-> 0]]

Become(r, from, to) ==
    /\ status[r] \in from
    /\ status' = [status EXCEPT ![r] = to]
    /\ UNCHANGED emails

Create(r) == Become(r, {"none"}, "queued")
Start(r) == Become(r, {"queued"}, "running")
Fail(r) == Become(r, {"queued", "running"}, "failed")
Delete(r) == Become(r, {"queued", "running", "completed", "failed", "canceled"}, "deleted")

Complete(r) ==
    /\ \A s \in Steps : emails[r][s] = 1
    /\ Become(r, {"running"}, "completed")

(* A send that was under way when the run was failed or deleted still lands. *)
Send(r, s) ==
    /\ status[r] \notin {"none", "queued"}
    /\ emails[r][s] = 0
    /\ \A t \in 1..(s - 1) : emails[r][t] = 1
    /\ emails' = [emails EXCEPT ![r][s] = 1]
    /\ UNCHANGED status

Next ==
    \E r \in Runs :
        \/ Create(r) \/ Start(r) \/ Fail(r) \/ Delete(r) \/ Complete(r)
        \/ \E s \in Steps : Send(r, s)

Spec == Init /\ [][Next]_vars
=============================================================================
