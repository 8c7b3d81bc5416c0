------------------------------ MODULE MCLicense ------------------------------
(* Two web processes with pages, a recheck on the first, two evaluations at *)
(* a time.  A fetch and the grace outlive two ticks, a result in memory, a  *)
(* failed fetch and a lock one, a call of the cache none: an answer of      *)
(* before a renewal, and a fetch that is evaluated again, are still there   *)
(* when the clock has moved on, and the clock runs past Life.              *)
EXTENDS License

CONSTANTS p1, p2
MCProcs == {p1, p2}
MCTasks == {<<p1, "page">>, <<p2, "page">>, <<p1, "recheck">>}
===============================================================================
