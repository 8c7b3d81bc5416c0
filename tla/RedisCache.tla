------------------------------ MODULE RedisCache ------------------------------
(***************************************************************************)
(* The cache service of packages/cache: a Redis entry is a value with the  *)
(* instant it expires at, and every call of the service either works or    *)
(* reports an error (the client is not ready, the command fails or takes   *)
(* more than a second).  A write that reports an error may have been       *)
(* carried out all the same.                                               *)
(***************************************************************************)
EXTENDS Naturals

CONSTANTS MaxTime,    \* bound: the clock stops there
          MaxFaults   \* bound: calls of the cache that report an error

ASSUME BoundsAssumption == MaxTime \in Nat /\ MaxFaults \in Nat

VARIABLES now, faults

Works == UNCHANGED faults
Fails == faults < MaxFaults /\ faults' = faults + 1

Entry(v, ttl) == [val |-> v, until |-> now + ttl]
Absent(v) == [val |-> v, until |-> 0]
Live(e) == now < e.until

(* an entry one tick later *)
Aged(e, absent) == IF now + 1 < e.until THEN e ELSE absent

(* get: the value v of entry e, or nothing when it is absent or expired *)
Hits(e) == Works /\ Live(e)
Misses(e) == \/ Works /\ ~Live(e)
             \/ Fails

(* set and del: entry e becomes f, and if the call fails perhaps not *)
Puts(e, next, f) == \/ Works /\ next = f
                    \/ Fails /\ next \in {e, f}

(* tryLock: SET NX PX, atomic *)
Locks(e, next, ttl) == Works /\ ~Live(e) /\ next = Entry("1", ttl)
LockHeld(e, next) == Works /\ Live(e) /\ next = e
LockFails(e, next, ttl) ==
    Fails /\ next \in {e} \cup {f \in {Entry("1", ttl)} : ~Live(e)}
===============================================================================
