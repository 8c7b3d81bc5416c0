------------------------------- MODULE License -------------------------------
(***************************************************************************)
(* The enterprise licence check of a self-hosted installation: several     *)
(* web processes, each with its one-minute memory of the last result,      *)
(* share the result of the last fetch, the previous confirmed result and a *)
(* fetch lock in Redis.  A process evaluates the licence for its pages     *)
(* (getEnterpriseLicense, one evaluation at a time) and for the owner's    *)
(* recheck (recheckLicenseAction); both end in computeLicenseState.        *)
(***************************************************************************)
EXTENDS RedisCache, Integers, FiniteSets

CONSTANTS Procs,
          Tasks,     \* the evaluations of the processes
          MemTTL,    \* MEMORY_CACHE_TTL_MS, one minute
          LockTTL,   \* LICENSE_FETCH_LOCK_TTL_MS, 90 seconds
          FailTTL,   \* FAILED_FETCH_TTL_MS, ten minutes
          FetchTTL,  \* FETCH_LICENSE_TTL_MS, 24 hours
          Grace,     \* GRACE_PERIOD_MS, three days
          PrevTTL,   \* PREVIOUS_RESULT_TTL_MS, four days
          Refresh,   \* age from which an active previous result is rewritten
          MaxCall,   \* longest stretch of cache calls between two steps
          MaxEvents, \* bound: changes of the server, restarts and rechecks,
                     \* with the failed calls of the cache before them
          MaxBusy    \* bound: evaluations under way at a time

Kinds == {"page", "recheck"}
ASSUME TasksAssumption == Tasks \subseteq Procs \X Kinds

ASSUME TimesAssumption ==
    /\ {LockTTL, FailTTL, PrevTTL, Refresh, MaxCall, MaxEvents, MaxBusy} \subseteq Nat
    /\ {MemTTL, FetchTTL, Grace} \subseteq Nat \ {0}
    /\ Grace < PrevTTL        \* validateConfig
    /\ FailTTL <= FetchTTL

VARIABLES server,    \* what the licence server would answer now
          events,    \* how many changes, restarts and rechecks there were
          fetched,   \* FETCH_LICENSE_CACHE_KEY
          previous,  \* PREVIOUS_RESULT_CACHE_KEY
          lock,      \* FETCH_LOCK_CACHE_KEY
          mem,       \* memoryCache of each process
          task,      \* the evaluations under way
          \* history
          confirmed, \* when the server last answered "active"
          activeFrom,\* since when the server answers "active", if it does
          earned,    \* lastChecked of the last active previous result saved
          raced      \* an evaluation that had found none was about to give up then

store == <<fetched, previous, lock>>
history == <<confirmed, activeFrom, earned, raced>>
vars == <<now, faults, server, events, store, mem, task, history>>

Answers == {"active", "expired", "invalid", "unreachable"}
PCs == {"idle", "get", "lock", "poll", "del", "fetch", "put", "prev", "save", "fail"}
Timed == {"put", "prev", "save", "fail"}

Idle == [pc |-> "idle", ans |-> "unreachable", keep |-> FALSE, at |-> 0]
NoResult == [status |-> "none", at |-> 0]
Inactive == [active |-> FALSE, checked |-> 0]
NoAnswer == Absent("unreachable")
NoPrevious == Absent(Inactive)
NoLock == Absent("1")

(* How long after a confirmation it may still be evaluated, and shown.  A   *)
(* limit of n units holds for n - 1 of them: each test is strict.          *)
Cached == MaxCall + FetchTTL - 1
Life == Cached + (Grace - 1) + MaxCall + (MemTTL - 1)
Never == 0 - (Life + 1)

Result(status) == [status |-> status, at |-> now]
Fresh(p) == mem[p].status # "none"
ShowsActive(p) == mem[p].status \in {"live", "grace"}

Init ==
    /\ now = 1 /\ faults = 0 /\ events = 0
    /\ server \in Answers
    /\ fetched = NoAnswer /\ previous = NoPrevious /\ lock = NoLock
    /\ mem = [p \in Procs |-> NoResult]
    /\ task = [t \in Tasks |-> Idle]
    /\ confirmed = Never /\ activeFrom = 1
    /\ earned = Never /\ raced = FALSE
-------------------------------------------------------------------------------
Happens == events + faults < MaxEvents /\ events' = events + 1
Begins == Cardinality({t \in Tasks : task[t].pc # "idle"}) < MaxBusy

Goes(t, pc) == task' = [task EXCEPT ![t].pc = pc]

(* The details are at hand: computeLicenseState takes the current time. *)
Computes(t, ans) ==
    task' = [task EXCEPT ![t] =
               [pc |-> "prev", ans |-> ans, keep |-> FALSE, at |-> now]]

(* getEnterpriseLicense when the memory of the process does not answer.  A  *)
(* request that finds an evaluation under way waits for it.                *)
Ask(p) ==
    /\ <<p, "page">> \in Tasks /\ task[<<p, "page">>].pc = "idle" /\ ~Fresh(p)
    /\ Begins /\ Goes(<<p, "page">>, "get")
    /\ UNCHANGED <<now, faults, server, events, store, mem, history>>

(* fetchLicense, first look into the cache *)
GetCached(t) ==
    /\ task[t].pc = "get"
    /\ \/ Hits(fetched) /\ Computes(t, fetched.val)
       \/ Misses(fetched) /\ Goes(t, "lock")
    /\ UNCHANGED <<now, server, events, store, mem, history>>

(* Only the holder of the lock should fetch; without Redis everyone does,   *)
(* and stores nothing.                                                     *)
TakeLock(t) ==
    /\ task[t].pc = "lock"
    /\ \/ /\ Locks(lock, lock', LockTTL)
          /\ task' = [task EXCEPT ![t].pc = "fetch", ![t].keep = TRUE]
       \/ LockHeld(lock, lock') /\ Goes(t, "poll")
       \/ /\ LockFails(lock, lock', LockTTL)
          /\ task' = [task EXCEPT ![t].pc = "fetch", ![t].keep = FALSE]
    /\ UNCHANGED <<now, server, events, fetched, previous, mem, history>>

(* Two seconds of looks for the holder's result, then a fetch of one's own: *)
(* the holder may wait five seconds and more for its answer.               *)
Poll(t) ==
    /\ task[t].pc = "poll"
    /\ \/ Hits(fetched) /\ Computes(t, fetched.val)
       \/ Works /\ task' = [task EXCEPT ![t].pc = "fetch", ![t].keep = TRUE]
    /\ UNCHANGED <<now, server, events, store, mem, history>>

(* recheckLicenseAction: clearLicenseCache, then fetchLicenseFresh *)
Recheck(p) ==
    /\ <<p, "recheck">> \in Tasks /\ task[<<p, "recheck">>].pc = "idle"
    /\ mem' = [mem EXCEPT ![p] = NoResult]
    /\ Begins /\ Goes(<<p, "recheck">>, "del") /\ Happens
    /\ UNCHANGED <<now, faults, server, store, history>>

(* Mutant: the recheck clears the previous result, too. *)
ClearAll(t) ==
    /\ task[t].pc = "del"
    /\ Puts(fetched, fetched', NoAnswer)
    /\ previous' = NoPrevious
    /\ task' = [task EXCEPT ![t].pc = "fetch", ![t].keep = TRUE]
    /\ UNCHANGED <<now, server, events, lock, mem, history>>

ClearFetched(t) ==
    /\ task[t].pc = "del"
    /\ Puts(fetched, fetched', NoAnswer)
    /\ task' = [task EXCEPT ![t].pc = "fetch", ![t].keep = TRUE]
    /\ UNCHANGED <<now, server, events, previous, lock, mem, history>>
-------------------------------------------------------------------------------
(* The server answers.  A refused key (400, 403) is an error that skips     *)
(* everything else: a page remembers it in memory, a recheck returns it.   *)
Answer(t) ==
    /\ task[t].pc = "fetch" /\ server # "invalid"
    /\ task' = [task EXCEPT ![t] =
                   [pc |-> IF task[t].keep THEN "put" ELSE "prev",
                    ans |-> server, keep |-> FALSE, at |-> now]]
    /\ confirmed' = IF server = "active" THEN now ELSE confirmed
    /\ UNCHANGED <<now, faults, server, events, store, mem, activeFrom, earned, raced>>

Refuse(t) ==
    /\ task[t].pc = "fetch" /\ server = "invalid"
    /\ task' = [task EXCEPT ![t] = Idle]
    /\ mem' = IF t[2] = "page" THEN [mem EXCEPT ![t[1]] = Result("invalid")] ELSE mem
    /\ UNCHANGED <<now, faults, server, events, store, history>>

(* Mutant: fetched results are kept as long as the previous one. *)
LongTtl(ans) == PrevTTL

Ttl(ans) == IF ans = "unreachable" THEN FailTTL ELSE FetchTTL

(* The answer is cached, whatever was cached meanwhile.  A recheck then     *)
(* empties the memory of its process again (computeFreshLicenseState).     *)
PutFetched(t) ==
    /\ task[t].pc = "put"
    /\ Puts(fetched, fetched', Entry(task[t].ans, Ttl(task[t].ans)))
    /\ Computes(t, task[t].ans)
    /\ mem' = IF t[2] = "recheck" THEN [mem EXCEPT ![t[1]] = NoResult] ELSE mem
    /\ UNCHANGED <<now, server, events, previous, lock, history>>
-------------------------------------------------------------------------------
InGrace(prev, time) == prev.active /\ time < prev.checked + Grace
Renews(prev, time) == ~prev.active \/ time - prev.checked > Refresh

(* Mutant: any answer of the server is saved as the previous result. *)
BranchSavingExpired(ans, prev, time) ==
    CASE ans # "unreachable" -> IF Renews(prev, time) THEN "save" ELSE "idle"
      [] ans = "unreachable" /\ InGrace(prev, time) -> "idle"
      [] OTHER -> "fail"

(* getFallbackLevel and the branch it selects, for an answer, the previous  *)
(* result as read and the time taken before the read: where the evaluation *)
(* goes next, "idle" when it is over.                                      *)
Branch(ans, prev, time) ==
    CASE ans = "active" -> IF Renews(prev, time) THEN "save" ELSE "idle"
      [] ans # "active" /\ InGrace(prev, time) -> "idle"
      [] ans = "expired" /\ ~InGrace(prev, time) -> "idle"
      [] OTHER -> "fail"

Status(ans, prev, time) ==
    CASE ans = "active" -> "live"
      [] ans # "active" /\ InGrace(prev, time) -> "grace"
      [] OTHER -> ans

(* getPreviousResult: the evaluations of a process share one read.  Without *)
(* an entry, or without Redis, there was no active licence.                *)
Evaluate(p, prev) ==
    LET waiting == {t \in Tasks : t[1] = p /\ task[t].pc = "prev"}
        Goal(t) == Branch(task[t].ans, prev, task[t].at)
        over == {t \in waiting : Goal(t) = "idle"}
    IN /\ waiting # {}
       /\ task' = [t \in Tasks |->
                     IF t \in over THEN Idle
                     ELSE IF t \in waiting THEN [task[t] EXCEPT !.pc = Goal(t)]
                     ELSE task[t]]
       /\ IF over = {} THEN mem' = mem
          ELSE \E t \in over :
                 mem' = [mem EXCEPT ![p] = Result(Status(task[t].ans, prev, task[t].at))]

ReadPrevious(p) ==
    /\ \/ Hits(previous) /\ Evaluate(p, previous.val)
       \/ Misses(previous) /\ Evaluate(p, Inactive)
    /\ UNCHANGED <<now, server, events, store, history>>

(* setPreviousResult with the confirmed licence *)
SavePrevious(t) ==
    /\ task[t].pc = "save"
    /\ Puts(previous, previous', Entry([active |-> TRUE, checked |-> task[t].at], PrevTTL))
    /\ mem' = [mem EXCEPT ![t[1]] = Result("live")]
    /\ task' = [task EXCEPT ![t] = Idle]
    /\ earned' = task[t].at
    /\ raced' = \E u \in Tasks : task[u].pc = "fail"
    /\ UNCHANGED <<now, server, events, fetched, lock, confirmed, activeFrom>>

(* handleInitialFailure: nothing confirmed, and remembered as such *)
FailInitially(t) ==
    /\ task[t].pc = "fail"
    /\ Puts(previous, previous', Entry([active |-> FALSE, checked |-> task[t].at], PrevTTL))
    /\ mem' = [mem EXCEPT ![t[1]] = Result("unreachable")]
    /\ task' = [task EXCEPT ![t] = Idle]
    /\ UNCHANGED <<now, server, events, fetched, lock, history>>
-------------------------------------------------------------------------------
(* A process restarts: its memory and its evaluations are gone. *)
Restart(p) ==
    /\ Happens
    /\ mem' = [mem EXCEPT ![p] = NoResult]
    /\ task' = [t \in Tasks |-> IF t[1] = p THEN Idle ELSE task[t]]
    /\ UNCHANGED <<now, faults, server, store, history>>

(* The subscription is renewed, ends, moves; the network fails or heals. *)
ServerTurns(answer) ==
    /\ Happens
    /\ answer # server /\ server' = answer
    /\ activeFrom' = IF answer = "active" THEN now ELSE 0
    /\ UNCHANGED <<now, faults, store, mem, task, confirmed, earned, raced>>

(* Mutant: the memory of a process is read whatever its age. *)
RemembersAlways(p) == TRUE

Remembers(p) == now + 1 < mem[p].at + MemTTL

(* Time passes: Redis drops what has expired, a process never reads its     *)
(* memory after a minute, calls of the cache end within their timeout.     *)
Tick ==
    /\ now < MaxTime /\ now' = now + 1
    /\ \A t \in Tasks : task[t].pc \in Timed => now < task[t].at + MaxCall
    /\ fetched' = Aged(fetched, NoAnswer)
    /\ previous' = Aged(previous, NoPrevious)
    /\ lock' = Aged(lock, NoLock)
    /\ mem' = [p \in Procs |-> IF Remembers(p) THEN mem[p] ELSE NoResult]
    /\ UNCHANGED <<faults, server, events, task, history>>

Next ==
    \/ \E p \in Procs : Ask(p) \/ Recheck(p) \/ ReadPrevious(p) \/ Restart(p)
    \/ \E t \in Tasks : \/ GetCached(t) \/ TakeLock(t) \/ Poll(t) \/ ClearFetched(t)
                        \/ Answer(t) \/ Refuse(t) \/ PutFetched(t)
                        \/ SavePrevious(t) \/ FailInitially(t)
    \/ \E answer \in Answers : ServerTurns(answer)
    \/ Tick

Spec == Init /\ [][Next]_vars
-------------------------------------------------------------------------------
TaskSet == [pc : PCs, ans : Answers \ {"invalid"}, keep : BOOLEAN, at : Nat]
PreviousSet == [active : BOOLEAN, checked : Nat]

Statuses == {"none", "live", "grace"} \cup (Answers \ {"active"})

MemTyped ==
    /\ mem \in [Procs -> [status : Statuses, at : Nat]]
    /\ \A p \in Procs : mem[p].at <= now

TasksTyped ==
    /\ task \in [Tasks -> TaskSet]
    /\ \A t \in Tasks : task[t].at <= now /\ (task[t].pc = "save" => task[t].ans = "active")

(* Every variable has its type, no time is ahead of the clock, and only an  *)
(* evaluation with a confirmed licence saves it as the previous result.    *)
TypeOK ==
    /\ now \in Nat /\ faults \in Nat /\ events \in Nat
    /\ server \in Answers
    /\ fetched \in [val : Answers \ {"invalid"}, until : Nat]
    /\ previous \in [val : PreviousSet, until : Nat]
    /\ lock \in [val : {"1"}, until : Nat]
    /\ confirmed \in Int /\ activeFrom \in Nat /\ earned \in Int /\ raced \in BOOLEAN
    /\ MemTyped /\ TasksTyped

(* GraceBound: whatever fails, races or restarts, no page is given the paid *)
(* features longer than Life after the server last confirmed the licence:  *)
(* a fetch is reused for 24 hours, the evaluation of a reused fetch starts *)
(* the three days of grace anew, and the last result is remembered for a   *)
(* minute.  (lastChecked is the time of the evaluation, not of the         *)
(* server's answer, so the grace is close to four days, not three.)        *)
GraceBound == \A p \in Procs : Fresh(p) /\ ShowsActive(p) => now <= confirmed + Life

(* GraceHeld: an installation that once saved a confirmed licence is not    *)
(* downgraded as "unreachable" before the grace period has passed, however *)
(* its processes interleave and restart and however often the owner        *)
(* rechecks; provided that no call of Redis failed and that no evaluation  *)
(* of another process was giving up when the confirmation was saved.       *)
GraceHeld ==
    [][\A p \in Procs :
         (mem'[p] # mem[p] /\ mem'[p].status = "unreachable") =>
            \/ earned = Never \/ now >= earned + Grace
            \/ raced \/ faults' > 0]_vars

(* RenewalShows: once the server has been answering "active" for a day, the *)
(* time of a few calls and a minute, every page gets the paid features: no *)
(* older answer, late writer or failed call of the cache outlives that.    *)
RenewalShows ==
    server = "active" /\ now > activeFrom + Cached + MaxCall + (MemTTL - 1)
      => \A p \in Procs : Fresh(p) => ShowsActive(p)
===============================================================================
