---------------------------- MODULE LicenseProofs -----------------------------
(***************************************************************************)
(* How long a confirmed licence answers, how long its grace holds and when *)
(* a renewal shows, for any processes, limits, clock and faults.           *)
(***************************************************************************)
EXTENDS License, TLAPS

-------------------------------------------------------------------------------
(* The limits as numbers                                                      *)

LEMMA Limits ==
    /\ MemTTL \in Nat /\ LockTTL \in Nat /\ FailTTL \in Nat /\ FetchTTL \in Nat
    /\ Grace \in Nat /\ PrevTTL \in Nat /\ Refresh \in Nat /\ MaxCall \in Nat
    /\ MemTTL > 0 /\ FetchTTL > 0 /\ Grace > 0
    /\ MaxEvents \in Nat /\ Grace < PrevTTL /\ FailTTL <= FetchTTL
    /\ MaxTime \in Nat /\ MaxFaults \in Nat
    /\ Cached \in Nat /\ Life \in Nat /\ Never \in Int
<1>1. /\ LockTTL \in Nat /\ FailTTL \in Nat /\ PrevTTL \in Nat /\ Refresh \in Nat
      /\ MaxCall \in Nat /\ MaxEvents \in Nat
  BY TimesAssumption
<1>2. MemTTL \in Nat \ {0} /\ FetchTTL \in Nat \ {0} /\ Grace \in Nat \ {0}
  BY TimesAssumption
<1>3. Cached \in Nat /\ Life \in Nat /\ Never \in Int
  BY <1>1, <1>2 DEF Cached, Life, Never
<1> QED BY <1>1, <1>2, <1>3, TimesAssumption, BoundsAssumption

-------------------------------------------------------------------------------
(* What the calls of the cache and the branches of the evaluation return      *)

LEMMA TtlTyped == ASSUME NEW ans \in Answers PROVE Ttl(ans) \in Nat /\ Ttl(ans) <= FetchTTL
  BY Limits DEF Ttl, Answers

LEMMA BranchTyped ==
    ASSUME NEW ans \in Answers \ {"invalid"}, NEW prev \in PreviousSet, NEW time \in Nat
    PROVE  /\ Branch(ans, prev, time) \in {"save", "fail", "idle"}
           /\ Branch(ans, prev, time) = "save" => ans = "active"
           /\ Branch(ans, prev, time) = "fail" =>
                ans = "unreachable" /\ ~InGrace(prev, time)
           /\ Status(ans, prev, time) \in {"live", "grace", "expired", "unreachable"}
           /\ Status(ans, prev, time) = "live" => ans = "active"
           /\ Status(ans, prev, time) = "grace" => InGrace(prev, time)
           /\ ans = "active" => Status(ans, prev, time) = "live"
           /\ Status(ans, prev, time) = "unreachable" => Branch(ans, prev, time) = "fail"
<1>1. InGrace(prev, time) \in BOOLEAN /\ Renews(prev, time) \in BOOLEAN
  BY DEF InGrace, Renews, PreviousSet
<1>2. CASE ans = "active"
  BY <1>1, <1>2 DEF Branch, Status
<1>3. CASE ans = "expired"
  BY <1>1, <1>3 DEF Branch, Status
<1>4. CASE ans = "unreachable"
  BY <1>1, <1>4 DEF Branch, Status
<1> QED BY <1>2, <1>3, <1>4 DEF Answers

(* A step of the evaluations of process p after they read prev: those over   *)
(* are idle, the others go on, and one of those over fills the memory.       *)
LEMMA EvaluateStep ==
    ASSUME NEW p \in Procs, NEW prev \in PreviousSet, TypeOK, Evaluate(p, prev)
    PROVE  /\ task' \in [Tasks -> TaskSet]
           /\ \A t \in Tasks :
                \/ task'[t] = task[t]
                \/ task'[t] = Idle
                \/ /\ task[t].pc = "prev" /\ t[1] = p
                   /\ task'[t] = [task[t] EXCEPT !.pc = Branch(task[t].ans, prev, task[t].at)]
                   /\ task'[t].pc \in {"save", "fail"}
           /\ \/ mem' = mem
              \/ \E t \in Tasks :
                   /\ t[1] = p /\ task[t].pc = "prev"
                   /\ Branch(task[t].ans, prev, task[t].at) = "idle"
                   /\ mem' = [mem EXCEPT ![p] =
                                Result(Status(task[t].ans, prev, task[t].at))]
<1> DEFINE waiting == {t \in Tasks : t[1] = p /\ task[t].pc = "prev"}
           Goal(t) == Branch(task[t].ans, prev, task[t].at)
           over == {t \in waiting : Goal(t) = "idle"}
<1>1. task' = [t \in Tasks |->
                 IF t \in over THEN Idle
                 ELSE IF t \in waiting THEN [task[t] EXCEPT !.pc = Goal(t)]
                 ELSE task[t]]
  BY DEF Evaluate
<1>2. \/ mem' = mem
      \/ \E t \in over : mem' = [mem EXCEPT ![p] = Result(Status(task[t].ans, prev, task[t].at))]
  BY DEF Evaluate
<1>3. \A t \in Tasks : task[t] \in TaskSet
  BY DEF TypeOK, TasksTyped
<1>4. \A t \in Tasks : Goal(t) \in {"save", "fail", "idle"}
  <2> TAKE t \in Tasks
  <2>1. task[t].ans \in Answers \ {"invalid"} /\ task[t].at \in Nat
    BY <1>3 DEF TaskSet
  <2> QED BY <2>1, BranchTyped
<1>5. Idle \in TaskSet
  BY DEF Idle, TaskSet, PCs, Answers
<1>6. \A t \in Tasks : t \in waiting /\ t \notin over =>
        [task[t] EXCEPT !.pc = Goal(t)] \in TaskSet
  <2> TAKE t \in Tasks
  <2> HIDE DEF Goal
  <2> QED BY <1>3, <1>4 DEF TaskSet, PCs
<1>7. task' \in [Tasks -> TaskSet]
  <2> HIDE DEF Goal
  <2> QED BY <1>1, <1>3, <1>5, <1>6
<1>8. \A t \in Tasks :
         \/ task'[t] = task[t]
         \/ task'[t] = Idle
         \/ /\ task[t].pc = "prev" /\ t[1] = p
            /\ task'[t] = [task[t] EXCEPT !.pc = Goal(t)]
            /\ task'[t].pc \in {"save", "fail"}
  <2> TAKE t \in Tasks
  <2>1. CASE t \in over
    BY <1>1, <2>1
  <2>2. CASE t \in waiting /\ t \notin over
    <3>1. Goal(t) \in {"save", "fail"}
      BY <1>4, <2>2
    <3>2. task'[t] = [task[t] EXCEPT !.pc = Goal(t)]
      BY <1>1, <2>2
    <3> HIDE DEF Goal
    <3>3. task'[t].pc = Goal(t)
      BY <3>2, <1>3 DEF TaskSet
    <3> QED BY <2>2, <3>1, <3>2, <3>3
  <2>3. CASE t \notin waiting
    BY <1>1, <2>3
  <2> QED BY <2>1, <2>2, <2>3
<1> QED BY <1>2, <1>7, <1>8
-------------------------------------------------------------------------------
(* Types                                                                      *)

LEMMA TaskUpdate ==
    ASSUME TypeOK, now' = now, NEW t \in Tasks, NEW r \in TaskSet, r.at <= now,
           r.pc = "save" => r.ans = "active", task' = [task EXCEPT ![t] = r]
    PROVE  TasksTyped'
  BY DEF TypeOK, TasksTyped

LEMMA MemUpdate ==
    ASSUME TypeOK, now' = now, NEW p \in Procs, NEW s \in Statuses,
           \/ mem' = [mem EXCEPT ![p] = Result(s)]
           \/ mem' = [mem EXCEPT ![p] = NoResult]
           \/ mem' = mem
    PROVE  MemTyped'
<1>1. ASSUME NEW r \in [status : Statuses, at : Nat], r.at <= now, mem' = [mem EXCEPT ![p] = r]
      PROVE  MemTyped'
  BY <1>1 DEF TypeOK, MemTyped, Statuses
<1>2. Result(s) \in [status : Statuses, at : Nat] /\ Result(s).at <= now
  BY DEF Result, TypeOK
<1>3. NoResult \in [status : Statuses, at : Nat] /\ NoResult.at <= now
  BY DEF NoResult, TypeOK, Statuses
<1>4. CASE mem' = mem
  BY <1>4 DEF TypeOK, MemTyped, Statuses
<1> QED BY <1>1, <1>2, <1>3, <1>4

LEMMA TaskTyped ==
    ASSUME TypeOK, NEW t \in Tasks
    PROVE  /\ task[t] \in TaskSet /\ t[1] \in Procs /\ task[t].at \in Nat
           /\ task[t].ans \in Answers \ {"invalid"} /\ task[t].at <= now
  BY TasksAssumption DEF TypeOK, TasksTyped, TaskSet

LEMMA IdleTyped == Idle \in TaskSet /\ Idle.at = 0 /\ Idle.pc = "idle"
  BY DEF Idle, TaskSet, PCs, Answers

LEMMA InitTyped == Init => TypeOK
<1> SUFFICES ASSUME Init PROVE TypeOK
  OBVIOUS
<1>1. MemTyped
  BY DEF Init, MemTyped, NoResult, Statuses
<1>2. TasksTyped
  BY IdleTyped DEF Init, TasksTyped
<1>3. /\ fetched \in [val : Answers \ {"invalid"}, until : Nat]
      /\ previous \in [val : PreviousSet, until : Nat]
      /\ lock \in [val : {"1"}, until : Nat]
  BY DEF Init, NoAnswer, NoPrevious, NoLock, Absent, Inactive, PreviousSet, Answers
<1> QED BY <1>1, <1>2, <1>3, Limits DEF TypeOK, Init

LEMMA NextTyped == TypeOK /\ [Next]_vars => TypeOK'
<1> SUFFICES ASSUME TypeOK, [Next]_vars PROVE TypeOK'
  OBVIOUS
<1> USE Limits
<1>0. /\ now \in Nat /\ faults \in Nat /\ events \in Nat /\ server \in Answers
      /\ fetched \in [val : Answers \ {"invalid"}, until : Nat]
      /\ previous \in [val : PreviousSet, until : Nat]
      /\ lock \in [val : {"1"}, until : Nat]
      /\ confirmed \in Int /\ activeFrom \in Nat /\ earned \in Int /\ raced \in BOOLEAN
      /\ MemTyped /\ TasksTyped
  BY DEF TypeOK
<1>1. ASSUME NEW p \in Procs, Ask(p) PROVE TypeOK'
  <2> DEFINE t == <<p, "page">>
  <2>1. t \in Tasks /\ [task[t] EXCEPT !.pc = "get"] \in TaskSet
    BY <1>1, TaskTyped DEF Ask, TaskSet, PCs
  <2>2. task' = [task EXCEPT ![t] = [task[t] EXCEPT !.pc = "get"]]
    BY <1>1 DEF Ask, Goes
  <2>3. TasksTyped'
    <3> HIDE DEF t
    <3>1. [task[t] EXCEPT !.pc = "get"].at <= now /\ [task[t] EXCEPT !.pc = "get"].pc # "save"
      BY <2>1, TaskTyped DEF TaskSet
    <3> DEFINE r == [task[t] EXCEPT !.pc = "get"]
    <3> HIDE DEF r
    <3> QED BY <1>1, <2>1, <2>2, <3>1, TaskUpdate DEF Ask, r
  <2>4. MemTyped'
    BY <1>0, <1>1 DEF Ask, MemTyped
  <2> QED BY <1>0, <1>1, <2>3, <2>4 DEF TypeOK, Ask, store, history
<1>2. ASSUME NEW p \in Procs, Recheck(p) PROVE TypeOK'
  <2> DEFINE t == <<p, "recheck">>
  <2>1. t \in Tasks /\ [task[t] EXCEPT !.pc = "del"] \in TaskSet
    BY <1>2, TaskTyped DEF Recheck, TaskSet, PCs
  <2>2. task' = [task EXCEPT ![t] = [task[t] EXCEPT !.pc = "del"]]
    BY <1>2 DEF Recheck, Goes
  <2>3. TasksTyped'
    <3> HIDE DEF t
    <3>1. [task[t] EXCEPT !.pc = "del"].at <= now /\ [task[t] EXCEPT !.pc = "del"].pc # "save"
      BY <2>1, TaskTyped DEF TaskSet
    <3> DEFINE r == [task[t] EXCEPT !.pc = "del"]
    <3> HIDE DEF r
    <3> QED BY <1>2, <2>1, <2>2, <3>1, TaskUpdate DEF Recheck, r
  <2>4. MemTyped'
    BY <1>2, MemUpdate DEF Recheck, Statuses
  <2> QED BY <1>0, <1>2, <2>3, <2>4 DEF TypeOK, Recheck, Happens, store, history
<1>3. ASSUME NEW p \in Procs, ReadPrevious(p) PROVE TypeOK'
  <2>1. PICK prev \in PreviousSet : Evaluate(p, prev)
    BY <1>0, <1>3 DEF ReadPrevious, Inactive, PreviousSet
  <2>2. faults' \in Nat
    BY <1>0, <1>3 DEF ReadPrevious, Hits, Misses, Works, Fails
  <2>3. TasksTyped'
    <3>1. task' \in [Tasks -> TaskSet]
      BY <2>1, EvaluateStep
    <3>2. ASSUME NEW t \in Tasks
          PROVE  task'[t].at <= now /\ (task'[t].pc = "save" => task'[t].ans = "active")
      <4>0. task[t] \in TaskSet /\ task[t].at <= now /\ task[t].at \in Nat
            /\ task[t].ans \in Answers \ {"invalid"}
        BY TaskTyped
      <4>1. CASE task'[t] = task[t]
        BY <4>1 DEF TypeOK, TasksTyped
      <4>2. CASE task'[t] = Idle
        BY <1>0, <4>2, IdleTyped
      <4>3. CASE task'[t] = [task[t] EXCEPT !.pc = Branch(task[t].ans, prev, task[t].at)]
        <5>1. task'[t].at = task[t].at /\ task'[t].ans = task[t].ans
              /\ task'[t].pc = Branch(task[t].ans, prev, task[t].at)
          BY <4>0, <4>3 DEF TaskSet
        <5> QED BY <4>0, <5>1, BranchTyped
      <4> QED BY <2>1, EvaluateStep, <4>1, <4>2, <4>3
    <3> QED BY <1>3, <3>1, <3>2 DEF ReadPrevious, TasksTyped
  <2>4. MemTyped'
    <3>0. now' = now
      BY <1>3 DEF ReadPrevious
    <3>1. CASE mem' = mem
      BY <1>0, <3>0, <3>1 DEF MemTyped
    <3>2. ASSUME NEW t \in Tasks,
                 mem' = [mem EXCEPT ![p] = Result(Status(task[t].ans, prev, task[t].at))]
          PROVE  MemTyped'
      <4>1. Status(task[t].ans, prev, task[t].at) \in Statuses
        BY BranchTyped, TaskTyped DEF Statuses, Answers
      <4> QED BY <3>0, <3>2, <4>1, MemUpdate
    <3> QED BY <2>1, EvaluateStep, <3>1, <3>2
  <2> QED BY <1>0, <1>3, <2>2, <2>3, <2>4 DEF TypeOK, ReadPrevious, store, history
<1>4. ASSUME NEW p \in Procs, Restart(p) PROVE TypeOK'
  <2>1. TasksTyped'
    BY <1>0, <1>4, IdleTyped DEF Restart, TasksTyped
  <2>2. MemTyped'
    BY <1>4, MemUpdate DEF Restart, Statuses
  <2> QED BY <1>0, <1>4, <2>1, <2>2 DEF TypeOK, Restart, Happens, store, history
<1>5. ASSUME NEW t \in Tasks, (GetCached(t) \/ Poll(t)) PROVE TypeOK'
  <2>1. faults' \in Nat /\ now' = now
    BY <1>0, <1>5 DEF GetCached, Poll, Hits, Misses, Works, Fails
  <2>2. PICK r \in TaskSet : /\ task' = [task EXCEPT ![t] = r]
                             /\ r.at <= now /\ r.pc # "save"
    <3>0. task[t] \in TaskSet /\ task[t].at <= now
      BY TaskTyped
    <3>1. CASE Computes(t, fetched.val)
      <4> DEFINE r == [pc |-> "prev", ans |-> fetched.val, keep |-> FALSE, at |-> now]
      <4>1. r \in TaskSet /\ r.at <= now /\ r.pc # "save"
        BY <1>0 DEF TaskSet, PCs
      <4>2. task' = [task EXCEPT ![t] = r]
        BY <3>1 DEF Computes
      <4> HIDE DEF r
      <4> QED BY <4>1, <4>2
    <3>2. CASE Goes(t, "lock")
      <4>1. [task[t] EXCEPT !.pc = "lock"] \in TaskSet
            /\ [task[t] EXCEPT !.pc = "lock"].at <= now /\ [task[t] EXCEPT !.pc = "lock"].pc # "save"
        BY <3>0 DEF TaskSet, PCs
      <4> QED BY <3>2, <4>1 DEF Goes
    <3>3. CASE task' = [task EXCEPT ![t].pc = "fetch", ![t].keep = TRUE]
      <4> DEFINE r == [task[t] EXCEPT !.pc = "fetch", !.keep = TRUE]
      <4>1. r \in TaskSet /\ r.at <= now /\ r.pc # "save"
        BY <3>0 DEF TaskSet, PCs
      <4>2. task' = [task EXCEPT ![t] = r]
        BY <1>0, <3>3 DEF TasksTyped
      <4> HIDE DEF r
      <4> QED BY <4>1, <4>2
    <3> QED BY <1>5, <3>1, <3>2, <3>3 DEF GetCached, Poll
  <2>3. TasksTyped'
    BY <2>1, <2>2, TaskUpdate
  <2>4. MemTyped'
    BY <1>0, <1>5 DEF GetCached, Poll, MemTyped
  <2> QED BY <1>0, <1>5, <2>1, <2>3, <2>4 DEF TypeOK, GetCached, Poll, store, history
<1>6. ASSUME NEW t \in Tasks, (TakeLock(t) \/ ClearFetched(t)) PROVE TypeOK'
  <2>1. /\ faults' \in Nat /\ now' = now /\ lock' \in [val : {"1"}, until : Nat]
        /\ fetched' \in [val : Answers \ {"invalid"}, until : Nat]
    <3>1. CASE TakeLock(t)
      BY <1>0, <3>1 DEF TakeLock, Locks, LockHeld, LockFails, Works, Fails, Entry
    <3>2. CASE ClearFetched(t)
      BY <1>0, <3>2 DEF ClearFetched, Puts, Works, Fails, NoAnswer, Absent, Answers
    <3> QED BY <1>6, <3>1, <3>2
  <2>2. PICK r \in TaskSet : /\ task' = [task EXCEPT ![t] = r]
                             /\ r.at <= now /\ r.pc # "save"
    <3>0. task[t] \in TaskSet /\ task[t].at <= now
      BY TaskTyped
    <3>2. CASE Goes(t, "poll")
      <4>1. [task[t] EXCEPT !.pc = "poll"] \in TaskSet
            /\ [task[t] EXCEPT !.pc = "poll"].at <= now /\ [task[t] EXCEPT !.pc = "poll"].pc # "save"
        BY <3>0 DEF TaskSet, PCs
      <4> QED BY <3>2, <4>1 DEF Goes
    <3>3. ASSUME NEW keep \in BOOLEAN, task' = [task EXCEPT ![t].pc = "fetch", ![t].keep = keep]
          PROVE  \E r \in TaskSet : /\ task' = [task EXCEPT ![t] = r]
                                    /\ r.at <= now /\ r.pc # "save"
      <4> DEFINE r == [task[t] EXCEPT !.pc = "fetch", !.keep = keep]
      <4>1. r \in TaskSet /\ r.at <= now /\ r.pc # "save"
        BY <3>0 DEF TaskSet, PCs
      <4>2. task' = [task EXCEPT ![t] = r]
        BY <1>0, <3>3 DEF TasksTyped
      <4> HIDE DEF r
      <4> QED BY <4>1, <4>2
    <3> QED BY <1>6, <3>2, <3>3 DEF TakeLock, ClearFetched
  <2>3. TasksTyped'
    BY <2>1, <2>2, TaskUpdate
  <2>4. MemTyped'
    BY <1>0, <1>6 DEF TakeLock, ClearFetched, MemTyped
  <2> QED BY <1>0, <1>6, <2>1, <2>3, <2>4 DEF TypeOK, TakeLock, ClearFetched, history
<1>8. ASSUME NEW t \in Tasks, Answer(t) PROVE TypeOK'
  <2> DEFINE r == [pc |-> IF task[t].keep THEN "put" ELSE "prev",
                   ans |-> server, keep |-> FALSE, at |-> now]
  <2>1. r \in TaskSet /\ r.at <= now /\ r.pc # "save"
    BY <1>0, <1>8 DEF Answer, TaskSet, PCs
  <2>2. task' = [task EXCEPT ![t] = r] /\ now' = now
    BY <1>0, <1>8 DEF Answer, TasksTyped
  <2>3. TasksTyped'
    <3> HIDE DEF r
    <3> QED BY <2>1, <2>2, TaskUpdate
  <2>4. MemTyped'
    BY <1>0, <1>8 DEF Answer, MemTyped
  <2> QED BY <1>0, <1>8, <2>3, <2>4 DEF TypeOK, Answer, store
<1>9. ASSUME NEW t \in Tasks, Refuse(t) PROVE TypeOK'
  <2>1. TasksTyped'
    <3>1. task' = [task EXCEPT ![t] = Idle] /\ now' = now
      BY <1>9 DEF Refuse
    <3>2. Idle.at <= now /\ Idle.pc # "save"
      BY <1>0, IdleTyped
    <3> QED BY <3>1, <3>2, IdleTyped, TaskUpdate
  <2>2. MemTyped'
    <3>1. "invalid" \in Statuses /\ t[1] \in Procs /\ now' = now
      BY <1>9, TaskTyped DEF Refuse, Statuses, Answers
    <3>2. mem' = [mem EXCEPT ![t[1]] = Result("invalid")] \/ mem' = mem
      BY <1>9 DEF Refuse
    <3> QED BY <3>1, <3>2, MemUpdate
  <2> QED BY <1>0, <1>9, <2>1, <2>2 DEF TypeOK, Refuse, store, history
<1>10. ASSUME NEW t \in Tasks, PutFetched(t) PROVE TypeOK'
  <2>1. task[t].ans \in Answers \ {"invalid"} /\ t[1] \in Procs
    BY TaskTyped
  <2>2. faults' \in Nat /\ fetched' \in [val : Answers \ {"invalid"}, until : Nat]
    BY <1>0, <1>10, <2>1, TtlTyped DEF PutFetched, Puts, Works, Fails, Entry
  <2>3. TasksTyped'
    <3> DEFINE r == [pc |-> "prev", ans |-> task[t].ans, keep |-> FALSE, at |-> now]
    <3>1. r \in TaskSet /\ r.at <= now /\ r.pc # "save"
      BY <1>0, <2>1 DEF TaskSet, PCs
    <3>2. task' = [task EXCEPT ![t] = r] /\ now' = now
      BY <1>10 DEF PutFetched, Computes
    <3> HIDE DEF r
    <3> QED BY <3>1, <3>2, TaskUpdate
  <2>4. MemTyped'
    BY <1>10, <2>1, MemUpdate DEF PutFetched, Statuses
  <2> QED BY <1>0, <1>10, <2>2, <2>3, <2>4 DEF TypeOK, PutFetched, history
<1>11. ASSUME NEW t \in Tasks, (SavePrevious(t) \/ FailInitially(t)) PROVE TypeOK'
  <2>1. task[t].at \in Nat /\ t[1] \in Procs /\ now' = now
    BY <1>11, TaskTyped DEF SavePrevious, FailInitially
  <2>2. faults' \in Nat /\ previous' \in [val : PreviousSet, until : Nat]
    <3>1. ASSUME NEW b \in BOOLEAN,
                 Puts(previous, previous', Entry([active |-> b, checked |-> task[t].at], PrevTTL))
          PROVE  <2>2
      <4>1. Entry([active |-> b, checked |-> task[t].at], PrevTTL)
              \in [val : PreviousSet, until : Nat]
        BY <1>0, <2>1 DEF Entry, PreviousSet
      <4> HIDE DEF Entry
      <4> QED BY <1>0, <3>1, <4>1 DEF Puts, Works, Fails
    <3> QED BY <1>11, <3>1 DEF SavePrevious, FailInitially
  <2>3. TasksTyped'
    <3>1. task' = [task EXCEPT ![t] = Idle]
      BY <1>11 DEF SavePrevious, FailInitially
    <3>2. Idle.at <= now /\ Idle.pc # "save"
      BY <1>0, IdleTyped
    <3> QED BY <2>1, <3>1, <3>2, IdleTyped, TaskUpdate
  <2>4. MemTyped'
    <3>1. "live" \in Statuses /\ "unreachable" \in Statuses
      BY DEF Statuses, Answers
    <3>2. mem' = [mem EXCEPT ![t[1]] = Result("live")]
          \/ mem' = [mem EXCEPT ![t[1]] = Result("unreachable")]
      BY <1>11 DEF SavePrevious, FailInitially
    <3> QED BY <2>1, <3>1, <3>2, MemUpdate
  <2>5. earned' \in Int /\ raced' \in BOOLEAN /\ confirmed' \in Int /\ activeFrom' \in Nat
    <3>1. CASE SavePrevious(t)
      BY <1>0, <2>1, <3>1 DEF SavePrevious
    <3>2. CASE FailInitially(t)
      BY <1>0, <3>2 DEF FailInitially, history
    <3> QED BY <1>11, <3>1, <3>2
  <2>6. /\ events' = events /\ server' = server /\ fetched' = fetched /\ lock' = lock
    BY <1>11 DEF SavePrevious, FailInitially
  <2> QED BY <1>0, <2>1, <2>2, <2>3, <2>4, <2>5, <2>6 DEF TypeOK
<1>12. ASSUME NEW answer \in Answers, ServerTurns(answer) PROVE TypeOK'
  <2>1. MemTyped' /\ TasksTyped'
    BY <1>0, <1>12 DEF ServerTurns, MemTyped, TasksTyped
  <2> QED BY <1>0, <1>12, <2>1 DEF TypeOK, ServerTurns, Happens, store
<1>13. CASE Tick
  <2>1. /\ fetched' \in [val : Answers \ {"invalid"}, until : Nat]
        /\ previous' \in [val : PreviousSet, until : Nat]
        /\ lock' \in [val : {"1"}, until : Nat]
    BY <1>0, <1>13 DEF Tick, Aged, NoAnswer, NoPrevious, NoLock, Absent, Inactive, PreviousSet, Answers
  <2>2. MemTyped'
    BY <1>0, <1>13 DEF Tick, MemTyped, NoResult, Statuses
  <2>3. TasksTyped'
    BY <1>0, <1>13, TaskTyped DEF Tick, TasksTyped
  <2> QED BY <1>0, <1>13, <2>1, <2>2, <2>3 DEF TypeOK, Tick, history
<1>14. CASE UNCHANGED vars
  <2>1. MemTyped' /\ TasksTyped'
    BY <1>0, <1>14 DEF vars, MemTyped, TasksTyped
  <2> QED BY <1>0, <1>14, <2>1 DEF TypeOK, vars, store, history
<1> QED BY <1>1, <1>2, <1>3, <1>4, <1>5, <1>6, <1>8, <1>9, <1>10, <1>11, <1>12, <1>13,
           <1>14 DEF Next

(* The licence check keeps its types, and only evaluations with a confirmed  *)
(* licence go on to save it.                                                 *)
THEOREM TypeCorrect == Spec => []TypeOK
  BY InitTyped, NextTyped, PTL DEF Spec
-------------------------------------------------------------------------------
(* How old what is known may be.  An answer counts against confirmed if it   *)
(* is active, and against activeFrom if the server would now confirm.        *)

Counts(ans) == ans = "active" \/ server = "active"
Origin(ans) == IF ans = "active" THEN confirmed ELSE activeFrom

TaskBound(r) ==
    /\ r.pc \in Timed => now <= r.at + MaxCall
    /\ r.pc = "fail" => r.ans # "active"
    /\ Counts(r.ans) =>
         /\ r.pc = "put" => r.at <= Origin(r.ans)
         /\ r.pc \in {"prev", "save", "fail"} => r.at <= Origin(r.ans) + Cached

MemBound(m) ==
    /\ m.status # "none" => now <= m.at + (MemTTL - 1)
    /\ m.status \in {"live", "grace"} => m.at <= confirmed + Cached + (Grace - 1) + MaxCall
    /\ (server = "active" /\ m.status \notin {"none", "live", "grace"})
         => m.at <= activeFrom + Cached + MaxCall

FetchedBound ==
    /\ fetched.until <= now + FetchTTL
    /\ Counts(fetched.val) => fetched.until <= Origin(fetched.val) + Cached + 1

PreviousBound == previous.val.active => previous.val.checked <= confirmed + Cached

TasksBound == \A t \in Tasks : TaskBound(task[t])
MemsBound == \A p \in Procs : MemBound(mem[p])

BoundInv ==
    /\ confirmed <= now /\ activeFrom <= now
    /\ FetchedBound /\ PreviousBound /\ TasksBound /\ MemsBound

SameTimes == /\ now' = now /\ server' = server
             /\ confirmed' = confirmed /\ activeFrom' = activeFrom

LEMMA Values ==
    ASSUME TypeOK
    PROVE  /\ now \in Nat /\ confirmed \in Int /\ activeFrom \in Nat /\ earned \in Int
           /\ fetched.until \in Nat /\ fetched.val \in Answers \ {"invalid"}
           /\ previous.until \in Nat /\ previous.val \in PreviousSet
           /\ previous.val.checked \in Nat
           /\ \A t \in Tasks : task[t].at \in Nat /\ task[t].at <= now
           /\ \A p \in Procs : mem[p].at \in Nat /\ mem[p].at <= now
           /\ \A t \in Tasks : task[t].pc = "save" => task[t].ans = "active"
  BY DEF TypeOK, MemTyped, TasksTyped, TaskSet, PreviousSet

LEMMA OneTask ==
    ASSUME TypeOK, BoundInv, SameTimes, NEW t \in Tasks, NEW r,
           task' = [task EXCEPT ![t] = r], TaskBound(r)
    PROVE  TasksBound'
<1> SUFFICES ASSUME NEW u \in Tasks PROVE TaskBound(task[u])'
  BY DEF TasksBound
<1>1. CASE u = t
  <2>1. task'[u] = r
    BY <1>1 DEF TypeOK, TasksTyped
  <2> QED BY <2>1 DEF SameTimes, TaskBound, Counts, Origin
<1>2. CASE u # t
  <2>1. task'[u] = task[u] /\ TaskBound(task[u])
    BY <1>2 DEF TypeOK, TasksTyped, BoundInv, TasksBound
  <2> QED BY <2>1 DEF SameTimes, TaskBound, Counts, Origin
<1> QED BY <1>1, <1>2

LEMMA OneMem ==
    ASSUME TypeOK, BoundInv, SameTimes, NEW p \in Procs, NEW m,
           mem' = [mem EXCEPT ![p] = m] \/ mem' = mem, MemBound(m)
    PROVE  MemsBound'
<1> SUFFICES ASSUME NEW q \in Procs PROVE MemBound(mem[q])'
  BY DEF MemsBound
<1>1. mem'[q] = m \/ mem'[q] = mem[q]
  BY DEF TypeOK, MemTyped
<1>2. MemBound(mem[q])
  BY DEF BoundInv, MemsBound
<1>3. CASE mem'[q] = m
  BY <1>3 DEF SameTimes, MemBound
<1>4. CASE mem'[q] = mem[q]
  BY <1>2, <1>4 DEF SameTimes, MemBound
<1> QED BY <1>1, <1>3, <1>4

LEMMA NoneBound == MemBound(NoResult) /\ TaskBound(Idle)
  BY DEF MemBound, NoResult, TaskBound, Idle, Timed

(* A step outside computeLicenseState: no answer is at hand afterwards. *)
LEMMA UntimedTask ==
    ASSUME NEW r, r.pc \notin Timed
    PROVE  TaskBound(r)
  BY DEF TaskBound, Timed

LEMMA SameFetched ==
    ASSUME BoundInv, SameTimes, fetched' = fetched
    PROVE  confirmed' <= now' /\ activeFrom' <= now' /\ FetchedBound'
  BY DEF BoundInv, SameTimes, FetchedBound, Counts, Origin

LEMMA SamePrevious ==
    ASSUME BoundInv, SameTimes, previous' = previous
    PROVE  PreviousBound'
  BY DEF BoundInv, SameTimes, PreviousBound

LEMMA InitBound == Init => BoundInv
<1> SUFFICES ASSUME Init PROVE BoundInv
  OBVIOUS
<1> USE Limits
<1>1. confirmed <= now /\ activeFrom <= now
  BY DEF Init, Never
<1>2. FetchedBound
  BY DEF Init, FetchedBound, NoAnswer, Absent, Counts, Origin
<1>3. PreviousBound
  BY DEF Init, PreviousBound, NoPrevious, Absent, Inactive
<1>4. TasksBound /\ MemsBound
  BY NoneBound DEF Init, TasksBound, MemsBound
<1> QED BY <1>1, <1>2, <1>3, <1>4 DEF BoundInv
LEMMA EvaluateBound ==
    ASSUME TypeOK, BoundInv, SameTimes, NEW p \in Procs, NEW prev \in PreviousSet,
           prev.active => prev.checked <= confirmed + Cached, Evaluate(p, prev)
    PROVE  TasksBound' /\ MemsBound'
<1> USE Limits
<1>0. \A t \in Tasks : TaskBound(task[t])
  BY DEF BoundInv, TasksBound
<1>1. TasksBound'
  <2> SUFFICES ASSUME NEW t \in Tasks PROVE TaskBound(task[t])'
    BY DEF TasksBound
  <2>1. CASE task'[t] = task[t]
    BY <1>0, <2>1 DEF SameTimes, TaskBound, Counts, Origin
  <2>2. CASE task'[t] = Idle
    BY <2>2 DEF Idle, TaskBound, Timed
  <2>3. CASE /\ task[t].pc = "prev"
             /\ task'[t] = [task[t] EXCEPT !.pc = Branch(task[t].ans, prev, task[t].at)]
             /\ task'[t].pc \in {"save", "fail"}
    <3>1. task'[t].ans = task[t].ans /\ task'[t].at = task[t].at
      BY <2>3, TaskTyped DEF TaskSet
    <3>2. task'[t].pc = "fail" => task[t].ans # "active"
      BY <2>3, <3>1, TaskTyped, BranchTyped DEF TaskSet
    <3> QED BY <1>0, <2>3, <3>1, <3>2 DEF SameTimes, TaskBound, Counts, Origin, Timed
  <2> QED BY EvaluateStep, <2>1, <2>2, <2>3
<1>2. MemsBound'
  <2>1. CASE mem' = mem
    BY <2>1, OneMem, NoneBound
  <2>2. ASSUME NEW t \in Tasks, task[t].pc = "prev",
               Branch(task[t].ans, prev, task[t].at) = "idle",
               mem' = [mem EXCEPT ![p] = Result(Status(task[t].ans, prev, task[t].at))]
        PROVE  MemsBound'
    <3> DEFINE ans == task[t].ans
               time == task[t].at
               s == Status(ans, prev, time)
    <3>0. ans \in Answers \ {"invalid"} /\ time \in Nat /\ time <= now
      BY TaskTyped
    <3>1. /\ s \in {"live", "grace", "expired", "unreachable"}
          /\ s = "live" => ans = "active"
          /\ s = "grace" => InGrace(prev, time)
          /\ ans = "active" => s = "live"
      BY <3>0, BranchTyped
    <3>2. now <= time + MaxCall /\ (Counts(ans) => time <= Origin(ans) + Cached)
      BY <1>0, <2>2 DEF TaskBound, Timed
    <3>3. prev.checked \in Nat /\ (InGrace(prev, time) => time < prev.checked + Grace /\ prev.active)
      BY DEF InGrace, PreviousSet
    <3>4. now \in Nat /\ confirmed \in Int /\ activeFrom \in Int
      BY Values
    <3>5. MemBound([status |-> s, at |-> now])
      <4> HIDE DEF s, time, ans
      <4>1. CASE s = "live"
        <5>1. time <= confirmed + Cached
          BY <3>1, <3>2, <4>1 DEF Counts, Origin
        <5> QED BY <3>0, <3>2, <3>4, <4>1, <5>1 DEF MemBound
      <4>2. CASE s = "grace"
        <5>1. time < confirmed + Cached + Grace
          BY <3>0, <3>1, <3>3, <3>4, <4>2
        <5> QED BY <3>0, <3>2, <3>4, <4>2, <5>1 DEF MemBound
      <4>3. CASE s \in {"expired", "unreachable"}
        <5>1. ans # "active"
          BY <3>1, <4>3
        <5>2. server = "active" => time <= activeFrom + Cached
          BY <3>2, <5>1 DEF Counts, Origin
        <5> QED BY <3>0, <3>2, <3>4, <4>3, <5>2 DEF MemBound
      <4> QED BY <3>1, <4>1, <4>2, <4>3
    <3>6. mem' = [mem EXCEPT ![p] = [status |-> s, at |-> now]]
      BY <2>2 DEF Result
    <3> HIDE DEF s
    <3> QED BY <3>5, <3>6, OneMem
  <2> QED BY EvaluateStep, <2>1, <2>2
<1> QED BY <1>1, <1>2

LEMMA NextBound == TypeOK /\ TypeOK' /\ BoundInv /\ [Next]_vars => BoundInv'
<1> SUFFICES ASSUME TypeOK, TypeOK', BoundInv, [Next]_vars PROVE BoundInv'
  OBVIOUS
<1> USE Limits
<1>0. /\ confirmed <= now /\ activeFrom <= now
      /\ FetchedBound /\ PreviousBound /\ TasksBound /\ MemsBound
  BY DEF BoundInv
<1>00. \A t \in Tasks : TaskBound(task[t])
  BY <1>0 DEF TasksBound
<1>1. ASSUME NEW p \in Procs, (Ask(p) \/ Recheck(p)) PROVE BoundInv'
  <2>1. SameTimes /\ fetched' = fetched /\ previous' = previous
    BY <1>1 DEF Ask, Recheck, SameTimes, store, history
  <2>2. MemsBound'
    BY <1>1, <2>1, NoneBound, OneMem DEF Ask, Recheck
  <2>3. PICK t \in Tasks, pc \in {"get", "del"} : task' = [task EXCEPT ![t] = [task[t] EXCEPT !.pc = pc]]
    BY <1>1 DEF Ask, Recheck, Goes
  <2>4. TasksBound'
    <3> DEFINE r == [task[t] EXCEPT !.pc = pc]
    <3>1. r.pc \notin Timed
      BY TaskTyped DEF TaskSet, Timed
    <3> HIDE DEF r
    <3>2. TaskBound(r)
      BY <3>1, UntimedTask
    <3> QED BY <2>1, <2>3, <3>2, OneTask DEF r
  <2> QED BY <2>1, <2>2, <2>4, SameFetched, SamePrevious DEF BoundInv
<1>2. ASSUME NEW p \in Procs, ReadPrevious(p) PROVE BoundInv'
  <2>1. SameTimes /\ fetched' = fetched /\ previous' = previous
    BY <1>2 DEF ReadPrevious, SameTimes, store, history
  <2>2. PICK prev \in PreviousSet :
          Evaluate(p, prev) /\ (prev.active => prev.checked <= confirmed + Cached)
    <3>1. Inactive \in PreviousSet /\ Inactive.active = FALSE
      BY DEF Inactive, PreviousSet
    <3>2. CASE Evaluate(p, previous.val)
      BY <1>0, <3>2, Values DEF PreviousBound
    <3>3. CASE Evaluate(p, Inactive)
      BY <3>1, <3>3
    <3> QED BY <1>2, <3>2, <3>3 DEF ReadPrevious
  <2>3. TasksBound' /\ MemsBound'
    BY <2>1, <2>2, EvaluateBound
  <2> QED BY <2>1, <2>3, SameFetched, SamePrevious DEF BoundInv
<1>3. ASSUME NEW p \in Procs, Restart(p) PROVE BoundInv'
  <2>1. SameTimes /\ fetched' = fetched /\ previous' = previous
    BY <1>3 DEF Restart, SameTimes, store, history
  <2>2. MemsBound'
    BY <1>3, <2>1, NoneBound, OneMem DEF Restart
  <2>3. TasksBound'
    <3> SUFFICES ASSUME NEW t \in Tasks PROVE TaskBound(task[t])'
      BY DEF TasksBound
    <3>1. task'[t] = Idle \/ task'[t] = task[t]
      BY <1>3 DEF Restart
    <3>2. CASE task'[t] = Idle
      BY <3>2 DEF Idle, TaskBound, Timed
    <3>3. CASE task'[t] = task[t]
      BY <1>00, <2>1, <3>3 DEF SameTimes, TaskBound, Counts, Origin
    <3> QED BY <3>1, <3>2, <3>3
  <2> QED BY <2>1, <2>2, <2>3, SameFetched, SamePrevious DEF BoundInv
<1>4. ASSUME NEW t \in Tasks, (GetCached(t) \/ Poll(t)) PROVE BoundInv'
  <2>1. SameTimes /\ fetched' = fetched /\ previous' = previous /\ mem' = mem
    BY <1>4 DEF GetCached, Poll, SameTimes, store, history
  <2>2. MemsBound'
    <3>1. PICK p \in Procs : TRUE
      BY TaskTyped
    <3> QED BY <2>1, <3>1, NoneBound, OneMem
  <2>3. PICK r : task' = [task EXCEPT ![t] = r] /\ TaskBound(r)
    <3>1. CASE Live(fetched) /\ Computes(t, fetched.val)
      <4> DEFINE r == [pc |-> "prev", ans |-> fetched.val, keep |-> FALSE, at |-> now]
      <4>1. TaskBound(r)
        BY <1>0, <3>1, Values DEF TaskBound, FetchedBound, Live, Timed, Counts, Origin
      <4>2. task' = [task EXCEPT ![t] = r]
        BY <3>1 DEF Computes
      <4> HIDE DEF r
      <4> QED BY <4>1, <4>2
    <3>2. CASE Goes(t, "lock")
      <4> DEFINE r == [task[t] EXCEPT !.pc = "lock"]
      <4>1. r.pc \notin Timed /\ task' = [task EXCEPT ![t] = r]
        BY <3>2, TaskTyped DEF Goes, TaskSet, Timed
      <4> HIDE DEF r
      <4> QED BY <4>1, UntimedTask
    <3>3. CASE task' = [task EXCEPT ![t].pc = "fetch", ![t].keep = TRUE]
      <4> DEFINE r == [task[t] EXCEPT !.pc = "fetch", !.keep = TRUE]
      <4>1. r.pc \notin Timed /\ task' = [task EXCEPT ![t] = r]
        BY <3>3, TaskTyped DEF TaskSet, Timed, TypeOK, TasksTyped
      <4> HIDE DEF r
      <4> QED BY <4>1, UntimedTask
    <3> QED BY <1>4, <3>1, <3>2, <3>3 DEF GetCached, Poll, Hits
  <2>4. TasksBound'
    BY <2>1, <2>3, OneTask
  <2> QED BY <2>1, <2>2, <2>4, SameFetched, SamePrevious DEF BoundInv
<1>5. ASSUME NEW t \in Tasks, (TakeLock(t) \/ ClearFetched(t)) PROVE BoundInv'
  <2>1. SameTimes /\ previous' = previous /\ mem' = mem
    BY <1>5 DEF TakeLock, ClearFetched, SameTimes, history
  <2>2. MemsBound'
    <3>1. PICK p \in Procs : TRUE
      BY TaskTyped
    <3> QED BY <2>1, <3>1, NoneBound, OneMem
  <2>3. PICK r : task' = [task EXCEPT ![t] = r] /\ TaskBound(r)
    <3>2. CASE Goes(t, "poll")
      <4> DEFINE r == [task[t] EXCEPT !.pc = "poll"]
      <4>1. r.pc \notin Timed /\ task' = [task EXCEPT ![t] = r]
        BY <3>2, TaskTyped DEF Goes, TaskSet, Timed
      <4> HIDE DEF r
      <4> QED BY <4>1, UntimedTask
    <3>3. ASSUME NEW keep \in BOOLEAN, task' = [task EXCEPT ![t].pc = "fetch", ![t].keep = keep]
          PROVE  \E r : task' = [task EXCEPT ![t] = r] /\ TaskBound(r)
      <4> DEFINE r == [task[t] EXCEPT !.pc = "fetch", !.keep = keep]
      <4>1. r.pc \notin Timed /\ task' = [task EXCEPT ![t] = r]
        BY <3>3, TaskTyped DEF TaskSet, Timed, TypeOK, TasksTyped
      <4> HIDE DEF r
      <4> QED BY <4>1, UntimedTask
    <3> QED BY <1>5, <3>2, <3>3 DEF TakeLock, ClearFetched
  <2>4. TasksBound'
    BY <2>1, <2>3, OneTask
  <2>5. FetchedBound' /\ confirmed' <= now' /\ activeFrom' <= now'
    <3>1. CASE fetched' = fetched
      BY <2>1, <3>1, SameFetched
    <3>2. CASE fetched' = NoAnswer
      BY <1>0, <2>1, <3>2, Values DEF SameTimes, FetchedBound, NoAnswer, Absent, Counts, Origin
    <3> QED BY <1>5, <3>1, <3>2 DEF TakeLock, ClearFetched, Puts
  <2> QED BY <2>1, <2>2, <2>4, <2>5, SamePrevious DEF BoundInv
<1>6. ASSUME NEW t \in Tasks, Refuse(t) PROVE BoundInv'
  <2>1. SameTimes /\ fetched' = fetched /\ previous' = previous
    BY <1>6 DEF Refuse, SameTimes, store, history
  <2>2. MemsBound'
    <3>1. MemBound(Result("invalid"))
      BY <1>6, Values DEF Refuse, MemBound, Result
    <3>2. t[1] \in Procs
      BY TaskTyped
    <3>3. mem' = [mem EXCEPT ![t[1]] = Result("invalid")] \/ mem' = mem
      BY <1>6 DEF Refuse
    <3> QED BY <2>1, <3>1, <3>2, <3>3, OneMem
  <2>3. TasksBound'
    BY <1>6, <2>1, NoneBound, OneTask DEF Refuse
  <2> QED BY <2>1, <2>2, <2>3, SameFetched, SamePrevious DEF BoundInv
<1>7. ASSUME NEW t \in Tasks, Answer(t) PROVE BoundInv'
  <2>1. /\ now' = now /\ server' = server /\ activeFrom' = activeFrom /\ mem' = mem
        /\ fetched' = fetched /\ previous' = previous
        /\ confirmed <= confirmed' /\ confirmed' <= now /\ confirmed' \in Int
        /\ (server = "active" => confirmed' = now)
    BY <1>0, <1>7, Values DEF Answer, store
  <2>2. confirmed' <= now' /\ activeFrom' <= now' /\ FetchedBound' /\ PreviousBound'
    BY <1>0, <2>1, Values DEF FetchedBound, PreviousBound, Counts, Origin
  <2>3. MemsBound'
    BY <1>0, <2>1, Values DEF MemsBound, MemBound
  <2>4. TasksBound'
    <3> SUFFICES ASSUME NEW u \in Tasks PROVE TaskBound(task[u])'
      BY DEF TasksBound
    <3> DEFINE r == [pc |-> IF task[t].keep THEN "put" ELSE "prev",
                     ans |-> server, keep |-> FALSE, at |-> now]
    <3>1. CASE u = t
      <4>1. task'[u] = r
        BY <1>7, <3>1 DEF Answer, TypeOK, TasksTyped
      <4>2. r.pc \in {"put", "prev"} /\ r.ans = server /\ r.at = now
        OBVIOUS
      <4> HIDE DEF r
      <4> QED BY <2>1, <4>1, <4>2, Values DEF TaskBound, Counts, Origin, Timed
    <3>2. CASE u # t
      <4>1. task'[u] = task[u]
        BY <1>7, <3>2 DEF Answer, TypeOK, TasksTyped
      <4> QED BY <1>00, <2>1, <4>1, Values DEF TaskBound, Counts, Origin
    <3> QED BY <3>1, <3>2
  <2> QED BY <2>2, <2>3, <2>4 DEF BoundInv
<1>8. ASSUME NEW t \in Tasks, PutFetched(t) PROVE BoundInv'
  <2>1. SameTimes /\ previous' = previous
    BY <1>8 DEF PutFetched, SameTimes, history
  <2>2. /\ task[t].ans \in Answers \ {"invalid"} /\ task[t].at \in Nat /\ task[t].at <= now
        /\ now <= task[t].at + MaxCall /\ task[t].pc = "put"
        /\ (Counts(task[t].ans) => task[t].at <= Origin(task[t].ans))
    BY <1>00, <1>8, TaskTyped DEF PutFetched, TaskBound, Timed
  <2>3. MemsBound'
    <3>1. t[1] \in Procs
      BY TaskTyped
    <3> QED BY <1>8, <2>1, <3>1, NoneBound, OneMem DEF PutFetched
  <2>4. TasksBound'
    <3> DEFINE r == [pc |-> "prev", ans |-> task[t].ans, keep |-> FALSE, at |-> now]
    <3>1. TaskBound(r)
      BY <2>2, Values DEF TaskBound, Timed, Origin, Cached
    <3>2. task' = [task EXCEPT ![t] = r]
      BY <1>8 DEF PutFetched, Computes
    <3> HIDE DEF r
    <3> QED BY <2>1, <3>1, <3>2, OneTask
  <2>5. FetchedBound' /\ confirmed' <= now' /\ activeFrom' <= now'
    <3>1. CASE fetched' = fetched
      BY <2>1, <3>1, SameFetched
    <3>2. CASE fetched' = Entry(task[t].ans, Ttl(task[t].ans))
      <4>1. Ttl(task[t].ans) \in Nat /\ Ttl(task[t].ans) <= FetchTTL
        BY <2>2, TtlTyped
      <4>2. fetched'.val = task[t].ans /\ fetched'.until = now + Ttl(task[t].ans)
        BY <3>2 DEF Entry
      <4> QED BY <1>0, <2>1, <2>2, <4>1, <4>2, Values
              DEF SameTimes, FetchedBound, Counts, Origin, Cached
    <3> QED BY <1>8, <3>1, <3>2 DEF PutFetched, Puts
  <2> QED BY <2>1, <2>3, <2>4, <2>5, SamePrevious DEF BoundInv
<1>9. ASSUME NEW t \in Tasks, (SavePrevious(t) \/ FailInitially(t)) PROVE BoundInv'
  <2>1. SameTimes /\ fetched' = fetched /\ task' = [task EXCEPT ![t] = Idle]
    BY <1>9 DEF SavePrevious, FailInitially, SameTimes, history
  <2>2. /\ task[t].ans \in Answers \ {"invalid"} /\ task[t].at \in Nat /\ task[t].at <= now
        /\ now <= task[t].at + MaxCall
        /\ (Counts(task[t].ans) => task[t].at <= Origin(task[t].ans) + Cached)
    BY <1>00, <1>9, TaskTyped DEF SavePrevious, FailInitially, TaskBound, Timed
  <2>3. TasksBound'
    BY <2>1, NoneBound, OneTask
  <2>4. t[1] \in Procs
    BY TaskTyped
  <2>5. CASE SavePrevious(t)
    <3>1. task[t].at <= confirmed + Cached
      BY <2>2, <2>5, Values DEF SavePrevious, Counts, Origin
    <3>2. MemBound(Result("live"))
      BY <2>2, <3>1, Values DEF MemBound, Result
    <3>3. MemsBound'
      BY <2>1, <2>4, <2>5, <3>2, OneMem DEF SavePrevious
    <3>4. PreviousBound'
      <4>1. CASE previous' = previous
        BY <2>1, <4>1, SamePrevious
      <4>2. CASE previous' = Entry([active |-> TRUE, checked |-> task[t].at], PrevTTL)
        BY <2>1, <3>1, <4>2 DEF Entry, PreviousBound, SameTimes
      <4> QED BY <2>5, <4>1, <4>2 DEF SavePrevious, Puts
    <3> QED BY <2>1, <2>3, <3>3, <3>4, SameFetched DEF BoundInv
  <2>6. CASE FailInitially(t)
    <3>1. PreviousBound'
      <4>1. CASE previous' = previous
        BY <2>1, <4>1, SamePrevious
      <4>2. CASE previous' = Entry([active |-> FALSE, checked |-> task[t].at], PrevTTL)
        BY <4>2 DEF Entry, PreviousBound
      <4> QED BY <2>6, <4>1, <4>2 DEF FailInitially, Puts
    <3>2. MemBound(Result("unreachable"))
      <4>1. task[t].ans # "active"
        BY <1>00, <2>6 DEF FailInitially, TaskBound
      <4> QED BY <2>2, <4>1, Values DEF MemBound, Result, Counts, Origin
    <3>3. MemsBound'
      BY <2>1, <2>4, <2>6, <3>2, OneMem DEF FailInitially
    <3> QED BY <2>1, <2>3, <3>1, <3>3, SameFetched DEF BoundInv
  <2> QED BY <1>9, <2>5, <2>6
<1>10. ASSUME NEW answer \in Answers, ServerTurns(answer) PROVE BoundInv'
  <2>1. /\ now' = now /\ confirmed' = confirmed /\ server' = answer /\ mem' = mem /\ task' = task
        /\ fetched' = fetched /\ previous' = previous
        /\ activeFrom' = IF answer = "active" THEN now ELSE 0
    BY <1>10 DEF ServerTurns, store
  <2>2. /\ now \in Nat /\ activeFrom' \in Nat /\ activeFrom' <= now
        /\ (answer = "active" => activeFrom' = now)
    BY <2>1, Values
  <2>3. FetchedBound' /\ PreviousBound'
    BY <1>0, <2>1, <2>2, Values DEF FetchedBound, PreviousBound, Counts, Origin, Cached
  <2>4. TasksBound'
    <3> SUFFICES ASSUME NEW t \in Tasks PROVE TaskBound(task[t])'
      BY DEF TasksBound
    <3> QED BY <1>00, <2>1, <2>2, Values DEF TaskBound, Counts, Origin
  <2>5. MemsBound'
    <3> SUFFICES ASSUME NEW p \in Procs PROVE MemBound(mem[p])'
      BY DEF MemsBound
    <3> QED BY <1>0, <2>1, <2>2, Values DEF MemsBound, MemBound
  <2> QED BY <1>0, <2>1, <2>2, <2>3, <2>4, <2>5 DEF BoundInv
<1>11. CASE Tick
  <2>1. /\ now' = now + 1 /\ server' = server /\ task' = task
        /\ confirmed' = confirmed /\ activeFrom' = activeFrom
        /\ fetched' \in {fetched, NoAnswer} /\ previous' \in {previous, NoPrevious}
    BY <1>11 DEF Tick, Remembers, Aged, history
  <2>2. FetchedBound'
    BY <1>0, <2>1, Values DEF FetchedBound, NoAnswer, Absent, Counts, Origin
  <2>3. PreviousBound'
    BY <1>0, <2>1 DEF PreviousBound, NoPrevious, Absent, Inactive
  <2>4. TasksBound'
    <3> SUFFICES ASSUME NEW t \in Tasks PROVE TaskBound(task[t])'
      BY DEF TasksBound
    <3>1. task[t].pc \in Timed => now < task[t].at + MaxCall
      BY <1>11 DEF Tick, Remembers
    <3> QED BY <1>00, <2>1, <3>1, Values DEF TaskBound, Counts, Origin
  <2>5. MemsBound'
    <3> SUFFICES ASSUME NEW p \in Procs PROVE MemBound(mem[p])'
      BY DEF MemsBound
    <3>1. \/ mem'[p] = mem[p] /\ now + 1 < mem[p].at + MemTTL
          \/ mem'[p] = NoResult
      BY <1>11 DEF Tick, Remembers
    <3>2. CASE mem'[p] = NoResult
      BY <3>2 DEF NoResult, MemBound
    <3>3. CASE mem'[p] = mem[p] /\ now + 1 < mem[p].at + MemTTL
      BY <1>0, <2>1, <3>3, Values DEF MemsBound, MemBound
    <3> QED BY <3>1, <3>2, <3>3
  <2> QED BY <1>0, <2>1, <2>2, <2>3, <2>4, <2>5, Values DEF BoundInv
<1>12. CASE UNCHANGED vars
  <2>1. SameTimes /\ fetched' = fetched /\ previous' = previous /\ mem' = mem /\ task' = task
    BY <1>12 DEF vars, SameTimes, store, history
  <2>2. TasksBound' /\ MemsBound'
    BY <1>0, <2>1 DEF TasksBound, MemsBound, TaskBound, MemBound, SameTimes, Counts, Origin
  <2> QED BY <2>1, <2>2, SameFetched, SamePrevious DEF BoundInv
<1> QED BY <1>1, <1>2, <1>3, <1>4, <1>5, <1>6, <1>7, <1>8, <1>9, <1>10, <1>11, <1>12 DEF Next
(* No page gets the paid features longer than Life after the server last     *)
(* confirmed the licence, whatever fails, races or restarts.                 *)
THEOREM GraceBoundHolds == Spec => []GraceBound
<1>1. TypeOK /\ BoundInv => GraceBound
  BY Limits, Values DEF BoundInv, MemsBound, MemBound, GraceBound, Fresh, ShowsActive, Life
<1> QED BY <1>1, InitBound, InitTyped, NextBound, NextTyped, PTL DEF Spec

(* A renewed licence shows on every page once older answers have expired.    *)
THEOREM RenewalHolds == Spec => []RenewalShows
<1>1. TypeOK /\ BoundInv => RenewalShows
  BY Limits, Values DEF BoundInv, MemsBound, MemBound, RenewalShows, Fresh, ShowsActive
<1> QED BY <1>1, InitBound, InitTyped, NextBound, NextTyped, PTL DEF Spec

-------------------------------------------------------------------------------
(* The grace period.  While it lasts the saved confirmation is in Redis and   *)
(* nobody is about to overwrite it.                                          *)

Forfeit == earned = Never \/ now >= earned + Grace \/ raced \/ faults > 0

EarnedInv ==
    \/ Forfeit
    \/ /\ previous.val.active /\ previous.val.checked = earned
       /\ previous.until >= earned + PrevTTL
       /\ \A t \in Tasks : task[t].pc # "fail"

LEMMA FaultsGrow ==
    ASSUME TypeOK, [Next]_vars
    PROVE  faults' \in Nat /\ faults \in Nat /\ faults <= faults'
<1>1. faults' = faults \/ faults' = faults + 1
  BY DEF Next, vars, Ask, Recheck, ReadPrevious, Restart, GetCached, TakeLock, Poll,
     ClearFetched, Answer, Refuse, PutFetched, SavePrevious, FailInitially, ServerTurns, Tick,
     Hits, Misses, Puts, Locks, LockHeld, LockFails, Works, Fails
<1> QED BY <1>1 DEF TypeOK

LEMMA NextEarned == TypeOK /\ TypeOK' /\ EarnedInv /\ [Next]_vars => EarnedInv'
<1> SUFFICES ASSUME TypeOK, TypeOK', EarnedInv, [Next]_vars PROVE EarnedInv'
  OBVIOUS
<1> USE Limits
<1>0. faults' \in Nat /\ faults \in Nat /\ faults <= faults'
  BY FaultsGrow
<1>1. ASSUME earned' = earned, raced' = raced, now' = now, previous' = previous,
             (\A t \in Tasks : task'[t].pc = "fail" => task[t].pc = "fail")
      PROVE  EarnedInv'
  BY <1>0, <1>1, Values DEF EarnedInv, Forfeit
<1>2. ASSUME NEW p \in Procs, (Ask(p) \/ Recheck(p) \/ Restart(p)) PROVE EarnedInv'
  <2>1. \A t \in Tasks : task'[t].pc = "fail" => task[t].pc = "fail"
    <3>1. ASSUME NEW u \in Tasks, NEW pc \in {"get", "del"}, Goes(u, pc)
          PROVE  \A t \in Tasks : task'[t].pc = "fail" => task[t].pc = "fail"
      BY <3>1, TaskTyped DEF Goes, TypeOK, TasksTyped, TaskSet
    <3>2. CASE Restart(p)
      BY <3>2 DEF Restart, Idle
    <3> QED BY <1>2, <3>1, <3>2 DEF Ask, Recheck
  <2> QED BY <1>1, <1>2, <2>1 DEF Ask, Recheck, Restart, store, history
<1>3. ASSUME NEW t \in Tasks,
             (GetCached(t) \/ TakeLock(t) \/ Poll(t) \/ ClearFetched(t) \/ Answer(t) \/ Refuse(t) \/ PutFetched(t))
      PROVE  EarnedInv'
  <2>1. \A u \in Tasks : task'[u].pc = "fail" => task[u].pc = "fail"
    BY <1>3 DEF GetCached, TakeLock, Poll, ClearFetched, Answer, Refuse, PutFetched, Goes, Computes,
       Idle, TypeOK, TasksTyped, TaskSet
  <2> QED BY <1>1, <1>3, <2>1
          DEF GetCached, TakeLock, Poll, ClearFetched, Answer, Refuse, PutFetched, store, history
<1>4. ASSUME NEW p \in Procs, ReadPrevious(p) PROVE EarnedInv'
  <2>0. earned' = earned /\ raced' = raced /\ now' = now /\ previous' = previous
    BY <1>4 DEF ReadPrevious, store, history
  <2>1. CASE Forfeit
    BY <1>0, <2>0, <2>1 DEF EarnedInv, Forfeit
  <2>2. CASE faults' > 0
    BY <2>2 DEF EarnedInv, Forfeit
  <2>3. CASE ~Forfeit /\ ~(faults' > 0)
    <3>1. /\ previous.val.active /\ previous.val.checked = earned
          /\ previous.until >= earned + PrevTTL /\ now < earned + Grace
      BY <2>3, Values DEF EarnedInv, Forfeit
    <3>2. Live(previous) /\ ~Fails
      BY <1>0, <2>3, <3>1, Values DEF Live, Fails
    <3>3. Evaluate(p, previous.val)
      BY <1>4, <3>2 DEF ReadPrevious, Misses
    <3>4. \A t \in Tasks : task'[t].pc = "fail" => task[t].pc = "fail"
      <4> TAKE t \in Tasks
      <4>1. CASE task'[t] = task[t]
        BY <4>1
      <4>2. CASE task'[t] = Idle
        BY <4>2 DEF Idle
      <4>3. CASE task'[t] = [task[t] EXCEPT !.pc = Branch(task[t].ans, previous.val, task[t].at)]
        <5>1. InGrace(previous.val, task[t].at)
          BY <3>1, Values DEF InGrace
        <5>2. Branch(task[t].ans, previous.val, task[t].at) # "fail"
          BY <5>1, TaskTyped, BranchTyped, Values
        <5> QED BY <4>3, <5>2, TaskTyped DEF TaskSet
      <4> QED BY <3>3, EvaluateStep, Values, <4>1, <4>2, <4>3
    <3> QED BY <1>1, <2>0, <3>4
  <2> QED BY <2>1, <2>2, <2>3
<1>5. ASSUME NEW t \in Tasks, SavePrevious(t) PROVE EarnedInv'
  <2>1. CASE Fails
    <3>1. faults' > 0
      BY <1>0, <2>1 DEF Fails
    <3> QED BY <3>1 DEF EarnedInv, Forfeit
  <2>2. CASE \E u \in Tasks : task[u].pc = "fail"
    BY <1>5, <2>2 DEF SavePrevious, EarnedInv, Forfeit
  <2>3. CASE ~Fails /\ ~\E u \in Tasks : task[u].pc = "fail"
    <3>1. previous' = Entry([active |-> TRUE, checked |-> task[t].at], PrevTTL)
      BY <1>5, <2>3 DEF SavePrevious, Puts
    <3>2. previous'.val.active /\ previous'.val.checked = earned' /\ previous'.until >= earned' + PrevTTL
      BY <1>5, <3>1, Values DEF SavePrevious, Entry
    <3>3. \A u \in Tasks : task'[u].pc # "fail"
      BY <1>5, <2>3 DEF SavePrevious, Idle, TypeOK, TasksTyped
    <3> QED BY <3>2, <3>3 DEF EarnedInv
  <2> QED BY <2>1, <2>2, <2>3
<1>6. ASSUME NEW t \in Tasks, FailInitially(t) PROVE EarnedInv'
  <2>1. Forfeit
    BY <1>6 DEF FailInitially, EarnedInv
  <2> QED BY <1>0, <1>6, <2>1 DEF FailInitially, EarnedInv, Forfeit, history
<1>7. ASSUME NEW answer \in Answers, ServerTurns(answer) PROVE EarnedInv'
  BY <1>1, <1>7 DEF ServerTurns, store
<1>8. CASE Tick
  <2>1. /\ earned' = earned /\ raced' = raced /\ faults' = faults /\ now' = now + 1 /\ task' = task
        /\ (previous' = previous \/ now + 1 >= previous.until)
    BY <1>8, Values DEF Tick, Aged, history
  <2>2. CASE Forfeit
    BY <2>1, <2>2, Values DEF EarnedInv, Forfeit
  <2>3. CASE ~Forfeit
    <3>1. /\ previous.val.active /\ previous.val.checked = earned
          /\ previous.until >= earned + PrevTTL
          /\ \A t \in Tasks : task[t].pc # "fail"
      BY <2>3 DEF EarnedInv
    <3>2. CASE previous' = previous
      BY <2>1, <3>1, <3>2 DEF EarnedInv
    <3>3. CASE now + 1 >= previous.until
      <4>1. now' >= earned' + Grace
        BY <2>1, <3>1, <3>3, Values
      <4> QED BY <4>1 DEF EarnedInv, Forfeit
    <3> QED BY <2>1, <3>2, <3>3
  <2> QED BY <2>2, <2>3
<1>9. CASE UNCHANGED vars
  BY <1>1, <1>9 DEF vars, store, history
<1> QED BY <1>2, <1>3, <1>4, <1>5, <1>6, <1>7, <1>8, <1>9 DEF Next

LEMMA StepHeld ==
    ASSUME TypeOK, TypeOK', EarnedInv, [Next]_vars, NEW p \in Procs,
           mem'[p] # mem[p], mem'[p].status = "unreachable"
    PROVE  Forfeit \/ faults' > 0
<1>1. ASSUME NEW t \in Tasks, FailInitially(t) PROVE Forfeit
  BY <1>1 DEF FailInitially, EarnedInv
<1>2. ASSUME NEW q \in Procs, ReadPrevious(q) PROVE FALSE
  <2>1. PICK prev \in PreviousSet : Evaluate(q, prev)
    BY <1>2, Values DEF ReadPrevious, Inactive, PreviousSet
  <2>2. PICK t \in Tasks :
          /\ Branch(task[t].ans, prev, task[t].at) = "idle"
          /\ mem' = [mem EXCEPT ![q] = Result(Status(task[t].ans, prev, task[t].at))]
    BY <2>1, EvaluateStep
  <2>3. Status(task[t].ans, prev, task[t].at) = "unreachable"
    BY <2>2 DEF Result, TypeOK, MemTyped
  <2> QED BY <2>2, <2>3, BranchTyped, TaskTyped
<1>3. ASSUME NEW q \in Procs, (Ask(q) \/ Recheck(q) \/ Restart(q)) PROVE FALSE
  BY <1>3 DEF Ask, Recheck, Restart, NoResult, TypeOK, MemTyped
<1>4. ASSUME NEW t \in Tasks,
             (GetCached(t) \/ TakeLock(t) \/ Poll(t) \/ ClearFetched(t) \/ Answer(t))
      PROVE  FALSE
  BY <1>4 DEF GetCached, TakeLock, Poll, ClearFetched, Answer
<1>5. ASSUME NEW t \in Tasks, (Refuse(t) \/ PutFetched(t) \/ SavePrevious(t)) PROVE FALSE
  <2>1. PICK s \in {"invalid", "live", "none"} :
          mem' = mem \/ mem' = [mem EXCEPT ![t[1]] = [status |-> s, at |-> IF s = "none" THEN 0 ELSE now]]
    BY <1>5 DEF Refuse, PutFetched, SavePrevious, Result, NoResult
  <2>2. mem'[p] = mem[p] \/ mem'[p].status = s
    BY <2>1 DEF TypeOK, MemTyped
  <2> QED BY <2>2
<1>6. ASSUME NEW answer \in Answers, ServerTurns(answer) PROVE FALSE
  BY <1>6 DEF ServerTurns
<1>7. CASE Tick
  BY <1>7 DEF Tick, NoResult
<1>8. CASE UNCHANGED vars
  BY <1>8 DEF vars
<1> QED BY <1>1, <1>2, <1>3, <1>4, <1>5, <1>6, <1>7, <1>8 DEF Next

(* A saved confirmation is good for the whole grace period: until then no     *)
(* page finds the licence unreachable, unless a call of Redis failed or an   *)
(* evaluation that had read no confirmation was already giving up.           *)
THEOREM GraceHolds == Spec => GraceHeld
<1>1. Init => EarnedInv
  BY DEF Init, EarnedInv, Forfeit
<1>2. TypeOK /\ TypeOK' /\ EarnedInv /\ [Next]_vars
        => [\A p \in Procs :
              (mem'[p] # mem[p] /\ mem'[p].status = "unreachable") =>
                 \/ earned = Never \/ now >= earned + Grace
                 \/ raced \/ faults' > 0]_vars
  <2> SUFFICES ASSUME TypeOK, TypeOK', EarnedInv, [Next]_vars, NEW p \in Procs,
                      mem'[p] # mem[p], mem'[p].status = "unreachable"
               PROVE  earned = Never \/ now >= earned + Grace \/ raced \/ faults' > 0
    OBVIOUS
  <2>1. Forfeit \/ faults' > 0
    BY StepHeld
  <2>2. faults > 0 => faults' > 0
    BY FaultsGrow
  <2> QED BY <2>1, <2>2 DEF Forfeit
<1>3. Spec => [](TypeOK /\ EarnedInv)
  BY <1>1, InitTyped, NextTyped, NextEarned, PTL DEF Spec
<1> QED BY <1>2, <1>3, PTL DEF Spec, GraceHeld
===============================================================================
