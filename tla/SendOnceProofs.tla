--------------------------- MODULE SendOnceProofs ---------------------------
(***************************************************************************)
(* At most one message per step, no completion without all of them, no       *)
(* verdict overturned, and the contract: for every value of the constants,   *)
(* as long as the mail server never takes a message it reports as refused.   *)
(* Then, without that condition: one charge per run, truthful markers.       *)
(* Every step of the runner is first reduced to one of eight effects on the  *)
(* handlers, the rows and the messages.                                      *)
(***************************************************************************)
EXTENDS WorkflowRunnerProofs

-----------------------------------------------------------------------------
(* The effects                                                               *)

Others(w) == \A v \in Workers \ {w} : wk'[v] = wk[v]

Stays(w) == wk'[w].run = wk[w].run /\ wk'[w].step = wk[w].step

(* One run's status moves on, short of completion and deletion.              *)
Advance(r) ==
    \/ run[r] = "none" /\ run' = [run EXCEPT ![r] = "queued"]
    \/ run[r] = "queued" /\ run' = [run EXCEPT ![r] = "running"]
    \/ run[r] \in {"queued", "running"} /\ run' = [run EXCEPT ![r] = "failed"]

RunsAdvance == run' = run \/ \E r \in Runs : Advance(r)

(* Steps that leave the handlers and the messages alone.                     *)
Outside == UNCHANGED <<wk, sent, log>> /\ RunsAdvance

Deletes ==
    /\ UNCHANGED <<wk, sent>>
    /\ \E r \in Runs : /\ Exists(r)
                       /\ run' = [run EXCEPT ![r] = "deleted"]
                       /\ log' = [log EXCEPT ![r] = NoLog]

Skips ==
    /\ UNCHANGED <<wk, sent, run>>
    /\ \E r \in Runs : log' = [log EXCEPT ![r] =
            [s \in Steps |-> IF log[r][s] = "running" THEN "skipped" ELSE log[r][s]]]

(* Steps of one handler.                                                     *)
Quiet(w) ==
    /\ Others(w)
    /\ wk'[w].pc \notin {"send", "record"}
    /\ UNCHANGED <<log, sent>>
    /\ RunsAdvance

Claims(w) ==
    LET r == wk[w].run
        s == wk[w].step
    IN
    /\ wk[w].pc \in {"create", "takeover"}
    /\ Exists(r) /\ log[r][s] \in {"none", "failed"}
    /\ WriteLog(r, s, "running")
    /\ UNCHANGED <<run, sent>>
    /\ Others(w) /\ Stays(w) /\ wk'[w].pc \in {"send", "fail"}

Mails(w) ==
    LET r == wk[w].run
        s == wk[w].step
    IN
    /\ wk[w].pc = "send"
    /\ IF wk'[w].sendOk THEN sent' = [sent EXCEPT ![r][s] = @ + 1] ELSE sent' = sent
    /\ UNCHANGED <<run, log>>
    /\ Others(w) /\ Stays(w) /\ wk'[w].pc = "record"

Records(w) ==
    LET r == wk[w].run
        s == wk[w].step
    IN
    /\ wk[w].pc = "record"
    /\ Exists(r)
    /\ WriteLog(r, s, IF wk[w].sendOk THEN "succeeded" ELSE "failed")
    /\ UNCHANGED <<run, sent>>
    /\ Others(w) /\ wk'[w].run = r
    /\ \/ wk'[w].pc = "fail"
       \/ wk[w].sendOk /\ wk'[w].pc = "find" /\ wk'[w].step = s + 1
       \/ wk[w].sendOk /\ wk'[w].pc = "complete" /\ s = NumSteps

Completes(w) ==
    /\ wk[w].pc = "complete"
    /\ run[wk[w].run] = "running"
    /\ run' = [run EXCEPT ![wk[w].run] = "completed"]
    /\ UNCHANGED <<log, sent>>
    /\ Others(w) /\ wk'[w].pc \in {"idle", "fail"} /\ (wk'[w].pc = "fail" => Stays(w))

-----------------------------------------------------------------------------
(* What the moves of a handler leave behind.                                 *)
LEMMA IdleMoves ==
    ASSUME TypeOK, NEW w \in Workers, MovesTo(w, Idle)
    PROVE  Others(w) /\ wk'[w].pc = "idle"
BY DEF TypeOK, ExecutorTypeOK, MovesTo, Others, Idle

LEMMA GotoMoves ==
    ASSUME TypeOK, NEW w \in Workers, NEW p, Goto(w, p)
    PROVE  /\ Others(w) /\ Stays(w) /\ wk'[w].pc = p
           /\ wk'[w].loaded = wk[w].loaded /\ wk'[w].sendOk = wk[w].sendOk
BY DEF TypeOK, ExecutorTypeOK, HandlerState, Goto, MovesTo, Others, Stays

LEMMA StepDoneMoves ==
    ASSUME TypeOK, NEW w \in Workers, NEW i \in 0..NumSteps, StepDone(w, i)
    PROVE  /\ Others(w) /\ wk'[w].run = wk[w].run
           /\ \/ wk'[w].pc = "find" /\ wk'[w].step = i + 1 /\ i + 1 \in Steps
              \/ wk'[w].pc = "complete" /\ i = NumSteps
<1> USE StepsAssumption
<1>1. CASE i < NumSteps
  <2>1. i + 1 \in Steps
    BY <1>1 DEF Steps
  <2>2. MovesTo(w, [wk[w] EXCEPT !.pc = "find", !.step = i + 1])
    BY <1>1 DEF StepDone
  <2> QED
    BY <2>1, <2>2 DEF TypeOK, ExecutorTypeOK, HandlerState, MovesTo, Others
<1>2. CASE ~(i < NumSteps)
  BY <1>2, GotoMoves DEF StepDone, Stays
<1> QED
  BY <1>1, <1>2

-----------------------------------------------------------------------------
(* What every step leaves true of a handler that does not move.              *)
Keeps(w) ==
    /\ \A r \in Runs :
          /\ run[r] # "none" => run'[r] # "none"
          /\ run[r] \notin {"none", "queued"} => run'[r] \notin {"none", "queued"}
    /\ \A r \in Runs, t \in Steps : Went(r, t) => Went(r, t)'
    /\ \A r \in Runs, t \in Steps : Owns(w, r, t) => sent'[r][t] = sent[r][t]

LEMMA StepTyped ==
    ASSUME TypeOK, NEW w \in Workers
    PROVE  /\ wk[w].pc # "idle" => wk[w].run \in Runs
           /\ wk[w].pc \in InStep => /\ wk[w].step \in Steps
                                     /\ 1..(wk[w].step - 1) \subseteq Steps
<1>1. wk[w].pc \in InStep => wk[w].step \in Steps
  BY DEF TypeOK, ExecutorTypeOK
<1> QED
  BY <1>1, StepsAssumption DEF TypeOK, ExecutorTypeOK, Steps

LEMMA KeepsHandler ==
    ASSUME TypeOK, NEW w \in Workers, HandlerOK(w), wk'[w] = wk[w], Keeps(w)
    PROVE  HandlerOK(w)'
<1> DEFINE r == wk[w].run
           s == wk[w].step
<1>1. CASE wk[w].pc = "idle"
  BY <1>1 DEF HandlerOK, InStep
<1>2. CASE wk[w].pc # "idle"
  <2>1. r \in Runs
    BY <1>2, StepTyped
  <2>2. wk[w].pc \in {"send", "record"} => Owns(w, r, s) /\ s \in Steps
    BY StepTyped DEF Owns, InStep
  <2>3. wk[w].pc \in InStep => 1..(s - 1) \subseteq Steps
    BY StepTyped
  <2>4. /\ wk'[w].pc \notin {"idle", "load"} => run'[r] # "none"
        /\ wk'[w].pc \in InStep \cup {"context", "complete"} => run'[r] # "queued"
    BY <2>1 DEF HandlerOK, Keeps, InStep
  <2>5. wk'[w].pc \in InStep => \A t \in 1..(s - 1) : Went(r, t)'
    BY <2>1, <2>3 DEF HandlerOK, Keeps
  <2>6. wk'[w].pc = "complete" => \A t \in Steps : Went(r, t)'
    BY <2>1 DEF HandlerOK, Keeps
  <2>7. /\ wk'[w].pc = "send" => sent'[r][s] = 0
        /\ wk'[w].pc = "record" => sent'[r][s] = IF wk'[w].sendOk THEN 1 ELSE 0
    BY <2>1, <2>2 DEF HandlerOK, Keeps
  <2> QED
    BY <2>4, <2>5, <2>6, <2>7 DEF HandlerOK
<1> QED
  BY <1>1, <1>2

(* The runs' statuses move on.                                               *)
LEMMA RunsAdvanceEffect ==
    ASSUME TypeOK, RunsAdvance
    PROVE  \A r \in Runs :
              \/ run'[r] = run[r]
              \/ run[r] = "none" /\ run'[r] = "queued"
              \/ run[r] = "queued" /\ run'[r] = "running"
              \/ run[r] \in {"queued", "running"} /\ run'[r] = "failed"
<1>1. CASE run' = run
  BY <1>1
<1>2. ASSUME NEW q \in Runs, Advance(q)
      PROVE  \A r \in Runs :
              \/ run'[r] = run[r]
              \/ run[r] = "none" /\ run'[r] = "queued"
              \/ run[r] = "queued" /\ run'[r] = "running"
              \/ run[r] \in {"queued", "running"} /\ run'[r] = "failed"
  BY <1>2 DEF Advance, TypeOK, TablesTypeOK
<1> QED
  BY <1>1, <1>2 DEF RunsAdvance

LEMMA AdvanceKeeps ==
    ASSUME TypeOK, RunsAdvance, UNCHANGED <<log, sent>>, NEW w
    PROVE  Keeps(w)
BY RunsAdvanceEffect DEF Keeps, Went

(* Statuses move on, rows and messages stay: nobody becomes an owner.        *)
LEMMA AdvanceSafe ==
    ASSUME TypeOK, SendInv, RunsAdvance, UNCHANGED <<log, sent>>,
           \A w \in Workers : wk'[w] = wk[w] \/ wk'[w].pc \notin {"send", "record"},
           HandlerInv'
    PROVE  SendInv'
<1>1. \A r \in Runs :
          \/ run'[r] = run[r]
          \/ run[r] = "none" /\ run'[r] = "queued"
          \/ run[r] = "queued" /\ run'[r] = "running"
          \/ run[r] \in {"queued", "running"} /\ run'[r] = "failed"
  BY RunsAdvanceEffect
<1>2. ASSUME NEW w \in Workers, NEW r \in Runs, NEW s \in Steps, Owns(w, r, s)'
      PROVE  Owns(w, r, s) /\ (Exists(r)' => Exists(r))
  <2>1. Owns(w, r, s)
    BY <1>2 DEF Owns
  <2>2. run[r] # "none"
    BY <2>1 DEF Owns, SendInv, HandlerInv, HandlerOK
  <2> QED
    BY <1>1, <2>1, <2>2 DEF Exists
<1>3. OwnerInv'
  BY <1>2 DEF SendInv, OwnerInv
<1>4. LogInv'
  BY <1>1 DEF SendInv, LogInv
<1>5. AtMostOnceEmail'
  BY DEF SendInv, AtMostOnceEmail
<1>6. CompletedMeansAllSent'
  BY <1>1 DEF SendInv, CompletedMeansAllSent
<1> QED
  BY <1>3, <1>4, <1>5, <1>6 DEF SendInv

LEMMA OutsideSafe == ASSUME TypeOK, SendInv, Outside PROVE SendInv'
<1>1. HandlerInv'
  BY AdvanceKeeps, KeepsHandler DEF Outside, SendInv, HandlerInv
<1> QED
  BY <1>1, AdvanceSafe DEF Outside

LEMMA QuietSafe ==
    ASSUME TypeOK, SendInv, NEW w \in Workers, Quiet(w), HandlerOK(w)'
    PROVE  SendInv'
<1>1. ASSUME NEW v \in Workers, v # w PROVE HandlerOK(v)'
  BY <1>1, AdvanceKeeps, KeepsHandler DEF Quiet, Others, SendInv, HandlerInv
<1>2. HandlerInv'
  BY <1>1 DEF HandlerInv
<1> QED
  BY <1>2, AdvanceSafe DEF Quiet, Others

LEMMA DeletesSafe == ASSUME TypeOK, SendInv, Deletes PROVE SendInv'
<1>1. PICK r \in Runs : /\ Exists(r)
                        /\ run' = [run EXCEPT ![r] = "deleted"]
                        /\ log' = [log EXCEPT ![r] = NoLog]
  BY DEF Deletes
<1>2. /\ run'[r] = "deleted" /\ \A s \in Steps : log'[r][s] = "none"
      /\ \A q \in Runs \ {r} : run'[q] = run[q] /\ log'[q] = log[q]
  BY <1>1 DEF TypeOK, TablesTypeOK, NoLog
<1>3. wk' = wk /\ sent' = sent
  BY DEF Deletes
<1>4. \A q \in Runs, s \in Steps : Went(q, s) => Went(q, s)'
  BY <1>2, <1>3 DEF Went
<1>5. HandlerInv'
  <2>1. ASSUME NEW w \in Workers PROVE Keeps(w)
    BY <1>2, <1>3, <1>4 DEF Keeps
  <2> QED
    BY <1>3, <2>1, KeepsHandler DEF SendInv, HandlerInv
<1>6. OwnerInv'
  <2>1. \A w \in Workers, q \in Runs, s \in Steps : Owns(w, q, s)' <=> Owns(w, q, s)
    BY <1>3 DEF Owns
  <2>2. \A q \in Runs : Exists(q)' => q # r /\ Exists(q)
    BY <1>2 DEF Exists
  <2> QED
    BY <1>2, <2>1, <2>2 DEF SendInv, OwnerInv
<1>7. LogInv'
  BY <1>2, <1>3 DEF SendInv, LogInv
<1>8. AtMostOnceEmail' /\ CompletedMeansAllSent'
  BY <1>2, <1>3 DEF SendInv, AtMostOnceEmail, CompletedMeansAllSent
<1> QED
  BY <1>5, <1>6, <1>7, <1>8 DEF SendInv

LEMMA SkipsSafe == ASSUME TypeOK, SendInv, Skips PROVE SendInv'
<1>1. \A r \in Runs, s \in Steps :
          \/ log'[r][s] = log[r][s]
          \/ log[r][s] = "running" /\ log'[r][s] = "skipped"
  <2>1. PICK q \in Runs : log' = [log EXCEPT ![q] =
            [s \in Steps |-> IF log[q][s] = "running" THEN "skipped" ELSE log[q][s]]]
    BY DEF Skips
  <2>2. ASSUME NEW r \in Runs, NEW s \in Steps
        PROVE  \/ log'[r][s] = log[r][s]
               \/ log[r][s] = "running" /\ log'[r][s] = "skipped"
    BY <2>1 DEF TypeOK, TablesTypeOK
  <2> QED
    BY <2>2
<1>2. wk' = wk /\ sent' = sent /\ run' = run
  BY DEF Skips
<1>3. \A q \in Runs, s \in Steps : Went(q, s) => Went(q, s)'
  BY <1>1, <1>2 DEF Went
<1>4. HandlerInv'
  <2>1. ASSUME NEW w \in Workers PROVE Keeps(w)
    BY <1>2, <1>3 DEF Keeps
  <2> QED
    BY <1>2, <2>1, KeepsHandler DEF SendInv, HandlerInv
<1>5. OwnerInv'
  BY <1>1, <1>2 DEF SendInv, OwnerInv, Owns, Exists
<1>6. LogInv'
  BY <1>1, <1>2 DEF SendInv, LogInv
<1>7. AtMostOnceEmail' /\ CompletedMeansAllSent'
  BY <1>1, <1>2 DEF SendInv, AtMostOnceEmail, CompletedMeansAllSent
<1> QED
  BY <1>4, <1>5, <1>6, <1>7 DEF SendInv

(* Writing one step's row.                                                   *)
LEMMA WriteLogEffect ==
    ASSUME TypeOK, NEW r \in Runs, NEW s \in Steps, NEW status, WriteLog(r, s, status)
    PROVE  /\ log'[r][s] = status
           /\ \A q \in Runs, t \in Steps : q # r \/ t # s => log'[q][t] = log[q][t]
BY DEF TypeOK, TablesTypeOK, WriteLog

LEMMA OwnsAreRuns ==
    ASSUME NEW w, NEW r, NEW s, Owns(w, r, s)
    PROVE  wk[w].pc \in InStep /\ wk[w].run = r /\ wk[w].step = s
BY DEF Owns, InStep

(* A claim: the row was free, so nobody else owns the step.                  *)
LEMMA ClaimsSafe ==
    ASSUME TypeOK, SendInv, NEW w \in Workers, Claims(w)
    PROVE  SendInv'
<1>0. PICK r \in Runs, s \in Steps : r = wk[w].run /\ s = wk[w].step
  BY StepTyped DEF Claims, InStep
<1>1. r = wk[w].run /\ s = wk[w].step /\ 1..(s - 1) \subseteq Steps
  BY <1>0, StepTyped DEF Claims, InStep
<1> USE <1>0
<1>2. /\ Exists(r) /\ log[r][s] \in {"none", "failed"}
      /\ run' = run /\ sent' = sent /\ Others(w) /\ Stays(w)
      /\ wk'[w].pc \in {"send", "fail"}
      /\ wk[w].pc \in {"create", "takeover"}
  BY DEF Claims
<1>3. /\ log'[r][s] = "running"
      /\ \A q \in Runs, t \in Steps : q # r \/ t # s => log'[q][t] = log[q][t]
  BY <1>1, WriteLogEffect DEF Claims
<1>4. \A v \in Workers : ~Owns(v, r, s)
  BY <1>1, <1>2 DEF SendInv, OwnerInv
<1>5. \A q \in Runs, t \in Steps : Went(q, t) => Went(q, t)'
  BY <1>2, <1>3 DEF Went, Exists
<1>6. sent[r][s] = 0
  BY <1>1, <1>2 DEF SendInv, LogInv, Exists
<1>7. HandlerInv'
  <2>1. ASSUME NEW v \in Workers, v # w PROVE HandlerOK(v)'
    <3>1. Keeps(v)
      BY <1>2, <1>5 DEF Keeps
    <3> QED
      BY <1>2, <2>1, <3>1, KeepsHandler DEF Others, SendInv, HandlerInv
  <2>2. HandlerOK(w)'
    <3>1. run[r] \notin {"none", "queued"}
      BY <1>2 DEF SendInv, HandlerInv, HandlerOK, InStep
    <3>2. \A t \in 1..(s - 1) : Went(r, t)'
      <4>1. \A t \in 1..(s - 1) : Went(r, t)
        BY <1>2 DEF SendInv, HandlerInv, HandlerOK, InStep
      <4> QED
        BY <1>1, <1>5, <4>1
    <3> QED
      BY <1>2, <1>6, <3>1, <3>2 DEF HandlerOK, Stays
  <2> QED
    BY <2>1, <2>2 DEF HandlerInv
<1>8. OwnerInv'
  <2>1. ASSUME NEW v \in Workers, NEW q \in Runs, NEW t \in Steps, Owns(v, q, t)'
        PROVE  \/ v = w /\ q = r /\ t = s
               \/ v # w /\ Owns(v, q, t) /\ ~(q = r /\ t = s)
    BY <1>2, <1>4, <2>1 DEF Owns, Others, Stays
  <2>2. ASSUME NEW u \in Workers, NEW v \in Workers, NEW q \in Runs, NEW t \in Steps,
               Owns(u, q, t)', Owns(v, q, t)'
        PROVE  u = v
    BY <2>1, <2>2 DEF SendInv, OwnerInv
  <2>3. ASSUME NEW v \in Workers, NEW q \in Runs, NEW t \in Steps,
               Owns(v, q, t)', Exists(q)'
        PROVE  log'[q][t] \in {"running", "skipped"}
    <3>1. Exists(q)
      BY <1>2, <2>3 DEF Exists
    <3> QED
      BY <1>3, <2>1, <2>3, <3>1 DEF SendInv, OwnerInv
  <2> QED
    BY <2>2, <2>3 DEF OwnerInv
<1>9. LogInv'
  <2>1. ASSUME NEW q \in Runs, NEW t \in Steps, q # r \/ t # s
        PROVE  /\ run'[q] # "deleted" /\ log'[q][t] = "none" => sent'[q][t] = 0
               /\ log'[q][t] = "failed" => sent'[q][t] = 0
               /\ log'[q][t] = "succeeded" => sent'[q][t] = 1
               /\ run'[q] = "deleted" => log'[q][t] = "none"
    BY <1>2, <1>3, <2>1 DEF SendInv, LogInv
  <2> QED
    BY <1>2, <1>3, <2>1 DEF LogInv, Exists
<1>10. AtMostOnceEmail' /\ CompletedMeansAllSent'
  BY <1>2, <1>3 DEF SendInv, AtMostOnceEmail, CompletedMeansAllSent
<1> QED
  BY <1>7, <1>8, <1>9, <1>10 DEF SendInv

(* A send: only the owner sends, and only once.                              *)
LEMMA MailsSafe ==
    ASSUME TypeOK, SendInv, NEW w \in Workers, Mails(w)
    PROVE  SendInv'
<1>0. PICK r \in Runs, s \in Steps : r = wk[w].run /\ s = wk[w].step
  BY StepTyped DEF Mails, InStep
<1>1. r = wk[w].run /\ s = wk[w].step /\ 1..(s - 1) \subseteq Steps
  BY <1>0, StepTyped DEF Mails, InStep
<1> USE <1>0
<1>2. /\ run' = run /\ log' = log /\ Others(w) /\ Stays(w)
      /\ wk[w].pc = "send" /\ wk'[w].pc = "record"
      /\ Owns(w, r, s)
  BY DEF Mails, Owns
<1>3. sent[r][s] = 0 /\ run[r] \notin {"none", "queued"}
  BY <1>2 DEF SendInv, HandlerInv, HandlerOK, InStep
<1>4. /\ sent'[r][s] = IF wk'[w].sendOk THEN 1 ELSE 0
      /\ \A q \in Runs, t \in Steps : q # r \/ t # s => sent'[q][t] = sent[q][t]
  <2>1. sent \in [Runs -> [Steps -> Nat]]
    BY DEF TypeOK, ExecutorTypeOK
  <2>2. CASE wk'[w].sendOk
    BY <1>1, <1>3, <2>1, <2>2 DEF Mails
  <2>3. CASE ~wk'[w].sendOk
    BY <1>3, <2>3 DEF Mails
  <2> QED
    BY <2>2, <2>3
<1>5. \A v \in Workers \ {w} : ~Owns(v, r, s)
  BY <1>1, <1>2 DEF SendInv, OwnerInv
<1>6. \A q \in Runs, t \in Steps : Went(q, t) => Went(q, t)'
  BY <1>2, <1>3, <1>4 DEF Went
<1>7. run[r] # "deleted" => log[r][s] \in {"running", "skipped"}
  BY <1>1, <1>2, <1>3 DEF SendInv, OwnerInv, Exists
<1>8. HandlerInv'
  <2>1. ASSUME NEW v \in Workers, v # w PROVE HandlerOK(v)'
    <3>1. Keeps(v)
      BY <1>2, <1>4, <1>5, <1>6, <2>1 DEF Keeps
    <3> QED
      BY <1>2, <2>1, <3>1, KeepsHandler DEF Others, SendInv, HandlerInv
  <2>2. HandlerOK(w)'
    <3>1. \A t \in 1..(s - 1) : Went(r, t)
      BY <1>2 DEF SendInv, HandlerInv, HandlerOK, InStep
    <3>2. \A t \in 1..(s - 1) : Went(r, t)'
      BY <1>1, <1>6, <3>1
    <3> QED
      BY <1>2, <1>3, <1>4, <3>2 DEF HandlerOK, Stays
  <2> QED
    BY <2>1, <2>2 DEF HandlerInv
<1>9. OwnerInv'
  <2>1. \A v \in Workers, q \in Runs, t \in Steps : Owns(v, q, t)' => Owns(v, q, t)
    BY <1>2 DEF Owns, Others, Stays
  <2> QED
    BY <1>2, <2>1 DEF SendInv, OwnerInv, Exists
<1>10. LogInv'
  <2>1. ASSUME NEW q \in Runs, NEW t \in Steps, q # r \/ t # s
        PROVE  /\ run'[q] # "deleted" /\ log'[q][t] = "none" => sent'[q][t] = 0
               /\ log'[q][t] = "failed" => sent'[q][t] = 0
               /\ log'[q][t] = "succeeded" => sent'[q][t] = 1
               /\ run'[q] = "deleted" => log'[q][t] = "none"
    BY <1>2, <1>4, <2>1 DEF SendInv, LogInv
  <2>2. run[r] = "deleted" => log[r][s] = "none"
    BY <1>1 DEF SendInv, LogInv
  <2> QED
    BY <1>2, <1>7, <2>1, <2>2 DEF LogInv
<1>11. AtMostOnceEmail'
  BY <1>4 DEF SendInv, AtMostOnceEmail
<1>12. CompletedMeansAllSent'
  <2>1. run[r] # "completed"
    BY <1>1, <1>7 DEF SendInv, CompletedMeansAllSent
  <2> QED
    BY <1>2, <1>4, <2>1 DEF SendInv, CompletedMeansAllSent
<1> QED
  BY <1>8, <1>9, <1>10, <1>11, <1>12 DEF SendInv

(* An outcome recorded by the owner says whether the message went out.       *)
LEMMA RecordsSafe ==
    ASSUME TypeOK, SendInv, NEW w \in Workers, Records(w)
    PROVE  SendInv'
<1>0. PICK r \in Runs, s \in Steps : r = wk[w].run /\ s = wk[w].step
  BY StepTyped DEF Records, InStep
<1>1. r = wk[w].run /\ s = wk[w].step /\ 1..(s - 1) \subseteq Steps
  BY <1>0, StepTyped DEF Records, InStep
<1> USE <1>0
<1>2. /\ run' = run /\ sent' = sent /\ Others(w) /\ wk'[w].run = r
      /\ wk[w].pc = "record" /\ wk'[w].pc \in {"fail", "find", "complete"}
      /\ Owns(w, r, s) /\ Exists(r)
  BY DEF Records, Owns
<1>3. /\ sent[r][s] = IF wk[w].sendOk THEN 1 ELSE 0
      /\ run[r] \notin {"none", "queued"}
  BY <1>2 DEF SendInv, HandlerInv, HandlerOK, InStep
<1>4. /\ log'[r][s] = IF wk[w].sendOk THEN "succeeded" ELSE "failed"
      /\ \A q \in Runs, t \in Steps : q # r \/ t # s => log'[q][t] = log[q][t]
  BY <1>1, WriteLogEffect DEF Records
<1>5. log[r][s] \in {"running", "skipped"}
  BY <1>1, <1>2 DEF SendInv, OwnerInv
<1>6. \A v \in Workers \ {w} : ~Owns(v, r, s)
  BY <1>1, <1>2 DEF SendInv, OwnerInv
<1>7. \A q \in Runs, t \in Steps : Went(q, t) => Went(q, t)'
  BY <1>2, <1>4, <1>5 DEF Went, Exists
<1>8. wk[w].sendOk => \A t \in 1..s : Went(r, t)'
  <2>1. \A t \in 1..(s - 1) : Went(r, t)
    BY <1>2 DEF SendInv, HandlerInv, HandlerOK, InStep
  <2>2. \A t \in 1..(s - 1) : Went(r, t)'
    BY <1>1, <1>7, <2>1
  <2>3. wk[w].sendOk => Went(r, s)'
    BY <1>2, <1>3, <1>4 DEF Went
  <2>4. \A t \in 1..s : t = s \/ t \in 1..(s - 1)
    BY <1>1 DEF Steps
  <2> QED
    BY <2>2, <2>3, <2>4
<1>9. HandlerInv'
  <2>1. ASSUME NEW v \in Workers, v # w PROVE HandlerOK(v)'
    <3>1. Keeps(v)
      BY <1>2, <1>7 DEF Keeps
    <3> QED
      BY <1>2, <2>1, <3>1, KeepsHandler DEF Others, SendInv, HandlerInv
  <2>2. HandlerOK(w)'
    <3>1. CASE wk'[w].pc = "fail"
      BY <1>2, <1>3, <3>1 DEF HandlerOK, InStep
    <3>2. CASE wk'[w].pc = "find"
      <4>1. wk[w].sendOk /\ wk'[w].step = s + 1 /\ (s + 1) - 1 = s
        BY <1>1, <3>2 DEF Records, Steps
      <4> QED
        BY <1>2, <1>3, <1>8, <3>2, <4>1 DEF HandlerOK, InStep
    <3>3. CASE wk'[w].pc = "complete"
      <4>1. wk[w].sendOk /\ Steps = 1..s
        BY <3>3 DEF Records, Steps
      <4> QED
        BY <1>2, <1>3, <1>8, <3>3, <4>1 DEF HandlerOK, InStep
    <3> QED
      BY <1>2, <3>1, <3>2, <3>3
  <2> QED
    BY <2>1, <2>2 DEF HandlerInv
<1>10. OwnerInv'
  <2>1. ASSUME NEW v \in Workers, NEW q \in Runs, NEW t \in Steps, Owns(v, q, t)'
        PROVE  Owns(v, q, t) /\ ~(q = r /\ t = s)
    BY <1>2, <1>6, <2>1 DEF Owns, Others
  <2> QED
    BY <1>2, <1>4, <2>1 DEF SendInv, OwnerInv, Exists
<1>11. LogInv'
  <2>1. ASSUME NEW q \in Runs, NEW t \in Steps, q # r \/ t # s
        PROVE  /\ run'[q] # "deleted" /\ log'[q][t] = "none" => sent'[q][t] = 0
               /\ log'[q][t] = "failed" => sent'[q][t] = 0
               /\ log'[q][t] = "succeeded" => sent'[q][t] = 1
               /\ run'[q] = "deleted" => log'[q][t] = "none"
    BY <1>2, <1>4, <2>1 DEF SendInv, LogInv
  <2> QED
    BY <1>2, <1>3, <1>4, <2>1 DEF LogInv, Exists
<1>12. AtMostOnceEmail'
  BY <1>2 DEF SendInv, AtMostOnceEmail
<1>13. CompletedMeansAllSent'
  <2>1. run[r] # "completed"
    BY <1>1, <1>5 DEF SendInv, CompletedMeansAllSent
  <2> QED
    BY <1>2, <1>4, <2>1 DEF SendInv, CompletedMeansAllSent
<1> QED
  BY <1>9, <1>10, <1>11, <1>12, <1>13 DEF SendInv

(* A completion: the handler has seen every step out.                        *)
LEMMA CompletesSafe ==
    ASSUME TypeOK, SendInv, NEW w \in Workers, Completes(w)
    PROVE  SendInv'
<1> DEFINE r == wk[w].run
<1>1. r \in Runs
  BY StepTyped DEF Completes
<1>2. /\ log' = log /\ sent' = sent /\ Others(w)
      /\ wk[w].pc = "complete" /\ run[r] = "running"
      /\ wk'[w].pc \in {"idle", "fail"} /\ (wk'[w].pc = "fail" => wk'[w].run = r)
  BY DEF Completes, Stays
<1>3. run'[r] = "completed" /\ \A q \in Runs \ {r} : run'[q] = run[q]
  BY <1>1 DEF Completes, TypeOK, TablesTypeOK
<1>4. \A t \in Steps : log[r][t] = "succeeded" /\ sent[r][t] = 1
  BY <1>2 DEF SendInv, HandlerInv, HandlerOK, Went
<1>5. HandlerInv'
  <2>1. ASSUME NEW v \in Workers, v # w PROVE HandlerOK(v)'
    <3>1. Keeps(v)
      BY <1>2, <1>3 DEF Keeps, Went
    <3> QED
      BY <1>2, <2>1, <3>1, KeepsHandler DEF Others, SendInv, HandlerInv
  <2>2. HandlerOK(w)'
    BY <1>2, <1>3 DEF HandlerOK, InStep
  <2> QED
    BY <2>1, <2>2 DEF HandlerInv
<1>6. OwnerInv'
  <2>1. \A v \in Workers, q \in Runs, t \in Steps : Owns(v, q, t)' => Owns(v, q, t)
    BY <1>2 DEF Owns, Others
  <2>2. \A q \in Runs : Exists(q)' => Exists(q)
    BY <1>2, <1>3 DEF Exists
  <2> QED
    BY <1>2, <2>1, <2>2 DEF SendInv, OwnerInv
<1>7. LogInv'
  BY <1>2, <1>3 DEF SendInv, LogInv
<1>8. AtMostOnceEmail' /\ CompletedMeansAllSent'
  BY <1>2, <1>3, <1>4 DEF SendInv, AtMostOnceEmail, CompletedMeansAllSent
<1> QED
  BY <1>5, <1>6, <1>7, <1>8 DEF SendInv

-----------------------------------------------------------------------------
(* Every step has one of the effects.                                        *)
HandlerStepKind(w) ==
    \/ Outside
    \/ Quiet(w) /\ HandlerOK(w)'
    \/ Claims(w)
    \/ Mails(w)
    \/ Records(w)
    \/ Completes(w)

LEMMA UpdateAdvances ==
    ASSUME TypeOK, NEW r \in Runs,
           \/ UpdateRun(r, {"queued"}, "running")
           \/ UpdateRun(r, {"queued"}, "failed")
           \/ UpdateRun(r, {"running"}, "failed")
           \/ UpdateRun(r, {"queued", "running"}, "failed")
           \/ UpdateRun(r, {"queued", "running"}, run[r])
           \/ MarkDispatched(r)
           \/ UNCHANGED rowVars
    PROVE  RunsAdvance
<1>1. run \in [Runs -> RunStatus]
  BY DEF TypeOK, TablesTypeOK
<1>2. CASE UNCHANGED rowVars
  BY <1>2 DEF rowVars, RunsAdvance
<1>3. CASE MarkDispatched(r)
  BY <1>3 DEF MarkDispatched, rowVars, RunsAdvance
<1>4. CASE UpdateRun(r, {"queued", "running"}, run[r])
  BY <1>1, <1>4 DEF UpdateRun, rowVars, RunsAdvance
<1>5. CASE UpdateRun(r, {"queued"}, "running")
  BY <1>5 DEF UpdateRun, rowVars, RunsAdvance, Advance
<1>6. CASE \/ UpdateRun(r, {"queued"}, "failed")
           \/ UpdateRun(r, {"running"}, "failed")
           \/ UpdateRun(r, {"queued", "running"}, "failed")
  BY <1>6 DEF UpdateRun, rowVars, RunsAdvance, Advance
<1> QED
  BY <1>2, <1>3, <1>4, <1>5, <1>6

(* A handler that comes to rest, or gives up, has nothing left to answer for.*)
LEMMA EndsQuietly ==
    ASSUME TypeOK, SendInv, NEW w \in Workers, UNCHANGED <<log, sent>>, RunsAdvance,
           MovesTo(w, Idle) \/ (Goto(w, "fail") /\ wk[w].pc \notin {"idle", "load"})
    PROVE  Quiet(w) /\ HandlerOK(w)'
<1>1. CASE MovesTo(w, Idle)
  BY <1>1, IdleMoves DEF Quiet, HandlerOK, InStep
<1>2. CASE Goto(w, "fail") /\ wk[w].pc \notin {"idle", "load"}
  <2>1. /\ Others(w) /\ wk'[w].pc = "fail" /\ wk'[w].run = wk[w].run
        /\ wk[w].run \in Runs /\ run[wk[w].run] # "none"
    BY <1>2, GotoMoves, StepTyped DEF Stays, SendInv, HandlerInv, HandlerOK
  <2>2. run'[wk[w].run] # "none"
    BY <2>1, AdvanceKeeps DEF Keeps
  <2> QED
    BY <2>1, <2>2 DEF Quiet, HandlerOK, InStep
<1> QED
  BY <1>1, <1>2

LEMMA DeliverKind ==
    ASSUME TypeOK, NEW w \in Workers, NEW r \in Runs, Deliver(w, r)
    PROVE  Quiet(w) /\ HandlerOK(w)'
<1>1. wk'[w].pc = "load" /\ Others(w)
  BY DEF Deliver, MovesTo, TypeOK, ExecutorTypeOK, Idle, Others
<1>2. UNCHANGED <<log, sent>> /\ RunsAdvance
  BY DEF Deliver, rowVars, RunsAdvance
<1> QED
  BY <1>1, <1>2 DEF Quiet, HandlerOK, InStep

LEMMA LoadRunKind ==
    ASSUME TypeOK, SendInv, NEW w \in Workers, LoadRun(w)
    PROVE  Quiet(w) /\ HandlerOK(w)'
<1>1. wk[w].pc = "load" /\ UNCHANGED <<log, sent>> /\ RunsAdvance /\ run' = run
  BY DEF LoadRun, At, rowVars, RunsAdvance
<1>2. CASE MovesTo(w, Idle)
  BY <1>1, <1>2, EndsQuietly
<1>3. CASE ~MovesTo(w, Idle)
  <2>0. PICK r \in Runs : r = wk[w].run
    BY <1>1, StepTyped
  <2>1. /\ Exists(r) /\ run[r] \notin Terminal
        /\ MovesTo(w, [wk[w] EXCEPT !.pc = "claim", !.loaded = run[r]])
    BY <1>3, <2>0 DEF LoadRun, Return, Throw
  <2>2. /\ Others(w) /\ wk'[w].pc = "claim" /\ wk'[w].run = r /\ wk'[w].loaded = run[r]
    BY <2>0, <2>1 DEF MovesTo, Others, TypeOK, ExecutorTypeOK, HandlerState
  <2>3. run[r] \in {"queued", "running"}
    BY <2>1 DEF Exists, Terminal, TypeOK, TablesTypeOK, RunStatus
  <2> QED
    BY <1>1, <2>2, <2>3 DEF Quiet, HandlerOK, InStep
<1> QED
  BY <1>2, <1>3

LEMMA ClaimRunKind ==
    ASSUME TypeOK, SendInv, NEW w \in Workers, ClaimRun(w)
    PROVE  Quiet(w) /\ HandlerOK(w)'
<1>0. PICK r \in Runs : r = wk[w].run
  BY StepTyped DEF ClaimRun, At
<1>1. wk[w].pc = "claim" /\ UNCHANGED <<log, sent>>
  BY DEF ClaimRun, At
<1>2. UpdateRun(r, {"queued"}, "running") \/ UNCHANGED rowVars
  BY <1>0 DEF ClaimRun
<1>3. RunsAdvance
  BY <1>2, UpdateAdvances
<1>4. CASE MovesTo(w, Idle) \/ Goto(w, "fail")
  BY <1>1, <1>3, <1>4, EndsQuietly
<1>5. CASE ~(MovesTo(w, Idle) \/ Goto(w, "fail"))
  <2>1. /\ Goto(w, "context") /\ UpdateRun(r, {"queued"}, "running")
        /\ run[r] = "queued" \/ wk[w].loaded # "queued"
    BY <1>0, <1>5 DEF ClaimRun, Return, Catch
  <2>2. Others(w) /\ wk'[w].pc = "context" /\ wk'[w].run = r
    BY <1>0, <2>1, GotoMoves DEF Stays
  <2>3. run[r] # "none" /\ (run[r] = "queued" \/ run[r] # "queued")
    BY <1>0, <1>1 DEF SendInv, HandlerInv, HandlerOK
  <2>4. run'[r] \notin {"none", "queued"}
    BY <2>1, <2>3 DEF UpdateRun, rowVars, TypeOK, TablesTypeOK
  <2> QED
    BY <1>1, <1>3, <2>2, <2>4 DEF Quiet, HandlerOK, InStep
<1> QED
  BY <1>4, <1>5

LEMMA StepDoneQuietly ==
    ASSUME TypeOK, NEW w \in Workers, NEW i \in 0..NumSteps, NEW r \in Runs, r = wk[w].run,
           StepDone(w, i), UNCHANGED <<run, log, sent>>,
           run[r] \notin {"none", "queued"}, \A t \in 1..i : Went(r, t)
    PROVE  Quiet(w) /\ HandlerOK(w)'
<1>1. /\ Others(w) /\ wk'[w].run = r
      /\ \/ wk'[w].pc = "find" /\ wk'[w].step = i + 1
         \/ wk'[w].pc = "complete" /\ i = NumSteps
  BY StepDoneMoves
<1>2. \A t \in 1..i : Went(r, t)'
  BY DEF Went
<1>3. (i + 1) - 1 = i
  BY StepsAssumption
<1>4. CASE wk'[w].pc = "find" /\ wk'[w].step = i + 1
  BY <1>1, <1>2, <1>3, <1>4 DEF HandlerOK, InStep, Quiet, RunsAdvance
<1>5. CASE wk'[w].pc = "complete" /\ i = NumSteps
  BY <1>1, <1>2, <1>5 DEF HandlerOK, InStep, Quiet, RunsAdvance, Steps
<1> QED
  BY <1>1, <1>4, <1>5

LEMMA LoadContextKind ==
    ASSUME TypeOK, SendInv, NEW w \in Workers, LoadContext(w)
    PROVE  Quiet(w) /\ HandlerOK(w)'
<1>1. wk[w].pc = "context" /\ UNCHANGED <<run, log, sent>>
  BY DEF LoadContext, At, rowVars
<1>2. CASE StepDone(w, 0)
  <2>1. wk[w].run \in Runs /\ run[wk[w].run] \notin {"none", "queued"}
    BY <1>1, StepTyped DEF SendInv, HandlerInv, HandlerOK
  <2> QED
    BY <1>1, <1>2, <2>1, StepDoneQuietly, StepsAssumption
<1>3. CASE ~StepDone(w, 0)
  BY <1>1, <1>3, EndsQuietly DEF LoadContext, Catch, RunsAdvance
<1> QED
  BY <1>2, <1>3

LEMMA GotoInStep ==
    ASSUME TypeOK, SendInv, NEW w \in Workers, NEW p \in {"create", "takeover"}, Goto(w, p),
           wk[w].pc = "find", UNCHANGED <<run, log, sent>>
    PROVE  Quiet(w) /\ HandlerOK(w)'
<1>0. PICK r \in Runs, s \in Steps : r = wk[w].run /\ s = wk[w].step
  BY StepTyped DEF InStep
<1>1. Others(w) /\ wk'[w].pc = p /\ wk'[w].run = r /\ wk'[w].step = s
  BY <1>0, GotoMoves DEF Stays
<1>2. run[r] \notin {"none", "queued"} /\ \A t \in 1..(s - 1) : Went(r, t)
  BY <1>0 DEF SendInv, HandlerInv, HandlerOK, InStep
<1>3. \A t \in 1..(s - 1) : Went(r, t)'
  BY <1>2 DEF Went
<1> QED
  BY <1>1, <1>2, <1>3 DEF Quiet, HandlerOK, InStep, RunsAdvance

LEMMA FindStepKind ==
    ASSUME TypeOK, SendInv, NEW w \in Workers, FindStep(w)
    PROVE  Quiet(w) /\ HandlerOK(w)'
<1>0. PICK r \in Runs, s \in Steps : r = wk[w].run /\ s = wk[w].step
  BY StepTyped DEF FindStep, At, InStep
<1>1. wk[w].pc = "find" /\ UNCHANGED <<run, log, sent>> /\ RunsAdvance
  BY DEF FindStep, At, rowVars, RunsAdvance
<1>2. CASE StepDone(w, s) /\ log[r][s] = "succeeded"
  <2>1. s \in 0..NumSteps /\ \A t \in 1..s : t = s \/ t \in 1..(s - 1)
    BY StepsAssumption DEF Steps
  <2>2. run[r] \notin {"none", "queued"} /\ \A t \in 1..(s - 1) : Went(r, t)
    BY <1>0, <1>1 DEF SendInv, HandlerInv, HandlerOK, InStep
  <2>3. Went(r, s)
    BY <1>2 DEF Went, SendInv, LogInv
  <2>4. \A t \in 1..s : Went(r, t)
    BY <2>1, <2>2, <2>3
  <2> QED
    BY <1>0, <1>1, <1>2, <2>1, <2>2, <2>4, StepDoneQuietly
<1>3. CASE Goto(w, "create") \/ Goto(w, "takeover")
  BY <1>1, <1>3, GotoInStep
<1>4. CASE MovesTo(w, Idle) \/ Goto(w, "fail")
  BY <1>1, <1>4, EndsQuietly
<1> QED
  BY <1>0, <1>2, <1>3, <1>4 DEF FindStep, Return, Catch

LEMMA CreateStepKind ==
    ASSUME TypeOK, SendInv, NEW w \in Workers, CreateStep(w)
    PROVE  HandlerStepKind(w)
<1>1. wk[w].pc = "create" /\ UNCHANGED <<run, sent>>
  BY DEF CreateStep, At, rowVars
<1>2. CASE /\ Exists(wk[w].run) /\ log[wk[w].run][wk[w].step] = "none"
           /\ WriteLog(wk[w].run, wk[w].step, "running")
           /\ Goto(w, "send") \/ Goto(w, "fail")
  BY <1>1, <1>2, GotoMoves DEF Claims, HandlerStepKind
<1>3. CASE UNCHANGED log /\ (MovesTo(w, Idle) \/ Goto(w, "fail"))
  BY <1>1, <1>3, EndsQuietly DEF HandlerStepKind, RunsAdvance
<1> QED
  BY <1>2, <1>3 DEF CreateStep, Return, Catch

LEMMA TakeOverStepKind ==
    ASSUME TypeOK, SendInv, NEW w \in Workers, TakeOverStep(w)
    PROVE  HandlerStepKind(w)
<1>1. wk[w].pc = "takeover" /\ UNCHANGED <<run, sent>>
  BY DEF TakeOverStep, At, rowVars
<1>2. CASE /\ log[wk[w].run][wk[w].step] = "failed"
           /\ WriteLog(wk[w].run, wk[w].step, "running")
           /\ Goto(w, "send") \/ Goto(w, "fail")
  <2>1. wk[w].run \in Runs /\ wk[w].step \in Steps
    BY <1>1, StepTyped DEF InStep
  <2>2. Exists(wk[w].run)
    BY <1>1, <1>2, <2>1 DEF Exists, SendInv, LogInv, HandlerInv, HandlerOK
  <2> QED
    BY <1>1, <1>2, <2>2, GotoMoves DEF Claims, HandlerStepKind
<1>3. CASE UNCHANGED log /\ (MovesTo(w, Idle) \/ Goto(w, "fail"))
  BY <1>1, <1>3, EndsQuietly DEF HandlerStepKind, RunsAdvance
<1> QED
  BY <1>2, <1>3 DEF TakeOverStep, Return, Catch

LEMMA SendEmailKind ==
    ASSUME TypeOK, ~AmbiguousSmtp, NEW w \in Workers, SendEmail(w)
    PROVE  Mails(w)
<1>0. PICK r \in Runs, s \in Steps : r = wk[w].run /\ s = wk[w].step
  BY StepTyped DEF SendEmail, At, InStep
<1>1. PICK ok \in BOOLEAN :
           /\ MovesTo(w, [wk[w] EXCEPT !.pc = "record", !.sendOk = ok])
           /\ sent' = IF ok THEN [sent EXCEPT ![r][s] = @ + 1] ELSE sent
  BY <1>0 DEF SendEmail
<1>2. /\ Others(w) /\ Stays(w) /\ wk'[w].pc = "record" /\ wk'[w].sendOk = ok
  BY <1>1 DEF MovesTo, Others, Stays, TypeOK, ExecutorTypeOK, HandlerState
<1>3. wk[w].pc = "send" /\ run' = run /\ log' = log
  BY DEF SendEmail, At, rowVars
<1> QED
  BY <1>0, <1>1, <1>2, <1>3 DEF Mails

LEMMA RecordStepKind ==
    ASSUME TypeOK, SendInv, NEW w \in Workers, RecordStep(w)
    PROVE  HandlerStepKind(w)
<1>0. PICK r \in Runs, s \in Steps : r = wk[w].run /\ s = wk[w].step
  BY StepTyped DEF RecordStep, At, InStep
<1>1. wk[w].pc = "record" /\ UNCHANGED <<run, sent>>
  BY DEF RecordStep, At, rowVars
<1>2. CASE /\ Exists(r)
           /\ WriteLog(r, s, IF wk[w].sendOk THEN "succeeded" ELSE "failed")
           /\ Goto(w, "fail") \/ (wk[w].sendOk /\ StepDone(w, s))
  <2>1. s \in 0..NumSteps
    BY StepsAssumption DEF Steps
  <2>2. CASE Goto(w, "fail")
    BY <1>0, <1>1, <1>2, <2>2, GotoMoves DEF Records, HandlerStepKind, Stays
  <2>3. CASE wk[w].sendOk /\ StepDone(w, s)
    BY <1>0, <1>1, <1>2, <2>1, <2>3, StepDoneMoves DEF Records, HandlerStepKind
  <2> QED
    BY <1>2, <2>2, <2>3
<1>3. CASE UNCHANGED log /\ Goto(w, "fail")
  BY <1>1, <1>3, EndsQuietly DEF HandlerStepKind, RunsAdvance
<1> QED
  BY <1>0, <1>2, <1>3 DEF RecordStep, Catch

LEMMA CompleteRunKind ==
    ASSUME TypeOK, SendInv, NEW w \in Workers, CompleteRun(w)
    PROVE  HandlerStepKind(w)
<1>1. wk[w].pc = "complete" /\ UNCHANGED <<log, sent>>
  BY DEF CompleteRun, At
<1>2. MovesTo(w, Idle) \/ Goto(w, "fail")
  BY DEF CompleteRun, Return, Catch
<1>3. CASE run' = run
  BY <1>1, <1>2, <1>3, EndsQuietly DEF HandlerStepKind, RunsAdvance
<1>4. CASE run' # run
  <2>1. run[wk[w].run] = "running" /\ run' = [run EXCEPT ![wk[w].run] = "completed"]
    BY <1>4 DEF CompleteRun, UpdateRun, rowVars
  <2> QED
    BY <1>1, <1>2, <2>1, IdleMoves, GotoMoves DEF Completes, HandlerStepKind
<1> QED
  BY <1>3, <1>4

LEMMA HandleRunErrorKind ==
    ASSUME TypeOK, SendInv, NEW w \in Workers, HandleRunError(w)
    PROVE  Quiet(w) /\ HandlerOK(w)'
<1>0. PICK r \in Runs : r = wk[w].run
  BY StepTyped DEF HandleRunError, At
<1>1. UNCHANGED <<log, sent>> /\ MovesTo(w, Idle)
  BY DEF HandleRunError, Return, Throw
<1>2. \/ UpdateRun(r, {"queued", "running"}, "failed")
      \/ UpdateRun(r, {"queued", "running"}, run[r])
      \/ UNCHANGED rowVars
  BY <1>0 DEF HandleRunError
<1>3. RunsAdvance
  BY <1>2, UpdateAdvances
<1> QED
  BY <1>1, <1>3, EndsQuietly

LEMMA ExecutorKind ==
    ASSUME TypeOK, SendInv, ~AmbiguousSmtp, NEW w \in Workers, ExecutorStep(w)
    PROVE  HandlerStepKind(w)
<1>1. CASE WorkerCrash(w)
  BY <1>1, EndsQuietly DEF WorkerCrash, rowVars, RunsAdvance, HandlerStepKind
<1>2. CASE LoseLock(w)
  BY <1>2 DEF LoseLock, rowVars, executorVars, Outside, RunsAdvance, HandlerStepKind
<1>3. CASE Execute(w)
  BY <1>3, LoadRunKind, ClaimRunKind, LoadContextKind, FindStepKind, CreateStepKind,
     TakeOverStepKind, SendEmailKind, RecordStepKind, CompleteRunKind, HandleRunErrorKind
     DEF Execute, HandlerStepKind
<1> QED
  BY <1>1, <1>2, <1>3, DeliverKind DEF ExecutorStep, HandlerStepKind

LEMMA ProducerKind == ASSUME TypeOK, NEW p \in Passes, ProducerStep(p) PROVE Outside
<1>1. UNCHANGED <<wk, sent, log>>
  BY DEF ProducerStep, Produce, PersistRun, DispatchRun, StampRun, PassCrash, executorVars
<1>2. ASSUME NEW r \in Runs, PersistRun(p, r) PROVE RunsAdvance
  <2>1. \/ run' = run
        \/ run' = [run EXCEPT ![r] = IF @ = "none" THEN "queued" ELSE @]
    BY <1>2 DEF PersistRun
  <2>2. run \in [Runs -> RunStatus]
    BY DEF TypeOK, TablesTypeOK
  <2>3. CASE run[r] = "none"
    BY <2>1, <2>2, <2>3 DEF RunsAdvance, Advance
  <2>4. CASE run[r] # "none"
    BY <2>1, <2>2, <2>4 DEF RunsAdvance
  <2> QED
    BY <2>3, <2>4
<1>3. CASE DispatchRun(p) \/ PassCrash(p)
  <2>1. UNCHANGED rowVars
    BY <1>3 DEF DispatchRun, PassCrash
  <2> QED
    BY <1>1, <2>1 DEF rowVars, RunsAdvance, Outside
<1>4. CASE StampRun(p)
  <2>1. pass[p].run \in Runs
    BY <1>4, PassTyped DEF StampRun, TypeOK
  <2>2. MarkDispatched(pass[p].run) \/ UNCHANGED rowVars
    BY <1>4 DEF StampRun
  <2> QED
    BY <1>1, <2>1, <2>2, UpdateAdvances DEF Outside
<1> QED
  BY <1>1, <1>2, <1>3, <1>4 DEF Outside, ProducerStep, Produce

LEMMA ReconcilerKind ==
    ASSUME TypeOK, NEW k \in Ticks, ReconcilerStep(k)
    PROVE  Outside \/ Skips
<1>1. wk' = wk /\ sent' = sent
  BY DEF ReconcilerStep, executorVars
<1>2. /\ orphans[k].todo \subseteq OrphanRow /\ orphans[k].mark \in Runs \cup {NoRun}
      /\ stuck[k].todo \subseteq Runs /\ stuck[k].skip \in Runs \cup {NoRun}
  BY DEF TypeOK, ReconcilerTypeOK
<1>3. ASSUME NEW o \in orphans[k].todo, AgeOut(k, o) \/ Redispatch(k, o) PROVE Outside
  <2>1. o.run \in Runs
    BY <1>2 DEF OrphanRow
  <2>2. RunsAdvance
    BY <1>3, <2>1, UpdateAdvances DEF AgeOut, Redispatch
  <2> QED
    BY <1>1, <1>3, <2>2 DEF AgeOut, Redispatch, Outside
<1>4. CASE StampOrphan(k)
  <2>1. RunsAdvance
    BY <1>2, <1>4, UpdateAdvances DEF StampOrphan
  <2> QED
    BY <1>1, <1>4, <2>1 DEF StampOrphan, Outside
<1>5. ASSUME NEW r \in stuck[k].todo, FailStuck(k, r) PROVE Outside
  <2>1. RunsAdvance
    BY <1>2, <1>5, UpdateAdvances DEF FailStuck
  <2> QED
    BY <1>1, <1>5, <2>1 DEF FailStuck, Outside
<1>6. CASE SkipSteps(k)
  <2>1. CASE log' = log
    BY <1>1, <1>6, <2>1 DEF SkipSteps, Outside, RunsAdvance, rowVars
  <2>2. CASE log' # log
    <3>1. PICK r \in Runs : r = stuck[k].skip
      BY <1>2, <1>6 DEF SkipSteps
    <3>2. log' = [log EXCEPT ![r] =
              [s \in Steps |-> IF log[r][s] = "running" THEN "skipped" ELSE log[r][s]]]
      BY <1>6, <2>2, <3>1 DEF SkipSteps
    <3> QED
      BY <1>1, <1>6, <3>2 DEF SkipSteps, Skips, rowVars
  <2> QED
    BY <2>1, <2>2
<1>7. CASE ScanOrphans(k) \/ ScanStuck(k) \/ TickCrash(k)
  BY <1>1, <1>7 DEF ScanOrphans, ScanStuck, TickCrash, rowVars, Outside, RunsAdvance
<1> QED
  BY <1>3, <1>4, <1>5, <1>6, <1>7 DEF ReconcilerStep, Reconcile

LEMMA WorldKind ==
    ASSUME TypeOK, NEW r \in Runs, WorldStep(r)
    PROVE  Outside \/ Deletes
<1>1. wk' = wk /\ sent' = sent
  BY DEF WorldStep, executorVars
<1>2. CASE DeleteRun(r)
  BY <1>1, <1>2 DEF DeleteRun, Deletes
<1>3. CASE GrowOld(r) \/ GoIdle(r) \/ StallCheck(r) \/ EvictJob(r)
  BY <1>1, <1>3 DEF GrowOld, GoIdle, StallCheck, EvictJob, rowVars, Outside, RunsAdvance
<1> QED
  BY <1>2, <1>3 DEF WorldStep, World

StepKind == Outside \/ Deletes \/ Skips \/ \E w \in Workers : HandlerStepKind(w)

LEMMA NextKind == ASSUME TypeOK, SendInv, ~AmbiguousSmtp, [Next]_vars PROVE StepKind
<1>1. CASE UNCHANGED vars
  BY <1>1 DEF vars, rowVars, executorVars, Outside, RunsAdvance, StepKind
<1>2. CASE Next
  BY <1>2, ExecutorKind, ProducerKind, ReconcilerKind, WorldKind DEF Next, StepKind
<1> QED
  BY <1>1, <1>2

LEMMA KindSafe == ASSUME TypeOK, SendInv, StepKind PROVE SendInv'
BY OutsideSafe, QuietSafe, DeletesSafe, SkipsSafe, ClaimsSafe, MailsSafe, RecordsSafe,
   CompletesSafe DEF StepKind, HandlerStepKind

LEMMA InitSafe == Init => SendInv
<1> SUFFICES ASSUME Init PROVE SendInv
  OBVIOUS
<1>1. \A w \in Workers : wk[w].pc = "idle"
  BY DEF Init, ExecutorInit, Idle
<1>2. /\ \A r \in Runs, s \in Steps : sent[r][s] = 0 /\ log[r][s] = "none"
      /\ \A r \in Runs : run[r] = "none"
  BY DEF Init, ExecutorInit, TablesInit, NoLog
<1> QED
  BY <1>1, <1>2 DEF SendInv, OwnerInv, Owns, LogInv, HandlerInv, HandlerOK, InStep,
                    AtMostOnceEmail, CompletedMeansAllSent

-----------------------------------------------------------------------------
(* The theorems                                                              *)

(* The claims before the sends hold, whatever overlaps: owners are unique,   *)
(* rows tell the truth about the messages and handlers know what went out.   *)
THEOREM SendInvariant == ASSUME ~AmbiguousSmtp PROVE Spec => []SendInv
<1>1. TypeOK /\ SendInv /\ [Next]_vars => SendInv'
  BY NextKind, KindSafe
<1> QED
  BY InitSafe, TypeCorrect, <1>1, PTL DEF Spec

(* No step's message is accepted twice.                                      *)
THEOREM AtMostOnce == ASSUME ~AmbiguousSmtp PROVE Spec => []AtMostOnceEmail
<1>1. SendInv => AtMostOnceEmail
  BY DEF SendInv
<1> QED
  BY SendInvariant, <1>1, PTL

(* A completed run has sent every step, and its log says so.                 *)
THEOREM CompletedSentAll == ASSUME ~AmbiguousSmtp PROVE Spec => []CompletedMeansAllSent
<1>1. SendInv => CompletedMeansAllSent
  BY DEF SendInv
<1> QED
  BY SendInvariant, <1>1, PTL

-----------------------------------------------------------------------------
(* No verdict is overturned, and the runner implements its contract.         *)

(* What a step may do to the status of one run.                              *)
StatusMove(r) ==
    \/ run'[r] = run[r]
    \/ run[r] = "none" /\ run'[r] = "queued"
    \/ run[r] \in {"queued", "running"} /\ run'[r] \notin {"none", "deleted"}
    \/ Exists(r) /\ run'[r] = "deleted"

LEMMA UpdateMoves ==
    ASSUME TypeOK, NEW q \in Runs, NEW from \in SUBSET {"queued", "running"},
           NEW to \in {"queued", "running", "completed", "failed"},
           UpdateRun(q, from, to) \/ UNCHANGED rowVars
    PROVE  \A r \in Runs : StatusMove(r)
<1>1. CASE run' = run
  BY <1>1 DEF StatusMove
<1>2. CASE run[q] \in from /\ run' = [run EXCEPT ![q] = to]
  BY <1>2 DEF StatusMove, TypeOK, TablesTypeOK
<1> QED
  BY <1>1, <1>2 DEF UpdateRun, rowVars

LEMMA ExecutorMoves ==
    ASSUME TypeOK, NEW w \in Workers, ExecutorStep(w)
    PROVE  \A r \in Runs : StatusMove(r)
<1>1. CASE UNCHANGED rowVars
  BY <1>1 DEF rowVars, StatusMove
<1>2. CASE ~UNCHANGED rowVars
  <2>1. PICK q \in Runs : q = wk[w].run
    BY <1>2, ExecutorQueueEffect DEF ExecutorStep, Deliver
  <2>2. \/ UpdateRun(q, {"queued"}, "running")
        \/ UpdateRun(q, {"running"}, "completed")
        \/ UpdateRun(q, {"queued", "running"}, "failed")
        \/ UpdateRun(q, {"queued", "running"}, run[q])
    BY <1>2, <2>1 DEF ExecutorStep, Deliver, Execute, LoadRun, ClaimRun, LoadContext, FindStep,
           CreateStep, TakeOverStep, SendEmail, RecordStep, CompleteRun, HandleRunError,
           WorkerCrash, LoseLock
  <2>3. CASE UpdateRun(q, {"queued", "running"}, run[q])
    BY <1>2, <2>3 DEF UpdateRun, StatusMove, TypeOK, TablesTypeOK
  <2> QED
    BY <2>2, <2>3, UpdateMoves
<1> QED
  BY <1>1, <1>2

LEMMA StatusMoves ==
    ASSUME TypeOK, [Next]_vars
    PROVE  \A r \in Runs : StatusMove(r)
<1>1. CASE Outside
  BY <1>1, RunsAdvanceEffect DEF Outside, StatusMove
<1>2. CASE Skips
  BY <1>2 DEF Skips, StatusMove
<1>3. CASE Deletes
  BY <1>3 DEF Deletes, StatusMove, TypeOK, TablesTypeOK
<1>4. CASE UNCHANGED vars
  BY <1>4 DEF vars, rowVars, StatusMove
<1> QED
  BY <1>1, <1>2, <1>3, <1>4, ExecutorMoves, ProducerKind, ReconcilerKind, WorldKind DEF Next

(* A completed, failed or canceled run keeps its verdict until it is         *)
(* deleted, and a deleted run stays deleted.                                 *)
THEOREM VerdictsAreFinal == Spec => TerminalIsFinal
<1> DEFINE Final ==
        \A r \in Runs : /\ run[r] \in Terminal => run'[r] \in {run[r], "deleted"}
                        /\ run[r] = "deleted" => run'[r] = "deleted"
<1>1. TypeOK /\ [Next]_vars => [Final]_vars
  BY StatusMoves DEF StatusMove, Terminal, Exists
<1> QED
  BY TypeCorrect, <1>1, PTL DEF Spec, TerminalIsFinal

-----------------------------------------------------------------------------
(* Each effect is a step of the contract, or none.                           *)
LEMMA ContractStutter == ASSUME run' = run, sent' = sent PROVE UNCHANGED Contract!vars
BY DEF Contract!vars

LEMMA AdvanceContract ==
    ASSUME RunsAdvance, sent' = sent
    PROVE  [Contract!Next]_Contract!vars
<1>1. CASE run' = run
  BY <1>1, ContractStutter
<1>2. ASSUME NEW r \in Runs, Advance(r) PROVE Contract!Next
  <2>1. Contract!Create(r) \/ Contract!Start(r) \/ Contract!Fail(r)
    BY <1>2 DEF Advance, Contract!Create, Contract!Start, Contract!Fail, Contract!Become
  <2> QED
    BY <2>1 DEF Contract!Next
<1> QED
  BY <1>1, <1>2 DEF RunsAdvance

LEMMA DeletesContract == ASSUME TypeOK, Deletes PROVE Contract!Next
<1>1. PICK r \in Runs : Exists(r) /\ run' = [run EXCEPT ![r] = "deleted"]
  BY DEF Deletes
<1>2. run[r] \in {"queued", "running", "completed", "failed", "canceled"}
  BY <1>1 DEF Exists, TypeOK, TablesTypeOK, RunStatus, Terminal
<1>3. Contract!Delete(r)
  BY <1>1, <1>2 DEF Deletes, Contract!Delete, Contract!Become
<1> QED
  BY <1>3 DEF Contract!Next

LEMMA MailsContract ==
    ASSUME TypeOK, SendInv, NEW w \in Workers, Mails(w)
    PROVE  [Contract!Next]_Contract!vars
<1>0. PICK r \in Runs, s \in Steps : r = wk[w].run /\ s = wk[w].step
  BY StepTyped DEF Mails, InStep
<1>1. CASE sent' = sent
  BY <1>1, ContractStutter DEF Mails
<1>2. CASE sent' # sent
  <2>1. /\ run[r] \notin {"none", "queued"} /\ sent[r][s] = 0
        /\ \A t \in 1..(s - 1) : sent[r][t] = 1
    BY <1>0 DEF Mails, SendInv, HandlerInv, HandlerOK, InStep, Went
  <2>2. sent' = [sent EXCEPT ![r][s] = 1] /\ run' = run
    BY <1>0, <1>2, <2>1 DEF Mails, TypeOK, ExecutorTypeOK
  <2>3. Contract!Send(r, s)
    BY <2>1, <2>2 DEF Contract!Send
  <2> QED
    BY <2>3 DEF Contract!Next, Contract!Steps, Steps
<1> QED
  BY <1>1, <1>2

LEMMA CompletesContract ==
    ASSUME TypeOK, SendInv, NEW w \in Workers, Completes(w)
    PROVE  Contract!Next
<1>0. PICK r \in Runs : r = wk[w].run
  BY StepTyped DEF Completes
<1>1. \A s \in Steps : sent[r][s] = 1
  BY <1>0 DEF Completes, SendInv, HandlerInv, HandlerOK, Went
<1>2. Contract!Complete(r)
  BY <1>0, <1>1 DEF Completes, Contract!Complete, Contract!Become, Contract!Steps, Steps
<1> QED
  BY <1>2 DEF Contract!Next

LEMMA KindContract == ASSUME TypeOK, SendInv, StepKind PROVE [Contract!Next]_Contract!vars
<1>1. CASE Outside
  BY <1>1, AdvanceContract DEF Outside
<1>2. CASE Skips
  BY <1>2, ContractStutter DEF Skips
<1>3. CASE Deletes
  BY <1>3, DeletesContract
<1>4. ASSUME NEW w \in Workers, HandlerStepKind(w)
      PROVE  [Contract!Next]_Contract!vars
  <2>1. CASE Quiet(w)
    BY <2>1, AdvanceContract DEF Quiet
  <2>2. CASE Claims(w) \/ Records(w)
    BY <2>2, ContractStutter DEF Claims, Records
  <2>3. CASE Outside
    BY <2>3, AdvanceContract DEF Outside
  <2> QED
    BY <1>4, <2>1, <2>2, <2>3, MailsContract, CompletesContract DEF HandlerStepKind
<1> QED
  BY <1>1, <1>2, <1>3, <1>4 DEF StepKind

LEMMA ContractInit == Init => Contract!Init
BY DEF Init, TablesInit, ExecutorInit, Contract!Init, Contract!Steps, Steps

(* The runner implements the contract: every run is created and decided      *)
(* once, its messages go out in order, each at most once, and all of them    *)
(* before it counts as completed.                                            *)
THEOREM RunnerImplementsContract ==
    ASSUME ~AmbiguousSmtp PROVE Spec => ImplementsContract
<1>1. TypeOK /\ SendInv /\ [Next]_vars => [Contract!Next]_Contract!vars
  BY NextKind, KindContract
<1> QED
  BY ContractInit, TypeCorrect, SendInvariant, <1>1, PTL DEF Spec, ImplementsContract, Contract!Spec

-----------------------------------------------------------------------------
(* A run is billed once: the pass that created its row has not billed it yet, *)
(* and no other pass takes the row for a new one.                             *)

NewAt(p, r) == pass[p].pc = "dispatch" /\ pass[p].isNew /\ pass[p].run = r

MeterInv ==
    \A r \in Runs :
        /\ run[r] = "none" => metered[r] = 0
        /\ metered[r] <= 1
        /\ \A p \in Passes : NewAt(p, r) => run[r] # "none" /\ metered[r] = 0
        /\ \A p, q \in Passes : NewAt(p, r) /\ NewAt(q, r) => p = q

LEMMA RowsStay == ASSUME TypeOK, [Next]_vars, NEW r \in Runs, run[r] # "none" PROVE run'[r] # "none"
BY StatusMoves DEF StatusMove, Exists, TypeOK, TablesTypeOK

(* A step that bills nobody and finds no new row.                             *)
LEMMA MeterKept ==
    ASSUME TypeOK, [Next]_vars, MeterInv, metered' = metered,
           \A p \in Passes, r \in Runs : NewAt(p, r)' => NewAt(p, r)
    PROVE  MeterInv'
<1> SUFFICES ASSUME NEW r \in Runs
             PROVE  /\ run'[r] = "none" => metered'[r] = 0
                    /\ metered'[r] <= 1
                    /\ \A p \in Passes : NewAt(p, r)' => run'[r] # "none" /\ metered'[r] = 0
                    /\ \A p, q \in Passes : NewAt(p, r)' /\ NewAt(q, r)' => p = q
  BY DEF MeterInv
<1> QED
  BY RowsStay DEF MeterInv

LEMMA NextMatchNone ==
    ASSUME TypeOK, NEW p \in Passes, NEW todo, NextMatch(p, todo) \/ Abort(p)
    PROVE  \A q \in Passes, r \in Runs : NewAt(q, r)' => NewAt(q, r)
BY DEF NextMatch, Abort, PassAt, NewAt, TypeOK, ProducerTypeOK

LEMMA PersistMeters ==
    ASSUME TypeOK, [Next]_vars, MeterInv, NEW p \in Passes, NEW r \in Runs, PersistRun(p, r)
    PROVE  MeterInv'
<1> DEFINE rest == pass[p].todo \ {r}
<1>1. metered' = metered
  BY DEF PersistRun
<1>2. CASE NextMatch(p, rest) \/ Abort(p)
  BY <1>1, <1>2, NextMatchNone, MeterKept
<1>3. CASE /\ run' = [run EXCEPT ![r] = IF @ = "none" THEN "queued" ELSE @]
           /\ pass' = [pass EXCEPT ![p] = PassAt("dispatch", rest, r, run[r] = "none")]
  <2>1. \A q \in Passes, s \in Runs :
           NewAt(q, s)' => NewAt(q, s) \/ (q = p /\ s = r /\ run[r] = "none")
    <3> DEFINE x == PassAt("dispatch", rest, r, run[r] = "none")
    <3>1. x.run = r /\ x.isNew = (run[r] = "none")
      BY DEF PassAt
    <3>2. x.isNew => run[r] = "none"
      BY <3>1
    <3> HIDE DEF x
    <3>3. pass'[p] = x /\ \A q \in Passes : q # p => pass'[q] = pass[q]
      BY <1>3 DEF x, TypeOK, ProducerTypeOK
    <3> SUFFICES ASSUME NEW q \in Passes, NEW s \in Runs, NewAt(q, s)'
                 PROVE  NewAt(q, s) \/ (q = p /\ s = r /\ run[r] = "none")
      OBVIOUS
    <3>4. CASE q = p
      BY <3>1, <3>2, <3>3, <3>4 DEF NewAt
    <3>5. CASE q # p
      <4>1. pass'[q] = pass[q]
        BY <3>3, <3>5
      <4> QED
        BY <4>1, Zenon DEF NewAt
    <3> QED
      BY <3>4, <3>5
  <2>2. CASE run[r] # "none"
    BY <1>1, <2>1, <2>2, MeterKept
  <2>3. CASE run[r] = "none"
    <3>1. run'[r] = "queued" /\ \A s \in Runs : s # r => run'[s] = run[s]
      BY <1>3, <2>3 DEF TypeOK, TablesTypeOK
    <3>2. metered[r] = 0 /\ \A q \in Passes : ~NewAt(q, r)
      BY <2>3 DEF MeterInv
    <3> QED
      BY <1>1, <2>1, <3>1, <3>2 DEF MeterInv
  <2> QED
    BY <2>2, <2>3
<1> QED
  BY <1>2, <1>3 DEF PersistRun

LEMMA DispatchMeters ==
    ASSUME TypeOK, [Next]_vars, MeterInv, NEW p \in Passes, DispatchRun(p)
    PROVE  MeterInv'
<1>0. PICK r \in Runs : r = pass[p].run
  BY DEF DispatchRun, TypeOK, ProducerTypeOK
<1>1. \A q \in Passes, s \in Runs : NewAt(q, s)' => NewAt(q, s) /\ q # p
  BY DEF DispatchRun, NextMatch, PassAt, NewAt, TypeOK, ProducerTypeOK
<1>2. CASE ~pass[p].isNew
  BY <1>1, <1>2, MeterKept DEF DispatchRun
<1>3. CASE pass[p].isNew
  <2>1. NewAt(p, r)
    BY <1>0, <1>3 DEF NewAt, DispatchRun
  <2>2. metered[r] = 0 /\ run[r] # "none" /\ \A q \in Passes : NewAt(q, r) => q = p
    BY <2>1 DEF MeterInv
  <2>3. metered'[r] = 1 /\ \A s \in Runs : s # r => metered'[s] = metered[s]
    BY <1>0, <1>3, <2>2 DEF DispatchRun, TypeOK, ProducerTypeOK
  <2>4. \A q \in Passes : ~NewAt(q, r)'
    BY <1>1, <2>2
  <2> QED
    BY <1>1, <2>2, <2>3, <2>4, RowsStay DEF MeterInv
<1> QED
  BY <1>2, <1>3

LEMMA StepMeters == ASSUME TypeOK, [Next]_vars, MeterInv PROVE MeterInv'
<1>1. CASE UNCHANGED producerVars
  BY <1>1, MeterKept DEF producerVars, NewAt
<1>2. ASSUME NEW p \in Passes, ProducerStep(p) PROVE MeterInv'
  <2>1. CASE StampRun(p)
    BY <2>1, NextMatchNone, MeterKept DEF StampRun
  <2>2. CASE PassCrash(p)
    BY <2>2, NextMatchNone, MeterKept DEF PassCrash
  <2> QED
    BY <1>2, <2>1, <2>2, PersistMeters, DispatchMeters DEF ProducerStep, Produce
<1> QED
  BY <1>1, <1>2 DEF Next, ExecutorStep, ReconcilerStep, WorldStep, vars

(* A run is billed at most once, however many passes are replayed or overlap: *)
(* only the pass whose insert made the row bills it (MeteredAtMostOnce).      *)
THEOREM MeteredOnce == Spec => []MeteredAtMostOnce
<1>1. Init => MeterInv
  <2> SUFFICES ASSUME Init PROVE MeterInv
    OBVIOUS
  <2>1. \A p \in Passes : pass[p].pc = "ready"
    BY DEF Init, ProducerInit, PassAt
  <2>2. \A r \in Runs : metered[r] = 0
    BY DEF Init, ProducerInit
  <2>3. \A p \in Passes, r \in Runs : ~NewAt(p, r)
    BY <2>1 DEF NewAt
  <2>4. \A r \in Runs : metered[r] <= 1
    <3>1. 0 <= 1
      OBVIOUS
    <3> QED
      BY <2>2, <3>1, Zenon
  <2> QED
    BY <2>2, <2>3, <2>4, Zenon DEF MeterInv
<1>2. TypeOK /\ MeterInv /\ [Next]_vars => MeterInv'
  BY StepMeters
<1>3. MeterInv => MeteredAtMostOnce
  BY DEF MeterInv, MeteredAtMostOnce
<1> QED
  BY TypeCorrect, <1>1, <1>2, <1>3, PTL DEF Spec

-----------------------------------------------------------------------------
(* The dispatch marker.                                                      *)

(* Whatever may still be stamped has been in the queue.                       *)
MarkerInv ==
    /\ \A r \in Runs : dispatchedAt[r] \/ job[r] # "absent" => added[r]
    /\ \A p \in Passes : pass[p].pc = "mark" => added[pass[p].run]
    /\ \A k \in Ticks : orphans[k].mark # NoRun => added[orphans[k].mark]

(* What a step does to the queue's memory of its jobs, and to the markers.    *)
QueueMoves ==
    \A r \in Runs :
        /\ added[r] => added'[r]
        /\ job'[r] # "absent" => job[r] # "absent" \/ added'[r]

LEMMA AddMoves ==
    ASSUME TypeOK, NEW r \in Runs, AddJob(r)
    PROVE  QueueMoves /\ (job[r] # "absent" \/ added'[r])
BY DEF AddJob, QueueMoves, queueVars, TypeOK, QueueTypeOK

LEMMA EffectMoves ==
    ASSUME TypeOK, NEW w \in Workers, NEW r \in Runs, QueueEffect(w, r)
    PROVE  QueueMoves
<1>1. CASE AddJob(r)
  BY <1>1, AddMoves
<1> USE DEF TypeOK, QueueTypeOK, QueueMoves, queueVars
<1>2. CASE TakeJob(w, r)
  BY <1>2 DEF TakeJob
<1>3. CASE JobReturned(w, r)
  <2>1. CASE lock[r] = w
    BY <1>3, <2>1, NoWorkerAssumption DEF JobReturned
  <2>2. CASE lock[r] # w
    BY <1>3, <2>2 DEF JobReturned
  <2> QED
    BY <2>1, <2>2
<1>4. CASE JobThrew(w, r)
  <2>1. CASE lock[r] = w
    BY <1>4, <2>1, NoWorkerAssumption DEF JobThrew
  <2>2. CASE lock[r] # w
    BY <1>4, <2>2 DEF JobThrew
  <2> QED
    BY <2>1, <2>2
<1>5. CASE DropLock(w)
  BY <1>5 DEF DropLock
<1>6. CASE RecoverStalled(r)
  BY <1>6 DEF RecoverStalled
<1>7. CASE Evict(r)
  BY <1>7 DEF Evict
<1>8. CASE UNCHANGED queueVars
  BY <1>8
<1> QED
  BY <1>1, <1>2, <1>3, <1>4, <1>5, <1>6, <1>7, <1>8 DEF QueueEffect

LEMMA StillMoves == ASSUME UNCHANGED queueVars PROVE QueueMoves
BY DEF queueVars, QueueMoves

(* A step that stamps nothing keeps the invariant if it finds no new stamp to *)
(* make, or only one of a run that has been in the queue.                     *)
LEMMA MarkerKept ==
    ASSUME TypeOK, MarkerInv, QueueMoves,
           \A r \in Runs : dispatchedAt'[r] => dispatchedAt[r] \/ added'[r],
           \A p \in Passes : pass'[p].pc = "mark" =>
               \/ pass[p].pc = "mark" /\ pass'[p].run = pass[p].run
               \/ added'[pass'[p].run],
           \A k \in Ticks : orphans'[k].mark # NoRun =>
               orphans'[k].mark = orphans[k].mark \/ added'[orphans'[k].mark]
    PROVE  MarkerInv'
<1>1. \A p \in Passes : pass[p].pc = "mark" => pass[p].run \in Runs
  BY DEF TypeOK, ProducerTypeOK
<1>2. \A k \in Ticks : orphans[k].mark # NoRun => orphans[k].mark \in Runs
  BY DEF TypeOK, ReconcilerTypeOK
<1> QED
  BY <1>1, <1>2 DEF MarkerInv, QueueMoves

LEMMA StampMarks ==
    ASSUME TypeOK, NEW q \in Runs, MarkDispatched(q) \/ UNCHANGED rowVars
    PROVE  \A r \in Runs : dispatchedAt'[r] => dispatchedAt[r] \/ r = q
BY DEF MarkDispatched, rowVars, TypeOK, TablesTypeOK

LEMMA NextMatchMarks ==
    ASSUME TypeOK, NEW p \in Passes, NEW todo, NextMatch(p, todo) \/ Abort(p)
    PROVE  \A q \in Passes : pass'[q].pc = "mark" => q # p /\ pass'[q] = pass[q]
BY DEF NextMatch, Abort, PassAt, TypeOK, ProducerTypeOK

LEMMA ExecutorMarks ==
    ASSUME TypeOK, MarkerInv, NEW w \in Workers, ExecutorStep(w)
    PROVE  MarkerInv'
<1>1. dispatchedAt' = dispatchedAt
  BY DEF ExecutorStep, Deliver, Execute, LoadRun, ClaimRun, LoadContext, FindStep,
         CreateStep, TakeOverStep, SendEmail, RecordStep, CompleteRun, HandleRunError,
         WorkerCrash, LoseLock, UpdateRun, rowVars
<1>2. QueueMoves
  BY ExecutorQueueEffect, EffectMoves DEF ExecutorStep, Deliver, QueueEffect
<1> QED
  BY <1>1, <1>2, MarkerKept DEF ExecutorStep, producerVars, reconcilerVars

LEMMA ProducerMarks ==
    ASSUME TypeOK, MarkerInv, NEW p \in Passes, ProducerStep(p)
    PROVE  MarkerInv'
<1>0. orphans' = orphans
  BY DEF ProducerStep, reconcilerVars
<1>1. ASSUME NEW r \in Runs, PersistRun(p, r) PROVE MarkerInv'
  <2>1. dispatchedAt' = dispatchedAt /\ UNCHANGED queueVars
    BY <1>1 DEF PersistRun
  <2>2. \A q \in Passes : pass'[q].pc = "mark" => pass'[q] = pass[q]
    BY <1>1, NextMatchMarks DEF PersistRun, PassAt, TypeOK, ProducerTypeOK
  <2> QED
    BY <1>0, <2>1, <2>2, StillMoves, MarkerKept
<1>2. CASE DispatchRun(p)
  <2>0. PICK r \in Runs : r = pass[p].run
    BY <1>2 DEF DispatchRun, TypeOK, ProducerTypeOK
  <2>1. dispatchedAt' = dispatchedAt
    BY <1>2 DEF DispatchRun, rowVars
  <2>2. QueueMoves
    BY <1>2, <2>0, AddMoves, StillMoves DEF DispatchRun
  <2>3. \A q \in Passes : pass'[q].pc = "mark" => pass'[q] = pass[q] \/ added'[pass'[q].run]
    <3>1. CASE AddJob(r) /\ pass' = [pass EXCEPT ![p].pc = "mark"]
      <4>1. added'[r]
        BY <3>1, AddMoves DEF MarkerInv, QueueMoves
      <4> QED
        BY <2>0, <3>1, <4>1 DEF TypeOK, ProducerTypeOK
    <3>2. CASE NextMatch(p, pass[p].todo)
      BY <3>2, NextMatchMarks
    <3> QED
      BY <1>2, <2>0, <3>1, <3>2 DEF DispatchRun
  <2> QED
    BY <1>0, <2>1, <2>2, <2>3, MarkerKept
<1>3. CASE StampRun(p)
  <2>0. PICK r \in Runs : r = pass[p].run /\ added[r]
    BY <1>3 DEF StampRun, TypeOK, ProducerTypeOK, MarkerInv
  <2>1. UNCHANGED queueVars /\ \A s \in Runs : dispatchedAt'[s] => dispatchedAt[s] \/ s = r
    BY <1>3, <2>0, StampMarks DEF StampRun
  <2>2. \A q \in Passes : pass'[q].pc = "mark" => pass'[q] = pass[q]
    BY <1>3, NextMatchMarks DEF StampRun
  <2> QED
    BY <1>0, <2>0, <2>1, <2>2, StillMoves, MarkerKept DEF queueVars
<1>4. CASE PassCrash(p)
  <2>1. UNCHANGED <<rowVars, queueVars>> /\ Abort(p)
    BY <1>4 DEF PassCrash
  <2> QED
    BY <1>0, <2>1, NextMatchMarks, StillMoves, MarkerKept DEF rowVars
<1> QED
  BY <1>1, <1>2, <1>3, <1>4 DEF ProducerStep, Produce

LEMMA ReconcilerMarks ==
    ASSUME TypeOK, MarkerInv, NEW k \in Ticks, ReconcilerStep(k)
    PROVE  MarkerInv'
<1>0. pass' = pass
  BY DEF ReconcilerStep, producerVars
<1>1. ASSUME NEW o \in orphans[k].todo, Redispatch(k, o) PROVE MarkerInv'
  <2>0. PICK r \in Runs : r = o.run
    BY DEF TypeOK, ReconcilerTypeOK, OrphanRow
  <2>1. dispatchedAt' = dispatchedAt
    BY <1>1 DEF Redispatch, rowVars
  <2>2. QueueMoves /\ (AddJob(r) => added'[r])
    BY <1>1, <2>0, AddMoves, StillMoves DEF Redispatch, MarkerInv, QueueMoves
  <2>3. \A j \in Ticks : orphans'[j].mark # NoRun =>
           orphans'[j].mark = orphans[j].mark \/ added'[orphans'[j].mark]
    <3>1. PICK m \in {r, NoRun} :
             /\ orphans' = [orphans EXCEPT ![k] = [todo |-> @.todo \ {o}, mark |-> m]]
             /\ AddJob(r) \/ m = NoRun
      BY <1>1, <2>0 DEF Redispatch, TypeOK, ReconcilerTypeOK
    <3> QED
      BY <2>0, <2>2, <3>1 DEF TypeOK, ReconcilerTypeOK
  <2> QED
    BY <1>0, <2>1, <2>2, <2>3, MarkerKept
<1>2. CASE StampOrphan(k)
  <2>0. PICK r \in Runs : r = orphans[k].mark /\ added[r]
    BY <1>2 DEF StampOrphan, TypeOK, ReconcilerTypeOK, MarkerInv
  <2>1. UNCHANGED queueVars /\ \A s \in Runs : dispatchedAt'[s] => dispatchedAt[s] \/ s = r
    BY <1>2, <2>0, StampMarks DEF StampOrphan
  <2>2. \A j \in Ticks : orphans'[j].mark # NoRun => orphans'[j].mark = orphans[j].mark
    BY <1>2 DEF StampOrphan, TypeOK, ReconcilerTypeOK
  <2> QED
    BY <1>0, <2>0, <2>1, <2>2, StillMoves, MarkerKept DEF queueVars
<1>3. CASE ~StampOrphan(k) /\ \A o \in orphans[k].todo : ~Redispatch(k, o)
  <2>1. UNCHANGED queueVars /\ dispatchedAt' = dispatchedAt
    BY <1>3 DEF ReconcilerStep, Reconcile, ScanOrphans, AgeOut, ScanStuck, FailStuck, SkipSteps,
                TickCrash, UpdateRun, rowVars
  <2>2. \A j \in Ticks : orphans'[j].mark # NoRun => orphans'[j].mark = orphans[j].mark
    BY <1>3 DEF ReconcilerStep, Reconcile, ScanOrphans, AgeOut, ScanStuck, FailStuck, SkipSteps,
                TickCrash, TypeOK, ReconcilerTypeOK
  <2> QED
    BY <1>0, <2>1, <2>2, StillMoves, MarkerKept
<1> QED
  BY <1>1, <1>2, <1>3

LEMMA WorldMarks ==
    ASSUME TypeOK, MarkerInv, NEW r \in Runs, WorldStep(r)
    PROVE  MarkerInv'
<1>1. \A s \in Runs : dispatchedAt'[s] => dispatchedAt[s]
  BY DEF WorldStep, World, GrowOld, GoIdle, DeleteRun, StallCheck, EvictJob, rowVars,
         TypeOK, TablesTypeOK
<1>2. QueueMoves
  BY StillMoves DEF WorldStep, World, GrowOld, GoIdle, DeleteRun, StallCheck, EvictJob,
         RecoverStalled, Evict, QueueMoves, TypeOK, QueueTypeOK
<1> QED
  BY <1>1, <1>2, MarkerKept DEF WorldStep, producerVars, reconcilerVars

(* The dispatch marker is stamped only on runs whose job did reach the queue, *)
(* whatever pass or tick stamps it and however late (DispatchMarkerTruthful). *)
THEOREM MarkerTruthful == Spec => []DispatchMarkerTruthful
<1>1. Init => MarkerInv
  BY DEF Init, QueueInit, TablesInit, ProducerInit, ReconcilerInit, PassAt, MarkerInv
<1>2. TypeOK /\ MarkerInv /\ [Next]_vars => MarkerInv'
  <2> SUFFICES ASSUME TypeOK, MarkerInv, [Next]_vars PROVE MarkerInv'
    OBVIOUS
  <2>1. CASE UNCHANGED vars
    BY <2>1, StillMoves, MarkerKept DEF vars, rowVars, producerVars, reconcilerVars
  <2> QED
    BY <2>1, ExecutorMarks, ProducerMarks, ReconcilerMarks, WorldMarks DEF Next
<1>3. MarkerInv => DispatchMarkerTruthful
  BY DEF MarkerInv, DispatchMarkerTruthful
<1> QED
  BY TypeCorrect, <1>1, <1>2, <1>3, PTL DEF Spec
===============================================================================
