---------------------------- MODULE RunExecutor -----------------------------
(***************************************************************************)
(* The handler of the workflow-run.process job.  One action per database    *)
(* call or send; between two of them any other delivery, the producer or a  *)
(* sweep may run.  A call may fail before it takes effect, and a write may  *)
(* also take effect and then report an error (its reply was lost).          *)
(***************************************************************************)
EXTENDS RunTables

CONSTANT AmbiguousSmtp   \* may sendMail throw after the server took the message?

ASSUME SmtpAssumption == AmbiguousSmtp \in BOOLEAN

VARIABLES
    wk,     \* per worker, where its handler is and its locals
    sent    \* history of messages the SMTP server accepted, per run and step

executorVars == <<wk, sent>>

Idle == [pc |-> "idle", run |-> NoRun, attempt |-> 0, loaded |-> "none",
         step |-> 0, sendOk |-> FALSE]

WorkerPc == {"idle", "load", "claim", "context", "find", "create", "takeover",
             "send", "record", "complete", "fail"}

InStep == {"find", "create", "takeover", "send", "record"}

HandlerState == [pc: WorkerPc, run: Runs \cup {NoRun}, attempt: 0..MaxAttempts,
                 loaded: {"none", "queued", "running"},
                 step: 0..NumSteps, sendOk: BOOLEAN]

ExecutorTypeOK ==
    /\ wk \in [Workers -> HandlerState]
    /\ \A w \in Workers :
          /\ wk[w].pc # "idle" => wk[w].run \in Runs
          /\ wk[w].pc \in InStep => wk[w].step \in Steps
    /\ sent \in [Runs -> [Steps -> Nat]]

ExecutorInit ==
    /\ wk = [w \in Workers |-> Idle]
    /\ sent = [r \in Runs |-> [s \in Steps |-> 0]]

At(w, pc) == wk[w].pc = pc
MovesTo(w, h) == wk' = [wk EXCEPT ![w] = h]
Goto(w, pc) == MovesTo(w, [wk[w] EXCEPT !.pc = pc])

(* The handler ends; the queue is told how.                                  *)
Return(w) == MovesTo(w, Idle) /\ JobReturned(w, wk[w].run)
Throw(w) == MovesTo(w, Idle) /\ JobThrew(w, wk[w].run)

(* What follows step number i: the next step, or the completion write.       *)
StepDone(w, i) ==
    IF i < NumSteps
    THEN MovesTo(w, [wk[w] EXCEPT !.pc = "find", !.step = i + 1])
    ELSE Goto(w, "complete")

(* An error inside the handler's try block.                                  *)
Catch(w) == CallFails /\ Goto(w, "fail") /\ UNCHANGED queueVars

-----------------------------------------------------------------------------
Deliver(w, r) ==
    /\ At(w, "idle")
    /\ TakeJob(w, r)
    /\ MovesTo(w, [Idle EXCEPT !.pc = "load", !.run = r, !.attempt = Attempt(r)])
    /\ UNCHANGED <<rowVars, log, sent, budgetVars>>

(* A missing or terminal run drops the job; the read is outside the try.     *)
LoadRun(w) ==
    LET r == wk[w].run IN
    /\ At(w, "load")
    /\ \/ /\ Exists(r) /\ run[r] \notin Terminal
          /\ MovesTo(w, [wk[w] EXCEPT !.pc = "claim", !.loaded = run[r]])
          /\ UNCHANGED <<queueVars, faults>>
       \/ ~(Exists(r) /\ run[r] \notin Terminal) /\ Return(w) /\ UNCHANGED faults
       \/ CallFails /\ Throw(w)
    /\ UNCHANGED <<rowVars, log, sent, crashes>>

(* queued -> running.  A delivery that read queued and lost the race stops;  *)
(* one that read running goes on (a retry).                                  *)
ClaimRun(w) ==
    LET r == wk[w].run IN
    /\ At(w, "claim")
    /\ \/ /\ UpdateRun(r, {"queued"}, "running")
          /\ \/ /\ run[r] = "queued" \/ wk[w].loaded # "queued"
                /\ Goto(w, "context")
                /\ UNCHANGED <<queueVars, faults>>
             \/ /\ run[r] # "queued" /\ wk[w].loaded = "queued"
                /\ Return(w)
                /\ UNCHANGED faults
             \/ Catch(w)
       \/ Catch(w) /\ UNCHANGED rowVars
    /\ UNCHANGED <<log, sent, crashes>>

(* Resolve and plan the definition, load survey, response, branding and      *)
(* recipients.  Anything missing or malformed is an error of this attempt.   *)
LoadContext(w) ==
    /\ At(w, "context")
    /\ \/ StepDone(w, 0) /\ UNCHANGED <<queueVars, faults>>
       \/ Goto(w, "fail") /\ UNCHANGED <<queueVars, faults>>
       \/ Catch(w)
    /\ UNCHANGED <<rowVars, log, sent, crashes>>

(* Mutant: a step another delivery has in hand counts as done.               *)
FindStepSkipsRunning(w) ==
    LET found == log[wk[w].run][wk[w].step] IN
    /\ At(w, "find")
    /\ \/ found \in {"succeeded", "running"} /\ StepDone(w, wk[w].step)
       \/ found = "none" /\ Goto(w, "create")
       \/ found \in {"failed", "skipped"} /\ Goto(w, "takeover")
    /\ UNCHANGED <<rowVars, log, queueVars, sent, budgetVars>>

(* Look at the step's row before claiming it.                                *)
FindStep(w) ==
    LET found == log[wk[w].run][wk[w].step] IN
    /\ At(w, "find")
    /\ \/ /\ found = "succeeded"
          /\ StepDone(w, wk[w].step)
          /\ UNCHANGED <<queueVars, faults>>
       \/ found = "running" /\ Return(w) /\ UNCHANGED faults
       \/ found = "none" /\ Goto(w, "create") /\ UNCHANGED <<queueVars, faults>>
       \/ /\ found \in {"failed", "skipped"}
          /\ Goto(w, "takeover")
          /\ UNCHANGED <<queueVars, faults>>
       \/ Catch(w)
    /\ UNCHANGED <<rowVars, log, sent, crashes>>

(* Claim by creating the row: the unique (runId, stepId) lets one through.   *)
(* The row of a deleted run cannot be created (foreign key).                 *)
CreateStep(w) ==
    LET r == wk[w].run
        s == wk[w].step
    IN
    /\ At(w, "create")
    /\ \/ /\ Exists(r) /\ log[r][s] = "none"
          /\ WriteLog(r, s, "running")
          /\ \/ Goto(w, "send") /\ UNCHANGED <<queueVars, faults>>
             \/ Catch(w)
       \/ Exists(r) /\ log[r][s] # "none" /\ Return(w) /\ UNCHANGED <<log, faults>>
       \/ ~Exists(r) /\ Goto(w, "fail") /\ UNCHANGED <<log, queueVars, faults>>
       \/ Catch(w) /\ UNCHANGED log
    /\ UNCHANGED <<rowVars, sent, crashes>>

(* Mutant: the flip trusts what FindStep read.                               *)
TakeOverStepUnguarded(w) ==
    /\ At(w, "takeover")
    /\ WriteLog(wk[w].run, wk[w].step, "running")
    /\ Goto(w, "send")
    /\ UNCHANGED <<rowVars, queueVars, sent, budgetVars>>

(* Claim by flipping the row of an earlier attempt, if it is still failed.   *)
TakeOverStep(w) ==
    LET r == wk[w].run
        s == wk[w].step
    IN
    /\ At(w, "takeover")
    /\ \/ /\ log[r][s] = "failed"
          /\ WriteLog(r, s, "running")
          /\ \/ Goto(w, "send") /\ UNCHANGED <<queueVars, faults>>
             \/ Catch(w)
       \/ log[r][s] # "failed" /\ Return(w) /\ UNCHANGED <<log, faults>>
       \/ Catch(w) /\ UNCHANGED log
    /\ UNCHANGED <<rowVars, sent, crashes>>

(* sendResolvedEmail never throws: a refused recipient, a missing SMTP       *)
(* configuration and a transport error all come back as a failed outcome.    *)
SendEmail(w) ==
    LET r == wk[w].run
        s == wk[w].step
    IN
    /\ At(w, "send")
    /\ \E accepted \in BOOLEAN, ok \in BOOLEAN :
          /\ ok => accepted
          /\ accepted /\ ~ok => AmbiguousSmtp
          /\ MovesTo(w, [wk[w] EXCEPT !.pc = "record", !.sendOk = ok])
          /\ sent' = IF accepted THEN [sent EXCEPT ![r][s] = @ + 1] ELSE sent
    /\ UNCHANGED <<rowVars, log, queueVars, budgetVars>>

(* The outcome goes onto the row whatever the row now says.  There is no row *)
(* to update once the run has been deleted.                                  *)
RecordStep(w) ==
    LET r == wk[w].run
        s == wk[w].step
    IN
    /\ At(w, "record")
    /\ \/ /\ Exists(r)
          /\ WriteLog(r, s, IF wk[w].sendOk THEN "succeeded" ELSE "failed")
          /\ \/ /\ IF wk[w].sendOk THEN StepDone(w, s) ELSE Goto(w, "fail")
                /\ UNCHANGED <<queueVars, faults>>
             \/ Catch(w)
       \/ ~Exists(r) /\ Goto(w, "fail") /\ UNCHANGED <<log, queueVars, faults>>
       \/ Catch(w) /\ UNCHANGED log
    /\ UNCHANGED <<rowVars, sent, crashes>>

(* Mutant: the completion write does not look at the status.                 *)
CompleteRunUnguarded(w) ==
    /\ At(w, "complete")
    /\ UpdateRun(wk[w].run, {"running", "failed"}, "completed")
    /\ Return(w)
    /\ UNCHANGED <<log, sent, budgetVars>>

(* The completion write only finalizes a run that is still running.          *)
CompleteRun(w) ==
    /\ At(w, "complete")
    /\ \/ /\ UpdateRun(wk[w].run, {"running"}, "completed")
          /\ \/ Return(w) /\ UNCHANGED faults
             \/ Catch(w)
       \/ Catch(w) /\ UNCHANGED rowVars
    /\ UNCHANGED <<log, sent, crashes>>

(* Mutants: the last attempt is taken for one more retry; the failure write  *)
(* overwrites a verdict.                                                     *)
HandleRunErrorLate(w) ==
    LET final == wk[w].attempt > MaxAttempts IN
    /\ At(w, "fail")
    /\ UpdateRun(wk[w].run, {"queued", "running"},
                 IF final THEN "failed" ELSE run[wk[w].run])
    /\ IF final THEN Return(w) ELSE Throw(w)
    /\ UNCHANGED <<log, sent, budgetVars>>

HandleRunErrorUnguarded(w) ==
    LET final == wk[w].attempt >= MaxAttempts IN
    /\ At(w, "fail")
    /\ UpdateRun(wk[w].run, {"queued", "running"} \cup Terminal,
                 IF final THEN "failed" ELSE run[wk[w].run])
    /\ IF final THEN Return(w) ELSE Throw(w)
    /\ UNCHANGED <<log, sent, budgetVars>>

(* handleRunError: a terminal failure is written and swallowed on the last   *)
(* attempt; before it only the error trace, and the error is rethrown.  The  *)
(* write is best effort and never touches a terminal run.                    *)
HandleRunError(w) ==
    LET r == wk[w].run
        final == wk[w].attempt >= MaxAttempts
        written == IF final THEN "failed" ELSE run[r]
    IN
    /\ At(w, "fail")
    /\ \/ /\ UpdateRun(r, {"queued", "running"}, written)
          /\ UNCHANGED faults
       \/ CallFails /\ UNCHANGED rowVars
    /\ IF final THEN Return(w) ELSE Throw(w)
    /\ UNCHANGED <<log, sent, crashes>>

Execute(w) ==
    \/ LoadRun(w)
    \/ ClaimRun(w)
    \/ LoadContext(w)
    \/ FindStep(w)
    \/ CreateStep(w)
    \/ TakeOverStep(w)
    \/ SendEmail(w)
    \/ RecordStep(w)
    \/ CompleteRun(w)
    \/ HandleRunError(w)

(* The worker dies with its handler, or outlives its lock.                   *)
WorkerCrash(w) ==
    /\ ~At(w, "idle")
    /\ Crash
    /\ MovesTo(w, Idle)
    /\ DropLock(w)
    /\ UNCHANGED <<rowVars, log, sent, faults>>

LoseLock(w) ==
    /\ ~At(w, "idle")
    /\ lock[wk[w].run] = w
    /\ Crash
    /\ DropLock(w)
    /\ UNCHANGED <<rowVars, log, executorVars, faults>>
=============================================================================
