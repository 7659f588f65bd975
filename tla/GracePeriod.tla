----------------------------- MODULE GracePeriod -----------------------------
(***************************************************************************)
(* The grace period of one session: when the driver's money runs low a     *)
(* timer is started, and unless the driver tops up before it fires the     *)
(* worker of the queue stops the charger.  The timer is two records, a row *)
(* GracePeriodJob in the database and a delayed job in Redis, and the      *)
(* session has a mark, graceStartedAt; the three are written one by one,   *)
(* by the billing of a reading, by a top-up and by the worker, which run   *)
(* beside one another and may fail at every call.                          *)
(***************************************************************************)
EXTENDS Naturals

CONSTANTS
  GraceThreshold, LowThreshold,   \* in readings the balance pays for
  TopUpAmount, MaxFunds,
  Attempts,                       \* of a job
  MaxFaults                       \* failing calls

ASSUME GraceAssumption ==
  /\ {GraceThreshold, LowThreshold, TopUpAmount, MaxFunds, Attempts, MaxFaults} \subseteq Nat
  /\ 0 < GraceThreshold /\ GraceThreshold <= LowThreshold /\ 0 < Attempts

VARIABLES
  funds,       \* the balance
  mark,        \* whether graceStartedAt is set
  ended,       \* whether endedAt is set
  timer,       \* status of the GracePeriodJob row
  job,         \* the job in Redis: state and attempts that failed
  pc,          \* the steps of billing and of the top-up
  copy,        \* the mark as billing read it
  worker,
  charging,    \* whether the charger delivers energy for the session
  stopAsked,   \* whether it was asked to stop that
  named,       \* whether the charger state names this session
  faults,
  lapsed,      \* history: whether the timer was given up
  missed       \* history: a top-up the timer was not told of

vars == <<funds, mark, ended, timer, job, pc, copy, worker, charging, stopAsked, named, faults, lapsed, missed>>

session == <<funds, mark, ended>>
site    == <<charging, stopAsked, named>>
history == <<lapsed, missed>>

Process == {"billing", "topUp"}
NoJob   == [state |-> "none", failed |-> 0]

Step == {"idle", "deduct", "start", "add", "upsert", "mark",
         "find", "cancelFind", "remove", "cancel", "clear"}

TypeOK ==
  /\ funds \in 0..MaxFunds
  /\ {mark, ended, copy, charging, stopAsked, named, lapsed, missed} \subseteq BOOLEAN
  /\ timer \in {"none", "ACTIVE", "CANCELLED", "EXECUTED"}
  /\ job \in [state : {"none", "delayed", "running", "failed"}, failed : 0..Attempts]
  /\ pc \in [Process -> Step]
  /\ worker \in {"idle", "session", "check", "stop", "end", "executed"}
  /\ faults \in 0..MaxFaults

Goto(p, step) == pc' = [pc EXCEPT ![p] = step]

Lapse == lapsed' = TRUE

\* Billing has decided to start the timer and not finished.
Starting == pc["billing"] \in {"start", "add", "upsert", "mark"}

\* The worker has made its checks.
TooLate == worker = "stop"

-----------------------------------------------------------------------------
\* A reading is billed

ReadSession ==
  /\ pc["billing"] = "idle" /\ charging
  /\ copy' = mark
  /\ Goto("billing", "deduct")
  /\ UNCHANGED <<session, timer, job, worker, site, faults, history>>

\* What billing does about the balance that is left: nothing is left to
\* compare when the deduction was refused.
AfterDeduction(before) ==
  LET left == before - 1 IN
  IF before > 0 /\ left > LowThreshold THEN "cancelFind"
  ELSE IF ~copy /\ (before = 0 \/ left \in 1..GraceThreshold) THEN "start"
  ELSE "idle"

Deduct ==
  /\ pc["billing"] = "deduct"
  /\ funds' = IF funds > 0 THEN funds - 1 ELSE 0
  /\ Goto("billing", AfterDeduction(funds))
  /\ UNCHANGED <<mark, ended, timer, job, copy, worker, site, faults, history>>

-----------------------------------------------------------------------------
\* startGracePeriod

\* Mutant: a row of any status is taken for a timer that runs.
HasTimerEver == timer # "none"

HasTimer == timer = "ACTIVE"

FindTimer ==
  /\ pc["billing"] = "start"
  /\ Goto("billing", IF HasTimer THEN "mark" ELSE "add")
  /\ UNCHANGED <<session, timer, job, copy, worker, site, faults, history>>

\* The id of the job is that of the transaction: where Redis still has a job of
\* that id, also one that runs or has failed, nothing is added.
AddJob ==
  /\ pc["billing"] = "add"
  /\ job' = IF job = NoJob THEN [state |-> "delayed", failed |-> 0] ELSE job
  /\ IF job.state \in {"none", "delayed"} THEN UNCHANGED lapsed ELSE Lapse
  /\ Goto("billing", "upsert")
  /\ UNCHANGED <<session, timer, copy, worker, site, faults, missed>>

\* The error is caught, the row is written all the same.
AddJobFails ==
  /\ pc["billing"] = "add" /\ faults < MaxFaults
  /\ faults' = faults + 1
  /\ Lapse
  /\ Goto("billing", "upsert")
  /\ UNCHANGED <<session, timer, job, copy, worker, site, missed>>

UpsertTimer ==
  /\ pc["billing"] = "upsert"
  /\ timer' = "ACTIVE"
  /\ Goto("billing", "mark")
  /\ UNCHANGED <<session, job, copy, worker, site, faults, history>>

Mark ==
  /\ pc["billing"] = "mark"
  /\ mark' = TRUE
  /\ Goto("billing", "idle")
  /\ UNCHANGED <<funds, ended, timer, job, copy, worker, site, faults, history>>

-----------------------------------------------------------------------------
\* cancelGracePeriod, and what its callers do next

\* After a top-up and at the end of the session the mark is cleared, after a
\* reading it is not.
AfterCancel(p) == IF p = "topUp" \/ ~charging THEN "clear" ELSE "idle"

FindActive(p) ==
  /\ pc[p] = "cancelFind"
  /\ Goto(p, IF HasTimer THEN "remove" ELSE AfterCancel(p))
  /\ UNCHANGED <<session, timer, job, copy, worker, site, faults, history>>

\* A job that runs is locked and cannot be removed; that error is caught, as is
\* every other error of Redis.
RemoveJob(p) ==
  /\ pc[p] = "remove"
  /\ job' = IF job.state = "running" THEN job ELSE NoJob
  /\ Goto(p, "cancel")
  /\ UNCHANGED <<session, timer, copy, worker, site, faults, history>>

RemoveJobFails(p) ==
  /\ pc[p] = "remove" /\ faults < MaxFaults
  /\ faults' = faults + 1
  /\ Goto(p, "cancel")
  /\ UNCHANGED <<session, timer, job, copy, worker, site, history>>

CancelTimer(p) ==
  /\ pc[p] = "cancel"
  /\ timer' = "CANCELLED"
  /\ missed' = TooLate
  /\ Goto(p, AfterCancel(p))
  /\ IF AfterCancel(p) = "idle" THEN Lapse ELSE UNCHANGED lapsed
  /\ UNCHANGED <<session, job, copy, worker, site, faults>>

\* The error is caught, and the timer looks active with its job removed.
CancelTimerFails(p) ==
  /\ pc[p] = "cancel" /\ faults < MaxFaults
  /\ faults' = faults + 1
  /\ Lapse
  /\ missed' = TRUE
  /\ Goto(p, AfterCancel(p))
  /\ UNCHANGED <<session, timer, job, copy, worker, site>>

ClearMark(p) ==
  /\ pc[p] = "clear"
  /\ mark' = FALSE
  /\ Goto(p, "idle")
  /\ UNCHANGED <<funds, ended, timer, job, copy, worker, site, faults, history>>

-----------------------------------------------------------------------------
\* The driver tops up

\* The wallet is credited by the handler of the payment, see Payment.  After the
\* session it concerns nobody here.
TopUp ==
  /\ pc["topUp"] = "idle" /\ charging /\ funds + TopUpAmount <= MaxFunds
  /\ funds' = funds + TopUpAmount
  /\ Goto("topUp", "find")
  /\ UNCHANGED <<mark, ended, timer, job, copy, worker, site, faults, history>>

\* handleWalletTopUpDuringSession: the sessions that have the mark.
FindMarked ==
  /\ pc["topUp"] = "find"
  /\ Goto("topUp", IF ~ended /\ mark THEN "cancelFind" ELSE "idle")
  /\ missed' = (missed \/ Starting \/ TooLate \/ (~mark /\ (HasTimer \/ job # NoJob)))
  /\ UNCHANGED <<session, timer, job, copy, worker, site, faults, lapsed>>

-----------------------------------------------------------------------------
\* The worker

WorkerAt(step) == worker = step

\* The delay has passed, or that before another attempt.
Fire ==
  /\ job.state = "delayed" /\ WorkerAt("idle")
  /\ job' = [job EXCEPT !.state = "running"]
  /\ worker' = "session"
  /\ UNCHANGED <<session, timer, pc, copy, site, faults, history>>

Complete == job' = NoJob /\ worker' = "idle"

CheckSession ==
  /\ WorkerAt("session")
  /\ IF ended THEN Complete ELSE worker' = "check" /\ UNCHANGED job
  /\ UNCHANGED <<session, timer, pc, copy, site, faults, history>>

\* Mutant: the row is not read again.
CancelledUnread == FALSE

Cancelled == timer = "CANCELLED"

\* A job that was not removed and fires while the timer is started again finds the
\* row still CANCELLED, and is gone.
CheckTimer ==
  /\ WorkerAt("check")
  /\ IF Cancelled THEN Complete ELSE worker' = "stop" /\ UNCHANGED job
  /\ IF Cancelled /\ Starting THEN Lapse ELSE UNCHANGED lapsed
  /\ UNCHANGED <<session, timer, pc, copy, site, faults, missed>>

\* forceStopForGrace names the transaction, but the one in the charger state is
\* preferred.
ForceStop ==
  /\ WorkerAt("stop")
  /\ IF named THEN charging /\ stopAsked' = TRUE /\ UNCHANGED lapsed
     ELSE Lapse /\ UNCHANGED stopAsked
  /\ worker' = "end"
  /\ UNCHANGED <<session, timer, job, pc, copy, charging, named, faults, missed>>

\* The charger is offline or refuses: nobody tries again.
StopRefused ==
  /\ WorkerAt("stop")
  /\ Lapse
  /\ worker' = "executed"
  /\ UNCHANGED <<session, timer, job, pc, copy, site, faults, missed>>

EndSession ==
  /\ WorkerAt("end")
  /\ ended' = TRUE
  /\ worker' = "executed"
  /\ UNCHANGED <<funds, mark, timer, job, pc, copy, site, faults, history>>

MarkGraceExecuted ==
  /\ WorkerAt("executed")
  /\ timer' = "EXECUTED"
  /\ Complete
  /\ UNCHANGED <<session, pc, copy, site, faults, history>>

\* The job is tried again, and after the last attempt kept among the failed.
WorkerFails ==
  /\ ~WorkerAt("idle") /\ faults < MaxFaults
  /\ faults' = faults + 1
  /\ worker' = "idle"
  /\ job' = [state |-> IF job.failed + 1 < Attempts THEN "delayed" ELSE "failed",
             failed |-> job.failed + 1]
  /\ IF job.failed + 1 < Attempts THEN UNCHANGED lapsed ELSE Lapse
  /\ UNCHANGED <<session, timer, pc, copy, site, missed>>

-----------------------------------------------------------------------------
\* The charger and its drivers

\* The session stops, as it was asked to or because the driver unplugs; billing
\* is finalised.
Stop ==
  /\ charging /\ pc["billing"] = "idle"
  /\ charging' = FALSE
  /\ ended' = TRUE
  /\ Goto("billing", "cancelFind")
  /\ UNCHANGED <<funds, mark, timer, job, copy, worker, stopAsked, named, faults, history>>

\* A session starts on another connector of the charger.
OtherStarts ==
  /\ named
  /\ named' = FALSE
  /\ UNCHANGED <<session, timer, job, pc, copy, worker, charging, stopAsked, faults, history>>

\* A call of billing or of the top-up throws, or the process dies; in the middle
\* of a cancellation the timer then looks active without a job, or the mark set
\* without a timer.
Fails(p) ==
  /\ pc[p] # "idle" /\ faults < MaxFaults
  /\ faults' = faults + 1
  /\ Goto(p, "idle")
  /\ missed' = (missed \/ p = "topUp")
  /\ IF pc[p] \in {"cancel", "clear"} /\ charging THEN Lapse ELSE UNCHANGED lapsed
  /\ UNCHANGED <<session, timer, job, copy, worker, site>>

-----------------------------------------------------------------------------
Init ==
  /\ funds \in 1..MaxFunds
  /\ mark = FALSE /\ ended = FALSE
  /\ timer = "none" /\ job = NoJob
  /\ pc = [p \in Process |-> "idle"] /\ copy = FALSE
  /\ worker = "idle"
  /\ charging = TRUE /\ stopAsked = FALSE /\ named = TRUE
  /\ faults = 0 /\ lapsed = FALSE /\ missed = FALSE

Start   == FindTimer \/ AddJob \/ AddJobFails \/ UpsertTimer \/ Mark
Cancel(p) == FindActive(p) \/ RemoveJob(p) \/ RemoveJobFails(p) \/ CancelTimer(p) \/ CancelTimerFails(p) \/ ClearMark(p)
Billing == ReadSession \/ Deduct \/ Start \/ Cancel("billing")
Webhook == FindMarked \/ Cancel("topUp")
Worker  == CheckSession \/ CheckTimer \/ ForceStop \/ StopRefused \/ EndSession \/ MarkGraceExecuted

Next ==
  \/ Billing \/ TopUp \/ Webhook \/ Fire \/ Worker
  \/ Stop \/ OtherStarts
  \/ (\E p \in Process : Fails(p)) \/ WorkerFails

\* Readings come as long as energy is delivered, the queue delivers its jobs, and
\* a charger that accepted to stop does.
Fairness ==
  /\ WF_vars(Billing) /\ WF_vars(Webhook) /\ WF_vars(Worker) /\ WF_vars(Fire)
  /\ SF_vars(stopAsked /\ Stop)

Spec == Init /\ [][Next]_vars /\ Fairness

-----------------------------------------------------------------------------
\* A driver whose balance is above the grace threshold is not stopped by the
\* worker, unless the top-up is being told to the timer, met a billing that was
\* just starting it or a worker that had made its checks, or failed on its way
\* (gracePeriod.service, graceWorker, handleWalletTopUpDuringSession).
StoppedWhenUnpaid ==
  [][ForceStop /\ named => funds <= GraceThreshold \/ missed \/ pc["topUp"] # "idle"]_vars

\* Charging does not go on for ever without money, whatever calls fail while the
\* timer is started and the job is run.  The exceptions are the ways the code gives
\* a timer up: the mark stays set when a reading cancels it (billing:307) or a
\* cancellation fails half way, the charger refuses or is offline
\* (graceWorker:66), the job cannot be queued, or one that was not removed has its
\* id, fires in the middle of a start or has failed, or the charger state named
\* another session (remoteStopTransaction:60).
UnpaidStops == charging /\ funds = 0 ~> ~charging \/ funds > 0 \/ lapsed
=============================================================================
