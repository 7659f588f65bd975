-------------------------- MODULE GracePeriod_proofs --------------------------
(***************************************************************************)
(* Theorems about GracePeriod, for any thresholds, balances, amounts of a  *)
(* top-up, attempts of a job and failing calls: a driver who has money is  *)
(* not stopped.                                                            *)
(***************************************************************************)
EXTENDS GracePeriod, TLAPS

-----------------------------------------------------------------------------
\* The inductive invariant

\* The worker is busy exactly while the job runs, and a session it has ended while
\* the charger still delivers energy it does not stop again.
Delivery ==
  /\ worker # "idle" <=> job.state = "running"
  /\ job.state \in {"delayed", "running"} => job.failed < Attempts
  /\ charging /\ ended => worker \notin {"check", "stop", "end"}

\* The session is marked by billing alone, at the end of a start: a copy without
\* the mark is not stale in the harmful direction.
Unmarked ==
  /\ Starting => ~mark
  /\ pc["billing"] = "deduct" /\ ~copy => ~mark

\* Where the mark is or is about to be, the row of a job is ACTIVE or CANCELLED.
Recorded == mark \/ pc["billing"] = "mark" => timer \in {"ACTIVE", "CANCELLED"} \/ job = NoJob

\* A top-up that cancels found the mark, which billing clears only after the charge;
\* what is started beside it is started for want of money.
Cancelling ==
  /\ pc["billing"] = "clear" => ~charging
  /\ charging /\ pc["topUp"] \in {"cancelFind", "remove", "cancel"} => mark
  /\ pc["topUp"] \in {"cancelFind", "remove", "cancel", "clear"} /\ Starting => funds <= GraceThreshold

\* A worker that is past its checks and did not see the cancellation is known.
Overtaken == TooLate /\ timer = "CANCELLED" => missed

\* Nothing is under way that ends in a stop.
Quiet == ~TooLate /\ ~Starting /\ (job # NoJob => timer = "CANCELLED")

\* With money, and once a top-up has done what it does about the timer, all is quiet.
QuietWhenPaid ==
  charging /\ ~ended /\ funds > GraceThreshold /\ ~missed /\ pc["topUp"] \in {"idle", "clear"} => Quiet

IInv == TypeOK /\ Delivery /\ Unmarked /\ Recorded /\ Cancelling /\ Overtaken /\ QuietWhenPaid

\* What every step is about.
USE DEF TypeOK, NoJob, Step, Process, Goto, Starting, TooLate, session, site, history

-----------------------------------------------------------------------------
\* Billing

LEMMA ReadSessionStep ==
  ASSUME GraceAssumption, IInv, ReadSession
  PROVE  IInv'
<1> USE DEF GraceAssumption, IInv, ReadSession
<1>1. TypeOK'
  OBVIOUS
<1>2. Delivery' /\ Unmarked' /\ Recorded' /\ Cancelling' /\ Overtaken'
  BY DEF Delivery, Unmarked, Recorded, Cancelling, Overtaken
<1>3. QuietWhenPaid'
  BY DEF Delivery, Unmarked, Recorded, Cancelling, Overtaken, QuietWhenPaid, Quiet
<1> QED BY <1>1, <1>2, <1>3

LEMMA DeductStep ==
  ASSUME GraceAssumption, IInv, Deduct
  PROVE  IInv'
<1> USE DEF GraceAssumption, IInv, Deduct, AfterDeduction
<1>1. TypeOK'
  OBVIOUS
<1>2. Delivery' /\ Unmarked' /\ Recorded' /\ Cancelling' /\ Overtaken'
  BY DEF Delivery, Unmarked, Recorded, Cancelling, Overtaken
<1>3. QuietWhenPaid'
  BY DEF Delivery, Unmarked, Recorded, Cancelling, Overtaken, QuietWhenPaid, Quiet
<1> QED BY <1>1, <1>2, <1>3

LEMMA FindTimerStep ==
  ASSUME GraceAssumption, IInv, FindTimer
  PROVE  IInv'
<1> USE DEF GraceAssumption, IInv, FindTimer, HasTimer
<1>1. TypeOK'
  OBVIOUS
<1>2. Delivery' /\ Unmarked' /\ Recorded' /\ Cancelling' /\ Overtaken'
  BY DEF Delivery, Unmarked, Recorded, Cancelling, Overtaken
<1>3. QuietWhenPaid'
  BY DEF Delivery, Unmarked, Recorded, Cancelling, Overtaken, QuietWhenPaid, Quiet
<1> QED BY <1>1, <1>2, <1>3

LEMMA AddJobStep ==
  ASSUME GraceAssumption, IInv, AddJob
  PROVE  IInv'
<1> USE DEF GraceAssumption, IInv, AddJob, Lapse
<1>1. TypeOK'
  <2>1. job' \in [state : {"none", "delayed", "running", "failed"}, failed : 0..Attempts]
    OBVIOUS
  <2>2. lapsed' \in BOOLEAN
    OBVIOUS
  <2> QED BY <2>1, <2>2
<1>2. Delivery' /\ Unmarked' /\ Recorded' /\ Cancelling' /\ Overtaken'
  BY DEF Delivery, Unmarked, Recorded, Cancelling, Overtaken
<1>3. QuietWhenPaid'
  BY DEF Delivery, Unmarked, Recorded, Cancelling, Overtaken, QuietWhenPaid, Quiet
<1> QED BY <1>1, <1>2, <1>3

LEMMA AddJobFailsStep ==
  ASSUME GraceAssumption, IInv, AddJobFails
  PROVE  IInv'
<1> USE DEF GraceAssumption, IInv, AddJobFails, Lapse
<1>1. TypeOK'
  OBVIOUS
<1>2. Delivery' /\ Unmarked' /\ Recorded' /\ Cancelling' /\ Overtaken'
  BY DEF Delivery, Unmarked, Recorded, Cancelling, Overtaken
<1>3. QuietWhenPaid'
  BY DEF Delivery, Unmarked, Recorded, Cancelling, Overtaken, QuietWhenPaid, Quiet
<1> QED BY <1>1, <1>2, <1>3

LEMMA UpsertTimerStep ==
  ASSUME GraceAssumption, IInv, UpsertTimer
  PROVE  IInv'
<1> USE DEF GraceAssumption, IInv, UpsertTimer
<1>1. TypeOK'
  OBVIOUS
<1>2. Delivery' /\ Unmarked' /\ Recorded' /\ Cancelling' /\ Overtaken'
  BY DEF Delivery, Unmarked, Recorded, Cancelling, Overtaken
<1>3. QuietWhenPaid'
  BY DEF Delivery, Unmarked, Recorded, Cancelling, Overtaken, QuietWhenPaid, Quiet
<1> QED BY <1>1, <1>2, <1>3

LEMMA MarkStep ==
  ASSUME GraceAssumption, IInv, Mark
  PROVE  IInv'
<1> USE DEF GraceAssumption, IInv, Mark
<1>1. TypeOK'
  OBVIOUS
<1>2. Delivery' /\ Unmarked' /\ Recorded' /\ Cancelling' /\ Overtaken'
  BY DEF Delivery, Unmarked, Recorded, Cancelling, Overtaken
<1>3. QuietWhenPaid'
  BY DEF Delivery, Unmarked, Recorded, Cancelling, Overtaken, QuietWhenPaid, Quiet
<1> QED BY <1>1, <1>2, <1>3

-----------------------------------------------------------------------------
\* The cancellation, by billing or by a top-up

LEMMA FindActiveStep ==
  ASSUME GraceAssumption, IInv, NEW p \in Process, FindActive(p)
  PROVE  IInv'
<1> USE DEF GraceAssumption, IInv, FindActive, HasTimer, AfterCancel
<1>1. TypeOK'
  OBVIOUS
<1>2. Delivery' /\ Unmarked' /\ Recorded' /\ Cancelling' /\ Overtaken'
  BY DEF Delivery, Unmarked, Recorded, Cancelling, Overtaken
<1>3. QuietWhenPaid'
  BY DEF Delivery, Unmarked, Recorded, Cancelling, Overtaken, QuietWhenPaid, Quiet
<1> QED BY <1>1, <1>2, <1>3

LEMMA RemoveJobStep ==
  ASSUME GraceAssumption, IInv, NEW p \in Process, RemoveJob(p)
  PROVE  IInv'
<1> USE DEF GraceAssumption, IInv, RemoveJob
<1>1. TypeOK'
  OBVIOUS
<1>2. Delivery' /\ Unmarked' /\ Recorded' /\ Cancelling' /\ Overtaken'
  BY DEF Delivery, Unmarked, Recorded, Cancelling, Overtaken
<1>3. QuietWhenPaid'
  BY DEF Delivery, Unmarked, Recorded, Cancelling, Overtaken, QuietWhenPaid, Quiet
<1> QED BY <1>1, <1>2, <1>3

LEMMA RemoveJobFailsStep ==
  ASSUME GraceAssumption, IInv, NEW p \in Process, RemoveJobFails(p)
  PROVE  IInv'
<1> USE DEF GraceAssumption, IInv, RemoveJobFails
<1>1. TypeOK'
  OBVIOUS
<1>2. Delivery' /\ Unmarked' /\ Recorded' /\ Cancelling' /\ Overtaken'
  BY DEF Delivery, Unmarked, Recorded, Cancelling, Overtaken
<1>3. QuietWhenPaid'
  BY DEF Delivery, Unmarked, Recorded, Cancelling, Overtaken, QuietWhenPaid, Quiet
<1> QED BY <1>1, <1>2, <1>3

LEMMA CancelTimerStep ==
  ASSUME GraceAssumption, IInv, NEW p \in Process, CancelTimer(p)
  PROVE  IInv'
<1> USE DEF GraceAssumption, IInv, CancelTimer, Lapse, AfterCancel
<1>1. TypeOK'
  OBVIOUS
<1>2. Delivery' /\ Unmarked' /\ Recorded' /\ Cancelling' /\ Overtaken'
  BY DEF Delivery, Unmarked, Recorded, Cancelling, Overtaken
<1>3. QuietWhenPaid'
  BY DEF Delivery, Unmarked, Recorded, Cancelling, Overtaken, QuietWhenPaid, Quiet
<1> QED BY <1>1, <1>2, <1>3

LEMMA CancelTimerFailsStep ==
  ASSUME GraceAssumption, IInv, NEW p \in Process, CancelTimerFails(p)
  PROVE  IInv'
<1> USE DEF GraceAssumption, IInv, CancelTimerFails, Lapse, AfterCancel
<1>1. TypeOK'
  OBVIOUS
<1>2. Delivery' /\ Unmarked' /\ Recorded' /\ Cancelling' /\ Overtaken'
  BY DEF Delivery, Unmarked, Recorded, Cancelling, Overtaken
<1>3. QuietWhenPaid'
  BY DEF Delivery, Unmarked, Recorded, Cancelling, Overtaken, QuietWhenPaid, Quiet
<1> QED BY <1>1, <1>2, <1>3

LEMMA ClearMarkStep ==
  ASSUME GraceAssumption, IInv, NEW p \in Process, ClearMark(p)
  PROVE  IInv'
<1> USE DEF GraceAssumption, IInv, ClearMark
<1>1. TypeOK'
  OBVIOUS
<1>2. Delivery' /\ Unmarked' /\ Recorded' /\ Cancelling' /\ Overtaken'
  BY DEF Delivery, Unmarked, Recorded, Cancelling, Overtaken
<1>3. QuietWhenPaid'
  BY DEF Delivery, Unmarked, Recorded, Cancelling, Overtaken, QuietWhenPaid, Quiet
<1> QED BY <1>1, <1>2, <1>3

-----------------------------------------------------------------------------
\* The top-up

LEMMA TopUpStep ==
  ASSUME GraceAssumption, IInv, TopUp
  PROVE  IInv'
<1> USE DEF GraceAssumption, IInv, TopUp
<1>1. TypeOK'
  OBVIOUS
<1>2. Delivery' /\ Unmarked' /\ Recorded' /\ Cancelling' /\ Overtaken'
  BY DEF Delivery, Unmarked, Recorded, Cancelling, Overtaken
<1>3. QuietWhenPaid'
  BY DEF Delivery, Unmarked, Recorded, Cancelling, Overtaken, QuietWhenPaid, Quiet
<1> QED BY <1>1, <1>2, <1>3

LEMMA FindMarkedStep ==
  ASSUME GraceAssumption, IInv, FindMarked
  PROVE  IInv'
<1> USE DEF GraceAssumption, IInv, FindMarked, HasTimer
<1>1. TypeOK'
  OBVIOUS
<1>2. Delivery' /\ Unmarked' /\ Recorded' /\ Cancelling' /\ Overtaken'
  BY DEF Delivery, Unmarked, Recorded, Cancelling, Overtaken
<1>3. QuietWhenPaid'
  BY DEF Delivery, Unmarked, Recorded, Cancelling, Overtaken, QuietWhenPaid, Quiet
<1> QED BY <1>1, <1>2, <1>3

-----------------------------------------------------------------------------
\* The worker

LEMMA FireStep ==
  ASSUME GraceAssumption, IInv, Fire
  PROVE  IInv'
<1> USE DEF GraceAssumption, IInv, Fire, WorkerAt
<1>1. TypeOK'
  OBVIOUS
<1>2. Delivery' /\ Unmarked' /\ Recorded' /\ Cancelling' /\ Overtaken'
  BY DEF Delivery, Unmarked, Recorded, Cancelling, Overtaken
<1>3. QuietWhenPaid'
  BY DEF Delivery, Unmarked, Recorded, Cancelling, Overtaken, QuietWhenPaid, Quiet
<1> QED BY <1>1, <1>2, <1>3

LEMMA CheckSessionStep ==
  ASSUME GraceAssumption, IInv, CheckSession
  PROVE  IInv'
<1> USE DEF GraceAssumption, IInv, CheckSession, WorkerAt, Complete
<1>1. TypeOK'
  OBVIOUS
<1>2. Delivery' /\ Unmarked' /\ Recorded' /\ Cancelling' /\ Overtaken'
  BY DEF Delivery, Unmarked, Recorded, Cancelling, Overtaken
<1>3. QuietWhenPaid'
  BY DEF Delivery, Unmarked, Recorded, Cancelling, Overtaken, QuietWhenPaid, Quiet
<1> QED BY <1>1, <1>2, <1>3

LEMMA CheckTimerStep ==
  ASSUME GraceAssumption, IInv, CheckTimer
  PROVE  IInv'
<1> USE DEF GraceAssumption, IInv, CheckTimer, WorkerAt, Complete, Cancelled, Lapse
<1>1. TypeOK'
  <2>1. job' \in [state : {"none", "delayed", "running", "failed"}, failed : 0..Attempts]
    OBVIOUS
  <2>2. lapsed' \in BOOLEAN
    OBVIOUS
  <2> QED BY <2>1, <2>2
<1>2. Delivery' /\ Unmarked' /\ Recorded' /\ Cancelling' /\ Overtaken'
  BY DEF Delivery, Unmarked, Recorded, Cancelling, Overtaken
<1>3. QuietWhenPaid'
  BY DEF Delivery, Unmarked, Recorded, Cancelling, Overtaken, QuietWhenPaid, Quiet
<1> QED BY <1>1, <1>2, <1>3

LEMMA ForceStopStep ==
  ASSUME GraceAssumption, IInv, ForceStop
  PROVE  IInv'
<1> USE DEF GraceAssumption, IInv, ForceStop, WorkerAt, Lapse
<1>1. TypeOK'
  OBVIOUS
<1>2. Delivery' /\ Unmarked' /\ Recorded' /\ Cancelling' /\ Overtaken'
  BY DEF Delivery, Unmarked, Recorded, Cancelling, Overtaken
<1>3. QuietWhenPaid'
  BY DEF Delivery, Unmarked, Recorded, Cancelling, Overtaken, QuietWhenPaid, Quiet
<1> QED BY <1>1, <1>2, <1>3

LEMMA StopRefusedStep ==
  ASSUME GraceAssumption, IInv, StopRefused
  PROVE  IInv'
<1> USE DEF GraceAssumption, IInv, StopRefused, WorkerAt, Lapse
<1>1. TypeOK'
  OBVIOUS
<1>2. Delivery' /\ Unmarked' /\ Recorded' /\ Cancelling' /\ Overtaken'
  BY DEF Delivery, Unmarked, Recorded, Cancelling, Overtaken
<1>3. QuietWhenPaid'
  BY DEF Delivery, Unmarked, Recorded, Cancelling, Overtaken, QuietWhenPaid, Quiet
<1> QED BY <1>1, <1>2, <1>3

LEMMA EndSessionStep ==
  ASSUME GraceAssumption, IInv, EndSession
  PROVE  IInv'
<1> USE DEF GraceAssumption, IInv, EndSession, WorkerAt
<1>1. TypeOK'
  OBVIOUS
<1>2. Delivery' /\ Unmarked' /\ Recorded' /\ Cancelling' /\ Overtaken'
  BY DEF Delivery, Unmarked, Recorded, Cancelling, Overtaken
<1>3. QuietWhenPaid'
  BY DEF Delivery, Unmarked, Recorded, Cancelling, Overtaken, QuietWhenPaid, Quiet
<1> QED BY <1>1, <1>2, <1>3

LEMMA MarkGraceExecutedStep ==
  ASSUME GraceAssumption, IInv, MarkGraceExecuted
  PROVE  IInv'
<1> USE DEF GraceAssumption, IInv, MarkGraceExecuted, WorkerAt, Complete
<1>1. TypeOK'
  OBVIOUS
<1>2. Delivery' /\ Unmarked' /\ Recorded' /\ Cancelling' /\ Overtaken'
  BY DEF Delivery, Unmarked, Recorded, Cancelling, Overtaken
<1>3. QuietWhenPaid'
  BY DEF Delivery, Unmarked, Recorded, Cancelling, Overtaken, QuietWhenPaid, Quiet
<1> QED BY <1>1, <1>2, <1>3

LEMMA WorkerFailsStep ==
  ASSUME GraceAssumption, IInv, WorkerFails
  PROVE  IInv'
<1> USE DEF GraceAssumption, IInv, WorkerFails, WorkerAt, Lapse
<1>1. TypeOK'
  <2>1. job.failed < Attempts
    BY DEF Delivery
  <2>2. job' \in [state : {"none", "delayed", "running", "failed"}, failed : 0..Attempts]
    BY <2>1
  <2>3. lapsed' \in BOOLEAN
    OBVIOUS
  <2> QED BY <2>2, <2>3
<1>2. Delivery' /\ Unmarked' /\ Recorded' /\ Cancelling' /\ Overtaken'
  BY DEF Delivery, Unmarked, Recorded, Cancelling, Overtaken
<1>3. QuietWhenPaid'
  BY DEF Delivery, Unmarked, Recorded, Cancelling, Overtaken, QuietWhenPaid, Quiet
<1> QED BY <1>1, <1>2, <1>3

-----------------------------------------------------------------------------
\* The charger, and what fails

LEMMA StopStep ==
  ASSUME GraceAssumption, IInv, Stop
  PROVE  IInv'
<1> USE DEF GraceAssumption, IInv, Stop
<1>1. TypeOK'
  OBVIOUS
<1>2. Delivery' /\ Unmarked' /\ Recorded' /\ Cancelling' /\ Overtaken'
  BY DEF Delivery, Unmarked, Recorded, Cancelling, Overtaken
<1>3. QuietWhenPaid'
  BY DEF Delivery, Unmarked, Recorded, Cancelling, Overtaken, QuietWhenPaid, Quiet
<1> QED BY <1>1, <1>2, <1>3

LEMMA OtherStartsStep ==
  ASSUME GraceAssumption, IInv, OtherStarts
  PROVE  IInv'
<1> USE DEF GraceAssumption, IInv, OtherStarts
<1>1. TypeOK'
  OBVIOUS
<1>2. Delivery' /\ Unmarked' /\ Recorded' /\ Cancelling' /\ Overtaken'
  BY DEF Delivery, Unmarked, Recorded, Cancelling, Overtaken
<1>3. QuietWhenPaid'
  BY DEF Delivery, Unmarked, Recorded, Cancelling, Overtaken, QuietWhenPaid, Quiet
<1> QED BY <1>1, <1>2, <1>3

LEMMA FailsStep ==
  ASSUME GraceAssumption, IInv, NEW p \in Process, Fails(p)
  PROVE  IInv'
<1> USE DEF GraceAssumption, IInv, Fails, Lapse
<1>1. TypeOK'
  <2>1. lapsed' \in BOOLEAN
    OBVIOUS
  <2>2. missed' \in BOOLEAN
    OBVIOUS
  <2> QED BY <2>1, <2>2
<1>2. Delivery' /\ Unmarked' /\ Recorded' /\ Cancelling' /\ Overtaken'
  BY DEF Delivery, Unmarked, Recorded, Cancelling, Overtaken
<1>3. QuietWhenPaid'
  BY DEF Delivery, Unmarked, Recorded, Cancelling, Overtaken, QuietWhenPaid, Quiet
<1> QED BY <1>1, <1>2, <1>3

-----------------------------------------------------------------------------
\* The theorems

LEMMA InitIInv == GraceAssumption /\ Init => IInv
<1> SUFFICES ASSUME GraceAssumption, Init PROVE IInv
  OBVIOUS
<1>1. TypeOK
  <2>1. job \in [state : {"none", "delayed", "running", "failed"}, failed : 0..Attempts]
    BY DEF GraceAssumption, Init
  <2>2. pc \in [Process -> Step]
    BY DEF Init
  <2>3. /\ mark \in BOOLEAN /\ ended \in BOOLEAN /\ copy \in BOOLEAN /\ charging \in BOOLEAN
        /\ stopAsked \in BOOLEAN /\ named \in BOOLEAN /\ lapsed \in BOOLEAN /\ missed \in BOOLEAN
    BY DEF Init
  <2>4. funds \in 0..MaxFunds /\ faults \in 0..MaxFaults
    BY DEF GraceAssumption, Init
  <2>5. timer = "none" /\ worker = "idle"
    BY DEF Init
  <2> QED BY <2>1, <2>2, <2>3, <2>4, <2>5
<1>2. Delivery /\ Unmarked /\ Recorded /\ Cancelling /\ Overtaken /\ QuietWhenPaid
  BY DEF Init, Delivery, Unmarked, Recorded, Cancelling, Overtaken, QuietWhenPaid, Quiet
<1> QED BY <1>1, <1>2 DEF IInv

LEMMA CancelSteps ==
  ASSUME GraceAssumption, IInv, NEW p \in Process, Cancel(p)
  PROVE  IInv'
BY FindActiveStep, RemoveJobStep, RemoveJobFailsStep, CancelTimerStep, CancelTimerFailsStep, ClearMarkStep
   DEF Cancel

LEMMA NextIInv == GraceAssumption /\ IInv /\ [Next]_vars => IInv'
<1> SUFFICES ASSUME GraceAssumption, IInv, [Next]_vars PROVE IInv'
  OBVIOUS
<1>1. CASE Billing
  BY <1>1, ReadSessionStep, DeductStep, FindTimerStep, AddJobStep, AddJobFailsStep, UpsertTimerStep, MarkStep,
     CancelSteps DEF Billing, Start
<1>2. CASE TopUp \/ Webhook
  BY <1>2, TopUpStep, FindMarkedStep, CancelSteps DEF Webhook
<1>3. CASE Fire \/ Worker
  BY <1>3, FireStep, CheckSessionStep, CheckTimerStep, ForceStopStep, StopRefusedStep, EndSessionStep,
     MarkGraceExecutedStep DEF Worker
<1>4. CASE Stop \/ OtherStarts
  BY <1>4, StopStep, OtherStartsStep
<1>5. CASE (\E p \in Process : Fails(p)) \/ WorkerFails
  BY <1>5, FailsStep, WorkerFailsStep
<1>6. CASE UNCHANGED vars
  BY <1>6 DEF vars, IInv, Delivery, Unmarked, Recorded, Cancelling, Overtaken, QuietWhenPaid, Quiet
<1> QED BY <1>1, <1>2, <1>3, <1>4, <1>5, <1>6 DEF Next

\* The inductive invariant holds: with money, and once a top-up has done what it
\* does about the timer, nothing is under way that ends in a stop.
THEOREM Inductive == Spec => []IInv
BY GraceAssumption, InitIInv, NextIInv, PTL DEF Spec

\* Type correctness.
THEOREM TypeCorrect == Spec => []TypeOK
<1>1. IInv => TypeOK
  BY DEF IInv
<1> QED BY <1>1, Inductive, PTL

\* graceWorker stops no driver whose balance is above the threshold, for any
\* thresholds and amounts and whatever fails, but for the races StoppedWhenUnpaid
\* names.
THEOREM PaidIsNotStopped == Spec => StoppedWhenUnpaid
<1>1. ASSUME GraceAssumption, IInv, ForceStop, named
      PROVE  funds <= GraceThreshold \/ missed \/ pc["topUp"] # "idle"
  BY <1>1 DEF IInv, Delivery, QuietWhenPaid, Quiet, ForceStop, WorkerAt, GraceAssumption
<1>2. IInv /\ [Next]_vars =>
        [ForceStop /\ named => funds <= GraceThreshold \/ missed \/ pc["topUp"] # "idle"]_vars
  BY <1>1, GraceAssumption
<1> QED BY <1>2, Inductive, PTL DEF Spec, StoppedWhenUnpaid
=============================================================================
