------------------------------ MODULE Booking -------------------------------
(***************************************************************************)
(* The bookings of one connector: createBooking, cancelBooking, the jobs   *)
(* booking-expiry and send-reservation of the queue, and the part of       *)
(* StartTransaction that admits a driver.  A booking row, its slots, its   *)
(* queue jobs and the reservation at the charger are written one after the *)
(* other, and every handler reads the row first and writes it by its id    *)
(* later.  A call to MySQL, Redis or the charger is one step.              *)
(*                                                                         *)
(* Time is counted in units of which Hour make an hour.                    *)
(***************************************************************************)
EXTENDS ConnectorSlots, FiniteSets

CONSTANTS
  Request,           \* Request[b]: what the app may ask for as b
  Cancelled, Arriving,  \* the bookings a user may cancel, or come for
  GracePeriod, MinDuration, MaxDuration, MaxAhead,  \* DEFAULT_CONFIG
  Soon, Late,        \* 30 minutes, 5 minutes
  Penalty, Opening,  \* the penalty, and what each user has
  Attempts,          \* attempts of a queue job
  MaxNow, MaxFaults  \* bounds: the last instant; faults and debits from outside

ASSUME BookingAssumption ==
  /\ {GracePeriod, MinDuration, MaxDuration, MaxAhead, Soon, Late, Penalty,
      Attempts, MaxNow, MaxFaults} \subseteq Nat
  /\ Attempts > 0 /\ User # {}
  /\ Cancelled \subseteq Booking /\ Arriving \subseteq Booking
  /\ Opening \in [User -> Nat]
  /\ Request \in [Booking -> SUBSET [user : User, start : Nat, duration : Nat]]

VARIABLES
  now,
  booking,     \* booking[b]: the row
  pc,          \* pc[h][b]: next call of handler h of booking b
  left,        \* left[h][b]: the slots it has still to delete
  faults,      \* how often something went wrong or money was spent elsewhere
  attempt,     \* attempt[b]: attempts made of the expiry job
  start,       \* the StartTransaction of the connector
  reserved,    \* the reservations the charger holds
  balance,     \* balance[u]
  charged,     \* charged[b]: how often the penalty was taken
  disturbed,   \* history: a handler died, or a cancel overtook createBooking
  wiped,       \* history: another handler deleted a slot
  early,       \* history: used or cancelled before the expiry
  missed       \* history: the charger missed a withdrawal, or got one too early

handlers == <<pc, left>>
jobs     == <<attempt, faults>>
history  == <<disturbed, wiped, missed>>
money    == <<balance, charged>>
vars == <<slot, now, booking, handlers, jobs, start, reserved, money, early, history>>

Handler == {"create", "cancel", "expire", "send"}
Step == {"none", "user", "row", "reserve", "rollback", "undo", "ocpp", "jobs",
         "jobsLater", "later", "write", "get", "del", "withdraw", "check",
         "deduct", "delayed", "send", "failed", "done"}
Row == [status : {"NONE", "ACTIVE", "USED", "CANCELLED", "EXPIRED"},
        user : User, start : Nat, duration : Nat]

TypeOK ==
  /\ slot \in [Slot -> Booking \cup {Nobody}]
  /\ now \in Nat
  /\ booking \in [Booking -> Row]
  /\ pc \in [Handler -> [Booking -> Step]]
  /\ left \in [Handler -> [Booking -> SUBSET Slot]]
  /\ attempt \in [Booking -> 0..Attempts]
  /\ start \in [pc : {"idle", "use", "authorise", "again"}, booking : Booking \cup {Nobody}]
  /\ faults \in 0..MaxFaults
  /\ balance \in [User -> Nat]
  /\ charged \in [Booking -> Nat]
  /\ {reserved, disturbed, wiped, early, missed} \subseteq SUBSET Booking

-----------------------------------------------------------------------------
NoStart == [pc |-> "idle", booking |-> Nobody]

Status(b) == booking[b].status
Hours(b)  == SlotsOf(booking[b].start, booking[b].duration)
Expiry(b) == booking[b].start + booking[b].duration + GracePeriod
Active    == {b \in Booking : Status(b) = "ACTIVE"}

\* What cancelling and expiring release: "assume 1 hour".
FirstHour(b) == SlotsOf(booking[b].start, Hour)

At(h, b, step) == pc[h][b] = step

Goto(h, b, step) == pc' = [pc EXCEPT ![h][b] = step] /\ UNCHANGED left

GotoWith(h, b, step, slots) ==
  /\ pc' = [pc EXCEPT ![h][b] = step]
  /\ left' = [left EXCEPT ![h][b] = slots]

\* prisma.booking.update({ where: { id }, data: { status } })
SetStatus(b, status) ==
  /\ booking' = [booking EXCEPT ![b].status = status]
  /\ early' = IF status \in {"USED", "CANCELLED"} /\ now < Expiry(b)
              THEN early \cup {b} ELSE early

NextSlot(h, b) == CHOOSE s \in left[h][b] : \A t \in left[h][b] : s <= t

\* A slot is deleted; its holder, if it is not b, has been wiped.
DeleteFor(b, h) ==
  /\ Delete(h)
  /\ wiped' = wiped \cup ({slot[h]} \ {b, Nobody})
  /\ UNCHANGED <<disturbed, missed>>

-----------------------------------------------------------------------------
\* createBooking

ValidateBookingTime(r) ==
  /\ now < r.start /\ r.start <= now + MaxAhead
  /\ MinDuration <= r.duration /\ r.duration <= MaxDuration

\* The times are valid and nothing is in the way.
CreateCheck(b) ==
  \E r \in Request[b] :
    /\ At("create", b, "none") /\ ValidateBookingTime(r)
    /\ IsAvailable(SlotsOf(r.start, r.duration))
    /\ booking' = [booking EXCEPT ![b] =
         [status |-> "NONE", user |-> r.user, start |-> r.start, duration |-> r.duration]]
    /\ Goto("create", b, "user")
    /\ UNCHANGED <<slot, now, jobs, start, reserved, money, early, history>>

UserConflict(b) ==
  \E a \in Active :
    /\ booking[a].user = booking[b].user
    /\ booking[a].start < booking[b].start + booking[b].duration
    /\ Expiry(a) > booking[b].start

CreateUser(b) ==
  /\ At("create", b, "user")
  /\ Goto("create", b, IF UserConflict(b) THEN "failed" ELSE "row")
  /\ UNCHANGED <<slot, now, booking, jobs, start, reserved, money, early, history>>

CreateRow(b) ==
  /\ At("create", b, "row")
  /\ SetStatus(b, "ACTIVE")
  /\ Goto("create", b, "reserve")
  /\ UNCHANGED <<slot, now, jobs, start, reserved, money, history>>

\* Mutant: the keys are set without NX.
CreateReserveOver(b) ==
  /\ At("create", b, "reserve")
  /\ slot' = [h \in Slot |-> IF h \in Hours(b) THEN b ELSE slot[h]]
  /\ Goto("create", b, "ocpp")
  /\ UNCHANGED <<now, booking, jobs, start, reserved, money, early, history>>

\* reserveTimeSlots
CreateReserve(b) ==
  /\ At("create", b, "reserve")
  /\ TakeFree(b, Hours(b))
  /\ IF FreeSlots(Hours(b)) = Hours(b) THEN Goto("create", b, "ocpp")
     ELSE GotoWith("create", b, "rollback", Hours(b))
  /\ UNCHANGED <<now, booking, jobs, start, reserved, money, early, history>>

\* Every slot of the range is deleted, whoever holds it.
CreateRollback(b) ==
  /\ At("create", b, "rollback")
  /\ LET s == NextSlot("create", b)
         rest == left["create"][b] \ {s}
     IN /\ DeleteFor(b, s)
        /\ GotoWith("create", b, IF rest = {} THEN "undo" ELSE "rollback", rest)
  /\ UNCHANGED <<now, booking, jobs, start, reserved, money, early>>

CreateUndo(b) ==
  /\ At("create", b, "undo")
  /\ SetStatus(b, "CANCELLED")
  /\ Goto("create", b, "failed")
  /\ UNCHANGED <<slot, now, jobs, start, reserved, money, history>>

\* A fault or debit from outside, of which there are at most MaxFaults.
Fault == faults < MaxFaults /\ faults' = faults + 1

\* ReserveNow at the charger, which may refuse, be offline or not answer.
ReserveNow(b) ==
  \/ /\ reserved' = reserved \cup {b}
     /\ missed' = IF Status(b) = "ACTIVE" THEN missed ELSE missed \cup {b}
     /\ UNCHANGED faults
  \/ Fault /\ UNCHANGED <<reserved, missed>>

\* A charger that is online is asked if it is soon; whatever it says, no job
\* will ask again.
CreateOcpp(b) ==
  LET ahead == booking[b].start - now IN
  /\ At("create", b, "ocpp")
  /\ \/ /\ ahead <= Soon
        /\ ReserveNow(b)
        /\ Goto("create", b, "jobs")
     \/ /\ IF ahead <= Soon THEN Fault ELSE UNCHANGED faults
        /\ Goto("create", b, IF ahead > Late THEN "jobsLater" ELSE "jobs")
        /\ UNCHANGED <<reserved, missed>>
  /\ UNCHANGED <<slot, now, booking, attempt, start, money, early, disturbed, wiped>>

\* queue.add, whose errors are swallowed.
Queued(job) == IF job = "delayed" THEN UNCHANGED faults ELSE Fault

\* scheduleBookingExpiry
CreateJob(b) ==
  /\ pc["create"][b] \in {"jobs", "jobsLater"}
  /\ \E job \in {"none", "delayed"} :
       /\ Queued(job)
       /\ pc' = [pc EXCEPT !["create"][b] = IF @ = "jobs" THEN "done" ELSE "later",
                           !["expire"][b] = job]
  /\ UNCHANGED <<slot, now, booking, left, attempt, start, reserved, money, early, history>>

\* scheduleOcppReservation
CreateLater(b) ==
  /\ At("create", b, "later")
  /\ \E job \in {"none", "delayed"} :
       /\ Queued(job)
       /\ pc' = [pc EXCEPT !["create"][b] = "done", !["send"][b] = job]
  /\ UNCHANGED <<slot, now, booking, left, attempt, start, reserved, money, early, history>>

-----------------------------------------------------------------------------
\* Cancelling and expiring

\* cancelBooking: the owner asks, the booking is read and is still active.
CancelRead(b) ==
  /\ b \in Cancelled /\ At("cancel", b, "none") /\ Status(b) = "ACTIVE"
  /\ Goto("cancel", b, "write")
  /\ disturbed' = IF At("create", b, "done") THEN disturbed ELSE disturbed \cup {b}
  /\ UNCHANGED <<slot, now, booking, jobs, start, reserved, money, early, wiped, missed>>

CancelWrite(b) ==
  /\ At("cancel", b, "write")
  /\ SetStatus(b, "CANCELLED")
  /\ GotoWith("cancel", b, "get", FirstHour(b))
  /\ UNCHANGED <<slot, now, jobs, start, reserved, money, history>>

\* Mutant: a retried job takes up a booking in any state.
ExpireReadAny(b) ==
  /\ At("expire", b, "delayed") /\ now >= Expiry(b)
  /\ Goto("expire", b, "write")
  /\ UNCHANGED <<slot, now, booking, jobs, start, reserved, money, early, history>>

\* handleBookingExpiry
ExpireRead(b) ==
  /\ At("expire", b, "delayed") /\ now >= Expiry(b)
  /\ Goto("expire", b, IF Status(b) = "ACTIVE" THEN "write" ELSE "done")
  /\ UNCHANGED <<slot, now, booking, jobs, start, reserved, money, early, history>>

ExpireWrite(b) ==
  /\ At("expire", b, "write")
  /\ SetStatus(b, "EXPIRED")
  /\ GotoWith("expire", b, "get", FirstHour(b))
  /\ UNCHANGED <<slot, now, jobs, start, reserved, money, history>>

\* Mutant: the slot is read and not deleted.
ReleaseGetOnly(h, b) ==
  /\ h \in {"cancel", "expire"} /\ At(h, b, "get")
  /\ IF left[h][b] = {} THEN Goto(h, b, "withdraw")
     ELSE GotoWith(h, b, "get", left[h][b] \ {NextSlot(h, b)})
  /\ UNCHANGED <<slot, now, booking, jobs, start, reserved, money, early, history>>

\* releaseTimeSlots reads a slot ...
ReleaseGet(h, b) ==
  /\ h \in {"cancel", "expire"} /\ At(h, b, "get")
  /\ IF left[h][b] = {} THEN Goto(h, b, "withdraw")
     ELSE LET s == NextSlot(h, b) IN
          IF slot[s] = b THEN Goto(h, b, "del")
          ELSE GotoWith(h, b, "get", left[h][b] \ {s})
  /\ UNCHANGED <<slot, now, booking, jobs, start, reserved, money, early, history>>

\* ... and deletes it if it was its own.
ReleaseDel(h, b) ==
  /\ h \in {"cancel", "expire"} /\ At(h, b, "del")
  /\ DeleteFor(b, NextSlot(h, b))
  /\ GotoWith(h, b, "get", left[h][b] \ {NextSlot(h, b)})
  /\ UNCHANGED <<now, booking, jobs, start, reserved, money, early>>

\* Mutant: the charger is not told.
WithdrawNever(h, b) ==
  /\ At(h, b, "withdraw")
  /\ Goto(h, b, IF h = "cancel" THEN "done" ELSE "check")
  /\ UNCHANGED <<slot, now, booking, jobs, start, reserved, money, early, history>>

\* cancelReservation at the charger, which may be offline or refuse.
Withdraw(h, b) ==
  /\ h \in {"cancel", "expire"} /\ At(h, b, "withdraw")
  /\ \/ reserved' = reserved \ {b} /\ UNCHANGED <<missed, faults>>
     \/ Fault /\ UNCHANGED reserved /\ missed' = missed \cup {b}
  /\ Goto(h, b, IF h = "cancel" THEN "done" ELSE "check")
  /\ UNCHANGED <<slot, now, booking, attempt, start, money, early, disturbed, wiped>>

\* applyNoShowPenalty: checkSufficientBalance ...
PenaltyCheck(b) ==
  /\ At("expire", b, "check")
  /\ Goto("expire", b, IF balance[booking[b].user] >= Penalty THEN "deduct" ELSE "done")
  /\ UNCHANGED <<slot, now, booking, jobs, start, reserved, money, early, history>>

\* Mutant: the check before is relied on.
PenaltyDeductUnchecked(b) ==
  /\ At("expire", b, "deduct")
  /\ balance' = [balance EXCEPT ![booking[b].user] = @ - Penalty]
  /\ charged' = [charged EXCEPT ![b] = @ + 1]
  /\ Goto("expire", b, "done")
  /\ UNCHANGED <<slot, now, booking, jobs, start, reserved, early, history>>

\* ... and deductForCharging, which does not look at the key it is given.
PenaltyDeduct(b) ==
  LET u == booking[b].user IN
  /\ At("expire", b, "deduct")
  /\ IF balance[u] >= Penalty
     THEN /\ balance' = [balance EXCEPT ![u] = @ - Penalty]
          /\ charged' = [charged EXCEPT ![b] = @ + 1]
     ELSE UNCHANGED money
  /\ Goto("expire", b, "done")
  /\ UNCHANGED <<slot, now, booking, jobs, start, reserved, early, history>>

-----------------------------------------------------------------------------
\* The job send-reservation, five minutes before the start

SendRead(b) ==
  /\ At("send", b, "delayed") /\ now >= booking[b].start - Late
  /\ Goto("send", b, IF Status(b) = "ACTIVE" THEN "send" ELSE "done")
  /\ UNCHANGED <<slot, now, booking, jobs, start, reserved, money, early, history>>

Send(b) ==
  /\ At("send", b, "send")
  /\ ReserveNow(b)
  /\ Goto("send", b, "done")
  /\ UNCHANGED <<slot, now, booking, attempt, start, money, early, disturbed, wiped>>

-----------------------------------------------------------------------------
\* StartTransaction of the one who booked: validateBookingForStart, the rest

Covering == {b \in Active : booking[b].start <= now /\ now <= Expiry(b)}

\* The booking of now is read, and it is the driver's own.
StartFind ==
  /\ start.pc = "idle"
  /\ \E b \in Covering \cap Arriving : start' = [pc |-> "use", booking |-> b]
  /\ UNCHANGED <<slot, now, booking, handlers, jobs, reserved, money, early, history>>

\* markBookingUsed, in validateBookingForStart and again at the end.
StartUse ==
  /\ start.pc \in {"use", "again"}
  /\ SetStatus(start.booking, "USED")
  /\ start' = IF start.pc = "use" THEN [start EXCEPT !.pc = "authorise"] ELSE NoStart
  /\ UNCHANGED <<slot, now, handlers, jobs, reserved, money, history>>

\* checkUserAuthorization: a refusal leaves the booking USED.
StartAuthorise ==
  /\ start.pc = "authorise"
  /\ start' \in {[start EXCEPT !.pc = "again"], NoStart}
  /\ UNCHANGED <<slot, now, booking, handlers, jobs, reserved, money, early, history>>

-----------------------------------------------------------------------------
\* What can go wrong, and time

\* A request dies with the process or on an exception.
RequestDies(h, b) ==
  /\ \/ h = "create" /\ pc[h][b] \in {"row", "reserve", "rollback", "undo", "ocpp",
                                      "jobs", "jobsLater", "later"}
     \/ h = "cancel" /\ pc[h][b] \in {"write", "get", "del", "withdraw"}
  /\ Fault /\ disturbed' = disturbed \cup {b}
  /\ GotoWith(h, b, "failed", {})
  /\ UNCHANGED <<slot, now, booking, attempt, start, reserved, money, early, wiped, missed>>

\* Mutant: a failed job is not put back.
JobFailsOnce(b) ==
  /\ pc["expire"][b] \in {"write", "get", "del", "withdraw", "check", "deduct"}
  /\ Fault /\ disturbed' = disturbed \cup {b}
  /\ GotoWith("expire", b, "done", {})
  /\ attempt' = [attempt EXCEPT ![b] = @ + 1]
  /\ UNCHANGED <<slot, now, booking, start, reserved, money, early, wiped, missed>>

\* The expiry job fails or its worker dies: the queue hands it out again.
JobFails(b) ==
  /\ pc["expire"][b] \in {"write", "get", "del", "withdraw", "check", "deduct"}
  /\ Fault /\ disturbed' = disturbed \cup {b}
  /\ GotoWith("expire", b, IF attempt[b] + 1 < Attempts THEN "delayed" ELSE "failed", {})
  /\ attempt' = [attempt EXCEPT ![b] = @ + 1]
  /\ UNCHANGED <<slot, now, booking, start, reserved, money, early, wiped, missed>>

\* Charging elsewhere uses up the balance.
Spend(u) ==
  /\ Fault /\ balance[u] > 0
  /\ balance' = [balance EXCEPT ![u] = 0]
  /\ UNCHANGED <<slot, now, booking, handlers, attempt, start, reserved, charged, early, history>>

\* Keys and the charger's reservations end by themselves.
Tick ==
  /\ now < MaxNow
  /\ now' = now + 1
  /\ LET over == {b \in Booking : Expiry(b) <= now + 1} IN
       /\ Expire(over)
       /\ reserved' = reserved \ over
  /\ UNCHANGED <<booking, handlers, jobs, start, money, early, history>>

-----------------------------------------------------------------------------
Init ==
  /\ slot = [h \in Slot |-> Nobody]
  /\ now = 0
  /\ booking \in [Booking -> {[status |-> "NONE", user |-> CHOOSE u \in User : TRUE,
                               start |-> 0, duration |-> 0]}]
  /\ pc = [h \in Handler |-> [b \in Booking |-> "none"]]
  /\ left = [h \in Handler |-> [b \in Booking |-> {}]]
  /\ attempt = [b \in Booking |-> 0] /\ faults = 0
  /\ start = NoStart
  /\ reserved = {} /\ balance = Opening
  /\ charged = [b \in Booking |-> 0]
  /\ disturbed = {} /\ wiped = {} /\ early = {} /\ missed = {}

Create(b) ==
  \/ CreateCheck(b) \/ CreateUser(b) \/ CreateRow(b) \/ CreateReserve(b)
  \/ CreateRollback(b) \/ CreateUndo(b) \/ CreateOcpp(b) \/ CreateJob(b) \/ CreateLater(b)

Release(b) == \E h \in {"cancel", "expire"} :
                ReleaseGet(h, b) \/ ReleaseDel(h, b) \/ Withdraw(h, b)

ExpireStep(b) ==
  \/ ExpireRead(b) \/ ExpireWrite(b) \/ PenaltyCheck(b) \/ PenaltyDeduct(b)
  \/ ReleaseGet("expire", b) \/ ReleaseDel("expire", b) \/ Withdraw("expire", b)

Next ==
  \/ Tick
  \/ \E b \in Booking :
       \/ Create(b) \/ CancelRead(b) \/ CancelWrite(b) \/ Release(b)
       \/ ExpireRead(b) \/ ExpireWrite(b) \/ PenaltyCheck(b) \/ PenaltyDeduct(b)
       \/ SendRead(b) \/ Send(b) \/ JobFails(b)
       \/ \E h \in Handler : RequestDies(h, b)
  \/ \E u \in User : Spend(u)
  \/ StartFind \/ StartUse \/ StartAuthorise

Spec == Init /\ [][Next]_vars

\* Time passes, and the queue runs the jobs that are due.
FairSpec == Spec /\ WF_vars(Tick) /\ \A b \in Booking : WF_vars(ExpireStep(b))

-----------------------------------------------------------------------------
\* createBooking has got its slots.
Reserved(b) == pc["create"][b] \in {"ocpp", "jobs", "jobsLater", "later", "done"}

Settled(b) == /\ \A h \in {"create", "cancel", "expire"} :
                    pc[h][b] \in {"none", "delayed", "failed", "done"}
              /\ b \notin disturbed

\* No two active bookings that got their slots share an hour before they expire,
\* unless another handler deleted slots of one of them (connectorLock:400-405
\* and between the GET and the DEL of 446-450).
NoDoubleBooking ==
  \A a, b \in Active :
    a # b /\ Reserved(a) /\ Reserved(b) /\ now < Expiry(a) /\ now < Expiry(b)
      => {a, b} \cap wiped # {} \/ Hours(a) \cap Hours(b) = {}

\* A driver who started or cancelled before the booking expired never pays for
\* not showing up, and nobody pays twice for a booking, however the job is
\* retried: deductForCharging ignores the key it is given (booking:681), so only
\* the status stands between a retry and a second deduction.
PenaltyForNoShow ==
  \A b \in Booking : charged[b] <= (IF b \in early THEN 0 ELSE 1)

\* Once a booking has been cancelled or has expired and nothing went wrong on
\* the way, the hours it still holds are those after the first (booking:260).
FirstHourReturned ==
  \A b \in Booking, h \in Slot :
    slot[h] = b /\ Status(b) \in {"CANCELLED", "EXPIRED"} /\ Settled(b) => h \notin FirstHour(b)

\* The charger keeps no reservation for a cancelled booking, unless the
\* withdrawal did not reach it or a ReserveNow was under way (bookingWorker:119).
ReservationWithdrawn ==
  \A b \in reserved : Status(b) = "CANCELLED" /\ Settled(b) => b \in missed

\* A booking whose expiry job is queued leaves ACTIVE, whatever fails, unless
\* all attempts of the job fail.
QueuedBookingEnds ==
  \A b \in Booking :
    (At("expire", b, "delayed") /\ Status(b) = "ACTIVE")
      ~> (Status(b) # "ACTIVE" \/ At("expire", b, "failed"))
=============================================================================
