----------------------------- MODULE Settlement -----------------------------
(***************************************************************************)
(* Paying a station owner.  Once a week a job puts the sessions of the two *)
(* weeks before into a settlement; admins do the same for any period, pay  *)
(* a settlement or mark it failed, and record payments made by hand.  Each *)
(* of these is a few calls of the database, which those of others come     *)
(* between.  Periods are counted in weeks, money in sessions.  There is    *)
(* one owner, whose stations stay his.                                     *)
(***************************************************************************)
EXTENDS Integers, Sequences, FiniteSets

CONSTANTS
  Session,
  Admin, Job,       \* who acts: requests of admins, and the worker of the queue
  Period,           \* the periods admins ask for: first and last week
  Named,            \* the weeks that messages of chargers name
  MaxWeek, MaxSettlements, MaxFaults

ASSUME SettlementAssumption ==
  /\ Job \notin Admin
  /\ Period \subseteq {w \in Nat \X Nat : w[1] <= w[2]}
  /\ IsFiniteSet(Session) /\ Named \subseteq 1..MaxWeek
  /\ {MaxWeek, MaxSettlements, MaxFaults} \subseteq Nat /\ MaxWeek > 0

VARIABLES
  week,          \* now
  due,           \* whether the job of this week is still to run
  active,        \* whether the owner is active and has an active station
  charging,      \* charging[s]: the week its start names, and that in which its end was written, or 0
  settlements,   \* the rows in the order of their creation, with their items
  payouts,       \* the settlements that have a SETTLEMENT_PAYOUT entry in the ledger
  run,           \* run[p]: the step of p and what it read
  faults,
  missed,        \* history: weeks whose job was refused, failed or removed, or left the owner out
  crossed,       \* history: settlements made, paid or failed beside another call
  dropped        \* history: settlements whose payment failed half way

vars == <<week, due, active, charging, settlements, payouts, run, faults, missed, crossed, dropped>>

history == <<missed, crossed, dropped>>
time    == <<week, due, active, charging>>
Process == Admin \cup {Job}
Weeks   == 0..MaxWeek
Id      == 1..MaxSettlements

Idle == [at |-> "idle", id |-> 0, saw |-> "none", from |-> 0, to |-> 0, items |-> {}]

Settlements == DOMAIN settlements

TypeOK ==
  /\ week \in Weeks /\ due \in BOOLEAN /\ active \in BOOLEAN
  /\ charging \in [Session -> [start : Weeks, ended : Weeks]]
  /\ settlements \in Seq([from : Int, to : Int, items : SUBSET Session, amount : Nat,
                          status : {"PENDING", "PAID", "FAILED"}, manual : BOOLEAN])
  /\ payouts \subseteq Id
  /\ missed \subseteq Weeks /\ crossed \subseteq Id /\ dropped \subseteq Id

-----------------------------------------------------------------------------
\* Sessions

\* createSession writes the time the charger names: of a message that was held
\* back, or of a clock that is wrong, any week.
StartSession(s) ==
  /\ charging[s].start = 0
  /\ \E w \in Named : charging' = [charging EXCEPT ![s].start = w]
  /\ UNCHANGED <<week, due, active, settlements, payouts, run, faults, history>>

\* finalizeSession sets endedAt; the earning is in the row.  The time it writes is
\* the charger's too, but what asks only asks whether there is one: what counts is
\* when it was written.
EndSession(s) ==
  /\ charging[s].start # 0 /\ charging[s].ended = 0
  /\ charging' = [charging EXCEPT ![s].ended = week]
  /\ UNCHANGED <<week, due, active, settlements, payouts, run, faults, history>>

Ended == {s \in Session : charging[s].ended # 0}

\* updateUserStatus: an owner is turned off, and on again.
UpdateUserStatus ==
  /\ active' = ~active
  /\ UNCHANGED <<week, due, charging, settlements, payouts, run, faults, history>>

\* The job of a week is run within it.
WeekPasses ==
  /\ ~due /\ run[Job] = Idle /\ week < MaxWeek
  /\ week' = week + 1 /\ due' = TRUE
  /\ UNCHANGED <<active, charging, settlements, payouts, run, faults, history>>

\* A server that starts while the job of this week waits removes it: the job it
\* adds instead is that of the next week.
Reschedule ==
  /\ due /\ due' = FALSE
  /\ faults < MaxFaults /\ faults' = faults + 1
  /\ missed' = missed \cup {week}
  /\ UNCHANGED <<week, active, charging, settlements, payouts, run, crossed, dropped>>

-----------------------------------------------------------------------------
\* createSettlement

At(p, step) == run[p].at = step

Goto(p, step) == run' = [run EXCEPT ![p].at = step]

Done(p) == run' = [run EXCEPT ![p] = Idle]

\* The job ends without a settlement.
Refuse(p) ==
  /\ Done(p)
  /\ missed' = IF p = Job THEN missed \cup {week} ELSE missed

Within(i, from, to) == settlements[i].from >= from /\ settlements[i].to <= to

CreateFor(p, from, to) ==
  /\ At(p, "idle")
  /\ run' = [run EXCEPT ![p] = [Idle EXCEPT !.at = "existing", !.from = from, !.to = to]]

\* Mutant: the week before only.
LastWeek == week - 1

\* generateBiWeeklySettlements: 14 days that ended yesterday.
PeriodStart == week - 2

GenerateByJob ==
  /\ due /\ due' = FALSE /\ active
  /\ CreateFor(Job, PeriodStart, week - 1)
  /\ UNCHANGED <<week, active, charging, settlements, payouts, faults, history>>

\* An owner who is not active, or has no active station, is not among those found.
SkipOwner ==
  /\ due /\ due' = FALSE /\ ~active
  /\ missed' = missed \cup {week}
  /\ UNCHANGED <<week, active, charging, settlements, payouts, run, faults, crossed, dropped>>

GenerateByAdmin(p) ==
  /\ active
  /\ CreateFor(p, PeriodStart, week - 1)
  /\ UNCHANGED <<time, settlements, payouts, faults, history>>

\* For an owner the admin names.
CreateByAdmin(p, from, to) ==
  /\ CreateFor(p, from, to)
  /\ UNCHANGED <<time, settlements, payouts, faults, history>>

\* Mutant: only a settlement that waits to be paid counts.
ExistingPending(p) ==
  {i \in Settlements : Within(i, run[p].from, run[p].to) /\ settlements[i].status = "PENDING"}

\* The settlements whose period lies in this one.
Existing(p) == {i \in Settlements : Within(i, run[p].from, run[p].to)}

FindExisting(p) ==
  /\ At(p, "existing")
  /\ \/ Existing(p) # {} /\ Refuse(p)
     \/ Existing(p) = {} /\ Goto(p, "sessions") /\ UNCHANGED missed
  /\ UNCHANGED <<time, settlements, payouts, faults, crossed, dropped>>

\* The sessions that started in the period and have ended.
FindSessions(p) ==
  LET found == {s \in Ended : charging[s].start \in run[p].from..run[p].to} IN
  /\ At(p, "sessions")
  /\ run' = [run EXCEPT ![p] = IF found = {} THEN Idle ELSE [@ EXCEPT !.at = "create", !.items = found]]
  /\ UNCHANGED <<time, settlements, payouts, faults, history>>

Row(from, to, items, amount, status, manual) ==
  [from |-> from, to |-> to, items |-> items, amount |-> amount, status |-> status, manual |-> manual]

\* The row and its items, in one transaction.
CreateSettlement(p) ==
  LET r == run[p] IN
  /\ At(p, "create") /\ Len(settlements) < MaxSettlements
  /\ settlements' = Append(settlements, Row(r.from, r.to, r.items, Cardinality(r.items), "PENDING", FALSE))
  /\ crossed' = IF Existing(p) = {} THEN crossed ELSE crossed \cup {Len(settlements')}
  /\ Done(p)
  /\ UNCHANGED <<time, payouts, faults, missed, dropped>>

\* recordOwnerPayment: a settlement of this moment, paid; no entry is posted.
RecordOwnerPayment ==
  /\ Len(settlements) < MaxSettlements
  /\ settlements' = Append(settlements, Row(week, week, {}, 1, "PAID", TRUE))
  /\ UNCHANGED <<time, payouts, run, faults, history>>

-----------------------------------------------------------------------------
\* markSettlementAsPaid, markSettlementAsFailed

Status(i) == settlements[i].status

Take(p, i, step) ==
  /\ At(p, "idle")
  /\ run' = [run EXCEPT ![p] = [Idle EXCEPT !.at = step, !.id = i, !.saw = Status(i)]]
  /\ UNCHANGED <<time, settlements, payouts, faults, history>>

ReadToPay(p, i) == Status(i) \notin {"PAID", "FAILED"} /\ Take(p, i, "pay")

\* Mutant: any settlement may be marked failed.
MayFailAny(i) == TRUE

MayFail(i) == Status(i) # "PAID"

ReadToFail(p, i) == MayFail(i) /\ Take(p, i, "fail")

\* The status is written whatever it is by now.
SetStatus(p, status) ==
  LET i == run[p].id IN
  /\ settlements' = [settlements EXCEPT ![i].status = status]
  /\ crossed' = IF Status(i) = run[p].saw THEN crossed ELSE crossed \cup {i}

MarkPaid(p) ==
  /\ At(p, "pay") /\ SetStatus(p, "PAID")
  /\ run' = [run EXCEPT ![p].at = "key", ![p].saw = "none"]
  /\ UNCHANGED <<time, payouts, faults, missed, dropped>>

MarkFailed(p) ==
  /\ At(p, "fail") /\ SetStatus(p, "FAILED")
  /\ Done(p)
  /\ UNCHANGED <<time, payouts, faults, missed, dropped>>

Posted(i) == i \in payouts

\* createLedgerEntry looks the key of the settlement up before it makes the entry.
FindKey(p) ==
  /\ At(p, "key")
  /\ \/ Posted(run[p].id) /\ Done(p)
     \/ ~Posted(run[p].id) /\ Goto(p, "post")
  /\ UNCHANGED <<time, settlements, payouts, faults, history>>

\* The key is unique in the table: a second entry throws.
Post(p) ==
  /\ At(p, "post")
  /\ payouts' = payouts \cup {run[p].id}
  /\ Done(p)
  /\ UNCHANGED <<time, settlements, faults, history>>

\* A call throws: an admin is told, the job of this week is not tried again.  Or
\* the process dies: the queue gives the job out again.  What an admin gives up
\* before anything is written is as if it had not been begun.
Fails(p) ==
  /\ \/ p = Job /\ ~At(p, "idle")
     \/ At(p, "key") \/ At(p, "post")
  /\ faults < MaxFaults
  /\ faults' = faults + 1
  /\ \/ Refuse(p) /\ UNCHANGED due
     \/ p = Job /\ due' = TRUE /\ Done(p) /\ UNCHANGED missed
  /\ dropped' = IF run[p].at \in {"key", "post"} THEN dropped \cup {run[p].id} ELSE dropped
  /\ UNCHANGED <<week, active, charging, settlements, payouts, crossed>>

-----------------------------------------------------------------------------
Init ==
  /\ week = 1 /\ due = FALSE /\ active = TRUE
  /\ charging = [s \in Session |-> [start |-> 0, ended |-> 0]]
  /\ settlements = <<>> /\ payouts = {}
  /\ run = [p \in Process |-> Idle]
  /\ faults = 0
  /\ missed = {} /\ crossed = {} /\ dropped = {}

Step(p) ==
  \/ FindExisting(p) \/ FindSessions(p) \/ CreateSettlement(p)
  \/ MarkPaid(p) \/ MarkFailed(p) \/ FindKey(p) \/ Post(p)
  \/ Fails(p)

Click(p) ==
  \/ GenerateByAdmin(p)
  \/ \E w \in Period : CreateByAdmin(p, w[1], w[2])
  \/ \E i \in Settlements : ReadToPay(p, i) \/ ReadToFail(p, i)

Next ==
  \/ WeekPasses \/ UpdateUserStatus \/ Reschedule
  \/ GenerateByJob \/ SkipOwner \/ RecordOwnerPayment
  \/ \E s \in Session : StartSession(s) \/ EndSession(s)
  \/ \E p \in Admin : Click(p)
  \/ \E p \in Process : Step(p)

Spec == Init /\ [][Next]_vars

-----------------------------------------------------------------------------
\* Settlements that may pay again what another pays: recorded by hand, made while
\* another was, or for a period that an earlier one, with sessions of this one, does
\* not lie within: the check of createSettlement does not see those.
Overlaps(i, j) ==
  i < j /\ settlements[i].items \cap settlements[j].items # {}
        /\ ~Within(i, settlements[j].from, settlements[j].to)

Doubtful == {j \in Settlements :
  settlements[j].manual \/ j \in crossed \/ \E i \in Settlements : Overlaps(i, j)}

Owed == {i \in Settlements : Status(i) \in {"PENDING", "PAID"}}

\* What settlement i pays, one element for each session's earning.
Units(i) == {i} \X (1..settlements[i].amount)

Paid(I) == Cardinality(UNION {Units(i) : i \in I})

\* getOwnerEarningsSummary: what was earned less what is paid or to be paid.
RemainingBalance == Cardinality(Ended) - Paid(Owed)

\* What an owner is paid beyond what his sessions earned is no more than what
\* payments recorded by hand, settlements made at once and settlements whose periods
\* overlap come to: all the others together pay what was earned at most, whatever
\* was paid, failed or made again meanwhile (settlement.service:131).
NotOverpaid == RemainingBalance + Paid(Owed \cap Doubtful) >= 0

\* A settlement is paid if and only if its payout is entered in the ledger,
\* except that a payment may have failed half way, and one marked failed meanwhile
\* (markSettlementAsPaid, markSettlementAsFailed).
PaidIsPosted ==
  \A i \in Settlements :
    \/ settlements[i].manual \/ i \in dropped \cup crossed
    \/ \E p \in Process : run[p].id = i
    \/ Status(i) = "PAID" <=> Posted(i)

\* A session whose end is written by the week after the one its start names is in a
\* settlement when the second job after that has run, also when it was still running
\* at the first, unless the second was refused, failed or removed, or left out an
\* owner who was not active just then.  One whose end is written later, if only
\* because the charger's message came late, may be in none (settlementWorker,
\* createSettlement).
NothingForgotten ==
  \A s \in Ended :
    LET w == charging[s].start IN
    charging[s].ended <= w + 1 /\ week > w + 2 =>
      \/ \E i \in Settlements : s \in settlements[i].items
      \/ w + 2 \in missed
=============================================================================
