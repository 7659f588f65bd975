--------------------------- MODULE Settlement_proofs ---------------------------
(***************************************************************************)
(* Theorems about Settlement, for any sessions, admins, periods, weeks,    *)
(* settlements and faults: what is paid is posted and was earned, and      *)
(* nothing is forgotten.                                                   *)
(***************************************************************************)
EXTENDS Settlement, FiniteSetTheorems, TLAPS

-----------------------------------------------------------------------------
\* The inductive invariant

RowType == [from : Int, to : Int, items : SUBSET Session, amount : Nat,
            status : {"PENDING", "PAID", "FAILED"}, manual : BOOLEAN]

RunType == [at : {"idle", "existing", "sessions", "create", "pay", "fail", "key", "post"}, id : Nat,
            saw : {"none", "PENDING", "PAID", "FAILED"}, from : Int, to : Int, items : SUBSET Session]

\* Someone who marks a settlement means one that is there; the job marks none.
Means ==
  /\ \A p \in Process : run[p].at \in {"pay", "fail", "key", "post"} => run[p].id \in Settlements
  /\ run[Job].at \in {"idle", "existing", "sessions", "create"}
  /\ \A p \in Process : run[p].at \in {"pay", "fail"} => run[p].saw # "PAID"
  /\ payouts \subseteq Settlements

Pays(p, i) == run[p].at \in {"key", "post"} /\ run[p].id = i

\* A settlement that no two marked at once is paid when its payout is posted and
\* while somebody is about to post it, and only then.
Squared(i) ==
  /\ Posted(i) => Status(i) = "PAID"
  /\ \A p \in Process : Pays(p, i) => Status(i) = "PAID"
  /\ Status(i) = "PAID" => Posted(i) \/ \E p \in Process : Pays(p, i)

AllSquared == \A i \in Settlements : settlements[i].manual \/ i \in dropped \cup crossed \/ Squared(i)

Types == TypeOK /\ Len(settlements) <= MaxSettlements /\ run \in [Process -> RunType]

PostInv == Types /\ Means /\ AllSquared

\* The job has the period of this week, and while it is due it does not run.
JobsPeriod ==
  /\ run[Job].at # "idle" => run[Job].from = PeriodStart /\ run[Job].to = week - 1
  /\ due => run[Job].at = "idle"

\* A session ends after it started.
InOrder == \A s \in Session : charging[s].ended # 0 => charging[s].start # 0

Settled(s) == \E i \in Settlements : s \in settlements[i].items

\* The job on the way to a settlement with session s.
OnTheWay(s) ==
  \/ run[Job].at \in {"existing", "sessions"}
  \/ run[Job].at = "create" /\ s \in run[Job].items

\* The second job after a session started settles it in its week.
Remembered(s) ==
  LET w == charging[s].start IN
  s \in Ended /\ charging[s].ended <= w + 1 =>
    /\ week > w + 2 => Settled(s) \/ w + 2 \in missed
    /\ week = w + 2 => due \/ OnTheWay(s) \/ Settled(s) \/ week \in missed

JobInv == JobsPeriod /\ InOrder /\ \A s \in Session : Remembered(s)

IInv == PostInv /\ JobInv

USE DEF Process, Settlements, Status, Posted, history, time, PeriodStart, Weeks, Id
-----------------------------------------------------------------------------
\* What a step does to one process and to the rows

LEMMA RunSets ==
  ASSUME Types, NEW p \in Process, NEW r \in RunType, run' = [run EXCEPT ![p] = r]
  PROVE  run' \in [Process -> RunType] /\ run'[p] = r /\ \A q \in Process : q # p => run'[q] = run[q]
BY DEF Types

LEMMA IdleIsRun == Idle \in RunType
BY DEF Idle, RunType

LEMMA RowsTyped ==
  ASSUME Types
  PROVE  /\ settlements \in Seq(RowType) /\ Settlements = 1..Len(settlements) /\ Len(settlements) \in Nat
         /\ \A i \in Settlements : settlements[i] \in RowType /\ i \in Nat
<1>1. settlements \in Seq(RowType)
  BY DEF Types, TypeOK, RowType
<1> QED BY <1>1

LEMMA TakeIsRun ==
  ASSUME NEW i \in Nat, NEW step \in {"pay", "fail"}, NEW saw \in {"PENDING", "PAID", "FAILED"}
  PROVE  [Idle EXCEPT !.at = step, !.id = i, !.saw = saw] \in RunType
<1>1. ASSUME NEW r \in RunType PROVE [r EXCEPT !.at = step, !.id = i, !.saw = saw] \in RunType
  BY DEF RunType
<1> QED BY <1>1, IdleIsRun

LEMMA AskIsRun ==
  ASSUME NEW from \in Int, NEW to \in Int
  PROVE  [Idle EXCEPT !.at = "existing", !.from = from, !.to = to] \in RunType
BY DEF Idle, RunType

\* A step that pays nothing and leaves the rows alone.
LEMMA Aside ==
  ASSUME SettlementAssumption, PostInv, TypeOK', NEW p \in Process, NEW r \in RunType,
         run' = [run EXCEPT ![p] = r], UNCHANGED <<settlements, payouts, crossed, dropped>>,
         run[p].at \notin {"key", "post"}, r.at \notin {"key", "post"},
         r.at \in {"pay", "fail"} => r.id \in Settlements /\ r.saw # "PAID",
         p = Job => r.at \in {"idle", "existing", "sessions", "create"}
  PROVE  PostInv'
<1>1. /\ run' \in [Process -> RunType] /\ run'[p] = r
      /\ \A q \in Process : q # p => run'[q] = run[q]
  BY RunSets DEF PostInv
<1>2. Types'
  BY <1>1 DEF PostInv, Types
<1>3. Means'
  BY <1>1 DEF PostInv, Means
<1>4. \A q \in Process, i \in Settlements : Pays(q, i) <=> Pays(q, i)'
  BY <1>1 DEF Pays
<1>5. AllSquared'
  BY <1>4 DEF PostInv, AllSquared, Squared
<1> QED BY <1>2, <1>3, <1>5 DEF PostInv

\* A step that leaves the weeks and what is missed alone, keeps the items, and keeps
\* the job on its way or lets it arrive.
Arrives(s) == OnTheWay(s) => OnTheWay(s)' \/ Settled(s)'

RowsKept == \A i \in Settlements : i \in Settlements' /\ settlements'[i].items = settlements[i].items

LEMMA Later ==
  ASSUME JobInv, UNCHANGED <<time, missed>>, RowsKept, \A s \in Session : Arrives(s),
         run[Job].at # "idle" \/ run'[Job] = run[Job],
         run'[Job].at # "idle" => run'[Job].from = run[Job].from /\ run'[Job].to = run[Job].to
  PROVE  JobInv'
<1>1. JobsPeriod' /\ InOrder'
  BY DEF JobInv, JobsPeriod, InOrder
<1>2. ASSUME NEW s \in Session PROVE Remembered(s)'
  <2>1. Settled(s) => Settled(s)'
    BY DEF Settled, RowsKept
  <2> QED BY <2>1 DEF JobInv, Remembered, Arrives, Ended
<1> QED BY <1>1, <1>2 DEF JobInv

\* A step of another than the job.
LEMMA OfOthers ==
  ASSUME JobInv, UNCHANGED <<time, missed>>, RowsKept, run'[Job] = run[Job]
  PROVE  JobInv'
BY Later DEF Arrives, OnTheWay

\* The job ends, and its week is noted.
LEMMA JobRefuses ==
  ASSUME JobInv, UNCHANGED time, RowsKept, run'[Job].at = "idle", missed' = missed \cup {week}
  PROVE  JobInv'
<1>1. JobsPeriod' /\ InOrder'
  BY DEF JobInv, JobsPeriod, InOrder
<1>2. ASSUME NEW s \in Session PROVE Remembered(s)'
  <2>1. Settled(s) => Settled(s)'
    BY DEF Settled, RowsKept
  <2> QED BY <2>1 DEF JobInv, Remembered, Ended
<1> QED BY <1>1, <1>2 DEF JobInv

-----------------------------------------------------------------------------
\* Sessions and weeks

LEMMA TimeStep ==
  ASSUME SettlementAssumption, IInv,
         \/ \E s \in Session : StartSession(s) \/ EndSession(s)
         \/ WeekPasses \/ UpdateUserStatus \/ Reschedule \/ SkipOwner
  PROVE  IInv'
<1>1. UNCHANGED <<settlements, payouts, run, crossed, dropped>>
  BY DEF StartSession, EndSession, WeekPasses, UpdateUserStatus, Reschedule, SkipOwner
<1>2. TypeOK'
  <2>1. charging' \in [Session -> [start : Weeks, ended : Weeks]]
    <3>1. charging \in [Session -> [start : Weeks, ended : Weeks]] /\ week \in Weeks /\ Named \subseteq Weeks
      BY DEF IInv, PostInv, Types, TypeOK, SettlementAssumption
    <3>2. ASSUME NEW s \in Session, StartSession(s) \/ EndSession(s)
          PROVE  charging' \in [Session -> [start : Weeks, ended : Weeks]]
      BY <3>1, <3>2 DEF StartSession, EndSession
    <3>3. WeekPasses \/ UpdateUserStatus \/ Reschedule \/ SkipOwner => UNCHANGED charging
      BY DEF WeekPasses, UpdateUserStatus, Reschedule, SkipOwner
    <3> QED BY <3>1, <3>2, <3>3
  <2>2. week' \in Weeks /\ missed' \subseteq Weeks
    BY DEF IInv, PostInv, Types, TypeOK, StartSession, EndSession, WeekPasses, UpdateUserStatus, Reschedule,
           SkipOwner, SettlementAssumption
  <2>3. due' \in BOOLEAN /\ active' \in BOOLEAN
    BY DEF IInv, PostInv, Types, TypeOK, StartSession, EndSession, WeekPasses, UpdateUserStatus, Reschedule, SkipOwner
  <2> QED BY <1>1, <2>1, <2>2, <2>3 DEF IInv, PostInv, Types, TypeOK
<1>3. PostInv'
  BY <1>1, <1>2 DEF IInv, PostInv, Types, Means, AllSquared, Squared, Pays
<1>4. JobInv'
  <2>1. JobsPeriod'
    BY <1>1 DEF IInv, JobInv, JobsPeriod, StartSession, EndSession, WeekPasses, UpdateUserStatus, Reschedule,
                SkipOwner, Idle
  <2>2. \A z \in Session : charging[z].start \in Nat /\ charging[z].ended \in Nat /\ week \in Nat
    BY DEF IInv, PostInv, Types, TypeOK, SettlementAssumption
  <2>3. /\ charging \in [Session -> [start : Weeks, ended : Weeks]]
        /\ InOrder /\ \A z \in Session : Remembered(z)
    BY DEF IInv, PostInv, Types, TypeOK, JobInv
  <2>0. InOrder'
    <3>1. 0 \notin Named
      BY DEF SettlementAssumption
    <3> QED BY <2>3, <3>1 DEF InOrder, StartSession, EndSession, WeekPasses, UpdateUserStatus, Reschedule, SkipOwner
  <2>4. ASSUME NEW s \in Session, StartSession(s) \/ EndSession(s) PROVE \A z \in Session : Remembered(z)'
    <3>1. /\ UNCHANGED <<week, due, settlements, run, missed>>
          /\ \A z \in Session : z # s => charging'[z] = charging[z]
      BY <2>3, <2>4 DEF StartSession, EndSession
    <3>2. \/ charging'[s].ended = 0
          \/ charging'[s].start = charging[s].start /\ charging'[s].ended = week
      BY <2>3, <2>4 DEF StartSession, EndSession, InOrder
    <3>3. ASSUME NEW z \in Session, z # s PROVE Remembered(z)'
      BY <2>3, <3>1, <3>3 DEF Remembered, Settled, OnTheWay, Ended
    <3>4. Remembered(s)'
      BY <2>2, <2>3, <3>1, <3>2 DEF Remembered, Ended
    <3> QED BY <3>3, <3>4
  <2>5. ASSUME UpdateUserStatus PROVE \A z \in Session : Remembered(z)'
    BY <2>3, <2>5 DEF UpdateUserStatus, history, Remembered, Settled, OnTheWay, Ended
  <2>6. ASSUME WeekPasses \/ Reschedule \/ SkipOwner PROVE \A z \in Session : Remembered(z)'
    <3>1. UNCHANGED <<charging, settlements, run>>
      BY <2>6 DEF WeekPasses, Reschedule, SkipOwner
    <3>2. \/ week' = week + 1 /\ due' /\ ~due /\ run[Job].at = "idle" /\ UNCHANGED missed
          \/ week' = week /\ ~due' /\ missed' = missed \cup {week}
      BY <2>6 DEF WeekPasses, Reschedule, SkipOwner, Idle
    <3>3. ASSUME NEW z \in Session PROVE Remembered(z)'
      <4>1. (Settled(z)' <=> Settled(z)) /\ (z \in Ended' <=> z \in Ended)
        BY <3>1 DEF Settled, Ended
      <4>2. run[Job].at = "idle" => ~OnTheWay(z)
        BY DEF OnTheWay
      <4> QED BY <2>2, <2>3, <3>1, <3>2, <4>1, <4>2 DEF Remembered
    <3> QED BY <3>3
  <2> QED BY <2>0, <2>1, <2>4, <2>5, <2>6 DEF JobInv
<1> QED BY <1>3, <1>4 DEF IInv

-----------------------------------------------------------------------------
\* createSettlement

LEMMA GenerateStep ==
  ASSUME SettlementAssumption, IInv, GenerateByJob
  PROVE  IInv'
<1> DEFINE r == [Idle EXCEPT !.at = "existing", !.from = PeriodStart, !.to = week - 1]
<1>1. /\ run' = [run EXCEPT ![Job] = r] /\ run[Job].at = "idle"
      /\ UNCHANGED <<settlements, payouts, crossed, dropped>>
  BY DEF GenerateByJob, CreateFor, At
<1>2. r \in RunType /\ r.at = "existing" /\ r.from = PeriodStart /\ r.to = week - 1
  <2>1. PeriodStart \in Int /\ week - 1 \in Int
    BY DEF IInv, PostInv, Types, TypeOK, SettlementAssumption
  <2>2. r \in RunType
    BY <2>1, AskIsRun
  <2> QED BY <2>2 DEF Idle
<1> HIDE DEF r
<1>3. TypeOK'
  BY DEF IInv, PostInv, Types, TypeOK, GenerateByJob
<1>4. PostInv'
  BY <1>1, <1>2, <1>3, Aside DEF IInv
<1>5. run'[Job] = r
  BY <1>1, <1>2, RunSets DEF IInv, PostInv
<1>6. JobInv'
  <2>1. JobsPeriod' /\ InOrder'
    BY <1>2, <1>5 DEF IInv, JobInv, JobsPeriod, InOrder, GenerateByJob
  <2>2. ASSUME NEW s \in Session PROVE Remembered(s)'
    BY <1>2, <1>5 DEF IInv, JobInv, Remembered, Settled, OnTheWay, Ended, GenerateByJob
  <2> QED BY <2>1, <2>2 DEF JobInv
<1> QED BY <1>4, <1>6 DEF IInv

LEMMA ClickStep ==
  ASSUME SettlementAssumption, IInv, NEW p \in Admin, Click(p)
  PROVE  IInv'
<1>1. run[p].at = "idle" /\ UNCHANGED <<time, settlements, payouts, faults, history>>
  BY DEF Click, GenerateByAdmin, CreateByAdmin, CreateFor, ReadToPay, ReadToFail, Take, At
<1>2. PICK r \in RunType :
        /\ run' = [run EXCEPT ![p] = r] /\ r.at \in {"existing", "pay", "fail"}
        /\ r.at \in {"pay", "fail"} => r.id \in Settlements /\ r.saw # "PAID"
  <2>1. ASSUME NEW from \in Int, NEW to \in Int, CreateFor(p, from, to)
        PROVE  \E r \in RunType : run' = [run EXCEPT ![p] = r] /\ r.at = "existing"
    <3>1. [Idle EXCEPT !.at = "existing", !.from = from, !.to = to] \in RunType
      BY AskIsRun
    <3> QED BY <2>1, <3>1 DEF CreateFor, Idle
  <2>2. ASSUME NEW i \in Settlements, NEW step \in {"pay", "fail"}, Take(p, i, step), Status(i) # "PAID"
        PROVE  \E r \in RunType : /\ run' = [run EXCEPT ![p] = r] /\ r.at = step
                                  /\ r.id \in Settlements /\ r.saw # "PAID"
    <3>1. Status(i) \in {"PENDING", "PAID", "FAILED"} /\ i \in Nat
      BY RowsTyped DEF IInv, PostInv, RowType
    <3>2. [Idle EXCEPT !.at = step, !.id = i, !.saw = Status(i)] \in RunType
      BY <3>1, TakeIsRun
    <3> QED BY <2>2, <3>2 DEF Take, Idle
  <2>3. PeriodStart \in Int /\ week - 1 \in Int /\ \A w \in Period : w[1] \in Int /\ w[2] \in Int
    BY DEF IInv, PostInv, Types, TypeOK, SettlementAssumption
  <2> QED BY <2>1, <2>2, <2>3 DEF Click, GenerateByAdmin, CreateByAdmin, ReadToPay, ReadToFail, MayFail
<1>3. TypeOK'
  BY <1>1 DEF IInv, PostInv, Types, TypeOK
<1>4. p # Job
  BY DEF SettlementAssumption
<1>5. PostInv'
  BY <1>1, <1>2, <1>3, <1>4, Aside DEF IInv
<1>6. run'[Job] = run[Job]
  BY <1>2, <1>4 DEF IInv, PostInv, Types
<1>7. JobInv'
  BY <1>1, <1>6, OfOthers DEF IInv, RowsKept
<1> QED BY <1>5, <1>7 DEF IInv

LEMMA FindStep ==
  ASSUME SettlementAssumption, IInv, NEW p \in Process, FindExisting(p) \/ FindSessions(p)
  PROVE  IInv'
<1> DEFINE found == {s \in Ended : charging[s].start \in run[p].from..run[p].to}
<1>0. run[p] \in RunType
  BY DEF IInv, PostInv, Types
<1>1. /\ run[p].at \in {"existing", "sessions"} /\ found \subseteq Session
      /\ UNCHANGED <<time, settlements, payouts, crossed, dropped>>
  BY DEF FindExisting, FindSessions, At, Ended
<1>2. PICK r \in RunType :
        /\ run' = [run EXCEPT ![p] = r] /\ r.at \in {"idle", "sessions", "create"}
        /\ (r.from = run[p].from /\ r.to = run[p].to) \/ r.at = "idle"
        /\ \/ run[p].at = "existing" /\ r.at = "sessions" /\ UNCHANGED missed
           \/ run[p].at = "existing" /\ r.at = "idle" /\ missed' = IF p = Job THEN missed \cup {week} ELSE missed
           \/ run[p].at = "sessions" /\ r.at = "create" /\ r.items = found /\ UNCHANGED missed
           \/ run[p].at = "sessions" /\ r.at = "idle" /\ found = {} /\ UNCHANGED missed
  <2>1. CASE FindExisting(p) /\ Refuse(p)
    BY <2>1, IdleIsRun DEF FindExisting, Refuse, Done, At, Idle
  <2>2. CASE FindExisting(p) /\ Goto(p, "sessions") /\ UNCHANGED missed
    <3>1. [run[p] EXCEPT !.at = "sessions"] \in RunType
      BY <1>0 DEF RunType
    <3>2. run' = [run EXCEPT ![p] = [run[p] EXCEPT !.at = "sessions"]]
      BY <2>2 DEF Goto
    <3> QED BY <1>0, <2>2, <3>1, <3>2 DEF FindExisting, At, RunType
  <2>3. CASE FindSessions(p) /\ found = {}
    BY <2>3, IdleIsRun DEF FindSessions, At, Idle
  <2>4. CASE FindSessions(p) /\ found # {}
    <3>1. [run[p] EXCEPT !.at = "create", !.items = found] \in RunType
      BY <1>0, <1>1 DEF RunType
    <3>2. run' = [run EXCEPT ![p] = [run[p] EXCEPT !.at = "create", !.items = found]]
      BY <2>4 DEF FindSessions
    <3> QED BY <1>0, <2>4, <3>1, <3>2 DEF FindSessions, At, RunType
  <2> QED BY <2>1, <2>2, <2>3, <2>4 DEF FindExisting
<1> HIDE DEF found
<1>3. TypeOK'
  <2>1. missed' \subseteq Weeks
    BY <1>2 DEF IInv, PostInv, Types, TypeOK
  <2> QED BY <1>1, <2>1 DEF IInv, PostInv, Types, TypeOK, FindExisting, FindSessions
<1>4. PostInv'
  BY <1>1, <1>2, <1>3, Aside DEF IInv
<1>5. run'[p] = r /\ \A q \in Process : q # p => run'[q] = run[q]
  BY <1>2, RunSets DEF IInv, PostInv
<1>6. RowsKept
  BY <1>1 DEF RowsKept
<1>7. CASE p # Job
  <2>1. run'[Job] = run[Job] /\ UNCHANGED <<time, missed>>
    BY <1>1, <1>2, <1>5, <1>7
  <2>2. JobInv'
    BY <1>6, <2>1, OfOthers DEF IInv
  <2> QED BY <1>4, <2>2 DEF IInv
<1>8. CASE p = Job /\ r.at = "idle" /\ run[Job].at = "existing"
  <2>1. run'[Job].at = "idle" /\ UNCHANGED time /\ missed' = missed \cup {week}
    BY <1>1, <1>2, <1>5, <1>8
  <2>2. JobInv'
    BY <1>6, <2>1, JobRefuses DEF IInv
  <2> QED BY <1>4, <2>2 DEF IInv
<1>9. CASE p = Job /\ ~(r.at = "idle" /\ run[Job].at = "existing")
  <2>1. UNCHANGED missed
    BY <1>2, <1>9
  <2>2. JobsPeriod' /\ InOrder'
    BY <1>1, <1>2, <1>5, <1>9 DEF IInv, JobInv, JobsPeriod, InOrder
  <2>3. ASSUME NEW s \in Session PROVE Remembered(s)'
    <3>1. ASSUME s \in Ended, charging[s].ended <= charging[s].start + 1, week = charging[s].start + 2,
                 run[Job].at = "sessions"
          PROVE  s \in found
      BY <1>9, <3>1 DEF found, IInv, PostInv, Types, TypeOK, JobInv, JobsPeriod
    <3>2. Settled(s)' <=> Settled(s)
      BY <1>1 DEF Settled
    <3>3. Remembered(s) /\ UNCHANGED <<week, due, charging, missed>>
      BY <1>1, <2>1 DEF IInv, JobInv
    <3>4. ASSUME s \in Ended, charging[s].ended <= charging[s].start + 1, week = charging[s].start + 2, OnTheWay(s)
          PROVE  OnTheWay(s)'
      <4>1. CASE run[Job].at = "existing"
        BY <1>2, <1>5, <1>9, <4>1 DEF OnTheWay
      <4>2. CASE run[Job].at = "sessions"
        BY <1>2, <1>5, <1>9, <3>1, <3>4, <4>2 DEF OnTheWay
      <4> QED BY <1>1, <1>9, <4>1, <4>2
    <3> QED BY <3>2, <3>3, <3>4 DEF Remembered, Ended
  <2>4. JobInv'
    BY <2>2, <2>3 DEF JobInv
  <2> QED BY <1>4, <2>4 DEF IInv
<1> QED BY <1>7, <1>8, <1>9

-----------------------------------------------------------------------------
\* Rows are added

LEMMA RowAdded ==
  ASSUME Types, NEW row \in RowType, settlements' = Append(settlements, row), Len(settlements) < MaxSettlements,
         MaxSettlements \in Nat
  PROVE  /\ settlements' \in Seq(RowType) /\ Len(settlements') <= MaxSettlements
         /\ Settlements' = Settlements \cup {Len(settlements) + 1} /\ Len(settlements) + 1 \in Id
         /\ Len(settlements) + 1 \notin Settlements
         /\ \A i \in Settlements : settlements'[i] = settlements[i]
         /\ settlements'[Len(settlements) + 1] = row
<1>1. settlements \in Seq(RowType) /\ Len(settlements) <= MaxSettlements
  BY DEF Types, TypeOK, RowType
<1>2. /\ settlements' \in Seq(RowType) /\ Len(settlements') = Len(settlements) + 1
      /\ \A i \in 1 .. Len(settlements) : settlements'[i] = settlements[i]
      /\ settlements'[Len(settlements) + 1] = row
  <2> HIDE DEF RowType
  <2> QED BY <1>1
<1>3. Len(settlements) \in Nat /\ Settlements = 1 .. Len(settlements) /\ Settlements' = 1 .. Len(settlements')
  BY <1>1 DEF Settlements
<1>4. /\ Settlements' = Settlements \cup {Len(settlements) + 1}
      /\ Len(settlements) + 1 \notin Settlements /\ Len(settlements) + 1 \in 1 .. MaxSettlements
  BY <1>1, <1>2, <1>3
<1> QED BY <1>1, <1>2, <1>3, <1>4 DEF Id

\* A row that is added is one nobody has paid.
LEMMA Added ==
  ASSUME SettlementAssumption, PostInv, NEW row \in RowType, Len(settlements) < MaxSettlements,
         settlements' = Append(settlements, row), row.manual \/ row.status = "PENDING",
         Types', UNCHANGED <<payouts, dropped>>, crossed \subseteq crossed',
         \A p \in Process : run'[p] = run[p] \/ (run'[p] = Idle /\ run[p].at = "create")
  PROVE  PostInv' /\ RowsKept
<1>1. PICK n : /\ Settlements' = Settlements \cup {n} /\ n \notin Settlements
               /\ \A i \in Settlements : settlements'[i] = settlements[i]
               /\ settlements'[n] = row
  BY RowAdded DEF PostInv, SettlementAssumption
<1>2. Means'
  BY <1>1 DEF PostInv, Means, Idle
<1>3. AllSquared'
  <2>1. ASSUME NEW p \in Process, NEW i \in Settlements' PROVE Pays(p, i)' <=> Pays(p, i)
    BY DEF Pays, Idle
  <2>2. ASSUME NEW i \in Settlements PROVE settlements'[i].manual \/ i \in dropped' \cup crossed' \/ Squared(i)'
    BY <1>1, <2>1 DEF PostInv, AllSquared, Squared
  <2>3. settlements'[n].manual \/ Squared(n)'
    <3>1. ~Posted(n) /\ \A p \in Process : ~Pays(p, n)
      BY <1>1 DEF PostInv, Means, Pays
    <3> QED BY <1>1, <2>1, <3>1 DEF Squared
  <2> QED BY <1>1, <2>2, <2>3 DEF AllSquared
<1>4. RowsKept
  BY <1>1 DEF RowsKept
<1> QED BY <1>2, <1>3, <1>4 DEF PostInv

LEMMA CreateStep ==
  ASSUME SettlementAssumption, IInv, NEW p \in Process, CreateSettlement(p)
  PROVE  IInv'
<1> DEFINE row == Row(run[p].from, run[p].to, run[p].items, Cardinality(run[p].items), "PENDING", FALSE)
<1>1. /\ settlements' = Append(settlements, row) /\ run' = [run EXCEPT ![p] = Idle] /\ run[p].at = "create"
      /\ Len(settlements) < MaxSettlements /\ UNCHANGED <<time, payouts, faults, missed, dropped>>
      /\ crossed' = crossed \/ crossed' = crossed \cup {Len(settlements')}
  BY DEF CreateSettlement, Done, At
<1>2. row \in RowType /\ row.status = "PENDING" /\ row.items = run[p].items
  <2>1. run[p] \in RunType
    BY DEF IInv, PostInv, Types
  <2>2. Cardinality(run[p].items) \in Nat
    BY <2>1, FS_Subset, FS_CardinalityType DEF RunType, SettlementAssumption
  <2> QED BY <2>1, <2>2 DEF Row, RowType, RunType
<1> HIDE DEF row
<1>3. /\ settlements' \in Seq(RowType) /\ Len(settlements') <= MaxSettlements
      /\ Len(settlements) + 1 \in Id /\ Len(settlements) + 1 \in Settlements'
      /\ settlements'[Len(settlements) + 1] = row
  BY <1>1, <1>2, RowAdded DEF IInv, PostInv, SettlementAssumption
<1>4. /\ run' \in [Process -> RunType] /\ run'[p] = Idle
      /\ \A q \in Process : q # p => run'[q] = run[q]
  BY <1>1, IdleIsRun, RunSets DEF IInv, PostInv
<1>5. Types'
  <2>1. crossed' \subseteq Id
    <3>1. Len(settlements') = Len(settlements) + 1
      BY <1>1, <1>2, RowsTyped DEF IInv, PostInv
    <3> QED BY <1>1, <1>3, <3>1 DEF IInv, PostInv, Types, TypeOK
  <2> QED BY <1>1, <1>3, <1>4, <2>1 DEF IInv, PostInv, Types, TypeOK, RowType
<1>6. PostInv' /\ RowsKept
  BY <1>1, <1>2, <1>4, <1>5, Added DEF IInv
<1>7. ASSUME NEW s \in Session PROVE Arrives(s)
  BY <1>1, <1>2, <1>3, <1>4 DEF Arrives, OnTheWay, Settled
<1>8. JobInv'
  <2>1. CASE p = Job
    BY <1>1, <1>4, <1>6, <1>7, <2>1, Later DEF IInv, Idle
  <2>2. CASE p # Job
    BY <1>1, <1>4, <1>6, <2>2, OfOthers DEF IInv
  <2> QED BY <2>1, <2>2
<1> QED BY <1>6, <1>8 DEF IInv

LEMMA RecordStep ==
  ASSUME SettlementAssumption, IInv, RecordOwnerPayment
  PROVE  IInv'
<1> DEFINE row == Row(week, week, {}, 1, "PAID", TRUE)
<1>1. /\ settlements' = Append(settlements, row) /\ Len(settlements) < MaxSettlements
      /\ UNCHANGED <<time, payouts, run, faults, history>>
  BY DEF RecordOwnerPayment
<1>2. row \in RowType /\ row.manual
  BY DEF Row, RowType, IInv, PostInv, Types, TypeOK
<1> HIDE DEF row
<1>3. settlements' \in Seq(RowType) /\ Len(settlements') <= MaxSettlements
  BY <1>1, <1>2, RowAdded DEF IInv, PostInv, SettlementAssumption
<1>4. Types'
  BY <1>1, <1>3 DEF IInv, PostInv, Types, TypeOK, RowType
<1>5. PostInv' /\ RowsKept
  BY <1>1, <1>2, <1>4, Added DEF IInv
<1>6. JobInv'
  BY <1>1, <1>5, OfOthers DEF IInv
<1> QED BY <1>5, <1>6 DEF IInv

-----------------------------------------------------------------------------
\* Settlements are marked and posted

\* Only admins mark and pay.
LEMMA AdminsMark ==
  ASSUME PostInv, NEW p \in Process, run[p].at \in {"pay", "fail", "key", "post"}
  PROVE  p # Job /\ run[p].id \in Settlements
BY DEF PostInv, Means

LEMMA StatusWritten ==
  ASSUME Types, MaxSettlements \in Nat, NEW p \in Process, run[p].id \in Settlements, NEW status \in {"PAID", "FAILED"}, SetStatus(p, status)
  PROVE  /\ settlements' \in Seq(RowType) /\ Len(settlements') = Len(settlements)
         /\ Settlements' = Settlements /\ RowsKept
         /\ settlements'[run[p].id].status = status
         /\ \A i \in Settlements : settlements'[i].manual = settlements[i].manual
         /\ \A i \in Settlements : i # run[p].id => settlements'[i] = settlements[i]
         /\ crossed' = IF Status(run[p].id) = run[p].saw THEN crossed ELSE crossed \cup {run[p].id}
         /\ crossed' \subseteq Id
<1>1. run[p].id \in Id
  <2>1. run[p].id \in 1..Len(settlements) /\ Len(settlements) \in Nat
    BY RowsTyped
  <2>2. Len(settlements) <= MaxSettlements
    BY DEF Types
  <2> QED BY <2>1, <2>2
<1>2. /\ settlements' = [settlements EXCEPT ![run[p].id].status = status]
      /\ crossed' = IF Status(run[p].id) = run[p].saw THEN crossed ELSE crossed \cup {run[p].id}
  BY DEF SetStatus
<1>3. settlements' \in Seq(RowType) /\ Len(settlements') = Len(settlements)
  <2> DEFINE row == [settlements[run[p].id] EXCEPT !.status = status]
  <2>1. row \in RowType
    BY RowsTyped DEF RowType
  <2>2. settlements' = [settlements EXCEPT ![run[p].id] = row]
    BY <1>2
  <2> HIDE DEF row
  <2> QED BY <2>1, <2>2, RowsTyped
<1>4. crossed' \subseteq Id
  BY <1>1, <1>2 DEF Types, TypeOK
<1>5. /\ Settlements' = Settlements /\ RowsKept
      /\ \A i \in Settlements : i # run[p].id => settlements'[i] = settlements[i]
      /\ \A i \in Settlements : settlements'[i].manual = settlements[i].manual
  BY <1>2, <1>3, RowsTyped DEF RowsKept, RowType
<1>6. settlements'[run[p].id].status = status
  BY <1>2, RowsTyped DEF RowType
<1> QED BY <1>2, <1>3, <1>4, <1>5, <1>6

LEMMA MarkStep ==
  ASSUME SettlementAssumption, IInv, NEW p \in Process, MarkPaid(p) \/ MarkFailed(p)
  PROVE  IInv'
<1> DEFINE status == IF run[p].at = "pay" THEN "PAID" ELSE "FAILED"
           r == IF run[p].at = "pay" THEN [run[p] EXCEPT !.at = "key", !.saw = "none"] ELSE Idle
<1>0. PICK i : i = run[p].id
  OBVIOUS
<1>1. /\ run[p].at \in {"pay", "fail"} /\ SetStatus(p, status) /\ run' = [run EXCEPT ![p] = r]
      /\ UNCHANGED <<time, payouts, faults, missed, dropped>>
  BY DEF MarkPaid, MarkFailed, At, Done
<1>2. p # Job /\ i \in Settlements /\ run[p].saw # "PAID"
  BY <1>0, <1>1, AdminsMark DEF IInv, PostInv, Means
<1>3. r \in RunType /\ r.at = (IF run[p].at = "pay" THEN "key" ELSE "idle") /\ (run[p].at = "pay" => r.id = i)
  <2>1. run[p] \in RunType
    BY DEF IInv, PostInv, Types
  <2> QED BY <1>0, <2>1, IdleIsRun DEF RunType, Idle
<1>4. /\ settlements' \in Seq(RowType) /\ Len(settlements') = Len(settlements) /\ Settlements' = Settlements
      /\ RowsKept /\ settlements'[i].status = status
      /\ \A j \in Settlements : settlements'[j].manual = settlements[j].manual
      /\ \A j \in Settlements : j # i => settlements'[j] = settlements[j]
      /\ crossed' = IF Status(i) = run[p].saw THEN crossed ELSE crossed \cup {i}
      /\ crossed' \subseteq Id
  BY <1>0, <1>1, <1>2, StatusWritten DEF IInv, PostInv, SettlementAssumption
<1>5. PICK R \in RunType : /\ run' = [run EXCEPT ![p] = R] /\ R.at = (IF run[p].at = "pay" THEN "key" ELSE "idle")
                           /\ run[p].at = "pay" => R.id = i
  BY <1>1, <1>3
<1>6. run' \in [Process -> RunType] /\ run'[p] = R /\ \A q \in Process : q # p => run'[q] = run[q]
  BY <1>5, RunSets DEF IInv, PostInv
<1> HIDE DEF r
<1>7. Types'
  BY <1>1, <1>4, <1>6 DEF IInv, PostInv, Types, TypeOK, RowType
<1>8. Means'
  BY <1>1, <1>2, <1>5, <1>4, <1>5, <1>6 DEF IInv, PostInv, Means
<1>9. ASSUME NEW j \in Settlements PROVE settlements'[j].manual \/ j \in dropped' \cup crossed' \/ Squared(j)'
  <2>1. CASE j # i
    <3>1. \A q \in Process : Pays(q, j)' <=> Pays(q, j)
      BY <1>1, <1>5, <1>6, <2>1 DEF Pays
    <3> QED BY <1>1, <1>4, <2>1, <3>1 DEF IInv, PostInv, AllSquared, Squared
  <2>2. CASE j = i /\ Status(i) = run[p].saw
    <3>1. settlements[i].manual \/ i \in dropped \cup crossed \/ Squared(i)
      BY <1>2 DEF IInv, PostInv, AllSquared
    <3>2. CASE run[p].at = "pay"
      <4>1. Pays(p, i)'
        BY <1>5, <1>6, <3>2 DEF Pays
      <4> QED BY <1>1, <1>4, <2>2, <3>2, <4>1 DEF Squared
    <3>3. CASE run[p].at = "fail" /\ Squared(i)
      <4>1. ~Posted(i) /\ \A q \in Process : ~Pays(q, i)
        BY <1>2, <2>2, <3>3 DEF Squared
      <4>2. \A q \in Process : ~Pays(q, i)'
        BY <1>5, <1>6, <3>3, <4>1 DEF Pays
      <4> QED BY <1>1, <1>4, <2>2, <3>3, <4>1, <4>2 DEF Squared
    <3> QED BY <1>1, <1>2, <1>4, <2>2, <3>1, <3>2, <3>3
  <2>3. CASE j = i /\ Status(i) # run[p].saw
    BY <1>4, <2>3
  <2> QED BY <2>1, <2>2, <2>3
<1>10. JobInv'
  BY <1>1, <1>2, <1>4, <1>5, <1>6, OfOthers DEF IInv
<1> QED BY <1>4, <1>7, <1>8, <1>9, <1>10 DEF IInv, PostInv, AllSquared

\* The entry is made, or is there, or an error keeps it from being made.
LEMMA PostStep ==
  ASSUME SettlementAssumption, IInv, NEW p \in Process, run[p].at \in {"key", "post"},
         FindKey(p) \/ Post(p) \/ Fails(p)
  PROVE  IInv'
<1>0. PICK i : i = run[p].id
  OBVIOUS
<1>1. /\ p # Job /\ i \in Settlements /\ Pays(p, i)
      /\ run[p] \in RunType
  BY <1>0, AdminsMark DEF Pays, IInv, PostInv, Types
<1>2. PICK r \in RunType :
        /\ run' = [run EXCEPT ![p] = r] /\ r.at \in {"idle", "post"}
        /\ r.at = "post" => r.id = i /\ UNCHANGED <<payouts, dropped>>
        /\ r.at = "idle" => Posted(i)' \/ i \in dropped'
        /\ payouts' = payouts \/ payouts' = payouts \cup {i}
        /\ dropped' = dropped \/ dropped' = dropped \cup {i}
        /\ UNCHANGED <<time, settlements, crossed, missed>>
  <2>1. CASE FindKey(p) /\ ~Posted(i)
    <3>1. [run[p] EXCEPT !.at = "post"] \in RunType
      BY <1>1 DEF RunType
    <3>2. run' = [run EXCEPT ![p] = [run[p] EXCEPT !.at = "post"]]
      BY <1>0, <2>1 DEF FindKey, Goto
    <3> QED BY <1>1, <1>0, <2>1, <3>1, <3>2 DEF FindKey, RunType
  <2>2. CASE FindKey(p) /\ Posted(i)
    BY <1>0, <2>2, IdleIsRun DEF FindKey, Done, Idle
  <2>3. CASE Post(p)
    BY <1>0, <2>3, IdleIsRun DEF Post, Done, Idle
  <2>4. CASE Fails(p)
    BY <1>0, <1>1, <2>4, IdleIsRun DEF Fails, Refuse, Done, Idle
  <2> QED BY <2>1, <2>2, <2>3, <2>4
<1>3. run' \in [Process -> RunType] /\ run'[p] = r /\ \A q \in Process : q # p => run'[q] = run[q]
  BY <1>2, RunSets DEF IInv, PostInv
<1>4. Types'
  <2>1. i \in Id
    BY <1>1 DEF IInv, PostInv, Types, TypeOK, SettlementAssumption
  <2>2. payouts' \subseteq Id /\ dropped' \subseteq Id
    BY <1>2, <2>1 DEF IInv, PostInv, Types, TypeOK
  <2> QED BY <1>2, <1>3, <2>2 DEF IInv, PostInv, Types, TypeOK
<1>5. Means'
  BY <1>1, <1>2, <1>3 DEF IInv, PostInv, Means
<1>6. ASSUME NEW j \in Settlements PROVE settlements'[j].manual \/ j \in dropped' \cup crossed' \/ Squared(j)'
  <2>1. settlements[j].manual \/ j \in dropped \cup crossed \/ Squared(j)
    BY DEF IInv, PostInv, AllSquared
  <2>2. CASE Squared(j) /\ j # i
    <3>1. \A q \in Process : Pays(q, j)' <=> Pays(q, j)
      BY <1>1, <1>2, <1>3, <2>2 DEF Pays
    <3> QED BY <1>2, <2>2, <3>1 DEF Squared
  <2>3. CASE Squared(j) /\ j = i
    <3>1. Status(i) = "PAID"
      BY <1>1, <2>3 DEF Squared
    <3>2. r.at = "post" => Pays(p, i)'
      BY <1>2, <1>3 DEF Pays
    <3> QED BY <1>2, <2>3, <3>1, <3>2 DEF Squared
  <2> QED BY <1>2, <2>1, <2>2, <2>3
<1>7. JobInv'
  BY <1>1, <1>2, <1>3, OfOthers DEF IInv, RowsKept
<1> QED BY <1>2, <1>4, <1>5, <1>6, <1>7 DEF IInv, PostInv, AllSquared

\* A call of the job throws, or the process dies.
LEMMA JobFailsStep ==
  ASSUME SettlementAssumption, IInv, NEW p \in Process, Fails(p), run[p].at \notin {"key", "post"}
  PROVE  IInv'
<1>1. /\ p = Job /\ run' = [run EXCEPT ![Job] = Idle]
      /\ UNCHANGED <<week, active, charging, settlements, payouts, crossed, dropped>>
      /\ \/ missed' = missed \cup {week} /\ UNCHANGED due
         \/ due' = TRUE /\ UNCHANGED missed
  BY DEF Fails, Refuse, Done, At
<1>2. TypeOK'
  BY <1>1 DEF IInv, PostInv, Types, TypeOK, Fails
<1>3. PostInv'
  BY <1>1, <1>2, Aside, IdleIsRun DEF IInv, Idle
<1>4. run'[Job].at = "idle"
  BY <1>1, IdleIsRun, RunSets DEF IInv, PostInv, Idle
<1>5. RowsKept
  BY <1>1 DEF RowsKept
<1>6. CASE UNCHANGED due
  <2>1. CASE missed' = missed \cup {week}
    <3>1. UNCHANGED time
      BY <1>1, <1>6
    <3>2. JobInv'
      BY <1>4, <1>5, <2>1, <3>1, JobRefuses DEF IInv
    <3> QED BY <1>3, <3>2 DEF IInv
  <2>2. CASE due' = TRUE /\ UNCHANGED missed
    <3>1. run[Job].at = "idle"
      BY <1>6, <2>2 DEF IInv, JobInv, JobsPeriod, InOrder
    <3> QED BY <1>1, <3>1 DEF Fails, At
  <2> QED BY <1>1, <2>1, <2>2
<1>7. CASE due' = TRUE /\ UNCHANGED missed
  <2>1. JobsPeriod' /\ InOrder'
    BY <1>1, <1>4 DEF IInv, JobInv, JobsPeriod, InOrder
  <2>2. ASSUME NEW s \in Session PROVE Remembered(s)'
    <3>1. Remembered(s) /\ (Settled(s)' <=> Settled(s)) /\ (s \in Ended' <=> s \in Ended)
      BY <1>1 DEF IInv, JobInv, Settled, Ended
    <3>2. due' /\ UNCHANGED <<week, charging, missed>>
      BY <1>1, <1>7
    <3> QED BY <3>1, <3>2 DEF Remembered
  <2> QED BY <1>3, <2>1, <2>2 DEF IInv, JobInv
<1> QED BY <1>1, <1>3, <1>6, <1>7 DEF IInv

-----------------------------------------------------------------------------
\* The theorems

LEMMA InitIInv == SettlementAssumption /\ Init => IInv
<1> SUFFICES ASSUME SettlementAssumption, Init PROVE IInv
  OBVIOUS
<1>1. Types
  <2>1. settlements \in Seq(RowType) /\ Len(settlements) <= MaxSettlements
    BY DEF SettlementAssumption, Init
  <2>2. charging \in [Session -> [start : Weeks, ended : Weeks]] /\ week \in Weeks
    BY DEF SettlementAssumption, Init
  <2>3. run \in [Process -> RunType]
    BY IdleIsRun DEF Init
  <2> QED BY <2>1, <2>2, <2>3 DEF Init, Types, TypeOK, RowType
<1>2. Means /\ AllSquared
  BY DEF Init, Means, AllSquared, Idle
<1>3. JobInv
  BY DEF Init, Idle, JobInv, JobsPeriod, InOrder, Remembered, Ended
<1> QED BY <1>1, <1>2, <1>3 DEF IInv, PostInv

LEMMA NextIInv == SettlementAssumption /\ IInv /\ [Next]_vars => IInv'
<1> SUFFICES ASSUME SettlementAssumption, IInv, [Next]_vars PROVE IInv'
  OBVIOUS
<1>1. CASE WeekPasses \/ UpdateUserStatus \/ Reschedule \/ SkipOwner \/ \E s \in Session : StartSession(s) \/ EndSession(s)
  BY <1>1, TimeStep
<1>2. CASE GenerateByJob \/ RecordOwnerPayment
  BY <1>2, GenerateStep, RecordStep
<1>3. ASSUME NEW p \in Admin, Click(p) PROVE IInv'
  BY <1>3, ClickStep
<1>4. ASSUME NEW p \in Process, Step(p) PROVE IInv'
  <2>1. CASE FindExisting(p) \/ FindSessions(p) \/ CreateSettlement(p)
    BY <2>1, FindStep, CreateStep
  <2>2. CASE MarkPaid(p) \/ MarkFailed(p)
    BY <2>2, MarkStep
  <2>3. CASE FindKey(p) \/ Post(p)
    BY <2>3, PostStep DEF FindKey, Post, At
  <2>4. CASE Fails(p)
    BY <2>4, PostStep, JobFailsStep
  <2> QED BY <1>4, <2>1, <2>2, <2>3, <2>4 DEF Step
<1>5. CASE UNCHANGED vars
  BY <1>5 DEF vars, IInv, PostInv, Types, TypeOK, Means, AllSquared, Squared, Pays,
              JobInv, JobsPeriod, InOrder, Remembered, Settled, OnTheWay, Ended
<1> QED BY <1>1, <1>2, <1>3, <1>4, <1>5 DEF Next

\* The inductive invariant holds: a settlement is paid if and only if its payout is
\* posted or about to be, unless two marked it, and the job of a week is on the way
\* to a settlement of what ended in time.
THEOREM Inductive == Spec => []IInv
BY SettlementAssumption, InitIInv, NextIInv, PTL DEF Spec

\* Type correctness.
THEOREM TypeCorrect == Spec => []TypeOK
<1>1. IInv => TypeOK
  BY DEF IInv, PostInv, Types
<1> QED BY <1>1, Inductive, PTL

\* markSettlementAsPaid and markSettlementAsFailed keep the rows and the ledger in
\* step, for any number of settlements and admins, unless two marked a settlement at
\* once or a payment failed half way.
THEOREM PaymentsArePosted == Spec => []PaidIsPosted
<1>1. IInv => PaidIsPosted
  <2> SUFFICES ASSUME IInv, NEW i \in Settlements, ~settlements[i].manual, i \notin dropped \cup crossed,
                      \A p \in Process : run[p].id # i
               PROVE  Status(i) = "PAID" <=> Posted(i)
    BY DEF PaidIsPosted
  <2>1. Squared(i)
    BY DEF IInv, PostInv, AllSquared
  <2> QED BY <2>1 DEF Squared, Pays
<1> QED BY <1>1, Inductive, PTL

\* The second weekly job after the week a session names as its start leaves none out
\* whose end was written by the week between, for any number of sessions and weeks,
\* unless it was refused, failed or removed, or left out an owner who was not active.
THEOREM SessionsAreSettled == Spec => []NothingForgotten
<1>1. IInv => NothingForgotten
  BY DEF IInv, JobInv, Remembered, Settled, NothingForgotten, Ended
<1> QED BY <1>1, Inductive, PTL

-----------------------------------------------------------------------------
\* What is paid is earned: the inductive invariant

\* Only sessions that ended are settled.
ItemsEnded ==
  /\ \A i \in Settlements : settlements[i].items \subseteq Ended
  /\ \A p \in Process : run[p].at = "create" => run[p].items \subseteq Ended

\* A settlement pays its items.
ItemsPriced == \A i \in Settlements : settlements[i].manual \/ settlements[i].amount = Cardinality(settlements[i].items)

\* A settlement made while the period of an earlier one lay in its own is noted.
Crosses(i, j) == Within(i, settlements[j].from, settlements[j].to)

CrossingsNoted == \A i, j \in Settlements : i < j /\ Crosses(i, j) => j \in crossed \/ settlements[j].manual

Earned == ItemsEnded /\ ItemsPriced /\ CrossingsNoted

PayInv == IInv /\ week > 0 /\ Earned

SameRow(i) ==
  /\ settlements'[i].items = settlements[i].items /\ settlements'[i].amount = settlements[i].amount
  /\ settlements'[i].from = settlements[i].from /\ settlements'[i].to = settlements[i].to
  /\ settlements'[i].manual = settlements[i].manual

\* A step that makes no settlement.
LEMMA RowsStay ==
  ASSUME Earned, Settlements' = Settlements, \A i \in Settlements : SameRow(i),
         Ended \subseteq Ended', crossed \subseteq crossed',
         \A p \in Process : run'[p].at = "create" => run'[p].items \subseteq Ended'
  PROVE  Earned'
<1>1. ItemsEnded'
  BY DEF Earned, ItemsEnded, SameRow
<1>2. ItemsPriced'
  <2> SUFFICES ASSUME NEW i \in Settlements
               PROVE  settlements'[i].manual \/ settlements'[i].amount = Cardinality(settlements'[i].items)
    BY DEF ItemsPriced
  <2> QED BY DEF Earned, ItemsPriced, SameRow
<1>3. CrossingsNoted'
  BY DEF Earned, CrossingsNoted, Crosses, Within, SameRow
<1> QED BY <1>1, <1>2, <1>3 DEF Earned

\* A settlement is made: of sessions that ended, for what they earned, and noted when
\* its period holds that of an earlier one.
LEMMA RowMade ==
  ASSUME Types, MaxSettlements \in Nat, Earned, NEW row \in RowType,
         settlements' = Append(settlements, row), Len(settlements) < MaxSettlements,
         row.items \subseteq Ended, row.manual \/ row.amount = Cardinality(row.items),
         \A i \in Settlements : Within(i, row.from, row.to) => Len(settlements) + 1 \in crossed' \/ row.manual,
         charging' = charging, crossed \subseteq crossed',
         \A p \in Process : run'[p].at = "create" => run'[p] = run[p]
  PROVE  Earned'
<1>1. PICK n : n = Len(settlements) + 1
  OBVIOUS
<1>2. /\ Settlements' = Settlements \cup {n} /\ n \notin Settlements
      /\ \A i \in Settlements : settlements'[i] = settlements[i] /\ i \in Nat /\ i < n
      /\ settlements'[n] = row /\ n \in Nat
  <2>1. Settlements = 1..Len(settlements) /\ Len(settlements) \in Nat
    BY RowsTyped
  <2>2. /\ Settlements' = Settlements \cup {n} /\ n \notin Settlements
        /\ \A i \in Settlements : settlements'[i] = settlements[i]
        /\ settlements'[n] = row
    BY <1>1, RowAdded
  <2>3. n \in Nat /\ \A i \in 1..Len(settlements) : i \in Nat /\ i < n
    BY <1>1, <2>1
  <2> QED BY <2>1, <2>2, <2>3
<1>3. Ended' = Ended
  BY DEF Ended
<1>4. ItemsEnded'
  BY <1>2, <1>3 DEF Earned, ItemsEnded
<1>5. ItemsPriced'
  <2> SUFFICES ASSUME NEW i \in Settlements \cup {n}
               PROVE  settlements'[i].manual \/ settlements'[i].amount = Cardinality(settlements'[i].items)
    BY <1>2 DEF ItemsPriced
  <2>1. CASE i = n
    BY <1>2, <2>1
  <2>2. CASE i \in Settlements
    BY <1>2, <2>2 DEF Earned, ItemsPriced
  <2> QED BY <2>1, <2>2
<1>6. CrossingsNoted'
  <2> SUFFICES ASSUME NEW i \in Settlements \cup {n}, NEW j \in Settlements \cup {n}, i < j,
                      settlements'[i].from >= settlements'[j].from, settlements'[i].to <= settlements'[j].to
               PROVE  j \in crossed' \/ settlements'[j].manual
    BY <1>2 DEF CrossingsNoted, Crosses, Within
  <2>1. i \in Settlements
    BY <1>2
  <2>2. CASE j \in Settlements
    BY <1>2, <2>1, <2>2 DEF Earned, CrossingsNoted, Crosses, Within
  <2>3. CASE j = n
    BY <1>1, <1>2, <2>1, <2>3 DEF Within
  <2> QED BY <2>2, <2>3
<1> QED BY <1>4, <1>5, <1>6 DEF Earned

\* A process that settles nothing, or sessions that ended.
LEMMA QuietStep ==
  ASSUME Earned, Types, NEW p \in Process, NEW r \in RunType, run' = [run EXCEPT ![p] = r],
         UNCHANGED <<charging, settlements, crossed>>, r.at = "create" => r.items \subseteq Ended
  PROVE  Earned'
<1>1. run'[p] = r /\ \A q \in Process : q # p => run'[q] = run[q]
  BY RunSets
<1>2. Ended' = Ended
  BY DEF Ended
<1>3. \A q \in Process : run'[q].at = "create" => run'[q].items \subseteq Ended'
  BY <1>1, <1>2 DEF Earned, ItemsEnded
<1>4. \A i \in Settlements : SameRow(i)
  BY DEF SameRow
<1> QED BY <1>2, <1>3, <1>4, RowsStay

LEMMA NextEarned ==
  ASSUME SettlementAssumption, PayInv, [Next]_vars
  PROVE  Earned'
<1>0. Types /\ Earned /\ MaxSettlements \in Nat /\ run \in [Process -> RunType] /\ Job \in Process /\ Admin \subseteq Process
  BY DEF PayInv, IInv, PostInv, Types, SettlementAssumption
<1>1. CASE WeekPasses \/ UpdateUserStatus \/ Reschedule \/ SkipOwner \/ (\E s \in Session : StartSession(s) \/ EndSession(s)) \/ UNCHANGED vars
  <2>1. UNCHANGED <<settlements, run, crossed>>
    BY <1>1 DEF WeekPasses, UpdateUserStatus, Reschedule, SkipOwner, StartSession, EndSession, vars
  <2>2. Ended \subseteq Ended'
    <3>1. charging \in [Session -> [start : Weeks, ended : Weeks]] /\ week \in Int /\ week > 0
      BY DEF PayInv, IInv, PostInv, Types, TypeOK, SettlementAssumption
    <3> QED BY <1>1, <3>1 DEF WeekPasses, UpdateUserStatus, Reschedule, SkipOwner, StartSession, EndSession, vars, Ended
  <2>3. \A i \in Settlements : SameRow(i)
    BY <2>1 DEF SameRow
  <2>4. \A q \in Process : run'[q].at = "create" => run'[q].items \subseteq Ended'
    BY <1>0, <2>1, <2>2 DEF Earned, ItemsEnded
  <2> QED BY <1>0, <2>1, <2>2, <2>3, <2>4, RowsStay
<1>2. CASE GenerateByJob
  <2>1. UNCHANGED <<charging, settlements, crossed>>
    BY <1>2 DEF GenerateByJob
  <2>2. PICK r \in RunType : run' = [run EXCEPT ![Job] = r] /\ r.at = "existing"
    <3>1. PeriodStart \in Int /\ week - 1 \in Int
      BY <1>0 DEF Types, TypeOK, SettlementAssumption
    <3>2. [Idle EXCEPT !.at = "existing", !.from = PeriodStart, !.to = week - 1] \in RunType
      BY <3>1, AskIsRun
    <3> QED BY <1>2, <3>2 DEF GenerateByJob, CreateFor, Idle
  <2> QED BY <1>0, <2>1, <2>2, QuietStep
<1>3. CASE RecordOwnerPayment
  <2> DEFINE row == Row(week, week, {}, 1, "PAID", TRUE)
  <2>1. row \in RowType /\ row.manual /\ row.items = {}
    BY <1>0 DEF Row, RowType, Types, TypeOK
  <2>2. settlements' = Append(settlements, row) /\ Len(settlements) < MaxSettlements /\ UNCHANGED <<charging, run, crossed>>
    BY <1>3 DEF RecordOwnerPayment
  <2> HIDE DEF row
  <2> QED BY <1>0, <2>1, <2>2, RowMade
<1>4. ASSUME NEW p \in Admin, Click(p) PROVE Earned'
  <2>1. UNCHANGED <<charging, settlements, crossed>>
    BY <1>4 DEF Click, GenerateByAdmin, CreateByAdmin, ReadToPay, ReadToFail, Take
  <2>2. \A q \in Process : run'[q].at = "create" => run'[q] = run[q]
    <3>1. ASSUME NEW r, run' = [run EXCEPT ![p] = r], r.at # "create"
          PROVE  \A q \in Process : run'[q].at = "create" => run'[q] = run[q]
      BY <1>0, <3>1
    <3>2. ASSUME NEW from, NEW to, CreateFor(p, from, to)
          PROVE  \A q \in Process : run'[q].at = "create" => run'[q] = run[q]
      BY <3>1, <3>2 DEF CreateFor, Idle
    <3>3. ASSUME NEW i, NEW step \in {"pay", "fail"}, Take(p, i, step)
          PROVE  \A q \in Process : run'[q].at = "create" => run'[q] = run[q]
      BY <3>1, <3>3 DEF Take, Idle
    <3> QED BY <1>4, <3>2, <3>3 DEF Click, GenerateByAdmin, CreateByAdmin, ReadToPay, ReadToFail
  <2>3. Ended' = Ended /\ \A i \in Settlements : SameRow(i)
    BY <2>1 DEF Ended, SameRow
  <2>4. \A q \in Process : run'[q].at = "create" => run'[q].items \subseteq Ended'
    BY <1>0, <2>2, <2>3 DEF Earned, ItemsEnded
  <2> QED BY <1>0, <2>1, <2>3, <2>4, RowsStay
<1>5. ASSUME NEW p \in Process, FindSessions(p) PROVE Earned'
  <2> DEFINE found == {s \in Ended : charging[s].start \in run[p].from..run[p].to}
  <2>1. UNCHANGED <<charging, settlements, crossed>> /\ Ended' = Ended
    BY <1>5 DEF FindSessions, Ended
  <2>2. run' = [run EXCEPT ![p] = IF found = {} THEN Idle ELSE [@ EXCEPT !.at = "create", !.items = found]]
    BY <1>5 DEF FindSessions
  <2>3. run[p] \in RunType /\ found \subseteq Ended
    BY <1>0
  <2> HIDE DEF found
  <2>4. \A q \in Process : run'[q].at = "create" => run'[q] = run[q] \/ run'[q].items = found
    BY <1>0, <2>2, <2>3 DEF Idle, RunType
  <2>5. \A q \in Process : run'[q].at = "create" => run'[q].items \subseteq Ended'
    BY <1>0, <2>1, <2>3, <2>4 DEF Earned, ItemsEnded
  <2>6. \A i \in Settlements : SameRow(i)
    BY <2>1 DEF SameRow
  <2> QED BY <1>0, <2>1, <2>5, <2>6, RowsStay
<1>6. ASSUME NEW p \in Process, FindExisting(p) \/ FindKey(p) \/ Post(p) \/ Fails(p) PROVE Earned'
  <2>1. UNCHANGED <<charging, settlements, crossed>> /\ Ended' = Ended
    BY <1>6 DEF FindExisting, FindKey, Post, Fails, Ended
  <2>2. \A q \in Process : run'[q].at = "create" => run'[q] = run[q]
    <3>1. CASE run' = [run EXCEPT ![p] = Idle]
      BY <1>0, <3>1 DEF Idle
    <3>2. ASSUME NEW step \in {"sessions", "post"}, Goto(p, step)
          PROVE  \A q \in Process : run'[q].at = "create" => run'[q] = run[q]
      BY <1>0, <3>2 DEF Goto, RunType
    <3> QED BY <1>6, <3>1, <3>2 DEF FindExisting, FindKey, Post, Fails, Refuse, Done
  <2>3. \A i \in Settlements : SameRow(i)
    BY <2>1 DEF SameRow
  <2>4. \A q \in Process : run'[q].at = "create" => run'[q].items \subseteq Ended'
    BY <1>0, <2>1, <2>2 DEF Earned, ItemsEnded
  <2> QED BY <1>0, <2>1, <2>3, <2>4, RowsStay
<1>7. ASSUME NEW p \in Process, MarkPaid(p) \/ MarkFailed(p) PROVE Earned'
  <2>1. PICK status \in {"PAID", "FAILED"} : SetStatus(p, status)
    BY <1>7 DEF MarkPaid, MarkFailed
  <2>2. UNCHANGED charging /\ Ended' = Ended
    BY <1>7 DEF MarkPaid, MarkFailed, Ended
  <2>3. run[p].id \in Settlements
    BY <1>7, AdminsMark DEF PayInv, IInv, MarkPaid, MarkFailed, At
  <2>4. Settlements' = Settlements /\ crossed \subseteq crossed'
    BY <1>0, <2>1, <2>3, StatusWritten
  <2>5. ASSUME NEW i \in Settlements PROVE SameRow(i)
    BY <2>1, <2>3, <1>0, RowsTyped DEF SetStatus, SameRow, RowType
  <2>6. \A q \in Process : run'[q].at = "create" => run'[q] = run[q]
    <3>1. CASE MarkPaid(p)
      BY <1>0, <3>1 DEF MarkPaid, RunType
    <3>2. CASE MarkFailed(p)
      BY <1>0, <3>2 DEF MarkFailed, Done, Idle
    <3> QED BY <1>7, <3>1, <3>2
  <2>7. \A q \in Process : run'[q].at = "create" => run'[q].items \subseteq Ended'
    BY <1>0, <2>2, <2>6 DEF Earned, ItemsEnded
  <2> QED BY <1>0, <2>2, <2>4, <2>5, <2>7, RowsStay
<1>8. ASSUME NEW p \in Process, CreateSettlement(p) PROVE Earned'
  <2> DEFINE row == Row(run[p].from, run[p].to, run[p].items, Cardinality(run[p].items), "PENDING", FALSE)
  <2>0. run[p] \in RunType
    BY <1>0
  <2>1. row \in RowType /\ row.items = run[p].items /\ row.amount = Cardinality(row.items)
        /\ row.from = run[p].from /\ row.to = run[p].to
    <3>1. Cardinality(run[p].items) \in Nat
      BY <2>0, FS_Subset, FS_CardinalityType DEF RunType, SettlementAssumption
    <3> QED BY <2>0, <3>1 DEF Row, RowType, RunType
  <2>2. /\ settlements' = Append(settlements, row) /\ Len(settlements) < MaxSettlements
        /\ UNCHANGED charging /\ run[p].at = "create"
        /\ crossed' = IF Existing(p) = {} THEN crossed ELSE crossed \cup {Len(settlements')}
    BY <1>8 DEF CreateSettlement, At
  <2> HIDE DEF row
  <2>3. Len(settlements') = Len(settlements) + 1
    BY <1>0, <2>1, <2>2, RowsTyped
  <2>4. \A i \in Settlements : Within(i, row.from, row.to) => Len(settlements) + 1 \in crossed'
    BY <2>1, <2>2, <2>3 DEF Existing
  <2>5. \A q \in Process : run'[q].at = "create" => run'[q] = run[q]
    BY <1>0, <1>8 DEF CreateSettlement, Done, Idle
  <2>6. row.items \subseteq Ended
    BY <1>0, <2>1, <2>2 DEF Earned, ItemsEnded
  <2>7. crossed \subseteq crossed'
    BY <2>2
  <2> QED BY <1>0, <2>1, <2>2, <2>4, <2>5, <2>6, <2>7, RowMade
<1> QED BY <1>1, <1>2, <1>3, <1>4, <1>5, <1>6, <1>7, <1>8 DEF Next, Step

LEMMA WeeksGo ==
  ASSUME SettlementAssumption, PayInv, [Next]_vars
  PROVE  week' > 0
<1>1. week' = week \/ week' = week + 1
  BY DEF Next, Click, Step, WeekPasses, UpdateUserStatus, Reschedule, SkipOwner, GenerateByJob, RecordOwnerPayment, StartSession, EndSession,
         GenerateByAdmin, CreateByAdmin, CreateFor, ReadToPay, ReadToFail, Take, FindExisting, FindSessions,
         CreateSettlement, MarkPaid, MarkFailed, FindKey, Post, Fails, vars
<1>2. week \in Int /\ week > 0
  BY DEF PayInv, IInv, PostInv, Types, TypeOK, SettlementAssumption
<1> QED BY <1>1, <1>2

LEMMA PayInductive == Spec => []PayInv
<1>1. ASSUME SettlementAssumption, Init PROVE PayInv
  <2>1. Settlements = {}
    BY <1>1 DEF Init
  <2>2. \A p \in Process : run[p].at = "idle"
    BY <1>1 DEF Init, Idle
  <2>3. Earned
    BY <2>1, <2>2 DEF Earned, ItemsEnded, ItemsPriced, CrossingsNoted
  <2> QED BY <1>1, <2>3, InitIInv DEF PayInv, Init
<1>2. SettlementAssumption /\ PayInv /\ [Next]_vars => PayInv'
  BY NextEarned, WeeksGo, NextIInv DEF PayInv
<1> QED BY SettlementAssumption, <1>1, <1>2, PTL DEF Spec

-----------------------------------------------------------------------------
\* The sum

\* Subsets of a finite set that are apart have no more elements than it has.
LEMMA ApartFit ==
  ASSUME NEW S, IsFiniteSet(S), NEW I, NEW part \in [I -> SUBSET S],
         \A i, j \in I : i # j => part[i] \cap part[j] = {}
  PROVE  /\ IsFiniteSet(UNION {{i} \X (1..Cardinality(part[i])) : i \in I})
         /\ Cardinality(UNION {{i} \X (1..Cardinality(part[i])) : i \in I}) <= Cardinality(S)
<1> DEFINE units == UNION {{i} \X (1..Cardinality(part[i])) : i \in I}
           many  == [i \in I |-> Cardinality(part[i])]
           count == [i \in I |-> CHOOSE b : b \in Bijection(1..many[i], part[i])]
           fit   == [u \in units |-> count[u[1]][u[2]]]
<1>1. ASSUME NEW i \in I PROVE count[i] \in Injection(1..many[i], part[i])
  <2> DEFINE P == part[i]
  <2>1. IsFiniteSet(P)
    <3>1. P \in SUBSET S
      OBVIOUS
    <3> HIDE DEF P
    <3> QED BY <3>1, FS_Subset
  <2>2. many[i] = Cardinality(P)
    OBVIOUS
  <2>3. \E b : b \in Bijection(1..many[i], P)
    <3> HIDE DEF P, many
    <3>1. ExistsBijection(1..Cardinality(P), P)
      BY <2>1, FS_CardinalityType
    <3> QED BY <2>2, <3>1 DEF ExistsBijection
  <2>4. count[i] \in Bijection(1..many[i], P)
    <3> HIDE DEF many, P
    <3>1. count[i] = CHOOSE b : b \in Bijection(1..many[i], part[i])
      OBVIOUS
    <3> QED BY <2>3, <3>1 DEF P
  <2> HIDE DEF count, many
  <2> QED BY <2>4 DEF Bijection
<1>2. \A u \in units : u[1] \in I /\ u[2] \in 1..many[u[1]] /\ u = <<u[1], u[2]>>
  OBVIOUS
<1> HIDE DEF count, many
<1>3. \A u \in units : fit[u] \in part[u[1]]
  BY <1>1, <1>2 DEF Injection
<1> HIDE DEF units
<1>4. fit \in [units -> S]
  BY <1>2, <1>3
<1>5. ASSUME NEW u \in units, NEW v \in units, fit[u] = fit[v] PROVE u = v
  <2>1. u[1] = v[1]
    BY <1>2, <1>3, <1>5
  <2>2. count[u[1]][u[2]] = count[u[1]][v[2]]
    BY <1>5, <2>1
  <2>3. u[2] = v[2]
    <3> DEFINE b == count[u[1]]
    <3>1. b \in Injection(1..many[u[1]], part[u[1]]) /\ u[2] \in 1..many[u[1]] /\ v[2] \in 1..many[u[1]]
      BY <1>1, <1>2, <2>1
    <3>2. DOMAIN b = 1..many[u[1]] /\ IsInjective(b)
      BY <3>1 DEF Injection
    <3>3. b[u[2]] = b[v[2]]
      BY <2>2
    <3> HIDE DEF b
    <3> QED BY <3>1, <3>2, <3>3 DEF IsInjective
  <2> QED BY <1>2, <2>1, <2>3
<1>6. fit \in Injection(units, S)
  <2>1. DOMAIN fit = units
    OBVIOUS
  <2> HIDE DEF fit
  <2> QED BY <1>4, <1>5, <2>1 DEF Injection, IsInjective
<1> HIDE DEF fit
<1>7. IsFiniteSet(units) /\ Cardinality(units) <= Cardinality(S)
  BY <1>6, FS_Injection
<1> QED BY <1>7 DEF units

\* The union of finitely many finite sets, and of two.
LEMMA UnitsFinite ==
  ASSUME Types, NEW I, I \subseteq Settlements
  PROVE  IsFiniteSet(UNION {Units(i) : i \in I})
<1>1. IsFiniteSet(I)
  <2>1. Settlements = 1..Len(settlements) /\ Len(settlements) \in Nat
    BY RowsTyped
  <2>2. IsFiniteSet(1..Len(settlements))
    BY <2>1, FS_Interval
  <2> QED BY <2>1, <2>2, FS_Subset
<1>2. ASSUME NEW i \in I PROVE IsFiniteSet(Units(i))
  <2>1. i \in Nat /\ settlements[i].amount \in Nat
    BY RowsTyped DEF RowType
  <2> DEFINE n == settlements[i].amount
  <2>2. IsFiniteSet({i})
    BY FS_Singleton
  <2>3. IsFiniteSet(1..n)
    <3> HIDE DEF n
    <3> QED BY <2>1, FS_Interval DEF n
  <2> QED BY <2>2, <2>3, FS_Product DEF Units
<1>3. IsFiniteSet({Units(i) : i \in I})
  <2> DEFINE f == [i \in I |-> Units(i)]
             T == {Units(i) : i \in I}
  <2>1. f \in Surjection(I, T)
    BY DEF Surjection
  <2> HIDE DEF f, T
  <2>2. IsFiniteSet(T)
    BY <1>1, <2>1, FS_Surjection
  <2> QED BY <2>2 DEF T
<1> QED BY <1>2, <1>3, FS_UNION

\* What getOwnerEarningsSummary calls the remaining balance falls below zero by no more
\* than what was paid by hand, by settlements made at once and by ones whose periods
\* overlap, for any number of sessions, settlements, admins and weeks.
THEOREM OwnersAreNotOverpaid == Spec => []NotOverpaid
<1>1. SettlementAssumption /\ PayInv => NotOverpaid
  <2> SUFFICES ASSUME SettlementAssumption, PayInv
               PROVE  RemainingBalance + Paid(Owed \cap Doubtful) >= 0
    BY DEF NotOverpaid
  <2> DEFINE sound == Owed \ Doubtful
             part  == [i \in sound |-> settlements[i].items]
  <2>1. Owed \subseteq Settlements /\ (\A i \in Settlements : i \in Nat) /\ Types
    BY RowsTyped DEF Owed, PayInv, IInv, PostInv
  <2>2. IsFiniteSet(Ended)
    BY FS_Subset DEF Ended, SettlementAssumption
  <2>3. part \in [sound -> SUBSET Ended]
    BY <2>1 DEF PayInv, Earned, ItemsEnded
  <2>4. ASSUME NEW i \in sound, NEW j \in sound, i < j PROVE part[i] \cap part[j] = {}
    <3>1. i \in Settlements /\ j \in Settlements /\ ~settlements[j].manual /\ j \notin crossed /\ ~Overlaps(i, j)
      BY <2>1 DEF Doubtful
    <3>2. ~Crosses(i, j)
      BY <2>4, <3>1 DEF PayInv, Earned, CrossingsNoted
    <3> QED BY <2>4, <3>1, <3>2 DEF Overlaps, Crosses
  <2>5. \A i, j \in sound : i # j => part[i] \cap part[j] = {}
    <3> SUFFICES ASSUME NEW i \in sound, NEW j \in sound, i # j PROVE part[i] \cap part[j] = {}
      OBVIOUS
    <3>1. i < j \/ j < i
      BY <2>1
    <3> HIDE DEF part
    <3> QED BY <2>4, <3>1
  <2>6. \A i \in sound : settlements[i].amount = Cardinality(part[i])
    BY <2>1 DEF PayInv, Earned, ItemsPriced, Doubtful
  <2> HIDE DEF part
  <2>7. UNION {Units(i) : i \in sound} = UNION {{i} \X (1..Cardinality(part[i])) : i \in sound}
    BY <2>6 DEF Units
  <2> DEFINE paid     == UNION {Units(i) : i \in sound}
             doubtful == UNION {Units(i) : i \in Owed \cap Doubtful}
             earned   == Ended
  <2> HIDE DEF sound
  <2>8. IsFiniteSet(paid) /\ Cardinality(paid) <= Cardinality(earned)
    BY <2>2, <2>3, <2>5, <2>7, ApartFit
  <2>9. IsFiniteSet(doubtful)
    BY <2>1, UnitsFinite
  <2>10. UNION {Units(i) : i \in Owed} = paid \cup doubtful
    BY DEF sound
  <2>11. /\ RemainingBalance = Cardinality(earned) - Cardinality(paid \cup doubtful)
         /\ Paid(Owed \cap Doubtful) = Cardinality(doubtful) /\ IsFiniteSet(earned)
    BY <2>2, <2>10 DEF RemainingBalance, Paid
  <2> HIDE DEF paid, earned, doubtful
  <2>12. Cardinality(paid \cup doubtful) <= Cardinality(paid) + Cardinality(doubtful)
    <3>1. IsFiniteSet(paid \cap doubtful)
      BY <2>8, FS_Intersection
    <3>2. Cardinality(paid \cup doubtful) = Cardinality(paid) + Cardinality(doubtful) - Cardinality(paid \cap doubtful)
      BY <2>8, <2>9, FS_Union
    <3>3. Cardinality(paid) \in Nat /\ Cardinality(doubtful) \in Nat /\ Cardinality(paid \cap doubtful) \in Nat
      BY <2>8, <2>9, <3>1, FS_CardinalityType
    <3> QED BY <3>2, <3>3
  <2>13. Cardinality(earned) \in Nat /\ Cardinality(paid) \in Nat /\ Cardinality(doubtful) \in Nat
         /\ Cardinality(paid \cup doubtful) \in Nat
    BY <2>8, <2>9, <2>11, FS_CardinalityType, FS_Union
  <2> QED BY <2>8, <2>11, <2>12, <2>13
<1> QED BY SettlementAssumption, <1>1, PayInductive, PTL
=============================================================================
