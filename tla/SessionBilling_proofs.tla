------------------------ MODULE SessionBilling_proofs ------------------------
(***************************************************************************)
(* Theorems about SessionBilling, for any readings, prices, thresholds and *)
(* number of messages handled at once.                                     *)
(***************************************************************************)
EXTENDS SessionBilling, SequenceTheorems, TLAPS

-----------------------------------------------------------------------------
\* Amounts

LEMMA CentsNat ==
  ASSUME NEW x \in Nat, NEW d \in Nat \ {0}
  PROVE  Cents(x, d) \in Nat
<1>1. 2 * x + d \in Nat /\ 2 * d \in Nat \ {0}
  OBVIOUS
<1>2. \A a \in Nat, b \in Nat \ {0} : a \div b \in Nat
  OBVIOUS
<1> QED BY <1>1, <1>2 DEF Cents

LEMMA ProductNat ==
  ASSUME NEW x \in Nat, NEW y \in Nat
  PROVE  x * y \in Nat
OBVIOUS

LEMMA SharesNat ==
  ASSUME NEW wh \in Nat
  PROVE  EnergyCost(wh) \in Nat /\ OwnerOf(wh) \in Nat /\ CommissionOf(wh) \in Nat
<1>1. Price \in Nat /\ CommissionRate \in Nat /\ 10000 - CommissionRate \in Nat
  BY SessionAssumption, CommissionRateAssumption
<1>2. wh * Price \in Nat
  BY <1>1, ProductNat
<1>3. wh * Price * CommissionRate \in Nat /\ wh * Price * (10000 - CommissionRate) \in Nat
  BY <1>1, <1>2, ProductNat
<1> QED BY <1>2, <1>3, CentsNat DEF EnergyCost, OwnerOf, CommissionOf

-----------------------------------------------------------------------------
\* The inductive invariant

\* Where a handler has got to, and what it carries with it: readings it has
\* still to bill, of which the first is above what its copy says is billed.
Handling(c) ==
  /\ pc[c] \in BillingStep \cup {"meter", "finalize", "close"} => left[c] # <<>>
  /\ pc[c] \in {"finalize", "close"} => msg[c].kind = "StopTransaction"
  /\ msg[c].kind = "StopTransaction" => msg[c].readings # <<>>
  /\ pc[c] \in {"stats", "deduct", "update"} => NewEnergy(c) > 0
  /\ pc[c] = "setStatus" => msg[c].status # "AVAILABLE"
  /\ LastBilled(row[c]) >= MeterStart

LocalType ==
  /\ pc \in [Call -> Step]
  /\ msg \in [Call -> Message]
  /\ left \in [Call -> Seq(0..MaxMeter)]
  /\ row \in [Call -> SessionRow]
  /\ after \in [Call -> Nat]

LocalInv == LocalType /\ \A c \in Call : Handling(c)

\* A message the charger may repeat carries a reading.
Repeatable(m) ==
  /\ m \in Message
  /\ m # Nothing => m.kind \in {"MeterValues", "StopTransaction"} /\ m.readings # <<>>

RowInv == session \in SessionRow /\ LastBilled(session) >= MeterStart

TableType ==
  /\ wallet \in [balance : Nat, locked : Nat]
  /\ ledger \subseteq [key : {"user", "owner", "commission"}, amount : Nat]
  /\ timer \in {"NONE", "ACTIVE", "CANCELLED", "EXECUTED"}
  /\ job \in {"none", "delayed", "taken"}
  /\ active \in BOOLEAN

OthersType ==
  /\ fault \in [pc : {"idle", "read", "refund", "close"}, row : SessionRow]
  /\ webhook \in {"idle", "find", "cancel", "clear"}
  /\ worker \in {"idle", "check", "stop", "end", "executed"}

EnvironmentType ==
  /\ meter \in MeterStart..MaxMeter
  /\ charging \in BOOLEAN /\ stopAsked \in BOOLEAN
  /\ Repeatable(last)
  /\ resends \in 0..MaxResends

HistoryType == charged \in Nat /\ repriced \in BOOLEAN /\ topUps \in 0..MaxTopUps

IInv == LocalInv /\ RowInv /\ TableType /\ OthersType /\ EnvironmentType /\ HistoryType

-----------------------------------------------------------------------------
\* Where a handler goes keeps LocalInv

LEMMA BlankType == Blank \in SessionRow /\ LastBilled(Blank) = MeterStart
BY DEF Blank, SessionRow, LastBilled

LEMMA NothingType == Nothing \in Message
BY DEF Nothing, Message

LEMMA ReplyKeeps ==
  ASSUME LocalInv, NEW c \in Call, Reply(c)
  PROVE  LocalInv'
<1>1. "idle" \in Step /\ <<>> \in Seq(0..MaxMeter)
  BY DEF Step
<1>2. MeterStart \in Nat
  BY SessionAssumption
<1>3. LocalType'
  BY <1>1, BlankType, NothingType DEF LocalInv, LocalType, Reply, Goto
<1>4. ASSUME NEW d \in Call PROVE Handling(d)'
  <2>1. CASE d = c
    <3>1. /\ pc'[d] = "idle" /\ msg'[d] = Nothing /\ row'[d] = Blank
      BY <2>1 DEF LocalInv, LocalType, Reply, Goto
    <3>2. LastBilled(row'[d]) >= MeterStart
      BY <3>1, <1>2, BlankType
    <3> QED BY <3>1, <3>2 DEF Handling, LastBilled, BillingStep, Nothing
  <2>2. CASE d # c
    <3>1. /\ pc'[d] = pc[d] /\ msg'[d] = msg[d] /\ row'[d] = row[d] /\ left'[d] = left[d]
      BY <2>2 DEF LocalInv, LocalType, Reply, Goto
    <3> QED BY <3>1 DEF LocalInv, Handling, LastBilled, NewEnergy, Reading
  <2> QED BY <2>1, <2>2
<1> QED BY <1>3, <1>4 DEF LocalInv

LEMMA ContinueKeeps ==
  ASSUME LocalInv, NEW c \in Call, NEW step \in Step, Continue(c, step),
         step \in BillingStep \cup {"meter", "finalize", "close"} => left[c] # <<>>,
         step \in {"finalize", "close"} => msg[c].kind = "StopTransaction",
         step = "setStatus" => msg[c].status # "AVAILABLE",
         step \in {"stats", "deduct", "update"} => NewEnergy(c) > 0
  PROVE  LocalInv'
<1>1. LocalType'
  BY DEF LocalInv, LocalType, Continue, Goto, locals
<1>2. ASSUME NEW d \in Call PROVE Handling(d)'
  <2>1. /\ msg'[d] = msg[d] /\ row'[d] = row[d] /\ left'[d] = left[d]
        /\ pc'[d] = IF d = c THEN step ELSE pc[d]
    BY DEF LocalInv, LocalType, Continue, Goto, locals
  <2> QED BY <2>1 DEF LocalInv, Handling, LastBilled, NewEnergy, Reading
<1> QED BY <1>1, <1>2 DEF LocalInv

LEMMA ReadRowKeeps ==
  ASSUME LocalInv, RowInv, NEW c \in Call, NEW step \in Step \ {"meter", "finalize", "close", "setStatus"},
         ReadRow(c, step),
         step \in BillingStep => left[c] # <<>>,
         step \in {"stats", "deduct", "update"} => Reading(c) - LastBilled(session) > 0
  PROVE  LocalInv'
<1>1. LocalType'
  BY DEF LocalInv, LocalType, ReadRow, Goto, RowInv
<1>2. ASSUME NEW d \in Call PROVE Handling(d)'
  <2>1. /\ msg'[d] = msg[d] /\ left'[d] = left[d]
        /\ pc'[d] = IF d = c THEN step ELSE pc[d]
        /\ row'[d] = IF d = c THEN session ELSE row[d]
    BY DEF LocalInv, LocalType, ReadRow, Goto
  <2> QED BY <2>1 DEF LocalInv, RowInv, Handling, LastBilled, NewEnergy, Reading
<1> QED BY <1>1, <1>2 DEF LocalInv

LEMMA PredNotZero ==
  ASSUME NEW n \in Nat, n > 1
  PROVE  n - 1 # 0
OBVIOUS

LEMMA BillingReturnsKeeps ==
  ASSUME LocalInv, NEW c \in Call, left[c] # <<>>, BillingReturns(c)
  PROVE  LocalInv'
<1>1. CASE Len(left[c]) > 1
  <2>1. Tail(left[c]) \in Seq(0..MaxMeter) /\ Tail(left[c]) # <<>>
    <3>1. left[c] \in Seq(0..MaxMeter) /\ Len(left[c]) \in Nat
      BY DEF LocalInv, LocalType
    <3>2. /\ Tail(left[c]) \in Seq(0..MaxMeter)
          /\ Len(Tail(left[c])) = Len(left[c]) - 1
      BY <3>1, HeadTailProperties
    <3>3. Len(Tail(left[c])) # 0
      BY <1>1, <3>1, <3>2, PredNotZero, Zenon
    <3>4. Len(<<>>) = 0
      BY EmptySeq
    <3> QED BY <3>2, <3>3, <3>4
  <2>2. /\ pc' = [pc EXCEPT ![c] = "read"]
        /\ left' = [left EXCEPT ![c] = Tail(left[c])]
        /\ after' = [after EXCEPT ![c] = 0]
        /\ msg' = msg /\ row' = row
    BY <1>1 DEF BillingReturns, Goto, LocalInv, LocalType
  <2>3. LocalType'
    BY <2>1, <2>2 DEF LocalInv, LocalType, Step, BillingStep
  <2>4. ASSUME NEW d \in Call PROVE Handling(d)'
    <3>1. /\ msg'[d] = msg[d] /\ row'[d] = row[d]
          /\ pc'[d] = IF d = c THEN "read" ELSE pc[d]
          /\ left'[d] = IF d = c THEN Tail(left[c]) ELSE left[d]
      BY <2>2 DEF LocalInv, LocalType
    <3>2. CASE d = c
      BY <2>1, <3>1, <3>2 DEF LocalInv, Handling, LastBilled
    <3>3. CASE d # c
      BY <3>1, <3>3 DEF LocalInv, Handling, LastBilled, NewEnergy, Reading
    <3> QED BY <3>2, <3>3
  <2> QED BY <2>3, <2>4 DEF LocalInv
<1>2. CASE ~(Len(left[c]) > 1) /\ msg[c].kind = "StopTransaction"
  <2>2. /\ pc' = [pc EXCEPT ![c] = "finalize"]
        /\ after' = [after EXCEPT ![c] = 0]
        /\ msg' = msg /\ row' = row /\ left' = left
    BY <1>2 DEF BillingReturns, Goto
  <2>3. LocalType'
    BY <2>2 DEF LocalInv, LocalType, Step
  <2>4. ASSUME NEW d \in Call PROVE Handling(d)'
    <3>1. /\ msg'[d] = msg[d] /\ row'[d] = row[d] /\ left'[d] = left[d]
          /\ pc'[d] = IF d = c THEN "finalize" ELSE pc[d]
      BY <2>2 DEF LocalInv, LocalType
    <3> QED BY <1>2, <3>1 DEF LocalInv, Handling, LastBilled, NewEnergy, Reading
  <2> QED BY <2>3, <2>4 DEF LocalInv
<1>3. CASE ~(Len(left[c]) > 1) /\ msg[c].kind # "StopTransaction"
  BY <1>3, ReplyKeeps DEF BillingReturns
<1> QED BY <1>1, <1>2, <1>3

-----------------------------------------------------------------------------
\* Frames

\* A step that leaves a part alone keeps it.
LEMMA LocalFrame ==
  ASSUME LocalInv, UNCHANGED <<pc, locals>>
  PROVE  LocalInv'
<1>1. LocalType'
  BY DEF LocalInv, LocalType, locals
<1>2. ASSUME NEW d \in Call PROVE Handling(d)'
  BY DEF LocalInv, Handling, LastBilled, NewEnergy, Reading, locals
<1> QED BY <1>1, <1>2 DEF LocalInv

LEMMA RowFrame ==
  ASSUME RowInv, UNCHANGED session
  PROVE  RowInv'
BY DEF RowInv, LastBilled

LEMMA TableFrame ==
  ASSUME TableType, UNCHANGED <<wallet, ledger, timer, job, active>>
  PROVE  TableType'
BY DEF TableType

LEMMA OthersFrame ==
  ASSUME OthersType, UNCHANGED others
  PROVE  OthersType'
BY DEF OthersType, others

LEMMA EnvironmentFrame ==
  ASSUME EnvironmentType, UNCHANGED <<charger, stopAsked>>
  PROVE  EnvironmentType'
BY DEF EnvironmentType, charger, Repeatable

LEMMA HistoryFrame ==
  ASSUME HistoryType, UNCHANGED history
  PROVE  HistoryType'
BY DEF HistoryType, history

\* What a handler carries, spelled out for one of them.
LEMMA OfHandler ==
  ASSUME LocalInv, NEW c \in Call
  PROVE  /\ pc[c] \in Step /\ msg[c] \in Message /\ left[c] \in Seq(0..MaxMeter)
         /\ row[c] \in SessionRow /\ after[c] \in Nat
         /\ Handling(c)
BY DEF LocalInv, LocalType

LEMMA ReadingNat ==
  ASSUME LocalInv, NEW c \in Call, left[c] # <<>>
  PROVE  Reading(c) \in 0..MaxMeter
<1>1. left[c] \in Seq(0..MaxMeter)
  BY OfHandler
<1>2. Head(left[c]) \in 0..MaxMeter
  BY <1>1, HeadTailProperties
<1> QED BY <1>2 DEF Reading

\* The reading that is being billed.
LEMMA Billable ==
  ASSUME LocalInv, NEW c \in Call, pc[c] \in {"stats", "deduct", "update"}
  PROVE  /\ left[c] # <<>>
         /\ Reading(c) \in Nat /\ Reading(c) > MeterStart
         /\ NewEnergy(c) \in Nat /\ NewEnergy(c) > 0
         /\ Reading(c) - MeterStart \in Nat
<1>1. Handling(c) /\ row[c] \in SessionRow
  BY OfHandler
<1>2. left[c] # <<>> /\ NewEnergy(c) > 0 /\ LastBilled(row[c]) >= MeterStart
  BY <1>1 DEF Handling, BillingStep
<1>3. Reading(c) \in 0..MaxMeter /\ MeterStart \in Nat /\ MaxMeter \in Nat
  BY <1>2, ReadingNat, SessionAssumption
<1>4. LastBilled(row[c]) \in Nat
  BY <1>1, <1>3 DEF LastBilled, SessionRow
<1> QED BY <1>2, <1>3, <1>4 DEF NewEnergy

-----------------------------------------------------------------------------
\* Steps of a handler that leave the tables alone

LEMMA MoveKeeps ==
  ASSUME IInv, LocalInv',
         UNCHANGED <<tables, active, others, charger, stopAsked, history>>
  PROVE  IInv'
BY RowFrame, TableFrame, OthersFrame, EnvironmentFrame, HistoryFrame DEF tables, IInv

LEMMA BillingReadKeeps ==
  ASSUME IInv, NEW c \in Call, BillingRead(c)
  PROVE  IInv'
<1>1. LocalInv /\ RowInv
  BY DEF IInv
<1>2. left[c] # <<>>
  BY <1>1, OfHandler DEF BillingRead, Handling, BillingStep
<1>3. Reading(c) \in Nat /\ LastBilled(session) \in Nat
  <2>1. Reading(c) \in 0..MaxMeter
    BY <1>1, <1>2, ReadingNat
  <2>2. MeterStart \in Nat /\ MaxMeter \in Nat
    BY SessionAssumption
  <2> QED BY <1>1, <2>1, <2>2 DEF RowInv, LastBilled, SessionRow
<1>4. CASE BillingReturns(c)
  BY <1>1, <1>2, <1>4, BillingReturnsKeeps, MoveKeeps DEF BillingRead
<1>5. CASE ~BillingReturns(c)
  <2> DEFINE step == IF session.user THEN "deduct" ELSE "stats"
  <2>1. ReadRow(c, step) /\ Reading(c) - LastBilled(session) > 0
    BY <1>3, <1>5 DEF BillingRead
  <2>2. step \in Step \ {"meter", "finalize", "close", "setStatus"}
    BY DEF Step, BillingStep
  <2> HIDE DEF step
  <2>3. LocalInv'
    BY <1>1, <1>2, <2>1, <2>2, ReadRowKeeps
  <2> QED BY <2>3, MoveKeeps DEF BillingRead
<1> QED BY <1>4, <1>5

LEMMA PresetCheckKeeps ==
  ASSUME IInv, NEW c \in Call, PresetCheck(c)
  PROVE  IInv'
<1>1. LocalInv /\ RowInv /\ TableType /\ OthersType /\ EnvironmentType /\ HistoryType
  BY DEF IInv
<1>2. left[c] # <<>>
  BY <1>1, OfHandler DEF PresetCheck, Handling, BillingStep
<1>3. LocalInv'
  BY <1>1, <1>2, BillingReturnsKeeps DEF PresetCheck
<1>4. EnvironmentType'
  <2>1. stopAsked' \in BOOLEAN
    <3> DEFINE spent == /\ row[c].preset > 0 /\ charging
                        /\ 1000 * row[c].totalCost + ExactCost(NewEnergy(c)) >= 1000 * row[c].preset
    <3>1. IF spent THEN stopAsked' \in {stopAsked, TRUE} ELSE UNCHANGED stopAsked
      BY Zenon DEF PresetCheck
    <3>2. stopAsked \in BOOLEAN
      BY <1>1 DEF EnvironmentType
    <3> HIDE DEF spent
    <3> QED BY <3>1, <3>2, Zenon
  <2> QED BY <1>1, <2>1 DEF PresetCheck, EnvironmentType, charger, Repeatable
<1>5. RowInv' /\ TableType' /\ OthersType' /\ HistoryType'
  BY <1>1, RowFrame, TableFrame, OthersFrame, HistoryFrame DEF PresetCheck, tables
<1> QED BY <1>3, <1>4, <1>5 DEF IInv

LEMMA FinalizeReadKeeps ==
  ASSUME IInv, NEW c \in Call, FinalizeRead(c)
  PROVE  IInv'
<1> DEFINE step == IF session.ended THEN "settle" ELSE "close"
<1>1. LocalInv /\ Handling(c)
  BY OfHandler DEF IInv
<1>2. /\ Continue(c, step) /\ step \in Step
      /\ msg[c].kind = "StopTransaction" /\ left[c] # <<>>
      /\ step \notin {"stats", "deduct", "update", "setStatus"}
  BY <1>1 DEF FinalizeRead, Handling, Step, SettleStep
<1> HIDE DEF step
<1>3. LocalInv'
  BY <1>1, <1>2, ContinueKeeps
<1> QED BY <1>3, MoveKeeps DEF FinalizeRead

LEMMA SettleKeeps ==
  ASSUME IInv, NEW c \in Call, Settle(c)
  PROVE  IInv'
<1>1. LocalInv /\ RowInv
  BY DEF IInv
<1>2. "settleCancel" \in Step \ {"meter", "finalize", "close", "setStatus"}
  BY DEF Step, SettleStep
<1>3. LocalInv'
  BY <1>1, <1>2, ReadRowKeeps DEF Settle, BillingStep
<1> QED BY <1>3, MoveKeeps DEF Settle

LEMMA PostUserKeeps ==
  ASSUME IInv, NEW c \in Call, PostUser(c)
  PROVE  IInv'
<1> DEFINE step == IF KeyUsed("user") THEN "postOwner" ELSE "createUser"
<1>1. step \in Step /\ step \notin BillingStep \cup {"meter", "finalize", "close", "setStatus"}
  BY DEF Step, SettleStep, BillingStep
<1>2. LocalInv /\ Continue(c, step)
  BY DEF IInv, PostUser
<1> HIDE DEF step
<1>3. LocalInv'
  BY <1>1, <1>2, ContinueKeeps DEF BillingStep
<1> QED BY <1>3, MoveKeeps DEF PostUser

LEMMA StatusReadKeeps ==
  ASSUME IInv, NEW c \in Call, StatusRead(c)
  PROVE  IInv'
<1>1. LocalInv /\ "setStatus" \in Step
  BY DEF IInv, Step
<1>2. CASE Reply(c)
  BY <1>1, <1>2, ReplyKeeps, MoveKeeps DEF StatusRead
<1>3. CASE Continue(c, "setStatus") /\ msg[c].status # "AVAILABLE"
  <2>1. LocalInv'
    BY <1>1, <1>3, ContinueKeeps DEF BillingStep
  <2> QED BY <2>1, MoveKeeps DEF StatusRead
<1> QED BY <1>2, <1>3 DEF StatusRead

LEMMA FindFaultedKeeps ==
  ASSUME IInv, NEW c \in Call, FindFaulted(c)
  PROVE  IInv'
<1>1. LocalInv /\ RowInv /\ TableType /\ OthersType /\ EnvironmentType /\ HistoryType
  BY DEF IInv
<1>2. LocalInv'
  BY <1>1, ContinueKeeps DEF FindFaulted, BillingStep, Step
<1>3. OthersType'
  BY <1>1 DEF FindFaulted, OthersType
<1>4. RowInv' /\ TableType' /\ EnvironmentType' /\ HistoryType'
  BY <1>1, RowFrame, TableFrame, EnvironmentFrame, HistoryFrame DEF FindFaulted, tables
<1> QED BY <1>2, <1>3, <1>4 DEF IInv

LEMMA ResetStateKeeps ==
  ASSUME IInv, NEW c \in Call, ResetState(c)
  PROVE  IInv'
<1>1. LocalInv /\ RowInv /\ TableType /\ OthersType /\ EnvironmentType /\ HistoryType
  BY DEF IInv
<1>2. LocalInv'
  BY <1>1, ReplyKeeps DEF ResetState
<1>3. TableType'
  BY <1>1 DEF ResetState, TableType, tables
<1>4. RowInv' /\ OthersType' /\ EnvironmentType' /\ HistoryType'
  BY <1>1, RowFrame, OthersFrame, EnvironmentFrame, HistoryFrame DEF ResetState, tables
<1> QED BY <1>2, <1>3, <1>4 DEF IInv

LEMMA ThrowsKeeps ==
  ASSUME IInv, NEW c \in Call, Throws(c)
  PROVE  IInv'
<1>1. LocalInv /\ RowInv /\ TableType /\ OthersType /\ EnvironmentType /\ HistoryType
  BY DEF IInv
<1>2. Handling(c) /\ "read" \in Step /\ "reset" \in Step
  BY <1>1, OfHandler DEF Step, BillingStep
<1>3. LocalInv'
  <2>1. CASE pc[c] = "meter" /\ Continue(c, "read")
    <3>1. left[c] # <<>>
      BY <1>2, <2>1 DEF Handling
    <3> QED BY <1>1, <1>2, <2>1, <3>1, ContinueKeeps
  <2>2. CASE pc[c] \in BillingStep /\ BillingReturns(c)
    BY <1>1, <1>2, <2>2, BillingReturnsKeeps DEF Handling
  <2>3. CASE Reply(c)
    BY <1>1, <2>3, ReplyKeeps
  <2>4. CASE Continue(c, "reset")
    BY <1>1, <1>2, <2>4, ContinueKeeps DEF BillingStep
  <2> QED BY <2>1, <2>2, <2>3, <2>4 DEF Throws
<1>4. TableType'
  BY <1>1 DEF Throws, TableType, tables
<1>5. RowInv' /\ OthersType' /\ EnvironmentType' /\ HistoryType'
  BY <1>1, RowFrame, OthersFrame, EnvironmentFrame, HistoryFrame DEF Throws, tables
<1> QED BY <1>3, <1>4, <1>5 DEF IInv

-----------------------------------------------------------------------------
\* Billing

\* The row and a handler's own state change, nothing else does.
LEMMA WriteKeeps ==
  ASSUME IInv, LocalInv', RowInv',
         UNCHANGED <<wallet, ledger, timer, job, active, others, charger, stopAsked, history>>
  PROVE  IInv'
BY TableFrame, OthersFrame, EnvironmentFrame, HistoryFrame DEF IInv

\* The grace timer and a handler's own state change, nothing else does.
LEMMA TimerKeeps ==
  ASSUME IInv, LocalInv', StartTimer \/ CancelTimer,
         UNCHANGED <<session, wallet, ledger, active, others, charger, stopAsked, history>>
  PROVE  IInv'
<1>1. TableType'
  BY DEF IInv, TableType, StartTimer, CancelTimer
<1> QED BY <1>1, RowFrame, OthersFrame, EnvironmentFrame, HistoryFrame DEF IInv

LEMMA Max0Nat ==
  ASSUME NEW x \in Int
  PROVE  Max0(x) \in Nat
BY DEF Max0

LEMMA UpdateSessionMeterKeeps ==
  ASSUME IInv, NEW c \in Call, UpdateSessionMeter(c)
  PROVE  IInv'
<1>1. LocalInv /\ RowInv /\ left[c] # <<>>
  BY OfHandler DEF IInv, UpdateSessionMeter, Handling
<1>2. LocalInv'
  <2>1. "read" \in Step
    BY DEF Step, BillingStep
  <2> QED BY <1>1, <2>1, ContinueKeeps DEF UpdateSessionMeter
<1>3. RowInv'
  <2>1. Reading(c) \in 0..MaxMeter /\ MaxMeter \in Nat /\ MeterStart \in Nat
    BY <1>1, ReadingNat, SessionAssumption
  <2>2. Max0(Reading(c) - MeterStart) \in Nat
    BY <2>1, Max0Nat
  <2> QED BY <1>1, <2>2 DEF UpdateSessionMeter, RowInv, SessionRow, LastBilled
<1> QED BY <1>2, <1>3, WriteKeeps DEF UpdateSessionMeter

LEMMA SumNat ==
  ASSUME NEW x \in Nat, NEW y \in Nat
  PROVE  x + y \in Nat
OBVIOUS

LEMMA RowFields ==
  ASSUME NEW s \in SessionRow
  PROVE  s.totalCost \in Nat /\ s.owner \in Nat /\ s.commission \in Nat /\ s.lastBilled \in Nat
BY DEF SessionRow

LEMMA BilledRow ==
  ASSUME NEW s \in SessionRow, NEW r \in Nat, NEW e \in Nat, NEW t \in Nat, r > MeterStart
  PROVE  LET b == [s EXCEPT !.lastBilled = r, !.energyUsed = e, !.totalCost = t]
         IN  b \in SessionRow /\ LastBilled(b) >= MeterStart
<1> DEFINE b == [s EXCEPT !.lastBilled = r, !.energyUsed = e, !.totalCost = t]
<1>1. b \in SessionRow /\ b.lastBilled = r
  BY DEF SessionRow
<1>2. LastBilled(b) >= MeterStart
  BY <1>1, SessionAssumption DEF LastBilled
<1> QED BY <1>1, <1>2

LEMMA SharedRow ==
  ASSUME NEW s \in SessionRow, LastBilled(s) >= MeterStart, NEW o \in Nat, NEW k \in Nat
  PROVE  LET b == [s EXCEPT !.owner = o, !.commission = k]
         IN  b \in SessionRow /\ LastBilled(b) >= MeterStart
<1> DEFINE b == [s EXCEPT !.owner = o, !.commission = k]
<1>1. b \in SessionRow /\ b.lastBilled = s.lastBilled
  BY DEF SessionRow
<1>2. LastBilled(b) >= MeterStart
  BY <1>1 DEF LastBilled
<1> QED BY <1>1, <1>2

LEMMA BillingStatsKeeps ==
  ASSUME IInv, NEW c \in Call, BillingStats(c)
  PROVE  IInv'
<1>1. LocalInv /\ RowInv /\ row[c] \in SessionRow
  BY OfHandler DEF IInv
<1>2. /\ left[c] # <<>> /\ Reading(c) \in Nat /\ Reading(c) > MeterStart
      /\ Reading(c) - MeterStart \in Nat /\ EnergyCost(NewEnergy(c)) \in Nat
  BY <1>1, Billable, SharesNat DEF BillingStats
<1>3. LocalInv'
  BY <1>1, <1>2, BillingReturnsKeeps DEF BillingStats
<1>4. RowInv'
  <2> DEFINE total == row[c].totalCost + EnergyCost(NewEnergy(c))
             used  == Reading(c) - MeterStart
             billed == [session EXCEPT !.lastBilled = Reading(c), !.energyUsed = used, !.totalCost = total]
  <2>1. total \in Nat /\ used \in Nat
    BY <1>1, <1>2, RowFields, SumNat
  <2>2. session' = billed /\ session \in SessionRow
    BY <1>1 DEF BillingStats, RowInv
  <2> HIDE DEF total, used
  <2>3. billed \in SessionRow /\ LastBilled(billed) >= MeterStart
    BY <1>2, <2>1, <2>2, BilledRow
  <2> QED BY <2>2, <2>3 DEF RowInv, LastBilled
<1> QED BY <1>3, <1>4, WriteKeeps DEF BillingStats

LEMMA BillingUpdateKeeps ==
  ASSUME IInv, NEW c \in Call, BillingUpdate(c)
  PROVE  IInv'
<1> DEFINE wh == NewEnergy(c)
           step == IF after[c] > 0 /\ after[c] <= GraceThreshold /\ ~row[c].grace THEN "startGrace"
                   ELSE IF after[c] > GraceThreshold /\ after[c] > LowThreshold THEN "cancelGrace"
                   ELSE "preset"
<1>1. LocalInv /\ RowInv /\ row[c] \in SessionRow
  BY OfHandler DEF IInv
<1>2. /\ left[c] # <<>> /\ Reading(c) \in Nat /\ Reading(c) > MeterStart
      /\ Reading(c) - MeterStart \in Nat
      /\ EnergyCost(wh) \in Nat /\ OwnerOf(wh) \in Nat /\ CommissionOf(wh) \in Nat
  BY <1>1, Billable, SharesNat DEF BillingUpdate
<1>3. LocalInv'
  <2>1. step \in {"startGrace", "cancelGrace", "preset"}
    OBVIOUS
  <2>2. BillingReturns(c) \/ Continue(c, step)
    BY DEF BillingUpdate
  <2> HIDE DEF step
  <2>3. step \in Step /\ step \notin {"finalize", "close", "stats", "deduct", "update", "setStatus"}
    BY <2>1 DEF Step, BillingStep
  <2> QED BY <1>1, <1>2, <2>2, <2>3, BillingReturnsKeeps, ContinueKeeps
<1>4. RowInv'
  <2> DEFINE total == row[c].totalCost + EnergyCost(wh)
             owner == row[c].owner + OwnerOf(wh)
             commission == row[c].commission + CommissionOf(wh)
             used  == Reading(c) - MeterStart
             billed == [session EXCEPT !.lastBilled = Reading(c), !.energyUsed = used, !.totalCost = total]
             shared == [billed EXCEPT !.owner = owner, !.commission = commission]
  <2>1. total \in Nat /\ owner \in Nat /\ commission \in Nat /\ used \in Nat
    BY <1>1, <1>2, RowFields, SumNat
  <2>2. session \in SessionRow
    BY <1>1 DEF RowInv
  <2>3. session' = [session EXCEPT
            !.lastBilled = Reading(c), !.energyUsed = used, !.totalCost  = total,
            !.owner = owner, !.commission = commission]
    BY DEF BillingUpdate
  <2> HIDE DEF total, owner, commission, used
  <2>4. session' = shared
    BY <2>2, <2>3 DEF SessionRow
  <2>5. billed \in SessionRow /\ LastBilled(billed) >= MeterStart
    BY <1>2, <2>1, <2>2, BilledRow
  <2> HIDE DEF billed
  <2>6. shared \in SessionRow /\ LastBilled(shared) >= MeterStart
    BY <2>1, <2>5, SharedRow
  <2> QED BY <2>4, <2>6 DEF RowInv, LastBilled
<1> QED BY <1>3, <1>4, WriteKeeps DEF BillingUpdate

\* The money taken is in the wallet.
LEMMA DeductMoney ==
  ASSUME TableType, HistoryType, NEW c \in Call, Deduct(c), EnergyCost(NewEnergy(c)) \in Nat
  PROVE  TableType' /\ HistoryType'
<1> DEFINE cost == EnergyCost(NewEnergy(c))
<1>1. /\ wallet \in [balance : Nat, locked : Nat] /\ charged \in Nat
      /\ UNCHANGED <<ledger, timer, job, active, repriced, topUps>>
  BY DEF TableType, HistoryType, Deduct
<1>2. \/ UNCHANGED <<wallet, charged>>
      \/ /\ wallet.balance >= cost
         /\ wallet' = [wallet EXCEPT !.balance = @ - cost]
         /\ charged' = charged + cost
  BY DEF Deduct, CanPay
<1> HIDE DEF cost
<1>3. cost \in Nat
  BY DEF cost
<1>4. wallet' \in [balance : Nat, locked : Nat] /\ charged' \in Nat
  <2>1. CASE UNCHANGED <<wallet, charged>>
    BY <1>1, <2>1
  <2>2. CASE /\ wallet.balance >= cost
             /\ wallet' = [wallet EXCEPT !.balance = @ - cost]
             /\ charged' = charged + cost
    <3>1. wallet.balance - cost \in Nat /\ charged + cost \in Nat
      BY <1>1, <1>3, <2>2
    <3> QED BY <1>1, <2>2, <3>1
  <2> QED BY <1>2, <2>1, <2>2
<1> QED BY <1>1, <1>4 DEF TableType, HistoryType

LEMMA DeductKeeps ==
  ASSUME IInv, NEW c \in Call, Deduct(c)
  PROVE  IInv'
<1>1. LocalInv /\ RowInv /\ TableType /\ OthersType /\ EnvironmentType /\ HistoryType
  BY DEF IInv
<1>2. /\ pc[c] = "deduct" /\ left[c] # <<>> /\ NewEnergy(c) > 0
      /\ EnergyCost(NewEnergy(c)) \in Nat
  BY <1>1, Billable, SharesNat DEF Deduct
<1>3. "update" \in Step /\ "startGrace" \in Step
  BY DEF Step, BillingStep
<1>4. LocalInv'
  <2>1. CASE BillingReturns(c)
    BY <1>1, <1>2, <2>1, BillingReturnsKeeps
  <2>2. CASE Continue(c, "update") \/ Continue(c, "startGrace")
    BY <1>1, <1>2, <1>3, <2>2, ContinueKeeps
  <2>3. CASE /\ Goto(c, "update")
             /\ after' = [after EXCEPT ![c] = wallet.balance - EnergyCost(NewEnergy(c))]
             /\ UNCHANGED <<msg, left, row>>
             /\ CanPay(EnergyCost(NewEnergy(c)))
    <3>1. wallet.balance - EnergyCost(NewEnergy(c)) \in Nat
      BY <1>1, <1>2, <2>3 DEF CanPay, TableType
    <3>2. LocalType'
      BY <1>1, <1>3, <2>3, <3>1 DEF LocalInv, LocalType, Goto
    <3>3. ASSUME NEW d \in Call PROVE Handling(d)'
      <4>1. /\ msg'[d] = msg[d] /\ row'[d] = row[d] /\ left'[d] = left[d]
            /\ pc'[d] = IF d = c THEN "update" ELSE pc[d]
        BY <1>1, <2>3 DEF LocalInv, LocalType, Goto
      <4> QED BY <1>1, <1>2, <4>1 DEF LocalInv, Handling, LastBilled, NewEnergy, Reading
    <3> QED BY <3>2, <3>3 DEF LocalInv
  <2> QED BY <2>1, <2>2, <2>3 DEF Deduct
<1>5. TableType' /\ HistoryType'
  BY <1>1, <1>2, DeductMoney
<1>6. RowInv' /\ OthersType' /\ EnvironmentType'
  BY <1>1, RowFrame, OthersFrame, EnvironmentFrame DEF Deduct
<1> QED BY <1>4, <1>5, <1>6 DEF IInv

LEMMA StartGraceKeeps ==
  ASSUME IInv, NEW c \in Call, StartGrace(c)
  PROVE  IInv'
<1>1. LocalInv /\ left[c] # <<>> /\ "markGrace" \in Step
  BY OfHandler DEF IInv, StartGrace, Handling, BillingStep, Step
<1>2. LocalInv'
  BY <1>1, ContinueKeeps DEF StartGrace
<1> QED BY <1>2, TimerKeeps DEF StartGrace

LEMMA GraceFlagKeeps ==
  ASSUME RowInv, NEW b \in BOOLEAN, session' = [session EXCEPT !.grace = b]
  PROVE  RowInv'
BY DEF RowInv, SessionRow, LastBilled

LEMMA MarkGraceKeeps ==
  ASSUME IInv, NEW c \in Call, MarkGrace(c)
  PROVE  IInv'
<1>1. LocalInv /\ RowInv /\ left[c] # <<>> /\ "preset" \in Step
  BY OfHandler DEF IInv, MarkGrace, Handling, BillingStep, Step
<1>2. LocalInv'
  BY <1>1, BillingReturnsKeeps, ContinueKeeps DEF MarkGrace
<1>3. RowInv'
  BY <1>1, GraceFlagKeeps DEF MarkGrace
<1> QED BY <1>2, <1>3, WriteKeeps DEF MarkGrace

LEMMA CancelGraceKeeps ==
  ASSUME IInv, NEW c \in Call, CancelGrace(c)
  PROVE  IInv'
<1>1. LocalInv /\ left[c] # <<>> /\ "preset" \in Step
  BY OfHandler DEF IInv, CancelGrace, Handling, BillingStep, Step
<1>2. LocalInv'
  BY <1>1, ContinueKeeps DEF CancelGrace
<1> QED BY <1>2, TimerKeeps DEF CancelGrace

-----------------------------------------------------------------------------
\* Stopping

LEMMA FinalizeCloseKeeps ==
  ASSUME IInv, NEW c \in Call, FinalizeClose(c)
  PROVE  IInv'
<1>1. LocalInv /\ RowInv /\ msg[c] \in Message /\ Handling(c) /\ "settle" \in Step
  BY OfHandler DEF IInv, Step, SettleStep
<1>2. LocalInv'
  BY <1>1, ContinueKeeps DEF FinalizeClose, BillingStep
<1>3. RowInv'
  <2>1. msg[c].readings \in Seq(0..MaxMeter) /\ msg[c].readings # <<>>
    BY <1>1 DEF FinalizeClose, Handling, Message
  <2>2. MeterStop(c) \in 0..MaxMeter
    <3>1. Len(msg[c].readings) \in 1..Len(msg[c].readings)
      BY <2>1, EmptySeq
    <3> QED BY <2>1, <3>1, ElementOfSeq DEF MeterStop
  <2>3. MeterStart \in Nat /\ MaxMeter \in Nat
    BY SessionAssumption
  <2>4. Max0(MeterStop(c) - MeterStart) \in Nat
    BY <2>2, <2>3, Max0Nat
  <2> QED BY <1>1, <2>4 DEF FinalizeClose, RowInv, SessionRow, LastBilled
<1> QED BY <1>2, <1>3, WriteKeeps DEF FinalizeClose

LEMMA SettleCancelKeeps ==
  ASSUME IInv, NEW c \in Call, SettleCancel(c)
  PROVE  IInv'
<1>1. LocalInv /\ "clearGrace" \in Step
  BY DEF IInv, Step, SettleStep
<1>2. LocalInv'
  BY <1>1, ContinueKeeps DEF SettleCancel, BillingStep
<1> QED BY <1>2, TimerKeeps DEF SettleCancel

LEMMA ClearGraceKeeps ==
  ASSUME IInv, NEW c \in Call, ClearGrace(c)
  PROVE  IInv'
<1> DEFINE step == IF row[c].totalCost > 0 /\ row[c].user THEN "postUser" ELSE "unlock"
<1>1. /\ LocalInv /\ RowInv /\ Continue(c, step)
      /\ step \in Step /\ step \notin BillingStep \cup {"meter", "finalize", "close", "setStatus"}
  BY DEF IInv, ClearGrace, Step, SettleStep, BillingStep
<1> HIDE DEF step
<1>2. LocalInv'
  BY <1>1, ContinueKeeps DEF BillingStep
<1>3. RowInv'
  BY <1>1, GraceFlagKeeps DEF ClearGrace
<1> QED BY <1>2, <1>3, WriteKeeps DEF ClearGrace

\* A posting and a handler's own state change, nothing else does.
LEMMA PostKeeps ==
  ASSUME IInv, LocalInv', NEW key \in {"user", "owner", "commission"}, NEW amount \in Nat,
         Post(key, amount) \/ UNCHANGED ledger,
         UNCHANGED <<session, wallet, timer, job, active, others, charger, stopAsked, history>>
  PROVE  IInv'
<1>1. TableType'
  BY DEF IInv, TableType, Post
<1> QED BY <1>1, RowFrame, OthersFrame, EnvironmentFrame, HistoryFrame DEF IInv

LEMMA CreateUserKeeps ==
  ASSUME IInv, NEW c \in Call, CreateUser(c)
  PROVE  IInv'
<1>1. LocalInv /\ row[c].totalCost \in Nat /\ "reset" \in Step /\ "postOwner" \in Step
  BY OfHandler, RowFields DEF IInv, Step, SettleStep
<1>2. LocalInv'
  BY <1>1, ContinueKeeps DEF CreateUser, BillingStep
<1> QED BY <1>1, <1>2, PostKeeps DEF CreateUser

LEMMA PostOwnerKeeps ==
  ASSUME IInv, NEW c \in Call, PostOwner(c)
  PROVE  IInv'
<1>1. LocalInv /\ row[c].owner \in Nat /\ "postCommission" \in Step
  BY OfHandler, RowFields DEF IInv, Step, SettleStep
<1>2. LocalInv'
  BY <1>1, ContinueKeeps DEF PostOwner, PostShare, BillingStep
<1> QED BY <1>1, <1>2, PostKeeps DEF PostOwner, PostShare

LEMMA PostCommissionKeeps ==
  ASSUME IInv, NEW c \in Call, PostCommission(c)
  PROVE  IInv'
<1>1. LocalInv /\ row[c].commission \in Nat /\ "unlock" \in Step
  BY OfHandler, RowFields DEF IInv, Step, SettleStep
<1>2. LocalInv'
  BY <1>1, ContinueKeeps DEF PostCommission, PostShare, BillingStep
<1> QED BY <1>1, <1>2, PostKeeps DEF PostCommission, PostShare

LEMMA UnlockKeeps ==
  ASSUME IInv, NEW c \in Call, Unlock(c)
  PROVE  IInv'
<1>1. LocalInv /\ RowInv /\ TableType /\ OthersType /\ EnvironmentType /\ HistoryType
  BY DEF IInv
<1>2. row[c].preset \in Nat /\ "reset" \in Step
  BY <1>1, OfHandler DEF SessionRow, Step
<1>3. LocalInv'
  BY <1>1, <1>2, ContinueKeeps DEF Unlock, BillingStep
<1>4. TableType'
  <2>1. wallet \in [balance : Nat, locked : Nat]
    BY <1>1 DEF TableType
  <2>2. Max0(wallet.locked - row[c].preset) \in Nat
    BY <1>2, <2>1, Max0Nat
  <2>3. wallet' \in [balance : Nat, locked : Nat]
    BY <2>1, <2>2 DEF Unlock
  <2> QED BY <1>1, <2>3 DEF Unlock, TableType
<1>5. RowInv' /\ OthersType' /\ EnvironmentType' /\ HistoryType'
  BY <1>1, RowFrame, OthersFrame, EnvironmentFrame, HistoryFrame DEF Unlock
<1> QED BY <1>3, <1>4, <1>5 DEF IInv

LEMMA SetStatusKeeps ==
  ASSUME IInv, NEW c \in Call, SetStatus(c)
  PROVE  IInv'
<1>1. LocalInv /\ RowInv /\ msg[c] \in Message /\ msg[c].status # "AVAILABLE"
  BY OfHandler DEF IInv, SetStatus, Handling
<1>2. LocalInv'
  BY <1>1, ReplyKeeps DEF SetStatus
<1>3. msg[c].status \in {"CHARGING", "SUSPENDED", "FINISHING", "FAULTED"}
  BY <1>1, SessionAssumption DEF Message
<1>4. RowInv'
  BY <1>1, <1>3 DEF SetStatus, RowInv, SessionRow, LastBilled
<1> QED BY <1>2, <1>4, WriteKeeps DEF SetStatus

-----------------------------------------------------------------------------
\* The charger

LEMMA DeliverKeeps ==
  ASSUME IInv, NEW c \in Call, NEW m \in Message, Deliver(c, m),
         m.kind # "none",
         m.kind \in {"MeterValues", "StopTransaction"} => m.readings # <<>>
  PROVE  LocalInv'
<1>1. LocalInv /\ m.readings \in Seq(0..MaxMeter)
  BY DEF IInv, Message
<1>2. /\ FirstStep(m) \in {"meter", "idle", "read", "find", "status"}
      /\ FirstStep(m) \in {"meter", "read"} => m.kind \in {"MeterValues", "StopTransaction"}
  BY DEF FirstStep, Message
<1>3. FirstStep(m) \in Step
  BY <1>2 DEF Step, BillingStep
<1>4. LocalType'
  BY <1>1, <1>3 DEF LocalInv, LocalType, Deliver, Goto
<1>5. ASSUME NEW d \in Call PROVE Handling(d)'
  <2>1. CASE d # c \/ FirstStep(m) = "idle"
    <3>1. /\ msg'[d] = msg[d] /\ row'[d] = row[d] /\ left'[d] = left[d]
          /\ pc'[d] = pc[d] \/ pc'[d] = "idle"
      BY <1>1, <2>1 DEF LocalInv, LocalType, Deliver, Goto
    <3> QED BY <1>1, <3>1 DEF LocalInv, Handling, LastBilled, NewEnergy, Reading, BillingStep
  <2>2. CASE d = c /\ FirstStep(m) # "idle"
    <3>1. /\ msg'[d] = m /\ row'[d] = row[d] /\ left'[d] = m.readings
          /\ pc'[d] = FirstStep(m)
      BY <1>1, <2>2 DEF LocalInv, LocalType, Deliver, Goto
    <3> QED BY <1>1, <1>2, <3>1 DEF LocalInv, Handling, LastBilled, BillingStep
  <2> QED BY <2>1, <2>2
<1> QED BY <1>4, <1>5 DEF LocalInv

\* A message delivered and a change of the charger.
LEMMA SentKeeps ==
  ASSUME IInv, NEW c \in Call, NEW m \in Message, Deliver(c, m),
         m.kind # "none",
         m.kind \in {"MeterValues", "StopTransaction"} => m.readings # <<>>,
         EnvironmentType'
  PROVE  IInv'
<1>1. LocalInv'
  BY DeliverKeeps
<1> QED BY <1>1, RowFrame, TableFrame, OthersFrame, HistoryFrame DEF IInv, Deliver, tables

\* What Remember leaves may be repeated.
LEMMA RememberKeeps ==
  ASSUME NEW m \in Message, m.kind \in {"MeterValues", "StopTransaction"}, m.readings # <<>>,
         Remember(m)
  PROVE  Repeatable(last')
BY NothingType DEF Remember, Repeatable

LEMMA MeterBounds ==
  ASSUME EnvironmentType
  PROVE  meter \in 0..MaxMeter /\ Earlier \subseteq 0..MaxMeter
<1>1. MeterStart \in Nat /\ MaxMeter \in Nat
  BY SessionAssumption
<1> QED BY <1>1 DEF EnvironmentType, Earlier

LEMMA SendMeterValuesKeeps ==
  ASSUME IInv, NEW c \in Call, SendMeterValues(c)
  PROVE  IInv'
<1>1. EnvironmentType
  BY DEF IInv
<1>2. PICK w \in {meter} \cup Earlier :
        LET m == [Nothing EXCEPT !.kind = "MeterValues", !.readings = <<w>>]
        IN Deliver(c, m) /\ Remember(m)
  BY DEF SendMeterValues
<1> DEFINE m == [Nothing EXCEPT !.kind = "MeterValues", !.readings = <<w>>]
<1>3. /\ <<w>> \in Seq(0..MaxMeter) /\ <<w>> # <<>>
  BY <1>1, MeterBounds
<1>4. m \in Message /\ m.kind = "MeterValues" /\ m.readings = <<w>>
  BY <1>3 DEF Message, Nothing
<1>5. Deliver(c, m) /\ Remember(m)
  BY <1>2
<1> HIDE DEF m
<1>6. EnvironmentType'
  <2>1. Repeatable(last')
    BY <1>3, <1>4, <1>5, RememberKeeps
  <2>2. UNCHANGED <<meter, charging, stopAsked, resends>>
    BY <1>5 DEF SendMeterValues, Deliver
  <2> QED BY <1>1, <2>1, <2>2 DEF EnvironmentType, Repeatable
<1> QED BY <1>3, <1>4, <1>5, <1>6, SentKeeps

LEMMA StopReadings ==
  ASSUME EnvironmentType, NEW data \in {<<>>} \cup {<<w>> : w \in Earlier}
  PROVE  Append(data, meter) \in Seq(0..MaxMeter) /\ Append(data, meter) # <<>>
<1>1. data \in Seq(0..MaxMeter) /\ meter \in 0..MaxMeter
  <2>1. meter \in 0..MaxMeter /\ Earlier \subseteq 0..MaxMeter
    BY MeterBounds
  <2>2. <<>> \in Seq(0..MaxMeter) /\ \A w \in 0..MaxMeter : <<w>> \in Seq(0..MaxMeter)
    OBVIOUS
  <2>3. CASE data = <<>>
    BY <2>1, <2>2, <2>3
  <2>4. CASE data # <<>>
    <3>1. PICK w \in Earlier : data = <<w>>
      BY <2>4
    <3> QED BY <2>1, <2>2, <3>1
  <2> QED BY <2>3, <2>4
<1> QED BY <1>1, AppendProperties

LEMMA StatusMessage ==
  ASSUME NEW s \in Status, NEW e \in BOOLEAN
  PROVE  LET m == [Nothing EXCEPT !.kind = "StatusNotification", !.status = s, !.error = e]
         IN  m \in Message /\ m.kind = "StatusNotification" /\ m.status = s /\ m.error = e
<1>1. Nothing \in Message
  BY NothingType
<1>2. \A n \in Message :
        LET m == [n EXCEPT !.kind = "StatusNotification", !.status = s, !.error = e]
        IN  m \in Message /\ m.kind = "StatusNotification" /\ m.status = s /\ m.error = e
  BY DEF Message
<1> QED BY <1>1, <1>2

LEMMA SendStopKeeps ==
  ASSUME IInv, NEW c \in Call, SendStop(c)
  PROVE  IInv'
<1>1. EnvironmentType
  BY DEF IInv
<1>2. PICK data \in {<<>>} \cup {<<w>> : w \in Earlier} :
        LET m == [Nothing EXCEPT !.kind = "StopTransaction", !.readings = Append(data, meter)]
        IN Deliver(c, m) /\ Remember(m)
  BY DEF SendStop
<1> DEFINE readings == Append(data, meter)
           m == [Nothing EXCEPT !.kind = "StopTransaction", !.readings = readings]
<1>3. readings \in Seq(0..MaxMeter) /\ readings # <<>>
  BY <1>1, StopReadings
<1>5. Deliver(c, m) /\ Remember(m)
  BY <1>2
<1> HIDE DEF readings
<1>4. m \in Message /\ m.kind = "StopTransaction" /\ m.readings = readings
  BY <1>3 DEF Message, Nothing
<1> HIDE DEF m
<1>6. EnvironmentType'
  <2>1. Repeatable(last')
    BY <1>3, <1>4, <1>5, RememberKeeps
  <2>2. UNCHANGED <<meter, stopAsked, resends>> /\ charging' = FALSE
    BY <1>5 DEF SendStop, Deliver
  <2> QED BY <1>1, <2>1, <2>2 DEF EnvironmentType, Repeatable
<1> QED BY <1>3, <1>4, <1>5, <1>6, SentKeeps

LEMMA SendStatusKeeps ==
  ASSUME IInv, NEW c \in Call, SendStatus(c)
  PROVE  IInv'
<1>1. PICK s \in Status, e \in BOOLEAN :
        Deliver(c, [Nothing EXCEPT !.kind = "StatusNotification", !.status = s, !.error = e])
  BY DEF SendStatus
<1> DEFINE m == [Nothing EXCEPT !.kind = "StatusNotification", !.status = s, !.error = e]
<1>2. m \in Message /\ m.kind = "StatusNotification"
  BY StatusMessage
<1>3. Deliver(c, m)
  BY <1>1
<1> HIDE DEF m
<1>4. EnvironmentType'
  BY <1>3, EnvironmentFrame DEF IInv, SendStatus, Deliver
<1> QED BY <1>2, <1>3, <1>4, SentKeeps

LEMMA ResendKeeps ==
  ASSUME IInv, NEW c \in Call, Resend(c)
  PROVE  IInv'
<1>1. EnvironmentType /\ Deliver(c, last) /\ Remember(last)
  BY DEF IInv, Resend
<1>2. last \in Message /\ last.kind \in {"MeterValues", "StopTransaction"} /\ last.readings # <<>>
  BY <1>1 DEF EnvironmentType, Repeatable, Resend
<1>3. EnvironmentType'
  <2>1. Repeatable(last')
    BY <1>1, <1>2, RememberKeeps
  <2>2. UNCHANGED <<meter, charging, stopAsked>> /\ resends' = resends + 1 /\ resends < MaxResends
    BY <1>1 DEF Resend, Deliver
  <2>3. MaxResends \in Nat
    BY SessionAssumption
  <2> QED BY <1>1, <2>1, <2>2, <2>3 DEF EnvironmentType, Repeatable
<1> QED BY <1>1, <1>2, <1>3, SentKeeps

LEMMA ChargeKeeps ==
  ASSUME IInv, Charge
  PROVE  IInv'
<1>1. LocalInv /\ RowInv /\ TableType /\ OthersType /\ EnvironmentType /\ HistoryType
  BY DEF IInv
<1>2. EnvironmentType'
  <2>1. MeterStart \in Nat /\ MaxMeter \in Nat
    BY SessionAssumption
  <2> QED BY <1>1, <2>1 DEF Charge, EnvironmentType, Repeatable
<1>3. LocalInv' /\ RowInv' /\ TableType' /\ OthersType' /\ HistoryType'
  BY <1>1, LocalFrame, RowFrame, TableFrame, OthersFrame, HistoryFrame DEF Charge, tables
<1> QED BY <1>2, <1>3 DEF IInv

-----------------------------------------------------------------------------
\* The other processes

LEMMA FaultReadKeeps ==
  ASSUME IInv, FaultRead
  PROVE  IInv'
<1>1. LocalInv /\ RowInv /\ TableType /\ OthersType /\ EnvironmentType /\ HistoryType
  BY DEF IInv
<1>2. OthersType'
  BY <1>1, BlankType DEF FaultRead, OthersType, RowInv
<1>3. LocalInv' /\ RowInv' /\ TableType' /\ EnvironmentType' /\ HistoryType'
  BY <1>1, LocalFrame, RowFrame, TableFrame, EnvironmentFrame, HistoryFrame DEF FaultRead, tables
<1> QED BY <1>2, <1>3 DEF IInv

LEMMA FaultRefundKeeps ==
  ASSUME IInv, FaultRefund
  PROVE  IInv'
<1>1. LocalInv /\ RowInv /\ TableType /\ OthersType /\ EnvironmentType /\ HistoryType
  BY DEF IInv
<1>2. OthersType'
  BY <1>1, BlankType DEF FaultRefund, OthersType
<1>3. LocalInv' /\ RowInv' /\ TableType' /\ EnvironmentType' /\ HistoryType'
  BY <1>1, LocalFrame, RowFrame, TableFrame, EnvironmentFrame, HistoryFrame DEF FaultRefund, tables
<1> QED BY <1>2, <1>3 DEF IInv

LEMMA FaultCloseKeeps ==
  ASSUME IInv, FaultClose
  PROVE  IInv'
<1>1. LocalInv /\ RowInv /\ TableType /\ OthersType /\ EnvironmentType /\ HistoryType
  BY DEF IInv
<1>2. EnergyCost(fault.row.energyUsed) \in Nat
  BY <1>1, SharesNat DEF OthersType, SessionRow
<1>3. RowInv'
  BY <1>1, <1>2 DEF FaultClose, RowInv, SessionRow, LastBilled
<1>4. OthersType'
  BY <1>1, BlankType DEF FaultClose, OthersType
<1>5. HistoryType'
  BY <1>1 DEF FaultClose, HistoryType
<1>6. LocalInv' /\ TableType' /\ EnvironmentType'
  BY <1>1, LocalFrame, TableFrame, EnvironmentFrame DEF FaultClose
<1> QED BY <1>3, <1>4, <1>5, <1>6 DEF IInv

LEMMA ListenerKeeps ==
  ASSUME IInv, Listener
  PROVE  IInv'
BY FaultReadKeeps, FaultRefundKeeps, FaultCloseKeeps DEF Listener

LEMMA WebhookKeeps ==
  ASSUME IInv, Webhook
  PROVE  IInv'
<1>1. LocalInv /\ RowInv /\ TableType /\ OthersType /\ EnvironmentType /\ HistoryType
  BY DEF IInv
<1>2. LocalInv' /\ EnvironmentType'
  BY <1>1, LocalFrame, EnvironmentFrame
     DEF Webhook, WebhookTopUp, WebhookFind, WebhookCancel, WebhookClear
<1>3. OthersType'
  BY <1>1 DEF Webhook, WebhookTopUp, WebhookFind, WebhookCancel, WebhookClear, OthersType
<1>4. RowInv'
  <2>1. CASE WebhookClear
    BY <1>1, <2>1, GraceFlagKeeps DEF WebhookClear
  <2>2. CASE WebhookTopUp \/ WebhookFind \/ WebhookCancel
    BY <1>1, <2>2, RowFrame DEF WebhookTopUp, WebhookFind, WebhookCancel, tables
  <2> QED BY <2>1, <2>2 DEF Webhook
<1>5. TableType' /\ HistoryType'
  <2>1. CASE WebhookTopUp
    <3>1. TopUp \in Nat /\ MaxTopUps \in Nat
      BY SessionAssumption
    <3> QED BY <1>1, <2>1, <3>1 DEF WebhookTopUp, TableType, HistoryType
  <2>2. CASE WebhookFind \/ WebhookClear
    BY <1>1, <2>2, TableFrame, HistoryFrame DEF WebhookFind, WebhookClear, tables
  <2>3. CASE WebhookCancel
    BY <1>1, <2>3, HistoryFrame DEF WebhookCancel, CancelTimer, TableType
  <2> QED BY <2>1, <2>2, <2>3 DEF Webhook
<1> QED BY <1>2, <1>3, <1>4, <1>5 DEF IInv

LEMMA GraceWorkerKeeps ==
  ASSUME IInv, GraceWorker
  PROVE  IInv'
<1>1. LocalInv /\ RowInv /\ TableType /\ OthersType /\ EnvironmentType /\ HistoryType
  BY DEF IInv
<1> USE DEF GraceWorker
<1>2. LocalInv' /\ HistoryType'
  BY <1>1, LocalFrame, HistoryFrame
     DEF WorkerTake, WorkerCheck, WorkerStop, WorkerEnd, WorkerExecuted
<1>3. OthersType'
  BY <1>1 DEF WorkerTake, WorkerCheck, WorkerStop, WorkerEnd, WorkerExecuted, OthersType
<1>4. TableType'
  BY <1>1 DEF WorkerTake, WorkerCheck, WorkerStop, WorkerEnd, WorkerExecuted, TableType, tables
<1>5. RowInv'
  <2>1. CASE WorkerEnd
    BY <1>1, <2>1 DEF WorkerEnd, RowInv, SessionRow, LastBilled
  <2>2. CASE ~WorkerEnd
    BY <1>1, <2>2, RowFrame DEF WorkerTake, WorkerCheck, WorkerStop, WorkerExecuted, tables
  <2> QED BY <2>1, <2>2
<1>6. EnvironmentType'
  <2>1. UNCHANGED charger /\ (UNCHANGED stopAsked \/ stopAsked' = TRUE)
    BY DEF WorkerTake, WorkerCheck, WorkerStop, WorkerEnd, WorkerExecuted
  <2> QED BY <1>1, <2>1 DEF EnvironmentType, charger, Repeatable
<1> QED BY <1>2, <1>3, <1>4, <1>5, <1>6 DEF IInv

LEMMA OtherThrowsKeeps ==
  ASSUME IInv, OtherThrows
  PROVE  IInv'
<1>1. LocalInv /\ RowInv /\ TableType /\ OthersType /\ EnvironmentType /\ HistoryType
  BY DEF IInv
<1>2. OthersType' /\ TableType'
  BY <1>1, BlankType DEF OtherThrows, OthersType, TableType
<1>3. LocalInv' /\ RowInv' /\ EnvironmentType' /\ HistoryType'
  BY <1>1, LocalFrame, RowFrame, EnvironmentFrame, HistoryFrame DEF OtherThrows
<1> QED BY <1>2, <1>3 DEF IInv

LEMMA CrashKeeps ==
  ASSUME IInv, Crash
  PROVE  IInv'
<1>1. RowInv /\ TableType /\ OthersType /\ EnvironmentType /\ HistoryType
  BY DEF IInv
<1>2. LocalInv'
  <2>1. "idle" \in Step /\ <<>> \in Seq(0..MaxMeter)
    BY DEF Step
  <2>2. LocalType'
    BY <2>1, BlankType, NothingType DEF Crash, LocalType
  <2>3. ASSUME NEW d \in Call PROVE Handling(d)'
    <3>1. pc'[d] = "idle" /\ msg'[d] = Nothing /\ row'[d] = Blank
      BY DEF Crash
    <3>2. LastBilled(row'[d]) >= MeterStart
      BY <3>1, BlankType, SessionAssumption
    <3> QED BY <3>1, <3>2 DEF Handling, LastBilled, BillingStep, Nothing
  <2> QED BY <2>2, <2>3 DEF LocalInv
<1>3. OthersType' /\ TableType'
  BY <1>1, BlankType DEF Crash, OthersType, TableType
<1>4. RowInv' /\ EnvironmentType' /\ HistoryType'
  BY <1>1, RowFrame, EnvironmentFrame, HistoryFrame DEF Crash
<1> QED BY <1>2, <1>3, <1>4 DEF IInv

-----------------------------------------------------------------------------
\* The invariant

LEMMA InitHolds ==
  ASSUME Init
  PROVE  IInv
<1>1. /\ {MaxMeter, MaxResends, MaxTopUps, MeterStart, Opening, OtherLock} \subseteq Nat
      /\ \A p \in Presets : p \in Nat /\ p + OtherLock \in Nat /\ OtherLock + p \in Nat
  BY SessionAssumption
<1>2. PICK u \in Users, p \in Presets :
        /\ session = [user |-> u, preset |-> p, ended |-> FALSE, grace |-> FALSE,
                      status |-> "CHARGING", lastBilled |-> MeterStart, energyUsed |-> 0,
                      totalCost |-> 0, owner |-> 0, commission |-> 0]
        /\ wallet = [balance |-> Opening, locked |-> OtherLock + p]
  BY DEF Init
<1>3. RowInv
  <2>1. u \in BOOLEAN /\ p \in Nat
    BY <1>1, SessionAssumption
  <2>2. session \in SessionRow /\ session.lastBilled = MeterStart
    BY <1>1, <1>2, <2>1 DEF SessionRow
  <2>3. LastBilled(session) >= MeterStart
    BY <1>1, <2>2 DEF LastBilled
  <2> QED BY <2>2, <2>3 DEF RowInv
<1>4. LocalInv
  <2>1. "idle" \in Step /\ <<>> \in Seq(0..MaxMeter)
    BY DEF Step
  <2>2. LocalType
    BY <2>1, BlankType, NothingType DEF Init, LocalType
  <2>3. ASSUME NEW c \in Call PROVE Handling(c)
    <3>1. pc[c] = "idle" /\ msg[c] = Nothing /\ row[c] = Blank
      BY DEF Init
    <3>2. LastBilled(row[c]) >= MeterStart
      BY <1>1, <3>1, BlankType
    <3> QED BY <3>1, <3>2 DEF Handling, BillingStep, Nothing
  <2> QED BY <2>2, <2>3 DEF LocalInv
<1>5. TableType
  BY <1>1, <1>2 DEF Init, TableType
<1>6. OthersType
  BY BlankType DEF Init, OthersType
<1>7. EnvironmentType
  <2>1. Repeatable(last)
    BY NothingType DEF Init, Repeatable
  <2>2. MeterStart \in MeterStart..MaxMeter /\ 0 \in 0..MaxResends
    BY SessionAssumption
  <2> QED BY <2>1, <2>2 DEF Init, EnvironmentType
<1>8. HistoryType
  <2>1. charged \in Nat /\ topUps \in 0..MaxTopUps
    BY <1>1 DEF Init
  <2>2. repriced \in BOOLEAN
    BY DEF Init
  <2> QED BY <2>1, <2>2 DEF HistoryType
<1> QED BY <1>3, <1>4, <1>5, <1>6, <1>7, <1>8 DEF IInv

LEMMA BillingKeeps ==
  ASSUME IInv, NEW c \in Call, Billing(c)
  PROVE  IInv'
BY UpdateSessionMeterKeeps, BillingReadKeeps, BillingStatsKeeps, DeductKeeps,
   BillingUpdateKeeps, StartGraceKeeps, MarkGraceKeeps, CancelGraceKeeps, PresetCheckKeeps
   DEF Billing

LEMMA StoppingKeeps ==
  ASSUME IInv, NEW c \in Call, Stopping(c)
  PROVE  IInv'
BY FinalizeReadKeeps, FinalizeCloseKeeps, SettleKeeps, SettleCancelKeeps, ClearGraceKeeps,
   PostUserKeeps, CreateUserKeeps, PostOwnerKeeps, PostCommissionKeeps, UnlockKeeps,
   ResetStateKeeps
   DEF Stopping

LEMMA NextKeeps ==
  ASSUME IInv, [Next]_vars
  PROVE  IInv'
<1>1. ASSUME NEW c \in Call, Send(c)
      PROVE  IInv'
  BY <1>1, SendMeterValuesKeeps, SendStopKeeps, SendStatusKeeps, ResendKeeps DEF Send
<1>2. ASSUME NEW c \in Call, Proceed(c)
      PROVE  IInv'
  BY <1>2, BillingKeeps, StoppingKeeps, FindFaultedKeeps, StatusReadKeeps, SetStatusKeeps
     DEF Proceed, Notified
<1>3. ASSUME NEW c \in Call, Throws(c)
      PROVE  IInv'
  BY <1>3, ThrowsKeeps
<1>4. CASE Charge \/ Listener \/ Webhook \/ GraceWorker \/ OtherThrows \/ Crash
  BY <1>4, ChargeKeeps, ListenerKeeps, WebhookKeeps, GraceWorkerKeeps, OtherThrowsKeeps,
     CrashKeeps
<1>5. CASE UNCHANGED vars
  <2>1. LocalInv /\ RowInv /\ TableType /\ OthersType /\ EnvironmentType /\ HistoryType
    BY DEF IInv
  <2> QED BY <1>5, <2>1, LocalFrame, RowFrame, TableFrame, OthersFrame, EnvironmentFrame,
             HistoryFrame DEF vars, tables, IInv
<1> QED BY <1>1, <1>2, <1>3, <1>4, <1>5 DEF Next

LEMMA IInvTypeOK ==
  ASSUME IInv
  PROVE  TypeOK
BY DEF IInv, LocalInv, LocalType, RowInv, TableType, OthersType, EnvironmentType, HistoryType,
       Repeatable, TypeOK

\* Every reachable state is an inductive state: among others, a handler that
\* bills has a reading above what its copy of the row says is billed, and one
\* that ends a session has the StopTransaction it ends it for.
THEOREM Inductive == Spec => []IInv
BY InitHolds, NextKeeps, PTL DEF Spec

\* The wallet and the session row never hold a negative amount and no handler
\* leaves its protocol, for any readings, prices and number of handlers.
THEOREM TypeCorrect == Spec => []TypeOK
BY Inductive, IInvTypeOK, PTL

-----------------------------------------------------------------------------
\* What a step does to the bill

\* No step changes the driver or the budget, and a session that ended stays so.
LEMMA SessionStays ==
  ASSUME IInv, [Next]_vars
  PROVE  /\ session'.user = session.user /\ session'.preset = session.preset
         /\ session.ended => session'.ended
<1>1. session \in SessionRow
  BY DEF IInv, RowInv
<1>2. ASSUME NEW c \in Call, Billing(c)
      PROVE  session'.user = session.user /\ session'.preset = session.preset /\ (session.ended => session'.ended)
  <2>1. CASE UpdateSessionMeter(c) \/ BillingRead(c) \/ BillingStats(c) \/ Deduct(c)
    BY <1>1, <2>1 DEF UpdateSessionMeter, BillingRead, BillingStats, Deduct, tables, SessionRow
  <2>2. CASE BillingUpdate(c)
    BY <1>1, <2>2 DEF BillingUpdate, tables, SessionRow
  <2>3. CASE StartGrace(c) \/ CancelGrace(c) \/ PresetCheck(c)
    <3>1. UNCHANGED session
      BY <2>3 DEF StartGrace, CancelGrace, PresetCheck, tables
    <3> QED BY <1>1, <3>1 DEF SessionRow
  <2>4. CASE MarkGrace(c)
    BY <1>1, <2>4 DEF MarkGrace, SessionRow
  <2> QED BY <1>2, <2>1, <2>2, <2>3, <2>4 DEF Billing
<1>3. ASSUME NEW c \in Call, Stopping(c)
      PROVE  session'.user = session.user /\ session'.preset = session.preset /\ (session.ended => session'.ended)
  BY <1>1, <1>3 DEF Stopping, FinalizeRead, FinalizeClose, Settle, SettleCancel, ClearGrace, PostUser,
     CreateUser, PostOwner, PostCommission, PostShare, Unlock, ResetState, tables, SessionRow
<1>4. ASSUME NEW c \in Call, Notified(c) \/ Throws(c)
      PROVE  session'.user = session.user /\ session'.preset = session.preset /\ (session.ended => session'.ended)
  BY <1>1, <1>4 DEF Notified, FindFaulted, StatusRead, SetStatus, Throws, tables, SessionRow
<1>5. ASSUME NEW c \in Call, Send(c) PROVE session' = session
  BY <1>5 DEF Send, SendMeterValues, SendStop, SendStatus, Resend, Deliver, tables
<1>6. CASE Charge \/ Listener \/ OtherThrows \/ Crash \/ UNCHANGED vars
  BY <1>1, <1>6 DEF Charge, Listener, FaultRead, FaultRefund, FaultClose, OtherThrows, Crash, tables, vars, SessionRow
<1>7. CASE Webhook \/ GraceWorker
  BY <1>1, <1>7 DEF Webhook, WebhookTopUp, WebhookFind, WebhookCancel, WebhookClear,
     GraceWorker, WorkerTake, WorkerCheck, WorkerStop, WorkerEnd, WorkerExecuted, tables, SessionRow
<1> QED BY <1>2, <1>3, <1>4, <1>5, <1>6, <1>7 DEF Next, Proceed

\* A handler goes on, and has nothing to write that it did not have.
Moves(c) ==
  /\ pc'[c] \notin {"update", "stats"}
  /\ pc'[c] = "deduct" => row'[c] = session
  /\ row'[c] \in {row[c], Blank, session}
  /\ \A d \in Call \ {c} : pc'[d] = pc[d] /\ row'[d] = row[d] /\ left'[d] = left[d]

SameBill == session'.totalCost = session.totalCost /\ session'.lastBilled = session.lastBilled

\* The four things a step of a handler does to the bill: nothing, though the wallet
\* may have paid; take the cost of a reading; count the reading of a session
\* without a user; write the row from its copy.
Passes(c) == Moves(c) /\ SameBill /\ charged' >= charged /\ (pc[c] # "deduct" => charged' = charged)

Takes(c) ==
  /\ pc[c] = "deduct" /\ pc' = [pc EXCEPT ![c] = "update"] /\ UNCHANGED <<session, row, left>>
  /\ charged' = charged + EnergyCost(NewEnergy(c))

Counts(c) ==
  /\ ~session.user /\ UNCHANGED <<session, charged>>
  /\ pc'[c] = "stats" /\ row'[c] = session
  /\ \A d \in Call \ {c} : pc'[d] = pc[d] /\ row'[d] = row[d] /\ left'[d] = left[d]

Writes(c) ==
  /\ pc[c] \in {"stats", "update"} /\ Moves(c) /\ pc'[c] # "deduct" /\ UNCHANGED charged
  /\ session'.totalCost = row[c].totalCost + EnergyCost(NewEnergy(c))
  /\ session'.lastBilled = Reading(c)

LEMMA ReplyMoves ==
  ASSUME LocalType, NEW c \in Call, Reply(c)
  PROVE  Moves(c) /\ pc'[c] # "deduct"
BY DEF LocalType, Reply, Goto, Moves

LEMMA BillingReturnsMoves ==
  ASSUME LocalType, NEW c \in Call, BillingReturns(c)
  PROVE  Moves(c) /\ pc'[c] # "deduct"
BY ReplyMoves DEF LocalType, BillingReturns, Goto, Moves

LEMMA ContinueMoves ==
  ASSUME LocalType, NEW c \in Call, NEW step, Continue(c, step), step \notin {"update", "stats", "deduct"}
  PROVE  Moves(c) /\ pc'[c] # "deduct"
BY DEF LocalType, Continue, Goto, Moves, locals

LEMMA ReadRowMoves ==
  ASSUME LocalType, NEW c \in Call, NEW step, ReadRow(c, step), step \notin {"update", "stats"}
  PROVE  Moves(c)
BY DEF LocalType, ReadRow, Goto, Moves

LEMMA DeductDoes ==
  ASSUME IInv, NEW c \in Call, Deduct(c)
  PROVE  (Passes(c) /\ (MayFail \/ charged' = charged)) \/ Takes(c)
<1> DEFINE cost == EnergyCost(NewEnergy(c))
<1>1. LocalInv /\ LocalType /\ charged \in Nat /\ session' = session /\ pc[c] = "deduct"
  BY DEF IInv, LocalInv, HistoryType, Deduct
<1>2. cost \in Nat
  BY <1>1, Billable, SharesNat
<1>3. charged' \in Nat /\ charged' >= charged
  BY <1>1, <1>2 DEF Deduct
<1>4. BillingReturns(c) \/ Continue(c, "startGrace") => Moves(c)
  BY <1>1, BillingReturnsMoves, ContinueMoves
<1>5. Continue(c, "update") => pc' = [pc EXCEPT ![c] = "update"] /\ UNCHANGED <<row, left>>
  BY DEF Continue, Goto, locals
<1>6. Goto(c, "update") => pc' = [pc EXCEPT ![c] = "update"]
  BY DEF Goto
<1>7. cost = 0 => charged = charged + cost
  BY <1>1, <1>2
<1>8. \/ Moves(c) /\ (MayFail \/ charged' = charged)
      \/ (pc' = [pc EXCEPT ![c] = "update"] /\ UNCHANGED <<row, left>> /\ charged' = charged + cost)
  BY <1>4, <1>5, <1>6, <1>7 DEF Deduct
<1> QED BY <1>1, <1>3, <1>8 DEF Passes, Takes, SameBill

LEMMA BillingUpdateWrites ==
  ASSUME IInv, NEW c \in Call, BillingUpdate(c)
  PROVE  Writes(c)
<1>1. LocalType /\ session \in SessionRow
  BY DEF IInv, LocalInv, RowInv
<1>2. /\ session'.totalCost = row[c].totalCost + EnergyCost(NewEnergy(c))
      /\ session'.lastBilled = Reading(c) /\ UNCHANGED charged /\ pc[c] = "update"
  BY <1>1 DEF BillingUpdate, SessionRow, history
<1> DEFINE step == IF after[c] > 0 /\ after[c] <= GraceThreshold /\ ~row[c].grace
                   THEN "startGrace"
                   ELSE IF after[c] > GraceThreshold /\ after[c] > LowThreshold
                   THEN "cancelGrace" ELSE "preset"
<1>3. BillingReturns(c) \/ Continue(c, step)
  BY DEF BillingUpdate
<1>4. step \notin {"update", "stats", "deduct"}
  OBVIOUS
<1> HIDE DEF step
<1>5. Moves(c) /\ pc'[c] # "deduct"
  BY <1>1, <1>3, <1>4, BillingReturnsMoves, ContinueMoves
<1> QED BY <1>2, <1>5 DEF Writes

LEMMA BillingDoes ==
  ASSUME IInv, NEW c \in Call, Billing(c)
  PROVE  Passes(c) \/ Takes(c) \/ Counts(c) \/ Writes(c)
<1>1. LocalType /\ charged \in Nat /\ session \in SessionRow
  BY DEF IInv, LocalInv, HistoryType, RowInv
<1> USE DEF others, history, tables
<1>2. CASE UpdateSessionMeter(c)
  BY <1>1, <1>2, ContinueMoves DEF UpdateSessionMeter, SessionRow, Passes, SameBill
<1>3. CASE BillingRead(c)
  <2>1. UNCHANGED <<session, charged>>
    BY <1>3 DEF BillingRead
  <2>2. CASE ReadRow(c, "stats") /\ ~session.user
    BY <1>1, <2>1, <2>2 DEF Counts, ReadRow, Goto, LocalType
  <2>3. CASE BillingReturns(c) \/ ReadRow(c, "deduct")
    BY <1>1, <2>1, <2>3, BillingReturnsMoves, ReadRowMoves DEF Passes, SameBill
  <2> QED BY <1>3, <2>2, <2>3 DEF BillingRead
<1>4. CASE BillingStats(c)
  <2>1. /\ session'.totalCost = row[c].totalCost + EnergyCost(NewEnergy(c))
        /\ session'.lastBilled = Reading(c) /\ UNCHANGED charged /\ pc[c] = "stats"
    BY <1>1, <1>4 DEF BillingStats, SessionRow
  <2> QED BY <1>1, <1>4, <2>1, BillingReturnsMoves DEF BillingStats, Writes
<1>5. CASE BillingUpdate(c)
  BY <1>5, BillingUpdateWrites
<1>6. CASE StartGrace(c) \/ CancelGrace(c) \/ PresetCheck(c)
  <2>1. Moves(c)
    BY <1>1, <1>6, ContinueMoves, BillingReturnsMoves, ZenonT(30) DEF StartGrace, CancelGrace, PresetCheck
  <2>2. UNCHANGED <<session, charged>>
    BY <1>6 DEF StartGrace, CancelGrace, PresetCheck
  <2> QED BY <1>1, <2>1, <2>2 DEF Passes, SameBill
<1>7. CASE MarkGrace(c)
  <2>1. Moves(c)
    BY <1>1, <1>7, ContinueMoves, BillingReturnsMoves DEF MarkGrace
  <2>2. SameBill /\ UNCHANGED charged
    BY <1>1, <1>7 DEF MarkGrace, SessionRow, SameBill
  <2> QED BY <1>1, <2>1, <2>2 DEF Passes
<1>8. CASE Deduct(c)
  BY <1>8, DeductDoes
<1> QED BY <1>2, <1>3, <1>4, <1>5, <1>6, <1>7, <1>8 DEF Billing

LEMMA StoppingPasses ==
  ASSUME IInv, NEW c \in Call, Stopping(c)
  PROVE  Passes(c)
<1>1. LocalType /\ charged \in Nat /\ session \in SessionRow
  BY DEF IInv, LocalInv, HistoryType, RowInv
<1>2. Moves(c)
  BY <1>1, ContinueMoves, ReadRowMoves, ReplyMoves
     DEF Stopping, FinalizeRead, FinalizeClose, Settle, SettleCancel, ClearGrace, PostUser,
         CreateUser, PostOwner, PostCommission, PostShare, Unlock, ResetState
<1>3. SameBill /\ UNCHANGED charged
  BY <1>1 DEF Stopping, FinalizeRead, FinalizeClose, Settle, SettleCancel, ClearGrace, PostUser,
     CreateUser, PostOwner, PostCommission, PostShare, Unlock, ResetState, tables, history, SessionRow, SameBill
<1> QED BY <1>1, <1>2, <1>3 DEF Passes

LEMMA NotifiedPasses ==
  ASSUME IInv, NEW c \in Call, Notified(c) \/ Throws(c)
  PROVE  Passes(c)
<1>1. LocalType /\ charged \in Nat /\ session \in SessionRow
  BY DEF IInv, LocalInv, HistoryType, RowInv
<1>2. Moves(c)
  BY <1>1, ContinueMoves, ReplyMoves, BillingReturnsMoves DEF Notified, FindFaulted, StatusRead, SetStatus, Throws
<1>3. SameBill /\ UNCHANGED charged
  BY <1>1 DEF Notified, FindFaulted, StatusRead, SetStatus, Throws, tables, history, SessionRow, SameBill
<1> QED BY <1>1, <1>2, <1>3 DEF Passes

\* The message a step of the charger sends.
LEMMA Sends ==
  ASSUME IInv, NEW c \in Call, Send(c)
  PROVE  \E m \in Message : /\ Deliver(c, m) /\ m.kind # "none"
                            /\ \/ resends < MaxResends
                               \/ IF m.kind = "StopTransaction" THEN charging /\ ~charging'
                                  ELSE charging' = charging
<1>1. EnvironmentType
  BY DEF IInv
<1>2. CASE SendMeterValues(c)
  <2>1. PICK w \in {meter} \cup Earlier :
          LET m == [Nothing EXCEPT !.kind = "MeterValues", !.readings = <<w>>]
          IN Deliver(c, m)
    BY <1>2 DEF SendMeterValues
  <2> DEFINE m == [Nothing EXCEPT !.kind = "MeterValues", !.readings = <<w>>]
  <2>2. <<w>> \in Seq(0..MaxMeter)
    BY <1>1, MeterBounds
  <2>3. m \in Message /\ m.kind = "MeterValues"
    BY <2>2 DEF Message, Nothing
  <2>4. Deliver(c, m)
    BY <2>1
  <2>5. charging' = charging
    BY <1>2 DEF SendMeterValues
  <2> HIDE DEF m
  <2> QED BY <2>3, <2>4, <2>5
<1>3. CASE SendStop(c)
  <2>1. PICK data \in {<<>>} \cup {<<w>> : w \in Earlier} :
          LET m == [Nothing EXCEPT !.kind = "StopTransaction", !.readings = Append(data, meter)]
          IN Deliver(c, m)
    BY <1>3 DEF SendStop
  <2> DEFINE readings == Append(data, meter)
             m == [Nothing EXCEPT !.kind = "StopTransaction", !.readings = readings]
  <2>2. readings \in Seq(0..MaxMeter)
    BY <1>1, StopReadings
  <2>3. Deliver(c, m)
    BY <2>1
  <2> HIDE DEF readings
  <2>4. m \in Message /\ m.kind = "StopTransaction"
    BY <2>2 DEF Message, Nothing
  <2>5. charging /\ ~charging'
    BY <1>3 DEF SendStop
  <2> HIDE DEF m
  <2> QED BY <2>3, <2>4, <2>5
<1>4. CASE SendStatus(c)
  <2>1. PICK s \in Status, e \in BOOLEAN :
          /\ s = "FAULTED" => e
          /\ e => MayFault
          /\ Deliver(c, [Nothing EXCEPT !.kind = "StatusNotification", !.status = s, !.error = e])
    BY <1>4 DEF SendStatus
  <2> DEFINE m == [Nothing EXCEPT !.kind = "StatusNotification", !.status = s, !.error = e]
  <2>2. m \in Message /\ m.kind = "StatusNotification" /\ m.status = s /\ m.error = e
    BY StatusMessage
  <2>3. Deliver(c, m)
    BY <2>1
  <2>4. charging' = charging
    BY <1>4 DEF SendStatus, charger
  <2> HIDE DEF m
  <2> QED BY <2>1, <2>2, <2>3, <2>4
<1>5. CASE Resend(c)
  <2>1. last \in Message /\ last.kind \in {"MeterValues", "StopTransaction"} /\ Deliver(c, last)
       /\ resends < MaxResends
    BY <1>1, <1>5 DEF EnvironmentType, Repeatable, Resend
  <2> QED BY <2>1
<1> QED BY <1>2, <1>3, <1>4, <1>5 DEF Send

LEMMA DeliverPasses ==
  ASSUME IInv, NEW c \in Call, NEW m \in Message, Deliver(c, m), m.kind # "none"
  PROVE  Passes(c)
<1>1. LocalType /\ charged \in Nat
  BY DEF IInv, LocalInv, HistoryType
<1>2. UNCHANGED <<session, row, charged>>
  BY DEF Deliver, tables, history
<1>3. FirstStep(m) \notin {"update", "stats", "deduct"}
  BY DEF FirstStep, Message
<1>4. Moves(c)
  BY <1>1, <1>2, <1>3 DEF Deliver, Goto, Moves, LocalType
<1> QED BY <1>1, <1>2, <1>4 DEF Passes, SameBill

LEMMA HandlerDoes ==
  ASSUME IInv, NEW c \in Call, Send(c) \/ Proceed(c) \/ Throws(c)
  PROVE  Passes(c) \/ Takes(c) \/ Counts(c) \/ Writes(c)
BY Sends, DeliverPasses, BillingDoes, StoppingPasses, NotifiedPasses DEF Proceed

\* The other processes leave the handlers alone, a crash ends them; only the end of
\* a fault rewrites the total.
LEMMA OthersDo ==
  ASSUME IInv, Charge \/ Listener \/ Webhook \/ GraceWorker \/ OtherThrows \/ Crash \/ UNCHANGED vars
  PROVE  /\ UNCHANGED charged
         /\ \/ UNCHANGED <<pc, row, left>>
            \/ \A c \in Call : pc'[c] = "idle" /\ row'[c] = Blank
         /\ SameBill \/ repriced'
<1>1. session \in SessionRow
  BY DEF IInv, RowInv
<1>2. CASE Charge \/ OtherThrows \/ Crash \/ UNCHANGED vars
  BY <1>2 DEF Charge, OtherThrows, Crash, tables, locals, others, history, vars, SameBill
<1>3. CASE Listener
  BY <1>1, <1>3 DEF Listener, FaultRead, FaultRefund, FaultClose, tables, locals, history, SameBill, SessionRow
<1>4. CASE Webhook \/ GraceWorker
  BY <1>1, <1>4 DEF Webhook, WebhookTopUp, WebhookFind, WebhookCancel, WebhookClear,
     GraceWorker, WorkerTake, WorkerCheck, WorkerStop, WorkerEnd, WorkerExecuted,
     tables, locals, history, SameBill, SessionRow
<1> QED BY <1>2, <1>3, <1>4

-----------------------------------------------------------------------------
\* What is on record was taken

\* Of a session with a user: every amount that is, or is about to be, written to
\* the row has been taken from the wallet.  The handlers overwrite each other's
\* rows, but only with totals that were taken too.
Covered ==
  /\ session.totalCost <= charged
  /\ \A c \in Call :
       /\ pc[c] # "stats"
       /\ row[c].totalCost <= charged
       /\ pc[c] = "update" => row[c].totalCost + EnergyCost(NewEnergy(c)) <= charged

LEMMA HandlerCovers ==
  ASSUME IInv, Covered, session.user, NEW c \in Call, charged' \in Nat,
         Passes(c) \/ Takes(c) \/ Counts(c) \/ Writes(c)
  PROVE  Covered' /\ charged' >= charged
<1> DEFINE cost(d) == EnergyCost(NewEnergy(d))
<1>1. /\ charged \in Nat /\ session.totalCost \in Nat /\ session.totalCost <= charged /\ Blank.totalCost = 0
      /\ \A d \in Call : row[d].totalCost \in Nat /\ row[d].totalCost <= charged /\ pc[d] # "stats"
      /\ LocalInv /\ LocalType
  BY OfHandler, RowFields DEF IInv, HistoryType, RowInv, LocalInv, Blank, Covered
<1>2. \A d \in Call : pc[d] \in {"deduct", "update"} => cost(d) \in Nat
  BY <1>1, Billable, SharesNat
<1>3. \A d \in Call : pc[d] = "update" => row[d].totalCost + cost(d) <= charged
  BY DEF Covered
<1>4. charged' >= charged
  BY <1>1, <1>2 DEF Passes, Takes, Counts, Writes
<1>5. session'.totalCost <= charged'
  BY <1>1, <1>3, <1>4 DEF Passes, Takes, Counts, Writes, SameBill
<1>6. ASSUME NEW d \in Call, d # c
      PROVE  /\ pc'[d] # "stats" /\ row'[d].totalCost <= charged'
             /\ pc'[d] = "update" => row'[d].totalCost + cost(d)' <= charged'
  <2>1. pc'[d] = pc[d] /\ row'[d] = row[d] /\ left'[d] = left[d]
    BY <1>1, <1>6 DEF Passes, Takes, Counts, Writes, Moves, LocalType
  <2>2. cost(d)' = cost(d)
    BY <2>1 DEF NewEnergy, Reading, LastBilled, EnergyCost
  <2> HIDE DEF cost
  <2> QED BY <1>1, <1>2, <1>3, <1>4, <1>6, <2>1, <2>2
<1>7. CASE Takes(c)
  <2>1. pc'[c] = "update" /\ row'[c] = row[c] /\ left'[c] = left[c] /\ pc[c] = "deduct" /\ charged' = charged + cost(c)
    BY <1>1, <1>7 DEF Takes, LocalType
  <2>2. cost(c)' = cost(c)
    BY <2>1 DEF NewEnergy, Reading, LastBilled, EnergyCost
  <2>3. /\ pc'[c] # "stats" /\ row'[c].totalCost <= charged'
        /\ pc'[c] = "update" => row'[c].totalCost + cost(c)' <= charged'
    <3> HIDE DEF cost
    <3> QED BY <1>1, <1>2, <2>1, <2>2
  <2> QED BY <1>4, <1>5, <1>6, <2>3 DEF Covered
<1>8. CASE Passes(c) \/ Writes(c)
  <2>1. pc'[c] \notin {"update", "stats"} /\ row'[c] \in {row[c], Blank, session}
    BY <1>8 DEF Passes, Writes, Moves
  <2>2. row'[c].totalCost <= charged'
    BY <1>1, <1>4, <2>1
  <2> QED BY <1>4, <1>5, <1>6, <2>1, <2>2 DEF Covered
<1> QED BY <1>7, <1>8 DEF Counts

LEMMA OthersCover ==
  ASSUME IInv, Covered, SameBill, charged' = charged,
         UNCHANGED <<pc, row, left>> \/ \A c \in Call : pc'[c] = "idle" /\ row'[c] = Blank
  PROVE  Covered'
<1>1. charged \in Nat /\ Blank.totalCost = 0
  BY DEF IInv, HistoryType, Blank
<1>2. CASE UNCHANGED <<pc, row, left>>
  <2>1. \A c \in Call : EnergyCost(NewEnergy(c))' = EnergyCost(NewEnergy(c))
    BY <1>2 DEF NewEnergy, Reading, LastBilled, EnergyCost
  <2> QED BY <1>2, <2>1 DEF Covered, SameBill
<1>3. CASE \A c \in Call : pc'[c] = "idle" /\ row'[c] = Blank
  BY <1>1, <1>3 DEF Covered, SameBill
<1> QED BY <1>2, <1>3

\* What a step leaves covered, and what has been taken.
LEMMA StepCovers ==
  ASSUME IInv, IInv', session.user, Covered, [Next]_vars
  PROVE  charged' >= charged /\ (Covered' \/ repriced')
<1>1. charged \in Nat /\ charged' \in Nat
  BY DEF IInv, HistoryType
<1>2. ASSUME NEW c \in Call, Send(c) \/ Proceed(c) \/ Throws(c) PROVE Covered' /\ charged' >= charged
  BY <1>1, <1>2, HandlerDoes, HandlerCovers
<1>3. CASE Charge \/ Listener \/ Webhook \/ GraceWorker \/ OtherThrows \/ Crash \/ UNCHANGED vars
  BY <1>1, <1>3, OthersDo, OthersCover
<1> QED BY <1>2, <1>3 DEF Next

\* The same without its premise about the row: what was taken stays taken.
LEMMA ChargedGrows ==
  ASSUME IInv, IInv', [Next]_vars
  PROVE  charged' >= charged
<1>1. charged \in Nat /\ charged' \in Nat
  BY DEF IInv, HistoryType
<1>2. ASSUME NEW c \in Call, Passes(c) \/ Takes(c) \/ Counts(c) \/ Writes(c) PROVE charged' >= charged
  <2>1. pc[c] = "deduct" => EnergyCost(NewEnergy(c)) \in Nat
    BY Billable, SharesNat DEF IInv
  <2> QED BY <1>1, <1>2, <2>1 DEF Passes, Takes, Counts, Writes
<1>3. ASSUME NEW c \in Call, Send(c) \/ Proceed(c) \/ Throws(c) PROVE charged' >= charged
  BY <1>2, <1>3, HandlerDoes
<1>4. CASE Charge \/ Listener \/ Webhook \/ GraceWorker \/ OtherThrows \/ Crash \/ UNCHANGED vars
  BY <1>1, <1>4, OthersDo
<1> QED BY <1>3, <1>4 DEF Next

\* What a step adds to the debits: a handler the total of its copy, once.
LEMMA LedgerGrows ==
  ASSUME [Next]_vars
  PROVE  /\ ledger \subseteq ledger'
         /\ \A e \in ledger' \ ledger : e.key = "user" =>
              \E c \in Call : pc[c] = "createUser" /\ e.amount = row[c].totalCost /\ ~KeyUsed("user")
<1>1. CASE UNCHANGED ledger
  BY <1>1
<1>2. ASSUME NEW c \in Call, Billing(c) PROVE UNCHANGED ledger
  BY <1>2 DEF Billing, UpdateSessionMeter, BillingRead, BillingStats, Deduct, BillingUpdate, StartGrace,
     MarkGrace, CancelGrace, PresetCheck, tables, history
<1>3. ASSUME NEW c \in Call, Stopping(c)
      PROVE  \/ UNCHANGED ledger
             \/ CreateUser(c) /\ pc[c] = "createUser" /\ ~KeyUsed("user") /\ Post("user", row[c].totalCost)
             \/ \E key \in {"owner", "commission"} : \E amount : Post(key, amount)
  BY <1>3 DEF Stopping, FinalizeRead, FinalizeClose, Settle, SettleCancel, ClearGrace, PostUser,
     CreateUser, PostOwner, PostCommission, PostShare, Unlock, ResetState, tables, history
<1>4. ASSUME NEW c \in Call, Send(c) \/ Notified(c) \/ Throws(c) PROVE UNCHANGED ledger
  BY <1>4 DEF Notified, FindFaulted, StatusRead, SetStatus, Throws, Send, SendMeterValues, SendStop, SendStatus,
     Resend, Deliver, tables, history
<1>5. CASE Charge \/ Listener \/ OtherThrows \/ Crash \/ UNCHANGED vars
  BY <1>5, <1>1 DEF Charge, Listener, FaultRead, FaultRefund, FaultClose, OtherThrows, Crash, tables, vars, history
<1>6. CASE Webhook \/ GraceWorker
  BY <1>6, <1>1 DEF Webhook, WebhookTopUp, WebhookFind, WebhookCancel, WebhookClear,
     GraceWorker, WorkerTake, WorkerCheck, WorkerStop, WorkerEnd, WorkerExecuted, tables, history
<1>7. ASSUME NEW c \in Call, Stopping(c) PROVE
         /\ ledger \subseteq ledger'
         /\ \A e \in ledger' \ ledger : e.key = "user" =>
              \E d \in Call : pc[d] = "createUser" /\ e.amount = row[d].totalCost /\ ~KeyUsed("user")
  BY <1>3, <1>7 DEF Post
<1> QED BY <1>1, <1>2, <1>4, <1>5, <1>6, <1>7 DEF Next, Proceed

-----------------------------------------------------------------------------
\* Until a fault writes a total

\* A total that a fault has written is remembered.
LEMMA RepricedStays ==
  ASSUME IInv, [Next]_vars
  PROVE  repriced => repriced'
<1>1. ASSUME NEW c \in Call, Billing(c) PROVE UNCHANGED repriced
  BY <1>1 DEF Billing, UpdateSessionMeter, BillingRead, BillingStats, Deduct, BillingUpdate, StartGrace,
     MarkGrace, CancelGrace, PresetCheck, history
<1>2. ASSUME NEW c \in Call, Stopping(c) PROVE UNCHANGED repriced
  BY <1>2 DEF Stopping, FinalizeRead, FinalizeClose, Settle, SettleCancel, ClearGrace, PostUser,
     CreateUser, PostOwner, PostCommission, PostShare, Unlock, ResetState, history
<1>3. ASSUME NEW c \in Call, Send(c) \/ Notified(c) \/ Throws(c) PROVE UNCHANGED repriced
  BY <1>3 DEF Notified, FindFaulted, StatusRead, SetStatus, Throws, Send, SendMeterValues, SendStop, SendStatus,
     Resend, Deliver, history
<1>4. CASE Charge \/ Listener \/ OtherThrows \/ Crash \/ UNCHANGED vars
  BY <1>4 DEF Charge, Listener, FaultRead, FaultRefund, FaultClose, OtherThrows, Crash, vars, history
<1>5. CASE Webhook \/ GraceWorker
  BY <1>5 DEF Webhook, WebhookTopUp, WebhookFind, WebhookCancel, WebhookClear,
     GraceWorker, WorkerTake, WorkerCheck, WorkerStop, WorkerEnd, WorkerExecuted, history
<1> QED BY <1>1, <1>2, <1>3, <1>4, <1>5 DEF Next, Proceed

\* The consolidated debit is covered as well.
Backed ==
  session.user /\ ~repriced => Covered /\ \A e \in ledger : e.key = "user" => e.amount <= charged

LEMMA InitCovered ==
  ASSUME Init
  PROVE  Covered /\ ledger = {} /\ charged = 0
<1>1. session.totalCost = 0 /\ charged = 0 /\ ledger = {}
  BY DEF Init
<1>2. \A c \in Call : pc[c] = "idle" /\ row[c].totalCost = 0
  BY DEF Init, Blank
<1> QED BY <1>1, <1>2 DEF Covered

LEMMA NextBacked ==
  ASSUME IInv, IInv', Backed, [Next]_vars
  PROVE  Backed'
<1> SUFFICES ASSUME session'.user, ~repriced' PROVE Covered' /\ \A e \in ledger' : e.key = "user" => e.amount <= charged'
  BY DEF Backed
<1>1. session.user /\ ~repriced
  BY SessionStays, RepricedStays
<1>2. Covered' /\ charged' >= charged
  BY <1>1, StepCovers DEF Backed
<1>3. ASSUME NEW e \in ledger', e.key = "user" PROVE e.amount <= charged'
  <2>1. PICK amount \in Nat : e.amount = amount /\ amount <= charged
    <3>1. CASE e \in ledger
      BY <1>1, <1>3, <3>1 DEF Backed, IInv, TableType
    <3>2. CASE e \notin ledger
      <4>1. PICK c \in Call : e.amount = row[c].totalCost
        BY <1>3, <3>2, LedgerGrows
      <4> QED BY <1>1, <4>1, OfHandler, RowFields DEF Backed, Covered, IInv
    <3> QED BY <3>1, <3>2
  <2> QED BY <1>2, <2>1 DEF IInv, HistoryType
<1> QED BY <1>2, <1>3

\* RecordedWasTaken: with any number of MeterValues and StopTransactions of the
\* charger handled at once, in any order, repeated, cut short by failures and
\* crashes, the row and the consolidated debit never name more than was taken
\* from the wallet, also when the charger reports errors, until handleSessionFault,
\* the one writer of totalCost that does not take what it writes, has done so.
THEOREM RecordIsBacked == Spec => []RecordedWasTaken
<1>1. Init => Backed
  BY InitCovered DEF Backed
<1>2. IInv /\ IInv' /\ Backed /\ [Next]_vars => Backed'
  BY NextBacked
<1>3. Backed => RecordedWasTaken
  BY DEF Backed, Covered, RecordedWasTaken
<1> QED BY <1>1, <1>2, <1>3, Inductive, PTL DEF Spec

-----------------------------------------------------------------------------
\* When a Wh costs whole cents

\* Nothing is lost by rounding.
LEMMA CostIsExact ==
  ASSUME Price % 1000 = 0, NEW wh \in Nat
  PROVE  1000 * EnergyCost(wh) = ExactCost(wh)
<1>1. PICK k \in Nat : Price = 1000 * k
  <2>1. Price \in Nat
    BY SessionAssumption
  <2>2. Price = 1000 * (Price \div 1000) /\ Price \div 1000 \in Nat
    BY <2>1
  <2> QED BY <2>2
<1>2. PICK n \in Nat : n = wh * k /\ wh * Price = 1000 * n
  <2>1. wh * k \in Nat /\ wh * (1000 * k) = 1000 * (wh * k)
    OBVIOUS
  <2> QED BY <1>1, <2>1
<1>3. (2 * (1000 * n) + 1000) \div (2 * 1000) = n
  OBVIOUS
<1> QED BY <1>2, <1>3 DEF EnergyCost, ExactCost, Cents

LEMMA CostsAdd ==
  ASSUME NEW a \in Int, NEW b \in Int
  PROVE  ExactCost(a) + ExactCost(b) = ExactCost(a + b)
<1>1. Price \in Int
  BY SessionAssumption
<1> QED BY <1>1 DEF ExactCost

\* The total is the price of what is billed, and so it is in every copy that is
\* still to be written, however old.
Priced(s) ==
  /\ s.lastBilled >= MeterStart
  /\ 1000 * s.totalCost = ExactCost(s.lastBilled - MeterStart)

RowsPriced == Priced(session) /\ \A c \in Call : pc[c] \in {"stats", "deduct", "update"} => Priced(row[c])

LEMMA WritesPriced ==
  ASSUME IInv, RowsPriced, Price % 1000 = 0, NEW c \in Call, Writes(c)
  PROVE  Priced(session')
<1>1. /\ Priced(row[c]) /\ pc[c] \in {"stats", "update"}
      /\ session'.totalCost = row[c].totalCost + EnergyCost(NewEnergy(c))
      /\ session'.lastBilled = Reading(c)
  BY DEF Writes, RowsPriced
<1>2. /\ Reading(c) \in Nat /\ Reading(c) > MeterStart /\ NewEnergy(c) \in Nat /\ MeterStart \in Nat
      /\ row[c].totalCost \in Nat /\ row[c].lastBilled \in Nat
  BY <1>1, Billable, OfHandler, RowFields, SessionAssumption DEF IInv
<1>3. LastBilled(row[c]) = row[c].lastBilled
  BY <1>1, <1>2 DEF Priced, LastBilled
<1>4. NewEnergy(c) = Reading(c) - row[c].lastBilled
  BY <1>3 DEF NewEnergy
<1>5. 1000 * EnergyCost(NewEnergy(c)) = ExactCost(NewEnergy(c)) /\ EnergyCost(NewEnergy(c)) \in Nat
  BY <1>2, CostIsExact, SharesNat
<1>6. ExactCost(row[c].lastBilled - MeterStart) + ExactCost(NewEnergy(c)) = ExactCost(Reading(c) - MeterStart)
  <2>1. (row[c].lastBilled - MeterStart) + (Reading(c) - row[c].lastBilled) = Reading(c) - MeterStart
    BY <1>2
  <2> QED BY <1>2, <1>4, <2>1, CostsAdd
<1>7. 1000 * session'.totalCost = 1000 * row[c].totalCost + 1000 * EnergyCost(NewEnergy(c))
  BY <1>1, <1>2, <1>5
<1>8. 1000 * row[c].totalCost = ExactCost(row[c].lastBilled - MeterStart)
  BY <1>1 DEF Priced
<1>9. 1000 * session'.totalCost = ExactCost(Reading(c) - MeterStart)
  BY <1>5, <1>6, <1>7, <1>8
<1>10. Reading(c) >= MeterStart
  BY <1>2
<1> QED BY <1>1, <1>9, <1>10 DEF Priced

LEMMA NextPriced ==
  ASSUME IInv, RowsPriced, Price % 1000 = 0, [Next]_vars, ~repriced'
  PROVE  RowsPriced'
<1>1. LocalType
  BY DEF IInv, LocalInv
<1>2. ASSUME NEW c \in Call, Passes(c) \/ Takes(c) \/ Counts(c) \/ Writes(c) PROVE RowsPriced'
  <2>1. Priced(session')
    <3>1. Writes(c) => Priced(session')
      BY WritesPriced
    <3>2. SameBill => Priced(session')
      BY DEF SameBill, RowsPriced, Priced
    <3> QED BY <1>2, <3>1, <3>2 DEF Passes, Takes, Counts, SameBill
  <2>2. ASSUME NEW d \in Call, pc'[d] \in {"stats", "deduct", "update"} PROVE Priced(row'[d])
    <3>1. CASE d # c
      <4>1. pc'[d] = pc[d] /\ row'[d] = row[d]
        BY <1>1, <1>2, <3>1 DEF Passes, Takes, Counts, Writes, Moves, LocalType
      <4> QED BY <2>2, <4>1 DEF RowsPriced
    <3>2. CASE d = c
      <4>1. row'[c] = session \/ (row'[c] = row[c] /\ pc[c] = "deduct")
        BY <1>1, <1>2, <2>2, <3>2 DEF Passes, Takes, Counts, Writes, Moves, LocalType
      <4> QED BY <3>2, <4>1 DEF RowsPriced
    <3> QED BY <3>1, <3>2
  <2> QED BY <2>1, <2>2 DEF RowsPriced, Priced, ExactCost
<1>3. ASSUME NEW c \in Call, Send(c) \/ Proceed(c) \/ Throws(c) PROVE RowsPriced'
  BY <1>2, <1>3, HandlerDoes
<1>4. CASE Charge \/ Listener \/ Webhook \/ GraceWorker \/ OtherThrows \/ Crash \/ UNCHANGED vars
  <2>1. SameBill /\ (UNCHANGED <<pc, row>> \/ \A c \in Call : pc'[c] = "idle")
    BY <1>4, OthersDo
  <2> QED BY <2>1 DEF RowsPriced, Priced, ExactCost, SameBill
<1> QED BY <1>3, <1>4 DEF Next

\* TotalIsPriced: the total is the price of what the row says is billed, with any
\* number of handlers that write it from their copies, each at any time, and
\* whatever fails, until a fault writes a total of its own, if a Wh costs whole cents.
THEOREM TotalsArePriced ==
  ASSUME Price % 1000 = 0
  PROVE  Spec => []TotalIsPriced
<1>1. Init => RowsPriced
  <2> SUFFICES ASSUME Init PROVE RowsPriced
    OBVIOUS
  <2>1. session.lastBilled = MeterStart /\ session.totalCost = 0 /\ \A c \in Call : pc[c] = "idle"
    BY DEF Init
  <2>2. MeterStart \in Nat /\ Price \in Nat /\ MeterStart - MeterStart = 0 /\ 1000 * 0 = 0 * Price
    BY SessionAssumption
  <2> QED BY <2>1, <2>2 DEF RowsPriced, Priced, ExactCost
<1>2. IInv /\ (~repriced => RowsPriced) /\ [Next]_vars => (~repriced' => RowsPriced')
  BY NextPriced, RepricedStays
<1>3. (~repriced => RowsPriced) => TotalIsPriced
  BY DEF RowsPriced, Priced, TotalIsPriced
<1> QED BY <1>1, <1>2, <1>3, Inductive, PTL DEF Spec

-----------------------------------------------------------------------------
\* Billing under the request/response discipline

\* The reading up to which the register is billed: what the row says, or what
\* the one handler has deducted and not yet written.
Billed == IF Deducted = {} THEN session.lastBilled ELSE Reading(CHOOSE c \in Deducted : TRUE)

\* Of the one handler c: nobody else moves lastBilled, so its copy is not stale.
Metered(c) ==
  /\ session.user
  /\ session.lastBilled >= MeterStart
  /\ pc[c] # "stats"
  /\ pc[c] \in {"deduct", "update"} => row[c].lastBilled = session.lastBilled

LEMMA BilledIs ==
  ASSUME IInv, NEW c \in Call, Call = {c}
  PROVE  Billed = IF pc[c] = "update" THEN Reading(c) ELSE session.lastBilled
<1>1. pc[c] = "update" => left[c] # <<>>
  BY OfHandler DEF IInv, Handling, BillingStep
<1>2. Deducted = IF pc[c] = "update" THEN {c} ELSE {}
  BY <1>1 DEF Deducted
<1>3. (CHOOSE d \in {c} : TRUE) = c
  OBVIOUS
<1> QED BY <1>2, <1>3 DEF Billed

\* The same of the state after a step.
LEMMA BilledIsNext ==
  ASSUME IInv', NEW c \in Call, Call = {c}
  PROVE  Billed' = IF pc'[c] = "update" THEN Head(left'[c]) ELSE session'.lastBilled
<1>1. pc'[c] = "update" => left'[c] # <<>>
  BY DEF IInv, LocalInv, Handling, BillingStep
<1>2. Deducted' = IF pc'[c] = "update" THEN {c} ELSE {}
  BY <1>1 DEF Deducted
<1>3. (CHOOSE d \in {c} : TRUE) = c
  OBVIOUS
<1> QED BY <1>2, <1>3 DEF Billed, Reading

\* c goes where nothing is billed.
Elsewhere(c) == pc'[c] \notin {"stats", "deduct", "update"}

LEMMA ReplyElsewhere ==
  ASSUME LocalType, NEW c \in Call, Reply(c)
  PROVE  Elsewhere(c)
BY DEF LocalType, Reply, Goto, Elsewhere

LEMMA BillingReturnsElsewhere ==
  ASSUME LocalType, NEW c \in Call, BillingReturns(c)
  PROVE  Elsewhere(c)
BY DEF LocalType, BillingReturns, Reply, Goto, Elsewhere

LEMMA ContinueElsewhere ==
  ASSUME LocalType, NEW c \in Call, NEW step, Continue(c, step),
         step \notin {"stats", "deduct", "update"}
  PROVE  Elsewhere(c)
BY DEF LocalType, Continue, Goto, Elsewhere

LEMMA ElsewhereStays ==
  ASSUME IInv, IInv', NEW c \in Call, Call = {c}, Metered(c), Elsewhere(c), pc[c] # "update",
         UNCHANGED charged, session'.user = session.user,
         session'.lastBilled = session.lastBilled
  PROVE  Metered(c)' /\ UNCHANGED <<Billed, charged>>
<1>1. Metered(c)'
  BY DEF Metered, Elsewhere
<1>2. Billed' = Billed
  BY BilledIs, BilledIsNext DEF Elsewhere
<1> QED BY <1>1, <1>2

LEMMA OthersStay ==
  ASSUME IInv, IInv', NEW c \in Call, Call = {c}, Metered(c),
         UNCHANGED <<pc, row, left, charged>>, session'.user = session.user,
         session'.lastBilled = session.lastBilled
  PROVE  Metered(c)' /\ UNCHANGED <<Billed, charged>>
<1>1. Metered(c)'
  BY DEF Metered
<1>2. Billed' = Billed
  BY BilledIs, BilledIsNext DEF Reading
<1> QED BY <1>1, <1>2

LEMMA DeductBills ==
  ASSUME IInv, IInv', ~MayFail, NEW c \in Call, Call = {c}, Metered(c), Deduct(c)
  PROVE  Metered(c)' /\ [Meter!Next]_<<Billed, charged>>
<1> DEFINE cost == EnergyCost(NewEnergy(c))
<1>1. LocalInv /\ LocalType /\ session' = session /\ pc[c] = "deduct"
      /\ charged \in Nat /\ row[c] \in SessionRow /\ session \in SessionRow
  BY OfHandler DEF IInv, LocalInv, RowInv, HistoryType, Deduct
<1>2. cost \in Nat /\ NewEnergy(c) > 0 /\ Reading(c) \in Nat
  BY <1>1, Billable, SharesNat
<1>3. \/ Elsewhere(c) /\ UNCHANGED charged
      \/ /\ pc' = [pc EXCEPT ![c] = "update"] /\ UNCHANGED <<row, left>>
         /\ charged' = charged + cost
  <2>1. BillingReturns(c) \/ Continue(c, "startGrace") => Elsewhere(c)
    BY <1>1, BillingReturnsElsewhere, ContinueElsewhere
  <2>2. Continue(c, "update") => pc' = [pc EXCEPT ![c] = "update"] /\ UNCHANGED <<row, left>>
    BY DEF Continue, Goto, locals
  <2>3. Goto(c, "update") => pc' = [pc EXCEPT ![c] = "update"]
    BY DEF Goto
  <2>4. cost = 0 => charged = charged + cost
    BY <1>1, <1>2
  <2> QED BY <2>1, <2>2, <2>3, <2>4 DEF Deduct
<1>4. CASE Elsewhere(c) /\ UNCHANGED charged
  BY <1>1, <1>4, ElsewhereStays
<1>5. CASE /\ pc' = [pc EXCEPT ![c] = "update"] /\ UNCHANGED <<row, left>>
           /\ charged' = charged + cost
  <2>1. pc'[c] = "update"
    BY <1>1, <1>5 DEF LocalType
  <2>2. Billed = session.lastBilled /\ Billed' = Reading(c)
    BY <1>1, <1>5, <2>1, BilledIs, BilledIsNext DEF Reading
  <2>3. row[c].lastBilled = session.lastBilled /\ session.lastBilled >= MeterStart
    BY <1>1 DEF Metered
  <2>4. LastBilled(row[c]) = session.lastBilled
    <3>1. MeterStart \in Nat /\ session.lastBilled \in Nat
      BY <1>1, RowFields, SessionAssumption
    <3> QED BY <2>3, <3>1 DEF LastBilled
  <2>5. NewEnergy(c) = Reading(c) - Billed
    BY <2>2, <2>4 DEF NewEnergy
  <2>6. Billed \in Nat
    BY <1>1, <2>2, RowFields
  <2>7. Billed' > Billed /\ charged' = charged + EnergyCost(Billed' - Billed)
    BY <1>2, <1>5, <2>2, <2>5, <2>6
  <2>8. Metered(c)'
    BY <1>1, <1>5, <2>1 DEF Metered
  <2> QED BY <2>7, <2>8 DEF Meter!Next, Meter!Bill, Billed
<1> QED BY <1>3, <1>4, <1>5

LEMMA BillingMeters ==
  ASSUME IInv, IInv', ~MayFail, NEW c \in Call, Call = {c}, Metered(c), Billing(c)
  PROVE  Metered(c)' /\ [Meter!Next]_<<Billed, charged>>
<1>1. /\ LocalInv /\ LocalType /\ session \in SessionRow /\ row[c] \in SessionRow
      /\ charged \in Nat
  BY OfHandler DEF IInv, LocalInv, RowInv, HistoryType
<1> USE DEF history, tables
<1>2. CASE UpdateSessionMeter(c)
  <2>1. session'.user = session.user /\ session'.lastBilled = session.lastBilled
    BY <1>1, <1>2 DEF UpdateSessionMeter, SessionRow
  <2>2. Elsewhere(c) /\ UNCHANGED charged /\ pc[c] # "update"
    BY <1>1, <1>2, ContinueElsewhere DEF UpdateSessionMeter
  <2> QED BY <2>1, <2>2, ElsewhereStays
<1>3. CASE BillingRead(c)
  <2>1. UNCHANGED <<session, charged>> /\ pc[c] = "read"
    BY <1>3 DEF BillingRead
  <2>2. CASE BillingReturns(c)
    BY <1>1, <2>1, <2>2, BillingReturnsElsewhere, ElsewhereStays
  <2>3. CASE ReadRow(c, "deduct")
    <3>1. pc'[c] = "deduct" /\ row'[c] = session
      BY <1>1, <2>3 DEF ReadRow, Goto, LocalType
    <3>2. Metered(c)'
      BY <2>1, <3>1 DEF Metered
    <3>3. Billed' = Billed
      BY <2>1, <3>1, BilledIs, BilledIsNext
    <3> QED BY <2>1, <3>2, <3>3
  <2> QED BY <1>3, <2>2, <2>3 DEF BillingRead, Metered
<1>4. CASE BillingStats(c)
  BY <1>4 DEF BillingStats, Metered
<1>5. CASE BillingUpdate(c)
  <2>1. /\ session'.user = session.user /\ session'.lastBilled = Reading(c)
        /\ pc[c] = "update" /\ UNCHANGED charged
    BY <1>1, <1>5 DEF BillingUpdate, SessionRow
  <2>2. Elsewhere(c)
    <3> DEFINE step == IF after[c] > 0 /\ after[c] <= GraceThreshold /\ ~row[c].grace
                       THEN "startGrace"
                       ELSE IF after[c] > GraceThreshold /\ after[c] > LowThreshold
                       THEN "cancelGrace" ELSE "preset"
    <3>1. BillingReturns(c) \/ Continue(c, step)
      BY <1>5 DEF BillingUpdate
    <3>2. step \notin {"update", "stats", "deduct"}
      OBVIOUS
    <3> HIDE DEF step
    <3> QED BY <1>1, <3>1, <3>2, BillingReturnsElsewhere, ContinueElsewhere
  <2>3. Reading(c) > MeterStart /\ Reading(c) \in Nat /\ MeterStart \in Nat
    BY <1>1, <2>1, Billable, SessionAssumption
  <2>4. Metered(c)'
    BY <2>1, <2>2, <2>3 DEF Metered, Elsewhere
  <2>5. Billed' = Billed
    BY <2>1, <2>2, BilledIs, BilledIsNext DEF Elsewhere
  <2> QED BY <2>1, <2>4, <2>5
<1>6. CASE StartGrace(c) \/ CancelGrace(c) \/ PresetCheck(c)
  <2>1. Elsewhere(c)
    BY <1>1, <1>6, ContinueElsewhere, BillingReturnsElsewhere
       DEF StartGrace, CancelGrace, PresetCheck
  <2>2. UNCHANGED <<session, charged>> /\ pc[c] # "update"
    BY <1>6 DEF StartGrace, CancelGrace, PresetCheck
  <2> QED BY <2>1, <2>2, ElsewhereStays
<1>7. CASE MarkGrace(c)
  <2>1. Elsewhere(c) /\ UNCHANGED charged /\ pc[c] # "update"
    BY <1>1, <1>7, ContinueElsewhere, BillingReturnsElsewhere DEF MarkGrace
  <2>2. session'.user = session.user /\ session'.lastBilled = session.lastBilled
    BY <1>1, <1>7 DEF MarkGrace, SessionRow
  <2> QED BY <2>1, <2>2, ElsewhereStays
<1>8. CASE Deduct(c)
  BY <1>8, DeductBills
<1> QED BY <1>2, <1>3, <1>4, <1>5, <1>6, <1>7, <1>8 DEF Billing

LEMMA EndingMeters ==
  ASSUME IInv, IInv', NEW c \in Call, Call = {c}, Metered(c), Stopping(c) \/ Notified(c)
  PROVE  Metered(c)' /\ UNCHANGED <<Billed, charged>>
<1>1. LocalType /\ session \in SessionRow
  BY DEF IInv, LocalInv, RowInv
<1> USE DEF Stopping, FinalizeRead, FinalizeClose, Settle, SettleCancel, ClearGrace, PostUser,
            CreateUser, PostOwner, PostCommission, PostShare, Unlock, ResetState,
            Notified, FindFaulted, StatusRead, SetStatus
<1>2. UNCHANGED charged /\ pc[c] # "update"
  BY DEF history
<1>3. Elsewhere(c)
  <2>1. ReadRow(c, "settleCancel") => Elsewhere(c)
    BY <1>1 DEF ReadRow, Goto, LocalType, Elsewhere
  <2> QED BY <1>1, <2>1, ContinueElsewhere, ReplyElsewhere
<1>4. session'.user = session.user /\ session'.lastBilled = session.lastBilled
  BY <1>1 DEF tables, SessionRow
<1> QED BY <1>2, <1>3, <1>4, ElsewhereStays

LEMMA SendMeters ==
  ASSUME IInv, IInv', NEW c \in Call, Call = {c}, Metered(c), Send(c)
  PROVE  Metered(c)' /\ UNCHANGED <<Billed, charged>>
<1> DEFINE Sent == {"MeterValues", "StopTransaction", "StatusNotification"}
<1>1. PICK m : Deliver(c, m) /\ m.kind \in Sent
  <2>1. CASE SendMeterValues(c)
    <3>1. PICK w : Deliver(c, [Nothing EXCEPT !.kind = "MeterValues", !.readings = <<w>>])
      BY <2>1 DEF SendMeterValues
    <3>2. [Nothing EXCEPT !.kind = "MeterValues", !.readings = <<w>>].kind \in Sent
      BY DEF Nothing
    <3> QED BY <3>1, <3>2
  <2>2. CASE SendStop(c)
    <3>1. PICK readings :
            Deliver(c, [Nothing EXCEPT !.kind = "StopTransaction", !.readings = readings])
      BY <2>2 DEF SendStop
    <3>2. [Nothing EXCEPT !.kind = "StopTransaction", !.readings = readings].kind \in Sent
      BY DEF Nothing
    <3> QED BY <3>1, <3>2
  <2>3. CASE SendStatus(c)
    <3>1. PICK s, e :
            Deliver(c, [Nothing EXCEPT !.kind = "StatusNotification", !.status = s, !.error = e])
      BY <2>3 DEF SendStatus
    <3>2. [Nothing EXCEPT !.kind = "StatusNotification", !.status = s, !.error = e].kind \in Sent
      BY DEF Nothing
    <3> QED BY <3>1, <3>2
  <2>4. CASE Resend(c)
    BY <2>4 DEF IInv, EnvironmentType, Repeatable, Resend
  <2> QED BY <2>1, <2>2, <2>3, <2>4 DEF Send
<1>2. pc[c] = "idle" /\ UNCHANGED <<session, charged>> /\ LocalType
  BY <1>1 DEF Deliver, tables, history, IInv, LocalInv
<1>3. Elsewhere(c)
  BY <1>1, <1>2 DEF Deliver, FirstStep, Goto, LocalType, Elsewhere
<1> QED BY <1>2, <1>3, ElsewhereStays

LEMMA OthersMeter ==
  ASSUME IInv, IInv', ~MayFail, NEW c \in Call, Call = {c}, Metered(c),
         \/ Charge \/ Listener \/ Webhook \/ GraceWorker \/ OtherThrows \/ Crash
         \/ UNCHANGED vars
  PROVE  Metered(c)' /\ UNCHANGED <<Billed, charged>>
<1>1. session \in SessionRow
  BY DEF IInv, RowInv
<1> USE DEF Charge, Listener, FaultRead, FaultRefund, FaultClose,
       Webhook, WebhookTopUp, WebhookFind, WebhookCancel, WebhookClear,
       GraceWorker, WorkerTake, WorkerCheck, WorkerStop, WorkerEnd, WorkerExecuted,
       OtherThrows, Crash, tables, locals, others, history, vars
<1>2. UNCHANGED <<pc, row, left, charged>>
  OBVIOUS
<1>3. session'.user = session.user /\ session'.lastBilled = session.lastBilled
  BY <1>1 DEF SessionRow
<1> QED BY <1>2, <1>3, OthersStay

\* ImplementsTariff: a charger that waits for the answer to each message, in
\* whatever order its readings come, with faults, top-ups and the grace worker
\* at any moment between two calls, is billed each interval of its register once
\* and at its price.  (Of sessions with a user, and while no call fails.)
THEOREM BillsByTariff ==
  ASSUME NEW c, Call = {c}, ~MayFail, Users \subseteq {TRUE}
  PROVE  Spec => ImplementsTariff
<1>1. Init => Metered(c) /\ Meter!Init
  <2>1. SUFFICES ASSUME Init PROVE Metered(c) /\ Meter!Init
    OBVIOUS
  <2>2. IInv
    BY <2>1, InitHolds
  <2>3. /\ pc[c] = "idle" /\ charged = 0 /\ session.user /\ session.lastBilled = MeterStart
        /\ MeterStart \in Nat
    <3>1. PICK u \in Users, p \in Presets :
            session = [user |-> u, preset |-> p, ended |-> FALSE, grace |-> FALSE,
                       status |-> "CHARGING", lastBilled |-> MeterStart, energyUsed |-> 0,
                       totalCost |-> 0, owner |-> 0, commission |-> 0]
      BY <2>1 DEF Init
    <3>2. u
      OBVIOUS
    <3>3. session.user /\ session.lastBilled = MeterStart
      BY <3>1, <3>2
    <3>4. pc[c] = "idle" /\ charged = 0
      BY <2>1 DEF Init
    <3> QED BY <3>3, <3>4, SessionAssumption
  <2>4. Billed = MeterStart
    BY <2>2, <2>3, BilledIs
  <2> QED BY <2>3, <2>4 DEF Metered, Meter!Init, Billed
<1>2. IInv /\ IInv' /\ Metered(c) /\ [Next]_vars
        => Metered(c)' /\ [Meter!Next]_<<Billed, charged>>
  <2>1. SUFFICES ASSUME IInv, IInv', Metered(c), [Next]_vars
                 PROVE  Metered(c)' /\ [Meter!Next]_<<Billed, charged>>
    OBVIOUS
  <2>2. CASE Send(c)
    BY <2>1, <2>2, SendMeters
  <2>3. CASE Proceed(c)
    BY <2>1, <2>3, BillingMeters, EndingMeters DEF Proceed
  <2>4. CASE Throws(c)
    BY <2>4 DEF Throws
  <2>5. CASE \/ Charge \/ Listener \/ Webhook \/ GraceWorker \/ OtherThrows \/ Crash
             \/ UNCHANGED vars
    BY <2>1, <2>5, OthersMeter
  <2> QED BY <2>1, <2>2, <2>3, <2>4, <2>5 DEF Next
<1> QED BY <1>1, <1>2, Inductive, PTL DEF Spec, ImplementsTariff, Meter!Spec, Billed

-----------------------------------------------------------------------------
\* The end of a session, when no call fails and no message is repeated

Stops(c) == msg[c].kind = "StopTransaction"
Ends     == SettleStep \cup {"finalize", "close", "reset"}

\* From where the row has been copied on, and from where the debit is posted on.
Posted == {"postOwner", "postCommission", "unlock", "reset"}
Copied == {"settleCancel", "clearGrace", "postUser", "createUser"} \cup Posted

\* A handler that does not end the session.
Away(c) == ~Stops(c) /\ pc[c] \notin Ends

\* The three phases of the reservation: held while the charger charges; held until
\* the one handler of the StopTransaction has unlocked it; given back.
Charging == /\ charging /\ active /\ ~KeyUsed("user")
            /\ wallet.locked = OtherLock + session.preset
            /\ \A c \in Call : Away(c)

Ending(s) ==
  /\ ~charging /\ active
  /\ Stops(s) /\ pc[s] \in BillingStep \cup Ends
  /\ \A c \in Call \ {s} : Away(c)
  /\ pc[s] \in Copied => row[s].preset = session.preset /\ row[s].user = session.user
  /\ KeyUsed("user") => pc[s] \in Posted
  /\ wallet.locked = OtherLock + (IF pc[s] = "reset" THEN 0 ELSE session.preset)

Over == /\ ~charging /\ ~active /\ wallet.locked = OtherLock
        /\ \A c \in Call : Away(c)

Phases == /\ session.user \/ session.preset = 0
          /\ Charging \/ Over \/ \E s \in Call : Ending(s)

\* What a step that does not end the session leaves alone.
Same == /\ UNCHANGED <<charging, active>> /\ wallet'.locked = wallet.locked
        /\ KeyUsed("user")' = KeyUsed("user")

OthersOf(c) == \A d \in Call \ {c} : pc'[d] = pc[d] /\ msg'[d] = msg[d] /\ row'[d] = row[d]

LEMMA ReplyLeaves ==
  ASSUME LocalType, NEW c \in Call, Reply(c)
  PROVE  OthersOf(c) /\ pc'[c] = "idle" /\ msg'[c] = Nothing
BY DEF LocalType, Reply, Goto, OthersOf

LEMMA ContinueLeaves ==
  ASSUME LocalType, NEW c \in Call, NEW step, Continue(c, step)
  PROVE  OthersOf(c) /\ pc'[c] = step /\ msg'[c] = msg[c] /\ row'[c] = row[c]
BY DEF LocalType, Continue, Goto, OthersOf, locals

LEMMA ReadRowLeaves ==
  ASSUME LocalType, NEW c \in Call, NEW step, ReadRow(c, step)
  PROVE  OthersOf(c) /\ pc'[c] = step /\ msg'[c] = msg[c] /\ row'[c] = session
BY DEF LocalType, ReadRow, Goto, OthersOf

\* After a reading the handler of a StopTransaction bills the next one or ends the
\* session; any other one bills the next one or answers.
LEMMA BillingReturnsLeaves ==
  ASSUME LocalType, NEW c \in Call, BillingReturns(c)
  PROVE  /\ OthersOf(c)
         /\ \/ msg'[c] = msg[c] /\ pc'[c] = "read"
            \/ msg'[c] = msg[c] /\ pc'[c] = "finalize" /\ Stops(c)
            \/ msg'[c] = Nothing /\ pc'[c] = "idle" /\ ~Stops(c)
<1>1. CASE Len(left[c]) > 1
  BY <1>1 DEF BillingReturns, LocalType, Goto, OthersOf
<1>2. CASE ~(Len(left[c]) > 1) /\ Stops(c)
  BY <1>2 DEF BillingReturns, LocalType, Goto, OthersOf, Stops
<1>3. CASE ~(Len(left[c]) > 1) /\ ~Stops(c)
  BY <1>3, ReplyLeaves DEF BillingReturns, Stops
<1> QED BY <1>1, <1>2, <1>3

\* Where a step of billing takes its handler.
Bills(c) ==
  /\ OthersOf(c)
  /\ \/ msg'[c] = msg[c] /\ pc'[c] \in BillingStep
     \/ msg'[c] = msg[c] /\ pc'[c] = "finalize" /\ Stops(c)
     \/ msg'[c] = Nothing /\ pc'[c] = "idle" /\ ~Stops(c)

LEMMA BillingLeaves ==
  ASSUME IInv, NEW c \in Call, Billing(c)
  PROVE  Bills(c) /\ Same /\ pc[c] \in BillingStep \cup {"meter"}
<1>1. LocalType /\ wallet \in [balance : Nat, locked : Nat]
  BY DEF IInv, LocalInv, TableType
<1>2. pc[c] \in BillingStep \cup {"meter"}
  BY DEF Billing, UpdateSessionMeter, BillingRead, BillingStats, Deduct, BillingUpdate, StartGrace,
     MarkGrace, CancelGrace, PresetCheck, BillingStep
<1>3. BillingReturns(c) => Bills(c)
  BY <1>1, BillingReturnsLeaves DEF Bills, BillingStep
<1>4. ASSUME NEW step \in BillingStep, Continue(c, step) \/ ReadRow(c, step) PROVE Bills(c)
  BY <1>1, <1>4, ContinueLeaves, ReadRowLeaves DEF Bills
<1>5. {"read", "stats", "deduct", "update", "startGrace", "markGrace", "cancelGrace", "preset"} \subseteq BillingStep
  BY DEF BillingStep
<1>6. /\ Continue(c, "read") => Bills(c)
      /\ Continue(c, "update") => Bills(c)
      /\ Continue(c, "startGrace") => Bills(c)
      /\ Continue(c, "markGrace") => Bills(c)
      /\ Continue(c, "cancelGrace") => Bills(c)
      /\ Continue(c, "preset") => Bills(c)
      /\ ReadRow(c, "stats") => Bills(c)
      /\ ReadRow(c, "deduct") => Bills(c)
  BY <1>4, <1>5
<1>7. Goto(c, "update") /\ UNCHANGED <<msg, left, row>> => Bills(c)
  BY <1>1, <1>5 DEF Bills, Goto, LocalType, OthersOf
<1>8. Bills(c)
  <2>1. CASE BillingUpdate(c)
    <3> DEFINE step == IF after[c] > 0 /\ after[c] <= GraceThreshold /\ ~row[c].grace
                       THEN "startGrace"
                       ELSE IF after[c] > GraceThreshold /\ after[c] > LowThreshold
                       THEN "cancelGrace" ELSE "preset"
    <3>1. BillingReturns(c) \/ Continue(c, step)
      BY <2>1 DEF BillingUpdate
    <3>2. step \in BillingStep
      BY <1>5
    <3> HIDE DEF step
    <3> QED BY <3>1, <3>2, <1>3, <1>4
  <2>2. CASE Deduct(c)
    <3>1. \/ Continue(c, "update") \/ Continue(c, "startGrace") \/ BillingReturns(c)
          \/ Goto(c, "update") /\ UNCHANGED <<msg, left, row>>
      BY <2>2 DEF Deduct
    <3> QED BY <3>1, <1>3, <1>6, <1>7
  <2>3. CASE BillingRead(c)
    <3> DEFINE step == IF session.user THEN "deduct" ELSE "stats"
    <3>1. BillingReturns(c) \/ ReadRow(c, step)
      BY <2>3 DEF BillingRead
    <3>2. step \in BillingStep
      BY <1>5
    <3> HIDE DEF step
    <3> QED BY <3>1, <3>2, <1>3, <1>4
  <2>4. CASE UpdateSessionMeter(c) \/ BillingStats(c) \/ StartGrace(c) \/ MarkGrace(c) \/ CancelGrace(c)
    <3>1. Continue(c, "read") \/ Continue(c, "markGrace") \/ Continue(c, "preset") \/ BillingReturns(c)
      BY <2>4 DEF UpdateSessionMeter, BillingStats, StartGrace, MarkGrace, CancelGrace
    <3> QED BY <3>1, <1>3, <1>6
  <2>5. CASE PresetCheck(c)
    BY <2>5, <1>3 DEF PresetCheck
  <2> QED BY <2>1, <2>2, <2>3, <2>4, <2>5 DEF Billing
<1>9. UNCHANGED <<charging, active, ledger>>
  BY DEF Billing, UpdateSessionMeter, BillingRead, BillingStats, Deduct, BillingUpdate, StartGrace,
     MarkGrace, CancelGrace, PresetCheck, tables, charger
<1>10. wallet'.locked = wallet.locked
  <2>1. CASE Deduct(c)
    <3>1. PICK cost : wallet' = wallet \/ wallet' = [wallet EXCEPT !.balance = @ - cost]
      BY <2>1 DEF Deduct
    <3> QED BY <1>1, <3>1
  <2>2. CASE \/ UpdateSessionMeter(c) \/ BillingRead(c) \/ BillingStats(c)
             \/ StartGrace(c) \/ MarkGrace(c) \/ CancelGrace(c)
    BY <2>2 DEF UpdateSessionMeter, BillingRead, BillingStats, StartGrace, MarkGrace, CancelGrace, tables
  <2>3. CASE BillingUpdate(c)
    BY <2>3 DEF BillingUpdate
  <2>4. CASE PresetCheck(c)
    BY <2>4 DEF PresetCheck, tables
  <2> QED BY <2>1, <2>2, <2>3, <2>4 DEF Billing
<1> QED BY <1>2, <1>8, <1>9, <1>10 DEF Same, KeyUsed

LEMMA NotifiedLeaves ==
  ASSUME IInv, NEW c \in Call, Notified(c)
  PROVE  /\ OthersOf(c) /\ Same /\ pc[c] \in {"find", "status", "setStatus"}
         /\ \/ msg'[c] = msg[c] /\ pc'[c] \in {"status", "setStatus"}
            \/ msg'[c] = Nothing /\ pc'[c] = "idle"
<1>1. LocalType
  BY DEF IInv, LocalInv
<1>2. UNCHANGED <<charging, active, ledger, wallet>> /\ pc[c] \in {"find", "status", "setStatus"}
  BY DEF Notified, FindFaulted, StatusRead, SetStatus, tables, charger
<1>3. Continue(c, "status") \/ Continue(c, "setStatus") \/ Reply(c)
  BY DEF Notified, FindFaulted, StatusRead, SetStatus
<1> QED BY <1>1, <1>2, <1>3, ContinueLeaves, ReplyLeaves DEF Same, KeyUsed

\* A message other than a StopTransaction starts a handler that does not end the
\* session.
LEMMA DeliverLeaves ==
  ASSUME IInv, NEW c \in Call, NEW m \in Message, Deliver(c, m), m.kind # "none"
  PROVE  /\ OthersOf(c) /\ pc[c] = "idle"
         /\ UNCHANGED <<active, ledger, wallet, session>>
         /\ m.kind = "StopTransaction" => msg'[c] = m /\ pc'[c] = "read"
         /\ m.kind # "StopTransaction" => msg'[c] \in {msg[c], m} /\ pc'[c] \in {"idle", "meter", "find", "status"}
         /\ pc'[c] = "meter" => active
<1>1. LocalType
  BY DEF IInv, LocalInv
<1>2. UNCHANGED <<active, ledger, wallet, session, row>> /\ pc[c] = "idle"
  BY DEF Deliver, tables
<1>3. /\ m.kind = "StopTransaction" => FirstStep(m) = "read"
      /\ m.kind # "StopTransaction" => FirstStep(m) \in {"idle", "meter", "find", "status"}
      /\ FirstStep(m) = "meter" => active
  BY DEF FirstStep, Message
<1>4. pc'[c] = FirstStep(m) /\ (msg'[c] = m \/ (msg'[c] = msg[c] /\ FirstStep(m) = "idle")) /\ OthersOf(c)
  BY <1>1, <1>2 DEF Deliver, Goto, LocalType, OthersOf
<1> QED BY <1>2, <1>3, <1>4

\* A step of a handler that does not end the session, unless it is the charger's
\* StopTransaction.
LEMMA AwayStays ==
  ASSUME IInv, MaxResends = 0, NEW c \in Call, Away(c), Proceed(c) \/ Send(c), charging' = charging
  PROVE  OthersOf(c) /\ Same /\ Away(c)'
<1>1. LocalType
  BY DEF IInv, LocalInv
<1>2. \A x \in {"idle", "meter", "find", "status", "setStatus"} \cup BillingStep : x \notin Ends
  BY DEF BillingStep, SettleStep, Ends
<1>3. Nothing.kind = "none"
  BY DEF Nothing
<1>4. CASE Billing(c)
  BY <1>2, <1>3, <1>4, BillingLeaves DEF Bills, Away, Stops
<1>5. CASE Stopping(c)
  <2>1. pc[c] \in Ends
    BY <1>5 DEF Stopping, FinalizeRead, FinalizeClose, Settle, SettleCancel, ClearGrace, PostUser,
       CreateUser, PostOwner, PostCommission, PostShare, Unlock, ResetState, Ends, SettleStep
  <2> QED BY <2>1 DEF Away
<1>6. CASE Notified(c)
  BY <1>2, <1>3, <1>6, NotifiedLeaves DEF Away, Stops
<1>7. CASE Send(c)
  <2>1. ~(resends < MaxResends)
    BY DEF IInv, EnvironmentType
  <2>2. PICK m \in Message : Deliver(c, m) /\ m.kind # "none" /\ m.kind # "StopTransaction"
    BY <1>7, <2>1, Sends
  <2>3. OthersOf(c) /\ UNCHANGED <<active, ledger, wallet>> /\ msg'[c] \in {msg[c], m}
        /\ pc'[c] \in {"idle", "meter", "find", "status"}
    BY <2>2, DeliverLeaves
  <2> QED BY <1>2, <2>2, <2>3 DEF Same, KeyUsed, Away, Stops
<1> QED BY <1>4, <1>5, <1>6, <1>7 DEF Proceed

\* What keeps the last phase of a session.
LEMMA EndingStays ==
  ASSUME NEW s \in Call, Ending(s), OthersOf(s), UNCHANGED <<charging, active>>,
         session'.preset = session.preset, session'.user = session.user,
         msg'[s] = msg[s], pc'[s] \in BillingStep \cup Ends,
         pc'[s] \in Copied => row'[s].preset = session.preset /\ row'[s].user = session.user,
         KeyUsed("user")' => pc'[s] \in Posted,
         wallet'.locked = OtherLock + (IF pc'[s] = "reset" THEN 0 ELSE session.preset)
  PROVE  Ending(s)'
BY DEF Ending, Away, Stops, OthersOf

\* What the handler of the StopTransaction does after the readings.
LEMMA StoppingEnds ==
  ASSUME IInv, NEW s \in Call, Ending(s), Stopping(s), session.user \/ session.preset = 0,
         session'.preset = session.preset, session'.user = session.user
  PROVE  Ending(s)' \/ Over'
<1>1. LocalType /\ session \in SessionRow /\ wallet \in [balance : Nat, locked : Nat] /\ OtherLock \in Nat
  BY SessionAssumption DEF IInv, LocalInv, RowInv, TableType
<1>2. "finalize" \notin Copied /\ "close" \notin Copied /\ "settle" \notin Copied
  BY DEF Copied, Posted
<1>3. /\ {"settleCancel", "clearGrace", "postUser", "createUser"} \cup Posted \subseteq Copied
      /\ {"finalize", "close", "reset", "settle"} \cup Copied \subseteq Ends
      /\ Posted = {"postOwner", "postCommission", "unlock", "reset"}
  BY DEF Copied, Posted, Ends, SettleStep
<1>4. UNCHANGED charging
  BY DEF Stopping, FinalizeRead, FinalizeClose, Settle, SettleCancel, ClearGrace, PostUser,
     CreateUser, PostOwner, PostCommission, PostShare, Unlock, ResetState, charger
<1>5. /\ wallet.locked = OtherLock + (IF pc[s] = "reset" THEN 0 ELSE session.preset)
      /\ KeyUsed("user") => pc[s] \in Posted
      /\ pc[s] \in Copied => row[s].preset = session.preset /\ row[s].user = session.user
  BY DEF Ending
<1>6. ASSUME NEW step \in Ends \ {"reset"}, Continue(s, step), pc[s] # "reset",
             UNCHANGED <<active, ledger, wallet>>,
             pc[s] \in Posted => step \in Posted, step \in Copied => pc[s] \in Copied
      PROVE  Ending(s)'
  BY <1>1, <1>4, <1>5, <1>6, ContinueLeaves, EndingStays DEF KeyUsed
<1>7. CASE FinalizeRead(s)
  <2> DEFINE step == IF session.ended THEN "settle" ELSE "close"
  <2>1. Continue(s, step) /\ pc[s] = "finalize" /\ UNCHANGED <<active, ledger, wallet>>
    BY <1>7 DEF FinalizeRead, tables
  <2>2. step \in {"settle", "close"}
    OBVIOUS
  <2> HIDE DEF step
  <2> QED BY <1>2, <1>3, <1>6, <2>1, <2>2
<1>8. CASE FinalizeClose(s)
  BY <1>2, <1>3, <1>6, <1>8 DEF FinalizeClose
<1>9. CASE Settle(s)
  <2>1. ReadRow(s, "settleCancel") /\ pc[s] = "settle" /\ UNCHANGED <<active, ledger, wallet>>
    BY <1>9 DEF Settle, tables
  <2> QED BY <1>1, <1>2, <1>3, <1>4, <1>5, <2>1, ReadRowLeaves, EndingStays DEF KeyUsed
<1>10. CASE SettleCancel(s)
  BY <1>3, <1>6, <1>10 DEF SettleCancel
<1>11. CASE ClearGrace(s)
  <2> DEFINE step == IF row[s].totalCost > 0 /\ row[s].user THEN "postUser" ELSE "unlock"
  <2>1. Continue(s, step) /\ pc[s] = "clearGrace" /\ UNCHANGED <<active, ledger, wallet>>
    BY <1>11 DEF ClearGrace
  <2>2. step \in {"postUser", "unlock"}
    OBVIOUS
  <2> HIDE DEF step
  <2> QED BY <1>3, <1>6, <2>1, <2>2
<1>12. CASE PostUser(s)
  <2>1. ~KeyUsed("user")
    BY <1>3, <1>5, <1>12 DEF PostUser
  <2>2. Continue(s, "createUser") /\ pc[s] = "postUser" /\ UNCHANGED <<active, ledger, wallet>>
    BY <2>1, <1>12 DEF PostUser, tables
  <2> QED BY <1>3, <1>6, <2>2
<1>13. CASE CreateUser(s)
  <2>1. ~KeyUsed("user")
    BY <1>3, <1>5, <1>13 DEF CreateUser
  <2>2. Continue(s, "postOwner") /\ pc[s] = "createUser" /\ UNCHANGED <<active, wallet>>
    BY <2>1, <1>13 DEF CreateUser
  <2> QED BY <1>1, <1>3, <1>4, <1>5, <2>2, ContinueLeaves, EndingStays
<1>14. CASE PostOwner(s) \/ PostCommission(s)
  <2>1. /\ (pc[s] = "postOwner" /\ Continue(s, "postCommission")) \/ (pc[s] = "postCommission" /\ Continue(s, "unlock"))
        /\ UNCHANGED <<active, wallet>>
    BY <1>14 DEF PostOwner, PostCommission, PostShare
  <2> QED BY <1>1, <1>3, <1>4, <1>5, <2>1, ContinueLeaves, EndingStays
<1>15. CASE Unlock(s)
  <2>1. Continue(s, "reset") /\ pc[s] = "unlock" /\ active' = active
    BY <1>15 DEF Unlock
  <2>2. wallet'.locked = OtherLock
    <3>1. wallet.locked = OtherLock + session.preset /\ session.preset \in Nat
      BY <1>1, <1>5, <2>1 DEF SessionRow
    <3>2. row[s].preset = session.preset /\ row[s].user = session.user
      BY <1>3, <1>5, <2>1
    <3>3. CASE session.user
      <4>1. wallet'.locked = Max0(wallet.locked - session.preset)
        BY <1>1, <1>15, <3>2, <3>3 DEF Unlock
      <4> QED BY <1>1, <3>1, <4>1 DEF Max0
    <3>4. CASE ~session.user
      BY <1>1, <1>15, <3>1, <3>2, <3>4 DEF Unlock
    <3> QED BY <3>3, <3>4
  <2> QED BY <1>1, <1>3, <1>4, <1>5, <2>1, <2>2, ContinueLeaves, EndingStays
<1>16. CASE ResetState(s)
  <2>1. pc[s] = "reset" /\ ~active' /\ wallet' = wallet /\ Reply(s)
    BY <1>16 DEF ResetState, tables
  <2>2. OthersOf(s) /\ pc'[s] = "idle" /\ msg'[s].kind = "none"
    BY <1>1, <2>1, ReplyLeaves DEF Nothing
  <2>3. ASSUME NEW c \in Call PROVE Away(c)'
    BY <2>2 DEF Ending, Away, Stops, OthersOf, Ends, SettleStep
  <2>4. wallet'.locked = OtherLock
    BY <1>1, <1>5, <2>1
  <2> QED BY <1>4, <2>1, <2>3, <2>4 DEF Over, Ending
<1> QED BY <1>7, <1>8, <1>9, <1>10, <1>11, <1>12, <1>13, <1>14, <1>15, <1>16 DEF Stopping

LEMMA OthersLeave ==
  ASSUME IInv, Charge \/ Listener \/ Webhook \/ GraceWorker \/ UNCHANGED vars
  PROVE  Same /\ UNCHANGED <<pc, msg, row>>
<1>1. wallet \in [balance : Nat, locked : Nat]
  BY DEF IInv, TableType
<1>2. UNCHANGED <<pc, msg, row, charging, active>>
  BY DEF Charge, Listener, FaultRead, FaultRefund, FaultClose, Webhook, WebhookTopUp, WebhookFind,
     WebhookCancel, WebhookClear, GraceWorker, WorkerTake, WorkerCheck, WorkerStop, WorkerEnd,
     WorkerExecuted, tables, locals, charger, vars
<1>3. CASE WebhookTopUp
  BY <1>1, <1>2, <1>3 DEF WebhookTopUp, Same, KeyUsed
<1>4. CASE UNCHANGED <<wallet, ledger>>
  BY <1>2, <1>4 DEF Same, KeyUsed
<1>5. WebhookTopUp \/ UNCHANGED <<wallet, ledger>>
  BY DEF Charge, Listener, FaultRead, FaultRefund, FaultClose, Webhook, WebhookFind,
     WebhookCancel, WebhookClear, GraceWorker, WorkerTake, WorkerCheck, WorkerStop, WorkerEnd,
     WorkerExecuted, tables, vars
<1> QED BY <1>3, <1>4, <1>5

\* A step that leaves the end of the session alone, of no handler or of one that
\* does not end it, keeps the phase.
LEMMA PhaseStays ==
  ASSUME Phases, Same, session'.preset = session.preset, session'.user = session.user,
         \/ UNCHANGED <<pc, msg, row>>
         \/ \E c \in Call : Away(c) /\ OthersOf(c) /\ Away(c)'
  PROVE  Phases'
<1>1. PICK D \in SUBSET Call :
        /\ \A c \in Call \ D : pc'[c] = pc[c] /\ msg'[c] = msg[c] /\ row'[c] = row[c]
        /\ \A c \in D : Away(c) /\ Away(c)'
  <2>1. CASE UNCHANGED <<pc, msg, row>>
    <3> WITNESS {} \in SUBSET Call
    <3> QED BY <2>1
  <2>2. ASSUME NEW c \in Call, Away(c), OthersOf(c), Away(c)'
        PROVE  \E D \in SUBSET Call :
                 /\ \A d \in Call \ D : pc'[d] = pc[d] /\ msg'[d] = msg[d] /\ row'[d] = row[d]
                 /\ \A d \in D : Away(d) /\ Away(d)'
    <3> WITNESS {c} \in SUBSET Call
    <3> QED BY <2>2 DEF OthersOf
  <2> QED BY <2>1, <2>2
<1>2. ASSUME NEW c \in Call, Away(c) PROVE Away(c)'
  BY <1>1, <1>2 DEF Away, Stops
<1>3. Charging => Charging'
  BY <1>2 DEF Charging, Same
<1>4. Over => Over'
  BY <1>2 DEF Over, Same
<1>5. ASSUME NEW s \in Call, Ending(s) PROVE Ending(s)'
  <2>1. s \notin D
    BY <1>1, <1>5 DEF Ending, Away
  <2> QED BY <1>1, <1>2, <1>5, <2>1 DEF Ending, Same, Stops
<1> QED BY <1>3, <1>4, <1>5 DEF Phases

LEMMA NextPhases ==
  ASSUME IInv, Phases, MaxResends = 0, ~MayFail, [Next]_vars
  PROVE  Phases'
<1>1. session'.user = session.user /\ session'.preset = session.preset
  BY SessionStays
<1>2. CASE Charge \/ Listener \/ Webhook \/ GraceWorker \/ UNCHANGED vars
  BY <1>1, <1>2, OthersLeave, PhaseStays
<1>3. ~OtherThrows /\ ~Crash /\ \A c \in Call : ~Throws(c)
  BY DEF OtherThrows, Crash, Throws
<1>4. ASSUME NEW c \in Call, Away(c), Proceed(c) \/ Send(c), charging' = charging PROVE Phases'
  <2>1. OthersOf(c) /\ Same /\ Away(c)'
    BY <1>4, AwayStays
  <2> QED BY <1>1, <1>4, <2>1, PhaseStays
<1>5. ASSUME NEW c \in Call, Send(c) PROVE Phases'
  <2>1. ~(resends < MaxResends)
    BY DEF IInv, EnvironmentType
  <2>2. PICK m \in Message : /\ Deliver(c, m) /\ m.kind # "none"
                             /\ IF m.kind = "StopTransaction" THEN charging /\ ~charging'
                                ELSE charging' = charging
    BY <1>5, <2>1, Sends
  <2>3. CASE m.kind # "StopTransaction"
    <3>1. pc[c] = "idle"
      BY <2>2 DEF Deliver
    <3>2. Away(c)
      <4>1. \A d \in Call : Away(d) \/ pc[d] \in BillingStep \cup Ends
        BY DEF Phases, Charging, Over, Ending
      <4> QED BY <3>1, <4>1 DEF BillingStep, SettleStep, Ends
    <3> QED BY <1>4, <1>5, <2>2, <2>3, <3>2
  <2>4. CASE m.kind = "StopTransaction"
    <3>1. Charging
      BY <2>2, <2>4 DEF Phases, Over, Ending
    <3>2. OthersOf(c) /\ UNCHANGED <<active, ledger, wallet, session>> /\ msg'[c] = m /\ pc'[c] = "read"
      BY <2>2, <2>4, DeliverLeaves
    <3>3. ASSUME NEW d \in Call \ {c} PROVE Away(d)'
      BY <3>1, <3>2 DEF Charging, Away, Stops, OthersOf
    <3>4. "read" \in BillingStep /\ "read" \notin Copied /\ "read" \notin Posted
      BY DEF BillingStep, Copied, Posted
    <3>5. Ending(c)'
      BY <2>2, <2>4, <3>1, <3>2, <3>3, <3>4 DEF Charging, Ending, Stops, KeyUsed
    <3> QED BY <1>1, <3>5 DEF Phases
  <2> QED BY <2>3, <2>4
<1>6. ASSUME NEW c \in Call, Proceed(c) PROVE Phases'
  <2>1. CASE Away(c)
    <3>1. charging' = charging
      <4>1. CASE Stopping(c)
        BY <4>1 DEF Stopping, FinalizeRead, FinalizeClose, Settle, SettleCancel, ClearGrace, PostUser,
           CreateUser, PostOwner, PostCommission, PostShare, Unlock, ResetState, charger
      <4> QED BY <1>6, <4>1, BillingLeaves, NotifiedLeaves DEF Proceed, Same
    <3> QED BY <1>4, <1>6, <2>1, <3>1
  <2>2. CASE ~Away(c)
    <3>1. Ending(c)
      BY <2>2 DEF Phases, Charging, Over, Ending
    <3>2. CASE Billing(c)
      <4>1. Bills(c) /\ Same /\ pc[c] \in BillingStep \cup {"meter"}
        BY <3>2, BillingLeaves
      <4>2. \A x \in BillingStep \cup {"meter", "finalize"} : x \notin Copied /\ x \notin Posted /\ x # "reset"
        BY DEF BillingStep, Copied, Posted
      <4>3. msg'[c] = msg[c] /\ pc'[c] \in BillingStep \cup {"finalize"} /\ OthersOf(c)
        BY <3>1, <4>1 DEF Bills, Ending
      <4>4. "finalize" \in Ends
        BY DEF Ends
      <4>5. Ending(c)'
        BY <1>1, <3>1, <4>1, <4>2, <4>3, <4>4, EndingStays DEF Same, Ending
      <4> QED BY <1>1, <4>5 DEF Phases
    <3>3. CASE Stopping(c)
      BY <1>1, <3>1, <3>3, StoppingEnds DEF Phases
    <3>4. CASE Notified(c)
      <4>1. pc[c] \in {"find", "status", "setStatus"}
        BY <3>4, NotifiedLeaves
      <4> QED BY <3>1, <4>1 DEF Ending, BillingStep, SettleStep, Ends
    <3> QED BY <1>6, <3>2, <3>3, <3>4 DEF Proceed
  <2> QED BY <2>1, <2>2
<1> QED BY <1>2, <1>3, <1>5, <1>6 DEF Next

LEMMA InitPhases ==
  ASSUME Init
  PROVE  Phases
<1>1. PICK u, p : /\ u \/ p = 0
                  /\ session = [user |-> u, preset |-> p, ended |-> FALSE, grace |-> FALSE,
                     status |-> "CHARGING", lastBilled |-> MeterStart, energyUsed |-> 0,
                     totalCost |-> 0, owner |-> 0, commission |-> 0]
                  /\ wallet = [balance |-> Opening, locked |-> OtherLock + p]
  BY DEF Init
<1>2. session.user = u /\ session.preset = p /\ wallet.locked = OtherLock + p
  BY <1>1
<1>3. charging /\ active /\ ~KeyUsed("user")
  BY DEF Init, KeyUsed
<1>4. ASSUME NEW c \in Call PROVE Away(c)
  BY DEF Init, Away, Stops, Nothing, Ends, SettleStep
<1> QED BY <1>1, <1>2, <1>3, <1>4 DEF Phases, Charging

\* While the charger charges the whole budget is reserved; after it has stopped
\* exactly one handler ends the session, and the budget is reserved until that one
\* has unlocked it.
LEMMA AlwaysPhased ==
  ASSUME MaxResends = 0, ~MayFail
  PROVE  Spec => []Phases
<1>1. Init => Phases
  BY InitPhases
<1>2. IInv /\ Phases /\ [Next]_vars => Phases'
  BY NextPhases
<1> QED BY <1>1, <1>2, Inductive, PTL DEF Spec

\* A settled session has given back its reservation and took none of another
\* session, when no database call fails and the charger repeats no message: with
\* any number of handlers at once, faults of the charger, top-ups and the grace
\* worker in between.
THEOREM ReservationIsReleased ==
  ASSUME MaxResends = 0, ~MayFail
  PROVE  Spec => []ReservationReleased
<1>1. Phases => ReservationReleased
  BY DEF Phases, Charging, Ending, Over, ReservationReleased, Settled
<1> QED BY <1>1, AlwaysPhased, PTL

-----------------------------------------------------------------------------
\* The books of a session, when the charger waits for each answer

\* What has been taken for the session: the total of the row, or what the handler
\* is about to write to it.
Bill(c) == IF pc[c] = "update" THEN row[c].totalCost + EnergyCost(NewEnergy(c))
           ELSE session.totalCost

Debit(amount) == [key |-> "user", amount |-> amount]

\* The total is what was taken, the copy the end of the session works on has it,
\* and from the post on the debit of it is on the books.
Books(c) ==
  /\ ~active => pc[c] \notin BillingStep \cup {"meter"}
  /\ session.user /\ ~repriced =>
       /\ charged = Bill(c) /\ pc[c] # "stats"
       /\ pc[c] \in {"deduct"} \cup Copied => row[c].totalCost = session.totalCost
       /\ (pc[c] \in Posted \/ ~active) /\ session.totalCost > 0 => Debit(session.totalCost) \in ledger

\* Billing of one handler keeps the bill exact.
LEMMA BillingBooks ==
  ASSUME IInv, ~MayFail, NEW c \in Call, Books(c), session.user, ~repriced, Billing(c)
  PROVE  /\ charged' = Bill(c)' /\ pc'[c] # "stats"
         /\ pc'[c] = "deduct" => row'[c].totalCost = session'.totalCost
<1>1. pc[c] \in Step /\ pc \in [Call -> Step] /\ pc[c] # "stats" /\ charged = Bill(c)
  BY OfHandler DEF IInv, LocalInv, LocalType, Books
<1>2. CASE BillingUpdate(c)
  <2>1. Writes(c) /\ pc[c] = "update"
    BY <1>2, BillingUpdateWrites DEF BillingUpdate
  <2> QED BY <1>1, <2>1 DEF Writes, Moves, Bill
<1>3. CASE Deduct(c)
  <2>1. pc[c] = "deduct" /\ session' = session /\ row[c].totalCost = session.totalCost
    BY <1>3 DEF Deduct, Books
  <2>2. CASE Passes(c) /\ charged' = charged
    BY <1>1, <2>1, <2>2 DEF Passes, Moves, SameBill, Bill
  <2>3. CASE Takes(c)
    <3>1. pc'[c] = "update" /\ row' = row /\ left' = left /\ charged' = charged + EnergyCost(NewEnergy(c))
      BY <1>1, <2>3 DEF Takes
    <3>2. NewEnergy(c)' = NewEnergy(c)
      BY <3>1 DEF NewEnergy, Reading, LastBilled
    <3> QED BY <1>1, <2>1, <3>1, <3>2 DEF Bill
  <2> QED BY <1>3, <2>2, <2>3, DeductDoes
<1>4. CASE ~BillingUpdate(c) /\ ~Deduct(c)
  <2>1. pc[c] \notin {"deduct", "update", "stats"}
    BY <1>1, <1>4 DEF Billing, UpdateSessionMeter, BillingRead, BillingStats, StartGrace,
       MarkGrace, CancelGrace, PresetCheck
  <2>2. Passes(c)
    BY <2>1, BillingDoes DEF Takes, Counts, Writes
  <2> QED BY <1>1, <2>1, <2>2 DEF Passes, Moves, SameBill, Bill
<1> QED BY <1>2, <1>3, <1>4

\* The end of the session posts the total.
LEMMA StoppingBooks ==
  ASSUME IInv, NEW c \in Call, Ending(c), Books(c), session.user, ~repriced, Stopping(c)
  PROVE  /\ charged' = Bill(c)' /\ pc'[c] \notin {"stats", "deduct"}
         /\ pc'[c] \in Copied => row'[c].totalCost = session'.totalCost
         /\ (pc'[c] \in Posted \/ ~active') /\ session'.totalCost > 0 => Debit(session'.totalCost) \in ledger'
<1>1. LocalType /\ pc[c] \in Ends /\ charged = Bill(c)
  BY DEF IInv, LocalInv, Books, Stopping, FinalizeRead, FinalizeClose, Settle, SettleCancel, ClearGrace,
     PostUser, CreateUser, PostOwner, PostCommission, PostShare, Unlock, ResetState, Ends, SettleStep
<1>2. \A x \in Ends \cup {"idle"} : x \notin {"deduct", "update", "stats"}
  BY DEF Ends, SettleStep
<1>3. session'.totalCost = session.totalCost /\ charged' = charged
  BY <1>1, <1>2, StoppingPasses DEF Passes, SameBill
<1>4. session.totalCost \in Nat /\ ledger \subseteq ledger'
  BY RowFields DEF IInv, RowInv, Stopping, FinalizeRead, FinalizeClose, Settle, SettleCancel, ClearGrace,
     PostUser, CreateUser, PostOwner, PostCommission, PostShare, Unlock, ResetState, tables, Post
<1>5. /\ pc[c] \in Copied => row[c].totalCost = session.totalCost /\ row[c].user
      /\ pc[c] \in Posted /\ session.totalCost > 0 => Debit(session.totalCost) \in ledger
      /\ KeyUsed("user") => pc[c] \in Posted
      /\ active
  BY DEF Ending, Books
<1>6. /\ Copied = {"settleCancel", "clearGrace", "postUser", "createUser", "postOwner", "postCommission", "unlock", "reset"}
      /\ Posted = {"postOwner", "postCommission", "unlock", "reset"}
  BY DEF Copied, Posted
<1> DEFINE Kept == /\ pc'[c] \in Ends \cup {"idle"}
                   /\ pc'[c] \in Copied => row'[c].totalCost = session.totalCost
                   /\ (pc'[c] \in Posted \/ ~active') /\ session.totalCost > 0 => Debit(session.totalCost) \in ledger'
<1>7. ASSUME NEW step \in Ends, Continue(c, step), step \in Copied => pc[c] \in Copied, active' = active,
             step \in Posted /\ session.totalCost > 0 => pc[c] \in Posted \/ Debit(session.totalCost) \in ledger'
      PROVE  Kept
  BY <1>1, <1>4, <1>5, <1>7, ContinueLeaves
<1>8. {"finalize", "close", "settle"} \cup Copied \subseteq Ends
  BY <1>6 DEF Ends, SettleStep
<1>9. Kept
  <2> HIDE DEF Kept
  <2>1. CASE FinalizeRead(c)
    <3> DEFINE step == IF session.ended THEN "settle" ELSE "close"
    <3>1. Continue(c, step) /\ active' = active
      BY <2>1 DEF FinalizeRead
    <3>2. step \in {"settle", "close"}
      OBVIOUS
    <3> HIDE DEF step
    <3> QED BY <1>6, <1>7, <1>8, <3>1, <3>2
  <2>2. CASE FinalizeClose(c)
    BY <1>6, <1>7, <1>8, <2>2 DEF FinalizeClose
  <2>3. CASE Settle(c)
    <3>1. ReadRow(c, "settleCancel") /\ active' = active
      BY <2>3 DEF Settle
    <3>2. pc'[c] = "settleCancel" /\ row'[c] = session
      BY <1>1, <3>1, ReadRowLeaves
    <3> QED BY <1>5, <1>6, <1>8, <3>1, <3>2 DEF Kept
  <2>4. CASE SettleCancel(c)
    BY <1>6, <1>7, <1>8, <2>4 DEF SettleCancel
  <2>5. CASE ClearGrace(c)
    <3> DEFINE step == IF row[c].totalCost > 0 /\ row[c].user THEN "postUser" ELSE "unlock"
    <3>1. Continue(c, step) /\ active' = active /\ pc[c] \in Copied
      BY <1>6, <2>5 DEF ClearGrace
    <3>2. step = "postUser" \/ (step = "unlock" /\ ~(session.totalCost > 0))
      BY <1>5, <3>1
    <3> HIDE DEF step
    <3> QED BY <1>6, <1>7, <1>8, <3>1, <3>2
  <2>6. CASE PostUser(c)
    <3>1. Continue(c, "createUser") /\ active' = active /\ pc[c] = "postUser"
      BY <1>5, <1>6, <2>6 DEF PostUser
    <3> QED BY <1>6, <1>7, <1>8, <3>1
  <2>7. CASE CreateUser(c)
    <3>1. pc[c] = "createUser" /\ Continue(c, "postOwner") /\ Post("user", row[c].totalCost) /\ active' = active
      BY <1>5, <1>6, <2>7 DEF CreateUser
    <3>2. Debit(session.totalCost) \in ledger'
      BY <1>5, <1>6, <3>1 DEF Post, Debit
    <3> QED BY <1>6, <1>7, <1>8, <3>1, <3>2
  <2>8. CASE PostOwner(c) \/ PostCommission(c)
    <3>1. /\ pc[c] \in {"postOwner", "postCommission"} /\ active' = active
          /\ Continue(c, "postCommission") \/ Continue(c, "unlock")
      BY <2>8 DEF PostOwner, PostCommission, PostShare
    <3> QED BY <1>6, <1>7, <1>8, <3>1
  <2>9. CASE Unlock(c)
    <3>1. pc[c] = "unlock" /\ Continue(c, "reset") /\ active' = active
      BY <2>9 DEF Unlock
    <3> QED BY <1>6, <1>7, <1>8, <3>1
  <2>10. CASE ResetState(c)
    <3>1. pc[c] = "reset" /\ pc'[c] = "idle"
      BY <1>1, <2>10, ReplyLeaves DEF ResetState
    <3> QED BY <1>4, <1>5, <1>6, <3>1 DEF Kept
  <2> QED BY <2>1, <2>2, <2>3, <2>4, <2>5, <2>6, <2>7, <2>8, <2>9, <2>10 DEF Stopping
<1> QED BY <1>1, <1>2, <1>3, <1>9 DEF Bill

LEMMA NextBooks ==
  ASSUME IInv, IInv', Phases, NEW c, Call = {c}, Books(c), MaxResends = 0, ~MayFail,
         [Next]_vars
  PROVE  Books(c)'
<1>1. /\ session'.user = session.user /\ ledger \subseteq ledger' /\ c \in Call
      /\ repriced => repriced'
  BY SessionStays, LedgerGrows, RepricedStays
<1>2. ~OtherThrows /\ ~Crash /\ \A d \in Call : ~Throws(d)
  BY DEF OtherThrows, Crash, Throws
<1>3. CASE Charge \/ Listener \/ Webhook \/ GraceWorker \/ UNCHANGED vars
  <2>1. /\ UNCHANGED <<pc, row, active, charged>>
        /\ repriced' \/ session'.totalCost = session.totalCost
        /\ left' = left \/ pc[c] = "idle"
    BY <1>1, <1>3, OthersLeave, OthersDo DEF Same, SameBill
  <2>2. repriced' \/ Bill(c)' = Bill(c)
    BY <2>1 DEF Bill, NewEnergy, Reading, LastBilled
  <2> QED BY <1>1, <2>1, <2>2 DEF Books
<1>4. CASE Send(c)
  <2>1. ~(resends < MaxResends)
    BY DEF IInv, EnvironmentType
  <2>2. PICK m \in Message : /\ Deliver(c, m) /\ m.kind # "none"
                             /\ m.kind = "StopTransaction" => charging
    BY <1>1, <1>4, <2>1, Sends
  <2>3. /\ pc[c] = "idle" /\ UNCHANGED <<active, ledger, session>>
        /\ pc'[c] \in {"idle", "meter", "find", "status", "read"}
        /\ pc'[c] = "meter" => active /\ (pc'[c] = "read" => charging)
    BY <1>1, <2>2, DeliverLeaves
  <2>4. pc'[c] = "read" => active
    BY <1>1, <2>2, DeliverLeaves DEF Phases, Charging, Over, Ending
  <2>5. charged' = charged
    BY <1>1, <2>2, <2>3, DeliverPasses DEF Passes
  <2> QED BY <1>1, <2>3, <2>4, <2>5 DEF Books, Bill, Copied, Posted, BillingStep
<1>5. CASE Billing(c)
  <2>1. Bills(c) /\ active' = active /\ pc[c] \in BillingStep \cup {"meter"}
    BY <1>1, <1>5, BillingLeaves DEF Same
  <2>2. active /\ pc'[c] \notin Copied /\ pc'[c] \notin Posted
    BY <2>1 DEF Books, Bills, Copied, Posted, BillingStep
  <2> QED BY <1>1, <1>5, <2>1, <2>2, BillingBooks DEF Books
<1>6. CASE Stopping(c)
  <2>1. pc[c] \in Ends /\ pc[c] \notin {"idle"}
    BY <1>6 DEF Stopping, FinalizeRead, FinalizeClose, Settle, SettleCancel, ClearGrace,
     PostUser, CreateUser, PostOwner, PostCommission, PostShare, Unlock, ResetState, Ends, SettleStep
  <2>2. Ending(c)
    BY <1>1, <2>1 DEF Phases, Charging, Over, Away
  <2>3. ~active' => pc'[c] \notin BillingStep \cup {"meter"}
    <3>1. CASE ResetState(c)
      BY <1>1, <3>1, ReplyLeaves DEF ResetState, BillingStep, IInv, LocalInv
    <3>2. CASE ~ResetState(c)
      BY <1>6, <2>2, <3>2 DEF Ending, Stopping, FinalizeRead, FinalizeClose, Settle, SettleCancel, ClearGrace,
         PostUser, CreateUser, PostOwner, PostCommission, PostShare, Unlock
    <3> QED BY <3>1, <3>2
  <2> QED BY <1>1, <1>6, <2>2, <2>3, StoppingBooks DEF Books
<1>7. CASE Notified(c)
  <2>1. pc[c] \in {"find", "status", "setStatus"} /\ pc'[c] \in {"status", "setStatus", "idle"} /\ active' = active
    BY <1>1, <1>7, NotifiedLeaves DEF Same
  <2>2. session'.totalCost = session.totalCost /\ charged' = charged
    BY <1>1, <1>7, <2>1, NotifiedPasses DEF Passes, SameBill
  <2> QED BY <1>1, <2>1, <2>2 DEF Books, Bill, Copied, Posted, BillingStep
<1> QED BY <1>2, <1>3, <1>4, <1>5, <1>6, <1>7 DEF Next, Proceed

\* A settled session is on the books: what was taken from the driver's wallet, and
\* nothing else, is the amount of its consolidated debit.  For a charger that waits
\* for each answer and repeats nothing, and while no database call fails; with faults
\* until one writes a total of its own, top-ups and the grace worker at any moment.
THEOREM SettledIsRecorded ==
  ASSUME NEW c, Call = {c}, MaxResends = 0, ~MayFail
  PROVE  Spec => []SettledRecordsMoney
<1>1. Init => Books(c)
  BY InitCovered DEF Init, Books, Bill, Covered, Copied, Posted
<1>2. IInv /\ IInv' /\ Phases /\ Books(c) /\ [Next]_vars => Books(c)'
  BY NextBooks
<1>3. IInv /\ Books(c) => SettledRecordsMoney
  BY DEF IInv, HistoryType, Books, Bill, Settled, SettledRecordsMoney, Debit
<1> QED BY <1>1, <1>2, <1>3, Inductive, AlwaysPhased, PTL DEF Spec
=============================================================================
