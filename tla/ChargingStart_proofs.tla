-------------------------- MODULE ChargingStart_proofs --------------------------
(***************************************************************************)
(* Theorems about ChargingStart, for any number of connectors, handlers,   *)
(* updates under way, sessions and faults: a transaction id is given once, *)
(* a stop ends its own session and a reading is billed to its own, and the *)
(* lock of a connector follows the charge.                                 *)
(***************************************************************************)
EXTENDS ChargingStart, FiniteSetTheorems, TLAPS

-----------------------------------------------------------------------------
\* The inductive invariant

Starts(r) == r.kind = "start"
Early(r)  == r.pc \in {"authorise", "lock", "find", "create"}

RunShape ==
  /\ DOMAIN run = Handler
  /\ \A h \in Handler : {"kind", "pc", "tx"} \subseteq DOMAIN run[h]
  /\ \A h \in Handler : Early(run[h]) => Starts(run[h])

SessionShape ==
  /\ DOMAIN session = 1..MaxId
  /\ \A i \in 1..MaxId : "tx" \in DOMAIN session[i]

\* The ids that are in use are within the bound and, when the counter is there,
\* below it; before it has been read no start runs.
Below ==
  /\ txCounter \in Nat
  /\ \A i \in Rows : session[i].tx \in 1..MaxId /\ (txCounter # Null => session[i].tx < txCounter)
  /\ \A h \in Handler : Starts(run[h]) =>
       run[h].tx \in 1..MaxId /\ txCounter # Null /\ run[h].tx < txCounter

\* Two starts never have the same id.
Distinct == \A g, h \in Handler : g # h /\ Starts(run[g]) /\ Starts(run[h]) => run[g].tx # run[h].tx

\* A start that has not made its session finds none with its id.
Unused == \A h \in Handler, i \in Rows : Starts(run[h]) /\ Early(run[h]) => session[i].tx # run[h].tx

FreshInv == RunShape /\ SessionShape /\ Below /\ Distinct /\ Unused

-----------------------------------------------------------------------------
\* A set of numbers with a bound has a greatest one.

LEMMA Greatest ==
  ASSUME NEW S \in SUBSET Nat, S # {}, NEW n \in Nat, \A y \in S : y <= n
  PROVE  Max0(S) \in S /\ \A y \in S : y <= Max0(S)
<1> DEFINE B == {b \in Nat : \A y \in S : y <= b}
<1>1. PICK b \in B : \A m \in B : b <= m
  <2> DEFINE T == {0 .. b : b \in B}
  <2>1. B \subseteq Nat /\ n \in B
    OBVIOUS
  <2> HIDE DEF B
  <2>2. T # {}
    BY <2>1
  <2>3. T \subseteq FiniteSubsetsOf(Nat)
    <3>1. ASSUME NEW b \in B PROVE 0 .. b \in FiniteSubsetsOf(Nat)
      BY <2>1, FS_Interval DEF FiniteSubsetsOf
    <3> QED BY <3>1
  <2>4. PICK x \in T : \A y \in T : <<y, x>> \notin StrictSubsetOrdering(Nat)
    <3> HIDE DEF T
    <3> QED BY <2>2, <2>3, FS_StrictSubsetOrderingWellFounded, WFMin
  <2>5. PICK b \in B : x = 0 .. b
    OBVIOUS
  <2>6. ASSUME NEW m \in B PROVE b <= m
    <3> SUFFICES ASSUME m < b PROVE FALSE
      BY <2>1
    <3>1. m \in Nat /\ b \in Nat
      BY <2>1
    <3>2. 0 .. m \subseteq 0 .. b /\ 0 .. m # 0 .. b /\ 0 .. m \subseteq Nat /\ 0 .. b \subseteq Nat
      <4>1. b \in 0 .. b /\ b \notin 0 .. m
        BY <3>1
      <4> QED BY <3>1, <4>1
    <3>3. <<0 .. m, x>> \in StrictSubsetOrdering(Nat)
      BY <2>5, <3>2 DEF StrictSubsetOrdering
    <3> QED BY <2>4, <3>3
  <2> QED BY <2>6
<1>2. b \in S
  <2> SUFFICES ASSUME b \notin S PROVE FALSE
    OBVIOUS
  <2>1. PICK y \in S : TRUE
    OBVIOUS
  <2>2. \A x \in S : x <= b /\ x # b
    BY <1>1
  <2>3. b - 1 \in Nat
    BY <1>1, <2>1, <2>2
  <2>4. \A x \in S : x <= b - 1
    BY <1>1, <2>2
  <2>5. b - 1 \in B
    BY <2>3, <2>4
  <2> QED BY <1>1, <2>5
<1>3. \A y \in S : y <= b
  BY <1>1
<1> HIDE DEF B
<1> QED BY <1>2, <1>3 DEF Max0

-----------------------------------------------------------------------------
\* What most steps do to the handlers and to the sessions

RunKeeps(g) ==
  /\ Starts(run'[g]) => Starts(run[g]) /\ run'[g].tx = run[g].tx
  /\ Early(run'[g]) => Early(run[g]) /\ Starts(run'[g])

SessionKeeps(i) == session'[i].tx = session[i].tx

LEMMA Keeps ==
  ASSUME FreshInv, RunShape', SessionShape', UNCHANGED txCounter,
         \A g \in Handler : RunKeeps(g), \A i \in 1..MaxId : SessionKeeps(i)
  PROVE  FreshInv'
<1>1. \A i \in Rows' : i \in Rows /\ session'[i].tx = session[i].tx
  BY DEF Rows, SessionKeeps
<1>2. \A g \in Handler : Starts(run'[g]) => Starts(run[g]) /\ run'[g].tx = run[g].tx
  BY DEF RunKeeps
<1>3. Below'
  BY <1>1, <1>2 DEF FreshInv, Below, Starts
<1>4. Distinct'
  BY <1>2 DEF FreshInv, Distinct, Starts
<1>5. Unused'
  BY <1>1 DEF FreshInv, Unused, RunKeeps, Starts, Early
<1> QED BY <1>3, <1>4, <1>5 DEF FreshInv

\* A handler goes on, or ends.
LEMMA MovesOn ==
  ASSUME RunShape, NEW h \in Handler, NEW step, Goto(h, step),
         step \in {"authorise", "lock", "find", "create"} => Early(run[h])
  PROVE  RunShape' /\ \A g \in Handler : RunKeeps(g)
BY DEF RunShape, Goto, RunKeeps, Starts, Early

LEMMA Ends ==
  ASSUME RunShape, NEW h \in Handler, run' = [run EXCEPT ![h] = NoRun]
  PROVE  RunShape' /\ \A g \in Handler : RunKeeps(g)
BY DEF RunShape, NoRun, RunKeeps, Starts, Early

\* The sessions and the counter are left alone.
LEMMA RunStep ==
  ASSUME FreshInv, UNCHANGED <<session, txCounter>>, RunShape', \A g \in Handler : RunKeeps(g)
  PROVE  FreshInv'
<1>1. SessionShape' /\ \A i \in 1..MaxId : SessionKeeps(i)
  BY DEF FreshInv, SessionShape, SessionKeeps
<1> QED BY <1>1, Keeps

LEMMA Aside == FreshInv /\ UNCHANGED <<run, session, txCounter>> => FreshInv'
<1> SUFFICES ASSUME FreshInv, UNCHANGED <<run, session, txCounter>> PROVE FreshInv'
  OBVIOUS
<1>1. RunShape' /\ \A g \in Handler : RunKeeps(g)
  BY DEF FreshInv, RunShape, RunKeeps, Starts, Early
<1> QED BY <1>1, RunStep

-----------------------------------------------------------------------------
\* The steps of the handlers

LEMMA HandlerKeeps ==
  ASSUME FreshInv, NEW h \in Handler,
         \/ Authorise(h) \/ Refuse(h) \/ MarkChargingActive(h) \/ CreateSessionFind(h)
         \/ UpdateState(h) \/ ConfirmSession(h) \/ Reply(h) \/ Bill(h)
         \/ ReleaseLock(h) \/ DeleteLock(h) \/ Dies(h) \/ \E l \in Late : Reset(h, l) \/ FinaliseFails(h, l)
  PROVE  FreshInv'
<1>0. RunShape
  BY DEF FreshInv
<1>1. CASE Refuse(h) \/ Reply(h) \/ Bill(h) \/ Dies(h) \/ \E l \in Late : Reset(h, l) \/ FinaliseFails(h, l)
  <2>1. run' = [run EXCEPT ![h] = NoRun] /\ UNCHANGED <<session, txCounter>>
    BY <1>1 DEF Refuse, Reply, Bill, Dies, Reset, FinaliseFails, Answer
  <2> QED BY <1>0, <2>1, Ends, RunStep
<1>2. CASE Authorise(h)
  <2>1. Goto(h, "lock") /\ Early(run[h]) /\ UNCHANGED <<session, txCounter>>
    BY <1>2 DEF Authorise, At, Early
  <2> QED BY <1>0, <2>1, MovesOn, RunStep
<1>3. CASE UpdateState(h) \/ ConfirmSession(h) \/ DeleteLock(h) \/ ReleaseLock(h)
  <2>1. PICK step \in {"status", "reply", "reset", "delete"} : Goto(h, step) /\ UNCHANGED <<session, txCounter>>
    BY <1>3 DEF UpdateState, ConfirmSession, DeleteLock, ReleaseLock
  <2>2. step \notin {"authorise", "lock", "find", "create"}
    OBVIOUS
  <2> QED BY <1>0, <2>1, <2>2, MovesOn, RunStep
<1>4. CASE MarkChargingActive(h)
  <2>1. /\ run' = [run EXCEPT ![h].pc = "find", ![h].tag = "card", ![h].user = ResolvedUser(run[h].tag)]
        /\ run[h].pc = "lock" /\ UNCHANGED <<session, txCounter>>
    BY <1>4 DEF MarkChargingActive, At
  <2>2. run'[h].kind = run[h].kind /\ run'[h].tx = run[h].tx /\ DOMAIN run'[h] = DOMAIN run[h]
    BY <1>0, <2>1 DEF RunShape
  <2>3. DOMAIN run' = Handler /\ \A g \in Handler \ {h} : run'[g] = run[g]
    BY <1>0, <2>1 DEF RunShape
  <2>4. RunShape' /\ \A g \in Handler : RunKeeps(g)
    BY <1>0, <2>1, <2>2, <2>3 DEF RunShape, RunKeeps, Starts, Early
  <2> QED BY <2>1, <2>4, RunStep
<1>5. CASE CreateSessionFind(h)
  <2>1. /\ Goto(h, "create") \/ \E i \in 1..MaxId : run' = [run EXCEPT ![h] = Found(run[h], i)]
        /\ run[h].pc = "find" /\ UNCHANGED <<session, txCounter>>
    BY <1>5 DEF CreateSessionFind, At, WithTx, OpenOn, Open, Rows
  <2>2. CASE Goto(h, "create")
    <3>1. Early(run[h])
      BY <2>1 DEF Early
    <3> QED BY <1>0, <2>1, <2>2, <3>1, MovesOn, RunStep
  <2>3. ASSUME NEW i \in 1..MaxId, run' = [run EXCEPT ![h] = Found(run[h], i)] PROVE FreshInv'
    <3>1. RunShape' /\ \A g \in Handler : RunKeeps(g)
      BY <1>0, <2>3 DEF RunShape, RunKeeps, Starts, Early, Found
    <3> QED BY <2>1, <3>1, RunStep
  <2> QED BY <2>1, <2>2, <2>3
<1> QED BY <1>1, <1>2, <1>3, <1>4, <1>5

\* MeterValues and StopTransaction have handlers that are not starts.
LEMMA OtherCalls ==
  ASSUME FreshInv, NEW h \in Handler, NEW c \in Connector, MeterValues(h, c) \/ StopTransaction(h, c)
  PROVE  FreshInv'
<1> DEFINE s  == Loaded
           mv == [NoRun EXCEPT !.kind = "meter", !.pc = "bill", !.c = c,
                               !.tx = IF s.transactionId # Null THEN s.transactionId ELSE s.ocppTransactionId,
                               !.id = plug[c].id]
           st == [NoRun EXCEPT !.kind = "stop", !.pc = "finalise", !.c = c, !.at = s.connector,
                               !.tx = ActiveTransaction(s, plug[c].id), !.id = plug[c].id]
<1>1. UNCHANGED <<session, txCounter>>
  BY DEF MeterValues, StopTransaction
<1>2. run' = [run EXCEPT ![h] = mv] \/ run' = [run EXCEPT ![h] = st]
  BY DEF MeterValues, StopTransaction, Call
<1>3. \A r \in {mv, st} : {"kind", "pc", "tx"} \subseteq DOMAIN r /\ ~Starts(r) /\ ~Early(r)
  BY ZenonT(30) DEF NoRun, Starts, Early
<1> HIDE DEF mv, st
<1>4. RunShape' /\ \A g \in Handler : RunKeeps(g)
  BY <1>2, <1>3 DEF FreshInv, RunShape, RunKeeps
<1> QED BY <1>1, <1>4, RunStep

\* The end of a session is written, its id is not.
LEMMA SessionStep ==
  ASSUME FreshInv, (\E h \in Handler : Finalise(h)) \/ (\E i \in Open : EndEarly(i))
  PROVE  FreshInv'
<1>1. RunShape' /\ \A g \in Handler : RunKeeps(g)
  <2>1. ASSUME NEW h \in Handler, Finalise(h) PROVE RunShape' /\ \A g \in Handler : RunKeeps(g)
    <3>1. Goto(h, "release") /\ RunShape
      BY <2>1 DEF Finalise, FreshInv
    <3> QED BY <3>1, MovesOn
  <2>2. ASSUME NEW i \in Open, EndEarly(i) PROVE RunShape' /\ \A g \in Handler : RunKeeps(g)
    <3>1. run' = run
      BY <2>2 DEF EndEarly
    <3> QED BY <3>1 DEF FreshInv, RunShape, RunKeeps, Starts, Early
  <2> QED BY <2>1, <2>2
<1>2. SessionShape' /\ \A i \in 1..MaxId : SessionKeeps(i)
  <2>1. SessionShape
    BY DEF FreshInv
  <2>2. ASSUME NEW h \in Handler, Finalise(h) PROVE SessionShape' /\ \A i \in 1..MaxId : SessionKeeps(i)
    BY <2>1, <2>2 DEF Finalise, SessionShape, SessionKeeps
  <2>3. ASSUME NEW j \in Open, EndEarly(j) PROVE SessionShape' /\ \A i \in 1..MaxId : SessionKeeps(i)
    BY <2>1, <2>3 DEF EndEarly, SessionShape, SessionKeeps
  <2> QED BY <2>2, <2>3
<1>3. UNCHANGED txCounter
  BY DEF Finalise, EndEarly
<1> QED BY <1>1, <1>2, <1>3, Keeps

-----------------------------------------------------------------------------
\* The steps that give out, use and recover ids

LEMMA StartStep ==
  ASSUME FreshInv, NEW h \in Handler, NEW c \in Connector, StartTransaction(h, c)
  PROVE  FreshInv'
<1>1. PICK tx \in 1..MaxId :
        /\ GenerateTransactionId(tx) /\ UNCHANGED session
        /\ run' = [run EXCEPT ![h] = [kind |-> "start", pc |-> "authorise", c |-> c, tag |-> plug[c].tag, tx |-> tx,
                                     id |-> Null, user |-> Nobody, at |-> Null]]
  BY DEF StartTransaction, Call
<1>2. txCounter = tx /\ txCounter' = tx + 1 /\ txCounter # Null /\ txCounter' # Null /\ txCounter' \in Nat /\ tx \in Nat
  BY <1>1 DEF GenerateTransactionId, Null
<1>3. /\ DOMAIN run' = Handler /\ \A g \in Handler \ {h} : run'[g] = run[g]
      /\ run'[h].kind = "start" /\ run'[h].pc = "authorise" /\ run'[h].tx = tx
      /\ {"kind", "pc", "tx"} \subseteq DOMAIN run'[h]
  BY <1>1 DEF FreshInv, RunShape
<1>4. RunShape' /\ SessionShape'
  BY <1>1, <1>3 DEF FreshInv, RunShape, SessionShape, Starts, Early
<1>5. Rows' = Rows /\ \A i \in Rows : session'[i] = session[i] /\ session[i].tx \in 1..MaxId /\ session[i].tx < tx
  BY <1>1, <1>2 DEF Rows, FreshInv, Below
<1>6. \A g \in Handler \ {h} : Starts(run[g]) => run[g].tx \in 1..MaxId /\ run[g].tx < tx
  BY <1>2 DEF FreshInv, Below
<1>7. Below'
  BY <1>2, <1>3, <1>5, <1>6 DEF Below, Starts
<1>8. Distinct'
  BY <1>2, <1>3, <1>6 DEF FreshInv, Distinct, Starts
<1>9. Unused'
  BY <1>2, <1>3, <1>5 DEF FreshInv, Unused, Starts, Early
<1> QED BY <1>4, <1>7, <1>8, <1>9 DEF FreshInv

LEMMA CreateStep ==
  ASSUME FreshInv, NEW h \in Handler, CreateSession(h)
  PROVE  FreshInv'
<1> DEFINE n == Cardinality(Rows) + 1
<1>1. /\ session' = [session EXCEPT ![n] = [c |-> run[h].c, tx |-> run[h].tx, user |-> run[h].user,
                        ended |-> FALSE, stopped |-> FALSE]]
      /\ run' = [run EXCEPT ![h] = Found(run[h], n)]
      /\ run[h].pc = "create" /\ UNCHANGED txCounter
  BY DEF CreateSession, At
<1> HIDE DEF n
<1>2. Starts(run[h]) /\ Early(run[h])
  BY <1>1 DEF FreshInv, RunShape, Early
<1>3. /\ DOMAIN run' = Handler /\ \A g \in Handler \ {h} : run'[g] = run[g]
      /\ run'[h].kind = run[h].kind /\ run'[h].tx = run[h].tx /\ run'[h].pc = "update"
      /\ {"kind", "pc", "tx"} \subseteq DOMAIN run'[h]
  BY <1>1 DEF FreshInv, RunShape, Found
<1>4. RunShape'
  BY <1>3 DEF FreshInv, RunShape, Starts, Early
<1>5. SessionShape'
  BY <1>1 DEF FreshInv, SessionShape
<1>6. \A i \in Rows' : \/ i \in Rows /\ session'[i].tx = session[i].tx
                      \/ session'[i].tx = run[h].tx
  BY <1>1 DEF Rows, FreshInv, SessionShape
<1>7. run[h].tx \in 1..MaxId /\ txCounter # Null /\ run[h].tx < txCounter
  BY <1>2 DEF FreshInv, Below
<1>8. \A g \in Handler : Starts(run'[g]) <=> Starts(run[g])
  BY <1>3 DEF Starts
<1>9. \A g \in Handler : run'[g].tx = run[g].tx
  BY <1>3
<1>10. Below'
  <2>1. txCounter' \in Nat /\ \A i \in Rows' : session'[i].tx \in 1..MaxId /\ session'[i].tx < txCounter'
    BY <1>1, <1>6, <1>7 DEF FreshInv, Below
  <2>2. \A g \in Handler : Starts(run'[g]) => run'[g].tx \in 1..MaxId /\ txCounter' # Null /\ run'[g].tx < txCounter'
    BY <1>1, <1>8, <1>9 DEF FreshInv, Below
  <2> QED BY <2>1, <2>2 DEF Below, Starts
<1>11. Distinct'
  BY <1>8, <1>9 DEF FreshInv, Distinct, Starts
<1>12. Unused'
  <2> SUFFICES ASSUME NEW g \in Handler, NEW i \in Rows', Starts(run'[g]), Early(run'[g])
               PROVE  session'[i].tx # run'[g].tx
    BY DEF Unused, Starts, Early
  <2>1. g # h /\ run'[g] = run[g]
    BY <1>3 DEF Early
  <2>2. run[g].tx # run[h].tx
    BY <1>2, <2>1 DEF FreshInv, Distinct
  <2>3. \A j \in Rows : session[j].tx # run[g].tx
    BY <2>1 DEF FreshInv, Unused
  <2> QED BY <1>6, <2>1, <2>2, <2>3
<1> QED BY <1>4, <1>5, <1>10, <1>11, <1>12 DEF FreshInv

LEMMA RestartStep ==
  ASSUME FreshInv, Restart
  PROVE  FreshInv'
<1>1. run' = [h \in Handler |-> NoRun] /\ txCounter' = Null /\ session' = session
  BY DEF Restart
<1>2. \A h \in Handler : run'[h] = NoRun
  BY <1>1
<1>3. RunShape' /\ SessionShape'
  BY <1>1, <1>2 DEF FreshInv, RunShape, SessionShape, NoRun, Early
<1>4. Below'
  BY <1>1, <1>2 DEF FreshInv, Below, NoRun, Starts, Rows, Null
<1>5. Distinct' /\ Unused'
  BY <1>2 DEF Distinct, Unused, NoRun, Starts
<1> QED BY <1>3, <1>4, <1>5 DEF FreshInv

LEMMA RecoverStep ==
  ASSUME StartAssumption, FreshInv, InitTransactionCounter
  PROVE  FreshInv'
<1>1. txCounter = Null /\ txCounter' = Max0(TxOf(Rows)) + 1 /\ UNCHANGED <<run, session>>
  BY DEF InitTransactionCounter
<1>2. \A h \in Handler : ~Starts(run[h])
  BY <1>1 DEF FreshInv, Below
<1>3. TxOf(Rows) \in SUBSET Nat /\ MaxId \in Nat /\ \A y \in TxOf(Rows) : y <= MaxId
  BY DEF FreshInv, Below, TxOf, StartAssumption
<1>4. Max0(TxOf(Rows)) \in Nat /\ \A y \in TxOf(Rows) : y <= Max0(TxOf(Rows))
  <2>1. CASE TxOf(Rows) = {}
    BY <2>1 DEF Max0
  <2>2. CASE TxOf(Rows) # {}
    BY <1>3, <2>2, Greatest
  <2> QED BY <2>1, <2>2
<1>5. \A i \in Rows : session[i].tx \in 1..MaxId /\ session[i].tx < txCounter'
  <2> SUFFICES ASSUME NEW i \in Rows PROVE session[i].tx \in 1..MaxId /\ session[i].tx < txCounter'
    OBVIOUS
  <2>1. session[i].tx \in TxOf(Rows) /\ session[i].tx \in 1..MaxId
    BY DEF TxOf, FreshInv, Below
  <2> HIDE DEF TxOf
  <2> QED BY <1>1, <1>4, <2>1
<1>6. Below'
  BY <1>1, <1>2, <1>4, <1>5 DEF Below, Rows, Starts
<1>7. RunShape' /\ SessionShape' /\ Distinct' /\ Unused'
  BY <1>1 DEF FreshInv, RunShape, SessionShape, Distinct, Unused, Starts, Early, Rows
<1> QED BY <1>6, <1>7 DEF FreshInv

-----------------------------------------------------------------------------
LEMMA InitFresh == StartAssumption /\ Init => FreshInv
<1> SUFFICES ASSUME StartAssumption, Init PROVE FreshInv
  OBVIOUS
<1>1. /\ run = [h \in Handler |-> NoRun] /\ session = [i \in 1..MaxId |-> NoSession] /\ txCounter = Null
  BY DEF Init
<1>2. RunShape /\ SessionShape
  BY <1>1 DEF RunShape, SessionShape, NoRun, NoSession, Early
<1>3. Rows = {}
  BY <1>1 DEF Rows, NoSession
<1>4. \A h \in Handler : ~Starts(run[h])
  BY <1>1 DEF NoRun, Starts
<1> QED BY <1>1, <1>2, <1>3, <1>4 DEF FreshInv, Below, Distinct, Unused, Null

LEMMA NextFresh == StartAssumption /\ FreshInv /\ [Next]_vars => FreshInv'
<1> SUFFICES ASSUME StartAssumption, FreshInv, [Next]_vars PROVE FreshInv'
  OBVIOUS
<1>1. CASE UNCHANGED vars
  BY <1>1, Aside DEF vars
<1>2. CASE Driver
  <2>1. UNCHANGED <<run, session, txCounter>>
    BY <1>2 DEF Driver, PresentTag, StartCharging, AdminRemoteStart, StopCharging, AdminRemoteStop, Unplug
  <2> QED BY <2>1, Aside
<1>3. CASE Calls
  BY <1>3, StartStep, OtherCalls DEF Calls
<1>4. CASE Notices
  <2>1. UNCHANGED <<run, session, txCounter>>
    BY <1>4 DEF Notices, Heartbeat, BootNotification, StatusNotification
  <2> QED BY <2>1, Aside
<1>5. CASE Progress
  <2>1. ASSUME NEW h \in Handler, HandlerStep(h) PROVE FreshInv'
    BY <2>1, HandlerKeeps, SessionStep, CreateStep DEF HandlerStep
  <2>2. ASSUME NEW w \in Writer, WriteRow(w) \/ WriteCache(w) PROVE FreshInv'
    <3>1. UNCHANGED <<run, session, txCounter>>
      BY <2>2 DEF WriteRow, WriteCache
    <3> QED BY <3>1, Aside
  <2> QED BY <1>5, <2>1, <2>2 DEF Progress
<1>6. CASE InitTransactionCounter \/ EarlyEnds
  BY <1>6, RecoverStep, SessionStep DEF EarlyEnds, FaultEnds, GraceEnds
<1>7. CASE Trouble
  <2>1. CASE TimeOut \/ \E c \in Connector : LockExpires(c)
    <3>1. UNCHANGED <<run, session, txCounter>>
      BY <2>1 DEF TimeOut, LockExpires
    <3> QED BY <3>1, Aside
  <2>2. ASSUME NEW h \in Handler, Dies(h) \/ \E l \in Late : FinaliseFails(h, l) PROVE FreshInv'
    BY <2>2, HandlerKeeps
  <2> QED BY <1>7, <2>1, <2>2, RestartStep DEF Trouble
<1> QED BY <1>1, <1>2, <1>3, <1>4, <1>5, <1>6, <1>7 DEF Next

\* The inductive invariant holds: the counter, when there is one, is above every id
\* in the table and in a handler, starts have different ids, and a start that has
\* not made its session has an id that is not in the table.
THEOREM Inductive == Spec => []FreshInv
BY StartAssumption, InitFresh, NextFresh, PTL DEF Spec

\* generateTransactionId gives no id twice, however starts overlap, repeat and die
\* and whenever the server restarts and reads the counter from the table.
THEOREM IdsAreFresh == Spec => []FreshId
<1>1. FreshInv => FreshId
  <2> SUFFICES ASSUME FreshInv, NEW h \in Handler, Starts(run[h]), Early(run[h])
               PROVE  /\ WithTx(run[h].tx) = {}
                      /\ \A g \in Handler \ {h} : run[g].kind = "start" => run[g].tx # run[h].tx
    BY DEF FreshId, Starts, Early
  <2>1. WithTx(run[h].tx) = {}
    BY DEF WithTx, FreshInv, Unused
  <2>2. \A g \in Handler \ {h} : Starts(run[g]) => run[g].tx # run[h].tx
    BY DEF FreshInv, Distinct
  <2> QED BY <2>1, <2>2 DEF Starts
<1> QED BY <1>1, Inductive, PTL

-----------------------------------------------------------------------------
(***************************************************************************)
(* A stop ends its own session, and a reading is billed to its own.        *)
(***************************************************************************)

Meters(r) == r.kind = "meter"
Stops(r)  == r.kind = "stop"
Has(r)    == r.pc \in {"update", "status", "reply"}     \* a start that has its session

\* The handlers, the charger and the table have the fields the steps write.
RunTyped(h) ==
  /\ {"kind", "pc", "tx", "c", "id", "at"} \subseteq DOMAIN run[h]
  /\ \/ run[h] = NoRun
     \/ /\ run[h].c \in Connector
        /\ \/ Starts(run[h]) /\ (Early(run[h]) \/ (Has(run[h]) /\ run[h].id # Null))
           \/ Meters(run[h]) /\ run[h].pc = "bill"
           \/ Stops(run[h]) /\ run[h].pc \in {"finalise", "release", "delete", "reset"}

PlugTyped(c) ==
  /\ {"at", "id"} \subseteq DOMAIN plug[c]
  /\ plug[c].at \in {"free", "starting"} <=> plug[c].id = Null

RowTyped(i) ==
  /\ {"c", "tx", "ended", "stopped"} \subseteq DOMAIN session[i]
  /\ session[i].stopped => session[i].ended

Shapes ==
  /\ DOMAIN run = Handler /\ \A h \in Handler : RunTyped(h)
  /\ DOMAIN plug = Connector /\ \A c \in Connector : PlugTyped(c)
  /\ DOMAIN session = 1..MaxId /\ \A i \in 1..MaxId : RowTyped(i)

WriteTyped(w) ==
  /\ {"phase", "fields"} \subseteq DOMAIN write[w]
  /\ write[w].phase \in {"none", "db", "merge"}
  /\ write[w].phase = "merge" => "transactionId" \in DOMAIN write[w].fields

StoreShape ==
  /\ "transactionId" \in DOMAIN row /\ {"transactionId", "known"} \subseteq DOMAIN cache
  /\ DOMAIN write = Writer /\ \A w \in Writer : WriteTyped(w)

\* Two handlers run only where the charger repeats a call, which touches both.
Apart == \A g, h \in Handler : g # h /\ run[g] # NoRun /\ run[h] # NoRun => run[g].tx \in exposed

\* The charger waits at the connector for a start that nothing touches.
Awaited == \A h \in Handler : Starts(run[h]) /\ run[h].tx \notin exposed => plug[run[h].c].at = "starting"

\* The row and the copy in memory name the transaction.
Knows(tx) == row.transactionId = tx /\ cache.known /\ cache.transactionId = tx

Untouched == {i \in Live : session[i].tx \notin exposed}

PlugFits(c, i) ==
  plug[c].id # Null => plug[c].id = i /\ c = session[i].c /\ Knows(session[i].tx)

\* The update of a start, on its way to the row and from there to the copy.
Updates(w, tx) ==
  \/ write[w].phase = "none" /\ Knows(tx)
  \/ /\ write[w].phase = "db" /\ "transactionId" \in DOMAIN write[w].fields
     /\ write[w].fields.transactionId = tx
  \/ write[w].phase = "merge" /\ row.transactionId = tx

HandlerFits(h, i) ==
  /\ Has(run[h]) => run[h].id = i /\ run[h].c = session[i].c
  /\ Meters(run[h]) \/ Stops(run[h]) =>
       run[h].id = i /\ run[h].tx = session[i].tx /\ run[h].c = session[i].c
  /\ Stops(run[h]) => run[h].pc = "finalise"
  /\ run[h].pc = "reply" => Knows(session[i].tx)
  /\ run[h].pc = "status" => Updates(h, session[i].tx)

\* A session that nothing touches is the only one that is open, the one the
\* charger names, and the one of every handler that names a session.
OneAtWork(i) ==
  /\ Live = {i}
  /\ \A c \in Connector : PlugFits(c, i)
  /\ \A h \in Handler : HandlerFits(h, i)

Quiet == \A i \in Untouched : OneAtWork(i)

Shape == Shapes /\ StoreShape
Calm == FreshInv /\ Shape /\ Apart /\ Awaited /\ Quiet

-----------------------------------------------------------------------------
\* How a step of one handler changes it

\* The handler goes on with the same call.
OnlyStep(h) ==
  /\ DOMAIN run' = Handler /\ \A g \in Handler \ {h} : run'[g] = run[g]
  /\ {"kind", "pc", "tx", "c", "id", "at"} \subseteq DOMAIN run'[h]
  /\ run'[h].kind = run[h].kind /\ run'[h].tx = run[h].tx /\ run'[h].c = run[h].c /\ run'[h].at = run[h].at

LEMMA GoesOn ==
  ASSUME Shapes, NEW h \in Handler, NEW step, Goto(h, step)
  PROVE  OnlyStep(h) /\ run'[h].pc = step /\ run'[h].id = run[h].id
BY DEF Shapes, RunTyped, Goto, OnlyStep

LEMMA Gets ==
  ASSUME Shapes, NEW h \in Handler, NEW i, run' = [run EXCEPT ![h] = Found(run[h], i)]
  PROVE  OnlyStep(h) /\ run'[h].pc = "update" /\ run'[h].id = i
<1>1. {"kind", "pc", "tx", "c", "id", "at"} \subseteq DOMAIN run[h]
  BY DEF Shapes, RunTyped
<1>2. DOMAIN run' = Handler /\ \A g \in Handler \ {h} : run'[g] = run[g]
  BY DEF Shapes
<1>3. run'[h] = Found(run[h], i)
  BY DEF Shapes
<1>4. DOMAIN run'[h] = DOMAIN run[h]
  BY <1>3 DEF Found
<1> QED BY <1>1, <1>2, <1>3, <1>4 DEF Found, OnlyStep

LEMMA Marks ==
  ASSUME Shapes, NEW h \in Handler, MarkChargingActive(h)
  PROVE  OnlyStep(h) /\ run[h].pc = "lock" /\ run'[h].pc = "find" /\ run'[h].id = run[h].id
<1>1. {"kind", "pc", "tx", "c", "id", "at"} \subseteq DOMAIN run[h]
  BY DEF Shapes, RunTyped
<1>2. run' = [run EXCEPT ![h].pc = "find", ![h].tag = "card", ![h].user = ResolvedUser(run[h].tag)]
  BY DEF MarkChargingActive
<1>3. DOMAIN run' = Handler /\ \A g \in Handler \ {h} : run'[g] = run[g]
  BY <1>2 DEF Shapes
<1>4. DOMAIN run'[h] = DOMAIN run[h] /\ run'[h].pc = "find"
  BY <1>1, <1>2 DEF Shapes
<1>5. run'[h].kind = run[h].kind /\ run'[h].tx = run[h].tx /\ run'[h].c = run[h].c /\ run'[h].at = run[h].at /\ run'[h].id = run[h].id
  BY <1>1, <1>2 DEF Shapes
<1> QED BY <1>1, <1>3, <1>4, <1>5 DEF OnlyStep, MarkChargingActive, At

\* The call ends; the charger takes note of the answer if it still waits for it.
LEMMA Answers ==
  ASSUME Shapes, NEW h \in Handler, NEW then, run[h] # NoRun, Answer(h, run[h].c, then)
  PROVE  /\ DOMAIN run' = Handler /\ run'[h] = NoRun /\ \A g \in Handler \ {h} : run'[g] = run[g]
         /\ DOMAIN plug' = Connector
         /\ \A c \in Connector \ {run[h].c} : plug'[c] = plug[c]
         /\ plug'[run[h].c] \in {plug[run[h].c], then}
BY DEF Shapes, RunTyped, Answer

\* A call comes in.
LEMMA Arrives ==
  ASSUME Shapes, NEW h \in Handler, NEW call, Call(h, call)
  PROVE  /\ DOMAIN run' = Handler /\ run[h] = NoRun /\ run'[h] = call /\ \A g \in Handler \ {h} : run'[g] = run[g]
         /\ exposed \subseteq exposed'
         /\ \A g \in Handler : run[g] # NoRun => run[g].tx \in exposed' /\ call.tx \in exposed'
<1>1. DOMAIN run' = Handler /\ run[h] = NoRun /\ run'[h] = call /\ \A g \in Handler \ {h} : run'[g] = run[g]
  BY DEF Shapes, Call
<1>2. CASE Running = {}
  BY <1>1, <1>2 DEF Running, Call, history
<1>3. CASE Running # {}
  <2>1. exposed' = exposed \cup ({call.tx} \cup {run[g].tx : g \in Running})
    BY <1>3 DEF Call, Expose
  <2> QED BY <1>1, <2>1 DEF Running
<1> QED BY <1>2, <1>3

-----------------------------------------------------------------------------
\* The shape is kept

RunSame == DOMAIN run' = Handler /\ \A g \in Handler : run'[g] = run[g]
PlugSame == DOMAIN plug' = Connector /\ \A c \in Connector : PlugTyped(c)'
SessionSame == DOMAIN session' = 1..MaxId /\ \A i \in 1..MaxId : RowTyped(i)'

LEMMA PlugStays == Shapes /\ UNCHANGED plug => PlugSame
BY DEF Shapes, PlugTyped, PlugSame

LEMMA SessionStays == Shapes /\ UNCHANGED session => SessionSame
BY DEF Shapes, RowTyped, SessionSame

LEMMA ShapesBy ==
  ASSUME Shapes, NEW h \in Handler, DOMAIN run' = Handler,
         \A g \in Handler \ {h} : run'[g] = run[g], RunTyped(h)', PlugSame, SessionSame
  PROVE  Shapes'
BY DEF Shapes, RunTyped, PlugSame, SessionSame

LEMMA ShapesAside ==
  ASSUME Shapes, UNCHANGED run, PlugSame, SessionSame
  PROVE  Shapes'
BY DEF Shapes, RunTyped, PlugSame, SessionSame

\* A start and a stop go on.
LEMMA StartTyped ==
  ASSUME Shapes, NEW h \in Handler, OnlyStep(h), Early(run[h]) \/ Has(run[h]),
         Early(run'[h]) \/ (Has(run'[h]) /\ run'[h].id # Null)
  PROVE  RunTyped(h)'
<1>1. Starts(run[h]) /\ run[h].c \in Connector
  BY DEF Shapes, RunTyped, Starts, Meters, Stops, Early, Has, NoRun
<1> QED BY <1>1 DEF RunTyped, OnlyStep, Starts, Early, Has

LEMMA StopTyped ==
  ASSUME Shapes, NEW h \in Handler, OnlyStep(h),
         run[h].pc \in {"finalise", "release", "delete", "reset"},
         run'[h].pc \in {"finalise", "release", "delete", "reset"}
  PROVE  RunTyped(h)'
<1>1. Stops(run[h]) /\ run[h].c \in Connector
  BY DEF Shapes, RunTyped, Starts, Meters, Stops, Early, Has, NoRun
<1> QED BY <1>1 DEF RunTyped, OnlyStep, Stops

LEMMA NoRunTyped == ASSUME NEW h \in Handler, run'[h] = NoRun PROVE RunTyped(h)'
BY DEF RunTyped, NoRun

LEMMA Busy ==
  ASSUME Shapes, NEW h \in Handler, run[h].pc # "none" \/ run[h].kind # "none"
  PROVE  run[h] # NoRun /\ run[h].c \in Connector
BY DEF Shapes, RunTyped, NoRun

\* What the handler of a call that ends leaves of the shape.
LEMMA EndsShapes ==
  ASSUME Shapes, NEW h \in Handler, run[h] # NoRun, NEW then, Answer(h, run[h].c, then), UNCHANGED session,
         \/ then = plug[run[h].c]
         \/ {"at", "id"} \subseteq DOMAIN then /\ (then.at \in {"free", "starting"} <=> then.id = Null)
  PROVE  Shapes'
<1>1. /\ DOMAIN run' = Handler /\ run'[h] = NoRun /\ \A g \in Handler \ {h} : run'[g] = run[g]
      /\ DOMAIN plug' = Connector
      /\ \A c \in Connector \ {run[h].c} : plug'[c] = plug[c]
      /\ plug'[run[h].c] \in {plug[run[h].c], then}
  BY Answers
<1>2. PlugSame
  <2> SUFFICES ASSUME NEW c \in Connector PROVE PlugTyped(c)'
    BY <1>1 DEF PlugSame
  <2>1. PlugTyped(c)
    BY DEF Shapes
  <2> QED BY <1>1, <2>1 DEF PlugTyped
<1> QED BY <1>1, <1>2, NoRunTyped, SessionStays, ShapesBy

\* What a driver does: he plugs in, or has the charger stop; the copy in memory may
\* be filled, and keeps what it has.
PlugSet(c, at) ==
  /\ DOMAIN plug' = Connector /\ \A d \in Connector \ {c} : plug'[d] = plug[d]
  /\ {"at", "id"} \subseteq DOMAIN plug'[c] /\ plug'[c].at = at

Copied ==
  /\ {"transactionId", "known"} \subseteq DOMAIN cache'
  /\ cache.known => cache'.known /\ cache'.transactionId = cache.transactionId

PlugMoves(c) ==
  \/ UNCHANGED plug
  \/ plug[c].at = "free" /\ PlugSet(c, "starting") /\ plug'[c].id = Null
  \/ plug[c].at = "on" /\ PlugSet(c, "stopping") /\ plug'[c].id = plug[c].id

LEMMA LoadedCopies ==
  ASSUME StoreShape
  PROVE  /\ {"transactionId", "known"} \subseteq DOMAIN Loaded
         /\ cache.known => Loaded = cache
<1> DEFINE o == Overlay(cache, row)
<1>1. DOMAIN o = DOMAIN cache
  BY DEF Overlay
<1> HIDE DEF o
<1>2. Loaded = IF cache.known THEN cache ELSE [o EXCEPT !.known = TRUE]
  BY DEF Loaded, o
<1> QED BY <1>1, <1>2 DEF StoreShape

LEMMA DriverDoes ==
  ASSUME Shape, Driver
  PROVE  /\ UNCHANGED <<row, write, run, session, txCounter, lock, faults, history>>
         /\ Copied
         /\ \E c \in Connector : PlugMoves(c)
<1>1. UNCHANGED <<row, write, run, session, txCounter, lock, faults, history>>
  BY DEF Driver, PresentTag, StartCharging, AdminRemoteStart, StopCharging, AdminRemoteStop, Unplug, state
<1>2. PICK c \in Connector :
        \/ \E tag : PresentTag(c, tag)
        \/ \E user : StartCharging(user, c)
        \/ StopCharging(c) \/ AdminRemoteStop(c) \/ Unplug(c)
  BY DEF Driver, AdminRemoteStart
<1>3. DOMAIN plug = Connector /\ {"at", "id"} \subseteq DOMAIN plug[c]
  BY DEF Shape, Shapes, PlugTyped
<1>4. {"transactionId", "known"} \subseteq DOMAIN cache
  BY DEF Shape, StoreShape
<1>5. ASSUME NEW tag, PresentTag(c, tag) PROVE Copied /\ PlugMoves(c)
  BY <1>3, <1>4, <1>5 DEF PresentTag, Copied, PlugMoves, PlugSet, state
<1>6. ASSUME NEW user, StartCharging(user, c) PROVE Copied /\ PlugMoves(c)
  <2>1. Copied
    BY <1>4, <1>6 DEF StartCharging, SetPending, Copied
  <2>2. PlugMoves(c)
    BY <1>3, <1>6 DEF StartCharging, PlugMoves, PlugSet
  <2> QED BY <2>1, <2>2
<1>7. ASSUME StopCharging(c) \/ Unplug(c) PROVE Copied /\ PlugMoves(c)
  BY <1>3, <1>4, <1>7 DEF StopCharging, Unplug, Copied, PlugMoves, PlugSet, state
<1>8. ASSUME AdminRemoteStop(c) PROVE Copied /\ PlugMoves(c)
  <2>1. cache' = Loaded /\ plug[c].at = "on" /\ plug' = [plug EXCEPT ![c].at = "stopping"]
    BY <1>8 DEF AdminRemoteStop
  <2>2. Copied
    <3>1. {"transactionId", "known"} \subseteq DOMAIN cache'
      BY <2>1, LoadedCopies DEF Shape
    <3>2. cache.known => cache' = cache
      BY <2>1, LoadedCopies DEF Shape
    <3> QED BY <3>1, <3>2 DEF Copied
  <2>3. PlugMoves(c)
    BY <1>3, <2>1 DEF PlugMoves, PlugSet
  <2> QED BY <2>2, <2>3
<1> QED BY <1>1, <1>2, <1>5, <1>6, <1>7, <1>8

LEMMA DriverShapes == ASSUME Shape, Driver PROVE Shape'
<1>1. UNCHANGED <<row, write, run, session>> /\ Copied
  BY DriverDoes
<1>2. PICK c \in Connector : PlugMoves(c)
  BY DriverDoes
<1>3. PlugSame
  BY <1>2 DEF Shape, Shapes, PlugTyped, PlugMoves, PlugSet, PlugSame
<1>4. StoreShape'
  BY <1>1 DEF Shape, StoreShape, WriteTyped, Copied
<1> QED BY <1>1, <1>3, <1>4, SessionStays, ShapesAside DEF Shape

-----------------------------------------------------------------------------
\* Updates of the charger's state

LEMMA Issues ==
  ASSUME StoreShape, NEW w \in Writer, NEW update, Issue(w, update)
  PROVE  /\ DOMAIN write' = Writer /\ \A v \in Writer \ {w} : write'[v] = write[v]
         /\ {"phase", "fields"} \subseteq DOMAIN write'[w]
         /\ write'[w].phase = "db" /\ write'[w].fields = Allowed(update)
BY DEF StoreShape, Issue

LEMMA IssueShape ==
  ASSUME StoreShape, NEW w \in Writer, NEW update, Issue(w, update), UNCHANGED row, Copied
  PROVE  StoreShape'
<1>1. /\ DOMAIN write' = Writer /\ \A v \in Writer \ {w} : write'[v] = write[v]
      /\ {"phase", "fields"} \subseteq DOMAIN write'[w]
      /\ write'[w].phase = "db"
  BY Issues
<1>2. \A v \in Writer : WriteTyped(v)'
  BY <1>1 DEF StoreShape, WriteTyped
<1> QED BY <1>1, <1>2 DEF StoreShape, Copied

LEMMA CacheStays == StoreShape /\ UNCHANGED cache => Copied
BY DEF StoreShape, Copied

LEMMA LoadCopies == ASSUME StoreShape, cache' = Loaded PROVE Copied
<1>1. {"transactionId", "known"} \subseteq DOMAIN cache' /\ (cache.known => cache' = cache)
  BY LoadedCopies
<1> QED BY <1>1 DEF Copied

\* The database answers with the row.
LEMMA Upserts ==
  ASSUME StoreShape, NEW w \in Writer, Upsert(w)
  PROVE  /\ DOMAIN write' = Writer /\ \A v \in Writer \ {w} : write'[v] = write[v]
         /\ {"phase", "fields"} \subseteq DOMAIN write'[w]
         /\ write[w].phase = "db" /\ write'[w].phase = "merge" /\ write'[w].fields = row'
         /\ DOMAIN row' = DOMAIN row /\ cache' = cache
         /\ "transactionId" \in DOMAIN write[w].fields => row'.transactionId = write[w].fields.transactionId
<1>1. write' = [write EXCEPT ![w] = [phase |-> "merge", fields |-> row']] /\ write[w].phase = "db" /\ cache' = cache
  BY DEF Upsert
<1>2. row' = [f \in DOMAIN row |-> IF f \in DOMAIN write[w].fields THEN write[w].fields[f] ELSE row[f]]
  BY DEF Upsert, Overlay
<1>3. DOMAIN row' = DOMAIN row
      /\ ("transactionId" \in DOMAIN write[w].fields => row'.transactionId = write[w].fields.transactionId)
  BY <1>2 DEF StoreShape
<1> QED BY <1>1, <1>3 DEF StoreShape

LEMMA UpsertShape == ASSUME StoreShape, NEW w \in Writer, Upsert(w) PROVE StoreShape'
<1>1. /\ DOMAIN write' = Writer /\ \A v \in Writer \ {w} : write'[v] = write[v]
      /\ {"phase", "fields"} \subseteq DOMAIN write'[w]
      /\ write'[w].phase = "merge" /\ write'[w].fields = row'
      /\ DOMAIN row' = DOMAIN row /\ cache' = cache
  BY Upserts
<1>2. \A v \in Writer : WriteTyped(v)'
  BY <1>1 DEF StoreShape, WriteTyped
<1> QED BY <1>1, <1>2 DEF StoreShape

LEMMA Merges ==
  ASSUME StoreShape, NEW w \in Writer, Merge(w)
  PROVE  /\ DOMAIN write' = Writer /\ \A v \in Writer \ {w} : write'[v] = write[v]
         /\ write[w].phase = "merge" /\ write'[w] = NoWrite
         /\ row' = row /\ {"transactionId", "known"} \subseteq DOMAIN cache'
         /\ cache'.known /\ cache'.transactionId = write[w].fields.transactionId
<1> DEFINE o == Overlay(cache, write[w].fields)
<1>1. write' = [write EXCEPT ![w] = NoWrite] /\ write[w].phase = "merge" /\ row' = row
      /\ cache' = [o EXCEPT !.known = TRUE]
  BY DEF Merge
<1>2. "transactionId" \in DOMAIN write[w].fields /\ {"transactionId", "known"} \subseteq DOMAIN cache
  BY <1>1 DEF StoreShape, WriteTyped
<1>3. DOMAIN o = DOMAIN cache /\ o.transactionId = write[w].fields.transactionId
  BY <1>2 DEF Overlay
<1> HIDE DEF o
<1>4. {"transactionId", "known"} \subseteq DOMAIN cache'
      /\ cache'.known /\ cache'.transactionId = write[w].fields.transactionId
  BY <1>1, <1>2, <1>3
<1> QED BY <1>1, <1>4 DEF StoreShape

LEMMA MergeShape == ASSUME StoreShape, NEW w \in Writer, Merge(w) PROVE StoreShape'
<1>1. /\ DOMAIN write' = Writer /\ \A v \in Writer \ {w} : write'[v] = write[v]
      /\ write'[w] = NoWrite
      /\ row' = row /\ {"transactionId", "known"} \subseteq DOMAIN cache'
  BY Merges
<1>2. \A v \in Writer : WriteTyped(v)'
  BY <1>1 DEF StoreShape, WriteTyped, NoWrite
<1> QED BY <1>1, <1>2 DEF StoreShape

LEMMA StoreStays == StoreShape /\ UNCHANGED <<row, cache, write>> => StoreShape'
BY DEF StoreShape, WriteTyped

-----------------------------------------------------------------------------
\* The shape is kept by the steps of the handlers

LEMMA GoesOnShapes ==
  ASSUME Shapes, NEW h \in Handler, OnlyStep(h), RunTyped(h)', UNCHANGED plug, SessionSame
  PROVE  Shapes'
BY PlugStays, ShapesBy DEF OnlyStep

LEMMA StartShapes ==
  ASSUME Shapes, NEW h \in Handler,
         Authorise(h) \/ MarkChargingActive(h) \/ CreateSessionFind(h) \/ UpdateState(h)
  PROVE  Shapes'
<1>1. UNCHANGED <<plug, session>>
  BY DEF Authorise, MarkChargingActive, CreateSessionFind, UpdateState, charger
<1>2. SessionSame
  BY <1>1, SessionStays
<1>3. ASSUME OnlyStep(h), Early(run[h]) \/ Has(run[h]), Early(run'[h]) \/ (Has(run'[h]) /\ run'[h].id # Null)
      PROVE  Shapes'
  BY <1>1, <1>2, <1>3, StartTyped, GoesOnShapes
<1>4. CASE Authorise(h)
  <2>1. Goto(h, "lock") /\ run[h].pc = "authorise"
    BY <1>4 DEF Authorise, At
  <2>2. OnlyStep(h) /\ run'[h].pc = "lock"
    BY <2>1, GoesOn
  <2>3. (Early(run[h]) \/ Has(run[h])) /\ (Early(run'[h]) \/ (Has(run'[h]) /\ run'[h].id # Null))
    BY <2>1, <2>2 DEF Early, Has
  <2> QED BY <1>3, <2>2, <2>3
<1>5. CASE MarkChargingActive(h)
  <2>1. OnlyStep(h) /\ run[h].pc = "lock" /\ run'[h].pc = "find"
    BY <1>5, Marks
  <2>2. (Early(run[h]) \/ Has(run[h])) /\ (Early(run'[h]) \/ (Has(run'[h]) /\ run'[h].id # Null))
    BY <2>1 DEF Early, Has
  <2> QED BY <1>3, <2>1, <2>2
<1>6. CASE CreateSessionFind(h)
  <2>1. /\ run[h].pc = "find"
        /\ Goto(h, "create") \/ \E i \in 1..MaxId : run' = [run EXCEPT ![h] = Found(run[h], i)]
    BY <1>6 DEF CreateSessionFind, At, WithTx, OpenOn, Open, Rows
  <2>2. CASE Goto(h, "create")
    <3>1. OnlyStep(h) /\ run'[h].pc = "create"
      BY <2>2, GoesOn
    <3>2. (Early(run[h]) \/ Has(run[h])) /\ (Early(run'[h]) \/ (Has(run'[h]) /\ run'[h].id # Null))
      BY <2>1, <3>1 DEF Early, Has
    <3> QED BY <1>3, <3>1, <3>2
  <2>3. ASSUME NEW i \in 1..MaxId, run' = [run EXCEPT ![h] = Found(run[h], i)] PROVE Shapes'
    <3>1. OnlyStep(h) /\ run'[h].pc = "update" /\ run'[h].id = i
      BY <2>3, Gets
    <3>2. i # Null
      BY DEF Null
    <3>3. Early(run[h]) /\ Has(run'[h]) /\ run'[h].id # Null
      BY <2>1, <3>1, <3>2 DEF Early, Has
    <3> QED BY <1>3, <3>1, <3>3
  <2> QED BY <2>1, <2>2, <2>3
<1>7. CASE UpdateState(h)
  <2>1. Goto(h, "status") /\ run[h].pc = "update"
    BY <1>7 DEF UpdateState, At
  <2>2. run[h].id # Null
    BY <2>1 DEF Shapes, RunTyped, NoRun, Early, Has
  <2>3. OnlyStep(h) /\ run'[h].pc = "status" /\ run'[h].id = run[h].id
    BY <2>1, GoesOn
  <2>4. Has(run[h]) /\ Has(run'[h]) /\ run'[h].id # Null
    BY <2>1, <2>2, <2>3 DEF Has
  <2> QED BY <1>3, <2>3, <2>4
<1> QED BY <1>4, <1>5, <1>6, <1>7

\* The key of a new session.
NewKey == Cardinality(Rows) + 1

LEMMA KeyIsGiven == StartAssumption => NewKey \in Nat \ {0}
<1> SUFFICES ASSUME StartAssumption PROVE NewKey \in Nat \ {0}
  OBVIOUS
<1>1. IsFiniteSet(1..MaxId) /\ Rows \subseteq 1..MaxId
  BY FS_Interval DEF StartAssumption, Rows
<1>2. Cardinality(Rows) \in Nat
  BY <1>1, FS_Subset, FS_CardinalityType
<1> QED BY <1>2 DEF NewKey

NewRow(h) == [c |-> run[h].c, tx |-> run[h].tx, user |-> run[h].user,
              ended |-> FALSE, stopped |-> FALSE]

LEMMA CreateDoes ==
  ASSUME StartAssumption, Shapes, NEW h \in Handler, CreateSession(h)
  PROVE  /\ run[h].pc = "create" /\ Starts(run[h]) /\ OnlyStep(h)
         /\ run'[h].pc = "update" /\ run'[h].id = NewKey /\ NewKey # Null
         /\ session' = [session EXCEPT ![NewKey] = NewRow(h)]
         /\ UNCHANGED <<state, charger, txCounter, lock, faults>>
<1>1. /\ session' = [session EXCEPT ![NewKey] = NewRow(h)]
      /\ run' = [run EXCEPT ![h] = Found(run[h], NewKey)]
      /\ run[h].pc = "create" /\ UNCHANGED <<state, charger, txCounter, lock, faults>>
  BY DEF CreateSession, NewKey, NewRow, At
<1>2. NewKey # Null
  BY KeyIsGiven DEF Null
<1>3. Starts(run[h])
  BY <1>1 DEF Shapes, RunTyped, NoRun, Early, Has
<1> QED BY <1>1, <1>2, <1>3, Gets

LEMMA CreateShapes ==
  ASSUME StartAssumption, Shapes, NEW h \in Handler, CreateSession(h)
  PROVE  Shapes'
<1>1. /\ run[h].pc = "create" /\ OnlyStep(h) /\ run'[h].pc = "update" /\ run'[h].id # Null
      /\ session' = [session EXCEPT ![NewKey] = NewRow(h)] /\ UNCHANGED plug
  BY CreateDoes DEF charger
<1>2. SessionSame
  BY <1>1 DEF Shapes, SessionSame, RowTyped, NewRow
<1>3. RunTyped(h)'
  BY <1>1, StartTyped DEF Early, Has
<1> QED BY <1>1, <1>2, <1>3, GoesOnShapes

\* The end of sessions.
SessionWritten(i) ==
  /\ DOMAIN session'[i] = DOMAIN session[i]
  /\ session'[i].c = session[i].c /\ session'[i].tx = session[i].tx
  /\ session'[i].stopped => session'[i].ended

LEMMA ConfirmDoes ==
  ASSUME Shapes, NEW h \in Handler, ConfirmSession(h)
  PROVE  /\ OnlyStep(h) /\ run[h].pc = "status" /\ run'[h].pc = "reply" /\ run'[h].id = run[h].id
         /\ write[h].phase = "none"
         /\ UNCHANGED <<state, charger, session, txCounter, lock, faults, history>>
<1>1. /\ run[h].pc = "status" /\ Goto(h, "reply") /\ write[h].phase = "none"
      /\ UNCHANGED <<state, charger, session, txCounter, lock, faults, history>>
  BY DEF ConfirmSession, At, Idle
<1>2. OnlyStep(h) /\ run'[h].pc = "reply" /\ run'[h].id = run[h].id
  BY <1>1, GoesOn
<1> QED BY <1>1, <1>2

LEMMA EndEarlyDoes ==
  ASSUME Shapes, NEW i \in Open, EndEarly(i)
  PROVE  /\ DOMAIN session' = 1..MaxId
         /\ \A j \in 1..MaxId : SessionWritten(j) /\ session'[j].stopped = session[j].stopped
         /\ \A j \in (1..MaxId) \ {i} : session'[j] = session[j]
         /\ exposed' = exposed \cup TxOf({i} \ {plug[c].id : c \in Connector})
         /\ UNCHANGED <<state, charger, run, txCounter, lock, lost, misled, astray>>
<1>1. /\ session' = [session EXCEPT ![i].ended = TRUE]
      /\ exposed' = exposed \cup TxOf({i} \ {plug[c].id : c \in Connector})
      /\ UNCHANGED <<state, charger, run, txCounter, lock, lost, misled, astray>>
  BY DEF EndEarly, Expose
<1>2. \A j \in 1..MaxId : {"c", "tx", "ended", "stopped"} \subseteq DOMAIN session[j] /\ (session[j].stopped => session[j].ended)
  BY DEF Shapes, RowTyped
<1>3. DOMAIN session = 1..MaxId
  BY DEF Shapes
<1>4. session'[i] = [session[i] EXCEPT !.ended = TRUE] /\ i \in 1..MaxId
  BY <1>1, <1>3 DEF Open, Rows
<1>5. \A j \in (1..MaxId) \ {i} : session'[j] = session[j]
  BY <1>1, <1>3
<1>6. SessionWritten(i) /\ session'[i].stopped = session[i].stopped
  BY <1>2, <1>4 DEF SessionWritten
<1>7. \A j \in (1..MaxId) \ {i} : SessionWritten(j) /\ session'[j].stopped = session[j].stopped
  BY <1>2, <1>5 DEF SessionWritten
<1>8. DOMAIN session' = 1..MaxId
  BY <1>1, <1>3
<1> QED BY <1>1, <1>5, <1>6, <1>7, <1>8

LEMMA FinaliseDoes ==
  ASSUME Shapes, NEW h \in Handler, Finalise(h)
  PROVE  /\ DOMAIN session' = 1..MaxId
         /\ \A i \in 1..MaxId : SessionWritten(i)
         /\ \A i \in WithTx(run[h].tx) : session'[i].stopped
         /\ \A i \in (1..MaxId) \ WithTx(run[h].tx) : session'[i] = session[i]
         /\ OnlyStep(h) /\ run[h].pc = "finalise" /\ run'[h].pc = "release" /\ run'[h].id = run[h].id
         /\ UNCHANGED <<state, charger, txCounter, lock, faults, exposed, lost, astray>>
<1>1. /\ session' = [i \in 1..MaxId |-> IF i \in WithTx(run[h].tx)
                       THEN [session[i] EXCEPT !.ended = TRUE, !.stopped = TRUE]
                       ELSE session[i]]
      /\ run[h].pc = "finalise" /\ Goto(h, "release")
      /\ UNCHANGED <<state, charger, txCounter, lock, faults, exposed, lost, astray>>
  BY DEF Finalise, At
<1>2. \A i \in (1..MaxId) \ WithTx(run[h].tx) : session'[i] = session[i] /\ SessionWritten(i)
  BY <1>1 DEF SessionWritten, Shapes, RowTyped
<1>3. \A i \in WithTx(run[h].tx) : session'[i].stopped /\ SessionWritten(i)
  <2> SUFFICES ASSUME NEW i \in WithTx(run[h].tx) PROVE session'[i].stopped /\ SessionWritten(i)
    OBVIOUS
  <2>1. i \in 1..MaxId
    BY DEF WithTx, Rows
  <2>2. {"c", "tx", "ended", "stopped"} \subseteq DOMAIN session[i]
    BY <2>1 DEF Shapes, RowTyped
  <2>3. session'[i] = [session[i] EXCEPT !.ended = TRUE, !.stopped = TRUE]
    BY <1>1, <2>1
  <2> QED BY <2>1, <2>2, <2>3 DEF SessionWritten
<1>4. OnlyStep(h) /\ run'[h].pc = "release" /\ run'[h].id = run[h].id
  BY <1>1, GoesOn
<1> QED BY <1>1, <1>2, <1>3, <1>4 DEF WithTx

LEMMA ConfirmShapes ==
  ASSUME Shapes, NEW h \in Handler, ConfirmSession(h)
  PROVE  Shapes'
<1>1. /\ OnlyStep(h) /\ UNCHANGED <<plug, session>>
      /\ run[h].pc = "status" /\ run'[h].pc = "reply" /\ run'[h].id = run[h].id
  BY ConfirmDoes DEF charger
<1>2. run[h].id # Null
  BY <1>1 DEF Shapes, RunTyped, NoRun, Early, Has
<1>3. RunTyped(h)'
  BY <1>1, <1>2, StartTyped DEF Early, Has
<1> QED BY <1>1, <1>3, SessionStays, GoesOnShapes

LEMMA FinaliseShapes ==
  ASSUME Shapes, NEW h \in Handler, Finalise(h)
  PROVE  Shapes'
<1>1. /\ DOMAIN session' = 1..MaxId /\ \A i \in 1..MaxId : SessionWritten(i)
      /\ OnlyStep(h) /\ UNCHANGED plug
      /\ run[h].pc = "finalise" /\ run'[h].pc = "release"
  BY FinaliseDoes DEF charger
<1>2. SessionSame
  BY <1>1 DEF Shapes, SessionSame, RowTyped, SessionWritten
<1>3. RunTyped(h)'
  BY <1>1, StopTyped
<1> QED BY <1>1, <1>2, <1>3, GoesOnShapes

LEMMA EndEarlyShapes ==
  ASSUME Shapes, NEW i \in Open, EndEarly(i)
  PROVE  Shapes'
<1>1. /\ DOMAIN session' = 1..MaxId /\ \A j \in 1..MaxId : SessionWritten(j)
      /\ UNCHANGED <<plug, run>>
  BY EndEarlyDoes DEF charger
<1>2. SessionSame
  BY <1>1 DEF Shapes, SessionSame, RowTyped, SessionWritten
<1>3. PlugSame
  BY <1>1, PlugStays
<1> QED BY <1>1, <1>2, <1>3, ShapesAside

LEMMA LockStepShapes ==
  ASSUME Shapes, NEW h \in Handler, ReleaseLock(h) \/ DeleteLock(h)
  PROVE  /\ Shapes' /\ OnlyStep(h) /\ run[h].pc \in {"release", "delete"}
         /\ run'[h].pc \in {"delete", "reset"} /\ run'[h].id = run[h].id
<1>1. PICK step \in {"delete", "reset"} : Goto(h, step)
  BY DEF ReleaseLock, DeleteLock
<1>2. OnlyStep(h) /\ run'[h].pc = step /\ run'[h].id = run[h].id
  BY <1>1, GoesOn
<1>3. run[h].pc \in {"release", "delete"} /\ UNCHANGED <<plug, session>>
  BY DEF ReleaseLock, DeleteLock, At, charger
<1> QED BY <1>2, <1>3, StopTyped, SessionStays, GoesOnShapes

\* The steps that end a call.
LEMMA EndDoes ==
  ASSUME Shapes, NEW h \in Handler,
         Refuse(h) \/ Reply(h) \/ Bill(h) \/ Dies(h) \/ \E l \in Late : Reset(h, l) \/ FinaliseFails(h, l)
  PROVE  /\ Shapes'
         /\ DOMAIN run' = Handler /\ run[h] # NoRun /\ run'[h] = NoRun /\ \A g \in Handler \ {h} : run'[g] = run[g]
         /\ run[h].c \in Connector
         /\ \A c \in Connector \ {run[h].c} : plug'[c] = plug[c]
         /\ \/ plug'[run[h].c].id \in {plug[run[h].c].id, Null}
            \/ run[h].pc = "reply" /\ plug'[run[h].c].id = run[h].id
<1>1. run[h].pc \in {"authorise", "reply", "bill", "finalise", "reset"} \/ run[h].kind \in {"start", "meter"}
  BY DEF Refuse, Reply, Bill, Dies, Reset, FinaliseFails, At
<1>2. run[h] # NoRun /\ run[h].c \in Connector
  BY <1>1, Busy
<1>3. UNCHANGED session
  BY DEF Refuse, Reply, Bill, Dies, Reset, FinaliseFails
<1> DEFINE on == [Unplugged EXCEPT !.at = "on", !.id = run[h].id]
<1>4. PICK then \in {Unplugged, plug[run[h].c], on} :
        Answer(h, run[h].c, then) /\ (then = on => run[h].pc = "reply" \/ on \in {Unplugged, plug[run[h].c]})
  BY DEF Refuse, Reply, Bill, Dies, Reset, FinaliseFails, At
<1>5. /\ {"at", "id"} \subseteq DOMAIN Unplugged /\ Unplugged.at = "free" /\ Unplugged.id = Null
      /\ {"at", "id"} \subseteq DOMAIN on /\ on.at = "on" /\ on.id = run[h].id
  BY DEF Unplugged
<1>6. then = on => run[h].pc = "reply" \/ on \in {Unplugged, plug[run[h].c]}
  BY <1>4
<1> HIDE DEF on
<1>7. run[h].pc = "reply" => run[h].id # Null
  BY DEF Shapes, RunTyped, NoRun, Early, Has
<1>8. Shapes'
  <2>1. \/ then = plug[run[h].c]
        \/ {"at", "id"} \subseteq DOMAIN then /\ (then.at \in {"free", "starting"} <=> then.id = Null)
    BY <1>4, <1>5, <1>7
  <2> QED BY <1>2, <1>3, <1>4, <2>1, EndsShapes
<1>9. /\ DOMAIN run' = Handler /\ run'[h] = NoRun /\ \A g \in Handler \ {h} : run'[g] = run[g]
      /\ \A c \in Connector \ {run[h].c} : plug'[c] = plug[c]
      /\ plug'[run[h].c] \in {plug[run[h].c], then}
  BY <1>2, <1>4, Answers
<1>10. \/ plug'[run[h].c].id \in {plug[run[h].c].id, Null}
       \/ run[h].pc = "reply" /\ plug'[run[h].c].id = run[h].id
  BY <1>4, <1>5, <1>9
<1> QED BY <1>2, <1>8, <1>9, <1>10

\* The three calls of the charger.
LEMMA CallDoes ==
  ASSUME StartAssumption, Shape, NEW h \in Handler, NEW c \in Connector,
         StartTransaction(h, c) \/ MeterValues(h, c) \/ StopTransaction(h, c)
  PROVE  /\ Shape'
         /\ DOMAIN run' = Handler /\ run[h] = NoRun /\ \A g \in Handler \ {h} : run'[g] = run[g]
         /\ exposed \subseteq exposed'
         /\ \A g \in Handler : run[g] # NoRun => run[g].tx \in exposed' /\ run'[h].tx \in exposed'
         /\ run'[h].c = c
         /\ \/ Starts(run'[h]) /\ run'[h].pc = "authorise" /\ plug[c].at = "starting"
            \/ /\ Meters(run'[h]) /\ run'[h].pc = "bill" /\ run'[h].id = plug[c].id /\ plug[c].at = "on"
               /\ Loaded.transactionId # Null => run'[h].tx = Loaded.transactionId
            \/ /\ Stops(run'[h]) /\ run'[h].pc = "finalise" /\ run'[h].id = plug[c].id /\ plug[c].at = "stopping"
               /\ Loaded.transactionId # Null => run'[h].tx = Loaded.transactionId
         /\ UNCHANGED <<row, plug, session, lock, faults>> /\ Copied
         /\ \A w \in Writer \ {h} : write'[w] = write[w]
<1>0. Shapes /\ StoreShape /\ h \in Writer
  BY DEF Shape, StartAssumption
<1>1. UNCHANGED <<row, plug, session, lock, faults>>
  BY DEF StartTransaction, MeterValues, StopTransaction, state
<1>2. PlugSame /\ SessionSame
  BY <1>0, <1>1, PlugStays, SessionStays
<1>3. CASE StartTransaction(h, c)
  <2>1. PICK tx \in 1..MaxId :
          /\ plug[c].at = "starting" /\ UNCHANGED state
          /\ Call(h, [kind |-> "start", pc |-> "authorise", c |-> c, tag |-> plug[c].tag, tx |-> tx,
                      id |-> Null, user |-> Nobody, at |-> Null])
    BY <1>3 DEF StartTransaction
  <2> DEFINE call == [kind |-> "start", pc |-> "authorise", c |-> c, tag |-> plug[c].tag, tx |-> tx,
                      id |-> Null, user |-> Nobody, at |-> Null]
  <2>2. {"kind", "pc", "tx", "c", "id", "at"} \subseteq DOMAIN call
        /\ Starts(call) /\ call.pc = "authorise" /\ call.c = c
    BY DEF Starts
  <2>3. Call(h, call)
    BY <2>1
  <2> HIDE DEF call
  <2>4. /\ DOMAIN run' = Handler /\ run[h] = NoRun /\ run'[h] = call /\ \A g \in Handler \ {h} : run'[g] = run[g]
        /\ exposed \subseteq exposed'
        /\ \A g \in Handler : run[g] # NoRun => run[g].tx \in exposed' /\ call.tx \in exposed'
    BY <1>0, <2>3, Arrives
  <2>5. RunTyped(h)'
    BY <2>2, <2>4 DEF RunTyped, Starts, Early
  <2>6. Shapes'
    BY <1>0, <1>2, <2>4, <2>5, ShapesBy
  <2>7. UNCHANGED <<row, cache, write>>
    BY <2>1 DEF state
  <2>8. StoreShape' /\ Copied
    BY <1>0, <2>7, StoreStays, CacheStays
  <2> QED BY <1>1, <2>1, <2>2, <2>4, <2>6, <2>7, <2>8 DEF Shape
<1>4. CASE MeterValues(h, c)
  <2> DEFINE tx == IF Loaded.transactionId # Null THEN Loaded.transactionId ELSE Loaded.ocppTransactionId
             call == [NoRun EXCEPT !.kind = "meter", !.pc = "bill", !.c = c, !.tx = tx, !.id = plug[c].id]
  <2>1. plug[c].at = "on" /\ Call(h, call) /\ Issue(h, << >>) /\ cache' = Loaded /\ row' = row
    BY <1>4 DEF MeterValues
  <2>2. Loaded.transactionId # Null => tx = Loaded.transactionId
    OBVIOUS
  <2> HIDE DEF tx
  <2>3. {"kind", "pc", "tx", "c", "id", "at"} \subseteq DOMAIN call
        /\ Meters(call) /\ call.pc = "bill" /\ call.c = c /\ call.tx = tx /\ call.id = plug[c].id
    BY DEF Meters, NoRun
  <2> HIDE DEF call
  <2>4. /\ DOMAIN run' = Handler /\ run[h] = NoRun /\ run'[h] = call /\ \A g \in Handler \ {h} : run'[g] = run[g]
        /\ exposed \subseteq exposed'
        /\ \A g \in Handler : run[g] # NoRun => run[g].tx \in exposed' /\ call.tx \in exposed'
    BY <1>0, <2>1, Arrives
  <2>5. RunTyped(h)'
    BY <2>3, <2>4 DEF RunTyped, Meters
  <2>6. Shapes'
    BY <1>0, <1>2, <2>4, <2>5, ShapesBy
  <2>7. Copied
    BY <1>0, <2>1, LoadCopies
  <2>8. StoreShape' /\ \A w \in Writer \ {h} : write'[w] = write[w]
    BY <1>0, <2>1, <2>7, IssueShape, Issues
  <2> QED BY <1>1, <2>1, <2>2, <2>3, <2>4, <2>6, <2>7, <2>8 DEF Shape
<1>5. CASE StopTransaction(h, c)
  <2> DEFINE tx == ActiveTransaction(Loaded, plug[c].id)
             call == [NoRun EXCEPT !.kind = "stop", !.pc = "finalise", !.c = c, !.at = Loaded.connector,
                                   !.tx = tx, !.id = plug[c].id]
  <2>1. plug[c].at = "stopping" /\ Call(h, call) /\ cache' = Loaded /\ UNCHANGED <<row, write>>
    BY <1>5 DEF StopTransaction
  <2>2. Loaded.transactionId # Null => tx = Loaded.transactionId
    BY DEF ActiveTransaction
  <2> HIDE DEF tx
  <2>3. {"kind", "pc", "tx", "c", "id", "at"} \subseteq DOMAIN call
        /\ Stops(call) /\ call.pc = "finalise" /\ call.c = c /\ call.tx = tx /\ call.id = plug[c].id
    BY DEF Stops, NoRun
  <2> HIDE DEF call
  <2>4. /\ DOMAIN run' = Handler /\ run[h] = NoRun /\ run'[h] = call /\ \A g \in Handler \ {h} : run'[g] = run[g]
        /\ exposed \subseteq exposed'
        /\ \A g \in Handler : run[g] # NoRun => run[g].tx \in exposed' /\ call.tx \in exposed'
    BY <1>0, <2>1, Arrives
  <2>5. RunTyped(h)'
    BY <2>3, <2>4 DEF RunTyped, Stops
  <2>6. Shapes'
    BY <1>0, <1>2, <2>4, <2>5, ShapesBy
  <2>7. Copied
    BY <1>0, <2>1, LoadCopies
  <2>8. StoreShape'
    BY <1>0, <2>1, <2>7 DEF StoreShape, WriteTyped, Copied
  <2> QED BY <1>1, <2>1, <2>2, <2>3, <2>4, <2>6, <2>7, <2>8 DEF Shape
<1> QED BY <1>3, <1>4, <1>5

-----------------------------------------------------------------------------
\* Handlers that run beside each other stay exposed, and a start is waited for.

Grows == exposed \subseteq exposed'

LEMMA ApartBy ==
  ASSUME Apart, Grows, \A g \in Handler : run'[g] # NoRun => run[g] # NoRun /\ run'[g].tx = run[g].tx
  PROVE  Apart'
BY DEF Apart, Grows

LEMMA AwaitedBy ==
  ASSUME Awaited, Grows,
         \A g \in Handler : Starts(run'[g]) => Starts(run[g]) /\ run'[g].tx = run[g].tx /\ run'[g].c = run[g].c,
         \A g \in Handler : Starts(run[g]) /\ plug[run[g].c].at = "starting" => plug'[run[g].c].at = "starting"
  PROVE  Awaited'
BY DEF Awaited, Grows, Starts

LEMMA GoesOnApart ==
  ASSUME Apart, Awaited, Grows, NEW h \in Handler, OnlyStep(h), run[h] # NoRun, UNCHANGED plug
  PROVE  Apart' /\ Awaited'
<1>1. \A g \in Handler : run'[g] # NoRun => run[g] # NoRun /\ run'[g].tx = run[g].tx
  BY DEF OnlyStep
<1>2. \A g \in Handler : Starts(run'[g]) => Starts(run[g]) /\ run'[g].tx = run[g].tx /\ run'[g].c = run[g].c
  BY DEF OnlyStep, Starts
<1> QED BY <1>1, <1>2, ApartBy, AwaitedBy

LEMMA EndsApart ==
  ASSUME Apart, Grows, NEW h \in Handler, run[h] # NoRun,
         run'[h] = NoRun, \A g \in Handler \ {h} : run'[g] = run[g]
  PROVE  Apart' /\ Awaited'
<1>1. \A g \in Handler : run'[g] # NoRun => run[g] # NoRun /\ run'[g].tx = run[g].tx /\ g # h
  OBVIOUS
<1>2. \A g \in Handler : Starts(run'[g]) => run'[g].tx \in exposed'
  <2> SUFFICES ASSUME NEW g \in Handler, Starts(run'[g]) PROVE run'[g].tx \in exposed'
    OBVIOUS
  <2>1. run'[g] # NoRun
    BY DEF NoRun, Starts
  <2> QED BY <1>1, <2>1 DEF Apart, Grows
<1> QED BY <1>1, <1>2, ApartBy DEF Awaited, Starts

LEMMA AsideApart ==
  ASSUME Apart, Awaited, Grows, UNCHANGED run,
         \A c \in Connector : plug[c].at = "starting" => plug'[c].at = "starting", Shapes
  PROVE  Apart' /\ Awaited'
<1>1. \A g \in Handler : run'[g] # NoRun => run[g] # NoRun /\ run'[g].tx = run[g].tx
  OBVIOUS
<1>2. \A g \in Handler : Starts(run'[g]) => Starts(run[g]) /\ run'[g].tx = run[g].tx /\ run'[g].c = run[g].c
  OBVIOUS
<1>3. \A g \in Handler : Starts(run[g]) => run[g].c \in Connector
  BY Busy DEF Starts
<1> QED BY <1>1, <1>2, <1>3, ApartBy, AwaitedBy

LEMMA CallApart ==
  ASSUME StartAssumption, Shape, Apart, Awaited, NEW h \in Handler, NEW c \in Connector,
         StartTransaction(h, c) \/ MeterValues(h, c) \/ StopTransaction(h, c)
  PROVE  Apart' /\ Awaited'
<1>1. /\ run[h] = NoRun /\ \A g \in Handler \ {h} : run'[g] = run[g]
      /\ exposed \subseteq exposed'
      /\ \A g \in Handler : run[g] # NoRun => run[g].tx \in exposed' /\ run'[h].tx \in exposed'
      /\ run'[h].c = c
      /\ Starts(run'[h]) => plug[c].at = "starting"
      /\ UNCHANGED plug
  BY CallDoes DEF Starts, Meters, Stops
<1>2. Apart'
  BY <1>1 DEF Apart
<1>3. Awaited'
  <2> SUFFICES ASSUME NEW g \in Handler, Starts(run'[g]), run'[g].tx \notin exposed'
               PROVE  plug'[run'[g].c].at = "starting"
    BY DEF Awaited, Starts
  <2> QED BY <1>1 DEF Awaited
<1> QED BY <1>2, <1>3

-----------------------------------------------------------------------------
\* A session that nothing touches stays the one at work.

LEMMA HandlerStays ==
  ASSUME NEW i, NEW g \in Handler, HandlerFits(g, i), run'[g] = run[g],
         session'[i].tx = session[i].tx, session'[i].c = session[i].c, UNCHANGED row,
         Knows(session[i].tx) => Knows(session[i].tx)', write'[g] = write[g]
  PROVE  HandlerFits(g, i)'
BY DEF HandlerFits, Updates, Knows, Has, Meters, Stops

LEMMA IdleFits ==
  ASSUME NEW i, NEW g \in Handler, run'[g] = NoRun \/ (Starts(run'[g]) /\ Early(run'[g]))
  PROVE  HandlerFits(g, i)'
BY DEF HandlerFits, Has, Meters, Stops, Starts, Early, NoRun

LEMMA PlugFitsOn ==
  ASSUME NEW i, NEW c \in Connector, PlugFits(c, i), plug'[c].id \in {plug[c].id, Null},
         session'[i].tx = session[i].tx, session'[i].c = session[i].c,
         Knows(session[i].tx) => Knows(session[i].tx)'
  PROVE  PlugFits(c, i)'
BY DEF PlugFits, Knows

LEMMA KnowsOn ==
  ASSUME Copied, UNCHANGED row, NEW tx
  PROVE  Knows(tx) => Knows(tx)'
BY DEF Copied, Knows

LEMMA OpenIsLive == Shapes => Open \subseteq Live
BY DEF Shapes, RowTyped, Open, Live, Rows

\* The sessions are left alone.
LEMMA StaysUntouched ==
  ASSUME Quiet, Grows, UNCHANGED session, NEW i \in Untouched'
  PROVE  i \in Untouched /\ OneAtWork(i) /\ Live' = {i}
<1>1. Live' = Live
  BY DEF Live, Rows
<1>2. i \in Untouched
  BY <1>1 DEF Untouched, Grows
<1> QED BY <1>1, <1>2 DEF Quiet, OneAtWork

\* A step beside the handlers.
LEMMA AsideQuiet ==
  ASSUME StartAssumption, Quiet, Grows, UNCHANGED <<run, session, row>>, Copied,
         \A c \in Connector : plug'[c].id \in {plug[c].id, Null},
         \A g \in Handler : write'[g] = write[g]
  PROVE  Quiet'
<1> SUFFICES ASSUME NEW i \in Untouched' PROVE OneAtWork(i)'
  BY DEF Quiet
<1>1. OneAtWork(i) /\ Live' = {i}
  BY StaysUntouched
<1>2. Knows(session[i].tx) => Knows(session[i].tx)'
  BY DEF Knows, Copied
<1>3. \A c \in Connector : PlugFits(c, i)'
  BY <1>1, <1>2, PlugFitsOn DEF OneAtWork
<1>4. \A h \in Handler : HandlerFits(h, i)'
  BY <1>1, <1>2, HandlerStays DEF OneAtWork
<1> QED BY <1>1, <1>3, <1>4 DEF OneAtWork

\* A handler goes on, and the tables and the charger are left alone.
LEMMA GoesOnQuiet ==
  ASSUME Quiet, Grows, NEW h \in Handler, OnlyStep(h), UNCHANGED <<session, row, cache, plug>>,
         \A g \in Handler \ {h} : write'[g] = write[g],
         \A i \in Live : Live = {i} /\ HandlerFits(h, i) => HandlerFits(h, i)'
  PROVE  Quiet'
<1> SUFFICES ASSUME NEW i \in Untouched' PROVE OneAtWork(i)'
  BY DEF Quiet
<1>1. i \in Untouched /\ OneAtWork(i) /\ Live' = {i}
  BY StaysUntouched
<1>2. Knows(session[i].tx) => Knows(session[i].tx)'
  BY DEF Knows
<1>3. \A c \in Connector : PlugFits(c, i)'
  BY <1>1, <1>2, PlugFitsOn DEF OneAtWork
<1>4. \A g \in Handler \ {h} : HandlerFits(g, i)'
  BY <1>1, <1>2, HandlerStays DEF OneAtWork, OnlyStep
<1>5. HandlerFits(h, i)'
  BY <1>1 DEF OneAtWork, Untouched
<1> QED BY <1>1, <1>3, <1>4, <1>5 DEF OneAtWork

-----------------------------------------------------------------------------
\* The steps of a start

Calming == Shape' /\ Apart' /\ Awaited' /\ Quiet'

LEMMA EarlyCalm ==
  ASSUME Calm, NEW h \in Handler, Authorise(h) \/ MarkChargingActive(h) \/ CreateSessionFind(h)
  PROVE  Calming
<1>1. Shapes /\ StoreShape /\ Apart /\ Awaited /\ Quiet /\ FreshInv
  BY DEF Calm, Shape
<1>2. UNCHANGED <<row, cache, write, plug, session>>
  BY DEF Authorise, MarkChargingActive, CreateSessionFind, state, charger
<1>3. Shape'
  BY <1>1, <1>2, StartShapes, StoreStays DEF Shape
<1>4. Grows
  BY DEF Authorise, MarkChargingActive, CreateSessionFind, Expose, history, Grows
<1>5. run[h].pc \in {"authorise", "lock", "find"}
  BY DEF Authorise, MarkChargingActive, CreateSessionFind, At
<1>6. run[h] # NoRun /\ Starts(run[h])
  BY <1>1, <1>5 DEF Shapes, RunTyped, NoRun, Has, Early
<1>7. \/ OnlyStep(h) /\ Early(run'[h])
      \/ /\ run[h].pc = "find"
         /\ \E j \in OpenOn(run[h].c) : run' = [run EXCEPT ![h] = Found(run[h], j)]
  <2>1. CASE Authorise(h)
    <3>1. Goto(h, "lock")
      BY <2>1 DEF Authorise
    <3> QED BY <1>1, <3>1, GoesOn DEF Early
  <2>2. CASE MarkChargingActive(h)
    <3>1. OnlyStep(h) /\ run'[h].pc = "find"
      BY <1>1, <2>2, Marks
    <3> QED BY <3>1 DEF Early
  <2>3. CASE CreateSessionFind(h)
    <3>1. run[h].pc = "find" /\ WithTx(run[h].tx) = {}
      BY <1>1, <1>6, <2>3 DEF CreateSessionFind, At, FreshInv, Unused, WithTx, Early
    <3>2. CASE Goto(h, "create")
      <4>1. OnlyStep(h) /\ run'[h].pc = "create"
        BY <1>1, <3>2, GoesOn
      <4> QED BY <4>1 DEF Early
    <3>3. CASE ~Goto(h, "create")
      BY <2>3, <3>1, <3>3 DEF CreateSessionFind
    <3> QED BY <3>2, <3>3
  <2> QED BY <2>1, <2>2, <2>3
<1>8. OnlyStep(h)
  BY <1>1, <1>7, Gets
<1>9. ASSUME NEW i \in Live, Live = {i}, HandlerFits(h, i) PROVE HandlerFits(h, i)'
  <2>1. CASE Early(run'[h])
    <3>1. Starts(run'[h])
      BY <1>6, <1>8 DEF OnlyStep, Starts
    <3> QED BY <2>1, <3>1, IdleFits
  <2>2. CASE ~Early(run'[h])
    <3>1. PICK j \in OpenOn(run[h].c) : run' = [run EXCEPT ![h] = Found(run[h], j)]
      BY <1>7, <2>2
    <3>2. j = i /\ session[i].c = run[h].c
      BY <1>1, <1>9, <3>1, OpenIsLive DEF OpenOn
    <3>3. run'[h].pc = "update" /\ run'[h].id = i /\ run'[h].kind = run[h].kind /\ run'[h].c = run[h].c
      BY <1>1, <3>1, <3>2, Gets DEF OnlyStep
    <3> QED BY <1>2, <1>6, <3>2, <3>3 DEF HandlerFits, Has, Meters, Stops, Starts
  <2> QED BY <2>1, <2>2
<1>10. Quiet'
  BY <1>1, <1>2, <1>4, <1>8, <1>9, GoesOnQuiet
<1> QED BY <1>1, <1>2, <1>3, <1>4, <1>6, <1>8, <1>10, GoesOnApart DEF Calming

LEMMA UpdateCalm ==
  ASSUME StartAssumption, Calm, NEW h \in Handler, UpdateState(h)
  PROVE  Calming
<1>1. Shapes /\ StoreShape /\ Apart /\ Awaited /\ Quiet /\ h \in Writer
  BY DEF Calm, Shape, StartAssumption
<1> DEFINE update == [connector |-> run[h].c, transactionId |-> session[run[h].id].tx,
                      ocppTransactionId |-> run[h].id, pendingUserId |-> Null]
<1>2. /\ run[h].pc = "update" /\ Issue(h, update) /\ Goto(h, "status")
      /\ UNCHANGED <<row, cache, plug, session>> /\ UNCHANGED exposed
  BY DEF UpdateState, At, charger, history
<1>3. /\ "transactionId" \in DOMAIN Allowed(update)
      /\ Allowed(update).transactionId = session[run[h].id].tx
  BY DEF Allowed, Field
<1> HIDE DEF update
<1>4. OnlyStep(h) /\ run'[h].pc = "status" /\ run'[h].id = run[h].id
  BY <1>1, <1>2, GoesOn
<1>5. /\ \A v \in Writer \ {h} : write'[v] = write[v]
      /\ write'[h].phase = "db" /\ write'[h].fields = Allowed(update)
  BY <1>1, <1>2, Issues
<1>6. Shape'
  <2>1. Copied
    BY <1>1, <1>2, CacheStays
  <2>2. StoreShape'
    BY <1>1, <1>2, <2>1, IssueShape
  <2> QED BY <1>1, <2>2, StartShapes DEF Shape
<1>7. run[h] # NoRun /\ Starts(run[h])
  BY <1>1, <1>2 DEF Shapes, RunTyped, NoRun, Has, Early
<1>8. ASSUME NEW i \in Live, Live = {i}, HandlerFits(h, i) PROVE HandlerFits(h, i)'
  <2>1. run[h].id = i /\ run[h].c = session[i].c
    BY <1>2, <1>8 DEF HandlerFits, Has
  <2>2. Starts(run'[h]) /\ run'[h].c = run[h].c
    BY <1>4, <1>7 DEF OnlyStep, Starts
  <2>3. Updates(h, session[i].tx)'
    BY <1>2, <1>3, <1>5, <2>1 DEF Updates
  <2> QED BY <1>2, <1>4, <2>1, <2>2, <2>3 DEF HandlerFits, Has, Meters, Stops, Starts
<1>9. Grows /\ \A g \in Handler \ {h} : write'[g] = write[g]
  BY <1>2, <1>5 DEF Grows, StartAssumption
<1>10. Quiet'
  BY <1>1, <1>2, <1>4, <1>8, <1>9, GoesOnQuiet
<1> QED BY <1>1, <1>2, <1>4, <1>6, <1>7, <1>9, <1>10, GoesOnApart DEF Calming

LEMMA LockStepCalm ==
  ASSUME Calm, NEW h \in Handler, ReleaseLock(h) \/ DeleteLock(h)
  PROVE  Calming
<1>1. Shapes /\ StoreShape /\ Apart /\ Awaited /\ Quiet
  BY DEF Calm, Shape
<1>2. UNCHANGED <<row, cache, write, plug, session, exposed>>
  BY DEF ReleaseLock, DeleteLock, state, charger, history
<1>3. Shapes' /\ OnlyStep(h) /\ run[h].pc \in {"release", "delete"}
  BY <1>1, LockStepShapes
<1>4. Shape' /\ Grows
  BY <1>1, <1>2, <1>3, StoreStays DEF Shape, Grows
<1>5. run[h] # NoRun /\ Stops(run[h])
  BY <1>1, <1>3 DEF Shapes, RunTyped, NoRun, Has, Early
<1>6. \A i \in Live : ~HandlerFits(h, i)
  BY <1>3, <1>5 DEF HandlerFits
<1>7. Quiet'
  BY <1>1, <1>2, <1>3, <1>4, <1>6, GoesOnQuiet
<1> QED BY <1>1, <1>2, <1>3, <1>4, <1>5, <1>7, GoesOnApart DEF Calming

-----------------------------------------------------------------------------
\* The steps that write a session

LEMMA ConfirmCalm ==
  ASSUME Calm, NEW h \in Handler, ConfirmSession(h)
  PROVE  Calming
<1>1. Shapes /\ StoreShape /\ Apart /\ Awaited /\ Quiet
  BY DEF Calm, Shape
<1>2. /\ OnlyStep(h) /\ run[h].pc = "status" /\ run'[h].pc = "reply" /\ run'[h].id = run[h].id
      /\ write[h].phase = "none"
      /\ UNCHANGED <<row, cache, write, plug, session, exposed>>
  BY <1>1, ConfirmDoes DEF state, charger, history
<1>3. Shape' /\ Grows
  BY <1>1, <1>2, ConfirmShapes, StoreStays DEF Shape, Grows
<1>4. run[h] # NoRun /\ Starts(run[h])
  BY <1>1, <1>2 DEF Shapes, RunTyped, NoRun, Has, Early
<1>5. ASSUME NEW i \in Live, HandlerFits(h, i) PROVE HandlerFits(h, i)'
  <2>1. run[h].id = i /\ run[h].c = session[i].c /\ Knows(session[i].tx)
    BY <1>2, <1>5 DEF HandlerFits, Has, Updates
  <2>2. Starts(run'[h]) /\ run'[h].c = run[h].c
    BY <1>2, <1>4 DEF OnlyStep, Starts
  <2>3. Knows(session[i].tx)'
    BY <1>2, <2>1 DEF Knows
  <2> QED BY <1>2, <2>1, <2>2, <2>3 DEF HandlerFits, Has, Meters, Stops, Starts
<1>6. Quiet'
  BY <1>1, <1>2, <1>3, <1>5, GoesOnQuiet
<1> QED BY <1>1, <1>2, <1>3, <1>4, <1>6, GoesOnApart DEF Calming

\* A session that ends before its stop is still the one at work.
LEMMA EndEarlyCalm ==
  ASSUME StartAssumption, Calm, NEW j \in Open, EndEarly(j)
  PROVE  Calming
<1>1. Shapes /\ StoreShape /\ Apart /\ Awaited /\ Quiet
  BY DEF Calm, Shape
<1>2. /\ DOMAIN session' = 1..MaxId /\ \A i \in 1..MaxId : SessionWritten(i) /\ session'[i].stopped = session[i].stopped
      /\ UNCHANGED <<row, cache, write, plug, run>>
      /\ Grows
  BY <1>1, EndEarlyDoes DEF state, charger, Grows
<1>3. Shape'
  BY <1>1, <1>2, EndEarlyShapes, StoreStays DEF Shape
<1>4. Live' = Live
  BY <1>2 DEF Live, Rows, SessionWritten
<1>5. Quiet'
  <2> SUFFICES ASSUME NEW i \in Untouched' PROVE OneAtWork(i)'
    BY DEF Quiet
  <2>1. i \in 1..MaxId /\ session'[i].tx = session[i].tx /\ session'[i].c = session[i].c
    BY <1>2 DEF Untouched, Live, Rows, SessionWritten
  <2>2. i \in Untouched
    BY <1>2, <1>4, <2>1 DEF Untouched, Grows
  <2>3. OneAtWork(i) /\ Live' = {i}
    BY <1>1, <1>4, <2>2 DEF Quiet, OneAtWork
  <2>4. Knows(session[i].tx) => Knows(session[i].tx)'
    <3>1. row' = row /\ cache' = cache
      BY <1>2
    <3> QED BY <2>1, <3>1 DEF Knows
  <2>5. \A c \in Connector : PlugFits(c, i)'
    BY <1>2, <2>1, <2>3, <2>4, PlugFitsOn DEF OneAtWork
  <2>6. \A g \in Handler : HandlerFits(g, i)'
    BY <1>2, <2>1, <2>3, <2>4, HandlerStays DEF OneAtWork
  <2> QED BY <2>3, <2>5, <2>6 DEF OneAtWork
<1>6. Apart' /\ Awaited'
  BY <1>1, <1>2, AsideApart
<1> QED BY <1>3, <1>5, <1>6 DEF Calming

\* A stop ends the one at work, and none is left with its id.
LEMMA FinaliseCalm ==
  ASSUME Calm, NEW h \in Handler, Finalise(h)
  PROVE  Calming
<1>1. Shapes /\ StoreShape /\ Apart /\ Awaited /\ Quiet
  BY DEF Calm, Shape
<1>2. /\ DOMAIN session' = 1..MaxId /\ \A i \in 1..MaxId : SessionWritten(i)
      /\ \A i \in WithTx(run[h].tx) : session'[i].stopped
      /\ \A i \in (1..MaxId) \ WithTx(run[h].tx) : session'[i] = session[i]
      /\ OnlyStep(h) /\ run[h].pc = "finalise"
      /\ UNCHANGED <<row, cache, write, plug, exposed>>
  BY <1>1, FinaliseDoes DEF state, charger
<1>3. Shape' /\ Grows
  BY <1>1, <1>2, FinaliseShapes, StoreStays DEF Shape, Grows
<1>4. run[h] # NoRun /\ Stops(run[h])
  BY <1>1, <1>2 DEF Shapes, RunTyped, NoRun, Has, Early
<1>5. Untouched' = {}
  <2> SUFFICES ASSUME NEW i \in Untouched' PROVE FALSE
    OBVIOUS
  <2>1. i \in 1..MaxId /\ i \notin WithTx(run[h].tx) /\ i \in Live /\ session[i].tx \notin exposed
    BY <1>2 DEF Untouched, Live, Rows, SessionWritten
  <2>2. HandlerFits(h, i)
    BY <1>1, <2>1 DEF Quiet, Untouched, OneAtWork
  <2>3. session[i].tx = run[h].tx
    BY <1>4, <2>2 DEF HandlerFits
  <2> QED BY <2>1, <2>3 DEF WithTx, Live
<1>6. Quiet'
  BY <1>5 DEF Quiet
<1> QED BY <1>1, <1>2, <1>3, <1>4, <1>6, GoesOnApart DEF Calming

\* A session is made where none is open and the charger names none, or all are touched.
LEMMA CreateCalm ==
  ASSUME StartAssumption, Calm, NEW h \in Handler, CreateSession(h)
  PROVE  Calming
<1>1. Shapes /\ StoreShape /\ Apart /\ Awaited /\ Quiet
  BY DEF Calm, Shape
<1>2. /\ run[h].pc = "create" /\ Starts(run[h]) /\ OnlyStep(h)
      /\ run'[h].pc = "update" /\ run'[h].id = NewKey
      /\ session' = [session EXCEPT ![NewKey] = NewRow(h)]
      /\ UNCHANGED <<row, cache, write, plug>>
  BY <1>1, CreateDoes DEF state, charger
<1>3. Shape'
  BY <1>1, <1>2, CreateShapes, StoreStays DEF Shape
<1>4. run[h] # NoRun /\ run[h].c \in Connector
  BY <1>1, <1>2, Busy
<1>5. IF Others(run[h].c) = {} THEN UNCHANGED history
      ELSE Expose(TxOf(Others(run[h].c)) \cup {run[h].tx})
  BY DEF CreateSession
<1>6. Grows
  BY <1>5 DEF Expose, history, Grows
<1>7. \A i \in Live' : (i = NewKey /\ i \in 1..MaxId) \/ (i \in Live /\ i # NewKey)
  BY <1>1, <1>2 DEF Live, Rows, Shapes
<1>8. NewKey \in 1..MaxId => session'[NewKey] = NewRow(h)
  BY <1>1, <1>2 DEF Shapes
<1>9. \A i \in Live : i # NewKey => session'[i] = session[i]
  BY <1>1, <1>2 DEF Shapes, Live, Rows
<1>10. NewRow(h).tx = run[h].tx /\ NewRow(h).c = run[h].c /\ NewRow(h).stopped = FALSE
  BY DEF NewRow
<1>11. Quiet'
  <2>1. CASE Others(run[h].c) # {}
    <3>1. exposed' = exposed \cup (TxOf(Others(run[h].c)) \cup {run[h].tx})
      BY <1>5, <2>1 DEF Expose
    <3>2. \A i \in Live' : session'[i].tx \in exposed'
      <4> SUFFICES ASSUME NEW i \in Live' PROVE session'[i].tx \in exposed'
        OBVIOUS
      <4>1. CASE i = NewKey /\ i \in 1..MaxId
        BY <1>8, <1>10, <3>1, <4>1
      <4>2. CASE i \in Live /\ i # NewKey
        BY <1>9, <3>1, <4>2 DEF TxOf, Others
      <4> QED BY <1>7, <4>1, <4>2
    <3> QED BY <3>2 DEF Quiet, Untouched
  <2>2. CASE Others(run[h].c) = {}
    <3> SUFFICES ASSUME NEW i \in Untouched' PROVE OneAtWork(i)'
      BY DEF Quiet
    <3>1. Live = {} /\ \A d \in Connector \ {run[h].c} : plug[d].id = Null
      BY <2>2 DEF Others
    <3>2. exposed' = exposed
      BY <1>5, <2>2 DEF history
    <3>3. i \in Live'
      BY DEF Untouched
    <3>4. i = NewKey /\ i \in 1..MaxId
      BY <1>7, <3>1, <3>3
    <3>5. session'[i].tx = run[h].tx /\ session'[i].c = run[h].c
      BY <1>8, <1>10, <3>4
    <3>6. run[h].tx \notin exposed
      BY <3>2, <3>5 DEF Untouched
    <3>7. Live' = {i}
      BY <1>7, <3>1, <3>3, <3>4
    <3>8. \A c \in Connector : plug'[c].id = Null
      <4>1. plug[run[h].c].at = "starting"
        BY <1>1, <1>2, <3>6 DEF Awaited
      <4>2. plug[run[h].c].id = Null
        BY <1>1, <1>4, <4>1 DEF Shapes, PlugTyped
      <4> QED BY <1>2, <3>1, <4>2
    <3>9. \A g \in Handler \ {h} : run'[g] = NoRun
      BY <1>1, <1>2, <1>4, <3>6 DEF Apart, OnlyStep
    <3>10. \A g \in Handler \ {h} : HandlerFits(g, i)'
      BY <3>9, IdleFits
    <3>11. HandlerFits(h, i)'
      <4>1. run'[h].kind = "start" /\ run'[h].c = run[h].c
        BY <1>2 DEF OnlyStep, Starts
      <4> QED BY <1>2, <3>4, <3>5, <4>1 DEF HandlerFits, Has, Meters, Stops
    <3>12. \A c \in Connector : PlugFits(c, i)'
      BY <3>8 DEF PlugFits, Null
    <3> QED BY <3>7, <3>10, <3>11, <3>12 DEF OneAtWork
  <2> QED BY <2>1, <2>2
<1> QED BY <1>1, <1>2, <1>3, <1>4, <1>6, <1>11, GoesOnApart DEF Calming

-----------------------------------------------------------------------------
\* The steps that end a call, and those that begin one

LEMMA EndCalm ==
  ASSUME StartAssumption, Calm, NEW h \in Handler,
         Refuse(h) \/ Reply(h) \/ Bill(h) \/ Dies(h) \/ \E l \in Late : Reset(h, l) \/ FinaliseFails(h, l)
  PROVE  Calming
<1>1. Shapes /\ StoreShape /\ Apart /\ Awaited /\ Quiet
  BY DEF Calm, Shape
<1>2. /\ Shapes' /\ run[h] # NoRun /\ run'[h] = NoRun /\ \A g \in Handler \ {h} : run'[g] = run[g]
      /\ run[h].c \in Connector
      /\ \A c \in Connector \ {run[h].c} : plug'[c] = plug[c]
      /\ \/ plug'[run[h].c].id \in {plug[run[h].c].id, Null}
         \/ run[h].pc = "reply" /\ plug'[run[h].c].id = run[h].id
  BY <1>1, EndDoes
<1>3. UNCHANGED <<row, cache, session>>
  BY DEF Refuse, Reply, Bill, Dies, Reset, FinaliseFails, state
<1>4. Grows
  BY DEF Refuse, Reply, Bill, Dies, Reset, FinaliseFails, Expose, history, Grows
<1>5. StoreShape' /\ \A g \in Handler : write'[g] = write[g]
  <2>1. CASE UNCHANGED write
    BY <1>1, <1>3, <2>1, StoreStays
  <2>2. CASE ~UNCHANGED write
    <3>1. PICK l \in Late, update \in {[transactionId |-> Null], [transactionId |-> Null, ocppTransactionId |-> Null]} :
             Issue(l, update)
      BY <2>2 DEF Refuse, Reply, Bill, Dies, Reset, FinaliseFails, state
    <3>2. l \in Writer /\ Copied /\ \A g \in Handler : g \in Writer \ {l}
      BY <1>1, <1>3, CacheStays DEF StartAssumption
    <3>3. StoreShape'
      BY <1>1, <1>3, <3>1, <3>2, IssueShape
    <3>4. \A v \in Writer \ {l} : write'[v] = write[v]
      BY <1>1, <3>1, <3>2, Issues
    <3> QED BY <3>2, <3>3, <3>4
  <2> QED BY <2>1, <2>2
<1>6. Quiet'
  <2> SUFFICES ASSUME NEW i \in Untouched' PROVE OneAtWork(i)'
    BY DEF Quiet
  <2>1. i \in Untouched /\ OneAtWork(i) /\ Live' = {i}
    BY <1>1, <1>3, <1>4, StaysUntouched
  <2>2. Knows(session[i].tx) => Knows(session[i].tx)'
    <3>1. row' = row /\ cache' = cache /\ session' = session
      BY <1>3
    <3> QED BY <3>1 DEF Knows
  <2>3. \A g \in Handler \ {h} : HandlerFits(g, i)'
    BY <1>2, <1>3, <1>5, <2>1, <2>2, HandlerStays DEF OneAtWork
  <2>4. HandlerFits(h, i)'
    BY <1>2, IdleFits
  <2>5. ASSUME NEW c \in Connector PROVE PlugFits(c, i)'
    <3>1. PlugFits(c, i) /\ HandlerFits(h, i)
      BY <2>1 DEF OneAtWork
    <3>2. CASE plug'[c].id \in {plug[c].id, Null}
      BY <1>3, <2>2, <3>1, <3>2, PlugFitsOn
    <3>3. CASE c = run[h].c /\ run[h].pc = "reply" /\ plug'[c].id = run[h].id
      <4>1. run[h].id = i /\ c = session[i].c /\ Knows(session[i].tx)
        BY <3>1, <3>3 DEF HandlerFits, Has
      <4>2. Knows(session[i].tx)' /\ session' = session
        BY <1>3, <2>2, <4>1
      <4> QED BY <3>3, <4>1, <4>2 DEF PlugFits
    <3> QED BY <1>2, <3>2, <3>3
  <2> QED BY <2>1, <2>3, <2>4, <2>5 DEF OneAtWork
<1> QED BY <1>1, <1>2, <1>4, <1>5, <1>6, EndsApart DEF Calming, Shape

LEMMA CallCalm ==
  ASSUME StartAssumption, Calm, NEW h \in Handler, NEW c \in Connector,
         StartTransaction(h, c) \/ MeterValues(h, c) \/ StopTransaction(h, c)
  PROVE  Calming
<1>1. Shapes /\ StoreShape /\ Apart /\ Awaited /\ Quiet /\ Shape /\ FreshInv
  BY DEF Calm, Shape
<1>2. /\ Shape' /\ run[h] = NoRun /\ \A g \in Handler \ {h} : run'[g] = run[g]
      /\ Grows
      /\ run'[h].c = c
      /\ \/ Starts(run'[h]) /\ run'[h].pc = "authorise"
         \/ /\ Meters(run'[h]) /\ run'[h].pc = "bill" /\ run'[h].id = plug[c].id /\ plug[c].at = "on"
            /\ Loaded.transactionId # Null => run'[h].tx = Loaded.transactionId
         \/ /\ Stops(run'[h]) /\ run'[h].pc = "finalise" /\ run'[h].id = plug[c].id /\ plug[c].at = "stopping"
            /\ Loaded.transactionId # Null => run'[h].tx = Loaded.transactionId
      /\ UNCHANGED <<row, plug, session>> /\ Copied
      /\ \A w \in Writer \ {h} : write'[w] = write[w]
  BY <1>1, CallDoes DEF Grows
<1>3. Quiet'
  <2> SUFFICES ASSUME NEW i \in Untouched' PROVE OneAtWork(i)'
    BY DEF Quiet
  <2>1. i \in Untouched /\ OneAtWork(i) /\ Live' = {i}
    BY <1>1, <1>2, StaysUntouched
  <2>2. Knows(session[i].tx) => Knows(session[i].tx)'
    <3>1. row' = row /\ session' = session /\ (cache.known => cache'.known /\ cache'.transactionId = cache.transactionId)
      BY <1>2 DEF Copied
    <3> QED BY <3>1 DEF Knows
  <2>3. \A d \in Connector : PlugFits(d, i)'
    BY <1>2, <2>1, <2>2, PlugFitsOn DEF OneAtWork
  <2>4. \A g \in Handler \ {h} : HandlerFits(g, i)'
    BY <1>2, <2>1, <2>2, HandlerStays DEF OneAtWork, StartAssumption
  <2>5. HandlerFits(h, i)'
    <3>1. CASE Starts(run'[h]) /\ run'[h].pc = "authorise"
      BY <3>1, IdleFits DEF Early
    <3>2. ASSUME plug[c].at \in {"on", "stopping"}
          PROVE  plug[c].id = i /\ c = session[i].c /\ Loaded.transactionId = session[i].tx /\ session[i].tx # Null
      <4>1. plug[c].id # Null /\ PlugFits(c, i)
        BY <1>1, <2>1, <3>2 DEF Shapes, PlugTyped, OneAtWork
      <4>2. plug[c].id = i /\ c = session[i].c /\ Knows(session[i].tx)
        BY <4>1 DEF PlugFits
      <4>3. Loaded = cache
        BY <1>1, <4>2, LoadedCopies DEF Knows
      <4>4. session[i].tx \in 1..MaxId
        BY <1>1, <2>1 DEF Untouched, Live, FreshInv, Below
      <4>5. session[i].tx # Null
        BY <4>4 DEF Null
      <4> QED BY <4>2, <4>3, <4>5 DEF Knows
    <3>3. CASE Meters(run'[h]) /\ run'[h].pc = "bill" /\ run'[h].id = plug[c].id /\ plug[c].at = "on"
      BY <1>2, <3>2, <3>3 DEF HandlerFits, Has, Meters, Stops, Starts
    <3>4. CASE Stops(run'[h]) /\ run'[h].pc = "finalise" /\ run'[h].id = plug[c].id /\ plug[c].at = "stopping"
      BY <1>2, <3>2, <3>4 DEF HandlerFits, Has, Meters, Stops, Starts
    <3> QED BY <1>2, <3>1, <3>3, <3>4
  <2> QED BY <2>1, <2>3, <2>4, <2>5 DEF OneAtWork
<1> QED BY <1>1, <1>2, <1>3, CallApart DEF Calming

-----------------------------------------------------------------------------
\* The other steps

\* The driver, a notice, a key or a time-out: nothing of the database is written.
LEMMA OutsideCalm ==
  ASSUME StartAssumption, Calm,
         \/ Driver \/ Notices \/ InitTransactionCounter \/ TimeOut \/ \E c \in Connector : LockExpires(c)
         \/ UNCHANGED vars
  PROVE  Calming
<1>1. Shapes /\ StoreShape /\ Apart /\ Awaited /\ Quiet /\ Shape
  BY DEF Calm, Shape
<1>2. CASE Driver
  <2>1. UNCHANGED <<row, write, run, session, exposed>> /\ Copied
    BY <1>1, <1>2, DriverDoes DEF history
  <2>2. PICK c \in Connector : PlugMoves(c)
    BY <1>1, <1>2, DriverDoes
  <2>3. /\ \A d \in Connector : plug'[d].id \in {plug[d].id, Null}
        /\ \A d \in Connector : plug[d].at = "starting" => plug'[d].at = "starting"
    BY <2>2 DEF PlugMoves, PlugSet
  <2>4. Grows
    BY <2>1 DEF Grows
  <2>5. Shape'
    BY <1>1, <1>2, DriverShapes
  <2>6. Quiet'
    BY <1>1, <2>1, <2>3, <2>4, AsideQuiet
  <2> QED BY <1>1, <2>1, <2>3, <2>4, <2>5, <2>6, AsideApart DEF Calming
<1>3. CASE Notices \/ InitTransactionCounter \/ TimeOut \/ (\E c \in Connector : LockExpires(c)) \/ UNCHANGED vars
  <2>1. UNCHANGED <<row, cache, plug, run, session, exposed>>
    BY <1>3 DEF Notices, Heartbeat, BootNotification, StatusNotification, InitTransactionCounter,
                TimeOut, LockExpires, state, charger, history, vars
  <2>2. Copied /\ Grows
    BY <1>1, <2>1, CacheStays DEF Grows
  <2>3. UNCHANGED write \/ \E l \in Late, update \in {<< >>} \cup {[connector |-> c] : c \in Reported} : Issue(l, update)
    <3>1. CASE Notices
      BY <3>1 DEF Notices, Heartbeat, BootNotification, StatusNotification
    <3>2. CASE ~Notices
      BY <1>3, <3>2 DEF InitTransactionCounter, TimeOut, LockExpires, state, vars
    <3> QED BY <3>1, <3>2
  <2>4. StoreShape' /\ \A g \in Handler : write'[g] = write[g]
    <3>1. CASE UNCHANGED write
      BY <1>1, <2>1, <3>1, StoreStays
    <3>2. ASSUME NEW l \in Late, NEW update, Issue(l, update)
          PROVE  StoreShape' /\ \A g \in Handler : write'[g] = write[g]
      <4>1. l \in Writer /\ \A g \in Handler : g \in Writer \ {l}
        BY DEF StartAssumption
      <4>2. StoreShape'
        BY <1>1, <2>1, <2>2, <3>2, <4>1, IssueShape
      <4>3. \A v \in Writer \ {l} : write'[v] = write[v]
        BY <1>1, <3>2, <4>1, Issues
      <4> QED BY <4>1, <4>2, <4>3
    <3> QED BY <2>3, <3>1, <3>2
  <2>5. Shape'
    BY <1>1, <2>1, <2>4, PlugStays, SessionStays, ShapesAside DEF Shape
  <2>6. Quiet'
    BY <1>1, <2>1, <2>2, <2>4, AsideQuiet
  <2>7. Apart' /\ Awaited'
    BY <1>1, <2>1, <2>2, AsideApart
  <2> QED BY <2>5, <2>6, <2>7 DEF Calming
<1> QED BY <1>2, <1>3

\* The database writes the row: what it takes from an open session is touched.
LEMMA WriteRowCalm ==
  ASSUME StartAssumption, Calm, NEW w \in Writer, WriteRow(w)
  PROVE  Calming
<1>1. Shapes /\ StoreShape /\ Apart /\ Awaited /\ Quiet /\ Shape
  BY DEF Calm, Shape
<1>2. /\ DOMAIN write' = Writer /\ \A v \in Writer \ {w} : write'[v] = write[v]
      /\ write[w].phase = "db" /\ write'[w].phase = "merge" /\ cache' = cache
      /\ "transactionId" \in DOMAIN write[w].fields => row'.transactionId = write[w].fields.transactionId
      /\ StoreShape'
  BY <1>1, Upserts, UpsertShape DEF WriteRow
<1>3. UNCHANGED <<plug, run, session>>
  BY DEF WriteRow, charger
<1>4. IF row'.transactionId # row.transactionId
      THEN exposed' = exposed \cup ({row.transactionId} \cap TxOf(Live)) ELSE exposed' = exposed
  BY DEF WriteRow, Expose, history
<1>5. Grows
  BY <1>4 DEF Grows
<1>6. Shape'
  BY <1>1, <1>2, <1>3, PlugStays, SessionStays, ShapesAside DEF Shape
<1>7. Quiet'
  <2> SUFFICES ASSUME NEW i \in Untouched' PROVE OneAtWork(i)'
    BY DEF Quiet
  <2>1. i \in Untouched /\ OneAtWork(i) /\ Live' = {i}
    BY <1>1, <1>3, <1>5, StaysUntouched
  <2>2. session[i].tx \notin exposed' /\ session[i].tx \in TxOf(Live)
    BY <1>3, <2>1 DEF Untouched, TxOf
  <2>3. row.transactionId = session[i].tx => row'.transactionId = session[i].tx
    BY <1>4, <2>2
  <2>4. Knows(session[i].tx) => Knows(session[i].tx)'
    BY <1>2, <1>3, <2>3 DEF Knows
  <2>5. \A c \in Connector : PlugFits(c, i)'
    BY <1>3, <2>1, <2>4, PlugFitsOn DEF OneAtWork
  <2>6. ASSUME NEW g \in Handler PROVE HandlerFits(g, i)'
    <3>1. HandlerFits(g, i) /\ run'[g] = run[g] /\ session'[i] = session[i] /\ g \in Writer
      BY <1>3, <2>1 DEF OneAtWork, StartAssumption
    <3>2. Updates(g, session[i].tx) => Updates(g, session[i].tx)'
      <4>1. CASE g = w
        BY <1>2, <1>3, <4>1 DEF Updates
      <4>2. CASE g # w
        <5>1. write'[g] = write[g] /\ session' = session
          BY <1>2, <1>3, <3>1, <4>2
        <5> QED BY <2>3, <2>4, <5>1 DEF Updates
      <4> QED BY <4>1, <4>2
    <3>3. HandlerFits(g, i) => HandlerFits(g, i)'
      BY <1>3, <2>4, <3>1, <3>2 DEF HandlerFits, Has, Meters, Stops
    <3> QED BY <3>1, <3>3
  <2> QED BY <2>1, <2>5, <2>6 DEF OneAtWork
<1> QED BY <1>1, <1>3, <1>5, <1>6, <1>7, AsideApart DEF Calming

\* The answer is copied; one that is not the row touches all that is open.
LEMMA WriteCacheCalm ==
  ASSUME StartAssumption, Calm, NEW w \in Writer, WriteCache(w)
  PROVE  Calming
<1>1. Shapes /\ StoreShape /\ Apart /\ Awaited /\ Quiet /\ Shape
  BY DEF Calm, Shape
<1>2. /\ DOMAIN write' = Writer /\ \A v \in Writer \ {w} : write'[v] = write[v]
      /\ write[w].phase = "merge" /\ write'[w] = NoWrite /\ row' = row
      /\ cache'.known /\ cache'.transactionId = write[w].fields.transactionId
      /\ StoreShape'
  BY <1>1, Merges, MergeShape DEF WriteCache
<1>3. UNCHANGED <<plug, run, session>>
  BY DEF WriteCache, charger
<1>4. IF write[w].fields # row THEN exposed' = exposed \cup TxOf(Live) ELSE exposed' = exposed
  BY DEF WriteCache, Expose, history
<1>5. Grows
  BY <1>4 DEF Grows
<1>6. Shape'
  BY <1>1, <1>2, <1>3, PlugStays, SessionStays, ShapesAside DEF Shape
<1>7. Quiet'
  <2> SUFFICES ASSUME NEW i \in Untouched' PROVE OneAtWork(i)'
    BY DEF Quiet
  <2>1. i \in Untouched /\ OneAtWork(i) /\ Live' = {i}
    BY <1>1, <1>3, <1>5, StaysUntouched
  <2>2. session[i].tx \notin exposed' /\ session[i].tx \in TxOf(Live) /\ session' = session
    BY <1>3, <2>1 DEF Untouched, TxOf
  <2>3. write[w].fields = row
    BY <1>4, <2>2
  <2>4. row.transactionId = session[i].tx => Knows(session[i].tx)'
    BY <1>2, <2>2, <2>3 DEF Knows
  <2>5. Knows(session[i].tx) => Knows(session[i].tx)'
    BY <2>4 DEF Knows
  <2>6. \A c \in Connector : PlugFits(c, i)'
    BY <1>3, <2>1, <2>5, PlugFitsOn DEF OneAtWork
  <2>7. ASSUME NEW g \in Handler PROVE HandlerFits(g, i)'
    <3>1. HandlerFits(g, i) /\ run'[g] = run[g] /\ g \in Writer
      BY <1>3, <2>1 DEF OneAtWork, StartAssumption
    <3>2. Updates(g, session[i].tx) => Updates(g, session[i].tx)'
      <4>1. CASE g = w
        <5>1. Updates(g, session[i].tx) => row.transactionId = session[i].tx
          BY <1>2, <4>1 DEF Updates
        <5>2. write'[g].phase = "none"
          BY <1>2, <4>1 DEF NoWrite
        <5> QED BY <2>2, <2>4, <5>1, <5>2 DEF Updates
      <4>2. CASE g # w
        <5>1. write'[g] = write[g]
          BY <1>2, <3>1, <4>2
        <5> QED BY <1>2, <2>2, <2>5, <5>1 DEF Updates
      <4> QED BY <4>1, <4>2
    <3>3. HandlerFits(g, i) => HandlerFits(g, i)'
      BY <2>2, <2>5, <3>1, <3>2 DEF HandlerFits, Has, Meters, Stops
    <3> QED BY <3>1, <3>3
  <2> QED BY <2>1, <2>6, <2>7 DEF OneAtWork
<1> QED BY <1>1, <1>3, <1>5, <1>6, <1>7, AsideApart DEF Calming

LEMMA RestartCalm == ASSUME Calm, Restart PROVE Calming
<1>1. Shapes /\ StoreShape
  BY DEF Calm, Shape
<1>2. /\ \A h \in Handler : run'[h] = NoRun /\ DOMAIN run' = Handler
      /\ UNCHANGED <<row, plug, session>>
      /\ cache' = Blank /\ write' = [w \in Writer |-> NoWrite]
      /\ exposed' = exposed \cup (TxOf(Live) \cup {run[h].tx : h \in Handler})
  BY DEF Restart, Expose
<1>3. Shapes'
  <2>1. DOMAIN run' = Handler
    BY DEF Restart
  <2>2. \A h \in Handler : RunTyped(h)'
    BY <1>2, NoRunTyped
  <2>3. PlugSame /\ SessionSame
    BY <1>1, <1>2, PlugStays, SessionStays
  <2> QED BY <2>1, <2>2, <2>3 DEF Shapes, PlugSame, SessionSame
<1>4. StoreShape'
  BY <1>1, <1>2 DEF StoreShape, WriteTyped, Blank, NoWrite
<1>5. Apart' /\ Awaited'
  BY <1>2 DEF Apart, Awaited, NoRun, Starts
<1>6. Quiet'
  <2>1. Live' = Live
    BY <1>2 DEF Live, Rows
  <2> QED BY <1>2, <2>1 DEF Quiet, Untouched, TxOf
<1> QED BY <1>3, <1>4, <1>5, <1>6 DEF Calming, Shape

-----------------------------------------------------------------------------
LEMMA InitCalm == StartAssumption /\ Init => Calm
<1> SUFFICES ASSUME StartAssumption, Init PROVE Calm
  OBVIOUS
<1>1. /\ run = [h \in Handler |-> NoRun] /\ plug = [c \in Connector |-> Unplugged]
      /\ session = [i \in 1..MaxId |-> NoSession]
      /\ row = [connector |-> 1, transactionId |-> Null, ocppTransactionId |-> Null]
      /\ cache = Blank /\ write = [w \in Writer |-> NoWrite]
  BY DEF Init, ChargerStateInit
<1>2. FreshInv
  BY InitFresh
<1>3. Shapes
  BY <1>1 DEF Shapes, RunTyped, PlugTyped, RowTyped, NoRun, Unplugged, NoSession
<1>4. StoreShape
  BY <1>1 DEF StoreShape, WriteTyped, Blank, NoWrite
<1>5. Apart /\ Awaited
  BY <1>1 DEF Apart, Awaited, NoRun, Starts
<1>6. Quiet
  BY <1>1 DEF Quiet, Untouched, Live, Rows, NoSession
<1> QED BY <1>2, <1>3, <1>4, <1>5, <1>6 DEF Calm, Shape

LEMMA NextCalm == StartAssumption /\ Calm /\ [Next]_vars => Calm'
<1> SUFFICES ASSUME StartAssumption, Calm, [Next]_vars PROVE Calm'
  OBVIOUS
<1>1. FreshInv'
  BY NextFresh DEF Calm
<1>2. Calming
  <2>1. CASE UNCHANGED vars \/ Driver \/ Notices \/ InitTransactionCounter
    BY <2>1, OutsideCalm
  <2>2. CASE Calls
    BY <2>2, CallCalm DEF Calls
  <2>3. CASE Progress
    <3>1. ASSUME NEW h \in Handler, HandlerStep(h) PROVE Calming
      BY <3>1, EarlyCalm, UpdateCalm, LockStepCalm, ConfirmCalm, FinaliseCalm, CreateCalm, EndCalm DEF HandlerStep
    <3>2. ASSUME NEW w \in Writer, WriteRow(w) \/ WriteCache(w) PROVE Calming
      BY <3>2, WriteRowCalm, WriteCacheCalm
    <3> QED BY <2>3, <3>1, <3>2 DEF Progress
  <2>4. CASE Trouble
    <3>1. ASSUME NEW h \in Handler, Dies(h) \/ \E l \in Late : FinaliseFails(h, l) PROVE Calming
      BY <3>1, EndCalm
    <3> QED BY <2>4, <3>1, OutsideCalm, RestartCalm DEF Trouble
  <2>5. CASE EarlyEnds
    BY <2>5, EndEarlyCalm DEF EarlyEnds, FaultEnds, GraceEnds
  <2> QED BY <2>1, <2>2, <2>3, <2>4, <2>5 DEF Next
<1> QED BY <1>1, <1>2 DEF Calming, Calm

\* What one step loses or misleads was touched before it.
LEMMA MixUpStep == StartAssumption /\ Calm /\ NoMixUp /\ [Next]_vars => NoMixUp'
<1> SUFFICES ASSUME StartAssumption, Calm, NoMixUp, [Next]_vars PROVE NoMixUp'
  OBVIOUS
<1>1. Shapes /\ Quiet
  BY DEF Calm, Shape
<1>2. ASSUME NEW h \in Handler, Bill(h) PROVE NoMixUp'
  <2>1. /\ misled' = misled \cup {session[i].tx : i \in (WithTx(run[h].tx) \cap Open) \ {run[h].id}}
        /\ UNCHANGED <<exposed, lost>> /\ run[h].pc = "bill"
    BY <1>2 DEF Bill, At
  <2>2. Meters(run[h])
    BY <1>1, <2>1 DEF Shapes, RunTyped, NoRun, Early, Has
  <2>3. ASSUME NEW i \in (WithTx(run[h].tx) \cap Open) \ {run[h].id} PROVE session[i].tx \in exposed
    BY <1>1, <2>2, OpenIsLive DEF Quiet, Untouched, OneAtWork, HandlerFits
  <2> QED BY <2>1, <2>3 DEF NoMixUp
<1>3. ASSUME NEW h \in Handler, Finalise(h) PROVE NoMixUp'
  <2>1. /\ misled' = misled \cup (TxOf(WithTx(run[h].tx) \cap Live) \ TxOf({run[h].id}))
        /\ UNCHANGED <<exposed, lost>> /\ run[h].pc = "finalise"
    BY <1>3 DEF Finalise, At
  <2>2. Stops(run[h])
    BY <1>1, <2>1 DEF Shapes, RunTyped, NoRun, Early, Has
  <2>3. ASSUME NEW i \in WithTx(run[h].tx) \cap Live, session[i].tx \notin TxOf({run[h].id})
        PROVE  session[i].tx \in exposed
    <3>1. i # run[h].id
      BY <2>3 DEF TxOf
    <3> QED BY <1>1, <2>2, <3>1 DEF Quiet, Untouched, OneAtWork, HandlerFits
  <2>4. TxOf(WithTx(run[h].tx) \cap Live) \ TxOf({run[h].id}) \subseteq exposed
    <3> SUFFICES ASSUME NEW t \in TxOf(WithTx(run[h].tx) \cap Live), t \notin TxOf({run[h].id}) PROVE t \in exposed
      OBVIOUS
    <3>1. PICK i \in WithTx(run[h].tx) \cap Live : t = session[i].tx
      BY DEF TxOf
    <3> QED BY <2>3, <3>1
  <2> QED BY <2>1, <2>4 DEF NoMixUp
<1>4. ASSUME NEW h \in Handler, NEW l \in Late, Reset(h, l) PROVE NoMixUp'
  <2>1. /\ lost' = lost \cup (TxOf({run[h].id}) \cap TxOf(Live))
        /\ UNCHANGED <<exposed, misled>> /\ run[h].pc = "reset"
    BY <1>4 DEF Reset, At
  <2>2. Stops(run[h])
    BY <1>1, <2>1 DEF Shapes, RunTyped, NoRun, Early, Has
  <2>3. ASSUME NEW i \in Live PROVE session[i].tx \in exposed
    BY <1>1, <2>1, <2>2 DEF Quiet, Untouched, OneAtWork, HandlerFits
  <2> QED BY <2>1, <2>3 DEF NoMixUp, TxOf
<1>5. ASSUME Grows, UNCHANGED <<lost, misled>> PROVE NoMixUp'
  BY <1>5 DEF NoMixUp, Grows
<1>6. CASE UNCHANGED vars \/ Driver \/ Notices \/ InitTransactionCounter
  <2>1. UNCHANGED history
    BY <1>6 DEF vars, Driver, PresentTag, StartCharging, AdminRemoteStart, StopCharging, AdminRemoteStop, Unplug,
                Notices, Heartbeat, BootNotification, StatusNotification, InitTransactionCounter
  <2> QED BY <1>5, <2>1 DEF history, Grows
<1>7. CASE Calls
  <2>1. PICK h \in Handler : \E call : Call(h, call)
    BY <1>7 DEF Calls, StartTransaction, MeterValues, StopTransaction
  <2>2. Grows /\ UNCHANGED <<lost, misled>>
    BY <2>1 DEF Call, Expose, history, Grows
  <2> QED BY <1>5, <2>2
<1>8. CASE Progress
  <2>1. ASSUME NEW h \in Handler, HandlerStep(h) PROVE NoMixUp'
    <3>1. CASE Bill(h) \/ Finalise(h) \/ \E l \in Late : Reset(h, l)
      BY <1>2, <1>3, <1>4, <3>1
    <3>2. CASE ~(Bill(h) \/ Finalise(h) \/ \E l \in Late : Reset(h, l))
      <4>1. Grows /\ UNCHANGED <<lost, misled>>
        BY <2>1, <3>2 DEF HandlerStep, Authorise, Refuse, MarkChargingActive, CreateSessionFind, CreateSession,
                          UpdateState, ConfirmSession, Reply, ReleaseLock, DeleteLock, Expose, history, Grows
      <4> QED BY <1>5, <4>1
    <3> QED BY <3>1, <3>2
  <2>2. ASSUME NEW w \in Writer, WriteRow(w) \/ WriteCache(w) PROVE NoMixUp'
    <3>1. Grows /\ UNCHANGED <<lost, misled>>
      BY <2>2 DEF WriteRow, WriteCache, Expose, history, Grows
    <3> QED BY <1>5, <3>1
  <2> QED BY <1>8, <2>1, <2>2 DEF Progress
<1>9. CASE Trouble
  <2>1. Grows /\ UNCHANGED <<lost, misled>>
    BY <1>9 DEF Trouble, TimeOut, Restart, Dies, FinaliseFails, LockExpires, Expose, history, Grows
  <2> QED BY <1>5, <2>1
<1>10. CASE EarlyEnds
  <2>1. Grows /\ UNCHANGED <<lost, misled>>
    BY <1>10 DEF EarlyEnds, FaultEnds, GraceEnds, EndEarly, Expose, Grows
  <2> QED BY <1>5, <2>1
<1> QED BY <1>6, <1>7, <1>8, <1>9, <1>10 DEF Next

\* StopTransaction ends the session the charger names and no other, and MeterValues
\* bills no other, for any number of connectors and handlers: except a session that
\* waited for its stop beside another, whose call was repeated while its handler
\* ran, that ended before the charger had the answer to its start, whose handler
\* died or server restarted, or whose id was written over in the state.
THEOREM StopsTheRightSession == Spec => []NoMixUp
<1>1. Init => NoMixUp
  BY DEF Init, NoMixUp
<1> QED BY <1>1, StartAssumption, InitCalm, NextCalm, MixUpStep, PTL DEF Spec

-----------------------------------------------------------------------------
(***************************************************************************)
(* Who holds the lock of a connector.                                      *)
(***************************************************************************)

\* A start from the lock to its session, and a stop from the end of the session to
\* the lock that it names rightly.
Holding(h, c, t) ==
  /\ run[h].tx = t /\ run[h].c = c
  /\ \/ Starts(run[h]) /\ run[h].pc \in {"find", "create"}
     \/ Stops(run[h]) /\ run[h].pc = "release"
     \/ Stops(run[h]) /\ run[h].pc = "delete" /\ run[h].at = c

LiveHere(i, c, t) == i \in Live /\ session[i].tx = t /\ session[i].c = c

HeldBy(c, t) == (\E h \in Handler : Holding(h, c, t)) \/ (\E i \in Live : LiveHere(i, c, t))

Held ==
  /\ DOMAIN lock = Connector
  /\ \A c \in Connector : lock[c] # Null /\ lock[c] \notin exposed \cup astray => HeldBy(c, lock[c])

\* A start the charger waits for is of the driver that plugged in, and a session that
\* ended before its stop is the one that the charger has to stop.
Waits == \A h \in Handler :
  calling = h /\ Starts(run[h]) => plug[run[h].c].at = "starting"

Plugged == \A i \in Untouched \ Open : \E c \in Connector : plug[c].id = i

\* An id is in the table once, so that there is room for the session of the next.
OwnIds == \A i, j \in Rows : session[i].tx = session[j].tx => i = j

LEMMA KeyHasRoom ==
  ASSUME StartAssumption, FreshInv, OwnIds, NEW h \in Handler, Starts(run[h]), Early(run[h])
  PROVE  NewKey \in 1..MaxId
<1> DEFINE ids == (1..MaxId) \ {run[h].tx}
           tx == [i \in Rows |-> session[i].tx]
<1>1. MaxId \in Nat /\ run[h].tx \in 1..MaxId
  BY DEF StartAssumption, FreshInv, Below
<1>2. IsFiniteSet(1..MaxId) /\ Cardinality(1..MaxId) = MaxId
  <2>1. MaxId \in Int /\ 1 \in Int
    BY <1>1
  <2>2. IsFiniteSet(1..MaxId) /\ Cardinality(1..MaxId) = IF 1 > MaxId THEN 0 ELSE MaxId - 1 + 1
    BY <2>1, FS_Interval
  <2>3. ~(1 > MaxId) /\ MaxId - 1 + 1 = MaxId
    BY <1>1
  <2>4. Cardinality(1..MaxId) = MaxId - 1 + 1
    BY <2>2, <2>3
  <2> QED BY <2>2, <2>3, <2>4
<1>3. IsFiniteSet(ids) /\ Cardinality(ids) = MaxId - 1
  <2> DEFINE all == 1..MaxId
             t   == run[h].tx
  <2>1. IsFiniteSet(all) /\ t \in all /\ Cardinality(all) = MaxId
    BY <1>1, <1>2
  <2> HIDE DEF all, t
  <2>2. IsFiniteSet(all \ {t}) /\ Cardinality(all \ {t}) = Cardinality(all) - 1
    BY <2>1, FS_RemoveElement
  <2> QED BY <2>1, <2>2 DEF all, t
<1>4. IsFiniteSet(Rows) /\ Cardinality(Rows) \in Nat
  <2>1. Rows \in SUBSET (1..MaxId)
    BY DEF Rows
  <2>2. IsFiniteSet(Rows)
    BY <1>2, <2>1, FS_Subset
  <2> QED BY <2>2, FS_CardinalityType
<1>5. tx \in [Rows -> ids]
  BY DEF FreshInv, Below, Unused
<1>6. \A i, j \in Rows : i # j => tx[i] # tx[j]
  BY DEF OwnIds
<1> HIDE DEF ids, tx
<1>7. ~(Cardinality(ids) < Cardinality(Rows))
  BY <1>3, <1>4, <1>5, <1>6, FS_PigeonHole
<1> QED BY <1>1, <1>3, <1>4, <1>7 DEF NewKey

-----------------------------------------------------------------------------
\* Ids stay apart.

LEMMA OwnIdsStay ==
  ASSUME OwnIds, \A i \in Rows' : i \in Rows /\ session'[i].tx = session[i].tx
  PROVE  OwnIds'
BY DEF OwnIds

LEMMA OwnIdsStep == StartAssumption /\ Calm /\ OwnIds /\ [Next]_vars => OwnIds'
<1> SUFFICES ASSUME StartAssumption, Calm, OwnIds, [Next]_vars PROVE OwnIds'
  OBVIOUS
<1>1. Shapes /\ FreshInv
  BY DEF Calm, Shape
<1>2. ASSUME UNCHANGED session PROVE OwnIds'
  BY <1>2 DEF OwnIds, Rows
<1>3. ASSUME (\E h \in Handler : Finalise(h)) \/ EarlyEnds PROVE OwnIds'
  <2>1. \A i \in 1..MaxId : SessionWritten(i)
    BY <1>1, <1>3, FinaliseDoes, EndEarlyDoes DEF EarlyEnds, FaultEnds, GraceEnds
  <2> QED BY <2>1, OwnIdsStay DEF Rows, SessionWritten
<1>4. ASSUME NEW h \in Handler, CreateSession(h) PROVE OwnIds'
  <2>1. /\ run[h].pc = "create" /\ Starts(run[h])
        /\ session' = [session EXCEPT ![NewKey] = NewRow(h)]
    BY <1>1, <1>4, CreateDoes
  <2>2. \A i \in Rows : session[i].tx # run[h].tx
    BY <1>1, <2>1 DEF FreshInv, Unused, Early
  <2>3. NewRow(h).tx = run[h].tx
    BY DEF NewRow
  <2>4. \A i \in Rows' : (i = NewKey /\ session'[i].tx = run[h].tx) \/ (i \in Rows /\ session'[i].tx = session[i].tx)
    BY <1>1, <2>1, <2>3 DEF Rows, Shapes
  <2> QED BY <2>2, <2>4 DEF OwnIds
<1>5. CASE UNCHANGED vars \/ Driver \/ Calls \/ Notices \/ InitTransactionCounter \/ Trouble
  <2>1. UNCHANGED session
    BY <1>5 DEF vars, Driver, PresentTag, StartCharging, AdminRemoteStart, StopCharging, AdminRemoteStop, Unplug,
                Calls, StartTransaction, MeterValues, StopTransaction,
                Notices, Heartbeat, BootNotification, StatusNotification, InitTransactionCounter,
                Trouble, TimeOut, Restart, Dies, FinaliseFails, LockExpires
  <2> QED BY <1>2, <2>1
<1>6. CASE Progress
  <2>1. ASSUME NEW h \in Handler, HandlerStep(h) PROVE OwnIds'
    <3>1. CASE CreateSession(h) \/ Finalise(h)
      BY <1>3, <1>4, <3>1
    <3>2. CASE ~(CreateSession(h) \/ Finalise(h))
      <4>1. UNCHANGED session
        BY <2>1, <3>2 DEF HandlerStep, Authorise, Refuse, MarkChargingActive, CreateSessionFind,
                          UpdateState, ConfirmSession, Reply, Bill, ReleaseLock, DeleteLock, Reset
      <4> QED BY <1>2, <4>1
    <3> QED BY <3>1, <3>2
  <2>2. ASSUME NEW w \in Writer, WriteRow(w) \/ WriteCache(w) PROVE OwnIds'
    <3>1. UNCHANGED session
      BY <2>2 DEF WriteRow, WriteCache
    <3> QED BY <1>2, <3>1
  <2> QED BY <1>6, <2>1, <2>2 DEF Progress
<1> QED BY <1>3, <1>5, <1>6 DEF Next

-----------------------------------------------------------------------------
\* What a step leaves to hold a lock

Touched(t) == t \in exposed' \cup astray'

Kept == \A c \in Connector : \A t : HeldBy(c, t) /\ ~Touched(t) => HeldBy(c, t)'

LEMMA HeldOn ==
  ASSUME Held, Grows, astray \subseteq astray', DOMAIN lock' = Connector,
         \A c \in Connector : lock'[c] \in {lock[c], Null}, Kept
  PROVE  Held'
<1> SUFFICES ASSUME NEW c \in Connector, lock'[c] # Null, lock'[c] \notin exposed' \cup astray'
             PROVE  HeldBy(c, lock[c])'
  BY DEF Held
<1>1. lock'[c] = lock[c] /\ HeldBy(c, lock[c]) /\ ~Touched(lock[c])
  BY DEF Held, Grows, Touched
<1>2. PICK t : t = lock[c]
  OBVIOUS
<1>3. HeldBy(c, t)'
  BY <1>1, <1>2 DEF Kept
<1> QED BY <1>1, <1>2, <1>3

\* The sessions that wait for their stop stay, and so do the handlers that hold a lock.
LEMMA KeptBy ==
  ASSUME \A i \in Live : i \in Live' /\ session'[i].tx = session[i].tx /\ session'[i].c = session[i].c,
         \A h \in Handler : \A c \in Connector : \A t : Holding(h, c, t) /\ ~Touched(t) => HeldBy(c, t)'
  PROVE  Kept
<1> SUFFICES ASSUME NEW c \in Connector, NEW t, HeldBy(c, t), ~Touched(t) PROVE HeldBy(c, t)'
  BY DEF Kept
<1>1. CASE \E i \in Live : LiveHere(i, c, t)
  BY <1>1 DEF LiveHere, HeldBy
<1>2. CASE \E h \in Handler : Holding(h, c, t)
  BY <1>2
<1> QED BY <1>1, <1>2 DEF HeldBy

LEMMA SameHolds ==
  ASSUME NEW h \in Handler, run'[h] = run[h], NEW c \in Connector, NEW t, Holding(h, c, t)
  PROVE  HeldBy(c, t)'
BY DEF Holding, HeldBy, Starts, Stops

\* One handler makes the step; the others hold what they held.
LEMMA KeptByOne ==
  ASSUME NEW h \in Handler, \A g \in Handler \ {h} : run'[g] = run[g],
         \A i \in Live : i \in Live' /\ session'[i].tx = session[i].tx /\ session'[i].c = session[i].c,
         \A c \in Connector : \A t : Holding(h, c, t) /\ ~Touched(t) => HeldBy(c, t)'
  PROVE  Kept
<1>1. ASSUME NEW g \in Handler, NEW c \in Connector, NEW t, Holding(g, c, t), ~Touched(t) PROVE HeldBy(c, t)'
  <2>1. CASE g = h
    BY <1>1, <2>1
  <2>2. CASE g # h
    BY <1>1, <2>2, SameHolds
  <2> QED BY <2>1, <2>2
<1> QED BY <1>1, KeptBy

LEMMA LiveStay ==
  UNCHANGED session => \A i \in Live : i \in Live' /\ session'[i].tx = session[i].tx /\ session'[i].c = session[i].c
BY DEF Live, Rows

LockSame == DOMAIN lock' = Connector /\ \A c \in Connector : lock'[c] \in {lock[c], Null}

LEMMA LockStays == Held /\ UNCHANGED lock => LockSame
BY DEF Held, LockSame

-----------------------------------------------------------------------------
\* The steps of the handlers that hold, take and give the lock

LEMMA MarksHeld ==
  ASSUME Calm, Held, NEW h \in Handler, MarkChargingActive(h)
  PROVE  Held'
<1>1. Shapes
  BY DEF Calm, Shape
<1>2. OnlyStep(h) /\ run[h].pc = "lock" /\ run'[h].pc = "find"
  BY <1>1, Marks
<1>3. /\ lock' = IF lock[run[h].c] = Null THEN [lock EXCEPT ![run[h].c] = run[h].tx] ELSE lock
      /\ UNCHANGED <<session, exposed, astray>>
  BY DEF MarkChargingActive, AcquireLock, history
<1>4. Starts(run[h]) /\ run[h].c \in Connector
  BY <1>1, <1>2 DEF Shapes, RunTyped, NoRun, Has, Early
<1>5. Kept
  <2>1. \A c \in Connector : \A t : ~Holding(h, c, t)
    BY <1>2 DEF Holding
  <2>2. \A g \in Handler \ {h} : run'[g] = run[g]
    BY <1>2 DEF OnlyStep
  <2> QED BY <1>3, <2>1, <2>2, LiveStay, KeptByOne
<1>6. CASE lock[run[h].c] # Null
  <2>1. LockSame
    BY <1>3, <1>6, LockStays
  <2> QED BY <1>3, <1>5, <2>1, HeldOn DEF LockSame, Grows
<1>7. CASE lock[run[h].c] = Null
  <2> SUFFICES ASSUME NEW c \in Connector, lock'[c] # Null, lock'[c] \notin exposed' \cup astray'
               PROVE  HeldBy(c, lock[c])'
    BY <1>3, <1>7 DEF Held
  <2>1. CASE c = run[h].c
    <3>1. lock'[c] = run[h].tx
      BY <1>3, <1>7, <2>1 DEF Held
    <3>2. Starts(run'[h]) /\ run'[h].tx = run[h].tx /\ run'[h].c = run[h].c
      BY <1>2, <1>4 DEF OnlyStep, Starts
    <3>3. Holding(h, c, lock[c])'
      BY <1>2, <2>1, <3>1, <3>2 DEF Holding, Starts
    <3> QED BY <3>3 DEF HeldBy
  <2>2. CASE c # run[h].c
    <3>1. PICK t : t = lock[c]
      OBVIOUS
    <3>2. lock'[c] = t
      BY <1>3, <2>2, <3>1 DEF Held
    <3>3. HeldBy(c, t)
      BY <1>3, <3>1, <3>2 DEF Held
    <3>4. HeldBy(c, t)'
      BY <1>3, <1>5, <3>2, <3>3 DEF Kept, Touched
    <3> QED BY <3>2, <3>4
  <2> QED BY <2>1, <2>2
<1> QED BY <1>6, <1>7

\* A start that was given the session of another is exposed; one that goes on holds on.
LEMMA FindsHeld ==
  ASSUME Calm, Held, NEW h \in Handler, CreateSessionFind(h)
  PROVE  Held'
<1>1. Shapes
  BY DEF Calm, Shape
<1>2. run[h].pc = "find" /\ UNCHANGED <<session, lock>>
  BY DEF CreateSessionFind, At
<1>3. Starts(run[h])
  BY <1>1, <1>2 DEF Shapes, RunTyped, NoRun, Has, Early
<1>4. \/ Goto(h, "create") /\ UNCHANGED history
      \/ (\E i : run' = [run EXCEPT ![h] = Found(run[h], i)]) /\ Expose({run[h].tx})
  BY DEF CreateSessionFind
<1>5. Grows /\ astray' = astray
  BY <1>4 DEF Expose, history, Grows
<1>6. OnlyStep(h)
  BY <1>1, <1>4, GoesOn, Gets
<1>7. ASSUME NEW c \in Connector, NEW t, Holding(h, c, t), ~Touched(t) PROVE HeldBy(c, t)'
  <2>1. CASE Goto(h, "create") /\ UNCHANGED history
    <3>1. run'[h].pc = "create" /\ Starts(run'[h]) /\ run'[h].tx = run[h].tx /\ run'[h].c = run[h].c
      BY <1>1, <1>3, <1>6, <2>1, GoesOn DEF OnlyStep, Starts
    <3>2. Holding(h, c, t)'
      BY <1>7, <3>1 DEF Holding, Starts
    <3> QED BY <3>2 DEF HeldBy
  <2>2. CASE Expose({run[h].tx})
    BY <1>7, <2>2 DEF Holding, Expose, Touched
  <2> QED BY <1>4, <2>1, <2>2
<1>8. Kept
  BY <1>2, <1>6, <1>7, LiveStay, KeptByOne DEF OnlyStep
<1>9. LockSame
  BY <1>2, LockStays
<1> QED BY <1>5, <1>8, <1>9, HeldOn DEF LockSame

\* The lock passes from the start to its session.
LEMMA CreatesHeld ==
  ASSUME StartAssumption, Calm, OwnIds, Held, NEW h \in Handler, CreateSession(h)
  PROVE  Held'
<1>1. Shapes /\ FreshInv
  BY DEF Calm, Shape
<1>2. /\ run[h].pc = "create" /\ Starts(run[h]) /\ OnlyStep(h)
      /\ session' = [session EXCEPT ![NewKey] = NewRow(h)] /\ UNCHANGED lock
  BY <1>1, CreateDoes
<1>3. NewKey \in 1..MaxId
  BY <1>1, <1>2, KeyHasRoom DEF Early
<1>4. IF Others(run[h].c) = {} THEN UNCHANGED history
      ELSE Expose(TxOf(Others(run[h].c)) \cup {run[h].tx})
  BY DEF CreateSession
<1>5. Grows /\ astray' = astray
  BY <1>4 DEF Expose, history, Grows
<1>6. \A i \in Live : session[i].tx \in exposed'
  <2> SUFFICES ASSUME NEW i \in Live PROVE session[i].tx \in exposed'
    OBVIOUS
  <2>1. i \in Others(run[h].c) /\ session[i].tx \in TxOf(Others(run[h].c))
    BY DEF Others, TxOf
  <2> HIDE DEF Others, TxOf
  <2> QED BY <1>4, <2>1 DEF Expose
<1>7. session'[NewKey] = NewRow(h)
  BY <1>1, <1>2, <1>3 DEF Shapes
<1>8. NewKey \in Live' /\ session'[NewKey].tx = run[h].tx /\ session'[NewKey].c = run[h].c
  <2>1. run[h].tx # Null
    BY <1>1, <1>2 DEF FreshInv, Below, Null
  <2> QED BY <1>3, <1>7, <2>1 DEF Live, Rows, NewRow
<1>9. Kept
  <2> SUFFICES ASSUME NEW c \in Connector, NEW t, HeldBy(c, t), ~Touched(t) PROVE HeldBy(c, t)'
    BY DEF Kept
  <2>1. PICK g \in Handler : Holding(g, c, t)
    BY <1>6 DEF HeldBy, LiveHere, Touched
  <2>2. CASE g # h
    BY <1>2, <2>1, <2>2, SameHolds DEF OnlyStep
  <2>3. CASE g = h
    <3>1. run[h].tx = t /\ run[h].c = c
      BY <2>1, <2>3 DEF Holding
    <3>2. PICK n : n = NewKey
      OBVIOUS
    <3>3. n \in Live' /\ session'[n].tx = t /\ session'[n].c = c
      BY <1>8, <3>1, <3>2
    <3> QED BY <3>3 DEF LiveHere, HeldBy
  <2> QED BY <2>2, <2>3
<1>10. LockSame
  BY <1>2, LockStays
<1> QED BY <1>5, <1>9, <1>10, HeldOn DEF LockSame

\* It passes from a session to the stop that ends it.
LEMMA FinalisesHeld ==
  ASSUME Calm, Held, NEW h \in Handler, Finalise(h)
  PROVE  Held'
<1>1. Shapes /\ Quiet
  BY DEF Calm, Shape
<1>2. /\ DOMAIN session' = 1..MaxId
      /\ \A i \in 1..MaxId : SessionWritten(i)
      /\ \A i \in (1..MaxId) \ WithTx(run[h].tx) : session'[i] = session[i]
      /\ OnlyStep(h) /\ run[h].pc = "finalise" /\ run'[h].pc = "release"
      /\ UNCHANGED <<lock, exposed, astray>>
  BY <1>1, FinaliseDoes
<1>3. Stops(run[h])
  BY <1>1, <1>2 DEF Shapes, RunTyped, NoRun, Has, Early
<1>4. Kept
  <2> SUFFICES ASSUME NEW c \in Connector, NEW t, HeldBy(c, t), ~Touched(t) PROVE HeldBy(c, t)'
    BY DEF Kept
  <2>1. ASSUME NEW g \in Handler, Holding(g, c, t) PROVE HeldBy(c, t)'
    <3>1. g # h
      BY <1>2, <2>1 DEF Holding
    <3> QED BY <1>2, <2>1, <3>1, SameHolds DEF OnlyStep
  <2>2. ASSUME NEW i \in Live, LiveHere(i, c, t) PROVE HeldBy(c, t)'
    <3>1. session[i].tx = t /\ session[i].c = c /\ i \in 1..MaxId /\ i \in Rows
      BY <2>2 DEF LiveHere, Live, Rows
    <3>2. HandlerFits(h, i)
      BY <1>1, <1>2, <2>2, <3>1 DEF Quiet, Untouched, OneAtWork, Touched
    <3>3. run[h].tx = t /\ run[h].c = c
      BY <1>3, <3>1, <3>2 DEF HandlerFits
    <3>4. Stops(run'[h]) /\ run'[h].tx = t /\ run'[h].c = c
      BY <1>2, <1>3, <3>3 DEF OnlyStep, Stops
    <3>5. Holding(h, c, t)'
      BY <1>2, <3>4 DEF Holding, Stops
    <3> QED BY <3>5 DEF HeldBy
  <2> QED BY <2>1, <2>2 DEF HeldBy
<1>5. LockSame
  BY <1>2, LockStays
<1> QED BY <1>2, <1>4, <1>5, HeldOn DEF LockSame, Grows

\* A stop that was told the right connector deletes the lock that it holds.
LEMMA ReleasesHeld ==
  ASSUME Calm, Held, NEW h \in Handler, ReleaseLock(h)
  PROVE  Held'
<1>1. Shapes
  BY DEF Calm, Shape
<1>2. /\ run[h].pc = "release" /\ UNCHANGED <<session, lock, exposed>>
      /\ Goto(h, IF run[h].at \in Connector /\ lock[run[h].at] = run[h].tx THEN "delete" ELSE "reset")
      /\ astray' = IF run[h].at = run[h].c THEN astray ELSE astray \cup {run[h].tx}
  BY DEF ReleaseLock, At
<1> DEFINE step == IF run[h].at \in Connector /\ lock[run[h].at] = run[h].tx THEN "delete" ELSE "reset"
<1>3. Goto(h, step) /\ step \in {"delete", "reset"}
      /\ (run[h].at \in Connector /\ lock[run[h].at] = run[h].tx => step = "delete")
  BY <1>2
<1> HIDE DEF step
<1>4. OnlyStep(h) /\ run'[h].pc = step
  BY <1>1, <1>3, GoesOn
<1>5. Stops(run[h])
  BY <1>1, <1>2 DEF Shapes, RunTyped, NoRun, Has, Early
<1>6. Grows /\ astray \subseteq astray'
  BY <1>2 DEF Grows
<1>7. \A c \in Connector : lock[c] # Null /\ ~Touched(lock[c]) /\ Holding(h, c, lock[c]) => Holding(h, c, lock[c])'
  <2> SUFFICES ASSUME NEW c \in Connector, ~Touched(lock[c]), Holding(h, c, lock[c]) PROVE Holding(h, c, lock[c])'
    OBVIOUS
  <2>1. run[h].tx = lock[c] /\ run[h].c = c
    BY DEF Holding
  <2>2. run[h].at = c
    BY <1>2, <2>1 DEF Touched
  <2>3. step = "delete"
    BY <1>3, <2>1, <2>2
  <2>4. Stops(run'[h]) /\ run'[h].tx = run[h].tx /\ run'[h].c = c /\ run'[h].at = c
    BY <1>4, <1>5, <2>1, <2>2 DEF OnlyStep, Stops
  <2>5. lock' = lock
    BY <1>2
  <2> QED BY <1>4, <2>1, <2>3, <2>4, <2>5 DEF Holding, Stops
<1> SUFFICES ASSUME NEW c \in Connector, lock'[c] # Null, lock'[c] \notin exposed' \cup astray'
             PROVE  HeldBy(c, lock[c])'
  BY <1>2 DEF Held
<1>8. lock'[c] = lock[c] /\ HeldBy(c, lock[c]) /\ ~Touched(lock[c]) /\ lock[c] # Null
  BY <1>2, <1>6 DEF Held, Touched
<1>9. CASE \E i \in Live : LiveHere(i, c, lock[c])
  BY <1>2, <1>9 DEF LiveHere, HeldBy, Live, Rows
<1>10. ASSUME NEW g \in Handler, Holding(g, c, lock[c]) PROVE HeldBy(c, lock[c])'
  <2>1. Holding(g, c, lock[c])'
    <3>1. CASE g = h
      BY <1>7, <1>8, <1>10, <3>1
    <3>2. CASE g # h
      <4>1. run'[g] = run[g] /\ lock' = lock
        BY <1>2, <1>4, <3>2 DEF OnlyStep
      <4> QED BY <1>10, <4>1 DEF Holding, Starts, Stops
    <3> QED BY <3>1, <3>2
  <2> QED BY <2>1 DEF HeldBy
<1> QED BY <1>8, <1>9, <1>10 DEF HeldBy

LEMMA DeletesHeld ==
  ASSUME Calm, Held, NEW h \in Handler, DeleteLock(h)
  PROVE  Held'
<1>1. Shapes
  BY DEF Calm, Shape
<1>2. /\ run[h].pc = "delete" /\ UNCHANGED <<session, exposed, astray>>
      /\ lock' = [lock EXCEPT ![run[h].at] = Null] /\ Goto(h, "reset")
  BY DEF DeleteLock, At, history
<1>3. OnlyStep(h)
  BY <1>1, <1>2, GoesOn
<1>4. \A c \in Connector : lock'[c] # Null => lock'[c] = lock[c] /\ c # run[h].at
  BY <1>2 DEF Held
<1> SUFFICES ASSUME NEW c \in Connector, lock'[c] # Null, lock'[c] \notin exposed' \cup astray'
             PROVE  HeldBy(c, lock[c])'
  BY <1>2 DEF Held
<1>5. lock'[c] = lock[c] /\ HeldBy(c, lock[c]) /\ c # run[h].at
  BY <1>2, <1>4 DEF Held
<1>6. PICK t : t = lock[c]
  OBVIOUS
<1>7. CASE \E i \in Live : LiveHere(i, c, t)
  BY <1>2, <1>5, <1>6, <1>7 DEF LiveHere, HeldBy, Live, Rows
<1>8. ASSUME NEW g \in Handler, Holding(g, c, t) PROVE HeldBy(c, lock[c])'
  <2>1. g # h
    BY <1>2, <1>5, <1>8 DEF Holding
  <2>2. HeldBy(c, t)'
    BY <1>3, <1>8, <2>1, SameHolds DEF OnlyStep
  <2> QED BY <1>5, <1>6, <2>2
<1> QED BY <1>5, <1>6, <1>7, <1>8 DEF HeldBy

-----------------------------------------------------------------------------
\* The other steps

\* A handler that holds no lock makes the step, or is touched by it.
LEMMA OtherHeld ==
  ASSUME Held, Grows, astray \subseteq astray', UNCHANGED <<lock, session>>, NEW h \in Handler,
         \A g \in Handler \ {h} : run'[g] = run[g],
         \/ run[h] = NoRun \/ run[h].pc \in {"authorise", "lock", "update", "status", "reply", "bill", "finalise", "reset"}
         \/ Touched(run[h].tx)
  PROVE  Held'
<1>1. \A c \in Connector : \A t : Holding(h, c, t) /\ ~Touched(t) => HeldBy(c, t)'
  BY DEF Holding, NoRun
<1>2. Kept
  BY <1>1, LiveStay, KeptByOne
<1>3. LockSame
  BY LockStays
<1> QED BY <1>2, <1>3, HeldOn DEF LockSame

LEMMA AsideHeld ==
  ASSUME Held, Grows, astray \subseteq astray', LockSame, UNCHANGED <<run, session>>
  PROVE  Held'
<1>1. Kept
  BY LiveStay, KeptBy, SameHolds
<1> QED BY <1>1, HeldOn DEF LockSame

LEMMA HeldStep == StartAssumption /\ Calm /\ OwnIds /\ Held /\ [Next]_vars => Held'
<1> SUFFICES ASSUME StartAssumption, Calm, OwnIds, Held, [Next]_vars PROVE Held'
  OBVIOUS
<1>1. Shapes /\ Shape
  BY DEF Calm, Shape
<1>2. CASE UNCHANGED vars \/ Driver \/ Notices \/ InitTransactionCounter
  <2>1. UNCHANGED <<run, session, lock, exposed, astray>>
    BY <1>2 DEF vars, history, Driver, PresentTag, StartCharging, AdminRemoteStart, StopCharging, AdminRemoteStop, Unplug,
                Notices, Heartbeat, BootNotification, StatusNotification, InitTransactionCounter, charger
  <2> QED BY <2>1, LockStays, AsideHeld DEF Grows
<1>3. CASE Calls
  <2>1. PICK h \in Handler, c \in Connector : StartTransaction(h, c) \/ MeterValues(h, c) \/ StopTransaction(h, c)
    BY <1>3 DEF Calls
  <2>2. run[h] = NoRun /\ (\A g \in Handler \ {h} : run'[g] = run[g]) /\ Grows /\ UNCHANGED <<session, lock>>
    BY <1>1, <2>1, CallDoes DEF Grows
  <2>3. astray' = astray
    BY <2>1 DEF StartTransaction, MeterValues, StopTransaction, Call, Expose, history
  <2> QED BY <2>2, <2>3, OtherHeld
<1>4. CASE Progress
  <2>1. ASSUME NEW h \in Handler, HandlerStep(h) PROVE Held'
    <3>1. CASE MarkChargingActive(h) \/ CreateSessionFind(h) \/ CreateSession(h) \/ Finalise(h) \/ ReleaseLock(h) \/ DeleteLock(h)
      BY <3>1, MarksHeld, FindsHeld, CreatesHeld, FinalisesHeld, ReleasesHeld, DeletesHeld
    <3>2. CASE Authorise(h) \/ UpdateState(h) \/ ConfirmSession(h)
      <4>1. /\ \E step : Goto(h, step)
            /\ run[h].pc \in {"authorise", "update", "status"} /\ UNCHANGED <<session, lock, exposed, astray>>
        BY <3>2 DEF Authorise, UpdateState, ConfirmSession, At, history
      <4>2. OnlyStep(h)
        BY <1>1, <4>1, GoesOn
      <4> QED BY <4>1, <4>2, OtherHeld DEF OnlyStep, Grows
    <3>3. CASE Refuse(h) \/ Reply(h) \/ Bill(h) \/ \E l \in Late : Reset(h, l)
      <4>1. \A g \in Handler \ {h} : run'[g] = run[g]
        BY <1>1, <3>3, EndDoes
      <4>2. /\ run[h].pc \in {"authorise", "reply", "bill", "reset"}
            /\ UNCHANGED <<session, lock, exposed, astray>>
        BY <3>3 DEF Refuse, Reply, Bill, Reset, At, history
      <4> QED BY <4>1, <4>2, OtherHeld DEF Grows
    <3> QED BY <2>1, <3>1, <3>2, <3>3 DEF HandlerStep
  <2>2. ASSUME NEW w \in Writer, WriteRow(w) \/ WriteCache(w) PROVE Held'
    <3>1. Grows /\ astray' = astray /\ UNCHANGED <<run, session, lock>>
      BY <2>2 DEF WriteRow, WriteCache, Expose, history, Grows
    <3> QED BY <3>1, LockStays, AsideHeld
  <2> QED BY <1>4, <2>1, <2>2 DEF Progress
<1>5. CASE Trouble
  <2>1. CASE TimeOut
    <3>1. UNCHANGED <<run, session, lock, exposed, astray>>
      BY <2>1 DEF TimeOut, history
    <3> QED BY <3>1, LockStays, AsideHeld DEF Grows
  <2>2. ASSUME NEW c \in Connector, LockExpires(c) PROVE Held'
    <3>1. lock' = [lock EXCEPT ![c] = Null] /\ UNCHANGED <<run, session, exposed, astray>>
      BY <2>2 DEF LockExpires, history
    <3>2. LockSame
      BY <3>1 DEF Held, LockSame
    <3> QED BY <3>1, <3>2, AsideHeld DEF Grows
  <2>3. ASSUME NEW h \in Handler, Dies(h) \/ \E l \in Late : FinaliseFails(h, l) PROVE Held'
    <3>1. \A g \in Handler \ {h} : run'[g] = run[g]
      BY <1>1, <2>3, EndDoes
    <3>2. exposed' = exposed \cup {run[h].tx} /\ UNCHANGED <<astray, session, lock>>
      BY <2>3 DEF Dies, FinaliseFails, Expose
    <3> QED BY <3>1, <3>2, OtherHeld DEF Grows, Touched
  <2>4. CASE Restart
    <3>1. exposed' = exposed \cup (TxOf(Live) \cup {run[h].tx : h \in Handler}) /\ UNCHANGED <<astray, session, lock>>
      BY <2>4 DEF Restart, Expose
    <3>2. \A h \in Handler : \A c \in Connector : \A t : Holding(h, c, t) => Touched(t)
      BY <3>1 DEF Holding, Touched
    <3>3. Kept
      BY <3>1, <3>2, LiveStay, KeptBy
    <3>4. Grows
      BY <3>1 DEF Grows
    <3> QED BY <3>1, <3>3, <3>4, LockStays, HeldOn DEF LockSame
  <2> QED BY <1>5, <2>1, <2>2, <2>3, <2>4 DEF Trouble
<1>6. CASE EarlyEnds
  <2>1. PICK j \in Open : EndEarly(j)
    BY <1>6 DEF EarlyEnds, FaultEnds, GraceEnds
  <2>2. /\ \A i \in 1..MaxId : SessionWritten(i) /\ session'[i].stopped = session[i].stopped
        /\ Grows /\ UNCHANGED <<run, lock, astray>>
    BY <1>1, <2>1, EndEarlyDoes DEF Grows
  <2>3. \A i \in Live : i \in Live' /\ session'[i].tx = session[i].tx /\ session'[i].c = session[i].c
    BY <2>2 DEF Live, Rows, SessionWritten
  <2>4. Kept
    BY <2>2, <2>3, SameHolds, KeptBy
  <2> QED BY <2>2, <2>4, LockStays, HeldOn DEF LockSame
<1> QED BY <1>2, <1>3, <1>4, <1>5, <1>6 DEF Next

-----------------------------------------------------------------------------
\* A session that ended early is still the charger's to stop

Charged == Waits /\ Plugged

\* The charger keeps the keys it has of the sessions that nothing touches.
LEMMA PluggedOn ==
  ASSUME Shapes, Plugged, Grows, DOMAIN session' = 1..MaxId,
         \A i \in 1..MaxId : session'[i].tx = session[i].tx /\ session'[i].stopped = session[i].stopped
                            /\ session'[i].ended = session[i].ended,
         \A i \in Untouched' : \A c \in Connector : plug[c].id = i => plug'[c].id = i
  PROVE  Plugged'
<1> SUFFICES ASSUME NEW i \in Untouched', i \notin Open' PROVE \E c \in Connector : plug'[c].id = i
  BY DEF Plugged
<1>1. i \in Untouched /\ i \notin Open
  BY DEF Untouched, Live, Open, Rows, Grows
<1> QED BY <1>1 DEF Plugged

LEMMA PluggedAside ==
  ASSUME Shapes, Plugged, Grows, UNCHANGED session,
         \A i \in Untouched' : \A c \in Connector : plug[c].id = i => plug'[c].id = i
  PROVE  Plugged'
BY PluggedOn DEF Shapes

LEMMA WaitsOn ==
  ASSUME Waits, UNCHANGED calling,
         \A h \in Handler : Starts(run'[h]) => Starts(run[h]) /\ run'[h].c = run[h].c /\ run[h].c \in Connector,
         \A c \in Connector : plug[c].at = "starting" => plug'[c].at = "starting"
  PROVE  Waits'
BY DEF Waits, Starts

\* The steps that leave the charger alone.
LEMMA ChargedAside ==
  ASSUME Shapes, Charged, Grows, UNCHANGED <<session, plug, calling>>,
         (\E h \in Handler : OnlyStep(h)) \/ UNCHANGED run
  PROVE  Charged'
<1>1. \A h \in Handler : Starts(run'[h]) => Starts(run[h]) /\ run'[h].c = run[h].c
  BY DEF OnlyStep, Starts
<1>2. \A h \in Handler : Starts(run[h]) => run[h].c \in Connector
  BY Busy DEF Starts
<1>3. Waits'
  BY <1>1, <1>2, WaitsOn DEF Charged
<1>4. Plugged'
  BY PluggedAside DEF Charged
<1> QED BY <1>3, <1>4 DEF Charged

LEMMA Stopping ==
  ASSUME Shapes, NEW h \in Handler, run[h].pc \in {"finalise", "reset"}
  PROVE  Stops(run[h])
BY DEF Shapes, RunTyped, NoRun, Early, Has

\* The end of a call changes the key only of a start or stop that is over.
LEMMA EndCharged ==
  ASSUME StartAssumption, Calm, Charged, NEW h \in Handler,
         Refuse(h) \/ Reply(h) \/ Bill(h) \/ Dies(h) \/ \E l \in Late : Reset(h, l) \/ FinaliseFails(h, l)
  PROVE  Charged'
<1>1. Shapes /\ Quiet /\ Waits /\ Plugged
  BY DEF Calm, Shape, Charged
<1>2. /\ run[h] # NoRun /\ run'[h] = NoRun /\ \A g \in Handler \ {h} : run'[g] = run[g]
      /\ run[h].c \in Connector
      /\ \A c \in Connector \ {run[h].c} : plug'[c] = plug[c]
      /\ \/ plug'[run[h].c].id \in {plug[run[h].c].id, Null}
         \/ run[h].pc = "reply" /\ plug'[run[h].c].id = run[h].id
  BY <1>1, EndDoes
<1>3. UNCHANGED session /\ Grows
  BY DEF Refuse, Reply, Bill, Dies, Reset, FinaliseFails, Expose, history, Grows
<1>4. calling' = (IF calling = h THEN Nobody ELSE calling) /\ (calling # h => plug' = plug)
  BY DEF Refuse, Reply, Bill, Dies, Reset, FinaliseFails, Answer
<1>5. Waits'
  <2> SUFFICES ASSUME NEW g \in Handler, calling' = g, Starts(run'[g])
               PROVE  plug'[run'[g].c].at = "starting"
    BY DEF Waits, Starts
  <2>1. calling # h /\ calling = g /\ plug' = plug
    BY <1>4 DEF StartAssumption
  <2>2. run'[g] = run[g]
    BY <1>2, <2>1
  <2> QED BY <1>1, <2>1, <2>2 DEF Waits
<1>6. ASSUME NEW i \in Untouched', NEW c \in Connector, plug[c].id = i PROVE plug'[c].id = i
  <2>1. HandlerFits(h, i) /\ i # Null
    <3>1. OneAtWork(i)
      BY <1>1, <1>3, StaysUntouched
    <3>2. i # Null
      BY DEF Untouched, Live, Rows, Null
    <3> QED BY <3>1, <3>2 DEF OneAtWork
  <2>2. CASE plug' = plug \/ c # run[h].c
    BY <1>2, <1>6, <2>2
  <2>3. CASE Bill(h) \/ Dies(h)
    <3>1. plug' = [plug EXCEPT ![run[h].c] = plug[run[h].c]] \/ plug' = plug
      BY <2>3 DEF Bill, Dies, Answer
    <3> QED BY <1>1, <1>6, <3>1 DEF Shapes
  <2>4. CASE \E l \in Late : Reset(h, l) \/ FinaliseFails(h, l)
    <3>1. run[h].pc \in {"reset", "finalise"}
      BY <2>4 DEF Reset, FinaliseFails, At
    <3>2. Stops(run[h])
      BY <1>1, <3>1, Stopping
    <3>3. run[h].pc = "finalise" /\ run[h].tx = session[i].tx
      BY <2>1, <3>2 DEF HandlerFits
    <3>4. run[h].tx \in exposed'
      BY <2>4, <3>3 DEF Reset, FinaliseFails, At, Expose
    <3> QED BY <1>3, <3>3, <3>4 DEF Untouched
  <2>5. CASE (Refuse(h) \/ Reply(h)) /\ plug' # plug /\ c = run[h].c
    <3>1. run[h].pc \in {"authorise", "reply"} /\ calling = h /\ (calling # h => plug' = plug)
      BY <1>4, <2>5 DEF Refuse, Reply, At
    <3>2. Starts(run[h])
      BY <1>1, <3>1 DEF Shapes, RunTyped, NoRun, Early, Has
    <3>3. plug[c].at = "starting"
      BY <1>1, <2>5, <3>1, <3>2 DEF Waits
    <3>4. plug[c].id = Null
      BY <1>1, <3>3 DEF Shapes, PlugTyped
    <3> QED BY <1>6, <2>1, <3>4
  <2> QED BY <2>2, <2>3, <2>4, <2>5
<1>7. Plugged'
  BY <1>1, <1>3, <1>6, PluggedAside
<1> QED BY <1>5, <1>7 DEF Charged

\* A session is written.
LEMMA WrittenCharged ==
  ASSUME StartAssumption, Calm, Charged, EarlyEnds \/ \E h \in Handler : CreateSession(h) \/ Finalise(h)
  PROVE  Charged'
<1>1. Shapes /\ Quiet /\ Waits /\ Plugged
  BY DEF Calm, Shape, Charged
<1>2. UNCHANGED <<plug, calling>> /\ ((\E h \in Handler : OnlyStep(h)) \/ UNCHANGED run)
  BY <1>1, CreateDoes, FinaliseDoes DEF EarlyEnds, FaultEnds, GraceEnds, EndEarly, charger
<1>3. Waits'
  <2>1. \A h \in Handler : Starts(run'[h]) => Starts(run[h]) /\ run'[h].c = run[h].c
    BY <1>2 DEF OnlyStep, Starts
  <2>2. \A h \in Handler : Starts(run[h]) => run[h].c \in Connector
    BY <1>1, Busy DEF Starts
  <2> QED BY <1>1, <1>2, <2>1, <2>2, WaitsOn
<1>4. ASSUME NEW h \in Handler, CreateSession(h) PROVE Plugged'
  <2>1. session' = [session EXCEPT ![NewKey] = NewRow(h)]
    BY <1>1, <1>4, CreateDoes
  <2>2. IF Others(run[h].c) = {} THEN UNCHANGED history ELSE Expose(TxOf(Others(run[h].c)) \cup {run[h].tx})
    BY <1>4 DEF CreateSession
  <2>3. \A i \in Live : session[i].tx \in exposed'
    <3> SUFFICES ASSUME NEW i \in Live PROVE session[i].tx \in exposed'
      OBVIOUS
    <3>1. i \in Others(run[h].c) /\ session[i].tx \in TxOf(Others(run[h].c))
      BY DEF Others, TxOf
    <3> HIDE DEF Others, TxOf
    <3> QED BY <2>2, <3>1 DEF Expose
  <2>4. \A i \in Untouched' : i \in Open'
    <3> SUFFICES ASSUME NEW i \in Untouched' PROVE i \in Open'
      OBVIOUS
    <3>1. i \in Rows' /\ i \in 1..MaxId /\ ~session'[i].stopped /\ session'[i].tx \notin exposed'
      BY DEF Untouched, Live, Rows
    <3>2. CASE i = NewKey
      <4>1. session'[i] = NewRow(h)
        BY <1>1, <2>1, <3>1, <3>2 DEF Shapes
      <4> QED BY <3>1, <4>1 DEF Open, NewRow
    <3>3. CASE i # NewKey
      <4>1. session'[i] = session[i]
        BY <1>1, <2>1, <3>1, <3>3 DEF Shapes
      <4>2. i \in Live
        BY <3>1, <4>1 DEF Live, Rows
      <4> QED BY <2>3, <3>1, <4>1, <4>2
    <3> QED BY <3>2, <3>3
  <2> QED BY <2>4 DEF Plugged
<1>5. ASSUME NEW h \in Handler, Finalise(h) PROVE Plugged'
  <2>1. /\ \A i \in WithTx(run[h].tx) : session'[i].stopped
        /\ \A i \in (1..MaxId) \ WithTx(run[h].tx) : session'[i] = session[i]
        /\ UNCHANGED <<exposed, plug>>
    BY <1>1, <1>5, FinaliseDoes DEF charger
  <2> SUFFICES ASSUME NEW i \in Untouched', i \notin Open' PROVE \E c \in Connector : plug'[c].id = i
    BY DEF Plugged
  <2>2. i \in 1..MaxId /\ session'[i].tx # Null /\ ~session'[i].stopped /\ session'[i].tx \notin exposed
    BY <2>1 DEF Untouched, Live, Rows
  <2>3. session'[i] = session[i]
    BY <2>1, <2>2
  <2>4. i \in Untouched /\ i \notin Open
    BY <2>2, <2>3 DEF Untouched, Live, Rows, Open
  <2> QED BY <1>1, <2>1, <2>4 DEF Plugged
<1>6. ASSUME NEW j \in Open, EndEarly(j) PROVE Plugged'
  <2>1. /\ \A i \in 1..MaxId : SessionWritten(i) /\ session'[i].stopped = session[i].stopped
        /\ \A i \in (1..MaxId) \ {j} : session'[i] = session[i]
        /\ exposed' = exposed \cup TxOf({j} \ {plug[c].id : c \in Connector})
        /\ UNCHANGED plug
    BY <1>1, <1>6, EndEarlyDoes DEF charger
  <2> SUFFICES ASSUME NEW i \in Untouched', i \notin Open' PROVE \E c \in Connector : plug'[c].id = i
    BY DEF Plugged
  <2>2. i \in 1..MaxId /\ session'[i].tx # Null /\ ~session'[i].stopped /\ session'[i].tx \notin exposed'
    BY DEF Untouched, Live, Rows
  <2>3. session'[i].tx = session[i].tx
    BY <2>1, <2>2 DEF SessionWritten
  <2>4. CASE i = j
    <3>1. session[j].tx \notin TxOf({j} \ {plug[c].id : c \in Connector})
      BY <2>1, <2>2, <2>3, <2>4
    <3>2. j \in {plug[c].id : c \in Connector}
      <4> SUFFICES ASSUME j \notin {plug[c].id : c \in Connector} PROVE FALSE
        OBVIOUS
      <4> DEFINE ids == {plug[c].id : c \in Connector}
      <4>1. j \in {j} \ ids
        OBVIOUS
      <4> HIDE DEF ids
      <4> QED BY <3>1, <4>1 DEF TxOf, ids
    <3> QED BY <2>1, <2>4, <3>2
  <2>5. CASE i # j
    <3>1. session'[i] = session[i]
      BY <2>1, <2>2, <2>5
    <3>2. i \in Untouched /\ i \notin Open
      BY <2>1, <2>2, <3>1 DEF Untouched, Live, Rows, Open
    <3> QED BY <1>1, <2>1, <3>2 DEF Plugged
  <2> QED BY <2>4, <2>5
<1>7. Plugged'
  BY <1>4, <1>5, <1>6 DEF EarlyEnds, FaultEnds, GraceEnds
<1> QED BY <1>3, <1>7 DEF Charged

LEMMA ChargedStep == StartAssumption /\ Calm /\ Charged /\ [Next]_vars => Charged'
<1> SUFFICES ASSUME StartAssumption, Calm, Charged, [Next]_vars PROVE Charged'
  OBVIOUS
<1>1. Shapes /\ Shape /\ Waits /\ Plugged
  BY DEF Calm, Shape, Charged
<1>2. CASE UNCHANGED vars \/ Notices \/ InitTransactionCounter \/ \E c \in Connector : LockExpires(c)
  <2>1. Grows /\ UNCHANGED <<run, session, plug, calling>>
    BY <1>2 DEF vars, history, Notices, Heartbeat, BootNotification, StatusNotification, InitTransactionCounter,
                charger, LockExpires, Grows
  <2> QED BY <1>1, <2>1, ChargedAside
<1>3. CASE Driver
  <2>1. UNCHANGED <<run, session, calling, exposed>>
    BY <1>3 DEF Driver, PresentTag, StartCharging, AdminRemoteStart, StopCharging, AdminRemoteStop, Unplug, history
  <2>2. PICK c \in Connector : PlugMoves(c)
    BY <1>1, <1>3, DriverDoes
  <2>3. \A d \in Connector : /\ plug[d].at = "starting" => plug'[d].at = "starting"
                             /\ plug[d].id # Null => plug'[d].id = plug[d].id
    <3> SUFFICES ASSUME NEW d \in Connector
                 PROVE  /\ plug[d].at = "starting" => plug'[d].at = "starting"
                        /\ plug[d].id # Null => plug'[d].id = plug[d].id
      OBVIOUS
    <3>1. plug[d].at \in {"free", "starting"} <=> plug[d].id = Null
      BY <1>1 DEF Shapes, PlugTyped
    <3>2. CASE d # c \/ UNCHANGED plug
      BY <2>2, <3>2 DEF PlugMoves, PlugSet
    <3>3. CASE d = c /\ ~UNCHANGED plug
      BY <2>2, <3>1, <3>3 DEF PlugMoves, PlugSet
    <3> QED BY <3>2, <3>3
  <2>4. \A h \in Handler : Starts(run'[h]) => Starts(run[h]) /\ run'[h].c = run[h].c /\ run[h].c \in Connector
    <3>1. \A h \in Handler : Starts(run[h]) => run[h].c \in Connector
      BY <1>1, Busy DEF Starts
    <3> QED BY <2>1, <3>1
  <2>5. Waits'
    <3>1. UNCHANGED calling /\ \A d \in Connector : plug[d].at = "starting" => plug'[d].at = "starting"
      BY <2>1, <2>3
    <3> QED BY <1>1, <2>4, <3>1, WaitsOn
  <2>6. \A i \in Untouched' : \A d \in Connector : plug[d].id = i => plug'[d].id = i
    BY <2>3 DEF Untouched, Live, Rows, Null
  <2>7. Plugged'
    <3>1. Grows /\ UNCHANGED session
      BY <2>1 DEF Grows
    <3> QED BY <1>1, <2>6, <3>1, PluggedAside
  <2> QED BY <2>5, <2>7 DEF Charged
<1>4. CASE Calls
  <2>1. PICK h \in Handler, c \in Connector : StartTransaction(h, c) \/ MeterValues(h, c) \/ StopTransaction(h, c)
    BY <1>4 DEF Calls
  <2>2. /\ \A g \in Handler \ {h} : run'[g] = run[g]
        /\ run'[h].c = c /\ (Starts(run'[h]) => plug[c].at = "starting")
        /\ Grows /\ UNCHANGED <<plug, session>>
    BY <1>1, <2>1, CallDoes DEF Grows, Starts, Meters, Stops
  <2>3. calling' = h
    BY <2>1 DEF StartTransaction, MeterValues, StopTransaction, Call
  <2>4. Waits'
    BY <2>2, <2>3 DEF Waits, Starts
  <2>5. Plugged'
    BY <1>1, <2>2, PluggedAside
  <2> QED BY <2>4, <2>5 DEF Charged
<1>5. CASE Progress
  <2>1. ASSUME NEW h \in Handler, HandlerStep(h) PROVE Charged'
    <3>1. CASE Authorise(h) \/ UpdateState(h) \/ ConfirmSession(h) \/ ReleaseLock(h) \/ DeleteLock(h)
      <4>1. (\E step : Goto(h, step)) /\ Grows /\ UNCHANGED <<session, plug, calling>>
        BY <3>1 DEF Authorise, UpdateState, ConfirmSession, ReleaseLock, DeleteLock, charger, history, Grows
      <4>2. OnlyStep(h)
        BY <1>1, <4>1, GoesOn
      <4> QED BY <1>1, <4>1, <4>2, ChargedAside
    <3>2. CASE MarkChargingActive(h)
      <4>1. Grows /\ UNCHANGED <<session, plug, calling>>
        BY <3>2 DEF MarkChargingActive, charger, history, Grows
      <4> QED BY <1>1, <3>2, <4>1, Marks, ChargedAside
    <3>3. CASE CreateSessionFind(h)
      <4>1. Grows /\ UNCHANGED <<session, plug, calling>>
        BY <3>3 DEF CreateSessionFind, Expose, charger, history, Grows
      <4>2. Goto(h, "create") \/ \E i : run' = [run EXCEPT ![h] = Found(run[h], i)]
        BY <3>3 DEF CreateSessionFind
      <4>3. OnlyStep(h)
        BY <1>1, <4>2, GoesOn, Gets
      <4> QED BY <1>1, <4>1, <4>3, ChargedAside
    <3>4. CASE CreateSession(h) \/ Finalise(h)
      BY <3>4, WrittenCharged
    <3>5. CASE Refuse(h) \/ Reply(h) \/ Bill(h) \/ \E l \in Late : Reset(h, l)
      BY <3>5, EndCharged
    <3> QED BY <2>1, <3>1, <3>2, <3>3, <3>4, <3>5 DEF HandlerStep
  <2>2. ASSUME NEW w \in Writer, WriteRow(w) \/ WriteCache(w) PROVE Charged'
    <3>1. Grows /\ UNCHANGED <<run, session, plug, calling>>
      BY <2>2 DEF WriteRow, WriteCache, Expose, charger, history, Grows
    <3> QED BY <1>1, <3>1, ChargedAside
  <2> QED BY <1>5, <2>1, <2>2 DEF Progress
<1>6. CASE TimeOut \/ Restart
  <2>1. calling' = Nobody /\ Grows /\ UNCHANGED <<session, plug>>
    BY <1>6 DEF TimeOut, Restart, Expose, history, Grows
  <2>2. Waits'
    BY <2>1 DEF Waits, StartAssumption
  <2>3. Plugged'
    BY <1>1, <2>1, PluggedAside
  <2> QED BY <2>2, <2>3 DEF Charged
<1>7. CASE EarlyEnds
  BY <1>7, WrittenCharged
<1>8. ASSUME NEW h \in Handler, Dies(h) \/ \E l \in Late : FinaliseFails(h, l) PROVE Charged'
  BY <1>8, EndCharged
<1> QED BY <1>2, <1>3, <1>4, <1>5, <1>6, <1>7, <1>8 DEF Next, Trouble

\* markChargingActive and releaseLock: the lock of a connector is that of a start on
\* its way to its session, of the open session of the connector, of one that a fault
\* or the worker of the grace period has ended and the charger there has still to
\* stop, or of the stop, for any number of connectors, handlers and faults; besides
\* the cases of StopsTheRightSession it outlives them where a start was given the
\* session of another or the state named another connector when the session was
\* stopped.
THEOREM LockIsHeld == Spec => []LockFollows
<1>1. StartAssumption /\ Init => OwnIds /\ Held /\ Charged
  <2> SUFFICES ASSUME StartAssumption, Init PROVE OwnIds /\ Held /\ Charged
    OBVIOUS
  <2>1. /\ session = [i \in 1..MaxId |-> NoSession] /\ lock = [c \in Connector |-> Null]
        /\ run = [h \in Handler |-> NoRun] /\ calling = Nobody
    BY DEF Init
  <2>2. OwnIds
    BY <2>1 DEF OwnIds, Rows, NoSession
  <2>3. Held
    BY <2>1 DEF Held
  <2>4. Charged
    BY <2>1 DEF Charged, Waits, StartAssumption, Plugged, Untouched, Live, Rows, NoSession
  <2> QED BY <2>2, <2>3, <2>4
<1>2. Calm /\ Held /\ Charged => LockFollows
  <2> SUFFICES ASSUME Calm, Held, Charged, NEW c \in Connector, lock[c] # Null, lock[c] \notin exposed \cup astray
               PROVE  lock[c] \in {run[h].tx : h \in Handler} \cup TxOf(OpenOn(c)) \cup TxOf({plug[c].id} \cap Rows)
    BY DEF LockFollows
  <2>1. HeldBy(c, lock[c])
    BY DEF Held
  <2>2. CASE \E h \in Handler : Holding(h, c, lock[c])
    BY <2>2 DEF Holding
  <2>3. ASSUME NEW i \in Live, LiveHere(i, c, lock[c])
        PROVE  lock[c] \in TxOf(OpenOn(c)) \cup TxOf({plug[c].id} \cap Rows)
    <3>1. session[i].tx = lock[c] /\ session[i].c = c
      BY <2>3 DEF LiveHere
    <3>2. CASE i \in Open
      BY <3>1, <3>2 DEF OpenOn, TxOf
    <3>3. CASE i \notin Open
      <4>1. i \in Untouched /\ i \in Rows /\ i # Null
        BY <3>1 DEF Untouched, Live, Rows, Null
      <4>2. PICK d \in Connector : plug[d].id = i
        BY <3>3, <4>1 DEF Charged, Plugged
      <4>3. PlugFits(d, i)
        BY <4>1 DEF Calm, Quiet, OneAtWork
      <4>4. d = c
        BY <3>1, <4>1, <4>2, <4>3 DEF PlugFits
      <4>5. i \in {plug[c].id} \cap Rows
        BY <4>1, <4>2, <4>4
      <4> QED BY <3>1, <4>5 DEF TxOf
    <3> QED BY <3>2, <3>3
  <2> QED BY <2>1, <2>2, <2>3 DEF HeldBy
<1> QED BY <1>1, <1>2, StartAssumption, InitCalm, NextCalm, OwnIdsStep, HeldStep, ChargedStep, PTL DEF Spec

-----------------------------------------------------------------------------
\* Types

PlugType == [at : {"free", "starting", "on", "stopping"}, tag : Tag, id : Id]

CallType == [kind : Kind \cup {"none"}, pc : Step \cup {"none"}, c : Nat, tag : Tag,
             tx : Nat, id : Id, user : User \cup {Nobody}, at : Nat]

RowType == [c : Nat, tx : Nat, user : User \cup {Nobody}, ended : BOOLEAN, stopped : BOOLEAN]

CopyType == [connector : Nat, transactionId : Nat, ocppTransactionId : Nat,
             pendingUserId : User \cup {Nobody}, known : BOOLEAN]

\* What an update is given, and what of it may be written to the row.
Gives(update) == \A f \in DOMAIN update \cap Field : update[f] \in Nat
Fits(fields)  == \A f \in DOMAIN fields : f \in Field /\ fields[f] \in Nat

Carries == \A w \in Writer : Fits(write[w].fields)

StoreType ==
  /\ row \in [Field -> Nat] /\ cache \in CopyType
  /\ \A w \in Writer : write[w].phase \in {"none", "db", "merge"}
  /\ Carries

ChargeType == plug \in [Connector -> PlugType] /\ calling \in Handler \cup {Nobody} /\ run \in [Handler -> CallType]

TableType == session \in [1..MaxId -> RowType] /\ lock \in [Connector -> Nat]

MarksType == exposed \subseteq Nat /\ lost \subseteq Nat /\ misled \subseteq Nat /\ astray \subseteq Nat

Typed == StoreType /\ ChargeType /\ TableType /\ MarksType /\ faults \in 0..MaxFaults

LEMMA TypedIs == Typed /\ txCounter \in Nat => TypeOK
BY DEF Typed, StoreType, ChargeType, TableType, MarksType, TypeOK, ChargerStateTypeOK, PlugType, CallType, RowType, CopyType

\* The state of the charger.

LEMMA OverlayTyped ==
  ASSUME NEW fields, Fits(fields)
  PROVE  /\ \A r \in [Field -> Nat] : Overlay(r, fields) \in [Field -> Nat]
         /\ \A r \in CopyType : [Overlay(r, fields) EXCEPT !.known = TRUE] \in CopyType
<1>1. ASSUME NEW r \in [Field -> Nat] PROVE Overlay(r, fields) \in [Field -> Nat]
  BY DEF Overlay, Fits
<1>2. ASSUME NEW r \in CopyType
      PROVE  [Overlay(r, fields) EXCEPT !.known = TRUE] \in CopyType
  <2> DEFINE o == Overlay(r, fields)
  <2>1. DOMAIN r = {"connector", "transactionId", "ocppTransactionId", "pendingUserId", "known"}
    BY DEF CopyType
  <2>2. DOMAIN o = DOMAIN r
    BY DEF Overlay
  <2>3. \A f \in Field : o[f] \in Nat
    BY <2>1 DEF Overlay, Fits, Field, CopyType
  <2>4. o["pendingUserId"] = r.pendingUserId
    BY <2>1 DEF Overlay, Field, Fits
  <2> HIDE DEF o
  <2>5. [o EXCEPT !.known = TRUE] = [f \in DOMAIN r |-> IF f = "known" THEN TRUE ELSE o[f]]
    BY <2>2
  <2> QED BY <2>1, <2>3, <2>4, <2>5 DEF Field, CopyType, o
<1> QED BY <1>1, <1>2

LEMMA LoadedTyped ==
  ASSUME StoreType
  PROVE  Loaded \in CopyType
<1>1. Fits(row) /\ DOMAIN row = Field
  BY DEF StoreType, Fits
<1> QED BY <1>1, OverlayTyped DEF StoreType, Loaded

LEMMA IssueTyped ==
  ASSUME StoreType, StoreShape, NEW w \in Writer, NEW update, Gives(update), Issue(w, update)
  PROVE  Carries' /\ \A v \in Writer : write'[v].phase \in {"none", "db", "merge"}
<1>1. Fits(Allowed(update))
  BY DEF Fits, Gives, Allowed, Field
<1>2. write' = [write EXCEPT ![w] = [phase |-> "db", fields |-> Allowed(update)]]
  BY DEF Issue
<1> QED BY <1>1, <1>2 DEF StoreType, StoreShape, Carries

LEMMA WritesTyped ==
  ASSUME StoreType, StoreShape, NEW w \in Writer, Upsert(w) \/ Merge(w)
  PROVE  StoreType'
<1>1. Fits(write[w].fields)
  BY DEF StoreType, Carries
<1>2. row' \in [Field -> Nat]
  BY <1>1, OverlayTyped DEF Upsert, Merge, StoreType
<1>3. cache' \in CopyType
  BY <1>1, OverlayTyped DEF Upsert, Merge, StoreType
<1>4. Fits(row') /\ Fits(<< >>)
  BY <1>2 DEF Fits, Field
<1>5. Carries' /\ \A v \in Writer : write'[v].phase \in {"none", "db", "merge"}
  BY <1>4 DEF Upsert, Merge, NoWrite, StoreType, StoreShape, Carries
<1> QED BY <1>2, <1>3, <1>5 DEF StoreType
\* The handlers and the charger.

LEMMA GotoTyped ==
  ASSUME ChargeType, NEW h \in Handler, NEW step \in Step, Goto(h, step)
  PROVE  run' \in [Handler -> CallType]
<1>1. ASSUME NEW r \in CallType PROVE [r EXCEPT !.pc = step] \in CallType
  BY DEF CallType
<1>2. run' = [run EXCEPT ![h] = [run[h] EXCEPT !.pc = step]]
  BY DEF Goto
<1> QED BY <1>1, <1>2 DEF ChargeType

LEMMA FoundTyped ==
  ASSUME NEW r \in CallType, NEW i \in Id
  PROVE  Found(r, i) \in CallType
BY DEF Found, CallType, Step

LEMMA BlanksTyped ==
  ASSUME StartAssumption
  PROVE  NoRun \in CallType /\ Unplugged \in PlugType /\ NoSession \in RowType
<1>1. 0 \in Nat /\ 0 \in Id
  BY DEF StartAssumption, Id
<1> QED BY <1>1 DEF NoRun, Unplugged, NoSession, Null, CallType, PlugType, RowType, Tag

LEMMA AnswerTyped ==
  ASSUME StartAssumption, ChargeType, NEW h \in Handler, NEW c \in Connector, NEW then \in PlugType,
         Answer(h, c, then)
  PROVE  ChargeType'
<1>1. run' \in [Handler -> CallType]
  BY BlanksTyped DEF ChargeType, Answer
<1>2. calling' \in Handler \cup {Nobody}
  BY DEF ChargeType, Answer
<1>3. plug' \in [Connector -> PlugType]
  BY DEF ChargeType, Answer
<1> QED BY <1>1, <1>2, <1>3 DEF ChargeType

LEMMA ExposeTyped ==
  ASSUME MarksType, NEW txs \in SUBSET Nat, Expose(txs)
  PROVE  MarksType'
BY DEF MarksType, Expose

LEMMA CallTyped ==
  ASSUME ChargeType, MarksType, NEW h \in Handler, NEW call \in CallType, Call(h, call), UNCHANGED plug
  PROVE  ChargeType' /\ MarksType'
<1>1. run' \in [Handler -> CallType] /\ calling' \in Handler \cup {Nobody}
  BY DEF Call, ChargeType
<1>2. \A g \in Handler : run[g].tx \in Nat
  BY DEF ChargeType, CallType
<1>3. call.tx \in Nat /\ {call.tx} \cup {run[g].tx : g \in Running} \in SUBSET Nat
  BY <1>2 DEF Running, CallType
<1>4. MarksType'
  BY <1>3, ExposeTyped DEF Call, MarksType, history
<1> QED BY <1>1, <1>4 DEF ChargeType

LEMMA RowsTyped ==
  ASSUME TableType
  PROVE  /\ Live \subseteq Rows /\ Open \subseteq Rows /\ Rows \subseteq 1..MaxId
         /\ \A i \in 1..MaxId : session[i] \in RowType
         /\ \A S \in SUBSET (1..MaxId) : TxOf(S) \subseteq Nat
<1>1. \A i \in 1..MaxId : session[i] \in RowType
  BY DEF TableType
<1> QED BY <1>1 DEF Live, Open, Rows, TxOf, RowType

-----------------------------------------------------------------------------
\* The steps keep the types

LEMMA DriverTyped ==
  ASSUME StartAssumption, ChargerAssumption, Typed, NEW c \in Connector,
         \/ \E tag \in Comes[c] \ {"app"} : PresentTag(c, tag)
         \/ \E user \in User : StartCharging(user, c)
         \/ "card" \in Comes[c] /\ AdminRemoteStart(c)
         \/ StopCharging(c) \/ AdminRemoteStop(c) \/ Unplug(c)
  PROVE  Typed'
<1>1. UNCHANGED <<row, write, calling, run, session, lock, faults, history>>
  BY DEF PresentTag, StartCharging, AdminRemoteStart, StopCharging, AdminRemoteStop, Unplug, state
<1>2. cache' \in CopyType
  <2>1. cache \in CopyType
    BY DEF Typed, StoreType
  <2>2. ASSUME NEW user \in User, StartCharging(user, c) PROVE cache' \in CopyType
    BY <2>1, <2>2 DEF StartCharging, SetPending, CopyType
  <2>3. CASE AdminRemoteStop(c)
    BY <2>3, LoadedTyped DEF AdminRemoteStop, Typed
  <2>4. CASE UNCHANGED cache
    BY <2>1, <2>4
  <2> QED BY <2>2, <2>3, <2>4 DEF PresentTag, AdminRemoteStart, StopCharging, Unplug, state
<1>3. plug' \in [Connector -> PlugType]
  <2>1. plug \in [Connector -> PlugType]
    BY DEF Typed, ChargeType
  <2>2. ASSUME NEW tag \in Tag, PresentTag(c, tag) PROVE plug' \in [Connector -> PlugType]
    <3>1. [at |-> "starting", tag |-> tag, id |-> Null] \in PlugType
      BY DEF PlugType, Null, Id, StartAssumption
    <3> QED BY <2>1, <2>2, <3>1 DEF PresentTag
  <2>3. ASSUME NEW user \in User, StartCharging(user, c) PROVE plug' \in [Connector -> PlugType]
    <3>1. [at |-> "starting", tag |-> "app", id |-> Null] \in PlugType
      BY DEF PlugType, Null, Id, StartAssumption, Tag
    <3> QED BY <2>1, <2>3, <3>1 DEF StartCharging
  <2>4. CASE plug' = [plug EXCEPT ![c].at = "stopping"]
    <3>1. [plug[c] EXCEPT !.at = "stopping"] \in PlugType
      BY <2>1 DEF PlugType
    <3> QED BY <2>1, <2>4, <3>1
  <2>5. Comes[c] \subseteq Tag
    BY DEF StartAssumption, Tag
  <2> QED BY <2>2, <2>3, <2>4, <2>5 DEF AdminRemoteStart, StopCharging, AdminRemoteStop, Unplug
<1> QED BY <1>1, <1>2, <1>3 DEF Typed, StoreType, Carries, ChargeType, TableType, MarksType, history

LEMMA MadeTyped ==
  ASSUME NEW r \in CallType, NEW c \in Nat, NEW tx \in Nat, NEW i \in Id, NEW at \in Nat
  PROVE  /\ [r EXCEPT !.kind = "meter", !.pc = "bill", !.c = c, !.tx = tx, !.id = i] \in CallType
         /\ [r EXCEPT !.kind = "stop", !.pc = "finalise", !.c = c, !.at = at, !.tx = tx, !.id = i] \in CallType
BY DEF CallType, Kind, Step

LEMMA CallsTyped ==
  ASSUME StartAssumption, ChargerAssumption, Calm, Typed, NEW h \in Handler, NEW c \in Connector,
         StartTransaction(h, c) \/ MeterValues(h, c) \/ StopTransaction(h, c)
  PROVE  Typed'
<1>0. /\ StoreShape /\ StoreType /\ ChargeType /\ MarksType /\ Loaded \in CopyType /\ plug[c] \in PlugType
      /\ c \in Nat /\ Handler \subseteq Writer
  BY LoadedTyped DEF Calm, Shape, Typed, ChargeType, ChargerAssumption, StartAssumption
<1>1. UNCHANGED <<row, plug, session, lock, faults>>
  BY DEF StartTransaction, MeterValues, StopTransaction, state
<1>2. CASE StartTransaction(h, c)
  <2>1. PICK tx \in 1..MaxId :
          /\ Call(h, [kind |-> "start", pc |-> "authorise", c |-> c, tag |-> plug[c].tag, tx |-> tx,
                      id |-> Null, user |-> Nobody, at |-> Null])
          /\ UNCHANGED state
    BY <1>2 DEF StartTransaction
  <2>2. [kind |-> "start", pc |-> "authorise", c |-> c, tag |-> plug[c].tag, tx |-> tx,
         id |-> Null, user |-> Nobody, at |-> Null] \in CallType
    BY <1>0 DEF CallType, PlugType, Kind, Step, Null, Id, StartAssumption
  <2> QED BY <1>0, <1>1, <2>1, <2>2, CallTyped DEF state, Typed, StoreType, Carries, TableType
<1>3. CASE MeterValues(h, c)
  <2>1. PICK tx \in Nat :
          /\ Call(h, [NoRun EXCEPT !.kind = "meter", !.pc = "bill", !.c = c, !.tx = tx, !.id = plug[c].id])
          /\ Issue(h, << >>) /\ cache' = Loaded
    BY <1>0, <1>3 DEF MeterValues, CopyType
  <2>2. [NoRun EXCEPT !.kind = "meter", !.pc = "bill", !.c = c, !.tx = tx, !.id = plug[c].id] \in CallType
    BY <1>0, BlanksTyped, MadeTyped DEF PlugType
  <2>3. Gives(<< >>)
    BY DEF Gives, Field
  <2>4. StoreType'
    BY <1>0, <1>1, <2>1, <2>3, IssueTyped DEF StoreType
  <2> QED BY <1>0, <1>1, <2>1, <2>2, <2>4, CallTyped DEF Typed, TableType
<1>4. CASE StopTransaction(h, c)
  <2>0. ActiveTransaction(Loaded, plug[c].id) \in Nat
    <3>1. plug[c].id \in 1..MaxId
      <4>1. PlugTyped(c) /\ plug[c].at = "stopping"
        BY <1>4 DEF Calm, Shape, Shapes, StopTransaction
      <4> QED BY <1>0, <4>1 DEF PlugTyped, PlugType, Null, Id, StartAssumption
    <3> QED BY <1>0, <3>1, RowsTyped DEF Typed, ActiveTransaction, CopyType, RowType
  <2>1. PICK tx \in Nat, at \in Nat :
          /\ Call(h, [NoRun EXCEPT !.kind = "stop", !.pc = "finalise", !.c = c, !.at = at, !.tx = tx, !.id = plug[c].id])
          /\ cache' = Loaded /\ UNCHANGED write
    BY <1>0, <1>4, <2>0 DEF StopTransaction, CopyType
  <2>2. [NoRun EXCEPT !.kind = "stop", !.pc = "finalise", !.c = c, !.at = at, !.tx = tx, !.id = plug[c].id] \in CallType
    BY <1>0, BlanksTyped, MadeTyped DEF PlugType
  <2> QED BY <1>0, <1>1, <2>1, <2>2, CallTyped DEF Typed, StoreType, Carries, TableType
<1> QED BY <1>2, <1>3, <1>4

LEMMA SameTyped ==
  /\ StoreType /\ UNCHANGED <<row, cache, write>> => StoreType'
  /\ ChargeType /\ UNCHANGED <<plug, calling, run>> => ChargeType'
  /\ TableType /\ UNCHANGED <<session, lock>> => TableType'
  /\ MarksType /\ UNCHANGED <<exposed, lost, misled, astray>> => MarksType'
BY DEF StoreType, Carries, ChargeType, TableType, MarksType

LEMMA RowSetTyped ==
  ASSUME TableType, NEW i \in 1..MaxId, NEW r \in RowType, session' = [session EXCEPT ![i] = r]
  PROVE  session' \in [1..MaxId -> RowType]
BY DEF TableType

\* A session that ends, before its stop or with it.
LEMMA RowWrittenTyped ==
  ASSUME NEW r \in RowType
  PROVE  /\ [r EXCEPT !.ended = TRUE] \in RowType
         /\ [r EXCEPT !.ended = TRUE, !.stopped = TRUE] \in RowType
BY DEF RowType

LEMMA StartsTyped ==
  ASSUME StartAssumption, ChargerAssumption, Calm, OwnIds, Typed, NEW h \in Handler,
         \/ Authorise(h) \/ Refuse(h) \/ MarkChargingActive(h)
         \/ CreateSessionFind(h) \/ CreateSession(h) \/ UpdateState(h)
         \/ ConfirmSession(h) \/ Reply(h)
  PROVE  Typed'
<1>0. /\ StoreShape /\ StoreType /\ ChargeType /\ TableType /\ MarksType /\ faults \in 0..MaxFaults
      /\ run[h] \in CallType /\ Handler \subseteq Writer /\ RunTyped(h) /\ FreshInv /\ 1..MaxId \subseteq Id
  <2>1. StoreShape /\ RunTyped(h) /\ FreshInv
    BY DEF Calm, Shape, Shapes
  <2>2. StoreType /\ ChargeType /\ TableType /\ MarksType /\ faults \in 0..MaxFaults
    BY DEF Typed
  <2>3. run[h] \in CallType
    BY <2>2 DEF ChargeType
  <2>4. Handler \subseteq Writer /\ 1..MaxId \subseteq Id
    BY DEF StartAssumption, Id
  <2> QED BY <2>1, <2>2, <2>3, <2>4
<1>c. run[h].c \in Connector /\ run[h].c \in Nat /\ run[h].tx \in Nat
  BY <1>0 DEF Authorise, Refuse, MarkChargingActive, CreateSessionFind, CreateSession, UpdateState, ConfirmSession,
              Reply, At, RunTyped, NoRun, ChargerAssumption, CallType
<1>f. UNCHANGED faults
  BY DEF Authorise, Refuse, MarkChargingActive, CreateSessionFind, CreateSession, UpdateState, ConfirmSession, Reply
<1>1. CASE Authorise(h)
  <2>1. "lock" \in Step
    BY DEF Step
  <2>2. run' \in [Handler -> CallType]
    BY <1>0, <1>1, <2>1, GotoTyped DEF Authorise
  <2> QED BY <1>0, <1>1, <2>2, SameTyped DEF Authorise, Typed, ChargeType, state, charger, history
<1>2. CASE Refuse(h)
  <2>1. ChargeType'
    BY <1>0, <1>2, <1>c, AnswerTyped, BlanksTyped DEF Refuse
  <2> QED BY <1>0, <1>2, <2>1, SameTyped DEF Refuse, Typed, state, history
<1>3. CASE MarkChargingActive(h)
  <2>1. ResolvedUser(run[h].tag) \in User \cup {Nobody}
    BY <1>0 DEF ResolvedUser, StoreType, CopyType
  <2>2. \A u \in User \cup {Nobody} : [run[h] EXCEPT !.pc = "find", !.tag = "card", !.user = u] \in CallType
    BY <1>0 DEF CallType, Step, Tag
  <2>3. run' = [run EXCEPT ![h] = [run[h] EXCEPT !.pc = "find", !.tag = "card", !.user = ResolvedUser(run[h].tag)]]
    BY <1>0, <1>3 DEF MarkChargingActive, ChargeType
  <2>4. run' \in [Handler -> CallType]
    BY <1>0, <2>1, <2>2, <2>3 DEF ChargeType
  <2>5. lock' \in [Connector -> Nat]
    BY <1>0, <1>3, <1>c DEF MarkChargingActive, AcquireLock, TableType
  <2> QED BY <1>0, <1>3, <2>4, <2>5, SameTyped DEF MarkChargingActive, Typed, ChargeType, TableType, state, charger, history
<1>4. CASE CreateSessionFind(h)
  <2>1. ASSUME NEW i \in Id, run' = [run EXCEPT ![h] = Found(run[h], i)]
        PROVE  run' \in [Handler -> CallType]
    BY <1>0, <2>1, FoundTyped DEF ChargeType
  <2>2. ASSUME Goto(h, "create")
        PROVE  run' \in [Handler -> CallType]
    <3>1. "create" \in Step
      BY DEF Step
    <3> QED BY <1>0, <2>2, <3>1, GotoTyped
  <2>3. WithTx(run[h].tx) \subseteq Id /\ OpenOn(run[h].c) \subseteq Id
    BY <1>0 DEF WithTx, OpenOn, Open, Rows
  <2>4. run' \in [Handler -> CallType]
    BY <1>4, <2>1, <2>2, <2>3 DEF CreateSessionFind
  <2>5. MarksType'
    <3>1. {run[h].tx} \in SUBSET Nat
      BY <1>c
    <3> QED BY <1>0, <1>4, <3>1, ExposeTyped, SameTyped DEF CreateSessionFind, history
  <2> QED BY <1>0, <1>4, <2>4, <2>5, SameTyped DEF CreateSessionFind, Typed, ChargeType, state, charger
<1>5. CASE CreateSession(h)
  <2> DEFINE i == NewKey
  <2>1. i \in 1..MaxId /\ i \in Id
    <3>1. Starts(run[h]) /\ Early(run[h])
      BY <1>0, <1>5 DEF CreateSession, At, FreshInv, RunShape, Early
    <3> QED BY <1>0, <3>1, KeyHasRoom
  <2>2. /\ session' = [session EXCEPT ![i] = [c |-> run[h].c, tx |-> run[h].tx, user |-> run[h].user,
                        ended |-> FALSE, stopped |-> FALSE]]
        /\ run' = [run EXCEPT ![h] = Found(run[h], i)]
    BY <1>5 DEF CreateSession, NewKey
  <2> HIDE DEF i
  <2>3. run' \in [Handler -> CallType]
    BY <1>0, <2>1, <2>2, FoundTyped DEF ChargeType
  <2>4. [c |-> run[h].c, tx |-> run[h].tx, user |-> run[h].user, ended |-> FALSE, stopped |-> FALSE] \in RowType
    BY <1>0, <1>c DEF CallType, RowType
  <2>5. session' \in [1..MaxId -> RowType]
    BY <1>0, <2>1, <2>2, <2>4, RowSetTyped
  <2>6. MarksType'
    <3>1. Others(run[h].c) \subseteq 1..MaxId
      <4>1. \A d \in Connector : plug[d].id \in Id
        BY <1>0 DEF ChargeType, PlugType
      <4> QED BY <4>1 DEF Others, Live, Rows, Id, Null, StartAssumption
    <3>2. TxOf(Others(run[h].c)) \cup {run[h].tx} \in SUBSET Nat
      BY <1>0, <1>c, <3>1, RowsTyped
    <3> QED BY <1>0, <1>5, <3>2, ExposeTyped, SameTyped DEF CreateSession, history
  <2> QED BY <1>0, <1>5, <2>3, <2>5, <2>6, SameTyped DEF CreateSession, Typed, ChargeType, TableType, state, charger
<1>6. CASE UpdateState(h)
  <2>1. run[h].id \in 1..MaxId
    BY <1>0, <1>6 DEF UpdateState, At, RunTyped, NoRun, Early, Has, CallType, Id, Null, StartAssumption
  <2>2. session[run[h].id].tx \in Nat /\ run[h].id \in Nat
    BY <1>0, <2>1, RowsTyped DEF RowType
  <2> DEFINE update == [connector |-> run[h].c, transactionId |-> session[run[h].id].tx,
                        ocppTransactionId |-> run[h].id, pendingUserId |-> Null]
  <2>3. Gives(update)
    BY <1>c, <2>2 DEF Gives, Field
  <2>4. Issue(h, update) /\ Goto(h, "status") /\ UNCHANGED <<row, cache, charger, session, lock, history>>
    BY <1>6 DEF UpdateState
  <2> HIDE DEF update
  <2>5. StoreType'
    BY <1>0, <2>3, <2>4, IssueTyped DEF StoreType
  <2>6. run' \in [Handler -> CallType]
    <3>1. "status" \in Step
      BY DEF Step
    <3> QED BY <1>0, <2>4, <3>1, GotoTyped
  <2> QED BY <1>0, <1>f, <2>4, <2>5, <2>6, SameTyped DEF Typed, ChargeType, charger, history
<1>7. CASE ConfirmSession(h)
  <2>1. run' \in [Handler -> CallType]
    <3>1. "reply" \in Step
      BY DEF Step
    <3> QED BY <1>0, <1>7, <3>1, GotoTyped DEF ConfirmSession
  <2> QED BY <1>0, <1>7, <2>1, SameTyped DEF ConfirmSession, Typed, ChargeType, state, charger, history
<1>8. CASE Reply(h)
  <2>1. [Unplugged EXCEPT !.at = "on", !.id = run[h].id] \in PlugType
    BY <1>0, BlanksTyped DEF PlugType, CallType
  <2>2. ChargeType'
    BY <1>0, <1>8, <1>c, <2>1, AnswerTyped DEF Reply
  <2> QED BY <1>0, <1>8, <2>2, SameTyped DEF Reply, Typed, state, history
<1> QED BY <1>1, <1>2, <1>3, <1>4, <1>5, <1>6, <1>7, <1>8

LEMMA EndsTyped ==
  ASSUME StartAssumption, ChargerAssumption, Calm, Typed, NEW h \in Handler,
         \/ Bill(h) \/ Finalise(h) \/ ReleaseLock(h) \/ DeleteLock(h)
         \/ \E l \in Late : Reset(h, l) \/ FinaliseFails(h, l)
         \/ Dies(h)
  PROVE  Typed'
<1>0. /\ StoreShape /\ StoreType /\ ChargeType /\ TableType /\ MarksType /\ faults \in 0..MaxFaults
      /\ run[h] \in CallType /\ RunTyped(h) /\ Late \subseteq Writer /\ plug \in [Connector -> PlugType]
  BY DEF Calm, Shape, Shapes, Typed, ChargeType, StartAssumption
<1>c. run[h].c \in Connector /\ run[h].tx \in Nat /\ plug[run[h].c] \in PlugType
  <2>1. run[h].pc # "none" \/ run[h].kind # "none"
    BY DEF Bill, Finalise, ReleaseLock, DeleteLock, Reset, FinaliseFails, Dies, At
  <2>2. run[h] # NoRun
    BY <2>1 DEF NoRun
  <2>3. run[h].c \in Connector
    BY <1>0, <2>2 DEF RunTyped
  <2> QED BY <1>0, <2>3 DEF CallType
<1>t. TxOf(WithTx(run[h].tx) \cap Live) \subseteq Nat
  <2>1. WithTx(run[h].tx) \cap Live \in SUBSET (1..MaxId)
    BY <1>0, RowsTyped
  <2> QED BY <1>0, <2>1, RowsTyped
<1>f. ASSUME Fault PROVE faults' \in 0..MaxFaults
  BY <1>0, <1>f DEF Fault, StartAssumption
<1>e. {run[h].tx} \in SUBSET Nat
  BY <1>c
<1>1. CASE Bill(h)
  <2>1. ChargeType'
    BY <1>0, <1>1, <1>c, AnswerTyped DEF Bill
  <2>2. misled' \subseteq Nat
    <3>1. (WithTx(run[h].tx) \cap Open) \ {run[h].id} \in SUBSET (1..MaxId)
      BY <1>0, RowsTyped
    <3>2. TxOf((WithTx(run[h].tx) \cap Open) \ {run[h].id}) \subseteq Nat
      BY <1>0, <3>1, RowsTyped
    <3> QED BY <1>0, <1>1, <3>2 DEF Bill, TxOf, MarksType
  <2> QED BY <1>0, <1>1, <2>1, <2>2, SameTyped DEF Bill, Typed, MarksType, state
<1>2. CASE Finalise(h)
  <2>1. session' \in [1..MaxId -> RowType]
    <3>1. \A i \in 1..MaxId : [session[i] EXCEPT !.ended = TRUE, !.stopped = TRUE] \in RowType
      BY <1>0, RowsTyped, RowWrittenTyped
    <3> QED BY <1>0, <1>2, <3>1, RowsTyped DEF Finalise
  <2>2. run' \in [Handler -> CallType]
    <3>1. "release" \in Step
      BY DEF Step
    <3> QED BY <1>0, <1>2, <3>1, GotoTyped DEF Finalise
  <2>3. misled' \subseteq Nat
    BY <1>0, <1>2, <1>t DEF Finalise, MarksType
  <2> QED BY <1>0, <1>2, <2>1, <2>2, <2>3, SameTyped
        DEF Finalise, Typed, ChargeType, TableType, MarksType, state, charger
<1>3. CASE ReleaseLock(h)
  <2>1. run' \in [Handler -> CallType]
    <3>1. "delete" \in Step /\ "reset" \in Step
      BY DEF Step
    <3> QED BY <1>0, <1>3, <3>1, GotoTyped DEF ReleaseLock
  <2>2. astray' \subseteq Nat
    BY <1>0, <1>3, <1>c DEF ReleaseLock, MarksType
  <2> QED BY <1>0, <1>3, <2>1, <2>2, SameTyped DEF ReleaseLock, Typed, ChargeType, MarksType, state, charger
<1>4. CASE DeleteLock(h)
  <2>1. run' \in [Handler -> CallType]
    <3>1. "reset" \in Step
      BY DEF Step
    <3> QED BY <1>0, <1>4, <3>1, GotoTyped DEF DeleteLock
  <2>2. lock' \in [Connector -> Nat]
    BY <1>0, <1>4 DEF DeleteLock, TableType, Null
  <2> QED BY <1>0, <1>4, <2>1, <2>2, SameTyped DEF DeleteLock, Typed, ChargeType, TableType, state, charger, history
<1>5. ASSUME NEW l \in Late, Reset(h, l) PROVE Typed'
  <2>1. Gives([transactionId |-> Null, ocppTransactionId |-> Null])
    BY DEF Gives, Field, Null
  <2>2. StoreType'
    BY <1>0, <1>5, <2>1, IssueTyped DEF Reset, StoreType
  <2>3. ChargeType'
    BY <1>0, <1>5, <1>c, AnswerTyped, BlanksTyped DEF Reset
  <2>4. lost' \subseteq Nat
    <3>1. TxOf(Live) \subseteq Nat
      BY <1>0, RowsTyped
    <3> QED BY <1>0, <1>5, <3>1 DEF Reset, MarksType
  <2> QED BY <1>0, <1>5, <2>2, <2>3, <2>4, SameTyped DEF Reset, Typed, MarksType
<1>6. ASSUME NEW l \in Late, FinaliseFails(h, l) PROVE Typed'
  <2>1. Gives([transactionId |-> Null])
    BY DEF Gives, Field, Null
  <2>2. StoreType'
    BY <1>0, <1>6, <2>1, IssueTyped DEF FinaliseFails, StoreType
  <2>3. ChargeType'
    BY <1>0, <1>6, <1>c, AnswerTyped, BlanksTyped DEF FinaliseFails
  <2>4. MarksType'
    BY <1>0, <1>6, <1>e, ExposeTyped DEF FinaliseFails
  <2> QED BY <1>0, <1>6, <1>f, <2>2, <2>3, <2>4, SameTyped DEF FinaliseFails, Typed
<1>7. CASE Dies(h)
  <2>1. ChargeType'
    BY <1>0, <1>7, <1>c, AnswerTyped DEF Dies
  <2>2. MarksType'
    BY <1>0, <1>7, <1>e, ExposeTyped DEF Dies
  <2> QED BY <1>0, <1>7, <1>f, <2>1, <2>2, SameTyped DEF Dies, Typed, state
<1> QED BY <1>1, <1>2, <1>3, <1>4, <1>5, <1>6, <1>7

LEMMA BesideTyped ==
  ASSUME StartAssumption, ChargerAssumption, Calm, Typed,
         \/ Notices
         \/ \E w \in Writer : WriteRow(w) \/ WriteCache(w)
         \/ InitTransactionCounter \/ TimeOut \/ Restart
         \/ \E c \in Connector : LockExpires(c)
         \/ EarlyEnds
  PROVE  Typed'
<1>0. /\ StoreShape /\ StoreType /\ ChargeType /\ TableType /\ MarksType /\ faults \in 0..MaxFaults
      /\ Late \subseteq Writer
  BY DEF Calm, Shape, Typed, StartAssumption
<1>f. ASSUME Fault PROVE faults' \in 0..MaxFaults
  BY <1>0, <1>f DEF Fault, StartAssumption
<1>t. TxOf(Live) \subseteq Nat
  BY <1>0, RowsTyped
<1>1. ASSUME NEW l \in Late, NEW update, Gives(update), Issue(l, update),
             UNCHANGED <<row, cache, charger, run, session, lock, faults, history>>
      PROVE  Typed'
  <2>1. StoreType'
    BY <1>0, <1>1, IssueTyped DEF StoreType
  <2> QED BY <1>0, <1>1, <2>1, SameTyped DEF Typed, charger, history
<1>2. CASE Notices
  <2>1. PICK l \in Late : Heartbeat(l) \/ BootNotification(l) \/ \E c \in Reported : StatusNotification(l, c)
    BY <1>2 DEF Notices
  <2>2. CASE Heartbeat(l) \/ BootNotification(l)
    <3>1. Gives(<< >>)
      BY DEF Gives, Field
    <3> QED BY <1>1, <2>2, <3>1 DEF Heartbeat, BootNotification
  <2>3. ASSUME NEW c \in Reported, StatusNotification(l, c) PROVE Typed'
    <3>1. c \in Nat
      BY DEF StartAssumption, ChargerAssumption
    <3>2. Gives([connector |-> c])
      BY <3>1 DEF Gives, Field
    <3> QED BY <1>1, <2>3, <3>2 DEF StatusNotification
  <2> QED BY <2>1, <2>2, <2>3
<1>3. ASSUME NEW w \in Writer, WriteRow(w) \/ WriteCache(w) PROVE Typed'
  <2>1. StoreType'
    BY <1>0, <1>3, WritesTyped DEF WriteRow, WriteCache
  <2>2. TxOf(Live) \in SUBSET Nat /\ {row.transactionId} \cap TxOf(Live) \in SUBSET Nat
    BY <1>t
  <2>3. MarksType'
    BY <1>0, <1>3, <2>2, ExposeTyped, SameTyped DEF WriteRow, WriteCache, history
  <2>4. UNCHANGED <<charger, run, session, lock, faults>>
    BY <1>3 DEF WriteRow, WriteCache
  <2> QED BY <1>0, <2>1, <2>3, <2>4, SameTyped DEF Typed, charger
<1>4. CASE InitTransactionCounter
  BY <1>0, <1>4, SameTyped DEF InitTransactionCounter, Typed, state, charger, history
<1>5. CASE TimeOut
  <2>1. ChargeType'
    BY <1>0, <1>5 DEF TimeOut, ChargeType
  <2> QED BY <1>0, <1>5, <1>f, <2>1, SameTyped DEF TimeOut, Typed, state, history
<1>6. CASE Restart
  <2>1. StoreType'
    <3>1. Fits(<< >>)
      BY DEF Fits
    <3>2. Blank \in CopyType
      BY DEF Blank, CopyType, Null
    <3>3. \A w \in Writer : write'[w] = NoWrite
      BY <1>6 DEF Restart
    <3>4. NoWrite.fields = << >> /\ NoWrite.phase = "none"
      BY DEF NoWrite
    <3>5. Carries' /\ \A w \in Writer : write'[w].phase \in {"none", "db", "merge"}
      BY <3>1, <3>3, <3>4 DEF Carries
    <3> QED BY <1>0, <1>6, <3>2, <3>5 DEF Restart, StoreType
  <2>2. ChargeType'
    BY <1>0, <1>6, BlanksTyped DEF Restart, ChargeType
  <2>3. TxOf(Live) \cup {run[h].tx : h \in Handler} \in SUBSET Nat
    <3>1. \A h \in Handler : run[h].tx \in Nat
      BY <1>0 DEF ChargeType, CallType
    <3> QED BY <1>t, <3>1
  <2>4. MarksType'
    BY <1>0, <1>6, <2>3, ExposeTyped DEF Restart
  <2> QED BY <1>0, <1>6, <1>f, <2>1, <2>2, <2>4, SameTyped DEF Restart, Typed
<1>7. ASSUME NEW c \in Connector, LockExpires(c) PROVE Typed'
  <2>1. TableType'
    BY <1>0, <1>7 DEF LockExpires, TableType, Null
  <2> QED BY <1>0, <1>7, <1>f, <2>1, SameTyped DEF LockExpires, Typed, state, charger, history
<1>8. CASE EarlyEnds
  <2>1. PICK i \in Open : EndEarly(i)
    BY <1>8 DEF EarlyEnds, FaultEnds, GraceEnds
  <2>2. i \in 1..MaxId
    BY <2>1, RowsTyped, <1>0
  <2>3. TableType'
    <3>1. session' = [session EXCEPT ![i] = [session[i] EXCEPT !.ended = TRUE]] /\ UNCHANGED lock
      BY <2>1 DEF EndEarly
    <3>2. [session[i] EXCEPT !.ended = TRUE] \in RowType
      BY <1>0, <2>2, RowsTyped, RowWrittenTyped
    <3>3. session' \in [1..MaxId -> RowType]
      BY <1>0, <2>2, <3>1, <3>2, RowSetTyped
    <3> QED BY <1>0, <3>1, <3>3 DEF TableType
  <2>4. MarksType'
    <3> DEFINE ids == {plug[c].id : c \in Connector}
    <3>1. {i} \ ids \in SUBSET (1..MaxId)
      BY <2>2
    <3>2. Expose(TxOf({i} \ ids))
      BY <2>1 DEF EndEarly
    <3> HIDE DEF ids
    <3>3. TxOf({i} \ ids) \in SUBSET Nat
      BY <1>0, <3>1, RowsTyped
    <3> QED BY <1>0, <3>2, <3>3, ExposeTyped
  <2>5. UNCHANGED <<state, charger, run>> /\ faults' \in 0..MaxFaults
    BY <1>f, <2>1 DEF EndEarly
  <2> QED BY <1>0, <2>3, <2>4, <2>5, SameTyped DEF Typed, state, charger
<1> QED BY <1>2, <1>3, <1>4, <1>5, <1>6, <1>7, <1>8

LEMMA InitTyped == StartAssumption /\ ChargerAssumption /\ Init => Typed
<1> SUFFICES ASSUME StartAssumption, ChargerAssumption, Init PROVE Typed
  OBVIOUS
<1>1. StoreType
  <2>1. Fits(<< >>)
    BY DEF Fits
  <2>2. Blank \in CopyType
    BY DEF Blank, CopyType, Null
  <2>3. NoWrite.fields = << >> /\ NoWrite.phase = "none"
    BY DEF NoWrite
  <2>4. \A w \in Writer : write[w] = NoWrite
    BY DEF Init, ChargerStateInit
  <2>5. row \in [Field -> Nat]
    BY DEF Init, ChargerStateInit, Field, Null
  <2> QED BY <2>1, <2>2, <2>3, <2>4, <2>5 DEF Init, ChargerStateInit, StoreType, Carries
<1>2. ChargeType
  BY BlanksTyped DEF Init, ChargeType
<1>3. TableType
  BY BlanksTyped DEF Init, TableType, Null
<1> QED BY <1>1, <1>2, <1>3 DEF Init, Typed, MarksType, StartAssumption

LEMMA NextTyped == StartAssumption /\ ChargerAssumption /\ Calm /\ OwnIds /\ Typed /\ [Next]_vars => Typed'
<1> SUFFICES ASSUME StartAssumption, ChargerAssumption, Calm, OwnIds, Typed, [Next]_vars PROVE Typed'
  OBVIOUS
<1>1. CASE Driver
  BY <1>1, DriverTyped DEF Driver
<1>2. CASE Calls
  BY <1>2, CallsTyped DEF Calls
<1>3. CASE Progress
  BY <1>3, StartsTyped, EndsTyped, BesideTyped DEF Progress, HandlerStep
<1>4. CASE Notices \/ InitTransactionCounter \/ EarlyEnds
  BY <1>4, BesideTyped
<1>5. CASE Trouble
  BY <1>5, EndsTyped, BesideTyped DEF Trouble
<1>6. CASE UNCHANGED vars
  BY <1>6, SameTyped DEF vars, state, charger, history, Typed
<1> QED BY <1>1, <1>2, <1>3, <1>4, <1>5, <1>6 DEF Next

\* What the charger, the handlers, the tables and the copy in memory hold is what
\* their columns and fields may hold, whatever is late, repeated or lost: every
\* transaction a handler works for, and every session an update names, is one the
\* table has room for.
THEOREM TypeCorrect == Spec => []TypeOK
<1>1. OwnIds /\ Calm /\ Typed => TypeOK
  BY TypedIs DEF Calm, FreshInv, Below
<1>2. Init => OwnIds
  BY DEF Init, OwnIds, Rows, NoSession
<1> QED BY <1>1, <1>2, StartAssumption, ChargerAssumption, InitCalm, NextCalm, OwnIdsStep, InitTyped, NextTyped, PTL DEF Spec

=============================================================================
