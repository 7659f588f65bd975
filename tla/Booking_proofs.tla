---------------------------- MODULE Booking_proofs ----------------------------
(***************************************************************************)
(* Theorems about Booking, for any bookings, users, slots, times, attempts *)
(* and faults: no hour is given twice, and nobody pays for a booking he    *)
(* used.                                                                   *)
(***************************************************************************)
EXTENDS Booking, FiniteSetTheorems, WellFoundedInduction, TLAPS

-----------------------------------------------------------------------------
\* The inductive invariant

Begun(b)   == pc["create"][b] \notin {"none", "user", "row"}
Running(b) == pc["expire"][b] \in {"write", "get", "del", "withdraw", "check", "deduct"}

\* How far the handlers of a booking are, and what the row then says.
Progress(b) ==
  /\ Status(b) # "NONE" \/ pc["cancel"][b] # "none" => Begun(b)
  /\ pc["create"][b] \notin {"later", "done", "failed"} => pc["expire"][b] = "none" /\ attempt[b] = 0
  /\ Running(b) \/ pc["expire"][b] = "delayed" => attempt[b] < Attempts
  /\ Status(b) = "ACTIVE" => /\ pc["cancel"][b] \in {"none", "write", "failed"}
                             /\ pc["expire"][b] \in {"none", "delayed", "write", "failed", "done"}

\* A handler that deletes slots has some left.
Deletes(b) ==
  /\ pc["create"][b] = "rollback" => left["create"][b] # {}
  /\ \A h \in {"cancel", "expire"} : pc[h][b] = "del" => left[h][b] # {}

Starting == start.pc # "idle" => start.booking \in Booking /\ Status(start.booking) # "NONE"

\* An active booking that has got its slots holds them until it expires or another
\* handler deletes one.
Holds(b) ==
  Status(b) = "ACTIVE" /\ Reserved(b) /\ b \notin wiped /\ now < Expiry(b) => \A h \in Hours(b) : slot[h] = b

\* The penalty is taken by a job that found the booking active when it expired.
Penalised(b) ==
  /\ Running(b) => now >= Expiry(b)
  /\ charged[b] \in {0, 1} /\ (charged[b] = 1 => pc["expire"][b] = "done" /\ now >= Expiry(b))
  /\ b \in early => Status(b) \notin {"NONE", "ACTIVE"} /\ charged[b] = 0 /\ ~Running(b)

IInv ==
  /\ TypeOK /\ Starting
  /\ \A b \in Booking : Progress(b) /\ Deletes(b) /\ Holds(b) /\ Penalised(b)
USE DEF Handler, Status, At, handlers, jobs, history, money

-----------------------------------------------------------------------------
\* What the steps have in common

LEMMA Least ==
  ASSUME NEW S \in SUBSET Nat, S # {}
  PROVE  (CHOOSE s \in S : \A t \in S : s <= t) \in S
<1> DEFINE T == {0 .. s : s \in S}
<1>1. T # {}
  OBVIOUS
<1>2. T \subseteq FiniteSubsetsOf(Nat)
  <2>1. ASSUME NEW s \in S PROVE 0 .. s \in FiniteSubsetsOf(Nat)
    BY FS_Interval DEF FiniteSubsetsOf
  <2> QED BY <2>1
<1>3. PICK x \in T : \A y \in T : <<y, x>> \notin StrictSubsetOrdering(Nat)
  <2> HIDE DEF T
  <2> QED BY <1>1, <1>2, FS_StrictSubsetOrderingWellFounded, WFMin
<1>4. PICK s \in S : x = 0 .. s
  OBVIOUS
<1>5. ASSUME NEW t \in S, ~(s <= t) PROVE FALSE
  <2>1. s \in 0 .. s /\ s \notin 0 .. t /\ 0 .. t \subseteq 0 .. s
    BY <1>5
  <2>2. <<0 .. t, x>> \in StrictSubsetOrdering(Nat)
    BY <1>4, <2>1 DEF StrictSubsetOrdering
  <2> QED BY <1>3, <2>2
<1> QED BY <1>5

LEMMA NextSlotIsOne ==
  ASSUME SlotAssumption, TypeOK, NEW h \in Handler, NEW b \in Booking, left[h][b] # {}
  PROVE  NextSlot(h, b) \in left[h][b] /\ NextSlot(h, b) \in Slot
<1>1. left[h][b] \subseteq Slot
  BY DEF TypeOK
<1>2. left[h][b] \in SUBSET Nat
  BY <1>1 DEF SlotAssumption
<1> QED BY <1>1, <1>2, Least DEF NextSlot

\* A handler goes on; its slots stay, or are those it is given.
LEMMA Moves ==
  ASSUME TypeOK, NEW h \in Handler, NEW b \in Booking, NEW step \in Step, Goto(h, b, step)
  PROVE  /\ pc' \in [Handler -> [Booking -> Step]] /\ left' \in [Handler -> [Booking -> SUBSET Slot]]
         /\ pc'[h][b] = step /\ left' = left
         /\ \A g \in Handler, z \in Booking : g # h \/ z # b => pc'[g][z] = pc[g][z] /\ left'[g][z] = left[g][z]
<1>1. pc' = [pc EXCEPT ![h][b] = step] /\ left' = left
  BY DEF Goto
<1> QED BY <1>1 DEF TypeOK

LEMMA MovesWith ==
  ASSUME TypeOK, NEW h \in Handler, NEW b \in Booking, NEW step \in Step, NEW slots \in SUBSET Slot,
         GotoWith(h, b, step, slots)
  PROVE  /\ pc' \in [Handler -> [Booking -> Step]] /\ left' \in [Handler -> [Booking -> SUBSET Slot]]
         /\ pc'[h][b] = step /\ left'[h][b] = slots
         /\ \A g \in Handler, z \in Booking : g # h \/ z # b => pc'[g][z] = pc[g][z] /\ left'[g][z] = left[g][z]
<1>1. pc' = [pc EXCEPT ![h][b] = step] /\ left' = [left EXCEPT ![h][b] = slots]
  BY DEF GotoWith
<1>2. pc' \in [Handler -> [Booking -> Step]] /\ pc'[h][b] = step
  BY <1>1 DEF TypeOK
<1>3. left' \in [Handler -> [Booking -> SUBSET Slot]] /\ left'[h][b] = slots
  BY <1>1 DEF TypeOK
<1>4. \A g \in Handler, z \in Booking : g # h \/ z # b => pc'[g][z] = pc[g][z] /\ left'[g][z] = left[g][z]
  BY <1>1 DEF TypeOK
<1> QED BY <1>2, <1>3, <1>4

LEMMA Writes ==
  ASSUME TypeOK, NEW b \in Booking, NEW status \in {"ACTIVE", "USED", "CANCELLED", "EXPIRED"}, SetStatus(b, status)
  PROVE  /\ booking' \in [Booking -> Row] /\ Status(b)' = status /\ early' \in SUBSET Booking
         /\ \A z \in Booking : z # b => booking'[z] = booking[z]
         /\ \A z \in Booking : Hours(z)' = Hours(z) /\ Expiry(z)' = Expiry(z)
         /\ early \subseteq early' /\ early' \subseteq early \cup {b}
         /\ b \in early' \ early => status \in {"USED", "CANCELLED"} /\ now < Expiry(b)
<1>1. /\ booking' = [booking EXCEPT ![b].status = status]
      /\ early' = IF status \in {"USED", "CANCELLED"} /\ now < Expiry(b) THEN early \cup {b} ELSE early
  BY DEF SetStatus
<1>2. booking' \in [Booking -> Row] /\ early' \in SUBSET Booking
  <2>1. booking' \in [Booking -> Row]
    <3>1. booking[b] \in Row => [booking[b] EXCEPT !.status = status] \in Row
      BY DEF Row
    <3> QED BY <1>1, <3>1 DEF TypeOK
  <2>2. early \in SUBSET Booking
    BY DEF TypeOK
  <2> QED BY <1>1, <2>1, <2>2
<1>3. \A z \in Booking : Hours(z)' = Hours(z) /\ Expiry(z)' = Expiry(z)
  BY <1>1 DEF TypeOK, Row, Hours, Expiry
<1>4. Status(b)' = status /\ \A z \in Booking : z # b => booking'[z] = booking[z]
  BY <1>1 DEF TypeOK, Row
<1> QED BY <1>1, <1>2, <1>3, <1>4

\* A slot is deleted by a handler of b that has it in hand.
LEMMA Deleted ==
  ASSUME SlotAssumption, TypeOK, NEW b \in Booking, NEW s \in Slot, DeleteFor(b, s)
  PROVE  /\ slot' \in [Slot -> Booking \cup {Nobody}] /\ wiped' \in SUBSET Booking
         /\ wiped \subseteq wiped' /\ \A t \in Slot : t # s => slot'[t] = slot[t]
         /\ \A z \in Booking : z # b /\ slot[s] = z => z \in wiped'
BY DEF SlotAssumption, TypeOK, DeleteFor, Delete

-----------------------------------------------------------------------------
\* createBooking

LEMMA CreateCheckStep ==
  ASSUME SlotAssumption, BookingAssumption, IInv, NEW b \in Booking, CreateCheck(b)
  PROVE  IInv'
<1> USE DEF IInv
<1>1. PICK r \in Request[b] :
        /\ At("create", b, "none") /\ Goto("create", b, "user")
        /\ booking' = [booking EXCEPT ![b] =
             [status |-> "NONE", user |-> r.user, start |-> r.start, duration |-> r.duration]]
        /\ UNCHANGED <<slot, now, jobs, start, reserved, money, early, history>>
  BY DEF CreateCheck
<1>2. /\ pc' \in [Handler -> [Booking -> Step]] /\ left' \in [Handler -> [Booking -> SUBSET Slot]]
      /\ pc'["create"][b] = "user"
      /\ \A g \in Handler, z \in Booking : g # "create" \/ z # b => pc'[g][z] = pc[g][z] /\ left'[g][z] = left[g][z]
  <2>1. "user" \in Step
    BY DEF Step
  <2> QED BY <1>1, <2>1, Moves
<1>3. /\ booking' \in [Booking -> Row] /\ Status(b)' = "NONE"
      /\ \A z \in Booking : z # b => booking'[z] = booking[z]
  BY <1>1 DEF BookingAssumption, TypeOK, Row
<1>4. /\ Status(b) = "NONE" /\ pc["expire"][b] = "none" /\ attempt[b] = 0
      /\ pc["cancel"][b] = "none" /\ charged[b] = 0 /\ b \notin early
  BY <1>1 DEF Progress, Begun, Penalised
<1>5. TypeOK'
  BY <1>1, <1>2, <1>3 DEF TypeOK
<1>6. Starting'
  BY <1>1, <1>3, <1>4 DEF Starting
<1>7. ASSUME NEW z \in Booking, z # b PROVE Progress(z)' /\ Deletes(z)' /\ Holds(z)' /\ Penalised(z)'
  <2>1. Hours(z)' = Hours(z) /\ Expiry(z)' = Expiry(z)
    BY <1>3, <1>7 DEF Hours, Expiry
  <2>2. Progress(z) /\ Deletes(z) /\ Holds(z) /\ Penalised(z)
    OBVIOUS
  <2>3. Progress(z)' /\ Deletes(z)'
    BY <1>1, <1>2, <1>3, <1>7, <2>2 DEF Progress, Deletes, Begun, Running
  <2>4. Holds(z)' /\ Penalised(z)'
    BY <1>1, <1>2, <1>3, <1>7, <2>1, <2>2 DEF Holds, Penalised, Reserved, Running
  <2> QED BY <2>3, <2>4
<1>8. Progress(b)' /\ Deletes(b)' /\ Holds(b)' /\ Penalised(b)'
  BY <1>1, <1>2, <1>3, <1>4 DEF Progress, Begun, Running, Deletes, Holds, Penalised
<1> QED BY <1>5, <1>6, <1>7, <1>8

LEMMA CreateUserStep ==
  ASSUME SlotAssumption, BookingAssumption, IInv, NEW b \in Booking, CreateUser(b)
  PROVE  IInv'
<1> USE DEF SlotAssumption, BookingAssumption, IInv, CreateUser, Goto
<1>1. TypeOK'
  BY DEF TypeOK, Step, Row
<1>5. Starting'
  BY DEF TypeOK, Starting, Row
<1>2. ASSUME NEW z \in Booking PROVE Progress(z)' /\ Deletes(z)'
  BY DEF Progress, Deletes, Begun, Running, Starting, TypeOK, Row
<1>3. ASSUME NEW z \in Booking PROVE Holds(z)'
  BY DEF Holds, Hours, Expiry, Reserved, Progress, TypeOK, Row
<1>4. ASSUME NEW z \in Booking PROVE Penalised(z)'
  BY DEF Penalised, Expiry, Running, Progress, Begun, Starting, TypeOK, Row
<1> QED BY <1>1, <1>2, <1>3, <1>4, <1>5

LEMMA CreateRowStep ==
  ASSUME SlotAssumption, BookingAssumption, IInv, NEW b \in Booking, CreateRow(b)
  PROVE  IInv'
<1> USE DEF IInv
<1>1. /\ At("create", b, "row") /\ SetStatus(b, "ACTIVE")
      /\ Goto("create", b, "reserve")
      /\ UNCHANGED <<slot, now, jobs, start, reserved, money, history>>
  BY DEF CreateRow
<1>2. /\ pc' \in [Handler -> [Booking -> Step]] /\ left' \in [Handler -> [Booking -> SUBSET Slot]]
      /\ pc'["create"][b] = "reserve"
      /\ \A g \in Handler, z \in Booking : g # "create" \/ z # b => pc'[g][z] = pc[g][z] /\ left'[g][z] = left[g][z]
  <2>1. "reserve" \in Step
    BY DEF Step
  <2> QED BY <1>1, <2>1, Moves
<1>3. /\ booking' \in [Booking -> Row] /\ Status(b)' = "ACTIVE" /\ early' \in SUBSET Booking
      /\ \A z \in Booking : z # b => booking'[z] = booking[z]
      /\ \A z \in Booking : Hours(z)' = Hours(z) /\ Expiry(z)' = Expiry(z)
      /\ early \subseteq early' /\ early' \subseteq early \cup {b}
      /\ b \in early' \ early => "ACTIVE" \in {"USED", "CANCELLED"} /\ now < Expiry(b)
  BY <1>1, Writes
<1>4. TypeOK'
  BY <1>1, <1>2, <1>3 DEF TypeOK
<1>5. Starting'
  BY <1>1, <1>3 DEF Starting
<1>6. ASSUME NEW z \in Booking, z # b PROVE Progress(z)' /\ Deletes(z)' /\ Holds(z)' /\ Penalised(z)'
  <2>1. Progress(z) /\ Deletes(z) /\ Holds(z) /\ Penalised(z)
    OBVIOUS
  <2>2. Progress(z)' /\ Deletes(z)'
    BY <1>1, <1>2, <1>3, <1>6, <2>1 DEF Progress, Deletes, Begun, Running
  <2>3. Holds(z)' /\ Penalised(z)'
    BY <1>1, <1>2, <1>3, <1>6, <2>1 DEF Holds, Penalised, Reserved, Running
  <2> QED BY <2>2, <2>3
<1>7. Progress(b)' /\ Deletes(b)' /\ Holds(b)' /\ Penalised(b)'
  <2>1. Progress(b) /\ Deletes(b) /\ Penalised(b) /\ now \in Int /\ Expiry(b) \in Int /\ charged[b] \in Nat
    BY DEF TypeOK, Row, Expiry, BookingAssumption
  <2>2. Progress(b)' /\ Deletes(b)' /\ Holds(b)'
    BY <1>1, <1>2, <1>3, <2>1 DEF Progress, Begun, Running, Deletes, Holds, Reserved
  <2>3. Penalised(b)'
    BY <1>1, <1>2, <1>3, <2>1 DEF Progress, Begun, Running, Penalised
  <2> QED BY <2>2, <2>3
<1> QED BY <1>4, <1>5, <1>6, <1>7

LEMMA CreateReserveStep ==
  ASSUME SlotAssumption, BookingAssumption, IInv, NEW b \in Booking, CreateReserve(b)
  PROVE  IInv'
<1> USE DEF IInv
<1>1. /\ At("create", b, "reserve") /\ TakeFree(b, Hours(b))
      /\ UNCHANGED <<now, booking, jobs, start, reserved, money, early, history>>
      /\ \/ FreeSlots(Hours(b)) = Hours(b) /\ Goto("create", b, "ocpp")
         \/ FreeSlots(Hours(b)) # Hours(b) /\ GotoWith("create", b, "rollback", Hours(b))
  BY DEF CreateReserve
<1>2. Hours(b) \in SUBSET Slot /\ FreeSlots(Hours(b)) \subseteq Hours(b)
  BY DEF Hours, SlotsOf, FreeSlots
<1>3. /\ slot' \in [Slot -> Booking \cup {Nobody}]
      /\ \A t \in Slot : slot'[t] = IF t \in FreeSlots(Hours(b)) THEN b ELSE slot[t]
      /\ \A t \in FreeSlots(Hours(b)) : slot[t] = Nobody
  BY <1>1 DEF TakeFree, TypeOK, FreeSlots
<1>4. /\ pc' \in [Handler -> [Booking -> Step]] /\ left' \in [Handler -> [Booking -> SUBSET Slot]]
      /\ \A g \in Handler, z \in Booking : g # "create" \/ z # b => pc'[g][z] = pc[g][z] /\ left'[g][z] = left[g][z]
      /\ \/ FreeSlots(Hours(b)) = Hours(b) /\ pc'["create"][b] = "ocpp"
         \/ FreeSlots(Hours(b)) # Hours(b) /\ pc'["create"][b] = "rollback" /\ left'["create"][b] = Hours(b)
  <2>1. "ocpp" \in Step /\ "rollback" \in Step
    BY DEF Step
  <2>2. CASE FreeSlots(Hours(b)) = Hours(b)
    BY <1>1, <2>1, <2>2, Moves
  <2>3. CASE FreeSlots(Hours(b)) # Hours(b)
    BY <1>1, <1>2, <2>1, <2>3, MovesWith
  <2> QED BY <2>2, <2>3
<1>5. TypeOK' /\ Starting'
  BY <1>1, <1>3, <1>4 DEF TypeOK, Starting
<1>6. ASSUME NEW z \in Booking PROVE Progress(z)' /\ Deletes(z)' /\ Penalised(z)'
  <2>1. Progress(z) /\ Deletes(z) /\ Penalised(z)
    OBVIOUS
  <2>2. Progress(z)'
    BY <1>1, <1>4, <2>1 DEF Progress, Begun, Running
  <2>3. Deletes(z)'
    <3>1. FreeSlots(Hours(b)) # Hours(b) => Hours(b) # {}
      BY <1>2
    <3>2. pc'["create"][b] = "rollback" => left'["create"][b] # {}
      BY <1>4, <3>1
    <3> QED BY <1>4, <2>1, <3>2 DEF Deletes
  <2>4. Penalised(z)'
    BY <1>1, <1>4, <2>1 DEF Penalised, Running, Expiry
  <2> QED BY <2>2, <2>3, <2>4
<1>7. ASSUME NEW z \in Booking PROVE Holds(z)'
  <2>1. Holds(z) /\ z # Nobody /\ Hours(z) \subseteq Slot /\ Hours(z)' = Hours(z) /\ Expiry(z)' = Expiry(z)
    BY <1>1 DEF SlotAssumption, Hours, SlotsOf, Expiry
  <2>2. UNCHANGED <<booking, now, wiped>>
    BY <1>1
  <2>3. CASE z = b
    <3>1. FreeSlots(Hours(b)) = Hours(b) => \A t \in Hours(b) : slot'[t] = b
      BY <1>2, <1>3
    <3>2. Reserved(b)' => FreeSlots(Hours(b)) = Hours(b)
      BY <1>4 DEF Reserved
    <3> QED BY <2>1, <2>2, <2>3, <3>1, <3>2 DEF Holds
  <2>4. CASE z # b
    <3>1. Reserved(z)' => Reserved(z)
      BY <1>4, <2>4 DEF Reserved
    <3>2. ASSUME NEW t \in Slot, slot[t] = z PROVE slot'[t] = z
      BY <1>3, <2>1, <3>2
    <3> QED BY <2>1, <2>2, <3>1, <3>2 DEF Holds
  <2> QED BY <2>3, <2>4
<1> QED BY <1>5, <1>6, <1>7

LEMMA CreateRollbackStep ==
  ASSUME SlotAssumption, BookingAssumption, IInv, NEW b \in Booking, CreateRollback(b)
  PROVE  IInv'
<1> USE DEF IInv
<1>1. PICK s, rest :
        /\ s = NextSlot("create", b) /\ rest = left["create"][b] \ {s}
        /\ At("create", b, "rollback") /\ DeleteFor(b, s)
        /\ GotoWith("create", b, IF rest = {} THEN "undo" ELSE "rollback", rest)
        /\ UNCHANGED <<now, booking, jobs, start, reserved, money, early>>
  BY DEF CreateRollback
<1>2. s \in Slot /\ rest \in SUBSET Slot
  BY <1>1, NextSlotIsOne DEF Deletes, TypeOK
<1>3. /\ slot' \in [Slot -> Booking \cup {Nobody}] /\ wiped' \in SUBSET Booking
      /\ wiped \subseteq wiped' /\ \A t \in Slot : t # s => slot'[t] = slot[t]
      /\ \A z \in Booking : z # b /\ slot[s] = z => z \in wiped'
  <2>1. s \in Slot /\ DeleteFor(b, s) /\ TypeOK
    BY <1>1, <1>2
  <2> QED BY <2>1, Deleted
<1>4. PICK step \in {"undo", "rollback"} : GotoWith("create", b, step, rest) /\ (rest = {} => step = "undo")
  BY <1>1
<1>5. /\ pc' \in [Handler -> [Booking -> Step]] /\ left' \in [Handler -> [Booking -> SUBSET Slot]]
      /\ pc'["create"][b] = step /\ left'["create"][b] = rest
      /\ \A g \in Handler, z \in Booking : g # "create" \/ z # b => pc'[g][z] = pc[g][z] /\ left'[g][z] = left[g][z]
  <2>1. step \in Step
    BY DEF Step
  <2> QED BY <1>2, <1>4, <2>1, MovesWith
<1>6. TypeOK' /\ Starting'
  BY <1>1, <1>3, <1>5 DEF TypeOK, Starting, DeleteFor
<1>7. ASSUME NEW z \in Booking PROVE Progress(z)' /\ Deletes(z)' /\ Penalised(z)'
  <2>1. Progress(z) /\ Deletes(z) /\ Penalised(z)
    OBVIOUS
  <2>2. Progress(z)'
    BY <1>1, <1>5, <2>1 DEF Progress, Begun, Running
  <2>3. Deletes(z)'
    BY <1>4, <1>5, <2>1 DEF Deletes
  <2>4. Penalised(z)'
    BY <1>1, <1>5, <2>1 DEF Penalised, Running, Expiry
  <2> QED BY <2>2, <2>3, <2>4
<1>8. ASSUME NEW z \in Booking PROVE Holds(z)'
  <2>1. Holds(z) /\ Hours(z) \subseteq Slot /\ Hours(z)' = Hours(z) /\ Expiry(z)' = Expiry(z)
    BY <1>1 DEF Hours, SlotsOf, Expiry
  <2>2. CASE z = b
    BY <1>5, <2>2 DEF Holds, Reserved
  <2>3. CASE z # b
    <3>1. Reserved(z)' => Reserved(z)
      BY <1>5, <2>3 DEF Reserved
    <3>2. ASSUME z \notin wiped', NEW t \in Slot, slot[t] = z PROVE slot'[t] = z
      BY <1>3, <2>3, <3>2
    <3>3. UNCHANGED <<booking, now>> /\ wiped \subseteq wiped'
      BY <1>1, <1>3
    <3> QED BY <2>1, <3>1, <3>2, <3>3 DEF Holds
  <2> QED BY <2>2, <2>3
<1> QED BY <1>6, <1>7, <1>8

LEMMA CreateUndoStep ==
  ASSUME SlotAssumption, BookingAssumption, IInv, NEW b \in Booking, CreateUndo(b)
  PROVE  IInv'
<1> USE DEF IInv
<1>1. /\ At("create", b, "undo") /\ SetStatus(b, "CANCELLED")
      /\ Goto("create", b, "failed")
      /\ UNCHANGED <<slot, now, jobs, start, reserved, money, history>>
  BY DEF CreateUndo
<1>2. /\ pc' \in [Handler -> [Booking -> Step]] /\ left' \in [Handler -> [Booking -> SUBSET Slot]]
      /\ pc'["create"][b] = "failed"
      /\ \A g \in Handler, z \in Booking : g # "create" \/ z # b => pc'[g][z] = pc[g][z] /\ left'[g][z] = left[g][z]
  <2>1. "failed" \in Step
    BY DEF Step
  <2> QED BY <1>1, <2>1, Moves
<1>3. /\ booking' \in [Booking -> Row] /\ Status(b)' = "CANCELLED" /\ early' \in SUBSET Booking
      /\ \A z \in Booking : z # b => booking'[z] = booking[z]
      /\ \A z \in Booking : Hours(z)' = Hours(z) /\ Expiry(z)' = Expiry(z)
      /\ early \subseteq early' /\ early' \subseteq early \cup {b}
      /\ b \in early' \ early => "CANCELLED" \in {"USED", "CANCELLED"} /\ now < Expiry(b)
  BY <1>1, Writes
<1>4. TypeOK'
  BY <1>1, <1>2, <1>3 DEF TypeOK
<1>5. Starting'
  BY <1>1, <1>3 DEF Starting
<1>6. ASSUME NEW z \in Booking, z # b PROVE Progress(z)' /\ Deletes(z)' /\ Holds(z)' /\ Penalised(z)'
  <2>1. Progress(z) /\ Deletes(z) /\ Holds(z) /\ Penalised(z)
    OBVIOUS
  <2>2. Progress(z)' /\ Deletes(z)'
    BY <1>1, <1>2, <1>3, <1>6, <2>1 DEF Progress, Deletes, Begun, Running
  <2>3. Holds(z)' /\ Penalised(z)'
    BY <1>1, <1>2, <1>3, <1>6, <2>1 DEF Holds, Penalised, Reserved, Running
  <2> QED BY <2>2, <2>3
<1>7. Progress(b)' /\ Deletes(b)' /\ Holds(b)' /\ Penalised(b)'
  <2>1. Progress(b) /\ Deletes(b) /\ Penalised(b) /\ now \in Int /\ Expiry(b) \in Int /\ charged[b] \in Nat
    BY DEF TypeOK, Row, Expiry, BookingAssumption
  <2>2. Progress(b)' /\ Deletes(b)' /\ Holds(b)'
    BY <1>1, <1>2, <1>3, <2>1 DEF Progress, Begun, Running, Deletes, Holds, Reserved
  <2>3. Penalised(b)'
    BY <1>1, <1>2, <1>3, <2>1 DEF Progress, Begun, Running, Penalised
  <2> QED BY <2>2, <2>3
<1> QED BY <1>4, <1>5, <1>6, <1>7

LEMMA CreateOcppStep ==
  ASSUME SlotAssumption, BookingAssumption, IInv, NEW b \in Booking, CreateOcpp(b)
  PROVE  IInv'
<1> USE DEF IInv
<1>1. PICK step \in {"jobs", "jobsLater"} :
        /\ At("create", b, "ocpp") /\ Goto("create", b, step)
        /\ UNCHANGED <<slot, now, booking, attempt, start, money, early, wiped>>
  BY DEF CreateOcpp
<1>2. /\ pc' \in [Handler -> [Booking -> Step]] /\ left' \in [Handler -> [Booking -> SUBSET Slot]]
      /\ pc'["create"][b] = step
      /\ \A g \in Handler, z \in Booking : g # "create" \/ z # b => pc'[g][z] = pc[g][z] /\ left'[g][z] = left[g][z]
  <2>1. step \in Step
    BY DEF Step
  <2> QED BY <1>1, <2>1, Moves
<1>3. TypeOK'
  <2>1. faults' \in 0..MaxFaults
    BY DEF CreateOcpp, ReserveNow, Fault, TypeOK, BookingAssumption
  <2>2. reserved' \subseteq Booking /\ missed' \subseteq Booking /\ UNCHANGED disturbed
    BY DEF CreateOcpp, ReserveNow, TypeOK
  <2> QED BY <1>1, <1>2, <2>1, <2>2 DEF TypeOK
<1>4. Starting'
  BY <1>1 DEF Starting
<1>5. ASSUME NEW z \in Booking PROVE Progress(z)' /\ Deletes(z)' /\ Holds(z)' /\ Penalised(z)'
  <2>1. Progress(z) /\ Deletes(z) /\ Holds(z) /\ Penalised(z)
    OBVIOUS
  <2>2. Progress(z)' /\ Deletes(z)'
    BY <1>1, <1>2, <2>1 DEF Progress, Begun, Running, Deletes
  <2>3. Holds(z)'
    BY <1>1, <1>2, <2>1 DEF Holds, Reserved, Hours, Expiry
  <2>4. Penalised(z)'
    BY <1>1, <1>2, <2>1 DEF Penalised, Running, Expiry
  <2> QED BY <2>2, <2>3, <2>4
<1> QED BY <1>3, <1>4, <1>5

LEMMA CreateJobStep ==
  ASSUME SlotAssumption, BookingAssumption, IInv, NEW b \in Booking, CreateJob(b)
  PROVE  IInv'
<1> USE DEF IInv
<1>1. PICK job \in {"none", "delayed"}, to \in {"done", "later"} :
        /\ pc["create"][b] \in {"jobs", "jobsLater"} /\ Queued(job)
        /\ pc' = [pc EXCEPT !["create"][b] = to, !["expire"][b] = job]
        /\ UNCHANGED <<slot, now, booking, left, attempt, start, reserved, money, early, history>>
  BY DEF CreateJob
<1>2. /\ pc' \in [Handler -> [Booking -> Step]]
      /\ pc'["create"][b] = to /\ pc'["expire"][b] = job
      /\ \A g \in Handler, z \in Booking : g \notin {"create", "expire"} \/ z # b => pc'[g][z] = pc[g][z]
  BY <1>1 DEF TypeOK, Step
<1>3. TypeOK'
  <2>1. faults' \in 0..MaxFaults
    BY <1>1 DEF Queued, Fault, TypeOK, BookingAssumption
  <2> QED BY <1>1, <1>2, <2>1 DEF TypeOK
<1>4. Starting'
  BY <1>1 DEF Starting
<1>5. ASSUME NEW z \in Booking PROVE Progress(z)' /\ Deletes(z)' /\ Holds(z)' /\ Penalised(z)'
  <2>1. Progress(z) /\ Deletes(z) /\ Holds(z) /\ Penalised(z)
    OBVIOUS
  <2>2. Progress(z)'
    BY <1>1, <1>2, <2>1 DEF Progress, Begun, Running, BookingAssumption
  <2>3. Deletes(z)'
    BY <1>1, <1>2, <2>1 DEF Deletes
  <2>4. Holds(z)'
    BY <1>1, <1>2, <2>1 DEF Holds, Reserved, Hours, Expiry
  <2>5. Penalised(z)'
    BY <1>1, <1>2, <2>1 DEF Penalised, Progress, Running, Expiry
  <2> QED BY <2>2, <2>3, <2>4, <2>5
<1> QED BY <1>3, <1>4, <1>5

LEMMA CreateLaterStep ==
  ASSUME SlotAssumption, BookingAssumption, IInv, NEW b \in Booking, CreateLater(b)
  PROVE  IInv'
<1> USE DEF IInv
<1>1. PICK job \in {"none", "delayed"}, to \in {"done"} :
        /\ pc["create"][b] \in {"later"} /\ Queued(job)
        /\ pc' = [pc EXCEPT !["create"][b] = to, !["send"][b] = job]
        /\ UNCHANGED <<slot, now, booking, left, attempt, start, reserved, money, early, history>>
  BY DEF CreateLater
<1>2. /\ pc' \in [Handler -> [Booking -> Step]]
      /\ pc'["create"][b] = to /\ pc'["send"][b] = job
      /\ \A g \in Handler, z \in Booking : g \notin {"create", "send"} \/ z # b => pc'[g][z] = pc[g][z]
  BY <1>1 DEF TypeOK, Step
<1>3. TypeOK'
  <2>1. faults' \in 0..MaxFaults
    BY <1>1 DEF Queued, Fault, TypeOK, BookingAssumption
  <2> QED BY <1>1, <1>2, <2>1 DEF TypeOK
<1>4. Starting'
  BY <1>1 DEF Starting
<1>5. ASSUME NEW z \in Booking PROVE Progress(z)' /\ Deletes(z)' /\ Holds(z)' /\ Penalised(z)'
  <2>1. Progress(z) /\ Deletes(z) /\ Holds(z) /\ Penalised(z)
    OBVIOUS
  <2>2. Progress(z)'
    BY <1>1, <1>2, <2>1 DEF Progress, Begun, Running, BookingAssumption
  <2>3. Deletes(z)'
    BY <1>1, <1>2, <2>1 DEF Deletes
  <2>4. Holds(z)'
    BY <1>1, <1>2, <2>1 DEF Holds, Reserved, Hours, Expiry
  <2>5. Penalised(z)'
    BY <1>1, <1>2, <2>1 DEF Penalised, Progress, Running, Expiry
  <2> QED BY <2>2, <2>3, <2>4, <2>5
<1> QED BY <1>3, <1>4, <1>5

-----------------------------------------------------------------------------
\* Cancelling and expiring

LEMMA CancelReadStep ==
  ASSUME SlotAssumption, BookingAssumption, IInv, NEW b \in Booking, CancelRead(b)
  PROVE  IInv'
<1> USE DEF SlotAssumption, BookingAssumption, IInv, CancelRead, Goto
<1>1. TypeOK'
  BY DEF TypeOK, Step, Row
<1>5. Starting'
  BY DEF TypeOK, Starting, Row
<1>2. ASSUME NEW z \in Booking PROVE Progress(z)' /\ Deletes(z)'
  BY DEF Progress, Deletes, Begun, Running, Starting, TypeOK, Row
<1>3. ASSUME NEW z \in Booking PROVE Holds(z)'
  BY DEF Holds, Hours, Expiry, Reserved, Progress, TypeOK, Row
<1>4. ASSUME NEW z \in Booking PROVE Penalised(z)'
  BY DEF Penalised, Expiry, Running, Progress, Begun, Starting, TypeOK, Row
<1> QED BY <1>1, <1>2, <1>3, <1>4, <1>5

LEMMA CancelWriteStep ==
  ASSUME SlotAssumption, BookingAssumption, IInv, NEW b \in Booking, CancelWrite(b)
  PROVE  IInv'
<1> USE DEF IInv
<1>1. /\ At("cancel", b, "write") /\ SetStatus(b, "CANCELLED")
      /\ GotoWith("cancel", b, "get", FirstHour(b))
      /\ UNCHANGED <<slot, now, jobs, start, reserved, money, history>>
  BY DEF CancelWrite
<1>2. /\ pc' \in [Handler -> [Booking -> Step]] /\ left' \in [Handler -> [Booking -> SUBSET Slot]]
      /\ pc'["cancel"][b] = "get"
      /\ \A g \in Handler, z \in Booking : g # "cancel" \/ z # b => pc'[g][z] = pc[g][z] /\ left'[g][z] = left[g][z]
  <2>1. "get" \in Step
    BY DEF Step
  <2>2. FirstHour(b) \in SUBSET Slot
    BY DEF FirstHour, SlotsOf
  <2> QED BY <1>1, <2>1, <2>2, MovesWith
<1>3. /\ booking' \in [Booking -> Row] /\ Status(b)' = "CANCELLED" /\ early' \in SUBSET Booking
      /\ \A z \in Booking : z # b => booking'[z] = booking[z]
      /\ \A z \in Booking : Hours(z)' = Hours(z) /\ Expiry(z)' = Expiry(z)
      /\ early \subseteq early' /\ early' \subseteq early \cup {b}
      /\ b \in early' \ early => "CANCELLED" \in {"USED", "CANCELLED"} /\ now < Expiry(b)
  BY <1>1, Writes
<1>4. TypeOK'
  BY <1>1, <1>2, <1>3 DEF TypeOK
<1>5. Starting'
  BY <1>1, <1>3 DEF Starting
<1>6. ASSUME NEW z \in Booking, z # b PROVE Progress(z)' /\ Deletes(z)' /\ Holds(z)' /\ Penalised(z)'
  <2>1. Progress(z) /\ Deletes(z) /\ Holds(z) /\ Penalised(z)
    OBVIOUS
  <2>2. Progress(z)' /\ Deletes(z)'
    BY <1>1, <1>2, <1>3, <1>6, <2>1 DEF Progress, Deletes, Begun, Running
  <2>3. Holds(z)' /\ Penalised(z)'
    BY <1>1, <1>2, <1>3, <1>6, <2>1 DEF Holds, Penalised, Reserved, Running
  <2> QED BY <2>2, <2>3
<1>7. Progress(b)' /\ Deletes(b)' /\ Holds(b)' /\ Penalised(b)'
  <2>1. Progress(b) /\ Deletes(b) /\ Penalised(b) /\ now \in Int /\ Expiry(b) \in Int /\ charged[b] \in Nat
    BY DEF TypeOK, Row, Expiry, BookingAssumption
  <2>2. Progress(b)' /\ Deletes(b)' /\ Holds(b)'
    BY <1>1, <1>2, <1>3, <2>1 DEF Progress, Begun, Running, Deletes, Holds, Reserved
  <2>3. Penalised(b)'
    BY <1>1, <1>2, <1>3, <2>1 DEF Progress, Begun, Running, Penalised
  <2> QED BY <2>2, <2>3
<1> QED BY <1>4, <1>5, <1>6, <1>7

LEMMA ExpireReadStep ==
  ASSUME SlotAssumption, BookingAssumption, IInv, NEW b \in Booking, ExpireRead(b)
  PROVE  IInv'
<1> USE DEF SlotAssumption, BookingAssumption, IInv, ExpireRead, Goto
<1>1. TypeOK'
  BY DEF TypeOK, Step, Row
<1>5. Starting'
  BY DEF TypeOK, Starting, Row
<1>2. ASSUME NEW z \in Booking PROVE Progress(z)' /\ Deletes(z)'
  BY DEF Progress, Deletes, Begun, Running, Starting, TypeOK, Row
<1>3. ASSUME NEW z \in Booking PROVE Holds(z)'
  BY DEF Holds, Hours, Expiry, Reserved, Progress, TypeOK, Row
<1>4. ASSUME NEW z \in Booking PROVE Penalised(z)'
  BY DEF Penalised, Expiry, Running, Progress, Begun, Starting, TypeOK, Row
<1> QED BY <1>1, <1>2, <1>3, <1>4, <1>5

LEMMA ExpireWriteStep ==
  ASSUME SlotAssumption, BookingAssumption, IInv, NEW b \in Booking, ExpireWrite(b)
  PROVE  IInv'
<1> USE DEF IInv
<1>1. /\ At("expire", b, "write") /\ SetStatus(b, "EXPIRED")
      /\ GotoWith("expire", b, "get", FirstHour(b))
      /\ UNCHANGED <<slot, now, jobs, start, reserved, money, history>>
  BY DEF ExpireWrite
<1>2. /\ pc' \in [Handler -> [Booking -> Step]] /\ left' \in [Handler -> [Booking -> SUBSET Slot]]
      /\ pc'["expire"][b] = "get"
      /\ \A g \in Handler, z \in Booking : g # "expire" \/ z # b => pc'[g][z] = pc[g][z] /\ left'[g][z] = left[g][z]
  <2>1. "get" \in Step
    BY DEF Step
  <2>2. FirstHour(b) \in SUBSET Slot
    BY DEF FirstHour, SlotsOf
  <2> QED BY <1>1, <2>1, <2>2, MovesWith
<1>3. /\ booking' \in [Booking -> Row] /\ Status(b)' = "EXPIRED" /\ early' \in SUBSET Booking
      /\ \A z \in Booking : z # b => booking'[z] = booking[z]
      /\ \A z \in Booking : Hours(z)' = Hours(z) /\ Expiry(z)' = Expiry(z)
      /\ early \subseteq early' /\ early' \subseteq early \cup {b}
      /\ b \in early' \ early => "EXPIRED" \in {"USED", "CANCELLED"} /\ now < Expiry(b)
  BY <1>1, Writes
<1>4. TypeOK'
  BY <1>1, <1>2, <1>3 DEF TypeOK
<1>5. Starting'
  BY <1>1, <1>3 DEF Starting
<1>6. ASSUME NEW z \in Booking, z # b PROVE Progress(z)' /\ Deletes(z)' /\ Holds(z)' /\ Penalised(z)'
  <2>1. Progress(z) /\ Deletes(z) /\ Holds(z) /\ Penalised(z)
    OBVIOUS
  <2>2. Progress(z)' /\ Deletes(z)'
    BY <1>1, <1>2, <1>3, <1>6, <2>1 DEF Progress, Deletes, Begun, Running
  <2>3. Holds(z)' /\ Penalised(z)'
    BY <1>1, <1>2, <1>3, <1>6, <2>1 DEF Holds, Penalised, Reserved, Running
  <2> QED BY <2>2, <2>3
<1>7. Progress(b)' /\ Deletes(b)' /\ Holds(b)' /\ Penalised(b)'
  <2>1. Progress(b) /\ Deletes(b) /\ Penalised(b) /\ now \in Int /\ Expiry(b) \in Int /\ charged[b] \in Nat
    BY DEF TypeOK, Row, Expiry, BookingAssumption
  <2>2. Progress(b)' /\ Deletes(b)' /\ Holds(b)'
    BY <1>1, <1>2, <1>3, <2>1 DEF Progress, Begun, Running, Deletes, Holds, Reserved
  <2>3. Penalised(b)'
    BY <1>1, <1>2, <1>3, <2>1 DEF Progress, Begun, Running, Penalised
  <2> QED BY <2>2, <2>3
<1> QED BY <1>4, <1>5, <1>6, <1>7

LEMMA ReleaseGetStep ==
  ASSUME SlotAssumption, BookingAssumption, IInv, NEW b \in Booking, NEW h \in {"cancel", "expire"}, ReleaseGet(h, b)
  PROVE  IInv'
<1> USE DEF IInv
<1>1. /\ pc[h][b] = "get"
      /\ UNCHANGED <<slot, now, booking, jobs, start, reserved, money, early, history>>
  BY DEF ReleaseGet
<1>2. PICK step \in {"withdraw", "del", "get"} :
        /\ Goto(h, b, step) \/ GotoWith(h, b, step, left[h][b] \ {NextSlot(h, b)})
        /\ step = "del" => Goto(h, b, step) /\ left[h][b] # {}
  BY DEF ReleaseGet
<1>3. /\ pc' \in [Handler -> [Booking -> Step]] /\ left' \in [Handler -> [Booking -> SUBSET Slot]]
      /\ pc'[h][b] = step
      /\ \A g \in Handler, z \in Booking : g # h \/ z # b => pc'[g][z] = pc[g][z] /\ left'[g][z] = left[g][z]
  <2>1. left[h][b] \ {NextSlot(h, b)} \in SUBSET Slot
    BY DEF TypeOK
  <2>2. step \in Step
    BY DEF Step
  <2> QED BY <1>2, <2>1, <2>2, Moves, MovesWith
<1>4. step = "del" => left'[h][b] # {}
  BY <1>2 DEF Goto
<1>5. TypeOK' /\ Starting'
  BY <1>1, <1>3 DEF TypeOK, Starting
<1>6. ASSUME NEW z \in Booking PROVE Progress(z)' /\ Deletes(z)' /\ Holds(z)' /\ Penalised(z)'
  <2>1. Progress(z) /\ Deletes(z) /\ Holds(z) /\ Penalised(z)
    OBVIOUS
  <2>2. Progress(z)'
    BY <1>1, <1>3, <2>1 DEF Progress, Begun, Running
  <2>3. Deletes(z)'
    BY <1>3, <1>4, <2>1 DEF Deletes
  <2>4. Holds(z)'
    BY <1>1, <1>3, <2>1 DEF Holds, Reserved, Hours, Expiry
  <2>5. Penalised(z)'
    BY <1>1, <1>3, <2>1 DEF Penalised, Running, Expiry
  <2> QED BY <2>2, <2>3, <2>4, <2>5
<1> QED BY <1>5, <1>6

LEMMA ReleaseDelStep ==
  ASSUME SlotAssumption, BookingAssumption, IInv, NEW b \in Booking, NEW h \in {"cancel", "expire"}, ReleaseDel(h, b)
  PROVE  IInv'
<1> USE DEF IInv
<1>1. PICK s, rest :
        /\ s = NextSlot(h, b) /\ rest = left[h][b] \ {s}
        /\ pc[h][b] = "del" /\ DeleteFor(b, s) /\ GotoWith(h, b, "get", rest)
        /\ UNCHANGED <<now, booking, jobs, start, reserved, money, early>>
  BY DEF ReleaseDel
<1>2. s \in Slot /\ rest \in SUBSET Slot
  <2>1. left[h][b] # {} /\ left[h][b] \subseteq Slot
    BY <1>1 DEF Deletes, TypeOK
  <2> QED BY <1>1, <2>1, NextSlotIsOne
<1>3. /\ slot' \in [Slot -> Booking \cup {Nobody}] /\ wiped' \in SUBSET Booking
      /\ wiped \subseteq wiped' /\ \A t \in Slot : t # s => slot'[t] = slot[t]
      /\ \A z \in Booking : z # b /\ slot[s] = z => z \in wiped'
  <2>1. s \in Slot /\ DeleteFor(b, s) /\ TypeOK
    BY <1>1, <1>2
  <2> QED BY <2>1, Deleted
<1>4. /\ pc' \in [Handler -> [Booking -> Step]] /\ left' \in [Handler -> [Booking -> SUBSET Slot]]
      /\ pc'[h][b] = "get"
      /\ \A g \in Handler, z \in Booking : g # h \/ z # b => pc'[g][z] = pc[g][z] /\ left'[g][z] = left[g][z]
  <2>1. "get" \in Step
    BY DEF Step
  <2> QED BY <1>1, <1>2, <2>1, MovesWith
<1>5. TypeOK' /\ Starting'
  BY <1>1, <1>3, <1>4 DEF TypeOK, Starting, DeleteFor
<1>6. ASSUME NEW z \in Booking PROVE Progress(z)' /\ Deletes(z)' /\ Penalised(z)'
  <2>1. Progress(z) /\ Deletes(z) /\ Penalised(z)
    OBVIOUS
  <2>2. Progress(z)'
    BY <1>1, <1>4, <2>1 DEF Progress, Begun, Running
  <2>3. Deletes(z)'
    BY <1>4, <2>1 DEF Deletes
  <2>4. Penalised(z)'
    BY <1>1, <1>4, <2>1 DEF Penalised, Running, Expiry
  <2> QED BY <2>2, <2>3, <2>4
<1>7. ASSUME NEW z \in Booking PROVE Holds(z)'
  <2>1. Holds(z) /\ Hours(z) \subseteq Slot /\ Hours(z)' = Hours(z) /\ Expiry(z)' = Expiry(z)
    BY <1>1 DEF Hours, SlotsOf, Expiry
  <2>2. CASE z = b
    <3>1. Status(b) # "ACTIVE" /\ UNCHANGED booking
      BY <1>1 DEF Progress
    <3> QED BY <2>2, <3>1 DEF Holds
  <2>3. CASE z # b
    <3>1. Reserved(z)' => Reserved(z)
      BY <1>4, <2>3 DEF Reserved
    <3>2. ASSUME z \notin wiped', NEW t \in Slot, slot[t] = z PROVE slot'[t] = z
      BY <1>3, <2>3, <3>2
    <3>3. UNCHANGED <<booking, now>> /\ wiped \subseteq wiped'
      BY <1>1, <1>3
    <3> QED BY <2>1, <3>1, <3>2, <3>3 DEF Holds
  <2> QED BY <2>2, <2>3
<1> QED BY <1>5, <1>6, <1>7

LEMMA WithdrawStep ==
  ASSUME SlotAssumption, BookingAssumption, IInv, NEW b \in Booking, NEW h \in {"cancel", "expire"}, Withdraw(h, b)
  PROVE  IInv'
<1> USE DEF SlotAssumption, BookingAssumption, IInv, Withdraw, Goto, Fault
<1>1. TypeOK'
  BY DEF TypeOK, Step, Row
<1>5. Starting'
  BY DEF TypeOK, Starting, Row
<1>2. ASSUME NEW z \in Booking PROVE Progress(z)' /\ Deletes(z)'
  BY DEF Progress, Deletes, Begun, Running, Starting, TypeOK, Row
<1>3. ASSUME NEW z \in Booking PROVE Holds(z)'
  BY DEF Holds, Hours, Expiry, Reserved, Progress, TypeOK, Row
<1>4. ASSUME NEW z \in Booking PROVE Penalised(z)'
  BY DEF Penalised, Expiry, Running, Progress, Begun, Starting, TypeOK, Row
<1> QED BY <1>1, <1>2, <1>3, <1>4, <1>5

LEMMA PenaltyCheckStep ==
  ASSUME SlotAssumption, BookingAssumption, IInv, NEW b \in Booking, PenaltyCheck(b)
  PROVE  IInv'
<1> USE DEF SlotAssumption, BookingAssumption, IInv, PenaltyCheck, Goto
<1>1. TypeOK'
  BY DEF TypeOK, Step, Row
<1>5. Starting'
  BY DEF TypeOK, Starting, Row
<1>2. ASSUME NEW z \in Booking PROVE Progress(z)' /\ Deletes(z)'
  BY DEF Progress, Deletes, Begun, Running, Starting, TypeOK, Row
<1>3. ASSUME NEW z \in Booking PROVE Holds(z)'
  BY DEF Holds, Hours, Expiry, Reserved, Progress, TypeOK, Row
<1>4. ASSUME NEW z \in Booking PROVE Penalised(z)'
  BY DEF Penalised, Expiry, Running, Progress, Begun, Starting, TypeOK, Row
<1> QED BY <1>1, <1>2, <1>3, <1>4, <1>5

LEMMA PenaltyDeductStep ==
  ASSUME SlotAssumption, BookingAssumption, IInv, NEW b \in Booking, PenaltyDeduct(b)
  PROVE  IInv'
<1>0. /\ charged' \in {charged, [charged EXCEPT ![b] = @ + 1]}
      /\ \/ UNCHANGED balance
         \/ /\ balance[booking[b].user] >= Penalty
            /\ balance' = [balance EXCEPT ![booking[b].user] = @ - Penalty]
  BY DEF PenaltyDeduct
<1>6. balance' \in [User -> Nat] /\ charged' \in [Booking -> Nat]
  <2>1. balance \in [User -> Nat] /\ charged \in [Booking -> Nat] /\ booking[b].user \in User /\ Penalty \in Nat
    BY DEF IInv, TypeOK, Row, BookingAssumption
  <2>2. charged' \in [Booking -> Nat]
    BY <1>0, <2>1
  <2>3. balance' \in [User -> Nat]
    BY <1>0, <2>1
  <2> QED BY <2>2, <2>3
<1> USE DEF SlotAssumption, BookingAssumption, IInv, PenaltyDeduct, Goto
<1>1. TypeOK'
  <2>1. pc' \in [Handler -> [Booking -> Step]]
    BY DEF TypeOK, Step
  <2> QED BY <1>6, <2>1 DEF TypeOK
<1>5. Starting'
  BY DEF TypeOK, Starting, Row
<1>2. ASSUME NEW z \in Booking PROVE Progress(z)' /\ Deletes(z)'
  BY DEF Progress, Deletes, Begun, Running, Starting, TypeOK, Row
<1>3. ASSUME NEW z \in Booking PROVE Holds(z)'
  BY DEF Holds, Hours, Expiry, Reserved, Progress, TypeOK, Row
<1>4. ASSUME NEW z \in Booking PROVE Penalised(z)'
  BY DEF Penalised, Expiry, Running, Progress, Begun, Starting, TypeOK, Row
<1> QED BY <1>1, <1>2, <1>3, <1>4, <1>5

-----------------------------------------------------------------------------
\* The job send-reservation, StartTransaction, time and faults

LEMMA SendReadStep ==
  ASSUME SlotAssumption, BookingAssumption, IInv, NEW b \in Booking, SendRead(b)
  PROVE  IInv'
<1> USE DEF SlotAssumption, BookingAssumption, IInv, SendRead, Goto
<1>1. TypeOK'
  BY DEF TypeOK, Step, Row
<1>5. Starting'
  BY DEF TypeOK, Starting, Row
<1>2. ASSUME NEW z \in Booking PROVE Progress(z)' /\ Deletes(z)'
  BY DEF Progress, Deletes, Begun, Running, Starting, TypeOK, Row
<1>3. ASSUME NEW z \in Booking PROVE Holds(z)'
  BY DEF Holds, Hours, Expiry, Reserved, Progress, TypeOK, Row
<1>4. ASSUME NEW z \in Booking PROVE Penalised(z)'
  BY DEF Penalised, Expiry, Running, Progress, Begun, Starting, TypeOK, Row
<1> QED BY <1>1, <1>2, <1>3, <1>4, <1>5

LEMMA SendStep ==
  ASSUME SlotAssumption, BookingAssumption, IInv, NEW b \in Booking, Send(b)
  PROVE  IInv'
<1> USE DEF SlotAssumption, BookingAssumption, IInv, Send, ReserveNow, Goto, Fault
<1>1. TypeOK'
  BY DEF TypeOK, Step, Row
<1>5. Starting'
  BY DEF TypeOK, Starting, Row
<1>2. ASSUME NEW z \in Booking PROVE Progress(z)' /\ Deletes(z)'
  BY DEF Progress, Deletes, Begun, Running, Starting, TypeOK, Row
<1>3. ASSUME NEW z \in Booking PROVE Holds(z)'
  BY DEF Holds, Hours, Expiry, Reserved, Progress, TypeOK, Row
<1>4. ASSUME NEW z \in Booking PROVE Penalised(z)'
  BY DEF Penalised, Expiry, Running, Progress, Begun, Starting, TypeOK, Row
<1> QED BY <1>1, <1>2, <1>3, <1>4, <1>5

LEMMA StartFindStep ==
  ASSUME SlotAssumption, BookingAssumption, IInv, StartFind
  PROVE  IInv'
<1> USE DEF SlotAssumption, BookingAssumption, IInv, StartFind, Covering, Active
<1>1. TypeOK'
  BY DEF TypeOK, Step, Row
<1>5. Starting'
  BY DEF TypeOK, Starting, Row
<1>2. ASSUME NEW z \in Booking PROVE Progress(z)' /\ Deletes(z)'
  BY DEF Progress, Deletes, Begun, Running, Starting, TypeOK, Row
<1>3. ASSUME NEW z \in Booking PROVE Holds(z)'
  BY DEF Holds, Hours, Expiry, Reserved, Progress, TypeOK, Row
<1>4. ASSUME NEW z \in Booking PROVE Penalised(z)'
  BY DEF Penalised, Expiry, Running, Progress, Begun, Starting, TypeOK, Row
<1> QED BY <1>1, <1>2, <1>3, <1>4, <1>5

LEMMA StartUseStep ==
  ASSUME SlotAssumption, BookingAssumption, IInv, StartUse
  PROVE  IInv'
<1> USE DEF IInv
<1>1. PICK b : b = start.booking
  OBVIOUS
<1>2. /\ SetStatus(b, "USED") /\ start' \in {[start EXCEPT !.pc = "authorise"], NoStart}
      /\ UNCHANGED <<slot, now, handlers, jobs, reserved, money, history>>
  BY <1>1 DEF StartUse
<1>3. b \in Booking /\ Status(b) # "NONE"
  BY <1>1 DEF StartUse, Starting
<1>4. /\ booking' \in [Booking -> Row] /\ Status(b)' = "USED" /\ early' \in SUBSET Booking
      /\ \A z \in Booking : z # b => booking'[z] = booking[z]
      /\ \A z \in Booking : Hours(z)' = Hours(z) /\ Expiry(z)' = Expiry(z)
      /\ early \subseteq early' /\ early' \subseteq early \cup {b}
      /\ b \in early' \ early => now < Expiry(b)
  BY <1>2, <1>3, Writes
<1>5. TypeOK'
  <2>1. start' \in [pc : {"idle", "use", "authorise", "again"}, booking : Booking \cup {Nobody}]
    BY <1>2 DEF TypeOK, NoStart
  <2> QED BY <1>2, <1>4, <2>1 DEF TypeOK
<1>6. Starting'
  BY <1>1, <1>2, <1>3, <1>4 DEF Starting, NoStart, TypeOK
<1>7. ASSUME NEW z \in Booking PROVE Progress(z)' /\ Deletes(z)' /\ Holds(z)'
  <2>1. Progress(z) /\ Deletes(z) /\ Holds(z)
    OBVIOUS
  <2>2. Progress(z)' /\ Deletes(z)'
    BY <1>2, <1>3, <1>4, <2>1 DEF Progress, Deletes, Begun, Running
  <2>3. Holds(z)'
    BY <1>2, <1>4, <2>1 DEF Holds, Reserved
  <2> QED BY <2>2, <2>3
<1>8. ASSUME NEW z \in Booking PROVE Penalised(z)'
  <2>1. Penalised(z) /\ now \in Int /\ Expiry(z) \in Int
    BY DEF TypeOK, Row, Expiry, BookingAssumption
  <2> QED BY <1>2, <1>4, <2>1 DEF Penalised, Running
<1> QED BY <1>5, <1>6, <1>7, <1>8

LEMMA StartAuthoriseStep ==
  ASSUME SlotAssumption, BookingAssumption, IInv, StartAuthorise
  PROVE  IInv'
<1> USE DEF IInv
<1>1. /\ start' \in {[start EXCEPT !.pc = "again"], NoStart} /\ start.pc = "authorise"
      /\ UNCHANGED <<slot, now, booking, handlers, jobs, reserved, money, early, history>>
  BY DEF StartAuthorise
<1>2. TypeOK'
  <2>1. start' \in [pc : {"idle", "use", "authorise", "again"}, booking : Booking \cup {Nobody}]
    BY <1>1 DEF TypeOK, NoStart
  <2> QED BY <1>1, <2>1 DEF TypeOK
<1>3. Starting'
  BY <1>1 DEF Starting, NoStart, TypeOK
<1>4. ASSUME NEW z \in Booking PROVE Progress(z)' /\ Deletes(z)' /\ Holds(z)' /\ Penalised(z)'
  BY <1>1 DEF Progress, Deletes, Begun, Running, Holds, Reserved, Hours, Penalised, Expiry
<1> QED BY <1>2, <1>3, <1>4

LEMMA RequestDiesStep ==
  ASSUME SlotAssumption, BookingAssumption, IInv, NEW b \in Booking, NEW h \in Handler, RequestDies(h, b)
  PROVE  IInv'
<1> USE DEF SlotAssumption, BookingAssumption, IInv, RequestDies, GotoWith, Fault
<1>1. TypeOK'
  BY DEF TypeOK, Step, Row
<1>5. Starting'
  BY DEF TypeOK, Starting, Row
<1>2. ASSUME NEW z \in Booking PROVE Progress(z)' /\ Deletes(z)'
  BY DEF Progress, Deletes, Begun, Running, Starting, TypeOK, Row
<1>3. ASSUME NEW z \in Booking PROVE Holds(z)'
  BY DEF Holds, Hours, Expiry, Reserved, Progress, TypeOK, Row
<1>4. ASSUME NEW z \in Booking PROVE Penalised(z)'
  BY DEF Penalised, Expiry, Running, Progress, Begun, Starting, TypeOK, Row
<1> QED BY <1>1, <1>2, <1>3, <1>4, <1>5

LEMMA JobFailsStep ==
  ASSUME SlotAssumption, BookingAssumption, IInv, NEW b \in Booking, JobFails(b)
  PROVE  IInv'
<1> USE DEF IInv
<1>1. PICK step \in {"delayed", "failed"} :
        /\ Running(b) /\ GotoWith("expire", b, step, {}) /\ (step = "delayed" => attempt[b] + 1 < Attempts)
        /\ attempt' = [attempt EXCEPT ![b] = @ + 1] /\ Fault /\ disturbed' = disturbed \cup {b}
        /\ UNCHANGED <<slot, now, booking, start, reserved, money, early, wiped, missed>>
  BY DEF JobFails, Running
<1>2. /\ pc' \in [Handler -> [Booking -> Step]] /\ left' \in [Handler -> [Booking -> SUBSET Slot]]
      /\ pc'["expire"][b] = step
      /\ \A g \in Handler, z \in Booking : g # "expire" \/ z # b => pc'[g][z] = pc[g][z] /\ left'[g][z] = left[g][z]
  <2>1. step \in Step
    BY DEF Step
  <2>2. {} \in SUBSET Slot
    OBVIOUS
  <2> QED BY <1>1, <2>1, <2>2, MovesWith
<1>3. /\ attempt' \in [Booking -> 0..Attempts] /\ attempt'[b] = attempt[b] + 1
      /\ \A z \in Booking : z # b => attempt'[z] = attempt[z]
  <2>1. attempt[b] < Attempts
    BY <1>1 DEF Progress
  <2> QED BY <1>1, <2>1 DEF TypeOK, BookingAssumption
<1>4. TypeOK' /\ Starting'
  <2>1. faults' \in 0..MaxFaults
    BY <1>1 DEF Fault, TypeOK, BookingAssumption
  <2>2. Starting'
    BY <1>1 DEF Starting
  <2> QED BY <1>1, <1>2, <1>3, <2>1, <2>2 DEF TypeOK
<1>5. ASSUME NEW z \in Booking PROVE Progress(z)' /\ Deletes(z)' /\ Holds(z)' /\ Penalised(z)'
  <2>1. Progress(z) /\ Deletes(z) /\ Holds(z) /\ Penalised(z)
    OBVIOUS
  <2>2. Progress(z)'
    BY <1>1, <1>2, <1>3, <2>1 DEF Progress, Begun, Running
  <2>3. Deletes(z)'
    BY <1>2, <2>1 DEF Deletes
  <2>4. Holds(z)'
    BY <1>1, <1>2, <2>1 DEF Holds, Reserved, Hours, Expiry
  <2>5. Penalised(z)'
    BY <1>1, <1>2, <2>1 DEF Penalised, Running, Expiry
  <2> QED BY <2>2, <2>3, <2>4, <2>5
<1> QED BY <1>4, <1>5

LEMMA SpendStep ==
  ASSUME SlotAssumption, BookingAssumption, IInv, NEW u \in User, Spend(u)
  PROVE  IInv'
<1> USE DEF SlotAssumption, BookingAssumption, IInv, Spend, Fault
<1>1. TypeOK'
  BY DEF TypeOK, Step, Row
<1>5. Starting'
  BY DEF TypeOK, Starting, Row
<1>2. ASSUME NEW z \in Booking PROVE Progress(z)' /\ Deletes(z)'
  BY DEF Progress, Deletes, Begun, Running, Starting, TypeOK, Row
<1>3. ASSUME NEW z \in Booking PROVE Holds(z)'
  BY DEF Holds, Hours, Expiry, Reserved, Progress, TypeOK, Row
<1>4. ASSUME NEW z \in Booking PROVE Penalised(z)'
  BY DEF Penalised, Expiry, Running, Progress, Begun, Starting, TypeOK, Row
<1> QED BY <1>1, <1>2, <1>3, <1>4, <1>5

LEMMA TickStep ==
  ASSUME SlotAssumption, BookingAssumption, IInv, Tick
  PROVE  IInv'
<1> USE DEF IInv
<1>1. PICK over : /\ over = {b \in Booking : Expiry(b) <= now + 1} /\ Expire(over)
                  /\ now' = now + 1 /\ reserved' = reserved \ over
                  /\ UNCHANGED <<booking, handlers, jobs, start, money, early, history>>
  BY DEF Tick
<1>2. now \in Nat /\ \A b \in Booking : Expiry(b) \in Nat /\ Expiry(b)' = Expiry(b) /\ Hours(b)' = Hours(b)
  BY <1>1 DEF TypeOK, Row, Expiry, Hours, BookingAssumption
<1>3. /\ slot' \in [Slot -> Booking \cup {Nobody}]
      /\ \A t \in Slot : slot[t] \notin over => slot'[t] = slot[t]
  BY <1>1 DEF TypeOK, Expire
<1>4. TypeOK' /\ Starting'
  BY <1>1, <1>2, <1>3 DEF TypeOK, Starting
<1>5. ASSUME NEW z \in Booking PROVE Progress(z)' /\ Deletes(z)' /\ Penalised(z)'
  <2>1. Progress(z) /\ Deletes(z) /\ Penalised(z)
    OBVIOUS
  <2> QED BY <1>1, <1>2, <2>1 DEF Progress, Begun, Running, Deletes, Penalised
<1>6. ASSUME NEW z \in Booking PROVE Holds(z)'
  <2>1. Holds(z) /\ Hours(z) \subseteq Slot
    BY DEF Hours, SlotsOf
  <2>2. now' < Expiry(z) => z \notin over /\ now < Expiry(z)
    BY <1>1, <1>2
  <2> QED BY <1>1, <1>2, <1>3, <2>1, <2>2 DEF Holds, Reserved
<1> QED BY <1>4, <1>5, <1>6

-----------------------------------------------------------------------------
\* The theorems

LEMMA InitIInv == SlotAssumption /\ BookingAssumption /\ Init => IInv
<1> SUFFICES ASSUME SlotAssumption, BookingAssumption, Init PROVE IInv
  OBVIOUS
<1>1. (CHOOSE u \in User : TRUE) \in User
  BY DEF BookingAssumption
<1>2. booking \in [Booking -> Row] /\ \A b \in Booking : Status(b) = "NONE"
  BY <1>1 DEF Init, Row
<1>3. /\ pc \in [Handler -> [Booking -> Step]] /\ left \in [Handler -> [Booking -> SUBSET Slot]]
      /\ \A h \in Handler, b \in Booking : pc[h][b] = "none"
  BY DEF Init, Step
<1>4. TypeOK
  <2>1. attempt \in [Booking -> 0..Attempts] /\ faults \in 0..MaxFaults /\ balance \in [User -> Nat]
    BY DEF Init, BookingAssumption
  <2> QED BY <1>2, <1>3, <2>1 DEF Init, TypeOK, NoStart
<1>5. Starting
  BY DEF Init, Starting, NoStart
<1>6. ASSUME NEW b \in Booking PROVE Progress(b) /\ Deletes(b) /\ Holds(b) /\ Penalised(b)
  BY <1>2, <1>3 DEF Init, Progress, Begun, Running, Deletes, Holds, Penalised
<1> QED BY <1>4, <1>5, <1>6 DEF IInv

LEMMA NextIInv == SlotAssumption /\ BookingAssumption /\ IInv /\ [Next]_vars => IInv'
<1> SUFFICES ASSUME SlotAssumption, BookingAssumption, IInv, [Next]_vars PROVE IInv'
  OBVIOUS
<1>1. CASE Tick \/ StartFind \/ StartUse \/ StartAuthorise \/ \E u \in User : Spend(u)
  BY <1>1, TickStep, StartFindStep, StartUseStep, StartAuthoriseStep, SpendStep
<1>2. ASSUME NEW b \in Booking, Create(b) PROVE IInv'
  BY <1>2, CreateCheckStep, CreateUserStep, CreateRowStep, CreateReserveStep, CreateRollbackStep, CreateUndoStep,
     CreateOcppStep, CreateJobStep, CreateLaterStep DEF Create
<1>3. ASSUME NEW b \in Booking, CancelRead(b) \/ CancelWrite(b) \/ Release(b) \/ ExpireRead(b) \/ ExpireWrite(b)
      PROVE  IInv'
  BY <1>3, CancelReadStep, CancelWriteStep, ReleaseGetStep, ReleaseDelStep, WithdrawStep, ExpireReadStep,
     ExpireWriteStep DEF Release
<1>4. ASSUME NEW b \in Booking, PenaltyCheck(b) \/ PenaltyDeduct(b) \/ SendRead(b) \/ Send(b) \/ JobFails(b)
                                \/ \E h \in Handler : RequestDies(h, b)
      PROVE  IInv'
  BY <1>4, PenaltyCheckStep, PenaltyDeductStep, SendReadStep, SendStep, JobFailsStep, RequestDiesStep
<1>5. CASE UNCHANGED vars
  BY <1>5 DEF vars, IInv, TypeOK, Starting, Progress, Begun, Running, Deletes, Holds, Reserved, Hours, Penalised, Expiry
<1> QED BY <1>1, <1>2, <1>3, <1>4, <1>5 DEF Next

\* The inductive invariant holds: a row says how far its handlers are, an active
\* booking that got its slots holds them, and a penalty is taken by a job that found
\* the booking active after its end.
THEOREM Inductive == Spec => []IInv
BY SlotAssumption, BookingAssumption, InitIInv, NextIInv, PTL DEF Spec

\* Type correctness.
THEOREM TypeCorrect == Spec => []TypeOK
<1>1. IInv => TypeOK
  BY DEF IInv
<1> QED BY <1>1, Inductive, PTL

\* createBooking gives no hour of a connector to two bookings, for any number of
\* bookings and any times, unless a handler deletes the slots of another.
THEOREM HoursAreGivenOnce == Spec => []NoDoubleBooking
<1>1. IInv => NoDoubleBooking
  <2> SUFFICES ASSUME IInv, NEW a \in Active, NEW b \in Active, a # b, Reserved(a), Reserved(b),
                      now < Expiry(a), now < Expiry(b), a \notin wiped, b \notin wiped,
                      NEW h \in Hours(a) \cap Hours(b)
               PROVE  FALSE
    BY DEF NoDoubleBooking
  <2>1. slot[h] = a /\ slot[h] = b
    BY DEF IInv, Holds, Active
  <2> QED BY <2>1
<1> QED BY <1>1, Inductive, PTL

\* No penalty is taken from a driver who started or cancelled before the end of his
\* booking, and none twice, however often handleBookingExpiry is retried.
THEOREM PenaltyIsForNoShow == Spec => []PenaltyForNoShow
<1>1. IInv => PenaltyForNoShow
  <2> SUFFICES ASSUME IInv, NEW b \in Booking PROVE charged[b] <= (IF b \in early THEN 0 ELSE 1)
    BY DEF PenaltyForNoShow
  <2>1. charged[b] \in {0, 1} /\ (b \in early => charged[b] = 0)
    BY DEF IInv, Penalised
  <2> QED BY <2>1
<1> QED BY <1>1, Inductive, PTL

-----------------------------------------------------------------------------
\* What a booking that has ended still holds: its hours and its reservation

Gone(b) == \A s \in Slot : slot[s] # b
Releasing(h, b) == pc[h][b] \in {"get", "del"}

\* A slot a cancelled or expired booking still holds in its first hour is one a
\* handler has still to release; a rollback has what it got in hand.
Returns(b) ==
  /\ pc["create"][b] \in {"none", "user", "row", "reserve", "undo"} => Gone(b)
  /\ pc["create"][b] = "rollback" => \A s \in Slot : slot[s] = b => s \in left["create"][b]
  /\ b \notin disturbed =>
       /\ pc["create"][b] = "failed" => Gone(b)
       /\ pc["cancel"][b] # "none" => pc["create"][b] = "done"
       /\ Status(b) \in {"CANCELLED", "EXPIRED"} =>
            /\ pc["create"][b] \in {"later", "done", "failed"}
            /\ \A s \in FirstHour(b) : slot[s] = b =>
                 \E h \in {"cancel", "expire"} : Releasing(h, b) /\ s \in left[h][b]

\* A cancelled booking the charger still holds, and missed nothing of, is one that
\* cancelBooking has still to withdraw.
Withdraws(b) ==
  /\ pc["send"][b] # "none" => pc["create"][b] = "done"
  /\ b \in reserved => pc["create"][b] \in {"jobs", "jobsLater", "later", "done", "failed"}
  /\ b \notin disturbed /\ Status(b) = "CANCELLED" /\ b \in reserved \ missed =>
       pc["cancel"][b] \in {"get", "del", "withdraw"}

Back == \A b \in Booking : Returns(b) /\ Withdraws(b)

\* What a step leaves of a booking it is not about: the charger and the keys may
\* forget it, no more.
Untouched(z) ==
  /\ \A h \in Handler : pc'[h][z] = pc[h][z] /\ left'[h][z] = left[h][z]
  /\ booking'[z] = booking[z]
  /\ z \in disturbed' <=> z \in disturbed
  /\ z \in missed' <=> z \in missed
  /\ z \in reserved' => z \in reserved
  /\ \A s \in Slot : slot'[s] = z => slot[s] = z

LEMMA UntouchedStays ==
  ASSUME NEW z \in Booking, Returns(z), Withdraws(z), Untouched(z)
  PROVE  Returns(z)' /\ Withdraws(z)'
<1>1. FirstHour(z)' = FirstHour(z) /\ FirstHour(z) \subseteq Slot
  BY DEF Untouched, FirstHour, SlotsOf
<1>2. Gone(z) => Gone(z)'
  BY DEF Untouched, Gone
<1>3. Withdraws(z)'
  BY DEF Untouched, Withdraws
<1>4. Returns(z)'
  BY <1>1, <1>2 DEF Untouched, Returns, Releasing
<1> QED BY <1>3, <1>4

\* Only the one a step is about needs to be looked at.
LEMMA OneBooking ==
  ASSUME Back, NEW b \in Booking, \A z \in Booking : z # b => Untouched(z), Returns(b)', Withdraws(b)'
  PROVE  Back'
<1>1. ASSUME NEW z \in Booking, z # b PROVE Returns(z)' /\ Withdraws(z)'
  BY <1>1, UntouchedStays DEF Back
<1> QED BY <1>1 DEF Back

LEMMA FirstHours == ASSUME NEW b \in Booking PROVE FirstHour(b) \in SUBSET Slot
BY DEF FirstHour, SlotsOf

-----------------------------------------------------------------------------
\* createBooking keeps Back

LEMMA CreateCheckGivesBack ==
  ASSUME SlotAssumption, BookingAssumption, IInv, Back, NEW b \in Booking, CreateCheck(b)
  PROVE  Back'
<1>1. PICK r \in Request[b] :
        /\ At("create", b, "none") /\ Goto("create", b, "user")
        /\ booking' = [booking EXCEPT ![b] =
             [status |-> "NONE", user |-> r.user, start |-> r.start, duration |-> r.duration]]
        /\ UNCHANGED <<slot, now, jobs, start, reserved, money, early, history>>
  BY DEF CreateCheck
<1>2. /\ pc'["create"][b] = "user"
      /\ \A g \in Handler, z \in Booking : g # "create" \/ z # b => pc'[g][z] = pc[g][z] /\ left'[g][z] = left[g][z]
  <2>1. "user" \in Step /\ TypeOK
    BY DEF Step, IInv
  <2> QED BY <1>1, <2>1, Moves
<1>3. Status(b)' = "NONE" /\ \A z \in Booking : z # b => booking'[z] = booking[z]
  BY <1>1 DEF IInv, TypeOK
<1>4. pc["cancel"][b] = "none" /\ Returns(b) /\ Withdraws(b)
  BY <1>1 DEF IInv, Progress, Begun, Back
<1>5. \A z \in Booking : z # b => Untouched(z)
  BY <1>1, <1>2, <1>3 DEF Untouched
<1>6. Returns(b)' /\ Withdraws(b)'
  BY <1>1, <1>2, <1>3, <1>4 DEF Returns, Withdraws, Gone
<1> QED BY <1>5, <1>6, OneBooking

LEMMA CreateUserGivesBack ==
  ASSUME SlotAssumption, BookingAssumption, IInv, Back, NEW b \in Booking, CreateUser(b)
  PROVE  Back'
<1>1. PICK step \in {"failed", "row"} :
        /\ At("create", b, "user") /\ Goto("create", b, step)
        /\ UNCHANGED <<slot, now, booking, jobs, start, reserved, money, early, history>>
  BY DEF CreateUser
<1>2. /\ pc'["create"][b] = step
      /\ \A g \in Handler, z \in Booking : g # "create" \/ z # b => pc'[g][z] = pc[g][z] /\ left'[g][z] = left[g][z]
  <2>1. step \in Step /\ TypeOK
    BY DEF Step, IInv
  <2> QED BY <1>1, <2>1, Moves
<1>3. Status(b) = "NONE" /\ Returns(b) /\ Withdraws(b)
  BY <1>1 DEF IInv, Progress, Begun, Back
<1>4. \A z \in Booking : z # b => Untouched(z)
  BY <1>1, <1>2 DEF Untouched
<1>5. Gone(b) /\ Gone(b)'
  BY <1>1, <1>3 DEF Returns, Gone
<1>6. pc["cancel"][b] = "none"
  BY <1>1 DEF IInv, Progress, Begun
<1>7. Returns(b)' /\ Withdraws(b)'
  BY <1>1, <1>2, <1>3, <1>5, <1>6 DEF Returns, Withdraws
<1> QED BY <1>4, <1>7, OneBooking

LEMMA CreateRowGivesBack ==
  ASSUME SlotAssumption, BookingAssumption, IInv, Back, NEW b \in Booking, CreateRow(b)
  PROVE  Back'
<1>1. /\ At("create", b, "row") /\ SetStatus(b, "ACTIVE") /\ Goto("create", b, "reserve")
      /\ UNCHANGED <<slot, now, jobs, start, reserved, money, history>>
  BY DEF CreateRow
<1>2. /\ pc'["create"][b] = "reserve"
      /\ \A g \in Handler, z \in Booking : g # "create" \/ z # b => pc'[g][z] = pc[g][z] /\ left'[g][z] = left[g][z]
  <2>1. "reserve" \in Step /\ TypeOK
    BY DEF Step, IInv
  <2> QED BY <1>1, <2>1, Moves
<1>3. Status(b)' = "ACTIVE" /\ \A z \in Booking : z # b => booking'[z] = booking[z]
  BY <1>1, Writes DEF IInv
<1>4. pc["cancel"][b] = "none" /\ Returns(b) /\ Withdraws(b)
  BY <1>1 DEF IInv, Progress, Begun, Back
<1>5. \A z \in Booking : z # b => Untouched(z)
  BY <1>1, <1>2, <1>3 DEF Untouched
<1>6. Returns(b)' /\ Withdraws(b)'
  BY <1>1, <1>2, <1>3, <1>4 DEF Returns, Withdraws, Gone
<1> QED BY <1>5, <1>6, OneBooking

LEMMA CreateReserveGivesBack ==
  ASSUME SlotAssumption, BookingAssumption, IInv, Back, NEW b \in Booking, CreateReserve(b)
  PROVE  Back'
<1>1. /\ At("create", b, "reserve") /\ TakeFree(b, Hours(b))
      /\ UNCHANGED <<now, booking, jobs, start, reserved, money, early, history>>
      /\ \/ Goto("create", b, "ocpp")
         \/ GotoWith("create", b, "rollback", Hours(b))
  BY DEF CreateReserve
<1>2. Hours(b) \in SUBSET Slot /\ TypeOK /\ Returns(b) /\ Withdraws(b)
  BY DEF Hours, SlotsOf, IInv, Back
<1>3. \A t \in Slot : slot'[t] = slot[t] \/ (slot'[t] = b /\ t \in Hours(b))
  BY <1>1 DEF TakeFree, FreeSlots
<1>4. /\ \A g \in Handler, z \in Booking : g # "create" \/ z # b => pc'[g][z] = pc[g][z] /\ left'[g][z] = left[g][z]
      /\ pc'["create"][b] = "ocpp" \/ (pc'["create"][b] = "rollback" /\ left'["create"][b] = Hours(b))
  <2>1. "ocpp" \in Step /\ "rollback" \in Step
    BY DEF Step
  <2>2. CASE Goto("create", b, "ocpp")
    BY <1>2, <2>1, <2>2, Moves
  <2>3. CASE GotoWith("create", b, "rollback", Hours(b))
    BY <1>2, <2>1, <2>3, MovesWith
  <2> QED BY <1>1, <2>2, <2>3
<1>5. \A z \in Booking : z # b => Untouched(z)
  BY <1>1, <1>3, <1>4 DEF Untouched
<1>6. Gone(b)
  BY <1>1, <1>2 DEF Returns
<1>7. Returns(b)' /\ Withdraws(b)'
  BY <1>1, <1>2, <1>3, <1>4, <1>6 DEF Returns, Withdraws, Gone
<1> QED BY <1>5, <1>7, OneBooking

LEMMA CreateRollbackGivesBack ==
  ASSUME SlotAssumption, BookingAssumption, IInv, Back, NEW b \in Booking, CreateRollback(b)
  PROVE  Back'
<1>1. PICK s, rest :
        /\ s = NextSlot("create", b) /\ rest = left["create"][b] \ {s}
        /\ At("create", b, "rollback") /\ DeleteFor(b, s)
        /\ GotoWith("create", b, IF rest = {} THEN "undo" ELSE "rollback", rest)
        /\ UNCHANGED <<now, booking, jobs, start, reserved, money, early>>
  BY DEF CreateRollback
<1>2. s \in Slot /\ rest \in SUBSET Slot /\ TypeOK /\ Returns(b) /\ Withdraws(b)
  BY <1>1, NextSlotIsOne DEF Deletes, TypeOK, IInv, Back
<1>3. \A t \in Slot : slot'[t] = IF t = s THEN Nobody ELSE slot[t]
  BY <1>1, <1>2 DEF DeleteFor, Delete, TypeOK
<1>4. PICK step \in {"undo", "rollback"} : GotoWith("create", b, step, rest) /\ (rest = {} <=> step = "undo")
  BY <1>1
<1>5. /\ pc'["create"][b] = step /\ left'["create"][b] = rest
      /\ \A g \in Handler, z \in Booking : g # "create" \/ z # b => pc'[g][z] = pc[g][z] /\ left'[g][z] = left[g][z]
  <2>1. step \in Step
    BY DEF Step
  <2> QED BY <1>2, <1>4, <2>1, MovesWith
<1>6. Nobody \notin Booking /\ UNCHANGED <<disturbed, missed>>
  BY <1>1 DEF SlotAssumption, DeleteFor
<1>7. \A z \in Booking : z # b => Untouched(z)
  BY <1>1, <1>3, <1>5, <1>6 DEF Untouched
<1>8. \A t \in Slot : slot'[t] = b => t \in rest
  BY <1>1, <1>2, <1>3, <1>6 DEF Returns
<1>9. Returns(b)' /\ Withdraws(b)'
  BY <1>1, <1>2, <1>4, <1>5, <1>6, <1>8 DEF Returns, Withdraws, Gone
<1> QED BY <1>7, <1>9, OneBooking

LEMMA CreateUndoGivesBack ==
  ASSUME SlotAssumption, BookingAssumption, IInv, Back, NEW b \in Booking, CreateUndo(b)
  PROVE  Back'
<1>1. /\ At("create", b, "undo") /\ SetStatus(b, "CANCELLED") /\ Goto("create", b, "failed")
      /\ UNCHANGED <<slot, now, jobs, start, reserved, money, history>>
  BY DEF CreateUndo
<1>2. /\ pc'["create"][b] = "failed"
      /\ \A g \in Handler, z \in Booking : g # "create" \/ z # b => pc'[g][z] = pc[g][z] /\ left'[g][z] = left[g][z]
  <2>1. "failed" \in Step /\ TypeOK
    BY DEF Step, IInv
  <2> QED BY <1>1, <2>1, Moves
<1>3. Status(b)' = "CANCELLED" /\ \A z \in Booking : z # b => booking'[z] = booking[z]
  BY <1>1, Writes DEF IInv
<1>4. Returns(b) /\ Withdraws(b)
  BY DEF Back
<1>5. \A z \in Booking : z # b => Untouched(z)
  BY <1>1, <1>2, <1>3 DEF Untouched
<1>6. Gone(b) /\ Gone(b)'
  BY <1>1, <1>4 DEF Returns, Gone
<1>7. \A s \in FirstHour(b)' : slot'[s] # b
  BY <1>6 DEF FirstHour, SlotsOf, Gone
<1>8. Returns(b)'
  BY <1>1, <1>2, <1>3, <1>4, <1>6, <1>7 DEF Returns
<1>9. Withdraws(b)'
  BY <1>1, <1>2, <1>3, <1>4 DEF Withdraws
<1> QED BY <1>5, <1>8, <1>9, OneBooking

LEMMA CreateOcppGivesBack ==
  ASSUME SlotAssumption, BookingAssumption, IInv, Back, NEW b \in Booking, CreateOcpp(b)
  PROVE  Back'
<1>1. PICK step \in {"jobs", "jobsLater"} :
        /\ At("create", b, "ocpp") /\ Goto("create", b, step)
        /\ UNCHANGED <<slot, now, booking, attempt, start, money, early, wiped, disturbed>>
        /\ reserved' \in {reserved, reserved \cup {b}}
        /\ missed' \in {missed, missed \cup {b}}
  BY DEF CreateOcpp, ReserveNow
<1>2. /\ pc'["create"][b] = step
      /\ \A g \in Handler, z \in Booking : g # "create" \/ z # b => pc'[g][z] = pc[g][z] /\ left'[g][z] = left[g][z]
  <2>1. step \in Step /\ TypeOK
    BY DEF Step, IInv
  <2> QED BY <1>1, <2>1, Moves
<1>3. Returns(b) /\ Withdraws(b)
  BY DEF Back
<1>4. \A z \in Booking : z # b => Untouched(z)
  BY <1>1, <1>2 DEF Untouched
<1>5. Returns(b)' /\ Withdraws(b)'
  BY <1>1, <1>2, <1>3 DEF Returns, Withdraws
<1> QED BY <1>4, <1>5, OneBooking

LEMMA CreateJobGivesBack ==
  ASSUME SlotAssumption, BookingAssumption, IInv, Back, NEW b \in Booking, CreateJob(b)
  PROVE  Back'
<1>1. PICK job \in {"none", "delayed"}, to \in {"done", "later"} :
        /\ pc["create"][b] \in {"jobs", "jobsLater"}
        /\ pc' = [pc EXCEPT !["create"][b] = to, !["expire"][b] = job]
        /\ UNCHANGED <<slot, now, booking, left, attempt, start, reserved, money, early, history>>
  BY DEF CreateJob
<1>2. /\ pc'["create"][b] = to /\ pc'["expire"][b] = job
      /\ \A g \in Handler, z \in Booking : g \notin {"create", "expire"} \/ z # b => pc'[g][z] = pc[g][z]
  BY <1>1 DEF IInv, TypeOK
<1>3. Returns(b) /\ Withdraws(b)
  BY DEF Back
<1>4. \A z \in Booking : z # b => Untouched(z)
  <2>1. ASSUME NEW z \in Booking, z # b, NEW g \in Handler PROVE pc'[g][z] = pc[g][z] /\ left'[g][z] = left[g][z]
    BY <1>1, <1>2, <2>1
  <2> QED BY <1>1, <2>1 DEF Untouched
<1>5. Returns(b)' /\ Withdraws(b)'
  BY <1>1, <1>2, <1>3 DEF Returns, Withdraws
<1> QED BY <1>4, <1>5, OneBooking

LEMMA CreateLaterGivesBack ==
  ASSUME SlotAssumption, BookingAssumption, IInv, Back, NEW b \in Booking, CreateLater(b)
  PROVE  Back'
<1>1. PICK job \in {"none", "delayed"} :
        /\ pc["create"][b] = "later"
        /\ pc' = [pc EXCEPT !["create"][b] = "done", !["send"][b] = job]
        /\ UNCHANGED <<slot, now, booking, left, attempt, start, reserved, money, early, history>>
  BY DEF CreateLater
<1>2. /\ pc'["create"][b] = "done" /\ pc'["send"][b] = job
      /\ \A g \in Handler, z \in Booking : g \notin {"create", "send"} \/ z # b => pc'[g][z] = pc[g][z]
  BY <1>1 DEF IInv, TypeOK
<1>3. Returns(b) /\ Withdraws(b) /\ FirstHour(b)' = FirstHour(b)
  BY <1>1 DEF Back, FirstHour
<1>4. \A z \in Booking : z # b => Untouched(z)
  <2>1. ASSUME NEW z \in Booking, z # b, NEW g \in Handler PROVE pc'[g][z] = pc[g][z] /\ left'[g][z] = left[g][z]
    BY <1>1, <1>2, <2>1
  <2> QED BY <1>1, <2>1 DEF Untouched
<1>5. Returns(b)'
  <2>1. /\ pc'["cancel"][b] = pc["cancel"][b] /\ pc'["expire"][b] = pc["expire"][b]
        /\ \A s \in FirstHour(b) : (\E h \in {"cancel", "expire"} : Releasing(h, b) /\ s \in left[h][b]) =>
             (\E h \in {"cancel", "expire"} : Releasing(h, b)' /\ s \in left'[h][b])
    BY <1>1, <1>2 DEF Releasing
  <2> QED BY <1>1, <1>2, <1>3, <2>1 DEF Returns
<1>6. Withdraws(b)'
  BY <1>1, <1>2, <1>3 DEF Withdraws
<1> QED BY <1>4, <1>5, <1>6, OneBooking

-----------------------------------------------------------------------------
\* Cancelling, expiring and the rest keep Back

LEMMA CancelReadGivesBack ==
  ASSUME SlotAssumption, BookingAssumption, IInv, Back, NEW b \in Booking, CancelRead(b)
  PROVE  Back'
<1>1. /\ Status(b) = "ACTIVE" /\ Goto("cancel", b, "write")
      /\ disturbed' = IF pc["create"][b] = "done" THEN disturbed ELSE disturbed \cup {b}
      /\ UNCHANGED <<slot, now, booking, jobs, start, reserved, money, early, wiped, missed>>
  BY DEF CancelRead
<1>2. /\ pc'["cancel"][b] = "write"
      /\ \A g \in Handler, z \in Booking : g # "cancel" \/ z # b => pc'[g][z] = pc[g][z] /\ left'[g][z] = left[g][z]
  <2>1. "write" \in Step /\ TypeOK
    BY DEF Step, IInv
  <2> QED BY <1>1, <2>1, Moves
<1>3. Returns(b) /\ Withdraws(b)
  BY DEF Back
<1>4. \A z \in Booking : z # b => Untouched(z)
  BY <1>1, <1>2 DEF Untouched
<1>5. Returns(b)' /\ Withdraws(b)'
  BY <1>1, <1>2, <1>3 DEF Returns, Withdraws, Gone
<1> QED BY <1>4, <1>5, OneBooking

\* cancelBooking and handleBookingExpiry write the status and take the first hour in hand.
LEMMA EndGivesBack ==
  ASSUME SlotAssumption, BookingAssumption, IInv, Back, NEW b \in Booking,
         NEW h \in {"cancel", "expire"}, NEW status \in {"CANCELLED", "EXPIRED"},
         At(h, b, "write"), SetStatus(b, status), GotoWith(h, b, "get", FirstHour(b)),
         h = "expire" => status = "EXPIRED",
         UNCHANGED <<slot, now, jobs, start, reserved, money, history>>
  PROVE  Back'
<1>1. /\ pc'[h][b] = "get" /\ left'[h][b] = FirstHour(b)
      /\ \A g \in Handler, z \in Booking : g # h \/ z # b => pc'[g][z] = pc[g][z] /\ left'[g][z] = left[g][z]
  <2>1. "get" \in Step /\ TypeOK /\ h \in Handler /\ FirstHour(b) \in SUBSET Slot
    BY FirstHours DEF Step, IInv
  <2> QED BY <2>1, MovesWith
<1>2. Status(b)' = status /\ \A z \in Booking : z # b => booking'[z] = booking[z]
  <2>1. TypeOK /\ status \in {"ACTIVE", "USED", "CANCELLED", "EXPIRED"}
    BY DEF IInv
  <2> QED BY <2>1, Writes
<1>3. FirstHour(b)' = FirstHour(b)
  BY DEF IInv, TypeOK, SetStatus, FirstHour, Row
<1>4. Returns(b) /\ Withdraws(b) /\ Progress(b)
  BY DEF Back, IInv
<1>5. \A z \in Booking : z # b => Untouched(z)
  BY <1>1, <1>2 DEF Untouched
<1>6. pc'["create"][b] = pc["create"][b] /\ pc'["send"][b] = pc["send"][b] /\ left'["create"][b] = left["create"][b]
  BY <1>1
<1>7. b \notin disturbed => pc["create"][b] \in {"later", "done", "failed"}
  BY <1>4 DEF Returns, Progress
<1>8. Returns(b)'
  <2>1. pc["cancel"][b] # "none" <=> pc'["cancel"][b] # "none"
    BY <1>1
  <2>2. \A s \in FirstHour(b) : \E g \in {"cancel", "expire"} : Releasing(g, b)' /\ s \in left'[g][b]
    BY <1>1 DEF Releasing
  <2> QED BY <1>3, <1>4, <1>6, <1>7, <2>1, <2>2 DEF Returns, Gone
<1>9. Withdraws(b)'
  BY <1>1, <1>2, <1>4, <1>6 DEF Withdraws
<1> QED BY <1>5, <1>8, <1>9, OneBooking

LEMMA EndsGiveBack ==
  ASSUME SlotAssumption, BookingAssumption, IInv, Back, NEW b \in Booking, CancelWrite(b) \/ ExpireWrite(b)
  PROVE  Back'
<1>1. CASE CancelWrite(b)
  BY <1>1, EndGivesBack DEF CancelWrite
<1>2. CASE ExpireWrite(b)
  BY <1>2, EndGivesBack DEF ExpireWrite
<1> QED BY <1>1, <1>2

\* A handler that moves on from a step other than a release: nothing is returned
\* or withdrawn.
LEMMA MoveGivesBack ==
  ASSUME SlotAssumption, BookingAssumption, IInv, Back, NEW b \in Booking,
         NEW h \in {"expire", "send"}, NEW step \in Step,
         pc[h][b] \in {"delayed", "check", "deduct", "send"}, Goto(h, b, step),
         UNCHANGED <<slot, booking, disturbed>>,
         reserved' \in {reserved, reserved \cup {b}}, missed' \in {missed, missed \cup {b}},
         reserved' # reserved => h = "send" /\ (Status(b) = "ACTIVE" \/ missed' = missed \cup {b})
  PROVE  Back'
<1>1. /\ pc'[h][b] = step /\ left' = left
      /\ \A g \in Handler, z \in Booking : g # h \/ z # b => pc'[g][z] = pc[g][z] /\ left'[g][z] = left[g][z]
  <2>1. TypeOK /\ h \in Handler
    BY DEF IInv
  <2> QED BY <2>1, Moves
<1>2. Returns(b) /\ Withdraws(b) /\ FirstHour(b)' = FirstHour(b)
  BY DEF Back, FirstHour
<1>3. \A z \in Booking : z # b => Untouched(z)
  BY <1>1 DEF Untouched
<1>4. pc'["create"][b] = pc["create"][b] /\ pc'["cancel"][b] = pc["cancel"][b]
  BY <1>1
<1>5. \A g \in {"cancel", "expire"} : Releasing(g, b) => Releasing(g, b)'
  BY <1>1 DEF Releasing
<1>6. Returns(b)'
  BY <1>1, <1>2, <1>4, <1>5 DEF Returns, Gone
<1>7. h = "send" => pc["create"][b] = "done"
  BY <1>2 DEF Withdraws
<1>8. Withdraws(b)'
  BY <1>1, <1>2, <1>4, <1>7 DEF Withdraws
<1> QED BY <1>3, <1>6, <1>8, OneBooking

LEMMA MovesGiveBack ==
  ASSUME SlotAssumption, BookingAssumption, IInv, Back, NEW b \in Booking,
         ExpireRead(b) \/ PenaltyCheck(b) \/ PenaltyDeduct(b) \/ SendRead(b) \/ Send(b)
  PROVE  Back'
<1>1. {"write", "done", "deduct", "send"} \subseteq Step
  BY DEF Step
<1>2. CASE ExpireRead(b)
  BY <1>1, <1>2, MoveGivesBack DEF ExpireRead
<1>3. CASE PenaltyCheck(b)
  BY <1>1, <1>3, MoveGivesBack DEF PenaltyCheck
<1>4. CASE PenaltyDeduct(b)
  BY <1>1, <1>4, MoveGivesBack DEF PenaltyDeduct
<1>5. CASE SendRead(b)
  BY <1>1, <1>5, MoveGivesBack DEF SendRead
<1>6. CASE Send(b)
  <2>1. /\ reserved' \in {reserved, reserved \cup {b}} /\ missed' \in {missed, missed \cup {b}}
        /\ reserved' # reserved => Status(b) = "ACTIVE" \/ missed' = missed \cup {b}
    BY <1>6 DEF Send, ReserveNow
  <2> QED BY <1>1, <1>6, <2>1, MoveGivesBack DEF Send
<1> QED BY <1>2, <1>3, <1>4, <1>5, <1>6

LEMMA ReleaseGetGivesBack ==
  ASSUME SlotAssumption, BookingAssumption, IInv, Back, NEW b \in Booking, NEW h \in {"cancel", "expire"},
         ReleaseGet(h, b)
  PROVE  Back'
<1>1. PICK step \in {"withdraw", "del", "get"}, rest \in SUBSET Slot :
        /\ pc[h][b] = "get" /\ GotoWith(h, b, step, rest)
        /\ step = "withdraw" => left[h][b] = {}
        /\ rest \subseteq left[h][b] /\ \A s \in left[h][b] \ rest : slot[s] # b
        /\ UNCHANGED <<slot, now, booking, jobs, start, reserved, money, early, history>>
  <2>1. TypeOK /\ h \in Handler
    BY DEF IInv
  <2>2. left[h][b] \in SUBSET Slot
    BY <2>1 DEF TypeOK
  <2>3. ASSUME NEW step, Goto(h, b, step) PROVE GotoWith(h, b, step, left[h][b])
    BY <2>1, <2>3 DEF Goto, GotoWith, TypeOK
  <2>4. CASE left[h][b] = {}
    BY <2>2, <2>3, <2>4 DEF ReleaseGet
  <2>5. CASE left[h][b] # {} /\ slot[NextSlot(h, b)] = b
    BY <2>2, <2>3, <2>5 DEF ReleaseGet
  <2>6. CASE left[h][b] # {} /\ slot[NextSlot(h, b)] # b
    <3>1. /\ GotoWith(h, b, "get", left[h][b] \ {NextSlot(h, b)}) /\ pc[h][b] = "get"
          /\ UNCHANGED <<slot, now, booking, jobs, start, reserved, money, early, history>>
      BY <2>6 DEF ReleaseGet
    <3> QED BY <2>2, <2>6, <3>1
  <2> QED BY <2>4, <2>5, <2>6
<1>2. /\ pc'[h][b] = step /\ left'[h][b] = rest
      /\ \A g \in Handler, z \in Booking : g # h \/ z # b => pc'[g][z] = pc[g][z] /\ left'[g][z] = left[g][z]
  <2>1. step \in Step /\ TypeOK /\ h \in Handler
    BY DEF Step, IInv
  <2> QED BY <1>1, <2>1, MovesWith
<1>3. Returns(b) /\ Withdraws(b) /\ FirstHour(b)' = FirstHour(b)
  BY <1>1 DEF Back, FirstHour
<1>4. \A z \in Booking : z # b => Untouched(z)
  BY <1>1, <1>2 DEF Untouched
<1>5. /\ pc'["create"][b] = pc["create"][b] /\ left'["create"][b] = left["create"][b]
      /\ pc'["cancel"][b] # "none" <=> pc["cancel"][b] # "none"
  BY <1>1, <1>2
<1>6. ASSUME NEW s \in FirstHour(b), slot[s] = b, NEW g \in {"cancel", "expire"}, Releasing(g, b), s \in left[g][b]
      PROVE  Releasing(g, b)' /\ s \in left'[g][b]
  BY <1>1, <1>2, <1>6 DEF Releasing
<1>7. Returns(b)'
  BY <1>1, <1>3, <1>5, <1>6 DEF Returns, Gone
<1>8. Withdraws(b)'
  BY <1>1, <1>2, <1>3, <1>5 DEF Withdraws
<1> QED BY <1>4, <1>7, <1>8, OneBooking

LEMMA ReleaseDelGivesBack ==
  ASSUME SlotAssumption, BookingAssumption, IInv, Back, NEW b \in Booking, NEW h \in {"cancel", "expire"},
         ReleaseDel(h, b)
  PROVE  Back'
<1>1. PICK s : /\ s = NextSlot(h, b) /\ pc[h][b] = "del" /\ DeleteFor(b, s)
               /\ GotoWith(h, b, "get", left[h][b] \ {s})
               /\ UNCHANGED <<now, booking, jobs, start, reserved, money, early>>
  BY DEF ReleaseDel
<1>2. TypeOK /\ h \in Handler /\ s \in Slot /\ left[h][b] \ {s} \in SUBSET Slot
  BY <1>1, NextSlotIsOne DEF Deletes, TypeOK, IInv
<1>3. \A t \in Slot : slot'[t] = IF t = s THEN Nobody ELSE slot[t]
  BY <1>1, <1>2 DEF DeleteFor, Delete, TypeOK
<1>4. /\ pc'[h][b] = "get" /\ left'[h][b] = left[h][b] \ {s}
      /\ \A g \in Handler, z \in Booking : g # h \/ z # b => pc'[g][z] = pc[g][z] /\ left'[g][z] = left[g][z]
  <2>1. "get" \in Step
    BY DEF Step
  <2> QED BY <1>1, <1>2, <2>1, MovesWith
<1>5. Nobody \notin Booking /\ UNCHANGED <<disturbed, missed>>
  BY <1>1 DEF SlotAssumption, DeleteFor
<1>6. Returns(b) /\ Withdraws(b) /\ FirstHour(b)' = FirstHour(b) /\ FirstHour(b) \subseteq Slot
  BY <1>1 DEF Back, FirstHour, SlotsOf
<1>7. \A z \in Booking : z # b => Untouched(z)
  BY <1>1, <1>3, <1>4, <1>5 DEF Untouched
<1>8. /\ pc'["create"][b] = pc["create"][b] /\ left'["create"][b] = left["create"][b]
      /\ pc'["cancel"][b] # "none" <=> pc["cancel"][b] # "none"
  BY <1>1, <1>4
<1>9. \A t \in Slot : slot'[t] = b => t # s /\ slot[t] = b
  BY <1>3, <1>5
<1>10. ASSUME NEW t \in FirstHour(b), slot'[t] = b, NEW g \in {"cancel", "expire"}, Releasing(g, b), t \in left[g][b]
       PROVE  Releasing(g, b)' /\ t \in left'[g][b]
  <2>1. t # s /\ g \in Handler
    BY <1>6, <1>9, <1>10
  <2>2. CASE g = h
    BY <1>4, <1>10, <2>1, <2>2 DEF Releasing
  <2>3. CASE g # h
    BY <1>4, <1>10, <2>1, <2>3 DEF Releasing
  <2> QED BY <2>2, <2>3
<1>11. Returns(b)'
  BY <1>1, <1>5, <1>6, <1>8, <1>9, <1>10 DEF Returns, Gone
<1>12. Withdraws(b)'
  BY <1>1, <1>4, <1>5, <1>6, <1>8 DEF Withdraws
<1> QED BY <1>7, <1>11, <1>12, OneBooking

LEMMA WithdrawGivesBack ==
  ASSUME SlotAssumption, BookingAssumption, IInv, Back, NEW b \in Booking, NEW h \in {"cancel", "expire"},
         Withdraw(h, b)
  PROVE  Back'
<1>1. PICK step \in {"done", "check"} :
        /\ pc[h][b] = "withdraw" /\ Goto(h, b, step)
        /\ \/ reserved' = reserved \ {b} /\ UNCHANGED missed
           \/ UNCHANGED reserved /\ missed' = missed \cup {b}
        /\ UNCHANGED <<slot, now, booking, attempt, start, money, early, disturbed, wiped>>
  BY DEF Withdraw
<1>2. /\ pc'[h][b] = step
      /\ \A g \in Handler, z \in Booking : g # h \/ z # b => pc'[g][z] = pc[g][z] /\ left'[g][z] = left[g][z]
      /\ left' = left
  <2>1. step \in Step /\ TypeOK /\ h \in Handler
    BY DEF Step, IInv
  <2> QED BY <1>1, <2>1, Moves
<1>3. Returns(b) /\ Withdraws(b) /\ FirstHour(b)' = FirstHour(b)
  BY <1>1 DEF Back, FirstHour
<1>4. \A z \in Booking : z # b => Untouched(z)
  BY <1>1, <1>2 DEF Untouched
<1>5. pc'["create"][b] = pc["create"][b] /\ pc'["send"][b] = pc["send"][b] /\ (pc'["cancel"][b] # "none" <=> pc["cancel"][b] # "none")
  BY <1>1, <1>2
<1>6. \A g \in {"cancel", "expire"} : Releasing(g, b) => Releasing(g, b)'
  BY <1>1, <1>2 DEF Releasing
<1>7. Returns(b)'
  BY <1>1, <1>2, <1>3, <1>5, <1>6 DEF Returns, Gone
<1>8. Withdraws(b)'
  BY <1>1, <1>3, <1>5 DEF Withdraws
<1> QED BY <1>4, <1>7, <1>8, OneBooking

\* A handler that dies disturbs its booking.
LEMMA DeathsGiveBack ==
  ASSUME SlotAssumption, BookingAssumption, IInv, Back, NEW b \in Booking,
         JobFails(b) \/ \E h \in Handler : RequestDies(h, b)
  PROVE  Back'
<1>1. PICK h \in {"create", "cancel", "expire"}, step \in {"delayed", "failed"} :
        /\ GotoWith(h, b, step, {}) /\ disturbed' = disturbed \cup {b}
        /\ h = "create" => step = "failed" /\ pc[h][b] \in {"row", "reserve", "rollback", "undo", "ocpp",
                                                            "jobs", "jobsLater", "later"}
        /\ UNCHANGED <<slot, now, booking, start, reserved, money, early, wiped, missed>>
  <2>1. CASE JobFails(b)
    BY <2>1 DEF JobFails
  <2>2. ASSUME NEW h \in Handler, RequestDies(h, b)
        PROVE  /\ h \in {"create", "cancel"} /\ GotoWith(h, b, "failed", {}) /\ disturbed' = disturbed \cup {b}
               /\ h = "create" => pc[h][b] \in {"row", "reserve", "rollback", "undo", "ocpp",
                                                "jobs", "jobsLater", "later"}
               /\ UNCHANGED <<slot, now, booking, start, reserved, money, early, wiped, missed>>
    BY <2>2 DEF RequestDies
  <2> QED BY <2>1, <2>2
<1>2. /\ pc'[h][b] = step
      /\ \A g \in Handler, z \in Booking : g # h \/ z # b => pc'[g][z] = pc[g][z] /\ left'[g][z] = left[g][z]
  <2>1. step \in Step /\ TypeOK /\ h \in Handler /\ {} \in SUBSET Slot
    BY DEF Step, IInv
  <2> QED BY <1>1, <2>1, MovesWith
<1>3. Returns(b) /\ Withdraws(b)
  BY DEF Back
<1>4. \A z \in Booking : z # b => Untouched(z)
  BY <1>1, <1>2 DEF Untouched
<1>5. pc'["send"][b] = pc["send"][b] /\ (h # "create" => pc'["create"][b] = pc["create"][b] /\ left'["create"][b] = left["create"][b])
  BY <1>1, <1>2
<1>6. Returns(b)'
  BY <1>1, <1>2, <1>3, <1>5 DEF Returns, Gone
<1>7. Withdraws(b)'
  BY <1>1, <1>2, <1>3, <1>5 DEF Withdraws
<1> QED BY <1>4, <1>6, <1>7, OneBooking

LEMMA StartUseGivesBack ==
  ASSUME SlotAssumption, BookingAssumption, IInv, Back, StartUse
  PROVE  Back'
<1>1. PICK b \in Booking : /\ SetStatus(b, "USED")
                           /\ UNCHANGED <<slot, now, handlers, jobs, reserved, money, history>>
  BY DEF StartUse, IInv, Starting
<1>2. Status(b)' = "USED" /\ \A z \in Booking : z # b => booking'[z] = booking[z]
  BY <1>1, Writes DEF IInv
<1>3. Returns(b) /\ Withdraws(b)
  BY DEF Back
<1>4. \A z \in Booking : z # b => Untouched(z)
  BY <1>1, <1>2 DEF Untouched
<1>5. Returns(b)' /\ Withdraws(b)'
  BY <1>1, <1>2, <1>3 DEF Returns, Withdraws, Gone
<1> QED BY <1>4, <1>5, OneBooking

\* Steps that are about no booking.
LEMMA OthersGiveBack ==
  ASSUME SlotAssumption, BookingAssumption, IInv, Back,
         Tick \/ StartFind \/ StartAuthorise \/ (\E u \in User : Spend(u)) \/ UNCHANGED vars
  PROVE  Back'
<1>1. /\ UNCHANGED <<booking, pc, left, disturbed, missed>> /\ reserved' \subseteq reserved
      /\ \A s \in Slot : slot'[s] \in {slot[s], Nobody}
  <2>1. CASE Tick
    BY <2>1 DEF Tick, Expire
  <2>2. CASE StartFind \/ StartAuthorise \/ \E u \in User : Spend(u)
    BY <2>2 DEF StartFind, StartAuthorise, Spend
  <2>3. CASE UNCHANGED vars
    BY <2>3 DEF vars
  <2> QED BY <2>1, <2>2, <2>3
<1>2. ASSUME NEW z \in Booking PROVE Untouched(z)
  BY <1>1 DEF Untouched, SlotAssumption
<1> QED BY <1>2, UntouchedStays DEF Back

LEMMA InitBack == SlotAssumption /\ BookingAssumption /\ Init => Back
<1> SUFFICES ASSUME SlotAssumption, BookingAssumption, Init, NEW b \in Booking PROVE Returns(b) /\ Withdraws(b)
  BY DEF Back
<1>1. Gone(b) /\ \A h \in Handler : pc[h][b] = "none"
  BY DEF Init, Gone, SlotAssumption
<1>2. Status(b) = "NONE" /\ b \notin reserved
  BY DEF Init
<1> QED BY <1>1, <1>2 DEF Returns, Withdraws

LEMMA NextBack == SlotAssumption /\ BookingAssumption /\ IInv /\ Back /\ [Next]_vars => Back'
<1> SUFFICES ASSUME SlotAssumption, BookingAssumption, IInv, Back, [Next]_vars PROVE Back'
  OBVIOUS
<1>1. CASE Tick \/ StartFind \/ StartAuthorise \/ (\E u \in User : Spend(u)) \/ UNCHANGED vars
  BY <1>1, OthersGiveBack
<1>2. CASE StartUse
  BY <1>2, StartUseGivesBack
<1>3. ASSUME NEW b \in Booking, Create(b) PROVE Back'
  BY <1>3, CreateCheckGivesBack, CreateUserGivesBack, CreateRowGivesBack, CreateReserveGivesBack,
     CreateRollbackGivesBack, CreateUndoGivesBack, CreateOcppGivesBack, CreateJobGivesBack, CreateLaterGivesBack
  DEF Create
<1>4. ASSUME NEW b \in Booking, CancelRead(b) \/ CancelWrite(b) \/ Release(b) \/ ExpireRead(b) \/ ExpireWrite(b)
      PROVE  Back'
  BY <1>4, CancelReadGivesBack, EndsGiveBack, MovesGiveBack, ReleaseGetGivesBack, ReleaseDelGivesBack,
     WithdrawGivesBack DEF Release
<1>5. ASSUME NEW b \in Booking, PenaltyCheck(b) \/ PenaltyDeduct(b) \/ SendRead(b) \/ Send(b) \/ JobFails(b)
                                \/ \E h \in Handler : RequestDies(h, b)
      PROVE  Back'
  BY <1>5, MovesGiveBack, DeathsGiveBack
<1> QED BY <1>1, <1>2, <1>3, <1>4, <1>5 DEF Next

\* What a cancelled or expired booking still holds is on its way back: releases
\* cover its first hour, and cancelBooking its reservation.
LEMMA GivingBack == Spec => []Back
BY SlotAssumption, BookingAssumption, InitBack, NextBack, Inductive, PTL DEF Spec

\* Once the handlers of a cancelled or expired booking are through, and none died,
\* releaseTimeSlots has given back the whole first hour, whichever of cancelBooking
\* and handleBookingExpiry ran, or both at once.
THEOREM FirstHourIsReturned == Spec => []FirstHourReturned
<1>1. IInv /\ Back => FirstHourReturned
  <2> SUFFICES ASSUME IInv, Back, NEW b \in Booking, NEW h \in Slot, slot[h] = b,
                      Status(b) \in {"CANCELLED", "EXPIRED"}, Settled(b), h \in FirstHour(b)
               PROVE  FALSE
    BY DEF FirstHourReturned
  <2>1. PICK g \in {"cancel", "expire"} : Releasing(g, b)
    BY DEF Back, Returns, Settled
  <2> QED BY <2>1 DEF Releasing, Settled
<1> QED BY <1>1, Inductive, GivingBack, PTL

\* The charger holds no reservation for a cancelled booking whose handlers are
\* through, unless the withdrawal failed or a ReserveNow came after the cancelling.
THEOREM ReservationIsWithdrawn == Spec => []ReservationWithdrawn
<1>1. TypeOK /\ Back => ReservationWithdrawn
  <2> SUFFICES ASSUME TypeOK, Back, NEW b \in reserved, Status(b) = "CANCELLED", Settled(b), b \notin missed
               PROVE  FALSE
    BY DEF ReservationWithdrawn
  <2>1. b \in Booking
    BY DEF TypeOK
  <2> QED BY <2>1 DEF Back, Withdraws, Settled
<1> QED BY <1>1, TypeCorrect, GivingBack, PTL
=============================================================================
