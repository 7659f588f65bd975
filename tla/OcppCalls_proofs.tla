---------------------------- MODULE OcppCalls_proofs ----------------------------
(***************************************************************************)
(* Theorems about OcppCalls, for any chargers, sockets, calls of the       *)
(* server and calls of the chargers.                                       *)
(***************************************************************************)
EXTENDS OcppCalls, TLAPS

-----------------------------------------------------------------------------
\* The inductive invariant

\* What a call knows agrees with what the charger did.
Honest(c) ==
  /\ c.at \in {"none", "resolving"} => c.wire = "none"
  /\ c.at \in {"none", "resolving", "pending"} <=> c.outcome = "none"
  /\ c.wire \in {"none", "out"} => ~c.done
  /\ c.wire = "back" => c.answer # "none" /\ (c.done <=> c.answer = "accepted")
  /\ c.outcome = "accepted" => c.done
  /\ c.outcome \in {"offline", "failed", "rejected", "callerror"} =>
       ~c.done /\ c.wire \notin {"out", "back"}

AllHonest == \A k \in Call : Honest(call[k])

\* A socket that is named has been connected, by the charger that is meant.
Named ==
  /\ \A c \in Charger : chargers[c] # None =>
       Of[chargers[c]] = c /\ ready[chargers[c]] # "none"
  /\ \A k \in Call : call[k].ws # None =>
       Of[call[k].ws] = Target[k] /\ ready[call[k].ws] # "none"
  /\ \A k \in Call : call[k].outcome = "disconnected" => call[k].ws # None

\* A charger that is on a socket has left those before it.
Left == \A w \in Socket : \A v \in Before(w) :
  ready[w] # "none" => ready[v] # "none" /\ ~peer[v]

SocketsType ==
  /\ peer \in [Socket -> BOOLEAN]
  /\ ready \in [Socket -> {"none", "open", "closing", "leaving", "closed"}]
  /\ chargers \in [Charger -> Socket \cup {None}]

CallType ==
  /\ call \in [Call -> CallRow]
  /\ \A k \in Call : call[k].at \in {"resolving", "pending"} => call[k].ws \in Socket

OthersType ==
  /\ listening \in [Socket -> BOOLEAN] /\ isAlive \in [Socket -> BOOLEAN]
  /\ connectionState \in [Charger -> {"CONNECTED", "DISCONNECTED"}]
  /\ blanked \in [Charger -> BOOLEAN]
  /\ request \in [Request -> [at : {"none", "sent", "handling", "answered", "ignored", "missed", "lost"},
                              ws : Socket \cup {None}, kind : Kind]]
  /\ crossed \in [Charger -> BOOLEAN]

IInv ==
  /\ SocketsType /\ CallType /\ OthersType
  /\ AllHonest /\ Named /\ Left /\ CancelledByItsOwn

LEMMA TypeParts == TypeOK <=> SocketsType /\ CallType /\ OthersType
BY DEF TypeOK, SocketsType, CallType, OthersType

-----------------------------------------------------------------------------
\* The sockets grow old and the calls go on: what the steps have in common

\* A socket is connected once, and one that is closing stays so; a peer that has
\* left does not come back.
SocketsAge == \A w \in Socket :
  /\ ready[w] # "none" => ready'[w] # "none" /\ (~peer[w] => ~peer'[w])
  /\ ready[w] \in {"leaving", "closed"} => ready'[w] \in {"leaving", "closed"}

\* A call keeps its socket, and is not given up as disconnected here.
CallKeeps(k) ==
  /\ call'[k].ws # call[k].ws =>
       call'[k].ws = chargers[Target[k]] /\ call[k].outcome = "none"
  /\ call'[k].outcome = "disconnected" =>
       call[k].outcome = "disconnected" /\ call'[k].ws = call[k].ws

LEMMA CallsKeep ==
  ASSUME CallsAssumption, SocketsType, CallType, Named, CancelledByItsOwn, SocketsAge,
         CallType', \A k \in Call : CallKeeps(k)
  PROVE  /\ \A k \in Call : call'[k].ws # None =>
              Of[call'[k].ws] = Target[k] /\ ready'[call'[k].ws] # "none"
         /\ \A k \in Call : call'[k].outcome = "disconnected" => call'[k].ws # None
         /\ CancelledByItsOwn'
<1> USE DEF None
<1>1. ASSUME NEW k \in Call, call'[k].ws # None
      PROVE  Of[call'[k].ws] = Target[k] /\ ready'[call'[k].ws] # "none"
  <2>1. call'[k].ws \in Socket
    BY <1>1 DEF CallType, CallRow
  <2>2. Target[k] \in Charger
    BY DEF CallsAssumption
  <2>3. CASE call'[k].ws = call[k].ws
    BY <1>1, <2>1, <2>3 DEF Named, SocketsAge
  <2>4. CASE call'[k].ws # call[k].ws
    <3>1. call'[k].ws = chargers[Target[k]] /\ chargers[Target[k]] # None
      BY <1>1, <2>4 DEF CallKeeps
    <3>2. Of[call'[k].ws] = Target[k] /\ ready[call'[k].ws] # "none"
      BY <2>2, <3>1 DEF Named
    <3> QED BY <2>1, <3>2 DEF SocketsAge
  <2> QED BY <2>3, <2>4
<1>2. ASSUME NEW k \in Call, call'[k].outcome = "disconnected"
      PROVE  /\ call'[k].ws # None
             /\ \E w \in Socket : Of[w] = Target[k] /\ ready'[w] \in {"leaving", "closed"}
                                  /\ (w <= call'[k].ws \/ ~peer'[call'[k].ws])
  <2>1. call[k].outcome = "disconnected" /\ call'[k].ws = call[k].ws
    BY <1>2 DEF CallKeeps
  <2>2. call[k].ws \in Socket /\ ready[call[k].ws] # "none"
    BY <2>1 DEF Named, CallType, CallRow
  <2>3. PICK w \in Socket : Of[w] = Target[k] /\ ready[w] \in {"leaving", "closed"}
                            /\ (w <= call[k].ws \/ ~peer[call[k].ws])
    BY <2>1 DEF CancelledByItsOwn
  <2>4. ready'[w] \in {"leaving", "closed"} /\ (~peer[call[k].ws] => ~peer'[call[k].ws])
    BY <2>2, <2>3 DEF SocketsAge
  <2> QED BY <2>1, <2>2, <2>3, <2>4
<1> QED BY <1>1, <1>2 DEF CancelledByItsOwn

-----------------------------------------------------------------------------
\* Steps of a single call

LEMMA OneCall ==
  ASSUME CallsAssumption, IInv, NEW k \in Call, NEW c \in CallRow,
         call' = [call EXCEPT ![k] = c], UNCHANGED <<sockets, registry, request>>,
         c.at \in {"resolving", "pending"} => c.ws \in Socket,
         Honest(c),
         c.ws # call[k].ws => c.ws = chargers[Target[k]] /\ call[k].outcome = "none",
         c.outcome = "disconnected" => call[k].outcome = "disconnected" /\ c.ws = call[k].ws
  PROVE  IInv'
<1>1. SocketsType' /\ OthersType' /\ Left'
  BY DEF IInv, SocketsType, OthersType, Left, sockets, registry
<1>2. CallType'
  BY DEF IInv, CallType
<1>3. AllHonest'
  <2> SUFFICES ASSUME NEW j \in Call PROVE Honest(call'[j])
    BY DEF AllHonest, Honest
  <2>1. call'[j] = c \/ call'[j] = call[j]
    BY DEF IInv, CallType
  <2> QED BY <2>1 DEF IInv, AllHonest
<1>4. \A j \in Call : CallKeeps(j)
  BY DEF IInv, CallType, CallKeeps
<1>5. SocketsAge
  BY DEF SocketsAge, sockets
<1>6. \A d \in Charger : chargers'[d] # None => Of[chargers'[d]] = d /\ ready'[chargers'[d]] # "none"
  BY DEF IInv, Named, sockets, registry
<1>7. Named' /\ CancelledByItsOwn'
  BY <1>2, <1>4, <1>5, <1>6, CallsKeep DEF IInv, Named
<1> QED BY <1>1, <1>2, <1>3, <1>7 DEF IInv

LEMMA SendCallHonest ==
  ASSUME NEW k \in Call, NEW w \in Socket, CallType, AllHonest, call[k].at \in {"none", "resolving"}
  PROVE  /\ SendCall(k, w) \in CallRow /\ Honest(SendCall(k, w))
         /\ SendCall(k, w).at = "pending" /\ SendCall(k, w).ws = w
         /\ SendCall(k, w).outcome = "none"
BY DEF SendCall, CallType, CallRow, AllHonest, Honest

\* A call that ends without having been sent.
LEMMA UnsentHonest ==
  ASSUME NEW k \in Call, NEW outcome \in {"offline", "failed"},
         CallType, AllHonest, call[k].at \in {"none", "resolving"}
  PROVE  /\ Settle(k, outcome) \in CallRow /\ Honest(Settle(k, outcome))
         /\ Settle(k, outcome).at = "ended" /\ Settle(k, outcome).ws = call[k].ws
         /\ Settle(k, outcome).outcome = outcome
BY DEF Settle, CallType, CallRow, AllHonest, Honest

LEMMA CommandStep ==
  ASSUME CallsAssumption, IInv, NEW k \in Call, Command(k)
  PROVE  IInv'
<1> DEFINE w == chargers[Target[k]]
<1>1. call[k].at = "none" /\ UNCHANGED <<sockets, registry, request>> /\ call[k].outcome = "none"
  BY DEF Command, IInv, AllHonest, Honest
<1>2. CallType /\ AllHonest
  BY DEF IInv
<1>3. CASE ~IsChargerOnline(Target[k])
  <2>1. call' = [call EXCEPT ![k] = Settle(k, "offline")]
    BY <1>3 DEF Command
  <2> HIDE DEF w
  <2> QED BY <1>1, <1>2, <2>1, UnsentHonest, OneCall
<1>4. CASE IsChargerOnline(Target[k])
  <2>1. w \in Socket
    BY <1>4 DEF IsChargerOnline, IInv, SocketsType, CallsAssumption
  <2>2. CASE k \in Slow
    <3> DEFINE c == [call[k] EXCEPT !.at = "resolving", !.ws = w]
    <3>1. call' = [call EXCEPT ![k] = c]
      BY <1>4, <2>2 DEF Command
    <3>2. c \in CallRow /\ Honest(c) /\ c.at = "resolving" /\ c.ws = w /\ c.outcome = "none"
      BY <1>1, <1>2, <2>1 DEF CallType, CallRow, AllHonest, Honest
    <3> HIDE DEF c
    <3> QED BY <1>1, <2>1, <3>1, <3>2, OneCall
  <2>3. CASE k \notin Slow
    <3>1. call' = [call EXCEPT ![k] = SendCall(k, w)]
      BY <1>4, <2>3 DEF Command
    <3>2. /\ SendCall(k, w) \in CallRow /\ Honest(SendCall(k, w))
          /\ SendCall(k, w).ws = w /\ SendCall(k, w).outcome = "none"
      BY <1>1, <1>2, <2>1, SendCallHonest
    <3> QED BY <1>1, <2>1, <3>1, <3>2, OneCall
  <2> QED BY <2>2, <2>3
<1> QED BY <1>3, <1>4

LEMMA ResolveStep ==
  ASSUME CallsAssumption, IInv, NEW k \in Call, Resolve(k)
  PROVE  IInv'
<1>1. call[k].at = "resolving" /\ UNCHANGED <<sockets, registry, request>>
  BY DEF Resolve
<1>2. CallType /\ AllHonest /\ call[k].ws \in Socket
  BY <1>1 DEF IInv, CallType
<1>3. CASE call' = [call EXCEPT ![k] = SendCall(k, call[k].ws)]
  BY <1>1, <1>2, <1>3, SendCallHonest, OneCall
<1>4. CASE call' = [call EXCEPT ![k] = Settle(k, "failed")]
  BY <1>1, <1>2, <1>4, UnsentHonest, OneCall
<1> QED BY <1>3, <1>4 DEF Resolve

LEMMA ExecuteStep ==
  ASSUME CallsAssumption, IInv, NEW k \in Call, Execute(k)
  PROVE  IInv'
<1>1. call[k].wire = "out" /\ UNCHANGED <<sockets, registry, request>>
  BY DEF Execute
<1>2. PICK answer \in {"accepted", "rejected", "callerror"} :
        call' = [call EXCEPT ![k] = [call[k] EXCEPT !.wire = "back", !.answer = answer, !.done = answer = "accepted"]]
  BY DEF Execute
<1> DEFINE c == [call[k] EXCEPT !.wire = "back", !.answer = answer, !.done = answer = "accepted"]
<1>3. call[k] \in CallRow /\ Honest(call[k])
  BY DEF IInv, CallType, AllHonest
<1>4. c \in CallRow /\ Honest(c) /\ c.at = call[k].at /\ c.ws = call[k].ws /\ c.outcome = call[k].outcome
  BY <1>1, <1>3 DEF CallRow, Honest
<1>5. call' = [call EXCEPT ![k] = c]
  BY <1>2
<1>6. c.at \in {"resolving", "pending"} => c.ws \in Socket
  BY <1>4 DEF IInv, CallType
<1> HIDE DEF c
<1> QED BY <1>1, <1>4, <1>5, <1>6, OneCall

LEMMA AnswerStep ==
  ASSUME CallsAssumption, IInv, NEW k \in Call, Answer(k)
  PROVE  IInv'
<1>1. call[k].wire = "back" /\ UNCHANGED <<sockets, registry, request>>
  BY DEF Answer
<1>2. call[k] \in CallRow /\ Honest(call[k])
  BY DEF IInv, CallType, AllHonest
<1> DEFINE c == [(IF k \in Pending /\ listening[call[k].ws] THEN Settle(k, call[k].answer) ELSE call[k])
                   EXCEPT !.wire = "gone", !.answer = "none"]
<1>3. call' = [call EXCEPT ![k] = c]
  BY DEF Answer, HandleCallResult
<1>4. CASE k \in Pending /\ listening[call[k].ws]
  <2>1. c = [call[k] EXCEPT !.at = "ended", !.outcome = call[k].answer, !.wire = "gone", !.answer = "none"]
    BY <1>2, <1>4 DEF Settle, CallRow
  <2>2. call[k].at = "pending"
    BY <1>4 DEF Pending
  <2>3. c \in CallRow /\ Honest(c) /\ c.at = "ended" /\ c.ws = call[k].ws /\ c.outcome # "disconnected"
    BY <1>1, <1>2, <2>1, <2>2 DEF CallRow, Honest
  <2> HIDE DEF c
  <2> QED BY <1>1, <1>3, <2>3, OneCall
<1>5. CASE ~(k \in Pending /\ listening[call[k].ws])
  <2>1. c = [call[k] EXCEPT !.wire = "gone", !.answer = "none"]
    BY <1>5
  <2>2. c \in CallRow /\ Honest(c) /\ c.at = call[k].at /\ c.ws = call[k].ws /\ c.outcome = call[k].outcome
    BY <1>1, <1>2, <2>1 DEF CallRow, Honest
  <2>3. c.at \in {"resolving", "pending"} => c.ws \in Socket
    BY <2>2 DEF IInv, CallType
  <2> HIDE DEF c
  <2> QED BY <1>1, <1>3, <2>2, <2>3, OneCall
<1> QED BY <1>4, <1>5

LEMMA TimerStep ==
  ASSUME CallsAssumption, IInv, NEW k \in Call, Timer(k)
  PROVE  IInv'
<1> DEFINE c == [call[k] EXCEPT !.at = "ended", !.outcome = "timeout"]
<1>1. call[k] \in CallRow /\ Honest(call[k])
  BY DEF IInv, CallType, AllHonest
<1>2. call[k].at = "pending" /\ UNCHANGED <<sockets, registry, request>> /\ call' = [call EXCEPT ![k] = c]
  BY DEF Timer, Pending, Settle
<1>3. c \in CallRow /\ Honest(c) /\ c.at = "ended" /\ c.ws = call[k].ws /\ c.outcome = "timeout"
  BY <1>1, <1>2 DEF CallRow, Honest
<1> HIDE DEF c
<1> QED BY <1>2, <1>3, OneCall

-----------------------------------------------------------------------------
\* Steps of the sockets and of the calls of the chargers

NamedSockets == \A c \in Charger : chargers[c] # None =>
  Of[chargers[c]] = c /\ ready[chargers[c]] # "none"

LEMMA QuietCalls ==
  ASSUME CallsAssumption, IInv, SocketsType', OthersType', Left', SocketsAge, NamedSockets',
         UNCHANGED call
  PROVE  IInv'
<1>1. CallType' /\ AllHonest'
  BY DEF IInv, CallType, AllHonest
<1>2. \A k \in Call : CallKeeps(k)
  BY DEF CallKeeps
<1>3. Named' /\ CancelledByItsOwn'
  BY <1>1, <1>2, CallsKeep DEF IInv, Named, NamedSockets
<1> QED BY <1>1, <1>3 DEF IInv

\* Only what IInv does not speak of changes.
LEMMA AsideStep ==
  ASSUME CallsAssumption, IInv, OthersType', UNCHANGED <<peer, ready, chargers, call>>
  PROVE  IInv'
<1>1. SocketsType' /\ Left' /\ SocketsAge /\ NamedSockets'
  BY DEF IInv, SocketsType, Left, SocketsAge, Named, NamedSockets
<1> QED BY <1>1, QuietCalls

LEMMA ConnectStep ==
  ASSUME CallsAssumption, IInv, NEW w \in Lively, Connect(w)
  PROVE  IInv'
<1>1. w \in Socket /\ Of[w] \in Charger
  BY DEF Lively, CallsAssumption
<1>2. SocketsType'
  BY <1>1 DEF Connect, Register, IInv, SocketsType
<1>3. OthersType'
  BY <1>1 DEF Connect, IInv, OthersType
<1>4. SocketsAge
  BY <1>1 DEF Connect, IInv, SocketsType, SocketsAge
<1>5. NamedSockets'
  BY <1>1, <1>2 DEF Connect, Register, IInv, SocketsType, Named, NamedSockets
<1>6. Left'
  <2> SUFFICES ASSUME NEW x \in Socket, NEW v \in Before(x), ready'[x] # "none"
               PROVE  ready'[v] # "none" /\ ~peer'[v]
    BY DEF Left, Before
  <2>1. v \in Socket /\ v \in Nat /\ x \in Nat /\ v < x
    BY DEF Before, CallsAssumption
  <2>2. CASE x = w
    BY <1>1, <2>1, <2>2 DEF Connect, IInv, SocketsType
  <2>3. CASE x # w
    <3>1. ready[x] # "none"
      BY <1>1, <2>3 DEF Connect, IInv, SocketsType
    <3>2. ready[v] # "none" /\ ~peer[v]
      BY <3>1 DEF IInv, Left
    <3>3. v # w
      BY <3>2 DEF Connect
    <3> QED BY <1>1, <2>1, <3>2, <3>3 DEF Connect, IInv, SocketsType
  <2> QED BY <2>2, <2>3
<1> QED BY <1>2, <1>3, <1>4, <1>5, <1>6, QuietCalls DEF Connect

\* The server finds a socket closed, or the table has been told.
Closes(w) ==
  \/ ready'[w] = ready[w]
  \/ ready[w] = "open" /\ ready'[w] = "closing"
  \/ ready[w] = "leaving" /\ ready'[w] = "closed"

LEMMA ClosingStep ==
  ASSUME CallsAssumption, IInv, OthersType', UNCHANGED <<peer, chargers, call>>,
         ready' \in [Socket -> {"none", "open", "closing", "leaving", "closed"}],
         \A w \in Socket : Closes(w)
  PROVE  IInv'
<1>1. SocketsType' /\ SocketsAge
  BY DEF IInv, SocketsType, SocketsAge, Closes
<1>2. \A w \in Socket : ready'[w] = "none" <=> ready[w] = "none"
  BY DEF Closes
<1>3. NamedSockets'
  <2> SUFFICES ASSUME NEW c \in Charger, chargers[c] # None
               PROVE  Of[chargers[c]] = c /\ ready'[chargers[c]] # "none"
    BY DEF NamedSockets
  <2>1. chargers[c] \in Socket
    BY DEF IInv, SocketsType
  <2>2. Of[chargers[c]] = c /\ ready[chargers[c]] # "none"
    BY DEF IInv, Named
  <2> QED BY <1>2, <2>1, <2>2
<1>4. Left'
  <2> SUFFICES ASSUME NEW w \in Socket, NEW v \in Before(w), ready'[w] # "none"
               PROVE  ready'[v] # "none" /\ ~peer[v]
    BY DEF Left, Before
  <2> QED BY <1>2 DEF IInv, Left, Before
<1> QED BY <1>1, <1>3, <1>4, QuietCalls

LEMMA LostRequests ==
  ASSUME OthersType, NEW w, NEW at \in {"missed", "lost"},
         request' = [r \in Request |-> IF request[r].ws = w /\ request[r].at = "sent"
                                       THEN Finished(at) ELSE request[r]]
  PROVE  request' \in [Request -> [at : {"none", "sent", "handling", "answered", "ignored", "missed", "lost"},
                                   ws : Socket \cup {None}, kind : Kind]]
BY DEF OthersType, Finished, NoRequest, Kind

LEMMA BreakStep ==
  ASSUME CallsAssumption, IInv, NEW w \in Lively, Break(w)
  PROVE  IInv'
<1>1. w \in Socket
  BY DEF Lively
<1>2. SocketsType' /\ SocketsAge
  BY <1>1 DEF Break, registry, IInv, SocketsType, SocketsAge
<1>3. OthersType'
  <2>1. OthersType /\ "lost" \in {"missed", "lost"}
    BY DEF IInv
  <2>2. request' \in [Request -> [at : {"none", "sent", "handling", "answered", "ignored", "missed", "lost"},
                                  ws : Socket \cup {None}, kind : Kind]]
    BY <2>1, LostRequests DEF Break
  <2> QED BY <2>1, <2>2 DEF Break, OthersType, registry
<1>4. ASSUME NEW k \in Call
      PROVE  /\ call'[k] \in CallRow /\ Honest(call'[k])
             /\ call'[k].at = call[k].at /\ call'[k].ws = call[k].ws
             /\ call'[k].outcome = call[k].outcome
  <2>1. call[k] \in CallRow /\ Honest(call[k])
    BY DEF IInv, CallType, AllHonest
  <2>2. \/ call'[k] = call[k]
        \/ call[k].wire \in {"out", "back"} /\ call'[k] = [call[k] EXCEPT !.wire = "gone", !.answer = "none"]
    BY DEF Break
  <2> QED BY <2>1, <2>2 DEF CallRow, Honest
<1>5. CallType'
  <2>1. call' = [k \in Call |-> call'[k]]
    BY DEF Break
  <2> QED BY <1>4, <2>1 DEF IInv, CallType
<1>6. AllHonest' /\ \A k \in Call : CallKeeps(k)
  BY <1>4 DEF AllHonest, Honest, CallKeeps
<1>7. NamedSockets'
  BY DEF Break, registry, IInv, Named, NamedSockets
<1>8. Left'
  BY <1>1 DEF Break, IInv, Left, SocketsType, Before
<1>9. Named' /\ CancelledByItsOwn'
  BY <1>2, <1>5, <1>6, <1>7, CallsKeep DEF IInv, Named, NamedSockets
<1> QED BY <1>2, <1>3, <1>5, <1>6, <1>8, <1>9 DEF IInv

LEMMA CloseEventStep ==
  ASSUME CallsAssumption, IInv, NEW w \in Socket, CloseEvent(w)
  PROVE  IInv'
<1>1. Of[w] \in Charger /\ ready[w] = "closing"
  BY DEF CloseEvent, CallsAssumption
<1>2. /\ peer' = [peer EXCEPT ![w] = FALSE]
      /\ ready' = [ready EXCEPT ![w] = IF listening[w] THEN "leaving" ELSE "closed"]
      /\ chargers' = IF listening[w] THEN [chargers EXCEPT ![Of[w]] = None] ELSE chargers
  BY DEF CloseEvent
<1>3. SocketsType' /\ SocketsAge
  BY <1>1, <1>2 DEF IInv, SocketsType, SocketsAge
<1>4. OthersType'
  <2>1. OthersType /\ "lost" \in {"missed", "lost"}
    BY DEF IInv
  <2>2. request' \in [Request -> [at : {"none", "sent", "handling", "answered", "ignored", "missed", "lost"},
                                  ws : Socket \cup {None}, kind : Kind]]
    BY <2>1, LostRequests DEF CloseEvent
  <2>3. crossed' \in [Charger -> BOOLEAN]
    <3>1. CASE listening[w]
      BY <1>1, <2>1, <3>1 DEF CloseEvent, OthersType
    <3>2. CASE ~listening[w]
      BY <2>1, <3>2 DEF CloseEvent, OthersType
    <3> QED BY <3>1, <3>2
  <2> QED BY <2>1, <2>2, <2>3 DEF CloseEvent, OthersType
<1>5. NamedSockets'
  <2> SUFFICES ASSUME NEW c \in Charger, chargers'[c] # None
               PROVE  Of[chargers'[c]] = c /\ ready'[chargers'[c]] # "none"
    BY DEF NamedSockets
  <2>1. chargers'[c] = chargers[c] /\ chargers[c] \in Socket
    BY <1>1, <1>2 DEF IInv, SocketsType, None
  <2>2. Of[chargers[c]] = c /\ ready[chargers[c]] # "none"
    BY <2>1 DEF IInv, Named
  <2> QED BY <1>2, <2>1, <2>2 DEF IInv, SocketsType
<1>6. Left'
  <2> SUFFICES ASSUME NEW x \in Socket, NEW v \in Before(x), ready'[x] # "none"
               PROVE  ready'[v] # "none" /\ ~peer'[v]
    BY DEF Left, Before
  <2>1. ready[x] # "none" /\ v \in Socket
    BY <1>1, <1>2 DEF IInv, SocketsType, Before
  <2>2. ready[v] # "none" /\ ~peer[v]
    BY <2>1 DEF IInv, Left
  <2> QED BY <1>2, <2>1, <2>2 DEF IInv, SocketsType
<1>7. CASE ~listening[w]
  <2>1. UNCHANGED call
    BY <1>7 DEF CloseEvent
  <2> QED BY <1>3, <1>4, <1>5, <1>6, <2>1, QuietCalls
<1>8. CASE listening[w]
  <2>1. \A k \in Call : \/ call'[k] = call[k]
                       \/ /\ Target[k] = Of[w] /\ call[k].at = "pending"
                          /\ call'[k] = [call[k] EXCEPT !.at = "ended", !.outcome = "disconnected"]
    BY <1>8 DEF CloseEvent, CancelPendingMessages, Pending, Settle
  <2>2. ASSUME NEW k \in Call
        PROVE  /\ call'[k] \in CallRow /\ Honest(call'[k]) /\ call'[k].ws = call[k].ws
               /\ call'[k].at = call[k].at \/ call'[k].at = "ended"
    <3>1. call[k] \in CallRow /\ Honest(call[k])
      BY DEF IInv, CallType, AllHonest
    <3>2. CASE call'[k] = call[k]
      BY <3>1, <3>2
    <3>3. CASE /\ call[k].at = "pending"
               /\ call'[k] = [call[k] EXCEPT !.at = "ended", !.outcome = "disconnected"]
      BY <3>1, <3>3 DEF CallRow, Honest
    <3> QED BY <2>1, <3>2, <3>3
  <2>3. CallType'
    <3>1. call' = [k \in Call |-> call'[k]]
      BY <1>8 DEF CloseEvent, CancelPendingMessages
    <3> QED BY <2>2, <3>1 DEF IInv, CallType
  <2>4. AllHonest'
    BY <2>2 DEF AllHonest, Honest
  <2>5. ASSUME NEW k \in Call, call[k].ws # None
        PROVE  Of[call[k].ws] = Target[k] /\ ready'[call[k].ws] # "none"
    <3>1. call[k].ws \in Socket
      BY <2>5 DEF IInv, CallType, CallRow
    <3>2. Of[call[k].ws] = Target[k] /\ ready[call[k].ws] # "none"
      BY <2>5 DEF IInv, Named
    <3> QED BY <1>3, <3>1, <3>2 DEF SocketsAge
  <2>6. ASSUME NEW k \in Call, call'[k].outcome = "disconnected"
        PROVE  /\ call[k].ws # None
               /\ \E v \in Socket : Of[v] = Target[k] /\ ready'[v] \in {"leaving", "closed"}
                                    /\ (v <= call[k].ws \/ ~peer'[call[k].ws])
    <3>1. CASE call'[k] = call[k]
      <4>1. call[k].ws # None /\ call[k].ws \in Socket /\ ready[call[k].ws] # "none"
        BY <2>6, <3>1 DEF IInv, Named, CallType, CallRow
      <4>2. PICK v \in Socket : Of[v] = Target[k] /\ ready[v] \in {"leaving", "closed"}
                                /\ (v <= call[k].ws \/ ~peer[call[k].ws])
        BY <2>6, <3>1 DEF IInv, CancelledByItsOwn
      <4>3. ready'[v] \in {"leaving", "closed"} /\ (~peer[call[k].ws] => ~peer'[call[k].ws])
        BY <1>3, <4>1, <4>2 DEF SocketsAge
      <4> QED BY <4>1, <4>2, <4>3
    <3>2. CASE Target[k] = Of[w] /\ call[k].at = "pending"
      <4>1. call[k].ws \in Socket /\ call[k].ws # None
        BY <3>2 DEF IInv, CallType, CallsAssumption, None
      <4>2. Of[call[k].ws] = Of[w] /\ ready'[w] \in {"leaving", "closed"} /\ ready[w] # "none"
        BY <1>1, <1>2, <3>2, <4>1 DEF IInv, Named, SocketsType
      <4>3. w <= call[k].ws \/ call[k].ws \in Before(w)
        <5>1. call[k].ws \in Nat /\ w \in Nat
          BY <4>1 DEF CallsAssumption
        <5>2. w <= call[k].ws \/ call[k].ws < w
          BY <5>1
        <5> QED BY <4>1, <4>2, <5>2 DEF Before
      <4>4. call[k].ws \in Before(w) => ~peer'[call[k].ws]
        BY <1>2, <4>1, <4>2 DEF IInv, Left, SocketsType
      <4> QED BY <3>2, <4>1, <4>2, <4>3, <4>4
    <3> QED BY <2>1, <3>1, <3>2
  <2>7. Named' /\ CancelledByItsOwn'
    BY <1>5, <2>2, <2>5, <2>6 DEF Named, NamedSockets, CancelledByItsOwn
  <2> QED BY <1>3, <1>4, <1>6, <2>3, <2>4, <2>7 DEF IInv
<1> QED BY <1>7, <1>8

LEMMA InitIInv == CallsAssumption /\ Init => IInv
<1> SUFFICES ASSUME CallsAssumption, Init PROVE IInv
  OBVIOUS
<1>1. SocketsType
  <2>1. ASSUME NEW c \in Charger PROVE chargers[c] \in Socket \cup {None}
    BY DEF Init, CallsAssumption
  <2>2. chargers = [c \in Charger |-> chargers[c]]
    BY DEF Init
  <2>3. chargers \in [Charger -> Socket \cup {None}]
    BY <2>1, <2>2
  <2> QED BY <2>3 DEF Init, SocketsType
<1>2. CallType
  BY DEF Init, CallType, CallRow, NoCall, None
<1>3. OthersType
  BY DEF Init, OthersType, NoRequest, Kind, None
<1>4. AllHonest
  BY DEF Init, AllHonest, Honest, NoCall
<1>5. Named
  <2>1. ASSUME NEW c \in Charger, chargers[c] # None
        PROVE  Of[chargers[c]] = c /\ chargers[c] \in Silent
    BY <2>1 DEF Init
  <2>2. \A k \in Call : call[k].ws = None /\ call[k].outcome # "disconnected"
    BY DEF Init, NoCall
  <2> QED BY <2>1, <2>2 DEF Init, Named, CallsAssumption
<1>6. Left
  <2> SUFFICES ASSUME NEW w \in Socket, NEW v \in Before(w), ready[w] # "none"
               PROVE  FALSE
    BY DEF Left
  <2>1. w \in Silent
    BY DEF Init
  <2>2. v \in Socket /\ Of[v] = Of[w] /\ v < w
    BY DEF Before
  <2>3. v = w
    BY <2>1, <2>2 DEF CallsAssumption
  <2> QED BY <2>2, <2>3 DEF CallsAssumption
<1>7. CancelledByItsOwn
  BY DEF Init, CancelledByItsOwn, NoCall
<1> QED BY <1>1, <1>2, <1>3, <1>4, <1>5, <1>6, <1>7 DEF IInv

LEMMA NextIInv == CallsAssumption /\ IInv /\ [Next]_vars => IInv'
<1> SUFFICES ASSUME CallsAssumption, IInv, [Next]_vars PROVE IInv'
  OBVIOUS
<1>0. OthersType /\ SocketsType
  BY DEF IInv
<1>1. CASE UNCHANGED vars
  <2>1. UNCHANGED <<peer, ready, chargers, call>> /\ OthersType'
    BY <1>0, <1>1 DEF vars, sockets, registry, OthersType
  <2> QED BY <2>1, AsideStep
<1>2. CASE Network
  <2>1. PICK w \in Lively : \/ Connect(w) \/ Break(w) \/ Reset(w) \/ Pong(w)
                            \/ \E r \in Request : Send(r, w)
    BY <1>2 DEF Network
  <2>2. w \in Socket
    BY DEF Lively
  <2>3. CASE Reset(w)
    <3>1. OthersType' /\ UNCHANGED <<peer, chargers, call>>
      BY <1>0, <2>2, <2>3 DEF Reset, registry, OthersType
    <3>2. /\ ready' \in [Socket -> {"none", "open", "closing", "leaving", "closed"}]
          /\ \A v \in Socket : Closes(v)
      BY <1>0, <2>2, <2>3 DEF Reset, SocketsType, Closes
    <3> QED BY <3>1, <3>2, ClosingStep
  <2>4. CASE Pong(w)
    <3>1. OthersType' /\ UNCHANGED <<peer, ready, chargers, call>>
      BY <1>0, <2>2, <2>4 DEF Pong, registry, OthersType
    <3> QED BY <3>1, AsideStep
  <2>5. ASSUME NEW r \in Request, Send(r, w) PROVE IInv'
    <3>1. OthersType' /\ UNCHANGED <<peer, ready, chargers, call>>
      BY <1>0, <2>2, <2>5 DEF Send, sockets, registry, OthersType, Kind
    <3> QED BY <3>1, AsideStep
  <2> QED BY <2>1, <2>3, <2>4, <2>5, ConnectStep, BreakStep
<1>3. CASE Tick
  <2>1. OthersType' /\ UNCHANGED <<peer, chargers, call>>
    BY <1>0, <1>3 DEF Tick, registry, OthersType
  <2>2. /\ ready' \in [Socket -> {"none", "open", "closing", "leaving", "closed"}]
        /\ \A v \in Socket : Closes(v)
    BY <1>0, <1>3 DEF Tick, SocketsType, Closes
  <2> QED BY <2>1, <2>2, ClosingStep
<1>4. ASSUME NEW w \in Socket, Attach(w) PROVE IInv'
  <2>1. Of[w] \in Charger /\ (ready[w] = "open") \in BOOLEAN
    BY DEF CallsAssumption
  <2>2. OthersType' /\ UNCHANGED <<peer, ready, chargers, call>>
    BY <1>0, <1>4, <2>1 DEF Attach, Reconnected, OthersType
  <2> QED BY <2>2, AsideStep
<1>5. ASSUME NEW w \in Socket, Leave(w) PROVE IInv'
  <2>1. Of[w] \in Charger
    BY DEF CallsAssumption
  <2>2. crossed' \in [Charger -> BOOLEAN] /\ connectionState' \in [Charger -> {"CONNECTED", "DISCONNECTED"}]
    BY <1>0, <1>5, <2>1 DEF Leave, OthersType
  <2>3. OthersType' /\ UNCHANGED <<peer, chargers, call>>
    BY <1>0, <1>5, <2>2 DEF Leave, OthersType
  <2>4. /\ ready' \in [Socket -> {"none", "open", "closing", "leaving", "closed"}]
        /\ \A v \in Socket : Closes(v)
    BY <1>0, <1>5 DEF Leave, SocketsType, Closes
  <2> QED BY <2>3, <2>4, ClosingStep
<1>6. ASSUME NEW r \in Request, Receive(r) PROVE IInv'
  <2>1. request[r].ws \in Socket \cup {None}
    BY <1>0 DEF OthersType
  <2>2. PICK kind \in Kind : request' = [request EXCEPT ![r] = Route(request[r].ws, kind)]
    BY <1>6 DEF Receive
  <2>3. Route(request[r].ws, kind) \in
          [at : {"none", "sent", "handling", "answered", "ignored", "missed", "lost"}, ws : Socket \cup {None}, kind : Kind]
    BY <2>1 DEF Route, Finished, NoRequest, Kind, None
  <2>4. OthersType' /\ UNCHANGED <<peer, ready, chargers, call>>
    BY <1>0, <1>6, <2>2, <2>3 DEF Receive, sockets, registry, OthersType
  <2> QED BY <2>4, AsideStep
<1>7. ASSUME NEW r \in Request, Handle(r) PROVE IInv'
  <2>1. /\ connectionState' \in [Charger -> {"CONNECTED", "DISCONNECTED"}]
        /\ blanked' \in [Charger -> BOOLEAN]
    <3>1. CASE Reconnected(Of[request[r].ws])
      BY <1>0, <3>1 DEF Reconnected, OthersType
    <3>2. CASE UNCHANGED <<connectionState, blanked>>
      BY <1>0, <3>2 DEF OthersType
    <3> QED BY <1>7, <3>1, <3>2 DEF Handle
  <2>2. Finished("answered") \in
          [at : {"none", "sent", "handling", "answered", "ignored", "missed", "lost"}, ws : Socket \cup {None}, kind : Kind]
    BY DEF Finished, NoRequest, Kind, None
  <2>3. OthersType' /\ UNCHANGED <<peer, ready, chargers, call>>
    BY <1>0, <1>7, <2>1, <2>2 DEF Handle, sockets, OthersType
  <2> QED BY <2>3, AsideStep
<1>8. ASSUME NEW c \in Charger, SyncChargerToDb(c) PROVE IInv'
  <2>1. /\ connectionState' \in [Charger -> {"CONNECTED", "DISCONNECTED"}]
        /\ blanked' \in [Charger -> BOOLEAN]
    BY <1>0, <1>8 DEF SyncChargerToDb, Reconnected, OthersType
  <2>2. OthersType' /\ UNCHANGED <<peer, ready, chargers, call>>
    BY <1>0, <1>8, <2>1 DEF SyncChargerToDb, sockets, OthersType
  <2> QED BY <2>2, AsideStep
<1> QED BY <1>1, <1>2, <1>3, <1>4, <1>5, <1>6, <1>7, <1>8, CloseEventStep, CommandStep, ResolveStep,
           AnswerStep, TimerStep, ExecuteStep DEF Next, Server

-----------------------------------------------------------------------------
\* The inductive invariant holds: what a call knows agrees with what the charger
\* did, the registry and the calls name sockets of the right charger, and a
\* charger has left its older sockets.
THEOREM Inductive == Spec => []IInv
BY CallsAssumption, InitIInv, NextIInv, PTL DEF Spec

\* Type correctness.
THEOREM TypeCorrect == Spec => []TypeOK
<1>1. IInv => TypeOK
  BY TypeParts DEF IInv
<1> QED BY <1>1, Inductive, PTL

\* A caller that is told "accepted" has a charger that did what it was asked, and one
\* that is refused has one that did not, whatever becomes of the connections
\* (handleCallResult, cancelPendingMessages, the timer of sendCall).
THEOREM CallersAreToldTheTruth == Spec => []ToldTheTruth
<1>1. IInv => ToldTheTruth
  <2> SUFFICES ASSUME IInv, NEW k \in Call, call[k].at = "ended"
               PROVE  /\ call[k].outcome = "accepted" => call[k].done
                      /\ call[k].done => call[k].outcome \in {"accepted", "timeout", "disconnected"}
    BY DEF ToldTheTruth
  <2>1. call[k] \in CallRow /\ Honest(call[k])
    BY DEF IInv, CallType, AllHonest
  <2> QED BY <2>1 DEF CallRow, Honest
<1> QED BY <1>1, Inductive, PTL

\* A call is given up as disconnected only for a socket of its own charger, for
\* any number of chargers and reconnections (cancelPendingMessages).
THEOREM DisconnectedByItsOwn == Spec => []CancelledByItsOwn
<1>1. IInv => CancelledByItsOwn
  BY DEF IInv
<1> QED BY <1>1, Inductive, PTL

-----------------------------------------------------------------------------
\* The registry and the table agree with the newest socket

\* A socket that has not been connected has no listeners.
Online == ConnectedIsOnline /\ \A w \in Socket : ready[w] = "none" => ~listening[w]

\* What the table says of a charger is as it was, or that it is there, or what a
\* copy from memory said.
Told(c) ==
  \/ connectionState'[c] = "CONNECTED" \/ blanked'[c]
  \/ UNCHANGED <<connectionState[c], blanked[c]>>

\* A step that connects nobody and closes no socket that was heard.
LEMMA KeepsOnline ==
  ASSUME CallsAssumption, Online, UNCHANGED <<chargers, crossed>>,
         \A w \in Socket : ready'[w] = "none" <=> ready[w] = "none",
         \A w \in Socket : ready'[w] = "open" => ready[w] = "open",
         \A c \in Charger : Told(c),
         \A w \in Socket : listening'[w] =>
           listening[w] \/ (ready[w] # "none" /\ connectionState'[Of[w]] = "CONNECTED")
  PROVE  Online'
<1>1. ASSUME NEW c \in Charger, NEW w \in Newest(c)', ready'[w] = "open", ~crossed'[c]
      PROVE  chargers'[c] = w /\ (listening'[w] /\ ~blanked'[c] => connectionState'[c] = "CONNECTED")
  <2>1. w \in Newest(c) /\ w \in Socket /\ Of[w] = c
    BY <1>1 DEF Newest
  <2>2. chargers[c] = w /\ (listening[w] /\ ~blanked[c] => connectionState[c] = "CONNECTED")
    <3>1. ready[w] = "open" /\ ~crossed[c]
      BY <1>1, <2>1
    <3>2. ConnectedIsOnline
      BY DEF Online
    <3> QED BY <2>1, <3>1, <3>2, Zenon DEF ConnectedIsOnline
  <2>3. Told(c)
    OBVIOUS
  <2>4. chargers'[c] = w
    BY <2>2
  <2>5. ASSUME listening'[w], ~blanked'[c] PROVE connectionState'[c] = "CONNECTED"
    BY <2>1, <2>2, <2>3, <2>5 DEF Told
  <2> QED BY <2>4, <2>5
<1>2. \A w \in Socket : ready'[w] = "none" => ~listening'[w]
  BY DEF Online
<1> QED BY <1>1, <1>2 DEF Online, ConnectedIsOnline

LEMMA NewestIsOne ==
  ASSUME CallsAssumption, NEW c, NEW v \in Newest(c), NEW w \in Newest(c)
  PROVE  v = w
<1>1. v \in Nat /\ w \in Nat
  BY DEF Newest, CallsAssumption
<1>2. ~(v > w) /\ ~(w > v)
  BY DEF Newest
<1> QED BY <1>1, <1>2

LEMMA ConnectOnline ==
  ASSUME CallsAssumption, IInv, Online, NEW w \in Lively, Connect(w)
  PROVE  Online'
<1>0. w \in Socket /\ Of[w] \in Charger /\ SocketsType /\ OthersType
  BY DEF Lively, CallsAssumption, IInv
<1>1. /\ ready' = [ready EXCEPT ![w] = "open"] /\ chargers' = [chargers EXCEPT ![Of[w]] = w]
      /\ crossed' = [crossed EXCEPT ![Of[w]] = FALSE] /\ UNCHANGED <<listening, connectionState, blanked>>
      /\ ready[w] = "none"
  BY DEF Connect, Register
<1>2. ~listening[w]
  BY <1>0, <1>1 DEF Online
<1>3. ASSUME NEW c \in Charger, NEW v \in Newest(c)', ready'[v] = "open", ~crossed'[c]
      PROVE  chargers'[c] = v /\ (listening'[v] /\ ~blanked'[c] => connectionState'[c] = "CONNECTED")
  <2>0. v \in Socket /\ Of[v] = c /\ v \in Nat /\ w \in Nat
    BY <1>0 DEF Newest, CallsAssumption
  <2>1. CASE c = Of[w]
    <3>1. ready'[w] # "none"
      BY <1>0, <1>1 DEF SocketsType
    <3>2. ~(w > v)
      BY <1>0, <2>1, <3>1 DEF Newest
    <3>3. ~(v > w)
      <4> SUFFICES ASSUME v > w PROVE FALSE
        OBVIOUS
      <4>1. w \in Before(v)
        BY <1>0, <2>0, <2>1 DEF Before
      <4>2. v # w
        BY <2>0
      <4>3. ready[v] # "none"
        BY <1>0, <1>1, <1>3, <2>0, <4>2 DEF SocketsType
      <4> QED BY <1>1, <2>0, <4>1, <4>3 DEF IInv, Left
    <3>4. v = w
      BY <2>0, <3>2, <3>3
    <3> QED BY <1>0, <1>1, <1>2, <2>1, <3>4 DEF SocketsType
  <2>2. CASE c # Of[w]
    <3>1. v # w
      BY <2>0, <2>2
    <3>2. v \in Newest(c)
      BY <1>0, <1>1, <1>3, <2>0, <2>2, <3>1 DEF Newest, SocketsType
    <3>3. ready[v] = "open" /\ ~crossed[c]
      BY <1>0, <1>1, <1>3, <2>0, <2>2, <3>1 DEF SocketsType, OthersType
    <3>4. chargers'[c] = chargers[c]
      BY <1>0, <1>1, <2>2 DEF SocketsType
    <3> QED BY <1>1, <3>2, <3>3, <3>4 DEF Online, ConnectedIsOnline
  <2> QED BY <2>1, <2>2
<1>4. \A v \in Socket : ready'[v] = "none" => ~listening'[v]
  BY <1>0, <1>1 DEF Online, SocketsType
<1> QED BY <1>3, <1>4 DEF Online, ConnectedIsOnline

\* The close of a socket that is not the newest is remembered; after that of the
\* newest the charger is not connected.
LEMMA LeavesOnline ==
  ASSUME CallsAssumption, IInv, Online, NEW w \in Socket, ready[w] \in {"closing", "leaving"},
         NEW to \in {"leaving", "closed"}, ready' = [ready EXCEPT ![w] = to], UNCHANGED listening,
         crossed' = [crossed EXCEPT ![Of[w]] = @ \/ w \notin Newest(Of[w])],
         \A c \in Charger : c # Of[w] => chargers'[c] = chargers[c] /\ connectionState'[c] = connectionState[c],
         UNCHANGED blanked
  PROVE  Online'
<1>0. Of[w] \in Charger /\ SocketsType /\ OthersType
  BY DEF CallsAssumption, IInv
<1>1. \A v \in Socket : /\ ready'[v] = "none" <=> ready[v] = "none"
                        /\ ready'[v] = "open" => ready[v] = "open" /\ v # w
  BY <1>0 DEF SocketsType
<1>2. \A c : Newest(c)' = Newest(c)
  BY <1>1 DEF Newest
<1>3. ASSUME NEW c \in Charger, NEW v \in Newest(c), ready'[v] = "open", ~crossed'[c]
      PROVE  chargers'[c] = v /\ (listening'[v] /\ ~blanked'[c] => connectionState'[c] = "CONNECTED")
  <2>1. v \in Socket /\ ready[v] = "open" /\ v # w
    BY <1>1, <1>3 DEF Newest
  <2>2. c # Of[w]
    <3> SUFFICES ASSUME c = Of[w] PROVE FALSE
      OBVIOUS
    <3>1. w \in Newest(c)
      BY <1>0, <1>3 DEF OthersType
    <3> QED BY <1>3, <2>1, <3>1, NewestIsOne
  <2>3. ~crossed[c]
    BY <1>0, <1>3, <2>2 DEF OthersType
  <2> QED BY <1>3, <2>1, <2>2, <2>3 DEF Online, ConnectedIsOnline
<1>4. \A v \in Socket : ready'[v] = "none" => ~listening'[v]
  BY <1>1 DEF Online
<1> QED BY <1>2, <1>3, <1>4 DEF Online, ConnectedIsOnline

LEMMA NextOnline == CallsAssumption /\ IInv /\ Online /\ [Next]_vars => Online'
<1> SUFFICES ASSUME CallsAssumption, IInv, Online, [Next]_vars PROVE Online'
  OBVIOUS
<1>0. OthersType /\ SocketsType
  BY DEF IInv
<1>1. CASE UNCHANGED <<sockets, registry>>
  BY <1>1, KeepsOnline DEF Told, sockets, registry
<1>2. ASSUME NEW w \in Socket, Reset(w) \/ Pong(w) \/ Break(w) PROVE Online'
  <2>1. /\ UNCHANGED <<registry, listening>>
        /\ ready' = ready \/ (ready' = [ready EXCEPT ![w] = "closing"] /\ ready[w] = "open")
    BY <1>2 DEF Reset, Pong, Break, registry
  <2>2. \A v \in Socket : /\ ready'[v] = "none" <=> ready[v] = "none"
                          /\ ready'[v] = "open" => ready[v] = "open"
    BY <1>0, <2>1 DEF SocketsType
  <2> QED BY <2>1, <2>2, KeepsOnline DEF Told, registry
<1>3. CASE Tick
  <2>1. \A v \in Socket : /\ ready'[v] = "none" <=> ready[v] = "none"
                          /\ ready'[v] = "open" => ready[v] = "open"
    BY <1>3 DEF Tick
  <2> QED BY <1>3, <2>1, KeepsOnline DEF Told, Tick, registry
<1>4. ASSUME NEW w \in Socket, Attach(w) PROVE Online'
  <2>1. Of[w] \in Charger
    BY DEF CallsAssumption
  <2>2. \A v \in Socket : listening'[v] => listening[v] \/ (ready[v] # "none" /\ connectionState'[Of[v]] = "CONNECTED")
    BY <1>0, <1>4, <2>1 DEF Attach, Reconnected, OthersType
  <2>3. \A c \in Charger : Told(c)
    BY <1>0, <1>4, <2>1 DEF Attach, Reconnected, Told, OthersType
  <2> QED BY <1>4, <2>2, <2>3, KeepsOnline DEF Attach
<1>5. ASSUME NEW r \in Request, Handle(r) PROVE Online'
  <2>1. \A c \in Charger : Told(c)
    BY <1>0, <1>5 DEF Handle, Reconnected, Told, OthersType
  <2> QED BY <1>5, <2>1, KeepsOnline DEF Handle, sockets
<1>6. ASSUME NEW w \in Socket, CloseEvent(w) PROVE Online'
  <2>1. Of[w] \in Charger
    BY DEF CallsAssumption
  <2>2. CASE listening[w]
    <3>1. /\ ready[w] = "closing" /\ ready' = [ready EXCEPT ![w] = "leaving"]
          /\ chargers' = [chargers EXCEPT ![Of[w]] = None] /\ UNCHANGED <<listening, connectionState, blanked>>
          /\ crossed' = [crossed EXCEPT ![Of[w]] = @ \/ w \notin Newest(Of[w])]
      BY <1>6, <2>2 DEF CloseEvent
    <3>2. \A c \in Charger : c # Of[w] => chargers'[c] = chargers[c]
      BY <1>0, <2>1, <3>1 DEF SocketsType
    <3> QED BY <3>1, <3>2, LeavesOnline
  <2>3. CASE ~listening[w]
    <3>1. /\ ready[w] = "closing" /\ ready' = [ready EXCEPT ![w] = "closed"]
          /\ UNCHANGED <<chargers, crossed, listening, connectionState, blanked>>
      BY <1>6, <2>3 DEF CloseEvent
    <3>2. \A v \in Socket : /\ ready'[v] = "none" <=> ready[v] = "none"
                            /\ ready'[v] = "open" => ready[v] = "open"
      BY <1>0, <3>1 DEF SocketsType
    <3> QED BY <3>1, <3>2, KeepsOnline DEF Told
  <2> QED BY <2>2, <2>3
<1>7. ASSUME NEW w \in Socket, Leave(w) PROVE Online'
  <2>1. Of[w] \in Charger
    BY DEF CallsAssumption
  <2>2. /\ ready[w] = "leaving" /\ ready' = [ready EXCEPT ![w] = "closed"]
        /\ connectionState' = [connectionState EXCEPT ![Of[w]] = "DISCONNECTED"] /\ UNCHANGED <<listening, chargers, blanked>>
        /\ crossed' = [crossed EXCEPT ![Of[w]] = @ \/ w \notin Newest(Of[w])]
    BY <1>7 DEF Leave
  <2>3. \A c \in Charger : c # Of[w] => connectionState'[c] = connectionState[c]
    BY <1>0, <2>1, <2>2 DEF OthersType
  <2> QED BY <2>2, <2>3, LeavesOnline
<1>8. ASSUME NEW k \in Call, Command(k) \/ Resolve(k) \/ Answer(k) \/ Timer(k) \/ Execute(k)
      PROVE  UNCHANGED <<sockets, registry>>
  BY <1>8 DEF Command, Resolve, Answer, Timer, Execute
<1>9. ASSUME NEW r \in Request, NEW w \in Socket, Receive(r) \/ Send(r, w)
      PROVE  UNCHANGED <<sockets, registry>>
  BY <1>9 DEF Receive, Send
<1>10. CASE Network
  <2>1. PICK w \in Lively : \/ Connect(w) \/ Break(w) \/ Reset(w) \/ Pong(w)
                            \/ \E r \in Request : Send(r, w)
    BY <1>10 DEF Network
  <2>2. w \in Socket
    BY DEF Lively
  <2> QED BY <1>1, <1>2, <1>9, <2>1, <2>2, ConnectOnline
<1>11. ASSUME NEW c \in Charger, SyncChargerToDb(c) PROVE Online'
  <2>1. UNCHANGED <<sockets, chargers, crossed>>
    BY <1>11 DEF SyncChargerToDb
  <2>2. \A d \in Charger : Told(d)
    BY <1>0, <1>11 DEF SyncChargerToDb, Reconnected, Told, OthersType
  <2> QED BY <2>1, <2>2, KeepsOnline DEF sockets
<1>12. CASE Server
  <2>1. CASE \E w \in Socket : Attach(w) \/ CloseEvent(w) \/ Leave(w)
    BY <1>4, <1>6, <1>7, <2>1
  <2>2. CASE \E k \in Call : Command(k) \/ Resolve(k) \/ Answer(k) \/ Timer(k)
    BY <1>1, <1>8, <2>2
  <2>3. ASSUME NEW r \in Request, Receive(r) PROVE UNCHANGED <<sockets, registry>>
    BY <2>3 DEF Receive
  <2>4. CASE \E r \in Request : Receive(r) \/ Handle(r)
    BY <1>1, <1>5, <2>3, <2>4
  <2> QED BY <1>3, <1>11, <1>12, <2>1, <2>2, <2>4 DEF Server
<1>13. CASE UNCHANGED vars
  BY <1>1, <1>13 DEF vars
<1> QED BY <1>1, <1>8, <1>10, <1>12, <1>13 DEF Next

LEMMA InitOnline == CallsAssumption /\ Init => Online
<1> SUFFICES ASSUME CallsAssumption, Init PROVE Online
  OBVIOUS
<1>1. ASSUME NEW c \in Charger, NEW w \in Newest(c), ready[w] = "open"
      PROVE  chargers[c] = w /\ connectionState[c] = "CONNECTED"
  <2>1. w \in Silent /\ Of[w] = c /\ w # None
    BY <1>1 DEF Init, Newest, CallsAssumption, None
  <2>2. chargers[c] = CHOOSE v \in Silent : Of[v] = c
    BY <2>1 DEF Init
  <2>3. chargers[c] \in Silent /\ Of[chargers[c]] = c
    BY <2>1, <2>2
  <2>4. chargers[c] = w
    BY <2>1, <2>3 DEF CallsAssumption
  <2> QED BY <2>1, <2>4 DEF Init
<1>2. \A w \in Socket : ready[w] = "none" => ~listening[w]
  BY DEF Init
<1> QED BY <1>1, <1>2 DEF Online, ConnectedIsOnline

\* A charger that is connected on its newest socket is found by the calls of the
\* server, unless the close of an older socket came late, and shown as connected,
\* unless syncChargerToDb has since copied an entry without a status into the table,
\* for any number of chargers and reconnections (registry and charger table).
THEOREM ConnectedMeansOnline == Spec => []ConnectedIsOnline
<1>1. Online => ConnectedIsOnline
  BY DEF Online
<1> QED BY <1>1, CallsAssumption, InitOnline, NextOnline, Inductive, PTL DEF Spec
=============================================================================
