------------------------------ MODULE OcppCalls ------------------------------
(***************************************************************************)
(* The connections of the chargers and the calls that go over them.  A     *)
(* charger reconnects on a new socket before the server has noticed that   *)
(* the old one is dead; the map from chargers to sockets is written when a *)
(* socket is accepted and cleared when any socket of the charger closes.   *)
(* The listeners of a socket are attached only after two queries.  A call  *)
(* of the server ends with the charger's answer, with the close of a       *)
(* socket, or with its timer.  What the server has in memory of a charger  *)
(* is copied into the table every minute.  The database does not fail, and *)
(* a charger that connects has its row.                                    *)
(***************************************************************************)
EXTENDS Naturals

CONSTANTS
  Charger,
  Socket,         \* numbered in the order of their connection
  Of,             \* Of[w]: the charger that connects on w
  Call,           \* the calls of the server
  Target,         \* Target[k]: the charger k is for
  Slow,           \* calls that query the database first: RemoteStopTransaction
  Request,        \* the calls of the chargers
  Silent,         \* bound: sockets connected from the start to chargers that stay and say nothing
  Cached          \* bound: the chargers whose state may be in memory

ASSUME CallsAssumption ==
  /\ Socket \subseteq Nat \ {0}
  /\ Of \in [Socket -> Charger] /\ Target \in [Call -> Charger] /\ Slow \subseteq Call
  /\ Silent \subseteq Socket /\ Cached \subseteq Charger
  /\ \A w \in Silent, v \in Socket : Of[v] = Of[w] => v = w

VARIABLES
  peer,           \* peer[w]: the charger is at the other end
  ready,          \* ready[w]: readyState of w, and how far its close has got
  listening,      \* listening[w]: the listeners are attached
  isAlive,        \* isAlive[w]
  chargers,       \* the registry: chargers[c] is a socket, or None
  connectionState,\* of the table Charger
  call,           \* call[k]: the state of call k, at the server and on the way
  request,        \* request[r]: the same for the calls of the chargers
  blanked,        \* history: blanked[c]: it wrote DISCONNECTED, and nothing else said otherwise since
  crossed         \* history: crossed[c]: an older socket of c closed after its newest came

sockets == <<peer, ready, listening, isAlive>>
registry == <<chargers, connectionState, blanked, crossed>>
vars == <<sockets, registry, call, request>>

None == 0
Kind == {"known", "unknown", "invalid", "malformed"}
NoCall    == [at |-> "none", ws |-> None, outcome |-> "none", wire |-> "none", answer |-> "none", done |-> FALSE]
NoRequest == [at |-> "none", ws |-> None, kind |-> "known"]
Finished(at) == [NoRequest EXCEPT !.at = at]

CallRow == [at : {"none", "resolving", "pending", "ended"}, ws : Socket \cup {None},
            outcome : {"none", "offline", "failed", "accepted", "rejected", "callerror",
                       "timeout", "disconnected"},
            wire : {"none", "out", "back", "gone"},
            answer : {"none", "accepted", "rejected", "callerror"}, done : BOOLEAN]

TypeOK ==
  /\ peer \in [Socket -> BOOLEAN] /\ listening \in [Socket -> BOOLEAN] /\ isAlive \in [Socket -> BOOLEAN]
  /\ ready \in [Socket -> {"none", "open", "closing", "leaving", "closed"}]
  /\ chargers \in [Charger -> Socket \cup {None}]
  /\ connectionState \in [Charger -> {"CONNECTED", "DISCONNECTED"}]
  /\ call \in [Call -> CallRow]
  /\ \A k \in Call : call[k].at \in {"resolving", "pending"} => call[k].ws \in Socket
  /\ request \in [Request -> [at : {"none", "sent", "handling", "answered", "ignored", "missed", "lost"},
                              ws : Socket \cup {None}, kind : Kind]]
  /\ blanked \in [Charger -> BOOLEAN] /\ crossed \in [Charger -> BOOLEAN]

Lively == Socket \ Silent

Before(w) == {v \in Socket : Of[v] = Of[w] /\ v < w}
Newest(c) == {w \in Socket : Of[w] = c /\ ready[w] # "none" /\ \A v \in Socket : Of[v] = c /\ v > w => ready[v] = "none"}
Pending   == {k \in Call : call[k].at = "pending"}     \* pendingMessages

-----------------------------------------------------------------------------
\* Connections

\* Mutant: a charger that is there already is left as it is.
RegisterNew(w) == chargers' = IF chargers[Of[w]] # None THEN chargers ELSE [chargers EXCEPT ![Of[w]] = w]

Register(w) == chargers' = [chargers EXCEPT ![Of[w]] = w]

\* The charger connects, having lost its older sockets; the handler of the event
\* registers the socket and goes on to handleChargerReconnection.
Connect(w) ==
  /\ ready[w] = "none" /\ \A v \in Before(w) : ready[v] # "none" /\ ~peer[v]
  /\ peer' = [peer EXCEPT ![w] = TRUE] /\ ready' = [ready EXCEPT ![w] = "open"]
  /\ Register(w)
  /\ isAlive' = [isAlive EXCEPT ![w] = TRUE]        \* not set: not found false
  /\ crossed' = [crossed EXCEPT ![Of[w]] = FALSE]
  /\ UNCHANGED <<listening, connectionState, blanked, call, request>>

\* The table is told that a charger is there.
Reconnected(c) ==
  /\ connectionState' = [connectionState EXCEPT ![c] = "CONNECTED"]
  /\ blanked' = [blanked EXCEPT ![c] = FALSE]

\* The query for a session is answered and the table written, whatever has become
\* of the socket meanwhile; then the listeners are attached.
Attach(w) ==
  /\ ready[w] # "none" /\ ~listening[w]
  /\ Reconnected(Of[w])
  /\ listening' = [listening EXCEPT ![w] = TRUE]
  /\ isAlive' = [isAlive EXCEPT ![w] = ready[w] = "open"]
  /\ UNCHANGED <<peer, ready, chargers, crossed, call, request>>

\* The connection breaks; what is on the way is lost.
Break(w) ==
  /\ peer[w]
  /\ peer' = [peer EXCEPT ![w] = FALSE]
  /\ call' = [k \in Call |-> IF call[k].ws = w /\ call[k].wire \in {"out", "back"}
                             THEN [call[k] EXCEPT !.wire = "gone", !.answer = "none"] ELSE call[k]]
  /\ request' = [r \in Request |-> IF request[r].ws = w /\ request[r].at = "sent"
                                   THEN Finished("lost") ELSE request[r]]
  /\ UNCHANGED <<ready, listening, isAlive, registry>>

\* The server sees it at once, or
Reset(w) ==
  /\ ready[w] = "open" /\ ~peer[w]
  /\ ready' = [ready EXCEPT ![w] = "closing"] /\ isAlive' = [isAlive EXCEPT ![w] = FALSE]
  /\ UNCHANGED <<peer, listening, registry, call, request>>

\* Mutant: a ping does not ask for a pong.
TickForgets ==
  /\ ready' = [w \in Socket |-> IF w \in Lively /\ ready[w] = "open" /\ ~isAlive[w] THEN "closing" ELSE ready[w]]
  /\ UNCHANGED <<peer, listening, isAlive, registry, call, request>>

\* when no pong has come between two of its pings.
Tick ==
  /\ \E w \in Lively : ready[w] = "open"
  /\ ready' = [w \in Socket |-> IF w \in Lively /\ ready[w] = "open" /\ ~isAlive[w] THEN "closing" ELSE ready[w]]
  /\ isAlive' = [w \in Socket |-> FALSE]
  /\ UNCHANGED <<peer, listening, registry, call, request>>

Pong(w) ==
  /\ ready[w] = "open" /\ peer[w] /\ listening[w] /\ ~isAlive[w]
  /\ isAlive' = [isAlive EXCEPT ![w] = TRUE]
  /\ UNCHANGED <<peer, ready, listening, registry, call, request>>

-----------------------------------------------------------------------------
\* Calls of the server

Settle(k, outcome) == [call[k] EXCEPT !.at = "ended", !.outcome = outcome]

\* Mutant: everything that is pending is cancelled.
CancelAllPendingMessages(c) == [k \in Call |-> IF k \in Pending THEN Settle(k, "disconnected") ELSE call[k]]

CancelPendingMessages(c) ==
  [k \in Call |-> IF k \in Pending /\ Target[k] = c THEN Settle(k, "disconnected") ELSE call[k]]

\* The close event; without a listener it passes unnoticed.  The registry is
\* cleared of the charger, not of the socket.
CloseEvent(w) ==
  /\ ready[w] = "closing"
  /\ peer' = [peer EXCEPT ![w] = FALSE]
  /\ IF listening[w]
     THEN /\ ready' = [ready EXCEPT ![w] = "leaving"]
          /\ chargers' = [chargers EXCEPT ![Of[w]] = None]
          /\ call' = CancelPendingMessages(Of[w])
          /\ crossed' = [crossed EXCEPT ![Of[w]] = @ \/ w \notin Newest(Of[w])]
     ELSE /\ ready' = [ready EXCEPT ![w] = "closed"]
          /\ UNCHANGED <<chargers, call, crossed>>
  /\ request' = [r \in Request |-> IF request[r].ws = w /\ request[r].at = "sent"
                                   THEN Finished("lost") ELSE request[r]]
  /\ UNCHANGED <<listening, isAlive, connectionState, blanked>>

\* The table is told afterwards.
Leave(w) ==
  /\ ready[w] = "leaving"
  /\ ready' = [ready EXCEPT ![w] = "closed"]
  /\ connectionState' = [connectionState EXCEPT ![Of[w]] = "DISCONNECTED"]
  /\ crossed' = [crossed EXCEPT ![Of[w]] = @ \/ w \notin Newest(Of[w])]
  /\ UNCHANGED <<peer, listening, isAlive, chargers, blanked, call, request>>

IsChargerOnline(c) == chargers[c] # None /\ ready[chargers[c]] = "open"

\* sendCall: the call is pending from now on, also if the socket has died since:
\* ws.send does not fail then.
SendCall(k, w) ==
  [call[k] EXCEPT !.at = "pending", !.ws = w,
                  !.wire = IF ready[w] = "open" /\ peer[w] THEN "out" ELSE "gone"]

\* remoteStartTransaction, reserveNow, cancelReservation: the check and the send
\* are one turn.  remoteStopTransaction takes the socket and first asks for the id.
Command(k) ==
  LET w == chargers[Target[k]] IN
  /\ call[k].at = "none"
  /\ call' = [call EXCEPT ![k] =
       IF ~IsChargerOnline(Target[k]) THEN Settle(k, "offline")
       ELSE IF k \in Slow THEN [@ EXCEPT !.at = "resolving", !.ws = w]
       ELSE SendCall(k, w)]
  /\ UNCHANGED <<sockets, registry, request>>

Resolve(k) ==
  /\ call[k].at = "resolving"
  /\ \/ call' = [call EXCEPT ![k] = SendCall(k, call[k].ws)]
     \/ call' = [call EXCEPT ![k] = Settle(k, "failed")]
  /\ UNCHANGED <<sockets, registry, request>>

\* The charger takes the call up and answers it: it does what it accepts.
Execute(k) ==
  /\ call[k].wire = "out" /\ call[k].ws \in Lively
  /\ \E answer \in {"accepted", "rejected", "callerror"} :
       call' = [call EXCEPT ![k] = [@ EXCEPT !.wire = "back", !.answer = answer, !.done = answer = "accepted"]]
  /\ UNCHANGED <<sockets, registry, request>>

\* Mutant: any call that is pending is taken for the one that is answered.
HandleCallResultAny(k) == [j \in Call |->
  IF j \in Pending THEN Settle(j, call[k].answer)
  ELSE IF j = k THEN [call[k] EXCEPT !.wire = "gone", !.answer = "none"] ELSE call[j]]

\* handleCallResult, handleCallError: an answer to a call that is not pending is dropped.
HandleCallResult(k) == [call EXCEPT ![k] =
  [(IF k \in Pending THEN Settle(k, call[k].answer) ELSE call[k]) EXCEPT !.wire = "gone", !.answer = "none"]]

\* The answer arrives; without a listener nobody hears it.
Answer(k) ==
  LET w == call[k].ws IN
  /\ call[k].wire = "back" /\ ready[w] = "open"
  /\ call' = IF listening[w] THEN HandleCallResult(k)
             ELSE [call EXCEPT ![k].wire = "gone", ![k].answer = "none"]
  /\ UNCHANGED <<sockets, registry, request>>

\* Mutant: the message is forgotten, its promise left open.
TimerForgets(k) ==
  /\ k \in Pending
  /\ call' = [call EXCEPT ![k].wire = "gone", ![k].answer = "none"]
  /\ UNCHANGED <<sockets, registry, request>>

Timer(k) ==
  /\ k \in Pending
  /\ call' = [call EXCEPT ![k] = Settle(k, "timeout")]
  /\ UNCHANGED <<sockets, registry, request>>

-----------------------------------------------------------------------------
\* Calls of the chargers

WellFormed(kind) == kind # "malformed"
ValidPayload(kind) == kind # "invalid"
HasHandler(kind) == kind # "unknown"

Send(r, w) ==
  /\ request[r].at = "none" /\ peer[w] /\ ready[w] = "open"
  /\ request' = [request EXCEPT ![r] = [at |-> "sent", ws |-> w, kind |-> "known"]]
  /\ UNCHANGED <<sockets, registry, call>>

\* Mutant: a payload that is not valid is only logged.
RouteQuietly(w, kind) ==
  IF ~listening[w] THEN Finished("missed")
  ELSE IF ~WellFormed(kind) \/ ~ValidPayload(kind) THEN [Finished("ignored") EXCEPT !.kind = kind]
  ELSE IF ~HasHandler(kind) THEN Finished("answered") ELSE [at |-> "handling", ws |-> w, kind |-> "known"]

\* routeOcppMessage: what has no message id cannot be answered; a payload that is
\* not valid, or an action without a handler, is answered CALLERROR at once.
Route(w, kind) ==
  IF ~listening[w] THEN Finished("missed")
  ELSE IF ~WellFormed(kind) THEN [Finished("ignored") EXCEPT !.kind = kind]
  ELSE IF ~ValidPayload(kind) \/ ~HasHandler(kind) THEN Finished("answered")
  ELSE [at |-> "handling", ws |-> w, kind |-> "known"]

Receive(r) ==
  /\ request[r].at = "sent" /\ ready[request[r].ws] = "open"
  /\ \E kind \in Kind : request' = [request EXCEPT ![r] = Route(@.ws, kind)]
  /\ UNCHANGED <<sockets, registry, call>>

\* The handler answers, or throws and CALLERROR is the answer; on its own socket.
\* Most handlers touch the table: the charger is connected.
Handle(r) ==
  /\ request[r].at = "handling"
  /\ request' = [request EXCEPT ![r] = Finished("answered")]
  /\ Reconnected(Of[request[r].ws]) \/ UNCHANGED <<connectionState, blanked>>
  /\ UNCHANGED <<sockets, chargers, crossed, call>>

-----------------------------------------------------------------------------
\* What is in memory

\* syncChargerToDb, of the timer and of a BootNotification, writes what the entry in
\* memory said when it was read, whether the charger is there or not: connected, or
\* DISCONNECTED for one without a connectionStatus.  Which is a choice: entries are
\* made and merged at any time, without a status by the app that starts a session,
\* with one by a message of the charger, and never with that of a close.
SyncChargerToDb(c) ==
  /\ c \in Cached
  /\ \/ Reconnected(c)
     \/ /\ connectionState' = [connectionState EXCEPT ![c] = "DISCONNECTED"]
        /\ blanked' = [blanked EXCEPT ![c] = TRUE]
  /\ UNCHANGED <<sockets, chargers, crossed, call, request>>

-----------------------------------------------------------------------------
Init ==
  /\ peer = [w \in Socket |-> w \in Silent] /\ listening = [w \in Socket |-> w \in Silent]
  /\ ready = [w \in Socket |-> IF w \in Silent THEN "open" ELSE "none"]
  /\ isAlive = [w \in Socket |-> FALSE]
  /\ chargers = [c \in Charger |-> IF \E w \in Silent : Of[w] = c THEN CHOOSE w \in Silent : Of[w] = c ELSE None]
  /\ connectionState = [c \in Charger |-> IF chargers[c] = None THEN "DISCONNECTED" ELSE "CONNECTED"]
  /\ call = [k \in Call |-> NoCall] /\ request = [r \in Request |-> NoRequest]
  /\ blanked = [c \in Charger |-> FALSE] /\ crossed = [c \in Charger |-> FALSE]

Network == \E w \in Lively :
  \/ Connect(w) \/ Break(w) \/ Reset(w) \/ Pong(w)
  \/ \E r \in Request : Send(r, w)

Server ==
  \/ Tick
  \/ \E w \in Socket : Attach(w) \/ CloseEvent(w) \/ Leave(w)
  \/ \E k \in Call : Command(k) \/ Resolve(k) \/ Answer(k) \/ Timer(k)
  \/ \E r \in Request : Receive(r) \/ Handle(r)
  \/ \E c \in Charger : SyncChargerToDb(c)

Next == Network \/ Server \/ \E k \in Call : Execute(k)

\* Timers run down, the event loop delivers the events that are there and the
\* database answers; the network and the chargers may do nothing.
Fairness ==
  /\ WF_vars(Tick)
  /\ \A w \in Socket : WF_vars(Attach(w)) /\ WF_vars(CloseEvent(w)) /\ WF_vars(Leave(w))
  /\ \A k \in Call : WF_vars(Resolve(k)) /\ WF_vars(Timer(k))
  /\ \A r \in Request : WF_vars(Receive(r)) /\ WF_vars(Handle(r))

Spec == Init /\ [][Next]_vars /\ Fairness

-----------------------------------------------------------------------------
\* A caller that is told "accepted" has a charger that did it, and one that is told
\* anything else has one that did not, except that a time-out or the close of a
\* socket tells nothing: the charger may have started, or stopped, all the same.
ToldTheTruth == \A k \in Call : call[k].at = "ended" =>
  /\ call[k].outcome = "accepted" => call[k].done
  /\ call[k].done => call[k].outcome \in {"accepted", "timeout", "disconnected"}

\* A call is given up as disconnected when the socket it went over has closed, or
\* an older one of the same charger did after the charger had come back; the
\* close of another charger's socket ends no call.
CancelledByItsOwn == \A k \in Call : call[k].outcome = "disconnected" =>
  \E w \in Socket : Of[w] = Target[k] /\ ready[w] \in {"leaving", "closed"} /\ (w <= call[k].ws \/ ~peer[call[k].ws])

\* A charger that is connected, on its newest socket, is online, and the table says
\* so once the listeners are attached; it is neither when the close of an older
\* socket came late, until it connects again.  And the table says otherwise while
\* what it was last told, of an entry in memory that names no status, is that the
\* charger is gone: after a restart of the server, until a message of the charger.
ConnectedIsOnline == \A c \in Charger : \A w \in Newest(c) :
  ready[w] = "open" /\ ~crossed[c] =>
    chargers[c] = w /\ (listening[w] /\ ~blanked[c] => connectionState[c] = "CONNECTED")

\* No caller waits for ever, whatever becomes of the charger.
CallEnds == \A k \in Call : (call[k].at \in {"resolving", "pending"}) ~> (call[k].at = "ended")

\* A socket whose charger is gone does not pass for open for ever.
DeadSocketCloses == \A w \in Socket : (ready[w] = "open" /\ ~peer[w]) ~> (ready[w] # "open")

\* A request of a charger is answered, unless the connection breaks, it cannot be
\* read, or it came before the listeners, which a charger that sends its
\* BootNotification at once may do.
RequestAnswered == \A r \in Request : (request[r].at = "sent") ~>
  \/ request[r].at \in {"answered", "missed", "lost"}
  \/ request[r].at = "ignored" /\ request[r].kind = "malformed"
=============================================================================
