------------------------- MODULE CacheServerProofs -------------------------
(***************************************************************************)
(* Slots and bodies of the cache server, for any number of callers, any    *)
(* plays, any cap.  What a run checks of the slots is not inductive: that  *)
(* a connection accepted gets a new slot needs that it waits only once in  *)
(* the backlog (BacklogOK), and that needs that an attempt never opens a   *)
(* connection that was opened before (Fresh).  That a caller is told what  *)
(* was so (Truth) needs that every answer under way, in a handler or on    *)
(* the wire, was true at some time since its own call began.               *)
(***************************************************************************)
EXTENDS CacheServer, FiniteSetTheorems, TLAPS

Busy == {"head", "body", "commit", "reply", "close"}
Value == Bodies \cup {Nothing}
Answers == {Nothing} \cup [status : Nat, body : Value]
Conn == [at : Busy \cup {"none", "backlog", "gone"}, sent : 0..2, peer : BOOLEAN,
         out : Answers, answer : Answers]
Call == [i : Nat \ {0}, n : Nat \ {0}, at : {"idle", "connect", "asleep", "send"}]
Whole == Bodies \ (TooBig \cup OverCap)

Typed ==
  /\ script \in Plays
  /\ call \in [Callers -> Call]
  /\ conn \in [Connections -> Conn]
  /\ backlog \in Seq(Connections \cup {Waker})
  /\ live \in Nat
  /\ store \in [Keys -> Whole \cup {Nothing}]

(* A call that is on is one of the script's, within its retries.             *)
CallsOK ==
  \A c \in Callers :
    /\ call[c].n <= 1 + MaxRetries
    /\ call[c].at # "idle" => call[c].i \in DOMAIN script[c]

BacklogOK ==
  \A i, j \in DOMAIN backlog : backlog[i] # Waker =>
    /\ conn[backlog[i]].at = "backlog"
    /\ backlog[i] = backlog[j] => i = j

(* The connection x is still to be opened.                                   *)
Later(x) ==
  LET k == call[x[1]]
  IN  \/ x[2] > k.i
      \/ x[2] = k.i /\ x[3] > k.n
      \/ x[2] = k.i /\ x[3] = k.n /\ k.at # "send"
Fresh == \A x \in Connections : Later(x) => conn[x] = Nowhere

(* What a handler may hold of a body, in state s of connection x.            *)
WholeIn(x, s) ==
  /\ s.at # "none" => x[2] \in DOMAIN script[x[1]]
  /\ s.at \in {"body", "commit"} => Puts(x)
  /\ s.at = "commit" => s.sent = 2 /\ Asked(x).body \notin TooBig
  /\ s.at \in {"backlog", "head", "body", "commit"} /\ Puts(x)
       /\ Asked(x).body \in OverCap => s.sent < 2
WholeOK == \A x \in Connections : WholeIn(x, conn[x])

Counted == IsFiniteSet(Handlers) /\ live = Cardinality(Handlers) /\ live <= MaxConnections

IInv == Typed /\ CallsOK /\ BacklogOK /\ Fresh /\ WholeOK /\ Counted

----------------------------------------------------------------------------
(* A connection is a caller, a call and an attempt; the waker is none of them.*)
LEMMA ConnectionParts ==
  ASSUME NEW x \in Connections
  PROVE  x[1] \in Callers /\ x[2] \in Nat /\ x[3] \in Nat /\ x = <<x[1], x[2], x[3]>> /\ x # Waker
BY WakerAssumption DEF Connections

(* What a call that is on connects by is one of the connections.             *)
LEMMA HereIsOne ==
  ASSUME IInv, NEW c \in Callers, call[c].at # "idle"
  PROVE  /\ Here(c) \in Connections
         /\ Here(c)[1] = c /\ Here(c)[2] = call[c].i /\ Here(c)[3] = call[c].n
<1>1. call[c].i \in DOMAIN script[c] /\ call[c].n \in 1..(1 + MaxRetries) /\ script \in Plays
  BY RetriesAssumption DEF IInv, Typed, CallsOK, Call
<1>2. call[c].i \in 1..MaxCalls
  BY <1>1, PlaysAssumption
<1>. QED
  BY <1>1, <1>2 DEF Connections, Here

(* The state of an unused connection is one of Conn.                         *)
LEMMA NowhereIsOne == Nowhere \in Conn
BY DEF Nowhere, Conn, Answers

(* No handler comes or goes, so the slots stay exact.                        *)
LEMMA SameHandlers ==
  ASSUME Counted, live' = live,
         \A x \in Connections : conn'[x].at \in Busy <=> conn[x].at \in Busy
  PROVE  Counted'
<1>1. Handlers' = Handlers
  BY DEF Handlers, Busy
<1>. QED
  BY <1>1 DEF Counted

(* A slot taken with a thread.                                               *)
LEMMA OneHandlerMore ==
  ASSUME Typed, Counted, NEW x \in Connections, NEW s \in Conn,
         conn[x].at \notin Busy, s.at \in Busy, live < MaxConnections,
         conn' = [conn EXCEPT ![x] = s], live' = live + 1
  PROVE  Counted'
<1>1. Handlers' = Handlers \cup {x}
  BY DEF Handlers, Busy, Typed
<1>2. x \notin Handlers
  BY DEF Handlers, Busy
<1>. QED
  BY <1>1, <1>2, FS_AddElement, CapAssumption DEF Counted, Typed

(* A slot given back with its thread.                                        *)
LEMMA OneHandlerLess ==
  ASSUME Typed, Counted, NEW x \in Connections, NEW s \in Conn,
         conn[x].at \in Busy, s.at \notin Busy,
         conn' = [conn EXCEPT ![x] = s], live' = live - 1
  PROVE  Counted' /\ live' \in Nat
<1>1. Handlers' = Handlers \ {x}
  BY DEF Handlers, Busy, Typed
<1>2. x \in Handlers
  BY DEF Handlers, Busy
<1>3. IsFiniteSet(Handlers') /\ live' = Cardinality(Handlers')
  BY <1>1, <1>2, FS_RemoveElement DEF Counted
<1>4. live' \in Nat
  BY <1>3, FS_CardinalityType
<1>. QED
  BY <1>3, <1>4, CapAssumption DEF Counted, Typed

(* An attempt is over at the caller's end: its state at the server's stays.  *)
LEMMA AttemptOver ==
  ASSUME IInv, NEW c \in Callers, call[c].at # "idle",
         \/ call[c].at = "send" /\ conn' = LeftBy(c)
         \/ conn' = conn,
         UNCHANGED <<script, backlog, live, store>>,
         \/ call' = [call EXCEPT ![c] = [i |-> call[c].i + 1, n |-> 1, at |-> "idle"]]
         \/ /\ call[c].n <= MaxRetries
            /\ call' = [call EXCEPT ![c].at = "asleep", ![c].n = @ + 1]
  PROVE  IInv'
<1> DEFINE y == Here(c)
<1>1. y \in Connections /\ y[1] = c /\ y[2] = call[c].i /\ y[3] = call[c].n
  BY HereIsOne
<1>2. conn[y] \in Conn /\ conn \in [Connections -> Conn]
  BY <1>1 DEF IInv, Typed
<1>3. PICK s \in Conn :
        /\ conn' = [conn EXCEPT ![y] = s]
        /\ \/ conn[y].at = "gone" /\ s = Nowhere
           \/ s.at = conn[y].at /\ s.sent = conn[y].sent
  <2>1. CASE conn' = conn
    BY <2>1, <1>1, <1>2
  <2>2. CASE conn' = LeftBy(c) /\ conn[y].at = "gone"
    BY <2>2, <1>1, <1>2, NowhereIsOne DEF LeftBy
  <2>3. CASE conn' = LeftBy(c) /\ conn[y].at # "gone"
    <3> DEFINE s == [conn[y] EXCEPT !.peer = FALSE]
    <3>1. s \in Conn /\ s.at = conn[y].at /\ s.sent = conn[y].sent
      BY <1>2 DEF Conn
    <3>2. conn' = [conn EXCEPT ![y] = s]
      BY <2>3, <1>1, <1>2 DEF LeftBy
    <3>. QED
      BY <3>1, <3>2
  <2>. QED
    BY <2>1, <2>2, <2>3
<1>4. PICK k \in Call :
        /\ call' = [call EXCEPT ![c] = k]
        /\ \/ k.i = call[c].i + 1 /\ k.n = 1 /\ k.at = "idle"
           \/ /\ call[c].n <= MaxRetries
              /\ k.i = call[c].i /\ k.n = call[c].n + 1 /\ k.at = "asleep"
  <2>0. call[c] \in Call
    BY DEF IInv, Typed
  <2>1. CASE call' = [call EXCEPT ![c] = [i |-> call[c].i + 1, n |-> 1, at |-> "idle"]]
    <3> DEFINE k == [i |-> call[c].i + 1, n |-> 1, at |-> "idle"]
    <3>1. k \in Call
      BY <2>0 DEF Call
    <3>. QED
      BY <2>1, <3>1
  <2>2. CASE /\ call[c].n <= MaxRetries
             /\ call' = [call EXCEPT ![c].at = "asleep", ![c].n = @ + 1]
    <3> DEFINE j == [call[c] EXCEPT !.at = "asleep"]
               k == [j EXCEPT !.n = @ + 1]
    <3>1. j \in Call /\ j.i = call[c].i /\ j.n = call[c].n /\ j.at = "asleep"
      BY <2>0 DEF Call
    <3>2. k \in Call /\ k.i = j.i /\ k.n = j.n + 1 /\ k.at = j.at
      <4> HIDE DEF j
      <4>. QED
        BY <3>1 DEF Call
    <3>3. call' = [call EXCEPT ![c] = k]
      BY <2>2 DEF IInv, Typed, Call
    <3>. QED
      <4> HIDE DEF j, k
      <4>. QED
        BY <2>2, <3>1, <3>2, <3>3
  <2>. QED
    BY <2>1, <2>2
<1>5. Typed'
  BY <1>1, <1>3, <1>4 DEF IInv, Typed
<1>6. CallsOK'
  <2>. SUFFICES ASSUME NEW d \in Callers
                PROVE  /\ call'[d].n <= 1 + MaxRetries
                       /\ call'[d].at # "idle" => call'[d].i \in DOMAIN script[d]
    BY DEF CallsOK
  <2>1. CASE d = c
    BY <2>1, <1>4, RetriesAssumption DEF IInv, Typed, CallsOK, Call
  <2>2. CASE d # c
    BY <2>2, <1>4 DEF IInv, Typed, CallsOK
  <2>. QED
    BY <2>1, <2>2
<1>7. \A x \in Connections : \/ conn'[x].at = conn[x].at
                             \/ conn[x].at = "gone" /\ conn'[x].at = "none"
  <2>. SUFFICES ASSUME NEW x \in Connections
                PROVE  \/ conn'[x].at = conn[x].at
                       \/ conn[x].at = "gone" /\ conn'[x].at = "none"
    OBVIOUS
  <2>1. CASE x = y
    BY <2>1, <1>1, <1>2, <1>3 DEF Nowhere
  <2>2. CASE x # y
    BY <2>2, <1>1, <1>2, <1>3
  <2>. QED
    BY <2>1, <2>2
<1>8. BacklogOK'
  <2>. SUFFICES ASSUME NEW i \in DOMAIN backlog, NEW j \in DOMAIN backlog, backlog[i] # Waker
                PROVE  /\ conn'[backlog[i]].at = "backlog"
                       /\ backlog[i] = backlog[j] => i = j
    BY DEF BacklogOK
  <2>1. backlog[i] \in Connections
    BY DEF IInv, Typed
  <2>. QED
    BY <2>1, <1>7 DEF IInv, BacklogOK
<1>9. Fresh'
  <2>. SUFFICES ASSUME NEW x \in Connections, Later(x)'  PROVE conn'[x] = Nowhere
    BY DEF Fresh
  <2>1. x[1] \in Callers /\ x[2] \in Nat /\ x[3] \in Nat
    BY ConnectionParts
  <2>2. Later(x) /\ x # y
    <3>1. CASE x[1] = c
      BY <3>1, <2>1, <1>1, <1>4 DEF Later, IInv, Typed, Call
    <3>2. CASE x[1] # c
      BY <3>2, <2>1, <1>1, <1>4 DEF Later, IInv, Typed
    <3>. QED
      BY <3>1, <3>2
  <2>. QED
    BY <2>2, <1>2, <1>3 DEF IInv, Fresh
<1>10. WholeOK'
  <2>. SUFFICES ASSUME NEW x \in Connections PROVE WholeIn(x, conn[x])'
    BY DEF WholeOK
  <2>1. CASE x = y
    <3>1. conn'[x] = s /\ WholeIn(x, conn[x]) /\ UNCHANGED script
      BY <2>1, <1>1, <1>2, <1>3 DEF IInv, WholeOK
    <3>. QED
      BY <2>1, <3>1, <1>3 DEF WholeIn, Puts, Asked, Nowhere
  <2>2. CASE x # y
    <3>1. conn'[x] = conn[x] /\ WholeIn(x, conn[x]) /\ UNCHANGED script
      BY <2>2, <1>1, <1>2, <1>3 DEF IInv, WholeOK
    <3>. QED
      BY <3>1 DEF WholeIn, Puts, Asked
  <2>. QED
    BY <2>1, <2>2
<1>11. Counted'
  BY <1>7, SameHandlers DEF IInv, Busy
<1>. QED
  BY <1>5, <1>6, <1>8, <1>9, <1>10, <1>11 DEF IInv

(* A call goes on at its own end, for a connection it has not opened.        *)
LEMMA CallReady ==
  ASSUME IInv, NEW c \in Callers, call[c].at \in {"idle", "asleep"},
         call[c].i \in DOMAIN script[c],
         call' = [call EXCEPT ![c].at = "connect"],
         UNCHANGED <<script, conn, backlog, live, store>>
  PROVE  IInv'
<1>1. call' \in [Callers -> Call]
  BY DEF IInv, Typed, Call
<1>2. \A d \in Callers : /\ call'[d].i = call[d].i /\ call'[d].n = call[d].n
                         /\ call'[d].at = IF d = c THEN "connect" ELSE call[d].at
  BY DEF IInv, Typed, Call
<1>3. Typed' /\ BacklogOK'
  BY <1>1 DEF IInv, Typed, BacklogOK
<1>4. CallsOK'
  BY <1>2 DEF IInv, CallsOK
<1>5. Fresh'
  <2>. SUFFICES ASSUME NEW x \in Connections, Later(x)'  PROVE conn[x] = Nowhere
    BY DEF Fresh
  <2>1. x[1] \in Callers
    BY ConnectionParts
  <2>2. Later(x)
    BY <2>1, <1>2 DEF Later
  <2>. QED
    BY <2>2 DEF IInv, Fresh
<1>6. WholeOK'
  BY DEF IInv, WholeOK, WholeIn, Puts, Asked
<1>7. Counted'
  BY SameHandlers DEF IInv
<1>. QED
  BY <1>3, <1>4, <1>5, <1>6, <1>7 DEF IInv

(* An attempt opens its connection: it waits in the backlog, and only once.  *)
LEMMA ConnectKeeps ==
  ASSUME IInv, NEW c \in Callers, Connect(c), UNCHANGED script
  PROVE  IInv'
<1> DEFINE y == Here(c)
           s == [Nowhere EXCEPT !.at = "backlog", !.peer = TRUE]
<1>1. y \in Connections /\ y[1] = c /\ y[2] = call[c].i /\ y[3] = call[c].n /\ y # Waker
  BY HereIsOne, ConnectionParts DEF Connect
<1>2. s \in Conn /\ s.at = "backlog" /\ s.sent = 0
  <2> DEFINE r == [Nowhere EXCEPT !.at = "backlog"]
  <2>1. r \in Conn /\ r.at = "backlog" /\ r.sent = 0
    BY NowhereIsOne DEF Conn, Nowhere
  <2>2. s = [r EXCEPT !.peer = TRUE]
    OBVIOUS
  <2> HIDE DEF r, s
  <2>. QED
    BY <2>1, <2>2 DEF Conn
<1>3. conn' = [conn EXCEPT ![y] = s] /\ backlog' = Append(backlog, y)
  BY DEF Connect
<1>4. conn[y] = Nowhere
  BY <1>1 DEF IInv, Fresh, Later, Connect
<1>5. call' \in [Callers -> Call]
  BY DEF IInv, Typed, Call, Connect
<1>6. \A d \in Callers : /\ call'[d].i = call[d].i /\ call'[d].n = call[d].n
                         /\ call'[d].at = IF d = c THEN "send" ELSE call[d].at
  BY DEF IInv, Typed, Call, Connect
<1> HIDE DEF y, s
<1>7. Typed'
  <2>1. backlog' \in Seq(Connections \cup {Waker})
    BY <1>1, <1>3 DEF IInv, Typed
  <2>2. conn' \in [Connections -> Conn]
    BY <1>2, <1>3 DEF IInv, Typed
  <2>. QED
    BY <1>5, <2>1, <2>2 DEF IInv, Typed, Connect
<1>8. CallsOK'
  BY <1>6 DEF IInv, CallsOK, Connect
<1>9. BacklogOK'
  <2>1. \A i \in DOMAIN backlog : backlog[i] # y
    BY <1>1, <1>4 DEF IInv, BacklogOK, Nowhere
  <2>2. backlog \in Seq(Connections \cup {Waker})
    BY DEF IInv, Typed
  <2>3. \A i \in DOMAIN backlog' : \/ i \in DOMAIN backlog /\ backlog'[i] = backlog[i]
                                   \/ i = Len(backlog) + 1 /\ backlog'[i] = y
    BY <1>1, <1>3, <2>2
  <2>4. conn'[y].at = "backlog"
    BY <1>1, <1>2, <1>3 DEF IInv, Typed
  <2>5. \A i \in DOMAIN backlog : backlog[i] # Waker => conn'[backlog[i]] = conn[backlog[i]]
    BY <2>1, <2>2, <1>3 DEF IInv, Typed
  <2>. SUFFICES ASSUME NEW i \in DOMAIN backlog', NEW j \in DOMAIN backlog', backlog'[i] # Waker
                PROVE  /\ conn'[backlog'[i]].at = "backlog"
                       /\ backlog'[i] = backlog'[j] => i = j
    BY DEF BacklogOK
  <2>. QED
    BY <2>1, <2>3, <2>4, <2>5 DEF IInv, BacklogOK
<1>10. Fresh'
  <2>. SUFFICES ASSUME NEW x \in Connections, Later(x)'  PROVE conn'[x] = Nowhere
    BY DEF Fresh
  <2>1. x[1] \in Callers /\ x[2] \in Nat /\ x[3] \in Nat
    BY ConnectionParts
  <2>2. Later(x) /\ x # y
    <3>1. CASE x[1] = c
      BY <3>1, <2>1, <1>1, <1>5, <1>6 DEF Later, IInv, Typed, Call
    <3>2. CASE x[1] # c
      BY <3>2, <2>1, <1>1, <1>6 DEF Later
    <3>. QED
      BY <3>1, <3>2
  <2>. QED
    BY <2>2, <1>3 DEF IInv, Fresh, Typed
<1>11. WholeOK'
  <2>. SUFFICES ASSUME NEW x \in Connections PROVE WholeIn(x, conn[x])'
    BY DEF WholeOK
  <2>1. CASE x = y
    <3>1. conn'[x] = s /\ y[2] \in DOMAIN script[y[1]] /\ UNCHANGED script
      BY <2>1, <1>1, <1>3 DEF IInv, Typed, CallsOK, Connect
    <3>. QED
      BY <2>1, <3>1, <1>2 DEF WholeIn, Puts, Asked
  <2>2. CASE x # y
    <3>1. conn'[x] = conn[x] /\ WholeIn(x, conn[x]) /\ UNCHANGED script
      BY <2>2, <1>1, <1>3 DEF IInv, WholeOK, Typed
    <3>. QED
      BY <3>1 DEF WholeIn, Puts, Asked
  <2>. QED
    BY <2>1, <2>2
<1>12. Counted'
  <2>1. \A x \in Connections : conn'[x].at \in Busy <=> conn[x].at \in Busy
    BY <1>1, <1>2, <1>3, <1>4 DEF IInv, Typed, Busy, Nowhere
  <2>. QED
    BY <2>1, SameHandlers DEF IInv, Connect
<1>. QED
  BY <1>7, <1>8, <1>9, <1>10, <1>11, <1>12 DEF IInv

(* One connection goes on, and no call moves.                                *)
LEMMA ConnectionMoves ==
  ASSUME IInv, NEW x \in Connections, NEW s \in Conn, conn[x] # Nowhere \/ ~Later(x),
         conn' = [conn EXCEPT ![x] = s], WholeIn(x, s), UNCHANGED <<script, call>>
  PROVE  conn' \in [Connections -> Conn] /\ CallsOK' /\ Fresh' /\ WholeOK'
<1>1. conn' \in [Connections -> Conn]
  BY DEF IInv, Typed
<1>2. CallsOK'
  BY DEF IInv, CallsOK
<1>3. Fresh'
  <2>. SUFFICES ASSUME NEW y \in Connections, Later(y)'  PROVE conn'[y] = Nowhere
    BY DEF Fresh
  <2>1. Later(y)
    BY DEF Later
  <2>. QED
    BY <2>1 DEF IInv, Fresh, Typed
<1>4. WholeOK'
  <2>. SUFFICES ASSUME NEW y \in Connections PROVE WholeIn(y, conn[y])'
    BY DEF WholeOK
  <2>1. WholeIn(y, conn'[y])
    BY DEF IInv, WholeOK, Typed
  <2>. QED
    BY <2>1 DEF WholeIn, Puts, Asked
<1>. QED
  BY <1>1, <1>2, <1>3, <1>4

(* What Gone makes of a connection.                                          *)
LEMMA GoneIsOne ==
  ASSUME NEW s \in Conn
  PROVE  Gone(s) \in Conn /\ Gone(s).at \in {"none", "gone"}
<1>1. CASE ~s.peer
  BY <1>1, NowhereIsOne DEF Gone, Nowhere
<1>2. CASE s.peer
  <2> DEFINE q == [s EXCEPT !.at = "gone"]
             r == [q EXCEPT !.out = Nothing]
  <2>1. q \in Conn /\ q.at = "gone"
    BY DEF Conn
  <2>2. r \in Conn /\ r.at = q.at
    <3> HIDE DEF q
    <3>. QED
      BY <2>1 DEF Conn, Answers
  <2>3. Gone(s) = [r EXCEPT !.sent = 2]
    BY <1>2 DEF Gone
  <2> HIDE DEF r
  <2>. QED
    BY <2>1, <2>2, <2>3 DEF Conn
<1>. QED
  BY <1>1, <1>2 DEF Conn

(* The server has left x, and holds nothing of it.                           *)
LEMMA GoneIsWhole ==
  ASSUME NEW x \in Connections, NEW s \in Conn, WholeIn(x, s), s.at # "none"
  PROVE  WholeIn(x, Gone(s))
BY GoneIsOne DEF WholeIn

(* A handler goes on, or ends and gives its slot back.                       *)
LEMMA HandlerMoves ==
  ASSUME IInv, NEW x \in Connections, NEW s \in Conn, conn[x].at \in Busy,
         conn' = [conn EXCEPT ![x] = s], WholeIn(x, s), UNCHANGED <<script, call, backlog>>,
         store' \in [Keys -> Whole \cup {Nothing}],
         \/ s.at \in Busy /\ live' = live
         \/ s.at \notin Busy /\ live' = live - 1
  PROVE  IInv'
<1>1. /\ conn[x] # Nowhere /\ conn[x].at # "backlog"
      /\ conn \in [Connections -> Conn] /\ live \in Nat
  BY DEF IInv, Typed, Busy, Nowhere
<1>2. conn' \in [Connections -> Conn] /\ CallsOK' /\ Fresh' /\ WholeOK'
  BY <1>1, ConnectionMoves
<1>3. Counted' /\ live' \in Nat
  <2>1. CASE s.at \in Busy /\ live' = live
    <3>1. \A y \in Connections : conn'[y].at \in Busy <=> conn[y].at \in Busy
      BY <2>1, <1>1
    <3>. QED
      BY <2>1, <3>1, <1>1, SameHandlers DEF IInv
  <2>2. CASE s.at \notin Busy /\ live' = live - 1
    BY <2>2, OneHandlerLess DEF IInv
  <2>. QED
    BY <2>1, <2>2
<1>4. BacklogOK'
  <2>1. \A i \in DOMAIN backlog : backlog[i] # Waker => conn'[backlog[i]] = conn[backlog[i]]
    BY <1>1 DEF IInv, Typed, BacklogOK
  <2>. QED
    BY <2>1 DEF IInv, BacklogOK
<1>5. Typed'
  BY <1>2, <1>3 DEF IInv, Typed
<1>. QED
  BY <1>2, <1>3, <1>4, <1>5 DEF IInv

(* What Answer makes of a connection.                                        *)
LEMMA AnswerKeeps ==
  ASSUME IInv, NEW x \in Connections, NEW out \in Answers, conn[x].at \in Busy,
         Answer(x, out), UNCHANGED <<script, call, backlog, live>>,
         store' \in [Keys -> Whole \cup {Nothing}]
  PROVE  IInv'
<1> DEFINE r == [conn[x] EXCEPT !.at = "reply"]
           s == [r EXCEPT !.out = out]
<1>1. conn[x] \in Conn /\ conn \in [Connections -> Conn]
  BY DEF IInv, Typed
<1>2. r \in Conn /\ r.at = "reply"
  BY <1>1 DEF Conn, Busy
<1>3. s \in Conn /\ s.at = r.at
  <2> HIDE DEF r
  <2>. QED
    BY <1>2 DEF Conn
<1>4. conn' = [conn EXCEPT ![x] = s]
  BY <1>1 DEF Answer
<1>5. WholeIn(x, conn[x])
  BY DEF IInv, WholeOK
<1> HIDE DEF r, s
<1>6. WholeIn(x, s)
  BY <1>2, <1>3, <1>5 DEF WholeIn, Busy
<1>. QED
  BY <1>2, <1>3, <1>4, <1>6, HandlerMoves DEF Busy

(* The end of a handler, told or not, gives its slot back.                   *)
LEMMA HandlerEnds ==
  ASSUME IInv, NEW x \in Connections, conn[x].at \in Busy, HandlerDone(x),
         UNCHANGED <<script, call, backlog, store>>
  PROVE  IInv'
<1>1. conn[x] \in Conn /\ WholeIn(x, conn[x]) /\ conn[x].at # "none"
  BY DEF IInv, Typed, WholeOK, Busy
<1>2. Gone(conn[x]) \in Conn /\ Gone(conn[x]).at \notin Busy /\ WholeIn(x, Gone(conn[x]))
  BY <1>1, GoneIsOne, GoneIsWhole DEF Busy
<1>3. conn' = [conn EXCEPT ![x] = Gone(conn[x])] /\ live' = live - 1
  BY DEF HandlerDone
<1>4. store' \in [Keys -> Whole \cup {Nothing}]
  BY DEF IInv, Typed
<1>. QED
  BY <1>2, <1>3, <1>4, HandlerMoves

(* Every step of a handler, from the head to the polite close.               *)
LEMMA HandlerKeeps ==
  ASSUME IInv, NEW x \in Connections, Handler(x), UNCHANGED script
  PROVE  IInv'
<1>1. conn[x] \in Conn /\ WholeIn(x, conn[x]) /\ conn \in [Connections -> Conn]
  BY DEF IInv, Typed, WholeOK
<1>2. store \in [Keys -> Whole \cup {Nothing}]
  BY DEF IInv, Typed
<1>3. conn[x].at # "none" =>
        /\ Asked(x).key \in Keys
        /\ Puts(x) => Asked(x).body \in Bodies
  BY <1>1, ConnectionParts, PlaysAssumption DEF IInv, Typed, WholeIn, Asked, Puts
<1>4. \A n \in Nat : Status(n) \in Answers
  BY DEF Status, Answers, Value
<1>5. CASE ReadHead(x)
  <2>1. CASE Puts(x)
    <3> DEFINE s == [conn[x] EXCEPT !.at = "body"]
    <3>1. s \in Conn /\ s.at = "body" /\ s.sent = conn[x].sent
      BY <1>1 DEF Conn, Busy
    <3>2. conn' = [conn EXCEPT ![x] = s] /\ conn[x].at = "head"
      BY <1>1, <1>5, <2>1 DEF ReadHead, Handling
    <3> HIDE DEF s
    <3>3. WholeIn(x, s)
      BY <1>1, <2>1, <3>1, <3>2 DEF WholeIn
    <3>4. UNCHANGED <<call, backlog, live, store>>
      BY <1>5 DEF ReadHead, Serving
    <3>. QED
      BY <1>2, <3>1, <3>2, <3>3, <3>4, HandlerMoves DEF Busy
  <2>2. CASE ~Puts(x)
    <3> DEFINE out == IF store[Asked(x).key] = Nothing THEN Status(404)
                      ELSE [status |-> 200, body |-> store[Asked(x).key]]
    <3>1. conn[x].at = "head" /\ Answer(x, out) /\ UNCHANGED <<call, backlog, live, store>>
      BY <1>5, <2>2 DEF ReadHead, Handling, Serving
    <3>2. out \in Answers
      BY <1>2, <1>3, <1>4, <3>1 DEF Answers, Value, Whole
    <3> HIDE DEF out
    <3>. QED
      BY <1>2, <3>1, <3>2, AnswerKeeps DEF Busy
  <2>. QED
    BY <2>1, <2>2
<1>6. CASE HangUp(x)
  BY <1>6, HandlerEnds DEF HangUp, Handling, Serving, Busy
<1>7. CASE ReadBody(x)
  <2>1. conn[x].at = "body" /\ UNCHANGED <<call, backlog, live, store>>
    BY <1>7 DEF ReadBody, Handling, Serving
  <2>2. CASE \E n \in Nat : Answer(x, Status(n))
    BY <1>2, <1>4, <2>1, <2>2, AnswerKeeps DEF Busy
  <2>3. CASE /\ Asked(x).body \notin TooBig /\ BodyIsWhole(x)
             /\ conn' = [conn EXCEPT ![x].at = "commit"]
    <3> DEFINE s == [conn[x] EXCEPT !.at = "commit"]
    <3>1. s \in Conn /\ s.at = "commit" /\ s.sent = conn[x].sent
      BY <1>1 DEF Conn, Busy
    <3>2. conn' = [conn EXCEPT ![x] = s]
      BY <1>1, <2>3
    <3> HIDE DEF s
    <3>3. WholeIn(x, s)
      BY <1>1, <2>1, <2>3, <3>1 DEF WholeIn, BodyIsWhole
    <3>. QED
      BY <1>2, <2>1, <3>1, <3>2, <3>3, HandlerMoves DEF Busy
  <2>. QED
    BY <1>7, <2>2, <2>3 DEF ReadBody
<1>8. CASE Commit(x)
  <2>1. conn[x].at = "commit" /\ UNCHANGED <<call, backlog, live>>
    BY <1>8 DEF Commit, Handling, Serving
  <2>2. Staged(x) \in Whole
    <3>1. conn[x].sent = 2 /\ Puts(x) /\ Asked(x).body \notin TooBig
      BY <1>1, <2>1 DEF WholeIn
    <3>2. Asked(x).body \notin OverCap
      BY <1>1, <2>1, <3>1 DEF WholeIn
    <3>3. Asked(x).body \in Bodies
      BY <1>3, <2>1, <3>1
    <3>. QED
      BY <3>1, <3>2, <3>3 DEF Staged, Whole
  <2>3. store' \in [Keys -> Whole \cup {Nothing}]
    <3>1. CASE Wins(x)
      <4>1. store' = [store EXCEPT ![Asked(x).key] = Staged(x)]
        BY <1>8, <3>1 DEF Commit
      <4>. QED
        BY <1>2, <2>2, <4>1
    <3>2. CASE ~Wins(x)
      <4>1. store' = store
        BY <1>8, <3>2 DEF Commit
      <4>. QED
        BY <1>2, <4>1
    <3>. QED
      BY <3>1, <3>2
  <2>. QED
    BY <1>4, <1>8, <2>1, <2>3, AnswerKeeps DEF Commit, Busy
<1>9. CASE CommitFails(x)
  BY <1>2, <1>4, <1>9, AnswerKeeps DEF CommitFails, Handling, Busy
<1>10. CASE Reply(x)
  <2>1. PICK lost \in BOOLEAN :
          conn' = [conn EXCEPT ![x].at = "close",
                               ![x].answer = IF lost THEN Nothing ELSE conn[x].out]
    BY <1>10 DEF Reply
  <2> DEFINE answer == IF lost THEN Nothing ELSE conn[x].out
             r == [conn[x] EXCEPT !.at = "close"]
             s == [r EXCEPT !.answer = answer]
  <2>2. r \in Conn /\ r.at = "close"
    BY <1>1 DEF Conn, Busy
  <2>3. answer \in Answers
    BY <1>1 DEF Conn, Answers
  <2>4. s \in Conn /\ s.at = r.at
    <3> HIDE DEF r, answer
    <3>. QED
      BY <2>2, <2>3 DEF Conn
  <2>5. conn' = [conn EXCEPT ![x] = s]
    <3>1. conn' = [conn EXCEPT ![x].at = "close", ![x].answer = answer]
      BY <2>1
    <3> HIDE DEF answer
    <3>. QED
      BY <1>1, <3>1
  <2>6. conn[x].at = "reply" /\ UNCHANGED <<call, backlog, live, store>>
    BY <1>10 DEF Reply, Handling, Serving
  <2> HIDE DEF r, s
  <2>7. WholeIn(x, s)
    BY <1>1, <2>2, <2>4, <2>6 DEF WholeIn
  <2>. QED
    BY <1>2, <2>2, <2>4, <2>5, <2>6, <2>7, HandlerMoves DEF Busy
<1>11. CASE Close(x)
  BY <1>11, HandlerEnds DEF Close, Handling, Serving, Busy
<1>. QED
  BY <1>5, <1>6, <1>7, <1>8, <1>9, <1>10, <1>11 DEF Handler

(* The loop takes the first of the backlog: no other entry is that one.      *)
LEMMA TakenKeeps ==
  ASSUME IInv, backlog # <<>>, backlog' = Tail(backlog), UNCHANGED <<script, call, store>>,
         NEW x, x = Head(backlog), x # Waker, NEW s \in Conn,
         conn' = [conn EXCEPT ![x] = s], WholeIn(x, s),
         \/ s.at \notin Busy /\ live' = live
         \/ s.at \in Busy /\ live' = live + 1 /\ live < MaxConnections
  PROVE  IInv'
<1>1. /\ backlog \in Seq(Connections \cup {Waker}) /\ conn \in [Connections -> Conn]
      /\ live \in Nat
  BY DEF IInv, Typed
<1>2. Len(backlog) > 0 /\ 1 \in DOMAIN backlog /\ x = backlog[1]
  BY <1>1
<1>3. x \in Connections /\ conn[x].at = "backlog"
  BY <1>1, <1>2 DEF IInv, BacklogOK
<1>4. conn[x] # Nowhere
  BY <1>3 DEF Nowhere
<1>5. conn' \in [Connections -> Conn] /\ CallsOK' /\ Fresh' /\ WholeOK'
  BY <1>3, <1>4, ConnectionMoves
<1>6. Counted' /\ live' \in Nat
  <2>1. CASE s.at \notin Busy /\ live' = live
    <3>1. conn[x].at \notin Busy
      BY <1>3 DEF Busy
    <3>2. \A y \in Connections : conn'[y].at \in Busy <=> conn[y].at \in Busy
      BY <2>1, <3>1, <1>1
    <3>. QED
      BY <2>1, <3>2, <1>1, SameHandlers DEF IInv
  <2>2. CASE s.at \in Busy /\ live' = live + 1 /\ live < MaxConnections
    <3>1. conn[x].at \notin Busy
      BY <1>3 DEF Busy
    <3>2. Counted'
      BY <2>2, <3>1, <1>3, OneHandlerMore DEF IInv
    <3>. QED
      BY <2>2, <3>2, <1>1
  <2>. QED
    BY <2>1, <2>2
<1>7. BacklogOK'
  <2>1. \A i \in DOMAIN backlog' : i + 1 \in DOMAIN backlog /\ backlog'[i] = backlog[i + 1]
    BY <1>1, <1>2
  <2>2. \A i \in DOMAIN backlog' : backlog'[i] # Waker =>
          backlog'[i] # x /\ conn'[backlog'[i]].at = "backlog"
    <3>. SUFFICES ASSUME NEW i \in DOMAIN backlog', backlog'[i] # Waker
                  PROVE  backlog'[i] # x /\ conn'[backlog'[i]].at = "backlog"
      OBVIOUS
    <3>1. i \in Nat \ {0} /\ i + 1 \in DOMAIN backlog /\ backlog'[i] = backlog[i + 1]
      BY <2>1, <1>1
    <3>2. backlog'[i] # x
      BY <3>1, <1>2 DEF IInv, BacklogOK
    <3>3. conn[backlog'[i]].at = "backlog"
      BY <3>1 DEF IInv, BacklogOK
    <3>4. backlog'[i] \in Connections
      BY <3>1, <1>1
    <3>. QED
      BY <3>2, <3>3, <3>4, <1>1
  <2>3. \A i, j \in DOMAIN backlog' : backlog'[i] # Waker /\ backlog'[i] = backlog'[j] => i = j
    <3>. SUFFICES ASSUME NEW i \in DOMAIN backlog', NEW j \in DOMAIN backlog',
                         backlog'[i] # Waker, backlog'[i] = backlog'[j]
                  PROVE  i = j
      OBVIOUS
    <3>1. i + 1 = j + 1
      BY <2>1 DEF IInv, BacklogOK
    <3>2. i \in Nat /\ j \in Nat
      BY <1>1
    <3>. QED
      BY <3>1, <3>2
  <2>. QED
    BY <2>2, <2>3 DEF BacklogOK
<1>8. backlog' \in Seq(Connections \cup {Waker})
  BY <1>1, <1>2
<1>9. Typed'
  BY <1>5, <1>6, <1>8 DEF IInv, Typed
<1>. QED
  BY <1>5, <1>6, <1>7, <1>9 DEF IInv

(* The wake-up call is taken off the backlog, which nobody answers.          *)
LEMMA WakerTaken ==
  ASSUME IInv, backlog # <<>>, backlog' = Tail(backlog),
         UNCHANGED <<script, call, conn, live, store>>
  PROVE  IInv'
<1>1. backlog \in Seq(Connections \cup {Waker})
  BY DEF IInv, Typed
<1>2. Len(backlog) > 0 /\ backlog' \in Seq(Connections \cup {Waker})
  BY <1>1
<1>3. \A i \in DOMAIN backlog' : /\ i \in Nat /\ i + 1 \in DOMAIN backlog
                                 /\ backlog'[i] = backlog[i + 1]
  BY <1>1, <1>2
<1>4. BacklogOK'
  <2>. SUFFICES ASSUME NEW i \in DOMAIN backlog', NEW j \in DOMAIN backlog', backlog'[i] # Waker
                PROVE  /\ conn[backlog'[i]].at = "backlog"
                       /\ backlog'[i] = backlog'[j] => i = j
    BY DEF BacklogOK
  <2>1. conn[backlog[i + 1]].at = "backlog" /\ (backlog[i + 1] = backlog[j + 1] => i + 1 = j + 1)
    BY <1>3 DEF IInv, BacklogOK
  <2>. QED
    BY <1>3, <2>1
<1>5. Typed'
  BY <1>2 DEF IInv, Typed
<1>6. Counted'
  BY SameHandlers DEF IInv
<1>7. CallsOK' /\ Fresh' /\ WholeOK'
  BY DEF IInv, CallsOK, Fresh, Later, WholeOK, WholeIn, Puts, Asked
<1>. QED
  BY <1>4, <1>5, <1>6, <1>7 DEF IInv

(* The accept loop, in each of its four branches.                            *)
LEMMA AcceptKeeps ==
  ASSUME IInv, Accept, UNCHANGED script
  PROVE  IInv'
<1> DEFINE x == Head(backlog)
<1>1. /\ backlog # <<>> /\ backlog' = Tail(backlog) /\ UNCHANGED <<script, call, store>>
      /\ backlog \in Seq(Connections \cup {Waker}) /\ conn \in [Connections -> Conn]
  BY DEF Accept, IInv, Typed
<1>2. x # Waker => /\ x \in Connections /\ conn[x].at = "backlog"
                   /\ conn[x] \in Conn /\ WholeIn(x, conn[x])
  <2>1. 1 \in DOMAIN backlog /\ x = backlog[1] /\ x \in Connections \cup {Waker}
    BY <1>1
  <2>. QED
    BY <2>1, <1>1 DEF IInv, BacklogOK, WholeOK
<1>3. x # Waker => /\ Gone(conn[x]) \in Conn /\ Gone(conn[x]).at \in {"none", "gone"}
                   /\ WholeIn(x, Gone(conn[x]))
  BY <1>2, GoneIsOne, GoneIsWhole
<1> HIDE DEF x
<1>4. CASE Drops(x) /\ UNCHANGED live
  <2>1. CASE x = Waker
    BY <2>1, <1>1, <1>4, WakerTaken DEF Drops
  <2>2. CASE x # Waker
    <3>1. conn' = [conn EXCEPT ![x] = Gone(conn[x])]
      BY <1>4, <2>2 DEF Drops
    <3>. QED
      BY <2>2, <3>1, <1>1, <1>3, <1>4, TakenKeeps DEF Busy, x
  <2>. QED
    BY <2>1, <2>2
<1>5. CASE /\ x # Waker /\ UNCHANGED live
           /\ \E answer \in {Status(503), Nothing} :
                conn' = [conn EXCEPT ![x] = [Gone(@) EXCEPT !.answer = answer]]
  <2>1. PICK answer \in {Status(503), Nothing} :
          conn' = [conn EXCEPT ![x] = [Gone(@) EXCEPT !.answer = answer]]
    BY <1>5
  <2>2. answer \in Answers
    BY DEF Status, Answers, Value
  <2> DEFINE g == Gone(conn[x])
             s == [g EXCEPT !.answer = answer]
  <2>3. conn' = [conn EXCEPT ![x] = s]
    BY <2>1, <1>1, <1>2, <1>5
  <2>4. s \in Conn /\ s.at \in {"none", "gone"} /\ s.at = g.at
    <3>1. g \in Conn /\ g.at \in {"none", "gone"}
      BY <1>3, <1>5
    <3> HIDE DEF g
    <3>. QED
      BY <2>2, <3>1 DEF Conn
  <2> HIDE DEF s
  <2>5. WholeIn(x, s)
    BY <2>4, <1>3, <1>5 DEF WholeIn
  <2>. QED
    BY <2>3, <2>4, <2>5, <1>1, <1>5, TakenKeeps DEF Busy, x
<1>6. CASE /\ x # Waker /\ ~Full /\ live' = live + 1
           /\ conn' = [conn EXCEPT ![x].at = "head"]
  <2> DEFINE s == [conn[x] EXCEPT !.at = "head"]
  <2>1. s \in Conn /\ s.at = "head" /\ s.sent = conn[x].sent
    BY <1>2, <1>6 DEF Conn, Busy
  <2>2. conn' = [conn EXCEPT ![x] = s]
    BY <1>1, <1>2, <1>6
  <2>3. live < MaxConnections
    BY <1>6, CapAssumption DEF Full, IInv, Typed
  <2> HIDE DEF s
  <2>4. WholeIn(x, s)
    BY <2>1, <1>2, <1>6 DEF WholeIn
  <2>. QED
    BY <2>1, <2>2, <2>3, <2>4, <1>1, <1>6, TakenKeeps DEF Busy, x
<1>7. CASE /\ x # Waker /\ live' = AfterSpawnFailed
           /\ conn' = [conn EXCEPT ![x] = Gone(@)]
  <2>1. conn' = [conn EXCEPT ![x] = Gone(conn[x])] /\ live' = live
    BY <1>7 DEF AfterSpawnFailed
  <2>. QED
    BY <2>1, <1>1, <1>3, <1>7, TakenKeeps DEF Busy, x
<1>. QED
  BY <1>4, <1>5, <1>6, <1>7 DEF Accept, x

(* A caller sends on, whatever the server does with its connection.          *)
LEMMA SendKeeps ==
  ASSUME IInv, NEW c \in Callers, Send(c), UNCHANGED script
  PROVE  IInv'
<1> DEFINE x == Here(c)
           s == [conn[x] EXCEPT !.sent = IF Puts(x) THEN @ + 1 ELSE 2]
<1>1. x \in Connections /\ x[1] = c /\ x[2] = call[c].i /\ x[3] = call[c].n
  BY HereIsOne DEF Send
<1>2. conn[x] \in Conn /\ conn \in [Connections -> Conn] /\ WholeIn(x, conn[x])
  BY <1>1 DEF IInv, Typed, WholeOK
<1>3. /\ conn[x].sent < 2
      /\ conn[x].sent = 1 => ~(Puts(x) /\ Asked(x).body \in OverCap)
      /\ UNCHANGED <<script, call, backlog, live, store>>
  BY DEF Send
<1>4. conn' = [conn EXCEPT ![x] = s]
  BY <1>1, <1>2 DEF Send
<1>5. /\ s \in Conn /\ s.at = conn[x].at
      /\ Puts(x) => s.sent = conn[x].sent + 1
  BY <1>2, <1>3 DEF Conn
<1>6. ~Later(x)
  BY <1>1 DEF Later, Send, IInv, Typed, Call
<1> HIDE DEF s
<1>7. WholeIn(x, s)
  <2>1. s.at # "commit"
    BY <1>2, <1>3, <1>5 DEF WholeIn
  <2>2. conn[x].sent \in 0..2
    BY <1>2 DEF Conn
  <2>. QED
    BY <2>1, <2>2, <1>2, <1>3, <1>5 DEF WholeIn
<1>8. conn' \in [Connections -> Conn] /\ CallsOK' /\ Fresh' /\ WholeOK'
  BY <1>1, <1>3, <1>4, <1>5, <1>6, <1>7, ConnectionMoves
<1>9. \A y \in Connections : conn'[y].at = conn[y].at
  BY <1>1, <1>2, <1>4, <1>5
<1>10. Typed'
  BY <1>3, <1>8 DEF IInv, Typed
<1>11. BacklogOK'
  <2>1. \A i \in DOMAIN backlog : backlog[i] # Waker => backlog[i] \in Connections
    BY DEF IInv, Typed
  <2>. QED
    BY <2>1, <1>3, <1>9 DEF IInv, BacklogOK
<1>12. Counted'
  BY <1>3, <1>9, SameHandlers DEF IInv
<1>. QED
  BY <1>8, <1>10, <1>11, <1>12 DEF IInv

(* Every step of a caller.                                                   *)
LEMMA CallerKeeps ==
  ASSUME IInv, NEW c \in Callers, Caller(c), UNCHANGED script
  PROVE  IInv'
<1>1. CASE Begin(c)
  BY <1>1, CallReady DEF Begin
<1>2. CASE WakeUp(c)
  BY <1>2, CallReady DEF WakeUp, IInv, CallsOK
<1>3. CASE Connect(c)
  BY <1>3, ConnectKeeps
<1>4. CASE Send(c)
  BY <1>4, SendKeeps
<1>5. CASE NoConnection(c)
  BY <1>5, AttemptOver DEF NoConnection, AttemptFails, Again, Return
<1>6. CASE CapReached(c)
  BY <1>6, AttemptOver DEF CapReached, Return
<1>7. CASE GiveUp(c)
  BY <1>7, AttemptOver DEF GiveUp, AttemptFails, Again, Return
<1>8. CASE Receive(c)
  <2>1. \/ \E answer : Return(c, answer)
        \/ \E error : AttemptFails(c, error)
    BY <1>8 DEF Receive
  <2>2. call[c].at = "send" /\ conn' = LeftBy(c) /\ UNCHANGED <<backlog, live, store>>
    BY <1>8 DEF Receive
  <2>3. ASSUME NEW answer, Return(c, answer)  PROVE IInv'
    BY <2>2, <2>3, AttemptOver DEF Return
  <2>4. ASSUME NEW error, AttemptFails(c, error)  PROVE IInv'
    BY <2>2, <2>4, AttemptOver DEF AttemptFails, Again, Return
  <2>. QED
    BY <2>1, <2>3, <2>4
<1>9. CASE ProxyAnswers(c)
  <2>1. /\ call[c].at = "send" /\ conn' = LeftBy(c) /\ UNCHANGED <<backlog, live, store>>
        /\ \E error : AttemptFails(c, error)
    BY <1>9 DEF ProxyAnswers
  <2>2. ASSUME NEW error, AttemptFails(c, error)  PROVE IInv'
    BY <2>1, <2>2, AttemptOver DEF AttemptFails, Again, Return
  <2>. QED
    BY <2>1, <2>2
<1>. QED
  BY <1>1, <1>2, <1>3, <1>4, <1>5, <1>6, <1>7, <1>8, <1>9 DEF Caller

(* The server goes, with what it had not accepted.                           *)
LEMMA EverybodyLeft ==
  ASSUME IInv, NEW S \in SUBSET Connections, \A x \in S : conn[x].at # "none",
         \A x \in Connections \ S : conn[x].at # "backlog", backlog' = <<>>,
         conn' = [x \in Connections |-> IF x \in S THEN Gone(conn[x]) ELSE conn[x]],
         UNCHANGED <<script, call, store>>,
         \/ S \cap Handlers = {} /\ live' = live
         \/ Handlers \subseteq S /\ live' = 0
  PROVE  IInv'
<1>1. \A x \in S : /\ Gone(conn[x]) \in Conn /\ Gone(conn[x]).at \in {"none", "gone"}
                   /\ WholeIn(x, Gone(conn[x]))
  BY GoneIsOne, GoneIsWhole DEF IInv, Typed, WholeOK
<1>2. conn' \in [Connections -> Conn]
  BY <1>1 DEF IInv, Typed
<1>3. CallsOK'
  BY DEF IInv, CallsOK
<1>4. BacklogOK'
  BY DEF BacklogOK
<1>5. Fresh'
  <2>. SUFFICES ASSUME NEW x \in Connections, Later(x)'  PROVE conn'[x] = Nowhere
    BY DEF Fresh
  <2>1. conn[x] = Nowhere
    BY DEF Later, IInv, Fresh
  <2>. QED
    BY <2>1 DEF Nowhere
<1>6. WholeOK'
  <2>. SUFFICES ASSUME NEW x \in Connections PROVE WholeIn(x, conn[x])'
    BY DEF WholeOK
  <2>1. WholeIn(x, conn'[x])
    BY <1>1 DEF IInv, WholeOK
  <2>. QED
    BY <2>1 DEF WholeIn, Puts, Asked
<1>7. Counted' /\ live' \in Nat
  <2>1. CASE S \cap Handlers = {} /\ live' = live
    <3>1. \A x \in Connections : conn'[x].at \in Busy <=> conn[x].at \in Busy
      BY <2>1, <1>1 DEF Handlers, Busy
    <3>. QED
      BY <2>1, <3>1, SameHandlers DEF IInv, Typed
  <2>2. CASE Handlers \subseteq S /\ live' = 0
    <3>1. Handlers' = {}
      BY <2>2, <1>1 DEF Handlers
    <3>. QED
      BY <2>2, <3>1, FS_EmptySet, CapAssumption DEF Counted
  <2>. QED
    BY <2>1, <2>2
<1>8. Typed'
  <2>1. backlog' \in Seq(Connections \cup {Waker})
    OBVIOUS
  <2>. QED
    BY <1>2, <1>7, <2>1 DEF IInv, Typed
<1>. QED
  BY <1>3, <1>4, <1>5, <1>6, <1>7, <1>8 DEF IInv

(* Nothing moves but the server's flags, or the wake-up call joins.          *)
LEMMA ServerOnly ==
  ASSUME IInv, UNCHANGED <<script, call, conn, live, store>>,
         UNCHANGED backlog \/ backlog' = backlog \o <<Waker>>
  PROVE  IInv'
<1>1. backlog \in Seq(Connections \cup {Waker})
  BY DEF IInv, Typed
<1>2. backlog' \in Seq(Connections \cup {Waker})
  BY <1>1
<1>3. \A i \in DOMAIN backlog' : backlog'[i] # Waker =>
        i \in DOMAIN backlog /\ backlog'[i] = backlog[i]
  BY <1>1
<1>4. BacklogOK'
  BY <1>3 DEF IInv, BacklogOK
<1>5. Typed'
  BY <1>2 DEF IInv, Typed
<1>6. CallsOK' /\ Fresh'
  BY DEF IInv, CallsOK, Fresh, Later
<1>7. WholeOK'
  BY DEF IInv, WholeOK, WholeIn, Puts, Asked
<1>8. Counted'
  BY SameHandlers DEF IInv
<1>. QED
  BY <1>4, <1>5, <1>6, <1>7, <1>8 DEF IInv

(* Every step of the system.                                                 *)
LEMMA NextKeeps ==
  ASSUME IInv, [Next]_vars
  PROVE  IInv'
<1>1. ASSUME NEW c \in Callers, Watched(Caller(c))  PROVE IInv'
  BY <1>1, CallerKeeps DEF Watched
<1>2. ASSUME NEW x \in Connections, Watched(Handler(x))  PROVE IInv'
  BY <1>2, HandlerKeeps DEF Watched
<1>3. CASE Watched(Accept)
  BY <1>3, AcceptKeeps DEF Watched
<1>4. CASE Watched(Stop)
  BY <1>4, ServerOnly DEF Watched, Stop
<1>5. CASE Watched(ConnectToSelf)
  BY <1>5, ServerOnly DEF Watched, ConnectToSelf, Wake
<1>6. CASE Watched(Returned)
  <2> DEFINE S == {x \in Connections : conn[x].at = "backlog"}
  <2>1. /\ conn' = [x \in Connections |-> IF x \in S THEN Gone(conn[x]) ELSE conn[x]]
        /\ backlog' = <<>> /\ S \cap Handlers = {}
        /\ UNCHANGED <<script, call, live, store>>
    BY <1>6 DEF Watched, Returned
  <2>2. \A x \in S : conn[x].at # "none"
    OBVIOUS
  <2>3. \A x \in Connections \ S : conn[x].at # "backlog"
    OBVIOUS
  <2>4. S \in SUBSET Connections
    OBVIOUS
  <2> HIDE DEF S
  <2>. QED
    BY <2>1, <2>2, <2>3, <2>4, EverybodyLeft
<1>7. CASE Watched(Die)
  <2> DEFINE S == {x \in Connections : x \in Handlers \/ conn[x].at = "backlog"}
  <2>1. /\ conn' = [x \in Connections |-> IF x \in S THEN Gone(conn[x]) ELSE conn[x]]
        /\ backlog' = <<>> /\ live' = 0
        /\ UNCHANGED <<script, call, store>>
    BY <1>7 DEF Watched, Die
  <2>2. \A x \in S : conn[x].at # "none"
    BY DEF Handlers
  <2>3. \A x \in Connections \ S : conn[x].at # "backlog"
    OBVIOUS
  <2>4. S \in SUBSET Connections /\ Handlers \subseteq S
    BY DEF Handlers
  <2> HIDE DEF S
  <2>. QED
    BY <2>1, <2>2, <2>3, <2>4, EverybodyLeft
<1>8. CASE Watched(Restart)
  BY <1>8, ServerOnly DEF Watched, Restart
<1>9. CASE UNCHANGED vars
  BY <1>9, ServerOnly DEF vars
<1>. QED
  BY <1>1, <1>2, <1>3, <1>4, <1>5, <1>6, <1>7, <1>8, <1>9 DEF Next

(* A server just started, and nobody calling.                                *)
LEMMA InitOK ==
  ASSUME Init
  PROVE  IInv
<1>1. /\ script \in Plays /\ backlog = <<>> /\ live = 0
      /\ call = [c \in Callers |-> [i |-> 1, n |-> 1, at |-> "idle"]]
      /\ conn = [x \in Connections |-> Nowhere]
      /\ store = [k \in Keys |-> Nothing]
  BY DEF Init
<1>2. Typed
  <2>1. call \in [Callers -> Call]
    BY <1>1 DEF Call
  <2>2. conn \in [Connections -> Conn]
    BY <1>1, NowhereIsOne
  <2>3. backlog \in Seq(Connections \cup {Waker})
    BY <1>1
  <2>4. store \in [Keys -> Whole \cup {Nothing}]
    BY <1>1
  <2>. QED
    BY <1>1, <2>1, <2>2, <2>3, <2>4 DEF Typed
<1>3. CallsOK
  BY <1>1, RetriesAssumption DEF CallsOK
<1>4. BacklogOK
  BY <1>1 DEF BacklogOK
<1>5. Fresh
  BY <1>1 DEF Fresh
<1>6. WholeOK
  BY <1>1 DEF WholeOK, WholeIn, Nowhere
<1>7. Counted
  <2>1. Handlers = {}
    BY <1>1 DEF Handlers, Nowhere
  <2>. QED
    BY <1>1, <2>1, FS_EmptySet, CapAssumption DEF Counted
<1>. QED
  BY <1>2, <1>3, <1>4, <1>5, <1>6, <1>7 DEF IInv

----------------------------------------------------------------------------
(* Whatever the callers, the network and the server do, every part of IInv   *)
(* holds: no connection is accepted twice, none is opened twice, and what a  *)
(* handler is about to store is what its peer sent to its end.               *)
THEOREM ServerInvariance == Spec => []IInv
<1>1. IInv /\ [Next]_vars => IInv'
  BY NextKeeps
<1>. QED
  BY <1>1, InitOK, PTL DEF Spec

(* The slots the server counts are those of its threads, through refusals,   *)
(* spawns that fail, kills and restarts, and never more than its cap: none   *)
(* is lost and none is given twice (Slot, with_max_connections).             *)
THEOREM SlotsExactCorrect == Spec => []SlotsExact
<1>1. IInv => SlotsExact
  BY DEF IInv, Counted, SlotsExact
<1>. QED
  BY <1>1, ServerInvariance, PTL

(* No body that was cut, that stalled, or that is past either side's cap is  *)
(* ever in the store (CappedReader, Exact and Chunked, stage and commit).    *)
THEOREM OnlyWholeBodiesCorrect == Spec => []OnlyWholeBodies
<1>1. IInv => OnlyWholeBodies
  BY DEF IInv, Typed, OnlyWholeBodies, Whole
<1>. QED
  BY <1>1, ServerInvariance, PTL

----------------------------------------------------------------------------
(* What a caller is told.  An answer under way, at either end of the         *)
(* connection of an attempt that is on, is already true of what was seen.    *)
TrueOf(ask, a, S) ==
  a # Nothing =>
    /\ a.status \in {200, 400, 404, 409, 413, 500, 503, 507}
    /\ a.status = 200 => (IF ask.kind = "get" THEN a.body ELSE ask.body) \in S
    /\ a.status = 404 => Nothing \in S
    /\ a.status = 409 => \E b \in Bodies \ {ask.body} : b \in S

SeenNow(c) == call[c].at # "idle" => store[Asked(Here(c)).key] \in seen[c]

Heard(c) ==
  call[c].at = "send" => /\ TrueOf(Asked(Here(c)), conn[Here(c)].out, seen[c])
                         /\ TrueOf(Asked(Here(c)), conn[Here(c)].answer, seen[c])

Truth ==
  DOMAIN answers = Callers /\ \A c \in Callers : SeenNow(c) /\ Heard(c) /\ ToldTrue(c)

(* What was seen stays seen while the call lasts, and what the store holds   *)
(* next is seen.                                                             *)
LEMMA Observed ==
  ASSUME Observe, UNCHANGED script, NEW c \in Callers
  PROVE  /\ call'[c].at = "idle" => seen'[c] = seen[c]
         /\ call'[c].at # "idle" => store'[Asked(Here(c)).key] \in seen'[c]
         /\ call[c].at # "idle" => seen[c] \subseteq seen'[c]
  BY DEF Observe

LEMMA SeenKept ==
  ASSUME Observe, UNCHANGED script, NEW c \in Callers,
         call'[c].at # "idle" => call'[c].i = call[c].i
  PROVE  SeenNow(c)'
<1>1. call'[c].at # "idle" => Asked(Here(c))' = Asked(Here(c))
  BY DEF Asked, Here
<1> QED
  BY <1>1, Observed DEF SeenNow

(* A caller who does nothing, and whose connection is told nothing new that  *)
(* is not true.                                                              *)
LEMMA TruthOfWaiting ==
  ASSUME Truth, Observe, UNCHANGED script, NEW c \in Callers,
         call'[c] = call[c], answers'[c] = answers[c],
         call[c].at = "send" =>
           \A a \in {conn'[Here(c)].out, conn'[Here(c)].answer} :
             \/ a \in {conn[Here(c)].out, conn[Here(c)].answer}
             \/ TrueOf(Asked(Here(c)), a, seen'[c])
  PROVE  (SeenNow(c) /\ Heard(c) /\ ToldTrue(c))'
<1>1. SeenNow(c)'
  BY SeenKept
<1>2. Here(c)' = Here(c) /\ Asked(Here(c))' = Asked(Here(c)) /\ Last(c)' = Last(c)
  BY DEF Here, Asked, Last
<1>3. CASE call[c].at = "send"
  <2>1. seen[c] \subseteq seen'[c]
    BY <1>3, Observed
  <2>2. \A a : TrueOf(Asked(Here(c)), a, seen[c]) => TrueOf(Asked(Here(c)), a, seen'[c])
    BY <2>1 DEF TrueOf
  <2>3. \A a \in {conn[Here(c)].out, conn[Here(c)].answer} : TrueOf(Asked(Here(c)), a, seen'[c])
    BY <1>3, <2>2 DEF Truth, Heard
  <2>4. \A a \in {conn'[Here(c)].out, conn'[Here(c)].answer} : TrueOf(Asked(Here(c)), a, seen'[c])
    BY <1>3, <2>3
  <2>5. Heard(c)'
    BY <1>2, <2>4 DEF Heard
  <2> QED
    BY <1>1, <1>3, <2>5 DEF ToldTrue
<1>4. CASE call[c].at # "send"
  <2>1. call[c].at = "idle" => seen'[c] = seen[c]
    BY Observed
  <2>2. ToldTrue(c)'
    BY <1>2, <2>1 DEF Truth, ToldTrue
  <2> QED
    BY <1>1, <1>4, <2>2 DEF Heard
<1> QED
  BY <1>3, <1>4

(* A step of caller c: the others wait.                                      *)
LEMMA TruthOfCaller ==
  ASSUME IInv, Truth, Observe, UNCHANGED script, NEW c \in Callers,
         NEW k, call' = [call EXCEPT ![c] = k],
         k.at # "idle" => k.i = call[c].i,
         answers' = answers \/ \E answer : answers' = [answers EXCEPT ![c] = answer],
         conn' = conn \/ (call[c].at # "idle" /\ \E s : conn' = [conn EXCEPT ![Here(c)] = s]),
         Heard(c)', ToldTrue(c)'
  PROVE  Truth'
<1>1. call'[c] = k /\ \A d \in Callers \ {c} : call'[d] = call[d]
  BY DEF IInv, Typed
<1>2. SeenNow(c)'
  BY <1>1, SeenKept
<1>3. ASSUME NEW d \in Callers, d # c
      PROVE  (SeenNow(d) /\ Heard(d) /\ ToldTrue(d))'
  <2>1. call'[d] = call[d] /\ answers'[d] = answers[d]
    BY <1>1, <1>3 DEF Truth
  <2>2. call[d].at = "send" => conn'[Here(d)] = conn[Here(d)]
    <3>1. call[d].at = "send" => Here(d) \in Connections
      BY HereIsOne
    <3>2. Here(d) # Here(c)
      BY <1>3 DEF Here
    <3> QED
      BY <3>1, <3>2 DEF IInv, Typed
  <2> QED
    BY <2>1, <2>2, TruthOfWaiting
<1>4. DOMAIN answers' = Callers
  BY DEF Truth
<1> QED
  BY <1>2, <1>3, <1>4 DEF Truth

(* A caller told the truth goes idle, and one that is to try again hears     *)
(* nothing.                                                                  *)
LEMMA ReturnTrue ==
  ASSUME IInv, Truth, Observe, UNCHANGED script, NEW c \in Callers, call[c].at # "idle",
         NEW told, NEW body, Return(c, Told(told, body)),
         conn' = conn \/ conn' = LeftBy(c),
         told = "conflict" => \E b \in Bodies \ {Asked(Here(c)).body} : b \in seen[c],
         told = "absent" => Nothing \in seen[c],
         told = "ok" => (IF Asked(Here(c)).kind = "get" THEN body ELSE Asked(Here(c)).body)
                          \in seen[c]
  PROVE  Truth'
<1> DEFINE k == [i |-> call[c].i + 1, n |-> 1, at |-> "idle"]
<1>1. call' = [call EXCEPT ![c] = k] /\ call'[c] = k
  BY DEF Return, IInv, Typed
<1>2. answers' = [answers EXCEPT ![c] = Told(told, body)] /\ answers'[c] = Told(told, body)
  BY DEF Return, Truth
<1>3. seen'[c] = seen[c]
  BY <1>1, Observed
<1>4. Last(c)' = Asked(Here(c))
  BY <1>1 DEF Last, Asked, Here, IInv, Typed, Call
<1>5. ToldTrue(c)'
  BY <1>2, <1>3, <1>4 DEF ToldTrue, Told
<1>6. Heard(c)'
  BY <1>1 DEF Heard
<1>7. \E t : conn' = [conn EXCEPT ![Here(c)] = t]
  <2>1. Here(c) \in Connections
    BY HereIsOne
  <2> QED
    BY <2>1 DEF LeftBy, IInv, Typed
<1> HIDE DEF k
<1>8. k.at = "idle"
  BY DEF k
<1> QED
  BY <1>1, <1>2, <1>5, <1>6, <1>7, <1>8, TruthOfCaller

LEMMA AttemptTrue ==
  ASSUME IInv, Truth, Observe, UNCHANGED script, NEW c \in Callers, call[c].at # "idle",
         NEW error, AttemptFails(c, error), error \notin {"ok", "absent"},
         conn' = conn \/ conn' = LeftBy(c),
         error = "conflict" => \E b \in Bodies \ {Asked(Here(c)).body} : b \in seen[c]
  PROVE  Truth'
<1>1. CASE ~Again(c, error)
  <2>1. Return(c, Told(error, Nothing))
    BY <1>1 DEF AttemptFails
  <2> QED
    BY <2>1, ReturnTrue
<1>2. CASE Again(c, error)
  <2> DEFINE j == [call[c] EXCEPT !.at = "asleep"]
             k == [j EXCEPT !.n = @ + 1]
  <2>1. j \in Call /\ j.i = call[c].i /\ j.at = "asleep"
    BY DEF Call, IInv, Typed
  <2>2. k.i = j.i /\ k.at = j.at
    <3> HIDE DEF j
    <3> QED
      BY <2>1 DEF Call
  <2>3. call' = [call EXCEPT ![c] = k] /\ answers' = answers
    BY <1>2 DEF AttemptFails, IInv, Typed, Call
  <2> HIDE DEF j, k
  <2>4. call'[c] = k
    BY <2>3 DEF IInv, Typed
  <2>5. Heard(c)' /\ ToldTrue(c)'
    BY <2>1, <2>2, <2>4 DEF Heard, ToldTrue
  <2>6. \E t : conn' = [conn EXCEPT ![Here(c)] = t]
    <3>1. Here(c) \in Connections
      BY HereIsOne
    <3> QED
      BY <3>1 DEF LeftBy, IInv, Typed
  <2> QED
    BY <2>1, <2>2, <2>3, <2>5, <2>6, TruthOfCaller
<1> QED
  BY <1>1, <1>2

LEMMA CallerTrue ==
  ASSUME IInv, Truth, Observe, UNCHANGED script, NEW c \in Callers, Caller(c)
  PROVE  Truth'
<1>1. call \in [Callers -> Call] /\ conn \in [Connections -> Conn] /\ call[c] \in Call
  BY DEF IInv, Typed
<1>2. ASSUME NEW at \in {"connect", "send"}, call' = [call EXCEPT ![c].at = at]
      PROVE  \E k \in Call : /\ k.i = call[c].i /\ k.n = call[c].n /\ k.at = at
                             /\ call' = [call EXCEPT ![c] = k]
  <2> DEFINE k == [call[c] EXCEPT !.at = at]
  <2>1. k \in Call /\ k.i = call[c].i /\ k.n = call[c].n /\ k.at = at
    BY <1>1 DEF Call
  <2>2. call' = [call EXCEPT ![c] = k]
    BY <1>2, <1>1
  <2> QED
    BY <2>1, <2>2
<1>3. CASE Begin(c) \/ WakeUp(c)
  <2>1. PICK k \in Call : /\ k.i = call[c].i /\ k.n = call[c].n /\ k.at = "connect"
                         /\ call' = [call EXCEPT ![c] = k]
    BY <1>2, <1>3 DEF Begin, WakeUp
  <2>2. call'[c] = k
    BY <2>1, <1>1
  <2>3. Heard(c)' /\ ToldTrue(c)'
    BY <2>1, <2>2 DEF Heard, ToldTrue
  <2>4. conn' = conn /\ (answers' = answers \/ \E answer : answers' = [answers EXCEPT ![c] = answer])
    BY <1>3 DEF Begin, WakeUp
  <2> QED
    BY <2>1, <2>3, <2>4, TruthOfCaller
<1>4. CASE Connect(c)
  <2> DEFINE r == [Nowhere EXCEPT !.at = "backlog"]
             s == [r EXCEPT !.peer = TRUE]
  <2>1. s.out = Nothing /\ s.answer = Nothing
    BY DEF Nowhere
  <2>2. PICK k \in Call : /\ k.i = call[c].i /\ k.n = call[c].n /\ k.at = "send"
                         /\ call' = [call EXCEPT ![c] = k]
    BY <1>2, <1>4 DEF Connect
  <2>3. conn' = [conn EXCEPT ![Here(c)] = s] /\ answers' = answers
    BY <1>4 DEF Connect
  <2>4. Here(c) \in Connections /\ call[c].at # "idle"
    BY <1>4, HereIsOne DEF Connect
  <2> HIDE DEF s
  <2>5. call'[c] = k /\ conn'[Here(c)] = s /\ Here(c)' = Here(c)
    BY <2>2, <2>3, <2>4, <1>1 DEF Here
  <2>6. Heard(c)' /\ ToldTrue(c)'
    BY <2>1, <2>2, <2>5 DEF Heard, ToldTrue, TrueOf
  <2> QED
    BY <2>2, <2>3, <2>4, <2>6, TruthOfCaller
<1>5. CASE Send(c)
  <2> DEFINE s == [conn[Here(c)] EXCEPT !.sent = IF Puts(Here(c)) THEN @ + 1 ELSE 2]
  <2>1. Here(c) \in Connections /\ call[c].at = "send" /\ UNCHANGED <<call, answers>>
    BY <1>5, HereIsOne DEF Send
  <2>2. conn' = [conn EXCEPT ![Here(c)] = s]
    BY <1>1, <1>5, <2>1 DEF Send
  <2>3. s.out = conn[Here(c)].out /\ s.answer = conn[Here(c)].answer
    BY <1>1, <2>1 DEF Conn
  <2> HIDE DEF s
  <2>4. conn'[Here(c)] = s
    BY <1>1, <2>1, <2>2
  <2>5. (SeenNow(c) /\ Heard(c) /\ ToldTrue(c))'
    BY <2>1, <2>3, <2>4, TruthOfWaiting
  <2>6. call' = [call EXCEPT ![c] = call[c]]
    BY <1>1, <2>1
  <2> QED
    BY <2>1, <2>2, <2>5, <2>6, TruthOfCaller
<1>6. CASE NoConnection(c) \/ GiveUp(c)
  BY <1>6, AttemptTrue DEF NoConnection, GiveUp
<1>7. CASE CapReached(c)
  BY <1>7, ReturnTrue DEF CapReached
<1>8. CASE ProxyAnswers(c)
  <2>1. PICK status \in {401, 429, 430, 503} : AttemptFails(c, ErrorOf(status))
    BY <1>8 DEF ProxyAnswers
  <2>2. ErrorOf(status) \in {"unauthorized", "quota", "quota with a hint", "transient"}
    BY DEF ErrorOf
  <2>3. call[c].at # "idle" /\ conn' = LeftBy(c)
    BY <1>8 DEF ProxyAnswers
  <2>4. ErrorOf(status) \notin {"ok", "absent", "conflict"}
    BY <2>2
  <2> QED
    BY <2>1, <2>3, <2>4, AttemptTrue
<1>9. CASE Receive(c)
  <2> DEFINE answer == conn[Here(c)].answer
             ask == Asked(Here(c))
  <2>1. call[c].at = "send" /\ answer # Nothing /\ conn' = LeftBy(c)
    BY <1>9 DEF Receive
  <2>2. TrueOf(ask, answer, seen[c])
    BY <2>1 DEF Truth, Heard
  <2>3. CASE answer.status = 200
    <3>1. Return(c, Told("ok", answer.body))
      BY <1>9, <2>3 DEF Receive
    <3> QED
      BY <2>1, <2>2, <2>3, <3>1, ReturnTrue DEF TrueOf
  <2>4. CASE answer.status = 404
    <3>1. Return(c, Told("absent", Nothing))
      BY <1>9, <2>4 DEF Receive
    <3> QED
      BY <2>1, <2>2, <2>4, <3>1, ReturnTrue DEF TrueOf
  <2>5. CASE answer.status \notin {200, 404}
    <3>1. AttemptFails(c, ErrorOf(answer.status))
      BY <1>9, <2>5 DEF Receive
    <3>2. answer.status \in {400, 409, 413, 500, 503, 507}
      BY <2>1, <2>2, <2>5 DEF TrueOf
    <3>3. /\ ErrorOf(answer.status) \notin {"ok", "absent"}
          /\ ErrorOf(answer.status) = "conflict" => answer.status = 409
      BY <3>2 DEF ErrorOf
    <3>4. answer.status = 409 => \E b \in Bodies \ {ask.body} : b \in seen[c]
      BY <2>1, <2>2 DEF TrueOf
    <3> QED
      BY <2>1, <3>1, <3>3, <3>4, AttemptTrue
  <2> QED
    BY <2>3, <2>4, <2>5
<1> QED
  BY <1>3, <1>4, <1>5, <1>6, <1>7, <1>8, <1>9 DEF Caller

(* A step of the server: no call moves, and what a connection that is heard  *)
(* comes to hold is true of what its call has seen.                          *)
LEMMA ServerTrue ==
  ASSUME IInv, Truth, Observe, UNCHANGED <<script, call, answers>>,
         \A c \in Callers : call[c].at = "send" =>
           \A a \in {conn'[Here(c)].out, conn'[Here(c)].answer} :
             \/ a \in {conn[Here(c)].out, conn[Here(c)].answer}
             \/ TrueOf(Asked(Here(c)), a, seen'[c])
  PROVE  Truth'
  BY TruthOfWaiting DEF Truth

(* The same of a step that changes one connection: only who waits at its     *)
(* other end can hear of it.                                                 *)
LEMMA OneTrue ==
  ASSUME IInv, Truth, Observe, UNCHANGED <<script, call, answers>>,
         NEW x \in Connections, NEW s, conn' = [conn EXCEPT ![x] = s],
         NEW S, S = seen'[x[1]],
         \/ ~(call[x[1]].at = "send" /\ Here(x[1]) = x)
         \/ /\ s.out \in {conn[x].out, conn[x].answer} \/ TrueOf(Asked(x), s.out, S)
            /\ s.answer \in {conn[x].out, conn[x].answer} \/ TrueOf(Asked(x), s.answer, S)
  PROVE  Truth'
<1>. SUFFICES ASSUME NEW d \in Callers, call[d].at = "send",
                     NEW a \in {conn'[Here(d)].out, conn'[Here(d)].answer}
              PROVE  \/ a \in {conn[Here(d)].out, conn[Here(d)].answer}
                     \/ TrueOf(Asked(Here(d)), a, seen'[d])
  BY ServerTrue
<1>1. Here(d) \in Connections /\ Here(d)[1] = d
  BY HereIsOne
<1>2. CASE Here(d) = x
  <2>1. d = x[1] /\ conn'[x] = s
    BY <1>1, <1>2 DEF IInv, Typed
  <2> QED
    BY <1>2, <2>1
<1>3. CASE Here(d) # x
  BY <1>1, <1>3 DEF IInv, Typed
<1> QED
  BY <1>2, <1>3

(* What the server leaves of a connection says nothing new.                  *)
LEMMA GoneSays ==
  ASSUME NEW s \in Conn
  PROVE  Gone(s).out = Nothing /\ Gone(s).answer \in {s.answer, Nothing}
<1> DEFINE q == [s EXCEPT !.at = "gone"]
           r == [q EXCEPT !.out = Nothing]
<1>1. q.answer = s.answer /\ q \in Conn
  BY DEF Conn
<1>2. r.out = Nothing /\ r.answer = q.answer /\ r \in Conn
  <2> HIDE DEF q
  <2> QED
    BY <1>1 DEF Conn, Answers
<1>3. [r EXCEPT !.sent = 2].out = r.out /\ [r EXCEPT !.sent = 2].answer = r.answer
  <2> HIDE DEF r
  <2> QED
    BY <1>2 DEF Conn
<1>4. Gone(s) = IF ~s.peer THEN Nowhere ELSE [r EXCEPT !.sent = 2]
  BY DEF Gone
<1> HIDE DEF r
<1> QED
  BY <1>1, <1>2, <1>3, <1>4 DEF Nowhere

LEMMA SaysNothing ==
  ASSUME NEW ask, NEW S
  PROVE  /\ TrueOf(ask, Nothing, S)
         /\ \A n \in {400, 413, 500, 503, 507} : TrueOf(ask, Status(n), S)
  BY DEF TrueOf, Status

LEMMA AnswerTrue ==
  ASSUME IInv, Truth, Observe, UNCHANGED <<script, call, answers>>,
         NEW x \in Connections, NEW out, Answer(x, out),
         call[x[1]].at = "send" /\ Here(x[1]) = x => TrueOf(Asked(x), out, seen'[x[1]])
  PROVE  Truth'
<1> DEFINE r == [conn[x] EXCEPT !.at = "reply"]
           s == [r EXCEPT !.out = out]
<1>1. conn[x] \in Conn /\ conn \in [Connections -> Conn] /\ x[1] \in Callers
  BY ConnectionParts DEF IInv, Typed
<1>2. r \in Conn /\ r.answer = conn[x].answer
  BY <1>1 DEF Conn, Busy
<1>3. s.out = out /\ s.answer = r.answer
  <2> HIDE DEF r
  <2> QED
    BY <1>2 DEF Conn
<1>4. conn' = [conn EXCEPT ![x] = s]
  BY <1>1 DEF Answer
<1> HIDE DEF r, s
<1> DEFINE S == seen'[x[1]]
<1>5. \/ ~(call[x[1]].at = "send" /\ Here(x[1]) = x)
      \/ /\ s.out \in {conn[x].out, conn[x].answer} \/ TrueOf(Asked(x), s.out, S)
         /\ s.answer \in {conn[x].out, conn[x].answer} \/ TrueOf(Asked(x), s.answer, S)
  BY <1>2, <1>3
<1>6. S = seen'[x[1]]
  OBVIOUS
<1> HIDE DEF S
<1> QED
  BY <1>4, <1>5, <1>6, OneTrue

LEMMA GoneTrue ==
  ASSUME IInv, Truth, Observe, UNCHANGED <<script, call, answers>>,
         NEW x \in Connections, conn' = [conn EXCEPT ![x] = Gone(conn[x])]
  PROVE  Truth'
<1>1. x[1] \in Callers /\ conn[x] \in Conn
  BY ConnectionParts DEF IInv, Typed
<1> DEFINE s == Gone(conn[x])
           S == seen'[x[1]]
<1>2. /\ s.out \in {conn[x].out, conn[x].answer} \/ TrueOf(Asked(x), s.out, S)
      /\ s.answer \in {conn[x].out, conn[x].answer} \/ TrueOf(Asked(x), s.answer, S)
  BY <1>1, GoneSays, SaysNothing
<1>3. conn' = [conn EXCEPT ![x] = s] /\ S = seen'[x[1]]
  OBVIOUS
<1> HIDE DEF s, S
<1> QED
  BY <1>2, <1>3, OneTrue

(* A handler's step that changes neither answer.                             *)
LEMMA PhaseTrue ==
  ASSUME IInv, Truth, Observe, UNCHANGED <<script, call, answers>>,
         NEW x \in Connections, NEW at \in Busy, conn' = [conn EXCEPT ![x].at = at]
  PROVE  Truth'
<1> DEFINE s == [conn[x] EXCEPT !.at = at]
<1>1. conn[x] \in Conn /\ conn \in [Connections -> Conn] /\ x[1] \in Callers
  BY ConnectionParts DEF IInv, Typed
<1>2. s.out = conn[x].out /\ s.answer = conn[x].answer /\ conn' = [conn EXCEPT ![x] = s]
  BY <1>1 DEF Conn
<1> HIDE DEF s
<1> QED
  BY <1>1, <1>2, OneTrue

LEMMA HandlerTrue ==
  ASSUME IInv, Truth, Observe, UNCHANGED script, NEW x \in Connections, Handler(x)
  PROVE  Truth'
<1> DEFINE c == x[1]
           heard == call[c].at = "send" /\ Here(c) = x
<1>1. /\ conn[x] \in Conn /\ WholeIn(x, conn[x]) /\ conn \in [Connections -> Conn]
      /\ store \in [Keys -> Whole \cup {Nothing}] /\ c \in Callers
  BY ConnectionParts DEF IInv, Typed, WholeOK
<1>2. conn[x].at # "none" =>
        /\ Asked(x).key \in Keys /\ Asked(x).kind \in {"put", "manifest", "get"}
        /\ Puts(x) => Asked(x).body \in Bodies
  BY <1>1, ConnectionParts, PlaysAssumption DEF IInv, Typed, WholeIn, Asked, Puts
<1>3. heard => /\ store[Asked(x).key] \in seen'[c]
               /\ call' = call => store'[Asked(x).key] \in seen'[c]
  BY <1>1, Observed DEF Truth, SeenNow
<1>4. CASE ReadHead(x)
  <2>1. conn[x].at = "head" /\ UNCHANGED <<call, answers, store>>
    BY <1>4 DEF ReadHead, Handling, Serving
  <2>2. CASE Puts(x)
    BY <1>4, <2>1, <2>2, PhaseTrue DEF ReadHead, Busy
  <2>3. CASE ~Puts(x)
    <3> DEFINE out == IF store[Asked(x).key] = Nothing THEN Status(404)
                      ELSE [status |-> 200, body |-> store[Asked(x).key]]
    <3>1. Answer(x, out)
      BY <1>4, <2>3 DEF ReadHead
    <3>2. Asked(x).kind = "get"
      BY <1>2, <2>1, <2>3 DEF Puts
    <3>3. heard => TrueOf(Asked(x), out, seen'[c])
      BY <1>3, <3>2 DEF TrueOf, Status
    <3> HIDE DEF out
    <3> QED
      BY <2>1, <3>1, <3>3, AnswerTrue
  <2> QED
    BY <2>2, <2>3
<1>5. CASE HangUp(x) \/ Close(x)
  BY <1>5, GoneTrue DEF HangUp, Close, HandlerDone, Serving
<1>6. CASE ReadBody(x)
  <2>1. UNCHANGED <<call, answers>>
    BY <1>6 DEF ReadBody, Serving
  <2>2. CASE \E n \in {400, 413} : Answer(x, Status(n))
    BY <2>1, <2>2, SaysNothing, AnswerTrue
  <2>3. CASE conn' = [conn EXCEPT ![x].at = "commit"]
    BY <2>1, <2>3, PhaseTrue DEF Busy
  <2> QED
    BY <1>6, <2>2, <2>3 DEF ReadBody
<1>7. CASE Commit(x)
  <2>1. /\ conn[x].at = "commit" /\ UNCHANGED <<call, answers>>
        /\ Puts(x) /\ conn[x].sent = 2
    BY <1>1, <1>7 DEF Commit, Handling, Serving, WholeIn
  <2>2. Staged(x) = Asked(x).body /\ Asked(x).kind # "get" /\ Asked(x).key \in Keys
    BY <1>2, <2>1 DEF Staged, Puts
  <2>3. CASE Wins(x)
    <3>1. Answer(x, Status(200)) /\ store' = [store EXCEPT ![Asked(x).key] = Staged(x)]
      BY <1>7, <2>3 DEF Commit
    <3>2. store'[Asked(x).key] = Asked(x).body
      BY <1>1, <2>2, <3>1
    <3>3. heard => TrueOf(Asked(x), Status(200), seen'[c])
      BY <1>3, <2>1, <2>2, <3>2 DEF TrueOf, Status
    <3> QED
      BY <2>1, <3>1, <3>3, AnswerTrue
  <2>4. CASE ~Wins(x)
    <3>1. Answer(x, Status(409))
      BY <1>7, <2>4 DEF Commit
    <3>2. store[Asked(x).key] \in Bodies \ {Asked(x).body}
      BY <1>1, <2>2, <2>4 DEF Wins, Whole
    <3>3. heard => TrueOf(Asked(x), Status(409), seen'[c])
      BY <1>3, <3>2 DEF TrueOf, Status
    <3> QED
      BY <2>1, <3>1, <3>3, AnswerTrue
  <2> QED
    BY <2>3, <2>4
<1>8. CASE CommitFails(x)
  <2>1. PICK n \in {500, 507} : Answer(x, Status(n))
    BY <1>8 DEF CommitFails
  <2> QED
    BY <1>8, <2>1, SaysNothing, AnswerTrue DEF CommitFails
<1>9. CASE Reply(x)
  <2>1. PICK lost \in BOOLEAN :
          conn' = [conn EXCEPT ![x].at = "close",
                               ![x].answer = IF lost THEN Nothing ELSE conn[x].out]
    BY <1>9 DEF Reply
  <2> DEFINE answer == IF lost THEN Nothing ELSE conn[x].out
             r == [conn[x] EXCEPT !.at = "close"]
             s == [r EXCEPT !.answer = answer]
             S == seen'[x[1]]
  <2>2. r \in Conn /\ r.out = conn[x].out
    BY <1>1 DEF Conn, Busy
  <2>3. s.out = r.out /\ s.answer = answer
    <3> HIDE DEF r, answer
    <3> QED
      BY <2>2 DEF Conn
  <2>4. conn' = [conn EXCEPT ![x] = s]
    <3>1. conn' = [conn EXCEPT ![x].at = "close", ![x].answer = answer]
      BY <2>1
    <3> HIDE DEF answer
    <3> QED
      BY <1>1, <3>1
  <2>5. answer \in {Nothing, conn[x].out}
    OBVIOUS
  <2>6. UNCHANGED <<call, answers>>
    BY <1>9 DEF Reply, Serving
  <2> HIDE DEF r, s, answer
  <2>7. /\ s.out \in {conn[x].out, conn[x].answer} \/ TrueOf(Asked(x), s.out, S)
        /\ s.answer \in {conn[x].out, conn[x].answer} \/ TrueOf(Asked(x), s.answer, S)
    BY <2>2, <2>3, <2>5, SaysNothing
  <2>8. S = seen'[x[1]]
    OBVIOUS
  <2> HIDE DEF S
  <2> QED
    BY <2>4, <2>6, <2>7, <2>8, OneTrue
<1> QED
  BY <1>4, <1>5, <1>6, <1>7, <1>8, <1>9 DEF Handler

LEMMA AcceptTrue ==
  ASSUME IInv, Truth, Observe, UNCHANGED script, Accept
  PROVE  Truth'
<1> DEFINE x == Head(backlog)
           S == seen'[x[1]]
<1>1. backlog \in Seq(Connections \cup {Waker}) /\ backlog # <<>> /\ UNCHANGED <<call, answers>>
  BY DEF IInv, Typed, Accept
<1>2. x \in Connections \cup {Waker}
  BY <1>1
<1>3. x \in Connections => conn[x] \in Conn
  BY DEF IInv, Typed
<1>4. CASE UNCHANGED conn
  BY <1>1, <1>4, ServerTrue
<1>5. CASE x # Waker /\ conn' = [conn EXCEPT ![x] = Gone(conn[x])]
  BY <1>1, <1>2, <1>5, GoneTrue
<1>6. CASE x # Waker /\ conn' = [conn EXCEPT ![x].at = "head"]
  BY <1>1, <1>2, <1>6, PhaseTrue DEF Busy
<1>7. CASE /\ x # Waker
           /\ \E answer \in {Status(503), Nothing} :
                conn' = [conn EXCEPT ![x] = [Gone(@) EXCEPT !.answer = answer]]
  <2>1. PICK answer \in {Status(503), Nothing} :
          conn' = [conn EXCEPT ![x] = [Gone(@) EXCEPT !.answer = answer]]
    BY <1>7
  <2> DEFINE g == Gone(conn[x])
             s == [g EXCEPT !.answer = answer]
  <2>2. x \in Connections /\ conn' = [conn EXCEPT ![x] = s]
    BY <1>2, <1>7, <2>1 DEF IInv, Typed
  <2>3. g \in Conn /\ g.out = Nothing
    BY <1>3, <2>2, GoneIsOne, GoneSays
  <2>4. s.out = Nothing /\ s.answer = answer
    <3> HIDE DEF g
    <3> QED
      BY <2>3 DEF Conn
  <2> HIDE DEF s
  <2>5. TrueOf(Asked(x), s.out, S) /\ TrueOf(Asked(x), s.answer, S)
    BY <2>4, SaysNothing
  <2>6. S = seen'[x[1]]
    OBVIOUS
  <2> HIDE DEF S, x
  <2> QED
    BY <1>1, <2>2, <2>5, <2>6, OneTrue
<1> QED
  BY <1>4, <1>5, <1>6, <1>7 DEF Accept, Drops

LEMMA NextTrue ==
  ASSUME IInv, Truth, [Next]_vars
  PROVE  Truth'
<1>1. ASSUME NEW c \in Callers, Watched(Caller(c))  PROVE Truth'
  BY <1>1, CallerTrue DEF Watched
<1>2. ASSUME NEW x \in Connections, Watched(Handler(x))  PROVE Truth'
  BY <1>2, HandlerTrue DEF Watched
<1>3. CASE Watched(Accept)
  BY <1>3, AcceptTrue DEF Watched
<1>4. CASE Watched(Stop) \/ Watched(ConnectToSelf) \/ Watched(Restart)
  BY <1>4, ServerTrue DEF Watched, Stop, ConnectToSelf, Restart
<1>5. CASE Watched(Returned) \/ Watched(Die)
  <2>1. Observe /\ UNCHANGED <<script, call, answers>>
    BY <1>5 DEF Watched, Returned, Die
  <2>2. \A x \in Connections : conn'[x] \in {conn[x], Gone(conn[x])} /\ conn[x] \in Conn
    BY <1>5 DEF Watched, Returned, Die, IInv, Typed
  <2>3. ASSUME NEW c \in Callers, call[c].at = "send",
               NEW a \in {conn'[Here(c)].out, conn'[Here(c)].answer}
        PROVE  \/ a \in {conn[Here(c)].out, conn[Here(c)].answer}
               \/ TrueOf(Asked(Here(c)), a, seen'[c])
    BY <2>2, <2>3, HereIsOne, GoneSays, SaysNothing
  <2> QED
    BY <2>1, <2>3, ServerTrue
<1>6. CASE UNCHANGED vars
  BY <1>6 DEF vars, Truth, SeenNow, Heard, ToldTrue, Here, Asked, Last
<1> QED
  BY <1>1, <1>2, <1>3, <1>4, <1>5, <1>6 DEF Next

(* What a caller is told was so while it asked, and nothing but whole bodies *)
(* is ever stored (retry_loop, map_status_error, commit).                    *)
THEOREM StoreIsTrueCorrect == Spec => []StoreIsTrue
<1>1. Init => Truth
  BY DEF Init, Truth, SeenNow, Heard, ToldTrue
<1>2. IInv /\ Truth /\ [Next]_vars => Truth'
  BY NextTrue
<1>3. IInv /\ Truth => AnswersAreTrue
  BY DEF Truth, AnswersAreTrue
<1>4. AnswersAreTrue /\ OnlyWholeBodies => StoreIsTrue
  BY DEF StoreIsTrue
<1> QED
  BY <1>1, <1>2, <1>3, <1>4, ServerInvariance, OnlyWholeBodiesCorrect, PTL DEF Spec
=============================================================================
