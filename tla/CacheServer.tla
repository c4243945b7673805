---------------------------- MODULE CacheServer ----------------------------
(***************************************************************************)
(* The shared cache over the wire: builds that call it (CloudBackend of    *)
(* cook-cache/src/cloud_backend.rs, with its retry loop) and the server    *)
(* they call (CacheServer of serve.rs on http1.rs), one connection per     *)
(* attempt.  A connection may be cut at any byte, an answer may be lost, a *)
(* proxy may answer instead, an attempt the caller gave up may still be    *)
(* running on the server, and the server may be told to stop or be killed. *)
(* The store behind it takes one step per put and per read: that several   *)
(* writers and readers see it so is what ArtifactStore.tla shows.          *)
(***************************************************************************)
EXTENDS Integers, Sequences, FiniteSets

CONSTANTS
  Callers,
  Plays,         \* a play: for each caller the calls it makes, [kind, key, body]
  MaxCalls,      \* of one caller (bound)
  Keys, Bodies,
  TooBig,        \* bodies over the server's cap
  OverCap,       \* bodies over the caller's own cap
  MaxRetries,
  MaxConnections,
  Waker,         \* the connection shutdown makes to its own server
  Nothing,
  MaxFaults      \* answers of a proxy, failed spawns, store errors and kills (bound)

ASSUME CapAssumption == MaxConnections \in Nat \ {0}
ASSUME RetriesAssumption == MaxRetries \in Nat
ASSUME PlaysAssumption ==
  \A s \in Plays : \A c \in Callers :
    /\ DOMAIN s[c] \subseteq 1..MaxCalls
    /\ \A i \in DOMAIN s[c] :
         /\ s[c][i].key \in Keys /\ s[c][i].kind \in {"put", "manifest", "get"}
         /\ s[c][i].kind \in {"put", "manifest"} => s[c][i].body \in Bodies

VARIABLES
  script,        \* the play, fixed
  call,          \* caller -> where it is in its script
  conn,          \* connection -> its state, at either end
  backlog,       \* connections not accepted yet, in order
  server,        \* "up", "draining" (the loop has ended), "down"
  stopping,      \* the flag shutdown sets
  live,          \* admitted connections, as the server counts them
  store,         \* key -> body
  faults,
  answers,       \* caller -> what its last call was told (history)
  seen           \* caller -> what its call's key held while it lasted (history)

vars == <<script, call, conn, backlog, server, stopping, live, store, faults, answers, seen>>

(* A call of a script is known by its caller and its number, a connection  *)
(* by the call and the attempt.                                            *)
Connections ==
  {x \in Callers \X (1..MaxCalls) \X (1..(1 + MaxRetries)) : \E s \in Plays : x[2] \in DOMAIN s[x[1]]}
ASSUME WakerAssumption == Waker \notin Connections
Asked(x) == script[x[1]][x[2]]
Here(c) == <<c, call[c].i, call[c].n>>
Puts(x) == Asked(x).kind \in {"put", "manifest"}

Nowhere == [at |-> "none", sent |-> 0, peer |-> FALSE,
            out |-> Nothing, answer |-> Nothing]

(* A connection the server has left; the caller may still read from it.    *)
Gone(s) == IF ~s.peer THEN Nowhere ELSE [s EXCEPT !.at = "gone", !.out = Nothing, !.sent = 2]
LeftBy(c) == [conn EXCEPT ![Here(c)] =
                IF @.at = "gone" THEN Nowhere ELSE [@ EXCEPT !.peer = FALSE]]

Init ==
  /\ script \in Plays
  /\ call = [c \in Callers |-> [i |-> 1, n |-> 1, at |-> "idle"]]
  /\ conn = [x \in Connections |-> Nowhere]
  /\ backlog = <<>> /\ server = "up" /\ stopping = FALSE /\ live = 0
  /\ store = [k \in Keys |-> Nothing] /\ faults = 0
  /\ answers = [c \in Callers |-> Nothing]
  /\ seen = [c \in Callers |-> {}]

Fault == faults < MaxFaults /\ faults' = faults + 1

(* What each call that is on could rightly be told of the store so far.    *)
Observe ==
  seen' = [c \in Callers |->
    CASE call'[c].at = "idle" -> seen[c]
      [] call[c].at = "idle" /\ call'[c].at # "idle" -> {store'[Asked(Here(c)).key]}
      [] OTHER -> seen[c] \cup {store'[Asked(Here(c)).key]}]

----------------------------------------------------------------------------
(* The caller.  A body it may not send whole it does not send whole.       *)
Begin(c) ==
  /\ call[c].at = "idle" /\ call[c].i \in DOMAIN script[c]
  /\ call' = [call EXCEPT ![c].at = "connect"]
  /\ answers' = [answers EXCEPT ![c] = Nothing]
  /\ UNCHANGED <<conn, backlog, server, stopping, live, store, faults>>

(* An attempt ends: retry_loop sleeps and tries again after a transient    *)
(* error or a 429 that says when, 1 + max_retries times in all; a put does *)
(* not go through it, its reader cannot be read twice.                     *)
Again(c, error) ==
  /\ error \in {"transient", "quota with a hint"}
  /\ call[c].n <= MaxRetries
  /\ Asked(Here(c)).kind # "put"

Told(what, body) == [told |-> what, body |-> body]

Return(c, answer) ==
  /\ answers' = [answers EXCEPT ![c] = answer]
  /\ call' = [call EXCEPT ![c] = [i |-> call[c].i + 1, n |-> 1, at |-> "idle"]]

AttemptFails(c, error) ==
  IF Again(c, error)
  THEN /\ call' = [call EXCEPT ![c].at = "asleep", ![c].n = @ + 1]
       /\ UNCHANGED answers
  ELSE Return(c, Told(error, Nothing))

WakeUp(c) ==
  /\ call[c].at = "asleep"
  /\ call' = [call EXCEPT ![c].at = "connect"]
  /\ UNCHANGED <<conn, backlog, server, stopping, live, store, faults, answers>>

Connect(c) ==
  /\ call[c].at = "connect" /\ server = "up"
  /\ call' = [call EXCEPT ![c].at = "send"]
  /\ conn' = [conn EXCEPT ![Here(c)] = [Nowhere EXCEPT !.at = "backlog", !.peer = TRUE]]
  /\ backlog' = Append(backlog, Here(c))
  /\ UNCHANGED <<server, stopping, live, store, faults, answers>>

NoConnection(c) ==
  /\ call[c].at = "connect" /\ server # "up"
  /\ AttemptFails(c, "transient")
  /\ UNCHANGED <<conn, backlog, server, stopping, live, store, faults>>

(* The head and some of the body, then the rest.  A read has no body.      *)
Send(c) ==
  LET x == Here(c)
  IN  /\ call[c].at = "send" /\ conn[x].sent < 2
      /\ conn[x].sent = 1 => ~(Puts(x) /\ Asked(x).body \in OverCap)
      /\ conn' = [conn EXCEPT ![x].sent = IF Puts(x) THEN @ + 1 ELSE 2]
      /\ UNCHANGED <<call, backlog, server, stopping, live, store, faults, answers>>

(* CappedReader: the error it raises in the middle of the body is told     *)
(* from a failure of the transport.                                        *)
CapReached(c) ==
  LET x == Here(c)
  IN  /\ call[c].at = "send" /\ conn[x].sent = 1
      /\ Puts(x) /\ Asked(x).body \in OverCap
      /\ conn' = LeftBy(c)
      /\ Return(c, Told("too big", Nothing))
      /\ UNCHANGED <<backlog, server, stopping, live, store, faults>>

(* The call's timeout, or the network: the caller is gone, the server does *)
(* not know yet.                                                           *)
GiveUp(c) ==
  /\ call[c].at = "send"
  /\ conn' = LeftBy(c)
  /\ AttemptFails(c, "transient")
  /\ UNCHANGED <<backlog, server, stopping, live, store, faults>>

(* map_status_error.  Everything above is the server's own; a proxy's is   *)
(* among the last three.                                                   *)
ErrorOf(status) ==
  CASE status = 409 -> "conflict" [] status = 413 -> "too big" [] status = 400 -> "refused"
    [] status = 507 -> "full" [] status \in {500, 503} -> "transient"
    [] status = 401 -> "unauthorized"
    [] status = 429 -> "quota" [] status = 430 -> "quota with a hint"
    [] OTHER -> "unexpected"

Receive(c) ==
  LET x == Here(c)
      answer == conn[x].answer
  IN  /\ call[c].at = "send" /\ answer # Nothing
      /\ conn' = LeftBy(c)
      /\ CASE answer.status = 200 -> Return(c, Told("ok", answer.body))
           [] answer.status = 404 -> Return(c, Told("absent", Nothing))
           [] OTHER -> AttemptFails(c, ErrorOf(answer.status))
      /\ UNCHANGED <<backlog, server, stopping, live, store, faults>>

(* A proxy in front answers by itself (external).                          *)
ProxyAnswers(c) ==
  /\ call[c].at = "send" /\ conn[Here(c)].peer
  /\ Fault
  /\ conn' = LeftBy(c)
  /\ \E status \in {401, 429, 430, 503} : AttemptFails(c, ErrorOf(status))
  /\ UNCHANGED <<backlog, server, stopping, live, store>>

----------------------------------------------------------------------------
(* The server.  Its loop takes a connection, refuses it, or gives it a     *)
(* thread; the slot goes with the thread, or with the thread that could    *)
(* not be made.  Variant: that one keeps its slot.                         *)
Status(n) == [status |-> n, body |-> Nothing]
Full == live >= MaxConnections

KeptAfterSpawnFailed == live + 1

AfterSpawnFailed == live

Drops(x) == IF x = Waker THEN UNCHANGED conn ELSE conn' = [conn EXCEPT ![x] = Gone(@)]

Accept ==
  LET x == Head(backlog)
  IN  /\ server = "up" /\ backlog # <<>>
      /\ backlog' = Tail(backlog)
      /\ \/ /\ stopping
            /\ server' = "draining"
            /\ Drops(x)
            /\ UNCHANGED <<live, faults>>
         \/ /\ ~stopping /\ x # Waker /\ Full
            /\ \E answer \in {Status(503), Nothing} :
                 conn' = [conn EXCEPT ![x] = [Gone(@) EXCEPT !.answer = answer]]
            /\ UNCHANGED <<server, live, faults>>
         \/ /\ ~stopping /\ x # Waker /\ ~Full
            /\ conn' = [conn EXCEPT ![x].at = "head"]
            /\ live' = live + 1
            /\ UNCHANGED <<server, faults>>
         \/ /\ ~stopping /\ x # Waker /\ ~Full /\ Fault
            /\ conn' = [conn EXCEPT ![x] = Gone(@)]
            /\ live' = AfterSpawnFailed
            /\ UNCHANGED server
      /\ UNCHANGED <<call, stopping, store, answers>>

Handling(x, at) == conn[x].at = at
HandlerDone(x) == conn' = [conn EXCEPT ![x] = Gone(@)] /\ live' = live - 1
Answer(x, out) == conn' = [conn EXCEPT ![x].at = "reply", ![x].out = out]
Serving == UNCHANGED <<call, backlog, server, stopping, faults, answers>>

(* read_head: a peer that hung up or stalled for io_timeout before its     *)
(* head is not answered.  A read is answered from the store at once; a     *)
(* body over the cap is refused as soon as that is known.                  *)
ReadHead(x) ==
  /\ Handling(x, "head") /\ conn[x].sent > 0
  /\ IF Puts(x) THEN conn' = [conn EXCEPT ![x].at = "body"]
     ELSE Answer(x, IF store[Asked(x).key] = Nothing THEN Status(404)
                    ELSE [status |-> 200, body |-> store[Asked(x).key]])
  /\ UNCHANGED <<live, store>> /\ Serving

HangUp(x) ==
  /\ Handling(x, "head") /\ conn[x].sent = 0
  /\ HandlerDone(x)
  /\ UNCHANGED store /\ Serving

(* The body, staged: whole, cut or stalled (an error, however it is        *)
(* framed), or past the cap.  Variant: the end of the stream is the end of *)
(* the body.                                                               *)
CutIsTheEnd(x) == ~conn[x].peer

BodyIsWhole(x) == conn[x].sent = 2

Staged(x) == IF conn[x].sent = 2 THEN Asked(x).body ELSE <<"part of", Asked(x).body>>

ReadBody(x) ==
  /\ Handling(x, "body")
  /\ \/ Asked(x).body \in TooBig /\ Answer(x, Status(413))
     \/ Asked(x).body \notin TooBig /\ BodyIsWhole(x) /\ conn' = [conn EXCEPT ![x].at = "commit"]
     \/ conn[x].sent < 2 /\ ~BodyIsWhole(x) /\ Answer(x, Status(400))
  /\ UNCHANGED <<live, store>> /\ Serving

(* commit, and write_manifest, where the last writer wins.                 *)
Wins(x) ==
  \/ Asked(x).kind = "manifest"
  \/ store[Asked(x).key] \in {Nothing, Staged(x)}

Commit(x) ==
  /\ Handling(x, "commit")
  /\ IF Wins(x) THEN /\ store' = [store EXCEPT ![Asked(x).key] = Staged(x)]
                     /\ Answer(x, Status(200))
     ELSE Answer(x, Status(409)) /\ UNCHANGED store
  /\ UNCHANGED live /\ Serving

CommitFails(x) ==
  /\ Handling(x, "commit") /\ Fault
  /\ \E status \in {500, 507} : Answer(x, Status(status))
  /\ UNCHANGED <<call, backlog, server, stopping, answers, live, store>>

(* The reply, and a polite close: what the peer still sends is read and    *)
(* dropped, or the reset may destroy the reply.                            *)
Reply(x) ==
  /\ Handling(x, "reply")
  /\ \E lost \in BOOLEAN :
       /\ lost => ~conn[x].peer \/ conn[x].sent < 2
       /\ conn' = [conn EXCEPT ![x].at = "close",
                               ![x].answer = IF lost THEN Nothing ELSE conn[x].out]
  /\ UNCHANGED <<live, store>> /\ Serving

Close(x) ==
  /\ Handling(x, "close") /\ HandlerDone(x)
  /\ UNCHANGED store /\ Serving

(* `cook cache serve` on a signal: the flag, then a connection to itself   *)
(* that wakes the accept loop.                                             *)
Stop ==
  /\ server = "up" /\ ~stopping /\ Fault
  /\ stopping' = TRUE
  /\ UNCHANGED <<call, conn, backlog, server, live, store, answers>>

(* Variant: nothing wakes it.                                              *)
NoWake == <<>>

Wake == <<Waker>>

ConnectToSelf ==
  /\ server = "up" /\ stopping
  /\ ~\E i \in DOMAIN backlog : backlog[i] = Waker
  /\ backlog' = backlog \o Wake
  /\ backlog' # backlog
  /\ UNCHANGED <<call, conn, server, stopping, live, store, faults, answers>>

(* run returns when its scope has no thread left.                          *)
Handlers == {x \in Connections : conn[x].at \in {"head", "body", "commit", "reply", "close"}}

Returned ==
  /\ server = "draining" /\ Handlers = {}
  /\ server' = "down"
  /\ conn' = [x \in Connections |-> IF conn[x].at = "backlog" THEN Gone(conn[x])
                                    ELSE conn[x]]
  /\ backlog' = <<>>
  /\ UNCHANGED <<call, stopping, live, store, faults, answers>>

(* A second signal, or a crash; then somebody starts it again.             *)
Die ==
  /\ server # "down" /\ Fault
  /\ server' = "down" /\ backlog' = <<>> /\ live' = 0 /\ stopping' = FALSE
  /\ conn' = [x \in Connections |-> IF x \in Handlers \/ conn[x].at = "backlog"
                                    THEN Gone(conn[x]) ELSE conn[x]]
  /\ UNCHANGED <<call, store, answers>>

Restart ==
  /\ server = "down" /\ ~stopping
  /\ server' = "up"
  /\ UNCHANGED <<call, conn, backlog, stopping, live, store, faults, answers>>

----------------------------------------------------------------------------
Caller(c) ==
  \/ Begin(c) \/ WakeUp(c) \/ Connect(c) \/ NoConnection(c)
  \/ Send(c) \/ CapReached(c) \/ GiveUp(c) \/ Receive(c) \/ ProxyAnswers(c)

Handler(x) ==
  \/ ReadHead(x) \/ HangUp(x) \/ ReadBody(x) \/ Commit(x) \/ CommitFails(x)
  \/ Reply(x) \/ Close(x)

Watched(A) == A /\ UNCHANGED script /\ Observe

Next ==
  \/ \E c \in Callers : Watched(Caller(c))
  \/ \E x \in Connections : Watched(Handler(x))
  \/ Watched(Accept) \/ Watched(Stop) \/ Watched(ConnectToSelf)
  \/ Watched(Returned) \/ Watched(Die) \/ Watched(Restart)

(* A call's own timeout ends an attempt, io_timeout a stalled read, and    *)
(* the server's threads run, one or the other; nobody has to stop or       *)
(* restart it.                                                             *)
Fairness ==
  /\ \A c \in Callers :
       WF_vars(Watched(WakeUp(c) \/ Connect(c) \/ NoConnection(c) \/ GiveUp(c) \/ Receive(c)))
  /\ WF_vars(Watched((\E x \in Connections : Handler(x)) \/ Accept \/ ConnectToSelf \/ Returned))

Spec == Init /\ [][Next]_vars /\ Fairness

----------------------------------------------------------------------------
(* What a caller is told was so at some time while it asked, whatever was  *)
(* cut, retried, refused or answered twice: a stored artifact was stored,  *)
(* a served body is the one the key held, an absent one was absent, and a  *)
(* conflict met other bytes.  And no body the peer did not send to its end *)
(* is ever in the store, nor one past the cap (retry_loop, Exact and       *)
(* Chunked of http1.rs, stage and commit).                                 *)
Last(c) == script[c][call[c].i - 1]

ToldTrue(c) ==
  LET answer == answers[c]
  IN  call[c].at = "idle" /\ answer # Nothing =>
        /\ answer.told = "conflict" => \E b \in Bodies \ {Last(c).body} : b \in seen[c]
        /\ answer.told = "absent" => Nothing \in seen[c]
        /\ answer.told = "ok" =>
             (IF Last(c).kind = "get" THEN answer.body ELSE Last(c).body) \in seen[c]

AnswersAreTrue == \A c \in Callers : ToldTrue(c)

OnlyWholeBodies == \A k \in Keys : store[k] \in {Nothing} \cup (Bodies \ (TooBig \cup OverCap))

StoreIsTrue == AnswersAreTrue /\ OnlyWholeBodies

(* The server counts the connections it has threads for, and never has     *)
(* more than it may: a slot that was lost would make it answer 503 for     *)
(* good (Slot, with_max_connections, the spawn that fails).                *)
SlotsExact == live = Cardinality(Handlers) /\ live <= MaxConnections

(* Every call comes back, and a server told to stop does: it is woken, and *)
(* no peer can hold it (retry_loop, io_timeout, shutdown).                 *)
EveryoneEnds ==
  /\ \A c \in Callers : call[c].at # "idle" ~> call[c].at = "idle"
  /\ (stopping /\ server # "down") ~> server = "down"
=============================================================================
