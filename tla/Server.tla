-------------------------------- MODULE Server --------------------------------
(***************************************************************************)
(* server_t of src/prime_server.cpp: the single thread that sits between   *)
(* the clients (a ZMQ_STREAM socket) and the load-balanced backend.  One   *)
(* iteration of serve() polls, takes at most one result from the loopback, *)
(* takes at most one message from the client socket and then times old     *)
(* requests out.  Each of those stages is an action here; pc forces their  *)
(* order, so that connections, the backend and the clock may move between  *)
(* any two of them, exactly as they may between two zmq calls.             *)
(*                                                                         *)
(* Abstractions.  A client message is what from_stream makes of it: a      *)
(* sequence of complete requests (empty when it only completes nothing), a *)
(* parse error, or the blank message ZMQ_STREAM delivers both when a       *)
(* connection opens and when it ends.  A request is its keep_alive() bit   *)
(* and whether the health check matcher accepts it.  The key               *)
(* id | time_stamp << 32 is its id: two live requests can only share a key *)
(* when 2^32 requests arrive in one second.  Time is the age of a request  *)
(* in seconds, saturating just past the timeout.                           *)
(***************************************************************************)
EXTENDS Naturals, Sequences

CONSTANTS Clients,        \* connection identities; ZMQ never reuses one
          None,           \* "no such entry" in requests and issuer
          MaxRequests,    \* bound on the request ids the clients can cause
          RequestTimeout, \* request_timeout, in seconds
          Expires,        \* FALSE: drop_dead <= 0, the default infinite timeout
          Chunks,         \* the request sequences one client message may hold
          ProxyFails,     \* TRUE: the proxy socket may refuse a request (EAGAIN)
          MatcherFails,   \* TRUE: the caller's health_check_matcher may throw
          BlankResults    \* TRUE: a worker may answer with an empty message

ASSUME ServerAssumption ==
    /\ None \notin Clients
    /\ MaxRequests \in Nat
    /\ RequestTimeout \in Nat
    /\ Expires \in BOOLEAN /\ ProxyFails \in BOOLEAN /\ MatcherFails \in BOOLEAN
    /\ BlankResults \in BOOLEAN
    /\ Chunks \subseteq Seq([keep : BOOLEAN, health : BOOLEAN])

VARIABLES
    pc,               \* the stage serve() is in, or how it ended
    prefetched,       \* the client message poll has taken off its pipe
    cur,              \* whose session iterator handle_request holds
    pending,          \* parsed_requests still to send on
    sessions,         \* the identities in server_t::sessions
    enqueued,         \* session->second.enqueued
    requests,         \* server_t::requests, id to identity
    request_history,  \* server_t::request_history
    request_id,       \* server_t::request_id
    age,              \* seconds since time_stamp, per request
    pipe,             \* what ZMQ_STREAM makes of a connection
    hungup,           \* connections their client has closed
    inbox,            \* messages on a connection, not yet read
    proxy,            \* requests in the backend
    loopback,         \* results on their way back
    interrupt,        \* ids published on the interrupt socket
    shutting_down,
    sent,             \* requests the clients have caused so far
    issuer,           \* history: who issued a request
    replies           \* history: responses handed to the client socket

server == <<pc, prefetched, cur, pending>>
tables == <<sessions, enqueued, requests, request_history, request_id>>
conns  == <<pipe, hungup, inbox>>
work   == <<proxy, loopback, interrupt>>
ghosts == <<sent, issuer, replies>>
vars   == <<server, tables, conns, work, ghosts, age, shutting_down>>

Ids   == 0 .. MaxRequests - 1
Infos == [id : Ids, keep : BOOLEAN]

Blank     == [kind |-> "blank", reqs |-> <<>>]
Malformed == [kind |-> "malformed", reqs |-> <<>>]
Data      == {[kind |-> "data", reqs |-> q] : q \in Chunks}
Messages  == {Blank, Malformed} \cup Data
NoMessage == [from |-> None, msg |-> Blank]

-----------------------------------------------------------------------------
(* The ZMQ_STREAM socket, as server_t sees it.  "up": frames are accepted.  *)
(* "draining": the peer has gone and its last messages are still to be read.*)
(* "closing": the server sent the blank frame.  Both refuse the identity    *)
(* frame with EAGAIN, which socket_t::send reports as FALSE.  "gone": the   *)
(* identity is unknown, EHOSTUNREACH, and socket_t::send throws.            *)

PipeStates == {"none", "up", "draining", "closing", "gone"}

\* The states a pipe may be found in when the server next sends to it.
Reach(c, p) ==
    {p} \cup {q \in {"draining", "gone"} :
                \/ q = "draining" /\ p = "up" /\ c \in hungup
                \/ q = "gone" /\ p = "draining" /\ inbox[c] = <<>> /\ prefetched.from # c
                \/ q = "gone" /\ p = "closing"}

Writable(p)    == p = "up"
Unreachable(p) == p = "gone"

\* Sending a blank frame ends the connection; what it had not delivered is dropped.
Closed(c, p) == /\ pipe' = [pipe EXCEPT ![c] = p]
                /\ inbox' = IF p = "closing" THEN [inbox EXCEPT ![c] = <<>>] ELSE inbox

-----------------------------------------------------------------------------
(* Clients, backend, clock and SIGTERM: the environment of serve().         *)

Connect(c) ==
    /\ pipe[c] = "none"
    /\ pipe' = [pipe EXCEPT ![c] = "up"]
    /\ inbox' = [inbox EXCEPT ![c] = <<Blank>>]
    /\ UNCHANGED <<server, tables, hungup, work, ghosts, age, shutting_down>>

\* What a message counts against MaxRequests: the ids it can use up, at least 1.
Cost(m) == IF m.reqs = <<>> THEN 1 ELSE Len(m.reqs)

ClientSends(c, m) ==
    /\ pipe[c] = "up" /\ c \notin hungup
    /\ sent + Cost(m) <= MaxRequests
    /\ sent' = sent + Cost(m)
    /\ inbox' = [inbox EXCEPT ![c] = Append(@, m)]
    /\ UNCHANGED <<server, tables, pipe, hungup, work, issuer, replies, age, shutting_down>>

HangUp(c) ==
    /\ pipe[c] = "up" /\ c \notin hungup
    /\ hungup' = hungup \cup {c}
    /\ inbox' = [inbox EXCEPT ![c] = Append(@, Blank)]
    /\ UNCHANGED <<server, tables, pipe, work, ghosts, age, shutting_down>>

PipeStep(c) ==
    /\ \E p \in Reach(c, pipe[c]) \ {pipe[c]} : pipe' = [pipe EXCEPT ![c] = p]
    /\ UNCHANGED <<server, tables, hungup, inbox, work, ghosts, age, shutting_down>>

\* A worker sends a result; a blank one is legal but disconnects the client.
BackendResult(info, blank) ==
    /\ info \in proxy /\ (blank => BlankResults)
    /\ proxy' = proxy \ {info}
    /\ loopback' = Append(loopback, [info |-> info, blank |-> blank])
    /\ UNCHANGED <<server, tables, conns, interrupt, ghosts, age, shutting_down>>

\* A worker was interrupted, failed, or died with the request.
BackendDrop(info) ==
    /\ info \in proxy
    /\ proxy' = proxy \ {info}
    /\ UNCHANGED <<server, tables, conns, loopback, interrupt, ghosts, age, shutting_down>>

Tick ==
    /\ age' = [i \in Ids |-> IF issuer[i] # None /\ age[i] <= RequestTimeout
                             THEN age[i] + 1 ELSE age[i]]
    /\ UNCHANGED <<server, tables, conns, work, ghosts, shutting_down>>

Shutdown ==
    /\ ~shutting_down
    /\ shutting_down' = TRUE
    /\ UNCHANGED <<server, tables, conns, work, ghosts, age>>

Environment ==
    \/ \E c \in Clients : Connect(c) \/ HangUp(c) \/ PipeStep(c)
    \/ \E c \in Clients, m \in Messages \ {Blank} : ClientSends(c, m)
    \/ \E info \in proxy : BackendDrop(info)
    \/ \E info \in proxy, blank \in BOOLEAN : BackendResult(info, blank)
    \/ Tick
    \/ Shutdown

-----------------------------------------------------------------------------
(* serve()                                                                  *)

\* zmq::poll on the loopback and the client socket.  Asking a stream socket
\* whether it is readable already takes one message off its pipe.
Poll ==
    /\ pc = "poll" /\ ~shutting_down
    /\ LET readable == {c \in Clients : inbox[c] # <<>>}
       IN  \/ /\ readable = {}
              /\ UNCHANGED <<prefetched, inbox>>
              /\ pc' = IF loopback # <<>> THEN "result" ELSE "timeouts"
           \/ \E c \in readable :
              /\ prefetched' = [from |-> c, msg |-> Head(inbox[c])]
              /\ inbox' = [inbox EXCEPT ![c] = Tail(@)]
              /\ pc' = IF loopback # <<>> THEN "result" ELSE "client"
    /\ UNCHANGED <<cur, pending, tables, pipe, hungup, work, ghosts, age, shutting_down>>

Return ==
    /\ pc = "poll" /\ shutting_down
    /\ pc' = "returned"
    /\ UNCHANGED <<prefetched, cur, pending, tables, conns, work, ghosts, age, shutting_down>>

\* The stage that follows the loopback stage, an exception in it caught or not.
AfterResult == IF prefetched = NoMessage THEN "timeouts" ELSE "client"

\* Faulty variant: the entry is not erased.
ErasedNothing(i) == requests

\* requests.erase(request)
Erased(i) == [requests EXCEPT ![i] = None]

\* dequeue(info, response): reply to whoever the request belongs to, then
\* disconnect unless it is kept alive.  p1 is what the identity frame of the
\* response meets, p3 what that of the disconnect meets.  A frame that throws
\* leaves before requests.erase.  pub are ids the caller has published already.
Dequeue(info, blank, pub, next, thrown) ==
    \/ /\ requests[info.id] = None
       /\ pc' = next
       /\ interrupt' = interrupt \cup pub
       /\ UNCHANGED <<sessions, enqueued, requests, pipe, inbox, replies>>
    \/ /\ requests[info.id] # None
       /\ LET c == requests[info.id] IN
          \E p1 \in Reach(c, pipe[c]) :
          LET p2 == IF Writable(p1) /\ blank THEN "closing" ELSE p1 IN
          \E p3 \in IF info.keep \/ Unreachable(p1) THEN {p2} ELSE Reach(c, p2) :
          LET closes == ~info.keep /\ Writable(p3) IN
          /\ replies' = IF Writable(p1) THEN [replies EXCEPT ![info.id] = @ + 1] ELSE replies
          /\ requests' = IF Unreachable(p3) THEN requests ELSE Erased(info.id)
          /\ Closed(c, IF closes THEN "closing" ELSE p3)
          /\ sessions' = IF closes THEN sessions \ {c} ELSE sessions
          /\ enqueued' = IF closes THEN [enqueued EXCEPT ![c] = {}] ELSE enqueued
          /\ interrupt' = interrupt \cup pub \cup IF closes THEN enqueued[c] ELSE {}
          /\ pc' = IF Unreachable(p3) THEN thrown
                   ELSE IF closes /\ c \notin sessions THEN "undefined" \* sessions.end()
                   ELSE next

\* loopback.recv_all and dequeue.  An exception is caught by serve().
RecvResult ==
    /\ pc = "result"
    /\ LET r == Head(loopback)
       IN Dequeue(r.info, r.blank, {}, AfterResult, AfterResult)
    /\ loopback' = Tail(loopback)
    /\ UNCHANGED <<prefetched, cur, pending, request_history, request_id, hungup,
                   proxy, sent, issuer, age, shutting_down>>

-----------------------------------------------------------------------------
(* handle_request                                                           *)

\* A blank message from an identity without a session opens one.
OpenSession ==
    /\ pc = "client" /\ prefetched.msg = Blank /\ prefetched.from \notin sessions
    /\ sessions' = sessions \cup {prefetched.from}
    /\ prefetched' = NoMessage
    /\ pc' = "timeouts"
    /\ UNCHANGED <<cur, pending, enqueued, requests, request_history, request_id,
                   conns, work, ghosts, age, shutting_down>>

\* Faulty variant: a disconnect erases the session only.
ForgetNothing(c) == requests

\* requests.erase for everything the session enqueued
Forget(c) == [i \in Ids |-> IF i \in enqueued[c] THEN None ELSE requests[i]]

\* A blank message from an identity with one ends it and interrupts its requests.
EndSession ==
    /\ pc = "client" /\ prefetched.msg = Blank /\ prefetched.from \in sessions
    /\ LET c == prefetched.from
       IN /\ interrupt' = interrupt \cup enqueued[c]
          /\ requests' = Forget(c)
          /\ enqueued' = [enqueued EXCEPT ![c] = {}]
          /\ sessions' = sessions \ {c}
    /\ prefetched' = NoMessage
    /\ pc' = "timeouts"
    /\ UNCHANGED <<cur, pending, request_history, request_id, conns, proxy, loopback,
                   ghosts, age, shutting_down>>

\* Data from an identity without a session is ignored.
IgnoreUnknown ==
    /\ pc = "client" /\ prefetched.msg # Blank /\ prefetched.from \notin sessions
    /\ prefetched' = NoMessage
    /\ pc' = "timeouts"
    /\ UNCHANGED <<cur, pending, tables, conns, work, ghosts, age, shutting_down>>

\* enqueue: from_stream returned requests.
ParseData ==
    /\ pc = "client" /\ prefetched.from \in sessions
    /\ prefetched.msg.kind = "data"
    /\ cur' = prefetched.from
    /\ pending' = prefetched.msg.reqs
    /\ prefetched' = NoMessage
    /\ pc' = "enqueue"
    /\ UNCHANGED <<tables, conns, work, ghosts, age, shutting_down>>

\* enqueue: from_stream threw, so the error response is sent and an id used up.
RejectData ==
    /\ pc = "client" /\ prefetched.from \in sessions
    /\ prefetched.msg.kind = "malformed"
    /\ \E p \in Reach(prefetched.from, pipe[prefetched.from]) :
       /\ pipe' = [pipe EXCEPT ![prefetched.from] = p]
       /\ \/ /\ Unreachable(p)
             /\ pc' = "timeouts"
             /\ UNCHANGED <<cur, request_id>>
          \/ /\ ~Unreachable(p)
             /\ request_id' = request_id + 1
             /\ cur' = prefetched.from
             /\ pc' = "reject"
    /\ prefetched' = NoMessage
    /\ UNCHANGED <<pending, sessions, enqueued, requests, request_history, hungup,
                   inbox, work, ghosts, age, shutting_down>>

\* parsed_request.to_info(request_id++) and what keep_alive() will say of it
InfoOf(r) == [id |-> request_id, keep |-> r.keep]

\* The loop of enqueue: one parsed request is sent on and remembered.  cur's
\* session may have been erased by the reply to an earlier health check of the
\* same message: request and requester then dangle, and the build either ends
\* or records the request against a session that no longer exists.
EnqueueOne ==
    /\ pc = "enqueue" /\ pending # <<>> /\ request_id < MaxRequests
    /\ LET r == Head(pending)
           info == InfoOf(r)
       IN /\ request_id' = request_id + 1
          /\ proxy' = IF r.health THEN proxy ELSE proxy \cup {info}
          /\ \/ /\ cur \notin sessions
                /\ pc' = "undefined"
                /\ UNCHANGED <<pending, enqueued, requests, request_history, issuer>>
             \/ /\ enqueued' = IF cur \in sessions
                               THEN [enqueued EXCEPT ![cur] = @ \cup {info.id}]
                               ELSE enqueued
                /\ requests' = [requests EXCEPT ![info.id] = cur]
                /\ request_history' = Append(request_history, info)
                /\ issuer' = [issuer EXCEPT ![info.id] = cur]
                /\ pending' = Tail(pending)
                /\ pc' = IF r.health THEN "health" ELSE "enqueue"
    /\ UNCHANGED <<prefetched, cur, sessions, conns, loopback, interrupt, sent,
                   replies, age, shutting_down>>

\* The proxy socket refuses the request: enqueue returns false.
EnqueueFails ==
    /\ ProxyFails
    /\ pc = "enqueue" /\ pending # <<>> /\ ~Head(pending).health
    /\ request_id < MaxRequests
    /\ request_id' = request_id + 1
    /\ pending' = <<>>
    /\ pc' = "reject"
    /\ UNCHANGED <<prefetched, cur, sessions, enqueued, requests, request_history,
                   conns, work, ghosts, age, shutting_down>>

\* health_check_matcher throws: the exception leaves enqueue for the handler in
\* serve(), and the rest of the message is given up with the session left open.
MatcherThrows ==
    /\ MatcherFails
    /\ pc = "enqueue" /\ pending # <<>> /\ request_id < MaxRequests
    /\ request_id' = request_id + 1
    /\ pending' = <<>>
    /\ pc' = "timeouts"
    /\ UNCHANGED <<prefetched, cur, sessions, enqueued, requests, request_history,
                   conns, work, ghosts, age, shutting_down>>

EnqueueDone ==
    /\ pc = "enqueue" /\ pending = <<>>
    /\ pc' = "timeouts"
    /\ UNCHANGED <<prefetched, cur, pending, tables, conns, work, ghosts, age,
                   shutting_down>>

\* A health check is answered at once; an exception abandons the rest of the
\* message, as it leaves enqueue for the handler in serve().
HealthReply ==
    /\ pc = "health"
    /\ Dequeue(request_history[Len(request_history)], FALSE, {}, "enqueue", "timeouts")
    /\ pending' = IF pc' = "enqueue" THEN pending ELSE <<>>
    /\ UNCHANGED <<prefetched, cur, request_history, request_id, hungup, proxy,
                   loopback, sent, issuer, age, shutting_down>>

\* handle_request after enqueue returned false: disconnect, interrupt, erase the
\* session.  The requests table is left alone.
CloseRejected ==
    /\ pc = "reject"
    /\ \/ \E p \in Reach(cur, pipe[cur]) :
          \/ /\ ~Writable(p)
             /\ pc' = "timeouts"
             /\ Closed(cur, p)
             /\ UNCHANGED <<sessions, enqueued, interrupt>>
          \/ /\ Writable(p) /\ cur \in sessions
             /\ pc' = "timeouts"
             /\ Closed(cur, "closing")
             /\ interrupt' = interrupt \cup enqueued[cur]
             /\ sessions' = sessions \ {cur}
             /\ enqueued' = [enqueued EXCEPT ![cur] = {}]
       \/ /\ cur \notin sessions
          /\ pc' = "undefined"
          /\ UNCHANGED <<pipe, inbox, sessions, enqueued, interrupt>>
    /\ UNCHANGED <<prefetched, cur, pending, requests, request_history, request_id,
                   hungup, proxy, loopback, ghosts, age, shutting_down>>

-----------------------------------------------------------------------------
(* handle_timeouts, which serve() calls outside of its try blocks           *)

Expired == /\ Expires
           /\ request_history # <<>>
           /\ age[Head(request_history).id] > RequestTimeout

\* Faulty variants: the newest request is interrupted; the history is cleared.
TimedOutLast == request_history[Len(request_history)].id
ClearedHistory == <<>>

\* The key interrupt.send publishes, and request_history.pop_front()
TimedOutId == Head(request_history).id
PoppedHistory == Tail(request_history)

TimeoutOne ==
    /\ pc = "timeouts" /\ Expired
    /\ LET info == Head(request_history)
       IN Dequeue(info, FALSE, {TimedOutId}, "timeouts", "terminated")
    /\ request_history' = IF pc' = "timeouts" THEN PoppedHistory ELSE request_history
    /\ UNCHANGED <<prefetched, cur, pending, request_id, hungup, proxy, loopback,
                   sent, issuer, age, shutting_down>>

TimeoutsDone ==
    /\ pc = "timeouts" /\ ~Expired
    /\ pc' = "poll"
    /\ UNCHANGED <<prefetched, cur, pending, tables, conns, work, ghosts, age,
                   shutting_down>>

-----------------------------------------------------------------------------
Init ==
    /\ pc = "poll" /\ prefetched = NoMessage
    /\ cur = None /\ pending = <<>>
    /\ sessions = {}
    /\ enqueued = [c \in Clients |-> {}]
    /\ requests = [i \in Ids |-> None]
    /\ request_history = <<>>
    /\ request_id = 0
    /\ age = [i \in Ids |-> 0]
    /\ pipe = [c \in Clients |-> "none"]
    /\ hungup = {}
    /\ inbox = [c \in Clients |-> <<>>]
    /\ proxy = {} /\ loopback = <<>> /\ interrupt = {}
    /\ shutting_down = FALSE
    /\ sent = 0
    /\ issuer = [i \in Ids |-> None]
    /\ replies = [i \in Ids |-> 0]

Serve ==
    \/ Poll \/ Return \/ RecvResult
    \/ OpenSession \/ EndSession \/ IgnoreUnknown \/ ParseData \/ RejectData
    \/ EnqueueOne \/ EnqueueFails \/ MatcherThrows \/ EnqueueDone \/ HealthReply
    \/ CloseRejected \/ TimeoutOne \/ TimeoutsDone

Next == Serve \/ Environment

Spec == Init /\ [][Next]_vars

-----------------------------------------------------------------------------
(* Properties                                                               *)

\* serve() is over: it returned, an exception left it, or it met undefined
\* behaviour.
Ended == pc \in {"returned", "terminated", "undefined"}

\* The type invariant: every variable of server_t and of its sockets stays in
\* its type, ids below the bound included.
TypeOK ==
    /\ pc \in {"poll", "result", "client", "enqueue", "health", "reject", "timeouts",
               "returned", "terminated", "undefined"}
    /\ prefetched \in [from : Clients \cup {None}, msg : Messages]
    /\ cur \in Clients \cup {None}
    /\ pending \in Seq([keep : BOOLEAN, health : BOOLEAN])
    /\ sessions \subseteq Clients
    /\ enqueued \in [Clients -> SUBSET Ids]
    /\ requests \in [Ids -> Clients \cup {None}]
    /\ request_history \in Seq(Infos)
    /\ request_id \in Nat
    /\ age \in [Ids -> Nat]
    /\ pipe \in [Clients -> PipeStates]
    /\ hungup \subseteq Clients
    /\ inbox \in [Clients -> Seq(Messages)]
    /\ proxy \subseteq Infos
    /\ loopback \in Seq([info : Infos, blank : BOOLEAN])
    /\ interrupt \subseteq Ids
    /\ shutting_down \in BOOLEAN
    /\ sent \in Nat
    /\ issuer \in [Ids -> Clients \cup {None}]
    /\ replies \in [Ids -> Nat]

\* Client c still waits for the answer to request i on a live connection.
Awaits(c, i) == /\ issuer[i] = c /\ replies[i] = 0
                /\ pipe[c] = "up" /\ c \notin hungup

InHistory(i) == \E n \in DOMAIN request_history : request_history[n].id = i

\* A request is answered at most once, whichever of the result, the timeout and
\* the health check reply come for it and in whatever order (dequeue's lookup
\* in requests, src/src/prime_server.cpp:374).
AtMostOneReply == \A i \in Ids : replies[i] <= 1

\* A request whose client can still be written to belongs to an open session
\* that lists it: the session dequeue looks up after the disconnect frames were
\* accepted exists (src/src/prime_server.cpp:389).
WritableHasSession ==
    \A i \in Ids : requests[i] # None /\ pipe[requests[i]] = "up"
        => requests[i] \in sessions /\ i \in enqueued[requests[i]]

\* While a client waits on a live connection, its request can be found on every
\* path that would settle it: in requests by a result, in its session by a
\* disconnect, in request_history by the timeout.
AwaitedIsTracked ==
    \A c \in Clients, i \in Ids : Awaits(c, i) =>
        /\ requests[i] = c
        /\ c \in sessions /\ i \in enqueued[c]
        /\ pc # "terminated" => InHistory(i)

\* No worker is told to abandon a request somebody still waits for: every id on
\* the interrupt socket has been answered or has lost its client.
InterruptedNotAwaited ==
    \A c \in Clients, i \in interrupt : ~Awaits(c, i)

\* The serve() thread keeps running and time keeps passing.  Nothing is assumed
\* of clients, connections or the backend, which may answer nothing at all.
FairSpec == Spec /\ WF_vars(Serve) /\ WF_vars(Tick)

\* With a finite request timeout nobody waits for ever on a live connection,
\* whatever the backend does, unless serve() itself is over (handle_timeouts).
AwaitedIsSettled ==
    \A c \in Clients, i \in Ids : Awaits(c, i) ~> (~Awaits(c, i) \/ Ended)

\* With a finite timeout server_t forgets every request, also one whose entry a
\* rejected message, a closed session or a failed reply left behind: both tables
\* are emptied of it, by handle_timeouts if by nobody else.
LeavesNoTrace ==
    \A i \in Ids : requests[i] # None \/ InHistory(i)
        ~> (requests[i] = None /\ ~InHistory(i)) \/ Ended

-----------------------------------------------------------------------------
(* What the repository says of serve() and the code does not keep.          *)

\* serve() ends because shutting_down says so
\* (src/prime_server/prime_server.hpp:211-212), not because a send failed.
EndsOnShutdownOnly == pc # "terminated"

=============================================================================
