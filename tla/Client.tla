-------------------------------- MODULE Client --------------------------------
(***************************************************************************)
(* client_t::batch of src/prime_server.cpp with the stream_responses of    *)
(* netstring_client_t and http_client_t: a client makes requests in        *)
(* batches and collects the responses.  The request function makes Total   *)
(* requests and then a blank one; the collect function asks for more until *)
(* it has seen Total responses, as the clients in test/ do.                *)
(*                                                                         *)
(* Each request is answered once, by a well-formed response: what          *)
(* netstring_entity_t throws at another is no std::exception and would     *)
(* leave batch().  Responses are cut into pieces on the way, so a read may *)
(* complete any number of them, none included.                             *)
(***************************************************************************)
EXTENDS Naturals

CONSTANTS Total,  \* requests the request function has to make
          batch_size

ASSUME ClientAssumption ==
    Total \in Nat /\ batch_size \in Nat \ {0}

VARIABLES
    pc,             \* the loop batch() is in
    current_batch,
    more,
    tried,          \* calls of request_function that made or lost a request
    sent,
    arrived,        \* responses on the connection, not yet read
    collected,      \* responses collect_function has accepted
    discarded,      \* responses read but dropped by a throw
    piece,          \* part of a response has been read and is buffered
    connection,     \* "new", "up", "closed", or "quiet" once that was read
    stopping        \* shutting_down()

callers == <<pc, current_batch, more, tried>>
vars == <<callers, sent, arrived, collected, discarded, piece, connection, stopping>>

\* Requests nobody has answered yet.
Outstanding == sent - arrived - collected - discarded

-----------------------------------------------------------------------------
(* The other side                                                           *)

Accept ==
    /\ connection = "new"
    /\ connection' = "up"
    /\ UNCHANGED <<callers, sent, arrived, collected, discarded, piece, stopping>>

Answer ==
    /\ connection = "up" /\ Outstanding > 0
    /\ arrived' = arrived + 1
    /\ UNCHANGED <<callers, sent, collected, discarded, piece, connection, stopping>>

HangUp ==
    /\ connection = "up"
    /\ connection' = "closed"
    /\ UNCHANGED <<callers, sent, arrived, collected, discarded, piece, stopping>>

Stop ==
    /\ ~stopping
    /\ stopping' = TRUE
    /\ UNCHANGED <<callers, sent, arrived, collected, discarded, piece, connection>>

Server == Accept \/ Answer

-----------------------------------------------------------------------------
(* batch()                                                                  *)

\* The first message only says that the connection is there.
Connect ==
    /\ pc = "connect" /\ connection # "new"
    /\ pc' = "request"
    /\ UNCHANGED <<current_batch, more, tried, sent, arrived, collected, discarded,
                   piece, connection, stopping>>

\* Faulty variant: the loop runs once more.
RoomForOneMore == current_batch <= batch_size

Room == current_batch < batch_size

Request ==
    /\ pc = "request" /\ Room /\ tried < Total
    /\ current_batch' = current_batch + 1
    /\ tried' = tried + 1 /\ sent' = sent + 1
    /\ UNCHANGED <<pc, more, arrived, collected, discarded, piece, connection, stopping>>

\* request_function throws, or the send fails: only logged, but counted.
RequestFails ==
    /\ pc = "request" /\ Room /\ tried < Total
    /\ current_batch' = current_batch + 1
    /\ tried' = tried + 1
    /\ UNCHANGED <<pc, more, sent, arrived, collected, discarded, piece, connection, stopping>>

\* A blank request, or the end of the loop.
RequestsDone ==
    /\ pc = "request" /\ (~Room \/ tried = Total)
    /\ pc' = "receive" /\ more' = FALSE /\ current_batch' = 0
    /\ UNCHANGED <<tried, sent, arrived, collected, discarded, piece, connection, stopping>>

\* Faulty variant: more is expected until a whole batch was read.
MoreUntilBatch(n) == TRUE

\* Faulty variant: the last response is not waited for.
MoreButLast(n) == IF n = 0 THEN more ELSE collected + n + 1 < Total

\* What more is after n responses; without one it is what it was.
MoreAfter(n) == IF n = 0 THEN more ELSE collected + n < Total

\* The two loop conditions after a read that brought the count to n.
GoOn(n) ==
    LET over == ~more' \/ n >= batch_size
    IN  /\ pc' = IF ~over THEN "receive"
                 ELSE IF more' /\ ~stopping THEN "request" ELSE "returned"
        /\ current_batch' = IF over THEN 0 ELSE n

\* Faulty variant: a read counts for one response, whatever it completed.
CountRead(n) == current_batch + 1

CountResponses(n) == current_batch + n

\* A read that completes n responses; if none, it brought a piece of the next.
Receive(n) ==
    /\ pc = "receive" /\ n <= arrived
    /\ n = 0 => ~piece /\ arrived > 0
    /\ arrived' = arrived - n /\ collected' = collected + n
    /\ piece' = (n = 0)
    /\ more' = MoreAfter(n)
    /\ GoOn(CountResponses(n))
    /\ UNCHANGED <<tried, sent, discarded, connection, stopping>>

\* collect_function throws on the (k+1)-th of n responses: the rest of them is
\* gone with the message, and none of the n is counted.  This is what
\* netstring_client_t makes of it; after a throw http_client_t may not find the
\* responses that follow either (see HttpClient).
CollectThrows(n, k) ==
    /\ pc = "receive" /\ k < n /\ n <= arrived
    /\ arrived' = arrived - n
    /\ collected' = collected + k /\ discarded' = discarded + (n - k)
    /\ piece' = FALSE
    /\ more' = MoreAfter(k)
    /\ GoOn(current_batch)
    /\ UNCHANGED <<tried, sent, connection, stopping>>

\* The blank message a closed connection ends with completes nothing.
ReceiveEnd ==
    /\ pc = "receive" /\ connection = "closed" /\ arrived = 0
    /\ connection' = "quiet"
    /\ more' = MoreAfter(0)
    /\ GoOn(current_batch)
    /\ UNCHANGED <<tried, sent, arrived, collected, discarded, piece, stopping>>

Batch ==
    \/ Connect \/ Request \/ RequestFails \/ RequestsDone \/ ReceiveEnd
    \/ \E n \in 0 .. batch_size : Receive(n)
    \/ \E n \in 0 .. batch_size : \E k \in 0 .. n : CollectThrows(n, k)

Init == /\ pc = "connect" /\ current_batch = 0 /\ more = FALSE
        /\ tried = 0 /\ sent = 0 /\ arrived = 0 /\ collected = 0 /\ discarded = 0
        /\ piece = FALSE /\ connection = "new" /\ stopping = FALSE

Next == Batch \/ Server \/ HangUp \/ Stop

Spec == Init /\ [][Next]_vars

\* The client keeps running and the server answers what it was asked.
FairSpec == Spec /\ WF_vars(Batch) /\ WF_vars(Server)

-----------------------------------------------------------------------------
(* Properties                                                               *)

\* The type invariant of batch().
TypeOK ==
    /\ pc \in {"connect", "request", "receive", "returned"}
    /\ current_batch \in 0 .. batch_size
    /\ more \in BOOLEAN /\ piece \in BOOLEAN /\ stopping \in BOOLEAN
    /\ tried \in 0 .. Total /\ sent \in 0 .. Total
    /\ arrived \in 0 .. batch_size
    /\ collected \in Nat /\ discarded \in Nat
    /\ connection \in {"new", "up", "closed", "quiet"}

\* At most batch_size requests are under way at any time, whatever is split,
\* thrown or lost: a new round starts only when the last one was read in full.
InFlightBounded == TypeOK /\ sent - collected - discarded <= batch_size

\* A callback threw, a send failed or the server hung up.
Failed == tried > sent \/ discarded > 0 \/ connection \in {"closed", "quiet"}

\* batch() does not block in a read unless a response is still to come: as long
\* as nothing failed, a round waits for what it sent and for no more.  Only a
\* client whose first request is blank waits for nothing, and blocks.
WaitsForSomething ==
    pc = "receive" /\ ~Failed => sent > collected \/ Total = 0

\* As long as nothing failed, batch() returns early only when it is told to stop
\* or when the read it ended with brought a mere piece of a response.
CollectsUnlessSplit ==
    pc = "returned" /\ ~Failed => stopping \/ piece \/ collected = Total

\* batch() returns, although every read of it blocks.
BatchReturns == <>(pc = "returned" \/ Failed)
===============================================================================
