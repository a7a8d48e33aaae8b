----------------------------- MODULE ServerProofs -----------------------------
(***************************************************************************)
(* Proofs about Server, for every set of clients, every bound on the       *)
(* requests, every timeout and every repertoire of messages.               *)
(*                                                                         *)
(* None of the safety properties is inductive.  What the server relies on  *)
(* without saying so, and what IInv adds to them, is                       *)
(*   - identities are fresh: nothing of the server's mentions a connection *)
(*     that was never made (Known), and ids are: nothing mentions an id    *)
(*     that was never given out (Fresh);                                   *)
(*   - an entry of requests, of enqueued, of the history, of the interrupt *)
(*     socket belongs to the client that issued the request (Owned);       *)
(*   - on a live connection the blank message that opens it is the only    *)
(*     one, and the first (OneBlank);                                      *)
(*   - the session enqueue works on is open while its client can be        *)
(*     written to (Stages).                                                *)
(***************************************************************************)
EXTENDS Server, TLAPS

\* Nothing mentions a connection that was never made.
Known ==
    /\ \A c \in Clients : pipe[c] = "none" =>
          c \notin sessions /\ inbox[c] = <<>> /\ prefetched.from # c
    /\ \A i \in Ids : issuer[i] # None => pipe[issuer[i]] # "none"

\* Nothing mentions an id that was never given out.
Fresh == \A i \in Ids : i >= request_id => issuer[i] = None

\* Whatever mentions a request agrees on who issued it.
Owned ==
    /\ \A i \in Ids : requests[i] # None => requests[i] = issuer[i]
    /\ \A i \in Ids : replies[i] # 0 => issuer[i] # None
    /\ \A c \in Clients : \A i \in enqueued[c] : issuer[i] = c
    /\ \A i \in interrupt : issuer[i] # None
    /\ \A n \in DOMAIN request_history : issuer[request_history[n].id] # None

\* On a live connection the blank message that opens it comes first and once.
OneBlankAt(c) ==
    pipe[c] = "up" /\ c \notin hungup =>
        /\ \A n \in DOMAIN inbox[c] : n > 1 => inbox[c][n] # Blank
        /\ c \in sessions \/ (prefetched.from = c /\ prefetched.msg = Blank)
              => \A n \in DOMAIN inbox[c] : inbox[c][n] # Blank
        /\ c \in sessions => ~(prefetched.from = c /\ prefetched.msg = Blank)

OneBlank == \A c \in Clients : OneBlankAt(c)

\* What each stage of serve() takes for granted.
Stages ==
    /\ prefetched.from = None => prefetched = NoMessage
    /\ pc = "client" => prefetched.from \in Clients
    /\ pc = "result" => loopback # <<>>
    /\ pc = "health" => request_history # <<>>
    /\ pc \in {"enqueue", "health", "reject"} =>
          /\ cur \in Clients /\ pipe[cur] # "none"
          /\ pipe[cur] = "up" => cur \in sessions

\* A request that was answered is out of requests, or cannot be answered again.
Answered ==
    \A i \in Ids : replies[i] # 0 =>
        replies[i] = 1 /\ (requests[i] # None => pipe[requests[i]] # "up")

\* Half of AwaitedIsTracked: the half about the history.
Remembered ==
    pc # "terminated" => \A c \in Clients, i \in Ids : Awaits(c, i) => InHistory(i)

\* The other half: a request somebody awaits is in requests.
Findable == \A c \in Clients, i \in Ids : Awaits(c, i) => requests[i] = c

IInv == /\ TypeOK /\ Known /\ Fresh /\ Owned /\ OneBlank /\ Stages
        /\ Answered /\ WritableHasSession /\ Findable /\ Remembered
        /\ InterruptedNotAwaited

-----------------------------------------------------------------------------
(* The building blocks.                                                     *)

\* The two halves of a sequence that is not empty.
LEMMA HeadTail ==
    ASSUME NEW S, NEW q \in Seq(S), q # <<>>
    PROVE  Head(q) \in S /\ Tail(q) \in Seq(S)
OBVIOUS

\* How the elements of a sequence that is not empty are numbered in its tail.
LEMMA Elements ==
    ASSUME NEW S, NEW q \in Seq(S), q # <<>>
    PROVE  /\ 1 \in DOMAIN q /\ Head(q) = q[1]
           /\ Len(q) \in DOMAIN q /\ q[Len(q)] \in S
           /\ \A n \in DOMAIN q : n # 1 => n - 1 \in DOMAIN Tail(q) /\ Tail(q)[n - 1] = q[n]
           /\ \A n \in DOMAIN Tail(q) : n + 1 \in DOMAIN q /\ Tail(q)[n] = q[n + 1]
OBVIOUS

\* ZMQ takes a pipe to a state of its type, and never back to "up" or "none".
LEMMA ReachFacts ==
    ASSUME NEW c, NEW p \in PipeStates, NEW q \in Reach(c, p)
    PROVE  /\ q \in PipeStates
           /\ q = "up" => p = "up"
           /\ q = "none" <=> p = "none"
BY DEF Reach, PipeStates

\* What dequeue() does to a connection: it may end it, and then its session.
ConnEffect(c) ==
    /\ pipe'[c] = "up" => pipe[c] = "up"
    /\ pipe'[c] = "none" <=> pipe[c] = "none"
    /\ inbox'[c] = inbox[c] \/ inbox'[c] = <<>>
    /\ c \in sessions \ sessions' => pipe'[c] # "up"
    /\ enqueued'[c] # enqueued[c] => enqueued'[c] = {} /\ pipe'[c] # "up"

\* What it does to a request: of the one it is called for, the entry is erased
\* and an answer counted, but only on a connection that can be written to.
RequestEffect(i, info) ==
    /\ requests'[i] # requests[i] => i = info.id /\ requests'[i] = None
    /\ replies'[i] # replies[i] => /\ i = info.id /\ requests[i] # None
                                  /\ pipe[requests[i]] = "up"
                                  /\ replies'[i] = replies[i] + 1

DequeueEffect(info, pub, next, thrown) ==
    /\ pc' \in {next, thrown, "undefined"}
    /\ pipe' \in [Clients -> PipeStates]
    /\ inbox' \in [Clients -> Seq(Messages)]
    /\ requests' \in [Ids -> Clients \cup {None}]
    /\ replies' \in [Ids -> Nat]
    /\ enqueued' \in [Clients -> SUBSET Ids]
    /\ sessions' \in SUBSET sessions
    /\ interrupt' \in SUBSET Ids
    /\ \A c \in Clients : ConnEffect(c)
    /\ \A i \in Ids : RequestEffect(i, info)
    /\ \A i \in interrupt' : \/ i \in interrupt
                             \/ i \in pub
                             \/ \E c \in Clients : i \in enqueued[c] /\ pipe'[c] # "up"
    /\ pc' # thrown => requests'[info.id] = None
    /\ requests[info.id] # None =>
          \/ pipe'[requests[info.id]] # "up"
          \/ requests'[info.id] = None /\ replies'[info.id] = replies[info.id] + 1

\* dequeue(): all that the three callers rely on.  It touches only the request
\* it is called for, and of connections only the one the request belongs to.
LEMMA DequeueFacts ==
    ASSUME TypeOK,
           NEW STATE info, info \in Infos,
           NEW STATE pub, pub \in SUBSET Ids,
           NEW STATE next, NEW STATE thrown, NEW blank \in BOOLEAN,
           Dequeue(info, blank, pub, next, thrown)
    PROVE  DequeueEffect(info, pub, next, thrown)
<1>0. /\ info.id \in Ids /\ info.keep \in BOOLEAN
      /\ None \notin Clients
  BY ServerAssumption DEF Infos
<1>1. CASE requests[info.id] = None
  BY <1>0, <1>1 DEF Dequeue, TypeOK, DequeueEffect, ConnEffect, RequestEffect
<1>2. CASE requests[info.id] # None
  <2> DEFINE c == requests[info.id]
  <2>1. c \in Clients /\ pipe[c] \in PipeStates
    BY <1>0, <1>2 DEF TypeOK
  <2>2. PICK p1 \in Reach(c, pipe[c]) :
        LET p2 == IF Writable(p1) /\ blank THEN "closing" ELSE p1 IN
          \E p3 \in IF info.keep \/ Unreachable(p1) THEN {p2} ELSE Reach(c, p2) :
          LET closes == ~info.keep /\ Writable(p3) IN
          /\ replies' = IF Writable(p1) THEN [replies EXCEPT ![info.id] = @ + 1] ELSE replies
          /\ requests' = IF Unreachable(p3) THEN requests ELSE Erased(info.id)
          /\ Closed(c, IF closes THEN "closing" ELSE p3)
          /\ sessions' = IF closes THEN sessions \ {c} ELSE sessions
          /\ enqueued' = IF closes THEN [enqueued EXCEPT ![c] = {}] ELSE enqueued
          /\ interrupt' = interrupt \cup pub \cup IF closes THEN enqueued[c] ELSE {}
          /\ pc' = IF Unreachable(p3) THEN thrown
                   ELSE IF closes /\ c \notin sessions THEN "undefined"
                   ELSE next
    BY <1>2 DEF Dequeue
  <2> DEFINE p2 == IF Writable(p1) /\ blank THEN "closing" ELSE p1
  <2>3. PICK p3 \in IF info.keep \/ Unreachable(p1) THEN {p2} ELSE Reach(c, p2) :
          LET closes == ~info.keep /\ Writable(p3) IN
          /\ replies' = IF Writable(p1) THEN [replies EXCEPT ![info.id] = @ + 1] ELSE replies
          /\ requests' = IF Unreachable(p3) THEN requests ELSE Erased(info.id)
          /\ Closed(c, IF closes THEN "closing" ELSE p3)
          /\ sessions' = IF closes THEN sessions \ {c} ELSE sessions
          /\ enqueued' = IF closes THEN [enqueued EXCEPT ![c] = {}] ELSE enqueued
          /\ interrupt' = interrupt \cup pub \cup IF closes THEN enqueued[c] ELSE {}
          /\ pc' = IF Unreachable(p3) THEN thrown
                   ELSE IF closes /\ c \notin sessions THEN "undefined"
                   ELSE next
    BY <2>2
  <2>4. /\ p1 \in PipeStates /\ (p1 = "up" => pipe[c] = "up") /\ (p1 = "none" <=> pipe[c] = "none")
        /\ p2 \in PipeStates
    BY <2>1, ReachFacts DEF PipeStates
  <2>5. /\ p3 \in PipeStates /\ (p3 = "up" => p2 = "up") /\ (p3 = "none" <=> p2 = "none")
    BY <2>3, <2>4, ReachFacts
  <2> DEFINE closes == ~info.keep /\ p3 = "up"
             p4 == IF closes THEN "closing" ELSE p3
  <2>6. /\ p4 \in PipeStates /\ (p4 = "up" => pipe[c] = "up") /\ (p4 = "none" <=> pipe[c] = "none")
        /\ closes => p4 = "closing"
        /\ p4 = "up" => p1 = "up"
        /\ p3 = "gone" => p4 = "gone"
    BY <2>4, <2>5 DEF PipeStates, Writable
  <2>7. /\ pipe' = [pipe EXCEPT ![c] = p4]
        /\ inbox' = IF p4 = "closing" THEN [inbox EXCEPT ![c] = <<>>] ELSE inbox
        /\ sessions' = IF closes THEN sessions \ {c} ELSE sessions
        /\ enqueued' = IF closes THEN [enqueued EXCEPT ![c] = {}] ELSE enqueued
        /\ interrupt' = interrupt \cup pub \cup IF closes THEN enqueued[c] ELSE {}
    BY <2>3 DEF Closed, Writable
  <2>8. /\ replies' = IF p1 = "up" THEN [replies EXCEPT ![info.id] = @ + 1] ELSE replies
        /\ requests' = IF p3 = "gone" THEN requests ELSE [requests EXCEPT ![info.id] = None]
        /\ pc' \in {next, thrown, "undefined"}
        /\ p3 = "gone" => pc' = thrown
    BY <2>3 DEF Writable, Unreachable, Erased
  <2> HIDE DEF p2, p4, closes
  <2>9. /\ pipe' \in [Clients -> PipeStates]
        /\ inbox' \in [Clients -> Seq(Messages)]
        /\ sessions' \in SUBSET sessions
        /\ enqueued' \in [Clients -> SUBSET Ids]
        /\ interrupt' \in SUBSET Ids
    BY <2>1, <2>6, <2>7 DEF TypeOK
  <2>10. /\ requests' \in [Ids -> Clients \cup {None}]
         /\ replies' \in [Ids -> Nat]
    BY <1>0, <2>8, SMTT(30) DEF TypeOK
  <2>11. \A d \in Clients : ConnEffect(d)
    BY <2>1, <2>6, <2>7 DEF TypeOK, ConnEffect
  <2>12. \A i \in Ids : RequestEffect(i, info)
    BY <1>0, <1>2, <2>4, <2>8 DEF TypeOK, RequestEffect
  <2>13. \A i \in interrupt' : \/ i \in interrupt
                              \/ i \in pub
                              \/ \E d \in Clients : i \in enqueued[d] /\ pipe'[d] # "up"
    BY <2>1, <2>6, <2>7 DEF TypeOK
  <2>14. pc' # thrown => requests'[info.id] = None
    BY <1>0, <2>8 DEF TypeOK
  <2>15. \/ pipe'[c] # "up"
         \/ requests'[info.id] = None /\ replies'[info.id] = replies[info.id] + 1
    BY <1>0, <2>1, <2>6, <2>7, <2>8 DEF TypeOK
  <2> QED
    BY <2>8, <2>9, <2>10, <2>11, <2>12, <2>13, <2>14, <2>15 DEF DequeueEffect
<1> QED
  BY <1>1, <1>2

\* A step that leaves connections, tables and histories alone, but for ids it
\* skips and a message it has dealt with, preserves all but the stages.
LEMMA Frame ==
    ASSUME IInv, request_id' \in Nat, request_id' >= request_id,
           prefetched' = prefetched \/ prefetched' = NoMessage,
           pc' = "terminated" \/ pc # "terminated",
           UNCHANGED <<sessions, enqueued, requests, request_history, conns, interrupt,
                       issuer, replies>>
    PROVE  /\ Known' /\ Fresh' /\ Owned' /\ OneBlank' /\ Answered'
           /\ WritableHasSession' /\ Findable' /\ Remembered' /\ InterruptedNotAwaited'
<1>1. None \notin Clients /\ NoMessage.from = None
  BY ServerAssumption DEF NoMessage
<1>2. Known' /\ OneBlank'
  BY <1>1 DEF IInv, TypeOK, Known, OneBlank, OneBlankAt, conns
<1>3. Fresh' /\ Owned'
  BY DEF IInv, TypeOK, Fresh, Owned, Ids
<1>4. Answered' /\ WritableHasSession' /\ Findable' /\ Remembered' /\ InterruptedNotAwaited'
  BY DEF IInv, Answered, WritableHasSession, Findable, Remembered, InterruptedNotAwaited,
         Awaits, InHistory, conns
<1> QED
  BY <1>2, <1>3, <1>4

\* A step that gives nobody something to wait for, and touches none of the
\* tables, preserves what is said of those who wait.
LEMMA FewerAwaited ==
    ASSUME IInv, UNCHANGED <<pc, requests, request_history, interrupt>>,
           \A c \in Clients, i \in Ids : Awaits(c, i)' => Awaits(c, i)
    PROVE  Findable' /\ Remembered' /\ InterruptedNotAwaited'
<1>1. Findable' /\ InterruptedNotAwaited'
  BY DEF IInv, TypeOK, Findable, InterruptedNotAwaited
<1>2. Remembered'
  BY DEF IInv, Remembered, InHistory
<1> QED
  BY <1>1, <1>2

\* dequeue() preserves all but the types, the stages and what concerns the
\* history, when it is called for a request that was given out.
LEMMA DequeueKeeps ==
    ASSUME IInv,
           NEW STATE info, info \in Infos,
           NEW STATE pub, pub \in SUBSET {info.id},
           NEW STATE next, NEW STATE thrown,
           DequeueEffect(info, pub, next, thrown),
           pub = {} \/ issuer[info.id] # None,
           UNCHANGED <<prefetched, hungup, issuer, request_id>>
    PROVE  /\ Known' /\ Fresh' /\ OneBlank' /\ Answered'
           /\ \A i \in Ids : requests'[i] # None => requests'[i] = issuer'[i]
           /\ \A i \in Ids : replies'[i] # 0 => issuer'[i] # None
           /\ \A c \in Clients : \A i \in enqueued'[c] : issuer'[i] = c
           /\ \A i \in interrupt' : issuer'[i] # None
           /\ WritableHasSession' /\ Findable' /\ InterruptedNotAwaited'
           /\ \A c \in Clients, i \in Ids : Awaits(c, i)' => Awaits(c, i)
<1>0. /\ None \notin Clients
      /\ info.id \in Ids
  BY ServerAssumption DEF Infos
<1> USE DEF DequeueEffect
<1>1. Known'
  BY <1>0 DEF IInv, TypeOK, Known, ConnEffect
<1>2. Fresh'
  BY DEF IInv, Fresh
<1>3. OneBlank'
  BY DEF IInv, TypeOK, OneBlank, OneBlankAt, ConnEffect
<1>4. Answered'
  BY <1>0 DEF IInv, TypeOK, Answered, ConnEffect, RequestEffect
<1>5. /\ \A i \in Ids : requests'[i] # None => requests'[i] = issuer'[i]
      /\ \A i \in Ids : replies'[i] # 0 => issuer'[i] # None
      /\ \A c \in Clients : \A i \in enqueued'[c] : issuer'[i] = c
  <2>1. ASSUME NEW i \in Ids
        PROVE  /\ requests'[i] # None => requests'[i] = issuer'[i]
               /\ replies'[i] # 0 => issuer'[i] # None
    BY DEF IInv, Owned, RequestEffect
  <2>2. ASSUME NEW c \in Clients, NEW i \in enqueued'[c]
        PROVE  issuer'[i] = c
    BY DEF IInv, Owned, ConnEffect
  <2> QED
    BY <2>1, <2>2
<1>6. ASSUME NEW i \in interrupt'
      PROVE  issuer'[i] # None
  <2>1. CASE i \in interrupt
    BY <2>1 DEF IInv, Owned
  <2>2. CASE i \in pub
    BY <2>2
  <2>3. CASE \E c \in Clients : i \in enqueued[c]
    BY <1>0, <2>3 DEF IInv, Owned
  <2> QED
    BY <2>1, <2>2, <2>3
<1>7. WritableHasSession'
  BY <1>0 DEF IInv, TypeOK, WritableHasSession, ConnEffect, RequestEffect
<1>8. ASSUME NEW c \in Clients, NEW i \in Ids, Awaits(c, i)'
      PROVE  Awaits(c, i) /\ requests[i] = c
  <2>1. replies[i] = 0
    BY <1>8 DEF Awaits, IInv, TypeOK, RequestEffect
  <2>2. issuer[i] = c /\ pipe[c] = "up" /\ c \notin hungup
    BY <1>8 DEF Awaits, ConnEffect
  <2> QED
    BY <2>1, <2>2 DEF Awaits, IInv, Findable
<1>9. ASSUME NEW c \in Clients, NEW i \in Ids, Awaits(c, i)'
      PROVE  requests'[i] = c
  <2>1. requests[i] = c /\ replies'[i] = 0 /\ replies[i] = 0 /\ pipe'[c] = "up"
    BY <1>8, <1>9 DEF Awaits
  <2>2. requests'[i] = requests[i] \/ i = info.id
    BY DEF RequestEffect
  <2> QED
    BY <1>0, <2>1, <2>2
<1>10. ASSUME NEW c \in Clients, NEW i \in interrupt', Awaits(c, i)'
       PROVE  FALSE
  <2>1. i \in Ids /\ Awaits(c, i) /\ requests[i] = c /\ issuer[i] = c
    BY <1>8, <1>10 DEF Awaits
  <2>2. CASE i \in interrupt
    BY <2>1, <2>2 DEF IInv, InterruptedNotAwaited
  <2>3. CASE i \in pub
    BY <1>0, <1>10, <2>1, <2>3 DEF Awaits, IInv, TypeOK
  <2>4. CASE \E d \in Clients : i \in enqueued[d] /\ pipe'[d] # "up"
    BY <1>10, <2>1, <2>4 DEF Awaits, IInv, Owned
  <2> QED
    BY <2>2, <2>3, <2>4
<1> QED
  BY <1>1, <1>2, <1>3, <1>4, <1>5, <1>6, <1>7, <1>8, <1>9, <1>10 DEF InterruptedNotAwaited, Findable
-----------------------------------------------------------------------------
(* One step per action: first the environment's.                            *)

\* Steps of the clients and of their connections preserve the invariant.
LEMMA ConnectionSteps ==
    ASSUME IInv, NEW c \in Clients,
           Connect(c) \/ HangUp(c) \/ PipeStep(c)
             \/ \E m \in Messages \ {Blank} : ClientSends(c, m)
    PROVE  IInv'
<1>0. None \notin Clients
  BY ServerAssumption
<1> USE DEF server, tables, work, ghosts
<1>1. CASE Connect(c)
  <2>1. TypeOK'
    BY <1>1 DEF Connect, IInv, TypeOK, PipeStates, Messages
  <2>2. \A d \in Clients : d # c => pipe'[d] = pipe[d] /\ inbox'[d] = inbox[d]
    BY <1>1 DEF Connect, IInv, TypeOK
  <2>3. /\ pipe[c] = "none" /\ pipe'[c] = "up" /\ inbox'[c] = <<Blank>>
        /\ c \notin sessions /\ prefetched.from # c
        /\ \A i \in Ids : issuer[i] # c /\ requests[i] # c
    BY <1>0, <1>1 DEF Connect, IInv, TypeOK, Known, Owned
  <2>4. Known'
    BY <1>0, <1>1, <2>2, <2>3 DEF Connect, IInv, TypeOK, Known
  <2>5. OneBlank'
    BY <1>1, <2>2, <2>3 DEF Connect, IInv, OneBlank, OneBlankAt
  <2>6. Stages'
    BY <1>1, <2>2, <2>3 DEF Connect, IInv, Stages
  <2>7. Fresh' /\ Owned'
    BY <1>1 DEF Connect, IInv, Fresh, Owned
  <2>8. Answered' /\ WritableHasSession'
    BY <1>0, <1>1, <2>2, <2>3 DEF Connect, IInv, TypeOK, Answered, WritableHasSession
  <2>9. \A d \in Clients, i \in Ids : Awaits(d, i)' => Awaits(d, i)
    <3> SUFFICES ASSUME NEW i \in Ids, Awaits(c, i)'
                 PROVE  FALSE
      BY <1>1, <2>2 DEF Connect, Awaits
    <3>1. issuer[i] = c /\ replies[i] = 0
      BY <1>1 DEF Connect, Awaits
    <3> QED
      BY <2>3, <3>1
  <2> QED
    BY <1>1, <2>1, <2>4, <2>5, <2>6, <2>7, <2>8, <2>9, FewerAwaited DEF Connect, IInv
<1>2. CASE HangUp(c)
  <2>1. TypeOK'
    BY <1>2 DEF HangUp, IInv, TypeOK, Messages
  <2>2. Known' /\ OneBlank' /\ Stages'
    BY <1>0, <1>2 DEF HangUp, IInv, TypeOK, Known, OneBlank, OneBlankAt, Stages
  <2>3. Fresh' /\ Owned' /\ Answered' /\ WritableHasSession'
    BY <1>2 DEF HangUp, IInv, Fresh, Owned, Answered, WritableHasSession
  <2>4. \A d \in Clients, i \in Ids : Awaits(d, i)' => Awaits(d, i)
    BY <1>2 DEF HangUp, Awaits
  <2> QED
    BY <1>2, <2>1, <2>2, <2>3, <2>4, FewerAwaited DEF HangUp, IInv
<1>3. CASE PipeStep(c)
  <2>1. PICK p \in Reach(c, pipe[c]) : pipe' = [pipe EXCEPT ![c] = p]
    BY <1>3 DEF PipeStep
  <2>2. /\ p \in PipeStates
        /\ p = "up" => pipe[c] = "up"
        /\ p = "none" <=> pipe[c] = "none"
    BY <2>1, ReachFacts DEF IInv, TypeOK
  <2>3. TypeOK'
    BY <1>3, <2>1, <2>2 DEF PipeStep, IInv, TypeOK
  <2>4. \A d \in Clients : /\ pipe'[d] = "up" => pipe[d] = "up"
                           /\ pipe'[d] = "none" <=> pipe[d] = "none"
    BY <2>1, <2>2 DEF IInv, TypeOK
  <2>5. Known' /\ OneBlank' /\ Stages'
    BY <1>3, <2>4 DEF PipeStep, IInv, TypeOK, Known, OneBlank, OneBlankAt, Stages
  <2>6. Fresh' /\ Owned' /\ Answered' /\ WritableHasSession'
    BY <1>3, <2>4 DEF PipeStep, IInv, TypeOK, Fresh, Owned, Answered, WritableHasSession
  <2>7. \A d \in Clients, i \in Ids : Awaits(d, i)' => Awaits(d, i)
    BY <1>3, <2>4 DEF PipeStep, Awaits
  <2> QED
    BY <1>3, <2>3, <2>5, <2>6, <2>7, FewerAwaited DEF PipeStep, IInv
<1>4. CASE \E m \in Messages \ {Blank} : ClientSends(c, m)
  <2>1. PICK m \in Messages \ {Blank} : ClientSends(c, m)
    BY <1>4
  <2>2. Cost(m) \in Nat
    BY <2>1, ServerAssumption DEF Cost, Messages, Malformed, Data, Blank
  <2>3. TypeOK'
    BY <2>1, <2>2 DEF ClientSends, IInv, TypeOK
  <2>4. Known' /\ Stages'
    BY <1>0, <2>1 DEF ClientSends, IInv, TypeOK, Known, Stages
  <2>5. OneBlank'
    <3> SUFFICES ASSUME NEW d \in Clients, pipe[d] = "up", d \notin hungup
                 PROVE  OneBlankAt(d)'
      BY <2>1 DEF OneBlank, OneBlankAt, ClientSends
    <3>1. CASE d # c
      BY <2>1, <3>1 DEF ClientSends, IInv, TypeOK, OneBlank, OneBlankAt
    <3>2. CASE d = c
      <4>1. inbox[c] \in Seq(Messages) /\ inbox'[c] = Append(inbox[c], m)
        BY <2>1 DEF ClientSends, IInv, TypeOK
      <4>2. \A n \in DOMAIN inbox'[c] : \/ n \in DOMAIN inbox[c] /\ inbox'[c][n] = inbox[c][n]
                                        \/ inbox'[c][n] = m
        BY <4>1
      <4> QED
        BY <2>1, <3>2, <4>2 DEF ClientSends, IInv, OneBlank, OneBlankAt
    <3> QED
      BY <3>1, <3>2
  <2>6. /\ Fresh' /\ Owned' /\ Answered' /\ WritableHasSession'
        /\ Findable' /\ Remembered' /\ InterruptedNotAwaited'
    BY <2>1 DEF ClientSends, IInv, Fresh, Owned, Answered, WritableHasSession, Findable,
                Remembered, InterruptedNotAwaited, Awaits, InHistory
  <2> QED
    BY <2>3, <2>4, <2>5, <2>6 DEF IInv
<1> QED
  BY <1>1, <1>2, <1>3, <1>4
\* Steps of the backend, of the clock and of the signal handler preserve it.
LEMMA OutsideSteps ==
    ASSUME IInv,
           \/ \E info \in proxy : BackendDrop(info)
           \/ \E info \in proxy, blank \in BOOLEAN : BackendResult(info, blank)
           \/ Tick
           \/ Shutdown
    PROVE  IInv'
<1> USE DEF server, tables, conns, ghosts, work
<1>1. CASE \E info \in proxy : BackendDrop(info)
  <2>1. TypeOK' /\ Stages'
    BY <1>1 DEF BackendDrop, IInv, TypeOK, Stages
  <2> QED
    BY <1>1, <2>1, Frame DEF BackendDrop, IInv, TypeOK
<1>2. CASE \E info \in proxy, blank \in BOOLEAN : BackendResult(info, blank)
  <2>1. PICK info \in proxy, blank \in BOOLEAN : BackendResult(info, blank)
    BY <1>2
  <2>2. [info |-> info, blank |-> blank] \in [info : Infos, blank : BOOLEAN]
    BY DEF IInv, TypeOK
  <2>3. TypeOK'
    BY <2>1, <2>2 DEF BackendResult, IInv, TypeOK
  <2>4. Len(loopback') = Len(loopback) + 1 /\ Len(loopback) \in Nat
    BY <2>1, <2>2 DEF BackendResult, IInv, TypeOK
  <2>5. Stages'
    <3>1. loopback' # <<>>
      BY <2>4
    <3> QED
      BY <2>1, <3>1 DEF BackendResult, IInv, Stages
  <2> QED
    BY <2>1, <2>3, <2>5, Frame DEF BackendResult, IInv, TypeOK
<1>3. CASE Tick
  <2>1. TypeOK' /\ Stages'
    BY <1>3 DEF Tick, IInv, TypeOK, Stages
  <2> QED
    BY <1>3, <2>1, Frame DEF Tick, IInv, TypeOK
<1>4. CASE Shutdown
  <2>1. TypeOK' /\ Stages'
    BY <1>4 DEF Shutdown, IInv, TypeOK, Stages
  <2> QED
    BY <1>4, <2>1, Frame DEF Shutdown, IInv, TypeOK
<1> QED
  BY <1>1, <1>2, <1>3, <1>4

-----------------------------------------------------------------------------
(* The steps of serve().                                                    *)

\* Stages that only move on, or use up an id, preserve the invariant.
LEMMA QuietSteps ==
    ASSUME IInv,
           \/ Return \/ IgnoreUnknown \/ ParseData \/ EnqueueFails \/ MatcherThrows
           \/ EnqueueDone \/ TimeoutsDone
    PROVE  IInv'
<1> USE DEF server, tables, conns, ghosts, work
<1>0. None \notin Clients /\ NoMessage \in [from : Clients \cup {None}, msg : Messages]
  BY ServerAssumption DEF NoMessage, Messages
<1>1. CASE Return
  <2>1. TypeOK' /\ Stages'
    BY <1>1 DEF Return, IInv, TypeOK, Stages
  <2> QED
    BY <1>1, <2>1, Frame DEF Return, IInv, TypeOK
<1>2. CASE IgnoreUnknown
  <2>1. TypeOK' /\ Stages'
    BY <1>0, <1>2 DEF IgnoreUnknown, IInv, TypeOK, Stages
  <2> QED
    BY <1>2, <2>1, Frame DEF IgnoreUnknown, IInv, TypeOK
<1>3. CASE ParseData
  <2>1. prefetched.msg.reqs \in Seq([keep : BOOLEAN, health : BOOLEAN])
    BY <1>3, ServerAssumption
    DEF ParseData, IInv, TypeOK, Messages, Data, Blank, Malformed
  <2>2. TypeOK'
    BY <1>0, <1>3, <2>1 DEF ParseData, IInv, TypeOK
  <2>3. Stages'
    BY <1>3 DEF ParseData, IInv, TypeOK, Stages, Known
  <2> QED
    BY <1>3, <2>2, <2>3, Frame DEF ParseData, IInv, TypeOK
<1>4. CASE EnqueueFails
  <2>1. TypeOK' /\ Stages'
    BY <1>4 DEF EnqueueFails, IInv, TypeOK, Stages
  <2> QED
    BY <1>4, <2>1, Frame DEF EnqueueFails, IInv, TypeOK
<1>5. CASE EnqueueDone
  <2>1. TypeOK' /\ Stages'
    BY <1>5 DEF EnqueueDone, IInv, TypeOK, Stages
  <2> QED
    BY <1>5, <2>1, Frame DEF EnqueueDone, IInv, TypeOK
<1>6. CASE TimeoutsDone
  <2>1. TypeOK' /\ Stages'
    BY <1>6 DEF TimeoutsDone, IInv, TypeOK, Stages
  <2> QED
    BY <1>6, <2>1, Frame DEF TimeoutsDone, IInv, TypeOK
<1>7. CASE MatcherThrows
  <2>1. TypeOK' /\ Stages'
    BY <1>7 DEF MatcherThrows, IInv, TypeOK, Stages
  <2> QED
    BY <1>7, <2>1, Frame DEF MatcherThrows, IInv, TypeOK
<1> QED
  BY <1>1, <1>2, <1>3, <1>4, <1>5, <1>6, <1>7

\* zmq::poll preserves it: the first message of a pipe moves to the server.
LEMMA PollStep ==
    ASSUME IInv, Poll
    PROVE  IInv'
<1> USE DEF tables, ghosts, work
<1>1. CASE UNCHANGED <<prefetched, inbox>> /\ pc' = IF loopback # <<>> THEN "result" ELSE "timeouts"
  <2>1. TypeOK' /\ Stages'
    BY <1>1 DEF Poll, IInv, TypeOK, Stages
  <2> QED
    BY <1>1, <2>1, Frame DEF Poll, IInv, TypeOK, conns
<1>2. ASSUME NEW c \in Clients, inbox[c] # <<>>,
             prefetched' = [from |-> c, msg |-> Head(inbox[c])],
             inbox' = [inbox EXCEPT ![c] = Tail(@)],
             pc' = IF loopback # <<>> THEN "result" ELSE "client"
      PROVE  IInv'
  <2>0. None \notin Clients
    BY ServerAssumption
  <2>1. /\ inbox[c] \in Seq(Messages) /\ Head(inbox[c]) \in Messages
        /\ inbox'[c] = Tail(inbox[c]) /\ inbox'[c] \in Seq(Messages)
        /\ \A n \in DOMAIN inbox'[c] : n + 1 \in DOMAIN inbox[c] /\ n + 1 > 1
                                         /\ inbox'[c][n] = inbox[c][n + 1]
        /\ 1 \in DOMAIN inbox[c] /\ Head(inbox[c]) = inbox[c][1]
    BY <1>2 DEF IInv, TypeOK
  <2>2. TypeOK'
    BY <1>2, <2>1 DEF Poll, IInv, TypeOK
  <2>3. Known'
    BY <1>2, <2>0 DEF Poll, IInv, TypeOK, Known
  <2>4. Stages'
    BY <1>2, <2>0 DEF Poll, IInv, TypeOK, Stages
  <2>5. OneBlank'
    <3> SUFFICES ASSUME NEW d \in Clients
                 PROVE  OneBlankAt(d)'
      BY DEF OneBlank
    <3>1. CASE d # c
      BY <1>2, <3>1 DEF Poll, IInv, TypeOK, OneBlank, OneBlankAt
    <3>2. CASE d = c
      BY <1>2, <2>1, <3>2 DEF Poll, IInv, OneBlank, OneBlankAt
    <3> QED
      BY <3>1, <3>2
  <2>6. Fresh' /\ Owned' /\ Answered' /\ WritableHasSession'
    BY DEF Poll, IInv, Fresh, Owned, Answered, WritableHasSession
  <2>7. Findable' /\ Remembered' /\ InterruptedNotAwaited'
    BY DEF Poll, IInv, Findable, Remembered, InterruptedNotAwaited, Awaits, InHistory
  <2> QED
    BY <2>2, <2>3, <2>4, <2>5, <2>6, <2>7 DEF IInv
<1> QED
  BY <1>1, <1>2 DEF Poll
\* handle_request: a connection opens its session or ends it.
LEMMA SessionSteps ==
    ASSUME IInv, OpenSession \/ EndSession
    PROVE  IInv'
<1>0. None \notin Clients /\ NoMessage \in [from : Clients \cup {None}, msg : Messages]
      /\ NoMessage.from = None
  BY ServerAssumption DEF NoMessage, Messages
<1> DEFINE c == prefetched.from
<1>1. CASE OpenSession
  <2>1. c \in Clients /\ c \notin sessions /\ prefetched.msg = Blank
        /\ sessions' = sessions \cup {c} /\ prefetched' = NoMessage
    BY <1>1 DEF OpenSession, IInv, Stages
  <2>2. TypeOK' /\ Known' /\ Stages'
    BY <1>0, <1>1, <2>1 DEF OpenSession, IInv, TypeOK, Known, Stages, conns, work, ghosts
  <2>3. OneBlank'
    BY <1>0, <1>1, <2>1 DEF OpenSession, IInv, TypeOK, OneBlank, OneBlankAt, conns
  <2>4. Fresh' /\ Owned' /\ Answered' /\ WritableHasSession'
    BY <1>1 DEF OpenSession, IInv, Fresh, Owned, Answered, WritableHasSession, conns, work, ghosts
  <2>5. Findable' /\ Remembered' /\ InterruptedNotAwaited'
    BY <1>1 DEF OpenSession, IInv, Findable, Remembered, InterruptedNotAwaited, Awaits,
                InHistory, conns, work, ghosts
  <2> QED
    BY <2>2, <2>3, <2>4, <2>5 DEF IInv
<1>2. CASE EndSession
  <2>1. /\ c \in Clients /\ c \in sessions /\ prefetched.msg = Blank
        /\ sessions' = sessions \ {c} /\ prefetched' = NoMessage
        /\ requests' = Forget(c)
        /\ interrupt' = interrupt \cup enqueued[c]
        /\ enqueued' = [enqueued EXCEPT ![c] = {}]
        /\ pc = "client" /\ pc' = "timeouts"
    BY <1>2 DEF EndSession, IInv, Stages
  <2>2. \A i \in Ids : requests'[i] = IF i \in enqueued[c] THEN None ELSE requests[i]
    BY <2>1 DEF Forget
  <2>3. TypeOK'
    BY <1>0, <1>2, <2>1 DEF EndSession, IInv, TypeOK, Forget, conns, ghosts
  <2>4. Known' /\ Stages'
    BY <1>0, <1>2, <2>1 DEF EndSession, IInv, TypeOK, Known, Stages, conns, ghosts
  <2>5. OneBlank' /\ (pipe[c] = "up" => c \in hungup)
    BY <1>0, <1>2, <2>1 DEF EndSession, IInv, TypeOK, OneBlank, OneBlankAt, conns
  <2>6. Fresh'
    BY <1>2 DEF EndSession, IInv, Fresh, ghosts
  <2>7. Owned'
    <3>1. \A i \in enqueued[c] : issuer[i] # None
      BY <1>0, <2>1 DEF IInv, Owned
    <3>2. \A d \in Clients : \A i \in enqueued'[d] : i \in enqueued[d]
      BY <2>1 DEF IInv, TypeOK
    <3> QED
      BY <1>2, <2>1, <2>2, <3>1, <3>2 DEF EndSession, IInv, Owned, ghosts
  <2>8. Answered'
    BY <1>2, <2>2 DEF EndSession, IInv, Answered, conns, ghosts
  <2>9. WritableHasSession'
    BY <1>0, <1>2, <2>1, <2>2 DEF EndSession, IInv, TypeOK, WritableHasSession, conns
  <2>10. \A d \in Clients, i \in Ids : Awaits(d, i)' => Awaits(d, i) /\ d # c
    BY <1>2, <2>5 DEF EndSession, Awaits, conns, ghosts
  <2>11. \A d \in Clients, i \in Ids : Awaits(d, i)' => i \notin enqueued[c]
    BY <2>1, <2>10 DEF Awaits, IInv, Owned
  <2>12. Findable' /\ InterruptedNotAwaited'
    BY <2>1, <2>2, <2>10, <2>11 DEF IInv, TypeOK, Findable, InterruptedNotAwaited
  <2>13. Remembered'
    BY <1>2, <2>1, <2>10 DEF EndSession, IInv, Remembered, InHistory
  <2> QED
    BY <2>3, <2>4, <2>5, <2>6, <2>7, <2>8, <2>9, <2>12, <2>13 DEF IInv
<1> QED
  BY <1>1, <1>2

\* enqueue: a malformed message is refused, then its connection is closed.
LEMMA RejectSteps ==
    ASSUME IInv, RejectData \/ CloseRejected
    PROVE  IInv'
<1>0. None \notin Clients /\ NoMessage \in [from : Clients \cup {None}, msg : Messages]
      /\ NoMessage.from = None
  BY ServerAssumption DEF NoMessage, Messages
<1>1. CASE RejectData
  <2> DEFINE c == prefetched.from
  <2>1. c \in Clients /\ c \in sessions /\ pipe[c] \in PipeStates /\ pc = "client"
        /\ pipe[c] # "none"
    BY <1>1 DEF RejectData, IInv, TypeOK, Stages, Known
  <2>2. PICK p \in Reach(c, pipe[c]) :
          /\ pipe' = [pipe EXCEPT ![c] = p]
          /\ \/ pc' = "timeouts" /\ UNCHANGED <<cur, request_id>>
             \/ pc' = "reject" /\ cur' = c /\ request_id' = request_id + 1
    BY <1>1 DEF RejectData
  <2>3. /\ p \in PipeStates
        /\ p = "up" => pipe[c] = "up"
        /\ p # "none"
    BY <2>1, <2>2, ReachFacts
  <2>4. /\ \A d \in Clients : /\ pipe'[d] = "up" => pipe[d] = "up"
                              /\ pipe'[d] = "none" <=> pipe[d] = "none"
        /\ request_id' \in Nat /\ request_id' >= request_id
        /\ prefetched' = NoMessage
    BY <1>1, <2>1, <2>2, <2>3 DEF RejectData, IInv, TypeOK
  <2>5. TypeOK'
    BY <1>0, <1>1, <2>1, <2>2, <2>3 DEF RejectData, IInv, TypeOK, work, ghosts
  <2>6. Known' /\ OneBlank'
    BY <1>0, <1>1, <2>4 DEF RejectData, IInv, TypeOK, Known, OneBlank, OneBlankAt, ghosts
  <2>7. Stages'
    BY <1>0, <1>1, <2>1, <2>2, <2>4 DEF RejectData, IInv, Stages
  <2>8. Fresh'
    BY <1>1, <2>4 DEF RejectData, IInv, TypeOK, Fresh, Ids, ghosts
  <2>9. Owned'
    BY <1>1 DEF RejectData, IInv, Owned, ghosts, work
  <2>10. Answered' /\ WritableHasSession'
    BY <1>1, <2>4 DEF RejectData, IInv, TypeOK, Answered, WritableHasSession, ghosts
  <2>11. \A d \in Clients, i \in Ids : Awaits(d, i)' => Awaits(d, i)
    BY <1>1, <2>4 DEF RejectData, Awaits, ghosts
  <2>12. Findable' /\ InterruptedNotAwaited'
    BY <1>1, <2>11 DEF RejectData, IInv, TypeOK, Findable, InterruptedNotAwaited, work
  <2>13. Remembered'
    BY <1>1, <2>1, <2>11 DEF RejectData, IInv, Remembered, InHistory
  <2> QED
    BY <2>5, <2>6, <2>7, <2>8, <2>9, <2>10, <2>12, <2>13 DEF IInv
<1>2. CASE CloseRejected
  <2>1. cur \in Clients /\ pipe[cur] \in PipeStates /\ pipe[cur] # "none" /\ pc = "reject"
        /\ (pipe[cur] = "up" => cur \in sessions)
    BY <1>2 DEF CloseRejected, IInv, TypeOK, Stages
  <2>2. PICK p \in PipeStates :
        /\ p # "up" /\ p # "none"
        /\ \/ p = "closing" /\ sessions' = sessions \ {cur}
               /\ enqueued' = [enqueued EXCEPT ![cur] = {}]
               /\ interrupt' = interrupt \cup enqueued[cur]
               /\ pipe' = [pipe EXCEPT ![cur] = p]
           \/ UNCHANGED <<sessions, enqueued, interrupt>>
        /\ \/ pipe' = [pipe EXCEPT ![cur] = p]
               /\ inbox' = IF p = "closing" THEN [inbox EXCEPT ![cur] = <<>>] ELSE inbox
           \/ UNCHANGED <<pipe, inbox>>
        /\ pc' \in {"timeouts", "undefined"}
    BY <1>2, <2>1, ReachFacts DEF CloseRejected, Closed, Writable, PipeStates
  <2>3. /\ pipe' \in [Clients -> PipeStates]
        /\ inbox' \in [Clients -> Seq(Messages)]
        /\ enqueued' \in [Clients -> SUBSET Ids]
        /\ interrupt' \in SUBSET Ids
        /\ sessions' \in SUBSET sessions
        /\ \A d \in Clients : ConnEffect(d)
        /\ \A i \in interrupt' : \/ i \in interrupt
                                 \/ \E d \in Clients : i \in enqueued[d] /\ pipe'[d] # "up"
        /\ pc' \in {"timeouts", "undefined"}
    <3>1. /\ pipe' \in [Clients -> PipeStates]
          /\ inbox' \in [Clients -> Seq(Messages)]
          /\ enqueued' \in [Clients -> SUBSET Ids]
          /\ interrupt' \in SUBSET Ids
          /\ sessions' \in SUBSET sessions
      <4>1. pipe' \in [Clients -> PipeStates]
        BY <2>2 DEF IInv, TypeOK
      <4>2. inbox' \in [Clients -> Seq(Messages)]
        <5>1. inbox' = inbox \/ inbox' = [inbox EXCEPT ![cur] = <<>>]
          BY <2>2
        <5>2. inbox \in [Clients -> Seq(Messages)] /\ <<>> \in Seq(Messages)
          BY DEF IInv, TypeOK
        <5> QED
          BY <5>1, <5>2
      <4>3. sessions' \in SUBSET sessions
        BY <2>2
      <4>4. interrupt' \in SUBSET Ids /\ enqueued' \in [Clients -> SUBSET Ids]
        BY <2>1, <2>2 DEF IInv, TypeOK
      <4> QED
        BY <4>1, <4>2, <4>3, <4>4
    <3>2. ASSUME NEW d \in Clients
          PROVE  ConnEffect(d)
      BY <2>1, <2>2 DEF IInv, TypeOK, ConnEffect
    <3>3. \A i \in interrupt' : \/ i \in interrupt
                                \/ \E d \in Clients : i \in enqueued[d] /\ pipe'[d] # "up"
      BY <2>1, <2>2 DEF IInv, TypeOK
    <3> QED
      BY <2>2, <3>1, <3>2, <3>3
  <2>4. TypeOK'
    BY <1>2, <2>3 DEF CloseRejected, IInv, TypeOK, ghosts
  <2>5. Known' /\ OneBlank'
    BY <1>0, <1>2, <2>3 DEF CloseRejected, IInv, TypeOK, Known, OneBlank, OneBlankAt, ConnEffect, ghosts
  <2>6. Stages' /\ Fresh'
    BY <1>2, <2>3 DEF CloseRejected, IInv, Stages, Fresh, ghosts
  <2>7. Owned'
    BY <1>0, <1>2, <2>3 DEF CloseRejected, IInv, Owned, ConnEffect, ghosts
  <2>8. Answered' /\ WritableHasSession'
    BY <1>0, <1>2, <2>3 DEF CloseRejected, IInv, TypeOK, Answered, WritableHasSession, ConnEffect, ghosts
  <2>9. \A d \in Clients, i \in Ids : Awaits(d, i)' => Awaits(d, i) /\ pipe'[d] = "up" /\ issuer[i] = d
    BY <1>2, <2>3 DEF CloseRejected, ConnEffect, Awaits, ghosts
  <2>10. Findable' /\ Remembered'
    BY <1>2, <2>1, <2>9 DEF CloseRejected, IInv, Findable, Remembered, InHistory
  <2>11. InterruptedNotAwaited'
    BY <2>3, <2>9 DEF IInv, TypeOK, InterruptedNotAwaited, Owned
  <2> QED
    BY <2>4, <2>5, <2>6, <2>7, <2>8, <2>10, <2>11 DEF IInv
<1> QED
  BY <1>1, <1>2
\* enqueue: a request is given a fresh id and recorded everywhere.
LEMMA EnqueueStep ==
    ASSUME IInv, EnqueueOne
    PROVE  IInv'
<1> DEFINE r == Head(pending)
           i == request_id
           info == InfoOf(r)
<1>0. None \notin Clients
  BY ServerAssumption
<1>1. /\ pc = "enqueue" /\ cur \in Clients /\ pipe[cur] # "none"
      /\ pipe[cur] = "up" => cur \in sessions
      /\ i \in Ids /\ info \in Infos /\ info.id = i
      /\ r \in [keep : BOOLEAN, health : BOOLEAN]
      /\ Tail(pending) \in Seq([keep : BOOLEAN, health : BOOLEAN])
      /\ request_id' = request_id + 1
      /\ issuer[i] = None /\ requests[i] = None /\ replies[i] = 0 /\ i \notin interrupt
      /\ \A n \in DOMAIN request_history : request_history[n].id # i
      /\ proxy' \in SUBSET Infos
  <2>1. /\ pc = "enqueue" /\ pending # <<>> /\ request_id < MaxRequests
        /\ request_id' = request_id + 1
        /\ proxy' = proxy \/ proxy' = proxy \cup {info}
    BY DEF EnqueueOne
  <2>2. /\ r \in [keep : BOOLEAN, health : BOOLEAN]
        /\ Tail(pending) \in Seq([keep : BOOLEAN, health : BOOLEAN])
    BY <2>1, HeadTail DEF IInv, TypeOK
  <2>3. i \in Ids /\ info \in Infos /\ info.id = i
    BY <2>1, <2>2, ServerAssumption DEF IInv, TypeOK, Ids, InfoOf, Infos
  <2>4. /\ cur \in Clients /\ pipe[cur] # "none"
        /\ pipe[cur] = "up" => cur \in sessions
    BY <2>1 DEF IInv, Stages
  <2>5. issuer[i] = None
    BY <2>3 DEF IInv, TypeOK, Fresh
  <2>6. /\ requests[i] = None /\ replies[i] = 0 /\ i \notin interrupt
        /\ \A n \in DOMAIN request_history : request_history[n].id # i
    BY <2>3, <2>5 DEF IInv, Owned
  <2>7. proxy' \in SUBSET Infos
    BY <2>1, <2>3 DEF IInv, TypeOK
  <2> QED
    BY <2>1, <2>2, <2>3, <2>4, <2>5, <2>6, <2>7
<1> HIDE DEF i, info, r
<1>2. CASE UNCHANGED <<pending, enqueued, requests, request_history, issuer>> /\ pc' = "undefined"
  <2>1. TypeOK' /\ Stages'
    BY <1>1, <1>2 DEF EnqueueOne, IInv, TypeOK, Stages, conns
  <2> QED
    <3>1. /\ UNCHANGED <<sessions, enqueued, requests, request_history, conns, interrupt,
                         issuer, replies>>
          /\ prefetched' = prefetched /\ pc # "terminated"
          /\ request_id' \in Nat /\ request_id' >= request_id
      BY <1>1, <1>2 DEF EnqueueOne, IInv, TypeOK, conns
    <3> QED
      BY <2>1, <3>1, Frame DEF IInv
<1>3. CASE /\ enqueued' = IF cur \in sessions
                          THEN [enqueued EXCEPT ![cur] = @ \cup {info.id}]
                          ELSE enqueued
           /\ requests' = [requests EXCEPT ![info.id] = cur]
           /\ request_history' = Append(request_history, info)
           /\ issuer' = [issuer EXCEPT ![info.id] = cur]
           /\ pending' = Tail(pending)
           /\ pc' = IF r.health THEN "health" ELSE "enqueue"
  <2>1. TypeOK'
    <3>1. /\ pc' \in {"enqueue", "health"}
          /\ pending' \in Seq([keep : BOOLEAN, health : BOOLEAN])
          /\ proxy' \in SUBSET Infos /\ request_id' \in Nat
      BY <1>1, <1>3 DEF IInv, TypeOK
    <3>2. /\ enqueued' \in [Clients -> SUBSET Ids]
          /\ requests' \in [Ids -> Clients \cup {None}]
          /\ issuer' \in [Ids -> Clients \cup {None}]
      BY <1>1, <1>3 DEF IInv, TypeOK
    <3>3. request_history' \in Seq(Infos)
      BY <1>1, <1>3 DEF IInv, TypeOK
    <3>4. UNCHANGED <<prefetched, cur, sessions, age, conns, loopback, interrupt,
                      shutting_down, sent, replies>>
      BY DEF EnqueueOne
    <3> QED
      BY <3>1, <3>2, <3>3, <3>4 DEF IInv, TypeOK, conns
  <2>2. /\ request_history \in Seq(Infos)
        /\ Len(request_history') = Len(request_history) + 1 /\ Len(request_history) \in Nat
        /\ \A n \in DOMAIN request_history :
              n \in DOMAIN request_history' /\ request_history'[n] = request_history[n]
        /\ \A n \in DOMAIN request_history' : \/ n \in DOMAIN request_history
                                                 /\ request_history'[n] = request_history[n]
                                              \/ request_history'[n] = info
        /\ Len(request_history') \in DOMAIN request_history'
        /\ request_history'[Len(request_history')] = info
    BY <1>1, <1>3 DEF IInv, TypeOK
  <2>3. /\ pipe' = pipe /\ inbox' = inbox /\ hungup' = hungup /\ sessions' = sessions
        /\ prefetched' = prefetched /\ cur' = cur /\ replies' = replies
        /\ interrupt' = interrupt /\ loopback' = loopback
    BY DEF EnqueueOne, conns
  <2>4. /\ \A j \in Ids : j # i => requests'[j] = requests[j] /\ issuer'[j] = issuer[j]
        /\ requests'[i] = cur /\ issuer'[i] = cur
        /\ \A c \in Clients : enqueued'[c] \in SUBSET (enqueued[c] \cup {i})
        /\ \A c \in Clients : c # cur => enqueued'[c] = enqueued[c]
        /\ \A c \in Clients : enqueued[c] \in SUBSET enqueued'[c]
        /\ cur \in sessions => i \in enqueued'[cur]
    BY <1>1, <1>3 DEF IInv, TypeOK
  <2>5. Known' /\ OneBlank'
    <3>1. OneBlank'
      BY <2>3 DEF IInv, OneBlank, OneBlankAt
    <3>2. \A j \in Ids : issuer'[j] # None => pipe[issuer'[j]] # "none"
      BY <1>1, <2>4 DEF IInv, Known
    <3> QED
      BY <2>3, <3>1, <3>2 DEF IInv, Known
  <2>6. Stages'
    <3>1. request_history' # <<>>
      BY <2>2
    <3> QED
      BY <1>1, <1>3, <2>3, <3>1 DEF IInv, Stages
  <2>7. Fresh'
    BY <1>1, <2>4 DEF IInv, TypeOK, Fresh, Ids, i
  <2>8. Owned'
    <3>1. \A c \in Clients : \A j \in enqueued'[c] : issuer'[j] = c
      <4> SUFFICES ASSUME NEW c \in Clients, NEW j \in enqueued'[c]
                   PROVE  issuer'[j] = c
        OBVIOUS
      <4>1. CASE j = i
        <5>1. c = cur \/ i \in enqueued[c]
          BY <2>4, <4>1
        <5>2. i \notin enqueued[c]
          BY <1>0, <1>1 DEF IInv, Owned
        <5> QED
          BY <2>4, <4>1, <5>1, <5>2
      <4>2. CASE j # i
        <5>1. j \in enqueued[c] /\ j \in Ids
          BY <2>4, <4>2 DEF IInv, TypeOK
        <5> QED
          BY <2>4, <4>2, <5>1 DEF IInv, Owned
      <4> QED
        BY <4>1, <4>2
    <3>2. \A n \in DOMAIN request_history' : issuer'[request_history'[n].id] # None
      <4>1. \A n \in DOMAIN request_history :
              request_history[n] \in Infos /\ request_history[n].id \in Ids
        <5>1. \A n \in DOMAIN request_history : request_history[n] \in Infos
          BY <2>2
        <5> QED
          BY <5>1 DEF Infos
      <4>2. \A n \in DOMAIN request_history : issuer'[request_history[n].id] # None
        BY <1>1, <2>4, <4>1 DEF IInv, Owned
      <4> QED
        BY <1>0, <1>1, <2>2, <2>4, <4>2
    <3>3. \A j \in interrupt' : issuer'[j] # None
      BY <1>1, <2>3, <2>4 DEF IInv, TypeOK, Owned
    <3>4. \A j \in Ids : /\ requests'[j] # None => requests'[j] = issuer'[j]
                         /\ replies'[j] # 0 => issuer'[j] # None
      BY <1>0, <1>1, <2>3, <2>4 DEF IInv, Owned
    <3> QED
      BY <3>1, <3>2, <3>3, <3>4 DEF Owned
  <2>9. Answered' /\ WritableHasSession'
    <3>1. Answered'
      BY <1>1, <2>3, <2>4 DEF IInv, Answered
    <3>2. ASSUME NEW j \in Ids, requests'[j] # None, pipe'[requests'[j]] = "up"
          PROVE  requests'[j] \in sessions' /\ j \in enqueued'[requests'[j]]
      <4>1. CASE j = i
        BY <1>1, <2>3, <2>4, <3>2, <4>1
      <4>2. CASE j # i
        <5>1. requests[j] \in Clients /\ requests[j] \in sessions /\ j \in enqueued[requests[j]]
          BY <2>3, <2>4, <3>2, <4>2 DEF IInv, TypeOK, WritableHasSession
        <5> QED
          BY <2>3, <2>4, <4>2, <5>1
      <4> QED
        BY <4>1, <4>2
    <3> QED
      BY <3>1, <3>2 DEF WritableHasSession
  <2>10. \A c \in Clients, j \in Ids :
           Awaits(c, j)' => (j = i /\ c = cur) \/ (j # i /\ Awaits(c, j))
    BY <1>1, <2>3, <2>4 DEF Awaits
  <2>11. Findable' /\ InterruptedNotAwaited'
    <3>1. Findable'
      BY <2>4, <2>10 DEF IInv, Findable
    <3>2. InterruptedNotAwaited'
      BY <1>1, <2>3, <2>10 DEF IInv, TypeOK, InterruptedNotAwaited
    <3> QED
      BY <3>1, <3>2
  <2>12. Remembered'
    BY <1>1, <2>2, <2>10 DEF IInv, Remembered, InHistory
  <2> QED
    BY <2>1, <2>5, <2>6, <2>7, <2>8, <2>9, <2>11, <2>12 DEF IInv
<1> QED
  BY <1>2, <1>3 DEF EnqueueOne, i, info, r
\* The three callers of dequeue.
LEMMA DequeueSteps ==
    ASSUME IInv, RecvResult \/ HealthReply \/ TimeoutOne
    PROVE  IInv'
<1>0. /\ None \notin Clients
      /\ {} \in SUBSET Ids
  BY ServerAssumption
<1>1. CASE RecvResult
  <2> DEFINE info == Head(loopback).info
             blank == Head(loopback).blank
  <2>1. /\ Head(loopback) \in [info : Infos, blank : BOOLEAN]
        /\ Tail(loopback) \in Seq([info : Infos, blank : BOOLEAN])
    BY <1>1, HeadTail DEF RecvResult, IInv, TypeOK, Stages
  <2>2. /\ info \in Infos /\ blank \in BOOLEAN /\ pc = "result"
        /\ Dequeue(info, blank, {}, AfterResult, AfterResult)
    BY <1>1, <2>1 DEF RecvResult
  <2> HIDE DEF info, blank
  <2>3. DequeueEffect(info, {}, AfterResult, AfterResult)
    BY <1>0, <2>2, DequeueFacts DEF IInv
  <2>4. UNCHANGED <<prefetched, hungup, issuer, request_id, request_history, cur, pending,
                    proxy, sent, age, shutting_down>> /\ loopback' = Tail(loopback)
    BY <1>1 DEF RecvResult
  <2>5. TypeOK'
    <3>1. pc' \in {"timeouts", "client", "undefined"}
      BY <2>3 DEF DequeueEffect, AfterResult
    <3> QED
      BY <2>1, <2>3, <2>4, <3>1 DEF IInv, TypeOK, DequeueEffect
  <2>6. Stages'
    BY <2>3, <2>4 DEF IInv, Stages, TypeOK, DequeueEffect, AfterResult
  <2>7. /\ Known' /\ Fresh' /\ OneBlank' /\ Answered' /\ Owned'
        /\ WritableHasSession' /\ Findable' /\ InterruptedNotAwaited'
        /\ \A c \in Clients, i \in Ids : Awaits(c, i)' => Awaits(c, i)
    BY <1>0, <2>2, <2>3, <2>4, DequeueKeeps DEF IInv, Owned
  <2>8. Remembered'
    BY <2>2, <2>4, <2>7 DEF IInv, Remembered, InHistory
  <2> QED
    BY <2>5, <2>6, <2>7, <2>8 DEF IInv
<1>2. CASE HealthReply
  <2> DEFINE info == request_history[Len(request_history)]
  <2>1. /\ info \in Infos /\ pc = "health"
        /\ Dequeue(info, FALSE, {}, "enqueue", "timeouts")
    BY <1>2, Elements DEF HealthReply, IInv, TypeOK, Stages
  <2> HIDE DEF info
  <2>2. DequeueEffect(info, {}, "enqueue", "timeouts")
    BY <1>0, <2>1, DequeueFacts DEF IInv
  <2>3. /\ UNCHANGED <<prefetched, hungup, issuer, request_id, request_history, cur,
                       proxy, loopback, sent, age, shutting_down>>
        /\ pending' = IF pc' = "enqueue" THEN pending ELSE <<>>
    BY <1>2 DEF HealthReply
  <2>4. TypeOK'
    <3>1. pc' \in {"enqueue", "timeouts", "undefined"}
      BY <2>2 DEF DequeueEffect
    <3>2. pending' \in Seq([keep : BOOLEAN, health : BOOLEAN])
      BY <2>3 DEF IInv, TypeOK
    <3> QED
      BY <2>2, <2>3, <3>1, <3>2 DEF IInv, TypeOK, DequeueEffect
  <2>5. Stages'
    <3>1. cur \in Clients /\ pipe[cur] # "none" /\ (pipe[cur] = "up" => cur \in sessions)
      BY <2>1 DEF IInv, Stages
    <3>2. pipe'[cur] # "none" /\ (pipe'[cur] = "up" => cur \in sessions')
      BY <2>2, <3>1 DEF DequeueEffect, ConnEffect
    <3>3. pc' \in {"enqueue", "timeouts", "undefined"}
      BY <2>2 DEF DequeueEffect
    <3> QED
      BY <2>3, <3>1, <3>2, <3>3 DEF IInv, Stages
  <2>6. /\ Known' /\ Fresh' /\ OneBlank' /\ Answered' /\ Owned'
        /\ WritableHasSession' /\ Findable' /\ InterruptedNotAwaited'
        /\ \A c \in Clients, i \in Ids : Awaits(c, i)' => Awaits(c, i)
    BY <1>0, <2>1, <2>2, <2>3, DequeueKeeps DEF IInv, Owned
  <2>7. Remembered'
    BY <2>1, <2>3, <2>6 DEF IInv, Remembered, InHistory
  <2> QED
    BY <2>4, <2>5, <2>6, <2>7 DEF IInv
<1>3. CASE TimeoutOne
  <2> DEFINE info == Head(request_history)
  <2>1. /\ info \in Infos /\ pc = "timeouts" /\ request_history # <<>>
        /\ Dequeue(info, FALSE, {info.id}, "timeouts", "terminated")
        /\ request_history' = IF pc' = "timeouts" THEN Tail(request_history) ELSE request_history
    BY <1>3, HeadTail DEF TimeoutOne, Expired, TimedOutId, PoppedHistory, IInv, TypeOK
  <2>2. /\ info.id \in Ids /\ {info.id} \in SUBSET Ids
        /\ info = request_history[1] /\ 1 \in DOMAIN request_history
        /\ Tail(request_history) \in Seq(Infos)
        /\ request_history' \in Seq(Infos)
        /\ \A n \in DOMAIN request_history :
              n # 1 => n - 1 \in DOMAIN Tail(request_history)
                       /\ Tail(request_history)[n - 1] = request_history[n]
        /\ \A n \in DOMAIN Tail(request_history) :
              n + 1 \in DOMAIN request_history /\ Tail(request_history)[n] = request_history[n + 1]
    BY <2>1, HeadTail, Elements, SMTT(30) DEF IInv, TypeOK, Infos
  <2>3. issuer[info.id] # None
    BY <2>2 DEF IInv, Owned
  <2> HIDE DEF info
  <2>4. DequeueEffect(info, {info.id}, "timeouts", "terminated")
    BY <2>1, <2>2, DequeueFacts DEF IInv
  <2>5. UNCHANGED <<prefetched, hungup, issuer, request_id, cur, pending,
                    proxy, loopback, sent, age, shutting_down>>
    BY <1>3 DEF TimeoutOne
  <2>6. TypeOK' /\ Stages'
    BY <2>1, <2>2, <2>4, <2>5 DEF IInv, TypeOK, Stages, DequeueEffect
  <2>7. /\ Known' /\ Fresh' /\ OneBlank' /\ Answered'
        /\ \A i \in Ids : requests'[i] # None => requests'[i] = issuer'[i]
        /\ \A i \in Ids : replies'[i] # 0 => issuer'[i] # None
        /\ \A c \in Clients : \A i \in enqueued'[c] : issuer'[i] = c
        /\ \A i \in interrupt' : issuer'[i] # None
        /\ WritableHasSession' /\ Findable' /\ InterruptedNotAwaited'
        /\ \A c \in Clients, i \in Ids : Awaits(c, i)' => Awaits(c, i)
    BY <2>1, <2>3, <2>4, <2>5, DequeueKeeps
  <2>8. Owned'
    BY <2>1, <2>2, <2>5, <2>7 DEF IInv, Owned
  <2>9. Remembered'
    <3> SUFFICES ASSUME pc' # "terminated", NEW c \in Clients, NEW i \in Ids, Awaits(c, i)'
                 PROVE  InHistory(i)'
      BY DEF Remembered
    <3>1. requests'[i] = c /\ i # info.id
      BY <1>0, <2>2, <2>4, <2>7 DEF Findable, DequeueEffect
    <3>2. Awaits(c, i)
      BY <2>7
    <3>3. PICK n \in DOMAIN request_history : request_history[n].id = i
      BY <2>1, <3>2 DEF IInv, Remembered, InHistory
    <3>4. n # 1
      BY <2>2, <3>1, <3>3
    <3> QED
      BY <2>1, <2>2, <3>3, <3>4 DEF InHistory
  <2> QED
    BY <2>6, <2>7, <2>8, <2>9 DEF IInv
<1> QED
  BY <1>1, <1>2, <1>3

-----------------------------------------------------------------------------
(* The theorems.                                                            *)

\* The invariant holds when server_t has been constructed.
LEMMA InitIInv == Init => IInv
<1> SUFFICES ASSUME Init PROVE IInv
  OBVIOUS
<1>1. NoMessage \in [from : Clients \cup {None}, msg : Messages] /\ NoMessage.from = None
  BY DEF NoMessage, Messages
<1>2. TypeOK
  <2>1. /\ pending \in Seq([keep : BOOLEAN, health : BOOLEAN])
        /\ request_history \in Seq(Infos)
        /\ loopback \in Seq([info : Infos, blank : BOOLEAN])
    BY DEF Init
  <2>2. /\ enqueued \in [Clients -> SUBSET Ids]
        /\ requests \in [Ids -> Clients \cup {None}]
        /\ issuer \in [Ids -> Clients \cup {None}]
        /\ age \in [Ids -> Nat] /\ replies \in [Ids -> Nat]
    BY DEF Init
  <2>3. /\ pipe \in [Clients -> PipeStates]
        /\ inbox \in [Clients -> Seq(Messages)]
    BY DEF Init, PipeStates
  <2> QED
    BY <1>1, <2>1, <2>2, <2>3 DEF Init, TypeOK
<1>3. Known /\ Fresh /\ OneBlank /\ Stages
  BY <1>1, ServerAssumption DEF Init, Known, Fresh, OneBlank, OneBlankAt, Stages
<1>4. Owned
  BY DEF Init, Owned
<1>5. Answered /\ WritableHasSession /\ Findable /\ Remembered /\ InterruptedNotAwaited
  BY ServerAssumption DEF Init, Answered, WritableHasSession, Findable, Remembered,
                          InterruptedNotAwaited, Awaits
<1> QED
  BY <1>2, <1>3, <1>4, <1>5 DEF IInv

\* Every step of serve() and of its environment preserves it.
LEMMA NextIInv == IInv /\ [Next]_vars => IInv'
<1> SUFFICES ASSUME IInv, [Next]_vars PROVE IInv'
  OBVIOUS
<1>1. CASE Serve
  BY <1>1, PollStep, QuietSteps, SessionSteps, RejectSteps, EnqueueStep, DequeueSteps DEF Serve
<1>2. CASE Environment
  BY <1>2, ConnectionSteps, OutsideSteps DEF Environment
<1>3. CASE UNCHANGED vars
  <2>1. TypeOK' /\ Stages'
    BY <1>3 DEF IInv, TypeOK, Stages, vars, server, tables, conns, work, ghosts
  <2>2. /\ UNCHANGED <<sessions, enqueued, requests, request_history, conns, interrupt,
                       issuer, replies>>
        /\ prefetched' = prefetched /\ pc' = pc
        /\ request_id' \in Nat /\ request_id' >= request_id
    BY <1>3 DEF IInv, TypeOK, vars, server, tables, conns, work, ghosts
  <2> QED
    BY <2>1, <2>2, Frame DEF IInv
<1> QED
  BY <1>1, <1>2, <1>3 DEF Next

\* The inductive invariant is an invariant.
THEOREM Invariance == Spec => []IInv
BY InitIInv, NextIInv, PTL DEF Spec

\* server_t never leaves its types, whatever clients, backend and clock do.
THEOREM TypeCorrect == Spec => []TypeOK
<1>1. IInv => TypeOK
  BY DEF IInv
<1> QED
  BY <1>1, Invariance, PTL

\* No request is answered twice, however results, timeouts and health checks
\* race (dequeue, src/src/prime_server.cpp:371-396).
THEOREM RepliesAtMostOnce == Spec => []AtMostOneReply
<1>1. ASSUME IInv, NEW i \in Ids
      PROVE  replies[i] <= 1
  <2>1. replies[i] = 0 \/ replies[i] = 1
    BY <1>1 DEF IInv, Answered
  <2> QED
    BY <2>1
<1>2. IInv => AtMostOneReply
  BY <1>1 DEF AtMostOneReply
<1> QED
  BY <1>2, Invariance, PTL

\* The session dequeue looks up exists (src/src/prime_server.cpp:389).
THEOREM WritableSession == Spec => []WritableHasSession
<1>1. IInv => WritableHasSession
  BY DEF IInv
<1> QED
  BY <1>1, Invariance, PTL

\* A request somebody waits for is in every table that can settle it.
THEOREM Tracked == Spec => []AwaitedIsTracked
<1>1. IInv => AwaitedIsTracked
  BY ServerAssumption
  DEF IInv, Findable, WritableHasSession, Remembered, AwaitedIsTracked, Awaits
<1> QED
  BY <1>1, Invariance, PTL

\* Nobody waits for a request whose id was published on the interrupt socket.
THEOREM InterruptsAreSafe == Spec => []InterruptedNotAwaited
<1>1. IInv => InterruptedNotAwaited
  BY DEF IInv
<1> QED
  BY <1>1, Invariance, PTL
=============================================================================
