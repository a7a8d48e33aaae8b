------------------------------ MODULE DaemonProofs -----------------------------
(***************************************************************************)
(* The daemon of Daemon, for any number of clients, requests, workers and  *)
(* heartbeats.                                                             *)
(*                                                                         *)
(* Joined, the three components keep to what each was checked and proved   *)
(* with: every step of the daemon is a step of the server, of the proxy    *)
(* and of the worker alone, or none of theirs.  So what is proved of each  *)
(* holds of the daemon (SP, PP and WP are those proofs, read with the      *)
(* daemon's variables), and is used here for the rest: the worker's        *)
(* environment needs that no job is handed out twice, which takes all      *)
(* three.                                                                  *)
(***************************************************************************)
EXTENDS Daemon, FiniteSetTheorems, TLAPS

SP == INSTANCE ServerProofs WITH pc <- spc, age <- [i \in Ids |-> 0], RequestTimeout <- 0,
        Expires <- FALSE, ProxyFails <- TRUE, MatcherFails <- FALSE, BlankResults <- FALSE
PP == INSTANCE ProxyProofs WITH pc <- ppc, Jobs <- Ids, dead <- {}, lost <- {},
        stopping <- shutting_down, downstream <- beats
WP == INSTANCE WorkerProofs WITH Jobs <- Ids, AgeCutoff <- 0, age <- [i \in Ids |-> 0],
        closing <- shutting_down

-----------------------------------------------------------------------------
(* quiescable                                                               *)

\* Threads started with SIGTERM blocked block it too.
Inherited ==
    /\ "main" \in blocked /\ main = "running" => "loops" \in blocked
    /\ KilledOnlyUnprotected

\* The steps that are not the process's leave all of it alone.
LEMMA ProcessSteps ==
    ASSUME [Next]_vars
    PROVE  \/ UNCHANGED qvars
           \/ Quiesce \/ Start \/ Wake \/ Sleep \/ Shut \/ Sigterm
           \/ \E how \in {"returned", "aborted"} : Leave(how)
BY DEF Next, Thread, Process, Kill, Join, ShutStep, vars

LEMMA QuiesceKeeps ==
    ASSUME Inherited, [Next]_vars
    PROVE  Inherited'
<1> USE DEF Inherited, KilledOnlyUnprotected
<1>1. CASE UNCHANGED qvars
  BY <1>1 DEF qvars
<1>2. CASE Quiesce
  BY <1>2 DEF Quiesce, Get
<1>3. CASE Start
  BY <1>3 DEF Start
<1>4. CASE Wake \/ Sleep \/ Shut
  BY <1>4 DEF Wake, Sleep, Shut
<1>5. CASE Sigterm
  BY <1>5 DEF Sigterm, Existing
<1>6. ASSUME NEW how \in {"returned", "aborted"}, Leave(how) PROVE Inherited'
  BY <1>6 DEF Leave
<1> QED
  BY <1>1, <1>2, <1>3, <1>4, <1>5, <1>6, ProcessSteps

\* A SIGTERM that arrives after quiesce has blocked it never kills the process,
\* whatever drain main asked for and whatever the threads are doing
\* (src/src/prime_server.cpp:41).
THEOREM NeverKilled == Spec => []KilledOnlyUnprotected
<1>1. Init => Inherited
  BY DEF Init, QInit, Inherited, KilledOnlyUnprotected
<1>2. Inherited /\ [Next]_vars => Inherited'
  BY QuiesceKeeps
<1>3. Inherited => KilledOnlyUnprotected
  BY DEF Inherited
<1> QED
  BY <1>1, <1>2, <1>3, PTL DEF Spec

-----------------------------------------------------------------------------
(* The server                                                               *)

LEMMA ServerRests ==
    ASSUME UNCHANGED <<serverOnly, shutting_down>>
    PROVE  UNCHANGED S!vars
BY DEF serverOnly, S!vars, S!server, S!tables, S!conns, S!work, S!ghosts

\* Every step of the daemon is one of Server or none of it: the backend answers
\* or drops what it was sent, clients and SIGTERM do what they do there.
LEMMA ServerStep ==
    ASSUME [Next]_vars
    PROVE  [S!Next]_(S!vars)
<1>1. CASE UNCHANGED vars
  BY <1>1, ServerRests DEF vars, qvars
<1>2. CASE Thread(ServeStep)
  BY <1>2 DEF Thread, ServeStep, S!Next
<1>3. CASE Thread(ForwardStep)
  BY <1>3, ServerRests DEF Thread, ForwardStep, qvars
<1>4. ASSUME NEW w \in Workers, Thread(WorkStep(w)) PROVE [S!Next]_(S!vars)
  <2>1. CASE UNCHANGED serverOnly
    BY <1>4, <2>1, ServerRests DEF Thread, qvars
  <2>2. CASE Result(w)
    BY <2>2 DEF Result, S!Next, S!Environment
  <2>3. CASE NoResult(w)
    BY <2>3 DEF NoResult, S!Next, S!Environment
  <2> QED
    BY <1>4, <2>1, <2>2, <2>3 DEF Thread, WorkStep
<1>5. ASSUME NEW w \in Workers, Thread(Block(w)) PROVE [S!Next]_(S!vars)
  BY <1>5, ServerRests DEF Thread, Block, qvars
<1>6. ASSUME NEW i \in Ids, Thread(Deliver(i)) PROVE [S!Next]_(S!vars)
  BY <1>6, ServerRests DEF Thread, Deliver, qvars
<1>7. CASE Thread(ClientStep)
  <2>1. ASSUME NEW m \in S!Data PROVE m \in S!Messages \ {S!Blank}
    BY DEF S!Data, S!Messages, S!Blank
  <2> QED
    BY <1>7, <2>1 DEF Thread, ClientStep, S!Next, S!Environment
<1>8. CASE Process
  <2>1. CASE ShutStep
    BY <2>1 DEF ShutStep, S!Next, S!Environment
  <2>2. CASE ~ShutStep
    <3>1. UNCHANGED <<serverOnly, shutting_down>>
      BY <1>8, <2>2 DEF Process, Quiesce, Start, Join, Wake, Sleep, Leave
    <3> QED
      BY <3>1, ServerRests
  <2> QED
    BY <2>1, <2>2
<1>9. CASE Kill
  BY <1>9, ServerRests DEF Kill, Sigterm
<1> QED
  BY <1>1, <1>2, <1>3, <1>4, <1>5, <1>6, <1>7, <1>8, <1>9 DEF Next

\* In the daemon the server meets nothing it was not checked with.
THEOREM ServerAsAlone == Spec => S!Spec
<1>1. Init => S!Init
  BY DEF Init
<1>2. [Next]_vars => [S!Next]_(S!vars)
  BY ServerStep
<1> QED
  BY <1>1, <1>2, PTL DEF Spec, S!Spec
-----------------------------------------------------------------------------
(* The proxy                                                                *)

\* Request ids are handed out in order, so a request that is in the backend or
\* ever arrived at the proxy is older than the next one; and a worker reports in
\* with a heartbeat.
Numbered ==
    /\ request_id \in Nat
    /\ \A info \in proxy : info.id \in Ids /\ info.id < request_id
    /\ \A a, b \in proxy : a.id = b.id => a = b
    /\ came \subseteq Ids /\ \A i \in came : i < request_id
    /\ heart_beat \in [Workers -> Beats]

\* A step of serve() sends on one new request, with the next id, or none.
LEMMA ServeSendsOn ==
    ASSUME S!Serve, request_id \in Nat
    PROVE  \/ proxy' = proxy /\ request_id' \in {request_id, request_id + 1}
           \/ /\ request_id' = request_id + 1 /\ request_id \in Ids
              /\ \E info : info.id = request_id /\ proxy' = proxy \cup {info}
<1>1. CASE S!EnqueueOne
  <2>1. request_id \in Ids
    BY <1>1, DaemonAssumption DEF S!EnqueueOne, Ids
  <2>2. S!InfoOf(Head(pending)).id = request_id
    BY DEF S!InfoOf
  <2>3. \/ proxy' = proxy
        \/ proxy' = proxy \cup {S!InfoOf(Head(pending))}
    BY <1>1 DEF S!EnqueueOne
  <2>4. request_id' = request_id + 1
    BY <1>1 DEF S!EnqueueOne
  <2> QED
    BY <2>1, <2>2, <2>3, <2>4
<1>2. CASE S!Poll \/ S!Return \/ S!RecvResult \/ S!OpenSession \/ S!EndSession
           \/ S!IgnoreUnknown \/ S!ParseData
  BY <1>2 DEF S!Poll, S!Return, S!RecvResult, S!OpenSession, S!EndSession, S!IgnoreUnknown,
              S!ParseData, S!tables, S!work
<1>3. CASE S!RejectData \/ S!EnqueueFails \/ S!MatcherThrows \/ S!EnqueueDone
  BY <1>3 DEF S!RejectData, S!EnqueueFails, S!MatcherThrows, S!EnqueueDone, S!tables, S!work
<1>4. CASE S!HealthReply \/ S!CloseRejected \/ S!TimeoutOne \/ S!TimeoutsDone
  BY <1>4 DEF S!HealthReply, S!CloseRejected, S!TimeoutOne, S!TimeoutsDone, S!tables, S!work
<1> QED
  BY <1>1, <1>2, <1>3, <1>4 DEF S!Serve

\* What serve() sends on arrives at the proxy under an id that never did before.
LEMMA ServeArrives ==
    ASSUME Numbered, ServeStep
    PROVE  \/ UNCHANGED <<proxy, backend>> /\ request_id' \in {request_id, request_id + 1}
           \/ /\ request_id \in Ids /\ request_id' = request_id + 1
              /\ P!Arrive(request_id) /\ UNCHANGED workerOnly
              /\ \E info : info.id = request_id /\ proxy' = proxy \cup {info}
<1>1. request_id \in Nat /\ \A info \in proxy : info.id < request_id
  BY DEF Numbered
<1>2. S!Serve /\ \/ proxy' = proxy /\ UNCHANGED backend
                 \/ \E info \in proxy' \ proxy : P!Arrive(info.id) /\ UNCHANGED workerOnly
  BY DEF ServeStep
<1>3. CASE proxy' = proxy /\ request_id' \in {request_id, request_id + 1}
  BY <1>2, <1>3
<1>4. CASE ~(proxy' = proxy /\ request_id' \in {request_id, request_id + 1})
  <2>1. PICK new : new.id = request_id /\ proxy' = proxy \cup {new}
    BY <1>1, <1>2, <1>4, ServeSendsOn
  <2>2. request_id \in Ids /\ request_id' = request_id + 1
    BY <1>1, <1>2, <1>4, ServeSendsOn
  <2>3. new \notin proxy
    BY <1>1, <2>1
  <2>4. P!Arrive(request_id) /\ UNCHANGED workerOnly
    BY <1>2, <2>1, <2>3
  <2> QED
    BY <2>1, <2>2, <2>4
<1> QED
  BY <1>3, <1>4

\* The other steps take requests out of the backend, if anything.
LEMMA OthersNumber ==
    ASSUME [Next]_vars, ~Thread(ServeStep)
    PROVE  request_id' = request_id /\ proxy' \subseteq proxy /\ came' = came
<1>1. CASE UNCHANGED vars
  BY <1>1 DEF vars, serverOnly, backend, proxyOnly
<1>2. CASE Thread(ForwardStep)
  BY <1>2 DEF Thread, ForwardStep, serverOnly, P!Forward, P!Poll, P!Return, P!ChooseThrows,
              P!NewWorker, P!KnownWorker, P!Dispatch
<1>3. ASSUME NEW w \in Workers, Thread(WorkStep(w))
      PROVE  request_id' = request_id /\ proxy' \subseteq proxy /\ came' = came
  <2>1. UNCHANGED serverOnly \/ Result(w) \/ NoResult(w)
    BY <1>3 DEF Thread, WorkStep
  <2>2. request_id' = request_id /\ proxy' \subseteq proxy
    BY <2>1 DEF serverOnly, Result, NoResult, S!BackendResult, S!BackendDrop, S!tables
  <2>3. came' = came
    BY <1>3 DEF Thread, WorkStep, P!Advertise, P!Take, proxyOnly
  <2> QED
    BY <2>2, <2>3
<1>4. ASSUME NEW w \in Workers, Thread(Block(w))
      PROVE  request_id' = request_id /\ proxy' = proxy /\ came' = came
  BY <1>4 DEF Thread, Block, serverOnly, backend, proxyOnly
<1>5. ASSUME NEW i \in Ids, Thread(Deliver(i))
      PROVE  request_id' = request_id /\ proxy' = proxy /\ came' = came
  BY <1>5 DEF Thread, Deliver, serverOnly, proxyOnly
<1>6. CASE Thread(ClientStep)
  BY <1>6 DEF Thread, ClientStep, backend, proxyOnly, S!Connect, S!HangUp, S!PipeStep,
              S!ClientSends, S!tables, S!work
<1>7. CASE Process \/ Kill
  BY <1>7 DEF Process, Kill, serverOnly, backend, proxyOnly
<1> QED
  BY <1>1, <1>2, <1>3, <1>4, <1>5, <1>6, <1>7 DEF Next

LEMMA HeartBeatType ==
    ASSUME heart_beat \in [Workers -> Beats], [Next]_vars
    PROVE  heart_beat' \in [Workers -> Beats]
<1>1. CASE UNCHANGED heart_beat
  BY <1>1
<1>2. ASSUME NEW w \in Workers, NEW b \in Beats, W!Finish(w, "final", b)
      PROVE  heart_beat' \in [Workers -> Beats]
  BY <1>2 DEF W!Finish
<1>3. ASSUME NEW w \in Workers, Thread(WorkStep(w)),
             ~\E b \in Beats : W!Finish(w, "final", b)
      PROVE  UNCHANGED heart_beat
  BY <1>3 DEF Thread, WorkStep, W!Advertise, W!Receive, W!Poll, W!Idle, W!ListenIdle, W!Check,
              W!Bail, W!Throw
<1>4. ASSUME ~\E w \in Workers : Thread(WorkStep(w))
      PROVE  UNCHANGED heart_beat
  BY <1>4 DEF Next, vars, Thread, ServeStep, ForwardStep, Block, Deliver, ClientStep, Process,
              Kill, backend, workerOnly, W!Publish, W!loop
<1> QED
  BY <1>1, <1>2, <1>3, <1>4
LEMMA NumberedKeeps ==
    ASSUME Numbered, [Next]_vars
    PROVE  Numbered'
<1>1. heart_beat' \in [Workers -> Beats]
  BY HeartBeatType DEF Numbered
<1>2. CASE Thread(ServeStep)
  <2>1. CASE UNCHANGED <<proxy, backend>> /\ request_id' \in {request_id, request_id + 1}
    <3>1. came' = came
      BY <2>1 DEF backend, proxyOnly
    <3>2. request_id' \in Nat /\ request_id' >= request_id
      BY <2>1 DEF Numbered
    <3> QED
      BY <1>1, <2>1, <3>1, <3>2 DEF Numbered, Ids
  <2>2. CASE ~(UNCHANGED <<proxy, backend>> /\ request_id' \in {request_id, request_id + 1})
    <3>1. /\ request_id \in Ids /\ request_id' = request_id + 1
          /\ P!Arrive(request_id)
          /\ \E info : info.id = request_id /\ proxy' = proxy \cup {info}
      BY <1>2, <2>2, ServeArrives DEF Thread
    <3>2. PICK new : new.id = request_id /\ proxy' = proxy \cup {new}
      BY <3>1
    <3>3. came' = came \cup {request_id}
      BY <3>1 DEF P!Arrive
    <3>4. \A i \in Ids : i \in Nat
      BY DEF Ids
    <3>5. request_id' \in Nat
      BY <3>1 DEF Numbered
    <3>6. \A info \in proxy' : info.id \in Ids /\ info.id < request_id'
      <4>1. ASSUME NEW info \in proxy PROVE info.id \in Ids /\ info.id < request_id + 1
        <5>1. info.id \in Nat /\ request_id \in Nat /\ info.id < request_id
          BY <3>4 DEF Numbered
        <5> QED
          BY <5>1 DEF Numbered
      <4>2. request_id < request_id + 1
        BY DEF Numbered
      <4> QED
        BY <3>1, <3>2, <4>1, <4>2
    <3>7. \A a, b \in proxy' : a.id = b.id => a = b
      <4>1. request_id \in Nat /\ \A info \in proxy : info.id # request_id
        BY <3>4 DEF Numbered
      <4> QED
        BY <3>2, <4>1 DEF Numbered
    <3>8. came' \subseteq Ids /\ \A i \in came' : i < request_id'
      BY <3>1, <3>3, <3>4 DEF Numbered
    <3> QED
      BY <1>1, <3>5, <3>6, <3>7, <3>8 DEF Numbered
  <2> QED
    BY <2>1, <2>2
<1>3. CASE ~Thread(ServeStep)
  BY <1>1, <1>3, OthersNumber DEF Numbered
<1> QED
  BY <1>2, <1>3

LEMMA ProxyRests ==
    ASSUME UNCHANGED <<proxyOnly, beats, jobs, shutting_down>>
    PROVE  UNCHANGED P!vars
BY DEF proxyOnly, P!vars, P!tables, P!sockets

\* Every step of the daemon is one of Proxy or none of it: jobs arrive once each,
\* workers report in and take what they were given.
LEMMA ProxyStep ==
    ASSUME Numbered, [Next]_vars
    PROVE  [P!Next]_(P!vars)
<1>1. CASE UNCHANGED vars
  BY <1>1, ProxyRests DEF vars, backend, qvars
<1>2. CASE Thread(ServeStep)
  <2>1. CASE UNCHANGED <<proxy, backend>>
    BY <1>2, <2>1, ProxyRests DEF Thread, qvars, backend
  <2>2. CASE ~UNCHANGED <<proxy, backend>>
    BY <1>2, <2>2, ServeArrives DEF Thread, P!Next, P!Environment
  <2> QED
    BY <2>1, <2>2
<1>3. CASE Thread(ForwardStep)
  BY <1>3 DEF Thread, ForwardStep, P!Next
<1>4. ASSUME NEW w \in Workers, Thread(WorkStep(w)) PROVE [P!Next]_(P!vars)
  <2>1. CASE P!Advertise(w, heart_beat[w])
    BY <2>1 DEF Numbered, P!Next, P!Environment
  <2>2. CASE P!Take(w)
    BY <2>2 DEF P!Next, P!Environment
  <2>3. CASE ~P!Advertise(w, heart_beat[w]) /\ ~P!Take(w)
    <3>1. UNCHANGED <<proxyOnly, beats, jobs, shutting_down>>
      BY <1>4, <2>3 DEF Thread, WorkStep, qvars, W!Poll, W!Idle, W!ListenIdle, W!Finish,
                        W!Check, W!Bail, W!Throw, W!wires
    <3> QED
      BY <3>1, ProxyRests
  <2> QED
    BY <2>1, <2>2, <2>3
<1>5. ASSUME NEW w \in Workers, Thread(Block(w)) PROVE [P!Next]_(P!vars)
  BY <1>5, ProxyRests DEF Thread, Block, qvars, backend
<1>6. ASSUME NEW i \in Ids, Thread(Deliver(i)) PROVE [P!Next]_(P!vars)
  BY <1>6, ProxyRests DEF Thread, Deliver, qvars, W!Publish
<1>7. CASE Thread(ClientStep)
  BY <1>7, ProxyRests DEF Thread, ClientStep, qvars, backend
<1>8. CASE Process
  <2>1. CASE ShutStep
    BY <2>1 DEF ShutStep, P!Next, P!Environment
  <2>2. CASE ~ShutStep
    <3>1. UNCHANGED <<backend, shutting_down>>
      BY <1>8, <2>2 DEF Process, Quiesce, Start, Join, Wake, Sleep, Leave
    <3> QED
      BY <3>1, ProxyRests DEF backend
  <2> QED
    BY <2>1, <2>2
<1>9. CASE Kill
  BY <1>9, ProxyRests DEF Kill, Sigterm, backend
<1> QED
  BY <1>1, <1>2, <1>3, <1>4, <1>5, <1>6, <1>7, <1>8, <1>9 DEF Next

\* In the daemon request ids are handed out once each.
THEOREM Numbering == Spec => []Numbered
<1>1. Init => Numbered
  BY DEF Init, S!Init, P!Init, W!Init, Numbered
<1>2. Numbered /\ [Next]_vars => Numbered'
  BY NumberedKeeps
<1> QED
  BY <1>1, <1>2, PTL DEF Spec

\* In the daemon the proxy meets nothing it was not checked with.
THEOREM ProxyAsAlone == Spec => P!Spec
<1>1. Init => P!Init
  BY DEF Init
<1>2. Numbered /\ [Next]_vars => [P!Next]_(P!vars)
  BY ProxyStep
<1> QED
  BY <1>1, <1>2, Numbering, PTL DEF Spec, P!Spec

\* What Proxy assumes of its constants.
LEMMA ProxyConstants ==
    /\ None \notin Workers /\ None \notin Nodes
    /\ MaxBeats \in Nat
BY DaemonAssumption

\* PP!Spec is P!Spec: the same module, extended by its proofs.
LEMMA ProxySame == P!Spec => PP!Spec
<1>1. P!Init => PP!Init
  BY DEF P!Init, PP!Init
<1>2. [P!Next]_(P!vars) => [PP!Next]_(PP!vars)
  <2>1. P!Forward => PP!Forward
    BY Zenon DEF P!Forward, P!Poll, P!Polled, P!HasBeat, P!Return, P!NewWorker, P!KnownWorker,
           P!ReadBeat, P!AfterBeat, P!NodeOf, P!Dispatch, P!Chosen, P!ForgetHeartBeat,
           P!Dropped, P!Without, P!Rest, P!ChooseThrows, P!Elements, P!tables, P!sockets,
           PP!Forward, PP!Poll, PP!Polled, PP!HasBeat, PP!Return, PP!NewWorker,
           PP!KnownWorker, PP!ReadBeat, PP!AfterBeat, PP!NodeOf, PP!Dispatch, PP!Chosen,
           PP!ForgetHeartBeat, PP!Dropped, PP!Without, PP!Rest, PP!ChooseThrows,
           PP!Elements, PP!tables, PP!sockets
  <2>2. P!Environment => PP!Environment
    BY Zenon DEF P!Environment, P!Arrive, P!Advertise, P!Take, P!Die, P!Stop, P!tables,
           P!sockets, PP!Environment, PP!Arrive, PP!Advertise, PP!Take, PP!Die, PP!Stop,
           PP!tables, PP!sockets
  <2>3. UNCHANGED P!vars => UNCHANGED PP!vars
    BY DEF P!vars, P!tables, P!sockets, PP!vars, PP!tables, PP!sockets
  <2> QED
    BY <2>1, <2>2, <2>3 DEF P!Next, PP!Next
<1> QED
  BY <1>1, <1>2, PTL DEF P!Spec, PP!Spec

\* So what ProxyProofs proves holds.
LEMMA ProxyInvariant == Spec => []PP!IInv
BY ProxySame, ProxyConstants, ProxyAsAlone, PP!Invariance, PTL
-----------------------------------------------------------------------------
(* Who has a request                                                        *)

Stages == {"advertise", "poll", "receive", "check", "working", "idle", "listen", "returned",
           "terminated", "crashed"}

Busy(w) == wpc[w] \in {"check", "working"}

\* A request is somewhere in the backend.
Held(i) == \/ i \in PP!Elements(upstream)
           \/ \E w \in Workers : i \in PP!Elements(jobs[w]) \/ job[w] = i

\* The server sent it on and has no result of it.
Sent(i) == \E info \in proxy : info.id = i

\* A worker has the job it took and nobody else has it, or it is over and nobody
\* has it; the server is without a result of exactly what is in the backend.
Located ==
    /\ wpc \in [Workers -> Stages]
    /\ job \in [Workers -> Ids \cup {NoJob}]
    /\ outcomes \in Seq(Ids \X W!Outcomes)
    /\ \A w \in Workers : Busy(w) <=> job[w] # NoJob
    /\ \A w \in Workers : job[w] # NoJob => job[w] \in took
    /\ \A v, w \in Workers : v # w /\ job[v] = job[w] => job[v] = NoJob
    /\ \A n \in DOMAIN outcomes :
          outcomes[n][1] \in took /\ \A w \in Workers : job[w] # outcomes[n][1]
    /\ \A i \in Ids : Held(i) <=> Sent(i)

\* Nobody takes, gets or ends a job.
LEMMA NobodyMoves ==
    ASSUME Located, UNCHANGED <<job, outcomes, took, upstream, jobs, proxy>>,
           wpc' \in [Workers -> Stages],
           \A w \in Workers : Busy(w)' <=> Busy(w)
    PROVE  Located'
BY DEF Located, Held, Sent, PP!Elements

LEMMA ArriveLocates ==
    ASSUME PP!IInv, Numbered, Located, ServeStep
    PROVE  Located'
<1>1. CASE UNCHANGED <<proxy, backend>>
  BY <1>1, NobodyMoves DEF backend, proxyOnly, workerOnly, Busy, Located
<1>2. CASE ~UNCHANGED <<proxy, backend>>
  <2>1. /\ request_id \in Ids
        /\ P!Arrive(request_id) /\ UNCHANGED workerOnly
        /\ \E info : info.id = request_id /\ proxy' = proxy \cup {info}
    BY <1>2, ServeArrives
  <2>2. PICK new : new.id = request_id /\ proxy' = proxy \cup {new}
    BY <2>1
  <2>3. /\ upstream' = Append(upstream, request_id)
        /\ UNCHANGED <<jobs, took, job, wpc, outcomes>>
    BY <2>1 DEF P!Arrive, workerOnly
  <2>4. PP!Elements(upstream)' = PP!Elements(upstream) \cup {request_id}
    <3>1. upstream \in Seq(Ids)
      BY DEF PP!IInv, PP!TypeOK
    <3>2. PP!Elements(Append(upstream, request_id)) = PP!Elements(upstream) \cup {request_id}
      BY <2>1, <3>1, ProxyConstants, PP!Appended
    <3> QED
      BY <2>3, <3>2 DEF PP!Elements
  <2>5. \A i \in Ids : Held(i)' <=> Sent(i)'
    <3>1. ASSUME NEW i \in Ids PROVE Held(i)' <=> Held(i) \/ i = request_id
      BY <2>3, <2>4 DEF Held, PP!Elements
    <3>2. ASSUME NEW i \in Ids PROVE Sent(i)' <=> Sent(i) \/ i = request_id
      BY <2>2 DEF Sent
    <3> QED
      BY <3>1, <3>2 DEF Located
  <2> QED
    BY <2>3, <2>5 DEF Located, Busy
<1> QED
  BY <1>1, <1>2
\* forward() hands the first job over to a worker, or none.
LEMMA ForwardHandsOver ==
    ASSUME PP!IInv, P!Forward
    PROVE  /\ took' = took
           /\ \/ UNCHANGED <<upstream, jobs>>
              \/ /\ upstream # <<>> /\ upstream' = Tail(upstream) /\ UNCHANGED beats
                 /\ \E w \in Workers : jobs' = [jobs EXCEPT ![w] = Append(@, Head(upstream))]
<1>1. CASE P!Poll \/ P!Return
  BY <1>1 DEF P!Poll, P!Return, P!sockets
<1>2. CASE P!ChooseThrows
  BY <1>2 DEF P!ChooseThrows
<1>3. CASE \E w \in Workers : P!NewWorker(w) \/ P!KnownWorker(w)
  BY <1>3 DEF P!NewWorker, P!KnownWorker
<1>4. ASSUME NEW p \in Nodes \cup {None}, P!Dispatch(p)
      PROVE  /\ took' = took
             /\ upstream # <<>> /\ upstream' = Tail(upstream) /\ UNCHANGED beats
             /\ \E w \in Workers : jobs' = [jobs EXCEPT ![w] = Append(@, Head(upstream))]
  <2>1. PP!Dispatch(p)
    BY <1>4, Zenon DEF P!Dispatch, P!Chosen, P!ForgetHeartBeat, P!Dropped, P!Without, P!Rest,
           PP!Dispatch, PP!Chosen, PP!ForgetHeartBeat, PP!Dropped, PP!Without, PP!Rest
  <2>2. \E w \in Workers : jobs' = [jobs EXCEPT ![w] = Append(@, Head(upstream))]
    BY <2>1, ProxyConstants, PP!DispatchFacts
  <2>3. took' = took /\ upstream' = Tail(upstream) /\ ppc = "job" /\ UNCHANGED beats
    BY <1>4 DEF P!Dispatch, P!Rest
  <2>4. upstream # <<>>
    BY <2>3 DEF PP!IInv, PP!Reported
  <2> QED
    BY <2>2, <2>3, <2>4
<1> QED
  BY <1>1, <1>2, <1>3, <1>4 DEF P!Forward

LEMMA ForwardLocates ==
    ASSUME PP!IInv, Located, ForwardStep
    PROVE  Located'
<1>1. P!Forward /\ UNCHANGED <<serverOnly, workerOnly>>
  BY DEF ForwardStep
<1>2. UNCHANGED <<took, job, wpc, outcomes, proxy>>
  BY <1>1, ForwardHandsOver DEF serverOnly, workerOnly
<1>3. CASE UNCHANGED <<upstream, jobs>>
  BY <1>2, <1>3, NobodyMoves DEF Busy, Located
<1>4. ASSUME NEW w \in Workers, upstream # <<>>, upstream' = Tail(upstream),
             jobs' = [jobs EXCEPT ![w] = Append(@, Head(upstream))]
      PROVE  Located'
  <2> DEFINE j == Head(upstream)
  <2>1. upstream \in Seq(Ids) /\ jobs \in [Workers -> Seq(Ids)]
    BY DEF PP!IInv, PP!TypeOK
  <2>2. j \in Ids /\ PP!Elements(upstream) = PP!Elements(Tail(upstream)) \cup {j}
    BY <1>4, <2>1, ProxyConstants, PP!HeadOff
  <2> HIDE DEF j
  <2>3. PP!Elements(Append(jobs[w], j)) = PP!Elements(jobs[w]) \cup {j}
    BY <2>1, <2>2, ProxyConstants, PP!Appended
  <2>4. /\ jobs'[w] = Append(jobs[w], j)
        /\ \A v \in Workers : v # w => jobs'[v] = jobs[v]
    BY <1>4, <2>1 DEF j
  <2>5. ASSUME NEW i \in Ids PROVE Held(i)' <=> Held(i)
    <3>1. i \in PP!Elements(upstream') \/ (\E v \in Workers : i \in PP!Elements(jobs'[v]))
          <=> i \in PP!Elements(upstream) \/ (\E v \in Workers : i \in PP!Elements(jobs[v]))
      BY <1>4, <2>2, <2>3, <2>4
    <3> QED
      BY <1>2, <3>1 DEF Held, PP!Elements
  <2>6. ASSUME NEW i \in Ids PROVE Sent(i)' <=> Sent(i)
    BY <1>2 DEF Sent
  <2> QED
    BY <1>2, <2>5, <2>6 DEF Located, Busy
<1> QED
  BY <1>1, <1>3, <1>4, ForwardHandsOver

\* A worker takes the first job on its connection.
LEMMA TakeLocates ==
    ASSUME PP!IInv, Located, NEW w \in Workers, W!Receive(w), P!Take(w), UNCHANGED serverOnly
    PROVE  Located'
<1> DEFINE j == Head(jobs[w])
<1>1. jobs[w] \in Seq(Ids) /\ jobs[w] # <<>> /\ jobs \in [Workers -> Seq(Ids)]
  BY DEF PP!IInv, PP!TypeOK, P!Take
<1>2. /\ j \in Ids /\ j \in PP!Elements(jobs[w])
      /\ PP!Elements(jobs[w]) = PP!Elements(Tail(jobs[w])) \cup {j}
  BY <1>1, ProxyConstants, PP!HeadOff
<1>3. j \notin took
  BY <1>2 DEF PP!IInv, PP!Apart
<1>4. /\ wpc[w] = "receive" /\ UNCHANGED <<upstream, outcomes, proxy>>
      /\ job' = [job EXCEPT ![w] = j] /\ jobs' = [jobs EXCEPT ![w] = Tail(@)]
      /\ took' = took \cup {j} /\ wpc' = [wpc EXCEPT ![w] = "check"]
  BY DEF W!Receive, W!Goto, P!Take, serverOnly
<1> HIDE DEF j
<1>5. job[w] = NoJob
  BY <1>4 DEF Located, Busy
<1>6. /\ wpc' \in [Workers -> Stages] /\ job' \in [Workers -> Ids \cup {NoJob}]
      /\ job'[w] = j /\ wpc'[w] = "check" /\ jobs'[w] = Tail(jobs[w])
      /\ \A v \in Workers : v # w => /\ job'[v] = job[v] /\ wpc'[v] = wpc[v]
                                     /\ jobs'[v] = jobs[v]
  BY <1>1, <1>2, <1>4 DEF Located, Stages
<1>7. j # NoJob
  BY <1>2, DaemonAssumption
<1>8. \A v \in Workers : job[v] # j
  BY <1>3, <1>7 DEF Located
<1>9. \A v \in Workers : /\ Busy(v)' <=> job'[v] # NoJob
                         /\ job'[v] # NoJob => job'[v] \in took'
  BY <1>4, <1>6, <1>7 DEF Located, Busy
<1>10. \A u, v \in Workers : u # v /\ job'[u] = job'[v] => job'[u] = NoJob
  BY <1>6, <1>8 DEF Located
<1>11. \A n \in DOMAIN outcomes :
          outcomes[n][1] \in took' /\ \A v \in Workers : job'[v] # outcomes[n][1]
  BY <1>3, <1>4, <1>6 DEF Located
<1>12. ASSUME NEW i \in Ids PROVE Held(i)' <=> Held(i)
  <2>1. ASSUME NEW v \in Workers
        PROVE  i \in PP!Elements(jobs'[v]) \/ job'[v] = i
               <=> i \in PP!Elements(jobs[v]) \/ job[v] = i
    <3>1. i # NoJob
      BY DaemonAssumption
    <3>2. CASE v = w
      BY <1>2, <1>5, <1>6, <3>1, <3>2
    <3>3. CASE v # w
      BY <1>6, <3>3
    <3> QED
      BY <3>2, <3>3
  <2> QED
    BY <1>4, <2>1 DEF Held, PP!Elements
<1>13. \A i \in Ids : Sent(i)' <=> Sent(i)
  BY <1>4 DEF Sent
<1> QED
  BY <1>4, <1>6, <1>9, <1>10, <1>11, <1>12, <1>13 DEF Located

\* A worker is done with its job, and the server gets the result or none.
LEMMA OverLocates ==
    ASSUME PP!IInv, Numbered, Located, NEW w \in Workers, NEW how \in W!Outcomes,
           W!Over(w, how), Busy(w), Result(w) \/ NoResult(w),
           UNCHANGED <<upstream, jobs, took>>
    PROVE  Located'
<1> DEFINE j == job[w]
<1>1. j \in Ids /\ j # NoJob /\ j \in took
  BY DEF Located
<1>2. PICK info \in proxy : info.id = j /\ proxy' = proxy \ {info}
  BY DEF Result, NoResult, S!BackendResult, S!BackendDrop
<1>3. /\ outcomes' = Append(outcomes, <<j, how>>)
      /\ job' = [job EXCEPT ![w] = NoJob] /\ wpc' = [wpc EXCEPT ![w] = "idle"]
  BY DEF W!Over, W!Goto
<1>4. /\ outcomes' \in Seq(Ids \X W!Outcomes)
      /\ \A n \in DOMAIN outcomes' : \/ outcomes'[n] = <<j, how>>
                                     \/ n \in DOMAIN outcomes /\ outcomes'[n] = outcomes[n]
  BY <1>1, <1>3 DEF Located
<1>5. /\ wpc' \in [Workers -> Stages] /\ job' \in [Workers -> Ids \cup {NoJob}]
      /\ job'[w] = NoJob /\ wpc'[w] = "idle"
      /\ \A v \in Workers : v # w => job'[v] = job[v] /\ wpc'[v] = wpc[v]
  BY <1>3 DEF Located, Stages
<1>6. \A v \in Workers : v # w => job[v] # j
  BY <1>1 DEF Located
<1>7. \A v \in Workers : /\ Busy(v)' <=> job'[v] # NoJob
                         /\ job'[v] # NoJob => job'[v] \in took
  BY <1>5 DEF Located, Busy
<1>8. \A u, v \in Workers : u # v /\ job'[u] = job'[v] => job'[u] = NoJob
  BY <1>5 DEF Located
<1> HIDE DEF j
<1>9. ASSUME NEW n \in DOMAIN outcomes'
      PROVE  outcomes'[n][1] \in took /\ \A v \in Workers : job'[v] # outcomes'[n][1]
  <2>1. CASE outcomes'[n] = <<j, how>>
    BY <1>1, <1>5, <1>6, <2>1
  <2>2. CASE n \in DOMAIN outcomes /\ outcomes'[n] = outcomes[n]
    <3>1. outcomes[n][1] \in Ids /\ outcomes[n][1] # NoJob
      BY <2>2, DaemonAssumption DEF Located
    <3> QED
      BY <1>5, <2>2, <3>1 DEF Located
  <2> QED
    BY <1>4, <2>1, <2>2
<1>10. ASSUME NEW i \in Ids PROVE Held(i)' <=> Held(i) /\ i # j
  <2>1. /\ i \in PP!Elements(upstream) => i # j
        /\ \A v \in Workers : i \in PP!Elements(jobs[v]) => i # j
    BY <1>1 DEF PP!IInv, PP!Apart
  <2>2. i # NoJob
    BY DaemonAssumption
  <2>3. (\E v \in Workers : job'[v] = i) <=> (\E v \in Workers : job[v] = i) /\ i # j
    BY <1>5, <1>6, <2>2 DEF j
  <2> QED
    BY <2>1, <2>3 DEF Held, PP!Elements
<1>11. ASSUME NEW i \in Ids PROVE Sent(i)' <=> Sent(i) /\ i # j
  BY <1>2 DEF Sent, Numbered
<1> QED
  BY <1>4, <1>5, <1>7, <1>8, <1>9, <1>10, <1>11 DEF Located
LEMMA WorkLocates ==
    ASSUME PP!IInv, Numbered, Located, NEW w \in Workers, WorkStep(w)
    PROVE  Located'
<1>1. wpc \in [Workers -> Stages]
  BY DEF Located
<1>2. CASE W!Advertise(w) /\ P!Advertise(w, heart_beat[w]) /\ UNCHANGED serverOnly
  <2>1. /\ UNCHANGED <<job, outcomes, took, upstream, jobs, proxy>>
        /\ wpc[w] = "advertise" /\ wpc' = [wpc EXCEPT ![w] = "poll"]
    BY <1>2 DEF W!Advertise, W!Goto, P!Advertise, serverOnly
  <2> QED
    BY <1>1, <2>1, NobodyMoves DEF Busy, Stages
<1>3. CASE W!Receive(w) /\ P!Take(w) /\ UNCHANGED serverOnly
  BY <1>3, TakeLocates
<1>4. CASE (W!Poll(w) \/ W!Idle(w) \/ W!ListenIdle(w)) /\ UNCHANGED <<proxyOnly, serverOnly>>
  <2>1. /\ UNCHANGED <<job, outcomes, took, upstream, jobs, proxy>>
        /\ wpc[w] \in {"poll", "idle", "listen"}
        /\ \E stage \in {"returned", "receive", "idle", "listen", "advertise", "terminated"} :
              wpc' = [wpc EXCEPT ![w] = stage]
    BY <1>4 DEF W!Poll, W!Idle, W!ListenIdle, W!Goto, W!wires, proxyOnly, serverOnly
  <2> QED
    BY <1>1, <2>1, NobodyMoves DEF Busy, Stages
<1>5. CASE /\ \E b \in Beats : W!Finish(w, "final", b)
           /\ Result(w) /\ UNCHANGED proxyOnly
  <2>1. /\ UNCHANGED <<upstream, jobs, took>>
        /\ Busy(w) /\ W!Over(w, "final") /\ "final" \in W!Outcomes
    BY <1>5 DEF W!Finish, W!wires, proxyOnly, Busy, W!Outcomes
  <2> QED
    BY <1>5, <2>1, OverLocates
<1>6. CASE /\ W!Check(w) \/ W!Bail(w) \/ W!Throw(w)
           /\ IF job'[w] = job[w] THEN UNCHANGED serverOnly ELSE NoResult(w)
           /\ UNCHANGED proxyOnly
  <2>1. Busy(w) /\ UNCHANGED <<upstream, jobs, took>>
    BY <1>6 DEF W!Check, W!Bail, W!Throw, W!wires, proxyOnly, Busy
  <2>2. \/ \E how \in W!Outcomes : W!Over(w, how)
        \/ /\ UNCHANGED <<outcomes, job>>
           /\ wpc' = wpc \/ wpc' = [wpc EXCEPT ![w] = "working"]
    BY <1>6 DEF W!Check, W!Bail, W!Throw, W!Outcomes, W!Goto
  <2>3. ASSUME NEW how \in W!Outcomes, W!Over(w, how) PROVE Located'
    <3>1. job'[w] = NoJob /\ job[w] # NoJob
      BY <2>1, <2>3 DEF W!Over, Located
    <3> QED
      BY <1>6, <2>1, <2>3, <3>1, OverLocates
  <2>4. CASE /\ UNCHANGED <<outcomes, job>>
             /\ wpc' = wpc \/ wpc' = [wpc EXCEPT ![w] = "working"]
    <3>1. UNCHANGED proxy
      BY <1>6, <2>4 DEF serverOnly
    <3> QED
      BY <1>1, <2>1, <2>4, <3>1, NobodyMoves DEF Busy, Stages
  <2> QED
    BY <2>2, <2>3, <2>4
<1> QED
  BY <1>2, <1>3, <1>4, <1>5, <1>6 DEF WorkStep

LEMMA LocatedKeeps ==
    ASSUME PP!IInv, Numbered, Located, [Next]_vars
    PROVE  Located'
<1>1. ASSUME UNCHANGED <<wpc, job, outcomes, took, upstream, jobs, proxy>> PROVE Located'
  BY <1>1, NobodyMoves DEF Busy, Located
<1>2. CASE UNCHANGED vars
  BY <1>1, <1>2 DEF vars, serverOnly, backend, proxyOnly, workerOnly
<1>3. CASE Thread(ServeStep) \/ Thread(ForwardStep)
  BY <1>3, ArriveLocates, ForwardLocates DEF Thread
<1>4. ASSUME NEW w \in Workers, Thread(WorkStep(w)) PROVE Located'
  BY <1>4, WorkLocates DEF Thread
<1>5. ASSUME NEW w \in Workers, Thread(Block(w)) PROVE Located'
  BY <1>1, <1>5 DEF Thread, Block, serverOnly, backend, proxyOnly, workerOnly
<1>6. ASSUME NEW i \in Ids, Thread(Deliver(i)) PROVE Located'
  BY <1>1, <1>6 DEF Thread, Deliver, W!Publish, W!loop, serverOnly, proxyOnly
<1>7. CASE Thread(ClientStep)
  <2>1. UNCHANGED proxy
    BY <1>7 DEF Thread, ClientStep, S!Connect, S!HangUp, S!PipeStep, S!ClientSends, S!work
  <2> QED
    BY <1>1, <1>7, <2>1 DEF Thread, ClientStep, backend, proxyOnly, workerOnly
<1>8. CASE Process \/ Kill
  BY <1>1, <1>8 DEF Process, Kill, serverOnly, backend, proxyOnly, workerOnly
<1> QED
  BY <1>2, <1>3, <1>4, <1>5, <1>6, <1>7, <1>8 DEF Next

\* At any moment of the daemon, all of the above.
IInv == PP!IInv /\ Numbered /\ Located

\* The inductive invariant of the daemon: the proxy's own, the numbering of
\* requests, and who has which of them.
THEOREM Invariance == Spec => []IInv
<1>1. Init => Located
  BY DaemonAssumption DEF Init, S!Init, P!Init, W!Init, Located, Held, Sent, Busy, Stages, PP!Elements
<1>2. PP!IInv /\ Numbered /\ Located /\ [Next]_vars => Located'
  BY LocatedKeeps
<1>3. Spec => []Located
  BY <1>1, <1>2, ProxyInvariant, Numbering, PTL DEF Spec
<1> QED
  BY <1>3, ProxyInvariant, Numbering, PTL DEF IInv
-----------------------------------------------------------------------------
(* The worker                                                               *)

LEMMA WorkerRests ==
    ASSUME UNCHANGED <<workerOnly, beats, jobs, shutting_down>>
    PROVE  UNCHANGED W!vars
BY DEF workerOnly, W!vars, W!loop, W!memory, W!wires

\* forward() takes a heartbeat off a worker's connection, or none.
LEMMA ForwardTakesBeat ==
    ASSUME P!Forward
    PROVE  \/ UNCHANGED beats
           \/ /\ UNCHANGED <<upstream, jobs>>
              /\ \E w \in Workers : beats[w] # <<>> /\ beats' = [beats EXCEPT ![w] = Tail(@)]
<1>1. CASE P!Poll \/ P!Return \/ P!ChooseThrows \/ \E p \in Nodes \cup {None} : P!Dispatch(p)
  BY <1>1 DEF P!Poll, P!Return, P!ChooseThrows, P!Dispatch, P!sockets
<1>2. CASE \E w \in Workers : P!NewWorker(w) \/ P!KnownWorker(w)
  BY <1>2 DEF P!NewWorker, P!KnownWorker, P!ReadBeat, P!HasBeat
<1> QED
  BY <1>1, <1>2 DEF P!Forward

\* The job at the front was never given to a worker, so it is sent for the first
\* time.
LEMMA ForwardSends ==
    ASSUME IInv, ForwardStep, UNCHANGED shutting_down
    PROVE  [W!Next]_(W!vars)
<1>1. P!Forward /\ UNCHANGED <<serverOnly, workerOnly>>
  BY DEF ForwardStep
<1>2. UNCHANGED <<W!loop, W!memory, published, outcomes, cast>>
  BY <1>1 DEF workerOnly, W!loop, W!memory
<1>3. CASE UNCHANGED <<beats, jobs>>
  BY <1>1, <1>3, WorkerRests
<1>4. ASSUME NEW w \in Workers, beats[w] # <<>>, beats' = [beats EXCEPT ![w] = Tail(@)],
             UNCHANGED jobs
      PROVE  W!Next
  <2>1. W!TakeBeat(w)
    BY <1>2, <1>4 DEF W!TakeBeat
  <2> QED
    BY <2>1 DEF W!Next, W!Environment
<1>5. ASSUME NEW w \in Workers, upstream # <<>>, UNCHANGED beats,
             jobs' = [jobs EXCEPT ![w] = Append(@, Head(upstream))]
      PROVE  W!Next
  <2> DEFINE j == Head(upstream)
  <2>1. upstream \in Seq(Ids)
    BY DEF IInv, PP!IInv, PP!TypeOK
  <2>2. j \in Ids /\ j \in PP!Elements(upstream)
    BY <1>5, <2>1, ProxyConstants, PP!HeadOff
  <2>3. j \notin took /\ \A v \in Workers : j \notin PP!Elements(jobs[v])
    BY <2>2 DEF IInv, PP!IInv, PP!Apart
  <2>4. j # NoJob
    BY <2>2, DaemonAssumption
  <2>5. \A v \in Workers : j \notin W!Elements(jobs[v]) /\ job[v] # j
    BY <2>3, <2>4 DEF IInv, Located, W!Elements, PP!Elements
  <2>6. \A n \in DOMAIN outcomes : outcomes[n][1] # j
    BY <2>3 DEF IInv, Located
  <2>7. W!Send(w, j)
    BY <1>2, <1>5, <2>5, <2>6 DEF W!Send
  <2> QED
    BY <2>2, <2>7 DEF W!Next, W!Environment
<1>6. PP!IInv
  BY DEF IInv
<1> QED
  BY <1>1, <1>3, <1>4, <1>5, <1>6, ForwardHandsOver, ForwardTakesBeat

\* Every step of the daemon is one of Worker or none of it.
LEMMA WorkerStep ==
    ASSUME IInv, [Next]_vars
    PROVE  [W!Next]_(W!vars)
<1>1. CASE UNCHANGED vars
  BY <1>1, WorkerRests DEF vars, backend, qvars
<1>2. CASE Thread(ServeStep)
  <2>1. UNCHANGED <<workerOnly, beats, jobs, shutting_down>>
    BY <1>2 DEF Thread, ServeStep, backend, qvars, P!Arrive
  <2> QED
    BY <2>1, WorkerRests
<1>3. CASE Thread(ForwardStep)
  BY <1>3, ForwardSends DEF Thread, qvars
<1>4. ASSUME NEW w \in Workers, Thread(WorkStep(w)) PROVE W!Next
  <2>1. "final" \in W!Outcomes
    BY DEF W!Outcomes
  <2>2. W!Work(w)
    BY <1>4, <2>1 DEF Thread, WorkStep, W!Work
  <2> QED
    BY <2>2 DEF W!Next
<1>5. ASSUME NEW w \in Workers, Thread(Block(w)) PROVE [W!Next]_(W!vars)
  BY <1>5, WorkerRests DEF Thread, Block, qvars, backend
<1>6. ASSUME NEW i \in Ids, Thread(Deliver(i)) PROVE W!Next
  BY <1>6 DEF Thread, Deliver, W!Next, W!Environment
<1>7. CASE Thread(ClientStep)
  BY <1>7, WorkerRests DEF Thread, ClientStep, qvars, backend
<1>8. CASE Process
  <2>1. CASE ShutStep
    BY <2>1 DEF ShutStep, W!Next, W!Environment
  <2>2. CASE ~ShutStep
    <3>1. UNCHANGED <<backend, shutting_down>>
      BY <1>8, <2>2 DEF Process, Quiesce, Start, Join, Wake, Sleep, Leave
    <3> QED
      BY <3>1, WorkerRests DEF backend
  <2> QED
    BY <2>1, <2>2
<1>9. CASE Kill
  BY <1>9, WorkerRests DEF Kill, Sigterm, backend
<1> QED
  BY <1>1, <1>2, <1>3, <1>4, <1>5, <1>6, <1>7, <1>8, <1>9 DEF Next

\* In the daemon a worker meets nothing it was not checked with: above all, no
\* job comes to a worker that some worker had before.
THEOREM WorkerAsAlone == Spec => W!Spec
<1>1. Init => W!Init
  BY DEF Init
<1>2. IInv /\ [Next]_vars => [W!Next]_(W!vars)
  BY WorkerStep
<1> QED
  BY <1>1, <1>2, Invariance, PTL DEF Spec, W!Spec

\* The daemon is its three components: each behaves as it does alone, among
\* neighbours that are free to do anything.
THEOREM Composition == Spec => EachAsAlone
BY ServerAsAlone, ProxyAsAlone, WorkerAsAlone DEF EachAsAlone
-----------------------------------------------------------------------------
(* One holder                                                               *)

OnUpstream(i, h) == \E k \in DOMAIN upstream : upstream[k] = i /\ h = <<"upstream", k>>
OnJobs(i, h) == \E w \in Workers : \E k \in DOMAIN jobs[w] : jobs[w][k] = i /\ h = <<w, k>>
AtHand(i, h) == \E w \in Workers : job[w] = i /\ h = <<w, 0>>

LEMMA HolderIs ==
    ASSUME NEW i, NEW h
    PROVE  h \in Holders(i) <=> OnUpstream(i, h) \/ OnJobs(i, h) \/ AtHand(i, h)
<1>1. h \in AtProxy(i) <=> OnUpstream(i, h)
  BY DEF AtProxy, OnUpstream
<1>2. h \in AtWorker(i) <=> AtHand(i, h)
  BY DEF AtWorker, AtHand
<1>3. h \in OnConnection(i) <=> OnJobs(i, h)
  <2> DEFINE On(w) == {<<w, k>> : k \in {k \in DOMAIN jobs[w] : jobs[w][k] = i}}
  <2>1. \A w : h \in On(w) <=> \E k \in DOMAIN jobs[w] : jobs[w][k] = i /\ h = <<w, k>>
    OBVIOUS
  <2>2. OnConnection(i) = UNION {On(w) : w \in Workers}
    BY DEF OnConnection
  <2> HIDE DEF On
  <2>3. h \in OnConnection(i) <=> \E w \in Workers : h \in On(w)
    BY <2>2
  <2> QED
    BY <2>1, <2>3 DEF OnJobs
<1> QED
  BY <1>1, <1>2, <1>3 DEF Holders

\* What the invariant says of one request, in terms of its holders.
LEMMA AtMostOneHolder ==
    ASSUME IInv, NEW i \in Ids, NEW x \in Holders(i), NEW y \in Holders(i)
    PROVE  x = y
<1>1. \A h \in Holders(i) : OnUpstream(i, h) \/ OnJobs(i, h) \/ AtHand(i, h)
  BY HolderIs
<1> USE DEF OnUpstream, OnJobs, AtHand
<1>2. i # NoJob
  BY DaemonAssumption
<1>3. OnUpstream(i, x) => /\ i \in PP!Elements(upstream)
                          /\ OnUpstream(i, y) => x = y
  BY DEF PP!Elements, IInv, PP!IInv, PP!Apart, PP!Distinct
<1>4. OnJobs(i, x) => /\ \E w \in Workers : i \in PP!Elements(jobs[w])
                      /\ OnJobs(i, y) => x = y
  <2> SUFFICES ASSUME NEW w \in Workers, NEW k \in DOMAIN jobs[w], jobs[w][k] = i, x = <<w, k>>
               PROVE  i \in PP!Elements(jobs[w]) /\ (OnJobs(i, y) => x = y)
    OBVIOUS
  <2>1. i \in PP!Elements(jobs[w])
    BY DEF PP!Elements
  <2>2. ASSUME NEW v \in Workers, NEW m \in DOMAIN jobs[v], jobs[v][m] = i, y = <<v, m>>
        PROVE  x = y
    <3>1. i \in PP!Elements(jobs[v])
      BY <2>2 DEF PP!Elements
    <3>2. v = w
      BY <2>1, <3>1 DEF IInv, PP!IInv, PP!Apart
    <3>3. m = k
      BY <2>2, <3>2 DEF IInv, PP!IInv, PP!Apart, PP!Distinct
    <3> QED
      BY <2>2, <3>2, <3>3
  <2> QED
    BY <2>1, <2>2
<1>5. AtHand(i, x) => i \in took /\ (AtHand(i, y) => x = y)
  BY <1>2 DEF IInv, Located
<1>6. /\ OnUpstream(i, y) => i \in PP!Elements(upstream)
      /\ OnJobs(i, y) => \E w \in Workers : i \in PP!Elements(jobs[w])
      /\ AtHand(i, y) => i \in took
  BY <1>2 DEF PP!Elements, IInv, Located
<1>7. /\ i \in PP!Elements(upstream) =>
            i \notin took /\ \A w \in Workers : i \notin PP!Elements(jobs[w])
      /\ \A w \in Workers : i \in PP!Elements(jobs[w]) => i \notin took
  BY DEF IInv, PP!IInv, PP!Apart
<1>8. /\ OnUpstream(i, x) \/ OnJobs(i, x) \/ AtHand(i, x)
      /\ OnUpstream(i, y) \/ OnJobs(i, y) \/ AtHand(i, y)
  BY <1>1
<1> HIDE DEF OnUpstream, OnJobs, AtHand
<1>9. CASE OnUpstream(i, x)
  BY <1>3, <1>6, <1>7, <1>8, <1>9
<1>10. CASE OnJobs(i, x)
  BY <1>4, <1>6, <1>7, <1>8, <1>10
<1>11. CASE AtHand(i, x)
  BY <1>5, <1>6, <1>7, <1>8, <1>11
<1> QED
  BY <1>8, <1>9, <1>10, <1>11

LEMMA HeldHasHolder ==
    ASSUME NEW i \in Ids
    PROVE  Held(i) <=> Holders(i) # {}
<1>1. ASSUME i \in PP!Elements(upstream) PROVE Holders(i) # {}
  <2>1. PICK k \in DOMAIN upstream : upstream[k] = i
    BY <1>1 DEF PP!Elements
  <2>2. <<"upstream", k>> \in Holders(i)
    BY <2>1, HolderIs DEF OnUpstream
  <2> QED
    BY <2>2
<1>2. ASSUME NEW w \in Workers, i \in PP!Elements(jobs[w]) PROVE Holders(i) # {}
  <2>1. PICK k \in DOMAIN jobs[w] : jobs[w][k] = i
    BY <1>2 DEF PP!Elements
  <2>2. <<w, k>> \in Holders(i)
    BY <2>1, HolderIs DEF OnJobs
  <2> QED
    BY <2>2
<1>3. ASSUME NEW w \in Workers, job[w] = i PROVE Holders(i) # {}
  <2>1. <<w, 0>> \in Holders(i)
    BY <1>3, HolderIs DEF AtHand
  <2> QED
    BY <2>1
<1>4. ASSUME NEW x \in Holders(i) PROVE Held(i)
  BY <1>4, HolderIs DEF OnUpstream, OnJobs, AtHand, Held, PP!Elements
<1> QED
  BY <1>1, <1>2, <1>3, <1>4 DEF Held

\* A set with at most one member has cardinality 0 or 1.
LEMMA Single ==
    ASSUME NEW A, \A x, y \in A : x = y
    PROVE  Cardinality(A) = IF A = {} THEN 0 ELSE 1
<1>1. CASE A = {}
  BY <1>1, FS_EmptySet
<1>2. CASE A # {}
  <2>1. PICK x \in A : A = {x}
    BY <1>2
  <2> QED
    BY <1>2, <2>1, FS_Singleton
<1> QED
  BY <1>1, <1>2

\* A request is in one place of the backend from the moment the server sends it
\* on to the moment its result, or nothing, comes back: not lost between two
\* loops and not worked on twice, for any number of clients, workers and requests.
THEOREM RequestsHaveOneHolder == Spec => []OneHolder
<1>1. IInv => OneHolder
  <2> SUFFICES ASSUME IInv, NEW i \in Ids
               PROVE  Cardinality(Holders(i)) = Cardinality({info \in proxy : info.id = i})
    BY DEF OneHolder
  <2>1. Cardinality(Holders(i)) = IF Holders(i) = {} THEN 0 ELSE 1
    BY AtMostOneHolder, Single
  <2>2. \A x, y \in {info \in proxy : info.id = i} : x = y
    BY DEF IInv, Numbered
  <2>3. Cardinality({info \in proxy : info.id = i}) =
        IF {info \in proxy : info.id = i} = {} THEN 0 ELSE 1
    BY <2>2, Single
  <2>4. Holders(i) # {} <=> {info \in proxy : info.id = i} # {}
    BY HeldHasHolder DEF IInv, Located, Sent
  <2> QED
    BY <2>1, <2>3, <2>4
<1> QED
  BY <1>1, Invariance, PTL

-----------------------------------------------------------------------------
(* What was proved of the components holds of the daemon.                   *)

LEMMA ServerSame == S!Spec => SP!Spec
<1>1. S!Init => SP!Init
  BY Zenon DEF S!Init, S!NoMessage, S!Blank, S!Ids, SP!Init, SP!NoMessage, SP!Blank, SP!Ids
<1>2. [S!Next]_(S!vars) => [SP!Next]_(SP!vars)
  <2>1. S!Environment => SP!Environment
    BY Zenon DEF S!Environment, S!Connect, S!HangUp, S!PipeStep, S!ClientSends,
           S!BackendDrop, S!BackendResult, S!Tick, S!Shutdown, S!Cost, S!Messages, S!Data,
           S!Malformed, S!Blank, S!Reach, S!Ids, S!server, S!tables, S!conns, S!work,
           S!ghosts, SP!Environment, SP!Connect, SP!HangUp, SP!PipeStep, SP!ClientSends,
           SP!BackendDrop, SP!BackendResult, SP!Tick, SP!Shutdown, SP!Cost, SP!Messages,
           SP!Data, SP!Malformed, SP!Blank, SP!Reach, SP!Ids, SP!server, SP!tables,
           SP!conns, SP!work, SP!ghosts
  <2>2. S!Serve => SP!Serve
    BY Zenon DEF S!Serve, S!Poll, S!Return, S!RecvResult, S!OpenSession, S!EndSession,
           S!IgnoreUnknown, S!ParseData, S!RejectData, S!EnqueueOne, S!EnqueueFails,
           S!MatcherThrows, S!EnqueueDone, S!HealthReply, S!CloseRejected, S!TimeoutOne, S!TimeoutsDone,
           S!AfterResult, S!Erased, S!Dequeue, S!Reach, S!Writable, S!Unreachable, S!Closed,
           S!Forget, S!InfoOf, S!Expired, S!TimedOutId, S!PoppedHistory, S!NoMessage,
           S!Blank, S!Ids, S!server, S!tables, S!conns, S!work, S!ghosts, SP!Serve, SP!Poll,
           SP!Return, SP!RecvResult, SP!OpenSession, SP!EndSession, SP!IgnoreUnknown,
           SP!ParseData, SP!RejectData, SP!EnqueueOne, SP!EnqueueFails, SP!MatcherThrows, SP!EnqueueDone,
           SP!HealthReply, SP!CloseRejected, SP!TimeoutOne, SP!TimeoutsDone, SP!AfterResult,
           SP!Erased, SP!Dequeue, SP!Reach, SP!Writable, SP!Unreachable, SP!Closed,
           SP!Forget, SP!InfoOf, SP!Expired, SP!TimedOutId, SP!PoppedHistory, SP!NoMessage,
           SP!Blank, SP!Ids, SP!server, SP!tables, SP!conns, SP!work, SP!ghosts
  <2>3. UNCHANGED S!vars => UNCHANGED SP!vars
    BY DEF S!vars, S!server, S!tables, S!conns, S!work, S!ghosts, SP!vars, SP!server,
           SP!tables, SP!conns, SP!work, SP!ghosts
  <2> QED
    BY <2>1, <2>2, <2>3 DEF S!Next, SP!Next
<1> QED
  BY <1>1, <1>2, PTL DEF S!Spec, SP!Spec

LEMMA WorkerSame == W!Spec => WP!Spec
<1>1. W!Init => WP!Init
  BY Zenon DEF W!Init, WP!Init
<1>2. [W!Next]_(W!vars) => [WP!Next]_(WP!vars)
  <2>1. W!Environment => WP!Environment
    BY Zenon DEF W!Environment, W!TakeBeat, W!Crash, W!Send, W!Publish, W!Tick, W!Close,
           W!Running, W!Elements, W!loop, W!memory, W!wires, WP!Environment, WP!TakeBeat,
           WP!Crash, WP!Send, WP!Publish, WP!Tick, WP!Close, WP!Running, WP!Elements,
           WP!loop, WP!memory, WP!wires
  <2>2. ASSUME NEW w \in Workers, W!Work(w) PROVE WP!Work(w)
    BY <2>2, Zenon DEF W!Work, W!Advertise, W!Poll, W!Receive, W!Check, W!Bail, W!Throw, W!Idle,
           W!ListenIdle, W!Finish, W!Over, W!Goto, W!Listen, W!Interrupted, W!Got, W!Unread,
           W!Noted, W!Stale, W!Old, W!Cull, W!Outcomes, W!loop, W!memory, W!wires, WP!Work,
           WP!Advertise, WP!Poll, WP!Receive, WP!Check, WP!Bail, WP!Throw, WP!Idle,
           WP!ListenIdle, WP!Finish, WP!Over, WP!Goto, WP!Listen, WP!Interrupted, WP!Got,
           WP!Unread, WP!Noted, WP!Stale, WP!Old, WP!Cull, WP!Outcomes, WP!loop, WP!memory,
           WP!wires
  <2>3. UNCHANGED W!vars => UNCHANGED WP!vars
    BY DEF W!vars, W!loop, W!memory, W!wires, WP!vars, WP!loop, WP!memory, WP!wires
  <2> QED
    BY <2>1, <2>2, <2>3 DEF W!Next, WP!Next
<1> QED
  BY <1>1, <1>2, PTL DEF W!Spec, WP!Spec
\* What Server and Worker assume of their constants.
LEMMA ServerConstants ==
    /\ None \notin Clients
    /\ MaxRequests \in Nat
    /\ 0 \in Nat
    /\ FALSE \in BOOLEAN /\ TRUE \in BOOLEAN /\ FALSE \in BOOLEAN
    /\ Chunks \subseteq Seq([keep : BOOLEAN, health : BOOLEAN])
BY DaemonAssumption

LEMMA WorkerConstants ==
    /\ NoJob \notin Ids
    /\ Beats # {}
    /\ 0 \in Nat /\ MaxInterrupts \in Nat /\ MaxBeats \in Nat \ {0}
BY DaemonAssumption

\* In the daemon nobody is answered twice, no reply goes to a connection without
\* a session, whoever waits can be found, and no worker is told to abandon what
\* somebody waits for (ServerProofs).
THEOREM ServerKeepsItsWord ==
    Spec => [](/\ S!AtMostOneReply /\ S!WritableHasSession
               /\ S!AwaitedIsTracked /\ S!InterruptedNotAwaited)
<1>1. SP!AtMostOneReply => S!AtMostOneReply
  BY DEF S!AtMostOneReply, SP!AtMostOneReply, S!Ids, SP!Ids
<1>2. SP!WritableHasSession => S!WritableHasSession
  BY DEF S!WritableHasSession, SP!WritableHasSession, S!Ids, SP!Ids
<1>3. SP!AwaitedIsTracked => S!AwaitedIsTracked
  BY DEF S!AwaitedIsTracked, SP!AwaitedIsTracked, S!Awaits, SP!Awaits, S!InHistory,
         SP!InHistory, S!Ids, SP!Ids
<1>4. SP!InterruptedNotAwaited => S!InterruptedNotAwaited
  BY DEF S!InterruptedNotAwaited, SP!InterruptedNotAwaited, S!Awaits, SP!Awaits
<1>5. SP!Spec => [](/\ SP!AtMostOneReply /\ SP!WritableHasSession
                    /\ SP!AwaitedIsTracked /\ SP!InterruptedNotAwaited)
  BY ServerConstants, SP!RepliesAtMostOnce, SP!WritableSession, SP!Tracked,
     SP!InterruptsAreSafe, PTL
<1> QED
  BY <1>1, <1>2, <1>3, <1>4, <1>5, ServerAsAlone, ServerSame, PTL

\* In the daemon the proxy's tables agree, a job it reads has a taker, and jobs
\* are neither lost on the way nor doubled (ProxyProofs).
THEOREM ProxyKeepsItsWord ==
    Spec => [](P!Bidirectional /\ P!ChooserSeesLatest /\ P!JobHasTaker /\ P!JobsConserved)
<1>1. PP!Bidirectional => P!Bidirectional
  BY DEF P!Bidirectional, PP!Bidirectional, P!Elements, PP!Elements
<1>2. PP!ChooserSeesLatest => P!ChooserSeesLatest
  BY DEF P!ChooserSeesLatest, PP!ChooserSeesLatest
<1>3. PP!JobHasTaker => P!JobHasTaker
  BY DEF P!JobHasTaker, PP!JobHasTaker
<1>4. PP!JobsConserved => P!JobsConserved
  BY Zenon DEF P!JobsConserved, PP!JobsConserved, P!Places, PP!Places, P!UpstreamPlaces,
         PP!UpstreamPlaces, P!WorkerPlaces, PP!WorkerPlaces, P!Cardinality, PP!Cardinality
<1>5. PP!Spec => [](PP!Bidirectional /\ PP!ChooserSeesLatest /\ PP!JobHasTaker
                    /\ PP!JobsConserved)
  BY ProxyConstants, PP!MappingHolds, PP!ShowsLatest, PP!FrontIsThere, PP!NoJobMislaid, PTL
<1> QED
  BY <1>1, <1>2, <1>3, <1>4, <1>5, ProxyAsAlone, ProxySame, PTL

\* In the daemon no worker works on a request the server told it to abandon, as
\* far as it has read what the server published (WorkerProofs).
THEOREM WorkerKeepsItsWord ==
    Spec => [](W!YoungIsRemembered /\ W!NoWorkOnInterrupted /\ W!RememberedIsCulled)
<1>1. WP!YoungIsRemembered => W!YoungIsRemembered
  BY DEF W!YoungIsRemembered, WP!YoungIsRemembered, W!Old, WP!Old
<1>2. WP!NoWorkOnInterrupted => W!NoWorkOnInterrupted
  BY DEF W!NoWorkOnInterrupted, WP!NoWorkOnInterrupted, W!Old, WP!Old
<1>3. WP!RememberedIsCulled => W!RememberedIsCulled
  BY DEF W!RememberedIsCulled, WP!RememberedIsCulled, W!Elements, WP!Elements
<1>4. WP!Spec => [](WP!YoungIsRemembered /\ WP!NoWorkOnInterrupted /\ WP!RememberedIsCulled)
  BY WorkerConstants, WP!YoungStays, WP!AbandonedIsLeft, WP!NothingKeptForEver, PTL
<1> QED
  BY <1>1, <1>2, <1>3, <1>4, WorkerAsAlone, WorkerSame, PTL
================================================================================
