--------------------------------- MODULE Proxy --------------------------------
(***************************************************************************)
(* proxy_t of src/prime_server.cpp: the load balancer between a layer that *)
(* sends jobs (the server, or the workers of an earlier stage) and the     *)
(* workers that take them.  forward() is one thread; an iteration polls,   *)
(* takes at most one heartbeat and then at most one job.                   *)
(*                                                                         *)
(* The three containers are modelled with their sharing: fifo is a list of *)
(* nodes, workers maps an address to its node and heart_beats a node back  *)
(* to an address.  Nodes are memory: a freed one may be handed out again.  *)
(* The worker end of a connection is the environment: it reports in, takes *)
(* jobs, and may die with jobs and heartbeats under way.                   *)
(***************************************************************************)
EXTENDS Naturals, Sequences, FiniteSets

CONSTANTS Workers,   \* addresses of the worker sockets
          Jobs,
          Nodes,     \* the list nodes the allocator can hand out
          Beats,     \* heartbeat payloads
          None,
          MaxBeats   \* bound on the heartbeats a worker has under way

ASSUME ProxyAssumption ==
    /\ None \notin Workers /\ None \notin Nodes
    /\ MaxBeats \in Nat

VARIABLES
    pc,           \* the stage forward() is in
    ready,        \* the sockets poll reported: revents
    fifo,         \* proxy_t::fifo, as the nodes of the list
    beat,         \* what a node holds
    workers,      \* proxy_t::workers, address to node
    heart_beats,  \* proxy_t::heart_beats, node to address
    choose_function,  \* TRUE: one was supplied
    downstream,   \* heartbeats on each worker's connection
    upstream,     \* jobs on the upstream connection
    jobs,         \* jobs on each worker's connection, not yet taken
    dead,         \* workers whose connection is gone
    lost,         \* jobs that reached nobody
    stopping,     \* shutting_down()
    came,         \* history: jobs that have arrived
    took,         \* history: jobs workers have taken
    latest        \* history: the last heartbeat read from each idle worker

tables  == <<fifo, beat, workers, heart_beats>>
sockets == <<downstream, upstream, jobs>>
vars    == <<pc, ready, tables, sockets, dead, lost, stopping, came, took, latest,
             choose_function>>

Elements(s) == {s[n] : n \in DOMAIN s}

\* s without its n-th element: std::list::erase
Without(s, n) == [m \in 1 .. Len(s) - 1 |-> IF m < n THEN s[m] ELSE s[m + 1]]

-----------------------------------------------------------------------------
(* The two layers the proxy stands between.                                 *)

Arrive(j) ==
    /\ j \notin came
    /\ came' = came \cup {j}
    /\ upstream' = Append(upstream, j)
    /\ UNCHANGED <<pc, ready, tables, downstream, jobs, dead, lost, stopping, took, latest,
                   choose_function>>

Advertise(w, b) ==
    /\ w \notin dead /\ Len(downstream[w]) < MaxBeats
    /\ downstream' = [downstream EXCEPT ![w] = Append(@, b)]
    /\ UNCHANGED <<pc, ready, tables, upstream, jobs, dead, lost, stopping, came, took, latest,
                   choose_function>>

Take(w) ==
    /\ w \notin dead /\ jobs[w] # <<>>
    /\ jobs' = [jobs EXCEPT ![w] = Tail(@)]
    /\ took' = took \cup {Head(jobs[w])}
    /\ UNCHANGED <<pc, ready, tables, downstream, upstream, dead, lost, stopping, came, latest,
                   choose_function>>

\* What a dead worker had sent can still be read; what it was sent is lost.
Die(w) ==
    /\ w \notin dead
    /\ dead' = dead \cup {w}
    /\ UNCHANGED <<pc, ready, tables, sockets, lost, stopping, came, took, latest,
                   choose_function>>

Stop ==
    /\ ~stopping
    /\ stopping' = TRUE
    /\ UNCHANGED <<pc, ready, tables, sockets, dead, lost, came, took, latest,
                   choose_function>>

Environment ==
    \/ \E j \in Jobs : Arrive(j)
    \/ \E w \in Workers, b \in Beats : Advertise(w, b)
    \/ \E w \in Workers : Take(w) \/ Die(w)
    \/ Stop

-----------------------------------------------------------------------------
(* forward()                                                                *)

HasBeat(w) == downstream[w] # <<>>

\* Faulty variant: both sockets are always polled.
PolledBoth == {"downstream", "upstream"}

\* expire(): the upstream socket is only polled when somebody is idle.
Polled == {"downstream"} \cup (IF fifo # <<>> THEN {"upstream"} ELSE {})

\* An iteration in which poll reports nothing does nothing, and is left out.
Poll ==
    /\ pc = "poll" /\ ~stopping
    /\ ready' = Polled \cap ((IF \E w \in Workers : HasBeat(w) THEN {"downstream"} ELSE {})
                             \cup (IF upstream # <<>> THEN {"upstream"} ELSE {}))
    /\ ready' # {}
    /\ pc' = IF "downstream" \in ready' THEN "beat" ELSE "job"
    /\ UNCHANGED <<tables, sockets, dead, lost, stopping, came, took, latest,
                   choose_function>>

\* Faulty variant: forward() only stops once no worker is waiting for a job.
ReturnDrained ==
    /\ pc = "poll" /\ stopping /\ fifo = <<>>
    /\ pc' = "returned"
    /\ UNCHANGED <<ready, tables, sockets, dead, lost, stopping, came, took, latest,
                   choose_function>>

Return ==
    /\ pc = "poll" /\ stopping
    /\ pc' = "returned"
    /\ UNCHANGED <<ready, tables, sockets, dead, lost, stopping, came, took, latest,
                   choose_function>>

\* Faulty variant: a heartbeat ends the iteration.
PollAgain == "poll"

AfterBeat == IF "upstream" \in ready THEN "job" ELSE "poll"

\* downstream.recv_all, and the stage after this one
ReadBeat(w) ==
    /\ downstream' = [downstream EXCEPT ![w] = Tail(@)]
    /\ latest' = [latest EXCEPT ![w] = Head(downstream[w])]
    /\ pc' = AfterBeat
    /\ ready' = ready \ {"downstream"}

\* A worker nobody knew reports in: a node is allocated and cross-referenced.
NewWorker(w) ==
    /\ pc = "beat" /\ HasBeat(w) /\ workers[w] = None
    /\ \E n \in Nodes \ Elements(fifo) :
       /\ fifo' = Append(fifo, n)
       /\ beat' = [beat EXCEPT ![n] = Head(downstream[w])]
       /\ workers' = [workers EXCEPT ![w] = n]
       /\ heart_beats' = [heart_beats EXCEPT ![n] = w]
    /\ ReadBeat(w)
    /\ UNCHANGED <<upstream, jobs, dead, lost, stopping, came, took, choose_function>>

\* Faulty variant: the heartbeat is written to the node at the front.
FrontNode(w) == fifo[1]

\* *worker->second
NodeOf(w) == workers[w]

\* One that is waiting already only refreshes its heartbeat, keeping its place.
KnownWorker(w) ==
    /\ pc = "beat" /\ HasBeat(w) /\ workers[w] # None
    /\ beat' = [beat EXCEPT ![NodeOf(w)] = Head(downstream[w])]
    /\ ReadBeat(w)
    /\ UNCHANGED <<fifo, workers, heart_beats, upstream, jobs, dead, lost,
                   stopping, came, took, choose_function>>

\* Faulty variant: the worker at the back, idle the shortest, is taken.
LastIn(p) == fifo[Len(fifo)]

\* The node the job goes to when choose_function returned p, which may be
\* nothing or garbage.
Chosen(p) == IF p # None /\ heart_beats[p] # None THEN p ELSE Head(fifo)

\* heart_beats.erase(hb_itr)
ForgetHeartBeat(n) == [heart_beats EXCEPT ![n] = None]

\* Faulty variant: the front of the list is dropped whoever was chosen.
DropsFront(w) == Without(fifo, 1)

\* fifo.erase(worker_itr->second)
Dropped(w) == Without(fifo, CHOOSE k \in DOMAIN fifo : fifo[k] = workers[w])

\* Faulty variant: the job is looked at and stays on the socket.
RestWithHead == upstream

\* upstream.recv_all takes the job off the socket.
Rest == Tail(upstream)

\* A ROUTER drops what it cannot route, so nothing tells that a worker died.
\* What the freed node holds no longer matters.
Dispatch(p) ==
    /\ pc = "job"
    /\ p # None => choose_function
    /\ LET n == Chosen(p)
           w == heart_beats[n]
       IN /\ \/ /\ w \notin dead
                /\ jobs' = [jobs EXCEPT ![w] = Append(@, Head(upstream))]
                /\ UNCHANGED lost
             \/ /\ w \in dead
                /\ lost' = lost \cup {Head(upstream)}
                /\ UNCHANGED jobs
          /\ fifo' = Dropped(w)
          /\ workers' = [workers EXCEPT ![w] = None]
          /\ heart_beats' = ForgetHeartBeat(n)
          /\ beat' = [beat EXCEPT ![n] = None]
          /\ latest' = [latest EXCEPT ![w] = None]
    /\ upstream' = Rest
    /\ pc' = "poll" /\ ready' = {}
    /\ UNCHANGED <<downstream, dead, stopping, came, took, choose_function>>

\* choose_function throws: the job was read and is gone, the tables are as before.
ChooseThrows ==
    /\ pc = "job" /\ choose_function
    /\ lost' = lost \cup {Head(upstream)}
    /\ upstream' = Rest
    /\ pc' = "poll" /\ ready' = {}
    /\ UNCHANGED <<tables, downstream, jobs, dead, stopping, came, took, latest,
                   choose_function>>

Forward ==
    \/ Poll \/ Return \/ ChooseThrows
    \/ \E w \in Workers : NewWorker(w) \/ KnownWorker(w)
    \/ \E p \in Nodes \cup {None} : Dispatch(p)

Init ==
    /\ pc = "poll" /\ ready = {}
    /\ choose_function \in BOOLEAN
    /\ fifo = <<>>
    /\ beat = [n \in Nodes |-> None]
    /\ workers = [w \in Workers |-> None]
    /\ heart_beats = [n \in Nodes |-> None]
    /\ downstream = [w \in Workers |-> <<>>]
    /\ upstream = <<>>
    /\ jobs = [w \in Workers |-> <<>>]
    /\ dead = {} /\ lost = {} /\ stopping = FALSE /\ came = {}
    /\ took = {} /\ latest = [w \in Workers |-> None]

Next == Forward \/ Environment

Spec == Init /\ [][Next]_vars

-----------------------------------------------------------------------------
(* Properties                                                               *)

\* The type invariant of the three containers and of the sockets.
TypeOK ==
    /\ pc \in {"poll", "beat", "job", "returned"}
    /\ ready \subseteq {"downstream", "upstream"}
    /\ fifo \in Seq(Nodes)
    /\ beat \in [Nodes -> Beats \cup {None}]
    /\ workers \in [Workers -> Nodes \cup {None}]
    /\ heart_beats \in [Nodes -> Workers \cup {None}]
    /\ downstream \in [Workers -> Seq(Beats)]
    /\ upstream \in Seq(Jobs)
    /\ jobs \in [Workers -> Seq(Jobs)]
    /\ dead \subseteq Workers /\ lost \subseteq Jobs
    /\ came \subseteq Jobs /\ took \subseteq Jobs
    /\ stopping \in BOOLEAN /\ choose_function \in BOOLEAN
    /\ latest \in [Workers -> Beats \cup {None}]

\* workers and heart_beats are each other's inverse and know exactly the nodes
\* of fifo, each once: the "bidirectional mapping" of
\* src/prime_server/prime_server.hpp:151-154 that forward() follows from pointer
\* to address to iterator without a check.
Bidirectional ==
    /\ \A w \in Workers : workers[w] # None =>
          workers[w] \in Elements(fifo) /\ heart_beats[workers[w]] = w
    /\ \A n \in Nodes : heart_beats[n] # None => workers[heart_beats[n]] = n
    /\ \A n \in Elements(fifo) : heart_beats[n] # None
    /\ \A k, m \in DOMAIN fifo : fifo[k] = fifo[m] => k = m

\* choose_function is shown, for every idle worker, the payload of the last
\* heartbeat read from that worker, whichever nodes were freed and reused since.
ChooserSeesLatest ==
    \A w \in Workers : workers[w] # None => beat[workers[w]] = latest[w]

\* When a job is read there is a job to read and an idle worker to take it:
\* fifo.front() is only called on a list that is not empty, although the
\* decision to read was taken before the heartbeat stage.
JobHasTaker == pc = "job" => upstream # <<>> /\ fifo # <<>>

\* Everywhere a job can be found.
UpstreamPlaces(j) == {<<"upstream", k>> : k \in {k \in DOMAIN upstream : upstream[k] = j}}
WorkerPlaces(j) ==
    UNION {{<<w, k>> : k \in {k \in DOMAIN jobs[w] : jobs[w][k] = j}} : w \in Workers}
Places(j) == UpstreamPlaces(j) \cup WorkerPlaces(j)
             \cup {<<"lost", 0>> : x \in lost \cap {j}}
             \cup {<<"took", 0>> : x \in took \cap {j}}

\* A job that arrived is in exactly one place: it waits, or one worker has it,
\* or it was lost; none is duplicated or dropped on any path of forward().
JobsConserved == \A j \in came : Cardinality(Places(j)) = 1

\* What forward() implements, read off its containers: the worker whose turn is
\* n-th is the one heart_beats names for the n-th node.
Balancer == INSTANCE LoadBalancer WITH
    idle <- [n \in DOMAIN fifo |-> heart_beats[fifo[n]]],
    waiting <- upstream,
    given <- jobs

\* forward() is a load balancer: jobs go in order of arrival, each to a worker
\* that reported idle, the longest idle one unless choose_function names another.
BalancesLoad == Balancer!LBSpec

\* The forward() thread keeps running; nothing is assumed of the workers.
FairSpec == Spec /\ WF_vars(Forward)

\* A job does not wait while somebody is idle: heartbeats that keep coming do
\* not keep forward() from the upstream socket.
IdleTakesJob ==
    \A j \in Jobs : j \in Elements(upstream) /\ fifo # <<>>
        ~> (j \notin Elements(upstream) \/ fifo = <<>> \/ pc = "returned")
===============================================================================
