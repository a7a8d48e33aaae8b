-------------------------------- MODULE Daemon --------------------------------
(***************************************************************************)
(* A daemon in one process, as src/prime_filed.cpp builds it: a server, a  *)
(* proxy and its workers in threads of their own, joined by inproc         *)
(* sockets, and the thread that turns SIGTERM into a shutdown.             *)
(*                                                                         *)
(* The components are those of their modules, joined where they meet: the  *)
(* request a server sends on is the job that arrives at the proxy, what    *)
(* the proxy gives a worker is what the worker receives, its result is     *)
(* what comes back on the loopback, and the ids the server publishes reach *)
(* the workers.  One flag, shutting_down, stops them all.  The timeout is  *)
(* infinite, and an instance ends before an interrupt is old.  As the      *)
(* components are threads, none crashes alone.                             *)
(***************************************************************************)
EXTENDS Quiesce, Sequences, FiniteSets

CONSTANTS Clients, None, MaxRequests, Chunks,       \* of Server
          Workers, Nodes, Beats, MaxBeats,          \* of Proxy
          NoJob, MaxInterrupts                      \* of Worker

VARIABLES
    \* server_t and its sockets
    spc, prefetched, cur, pending, sessions, enqueued, requests, request_history,
    request_id, pipe, hungup, inbox, proxy, loopback, interrupt, sent, issuer, replies,
    \* proxy_t and its sockets
    ppc, ready, fifo, beat, workers, heart_beats, choose_function, upstream, came, took,
    latest,
    \* worker_t and its sockets
    wpc, signaled, job, heart_beat, interrupts, interrupt_history, published, outcomes,
    cast, heard,
    \* the two directions between proxy and worker
    beats, jobs,
    stuck  \* workers that block for ever in a send nobody will take

Ids == 0 .. MaxRequests - 1

\* What Server, Proxy and Worker assume of theirs.
ASSUME DaemonAssumption ==
    /\ None \notin Clients /\ MaxRequests \in Nat
    /\ Chunks \subseteq Seq([keep : BOOLEAN, health : BOOLEAN])
    /\ None \notin Workers /\ None \notin Nodes
    /\ NoJob \notin Ids /\ Beats # {}
    /\ MaxBeats \in Nat \ {0} /\ MaxInterrupts \in Nat

S == INSTANCE Server WITH pc <- spc, age <- [i \in Ids |-> 0], RequestTimeout <- 0,
        Expires <- FALSE, ProxyFails <- TRUE, MatcherFails <- FALSE, BlankResults <- FALSE
P == INSTANCE Proxy WITH pc <- ppc, Jobs <- Ids, dead <- {}, lost <- {},
        stopping <- shutting_down, downstream <- beats
W == INSTANCE Worker WITH Jobs <- Ids, AgeCutoff <- 0, age <- [i \in Ids |-> 0],
        closing <- shutting_down

serverOnly == <<spc, prefetched, cur, pending, sessions, enqueued, requests,
                request_history, request_id, pipe, hungup, inbox, proxy, loopback,
                interrupt, sent, issuer, replies>>
proxyOnly  == <<ppc, ready, fifo, beat, workers, heart_beats, choose_function, upstream,
                came, took, latest>>
workerOnly == <<wpc, signaled, job, heart_beat, interrupts, interrupt_history, published,
                outcomes, cast, heard>>
backend    == <<proxyOnly, workerOnly, beats, jobs>>
vars       == <<serverOnly, backend, stuck, qvars>>

-----------------------------------------------------------------------------
(* The threads                                                              *)

\* serve().  The proxy refuses a request when its sockets are closed, and only
\* then: they have no high-water mark.
ServeStep ==
    /\ S!Serve
    /\ spc = "enqueue" /\ spc' = "reject" => ppc = "returned"
    /\ \/ proxy' = proxy /\ UNCHANGED backend
       \/ \E info \in proxy' \ proxy : P!Arrive(info.id) /\ UNCHANGED workerOnly
    /\ UNCHANGED stuck

ForwardStep == P!Forward /\ UNCHANGED <<serverOnly, workerOnly, stuck>>

\* A worker is done with its job and the server gets the result, or nothing at all.
Result(w) == \E info \in proxy : info.id = job[w] /\ S!BackendResult(info, FALSE)
NoResult(w) == \E info \in proxy : info.id = job[w] /\ S!BackendDrop(info)

WorkStep(w) ==
    /\ w \notin stuck /\ UNCHANGED stuck
    /\ \/ W!Advertise(w) /\ P!Advertise(w, heart_beat[w]) /\ UNCHANGED serverOnly
       \/ W!Receive(w) /\ P!Take(w) /\ UNCHANGED serverOnly
       \/ (W!Poll(w) \/ W!Idle(w) \/ W!ListenIdle(w)) /\ UNCHANGED <<proxyOnly, serverOnly>>
       \/ /\ \E b \in Beats : W!Finish(w, "final", b)
          /\ Result(w) /\ UNCHANGED proxyOnly
       \/ /\ W!Check(w) \/ W!Bail(w) \/ W!Throw(w)
          /\ IF job'[w] = job[w] THEN UNCHANGED serverOnly ELSE NoResult(w)
          /\ UNCHANGED proxyOnly

\* A loop that returned has closed its sockets.  The worker's sends wait for a
\* peer: that of a result for the server, that of a heartbeat for the proxy.
Block(w) ==
    /\ w \notin stuck
    /\ \/ wpc[w] = "working" /\ spc = "returned"
       \/ wpc[w] = "advertise" /\ ppc = "returned"
    /\ stuck' = stuck \cup {w}
    /\ UNCHANGED <<serverOnly, backend>>

\* An id the server published reaches the workers, late or more than once.
Deliver(i) == i \in interrupt /\ W!Publish(i) /\ UNCHANGED <<serverOnly, proxyOnly, stuck>>

ClientStep ==
    /\ \/ \E c \in Clients : S!Connect(c) \/ S!HangUp(c) \/ S!PipeStep(c)
       \/ \E c \in Clients, m \in S!Data : S!ClientSends(c, m)
    /\ UNCHANGED <<backend, stuck>>

\* Threads run once main has started them and until the process ends.
Thread(step) == main = "running" /\ step /\ UNCHANGED qvars

-----------------------------------------------------------------------------
(* The process                                                              *)

\* server.join(), file_worker.join() and file_proxy.join(), then main returns.
Join == /\ spc = "returned" /\ ppc = "returned" /\ \A w \in Workers : wpc[w] = "returned"
        /\ Leave("returned")

Uncaught == spc = "terminated" \/ \E w \in Workers : wpc[w] = "terminated"

\* The flag all three loops look at.
ShutStep == Shut /\ S!Shutdown /\ P!Stop /\ W!Close

Process == /\ \/ Quiesce \/ Start \/ Join \/ Wake \/ Sleep \/ ShutStep
              \/ Uncaught /\ Leave("aborted")
           /\ UNCHANGED <<serverOnly, backend, stuck>>

Kill == Sigterm /\ UNCHANGED <<serverOnly, backend, stuck>>

Init == /\ S!Init /\ P!Init /\ W!Init /\ QInit
        /\ ~choose_function /\ stuck = {}

Next == \/ Thread(ServeStep) \/ Thread(ForwardStep)
        \/ \E w \in Workers : Thread(WorkStep(w)) \/ Thread(Block(w))
        \/ \E i \in Ids : Thread(Deliver(i))
        \/ Thread(ClientStep)
        \/ Process \/ Kill

Spec == Init /\ [][Next]_vars

\* Every thread keeps running and work functions end some time.  Nothing is
\* assumed of clients, of interrupts or of whoever sends SIGTERM.
FairSpec == /\ Spec
            /\ WF_vars(Thread(ServeStep)) /\ WF_vars(Thread(ForwardStep))
            /\ \A w \in Workers : WF_vars(Thread(WorkStep(w) \/ Block(w)))
            /\ WF_vars(Process)

-----------------------------------------------------------------------------
(* Properties                                                               *)

\* The server was checked against a backend that answers or drops as it pleases,
\* the proxy against workers that report and take as they please, the worker
\* against a proxy and a server that send as they please.  Joined, each keeps to
\* what the others were checked with.
EachAsAlone == S!Spec /\ P!Spec /\ W!Spec

\* Everywhere in the backend a request can be found: on its way to the proxy, on
\* its way to a worker, with one.
AtProxy(i) == {<<"upstream", k>> : k \in {k \in DOMAIN upstream : upstream[k] = i}}
OnConnection(i) ==
    UNION {{<<w, k>> : k \in {k \in DOMAIN jobs[w] : jobs[w][k] = i}} : w \in Workers}
AtWorker(i) == {<<w, 0>> : w \in {w \in Workers : job[w] = i}}
Holders(i) == AtProxy(i) \cup OnConnection(i) \cup AtWorker(i)

\* A request the server sent on and has no result of is in one place, on a socket
\* or with one worker, and a request that is over is nowhere: however heartbeats,
\* jobs, interrupts and shutdown cross each other, none gets lost between two
\* loops, is worked on twice or comes back twice.
OneHolder == \A i \in Ids : Cardinality(Holders(i)) =
                            Cardinality({info \in proxy : info.id = i})

FailedWork(i) == \E n \in DOMAIN outcomes : outcomes[n] = <<i, "failed">>

\* From end to end: whoever waits for an answer gets one, without the help of a
\* timeout, unless the work function failed or the process is killed or shutting
\* down.  No request is forgotten between two loops and none is abandoned while it
\* is wanted.
AwaitedIsAnswered ==
    \A c \in Clients, i \in Ids :
        S!Awaits(c, i) ~> \/ ~S!Awaits(c, i) \/ FailedWork(i)
                          \/ shutting_down \/ main = "killed"

\* A SIGTERM that does not kill ends the process: the loops notice, whatever they
\* are waiting for, and main returns.  Three things can come in between: sigwait
\* fails, shutting_down is set in the middle of an iteration of work() and
\* handle_interrupt throws out of it, or a worker is left with a send to a loop
\* that has returned.
StopsInTheEnd ==
    sigterm ~> (main \in {"returned", "aborted"} \/ stuck # {} \/ watcher = "failed")

-----------------------------------------------------------------------------
(* What the repository says and the code does not keep.                     *)

\* "shutting_down is set to true, signaling all serve/work loops to exit. the
\* process then exits naturally when main returns"
\* (src/prime_server/prime_server.hpp:211-212).
ExitsNaturally == shutting_down ~> main = "returned"

\* "The proxy knows what workers are available to do work and will not send on a
\* request until a worker is available to take it" (src/README.md): a worker has
\* one job at a time.
SendsToAvailable ==
    \A w \in Workers : jobs[w] # <<>> => Len(jobs[w]) = 1 /\ job[w] = NoJob
===============================================================================
