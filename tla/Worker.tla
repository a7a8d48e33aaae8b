--------------------------------- MODULE Worker -------------------------------
(***************************************************************************)
(* worker_t of src/prime_server.cpp: workers that take jobs from a proxy,  *)
(* run the work function on them and send the result on, while the server  *)
(* publishes the ids of jobs that nobody wants any more.  work() is one    *)
(* thread per worker; its stages are the actions below.  An interrupt may  *)
(* arrive, the clock may move and shutting_down may be set between any two *)
(* of them.                                                                *)
(*                                                                         *)
(* A job is its id | time_stamp << 32; age is how long ago time_stamp was, *)
(* saturating just past the cutoff.  The work function is the user's: it   *)
(* may poll for interrupts any number of times, fail, or return a result.  *)
(***************************************************************************)
EXTENDS Naturals, Sequences

CONSTANTS Workers,
          Jobs,
          Beats,          \* heartbeat payloads
          NoJob,          \* std::numeric_limits<decltype(job)>::max()
          AgeCutoff,      \* INTERRUPT_AGE_CUTOFF
          MaxInterrupts,  \* bound on the ids published
          MaxBeats        \* bound on the heartbeats a worker has under way

ASSUME WorkerAssumption ==
    /\ NoJob \notin Jobs
    /\ Beats # {}
    /\ AgeCutoff \in Nat /\ MaxInterrupts \in Nat /\ MaxBeats \in Nat \ {0}

VARIABLES
    wpc,                \* the stage work() is in, per worker
    signaled,           \* the sockets poll reported: revents
    job,                \* worker_t::job
    heart_beat,         \* worker_t::heart_beat
    interrupts,         \* worker_t::interrupts
    interrupt_history,  \* worker_t::interrupt_history
    beats,              \* heartbeats on the worker's connection to the proxy
    jobs,               \* jobs on it, the other way
    published,          \* ids on the worker's subscription, not yet read
    outcomes,           \* what became of jobs: <<job, how>>, in order
    age,
    closing,            \* shutting_down()
    cast,               \* how many ids have been published
    heard               \* history: the ids each worker has read

loop    == <<wpc, signaled, job, heart_beat>>
memory  == <<interrupts, interrupt_history, heard>>
wires   == <<beats, jobs, published>>
vars    == <<loop, memory, wires, outcomes, age, closing, cast>>

Elements(s) == {s[n] : n \in DOMAIN s}

Outcomes == {"final", "blank", "next", "empty", "failed", "interrupted"}

Running(w) == wpc[w] \notin {"returned", "terminated", "crashed"}

-----------------------------------------------------------------------------
(* The proxy, the server's interrupt socket, the clock and SIGTERM.         *)

Send(w, j) ==
    /\ \A v \in Workers : j \notin Elements(jobs[v]) /\ job[v] # j
    /\ \A n \in DOMAIN outcomes : outcomes[n][1] # j
    /\ jobs' = [jobs EXCEPT ![w] = Append(@, j)]
    /\ UNCHANGED <<loop, memory, beats, published, outcomes, age, closing, cast>>

TakeBeat(w) ==
    /\ beats[w] # <<>>
    /\ beats' = [beats EXCEPT ![w] = Tail(@)]
    /\ UNCHANGED <<loop, memory, jobs, published, outcomes, age, closing, cast>>

\* Every worker hears of every id, and of some more than once: the server
\* publishes it when the request times out and again when its session ends.
Publish(j) ==
    /\ cast < MaxInterrupts
    /\ cast' = cast + 1
    /\ published' = [w \in Workers |-> Append(published[w], j)]
    /\ UNCHANGED <<loop, memory, beats, jobs, outcomes, age, closing>>

Tick ==
    /\ age' = [j \in Jobs |-> IF age[j] <= AgeCutoff THEN age[j] + 1 ELSE age[j]]
    /\ UNCHANGED <<loop, memory, wires, outcomes, closing, cast>>

Close ==
    /\ ~closing
    /\ closing' = TRUE
    /\ UNCHANGED <<loop, memory, wires, outcomes, age, cast>>

Crash(w) ==
    /\ Running(w)
    /\ wpc' = [wpc EXCEPT ![w] = "crashed"]
    /\ UNCHANGED <<signaled, job, heart_beat, memory, wires, outcomes, age, closing, cast>>

-----------------------------------------------------------------------------
(* handle_interrupt                                                         *)

\* recv_all takes one message off the subscription, if there is one.
Got(w) == IF published[w] = <<>> THEN {} ELSE {Head(published[w])}

Unread(w) == IF published[w] = <<>> THEN <<>> ELSE Tail(published[w])

\* Faulty variant: an id read during a job is not noted.
NotesWhenIdle(w) == IF Got(w) = {} \/ job[w] # NoJob THEN interrupt_history[w]
                    ELSE Append(interrupt_history[w], Head(published[w]))

\* The history after interrupt_history.push_back
Noted(w) == IF Got(w) = {} THEN interrupt_history[w]
            ELSE Append(interrupt_history[w], Head(published[w]))

\* Its reading half: what it does when the worker is not shutting down.
Listen(w) ==
    /\ published' = [published EXCEPT ![w] = Unread(w)]
    /\ interrupts' = [interrupts EXCEPT ![w] = @ \cup Got(w)]
    /\ interrupt_history' = [interrupt_history EXCEPT ![w] = Noted(w)]
    /\ heard' = [heard EXCEPT ![w] = @ \cup Got(w)]

\* Faulty variant: the backlog is never consulted.
SparesBacklog(w, force_check) == Got(w) # {} /\ job[w] \in Got(w)

\* Its deciding half: throw interrupt_t for the current job
Interrupted(w, force_check) ==
    /\ force_check \/ Got(w) # {}
    /\ job[w] \in interrupts[w] \cup Got(w)

-----------------------------------------------------------------------------
(* work()                                                                   *)

Goto(w, stage) == wpc' = [wpc EXCEPT ![w] = stage]

\* advertise(), and the test at the head of the loop
Advertise(w) ==
    /\ wpc[w] = "advertise" /\ Len(beats[w]) < MaxBeats
    /\ beats' = [beats EXCEPT ![w] = Append(@, heart_beat[w])]
    /\ Goto(w, "poll") /\ signaled' = [signaled EXCEPT ![w] = {}]
    /\ UNCHANGED <<job, heart_beat, memory, jobs, published, outcomes, age, closing, cast>>

\* zmq::poll returns what is there, and nothing at all after a second without.
Poll(w) ==
    /\ wpc[w] = "poll"
    /\ \/ /\ closing
          /\ Goto(w, "returned")
          /\ UNCHANGED signaled
       \/ /\ ~closing
          /\ signaled' = [signaled EXCEPT ![w] =
                            (IF jobs[w] # <<>> THEN {"work"} ELSE {})
                            \cup (IF published[w] # <<>> THEN {"interrupt"} ELSE {})]
          /\ Goto(w, IF jobs[w] # <<>> THEN "receive" ELSE "idle")
    /\ UNCHANGED <<job, heart_beat, memory, wires, outcomes, age, closing, cast>>

Receive(w) ==
    /\ wpc[w] = "receive"
    /\ job' = [job EXCEPT ![w] = Head(jobs[w])]
    /\ jobs' = [jobs EXCEPT ![w] = Tail(@)]
    /\ Goto(w, "check")
    /\ UNCHANGED <<signaled, heart_beat, memory, beats, published, outcomes, age, closing, cast>>

\* The job is over, one way or another: job is reset and clean up follows.
Over(w, how) ==
    /\ outcomes' = Append(outcomes, <<job[w], how>>)
    /\ job' = [job EXCEPT ![w] = NoJob]
    /\ Goto(w, "idle")

\* handle_interrupt(true) before the work
Check(w) ==
    /\ wpc[w] = "check"
    /\ \/ /\ closing
          /\ Over(w, "interrupted")
          /\ UNCHANGED <<memory, published>>
       \/ /\ ~closing /\ Listen(w)
          /\ \/ Interrupted(w, TRUE) /\ Over(w, "interrupted")
             \/ ~Interrupted(w, TRUE) /\ Goto(w, "working") /\ UNCHANGED <<outcomes, job>>
    /\ UNCHANGED <<signaled, heart_beat, beats, jobs, age, closing, cast>>

\* The work function calls interrupt(): handle_interrupt(false).  A call that
\* finds nothing changes nothing and is left out.
Bail(w) ==
    /\ wpc[w] = "working"
    /\ \/ /\ closing
          /\ Over(w, "interrupted")
          /\ UNCHANGED <<memory, published>>
       \/ /\ ~closing /\ published[w] # <<>> /\ Listen(w)
          /\ \/ Interrupted(w, FALSE) /\ Over(w, "interrupted")
             \/ ~Interrupted(w, FALSE) /\ UNCHANGED <<outcomes, job, wpc>>
    /\ UNCHANGED <<signaled, heart_beat, beats, jobs, age, closing, cast>>

\* The work function returns: an intermediate result, a final one that may be a
\* blank message, or no message at all.  Its heartbeat replaces the old one.
Finish(w, how, b) ==
    /\ wpc[w] = "working"
    /\ how \in {"final", "blank", "next", "empty"}
    /\ heart_beat' = [heart_beat EXCEPT ![w] = b]
    /\ Over(w, how)
    /\ UNCHANGED <<signaled, memory, wires, age, closing, cast>>

\* Faulty variant: a job that failed is put back to be tried again.
ThrowRetries(w) ==
    /\ wpc[w] = "working"
    /\ Over(w, "failed")
    /\ jobs' = [jobs EXCEPT ![w] = Append(@, job[w])]
    /\ UNCHANGED <<signaled, heart_beat, memory, beats, published, age, closing, cast>>

\* The work function throws.
Throw(w) ==
    /\ wpc[w] = "working"
    /\ Over(w, "failed")
    /\ UNCHANGED <<signaled, heart_beat, memory, wires, age, closing, cast>>

\* Faulty variants: no heartbeat without an interrupt; interrupts are not read.
IdleSilent(w) ==
    /\ wpc[w] = "idle"
    /\ Goto(w, IF closing THEN "returned"
               ELSE IF "interrupt" \in signaled[w] THEN "listen" ELSE "poll")
    /\ UNCHANGED <<signaled, job, heart_beat, memory, wires, outcomes, age, closing, cast>>
IdleDeaf(w) ==
    /\ wpc[w] = "idle"
    /\ Goto(w, IF closing THEN "returned" ELSE "advertise")
    /\ UNCHANGED <<signaled, job, heart_beat, memory, wires, outcomes, age, closing, cast>>

\* After the job, if there was one: leave when shutting down, then see to the
\* interrupts poll reported.
Idle(w) ==
    /\ wpc[w] = "idle"
    /\ Goto(w, IF closing THEN "returned"
               ELSE IF "interrupt" \in signaled[w] THEN "listen" ELSE "advertise")
    /\ UNCHANGED <<signaled, job, heart_beat, memory, wires, outcomes, age, closing, cast>>

Old(j) == age[j] > AgeCutoff

\* Faulty variant: the whole history is culled.
StaleAll(h) == {Len(h)}

\* How many ids the culling loop pops: the ones at the front that are old, up to
\* the first that is not.  There is one such number.
Stale(h) == {n \in 0 .. Len(h) : /\ \A k \in 1 .. n : Old(h[k])
                                 /\ n < Len(h) => ~Old(h[n + 1])}

\* pop_front and interrupts.erase, n times
Cull(w, n) ==
    LET h == Noted(w)
    IN /\ interrupt_history' = [interrupt_history EXCEPT ![w] = SubSeq(h, n + 1, Len(h))]
       /\ interrupts' = [interrupts EXCEPT ![w] = (@ \cup Got(w)) \ {h[k] : k \in 1 .. n}]

\* handle_interrupt(false) outside of a job and outside of any try block, then
\* the culling of ids that are too old to matter.  Without a job it throws only
\* when shutting_down was set since Idle looked.
ListenIdle(w) ==
    /\ wpc[w] = "listen"
    /\ \/ /\ closing
          /\ Goto(w, "terminated")
          /\ UNCHANGED <<memory, published>>
       \/ /\ ~closing
          /\ \E n \in Stale(Noted(w)) : Cull(w, n)
          /\ published' = [published EXCEPT ![w] = Unread(w)]
          /\ heard' = [heard EXCEPT ![w] = @ \cup Got(w)]
          /\ Goto(w, "advertise")
    /\ UNCHANGED <<signaled, job, heart_beat, beats, jobs, outcomes, age, closing, cast>>

Work(w) ==
    \/ Advertise(w) \/ Poll(w) \/ Receive(w) \/ Check(w) \/ Bail(w) \/ Throw(w)
    \/ Idle(w) \/ ListenIdle(w)
    \/ \E how \in Outcomes, b \in Beats : Finish(w, how, b)

Environment ==
    \/ \E w \in Workers : TakeBeat(w) \/ Crash(w)
    \/ \E w \in Workers, j \in Jobs : Send(w, j)
    \/ \E j \in Jobs : Publish(j)
    \/ Tick
    \/ Close

Init ==
    /\ wpc = [w \in Workers |-> "advertise"]
    /\ signaled = [w \in Workers |-> {}]
    /\ job = [w \in Workers |-> NoJob]
    /\ heart_beat \in [Workers -> Beats]
    /\ interrupts = [w \in Workers |-> {}]
    /\ interrupt_history = [w \in Workers |-> <<>>]
    /\ beats = [w \in Workers |-> <<>>]
    /\ jobs = [w \in Workers |-> <<>>]
    /\ published = [w \in Workers |-> <<>>]
    /\ outcomes = <<>>
    /\ age \in [Jobs -> 0 .. AgeCutoff]  \* requests may be older than the worker
    /\ closing = FALSE
    /\ cast = 0
    /\ heard = [w \in Workers |-> {}]

Next == Environment \/ \E w \in Workers : Work(w)

Spec == Init /\ [][Next]_vars

-----------------------------------------------------------------------------
(* Properties                                                               *)

\* The type invariant of worker_t and of its sockets.
TypeOK ==
    /\ wpc \in [Workers -> {"advertise", "poll", "receive", "check", "working", "idle",
                            "listen", "returned", "terminated", "crashed"}]
    /\ signaled \in [Workers -> SUBSET {"work", "interrupt"}]
    /\ job \in [Workers -> Jobs \cup {NoJob}]
    /\ heart_beat \in [Workers -> Beats]
    /\ interrupts \in [Workers -> SUBSET Jobs]
    /\ interrupt_history \in [Workers -> Seq(Jobs)]
    /\ beats \in [Workers -> Seq(Beats)]
    /\ jobs \in [Workers -> Seq(Jobs)]
    /\ published \in [Workers -> Seq(Jobs)]
    /\ outcomes \in Seq(Jobs \X Outcomes)
    /\ age \in [Jobs -> Nat]
    /\ closing \in BOOLEAN
    /\ cast \in Nat
    /\ heard \in [Workers -> SUBSET Jobs]

\* An id the worker has read is remembered until it is past the cutoff, in
\* whatever order ids arrived, repeatedly or not, and were culled.
YoungIsRemembered ==
    \A w \in Workers : \A j \in heard[w] : Old(j) \/ j \in interrupts[w]

\* No worker works on a job it has been told to abandon, before it got the job
\* or since, unless the id is past the cutoff (handle_interrupt).
NoWorkOnInterrupted ==
    \A w \in Workers : wpc[w] = "working" => job[w] \notin heard[w] \/ Old(job[w])

\* Whatever is remembered is in the history too: the culling loop will find it,
\* so interrupts does not grow for ever.
RememberedIsCulled ==
    \A w \in Workers : interrupts[w] \subseteq Elements(interrupt_history[w])

\* work() keeps running, and the work function returns some time.
FairSpec == Spec /\ \A w \in Workers : /\ WF_vars(Work(w))
                                       /\ WF_vars(TakeBeat(w))

\* A worker always comes back for more work: whatever happens to a job, a
\* heartbeat follows it, unless work() is over.
ReportsBack ==
    \A w \in Workers : wpc[w] = "working" ~> (wpc[w] = "advertise" \/ ~Running(w))

\* An id that was delivered is read, although an iteration reads only one.
InterruptsAreRead ==
    \A w \in Workers, j \in Jobs :
        j \in Elements(published[w]) ~> (j \in heard[w] \/ ~Running(w))

===============================================================================
