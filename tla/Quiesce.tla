-------------------------------- MODULE Quiesce -------------------------------
(***************************************************************************)
(* quiescable of src/prime_server.cpp, and the life of a process that uses *)
(* it as src/prime_filed.cpp does: main calls quiesce, starts the threads  *)
(* that run the loops, joins them and returns.                             *)
(*                                                                         *)
(* A thread inherits the signal mask of the one that starts it.  A SIGTERM *)
(* that some thread does not block kills the process; one that all of them *)
(* block stays pending until the watcher's sigwait takes it.               *)
(***************************************************************************)
EXTENDS Naturals

CONSTANT DrainSeconds  \* what main passes to quiesce; 0 disables it

ASSUME QuiesceAssumption == DrainSeconds \in Nat

VARIABLES
    main,      \* how far main is, or how the process ended
    made,      \* quiescable::get has constructed its static instance
    blocked,   \* who blocks SIGTERM: the main thread, the threads of the loops
    watcher,   \* the detached thread that waits for SIGTERM
    sigterm,   \* a SIGTERM is pending
    slept,     \* seconds the watcher has slept
    draining,
    shutting_down

qvars == <<main, made, blocked, watcher, sigterm, slept, draining, shutting_down>>

\* quiescable::get(drain_seconds), called by the main thread.  The instance is
\* static: only the first call constructs it.  pthread_sigmask may fail, which
\* disables all of it just as a drain of 0 does.
Get(drain_seconds) ==
    /\ made' = TRUE
    /\ \/ /\ ~made /\ drain_seconds > 0
          /\ blocked' = blocked \cup {"main"}
          /\ watcher' = "waiting"
       \/ UNCHANGED <<blocked, watcher>>

Quiesce ==
    /\ main = "start"
    /\ main' = "quiesced"
    /\ Get(DrainSeconds)
    /\ UNCHANGED <<sigterm, slept, draining, shutting_down>>

\* Faulty variant: the threads are started before quiesce has set the mask.
StartUnmasked ==
    /\ main = "quiesced"
    /\ main' = "running"
    /\ UNCHANGED <<made, blocked, watcher, sigterm, slept, draining, shutting_down>>

\* std::thread for each loop.  Their first call of shutting_down would construct
\* the instance, without a drain, had main not done so.
Start ==
    /\ main = "quiesced"
    /\ main' = "running" /\ made' = TRUE
    /\ blocked' = IF "main" \in blocked THEN blocked \cup {"loops"} ELSE blocked
    /\ UNCHANGED <<watcher, sigterm, slept, draining, shutting_down>>

Existing == {"main"} \cup (IF main = "running" THEN {"loops"} ELSE {})

Sigterm ==
    /\ main \in {"start", "quiesced", "running"} /\ ~sigterm /\ ~draining
    /\ \/ /\ Existing \subseteq blocked
          /\ sigterm' = TRUE
          /\ UNCHANGED main
       \/ /\ ~(Existing \subseteq blocked)
          /\ main' = "killed"
          /\ UNCHANGED sigterm
    /\ UNCHANGED <<made, blocked, watcher, slept, draining, shutting_down>>

\* sigwait returns.  If it fails, nobody will ever take the signal.
Wake ==
    /\ watcher = "waiting" /\ sigterm
    /\ \/ watcher' = "draining" /\ draining' = TRUE /\ sigterm' = FALSE
       \/ watcher' = "failed" /\ UNCHANGED <<draining, sigterm>>
    /\ UNCHANGED <<main, made, blocked, slept, shutting_down>>

Sleep ==
    /\ watcher = "draining" /\ slept < DrainSeconds
    /\ slept' = slept + 1
    /\ UNCHANGED <<main, made, blocked, watcher, sigterm, draining, shutting_down>>

Shut ==
    /\ watcher = "draining" /\ slept = DrainSeconds
    /\ shutting_down' = TRUE /\ watcher' = "done"
    /\ UNCHANGED <<main, made, blocked, sigterm, slept, draining>>

\* How a process with running threads ends: all of them are joined, or an
\* exception leaves one of them and std::terminate is called.
Leave(how) ==
    /\ main = "running"
    /\ main' = how
    /\ UNCHANGED <<made, blocked, watcher, sigterm, slept, draining, shutting_down>>

QInit == /\ main = "start" /\ made = FALSE /\ blocked = {} /\ watcher = "none"
         /\ sigterm = FALSE /\ slept = 0 /\ draining = FALSE /\ shutting_down = FALSE

-----------------------------------------------------------------------------
\* Once quiesce has blocked SIGTERM it does not kill the process, at whatever
\* moment of start-up, serving, draining or shutdown it arrives: every thread
\* inherits the mask (src/src/prime_server.cpp:41).
KilledOnlyUnprotected == main = "killed" => "main" \notin blocked
===============================================================================
