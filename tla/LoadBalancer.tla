----------------------------- MODULE LoadBalancer -----------------------------
(***************************************************************************)
(* What proxy_t promises the layers it stands between, free of sockets,    *)
(* list nodes and hash tables: jobs are taken in the order they came, each *)
(* is given to one worker that has reported itself idle, and a worker is   *)
(* idle no longer once it was given one.  Without a choose function the    *)
(* worker that has been idle longest is taken.                             *)
(***************************************************************************)
EXTENDS Naturals, Sequences

CONSTANTS Workers, Jobs

VARIABLES idle,     \* workers that reported in, longest waiting first
          waiting,  \* jobs nobody has been given yet, oldest first
          given,    \* the jobs each worker was given, in order
          choose_function,  \* whether there is one
          lost      \* jobs that reached nobody

lbVars == <<idle, waiting, given, choose_function, lost>>

Elements(s) == {s[n] : n \in DOMAIN s}

\* s without its n-th element
Without(s, n) == [m \in 1 .. Len(s) - 1 |-> IF m < n THEN s[m] ELSE s[m + 1]]

Submit(j) ==
    /\ waiting' = Append(waiting, j)
    /\ UNCHANGED <<idle, given, lost>>

Register(w) ==
    /\ w \notin Elements(idle)
    /\ idle' = Append(idle, w)
    /\ UNCHANGED <<waiting, given, lost>>

\* A worker that is no longer there takes the job with it.
Assign(n) ==
    /\ waiting # <<>>
    /\ ~choose_function => n = 1
    /\ idle' = Without(idle, n)
    /\ waiting' = Tail(waiting)
    /\ \/ /\ given' = [given EXCEPT ![idle[n]] = Append(@, Head(waiting))]
          /\ UNCHANGED lost
       \/ /\ lost' = lost \cup {Head(waiting)}
          /\ UNCHANGED given

\* The choose function failed on the job.
Fail ==
    /\ choose_function /\ waiting # <<>> /\ idle # <<>>
    /\ waiting' = Tail(waiting)
    /\ lost' = lost \cup {Head(waiting)}
    /\ UNCHANGED <<idle, given>>

\* A worker took a job off its connection.
Take(w) ==
    /\ given[w] # <<>>
    /\ given' = [given EXCEPT ![w] = Tail(@)]
    /\ UNCHANGED <<idle, waiting, lost>>

lbInit == /\ idle = <<>> /\ waiting = <<>> /\ lost = {}
          /\ choose_function \in BOOLEAN
          /\ given = [w \in Workers |-> <<>>]

lbNext == /\ UNCHANGED choose_function
          /\ \/ \E j \in Jobs : Submit(j)
             \/ \E w \in Workers : Register(w) \/ Take(w)
             \/ \E n \in DOMAIN idle : Assign(n)
             \/ Fail

LBSpec == lbInit /\ [][lbNext]_lbVars
===============================================================================
