------------------------------ MODULE WorkerProofs -----------------------------
(***************************************************************************)
(* What Worker promises, for any number of workers, of jobs, of published  *)
(* ids and for any cutoff.                                                 *)
(*                                                                         *)
(* The three invariants hold together.  A worker goes to work, or goes on  *)
(* with it, only after it found its job among neither the ids it remembers *)
(* nor the one it has just read; that this is every young id it ever read  *)
(* is what the memory is for.  The memory loses an id only in Cull, which  *)
(* takes ids that are old, from the front of the history and out of the    *)
(* set; and an old id stays old.                                           *)
(***************************************************************************)
EXTENDS Worker, TLAPS

\* Poll sends a worker to receive when it has seen a job, and nobody else takes
\* it; whatever is checked or worked on is a job.
HasItsJob ==
    \A w \in Workers : /\ wpc[w] = "receive" => jobs[w] # <<>>
                       /\ wpc[w] \in {"check", "working"} => job[w] \in Jobs

Memory == YoungIsRemembered /\ RememberedIsCulled

IInv == TypeOK /\ Memory /\ NoWorkOnInterrupted /\ HasItsJob

-----------------------------------------------------------------------------
(* handle_interrupt and the culling loop                                    *)

\* What recv_all takes off the subscription is an id, and the history after it
\* holds what it held and that id.
LEMMA Reading ==
    ASSUME TypeOK, NEW w \in Workers
    PROVE  /\ Got(w) \in SUBSET Jobs
           /\ Unread(w) \in Seq(Jobs)
           /\ Noted(w) \in Seq(Jobs)
           /\ Elements(Noted(w)) = Elements(interrupt_history[w]) \cup Got(w)
<1>1. published[w] \in Seq(Jobs) /\ interrupt_history[w] \in Seq(Jobs)
  BY DEF TypeOK
<1>2. CASE published[w] = <<>>
  BY <1>1, <1>2 DEF Got, Unread, Noted
<1>3. CASE published[w] # <<>>
  <2> DEFINE j == Head(published[w])
             h == interrupt_history[w]
  <2>1. j \in Jobs /\ Tail(published[w]) \in Seq(Jobs)
    BY <1>1, <1>3
  <2>2. Got(w) = {j} /\ Unread(w) = Tail(published[w]) /\ Noted(w) = Append(h, j)
    BY <1>3 DEF Got, Unread, Noted
  <2> HIDE DEF j
  <2>3. Elements(Append(h, j)) = Elements(h) \cup {j}
    <3>1. /\ Len(h) \in Nat /\ DOMAIN h = 1 .. Len(h)
          /\ DOMAIN Append(h, j) = 1 .. Len(h) + 1
          /\ \A k \in 1 .. Len(h) : Append(h, j)[k] = h[k]
          /\ Append(h, j)[Len(h) + 1] = j
      BY <1>1, <2>1
    <3> HIDE DEF h
    <3>2. ASSUME NEW e \in Elements(Append(h, j)) PROVE e \in Elements(h) \cup {j}
      <4>1. PICK k \in 1 .. Len(h) + 1 : e = Append(h, j)[k]
        BY <3>1, <3>2 DEF Elements
      <4>2. k \in 1 .. Len(h) \/ k = Len(h) + 1
        BY <3>1
      <4> QED
        BY <3>1, <4>1, <4>2 DEF Elements
    <3>3. ASSUME NEW e \in Elements(h) PROVE e \in Elements(Append(h, j))
      <4>1. PICK k \in 1 .. Len(h) : e = h[k]
        BY <3>1, <3>3 DEF Elements
      <4>2. k \in 1 .. Len(h) + 1 /\ Append(h, j)[k] = e
        BY <3>1, <4>1
      <4> QED
        BY <3>1, <4>2 DEF Elements
    <3>4. j \in Elements(Append(h, j))
      <4>1. Len(h) + 1 \in 1 .. Len(h) + 1
        BY <3>1
      <4> QED
        BY <3>1, <4>1 DEF Elements
    <3> QED
      BY <3>2, <3>3, <3>4
  <2> QED
    BY <1>1, <2>1, <2>2, <2>3
<1> QED
  BY <1>2, <1>3

\* What is left of a sequence and what was taken off its front are all of it.
LEMMA Split ==
    ASSUME NEW T, NEW h \in Seq(T), NEW n \in 0 .. Len(h)
    PROVE  /\ SubSeq(h, n + 1, Len(h)) \in Seq(T)
           /\ Elements(h) = Elements(SubSeq(h, n + 1, Len(h))) \cup {h[k] : k \in 1 .. n}
<1> DEFINE r == SubSeq(h, n + 1, Len(h))
<1>1. /\ Len(h) \in Nat /\ DOMAIN h = 1 .. Len(h)
      /\ r \in Seq(T)
      /\ DOMAIN r = 1 .. Len(h) - n
      /\ \A k \in 1 .. Len(h) - n : r[k] = h[n + k]
  OBVIOUS
<1> HIDE DEF r
<1>2. ASSUME NEW e \in Elements(h) PROVE e \in Elements(r) \cup {h[k] : k \in 1 .. n}
  <2>1. PICK k \in 1 .. Len(h) : e = h[k]
    BY <1>1, <1>2 DEF Elements
  <2>2. CASE k > n
    <3>1. k - n \in 1 .. Len(h) - n /\ n + (k - n) = k
      BY <1>1, <2>2
    <3>2. r[k - n] = e
      BY <1>1, <2>1, <3>1
    <3> QED
      BY <1>1, <3>1, <3>2 DEF Elements
  <2>3. CASE ~(k > n)
    <3>1. k \in 1 .. n
      BY <1>1, <2>3
    <3> QED
      BY <2>1, <3>1
  <2> QED
    BY <2>2, <2>3
<1>3. ASSUME NEW e \in Elements(r) PROVE e \in Elements(h)
  <2>1. PICK k \in 1 .. Len(h) - n : e = r[k]
    BY <1>1, <1>3 DEF Elements
  <2>2. n + k \in 1 .. Len(h) /\ e = h[n + k]
    BY <1>1, <2>1
  <2> QED
    BY <1>1, <2>2 DEF Elements
<1>4. ASSUME NEW k \in 1 .. n PROVE h[k] \in Elements(h)
  <2>1. k \in 1 .. Len(h)
    BY <1>1
  <2> QED
    BY <1>1, <2>1 DEF Elements
<1>5. {h[k] : k \in 1 .. n} \subseteq Elements(h)
  BY <1>4
<1>6. Elements(h) = Elements(r) \cup {h[k] : k \in 1 .. n}
  BY <1>2, <1>3, <1>5
<1> QED
  BY <1>1, <1>6 DEF r

\* An old id stays old: the clock does not run backwards.
LEMMA Ageing ==
    ASSUME TypeOK, Tick, NEW j \in Jobs, Old(j)
    PROVE  Old(j)'
BY WorkerAssumption DEF TypeOK, Tick, Old

MemoryTypes == /\ published \in [Workers -> Seq(Jobs)]
               /\ interrupts \in [Workers -> SUBSET Jobs]
               /\ interrupt_history \in [Workers -> Seq(Jobs)]
               /\ heard \in [Workers -> SUBSET Jobs]

\* handle_interrupt adds the id it reads to the set and to the history.
LEMMA ListenKeepsMemory ==
    ASSUME TypeOK, Memory, NEW w \in Workers, Listen(w), age' = age
    PROVE  MemoryTypes' /\ Memory'
<1>1. /\ Got(w) \in SUBSET Jobs /\ Unread(w) \in Seq(Jobs) /\ Noted(w) \in Seq(Jobs)
      /\ Elements(Noted(w)) = Elements(interrupt_history[w]) \cup Got(w)
  BY Reading
<1>2. /\ interrupts'[w] = interrupts[w] \cup Got(w)
      /\ interrupt_history'[w] = Noted(w)
      /\ heard'[w] = heard[w] \cup Got(w)
      /\ \A v \in Workers : v # w => /\ interrupts'[v] = interrupts[v]
                                     /\ interrupt_history'[v] = interrupt_history[v]
                                     /\ heard'[v] = heard[v]
  BY DEF Listen, TypeOK
<1>3. MemoryTypes'
  BY <1>1 DEF Listen, TypeOK, MemoryTypes
<1>4. ASSUME NEW v \in Workers
      PROVE  /\ \A j \in heard'[v] : Old(j)' \/ j \in interrupts'[v]
             /\ interrupts'[v] \subseteq Elements(interrupt_history'[v])
  <2>1. \A j : Old(j)' <=> Old(j)
    BY DEF Old
  <2>2. CASE v = w
    BY <1>1, <1>2, <2>1, <2>2 DEF Memory, YoungIsRemembered, RememberedIsCulled
  <2>3. CASE v # w
    BY <1>2, <2>1, <2>3 DEF Memory, YoungIsRemembered, RememberedIsCulled
  <2> QED
    BY <2>2, <2>3
<1>5. YoungIsRemembered' /\ RememberedIsCulled'
  BY <1>4 DEF YoungIsRemembered, RememberedIsCulled, Elements
<1> QED
  BY <1>3, <1>5 DEF Memory

\* The culling loop takes old ids only, and the same ones from both.
LEMMA CullKeepsMemory ==
    ASSUME TypeOK, Memory, NEW w \in Workers, NEW n \in Stale(Noted(w)), Cull(w, n),
           published' = [published EXCEPT ![w] = Unread(w)],
           heard' = [heard EXCEPT ![w] = @ \cup Got(w)],
           age' = age
    PROVE  MemoryTypes' /\ Memory'
<1> DEFINE h == Noted(w)
           gone == {h[k] : k \in 1 .. n}
<1>1. /\ Got(w) \in SUBSET Jobs /\ Unread(w) \in Seq(Jobs) /\ h \in Seq(Jobs)
      /\ Elements(h) = Elements(interrupt_history[w]) \cup Got(w)
  BY Reading
<1>2. /\ n \in 0 .. Len(h)
      /\ \A k \in 1 .. n : Old(h[k])
  BY DEF Stale
<1>3. /\ SubSeq(h, n + 1, Len(h)) \in Seq(Jobs)
      /\ Elements(h) = Elements(SubSeq(h, n + 1, Len(h))) \cup gone
  BY <1>1, <1>2, Split
<1>4. \A j \in gone : Old(j)
  BY <1>2
<1> HIDE DEF h, gone
<1>5. /\ interrupts'[w] = (interrupts[w] \cup Got(w)) \ gone
      /\ interrupt_history'[w] = SubSeq(h, n + 1, Len(h))
      /\ heard'[w] = heard[w] \cup Got(w)
      /\ \A v \in Workers : v # w => /\ interrupts'[v] = interrupts[v]
                                     /\ interrupt_history'[v] = interrupt_history[v]
                                     /\ heard'[v] = heard[v]
  BY DEF Cull, TypeOK, h, gone
<1>6. MemoryTypes'
  BY <1>1, <1>3 DEF Cull, TypeOK, MemoryTypes, h, gone
<1>7. ASSUME NEW v \in Workers
      PROVE  /\ \A j \in heard'[v] : Old(j)' \/ j \in interrupts'[v]
             /\ interrupts'[v] \subseteq Elements(interrupt_history'[v])
  <2>1. \A j : Old(j)' <=> Old(j)
    BY DEF Old
  <2>2. CASE v = w
    BY <1>1, <1>3, <1>4, <1>5, <2>1, <2>2 DEF Memory, YoungIsRemembered, RememberedIsCulled
  <2>3. CASE v # w
    BY <1>5, <2>1, <2>3 DEF Memory, YoungIsRemembered, RememberedIsCulled
  <2> QED
    BY <2>2, <2>3
<1>8. YoungIsRemembered' /\ RememberedIsCulled'
  BY <1>7 DEF YoungIsRemembered, RememberedIsCulled, Elements
<1> QED
  BY <1>6, <1>8 DEF Memory
-----------------------------------------------------------------------------
(* The steps.  Each lemma is one action that could disturb the invariant.   *)

\* A step that leaves the memory and the clock alone.
LEMMA MemoryUntouched ==
    ASSUME Memory, UNCHANGED <<memory, age>>
    PROVE  Memory'
BY DEF Memory, YoungIsRemembered, RememberedIsCulled, Elements, Old, memory

\* A step that leaves working workers working with what they know, and only makes
\* others stop: nobody starts.
LEMMA NobodyStarts ==
    ASSUME NoWorkOnInterrupted,
           UNCHANGED <<memory, age>>,
           \A v \in Workers : wpc'[v] = "working" => wpc[v] = "working" /\ job'[v] = job[v]
    PROVE  NoWorkOnInterrupted'
BY DEF NoWorkOnInterrupted, memory, Old

LEMMA EnvironmentKeeps ==
    ASSUME IInv, Environment
    PROVE  IInv'
<1> USE DEF IInv
<1>1. ASSUME NEW w \in Workers, NEW j \in Jobs, Send(w, j) PROVE IInv'
  <2>1. TypeOK'
    BY <1>1 DEF TypeOK, Send, loop, memory
  <2>2. Memory' /\ NoWorkOnInterrupted'
    BY <1>1, MemoryUntouched, NobodyStarts DEF Send, loop
  <2>3. \A v \in Workers : jobs[v] # <<>> => jobs'[v] # <<>>
    <3>1. Append(jobs[w], j) # <<>>
      <4>1. jobs[w] \in Seq(Jobs)
        BY DEF TypeOK
      <4>2. Len(Append(jobs[w], j)) = Len(jobs[w]) + 1 /\ Len(jobs[w]) \in Nat
        BY <4>1
      <4> QED
        BY <4>2
    <3> QED
      BY <1>1, <3>1 DEF Send, TypeOK
  <2>4. HasItsJob'
    BY <1>1, <2>3 DEF HasItsJob, Send, loop
  <2> QED
    BY <2>1, <2>2, <2>4
<1>2. ASSUME NEW w \in Workers, TakeBeat(w) PROVE IInv'
  <2>1. TypeOK'
    BY <1>2 DEF TypeOK, TakeBeat, loop, memory
  <2>2. Memory' /\ NoWorkOnInterrupted'
    BY <1>2, MemoryUntouched, NobodyStarts DEF TakeBeat, loop
  <2>3. HasItsJob'
    BY <1>2 DEF HasItsJob, TakeBeat, loop
  <2> QED
    BY <2>1, <2>2, <2>3
<1>3. ASSUME NEW w \in Workers, Crash(w) PROVE IInv'
  <2>1. TypeOK'
    BY <1>3 DEF TypeOK, Crash, wires, memory
  <2>2. \A v \in Workers : wpc'[v] = wpc[v] \/ wpc'[v] = "crashed"
    BY <1>3 DEF TypeOK, Crash
  <2>3. Memory' /\ NoWorkOnInterrupted'
    BY <1>3, <2>2, MemoryUntouched, NobodyStarts DEF Crash
  <2>4. HasItsJob'
    BY <1>3, <2>2 DEF HasItsJob, Crash, wires
  <2> QED
    BY <2>1, <2>3, <2>4
<1>4. ASSUME NEW j \in Jobs, Publish(j) PROVE IInv'
  <2>1. TypeOK'
    BY <1>4 DEF TypeOK, Publish, loop, memory
  <2>2. Memory' /\ NoWorkOnInterrupted'
    BY <1>4, MemoryUntouched, NobodyStarts DEF Publish, loop
  <2>3. HasItsJob'
    BY <1>4 DEF HasItsJob, Publish, loop
  <2> QED
    BY <2>1, <2>2, <2>3
<1>5. CASE Tick
  <2>1. TypeOK'
    BY <1>5, WorkerAssumption DEF TypeOK, Tick, loop, memory, wires
  <2>2. Memory'
    BY <1>5, Ageing DEF Memory, YoungIsRemembered, RememberedIsCulled, Elements, Tick,
                        memory, TypeOK
  <2>3. NoWorkOnInterrupted'
    <3>1. \A v \in Workers : wpc[v] = "working" => job[v] \in Jobs
      BY DEF HasItsJob
    <3> QED
      BY <1>5, <3>1, Ageing DEF NoWorkOnInterrupted, Tick, memory, loop
  <2>4. HasItsJob'
    BY <1>5 DEF HasItsJob, Tick, loop, wires
  <2> QED
    BY <2>1, <2>2, <2>3, <2>4
<1>6. CASE Close
  <2>1. TypeOK'
    BY <1>6 DEF TypeOK, Close, loop, memory, wires
  <2>2. Memory' /\ NoWorkOnInterrupted'
    BY <1>6, MemoryUntouched, NobodyStarts DEF Close, loop
  <2>3. HasItsJob'
    BY <1>6 DEF HasItsJob, Close, loop, wires
  <2> QED
    BY <2>1, <2>2, <2>3
<1> QED
  BY <1>1, <1>2, <1>3, <1>4, <1>5, <1>6 DEF Environment

\* The stages that neither read an interrupt nor have a job in hand.
LEMMA LoopKeeps ==
    ASSUME IInv, NEW w \in Workers,
           Advertise(w) \/ Poll(w) \/ Receive(w) \/ Idle(w)
    PROVE  IInv'
<1> USE DEF IInv
<1>1. CASE Advertise(w)
  <2>1. TypeOK'
    BY <1>1 DEF TypeOK, Advertise, Goto, memory
  <2>2. \A v \in Workers : wpc'[v] = wpc[v] \/ wpc'[v] = "poll"
    BY <1>1 DEF TypeOK, Advertise, Goto
  <2>3. Memory' /\ NoWorkOnInterrupted'
    BY <1>1, <2>2, MemoryUntouched, NobodyStarts DEF Advertise
  <2>4. HasItsJob'
    BY <1>1, <2>2 DEF HasItsJob, Advertise
  <2> QED
    BY <2>1, <2>3, <2>4
<1>2. CASE Poll(w)
  <2>1. /\ TypeOK'
        /\ \A v \in Workers : \/ wpc'[v] = wpc[v]
                              \/ wpc'[v] \in {"returned", "idle"}
                              \/ wpc'[v] = "receive" /\ jobs[v] # <<>>
    <3> DEFINE reported == (IF jobs[w] # <<>> THEN {"work"} ELSE {})
                           \cup (IF published[w] # <<>> THEN {"interrupt"} ELSE {})
    <3>1. reported \in SUBSET {"work", "interrupt"}
      OBVIOUS
    <3>2. signaled' = signaled \/ signaled' = [signaled EXCEPT ![w] = reported]
      BY <1>2 DEF Poll
    <3> HIDE DEF reported
    <3>3. signaled' \in [Workers -> SUBSET {"work", "interrupt"}]
      BY <3>1, <3>2 DEF TypeOK
    <3>4. \/ wpc' = [wpc EXCEPT ![w] = "returned"]
          \/ wpc' = [wpc EXCEPT ![w] = "idle"]
          \/ wpc' = [wpc EXCEPT ![w] = "receive"] /\ jobs[w] # <<>>
      BY <1>2 DEF Poll, Goto
    <3>5. TypeOK'
      BY <1>2, <3>3, <3>4 DEF TypeOK, Poll, memory, wires
    <3> QED
      BY <3>4, <3>5 DEF TypeOK
  <2>2. Memory' /\ NoWorkOnInterrupted'
    BY <1>2, <2>1, MemoryUntouched, NobodyStarts DEF Poll
  <2>3. HasItsJob'
    BY <1>2, <2>1 DEF HasItsJob, Poll, wires
  <2> QED
    BY <2>1, <2>2, <2>3
<1>3. CASE Receive(w)
  <2>1. jobs[w] \in Seq(Jobs) /\ jobs[w] # <<>>
    BY <1>3 DEF TypeOK, HasItsJob, Receive
  <2>2. Head(jobs[w]) \in Jobs /\ Tail(jobs[w]) \in Seq(Jobs)
    BY <2>1
  <2>3. TypeOK'
    BY <1>3, <2>2 DEF TypeOK, Receive, Goto, memory
  <2>4. /\ wpc'[w] = "check" /\ job'[w] \in Jobs
        /\ \A v \in Workers : v # w => /\ wpc'[v] = wpc[v] /\ job'[v] = job[v]
                                       /\ jobs'[v] = jobs[v]
    BY <1>3, <2>2 DEF TypeOK, Receive, Goto
  <2>5. Memory' /\ NoWorkOnInterrupted'
    BY <1>3, <2>4, MemoryUntouched, NobodyStarts DEF Receive
  <2>6. HasItsJob'
    BY <2>4 DEF HasItsJob
  <2> QED
    BY <2>3, <2>5, <2>6
<1>4. CASE Idle(w)
  <2>1. TypeOK'
    BY <1>4 DEF TypeOK, Idle, Goto, memory, wires
  <2>2. \A v \in Workers : wpc'[v] = wpc[v] \/ wpc'[v] \in {"returned", "listen", "advertise"}
    BY <1>4 DEF TypeOK, Idle, Goto
  <2>3. Memory' /\ NoWorkOnInterrupted'
    BY <1>4, <2>2, MemoryUntouched, NobodyStarts DEF Idle
  <2>4. HasItsJob'
    BY <1>4, <2>2 DEF HasItsJob, Idle, wires
  <2> QED
    BY <2>1, <2>3, <2>4
<1> QED
  BY <1>1, <1>2, <1>3, <1>4
\* The stages with a job in hand: handle_interrupt before and during the work,
\* and the end of the work.
LEMMA JobOver ==
    ASSUME IInv, NEW w \in Workers, NEW how \in Outcomes, Over(w, how),
           wpc[w] \in {"check", "working"}
    PROVE  /\ outcomes' \in Seq(Jobs \X Outcomes)
           /\ job' \in [Workers -> Jobs \cup {NoJob}]
           /\ wpc' \in [Workers -> {"advertise", "poll", "receive", "check", "working",
                                    "idle", "listen", "returned", "terminated", "crashed"}]
           /\ wpc'[w] = "idle"
           /\ \A v \in Workers : v # w => wpc'[v] = wpc[v] /\ job'[v] = job[v]
<1>1. job[w] \in Jobs
  BY DEF IInv, HasItsJob
<1>2. outcomes \in Seq(Jobs \X Outcomes) /\ <<job[w], how>> \in Jobs \X Outcomes
  BY <1>1 DEF IInv, TypeOK
<1>3. outcomes' \in Seq(Jobs \X Outcomes)
  BY <1>2 DEF Over
<1> QED
  BY <1>3 DEF IInv, TypeOK, Over, Goto

\* Another worker's memory is no concern of a worker that reads.
LEMMA OthersUntouched ==
    ASSUME IInv, NEW w \in Workers, age' = age,
           \A v \in Workers : v # w => /\ heard'[v] = heard[v]
                                       /\ wpc'[v] = wpc[v] /\ job'[v] = job[v],
           wpc'[w] = "working" => job'[w] \notin heard'[w] \/ Old(job'[w])
    PROVE  NoWorkOnInterrupted'
BY DEF IInv, NoWorkOnInterrupted, Old

\* A worker that has read and is not interrupted has not been told to stop, unless
\* long ago.
LEMMA GoesOnUntold ==
    ASSUME IInv, NEW w \in Workers, Listen(w), NEW force_check \in BOOLEAN,
           ~Interrupted(w, force_check), force_check \/ Got(w) # {}
    PROVE  job[w] \notin heard'[w] \/ Old(job[w])
<1>1. job[w] \notin interrupts[w] \cup Got(w)
  BY DEF Interrupted
<1>2. heard'[w] = heard[w] \cup Got(w)
  BY DEF Listen, IInv, TypeOK
<1> QED
  BY <1>1, <1>2 DEF IInv, Memory, YoungIsRemembered

LEMMA JobKeeps ==
    ASSUME IInv, NEW w \in Workers,
           \/ Check(w) \/ Bail(w) \/ Throw(w)
           \/ \E how \in Outcomes, b \in Beats : Finish(w, how, b)
    PROVE  IInv'
<1>1. TypeOK /\ Memory /\ NoWorkOnInterrupted /\ HasItsJob
  BY DEF IInv
<1>2. ASSUME NEW how \in Outcomes, Over(w, how), wpc[w] \in {"check", "working"},
             UNCHANGED <<memory, wires, signaled, age, closing, cast>>,
             heart_beat' \in [Workers -> Beats]
      PROVE  IInv'
  <2>1. TypeOK'
    BY <1>1, <1>2, JobOver DEF TypeOK, memory, wires
  <2>2. Memory'
    BY <1>1, <1>2, MemoryUntouched
  <2>3. NoWorkOnInterrupted'
    BY <1>1, <1>2, JobOver, NobodyStarts
  <2>4. HasItsJob'
    BY <1>1, <1>2, JobOver DEF HasItsJob, wires
  <2> QED
    BY <2>1, <2>2, <2>3, <2>4 DEF IInv
<1>3. ASSUME Listen(w), Over(w, "interrupted"), wpc[w] \in {"check", "working"},
             UNCHANGED <<signaled, heart_beat, beats, jobs, age, closing, cast>>
      PROVE  IInv'
  <2>1. MemoryTypes' /\ Memory'
    BY <1>1, <1>3, ListenKeepsMemory
  <2>2. "interrupted" \in Outcomes
    BY DEF Outcomes
  <2>3. TypeOK'
    BY <1>1, <1>3, <2>1, <2>2, JobOver DEF TypeOK, MemoryTypes
  <2>4. \A v \in Workers : v # w => heard'[v] = heard[v]
    BY <1>1, <1>3 DEF Listen, TypeOK
  <2>5. NoWorkOnInterrupted'
    BY <1>3, <2>2, <2>4, JobOver, OthersUntouched
  <2>6. HasItsJob'
    BY <1>1, <1>3, <2>2, JobOver DEF HasItsJob
  <2> QED
    BY <2>1, <2>3, <2>5, <2>6 DEF IInv
<1>4. ASSUME Listen(w), NEW force_check \in BOOLEAN, ~Interrupted(w, force_check),
             force_check \/ Got(w) # {},
             wpc[w] \in {"check", "working"},
             wpc' = [wpc EXCEPT ![w] = "working"],
             UNCHANGED <<outcomes, job, signaled, heart_beat, beats, jobs, age, closing, cast>>
      PROVE  IInv'
  <2>1. MemoryTypes' /\ Memory'
    BY <1>1, <1>4, ListenKeepsMemory
  <2>2. TypeOK'
    BY <1>1, <1>4, <2>1 DEF TypeOK, MemoryTypes
  <2>3. \A v \in Workers : v # w => heard'[v] = heard[v] /\ wpc'[v] = wpc[v]
    BY <1>1, <1>4 DEF Listen, TypeOK
  <2>4. NoWorkOnInterrupted'
    BY <1>4, <2>3, GoesOnUntold, OthersUntouched
  <2>5. HasItsJob'
    BY <1>1, <1>4, <2>3 DEF HasItsJob, TypeOK
  <2> QED
    BY <2>1, <2>2, <2>4, <2>5 DEF IInv
<1>5. CASE Check(w)
  <2>1. wpc[w] = "check" /\ UNCHANGED <<signaled, heart_beat, beats, jobs, age, closing, cast>>
    BY <1>5 DEF Check
  <2>2. "interrupted" \in Outcomes /\ heart_beat \in [Workers -> Beats]
    BY <1>1 DEF Outcomes, TypeOK
  <2>3. CASE closing
    BY <1>2, <1>5, <2>1, <2>2, <2>3 DEF Check, memory, wires
  <2>4. CASE ~closing /\ Interrupted(w, TRUE)
    BY <1>3, <1>5, <2>1, <2>4 DEF Check
  <2>5. CASE ~closing /\ ~Interrupted(w, TRUE)
    BY <1>4, <1>5, <2>1, <2>5 DEF Check, Goto
  <2> QED
    BY <2>3, <2>4, <2>5
<1>6. CASE Bail(w)
  <2>1. wpc[w] = "working" /\ UNCHANGED <<signaled, heart_beat, beats, jobs, age, closing, cast>>
    BY <1>6 DEF Bail
  <2>2. "interrupted" \in Outcomes /\ heart_beat \in [Workers -> Beats]
    BY <1>1 DEF Outcomes, TypeOK
  <2>3. CASE closing
    BY <1>2, <1>6, <2>1, <2>2, <2>3 DEF Bail, memory, wires
  <2>4. CASE ~closing /\ Interrupted(w, FALSE)
    BY <1>3, <1>6, <2>1, <2>4 DEF Bail
  <2>5. CASE ~closing /\ ~Interrupted(w, FALSE)
    <3>1. Got(w) # {}
      BY <1>6, <2>5 DEF Bail, Got
    <3>2. wpc' = [wpc EXCEPT ![w] = "working"]
      BY <1>1, <1>6, <2>1, <2>5 DEF Bail, TypeOK
    <3> QED
      BY <1>4, <1>6, <2>1, <2>5, <3>1, <3>2 DEF Bail
  <2> QED
    BY <2>3, <2>4, <2>5
<1>7. CASE Throw(w)
  <2>1. "failed" \in Outcomes /\ heart_beat \in [Workers -> Beats]
    BY <1>1 DEF Outcomes, TypeOK
  <2> QED
    BY <1>2, <1>7, <2>1 DEF Throw, memory, wires
<1>8. ASSUME NEW how \in Outcomes, NEW b \in Beats, Finish(w, how, b) PROVE IInv'
  <2>1. heart_beat' \in [Workers -> Beats]
    BY <1>1, <1>8 DEF TypeOK, Finish
  <2> QED
    BY <1>2, <1>8, <2>1 DEF Finish, memory, wires
<1> QED
  BY <1>5, <1>6, <1>7, <1>8

\* handle_interrupt outside of a job, and the culling loop.
LEMMA ListenIdleKeeps ==
    ASSUME IInv, NEW w \in Workers, ListenIdle(w)
    PROVE  IInv'
<1>1. TypeOK /\ Memory /\ NoWorkOnInterrupted /\ HasItsJob
  BY DEF IInv
<1>2. \A v \in Workers : /\ v # w => wpc'[v] = wpc[v]
                         /\ v = w => wpc'[v] \in {"terminated", "advertise"}
  BY <1>1 DEF ListenIdle, Goto, TypeOK
<1>3. HasItsJob'
  BY <1>1, <1>2 DEF HasItsJob, ListenIdle
<1>4. MemoryTypes' /\ Memory' /\ NoWorkOnInterrupted'
  <2>1. CASE closing
    <3>1. UNCHANGED <<memory, published, age, job>>
      BY <2>1 DEF ListenIdle
    <3>2. Memory'
      BY <1>1, <3>1, MemoryUntouched
    <3>3. NoWorkOnInterrupted'
      BY <1>1, <1>2, <3>1, NobodyStarts
    <3> QED
      BY <1>1, <3>1, <3>2, <3>3 DEF TypeOK, MemoryTypes, memory
  <2>2. CASE ~closing
    <3>1. PICK n \in Stale(Noted(w)) : Cull(w, n)
      BY <2>2 DEF ListenIdle
    <3>2. /\ published' = [published EXCEPT ![w] = Unread(w)]
          /\ heard' = [heard EXCEPT ![w] = @ \cup Got(w)]
          /\ age' = age /\ job' = job
      BY <2>2 DEF ListenIdle
    <3>3. MemoryTypes' /\ Memory'
      BY <1>1, <3>1, <3>2, CullKeepsMemory
    <3>4. \A v \in Workers : v # w => heard'[v] = heard[v]
      BY <1>1, <3>2 DEF TypeOK
    <3>5. NoWorkOnInterrupted'
      BY <1>2, <3>2, <3>4, OthersUntouched
    <3> QED
      BY <3>3, <3>5
  <2> QED
    BY <2>1, <2>2
<1>5. TypeOK'
  BY <1>1, <1>4 DEF TypeOK, MemoryTypes, ListenIdle, Goto
<1> QED
  BY <1>3, <1>4, <1>5 DEF IInv

-----------------------------------------------------------------------------
(* The theorems                                                             *)

\* Whatever the workers, the proxy, the server, the clock and SIGTERM do and in
\* whatever order, the inductive invariant of worker_t::work and
\* worker_t::handle_interrupt holds.
THEOREM Invariance == Spec => []IInv
<1>1. Init => IInv
  <2> SUFFICES ASSUME Init PROVE IInv
    OBVIOUS
  <2>1. TypeOK
    <3>1. 0 .. AgeCutoff \subseteq Nat
      BY WorkerAssumption
    <3>2. age \in [Jobs -> Nat]
      BY <3>1 DEF Init
    <3>3. closing \in BOOLEAN
      BY Zenon DEF Init
    <3>4. outcomes \in Seq(Jobs \X Outcomes) /\ cast \in Nat
      BY DEF Init
    <3>5. /\ wpc \in [Workers -> {"advertise", "poll", "receive", "check", "working", "idle",
                                  "listen", "returned", "terminated", "crashed"}]
          /\ signaled \in [Workers -> SUBSET {"work", "interrupt"}]
          /\ job \in [Workers -> Jobs \cup {NoJob}]
          /\ heart_beat \in [Workers -> Beats]
      BY DEF Init
    <3>6. /\ interrupts \in [Workers -> SUBSET Jobs]
          /\ heard \in [Workers -> SUBSET Jobs]
          /\ interrupt_history \in [Workers -> Seq(Jobs)]
      BY DEF Init
    <3>7. /\ beats \in [Workers -> Seq(Beats)]
          /\ jobs \in [Workers -> Seq(Jobs)]
          /\ published \in [Workers -> Seq(Jobs)]
      BY DEF Init
    <3> QED
      BY <3>2, <3>3, <3>4, <3>5, <3>6, <3>7 DEF TypeOK
  <2>2. Memory /\ NoWorkOnInterrupted /\ HasItsJob
    BY DEF Init, Memory, YoungIsRemembered, RememberedIsCulled, NoWorkOnInterrupted,
           HasItsJob, Elements
  <2> QED
    BY <2>1, <2>2 DEF IInv
<1>2. IInv /\ [Next]_vars => IInv'
  <2> SUFFICES ASSUME IInv, [Next]_vars PROVE IInv'
    OBVIOUS
  <2>1. CASE Environment
    BY <2>1, EnvironmentKeeps
  <2>2. ASSUME NEW w \in Workers, Work(w) PROVE IInv'
    BY <2>2, LoopKeeps, JobKeeps, ListenIdleKeeps DEF Work
  <2>3. CASE UNCHANGED vars
    <3>1. TypeOK'
      BY <2>3 DEF vars, loop, memory, wires, IInv, TypeOK
    <3>2. Memory' /\ NoWorkOnInterrupted'
      BY <2>3, MemoryUntouched, NobodyStarts DEF vars, loop, IInv
    <3>3. HasItsJob'
      BY <2>3 DEF vars, loop, wires, IInv, HasItsJob
    <3> QED
      BY <3>1, <3>2, <3>3 DEF IInv
  <2> QED
    BY <2>1, <2>2, <2>3 DEF Next
<1> QED
  BY <1>1, <1>2, PTL DEF Spec

\* The type invariant of worker_t and of its sockets.
THEOREM TypeCorrect == Spec => []TypeOK
<1>1. IInv => TypeOK
  BY DEF IInv
<1> QED
  BY <1>1, Invariance, PTL

\* An id a worker has read stays in interrupts until it is past the cutoff, for
\* any order and repetition of ids and any moment of culling.
THEOREM YoungStays == Spec => []YoungIsRemembered
<1>1. IInv => YoungIsRemembered
  BY DEF IInv, Memory
<1> QED
  BY <1>1, Invariance, PTL

\* No worker works on a job it was told to abandon, before the job came or during
\* it, unless the id is past the cutoff.
THEOREM AbandonedIsLeft == Spec => []NoWorkOnInterrupted
<1>1. IInv => NoWorkOnInterrupted
  BY DEF IInv
<1> QED
  BY <1>1, Invariance, PTL

\* interrupts holds nothing that the culling loop will not come across.
THEOREM NothingKeptForEver == Spec => []RememberedIsCulled
<1>1. IInv => RememberedIsCulled
  BY DEF IInv, Memory
<1> QED
  BY <1>1, Invariance, PTL
================================================================================
