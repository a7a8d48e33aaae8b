------------------------------ MODULE ProxyProofs -----------------------------
(***************************************************************************)
(* Proofs about proxy_t::forward for any workers, jobs, list nodes and     *)
(* heartbeats: its containers stay each other's inverse, no job is lost on *)
(* the way or doubled, and what it does is what a load balancer may do.    *)
(***************************************************************************)
EXTENDS Proxy, FiniteSetTheorems, TLAPS

-----------------------------------------------------------------------------
(* Sequences                                                                *)

\* Every element has one place.
Distinct(s) == \A k, m \in DOMAIN s : s[k] = s[m] => k = m

LEMMA Appended ==
    ASSUME NEW S, NEW s \in Seq(S), NEW x \in S
    PROVE  /\ Append(s, x) \in Seq(S) /\ Append(s, x) # <<>>
           /\ Elements(Append(s, x)) = Elements(s) \cup {x}
           /\ Distinct(s) /\ x \notin Elements(s) => Distinct(Append(s, x))
<1>1. /\ Append(s, x) \in Seq(S) /\ Append(s, x) # <<>>
      /\ DOMAIN Append(s, x) = 1 .. Len(s) + 1 /\ DOMAIN s = 1 .. Len(s)
      /\ Append(s, x)[Len(s) + 1] = x
      /\ \A k \in 1 .. Len(s) : Append(s, x)[k] = s[k]
      /\ Len(s) \in Nat
  OBVIOUS
<1>2. Elements(Append(s, x)) = Elements(s) \cup {x}
  BY <1>1 DEF Elements
<1>3. Distinct(s) /\ x \notin Elements(s) => Distinct(Append(s, x))
  BY <1>1 DEF Distinct, Elements
<1> QED
  BY <1>1, <1>2, <1>3

LEMMA HeadOff ==
    ASSUME NEW S, NEW s \in Seq(S), s # <<>>
    PROVE  /\ Tail(s) \in Seq(S) /\ Head(s) \in S /\ Head(s) \in Elements(s)
           /\ Elements(s) = Elements(Tail(s)) \cup {Head(s)}
           /\ Distinct(s) => Distinct(Tail(s)) /\ Head(s) \notin Elements(Tail(s))
<1>1. /\ Tail(s) \in Seq(S) /\ Head(s) = s[1] /\ Head(s) \in S
      /\ DOMAIN Tail(s) = 1 .. Len(s) - 1 /\ DOMAIN s = 1 .. Len(s)
      /\ \A k \in 1 .. Len(s) - 1 : Tail(s)[k] = s[k + 1]
      /\ Len(s) \in Nat /\ Len(s) > 0
  OBVIOUS
<1>2. \A k \in 1 .. Len(s) : k = 1 \/ s[k] = Tail(s)[k - 1]
  BY <1>1
<1>3. Elements(s) = Elements(Tail(s)) \cup {Head(s)}
  <2>1. ASSUME NEW k \in 1 .. Len(s)
        PROVE  s[k] \in Elements(Tail(s)) \cup {Head(s)}
    <3>1. k = 1 \/ k - 1 \in 1 .. Len(s) - 1
      BY <1>1
    <3> QED
      BY <1>1, <1>2, <3>1 DEF Elements
  <2>2. ASSUME NEW k \in 1 .. Len(s) - 1
        PROVE  Tail(s)[k] \in Elements(s)
    <3>1. k + 1 \in 1 .. Len(s) /\ Tail(s)[k] = s[k + 1]
      BY <1>1
    <3> QED
      BY <1>1, <3>1 DEF Elements
  <2> QED
    BY <1>1, <2>1, <2>2 DEF Elements
<1>4. ASSUME Distinct(s)
      PROVE  Distinct(Tail(s)) /\ Head(s) \notin Elements(Tail(s))
  <2>1. ASSUME NEW k \in 1 .. Len(s) - 1, NEW m \in 1 .. Len(s) - 1, Tail(s)[k] = Tail(s)[m]
        PROVE  k = m
    <3>1. k + 1 \in 1 .. Len(s) /\ m + 1 \in 1 .. Len(s) /\ s[k + 1] = s[m + 1]
      BY <1>1, <2>1
    <3>2. k + 1 = m + 1
      BY <1>1, <1>4, <3>1 DEF Distinct
    <3> QED
      BY <1>1, <3>2
  <2>2. ASSUME NEW k \in 1 .. Len(s) - 1, Tail(s)[k] = Head(s)
        PROVE  FALSE
    <3>1. k + 1 \in 1 .. Len(s) /\ 1 \in 1 .. Len(s) /\ s[k + 1] = s[1] /\ k + 1 # 1
      BY <1>1, <2>2
    <3> QED
      BY <1>1, <1>4, <3>1 DEF Distinct
  <2> QED
    BY <1>1, <2>1, <2>2 DEF Distinct, Elements
<1> QED
  BY <1>1, <1>3, <1>4 DEF Elements

LEMMA Erased ==
    ASSUME NEW S, NEW s \in Seq(S), NEW n \in DOMAIN s, Distinct(s)
    PROVE  /\ Without(s, n) \in Seq(S)
           /\ Elements(Without(s, n)) = Elements(s) \ {s[n]}
           /\ Distinct(Without(s, n))
<1>1. /\ DOMAIN s = 1 .. Len(s) /\ Len(s) \in Nat /\ n \in 1 .. Len(s)
      /\ Len(s) - 1 \in Nat
  OBVIOUS
<1>2. Without(s, n) \in Seq(S)
  BY <1>1 DEF Without
<1>3. /\ DOMAIN Without(s, n) = 1 .. Len(s) - 1
      /\ \A m \in 1 .. Len(s) - 1 : Without(s, n)[m] = IF m < n THEN s[m] ELSE s[m + 1]
  BY <1>1 DEF Without
<1>4. \A k \in 1 .. Len(s) : \/ k = n
                             \/ k < n /\ k \in 1 .. Len(s) - 1 /\ s[k] = Without(s, n)[k]
                             \/ k > n /\ k - 1 \in 1 .. Len(s) - 1 /\ s[k] = Without(s, n)[k - 1]
  BY <1>1, <1>3
<1>5. Elements(Without(s, n)) = Elements(s) \ {s[n]}
  <2>1. ASSUME NEW m \in 1 .. Len(s) - 1
        PROVE  Without(s, n)[m] \in Elements(s) \ {s[n]}
    <3>1. PICK k \in 1 .. Len(s) : k # n /\ Without(s, n)[m] = s[k]
      BY <1>1, <1>3
    <3> QED
      BY <1>1, <3>1 DEF Elements, Distinct
  <2>2. ASSUME NEW k \in 1 .. Len(s), s[k] # s[n]
        PROVE  s[k] \in Elements(Without(s, n))
    BY <1>1, <1>3, <1>4, <2>2 DEF Elements
  <2> QED
    BY <1>1, <1>3, <2>1, <2>2 DEF Elements
<1>6. Distinct(Without(s, n))
  <2> SUFFICES ASSUME NEW k \in 1 .. Len(s) - 1, NEW m \in 1 .. Len(s) - 1,
                      Without(s, n)[k] = Without(s, n)[m]
               PROVE  k = m
    BY <1>3 DEF Distinct
  <2> DEFINE from(i) == IF i < n THEN i ELSE i + 1
  <2>1. from(k) \in 1 .. Len(s) /\ from(m) \in 1 .. Len(s) /\ s[from(k)] = s[from(m)]
    BY <1>1, <1>3
  <2>2. from(k) = from(m)
    BY <1>1, <2>1 DEF Distinct
  <2> QED
    BY <1>1, <2>2
<1> QED
  BY <1>2, <1>5, <1>6

-----------------------------------------------------------------------------
(* The inductive invariant                                                  *)

\* What poll reported of the upstream socket stays true up to the job stage.
Reported ==
    /\ pc = "job" => "upstream" \in ready
    /\ "upstream" \in ready => upstream # <<>> /\ fifo # <<>>

\* No job is in two places, and one that came is somewhere.
Apart ==
    /\ Distinct(upstream) /\ \A w \in Workers : Distinct(jobs[w])
    /\ \A j \in Elements(upstream) :
          j \in came /\ j \notin lost \cup took /\ \A w \in Workers : j \notin Elements(jobs[w])
    /\ \A w \in Workers : \A j \in Elements(jobs[w]) :
          /\ j \in came /\ j \notin lost \cup took
          /\ \A v \in Workers : j \in Elements(jobs[v]) => v = w
    /\ lost \cap took = {} /\ lost \cup took \subseteq came
    /\ \A j \in came : \/ j \in Elements(upstream) \cup lost \cup took
                       \/ \E w \in Workers : j \in Elements(jobs[w])

IInv == TypeOK /\ Bidirectional /\ ChooserSeesLatest /\ Reported /\ Apart

LEMMA InitIInv == Init => IInv
<1> SUFFICES ASSUME Init PROVE IInv
  OBVIOUS
<1>0. stopping \in BOOLEAN /\ choose_function \in BOOLEAN
  BY Zenon DEF Init
<1>1. TypeOK
  BY <1>0 DEF Init, TypeOK
<1>2. Bidirectional /\ ChooserSeesLatest
  BY DEF Init, Bidirectional, ChooserSeesLatest, Elements
<1>3. Reported
  BY DEF Init, Reported
<1>4. Apart
  BY DEF Init, Apart, Distinct, Elements
<1> QED
  BY <1>1, <1>2, <1>3, <1>4 DEF IInv

-----------------------------------------------------------------------------
(* The steps                                                                *)

\* What a step leaves alone when it does not touch a part of the state.
LEMMA Frames ==
    ASSUME IInv
    PROVE  /\ UNCHANGED <<fifo, workers, heart_beats>> => Bidirectional'
           /\ UNCHANGED <<beat, workers, latest>> => ChooserSeesLatest'
           /\ UNCHANGED <<pc, ready, upstream, fifo>> => Reported'
           /\ UNCHANGED <<upstream, jobs, came, lost, took>> => Apart'
  BY DEF IInv, Bidirectional, ChooserSeesLatest, Reported, Apart, Elements, Distinct

LEMMA ArriveStep == ASSUME IInv, NEW j \in Jobs, Arrive(j)
                    PROVE  IInv'
<1>1. /\ upstream \in Seq(Jobs) /\ upstream' = Append(upstream, j) /\ j \notin came
      /\ came' = came \cup {j}
      /\ UNCHANGED <<pc, ready, fifo, beat, workers, heart_beats, downstream, jobs, dead, lost,
                     stopping, took, latest, choose_function>>
  BY DEF Arrive, IInv, TypeOK, tables
<1>2. /\ upstream' \in Seq(Jobs) /\ upstream' # <<>>
      /\ Elements(upstream') = Elements(upstream) \cup {j}
      /\ Distinct(upstream) /\ j \notin Elements(upstream) => Distinct(upstream')
  BY <1>1, Appended
<1>3. TypeOK'
  BY <1>1, <1>2 DEF IInv, TypeOK
<1>4. Reported'
  BY <1>1, <1>2 DEF IInv, Reported
<1>5. Apart'
  <2>1. j \notin Elements(upstream)
    BY <1>1 DEF IInv, Apart
  <2>2. Distinct(upstream') /\ \A w \in Workers : Distinct(jobs'[w])
    BY <1>1, <1>2, <2>1 DEF IInv, Apart
  <2> QED
    BY <1>1, <1>2, <2>2 DEF IInv, Apart
<1> QED
  BY <1>1, <1>3, <1>4, <1>5, Frames DEF IInv

LEMMA AdvertiseStep == ASSUME IInv, NEW w \in Workers, NEW b \in Beats, Advertise(w, b)
                       PROVE  IInv'
<1>1. /\ downstream' = [downstream EXCEPT ![w] = Append(@, b)]
      /\ UNCHANGED <<pc, ready, fifo, beat, workers, heart_beats, upstream, jobs, dead, lost,
                     stopping, came, took, latest, choose_function>>
  BY DEF Advertise, tables
<1>2. TypeOK'
  BY <1>1 DEF IInv, TypeOK
<1> QED
  BY <1>1, <1>2, Frames DEF IInv

LEMMA TakeStep == ASSUME IInv, NEW w \in Workers, Take(w)
                  PROVE  IInv'
<1> DEFINE j == Head(jobs[w])
<1>1. /\ jobs \in [Workers -> Seq(Jobs)] /\ jobs[w] \in Seq(Jobs) /\ jobs[w] # <<>>
      /\ jobs' = [jobs EXCEPT ![w] = Tail(@)]
      /\ took' = took \cup {j}
      /\ UNCHANGED <<pc, ready, fifo, beat, workers, heart_beats, downstream, upstream, dead, lost,
                     stopping, came, latest, choose_function>>
  BY DEF Take, IInv, TypeOK, tables
<1>2. /\ jobs'[w] = Tail(jobs[w]) /\ \A v \in Workers : v # w => jobs'[v] = jobs[v]
      /\ jobs' \in [Workers -> Seq(Jobs)]
  BY <1>1, HeadOff
<1>3. /\ j \in Jobs /\ j \in Elements(jobs[w])
      /\ Elements(jobs[w]) = Elements(jobs'[w]) \cup {j}
      /\ Distinct(jobs'[w]) /\ j \notin Elements(jobs'[w])
  <2>1. Distinct(jobs[w])
    BY DEF IInv, Apart
  <2> QED
    BY <1>1, <1>2, <2>1, HeadOff
<1> HIDE DEF j
<1>4. TypeOK'
  BY <1>1, <1>2, <1>3 DEF IInv, TypeOK
<1>5. Reported'
  BY <1>1 DEF IInv, Reported
<1>6. Apart'
  <2>1. \A v \in Workers : Distinct(jobs'[v])
    BY <1>2, <1>3 DEF IInv, Apart
  <2>2. \A v \in Workers : \A i \in Elements(jobs'[v]) : i \in Elements(jobs[v]) /\ i # j
    BY <1>2, <1>3 DEF IInv, Apart
  <2>3. \A v \in Workers : \A i \in Elements(jobs[v]) : i \in Elements(jobs'[v]) \/ i = j
    BY <1>2, <1>3
  <2>4. j \in came /\ j \notin lost \cup took /\ j \notin Elements(upstream)
    BY <1>3 DEF IInv, Apart
  <2> QED
    BY <1>1, <2>1, <2>2, <2>3, <2>4 DEF IInv, Apart
<1> QED
  BY <1>1, <1>4, <1>5, <1>6, Frames DEF IInv

\* Steps that move neither a job nor a node.
LEMMA QuietSteps == ASSUME IInv, (\E w \in Workers : Die(w)) \/ Stop \/ Poll \/ Return
                    PROVE  IInv'
<1>1. CASE \E w \in Workers : Die(w)
  <2>1. /\ dead' \in SUBSET Workers
        /\ UNCHANGED <<pc, ready, tables, sockets, lost, stopping, came, took, latest,
                       choose_function>>
    BY <1>1 DEF Die, IInv, TypeOK
  <2>2. TypeOK'
    BY <2>1 DEF IInv, TypeOK, tables, sockets
  <2> QED
    BY <2>1, <2>2, Frames DEF IInv, tables, sockets
<1>2. CASE Stop
  <2>1. /\ stopping' \in BOOLEAN
        /\ UNCHANGED <<pc, ready, tables, sockets, dead, lost, came, took, latest,
                       choose_function>>
    BY <1>2, Zenon DEF Stop
  <2>2. TypeOK'
    BY <2>1 DEF IInv, TypeOK, tables, sockets
  <2> QED
    BY <2>1, <2>2, Frames DEF IInv, tables, sockets
<1>3. CASE Poll
  <2>1. UNCHANGED <<tables, sockets, dead, lost, stopping, came, took, latest, choose_function>>
    BY <1>3 DEF Poll
  <2>2. /\ ready' \in SUBSET {"downstream", "upstream"} /\ pc' \in {"beat", "job"}
        /\ pc' = "job" => "upstream" \in ready'
        /\ "upstream" \in ready' => upstream # <<>> /\ fifo # <<>>
    BY <1>3 DEF Poll, Polled
  <2>3. TypeOK'
    BY <2>1, <2>2 DEF IInv, TypeOK, tables, sockets
  <2>4. Reported'
    BY <2>1, <2>2 DEF Reported, tables, sockets
  <2> QED
    BY <2>1, <2>3, <2>4, Frames DEF IInv, tables, sockets
<1>4. CASE Return
  <2>1. /\ pc' = "returned"
        /\ UNCHANGED <<ready, tables, sockets, dead, lost, stopping, came, took, latest,
                       choose_function>>
    BY <1>4 DEF Return
  <2>2. TypeOK' /\ Reported'
    BY <2>1 DEF IInv, TypeOK, Reported, tables, sockets
  <2> QED
    BY <2>1, <2>2, Frames DEF IInv, tables, sockets
<1> QED
  BY <1>1, <1>2, <1>3, <1>4

\* A heartbeat is taken off a connection, and what is next.
LEMMA BeatRead == ASSUME IInv, NEW w \in Workers, HasBeat(w), ReadBeat(w), pc = "beat"
                  PROVE  /\ downstream' \in [Workers -> Seq(Beats)]
                         /\ latest' \in [Workers -> Beats \cup {None}]
                         /\ Head(downstream[w]) \in Beats
                         /\ latest'[w] = Head(downstream[w])
                         /\ \A v \in Workers : v # w => latest'[v] = latest[v]
                         /\ pc' \in {"job", "poll"}
                         /\ ready' \in SUBSET ready
                         /\ pc' = "job" => "upstream" \in ready'
<1>1. /\ downstream[w] \in Seq(Beats) /\ downstream[w] # <<>>
      /\ downstream \in [Workers -> Seq(Beats)] /\ latest \in [Workers -> Beats \cup {None}]
  BY DEF HasBeat, IInv, TypeOK
<1>2. Head(downstream[w]) \in Beats /\ Tail(downstream[w]) \in Seq(Beats)
  BY <1>1, HeadOff
<1> QED
  BY <1>1, <1>2 DEF ReadBeat, AfterBeat

LEMMA NewWorkerStep == ASSUME IInv, NEW w \in Workers, NewWorker(w)
                       PROVE  IInv'
<1>1. PICK n \in Nodes \ Elements(fifo) :
        /\ fifo' = Append(fifo, n)
        /\ beat' = [beat EXCEPT ![n] = Head(downstream[w])]
        /\ workers' = [workers EXCEPT ![w] = n]
        /\ heart_beats' = [heart_beats EXCEPT ![n] = w]
  BY DEF NewWorker
<1>2. /\ HasBeat(w) /\ ReadBeat(w) /\ pc = "beat" /\ workers[w] = None
      /\ UNCHANGED <<upstream, jobs, dead, lost, stopping, came, took, choose_function>>
  BY DEF NewWorker
<1>3. /\ fifo' \in Seq(Nodes) /\ fifo' # <<>> /\ Elements(fifo') = Elements(fifo) \cup {n}
      /\ Distinct(fifo')
  <2>1. Distinct(fifo) /\ fifo \in Seq(Nodes)
    BY DEF IInv, TypeOK, Bidirectional, Distinct
  <2> QED
    BY <1>1, <2>1, Appended
<1>4. /\ downstream' \in [Workers -> Seq(Beats)]
      /\ latest' \in [Workers -> Beats \cup {None}]
      /\ Head(downstream[w]) \in Beats /\ latest'[w] = Head(downstream[w])
      /\ \A v \in Workers : v # w => latest'[v] = latest[v]
      /\ pc' \in {"job", "poll"} /\ ready' \in SUBSET ready
      /\ pc' = "job" => "upstream" \in ready'
  BY <1>2, BeatRead
<1>5. TypeOK'
  BY <1>1, <1>2, <1>3, <1>4 DEF IInv, TypeOK
<1>6. /\ workers'[w] = n /\ heart_beats'[n] = w /\ beat'[n] = Head(downstream[w])
      /\ \A v \in Workers : v # w => workers'[v] = workers[v]
      /\ \A m \in Nodes : m # n => heart_beats'[m] = heart_beats[m] /\ beat'[m] = beat[m]
  BY <1>1 DEF IInv, TypeOK
<1>7. \A v \in Workers : v # w => workers'[v] # n
  BY <1>1, <1>6, ProxyAssumption DEF IInv, Bidirectional
<1>8. \A m \in Nodes : heart_beats[m] # w
  BY <1>2, ProxyAssumption DEF IInv, Bidirectional
<1>9. Bidirectional'
  <2>1. ASSUME NEW v \in Workers, workers'[v] # None
        PROVE  workers'[v] \in Elements(fifo') /\ heart_beats'[workers'[v]] = v
    <3>1. CASE v = w
      BY <1>3, <1>6, <3>1
    <3>2. CASE v # w
      <4>1. workers'[v] = workers[v] /\ workers[v] \in Nodes /\ workers[v] # n
        BY <1>6, <1>7, <2>1, <3>2 DEF IInv, TypeOK
      <4>2. workers[v] \in Elements(fifo) /\ heart_beats[workers[v]] = v
        BY <2>1, <4>1 DEF IInv, Bidirectional
      <4> QED
        BY <1>3, <1>6, <4>1, <4>2
    <3> QED
      BY <3>1, <3>2
  <2>2. ASSUME NEW m \in Nodes, heart_beats'[m] # None
        PROVE  workers'[heart_beats'[m]] = m
    <3>1. CASE m = n
      BY <1>6, <3>1
    <3>2. CASE m # n
      <4>1. /\ heart_beats'[m] = heart_beats[m] /\ heart_beats[m] \in Workers
            /\ heart_beats[m] # w
        BY <1>6, <1>8, <2>2, <3>2 DEF IInv, TypeOK
      <4>2. workers[heart_beats[m]] = m
        BY <2>2, <4>1 DEF IInv, Bidirectional
      <4> QED
        BY <1>6, <4>1, <4>2
    <3> QED
      BY <3>1, <3>2
  <2>3. \A m \in Elements(fifo') : heart_beats'[m] # None
    <3>1. Elements(fifo) \subseteq Nodes
      BY DEF IInv, TypeOK, Elements
    <3> QED
      BY <1>3, <1>6, <3>1, ProxyAssumption DEF IInv, Bidirectional
  <2> QED
    BY <1>3, <2>1, <2>2, <2>3 DEF Bidirectional, Distinct
<1>10. ChooserSeesLatest'
  <2> SUFFICES ASSUME NEW v \in Workers, workers'[v] # None
               PROVE  beat'[workers'[v]] = latest'[v]
    BY DEF ChooserSeesLatest
  <2>1. CASE v = w
    BY <1>4, <1>6, <2>1
  <2>2. CASE v # w
    <3>1. workers'[v] = workers[v] /\ workers[v] \in Nodes /\ workers[v] # n
      BY <1>6, <1>7, <2>2 DEF IInv, TypeOK
    <3>2. beat[workers[v]] = latest[v]
      BY <3>1 DEF IInv, ChooserSeesLatest
    <3> QED
      BY <1>4, <1>6, <2>2, <3>1, <3>2
  <2> QED
    BY <2>1, <2>2
<1>11. Reported'
  BY <1>2, <1>3, <1>4 DEF IInv, Reported
<1> QED
  BY <1>2, <1>5, <1>9, <1>10, <1>11, Frames DEF IInv

LEMMA KnownWorkerStep == ASSUME IInv, NEW w \in Workers, KnownWorker(w)
                         PROVE  IInv'
<1>1. /\ HasBeat(w) /\ ReadBeat(w) /\ pc = "beat" /\ workers[w] # None
      /\ beat' = [beat EXCEPT ![workers[w]] = Head(downstream[w])]
      /\ UNCHANGED <<fifo, workers, heart_beats, upstream, jobs, dead, lost, stopping, came,
                     took, choose_function>>
  BY DEF KnownWorker, NodeOf
<1>2. /\ downstream' \in [Workers -> Seq(Beats)]
      /\ latest' \in [Workers -> Beats \cup {None}]
      /\ Head(downstream[w]) \in Beats /\ latest'[w] = Head(downstream[w])
      /\ \A v \in Workers : v # w => latest'[v] = latest[v]
      /\ pc' \in {"job", "poll"} /\ ready' \in SUBSET ready
      /\ pc' = "job" => "upstream" \in ready'
  BY <1>1, BeatRead
<1>3. TypeOK'
  BY <1>1, <1>2 DEF IInv, TypeOK
<1>4. ChooserSeesLatest'
  <2>1. \A v \in Workers : v # w /\ workers[v] # None => workers[v] # workers[w]
    BY <1>1 DEF IInv, Bidirectional
  <2> QED
    BY <1>1, <1>2, <2>1 DEF IInv, TypeOK, ChooserSeesLatest
<1>5. Reported'
  BY <1>1, <1>2 DEF IInv, Reported
<1> QED
  BY <1>1, <1>3, <1>4, <1>5, Frames DEF IInv

\* What a dispatched job does to the lists: the k-th node of fifo is chosen, the
\* first one if there is no choose function, and it is the node of worker w.
LEMMA DispatchFacts ==
    ASSUME IInv, NEW p \in Nodes \cup {None}, Dispatch(p)
    PROVE  \E k \in DOMAIN fifo, w \in Workers :
              /\ ~choose_function => k = 1
              /\ heart_beats[fifo[k]] = w /\ workers[w] = fifo[k]
              /\ fifo' = Without(fifo, k)
              /\ workers' = [workers EXCEPT ![w] = None]
              /\ heart_beats' = [heart_beats EXCEPT ![fifo[k]] = None]
              /\ beat' = [beat EXCEPT ![fifo[k]] = None]
              /\ latest' = [latest EXCEPT ![w] = None]
              /\ \/ /\ jobs' = [jobs EXCEPT ![w] = Append(@, Head(upstream))]
                    /\ lost' = lost
                 \/ lost' = lost \cup {Head(upstream)} /\ jobs' = jobs
<1> DEFINE n == Chosen(p)
           w == heart_beats[n]
<1>1. fifo # <<>> /\ fifo \in Seq(Nodes) /\ Head(fifo) = fifo[1] /\ 1 \in DOMAIN fifo
  BY DEF IInv, TypeOK, Reported, Dispatch
<1>2. n \in Nodes /\ w # None
  BY <1>1 DEF Chosen, IInv, TypeOK, Bidirectional, Elements
<1>3. w \in Workers /\ workers[w] = n
  BY <1>2 DEF IInv, TypeOK, Bidirectional
<1> DEFINE k == CHOOSE i \in DOMAIN fifo : fifo[i] = workers[w]
<1>4. k \in DOMAIN fifo /\ fifo[k] = n
  <2>1. workers[w] \in Elements(fifo)
    BY <1>2, <1>3, ProxyAssumption DEF IInv, Bidirectional
  <2>2. \E i \in DOMAIN fifo : fifo[i] = workers[w]
    BY <2>1 DEF Elements
  <2> QED
    BY <1>3, <2>2
<1>5. ~choose_function => k = 1
  <2>1. ~choose_function => fifo[k] = fifo[1]
    BY <1>1, <1>4 DEF Dispatch, Chosen
  <2> QED
    BY <1>1, <1>4, <2>1 DEF IInv, Bidirectional
<1>6. /\ fifo' = Without(fifo, k)
      /\ workers' = [workers EXCEPT ![w] = None]
      /\ heart_beats' = [heart_beats EXCEPT ![n] = None]
      /\ beat' = [beat EXCEPT ![n] = None]
      /\ latest' = [latest EXCEPT ![w] = None]
      /\ \/ /\ jobs' = [jobs EXCEPT ![w] = Append(@, Head(upstream))]
            /\ lost' = lost
         \/ lost' = lost \cup {Head(upstream)} /\ jobs' = jobs
  BY DEF Dispatch, Dropped, ForgetHeartBeat
<1> HIDE DEF n, w, k
<1> QED
  BY <1>3, <1>4, <1>5, <1>6 DEF w

\* The first job leaves the upstream socket, for a worker or for nobody.
LEMMA JobMoves ==
    ASSUME IInv, upstream # <<>>, upstream' = Tail(upstream), UNCHANGED <<came, took>>,
           NEW w \in Workers,
           \/ jobs' = [jobs EXCEPT ![w] = Append(@, Head(upstream))] /\ lost' = lost
           \/ lost' = lost \cup {Head(upstream)} /\ jobs' = jobs
    PROVE  /\ upstream' \in Seq(Jobs) /\ jobs' \in [Workers -> Seq(Jobs)]
           /\ lost' \in SUBSET Jobs
           /\ Apart'
<1> DEFINE j == Head(upstream)
<1>1. /\ j \in Jobs /\ j \in Elements(upstream) /\ upstream' \in Seq(Jobs)
      /\ Elements(upstream) = Elements(upstream') \cup {j}
      /\ Distinct(upstream') /\ j \notin Elements(upstream')
  <2>1. upstream \in Seq(Jobs) /\ Distinct(upstream)
    BY DEF IInv, TypeOK, Apart
  <2> QED
    BY <2>1, HeadOff
<1>2. /\ j \in came /\ j \notin lost \cup took
      /\ \A v \in Workers : j \notin Elements(jobs[v])
  BY <1>1 DEF IInv, Apart
<1>3. CASE jobs' = [jobs EXCEPT ![w] = Append(@, j)] /\ lost' = lost
  <2>1. jobs \in [Workers -> Seq(Jobs)] /\ jobs[w] \in Seq(Jobs) /\ Distinct(jobs[w])
    BY DEF IInv, TypeOK, Apart
  <2>2. /\ Append(jobs[w], j) \in Seq(Jobs)
        /\ Elements(Append(jobs[w], j)) = Elements(jobs[w]) \cup {j}
        /\ Distinct(Append(jobs[w], j))
    BY <1>1, <1>2, <2>1, Appended
  <2> HIDE DEF j
  <2>3. /\ jobs'[w] = Append(jobs[w], j) /\ \A v \in Workers : v # w => jobs'[v] = jobs[v]
        /\ jobs' \in [Workers -> Seq(Jobs)]
    BY <1>3, <2>1, <2>2
  <2>4. \A v \in Workers : Distinct(jobs'[v])
    BY <2>2, <2>3 DEF IInv, Apart
  <2>5. \A v \in Workers : \A i \in Elements(jobs'[v]) :
           (i \in Elements(jobs[v]) /\ i # j) \/ (v = w /\ i = j)
    <3> SUFFICES ASSUME NEW v \in Workers, NEW i \in Elements(jobs'[v])
                 PROVE  (i \in Elements(jobs[v]) /\ i # j) \/ (v = w /\ i = j)
      OBVIOUS
    <3>1. CASE v = w
      <4>1. Elements(jobs'[w]) = Elements(jobs[w]) \cup {j}
        BY <2>2, <2>3
      <4> QED
        BY <1>2, <3>1, <4>1
    <3>2. CASE v # w
      <4>1. jobs'[v] = jobs[v]
        BY <2>3, <3>2
      <4> QED
        BY <1>2, <3>2, <4>1
    <3> QED
      BY <3>1, <3>2
  <2>6. \A v \in Workers : \A i \in Elements(jobs[v]) : i \in Elements(jobs'[v])
    BY <2>2, <2>3
  <2>7. j \in Elements(jobs'[w])
    BY <2>2, <2>3
  <2>8. Apart'
    <3>1. \A i \in Elements(upstream') :
            i \in came' /\ i \notin lost' \cup took' /\ \A v \in Workers : i \notin Elements(jobs'[v])
      BY <1>1, <1>3, <2>5 DEF IInv, Apart
    <3>2. \A v \in Workers : \A i \in Elements(jobs'[v]) :
            /\ i \in came' /\ i \notin lost' \cup took'
            /\ \A u \in Workers : i \in Elements(jobs'[u]) => u = v
      <4> SUFFICES ASSUME NEW v \in Workers, NEW i \in Elements(jobs'[v])
                   PROVE  /\ i \in came /\ i \notin lost \cup took
                          /\ \A u \in Workers : i \in Elements(jobs'[u]) => u = v
        BY <1>3
      <4>1. CASE i = j
        BY <1>2, <2>5, <4>1
      <4>2. CASE i # j
        <5>1. \A u \in Workers : i \in Elements(jobs'[u]) => i \in Elements(jobs[u])
          BY <2>5, <4>2
        <5> QED
          BY <5>1 DEF IInv, Apart
      <4> QED
        BY <4>1, <4>2
    <3>3. \A i \in came' : \/ i \in Elements(upstream') \cup lost' \cup took'
                           \/ \E v \in Workers : i \in Elements(jobs'[v])
      <4> SUFFICES ASSUME NEW i \in came
                   PROVE  \/ i \in Elements(upstream') \cup lost \cup took
                          \/ \E v \in Workers : i \in Elements(jobs'[v])
        BY <1>3
      <4>1. \/ i \in Elements(upstream) \cup lost \cup took
            \/ \E v \in Workers : i \in Elements(jobs[v])
        BY DEF IInv, Apart
      <4> QED
        BY <1>1, <2>6, <2>7, <4>1
    <3>4. lost' \cap took' = {} /\ lost' \cup took' \subseteq came'
      BY <1>3 DEF IInv, Apart
    <3> QED
      BY <1>1, <2>4, <3>1, <3>2, <3>3, <3>4 DEF Apart
  <2> QED
    BY <1>1, <1>3, <2>3, <2>8 DEF IInv, TypeOK
<1>4. CASE lost' = lost \cup {j} /\ jobs' = jobs
  <2> HIDE DEF j
  <2>1. Apart'
    BY <1>1, <1>2, <1>4 DEF IInv, Apart
  <2> QED
    BY <1>1, <1>4, <2>1 DEF IInv, TypeOK
<1> QED
  BY <1>3, <1>4

LEMMA DispatchStep == ASSUME IInv, NEW p \in Nodes \cup {None}, Dispatch(p)
                      PROVE  IInv'
<1>1. PICK k \in DOMAIN fifo, w \in Workers :
              /\ heart_beats[fifo[k]] = w /\ workers[w] = fifo[k]
              /\ fifo' = Without(fifo, k)
              /\ workers' = [workers EXCEPT ![w] = None]
              /\ heart_beats' = [heart_beats EXCEPT ![fifo[k]] = None]
              /\ beat' = [beat EXCEPT ![fifo[k]] = None]
              /\ latest' = [latest EXCEPT ![w] = None]
              /\ \/ /\ jobs' = [jobs EXCEPT ![w] = Append(@, Head(upstream))]
                    /\ lost' = lost
                 \/ lost' = lost \cup {Head(upstream)} /\ jobs' = jobs
  BY DispatchFacts
<1> DEFINE n == fifo[k]
<1>2. /\ pc' = "poll" /\ ready' = {} /\ upstream' = Tail(upstream) /\ upstream # <<>>
      /\ UNCHANGED <<downstream, dead, stopping, came, took, choose_function>>
  BY DEF Dispatch, Rest, IInv, Reported
<1>3. n \in Nodes /\ n \in Elements(fifo)
  BY DEF IInv, TypeOK, Elements
<1>4. /\ fifo' \in Seq(Nodes) /\ Elements(fifo') = Elements(fifo) \ {n} /\ Distinct(fifo')
  <2>1. Distinct(fifo) /\ fifo \in Seq(Nodes)
    BY DEF IInv, TypeOK, Bidirectional, Distinct
  <2> QED
    BY <1>1, <2>1, Erased
<1> HIDE DEF n
<1>5. /\ upstream' \in Seq(Jobs) /\ jobs' \in [Workers -> Seq(Jobs)]
      /\ lost' \in SUBSET Jobs /\ Apart'
  BY <1>1, <1>2, JobMoves
<1>6. /\ workers'[w] = None /\ heart_beats'[n] = None
      /\ \A v \in Workers : v # w => workers'[v] = workers[v] /\ latest'[v] = latest[v]
      /\ \A m \in Nodes : m # n => heart_beats'[m] = heart_beats[m] /\ beat'[m] = beat[m]
      /\ workers' \in [Workers -> Nodes \cup {None}]
      /\ heart_beats' \in [Nodes -> Workers \cup {None}]
      /\ beat' \in [Nodes -> Beats \cup {None}] /\ latest' \in [Workers -> Beats \cup {None}]
  BY <1>1, <1>3 DEF IInv, TypeOK, n
<1>7. TypeOK'
  BY <1>2, <1>4, <1>5, <1>6 DEF IInv, TypeOK
<1>8. ASSUME NEW v \in Workers, workers'[v] # None
      PROVE  /\ v # w /\ workers'[v] = workers[v] /\ workers[v] \in Nodes \ {n}
             /\ workers[v] \in Elements(fifo) /\ heart_beats[workers[v]] = v
  <2>1. v # w /\ workers'[v] = workers[v]
    BY <1>6, <1>8
  <2>2. workers[v] \in Nodes /\ workers[v] \in Elements(fifo) /\ heart_beats[workers[v]] = v
    BY <1>8, <2>1 DEF IInv, TypeOK, Bidirectional
  <2> QED
    BY <1>1, <2>1, <2>2 DEF n
<1>9. Bidirectional'
  <2>1. \A v \in Workers : workers'[v] # None =>
          workers'[v] \in Elements(fifo') /\ heart_beats'[workers'[v]] = v
    BY <1>4, <1>6, <1>8
  <2>2. ASSUME NEW m \in Nodes, heart_beats'[m] # None
        PROVE  workers'[heart_beats'[m]] = m
    <3>1. m # n /\ heart_beats'[m] = heart_beats[m]
      BY <1>6, <2>2
    <3>2. heart_beats[m] \in Workers /\ workers[heart_beats[m]] = m
      BY <2>2, <3>1 DEF IInv, TypeOK, Bidirectional
    <3>3. heart_beats[m] # w
      BY <1>1, <3>1, <3>2 DEF n
    <3> QED
      BY <1>6, <3>1, <3>2, <3>3
  <2>3. \A m \in Elements(fifo') : heart_beats'[m] # None
    <3>1. Elements(fifo) \subseteq Nodes
      BY DEF IInv, TypeOK, Elements
    <3> QED
      BY <1>4, <1>6, <3>1 DEF IInv, Bidirectional
  <2> QED
    BY <1>4, <2>1, <2>2, <2>3 DEF Bidirectional, Distinct
<1>10. ChooserSeesLatest'
  BY <1>6, <1>8 DEF IInv, ChooserSeesLatest
<1>11. Reported'
  BY <1>2 DEF Reported
<1> QED
  BY <1>5, <1>7, <1>9, <1>10, <1>11 DEF IInv

LEMMA ThrowStep == ASSUME IInv, ChooseThrows
                   PROVE  IInv'
<1>1. /\ pc' = "poll" /\ ready' = {} /\ upstream' = Tail(upstream) /\ upstream # <<>>
      /\ fifo # <<>> /\ lost' = lost \cup {Head(upstream)}
      /\ UNCHANGED <<tables, downstream, jobs, dead, stopping, came, took, latest,
                     choose_function>>
  BY DEF ChooseThrows, Rest, IInv, Reported
<1>2. \E w \in Workers : TRUE
  <2>1. fifo \in Seq(Nodes) /\ heart_beats \in [Nodes -> Workers \cup {None}]
    BY DEF IInv, TypeOK
  <2>2. fifo[1] \in Nodes /\ fifo[1] \in Elements(fifo)
    BY <1>1, <2>1 DEF Elements
  <2>3. heart_beats[fifo[1]] # None
    BY <2>2 DEF IInv, Bidirectional
  <2> QED
    BY <2>1, <2>2, <2>3
<1>3. upstream' \in Seq(Jobs) /\ lost' \in SUBSET Jobs /\ Apart'
  BY <1>1, <1>2, JobMoves
<1>4. TypeOK' /\ Reported'
  BY <1>1, <1>3 DEF IInv, TypeOK, Reported, tables
<1> QED
  BY <1>1, <1>3, <1>4, Frames DEF IInv, tables

LEMMA StepIInv == IInv /\ [Next]_vars => IInv'
<1> SUFFICES ASSUME IInv, [Next]_vars
             PROVE  IInv'
  OBVIOUS
<1>1. CASE UNCHANGED vars
  <2>1. TypeOK'
    BY <1>1 DEF vars, tables, sockets, IInv, TypeOK
  <2> QED
    BY <1>1, <2>1, Frames DEF vars, tables, sockets, IInv
<1>2. CASE Environment
  BY <1>2, ArriveStep, AdvertiseStep, TakeStep, QuietSteps DEF Environment
<1>3. CASE Forward
  BY <1>3, QuietSteps, ThrowStep, NewWorkerStep, KnownWorkerStep, DispatchStep DEF Forward
<1> QED
  BY <1>1, <1>2, <1>3 DEF Next

-----------------------------------------------------------------------------
(* Safety                                                                   *)

\* The containers of forward() and the places of jobs, over all its steps.
THEOREM Invariance == Spec => []IInv
  BY InitIInv, StepIInv, PTL DEF Spec

\* Everything forward() and its two layers keep has its type, for any workers, jobs
\* and heartbeats.
THEOREM TypeCorrect == Spec => []TypeOK
<1>1. IInv => TypeOK
  BY DEF IInv
<1> QED
  BY <1>1, Invariance, PTL

\* The mapping between addresses and list nodes is bidirectional at all times, so
\* that forward() never follows a pointer, an address or an iterator to nowhere.
THEOREM MappingHolds == Spec => []Bidirectional
<1>1. IInv => Bidirectional
  BY DEF IInv
<1> QED
  BY <1>1, Invariance, PTL

\* choose_function is shown every idle worker's last heartbeat.
THEOREM ShowsLatest == Spec => []ChooserSeesLatest
<1>1. IInv => ChooserSeesLatest
  BY DEF IInv
<1> QED
  BY <1>1, Invariance, PTL

\* forward() reads a job only when there is one, and a worker to take it.
THEOREM FrontIsThere == Spec => []JobHasTaker
<1>1. IInv => JobHasTaker
  BY DEF IInv, Reported, JobHasTaker
<1> QED
  BY <1>1, Invariance, PTL

\* A job that came has one place.
LEMMA OnePlace == ASSUME IInv, NEW j \in came
                  PROVE  \E x : Places(j) = {x}
<1>1. CASE j \in Elements(upstream)
  <2>1. PICK k \in DOMAIN upstream : upstream[k] = j
    BY <1>1 DEF Elements
  <2>2. {i \in DOMAIN upstream : upstream[i] = j} = {k}
    BY <2>1 DEF IInv, Apart, Distinct
  <2>3. \A w \in Workers : {i \in DOMAIN jobs[w] : jobs[w][i] = j} = {}
    BY <1>1 DEF IInv, Apart, Elements
  <2>4. lost \cap {j} = {} /\ took \cap {j} = {}
    BY <1>1 DEF IInv, Apart
  <2>5. UpstreamPlaces(j) = {<<"upstream", k>>}
    BY <2>2 DEF UpstreamPlaces
  <2>6. WorkerPlaces(j) = {}
    BY <2>3 DEF WorkerPlaces
  <2> QED
    BY <2>4, <2>5, <2>6 DEF Places
<1>2. CASE \E w \in Workers : j \in Elements(jobs[w])
  <2>1. PICK w \in Workers : j \in Elements(jobs[w])
    BY <1>2
  <2>2. PICK k \in DOMAIN jobs[w] : jobs[w][k] = j
    BY <2>1 DEF Elements
  <2>3. {i \in DOMAIN upstream : upstream[i] = j} = {}
    BY <2>1 DEF IInv, Apart, Elements
  <2>4. {i \in DOMAIN jobs[w] : jobs[w][i] = j} = {k}
    BY <2>2 DEF IInv, Apart, Distinct
  <2>5. \A v \in Workers : v # w => {i \in DOMAIN jobs[v] : jobs[v][i] = j} = {}
    BY <2>1 DEF IInv, Apart, Elements
  <2>6. lost \cap {j} = {} /\ took \cap {j} = {}
    BY <2>1 DEF IInv, Apart
  <2>7. UpstreamPlaces(j) = {}
    BY <2>3 DEF UpstreamPlaces
  <2>8. WorkerPlaces(j) = {<<w, k>>}
    BY <2>4, <2>5 DEF WorkerPlaces
  <2> QED
    BY <2>6, <2>7, <2>8 DEF Places
<1>3. CASE j \in lost \cup took
  <2>1. {i \in DOMAIN upstream : upstream[i] = j} = {}
    BY <1>3 DEF IInv, Apart, Elements
  <2>2. \A w \in Workers : {i \in DOMAIN jobs[w] : jobs[w][i] = j} = {}
    BY <1>3 DEF IInv, Apart, Elements
  <2>3. \/ lost \cap {j} = {j} /\ took \cap {j} = {}
        \/ lost \cap {j} = {} /\ took \cap {j} = {j}
    BY <1>3 DEF IInv, Apart
  <2>4. UpstreamPlaces(j) = {}
    BY <2>1 DEF UpstreamPlaces
  <2>5. WorkerPlaces(j) = {}
    BY <2>2 DEF WorkerPlaces
  <2>6. CASE lost \cap {j} = {j} /\ took \cap {j} = {}
    <3>1. Places(j) = {<<"lost", 0>>}
      BY <2>4, <2>5, <2>6 DEF Places
    <3> QED
      BY <3>1
  <2>7. CASE lost \cap {j} = {} /\ took \cap {j} = {j}
    <3>1. Places(j) = {<<"took", 0>>}
      BY <2>4, <2>5, <2>7 DEF Places
    <3> QED
      BY <3>1
  <2> QED
    BY <2>3, <2>6, <2>7
<1> QED
  BY <1>1, <1>2, <1>3 DEF IInv, Apart

\* forward() neither drops a job without a trace nor sends it twice, whatever
\* choose_function does and whoever dies.
THEOREM NoJobMislaid == Spec => []JobsConserved
<1>1. IInv => JobsConserved
  BY OnePlace, FS_Singleton DEF JobsConserved
<1> QED
  BY <1>1, Invariance, PTL

-----------------------------------------------------------------------------
(* Refinement: forward() is a load balancer.                                *)

\* The idle workers in the order of their nodes, as Balancer reads them off fifo.
IdleWorkers == [n \in DOMAIN fifo |-> heart_beats[fifo[n]]]

LEMMA IdleList ==
    ASSUME NEW f \in Seq(Nodes), NEW h \in [Nodes -> Workers \cup {None}],
           \A n \in Elements(f) : h[n] # None
    PROVE  LET idle == [n \in DOMAIN f |-> h[f[n]]]
           IN  /\ idle \in Seq(Workers) /\ Len(idle) = Len(f)
               /\ DOMAIN idle = 1 .. Len(f) /\ DOMAIN f = 1 .. Len(f)
               /\ Len(f) \in Nat
               /\ \A n \in 1 .. Len(f) : idle[n] = h[f[n]]
<1>1. \A n \in DOMAIN f : h[f[n]] \in Workers
  BY DEF Elements
<1> QED
  BY <1>1

\* In a state that satisfies the invariant, and in the next one.
LEMMA IdleType ==
    ASSUME IInv, IInv'
    PROVE  /\ IdleWorkers \in Seq(Workers) /\ Len(IdleWorkers) = Len(fifo)
           /\ DOMAIN IdleWorkers = 1 .. Len(fifo) /\ DOMAIN fifo = 1 .. Len(fifo)
           /\ Len(fifo) \in Nat
           /\ \A n \in 1 .. Len(fifo) : IdleWorkers[n] = heart_beats[fifo[n]]
           /\ IdleWorkers' \in Seq(Workers) /\ Len(IdleWorkers') = Len(fifo')
           /\ DOMAIN IdleWorkers' = 1 .. Len(fifo')
           /\ \A n \in 1 .. Len(fifo') : IdleWorkers'[n] = heart_beats'[fifo'[n]]
<1>1. /\ fifo \in Seq(Nodes) /\ heart_beats \in [Nodes -> Workers \cup {None}]
      /\ \A n \in Elements(fifo) : heart_beats[n] # None
  BY DEF IInv, TypeOK, Bidirectional
<1>2. /\ fifo' \in Seq(Nodes) /\ heart_beats' \in [Nodes -> Workers \cup {None}]
      /\ \A n \in Elements(fifo') : heart_beats'[n] # None
  BY DEF IInv, TypeOK, Bidirectional
<1> QED
  BY <1>1, <1>2, IdleList DEF IdleWorkers

LEMMA InitRefines == Init => Balancer!lbInit
<1> SUFFICES ASSUME Init PROVE Balancer!lbInit
  OBVIOUS
<1>1. [n \in DOMAIN fifo |-> heart_beats[fifo[n]]] = <<>>
  BY DEF Init
<1> QED
  BY <1>1 DEF Init, Balancer!lbInit

\* A worker nobody knew joins the idle ones at the end.
LEMMA RegisterRefines ==
    ASSUME IInv, IInv', NEW w \in Workers, NewWorker(w)
    PROVE  Balancer!Register(w)
<1>1. PICK n \in Nodes \ Elements(fifo) :
        /\ fifo' = Append(fifo, n)
        /\ heart_beats' = [heart_beats EXCEPT ![n] = w]
  BY DEF NewWorker
<1>2. /\ workers[w] = None /\ heart_beats \in [Nodes -> Workers \cup {None}]
      /\ fifo \in Seq(Nodes)
      /\ UNCHANGED <<upstream, jobs, lost>>
  BY DEF NewWorker, IInv, TypeOK
<1>3. w \notin Balancer!Elements(IdleWorkers)
  <2>1. \A k \in DOMAIN fifo : fifo[k] \in Nodes /\ heart_beats[fifo[k]] # w
    BY <1>2, ProxyAssumption DEF IInv, Bidirectional
  <2> QED
    BY <2>1 DEF IdleWorkers, Balancer!Elements
<1>4. IdleWorkers' = Append(IdleWorkers, w)
  <2>1. /\ Len(fifo') = Len(fifo) + 1 /\ fifo'[Len(fifo) + 1] = n
        /\ \A k \in 1 .. Len(fifo) : fifo'[k] = fifo[k] /\ fifo[k] \in Nodes /\ fifo[k] # n
    BY <1>1, <1>2 DEF Elements
  <2>2. \A k \in 1 .. Len(fifo) : heart_beats'[fifo'[k]] = heart_beats[fifo[k]]
    BY <1>1, <1>2, <2>1
  <2>3. heart_beats'[fifo'[Len(fifo) + 1]] = w
    BY <1>1, <1>2, <2>1
  <2> QED
    BY <2>1, <2>2, <2>3, IdleType
<1> QED
  BY <1>2, <1>3, <1>4 DEF Balancer!Register, IdleWorkers

\* The worker of the node that is dropped is idle no longer.
LEMMA AssignRefines ==
    ASSUME IInv, IInv', NEW p \in Nodes \cup {None}, Dispatch(p)
    PROVE  \E n \in DOMAIN IdleWorkers : Balancer!Assign(n)
<1>1. PICK k \in DOMAIN fifo, w \in Workers :
              /\ ~choose_function => k = 1
              /\ heart_beats[fifo[k]] = w
              /\ fifo' = Without(fifo, k)
              /\ heart_beats' = [heart_beats EXCEPT ![fifo[k]] = None]
              /\ \/ /\ jobs' = [jobs EXCEPT ![w] = Append(@, Head(upstream))]
                    /\ lost' = lost
                 \/ lost' = lost \cup {Head(upstream)} /\ jobs' = jobs
  BY DispatchFacts
<1>2. /\ upstream # <<>> /\ upstream' = Tail(upstream)
      /\ fifo \in Seq(Nodes) /\ heart_beats \in [Nodes -> Workers \cup {None}]
  BY DEF Dispatch, Rest, IInv, Reported, TypeOK
<1>3. k \in 1 .. Len(fifo) /\ Len(fifo) \in Nat /\ IdleWorkers[k] = w
  BY <1>1, IdleType
<1>4. IdleWorkers' = Balancer!Without(IdleWorkers, k)
  <2> DEFINE at(m) == IF m < k THEN m ELSE m + 1
  <2>1. /\ Len(fifo') = Len(fifo) - 1
        /\ \A m \in 1 .. Len(fifo) - 1 : fifo'[m] = fifo[at(m)]
    BY <1>1, <1>2, <1>3 DEF Without
  <2>2. ASSUME NEW m \in 1 .. Len(fifo) - 1
        PROVE  heart_beats'[fifo'[m]] = IdleWorkers[at(m)]
    <3>1. at(m) \in 1 .. Len(fifo) /\ at(m) # k
      BY <1>3, <2>2
    <3> HIDE DEF at
    <3>2. fifo[at(m)] # fifo[k] /\ fifo[at(m)] \in Nodes
      BY <1>2, <1>3, <3>1 DEF IInv, Bidirectional
    <3>3. heart_beats'[fifo'[m]] = heart_beats[fifo[at(m)]]
      BY <1>1, <1>2, <2>1, <3>2
    <3> QED
      BY <3>1, <3>3, IdleType
  <2>3. /\ DOMAIN Balancer!Without(IdleWorkers, k) = 1 .. Len(fifo) - 1
        /\ \A m \in 1 .. Len(fifo) - 1 :
              Balancer!Without(IdleWorkers, k)[m] = IdleWorkers[at(m)]
    BY <1>3, IdleType DEF Balancer!Without
  <2>4. /\ DOMAIN IdleWorkers' = 1 .. Len(fifo) - 1
        /\ \A m \in 1 .. Len(fifo) - 1 : IdleWorkers'[m] = IdleWorkers[at(m)]
    BY <1>3, <2>1, <2>2, IdleType
  <2> HIDE DEF at
  <2>5. /\ IdleWorkers' = [m \in 1 .. Len(fifo) - 1 |-> IdleWorkers[at(m)]]
        /\ Balancer!Without(IdleWorkers, k) = [m \in 1 .. Len(fifo) - 1 |-> IdleWorkers[at(m)]]
    BY <2>3, <2>4 DEF IdleWorkers, Balancer!Without
  <2> QED
    BY <2>5
<1>5. Balancer!Assign(k)
  BY <1>1, <1>2, <1>3, <1>4 DEF Balancer!Assign, IdleWorkers
<1> QED
  BY <1>3, <1>5, IdleType

\* Steps the layers cannot see: polling, refreshing a heartbeat, a death.
LEMMA HiddenSteps ==
    ASSUME UNCHANGED <<fifo, heart_beats, upstream, jobs, choose_function, lost>>
    PROVE  UNCHANGED Balancer!lbVars
  BY DEF Balancer!lbVars

LEMMA EnvironmentRefines ==
    ASSUME IInv, Environment
    PROVE  [Balancer!lbNext]_(Balancer!lbVars)
<1>1. ASSUME NEW j \in Jobs, Arrive(j)
      PROVE  Balancer!lbNext
  <2>1. Balancer!Submit(j) /\ UNCHANGED choose_function
    BY <1>1 DEF Arrive, Balancer!Submit, tables
  <2> QED
    BY <2>1 DEF Balancer!lbNext
<1>2. ASSUME NEW w \in Workers, NEW b \in Beats, Advertise(w, b)
      PROVE  UNCHANGED Balancer!lbVars
  BY <1>2, HiddenSteps DEF Advertise, tables
<1>3. ASSUME NEW w \in Workers, Take(w)
      PROVE  Balancer!lbNext
  <2>1. Balancer!Take(w) /\ UNCHANGED choose_function
    BY <1>3 DEF Take, Balancer!Take, tables
  <2> QED
    BY <2>1 DEF Balancer!lbNext
<1>4. ASSUME NEW w \in Workers, Die(w)
      PROVE  UNCHANGED Balancer!lbVars
  BY <1>4, HiddenSteps DEF Die, tables, sockets
<1>5. CASE Stop
  BY <1>5, HiddenSteps DEF Stop, tables, sockets
<1> QED
  BY <1>1, <1>2, <1>3, <1>4, <1>5 DEF Environment

LEMMA ForwardRefines ==
    ASSUME IInv, IInv', Forward
    PROVE  [Balancer!lbNext]_(Balancer!lbVars)
<1>1. CASE Poll \/ Return
  BY <1>1, HiddenSteps DEF Poll, Return, tables, sockets
<1>2. CASE ChooseThrows
  <2>1. /\ choose_function /\ upstream # <<>> /\ fifo # <<>> /\ upstream' = Tail(upstream)
        /\ lost' = lost \cup {Head(upstream)}
        /\ UNCHANGED <<fifo, heart_beats, jobs, choose_function>>
    BY <1>2 DEF ChooseThrows, Rest, IInv, Reported, tables
  <2>2. IdleWorkers # <<>>
    <3>1. Len(fifo) # 0
      BY <2>1 DEF IInv, TypeOK
    <3> QED
      BY <3>1, IdleType
  <2>3. Balancer!Fail
    BY <2>1, <2>2 DEF Balancer!Fail, IdleWorkers
  <2> QED
    BY <2>1, <2>3 DEF Balancer!lbNext
<1>3. ASSUME NEW w \in Workers, NewWorker(w)
      PROVE  Balancer!lbNext
  <2>1. Balancer!Register(w)
    BY <1>3, RegisterRefines
  <2>2. UNCHANGED choose_function
    BY <1>3 DEF NewWorker
  <2> QED
    BY <2>1, <2>2 DEF Balancer!lbNext
<1>4. ASSUME NEW w \in Workers, KnownWorker(w)
      PROVE  UNCHANGED Balancer!lbVars
  BY <1>4, HiddenSteps DEF KnownWorker
<1>5. ASSUME NEW p \in Nodes \cup {None}, Dispatch(p)
      PROVE  Balancer!lbNext
  <2>1. \E n \in DOMAIN IdleWorkers : Balancer!Assign(n)
    BY <1>5, AssignRefines
  <2>2. UNCHANGED choose_function
    BY <1>5 DEF Dispatch
  <2> QED
    BY <2>1, <2>2 DEF Balancer!lbNext, IdleWorkers
<1> QED
  BY <1>1, <1>2, <1>3, <1>4, <1>5 DEF Forward

LEMMA StepRefines == IInv /\ IInv' /\ [Next]_vars => [Balancer!lbNext]_(Balancer!lbVars)
<1> SUFFICES ASSUME IInv, IInv', [Next]_vars
             PROVE  [Balancer!lbNext]_(Balancer!lbVars)
  OBVIOUS
<1>1. CASE UNCHANGED vars
  BY <1>1, HiddenSteps DEF vars, tables, sockets
<1> QED
  BY <1>1, EnvironmentRefines, ForwardRefines DEF Next

\* Seen from the two layers forward() stands between, it is the load balancer of
\* LoadBalancer: list nodes, hash tables, polling and heartbeats implement it.
THEOREM Refinement == Spec => BalancesLoad
  BY InitRefines, StepRefines, Invariance, PTL DEF Spec, BalancesLoad, Balancer!LBSpec

===============================================================================
