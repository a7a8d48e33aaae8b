------------------------------ MODULE BeaconProofs -----------------------------
(***************************************************************************)
(* What Beacon promises of the service table of beacon_t, for any          *)
(* endpoints, uuids, list nodes, age limit and clock.                      *)
(*                                                                         *)
(* update works on a record of the three containers, so the invariant is   *)
(* one of such records: join_clique and purge_clique each keep it, and an  *)
(* update is one after the other.  The list is kept in the order of the    *)
(* check-ins, which is the order of their times as long as the clock does  *)
(* not run backwards; that is why purge_clique may stop at the first young *)
(* one.                                                                    *)
(***************************************************************************)
EXTENDS Beacon, FiniteSetTheorems, TLAPS

-----------------------------------------------------------------------------
(* Sequences                                                                *)

\* Every element has one place.
Distinct(s) == \A k, m \in DOMAIN s : s[k] = s[m] => k = m

\* s is t with nothing but some of its elements left out.
Thinned(s, t) ==
    \A k, m \in DOMAIN s : k <= m =>
        \E i, j \in DOMAIN t : i <= j /\ s[k] = t[i] /\ s[m] = t[j]

LEMMA Appended ==
    ASSUME NEW S, NEW s \in Seq(S), NEW x \in S, Distinct(s), x \notin Elements(s)
    PROVE  /\ Append(s, x) \in Seq(S) /\ Distinct(Append(s, x))
           /\ Elements(Append(s, x)) = Elements(s) \cup {x}
           /\ Len(s) \in Nat /\ DOMAIN s = 1 .. Len(s)
           /\ DOMAIN Append(s, x) = 1 .. Len(s) + 1
           /\ \A k \in 1 .. Len(s) : Append(s, x)[k] = s[k]
           /\ Append(s, x)[Len(s) + 1] = x
<1>1. /\ Append(s, x) \in Seq(S)
      /\ DOMAIN Append(s, x) = 1 .. Len(s) + 1 /\ DOMAIN s = 1 .. Len(s)
      /\ Append(s, x)[Len(s) + 1] = x
      /\ \A k \in 1 .. Len(s) : Append(s, x)[k] = s[k]
      /\ Len(s) \in Nat
  OBVIOUS
<1>2. Elements(Append(s, x)) = Elements(s) \cup {x}
  BY <1>1 DEF Elements
<1>3. Distinct(Append(s, x))
  BY <1>1 DEF Distinct, Elements
<1> QED
  BY <1>1, <1>2, <1>3

\* punch_card.erase takes one check-in out and leaves the order of the others.
LEMMA Erased ==
    ASSUME NEW S, NEW s \in Seq(S), NEW c \in Elements(s), Distinct(s)
    PROVE  /\ Torn(s, c) \in Seq(S) /\ Distinct(Torn(s, c))
           /\ Elements(Torn(s, c)) = Elements(s) \ {c}
           /\ Thinned(Torn(s, c), s)
<1> DEFINE n == CHOOSE k \in DOMAIN s : s[k] = c
           r == Torn(s, c)
           from(m) == IF m < n THEN m ELSE m + 1
<1>1. n \in DOMAIN s /\ s[n] = c
  <2>1. \E k \in DOMAIN s : s[k] = c
    BY DEF Elements
  <2> QED
    BY <2>1
<1>2. r = [m \in 1 .. Len(s) - 1 |-> s[from(m)]]
  BY DEF Torn
<1> HIDE DEF n, r
<1>3. /\ DOMAIN s = 1 .. Len(s) /\ Len(s) \in Nat /\ n \in 1 .. Len(s) /\ Len(s) - 1 \in Nat
  BY <1>1
<1>4. \A m \in 1 .. Len(s) - 1 : from(m) \in 1 .. Len(s) /\ from(m) # n
  BY <1>3
<1>5. \A k, m \in 1 .. Len(s) - 1 : /\ k <= m => from(k) <= from(m)
                                    /\ from(k) = from(m) => k = m
  BY <1>3
<1>6. \A k \in 1 .. Len(s) : k # n => \E m \in 1 .. Len(s) - 1 : k = from(m)
  <2> SUFFICES ASSUME NEW k \in 1 .. Len(s), k # n
               PROVE  \E m \in 1 .. Len(s) - 1 : k = from(m)
    OBVIOUS
  <2>1. CASE k < n
    <3>1. k \in 1 .. Len(s) - 1 /\ k = from(k)
      BY <1>3, <2>1
    <3> QED
      BY <3>1
  <2>2. CASE ~(k < n)
    <3>1. k - 1 \in 1 .. Len(s) - 1 /\ k = from(k - 1)
      BY <1>3, <2>2
    <3> QED
      BY <3>1
  <2> QED
    BY <2>1, <2>2
<1> HIDE DEF from
<1>7. /\ DOMAIN r = 1 .. Len(s) - 1
      /\ \A m \in 1 .. Len(s) - 1 : r[m] = s[from(m)]
  BY <1>2
<1>8. r \in Seq(S)
  <2>1. \A m \in 1 .. Len(s) - 1 : s[from(m)] \in S
    BY <1>3, <1>4
  <2> QED
    BY <1>2, <1>3, <2>1
<1>9. Distinct(r)
  BY <1>3, <1>4, <1>5, <1>7 DEF Distinct
<1>10. Elements(r) = Elements(s) \ {c}
  <2>1. ASSUME NEW m \in 1 .. Len(s) - 1 PROVE r[m] \in Elements(s) \ {c}
    BY <1>1, <1>3, <1>4, <1>7 DEF Elements, Distinct
  <2>2. ASSUME NEW k \in 1 .. Len(s), s[k] # c PROVE s[k] \in Elements(r)
    BY <1>1, <1>6, <1>7, <2>2 DEF Elements
  <2> QED
    BY <1>3, <1>7, <2>1, <2>2 DEF Elements
<1>11. Thinned(r, s)
  BY <1>3, <1>4, <1>5, <1>7 DEF Thinned
<1> QED
  BY <1>8, <1>9, <1>10, <1>11 DEF r

\* punch_card.erase(begin, end) takes the first n.
LEMMA Cut ==
    ASSUME NEW S, NEW s \in Seq(S), NEW n \in 0 .. Len(s), Distinct(s)
    PROVE  LET r == SubSeq(s, n + 1, Len(s))
               gone == {s[m] : m \in 1 .. n}
           IN  /\ r \in Seq(S) /\ Distinct(r)
               /\ Elements(r) = Elements(s) \ gone
               /\ Thinned(r, s)
<1> DEFINE r == SubSeq(s, n + 1, Len(s))
           gone == {s[m] : m \in 1 .. n}
<1>1. /\ Len(s) \in Nat /\ DOMAIN s = 1 .. Len(s)
      /\ r \in Seq(S)
      /\ DOMAIN r = 1 .. Len(s) - n
      /\ \A k \in 1 .. Len(s) - n : r[k] = s[n + k]
  OBVIOUS
<1> HIDE DEF r
<1>2. \A k \in 1 .. Len(s) - n : n + k \in 1 .. Len(s) /\ n + k \notin 1 .. n
  BY <1>1
<1>3. \A k \in 1 .. Len(s) : k \notin 1 .. n =>
         \E m \in 1 .. Len(s) - n : k = n + m
  <2> SUFFICES ASSUME NEW k \in 1 .. Len(s), k \notin 1 .. n
               PROVE  k - n \in 1 .. Len(s) - n /\ k = n + (k - n)
    OBVIOUS
  <2> QED
    BY <1>1
<1>4. Distinct(r)
  <2> SUFFICES ASSUME NEW k \in 1 .. Len(s) - n, NEW m \in 1 .. Len(s) - n, r[k] = r[m]
               PROVE  k = m
    BY <1>1 DEF Distinct
  <2>1. n + k = n + m
    BY <1>1, <1>2 DEF Distinct
  <2> QED
    BY <1>1, <2>1
<1>5. Elements(r) = Elements(s) \ gone
  <2>1. ASSUME NEW m \in 1 .. Len(s) - n PROVE r[m] \in Elements(s) \ gone
    <3>1. s[n + m] \in Elements(s)
      BY <1>1, <1>2 DEF Elements
    <3>2. ASSUME NEW i \in 1 .. n PROVE s[i] # s[n + m]
      <4>1. i \in 1 .. Len(s)
        BY <1>1
      <4> QED
        BY <1>1, <1>2, <4>1 DEF Distinct
    <3> QED
      BY <1>1, <3>1, <3>2
  <2>2. ASSUME NEW k \in 1 .. Len(s), s[k] \notin gone PROVE s[k] \in Elements(r)
    <3>1. k \notin 1 .. n
      BY <2>2
    <3>2. PICK m \in 1 .. Len(s) - n : k = n + m
      BY <1>3, <3>1
    <3> QED
      BY <1>1, <3>2 DEF Elements
  <2> QED
    BY <1>1, <2>1, <2>2 DEF Elements
<1>6. Thinned(r, s)
  <2> SUFFICES ASSUME NEW k \in DOMAIN r, NEW m \in DOMAIN r, k <= m
               PROVE  \E i, j \in DOMAIN s : i <= j /\ r[k] = s[i] /\ r[m] = s[j]
    BY Zenon DEF Thinned
  <2>1. n + k <= n + m
    BY <1>1
  <2>2. /\ n + k \in DOMAIN s /\ n + m \in DOMAIN s
        /\ r[k] = s[n + k] /\ r[m] = s[n + m]
    BY <1>1, <1>2
  <2> QED
    BY <2>1, <2>2, Zenon
<1> QED
  BY <1>1, <1>4, <1>5, <1>6 DEF r

-----------------------------------------------------------------------------
(* The three containers, as a record                                        *)

Records ==
    [services : [Endpoints -> Uuids \cup {None}],
     punch_card : Seq(Cards),
     clique : [Endpoints -> Cards \cup {None}],
     time : [Cards -> 0 .. MaxTime],
     who : [Cards -> Endpoints \cup {None}]]

\* They hold the same members, each with one check-in, and point at each other.
Linked(t) ==
    /\ t \in Records
    /\ Distinct(t.punch_card)
    /\ \A e \in Endpoints : (t.services[e] # None) <=> (t.clique[e] # None)
    /\ \A e \in Endpoints : t.clique[e] # None =>
          t.clique[e] \in Elements(t.punch_card) /\ t.who[t.clique[e]] = e
    /\ \A c \in Elements(t.punch_card) :
          t.who[c] \in Endpoints /\ t.clique[t.who[c]] = c

\* The list is in the order of the check-ins' times, none later than n.
InOrder(t, n) ==
    /\ \A k, m \in DOMAIN t.punch_card : k <= m =>
          t.time[t.punch_card[k]] <= t.time[t.punch_card[m]]
    /\ \A k \in DOMAIN t.punch_card : t.time[t.punch_card[k]] <= n

\* Leaving check-ins out leaves the others in order.
LEMMA StillInOrder ==
    ASSUME NEW t, NEW r, NEW n, InOrder(t, n), r.time = t.time,
           Thinned(r.punch_card, t.punch_card), DOMAIN r.punch_card \subseteq Nat
    PROVE  InOrder(r, n)
<1>1. ASSUME NEW k \in DOMAIN r.punch_card, NEW m \in DOMAIN r.punch_card, k <= m
      PROVE  r.time[r.punch_card[k]] <= r.time[r.punch_card[m]]
  BY <1>1, Zenon DEF InOrder, Thinned
<1>2. ASSUME NEW k \in DOMAIN r.punch_card
      PROVE  r.time[r.punch_card[k]] <= n
  <2>1. k <= k
    OBVIOUS
  <2> QED
    BY <2>1, Zenon DEF InOrder, Thinned
<1> QED
  BY <1>1, <1>2 DEF InOrder

\* Erasing the caller's last check-in leaves the containers in step.
LEMMA LastErased ==
    ASSUME NEW t, Linked(t), NEW e \in Endpoints
    PROVE  LET s == WithoutLastCheckIn(t, e)
           IN  /\ Linked(s)
               /\ s.services = [t.services EXCEPT ![e] = None]
               /\ s.clique = [t.clique EXCEPT ![e] = None]
               /\ s.time = t.time /\ s.who = t.who
               /\ Thinned(s.punch_card, t.punch_card)
<1> DEFINE s == WithoutLastCheckIn(t, e)
           d == t.clique[e]
<1>0. t \in Records /\ t.punch_card \in Seq(Cards) /\ Distinct(t.punch_card)
  BY DEF Linked, Records
<1>1. CASE d = None
  <2>1. s = t
    BY <1>1 DEF WithoutLastCheckIn
  <2>2. t.services[e] = None
    BY <1>1 DEF Linked
  <2>3. /\ t.services = [t.services EXCEPT ![e] = None]
        /\ t.clique = [t.clique EXCEPT ![e] = None]
    BY <1>0, <1>1, <2>2 DEF Records
  <2>4. DOMAIN t.punch_card \subseteq Nat
    BY <1>0
  <2>5. Thinned(t.punch_card, t.punch_card)
    BY <2>4, Zenon DEF Thinned
  <2> QED
    BY <2>1, <2>3, <2>5
<1>2. CASE d # None
  <2> DEFINE r == Torn(t.punch_card, d)
  <2>1. s = [t EXCEPT !.services[e] = None, !.clique[e] = None, !.punch_card = r]
    BY <1>2, Zenon DEF WithoutLastCheckIn
  <2>2. d \in Elements(t.punch_card) /\ t.who[d] = e
    BY <1>2 DEF Linked
  <2>3. /\ r \in Seq(Cards) /\ Distinct(r)
        /\ Elements(r) = Elements(t.punch_card) \ {d}
        /\ Thinned(r, t.punch_card)
    BY <1>0, <2>2, Erased
  <2> HIDE DEF r
  <2>4. /\ s.services = [t.services EXCEPT ![e] = None]
        /\ s.clique = [t.clique EXCEPT ![e] = None]
        /\ s.time = t.time /\ s.who = t.who /\ s.punch_card = r
        /\ s \in Records
    <3> DEFINE sv == [t.services EXCEPT ![e] = None]
               cl == [t.clique EXCEPT ![e] = None]
    <3>1. sv \in [Endpoints -> Uuids \cup {None}] /\ cl \in [Endpoints -> Cards \cup {None}]
      BY <1>0 DEF Records
    <3>2. t = [services |-> t.services, punch_card |-> t.punch_card, clique |-> t.clique,
               time |-> t.time, who |-> t.who]
      BY <1>0 DEF Records
    <3>3. s = [services |-> sv, punch_card |-> r, clique |-> cl,
               time |-> t.time, who |-> t.who]
      BY <2>1, <3>2
    <3> HIDE DEF s, sv, cl
    <3>4. /\ s.services = sv /\ s.clique = cl
          /\ s.time = t.time /\ s.who = t.who /\ s.punch_card = r
      BY <3>3
    <3>5. s \in Records
      BY <1>0, <2>3, <3>1, <3>3 DEF Records
    <3> QED
      BY <3>4, <3>5 DEF sv, cl
  <2> HIDE DEF s
  <2>5. ASSUME NEW x \in Endpoints
        PROVE  /\ (s.services[x] # None) <=> (s.clique[x] # None)
               /\ s.clique[x] # None =>
                     s.clique[x] \in Elements(s.punch_card) /\ s.who[s.clique[x]] = x
    <3>1. x \in DOMAIN t.services /\ x \in DOMAIN t.clique
      BY <1>0 DEF Records
    <3>2. CASE x = e
      BY <2>4, <3>1, <3>2
    <3>3. CASE x # e
      <4>1. s.services[x] = t.services[x] /\ s.clique[x] = t.clique[x]
        BY <2>4, <3>1, <3>3
      <4>2. t.clique[x] # None => t.clique[x] # d
        BY <2>2, <3>3 DEF Linked
      <4> QED
        BY <2>3, <2>4, <4>1, <4>2 DEF Linked
    <3> QED
      BY <3>2, <3>3
  <2>6. ASSUME NEW c \in Elements(s.punch_card)
        PROVE  s.who[c] \in Endpoints /\ s.clique[s.who[c]] = c
    <3>1. c \in Elements(t.punch_card) /\ c # d
      BY <2>3, <2>4
    <3>2. t.who[c] \in Endpoints /\ t.clique[t.who[c]] = c
      BY <3>1 DEF Linked
    <3>3. t.who[c] # e
      BY <3>1, <3>2
    <3>4. t.clique \in [Endpoints -> Cards \cup {None}]
      BY <1>0 DEF Records
    <3> QED
      BY <2>4, <3>2, <3>3, <3>4
  <2> QED
    BY <2>3, <2>4, <2>5, <2>6 DEF Linked, s
<1> QED
  BY <1>1, <1>2

\* j is t after the endpoint e checked in, with uuid u and list node c.
HasCheckIn(j, t, e, u, c) ==
    /\ Linked(j)
    /\ j.services = [t.services EXCEPT ![e] = u]
    /\ j.clique = [t.clique EXCEPT ![e] = c]
    /\ j.time = [t.time EXCEPT ![c] = now]
    /\ j.punch_card = Append(WithoutLastCheckIn(t, e).punch_card, c)

\* Checking in adds one check-in, at the end.
LEMMA CheckedIn ==
    ASSUME NEW t, Linked(t), NEW e \in Endpoints, NEW u \in Uuids,
           now \in 0 .. MaxTime,
           NEW c \in Cards, c \notin Elements(WithoutLastCheckIn(t, e).punch_card)
    PROVE  HasCheckIn(join_clique(t, e, u, c), t, e, u, c)
<1> DEFINE s == WithoutLastCheckIn(t, e)
           j == join_clique(t, e, u, c)
           p == Append(s.punch_card, c)
<1>1. /\ Linked(s)
      /\ s.services = [t.services EXCEPT ![e] = None]
      /\ s.clique = [t.clique EXCEPT ![e] = None]
      /\ s.time = t.time /\ s.who = t.who
  BY LastErased
<1>2. /\ s \in Records /\ s.punch_card \in Seq(Cards) /\ Distinct(s.punch_card)
      /\ t \in Records
  BY <1>1 DEF Linked, Records
<1>3. /\ p \in Seq(Cards) /\ Distinct(p)
      /\ Elements(p) = Elements(s.punch_card) \cup {c}
  BY <1>2, Appended
<1>4. j = [s EXCEPT !.services[e] = IF @ = None THEN u ELSE @,
                    !.punch_card = Append(@, c),
                    !.clique[e] = IF @ = None THEN c ELSE @,
                    !.time[c] = now, !.who[c] = e]
  BY DEF join_clique, NewService
<1> HIDE DEF s, j
<1>5. s.services[e] = None /\ s.clique[e] = None
  BY <1>1, <1>2 DEF Records
<1> DEFINE sv == [t.services EXCEPT ![e] = u]
           cl == [t.clique EXCEPT ![e] = c]
           ti == [t.time EXCEPT ![c] = now]
           wh == [t.who EXCEPT ![c] = e]
<1>6. /\ sv \in [Endpoints -> Uuids \cup {None}] /\ cl \in [Endpoints -> Cards \cup {None}]
      /\ ti \in [Cards -> 0 .. MaxTime] /\ wh \in [Cards -> Endpoints \cup {None}]
  BY <1>2 DEF Records
<1>7. /\ sv = [s.services EXCEPT ![e] = u] /\ cl = [s.clique EXCEPT ![e] = c]
      /\ ti = [s.time EXCEPT ![c] = now] /\ wh = [s.who EXCEPT ![c] = e]
  BY <1>1, <1>2 DEF Records
<1>8. j = [services |-> sv, punch_card |-> p, clique |-> cl, time |-> ti, who |-> wh]
  <2>1. s = [services |-> s.services, punch_card |-> s.punch_card, clique |-> s.clique,
             time |-> s.time, who |-> s.who]
    BY <1>2 DEF Records
  <2> QED
    BY <1>4, <1>5, <1>7, <2>1
<1> HIDE DEF sv, cl, ti, wh, p
<1>9. /\ j.services = sv /\ j.clique = cl /\ j.time = ti /\ j.who = wh /\ j.punch_card = p
      /\ j \in Records
  BY <1>3, <1>6, <1>8 DEF Records
<1>10. c # None
  BY BeaconAssumption DEF BeaconAssumption
<1>11. u # None
  BY BeaconAssumption DEF BeaconAssumption
<1>12. ASSUME NEW x \in Endpoints
       PROVE  /\ (j.services[x] # None) <=> (j.clique[x] # None)
              /\ j.clique[x] # None =>
                    j.clique[x] \in Elements(j.punch_card) /\ j.who[j.clique[x]] = x
  <2>1. x \in DOMAIN t.services /\ x \in DOMAIN t.clique
    BY <1>2 DEF Records
  <2>2. CASE x = e
    <3>1. j.services[x] = u /\ j.clique[x] = c
      BY <1>9, <2>1, <2>2 DEF sv, cl
    <3>2. j.who[c] = e
      BY <1>2, <1>9 DEF wh, Records
    <3> QED
      BY <1>3, <1>9, <1>10, <1>11, <2>2, <3>1, <3>2
  <2>3. CASE x # e
    <3>1. j.services[x] = s.services[x] /\ j.clique[x] = s.clique[x]
      BY <1>1, <1>9, <2>1, <2>3 DEF sv, cl
    <3>2. ASSUME s.clique[x] # None
          PROVE  j.clique[x] \in Elements(j.punch_card) /\ j.who[j.clique[x]] = x
      <4>1. s.clique[x] \in Elements(s.punch_card) /\ s.who[s.clique[x]] = x
        BY <1>1, <3>2 DEF Linked
      <4>2. s.clique[x] # c
        BY <4>1 DEF s
      <4>3. s.clique[x] \in Cards
        BY <1>2, <3>2 DEF Records
      <4>4. j.who[s.clique[x]] = s.who[s.clique[x]]
        BY <1>1, <1>2, <1>9, <4>2, <4>3 DEF wh, Records
      <4> QED
        BY <1>3, <1>9, <3>1, <4>1, <4>4
    <3> QED
      BY <1>1, <3>1, <3>2 DEF Linked
  <2> QED
    BY <2>2, <2>3
<1>13. ASSUME NEW d \in Elements(j.punch_card)
       PROVE  j.who[d] \in Endpoints /\ j.clique[j.who[d]] = d
  <2>1. CASE d = c
    <3>1. j.who[c] = e
      BY <1>2, <1>9 DEF wh, Records
    <3>2. j.clique[e] = c
      BY <1>2, <1>9 DEF cl, Records
    <3> QED
      BY <2>1, <3>1, <3>2
  <2>2. CASE d # c
    <3>1. d \in Elements(s.punch_card)
      BY <1>3, <1>9, <2>2
    <3>2. d \in Cards
      BY <1>2, <3>1 DEF Elements
    <3>3. s.who[d] \in Endpoints /\ s.clique[s.who[d]] = d
      BY <1>1, <3>1 DEF Linked
    <3>4. d # None
      BY <3>2, BeaconAssumption DEF BeaconAssumption
    <3>5. s.who[d] # e
      BY <1>5, <3>3, <3>4
    <3>6. j.who[d] = s.who[d]
      BY <1>1, <1>2, <1>9, <2>2, <3>2 DEF wh, Records
    <3>7. j.clique[s.who[d]] = s.clique[s.who[d]]
      BY <1>1, <1>2, <1>9, <3>3, <3>5 DEF cl, Records
    <3> QED
      BY <3>3, <3>6, <3>7
  <2> QED
    BY <2>1, <2>2
<1>14. Linked(j)
  BY <1>3, <1>9, <1>12, <1>13 DEF Linked
<1> QED
  BY <1>9, <1>14 DEF HasCheckIn, s, j, sv, cl, ti, p

\* Dropping the first n drops those whose check-ins they are, and no others.
LEMMA Purged ==
    ASSUME NEW t, Linked(t), NEW n \in 0 .. Len(t.punch_card)
    PROVE  LET q == purge_clique(t, n)
               gone == {t.punch_card[m] : m \in 1 .. n}
           IN  /\ Linked(q)
               /\ \A e \in Endpoints :
                     /\ e \in Dropped(t, n) <=> t.clique[e] # None /\ t.clique[e] \in gone
                     /\ e \in Dropped(t, n) => q.services[e] = None /\ q.clique[e] = None
                     /\ e \notin Dropped(t, n) =>
                           q.services[e] = t.services[e] /\ q.clique[e] = t.clique[e]
               /\ q.time = t.time
               /\ Thinned(q.punch_card, t.punch_card)
<1> DEFINE q == purge_clique(t, n)
           gone == {t.punch_card[m] : m \in 1 .. n}
           D == Dropped(t, n)
           p == SubSeq(t.punch_card, n + 1, Len(t.punch_card))
           sv == [e \in Endpoints |-> IF e \in D THEN None ELSE t.services[e]]
           cl == [e \in Endpoints |-> IF e \in D THEN None ELSE t.clique[e]]
<1>1. t \in Records /\ t.punch_card \in Seq(Cards) /\ Distinct(t.punch_card)
  BY DEF Linked, Records
<1>2. /\ p \in Seq(Cards) /\ Distinct(p)
      /\ Elements(p) = Elements(t.punch_card) \ gone
      /\ Thinned(p, t.punch_card)
  BY <1>1, Cut
<1>3. gone \subseteq Elements(t.punch_card)
  <2>1. 1 .. n \subseteq DOMAIN t.punch_card
    BY <1>1
  <2> QED
    BY <2>1 DEF Elements
<1>4. q = [t EXCEPT !.services = sv, !.clique = cl, !.punch_card = p]
  BY DEF purge_clique, CliqueWithout
<1> HIDE DEF q, p
<1>5. sv \in [Endpoints -> Uuids \cup {None}] /\ cl \in [Endpoints -> Cards \cup {None}]
  BY <1>1 DEF Records
<1> HIDE DEF sv, cl
<1>6. q = [services |-> sv, punch_card |-> p, clique |-> cl, time |-> t.time, who |-> t.who]
  <2>1. t = [services |-> t.services, punch_card |-> t.punch_card, clique |-> t.clique,
             time |-> t.time, who |-> t.who]
    BY <1>1 DEF Records
  <2> QED
    BY <1>4, <2>1
<1>7. /\ q.services = sv /\ q.clique = cl /\ q.time = t.time /\ q.who = t.who
      /\ q.punch_card = p /\ q \in Records
  BY <1>1, <1>2, <1>5, <1>6 DEF Records
<1>8. ASSUME NEW e \in Endpoints
      PROVE  e \in D <=> t.clique[e] # None /\ t.clique[e] \in gone
  <2>1. ASSUME e \in D PROVE t.clique[e] # None /\ t.clique[e] \in gone
    <3>1. PICK m \in 1 .. n : e = t.who[t.punch_card[m]]
      BY <2>1 DEF Dropped
    <3>2. t.punch_card[m] \in gone /\ t.punch_card[m] \in Elements(t.punch_card)
      BY <1>3
    <3>3. t.clique[e] = t.punch_card[m]
      BY <3>1, <3>2 DEF Linked
    <3>4. 1 .. n \subseteq DOMAIN t.punch_card
      BY <1>1
    <3>5. t.punch_card[m] \in Cards
      BY <1>1, <3>4
    <3> QED
      BY <3>2, <3>3, <3>5, BeaconAssumption DEF BeaconAssumption
  <2>2. ASSUME t.clique[e] # None, t.clique[e] \in gone PROVE e \in D
    <3>1. PICK m \in 1 .. n : t.clique[e] = t.punch_card[m]
      BY <2>2
    <3>2. t.who[t.clique[e]] = e
      BY <2>2 DEF Linked
    <3> QED
      BY <3>1, <3>2 DEF Dropped
  <2> QED
    BY <2>1, <2>2
<1> HIDE DEF D, gone
<1>9. ASSUME NEW e \in Endpoints
      PROVE  /\ e \in D => q.services[e] = None /\ q.clique[e] = None
             /\ e \notin D => q.services[e] = t.services[e] /\ q.clique[e] = t.clique[e]
  BY <1>7 DEF sv, cl
<1>10. Linked(q)
  <2>1. ASSUME NEW e \in Endpoints
        PROVE  /\ (q.services[e] # None) <=> (q.clique[e] # None)
               /\ q.clique[e] # None =>
                     q.clique[e] \in Elements(q.punch_card) /\ q.who[q.clique[e]] = e
    <3>1. CASE e \in D
      BY <1>9, <3>1
    <3>2. CASE e \notin D
      <4>1. t.clique[e] # None => t.clique[e] \notin gone
        BY <1>8, <3>2
      <4>2. q.services[e] = t.services[e] /\ q.clique[e] = t.clique[e]
        BY <1>9, <3>2
      <4> QED
        BY <1>2, <1>7, <4>1, <4>2 DEF Linked
    <3> QED
      BY <3>1, <3>2
  <2>2. ASSUME NEW c \in Elements(q.punch_card)
        PROVE  q.who[c] \in Endpoints /\ q.clique[q.who[c]] = c
    <3>1. c \in Elements(t.punch_card) /\ c \notin gone
      BY <1>2, <1>7
    <3>2. t.who[c] \in Endpoints /\ t.clique[t.who[c]] = c
      BY <3>1 DEF Linked
    <3>3. t.who[c] \notin D
      BY <1>8, <3>1, <3>2
    <3> QED
      BY <1>7, <1>9, <3>2, <3>3
  <2> QED
    BY <1>2, <1>7, <2>1, <2>2 DEF Linked
<1> QED
  BY <1>2, <1>7, <1>8, <1>9, <1>10 DEF q, D, gone

-----------------------------------------------------------------------------
(* Who is dropped                                                           *)

\* Nobody is dropped young; in a list in order nobody else is kept.
LEMMA OnlyTheOld ==
    ASSUME NEW t, Linked(t), now \in 0 .. MaxTime, NEW n \in Codgers(t)
    PROVE  /\ n \in 0 .. Len(t.punch_card)
           /\ \A e \in Dropped(t, n) : e \in Endpoints
           /\ \A e \in Endpoints : e \in Dropped(t, n) =>
                 t.clique[e] # None /\ ~TooYoungToDie(t, t.clique[e])
           /\ InOrder(t, now) =>
                 \A e \in Endpoints : t.clique[e] # None =>
                    (e \in Dropped(t, n) <=> ~TooYoungToDie(t, t.clique[e]))
<1> DEFINE gone == {t.punch_card[m] : m \in 1 .. n}
<1>1. /\ t.punch_card \in Seq(Cards) /\ t.time \in [Cards -> 0 .. MaxTime]
      /\ Len(t.punch_card) \in Nat /\ DOMAIN t.punch_card = 1 .. Len(t.punch_card)
  BY DEF Linked, Records
<1>2. /\ n \in 0 .. Len(t.punch_card)
      /\ \A m \in 1 .. n : ~TooYoungToDie(t, t.punch_card[m])
      /\ n < Len(t.punch_card) => TooYoungToDie(t, t.punch_card[n + 1])
  BY DEF Codgers
<1>3. \A e \in Endpoints : e \in Dropped(t, n) <=> t.clique[e] # None /\ t.clique[e] \in gone
  BY <1>2, Purged
<1>4. \A e \in Dropped(t, n) : e \in Endpoints
  <2>1. \A m \in 1 .. n : t.punch_card[m] \in Elements(t.punch_card)
    BY <1>1, <1>2, SMTT(30) DEF Elements
  <2> QED
    BY <2>1 DEF Dropped, Linked
<1>5. \A c \in gone : ~TooYoungToDie(t, c)
  BY <1>2
<1>6. ASSUME InOrder(t, now), NEW c \in Elements(t.punch_card), c \notin gone
      PROVE  TooYoungToDie(t, c)
  <2>1. PICK k \in 1 .. Len(t.punch_card) : t.punch_card[k] = c
    BY <1>1 DEF Elements
  <2>2. k \notin 1 .. n
    BY <1>6, <2>1
  <2>3. n < Len(t.punch_card) /\ n + 1 <= k /\ n + 1 \in 1 .. Len(t.punch_card)
    BY <1>1, <1>2, <2>2
  <2>4. t.time[t.punch_card[n + 1]] <= t.time[c]
    BY <1>1, <1>6, <2>1, <2>3 DEF InOrder
  <2>5. TooYoungToDie(t, t.punch_card[n + 1])
    BY <1>2, <2>3
  <2>6. t.time[t.punch_card[n + 1]] \in Nat /\ t.time[c] \in Nat
    BY <1>1, <2>1, <2>3
  <2> QED
    BY <2>4, <2>5, <2>6, BeaconAssumption, SMTT(30) DEF TooYoungToDie, BeaconAssumption
<1>7. ASSUME InOrder(t, now), NEW e \in Endpoints, t.clique[e] # None
      PROVE  e \in Dropped(t, n) <=> ~TooYoungToDie(t, t.clique[e])
  <2>1. t.clique[e] \in Elements(t.punch_card)
    BY <1>7 DEF Linked
  <2> QED
    BY <1>3, <1>5, <1>6, <1>7, <2>1
<1> HIDE DEF gone
<1> QED
  BY <1>2, <1>3, <1>4, <1>5, <1>7

\* A check-in added now leaves the list in order.
LEMMA CheckedInInOrder ==
    ASSUME NEW t, Linked(t), NEW e \in Endpoints, NEW u \in Uuids,
           now \in 0 .. MaxTime, InOrder(t, now),
           NEW c \in Cards, c \notin Elements(WithoutLastCheckIn(t, e).punch_card)
    PROVE  InOrder(join_clique(t, e, u, c), now)
<1> DEFINE s == WithoutLastCheckIn(t, e)
           j == join_clique(t, e, u, c)
           N == Len(s.punch_card)
<1>1. Linked(s) /\ s.time = t.time /\ Thinned(s.punch_card, t.punch_card)
  BY LastErased
<1>2. Linked(j) /\ j.time = [t.time EXCEPT ![c] = now] /\ j.punch_card = Append(s.punch_card, c)
  <2>1. HasCheckIn(j, t, e, u, c)
    BY CheckedIn, Zenon
  <2> QED
    BY <2>1, Zenon DEF HasCheckIn
<1>0. c \in Cards /\ c \notin Elements(s.punch_card)
  OBVIOUS
<1> HIDE DEF s, j
<1>3. /\ s.punch_card \in Seq(Cards) /\ Distinct(s.punch_card)
      /\ t.time \in [Cards -> 0 .. MaxTime]
  BY <1>1 DEF Linked, Records
<1>4. /\ N \in Nat /\ DOMAIN s.punch_card = 1 .. N
      /\ DOMAIN j.punch_card = 1 .. N + 1
      /\ \A k \in 1 .. N : j.punch_card[k] = s.punch_card[k]
      /\ j.punch_card[N + 1] = c
  BY <1>0, <1>2, <1>3, Appended
<1>5. InOrder(s, now)
  <2>1. DOMAIN s.punch_card \subseteq Nat
    BY <1>4
  <2> QED
    BY <1>1, <2>1, StillInOrder
<1>6. \A k \in 1 .. N : j.time[j.punch_card[k]] = s.time[s.punch_card[k]]
  <2> SUFFICES ASSUME NEW k \in 1 .. N
               PROVE  j.time[j.punch_card[k]] = s.time[s.punch_card[k]]
    OBVIOUS
  <2>1. s.punch_card[k] \in Cards /\ s.punch_card[k] # c
    BY <1>0, <1>3, <1>4 DEF Elements
  <2> QED
    BY <1>1, <1>2, <1>3, <1>4, <2>1
<1>7. j.time[j.punch_card[N + 1]] = now
  BY <1>0, <1>2, <1>3, <1>4
<1> HIDE DEF N
<1>8. ASSUME NEW k \in 1 .. N + 1
      PROVE  j.time[j.punch_card[k]] <= now
  <2>1. CASE k \in 1 .. N
    BY <1>4, <1>5, <1>6, <2>1 DEF InOrder
  <2>2. CASE k = N + 1
    BY <1>7, <2>2
  <2> QED
    BY <1>4, <2>1, <2>2
<1>9. ASSUME NEW k \in 1 .. N + 1, NEW m \in 1 .. N + 1, k <= m
      PROVE  j.time[j.punch_card[k]] <= j.time[j.punch_card[m]]
  <2>1. CASE m \in 1 .. N
    <3>1. k \in 1 .. N
      BY <1>4, <1>9, <2>1
    <3>2. s.time[s.punch_card[k]] <= s.time[s.punch_card[m]]
      BY <1>4, <1>5, <1>9, <2>1, <3>1 DEF InOrder
    <3> QED
      BY <1>6, <2>1, <3>1, <3>2
  <2>2. CASE m = N + 1
    BY <1>7, <1>8, <2>2
  <2> QED
    BY <1>4, <2>1, <2>2
<1> QED
  BY <1>4, <1>8, <1>9 DEF InOrder, j

-----------------------------------------------------------------------------
(* Steps of update                                                          *)

Histories ==
    /\ now \in 0 .. MaxTime /\ checked \in 0 .. MaxTime
    /\ known \in [Endpoints -> Int]
    /\ heard \in [Endpoints -> 0 .. MaxTime \cup {None}]
    /\ uuid \in [Endpoints -> Uuids \cup {None}]
    /\ jumped \in BOOLEAN

\* A member's check-in bears the time it was last heard of.
Stamped == \A e \in Members : time[clique[e]] = heard[e]

\* Until the clock is set back, the list is in order and update never ran later
\* than now.
Steady == ~jumped => InOrder(Tables, now) /\ checked <= now

IInv ==
    /\ Histories
    /\ Linked(Tables)
    /\ ReportsReplay
    /\ Stamped
    /\ Steady
    /\ MembersAreRecent

\* What is left of the tables t, when those who are old are dropped from them.
LEMMA PurgeStep ==
    ASSUME NEW t, Linked(t), now \in 0 .. MaxTime, NEW n \in Codgers(t),
           Set(purge_clique(t, n))
    PROVE  /\ Linked(Tables)'
           /\ now' = now /\ checked' = now /\ jumped' = jumped /\ time' = t.time
           /\ \A e \in Endpoints :
                 /\ services'[e] # None <=> t.services[e] # None /\ e \notin Dropped(t, n)
                 /\ services'[e] # None =>
                       services'[e] = t.services[e] /\ clique'[e] = t.clique[e]
                 /\ e \in Dropped(t, n) =>
                       t.services[e] # None /\ ~TooYoungToDie(t, t.clique[e])
           /\ InOrder(t, now) =>
                 /\ InOrder(Tables, now)'
                 /\ \A e \in Endpoints : t.services[e] # None =>
                       (e \in Dropped(t, n) <=> ~TooYoungToDie(t, t.clique[e]))
<1> DEFINE q == purge_clique(t, n)
<1>1. /\ n \in 0 .. Len(t.punch_card)
      /\ \A e \in Endpoints : e \in Dropped(t, n) =>
            t.clique[e] # None /\ ~TooYoungToDie(t, t.clique[e])
      /\ InOrder(t, now) =>
            \A e \in Endpoints : t.clique[e] # None =>
               (e \in Dropped(t, n) <=> ~TooYoungToDie(t, t.clique[e]))
  BY OnlyTheOld
<1>2. /\ Linked(q)
      /\ \A e \in Endpoints :
            /\ e \in Dropped(t, n) => q.services[e] = None /\ q.clique[e] = None
            /\ e \notin Dropped(t, n) =>
                  q.services[e] = t.services[e] /\ q.clique[e] = t.clique[e]
      /\ q.time = t.time
      /\ Thinned(q.punch_card, t.punch_card)
  BY <1>1, Purged
<1>3. \A e \in Endpoints : t.services[e] # None <=> t.clique[e] # None
  BY DEF Linked
<1>4. /\ services' = q.services /\ punch_card' = q.punch_card /\ clique' = q.clique
      /\ time' = q.time /\ who' = q.who /\ checked' = now /\ now' = now /\ jumped' = jumped
  BY DEF Set
<1> HIDE DEF q
<1>5. Tables' = q
  <2>1. q = [services |-> q.services, punch_card |-> q.punch_card, clique |-> q.clique,
             time |-> q.time, who |-> q.who]
    BY <1>2 DEF Linked, Records
  <2> QED
    BY <1>4, <2>1 DEF Tables
<1>6. ASSUME InOrder(t, now) PROVE InOrder(Tables, now)'
  <2>1. DOMAIN q.punch_card \subseteq Nat
    BY <1>2 DEF Linked, Records
  <2>2. InOrder(q, now)
    BY <1>2, <1>6, <2>1, StillInOrder
  <2> QED
    BY <1>4, <1>5, <2>2
<1> QED
  BY <1>1, <1>2, <1>3, <1>4, <1>5, <1>6

LEMMA Initially ==
    Init => IInv
<1> SUFFICES ASSUME Init PROVE IInv
  OBVIOUS
<1> USE BeaconAssumption DEF BeaconAssumption
<1>1. Histories
  <2>1. jumped \in BOOLEAN
    BY Zenon DEF Init
  <2> QED
    BY <2>1 DEF Init, Histories
<1>2. Linked(Tables)
  <2>1. Elements(punch_card) = {} /\ DOMAIN punch_card = {}
    BY DEF Init, Elements
  <2> QED
    BY <2>1 DEF Init, Linked, Tables, Records, Distinct
<1>3. Members = {}
  BY DEF Init, Members
<1>4. Steady
  BY DEF Init, Steady, InOrder, Tables
<1> QED
  BY <1>1, <1>2, <1>3, <1>4 DEF Init, IInv, ReportsReplay, Stamped, MembersAreRecent

\* Nobody called.
LEMMA QuietStep ==
    ASSUME IInv, UpdateQuietly
    PROVE  IInv'
<1> USE DEF IInv
<1>1. PICK n \in Codgers(Tables) : /\ Set(purge_clique(Tables, n))
                                   /\ known' = Reported({}, Dropped(Tables, n))
  BY DEF UpdateQuietly
<1> DEFINE D == Dropped(Tables, n)
<1>2. heard' = heard /\ uuid' = uuid
  BY DEF UpdateQuietly
<1>3. /\ Tables.services = services /\ Tables.clique = clique /\ Tables.time = time
      /\ now \in 0 .. MaxTime
  BY DEF Tables, Histories
<1>4. /\ Linked(Tables)'
      /\ now' = now /\ checked' = now /\ jumped' = jumped /\ time' = time
      /\ \A e \in Endpoints :
            /\ services'[e] # None <=> services[e] # None /\ e \notin D
            /\ services'[e] # None => services'[e] = services[e] /\ clique'[e] = clique[e]
            /\ e \in D => services[e] # None /\ ~TooYoungToDie(Tables, clique[e])
      /\ InOrder(Tables, now) =>
            /\ InOrder(Tables, now)'
            /\ \A e \in Endpoints : services[e] # None =>
                  (e \in D <=> ~TooYoungToDie(Tables, clique[e]))
  BY <1>1, <1>3, PurgeStep
<1>5. known' = [e \in Endpoints |-> known[e] + 0 - (IF e \in D THEN 1 ELSE 0)]
  BY <1>1 DEF Reported
<1> HIDE DEF D
<1>6. Histories'
  BY <1>2, <1>4, <1>5 DEF Histories
<1>7. ReportsReplay'
  <2>1. ASSUME NEW e \in Endpoints
        PROVE  known'[e] = IF services'[e] # None THEN 1 ELSE 0
    <3>1. known[e] = IF services[e] # None THEN 1 ELSE 0
      BY DEF ReportsReplay, Members
    <3> QED
      BY <1>4, <1>5, <3>1
  <2>2. ASSUME NEW e \in Endpoints, services'[e] # None
        PROVE  services'[e] = uuid'[e]
    BY <1>2, <1>4, <2>2 DEF ReportsReplay, Members
  <2> QED
    BY <2>1, <2>2 DEF ReportsReplay, Members
<1>8. Stamped'
  BY <1>2, <1>4 DEF Stamped, Members
<1>9. Steady'
  BY <1>4, <1>6 DEF Steady, Histories
<1>10. MembersAreRecent'
  <2> SUFFICES ASSUME ~jumped, NEW e \in Endpoints
               PROVE  services'[e] # None <=> heard[e] # None /\ now < heard[e] + max_age
    BY <1>2, <1>4 DEF MembersAreRecent, Members
  <2>1. InOrder(Tables, now) /\ checked <= now
    BY DEF Steady
  <2>2. services[e] # None <=> heard[e] # None /\ checked < heard[e] + max_age
    BY DEF MembersAreRecent, Members
  <2>3. heard[e] # None => heard[e] \in Nat
    BY DEF Histories
  <2>4. now \in Nat /\ checked \in Nat /\ max_age \in Nat
    BY BeaconAssumption DEF Histories, BeaconAssumption
  <2>5. CASE services[e] = None
    BY <1>4, <2>1, <2>2, <2>3, <2>4, <2>5
  <2>6. CASE services[e] # None
    <3>1. time[clique[e]] = heard[e]
      BY <2>6 DEF Stamped, Members
    <3>2. TooYoungToDie(Tables, clique[e]) <=> now < heard[e] + max_age
      BY <1>3, <3>1 DEF TooYoungToDie
    <3> QED
      BY <1>4, <2>1, <2>2, <2>6, <3>2
  <2> QED
    BY <2>5, <2>6
<1> QED
  BY <1>4, <1>6, <1>7, <1>8, <1>9, <1>10

\* One called: it is not dropped in the same update, since max_age is not 0.
LEMMA CallStep ==
    ASSUME IInv, NEW e \in Endpoints, NEW u \in Uuids, Update(e, u)
    PROVE  IInv'
<1> USE DEF IInv
<1>1. PICK c \in Cards : /\ c \notin Elements(WithoutLastCheckIn(Tables, e).punch_card)
                         /\ \E n \in Codgers(join_clique(Tables, e, u, c)) :
                               /\ Set(purge_clique(join_clique(Tables, e, u, c), n))
                               /\ known' = Reported(Joined(e), Dropped(join_clique(Tables, e, u, c), n))
  BY Zenon DEF Update
<1> DEFINE t == join_clique(Tables, e, u, c)
<1>2. PICK n \in Codgers(t) : /\ Set(purge_clique(t, n))
                              /\ known' = Reported(Joined(e), Dropped(t, n))
  BY <1>1
<1> DEFINE D == Dropped(t, n)
<1>3. heard' = [heard EXCEPT ![e] = now] /\ uuid' = [uuid EXCEPT ![e] = u]
  BY DEF Update
<1>4. /\ Tables.services = services /\ Tables.clique = clique /\ Tables.time = time
      /\ now \in 0 .. MaxTime
  BY DEF Tables, Histories
<1>5. HasCheckIn(t, Tables, e, u, c)
  BY <1>1, <1>4, CheckedIn, Zenon
<1>6. InOrder(Tables, now) => InOrder(t, now)
  BY <1>1, <1>4, CheckedInInOrder, Zenon
<1> HIDE DEF t
<1>7. /\ Linked(t) /\ t.services = [services EXCEPT ![e] = u]
      /\ t.clique = [clique EXCEPT ![e] = c] /\ t.time = [time EXCEPT ![c] = now]
  BY <1>4, <1>5 DEF HasCheckIn
<1>8. /\ Linked(Tables)'
      /\ now' = now /\ checked' = now /\ jumped' = jumped /\ time' = t.time
      /\ \A x \in Endpoints :
            /\ services'[x] # None <=> t.services[x] # None /\ x \notin D
            /\ services'[x] # None => services'[x] = t.services[x] /\ clique'[x] = t.clique[x]
            /\ x \in D => t.services[x] # None /\ ~TooYoungToDie(t, t.clique[x])
      /\ InOrder(t, now) =>
            /\ InOrder(Tables, now)'
            /\ \A x \in Endpoints : t.services[x] # None =>
                  (x \in D <=> ~TooYoungToDie(t, t.clique[x]))
  BY <1>2, <1>4, <1>7, PurgeStep
<1>9. known' = [x \in Endpoints |-> known[x] + (IF x \in Joined(e) THEN 1 ELSE 0)
                                             - (IF x \in D THEN 1 ELSE 0)]
  BY <1>2 DEF Reported
<1> HIDE DEF D
<1>10. /\ services \in [Endpoints -> Uuids \cup {None}]
       /\ clique \in [Endpoints -> Cards \cup {None}] /\ time \in [Cards -> 0 .. MaxTime]
       /\ \A x \in Endpoints : services[x] # None <=> clique[x] # None
  BY <1>4 DEF Linked, Records
<1>11. u # None /\ c # None
  BY BeaconAssumption DEF BeaconAssumption
<1>12. t.services[e] = u /\ t.clique[e] = c /\ t.time[c] = now
  BY <1>7, <1>10
<1>13. ASSUME NEW x \in Endpoints, x # e
       PROVE  /\ t.services[x] = services[x] /\ t.clique[x] = clique[x]
              /\ services[x] # None => t.time[clique[x]] = time[clique[x]]
  <2>1. t.services[x] = services[x] /\ t.clique[x] = clique[x]
    BY <1>7, <1>10, <1>13
  <2>2. ASSUME services[x] # None PROVE clique[x] # c /\ clique[x] \in Cards
    <3>1. clique[x] # None
      BY <1>10, <2>2
    <3>2. t.who[clique[x]] = x /\ t.who[c] = e
      BY <1>7, <1>11, <1>12, <2>1, <3>1 DEF Linked
    <3> QED
      BY <1>10, <1>13, <3>1, <3>2
  <2> QED
    BY <1>7, <1>10, <2>1, <2>2
<1>14. e \notin D
  <2>1. TooYoungToDie(t, c)
    BY <1>4, <1>12, BeaconAssumption DEF TooYoungToDie, BeaconAssumption
  <2> QED
    BY <1>8, <1>12, <2>1
<1>15. services'[e] = u /\ clique'[e] = c /\ services'[e] # None
  BY <1>8, <1>11, <1>12, <1>14
<1>16. \A x \in Endpoints : x \in Joined(e) <=> x = e /\ clique[e] = None
  BY DEF Joined
<1>17. Histories'
  <2>1. known' \in [Endpoints -> Int]
    BY <1>9 DEF Histories
  <2>2. jumped' \in BOOLEAN
    BY <1>8, Zenon DEF Histories
  <2> QED
    BY <1>3, <1>8, <2>1, <2>2 DEF Histories
<1>18. ASSUME NEW x \in Endpoints
       PROVE  /\ heard'[x] = IF x = e THEN now ELSE heard[x]
              /\ uuid'[x] = IF x = e THEN u ELSE uuid[x]
  BY <1>3 DEF Histories
<1>19. ReportsReplay'
  <2>1. ASSUME NEW x \in Endpoints
        PROVE  known'[x] = IF services'[x] # None THEN 1 ELSE 0
    <3>1. known[x] = IF services[x] # None THEN 1 ELSE 0
      BY DEF ReportsReplay, Members
    <3>2. CASE x = e
      BY <1>9, <1>10, <1>14, <1>15, <1>16, <3>1, <3>2
    <3>3. CASE x # e
      BY <1>8, <1>9, <1>13, <1>16, <3>1, <3>3
    <3> QED
      BY <3>2, <3>3
  <2>2. ASSUME NEW x \in Endpoints, services'[x] # None
        PROVE  services'[x] = uuid'[x]
    <3>1. CASE x = e
      BY <1>15, <1>18, <3>1
    <3>2. CASE x # e
      <4>1. services'[x] = services[x] /\ services[x] # None
        BY <1>8, <1>13, <2>2, <3>2
      <4>2. services[x] = uuid[x]
        BY <4>1 DEF ReportsReplay, Members
      <4> QED
        BY <1>18, <3>2, <4>1, <4>2
    <3> QED
      BY <3>1, <3>2
  <2> QED
    BY <2>1, <2>2 DEF ReportsReplay, Members
<1>20. Stamped'
  <2> SUFFICES ASSUME NEW x \in Endpoints, services'[x] # None
               PROVE  time'[clique'[x]] = heard'[x]
    BY DEF Stamped, Members
  <2>1. CASE x = e
    BY <1>8, <1>12, <1>15, <1>18, <2>1
  <2>2. CASE x # e
    <3>1. clique'[x] = clique[x] /\ services[x] # None
      BY <1>8, <1>13, <2>2
    <3>2. time[clique[x]] = heard[x]
      BY <3>1 DEF Stamped, Members
    <3> QED
      BY <1>8, <1>13, <1>18, <2>2, <3>1, <3>2
  <2> QED
    BY <2>1, <2>2
<1>21. Steady'
  BY <1>6, <1>8, <1>17 DEF Steady, Histories
<1>22. MembersAreRecent'
  <2> SUFFICES ASSUME ~jumped, NEW x \in Endpoints
               PROVE  services'[x] # None <=> heard'[x] # None /\ now < heard'[x] + max_age
    BY <1>8 DEF MembersAreRecent, Members
  <2>1. InOrder(t, now) /\ checked <= now
    BY <1>6 DEF Steady
  <2>2. services[x] # None <=> heard[x] # None /\ checked < heard[x] + max_age
    BY DEF MembersAreRecent, Members
  <2>3. heard[x] # None => heard[x] \in Nat
    BY DEF Histories
  <2>4. /\ now \in Nat /\ checked \in Nat /\ max_age \in Nat /\ max_age > 0 /\ now # None
    BY BeaconAssumption DEF Histories, BeaconAssumption
  <2>5. CASE x = e
    BY <1>15, <1>18, <2>4, <2>5
  <2>6. CASE x # e /\ services[x] = None
    BY <1>8, <1>13, <1>18, <2>1, <2>2, <2>3, <2>4, <2>6
  <2>7. CASE x # e /\ services[x] # None
    <3>1. time[clique[x]] = heard[x]
      BY <2>7 DEF Stamped, Members
    <3>2. TooYoungToDie(t, t.clique[x]) <=> now < heard[x] + max_age
      BY <1>13, <2>7, <3>1 DEF TooYoungToDie
    <3> QED
      BY <1>8, <1>13, <1>18, <2>1, <2>2, <2>7, <3>2
  <2> QED
    BY <2>5, <2>6, <2>7
<1> QED
  BY <1>8, <1>17, <1>19, <1>20, <1>21, <1>22

\* The clock alone: it may go back, and then nothing is said of ages any more.
LEMMA ClockStep ==
    ASSUME IInv, Tick \/ SetBack
    PROVE  IInv'
<1> USE DEF IInv
<1>1. Tables' = Tables /\ Members' = Members /\ checked' = checked
  BY DEF Tick, SetBack, tables, history, Tables, Members
<1>2. /\ services' = services /\ clique' = clique /\ time' = time
      /\ known' = known /\ heard' = heard /\ uuid' = uuid
  BY DEF Tick, SetBack, tables, history
<1>3. jumped' \in BOOLEAN /\ (jumped' \/ Tick)
  <2>1. jumped \in BOOLEAN
    BY DEF Histories
  <2> QED
    BY <2>1, Zenon DEF Tick, SetBack, history
<1>4. Histories'
  BY <1>1, <1>2, <1>3, BeaconAssumption DEF Tick, SetBack, Histories, BeaconAssumption
<1>5. Linked(Tables)'
  BY <1>1
<1>6. ReportsReplay' /\ Stamped'
  BY <1>1, <1>2 DEF ReportsReplay, Stamped
<1>7. ASSUME ~jumped'
      PROVE  ~jumped /\ Tick
  <2>1. Tick
    BY <1>3, <1>7
  <2>2. jumped' = jumped
    BY <2>1 DEF Tick, history
  <2> QED
    BY <1>7, <2>1, <2>2, Zenon
<1>8. Steady'
  <2> SUFFICES ASSUME ~jumped'
               PROVE  InOrder(Tables, now + 1) /\ checked <= now + 1 /\ now' = now + 1
    BY <1>1 DEF Steady
  <2>1. InOrder(Tables, now) /\ checked <= now /\ now' = now + 1
    BY <1>7 DEF Steady, Tick
  <2>2. InOrder(Tables, now + 1)
    <3>1. ASSUME NEW k \in DOMAIN punch_card
          PROVE  time[punch_card[k]] <= now + 1
      <4>1. time[punch_card[k]] <= now
        BY <2>1 DEF InOrder, Tables
      <4>2. time[punch_card[k]] \in Nat /\ now \in Nat
        BY DEF Histories, Linked, Records, Tables
      <4> QED
        BY <4>1, <4>2
    <3> QED
      BY <2>1, <3>1 DEF InOrder, Tables
  <2> QED
    BY <2>1, <2>2 DEF Histories
<1>9. MembersAreRecent'
  BY <1>1, <1>2, <1>7, Zenon DEF MembersAreRecent
<1> QED
  BY <1>4, <1>5, <1>6, <1>8, <1>9

-----------------------------------------------------------------------------
(* Theorems                                                                 *)

\* The containers are in step, the list is in order until the clock is set back,
\* and the histories agree with the members.
THEOREM Invariance ==
    Spec => []IInv
<1>1. IInv /\ [Next]_vars => IInv'
  <2> SUFFICES ASSUME IInv, [Next]_vars PROVE IInv'
    OBVIOUS
  <2>1. CASE Tick \/ SetBack
    BY <2>1, ClockStep
  <2>2. CASE UpdateQuietly
    BY <2>2, QuietStep
  <2>3. CASE \E e \in Endpoints, u \in Uuids : Update(e, u)
    BY <2>3, CallStep
  <2>4. CASE UNCHANGED vars
    <3>1. /\ Tables' = Tables /\ Members' = Members
          /\ services' = services /\ clique' = clique /\ time' = time
          /\ known' = known /\ heard' = heard /\ uuid' = uuid
          /\ now' = now /\ checked' = checked /\ jumped' = jumped
      BY <2>4 DEF vars, tables, history, Tables, Members
    <3>2. Histories' /\ Linked(Tables)' /\ ReportsReplay' /\ Stamped'
      BY <3>1 DEF IInv, Histories, ReportsReplay, Stamped
    <3>3. Steady' /\ MembersAreRecent'
      BY <3>1, Zenon DEF IInv, Steady, MembersAreRecent
    <3> QED
      BY <3>2, <3>3 DEF IInv
  <2> QED
    BY <2>1, <2>2, <2>3, <2>4 DEF Next
<1> QED
  BY <1>1, Initially, PTL DEF Spec

\* The check-ins are as many as the members: each is one's, and each has one.
LEMMA OneCheckInEach ==
    ASSUME Linked(Tables)
    PROVE  Len(punch_card) = Cardinality(Members)
<1> DEFINE N == Len(punch_card)
           f == [k \in 1 .. N |-> who[punch_card[k]]]
<1>1. /\ punch_card \in Seq(Cards) /\ N \in Nat /\ DOMAIN punch_card = 1 .. N
      /\ Distinct(punch_card)
  BY DEF Linked, Records, Tables
<1>2. /\ \A e \in Endpoints : (services[e] # None) <=> (clique[e] # None)
      /\ \A e \in Endpoints : clique[e] # None =>
            clique[e] \in Elements(punch_card) /\ who[clique[e]] = e
      /\ \A c \in Elements(punch_card) : who[c] \in Endpoints /\ clique[who[c]] = c
  BY DEF Linked, Tables
<1>3. ASSUME NEW k \in 1 .. N
      PROVE  f[k] \in Members /\ clique[f[k]] = punch_card[k]
  <2>1. punch_card[k] \in Elements(punch_card) /\ punch_card[k] # None
    BY <1>1, BeaconAssumption DEF Elements, BeaconAssumption
  <2> QED
    BY <1>2, <2>1 DEF Members
<1>4. ASSUME NEW e \in Members PROVE \E k \in 1 .. N : f[k] = e
  BY <1>1, <1>2 DEF Members, Elements
<1>5. ASSUME NEW k \in 1 .. N, NEW m \in 1 .. N, f[k] = f[m]
      PROVE  k = m
  BY <1>1, <1>3, <1>5 DEF Distinct
<1>6. f \in [1 .. N -> Members]
  BY <1>3
<1> HIDE DEF f, N
<1>7. f \in Bijection(1 .. N, Members)
  BY <1>4, <1>5, <1>6 DEF Bijection, Injection, Surjection, IsInjective
<1>8. ExistsBijection(1 .. N, Members)
  BY <1>7 DEF ExistsBijection
<1> QED
  BY <1>1, <1>8, FS_CountingElements DEF N

\* services, punch_card and clique hold the same members and point at each other
\* after any sequence of updates, whatever the clock does.
THEOREM NothingDangles ==
    Spec => []CrossReferenced
<1>1. IInv => CrossReferenced
  <2> SUFFICES ASSUME IInv PROVE CrossReferenced
    OBVIOUS
  <2>1. Linked(Tables)
    BY DEF IInv
  <2>2. TypeOK
    BY <2>1 DEF IInv, Histories, TypeOK, Linked, Records, Tables
  <2>3. Len(punch_card) = Cardinality(Members)
    BY <2>1, OneCheckInEach
  <2>4. \A n \in DOMAIN punch_card : clique[who[punch_card[n]]] = punch_card[n]
    BY <2>1 DEF Linked, Tables, Elements
  <2> QED
    BY <2>1, <2>2, <2>3, <2>4 DEF CrossReferenced, Linked, Tables
<1> QED
  BY <1>1, Invariance, PTL

\* Adding up the joins and drops that update reports gives the members that
\* services() has, each with its last uuid.
THEOREM ReportsAddUp ==
    Spec => []ReportsReplay
<1>1. IInv => ReportsReplay
  BY DEF IInv
<1> QED
  BY <1>1, Invariance, PTL

\* Although purge_clique stops at the first young check-in, an update leaves no
\* old one and drops no young one, unless the clock was set back.
THEOREM KeepsTheYoung ==
    Spec => []MembersAreRecent
<1>1. IInv => MembersAreRecent
  BY DEF IInv
<1> QED
  BY <1>1, Invariance, PTL
================================================================================
