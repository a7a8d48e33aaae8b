-------------------------------- MODULE Beacon --------------------------------
(***************************************************************************)
(* The service table of beacon_t in src/zmq_helpers.cpp.  A member is kept *)
(* in three containers that point at each other: services (endpoint to     *)
(* uuid), punch_card (a list of check-ins, oldest first, each pointing at  *)
(* its service) and clique (endpoint to its place in punch_card).  update  *)
(* lets one caller check in and then drops whoever has not been heard of   *)
(* for max_age.  The two of them ask std::time one after the other and are *)
(* taken to get the same answer.                                           *)
(*                                                                         *)
(* A list iterator stays valid while other nodes come and go, so a card    *)
(* is a name that moves in the list; a freed one may be used again.        *)
(***************************************************************************)
EXTENDS Naturals, Sequences, FiniteSets

CONSTANTS Endpoints, Uuids,
          Cards,       \* the list nodes the allocator can hand out
          None,
          max_age,
          MaxTime      \* bound on the clock

ASSUME BeaconAssumption ==
    /\ None \notin Uuids /\ None \notin Cards /\ None \notin Nat
    /\ max_age \in Nat \ {0} /\ MaxTime \in Nat

VARIABLES
    now,         \* std::time
    services,    \* services_t
    punch_card,  \* punch_card_t, as the nodes of the list
    clique,      \* clique_t
    time, who,   \* what a node of punch_card holds
    known,       \* history: joins less drops reported of each endpoint
    heard,       \* history: when each endpoint was last heard of, and with
    uuid,        \*          which uuid
    checked,     \* history: when update last ran
    jumped       \* history: the wall clock was set back

tables  == <<services, punch_card, clique, time, who>>
history == <<known, heard, uuid, checked, jumped>>
vars    == <<now, tables, history>>

Elements(s) == {s[n] : n \in DOMAIN s}
Members == {e \in Endpoints : services[e] # None}

-----------------------------------------------------------------------------
Tick ==
    /\ now < MaxTime
    /\ now' = now + 1
    /\ UNCHANGED <<tables, history>>

SetBack ==
    /\ now > 0
    /\ now' = now - 1 /\ jumped' = TRUE
    /\ UNCHANGED <<tables, known, heard, uuid, checked>>

-----------------------------------------------------------------------------
(* update, on the tables t                                                  *)

Tables == [services |-> services, punch_card |-> punch_card, clique |-> clique,
           time |-> time, who |-> who]

\* punch_card.erase
Torn(s, c) ==
    LET k == CHOOSE k \in DOMAIN s : s[k] = c
    IN  [m \in 1 .. Len(s) - 1 |-> IF m < k THEN s[m] ELSE s[m + 1]]

\* The caller's last check-in is erased from all three.
WithoutLastCheckIn(t, e) ==
    IF t.clique[e] = None THEN t
    ELSE [t EXCEPT !.services[e] = None, !.clique[e] = None,
                   !.punch_card = Torn(@, t.clique[e])]

\* What services.insert({endpoint, uuid}) stores for the endpoint.
NewService(e, u) == u

\* join_clique with the node c for the new check-in
join_clique(t, e, u, c) ==
    LET s == WithoutLastCheckIn(t, e)
    IN  [s EXCEPT !.services[e] = IF @ = None THEN NewService(e, u) ELSE @,
                  !.punch_card = Append(@, c),
                  !.clique[e] = IF @ = None THEN c ELSE @,
                  !.time[c] = now, !.who[c] = e]

\* Faulty variant: those who reach the age are kept.
StillYoungAtAge(t, c) == now <= t.time[c] + max_age

\* now - end->first < max_age
TooYoungToDie(t, c) == now < t.time[c] + max_age

\* How many check-ins there are up to the first that is too young: one number.
Codgers(t) ==
    {n \in 0 .. Len(t.punch_card) :
        /\ \A m \in 1 .. n : ~TooYoungToDie(t, t.punch_card[m])
        /\ n < Len(t.punch_card) => TooYoungToDie(t, t.punch_card[n + 1])}

\* Faulty variant: clique keeps pointing at the card.
KeepsClique(t, gone) == t.clique

CliqueWithout(t, gone) == [e \in Endpoints |-> IF e \in gone THEN None ELSE t.clique[e]]

\* Those purge_clique drops when there are n, and the tables without them.
Dropped(t, n) == {t.who[t.punch_card[m]] : m \in 1 .. n}
purge_clique(t, n) ==
    [t EXCEPT !.services = [e \in Endpoints |-> IF e \in Dropped(t, n) THEN None ELSE @[e]],
              !.clique = CliqueWithout(t, Dropped(t, n)),
              !.punch_card = SubSeq(@, n + 1, Len(@))]

Set(t) ==
    /\ services' = t.services /\ punch_card' = t.punch_card /\ clique' = t.clique
    /\ time' = t.time /\ who' = t.who
    /\ checked' = now
    /\ UNCHANGED <<now, jumped>>

\* What a caller makes of the two lists update returns.
Reported(joined, dropped) ==
    [e \in Endpoints |-> known[e] + (IF e \in joined THEN 1 ELSE 0)
                                  - (IF e \in dropped THEN 1 ELSE 0)]

\* Nobody called, or what came was no ZRE frame.
UpdateQuietly ==
    /\ \E n \in Codgers(Tables) :
       /\ Set(purge_clique(Tables, n))
       /\ known' = Reported({}, Dropped(Tables, n))
    /\ UNCHANGED <<heard, uuid>>

\* Faulty variant: every check-in is reported as a join.
JoinedAlways(e) == {e}

\* Whom the report says has joined: not those who only check in again.
Joined(e) == IF clique[e] = None THEN {e} ELSE {}

Update(e, u) ==
    /\ \E c \in Cards \ Elements(WithoutLastCheckIn(Tables, e).punch_card) :
       LET t == join_clique(Tables, e, u, c)
       IN  \E n \in Codgers(t) :
           /\ Set(purge_clique(t, n))
           /\ known' = Reported(Joined(e), Dropped(t, n))
    /\ heard' = [heard EXCEPT ![e] = now]
    /\ uuid' = [uuid EXCEPT ![e] = u]

Init ==
    /\ now = 0
    /\ services = [e \in Endpoints |-> None] /\ clique = [e \in Endpoints |-> None]
    /\ punch_card = <<>>
    /\ time = [c \in Cards |-> 0] /\ who = [c \in Cards |-> None]
    /\ known = [e \in Endpoints |-> 0] /\ heard = [e \in Endpoints |-> None]
    /\ uuid = [e \in Endpoints |-> None] /\ checked = 0 /\ jumped = FALSE

Next == \/ Tick \/ SetBack \/ UpdateQuietly
        \/ \E e \in Endpoints, u \in Uuids : Update(e, u)

Spec == Init /\ [][Next]_vars
-----------------------------------------------------------------------------
(* Properties                                                               *)

\* The type invariant of the three containers.
TypeOK ==
    /\ now \in 0 .. MaxTime /\ checked \in 0 .. MaxTime
    /\ services \in [Endpoints -> Uuids \cup {None}]
    /\ punch_card \in Seq(Cards)
    /\ clique \in [Endpoints -> Cards \cup {None}]
    /\ time \in [Cards -> 0 .. MaxTime]
    /\ who \in [Cards -> Endpoints \cup {None}]

\* The three containers hold the same members and point at each other, so no
\* iterator that join_clique or purge_clique follows dangles, and no member has
\* two check-ins.  It holds even when the wall clock is set back.
CrossReferenced ==
    /\ TypeOK
    /\ \A e \in Endpoints : (services[e] # None) <=> (clique[e] # None)
    /\ \A e \in Endpoints : clique[e] # None =>
          clique[e] \in Elements(punch_card) /\ who[clique[e]] = e
    /\ \A n \in DOMAIN punch_card : clique[who[punch_card[n]]] = punch_card[n]
    /\ Len(punch_card) = Cardinality(Members)

\* A caller who adds those update reports as joined and removes those it reports
\* as dropped has the endpoints of services(): each join is reported once, each
\* drop once, and a member that checks in again just before being dropped neither.
\* services() gives each of them the uuid of its last check-in.
ReportsReplay ==
    /\ \A e \in Endpoints : known[e] = IF e \in Members THEN 1 ELSE 0
    /\ \A e \in Members : services[e] = uuid[e]

\* After an update the members are exactly those heard of within max_age of it,
\* although purge_clique stops at the first check-in that is young enough, as
\* long as the wall clock was never set back.
MembersAreRecent ==
    ~jumped => \A e \in Endpoints :
        e \in Members <=> heard[e] # None /\ checked < heard[e] + max_age
===============================================================================
