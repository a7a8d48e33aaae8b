------------------------------ MODULE ClientProofs ----------------------------
(***************************************************************************)
(* Proofs about client_t::batch for any number of requests and any batch   *)
(* size: how far it runs ahead of the server, that it blocks only when     *)
(* something is to come, and when it may return.                           *)
(*                                                                         *)
(* And, from http_client_t on, about the scanner of HttpClient for any     *)
(* stream and any messages: its lengths do not wrap, and it hands on the   *)
(* responses of a well-formed stream one by one and whole.                 *)
(***************************************************************************)
EXTENDS Client, HttpClient, SequenceTheorems, TLAPS

\* Requests without a response the collect function has seen.
UnderWay == sent - collected - discarded

\* What current_batch counts: requests made since the last round was read in
\* full, and then the responses of this round.
Counted ==
    /\ arrived + collected + discarded <= sent
    /\ sent <= tried
    /\ pc = "connect" => sent = 0 /\ tried = 0 /\ current_batch = 0
    /\ pc = "request" => UnderWay <= current_batch
    /\ pc = "receive" => UnderWay + current_batch <= batch_size
    /\ UnderWay <= batch_size

\* As long as nothing failed it counts exactly, and a round that is not a whole
\* batch is the last one.
Exact ==
    ~Failed /\ Total > 0 =>
        /\ pc = "connect" => collected = 0
        /\ pc = "request" => UnderWay = current_batch /\ collected < Total
        /\ pc = "receive" => \/ sent = Total /\ collected < Total
                             \/ /\ UnderWay + current_batch = batch_size
                                /\ current_batch < batch_size

\* collect_function asks for more only while responses are missing.
MoreToCome == more => collected < Total

IInv == TypeOK /\ Counted /\ Exact /\ MoreToCome /\ CollectsUnlessSplit

-----------------------------------------------------------------------------
LEMMA InitIInv == Init => IInv
<1> SUFFICES ASSUME Init PROVE IInv
  OBVIOUS
<1>1. /\ more \in BOOLEAN /\ piece \in BOOLEAN /\ stopping \in BOOLEAN
      /\ ~more /\ pc = "connect"
  BY Zenon DEF Init
<1> QED
  BY <1>1, ClientAssumption
  DEF Init, IInv, TypeOK, Counted, Exact, MoreToCome, CollectsUnlessSplit, UnderWay, Failed

USE DEF IInv, TypeOK, Counted, Exact, MoreToCome, CollectsUnlessSplit, UnderWay, Failed

\* The other side and the signal leave the loop alone.
LEMMA OtherSteps == ASSUME IInv, Accept \/ Answer \/ HangUp \/ Stop
                    PROVE  IInv'
<1>1. CASE Accept
  BY <1>1, ClientAssumption DEF Accept, callers
<1>2. CASE Answer
  BY <1>2, ClientAssumption DEF Answer, callers, Outstanding
<1>3. CASE HangUp
  BY <1>3, ClientAssumption DEF HangUp, callers
<1>4. CASE Stop
  BY <1>4, ClientAssumption DEF Stop, callers
<1> QED
  BY <1>1, <1>2, <1>3, <1>4

\* The requests of a round.
LEMMA RequestSteps == ASSUME IInv, Connect \/ Request \/ RequestFails \/ RequestsDone
                      PROVE  IInv'
<1>1. CASE Connect
  BY <1>1, ClientAssumption DEF Connect
<1>2. CASE Request
  BY <1>2, ClientAssumption DEF Request, Room
<1>3. CASE RequestFails
  BY <1>3, ClientAssumption DEF RequestFails, Room
<1>4. CASE RequestsDone
  <2>1. more' \in BOOLEAN /\ ~more'
    BY <1>4, Zenon DEF RequestsDone
  <2> QED
    BY <1>4, <2>1, ClientAssumption DEF RequestsDone, Room
<1> QED
  BY <1>1, <1>2, <1>3, <1>4

\* A comparison that is stored is a Boolean, and true when it holds.
LEMMA Stored == ASSUME NEW a \in Nat, NEW b \in Nat, NEW x, x = (a < b)
                PROVE  x \in BOOLEAN /\ (x <=> a < b)
<1>1. (a < b) \in BOOLEAN
  BY SMT
<1> QED
  BY <1>1, Zenon

\* What the loop conditions make of a read that brought the count to m.
LEMMA LoopConditions ==
    ASSUME NEW m, GoOn(m)
    PROVE  /\ pc' = "receive" => more' /\ ~(m >= batch_size) /\ current_batch' = m
           /\ pc' = "request" => more' /\ m >= batch_size /\ current_batch' = 0
           /\ pc' = "returned" => (~more' \/ stopping) /\ current_batch' = 0
           /\ pc' \in {"receive", "request", "returned"}
  BY DEF GoOn

LEMMA ReceiveStep == ASSUME IInv, NEW n \in 0 .. batch_size, Receive(n)
                     PROVE  IInv'
<1>1. CASE n = 0
  <2>1. piece' \in BOOLEAN /\ piece' /\ more' = more /\ more' \in BOOLEAN
    BY <1>1 DEF Receive, MoreAfter
  <2>2. /\ pc = "receive" /\ arrived > 0 /\ GoOn(current_batch)
        /\ UNCHANGED <<arrived, collected, tried, sent, discarded, connection, stopping>>
    BY <1>1 DEF Receive, CountResponses
  <2> QED
    BY <2>1, <2>2, LoopConditions, ClientAssumption
<1>2. CASE n # 0
  <2>1. /\ piece' \in BOOLEAN
        /\ more' = (collected + n < Total) /\ collected' = collected + n
    BY <1>2, Zenon DEF Receive, MoreAfter
  <2>2. /\ pc = "receive" /\ n <= arrived /\ GoOn(current_batch + n)
        /\ arrived' = arrived - n /\ collected' = collected + n
        /\ UNCHANGED <<tried, sent, discarded, connection, stopping>>
    BY <1>2 DEF Receive, CountResponses
  <2>3. more' \in BOOLEAN /\ (more' <=> collected + n < Total)
    BY <2>1, Stored, ClientAssumption
  <2> QED
    BY <1>2, <2>1, <2>2, <2>3, LoopConditions, ClientAssumption
<1> QED
  BY <1>1, <1>2

LEMMA ThrowStep == ASSUME IInv, NEW n \in 0 .. batch_size, NEW k \in 0 .. n, CollectThrows(n, k)
                   PROVE  IInv'
<1>1. /\ piece' \in BOOLEAN
      /\ \/ more' = more /\ k = 0
         \/ more' = (collected + k < Total)
  BY Zenon DEF CollectThrows, MoreAfter
<1>2. /\ pc = "receive" /\ k < n /\ n <= arrived /\ GoOn(current_batch)
      /\ arrived' = arrived - n
      /\ collected' = collected + k /\ discarded' = discarded + (n - k)
      /\ UNCHANGED <<tried, sent, connection, stopping>>
  BY DEF CollectThrows
<1>3. more' \in BOOLEAN /\ (more' => collected' < Total)
  <2>1. CASE more' = more /\ k = 0
    BY <1>2, <2>1
  <2>2. CASE more' = (collected + k < Total)
    <3>1. more' \in BOOLEAN /\ (more' <=> collected + k < Total)
      BY <2>2, Stored, ClientAssumption
    <3> QED
      BY <1>2, <3>1
  <2> QED
    BY <1>1, <2>1, <2>2
<1> QED
  BY <1>1, <1>2, <1>3, LoopConditions, ClientAssumption

LEMMA EndStep == ASSUME IInv, ReceiveEnd
                 PROVE  IInv'
  BY ClientAssumption DEF ReceiveEnd, GoOn, MoreAfter

LEMMA StepIInv == IInv /\ [Next]_vars => IInv'
<1> SUFFICES ASSUME IInv, [Next]_vars
             PROVE  IInv'
  OBVIOUS
<1>1. CASE UNCHANGED vars
  BY <1>1 DEF vars, callers
<1>2. CASE Next
  BY <1>2, OtherSteps, RequestSteps, ReceiveStep, ThrowStep, EndStep DEF Next, Batch, Server
<1> QED
  BY <1>1, <1>2

HIDE DEF IInv, TypeOK, Counted, Exact, MoreToCome, CollectsUnlessSplit, UnderWay, Failed

-----------------------------------------------------------------------------
\* The invariant that counts requests and responses over the rounds of batch().
THEOREM Invariance == Spec => []IInv
  BY InitIInv, StepIInv, PTL DEF Spec

\* However responses are split, callbacks throw and sends fail, batch() never has
\* more than batch_size requests under way.
THEOREM BatchIsBound == Spec => []InFlightBounded
<1>1. IInv => InFlightBounded
  BY DEF InFlightBounded, IInv, Counted, UnderWay
<1> QED
  BY <1>1, Invariance, PTL

\* Without a failure batch() blocks in a read only when a response is to come.
THEOREM NeverWaitsInVain == Spec => []WaitsForSomething
<1>1. IInv => WaitsForSomething
  BY ClientAssumption DEF WaitsForSomething, IInv, TypeOK, Counted, Exact, UnderWay, Failed
<1> QED
  BY <1>1, Invariance, PTL

\* Without a failure batch() returns with every response collected, unless it is
\* told to stop or its last read brought a mere piece of a response.
THEOREM ReturnsComplete == Spec => []CollectsUnlessSplit
<1>1. IInv => CollectsUnlessSplit
  BY DEF IInv
<1> QED
  BY <1>1, Invariance, PTL

-----------------------------------------------------------------------------
(* http_client_t                                                            *)

\* How much of the double return stands before the place current is at.
ReturnAt(from, c) ==
    IF c > from /\ stream[c - 1] = "CR" THEN (IF c - 1 > from /\ stream[c - 2] = "LF" THEN 4 ELSE 2)
    ELSE IF c > from /\ stream[c - 1] = "LF" THEN 3 ELSE 1

\* How much of the header stands there.
HeaderAt(from, c) ==
    IF c > from /\ stream[c - 1] = "CR" THEN 2
    ELSE IF c > from /\ stream[c - 1] = "LF" THEN 3
    ELSE IF c - 1 > from /\ stream[c - 1] = "K" /\ stream[c - 2] = "LF" THEN 4 ELSE 1

\* The stages of the scanner, in a response whose headers end at h, whose length is
\* given after n and up to e, and which ends at to: it seeks that header, it collects
\* the digits, it skips what is left of the headers, it eats the body.
Seeks(from, h) ==
    /\ parser.parse_headers /\ ~parser.parse_length /\ ~parser.parse_body
    /\ parser.content_length = <<>> /\ parser.length = 0
    /\ current \in from .. h
    /\ parser.double_return_itr = ReturnAt(from, current)
    /\ parser.content_length_itr = IF current = h THEN 1 ELSE HeaderAt(from, current)

Counts(n, e) ==
    /\ ~parser.parse_headers /\ parser.parse_length /\ ~parser.parse_body
    /\ parser.content_length = SubSeq(stream, n + 4, current - 1) /\ parser.length = 0
    /\ current \in n + 4 .. e + 1
    /\ parser.double_return_itr = 1

Skips(from, h, e, v) ==
    /\ ~parser.parse_headers /\ ~parser.parse_length /\ ~parser.parse_body
    /\ parser.length = v
    /\ current \in e + 2 .. h
    /\ parser.double_return_itr = ReturnAt(from, current)

Eats(h, to) ==
    /\ ~parser.parse_length /\ parser.parse_body
    /\ parser.length = to - current + 1
    /\ current \in h + 1 .. to

\* The stage it is in, in a response without and with a length.
Plain(from, h, to) == Unsized(from, h) /\ to = h /\ Seeks(from, h)
Framing(from, h, to, n, e) ==
    /\ Sized(from, h, n, e)
    /\ to = h + Stoul(SubSeq(stream, n + 4, e))
    /\ \/ Seeks(from, h) /\ current <= n + 3
       \/ Counts(n, e)
       \/ Skips(from, h, e, Stoul(SubSeq(stream, n + 4, e)))
       \/ Eats(h, to)

Reads(from, h, to) ==
    /\ StandsFirst(DOUBLE_RETURN, from, h - 3) /\ Lines(from, h)
    /\ Plain(from, h, to) \/ \E n, e \in from .. h : Framing(from, h, to, n, e)

\* What was handed on, what is buffered, and where the scanner is.
Placed ==
    /\ frames \in Seq(Seq(STRING)) /\ Len(frames) <= Len(ends)
    /\ frames = [i \in 1 .. Len(frames) |-> SubSeq(stream, Start(i), ends[i])]
    /\ Start(Len(frames) + 1) <= begin /\ begin <= current /\ current <= end + 1
    /\ buffer = SubSeq(stream, Start(Len(frames) + 1), begin - 1)

\* The scanner is in the response after those it handed on.
Follows ==
    Len(frames) < Len(ends) =>
        LET from == Start(Len(frames) + 1)
            to == ends[Len(frames) + 1]
        IN current <= to /\ \E h \in from + 3 .. to : Reads(from, h, to)

\* What holds of a well-formed stream as long as no call was left by an exception.
Framed == ~thrown /\ WellFormed => Placed /\ Follows

\* The members of http_client_t that reset() sets.
Scanner == [parse_headers : BOOLEAN, parse_length : BOOLEAN, parse_body : BOOLEAN,
            content_length : Seq(STRING), length : 0 .. MaxULong,
            double_return_itr : Nat, content_length_itr : Nat]

Typed == /\ stream \in Seq(STRING) /\ ends \in Seq(Nat)
         /\ end \in Nat /\ begin \in Nat /\ current \in Nat \ {0}
         /\ end <= Len(stream) /\ current <= end + 1
         /\ ~thrown => parser \in Scanner /\ BodyNeverWraps

-----------------------------------------------------------------------------
\* Both strings are four symbols long.
LEMMA LengthOfStrings == Len(DOUBLE_RETURN) = 4 /\ Len(CONTENT_LENGTH) = 4
BY DEF DOUBLE_RETURN, CONTENT_LENGTH

\* What ends a line, and the two words, are no digits.
LEMMA NotDigits == ~IsDigit("CR") /\ ~IsDigit("LF") /\ ~IsDigit("L") /\ ~IsDigit("K")
BY DEF IsDigit, Range, DIGITS

\* A new http_client_t.
LEMMA InitTyped == StreamInit => Typed
BY HttpClientAssumption DEF StreamInit, Typed, Initial, Scanner, BodyNeverWraps

\* --length, in a body of which something is left.
LEMMA EatenIs ==
    ASSUME MaxULong \in Nat, NEW s \in Scanner
    PROVE  /\ ~s.parse_body => Eaten(s) = s
           /\ s.parse_body /\ s.length >= 1 =>
                /\ Eaten(s) \in Scanner
                /\ Eaten(s) = [s EXCEPT !.length = s.length - 1]
<1>1. s.length \in 0 .. MaxULong
  BY DEF Scanner
<1>2. CASE s.parse_body /\ s.length >= 1
  <2>1. Eaten(s) = [s EXCEPT !.length = s.length - 1]
    BY <1>1, <1>2 DEF Eaten
  <2>2. s.length - 1 \in 0 .. MaxULong
    BY <1>1, <1>2
  <2> QED BY <1>2, <2>1, <2>2 DEF Scanner
<1> QED BY <1>2 DEF Eaten

\* std::stoul gives a length that fits.
LEMMA MeasuredIs ==
    ASSUME MaxULong \in Nat, NEW s \in Scanner, s.parse_length => ~StoulThrows(s.content_length)
    PROVE  /\ Measured(s) \in Scanner
           /\ Measured(s) = [s EXCEPT !.length = IF s.parse_length THEN Stoul(s.content_length)
                                                ELSE s.length,
                                        !.parse_length = FALSE]
BY DEF Measured, StoulThrows, Scanner

\* The search for the header.
LEMMA HeaderSoughtIs ==
    ASSUME NEW s \in Scanner, ~s.parse_length
    PROVE  LET found == s.parse_headers /\ AtContentLength(s) /\ s.content_length_itr = 4
           IN /\ HeaderSought(s) \in Scanner
              /\ HeaderSought(s).parse_headers <=> (s.parse_headers /\ ~found)
              /\ HeaderSought(s).parse_length <=> found
              /\ HeaderSought(s).parse_body = s.parse_body
              /\ HeaderSought(s).content_length = s.content_length
              /\ HeaderSought(s).length = s.length
              /\ HeaderSought(s).double_return_itr = s.double_return_itr
              /\ HeaderSought(s).content_length_itr =
                   IF ~s.parse_headers THEN s.content_length_itr
                   ELSE IF AtContentLength(s) THEN s.content_length_itr + 1 ELSE 1
<1>1. CASE ~s.parse_headers
  BY <1>1 DEF HeaderSought, Scanner
<1>2. CASE s.parse_headers /\ ~AtContentLength(s)
  <2>1. HeaderSought(s) = [s EXCEPT !.content_length_itr = 1]
    BY <1>2 DEF HeaderSought
  <2> QED BY <1>2, <2>1 DEF Scanner
<1>3. CASE s.parse_headers /\ AtContentLength(s) /\ s.content_length_itr = 4
  <2>1. HeaderSought(s) = [s EXCEPT !.content_length_itr = s.content_length_itr + 1,
                                      !.parse_headers = FALSE, !.parse_length = TRUE]
    BY <1>3, LengthOfStrings DEF HeaderSought, Scanner
  <2>2. HeaderSought(s) \in Scanner
    <3>1. \A x \in Nat, a, b \in BOOLEAN : [s EXCEPT !.content_length_itr = x, !.parse_headers = a,
                                                   !.parse_length = b] \in Scanner
      BY DEF Scanner
    <3>2. s.content_length_itr + 1 \in Nat
      BY DEF Scanner
    <3> QED BY <2>1, <3>1, <3>2
  <2>3. /\ HeaderSought(s).parse_headers = FALSE /\ HeaderSought(s).parse_length = TRUE
        /\ HeaderSought(s).parse_body = s.parse_body
        /\ HeaderSought(s).content_length = s.content_length
        /\ HeaderSought(s).length = s.length
        /\ HeaderSought(s).double_return_itr = s.double_return_itr
        /\ HeaderSought(s).content_length_itr = s.content_length_itr + 1
    BY <2>1 DEF Scanner
  <2> QED BY <1>3, <2>2, <2>3
<1>4. CASE s.parse_headers /\ AtContentLength(s) /\ s.content_length_itr # 4
  <2>1. HeaderSought(s) = [s EXCEPT !.content_length_itr = s.content_length_itr + 1,
                                      !.parse_headers = TRUE, !.parse_length = FALSE]
    BY <1>4, LengthOfStrings DEF HeaderSought, Scanner
  <2>2. HeaderSought(s) \in Scanner
    <3>1. \A x \in Nat, a, b \in BOOLEAN : [s EXCEPT !.content_length_itr = x, !.parse_headers = a,
                                                   !.parse_length = b] \in Scanner
      BY DEF Scanner
    <3>2. s.content_length_itr + 1 \in Nat
      BY DEF Scanner
    <3> QED BY <2>1, <3>1, <3>2
  <2>3. /\ HeaderSought(s).parse_headers = TRUE /\ HeaderSought(s).parse_length = FALSE
        /\ HeaderSought(s).parse_body = s.parse_body
        /\ HeaderSought(s).content_length = s.content_length
        /\ HeaderSought(s).length = s.length
        /\ HeaderSought(s).double_return_itr = s.double_return_itr
        /\ HeaderSought(s).content_length_itr = s.content_length_itr + 1
    BY <2>1 DEF Scanner
  <2> QED BY <1>4, <2>2, <2>3
<1> QED BY <1>1, <1>2, <1>3, <1>4

\* What the scanner is after the stages that precede the double return's, outside
\* a body.
LEMMA ScannedIs ==
    ASSUME MaxULong \in Nat, parser \in Scanner, ~parser.parse_body, Measurable
    PROVE  LET found == parser.parse_headers /\ AtContentLength(parser)
                        /\ parser.content_length_itr = 4
           IN /\ Scanned \in Scanner
              /\ Scanned.parse_headers <=> (parser.parse_headers /\ ~found)
              /\ Scanned.parse_length <=> found
              /\ ~Scanned.parse_body
              /\ Scanned.content_length = parser.content_length
              /\ Scanned.length = IF parser.parse_length THEN Stoul(parser.content_length)
                                    ELSE parser.length
              /\ Scanned.double_return_itr = parser.double_return_itr
              /\ Scanned.content_length_itr =
                   IF ~parser.parse_headers THEN parser.content_length_itr
                   ELSE IF AtContentLength(parser) THEN parser.content_length_itr + 1 ELSE 1
<1> DEFINE m == Measured(parser)
<1>1. Eaten(parser) = parser
  BY EatenIs
<1>2. /\ m \in Scanner
      /\ m = [parser EXCEPT !.length = IF parser.parse_length THEN Stoul(parser.content_length)
                                       ELSE parser.length,
                            !.parse_length = FALSE]
  BY MeasuredIs DEF Measurable
<1> HIDE DEF m
<1>3. /\ ~m.parse_length /\ m.parse_headers = parser.parse_headers
      /\ m.parse_body = parser.parse_body
      /\ m.content_length = parser.content_length
      /\ m.double_return_itr = parser.double_return_itr
      /\ m.content_length_itr = parser.content_length_itr
      /\ m.length = IF parser.parse_length THEN Stoul(parser.content_length) ELSE parser.length
  BY <1>2 DEF Scanner
<1>4. AtContentLength(m) <=> AtContentLength(parser)
  BY <1>3 DEF AtContentLength
<1>5. Scanned = HeaderSought(m)
  BY <1>1 DEF Scanned, m
<1> DEFINE z == HeaderSought(m)
<1>6. LET found == m.parse_headers /\ AtContentLength(m) /\ m.content_length_itr = 4
      IN /\ z \in Scanner
         /\ z.parse_headers <=> (m.parse_headers /\ ~found)
         /\ z.parse_length <=> found
         /\ z.parse_body = m.parse_body
         /\ z.content_length = m.content_length
         /\ z.length = m.length
         /\ z.double_return_itr = m.double_return_itr
         /\ z.content_length_itr = IF ~m.parse_headers THEN m.content_length_itr
                                   ELSE IF AtContentLength(m) THEN m.content_length_itr + 1 ELSE 1
  <2>1. m \in Scanner /\ ~m.parse_length
    BY <1>2, <1>3
  <2> QED BY <2>1, HeaderSoughtIs
<1> HIDE DEF z
<1> QED BY <1>3, <1>4, <1>5, <1>6 DEF z

\* The search for the double return.
LEMMA ReturnSoughtIs ==
    ASSUME NEW s \in Scanner
    PROVE  LET p == ReturnSought(s)
           IN /\ p \in Scanner
              /\ p.parse_headers = s.parse_headers /\ p.parse_length = s.parse_length
              /\ p.content_length = s.content_length /\ p.length = s.length
              /\ p.content_length_itr = s.content_length_itr
              /\ p.double_return_itr = IF AtReturn(s) THEN s.double_return_itr + 1 ELSE 1
              /\ p.parse_body <=> s.parse_body \/ (ReturnFound(s) /\ s.length > 0)
<1> DEFINE d == IF AtReturn(s) THEN s.double_return_itr + 1 ELSE 1
           b == s.parse_body \/ (ReturnFound(s) /\ s.length > 0)
<1>1. d \in Nat /\ b \in BOOLEAN
  BY DEF Scanner
<1>2. ReturnSought(s) = [s EXCEPT !.double_return_itr = d, !.parse_body = b]
  BY DEF ReturnSought, Scanner
<1> HIDE DEF d, b
<1>3. [s EXCEPT !.double_return_itr = d, !.parse_body = b] \in Scanner
  BY <1>1 DEF Scanner
<1>4. LET p == [s EXCEPT !.double_return_itr = d, !.parse_body = b]
      IN /\ p.parse_headers = s.parse_headers /\ p.parse_length = s.parse_length
         /\ p.content_length = s.content_length /\ p.length = s.length
         /\ p.content_length_itr = s.content_length_itr
         /\ p.double_return_itr = d /\ p.parse_body = b
  BY <1>1 DEF Scanner
<1> QED BY <1>2, <1>3, <1>4 DEF d, b

\* reset() ends a body.
LEMMA InitialIs == MaxULong \in Nat => Initial \in Scanner /\ ~Initial.parse_body
BY DEF Initial, Scanner

\* A call looks at symbols of the stream.
LEMMA SymbolIs == Typed /\ current <= end => Symbol \in STRING /\ current \in 1 .. Len(stream)
<1> SUFFICES ASSUME Typed, current <= end PROVE Symbol \in STRING /\ current \in 1 .. Len(stream)
  OBVIOUS
<1>1. stream \in Seq(STRING) /\ current \in Nat \ {0} /\ end \in Nat /\ end <= Len(stream)
  BY DEF Typed
<1>2. current \in 1 .. Len(stream)
  BY <1>1
<1> QED BY <1>1, <1>2 DEF Symbol

\* A body of which more is to come.
LEMMA BodyGoesOn ==
    ASSUME MaxULong \in Nat, parser \in Scanner, parser.parse_body,
           parser.length \in 1 .. MaxULong
    PROVE  /\ Eaten(parser) \in Scanner /\ Eaten(parser).length = parser.length - 1
           /\ Eaten(parser).parse_body
           /\ Eaten(parser).parse_length = parser.parse_length
           /\ BodyEnds(parser) <=> parser.length = 1
<1>1. Eaten(parser) \in Scanner /\ Eaten(parser) = [parser EXCEPT !.length = parser.length - 1]
  BY EatenIs
<1>2. /\ Eaten(parser).length = parser.length - 1 /\ Eaten(parser).parse_body = parser.parse_body
      /\ Eaten(parser).parse_length = parser.parse_length
  BY <1>1 DEF Scanner
<1> QED BY <1>1, <1>2 DEF BodyEnds

\* No step but a throw leaves a body of length 0.
LEMMA NextTyped == Typed /\ [StreamNext]_stream_vars => Typed'
<1> SUFFICES ASSUME Typed, [StreamNext]_stream_vars PROVE Typed'
  OBVIOUS
<1>0. MaxULong \in Nat
  BY HttpClientAssumption
<1>1. ASSUME NEW n \in 1 .. Len(stream), Message(n) PROVE Typed'
  BY <1>1 DEF Typed, Message, server, BodyNeverWraps
<1>2. ASSUME Continue PROVE Typed'
  <2>1. /\ stream' = stream /\ ends' = ends /\ end' = end /\ begin' = begin /\ thrown' = thrown
        /\ current' = current + 1 /\ current <= end
    BY <1>2 DEF Continue, server
  <2>2. ASSUME ~thrown' PROVE parser' \in Scanner /\ BodyNeverWraps'
    <3>1. parser \in Scanner /\ BodyNeverWraps /\ ~thrown
      BY <2>1, <2>2 DEF Typed
    <3>2. CASE parser.parse_body /\ ~BodyEnds(parser) /\ parser' = Eaten(parser)
      <4>1. parser.length \in 1 .. MaxULong
        BY <3>1, <3>2 DEF BodyNeverWraps
      <4> QED BY <1>0, <3>1, <3>2, <4>1, BodyGoesOn DEF BodyNeverWraps
    <3>3. CASE /\ ~parser.parse_body /\ parser.parse_length /\ IsDigit(Symbol)
               /\ parser' = [parser EXCEPT !.content_length = Append(@, Symbol)]
      <4>1. Symbol \in STRING
        BY <2>1, SymbolIs
      <4>2. parser.content_length \in Seq(STRING)
        BY <3>1 DEF Scanner
      <4>3. Append(parser.content_length, Symbol) \in Seq(STRING)
        BY <4>1, <4>2
      <4>4. parser' \in Scanner /\ parser'.parse_body = parser.parse_body
        BY <3>1, <3>3, <4>3 DEF Scanner
      <4> QED BY <3>3, <4>4 DEF BodyNeverWraps
    <3> QED BY <1>2, <3>2, <3>3 DEF Continue
  <2> QED BY <2>1, <2>2 DEF Typed
<1>3. ASSUME NEW s, Abandon(s) PROVE Typed'
  BY <1>3 DEF Abandon, Typed, server
<1>4. ASSUME Scan PROVE Typed'
  <2>1. /\ stream' = stream /\ ends' = ends /\ end' = end /\ begin' = begin /\ thrown' = thrown
        /\ current' = current + 1 /\ current <= end /\ parser' = ReturnSought(Scanned)
        /\ Measurable /\ ~parser.parse_body
    BY <1>4 DEF Scan, server, Looked, Done
  <2>2. ASSUME ~thrown' PROVE parser' \in Scanner /\ BodyNeverWraps'
    <3>1. parser \in Scanner
      BY <2>1, <2>2 DEF Typed
    <3>2. Scanned \in Scanner /\ ~Scanned.parse_body
      BY <1>0, <2>1, <3>1, ScannedIs
    <3>3. /\ parser' \in Scanner /\ parser'.length = Scanned.length
          /\ parser'.parse_body => Scanned.length > 0
      BY <2>1, <3>2, ReturnSoughtIs
    <3>4. Scanned.length \in 0 .. MaxULong
      BY <3>2 DEF Scanner
    <3> QED BY <1>0, <3>3, <3>4 DEF BodyNeverWraps
  <2> QED BY <2>1, <2>2 DEF Typed
<1>5. ASSUME Collect PROVE Typed'
  BY <1>0, <1>5, InitialIs DEF Collect, Looked, server, Typed, Reset, BodyNeverWraps
<1>6. ASSUME Keep PROVE Typed'
  BY <1>6 DEF Keep, Typed, server, BodyNeverWraps
<1>7. ASSUME UNCHANGED stream_vars PROVE Typed'
  BY <1>7 DEF stream_vars, Typed, server, BodyNeverWraps
<1> QED
  BY <1>1, <1>2, <1>3, <1>4, <1>5, <1>6, <1>7
     DEF StreamNext, StreamResponses, NoLength, CollectorThrows

\* As long as no call was left by an exception, --length finds a length of at least
\* 1, whatever the server sends.
THEOREM LengthsNeverWrap == StreamSpec => []BodyNeverWraps
<1>1. StreamInit => Typed
  BY InitTyped
<1>2. Typed /\ [StreamNext]_stream_vars => Typed'
  BY NextTyped
<1>3. Typed => BodyNeverWraps
  BY DEF Typed, BodyNeverWraps
<1> QED
  BY <1>1, <1>2, <1>3, PTL DEF StreamSpec

-----------------------------------------------------------------------------
(* What stands where in a well-formed response                              *)

\* The two strings, symbol by symbol.
LEMMA StandsIs ==
    ASSUME NEW n \in Int
    PROVE  /\ StandsAt(DOUBLE_RETURN, n) <=> /\ stream[n] = "CR" /\ stream[n + 1] = "LF"
                                                 /\ stream[n + 2] = "CR" /\ stream[n + 3] = "LF"
           /\ StandsAt(CONTENT_LENGTH, n) <=> /\ stream[n] = "CR" /\ stream[n + 1] = "LF"
                                                  /\ stream[n + 2] = "K" /\ stream[n + 3] = "L"
<1>1. DOMAIN DOUBLE_RETURN = 1 .. 4 /\ DOMAIN CONTENT_LENGTH = 1 .. 4
  BY DEF DOUBLE_RETURN, CONTENT_LENGTH
<1>2. /\ DOUBLE_RETURN[1] = "CR" /\ DOUBLE_RETURN[2] = "LF"
      /\ DOUBLE_RETURN[3] = "CR" /\ DOUBLE_RETURN[4] = "LF"
      /\ CONTENT_LENGTH[1] = "CR" /\ CONTENT_LENGTH[2] = "LF"
      /\ CONTENT_LENGTH[3] = "K" /\ CONTENT_LENGTH[4] = "L"
  BY DEF DOUBLE_RETURN, CONTENT_LENGTH
<1>3. n + 1 - 1 = n /\ n + 2 - 1 = n + 1 /\ n + 3 - 1 = n + 2 /\ n + 4 - 1 = n + 3
  OBVIOUS
<1>4. \A k \in 1 .. 4 : k = 1 \/ k = 2 \/ k = 3 \/ k = 4
  OBVIOUS
<1> HIDE DEF DOUBLE_RETURN, CONTENT_LENGTH
<1>5. ASSUME NEW w, DOMAIN w = 1 .. 4
      PROVE  StandsAt(w, n) <=> /\ stream[n] = w[1] /\ stream[n + 1] = w[2]
                                  /\ stream[n + 2] = w[3] /\ stream[n + 3] = w[4]
  <2>1. 1 \in 1 .. 4 /\ 2 \in 1 .. 4 /\ 3 \in 1 .. 4 /\ 4 \in 1 .. 4
    OBVIOUS
  <2> QED BY <1>3, <1>4, <1>5, <2>1 DEF StandsAt
<1> QED BY <1>1, <1>2, <1>5

\* The double return is at the end, and not earlier.
LEMMA ReturnSteps ==
    ASSUME NEW from \in Nat, NEW h \in Nat, from + 3 <= h,
           StandsFirst(DOUBLE_RETURN, from, h - 3), Lines(from, h),
           NEW c \in from .. h
    PROVE  /\ ReturnAt(from, c) \in 1 .. 4
           /\ c < h => ReturnAt(from, c + 1) = IF stream[c] = DOUBLE_RETURN[ReturnAt(from, c)]
                                               THEN ReturnAt(from, c) + 1 ELSE 1
           /\ stream[c] = DOUBLE_RETURN[ReturnAt(from, c)] /\ ReturnAt(from, c) = 4 <=> c = h
<1>1. /\ DOUBLE_RETURN[1] = "CR" /\ DOUBLE_RETURN[2] = "LF"
      /\ DOUBLE_RETURN[3] = "CR" /\ DOUBLE_RETURN[4] = "LF"
  BY DEF DOUBLE_RETURN
<1>2. /\ stream[h - 3] = "CR" /\ stream[h - 2] = "LF" /\ stream[h - 1] = "CR" /\ stream[h] = "LF"
  BY StandsIs DEF StandsFirst
<1>3. \A n \in from .. h - 4 : ~(/\ stream[n] = "CR" /\ stream[n + 1] = "LF"
                                 /\ stream[n + 2] = "CR" /\ stream[n + 3] = "LF")
  BY StandsIs DEF StandsFirst
<1>4. \A n \in from .. h :
        /\ stream[n] = "CR" => n < h /\ stream[n + 1] = "LF"
        /\ stream[n] = "LF" => n > from /\ stream[n - 1] = "CR"
  BY DEF Lines
<1>5. /\ stream[c] = "CR" => c < h /\ stream[c + 1] = "LF"
      /\ stream[c] = "LF" => c > from /\ stream[c - 1] = "CR"
  BY <1>4
<1>6. c > from => /\ stream[c - 1] = "CR" => stream[c] = "LF"
                  /\ stream[c - 1] = "LF" => c - 1 > from /\ stream[c - 2] = "CR"
  BY <1>4
<1>7. c - 1 > from /\ stream[c - 2] = "LF" => c - 2 > from /\ stream[c - 3] = "CR"
  BY <1>4
<1>8. c - 2 > from /\ c < h => ~(/\ stream[c - 3] = "CR" /\ stream[c - 2] = "LF"
                       /\ stream[c - 1] = "CR" /\ stream[c] = "LF")
  BY <1>3
<1> QED BY <1>1, <1>2, <1>5, <1>6, <1>7, <1>8 DEF ReturnAt

\* The header with the length is recognised where it stands, and nowhere else.
LEMMA HeaderSteps ==
    ASSUME NEW from \in Nat, NEW h \in Nat, from + 3 <= h,
           StandsFirst(DOUBLE_RETURN, from, h - 3), Lines(from, h),
           NEW c \in from .. h - 1
    PROVE  LET a == HeaderAt(from, c)
               at == stream[c] = CONTENT_LENGTH[a]
           IN /\ a \in 1 .. 4
              /\ at /\ a = 4 => c - 3 \in from .. h - 3 /\ StandsAt(CONTENT_LENGTH, c - 3)
              /\ c - 3 >= from /\ StandsAt(CONTENT_LENGTH, c - 3) => at /\ a = 4
              /\ c + 1 = h => ~at
              /\ c + 1 < h /\ ~(at /\ a = 4) => HeaderAt(from, c + 1) = IF at THEN a + 1 ELSE 1
<1>1. /\ CONTENT_LENGTH[1] = "CR" /\ CONTENT_LENGTH[2] = "LF"
      /\ CONTENT_LENGTH[3] = "K" /\ CONTENT_LENGTH[4] = "L"
  BY DEF CONTENT_LENGTH
<1>2. /\ stream[h - 3] = "CR" /\ stream[h - 2] = "LF" /\ stream[h - 1] = "CR" /\ stream[h] = "LF"
  BY StandsIs DEF StandsFirst
<1>3. \A n \in from .. h - 4 : ~(/\ stream[n] = "CR" /\ stream[n + 1] = "LF"
                                 /\ stream[n + 2] = "CR" /\ stream[n + 3] = "LF")
  BY StandsIs DEF StandsFirst
<1>4. \A n \in from .. h :
        /\ stream[n] = "CR" => n < h /\ stream[n + 1] = "LF"
        /\ stream[n] = "LF" => n > from /\ stream[n - 1] = "CR"
        /\ stream[n] = "K" => n < h /\ stream[n + 1] # "CR"
  BY DEF Lines
<1>5. /\ stream[c] = "CR" => c < h /\ stream[c + 1] = "LF"
      /\ stream[c] = "LF" => c > from /\ stream[c - 1] = "CR"
  BY <1>4
<1>6. c > from => /\ stream[c - 1] = "CR" => stream[c] = "LF"
                  /\ stream[c - 1] = "LF" => c - 1 > from /\ stream[c - 2] = "CR"
                  /\ stream[c - 1] = "K" => stream[c] # "CR"
  BY <1>4
<1>7. c - 1 > from /\ stream[c - 2] = "LF" => c - 2 > from /\ stream[c - 3] = "CR"
  BY <1>4
\* After a line end the next one is the end of the headers.
<1>8. c + 1 < h /\ c - 1 > from /\ stream[c - 1] = "LF" => stream[c] # "CR"
  <2> SUFFICES ASSUME c + 1 < h, c - 1 > from, stream[c - 1] = "LF", stream[c] = "CR" PROVE FALSE
    OBVIOUS
  <2>1. stream[c - 2] = "CR" /\ stream[c + 1] = "LF"
    BY <1>5, <1>6
  <2>2. c - 2 \in from .. h - 4 /\ c - 2 + 1 = c - 1 /\ c - 2 + 2 = c /\ c - 2 + 3 = c + 1
    OBVIOUS
  <2> QED BY <1>3, <2>1, <2>2
<1>9. StandsAt(CONTENT_LENGTH, c - 3) <=>
        stream[c - 3] = "CR" /\ stream[c - 2] = "LF" /\ stream[c - 1] = "K" /\ stream[c] = "L"
  BY StandsIs
<1> QED BY <1>1, <1>2, <1>5, <1>6, <1>7, <1>8, <1>9 DEF HeaderAt

-----------------------------------------------------------------------------
(* One iteration in a well-formed response                                  *)

\* In the headers the scanner finds the double return exactly where they end.
LEMMA InHeaders ==
    ASSUME MaxULong \in Nat, parser \in Scanner, ~parser.parse_body, Measurable,
           NEW from \in Nat, NEW h \in Nat, from + 3 <= h,
           StandsFirst(DOUBLE_RETURN, from, h - 3), Lines(from, h),
           current \in from .. h, parser.double_return_itr = ReturnAt(from, current)
    PROVE  LET p == ReturnSought(Scanned)
           IN /\ Done <=> current = h /\ Scanned.length = 0
              /\ p.parse_headers = Scanned.parse_headers /\ p.parse_length = Scanned.parse_length
              /\ p.content_length = Scanned.content_length /\ p.length = Scanned.length
              /\ p.content_length_itr = Scanned.content_length_itr
              /\ current < h => p.double_return_itr = ReturnAt(from, current + 1)
              /\ p.parse_body <=> current = h /\ Scanned.length > 0
<1> DEFINE d == ReturnAt(from, current)
<1>1. /\ d \in 1 .. 4
      /\ current < h => ReturnAt(from, current + 1) = IF stream[current] = DOUBLE_RETURN[d]
                                                      THEN d + 1 ELSE 1
      /\ stream[current] = DOUBLE_RETURN[d] /\ d = 4 <=> current = h
  BY ReturnSteps
<1>2. Scanned \in Scanner /\ ~Scanned.parse_body /\ Scanned.double_return_itr = d
  BY ScannedIs
<1> HIDE DEF d
<1>3. DOMAIN DOUBLE_RETURN = 1 .. 4
  BY DEF DOUBLE_RETURN
<1>4. AtReturn(Scanned) <=> stream[current] = DOUBLE_RETURN[d]
  BY <1>1, <1>2, <1>3 DEF AtReturn, Symbol
<1>5. ReturnFound(Scanned) <=> current = h
  BY <1>1, <1>2, <1>4, LengthOfStrings DEF ReturnFound
<1>6. Done <=> current = h /\ Scanned.length = 0
  BY <1>5 DEF Done, BodyEnds
<1>7. LET p == ReturnSought(Scanned)
      IN /\ p.parse_headers = Scanned.parse_headers /\ p.parse_length = Scanned.parse_length
         /\ p.content_length = Scanned.content_length /\ p.length = Scanned.length
         /\ p.content_length_itr = Scanned.content_length_itr
         /\ p.double_return_itr = IF AtReturn(Scanned) THEN Scanned.double_return_itr + 1 ELSE 1
         /\ p.parse_body <=> Scanned.parse_body \/ (ReturnFound(Scanned) /\ Scanned.length > 0)
  BY <1>2, ReturnSoughtIs
<1> HIDE DEF Scanned
<1>8. current < h => ReturnSought(Scanned).double_return_itr = ReturnAt(from, current + 1)
  BY <1>1, <1>2, <1>4, <1>7
<1>9. ReturnSought(Scanned).parse_body <=> current = h /\ Scanned.length > 0
  BY <1>2, <1>5, <1>7
<1> QED BY <1>6, <1>7, <1>8, <1>9

\* What an iteration leaves of the scanner in its search for the header.
LEMMA SeeksOn ==
    ASSUME MaxULong \in Nat, parser \in Scanner, Measurable,
           NEW from \in Nat, NEW h \in Nat, from + 3 <= h,
           StandsFirst(DOUBLE_RETURN, from, h - 3), Lines(from, h),
           Seeks(from, h)
    PROVE  LET p == ReturnSought(Scanned)
               found == current - 3 >= from /\ StandsAt(CONTENT_LENGTH, current - 3)
           IN /\ Done <=> current = h
              /\ ~p.parse_body /\ p.content_length = <<>> /\ p.length = 0
              /\ current < h => p.double_return_itr = ReturnAt(from, current + 1)
              /\ current < h /\ ~found =>
                   /\ p.parse_headers /\ ~p.parse_length
                   /\ p.content_length_itr = IF current + 1 = h THEN 1
                                             ELSE HeaderAt(from, current + 1)
              /\ current < h /\ found => ~p.parse_headers /\ p.parse_length
<1> DEFINE a == HeaderAt(from, current)
           at == stream[current] = CONTENT_LENGTH[a]
           found == current - 3 >= from /\ StandsAt(CONTENT_LENGTH, current - 3)
<1>1. /\ parser.parse_headers /\ ~parser.parse_length /\ ~parser.parse_body
      /\ parser.content_length = <<>> /\ parser.length = 0
      /\ current \in from .. h
      /\ parser.double_return_itr = ReturnAt(from, current)
      /\ current < h => parser.content_length_itr = HeaderAt(from, current)
  BY DEF Seeks
<1>2. LET p == ReturnSought(Scanned)
      IN /\ Done <=> current = h /\ Scanned.length = 0
         /\ p.parse_headers = Scanned.parse_headers /\ p.parse_length = Scanned.parse_length
         /\ p.content_length = Scanned.content_length /\ p.length = Scanned.length
         /\ p.content_length_itr = Scanned.content_length_itr
         /\ current < h => p.double_return_itr = ReturnAt(from, current + 1)
         /\ p.parse_body <=> current = h /\ Scanned.length > 0
  BY <1>1, InHeaders
<1>3. LET f == AtContentLength(parser) /\ parser.content_length_itr = 4
      IN /\ Scanned.parse_headers <=> ~f
         /\ Scanned.parse_length <=> f
         /\ Scanned.content_length = <<>> /\ Scanned.length = 0
         /\ Scanned.content_length_itr = IF AtContentLength(parser)
                                           THEN parser.content_length_itr + 1 ELSE 1
  BY <1>1, ScannedIs
<1>4. ASSUME current < h
      PROVE  /\ a \in 1 .. 4
             /\ at /\ a = 4 <=> found
             /\ current + 1 = h => ~at
             /\ current + 1 < h /\ ~found => HeaderAt(from, current + 1) = IF at THEN a + 1 ELSE 1
  <2>1. current \in from .. h - 1
    BY <1>1, <1>4
  <2>2. /\ a \in 1 .. 4
        /\ at /\ a = 4 => current - 3 \in from .. h - 3 /\ StandsAt(CONTENT_LENGTH, current - 3)
        /\ current - 3 >= from /\ StandsAt(CONTENT_LENGTH, current - 3) => at /\ a = 4
        /\ current + 1 = h => ~at
        /\ current + 1 < h /\ ~(at /\ a = 4) =>
             HeaderAt(from, current + 1) = IF at THEN a + 1 ELSE 1
    BY <2>1, HeaderSteps
  <2>3. current - 3 \in from .. h - 3 => current - 3 >= from
    BY <2>1
  <2> HIDE DEF a, at
  <2> QED BY <2>2, <2>3
<1>5. DOMAIN CONTENT_LENGTH = 1 .. 4
  BY DEF CONTENT_LENGTH
<1>6. current < h => (AtContentLength(parser) <=> at) /\ parser.content_length_itr = a
  BY <1>1, <1>4, <1>5 DEF AtContentLength, Symbol
<1> HIDE DEF Scanned, a, at, found
<1>7. ASSUME current < h
      PROVE  /\ found => ~Scanned.parse_headers /\ Scanned.parse_length
             /\ ~found => /\ Scanned.parse_headers /\ ~Scanned.parse_length
                          /\ Scanned.content_length_itr = IF current + 1 = h THEN 1
                                                            ELSE HeaderAt(from, current + 1)
  BY <1>1, <1>3, <1>4, <1>6, <1>7
<1> QED BY <1>1, <1>2, <1>3, <1>7 DEF found

\* The same where the length is read, or was.
LEMMA Measures ==
    ASSUME MaxULong \in Nat, parser \in Scanner, Measurable, Looked,
           NEW from \in Nat, NEW h \in Nat, from + 3 <= h,
           StandsFirst(DOUBLE_RETURN, from, h - 3), Lines(from, h),
           NEW n \in from .. h, NEW e \in from .. h, Sized(from, h, n, e),
           NEW v, v = Stoul(SubSeq(stream, n + 4, e)),
           Counts(n, e) \/ Skips(from, h, e, v)
    PROVE  LET p == ReturnSought(Scanned)
           IN /\ current \in e + 1 .. h
              /\ Done <=> current = h /\ v = 0
              /\ ~p.parse_headers /\ ~p.parse_length /\ p.length = v
              /\ current < h => p.double_return_itr = ReturnAt(from, current + 1)
              /\ p.parse_body <=> current = h /\ v > 0
<1>1. /\ n + 4 <= e /\ e < h
      /\ \A k \in n + 4 .. e : IsDigit(stream[k])
      /\ ~IsDigit(stream[e + 1])
      /\ ~parser.parse_body /\ ~parser.parse_headers
  BY DEF Sized, Counts, Skips
<1>2. stream[n + 3] = "L"
  BY StandsIs DEF Sized, StandsFirst
<1>3. current \in e + 1 .. h /\ parser.double_return_itr = ReturnAt(from, current)
  <2>1. CASE Counts(n, e)
    <3>1. current \in n + 4 .. e + 1 /\ parser.parse_length /\ parser.double_return_itr = 1
      BY <2>1 DEF Counts
    <3>2. ~IsDigit(stream[current])
      BY <3>1 DEF Looked, Symbol
    <3>3. current = e + 1
      BY <1>1, <3>1, <3>2
    <3>4. IsDigit(stream[e])
      BY <1>1
    <3>5. ReturnAt(from, e + 1) = 1
      BY <3>4, NotDigits DEF ReturnAt
    <3> QED BY <1>1, <3>1, <3>3, <3>5
  <2>2. CASE Skips(from, h, e, v)
    BY <1>1, <2>2 DEF Skips
  <2> QED BY <2>1, <2>2
<1>4. Scanned.length = v /\ ~Scanned.parse_headers /\ ~Scanned.parse_length
  <2>1. /\ Scanned.length = IF parser.parse_length THEN Stoul(parser.content_length)
                              ELSE parser.length
        /\ ~Scanned.parse_headers /\ ~Scanned.parse_length
    BY <1>1, ScannedIs
  <2>2. CASE Counts(n, e)
    <3>1. parser.parse_length /\ parser.content_length = SubSeq(stream, n + 4, current - 1)
          /\ current \in n + 4 .. e + 1
      BY <2>2 DEF Counts
    <3>2. current - 1 = e
      BY <1>1, <1>3, <3>1
    <3> QED BY <2>1, <3>1, <3>2
  <2>3. CASE Skips(from, h, e, v)
    BY <2>1, <2>3 DEF Skips
  <2> QED BY <2>2, <2>3
<1>5. current \in from .. h
  BY <1>3
<1>6. LET p == ReturnSought(Scanned)
      IN /\ Done <=> current = h /\ Scanned.length = 0
         /\ p.parse_headers = Scanned.parse_headers /\ p.parse_length = Scanned.parse_length
         /\ p.length = Scanned.length
         /\ current < h => p.double_return_itr = ReturnAt(from, current + 1)
         /\ p.parse_body <=> current = h /\ Scanned.length > 0
  BY <1>1, <1>3, <1>5, InHeaders
<1> QED BY <1>3, <1>4, <1>6

\* Nothing of a response changes while it is read.
LEMMA SameText ==
    ASSUME UNCHANGED stream, NEW from \in Nat, NEW h \in Nat
    PROVE  /\ StandsFirst(DOUBLE_RETURN, from, h - 3) =>
                StandsFirst(DOUBLE_RETURN, from, h - 3)'
           /\ Lines(from, h) => Lines(from, h)'
           /\ Unsized(from, h) => Unsized(from, h)'
           /\ \A n, e \in from .. h : /\ Sized(from, h, n, e) => Sized(from, h, n, e)'
                                      /\ SubSeq(stream, n + 4, e)' = SubSeq(stream, n + 4, e)
           /\ ReturnAt(from, current)' = ReturnAt(from, current')
           /\ HeaderAt(from, current)' = HeaderAt(from, current')
BY DEF StandsFirst, StandsAt, Lines, Unsized, Sized, ReturnAt, HeaderAt

\* An iteration that does not complete the response leaves the scanner in one of
\* its stages.
LEMMA ScanReads ==
    ASSUME MaxULong \in Nat, parser \in Scanner, Scan,
           NEW from \in Nat, NEW h \in Nat, NEW to \in Nat, from + 3 <= h, Reads(from, h, to)
    PROVE  current < to /\ Reads(from, h, to)'
<1> DEFINE p == ReturnSought(Scanned)
<1>1. /\ stream' = stream /\ current' = current + 1 /\ parser' = p
      /\ Looked /\ Measurable /\ ~Done /\ ~parser.parse_body
  BY DEF Scan, server, Looked, Done
<1>2. StandsFirst(DOUBLE_RETURN, from, h - 3) /\ Lines(from, h)
  BY DEF Reads
<1>3. /\ StandsFirst(DOUBLE_RETURN, from, h - 3)' /\ Lines(from, h)'
      /\ Unsized(from, h) => Unsized(from, h)'
      /\ \A n, e \in from .. h : /\ Sized(from, h, n, e) => Sized(from, h, n, e)'
                                 /\ SubSeq(stream, n + 4, e)' = SubSeq(stream, n + 4, e)
      /\ ReturnAt(from, current)' = ReturnAt(from, current + 1)
      /\ HeaderAt(from, current)' = HeaderAt(from, current + 1)
  BY <1>1, <1>2, SameText
<1> HIDE DEF p
<1> DEFINE found == current - 3 >= from /\ StandsAt(CONTENT_LENGTH, current - 3)
<1>4. ASSUME Seeks(from, h)
      PROVE  /\ current \in from .. h - 1
             /\ ~found => Seeks(from, h)'
             /\ found => /\ ~p.parse_body /\ ~p.parse_headers /\ p.parse_length
                         /\ p.content_length = <<>> /\ p.length = 0
                         /\ p.double_return_itr = ReturnAt(from, current + 1)
  <2>1. current \in from .. h
    BY <1>4 DEF Seeks
  <2>2. /\ Done <=> current = h
        /\ ~p.parse_body /\ p.content_length = <<>> /\ p.length = 0
        /\ current < h => p.double_return_itr = ReturnAt(from, current + 1)
        /\ current < h /\ ~found => /\ p.parse_headers /\ ~p.parse_length
                                    /\ p.content_length_itr = IF current + 1 = h THEN 1
                                                              ELSE HeaderAt(from, current + 1)
        /\ current < h /\ found => ~p.parse_headers /\ p.parse_length
    BY <1>1, <1>2, <1>4, SeeksOn DEF p
  <2>3. current \in from .. h - 1 /\ current < h /\ current + 1 \in from .. h
    BY <1>1, <2>1, <2>2
  <2> HIDE DEF found
  <2>4. ASSUME ~found PROVE Seeks(from, h)'
    BY <1>1, <1>3, <2>2, <2>3, <2>4 DEF Seeks
  <2> QED BY <2>2, <2>3, <2>4
<1>5. CASE Plain(from, h, to)
  <2>1. Unsized(from, h) /\ to = h /\ Seeks(from, h)
    BY <1>5 DEF Plain
  <2>2. current \in from .. h - 1 /\ (~found => Seeks(from, h)')
    BY <1>4, <2>1
  <2>3. ~found
    BY <2>1, <2>2 DEF Unsized
  <2>4. Plain(from, h, to)'
    BY <1>3, <2>1, <2>2, <2>3 DEF Plain
  <2> QED BY <1>3, <2>1, <2>2, <2>4 DEF Reads
<1>6. ASSUME NEW n \in from .. h, NEW e \in from .. h, Framing(from, h, to, n, e)
      PROVE  current < to /\ Reads(from, h, to)'
  <2> DEFINE v == Stoul(SubSeq(stream, n + 4, e))
  <2>1. /\ Sized(from, h, n, e) /\ to = h + v
        /\ \/ Seeks(from, h) /\ current <= n + 3
           \/ Counts(n, e)
           \/ Skips(from, h, e, v)
           \/ Eats(h, to)
    BY <1>6 DEF Framing
  <2>2. /\ n + 4 <= e /\ e < h /\ v \in Nat
        /\ StandsAt(CONTENT_LENGTH, n)
        /\ \A k \in from .. n - 1 : ~StandsAt(CONTENT_LENGTH, k)
    BY <2>1 DEF Sized, StoulThrows, StandsFirst
  <2>3. Sized(from, h, n, e)' /\ v' = v
    BY <1>3, <2>1
  <2> HIDE DEF v
  <2>4. SUFFICES /\ current < to
                 /\ \/ Seeks(from, h)' /\ current' <= n + 3
                    \/ Counts(n, e)'
                    \/ Skips(from, h, e, v)'
                    \/ Eats(h, to)'
    <3>1. to = h + v'
      BY <2>1, <2>3
    <3>2. Framing(from, h, to, n, e)'
      BY <2>3, <2>4, <3>1 DEF Framing, v
    <3> QED BY <1>3, <2>4, <3>2 DEF Reads
  <2>5. CASE Seeks(from, h) /\ current <= n + 3
    <3>1. current \in from .. h - 1 /\ current < to
      BY <1>4, <2>1, <2>2, <2>5
    <3>2. CASE current = n + 3
      <4>1. found
        BY <2>2, <3>2
      <4>2. /\ ~p.parse_body /\ ~p.parse_headers /\ p.parse_length
            /\ p.content_length = <<>> /\ p.length = 0
            /\ p.double_return_itr = ReturnAt(from, current + 1)
        BY <1>4, <2>5, <4>1
      <4>3. stream[n + 3] = "L"
        BY <2>2, StandsIs
      <4>4. ReturnAt(from, current + 1) = 1
        BY <3>2, <4>3 DEF ReturnAt
      <4>5. SubSeq(stream, n + 4, n + 3) = <<>>
        BY SubSeqEmpty
      <4>6. Counts(n, e)'
        BY <1>1, <2>2, <3>2, <4>2, <4>4, <4>5 DEF Counts
      <4> QED BY <3>1, <4>6
    <3>3. CASE current < n + 3
      <4>1. ~found
        BY <2>2, <3>1, <3>3
      <4> QED BY <1>1, <1>4, <2>5, <3>1, <3>3, <4>1
    <3> QED BY <2>5, <3>1, <3>2, <3>3
  <2>6. CASE Counts(n, e) \/ Skips(from, h, e, v)
    <3>1. /\ current \in e + 1 .. h
          /\ Done <=> current = h /\ v = 0
          /\ ~p.parse_headers /\ ~p.parse_length /\ p.length = v
          /\ current < h => p.double_return_itr = ReturnAt(from, current + 1)
          /\ p.parse_body <=> current = h /\ v > 0
      <4>1. v = Stoul(SubSeq(stream, n + 4, e))
        BY DEF v
      <4> QED BY <1>1, <1>2, <2>1, <2>6, <4>1, Measures DEF p
    <3>2. CASE current < h
      <4>1. Skips(from, h, e, v)'
        BY <1>1, <1>3, <2>2, <2>3, <3>1, <3>2 DEF Skips
      <4> QED BY <2>1, <2>2, <3>1, <3>2, <4>1
    <3>3. CASE current = h
      <4>1. v > 0 /\ to = h + v
        BY <1>1, <2>1, <2>2, <3>1, <3>3
      <4>2. Eats(h, to)'
        BY <1>1, <2>2, <3>1, <3>3, <4>1 DEF Eats
      <4> QED BY <2>2, <3>3, <4>1, <4>2
    <3> QED BY <3>1, <3>2, <3>3
  <2>7. ~Eats(h, to)
    BY <1>1 DEF Eats
  <2> QED BY <2>1, <2>5, <2>6, <2>7
<1> QED BY <1>5, <1>6 DEF Reads

\* The same for the digits of the length and the symbols of the body.
LEMMA ContinueReads ==
    ASSUME MaxULong \in Nat, parser \in Scanner, Continue, Typed,
           NEW from \in Nat \ {0}, NEW h \in Nat, NEW to \in Nat, from + 3 <= h,
           Reads(from, h, to)
    PROVE  current < to /\ Reads(from, h, to)'
<1>1. /\ stream' = stream /\ current' = current + 1 /\ current \in 1 .. Len(stream)
      /\ stream \in Seq(STRING)
  BY SymbolIs DEF Continue, server, Typed
<1>2. StandsFirst(DOUBLE_RETURN, from, h - 3) /\ Lines(from, h)
  BY DEF Reads
<1>3. /\ StandsFirst(DOUBLE_RETURN, from, h - 3)' /\ Lines(from, h)'
      /\ \A n, e \in from .. h : /\ Sized(from, h, n, e) => Sized(from, h, n, e)'
                                 /\ SubSeq(stream, n + 4, e)' = SubSeq(stream, n + 4, e)
  BY <1>1, <1>2, SameText
<1>4. parser.parse_body \/ parser.parse_length
  BY DEF Continue
<1>5. PICK n \in from .. h, e \in from .. h : Framing(from, h, to, n, e)
  BY <1>4 DEF Reads, Plain, Seeks
<1> DEFINE v == Stoul(SubSeq(stream, n + 4, e))
<1>6. /\ Sized(from, h, n, e) /\ to = h + v
      /\ Counts(n, e) \/ Eats(h, to)
  BY <1>4, <1>5 DEF Framing, Seeks, Skips
<1>7. /\ n + 4 <= e /\ e < h /\ v \in Nat
      /\ ~IsDigit(stream[e + 1])
  BY <1>6 DEF Sized, StoulThrows
<1>8. Sized(from, h, n, e)' /\ v' = v
  BY <1>3, <1>6
<1> HIDE DEF v
<1>9. SUFFICES current < to /\ (Counts(n, e)' \/ Eats(h, to)')
  <2>1. to = h + v'
    BY <1>6, <1>8
  <2>2. Framing(from, h, to, n, e)'
    BY <1>8, <1>9, <2>1 DEF Framing, v
  <2> QED BY <1>3, <1>9, <2>2 DEF Reads
<1>10. CASE Counts(n, e)
  <2>1. /\ ~parser.parse_headers /\ parser.parse_length /\ ~parser.parse_body
        /\ parser.content_length = SubSeq(stream, n + 4, current - 1) /\ parser.length = 0
        /\ current \in n + 4 .. e + 1
        /\ parser.double_return_itr = 1
    BY <1>10 DEF Counts
  <2>2. IsDigit(Symbol) /\ parser' = [parser EXCEPT !.content_length = Append(@, Symbol)]
    BY <2>1 DEF Continue
  <2>3. current \in n + 4 .. e
    <3>1. current # e + 1
      BY <1>7, <2>2 DEF Symbol
    <3> QED BY <2>1, <3>1
  <2>4. SubSeq(stream, n + 4, current) = SubSeq(stream, n + 4, current - 1) \o <<Symbol>>
    <3>1. n + 4 \in 1 .. Len(stream) /\ current \in n + 4 .. Len(stream)
      BY <1>1, <2>3
    <3> QED BY <1>1, <3>1, SubSeqRecursiveSecond DEF Symbol
  <2>5. parser.content_length \in Seq(STRING) /\ Symbol \in STRING
    BY <1>1 DEF Scanner, Symbol
  <2>6. Append(parser.content_length, Symbol) = SubSeq(stream, n + 4, current)
    BY <2>1, <2>4, <2>5, AppendIsConcat
  <2>7. /\ parser'.content_length = Append(parser.content_length, Symbol)
        /\ parser'.parse_headers = parser.parse_headers
        /\ parser'.parse_length = parser.parse_length /\ parser'.parse_body = parser.parse_body
        /\ parser'.length = parser.length
        /\ parser'.double_return_itr = parser.double_return_itr
    BY <2>2 DEF Scanner
  <2>8. current' - 1 = current /\ current' \in n + 4 .. e + 1
    BY <1>1, <2>3
  <2>9. SubSeq(stream, n + 4, current - 1)' = SubSeq(stream, n + 4, current)
    BY <1>1, <2>8
  <2>10. Counts(n, e)'
    BY <2>1, <2>6, <2>7, <2>8, <2>9 DEF Counts
  <2> QED BY <1>6, <1>7, <2>3, <2>10
<1>11. CASE Eats(h, to)
  <2>1. /\ ~parser.parse_length /\ parser.parse_body /\ parser.length = to - current + 1
        /\ current \in h + 1 .. to
    BY <1>11 DEF Eats
  <2>2. ~BodyEnds(parser) /\ parser' = Eaten(parser)
    BY <2>1 DEF Continue
  <2>3. parser.length \in 1 .. MaxULong
    BY <2>1 DEF Scanner
  <2>4. /\ parser'.length = parser.length - 1 /\ parser'.parse_body
        /\ parser'.parse_length = parser.parse_length
        /\ parser.length # 1
    BY <2>1, <2>2, <2>3, BodyGoesOn
  <2>5. current < to /\ current' \in h + 1 .. to /\ parser.length - 1 = to - current' + 1
    BY <1>1, <2>1, <2>4
  <2> QED BY <2>1, <2>4, <2>5 DEF Eats
<1> QED BY <1>6, <1>10, <1>11

\* collect_function is called with the last symbol of a response, and not before.
LEMMA CollectReads ==
    ASSUME MaxULong \in Nat, parser \in Scanner, Looked, Measurable, Done,
           NEW from \in Nat, NEW h \in Nat, NEW to \in Nat, from + 3 <= h, Reads(from, h, to)
    PROVE  current = to
<1>1. StandsFirst(DOUBLE_RETURN, from, h - 3) /\ Lines(from, h)
  BY DEF Reads
<1>2. CASE Plain(from, h, to)
  BY <1>1, <1>2, SeeksOn DEF Plain
<1>3. ASSUME NEW n \in from .. h, NEW e \in from .. h, Framing(from, h, to, n, e)
      PROVE  current = to
  <2> DEFINE v == Stoul(SubSeq(stream, n + 4, e))
  <2>1. /\ Sized(from, h, n, e) /\ to = h + v
        /\ \/ Seeks(from, h) /\ current <= n + 3
           \/ Counts(n, e) \/ Skips(from, h, e, v)
           \/ Eats(h, to)
    BY <1>3 DEF Framing
  <2>2. n + 4 <= e /\ e < h
    BY <2>1 DEF Sized
  <2>3. CASE Seeks(from, h) /\ current <= n + 3
    BY <1>1, <2>2, <2>3, SeeksOn
  <2>4. CASE Counts(n, e) \/ Skips(from, h, e, v)
    <3> HIDE DEF v
    <3>1. v = Stoul(SubSeq(stream, n + 4, e))
      BY DEF v
    <3>2. current = h /\ v = 0
      BY <1>1, <2>1, <2>4, <3>1, Measures
    <3> QED BY <2>1, <3>2
  <2>5. CASE Eats(h, to)
    <3>1. parser.parse_body /\ parser.length = to - current + 1 /\ current \in h + 1 .. to
      BY <2>5 DEF Eats
    <3>2. parser.length \in 1 .. MaxULong
      BY <3>1 DEF Scanner
    <3>3. parser.length = 1
      BY <3>1, <3>2, BodyGoesOn DEF Looked
    <3> QED BY <3>1, <3>3
  <2> QED BY <2>1, <2>3, <2>4, <2>5
<1> QED BY <1>2, <1>3 DEF Reads

-----------------------------------------------------------------------------
(* The frames                                                               *)

\* Whether what is sent is well formed does not change.
LEMMA SameSent ==
    ASSUME UNCHANGED server
    PROVE  /\ WellFormed' => WellFormed
           /\ \A from, h, to : Response(from, h, to) => Response(from, h, to)'
BY DEF server, WellFormed, Start, Response, StandsFirst, StandsAt, Lines, Unsized,
       Sized

\* A response is begun with the scanner as reset() leaves it.
LEMMA BeginsSeeking ==
    ASSUME NEW from \in Nat, NEW h \in Nat, from + 3 <= h
    PROVE  /\ parser = Initial /\ current = from => Seeks(from, h)
           /\ parser' = Initial /\ current' = from => Seeks(from, h)'
BY DEF Seeks, Initial, ReturnAt, HeaderAt

\* From there on it is in one of its stages.
LEMMA Begins ==
    ASSUME NEW from \in Nat, NEW h \in Nat, from + 3 <= h, NEW to \in Nat
    PROVE  /\ Response(from, h, to) /\ Seeks(from, h) /\ current = from => Reads(from, h, to)
           /\ Response(from, h, to)' /\ Seeks(from, h)' /\ current' = from => Reads(from, h, to)'
<1>1. ASSUME Response(from, h, to), Seeks(from, h), current = from PROVE Reads(from, h, to)
  <2>1. /\ StandsFirst(DOUBLE_RETURN, from, h - 3) /\ Lines(from, h)
        /\ \/ Unsized(from, h) /\ to = h
           \/ \E n, e \in from .. h : /\ Sized(from, h, n, e)
                                      /\ to = h + Stoul(SubSeq(stream, n + 4, e))
    BY <1>1 DEF Response
  <2>2. \A n \in from .. h : current <= n + 3
    BY <1>1
  <2> QED BY <1>1, <2>1, <2>2 DEF Reads, Plain, Framing
<1>2. ASSUME Response(from, h, to)', Seeks(from, h)', current' = from PROVE Reads(from, h, to)'
  <2>1. /\ StandsFirst(DOUBLE_RETURN, from, h - 3)' /\ Lines(from, h)'
        /\ \/ Unsized(from, h)' /\ to = h
           \/ \E n, e \in from .. h : /\ Sized(from, h, n, e)'
                                      /\ to = h + Stoul(SubSeq(stream', n + 4, e))
    BY <1>2 DEF Response
  <2>2. \A n \in from .. h : current' <= n + 3
    BY <1>2
  <2> QED BY <1>2, <2>1, <2>2 DEF Reads, Plain, Framing
<1> QED BY <1>1, <1>2

\* Where a response starts.
LEMMA StartIs ==
    ASSUME ends \in Seq(Nat), NEW i \in 1 .. Len(ends) + 1
    PROVE  Start(i) \in Nat \ {0}
BY DEF Start

\* Nothing is read yet.
LEMMA InitFramed == StreamInit => Framed
<1> SUFFICES ASSUME StreamInit, WellFormed PROVE Placed /\ Follows
  BY DEF Framed
<1>1. /\ stream \in Seq(STRING) /\ ends \in Seq(Nat) /\ frames = <<>> /\ buffer = <<>>
      /\ end = 0 /\ begin = 1 /\ current = 1 /\ parser = Initial
  BY HttpClientAssumption DEF StreamInit
<1>2. Len(frames) = 0 /\ Len(ends) \in Nat /\ Start(Len(frames) + 1) = 1
  BY <1>1 DEF Start
<1>3. Placed
  <2>1. SubSeq(stream, 1, 0) = <<>>
    BY SubSeqEmpty
  <2>2. frames = [i \in 1 .. Len(frames) |-> SubSeq(stream, Start(i), ends[i])]
    BY <1>1, <1>2
  <2> QED BY <1>1, <1>2, <2>1, <2>2 DEF Placed
<1>4. Follows
  <2> SUFFICES ASSUME 0 < Len(ends)
               PROVE  1 <= ends[1] /\ \E h \in 1 + 3 .. ends[1] : Reads(1, h, ends[1])
    <3>1. Len(frames) + 1 = 1
      BY <1>2
    <3> QED BY <1>1, <1>2, <3>1 DEF Follows
  <2>1. 1 \in DOMAIN ends /\ Start(1) = 1 /\ ends[1] \in Nat
    BY <1>1 DEF Start
  <2>2. PICK h \in 1 + 3 .. ends[1] : Response(1, h, ends[1])
    BY <2>1 DEF WellFormed
  <2>3. Seeks(1, h)
    BY <1>1, BeginsSeeking
  <2>4. Reads(1, h, ends[1])
    BY <1>1, <2>1, <2>2, <2>3, Begins
  <2> QED BY <2>1, <2>4
<1> QED BY <1>3, <1>4

\* The response that is being read: its place, and that there is one as long as
\* symbols are left.
LEMMA Reading ==
    ASSUME Typed, WellFormed, Placed, Follows, current <= end
    PROVE  \E k \in Nat, from \in Nat \ {0}, h \in Nat, to \in Nat :
             /\ k = Len(frames) /\ k < Len(ends) /\ from = Start(k + 1) /\ to = ends[k + 1]
             /\ from + 3 <= h /\ current <= to /\ Reads(from, h, to)
<1>1. /\ stream \in Seq(STRING) /\ ends \in Seq(Nat) /\ current \in Nat /\ begin \in Nat
      /\ end \in Nat /\ end <= Len(stream)
  BY DEF Typed
<1>2. /\ Len(frames) \in Nat /\ Len(frames) <= Len(ends)
      /\ Start(Len(frames) + 1) <= begin /\ begin <= current
  BY DEF Placed
<1>3. Start(Len(frames) + 1) \in Nat \ {0}
  BY <1>1, <1>2, StartIs
<1>4. Len(frames) < Len(ends)
  <2>1. Start(Len(ends) + 1) = Len(stream) + 1
    BY DEF WellFormed
  <2>2. Len(stream) \in Nat /\ Len(ends) \in Nat
    BY <1>1
  <2>3. ~(Start(Len(frames) + 1) = Len(stream) + 1)
    BY <1>1, <1>2, <1>3, <2>2
  <2> QED BY <1>2, <2>1, <2>2, <2>3
<1>5. ends[Len(frames) + 1] \in Nat
  BY <1>1, <1>2, <1>4
<1>6. PICK h \in Start(Len(frames) + 1) + 3 .. ends[Len(frames) + 1] :
        current <= ends[Len(frames) + 1] /\ Reads(Start(Len(frames) + 1), h, ends[Len(frames) + 1])
  BY <1>4 DEF Follows
<1>7. h \in Nat /\ Start(Len(frames) + 1) + 3 <= h
  BY <1>3, <1>5, <1>6
<1> QED BY <1>2, <1>3, <1>4, <1>5, <1>6, <1>7

\* What is in the buffer and what follows it in the message.
LEMMA Joined ==
    ASSUME Typed, Placed, NEW m \in Nat, begin <= m + 1, m <= Len(stream)
    PROVE  buffer \o SubSeq(stream, begin, m) = SubSeq(stream, Start(Len(frames) + 1), m)
<1>1. /\ stream \in Seq(STRING) /\ ends \in Seq(Nat) /\ begin \in Nat /\ Len(stream) \in Nat
  BY DEF Typed
<1>2. /\ Len(frames) \in Nat /\ Len(frames) <= Len(ends)
      /\ Start(Len(frames) + 1) <= begin
      /\ buffer = SubSeq(stream, Start(Len(frames) + 1), begin - 1)
  BY DEF Placed
<1> DEFINE from == Start(Len(frames) + 1)
<1>3. from \in Nat \ {0}
  BY <1>1, <1>2, StartIs
<1>4. from <= begin
  BY <1>2
<1> HIDE DEF from
<1>5. /\ from \in 1 .. Len(stream) + 1 /\ begin - 1 \in from - 1 .. Len(stream)
      /\ m \in begin - 1 .. Len(stream) /\ begin - 1 + 1 = begin
  BY <1>1, <1>3, <1>4
<1>6. SubSeq(stream, from, begin - 1) \o SubSeq(stream, begin - 1 + 1, m) = SubSeq(stream, from, m)
  BY <1>1, <1>5, ConcatAdjacentSubSeq
<1> QED BY <1>2, <1>5, <1>6 DEF from

\* Steps that leave the frames alone.
LEMMA PlacedStays ==
    ASSUME Typed, Placed, UNCHANGED <<server, begin, buffer, frames>>,
           begin <= current', current' <= end' + 1
    PROVE  Placed'
BY DEF Placed, server, Start

\* Steps that stay in a response.
LEMMA FollowsStays ==
    ASSUME UNCHANGED <<server, frames>>,
           Len(frames) < Len(ends) =>
               LET from == Start(Len(frames) + 1)
                   to == ends[Len(frames) + 1]
               IN \A f, t : f = from /\ t = to =>
                    current' <= t /\ \E h \in f + 3 .. t : Reads(f, h, t)'
    PROVE  Follows'
BY DEF Follows, server, Start

\* One more symbol of a response.
LEMMA AdvanceFramed ==
    ASSUME MaxULong \in Nat, Typed, WellFormed, Placed, Follows, ~thrown, Continue \/ Scan
    PROVE  Placed' /\ Follows'
<1>1. /\ current <= end /\ current' = current + 1
      /\ UNCHANGED <<server, end, begin, buffer, frames>>
  BY DEF Continue, Scan, Looked
<1>2. /\ begin \in Nat /\ current \in Nat /\ end \in Nat /\ parser \in Scanner /\ ends \in Seq(Nat)
  BY DEF Typed
<1>3. begin <= current
  BY DEF Placed
<1>4. PICK k \in Nat, from \in Nat \ {0}, h \in Nat, to \in Nat :
        /\ k = Len(frames) /\ k < Len(ends) /\ from = Start(k + 1) /\ to = ends[k + 1]
        /\ from + 3 <= h /\ current <= to /\ Reads(from, h, to)
  BY <1>1, Reading
<1>5. current < to /\ Reads(from, h, to)'
  BY <1>2, <1>4, ScanReads, ContinueReads
<1>6. Placed'
  <2>1. begin <= current' /\ current' <= end' + 1
    BY <1>1, <1>2, <1>3
  <2> QED BY <1>1, <2>1, PlacedStays
<1>7. h \in from + 3 .. to
  BY <1>4, SMTT(30) DEF Reads, Plain, Framing, Sized, StoulThrows
<1>8. current' <= to
  BY <1>1, <1>2, <1>5
<1>9. Follows'
  <2>1. \A f, t : f = Start(Len(frames) + 1) /\ t = ends[Len(frames) + 1] => f = from /\ t = to
    BY <1>4
  <2>2. \A f, t : f = from /\ t = to => current' <= t /\ \E g \in f + 3 .. t : Reads(f, g, t)'
    BY <1>5, <1>7, <1>8
  <2> QED BY <1>1, <2>1, <2>2, FollowsStays
<1> QED BY <1>6, <1>9

\* A response is handed on and the next one begun.
LEMMA CollectFramed ==
    ASSUME MaxULong \in Nat, Typed, Typed', WellFormed, Placed, Follows, ~thrown, Collect
    PROVE  Placed' /\ Follows'
<1>1. /\ current <= end /\ current' = current + 1 /\ begin' = current + 1 /\ UNCHANGED <<server, end>>
      /\ frames' = Append(frames, Ready) /\ buffer' = <<>> /\ parser' = Initial
      /\ Looked /\ Measurable /\ Done
  BY DEF Collect, Looked, Reset
<1>2. /\ begin \in Nat /\ current \in Nat \ {0} /\ end \in Nat /\ end <= Len(stream)
      /\ parser \in Scanner /\ ends \in Seq(Nat) /\ stream \in Seq(STRING) /\ Len(stream) \in Nat
  BY DEF Typed
<1>3. /\ begin <= current /\ frames \in Seq(Seq(STRING))
      /\ frames = [i \in 1 .. Len(frames) |-> SubSeq(stream, Start(i), ends[i])]
  BY DEF Placed
<1>4. PICK k \in Nat, from \in Nat \ {0}, h \in Nat, to \in Nat :
        /\ k = Len(frames) /\ k < Len(ends) /\ from = Start(k + 1) /\ to = ends[k + 1]
        /\ from + 3 <= h /\ current <= to /\ Reads(from, h, to)
  BY <1>1, Reading
<1>5. current = to
  BY <1>1, <1>2, <1>4, CollectReads
<1>6. Ready = SubSeq(stream, from, to)
  <2>1. current <= Len(stream) /\ begin <= current + 1
    BY <1>1, <1>2, <1>3
  <2>2. buffer \o SubSeq(stream, begin, current) = SubSeq(stream, Start(Len(frames) + 1), current)
    BY <1>2, <2>1, Joined
  <2> QED BY <1>4, <1>5, <2>2 DEF Ready
<1>7. Ready \in Seq(STRING)
  <2>1. \A i \in from .. to : stream[i] \in STRING
    <3>1. to <= Len(stream)
      BY <1>1, <1>2, <1>5
    <3>2. \A i \in from .. to : i \in 1 .. Len(stream)
      BY <1>2, <3>1
    <3> QED BY <1>2, <3>2
  <2> QED BY <1>6, <2>1, SubSeqProperties
<1>8. /\ frames' \in Seq(Seq(STRING)) /\ Len(frames') = k + 1
      /\ frames' = [i \in 1 .. k + 1 |-> SubSeq(stream, Start(i), ends[i])]
  <2>1. frames' \in Seq(Seq(STRING)) /\ Len(frames') = Len(frames) + 1
        /\ frames'[Len(frames) + 1] = Ready
        /\ \A i \in 1 .. Len(frames) : frames'[i] = frames[i]
    BY <1>1, <1>3, <1>7, AppendProperties
  <2>2. frames' = [i \in 1 .. k + 1 |-> frames'[i]]
    BY <1>4, <2>1
  <2>3. \A i \in 1 .. k + 1 : frames'[i] = SubSeq(stream, Start(i), ends[i])
    <3> TAKE i \in 1 .. k + 1
    <3>1. CASE i = k + 1
      BY <1>4, <1>6, <2>1, <3>1
    <3>2. CASE i \in 1 .. k
      BY <1>3, <1>4, <2>1, <3>2
    <3> QED BY <3>1, <3>2
  <2> QED BY <1>4, <2>1, <2>2, <2>3
<1>9. Start(k + 2) = to + 1 /\ \A i : Start(i)' = Start(i)
  <2>1. k + 2 # 1 /\ k + 2 - 1 = k + 1
    OBVIOUS
  <2> QED BY <1>1, <1>4, <2>1 DEF Start, server
<1>10. Start(Len(frames) + 1)' = to + 1
  <2>1. Len(frames') + 1 = k + 2
    BY <1>8
  <2> QED BY <1>9, <2>1 DEF Start
<1>11. Placed'
  <2>1. begin' = to + 1 /\ current' = to + 1
    BY <1>1, <1>5
  <2>2. (Start(Len(frames) + 1) <= begin /\ begin <= current /\ current <= end + 1)'
    BY <1>1, <1>2, <1>5, <1>10, <2>1
  <2>3. Len(frames') <= Len(ends')
    <3>1. Len(ends) \in Nat /\ ends' = ends
      BY <1>1, <1>2 DEF server
    <3> QED BY <1>4, <1>8, <3>1
  <2>4. frames' = [i \in 1 .. Len(frames) |-> SubSeq(stream, Start(i), ends[i])]'
    BY <1>1, <1>8, <1>9 DEF server
  <2>5. SubSeq(stream', to + 1, to + 1 - 1) = <<>>
    <3>1. to + 1 - 1 < to + 1 /\ to + 1 \in Int /\ to + 1 - 1 \in Int
      OBVIOUS
    <3> QED BY <3>1, SubSeqEmpty
  <2>6. buffer' = SubSeq(stream', Start(Len(frames) + 1)', begin' - 1)
    BY <1>1, <1>10, <2>1, <2>5
  <2>7. (frames \in Seq(Seq(STRING)) /\ Len(frames) <= Len(ends))'
    BY <1>8, <2>3
  <2> QED BY <2>2, <2>4, <2>6, <2>7 DEF Placed
<1>12. Follows'
  <2> SUFFICES ASSUME k + 1 < Len(ends)
               PROVE  \E t \in Nat : /\ t = ends'[k + 2] /\ current' <= t
                                     /\ \E g \in to + 1 + 3 .. t : Reads(to + 1, g, t)'
    <3>1. Len(frames') + 1 = k + 2
      BY <1>8
    <3>2. (Len(frames) < Len(ends))' => k + 1 < Len(ends)
      BY <1>1, <1>8 DEF server
    <3> QED BY <1>10, <3>1, <3>2 DEF Follows
  <2>1. k + 2 \in DOMAIN ends
    BY <1>2
  <2>2. PICK t \in Nat : t = ends[k + 2]
    BY <1>2, <2>1
  <2>3. PICK g \in to + 1 + 3 .. t : Response(to + 1, g, t)
    BY <1>9, <2>1, <2>2 DEF WellFormed
  <2>4. g \in Nat /\ to + 1 \in Nat /\ to + 1 + 3 <= g /\ to + 1 <= t
    BY <2>2, <2>3
  <2>5. Response(to + 1, g, t)'
    BY <1>1, <2>3, SameSent
  <2>6. current' = to + 1
    BY <1>1, <1>5
  <2>7. Seeks(to + 1, g)'
    BY <1>1, <2>4, <2>6, BeginsSeeking
  <2>8. Reads(to + 1, g, t)'
    BY <2>2, <2>4, <2>5, <2>6, <2>7, Begins
  <2> QED BY <1>1, <2>2, <2>3, <2>4, <2>6, <2>8 DEF server
<1> QED BY <1>11, <1>12

\* Every step keeps frames, buffer and scanner in step with the stream.
LEMMA NextFramed == Typed /\ Framed /\ [StreamNext]_stream_vars /\ Typed' => Framed'
<1> SUFFICES ASSUME Typed, Framed, [StreamNext]_stream_vars, Typed', ~thrown', WellFormed'
             PROVE  Placed' /\ Follows'
  BY DEF Framed
<1>0. MaxULong \in Nat
  BY HttpClientAssumption
<1>1. /\ UNCHANGED server
      /\ thrown' = thrown \/ thrown' = TRUE
  BY DEF StreamNext, StreamResponses, Message, Continue, NoLength, Scan, Collect,
         CollectorThrows, Keep, Abandon, stream_vars
<1>2. ~thrown /\ WellFormed
  BY <1>1, SameSent
<1>3. Placed /\ Follows
  BY <1>2 DEF Framed
<1>4. /\ begin \in Nat /\ current \in Nat \ {0} /\ end \in Nat /\ end <= Len(stream)
      /\ Len(stream) \in Nat
  BY DEF Typed
<1>5. begin <= current /\ current <= end + 1
  BY <1>3 DEF Placed
<1>6. ASSUME UNCHANGED <<server, frames, parser, current>> PROVE Follows'
  <2>1. \A f, h, t : Reads(f, h, t) => Reads(f, h, t)'
    BY <1>6 DEF server, Reads, StandsFirst, StandsAt, Lines, Plain, Framing, Unsized, Sized,
                Seeks, Counts, Skips, Eats, ReturnAt, HeaderAt
  <2>2. Len(frames) < Len(ends) =>
          /\ current <= ends[Len(frames) + 1]
          /\ \E h \in Start(Len(frames) + 1) + 3 .. ends[Len(frames) + 1] :
               Reads(Start(Len(frames) + 1), h, ends[Len(frames) + 1])
    BY <1>3 DEF Follows
  <2>3. Len(frames) < Len(ends) =>
          \A f, t : f = Start(Len(frames) + 1) /\ t = ends[Len(frames) + 1] =>
            current' <= t /\ \E h \in f + 3 .. t : Reads(f, h, t)'
    BY <1>6, <2>1, <2>2
  <2> QED BY <1>6, <2>3, FollowsStays
<1>7. ASSUME NEW n \in 1 .. Len(stream), Message(n) PROVE Placed' /\ Follows'
  <2>1. UNCHANGED <<server, begin, buffer, frames, current, parser>> /\ end' = end + n
    BY <1>7 DEF Message
  <2>2. begin <= current' /\ current' <= end' + 1
    BY <1>4, <1>5, <2>1
  <2> QED BY <1>3, <1>6, <2>1, <2>2, PlacedStays
<1>8. CASE Continue \/ Scan
  BY <1>0, <1>2, <1>3, <1>8, AdvanceFramed
<1>9. CASE Collect
  BY <1>0, <1>2, <1>3, <1>9, CollectFramed
<1>10. CASE NoLength \/ CollectorThrows
  BY <1>10 DEF NoLength, CollectorThrows, Abandon
<1>11. CASE Keep
  <2>1. /\ buffer' = buffer \o SubSeq(stream, begin, current - 1) /\ begin' = current
        /\ UNCHANGED <<server, end, current, parser, frames>>
    BY <1>11 DEF Keep
  <2>2. buffer' = SubSeq(stream, Start(Len(frames) + 1), current - 1)
    <3>1. current - 1 \in Nat /\ begin <= current - 1 + 1 /\ current - 1 <= Len(stream)
      BY <1>4, <1>5
    <3> QED BY <1>3, <2>1, <3>1, Joined
  <2>3. Start(Len(frames) + 1) <= current
    <3>1. Start(Len(frames) + 1) <= begin /\ Start(Len(frames) + 1) \in Nat
      <4>1. Len(frames) + 1 \in 1 .. Len(ends) + 1 /\ ends \in Seq(Nat)
        BY <1>3 DEF Placed, Typed
      <4> QED BY <1>3, <4>1, StartIs DEF Placed
    <3> QED BY <1>4, <1>5, <3>1
  <2>4. Placed'
    <3>1. (\A i : Start(i)' = Start(i)) /\ stream' = stream /\ ends' = ends
      BY <2>1 DEF Start, server
    <3>2. Start(Len(frames) + 1)' = Start(Len(frames) + 1)
      BY <2>1, <3>1 DEF Start
    <3>3. (Start(Len(frames) + 1) <= begin /\ begin <= current /\ current <= end + 1)'
      BY <1>4, <1>5, <2>1, <2>3, <3>2
    <3>4. buffer' = SubSeq(stream, Start(Len(frames) + 1), begin - 1)'
      BY <2>1, <2>2, <3>1, <3>2
    <3>5. (/\ frames \in Seq(Seq(STRING)) /\ Len(frames) <= Len(ends)
           /\ frames = [i \in 1 .. Len(frames) |-> SubSeq(stream, Start(i), ends[i])])'
      BY <1>3, <2>1, <3>1 DEF Placed
    <3> QED BY <3>3, <3>4, <3>5 DEF Placed
  <2> QED BY <1>6, <2>1, <2>4
<1>12. CASE UNCHANGED stream_vars
  <2>1. Placed'
    BY <1>3, <1>12 DEF stream_vars, Placed, server, Start
  <2> QED BY <1>6, <1>12, <2>1 DEF stream_vars
<1> QED
  BY <1>7, <1>8, <1>9, <1>10, <1>11, <1>12 DEF StreamNext, StreamResponses

\* collect_function is given the well-formed responses of a stream one by one and
\* whole, wherever the messages cut it, and the buffer holds the rest.
THEOREM ResponsesAreWhole == StreamSpec => []WholeResponses
<1>1. StreamInit => Typed /\ Framed
  BY InitTyped, InitFramed
<1>2. Typed /\ Framed /\ [StreamNext]_stream_vars => (Typed /\ Framed)'
  BY NextTyped, NextFramed
<1>3. Typed /\ Framed => WholeResponses
  <2> SUFFICES ASSUME Typed, Placed, Follows, current > end, begin = current, WellFormed
               PROVE  LET k == Len(frames)
                      IN /\ k <= Len(ends)
                         /\ frames = [i \in 1 .. k |-> SubSeq(stream, Start(i), ends[i])]
                         /\ buffer = SubSeq(stream, Start(k + 1), end)
                         /\ Start(k + 1) <= end + 1
                         /\ k < Len(ends) => end < ends[k + 1]
    BY DEF Framed, WholeResponses
  <2>1. /\ current \in Nat /\ end \in Nat /\ current <= end + 1 /\ ends \in Seq(Nat)
    BY DEF Typed
  <2>2. current = end + 1 /\ current - 1 = end
    BY <2>1
  <2>3. Len(frames) < Len(ends) => end < ends[Len(frames) + 1]
    <3>1. Len(frames) \in Nat
      BY DEF Placed
    <3>2. Len(frames) < Len(ends) => ends[Len(frames) + 1] \in Nat
      BY <2>1, <3>1
    <3> QED BY <2>1, <2>2, <3>2 DEF Follows
  <2> QED BY <2>2, <2>3 DEF Placed
<1> QED
  BY <1>1, <1>2, <1>3, PTL DEF StreamSpec
===============================================================================
