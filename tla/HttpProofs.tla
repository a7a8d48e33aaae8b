------------------------------- MODULE HttpProofs -----------------------------
(***************************************************************************)
(* For every stream of requests or responses, every limit and every way of *)
(* cutting the stream into chunks: consume_until cuts nothing but          *)
(* delimiters off its buffer, only a request that is too large is refused  *)
(* as too large, and from_stream returns the entities that the stream      *)
(* contains, whatever the chunks it came in.                               *)
(***************************************************************************)
EXTENDS Http, SequenceTheorems, WellFoundedInduction, TLAPS

\* What a reader reads depends on the stream alone.
LEMMA Rigid == ASSUME NEW m, UNCHANGED kind, UNCHANGED stream PROVE Reading(m)' = Reading(m)
BY SMT DEF Reading, Read, Ends, EndsPiece, EndsLine, OddReturns, IsWord, Stopped, TookUpTo,
           Took, LineRead, FieldRead, HeadersRead, SizeRead, Whole, IsPiece, GivenUp, Kept,
           With, HasColon, Colon, FieldValue

\* The types the argument needs.
Types ==
    /\ stream \in Seq(STRING) /\ arrived \in Nat
    /\ partial_buffer \in Seq(STRING) /\ chunk \in Seq(STRING)
    /\ delimiter \in {SP, CRLF, <<>>}
    /\ partial_length \in 0 .. Len(delimiter)
    /\ body_length \in Nat
    /\ current \in 0 .. Len(chunk)

\* Between two pieces nothing of the chunk has been looked at.
AtStart == /\ pc = "loop" => current = 0
           /\ pc = "rest" => current = 0 /\ chunk = <<>>

\* While part of a body is to come, no delimiter is being matched: consume_until
\* then skips to the end of the chunk.
BodyFirst == /\ body_length > 0 => partial_length = 0
             /\ pc = "match" /\ body_length > 0 => current = Len(chunk)

\* The inductive invariant.
IInv == Types /\ AtStart /\ BodyFirst /\ CutsDelimiterOnly

-----------------------------------------------------------------------------
\* The beginning and the rest of a sequence.
LEMMA Parts ==
    ASSUME NEW S, NEW s \in Seq(S), NEW n \in 0 .. Len(s)
    PROVE  /\ Upto(s, n) \in Seq(S) /\ Len(Upto(s, n)) = n
           /\ \A k \in 1 .. n : Upto(s, n)[k] = s[k]
           /\ After(s, n) \in Seq(S)
BY DEF Upto, After

\* What has been seen is the buffer and the beginning of the chunk.
LEMMA SeenParts ==
    ASSUME NEW b \in Seq(STRING), NEW c \in Seq(STRING), NEW n \in 0 .. Len(c)
    PROVE  /\ b \o Upto(c, n) \in Seq(STRING)
           /\ Len(b \o Upto(c, n)) = Len(b) + n
           /\ \A k \in 1 .. Len(b) : (b \o Upto(c, n))[k] = b[k]
           /\ \A k \in 1 .. n : (b \o Upto(c, n))[Len(b) + k] = c[k]
<1>1. /\ Upto(c, n) \in Seq(STRING) /\ Len(Upto(c, n)) = n
      /\ \A k \in 1 .. n : Upto(c, n)[k] = c[k]
    BY Parts
<1>2. /\ Len(b \o Upto(c, n)) = Len(b) + n
      /\ b \o Upto(c, n) \in Seq(STRING)
    BY <1>1
<1>3. \A k \in 1 .. Len(b) : (b \o Upto(c, n))[k] = b[k]
    BY <1>1
<1>4. ASSUME NEW k \in 1 .. n PROVE (b \o Upto(c, n))[Len(b) + k] = c[k]
    <2>1. (b \o Upto(c, n))[Len(b) + k] = Upto(c, n)[k]
        BY <1>1
    <2> QED BY <1>1, <2>1
<1> QED BY <1>2, <1>3, <1>4

\* Looking at one more symbol changes nothing of what was seen.
LEMMA SeenGrows ==
    ASSUME NEW b \in Seq(STRING), NEW c \in Seq(STRING), NEW n \in 0 .. Len(c), n + 1 <= Len(c),
           NEW k \in 1 .. Len(b) + n
    PROVE  (b \o Upto(c, n + 1))[k] = (b \o Upto(c, n))[k]
<1>1. /\ Upto(c, n) \in Seq(STRING) /\ Len(Upto(c, n)) = n
      /\ Upto(c, n + 1) \in Seq(STRING) /\ Len(Upto(c, n + 1)) = n + 1
      /\ \A m \in 1 .. n : Upto(c, n)[m] = c[m] /\ Upto(c, n + 1)[m] = c[m]
    <2>1. n + 1 \in 0 .. Len(c) /\ n \in 0 .. Len(c)
        OBVIOUS
    <2> QED BY <2>1, Parts
<1>2. CASE k <= Len(b)
    BY <1>1, <1>2
<1>3. CASE k > Len(b)
    <2>1. k - Len(b) \in 1 .. n
        BY <1>3
    <2>2. (b \o Upto(c, n))[k] = Upto(c, n)[k - Len(b)]
        BY <1>1, <1>3
    <2>3. (b \o Upto(c, n + 1))[k] = Upto(c, n + 1)[k - Len(b)]
        BY <1>1, <1>3
    <2> QED BY <1>1, <2>1, <2>2, <2>3
<1>4. k <= Len(b) \/ k > Len(b)
    <2>1. k \in Nat /\ Len(b) \in Nat
        OBVIOUS
    <2> QED BY <2>1
<1> QED BY <1>2, <1>3, <1>4

\* The delimiters and their lengths.
LEMMA Delimiters == Len(SP) = 1 /\ Len(CRLF) = 2 /\ Len(<<>>) = 0
BY DEF SP, CRLF

LEMMA DelimitersDiffer == SP # CRLF /\ SP # <<>> /\ CRLF # <<>>
BY Delimiters

\* When nothing is matched there is nothing to show.
LEMMA NothingMatched == partial_length = 0 /\ Seen \in Seq(STRING) => CutsDelimiterOnly
BY DEF CutsDelimiterOnly

-----------------------------------------------------------------------------
\* A new entity satisfies the invariant.
LEMMA InitIInv == Init => IInv
<1> SUFFICES ASSUME Init PROVE IInv
    OBVIOUS
<1>1. PICK s \in Streams : kind = s[1] /\ stream = s[2]
    BY DEF Init
<1>2. Types /\ AtStart /\ BodyFirst
    BY <1>1, HttpAssumption, Delimiters DEF Init, Types, AtStart, BodyFirst
<1>3. Seen \in Seq(STRING)
    BY <1>2, SeenParts DEF Seen, Types
<1> QED BY <1>2, <1>3, NothingMatched DEF IInv, Init

\* A piece that was taken leaves nothing matched and nothing looked at.
LEMMA PieceTaken ==
    ASSUME IInv, NextPiece, UNCHANGED <<stream, arrived>>,
           delimiter' \in {SP, CRLF, <<>>}, body_length' \in Nat
    PROVE  IInv'
<1>1. chunk' \in Seq(STRING) /\ current' = 0 /\ Len(chunk') \in Nat
    BY Parts DEF NextPiece, IInv, Types
<1>2. partial_buffer' = <<>> /\ partial_buffer' \in Seq(STRING) /\ partial_length' = 0
    BY DEF NextPiece
<1>3. Len(delimiter') \in Nat
    BY Delimiters
<1>4. Types'
    BY <1>1, <1>2, <1>3 DEF IInv, Types
<1>5. AtStart' /\ BodyFirst'
    BY <1>1, <1>2 DEF NextPiece, AtStart, BodyFirst
<1>6. Seen' \in Seq(STRING)
    BY <1>4, SeenParts DEF Seen, Types
<1>7. CutsDelimiterOnly'
    BY <1>2, <1>6 DEF CutsDelimiterOnly
<1> QED BY <1>4, <1>5, <1>7 DEF IInv

\* A throw leaves the entity as it is.
LEMMA Thrown ==
    ASSUME IInv, NEW what, Throw(what), what \notin {"rest", "loop", "match"}
    PROVE  IInv'
<1>1. Types'
    BY DEF Throw, IInv, Types, input, piece, entity
<1>2. AtStart' /\ BodyFirst'
    BY DEF Throw, IInv, AtStart, BodyFirst, piece
<1>3. CutsDelimiterOnly'
    BY DEF Throw, CutsDelimiterOnly, Failed, Calling
<1> QED BY <1>1, <1>2, <1>3 DEF IInv

\* One more symbol is looked at.
LEMMA MatchIInv == IInv /\ Match => IInv'
<1> SUFFICES ASSUME IInv, Match PROVE IInv'
    OBVIOUS
<1>1. /\ pc = "match" /\ pc' = pc /\ partial_length < Len(delimiter)
      /\ current < Len(chunk) /\ current' = current + 1
      /\ partial_length' = Matched(chunk[current + 1])
      /\ UNCHANGED <<stream, arrived, partial_buffer, body_length, chunk, delimiter>>
    BY DEF Match, input, entity
<1>2. /\ partial_buffer \in Seq(STRING) /\ chunk \in Seq(STRING) /\ Len(delimiter) \in Nat
      /\ partial_length \in Nat /\ body_length \in Nat
      /\ current \in Nat /\ Len(chunk) \in Nat /\ Len(partial_buffer) \in Nat
    BY Delimiters DEF IInv, Types
<1>3. body_length = 0
    BY <1>1, <1>2 DEF IInv, BodyFirst
<1>4. \/ partial_length' = 0
      \/ partial_length' = partial_length + 1 /\ chunk[current + 1] = delimiter[partial_length + 1]
    BY <1>1 DEF Matched
<1>5. Types'
    BY <1>1, <1>2, <1>4 DEF IInv, Types
<1>6. AtStart' /\ BodyFirst'
    BY <1>1, <1>3 DEF AtStart, BodyFirst
<1>7. current \in 0 .. Len(chunk) /\ current + 1 \in 0 .. Len(chunk)
    BY <1>1, <1>2
<1>8. Seen' = partial_buffer \o Upto(chunk, current + 1)
    BY <1>1 DEF Seen
<1>9. Seen \in Seq(STRING) /\ Len(Seen) = Len(partial_buffer) + current
    BY <1>2, <1>7, SeenParts DEF Seen
<1>10. /\ Seen' \in Seq(STRING) /\ Len(Seen') = Len(partial_buffer) + (current + 1)
       /\ \A k \in 1 .. current + 1 : Seen'[Len(partial_buffer) + k] = chunk[k]
    BY <1>2, <1>7, <1>8, SeenParts
<1>11. Len(Seen') = Len(Seen) + 1 /\ Len(Seen) \in Nat
    BY <1>2, <1>9, <1>10
<1>12. ASSUME NEW k \in 1 .. Len(Seen) PROVE Seen'[k] = Seen[k]
    <2>1. /\ current \in 0 .. Len(chunk) /\ current + 1 <= Len(chunk)
          /\ k \in 1 .. Len(partial_buffer) + current
        BY <1>7, <1>9, <1>2
    <2>2. (partial_buffer \o Upto(chunk, current + 1))[k]
            = (partial_buffer \o Upto(chunk, current))[k]
        BY <1>2, <2>1, SeenGrows, Zenon
    <2>3. Seen = partial_buffer \o Upto(chunk, current)
        BY DEF Seen
    <2> QED BY <1>8, <2>2, <2>3, Zenon
<1>13. Seen'[Len(Seen')] = chunk[current + 1]
    <2>1. current + 1 \in 1 .. current + 1
        BY <1>2
    <2> QED BY <1>10, <2>1
<1>14. ASSUME /\ partial_length' = partial_length + 1
              /\ chunk[current + 1] = delimiter[partial_length + 1]
       PROVE  CutsDelimiterOnly'
    <2>1. /\ partial_length <= Len(Seen)
          /\ \A k \in 1 .. partial_length :
                Seen[Len(Seen) - partial_length + k] = delimiter[k]
        BY <1>1 DEF IInv, CutsDelimiterOnly, Failed, Calling
    <2>2. ASSUME NEW k \in 1 .. partial_length'
          PROVE  Seen'[Len(Seen') - partial_length' + k] = delimiter'[k]
        <3>1. CASE k = partial_length + 1
            BY <1>1, <1>2, <1>11, <1>13, <1>14, <3>1
        <3>2. CASE k # partial_length + 1
            <4>1. k \in 1 .. partial_length
                BY <1>2, <1>14, <3>2
            <4>2. /\ Len(Seen') - partial_length' + k = Len(Seen) - partial_length + k
                  /\ Len(Seen) - partial_length + k \in 1 .. Len(Seen)
                BY <1>2, <1>11, <1>14, <2>1, <4>1
            <4> QED BY <1>1, <1>12, <2>1, <4>1, <4>2
        <3> QED BY <3>1, <3>2
    <2>3. partial_length' <= Len(Seen')
        BY <1>2, <1>11, <1>14, <2>1
    <2> QED BY <2>2, <2>3 DEF CutsDelimiterOnly
<1>15. CutsDelimiterOnly'
    <2>1. ASSUME partial_length' = 0 PROVE CutsDelimiterOnly'
        BY <1>11, <2>1 DEF CutsDelimiterOnly
    <2> QED BY <1>4, <1>14, <2>1
<1> QED BY <1>5, <1>6, <1>15 DEF IInv

\* The loop is entered: a body that is counted is counted before anything of a
\* delimiter has been matched.
LEMMA StartPieceIInv == IInv /\ StartPiece => IInv'
<1> SUFFICES ASSUME IInv, StartPiece PROVE IInv'
    OBVIOUS
<1>1. /\ pc = "loop" /\ current = 0
      /\ UNCHANGED <<stream, arrived, partial_buffer, partial_length, chunk, delimiter>>
    BY DEF StartPiece, input, entity, IInv, AtStart
<1>2. /\ partial_buffer \in Seq(STRING) /\ chunk \in Seq(STRING) /\ Len(chunk) \in Nat
      /\ body_length \in Nat /\ Len(partial_buffer) \in Nat /\ partial_length \in Nat
    BY Delimiters DEF IInv, Types
<1>3. CASE pc' = "413" /\ UNCHANGED <<current, body_length>>
    <2>1. Types' /\ AtStart' /\ BodyFirst'
        BY <1>1, <1>3 DEF IInv, Types, AtStart, BodyFirst
    <2>2. CutsDelimiterOnly'
        BY <1>3 DEF CutsDelimiterOnly, Failed, Calling
    <2> QED BY <2>1, <2>2 DEF IInv
<1>4. CASE pc' = "match" /\ current' = Counted /\ body_length' = body_length - Counted
    <2>1. /\ current' \in 0 .. Len(chunk) /\ body_length' \in Nat
          /\ body_length' > 0 => current' = Len(chunk)
          /\ current' > 0 => body_length > 0
          /\ body_length' > 0 => body_length > 0
        BY <1>2, <1>4 DEF Counted
    <2>2. Types'
        BY <1>1, <2>1 DEF IInv, Types
    <2>3. AtStart' /\ BodyFirst'
        BY <1>1, <1>4, <2>1 DEF IInv, AtStart, BodyFirst
    <2>4. CASE partial_length = 0
        <3>1. Seen' \in Seq(STRING)
            BY <2>2, SeenParts DEF Seen, Types
        <3>2. CutsDelimiterOnly'
            BY <1>1, <2>4, <3>1 DEF CutsDelimiterOnly
        <3> QED BY <2>2, <2>3, <3>2 DEF IInv
    <2>5. CASE partial_length # 0
        <3>1. current' = current
            BY <1>1, <2>1, <2>5 DEF IInv, BodyFirst
        <3>2. Seen' = Seen
            BY <1>1, <3>1 DEF Seen
        <3>3. CutsDelimiterOnly'
            BY <1>1, <3>2 DEF IInv, CutsDelimiterOnly, Failed, Calling
        <3> QED BY <2>2, <2>3, <3>3 DEF IInv
    <2> QED BY <2>4, <2>5
<1> QED BY <1>3, <1>4 DEF StartPiece

\* A call that ran out keeps what it has seen in the buffer.
LEMMA RanOutIInv == IInv /\ RanOut => IInv'
<1> SUFFICES ASSUME IInv, RanOut PROVE IInv'
    OBVIOUS
<1>1. /\ pc = "match" /\ current = Len(chunk) /\ current' = 0 /\ chunk' = <<>>
      /\ partial_buffer' = partial_buffer \o chunk
      /\ pc' \in {"400", "rest"}
      /\ UNCHANGED <<stream, arrived, partial_length, body_length, delimiter>>
    BY DEF RanOut, OutOfSymbols, input, entity
<1>2. partial_buffer \in Seq(STRING) /\ chunk \in Seq(STRING)
    BY DEF IInv, Types
<1>3. chunk' \in Seq(STRING) /\ Len(chunk') = 0 /\ partial_buffer' \in Seq(STRING)
    BY <1>1, <1>2
<1>4. Types'
    BY <1>1, <1>3 DEF IInv, Types
<1>5. AtStart' /\ BodyFirst'
    BY <1>1 DEF IInv, AtStart, BodyFirst
<1>6. Upto(chunk, Len(chunk)) = chunk
    BY <1>2 DEF Upto
<1>7. Seen = partial_buffer \o chunk
    BY <1>1, <1>6 DEF Seen
<1>8. Upto(chunk', 0) = <<>>
    BY <1>1 DEF Upto
<1>9. Seen' = partial_buffer \o chunk
    <2>1. Seen' = (partial_buffer \o chunk) \o <<>>
        BY <1>1, <1>8 DEF Seen
    <2>2. partial_buffer \o chunk \in Seq(STRING)
        BY <1>2
    <2> QED BY <2>1, <2>2
<1>10. CutsDelimiterOnly'
    BY <1>1, <1>7, <1>9 DEF IInv, CutsDelimiterOnly, Failed, Calling
<1> QED BY <1>4, <1>5, <1>10 DEF IInv

\* A new call finds the buffer as the last one left it.
LEMMA ReceiveIInv ==
    ASSUME IInv, NEW n \in 1 .. MaxChunk, Receive(n)
    PROVE  IInv'
<1>1. /\ pc = "rest" /\ pc' = "loop" /\ current' = 0 /\ arrived' = arrived + n
      /\ arrived + n <= Len(stream)
      /\ chunk' = SubSeq(stream, arrived + 1, arrived + n)
      /\ UNCHANGED <<stream, partial_buffer, partial_length, body_length, delimiter>>
    BY DEF Receive, entity
<1>2. n \in Nat /\ n >= 1 /\ stream \in Seq(STRING) /\ arrived \in Nat
    BY HttpAssumption DEF IInv, Types
<1>3. chunk' \in Seq(STRING) /\ Len(chunk') \in Nat
    BY <1>1, <1>2
<1>4. Types'
    BY <1>1, <1>2, <1>3 DEF IInv, Types
<1>5. AtStart' /\ BodyFirst'
    BY <1>1 DEF IInv, AtStart, BodyFirst
<1>6. Upto(chunk', 0) = <<>> /\ Upto(chunk, 0) = <<>>
    BY <1>3 DEF Upto, IInv, Types
<1>7. Seen' = Seen
    BY <1>1, <1>6 DEF Seen, IInv, AtStart
<1>8. CutsDelimiterOnly'
    BY <1>1, <1>7 DEF IInv, CutsDelimiterOnly, Failed, Calling
<1> QED BY <1>4, <1>5, <1>8 DEF IInv

\* A piece of the first line.
LEMMA LinePieceIInv ==
    ASSUME IInv, NEW value, NEW next, NEW delim \in {SP, CRLF},
           LinePiece(value, next, delim)
    PROVE  IInv'
BY PieceTaken DEF LinePiece, input, IInv, Types
\* A piece that says what comes next.
LEMMA ExpectIInv ==
    ASSUME IInv, NEW next, NEW delim \in {SP, CRLF, <<>>}, NEW n \in Nat,
           Expect(next, delim, n)
    PROVE  IInv'
BY PieceTaken DEF Expect, input
\* The end of an entity.
LEMMA EmitIInv ==
    ASSUME IInv, NEW b, Emit(b)
    PROVE  IInv'
BY PieceTaken DEF Emit, input

\* Every step keeps the invariant.
LEMMA NextIInv == IInv /\ [Next]_vars => IInv'
<1> SUFFICES ASSUME IInv, [Next]_vars PROVE IInv'
    OBVIOUS
<1>1. ASSUME NEW n \in 1 .. MaxChunk, Receive(n) PROVE IInv'
    BY <1>1, ReceiveIInv
<1>2. CASE StartPiece \/ Match \/ RanOut
    BY <1>2, StartPieceIInv, MatchIInv, RanOutIInv
<1>3. CASE Method
    BY <1>3, LinePieceIInv, Thrown DEF Method
<1>4. CASE Path
    BY <1>4, LinePieceIInv DEF Path
<1>5. CASE RequestVersion
    BY <1>5, LinePieceIInv, Thrown DEF RequestVersion
<1>6. CASE ResponseVersion
    BY <1>6, LinePieceIInv, Thrown DEF ResponseVersion
<1>7. CASE Code
    BY <1>7, LinePieceIInv, Thrown DEF Code
<1>8. CASE Message
    BY <1>8, LinePieceIInv DEF Message
<1>9. CASE Header
    <2>1. CASE Throw(Bad)
        BY <2>1, Thrown DEF Bad
    <2>2. CASE NextPiece /\ UNCHANGED <<input, body_length, delimiter>>
        BY <2>2, PieceTaken DEF input, IInv, Types
    <2> QED BY <1>9, <2>1, <2>2 DEF Header
<1>10. CASE BlankLine
    <2> DEFINE length == headers["Content-Length:"]
    <2>1. CASE IsNumber(length, 10) /\ Expect("BODY", BodyDelimiter, Stoul(length, 10))
        <3>1. Stoul(length, 10) \in Nat
            BY <2>1, HttpAssumption DEF IsNumber
        <3> QED BY <2>1, <3>1, ExpectIInv DEF BodyDelimiter
    <2>2. CASE Throw(IF kind = "request" THEN "400" ELSE "logic_error")
        BY <2>2, Thrown
    <2>3. CASE Expect("CHUNK_LENGTH", CRLF, 0)
        BY <2>3, ExpectIInv
    <2>4. CASE Emit(body)
        BY <2>4, EmitIInv
    <2> QED BY <1>10, <2>1, <2>2, <2>3, <2>4 DEF BlankLine
<1>11. CASE EndOfTrailer \/ Body
    BY <1>11, EmitIInv DEF EndOfTrailer, Body
<1>12. CASE ChunkLength
    <2>1. CASE Throw(Bad)
        BY <2>1, Thrown DEF Bad
    <2>2. CASE /\ IsNumber(Piece, 16)
               /\ Expect(IF Stoul(Piece, 16) > 0 THEN "CHUNK" ELSE "TRAILER", CRLF,
                         Stoul(Piece, 16))
        <3>1. Stoul(Piece, 16) \in Nat
            BY <2>2, HttpAssumption DEF IsNumber
        <3> QED BY <2>2, <3>1, ExpectIInv
    <2> QED BY <1>12, <2>1, <2>2 DEF ChunkLength
<1>13. CASE Chunk
    BY <1>13, PieceTaken DEF Chunk, input, IInv, Types
<1>14. CASE UNCHANGED vars
    <2>1. Types' /\ AtStart' /\ BodyFirst'
        BY <1>14 DEF vars, input, piece, entity, IInv, Types, AtStart, BodyFirst
    <2>2. CutsDelimiterOnly'
        BY <1>14 DEF vars, input, piece, entity, IInv, CutsDelimiterOnly, Seen, Failed, Calling
    <2> QED BY <2>1, <2>2 DEF IInv
<1> QED BY <1>1, <1>2, <1>3, <1>4, <1>5, <1>6, <1>7, <1>8, <1>9, <1>10, <1>11, <1>12,
           <1>13, <1>14 DEF Next, from_stream

\* The inductive invariant is an invariant of the parsers.
THEOREM Invariance == Spec => []IInv
BY InitIInv, NextIInv, PTL DEF Spec

\* consume_until cuts nothing but the delimiter off, and never resizes its buffer
\* below zero, for every stream and every chunking.
THEOREM CutsAreDelimiters == Spec => []CutsDelimiterOnly
<1>1. IInv => CutsDelimiterOnly
    BY DEF IInv
<1> QED BY <1>1, Invariance, PTL

-----------------------------------------------------------------------------
(* What has been counted of an entity                                       *)

States == {"METHOD", "PATH", "VERSION", "CODE", "MESSAGE", "HEADERS", "BODY",
           "CHUNK_LENGTH", "CHUNK", "TRAILER"}
Throws == {"400", "413", "501", "505", "runtime_error", "logic_error"}

\* What is counted as consumed of the current entity and what is buffered of its
\* current piece all arrived after the entity began, and is no longer in the chunk.
\* It may be less: a piece that came in several chunks is counted by its last one.
Within ==
    /\ consumed \in Nat /\ began \in Nat
    /\ began + consumed + Len(partial_buffer) + Len(chunk) <= arrived

\* The rest of the type invariant.
Bounds ==
    /\ pc \in {"rest", "loop", "match"} \cup Throws
    /\ state \in States
    /\ body_length <= MaxULong
    /\ arrived <= Len(stream)

\* The second inductive invariant, relative to the first.
Reckoned == Within /\ Bounds /\ RefusesTooLarge

\* A number that wraps around gets smaller.
LEMMA Remainder ==
    \A n \in Nat, m \in Nat : n % (m + 1) \in Nat /\ n % (m + 1) <= n
OBVIOUS

\* A new entity has begun and nothing of it is counted.
LEMMA InitReckoned == Init => Reckoned
<1> SUFFICES ASSUME Init PROVE Reckoned
    OBVIOUS
<1>1. PICK s \in Streams : kind = s[1] /\ stream = s[2]
    BY DEF Init
<1>2. Len(stream) \in Nat
    BY <1>1, HttpAssumption
<1>3. Within
    BY DEF Init, Within
<1>4. state \in States
    BY DEF Init, States
<1>5. Bounds
    BY <1>2, <1>4, HttpAssumption DEF Init, Bounds
<1> QED BY <1>3, <1>5 DEF Init, Reckoned, RefusesTooLarge

\* The numbers the count is made of.
LEMMA Numbers ==
    ASSUME IInv
    PROVE  /\ Len(partial_buffer) \in Nat /\ Len(chunk) \in Nat /\ arrived \in Nat
           /\ body_length \in Nat /\ current \in 0 .. Len(chunk) /\ Len(stream) \in Nat
           /\ partial_buffer \in Seq(STRING) /\ chunk \in Seq(STRING)
BY DEF IInv, Types

\* A piece that was taken is counted as far as it was in this chunk.
LEMMA PieceCounted ==
    ASSUME IInv, Reckoned, NextPiece, UNCHANGED <<stream, arrived>>, state' \in States,
           body_length' <= MaxULong,
           \/ consumed' = consumed + current /\ began' = began
           \/ consumed' = 0 /\ began' = arrived - Len(chunk')
    PROVE  Reckoned'
<1>1. Len(chunk') = Len(chunk) - current /\ partial_buffer' = <<>> /\ pc' = "loop"
    BY Numbers DEF NextPiece, After
<1>2. Len(partial_buffer') = 0
    BY <1>1
<1>3. consumed \in Nat /\ began \in Nat /\ began + consumed + Len(partial_buffer) + Len(chunk) <= arrived
    BY DEF Reckoned, Within
<1>4. Within'
    <2>1. /\ Len(partial_buffer) \in Nat /\ Len(chunk) \in Nat /\ arrived \in Nat
          /\ current \in 0 .. Len(chunk)
        BY Numbers
    <2>2. arrived' = arrived
        OBVIOUS
    <2>3. CASE consumed' = consumed + current /\ began' = began
        BY <1>1, <1>2, <1>3, <2>1, <2>2, <2>3 DEF Within
    <2>4. CASE consumed' = 0 /\ began' = arrived - Len(chunk')
        BY <1>1, <1>2, <1>3, <2>1, <2>2, <2>4 DEF Within
    <2> QED BY <2>3, <2>4
<1>5. Bounds'
    BY <1>1 DEF Reckoned, Bounds
<1>6. RefusesTooLarge'
    BY <1>1 DEF RefusesTooLarge
<1> QED BY <1>4, <1>5, <1>6 DEF Reckoned

\* A throw from the switch is none about the size.
LEMMA ThrowReckoned ==
    ASSUME Reckoned, NEW what \in Throws \ {"413"}, Throw(what)
    PROVE  Reckoned'
<1>1. /\ pc' = what
      /\ UNCHANGED <<stream, arrived, state, body_length, consumed, partial_buffer, chunk, began>>
    BY DEF Throw, input, piece, entity, results
<1>2. Within'
    BY <1>1 DEF Reckoned, Within
<1>3. Bounds'
    BY <1>1 DEF Reckoned, Bounds
<1>4. RefusesTooLarge'
    BY <1>1 DEF RefusesTooLarge
<1> QED BY <1>2, <1>3, <1>4 DEF Reckoned

\* The head of the loop throws when the count, in a size_t, is above the limit; the
\* entity is then at least as large.
LEMMA StartPieceReckoned == IInv /\ Reckoned /\ StartPiece => Reckoned'
<1> SUFFICES ASSUME IInv, Reckoned, StartPiece PROVE Reckoned'
    OBVIOUS
<1>1. /\ pc = "loop"
      /\ UNCHANGED <<stream, arrived, state, consumed, partial_buffer, chunk, began>>
    BY DEF StartPiece, input, entity, results
<1>2. Within'
    BY <1>1 DEF Reckoned, Within
<1>3. consumed \in Nat /\ began \in Nat /\ began + consumed + Len(partial_buffer) + Len(chunk) <= arrived
    BY DEF Reckoned, Within
<1>4. CASE TooMuch /\ pc' = "413" /\ UNCHANGED body_length
    <2> DEFINE total == consumed + Len(partial_buffer) + body_length
    <2>1. total \in Nat
        BY <1>3, Numbers
    <2>2. total % (MaxULong + 1) > MaxSize
        BY <1>4 DEF TooMuch
    <2> HIDE DEF total
    <2>3. total % (MaxULong + 1) <= total
        BY <2>1, Remainder, HttpAssumption
    <2>4. total > MaxSize
        <3>1. total % (MaxULong + 1) \in Nat
            BY <2>1, Remainder, HttpAssumption
        <3> QED BY <2>1, <2>2, <2>3, <3>1, HttpAssumption
    <2>5. (arrived - Len(chunk)) - began + body_length > MaxSize
        BY <1>3, <2>4, Numbers, HttpAssumption DEF total
    <2>6. RefusesTooLarge'
        BY <1>1, <1>4, <2>5 DEF RefusesTooLarge
    <2>7. Bounds'
        BY <1>1, <1>4 DEF Reckoned, Bounds, Throws
    <2> QED BY <1>2, <2>6, <2>7 DEF Reckoned
<1>5. CASE pc' = "match" /\ body_length' = body_length - Counted
    <2>1. Counted \in Nat
        BY Numbers DEF Counted
    <2>2. body_length' <= MaxULong
        BY <1>5, <2>1, Numbers, HttpAssumption DEF Reckoned, Bounds
    <2>3. Bounds'
        BY <1>1, <1>5, <2>2 DEF Reckoned, Bounds
    <2> QED BY <1>2, <1>5, <2>3 DEF Reckoned, RefusesTooLarge
<1> QED BY <1>4, <1>5 DEF StartPiece

\* Looking at symbols, and running out of them, counts nothing twice.
LEMMA ScanReckoned == IInv /\ Reckoned /\ (Match \/ RanOut) => Reckoned'
<1> SUFFICES ASSUME IInv, Reckoned, Match \/ RanOut PROVE Reckoned'
    OBVIOUS
<1>1. consumed \in Nat /\ began \in Nat /\ began + consumed + Len(partial_buffer) + Len(chunk) <= arrived
    BY DEF Reckoned, Within
<1>2. CASE Match
    <2>1. /\ pc = "match" /\ pc' = pc
          /\ UNCHANGED <<stream, arrived, state, body_length, consumed, partial_buffer, chunk, began>>
        BY <1>2 DEF Match, input, entity, results
    <2>2. Within' /\ Bounds'
        BY <2>1 DEF Reckoned, Within, Bounds
    <2> QED BY <2>1, <2>2 DEF Reckoned, RefusesTooLarge
<1>3. CASE RanOut
    <2>1. /\ pc' \in {"400", "rest"} /\ partial_buffer' = partial_buffer \o chunk /\ chunk' = <<>>
          /\ UNCHANGED <<stream, arrived, state, body_length, consumed, began>>
        BY <1>3 DEF RanOut, input, entity
    <2>2. Len(partial_buffer') = Len(partial_buffer) + Len(chunk) /\ Len(chunk') = 0
        BY <2>1, Numbers
    <2>3. Within'
        BY <1>1, <2>1, <2>2, Numbers DEF Within
    <2>4. Bounds'
        BY <2>1 DEF Reckoned, Bounds, Throws
    <2> QED BY <2>1, <2>3, <2>4 DEF Reckoned, RefusesTooLarge
<1> QED BY <1>2, <1>3

\* A chunk that arrives has not been counted.
LEMMA ReceiveReckoned ==
    ASSUME IInv, Reckoned, NEW n \in 1 .. MaxChunk, Receive(n)
    PROVE  Reckoned'
<1>1. /\ pc = "rest" /\ pc' = "loop" /\ arrived' = arrived + n /\ arrived + n <= Len(stream)
      /\ chunk' = SubSeq(stream, arrived + 1, arrived + n)
      /\ UNCHANGED <<stream, state, body_length, consumed, partial_buffer, began>>
    BY DEF Receive, entity
<1>2. n \in Nat /\ stream \in Seq(STRING) /\ arrived \in Nat
    BY HttpAssumption DEF IInv, Types
<1>3. Len(chunk') = n
    BY <1>1, <1>2
<1>4. Len(chunk) = 0
    BY <1>1 DEF IInv, AtStart
<1>5. consumed \in Nat /\ began \in Nat /\ began + consumed + Len(partial_buffer) + Len(chunk) <= arrived
    BY DEF Reckoned, Within
<1>6. Within'
    BY <1>1, <1>2, <1>3, <1>4, <1>5, Numbers DEF Within
<1>7. Bounds'
    BY <1>1 DEF Reckoned, Bounds
<1> QED BY <1>1, <1>6, <1>7 DEF Reckoned, RefusesTooLarge

\* Every step keeps the count.
LEMMA NextReckoned == IInv /\ Reckoned /\ [Next]_vars => Reckoned'
<1> SUFFICES ASSUME IInv, Reckoned, [Next]_vars PROVE Reckoned'
    OBVIOUS
<1>0. body_length <= MaxULong /\ state \in States
    BY DEF Reckoned, Bounds
<1>1. ASSUME NEW n \in 1 .. MaxChunk, Receive(n) PROVE Reckoned'
    BY <1>1, ReceiveReckoned
<1>2. CASE StartPiece \/ Match \/ RanOut
    BY <1>2, StartPieceReckoned, ScanReckoned
<1>3. ASSUME NEW value, NEW next \in States, NEW delim, LinePiece(value, next, delim) PROVE Reckoned'
    BY <1>0, <1>3, PieceCounted DEF LinePiece, input, results
<1>4. ASSUME NEW next \in States, NEW delim, NEW n, n <= MaxULong, Expect(next, delim, n) PROVE Reckoned'
    BY <1>4, PieceCounted DEF Expect, input, results
<1>5. ASSUME NEW b, Emit(b) PROVE Reckoned'
    <2>1. state' \in States
        BY <1>5 DEF Emit, States
    <2>2. body_length' <= MaxULong
        BY <1>5, HttpAssumption DEF Emit
    <2> QED BY <1>5, <2>1, <2>2, PieceCounted DEF Emit, input, Flushed
<1>6. CASE Method \/ RequestVersion \/ ResponseVersion \/ Code
    <2>1. {"PATH", "HEADERS", "CODE", "MESSAGE"} \subseteq States
        BY DEF States
    <2>2. {"501", "505", "runtime_error", "logic_error"} \subseteq Throws \ {"413"}
        BY DEF Throws
    <2> QED BY <1>3, <1>6, <2>1, <2>2, ThrowReckoned DEF Method, RequestVersion, ResponseVersion, Code
<1>7. CASE Path \/ Message
    <2>1. {"VERSION", "HEADERS"} \subseteq States
        BY DEF States
    <2> QED BY <1>3, <1>7, <2>1 DEF Path, Message
<1>8. ASSUME Throw(Bad) PROVE Reckoned'
    <2>1. Bad \in Throws \ {"413"}
        BY DEF Bad, Throws
    <2> QED BY <1>8, <2>1, ThrowReckoned
<1>9. CASE Header
    <2>1. CASE NextPiece /\ consumed' = consumed + current /\ UNCHANGED <<input, body_length, state, results>>
        BY <1>0, <2>1, PieceCounted DEF input, results
    <2> QED BY <1>8, <1>9, <2>1 DEF Header
<1>10. CASE BlankLine
    <2> DEFINE length == headers["Content-Length:"]
    <2>1. CASE IsNumber(length, 10) /\ Expect("BODY", BodyDelimiter, Stoul(length, 10))
        <3>1. Stoul(length, 10) <= MaxULong /\ "BODY" \in States
            BY <2>1, HttpAssumption DEF IsNumber, States
        <3> QED BY <1>4, <2>1, <3>1
    <2>2. CASE Throw(IF kind = "request" THEN "400" ELSE "logic_error")
        <3>1. (IF kind = "request" THEN "400" ELSE "logic_error") \in Throws \ {"413"}
            BY DEF Throws
        <3> QED BY <2>2, <3>1, ThrowReckoned
    <2>3. CASE Expect("CHUNK_LENGTH", CRLF, 0)
        <3>1. 0 <= MaxULong /\ "CHUNK_LENGTH" \in States
            BY HttpAssumption DEF States
        <3> QED BY <1>4, <2>3, <3>1
    <2> QED BY <1>5, <1>10, <2>1, <2>2, <2>3 DEF BlankLine
<1>11. CASE EndOfTrailer \/ Body
    BY <1>5, <1>11 DEF EndOfTrailer, Body
<1>12. CASE ChunkLength
    <2>1. CASE /\ IsNumber(Piece, 16)
               /\ Expect(IF Stoul(Piece, 16) > 0 THEN "CHUNK" ELSE "TRAILER", CRLF,
                         Stoul(Piece, 16))
        <3>1. /\ Stoul(Piece, 16) <= MaxULong
              /\ (IF Stoul(Piece, 16) > 0 THEN "CHUNK" ELSE "TRAILER") \in States
            BY <2>1, HttpAssumption DEF IsNumber, States
        <3> QED BY <1>4, <2>1, <3>1
    <2> QED BY <1>8, <1>12, <2>1 DEF ChunkLength
<1>13. CASE Chunk
    <2>1. state' \in States
        BY <1>13 DEF Chunk, States
    <2> QED BY <1>0, <1>13, <2>1, PieceCounted DEF Chunk, input, results
<1>14. CASE UNCHANGED vars
    <2>1. Within' /\ Bounds'
        BY <1>14 DEF vars, input, piece, entity, results, Reckoned, Within, Bounds
    <2>2. RefusesTooLarge'
        BY <1>14 DEF vars, input, piece, entity, results, Reckoned, RefusesTooLarge
    <2> QED BY <2>1, <2>2 DEF Reckoned
<1> QED BY <1>1, <1>2, <1>6, <1>7, <1>9, <1>10, <1>11, <1>12, <1>13, <1>14 DEF Next, from_stream

\* The count is right in every reachable state.
THEOREM Counting == Spec => [](IInv /\ Reckoned)
<1>1. Init => IInv /\ Reckoned
    BY InitIInv, InitReckoned
<1>2. (IInv /\ Reckoned) /\ [Next]_vars => (IInv /\ Reckoned)'
    BY NextIInv, NextReckoned
<1> QED BY <1>1, <1>2, PTL DEF Spec

\* Type correctness of the entity and of the locals of from_stream.
THEOREM TypeCorrect == Spec => []TypeOK
<1>1. IInv /\ Reckoned => TypeOK
    <2> SUFFICES ASSUME IInv, Reckoned PROVE TypeOK
        OBVIOUS
    <2>1. began \in 0 .. arrived /\ consumed \in 0 .. arrived - began /\ arrived \in 0 .. Len(stream)
          /\ Len(partial_buffer) + Len(chunk) <= arrived - began
        BY Numbers DEF Reckoned, Within, Bounds
    <2>2. body_length \in 0 .. MaxULong
        BY Numbers, HttpAssumption DEF Reckoned, Bounds
    <2>3. pc \in {"rest", "loop", "match"} \cup Throws /\ state \in States
        BY DEF Reckoned, Bounds
    <2>4. /\ delimiter \in {SP, CRLF, <<>>} /\ partial_length \in 0 .. Len(delimiter)
          /\ current \in 0 .. Len(chunk)
        BY DEF IInv, Types
    <2> QED BY <2>1, <2>2, <2>3, <2>4, Zenon DEF TypeOK, States, Throws
<1> QED BY <1>1, Counting, PTL

\* A request that is refused as too large is, for every stream, limit and chunking,
\* whatever was parsed before it on the same connection and although the sum that
\* is compared with max_size is a size_t.
THEOREM RefusalsAreRight == Spec => []RefusesTooLarge
<1>1. IInv /\ Reckoned => RefusesTooLarge
    BY DEF Reckoned
<1> QED BY <1>1, Counting, PTL

-----------------------------------------------------------------------------
(* How often the CRs in front of a LF are counted                            *)

\* A set of numbers that is not empty has a least element.
LEMMA Least ==
    ASSUME NEW T \in SUBSET Nat, T # {}
    PROVE  \E n \in T : \A m \in T : n <= m
<1> DEFINE R == OpToRel(<, Nat)
<1>1. IsWellFoundedOn(R, Nat)
    BY NatLessThanWellFounded
<1>2. \A x, y \in Nat : x < y => <<x, y>> \in R
    BY DEF OpToRel
<1> HIDE DEF R
<1>3. PICK n \in T : \A m \in T : ~(<<m, n>> \in R)
    BY <1>1, WFMin, Zenon
<1>4. ASSUME NEW m \in T PROVE n <= m
    <2>1. ~(m < n)
        BY <1>2, <1>3, Zenon
    <2> QED BY <2>1
<1> QED BY <1>4

\* Whether the CRs behind b and up to k are odd in number, from whether those
\* before k are.
LEMMA NoReturns == ASSUME NEW b \in Nat PROVE ~OddReturns(b, b)
BY DEF OddReturns

LEMMA NextReturn ==
    ASSUME NEW b \in Nat, NEW k \in Nat, b <= k
    PROVE  OddReturns(b, k + 1) <=> stream[k + 1] = "CR" /\ ~OddReturns(b, k)
<1>1. ASSUME OddReturns(b, k + 1) PROVE stream[k + 1] = "CR" /\ ~OddReturns(b, k)
    <2>1. PICK h \in 0 .. k + 1 : /\ b < k + 1 - 2 * h
                                  /\ \A j \in k + 1 - 2 * h .. k + 1 : stream[j] = "CR"
                                  /\ b < k + 1 - 2 * h - 1 => stream[k + 1 - 2 * h - 1] # "CR"
        BY <1>1 DEF OddReturns
    <2>2. stream[k + 1] = "CR"
        BY <2>1
    <2>3. ASSUME NEW g \in 0 .. k, b < k - 2 * g,
                 \A j \in k - 2 * g .. k : stream[j] = "CR",
                 b < k - 2 * g - 1 => stream[k - 2 * g - 1] # "CR"
          PROVE  FALSE
        <3>1. CASE g >= h
            <4>1. k - 2 * h \in k - 2 * g .. k /\ b < k + 1 - 2 * h - 1
                BY <2>3, <3>1
            <4> QED BY <2>1, <2>3, <4>1
        <3>2. CASE g < h
            <4>1. k - 2 * g - 1 \in k + 1 - 2 * h .. k + 1 /\ b < k - 2 * g - 1
                BY <2>1, <2>3, <3>2
            <4> QED BY <2>1, <2>3, <4>1
        <3> QED BY <3>1, <3>2
    <2> QED BY <2>2, <2>3 DEF OddReturns
<1>2. ASSUME stream[k + 1] = "CR", ~OddReturns(b, k) PROVE OddReturns(b, k + 1)
    <2> DEFINE T == {n \in 1 .. k + 1 - b : b < k + 1 - n => stream[k + 1 - n] # "CR"}
    <2>1. k + 1 - b \in T
        OBVIOUS
    <2>2. PICK n \in T : \A i \in T : n <= i
        <3>1. T \in SUBSET Nat
            OBVIOUS
        <3> HIDE DEF T
        <3> QED BY <2>1, <3>1, Least
    <2>3. n \in 1 .. k + 1 - b /\ (b < k + 1 - n => stream[k + 1 - n] # "CR")
        BY <2>2
    <2>4. ASSUME NEW j \in k + 2 - n .. k + 1 PROVE stream[j] = "CR"
        <3>1. CASE j = k + 1
            BY <1>2, <3>1
        <3>2. CASE j # k + 1
            <4>1. /\ k + 1 - j \in 1 .. k + 1 - b /\ ~(n <= k + 1 - j)
                  /\ b < k + 1 - (k + 1 - j)
                BY <2>3, <3>2
            <4>2. k + 1 - j \notin T
                <5> HIDE DEF T
                <5> QED BY <2>2, <4>1
            <4>3. k + 1 - (k + 1 - j) = j
                OBVIOUS
            <4> QED BY <4>1, <4>2, <4>3
        <3> QED BY <3>1, <3>2
    <2> HIDE DEF T
    <2>5. PICK h \in 0 .. k : n = 2 * h + 1 \/ n = 2 * h + 2
        <3>1. (n - 1) \div 2 \in 0 .. k
            BY <2>3
        <3>2. n = 2 * ((n - 1) \div 2) + 1 \/ n = 2 * ((n - 1) \div 2) + 2
            BY <2>3
        <3> QED BY <3>1, <3>2
    <2>6. CASE n = 2 * h + 1
        <3>1. /\ k + 2 - n = k + 1 - 2 * h /\ k + 1 - n = k + 1 - 2 * h - 1
              /\ b < k + 1 - 2 * h /\ h \in 0 .. k + 1
            BY <2>3, <2>6
        <3>2. \A j \in k + 1 - 2 * h .. k + 1 : stream[j] = "CR"
            BY <2>4, <3>1
        <3>3. b < k + 1 - 2 * h - 1 => stream[k + 1 - 2 * h - 1] # "CR"
            BY <2>3, <3>1
        <3> QED BY <3>1, <3>2, <3>3 DEF OddReturns
    <2>7. CASE n = 2 * h + 2
        <3>1. /\ k + 2 - n = k - 2 * h /\ k + 1 - n = k - 2 * h - 1
              /\ b < k - 2 * h /\ h \in 0 .. k
            BY <2>3, <2>7
        <3>2. \A j \in k - 2 * h .. k : stream[j] = "CR"
            BY <2>4, <3>1
        <3>3. b < k - 2 * h - 1 => stream[k - 2 * h - 1] # "CR"
            BY <2>3, <3>1
        <3>4. OddReturns(b, k)
            BY <3>1, <3>2, <3>3 DEF OddReturns
        <3> QED BY <1>2, <3>4
    <2> QED BY <2>5, <2>6, <2>7
<1> QED BY <1>1, <1>2

-----------------------------------------------------------------------------
(* The reader of a whole stream                                              *)

\* The readers of the first m symbols up to the n-th are f.
ReadBy(m, n, f) == f = [i \in 0 .. n |-> IF i = 0 THEN Start ELSE Read(m, f[i - 1])]

LEMMA ReadersExist == ASSUME NEW m, NEW n \in Nat PROVE \E f : ReadBy(m, n, f)
<1> DEFINE T == {k \in Nat : ~\E f : ReadBy(m, k, f)}
<1>1. SUFFICES ASSUME T # {} PROVE FALSE
    OBVIOUS
<1>2. PICK k \in T : \A i \in T : k <= i
    <2>1. T \in SUBSET Nat
        OBVIOUS
    <2> HIDE DEF T
    <2> QED BY <1>1, <2>1, Least
<1>3. k \in Nat /\ ~\E f : ReadBy(m, k, f)
    OBVIOUS
<1>4. CASE k = 0
    <2> DEFINE f == [i \in 0 .. 0 |-> Start]
    <2>1. ReadBy(m, 0, f)
        BY DEF ReadBy
    <2> HIDE DEF f
    <2> QED BY <1>3, <1>4, <2>1
<1>5. CASE k # 0
    <2>1. k - 1 \in Nat /\ k - 1 \notin T
        <3>1. k - 1 \in Nat /\ ~(k <= k - 1)
            BY <1>3, <1>5
        <3> HIDE DEF T
        <3> QED BY <1>2, <3>1
    <2>2. PICK g : ReadBy(m, k - 1, g)
        BY <2>1
    <2>3. \A i \in 0 .. k - 1 : g[i] = IF i = 0 THEN Start ELSE Read(m, g[i - 1])
        BY <2>2 DEF ReadBy
    <2> DEFINE f == [i \in 0 .. k |-> IF i = 0 THEN Start ELSE Read(m, g[i - 1])]
    <2>4. \A i \in 0 .. k - 1 : f[i] = g[i]
        BY <1>3, <2>3
    <2>5. \A i \in 0 .. k : i # 0 => i - 1 \in 0 .. k - 1
        BY <1>3
    <2>6. \A i \in 0 .. k : f[i] = IF i = 0 THEN Start ELSE Read(m, f[i - 1])
        <3> HIDE DEF f
        <3>1. \A i \in 0 .. k : f[i] = IF i = 0 THEN Start ELSE Read(m, g[i - 1])
            BY DEF f
        <3> QED BY <2>4, <2>5, <3>1
    <2>7. f = [i \in 0 .. k |-> f[i]]
        OBVIOUS
    <2> HIDE DEF f
    <2>8. [i \in 0 .. k |-> f[i]] = [i \in 0 .. k |-> IF i = 0 THEN Start ELSE Read(m, f[i - 1])]
        BY <2>6
    <2>9. ReadBy(m, k, f)
        BY <2>7, <2>8 DEF ReadBy
    <2> QED BY <1>3, <2>9
<1> QED BY <1>4, <1>5

LEMMA ReadersAgree ==
    ASSUME NEW m, NEW n \in Nat, NEW p \in Nat, NEW f, NEW g, ReadBy(m, n, f), ReadBy(m, p, g),
           NEW i \in Nat, i <= n, i <= p
    PROVE  f[i] = g[i]
<1> DEFINE T == {k \in Nat : k <= n /\ k <= p /\ f[k] # g[k]}
<1>1. SUFFICES ASSUME T # {} PROVE FALSE
    OBVIOUS
<1>2. PICK k \in T : \A j \in T : k <= j
    <2>1. T \in SUBSET Nat
        OBVIOUS
    <2> HIDE DEF T
    <2> QED BY <1>1, <2>1, Least
<1>3. k \in Nat /\ k <= n /\ k <= p /\ f[k] # g[k]
    OBVIOUS
<1>4. /\ f[k] = IF k = 0 THEN Start ELSE Read(m, f[k - 1])
      /\ g[k] = IF k = 0 THEN Start ELSE Read(m, g[k - 1])
    <2>1. k \in 0 .. n /\ k \in 0 .. p
        BY <1>3
    <2> QED BY <2>1 DEF ReadBy
<1>5. k # 0
    BY <1>3, <1>4
<1>6. k - 1 \in Nat /\ k - 1 <= n /\ k - 1 <= p /\ ~(k <= k - 1)
    BY <1>3, <1>5
<1>7. f[k - 1] = g[k - 1]
    <2>1. k - 1 \notin T
        <3> HIDE DEF T
        <3> QED BY <1>2, <1>6
    <2> QED BY <1>6, <2>1
<1> QED BY <1>3, <1>4, <1>7

\* Reading satisfies the equation that defines it.
LEMMA ReadingUnfolds ==
    ASSUME NEW m
    PROVE  /\ Reading(m)[0] = Start
           /\ \A n \in Nat : Reading(m)[n + 1] = Read(m, Reading(m)[n])
<1> DEFINE by(n) == CHOOSE f : ReadBy(m, n, f)
           F == [n \in Nat |-> by(n)[n]]
<1>1. \A n \in Nat : ReadBy(m, n, by(n))
    BY ReadersExist
<1> HIDE DEF by
<1>2. ASSUME NEW n \in Nat PROVE F[n] = IF n = 0 THEN Start ELSE Read(m, F[n - 1])
    <2>1. n \in 0 .. n /\ ReadBy(m, n, by(n))
        BY <1>1
    <2>2. by(n)[n] = IF n = 0 THEN Start ELSE Read(m, by(n)[n - 1])
        BY <2>1 DEF ReadBy
    <2>3. CASE n = 0
        BY <2>2, <2>3
    <2>4. CASE n # 0
        <3>1. n - 1 \in Nat /\ n - 1 <= n /\ n - 1 <= n - 1
            BY <2>4
        <3>2. ReadBy(m, n - 1, by(n - 1))
            BY <1>1, <3>1
        <3>3. by(n)[n - 1] = by(n - 1)[n - 1]
            BY <2>1, <3>1, <3>2, ReadersAgree
        <3>4. F[n] = by(n)[n] /\ F[n - 1] = by(n - 1)[n - 1]
            BY <3>1
        <3> QED BY <2>2, <2>4, <3>3, <3>4
    <2> QED BY <2>3, <2>4
<1>3. F = [n \in Nat |-> F[n]]
    OBVIOUS
<1> HIDE DEF F
<1>4. F = [n \in Nat |-> IF n = 0 THEN Start ELSE Read(m, F[n - 1])]
    <2>1. [n \in Nat |-> F[n]] = [n \in Nat |-> IF n = 0 THEN Start ELSE Read(m, F[n - 1])]
        BY <1>2
    <2> QED BY <1>3, <2>1
<1>5. Reading(m) = [n \in Nat |-> IF n = 0 THEN Start ELSE Read(m, Reading(m)[n - 1])]
    <2> DEFINE P(f) == f = [n \in Nat |-> IF n = 0 THEN Start ELSE Read(m, f[n - 1])]
    <2>1. Reading(m) = CHOOSE f : P(f)
        BY DEF Reading
    <2>2. P(F)
        BY <1>4
    <2> HIDE DEF P
    <2>3. P(Reading(m))
        BY <2>1, <2>2
    <2> QED BY <2>3 DEF P
<1>6. Reading(m)[0] = Start
    <2>1. 0 \in Nat
        OBVIOUS
    <2> QED BY <1>5, <2>1, Zenon
<1>7. ASSUME NEW n \in Nat PROVE Reading(m)[n + 1] = Read(m, Reading(m)[n])
    <2>1. n + 1 \in Nat /\ n + 1 # 0 /\ (n + 1) - 1 = n
        OBVIOUS
    <2> DEFINE R == Reading(m)
    <2>2. R = [i \in Nat |-> IF i = 0 THEN Start ELSE Read(m, R[i - 1])]
        BY <1>5
    <2> HIDE DEF R
    <2>3. R[n + 1] = IF n + 1 = 0 THEN Start ELSE Read(m, R[(n + 1) - 1])
        BY <2>1, <2>2
    <2>4. R[n + 1] = Read(m, R[n])
        BY <2>1, <2>3
    <2> QED BY <2>4 DEF R
<1> QED BY <1>6, <1>7

\* Once the reader has stopped it stays where it is.
LEMMA StaysStopped ==
    ASSUME NEW m, NEW n \in Nat, Reading(m)[n].stage \in {"short", "wrong"},
           NEW p \in Nat, n <= p
    PROVE  Reading(m)[p] = Reading(m)[n]
<1> DEFINE T == {k \in Nat : n <= k /\ Reading(m)[k] # Reading(m)[n]}
<1>1. SUFFICES ASSUME T # {} PROVE FALSE
    OBVIOUS
<1>2. PICK k \in T : \A i \in T : k <= i
    <2>1. T \in SUBSET Nat
        OBVIOUS
    <2> HIDE DEF T
    <2> QED BY <1>1, <2>1, Least
<1>3. k \in Nat /\ n <= k /\ Reading(m)[k] # Reading(m)[n]
    OBVIOUS
<1>4. k # n
    BY <1>3
<1>5. k - 1 \in Nat /\ n <= k - 1 /\ ~(k <= k - 1) /\ (k - 1) + 1 = k
    BY <1>3, <1>4
<1>6. Reading(m)[k - 1] = Reading(m)[n]
    <2>1. k - 1 \notin T
        <3> HIDE DEF T
        <3> QED BY <1>2, <1>5
    <2> QED BY <1>5, <2>1
<1>7. Reading(m)[k] = Read(m, Reading(m)[n])
    BY <1>5, <1>6, ReadingUnfolds
<1>8. Read(m, Reading(m)[n]) = Reading(m)[n]
    BY DEF Read
<1> QED BY <1>3, <1>7, <1>8

\* A reader, field by field.
Record(s, f, h, b, n, a, fr, e) ==
    [stage |-> s, first |-> f, headers |-> h, body |-> b, need |-> n, at |-> a, from |-> fr,
     entities |-> e]

LEMMA Fields ==
    ASSUME NEW s, NEW f, NEW h, NEW b, NEW n, NEW a, NEW fr, NEW e
    PROVE  LET r == Record(s, f, h, b, n, a, fr, e)
           IN  /\ r.stage = s /\ r.first = f /\ r.headers = h /\ r.body = b /\ r.need = n
               /\ r.at = a /\ r.from = fr /\ r.entities = e
BY DEF Record

LEMMA Update ==
    \A s, f, h, b, n, a, fr, e, x :
        LET r == Record(s, f, h, b, n, a, fr, e)
        IN  /\ [r EXCEPT !.stage = x] = Record(x, f, h, b, n, a, fr, e)
            /\ [r EXCEPT !.first = x] = Record(s, x, h, b, n, a, fr, e)
            /\ [r EXCEPT !.headers = x] = Record(s, f, x, b, n, a, fr, e)
            /\ [r EXCEPT !.body = x] = Record(s, f, h, x, n, a, fr, e)
            /\ [r EXCEPT !.need = x] = Record(s, f, h, b, x, a, fr, e)
            /\ [r EXCEPT !.at = x] = Record(s, f, h, b, n, x, fr, e)
            /\ [r EXCEPT !.from = x] = Record(s, f, h, b, n, a, x, e)
            /\ [r EXCEPT !.entities = x] = Record(s, f, h, b, n, a, fr, x)
<1> SUFFICES ASSUME NEW s, NEW f, NEW h, NEW b, NEW n, NEW a, NEW fr, NEW e, NEW x
             PROVE  LET r == Record(s, f, h, b, n, a, fr, e)
                    IN  /\ [r EXCEPT !.stage = x] = Record(x, f, h, b, n, a, fr, e)
                        /\ [r EXCEPT !.first = x] = Record(s, x, h, b, n, a, fr, e)
                        /\ [r EXCEPT !.headers = x] = Record(s, f, x, b, n, a, fr, e)
                        /\ [r EXCEPT !.body = x] = Record(s, f, h, x, n, a, fr, e)
                        /\ [r EXCEPT !.need = x] = Record(s, f, h, b, x, a, fr, e)
                        /\ [r EXCEPT !.at = x] = Record(s, f, h, b, n, x, fr, e)
                        /\ [r EXCEPT !.from = x] = Record(s, f, h, b, n, a, x, e)
                        /\ [r EXCEPT !.entities = x] = Record(s, f, h, b, n, a, fr, x)
    BY Zenon
<1> DEFINE r == Record(s, f, h, b, n, a, fr, e)
<1>1. [r EXCEPT !.stage = x] = Record(x, f, h, b, n, a, fr, e)
    BY DEF Record
<1>2. [r EXCEPT !.first = x] = Record(s, x, h, b, n, a, fr, e)
    BY DEF Record
<1>3. [r EXCEPT !.headers = x] = Record(s, f, x, b, n, a, fr, e)
    BY DEF Record
<1>4. [r EXCEPT !.body = x] = Record(s, f, h, x, n, a, fr, e)
    BY DEF Record
<1>5. [r EXCEPT !.need = x] = Record(s, f, h, b, x, a, fr, e)
    BY DEF Record
<1>6. [r EXCEPT !.at = x] = Record(s, f, h, b, n, x, fr, e)
    BY DEF Record
<1>7. [r EXCEPT !.from = x] = Record(s, f, h, b, n, a, x, e)
    BY DEF Record
<1>8. [r EXCEPT !.entities = x] = Record(s, f, h, b, n, a, fr, x)
    BY DEF Record
<1> QED BY <1>1, <1>2, <1>3, <1>4, <1>5, <1>6, <1>7, <1>8

\* The readers that one reader turns into.
LEMMA Turns ==
    \A s, f, h, b, n, a, fr, e, x, y :
        LET r == Record(s, f, h, b, n, a, fr, e)
        IN  /\ Behind(r, x) = Record(s, f, h, b, 0, x, fr, e)
            /\ Expecting(r, x, y) = Record(x, f, h, b, y, a, fr, e)
            /\ Wrong(r).stage = "wrong"
            /\ Whole(r, x) = Record("line", <<>>, NoHeaders, <<>>, 0, a, a,
                                    Append(e, [first |-> f, headers |-> h, body |-> x]))
<1> TAKE s, f, h, b, n, a, fr, e, x, y
<1> DEFINE r == Record(s, f, h, b, n, a, fr, e)
<1>1. Behind(r, x) = Record(s, f, h, b, 0, x, fr, e)
    <2>1. [Record(s, f, h, b, n, a, fr, e) EXCEPT !.at = x] = Record(s, f, h, b, n, x, fr, e)
        BY Update
    <2>2. [Record(s, f, h, b, n, x, fr, e) EXCEPT !.need = 0] = Record(s, f, h, b, 0, x, fr, e)
        BY Update
    <2> QED BY <2>1, <2>2 DEF Behind
<1>2. Expecting(r, x, y) = Record(x, f, h, b, y, a, fr, e)
    <2>1. [Record(s, f, h, b, n, a, fr, e) EXCEPT !.stage = x] = Record(x, f, h, b, n, a, fr, e)
        BY Update
    <2>2. [Record(x, f, h, b, n, a, fr, e) EXCEPT !.need = y] = Record(x, f, h, b, y, a, fr, e)
        BY Update
    <2> QED BY <2>1, <2>2 DEF Expecting
<1>3. Wrong(r).stage = "wrong"
    BY DEF Wrong, Record
<1>4. Whole(r, x) = Record("line", <<>>, NoHeaders, <<>>, 0, a, a,
                           Append(e, [first |-> f, headers |-> h, body |-> x]))
    <2> DEFINE z == Append(e, [first |-> f, headers |-> h, body |-> x])
    <2>1. /\ Start = Record("line", <<>>, NoHeaders, <<>>, 0, 0, 0, <<>>)
          /\ r.at = a /\ r.entities = e /\ r.first = f /\ r.headers = h
        BY DEF Start, Record
    <2>2. Whole(r, x) = [Start EXCEPT !.at = a, !.from = a, !.entities = z]
        BY <2>1, Zenon DEF Whole
    <2> HIDE DEF z
    <2>3. [Record("line", <<>>, NoHeaders, <<>>, 0, 0, 0, <<>>) EXCEPT !.at = a]
              = Record("line", <<>>, NoHeaders, <<>>, 0, a, 0, <<>>)
        BY Update
    <2>4. [Record("line", <<>>, NoHeaders, <<>>, 0, a, 0, <<>>) EXCEPT !.from = a]
              = Record("line", <<>>, NoHeaders, <<>>, 0, a, a, <<>>)
        BY Update
    <2>5. [Record("line", <<>>, NoHeaders, <<>>, 0, a, a, <<>>) EXCEPT !.entities = z]
              = Record("line", <<>>, NoHeaders, <<>>, 0, a, a, z)
        BY Update
    <2>6. [Start EXCEPT !.at = a, !.from = a, !.entities = z]
              = Record("line", <<>>, NoHeaders, <<>>, 0, a, a, z)
        BY <2>1, <2>3, <2>4, <2>5
    <2> QED BY <2>2, <2>6 DEF z
<1> QED BY <1>1, <1>2, <1>3, <1>4

-----------------------------------------------------------------------------
(* What the parser has in its buffer and its chunk, and where a reader of    *)
(* the whole stream would be                                                 *)

\* Where the current piece begins, and how far it has been looked at.
Place == arrived - (Len(partial_buffer) + Len(chunk))
Look == arrived - Len(chunk) + current

\* Buffer and chunk are what arrived last.
Laid ==
    /\ \A k \in 1 .. Len(partial_buffer) : partial_buffer[k] = stream[Place + k]
    /\ \A k \in 1 .. Len(chunk) : chunk[k] = stream[arrived - Len(chunk) + k]

\* The states of a first line, the pieces it has in them and how the next one ends.
InLine(k, s, d) == kind = k /\ state = s /\ delimiter = d
Shaped ==
    /\ kind \in {"request", "response"}
    /\ \/ InLine("request", "METHOD", SP) /\ first = <<>>
       \/ InLine("request", "PATH", SP) /\ \E a : first = <<a>>
       \/ InLine("request", "VERSION", CRLF) /\ \E a, b : first = <<a, b>>
       \/ InLine("response", "VERSION", SP) /\ first = <<>>
       \/ InLine("response", "CODE", SP) /\ \E a : first = <<a>>
       \/ InLine("response", "MESSAGE", CRLF) /\ \E a, b : first = <<a, b>>
       \/ state \in {"HEADERS", "TRAILER", "CHUNK_LENGTH", "CHUNK"} /\ delimiter = CRLF
       \/ state = "BODY" /\ delimiter = <<>>

Listed == \E S : entities \in Seq(S) /\ delivered \in Seq(S)

\* The reader that is where the parser is, with need symbols of the piece known to
\* come when the piece began.
Stage == CASE state = "HEADERS" -> "fields"
           [] state = "TRAILER" -> "trailer"
           [] state = "BODY" -> "sized"
           [] state = "CHUNK_LENGTH" -> "size"
           [] state = "CHUNK" -> "data"
           [] OTHER -> "line"
LineSoFar == IF kind = "request" /\ state = "VERSION"
             THEN <<first[1], split_path_query(first[2])>> ELSE first
Reader(need, at) ==
    Record(Stage, LineSoFar, headers, body, need, at, began, delivered \o entities)

\* What is to come of a piece, and what has been found of its delimiter.
Needs(need) ==
    /\ state \notin {"BODY", "CHUNK"} => need = 0
    /\ IF body_length > 0 \/ state = "BODY" THEN Place + need = body_length + Look
       ELSE Place + need <= Look
Sought(need) ==
    /\ delimiter = SP =>
         /\ partial_length = 1 => Place < Look /\ stream[Look] = "SP"
         /\ \A k \in Place + 1 .. Look : stream[k] = "SP" => k = Look /\ partial_length = 1
    /\ delimiter = CRLF /\ body_length = 0 =>
         /\ partial_length = 1 <=> OddReturns(Place + need, Look)
         /\ partial_length = 2 <=> EndsLine(Place + need, Look)
         /\ \A k \in Place + need + 1 .. Look - 1 : ~EndsLine(Place + need, k)

\* The reader comes to where the parser is, whatever else is going to arrive.
Comes(n, need) ==
    /\ n <= 2 * Place - (IF state = "BODY" THEN 1 ELSE 0)
    /\ \A m \in arrived .. Len(stream) : Reading(m)[n] = Reader(need, Place)
Tracked == IF Failed THEN pc # "413" => Contents(arrived).stage = "wrong"
           ELSE \E n, need \in Nat : Needs(need) /\ Sought(need) /\ Comes(n, need)

\* The third inductive invariant, relative to the other two.
Follows == Shaped /\ Listed /\ Tracked /\ (~Failed => Laid)

\* The places in the stream.
LEMMA Places ==
    ASSUME IInv, Reckoned
    PROVE  /\ Place \in Nat /\ Look \in Nat /\ Place <= Look /\ Look <= arrived
           /\ arrived <= Len(stream) /\ Look = Place + Len(partial_buffer) + current
           /\ stream \in Seq(STRING) /\ Len(stream) \in Nat /\ arrived \in Nat
BY Numbers DEF Place, Look, Reckoned, Within, Bounds, IInv, Types

\* What consume_until leaves of a piece is what stands in the stream.
LEMMA PieceIs ==
    ASSUME IInv, Reckoned, Laid, Found
    PROVE  /\ Piece = SubSeq(stream, Place + 1, Look - Len(delimiter))
           /\ Place + Len(delimiter) <= Look
<1> DEFINE n == Look - Len(delimiter) - Place
           t == SubSeq(stream, Place + 1, Look - Len(delimiter))
<1>1. partial_length = Len(delimiter) /\ partial_length \in Nat /\ pc = "match"
    BY Delimiters DEF Found, IInv, Types
<1>2. Len(Seen) = Len(partial_buffer) + current
    BY SeenParts, Numbers DEF Seen
<1>3. partial_length <= Len(partial_buffer) + current
    BY <1>1, <1>2 DEF IInv, CutsDelimiterOnly, Failed, Calling
<1>4. n \in Nat /\ Place + n = Look - Len(delimiter) /\ Place + n <= Len(stream)
      /\ n = Len(partial_buffer) + current - partial_length
    BY <1>1, <1>3, Places, Numbers, SMTT(30)
<1> HIDE DEF n
<1>5. t \in Seq(STRING) /\ Len(t) = n /\ \A k \in 1 .. n : t[k] = stream[Place + k]
    <2>1. t = SubSeq(stream, Place + 1, Place + n)
        BY <1>4, Zenon
    <2> HIDE DEF t
    <2>2. Place \in Nat /\ stream \in Seq(STRING)
        BY Places
    <2>3. t \in Seq(STRING) /\ Len(t) = n
        <3> DEFINE a == Place + 1
                   z == Place + n
        <3>1. /\ a \in 1 .. Len(stream) + 1 /\ z \in a - 1 .. Len(stream)
              /\ (IF a <= z THEN z - a + 1 ELSE 0) = n
            BY <1>4, <2>2
        <3> HIDE DEF a, z
        <3>2. t = SubSeq(stream, a, z)
            BY <2>1 DEF a, z
        <3> QED BY <2>2, <3>1, <3>2, SubSeqProperties
    <2>4. ASSUME NEW k \in 1 .. n PROVE t[k] = stream[Place + k]
        <3>1. t[k] = stream[(Place + 1) + k - 1] /\ (Place + 1) + k - 1 = Place + k
            BY <1>4, <2>1, <2>2
        <3> QED BY <3>1
    <2> QED BY <2>3, <2>4
<1> HIDE DEF t
<1>6. Piece \in Seq(STRING) /\ Len(Piece) = n /\ \A k \in 1 .. n : Piece[k] = stream[Place + k]
    <2>1. CASE current < partial_length
        <3>1. Piece = Upto(partial_buffer, n) /\ n \in 0 .. Len(partial_buffer)
            BY <1>1, <1>3, <1>4, <2>1, Numbers DEF Piece
        <3>2. /\ Piece \in Seq(STRING) /\ Len(Piece) = n
              /\ \A k \in 1 .. n : Piece[k] = partial_buffer[k]
            BY <3>1, Parts, Numbers
        <3>3. \A k \in 1 .. n : k \in 1 .. Len(partial_buffer)
            BY <3>1, Numbers
        <3> QED BY <3>2, <3>3 DEF Laid
    <2>2. CASE ~(current < partial_length)
        <3> DEFINE c == current - partial_length
        <3>1. c \in 0 .. Len(chunk) /\ n = Len(partial_buffer) + c
            BY <1>1, <1>4, <2>2, Numbers
        <3>2. Piece = partial_buffer \o Upto(chunk, c)
            BY <2>2 DEF Piece
        <3> HIDE DEF c
        <3>3. /\ Piece \in Seq(STRING) /\ Len(Piece) = n
              /\ \A k \in 1 .. Len(partial_buffer) : Piece[k] = partial_buffer[k]
              /\ \A k \in 1 .. c : Piece[Len(partial_buffer) + k] = chunk[k]
            BY <3>1, <3>2, SeenParts, Numbers
        <3>4. ASSUME NEW k \in 1 .. n PROVE Piece[k] = stream[Place + k]
            <4>1. CASE k <= Len(partial_buffer)
                <5>1. k \in 1 .. Len(partial_buffer)
                    BY <1>4, <4>1, Numbers
                <5> QED BY <3>3, <5>1 DEF Laid
            <4>2. CASE ~(k <= Len(partial_buffer))
                <5> DEFINE j == k - Len(partial_buffer)
                <5>0. /\ Len(partial_buffer) \in Nat /\ Len(chunk) \in Nat /\ arrived \in Nat
                      /\ Place = arrived - Len(chunk) - Len(partial_buffer)
                    BY Numbers DEF Place
                <5>1. /\ j \in 1 .. c /\ j \in 1 .. Len(chunk) /\ k = Len(partial_buffer) + j
                      /\ arrived - Len(chunk) + j = Place + k
                    BY <1>4, <3>1, <4>2, <5>0
                <5> HIDE DEF j
                <5>2. Piece[k] = chunk[j] /\ chunk[j] = stream[arrived - Len(chunk) + j]
                    BY <3>3, <5>1 DEF Laid
                <5> QED BY <5>1, <5>2
            <4> QED BY <4>1, <4>2
        <3> QED BY <3>3, <3>4
    <2> QED BY <2>1, <2>2
<1>7. Piece = t
    BY <1>4, <1>5, <1>6, SeqEqual
<1> QED BY <1>1, <1>3, <1>7, Places, Numbers DEF t

\* How a reader in the parser's place looks for the end of its piece.
LEMMA ReaderEnds ==
    ASSUME Shaped, NEW need, NEW at
    PROVE  LET r == Reader(need, at)
           IN  /\ r.stage = Stage /\ r.at = at /\ r.need = need /\ r.first = LineSoFar
               /\ Stage \notin {"short", "wrong"}
               /\ r.stage = "sized" <=> state = "BODY"
               /\ IsWord(r) <=> delimiter = SP
               /\ Width(r) = Len(delimiter)
<1> DEFINE r == Reader(need, at)
<1>1. r.stage = Stage /\ r.at = at /\ r.need = need /\ r.first = LineSoFar
    BY Fields DEF Reader
<1> HIDE DEF r
<1>2. /\ Stage \notin {"short", "wrong"} /\ (Stage = "sized" <=> state = "BODY")
      /\ Stage = "line" <=> state \in {"METHOD", "PATH", "VERSION", "CODE", "MESSAGE"}
    BY DEF Shaped, InLine, Stage
<1>3. SP # CRLF /\ SP # <<>> /\ CRLF # <<>>
    BY DelimitersDiffer
<1>4. IsWord(r) <=> delimiter = SP
    <2>1. CASE InLine("request", "METHOD", SP) /\ first = <<>>
        BY <1>1, <1>2, <1>3, <2>1 DEF InLine, IsWord, LineSoFar
    <2>2. CASE InLine("request", "PATH", SP) /\ \E a : first = <<a>>
        BY <1>1, <1>2, <1>3, <2>2 DEF InLine, IsWord, LineSoFar
    <2>3. CASE InLine("request", "VERSION", CRLF) /\ \E a, b : first = <<a, b>>
        BY <1>1, <1>2, <1>3, <2>3 DEF InLine, IsWord, LineSoFar
    <2>4. CASE InLine("response", "VERSION", SP) /\ first = <<>>
        BY <1>1, <1>2, <1>3, <2>4 DEF InLine, IsWord, LineSoFar
    <2>5. CASE InLine("response", "CODE", SP) /\ \E a : first = <<a>>
        BY <1>1, <1>2, <1>3, <2>5 DEF InLine, IsWord, LineSoFar
    <2>6. CASE InLine("response", "MESSAGE", CRLF) /\ \E a, b : first = <<a, b>>
        BY <1>1, <1>2, <1>3, <2>6 DEF InLine, IsWord, LineSoFar
    <2>7. CASE state \in {"HEADERS", "TRAILER", "CHUNK_LENGTH", "CHUNK"} /\ delimiter = CRLF
        BY <1>1, <1>2, <1>3, <2>7 DEF IsWord
    <2>8. CASE state = "BODY" /\ delimiter = <<>>
        BY <1>1, <1>2, <1>3, <2>8 DEF IsWord
    <2> QED BY <2>1, <2>2, <2>3, <2>4, <2>5, <2>6, <2>7, <2>8 DEF Shaped
<1>5. delimiter \in {SP, CRLF, <<>>} /\ (delimiter = <<>> <=> state = "BODY")
    BY <1>3 DEF Shaped, InLine
<1>6. Width(r) = Len(delimiter)
    BY <1>1, <1>2, <1>3, <1>4, <1>5, Delimiters DEF Width
<1> QED BY <1>1, <1>2, <1>4, <1>6 DEF r

\* The piece the parser found is the one the reader takes.
LEMMA PieceRead ==
    ASSUME IInv, Reckoned, Shaped, Laid, Found, NEW need \in Nat, Needs(need), Sought(need),
           NEW m \in arrived .. Len(stream)
    PROVE  Read(m, Reader(need, Place)) = Took(Reader(0, Look), Piece)
<1> DEFINE r == Reader(need, Place)
           K == Ends(m, r)
<1>1. /\ r.stage = Stage /\ r.at = Place /\ r.need = need
      /\ Stage \notin {"short", "wrong"}
      /\ r.stage = "sized" <=> state = "BODY"
      /\ IsWord(r) <=> delimiter = SP
      /\ Width(r) = Len(delimiter)
    BY ReaderEnds
<1>2. Place \in Nat /\ Look \in Nat /\ Place <= Look /\ Look <= m /\ m \in Nat
    BY Places
<1>3. body_length = 0 /\ partial_length = Len(delimiter) /\ Place + Len(delimiter) <= Look
    BY PieceIs DEF Found
<1>4. state \notin {"BODY", "CHUNK"} => need = 0
    BY DEF Needs
<1>5. delimiter \in {SP, CRLF, <<>>} /\ (delimiter = <<>> <=> state = "BODY")
      /\ (delimiter = SP => state \notin {"BODY", "CHUNK"})
    <2>1. SP # CRLF /\ SP # <<>> /\ CRLF # <<>>
        BY DelimitersDiffer
    <2>2. CASE /\ state \in {"METHOD", "PATH", "VERSION", "CODE", "MESSAGE"}
               /\ delimiter \in {SP, CRLF}
        BY <2>1, <2>2
    <2>3. CASE state \in {"HEADERS", "TRAILER", "CHUNK_LENGTH", "CHUNK"} /\ delimiter = CRLF
        BY <2>1, <2>3
    <2>4. CASE state = "BODY" /\ delimiter = <<>>
        BY <2>1, <2>4
    <2> QED BY <2>2, <2>3, <2>4 DEF Shaped, InLine
<1> HIDE DEF r
<1>6. EndsPiece(r, Look) /\ \A k \in Place .. m : EndsPiece(r, k) => Look <= k
    <2>1. CASE delimiter = <<>>
        <3>1. Place + need = Look /\ state = "BODY"
            BY <1>2, <1>3, <1>5, <2>1 DEF Needs
        <3> QED BY <1>1, <1>2, <3>1 DEF EndsPiece
    <2>2. CASE delimiter = SP
        <3>1. need = 0 /\ partial_length = 1
            BY <1>3, <1>4, <1>5, <2>2, Delimiters
        <3>2. Place < Look /\ stream[Look] = "SP"
            BY <2>2, <3>1 DEF Sought
        <3>3. \A k \in Place .. m : Place < k /\ stream[k] = "SP" => Look <= k
            BY <1>2, <2>2, <3>1 DEF Sought
        <3>4. \A k : EndsPiece(r, k) <=> Place + 0 < k /\ stream[k] = "SP"
            BY <1>1, <1>5, <2>2, <3>1, Delimiters DEF EndsPiece
        <3> QED BY <1>2, <3>2, <3>3, <3>4
    <2>3. CASE delimiter = CRLF
        <3> DEFINE b == Place + need
        <3>0. b \in Nat
            BY <1>2
        <3>1. partial_length = 2 /\ state # "BODY" /\ delimiter # SP
            BY <1>3, <1>5, <2>3, Delimiters, DelimitersDiffer, SMTT(30)
        <3>2. EndsLine(b, Look) /\ \A k \in b + 1 .. Look - 1 : ~EndsLine(b, k)
            BY <1>3, <2>3, <3>1 DEF Sought
        <3>3. \A k : EndsPiece(r, k) <=> b < k /\ EndsLine(b, k)
            BY <1>1, <3>1 DEF EndsPiece
        <3> HIDE DEF b
        <3>4. b < Look
            <4>1. OddReturns(b, Look - 1)
                BY <3>2 DEF EndsLine
            <4> QED BY <1>2, <3>0, <4>1 DEF OddReturns
        <3>5. ASSUME NEW k \in Place .. m, EndsPiece(r, k), ~(Look <= k) PROVE FALSE
            <4>1. k \in b + 1 .. Look - 1
                BY <1>2, <3>0, <3>3, <3>5
            <4> QED BY <3>2, <3>3, <3>5, <4>1
        <3> QED BY <3>2, <3>3, <3>4, <3>5
    <2> QED BY <1>5, <2>1, <2>2, <2>3
<1>7. Look \in K /\ (\A k \in K : Look <= k) /\ K \subseteq Nat
    BY <1>1, <1>2, <1>6 DEF Ends
<1> HIDE DEF K
<1>8. FirstEnd(K) = Look
    <2>1. \E e \in K : \A k \in K : e <= k
        BY <1>7
    <2>2. FirstEnd(K) \in K /\ \A k \in K : FirstEnd(K) <= k
        BY <2>1 DEF FirstEnd
    <2>3. FirstEnd(K) \in Nat /\ FirstEnd(K) <= Look /\ Look <= FirstEnd(K)
        BY <1>7, <2>2
    <2> QED BY <1>2, <2>3
<1>9. Read(m, r) = TookUpTo(r, Look)
    <2>1. K # {} /\ r.stage \notin {"short", "wrong"}
        BY <1>1, <1>7
    <2>2. Read(m, r) = IF r.stage \in {"short", "wrong"} THEN r
                       ELSE IF K = {} THEN Stopped(m, r) ELSE TookUpTo(r, FirstEnd(K))
        BY Zenon DEF Read, K
    <2> QED BY <1>8, <2>1, <2>2
<1>10. Behind(r, Look) = Reader(0, Look)
    BY Turns DEF r, Reader
<1>11. TookUpTo(r, Look) = Took(Reader(0, Look), SubSeq(stream, Place + 1, Look - Len(delimiter)))
    BY <1>1, <1>10, Zenon DEF TookUpTo
<1> QED BY <1>9, <1>11, PieceIs DEF r

\* A reader that stops where the parser is, stops there for good.
LEMMA StopsHere ==
    ASSUME IInv, Reckoned, NEW n \in Nat, NEW need, Comes(n, need), NEW r,
           Read(arrived, Reader(need, Place)) = r, r.stage \in {"short", "wrong"}
    PROVE  Contents(arrived) = r
<1>1. arrived \in arrived .. Len(stream) /\ Place \in Nat /\ Place <= arrived
    BY Places
<1>2. Reading(arrived)[n] = Reader(need, Place)
    BY <1>1 DEF Comes
<1>3. Reading(arrived)[n + 1] = r
    BY <1>2, ReadingUnfolds
<1>4. n + 1 \in Nat /\ 2 * arrived + 1 \in Nat /\ n + 1 <= 2 * arrived + 1
    BY <1>1, Numbers, SMTT(30) DEF Comes
<1>5. Reading(arrived)[2 * arrived + 1] = r
    BY <1>3, <1>4, StaysStopped
<1> QED BY <1>5 DEF Contents

\* The parser throws at a piece that is wrong for the reader too.
LEMMA ThrowFollows ==
    ASSUME IInv, Reckoned, Follows, Found, NEW what \in Throws \ {"413"}, Throw(what),
           Took(Reader(0, Look), Piece).stage = "wrong"
    PROVE  Follows'
<1>1. ~Failed /\ pc' = what
    BY DEF Found, Failed, Calling, Throw
<1>2. PICK n \in Nat, need \in Nat : Needs(need) /\ Sought(need) /\ Comes(n, need)
    BY <1>1 DEF Follows, Tracked
<1>3. arrived \in arrived .. Len(stream)
    BY Places
<1>4. Read(arrived, Reader(need, Place)) = Took(Reader(0, Look), Piece)
    BY <1>1, <1>2, <1>3, PieceRead DEF Follows
<1>5. Contents(arrived).stage = "wrong"
    BY <1>2, <1>4, StopsHere
<1>6. UNCHANGED <<kind, stream, arrived, state, delimiter, first, entities, delivered>>
    BY DEF Throw, input, entity, results
<1>7. Contents(arrived)' = Contents(arrived)
    BY <1>6, Rigid DEF Contents
<1>8. Shaped' /\ Listed'
    BY <1>6 DEF Follows, Shaped, InLine, Listed
<1>9. Failed'
    BY <1>1 DEF Failed, Calling, Throws
<1> QED BY <1>5, <1>7, <1>8, <1>9 DEF Follows, Tracked

\* The parser takes a piece as the reader does, and both are in front of the next.
LEMMA PieceFollows ==
    ASSUME IInv, Reckoned, Follows, Found, NextPiece, UNCHANGED <<kind, stream, arrived>>,
           Shaped', Listed',
           NEW nd \in Nat, body_length' = nd,
           state' \notin {"BODY", "CHUNK"} => nd = 0, state' = "BODY" => state # "BODY",
           Took(Reader(0, Look), Piece)
               = Record(Stage', LineSoFar', headers', body', nd, Look, began', delivered' \o entities')
    PROVE  Follows'
<1>0. ~Failed /\ Laid /\ Shaped
    BY DEF Found, Failed, Calling, Follows
<1>1. PICK n \in Nat, need \in Nat : Needs(need) /\ Sought(need) /\ Comes(n, need)
    BY <1>0 DEF Follows, Tracked
<1>2. /\ pc' = "loop" /\ partial_buffer' = <<>> /\ partial_length' = 0
      /\ chunk' = After(chunk, current) /\ current' = 0
    BY DEF NextPiece
<1>3. /\ Len(chunk') = Len(chunk) - current /\ Len(partial_buffer') = 0
      /\ \A k \in 1 .. Len(chunk') : chunk'[k] = chunk[current + k]
    BY <1>2, Numbers, SMTT(30) DEF After
<1>4. Place' = Look /\ Look' = Look /\ Look \in Nat /\ Place \in Nat /\ Place <= Look
    BY <1>2, <1>3, Numbers, Places, SMTT(30) DEF Place, Look
<1>5. Laid'
    <2>1. ASSUME NEW k \in 1 .. Len(chunk') PROVE chunk'[k] = stream'[arrived' - Len(chunk') + k]
        <3>1. /\ current + k \in 1 .. Len(chunk)
              /\ arrived - Len(chunk) + (current + k) = arrived' - Len(chunk') + k
            BY <1>3, Numbers, SMTT(30)
        <3>2. chunk[current + k] = stream[arrived - Len(chunk) + (current + k)]
            BY <1>0, <3>1 DEF Laid
        <3> QED BY <1>3, <3>1, <3>2
    <2> QED BY <1>3, <2>1 DEF Laid
<1>6. Needs(nd)'
    BY <1>4 DEF Needs
<1>7. Sought(nd)'
    <2>1. delimiter' = CRLF /\ body_length' = 0 => ~OddReturns(Place + nd, Look)' /\ ~EndsLine(Place + nd, Look)'
        BY <1>4 DEF OddReturns, EndsLine
    <2> QED BY <1>2, <1>4, <2>1 DEF Sought
<1>8. ASSUME NEW m \in arrived .. Len(stream)
      PROVE  Reading(m)[n + 1] = Record(Stage', LineSoFar', headers', body', nd, Look, began',
                                        delivered' \o entities')
    <2>1. Reading(m)[n] = Reader(need, Place)
        BY <1>1 DEF Comes
    <2>2. Reading(m)[n + 1] = Read(m, Reader(need, Place))
        BY <2>1, ReadingUnfolds
    <2> QED BY <1>0, <1>1, <2>2, PieceRead
<1>9. n + 1 <= 2 * Look - (IF state' = "BODY" THEN 1 ELSE 0)
    <2>1. n <= 2 * Place - (IF state = "BODY" THEN 1 ELSE 0)
        BY <1>1 DEF Comes
    <2>2. CASE state = "BODY"
        BY <1>4, <2>1, <2>2
    <2>3. CASE state # "BODY"
        <3>1. Len(delimiter) \in {1, 2}
            BY <1>0, <2>3, Delimiters DEF Shaped, InLine
        <3>2. Place + 1 <= Look
            BY <1>0, <1>4, <3>1, PieceIs
        <3> QED BY <1>4, <2>1, <2>3, <3>2
    <2> QED BY <2>2, <2>3
<1>10. Comes(n + 1, nd)'
    <2>1. \A m : Reading(m)' = Reading(m)
        BY Rigid
    <2>2. Reader(nd, Place)' = Record(Stage', LineSoFar', headers', body', nd, Look, began',
                                      delivered' \o entities')
        BY <1>4 DEF Reader
    <2> QED BY <1>4, <1>8, <1>9, <2>1, <2>2 DEF Comes
<1>11. ~Failed'
    BY <1>2 DEF Failed, Calling
<1>12. n + 1 \in Nat
    OBVIOUS
<1>13. Tracked'
    BY <1>6, <1>7, <1>10, <1>11, <1>12 DEF Tracked
<1> QED BY <1>5, <1>13 DEF Follows

-----------------------------------------------------------------------------
(* The cases of the switch                                                   *)

\* Short lines.
LEMMA Pieces ==
    \A a, b, c : /\ Append(<<>>, a) = <<a>> /\ Append(<<a>>, b) = <<a, b>>
                 /\ Append(<<a, b>>, c) = <<a, b, c>>
                 /\ Len(<<>>) + 1 = 1 /\ Len(<<a>>) + 1 = 2 /\ Len(<<a, b>>) + 1 = 3
<1> TAKE a, b, c
<1>1. <<>> \in Seq({a, b, c}) /\ <<a>> \in Seq({a, b, c}) /\ <<a, b>> \in Seq({a, b, c})
      /\ <<a, b, c>> \in Seq({a, b, c})
    OBVIOUS
<1>2. Len(<<>>) = 0 /\ Len(<<a>>) = 1 /\ Len(<<a, b>>) = 2 /\ Len(<<a, b, c>>) = 3
    OBVIOUS
<1>3. Append(<<>>, a) = <<a>>
    BY <1>1, <1>2
<1>4. Append(<<a>>, b) = <<a, b>>
    <2> DEFINE t == Append(<<a>>, b)
    <2>1. t \in Seq({a, b, c}) /\ Len(t) = 2 /\ t[1] = a /\ t[2] = b
        BY <1>1, <1>2, AppendProperties
    <2> HIDE DEF t
    <2>2. \A k \in 1 .. 2 : t[k] = <<a, b>>[k]
        BY <2>1
    <2>3. t = <<a, b>>
        BY <1>1, <1>2, <2>1, <2>2, SeqEqual
    <2> QED BY <2>3 DEF t
<1>5. Append(<<a, b>>, c) = <<a, b, c>>
    <2> DEFINE t == Append(<<a, b>>, c)
    <2>1. t \in Seq({a, b, c}) /\ Len(t) = 3 /\ t[1] = a /\ t[2] = b /\ t[3] = c
        BY <1>1, <1>2, AppendProperties
    <2> HIDE DEF t
    <2>2. \A k \in 1 .. 3 : t[k] = <<a, b, c>>[k]
        BY <2>1
    <2>3. t = <<a, b, c>>
        BY <1>1, <1>2, <2>1, <2>2, SeqEqual
    <2> QED BY <2>3 DEF t
<1> QED BY <1>2, <1>3, <1>4, <1>5

\* What the reader makes of a piece of the first line.
LEMMA TookLine ==
    ASSUME Stage = "line", NEW p, NEW n, n = Len(LineSoFar) + 1
    PROVE  IF IsPiece(n, p)
           THEN Took(Reader(0, Look), p)
                    = Record(IF Len(LineSoFar) = 2 THEN "fields" ELSE "line",
                             Append(LineSoFar, Kept(n, p)), headers, body, 0, Look, began,
                             delivered \o entities)
           ELSE Took(Reader(0, Look), p).stage = "wrong"
<1> DEFINE r == Reader(0, Look)
           line == Append(LineSoFar, Kept(n, p))
           s == IF Len(LineSoFar) = 2 THEN "fields" ELSE "line"
           e == delivered \o entities
<1>1. r.stage = "line" /\ r.first = LineSoFar
    BY Fields DEF Reader
<1>2. r = Record("line", LineSoFar, headers, body, 0, Look, began, e)
    BY DEF Reader
<1> HIDE DEF r, e
<1>3. Took(r, p) = LineRead(r, p)
    BY <1>1 DEF Took
<1>4. CASE ~IsPiece(n, p)
    <2>1. LineRead(r, p) = Wrong(r)
        BY <1>1, <1>4 DEF LineRead
    <2> QED BY <1>2, <1>3, <1>4, <2>1, Turns DEF r
<1>5. CASE IsPiece(n, p)
    <2> HIDE DEF s
    <2>1. LineRead(r, p) = Expecting([r EXCEPT !.first = Append(@, Kept(Len(@) + 1, p))], s, 0)
        BY <1>1, <1>5 DEF LineRead, s
    <2>2. [r EXCEPT !.first = Append(@, Kept(Len(@) + 1, p))] = [r EXCEPT !.first = line]
        BY <1>1
    <2> HIDE DEF line
    <2>3. [r EXCEPT !.first = line] = Record("line", line, headers, body, 0, Look, began, e)
        BY <1>2, Update
    <2>4. LineRead(r, p) = Record(s, line, headers, body, 0, Look, began, e)
        BY <2>1, <2>2, <2>3, Turns
    <2> QED BY <1>3, <1>5, <2>4 DEF r, s, line, e
<1> QED BY <1>4, <1>5

\* What the parser makes of it.
LEMMA LineFollows ==
    ASSUME IInv, Reckoned, Follows, Found, NEW line, NEW next, NEW delim,
           LinePiece(line, next, delim), Shaped', Stage = "line", next \notin {"BODY", "CHUNK"},
           NEW n, n = Len(LineSoFar) + 1, IsPiece(n, Piece),
           Stage' = IF Len(LineSoFar) = 2 THEN "fields" ELSE "line",
           LineSoFar' = Append(LineSoFar, Kept(n, Piece))
    PROVE  Follows'
<1>1. /\ NextPiece /\ state' = next
      /\ UNCHANGED <<kind, stream, arrived, body_length, headers, body, entities, delivered, began>>
    BY DEF LinePiece, input, results
<1>2. body_length' = 0
    BY <1>1 DEF Found
<1>3. Listed'
    BY <1>1 DEF Follows, Listed
<1>4. Took(Reader(0, Look), Piece)
          = Record(Stage', LineSoFar', headers', body', 0, Look, began', delivered' \o entities')
    BY <1>1, TookLine
<1> QED BY <1>1, <1>2, <1>3, <1>4, PieceFollows

\* The three pieces of a request's first line.
LEMMA MethodFollows == IInv /\ Reckoned /\ Follows /\ Method => Follows'
<1> SUFFICES ASSUME IInv, Reckoned, Follows, Method PROVE Follows'
    OBVIOUS
<1>1. Found /\ kind = "request" /\ state = "METHOD"
    BY DEF Method
<1>2. first = <<>> /\ LineSoFar = <<>> /\ Stage = "line" /\ 1 = Len(LineSoFar) + 1 /\ Len(LineSoFar) # 2
    BY <1>1, Pieces DEF Follows, Shaped, InLine, LineSoFar, Stage
<1>3. IsPiece(1, Piece) <=> Is(Piece, Methods)
    BY <1>1 DEF IsPiece
<1>4. CASE Is(Piece, Methods) /\ LinePiece(<<Piece>>, "PATH", SP)
    <2>1. UNCHANGED kind /\ state' = "PATH" /\ delimiter' = SP /\ first' = <<Piece>>
        BY <1>4 DEF LinePiece, input
    <2>2. Shaped' /\ Stage' = "line" /\ LineSoFar' = <<Piece>>
        BY <1>1, <2>1 DEF Shaped, InLine, Stage, LineSoFar
    <2>3. Append(LineSoFar, Kept(1, Piece)) = <<Piece>>
        BY <1>2, Pieces DEF Kept
    <2> QED BY <1>1, <1>2, <1>3, <1>4, <2>2, <2>3, LineFollows
<1>5. CASE ~Is(Piece, Methods) /\ Throw("501")
    <2>1. Took(Reader(0, Look), Piece).stage = "wrong"
        BY <1>2, <1>3, <1>5, TookLine
    <2> QED BY <1>1, <1>5, <2>1, ThrowFollows DEF Throws
<1> QED BY <1>4, <1>5 DEF Method

LEMMA PathFollows == IInv /\ Reckoned /\ Follows /\ Path => Follows'
<1> SUFFICES ASSUME IInv, Reckoned, Follows, Path PROVE Follows'
    OBVIOUS
<1>1. /\ Found /\ kind = "request" /\ state = "PATH"
      /\ LinePiece(Append(first, url_decode(Piece)), "VERSION", CRLF)
    BY DEF Path
<1>2. PICK a : first = <<a>>
    BY <1>1 DEF Follows, Shaped, InLine
<1>3. LineSoFar = <<a>> /\ Stage = "line" /\ 2 = Len(LineSoFar) + 1 /\ Len(LineSoFar) # 2
    BY <1>1, <1>2, Pieces DEF LineSoFar, Stage
<1>4. IsPiece(2, Piece)
    BY <1>1 DEF IsPiece
<1>5. UNCHANGED kind /\ state' = "VERSION" /\ delimiter' = CRLF /\ first' = <<a, url_decode(Piece)>>
    BY <1>1, <1>2, Pieces DEF LinePiece, input
<1>6. Shaped' /\ Stage' = "line"
    BY <1>1, <1>5 DEF Shaped, InLine, Stage
<1>7. LineSoFar' = <<a, split_path_query(url_decode(Piece))>>
    BY <1>1, <1>5 DEF LineSoFar
<1>8. Append(LineSoFar, Kept(2, Piece)) = <<a, split_path_query(url_decode(Piece))>>
    BY <1>1, <1>3, Pieces DEF Kept
<1>9. /\ Stage = "line" /\ 2 = Len(LineSoFar) + 1 /\ LineSoFar' = Append(LineSoFar, Kept(2, Piece))
      /\ Stage' = IF Len(LineSoFar) = 2 THEN "fields" ELSE "line"
    BY <1>3, <1>6, <1>7, <1>8
<1> QED BY <1>1, <1>4, <1>6, <1>9, LineFollows

LEMMA RequestVersionFollows == IInv /\ Reckoned /\ Follows /\ RequestVersion => Follows'
<1> SUFFICES ASSUME IInv, Reckoned, Follows, RequestVersion PROVE Follows'
    OBVIOUS
<1> DEFINE a == first[1]
           q == split_path_query(first[2])
<1>1. Found /\ kind = "request" /\ state = "VERSION"
    BY DEF RequestVersion
<1>2. LineSoFar = <<a, q>> /\ Stage = "line" /\ 3 = Len(LineSoFar) + 1 /\ Len(LineSoFar) = 2
    BY <1>1, Pieces DEF LineSoFar, Stage
<1>3. IsPiece(3, Piece) <=> Is(Piece, Versions)
    BY <1>1 DEF IsPiece
<1>4. CASE Is(Piece, Versions) /\ LinePiece(<<a, q, Piece>>, "HEADERS", CRLF)
    <2>1. UNCHANGED kind /\ state' = "HEADERS" /\ delimiter' = CRLF /\ first' = <<a, q, Piece>>
        BY <1>4 DEF LinePiece, input
    <2> HIDE DEF a, q
    <2>2. Shaped' /\ Stage' = "fields" /\ LineSoFar' = <<a, q, Piece>>
        BY <1>1, <2>1 DEF Shaped, Stage, LineSoFar
    <2>3. Append(LineSoFar, Kept(3, Piece)) = <<a, q, Piece>>
        BY <1>2, Pieces DEF Kept
    <2>4. /\ Stage = "line" /\ 3 = Len(LineSoFar) + 1
          /\ LineSoFar' = Append(LineSoFar, Kept(3, Piece))
          /\ Stage' = IF Len(LineSoFar) = 2 THEN "fields" ELSE "line"
        BY <1>2, <2>2, <2>3
    <2>5. PICK line : LinePiece(line, "HEADERS", CRLF)
        BY <1>4
    <2> QED BY <1>1, <1>3, <1>4, <2>2, <2>4, <2>5, LineFollows
<1>5. CASE ~Is(Piece, Versions) /\ Throw("505")
    <2> HIDE DEF a, q
    <2>1. Took(Reader(0, Look), Piece).stage = "wrong"
        BY <1>2, <1>3, <1>5, TookLine
    <2> QED BY <1>1, <1>5, <2>1, ThrowFollows DEF Throws
<1> QED BY <1>4, <1>5 DEF RequestVersion

\* The three pieces of a response's first line.
LEMMA ResponseVersionFollows == IInv /\ Reckoned /\ Follows /\ ResponseVersion => Follows'
<1> SUFFICES ASSUME IInv, Reckoned, Follows, ResponseVersion PROVE Follows'
    OBVIOUS
<1>1. Found /\ kind = "response" /\ state = "VERSION"
    BY DEF ResponseVersion
<1>2. first = <<>> /\ LineSoFar = <<>> /\ Stage = "line" /\ 1 = Len(LineSoFar) + 1 /\ Len(LineSoFar) # 2
    BY <1>1, Pieces DEF Follows, Shaped, InLine, LineSoFar, Stage
<1>3. IsPiece(1, Piece) <=> Is(Piece, Versions)
    BY <1>1 DEF IsPiece
<1>4. CASE Is(Piece, Versions) /\ LinePiece(<<Piece>>, "CODE", SP)
    <2>1. UNCHANGED kind /\ state' = "CODE" /\ delimiter' = SP /\ first' = <<Piece>>
        BY <1>4 DEF LinePiece, input
    <2>2. Shaped' /\ Stage' = "line" /\ LineSoFar' = <<Piece>>
        BY <1>1, <2>1 DEF Shaped, InLine, Stage, LineSoFar
    <2>3. Append(LineSoFar, Kept(1, Piece)) = <<Piece>>
        BY <1>2, Pieces DEF Kept
    <2> QED BY <1>1, <1>2, <1>3, <1>4, <2>2, <2>3, LineFollows
<1>5. CASE ~Is(Piece, Versions) /\ Throw("runtime_error")
    <2>1. Took(Reader(0, Look), Piece).stage = "wrong"
        BY <1>2, <1>3, <1>5, TookLine
    <2> QED BY <1>1, <1>5, <2>1, ThrowFollows DEF Throws
<1> QED BY <1>4, <1>5 DEF ResponseVersion

LEMMA CodeFollows == IInv /\ Reckoned /\ Follows /\ Code => Follows'
<1> SUFFICES ASSUME IInv, Reckoned, Follows, Code PROVE Follows'
    OBVIOUS
<1> DEFINE c == <<Stoul(Piece, 10) % MaxCode>>
<1>1. Found /\ kind = "response" /\ state = "CODE"
    BY DEF Code
<1>2. PICK a : first = <<a>>
    BY <1>1 DEF Follows, Shaped, InLine
<1>3. LineSoFar = <<a>> /\ Stage = "line" /\ 2 = Len(LineSoFar) + 1 /\ Len(LineSoFar) # 2
    BY <1>1, <1>2, Pieces DEF LineSoFar, Stage
<1>4. IsPiece(2, Piece) <=> IsNumber(Piece, 10)
    BY <1>1 DEF IsPiece
<1>5. CASE IsNumber(Piece, 10) /\ LinePiece(Append(first, c), "MESSAGE", CRLF)
    <2>0. Kept(2, Piece) = c
        BY <1>1 DEF Kept
    <2> HIDE DEF c
    <2>1. UNCHANGED kind /\ state' = "MESSAGE" /\ delimiter' = CRLF /\ first' = <<a, c>>
        BY <1>2, <1>5, Pieces DEF LinePiece, input
    <2>2. Shaped' /\ Stage' = "line" /\ LineSoFar' = <<a, c>>
        BY <1>1, <2>1 DEF Shaped, InLine, Stage, LineSoFar
    <2>3. Append(LineSoFar, Kept(2, Piece)) = <<a, c>>
        BY <1>3, <2>0, Pieces
    <2>4. /\ Stage = "line" /\ 2 = Len(LineSoFar) + 1
          /\ LineSoFar' = Append(LineSoFar, Kept(2, Piece))
          /\ Stage' = IF Len(LineSoFar) = 2 THEN "fields" ELSE "line"
        BY <1>3, <2>2, <2>3
    <2> QED BY <1>1, <1>4, <1>5, <2>2, <2>4, LineFollows
<1>6. CASE ~IsNumber(Piece, 10) /\ Throw("logic_error")
    <2>1. Took(Reader(0, Look), Piece).stage = "wrong"
        BY <1>3, <1>4, <1>6, TookLine
    <2> QED BY <1>1, <1>6, <2>1, ThrowFollows DEF Throws
<1> QED BY <1>5, <1>6 DEF Code

LEMMA MessageFollows == IInv /\ Reckoned /\ Follows /\ Message => Follows'
<1> SUFFICES ASSUME IInv, Reckoned, Follows, Message PROVE Follows'
    OBVIOUS
<1>1. Found /\ kind = "response" /\ state = "MESSAGE" /\ LinePiece(Append(first, Piece), "HEADERS", CRLF)
    BY DEF Message
<1>2. PICK a, b : first = <<a, b>>
    BY <1>1 DEF Follows, Shaped, InLine
<1>3. LineSoFar = <<a, b>> /\ Stage = "line" /\ 3 = Len(LineSoFar) + 1 /\ Len(LineSoFar) = 2
    BY <1>1, <1>2, Pieces DEF LineSoFar, Stage
<1>4. IsPiece(3, Piece)
    BY <1>1 DEF IsPiece
<1>5. UNCHANGED kind /\ state' = "HEADERS" /\ delimiter' = CRLF /\ first' = <<a, b, Piece>>
    BY <1>1, <1>2, Pieces DEF LinePiece, input
<1>6. Shaped' /\ Stage' = "fields" /\ LineSoFar' = <<a, b, Piece>>
    BY <1>1, <1>5 DEF Shaped, Stage, LineSoFar
<1>7. Append(LineSoFar, Kept(3, Piece)) = <<a, b, Piece>>
    BY <1>3, Pieces DEF Kept
<1>8. /\ Stage = "line" /\ 3 = Len(LineSoFar) + 1 /\ LineSoFar' = Append(LineSoFar, Kept(3, Piece))
      /\ Stage' = IF Len(LineSoFar) = 2 THEN "fields" ELSE "line"
    BY <1>3, <1>6, <1>7
<1> QED BY <1>1, <1>4, <1>6, <1>8, LineFollows

\* What the reader makes of the other pieces.
LEMMA TookOther ==
    ASSUME NEW p
    PROVE  LET r == Reader(0, Look)
           IN  /\ Stage \in {"fields", "trailer"} /\ p # <<>> => Took(r, p) = FieldRead(r, p)
               /\ Stage = "fields" /\ p = <<>> => Took(r, p) = HeadersRead(r)
               /\ Stage = "trailer" /\ p = <<>> => Took(r, p) = Whole(r, body)
               /\ Stage = "size" => Took(r, p) = SizeRead(r, p)
               /\ Stage = "data" =>
                    Took(r, p) = Record("size", LineSoFar, headers, body \o p, 0, Look, began,
                                        delivered \o entities)
               /\ Stage = "sized" => Took(r, p) = Whole(r, p)
<1> DEFINE r == Reader(0, Look)
           b == body \o p
           e == delivered \o entities
<1>1. r.stage = Stage /\ r.body = body
    BY Fields DEF Reader
<1>2. r = Record(Stage, LineSoFar, headers, body, 0, Look, began, e)
    BY DEF Reader
<1> HIDE DEF r, e
<1>3. CASE Stage \in {"fields", "trailer"} /\ p # <<>>
    BY <1>1, <1>3 DEF Took, r
<1>4. CASE Stage \in {"fields", "trailer"} /\ p = <<>>
    BY <1>1, <1>4 DEF Took, r
<1>5. CASE Stage \in {"size", "sized"}
    BY <1>1, <1>5 DEF Took, r
<1>6. CASE Stage = "data"
    <2>1. Took(r, p) = Expecting([r EXCEPT !.body = @ \o p], "size", 0)
        BY <1>1, <1>6 DEF Took
    <2>2. [r EXCEPT !.body = @ \o p] = [r EXCEPT !.body = b]
        BY <1>1
    <2> HIDE DEF b
    <2>3. [r EXCEPT !.body = b] = Record(Stage, LineSoFar, headers, b, 0, Look, began, e)
        BY <1>2, Update
    <2>4. Took(r, p) = Record("size", LineSoFar, headers, b, 0, Look, began, e)
        BY <2>1, <2>2, <2>3, Turns
    <2> QED BY <1>6, <2>4 DEF r, e, b
<1> QED BY <1>3, <1>4, <1>5, <1>6

\* Entities that are appended to those of this call are appended to all.
LEMMA AppendedTo ==
    ASSUME NEW S, NEW d \in Seq(S), NEW t \in Seq(S), NEW x
    PROVE  /\ Append(d \o t, x) = d \o Append(t, x)
           /\ d \in Seq(S \cup {x}) /\ Append(t, x) \in Seq(S \cup {x})
<1> DEFINE T == S \cup {x}
<1>1. d \in Seq(T) /\ t \in Seq(T) /\ x \in T
    OBVIOUS
<1> HIDE DEF T
<1>2. d \o t \in Seq(T) /\ Append(t, x) \in Seq(T) /\ Len(Append(t, x)) = Len(t) + 1
    BY <1>1
<1>3. /\ Append(d \o t, x) \in Seq(T) /\ d \o Append(t, x) \in Seq(T)
      /\ Len(d \o t) = Len(d) + Len(t) /\ Len(Append(d \o t, x)) = Len(d) + Len(t) + 1
      /\ Len(d \o Append(t, x)) = Len(d) + Len(t) + 1
    BY <1>1, <1>2
<1>4. ASSUME NEW k \in 1 .. Len(d) + Len(t) + 1
      PROVE  Append(d \o t, x)[k] = (d \o Append(t, x))[k]
    <2>1. CASE k <= Len(d)
        BY <1>1, <1>2, <1>3, <2>1
    <2>2. CASE k > Len(d) /\ k <= Len(d) + Len(t)
        <3>1. Append(d \o t, x)[k] = t[k - Len(d)] /\ k - Len(d) \in 1 .. Len(t)
            BY <1>1, <1>2, <1>3, <2>2
        <3>2. (d \o Append(t, x))[k] = Append(t, x)[k - Len(d)]
            BY <1>1, <1>2, <1>3, <2>2
        <3> QED BY <1>1, <3>1, <3>2
    <2>3. CASE k = Len(d) + Len(t) + 1
        <3>1. Append(d \o t, x)[k] = x
            BY <1>1, <1>2, <1>3, <2>3
        <3>2. (d \o Append(t, x))[k] = Append(t, x)[k - Len(d)] /\ k - Len(d) = Len(t) + 1
            BY <1>1, <1>2, <1>3, <2>3
        <3> QED BY <1>1, <3>1, <3>2
    <2>4. Len(d) \in Nat /\ Len(t) \in Nat /\ k \in Nat
        BY <1>1
    <2> QED BY <2>1, <2>2, <2>3, <2>4
<1>5. Append(d \o t, x) = d \o Append(t, x)
    BY <1>3, <1>4, SeqEqual
<1> QED BY <1>1, <1>2, <1>5 DEF T

\* An entity is complete for the parser where it is for the reader.
LEMMA EmitFollows ==
    ASSUME IInv, Reckoned, Follows, Found, NEW b, Emit(b), Stage # "line",
           Took(Reader(0, Look), Piece) = Whole(Reader(0, Look), b)
    PROVE  Follows'
<1> DEFINE x == [first |-> first, headers |-> headers, body |-> b]
<1>1. /\ NextPiece /\ UNCHANGED <<kind, stream, arrived, delivered>>
      /\ entities' = Append(entities, x)
      /\ state' = IF kind = "request" THEN "METHOD" ELSE "VERSION"
      /\ delimiter' = SP /\ first' = <<>> /\ headers' = NoHeaders /\ body' = <<>>
      /\ body_length' = 0 /\ began' = arrived - Len(chunk')
    BY DEF Emit, input
<1>2. kind \in {"request", "response"}
    BY DEF Follows, Shaped
<1>3. LineSoFar = first
    <2>1. state = "VERSION" => Stage = "line"
        BY DEF Stage
    <2> QED BY <2>1 DEF LineSoFar
<1>4. Whole(Reader(0, Look), b)
          = Record("line", <<>>, NoHeaders, <<>>, 0, Look, Look, Append(delivered \o entities, x))
    BY <1>3, Turns DEF Reader
<1> HIDE DEF x
<1>5. PICK S : entities \in Seq(S) /\ delivered \in Seq(S)
    BY DEF Follows, Listed
<1>6. /\ Append(delivered \o entities, x) = delivered' \o entities'
      /\ delivered' \in Seq(S \cup {x}) /\ entities' \in Seq(S \cup {x})
    <2>1. /\ Append(delivered \o entities, x) = delivered \o Append(entities, x)
          /\ delivered \in Seq(S \cup {x}) /\ Append(entities, x) \in Seq(S \cup {x})
        BY <1>5, AppendedTo, Zenon
    <2> QED BY <1>1, <2>1, Zenon
<1>7. Listed'
    BY <1>6 DEF Listed
<1>8. Shaped' /\ Stage' = "line" /\ LineSoFar' = <<>>
    BY <1>1, <1>2 DEF Shaped, InLine, Stage, LineSoFar
<1>9. began' = Look
    <2>1. Len(chunk') = Len(chunk) - current
        BY <1>1, Numbers DEF NextPiece, After
    <2> QED BY <1>1, <2>1, Numbers DEF Look
<1>10. Took(Reader(0, Look), Piece)
           = Record(Stage', LineSoFar', headers', body', 0, Look, began', delivered' \o entities')
    BY <1>1, <1>4, <1>6, <1>8, <1>9
<1>11. state' # "BODY"
    BY <1>1
<1> QED BY <1>1, <1>7, <1>8, <1>10, <1>11, PieceFollows

\* A field of the headers or the trailer.
LEMMA HeaderFollows == IInv /\ Reckoned /\ Follows /\ Header => Follows'
<1> SUFFICES ASSUME IInv, Reckoned, Follows, Header PROVE Follows'
    OBVIOUS
<1> DEFINE r == Reader(0, Look)
           e == delivered \o entities
<1>1. Found /\ state \in {"HEADERS", "TRAILER"} /\ Piece # <<>>
    BY DEF Header
<1>2. Stage \in {"fields", "trailer"} /\ LineSoFar = first
    BY <1>1 DEF Stage, LineSoFar
<1>3. Took(r, Piece) = FieldRead(r, Piece)
    BY <1>1, <1>2, TookOther
<1>4. r.headers = headers
    BY Fields DEF Reader
<1>5. r = Record(Stage, first, headers, body, 0, Look, began, e)
    BY <1>2 DEF Reader
<1> HIDE DEF r, e
<1>6. CASE ~HasColon(Piece) /\ Throw(Bad)
    <2>1. Bad \in Throws \ {"413"}
        BY DEF Bad, Throws
    <2>2. FieldRead(r, Piece) = Wrong(r)
        BY <1>6 DEF FieldRead
    <2>3. Took(r, Piece).stage = "wrong"
        BY <1>3, <1>5, <2>2, Turns
    <2> QED BY <1>1, <1>6, <2>1, <2>3, ThrowFollows DEF r
<1>7. CASE /\ HasColon(Piece) /\ NextPiece /\ headers' = Inserted(Piece)
           /\ UNCHANGED <<input, body_length, state, delimiter, first, body, results>>
    <2>1. UNCHANGED <<kind, stream, arrived, body_length, state, delimiter, first, body,
                      entities, delivered, began>>
        BY <1>7 DEF input, results
    <2>2. FieldRead(r, Piece) = [r EXCEPT !.headers = With(@, Piece)]
        BY <1>7 DEF FieldRead
    <2>3. With(headers, Piece) = Inserted(Piece)
        BY DEF With, Inserted
    <2>4. [r EXCEPT !.headers = With(@, Piece)] = [r EXCEPT !.headers = headers']
        BY <1>4, <1>7, <2>3
    <2>5. [r EXCEPT !.headers = headers'] = Record(Stage, first, headers', body, 0, Look, began, e)
        BY <1>5, Update
    <2>6. Stage' = Stage /\ LineSoFar' = first' /\ e = delivered' \o entities'
        BY <1>1, <2>1 DEF Stage, LineSoFar, e
    <2>7. Took(r, Piece) = Record(Stage', LineSoFar', headers', body', 0, Look, began', delivered' \o entities')
        BY <1>3, <2>1, <2>2, <2>4, <2>5, <2>6
    <2>8. Shaped' /\ Listed'
        BY <2>1 DEF Follows, Shaped, InLine, Listed
    <2>9. body_length' = 0 /\ state' \notin {"BODY", "CHUNK"}
        BY <1>1, <2>1 DEF Found
    <2> QED BY <1>1, <1>7, <2>1, <2>7, <2>8, <2>9, PieceFollows DEF r
<1> QED BY <1>6, <1>7 DEF Header

\* What a piece leads to that says how much of the next one is to come.
LEMMA ExpectFollows ==
    ASSUME IInv, Reckoned, Follows, Found, NEW next \in {"BODY", "CHUNK_LENGTH", "CHUNK", "TRAILER"},
           NEW delim, delim = (IF next = "BODY" THEN <<>> ELSE CRLF), NEW n \in Nat,
           Expect(next, delim, n), next \notin {"BODY", "CHUNK"} => n = 0,
           NEW stage, state \in {"HEADERS", "CHUNK_LENGTH"},
           stage = (CASE next = "BODY" -> "sized" [] next = "CHUNK_LENGTH" -> "size"
                      [] next = "CHUNK" -> "data" [] next = "TRAILER" -> "trailer"),
           Took(Reader(0, Look), Piece) = Expecting(Reader(0, Look), stage, n)
    PROVE  Follows'
<1>1. /\ NextPiece /\ state' = next /\ delimiter' = delim /\ body_length' = n
      /\ UNCHANGED <<kind, stream, arrived, first, headers, body, entities, delivered, began>>
    BY DEF Expect, input, results
<1>2. LineSoFar = first
    BY DEF LineSoFar
<1>3. Stage' = stage /\ LineSoFar' = first
    BY <1>1 DEF Stage, LineSoFar
<1>4. Took(Reader(0, Look), Piece)
          = Record(stage, first, headers, body, n, Look, began, delivered \o entities)
    BY <1>2, Turns DEF Reader
<1>5. Took(Reader(0, Look), Piece)
          = Record(Stage', LineSoFar', headers', body', n, Look, began', delivered' \o entities')
    BY <1>1, <1>3, <1>4
<1>6. Shaped' /\ Listed'
    BY <1>1 DEF Follows, Shaped, InLine, Listed
<1> QED BY <1>1, <1>5, <1>6, PieceFollows

\* The blank line behind the headers.
LEMMA BlankLineFollows == IInv /\ Reckoned /\ Follows /\ BlankLine => Follows'
<1> SUFFICES ASSUME IInv, Reckoned, Follows, BlankLine PROVE Follows'
    OBVIOUS
<1> DEFINE r == Reader(0, Look)
           length == headers["Content-Length:"]
           encoding == headers["Transfer-Encoding:"]
<1>1. Found /\ state = "HEADERS" /\ Piece = <<>>
    BY DEF BlankLine
<1>2. Stage = "fields"
    BY <1>1 DEF Stage
<1>3. Took(r, Piece) = HeadersRead(r)
    BY <1>1, <1>2, TookOther
<1>4. r.headers = headers /\ r.body = body
    BY Fields DEF Reader
<1>5. HeadersRead(r) = IF length # None
                       THEN IF IsNumber(length, 10) THEN Expecting(r, "sized", Stoul(length, 10))
                            ELSE Wrong(r)
                       ELSE IF encoding = <<"chunked">> THEN Expecting(r, "size", 0)
                       ELSE Whole(r, body)
    <2> HIDE DEF r
    <2> QED BY <1>4 DEF HeadersRead
<1>6. CASE /\ length # None /\ IsNumber(length, 10)
           /\ Expect("BODY", BodyDelimiter, Stoul(length, 10))
    <2>1. Stoul(length, 10) \in Nat
        BY <1>6, HttpAssumption DEF IsNumber
    <2>2. Took(r, Piece) = Expecting(r, "sized", Stoul(length, 10))
        <3> HIDE DEF r
        <3> QED BY <1>3, <1>5, <1>6
    <2> HIDE DEF length
    <2> QED BY <1>1, <1>6, <2>1, <2>2, ExpectFollows DEF BodyDelimiter
<1>7. CASE /\ length # None /\ ~IsNumber(length, 10)
           /\ Throw(IF kind = "request" THEN "400" ELSE "logic_error")
    <2>1. (IF kind = "request" THEN "400" ELSE "logic_error") \in Throws \ {"413"}
        BY DEF Throws
    <2>2. Took(r, Piece) = Wrong(r)
        <3> HIDE DEF r
        <3> QED BY <1>3, <1>5, <1>7
    <2>3. Took(r, Piece).stage = "wrong"
        BY <2>2, Turns DEF Reader
    <2> QED BY <1>1, <1>7, <2>1, <2>3, ThrowFollows
<1>8. CASE length = None /\ encoding = <<"chunked">> /\ Expect("CHUNK_LENGTH", CRLF, 0)
    <2>1. Took(r, Piece) = Expecting(r, "size", 0)
        <3> HIDE DEF r
        <3> QED BY <1>3, <1>5, <1>8
    <2> QED BY <1>1, <1>8, <2>1, ExpectFollows
<1>9. CASE length = None /\ encoding # <<"chunked">> /\ Emit(body)
    <2>1. Took(r, Piece) = Whole(r, body)
        <3> HIDE DEF r
        <3> QED BY <1>3, <1>5, <1>9
    <2> QED BY <1>1, <1>2, <1>9, <2>1, EmitFollows
<1> QED BY <1>6, <1>7, <1>8, <1>9 DEF BlankLine

\* The ends of a body and of a trailer.
LEMMA EndFollows == IInv /\ Reckoned /\ Follows /\ (EndOfTrailer \/ Body) => Follows'
<1> SUFFICES ASSUME IInv, Reckoned, Follows, EndOfTrailer \/ Body PROVE Follows'
    OBVIOUS
<1>1. CASE EndOfTrailer
    <2>1. Found /\ state = "TRAILER" /\ Piece = <<>> /\ Emit(body)
        BY <1>1 DEF EndOfTrailer
    <2>2. Stage = "trailer"
        BY <2>1 DEF Stage
    <2>3. Took(Reader(0, Look), Piece) = Whole(Reader(0, Look), body)
        BY <2>1, <2>2, TookOther
    <2> QED BY <2>1, <2>2, <2>3, EmitFollows
<1>2. CASE Body
    <2>1. Found /\ state = "BODY" /\ Emit(Piece)
        BY <1>2 DEF Body
    <2>2. Stage = "sized"
        BY <2>1 DEF Stage
    <2>3. Took(Reader(0, Look), Piece) = Whole(Reader(0, Look), Piece)
        BY <2>2, TookOther
    <2> QED BY <2>1, <2>2, <2>3, EmitFollows
<1> QED BY <1>1, <1>2

\* The size of a chunk.
LEMMA ChunkLengthFollows == IInv /\ Reckoned /\ Follows /\ ChunkLength => Follows'
<1> SUFFICES ASSUME IInv, Reckoned, Follows, ChunkLength PROVE Follows'
    OBVIOUS
<1> DEFINE r == Reader(0, Look)
           n == Stoul(Piece, 16)
<1>1. Found /\ state = "CHUNK_LENGTH"
    BY DEF ChunkLength
<1>2. Stage = "size"
    BY <1>1 DEF Stage
<1>3. Took(r, Piece) = SizeRead(r, Piece)
    BY <1>2, TookOther
<1>4. CASE ~IsNumber(Piece, 16) /\ Throw(Bad)
    <2>1. Bad \in Throws \ {"413"}
        BY DEF Bad, Throws
    <2>2. Took(r, Piece) = Wrong(r)
        BY <1>3, <1>4 DEF SizeRead
    <2>3. Took(r, Piece).stage = "wrong"
        BY <2>2, Turns DEF Reader
    <2> QED BY <1>1, <1>4, <2>1, <2>3, ThrowFollows
<1>5. CASE IsNumber(Piece, 16) /\ Expect(IF n > 0 THEN "CHUNK" ELSE "TRAILER", CRLF, n)
    <2>1. n \in Nat
        BY <1>5, HttpAssumption DEF IsNumber
    <2>2. Took(r, Piece) = Expecting(r, IF n > 0 THEN "data" ELSE "trailer", n)
        <3> HIDE DEF r
        <3> QED BY <1>3, <1>5 DEF SizeRead
    <2> HIDE DEF n
    <2>3. CASE n > 0
        <3>1. Expect("CHUNK", CRLF, n) /\ Took(r, Piece) = Expecting(r, "data", n)
            BY <1>5, <2>2, <2>3
        <3> QED BY <1>1, <2>1, <3>1, ExpectFollows
    <2>4. CASE ~(n > 0)
        <3>1. Expect("TRAILER", CRLF, n) /\ Took(r, Piece) = Expecting(r, "trailer", n) /\ n = 0
            BY <1>5, <2>1, <2>2, <2>4
        <3> QED BY <1>1, <2>1, <3>1, ExpectFollows
    <2> QED BY <2>3, <2>4
<1> QED BY <1>4, <1>5 DEF ChunkLength

\* The data of a chunk.
LEMMA ChunkFollows == IInv /\ Reckoned /\ Follows /\ Chunk => Follows'
<1> SUFFICES ASSUME IInv, Reckoned, Follows, Chunk PROVE Follows'
    OBVIOUS
<1>1. /\ Found /\ state = "CHUNK" /\ NextPiece
      /\ body' = body \o Piece /\ state' = "CHUNK_LENGTH"
      /\ UNCHANGED <<kind, stream, arrived, body_length, delimiter, first, headers, entities,
                     delivered, began>>
    BY DEF Chunk, input, results
<1>2. Stage = "data" /\ LineSoFar = first
    BY <1>1 DEF Stage, LineSoFar
<1>3. Stage' = "size" /\ LineSoFar' = first'
    BY <1>1 DEF Stage, LineSoFar
<1>4. Took(Reader(0, Look), Piece)
          = Record("size", LineSoFar, headers, body \o Piece, 0, Look, began, delivered \o entities)
    BY <1>2, TookOther
<1>5. Took(Reader(0, Look), Piece)
          = Record(Stage', LineSoFar', headers', body', 0, Look, began', delivered' \o entities')
    BY <1>1, <1>2, <1>3, <1>4
<1>6. Shaped' /\ Listed'
    BY <1>1 DEF Follows, Shaped, InLine, Listed
<1>7. body_length' = 0
    BY <1>1 DEF Found
<1> QED BY <1>1, <1>5, <1>6, <1>7, PieceFollows

-----------------------------------------------------------------------------
(* consume_until                                                             *)

\* Between two calls the piece is not complete, nor too long to become so, and all
\* entities are returned.
AtRest ==
    pc = "rest" => /\ partial_length < Len(delimiter) \/ body_length > 0
                   /\ kind = "request" => ~Overlong(partial_buffer)
                   /\ entities = <<>>

\* What the invariant says of a state that looks for its piece in the same place.
LEMMA SoughtThen ==
    ASSUME UNCHANGED <<stream, delimiter>>, NEW need, Place' = Place,
           delimiter = SP =>
             /\ partial_length' = 1 => Place < Look' /\ stream[Look'] = "SP"
             /\ \A k \in Place + 1 .. Look' : stream[k] = "SP" => k = Look' /\ partial_length' = 1,
           delimiter = CRLF /\ body_length' = 0 =>
             /\ partial_length' = 1 <=> OddReturns(Place + need, Look')
             /\ partial_length' = 2 <=> EndsLine(Place + need, Look')
             /\ \A k \in Place + need + 1 .. Look' - 1 : ~EndsLine(Place + need, k)
    PROVE  Sought(need)'
<1>1. ASSUME NEW b, NEW k PROVE EndsLine(b, k)' = EndsLine(b, k) /\ OddReturns(b, k)' = OddReturns(b, k)
    BY DEF EndsLine, OddReturns
<1> DEFINE l == Look'
           p == Place'
<1>2. /\ OddReturns(Place + need, Look)' <=> OddReturns(Place + need, Look')
      /\ EndsLine(Place + need, Look)' <=> EndsLine(Place + need, Look')
    BY DEF EndsLine, OddReturns
<1>3. \A k : EndsLine(Place + need, k)' <=> EndsLine(Place + need, k)
    BY DEF EndsLine, OddReturns
<1> QED BY <1>2, <1>3 DEF Sought

\* Nothing but the reader's place matters to what it reads next.
LEMMA ReaderSame ==
    ASSUME UNCHANGED <<kind, state, first, headers, body, began>>,
           delivered' \o entities' = delivered \o entities, Place' = Place, NEW need
    PROVE  Reader(need, Place)' = Reader(need, Place)
<1>1. Stage' = Stage /\ LineSoFar' = LineSoFar
    BY DEF Stage, LineSoFar
<1> QED BY <1>1 DEF Reader

\* The reader still comes to the parser when more has arrived.
LEMMA ComesSame ==
    ASSUME UNCHANGED <<kind, stream, state>>, Place' = Place, NEW n, NEW need, Comes(n, need),
           Reader(need, Place)' = Reader(need, Place), arrived \in Nat, arrived' \in Nat,
           arrived <= arrived', Len(stream) \in Nat
    PROVE  Comes(n, need)'
<1>1. \A m : Reading(m)' = Reading(m)
    BY Rigid
<1>2. \A m \in arrived' .. Len(stream) : m \in arrived .. Len(stream)
    OBVIOUS
<1> QED BY <1>1, <1>2 DEF Comes

\* No body is to come in front of a word.
LEMMA WordsAreNotCounted ==
    ASSUME IInv, Reckoned, Shaped, NEW need \in Nat, Needs(need), delimiter = SP
    PROVE  body_length = 0 /\ need = 0
<1>1. state \notin {"BODY", "CHUNK"}
    <2>1. SP # CRLF /\ SP # <<>>
        BY Zenon DEF SP, CRLF
    <2> QED BY <2>1 DEF Shaped, InLine
<1>2. need = 0
    BY <1>1 DEF Needs
<1> QED BY <1>2, Places, Numbers DEF Needs

\* A new piece, of which a part may be counted.
LEMMA StartPieceFollows == IInv /\ Reckoned /\ Follows /\ StartPiece => Follows'
<1> SUFFICES ASSUME IInv, Reckoned, Follows, StartPiece PROVE Follows'
    OBVIOUS
<1>1. /\ pc = "loop" /\ current = 0
      /\ UNCHANGED <<kind, stream, arrived, partial_buffer, partial_length, chunk, state,
                     delimiter, first, headers, body, entities, delivered, began>>
    BY DEF StartPiece, input, entity, results, IInv, AtStart
<1>2. Shaped' /\ Listed'
    BY <1>1 DEF Follows, Shaped, InLine, Listed
<1>3. Shaped /\ Laid /\ ~Failed
    BY <1>1 DEF Follows, Failed, Calling
<1>4. CASE pc' = "413"
    <2>1. Failed'
        BY <1>4 DEF Failed, Calling
    <2> QED BY <1>2, <1>4, <2>1 DEF Follows, Tracked
<1>5. CASE pc' = "match" /\ current' = Counted /\ body_length' = body_length - Counted
    <2>1. /\ Counted \in Nat /\ Counted <= body_length /\ body_length' \in Nat
          /\ body_length' <= body_length /\ body_length' + Counted = body_length
        <3>1. body_length \in Nat /\ Len(chunk) \in Nat
            BY Numbers
        <3>2. CASE Len(chunk) > body_length
            BY <1>5, <3>1, <3>2 DEF Counted
        <3>3. CASE ~(Len(chunk) > body_length)
            BY <1>5, <3>1, <3>3 DEF Counted
        <3> QED BY <3>2, <3>3
    <2>2. PICK n \in Nat, need \in Nat : Needs(need) /\ Sought(need) /\ Comes(n, need)
        BY <1>3 DEF Follows, Tracked
    <2>3. /\ Place' = Place /\ Look' = Look + Counted /\ Place \in Nat /\ Look \in Nat
          /\ Place <= Look
        BY <1>1, <1>5, <2>1, Numbers, Places, SMTT(30) DEF Place, Look
    <2>4. Needs(need)'
        <3>1. body_length \in Nat
            BY Numbers
        <3>2. state' \notin {"BODY", "CHUNK"} => need = 0
            BY <1>1, <2>2 DEF Needs
        <3>3. CASE body_length > 0 \/ state = "BODY"
            <4>1. Place' + need = body_length' + Look'
                <5>1. Place + need = body_length + Look
                    BY <2>2, <3>3 DEF Needs
                <5>2. Look \in Nat
                    BY <2>3
                <5>3. body_length + Look = body_length' + (Look + Counted)
                    BY <2>1, <5>2
                <5> QED BY <2>3, <5>1, <5>3, Zenon
            <4>2. Place' + need <= Look' \/ body_length' > 0
                <5>1. PICK l \in Nat : Look' = l
                    BY <2>1, <2>3
                <5>2. body_length' + l <= l \/ body_length' > 0
                    <6>1. \A x, y \in Nat : x + y <= y \/ x > 0
                        OBVIOUS
                    <6> QED BY <2>1, <6>1
                <5> QED BY <4>1, <5>1, <5>2, Zenon
            <4> QED BY <3>2, <4>1, <4>2 DEF Needs
        <3>4. CASE ~(body_length > 0 \/ state = "BODY")
            <4>1. Place + need <= Look /\ Counted = 0 /\ ~(body_length' > 0)
                BY <2>1, <2>2, <3>1, <3>4 DEF Needs
            <4>2. Place' + need <= Look' /\ state' # "BODY"
                BY <1>1, <2>3, <3>4, <4>1
            <4> QED BY <3>2, <4>1, <4>2 DEF Needs
        <3> QED BY <3>3, <3>4
    <2>5. Sought(need)'
        <3>1. CASE delimiter = SP
            <4>1. Look' = Look
                BY <1>3, <2>1, <2>2, <2>3, <3>1, WordsAreNotCounted
            <4>2. delimiter # CRLF
                BY <3>1, Delimiters
            <4> QED BY <1>1, <2>2, <2>3, <3>1, <4>1, <4>2, SoughtThen DEF Sought
        <3>2. CASE delimiter = CRLF /\ body_length = 0
            <4>1. Look' = Look /\ body_length' = body_length
                BY <2>1, <2>3, <3>2
            <4>2. delimiter # SP
                BY <3>2, Delimiters
            <4> QED BY <1>1, <2>2, <2>3, <3>2, <4>1, <4>2, SoughtThen DEF Sought
        <3>3. CASE delimiter = CRLF /\ body_length > 0
            <4>1. partial_length = 0
                BY <3>3 DEF IInv, BodyFirst
            <4>2. ASSUME body_length' = 0 PROVE Place + need = Look'
                BY <2>1, <2>2, <2>3, <3>3, <4>2 DEF Needs
            <4>3. ~OddReturns(Look', Look') /\ ~EndsLine(Look', Look')
                BY <2>1, <2>3, NoReturns DEF OddReturns, EndsLine
            <4>4. delimiter # SP
                BY <3>3, Delimiters
            <4> QED BY <1>1, <2>1, <2>3, <4>1, <4>2, <4>3, <4>4, SoughtThen
        <3>4. CASE delimiter = <<>>
            <4>1. delimiter # SP /\ delimiter # CRLF
                BY <3>4, Delimiters
            <4> QED BY <1>1, <2>3, <4>1, SoughtThen
        <3>5. delimiter \in {SP, CRLF, <<>>} /\ (body_length = 0 \/ body_length > 0)
            BY Numbers DEF IInv, Types
        <3> QED BY <3>1, <3>2, <3>3, <3>4, <3>5
    <2>6. Comes(n, need)'
        <3>1. Reader(need, Place)' = Reader(need, Place)
            BY <1>1, <2>3, ReaderSame
        <3> QED BY <1>1, <2>2, <2>3, <3>1, ComesSame, Numbers
    <2>7. ~Failed'
        BY <1>5 DEF Failed, Calling
    <2>8. Tracked'
        BY <2>4, <2>5, <2>6, <2>7 DEF Tracked
    <2>9. Laid'
        BY <1>1, <1>3, <2>3 DEF Laid
    <2> QED BY <1>2, <2>8, <2>9 DEF Follows
<1> QED BY <1>4, <1>5 DEF StartPiece

\* One more symbol: what has been found of the delimiter is what the reader finds.
LEMMA MatchFollows == IInv /\ Reckoned /\ Follows /\ Match => Follows'
<1> SUFFICES ASSUME IInv, Reckoned, Follows, Match PROVE Follows'
    OBVIOUS
<1> DEFINE c == chunk[current + 1]
<1>1. /\ pc = "match" /\ pc' = "match" /\ partial_length < Len(delimiter) /\ current < Len(chunk)
      /\ partial_length' = Matched(c) /\ current' = current + 1
      /\ UNCHANGED <<kind, stream, arrived, partial_buffer, body_length, chunk, state,
                     delimiter, first, headers, body, entities, delivered, began>>
    BY DEF Match, input, entity, results
<1>2. Shaped' /\ Listed'
    BY <1>1 DEF Follows, Shaped, InLine, Listed
<1>3. Shaped /\ Laid /\ ~Failed /\ ~Failed'
    BY <1>1 DEF Follows, Failed, Calling
<1>4. body_length = 0
    BY <1>1, Numbers DEF IInv, BodyFirst
<1>5. PICK n \in Nat, need \in Nat : Needs(need) /\ Sought(need) /\ Comes(n, need)
    BY <1>3 DEF Follows, Tracked
<1>6. Place' = Place /\ Look' = Look + 1 /\ Place \in Nat /\ Look \in Nat /\ Place <= Look
    BY <1>1, Numbers, Places, SMTT(30) DEF Place, Look
<1>7. c = stream[Look + 1]
    <2>1. current + 1 \in 1 .. Len(chunk) /\ arrived - Len(chunk) + (current + 1) = Look + 1
        <3>1. current \in Nat /\ Len(chunk) \in Nat /\ arrived \in Nat
            BY Numbers
        <3> QED BY <1>1, <3>1 DEF Look
    <2>2. chunk[current + 1] = stream[arrived - Len(chunk) + (current + 1)]
        BY <1>3, <2>1 DEF Laid
    <2> QED BY <2>1, <2>2
<1>8. delimiter # <<>> /\ state # "BODY" /\ partial_length \in Nat
    BY <1>1, <1>3, Delimiters DEF Shaped, InLine, IInv, Types
<1> HIDE DEF c
<1>9. Needs(need)'
    BY <1>1, <1>4, <1>5, <1>6, <1>8 DEF Needs
<1>10. Sought(need)'
    <2>1. CASE delimiter = SP
        <3>1. partial_length = 0 /\ delimiter[1] = "SP" /\ delimiter # CRLF
            BY <1>1, <1>8, <2>1, Delimiters DEF SP, CRLF
        <3>2. partial_length' = IF c = "SP" THEN 1 ELSE 0
            BY <1>1, <3>1 DEF Matched
        <3>3. \A k \in Place + 1 .. Look : stream[k] # "SP"
            BY <1>5, <2>1, <3>1 DEF Sought
        <3>4. \A k \in Place + 1 .. Look + 1 : k \in Place + 1 .. Look \/ k = Look + 1
            BY <1>6
        <3>5. /\ partial_length' = 1 => Place < Look' /\ stream[Look'] = "SP"
              /\ \A k \in Place + 1 .. Look' : stream[k] = "SP" => k = Look' /\ partial_length' = 1
            BY <1>6, <1>7, <3>2, <3>3, <3>4
        <3> QED BY <1>1, <1>6, <3>1, <3>5, SoughtThen
    <2>2. CASE delimiter = CRLF
        <3> DEFINE b == Place + need
        <3>1. /\ partial_length \in {0, 1} /\ delimiter[1] = "CR" /\ delimiter[2] = "LF"
              /\ delimiter # SP
            BY <1>1, <1>8, <2>2, Delimiters DEF SP, CRLF
        <3>2. /\ partial_length = 1 <=> OddReturns(b, Look)
              /\ partial_length = 2 <=> EndsLine(b, Look)
              /\ \A k \in b + 1 .. Look - 1 : ~EndsLine(b, k)
            BY <1>4, <1>5, <2>2 DEF Sought
        <3>3. b \in Nat /\ b <= Look
            BY <1>4, <1>5, <1>6, <1>8 DEF Needs
        <3> HIDE DEF b
        <3>4. OddReturns(b, Look + 1) <=> c = "CR" /\ partial_length # 1
            BY <1>6, <1>7, <3>2, <3>3, NextReturn
        <3>5. EndsLine(b, Look + 1) <=> c = "LF" /\ partial_length = 1
            <4>1. (Look + 1) - 1 = Look
                BY <1>6
            <4> QED BY <1>7, <3>2, <4>1 DEF EndsLine
        <3>6. /\ partial_length' = 1 <=> c = "CR" /\ partial_length # 1
              /\ partial_length' = 2 <=> c = "LF" /\ partial_length = 1
            <4>1. CASE partial_length = 0
                BY <1>1, <3>1, <4>1 DEF Matched
            <4>2. CASE partial_length = 1
                BY <1>1, <3>1, <4>2 DEF Matched
            <4> QED BY <3>1, <4>1, <4>2
        <3>7. ~EndsLine(b, Look)
            BY <3>1, <3>2
        <3>8. \A k \in b + 1 .. Look' - 1 : k \in b + 1 .. Look - 1 \/ k = Look
            BY <1>6, <3>3
        <3>9. \A k \in b + 1 .. Look' - 1 : ~EndsLine(b, k)
            BY <3>2, <3>7, <3>8
        <3>10. /\ partial_length' = 1 <=> OddReturns(b, Look')
               /\ partial_length' = 2 <=> EndsLine(b, Look')
            BY <1>6, <3>4, <3>5, <3>6
        <3> QED BY <1>1, <1>6, <3>1, <3>9, <3>10, SoughtThen DEF b
    <2>3. delimiter \in {SP, CRLF}
        BY <1>8 DEF IInv, Types
    <2> QED BY <2>1, <2>2, <2>3
<1>11. Comes(n, need)'
    <2>1. Reader(need, Place)' = Reader(need, Place)
        BY <1>1, <1>6, ReaderSame
    <2> QED BY <1>1, <1>5, <1>6, <2>1, ComesSame, Numbers
<1>12. Tracked'
    BY <1>3, <1>9, <1>10, <1>11 DEF Tracked
<1>13. Laid'
    BY <1>1, <1>3, <1>6 DEF Laid
<1> QED BY <1>2, <1>12, <1>13 DEF Follows

\* A piece that is waited for longer than any of its kind takes.
TooLong(n) == /\ kind = "request"
              /\ \/ state = "METHOD" /\ n >= METHOD_MAX_SIZE
                 \/ state = "VERSION" /\ n >= VERSION_MAX_SIZE

\* Where the parser has no more to look at, nor has the reader.
LEMMA NoEnd ==
    ASSUME IInv, Reckoned, Shaped, NEW need \in Nat, Needs(need), Sought(need), Look = arrived,
           partial_length < Len(delimiter) \/ body_length > 0
    PROVE  Ends(arrived, Reader(need, Place)) = {}
<1> DEFINE r == Reader(need, Place)
<1>1. /\ r.stage = Stage /\ r.at = Place /\ r.need = need
      /\ r.stage = "sized" <=> state = "BODY"
      /\ IsWord(r) <=> delimiter = SP
    BY ReaderEnds
<1>2. /\ Place \in Nat /\ Look \in Nat /\ arrived \in Nat /\ body_length \in Nat
      /\ partial_length \in 0 .. Len(delimiter)
    BY Places, Numbers DEF IInv, Types
<1>3. delimiter \in {SP, CRLF, <<>>} /\ (delimiter = <<>> <=> state = "BODY")
    BY Delimiters DEF Shaped, InLine
<1> HIDE DEF r
<1>4. SUFFICES ASSUME NEW k \in Place .. arrived, EndsPiece(r, k) PROVE FALSE
    <2>1. Ends(arrived, r) = {j \in Place .. arrived : EndsPiece(r, j)}
        BY <1>1 DEF Ends
    <2> QED BY <2>1 DEF r
<1>5. k \in Nat /\ k <= arrived
    BY <1>2
<1>6. CASE delimiter = <<>>
    <2>1. body_length > 0 /\ state = "BODY"
        BY <1>2, <1>3, <1>6, Delimiters
    <2>2. Place + need = body_length + Look /\ k = Place + need
        BY <1>1, <1>4, <2>1 DEF Needs, EndsPiece
    <2> QED BY <1>2, <1>5, <2>1, <2>2
<1>7. CASE delimiter = SP
    <2>1. body_length = 0 /\ need = 0
        BY <1>7, WordsAreNotCounted
    <2>2. partial_length # 1 /\ state # "BODY"
        BY <1>2, <1>3, <1>7, <2>1, Delimiters
    <2>3. Place < k /\ stream[k] = "SP"
        BY <1>1, <1>2, <1>4, <1>7, <2>1, <2>2 DEF EndsPiece
    <2>4. k \in Place + 1 .. Look
        BY <1>2, <1>5, <2>3
    <2> QED BY <1>7, <2>2, <2>3, <2>4 DEF Sought
<1>8. CASE delimiter = CRLF
    <2> DEFINE b == Place + need
    <2>1. state # "BODY" /\ delimiter # SP
        BY <1>3, <1>8, Delimiters
    <2>2. b < k /\ EndsLine(b, k)
        BY <1>1, <1>4, <2>1 DEF EndsPiece
    <2>3. b \in Nat
        BY <1>2
    <2>4. CASE body_length > 0
        <3>1. b = body_length + Look
            BY <2>4 DEF Needs
        <3> HIDE DEF b
        <3> QED BY <1>2, <1>5, <2>2, <2>3, <2>4, <3>1
    <2>5. CASE ~(body_length > 0)
        <3>1. body_length = 0 /\ partial_length # 2
            BY <1>2, <1>8, <2>5, Delimiters
        <3>2. ~EndsLine(b, Look) /\ \A j \in b + 1 .. Look - 1 : ~EndsLine(b, j)
            BY <1>8, <3>1 DEF Sought
        <3> HIDE DEF b
        <3>3. k = Look \/ k \in b + 1 .. Look - 1
            BY <1>2, <1>5, <2>2, <2>3
        <3> QED BY <2>2, <3>2, <3>3
    <2> QED BY <2>4, <2>5
<1> QED BY <1>3, <1>6, <1>7, <1>8

\* A reader that is kept waiting for a word of a request's first line gives up when
\* the parser does.
LEMMA GivesUp ==
    ASSUME Shaped, NEW n
    PROVE  Stage = "line" /\ GivenUp(Len(LineSoFar) + 1, n) <=> TooLong(n)
<1>1. CASE InLine("request", "METHOD", SP) /\ first = <<>>
    <2>1. Stage = "line" /\ LineSoFar = <<>> /\ Len(LineSoFar) + 1 = 1
        BY <1>1, Pieces DEF InLine, Stage, LineSoFar
    <2> QED BY <1>1, <2>1 DEF InLine, GivenUp, TooLong
<1>2. CASE InLine("request", "PATH", SP) /\ \E a : first = <<a>>
    <2>1. PICK a : first = <<a>>
        BY <1>2
    <2>2. LineSoFar = <<a>> /\ Len(LineSoFar) + 1 = 2
        BY <1>2, <2>1, Pieces DEF InLine, LineSoFar
    <2> QED BY <1>2, <2>2 DEF InLine, GivenUp, TooLong
<1>3. CASE InLine("request", "VERSION", CRLF)
    <2>1. Stage = "line" /\ Len(LineSoFar) + 1 = 3
        BY <1>3, Pieces DEF InLine, Stage, LineSoFar
    <2> QED BY <1>3, <2>1 DEF InLine, GivenUp, TooLong
<1>4. CASE kind = "response"
    BY <1>4 DEF GivenUp, TooLong
<1>5. CASE state \in {"HEADERS", "TRAILER", "CHUNK_LENGTH", "CHUNK", "BODY"}
    <2>1. Stage # "line"
        BY <1>5 DEF Stage
    <2> QED BY <1>5, <2>1 DEF TooLong
<1> QED BY <1>1, <1>2, <1>3, <1>4, <1>5 DEF Shaped, InLine

\* What a reader finds in a stream at whose end the parser is.
LEMMA FoundSoFar ==
    ASSUME IInv, Reckoned, Follows, ~Failed, Look = arrived,
           partial_length < Len(delimiter) \/ body_length > 0
    PROVE  /\ Contents(arrived).stage = IF TooLong(arrived - Place) THEN "wrong" ELSE "short"
           /\ Contents(arrived).entities = delivered \o entities
           /\ Contents(arrived).from = began
<1> DEFINE s == IF TooLong(arrived - Place) THEN "wrong" ELSE "short"
<1>1. PICK n \in Nat, need \in Nat : Needs(need) /\ Sought(need) /\ Comes(n, need)
    BY DEF Follows, Tracked
<1>2. Shaped
    BY DEF Follows
<1> DEFINE r == Reader(need, Place)
           e == delivered \o entities
<1>3. /\ r.stage = Stage /\ r.at = Place /\ r.first = LineSoFar
      /\ Stage \notin {"short", "wrong"}
    BY <1>2, ReaderEnds
<1>4. r = Record(Stage, LineSoFar, headers, body, need, Place, began, e)
    BY DEF Reader
<1>5. Ends(arrived, r) = {}
    BY <1>1, <1>2, NoEnd
<1> HIDE DEF r
<1>6. Read(arrived, r) = Stopped(arrived, r)
    BY <1>3, <1>5 DEF Read
<1>7. Stopped(arrived, r) = [r EXCEPT !.stage = s]
    <2>1. (r.stage = "line" /\ GivenUp(Len(r.first) + 1, arrived - r.at)) <=> TooLong(arrived - Place)
        BY <1>2, <1>3, GivesUp
    <2> QED BY <2>1 DEF Stopped
<1>8. s \in {"short", "wrong"}
    OBVIOUS
<1> HIDE DEF s, e
<1>9. [r EXCEPT !.stage = s] = Record(s, LineSoFar, headers, body, need, Place, began, e)
    BY <1>4, Update
<1> DEFINE q == Record(s, LineSoFar, headers, body, need, Place, began, e)
<1>10. q.stage = s /\ q.entities = e /\ q.from = began
    BY Fields
<1>11. Read(arrived, r) = q
    BY <1>6, <1>7, <1>9
<1> HIDE DEF q
<1>12. Contents(arrived) = q
    BY <1>1, <1>8, <1>10, <1>11, StopsHere DEF r
<1> QED BY <1>10, <1>12 DEF s, e

\* Entities that are returned were already found.
LEMMA Returned == ASSUME Listed PROVE (delivered \o entities) \o <<>> = delivered \o entities
<1>1. PICK S : entities \in Seq(S) /\ delivered \in Seq(S)
    BY DEF Listed
<1>2. delivered \o entities \in Seq(S)
    BY <1>1
<1> QED BY <1>2

\* The call ends: the piece is kept, or given up where the reader does so.
LEMMA RanOutFollows == IInv /\ Reckoned /\ Follows /\ RanOut => Follows'
<1> SUFFICES ASSUME IInv, Reckoned, Follows, RanOut PROVE Follows'
    OBVIOUS
<1>1. /\ pc = "match" /\ current = Len(chunk) /\ current' = 0 /\ chunk' = <<>>
      /\ partial_length < Len(delimiter) \/ body_length > 0
      /\ partial_buffer' = partial_buffer \o chunk
      /\ UNCHANGED <<kind, stream, arrived, partial_length, body_length, state, delimiter,
                     first, headers, body, began>>
    BY DEF RanOut, OutOfSymbols, input, entity
<1>2. Shaped'
    BY <1>1 DEF Follows, Shaped, InLine
<1>3. Shaped /\ Laid /\ ~Failed /\ Listed
    BY <1>1 DEF Follows, Failed, Calling
<1>4. /\ Len(partial_buffer') = Len(partial_buffer) + Len(chunk) /\ Len(chunk') = 0
      /\ Look = arrived /\ Len(partial_buffer') = arrived - Place
    BY <1>1, Numbers DEF Look, Place
<1>5. CASE kind = "request" /\ Overlong(partial_buffer') /\ pc' = "400" /\ UNCHANGED <<entities, delivered>>
    <2>1. TooLong(arrived - Place)
        BY <1>4, <1>5 DEF Overlong, TooLong
    <2>2. Contents(arrived).stage = "wrong"
        BY <1>1, <1>3, <1>4, <2>1, FoundSoFar
    <2>3. Contents(arrived)' = Contents(arrived)
        BY <1>1, Rigid DEF Contents
    <2>4. Failed' /\ Listed'
        BY <1>3, <1>5 DEF Failed, Calling, Listed
    <2> QED BY <1>2, <2>2, <2>3, <2>4 DEF Follows, Tracked
<1>6. CASE pc' = "rest" /\ delivered' = delivered \o entities /\ entities' = <<>>
    <2>1. ~Failed'
        BY <1>6 DEF Failed
    <2>2. PICK n \in Nat, need \in Nat : Needs(need) /\ Sought(need) /\ Comes(n, need)
        BY <1>3 DEF Follows, Tracked
    <2>3. /\ Place' = Place /\ Look' = Look /\ Place \in Nat /\ Look \in Nat /\ arrived \in Nat
          /\ Place = arrived - (Len(partial_buffer) + Len(chunk))
        BY <1>1, <1>4, Numbers, Places DEF Place, Look
    <2>4. Needs(need)'
        BY <1>1, <2>2, <2>3 DEF Needs
    <2>5. Sought(need)'
        BY <1>1, <2>2, <2>3, SoughtThen DEF Sought
    <2>6. delivered' \o entities' = delivered \o entities
        BY <1>3, <1>6, Returned
    <2>7. Comes(n, need)'
        <3>1. Reader(need, Place)' = Reader(need, Place)
            BY <1>1, <2>3, <2>6, ReaderSame
        <3> QED BY <1>1, <2>2, <2>3, <3>1, ComesSame, Numbers
    <2>8. Tracked'
        BY <2>1, <2>4, <2>5, <2>7 DEF Tracked
    <2>9. Listed'
        <3>1. PICK S : entities \in Seq(S) /\ delivered \in Seq(S)
            BY <1>3 DEF Listed
        <3>2. delivered' \in Seq(S) /\ entities' \in Seq(S)
            BY <1>6, <3>1
        <3> QED BY <3>2 DEF Listed
    <2>10. Laid'
        <3>1. ASSUME NEW k \in 1 .. Len(partial_buffer')
              PROVE  partial_buffer'[k] = stream[Place + k]
            <4>1. CASE k <= Len(partial_buffer)
                <5>1. k \in 1 .. Len(partial_buffer)
                    BY <1>4, <4>1, Numbers
                <5>2. partial_buffer'[k] = partial_buffer[k]
                    BY <1>1, <5>1, Numbers
                <5> QED BY <1>3, <5>1, <5>2 DEF Laid
            <4>2. CASE ~(k <= Len(partial_buffer))
                <5> DEFINE j == k - Len(partial_buffer)
                <5>0. Len(partial_buffer) \in Nat /\ Len(chunk) \in Nat
                    BY Numbers
                <5>1. j \in 1 .. Len(chunk) /\ arrived - Len(chunk) + j = Place + k
                    BY <1>4, <2>3, <4>2, <5>0
                <5>2. partial_buffer'[k] = chunk[j]
                    BY <1>1, <4>2, <5>1, Numbers
                <5>3. chunk[j] = stream[arrived - Len(chunk) + j]
                    BY <1>3, <5>1 DEF Laid
                <5> QED BY <5>1, <5>2, <5>3
            <4> QED BY <4>1, <4>2
        <3>2. 1 .. Len(chunk') = {}
            BY <1>4
        <3> QED BY <1>1, <2>3, <3>1, <3>2 DEF Laid
    <2> QED BY <1>2, <2>8, <2>9, <2>10 DEF Follows
<1> QED BY <1>5, <1>6 DEF RanOut

\* More of the stream arrives.
LEMMA ReceiveFollows ==
    ASSUME IInv, Reckoned, Follows, AtRest, NEW c \in 1 .. MaxChunk, Receive(c)
    PROVE  Follows'
<1>1. /\ pc = "rest" /\ pc' = "loop" /\ current' = 0 /\ arrived' = arrived + c
      /\ arrived + c <= Len(stream) /\ chunk' = SubSeq(stream, arrived + 1, arrived + c)
      /\ entities' = <<>>
      /\ UNCHANGED <<kind, stream, partial_buffer, partial_length, body_length, state,
                     delimiter, first, headers, body, delivered, began>>
    BY DEF Receive, entity
<1>2. c \in Nat /\ stream \in Seq(STRING) /\ arrived \in Nat /\ Len(stream) \in Nat
    BY HttpAssumption DEF IInv, Types
<1>3. Len(chunk') = c /\ \A k \in 1 .. c : chunk'[k] = stream[arrived + k]
    <2>1. \A k \in 1 .. c : (arrived + 1) + k - 1 = arrived + k
        BY <1>2
    <2>2. Len(chunk') = c /\ \A k \in 1 .. c : chunk'[k] = stream[(arrived + 1) + k - 1]
        BY <1>1, <1>2
    <2> QED BY <2>1, <2>2
<1>4. chunk = <<>> /\ Len(chunk) = 0 /\ current = 0 /\ entities = <<>>
    BY <1>1 DEF IInv, AtStart, AtRest
<1>5. Shaped' /\ Listed'
    BY <1>1, <1>4 DEF Follows, Shaped, InLine, Listed
<1>6. Laid /\ ~Failed /\ ~Failed'
    BY <1>1 DEF Follows, Failed, Calling
<1>7. PICK n \in Nat, need \in Nat : Needs(need) /\ Sought(need) /\ Comes(n, need)
    BY <1>6 DEF Follows, Tracked
<1>8. Place' = Place /\ Look' = Look /\ Place \in Nat /\ Look \in Nat
      /\ arrived' - Len(chunk') = arrived
    <2>1. Len(partial_buffer) \in Nat /\ Place \in Nat /\ Look \in Nat
        BY Numbers, Places
    <2>2. Place = arrived - (Len(partial_buffer) + 0) /\ Look = arrived - 0 + 0
        BY <1>4 DEF Place, Look
    <2>3. Place' = (arrived + c) - (Len(partial_buffer) + c) /\ Look' = (arrived + c) - c + 0
        BY <1>1, <1>3 DEF Place, Look
    <2>4. /\ (arrived + c) - (Len(partial_buffer) + c) = arrived - (Len(partial_buffer) + 0)
          /\ (arrived + c) - c + 0 = arrived - 0 + 0 /\ (arrived + c) - c = arrived
        <3>1. Len(partial_buffer) \in Nat
            BY <2>1
        <3> QED BY <1>2, <3>1
    <2> QED BY <1>1, <1>3, <2>1, <2>2, <2>3, <2>4, Zenon
<1>9. Needs(need)'
    BY <1>1, <1>7, <1>8 DEF Needs
<1>10. Sought(need)'
    BY <1>1, <1>7, <1>8, SoughtThen DEF Sought
<1>11. Comes(n, need)'
    <2>1. Reader(need, Place)' = Reader(need, Place)
        BY <1>1, <1>4, <1>8, ReaderSame
    <2>2. arrived' \in Nat /\ arrived <= arrived'
        BY <1>1, <1>2
    <2> QED BY <1>1, <1>2, <1>7, <1>8, <2>1, <2>2, ComesSame
<1>12. Tracked'
    BY <1>6, <1>9, <1>10, <1>11 DEF Tracked
<1>13. Laid'
    <2>1. \A k \in 1 .. Len(partial_buffer) : partial_buffer[k] = stream[Place + k]
        BY <1>6 DEF Laid
    <2>2. \A k \in 1 .. Len(chunk') : chunk'[k] = stream[(arrived' - Len(chunk')) + k]
        BY <1>3, <1>8
    <2> QED BY <1>1, <1>8, <2>1, <2>2 DEF Laid
<1> QED BY <1>5, <1>12, <1>13 DEF Follows

\* The parser and the reader start at the same place.
LEMMA InitFollows == Init => Follows /\ AtRest
<1> SUFFICES ASSUME Init PROVE Follows /\ AtRest
    OBVIOUS
<1>1. PICK s \in Streams : kind = s[1] /\ stream = s[2]
    BY DEF Init
<1>2. /\ kind \in {"request", "response"} /\ arrived = 0 /\ pc = "rest"
      /\ state = (IF kind = "request" THEN "METHOD" ELSE "VERSION") /\ delimiter = SP
      /\ partial_buffer = <<>> /\ partial_length = 0 /\ body_length = 0
      /\ first = <<>> /\ headers = NoHeaders /\ body = <<>>
      /\ chunk = <<>> /\ current = 0 /\ entities = <<>> /\ delivered = <<>> /\ began = 0
    BY <1>1, HttpAssumption DEF Init
<1>3. Shaped
    BY <1>2 DEF Shaped, InLine
<1>4. Listed
    <2>1. <<>> \in Seq({})
        OBVIOUS
    <2> QED BY <1>2, <2>1 DEF Listed
<1>5. Len(partial_buffer) = 0 /\ Len(chunk) = 0 /\ Place = 0 /\ Look = 0
    <2>1. Len(partial_buffer) = 0 /\ Len(chunk) = 0
        BY <1>2
    <2>2. Place = 0 - (0 + 0) /\ Look = 0 - 0 + 0
        BY <1>2, <2>1 DEF Place, Look
    <2> QED BY <2>1, <2>2
<1>6. Laid
    BY <1>5 DEF Laid
<1>7. Needs(0)
    BY <1>2, <1>5 DEF Needs
<1>8. Sought(0)
    <2>1. delimiter # CRLF
        BY <1>2, Delimiters
    <2> QED BY <1>2, <1>5, <2>1 DEF Sought
<1>9. Reader(0, Place) = Start
    <2>1. Stage = "line" /\ LineSoFar = <<>> /\ delivered \o entities = <<>>
        BY <1>2 DEF Stage, LineSoFar
    <2> QED BY <1>2, <1>5, <2>1 DEF Reader, Record, Start
<1>10. Comes(0, 0)
    <2>1. state # "BODY" /\ 0 <= 2 * Place - 0
        BY <1>2, <1>5
    <2> QED BY <1>9, <2>1, ReadingUnfolds DEF Comes
<1>11. ~Failed
    BY <1>2 DEF Failed
<1>12. Tracked
    BY <1>7, <1>8, <1>10, <1>11 DEF Tracked
<1>13. AtRest
    <2>1. ~Overlong(partial_buffer)
        BY <1>2, <1>5 DEF Overlong, METHOD_MAX_SIZE, VERSION_MAX_SIZE
    <2> QED BY <1>2, <2>1, Delimiters DEF AtRest
<1> QED BY <1>3, <1>4, <1>6, <1>12, <1>13 DEF Follows

\* Only RanOut returns.
LEMMA NextAtRest == AtRest /\ [Next]_vars => AtRest'
<1> SUFFICES ASSUME AtRest, [Next]_vars PROVE AtRest'
    OBVIOUS
<1>1. CASE RanOut
    <2>1. /\ OutOfSymbols /\ UNCHANGED <<kind, state, partial_length, body_length, delimiter>>
          /\ pc' = "rest" => entities' = <<>> /\ (kind = "response" \/ ~Overlong(partial_buffer'))
        BY <1>1 DEF RanOut, input, entity
    <2>2. pc' = "rest" /\ kind = "request" => ~Overlong(partial_buffer)'
        BY <2>1 DEF Overlong
    <2> QED BY <2>1, <2>2 DEF AtRest, OutOfSymbols
<1>2. CASE UNCHANGED vars
    BY <1>2 DEF vars, input, piece, entity, results, AtRest, Overlong
<1>3. ASSUME pc' # "rest" PROVE AtRest'
    BY <1>3 DEF AtRest
<1>4. ASSUME NEW n \in 1 .. MaxChunk, Receive(n) PROVE pc' # "rest"
    BY <1>4 DEF Receive
<1>5. CASE StartPiece
    BY <1>3, <1>5 DEF StartPiece
<1>6. CASE Match
    BY <1>3, <1>6 DEF Match
<1>7. CASE Method \/ Path \/ RequestVersion \/ ResponseVersion \/ Code \/ Message
    <2>1. pc' # "rest"
        BY <1>7 DEF Method, Path, RequestVersion, ResponseVersion, Code, Message, LinePiece,
                    NextPiece, Throw
    <2> QED BY <1>3, <2>1
<1>8. CASE Header \/ BlankLine \/ EndOfTrailer \/ Body \/ ChunkLength \/ Chunk
    <2>1. pc' # "rest"
        BY <1>8 DEF Header, BlankLine, EndOfTrailer, Body, ChunkLength, Chunk, Expect, Emit,
                    NextPiece, Throw, Bad
    <2> QED BY <1>3, <2>1
<1> QED BY <1>1, <1>2, <1>3, <1>4, <1>5, <1>6, <1>7, <1>8 DEF Next, from_stream

\* Every step of the parser keeps it at the side of the reader.
LEMMA NextFollows == IInv /\ Reckoned /\ AtRest /\ Follows /\ [Next]_vars => Follows'
<1> SUFFICES ASSUME IInv, Reckoned, AtRest, Follows, [Next]_vars PROVE Follows'
    OBVIOUS
<1>1. ASSUME NEW n \in 1 .. MaxChunk, Receive(n) PROVE Follows'
    BY <1>1, ReceiveFollows
<1>2. CASE StartPiece \/ Match \/ RanOut
    BY <1>2, StartPieceFollows, MatchFollows, RanOutFollows
<1>3. CASE Method \/ Path \/ RequestVersion \/ ResponseVersion \/ Code \/ Message
    BY <1>3, MethodFollows, PathFollows, RequestVersionFollows, ResponseVersionFollows,
       CodeFollows, MessageFollows
<1>4. CASE Header \/ BlankLine \/ EndOfTrailer \/ Body \/ ChunkLength \/ Chunk
    BY <1>4, HeaderFollows, BlankLineFollows, EndFollows, ChunkLengthFollows, ChunkFollows
<1>5. CASE UNCHANGED vars
    <2>1. UNCHANGED <<kind, stream, arrived, pc, partial_buffer, partial_length, body_length,
                      chunk, current, state, delimiter, first, headers, body, entities,
                      delivered, began>>
        BY <1>5 DEF vars, input, piece, entity, results
    <2>2. Shaped' /\ Listed'
        BY <2>1 DEF Follows, Shaped, InLine, Listed
    <2>3. Place' = Place /\ Look' = Look
        BY <2>1 DEF Place, Look
    <2>4. ~Failed => Laid'
        BY <2>1, <2>3 DEF Follows, Laid
    <2>5. (Failed' <=> Failed) /\ Contents(arrived)' = Contents(arrived)
        BY <2>1, Rigid DEF Failed, Calling, Contents
    <2>6. ASSUME NEW n \in Nat, NEW need \in Nat, Needs(need), Sought(need), Comes(n, need)
          PROVE  (Needs(need) /\ Sought(need) /\ Comes(n, need))'
        <3>1. Reader(need, Place)' = Reader(need, Place)
            BY <2>1, <2>3, ReaderSame
        <3>2. Needs(need)'
            BY <2>1, <2>3, <2>6 DEF Needs
        <3>3. Sought(need)'
            BY <2>1, <2>3, <2>6, SoughtThen DEF Sought
        <3>4. arrived' = arrived /\ arrived \in Nat /\ Len(stream) \in Nat
            BY <2>1, Numbers
        <3>5. arrived' \in Nat /\ arrived <= arrived'
            BY <3>4
        <3>6. Comes(n, need)'
            BY <2>1, <2>3, <2>6, <3>1, <3>4, <3>5, ComesSame
        <3> QED BY <3>2, <3>3, <3>6
    <2>7. CASE Failed
        BY <2>1, <2>2, <2>4, <2>5, <2>7 DEF Follows, Tracked
    <2>8. CASE ~Failed
        <3>1. PICK n \in Nat, need \in Nat : Needs(need) /\ Sought(need) /\ Comes(n, need)
            BY <2>8 DEF Follows, Tracked
        <3>2. Tracked'
            BY <2>5, <2>6, <2>8, <3>1 DEF Tracked
        <3> QED BY <2>2, <2>4, <2>8, <3>2 DEF Follows
    <2> QED BY <2>7, <2>8
<1> QED BY <1>1, <1>2, <1>3, <1>4, <1>5 DEF Next, from_stream

\* However a stream was cut into chunks, from_stream has returned what the stream
\* contains, and throws where the stream is malformed: for every stream of requests
\* or responses, every limit and every chunking.
THEOREM Chunking == Spec => []ChunksDoNotMatter
<1> DEFINE Inv == IInv /\ Reckoned /\ AtRest /\ Follows
<1>1. Init => Inv
    BY InitIInv, InitReckoned, InitFollows
<1>2. Inv /\ [Next]_vars => Inv'
    <2>1. Inv /\ [Next]_vars => IInv' /\ Reckoned'
        BY NextIInv, NextReckoned
    <2>2. Inv /\ [Next]_vars => AtRest' /\ Follows'
        BY NextAtRest, NextFollows
    <2> QED BY <2>1, <2>2
<1>3. Inv => ChunksDoNotMatter
    <2> SUFFICES ASSUME IInv, Reckoned, AtRest, Follows PROVE ChunksDoNotMatter
        OBVIOUS
    <2>1. ASSUME pc = "rest"
          PROVE  /\ Contents(arrived).stage = "short"
                 /\ Contents(arrived).entities = delivered /\ Contents(arrived).from = began
        <3>1. /\ chunk = <<>> /\ Len(chunk) = 0 /\ current = 0 /\ entities = <<>> /\ ~Failed
              /\ partial_length < Len(delimiter) \/ body_length > 0
              /\ kind = "request" => ~Overlong(partial_buffer)
            BY <2>1 DEF IInv, AtStart, AtRest, Failed
        <3>2. Look = arrived /\ arrived - Place = Len(partial_buffer)
            BY <3>1, Numbers DEF Look, Place
        <3>3. ~TooLong(arrived - Place)
            BY <3>1, <3>2 DEF TooLong, Overlong
        <3>4. delivered \o entities = delivered
            BY <3>1 DEF Follows, Listed
        <3> QED BY <3>1, <3>2, <3>3, <3>4, FoundSoFar
    <2>2. ASSUME Failed, pc # "413" PROVE Contents(arrived).stage = "wrong"
        BY <2>2 DEF Follows, Tracked
    <2> QED BY <2>1, <2>2, Zenon DEF ChunksDoNotMatter
<1> HIDE DEF Inv
<1> QED BY <1>1, <1>2, <1>3, PTL DEF Spec
===============================================================================
