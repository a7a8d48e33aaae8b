------------------------------- MODULE Netstring ------------------------------
(***************************************************************************)
(* netstring_entity_t of src/netstring_protocol.cpp: the incremental       *)
(* parser a session keeps between the chunks its connection delivers.  A   *)
(* call of from_stream starts with Receive, every branch of its loop is an *)
(* action, and it ends with Return or with a throw.  The chunks may cut    *)
(* the stream anywhere, in the length, in the body or at a separator.      *)
(***************************************************************************)
EXTENDS Naturals, Sequences

CONSTANTS Chars,      \* what the stream is made of
          MaxSize,    \* the max_size from_stream is called with
          MaxULong,   \* the largest number std::stoul can return
          MaxChunk,   \* bound on the length of one chunk
          MaxStream   \* bound on the length of the stream

ASSUME NetstringAssumption ==
    /\ MaxSize \in Nat /\ MaxULong \in Nat
    /\ MaxChunk \in Nat /\ MaxStream \in Nat

VARIABLES
    pc,           \* "rest" between calls, "scan" in the loop, or what was thrown
    body,         \* netstring_entity_t::body
    body_length,  \* netstring_entity_t::body_length
    chunk,        \* what is left from start on
    i,
    requests,     \* the list this call is going to return
    delivered,    \* history: everything returned so far
    consumed      \* history: the stream so far

vars == <<pc, body, body_length, chunk, i, requests, delivered, consumed>>

Digits == <<"0", "1", "2", "3", "4", "5", "6", "7", "8", "9">>
IsDigit(c) == \E d \in DOMAIN Digits : Digits[d] = c
Numeral == Seq({Digits[d] : d \in DOMAIN Digits})
Digit(c) == (CHOOSE d \in DOMAIN Digits : Digits[d] = c) - 1

Upto(s, n) == SubSeq(s, 1, n)
After(s, n) == SubSeq(s, n + 1, Len(s))

\* The number a sequence of digits denotes.
Value[s \in Numeral] ==
    IF s = <<>> THEN 0 ELSE 10 * Value[Upto(s, Len(s) - 1)] + Digit(s[Len(s)])

\* std::to_string(size) ++ ':' ++ body ++ ','
Decimal[n \in Nat] ==
    IF n < 10 THEN <<Digits[n + 1]>> ELSE Append(Decimal[n \div 10], Digits[(n % 10) + 1])
to_string(b) == Decimal[Len(b)] \o <<":">> \o b \o <<",">>

-----------------------------------------------------------------------------
Receive(c) ==
    /\ pc = "rest" /\ Len(consumed) + Len(c) <= MaxStream
    /\ pc' = "scan" /\ chunk' = c /\ i' = 0 /\ requests' = <<>>
    /\ consumed' = consumed \o c
    /\ UNCHANGED <<body, body_length, delivered>>

\* The loop condition, and which of the two the loop is looking for.
InLength == pc = "scan" /\ i < Len(chunk) /\ body_length = 0
InBody   == pc = "scan" /\ i < Len(chunk) /\ body_length # 0

\* size_t remaining: how much of the body is still to come
Remaining == body_length - Len(body)

NextDigit ==
    /\ InLength /\ IsDigit(chunk[i + 1])
    /\ i' = i + 1
    /\ UNCHANGED <<pc, body, body_length, chunk, requests, delivered, consumed>>

\* Faulty variant: only the digits of this chunk count.
DigitsHere == Upto(chunk, i)

\* body.append(start, start + i): a length may have begun in an earlier chunk.
LengthDigits == body \o Upto(chunk, i)

\* Faulty variant: the limit is the one of the number type.
TooLongForType(n) == n > MaxULong

TooLong(n) == n > MaxSize

EndOfLength ==
    /\ InLength /\ chunk[i + 1] = ":"
    /\ \/ /\ LengthDigits = <<>> \/ Value[LengthDigits] \notin 0 .. MaxULong
          /\ pc' = "BAD_LENGTH" /\ body' = LengthDigits
          /\ UNCHANGED <<body_length, chunk, i>>
       \/ /\ LengthDigits # <<>> /\ Value[LengthDigits] \in 0 .. MaxULong
          /\ body_length' = Value[LengthDigits]
          /\ \/ /\ TooLong(body_length')
                /\ pc' = "TOO_LONG" /\ body' = LengthDigits
                /\ UNCHANGED <<chunk, i>>
             \/ /\ ~TooLong(body_length')
                /\ body' = <<>> /\ chunk' = After(chunk, i + 1) /\ i' = 0
                /\ UNCHANGED pc
    /\ UNCHANGED <<requests, delivered, consumed>>

NoLength ==
    /\ InLength /\ ~IsDigit(chunk[i + 1]) /\ chunk[i + 1] # ":"
    /\ pc' = IF i > 0 THEN "BAD_BODY_SEPARATOR" ELSE "BAD_LENGTH"
    /\ UNCHANGED <<body, body_length, chunk, i, requests, delivered, consumed>>

\* Faulty variant: what an earlier chunk left is forgotten.
BodyHere == Upto(chunk, Remaining)

\* requests.back().body
WholeBody == body \o Upto(chunk, Remaining)

\* flush_stream()
LengthAfterBody == 0

EndOfBody ==
    /\ InBody /\ Remaining < Len(chunk) /\ chunk[Remaining + 1] = ","
    /\ requests' = Append(requests, WholeBody)
    /\ chunk' = After(chunk, Remaining + 1) /\ i' = 0
    /\ body' = <<>> /\ body_length' = LengthAfterBody
    /\ UNCHANGED <<pc, delivered, consumed>>

NoSeparator ==
    /\ InBody /\ Remaining < Len(chunk) /\ chunk[Remaining + 1] # ","
    /\ pc' = "BAD_MESSAGE_SEPARATOR"
    /\ UNCHANGED <<body, body_length, chunk, i, requests, delivered, consumed>>

\* Faulty variant: a body that ends with the chunk waits in the loop.
NeedsMoreStrictly == InBody /\ Remaining > Len(chunk)

\* The body did not fit in what we had.
NeedsMore == InBody /\ Remaining >= Len(chunk)

\* Whatever is left is kept for the next call.
Return ==
    /\ pc = "scan" /\ (i >= Len(chunk) \/ NeedsMore)
    /\ body' = body \o chunk
    /\ delivered' = delivered \o requests
    /\ pc' = "rest" /\ chunk' = <<>> /\ i' = 0 /\ requests' = <<>>
    /\ UNCHANGED <<body_length, consumed>>

Loop == NextDigit \/ EndOfLength \/ NoLength \/ EndOfBody \/ NoSeparator \/ Return

Init == /\ pc = "rest" /\ body = <<>> /\ body_length = 0
        /\ chunk = <<>> /\ i = 0 /\ requests = <<>>
        /\ delivered = <<>> /\ consumed = <<>>

Chunks == UNION {[1 .. n -> Chars] : n \in 1 .. MaxChunk}

Next == Loop \/ \E c \in Chunks : Receive(c)

Spec == Init /\ [][Next]_vars

FairSpec == Spec /\ WF_vars(Loop)

-----------------------------------------------------------------------------
(* Properties                                                               *)

Failed == pc \notin {"rest", "scan"}

\* The type invariant of the entity and of the locals of from_stream.
TypeOK ==
    /\ pc \in {"rest", "scan", "BAD_LENGTH", "TOO_LONG", "BAD_BODY_SEPARATOR",
               "BAD_MESSAGE_SEPARATOR"}
    /\ body \in Seq(Chars) /\ chunk \in Seq(Chars) /\ consumed \in Seq(Chars)
    /\ body_length \in 0 .. MaxULong /\ i \in 0 .. Len(chunk)
    /\ requests \in Seq(Seq(Chars)) /\ delivered \in Seq(Seq(Chars))

\* body_length - body.size() is computed in size_t: it never wraps, and what is
\* buffered of a body is within the limit the length was admitted under.
BufferBounded ==
    body_length # 0 /\ ~Failed => Len(body) <= body_length /\ body_length <= MaxSize

\* The digits a stream begins with, and the number they denote.
Leading(s) ==
    CHOOSE n \in 0 .. Len(s) : /\ \A k \in 1 .. n : IsDigit(s[k])
                               /\ n < Len(s) => ~IsDigit(s[n + 1])
Number(s) == Value[Upto(s, Leading(s))]

HasLength(s) ==
    /\ Leading(s) \in 1 .. Len(s) - 1 /\ s[Leading(s) + 1] = ":"
    /\ Number(s) \in 0 .. MaxULong /\ Number(s) <= MaxSize

\* Where the comma after the body belongs, in a stream that has a length.
Comma(s) == Leading(s) + Number(s) + 2

\* A stream begins with a whole netstring, or with a length of zero, which
\* from_stream skips with its colon, or with neither: it is malformed when more
\* of it would not help.
BeginsWhole(s) ==
    HasLength(s) /\ (Number(s) = 0 \/ (Comma(s) <= Len(s) /\ s[Comma(s)] = ","))
Malformed(s) ==
    \/ Leading(s) < Len(s) /\ ~HasLength(s)
    \/ HasLength(s) /\ Number(s) # 0 /\ Comma(s) <= Len(s) /\ s[Comma(s)] # ","

First(s) == IF Number(s) = 0 THEN <<>> ELSE <<SubSeq(s, Leading(s) + 2, Comma(s) - 1)>>
Others(s) == After(s, IF Number(s) = 0 THEN Leading(s) + 1 ELSE Comma(s))

\* What a whole stream contains, read at once and without a buffer: the bodies
\* of its complete netstrings, up to where it stops being well formed.
Contents[s \in Seq(Chars)] ==
    IF BeginsWhole(s)
    THEN LET more == Contents[Others(s)]
         IN  [bodies |-> First(s) \o more.bodies, good |-> more.good]
    ELSE [bodies |-> <<>>, good |-> ~Malformed(s)]

IsPrefixOf(s, t) == Len(s) <= Len(t) /\ Upto(t, Len(s)) = s

\* However the stream was cut into chunks, the requests from_stream has returned
\* are exactly those the stream contains.  It throws only where the stream is
\* malformed, and what was delivered before that came from its well-formed beginning.
ChunksDoNotMatter ==
    /\ pc = "rest" => Contents[consumed] = [bodies |-> delivered, good |-> TRUE]
    /\ Failed => /\ ~Contents[consumed].good
                 /\ IsPrefixOf(delivered, Contents[consumed].bodies)

\* The bodies from_stream admits.
Bodies == {b \in UNION {[1 .. n -> Chars] : n \in 1 .. MaxSize} : Len(b) <= MaxULong}

\* What to_string makes of a body, from_stream makes that body of again, in
\* whatever chunks it arrives.  The empty body is excluded: from_stream takes its
\* length of zero for no length at all and throws on the comma.
RoundTrip ==
    \A b \in Bodies : consumed = to_string(b) /\ pc # "scan" =>
        pc = "rest" /\ delivered = <<b>>

\* from_stream returns or throws on every chunk; its loop does not spin.
CallEnds == pc = "scan" ~> pc # "scan"
===============================================================================
