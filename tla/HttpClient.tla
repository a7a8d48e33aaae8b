------------------------------ MODULE HttpClient ------------------------------
(***************************************************************************)
(* http_client_t of src/http_protocol.cpp: stream_responses finds where    *)
(* one response ends and the next one starts in whatever pieces the        *)
(* connection delivers them, keeping the state of its scanner and what it  *)
(* could not hand on between two calls.  One iteration of its loop looks   *)
(* at one symbol and is one action.                                        *)
(*                                                                         *)
(* A symbol is CR, LF, one digit, or a word of which only its place in a   *)
(* header matters: "Content-" is K and "Length: " is L.  begin and current *)
(* are places in the stream, of which a call is given those up to end.     *)
(* The call with an empty message returns at once and is left out.         *)
(* It is the client_t of Client that calls it; the names of the two        *)
(* modules are apart, so that both can be extended at once.                *)
(***************************************************************************)
EXTENDS Integers, Sequences, SequencesExt

CONSTANTS Streams,    \* what a server may send: the text, and where its responses end
          MaxULong    \* the greatest unsigned long, which size_t wraps to below 0

ASSUME HttpClientAssumption ==
    /\ MaxULong \in Nat
    /\ \A s \in Streams : s.text \in Seq(STRING) /\ s.ends \in Seq(Nat)

VARIABLES
    stream,     \* what the server sends on this connection
    ends,       \* where its responses end
    end, begin, current,
    parser,     \* the members that reset() sets
    buffer,
    frames,     \* history: what collect_function was given and accepted
    thrown      \* history: a call was left by an exception

server == <<stream, ends>>
stream_vars == <<server, end, begin, current, parser, buffer, frames, thrown>>

CONTENT_LENGTH == <<"CR", "LF", "K", "L">>
DOUBLE_RETURN  == <<"CR", "LF", "CR", "LF">>

DIGITS == <<"0", "1", "2", "3", "4", "5", "6", "7", "8", "9">>
IsDigit(c) == c \in Range(DIGITS)

\* What reset() sets.  The iterators are places in the two strings.
Initial == [parse_headers |-> TRUE, parse_length |-> FALSE, parse_body |-> FALSE,
            content_length |-> <<>>, length |-> 0,
            double_return_itr |-> 1, content_length_itr |-> 1]

\* Faulty variant: parse_body is not reset.
ResetKeepsBody == [Initial EXCEPT !.parse_body = parser.parse_body]

Reset == Initial

\* std::stoul
Index(d) == (CHOOSE n \in DOMAIN DIGITS : DIGITS[n] = d) - 1
Stoul(digits) == FoldLeft(LAMBDA n, d : 10 * n + Index(d), 0, digits)
StoulThrows(digits) == digits = <<>> \/ Stoul(digits) \notin 0 .. MaxULong

-----------------------------------------------------------------------------
(* One iteration.  Each stage takes the scanner as the one before left it.  *)

Symbol == stream[current]

\* --length
Eaten(s) == IF ~s.parse_body THEN s
            ELSE [s EXCEPT !.length = IF @ = 0 THEN MaxULong ELSE @ - 1]

BodyEnds(s) == s.parse_body /\ Eaten(s).length = 0

Measured(s) == IF ~s.parse_length THEN s
               ELSE [s EXCEPT !.length = Stoul(s.content_length), !.parse_length = FALSE]

AtContentLength(s) == s.content_length_itr \in DOMAIN CONTENT_LENGTH
                      /\ Symbol = CONTENT_LENGTH[s.content_length_itr]

\* The header is found, the match goes on, or it starts anew after this symbol.
HeaderSought(s) ==
    IF ~s.parse_headers THEN s
    ELSE IF ~AtContentLength(s) THEN [s EXCEPT !.content_length_itr = 1]
    ELSE LET found == s.content_length_itr = Len(CONTENT_LENGTH)
         IN [s EXCEPT !.content_length_itr = @ + 1,
                      !.parse_headers = ~found, !.parse_length = found]

\* Faulty variant: the match starts in every message anew.
AtReturnHere(s) == /\ s.double_return_itr \in DOMAIN DOUBLE_RETURN
                   /\ Symbol = DOUBLE_RETURN[s.double_return_itr]
                   /\ s.double_return_itr > 1 => current > begin

\* At its end the iterator is at the NUL that ends the string.
AtReturn(s) == Symbol = IF s.double_return_itr \in DOMAIN DOUBLE_RETURN
                        THEN DOUBLE_RETURN[s.double_return_itr] ELSE "NUL"

ReturnFound(s) == AtReturn(s) /\ s.double_return_itr = Len(DOUBLE_RETURN)

ReturnSought(s) ==
    [s EXCEPT !.double_return_itr = IF AtReturn(s) THEN @ + 1 ELSE 1,
              !.parse_body = @ \/ (ReturnFound(s) /\ s.length > 0)]

Scanned == HeaderSought(Measured(Eaten(parser)))

Done == BodyEnds(parser) \/ (ReturnFound(Scanned) /\ Scanned.length = 0)

-----------------------------------------------------------------------------
(* stream_responses                                                         *)

\* A message arrives: the next n symbols of the stream.
Message(n) ==
    /\ current > end /\ begin = current
    /\ n \in 1 .. Len(stream) - end
    /\ end' = end + n
    /\ UNCHANGED <<server, begin, current, parser, buffer, frames, thrown>>

\* The symbols of a body but its last, and the digits of a length.
Continue ==
    /\ current <= end
    /\ \/ /\ parser.parse_body /\ ~BodyEnds(parser)
          /\ parser' = Eaten(parser)
       \/ /\ ~parser.parse_body /\ parser.parse_length /\ IsDigit(Symbol)
          /\ parser' = [parser EXCEPT !.content_length = Append(@, Symbol)]
    /\ current' = current + 1
    /\ UNCHANGED <<server, end, begin, buffer, frames, thrown>>

\* The symbols the iteration looks at in full.
Looked == /\ current <= end
          /\ parser.parse_body => BodyEnds(parser)
          /\ parser.parse_length => ~IsDigit(Symbol)

\* An exception leaves the call: what is left of the message is gone, buffer and
\* scanner stay as they are.
Abandon(s) ==
    /\ parser' = s
    /\ begin' = end + 1 /\ current' = end + 1
    /\ thrown' = TRUE
    /\ UNCHANGED <<server, end, frames>>

NoLength == /\ Looked /\ parser.parse_length /\ StoulThrows(parser.content_length)
            /\ Abandon(Eaten(parser))
            /\ UNCHANGED buffer

Measurable == parser.parse_length => ~StoulThrows(parser.content_length)

Scan == /\ Looked /\ Measurable /\ ~Done
        /\ parser' = ReturnSought(Scanned)
        /\ current' = current + 1
        /\ UNCHANGED <<server, end, begin, buffer, frames, thrown>>

Ready == buffer \o SubSeq(stream, begin, current)

\* A whole response goes to collect_function.
Collect == /\ Looked /\ Measurable /\ Done
           /\ frames' = Append(frames, Ready)
           /\ buffer' = <<>>
           /\ begin' = current + 1 /\ current' = current + 1
           /\ parser' = Reset
           /\ UNCHANGED <<server, end, thrown>>

\* collect_function throws: a buffered response stays in the buffer.
CollectorThrows ==
    /\ Looked /\ Measurable /\ Done
    /\ Abandon(ReturnSought(Scanned))
    /\ buffer' = IF buffer = <<>> THEN <<>> ELSE Ready

\* The message is used up and what it left is buffered.
Keep == /\ current > end /\ begin < current
        /\ buffer' = buffer \o SubSeq(stream, begin, current - 1)
        /\ begin' = current
        /\ UNCHANGED <<server, end, current, parser, frames, thrown>>

StreamResponses == Continue \/ NoLength \/ Scan \/ Collect \/ CollectorThrows \/ Keep

StreamInit ==
    /\ \E s \in Streams : stream = s.text /\ ends = s.ends
    /\ end = 0 /\ begin = 1 /\ current = 1
    /\ parser = Initial /\ buffer = <<>>
    /\ frames = <<>> /\ thrown = FALSE

StreamNext == StreamResponses \/ \E n \in 1 .. Len(stream) : Message(n)

StreamSpec == StreamInit /\ [][StreamNext]_stream_vars

-----------------------------------------------------------------------------
(* Well-formed responses, as places in the stream                           *)

\* w stands in the stream from place n on, and nowhere earlier from place m on.
StandsAt(w, n) == \A k \in DOMAIN w : stream[n + k - 1] = w[k]
StandsFirst(w, m, n) == StandsAt(w, n) /\ \A k \in m .. n - 1 : ~StandsAt(w, k)

\* Lines end with CR and LF, which occur nowhere else, and none consists of the
\* beginning of a header's name alone.
Lines(from, to) ==
    \A n \in from .. to :
        /\ stream[n] = "CR" => n < to /\ stream[n + 1] = "LF"
        /\ stream[n] = "LF" => n > from /\ stream[n - 1] = "CR"
        /\ stream[n] = "K" => n < to /\ stream[n + 1] # "CR"

Unsized(from, to) == \A n \in from .. to - 3 : ~StandsAt(CONTENT_LENGTH, n)

\* The first header with a length is at n, its digits end at e.
Sized(from, to, n, e) ==
    /\ n + 4 <= e /\ e < to
    /\ StandsFirst(CONTENT_LENGTH, from, n)
    /\ \A k \in n + 4 .. e : IsDigit(stream[k])
    /\ ~IsDigit(stream[e + 1])
    /\ ~StoulThrows(SubSeq(stream, n + 4, e))

\* Headers up to h, and then a body of the length they give.
Response(from, h, to) ==
    /\ StandsFirst(DOUBLE_RETURN, from, h - 3) /\ Lines(from, h)
    /\ \/ Unsized(from, h) /\ to = h
       \/ \E n, e \in from .. h : /\ Sized(from, h, n, e)
                                  /\ to = h + Stoul(SubSeq(stream, n + 4, e))

Start(i) == IF i = 1 THEN 1 ELSE ends[i - 1] + 1

WellFormed == /\ \A i \in DOMAIN ends :
                   \E h \in Start(i) + 3 .. ends[i] : Response(Start(i), h, ends[i])
              /\ Start(Len(ends) + 1) = Len(stream) + 1

-----------------------------------------------------------------------------
(* Properties                                                               *)

\* However well-formed responses are cut into messages, collect_function has been
\* given each of those that have arrived in full, by itself and once, and the rest
\* is in the buffer, as long as no call was left by an exception.
WholeResponses ==
    current > end /\ begin = current /\ ~thrown /\ WellFormed =>
        LET k == Len(frames)
        IN /\ k <= Len(ends)
           /\ frames = [i \in 1 .. k |-> SubSeq(stream, Start(i), ends[i])]
           /\ buffer = SubSeq(stream, Start(k + 1), end)
           /\ Start(k + 1) <= end + 1
           /\ k < Len(ends) => end < ends[k + 1]

\* --length is not reached with a length of 0, from which it would take 2^64
\* symbols to the end of the body: not unless an exception, of collect_function or
\* of std::stoul, left stream_responses before its reset().
BodyNeverWraps == ~thrown /\ parser.parse_body => parser.length \in 1 .. MaxULong
===============================================================================
