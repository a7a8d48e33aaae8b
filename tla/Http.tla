---------------------------------- MODULE Http --------------------------------
(***************************************************************************)
(* http_entity_t of src/http_protocol.cpp, with the incremental parsers    *)
(* http_request_t::from_stream and http_response_t::from_stream that share *)
(* its consume_until.  A stream arrives in chunks that cut it anywhere.    *)
(* Receive starts a call, StartPiece enters an iteration of its loop,      *)
(* Match is one step of consume_until, each case of the switch is an       *)
(* action, and the call ends with RanOut or with a throw.                  *)
(*                                                                         *)
(* The stream is a sequence of symbols.  The separators SP, CR and LF and  *)
(* the digits are characters; a method, a version or the name of a header  *)
(* with its colon is one symbol, since only separators make a difference   *)
(* to consume_until.  Sizes are in symbols.  Log lines, and headers other  *)
(* than the two that say how long a body is, are left out.                 *)
(***************************************************************************)
EXTENDS Naturals, Sequences, FiniteSets, TLC

CONSTANTS Streams,   \* what may arrive: <<kind, symbols>>
          None,      \* no such header
          MaxSize,   \* the max_size from_stream is called with
          MaxULong,  \* the largest size_t
          MaxChunk   \* bound on the length of one chunk

ASSUME HttpAssumption ==
    /\ MaxSize \in Nat /\ MaxULong \in Nat /\ MaxChunk \in Nat
    /\ \A s \in Streams : s[1] \in {"request", "response"} /\ s[2] \in Seq(STRING)

VARIABLES
    kind,            \* which of the two entities this is
    stream,          \* the symbols that arrive
    arrived,         \* how many of them have
    pc,              \* "rest" between calls, "loop" or "match" in one, or what was thrown
    state,           \* http_entity_t::state
    delimiter,       \* http_entity_t::delimiter
    partial_buffer,  \* http_entity_t::partial_buffer
    partial_length,  \* http_entity_t::partial_length
    body_length,     \* http_entity_t::body_length
    consumed,        \* http_entity_t::consumed
    first,           \* the pieces of the first line
    headers,         \* http_entity_t::headers
    body,            \* http_entity_t::body
    chunk,           \* what is left from cursor to end
    current,         \* how much of it consume_until has looked at
    entities,        \* the list this call is going to return
    delivered,       \* history: everything returned so far
    began            \* history: how much of the stream came before this entity

input  == <<kind, stream, arrived>>
piece  == <<partial_buffer, partial_length, body_length, consumed, chunk, current>>
entity == <<state, delimiter, first, headers, body>>
results == <<entities, delivered, began>>
vars   == <<input, pc, piece, entity, results>>

Methods  == {"GET"}
Versions == {"HTTP/1.1"}

\* The longest method, and the longest version with the CR that may follow it,
\* are one symbol short of these.
METHOD_MAX_SIZE  == 2
VERSION_MAX_SIZE == 3

\* code is a uint16_t.
MaxCode == 65536

SP   == <<"SP">>
CRLF == <<"CR", "LF">>

Names     == {"Content-Length:", "Transfer-Encoding:"}
Colons    == Names \cup {"Other:"}
NoHeaders == [n \in Names |-> None]

Upto(s, n)  == SubSeq(s, 1, n)
After(s, n) == SubSeq(s, n + 1, Len(s))

\* The first of the places K in s, and the one behind its end without any.
FirstOf(s, K) == CHOOSE k \in K \cup {Len(s) + 1} : \A n \in K : k <= n

-----------------------------------------------------------------------------
(* std::stoul and std::to_string                                            *)

Digits == <<"0", "1", "2", "3", "4", "5", "6", "7", "8", "9">>
IsDigit(c) == \E d \in DOMAIN Digits : Digits[d] = c
Digit(c) == (CHOOSE d \in DOMAIN Digits : Digits[d] = c) - 1

\* Leading space is skipped and whatever follows the digits ignored.  No stream has
\* a sign, and none a digit above nine for the lengths of chunks.
Leading(s) ==
    LET t == After(s, FirstOf(s, {k \in DOMAIN s : s[k] # "SP"}) - 1)
    IN  Upto(t, FirstOf(t, {k \in DOMAIN t : ~IsDigit(t[k])}) - 1)

Stoul(s, base) ==
    LET d == Leading(s)
        upTo[n \in 0 .. Len(d)] == IF n = 0 THEN 0 ELSE base * upTo[n - 1] + Digit(d[n])
    IN  upTo[Len(d)]

IsNumber(s, base) == Leading(s) # <<>> /\ Stoul(s, base) \in 0 .. MaxULong

\* The codes and lengths that are written are below ten.
Decimal(n) == <<Digits[n + 1]>>

-----------------------------------------------------------------------------
(* The query.  libcurl escapes whatever is not unreserved.                  *)

Escapes == [SP |-> "%20", CR |-> "%0D", LF |-> "%0A"]
           @@ ("?" :> "%3F") @@ ("&" :> "%26") @@ ("=" :> "%3D")

url_encode(s) == [k \in DOMAIN s |-> IF s[k] \in DOMAIN Escapes THEN Escapes[s[k]] ELSE s[k]]

url_decode(s) ==
    [k \in DOMAIN s |-> IF \E c \in DOMAIN Escapes : Escapes[c] = s[k]
                        THEN CHOOSE c \in DOMAIN Escapes : Escapes[c] = s[k] ELSE s[k]]

\* A query_t: the n-th value of each key.  The order of the keys is nobody's.
QueryOf(params) ==
    {<<params[n][1],
       Cardinality({m \in DOMAIN params : m < n /\ params[m][1] = params[n][1]}),
       params[n][2]>> : n \in DOMAIN params}

\* The value of a parameter is what follows its first '='.
Param(s) == LET e == FirstOf(s, {n \in DOMAIN s : s[n] = "="}) IN <<Upto(s, e - 1), After(s, e)>>

\* The parameters of s, each at the place it starts behind.  An empty one counts,
\* but not at the end.
Params(s) ==
    LET amps == {n \in DOMAIN s : s[n] = "&"}
    IN  [k \in {k \in {0} \cup amps : k < Len(s)} |->
            Param(SubSeq(s, k + 1, FirstOf(s, {n \in amps : n > k}) - 1))]

\* Without a '?' path.find returns npos, and npos + 1 is 0: all of the path is
\* taken for a query as well.
split_path_query(s) ==
    LET q == FirstOf(s, {n \in DOMAIN s : s[n] = "?"})
    IN  [path |-> Upto(s, q - 1), query |-> QueryOf(Params(After(s, q % (Len(s) + 1))))]

\* How a path and parameters are put together again, whether they had a '=' or not.
PathAndQuery(path, params) ==
    LET upTo[n \in 0 .. Len(params)] ==
          IF n = 0 THEN path
          ELSE upTo[n - 1] \o <<IF n = 1 THEN "?" ELSE "&">> \o params[n][1]
                   \o <<"=">> \o params[n][2]
    IN  upTo[Len(params)]

-----------------------------------------------------------------------------
(* consume_until                                                            *)

Receive(n) ==
    /\ pc = "rest" /\ arrived + n <= Len(stream)
    /\ pc' = "loop" /\ arrived' = arrived + n
    /\ chunk' = SubSeq(stream, arrived + 1, arrived + n) /\ current' = 0
    /\ entities' = <<>>
    /\ UNCHANGED <<kind, stream, partial_buffer, partial_length, body_length, consumed,
                   entity, delivered, began>>

\* "bail if we've seen too much": the sum is a size_t.  Responses have no limit.
TooMuch == /\ kind = "request"
           /\ (consumed + Len(partial_buffer) + body_length) % (MaxULong + 1) > MaxSize

\* How much of a body of known length this chunk holds.
Counted == IF Len(chunk) > body_length THEN body_length ELSE Len(chunk)

\* The head of the loop, and the part of consume_until that counts a body.
StartPiece ==
    /\ pc = "loop"
    /\ \/ /\ TooMuch
          /\ pc' = "413"
          /\ UNCHANGED <<current, body_length>>
       \/ /\ ~TooMuch
          /\ pc' = "match"
          /\ current' = Counted
          /\ body_length' = body_length - Counted
    /\ UNCHANGED <<input, partial_buffer, partial_length, consumed, chunk, entity,
                   results>>

\* Faulty variant: a mismatch does not start over.
KeepsMatch(c) == IF c = delimiter[partial_length + 1] THEN partial_length + 1
                 ELSE partial_length

\* How much of the delimiter has been seen after one more symbol.
Matched(c) == IF c = delimiter[partial_length + 1] THEN partial_length + 1 ELSE 0

Match ==
    /\ pc = "match" /\ partial_length < Len(delimiter) /\ current < Len(chunk)
    /\ partial_length' = Matched(chunk[current + 1])
    /\ current' = current + 1
    /\ UNCHANGED <<input, pc, partial_buffer, body_length, consumed, chunk, entity,
                   results>>

\* Faulty variant: a body that is not complete is waited for in the loop.
OutOfLine == current = Len(chunk) /\ partial_length < Len(delimiter) /\ body_length = 0

Found == pc = "match" /\ partial_length = Len(delimiter) /\ body_length = 0
OutOfSymbols == current = Len(chunk) /\ (partial_length < Len(delimiter) \/ body_length > 0)

\* What consume_until leaves in partial_buffer when it found the delimiter.
Piece == IF current < partial_length
         THEN Upto(partial_buffer, Len(partial_buffer) - (partial_length - current))
         ELSE partial_buffer \o Upto(chunk, current - partial_length)

\* Faulty variant: a version is given up as soon as it could be complete.
OverlongEarly(s) == \/ state = "METHOD" /\ Len(s) >= METHOD_MAX_SIZE
                    \/ state = "VERSION" /\ Len(s) >= VERSION_MAX_SIZE - 1

\* "should we have seen a method by now?"
Overlong(s) == \/ state = "METHOD" /\ Len(s) >= METHOD_MAX_SIZE
               \/ state = "VERSION" /\ Len(s) >= VERSION_MAX_SIZE

\* consume_until keeps what it has and the call returns, or gives up.
RanOut ==
    /\ pc = "match" /\ OutOfSymbols
    /\ partial_buffer' = partial_buffer \o chunk
    /\ chunk' = <<>> /\ current' = 0
    /\ \/ /\ kind = "request" /\ Overlong(partial_buffer')
          /\ pc' = "400"
          /\ UNCHANGED <<entities, delivered>>
       \/ /\ kind = "response" \/ ~Overlong(partial_buffer')
          /\ pc' = "rest"
          /\ delivered' = delivered \o entities /\ entities' = <<>>
    /\ UNCHANGED <<input, partial_length, body_length, consumed, entity, began>>

\* The delimiter is behind cursor, and partial_buffer is cleared after the switch.
NextPiece ==
    /\ pc' = "loop"
    /\ partial_buffer' = <<>> /\ partial_length' = 0
    /\ chunk' = After(chunk, current) /\ current' = 0

\* What a throw leaves in the entity is not followed further: from_string's callers
\* drop it, and so does enqueue's with the session, unless the disconnect cannot be
\* sent.
Throw(what) == pc' = what /\ UNCHANGED <<input, piece, entity, results>>

-----------------------------------------------------------------------------
(* The switch of the two from_stream                                        *)

\* A piece of the first line: what the line is with it, and where it leads.
LinePiece(line, next, delim) ==
    /\ NextPiece
    /\ state' = next /\ delimiter' = delim
    /\ first' = line
    /\ consumed' = consumed + current
    /\ UNCHANGED <<input, body_length, headers, body, results>>

Is(s, words) == \E w \in words : s = <<w>>

Method ==
    /\ Found /\ kind = "request" /\ state = "METHOD"
    /\ IF Is(Piece, Methods) THEN LinePiece(<<Piece>>, "PATH", SP) ELSE Throw("501")

Path ==
    /\ Found /\ kind = "request" /\ state = "PATH"
    /\ LinePiece(Append(first, url_decode(Piece)), "VERSION", CRLF)

RequestVersion ==
    /\ Found /\ kind = "request" /\ state = "VERSION"
    /\ IF Is(Piece, Versions)
       THEN LinePiece(<<first[1], split_path_query(first[2]), Piece>>, "HEADERS", CRLF)
       ELSE Throw("505")

ResponseVersion ==
    /\ Found /\ kind = "response" /\ state = "VERSION"
    /\ IF Is(Piece, Versions) THEN LinePiece(<<Piece>>, "CODE", SP) ELSE Throw("runtime_error")

Code ==
    /\ Found /\ kind = "response" /\ state = "CODE"
    /\ IF IsNumber(Piece, 10)
       THEN LinePiece(Append(first, <<Stoul(Piece, 10) % MaxCode>>), "MESSAGE", CRLF)
       ELSE Throw("logic_error")

Message ==
    /\ Found /\ kind = "response" /\ state = "MESSAGE"
    /\ LinePiece(Append(first, Piece), "HEADERS", CRLF)

\* A request's header has a colon, and any space behind it is skipped; a
\* response's has a colon and one space.
Colon(s) ==
    FirstOf(s, {n \in DOMAIN s : /\ s[n] \in Colons
                                 /\ kind = "response" => n < Len(s) /\ s[n + 1] = "SP"})
HasColon(s) == Colon(s) <= Len(s)

FieldValue(s) ==
    LET rest == After(s, Colon(s))
    IN  IF kind = "request"
        THEN After(rest, FirstOf(rest, {k \in DOMAIN rest : rest[k] # "SP"}) - 1)
        ELSE After(rest, 1)

\* headers.insert, which leaves a header that is there alone
Inserted(s) ==
    IF Colon(s) = 1 /\ s[1] \in Names /\ headers[s[1]] = None
    THEN [headers EXCEPT ![s[1]] = FieldValue(s)]
    ELSE headers

Bad == IF kind = "request" THEN "400" ELSE "runtime_error"

Header ==
    /\ Found /\ state \in {"HEADERS", "TRAILER"} /\ Piece # <<>>
    /\ \/ ~HasColon(Piece) /\ Throw(Bad)
       \/ /\ HasColon(Piece)
          /\ NextPiece
          /\ headers' = Inserted(Piece)
          /\ consumed' = consumed + current
          /\ UNCHANGED <<input, body_length, state, delimiter, first, body, results>>

\* Faulty variant: consumed counts on.
FlushedKeepsCount == consumed + current

\* flush_stream resets consumed with the rest of the entity.
Flushed == 0

Emit(b) ==
    /\ NextPiece
    /\ entities' = Append(entities, [first |-> first, headers |-> headers, body |-> b])
    /\ state' = IF kind = "request" THEN "METHOD" ELSE "VERSION"
    /\ delimiter' = SP
    /\ first' = <<>> /\ headers' = NoHeaders /\ body' = <<>>
    /\ body_length' = 0 /\ consumed' = Flushed
    /\ began' = arrived - Len(chunk')
    /\ UNCHANGED <<input, delivered>>

\* What a blank line in the headers leads to; n is what body_length becomes.
Expect(next, delim, n) ==
    /\ NextPiece
    /\ state' = next /\ delimiter' = delim /\ body_length' = n
    /\ consumed' = consumed + current
    /\ UNCHANGED <<input, first, headers, body, results>>

\* Nothing but its length ends a body.
BodyDelimiter == <<>>

BlankLine ==
    /\ Found /\ state = "HEADERS" /\ Piece = <<>>
    /\ LET length == headers["Content-Length:"]
           encoding == headers["Transfer-Encoding:"]
       IN  \/ /\ length # None /\ IsNumber(length, 10)
              /\ Expect("BODY", BodyDelimiter, Stoul(length, 10))
           \/ /\ length # None /\ ~IsNumber(length, 10)
              /\ Throw(IF kind = "request" THEN "400" ELSE "logic_error")
           \/ /\ length = None /\ encoding = <<"chunked">>
              /\ Expect("CHUNK_LENGTH", CRLF, 0)
           \/ /\ length = None /\ encoding # <<"chunked">>
              /\ Emit(body)

EndOfTrailer == Found /\ state = "TRAILER" /\ Piece = <<>> /\ Emit(body)

Body == Found /\ state = "BODY" /\ Emit(Piece)

ChunkLength ==
    /\ Found /\ state = "CHUNK_LENGTH"
    /\ \/ ~IsNumber(Piece, 16) /\ Throw(Bad)
       \/ /\ IsNumber(Piece, 16)
          /\ Expect(IF Stoul(Piece, 16) > 0 THEN "CHUNK" ELSE "TRAILER", CRLF, Stoul(Piece, 16))

Chunk ==
    /\ Found /\ state = "CHUNK"
    /\ NextPiece
    /\ body' = body \o Piece /\ state' = "CHUNK_LENGTH"
    /\ consumed' = consumed + current
    /\ UNCHANGED <<input, body_length, delimiter, first, headers, results>>

from_stream ==
    \/ StartPiece \/ Match \/ RanOut
    \/ Method \/ Path \/ RequestVersion \/ ResponseVersion \/ Code \/ Message
    \/ Header \/ BlankLine \/ EndOfTrailer \/ Body \/ ChunkLength \/ Chunk

Init ==
    /\ \E s \in Streams : kind = s[1] /\ stream = s[2]
    /\ arrived = 0 /\ pc = "rest"
    /\ state = IF kind = "request" THEN "METHOD" ELSE "VERSION"
    /\ delimiter = SP
    /\ partial_buffer = <<>> /\ partial_length = 0 /\ body_length = 0 /\ consumed = 0
    /\ first = <<>> /\ headers = NoHeaders /\ body = <<>>
    /\ chunk = <<>> /\ current = 0 /\ entities = <<>> /\ delivered = <<>>
    /\ began = 0

Next == from_stream \/ \E n \in 1 .. MaxChunk : Receive(n)

Spec == Init /\ [][Next]_vars

\* A call of from_stream runs to its end.
FairSpec == Spec /\ WF_vars(from_stream)

-----------------------------------------------------------------------------
(* to_string of a request and generic of a response: how an entity with this *)
(* body is written, the first line being its three pieces.  The parameters   *)
(* are those of the query and the fields <<name, value>> those of the        *)
(* headers, in an order that unordered_map iterates them in.                 *)

FieldLines(fields) ==
    LET upTo[n \in 0 .. Len(fields)] ==
          IF n = 0 THEN <<>>
          ELSE upTo[n - 1] \o <<fields[n][1], "SP">> \o fields[n][2] \o CRLF
    IN  upTo[Len(fields)]

LengthHeader(b) == FieldLines(<<<<"Content-Length:", Decimal(Len(b))>>>>)
IsLength(field) == field[1] = "Content-Length:"


\* A body whose length the headers do not give.
MissingLength(fields, b) ==
    IF b # <<>> /\ ~\E n \in DOMAIN fields : IsLength(fields[n]) THEN LengthHeader(b) ELSE <<>>

to_string(line, params, fields, b) ==
    line[1] \o SP \o url_encode(PathAndQuery(line[2].path, params)) \o SP \o line[3] \o CRLF
        \o FieldLines(fields) \o MissingLength(fields, b) \o CRLF \o b

\* A response always gets its length, and no other one.
generic(line, fields, b) ==
    line[1] \o SP \o Decimal(line[2][1]) \o SP \o line[3] \o CRLF
        \o FieldLines(SelectSeq(fields, LAMBDA f : ~IsLength(f))) \o LengthHeader(b) \o CRLF \o b

-----------------------------------------------------------------------------
(* What a stream contains, read at once: a reader that has its first m       *)
(* symbols in front of it takes one piece after the other.                   *)

\* The symbols behind b and up to k end with an odd number of CRs.
OddReturns(b, k) ==
    \E h \in 0 .. k : /\ b < k - 2 * h
                      /\ \A j \in k - 2 * h .. k : stream[j] = "CR"
                      /\ b < k - 2 * h - 1 => stream[k - 2 * h - 1] # "CR"

\* A line ends at a LF behind an odd number of CRs: consume_until starts over at a
\* CR that it did not expect, and so misses every second one.
EndsLine(b, k) == stream[k] = "LF" /\ OddReturns(b, k - 1)

\* A reader has read up to the place at, and what it reads next is a piece of a
\* first line, a field or the trailer's, a body or the size or the data of a chunk;
\* need is how much of that is known to come, from where the entity began.
Start == [stage |-> "line", first |-> <<>>, headers |-> NoHeaders, body |-> <<>>,
          need |-> 0, at |-> 0, from |-> 0, entities |-> <<>>]

\* The places where the piece that begins behind r.at may end, and how much of it
\* is its delimiter.
IsWord(r) == r.stage = "line" /\ Len(r.first) < 2
EndsPiece(r, k) ==
    IF r.stage = "sized" THEN k = r.at + r.need
    ELSE /\ r.at + r.need < k
         /\ IF IsWord(r) THEN stream[k] = "SP" ELSE EndsLine(r.at + r.need, k)
Ends(m, r) == {k \in r.at .. m : EndsPiece(r, k)}
Width(r) == IF r.stage = "sized" THEN 0 ELSE IF IsWord(r) THEN 1 ELSE 2

\* The reader behind the end of a piece, in front of the next one, and stuck.
Behind(r, e) == [r EXCEPT !.at = e, !.need = 0]
Expecting(r, stage, n) == [r EXCEPT !.stage = stage, !.need = n]
Wrong(r) == [r EXCEPT !.stage = "wrong"]

\* The entity is complete, with the body b.
Whole(r, b) ==
    [Start EXCEPT !.at = r.at, !.from = r.at,
                  !.entities = Append(r.entities, [first |-> r.first, headers |-> r.headers,
                                                   body |-> b])]

\* The n-th piece of a first line: what it may be, how long it is waited for and
\* what is kept of it.
IsPiece(n, p) ==
    IF kind = "request" THEN (n = 1 => Is(p, Methods)) /\ (n = 3 => Is(p, Versions))
    ELSE (n = 1 => Is(p, Versions)) /\ (n = 2 => IsNumber(p, 10))
GivenUp(n, length) ==
    /\ kind = "request"
    /\ (n = 1 /\ length >= METHOD_MAX_SIZE) \/ (n = 3 /\ length >= VERSION_MAX_SIZE)
Kept(n, p) == IF n # 2 THEN p
              ELSE IF kind = "response" THEN <<Stoul(p, 10) % MaxCode>>
              ELSE split_path_query(url_decode(p))
LineRead(r, p) ==
    IF ~IsPiece(Len(r.first) + 1, p) THEN Wrong(r)
    ELSE Expecting([r EXCEPT !.first = Append(@, Kept(Len(@) + 1, p))],
                   IF Len(r.first) = 2 THEN "fields" ELSE "line", 0)

\* The first field of a name counts.
With(h, f) == IF Colon(f) = 1 /\ f[1] \in Names /\ h[f[1]] = None
              THEN [h EXCEPT ![f[1]] = FieldValue(f)] ELSE h
FieldRead(r, p) == IF HasColon(p) THEN [r EXCEPT !.headers = With(@, p)] ELSE Wrong(r)

\* What the headers announce.
HeadersRead(r) ==
    LET length == r.headers["Content-Length:"]
    IN  IF length # None
        THEN IF IsNumber(length, 10) THEN Expecting(r, "sized", Stoul(length, 10)) ELSE Wrong(r)
        ELSE IF r.headers["Transfer-Encoding:"] = <<"chunked">> THEN Expecting(r, "size", 0)
        ELSE Whole(r, r.body)

SizeRead(r, p) ==
    IF ~IsNumber(p, 16) THEN Wrong(r)
    ELSE Expecting(r, IF Stoul(p, 16) > 0 THEN "data" ELSE "trailer", Stoul(p, 16))

\* The reader behind a piece, of which it has read p.
Took(r, p) ==
    CASE r.stage = "line" -> LineRead(r, p)
      [] r.stage \in {"fields", "trailer"} /\ p # <<>> -> FieldRead(r, p)
      [] r.stage = "fields" /\ p = <<>> -> HeadersRead(r)
      [] r.stage = "trailer" /\ p = <<>> -> Whole(r, r.body)
      [] r.stage = "size" -> SizeRead(r, p)
      [] r.stage = "data" -> Expecting([r EXCEPT !.body = @ \o p], "size", 0)
      [] r.stage = "sized" -> Whole(r, p)

TookUpTo(r, e) == Took(Behind(r, e), SubSeq(stream, r.at + 1, e - Width(r)))
FirstEnd(K) == CHOOSE e \in K : \A k \in K : e <= k
Stopped(m, r) ==
    [r EXCEPT !.stage = IF r.stage = "line" /\ GivenUp(Len(r.first) + 1, m - r.at)
                        THEN "wrong" ELSE "short"]
Read(m, r) ==
    LET ends == Ends(m, r)
    IN  IF r.stage \in {"short", "wrong"} THEN r
        ELSE IF ends = {} THEN Stopped(m, r)
        ELSE TookUpTo(r, FirstEnd(ends))

\* The reader after n pieces.  No more than every second is empty.
Reading(m) == LET after[n \in Nat] == IF n = 0 THEN Start ELSE Read(m, after[n - 1]) IN after
Contents(m) == Reading(m)[2 * m + 1]

-----------------------------------------------------------------------------
(* Properties                                                               *)

Calling == pc \in {"loop", "match"}
Failed  == ~Calling /\ pc # "rest"

\* The type invariant of the entity and of the locals of the two functions.
TypeOK ==
    /\ pc \in {"rest", "loop", "match", "400", "413", "501", "505", "runtime_error",
               "logic_error"}
    /\ state \in {"METHOD", "PATH", "VERSION", "CODE", "MESSAGE", "HEADERS", "BODY",
                  "CHUNK_LENGTH", "CHUNK", "TRAILER"}
    /\ delimiter \in {SP, CRLF, <<>>}
    /\ partial_length \in 0 .. Len(delimiter) /\ body_length \in 0 .. MaxULong
    /\ current \in 0 .. Len(chunk) /\ arrived \in 0 .. Len(stream)
    /\ began \in 0 .. arrived /\ consumed \in 0 .. arrived - began
    /\ Len(partial_buffer) + Len(chunk) <= arrived - began

\* What has been looked at of the current piece, over all of its chunks.
Seen == partial_buffer \o Upto(chunk, current)

\* partial_length counts symbols that really are the last ones seen, in whatever
\* chunks they came: when the delimiter is complete, what consume_until cuts off,
\* from the buffer of earlier calls too, is the delimiter and nothing but it
\* (partial_buffer.resize, src/src/http_protocol.cpp:222).
CutsDelimiterOnly ==
    ~Failed => /\ partial_length <= Len(Seen)
               /\ \A k \in 1 .. partial_length :
                     Seen[Len(Seen) - partial_length + k] = delimiter[k]

\* A request is refused as too large only if it is: what has been read of it, from
\* where it began, and what its Content-Length announces exceed max_size, whatever
\* came before it on the same connection.
RefusesTooLarge ==
    pc = "413" => (arrived - Len(chunk)) - began + body_length > MaxSize

\* However the stream was cut into chunks, the entities that from_stream has
\* returned are those the stream contains so far, and the next one begins behind
\* the last of them.  It throws only where the stream is malformed, apart from its
\* limit.
ChunksDoNotMatter ==
    LET contents == Contents(arrived)
    IN  /\ pc = "rest" => /\ contents.stage = "short"
                          /\ contents.entities = delivered /\ contents.from = began
        /\ Failed /\ pc # "413" => contents.stage = "wrong"

\* A call of from_stream returns or throws: no piece is taken without end, an
\* empty body included.
CallEnds == Calling ~> ~Calling
===============================================================================
