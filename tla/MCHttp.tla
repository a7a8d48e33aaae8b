--------------------------------- MODULE MCHttp -------------------------------
(* Instances of Http for TLC. *)
EXTENDS Http, SequencesExt

-----------------------------------------------------------------------------
(* Streams: well-formed ones, and each of those with one symbol replaced.   *)

\* Paths as clients send them, decoded: without a query, with a key that is
\* repeated and a space, with empty parameters, with a '&' but no query, and with a
\* query that is empty.
Paths == {<<"x">>, <<"x", "?", "x", "=", "SP", "&", "x">>, <<"x", "?", "&", "=", "&">>,
          <<"&", "x">>, <<"x", "?">>}

Bodies == {<<>>, <<"x">>, <<"CR", "LF">>}

Fields(length, encoding) ==
    [NoHeaders EXCEPT !["Content-Length:"] = length, !["Transfer-Encoding:"] = encoding]

Request(p, h, b) ==
    [first |-> <<<<"GET">>, split_path_query(p), <<"HTTP/1.1">>>>, headers |-> h, body |-> b]

\* Requests as the server has parsed them: without a body, with the length of one,
\* chunked, and chunked with a length in the trailer; and as a client makes them.
Requests ==
    {Request(p, NoHeaders, <<>>) : p \in Paths}
    \cup {Request(<<"x">>, Fields(Decimal(Len(b)), None), b) : b \in Bodies}
    \cup {Request(<<"x">>, Fields(None, <<"chunked">>), b) : b \in Bodies}
    \cup {Request(<<"x">>, Fields(<<n>>, <<"chunked">>), <<"x">>) : n \in {"0", "1", "2"}}
    \cup {Request(<<"x">>, NoHeaders, b) : b \in Bodies}

\* Responses as workers make them, one with a length that is not that of the body.
Responses ==
    {[first |-> <<<<"HTTP/1.1">>, <<2>>, <<"x">>>>, headers |-> h, body |-> b] :
        h \in {NoHeaders, Fields(None, <<"chunked">>), Fields(<<"9">>, None)}, b \in Bodies}

\* The orders to_string may find the parameters of a query and the headers in.
Orders(query) ==
    {ps \in [1 .. Cardinality(query) -> {<<q[1], q[3]>> : q \in query}] : QueryOf(ps) = query}
HeaderOrders(h) ==
    {[k \in DOMAIN ns |-> <<ns[k], h[ns[k]]>>] : ns \in SetToSeqs({n \in Names : h[n] # None})}

\* What a server sends on to its workers, and a worker back to the client.
SentOn(e) == {to_string(e.first, ps, fs, e.body) :
                 ps \in Orders(e.first[2].query), fs \in HeaderOrders(e.headers)}
SentBack(e) == {generic(e.first, fs, e.body) : fs \in HeaderOrders(e.headers)}

RequestStart  == <<"GET">> \o SP \o <<"x">> \o SP \o <<"HTTP/1.1">> \o CRLF
ResponseStart == <<"HTTP/1.1">> \o SP \o <<"2">> \o SP \o <<"x">> \o CRLF
Chunked == <<"Transfer-Encoding:", "SP", "chunked">> \o CRLF \o CRLF
               \o <<"2">> \o CRLF \o <<"x", "CR">> \o CRLF \o <<"0">> \o CRLF
LengthOf(n) == <<"Content-Length:", "SP">> \o n \o CRLF \o CRLF
Ended == <<"Other:", "SP">> \o CRLF \o CRLF

\* Pipelined requests and responses, with a sized body, an empty one, a chunked one
\* and a length that is more than will ever come.
WellFormed ==
    {<<"request", RequestStart \o LengthOf(<<"1">>) \o <<"x">> \o RequestStart \o Ended>>,
     <<"request", RequestStart \o Chunked \o Ended>>,
     <<"request", RequestStart \o LengthOf(<<"2", "2">>) \o <<"x", "x">>>>,
     <<"response", ResponseStart \o LengthOf(<<"0">>) \o ResponseStart \o CRLF>>,
     <<"response", ResponseStart \o Chunked \o Ended>>}

Slips == {"SP", "CR", "LF", "0", "Content-Length:"}

MCStreams ==
    {"request"} \X UNION {SentOn(e) : e \in Requests}
    \cup {"response"} \X UNION {SentBack(e) : e \in Responses}
    \cup WellFormed
    \cup UNION {{<<s[1], [s[2] EXCEPT ![k] = c]>> : k \in DOMAIN s[2], c \in Slips}
                : s \in WellFormed}

-----------------------------------------------------------------------------
(* Properties                                                               *)

\* The entity with the length that was written with it.
Sized(e) == [e EXCEPT !.headers["Content-Length:"] = Decimal(Len(e.body))]
Written(e) == IF e.body # <<>> /\ e.headers["Content-Length:"] = None THEN Sized(e) ELSE e

\* The headers announce the body that the request has.  Two that were parsed from
\* chunks do not: one without a body, as to_string writes no chunks, and one whose
\* trailer has a wrong length.
Announced(e) ==
    LET length == e.headers["Content-Length:"]
    IN  IF length # None THEN Stoul(length, 10) = Len(e.body)
        ELSE e.headers["Transfer-Encoding:"] = <<"chunked">> => e.body # <<>>

\* A worker reads the request that the server has read, its path, query, headers and
\* body, in whatever chunks it comes, although the server decodes the path, splits
\* it and encodes it anew (to_string, src/src/prime_server.cpp:351).  It does so
\* exactly if the headers announce the body there is and the query is not empty:
\* "/p?" is written as "/p", in which from_stream finds a parameter "/p", and of a
\* chunked request without a body from_string finds no end, although "the `work`
\* function assumes its valid HTTP-looking bytes" (src/README.md:209).  A response is
\* always read as it was written.
RoundTrip ==
    arrived = Len(stream) /\ ~Calling =>
        /\ \A e \in Requests :
              kind = "request" /\ stream \in SentOn(e) =>
                  (delivered = <<Written(e)>> <=> Announced(e) /\ e.first[2].query # {})
        /\ \A e \in Responses :
              kind = "response" /\ stream \in SentBack(e) => delivered = <<Sized(e)>>

===============================================================================
