----------------------------- MODULE MCHttpClient -----------------------------
(* Instances of HttpClient for TLC. *)
EXTENDS HttpClient

CRLF == <<"CR", "LF">>
Status == <<"HTTP">>
ContentType == CRLF \o <<"K", "T">>
ContentLength(digits) == CRLF \o <<"K", "L">> \o digits
EndOfHeaders == CRLF \o CRLF

NoBody == Status \o ContentType \o EndOfHeaders
EmptyBody == Status \o ContentLength(<<"0">>) \o EndOfHeaders
\* Bodies that look like headers, or like the end of the headers.
BodyOfReturns == Status \o ContentLength(<<"4">>) \o EndOfHeaders \o CRLF \o CRLF
BodyOfLength == Status \o ContentLength(<<"1", "0">>) \o ContentType \o EndOfHeaders
                \o ContentLength(<<"9">>) \o CRLF \o <<"LF", "x", "NUL">>
TypeFirst == Status \o ContentType \o ContentLength(<<"2">>) \o EndOfHeaders \o <<"7", "CR">>
\* No digits where the length should be.
Lengthless == Status \o ContentLength(<<>>) \o EndOfHeaders

Sent(responses) ==
    [text |-> FlattenSeq(responses),
     ends |-> [i \in DOMAIN responses |-> Len(FlattenSeq(SubSeq(responses, 1, i)))]]

MCStreams == {Sent(<<a, b>>) : a, b \in {NoBody, EmptyBody, BodyOfReturns, BodyOfLength, TypeFirst}}
             \cup {Sent(<<TypeFirst, NoBody, TypeFirst>>), Sent(<<Lengthless, NoBody>>)}
===============================================================================
