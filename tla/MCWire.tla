------------------------------- MODULE MCWire -------------------------------
(* What goes over the wire: Url, with URLs of the documented form and up to   *)
(* two tokens in the path, with any four tokens after the scheme, with any    *)
(* three behind a ":" alone, and some without one; NvList, with lists of up   *)
(* to three pairs and received strings of up to five characters; Chunked,     *)
(* with chunks of bytes like size lines and blank lines, cut anywhere;        *)
(* Exchange, with reports of up to MAX_TASKS results and numbers of one to    *)
(* eleven characters; Icmp, with two pings of two requests whose words make   *)
(* carries.  A behaviour is one of the five, the variables of the others keep *)
(* their values.                                                              *)
EXTENDS Url, NvList, Chunked, Exchange, Icmp, TLC

VARIABLE
    part        \* the one that runs

vars == <<part, urlVars, nvVars, chunkVars, exchangeVars, icmpVars>>

-----------------------------------------------------------------------------
(* URLs.                                                                     *)

UpTo(k, set) == UNION {[1 .. j -> set] : j \in 0 .. k}

SomeWords == {"a", "80"}
Tokens == SomeWords \cup Delimiter
OneWord == {<<"a">>, <<"80">>}
Documented ==
    {user \o h \o port \o <<"/">> \o path :
        user \in {<<>>} \cup {u \o p \o <<"@">> : u \in OneWord, p \in {<<":", "a">>, <<>>}},
        h \in OneWord, port \in {<<":", "80">>, <<>>}, path \in UpTo(2, Tokens)}
SomeUrls ==
    {<<s, ":", "/", "/">> \o u : s \in {"http", "https"}, u \in Documented \cup UpTo(2, Tokens)}
    \cup {<<"http", ":", "/", "/">> \o u : u \in UpTo(4, Tokens)}
    \cup {<<>>, <<"a">>, <<"http">>, <<"http", "/", "a">>, <<"a", ":", "/", "/">>}
    \cup {<<"http", ":">> \o u : u \in UpTo(3, Tokens)}

-----------------------------------------------------------------------------
(* Lists.                                                                    *)

TwoDigits == "&" :> <<"2", "6">> @@ "=" :> <<"3", "2">> @@ "%" :> <<"2", "2">>
SomeNames == {<<"2">>, <<"2", "6">>}
SomeValues == UpTo(1, {"6", "&", "=", "%"}) \cup {<<"&", "=">>, <<"%", "%">>, <<"%", "6">>}
SomeBodies == UpTo(5, {"2", "&", "=", "%"})

-----------------------------------------------------------------------------
(* Chunked bodies, exchanges and pings.                                      *)

\* Up to two chunks of bytes like size lines, last chunks and blank lines; the longest
\* is said to go on behind a body that is cut after its size line.
AllBytes == {0, 2, CR, LF}
SomeChunks == {<<0>>, <<CR, LF>>, <<2, CR>>, <<0, CR, LF, 0>>, <<CR, LF, 0, CR>>}
SomeTransfers == UpTo(2, SomeChunks)

SomeInts == {0, 10, 999999999, 2147483647, -2147483647}
OtherBodies == {0, 40, 1500}
AnswerSizes == {0, 59, 60, 61, 2000}

SomePayloads == {<<255, 255, 255, 255, 1>>, <<248, 255, 255, 255>>, <<>>}

-----------------------------------------------------------------------------
\* Where a part that does not run stays.
NoUrl == url = <<>> /\ UrlInit
NoList == doing = "insert" /\ NvInit
NoChunks == chunks = <<>> /\ pos = 0 /\ ChunkedInit
NoExchange == caller = "checkin" /\ ExchangeInit
NoPing == ident = 0 /\ IcmpInit

Init ==
    \/ part = "url" /\ UrlInit /\ NoList /\ NoChunks /\ NoExchange /\ NoPing
    \/ part = "list" /\ NvInit /\ NoUrl /\ NoChunks /\ NoExchange /\ NoPing
    \/ part = "chunked" /\ ChunkedInit /\ NoUrl /\ NoList /\ NoExchange /\ NoPing
    \/ part = "exchange" /\ ExchangeInit /\ NoUrl /\ NoList /\ NoChunks /\ NoPing
    \/ part = "ping" /\ IcmpInit /\ NoUrl /\ NoList /\ NoChunks /\ NoExchange

\* What was called has returned, crashed or aborted; or the pings are done, or
\* one waits for an answer that was lost.
Over ==
    /\ \/ part = "url" /\ fn \in {"request", "bad", "abort", "outside"}
       \/ part = "list" /\ doing \in {"done", "crash"}
       \/ part = "chunked" /\ reader = "end"
       \/ part = "exchange" /\ stage \in {"returned", "abort"}
       \/ part = "ping" /\ pc \in {"task", "recvfrom"}
    /\ UNCHANGED vars

Next ==
    \/ /\ part = "url" /\ UrlNext
       /\ UNCHANGED <<part, nvVars, chunkVars, exchangeVars, icmpVars>>
    \/ /\ part = "list" /\ NvNext
       /\ UNCHANGED <<part, urlVars, chunkVars, exchangeVars, icmpVars>>
    \/ /\ part = "chunked" /\ ChunkedNext
       /\ UNCHANGED <<part, urlVars, nvVars, exchangeVars, icmpVars>>
    \/ /\ part = "exchange" /\ ExchangeNext
       /\ UNCHANGED <<part, urlVars, nvVars, chunkVars, icmpVars>>
    \/ /\ part = "ping" /\ IcmpNext
       /\ UNCHANGED <<part, urlVars, nvVars, chunkVars, exchangeVars>>
    \/ Over

\* The fairness of Chunked (which can go on wherever it is but at its end),
\* Exchange and Icmp.
Spec ==
    /\ Init /\ [][Next]_vars
    /\ []<>(part # "chunked" \/ reader = "end") \/ []<><<part = "chunked" /\ ChunkedNext>>_chunkVars
    /\ WF_exchangeVars(part = "exchange" /\ (Build \/ Sleep \/ Post))
    /\ WF_exchangeVars(part = "exchange" /\ (NameResolved \/ NameNotResolved))
    /\ SF_exchangeVars(part = "exchange" /\ NameResolved)
    /\ WF_exchangeVars(part = "exchange" /\ (NoAnswer \/ Answered))
    /\ SF_exchangeVars(part = "exchange" /\ Answered)
    /\ WF_icmpVars(part = "ping" /\ Step)
    /\ WF_icmpVars(part = "ping" /\ HostAnswers)

-----------------------------------------------------------------------------
(* The other properties are those of the modules.                            *)

Waiting ==
    \/ part = "chunked" /\ reader # "end"
    \/ part = "exchange" /\ stage \notin {"returned", "abort"}
    \/ part = "ping" /\ pc = "recvfrom" /\ faults = 0

\* The reading of a transfer stops; an exchange ends, though look-ups and posts
\* fail many times; and while nothing is lost, a ping that waits for an answer
\* goes on: ReadingStops, ExchangeEnds and AnsweredPingGoesOn.
WaitsEnd == Waiting ~> ~Waiting
=============================================================================
