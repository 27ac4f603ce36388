-------------------------------- MODULE Http --------------------------------
(***************************************************************************)
(* net-modules/http.c, the driver: http_get, http_post_str and the chain   *)
(* of redirects.  A redirect is handled inside the response that announced *)
(* it, so a request is a stack of calls: each new request either opens a   *)
(* connection of its own (http_get) or is sent on the connection of the    *)
(* request before it, whose response was not necessarily read to its end.  *)
(*                                                                         *)
(* How the bytes of a response are collected is HttpRead's matter.  Here a *)
(* response arrives as its header block; Rest stands for the part of a     *)
(* body that arrives after read_header has returned.                       *)
(*                                                                         *)
(* No request is encrypted: url2http leaves ssl at 0 whatever the scheme,  *)
(* the requests of proto.c and http-recurse.c are built with 0 or copied,  *)
(* so ssl_flag is 0 in all of them, ssl_ctx NULL, and http_ssl_connect is  *)
(* never called.  A URL of https is fetched like one of http.              *)
(***************************************************************************)
EXTENDS Integers, Sequences

CONSTANTS
    Urls,           \* records [host, port]: what url2http can make of a URL
    Codes,          \* the status codes servers send
    RedirectLimit,  \* HTTP_REDIRECT_LIMIT
    Relative,       \* a Location that url2http refuses, so a path
    None,           \* no Location; no value returned yet
    Rest,           \* the part of a body left on a connection
    Fds             \* bound: descriptors, given out lowest first

ASSUME HttpAssumption ==
    /\ Codes \subseteq Nat
    /\ RedirectLimit \in Nat
    /\ Fds \subseteq Nat \ {0}

VARIABLES
    calls,      \* the nested calls, outermost first
    conns,      \* fd -> the connection behind it
    outcome,    \* what the outermost call returned: its frame, or NoOutcome
    last        \* history: the last status code that was read

vars == <<calls, conns, outcome, last>>

Redirects == {301, 302}
Kinds == {"http_get", "http_post_str", "redirected"}

\* http_request: where it goes, the HTTP version (1 allows a persistent
\* connection), redirects and status.
NewRequest(url) ==
    [host |-> url.host, port |-> url.port, version |-> 1, redirects |-> 0, status |-> 0]

Responses ==
    [code : Codes, old : BOOLEAN, location : Urls \cup {Relative, None},
     keepalive : BOOLEAN, rest : BOOLEAN, to : 1 .. RedirectLimit + 1]

\* What only a redirect is asked for is left out of the other answers.
Final(code, to) ==
    [code |-> code, old |-> FALSE, location |-> None, keepalive |-> FALSE,
     rest |-> FALSE, to |-> to]

NoResponse == [code |-> 0]
NoOutcome == [ret |-> None]
Closed == [open |-> FALSE]

Depth == Len(calls)
Top == calls[Depth]
WithTop(frame) == [calls EXCEPT ![Depth] = frame]

\* A call of http_get or http_post_str, or the second half of
\* http_handle_redirect when it reuses the connection of its caller.
Frame(kind, request, fd, at) ==
    [kind |-> kind, req |-> request, fd |-> fd, at |-> at,
     answer |-> NoResponse, ret |-> None, why |-> "none"]

\* The innermost call is about to return ret; why is kept for the properties.
Returns(frame, ret, why) ==
    [frame EXCEPT !.at = "return", !.ret = ret, !.why = why, !.answer = NoResponse]

OpenFds == {fd \in Fds : conns[fd].open}
FreeFds == Fds \ OpenFds
LowestFree == CHOOSE fd \in FreeFds : \A other \in FreeFds : fd <= other

Init ==
    /\ calls = <<>>
    /\ conns = [fd \in Fds |-> Closed]
    /\ outcome = NoOutcome
    /\ last = 0

\* do_http_task gets a URL, proto_mesg_send posts to its server.
Start ==
    /\ calls = <<>> /\ outcome = NoOutcome
    /\ \E url \in Urls, kind \in {"http_get", "http_post_str"} :
          calls' = <<Frame(kind, NewRequest(url), 0, "connect")>>
    /\ UNCHANGED <<conns, outcome, last>>

-----------------------------------------------------------------------------
(* Setting a connection up.                                                *)

\* http_connect fails: no address, no socket, refused, or timed out.
ConnectFails ==
    /\ calls # <<>> /\ Top.at = "connect"
    /\ calls' = WithTop(Returns(Top, -1, "connect"))
    /\ UNCHANGED <<conns, outcome, last>>

HttpConnect ==
    /\ calls # <<>> /\ Top.at = "connect" /\ FreeFds # {}
    /\ conns' = [conns EXCEPT ![LowestFree] =
                    [open |-> TRUE, host |-> Top.req.host, port |-> Top.req.port,
                     asked |-> <<>>, wire |-> <<>>]]
    /\ calls' = WithTop([Top EXCEPT !.fd = LowestFree, !.at = "send"])
    /\ UNCHANGED <<outcome, last>>

\* Mutant: a request is written twice.
SendRequestTwice ==
    /\ calls # <<>> /\ Top.at = "send"
    /\ conns' = [conns EXCEPT ![Top.fd].asked = @ \o <<Depth, Depth>>]
    /\ calls' = WithTop([Top EXCEPT !.at = "response"])
    /\ UNCHANGED <<outcome, last>>

\* The request goes out whole, or write_from_buffer stops half way and the
\* caller does not look; then the server has nothing to answer.
SendRequest ==
    /\ calls # <<>> /\ Top.at = "send"
    /\ \/ conns' = [conns EXCEPT ![Top.fd].asked = Append(@, Depth)]
       \/ UNCHANGED conns
    /\ calls' = WithTop([Top EXCEPT !.at = "response"])
    /\ UNCHANGED <<outcome, last>>

\* A server answers the oldest request of a connection, whoever still listens.
ServerAnswers ==
    /\ \E fd \in OpenFds, r \in Responses :
          /\ conns[fd].asked # <<>> /\ r.to = Head(conns[fd].asked)
          /\ r.code \notin Redirects => r = Final(r.code, r.to)
          /\ conns' = [conns EXCEPT ![fd].wire = Append(@, r), ![fd].asked = Tail(@)]
    /\ UNCHANGED <<calls, outcome, last>>

-----------------------------------------------------------------------------
(* The response.                                                           *)

\* Nothing comes before the time-out, or the connection closes.
NoHeader ==
    /\ calls # <<>> /\ Top.at = "response" /\ conns[Top.fd].wire = <<>>
    /\ calls' = WithTop(Returns(Top, -1, "silent"))
    /\ UNCHANGED <<conns, outcome, last>>

\* invalid_header: what comes first is the end of the body before it.
InvalidHeader ==
    /\ calls # <<>> /\ Top.at = "response"
    /\ conns[Top.fd].wire # <<>> /\ Head(conns[Top.fd].wire) = Rest
    /\ calls' = WithTop(Returns(Top, -1, "invalid"))
    /\ UNCHANGED <<conns, outcome, last>>

\* The status line is read; the code decides who reads on.
AfterStatus(frame, r) ==
    LET read == [frame EXCEPT !.answer = r, !.req.status = r.code,
                     !.req.version = IF r.old THEN 0 ELSE @]
    IN  CASE r.code = 200        -> [read EXCEPT !.at = "body"]
          [] r.code \in Redirects -> [read EXCEPT !.at = "redirect"]
          [] OTHER                -> Returns(read, r.code, "code")

HandleResponse ==
    /\ calls # <<>> /\ Top.at = "response"
    /\ conns[Top.fd].wire # <<>> /\ Head(conns[Top.fd].wire) # Rest
    /\ LET r == Head(conns[Top.fd].wire)
       IN  /\ calls' = WithTop(AfterStatus(Top, r))
           /\ conns' = [conns EXCEPT ![Top.fd].wire =
                           (IF r.rest THEN <<Rest>> ELSE <<>>) \o Tail(@)]
           /\ last' = r.code
    /\ UNCHANGED outcome

\* http_read_body, then the 0 of a page that was fetched.
ReadBody ==
    /\ calls # <<>> /\ Top.at = "body"
    /\ calls' = WithTop(Returns(Top, 0, "code"))
    /\ conns' = [conns EXCEPT ![Top.fd].wire = <<>>]
    /\ UNCHANGED <<outcome, last>>

\* url2http(Location), or the old request again with another path.
RedirectedRequest(req, location) ==
    LET new == IF location \in Urls THEN NewRequest(location) ELSE req
    IN  [new EXCEPT !.redirects = req.redirects + 1, !.version = req.version]

\* Mutant: a connection that is kept alive is reused for any host.
CanReuseAnyHost(req, new, keepalive) == req.version > 0 /\ keepalive

CanReuse(req, new, keepalive) == req.version > 0 /\ req.host = new.host /\ keepalive

LimitReached(req) == req.redirects >= RedirectLimit

\* http_handle_redirect up to the next request.
HandleRedirect ==
    /\ calls # <<>> /\ Top.at = "redirect"
    /\ LET req == Top.req
           r == Top.answer
           new == RedirectedRequest(req, r.location)
       IN  calls' =
             CASE LimitReached(req) ->
                    WithTop(Returns(Top, -1, "limit"))
               [] ~LimitReached(req) /\ r.location = None ->
                    WithTop(Returns(Top, -1, "no_location"))
               [] OTHER ->
                    Append(WithTop([Top EXCEPT !.at = "redirecting", !.answer = NoResponse]),
                           IF CanReuse(req, new, r.keepalive)
                           THEN Frame("redirected", new, Top.fd, "send")
                           ELSE Frame("http_get", new, 0, "connect"))
    /\ UNCHANGED <<conns, outcome, last>>

-----------------------------------------------------------------------------
(* Returning: the caller's request takes the answer over.                  *)

\* The end of http_handle_redirect and of http_handle_response above it.
CopiedBack(caller, callee) ==
    [Returns(caller, callee.ret, callee.why) EXCEPT
        !.req.redirects = callee.req.redirects, !.req.status = callee.req.status]

\* Mutant: the second half of a redirect closes the socket of its caller.
ClosesSocketOfCaller(frame) == frame.fd # 0

\* Who opened the socket closes it.
ClosesSocket(frame) == frame.kind # "redirected" /\ frame.fd # 0

Return ==
    /\ calls # <<>> /\ Top.at = "return"
    /\ conns' = IF ClosesSocket(Top) THEN [conns EXCEPT ![Top.fd] = Closed] ELSE conns
    /\ IF Depth = 1
       THEN calls' = <<>> /\ outcome' = Top
       ELSE /\ calls' = [SubSeq(calls, 1, Depth - 1) EXCEPT
                            ![Depth - 1] = CopiedBack(calls[Depth - 1], Top)]
            /\ UNCHANGED outcome
    /\ UNCHANGED last

ProbeStep ==
    \/ Start \/ ConnectFails \/ HttpConnect \/ SendRequest
    \/ NoHeader \/ InvalidHeader \/ HandleResponse \/ ReadBody \/ HandleRedirect
    \/ Return

Next == ProbeStep \/ ServerAnswers

Spec == Init /\ [][Next]_vars

\* The probe's thread runs; servers answer or not as they please.
FairSpec == Spec /\ WF_vars(ProbeStep)
-----------------------------------------------------------------------------
(* What do_http_task makes of it.                                          *)

Verdict(frame) ==
    CASE frame.ret # -1                            -> "SUCCESS"
      [] frame.ret = -1 /\ frame.req.status = 302  -> "REDIRECTS_EXCEEDED"
      [] frame.ret = -1 /\ frame.req.status # 302  -> "OTHER_PROBLEM"

-----------------------------------------------------------------------------
(* Properties.                                                             *)

Requests ==
    [host : {u.host : u \in Urls}, port : {u.port : u \in Urls}, version : {0, 1},
     redirects : 0 .. RedirectLimit, status : Codes \cup {0}]

CallOK(frame) ==
    /\ frame.kind \in Kinds /\ frame.req \in Requests
    /\ frame.fd \in Fds \cup {0}
    /\ frame.ret \in Codes \cup {0, -1} \cup {None}

\* The types, and what is on a connection: answers, after at most one rest of a
\* body.
HttpTypeOK ==
    /\ \A i \in 1 .. Depth : CallOK(calls[i])
    /\ outcome # NoOutcome => CallOK(outcome)
    /\ \A fd \in OpenFds : \A i \in 1 .. Len(conns[fd].wire) :
          IF i = 1 THEN conns[fd].wire[i] \in Responses \cup {Rest}
          ELSE conns[fd].wire[i] \in Responses

\* However a chain mixes absolute and relative redirects, new and reused
\* connections: every request in it knows how many came before it, so the
\* nesting (a stack frame and often a socket each) stays within the limit.
RedirectsCounted ==
    /\ Depth <= RedirectLimit + 1
    /\ \A i \in 1 .. Depth :
          calls[i].at # "return" => calls[i].req.redirects = i - 1

\* A request is sent and answered on an open connection to its own host, also
\* when it takes over the connection of another one, which that one closes.
GoesToItsHost ==
    \A i \in 1 .. Depth :
        calls[i].at \in {"send", "response", "body"} =>
            /\ conns[calls[i].fd].open
            /\ conns[calls[i].fd].host = calls[i].req.host

\* http.h:98 says http_get retrieves the URL "from req->host": the server at
\* the address and port of the request.
GetsFromItsServer ==
    \A i \in 1 .. Depth :
        calls[i].at = "response" => conns[calls[i].fd].port = calls[i].req.port

\* A call never takes the answer to another call's request for its own, though
\* several are sent on one connection and bodies between them stay unread.
OwnAnswer ==
    \A i \in 1 .. Depth :
        calls[i].at \in {"body", "redirect"} => calls[i].answer.to = i

\* Every open socket belongs to a call in progress: none is left behind by a
\* failed connect, a bad answer or an exceeded limit, and none that is in use
\* is closed.
NoSocketLeft ==
    OpenFds = {calls[i].fd : i \in {j \in 1 .. Depth : calls[j].fd # 0}}

\* The code in the report is that of the last answer of the chain, whatever
\* level of the nesting received it; a failure reports no code of a page.
StatusFromEndOfChain ==
    outcome # NoOutcome =>
        IF outcome.ret = -1 THEN outcome.req.status \in Redirects \cup {0}
        ELSE /\ outcome.req.status = last
             /\ last \notin Redirects

\* A redirect knows how many came before it, a call takes the answer to its own
\* request, and the code reported is that of the end of the chain
\* (http_handle_redirect, http.c:936).
AnswersAreTheirs == HttpTypeOK /\ RedirectsCounted /\ OwnAnswer /\ StatusFromEndOfChain

\* http.c:894: "Return value is -1 or the HTTP code."
ReturnsTheCode ==
    outcome # NoOutcome => outcome.ret \in {-1, outcome.req.status}

\* work.c:127 and task.h:53: a task whose redirects never finished because there
\* were too many of them is reported as REDIRECTS_EXCEEDED.
LimitIsReported ==
    outcome # NoOutcome /\ outcome.why = "limit" =>
        Verdict(outcome) = "REDIRECTS_EXCEEDED"

\* Silent servers, half-sent requests and redirects in a circle: the call that
\* process_tasks waits for returns.
EveryCallReturns == (calls # <<>>) ~> (calls = <<>>)
=============================================================================
