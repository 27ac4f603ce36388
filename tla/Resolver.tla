------------------------------ MODULE Resolver ------------------------------
(***************************************************************************)
(* resolve() of net-modules/dns.c and the part of libares it runs: the     *)
(* look-up of one name in the order of channel->lookups (hosts file, DNS), *)
(* the search through the domains, one query after another sent to the     *)
(* name servers in turn over UDP and, after a truncated answer, TCP, and   *)
(* the select loop that reads, retries and gives up.                       *)
(*                                                                         *)
(* Calls of ares_process run step by step: pc says where the code is, back *)
(* where a step called from the loop returns to.  A candidate is a name    *)
(* that is asked for: 0 the name as it is, k the name in domain k.         *)
(***************************************************************************)
EXTENDS Integers, Sequences, FiniteSets, SequencesExt

CONSTANTS
    Settings,   \* how the channel may be set up, and what it meets
    Signals     \* whether a signal may interrupt select()

Name == {"plain", "dotted", "rooted", "alias", "no_alias", "numeric", "bad_number"}
Kind == {"address", "alias_only", "no_name", "format", "refused", "truncated"}

\* channel->nservers, tries, ndomains and the values of lookups: sequences of "b"
\* and "f"; the kinds of names looked up and of answers the servers give.
ResolverAssumption ==
    /\ \A s \in Settings :
         /\ s.nservers \in Nat \ {0} /\ s.tries \in Nat \ {0} /\ s.ndomains \in Nat
         /\ s.orders \subseteq Seq({"b", "f"})
         /\ s.names \subseteq Name /\ s.kinds \subseteq Kind
    /\ Signals \in BOOLEAN

VARIABLES
    setting,    \* what resolv.conf says, and who is asked for and answers
    name,       \* the kind of name
    in_hosts,   \* it is in the hosts file
    nonblock,   \* the flag bit open_tcp_socket takes from an uninitialised int
    pc,         \* what the code does next
    back,       \* the step of the loop it goes back to
    at,         \* the server the step is at
    ready,      \* the descriptors select reported: read, write
    due,        \* time(&now) is past the query's timeout
    lookups,    \* hquery->remaining_lookups
    squery,     \* ares_search's state
    query,      \* the query in channel->queries
    status,     \* what end_query is called with
    next_id,    \* channel->next_id
    servers,    \* channel->servers: sockets and send queues
    inbox,      \* what a descriptor has to read
    asked,      \* requests on their way to the servers
    ip,         \* what the callback has stored: "-", an address of a candidate, a failure
    calls,      \* history: how often it was called
    tried       \* history: the candidates asked for in this search, in order

resolverVars ==
    <<setting, name, in_hosts, nonblock, pc, back, at, ready, due, lookups, squery, query,
      status, next_id, servers, inbox, asked, ip, calls, tried>>

env == <<setting, name, in_hosts, nonblock>>

NServers == setting.nservers
Tries == setting.tries
NDomains == setting.ndomains

Servers == 1 .. NServers
Fds == 1 .. 2 * NServers
Closed == 0             \* -1 in the code

NoQuery == [qid |-> 0, of |-> 0, try |-> 0, server |-> 0, skip |-> {}, tcp |-> FALSE,
            armed |-> FALSE, error |-> "unreachable", sends |-> [s \in Servers |-> 0]]

Waiting == [is |-> "-", of |-> 0]
Failed == [is |-> "failed", of |-> 0]
Address(candidate) == [is |-> "address", of |-> candidate]

\* The question of an answer that is not the query's.
Stray == NDomains + 1

NothingReady == [read |-> {}, write |-> {}]

\* A name of which ares_search asks one query only (single_domain).
Single == name \in {"rooted", "alias"} \/ NDomains = 0

Candidates == IF Single THEN {0} ELSE 0 .. NDomains

ResolverInit ==
    /\ setting \in Settings
    /\ name \in setting.names /\ in_hosts \in BOOLEAN /\ nonblock \in BOOLEAN
    /\ pc = "gethostbyname" /\ back = "select" /\ at = 1 /\ ready = NothingReady /\ due = FALSE
    /\ lookups \in setting.orders
    /\ squery = [as_is |-> FALSE, next_domain |-> 0, status_as_is |-> "none"]
    /\ query = NoQuery /\ status = [is |-> "none", of |-> 0]
    /\ next_id = 1
    /\ servers = [s \in Servers |-> [udp |-> Closed, tcp |-> Closed, queue |-> <<>>]]
    /\ inbox = [f \in Fds \cup {Closed} |-> {}] /\ asked = {}
    /\ ip = Waiting /\ calls = 0 /\ tried = <<>>

-----------------------------------------------------------------------------
(* Sockets.                                                                *)

Used(srv) == UNION {{srv[s].udp, srv[s].tcp} : s \in Servers}

\* The kernel gives the lowest free descriptor.
LowestFree(srv) == CHOOSE f \in Fds \ Used(srv) : \A g \in Fds \ Used(srv) : f <= g

\* ares__close_sockets
CloseOne(srv, s) == [srv EXCEPT ![s] = [udp |-> Closed, tcp |-> Closed, queue |-> <<>>]]

ClosedAll == [s \in Servers |-> [udp |-> Closed, tcp |-> Closed, queue |-> <<>>]]

\* What waits at a closed socket, or is asked from it, is lost with it.
ForgetClosed(srv) ==
    /\ inbox' = [f \in DOMAIN inbox |-> IF f \in Used(srv) THEN inbox[f] ELSE {}]
    /\ asked' = {r \in asked : r.fd \in Used(srv)}

-----------------------------------------------------------------------------
(* ares_gethostbyname, next_lookup and ares_search.                        *)

\* callback() of dns.c, through end_hquery.
Answered(result) == ip' = result /\ calls' = calls + 1

\* fake_hostent answers for a name of digits and dots; the others are looked up.
GetHostByName ==
    /\ pc = "gethostbyname"
    /\ \/ /\ name = "numeric" /\ Answered(Address(0)) /\ pc' = "unlink"
       \/ /\ name = "bad_number" /\ Answered(Failed) /\ pc' = "unlink"
       \/ /\ name \notin {"numeric", "bad_number"} /\ pc' = "next_lookup"
          /\ UNCHANGED <<ip, calls>>
    /\ UNCHANGED <<env, back, at, ready, due, lookups, squery, query, status, next_id,
                   servers, inbox, asked, tried>>

\* ares_query and ares_send: a new query, asked of the first server first.
Ask(of, asked_before) ==
    /\ query' = [NoQuery EXCEPT !.qid = next_id, !.of = of, !.server = 1]
    /\ next_id' = next_id + 1
    /\ tried' = Append(asked_before, of)
    /\ pc' = "send"

\* ares_search: the name as it is first if it has dots enough, else last.
Search ==
    LET as_is == Single \/ name = "dotted"
    IN  /\ squery' = [as_is |-> as_is, next_domain |-> IF as_is THEN 1 ELSE 2,
                      status_as_is |-> "none"]
        /\ Ask(IF as_is THEN 0 ELSE 1, <<>>)

\* next_lookup.  A plain name that the file of HOSTALIASES does not list makes
\* single_domain return ARES_EOF, and the search is over before it starts.
LookupDns ==
    /\ pc = "next_lookup" /\ lookups # <<>> /\ Head(lookups) = "b"
    /\ lookups' = Tail(lookups)
    /\ IF name = "no_alias" THEN UNCHANGED <<pc, squery, query, next_id, tried>> ELSE Search
    /\ UNCHANGED <<env, back, at, ready, due, status, servers, inbox, asked, ip, calls>>

LookupFile ==
    /\ pc = "next_lookup" /\ lookups # <<>> /\ Head(lookups) = "f"
    /\ IF in_hosts
       THEN Answered(Address(0)) /\ pc' = "unlink" /\ UNCHANGED lookups
       ELSE lookups' = Tail(lookups) /\ UNCHANGED <<pc, ip, calls>>
    /\ UNCHANGED <<env, back, at, ready, due, squery, query, status, next_id, servers, inbox,
                   asked, tried>>

LookupsOver ==
    /\ pc = "next_lookup" /\ lookups = <<>>
    /\ Answered(Failed) /\ pc' = "unlink"
    /\ UNCHANGED <<env, back, at, ready, due, lookups, squery, query, status, next_id, servers,
                   inbox, asked, tried>>

-----------------------------------------------------------------------------
(* ares__send_query, next_server and end_query.                            *)

Current == query.server

\* The query goes to the current server over UDP: a socket may have to be
\* opened, and the request takes effect when the datagram is sent.
SentOverUdp ==
    LET open == servers[Current].udp # Closed
        fd == IF open THEN servers[Current].udp ELSE LowestFree(servers)
    IN  /\ servers' = [servers EXCEPT ![Current].udp = fd]
        /\ asked' = asked \cup {[fd |-> fd, qid |-> query.qid, of |-> query.of]}

\* Over TCP the request is queued until the socket can be written.
QueuedForTcp ==
    LET open == servers[Current].tcp # Closed
        fd == IF open THEN servers[Current].tcp ELSE LowestFree(servers)
    IN  /\ servers' = [servers EXCEPT ![Current].tcp = fd,
                                      ![Current].queue = Append(@, query.qid)]
        /\ UNCHANGED asked

\* Mutant: the query is sent without a timeout.
SendQueryUntimed ==
    /\ pc = "send"
    /\ IF query.tcp THEN QueuedForTcp ELSE SentOverUdp
    /\ query' = [query EXCEPT !.armed = FALSE, !.sends[Current] = @ + 1]
    /\ due' = FALSE /\ pc' = back
    /\ UNCHANGED <<env, back, at, ready, lookups, squery, status, next_id, inbox, ip, calls, tried>>

\* Over TCP query->timeout is 0: none.
SendQuery ==
    /\ pc = "send"
    /\ IF query.tcp THEN QueuedForTcp ELSE SentOverUdp
    /\ query' = [query EXCEPT !.armed = ~query.tcp, !.sends[Current] = @ + 1]
    /\ due' = FALSE /\ pc' = back
    /\ UNCHANGED <<env, back, at, ready, lookups, squery, status, next_id, inbox, ip, calls, tried>>

\* socket(), connect() or send() fails: the socket stays as it was.
SendFails ==
    /\ pc = "send"
    /\ query' = [query EXCEPT !.skip = @ \cup {Current}]
    /\ pc' = "next_server"
    /\ UNCHANGED <<env, back, at, ready, due, lookups, squery, status, next_id, servers, inbox,
                   asked, ip, calls, tried>>

\* The servers from the n-th on that may still be asked.
Left(n) == {s \in n .. NServers : s \notin query.skip}

LowestOf(S) == CHOOSE s \in S : \A t \in S : s <= t

EndWith(is, of) == status' = [is |-> is, of |-> of] /\ pc' = "end_query"

\* Mutant: the last round is not begun.
NextServerOneTryLess ==
    /\ pc = "next_server"
    /\ \/ /\ Left(Current + 1) # {}
          /\ query' = [query EXCEPT !.server = LowestOf(Left(Current + 1))]
          /\ pc' = "send" /\ UNCHANGED status
       \/ /\ Left(Current + 1) = {}
          /\ EndWith(query.error, query.of) /\ UNCHANGED query
    /\ UNCHANGED <<env, back, at, ready, due, lookups, squery, next_id, servers, inbox, asked,
                   ip, calls, tried>>

\* The next server of this round, or the first of the next one, or the end: a
\* round in which every server is skipped is none.  TCP has one round.
NextServer ==
    /\ pc = "next_server"
    /\ \/ /\ Left(Current + 1) # {}
          /\ query' = [query EXCEPT !.server = LowestOf(Left(Current + 1))]
          /\ pc' = "send" /\ UNCHANGED status
       \/ /\ Left(Current + 1) = {} /\ ~query.tcp /\ query.try + 1 < Tries /\ Left(1) # {}
          /\ query' = [query EXCEPT !.server = LowestOf(Left(1)), !.try = @ + 1]
          /\ pc' = "send" /\ UNCHANGED status
       \/ /\ Left(Current + 1) = {}
          /\ query.tcp \/ query.try + 1 = Tries \/ Left(1) = {}
          /\ EndWith(query.error, query.of) /\ UNCHANGED query
    /\ UNCHANGED <<env, back, at, ready, due, lookups, squery, next_id, servers, inbox, asked,
                   ip, calls, tried>>

\* qcallback and search_callback: a name that is not there, or has no data, is
\* looked for further, anything else ends the search.
Nonfatal == status.is = "no_name"

\* search_callback: the next domain, or the name as it is if it was not tried.
SearchOn ==
    LET as_is == IF squery.as_is THEN status.is ELSE squery.status_as_is
    IN  /\ pc = "end_query" /\ ~Single /\ Nonfatal
        /\ \/ /\ squery.next_domain <= NDomains
              /\ squery' = [as_is |-> FALSE, next_domain |-> squery.next_domain + 1,
                            status_as_is |-> as_is]
              /\ Ask(squery.next_domain, tried)
           \/ /\ squery.next_domain > NDomains /\ as_is = "none"
              /\ squery' = [squery EXCEPT !.as_is = TRUE]
              /\ Ask(0, tried)
        /\ UNCHANGED <<env, back, at, ready, due, lookups, status, servers, inbox, asked, ip,
                       calls>>

SearchOver ==
    \/ Single
    \/ ~Nonfatal
    \/ squery.next_domain > NDomains /\ (squery.as_is \/ squery.status_as_is # "none")

\* Mutant: a failure to parse the answer does not end the look-up.
EndSearchGoesOn ==
    /\ pc = "end_query" /\ SearchOver
    /\ query' = NoQuery
    /\ IF status.is \in {"address", "alias_only"}
       THEN /\ Answered(IF status.is = "address" THEN Address(status.of) ELSE Failed)
            /\ pc' = IF status.is = "address" THEN "unlink" ELSE "next_lookup"
       ELSE pc' = "next_lookup" /\ UNCHANGED <<ip, calls>>
    /\ UNCHANGED <<env, back, at, ready, due, lookups, squery, status, next_id, servers, inbox,
                   asked, tried>>

\* host_callback: an answer ends the look-up, whatever ares_parse_a_reply makes
\* of it; without one the next source is tried.
EndSearch ==
    /\ pc = "end_query" /\ SearchOver
    /\ query' = NoQuery
    /\ IF status.is \in {"address", "alias_only"}
       THEN Answered(IF status.is = "address" THEN Address(status.of) ELSE Failed) /\ pc' = "unlink"
       ELSE pc' = "next_lookup" /\ UNCHANGED <<ip, calls>>
    /\ UNCHANGED <<env, back, at, ready, due, lookups, squery, status, next_id, servers, inbox,
                   asked, tried>>

\* end_query when its callback has returned: with no query left the sockets
\* are closed.  A new query keeps them open, and what is queued on them.
Unlink ==
    /\ pc = "unlink"
    /\ servers' = ClosedAll /\ ForgetClosed(ClosedAll)
    /\ pc' = back
    /\ UNCHANGED <<env, back, at, ready, due, lookups, squery, query, status, next_id, ip, calls,
                   tried>>

-----------------------------------------------------------------------------
(* process_answer and handle_error.                                        *)

\* Mutant: the question of an answer is not compared.
SameQuestionsAny(answer) == TRUE

\* same_questions: the question of the query, found in the answer.
SameQuestions(answer) == answer.of = query.of

\* The query is found by its ID, whichever server answers.
IsForQuery(answer) == query # NoQuery /\ answer.qid = query.qid

Accepted(answer) == answer.kind \notin {"truncated", "refused"} /\ SameQuestions(answer)

\* process_answer for an answer from server s.  Server at goes on when it
\* returns; another query's or a late answer is dropped.
ProcessAnswer(s, answer) ==
    \/ /\ ~IsForQuery(answer)
       /\ pc' = pc /\ UNCHANGED <<query, status>>
    \/ /\ IsForQuery(answer) /\ answer.kind = "truncated"
       /\ IF query.tcp THEN pc' = pc /\ UNCHANGED query
                       ELSE pc' = "send" /\ query' = [query EXCEPT !.tcp = TRUE]
       /\ UNCHANGED status
    \/ /\ IsForQuery(answer) /\ answer.kind = "refused"
       /\ query' = [query EXCEPT !.skip = @ \cup {s}]
       /\ pc' = IF Current = s THEN "next_server" ELSE pc
       /\ UNCHANGED status
    \/ /\ IsForQuery(answer) /\ answer.kind \notin {"truncated", "refused"}
       /\ ~SameQuestions(answer)
       /\ pc' = IF Current = s THEN "next_server" ELSE pc
       /\ UNCHANGED <<query, status>>
    \/ /\ IsForQuery(answer) /\ Accepted(answer)
       /\ EndWith(answer.kind, answer.of) /\ UNCHANGED query

\* Sockets closed, and the query sent to another server if it is at this one.
HandleError(s) ==
    /\ servers' = CloseOne(servers, s) /\ ForgetClosed(servers')
    /\ IF query # NoQuery /\ Current = s
       THEN pc' = "next_server" /\ query' = [query EXCEPT !.skip = @ \cup {s}]
       ELSE pc' = pc /\ UNCHANGED query

-----------------------------------------------------------------------------
(* The loop of resolve() and ares_process.                                 *)

Begin(phase) == pc' = phase /\ back' = phase /\ at' = 1

\* The queries with anything to wait for: ares_fds.
ReadFds == Used(servers) \ {Closed}
WriteFds == {servers[s].tcp : s \in {t \in Servers : servers[t].queue # <<>>}} \ {Closed}

Readable == {f \in ReadFds : inbox[f] # {}}

\* select returns with what is readable and some sockets that are writable, or
\* when the time is up.  Without a timeout it waits for ever.
Select ==
    /\ pc = "select" /\ ip = Waiting /\ query # NoQuery
    /\ \E w \in SUBSET WriteFds, late \in BOOLEAN :
         /\ late => query.armed
         /\ Readable # {} \/ w # {} \/ late
         /\ ready' = [read |-> Readable, write |-> w]
         /\ due' = late
    /\ Begin("write")
    /\ UNCHANGED <<env, lookups, squery, query, status, next_id, servers, inbox, asked, ip,
                   calls, tried>>

\* A signal was caught: select fails, the sets are what they were before, and
\* resolve() does not look at the result.  The time of the query may have come.
SelectInterrupted ==
    /\ Signals /\ pc = "select" /\ ip = Waiting /\ query # NoQuery
    /\ ready' = [read |-> ReadFds, write |-> WriteFds]
    /\ \E late \in BOOLEAN : (late => query.armed) /\ due' = late
    /\ Begin("write")
    /\ UNCHANGED <<env, lookups, squery, query, status, next_id, servers, inbox, asked, ip,
                   calls, tried>>

\* The loop ends with an answer, or with nothing to wait for; ares_destroy.
Finish ==
    /\ pc = "select" /\ (ip # Waiting \/ query = NoQuery)
    /\ servers' = ClosedAll /\ ForgetClosed(ClosedAll)
    /\ ip' = IF ip = Waiting THEN Failed ELSE ip
    /\ pc' = "done"
    /\ UNCHANGED <<env, back, at, ready, due, lookups, squery, query, status, next_id, calls,
                   tried>>

\* The functions of ares_process take the servers in turn.  These are the ones
\* that are still to come and have something to write or to read.
ToCome == at .. NServers
ToWrite == {s \in ToCome : servers[s].queue # <<>> /\ servers[s].tcp \in ready.write}
ToReadTcp == {s \in ToCome : servers[s].tcp \in ready.read}
ToReadUdp == {s \in ToCome : servers[s].udp \in ready.read}

Passed(phase, here, next) ==
    /\ pc = phase /\ here = {}
    /\ Begin(next)
    /\ UNCHANGED <<env, ready, due, lookups, squery, query, status, next_id, servers, inbox,
                   asked, ip, calls, tried>>

\* A step of a function at server s, the first of those to come.
AtServer(phase, here, s) == pc = phase /\ here # {} /\ s = LowestOf(here) /\ at' = s + 1

\* write_tcp_data: the whole queue goes out.
WriteTcpData ==
    /\ \E s \in Servers :
         /\ AtServer("write", ToWrite, s)
         /\ servers' = [servers EXCEPT ![s].queue = <<>>]
         /\ asked' = asked \cup {[fd |-> servers[s].tcp, qid |-> q, of |-> query.of] :
                                   q \in ToSet(servers[s].queue) \cap {query.qid}}
    /\ UNCHANGED <<env, pc, back, ready, due, lookups, squery, query, status, next_id, inbox, ip,
                   calls, tried>>

WriteFails ==
    /\ \E s \in Servers : AtServer("write", ToWrite, s) /\ HandleError(s)
    /\ UNCHANGED <<env, back, ready, due, lookups, squery, status, next_id, ip, calls, tried>>

Error == [qid |-> 0, kind |-> "error", of |-> 0]

\* An answer at descriptor fd is read.
Receive(fd, answer) ==
    answer \in inbox[fd] \ {Error} /\ inbox' = [inbox EXCEPT ![fd] = @ \ {answer}]

\* read_tcp_data: an answer with its length before it.
ReadTcpData ==
    /\ \E s \in Servers : \E answer \in inbox[servers[s].tcp] :
         /\ AtServer("readtcp", ToReadTcp, s)
         /\ Receive(servers[s].tcp, answer) /\ ProcessAnswer(s, answer)
    /\ UNCHANGED <<env, back, ready, due, lookups, squery, next_id, servers, asked, ip, calls,
                   tried>>

\* An error, or no data on a socket that does not block.
ReadTcpFails ==
    /\ \E s \in Servers :
         /\ AtServer("readtcp", ToReadTcp, s)
         /\ Error \in inbox[servers[s].tcp] \/ (nonblock /\ inbox[servers[s].tcp] = {})
         /\ HandleError(s)
    /\ UNCHANGED <<env, back, ready, due, lookups, squery, status, next_id, ip, calls, tried>>

\* read_udp_packets: recv blocks if there is nothing.
ReadUdpPacket ==
    /\ \E s \in Servers : \E answer \in inbox[servers[s].udp] :
         /\ AtServer("readudp", ToReadUdp, s)
         /\ Receive(servers[s].udp, answer) /\ ProcessAnswer(s, answer)
    /\ UNCHANGED <<env, back, ready, due, lookups, squery, next_id, servers, asked, ip, calls,
                   tried>>

\* recv fails: the error is handled, and process_answer drops the empty packet.
ReadUdpFails ==
    /\ \E s \in Servers :
         /\ AtServer("readudp", ToReadUdp, s)
         /\ Error \in inbox[servers[s].udp]
         /\ HandleError(s)
    /\ UNCHANGED <<env, back, ready, due, lookups, squery, status, next_id, ip, calls, tried>>

\* process_timeouts
ProcessTimeouts ==
    /\ pc = "timeouts" /\ back' = "select"
    /\ IF due /\ query # NoQuery /\ query.armed
       THEN pc' = "next_server" /\ query' = [query EXCEPT !.error = "timeout"]
       ELSE pc' = "select" /\ UNCHANGED query
    /\ due' = FALSE /\ at' = 1 /\ ready' = NothingReady
    /\ UNCHANGED <<env, lookups, squery, status, next_id, servers, inbox, asked, ip, calls, tried>>

-----------------------------------------------------------------------------
(* The servers: a request may be answered, later and in any order, or not. *)
(* What comes while the code does not look at its sockets is seen when it  *)
(* does; it comes then.                                                    *)

Listening == pc \in {"select", "readtcp", "readudp"}

Arrives(r, msg) ==
    /\ asked' = asked \ {r}
    /\ inbox' = [inbox EXCEPT ![r.fd] = @ \cup {msg}]
    /\ UNCHANGED <<env, pc, back, at, ready, due, lookups, squery, query, status, next_id,
                   servers, ip, calls, tried>>

OverUdp(r) == \E s \in Servers : servers[s].udp = r.fd

\* In any order, for the question asked or for another.
Serve ==
    /\ Listening
    /\ \E r \in asked, k \in setting.kinds :
         /\ k = "truncated" => OverUdp(r)
         /\ \E of \in {r.of} \cup (IF k = "address" THEN {Stray} ELSE {}) :
              Arrives(r, [qid |-> r.qid, kind |-> k, of |-> of])

\* The server's host has no such service, or the connection is closed.
ServerFails == Listening /\ \E r \in asked : Arrives(r, Error)

Lookup == GetHostByName \/ LookupDns \/ LookupFile \/ LookupsOver
Query == SendQuery \/ SendFails \/ NextServer \/ SearchOn \/ EndSearch \/ Unlink
Process ==
    \/ WriteTcpData \/ WriteFails \/ Passed("write", ToWrite, "readtcp")
    \/ ReadTcpData \/ ReadTcpFails \/ Passed("readtcp", ToReadTcp, "readudp")
    \/ ReadUdpPacket \/ ReadUdpFails \/ Passed("readudp", ToReadUdp, "timeouts")
    \/ ProcessTimeouts
Probe == Lookup \/ Query \/ Select \/ Finish \/ Process
ResolverNext == Probe \/ SelectInterrupted \/ Serve \/ ServerFails

ResolverSpec == ResolverInit /\ [][ResolverNext]_resolverVars

\* The probe runs whenever it can; servers need not answer, and signals need
\* not come.
FairResolverSpec == ResolverSpec /\ WF_resolverVars(Probe)

-----------------------------------------------------------------------------
(* Properties.                                                             *)

\* Every variable is in its domain.
ResolverTypeOK ==
    /\ pc \in {"gethostbyname", "next_lookup", "send", "next_server", "end_query", "unlink",
               "select", "write", "readtcp", "readudp", "timeouts", "done"}
    /\ back \in {"select", "write", "readtcp", "readudp", "timeouts"}
    /\ at \in 1 .. NServers + 1
    /\ ready.read \subseteq Fds /\ ready.write \subseteq Fds
    /\ query.server \in 0 .. NServers /\ query.try \in 0 .. Tries - 1
    /\ query.skip \subseteq Servers /\ query.of \in 0 .. NDomains
    /\ \A s \in Servers : {servers[s].udp, servers[s].tcp} \subseteq Fds \cup {Closed}
    /\ ip \in {Waiting, Failed} \cup {Address(c) : c \in 0 .. Stray} /\ calls \in Nat

\* The callback is run exactly once for a look-up, whatever servers answer
\* twice, late, unusably or not at all (ares_gethostbyname, end_query): resolve()
\* stops with an answer or a failure it was given, never with nothing.
CallbackOnce == calls <= 1 /\ (pc = "done" => calls = 1)

\* The address comes from an answer to the question that was being asked when
\* it came, even if it came from a server that had been given up
\* (process_answer); a candidate that was given up before is not it.
AnswersTheQuestion ==
    pc = "end_query" /\ status.is = "address" => status.of = Last(tried)

\* A search asks for no candidate twice, and says that there is no such name
\* only when it has asked for every candidate (search_callback).
EveryCandidateOnce ==
    /\ \A i, j \in DOMAIN tried : i # j => tried[i] # tried[j]
    /\ pc = "end_query" /\ SearchOver /\ Nonfatal => ToSet(tried) = Candidates

\* A query that ends without an answer over UDP has been sent to every server as
\* often as there are tries, but for the servers that were skipped for an error
\* of theirs; no server is asked more than once more, over TCP (next_server).
AskedAsOften ==
    /\ \A s \in Servers : query.sends[s] <= Tries + 1
    /\ pc = "end_query" /\ status.is \in {"timeout", "unreachable"} /\ ~query.tcp =>
         \A s \in Servers : s \in query.skip \/ query.sends[s] = Tries

\* A server that failed the query is not asked again for it, whoever moved the
\* query on: an answer, an error of the socket, a timeout (skip_server).
SkippedNotAsked == pc = "send" => Current \notin query.skip

\* While resolve() waits, the current server of its query has an open socket the
\* answer can come to: sockets are closed for an error only together with moving
\* their queries on, and they are closed when there is no query (handle_error,
\* end_query).
WaitsOnOpenSocket ==
    pc = "select" =>
        IF query = NoQuery THEN servers = ClosedAll
        ELSE IF query.tcp THEN servers[Current].tcp # Closed
        ELSE servers[Current].udp # Closed

\* The callback is run once for a look-up, and every candidate of a search was
\* asked for, once (ares_gethostbyname, search_callback).
CalledOnce == CallbackOnce /\ EveryCandidateOnce

\* Over UDP every server gets its tries but for those that failed, none of which
\* is asked again, and no query waits on a socket that was closed (next_server,
\* skip_server, handle_error).
EveryServerHadItsTries ==
    ResolverTypeOK /\ AskedAsOften /\ SkippedNotAsked /\ WaitsOnOpenSocket

\* In a call of recv or read that has nothing to return.
BlockedReading ==
    \/ pc = "readudp" /\ ToReadUdp # {} /\ inbox[servers[LowestOf(ToReadUdp)].udp] = {}
    \/ pc = "readtcp" /\ ToReadTcp # {} /\ inbox[servers[LowestOf(ToReadTcp)].tcp] = {}

\* Waiting for a server over TCP, which has no timeout.
WaitingOverTcp == pc = "select" /\ query.tcp

\* resolve() returns, unless it is left waiting over TCP or in a read: every
\* wait for a datagram ends, and no round of tries begins for ever.
ReturnsOrIsLeftWaiting == <>[](pc = "done" \/ WaitingOverTcp \/ BlockedReading)

-----------------------------------------------------------------------------
(* What the comments say, and the code does not do.                        *)

\* "Remaining data to send" (ares_private.h:40): what is queued for a server
\* belongs to a query that still runs.
QueuedForLiveQuery ==
    pc = "select" => \A s \in Servers : ToSet(servers[s].queue) \subseteq {query.qid}

\* "If any UDP sockets select true for reading, process them."
\* (ares_process.c:233): recv is called for sockets that select has reported.
RecvOnlyWhatIsReady == pc = "readudp" => ~BlockedReading

\* "If any queries have timed out, note the timeout and move them on."
\* (ares_process.c:256): a query over TCP does not last for ever either.
TcpLookupEnds == WaitingOverTcp ~> pc = "done"

\* "Determine if this name only yields one query.  If it does, set *s to the
\* string we should query [...]  If not, set *s to NULL." (ares_search.c:195):
\* a name is asked for before it is reported missing.
MissingWasAskedFor ==
    ip = Failed /\ lookups = <<>> /\ name \notin {"bad_number", "numeric"} => tried # <<>>

=============================================================================
