# A specification of the FreeNote probe

The FreeNote probe is a daemon that measures web sites for a central service. It
registers with a dispatch server, asks it for a *work packet* (up to about ten URLs),
performs the tasks of the packet, reports the results, sleeps and starts again. This
directory holds TLA+ modules of the probe, the configurations TLC checks them with, and
theorems about them checked by TLAPS.

Source paths below are relative to `src/src/`.

## 1. The system

| Component | State it keeps | Operations | Where |
|---|---|---|---|
| task table | array of `MAX_TASKS` (15) records with a status | `task_add`, `get_task`, `get_task_id`, `task_set_status`, `update_task`, `get_completed` | `lib/task.c` |
| worker | a copy of the task being performed | `process_tasks`, three handlers | `work.c` |
| dispatch | probe id, team, pin in memory | `dispatch_init`, `dispatch_checkin`, `dispatch_getwork` | `lib/dispatch.c` |
| collection | its own copy of the probe id; the report being built | `collection_init`, `collection_report` | `lib/collection.c` |
| messages | none | build, send, `proto_error` | `lib/proto.c` |
| keys | the probe's key pair, the dispatch server's public key | `dsa_init`, `save_dispatch_key`, `valid_dsa_sig` | `crypt/dsa/pdsa.c` |
| file manager | files in `~/.freenote` | read, write, remove, pid file | `lib/fileman.c` |
| main loop | counters, child pid | `mainloop`, `mainiter`, `maybe_daemonize`, signal handlers | `main.c` |
| DNS cache | ring of 32 names and addresses, a counter | `resolve_cached`, `add_cache`, `dns_cache_flush` | `net-modules/dns.c` |
| HTTP client | a stack of requests, connections, read buffers | get, post, redirect, read a body, chunked or not | `net-modules/http.c` |
| page recursion | the URLs found in each page that is open | `http_recurse`, `extract_urls` | `net-modules/http-recurse.c`, `url-extract.c` |
| resolver | a channel: servers with sockets and queues, queries, a search | `resolve`, `ares_gethostbyname`, `ares_search`, `ares_process` | `net-modules/dns.c`, `lib/libares` |
| ping | a raw socket, one static packet | `icmp_ping` | `net-modules/icmp.c` |
| options | table of values, static cursor | `parse_options`, `read_*_opt`, `set_opt`, `read_config` | `options.c`, `lib/config_parse.c` |
| processes | process tree, pid file, pending signals | `daemonize`, the keepalive loop, `catch_term`, `catch_hup` | `main.c`, `sys/unix/daemon.c` |
| name/value lists | array with a last index | insert, look up, write, read | `lib/nv_pair.c`, `urlencode.c`, `urldecode.c` |
| URLs | a cursor while parsing | `url2http`, `url_parse` | `url-parse.c` |
| cookies, headers, codecs | none that lasts | parsing and encoding | `lib/cookie.c`, `header-parse.c`, `crypt/base64` |
| others | | logging, probecast, set-up dialogue, system information, Windows front end | `io*`, `lib/probecast.c`, `setup.c`, `sys` |

How they interact: `mainiter` calls `get_jobs` (dispatch), `process_tasks` (worker) and
`send_results` (collection) one after the other, on one thread. They share the task
table and the file with the probe id; dispatch and collection each keep a copy of that
id. Every exchange with a server is one HTTP request through `proto_mesg_send`, which
may fail; errors the server answers with are handled by `proto_error`, which may remove
the id file, exit, or ask for a retry. With `keepalive` a parent process forks the
probe again whenever it dies; what survives is what is on disk.

What is hard here is not parallelism, which is confined to signal handlers and the
keepalive parent, but long sequences of calls on shared state: what an earlier packet
leaves in the table, which of three copies of an id is read when, what is on disk when
the process dies, what was sent and not acknowledged. `PROJECT.json` lists each of
these hazards at its line.

What makes the parts correct:

* task table and worker: nothing accepted is lost, and what is measured ends up in the
  task, the packet and the report it was measured for;
* dispatch, collection, files: one identity for everything the probe sends, a
  registration that survives a crash whole or not at all, results kept until answered;
* DNS cache: an answer belongs to the pass it is used in, and entries are evicted in
  order;
* HTTP client: loops that end, a body that is kept without a gap and inside its buffer,
  a verdict that agrees with what was read, redirects that go where their URL says;
* resolver: one callback for one look-up, an answer to the question that was asked,
  every server and every candidate tried;
* options: a lookup finds what is in the table although a signal handler reads it too, and
  the command line outranks the file;
* processes: at most one probe, none left behind, a pid file that is true;
* ping, lists, URLs, messages: what goes out is well-formed, what comes back is counted
  for what it is, and it all fits its buffers.

## 2. The modules

`TaskTable` is `lib/task.c` as operators on a table value: the array before the call in,
the array after it out, one operator per function, so that callers compose them the way
the code does. The four HTTP(S) types share one handler and are one type. Times and
sizes are left out; the resolved address is kept as present or absent, and the URL is
kept so that a measurement can be traced to its assignment. `mark_impossible` and `mark`
call each other; the operator is the least set of slots closed under that walk.

`Worker` (extends `TaskTable`) is one pass of `mainiter` over the table.

| Action | Code |
|---|---|
| `NoJobs`, `BeginPacket` | `get_jobs` returning -1, or a message with a `work_id` |
| `AddOffer`, `EndPacket` | the loop of `dispatch_getwork`: `nv_to_task`, `valid_task`, `task_add` |
| `TakeTask` | `get_task` in the loop of `process_tasks` |
| `DoHttpTask`, `DoDnsTask`, `DoIcmpTask` | `do_task` with the handler, then the rest of the loop's body: `task_set_status(IMPOSSIBLE)` on failure, `get_task_id` |
| `AllProcessed` | the loop's end |
| `DrainCompleted`, `EndDrain` | the loop of `collection_report` over `get_completed`, and the insertion of `work_id` |
| `Delivered` | the report arrives (environment) |

A pair of a packet may be unreadable (id 0, a missing comma, type 0) or well formed. An
HTTP task ends in one of five ways: unusable URL, no address, failed request, too many
redirects, done.

`WorkLedger` is what the worker promises: assignments are accepted once, held, and
reported once, in reports that answer one packet, with a verdict that came from a
measurement. It knows no tables or statuses. `Worker` is shown to implement it
(`KeepsLedger`).

`Probe` (extends `Worker`) adds what surrounds the pass: memory (`probe_id`,
`report_id`, `dispatch_key`), files (`id_file`, `key_file`), the servers (which probes
they know, which packet went to which probe, what is stored) and faults. `ReadPacket` and
`Process` are the steps of `Worker` unchanged. A request may be lost, or be acted on
and its answer lost. `Crash` may strike between any two steps, so between the two
writes of a check-in; a write may fail, an answer to a check-in may come without a key
that can be read. `Restart` is the parent's next fork: initial memory and the files as they
are. `ServerForgets` makes a known probe unknown. An id travels as text, digits that may
begin with zeros (`IdText`), and is read in two ways: `Atoi` where it arrives
(dispatch.c:120), `ScanI` where it is read from the file (`%i`, dispatch.c:62,
collection.c:56), which takes digits after a zero for octal ones. Two variables are
history: `given`, the text this process was given its id as, if it did not read it from
the file, and `mishap`, what kept the last check-in from saving its key.

`Exchange` is one message on its way (`lib/proto.c`): built, its server looked up as often
as it takes, encoded, posted, its answer decoded; `collection_report` posts it again until
it is answered. A text is its length and whether anything follows it in memory.

`DnsCache` is the ring with its counter, the lookups of the three functions of a pass,
the loop of `proto_mesg_send` that resolves past the cache, and `mainiter`'s two ways
out: with the flush and, when `get_jobs` failed, without.

`Resolver` is what happens when the cache misses: `resolve()` with the part of libares it
runs. `pc` walks through one pass of the select loop (`ares_process`: write, read over TCP,
read over UDP, time-outs) and through the functions called from it (`next_server`,
`ares__send_query`, `end_query`, `search_callback`, `next_lookup`), `back` says where those
return to. `setting`, chosen at the start, is what `resolv.conf` says (how many servers, tries
and domains, the order of look-up) and what kinds of names and answers there are. Servers answer, more than once, late, truncated, with errors, or not at all; a
signal may interrupt `select`. A candidate is a name that is asked for: as it is, or in
one of the search domains.

`Http` is the driver of `net-modules/http.c`. A redirect is followed inside the response
that announced it, so the state is a stack of calls and the connections by descriptor.

| Action | Code |
|---|---|
| `Start` | `http_get` or `http_post_str` called by a task or a message |
| `HttpConnect`, `ConnectFails` | `r_connect` and what follows its failure |
| `SendRequest` | the request is written to the connection |
| `NoHeader`, `InvalidHeader`, `HandleResponse` | `http_handle_response` up to the choice by status |
| `ReadBody` | `http_read_body`, by its result |
| `HandleRedirect` | `http_handle_redirect`: the limit, the new request, a new connection or the old one |
| `Return` | the end of a call, what it copies to its caller, what it closes |
| `ServerAnswers` | the environment |

`HttpRead` is the reading of one response with status 200: a loop of reads for the first byte,
the header, and the body in each of the four ways the code reads one. `common_read_block` is
`ReadSome`, `TimesOut` and `EndOfFile`; each loop's end has its action. Bytes are counted, not
represented, and lengths are unsigned ints (`Wraps`). What the `Content-Length` line says
(`announced`) has nothing to do with what the server sends: it may be less, more, or -1.
`room` is what the body's buffer was allocated with; a copy or a `read` that goes beyond it
ends in "undefined" (`HeaderRead`, `Overrun`). `Misled` names the two ways in which that can
happen: the header was cut short by a pause, or more of the body came along with the header
than it announces.

`Chunked` is the fifth way: `Scan` and `ReadPiece` are the reader's search for size lines
over a buffer it refills, `Unchunk` is the decoder, over sequences of bytes. A read ends
when the buffer is full, at a last chunk, or at any byte before that, with a time-out, an
error or the server's end; so does the transfer, which is then decoded as it is.

`PageParts` is `http_recurse`: the stack of its calls, each with the list of URLs found in its
page, and one step per match (`EachMatch`, which is `regex_iterate` with `append_match`) and
per part. Webs, what every URL is answered with, are chosen at the start. `asked` and
`fetched`, and `before` in each call, are history: what was asked for, how much of it was
fetched, and how much had been when the call was made.

`OptionLookup` is `opt_is_valid_i` statement by statement, with `catch_hup` as an action
between any two (`HupLooksUp`) and, where the index is in memory, inside a loop's step
between its test and its increment (`HupWithinStep`). C leaves it to the compiler whether
the function works on its static index in memory or in a register; `shared`, chosen at the
start, says which, and both are checked and proved about. `Options` is where values come from: the command line word by word, the
checks after it, the configuration file line by line, the file again on SIGHUP.

`Supervisor` is the process tree: each process has its own copy of the program's statics
and a place in `daemonize`, `maybe_daemonize` or `mainloop`; pids are used again after the
process was waited for. Signals are pending until a process catches them, at any of its
steps; a process may crash.

`Icmp` is a sequence of pings: a request is its bytes, `in_cksum` is computed on 16-bit
words, and the raw socket's queue holds every ICMP packet that arrives. `NvList` is the
list of names and values as a string is made of it and read again. `Url` cuts a URL at its
delimiters the way five functions do that hand on a cursor. A URL is any sequence of
delimiters and words: `url_scheme` adds 3 to where the first ":" is, which may be beyond
the string's end ("outside").

`MCWorker`, `MCProbe` and `MCHttpRead` only give names to the constants' values. `MCHttp`,
`MCDns`, `MCProcess` and `MCWire` put components side by side that share no state, one run
for each group of questions: a variable `part` chosen in `Init` says which of them a
behaviour is of, the variables of the others stay where they began or are "unused", each
property speaks of the part where its case can happen, and fairness is that of the part.
`Over` is the step of a part that has come to its end, so that a deadlock anywhere else is
an error.

| Module | Parts |
|---|---|
| `MCHttp` | http (`Http`), pages (`PageParts`) |
| `MCDns` | cache (`DnsCache`), lookup (`Resolver`) in three settings: `TwoServers`, `TwoDomains`, `LateAnswers` |
| `MCProcess` | lookup (`OptionLookup`), options (`Options`), processes (`Supervisor`) |
| `MCWire` | url (`Url`), list (`NvList`), chunked (`Chunked`), exchange (`Exchange`), ping (`Icmp`) |

There a property is the conjunction of what a component states about one question; the
conjuncts have their names in the component's module.

`ProbeProofs` (of `TaskTable`, `Worker` and `Probe`), `DnsProofs` (of `DnsCache` and
`Resolver`), `HttpProofs` (of `Http` and `PageParts`), `HttpReadProofs`, `SupervisorProofs`,
`OptionsProofs` (of `Options` and `OptionLookup`), `NvListProofs` and `WireProofs` (of `Url`,
`Exchange`, `Icmp` and `Chunked`) hold the proofs.

Definitions marked "Mutant" are seeded faults, one plausible slip each. No
specification uses them; put in the place of the definition they imitate, each makes
TLC find the property violated that `PROJECT.json` pairs it with.

## 3. What TLC checks

| Run | What it asks |
|---|---|
| `worker_http` | With the tasks every probe gets, HTTP and HTTPS: are all processed, does none meet a full table, do lookups by id hit the task being performed, does a report hold one packet, does the table implement the ledger, is every accepted task reported? |
| `worker_mixed` | With all handlers, and tasks that stay in the table for ever: do status and error condition agree, are the results reported those of real tasks of handled types? |
| `probe` | With faults, lost messages, restarts and a forgetful server: do the copies of the id stem from one text, is a missing key always explained by the last check-in, is a report whole, are results kept until answered, is every packet answered for? |
| `http_read` | With responses of every kind in bursts and pauses, whatever length they announce: when does a body stay in its buffer and when do the differences not wrap, is what is kept a prefix, is what was announced read and not more, is an honest server not waited for, does the reading end? |
| `http` | With redirects, absolute and relative, between ports and hosts: do requests know how many came before, go to their host, take their own answer, close what they opened, report the last code? With pages that contain each other: are the parts asked for, and only they, and are the components what was fetched? Does a call return? |
| `dns` | Is no name cached twice, does the ring hold the names added last although the counter wraps on its own, are the addresses given to tasks of this pass? When the cache misses, with two servers that fail in every way: does each get its tries, is none asked again that was given up, does no query wait on a closed socket, does `resolve()` end, or wait in one of the two places below? With every kind of name, two domains and both orders of look-up: is the callback run once, is every candidate asked for once? With late answers: is the address an answer to the question that was being asked? |
| `process` | Does a look-up find what is there, wherever the last one or the signal handler left the index, in both builds, and what may a signal in its middle do? Does the command line hold through files and signals, does the first line of the first file hold, is a limited probe not kept alive? With crashes, failing forks, signals: is there at most one probe, one as long as somebody watches, is the limit kept, is the pid file true, does the stop of the parent stop all? |
| `wire` | Is a URL of the documented form cut into the pieces it is made of, and which other ones does the cursor leave? Is what is read from a list what was written, is the first value of a name found, does it all fit? Does decoding invert chunking, is what is kept without a gap, what is made of a transfer that was cut, does the reader stop? Is what is posted what was signed, is a report posted until it is answered, does the exchange end? Do checksums verify, does a stray or lost packet cost one answer, does a ping go on while nothing is lost? |

The other runs are violations: each checks one sentence of the repository's documentation
or comments against the model of the code, and TLC finds a behaviour that contradicts it.
`PROJECT.json` ("findings") quotes the sentence and says what the code does.

| Run | The sentence, in short |
|---|---|
| `worker_icmp` | "All the tasks": a ping that succeeds is never marked complete |
| `worker_wid` | the report's `work_id` is that of the packet; without results it is an uninitialised buffer |
| `probe_notfound` | an unknown probe "checks in again"; it does not, its id being still in memory |
| `http_port` | the server a URL names is asked; a kept connection is used again for another port of the host |

### Further disagreements met while modelling

Sentences of the repository that the code contradicts and that no run above is about. Each
is stated as a formula in its module, with the sentence; a configuration with the constants
it speaks of (a limit from a file) shows the behaviour.

| Formula | The sentence, and where the code departs from it |
|---|---|
| `Http!ReturnsTheCode` | "-1 or the HTTP code" is returned (http.c:893): for 200 it is 0 (http.c:936) |
| `Http!LimitIsReported` | "We never finished redirecting" (work.c:127) is reported after a 302 only, not after a 301 |
| `HttpRead!TimeoutIsReported` | result code 3 is an HTTP time-out (protocol.html:2570): nothing sets it (http.c:178) |
| `Chunked!ReadsToTheEnd`, `SizeIsWhatWasDecoded` | any transfer is read, "without any known bugs" (http.c:459, 539): a blank line at a buffer's start is a last chunk (http.c:494); of a transfer that was cut the size is not that of what was decoded, a chunk is copied from beyond the body (http.c:562), and an empty body's size wraps (http.c:550) |
| `Resolver!QueuedForLiveQuery` | queued data is a query's (ares_private.h:40): it is freed with the query and stays queued (ares_process.c:596) |
| `Resolver!RecvOnlyWhatIsReady` | only sockets that "select true" are read (ares_process.c:233): one opened in between has the number of one that did |
| `Resolver!TcpLookupEnds` | queries time out (ares_process.c:256): those over TCP do not (ares_process.c:415) |
| `Resolver!MissingWasAskedFor` | a name without an alias is looked up (ares_search.c:195): it ends with an error (ares_search.c:253) |
| `OptionLookup!ValidIsFound` | a valid option is found (options.c:389): not, in a build that keeps the static index in memory, when SIGHUP comes in the middle |
| `Options!MinimumInterval` | "Minimum 15" (options.c:47): a file may say less (config_parse.c:127) |
| `Options!CommentsAreRemoved` | comments are removed (config_parse.c:60): a line with nothing else ends the probe (config_parse.c:79) |
| `Options!RereadCounts` | SIGHUP re-reads the file (main.c:316): nothing in it is set any more (config_parse.c:127) |
| `Supervisor!LimitFromFileHolds` | "Exit after a certain number of iterations" (options.c:81): with the limit in a file the parent forks again |
| `Supervisor!Survives` | "Make sure the probe survives" (options.c:85): after one failed fork nobody watches (main.c:271) |
| `Supervisor!TermStopsAll` | TERM is passed on (main.c:337): between `fork` and the assignment of its result to the wrong process or none |
| `Supervisor!TermRemovesPidFile` | "Cleaning up" (main.c:337): the parent leaves the pid file |
| `Url!HttpsIsSecure` | the scheme decides (url-parse.c:47): it is always empty when it is compared (url-parse.c:119) |
| `Url!MissingIsNull` | missing pieces are NULL (url-parse.c:82): a URL without a path aborts the probe (url-parse.c:195) |
| `Url!HostBeforePath` | user@host (url-parse.c:46): an "@" in the path moves the host there (url-parse.c:135) |
| `PageParts!OnlyDuplicatesLeftOut` | "add no duplicates" (url-extract.c:190): a URL that an earlier one begins with is one |
| `PageParts!PartsOfTheRedirectedPage` | the base URL is the page's (url-extract.c:33): it is that of the first request (http-recurse.c:45) |
| `NvList!ArbitraryPairs` | arbitrary pairs (nv_pair.h:10): values are written as they are and decoded when read (nv_pair.c:98) |
| `NvList!EveryPairIsWritten` | the list is turned into a string (nv_pair.c:81): up to the slot filled last, not the highest (nv_pair.c:91) |
| `NvList!EncodedFits` | "at _most_ 3 times longer" (urlencode.c:64): and a NUL (urlencode.c:65) |
| `Icmp!LossIsMeasured` | packet loss is measured (icmp.c:16): a lost packet is waited for for ever (icmp.c:121) |
| `Icmp!ReturnsTheNumber` | the number of packets is returned (icmp.c:72): it is 0 (icmp.c:127) |
| `Icmp!OthersAreNotCounted` | other programs' packets do not count (icmp.c:214): each takes the turn of an answer (icmp.c:123) |
| `Exchange!PostsAString` | a string is posted (http.c:318): it has no NUL (proto.c:169) |
| `Exchange!IdsFit` | 2.5 characters per byte are enough (util.h:43): an int has up to eleven and a NUL (collection.c:70) |
| `Exchange!ReportsGoToCollection` | reports go to the collection server (protocol.html:2382): they go to dispatch (collection.c:90) |

The manual page's example (doc/fnprobe.1:78) is refused, too: it spells `log-method`
differently, and in `Options` an unknown option's argument ends the probe.

### Bounds

`worker_http`: two slots, packets of up to two pairs, two ids and two URLs, two
packets. Two slots and two pairs make a packet that just fits, so one slot that is not
freed is enough to overflow it; two packets with the same ids make what one leaves
behind meet the next; two URLs tell a measurement from another's. `worker_mixed` has
one URL (no property there reads it) and uses symmetry of ids, which no property or
action orders. `probe`: one task id and two packets, two probe ids, so that a second
registration is possible, 8 and 10, given with and without a leading zero ("010" is 10 to
`atoi` and 8, the other's id, to `%i`; "08" is 8 to the one and 0 to the other), and one
fault (`MaxFaults`), which is enough for a check-in cut short followed by a restart; lost
requests and answers, which have no cost, are unbounded. Work ids are never issued twice, which makes two packets the horizon of a
behaviour; after the last the probe stays in its retry loop.

`dns`, cache: a ring of two with a counter of four values (the ring's size divides the
counter's range, as 32 divides 256), four hosts, the dispatch server's among them. `TwoServers` has two tries, so
that a query passes from the last server to the next round; servers answer with an
address, refuse, truncate or are silent. `TwoDomains` has every kind of name and answer and
both orders of look-up, so that a search has a middle. In `LateAnswers` a search of two
candidates is tried twice, so that an answer may come when the next candidate is asked for.
The queue of a socket is a set.

`http`: a limit of two redirects (three levels: an outer, a middle and an inner call), three
descriptors (one for each level), a host on two ports and another host. Pages: two
hosts with a page and two pictures, a first page with up to three parts of which
`MAX_TOTAL_URLS` = 2 are looked at, the other with up to two that lead back, to a picture or
to itself, either page moved to the other, missing or without a body, a depth of two. `http_read`: sizes are scaled so that
they keep their order (`ReadAssumption`), with bodies that are empty, come with the header,
or go beyond the limit by more than a piece; each is announced as itself, as one of the
others, as a single byte or as -1, an unsigned int having twelve values (`Modulus`).

`process`: both builds and a table of six options, one before, at, behind the place a look-up begins at and
at both ends; command lines of up to two words, files of up to two lines; three pids, the
parent, its child and the one being forked, and a limit of two iterations.

`wire`: URLs of the documented form with paths of two tokens, any four tokens after
"http://", any three after "http:", and some without a colon; lists of three pairs, values of up to one character and three of two that look like
codes, received strings of up to five; up to two chunks of up to two bytes which may look
like size lines or line ends (one of four, whose size leads behind a body that is cut after
it), a buffer of six bytes, reads and transfers that end at any byte, and a limit of sixteen
bytes, which the longest transfers exceed; messages of the true sizes, with numbers of one to eleven
characters; two pings of two packets whose words make carries, one lost, one stray.

Deadlock is checked everywhere but in `http_read`, whose response is read once.

### Fairness

`Worker` and `Probe` assume that the one thread goes on: inside `get_jobs`,
`process_tasks` and `collection_report` some step is always taken in the end. The code
justifies this for HTTP tasks, whose waits all have a time-out (`http_read` checks it); it
does not for `icmp_ping`, whose `recvfrom` has none, and no liveness property of those
modules is checked with ICMP tasks. `Delivered` (`Answered` in `Probe`) is fair because
`collection_report` resends until it has an answer and a network that never answers
refutes nothing about the probe. Fairness of these two (and of `Chunked` in `MCWire`) is
written as "infinitely often not in such a
place, or infinitely often such a step", the places standing for the enabling conditions.

For each part of the other modules the fairness is its own. `HttpRead`, `Http`, `Resolver`,
`PageParts`, `OptionLookup`, `Chunked`: weak fairness of the
probe's own steps and of nothing else. A time-out is such a step, since `select` returns;
servers may be silent for ever. `Icmp` adds that hosts answer what reaches them, so that its
one violation of liveness is due to the lost packet alone. `Supervisor`: weak fairness of
each process and of the delivery of signals. `Exchange`: a name looked up again and again
is resolved, and a message posted again and again is answered, in the end (strong fairness,
an assumption about the network); everything else is weakly fair.

## 4. What is proved

For every value of the constants that satisfies the named assumptions:

**The worker** (`ProbeProofs`, its first part).

* `WorkerTypeCorrect`, `WorkerSlotsCoherent`: type correctness, and
  that a slot is wholly unused or holds a valid task with an id, a packet and a URL. The
  inductive invariant `WorkerInv` adds that the task being performed is such a task and
  that a packet being read has an id. One lemma per operation of `lib/task.c`
  says that it maps coherent tables to coherent tables; the lemma
  `MarkNothing` is the heart of it: the walk of `mark_impossible` from a real id is empty
  because every parent is 0. That is also what keeps the recursion of `lib/task.c` from
  running for ever.
* `WorkerStatusTellsVerdict`, for all handlers: status and error condition of a task are
  written at different places (`task_set_status`, `update_task`, `mark_impossible`), and
  the lemmas follow each of them through every handler.
* `WorkerAllTasksProcessed`, `WorkerLookupFindsTakenTask`, `WorkerReportIsOnePacket`,
  `WorkerNoTaskDropped`, for a probe that is given HTTP and HTTPS
  tasks only (`HttpProbe`; `worker_icmp` shows why the hypothesis is needed) and, for
  the last, packets of at most as many pairs as the table has slots (`SmallPackets`; the
  server's ten against `MAX_TASKS` 15). None is inductive. Behind them is the shape of
  a pass (`HttpInv`): outside a pass the table is empty; within it every task is of the
  packet at hand, ids differ, and at most the task being performed is RUNNING. The
  lemma `HttpPerformed` follows one run of `do_http_task` and the rest of the loop's body
  through `update_task`, `task_set_status` (twice on failure) and `get_task_id` and finds
  that only the task's own slot changes. `NoTaskDropped` needs the pigeonhole
  principle as well (`RoomLeft`): no two used slots come from the same pair.
* `WorkerKeepsLedger`: the refinement of `WorkLedger`, again with `HttpProbe`. Every step
  of the worker is mapped to accepting, finishing or reporting tasks, or to none; the
  table's slots determine the ledger because ids differ within a pass.

**The probe and its servers** (`ProbeProofs`, its second part).

* `ProbeTypeCorrect`, `ProbeOneIdentity`, `ProbeKeyMissing`, through crashes,
  failed writes, lost messages and forgetful servers. The invariant adds to the types
  which of the three copies of the id may be set at which place of the program, that a
  message's packet was issued to the probe it names, and that file and memory hold the key
  once `save_dispatch_key` has run, unless `mishap` remembers why not. Of the id it says
  which text each copy comes from and how it was read there; what `OneIdentity` leaves open
  is what the code leaves open, a report under another number than the packet's when the
  server spells the id with a zero in front and the process has not been restarted since.
* `ProbeResultsKept`, an action property: a step that empties the results is one of those
  that end the process or follow an answer.
* `ProbeReportCoversPacket` (`HttpProbe`, `SmallPackets`): the worker's invariant, carried
  into the composed system, says that the table between `get_jobs` and the report holds
  one task for each valid pair. What it needs beyond is that the packet in memory is the
  one the server has issued under that work id.

**The HTTP client.**

* `PagesPartsAreAskedFor` (`HttpProofs`), for any web, any limit of URLs and any depth. A list
  of URLs is said against the matches it is made of (`ListOf`): it holds exactly the matches
  that no earlier one begins with, and each match is the beginning of one in it; that a
  match left out does no harm to a later one needs that beginnings of beginnings are
  beginnings (`BeginsWithTransitive`). Each call has asked, at its level, for what it went
  past in its list (`AskedBy`), and all that was ever asked for is a match of its page
  (`AskedInv`), which together give the equation at the end of the list. The components
  are counted over the levels of the stack without a sum: a call has counted what was
  fetched since it was made, less the calls above it (`ComponentsInv`, over `before`).
* `HttpRedirectsCounted`, `HttpGoesToItsHost`, `HttpNoSocketLeft`, `HttpAnswersAreTheirs`
  (`HttpProofs`), for any
  redirect limit, any set of URLs and any number of descriptors. The state is a stack of
  frames, so the invariant speaks of every level: each frame below the top waits in
  `redirecting`, its count is its depth, and descriptors of two levels differ unless the
  inner one was handed the outer one's (`CountInv`, `FdInv`). Of the top frame it says that
  its connection is to its request's host (`HostInv`).
  `ChainInv` relates the status a frame has at each of its places to the code that was
  received last, and what is still to be read on a descriptor to the depth of the call
  that asked for it. One lemma per change of the stack (`TopChanges`, `CallMade`,
  `CallEnds`) says what the other frames keep.
* `ReadBodyFits`, `ReadNoUnderflow` and with the types `ReadStaysInBounds`
  (`HttpReadProofs`), for any sizes in the order that
  `ReadAssumption` names. The invariant adds up what the running loop has seen and still
  wants against the buffer's room, for any announced length. Three headers are told apart:
  one that was cut short (`HeaderWasCut`), one with which more of the body came than it
  announces (`TooMuchCame`), and all others. For these nothing wraps and nothing is written
  beyond a buffer; in the first two cases the code does both, and the theorems say so by
  naming them as their only exceptions.
* `ReadBodyAsSent`: the invariant `BodyAsSentInv` says for each of the loops how header,
  kept body and what the loop has seen add up to what was taken from the stream, with the
  same exceptions. That what was announced is read to its last byte holds of any length the
  server names; that nothing is waited for, of one that it sends.

**Names** (`DnsProofs`): `DnsTypeCorrect`, `DnsOneEntryPerName`,
`DnsRingHoldsLastNames`, `DnsTaskAddressesFresh`. The ring's contents are found from its
counter modulo the ring's size, which needs that size to divide the counter's range.
Freshness is not inductive: a pass that fails forgets what it looked up and keeps the
cache. `OnlyDispatchBeforeJobs` strengthens it: until jobs have been fetched the cache
holds one name only, the dispatch server's.

**Look-ups** (`DnsProofs`): `ResolverCalledOnce`, `ResolverAnswersTheQuestion`,
`ResolverEveryServerHadItsTries`, for any numbers of servers, tries and domains, any order of
look-up, any kinds of names and answers (`ResolverAssumption`), with signals or without.

* `CallsInv` says at which steps a query runs, and that the callback has been run exactly
  where none does.
* `AsIsFirst` and `DomainsFirst` are the two ways a search goes: which candidates have been
  asked for, and in which order, is read off the three fields of `squery`.
* `AskedBefore` counts: the servers before the current one have been asked in this round, the
  others in the rounds before only, or they were skipped; with TCP there is one round more.
  `OpenInv` and `SkipInv` say that in the loop the query's server is not skipped and has an
  open socket. Each of the places that move a query on is shown to keep the three
  (`QueryGoesOn`, `HandleErrorKeeps`, `ProcessAnswerKeeps`, `NextServerKeeps`). That a socket
  can be opened at all takes the pigeonhole principle once more (`DescriptorLeft`).

**The processes** (`SupervisorProofs`), for any number of pids, forks that fail, signals
and crashes between any two steps.

* `SupervisorOneWorks`, `SupervisorPidFileIsTrue`. That at most one process
  works is far from inductive: a parent forks again when `wait` returns. The
  invariant is about the lineage (`Lineage`): at most one process leads, that is, has still
  to fork or watches, and a leader's only child is the one whose number it has, for
  which it waits. The pid file's part (`PidFileInv`) says that the leader has written it and
  that, unless it is lost, it watches or is on its way to an exit that removes it.
* `SupervisorOneProbe`, which adds the limit, for a limit given on the command line
  (`LimitFrom = "argv"`). Nobody is kept alive then, so that one process counts all the
  iterations (`Counted`). A limit in a configuration file is not kept: `LimitFromFileHolds`.

**The options** (`OptionsProofs`).

* `OptionsFirstSettingHolds`, for any table, command line and files. `Settled` states the
  promise at every step between the command line and the end of the program, in the middle
  of a file, too: an option has the value the command line left, or what the first line of
  the first file gave it. `OptionsAssumption` names the program's default
  for `keepalive`, which is on; with another one a limit would not turn it off.
* `LookupTypeCorrect`, `LookupFindsWhatIsThere`, for a table of any
  length and both builds. The invariant is what the two loops have passed by; with the index
  in memory it holds until a signal disturbs the look-up, and of a look-up that was disturbed
  only that its index stays in the table or that it has left it (`at = "outside"`). The next
  look-up begins undisturbed.

**What goes over the wire** (`WireProofs`).

* `UrlFindsPieces`, for any words and any URL. A URL of the documented form is described by
  its pieces (`Authorities`), and where a delimiter is found in it is computed from which
  pieces it has (`Shape`, `UserLen`, `PortLen`). `Progress` says for each of the five
  functions where the cursor is and which places were found before it is called; of other
  URLs it says that every place is within the URL, or that the cursor has left one that ends
  with its first ":" or one delimiter or word behind it (`LeavesShortOnes`).
* `ExchangePostsWhatWasSigned`, for any number of results up to `MAX_TASKS` and any
  numbers of `int`'s width in them. What has to be proved of the code is arithmetic: a
  number has at most eleven characters (`IntToSBounds`), so the largest report is far below what
  the header's two bytes can say, and no size is cut on its way (`SizesStay`). The invariant
  adds what is signed at each stage before the message is posted.
* `ChunkedBodiesAreRead`, for any bytes, chunks, read size and limit. `AfterChunks` says
  what the decoder has made of the chunks it has passed, wherever the next size line is
  (`NextSizeLine`); one round takes one chunk (`RoundTakesChunk`, `RoundsFromChunks`), so a
  whole transfer is decoded to its chunks (`WholeIsDecoded`). One that was cut is whole chunks
  and a part of the next (`KeptIsCut`); the last round takes what there is of that and then
  what lies behind (`TakesTheRest`, `CutIsDecoded`). The reader's invariant (`ChunkedInv`) is
  that what it keeps is the beginning of the transfer, in whatever pieces it came.
* `PingsOnePacketCostsOneAnswer`, for any number of packets that `sequence` can count
  (`NPackets <= 65535`), any number of tasks, stray and lost packets. The ledger is
  `Spent`: requests sent and packets not yet read are no more than this ping's own requests
  that are somewhere plus what was lost or came from others; it is inductive only with `Budget`, which
  bounds what earlier pings left unread. `ChecksumVerifies` is proved for every payload: two
  packets that differ in the checksum's word alone (`Twins`) have sums that differ by it, and
  two additions of the carries are enough for 127 bytes (`Carries`).

**Names and values** (`NvListProofs`).

* `ListsFitTheirBuffers`, for any characters, names, values and sizes, encoded or not, and
  any received string. Every slot has a cost, the length of its pair and two delimiters;
  the cost of all is `data_size` and two for each pair that was put, since a pair goes into a
  free slot only (`InsertCosts`), and no string is longer than its slots cost
  (`WrittenCosts`). Of the list that is read, the pairs are in the first slots
  (`FirstSlots`), and there is room for as many as there are "&" in what is left, and one
  (`CountShrinks`).
* `ListsReadBack`, if values are encoded (`Encodes`) and `nv_list_insert` is asked to look for the
  slot (`Indices = {0}`), as every caller in the program does. `urldecode_dup` takes back what
  `urlencode_dup` did for every text (`DecodesEncoded`): the place in the coded text where
  each character's code begins is where the decoder stands when it has read those before
  it. `ReadSoFar` says the same of the pairs: what is still to read is what is written behind the
  pairs that are in the list already; there the next pair is found whole, since neither
  a name nor an encoded value has a delimiter in it (`PairIsFound`).

A recursive function's value at every argument is not the theorem of one step. For those in
these modules that there is such a function is proved first (`StepsExist`), then that it is
the one `CHOOSE` has taken, then what holds of its values, number by number (`AllNumbers`);
the well-foundedness of `<` is all that is used of the library.

The assumptions are those of the modules (`TableAssumption`, `WorkerAssumption`,
`CacheAssumption`, `HttpAssumption`, `PagePartsAssumption`, `ReadAssumption`,
`ResolverAssumption`, `SupervisorAssumption`, `OptionsAssumption`, `UrlAssumption`,
`NvListAssumption`, `ExchangeAssumption`, `IcmpAssumption`, `ChunkedAssumption`,
`LookupAssumption`, `ProbeAssumption`): sizes and
numbers of servers and tries are positive, 0 is no id and no descriptor, the ring's size divides the counter's range, the limit of a
body is above the header's, which is above a read's. TLC evaluates them in every run.

Only model-checked: everything with fairness (liveness and `ENABLED` are beyond the prover).

## 5. Not modelled

* The Windows front end, logging, probecast (nothing reads it back), the set-up dialogue
  and system queries change no state the other parts read.
* Cryptography is the result of a verification; the probe's own key pair is a signature
  that verifies.
* Of libares: reading `resolv.conf` and the hosts file, parsing answers, and the functions
  the probe never calls. An answer is what the parser makes of it. There is one look-up
  at a time, as in the probe, so that queries do not share a server's socket.
* Inflating a body, cookies, and the text of requests and headers: no property of the
  modules depends on them. A `Content-Length` or `Location` line is found or not.
* SSL connections. `url2http` asks for one when the scheme is "https", but the scheme's
  beginning is forgotten where it is found (url-parse.c:119) and never compares equal
  (url-parse.c:73), messages ask for none (proto.c:159), and nothing else makes requests:
  the handshake and the encrypted reads and writes of `http.c` are not reached. `Http` sends
  the request for an https URL as the code does, in the clear.
* The failure of an allocation, as for a `Content-Length` of a billion: the probe ends
  there. The sizes that are allocated are modelled (`Allocated`).
* The layout of the message header and its byte order; team information and the creation
  of directories in `lib/fileman.c`.
* What undefined behaviour does after it was reached: a body written beyond its end
  (`HttpRead`'s "undefined"), a crash (`NvList`), an abort (`Url`, `Exchange`) ends the behaviour.
