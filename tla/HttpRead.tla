------------------------------ MODULE HttpRead ------------------------------
(***************************************************************************)
(* net-modules/http.c, the reading of one response with status 200: the    *)
(* first byte, the header block, then a body with a Content-Length or one  *)
(* that ends with the connection, kept (HTML) or discarded.  The server    *)
(* sends in bursts of any size with pauses of any length between them, and *)
(* may announce a length other than that of the body it sends.             *)
(*                                                                         *)
(* Bytes are counted, not represented: the response is head bytes of       *)
(* header, its blank line the last of them, and body bytes after it.       *)
(***************************************************************************)
EXTENDS Integers

CONSTANTS
    HeadSize,   \* HTTP_HEAD_SIZE
    ReadSize,   \* HTTP_READ_SIZE
    BodyLimit,  \* HTTP_BODY_LIMIT
    MinHead,    \* 16: a shorter header is invalid
    Modulus,    \* the values of an unsigned int, 2^32
    HeadLens,   \* the header lengths servers send
    BodyLens,   \* the body lengths servers send
    Announced   \* what atoi makes of a Content-Length, as an unsigned int

ASSUME ReadAssumption ==
    /\ HeadSize \in Nat /\ ReadSize \in Nat /\ BodyLimit \in Nat /\ MinHead \in Nat
    /\ 0 < MinHead /\ 0 < ReadSize /\ ReadSize <= HeadSize /\ HeadSize < BodyLimit
    /\ Modulus \in Nat /\ BodyLimit + ReadSize < Modulus
    /\ HeadLens \subseteq MinHead .. HeadSize /\ BodyLens \subseteq Nat
    /\ Announced \subseteq 0 .. (Modulus - 1) /\ 0 \in Announced

VARIABLES
    response,   \* the server's: head and body, length (is announced), announced, html
    sent,       \* bytes that have arrived
    taken,      \* bytes read off the socket
    closed,     \* the server has closed the connection
    pc,         \* the read loop that is running
    loop,       \* its variables: len still wanted, seen, last and s
    head_len,   \* req->head_len
    body_len,   \* req->body_len
    room,       \* the size req->body was allocated with, its terminator included
    len,        \* the callers' own count of bytes to come
    along,      \* history: bytes of the body that came with a whole header
    cut,        \* history: how a loop ended before it had what it wanted
    waited      \* history: a time-out came when everything had arrived

vars == <<response, sent, taken, closed, pc, loop, head_len, body_len, room, len, along,
          cut, waited>>

Loops == {"first", "header", "keep", "rest", "discard", "unknown"}

\* What an unsigned int keeps of a difference.
Wraps(d) == d % Modulus

Least(x, y) == IF x < y THEN x ELSE y
Total == response.head + response.body
Unread == sent - taken

\* A read loop asked for n bytes.
Reading(n) == [len |-> n, seen |-> 0, last |-> 0, s |-> 0]

Init ==
    /\ response \in [head : HeadLens, body : BodyLens, length : BOOLEAN,
                     announced : Announced, html : BOOLEAN]
    /\ ~response.length => response.announced = 0
    /\ sent = 0 /\ taken = 0 /\ closed = FALSE
    /\ pc = "first" /\ loop = Reading(1)
    /\ head_len = 0 /\ body_len = 0 /\ room = 0 /\ len = 0
    /\ along = 0 /\ cut = {} /\ waited = FALSE

-----------------------------------------------------------------------------
(* The server.                                                             *)

Arrive ==
    /\ ~closed /\ \E n \in 1 .. (Total - sent) : sent' = sent + n
    /\ UNCHANGED <<response, taken, closed, pc, loop, head_len, body_len, room, len, along,
                   cut, waited>>

\* At the end of the response, or in the middle of it.
ServerCloses ==
    /\ ~closed /\ closed' = TRUE
    /\ UNCHANGED <<response, sent, taken, pc, loop, head_len, body_len, room, len, along,
                   cut, waited>>

-----------------------------------------------------------------------------
(* The loops: r_select and common_read_block.                              *)

\* read_header looks for the blank line after every read.
HeaderFound == pc = "header" /\ head_len + loop.seen >= response.head

Wanting == pc \in Loops /\ loop.len > 0 /\ ~HeaderFound

\* The loop waits the long time-out after a read as large as the one before it.
WaitsLong == loop.last = loop.s \/ loop.s = 0

\* The bytes the running loop's buffer has room for.
Space == CASE pc \in {"first", "header"} -> HeadSize - head_len
           [] pc \in {"keep", "unknown"} -> room - body_len
           [] OTHER -> ReadSize

\* What the next read() asks for and what it returns.
Asks == Least(loop.len, ReadSize)
Gets == Least(Asks, Unread)

ReadSome ==
    /\ Wanting /\ Unread > 0 /\ loop.seen + Gets <= Space
    /\ loop' = [len |-> loop.len - Gets, seen |-> loop.seen + Gets,
                last |-> IF loop.s = 0 THEN Asks ELSE loop.s, s |-> Gets]
    /\ taken' = taken + Gets
    /\ UNCHANGED <<response, sent, closed, pc, head_len, body_len, room, len, along, cut, waited>>

\* read() writes beyond the buffer: what happens then is not defined.
Overrun ==
    /\ Wanting /\ Unread > 0 /\ loop.seen + Gets > Space
    /\ pc' = "undefined"
    /\ UNCHANGED <<response, sent, taken, closed, loop, head_len, body_len, room, len, along,
                   cut, waited>>

\* The loop gives up with what it has; its caller sees only a smaller number.
GivesUp(why) ==
    /\ loop' = [loop EXCEPT !.len = 0]
    /\ cut' = cut \cup {[loop |-> pc, why |-> why]}
    /\ UNCHANGED <<response, sent, taken, closed, pc, head_len, body_len, room, len, along>>

\* Mutant: select() without a time-out.
TimesOutNever == FALSE

TimesOut ==
    /\ Wanting /\ Unread = 0 /\ ~closed
    /\ GivesUp(IF WaitsLong THEN "long" ELSE "short")
    /\ waited' = (waited \/ sent = Total)

EndOfFile ==
    /\ Wanting /\ Unread = 0 /\ closed
    /\ GivesUp("closed")
    /\ UNCHANGED waited

LoopOver == pc \in Loops /\ ~Wanting

Goto(where, n) == pc' = where /\ loop' = Reading(n)

-----------------------------------------------------------------------------
(* What follows each loop.                                                 *)

\* http_handle_response: the first byte is timed, then the header is read.
FirstByteRead ==
    /\ pc = "first" /\ LoopOver
    /\ head_len' = loop.seen
    /\ Goto("header", HeadSize - loop.seen)
    /\ UNCHANGED <<response, sent, taken, closed, body_len, room, len, along, cut, waited>>

\* behead_http_req: what the header's reads got of the body, or all of an
\* unfinished header when there is no blank line to split it at.
Beheaded(n) == IF n >= response.head THEN n - response.head ELSE n

\* Mutant: the bytes that came with the header are not counted.
KeptAll(total, have) == Least(total, BodyLimit)

\* How much http_read_body_keep still wants of an announced body.
Kept(total, have) == Wraps(Least(total, BodyLimit) - have)

\* What http_read_body_discard asks of the next read_to_buffer.
DiscardWants(n, have) ==
    LET want == Wraps(n - have)
    IN  IF want > ReadSize THEN Wraps(ReadSize - have) ELSE want

HeaderTooShort ==
    /\ pc = "header" /\ LoopOver /\ head_len + loop.seen < MinHead
    /\ head_len' = head_len + loop.seen
    /\ pc' = "invalid"
    /\ UNCHANGED <<response, sent, taken, closed, loop, body_len, room, len, along, cut, waited>>

\* The size behead_http_req allocates for the body; without a Content-Length
\* http_read_length_unknown reallocates it.
Allocated(whole, html, length, total) ==
    IF ~length THEN BodyLimit + 1
    ELSE IF ~whole THEN head_len + loop.seen + 1
    ELSE IF html THEN Least(total, BodyLimit) + 1
    ELSE Wraps(total + 1)

\* The choice of http_read_body, by the Content-Type and Content-Length lines
\* if they are in the part of the header that was read, and a number cut short
\* is another number.  More bytes than were announced are copied all the same.
HeaderRead ==
    /\ pc = "header" /\ LoopOver /\ head_len + loop.seen >= MinHead
    /\ LET n == head_len + loop.seen
           have == Beheaded(n)
           whole == n >= response.head
       IN  \E html, length \in BOOLEAN, total \in Announced :
             /\ whole => /\ html = response.html /\ length = response.length
                         /\ total = response.announced
             /\ length => response.length
             /\ html => response.html
             /\ head_len' = IF whole THEN response.head ELSE n
             /\ along' = IF whole THEN have ELSE 0
             /\ room' = Allocated(whole, html, length, total)
             /\ len' = IF length THEN total ELSE 0
             /\ \/ /\ have > room'
                   /\ Goto("undefined", 0) /\ body_len' = have
                \/ /\ have <= room' /\ ~length
                   /\ Goto("unknown", BodyLimit - have) /\ body_len' = have
                \/ /\ have <= room' /\ length /\ html
                   /\ Goto("keep", Kept(total, have)) /\ body_len' = have
                \/ /\ have <= room' /\ length /\ ~html /\ total > 0
                   /\ Goto("discard", DiscardWants(total, have)) /\ body_len' = have
                \/ /\ have <= room' /\ length /\ ~html /\ total = 0
                   /\ Goto("done", 0) /\ body_len' = 0
    /\ UNCHANGED <<response, sent, taken, closed, cut, waited>>

\* http_read_body_keep: then the part over the limit is read and dropped.
BodyKept ==
    /\ pc = "keep" /\ LoopOver
    /\ body_len' = body_len + loop.seen
    /\ IF len > BodyLimit
       THEN /\ len' = len - BodyLimit
            /\ Goto("rest", Least(len', ReadSize))
       ELSE pc' = "done" /\ UNCHANGED <<loop, len>>
    /\ UNCHANGED <<response, sent, taken, closed, head_len, room, along, cut, waited>>

\* Mutant: one piece is enough.
DiscardedOnce ==
    /\ pc = "rest" /\ LoopOver
    /\ len' = len - loop.seen
    /\ pc' = "done" /\ UNCHANGED loop
    /\ UNCHANGED <<response, sent, taken, closed, head_len, body_len, room, along, cut, waited>>

\* http_read_discard, one piece after the other.
Discarded ==
    /\ pc = "rest" /\ LoopOver
    /\ len' = len - loop.seen
    /\ IF loop.seen > 0 /\ len' > 0
       THEN Goto("rest", Least(len', ReadSize))
       ELSE pc' = "done" /\ UNCHANGED loop
    /\ UNCHANGED <<response, sent, taken, closed, head_len, body_len, room, along, cut, waited>>

\* http_read_body_discard, one piece after the other; the body is freed.
BodyDiscarded ==
    /\ pc = "discard" /\ LoopOver
    /\ len' = Wraps(len - loop.seen)
    /\ IF loop.seen > 0 /\ len' # 0
       THEN /\ Goto("discard", DiscardWants(len', body_len))
            /\ UNCHANGED body_len
       ELSE pc' = "done" /\ body_len' = 0 /\ UNCHANGED loop
    /\ UNCHANGED <<response, sent, taken, closed, head_len, room, along, cut, waited>>

\* http_read_length_unknown without chunks; a page that is not HTML is freed.
RestRead ==
    /\ pc = "unknown" /\ LoopOver
    /\ \E html \in BOOLEAN :
          /\ head_len >= response.head => html = response.html
          /\ html => response.html
          /\ body_len' = IF html THEN body_len + loop.seen ELSE 0
    /\ pc' = "done"
    /\ UNCHANGED <<response, sent, taken, closed, loop, head_len, room, len, along, cut, waited>>

ProbeStep ==
    \/ ReadSome \/ Overrun \/ TimesOut \/ EndOfFile
    \/ FirstByteRead \/ HeaderTooShort \/ HeaderRead
    \/ BodyKept \/ Discarded \/ BodyDiscarded \/ RestRead

Next == Arrive \/ ServerCloses \/ ProbeStep

Spec == Init /\ [][Next]_vars

\* select() returns at the latest when its time-out is over.
FairSpec == Spec /\ WF_vars(ProbeStep)
-----------------------------------------------------------------------------
(* Properties.                                                             *)

HeaderWasCut == \E c \in cut : c.loop \in {"first", "header"}

\* More of the body came with the header than the Content-Length says.  (Of a
\* length of -1 a buffer without a byte is left.)
TooMuchCame ==
    /\ response.length
    /\ \/ along > response.announced
       \/ response.announced + 1 = Modulus /\ ~response.html /\ along > 0

Misled == HeaderWasCut \/ TooMuchCame

ReadTypeOK ==
    /\ sent \in Nat /\ taken \in Nat /\ taken <= sent /\ sent <= Total
    /\ pc \in Loops \cup {"invalid", "undefined", "done"}
    /\ loop \in [len : Nat, seen : Nat, last : Nat, s : Nat]
    /\ head_len \in Nat /\ body_len \in Nat /\ room \in Nat /\ len \in Nat

\* The body and what a running loop may still read stay inside their buffers,
\* with a byte left for the terminator of a body that is kept, whatever part of
\* the body came with the header and whatever length was announced, as long as
\* no more came with the header than that.
BodyFits ==
    ~Misled =>
        /\ body_len <= room
        /\ pc \in Loops => loop.seen + loop.len <= Space
        /\ pc \in {"keep", "unknown"} => loop.seen + loop.len < Space

\* The unsigned differences of the read functions do not wrap and nothing is
\* written beyond a buffer, in a header, a body or a piece that is dropped,
\* unless the header was cut short or more came with it than it announces.
NoUnderflow ==
    ~Misled => pc # "undefined" /\ (pc = "discard" => len >= body_len)

\* Sizes and lengths stay in their ranges and bodies in their buffers
\* (read_keep_body, read_unknown_body, read_discard_body).
ReadInBounds == ReadTypeOK /\ BodyFits /\ NoUnderflow

\* What is kept of a page is its beginning without a gap: all that was read, up
\* to the limit, also when a read was cut short.  (Only a page over the limit
\* whose kept part was cut short goes on losing bytes that would have fitted.)
KeptIsPrefix ==
    pc = "done" /\ response.html /\ ~Misled =>
        \/ body_len = Least(taken - response.head, BodyLimit)
        \/ /\ response.length /\ response.announced > BodyLimit
           /\ \E c \in cut : c.loop = "keep"
           /\ body_len < taken - response.head

\* Without a pause, what was announced is read to its last byte and not beyond,
\* in pieces of any size: that is what leaves an honest server's connection at
\* the next response.
WholeBodyRead ==
    pc = "done" /\ cut = {} /\ response.length /\ ~TooMuchCame =>
        taken = response.head + response.announced

\* Of a server that sends what it announces, the probe never waits for a byte
\* that the server has no reason to send.
NeverWaitsForMore ==
    response.length /\ response.announced <= response.body /\ ~Misled => ~waited

\* Of a page what is kept is its beginning without a gap; an announced length is
\* read to its last byte and nothing is waited for behind it (http_read_body).
BodyAsSent == KeptIsPrefix /\ WholeBodyRead /\ NeverWaitsForMore

\* protocol.html:2570: the result code of a task is 3 for an HTTP time-out.
\* do_http_task reports success for every page that http_get returned 0 for.
TimeoutIsReported ==
    pc = "done" => \A c \in cut : c.why = "closed"

\* A server that stops, trickles or never ends does not keep the probe.
ReadingEnds == <>(pc \in {"done", "invalid", "undefined"})
=============================================================================
