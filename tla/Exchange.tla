------------------------------ MODULE Exchange ------------------------------
(***************************************************************************)
(* An exchange of messages with a server (lib/proto.c, crypt/base64): the  *)
(* message of a check-in, a request for work or a report is built, the     *)
(* server's name looked up, the message encoded and posted, and the answer *)
(* decoded.  A report is sent again until there is an answer.              *)
(*                                                                         *)
(* A text is its length, and whether bytes of other use follow it because  *)
(* no NUL was written behind it.                                           *)
(***************************************************************************)
EXTENDS Integers, FiniteSets

CONSTANTS
    MaxResults,     \* MAX_TASKS
    Ints,           \* values of ids and of the numbers of a result
    Addresses,      \* lengths of addresses that are written out
    BodyLens,       \* lengths of the bodies of check-ins and requests for work
    AnswerLens      \* lengths of what an answer's body is decoded to

MaxInt == 2147483647    \* of int
MaxSize == 65535        \* of the header's two bytes

ASSUME ExchangeAssumption ==
    /\ MaxResults \in 0 .. 15                     \* the table has no more tasks
    /\ Ints \subseteq -MaxInt - 1 .. MaxInt
    /\ Addresses \subseteq 0 .. 15                \* inet_ntoa
    /\ BodyLens \subseteq 0 .. MaxSize /\ AnswerLens \subseteq Nat

VARIABLES
    stage,      \* what is done next
    caller,     \* which message it is
    contents,   \* of a report: how many results, and their numbers
    body,       \* the length of the body
    size,       \* the size in the header
    signed,     \* the length of what was signed
    server,     \* the option that names the server
    out,        \* what is posted
    pmr,        \* the length of the answer's body
    rv,         \* what is returned
    posts       \* history: how often it was posted: 0, 1, or 2 for more

exchangeVars == <<stage, caller, contents, body, size, signed, server, out, pmr, rv, posts>>

Callers == {"checkin", "givework", "report"}
HeaderSize == 60
EncodeSize == 4096      \* malloc in proto_mesg_encode
BufSize == 256          \* buf in collection_report
IntToSSize == 10        \* INT_TO_S_SIZE

NoText == [len |-> 0, more |-> FALSE]

ExchangeInit ==
    /\ stage = "build" /\ caller \in Callers
    /\ contents \in IF caller = "report"
                    THEN [n : 0 .. MaxResults, id : Ints, number : Ints, addr : Addresses]
                    ELSE {[n |-> 0, id |-> 0, number |-> 0, addr |-> 0]}
    /\ body = 0 /\ size = 0 /\ signed = 0 /\ server = "none"
    /\ out = NoText /\ pmr = 0 /\ rv = 0 /\ posts = 0

-----------------------------------------------------------------------------
(* Lengths.                                                                *)

\* "%i"
IntToS(n) ==
    LET abs == IF n < 0 THEN -n ELSE n
    IN  (IF n < 0 THEN 1 ELSE 0) + 1 + Cardinality({k \in 1 .. 9 : 10 ^ k <= abs})

\* Mutant: the task's data is written too.
TaskToSWithData(c) == 12 * IntToS(c.number) + c.addr + 13 + 1024

\* task_to_s: twelve numbers, the address, commas.
TaskToS(c) == 12 * IntToS(c.number) + c.addr + 12

\* The string of collection_report's list: its pairs and the "&" between them.
ReportSize(c) ==
    c.n * (IntToS(c.id) + 1 + TaskToS(c) + 1) + 8 + IntToS(c.id)

\* Base64 with a newline behind every 64 characters.
Base64(n) == 4 * ((n + 2) \div 3) + ((n + 47) \div 48)

-----------------------------------------------------------------------------
(* proto_mesg_build; the signature is that of the body.                    *)

\* Mutant: the size is that of the names and values alone.
BuildCountsPairs ==
    /\ stage = "build"
    /\ body' \in IF caller = "report" THEN {ReportSize(contents)} ELSE BodyLens
    /\ size' = (body' - 2 * contents.n) % (MaxSize + 1)
    /\ signed' = body' /\ stage' = "send" /\ UNCHANGED rv
    /\ UNCHANGED <<caller, contents, server, out, pmr, posts>>

Build ==
    /\ stage = "build"
    /\ body' \in IF caller = "report" THEN {ReportSize(contents)} ELSE BodyLens
    /\ size' = body' % (MaxSize + 1)
    /\ \/ signed' = body' /\ stage' = "send" /\ UNCHANGED rv
       \/ UNCHANGED signed /\ stage' = "returned" /\ rv' = -1
    /\ UNCHANGED <<caller, contents, server, out, pmr, posts>>

-----------------------------------------------------------------------------
(* proto_mesg_send.  Every caller asks for FN_DISPATCH.                    *)

\* resolve_cached, and resolve after the interval.
NameResolved ==
    /\ stage \in {"send", "resolve"}
    /\ server' = "dispatch-server"
    /\ stage' = "post"
    /\ UNCHANGED <<caller, contents, body, size, signed, out, pmr, rv, posts>>

NameNotResolved ==
    /\ stage \in {"send", "resolve"}
    /\ stage' = "sleep"
    /\ UNCHANGED <<caller, contents, body, size, signed, server, out, pmr, rv, posts>>

\* Mutant: it sleeps again.
SleepOn == stage = "sleep" /\ UNCHANGED exchangeVars

\* sleep(interval); a signal may end it early.
Sleep ==
    /\ stage = "sleep" /\ stage' = "resolve"
    /\ UNCHANGED <<caller, contents, body, size, signed, server, out, pmr, rv, posts>>

\* What the server decodes of a post is a header and size bytes of the body.
Raw == HeaderSize + size

\* The encoded text has no NUL, so that urlencode_dup may read on in its buffer;
\* neither has "fn=" and the text after it.
Post ==
    /\ stage = "post"
    /\ \E more \in BOOLEAN : out' = [len |-> Raw, more |-> more]
    /\ posts' = IF posts < 2 THEN posts + 1 ELSE posts
    /\ stage' = "answer"
    /\ UNCHANGED <<caller, contents, body, size, signed, server, pmr, rv>>

Returns(r) == stage' = "returned" /\ rv' = r

\* No body came; collection_report sleeps and sends the report again.
NoAnswer ==
    /\ stage = "answer"
    /\ IF caller = "report" THEN stage' = "send" /\ UNCHANGED rv ELSE Returns(-1)
    /\ UNCHANGED <<caller, contents, body, size, signed, server, out, pmr, posts>>

\* What was decoded holds a header.
Answer ==
    /\ stage = "answer"
    /\ \E decoded \in AnswerLens : decoded >= HeaderSize /\ pmr' = decoded - HeaderSize
    /\ Returns(0)
    /\ UNCHANGED <<caller, contents, body, size, signed, server, out, posts>>

\* It does not: the size wraps round, and there is no memory for as much.
ShortAnswer ==
    /\ stage = "answer"
    /\ \E decoded \in AnswerLens : decoded < HeaderSize
    /\ stage' = "abort"
    /\ UNCHANGED <<caller, contents, body, size, signed, server, out, pmr, rv, posts>>

Answered == Answer \/ ShortAnswer

ExchangeNext == \/ Build \/ NameResolved \/ NameNotResolved \/ Sleep
        \/ Post \/ NoAnswer \/ Answered

(* The process runs; a name that is looked up again and again is resolved,  *)
(* and a message that is posted again and again is answered, in the end.    *)
ExchangeSpec ==
    /\ ExchangeInit /\ [][ExchangeNext]_exchangeVars
    /\ WF_exchangeVars(Build) /\ WF_exchangeVars(Sleep) /\ WF_exchangeVars(Post)
    /\ WF_exchangeVars(NameResolved \/ NameNotResolved) /\ SF_exchangeVars(NameResolved)
    /\ WF_exchangeVars(NoAnswer \/ Answered) /\ SF_exchangeVars(Answered)

-----------------------------------------------------------------------------
(* Properties.                                                             *)

\* Every variable is in its domain.
ExchangeTypeOK ==
    /\ stage \in {"build", "send", "sleep", "resolve", "post", "answer", "returned", "abort"}
    /\ body \in Nat /\ size \in 0 .. MaxSize /\ signed \in {0, body}
    /\ server \in {"none", "dispatch-server", "collection-server"}
    /\ out.len \in Nat /\ pmr \in Nat /\ rv \in {0, -1} /\ posts \in 0 .. 2

\* The largest report the table can give, every number at its longest, fits the
\* buffers on its way: buf, and the 4096 bytes for its Base64 text.
ReportFits ==
    caller = "report" =>
        /\ TaskToS(contents) + 1 <= BufSize
        /\ stage = "post" => Base64(Raw) <= EncodeSize

\* What is posted, however often, is the header and all of the body that was signed.
SignedIsPosted == out # NoText => out.len = HeaderSize + signed

\* A report ends in an answer once it was posted, a check-in and a request for work
\* are posted once at most.
ReportIsRepeated ==
    /\ (stage = "returned" /\ posts > 0 /\ caller = "report") => rv = 0
    /\ caller # "report" => posts < 2

\* A report, the largest too, fits the buffers on its way; what is posted is the
\* header and all that was signed; a report is posted until it is answered,
\* nothing else is (task_to_s, proto_mesg_build, proto_mesg_encode,
\* collection_report).
PostsWhatWasSigned == ExchangeTypeOK /\ ReportFits /\ SignedIsPosted /\ ReportIsRepeated

\* An exchange ends, though lookups and posts fail many times.
ExchangeEnds == <>(stage \in {"returned", "abort"})

-----------------------------------------------------------------------------
(* What the documents say, and the code does not do.                       *)

\* "assumes str is a urlencoded string of name=value pairs" (http.c:318)
PostsAString == out.more = FALSE

\* "the size of an int converted into a string will less than or equal to
\* (2.5 * sizeof(int))" (util.h:43): wid and tid hold the id and its NUL.
IdsFit == (caller = "report" /\ stage # "build") => IntToS(contents.id) + 1 <= IntToSSize

\* "Message 3 Report Results to collection server" (protocol.html:2382)
ReportsGoToCollection == caller = "report" => server \in {"none", "collection-server"}

=============================================================================
