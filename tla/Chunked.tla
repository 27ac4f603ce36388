------------------------------- MODULE Chunked -------------------------------
(***************************************************************************)
(* net-modules/http.c: reading a chunked body (read_chunked_body_bin with  *)
(* read_to_buffer_0) and turning it into a regular one                     *)
(* (unchunk_chunked_body).  The reader knows no state between two fills of *)
(* its buffer: it looks for size lines by their shape, wherever they stand.*)
(* A read may end at any byte, and so may the transfer.                    *)
(*                                                                         *)
(* A byte is CR, LF, a hexadecimal digit or any other byte; the length of  *)
(* a chunk is one digit.                                                   *)
(***************************************************************************)
EXTENDS Integers, Sequences, SequencesExt

CONSTANTS
    Digits,     \* the digits in use: a subset of 0..15 that contains 0
    DataBytes,  \* the bytes chunks are made of
    Transfers,  \* the sequences of chunks a server may send
    ReadSize,   \* HTTP_READ_SIZE
    BodyLimit,  \* HTTP_BODY_LIMIT
    CR, LF,     \* the two control bytes
    Garbage     \* a byte of no body

ASSUME ChunkedAssumption ==
    /\ 0 \in Digits /\ Digits \subseteq 0 .. 15
    /\ CR \notin Digits /\ LF \notin Digits
    /\ \A cs \in Transfers :
          cs \in Seq(Seq(DataBytes)) /\ \A k \in DOMAIN cs : Len(cs[k]) \in Digits \ {0}
    /\ ReadSize \in Nat \ {0} /\ BodyLimit \in Nat /\ Garbage \notin DataBytes

VARIABLES
    chunks,     \* what the server sends
    pos,        \* bytes of it that were read
    buf,        \* the reader's buffer, its first seen bytes
    len,        \* what it asks for next
    keep,       \* whether the body is wanted
    kept,       \* req->body, as far as it was copied
    reader      \* "first", "scan", "read", "end"

chunkVars == <<chunks, pos, buf, len, keep, kept, reader>>

CRLF == <<CR, LF>>
Chunk(data) == <<Len(data)>> \o CRLF \o data \o CRLF
LastChunk == <<0>> \o CRLF \o CRLF
Coded(cs) == FlattenSeq([i \in DOMAIN cs |-> Chunk(cs[i])]) \o LastChunk

Transfer == Coded(chunks)

-----------------------------------------------------------------------------
(* Helpers over bytes; positions count from 1 as TLA+ sequences do.        *)

IsDigit(b, i) == i \in DOMAIN b /\ b[i] \in Digits

\* The first position from i on that holds no digit.
AfterDigits(b, i) ==
    CHOOSE j \in i .. Len(b) + 1 :
        ~IsDigit(b, j) /\ \A k \in i .. j - 1 : IsDigit(b, k)

IsCRLF(b, i) == i + 1 <= Len(b) /\ b[i] = CR /\ b[i + 1] = LF

\* strtoul in base 16, which skips white space first.
Strtoul(b, i) ==
    LET start == CHOOSE j \in i .. Len(b) + 1 :
                    /\ \A k \in i .. j - 1 : b[k] \in {CR, LF}
                    /\ j \in DOMAIN b => b[j] \notin {CR, LF}
        n == AfterDigits(b, start) - start
        value[k \in 0 .. n] == IF k = 0 THEN 0 ELSE 16 * value[k - 1] + b[start + k - 1]
    IN  value[n]

Least(x, y) == IF x < y THEN x ELSE y

-----------------------------------------------------------------------------
(* unchunk_chunked_body.                                                   *)

\* The next size line: the digits after whatever is no digit, as far as the
\* byte before the last one.
SizeAt(b, i) ==
    CHOOSE j \in i .. Len(b) + i :
        /\ \A k \in i .. j - 1 : k < Len(b) /\ ~IsDigit(b, k)
        /\ j >= Len(b) \/ IsDigit(b, j)

\* A round of the loop, u being at a position with what it has decoded so far; size
\* is what req->body_len becomes.  Where a chunk is said to go on beyond the body, what
\* follows it in memory is copied: those bytes are Garbage.
UnchunkRound(b, u) ==
    LET c0 == SizeAt(b, u.at)
        c1 == IF c0 < Len(b) THEN AfterDigits(b, c0) ELSE c0
        n == Strtoul(b, c0)
        start == c1 + 2
        asked == IF Len(u.data) + n > Len(b) THEN Len(b) - (start - 1) ELSE n
        copied == [k \in 1 .. asked |->
                      IF start + k - 1 \in DOMAIN b THEN b[start + k - 1] ELSE Garbage]
    IN  IF ~IsCRLF(b, c1) THEN [u EXCEPT !.over = TRUE, !.size = c0 - 1]
        ELSE IF n = 0 THEN [u EXCEPT !.over = TRUE, !.size = Len(u.data)]
        ELSE [u EXCEPT !.at = start + asked, !.data = @ \o copied]

\* The size given to an empty body: body_len - 1 wraps, and the search for a digit
\* goes on behind the body until it finds one there.
Astray == -1

\* Every round but the last takes some bytes.
Unchunk(b) ==
    LET empty == b = <<>>
        u[k \in 0 .. Len(b) + 1] ==
            IF k = 0
            THEN [at |-> 1, data |-> <<>>, size |-> IF empty THEN Astray ELSE 0, over |-> empty]
            ELSE LET old == u[k - 1] IN IF old.over THEN old ELSE UnchunkRound(b, old)
    IN  u[Len(b) + 1]

-----------------------------------------------------------------------------
(* read_chunked_body_bin.                                                  *)

\* What is at position i of a buffer: the last chunk's size line, another one, or none.
ScanAt(b, s, i) ==
    LET looksLikeSize == \/ i = 1
                         \/ /\ i > 3 /\ Len(b) > 2
                            /\ b[i - 2] = CR /\ b[i - 1] = LF /\ IsDigit(b, i)
        j == AfterDigits(b, i)
        size == Strtoul(b, i)
    IN  IF ~looksLikeSize \/ ~IsCRLF(b, j) THEN [s EXCEPT !.next = i + 1]
        ELSE IF size = 0 THEN [s EXCEPT !.end = TRUE]
        ELSE [s EXCEPT !.next = IF i = j THEN i + 1 ELSE j,
                       !.len = IF Len(b) > size THEN Len(b) ELSE size + 8]

\* The search of a buffer for size lines: whether the last chunk's was seen,
\* and the number of bytes to ask for next.
ScanAll(b, n) ==
    LET s[i \in 0 .. Len(b)] ==
            IF i = 0 THEN [end |-> FALSE, len |-> n, next |-> 1]
            ELSE LET old == s[i - 1]
                 IN  IF old.end \/ i < old.next THEN old ELSE ScanAt(b, old, i)
    IN  s[Len(b)]

\* Less than one read of the body came with the header.
ChunkedInit ==
    /\ chunks \in Transfers
    /\ \E got \in 0 .. Least(ReadSize - 1, Len(Transfer)) :
          pos = got /\ buf = SubSeq(Transfer, 1, got) /\ kept = buf
    /\ len = ReadSize
    /\ keep \in BOOLEAN
    /\ reader = IF pos = 0 THEN "first" ELSE "scan"

Scan ==
    /\ reader = "scan"
    /\ LET s == ScanAll(buf, len)
       IN  /\ len' = Least(s.len, ReadSize)
           /\ reader' = IF s.end \/ buf = <<>> THEN "end" ELSE "read"
    /\ UNCHANGED <<chunks, pos, buf, keep, kept>>

\* Mutant: the last byte of a piece is lost.
AppendedShort(b, piece) ==
    IF Len(b) + Len(piece) < BodyLimit /\ piece # <<>> THEN b \o Front(piece) ELSE b

\* A piece is kept as long as the body stays below the limit.
Appended(b, piece) == IF Len(b) + Len(piece) < BodyLimit THEN b \o piece ELSE b

\* read_to_buffer_0 returns with any number of bytes: the buffer is full, they hold a
\* last chunk behind others, or a time-out, an error or the server's end comes before
\* the next burst.  With no body in the header's reads, the first piece goes to the
\* body itself.
ReadPiece ==
    /\ reader \in {"read", "first"}
    /\ \E n \in 0 .. Least(len, Len(Transfer) - pos) :
          buf' = SubSeq(Transfer, pos + 1, pos + n) /\ pos' = pos + n
    /\ kept' = IF reader = "first" THEN buf'
               ELSE IF keep THEN Appended(kept, buf') ELSE kept
    /\ reader' = "scan"
    /\ UNCHANGED <<chunks, len, keep>>

ChunkedNext == Scan \/ ReadPiece

ChunkedSpec == ChunkedInit /\ [][ChunkedNext]_chunkVars /\ WF_chunkVars(ChunkedNext)

-----------------------------------------------------------------------------
(* Properties.                                                             *)

ChunkedTypeOK ==
    /\ pos \in 0 .. Len(Transfer) /\ len \in 0 .. ReadSize
    /\ Len(buf) <= ReadSize \/ pos = Len(buf)
    /\ reader \in {"first", "scan", "read", "end"}

\* Whatever bytes the chunks hold, size lines and blank lines among them, a
\* whole transfer is decoded to their concatenation.
UnchunkInvertsChunking ==
    reader = "first" =>
        LET decoded == Unchunk(Transfer)
        IN  /\ decoded.data = FlattenSeq(chunks)
            /\ decoded.size = Len(decoded.data)

\* Up to the limit, what is kept is what was read, without a gap, in whatever
\* pieces it came.
KeptWithoutGap ==
    keep /\ pos < BodyLimit => kept = SubSeq(Transfer, 1, pos)

\* A transfer that was cut at any byte (by a time-out, the server's end, or a size line
\* that only looked like the last one) is decoded to the bytes of its chunks that came,
\* of which nothing but the coding is missing, and then to what lay in memory; the size
\* covers them.  Without its last line end it is a whole one.
CutDecodesToBeginning ==
    reader = "end" /\ keep /\ pos < BodyLimit /\ kept # <<>> =>
        LET decoded == Unchunk(kept)
            sent == FlattenSeq(chunks)
        IN  /\ \E came \in 0 .. Len(decoded.data) :
                 /\ pos <= came + 5 * (Len(chunks) + 1)
                 /\ \A k \in DOMAIN decoded.data :
                      decoded.data[k] = IF k <= came THEN sent[k] ELSE Garbage
            /\ Len(decoded.data) <= Len(sent) /\ Len(decoded.data) <= decoded.size
            /\ pos >= Len(Transfer) - 2 => decoded.data = sent /\ decoded.size = Len(sent)

\* A whole transfer is decoded to its chunks' bytes and one that was cut to a beginning
\* of them, and up to the limit it was kept without a gap (unchunk_chunked_body,
\* read_chunked_body_bin).
ChunksAreRead ==
    ChunkedTypeOK /\ UnchunkInvertsChunking /\ KeptWithoutGap /\ CutDecodesToBeginning

\* Every transfer's reading stops, though the reader may miss the last chunk: it
\* stops when nothing comes any more.
ReadingStops == <>(reader = "end")

\* http.c:459-460, of read_chunked_body_bin: "reads any chunked http transfer,
\* binary or text", "status: working without any known bugs".  It must not take
\* the middle of a transfer for its end when more comes.
ReadsToTheEnd ==
    reader = "end" => buf = <<>> \/ pos >= Len(Transfer) - 2

\* http.c:539-540, of unchunk_chunked_body: "turn a chunked HTTP body into a
\* regular one", "status: working without any known bugs".  The size given to a body
\* is the number of bytes decoded, also when its end is missing.
SizeIsWhatWasDecoded ==
    reader = "end" /\ kept # <<>> =>
        LET decoded == Unchunk(kept)
        IN  decoded.size = Len(decoded.data) /\ Garbage \notin ToSet(decoded.data)
=============================================================================
