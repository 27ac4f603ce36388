-------------------------------- MODULE Url --------------------------------
(***************************************************************************)
(* url2http and url_parse (url-parse.c): a URL is cut into its pieces at   *)
(* its delimiters, by five functions that hand on a cursor.                *)
(*                                                                         *)
(* A URL is a sequence of delimiters and of words, which stand for one or  *)
(* more other characters.  A pointer is a place in it, 0 is NULL; what is  *)
(* left of a word behind a pointer into it is a word again.                *)
(***************************************************************************)
EXTENDS Integers, Sequences, SequencesExt, FiniteSetsExt

CONSTANTS
    Word,       \* words that are no delimiters and no scheme
    Urls        \* the URLs of tasks and pages

Delimiter == {":", "/", "@"}
Token == Word \cup Delimiter \cup {"http", "https"}

\* What is not there stands for no piece, and for pieces that are empty.
NoPiece == <<>>
Piece == {"scheme", "user", "passwd", "host", "port", "path"}

ASSUME UrlAssumption ==
    /\ Word \cap (Delimiter \cup {"http", "https"}) = {}
    /\ \A u \in Urls : u \in Seq(Token)

VARIABLES
    url,        \* the URL
    fn,         \* the function that comes next, or how it ended
    cursor,     \* what the last one returned
    from, to,   \* start and stop of the pieces
    cut,        \* the pieces
    ssl         \* url2http's ssl

urlVars == <<url, fn, cursor, from, to, cut, ssl>>

NULL == 0

UrlInit ==
    /\ url \in Urls /\ fn = "url2http" /\ cursor = NULL
    /\ from = [p \in Piece |-> NULL] /\ to = [p \in Piece |-> NULL]
    /\ cut = [p \in Piece |-> NoPiece] /\ ssl = 0

\* strchr
Find(token, start) ==
    LET places == {k \in start .. Len(url) : url[k] = token}
    IN  IF places = {} THEN NULL ELSE Min(places)

Goto(place) == fn' = place /\ UNCHANGED <<url, cut, ssl>>

\* tryp
CursorIsNull(place, next) ==
    /\ fn = place /\ cursor = NULL
    /\ Goto(next) /\ UNCHANGED <<cursor, from, to>>

-----------------------------------------------------------------------------

\* A URL must start with "http"; others are bad.
Url2Http ==
    /\ fn = "url2http"
    /\ Goto(IF url # <<>> /\ Head(url) \in {"http", "https"} THEN "url_scheme" ELSE "bad")
    /\ UNCHANGED <<cursor, from, to>>

\* The places two characters further on.
IsWord(place) == place <= Len(url) /\ url[place] \notin Delimiter
TwoFurther(place) ==
    {place + 2} \cup (IF IsWord(place) THEN {place, place + 1} ELSE {})
                \cup (IF IsWord(place + 1) THEN {place + 1} ELSE {})

\* The scheme's start is forgotten where it is found.  Behind the ":" two more
\* characters are skipped, "//" or others, also when the URL has no more: the
\* cursor then is outside the string, and what it finds there is not defined.
UrlScheme ==
    /\ fn = "url_scheme"
    /\ LET colon == Find(":", 1)
       IN  /\ from' = [from EXCEPT !["scheme"] = IF colon = NULL THEN 1 ELSE NULL]
           /\ to' = [to EXCEPT !["scheme"] = colon]
           /\ \/ colon = NULL /\ cursor' = NULL /\ Goto("url_user_pass")
              \/ \E place \in TwoFurther(colon + 1) :
                    /\ colon # NULL
                    /\ \/ place <= Len(url) + 1 /\ cursor' = place /\ Goto("url_user_pass")
                       \/ place > Len(url) + 1 /\ cursor' = NULL /\ Goto("outside")

UrlUserPass ==
    \/ CursorIsNull("url_user_pass", "url_host")
    \/ /\ fn = "url_user_pass" /\ cursor # NULL /\ Goto("url_host")
       /\ LET at == Find("@", cursor)
              colon == Find(":", cursor)
              both == colon # NULL /\ colon < at
          IN  IF at = NULL THEN UNCHANGED <<cursor, from, to>>
              ELSE /\ cursor' = at + 1
                   /\ from' = [from EXCEPT !["user"] = cursor,
                                           !["passwd"] = IF both THEN colon + 1 ELSE @]
                   /\ to' = [to EXCEPT !["user"] = IF both THEN colon ELSE at,
                                       !["passwd"] = IF both THEN at ELSE @]

\* Mutant: a colon in the path ends the host.
UrlHostAnyColon ==
    \/ CursorIsNull("url_host", "url_port")
    \/ /\ fn = "url_host" /\ cursor # NULL /\ Goto("url_port")
       /\ LET colon == Find(":", cursor)
              slash == Find("/", cursor)
              stop == IF colon # NULL THEN colon ELSE slash
          IN  /\ from' = [from EXCEPT !["host"] = cursor]
              /\ to' = [to EXCEPT !["host"] = stop]
              /\ cursor' = stop

UrlHost ==
    \/ CursorIsNull("url_host", "url_port")
    \/ /\ fn = "url_host" /\ cursor # NULL /\ Goto("url_port")
       /\ LET colon == Find(":", cursor)
              slash == Find("/", cursor)
              stop == IF colon # NULL /\ colon < slash THEN colon ELSE slash
          IN  /\ from' = [from EXCEPT !["host"] = cursor]
              /\ to' = [to EXCEPT !["host"] = stop]
              /\ cursor' = stop

\* The port goes up to what atoi cannot read.
UrlPort ==
    \/ CursorIsNull("url_port", "url_path")
    \/ /\ fn = "url_port" /\ cursor # NULL /\ Goto("url_path")
       /\ IF url[cursor] # ":" THEN UNCHANGED <<cursor, from, to>>
          ELSE LET slash == Find("/", cursor)
               IN  /\ from' = [from EXCEPT !["port"] = cursor + 1]
                   /\ to' = [to EXCEPT !["port"] = slash]
                   /\ cursor' = slash

UrlPath ==
    \/ CursorIsNull("url_path", "cut_piece")
    \/ /\ fn = "url_path" /\ cursor # NULL /\ Goto("cut_piece")
       /\ from' = [from EXCEPT !["path"] = cursor]
       /\ to' = [to EXCEPT !["path"] = Len(url) + 1]
       /\ UNCHANGED cursor

\* cut_piece, which aborts on a piece without an end.
CannotCut(p) == from[p] # NULL /\ to[p] = NULL
CutPiece(p) == IF from[p] = NULL THEN NoPiece ELSE SubSeq(url, from[p], to[p] - 1)

\* The end of url_parse, and the rest of url2http; resolving the host is left out.
CutPieces ==
    /\ fn = "cut_piece"
    /\ IF \E p \in Piece : CannotCut(p)
       THEN fn' = "abort" /\ UNCHANGED <<cut, ssl>>
       ELSE /\ cut' = [p \in Piece |-> CutPiece(p)]
            /\ ssl' = IF cut'["scheme"] = <<"https">> THEN 1 ELSE 0
            /\ fn' = "request"
    /\ UNCHANGED <<url, cursor, from, to>>

UrlNext == Url2Http \/ UrlScheme \/ UrlUserPass \/ UrlHost \/ UrlPort \/ UrlPath \/ CutPieces

UrlSpec == UrlInit /\ [][UrlNext]_urlVars

-----------------------------------------------------------------------------
(* The documented form of a URL (url-parse.c:46):                          *)
(*    <scheme>://<user>:<pass>@<host>:<port>/<url-path>                    *)

\* What comes before the path, without the scheme.
Authority(user, passwd, host, port) ==
    (IF user = NoPiece THEN <<>>
     ELSE user \o (IF passwd = NoPiece THEN <<>> ELSE <<":">> \o passwd) \o <<"@">>)
    \o host
    \o (IF port = NoPiece THEN <<>> ELSE <<":">> \o port)

Words == {<<w>> : w \in Word}
MaybeWords == Words \cup {NoPiece}

\* The pieces an authority consists of.
IsAuthority(authority, p) ==
    authority = Authority(p.user, p.passwd, p.host, p.port)

Authorities ==
    [user : MaybeWords, passwd : MaybeWords, host : Words, port : MaybeWords]

\* The path begins at the first slash after the scheme's.
Rest(u) == SubSeq(u, 5, Len(u))
PathOf(rest) == SelectInSeq(rest, LAMBDA t : t = "/")

-----------------------------------------------------------------------------
(* Properties.                                                             *)

\* Every variable is in its domain, and the pieces are within the URL: none
\* begins behind its end, and a cursor that is followed is in the string.
UrlTypeOK ==
    /\ cursor \in 0 .. Len(url) + 1 /\ ssl \in {0, 1}
    /\ from \in [Piece -> 0 .. Len(url) + 1] /\ to \in [Piece -> 0 .. Len(url) + 1]
    /\ \A p \in Piece : from[p] # NULL /\ to[p] # NULL => from[p] <= to[p]
    /\ fn \in {"url2http", "url_scheme", "url_user_pass", "url_host", "url_port", "url_path",
               "cut_piece", "request", "bad", "abort", "outside"}

\* The cursor leaves the string only of a URL that ends with the first ":" or
\* one delimiter or word behind it.
LeavesShortOnes ==
    fn = "outside" => Find(":", 1) # NULL /\ Len(url) < Find(":", 1) + 2

\* A URL of the documented form is cut into the pieces it is made of, as long as
\* no "@" is in its path.
PiecesFound ==
    fn \in {"request", "abort", "outside"} =>
        LET rest == Rest(url)
            slash == PathOf(rest)
        IN  \A p \in Authorities :
                /\ Len(url) > 4 /\ SubSeq(url, 2, 4) = <<":", "/", "/">>
                /\ slash # 0 /\ IsAuthority(SubSeq(rest, 1, slash - 1), p)
                /\ "@" \notin {rest[k] : k \in slash .. Len(rest)}
                => /\ fn = "request"
                   /\ cut["host"] = p.host /\ cut["port"] = p.port
                   /\ cut["user"] = p.user
                   /\ (p.user # NoPiece => cut["passwd"] = p.passwd)
                   /\ cut["path"] = SubSeq(rest, slash, Len(rest))

\* A URL of the documented form is cut into its pieces; of another form, it is
\* left by the cursor only if it ends right behind the first ":" (url_parse).
FindsPieces == UrlTypeOK /\ LeavesShortOnes /\ PiecesFound

-----------------------------------------------------------------------------
(* What the documents say, and the code does not do.                       *)

\* "where <scheme> is either 'http' or 'https'" (url-parse.c:47): a request for
\* https is made with SSL.
HttpsIsSecure == fn = "request" /\ Head(url) = "https" => ssl = 1

\* "it returns a parsed_url, any fields of which may be null if they are not
\* present or parsable in the URL" (url-parse.c:82)
MissingIsNull == fn \notin {"abort", "outside"}

\* "<scheme>://<user>:<pass>@<host>:<port>/<url-path>" (url-parse.c:46): the host
\* comes before the path.
HostBeforePath ==
    fn = "request" /\ PathOf(Rest(url)) # 0 /\ cut["host"] # NoPiece =>
        from["host"] <= PathOf(Rest(url)) + 4

=============================================================================
