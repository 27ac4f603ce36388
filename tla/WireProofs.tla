----------------------------- MODULE WireProofs -----------------------------
(***************************************************************************)
(* What goes over the wire: a URL of the documented form is cut into the   *)
(* pieces it is made of (Url), a chunked body is kept and decoded          *)
(* (Chunked), what is posted is what was signed (Exchange), and every      *)
(* packet a ping sends pays for one answer (Icmp).                         *)
(* NvListProofs has the lists of names and values.                         *)
(***************************************************************************)
EXTENDS Url, Chunked, Exchange, Icmp, NvListProofs

-----------------------------------------------------------------------------
(* Url.                                                                    *)

(* strchr finds the first place of a delimiter, if there is one.            *)
LEMMA FindFinds ==
    ASSUME url \in Seq(Token), NEW token, NEW start \in Nat \ {0}
    PROVE  LET place == Find(token, start)
           IN  /\ place = NULL => \A k \in start .. Len(url) : url[k] # token
               /\ place # NULL =>
                    /\ place \in Nat /\ start <= place /\ place <= Len(url)
                    /\ url[place] = token
                    /\ \A k \in start .. place - 1 : url[k] # token
<1> DEFINE S == {k \in start .. Len(url) : url[k] = token}
<1>1. Len(url) \in Nat
  BY LenProperties
<1>2. CASE S = {}
  BY <1>2 DEF Find, NULL
<1>3. CASE S # {}
  <2>1. S \in SUBSET Nat
    BY <1>1
  <2>2. Find(token, start) = Min(S)
    BY <1>3 DEF Find
  <2>3. Min(S) \in S /\ \A k \in S : Min(S) <= k
    <3> HIDE DEF S
    <3>1. QED
      BY <1>3, <2>1, FirstPlace
  <2>4. \A k \in start .. Min(S) - 1 : url[k] # token
    <3>1. SUFFICES ASSUME NEW k \in start .. Min(S) - 1, url[k] = token PROVE FALSE
      OBVIOUS
    <3>2. Min(S) \in Nat /\ Min(S) <= Len(url)
      BY <1>1, <2>3
    <3>3. k \in S
      BY <1>1, <3>1, <3>2
    <3>4. QED
      BY <2>3, <3>2, <3>3
  <2>5. Min(S) # NULL /\ Min(S) \in Nat /\ start <= Min(S) /\ Min(S) <= Len(url)
        /\ url[Min(S)] = token
    BY <1>1, <2>3 DEF NULL
  <2> HIDE DEF S
  <2>6. QED
    BY <2>2, <2>4, <2>5
<1>4. QED
  BY <1>2, <1>3

(* The first place of a delimiter that is known.                            *)
LEMMA FoundAt ==
    ASSUME url \in Seq(Token), NEW token, NEW start \in Nat \ {0},
           NEW place \in Nat, start <= place, place <= Len(url), url[place] = token,
           \A k \in start .. place - 1 : url[k] # token
    PROVE  Find(token, start) = place /\ place # NULL
<1> DEFINE f == Find(token, start)
<1>1. /\ f = NULL => \A k \in start .. Len(url) : url[k] # token
      /\ f # NULL =>
           /\ f \in Nat /\ start <= f /\ f <= Len(url)
           /\ url[f] = token
           /\ \A k \in start .. f - 1 : url[k] # token
  BY FindFinds
<1> HIDE DEF f
<1>2. Len(url) \in Nat /\ place # NULL
  BY LenProperties DEF NULL
<1>3. place \in start .. Len(url)
  BY <1>2
<1>4. f # NULL
  BY <1>1, <1>3
<1>5. ~(place < f)
  BY <1>1, <1>3, <1>4
<1>6. ~(f < place)
  BY <1>1, <1>3, <1>4
<1>7. f = place
  BY <1>1, <1>4, <1>5, <1>6
<1>8. QED
  BY <1>2, <1>7 DEF f

(* UrlTypeOK is not inductive: url_port reads at its cursor, which must be  *)
(* within the URL.                                                          *)
UrlTypes ==
    /\ UrlTypeOK /\ LeavesShortOnes
    /\ url \in Urls
    /\ fn = "url_port" => cursor <= Len(url)
    /\ fn \notin {"url2http", "bad"} => url # <<>> /\ Head(url) \in {"http", "https"}

(* A URL has tokens at its places.                                          *)
LEMMA UrlIsASequence ==
    ASSUME url \in Urls
    PROVE  /\ url \in Seq(Token) /\ Len(url) \in Nat
           /\ \A k \in 1 .. Len(url) : url[k] \in Token
           /\ DOMAIN url = 1 .. Len(url)
<1>1. url \in Seq(Token)
  BY UrlAssumption
<1>2. QED
  BY <1>1, LenProperties, ElementOfSeq

(* Before url_parse nothing is found.                                       *)
LEMMA UrlInitTypes == UrlInit => UrlTypes
<1> SUFFICES ASSUME UrlInit PROVE UrlTypes
  OBVIOUS
<1>1. url \in Urls /\ Len(url) \in Nat
  BY UrlIsASequence DEF UrlInit
<1>2. QED
  BY <1>1 DEF UrlInit, UrlTypes, UrlTypeOK, LeavesShortOnes, NULL

(* The functions that only hand on the cursor.                              *)
LEMMA HandsOn ==
    ASSUME UrlTypes, UNCHANGED <<url, cursor, from, to>>, ssl' \in {0, 1},
           fn' \in {"url_scheme", "url_host", "url_path", "cut_piece", "request", "bad", "abort"},
           fn' = "bad" \/ (url # <<>> /\ Head(url) \in {"http", "https"})
    PROVE  UrlTypes'
  BY DEF UrlTypes, UrlTypeOK, LeavesShortOnes

(* A URL has a beginning that is "http" or "https", or it is bad.           *)
LEMMA Url2HttpTypes ==
    ASSUME UrlTypes, Url2Http
    PROVE  UrlTypes'
<1>1. /\ UNCHANGED <<url, cursor, from, to, ssl>>
      /\ fn' \in {"url_scheme", "bad"}
      /\ fn' = "bad" \/ (url # <<>> /\ Head(url) \in {"http", "https"})
  BY DEF Url2Http, Goto
<1>2. ssl' \in {0, 1}
  BY <1>1 DEF UrlTypes, UrlTypeOK
<1>3. QED
  BY <1>1, <1>2, HandsOn

(* A function that finds pieces keeps the types if what it finds is within  *)
(* the URL.                                                                 *)
LEMMA FindsTypes ==
    ASSUME UrlTypes, UNCHANGED <<url, ssl>>, fn \notin {"url2http", "bad"},
           fn' \in {"url_user_pass", "url_host", "url_port", "url_path", "cut_piece"},
           cursor' \in 0 .. Len(url) + 1, fn' = "url_port" => cursor' <= Len(url),
           from' \in [Piece -> 0 .. Len(url) + 1], to' \in [Piece -> 0 .. Len(url) + 1],
           \A p \in Piece : from'[p] # NULL /\ to'[p] # NULL => from'[p] <= to'[p]
    PROVE  UrlTypes'
  BY DEF UrlTypes, UrlTypeOK, LeavesShortOnes, NULL

(* One place more, or two.                                                  *)
LEMMA OnePieceMore ==
    ASSUME NEW R, NEW f \in [Piece -> R], NEW p, NEW v \in R
    PROVE  [f EXCEPT ![p] = v] \in [Piece -> R]
OBVIOUS

(* The same for two places.                                                 *)
LEMMA TwoPiecesMore ==
    ASSUME NEW R, NEW f \in [Piece -> R], NEW v \in R, NEW w \in R
    PROVE  /\ [f EXCEPT !["user"] = v, !["passwd"] = w] \in [Piece -> R]
           /\ [f EXCEPT !["user"] = v, !["passwd"] = @] \in [Piece -> R]
BY DEF Piece

(* Two characters on from a place is at most two tokens on.                 *)
LEMMA TwoFurtherIs ==
    ASSUME NEW place \in Nat, NEW q \in TwoFurther(place)
    PROVE  q \in place .. place + 2
  BY DEF TwoFurther

(* The scheme's start and end, and where the rest begins: two characters    *)
(* behind the ":", if there are as many.                                    *)
LEMMA UrlSchemeTypes ==
    ASSUME UrlTypes, UrlScheme
    PROVE  UrlTypes'
<1> DEFINE colon == Find(":", 1)
<1>1. /\ UNCHANGED <<url, ssl>> /\ fn = "url_scheme"
      /\ from' = [from EXCEPT !["scheme"] = IF colon = NULL THEN 1 ELSE NULL]
      /\ to' = [to EXCEPT !["scheme"] = colon]
  BY DEF UrlScheme, Goto
<1>2. url \in Urls /\ url \in Seq(Token) /\ Len(url) \in Nat /\ DOMAIN url = 1 .. Len(url)
  BY UrlIsASequence DEF UrlTypes
<1>3. colon # NULL =>
        /\ colon \in Nat /\ 1 <= colon /\ colon <= Len(url) /\ url[colon] = ":"
        /\ \A k \in 1 .. colon - 1 : url[k] # ":"
  BY <1>2, FindFinds
<1>4. \/ fn' = "url_user_pass" /\ cursor' \in 0 .. Len(url) + 1
      \/ /\ fn' = "outside" /\ cursor' = NULL
         /\ colon # NULL /\ Len(url) < colon + 2
  <2>1. CASE colon = NULL /\ cursor' = NULL /\ Goto("url_user_pass")
    BY <1>2, <2>1 DEF Goto, NULL
  <2>2. CASE colon # NULL
    <3>1. PICK place \in TwoFurther(colon + 1) :
             \/ place <= Len(url) + 1 /\ cursor' = place /\ Goto("url_user_pass")
             \/ place > Len(url) + 1 /\ cursor' = NULL /\ Goto("outside")
      BY <2>2 DEF UrlScheme
    <3>2. place \in Nat /\ place <= colon + 3
      BY <1>3, <2>2, TwoFurtherIs
    <3> HIDE DEF colon
    <3>3. CASE place <= Len(url) + 1 /\ cursor' = place /\ Goto("url_user_pass")
      BY <1>2, <3>2, <3>3 DEF Goto
    <3>4. CASE place > Len(url) + 1 /\ cursor' = NULL /\ Goto("outside")
      BY <1>2, <1>3, <2>2, <3>2, <3>4 DEF Goto
    <3>5. QED
      BY <3>1, <3>3, <3>4
  <2>3. QED
    BY <2>1, <2>2 DEF UrlScheme
<1>5. /\ from \in [Piece -> 0 .. Len(url) + 1] /\ to \in [Piece -> 0 .. Len(url) + 1]
      /\ \A p \in Piece : from[p] # NULL /\ to[p] # NULL => from[p] <= to[p]
  BY DEF UrlTypes, UrlTypeOK
<1>6. fn' = "outside" => LeavesShortOnes'
  <2>1. url' = url /\ Find(":", 1)' = Find(":", 1)
    BY <1>1 DEF Find
  <2>2. QED
    BY <1>4, <2>1 DEF LeavesShortOnes
<1> HIDE DEF colon
<1>7. from' \in [Piece -> 0 .. Len(url) + 1] /\ to' \in [Piece -> 0 .. Len(url) + 1]
  <2>1. /\ (IF colon = NULL THEN 1 ELSE NULL) \in 0 .. Len(url) + 1
        /\ colon \in 0 .. Len(url) + 1
    BY <1>2, <1>3 DEF NULL
  <2>2. QED
    BY <1>1, <1>5, <2>1, OnePieceMore
<1>8. \A p \in Piece : from'[p] # NULL /\ to'[p] # NULL => from'[p] <= to'[p]
  BY <1>1, <1>2, <1>3, <1>5 DEF NULL, Piece
<1>9. CASE fn' = "url_user_pass"
  BY <1>1, <1>4, <1>7, <1>8, <1>9, FindsTypes
<1>10. CASE fn' = "outside"
  <2>1. cursor' \in 0 .. Len(url) + 1
    BY <1>2, <1>4, <1>10 DEF NULL
  <2>2. QED
    BY <1>1, <1>6, <1>7, <1>8, <1>10, <2>1 DEF UrlTypes, UrlTypeOK
<1>11. QED
  BY <1>4, <1>9, <1>10

(* The colon between user and password is in front of the "@".              *)
LEMMA UrlUserPassTypes ==
    ASSUME UrlTypes, UrlUserPass
    PROVE  UrlTypes'
<1>1. CASE CursorIsNull("url_user_pass", "url_host")
  BY <1>1, HandsOn DEF CursorIsNull, Goto, UrlTypes, UrlTypeOK
<1>2. CASE ~CursorIsNull("url_user_pass", "url_host")
  <2> DEFINE at == Find("@", cursor)
             colon == Find(":", cursor)
             both == colon # NULL /\ colon < at
  <2>1. /\ UNCHANGED <<url, ssl>> /\ fn = "url_user_pass" /\ fn' = "url_host" /\ cursor # NULL
        /\ IF at = NULL THEN UNCHANGED <<cursor, from, to>>
           ELSE /\ cursor' = at + 1
                /\ from' = [from EXCEPT !["user"] = cursor,
                                        !["passwd"] = IF both THEN colon + 1 ELSE @]
                /\ to' = [to EXCEPT !["user"] = IF both THEN colon ELSE at,
                                    !["passwd"] = IF both THEN at ELSE @]
    BY <1>2 DEF UrlUserPass, Goto
  <2>2. /\ url \in Seq(Token) /\ Len(url) \in Nat
        /\ cursor \in Nat \ {0} /\ cursor <= Len(url) + 1
    BY <2>1, UrlIsASequence DEF UrlTypes, UrlTypeOK, NULL
  <2>3. at # NULL => at \in Nat /\ cursor <= at /\ at <= Len(url)
    BY <2>2, FindFinds
  <2>4. colon # NULL => colon \in Nat /\ cursor <= colon /\ colon <= Len(url)
    BY <2>2, FindFinds
  <2> HIDE DEF at, colon
  <2>5. /\ from \in [Piece -> 0 .. Len(url) + 1] /\ to \in [Piece -> 0 .. Len(url) + 1]
        /\ \A p \in Piece : from[p] # NULL /\ to[p] # NULL => from[p] <= to[p]
    BY DEF UrlTypes, UrlTypeOK
  <2>6. CASE at = NULL
    BY <2>1, <2>2, <2>5, <2>6, FindsTypes
  <2>7. CASE at # NULL
    <3>1. cursor' \in 0 .. Len(url) + 1
      BY <2>1, <2>2, <2>3, <2>7
    <3>2. /\ from' = [from EXCEPT !["user"] = cursor,
                                  !["passwd"] = IF both THEN colon + 1 ELSE @]
          /\ to' = [to EXCEPT !["user"] = IF both THEN colon ELSE at,
                              !["passwd"] = IF both THEN at ELSE @]
      BY <2>1, <2>7
    <3>3. CASE both
      <4>1. /\ colon \in Nat /\ colon + 1 <= at /\ at \in Nat /\ cursor <= colon
            /\ at <= Len(url)
        BY <2>3, <2>4, <2>7, <3>3
      <4>2. from' \in [Piece -> 0 .. Len(url) + 1] /\ to' \in [Piece -> 0 .. Len(url) + 1]
        <5>1. /\ cursor \in 0 .. Len(url) + 1 /\ colon + 1 \in 0 .. Len(url) + 1
              /\ colon \in 0 .. Len(url) + 1 /\ at \in 0 .. Len(url) + 1
          BY <2>2, <4>1
        <5>2. /\ from' = [from EXCEPT !["user"] = cursor, !["passwd"] = colon + 1]
              /\ to' = [to EXCEPT !["user"] = colon, !["passwd"] = at]
          BY <3>2, <3>3
        <5>3. QED
          BY <2>5, <5>1, <5>2, TwoPiecesMore
      <4>3. \A p \in Piece : from'[p] # NULL /\ to'[p] # NULL => from'[p] <= to'[p]
        BY <2>2, <2>5, <3>2, <3>3, <4>1 DEF Piece
      <4>4. QED
        BY <2>1, <3>1, <4>2, <4>3, FindsTypes
    <3>4. CASE ~both
      <4>1. at \in Nat /\ cursor <= at /\ at <= Len(url)
        BY <2>3, <2>7
      <4>2. from' \in [Piece -> 0 .. Len(url) + 1] /\ to' \in [Piece -> 0 .. Len(url) + 1]
        <5>1. cursor \in 0 .. Len(url) + 1 /\ at \in 0 .. Len(url) + 1
          BY <2>2, <4>1
        <5>2. /\ from' = [from EXCEPT !["user"] = cursor, !["passwd"] = @]
              /\ to' = [to EXCEPT !["user"] = at, !["passwd"] = @]
          BY <3>2, <3>4
        <5>3. QED
          BY <2>5, <5>1, <5>2, TwoPiecesMore
      <4>3. \A p \in Piece : from'[p] # NULL /\ to'[p] # NULL => from'[p] <= to'[p]
        BY <2>2, <2>5, <3>2, <3>4, <4>1 DEF Piece
      <4>4. QED
        BY <2>1, <3>1, <4>2, <4>3, FindsTypes
    <3>5. QED
      BY <3>3, <3>4
  <2>8. QED
    BY <2>6, <2>7
<1>3. QED
  BY <1>1, <1>2

(* The host's end is not in front of its start, or it is NULL.              *)
LEMMA UrlHostTypes ==
    ASSUME UrlTypes, UrlHost
    PROVE  UrlTypes'
<1> DEFINE colon == Find(":", cursor)
           slash == Find("/", cursor)
           stop == IF colon # NULL /\ colon < slash THEN colon ELSE slash
<1>1. url \in Seq(Token) /\ Len(url) \in Nat
  BY UrlIsASequence DEF UrlTypes
<1>2. /\ from \in [Piece -> 0 .. Len(url) + 1] /\ to \in [Piece -> 0 .. Len(url) + 1]
      /\ \A p \in Piece : from[p] # NULL /\ to[p] # NULL => from[p] <= to[p]
      /\ cursor \in 0 .. Len(url) + 1
  BY DEF UrlTypes, UrlTypeOK
<1>3. CASE CursorIsNull("url_host", "url_port")
  <2>1. /\ UNCHANGED <<url, ssl, cursor, from, to>> /\ cursor = NULL /\ fn = "url_host"
        /\ fn' = "url_port"
    BY <1>3 DEF CursorIsNull, Goto
  <2>2. cursor' <= Len(url)
    BY <1>1, <2>1 DEF NULL
  <2>3. QED
    BY <1>2, <2>1, <2>2, FindsTypes
<1>4. CASE ~CursorIsNull("url_host", "url_port")
  <2>1. /\ UNCHANGED <<url, ssl>> /\ fn = "url_host" /\ fn' = "url_port" /\ cursor # NULL
        /\ from' = [from EXCEPT !["host"] = cursor]
        /\ to' = [to EXCEPT !["host"] = stop]
        /\ cursor' = stop
    BY <1>4 DEF UrlHost, Goto
  <2>2. cursor \in Nat \ {0}
    BY <1>1, <1>2, <2>1 DEF NULL
  <2>3. colon # NULL => colon \in Nat /\ cursor <= colon /\ colon <= Len(url)
    BY <1>1, <2>2, FindFinds
  <2>4. slash # NULL => slash \in Nat /\ cursor <= slash /\ slash <= Len(url)
    BY <1>1, <2>2, FindFinds
  <2> HIDE DEF colon, slash
  <2>5. stop = NULL \/ (stop \in Nat /\ cursor <= stop /\ stop <= Len(url))
    BY <2>3, <2>4
  <2> HIDE DEF stop
  <2>6. stop \in 0 .. Len(url) + 1 /\ stop <= Len(url)
    BY <1>1, <2>5 DEF NULL
  <2>7. from' \in [Piece -> 0 .. Len(url) + 1] /\ to' \in [Piece -> 0 .. Len(url) + 1]
    BY <1>2, <2>1, <2>6, OnePieceMore
  <2>8. \A p \in Piece : from'[p] # NULL /\ to'[p] # NULL => from'[p] <= to'[p]
    BY <1>2, <2>1, <2>5 DEF Piece
  <2>9. QED
    BY <2>1, <2>6, <2>7, <2>8, FindsTypes
<1>5. QED
  BY <1>3, <1>4

(* The "/" that ends the port is behind the ":".                            *)
LEMMA UrlPortTypes ==
    ASSUME UrlTypes, UrlPort
    PROVE  UrlTypes'
<1> DEFINE slash == Find("/", cursor)
<1>1. url \in Seq(Token) /\ Len(url) \in Nat
  BY UrlIsASequence DEF UrlTypes
<1>2. /\ from \in [Piece -> 0 .. Len(url) + 1] /\ to \in [Piece -> 0 .. Len(url) + 1]
      /\ \A p \in Piece : from[p] # NULL /\ to[p] # NULL => from[p] <= to[p]
      /\ cursor \in 0 .. Len(url) + 1
  BY DEF UrlTypes, UrlTypeOK
<1>3. CASE CursorIsNull("url_port", "url_path")
  BY <1>3, HandsOn DEF CursorIsNull, Goto, UrlTypes, UrlTypeOK
<1>4. CASE ~CursorIsNull("url_port", "url_path")
  <2>1. /\ UNCHANGED <<url, ssl>> /\ fn = "url_port" /\ fn' = "url_path" /\ cursor # NULL
        /\ IF url[cursor] # ":" THEN UNCHANGED <<cursor, from, to>>
           ELSE /\ from' = [from EXCEPT !["port"] = cursor + 1]
                /\ to' = [to EXCEPT !["port"] = slash]
                /\ cursor' = slash
    BY <1>4 DEF UrlPort, Goto
  <2>2. cursor \in Nat \ {0} /\ cursor <= Len(url)
    BY <1>1, <1>2, <2>1 DEF NULL, UrlTypes
  <2>3. slash # NULL =>
          slash \in Nat /\ cursor <= slash /\ slash <= Len(url) /\ url[slash] = "/"
    BY <1>1, <2>2, FindFinds
  <2> HIDE DEF slash
  <2>4. CASE url[cursor] # ":"
    BY <1>2, <2>1, <2>4, FindsTypes
  <2>5. CASE url[cursor] = ":"
    <3>1. /\ from' = [from EXCEPT !["port"] = cursor + 1]
          /\ to' = [to EXCEPT !["port"] = slash]
          /\ cursor' = slash
      BY <2>1, <2>5
    <3>2. slash # NULL => slash # cursor /\ cursor + 1 <= slash
      BY <2>2, <2>3, <2>5
    <3>3. slash \in 0 .. Len(url) + 1 /\ cursor + 1 \in 0 .. Len(url) + 1
      BY <1>1, <2>2, <2>3 DEF NULL
    <3>4. from' \in [Piece -> 0 .. Len(url) + 1] /\ to' \in [Piece -> 0 .. Len(url) + 1]
      BY <1>2, <3>1, <3>3, OnePieceMore
    <3>5. \A p \in Piece : from'[p] # NULL /\ to'[p] # NULL => from'[p] <= to'[p]
      BY <1>2, <3>1, <3>2 DEF Piece
    <3>6. QED
      BY <2>1, <3>1, <3>3, <3>4, <3>5, FindsTypes
  <2>6. QED
    BY <2>4, <2>5
<1>5. QED
  BY <1>3, <1>4

(* The path goes up to the URL's end.                                       *)
LEMMA UrlPathTypes ==
    ASSUME UrlTypes, UrlPath
    PROVE  UrlTypes'
<1>1. url \in Seq(Token) /\ Len(url) \in Nat
  BY UrlIsASequence DEF UrlTypes
<1>2. /\ from \in [Piece -> 0 .. Len(url) + 1] /\ to \in [Piece -> 0 .. Len(url) + 1]
      /\ \A p \in Piece : from[p] # NULL /\ to[p] # NULL => from[p] <= to[p]
      /\ cursor \in 0 .. Len(url) + 1
  BY DEF UrlTypes, UrlTypeOK
<1>3. CASE CursorIsNull("url_path", "cut_piece")
  BY <1>3, HandsOn DEF CursorIsNull, Goto, UrlTypes, UrlTypeOK
<1>4. CASE ~CursorIsNull("url_path", "cut_piece")
  <2>1. /\ UNCHANGED <<url, ssl, cursor>> /\ fn = "url_path" /\ fn' = "cut_piece"
        /\ from' = [from EXCEPT !["path"] = cursor]
        /\ to' = [to EXCEPT !["path"] = Len(url) + 1]
    BY <1>4 DEF UrlPath, Goto
  <2>2. Len(url) + 1 \in 0 .. Len(url) + 1 /\ cursor <= Len(url) + 1
    BY <1>1, <1>2
  <2>3. from' \in [Piece -> 0 .. Len(url) + 1] /\ to' \in [Piece -> 0 .. Len(url) + 1]
    BY <1>2, <2>1, <2>2, OnePieceMore
  <2>4. \A p \in Piece : from'[p] # NULL /\ to'[p] # NULL => from'[p] <= to'[p]
    BY <1>2, <2>1, <2>2 DEF Piece
  <2>5. QED
    BY <1>2, <2>1, <2>3, <2>4, FindsTypes
<1>5. QED
  BY <1>3, <1>4

(* cut_piece copies or aborts, it moves no pointer.                         *)
LEMMA CutPiecesTypes ==
    ASSUME UrlTypes, CutPieces
    PROVE  UrlTypes'
<1>1. /\ UNCHANGED <<url, cursor, from, to>> /\ fn = "cut_piece"
      /\ fn' \in {"abort", "request"}
  BY DEF CutPieces
<1>2. ssl' \in {0, 1}
  BY DEF CutPieces, UrlTypes, UrlTypeOK
<1>3. QED
  BY <1>1, <1>2, HandsOn DEF UrlTypes

(* No step moves a pointer out of the URL.                                  *)
LEMMA UrlNextTypes == UrlTypes /\ [UrlNext]_urlVars => UrlTypes'
<1> SUFFICES ASSUME UrlTypes, [UrlNext]_urlVars PROVE UrlTypes'
  OBVIOUS
<1>1. CASE UNCHANGED urlVars
  <2>1. Find(":", 1)' = Find(":", 1)
    BY <1>1 DEF urlVars, Find
  <2>2. QED
    BY <1>1, <2>1 DEF urlVars, UrlTypes, UrlTypeOK, LeavesShortOnes
<1>2. CASE UrlNext
  BY <1>2, Url2HttpTypes, UrlSchemeTypes, UrlUserPassTypes, UrlHostTypes, UrlPortTypes,
    UrlPathTypes, CutPiecesTypes DEF UrlNext
<1>3. QED
  BY <1>1, <1>2

(* How long the pieces before the host, and behind it, are with their       *)
(* delimiters; where the path begins.                                       *)
UserLen(p) == IF p.user = NoPiece THEN 0 ELSE IF p.passwd = NoPiece THEN 2 ELSE 4
PortLen(p) == IF p.port = NoPiece THEN 0 ELSE 2
SlashOf(p) == 6 + UserLen(p) + PortLen(p)

(* The pieces in their places, s being what is before them.                 *)
HasPieces(u, s, p) ==
    /\ p.user # NoPiece => u[s + 1] = p.user[1] /\ u[s + UserLen(p)] = "@"
    /\ p.user # NoPiece /\ p.passwd # NoPiece => u[s + 2] = ":" /\ u[s + 3] = p.passwd[1]
    /\ u[s + 1 + UserLen(p)] = p.host[1]
    /\ p.port # NoPiece =>
         u[s + 2 + UserLen(p)] = ":" /\ u[s + 3 + UserLen(p)] = p.port[1]

(* Two sequences one behind the other.                                      *)
LEMMA JoinedTokens ==
    \A s, t \in Seq(Token) :
        /\ s \o t \in Seq(Token) /\ Len(s \o t) = Len(s) + Len(t)
        /\ Len(s) \in Nat /\ Len(t) \in Nat
        /\ \A k \in 1 .. Len(s) : (s \o t)[k] = s[k]
        /\ \A k \in 1 .. Len(t) : (s \o t)[Len(s) + k] = t[k]
<1> SUFFICES ASSUME NEW s \in Seq(Token), NEW t \in Seq(Token)
    PROVE  /\ s \o t \in Seq(Token) /\ Len(s \o t) = Len(s) + Len(t)
           /\ Len(s) \in Nat /\ Len(t) \in Nat
           /\ \A k \in 1 .. Len(s) : (s \o t)[k] = s[k]
           /\ \A k \in 1 .. Len(t) : (s \o t)[Len(s) + k] = t[k]
  OBVIOUS
<1>1. Len(s) \in Nat /\ Len(t) \in Nat
  BY LenProperties
<1>2. /\ s \o t \in Seq(Token) /\ Len(s \o t) = Len(s) + Len(t)
      /\ \A k \in 1 .. Len(s) + Len(t) :
           (s \o t)[k] = IF k <= Len(s) THEN s[k] ELSE t[k - Len(s)]
  BY ConcatProperties
<1> DEFINE u == s \o t
<1> HIDE DEF u
<1>3. \A k \in 1 .. Len(s) : u[k] = s[k]
  BY <1>1, <1>2 DEF u
<1>4. \A k \in 1 .. Len(t) : u[Len(s) + k] = t[k]
  <2>1. SUFFICES ASSUME NEW k \in 1 .. Len(t) PROVE u[Len(s) + k] = t[k]
    OBVIOUS
  <2>2. Len(s) + k \in 1 .. Len(s) + Len(t) /\ ~(Len(s) + k <= Len(s))
        /\ (Len(s) + k) - Len(s) = k
    BY <1>1
  <2>3. QED
    BY <1>2, <2>2 DEF u
<1>5. QED
  BY <1>1, <1>2, <1>3, <1>4 DEF u

(* A word, and what stands for no piece.                                    *)
LEMMA WordsAndNone ==
    /\ \A w \in Words : w \in Seq(Token) /\ Len(w) = 1 /\ w[1] \in Word /\ w # NoPiece
    /\ NoPiece \in Seq(Token) /\ Len(NoPiece) = 0
    /\ \A w \in MaybeWords : w # NoPiece => w \in Words
    /\ \A d \in Delimiter : <<d>> \in Seq(Token) /\ Len(<<d>>) = 1 /\ <<d>>[1] = d
    /\ \A w \in Word : w \notin Delimiter /\ w \notin {"http", "https"}
<1>1. Word \subseteq Token /\ Delimiter \subseteq Token
  BY DEF Token
<1>2. \A w \in Words : w \in Seq(Token) /\ Len(w) = 1 /\ w[1] \in Word /\ w # NoPiece
  <2>1. SUFFICES ASSUME NEW v \in Word
        PROVE  <<v>> \in Seq(Token) /\ Len(<<v>>) = 1 /\ <<v>>[1] \in Word /\ <<v>> # <<>>
    BY DEF Words, NoPiece
  <2>2. v \in Token
    BY <1>1
  <2>3. QED
    BY <2>2
<1>3. NoPiece \in Seq(Token) /\ Len(NoPiece) = 0
  BY DEF NoPiece
<1>4. \A d \in Delimiter : <<d>> \in Seq(Token) /\ Len(<<d>>) = 1 /\ <<d>>[1] = d
  BY <1>1
<1>5. \A w \in Word : w \notin Delimiter /\ w \notin {"http", "https"}
  BY UrlAssumption
<1>6. QED
  BY <1>2, <1>3, <1>4, <1>5 DEF MaybeWords

(* What is put together of four pieces has them in these places.            *)
LEMMA AuthorityPlaces ==
    ASSUME NEW p \in Authorities
    PROVE  LET a == Authority(p.user, p.passwd, p.host, p.port)
           IN  /\ a \in Seq(Token) /\ Len(a) = 1 + UserLen(p) + PortLen(p)
               /\ HasPieces(a, 0, p)
<1> DEFINE pass == IF p.passwd = NoPiece THEN <<>> ELSE <<":">> \o p.passwd
           front == IF p.user = NoPiece THEN <<>> ELSE p.user \o pass \o <<"@">>
           rear == IF p.port = NoPiece THEN <<>> ELSE <<":">> \o p.port
           a == front \o p.host \o rear
<1>1. Authority(p.user, p.passwd, p.host, p.port) = a
  BY DEF Authority
<1>2. /\ p.user \in MaybeWords /\ p.passwd \in MaybeWords /\ p.host \in Words
      /\ p.port \in MaybeWords
  BY DEF Authorities
<1>3. /\ <<":">> \in Seq(Token) /\ Len(<<":">>) = 1 /\ <<":">>[1] = ":"
      /\ <<"@">> \in Seq(Token) /\ Len(<<"@">>) = 1 /\ <<"@">>[1] = "@"
      /\ <<>> \in Seq(Token) /\ Len(<<>>) = 0
  BY WordsAndNone DEF Delimiter, NoPiece
<1>4. /\ rear \in Seq(Token) /\ Len(rear) = PortLen(p)
      /\ p.port # NoPiece => rear[1] = ":" /\ rear[2] = p.port[1]
  <2>1. CASE p.port = NoPiece
    BY <1>3, <2>1 DEF PortLen
  <2>2. CASE p.port # NoPiece
    <3>1. p.port \in Seq(Token) /\ Len(p.port) = 1
      BY <1>2, <2>2, WordsAndNone
    <3> DEFINE c == <<":">>
    <3>2. c \in Seq(Token) /\ Len(c) = 1 /\ c[1] = ":"
      BY <1>3
    <3> HIDE DEF c
    <3>3. /\ c \o p.port \in Seq(Token) /\ Len(c \o p.port) = Len(c) + Len(p.port)
          /\ \A k \in 1 .. Len(c) : (c \o p.port)[k] = c[k]
          /\ \A k \in 1 .. Len(p.port) : (c \o p.port)[Len(c) + k] = p.port[k]
      BY <3>1, <3>2, JoinedTokens, Zenon
    <3> DEFINE r == c \o p.port
    <3>4. rear = r
      BY <2>2 DEF c
    <3>5. r \in Seq(Token) /\ Len(r) = 2 /\ r[1] = ":" /\ r[2] = p.port[1]
      <4> HIDE DEF r, rear
      <4>1. 1 \in 1 .. Len(c) /\ 1 \in 1 .. Len(p.port) /\ Len(c) + 1 = 2
        BY <3>1, <3>2
      <4>2. QED
        BY <3>1, <3>2, <3>3, <4>1 DEF r
    <3> HIDE DEF r, rear
    <3>6. QED
      BY <2>2, <3>4, <3>5 DEF PortLen
  <2>3. QED
    BY <2>1, <2>2
<1>5. /\ front \in Seq(Token) /\ Len(front) = UserLen(p)
      /\ p.user # NoPiece => front[1] = p.user[1] /\ front[UserLen(p)] = "@"
      /\ p.user # NoPiece /\ p.passwd # NoPiece => front[2] = ":" /\ front[3] = p.passwd[1]
  <2>1. CASE p.user = NoPiece
    BY <1>3, <2>1 DEF UserLen
  <2>2. CASE p.user # NoPiece
    <3> DEFINE c == <<":">>
               e == <<"@">>
    <3>1. /\ c \in Seq(Token) /\ Len(c) = 1 /\ c[1] = ":"
          /\ e \in Seq(Token) /\ Len(e) = 1 /\ e[1] = "@"
          /\ p.user \in Seq(Token) /\ Len(p.user) = 1
      BY <1>2, <1>3, <2>2, WordsAndNone
    <3>2. /\ pass \in Seq(Token) /\ Len(pass) = UserLen(p) - 2
          /\ p.passwd # NoPiece => pass[1] = ":" /\ pass[2] = p.passwd[1]
      <4>1. CASE p.passwd = NoPiece
        BY <1>3, <2>2, <4>1 DEF UserLen
      <4>2. CASE p.passwd # NoPiece
        <5>1. p.passwd \in Seq(Token) /\ Len(p.passwd) = 1
          BY <1>2, <4>2, WordsAndNone
        <5> HIDE DEF c
        <5>2. /\ c \o p.passwd \in Seq(Token) /\ Len(c \o p.passwd) = Len(c) + Len(p.passwd)
              /\ \A k \in 1 .. Len(c) : (c \o p.passwd)[k] = c[k]
              /\ \A k \in 1 .. Len(p.passwd) : (c \o p.passwd)[Len(c) + k] = p.passwd[k]
          BY <3>1, <5>1, JoinedTokens, Zenon
        <5> DEFINE r == c \o p.passwd
        <5>3. pass = r
          BY <4>2 DEF c
        <5>4. r \in Seq(Token) /\ Len(r) = 2 /\ r[1] = ":" /\ r[2] = p.passwd[1]
          <6> HIDE DEF r, pass, front
          <6>1. 1 \in 1 .. Len(c) /\ 1 \in 1 .. Len(p.passwd) /\ Len(c) + 1 = 2
            BY <3>1, <5>1
          <6>2. QED
            BY <3>1, <5>1, <5>2, <6>1 DEF r
        <5> HIDE DEF r, pass, front
        <5>5. QED
          BY <2>2, <4>2, <5>3, <5>4 DEF UserLen
      <4>3. QED
        BY <4>1, <4>2
    <3> DEFINE s == p.user \o pass
               t == s \o e
    <3>3. front = t
      BY <2>2
    <3> HIDE DEF pass, c, e, front
    <3>4. /\ s \in Seq(Token) /\ Len(s) = UserLen(p) - 1 /\ s[1] = p.user[1]
          /\ \A k \in 1 .. Len(pass) : s[1 + k] = pass[k]
      <4>1. /\ s \in Seq(Token) /\ Len(s) = Len(p.user) + Len(pass)
            /\ Len(pass) \in Nat
            /\ \A k \in 1 .. Len(p.user) : s[k] = p.user[k]
            /\ \A k \in 1 .. Len(pass) : s[Len(p.user) + k] = pass[k]
        BY <3>1, <3>2, JoinedTokens, Zenon
      <4> HIDE DEF s
      <4>2. UserLen(p) \in Nat
        BY DEF UserLen
      <4>3. QED
        BY <3>1, <3>2, <4>1, <4>2
    <3>5. /\ t \in Seq(Token) /\ Len(t) = UserLen(p) /\ t[UserLen(p)] = "@"
          /\ \A k \in 1 .. Len(s) : t[k] = s[k]
      <4> HIDE DEF s
      <4>1. /\ t \in Seq(Token) /\ Len(t) = Len(s) + Len(e)
            /\ Len(s) \in Nat
            /\ \A k \in 1 .. Len(s) : t[k] = s[k]
            /\ \A k \in 1 .. Len(e) : t[Len(s) + k] = e[k]
        BY <3>1, <3>4, JoinedTokens, Zenon
      <4> HIDE DEF t
      <4>2. UserLen(p) \in Nat
        BY DEF UserLen
      <4>3. QED
        BY <3>1, <3>4, <4>1, <4>2
    <3> HIDE DEF s, t
    <3>6. UserLen(p) \in {2, 4} /\ (p.passwd # NoPiece => UserLen(p) = 4)
      BY <2>2 DEF UserLen
    <3>7. t[1] = p.user[1]
      BY <3>4, <3>5, <3>6
    <3>8. ASSUME p.passwd # NoPiece PROVE t[2] = ":" /\ t[3] = p.passwd[1]
      <4>1. Len(s) = 3 /\ Len(pass) = 2
        BY <3>2, <3>4, <3>6, <3>8
      <4>2. s[2] = pass[1] /\ s[3] = pass[2]
        BY <3>4, <4>1
      <4>3. QED
        BY <3>2, <3>5, <3>8, <4>1, <4>2
    <3>9. QED
      BY <2>2, <3>3, <3>5, <3>7, <3>8
  <2>3. QED
    BY <2>1, <2>2
<1> DEFINE b == front \o p.host
<1>6. a = b \o rear
  OBVIOUS
<1> HIDE DEF pass, front, rear, a
<1>7. p.host \in Seq(Token) /\ Len(p.host) = 1 /\ UserLen(p) \in Nat /\ PortLen(p) \in {0, 2}
      /\ (p.user # NoPiece => UserLen(p) \in {2, 4})
      /\ (p.user # NoPiece /\ p.passwd # NoPiece => UserLen(p) = 4)
      /\ (p.port # NoPiece => PortLen(p) = 2)
  BY <1>2, WordsAndNone DEF UserLen, PortLen
<1>8. /\ b \in Seq(Token) /\ Len(b) = UserLen(p) + 1
      /\ \A k \in 1 .. UserLen(p) : b[k] = front[k]
      /\ b[UserLen(p) + 1] = p.host[1]
  <2>1. /\ b \in Seq(Token) /\ Len(b) = Len(front) + Len(p.host)
        /\ \A k \in 1 .. Len(front) : b[k] = front[k]
        /\ \A k \in 1 .. Len(p.host) : b[Len(front) + k] = p.host[k]
    BY <1>5, <1>7, JoinedTokens, Zenon
  <2> HIDE DEF b
  <2>2. QED
    BY <1>5, <1>7, <2>1
<1> HIDE DEF b
<1>9. /\ a \in Seq(Token) /\ Len(a) = UserLen(p) + 1 + PortLen(p)
      /\ \A k \in 1 .. UserLen(p) + 1 : a[k] = b[k]
      /\ \A k \in 1 .. PortLen(p) : a[UserLen(p) + 1 + k] = rear[k]
  <2>1. /\ b \o rear \in Seq(Token) /\ Len(b \o rear) = Len(b) + Len(rear)
        /\ \A k \in 1 .. Len(b) : (b \o rear)[k] = b[k]
        /\ \A k \in 1 .. Len(rear) : (b \o rear)[Len(b) + k] = rear[k]
    BY <1>4, <1>8, JoinedTokens, Zenon
  <2>2. QED
    BY <1>4, <1>6, <1>8, <2>1
<1>10. HasPieces(a, 0, p)
  <2>1. \A k \in 1 .. UserLen(p) : a[0 + k] = front[k]
    BY <1>7, <1>8, <1>9
  <2>2. a[0 + 1 + UserLen(p)] = p.host[1]
    BY <1>7, <1>8, <1>9
  <2>3. p.port # NoPiece =>
          a[0 + 2 + UserLen(p)] = ":" /\ a[0 + 3 + UserLen(p)] = p.port[1]
    <3>1. SUFFICES ASSUME p.port # NoPiece
          PROVE  a[0 + 2 + UserLen(p)] = ":" /\ a[0 + 3 + UserLen(p)] = p.port[1]
      OBVIOUS
    <3>2. /\ 0 + 2 + UserLen(p) = UserLen(p) + 1 + 1 /\ 0 + 3 + UserLen(p) = UserLen(p) + 1 + 2
          /\ 1 \in 1 .. PortLen(p) /\ 2 \in 1 .. PortLen(p)
      BY <1>7, <3>1
    <3>3. QED
      BY <1>4, <1>9, <3>1, <3>2
  <2>4. p.user # NoPiece => a[0 + 1] = p.user[1] /\ a[0 + UserLen(p)] = "@"
    BY <1>5, <1>7, <2>1
  <2>5. p.user # NoPiece /\ p.passwd # NoPiece => a[0 + 2] = ":" /\ a[0 + 3] = p.passwd[1]
    BY <1>5, <1>7, <2>1
  <2>6. QED
    BY <2>2, <2>3, <2>4, <2>5 DEF HasPieces
<1>11. QED
  BY <1>1, <1>7, <1>9, <1>10

(* A URL of the documented form that is made of these pieces.               *)
IsMadeOf(p) ==
    LET rest == Rest(url)
        slash == PathOf(rest)
    IN  /\ Len(url) > 4 /\ SubSeq(url, 2, 4) = <<":", "/", "/">>
        /\ slash # 0 /\ IsAuthority(SubSeq(rest, 1, slash - 1), p)
        /\ "@" \notin {rest[k] : k \in slash .. Len(rest)}

(* What that says of its tokens.                                            *)
Shape(p) ==
    /\ SlashOf(p) \in Nat /\ SlashOf(p) <= Len(url)
    /\ PathOf(Rest(url)) = SlashOf(p) - 4
    /\ url[2] = ":" /\ url[3] = "/" /\ url[4] = "/" /\ url[SlashOf(p)] = "/"
    /\ HasPieces(url, 4, p)
    /\ \A k \in SlashOf(p) .. Len(url) : url[k] # "@"

(* What is behind the scheme has the URL's tokens, four places further.     *)
LEMMA RestTokens ==
    ASSUME url \in Seq(Token), Len(url) > 4
    PROVE  /\ Rest(url) \in Seq(Token) /\ Len(Rest(url)) = Len(url) - 4 /\ Len(url) \in Nat
           /\ \A k \in 1 .. Len(url) - 4 : Rest(url)[k] = url[k + 4]
<1>1. Len(url) \in Nat /\ \A k \in 5 .. Len(url) : url[k] \in Token
  BY LenProperties, ElementOfSeq
<1>2. /\ SubSeq(url, 5, Len(url)) \in Seq(Token)
      /\ Len(SubSeq(url, 5, Len(url))) =
           IF 5 <= Len(url) THEN Len(url) - 5 + 1 ELSE 0
      /\ \A k \in 1 .. Len(url) - 5 + 1 : SubSeq(url, 5, Len(url))[k] = url[5 + k - 1]
  BY <1>1, SubSeqProperties
<1> DEFINE r == SubSeq(url, 5, Len(url))
<1>3. Rest(url) = r
  BY DEF Rest
<1> HIDE DEF r
<1>4. r \in Seq(Token) /\ Len(r) = Len(url) - 4
  BY <1>1, <1>2 DEF r
<1>5. \A k \in 1 .. Len(url) - 4 : r[k] = url[k + 4]
  <2>1. SUFFICES ASSUME NEW k \in 1 .. Len(url) - 4 PROVE r[k] = url[k + 4]
    OBVIOUS
  <2>2. k \in 1 .. Len(url) - 5 + 1 /\ 5 + k - 1 = k + 4
    BY <1>1
  <2>3. QED
    BY <1>2, <2>2 DEF r
<1>6. QED
  BY <1>1, <1>3, <1>4, <1>5

(* A URL made of these pieces has them in their places, up to its first slash. *)
LEMMA MadeOfShape ==
    ASSUME url \in Seq(Token), NEW p \in Authorities, IsMadeOf(p)
    PROVE  Shape(p)
<1> DEFINE rest == Rest(url)
           slash == PathOf(rest)
           S == {k \in 1 .. Len(rest) : rest[k] = "/"}
           a == SubSeq(rest, 1, slash - 1)
<1>1. /\ Len(url) > 4 /\ SubSeq(url, 2, 4) = <<":", "/", "/">>
      /\ slash # 0 /\ IsAuthority(a, p)
      /\ "@" \notin {rest[k] : k \in slash .. Len(rest)}
  BY DEF IsMadeOf
<1>2. /\ rest \in Seq(Token) /\ Len(rest) = Len(url) - 4 /\ Len(url) \in Nat
      /\ \A k \in 1 .. Len(url) - 4 : rest[k] = url[k + 4]
  BY <1>1, RestTokens
<1>3. slash \in 1 .. Len(rest) /\ rest[slash] = "/"
  <2>1. slash = IF S # {} THEN Min(S) ELSE 0
    BY DEF PathOf, SelectInSeq
  <2> HIDE DEF slash
  <2>2. S # {} /\ slash = Min(S)
    BY <1>1, <2>1
  <2>3. S \in SUBSET Nat
    BY <1>2
  <2>4. Min(S) \in S
    <3> HIDE DEF S
    <3>1. QED
      BY <2>2, <2>3, FirstPlace
  <2>5. QED
    BY <2>2, <2>4
<1> HIDE DEF rest, slash, S
<1>4. /\ a \in Seq(Token) /\ Len(a) = slash - 1
      /\ \A k \in 1 .. slash - 1 : a[k] = rest[k]
  <2>1. Len(rest) \in Nat /\ \A k \in 1 .. slash - 1 : rest[k] \in Token
    BY <1>2, <1>3, ElementOfSeq
  <2>2. /\ a \in Seq(Token)
        /\ Len(a) = IF 1 <= slash - 1 THEN (slash - 1) - 1 + 1 ELSE 0
        /\ \A k \in 1 .. (slash - 1) - 1 + 1 : a[k] = rest[1 + k - 1]
    BY <1>3, <2>1, SubSeqProperties
  <2> HIDE DEF a
  <2>3. QED
    BY <1>3, <2>1, <2>2
<1>5. Len(a) = 1 + UserLen(p) + PortLen(p) /\ HasPieces(a, 0, p)
  BY <1>1, AuthorityPlaces DEF IsAuthority
<1> HIDE DEF a
<1>6. UserLen(p) \in {0, 2, 4} /\ PortLen(p) \in {0, 2}
      /\ (p.user # NoPiece => UserLen(p) \in {2, 4})
      /\ (p.user # NoPiece /\ p.passwd # NoPiece => UserLen(p) = 4)
      /\ (p.port # NoPiece => PortLen(p) = 2)
  BY DEF UserLen, PortLen
<1>7. slash = SlashOf(p) - 4 /\ SlashOf(p) \in Nat /\ SlashOf(p) <= Len(url)
  BY <1>2, <1>3, <1>4, <1>5, <1>6 DEF SlashOf
<1>8. \A k \in 1 .. SlashOf(p) - 5 : url[k + 4] = a[k]
  <2>1. SUFFICES ASSUME NEW k \in 1 .. SlashOf(p) - 5 PROVE url[k + 4] = a[k]
    OBVIOUS
  <2>2. k \in 1 .. slash - 1 /\ k \in 1 .. Len(url) - 4
    BY <1>2, <1>3, <1>7
  <2>3. QED
    BY <1>2, <1>4, <2>2
<1>9. url[SlashOf(p)] = "/"
  BY <1>2, <1>3, <1>7
<1>10. \A k \in SlashOf(p) .. Len(url) : url[k] # "@"
  <2>1. SUFFICES ASSUME NEW k \in SlashOf(p) .. Len(url) PROVE url[k] # "@"
    OBVIOUS
  <2>2. k - 4 \in slash .. Len(rest) /\ k - 4 \in 1 .. Len(url) - 4 /\ (k - 4) + 4 = k
    BY <1>2, <1>3, <1>7
  <2>3. rest[k - 4] = url[k]
    BY <1>2, <2>2
  <2>4. QED
    BY <1>1, <2>2, <2>3
<1>11. HasPieces(url, 4, p)
  <2>1. \A k \in 1 .. 1 + UserLen(p) + PortLen(p) : url[k + 4] = a[k]
    BY <1>6, <1>8 DEF SlashOf
  <2>2. url[4 + 1 + UserLen(p)] = p.host[1]
    <3>1. 1 + UserLen(p) \in 1 .. 1 + UserLen(p) + PortLen(p)
          /\ (1 + UserLen(p)) + 4 = 4 + 1 + UserLen(p)
          /\ 0 + 1 + UserLen(p) = 1 + UserLen(p)
      BY <1>6
    <3>2. QED
      BY <1>5, <2>1, <3>1 DEF HasPieces
  <2>3. p.port # NoPiece =>
          url[4 + 2 + UserLen(p)] = ":" /\ url[4 + 3 + UserLen(p)] = p.port[1]
    <3>1. SUFFICES ASSUME p.port # NoPiece
          PROVE  url[4 + 2 + UserLen(p)] = ":" /\ url[4 + 3 + UserLen(p)] = p.port[1]
      OBVIOUS
    <3>2. /\ 2 + UserLen(p) \in 1 .. 1 + UserLen(p) + PortLen(p)
          /\ (2 + UserLen(p)) + 4 = 4 + 2 + UserLen(p)
          /\ 0 + 2 + UserLen(p) = 2 + UserLen(p)
          /\ 3 + UserLen(p) \in 1 .. 1 + UserLen(p) + PortLen(p)
          /\ (3 + UserLen(p)) + 4 = 4 + 3 + UserLen(p)
          /\ 0 + 3 + UserLen(p) = 3 + UserLen(p)
      BY <1>6, <3>1
    <3>3. QED
      BY <1>5, <2>1, <3>1, <3>2 DEF HasPieces
  <2>4. p.user # NoPiece => url[4 + 1] = p.user[1] /\ url[4 + UserLen(p)] = "@"
    <3>1. SUFFICES ASSUME p.user # NoPiece
          PROVE  url[4 + 1] = p.user[1] /\ url[4 + UserLen(p)] = "@"
      OBVIOUS
    <3>2. /\ 1 \in 1 .. 1 + UserLen(p) + PortLen(p) /\ 1 + 4 = 4 + 1 /\ 0 + 1 = 1
          /\ UserLen(p) \in 1 .. 1 + UserLen(p) + PortLen(p)
          /\ UserLen(p) + 4 = 4 + UserLen(p) /\ 0 + UserLen(p) = UserLen(p)
      BY <1>6, <3>1
    <3>3. QED
      BY <1>5, <2>1, <3>1, <3>2 DEF HasPieces
  <2>5. p.user # NoPiece /\ p.passwd # NoPiece => url[4 + 2] = ":" /\ url[4 + 3] = p.passwd[1]
    <3>1. SUFFICES ASSUME p.user # NoPiece, p.passwd # NoPiece
          PROVE  url[4 + 2] = ":" /\ url[4 + 3] = p.passwd[1]
      OBVIOUS
    <3>2. /\ 2 \in 1 .. 1 + UserLen(p) + PortLen(p) /\ 2 + 4 = 4 + 2 /\ 0 + 2 = 2
          /\ 3 \in 1 .. 1 + UserLen(p) + PortLen(p) /\ 3 + 4 = 4 + 3 /\ 0 + 3 = 3
      BY <1>6, <3>1
    <3>3. QED
      BY <1>5, <2>1, <3>1, <3>2 DEF HasPieces
  <2>6. QED
    BY <2>2, <2>3, <2>4, <2>5 DEF HasPieces
<1>12. url[2] = ":" /\ url[3] = "/" /\ url[4] = "/"
  <2>1. \A k \in 2 .. 4 : url[k] \in Token
    BY <1>1, <1>2, ElementOfSeq
  <2>2. \A k \in 1 .. 4 - 2 + 1 : SubSeq(url, 2, 4)[k] = url[2 + k - 1]
    BY <2>1, SubSeqProperties
  <2>3. /\ SubSeq(url, 2, 4)[1] = url[2] /\ SubSeq(url, 2, 4)[2] = url[3]
        /\ SubSeq(url, 2, 4)[3] = url[4]
    BY <2>2
  <2>4. <<":", "/", "/">>[1] = ":" /\ <<":", "/", "/">>[2] = "/" /\ <<":", "/", "/">>[3] = "/"
    OBVIOUS
  <2>5. QED
    BY <1>1, <2>3, <2>4, Zenon
<1>13. PathOf(Rest(url)) = SlashOf(p) - 4
  BY <1>7 DEF slash, rest
<1>14. QED
  BY <1>7, <1>9, <1>10, <1>11, <1>12, <1>13 DEF Shape

(* The places of the pieces, once they are found.                           *)
UserFound(p) ==
    /\ p.user = NoPiece => from["user"] = NULL
    /\ p.user # NoPiece => from["user"] = 5 /\ to["user"] = 6
    /\ p.user = NoPiece \/ p.passwd = NoPiece => from["passwd"] = NULL
    /\ p.user # NoPiece /\ p.passwd # NoPiece => from["passwd"] = 7 /\ to["passwd"] = 8
HostFound(p) == from["host"] = 5 + UserLen(p) /\ to["host"] = 6 + UserLen(p)
PortFound(p) ==
    /\ p.port = NoPiece => from["port"] = NULL
    /\ p.port # NoPiece => from["port"] = 7 + UserLen(p) /\ to["port"] = 8 + UserLen(p)
PathFound(p) == from["path"] = SlashOf(p) /\ to["path"] = Len(url) + 1

(* What is cut then.                                                        *)
CutAs(p) ==
    /\ cut["host"] = p.host /\ cut["port"] = p.port /\ cut["user"] = p.user
    /\ (p.user # NoPiece => cut["passwd"] = p.passwd)
    /\ cut["path"] = SubSeq(Rest(url), SlashOf(p) - 4, Len(Rest(url)))

NotFound(pieces) == \A q \in pieces : from[q] = NULL

(* Each function leaves the cursor where the next one's piece begins.       *)
Progress(p) ==
    /\ fn \in {"url2http", "url_scheme", "url_user_pass"} => NotFound(Piece)
    /\ fn = "url_user_pass" => cursor = 5
    /\ fn = "url_host" => /\ cursor = 5 + UserLen(p) /\ UserFound(p)
                          /\ NotFound({"scheme", "host", "port", "path"})
    /\ fn = "url_port" => /\ cursor = 6 + UserLen(p) /\ UserFound(p) /\ HostFound(p)
                          /\ NotFound({"scheme", "port", "path"})
    /\ fn = "url_path" => /\ cursor = SlashOf(p)
                          /\ UserFound(p) /\ HostFound(p) /\ PortFound(p)
                          /\ NotFound({"scheme", "path"})
    /\ fn = "cut_piece" => /\ UserFound(p) /\ HostFound(p) /\ PortFound(p) /\ PathFound(p)
                           /\ NotFound({"scheme"})
    /\ fn = "request" => CutAs(p)
    /\ fn \notin {"abort", "outside"}

(* PiecesFound is not inductive: while the URL is parsed, the places of the *)
(* pieces that were found are those of the pieces it is made of.            *)
UrlInv == UrlTypes /\ \A p \in Authorities : Shape(p) => Progress(p)

(* Words and delimiters are where the pieces say.                           *)
LEMMA ShapeTokens ==
    ASSUME NEW p \in Authorities, Shape(p)
    PROVE  /\ UserLen(p) \in {0, 2, 4} /\ PortLen(p) \in {0, 2}
           /\ SlashOf(p) = 6 + UserLen(p) + PortLen(p)
           /\ p.user = NoPiece <=> UserLen(p) = 0
           /\ p.user # NoPiece /\ p.passwd = NoPiece <=> UserLen(p) = 2
           /\ p.user # NoPiece /\ p.passwd # NoPiece <=> UserLen(p) = 4
           /\ p.port = NoPiece <=> PortLen(p) = 0
           /\ UserLen(p) = 2 => url[5] = p.user[1] /\ url[6] = "@"
           /\ UserLen(p) = 4 => /\ url[5] = p.user[1] /\ url[6] = ":"
                                /\ url[7] = p.passwd[1] /\ url[8] = "@"
           /\ url[5 + UserLen(p)] = p.host[1]
           /\ PortLen(p) = 2 => /\ url[6 + UserLen(p)] = ":"
                                /\ url[7 + UserLen(p)] = p.port[1]
<1>1. /\ UserLen(p) \in {0, 2, 4} /\ PortLen(p) \in {0, 2}
      /\ p.user = NoPiece <=> UserLen(p) = 0
      /\ p.user # NoPiece /\ p.passwd = NoPiece <=> UserLen(p) = 2
      /\ p.user # NoPiece /\ p.passwd # NoPiece <=> UserLen(p) = 4
      /\ p.port = NoPiece <=> PortLen(p) = 0
  BY DEF UserLen, PortLen
<1>2. HasPieces(url, 4, p)
  BY DEF Shape
<1>3. /\ 4 + 1 = 5 /\ 4 + 2 = 6 /\ 4 + 3 = 7 /\ 4 + 4 = 8
      /\ 4 + 1 + UserLen(p) = 5 + UserLen(p) /\ 4 + 2 + UserLen(p) = 6 + UserLen(p)
      /\ 4 + 3 + UserLen(p) = 7 + UserLen(p)
  BY <1>1
<1>4. p.user # NoPiece => url[5] = p.user[1] /\ url[4 + UserLen(p)] = "@"
  BY <1>2, <1>3 DEF HasPieces
<1>5. p.user # NoPiece /\ p.passwd # NoPiece => url[6] = ":" /\ url[7] = p.passwd[1]
  BY <1>2, <1>3 DEF HasPieces
<1>6. url[5 + UserLen(p)] = p.host[1]
  BY <1>2, <1>3 DEF HasPieces
<1>7. p.port # NoPiece => url[6 + UserLen(p)] = ":" /\ url[7 + UserLen(p)] = p.port[1]
  BY <1>2, <1>3 DEF HasPieces
<1>8. UserLen(p) = 2 => url[5] = p.user[1] /\ url[6] = "@"
  BY <1>1, <1>4
<1>9. UserLen(p) = 4 => /\ url[5] = p.user[1] /\ url[6] = ":"
                        /\ url[7] = p.passwd[1] /\ url[8] = "@"
  BY <1>1, <1>4, <1>5
<1>10. PortLen(p) = 2 => /\ url[6 + UserLen(p)] = ":" /\ url[7 + UserLen(p)] = p.port[1]
  BY <1>1, <1>7
<1>11. SlashOf(p) = 6 + UserLen(p) + PortLen(p)
  BY DEF SlashOf
<1>12. QED
  BY <1>1, <1>6, <1>8, <1>9, <1>10, <1>11, Zenon

(* What is in a piece's place is a word, and no delimiter.                  *)
LEMMA PieceIsAWord ==
    ASSUME NEW p \in Authorities
    PROVE  /\ p.host[1] \notin Delimiter
           /\ p.user # NoPiece => p.user[1] \notin Delimiter
           /\ p.passwd # NoPiece => p.passwd[1] \notin Delimiter
           /\ p.port # NoPiece => p.port[1] \notin Delimiter
<1>1. /\ p.user \in MaybeWords /\ p.passwd \in MaybeWords /\ p.host \in Words
      /\ p.port \in MaybeWords
  BY DEF Authorities
<1>2. QED
  BY <1>1, WordsAndNone

(* The rest begins at the fifth token, where the user or the host does.     *)
LEMMA UrlSchemeProgress ==
    ASSUME UrlTypes, UrlScheme, NEW p \in Authorities, Shape(p), Progress(p)
    PROVE  Progress(p)'
<1> DEFINE colon == Find(":", 1)
<1>1. /\ fn = "url_scheme"
      /\ from' = [from EXCEPT !["scheme"] = IF colon = NULL THEN 1 ELSE NULL]
  BY DEF UrlScheme
<1>2. /\ url \in Seq(Token) /\ Len(url) \in Nat /\ url # <<>>
      /\ Head(url) \in {"http", "https"}
  BY <1>1, UrlIsASequence DEF UrlTypes
<1>3. /\ url[1] # ":" /\ url[2] = ":" /\ url[3] = "/" /\ url[4] = "/"
      /\ 6 <= Len(url)
  <2>1. Head(url) = url[1]
    BY <1>2
  <2>2. SlashOf(p) >= 6 /\ SlashOf(p) <= Len(url) /\ SlashOf(p) \in Nat
    BY ShapeTokens DEF Shape
  <2>3. QED
    BY <1>2, <2>1, <2>2 DEF Shape
<1>4. \A k \in 1 .. 2 - 1 : url[k] # ":"
  BY <1>3
<1>5. colon = 2 /\ colon # NULL
  BY <1>2, <1>3, <1>4, FoundAt
<1>6. TwoFurther(colon + 1) = {5}
  BY <1>2, <1>3, <1>5 DEF TwoFurther, IsWord, Delimiter
<1>7. /\ cursor' = 5 /\ from' = [from EXCEPT !["scheme"] = NULL]
      /\ fn' = "url_user_pass"
  <2>1. PICK place \in TwoFurther(colon + 1) :
           \/ place <= Len(url) + 1 /\ cursor' = place /\ Goto("url_user_pass")
           \/ place > Len(url) + 1 /\ cursor' = NULL /\ Goto("outside")
    BY <1>5 DEF UrlScheme
  <2>2. place = 5
    BY <1>6, <2>1
  <2>3. QED
    BY <1>1, <1>2, <1>3, <1>5, <2>1, <2>2 DEF Goto
<1>8. NotFound(Piece)
  BY <1>1 DEF Progress
<1>9. NotFound(Piece)'
  <2>1. DOMAIN from = Piece
    BY DEF UrlTypes, UrlTypeOK
  <2>2. \A q \in Piece : from'[q] = NULL
    BY <1>7, <1>8, <2>1 DEF NotFound
  <2>3. QED
    BY <2>2 DEF NotFound
<1>10. QED
  BY <1>7, <1>9 DEF Progress

(* What comes first, the user or the host, and how far it goes.             *)
LEMMA UrlUserPassProgress ==
    ASSUME UrlTypes, UrlUserPass, NEW p \in Authorities, Shape(p), Progress(p)
    PROVE  Progress(p)'
<1> DEFINE at == Find("@", cursor)
           colon == Find(":", cursor)
           both == colon # NULL /\ colon < at
<1>1. fn = "url_user_pass" /\ cursor = 5 /\ NotFound(Piece)
  BY DEF UrlUserPass, CursorIsNull, Progress
<1>2. /\ fn' = "url_host"
      /\ IF at = NULL THEN UNCHANGED <<cursor, from, to>>
         ELSE /\ cursor' = at + 1
              /\ from' = [from EXCEPT !["user"] = cursor,
                                      !["passwd"] = IF both THEN colon + 1 ELSE @]
              /\ to' = [to EXCEPT !["user"] = IF both THEN colon ELSE at,
                                  !["passwd"] = IF both THEN at ELSE @]
  <2>1. ~CursorIsNull("url_user_pass", "url_host")
    BY <1>1 DEF CursorIsNull, NULL
  <2>2. QED
    BY <2>1 DEF UrlUserPass, Goto
<1>3. url \in Seq(Token) /\ Len(url) \in Nat
  BY UrlIsASequence DEF UrlTypes
<1>4. /\ UserLen(p) \in {0, 2, 4} /\ PortLen(p) \in {0, 2}
      /\ SlashOf(p) = 6 + UserLen(p) + PortLen(p) /\ SlashOf(p) <= Len(url)
  BY ShapeTokens DEF Shape
<1>5. DOMAIN from = Piece /\ DOMAIN to = Piece /\ \A q \in Piece : from[q] = NULL
  BY <1>1 DEF UrlTypes, UrlTypeOK, NotFound
<1> HIDE DEF at, colon
<1>6. CASE UserLen(p) = 0
  <2>1. p.user = NoPiece
    BY <1>6, ShapeTokens
  <2>2. \A k \in 5 .. Len(url) : url[k] # "@"
    <3>1. SUFFICES ASSUME NEW k \in 5 .. Len(url) PROVE url[k] # "@"
      OBVIOUS
    <3>2. url[5] # "@"
      BY <1>6, ShapeTokens, PieceIsAWord DEF Delimiter
    <3>3. PortLen(p) = 2 => url[6] # "@" /\ url[7] # "@"
      BY <1>6, ShapeTokens, PieceIsAWord DEF Delimiter
    <3>4. k = 5 \/ (PortLen(p) = 2 /\ k \in {6, 7}) \/ k \in SlashOf(p) .. Len(url)
      BY <1>3, <1>4, <1>6
    <3>5. QED
      BY <3>2, <3>3, <3>4 DEF Shape
  <2>3. at = NULL
    <3>1. /\ at = NULL => \A k \in 5 .. Len(url) : url[k] # "@"
          /\ at # NULL => at \in Nat /\ 5 <= at /\ at <= Len(url) /\ url[at] = "@"
      BY <1>1, <1>3, FindFinds DEF at
    <3>2. QED
      BY <1>3, <2>2, <3>1
  <2>4. UNCHANGED <<cursor, from, to>>
    BY <1>2, <2>3
  <2>5. UserFound(p)' /\ NotFound({"scheme", "host", "port", "path"})' /\ cursor' = 5 + UserLen(p)
    BY <1>1, <1>5, <1>6, <2>1, <2>4 DEF UserFound, NotFound, Piece
  <2>6. QED
    BY <1>2, <2>5 DEF Progress
<1>7. CASE UserLen(p) = 2
  <2>1. p.user # NoPiece /\ p.passwd = NoPiece /\ url[5] \notin Delimiter /\ url[6] = "@"
    BY <1>7, ShapeTokens, PieceIsAWord
  <2>2. \A k \in 5 .. 6 - 1 : url[k] # "@"
    BY <2>1 DEF Delimiter
  <2>3. at = 6 /\ at # NULL
    BY <1>1, <1>3, <1>4, <1>7, <2>1, <2>2, FoundAt DEF at
  <2>4. ~both
    <3>1. colon # NULL => colon \in Nat /\ 5 <= colon /\ colon <= Len(url) /\ url[colon] = ":"
      BY <1>1, <1>3, FindFinds DEF colon
    <3>2. url[5] # ":" /\ url[6] # ":"
      BY <2>1 DEF Delimiter
    <3>3. QED
      BY <2>3, <3>1, <3>2
  <2>5. /\ cursor' = 7
        /\ from' = [from EXCEPT !["user"] = 5, !["passwd"] = @]
        /\ to' = [to EXCEPT !["user"] = 6, !["passwd"] = @]
    BY <1>1, <1>2, <2>3, <2>4
  <2>6. UserFound(p)' /\ NotFound({"scheme", "host", "port", "path"})' /\ cursor' = 5 + UserLen(p)
    BY <1>5, <1>7, <2>1, <2>5 DEF UserFound, NotFound, Piece
  <2>7. QED
    BY <1>2, <2>6 DEF Progress
<1>8. CASE UserLen(p) = 4
  <2>1. /\ p.user # NoPiece /\ p.passwd # NoPiece
        /\ url[5] \notin Delimiter /\ url[6] = ":" /\ url[7] \notin Delimiter /\ url[8] = "@"
    BY <1>8, ShapeTokens, PieceIsAWord
  <2>2. \A k \in 5 .. 8 - 1 : url[k] # "@"
    <3>1. url[5] # "@" /\ url[6] # "@" /\ url[7] # "@"
      BY <2>1 DEF Delimiter
    <3>2. QED
      BY <3>1
  <2>3. at = 8 /\ at # NULL
    BY <1>1, <1>3, <1>4, <1>8, <2>1, <2>2, FoundAt DEF at
  <2>4. \A k \in 5 .. 6 - 1 : url[k] # ":"
    BY <2>1 DEF Delimiter
  <2>5. colon = 6 /\ colon # NULL
    BY <1>1, <1>3, <1>4, <1>8, <2>1, <2>4, FoundAt DEF colon
  <2>6. /\ cursor' = 9
        /\ from' = [from EXCEPT !["user"] = 5, !["passwd"] = 7]
        /\ to' = [to EXCEPT !["user"] = 6, !["passwd"] = 8]
    BY <1>1, <1>2, <2>3, <2>5
  <2>7. UserFound(p)' /\ NotFound({"scheme", "host", "port", "path"})' /\ cursor' = 5 + UserLen(p)
    BY <1>5, <1>8, <2>1, <2>6 DEF UserFound, NotFound, Piece
  <2>8. QED
    BY <1>2, <2>7 DEF Progress
<1>9. QED
  BY <1>4, <1>6, <1>7, <1>8

(* The host goes up to the ":" of the port, or to the path.                 *)
LEMMA UrlHostProgress ==
    ASSUME UrlTypes, UrlHost, NEW p \in Authorities, Shape(p), Progress(p)
    PROVE  Progress(p)'
<1> DEFINE colon == Find(":", cursor)
           slash == Find("/", cursor)
           stop == IF colon # NULL /\ colon < slash THEN colon ELSE slash
           U == UserLen(p)
<1>1. /\ fn = "url_host" /\ cursor = 5 + U /\ UserFound(p)
      /\ NotFound({"scheme", "host", "port", "path"})
  BY DEF UrlHost, CursorIsNull, Progress
<1>2. /\ U \in {0, 2, 4} /\ PortLen(p) \in {0, 2}
      /\ SlashOf(p) = 6 + U + PortLen(p) /\ SlashOf(p) <= Len(url) /\ url[SlashOf(p)] = "/"
      /\ url[5 + U] \notin Delimiter
      /\ PortLen(p) = 2 => url[6 + U] = ":" /\ url[7 + U] \notin Delimiter
  BY ShapeTokens, PieceIsAWord DEF Shape
<1> HIDE DEF U
<1>3. /\ fn' = "url_port"
      /\ from' = [from EXCEPT !["host"] = cursor]
      /\ to' = [to EXCEPT !["host"] = stop]
      /\ cursor' = stop
  <2>1. ~CursorIsNull("url_host", "url_port")
    BY <1>1, <1>2 DEF CursorIsNull, NULL
  <2>2. QED
    BY <2>1 DEF UrlHost, Goto
<1>4. url \in Seq(Token) /\ Len(url) \in Nat
  BY UrlIsASequence DEF UrlTypes
<1>5. DOMAIN from = Piece /\ DOMAIN to = Piece
  BY DEF UrlTypes, UrlTypeOK
<1>6. slash = SlashOf(p) /\ slash # NULL
  <2>1. \A k \in 5 + U .. SlashOf(p) - 1 : url[k] # "/"
    <3>1. SUFFICES ASSUME NEW k \in 5 + U .. SlashOf(p) - 1 PROVE url[k] # "/"
      OBVIOUS
    <3>2. k = 5 + U \/ (PortLen(p) = 2 /\ (k = 6 + U \/ k = 7 + U))
      BY <1>2
    <3>3. QED
      BY <1>2, <3>2 DEF Delimiter
  <2>2. 5 + U \in Nat \ {0} /\ SlashOf(p) \in Nat /\ 5 + U <= SlashOf(p)
    BY <1>2
  <2>3. QED
    BY <1>1, <1>2, <1>4, <2>1, <2>2, FoundAt
<1>7. stop = 6 + U
  <2>1. CASE PortLen(p) = 0
    <3>1. colon # NULL => colon \in Nat /\ 5 + U <= colon /\ url[colon] = ":"
      <4>1. 5 + U \in Nat \ {0}
        BY <1>2
      <4>2. QED
        BY <1>1, <1>4, <4>1, FindFinds
    <3> HIDE DEF colon, slash
    <3>2. ~(colon # NULL /\ colon < slash)
      <4>1. url[5 + U] # ":" /\ slash = 6 + U
        BY <1>2, <1>6, <2>1 DEF Delimiter
      <4>2. QED
        BY <1>2, <3>1, <4>1
    <3>3. QED
      BY <1>2, <1>6, <2>1, <3>2
  <2>2. CASE PortLen(p) = 2
    <3>1. \A k \in 5 + U .. (6 + U) - 1 : url[k] # ":"
      <4>1. url[5 + U] # ":"
        BY <1>2 DEF Delimiter
      <4>2. \A k \in 5 + U .. (6 + U) - 1 : k = 5 + U
        BY <1>2
      <4>3. QED
        BY <4>1, <4>2
    <3>2. 5 + U \in Nat \ {0} /\ 6 + U \in Nat /\ 5 + U <= 6 + U /\ 6 + U <= Len(url)
          /\ url[6 + U] = ":"
      BY <1>2, <1>4, <2>2
    <3>3. colon = 6 + U /\ colon # NULL
      BY <1>1, <1>4, <3>1, <3>2, FoundAt
    <3> HIDE DEF colon, slash
    <3>4. QED
      BY <1>2, <1>6, <2>2, <3>3
  <2>3. QED
    BY <1>2, <2>1, <2>2
<1> HIDE DEF stop
<1>8. /\ cursor' = 6 + U
      /\ from' = [from EXCEPT !["host"] = 5 + U] /\ to' = [to EXCEPT !["host"] = 6 + U]
  BY <1>1, <1>3, <1>7
<1>9. UserFound(p)' /\ HostFound(p)' /\ NotFound({"scheme", "port", "path"})'
  <2>1. UserFound(p)'
    BY <1>1, <1>5, <1>8 DEF UserFound, Piece
  <2>2. HostFound(p)'
    BY <1>5, <1>8 DEF HostFound, Piece, U
  <2>3. NotFound({"scheme", "port", "path"})'
    BY <1>1, <1>5, <1>8 DEF NotFound, Piece
  <2>4. QED
    BY <2>1, <2>2, <2>3
<1>10. QED
  BY <1>3, <1>8, <1>9 DEF Progress, U

(* Between the host and the path is the port, or nothing.                   *)
LEMMA UrlPortProgress ==
    ASSUME UrlTypes, UrlPort, NEW p \in Authorities, Shape(p), Progress(p)
    PROVE  Progress(p)'
<1> DEFINE slash == Find("/", cursor)
           U == UserLen(p)
<1>1. /\ fn = "url_port" /\ cursor = 6 + U /\ UserFound(p) /\ HostFound(p)
      /\ NotFound({"scheme", "port", "path"})
  BY DEF UrlPort, CursorIsNull, Progress
<1>2. /\ U \in {0, 2, 4} /\ PortLen(p) \in {0, 2}
      /\ SlashOf(p) = 6 + U + PortLen(p) /\ SlashOf(p) <= Len(url) /\ url[SlashOf(p)] = "/"
      /\ PortLen(p) = 2 => url[6 + U] = ":" /\ url[7 + U] \notin Delimiter
      /\ p.port = NoPiece <=> PortLen(p) = 0
  BY ShapeTokens, PieceIsAWord DEF Shape
<1> HIDE DEF U
<1>3. /\ fn' = "url_path" /\ UNCHANGED url
      /\ IF url[cursor] # ":" THEN UNCHANGED <<cursor, from, to>>
         ELSE /\ from' = [from EXCEPT !["port"] = cursor + 1]
              /\ to' = [to EXCEPT !["port"] = slash]
              /\ cursor' = slash
  <2>1. ~CursorIsNull("url_port", "url_path")
    BY <1>1, <1>2 DEF CursorIsNull, NULL
  <2>2. QED
    BY <2>1 DEF UrlPort, Goto
<1>4. url \in Seq(Token) /\ Len(url) \in Nat
  BY UrlIsASequence DEF UrlTypes
<1>5. DOMAIN from = Piece /\ DOMAIN to = Piece
  BY DEF UrlTypes, UrlTypeOK
<1>6. CASE PortLen(p) = 0
  <2>1. url[cursor] # ":" /\ cursor = SlashOf(p)
    BY <1>1, <1>2, <1>6
  <2>2. UNCHANGED <<cursor, from, to>>
    BY <1>3, <2>1
  <2>3. UserFound(p)' /\ HostFound(p)' /\ PortFound(p)' /\ NotFound({"scheme", "path"})'
    <3>1. PortFound(p)'
      BY <1>1, <1>2, <1>6, <2>2 DEF PortFound, NotFound
    <3>2. QED
      BY <1>1, <2>2, <3>1 DEF UserFound, HostFound, NotFound
  <2>4. QED
    BY <1>3, <2>1, <2>2, <2>3 DEF Progress
<1>7. CASE PortLen(p) = 2
  <2>1. \A k \in 6 + U .. SlashOf(p) - 1 : url[k] # "/"
    <3>1. SUFFICES ASSUME NEW k \in 6 + U .. SlashOf(p) - 1 PROVE url[k] # "/"
      OBVIOUS
    <3>2. k = 6 + U \/ k = 7 + U
      BY <1>2, <1>7
    <3>3. QED
      BY <1>2, <1>7, <3>2 DEF Delimiter
  <2>2. slash = SlashOf(p) /\ slash # NULL
    <3>1. 6 + U \in Nat \ {0} /\ SlashOf(p) \in Nat /\ 6 + U <= SlashOf(p)
      BY <1>2
    <3>2. QED
      BY <1>1, <1>2, <1>4, <2>1, <3>1, FoundAt
  <2> HIDE DEF slash
  <2>3. /\ from' = [from EXCEPT !["port"] = 7 + U] /\ to' = [to EXCEPT !["port"] = 8 + U]
        /\ cursor' = SlashOf(p)
    <3>1. cursor + 1 = 7 + U /\ SlashOf(p) = 8 + U
      BY <1>1, <1>2, <1>7
    <3>2. url[cursor] = ":"
      BY <1>1, <1>2, <1>7
    <3>3. QED
      BY <1>3, <2>2, <3>1, <3>2
  <2>4. UserFound(p)' /\ HostFound(p)' /\ PortFound(p)' /\ NotFound({"scheme", "path"})'
    <3>1. UserFound(p)'
      BY <1>1, <1>5, <2>3 DEF UserFound, Piece
    <3>2. HostFound(p)'
      BY <1>1, <1>5, <2>3 DEF HostFound, Piece
    <3>3. PortFound(p)'
      BY <1>2, <1>5, <1>7, <2>3 DEF PortFound, Piece, U
    <3>4. NotFound({"scheme", "path"})'
      BY <1>1, <1>5, <2>3 DEF NotFound, Piece
    <3>5. QED
      BY <3>1, <3>2, <3>3, <3>4
  <2>5. QED
    BY <1>3, <2>3, <2>4 DEF Progress
<1>8. QED
  BY <1>2, <1>6, <1>7

(* The path is the rest.                                                    *)
LEMMA UrlPathProgress ==
    ASSUME UrlTypes, UrlPath, NEW p \in Authorities, Shape(p), Progress(p)
    PROVE  Progress(p)'
<1>1. /\ fn = "url_path" /\ cursor = SlashOf(p)
      /\ UserFound(p) /\ HostFound(p) /\ PortFound(p) /\ NotFound({"scheme", "path"})
  BY DEF UrlPath, CursorIsNull, Progress
<1>2. cursor # NULL
  BY <1>1, ShapeTokens DEF NULL
<1>3. /\ fn' = "cut_piece" /\ UNCHANGED url
      /\ from' = [from EXCEPT !["path"] = cursor]
      /\ to' = [to EXCEPT !["path"] = Len(url) + 1]
  BY <1>1, <1>2 DEF UrlPath, CursorIsNull, Goto
<1>4. DOMAIN from = Piece /\ DOMAIN to = Piece
  BY DEF UrlTypes, UrlTypeOK
<1>5. UserFound(p)'
  BY <1>1, <1>3, <1>4 DEF UserFound, Piece
<1>6. HostFound(p)'
  BY <1>1, <1>3, <1>4 DEF HostFound, Piece
<1>7. PortFound(p)'
  BY <1>1, <1>3, <1>4 DEF PortFound, Piece
<1>8. PathFound(p)'
  BY <1>1, <1>3, <1>4 DEF PathFound, Piece
<1>9. NotFound({"scheme"})'
  BY <1>1, <1>3, <1>4 DEF NotFound, Piece
<1>10. QED
  BY <1>3, <1>5, <1>6, <1>7, <1>8, <1>9 DEF Progress

(* One place of the URL, and its end.                                       *)
LEMMA OnePlace ==
    ASSUME url \in Seq(Token), NEW k \in 1 .. Len(url), NEW w, Len(w) = 1, w \in Seq(Token),
           url[k] = w[1]
    PROVE  SubSeq(url, k, (k + 1) - 1) = w
<1>1. Len(url) \in Nat /\ \A j \in k .. k : url[j] \in Token
  BY LenProperties, ElementOfSeq
<1>2. (k + 1) - 1 = k /\ k \in Int
  BY <1>1
<1> DEFINE s == SubSeq(url, k, k)
<1>3. /\ s \in Seq(Token) /\ Len(s) = IF k <= k THEN k - k + 1 ELSE 0
      /\ \A j \in 1 .. k - k + 1 : s[j] = url[k + j - 1]
  BY <1>1, <1>2, SubSeqProperties
<1> HIDE DEF s
<1>4. Len(s) = 1 /\ s[1] = url[k]
  <2>1. k <= k /\ k - k + 1 = 1 /\ k + 1 - 1 = k
    BY <1>2
  <2>2. 1 \in 1 .. 1
    OBVIOUS
  <2>3. s[1] = url[k + 1 - 1]
    BY <1>3, <2>1, <2>2, Zenon
  <2>4. Len(s) = k - k + 1
    BY <1>3, <2>1, Zenon
  <2>5. QED
    BY <2>1, <2>3, <2>4, Zenon
<1>5. Len(s) = Len(w) /\ \A j \in 1 .. Len(s) : s[j] = w[j]
  BY <1>4
<1>6. s = w
  BY <1>3, <1>5, SeqEqual
<1>7. QED
  BY <1>2, <1>6 DEF s

(* A path cut from the URL is the same as one cut from its rest.            *)
LEMMA RestOfRest ==
    ASSUME url \in Seq(Token), NEW k \in 5 .. Len(url)
    PROVE  SubSeq(url, k, (Len(url) + 1) - 1) = SubSeq(Rest(url), k - 4, Len(Rest(url)))
<1>1. Len(url) \in Nat /\ \A j \in k .. Len(url) : url[j] \in Token
  BY LenProperties, ElementOfSeq
<1>2. Len(url) > 4 /\ (Len(url) + 1) - 1 = Len(url) /\ k \in Int
  BY <1>1
<1> DEFINE r == Rest(url)
           s == SubSeq(url, k, Len(url))
           t == SubSeq(r, k - 4, Len(r))
<1>3. /\ r \in Seq(Token) /\ Len(r) = Len(url) - 4
      /\ \A j \in 1 .. Len(url) - 4 : r[j] = url[j + 4]
  BY <1>2, RestTokens
<1>4. /\ s \in Seq(Token) /\ Len(s) = IF k <= Len(url) THEN Len(url) - k + 1 ELSE 0
      /\ \A j \in 1 .. Len(url) - k + 1 : s[j] = url[k + j - 1]
  BY <1>1, <1>2, SubSeqProperties
<1> HIDE DEF r
<1>5. /\ t \in Seq(Token)
      /\ Len(t) = IF k - 4 <= Len(r) THEN Len(r) - (k - 4) + 1 ELSE 0
      /\ \A j \in 1 .. Len(r) - (k - 4) + 1 : t[j] = r[(k - 4) + j - 1]
  <2>1. k - 4 \in Int /\ Len(r) \in Int
    BY <1>1, <1>3
  <2>2. \A j \in k - 4 .. Len(r) : r[j] \in Token
    <3>1. \A j \in k - 4 .. Len(r) : j \in 1 .. Len(r)
      BY <1>1, <1>3
    <3>2. QED
      BY <1>3, <3>1, ElementOfSeq
  <2>3. QED
    BY <2>1, <2>2, SubSeqProperties
<1> HIDE DEF s, t
<1>6. Len(s) = Len(url) - k + 1 /\ Len(t) = Len(url) - k + 1
  BY <1>1, <1>3, <1>4, <1>5
<1>7. \A j \in 1 .. Len(s) : s[j] = t[j]
  <2>1. SUFFICES ASSUME NEW j \in 1 .. Len(s) PROVE s[j] = t[j]
    OBVIOUS
  <2>2. s[j] = url[k + j - 1]
    BY <1>4, <1>6
  <2>3. j \in 1 .. Len(r) - (k - 4) + 1
    BY <1>1, <1>3, <1>6
  <2>4. t[j] = r[(k - 4) + j - 1]
    BY <1>5, <2>3
  <2>5. (k - 4) + j - 1 \in 1 .. Len(url) - 4 /\ ((k - 4) + j - 1) + 4 = k + j - 1
    BY <1>1, <1>6
  <2>6. QED
    BY <1>3, <2>2, <2>4, <2>5
<1>8. s = t
  BY <1>4, <1>5, <1>6, <1>7, SeqEqual
<1>9. QED
  BY <1>2, <1>8 DEF r, s, t

(* Every piece that was found has an end, and is cut as it is.              *)
LEMMA CutPiecesProgress ==
    ASSUME UrlTypes, CutPieces, NEW p \in Authorities, Shape(p), Progress(p)
    PROVE  Progress(p)'
<1> DEFINE U == UserLen(p)
<1>1. /\ fn = "cut_piece"
      /\ UserFound(p) /\ HostFound(p) /\ PortFound(p) /\ PathFound(p) /\ NotFound({"scheme"})
  BY DEF CutPieces, Progress
<1>2. /\ U \in {0, 2, 4} /\ PortLen(p) \in {0, 2}
      /\ SlashOf(p) = 6 + U + PortLen(p) /\ SlashOf(p) <= Len(url)
      /\ p.user = NoPiece <=> U = 0
      /\ p.user # NoPiece /\ p.passwd = NoPiece <=> U = 2
      /\ p.user # NoPiece /\ p.passwd # NoPiece <=> U = 4
      /\ p.port = NoPiece <=> PortLen(p) = 0
      /\ url[5 + U] = p.host[1]
      /\ U \in {2, 4} => url[5] = p.user[1]
      /\ U = 4 => url[7] = p.passwd[1]
      /\ PortLen(p) = 2 => url[7 + U] = p.port[1]
  BY ShapeTokens DEF Shape
<1>3. url \in Seq(Token) /\ Len(url) \in Nat
  BY UrlIsASequence DEF UrlTypes
<1>4. /\ p.host \in Seq(Token) /\ Len(p.host) = 1
      /\ p.user # NoPiece => p.user \in Seq(Token) /\ Len(p.user) = 1
      /\ p.passwd # NoPiece => p.passwd \in Seq(Token) /\ Len(p.passwd) = 1
      /\ p.port # NoPiece => p.port \in Seq(Token) /\ Len(p.port) = 1
  BY WordsAndNone DEF Authorities
<1>5. /\ from["host"] = 5 + U /\ to["host"] = 6 + U
      /\ p.port # NoPiece => from["port"] = 7 + U /\ to["port"] = 8 + U
      /\ p.port = NoPiece => from["port"] = NULL
  BY <1>1 DEF HostFound, PortFound
<1>6. /\ p.user = NoPiece => from["user"] = NULL
      /\ p.user # NoPiece => from["user"] = 5 /\ to["user"] = 6
      /\ p.user = NoPiece \/ p.passwd = NoPiece => from["passwd"] = NULL
      /\ p.user # NoPiece /\ p.passwd # NoPiece => from["passwd"] = 7 /\ to["passwd"] = 8
  BY <1>1 DEF UserFound
<1>7. from["path"] = SlashOf(p) /\ to["path"] = Len(url) + 1 /\ from["scheme"] = NULL
  BY <1>1 DEF PathFound, NotFound
<1> HIDE DEF U
<1>8. \A q \in Piece : ~CannotCut(q)
  <2>1. SUFFICES ASSUME NEW q \in Piece, from[q] # NULL PROVE to[q] # NULL
    BY DEF CannotCut
  <2>2. CASE q \in {"host", "path", "scheme"}
    BY <1>2, <1>3, <1>5, <1>7, <2>1, <2>2 DEF NULL
  <2>3. CASE q \in {"user", "passwd"}
    BY <1>6, <2>1, <2>3 DEF NULL
  <2>4. CASE q = "port"
    BY <1>2, <1>5, <2>1, <2>4 DEF NULL
  <2>5. QED
    BY <2>2, <2>3, <2>4 DEF Piece
<1>9. /\ UNCHANGED url /\ fn' = "request" /\ cut' = [q \in Piece |-> CutPiece(q)]
  BY <1>8 DEF CutPieces
<1>10. cut'["host"] = p.host
  <2>1. cut'["host"] = SubSeq(url, 5 + U, ((5 + U) + 1) - 1)
    <3>1. from["host"] # NULL /\ 6 + U = (5 + U) + 1
      BY <1>2, <1>5 DEF NULL
    <3>2. QED
      BY <1>5, <1>9, <3>1 DEF CutPiece, Piece
  <2>2. 5 + U \in 1 .. Len(url)
    BY <1>2, <1>3
  <2>3. QED
    BY <1>2, <1>3, <1>4, <2>1, <2>2, OnePlace
<1>11. cut'["port"] = p.port
  <2>1. CASE p.port = NoPiece
    BY <1>5, <1>9, <2>1 DEF CutPiece, Piece
  <2>2. CASE p.port # NoPiece
    <3>1. cut'["port"] = SubSeq(url, 7 + U, ((7 + U) + 1) - 1)
      <4>1. from["port"] # NULL /\ 8 + U = (7 + U) + 1
        BY <1>2, <1>5, <2>2 DEF NULL
      <4>2. QED
        BY <1>5, <1>9, <2>2, <4>1 DEF CutPiece, Piece
    <3>2. 7 + U \in 1 .. Len(url) /\ url[7 + U] = p.port[1]
      BY <1>2, <1>3, <2>2
    <3>3. QED
      BY <1>3, <1>4, <2>2, <3>1, <3>2, OnePlace
  <2>3. QED
    BY <2>1, <2>2
<1>12. cut'["user"] = p.user
  <2>1. CASE p.user = NoPiece
    BY <1>6, <1>9, <2>1 DEF CutPiece, Piece
  <2>2. CASE p.user # NoPiece
    <3>1. cut'["user"] = SubSeq(url, 5, (5 + 1) - 1)
      <4>1. from["user"] # NULL /\ 6 = 5 + 1
        BY <1>6, <2>2 DEF NULL
      <4>2. QED
        BY <1>6, <1>9, <2>2, <4>1 DEF CutPiece, Piece
    <3>2. 5 \in 1 .. Len(url) /\ url[5] = p.user[1]
      BY <1>2, <1>3, <2>2
    <3>3. QED
      BY <1>3, <1>4, <2>2, <3>1, <3>2, OnePlace
  <2>3. QED
    BY <2>1, <2>2
<1>13. p.user # NoPiece => cut'["passwd"] = p.passwd
  <2>1. CASE p.passwd = NoPiece
    BY <1>6, <1>9, <2>1 DEF CutPiece, Piece
  <2>2. ASSUME p.user # NoPiece, p.passwd # NoPiece PROVE cut'["passwd"] = p.passwd
    <3>1. cut'["passwd"] = SubSeq(url, 7, (7 + 1) - 1)
      <4>1. from["passwd"] # NULL /\ 8 = 7 + 1
        BY <1>6, <2>2 DEF NULL
      <4>2. QED
        BY <1>6, <1>9, <2>2, <4>1 DEF CutPiece, Piece
    <3>2. 7 \in 1 .. Len(url) /\ url[7] = p.passwd[1]
      BY <1>2, <1>3, <2>2
    <3>3. QED
      BY <1>3, <1>4, <2>2, <3>1, <3>2, OnePlace
  <2>3. QED
    BY <2>1, <2>2
<1>14. cut'["path"] = SubSeq(Rest(url), SlashOf(p) - 4, Len(Rest(url)))
  <2>1. cut'["path"] = SubSeq(url, SlashOf(p), (Len(url) + 1) - 1)
    <3>1. from["path"] # NULL
      BY <1>2, <1>7 DEF NULL
    <3>2. QED
      BY <1>7, <1>9, <3>1 DEF CutPiece, Piece
  <2>2. SlashOf(p) \in 5 .. Len(url)
    BY <1>2, <1>3
  <2>3. QED
    BY <1>3, <2>1, <2>2, RestOfRest
<1>15. CutAs(p)'
  <2>1. Rest(url') = Rest(url)
    BY <1>9
  <2>2. cut'["path"] = SubSeq(Rest(url'), SlashOf(p) - 4, Len(Rest(url')))
    BY <1>14, <2>1
  <2>3. QED
    BY <1>10, <1>11, <1>12, <1>13, <2>2 DEF CutAs
<1>16. QED
  BY <1>9, <1>15 DEF Progress

(* The URL stays, and with it its shape.                                    *)
LEMMA ShapeStays ==
    ASSUME UNCHANGED url, NEW p, Shape(p)'
    PROVE  Shape(p)
<1>1. PathOf(Rest(url)) = PathOf(Rest(url'))
  OBVIOUS
<1>2. QED
  BY <1>1 DEF Shape, HasPieces

(* The other steps do not move.                                             *)
LEMMA Url2HttpProgress ==
    ASSUME UrlTypes, Url2Http, NEW p \in Authorities, Progress(p)
    PROVE  Progress(p)'
<1>1. /\ fn = "url2http" /\ fn' \in {"url_scheme", "bad"} /\ UNCHANGED from
  BY DEF Url2Http, Goto
<1>2. NotFound(Piece)'
  BY <1>1 DEF Progress, NotFound
<1>3. QED
  BY <1>1, <1>2 DEF Progress

(* Nothing is found yet.                                                    *)
LEMMA UrlInitInv == UrlInit => UrlInv
<1> SUFFICES ASSUME UrlInit PROVE UrlInv
  OBVIOUS
<1>1. NotFound(Piece) /\ fn = "url2http"
  BY DEF UrlInit, NotFound
<1>2. QED
  BY <1>1, UrlInitTypes DEF UrlInv, Progress

(* Each function finds its pieces and keeps the others' places.             *)
LEMMA UrlNextInv == UrlInv /\ [UrlNext]_urlVars => UrlInv'
<1> SUFFICES ASSUME UrlInv, [UrlNext]_urlVars PROVE UrlInv'
  OBVIOUS
<1>1. UrlTypes /\ UrlTypes'
  BY UrlNextTypes DEF UrlInv
<1>2. UNCHANGED url
  BY DEF UrlNext, Url2Http, UrlScheme, UrlUserPass, UrlHost, UrlPort, UrlPath, CutPieces,
    CursorIsNull, Goto, urlVars
<1>3. ASSUME NEW p \in Authorities, Shape(p)'
      PROVE  Progress(p)'
  <2>1. Shape(p) /\ Progress(p)
    BY <1>2, <1>3, ShapeStays DEF UrlInv
  <2>2. CASE UNCHANGED urlVars
    BY <2>1, <2>2 DEF urlVars, Progress, UserFound, HostFound, PortFound, PathFound, NotFound,
      CutAs
  <2>3. CASE UrlNext
    BY <1>1, <2>1, <2>3, Url2HttpProgress, UrlSchemeProgress, UrlUserPassProgress,
      UrlHostProgress, UrlPortProgress, UrlPathProgress, CutPiecesProgress DEF UrlNext
  <2>4. QED
    BY <2>2, <2>3
<1>4. QED
  BY <1>1, <1>3 DEF UrlInv

(* Whatever the words: the cursor leaves a URL only if fewer than two       *)
(* tokens follow its first ":", and one of the documented form is cut into  *)
(* the pieces it is made of.                                                *)
THEOREM UrlFindsPieces == UrlSpec => []FindsPieces
<1>1. UrlInv => FindsPieces
  <2>1. SUFFICES ASSUME UrlInv PROVE FindsPieces
    OBVIOUS
  <2>2. UrlTypeOK /\ LeavesShortOnes
    BY <2>1 DEF UrlInv, UrlTypes
  <2>3. PiecesFound
    <3>1. SUFFICES ASSUME fn \in {"request", "abort", "outside"}, NEW p \in Authorities, IsMadeOf(p)
          PROVE  /\ fn = "request"
                 /\ cut["host"] = p.host /\ cut["port"] = p.port
                 /\ cut["user"] = p.user
                 /\ (p.user # NoPiece => cut["passwd"] = p.passwd)
                 /\ cut["path"] = SubSeq(Rest(url), PathOf(Rest(url)), Len(Rest(url)))
      BY DEF PiecesFound, IsMadeOf
    <3>2. url \in Seq(Token)
      BY <2>1, UrlIsASequence DEF UrlInv, UrlTypes
    <3>3. Shape(p)
      BY <3>1, <3>2, MadeOfShape
    <3>4. Progress(p)
      BY <2>1, <3>3 DEF UrlInv
    <3>5. PathOf(Rest(url)) = SlashOf(p) - 4
      BY <3>3 DEF Shape
    <3>6. QED
      BY <3>1, <3>4, <3>5 DEF Progress, CutAs
  <2>4. QED
    BY <2>2, <2>3 DEF FindsPieces
<1>2. QED
  BY <1>1, UrlInitInv, UrlNextInv, PTL DEF UrlSpec

-----------------------------------------------------------------------------
(* Chunked.                                                                *)

\* The lengths of chunks.
ChunkLens == Digits \ {0}

(* What the bytes are.                                                      *)
LEMMA DigitsAre ==
    /\ \A d \in Digits : d \in Nat /\ d # CR /\ d # LF
    /\ \A d \in ChunkLens : d \in Digits /\ d \in Nat \ {0}
    /\ 0 \in Digits /\ CR \notin Digits /\ LF \notin Digits
<1>1. /\ 0 \in Digits /\ Digits \subseteq 0 .. 15 /\ CR \notin Digits /\ LF \notin Digits
  BY ChunkedAssumption, Zenon
<1>2. QED
  BY <1>1 DEF ChunkLens

(* Digits end where no digit is, which may be behind the last byte.         *)
LEMMA AfterDigitsIs ==
    ASSUME NEW S, NEW b \in Seq(S), NEW at \in 1 .. Len(b) + 1
    PROVE  LET j == AfterDigits(b, at)
           IN  j \in at .. Len(b) + 1 /\ ~IsDigit(b, j) /\ \A k \in at .. j - 1 : IsDigit(b, k)
<1> DEFINE P == {j \in at .. Len(b) + 1 : ~IsDigit(b, j)}
<1>1. Len(b) \in Nat /\ DOMAIN b = 1 .. Len(b)
  BY LenProperties
<1>2. Len(b) + 1 \in P
  BY <1>1 DEF IsDigit
<1>3. Min(P) \in P /\ \A k \in P : Min(P) <= k
  <2>1. P \in SUBSET Nat /\ P # {}
    BY <1>1, <1>2
  <2> HIDE DEF P
  <2>2. QED
    BY <2>1, FirstPlace
<1>4. \A k \in at .. Min(P) - 1 : IsDigit(b, k)
  <2>1. SUFFICES ASSUME NEW k \in at .. Min(P) - 1, ~IsDigit(b, k) PROVE FALSE
    OBVIOUS
  <2>2. Min(P) \in Nat /\ Min(P) <= Len(b) + 1
    BY <1>1, <1>3
  <2>3. k \in P
    BY <1>1, <2>1, <2>2
  <2>4. QED
    BY <1>3, <2>2, <2>3
<1>5. \E j \in at .. Len(b) + 1 : ~IsDigit(b, j) /\ \A k \in at .. j - 1 : IsDigit(b, k)
  BY <1>3, <1>4
<1>6. QED
  BY <1>5, Zenon DEF AfterDigits

(* One digit alone.                                                         *)
LEMMA OneDigitEnds ==
    ASSUME NEW S, NEW b \in Seq(S), NEW at \in 1 .. Len(b),
           IsDigit(b, at), ~IsDigit(b, at + 1)
    PROVE  AfterDigits(b, at) = at + 1
<1> DEFINE j == AfterDigits(b, at)
<1>1. Len(b) \in Nat
  BY LenProperties
<1>2. at \in 1 .. Len(b) + 1
  BY <1>1
<1>3. j \in at .. Len(b) + 1 /\ ~IsDigit(b, j) /\ \A k \in at .. j - 1 : IsDigit(b, k)
  BY <1>2, AfterDigitsIs
<1> HIDE DEF j
<1>4. j # at
  BY <1>3
<1>5. ~(j > at + 1)
  <2>1. SUFFICES ASSUME j > at + 1 PROVE FALSE
    OBVIOUS
  <2>2. at + 1 \in at .. j - 1
    BY <1>1, <1>3, <2>1
  <2>3. QED
    BY <1>3, <2>2
<1>6. QED
  BY <1>1, <1>3, <1>4, <1>5 DEF j

(* A size line is the next one if only bytes that are no digits are before  *)
(* it.                                                                      *)
LEMMA SizeAtIs ==
    ASSUME NEW S, NEW b \in Seq(S), NEW at \in 1 .. Len(b), NEW p \in at .. Len(b),
           \A k \in at .. p - 1 : ~IsDigit(b, k), IsDigit(b, p)
    PROVE  SizeAt(b, at) = p
<1> DEFINE Is(j) == /\ \A k \in at .. j - 1 : k < Len(b) /\ ~IsDigit(b, k)
                    /\ j >= Len(b) \/ IsDigit(b, j)
           j == SizeAt(b, at)
<1>1. Len(b) \in Nat
  BY LenProperties
<1>2. p \in at .. Len(b) + at /\ Is(p)
  BY <1>1
<1>3. j \in at .. Len(b) + at /\ Is(j)
  <2>1. j = CHOOSE q \in at .. Len(b) + at : Is(q)
    BY DEF SizeAt
  <2> HIDE DEF Is, j
  <2>2. QED
    BY <1>2, <2>1
<1> HIDE DEF j
<1>4. ~(j < p)
  <2>1. SUFFICES ASSUME j < p PROVE FALSE
    OBVIOUS
  <2>2. j \in at .. p - 1 /\ ~(j >= Len(b))
    BY <1>1, <1>3, <2>1
  <2>3. QED
    BY <1>3, <2>2
<1>5. ~(j > p)
  <2>1. SUFFICES ASSUME j > p PROVE FALSE
    OBVIOUS
  <2>2. p \in at .. j - 1
    BY <1>1, <1>3, <2>1
  <2>3. QED
    BY <1>3, <2>2
<1>6. QED
  BY <1>1, <1>3, <1>4, <1>5 DEF j

(* Where strtoul finds its digits: behind the white space.                  *)
StartOf(b, at) ==
    CHOOSE j \in at .. Len(b) + 1 :
        /\ \A k \in at .. j - 1 : b[k] \in {CR, LF}
        /\ j \in DOMAIN b => b[j] \notin {CR, LF}

(* It finds them, or the end.                                               *)
LEMMA StartOfIs ==
    ASSUME NEW S, NEW b \in Seq(S), NEW at \in 1 .. Len(b) + 1
    PROVE  LET j == StartOf(b, at)
           IN  /\ j \in at .. Len(b) + 1 /\ \A k \in at .. j - 1 : b[k] \in {CR, LF}
               /\ j \in DOMAIN b => b[j] \notin {CR, LF}
<1> DEFINE Is(j) == j \in DOMAIN b => b[j] \notin {CR, LF}
           P == {j \in at .. Len(b) + 1 : Is(j)}
<1>1. Len(b) \in Nat /\ DOMAIN b = 1 .. Len(b)
  BY LenProperties
<1>2. Len(b) + 1 \in P
  BY <1>1
<1>3. Min(P) \in P /\ \A k \in P : Min(P) <= k
  <2>1. P \in SUBSET Nat /\ P # {}
    BY <1>1, <1>2
  <2> HIDE DEF P
  <2>2. QED
    BY <2>1, FirstPlace
<1>4. \A k \in at .. Min(P) - 1 : b[k] \in {CR, LF}
  <2>1. SUFFICES ASSUME NEW k \in at .. Min(P) - 1, b[k] \notin {CR, LF} PROVE FALSE
    OBVIOUS
  <2>2. Min(P) \in Nat /\ Min(P) <= Len(b) + 1
    BY <1>1, <1>3
  <2>3. k \in P
    BY <1>1, <2>1, <2>2
  <2>4. QED
    BY <1>3, <2>2, <2>3
<1>5. \E j \in at .. Len(b) + 1 : (\A k \in at .. j - 1 : b[k] \in {CR, LF}) /\ Is(j)
  BY <1>3, <1>4
<1>6. QED
  BY <1>5, Zenon DEF StartOf

(* The number's value, digit by digit.                                      *)
LEMMA StrtoulSteps ==
    ASSUME NEW S, NEW b \in Seq(S), NEW at \in 1 .. Len(b) + 1
    PROVE  LET start == StartOf(b, at)
               many == AfterDigits(b, start) - start
           IN  /\ many \in Nat
               /\ \E v : /\ v \in [0 .. many -> Nat] /\ v[0] = 0
                         /\ \A k \in 1 .. many : v[k] = 16 * v[k - 1] + b[start + k - 1]
                         /\ Strtoul(b, at) = v[many]
<1> DEFINE start == StartOf(b, at)
           many == AfterDigits(b, start) - start
           f == [y \in Nat \X Nat |->
                   IF y[2] \in 1 .. many THEN 16 * y[1] + b[start + y[2] - 1] ELSE 0]
<1>1. Len(b) \in Nat
  BY LenProperties
<1>2. start \in 1 .. Len(b) + 1
  BY <1>1, StartOfIs
<1> HIDE DEF start
<1>3. many \in Nat /\ \A k \in 1 .. many : b[start + k - 1] \in Nat
  <2> DEFINE j == AfterDigits(b, start)
  <2>1. j \in start .. Len(b) + 1 /\ \A k \in start .. j - 1 : IsDigit(b, k)
    BY <1>2, AfterDigitsIs
  <2> HIDE DEF j
  <2>2. \A k \in start .. j - 1 : b[k] \in Nat
    BY <2>1, DigitsAre DEF IsDigit
  <2>3. \A k \in 1 .. j - start : start + k - 1 \in start .. j - 1
    BY <1>1, <1>2, <2>1
  <2>4. j - start \in Nat
    BY <1>1, <1>2, <2>1
  <2>5. QED
    BY <2>2, <2>3, <2>4 DEF j
<1> HIDE DEF many
<1>4. \A a, k \in Nat : f[<<a, k>>] \in Nat
  BY <1>3
<1>5. \A a \in Nat, k \in 1 .. many : f[<<a, k>>] = 16 * a + b[start + k - 1]
  <2>1. SUFFICES ASSUME NEW a \in Nat, NEW k \in 1 .. many
        PROVE  f[<<a, k>>] = 16 * a + b[start + k - 1]
    OBVIOUS
  <2>2. k \in Nat
    BY <1>3
  <2>3. <<a, k>> \in Nat \X Nat /\ <<a, k>>[1] = a /\ <<a, k>>[2] = k
    BY <2>2
  <2>4. QED
    BY <2>3
<1> HIDE DEF f
<1>6. PICK g : Computes(g, many, 0, f, Nat)
  <2>1. 0 \in Nat
    OBVIOUS
  <2>2. \A j \in Nat : \E g : Computes(g, j, 0, f, Nat)
    BY <1>4, <2>1, StepsExist, Zenon
  <2>3. QED
    BY <1>3, <2>2, Zenon
<1>7. /\ g \in [0 .. many -> Nat] /\ g[0] = 0
      /\ \A k \in 1 .. many : g[k] = f[<<g[k - 1], k>>]
  BY <1>6, Zenon DEF Computes
<1>8. g = [k \in 0 .. many |-> IF k = 0 THEN 0 ELSE 16 * g[k - 1] + b[start + k - 1]]
  <2>1. \A k \in 1 .. many : g[k] = 16 * g[k - 1] + b[start + k - 1]
    <3>1. SUFFICES ASSUME NEW k \in 1 .. many PROVE g[k] = 16 * g[k - 1] + b[start + k - 1]
      OBVIOUS
    <3>2. k - 1 \in 0 .. many
      BY <1>3
    <3>3. QED
      BY <1>5, <1>7, <3>2
  <2>2. \A k \in 0 .. many : g[k] = IF k = 0 THEN 0 ELSE 16 * g[k - 1] + b[start + k - 1]
    <3>1. \A k \in 0 .. many : k # 0 => k \in 1 .. many
      BY <1>3
    <3>2. QED
      BY <1>7, <2>1, <3>1, Zenon
  <2>3. g = [k \in 0 .. many |-> g[k]]
    BY <1>7
  <2>4. QED
    BY <2>2, <2>3
<1>9. PICK h : /\ h = [k \in 0 .. many |-> IF k = 0 THEN 0 ELSE 16 * h[k - 1] + b[start + k - 1]]
               /\ Strtoul(b, at) = h[many]
  <2>1. Strtoul(b, at) =
            LET value[k \in 0 .. many] ==
                    IF k = 0 THEN 0 ELSE 16 * value[k - 1] + b[start + k - 1]
            IN  value[many]
    BY Zenon DEF Strtoul, StartOf, start, many
  <2>2. QED
    BY <1>8, <2>1
<1>10. /\ h[0] = 0 /\ DOMAIN h = 0 .. many
       /\ \A k \in 1 .. many : h[k] = 16 * h[k - 1] + b[start + k - 1]
  BY <1>3, <1>9
<1>11. \A k \in 0 .. many : h[k] \in Nat
  <2> DEFINE P == {k \in Nat : k <= many => h[k] \in Nat}
  <2>1. 0 \in P
    BY <1>10
  <2>2. ASSUME NEW k \in Nat, k \in P PROVE k + 1 \in P
    <3>1. SUFFICES ASSUME k + 1 <= many PROVE h[k + 1] \in Nat
      OBVIOUS
    <3>2. k + 1 \in 1 .. many /\ (k + 1) - 1 = k /\ h[k] \in Nat
      BY <1>3, <2>2, <3>1
    <3>3. h[k + 1] = 16 * h[k] + b[start + (k + 1) - 1] /\ b[start + (k + 1) - 1] \in Nat
      BY <1>3, <1>10, <3>2
    <3>4. QED
      BY <3>2, <3>3
  <2>3. \A k \in Nat : k \in P
    <3> HIDE DEF P
    <3>1. QED
      BY <2>1, <2>2, AllNumbers
  <2>4. QED
    BY <1>3, <2>3
<1>12. h \in [0 .. many -> Nat]
  <2>1. h = [k \in 0 .. many |-> h[k]]
    BY <1>9
  <2>2. QED
    BY <1>11, <2>1
<1>13. QED
  BY <1>3, <1>9, <1>10, <1>12 DEF many, start

(* It is a number, and of one digit it is the digit.                        *)
LEMMA StrtoulIs ==
    ASSUME NEW S, NEW b \in Seq(S), NEW at \in 1 .. Len(b)
    PROVE  /\ Strtoul(b, at) \in Nat
           /\ IsDigit(b, at) /\ ~IsDigit(b, at + 1) => Strtoul(b, at) = b[at]
<1> DEFINE start == StartOf(b, at)
           many == AfterDigits(b, start) - start
<1>1. Len(b) \in Nat /\ at \in 1 .. Len(b) + 1 /\ DOMAIN b = 1 .. Len(b)
  BY LenProperties
<1>2. /\ many \in Nat
      /\ \E v : /\ v \in [0 .. many -> Nat] /\ v[0] = 0
                /\ \A k \in 1 .. many : v[k] = 16 * v[k - 1] + b[start + k - 1]
                /\ Strtoul(b, at) = v[many]
  BY <1>1, StrtoulSteps
<1>3. /\ start \in at .. Len(b) + 1 /\ \A k \in at .. start - 1 : b[k] \in {CR, LF}
      /\ start \in DOMAIN b => b[start] \notin {CR, LF}
  BY <1>1, StartOfIs
<1> HIDE DEF start, many
<1>4. PICK v : /\ v \in [0 .. many -> Nat] /\ v[0] = 0
               /\ \A k \in 1 .. many : v[k] = 16 * v[k - 1] + b[start + k - 1]
               /\ Strtoul(b, at) = v[many]
  BY <1>2, Zenon
<1>5. Strtoul(b, at) \in Nat
  BY <1>2, <1>4
<1>6. ASSUME IsDigit(b, at), ~IsDigit(b, at + 1) PROVE Strtoul(b, at) = b[at]
  <2>1. b[at] \in Digits /\ b[at] \notin {CR, LF} /\ b[at] \in Nat
    BY <1>6, DigitsAre DEF IsDigit
  <2>2. start = at
    <3>1. SUFFICES ASSUME start # at PROVE FALSE
      OBVIOUS
    <3>2. at \in at .. start - 1
      BY <1>1, <1>3, <3>1
    <3>3. QED
      BY <1>3, <2>1, <3>2
  <2>3. AfterDigits(b, at) = at + 1
    BY <1>6, OneDigitEnds
  <2>4. many = 1
    <3>1. many = (at + 1) - at
      BY <2>2, <2>3, Zenon DEF many
    <3>2. \A k \in Nat : (k + 1) - k = 1
      OBVIOUS
    <3>3. at \in Nat
      BY <1>1
    <3>4. QED
      BY <3>1, <3>2, <3>3, Zenon
  <2>5. v[1] = 16 * v[1 - 1] + b[start + 1 - 1]
    <3>1. 1 \in 1 .. 1
      OBVIOUS
    <3>2. 1 \in 1 .. many
      BY <2>4, <3>1, Zenon
    <3>3. QED
      BY <1>4, <3>2, Zenon
  <2>6. start + 1 - 1 = at /\ 1 - 1 = 0
    BY <2>2
  <2>7. v[1] = 16 * 0 + b[at]
    BY <1>4, <2>2, <2>5, <2>6, Zenon
  <2>8. 16 * 0 + b[at] = b[at]
    BY <2>1
  <2>9. QED
    BY <1>4, <2>4, <2>7, <2>8, Zenon
<1>7. QED
  BY <1>5, <1>6

(* What the search for size lines finds is a number of bytes.               *)
Scanned == [end : BOOLEAN, len : Nat, next : Nat]

(* One place is looked at.                                                  *)
LEMMA ScanAtIs ==
    ASSUME NEW S, NEW b \in Seq(S), NEW r \in Scanned, NEW at \in 1 .. Len(b)
    PROVE  ScanAt(b, r, at) \in Scanned
<1> DEFINE j == AfterDigits(b, at)
           num == Strtoul(b, at)
<1>1. Len(b) \in Nat /\ at \in 1 .. Len(b) + 1
  BY LenProperties
<1>2. j \in Nat
  <2>1. j \in at .. Len(b) + 1
    BY <1>1, AfterDigitsIs
  <2> HIDE DEF j
  <2>2. QED
    BY <1>1, <2>1
<1>3. num \in Nat
  BY StrtoulIs
<1> HIDE DEF j, num
<1>4. /\ [r EXCEPT !.next = at + 1] \in Scanned /\ [r EXCEPT !.end = TRUE] \in Scanned
      /\ \A next, new \in Nat : [r EXCEPT !.next = next, !.len = new] \in Scanned
  <2>1. at + 1 \in Nat
    BY <1>1
  <2>2. \A v \in Nat : [r EXCEPT !.next = v] \in Scanned
    BY DEF Scanned
  <2>3. [r EXCEPT !.end = TRUE] \in Scanned
    BY DEF Scanned
  <2>4. \A next, new \in Nat : [r EXCEPT !.next = next, !.len = new] \in Scanned
    BY DEF Scanned
  <2>5. QED
    BY <2>1, <2>2, <2>3, <2>4
<1>5. /\ (IF at = j THEN at + 1 ELSE j) \in Nat
      /\ (IF Len(b) > num THEN Len(b) ELSE num + 8) \in Nat
  BY <1>1, <1>2, <1>3
<1>6. [r EXCEPT !.next = IF at = j THEN at + 1 ELSE j,
                !.len = IF Len(b) > num THEN Len(b) ELSE num + 8] \in Scanned
  BY <1>4, <1>5, Zenon
<1>7. \/ ScanAt(b, r, at) = [r EXCEPT !.next = at + 1]
      \/ ScanAt(b, r, at) = [r EXCEPT !.end = TRUE]
      \/ ScanAt(b, r, at) = [r EXCEPT !.next = IF at = j THEN at + 1 ELSE j,
                                      !.len = IF Len(b) > num THEN Len(b) ELSE num + 8]
  BY Zenon DEF ScanAt, j, num
<1>8. QED
  BY <1>4, <1>6, <1>7, Zenon

(* All are.                                                                 *)
LEMMA ScanAllIs ==
    ASSUME NEW S, NEW b \in Seq(S), NEW asked \in Nat
    PROVE  ScanAll(b, asked).len \in Nat
<1> DEFINE m == Len(b)
           base == [end |-> FALSE, len |-> asked, next |-> 1]
           Round(r, k) == IF r.end \/ k < r.next THEN r ELSE ScanAt(b, r, k)
           f == [y \in Scanned \X Nat |-> IF y[2] \in 1 .. m THEN Round(y[1], y[2]) ELSE base]
<1>1. m \in Nat
  BY LenProperties
<1>2. base \in Scanned
  BY DEF Scanned
<1>3. \A r \in Scanned, k \in 1 .. m : Round(r, k) \in Scanned
  BY ScanAtIs
<1> HIDE DEF m, base, Round
<1>4. \A a \in Scanned, k \in Nat : f[<<a, k>>] \in Scanned
  BY <1>2, <1>3
<1>5. \A a \in Scanned, k \in 1 .. m : f[<<a, k>>] = Round(a, k)
  <2>1. SUFFICES ASSUME NEW a \in Scanned, NEW k \in 1 .. m PROVE f[<<a, k>>] = Round(a, k)
    OBVIOUS
  <2>2. k \in Nat
    BY <1>1
  <2>3. <<a, k>> \in Scanned \X Nat /\ <<a, k>>[1] = a /\ <<a, k>>[2] = k
    BY <2>2
  <2>4. QED
    BY <2>3
<1> HIDE DEF f
<1>6. PICK g : Computes(g, m, base, f, Scanned)
  <2>1. \A j \in Nat : \E g : Computes(g, j, base, f, Scanned)
    BY <1>2, <1>4, StepsExist, Zenon
  <2>2. QED
    BY <1>1, <2>1, Zenon
<1>7. /\ g \in [0 .. m -> Scanned] /\ g[0] = base
      /\ \A k \in 1 .. m : g[k] = f[<<g[k - 1], k>>]
  BY <1>6, Zenon DEF Computes
<1>8. g = [k \in 0 .. m |-> IF k = 0 THEN base ELSE Round(g[k - 1], k)]
  <2>1. \A k \in 1 .. m : g[k] = Round(g[k - 1], k)
    <3>1. SUFFICES ASSUME NEW k \in 1 .. m PROVE g[k] = Round(g[k - 1], k)
      OBVIOUS
    <3>2. k - 1 \in 0 .. m
      BY <1>1
    <3>3. QED
      BY <1>5, <1>7, <3>2
  <2>2. \A k \in 0 .. m : g[k] = IF k = 0 THEN base ELSE Round(g[k - 1], k)
    <3>1. \A k \in 0 .. m : k # 0 => k \in 1 .. m
      BY <1>1
    <3>2. QED
      BY <1>7, <2>1, <3>1, Zenon
  <2>3. g = [k \in 0 .. m |-> g[k]]
    BY <1>7
  <2>4. QED
    BY <2>2, <2>3
<1>9. PICK h : /\ h = [k \in 0 .. m |-> IF k = 0 THEN base ELSE Round(h[k - 1], k)]
               /\ ScanAll(b, asked) = h[m]
  <2>1. ScanAll(b, asked) =
            LET s[k \in 0 .. m] == IF k = 0 THEN base ELSE Round(s[k - 1], k)
            IN  s[m]
    BY Zenon DEF ScanAll, Round, base, m
  <2>2. QED
    BY <1>8, <2>1
<1>10. h[0] = base /\ DOMAIN h = 0 .. m /\ \A k \in 1 .. m : h[k] = Round(h[k - 1], k)
  BY <1>1, <1>9
<1>11. \A k \in Nat : k <= m => h[k] \in Scanned
  <2> DEFINE P == {k \in Nat : k <= m => h[k] \in Scanned}
  <2>1. 0 \in P
    BY <1>2, <1>10
  <2>2. ASSUME NEW k \in Nat, k \in P PROVE k + 1 \in P
    <3>1. SUFFICES ASSUME k + 1 <= m PROVE h[k + 1] \in Scanned
      OBVIOUS
    <3>2. k + 1 \in 1 .. m /\ (k + 1) - 1 = k /\ h[k] \in Scanned
      BY <1>1, <2>2, <3>1
    <3>3. h[k + 1] = Round(h[k], k + 1)
      BY <1>10, <3>2
    <3>4. QED
      BY <1>3, <3>2, <3>3
  <2>3. \A k \in Nat : k \in P
    <3> HIDE DEF P
    <3>1. QED
      BY <2>1, <2>2, AllNumbers
  <2>4. QED
    BY <2>3
<1>12. ScanAll(b, asked) \in Scanned
  BY <1>1, <1>9, <1>11
<1>13. QED
  BY <1>12 DEF Scanned

(* What a server sends.                                                     *)
Octet == DataBytes \cup Digits \cup {CR, LF}

(* The chunks of a body, of lengths that are digits.                        *)
LEMMA ChunksAre ==
    ASSUME NEW cs \in Transfers
    PROVE  /\ cs \in Seq(Seq(DataBytes)) /\ Len(cs) \in Nat
           /\ \A k \in 1 .. Len(cs) : cs[k] \in Seq(DataBytes) /\ Len(cs[k]) \in ChunkLens
<1>1. cs \in Seq(Seq(DataBytes)) /\ \A k \in DOMAIN cs : Len(cs[k]) \in Digits \ {0}
  BY ChunkedAssumption, Zenon
<1>2. Len(cs) \in Nat /\ DOMAIN cs = 1 .. Len(cs)
  BY <1>1, LenProperties
<1>3. \A k \in 1 .. Len(cs) : cs[k] \in Seq(DataBytes)
  BY <1>1, <1>2, ElementOfSeq
<1>4. QED
  BY <1>1, <1>2, <1>3, Zenon DEF ChunkLens

(* One of these sequences behind the other.                                 *)
LEMMA JoinedOctets ==
    \A s, t \in Seq(Octet) :
        /\ s \o t \in Seq(Octet) /\ Len(s \o t) = Len(s) + Len(t)
        /\ Len(s) \in Nat /\ Len(t) \in Nat
        /\ \A k \in 1 .. Len(s) : (s \o t)[k] = s[k]
        /\ \A k \in 1 .. Len(t) : (s \o t)[Len(s) + k] = t[k]
BY JoinedSeqs

\* A chunk c with its size line and its end, behind the first p bytes and up to q.
ChunkIsAt(t, c, p, q) ==
    /\ q = p + Len(c) + 5
    /\ t[p + 1] = Len(c) /\ t[p + 2] = CR /\ t[p + 3] = LF
    /\ \A k \in 1 .. Len(c) : t[p + 3 + k] = c[k]
    /\ t[q - 1] = CR /\ t[q] = LF

(* A chunk alone.                                                           *)
LEMMA ChunkIs ==
    ASSUME NEW c \in Seq(DataBytes), Len(c) \in ChunkLens
    PROVE  /\ Chunk(c) \in Seq(Octet) /\ Len(c) \in Nat /\ Len(Chunk(c)) = Len(c) + 5
           /\ ChunkIsAt(Chunk(c), c, 0, Len(c) + 5)
<1> DEFINE a == <<Len(c)>>
           e == <<CR, LF>>
           ae == a \o e
           aec == ae \o c
           all == aec \o e
           m == Len(c)
<1>1. m \in Nat /\ m \in Digits
  BY DigitsAre
<1>2. c \in Seq(Octet)
  <2>1. DataBytes \subseteq Octet
    BY DEF Octet
  <2>2. QED
    BY <2>1, SeqMonotonic
<1>3. a \in Seq(Octet) /\ Len(a) = 1 /\ a[1] = m
  BY <1>1 DEF Octet
<1>4. e \in Seq(Octet) /\ Len(e) = 2 /\ e[1] = CR /\ e[2] = LF
  BY DEF Octet
<1>5. Chunk(c) = all
  BY DEF Chunk, CRLF
<1> HIDE DEF a, e
<1>6. ae \in Seq(Octet) /\ Len(ae) = 3 /\ ae[1] = m /\ ae[2] = CR /\ ae[3] = LF
  <2>1. /\ ae \in Seq(Octet) /\ Len(ae) = Len(a) + Len(e)
        /\ \A k \in 1 .. Len(a) : ae[k] = a[k]
        /\ \A k \in 1 .. Len(e) : ae[Len(a) + k] = e[k]
    BY <1>3, <1>4, JoinedOctets, Zenon
  <2> HIDE DEF ae, m
  <2>2. ae[1] = a[1]
    BY <1>3, <2>1
  <2>3. ae[1 + 1] = e[1] /\ ae[1 + 2] = e[2]
    BY <1>3, <1>4, <2>1
  <2>4. QED
    BY <1>3, <1>4, <2>1, <2>2, <2>3
<1> HIDE DEF ae
<1>7. /\ aec \in Seq(Octet) /\ Len(aec) = m + 3 /\ aec[1] = m /\ aec[2] = CR /\ aec[3] = LF
      /\ \A k \in 1 .. m : aec[3 + k] = c[k]
  <2>1. /\ aec \in Seq(Octet) /\ Len(aec) = Len(ae) + Len(c)
        /\ \A k \in 1 .. Len(ae) : aec[k] = ae[k]
        /\ \A k \in 1 .. Len(c) : aec[Len(ae) + k] = c[k]
    BY <1>2, <1>6, JoinedOctets, Zenon
  <2> HIDE DEF aec
  <2>2. aec[1] = ae[1] /\ aec[2] = ae[2] /\ aec[3] = ae[3]
    BY <1>6, <2>1
  <2>3. QED
    BY <1>1, <1>6, <2>1, <2>2
<1> HIDE DEF aec
<1>8. /\ all \in Seq(Octet) /\ Len(all) = m + 5 /\ all[1] = m /\ all[2] = CR /\ all[3] = LF
      /\ \A k \in 1 .. m : all[3 + k] = c[k]
      /\ all[m + 4] = CR /\ all[m + 5] = LF
  <2>1. /\ all \in Seq(Octet) /\ Len(all) = Len(aec) + Len(e)
        /\ \A k \in 1 .. Len(aec) : all[k] = aec[k]
        /\ \A k \in 1 .. Len(e) : all[Len(aec) + k] = e[k]
    BY <1>4, <1>7, JoinedOctets, Zenon
  <2> HIDE DEF all, m
  <2>2. all[1] = aec[1] /\ all[2] = aec[2] /\ all[3] = aec[3]
    BY <1>1, <1>7, <2>1
  <2>3. \A k \in 1 .. m : all[3 + k] = c[k]
    <3>1. SUFFICES ASSUME NEW k \in 1 .. m PROVE all[3 + k] = c[k]
      OBVIOUS
    <3>2. 3 + k \in 1 .. Len(aec)
      BY <1>1, <1>7
    <3>3. QED
      BY <1>7, <2>1, <3>2
  <2>4. all[m + 3 + 1] = e[1] /\ all[m + 3 + 2] = e[2]
    BY <1>4, <1>7, <2>1
  <2>5. m + 3 + 1 = m + 4 /\ m + 3 + 2 = m + 5 /\ m + 3 + 2 = m + 5
    BY <1>1
  <2>6. QED
    BY <1>1, <1>4, <1>7, <2>1, <2>2, <2>3, <2>4, <2>5
<1> HIDE DEF all
<1>9. ChunkIsAt(all, c, 0, m + 5)
  <2>1. /\ m + 5 = 0 + m + 5 /\ 0 + 1 = 1 /\ 0 + 2 = 2 /\ 0 + 3 = 3
        /\ \A k \in 1 .. m : 0 + 3 + k = 3 + k
        /\ m + 5 - 1 = m + 4
    BY <1>1
  <2>2. \A k \in 1 .. m : all[0 + 3 + k] = c[k]
    BY <1>8, <2>1
  <2>3. QED
    BY <1>8, <2>1, <2>2 DEF ChunkIsAt
<1>10. QED
  BY <1>1, <1>5, <1>8, <1>9

(* The last chunk, which has no data.                                       *)
LEMMA LastChunkIs ==
    /\ LastChunk \in Seq(Octet) /\ Len(LastChunk) = 5
    /\ LastChunk[1] = 0 /\ LastChunk[2] = CR /\ LastChunk[3] = LF
<1> DEFINE a == <<0>>
           e == <<CR, LF>>
           ae == a \o e
           all == ae \o e
<1>1. a \in Seq(Octet) /\ Len(a) = 1 /\ a[1] = 0
  BY DigitsAre DEF Octet
<1>2. e \in Seq(Octet) /\ Len(e) = 2 /\ e[1] = CR /\ e[2] = LF
  BY DEF Octet
<1>3. LastChunk = all
  BY DEF LastChunk, CRLF
<1> HIDE DEF a, e
<1>4. ae \in Seq(Octet) /\ Len(ae) = 3 /\ ae[1] = 0 /\ ae[2] = CR /\ ae[3] = LF
  <2>1. /\ ae \in Seq(Octet) /\ Len(ae) = Len(a) + Len(e)
        /\ \A k \in 1 .. Len(a) : ae[k] = a[k]
        /\ \A k \in 1 .. Len(e) : ae[Len(a) + k] = e[k]
    BY <1>1, <1>2, JoinedOctets, Zenon
  <2> HIDE DEF ae
  <2>2. ae[1] = a[1]
    BY <1>1, <2>1
  <2>3. ae[1 + 1] = e[1] /\ ae[1 + 2] = e[2]
    BY <1>1, <1>2, <2>1
  <2>4. QED
    BY <1>1, <1>2, <2>1, <2>2, <2>3
<1> HIDE DEF ae
<1>5. all \in Seq(Octet) /\ Len(all) = 5 /\ all[1] = 0 /\ all[2] = CR /\ all[3] = LF
  <2>1. /\ all \in Seq(Octet) /\ Len(all) = Len(ae) + Len(e)
        /\ \A k \in 1 .. Len(ae) : all[k] = ae[k]
    BY <1>2, <1>4, JoinedOctets, Zenon
  <2> HIDE DEF all
  <2>2. all[1] = ae[1] /\ all[2] = ae[2] /\ all[3] = ae[3]
    BY <1>4, <2>1
  <2>3. QED
    BY <1>2, <1>4, <2>1, <2>2
<1>6. QED
  BY <1>3, <1>5

\* Where the chunks cs are in what is sent: place[k] bytes are the first k, whose
\* data is sum[k].
IsSent(t, cs, place, sum) ==
    /\ place \in [0 .. Len(cs) -> Nat] /\ sum \in [0 .. Len(cs) -> Seq(DataBytes)]
    /\ place[0] = 0 /\ sum[0] = <<>>
    /\ Len(t) = place[Len(cs)] + 5 /\ sum[Len(cs)] = FlattenSeq(cs)
    /\ \A k \in 1 .. Len(cs) :
         ChunkIsAt(t, cs[k], place[k - 1], place[k]) /\ sum[k] = sum[k - 1] \o cs[k]
    /\ \A k \in 0 .. Len(cs) :
         place[k] + 5 <= Len(t) /\ k <= place[k] /\ Len(sum[k]) <= place[k]
    /\ t[place[Len(cs)] + 1] = 0
    /\ t[place[Len(cs)] + 2] = CR /\ t[place[Len(cs)] + 3] = LF

(* What is sent is put together from them.                                  *)
LEMMA CodedSteps ==
    ASSUME NEW cs \in Transfers
    PROVE  \E g : /\ g \in [0 .. Len(cs) -> Seq(Octet)] /\ g[0] = <<>>
                  /\ \A k \in 1 .. Len(cs) : g[k] = g[k - 1] \o Chunk(cs[k])
                  /\ Coded(cs) = g[Len(cs)] \o LastChunk
<1> DEFINE q == [k \in DOMAIN cs |-> Chunk(cs[k])]
<1>1. /\ cs \in Seq(Seq(DataBytes)) /\ Len(cs) \in Nat
      /\ \A k \in 1 .. Len(cs) : cs[k] \in Seq(DataBytes) /\ Len(cs[k]) \in ChunkLens
  BY ChunksAre
<1>2. DOMAIN cs = 1 .. Len(cs)
  BY <1>1, LenProperties
<1>3. \A k \in 1 .. Len(cs) : Chunk(cs[k]) \in Seq(Octet)
  BY <1>1, ChunkIs
<1>4. q \in Seq(Seq(Octet)) /\ Len(q) = Len(cs) /\ \A k \in 1 .. Len(cs) : q[k] = Chunk(cs[k])
  <2>1. q \in [1 .. Len(cs) -> Seq(Octet)] /\ \A k \in 1 .. Len(cs) : q[k] = Chunk(cs[k])
    BY <1>2, <1>3
  <2> HIDE DEF q
  <2>2. \A j \in Nat : \A w \in [1 .. j -> Seq(Octet)] : w \in Seq(Seq(Octet)) /\ Len(w) = j
    OBVIOUS
  <2>3. q \in Seq(Seq(Octet)) /\ Len(q) = Len(cs)
    BY <1>1, <2>1, <2>2, Zenon
  <2>4. QED
    BY <2>1, <2>3
<1>5. Coded(cs) = FlattenSeq(q) \o LastChunk
  BY DEF Coded
<1> HIDE DEF q
<1>6. PICK g : /\ g \in [0 .. Len(q) -> Seq(Octet)] /\ g[0] = <<>>
               /\ \A k \in 1 .. Len(q) : g[k] = g[k - 1] \o q[k]
               /\ FlattenSeq(q) = g[Len(q)]
  BY <1>4, FlattenSteps
<1>7. QED
  BY <1>4, <1>5, <1>6

(* The chunks of a transfer are at their places.                            *)
LEMMA TransferPlaces ==
    ASSUME NEW cs \in Transfers
    PROVE  Coded(cs) \in Seq(Octet) /\ \E place, sum : IsSent(Coded(cs), cs, place, sum)
<1> DEFINE m == Len(cs)
           t == Coded(cs)
<1>1. /\ cs \in Seq(Seq(DataBytes)) /\ m \in Nat
      /\ \A k \in 1 .. m : cs[k] \in Seq(DataBytes) /\ Len(cs[k]) \in ChunkLens
  BY ChunksAre
<1>2. PICK g : /\ g \in [0 .. m -> Seq(Octet)] /\ g[0] = <<>>
               /\ \A k \in 1 .. m : g[k] = g[k - 1] \o Chunk(cs[k])
               /\ t = g[m] \o LastChunk
  BY CodedSteps
<1>3. PICK sum : /\ sum \in [0 .. m -> Seq(DataBytes)] /\ sum[0] = <<>>
                 /\ \A k \in 1 .. m : sum[k] = sum[k - 1] \o cs[k]
                 /\ FlattenSeq(cs) = sum[m]
  BY <1>1, FlattenSteps
<1> HIDE DEF m, t
<1>4. \A k \in 0 .. m : g[k] \in Seq(Octet) /\ Len(g[k]) \in Nat
  BY <1>2, LenProperties
<1>5. ASSUME NEW k \in 1 .. m
      PROVE  /\ Len(g[k]) = Len(g[k - 1]) + Len(cs[k]) + 5
             /\ \A j \in 1 .. Len(g[k - 1]) : g[k][j] = g[k - 1][j]
             /\ \A j \in 1 .. Len(cs[k]) + 5 : g[k][Len(g[k - 1]) + j] = Chunk(cs[k])[j]
             /\ Len(g[k - 1]) \in Nat /\ Len(cs[k]) \in Nat
             /\ ChunkIsAt(Chunk(cs[k]), cs[k], 0, Len(cs[k]) + 5)
  <2> DEFINE a == g[k - 1]
             b == Chunk(cs[k])
  <2>1. k - 1 \in 0 .. m
    BY <1>1
  <2>2. /\ b \in Seq(Octet) /\ Len(cs[k]) \in Nat /\ Len(b) = Len(cs[k]) + 5
        /\ ChunkIsAt(b, cs[k], 0, Len(cs[k]) + 5)
    BY <1>1, ChunkIs
  <2>3. a \in Seq(Octet) /\ g[k] = a \o b
    BY <1>2, <1>4, <2>1
  <2> HIDE DEF a, b
  <2>4. /\ Len(a \o b) = Len(a) + Len(b) /\ Len(a) \in Nat
        /\ \A j \in 1 .. Len(a) : (a \o b)[j] = a[j]
        /\ \A j \in 1 .. Len(b) : (a \o b)[Len(a) + j] = b[j]
    BY <2>2, <2>3, JoinedOctets, Zenon
  <2>5. Len(a) + Len(b) = Len(a) + Len(cs[k]) + 5
    BY <2>2, <2>4
  <2>6. QED
    BY <2>2, <2>3, <2>4, <2>5, Zenon DEF a, b
<1>6. /\ Len(t) = Len(g[m]) + 5 /\ t \in Seq(Octet)
      /\ \A j \in 1 .. Len(g[m]) : t[j] = g[m][j]
      /\ t[Len(g[m]) + 1] = 0 /\ t[Len(g[m]) + 2] = CR /\ t[Len(g[m]) + 3] = LF
  <2> DEFINE a == g[m]
             b == LastChunk
  <2>1. a \in Seq(Octet) /\ t = a \o b
    BY <1>1, <1>2, <1>4
  <2>2. b \in Seq(Octet) /\ Len(b) = 5 /\ b[1] = 0 /\ b[2] = CR /\ b[3] = LF
    BY LastChunkIs
  <2> HIDE DEF a, b
  <2>3. /\ Len(a \o b) = Len(a) + Len(b) /\ a \o b \in Seq(Octet) /\ Len(a) \in Nat
        /\ \A j \in 1 .. Len(a) : (a \o b)[j] = a[j]
        /\ \A j \in 1 .. Len(b) : (a \o b)[Len(a) + j] = b[j]
    BY <2>1, <2>2, JoinedOctets, Zenon
  <2>4. 1 \in 1 .. Len(b) /\ 2 \in 1 .. Len(b) /\ 3 \in 1 .. Len(b)
    BY <2>2
  <2>5. QED
    BY <2>1, <2>2, <2>3, <2>4, Zenon DEF a
<1>7. \A k \in 0 .. m : /\ Len(g[k]) <= Len(g[m])
                        /\ \A j \in 1 .. Len(g[k]) : g[m][j] = g[k][j]
  <2>1. \A k \in 1 .. m : BeginsWith(g[k], g[k - 1])
    <3>1. SUFFICES ASSUME NEW k \in 1 .. m PROVE BeginsWith(g[k], g[k - 1])
      OBVIOUS
    <3>2. Len(g[k - 1]) <= Len(g[k])
      <4>1. \A x, y \in Nat : x <= x + y + 5
        OBVIOUS
      <4>2. QED
        BY <1>5, <4>1, Zenon
    <3>3. QED
      BY <1>5, <3>2, Zenon DEF BeginsWith
  <2>2. \A k \in 0 .. m : BeginsWith(g[m], g[k])
    BY <1>1, <1>4, <2>1, FrontsOfLast
  <2>3. QED
    BY <2>2, Zenon DEF BeginsWith
<1> DEFINE place == [k \in 0 .. m |-> Len(g[k])]
<1>8. /\ place \in [0 .. m -> Nat] /\ place[0] = 0
      /\ \A k \in 0 .. m : place[k] = Len(g[k])
  BY <1>1, <1>2, <1>4
<1> HIDE DEF place
<1>9. ASSUME NEW k \in 1 .. m PROVE ChunkIsAt(t, cs[k], place[k - 1], place[k])
  <2> DEFINE c == cs[k]
             p == place[k - 1]
             q == place[k]
             b == Chunk(c)
             l == Len(c)
  <2>1. k \in 0 .. m /\ k - 1 \in 0 .. m
    BY <1>1
  <2>2. /\ q = p + l + 5 /\ p \in Nat /\ l \in Nat
        /\ \A j \in 1 .. l + 5 : g[k][p + j] = b[j]
        /\ ChunkIsAt(b, c, 0, l + 5)
    BY <1>5, <1>8, <2>1
  <2>3. q <= Len(g[m]) /\ \A j \in 1 .. q : g[k][j] = g[m][j]
    BY <1>7, <1>8, <2>1
  <2>4. \A j \in 1 .. Len(g[m]) : g[m][j] = t[j]
    BY <1>6
  <2>5. Len(g[m]) \in Nat
    BY <1>1, <1>4
  <2> HIDE DEF c, p, q, b, l
  <2>6. \A j \in 1 .. l + 5 : t[p + j] = b[j]
    <3>1. SUFFICES ASSUME NEW j \in 1 .. l + 5 PROVE t[p + j] = b[j]
      OBVIOUS
    <3>2. p + j \in 1 .. q /\ p + j \in 1 .. Len(g[m])
      BY <2>2, <2>3, <2>5
    <3>3. QED
      BY <2>2, <2>3, <2>4, <3>2
  <2>7. /\ b[1] = l /\ b[2] = CR /\ b[3] = LF /\ b[l + 4] = CR /\ b[l + 5] = LF
        /\ \A j \in 1 .. l : b[3 + j] = c[j]
    <3>1. /\ b[0 + 1] = l /\ b[0 + 2] = CR /\ b[0 + 3] = LF
          /\ \A j \in 1 .. l : b[0 + 3 + j] = c[j]
          /\ b[l + 5 - 1] = CR /\ b[l + 5] = LF
      <4>1. ChunkIsAt(b, c, 0, l + 5)
        BY <2>2
      <4>2. QED
        BY <4>1 DEF ChunkIsAt, l
    <3>2. l + 5 - 1 = l + 4 /\ 0 + 1 = 1 /\ 0 + 2 = 2 /\ 0 + 3 = 3
      BY <2>2
    <3>3. QED
      BY <3>1, <3>2
  <2>8. t[p + 1] = l /\ t[p + 2] = CR /\ t[p + 3] = LF
    BY <2>2, <2>6, <2>7
  <2>9. t[q - 1] = CR /\ t[q] = LF
    <3>1. q - 1 = p + (l + 4) /\ q = p + (l + 5) /\ l + 4 \in 1 .. l + 5 /\ l + 5 \in 1 .. l + 5
      BY <2>2
    <3>2. QED
      BY <2>6, <2>7, <3>1
  <2>10. \A j \in 1 .. l : t[p + 3 + j] = c[j]
    <3>1. SUFFICES ASSUME NEW j \in 1 .. l PROVE t[p + 3 + j] = c[j]
      OBVIOUS
    <3>2. 3 + j \in 1 .. l + 5 /\ p + (3 + j) = p + 3 + j
      BY <2>2
    <3>3. QED
      BY <2>6, <2>7, <3>2
  <2>11. ChunkIsAt(t, c, p, q)
    BY <2>2, <2>8, <2>9, <2>10, Zenon DEF ChunkIsAt, l
  <2>12. QED
    BY <2>11 DEF c, p, q
<1>10. \A k \in 0 .. m : place[k] + 5 <= Len(t) /\ k <= place[k] /\ Len(sum[k]) <= place[k]
  <2>1. \A k \in 0 .. m : place[k] + 5 <= Len(t)
    <3>1. SUFFICES ASSUME NEW k \in 0 .. m PROVE place[k] + 5 <= Len(t)
      OBVIOUS
    <3>2. place[k] <= Len(g[m]) /\ place[k] \in Nat /\ Len(g[m]) \in Nat
      <4>1. m \in 0 .. m
        BY <1>1
      <4>2. Len(g[k]) <= Len(g[m]) /\ place[k] = Len(g[k])
        BY <1>7, <1>8, Zenon
      <4>3. Len(g[k]) \in Nat /\ Len(g[m]) \in Nat
        BY <1>4, <4>1, Zenon
      <4>4. QED
        BY <4>2, <4>3, Zenon
    <3>3. Len(t) = Len(g[m]) + 5
      BY <1>6
    <3>4. \A p, l \in Nat : p <= l => p + 5 <= l + 5
      OBVIOUS
    <3>5. QED
      BY <3>2, <3>3, <3>4, Zenon
  <2>2. \A k \in 1 .. m : /\ place[k] = place[k - 1] + Len(cs[k]) + 5
                          /\ place[k - 1] \in Nat /\ Len(cs[k]) \in Nat
    <3>1. SUFFICES ASSUME NEW k \in 1 .. m
          PROVE  /\ place[k] = place[k - 1] + Len(cs[k]) + 5
                 /\ place[k - 1] \in Nat /\ Len(cs[k]) \in Nat
      OBVIOUS
    <3>2. k \in 0 .. m /\ k - 1 \in 0 .. m
      BY <1>1
    <3>3. QED
      BY <1>5, <1>8, <3>2
  <2>3. \A k \in 1 .. m : Len(sum[k]) = Len(sum[k - 1]) + Len(cs[k]) /\ Len(sum[k - 1]) \in Nat
    <3>1. SUFFICES ASSUME NEW k \in 1 .. m
          PROVE  Len(sum[k]) = Len(sum[k - 1]) + Len(cs[k]) /\ Len(sum[k - 1]) \in Nat
      OBVIOUS
    <3> DEFINE a == sum[k - 1]
               c == cs[k]
    <3>2. a \in Seq(DataBytes) /\ c \in Seq(DataBytes) /\ sum[k] = a \o c
      <4>1. k - 1 \in 0 .. m
        BY <1>1
      <4>2. QED
        BY <1>1, <1>3, <4>1
    <3> HIDE DEF a, c
    <3>3. Len(a \o c) = Len(a) + Len(c) /\ Len(a) \in Nat
      BY <3>2, ConcatProperties, LenProperties
    <3>4. QED
      BY <3>2, <3>3 DEF a, c
  <2> DEFINE P == {k \in Nat : k <= m => k <= place[k] /\ Len(sum[k]) <= place[k]}
  <2>4. 0 \in P
    BY <1>3, <1>8
  <2>5. ASSUME NEW k \in Nat, k \in P PROVE k + 1 \in P
    <3>1. SUFFICES ASSUME k + 1 <= m
          PROVE  k + 1 <= place[k + 1] /\ Len(sum[k + 1]) <= place[k + 1]
      OBVIOUS
    <3>2. k + 1 \in 1 .. m /\ (k + 1) - 1 = k
      BY <1>1, <3>1
    <3>3. k <= place[k] /\ Len(sum[k]) <= place[k]
      BY <1>1, <2>5, <3>1
    <3>4. /\ place[k + 1] = place[k] + Len(cs[k + 1]) + 5
          /\ place[k] \in Nat /\ Len(cs[k + 1]) \in Nat
          /\ Len(sum[k + 1]) = Len(sum[k]) + Len(cs[k + 1]) /\ Len(sum[k]) \in Nat
      BY <2>2, <2>3, <3>2
    <3>5. \A p, l, d \in Nat : k <= p /\ d <= p => k + 1 <= p + l + 5 /\ d + l <= p + l + 5
      OBVIOUS
    <3>6. QED
      BY <3>3, <3>4, <3>5, Zenon
  <2>6. \A k \in Nat : k \in P
    <3> HIDE DEF P
    <3>1. QED
      BY <2>4, <2>5, AllNumbers
  <2>7. QED
    BY <1>1, <2>1, <2>6
<1>11. IsSent(t, cs, place, sum)
  <2>1. m \in 0 .. m
    BY <1>1
  <2>2. place[m] = Len(g[m])
    BY <1>8, <2>1
  <2>3. QED
    BY <1>3, <1>6, <1>8, <1>9, <1>10, <2>2, Zenon DEF IsSent, m
<1>12. QED
  BY <1>6, <1>11, Zenon DEF t

(* Behind a chunk, or at the beginning, the next size line is found, and    *)
(* its number is the one that was sent.                                     *)
LEMMA SizeLineIsFound ==
    ASSUME NEW t \in Seq(Octet), NEW p \in Nat, p + 3 <= Len(t), NEW at \in Nat \ {0},
           \/ p = 0 /\ at = 1
           \/ p >= 2 /\ at = p - 1 /\ t[p - 1] = CR /\ t[p] = LF,
           t[p + 1] \in Digits, t[p + 2] = CR, t[p + 3] = LF
    PROVE  /\ SizeAt(t, at) = p + 1 /\ AfterDigits(t, p + 1) = p + 2
           /\ Strtoul(t, p + 1) = t[p + 1] /\ IsCRLF(t, p + 2)
<1>1. Len(t) \in Nat /\ DOMAIN t = 1 .. Len(t)
  BY LenProperties
<1>2. /\ p + 1 \in 1 .. Len(t) /\ p + 2 \in 1 .. Len(t) /\ p + 1 \in at .. Len(t)
      /\ at \in 1 .. Len(t) /\ p + 1 + 1 = p + 2 /\ p + 2 + 1 = p + 3 /\ p + 3 <= Len(t)
  BY <1>1
<1>3. IsDigit(t, p + 1) /\ ~IsDigit(t, p + 2) /\ IsCRLF(t, p + 2)
  BY <1>1, <1>2, DigitsAre DEF IsDigit, IsCRLF
<1>4. \A k \in at .. p : ~IsDigit(t, k)
  <2>1. SUFFICES ASSUME NEW k \in at .. p PROVE ~IsDigit(t, k)
    OBVIOUS
  <2>2. (k = p - 1 \/ k = p) /\ t[p - 1] = CR /\ t[p] = LF
    BY <1>1
  <2>3. QED
    BY <2>2, DigitsAre DEF IsDigit
<1>5. SizeAt(t, at) = p + 1
  <2>1. p + 1 - 1 = p
    OBVIOUS
  <2>2. QED
    BY <1>2, <1>3, <1>4, <2>1, SizeAtIs
<1>6. AfterDigits(t, p + 1) = p + 2
  <2> DEFINE q == p + 1
  <2>1. q \in 1 .. Len(t) /\ IsDigit(t, q) /\ ~IsDigit(t, q + 1) /\ q + 1 = p + 2
    BY <1>2, <1>3
  <2> HIDE DEF q
  <2>2. AfterDigits(t, q) = q + 1
    BY <2>1, OneDigitEnds
  <2>3. QED
    BY <2>1, <2>2 DEF q
<1>7. Strtoul(t, p + 1) = t[p + 1]
  <2> DEFINE q == p + 1
  <2>1. q \in 1 .. Len(t) /\ IsDigit(t, q) /\ ~IsDigit(t, q + 1)
    BY <1>2, <1>3
  <2> HIDE DEF q
  <2>2. Strtoul(t, q) = t[q]
    BY <2>1, StrtoulIs
  <2>3. QED
    BY <2>2 DEF q
<1>8. QED
  BY <1>3, <1>5, <1>6, <1>7

\* What unchunk_chunked_body has after k chunks.
AfterChunks(place, sum, k) ==
    [at |-> IF k = 0 THEN 1 ELSE place[k] - 1, data |-> sum[k], size |-> 0, over |-> FALSE]

(* The size line that is sent behind k chunks.                              *)
LEMMA SizeLineSent ==
    ASSUME NEW t \in Seq(Octet), NEW cs \in Transfers, NEW place, NEW sum,
           IsSent(t, cs, place, sum), NEW k \in 0 .. Len(cs)
    PROVE  LET at == AfterChunks(place, sum, k).at
               p == place[k]
           IN  /\ at \in Nat \ {0} /\ p \in Nat /\ p + 5 <= Len(t)
               /\ \/ p = 0 /\ at = 1 /\ k = 0
                  \/ p >= 2 /\ at = p - 1 /\ t[p - 1] = CR /\ t[p] = LF
               /\ t[p + 1] \in Digits /\ t[p + 2] = CR /\ t[p + 3] = LF
<1> DEFINE p == place[k]
           at == IF k = 0 THEN 1 ELSE p - 1
<1>1. /\ Len(cs) \in Nat
      /\ \A j \in 1 .. Len(cs) : cs[j] \in Seq(DataBytes) /\ Len(cs[j]) \in ChunkLens
  BY ChunksAre
<1>2. p \in Nat /\ p + 5 <= Len(t)
  BY DEF IsSent
<1>3. \/ p = 0 /\ at = 1 /\ k = 0
      \/ p >= 2 /\ at = p - 1 /\ t[p - 1] = CR /\ t[p] = LF
  <2>1. CASE k = 0
    BY <2>1 DEF IsSent
  <2>2. CASE k # 0
    <3>1. k \in 1 .. Len(cs)
      BY <1>1, <2>2
    <3>2. ChunkIsAt(t, cs[k], place[k - 1], p) /\ Len(cs[k]) \in Nat /\ place[k - 1] \in Nat
      <4>1. k - 1 \in 0 .. Len(cs)
        BY <1>1, <3>1
      <4>2. QED
        BY <1>1, <3>1, <4>1, DigitsAre DEF IsSent
    <3>3. p = place[k - 1] + Len(cs[k]) + 5 /\ t[p - 1] = CR /\ t[p] = LF
      BY <3>2, Zenon DEF ChunkIsAt
    <3>4. QED
      BY <2>2, <3>2, <3>3
  <2>3. QED
    BY <2>1, <2>2
<1>4. t[p + 1] \in Digits /\ t[p + 2] = CR /\ t[p + 3] = LF
  <2>1. CASE k = Len(cs)
    BY <2>1, DigitsAre DEF IsSent
  <2>2. CASE k # Len(cs)
    <3>1. k + 1 \in 1 .. Len(cs) /\ (k + 1) - 1 = k
      BY <1>1, <2>2
    <3>2. ChunkIsAt(t, cs[k + 1], p, place[k + 1])
      BY <3>1 DEF IsSent
    <3>3. t[p + 1] = Len(cs[k + 1]) /\ t[p + 2] = CR /\ t[p + 3] = LF
      BY <3>2, Zenon DEF ChunkIsAt
    <3>4. QED
      BY <1>1, <3>1, <3>3, DigitsAre
  <2>3. QED
    BY <2>1, <2>2
<1>5. AfterChunks(place, sum, k).at = at /\ at \in Nat \ {0}
  BY <1>2, <1>3 DEF AfterChunks
<1>6. QED
  BY <1>2, <1>3, <1>4, <1>5

\* The first bytes of t.
IsCut(b, t) == Len(b) <= Len(t) /\ \A j \in 1 .. Len(b) : b[j] = t[j]

(* That size line in what was kept.                                         *)
LEMMA NextSizeLine ==
    ASSUME NEW t \in Seq(Octet), NEW cs \in Transfers, NEW place, NEW sum,
           IsSent(t, cs, place, sum), NEW k \in 0 .. Len(cs),
           NEW b \in Seq(Octet), IsCut(b, t), place[k] + 3 <= Len(b)
    PROVE  LET at == AfterChunks(place, sum, k).at
               p == place[k]
           IN  /\ SizeAt(b, at) = p + 1 /\ AfterDigits(b, p + 1) = p + 2
               /\ Strtoul(b, p + 1) = t[p + 1] /\ IsCRLF(b, p + 2)
<1> DEFINE p == place[k]
           at == AfterChunks(place, sum, k).at
<1>1. /\ at \in Nat \ {0} /\ p \in Nat /\ p + 5 <= Len(t)
      /\ \/ p = 0 /\ at = 1 /\ k = 0
         \/ p >= 2 /\ at = p - 1 /\ t[p - 1] = CR /\ t[p] = LF
      /\ t[p + 1] \in Digits /\ t[p + 2] = CR /\ t[p + 3] = LF
  BY SizeLineSent
<1>2. p + 3 <= Len(b) /\ Len(b) \in Nat
  BY LenProperties
<1> HIDE DEF p, at
<1>3. /\ b[p + 1] = t[p + 1] /\ b[p + 2] = t[p + 2] /\ b[p + 3] = t[p + 3]
      /\ p >= 2 => b[p - 1] = t[p - 1] /\ b[p] = t[p]
  <2>1. /\ p + 1 \in 1 .. Len(b) /\ p + 2 \in 1 .. Len(b) /\ p + 3 \in 1 .. Len(b)
        /\ p >= 2 => p - 1 \in 1 .. Len(b) /\ p \in 1 .. Len(b)
    BY <1>1, <1>2
  <2>2. QED
    BY <2>1, Zenon DEF IsCut
<1>4. /\ SizeAt(b, at) = p + 1 /\ AfterDigits(b, p + 1) = p + 2
      /\ Strtoul(b, p + 1) = b[p + 1] /\ IsCRLF(b, p + 2)
  BY <1>1, <1>2, <1>3, SizeLineIsFound
<1>5. QED
  BY <1>3, <1>4 DEF p, at

\* What it has when it meets the last one.
AtLastChunk(place, sum, m) ==
    [AfterChunks(place, sum, m) EXCEPT !.over = TRUE, !.size = Len(sum[m])]

\* The bytes that are asked for behind a size line of v, when dlen bytes were decoded
\* before it, and what is copied for them.
AskedAt(b, start, dlen, v) == IF dlen + v > Len(b) THEN Len(b) - (start - 1) ELSE v
CopiedAt(b, start, asked) ==
    [j \in 1 .. asked |-> IF start + j - 1 \in DOMAIN b THEN b[start + j - 1] ELSE Garbage]

\* A round that finds a size line of num behind p bytes.
LineRound(b, u, p, num) ==
    LET asked == AskedAt(b, p + 4, Len(u.data), num)
    IN  IF num = 0 THEN [u EXCEPT !.over = TRUE, !.size = Len(u.data)]
        ELSE [u EXCEPT !.at = p + 4 + asked, !.data = @ \o CopiedAt(b, p + 4, asked)]

(* A round of unchunk_chunked_body that finds a size line.                  *)
LEMMA RoundReadsLine ==
    ASSUME NEW t \in Seq(Octet), NEW cs \in Transfers, NEW place, NEW sum,
           IsSent(t, cs, place, sum), NEW k \in 0 .. Len(cs),
           NEW b \in Seq(Octet), IsCut(b, t), place[k] + 3 <= Len(b)
    PROVE  UnchunkRound(b, AfterChunks(place, sum, k)) =
             LineRound(b, AfterChunks(place, sum, k), place[k], t[place[k] + 1])
<1> DEFINE u == AfterChunks(place, sum, k)
           p == place[k]
           num == t[p + 1]
           c0 == SizeAt(b, u.at)
           c1 == IF c0 < Len(b) THEN AfterDigits(b, c0) ELSE c0
           Asked(start, v) == AskedAt(b, start, Len(u.data), v)
           Copied(start, v) == CopiedAt(b, start, Asked(start, v))
<1>1. p \in Nat /\ Len(b) \in Nat /\ p + 3 <= Len(b)
  BY LenProperties DEF IsSent
<1>2. /\ SizeAt(b, u.at) = p + 1 /\ AfterDigits(b, p + 1) = p + 2
      /\ Strtoul(b, p + 1) = num /\ IsCRLF(b, p + 2)
  BY NextSizeLine
<1> HIDE DEF u
<1>3. c0 = p + 1 /\ c1 = p + 2 /\ c1 + 2 = p + 4
  BY <1>1, <1>2
<1>4. UnchunkRound(b, u) =
        IF ~IsCRLF(b, c1) THEN [u EXCEPT !.over = TRUE, !.size = c0 - 1]
        ELSE IF Strtoul(b, c0) = 0 THEN [u EXCEPT !.over = TRUE, !.size = Len(u.data)]
        ELSE [u EXCEPT !.at = c1 + 2 + Asked(c1 + 2, Strtoul(b, c0)),
                       !.data = @ \o Copied(c1 + 2, Strtoul(b, c0))]
  BY Zenon DEF UnchunkRound, AskedAt, CopiedAt
<1> HIDE DEF c0, c1, Asked, Copied
<1>5. Strtoul(b, c0) = num /\ IsCRLF(b, c1)
  BY <1>2, <1>3
<1> HIDE DEF p, num
<1>6. UnchunkRound(b, u) =
        IF num = 0 THEN [u EXCEPT !.over = TRUE, !.size = Len(u.data)]
        ELSE [u EXCEPT !.at = p + 4 + Asked(p + 4, num), !.data = @ \o Copied(p + 4, num)]
  BY <1>3, <1>4, <1>5, Zenon
<1>7. QED
  BY <1>6, Zenon DEF LineRound, u, p, num, Asked, Copied

\* What is known of the chunk behind k others.
ChunkBehind(t, cs, place, sum, k) ==
    LET c == cs[k + 1]
        p == place[k]
        q == place[k + 1]
    IN  /\ k + 1 \in 0 .. Len(cs) /\ p \in Nat /\ q \in Nat /\ q + 5 <= Len(t)
        /\ c \in Seq(DataBytes) /\ Len(c) \in Nat \ {0}
        /\ sum[k] \in Seq(DataBytes) /\ sum[k + 1] = sum[k] \o c
        /\ Len(sum[k]) \in Nat /\ Len(sum[k] \o c) = Len(sum[k]) + Len(c)
        /\ Len(sum[k]) <= p /\ k <= p
        /\ q = p + Len(c) + 5 /\ t[p + 1] = Len(c)
        /\ \A j \in 1 .. Len(c) : t[p + 3 + j] = c[j]

(* That is what is sent.                                                    *)
LEMMA NextChunk ==
    ASSUME NEW t, NEW cs \in Transfers, NEW place, NEW sum,
           IsSent(t, cs, place, sum), NEW k \in 0 .. Len(cs), k # Len(cs)
    PROVE  ChunkBehind(t, cs, place, sum, k)
<1> DEFINE c == cs[k + 1]
           p == place[k]
           q == place[k + 1]
<1>1. /\ Len(cs) \in Nat
      /\ \A j \in 1 .. Len(cs) : cs[j] \in Seq(DataBytes) /\ Len(cs[j]) \in ChunkLens
  BY ChunksAre
<1>2. k + 1 \in 1 .. Len(cs) /\ (k + 1) - 1 = k /\ k + 1 \in 0 .. Len(cs)
  BY <1>1
<1>3. ChunkIsAt(t, c, p, q) /\ sum[k + 1] = sum[k] \o c
  <2> DEFINE e == k + 1
  <2>1. \A j \in 1 .. Len(cs) :
          ChunkIsAt(t, cs[j], place[j - 1], place[j]) /\ sum[j] = sum[j - 1] \o cs[j]
    BY Zenon DEF IsSent
  <2>2. e \in 1 .. Len(cs) /\ e - 1 = k
    BY <1>2
  <2> HIDE DEF e
  <2>3. ChunkIsAt(t, cs[e], place[e - 1], place[e]) /\ sum[e] = sum[e - 1] \o cs[e]
    BY <2>1, <2>2, Zenon
  <2>4. ChunkIsAt(t, cs[e], place[k], place[e]) /\ sum[e] = sum[k] \o cs[e]
    BY <2>2, <2>3, Zenon
  <2>5. QED
    BY <2>4, Zenon DEF e
<1>4. /\ p \in Nat /\ q \in Nat /\ q + 5 <= Len(t) /\ Len(sum[k]) <= p /\ k <= p
      /\ sum[k] \in Seq(DataBytes)
  BY <1>2 DEF IsSent
<1>5. c \in Seq(DataBytes) /\ Len(c) \in Nat \ {0}
  BY <1>1, <1>2, DigitsAre
<1>6. q = p + Len(c) + 5 /\ t[p + 1] = Len(c) /\ \A j \in 1 .. Len(c) : t[p + 3 + j] = c[j]
  BY <1>3, Zenon DEF ChunkIsAt
<1> HIDE DEF c, p, q
<1>7. Len(sum[k] \o c) = Len(sum[k]) + Len(c) /\ Len(sum[k]) \in Nat
  BY <1>4, <1>5, ConcatProperties, LenProperties
<1>8. QED
  BY <1>2, <1>3, <1>4, <1>5, <1>6, <1>7, Zenon DEF ChunkBehind, c, p, q

(* A round of unchunk_chunked_body takes one chunk, or ends at the last.    *)
LEMMA RoundTakesChunk ==
    ASSUME NEW t \in Seq(Octet), NEW cs \in Transfers, NEW place, NEW sum,
           IsSent(t, cs, place, sum), NEW k \in 0 .. Len(cs),
           NEW b \in Seq(Octet), IsCut(b, t), place[k] + 3 <= Len(b),
           k # Len(cs) => place[k] + 3 + Len(cs[k + 1]) <= Len(b)
    PROVE  UnchunkRound(b, AfterChunks(place, sum, k)) =
             IF k = Len(cs) THEN AtLastChunk(place, sum, k) ELSE AfterChunks(place, sum, k + 1)
<1> DEFINE u == AfterChunks(place, sum, k)
           p == place[k]
           num == t[p + 1]
           asked == AskedAt(b, p + 4, Len(u.data), num)
           copied == CopiedAt(b, p + 4, asked)
<1>1. Len(b) \in Nat /\ DOMAIN b = 1 .. Len(b)
  BY LenProperties
<1>2. u.data = sum[k] /\ u.over = FALSE
  BY DEF AfterChunks
<1>3. UnchunkRound(b, u) =
        IF num = 0 THEN [u EXCEPT !.over = TRUE, !.size = Len(u.data)]
        ELSE [u EXCEPT !.at = p + 4 + asked, !.data = @ \o copied]
  <2>1. UnchunkRound(b, u) = LineRound(b, u, p, num)
    BY RoundReadsLine
  <2> HIDE DEF u, p, num
  <2>2. QED
    BY <2>1, Zenon DEF LineRound
<1> HIDE DEF u
<1>4. CASE k = Len(cs)
  <2>1. num = 0
    BY <1>4 DEF IsSent
  <2>2. UnchunkRound(b, u) = [u EXCEPT !.over = TRUE, !.size = Len(u.data)]
    BY <1>3, <2>1, Zenon
  <2>3. QED
    BY <1>2, <1>4, <2>2, Zenon DEF u, AtLastChunk
<1>5. CASE k # Len(cs)
  <2> DEFINE c == cs[k + 1]
             q == place[k + 1]
  <2>1. /\ k + 1 \in 0 .. Len(cs) /\ p \in Nat /\ q \in Nat
        /\ c \in Seq(DataBytes) /\ Len(c) \in Nat \ {0}
        /\ sum[k + 1] = sum[k] \o c /\ Len(sum[k]) \in Nat /\ Len(sum[k]) <= p
        /\ q = p + Len(c) + 5 /\ num = Len(c)
        /\ \A j \in 1 .. Len(c) : t[p + 3 + j] = c[j]
    <3>1. ChunkBehind(t, cs, place, sum, k)
      BY <1>5, NextChunk
    <3>2. QED
      BY <3>1, Zenon DEF ChunkBehind
  <2>2. p + 3 + Len(c) <= Len(b)
    BY <1>5
  <2> HIDE DEF c, q
  <2>3. asked = Len(c)
    <3>1. Len(u.data) + num <= Len(b)
      <4>1. \A d, l, a, r \in Nat : d <= a /\ a + 3 + l <= r => d + l <= r
        OBVIOUS
      <4>2. Len(u.data) = Len(sum[k]) /\ num = Len(c)
        BY <1>2, <2>1
      <4>3. QED
        BY <1>1, <2>1, <2>2, <4>1, <4>2, Zenon
    <3>2. Len(u.data) \in Nat /\ num \in Nat
      BY <1>2, <2>1
    <3> DEFINE dlen == Len(u.data)
    <3> HIDE DEF dlen, num
    <3>3. ~(dlen + num > Len(b)) => AskedAt(b, p + 4, dlen, num) = num
      BY DEF AskedAt
    <3>4. ~(dlen + num > Len(b))
      BY <1>1, <3>1, <3>2 DEF dlen
    <3>5. QED
      BY <2>1, <3>3, <3>4, Zenon DEF dlen
  <2>4. copied = c
    <3> HIDE DEF asked
    <3>1. ASSUME NEW j \in 1 .. Len(c)
          PROVE  p + 4 + j - 1 \in DOMAIN b /\ b[p + 4 + j - 1] = c[j]
      <4>1. p + 4 + j - 1 = p + 3 + j /\ p + 3 + j \in 1 .. Len(b)
        <5>1. \A a, l, r \in Nat : \A e \in 1 .. l :
                a + 3 + l <= r => a + 4 + e - 1 = a + 3 + e /\ a + 3 + e \in 1 .. r
          OBVIOUS
        <5>2. QED
          BY <1>1, <2>1, <2>2, <5>1, Zenon
      <4>2. b[p + 3 + j] = t[p + 3 + j]
        BY <4>1, Zenon DEF IsCut
      <4>3. QED
        BY <1>1, <2>1, <4>1, <4>2, Zenon
    <3>2. copied = [j \in 1 .. Len(c) |-> c[j]]
      <4>1. copied = [j \in 1 .. asked |->
                        IF p + 4 + j - 1 \in DOMAIN b THEN b[p + 4 + j - 1] ELSE Garbage]
        BY Zenon DEF CopiedAt
      <4> HIDE DEF copied, p
      <4>2. QED
        BY <2>3, <3>1, <4>1
    <3>3. c = [j \in 1 .. Len(c) |-> c[j]]
      BY <2>1, LenProperties
    <3>4. QED
      BY <3>2, <3>3
  <2>5. UnchunkRound(b, u) = [u EXCEPT !.at = p + 4 + Len(c), !.data = @ \o c]
    <3>1. num # 0
      BY <2>1
    <3> HIDE DEF asked, copied, num
    <3>2. QED
      BY <1>3, <2>3, <2>4, <3>1, Zenon
  <2>6. p + 4 + Len(c) = q - 1 /\ k + 1 # 0
    <3>1. \A a, l \in Nat : a + 4 + l = (a + l + 5) - 1
      OBVIOUS
    <3>2. p + 4 + Len(c) = (p + Len(c) + 5) - 1
      BY <2>1, <3>1, Zenon
    <3>3. k + 1 # 0
      OBVIOUS
    <3>4. QED
      BY <2>1, <3>2, <3>3, Zenon
  <2>7. [u EXCEPT !.at = q - 1, !.data = @ \o c] = AfterChunks(place, sum, k + 1)
    <3> DEFINE o == u.over
               e == u.data \o c
               a == u.at
    <3>1. AfterChunks(place, sum, k + 1) =
            [at |-> q - 1, data |-> sum[k] \o c, size |-> 0, over |-> FALSE]
      BY <2>1, <2>6, Zenon DEF AfterChunks, q
    <3>2. u = [at |-> a, data |-> sum[k], size |-> 0, over |-> FALSE]
      BY DEF u, AfterChunks
    <3>3. o = FALSE /\ e = sum[k] \o c
      BY <1>2, Zenon
    <3> HIDE DEF o, e, a
    <3>4. u = [at |-> a, data |-> sum[k], size |-> 0, over |-> o]
      BY <3>2, <3>3, Zenon
    <3>5. [u EXCEPT !.at = q - 1, !.data = e] = [at |-> q - 1, data |-> e, size |-> 0, over |-> o]
      <4> DEFINE v == [u EXCEPT !.at = q - 1]
      <4>1. v = [at |-> q - 1, data |-> sum[k], size |-> 0, over |-> o]
        BY <3>4
      <4> HIDE DEF v
      <4>2. [v EXCEPT !.data = e] = [at |-> q - 1, data |-> e, size |-> 0, over |-> o]
        BY <4>1
      <4>3. QED
        BY <4>2, Zenon DEF v
    <3>6. [u EXCEPT !.at = q - 1, !.data = @ \o c] = [u EXCEPT !.at = q - 1, !.data = e]
      BY Zenon DEF e
    <3>7. QED
      BY <3>1, <3>3, <3>5, <3>6, Zenon
  <2>8. QED
    BY <1>5, <2>5, <2>6, <2>7, Zenon DEF u
<1>6. QED
  BY <1>4, <1>5 DEF u

\* What a round that is not the last makes of u, and where the first one begins.
RoundOf(b, u) == IF u.over THEN u ELSE UnchunkRound(b, u)
AtFirst == [at |-> 1, data |-> <<>>, size |-> 0, over |-> FALSE]

(* The decoding is what its rounds make, one after the other.               *)
LEMMA RoundsMake ==
    ASSUME NEW b \in Seq(Octet), NEW nb \in 1 .. Len(b) + 1, NEW f, f[0] = AtFirst,
           \A k \in 1 .. nb : f[k] = RoundOf(b, f[k - 1]), f[nb].over, b # <<>>
    PROVE  Unchunk(b) = f[nb]
<1> DEFINE e == Len(b) + 1
           g == [k \in 0 .. e |-> IF k <= nb THEN f[k] ELSE f[nb]]
<1>1. Len(b) \in Nat /\ e \in Nat /\ nb \in Nat /\ nb <= e /\ nb # 0 /\ b # <<>>
  BY LenProperties
<1>2. \A k \in 1 .. e : g[k] = RoundOf(b, g[k - 1])
  <2>1. SUFFICES ASSUME NEW k \in 1 .. e PROVE g[k] = RoundOf(b, g[k - 1])
    OBVIOUS
  <2>2. CASE k <= nb
    <3>1. k \in 1 .. nb /\ k - 1 <= nb /\ k - 1 \in 0 .. e /\ k \in 0 .. e
      BY <1>1, <2>2
    <3>2. g[k] = f[k] /\ g[k - 1] = f[k - 1]
      BY <2>2, <3>1
    <3>3. QED
      BY <3>1, <3>2, Zenon
  <2>3. CASE ~(k <= nb)
    <3>1. k \in 0 .. e /\ k - 1 \in 0 .. e /\ (k - 1 <= nb => k - 1 = nb)
      BY <1>1, <2>3
    <3>2. g[k] = f[nb] /\ g[k - 1] = f[nb]
      BY <2>3, <3>1
    <3> HIDE DEF g
    <3>3. QED
      BY <3>2, Zenon DEF RoundOf
  <2>4. QED
    BY <2>2, <2>3
<1>3. g[0] = AtFirst /\ g[e] = f[nb]
  BY <1>1
<1>4. g = [k \in 0 .. e |-> IF k = 0 THEN AtFirst ELSE RoundOf(b, g[k - 1])]
  <2>1. g = [k \in 0 .. e |-> g[k]]
    OBVIOUS
  <2> HIDE DEF g
  <2>2. \A k \in 0 .. e : g[k] = IF k = 0 THEN AtFirst ELSE RoundOf(b, g[k - 1])
    BY <1>1, <1>2, <1>3
  <2>3. QED
    BY <2>1, <2>2
<1> HIDE DEF g
<1>5. PICK h : /\ h = [k \in 0 .. e |-> IF k = 0 THEN AtFirst ELSE RoundOf(b, h[k - 1])]
               /\ Unchunk(b) = h[e]
  <2>1. [at |-> 1, data |-> <<>>, size |-> IF b = <<>> THEN Astray ELSE 0, over |-> b = <<>>]
          = AtFirst
    <3> DEFINE o == b = <<>>
               z == IF b = <<>> THEN Astray ELSE 0
    <3>1. o = FALSE /\ z = 0
      BY <1>1, Zenon
    <3> HIDE DEF o, z
    <3>2. [at |-> 1, data |-> <<>>, size |-> z, over |-> o] = AtFirst
      BY <3>1 DEF AtFirst
    <3>3. QED
      BY <3>2, Zenon DEF o, z
  <2>2. Unchunk(b) =
            LET u[k \in 0 .. e] ==
                  IF k = 0
                  THEN [at |-> 1, data |-> <<>>,
                        size |-> IF b = <<>> THEN Astray ELSE 0, over |-> b = <<>>]
                  ELSE RoundOf(b, u[k - 1])
            IN  u[e]
    BY Zenon DEF Unchunk, RoundOf
  <2>3. Unchunk(b) =
            LET u[k \in 0 .. e] == IF k = 0 THEN AtFirst ELSE RoundOf(b, u[k - 1])
            IN  u[e]
    BY <2>1, <2>2, Zenon
  <2> HIDE DEF e
  <2>4. QED
    BY <1>4, <2>3
<1> HIDE DEF e
<1>6. h[0] = AtFirst /\ \A k \in 1 .. e : h[k] = RoundOf(b, h[k - 1])
  BY <1>1, <1>5
<1>7. \A k \in Nat : k <= e => h[k] = g[k]
  <2> DEFINE P == {k \in Nat : k <= e => h[k] = g[k]}
  <2>1. 0 \in P
    BY <1>3, <1>6
  <2>2. ASSUME NEW k \in Nat, k \in P PROVE k + 1 \in P
    <3>1. SUFFICES ASSUME k + 1 <= e PROVE h[k + 1] = g[k + 1]
      OBVIOUS
    <3>2. k + 1 \in 1 .. e /\ (k + 1) - 1 = k /\ h[k] = g[k]
      BY <1>1, <2>2, <3>1
    <3>3. h[k + 1] = RoundOf(b, h[k]) /\ g[k + 1] = RoundOf(b, g[k])
      BY <1>2, <1>6, <3>2
    <3>4. QED
      BY <3>2, <3>3
  <2>3. \A k \in Nat : k \in P
    <3> HIDE DEF P
    <3>1. QED
      BY <2>1, <2>2, AllNumbers
  <2>4. QED
    BY <2>3
<1>8. h[e] = g[e]
  BY <1>1, <1>7
<1>9. QED
  BY <1>3, <1>5, <1>8

(* A round takes each of the first chunks; what the next one makes, and the  *)
(* one after it if that is not the last, is what a body is decoded to.      *)
LEMMA RoundsFromChunks ==
    ASSUME NEW t \in Seq(Octet), NEW cs \in Transfers, NEW place, NEW sum,
           IsSent(t, cs, place, sum), NEW k \in 0 .. Len(cs),
           NEW b \in Seq(Octet), IsCut(b, t), k + 1 <= Len(b),
           \A j \in 0 .. k - 1 : place[j] + 3 + Len(cs[j + 1]) <= Len(b),
           NEW r, r = UnchunkRound(b, AfterChunks(place, sum, k)), RoundOf(b, r).over
    PROVE  Unchunk(b) = RoundOf(b, r)
<1> DEFINE After(j) == AfterChunks(place, sum, j)
           nb == k + 2
           f == [j \in 0 .. nb |->
                    IF j <= k THEN After(j) ELSE IF j = k + 1 THEN r ELSE RoundOf(b, r)]
<1>1. k \in Nat /\ Len(cs) \in Nat /\ nb \in 1 .. Len(b) + 1 /\ b # <<>>
  BY ChunksAre, LenProperties
<1>2. f[0] = AtFirst
  <2>1. After(0) = AtFirst
    <3>1. sum[0] = <<>>
      BY Zenon DEF IsSent
    <3>2. QED
      BY <3>1 DEF AfterChunks, AtFirst
  <2>2. f[0] = After(0)
    BY <1>1
  <2>3. QED
    BY <2>1, <2>2
<1>3. \A j : After(j).over = FALSE
  BY DEF AfterChunks
<1>4. \A j \in 0 .. k - 1 : UnchunkRound(b, After(j)) = After(j + 1)
  <2>1. SUFFICES ASSUME NEW j \in 0 .. k - 1 PROVE UnchunkRound(b, After(j)) = After(j + 1)
    OBVIOUS
  <2>2. j \in 0 .. Len(cs) /\ j # Len(cs)
    BY <1>1
  <2>3. place[j] + 3 + Len(cs[j + 1]) <= Len(b)
    OBVIOUS
  <2>4. place[j] + 3 <= Len(b)
    <3> DEFINE p == place[j]
               l == Len(cs[j + 1])
    <3>1. p \in Nat /\ l \in Nat \ {0}
      <4>1. ChunkBehind(t, cs, place, sum, j)
        BY <2>2, NextChunk
      <4>2. QED
        BY <4>1, Zenon DEF ChunkBehind
    <3>2. Len(b) \in Nat /\ p + 3 + l <= Len(b)
      BY <2>3, LenProperties
    <3> HIDE DEF p, l
    <3>3. p + 3 <= Len(b)
      BY <3>1, <3>2
    <3>4. QED
      BY <3>3 DEF p
  <2>5. QED
    BY <2>2, <2>3, <2>4, RoundTakesChunk
<1> HIDE DEF After
<1>5. \A j \in 1 .. nb : f[j] = RoundOf(b, f[j - 1])
  <2>1. SUFFICES ASSUME NEW j \in 1 .. nb PROVE f[j] = RoundOf(b, f[j - 1])
    OBVIOUS
  <2>2. CASE j <= k
    <3>1. /\ j - 1 \in 0 .. k - 1 /\ (j - 1) + 1 = j /\ j \in 0 .. nb
          /\ j - 1 \in 0 .. nb /\ j - 1 <= k
      BY <1>1, <2>2
    <3>2. f[j] = After(j) /\ f[j - 1] = After(j - 1)
      BY <2>2, <3>1
    <3>3. UnchunkRound(b, After(j - 1)) = After(j)
      BY <1>4, <3>1
    <3> HIDE DEF f
    <3>4. QED
      BY <1>3, <3>2, <3>3, Zenon DEF RoundOf
  <2>3. CASE j = k + 1
    <3>1. f[j] = r /\ f[j - 1] = After(k)
      BY <1>1, <2>3
    <3>2. r = UnchunkRound(b, After(k))
      BY DEF After
    <3> HIDE DEF f
    <3>3. QED
      BY <1>3, <3>1, <3>2, Zenon DEF RoundOf
  <2>4. CASE j = k + 2
    <3>1. f[j] = RoundOf(b, r) /\ f[j - 1] = r
      BY <1>1, <2>4
    <3>2. QED
      BY <3>1
  <2>5. j <= k \/ j = k + 1 \/ j = k + 2
    BY <1>1
  <2>6. QED
    BY <2>2, <2>3, <2>4, <2>5
<1>6. f[nb] = RoundOf(b, r)
  BY <1>1
<1> HIDE DEF f, nb
<1>7. f[nb].over
  BY <1>6
<1>8. Unchunk(b) = f[nb]
  BY <1>1, <1>2, <1>5, <1>7, RoundsMake
<1>9. QED
  BY <1>6, <1>8

(* A body that has the last chunk's size line is decoded to all of them.    *)
LEMMA WholeIsDecoded ==
    ASSUME NEW t \in Seq(Octet), NEW cs \in Transfers, NEW place, NEW sum,
           IsSent(t, cs, place, sum),
           NEW b \in Seq(Octet), IsCut(b, t), place[Len(cs)] + 3 <= Len(b)
    PROVE  Unchunk(b) = AtLastChunk(place, sum, Len(cs))
<1> DEFINE m == Len(cs)
           r == AtLastChunk(place, sum, m)
<1>1. m \in Nat /\ m \in 0 .. m /\ Len(b) \in Nat
  BY ChunksAre, LenProperties
<1>2. place[m] \in Nat /\ Len(t) = place[m] + 5 /\ m <= place[m]
  BY <1>1 DEF IsSent
<1>3. \A j \in 0 .. m - 1 : place[j] + 3 + Len(cs[j + 1]) <= Len(b)
  <2>1. SUFFICES ASSUME NEW j \in 0 .. m - 1 PROVE place[j] + 3 + Len(cs[j + 1]) <= Len(b)
    OBVIOUS
  <2>2. j \in 0 .. Len(cs) /\ j # Len(cs)
    BY <1>1
  <2> DEFINE p == place[j]
             l == Len(cs[j + 1])
             q == place[j + 1]
  <2>3. p \in Nat /\ l \in Nat \ {0} /\ q = p + l + 5 /\ q + 5 <= Len(t)
    <3>1. ChunkBehind(t, cs, place, sum, j)
      BY <2>2, NextChunk
    <3>2. QED
      BY <3>1, Zenon DEF ChunkBehind
  <2>4. place[m] + 3 <= Len(b)
    OBVIOUS
  <2> HIDE DEF p, l, q, m
  <2>5. p + 3 + l <= Len(b)
    BY <1>1, <1>2, <2>3, <2>4
  <2>6. QED
    BY <2>5 DEF p, l
<1>4. UnchunkRound(b, AfterChunks(place, sum, m)) = r
  BY <1>1, RoundTakesChunk
<1>5. r.over = TRUE
  BY DEF AtLastChunk, AfterChunks
<1>6. m + 1 <= Len(b)
  <2>1. place[m] + 3 <= Len(b)
    OBVIOUS
  <2> HIDE DEF m
  <2>2. QED
    BY <1>1, <1>2, <2>1
<1> HIDE DEF r
<1>7. RoundOf(b, r) = r
  BY <1>5, Zenon DEF RoundOf
<1>8. RoundOf(b, r).over
  BY <1>5, <1>7
<1>9. Unchunk(b) = RoundOf(b, r)
  BY <1>1, <1>3, <1>4, <1>6, <1>8, RoundsFromChunks
<1>10. QED
  BY <1>7, <1>9 DEF r, m

(* A whole transfer is decoded to what its chunks hold.                     *)
LEMMA TransferIsDecoded ==
    ASSUME NEW cs \in Transfers
    PROVE  LET decoded == Unchunk(Coded(cs))
           IN  decoded.data = FlattenSeq(cs) /\ decoded.size = Len(decoded.data)
<1> DEFINE t == Coded(cs)
           decoded == Unchunk(t)
<1>1. PICK place, sum : IsSent(t, cs, place, sum)
  BY TransferPlaces
<1>2. t \in Seq(Octet) /\ Len(t) \in Nat
  BY TransferPlaces, LenProperties
<1> HIDE DEF t
<1>3. place[Len(cs)] \in Nat /\ place[Len(cs)] + 3 <= Len(t)
  BY <1>1, <1>2, ChunksAre DEF IsSent
<1>4. IsCut(t, t)
  BY <1>2 DEF IsCut
<1>5. decoded = AtLastChunk(place, sum, Len(cs))
  BY <1>1, <1>2, <1>3, <1>4, WholeIsDecoded
<1>6. sum[Len(cs)] = FlattenSeq(cs)
  BY <1>1, Zenon DEF IsSent
<1> HIDE DEF decoded
<1>7. decoded.data = sum[Len(cs)] /\ decoded.size = Len(sum[Len(cs)])
  BY <1>5 DEF AtLastChunk, AfterChunks
<1>8. QED
  BY <1>6, <1>7 DEF decoded, t

\* The data of the first k chunks are the beginning of all of them, and five bytes of
\* each chunk are no data.
SumIs(cs, place, sum, k) ==
    /\ Len(sum[k]) \in Nat /\ place[k] = Len(sum[k]) + 5 * k
    /\ Len(sum[k]) <= Len(sum[Len(cs)])
    /\ \A j \in 1 .. Len(sum[k]) : sum[k][j] = sum[Len(cs)][j]

(* They are.                                                                *)
LEMMA SumsAre ==
    ASSUME NEW t, NEW cs \in Transfers, NEW place, NEW sum, IsSent(t, cs, place, sum)
    PROVE  \A k \in 0 .. Len(cs) : SumIs(cs, place, sum, k)
<1> DEFINE m == Len(cs)
           Begins(a, z) == Len(a) <= Len(z) /\ \A j \in 1 .. Len(a) : a[j] = z[j]
           Counts(k) == place[k] = Len(sum[k]) + 5 * k
           S == {k \in Nat : k <= m => Counts(k)}
           T == {k \in Nat : k <= m => Begins(sum[m - k], sum[m])}
<1>1. m \in Nat /\ m \in 0 .. m
  BY ChunksAre
<1>2. \A k \in 0 .. m : sum[k] \in Seq(DataBytes) /\ Len(sum[k]) \in Nat /\ place[k] \in Nat
  BY LenProperties DEF IsSent
<1>3. ASSUME NEW k \in 0 .. m, k # m
      PROVE  /\ place[k + 1] = place[k] + Len(cs[k + 1]) + 5 /\ Len(cs[k + 1]) \in Nat
             /\ Len(sum[k + 1]) = Len(sum[k]) + Len(cs[k + 1])
             /\ \A j \in 1 .. Len(sum[k]) : sum[k + 1][j] = sum[k][j]
  <2> DEFINE c == cs[k + 1]
  <2>1. ChunkBehind(t, cs, place, sum, k)
    BY <1>3, NextChunk
  <2>2. /\ c \in Seq(DataBytes) /\ Len(c) \in Nat \ {0} /\ sum[k] \in Seq(DataBytes)
        /\ sum[k + 1] = sum[k] \o c /\ place[k + 1] = place[k] + Len(c) + 5
    BY <2>1, Zenon DEF ChunkBehind
  <2> HIDE DEF c
  <2>3. /\ Len(sum[k] \o c) = Len(sum[k]) + Len(c)
        /\ \A j \in 1 .. Len(sum[k]) : (sum[k] \o c)[j] = sum[k][j]
    BY <1>2, <2>2, ConcatProperties
  <2>4. QED
    BY <2>2, <2>3 DEF c
<1>4. Counts(0)
  BY <1>1 DEF IsSent
<1>5. ASSUME NEW k \in 0 .. m, k # m, Counts(k) PROVE Counts(k + 1)
  <2> DEFINE d == Len(sum[k])
             l == Len(cs[k + 1])
  <2>1. /\ place[k + 1] = place[k] + l + 5 /\ l \in Nat /\ Len(sum[k + 1]) = d + l /\ d \in Nat
        /\ place[k] = d + 5 * k /\ k \in Nat
    <3>1. place[k] = d + 5 * k
      BY <1>5, Zenon
    <3>2. /\ place[k + 1] = place[k] + l + 5 /\ l \in Nat
          /\ Len(sum[k + 1]) = d + l /\ d \in Nat
      BY <1>2, <1>3, <1>5, Zenon
    <3>3. k \in Nat
      BY <1>1
    <3>4. QED
      BY <3>1, <3>2, <3>3
  <2> HIDE DEF d, l
  <2>2. (d + 5 * k) + l + 5 = (d + l) + 5 * (k + 1)
    BY <2>1
  <2>3. QED
    BY <2>1, <2>2
<1> HIDE DEF Counts
<1>6. \A k \in 0 .. m : Counts(k)
  <2>1. 0 \in S
    BY <1>4
  <2>2. ASSUME NEW k \in Nat, k \in S PROVE k + 1 \in S
    <3>1. SUFFICES ASSUME k + 1 <= m PROVE Counts(k + 1)
      OBVIOUS
    <3>2. k \in 0 .. m /\ k # m /\ Counts(k)
      BY <1>1, <2>2, <3>1
    <3>3. QED
      BY <1>5, <3>2
  <2>3. \A k \in Nat : k \in S
    <3> HIDE DEF S
    <3>1. QED
      BY <2>1, <2>2, AllNumbers
  <2>4. QED
    BY <1>1, <2>3
<1>7. 0 \in T
  BY <1>1, <1>2
<1>8. ASSUME NEW k \in Nat, k \in T PROVE k + 1 \in T
  <2>1. SUFFICES ASSUME k + 1 <= m PROVE Begins(sum[m - (k + 1)], sum[m])
    OBVIOUS
  <2> DEFINE ix == m - (k + 1)
  <2>2. ix \in 0 .. m /\ ix # m /\ ix + 1 = m - k /\ Begins(sum[m - k], sum[m]) /\ ix + 1 \in 0 .. m
    BY <1>1, <1>8, <2>1
  <2> HIDE DEF ix
  <2>3. /\ Len(sum[ix + 1]) = Len(sum[ix]) + Len(cs[ix + 1]) /\ Len(cs[ix + 1]) \in Nat
        /\ \A j \in 1 .. Len(sum[ix]) : sum[ix + 1][j] = sum[ix][j]
    BY <1>3, <2>2
  <2>4. Len(sum[ix]) \in Nat /\ Len(sum[ix + 1]) \in Nat /\ Len(sum[m]) \in Nat
    BY <1>1, <1>2, <2>2
  <2>5. Begins(sum[ix], sum[m])
    <3>1. Begins(sum[ix + 1], sum[m])
      BY <2>2, Zenon
    <3>2. Len(sum[ix]) <= Len(sum[ix + 1]) /\ Len(sum[ix + 1]) <= Len(sum[m])
      <4>1. \A a, d, l \in Nat : a = d + l => d <= a
        OBVIOUS
      <4>2. QED
        BY <2>3, <2>4, <3>1, <4>1, Zenon
    <3>3. ASSUME NEW j \in 1 .. Len(sum[ix]) PROVE sum[ix][j] = sum[m][j]
      <4>1. j \in 1 .. Len(sum[ix + 1])
        BY <2>4, <3>2
      <4>2. QED
        BY <2>3, <3>1, <4>1, Zenon
    <3>4. QED
      BY <2>4, <3>2, <3>3
  <2>6. QED
    BY <2>5 DEF ix
<1>9. \A k \in Nat : k \in T
  <2> HIDE DEF T
  <2>1. QED
    BY <1>7, <1>8, AllNumbers
<1>10. \A k \in 0 .. m : Begins(sum[k], sum[m])
  <2>1. SUFFICES ASSUME NEW k \in 0 .. m PROVE Begins(sum[k], sum[m])
    OBVIOUS
  <2>2. m - k \in Nat /\ m - k <= m /\ m - (m - k) = k
    BY <1>1
  <2>3. m - k \in T
    BY <1>9, <2>2
  <2> DEFINE ix == m - k
  <2> HIDE DEF ix
  <2>4. Begins(sum[m - ix], sum[m])
    BY <2>2, <2>3 DEF ix
  <2>5. QED
    BY <2>2, <2>4 DEF ix
<1>11. \A k \in 0 .. m : Len(sum[k]) \in Nat /\ place[k] = Len(sum[k]) + 5 * k
  BY <1>2, <1>6, Zenon DEF Counts
<1>12. QED
  BY <1>10, <1>11, Zenon DEF SumIs

(* A size line is looked for as far as the last byte.                       *)
LEMMA SizeAtLast ==
    ASSUME NEW S, NEW b \in Seq(S), NEW at \in Nat \ {0}, NEW p \in Nat,
           at <= p, p = at \/ p = Len(b), p >= Len(b),
           \A k \in at .. p - 1 : ~IsDigit(b, k)
    PROVE  SizeAt(b, at) = p
<1> DEFINE Is(j) == /\ \A k \in at .. j - 1 : k < Len(b) /\ ~IsDigit(b, k)
                    /\ j >= Len(b) \/ IsDigit(b, j)
           j == SizeAt(b, at)
<1>1. Len(b) \in Nat
  BY LenProperties
<1>2. p \in at .. Len(b) + at /\ Is(p)
  BY <1>1
<1>3. j \in at .. Len(b) + at /\ Is(j)
  <2>1. j = CHOOSE q \in at .. Len(b) + at : Is(q)
    BY DEF SizeAt
  <2> HIDE DEF Is, j
  <2>2. QED
    BY <1>2, <2>1
<1> HIDE DEF j
<1>4. ~(j < p)
  <2>1. SUFFICES ASSUME j < p PROVE FALSE
    OBVIOUS
  <2>2. j \in at .. p - 1 /\ ~(j >= Len(b))
    BY <1>1, <1>3, <2>1
  <2>3. QED
    BY <1>3, <2>2
<1>5. ~(j > p)
  <2>1. SUFFICES ASSUME j > p PROVE FALSE
    OBVIOUS
  <2>2. p \in at .. j - 1
    BY <1>1, <1>3, <2>1
  <2>3. p < Len(b)
    BY <1>3, <2>2
  <2>4. QED
    BY <1>1, <2>3
<1>6. QED
  BY <1>1, <1>3, <1>4, <1>5 DEF j

\* Digits that begin at c0 go to the last byte.
NoLine(b, c0) == c0 < Len(b) => AfterDigits(b, c0) >= Len(b) /\ AfterDigits(b, c0) \in Nat

\* What the decoding ends with when the end of the body is missing.
Ended(u, c0) == [u EXCEPT !.over = TRUE, !.size = c0 - 1]

(* A round that finds no whole size line is the last.                       *)
LEMMA RoundEnds ==
    ASSUME NEW b \in Seq(Octet), NEW u, NEW c0 \in Nat, SizeAt(b, u.at) = c0,
           NoLine(b, c0)
    PROVE  UnchunkRound(b, u) = Ended(u, c0)
<1> DEFINE c1 == IF c0 < Len(b) THEN AfterDigits(b, c0) ELSE c0
<1>1. Len(b) \in Nat
  BY LenProperties
<1>2. c1 \in Nat /\ c1 >= Len(b)
  BY <1>1 DEF NoLine
<1> HIDE DEF c1
<1>3. ~IsCRLF(b, c1)
  BY <1>1, <1>2 DEF IsCRLF
<1>4. UnchunkRound(b, u) =
        IF ~IsCRLF(b, c1) THEN [u EXCEPT !.over = TRUE, !.size = c0 - 1] ELSE UnchunkRound(b, u)
  <2>1. c1 = IF SizeAt(b, u.at) < Len(b) THEN AfterDigits(b, SizeAt(b, u.at)) ELSE SizeAt(b, u.at)
    BY Zenon DEF c1
  <2>2. ~IsCRLF(b, c1) =>
          UnchunkRound(b, u) = [u EXCEPT !.over = TRUE, !.size = SizeAt(b, u.at) - 1]
    BY <2>1, Zenon DEF UnchunkRound
  <2>3. QED
    BY <2>2, Zenon
<1>5. QED
  BY <1>3, <1>4, Zenon DEF Ended

(* A body that ends in front of the line end behind the next size.          *)
LEMMA RoundAtEnd ==
    ASSUME NEW t \in Seq(Octet), NEW cs \in Transfers, NEW place, NEW sum,
           IsSent(t, cs, place, sum), NEW k \in 0 .. Len(cs),
           NEW b \in Seq(Octet), IsCut(b, t), Len(b) < place[k] + 3
    PROVE  \E c0 \in Nat :
             /\ c0 >= AfterChunks(place, sum, k).at
             /\ UnchunkRound(b, AfterChunks(place, sum, k)) = Ended(AfterChunks(place, sum, k), c0)
<1> DEFINE u == AfterChunks(place, sum, k)
           at == u.at
           p == place[k]
           nb == Len(b)
<1>1. /\ at \in Nat \ {0} /\ p \in Nat /\ p + 5 <= Len(t)
      /\ \/ p = 0 /\ at = 1 /\ k = 0
         \/ p >= 2 /\ at = p - 1 /\ t[p - 1] = CR /\ t[p] = LF
      /\ t[p + 1] \in Digits /\ t[p + 2] = CR /\ t[p + 3] = LF
  BY SizeLineSent
<1>2. nb \in Nat /\ nb < p + 3 /\ DOMAIN b = 1 .. nb
  BY LenProperties
<1>3. \A ix \in 1 .. nb : b[ix] = t[ix]
  BY Zenon DEF IsCut
<1> HIDE DEF p, u
<1>4. \A ix \in at .. p : ~IsDigit(b, ix)
  <2>1. SUFFICES ASSUME NEW ix \in at .. p, IsDigit(b, ix) PROVE FALSE
    OBVIOUS
  <2>2. ix \in 1 .. nb /\ b[ix] \in Digits
    BY <1>2, <2>1 DEF IsDigit
  <2>3. (ix = p - 1 \/ ix = p) /\ t[p - 1] = CR /\ t[p] = LF
    BY <1>1, <2>1
  <2>4. t[ix] = CR \/ t[ix] = LF
    BY <2>3
  <2>5. t[ix] \in Digits
    BY <1>3, <2>2
  <2>6. QED
    BY <2>4, <2>5, DigitsAre
<1>5. \E c0 \in Nat : /\ c0 >= at /\ SizeAt(b, at) = c0
                      /\ c0 < nb => AfterDigits(b, c0) >= nb /\ AfterDigits(b, c0) \in Nat
  <2>1. CASE at >= nb
    <3>1. \A ix \in at .. at - 1 : ~IsDigit(b, ix)
      BY <1>1
    <3>2. SizeAt(b, at) = at
      BY <1>1, <2>1, <3>1, SizeAtLast
    <3>3. QED
      BY <1>1, <1>2, <2>1, <3>2
  <2>2. CASE at < nb /\ nb <= p + 1
    <3>1. \A ix \in at .. nb - 1 : ~IsDigit(b, ix)
      BY <1>1, <1>2, <1>4, <2>2
    <3>2. at <= nb /\ nb >= at /\ nb >= nb /\ ~(nb < nb)
      BY <1>1, <1>2, <2>2
    <3>3. SizeAt(b, at) = nb
      BY <1>1, <1>2, <3>1, <3>2, SizeAtLast, Zenon
    <3>4. QED
      BY <1>2, <3>2, <3>3, Zenon
  <2>3. CASE at < nb /\ nb = p + 2
    <3> DEFINE q == p + 1
    <3>1. /\ q \in at .. nb /\ q \in 1 .. nb /\ q + 1 \in 1 .. nb /\ at \in 1 .. nb /\ q + 1 = p + 2
          /\ q - 1 = p /\ q \in Nat /\ q + 1 = nb
      BY <1>1, <1>2, <2>3
    <3> HIDE DEF q
    <3>2. b[q] = t[q] /\ b[q + 1] = t[q + 1]
      BY <1>3, <3>1, Zenon
    <3>3. t[q] \in Digits /\ t[q + 1] = CR
      BY <1>1, <3>1 DEF q
    <3>4. IsDigit(b, q) /\ ~IsDigit(b, q + 1)
      BY <1>2, <3>1, <3>2, <3>3, DigitsAre DEF IsDigit
    <3>5. \A ix \in at .. q - 1 : ~IsDigit(b, ix)
      BY <1>4, <3>1
    <3>6. SizeAt(b, at) = q
      BY <3>1, <3>4, <3>5, SizeAtIs
    <3>7. AfterDigits(b, q) = q + 1
      BY <3>1, <3>4, OneDigitEnds
    <3>8. q >= at /\ AfterDigits(b, q) >= nb /\ AfterDigits(b, q) \in Nat
      BY <1>1, <1>2, <3>1, <3>7
    <3>9. QED
      BY <3>1, <3>6, <3>8
  <2>4. at >= nb \/ (at < nb /\ nb <= p + 1) \/ (at < nb /\ nb = p + 2)
    <3>1. \A a, w, r \in Nat :
            w < r + 3 => a >= w \/ (a < w /\ w <= r + 1) \/ (a < w /\ w = r + 2)
      OBVIOUS
    <3>2. at \in Nat /\ p \in Nat /\ nb \in Nat /\ nb < p + 3
      BY <1>1, <1>2
    <3>3. QED
      BY <3>1, <3>2, Zenon
  <2>5. QED
    BY <2>1, <2>2, <2>3, <2>4, Zenon
<1>6. PICK c0 \in Nat : /\ c0 >= at /\ SizeAt(b, at) = c0
                        /\ c0 < nb => AfterDigits(b, c0) >= nb /\ AfterDigits(b, c0) \in Nat
  BY <1>5
<1>7. UnchunkRound(b, u) = Ended(u, c0)
  <2>1. SizeAt(b, u.at) = c0
    BY <1>6, Zenon
  <2>2. NoLine(b, c0)
    BY <1>6, Zenon DEF NoLine
  <2>3. QED
    BY <2>1, <2>2, RoundEnds
<1>8. QED
  BY <1>6, <1>7 DEF u

\* A round that meets a size line whose chunk goes on beyond the body: what is asked for
\* is at least what came of the chunk.
TakesTheRest(b, cs, place, sum, k) ==
    \E asked \in Len(b) - (place[k] + 3) .. Len(cs[k + 1]) :
       UnchunkRound(b, AfterChunks(place, sum, k)) =
         [at |-> place[k] + 4 + asked,
          data |-> sum[k] \o CopiedAt(b, place[k] + 4, asked),
          size |-> 0, over |-> FALSE]

(* A body that ends in the data of the next chunk.                          *)
LEMMA RoundIsCut ==
    ASSUME NEW t \in Seq(Octet), NEW cs \in Transfers, NEW place, NEW sum,
           IsSent(t, cs, place, sum), NEW k \in 0 .. Len(cs), k # Len(cs),
           NEW b \in Seq(Octet), IsCut(b, t), place[k] + 3 <= Len(b),
           Len(b) < place[k] + 3 + Len(cs[k + 1])
    PROVE  TakesTheRest(b, cs, place, sum, k)
<1> DEFINE u == AfterChunks(place, sum, k)
           p == place[k]
           num == t[p + 1]
           l == Len(cs[k + 1])
           asked == AskedAt(b, p + 4, Len(u.data), num)
<1>1. ChunkBehind(t, cs, place, sum, k)
  BY NextChunk
<1>2. p \in Nat /\ l \in Nat \ {0} /\ num = l /\ Len(sum[k]) \in Nat
  BY <1>1, Zenon DEF ChunkBehind
<1>3. Len(b) \in Nat /\ p + 3 <= Len(b) /\ Len(b) < p + 3 + l
  BY LenProperties
<1>4. u.data = sum[k]
  BY DEF AfterChunks
<1>5. UnchunkRound(b, u) = LineRound(b, u, p, num)
  BY RoundReadsLine
<1> HIDE DEF u, p, num, l
<1>6. asked \in Len(b) - (p + 3) .. l
  <2> DEFINE dlen == Len(u.data)
  <2> HIDE DEF dlen
  <2>1. AskedAt(b, p + 4, dlen, num) = IF dlen + num > Len(b) THEN Len(b) - ((p + 4) - 1) ELSE num
    BY DEF AskedAt
  <2>2. Len(b) - ((p + 4) - 1) \in Len(b) - (p + 3) .. l /\ num \in Len(b) - (p + 3) .. l
    BY <1>2, <1>3
  <2>3. AskedAt(b, p + 4, dlen, num) \in Len(b) - (p + 3) .. l
    BY <2>1, <2>2, Zenon
  <2>4. QED
    BY <2>3 DEF dlen
<1> HIDE DEF asked
<1>7. num # 0
  BY <1>2
<1>8. UnchunkRound(b, u) = [u EXCEPT !.at = p + 4 + asked, !.data = @ \o CopiedAt(b, p + 4, asked)]
  BY <1>5, <1>7, Zenon DEF LineRound, asked
<1> DEFINE e == u.data \o CopiedAt(b, p + 4, asked)
           a == p + 4 + asked
<1>9. UnchunkRound(b, u) = [u EXCEPT !.at = a, !.data = e]
  BY <1>8, Zenon
<1>10. e = sum[k] \o CopiedAt(b, p + 4, asked)
  BY <1>4, Zenon
<1> HIDE DEF e, a
<1>11. u = [at |-> u.at, data |-> u.data, size |-> 0, over |-> FALSE]
  BY DEF u, AfterChunks
<1>12. [u EXCEPT !.at = a, !.data = e] = [at |-> a, data |-> e, size |-> 0, over |-> FALSE]
  <2> DEFINE v == [u EXCEPT !.at = a]
             d == u.data
             o == u.at
             no == FALSE
  <2> HIDE DEF d, o, no
  <2>1. u = [at |-> o, data |-> d, size |-> 0, over |-> no]
    BY <1>11, Zenon DEF d, o, no
  <2>2. v = [at |-> a, data |-> d, size |-> 0, over |-> no]
    BY <2>1
  <2> HIDE DEF v
  <2>3. [v EXCEPT !.data = e] = [at |-> a, data |-> e, size |-> 0, over |-> no]
    BY <2>2
  <2>4. QED
    BY <2>3, Zenon DEF v, no
<1>13. UnchunkRound(b, u) =
         [at |-> p + 4 + asked, data |-> sum[k] \o CopiedAt(b, p + 4, asked),
          size |-> 0, over |-> FALSE]
  BY <1>9, <1>10, <1>12, Zenon DEF a
<1>14. QED
  BY <1>6, <1>13, Zenon DEF u, p, l, TakesTheRest

\* What is copied of a chunk: its bytes that came, and what lay behind.
CopiedFrom(b, c, p, asked) ==
    LET z == CopiedAt(b, p + 4, asked)
    IN  /\ z \in Seq(DataBytes \cup {Garbage}) /\ Len(z) = asked
        /\ \A j \in 1 .. asked : z[j] = IF j <= Len(b) - (p + 3) THEN c[j] ELSE Garbage

(* That is what is copied.                                                  *)
LEMMA CopiedIs ==
    ASSUME NEW t, NEW b \in Seq(Octet), IsCut(b, t), NEW c \in Seq(DataBytes), NEW p \in Nat,
           p + 3 <= Len(b), \A j \in 1 .. Len(c) : t[p + 3 + j] = c[j],
           NEW asked \in Len(b) - (p + 3) .. Len(c)
    PROVE  CopiedFrom(b, c, p, asked)
<1> DEFINE z == CopiedAt(b, p + 4, asked)
           S == DataBytes \cup {Garbage}
           came == Len(b) - (p + 3)
<1>1. Len(b) \in Nat /\ Len(c) \in Nat /\ DOMAIN b = 1 .. Len(b) /\ asked \in Nat
  BY LenProperties
<1>2. z = [j \in 1 .. asked |-> IF p + 4 + j - 1 \in DOMAIN b THEN b[p + 4 + j - 1] ELSE Garbage]
  BY Zenon DEF CopiedAt
<1> HIDE DEF z
<1>3. ASSUME NEW j \in 1 .. asked
      PROVE  z[j] = (IF j <= came THEN c[j] ELSE Garbage) /\ z[j] \in S
  <2>1. z[j] = IF p + 4 + j - 1 \in DOMAIN b THEN b[p + 4 + j - 1] ELSE Garbage
    BY <1>2, Zenon
  <2>2. /\ p + 4 + j - 1 = p + 3 + j /\ j \in 1 .. Len(c)
        /\ p + 3 + j \in DOMAIN b <=> j <= came
    BY <1>1
  <2>3. j <= came => b[p + 3 + j] = t[p + 3 + j]
    BY <1>1, <2>2, Zenon DEF IsCut
  <2>4. c[j] \in DataBytes /\ t[p + 3 + j] = c[j]
    BY <2>2, ElementOfSeq
  <2> HIDE DEF came
  <2>5. QED
    BY <2>1, <2>2, <2>3, <2>4, Zenon
<1>4. z \in [1 .. asked -> S]
  <2>1. z = [j \in 1 .. asked |-> z[j]]
    BY <1>2
  <2> HIDE DEF S
  <2>2. QED
    BY <1>3, <2>1
<1> HIDE DEF S
<1>5. \A w \in [1 .. asked -> S] : w \in Seq(S) /\ Len(w) = asked
  BY <1>1
<1>6. z \in Seq(S) /\ Len(z) = asked
  BY <1>4, <1>5, Zenon
<1>7. QED
  BY <1>3, <1>6, Zenon DEF CopiedFrom, z, S

\* What CutDecodesToBeginning says of a body of n bytes, cut from t, that is decoded to
\* data of this size.
DecodedOf(t, cs, nb, data, extent) ==
    LET body0 == FlattenSeq(cs)
    IN  /\ \E came \in 0 .. Len(data) :
             /\ nb <= came + 5 * (Len(cs) + 1)
             /\ \A k \in DOMAIN data : data[k] = IF k <= came THEN body0[k] ELSE Garbage
        /\ Len(data) <= Len(body0) /\ Len(data) <= extent
        /\ nb >= Len(t) - 2 => data = body0 /\ extent = Len(body0)

(* A body with some of the chunks and nothing of the data of others.        *)
LEMMA EndMissing ==
    ASSUME NEW t \in Seq(Octet), NEW cs \in Transfers, NEW place, NEW sum,
           IsSent(t, cs, place, sum), NEW k \in 0 .. Len(cs), NEW nb \in Nat, nb < place[k] + 3,
           NEW c0 \in Nat, c0 >= AfterChunks(place, sum, k).at
    PROVE  DecodedOf(t, cs, nb, sum[k], c0 - 1)
<1> DEFINE m == Len(cs)
           d == Len(sum[k])
           z == Len(sum[m])
           p == place[k]
           w == Len(t)
<1>1. m \in Nat /\ k \in Nat /\ k <= m /\ w \in Nat /\ m \in 0 .. m
  BY ChunksAre, LenProperties
<1>2. d \in Nat /\ z \in Nat /\ p = d + 5 * k /\ d <= z /\ \A j \in 1 .. d : sum[k][j] = sum[m][j]
  <2>1. SumIs(cs, place, sum, k) /\ SumIs(cs, place, sum, m)
    BY <1>1, SumsAre
  <2>2. QED
    BY <2>1, Zenon DEF SumIs
<1>3. sum[k] \in Seq(DataBytes) /\ sum[m] = FlattenSeq(cs) /\ p + 5 <= w
  BY DEF IsSent
<1>4. nb < p + 3 /\ c0 >= IF k = 0 THEN 1 ELSE p - 1
  BY DEF AfterChunks
<1>5. DOMAIN sum[k] = 1 .. d
  BY <1>3, LenProperties
<1> HIDE DEF m, d, z, p, w
<1>6. d <= c0 - 1
  <2>1. \A a, b \in Nat : a + 5 * b + 5 >= a + 5 /\ (b # 0 => a + 5 * b - 1 >= a + 1)
    OBVIOUS
  <2>2. k = 0 => p = d
    BY <1>2
  <2>3. p = 0 \/ k # 0
    <3>1. k = 0 => p = 0
      <4>1. place[0] = 0
        BY Zenon DEF IsSent
      <4>2. QED
        BY <4>1 DEF p
    <3>2. QED
      BY <3>1
  <2>4. CASE k = 0
    BY <1>2, <1>4, <2>2, <2>3, <2>4
  <2>5. CASE k # 0
    <3>1. p - 1 >= d + 1
      BY <1>1, <1>2, <2>1, <2>5
    <3>2. c0 >= p - 1
      BY <1>4, <2>5
    <3>3. QED
      BY <1>2, <3>1, <3>2
  <2>6. QED
    BY <2>4, <2>5
<1>7. nb <= d + 5 * (m + 1)
  <2>1. d + 5 * k + 3 <= d + 5 * (m + 1)
    BY <1>1, <1>2
  <2>2. QED
    BY <1>1, <1>2, <1>4, <2>1
<1>8. ~(nb >= w - 2)
  BY <1>1, <1>2, <1>3, <1>4
<1>9. d \in 0 .. d /\ \A j \in 1 .. d : j <= d
  BY <1>2
<1>10. \A j \in DOMAIN sum[k] : sum[k][j] = IF j <= d THEN FlattenSeq(cs)[j] ELSE Garbage
  BY <1>2, <1>3, <1>5, <1>9, Zenon
<1>11. d <= Len(FlattenSeq(cs))
  BY <1>2, <1>3, Zenon DEF z
<1>12. d = Len(sum[k]) /\ m = Len(cs) /\ w = Len(t)
  BY DEF d, m, w
<1>13. QED
  BY <1>6, <1>7, <1>8, <1>9, <1>10, <1>11, <1>12, Zenon DEF DecodedOf

(* A body that ends in the data of a chunk.                                 *)
LEMMA ChunkMissing ==
    ASSUME NEW t \in Seq(Octet), NEW cs \in Transfers, NEW place, NEW sum,
           IsSent(t, cs, place, sum), NEW k \in 0 .. Len(cs), k # Len(cs),
           NEW b \in Seq(Octet), IsCut(b, t), place[k] + 3 <= Len(b),
           Len(b) < place[k] + 3 + Len(cs[k + 1]),
           NEW asked \in Len(b) - (place[k] + 3) .. Len(cs[k + 1])
    PROVE  DecodedOf(t, cs, Len(b), sum[k] \o CopiedAt(b, place[k] + 4, asked),
                     place[k] + 3 + asked)
<1> DEFINE m == Len(cs)
           d == Len(sum[k])
           p == place[k]
           nb == Len(b)
           w == Len(t)
           c == cs[k + 1]
           q == place[k + 1]
           copied == CopiedAt(b, p + 4, asked)
           data == sum[k] \o copied
           body0 == FlattenSeq(cs)
           came == d + (nb - (p + 3))
           S == DataBytes \cup {Garbage}
<1>1. /\ m \in Nat /\ k \in Nat /\ k <= m /\ w \in Nat /\ nb \in Nat /\ m \in 0 .. m
      /\ k + 1 \in 0 .. m
  BY ChunksAre, LenProperties
<1>2. d \in Nat /\ p = d + 5 * k
  <2>1. SumIs(cs, place, sum, k)
    BY SumsAre
  <2>2. QED
    BY <2>1, Zenon DEF SumIs
<1>3. ChunkBehind(t, cs, place, sum, k)
  BY NextChunk
<1>4. /\ c \in Seq(DataBytes) /\ Len(c) \in Nat \ {0} /\ sum[k] \in Seq(DataBytes)
      /\ sum[k + 1] = sum[k] \o c /\ p \in Nat /\ q = p + Len(c) + 5 /\ q + 5 <= w
      /\ Len(sum[k] \o c) = d + Len(c) /\ \A j \in 1 .. Len(c) : t[p + 3 + j] = c[j]
  BY <1>3, Zenon DEF ChunkBehind
<1>5. sum[m] = body0
  BY Zenon DEF IsSent
<1>6. /\ Len(sum[k + 1]) <= Len(body0) /\ Len(body0) \in Nat
      /\ \A j \in 1 .. Len(sum[k + 1]) : sum[k + 1][j] = body0[j]
  <2>1. SumIs(cs, place, sum, k + 1) /\ SumIs(cs, place, sum, m)
    BY <1>1, SumsAre
  <2>2. QED
    BY <1>5, <2>1, Zenon DEF SumIs
<1>7. p + 3 <= nb /\ nb < p + 3 + Len(c) /\ asked \in nb - (p + 3) .. Len(c)
  OBVIOUS
<1> HIDE DEF m, d, p, nb, w, c, q, body0
<1>8. /\ copied \in Seq(S) /\ Len(copied) = asked /\ asked \in Nat
      /\ \A j \in 1 .. asked : copied[j] = IF j <= nb - (p + 3) THEN c[j] ELSE Garbage
  <2>1. asked \in Nat
    BY <1>1, <1>4, <1>7
  <2>2. CopiedFrom(b, c, p, asked)
    <3>1. c \in Seq(DataBytes) /\ p \in Nat /\ \A j \in 1 .. Len(c) : t[p + 3 + j] = c[j]
      BY <1>4, Zenon
    <3>2. p + 3 <= Len(b) /\ asked \in Len(b) - (p + 3) .. Len(c)
      BY <1>7, Zenon DEF nb
    <3>3. QED
      BY <3>1, <3>2, CopiedIs
  <2>3. QED
    BY <2>1, <2>2, Zenon DEF CopiedFrom, nb
<1>9. sum[k] \in Seq(S)
  <2>1. DataBytes \subseteq S
    BY Zenon
  <2> HIDE DEF S
  <2>2. \A A : \A v \in Seq(A) : A \subseteq S => v \in Seq(S)
    OBVIOUS
  <2>3. QED
    BY <1>4, <2>1, <2>2, Zenon
<1> HIDE DEF copied, S
<1>10. /\ Len(data) = d + asked
       /\ \A j \in 1 .. d : data[j] = sum[k][j]
       /\ \A j \in 1 .. asked : data[d + j] = copied[j]
       /\ DOMAIN data = 1 .. d + asked
  <2>1. /\ Len(sum[k] \o copied) = Len(sum[k]) + Len(copied)
        /\ \A j \in 1 .. Len(sum[k]) : (sum[k] \o copied)[j] = sum[k][j]
        /\ \A j \in 1 .. Len(copied) : (sum[k] \o copied)[Len(sum[k]) + j] = copied[j]
        /\ sum[k] \o copied \in Seq(S)
    <3>1. copied \in Seq(S)
      BY <1>8
    <3>2. QED
      BY <1>9, <3>1, ConcatProperties
  <2>2. DOMAIN (sum[k] \o copied) = 1 .. Len(sum[k] \o copied)
    BY <2>1, LenProperties
  <2>3. QED
    BY <1>8, <2>1, <2>2, Zenon DEF d
<1>11. /\ \A j \in 1 .. d : sum[k + 1][j] = sum[k][j]
       /\ \A j \in 1 .. Len(c) : sum[k + 1][d + j] = c[j]
       /\ Len(sum[k + 1]) = d + Len(c)
  <2>1. /\ \A j \in 1 .. Len(sum[k]) : (sum[k] \o c)[j] = sum[k][j]
        /\ \A j \in 1 .. Len(c) : (sum[k] \o c)[Len(sum[k]) + j] = c[j]
    BY <1>4, ConcatProperties
  <2>2. QED
    BY <1>4, <2>1, Zenon DEF d
<1> DEFINE e == nb - (p + 3)
           l == Len(c)
<1>e. d \in Nat /\ l \in Nat /\ e \in Nat /\ asked \in Nat /\ e <= asked /\ asked <= l
  <2>1. l \in Nat /\ nb \in Nat /\ p \in Nat /\ d \in Nat
    BY <1>1, <1>2, <1>4, Zenon
  <2>2. p + 3 <= nb /\ asked \in nb - (p + 3) .. l
    BY <1>7, Zenon
  <2> HIDE DEF l
  <2>3. QED
    BY <2>1, <2>2
<1>c. came = d + e
  OBVIOUS
<1> HIDE DEF e, l, came, data
<1>12. ASSUME NEW j \in 1 .. d + asked
       PROVE  data[j] = IF j <= came THEN body0[j] ELSE Garbage
  <2>1. CASE j <= d
    <3>0. j \in 1 .. d /\ j \in 1 .. d + l /\ j <= came
      BY <1>e, <1>c, <2>1
    <3>1. j \in 1 .. d /\ j \in 1 .. d + Len(c) /\ j <= came
      BY <3>0, Zenon DEF l
    <3>2. QED
      BY <1>6, <1>10, <1>11, <3>1, Zenon
  <2>2. CASE ~(j <= d)
    <3> DEFINE ix == j - d
    <3>0. ix \in 1 .. asked /\ j = d + ix /\ ix \in 1 .. l /\ j \in 1 .. d + l
      BY <1>e, <2>2
    <3>1. ix \in 1 .. asked /\ j = d + ix /\ ix \in 1 .. Len(c) /\ j \in 1 .. d + Len(c)
      BY <3>0, Zenon DEF l
    <3>2. j <= came <=> ix <= nb - (p + 3)
      <4>1. j <= came <=> ix <= e
        BY <1>e, <1>c, <3>0
      <4>2. QED
        BY <4>1, Zenon DEF e
    <3> HIDE DEF ix
    <3>3. data[j] = IF ix <= nb - (p + 3) THEN c[ix] ELSE Garbage
      BY <1>8, <1>10, <3>1, Zenon
    <3>4. body0[j] = c[ix]
      BY <1>6, <1>11, <3>1, Zenon
    <3>5. QED
      BY <3>2, <3>3, <3>4, Zenon
  <2>3. QED
    BY <2>1, <2>2
<1>p. p \in Nat
  BY <1>4, Zenon
<1>13. came \in 0 .. d + asked /\ nb <= came + 5 * (m + 1)
  <2>1. came \in 0 .. d + asked
    BY <1>e, <1>c
  <2>2. e = nb - (p + 3)
    BY DEF e
  <2>3. k \in Nat /\ m \in Nat /\ k <= m /\ nb \in Nat
    BY <1>1, Zenon
  <2>4. p = d + 5 * k /\ d \in Nat /\ e \in Nat
    BY <1>2, <1>e, Zenon
  <2>5. nb <= (d + e) + 5 * (m + 1)
    BY <2>2, <2>3, <2>4
  <2>6. QED
    BY <1>c, <2>1, <2>5, Zenon
<1>14. d + asked <= Len(body0) /\ d + asked <= p + 3 + asked
  <2>1. d + l <= Len(body0) /\ Len(body0) \in Nat
    BY <1>6, <1>11, Zenon DEF l
  <2>2. d <= p
    BY <1>1, <1>2
  <2> DEFINE z == Len(body0)
  <2> HIDE DEF z
  <2>3. d + l <= z /\ z \in Nat
    BY <2>1 DEF z
  <2>4. d + asked <= z /\ d + asked <= p + 3 + asked
    BY <1>p, <1>e, <2>2, <2>3
  <2>5. QED
    BY <2>4 DEF z
<1>15. ~(nb >= w - 2)
  <2>1. q = p + l + 5 /\ q + 5 <= w
    BY <1>4, Zenon DEF l
  <2>2. nb < p + 3 + l
    BY <1>7, Zenon DEF l
  <2>3. QED
    BY <1>1, <1>p, <1>e, <2>1, <2>2
<1>16. /\ \E g \in 0 .. Len(data) :
            /\ nb <= g + 5 * (m + 1)
            /\ \A j \in DOMAIN data : data[j] = IF j <= g THEN body0[j] ELSE Garbage
       /\ Len(data) <= Len(body0) /\ Len(data) <= p + 3 + asked
  BY <1>10, <1>12, <1>13, <1>14, Zenon
<1>17. DecodedOf(t, cs, nb, data, p + 3 + asked)
  BY <1>15, <1>16, Zenon DEF DecodedOf, m, w, body0
<1>18. QED
  BY <1>17, Zenon DEF nb, p, copied, data

(* The chunks whose data a body has.                                        *)
LEMMA ChunksThatCame ==
    ASSUME NEW t \in Seq(Octet), NEW cs \in Transfers, NEW place, NEW sum,
           IsSent(t, cs, place, sum), NEW nb \in Nat \ {0}
    PROVE  \E k \in 0 .. Len(cs) :
             /\ \A j \in 0 .. k - 1 : place[j] + 3 + Len(cs[j + 1]) <= nb
             /\ k # Len(cs) => nb < place[k] + 3 + Len(cs[k + 1])
             /\ k + 1 <= nb
<1> DEFINE m == Len(cs)
           Came(j) == place[j] + 3 + Len(cs[j + 1]) <= nb
           S == {k \in Nat : k <= m => \A j \in 0 .. k - 1 : Came(j)}
<1>1. m \in Nat
  BY ChunksAre
<1>2. ASSUME NEW j \in 0 .. m, j # m
      PROVE  /\ place[j] \in Nat /\ j <= place[j] /\ Len(cs[j + 1]) \in Nat \ {0}
             /\ ~Came(j) => nb < place[j] + 3 + Len(cs[j + 1])
  <2>1. ChunkBehind(t, cs, place, sum, j)
    BY <1>2, NextChunk
  <2> DEFINE p == place[j]
             l == Len(cs[j + 1])
  <2>2. p \in Nat /\ j <= p /\ l \in Nat \ {0}
    BY <2>1, Zenon DEF ChunkBehind
  <2>3. ~(p + 3 + l <= nb) => nb < p + 3 + l
    <3> HIDE DEF p, l
    <3>1. QED
      BY <2>2
  <2>4. QED
    BY <2>2, <2>3
<1>3. \E k \in 0 .. m : /\ \A j \in 0 .. k - 1 : Came(j)
                        /\ k = m \/ ~Came(k)
  <2> HIDE DEF Came
  <2>1. SUFFICES ASSUME \A k \in 0 .. m :
                          (\A j \in 0 .. k - 1 : Came(j)) => k # m /\ Came(k)
                 PROVE  FALSE
    OBVIOUS
  <2>2. 0 \in S
    OBVIOUS
  <2>3. ASSUME NEW k \in Nat, k \in S PROVE k + 1 \in S
    <3>1. SUFFICES ASSUME k + 1 <= m, NEW j \in 0 .. (k + 1) - 1 PROVE Came(j)
      OBVIOUS
    <3>2. k \in 0 .. m /\ \A ix \in 0 .. k - 1 : Came(ix)
      BY <1>1, <2>3, <3>1
    <3>3. Came(k)
      BY <2>1, <3>2, Zenon
    <3>4. j = k \/ j \in 0 .. k - 1
      BY <3>1
    <3>5. QED
      BY <3>2, <3>3, <3>4
  <2>4. \A k \in Nat : k \in S
    <3> HIDE DEF S
    <3>1. QED
      BY <2>2, <2>3, AllNumbers
  <2>5. m \in 0 .. m /\ \A j \in 0 .. m - 1 : Came(j)
    BY <1>1, <2>4
  <2>6. QED
    BY <2>1, <2>5, Zenon
<1>4. PICK k \in 0 .. m : /\ \A j \in 0 .. k - 1 : Came(j)
                          /\ k = m \/ ~Came(k)
  BY <1>3
<1>5. k # m => nb < place[k] + 3 + Len(cs[k + 1])
  BY <1>2, <1>4, Zenon
<1>6. k + 1 <= nb
  <2>1. CASE k = 0
    BY <2>1
  <2>2. CASE k # 0
    <3> DEFINE ix == k - 1
    <3>1. ix \in 0 .. m /\ ix # m /\ ix \in 0 .. k - 1 /\ ix + 1 = k
      BY <1>1, <2>2
    <3> HIDE DEF ix
    <3>2. Came(ix)
      BY <1>4, <3>1, Zenon
    <3>3. place[ix] \in Nat /\ ix <= place[ix] /\ Len(cs[ix + 1]) \in Nat \ {0}
      BY <1>2, <3>1
    <3> DEFINE p == place[ix]
               l == Len(cs[ix + 1])
    <3>4. p + 3 + l <= nb /\ p \in Nat /\ ix <= p /\ l \in Nat \ {0}
      BY <3>2, <3>3, Zenon
    <3> HIDE DEF p, l
    <3>5. QED
      BY <1>1, <3>1, <3>4
  <2>3. QED
    BY <2>1, <2>2
<1>7. QED
  BY <1>4, <1>5, <1>6

(* What a decoding ends with.                                               *)
LEMMA EndedIs ==
    ASSUME NEW a, NEW d, NEW s, NEW c0, NEW u,
           u = [at |-> a, data |-> d, size |-> s, over |-> FALSE]
    PROVE  Ended(u, c0).data = d /\ Ended(u, c0).size = c0 - 1 /\ Ended(u, c0).over
<1> DEFINE no == FALSE
           yes == TRUE
           v == [u EXCEPT !.over = yes]
           z == c0 - 1
<1>1. Ended(u, c0) = [v EXCEPT !.size = z]
  <2>1. [u EXCEPT !.over = TRUE, !.size = c0 - 1] = [v EXCEPT !.size = z]
    BY Zenon
  <2>2. QED
    BY <2>1, Zenon DEF Ended
<1>2. u = [at |-> a, data |-> d, size |-> s, over |-> no]
  BY Zenon
<1>3. yes = TRUE
  OBVIOUS
<1> HIDE DEF no, yes, z
<1>4. v = [at |-> a, data |-> d, size |-> s, over |-> yes]
  BY <1>2
<1> HIDE DEF v
<1>5. [v EXCEPT !.size = z] = [at |-> a, data |-> d, size |-> z, over |-> yes]
  BY <1>4
<1>6. Ended(u, c0) = [at |-> a, data |-> d, size |-> z, over |-> yes]
  BY <1>1, <1>5, Zenon
<1>7. Ended(u, c0).data = d /\ Ended(u, c0).size = z /\ Ended(u, c0).over = yes
  BY <1>6
<1>8. QED
  BY <1>3, <1>7, Zenon DEF z

(* The same of the fields of a decoding.                                    *)
LEMMA DecodedFields ==
    ASSUME NEW t, NEW cs, NEW nb, NEW data, NEW extent, NEW w, w.data = data, w.size = extent,
           DecodedOf(t, cs, nb, data, extent)
    PROVE  DecodedOf(t, cs, nb, w.data, w.size)
BY Zenon

(* However much of a transfer was kept, it is decoded to what came of its   *)
(* chunks.                                                                  *)
LEMMA CutIsDecoded ==
    ASSUME NEW cs \in Transfers, NEW b \in Seq(Octet), IsCut(b, Coded(cs)), b # <<>>
    PROVE  DecodedOf(Coded(cs), cs, Len(b), Unchunk(b).data, Unchunk(b).size)
<1> DEFINE t == Coded(cs)
           m == Len(cs)
           nb == Len(b)
           Says(r) == DecodedOf(t, cs, nb, r.data, r.size)
<1>1. PICK place, sum : IsSent(t, cs, place, sum)
  BY TransferPlaces
<1>2. t \in Seq(Octet) /\ Len(t) \in Nat /\ m \in Nat /\ nb \in Nat \ {0}
  BY TransferPlaces, LenProperties, ChunksAre
<1>3. IsCut(b, t)
  OBVIOUS
<1> HIDE DEF t
<1>4. PICK k \in 0 .. m : /\ \A j \in 0 .. k - 1 : place[j] + 3 + Len(cs[j + 1]) <= nb
                          /\ k # m => nb < place[k] + 3 + Len(cs[k + 1])
                          /\ k + 1 <= nb
  BY <1>1, <1>2, ChunksThatCame
<1> DEFINE u == AfterChunks(place, sum, k)
           r == UnchunkRound(b, u)
<1>5. RoundOf(b, r).over => Unchunk(b) = RoundOf(b, r)
  BY <1>1, <1>2, <1>3, <1>4, RoundsFromChunks
<1>6. u.data = sum[k] /\ place[k] \in Nat
  BY <1>1, <1>2 DEF AfterChunks, IsSent
<1>7. CASE nb < place[k] + 3
  <2>1. PICK c0 \in Nat : c0 >= u.at /\ r = Ended(u, c0)
    BY <1>1, <1>2, <1>3, <1>7, RoundAtEnd
  <2>2. DecodedOf(t, cs, nb, sum[k], c0 - 1)
    BY <1>1, <1>2, <1>7, <2>1, EndMissing
  <2> HIDE DEF r
  <2>3. r.over /\ r.data = sum[k] /\ r.size = c0 - 1
    <3>1. u = [at |-> u.at, data |-> sum[k], size |-> 0, over |-> FALSE]
      BY DEF AfterChunks
    <3> HIDE DEF u
    <3>2. Ended(u, c0).data = sum[k] /\ Ended(u, c0).size = c0 - 1 /\ Ended(u, c0).over
      BY <3>1, EndedIs
    <3>3. QED
      BY <2>1, <3>2, Zenon
  <2> HIDE DEF u
  <2>4. RoundOf(b, r) = r
    BY <2>3, Zenon DEF RoundOf
  <2>5. Unchunk(b) = r
    BY <1>5, <2>3, <2>4, Zenon
  <2>6. Unchunk(b).data = sum[k] /\ Unchunk(b).size = c0 - 1
    BY <2>3, <2>5, Zenon
  <2>7. DecodedOf(t, cs, nb, Unchunk(b).data, Unchunk(b).size)
    <3> DEFINE w == Unchunk(b)
               z == c0 - 1
    <3>1. w.data = sum[k] /\ w.size = z /\ DecodedOf(t, cs, nb, sum[k], z)
      BY <2>2, <2>6, Zenon
    <3> HIDE DEF w, z
    <3>2. DecodedOf(t, cs, nb, w.data, w.size)
      BY <3>1, DecodedFields
    <3>3. QED
      BY <3>2 DEF w
  <2>8. QED
    BY <2>7, Zenon DEF t
<1>8. CASE nb >= place[k] + 3 /\ k = m
  <2>1. Unchunk(b) = AtLastChunk(place, sum, m)
    BY <1>1, <1>2, <1>3, <1>6, <1>8, WholeIsDecoded
  <2>2. Unchunk(b).data = sum[m] /\ Unchunk(b).size = Len(sum[m])
    BY <2>1 DEF AtLastChunk, AfterChunks
  <2>3. SumIs(cs, place, sum, m)
    BY <1>1, <1>2, SumsAre
  <2>4. /\ sum[m] = FlattenSeq(cs) /\ Len(t) = place[m] + 5
        /\ Len(sum[m]) \in Nat /\ place[m] = Len(sum[m]) + 5 * m
    BY <1>1, <2>3, Zenon DEF IsSent, SumIs
  <2>5. sum[m] \in Seq(DataBytes) /\ nb <= Len(t)
    <3>1. sum \in [0 .. Len(cs) -> Seq(DataBytes)]
      BY <1>1, Zenon DEF IsSent
    <3>2. sum[m] \in Seq(DataBytes)
      BY <1>2, <3>1
    <3>3. QED
      BY <1>3, <3>2, Zenon DEF IsCut
  <2> DEFINE d == Len(sum[m])
  <2>6. d \in 0 .. d /\ nb <= d + 5 * (m + 1) /\ d <= d
    <3>1. d \in Nat /\ nb <= d + 5 * m + 5
      BY <1>2, <2>4, <2>5
    <3> HIDE DEF d
    <3>2. QED
      BY <1>2, <3>1
  <2>7. DOMAIN sum[m] = 1 .. d /\ \A j \in 1 .. d : j <= d
    BY <2>4, <2>5, LenProperties
  <2>8. \A j \in DOMAIN sum[m] : sum[m][j] = IF j <= d THEN FlattenSeq(cs)[j] ELSE Garbage
    BY <2>4, <2>7, Zenon
  <2>9. DecodedOf(t, cs, nb, sum[m], d)
    BY <2>4, <2>6, <2>8, Zenon DEF DecodedOf
  <2>10. DecodedOf(t, cs, nb, Unchunk(b).data, Unchunk(b).size)
    <3> DEFINE w == Unchunk(b)
    <3>1. w.data = sum[m] /\ w.size = d /\ DecodedOf(t, cs, nb, sum[m], d)
      BY <2>2, <2>9, Zenon
    <3> HIDE DEF w, d
    <3>2. DecodedOf(t, cs, nb, w.data, w.size)
      BY <3>1, DecodedFields
    <3>3. QED
      BY <3>2 DEF w
  <2>11. QED
    BY <2>10, Zenon DEF t
<1>9. CASE nb >= place[k] + 3 /\ k # m
  <2> DEFINE p == place[k]
             c == cs[k + 1]
  <2>1. p + 3 <= nb /\ nb < p + 3 + Len(c)
    BY <1>2, <1>4, <1>6, <1>9
  <2>2. PICK asked \in nb - (p + 3) .. Len(c) :
          r = [at |-> p + 4 + asked, data |-> sum[k] \o CopiedAt(b, p + 4, asked),
               size |-> 0, over |-> FALSE]
    <3>1. place[k] + 3 <= Len(b) /\ Len(b) < place[k] + 3 + Len(cs[k + 1])
      BY <1>4, <1>6, <1>9
    <3>2. TakesTheRest(b, cs, place, sum, k)
      BY <1>1, <1>2, <1>3, <1>9, <3>1, RoundIsCut
    <3>3. QED
      BY <3>2, Zenon DEF TakesTheRest
  <2> DEFINE data == sum[k] \o CopiedAt(b, p + 4, asked)
             at == p + 4 + asked
  <2>3. DecodedOf(t, cs, nb, data, p + 3 + asked)
    BY <1>1, <1>2, <1>3, <1>9, <2>1, ChunkMissing
  <2>4. at \in Nat \ {0} /\ at >= nb /\ at - 1 = p + 3 + asked /\ at <= at
    <3>1. ChunkBehind(t, cs, place, sum, k)
      BY <1>1, <1>9, NextChunk
    <3>2. Len(c) \in Nat \ {0}
      BY <3>1, Zenon DEF ChunkBehind
    <3> HIDE DEF p, c
    <3>3. p \in Nat
      BY <1>6 DEF p
    <3>4. QED
      BY <1>2, <2>1, <2>2, <3>2, <3>3
  <2> HIDE DEF data, at, r
  <2>5. r = [at |-> at, data |-> data, size |-> 0, over |-> FALSE]
    BY <2>2, Zenon DEF data, at
  <2>6. r.at = at /\ r.data = data /\ r.over = FALSE
    BY <2>5
  <2>7. SizeAt(b, at) = at
    <3>1. \A ix \in at .. at - 1 : ~IsDigit(b, ix)
      BY <2>4
    <3>2. QED
      BY <1>2, <2>4, <3>1, SizeAtLast
  <2>8. NoLine(b, at) /\ at \in Nat
    BY <1>2, <2>4 DEF NoLine
  <2>9. UnchunkRound(b, r) = Ended(r, at)
    BY <2>6, <2>7, <2>8, RoundEnds
  <2>10. RoundOf(b, r) = Ended(r, at)
    BY <2>6, <2>9, Zenon DEF RoundOf
  <2>11. Ended(r, at).data = data /\ Ended(r, at).size = at - 1 /\ Ended(r, at).over
    BY <2>5, EndedIs
  <2>12. RoundOf(b, r).over
    BY <2>10, <2>11, Zenon
  <2>13. Unchunk(b) = Ended(r, at)
    BY <1>5, <2>10, <2>12, Zenon DEF r
  <2>14. Unchunk(b).data = data /\ Unchunk(b).size = p + 3 + asked
    BY <2>4, <2>11, <2>13, Zenon
  <2>15. DecodedOf(t, cs, nb, Unchunk(b).data, Unchunk(b).size)
    <3> DEFINE w == Unchunk(b)
               z == p + 3 + asked
    <3>1. w.data = data /\ w.size = z /\ DecodedOf(t, cs, nb, data, z)
      BY <2>3, <2>14, Zenon DEF data
    <3> HIDE DEF w, z
    <3>2. DecodedOf(t, cs, nb, w.data, w.size)
      BY <3>1, DecodedFields
    <3>3. QED
      BY <3>2 DEF w
  <2>16. QED
    BY <2>15, Zenon DEF t
<1>10. nb < place[k] + 3 \/ nb >= place[k] + 3
  BY <1>2, <1>6
<1>11. QED
  BY <1>7, <1>8, <1>9, <1>10, Zenon DEF t

\* The invariant: beside what it says of the variables, a reader that has read nothing
\* yet is at the beginning.
ChunkedInv ==
    /\ chunks \in Transfers /\ buf \in Seq(Octet)
    /\ reader = "first" => pos = 0
    /\ ChunkedTypeOK /\ KeptWithoutGap

(* Pieces of what is sent.                                                  *)
LEMMA PieceIs ==
    ASSUME NEW t \in Seq(Octet), NEW p \in 0 .. Len(t), NEW q \in p .. Len(t)
    PROVE  /\ SubSeq(t, p + 1, q) \in Seq(Octet) /\ Len(SubSeq(t, p + 1, q)) = q - p
           /\ SubSeq(t, 1, p) \o SubSeq(t, p + 1, q) = SubSeq(t, 1, q)
<1>1. Len(t) \in Nat
  BY LenProperties
<1>2. \A j \in p + 1 .. q : t[j] \in Octet
  <2>1. SUFFICES ASSUME NEW j \in p + 1 .. q PROVE t[j] \in Octet
    OBVIOUS
  <2>2. j \in 1 .. Len(t)
    BY <1>1
  <2>3. QED
    BY <2>2, ElementOfSeq
<1>3. /\ SubSeq(t, p + 1, q) \in Seq(Octet)
      /\ Len(SubSeq(t, p + 1, q)) = IF p + 1 <= q THEN q - (p + 1) + 1 ELSE 0
  <2> DEFINE a == p + 1
  <2>1. a \in Int /\ q \in Int /\ \A j \in a .. q : t[j] \in Octet
    BY <1>1, <1>2
  <2> HIDE DEF a
  <2>2. SubSeq(t, a, q) \in Seq(Octet) /\ Len(SubSeq(t, a, q)) = IF a <= q THEN q - a + 1 ELSE 0
    BY <2>1, SubSeqProperties
  <2>3. QED
    BY <2>2 DEF a
<1>4. (IF p + 1 <= q THEN q - (p + 1) + 1 ELSE 0) = q - p
  BY <1>1
<1>5. SubSeq(t, 1, p) \o SubSeq(t, p + 1, q) = SubSeq(t, 1, q)
  <2>1. 1 \in 1 .. Len(t) + 1 /\ p \in 1 - 1 .. Len(t) /\ q \in p .. Len(t)
    BY <1>1
  <2>2. QED
    BY <2>1, ConcatAdjacentSubSeq
<1>6. QED
  BY <1>3, <1>4, <1>5

(* What came with the header is the beginning of the body.                  *)
LEMMA ChunkedInitInv == ChunkedInit => ChunkedInv
<1>1. SUFFICES ASSUME ChunkedInit PROVE ChunkedInv
  OBVIOUS
<1>2. Transfer \in Seq(Octet) /\ Len(Transfer) \in Nat
  BY <1>1, TransferPlaces, LenProperties DEF Transfer, ChunkedInit
<1>3. PICK g \in 0 .. Len(Transfer) :
        pos = g /\ buf = SubSeq(Transfer, 1, g) /\ kept = buf /\ g <= ReadSize
  <2>1. PICK g \in 0 .. Least(ReadSize - 1, Len(Transfer)) :
          pos = g /\ buf = SubSeq(Transfer, 1, g) /\ kept = buf
    BY <1>1, Zenon DEF ChunkedInit
  <2>2. ReadSize \in Nat
    BY ChunkedAssumption
  <2>3. g \in 0 .. Len(Transfer) /\ g <= ReadSize
    BY <1>2, <2>2 DEF Least
  <2>4. QED
    BY <2>1, <2>3, Zenon
<1>4. buf \in Seq(Octet) /\ Len(buf) = pos
  <2>1. 0 \in 0 .. Len(Transfer) /\ g \in 0 .. Len(Transfer)
    BY <1>2
  <2>2. SubSeq(Transfer, 0 + 1, g) \in Seq(Octet) /\ Len(SubSeq(Transfer, 0 + 1, g)) = g - 0
    BY <1>2, <2>1, PieceIs
  <2>3. 0 + 1 = 1 /\ g - 0 = g
    BY <1>2
  <2>4. QED
    BY <1>3, <2>2, <2>3
<1>5. KeptWithoutGap
  BY <1>3 DEF KeptWithoutGap
<1>6. ChunkedTypeOK
  <2>1. len \in 0 .. ReadSize
    BY <1>1, ChunkedAssumption DEF ChunkedInit
  <2>2. reader \in {"first", "scan", "read", "end"}
    BY <1>1 DEF ChunkedInit
  <2>3. QED
    BY <1>3, <1>4, <2>1, <2>2 DEF ChunkedTypeOK
<1>7. reader = "first" => pos = 0
  BY <1>1 DEF ChunkedInit
<1>8. QED
  BY <1>1, <1>4, <1>5, <1>6, <1>7 DEF ChunkedInv, ChunkedInit

(* The search changes what is asked for.                                    *)
LEMMA ScanKeeps == ChunkedInv /\ Scan => ChunkedInv'
<1>1. SUFFICES ASSUME ChunkedInv, Scan PROVE ChunkedInv'
  OBVIOUS
<1>2. chunks' = chunks /\ pos' = pos /\ buf' = buf /\ kept' = kept /\ keep' = keep
  BY <1>1 DEF Scan
<1>3. len' = Least(ScanAll(buf, len).len, ReadSize) /\ reader' \in {"end", "read"}
  BY <1>1 DEF Scan
<1>4. len' \in 0 .. ReadSize
  <2>1. buf \in Seq(Octet) /\ len \in Nat
    BY <1>1, ChunkedAssumption DEF ChunkedInv, ChunkedTypeOK
  <2>2. ScanAll(buf, len).len \in Nat
    BY <2>1, ScanAllIs
  <2>3. \A v, r \in Nat : Least(v, r) \in 0 .. r
    BY DEF Least
  <2>4. ReadSize \in Nat
    BY ChunkedAssumption
  <2>5. QED
    BY <1>3, <2>2, <2>3, <2>4, Zenon
<1>5. Transfer' = Transfer
  BY <1>2 DEF Transfer
<1>6. QED
  BY <1>1, <1>2, <1>3, <1>4, <1>5 DEF ChunkedInv, ChunkedTypeOK, KeptWithoutGap

(* A piece is the next one, and it is kept behind the others.               *)
LEMMA ReadPieceKeeps == ChunkedInv /\ ReadPiece => ChunkedInv'
<1>1. SUFFICES ASSUME ChunkedInv, ReadPiece PROVE ChunkedInv'
  OBVIOUS
<1>2. /\ chunks' = chunks /\ len' = len /\ reader' = "scan" /\ keep' = keep
      /\ Transfer' = Transfer
  BY <1>1 DEF ReadPiece, Transfer
<1>3. /\ Transfer \in Seq(Octet) /\ Len(Transfer) \in Nat /\ pos \in 0 .. Len(Transfer)
      /\ len \in 0 .. ReadSize /\ ReadSize \in Nat
  <2>1. Transfer \in Seq(Octet)
    BY <1>1, TransferPlaces DEF Transfer, ChunkedInv
  <2>2. QED
    BY <1>1, <2>1, LenProperties, ChunkedAssumption DEF ChunkedInv, ChunkedTypeOK
<1>4. PICK many \in 0 .. Least(len, Len(Transfer) - pos) :
        buf' = SubSeq(Transfer, pos + 1, pos + many) /\ pos' = pos + many
  BY <1>1 DEF ReadPiece
<1>5. many \in Nat /\ many <= len /\ pos + many \in pos .. Len(Transfer)
  BY <1>3, <1>4 DEF Least
<1>6. /\ buf' \in Seq(Octet) /\ Len(buf') = many
      /\ SubSeq(Transfer, 1, pos) \o buf' = SubSeq(Transfer, 1, pos')
  <2> DEFINE q == pos + many
  <2>1. q \in pos .. Len(Transfer) /\ q - pos = many
    BY <1>3, <1>5
  <2> HIDE DEF q
  <2>2. /\ SubSeq(Transfer, pos + 1, q) \in Seq(Octet)
        /\ Len(SubSeq(Transfer, pos + 1, q)) = q - pos
        /\ SubSeq(Transfer, 1, pos) \o SubSeq(Transfer, pos + 1, q) = SubSeq(Transfer, 1, q)
    BY <1>3, <2>1, PieceIs
  <2>3. QED
    BY <1>4, <2>1, <2>2 DEF q
<1>7. keep /\ pos' < BodyLimit => kept' = SubSeq(Transfer, 1, pos')
  <2>1. SUFFICES ASSUME keep, pos' < BodyLimit PROVE kept' = SubSeq(Transfer, 1, pos')
    OBVIOUS
  <2>2. CASE reader = "first"
    <3>1. pos = 0 /\ kept' = buf'
      BY <1>1, <2>2 DEF ReadPiece, ChunkedInv
    <3>2. pos + 1 = 1
      BY <3>1
    <3>3. QED
      BY <1>4, <3>1, <3>2
  <2>3. CASE reader # "first"
    <3>1. kept' = Appended(kept, buf')
      BY <1>1, <2>1, <2>3, Zenon DEF ReadPiece
    <3>2. pos < BodyLimit
      BY <1>3, <1>4, <1>5, <2>1, ChunkedAssumption
    <3>3. kept = SubSeq(Transfer, 1, pos)
      BY <1>1, <2>1, <3>2 DEF ChunkedInv, KeptWithoutGap
    <3>4. Len(SubSeq(Transfer, 1, pos)) = pos
      <4>1. 0 \in 0 .. Len(Transfer) /\ pos \in 0 .. Len(Transfer)
        BY <1>3
      <4>2. Len(SubSeq(Transfer, 0 + 1, pos)) = pos - 0
        BY <1>3, <4>1, PieceIs
      <4>3. 0 + 1 = 1 /\ pos - 0 = pos
        BY <1>3
      <4>4. QED
        BY <4>2, <4>3
    <3>5. Len(kept) + Len(buf') < BodyLimit
      BY <1>4, <1>6, <2>1, <3>3, <3>4
    <3>6. kept' = kept \o buf'
      BY <3>1, <3>5, Zenon DEF Appended
    <3>7. QED
      BY <1>6, <3>3, <3>6
  <2>4. QED
    BY <2>2, <2>3
<1>8. KeptWithoutGap'
  BY <1>2, <1>7 DEF KeptWithoutGap
<1>9. ChunkedTypeOK'
  <2>1. pos' \in 0 .. Len(Transfer)
    BY <1>3, <1>4, <1>5
  <2>2. Len(buf') <= ReadSize
    BY <1>3, <1>5, <1>6
  <2>3. QED
    BY <1>2, <1>3, <2>1, <2>2 DEF ChunkedTypeOK
<1>10. QED
  BY <1>1, <1>2, <1>6, <1>8, <1>9 DEF ChunkedInv

(* Every step keeps the invariant.                                          *)
LEMMA ChunkedNextInv == ChunkedInv /\ [ChunkedNext]_chunkVars => ChunkedInv'
<1>1. ChunkedInv /\ UNCHANGED chunkVars => ChunkedInv'
  BY DEF ChunkedInv, ChunkedTypeOK, KeptWithoutGap, Transfer, chunkVars
<1>2. QED
  BY <1>1, ScanKeeps, ReadPieceKeeps DEF ChunkedNext

(* What was kept of a transfer that was cut.                                *)
LEMMA KeptIsCut ==
    ASSUME ChunkedInv, keep, pos < BodyLimit
    PROVE  kept \in Seq(Octet) /\ IsCut(kept, Transfer) /\ Len(kept) = pos
<1>1. /\ Transfer \in Seq(Octet) /\ Len(Transfer) \in Nat /\ pos \in 0 .. Len(Transfer)
      /\ kept = SubSeq(Transfer, 1, pos)
  <2>1. Transfer \in Seq(Octet)
    BY TransferPlaces DEF Transfer, ChunkedInv
  <2>2. QED
    BY <2>1, LenProperties DEF ChunkedInv, ChunkedTypeOK, KeptWithoutGap
<1>2. kept \in Seq(Octet) /\ Len(kept) = pos
  <2>1. 0 \in 0 .. Len(Transfer) /\ pos \in 0 .. Len(Transfer)
    BY <1>1
  <2>2. /\ SubSeq(Transfer, 0 + 1, pos) \in Seq(Octet)
        /\ Len(SubSeq(Transfer, 0 + 1, pos)) = pos - 0
    BY <1>1, <2>1, PieceIs
  <2>3. 0 + 1 = 1 /\ pos - 0 = pos
    BY <1>1
  <2>4. QED
    BY <1>1, <2>2, <2>3
<1>3. \A j \in 1 .. pos : SubSeq(Transfer, 1, pos)[j] = Transfer[j]
  <2>1. SUFFICES ASSUME NEW j \in 1 .. pos PROVE SubSeq(Transfer, 1, pos)[j] = Transfer[j]
    OBVIOUS
  <2>2. SubSeq(Transfer, 1, pos)[j] = Transfer[1 + j - 1]
    <3>1. \A ix \in 1 .. pos : Transfer[ix] \in Octet
      <4>1. SUFFICES ASSUME NEW ix \in 1 .. pos PROVE Transfer[ix] \in Octet
        OBVIOUS
      <4>2. ix \in 1 .. Len(Transfer)
        BY <1>1
      <4>3. QED
        BY <1>1, <4>2, ElementOfSeq
    <3>2. 1 \in Int /\ pos \in Int /\ j \in 1 .. pos - 1 + 1
      BY <1>1
    <3>3. QED
      BY <3>1, <3>2, SubSeqProperties
  <2>3. 1 + j - 1 = j
    BY <1>1
  <2>4. QED
    BY <2>2, <2>3
<1>4. pos <= Len(Transfer)
  BY <1>1
<1>5. QED
  BY <1>1, <1>2, <1>3, <1>4, Zenon DEF IsCut

(* However the bytes of a chunked body come and wherever they end, up to    *)
(* the limit what is kept is what came, without a gap                       *)
(* (read_chunked_body_bin); whatever the chunks hold, a whole body is       *)
(* decoded to them and one that was cut to their beginning                  *)
(* (unchunk_chunked_body).                                                  *)
THEOREM ChunkedBodiesAreRead == ChunkedSpec => []ChunksAreRead
<1>1. ChunkedInv => ChunksAreRead
  <2>1. SUFFICES ASSUME ChunkedInv PROVE ChunksAreRead
    OBVIOUS
  <2>2. UnchunkInvertsChunking
    BY <2>1, TransferIsDecoded, Zenon DEF UnchunkInvertsChunking, Transfer, ChunkedInv
  <2>3. CutDecodesToBeginning
    <3>1. SUFFICES ASSUME keep, pos < BodyLimit, kept # <<>> PROVE CutDecodesToBeginning
      BY DEF CutDecodesToBeginning
    <3>2. kept \in Seq(Octet) /\ IsCut(kept, Transfer) /\ Len(kept) = pos
      BY <2>1, <3>1, KeptIsCut
    <3>3. chunks \in Transfers
      BY <2>1 DEF ChunkedInv
    <3>4. DecodedOf(Coded(chunks), chunks, Len(kept), Unchunk(kept).data, Unchunk(kept).size)
      BY <3>1, <3>2, <3>3, CutIsDecoded DEF Transfer
    <3>5. DecodedOf(Transfer, chunks, pos, Unchunk(kept).data, Unchunk(kept).size)
      BY <3>2, <3>4, Zenon DEF Transfer
    <3>6. QED
      BY <3>5, Zenon DEF DecodedOf, CutDecodesToBeginning
  <2>4. QED
    BY <2>1, <2>2, <2>3 DEF ChunkedInv, ChunksAreRead
<1>2. QED
  BY <1>1, ChunkedInitInv, ChunkedNextInv, PTL DEF ChunkedSpec

-----------------------------------------------------------------------------
(* Exchange.                                                               *)

(* What a message says: a report has results, the other messages have none. *)
Contents(c) ==
    IF c = "report"
    THEN [n : 0 .. MaxResults, id : Ints, number : Ints, addr : Addresses]
    ELSE {[n |-> 0, id |-> 0, number |-> 0, addr |-> 0]}

(* The stages in which the message is built and its answer has not come.    *)
Underway == {"send", "sleep", "resolve", "post", "answer"}

(* PostsWhatWasSigned is not inductive: it says nothing of a message that   *)
(* is not posted yet.                                                      *)
ExchangeInv ==
    /\ ExchangeTypeOK /\ ReportFits /\ SignedIsPosted /\ ReportIsRepeated
    /\ caller \in Callers /\ contents \in Contents(caller)
    /\ out \in [len : Nat, more : BOOLEAN]
    /\ stage = "build" => out = NoText /\ posts = 0 /\ signed = 0 /\ rv = 0
    /\ stage \in Underway => signed = body /\ size = body /\ rv = 0
    /\ stage \in Underway /\ caller = "report" => body = ReportSize(contents)
    /\ stage \in Underway \ {"answer"} /\ caller # "report" => posts = 0

(* No number is counted with more than eleven characters.                   *)
LEMMA IntToSBounds ==
    ASSUME NEW m \in Int
    PROVE  IntToS(m) \in 1 .. 11
<1> DEFINE abs == IF m < 0 THEN -m ELSE m
           K == {k \in 1 .. 9 : 10 ^ k <= abs}
<1>1. IsFiniteSet(1 .. 9) /\ Cardinality(1 .. 9) = 9
  <2>1. \A j \in Nat : IsFiniteSet(1 .. j) /\ Cardinality(1 .. j) = j
    BY FS_Interval
  <2>2. QED
    BY <2>1
<1>2. K \subseteq 1 .. 9
  OBVIOUS
<1>3. Cardinality(K) \in Nat /\ Cardinality(K) <= 9
  <2> HIDE DEF K
  <2>1. QED
    BY <1>1, <1>2, FS_Subset, FS_CardinalityType
<1>4. IntToS(m) = (IF m < 0 THEN 1 ELSE 0) + 1 + Cardinality(K)
  BY DEF IntToS
<1> HIDE DEF K
<1>5. QED
  BY <1>3, <1>4

(* A task's text and a report's are bounded, whatever their numbers.        *)
LEMMA ReportBounds ==
    ASSUME NEW c \in Contents("report")
    PROVE  /\ TaskToS(c) \in Nat /\ TaskToS(c) <= 159
           /\ ReportSize(c) \in Nat /\ ReportSize(c) <= 2599
<1>1. c \in [n : 0 .. MaxResults, id : Ints, number : Ints, addr : Addresses]
  BY DEF Contents
<1>2. c.n \in Nat /\ c.n <= 15 /\ c.addr \in Nat /\ c.addr <= 15
  <2>1. MaxResults \in 0 .. 15 /\ Addresses \subseteq 0 .. 15
    BY ExchangeAssumption, Zenon
  <2>2. c.n \in 0 .. MaxResults /\ c.addr \in Addresses
    BY <1>1
  <2>3. c.addr \in 0 .. 15
    BY <2>1, <2>2, Zenon
  <2>4. c.n \in Nat /\ c.n <= MaxResults /\ MaxResults <= 15
    BY <2>1, <2>2, SMT
  <2>5. QED
    BY <2>1, <2>3, <2>4, SMT
<1>3. c.id \in Int /\ c.number \in Int
  <2>1. Ints \subseteq Int
    BY ExchangeAssumption
  <2>2. QED
    BY <1>1, <2>1
<1>4. IntToS(c.id) \in 1 .. 11 /\ IntToS(c.number) \in 1 .. 11
  BY <1>3, IntToSBounds
<1>5. TaskToS(c) \in Nat /\ TaskToS(c) <= 159
  BY <1>2, <1>4 DEF TaskToS
<1> DEFINE pair == IntToS(c.id) + 1 + TaskToS(c) + 1
<1>6. pair \in Nat /\ pair <= 172
  BY <1>4, <1>5
<1>7. ReportSize(c) = c.n * pair + 8 + IntToS(c.id)
  BY DEF ReportSize
<1> HIDE DEF pair
<1>8. c.n * pair \in Nat /\ c.n * pair <= 2580
  <2>1. \A a, b \in Nat : a <= 15 /\ b <= 172 => a * b \in Nat /\ a * b <= 15 * 172
    OBVIOUS
  <2>2. QED
    BY <1>2, <1>6, <2>1, SMT
<1>9. QED
  BY <1>4, <1>5, <1>7, <1>8, SMT

(* Two bytes tell the size of a report and of every other message.          *)
LEMMA Sizes == MaxSize \in Nat /\ MaxSize >= 2599
BY SMT DEF MaxSize

(* A size they can tell is not cut.                                         *)
LEMMA SizesStay == \A a \in 0 .. MaxSize : a % (MaxSize + 1) = a
<1>1. MaxSize = 65535
  BY DEF MaxSize
<1>2. MaxSize + 1 = 65536
  BY <1>1, SMT
<1>3. \A a \in Nat : a <= 65535 => a % 65536 = a
  BY SMT
<1>4. SUFFICES ASSUME NEW a \in 0 .. MaxSize PROVE a % (MaxSize + 1) = a
  OBVIOUS
<1>5. a \in Nat /\ a <= 65535
  <2>1. MaxSize \in Nat /\ a \in Nat /\ a <= MaxSize
    BY <1>1, SMTT(20)
  <2>2. QED
    BY <1>1, <2>1, SMTT(20)
<1>6. QED
  BY <1>2, <1>3, <1>5, SMT

(* A message starts unbuilt, unsigned and unposted.                         *)
LEMMA ExchangeInitInv == ExchangeInit => ExchangeInv
<1> SUFFICES ASSUME ExchangeInit PROVE ExchangeInv
  OBVIOUS
<1>1. caller \in Callers /\ contents \in Contents(caller)
  BY DEF ExchangeInit, Contents
<1>2. TaskToS(contents) + 1 <= BufSize \/ caller # "report"
  BY <1>1, ReportBounds DEF BufSize
<1>3. size = 0 /\ 0 \in 0 .. MaxSize
  BY Sizes DEF ExchangeInit
<1>4. QED
  BY <1>1, <1>2, <1>3 DEF ExchangeInit, ExchangeInv, ExchangeTypeOK, ReportFits, SignedIsPosted,
    ReportIsRepeated, NoText, Underway

(* A message that is built has the size its header says: no body is longer  *)
(* than 16 bits can tell.                                                   *)
LEMMA BuildKeeps ==
    ASSUME ExchangeInv, Build
    PROVE  ExchangeInv'
<1>1. body' \in 0 .. MaxSize /\ (caller = "report" => body' = ReportSize(contents))
  <2>1. CASE caller = "report"
    <3>1. ReportSize(contents) \in Nat /\ ReportSize(contents) <= 2599
      BY <2>1, ReportBounds DEF ExchangeInv
    <3>2. body' = ReportSize(contents)
      BY <2>1 DEF Build
    <3>3. QED
      BY <3>1, <3>2, Sizes, SMT
  <2>2. CASE caller # "report"
    <3>1. body' \in BodyLens
      BY <2>2 DEF Build
    <3>2. BodyLens \subseteq 0 .. MaxSize
      BY ExchangeAssumption, Zenon
    <3>3. QED
      BY <2>2, <3>1, <3>2, Zenon
  <2>3. QED
    BY <2>1, <2>2, Zenon
<1>2. size' = body'
  <2>1. size' = body' % (MaxSize + 1)
    BY DEF Build
  <2>2. QED
    BY <1>1, <2>1, SizesStay, Zenon
<1>3. UNCHANGED <<caller, contents, server, out, pmr, posts>> /\ out = NoText /\ posts = 0
  BY DEF Build, ExchangeInv
<1>4. \/ signed' = body' /\ stage' = "send" /\ rv' = rv
      \/ signed' = signed /\ stage' = "returned" /\ rv' = -1
  BY DEF Build
<1>5. ExchangeTypeOK'
  <2>1. body' \in Nat /\ size' \in 0 .. MaxSize
    BY <1>1, <1>2, Sizes
  <2>2. signed' \in {0, body'} /\ rv' \in {0, -1} /\ stage' \in {"send", "returned"}
    BY <1>4 DEF ExchangeInv, Build
  <2>3. QED
    BY <1>3, <2>1, <2>2 DEF ExchangeInv, ExchangeTypeOK
<1>6. ReportFits' /\ SignedIsPosted' /\ ReportIsRepeated'
  BY <1>3, <1>4 DEF ExchangeInv, ReportFits, SignedIsPosted, ReportIsRepeated
<1>7. /\ caller' \in Callers /\ contents' \in Contents(caller')
      /\ out' \in [len : Nat, more : BOOLEAN]
  BY <1>3 DEF ExchangeInv
<1>8. stage' \in Underway => signed' = body' /\ size' = body' /\ rv' = 0
  BY <1>2, <1>4 DEF ExchangeInv, Build, Underway
<1>9. /\ stage' \in Underway /\ caller' = "report" => body' = ReportSize(contents')
      /\ stage' \in Underway \ {"answer"} /\ caller' # "report" => posts' = 0
      /\ stage' # "build"
  <2>1. ReportSize(contents') = ReportSize(contents) /\ posts' = 0 /\ caller' = caller
    BY <1>3
  <2>2. QED
    BY <1>1, <1>4, <2>1
<1>10. QED
  BY <1>5, <1>6, <1>7, <1>8, <1>9, Zenon DEF ExchangeInv

(* What is posted is the header and the body, which fit the buffer of the   *)
(* Base64 text if they are a report.                                       *)
LEMMA PostKeeps ==
    ASSUME ExchangeInv, Post
    PROVE  ExchangeInv'
<1>1. PICK more \in BOOLEAN : out' = [len |-> Raw, more |-> more]
  BY DEF Post
<1>2. stage = "post" /\ stage' = "answer" /\ posts' = (IF posts < 2 THEN posts + 1 ELSE posts)
      /\ UNCHANGED <<caller, contents, body, size, signed, server, pmr, rv>>
  BY DEF Post
<1>3. Raw = HeaderSize + signed /\ Raw \in Nat
  BY <1>2 DEF Raw, ExchangeInv, ExchangeTypeOK, Underway, HeaderSize
<1>4. QED
  BY <1>1, <1>2, <1>3 DEF ExchangeInv, ExchangeTypeOK, ReportFits, SignedIsPosted,
    ReportIsRepeated, Underway

(* The steps that post nothing keep what was built.                         *)
LEMMA OthersKeepExchange ==
    ASSUME ExchangeInv, NameResolved \/ NameNotResolved \/ Sleep \/ NoAnswer \/ Answered
    PROVE  ExchangeInv'
<1>1. UNCHANGED <<caller, contents, body, size, signed, out, posts>>
  BY DEF NameResolved, NameNotResolved, Sleep, NoAnswer, Answered, Answer, ShortAnswer
<1>2. stage' = "post" => ReportFits'
  <2>1. SUFFICES ASSUME stage' = "post", caller = "report"
        PROVE  TaskToS(contents) + 1 <= BufSize /\ Base64(Raw) <= EncodeSize
    BY <1>1 DEF ReportFits, Raw
  <2>2. stage \in {"send", "resolve"}
    BY <2>1 DEF NameResolved, NameNotResolved, Sleep, NoAnswer, Answered, Answer, ShortAnswer,
      Returns
  <2>3. /\ size \in Nat /\ size <= 2599
        /\ TaskToS(contents) \in Nat /\ TaskToS(contents) <= 159
    BY <2>1, <2>2, ReportBounds DEF ExchangeInv, Underway
  <2>4. QED
    BY <2>3 DEF Raw, HeaderSize, Base64, BufSize, EncodeSize
<1>3. CASE NameResolved
  BY <1>1, <1>2, <1>3 DEF NameResolved, ExchangeInv, ExchangeTypeOK, SignedIsPosted,
    ReportIsRepeated, Underway
<1>4. CASE NameNotResolved \/ Sleep
  BY <1>1, <1>4 DEF NameNotResolved, Sleep, ExchangeInv, ExchangeTypeOK, ReportFits,
    SignedIsPosted, ReportIsRepeated, Underway
<1>5. CASE NoAnswer
  BY <1>1, <1>5 DEF NoAnswer, Returns, ExchangeInv, ExchangeTypeOK, ReportFits, SignedIsPosted,
    ReportIsRepeated, Underway
<1>6. CASE Answered
  <2>1. pmr' \in Nat
    BY <1>6, ExchangeAssumption DEF Answered, Answer, ShortAnswer, ExchangeInv, ExchangeTypeOK,
      HeaderSize
  <2>2. QED
    BY <1>1, <1>6, <2>1 DEF Answered, Answer, ShortAnswer, Returns, ExchangeInv, ExchangeTypeOK,
      ReportFits, SignedIsPosted, ReportIsRepeated, Underway
<1>7. QED
  BY <1>3, <1>4, <1>5, <1>6

(* Every step of send_message keeps the invariant: what is built is signed, *)
(* and a look-up or a post that fails leaves it as it was.                  *)
LEMMA ExchangeNextInv == ExchangeInv /\ [ExchangeNext]_exchangeVars => ExchangeInv'
<1> SUFFICES ASSUME ExchangeInv, [ExchangeNext]_exchangeVars PROVE ExchangeInv'
  OBVIOUS
<1>1. CASE UNCHANGED exchangeVars
  BY <1>1 DEF exchangeVars, ExchangeInv, ExchangeTypeOK, ReportFits, SignedIsPosted,
    ReportIsRepeated, Raw
<1>2. CASE ExchangeNext
  BY <1>2, BuildKeeps, PostKeeps, OthersKeepExchange DEF ExchangeNext
<1>3. QED
  BY <1>1, <1>2

(* Whatever the numbers of a report and however often names are looked up   *)
(* and messages posted: a report fits the buffers on its way, what is       *)
(* posted is the header and all that was signed, and a report is posted     *)
(* until it is answered, nothing else is.                                   *)
THEOREM ExchangePostsWhatWasSigned == ExchangeSpec => []PostsWhatWasSigned
<1>1. ExchangeInv => PostsWhatWasSigned
  BY DEF ExchangeInv, PostsWhatWasSigned
<1>2. QED
  BY <1>1, ExchangeInitInv, ExchangeNextInv, PTL DEF ExchangeSpec

-----------------------------------------------------------------------------
(* Icmp.                                                                   *)

(* The partial sums of m numbers.                                           *)
LEMMA SumsExist ==
    ASSUME NEW w, NEW m \in Nat, \A k \in 1 .. m : w[k] \in Nat
    PROVE  \E g : g = [k \in 0 .. m |-> IF k = 0 THEN 0 ELSE g[k - 1] + w[k]]
<1> DEFINE S == {l \in Nat : l <= m =>
                     \E g : g = [k \in 0 .. l |-> IF k = 0 THEN 0 ELSE g[k - 1] + w[k]]}
<1>1. 0 \in S
  <2> DEFINE g == [k \in 0 .. 0 |-> 0]
  <2>1. g = [k \in 0 .. 0 |-> IF k = 0 THEN 0 ELSE g[k - 1] + w[k]]
    OBVIOUS
  <2>2. QED
    BY <2>1
<1>2. ASSUME NEW l \in Nat, l \in S PROVE l + 1 \in S
  <2>1. SUFFICES ASSUME l + 1 <= m
        PROVE  \E g : g = [k \in 0 .. l + 1 |-> IF k = 0 THEN 0 ELSE g[k - 1] + w[k]]
    OBVIOUS
  <2>2. PICK g : g = [k \in 0 .. l |-> IF k = 0 THEN 0 ELSE g[k - 1] + w[k]]
    BY <1>2, <2>1
  <2> DEFINE h == [k \in 0 .. l + 1 |-> IF k = l + 1 THEN g[l] + w[k] ELSE g[k]]
  <2>3. \A k \in 0 .. l + 1 : h[k] = IF k = 0 THEN 0 ELSE h[k - 1] + w[k]
    BY <2>2
  <2>4. h = [k \in 0 .. l + 1 |-> IF k = 0 THEN 0 ELSE h[k - 1] + w[k]]
    <3>1. h = [k \in 0 .. l + 1 |-> h[k]]
      OBVIOUS
    <3> HIDE DEF h
    <3>2. QED
      BY <2>3, <3>1
  <2>5. QED
    BY <2>4
<1>3. m \in S
  <2> HIDE DEF S
  <2>1. QED
    BY <1>1, <1>2, AllNumbers
<1>4. QED
  BY <1>3

(* The checksum's sum is the last of the partial sums of the weighted       *)
(* bytes.                                                                   *)
LEMMA WordSumIsTheSum ==
    ASSUME NEW b \in Seq(Byte)
    PROVE  \E g : /\ g = [k \in 0 .. Len(b) |-> IF k = 0 THEN 0 ELSE
                    g[k - 1] + b[k] * (IF k % 2 = 1 THEN 1 ELSE 256)]
                  /\ WordSum(b) = g[Len(b)]
<1> DEFINE w == [k \in 1 .. Len(b) |-> b[k] * (IF k % 2 = 1 THEN 1 ELSE 256)]
<1>1. Len(b) \in Nat /\ \A k \in 1 .. Len(b) : b[k] \in Nat
  <2>1. Len(b) \in Nat /\ \A k \in 1 .. Len(b) : b[k] \in Byte
    BY ElementOfSeq, LenProperties
  <2>2. Byte \subseteq Nat
    BY DEF Byte
  <2>3. QED
    BY <2>1, <2>2
<1>2. \A k \in 1 .. Len(b) : w[k] \in Nat
  BY <1>1
<1>3. \E g : g = [k \in 0 .. Len(b) |-> IF k = 0 THEN 0 ELSE g[k - 1] + w[k]]
  <2> HIDE DEF w
  <2>1. QED
    BY <1>1, <1>2, SumsExist
<1>4. PICK g : g = [k \in 0 .. Len(b) |-> IF k = 0 THEN 0 ELSE g[k - 1] + w[k]]
  BY <1>3
<1>5. g = [k \in 0 .. Len(b) |-> IF k = 0 THEN 0 ELSE
                    g[k - 1] + b[k] * (IF k % 2 = 1 THEN 1 ELSE 256)]
  BY <1>4
<1>6. QED
  BY <1>5 DEF WordSum

(* What a byte counts in a word of two, the low byte first.                 *)
Weight(k) == IF k % 2 = 1 THEN 1 ELSE 256

(* Bytes are numbers.                                                       *)
LEMMA ByteValues == \A v \in Byte : v \in Nat /\ v <= 255
BY SMT DEF Byte

(* Numbers of 16 bits are two bytes.                                        *)
LEMMA UShorts ==
    /\ \A v : v \in UShort <=> v \in Nat /\ v <= 65535
    /\ \A v \in UShort : v % 256 \in Byte /\ v \div 256 \in Byte
<1>1. MaxUShort = 65535
  BY SMT DEF MaxUShort
<1>2. MaxUShort \in Nat
  BY <1>1, SMT
<1>3. \A v : v \in UShort <=> v \in Nat /\ v <= MaxUShort
  BY <1>2, SMT DEF UShort
<1>4. \A v : v \in UShort <=> v \in Nat /\ v <= 65535
  BY <1>1, <1>3, SMT
<1>5. \A v \in UShort : v % 256 \in Byte /\ v \div 256 \in Byte
  BY <1>4, SMT DEF Byte
<1>6. QED
  BY <1>4, <1>5

(* The sums of a sequence of bytes grow by the bytes with their weights;    *)
(* their bounds.                                                            *)
Sums(g, b) ==
    /\ g[0] = 0 /\ g[Len(b)] = WordSum(b)
    /\ \A k \in 1 .. Len(b) : g[k] = g[k - 1] + b[k] * Weight(k)
    /\ \A k \in 0 .. Len(b) : g[k] \in Nat /\ g[k] <= 65280 * k
    /\ \A k \in 1 .. Len(b) : g[k] >= 8

(* A request's bytes, the first of which is its type 8, have such sums.     *)
LEMMA WordSums ==
    ASSUME NEW b \in Seq(Byte), Len(b) > 0, b[1] = 8
    PROVE  \E g : Sums(g, b)
<1>1. PICK g : /\ g = [k \in 0 .. Len(b) |-> IF k = 0 THEN 0 ELSE
                    g[k - 1] + b[k] * (IF k % 2 = 1 THEN 1 ELSE 256)]
               /\ WordSum(b) = g[Len(b)]
  BY WordSumIsTheSum
<1>2. Len(b) \in Nat /\ \A k \in 1 .. Len(b) : b[k] \in Byte
  BY ElementOfSeq, LenProperties
<1>3. g[0] = 0 /\ \A k \in 1 .. Len(b) : g[k] = g[k - 1] + b[k] * Weight(k)
  BY <1>1, <1>2, SMT DEF Weight
<1> DEFINE Bounds(k) == g[k] \in Nat /\ g[k] <= 65280 * k /\ (k > 0 => g[k] >= 8)
           S == {k \in Nat : k <= Len(b) => Bounds(k)}
<1>4. 0 \in S
  BY <1>3, SMT
<1>5. ASSUME NEW k \in Nat, k \in S PROVE k + 1 \in S
  <2>1. SUFFICES ASSUME k + 1 <= Len(b) PROVE Bounds(k + 1)
    <3> HIDE DEF Bounds
    <3>1. QED
      BY SMT
  <2>2. Bounds(k)
    <3> HIDE DEF Bounds
    <3>1. QED
      BY <1>5, <2>1, <1>2, SMT
  <2>3. k + 1 \in 1 .. Len(b) /\ k + 1 - 1 = k
    BY <1>2, <2>1, SMT
  <2> DEFINE v == b[k + 1] * Weight(k + 1)
  <2>4. g[k + 1] = g[k] + v
    BY <1>3, <2>3, SMT
  <2>5. v \in Nat /\ v <= 65280 /\ (k = 0 => v = 8)
    <3>1. b[k + 1] \in Nat /\ b[k + 1] <= 255
      BY <1>2, <2>3, ByteValues, Zenon
    <3>2. Weight(k + 1) = 1 \/ Weight(k + 1) = 256
      BY SMT DEF Weight
    <3>3. k = 0 => b[k + 1] = 8 /\ Weight(k + 1) = 1
      BY SMT DEF Weight
    <3>4. QED
      BY <3>1, <3>2, <3>3, SMT
  <2> HIDE DEF v
  <2>7. 65280 * (k + 1) = 65280 * k + 65280
    BY SMT
  <2>8. QED
    BY <2>2, <2>4, <2>5, <2>7, SMT
<1>6. \A k \in Nat : k \in S
  <2> HIDE DEF S
  <2>1. QED
    BY <1>4, <1>5, AllNumbers, SMT
<1>7. \A k \in 0 .. Len(b) : Bounds(k)
  <2> HIDE DEF Bounds
  <2>1. QED
    BY <1>2, <1>6, SMT
<1>8. \A k \in 0 .. Len(b) : g[k] \in Nat /\ g[k] <= 65280 * k
  BY <1>7, SMT
<1>9. \A k \in 1 .. Len(b) : g[k] >= 8
  BY <1>2, <1>7, SMT
<1>10. g[Len(b)] = WordSum(b)
  BY <1>1
<1>11. Sums(g, b)
  BY <1>3, <1>8, <1>9, <1>10, SMT DEF Sums
<1>12. QED
  BY <1>11, Zenon

(* Two sequences of bytes that differ in a word, the third and fourth byte. *)
Twins(b, z, ck) ==
    /\ b \in Seq(Byte) /\ z \in Seq(Byte) /\ Len(b) = Len(z) /\ Len(b) >= 4
    /\ b[1] = 8 /\ z[1] = 8
    /\ b[3] = ck % 256 /\ b[4] = ck \div 256 /\ z[3] = 0 /\ z[4] = 0
    /\ \A k \in 1 .. Len(b) : k \notin {3, 4} => b[k] = z[k]

(* What follows both does not tell them apart.                              *)
LEMMA TwinsGrow ==
    ASSUME NEW b, NEW z, NEW ck, Twins(b, z, ck), NEW s \in Seq(Byte)
    PROVE  Twins(b \o s, z \o s, ck) /\ Len(b \o s) = Len(b) + Len(s)
<1>1. /\ b \in Seq(Byte) /\ z \in Seq(Byte) /\ Len(b) = Len(z) /\ Len(b) >= 4
      /\ \A k \in 1 .. Len(b) : k \notin {3, 4} => b[k] = z[k]
      /\ Len(b) \in Nat /\ Len(s) \in Nat
  BY LenProperties DEF Twins
<1>2. /\ b \o s \in Seq(Byte) /\ z \o s \in Seq(Byte)
      /\ Len(b \o s) = Len(b) + Len(s) /\ Len(z \o s) = Len(b) + Len(s)
  BY <1>1, ConcatProperties
<1>3. \A k \in 1 .. Len(b) + Len(s) :
        /\ (b \o s)[k] = IF k <= Len(b) THEN b[k] ELSE s[k - Len(b)]
        /\ (z \o s)[k] = IF k <= Len(b) THEN z[k] ELSE s[k - Len(b)]
  BY <1>1, ConcatProperties
<1> DEFINE bs == b \o s
           zs == z \o s
<1> HIDE DEF bs, zs
<1>4. \A k \in 1 .. Len(b) + Len(s) :
        /\ bs[k] = IF k <= Len(b) THEN b[k] ELSE s[k - Len(b)]
        /\ zs[k] = IF k <= Len(b) THEN z[k] ELSE s[k - Len(b)]
  BY <1>3 DEF bs, zs
<1>5. \A k \in 1 .. Len(b) + Len(s) : k \notin {3, 4} => bs[k] = zs[k]
  BY <1>1, <1>4, SMT
<1>6. \A k \in {1, 3, 4} : bs[k] = b[k] /\ zs[k] = z[k]
  BY <1>1, <1>4, SMT
<1>7. Len(b) + Len(s) >= 4
  BY <1>1, SMT
<1>8. QED
  BY <1>2, <1>5, <1>6, <1>7 DEF bs, zs, Twins

(* A request is its type, its checksum, which takes the third and fourth    *)
(* byte, and bytes that do not depend on it.                                *)
LEMMA RequestBytes ==
    ASSUME ident \in UShort, NEW q \in UShort, NEW p \in Seq(Byte), NEW ck \in UShort
    PROVE  /\ Twins(Request(ck, q, p), Request(0, q, p), ck)
           /\ Len(Request(ck, q, p)) = 8 + Len(p)
<1>1. \A v \in UShort : Bytes(v) \in Seq(Byte) /\ Len(Bytes(v)) = 2
  BY UShorts DEF Bytes
<1>2. Twins(<<8, 0>> \o Bytes(ck), <<8, 0>> \o Bytes(0), ck) /\ Len(<<8, 0>> \o Bytes(ck)) = 4
  <2>1. ck % 256 \in Byte /\ ck \div 256 \in Byte
    BY UShorts
  <2>2. Bytes(0) = <<0, 0>>
    BY SMT DEF Bytes
  <2>3. 8 \in Byte /\ 0 \in Byte
    BY SMT DEF Byte
  <2>4. ASSUME NEW u \in Byte, NEW v \in Byte
        PROVE  LET s == <<8, 0>> \o <<u, v>>
               IN  /\ s \in Seq(Byte) /\ Len(s) = 4
                   /\ s[1] = 8 /\ s[2] = 0 /\ s[3] = u /\ s[4] = v
    <3> DEFINE l == <<8, 0>>
               r == <<u, v>>
               s == l \o r
    <3>1. l \in Seq(Byte) /\ r \in Seq(Byte) /\ Len(l) = 2 /\ Len(r) = 2
      BY <2>3
    <3>2. l[1] = 8 /\ l[2] = 0 /\ r[1] = u /\ r[2] = v
      OBVIOUS
    <3> HIDE DEF l, r
    <3>3. /\ s \in Seq(Byte) /\ Len(s) = Len(l) + Len(r)
          /\ \A k \in 1 .. Len(l) + Len(r) :
               s[k] = IF k <= Len(l) THEN l[k] ELSE r[k - Len(l)]
      BY <3>1, ConcatProperties, Zenon
    <3> HIDE DEF s
    <3>4. Len(s) = 4 /\ s[1] = l[1] /\ s[2] = l[2] /\ s[3] = r[1] /\ s[4] = r[2]
      BY <3>1, <3>3, SMT
    <3>5. QED
      BY <3>2, <3>3, <3>4 DEF s, l, r
  <2> DEFINE s == <<8, 0>> \o Bytes(ck)
             z == <<8, 0>> \o Bytes(0)
  <2>5. /\ s \in Seq(Byte) /\ Len(s) = 4
        /\ s[1] = 8 /\ s[2] = 0 /\ s[3] = ck % 256 /\ s[4] = ck \div 256
    BY <2>1, <2>4 DEF Bytes
  <2>6. /\ z \in Seq(Byte) /\ Len(z) = 4 /\ z[1] = 8 /\ z[2] = 0 /\ z[3] = 0 /\ z[4] = 0
    <3> DEFINE r == <<8, 0>> \o <<0, 0>>
    <3>1. /\ r \in Seq(Byte) /\ Len(r) = 4 /\ r[1] = 8 /\ r[2] = 0 /\ r[3] = 0 /\ r[4] = 0
      BY <2>3, <2>4
    <3>2. z = r
      BY <2>2, Zenon
    <3> HIDE DEF r, z
    <3>3. QED
      BY <3>1, <3>2, Zenon
  <2> HIDE DEF s, z
  <2>7. Twins(s, z, ck) /\ Len(s) = 4
    BY <2>5, <2>6 DEF Twins
  <2>8. QED
    BY <2>7 DEF s, z
<1> DEFINE b == <<8, 0>> \o Bytes(ck)
           z == <<8, 0>> \o Bytes(0)
<1>3. Twins(b, z, ck) /\ Len(b) = 4
  BY <1>2
<1> HIDE DEF b, z
<1> DEFINE b1 == b \o Bytes(ident)
           z1 == z \o Bytes(ident)
           b2 == b1 \o Bytes(q)
           z2 == z1 \o Bytes(q)
<1>4. Twins(b1, z1, ck) /\ Len(b1) = 6
  <2>1. Twins(b1, z1, ck) /\ Len(b1) = Len(b) + Len(Bytes(ident))
    BY <1>1, <1>3, TwinsGrow, Zenon
  <2>2. Len(Bytes(ident)) = 2
    BY <1>1
  <2> HIDE DEF b1
  <2>3. QED
    BY <1>3, <2>1, <2>2
<1> HIDE DEF b1, z1
<1>5. Twins(b2, z2, ck) /\ Len(b2) = 8
  <2>1. Twins(b2, z2, ck) /\ Len(b2) = Len(b1) + Len(Bytes(q))
    BY <1>1, <1>4, TwinsGrow, Zenon
  <2>2. Len(Bytes(q)) = 2
    BY <1>1
  <2> HIDE DEF b2
  <2>3. QED
    BY <1>4, <2>1, <2>2
<1> HIDE DEF b2, z2
<1>6. Twins(b2 \o p, z2 \o p, ck) /\ Len(b2 \o p) = 8 + Len(p)
  BY <1>5, TwinsGrow, Zenon
<1>7. QED
  BY <1>6 DEF Request, b2, z2, b1, z1, b, z

(* The sums of two such sequences: the word is what they differ by.         *)
LEMMA SumWithWord ==
    ASSUME NEW b, NEW z, NEW ck \in UShort, Twins(b, z, ck)
    PROVE  WordSum(b) = WordSum(z) + ck
<1>1. /\ b \in Seq(Byte) /\ z \in Seq(Byte) /\ Len(b) \in Nat /\ Len(z) = Len(b)
      /\ Len(b) >= 4 /\ b[1] = 8 /\ z[1] = 8
      /\ b[3] = ck % 256 /\ b[4] = ck \div 256 /\ z[3] = 0 /\ z[4] = 0
      /\ \A k \in 1 .. Len(b) : k \notin {3, 4} => b[k] = z[k]
  BY LenProperties DEF Twins
<1>2. Len(b) > 0 /\ Len(z) > 0 /\ Len(b) \in 0 .. Len(b)
  BY <1>1, SMT
<1>3. PICK g : Sums(g, b)
  <2>1. \E g : Sums(g, b)
    BY <1>1, <1>2, WordSums
  <2>2. QED
    BY <2>1, Zenon
<1>4. PICK h : Sums(h, z)
  <2>1. \E h : Sums(h, z)
    BY <1>1, <1>2, WordSums
  <2>2. QED
    BY <2>1, Zenon
<1>A. /\ g[0] = 0 /\ g[Len(b)] = WordSum(b)
      /\ \A k \in 1 .. Len(b) : g[k] = g[k - 1] + b[k] * Weight(k)
  BY <1>3 DEF Sums
<1>B. /\ h[0] = 0 /\ h[Len(b)] = WordSum(z)
      /\ \A k \in 1 .. Len(b) : h[k] = h[k - 1] + z[k] * Weight(k)
      /\ \A k \in 0 .. Len(b) : h[k] \in Nat
  BY <1>1, <1>4, SMT DEF Sums
<1>5. ck \in Nat
  BY UShorts
<1> DEFINE Part(k) == IF k < 3 THEN 0 ELSE IF k = 3 THEN ck % 256 ELSE ck
           S == {k \in Nat : k <= Len(b) => g[k] = h[k] + Part(k)}
<1>6. 0 \in S
  <2>1. Part(0) = 0 /\ 0 \in Nat
    BY SMT
  <2> HIDE DEF Part
  <2>2. g[0] = h[0] + Part(0)
    BY <1>A, <1>B, <2>1, SMT
  <2>3. QED
    BY <2>1, <2>2
<1>7. ASSUME NEW k \in Nat, k \in S PROVE k + 1 \in S
  <2>1. SUFFICES ASSUME k + 1 <= Len(b) PROVE g[k + 1] = h[k + 1] + Part(k + 1)
    <3> HIDE DEF Part
    <3>1. QED
      BY SMT
  <2>2. k + 1 \in 1 .. Len(b) /\ k + 1 - 1 = k /\ k \in 0 .. Len(b) /\ k <= Len(b)
    BY <1>1, <2>1, SMT
  <2>3. g[k] = h[k] + Part(k)
    <3> HIDE DEF Part
    <3>1. QED
      BY <1>7, <2>2
  <2>4. g[k + 1] = g[k] + b[k + 1] * Weight(k + 1)
    BY <1>A, <2>2
  <2>5. h[k + 1] = h[k] + z[k + 1] * Weight(k + 1) /\ h[k] \in Nat
    BY <1>1, <1>B, <2>2
  <2>6. CASE k = 2
    <3>1. Part(2) = 0 /\ Part(3) = ck % 256 /\ Weight(3) = 1 /\ ck % 256 \in Nat
      BY <1>5, SMT DEF Weight
    <3>2. k + 1 = 3
      BY <2>6
    <3> HIDE DEF Part
    <3>3. QED
      BY <1>1, <2>3, <2>4, <2>5, <2>6, <3>1, <3>2, SMT
  <2>7. CASE k = 3
    <3>1. ck = (ck % 256) + (ck \div 256) * 256 /\ ck % 256 \in Nat /\ ck \div 256 \in Nat
      BY <1>5, SMT
    <3>2. Part(3) = ck % 256 /\ Part(4) = ck /\ Weight(4) = 256
      BY SMT DEF Weight
    <3>3. k + 1 = 4
      BY <2>7
    <3> HIDE DEF Part
    <3>4. g[3] = h[3] + (ck % 256) /\ g[4] = g[3] + (ck \div 256) * 256 /\ h[4] = h[3]
      <4>1. g[3] = h[3] + (ck % 256)
        BY <2>3, <2>7, <3>2
      <4>2. g[4] = g[3] + (ck \div 256) * 256
        <5>1. g[4] = g[3] + b[4] * Weight(4)
          BY <2>4, <2>7, <3>3
        <5>2. QED
          BY <1>1, <3>2, <5>1
      <4>3. h[4] = h[3]
        <5>1. h[4] = h[3] + z[4] * Weight(4) /\ h[3] \in Nat
          BY <2>5, <2>7, <3>3
        <5>2. QED
          BY <1>1, <3>2, <5>1
      <4>4. QED
        BY <4>1, <4>2, <4>3, Zenon
    <3>5. h[3] \in Nat
      BY <2>5, <2>7
    <3>6. g[4] = h[4] + ck
      BY <3>1, <3>4, <3>5, SMT
    <3>7. QED
      BY <2>7, <3>2, <3>3, <3>6
  <2>8. CASE k \notin {2, 3}
    <3>1. b[k + 1] = z[k + 1]
      BY <1>1, <2>2, <2>8, SMT
    <3>2. Part(k + 1) = Part(k) /\ Part(k) \in Nat
      BY <1>5, <2>8, SMT
    <3>3. z[k + 1] \in Nat
      BY <1>1, <2>2, ElementOfSeq, ByteValues
    <3>4. Weight(k + 1) \in Nat
      BY SMT DEF Weight
    <3> DEFINE w == z[k + 1] * Weight(k + 1)
    <3>5. w \in Nat
      BY <3>3, <3>4, SMT
    <3> HIDE DEF Part, w
    <3>6. g[k + 1] = g[k] + w /\ h[k + 1] = h[k] + w
      BY <2>4, <2>5, <3>1 DEF w
    <3>7. QED
      BY <2>3, <2>5, <3>2, <3>5, <3>6, SMT
  <2>9. QED
    <3> HIDE DEF Part
    <3>1. QED
      BY <2>6, <2>7, <2>8
<1>8. Len(b) \in S
  <2> HIDE DEF S
  <2>1. QED
    BY <1>1, <1>6, <1>7, AllNumbers
<1>9. Part(Len(b)) = ck
  BY <1>1, SMT
<1>10. g[Len(b)] = h[Len(b)] + ck
  <2> HIDE DEF Part
  <2>1. QED
    BY <1>1, <1>8, <1>9, SMT
<1>11. QED
  BY <1>1, <1>A, <1>B, <1>10

(* The first addition of the carries may carry again; with it added too,    *)
(* what in_cksum returns makes up for the sum.                              *)
Complement(s) ==
    LET folded == (s \div 65536) + (s % 65536)
    IN  65535 - ((folded + (folded \div 65536)) % 65536)

(* Two additions of the carries are enough for packets of 127 bytes.        *)
LEMMA Carries ==
    ASSUME NEW s \in Nat, s >= 8, s <= 4177920
    PROVE  /\ Complement(s) \in Nat /\ Complement(s) <= 65535
           /\ (s + Complement(s)) % 65535 = 0
<1> DEFINE q == s \div 65536
           r == s % 65536
           folded == q + r
           ck == 65535 - ((folded + (folded \div 65536)) % 65536)
<1>1. q \in Nat /\ q <= 63 /\ r \in Nat /\ r <= 65535 /\ s = 65536 * q + r
  BY SMT
<1> HIDE DEF q, r
<1>2. ck \in Nat /\ ck <= 65535
  BY <1>1, SMT
<1>3. \A m \in Nat : (65535 * m) % 65535 = 0
  BY SMT
<1>4. ASSUME folded < 65536 PROVE (s + ck) % 65535 = 0
  <2>1. folded \div 65536 = 0 /\ folded % 65536 = folded
    BY <1>1, <1>4, SMT
  <2>2. s + ck = 65535 * (q + 1)
    BY <1>1, <2>1, <1>4, SMT
  <2>3. QED
    BY <1>1, <1>3, <2>2, SMT
<1>5. ASSUME folded >= 65536 PROVE (s + ck) % 65535 = 0
  <2>1. folded \div 65536 = 1 /\ (folded + 1) % 65536 = folded - 65535
    BY <1>1, <1>5, SMT
  <2>2. s + ck = 65535 * (q + 2)
    BY <1>1, <2>1, <1>5, SMT
  <2>3. QED
    BY <1>1, <1>3, <2>2, SMT
<1>6. folded < 65536 \/ folded >= 65536
  BY <1>1, SMT
<1>7. (s + ck) % 65535 = 0
  <2> HIDE DEF ck, folded
  <2>1. QED
    BY <1>4, <1>5, <1>6
<1>8. Complement(s) = ck
  BY SMT DEF Complement, q, r
<1> HIDE DEF ck
<1>9. QED
  BY <1>2, <1>7, <1>8

(* A request that carries in_cksum's value for it is accepted.              *)
LEMMA RequestVerifies ==
    ASSUME ident \in UShort, NEW q \in UShort, NEW p \in Payloads
    PROVE  LET ck == InCksum(Request(0, q, p))
           IN  /\ ck \in UShort /\ Request(ck, q, p) \in Seq(Byte)
               /\ Verifies(Request(ck, q, p))
<1> DEFINE z == Request(0, q, p)
           ck == InCksum(z)
           b == Request(ck, q, p)
           s == WordSum(z)
<1>1. p \in Seq(Byte) /\ Len(p) \in Nat /\ Len(p) <= 56
  BY IcmpAssumption, LenProperties DEF MaxPayload
<1>2. 0 \in UShort
  BY UShorts, SMT
<1>3. \A c \in UShort : Twins(Request(c, q, p), z, c) /\ Len(Request(c, q, p)) = 8 + Len(p)
  BY <1>1, RequestBytes
<1> HIDE DEF z
<1>4. z \in Seq(Byte) /\ Len(z) = 8 + Len(p) /\ z[1] = 8
  BY <1>2, <1>3 DEF Twins, z
<1>5. s \in Nat /\ s >= 8 /\ s <= 4177920
  <2>1. Len(z) > 0 /\ Len(z) \in 0 .. Len(z) /\ Len(z) \in 1 .. Len(z)
    BY <1>1, <1>4, SMT
  <2>2. PICK g : Sums(g, z)
    <3>1. \E g : Sums(g, z)
      BY <1>4, <2>1, WordSums
    <3>2. QED
      BY <3>1, Zenon
  <2>3. WordSum(z) \in Nat /\ WordSum(z) <= 65280 * Len(z) /\ WordSum(z) >= 8
    BY <2>1, <2>2, SMT DEF Sums
  <2>4. QED
    BY <1>1, <1>4, <2>3, SMT
<1>6. ck \in UShort /\ (s + ck) % 65535 = 0
  <2>1. ck = Complement(s)
    BY SMT DEF InCksum, Complement
  <2> HIDE DEF ck, s
  <2>2. ck \in Nat /\ ck <= 65535 /\ (s + ck) % 65535 = 0
    BY <1>5, <2>1, Carries
  <2>3. QED
    BY <2>2, UShorts
<1> HIDE DEF ck
<1>7. WordSum(b) = s + ck /\ b \in Seq(Byte)
  <2>1. Twins(b, z, ck)
    BY <1>3, <1>6
  <2> HIDE DEF b
  <2>2. QED
    BY <1>6, <2>1, SumWithWord DEF Twins
<1>8. s + ck > 0
  <2> HIDE DEF s
  <2>1. ck \in Nat
    BY <1>6, UShorts
  <2>2. QED
    BY <1>5, <2>1, SMT
<1>9. Verifies(b)
  BY <1>6, <1>7, <1>8 DEF Verifies
<1>10. QED
  BY <1>6, <1>7, <1>9 DEF ck, z

(* The numbers of this ping's requests that are on their way or answered,   *)
(* that wait in the socket, that it has read.                               *)
FlightOf(f, m) == {p.seq : p \in {r \in f : r.ping = m}}
NumbersOf(s, m) == {s[k].seq : k \in {j \in DOMAIN s : s[j].ping = m}}
ReadOf(g, m) == {g[k].packet.seq : k \in {j \in DOMAIN g : g[j].packet.ping = m}}
Mine == FlightOf(flight, n) \cup NumbersOf(queue, n) \cup ReadOf(got, n)

PacketOf(m) == [id : {ident, -1}, short : BOOLEAN, ping : 0 .. m, seq : 0 .. NPackets - 1]

PingTypes ==
    /\ pc \in {"task", "pinger", "recvfrom", "return", "returned"}
    /\ i \in 0 .. NPackets /\ n \in 0 .. MaxTasks /\ cksum \in UShort /\ ident \in UShort
    /\ IsFiniteSet(flight)
    /\ flight \subseteq [ping : 1 .. n, seq : 0 .. NPackets - 1, bytes : Seq(Byte)]
    /\ queue \in Seq(PacketOf(n)) /\ got \in Seq([packet : PacketOf(n), r : {0, 1}])
    /\ result \in {0, -1} /\ sockets \in 0 .. n
    /\ others \in 0 .. MaxOthers /\ faults \in 0 .. MaxFaults

(* Packets that were not read, what went wrong, and this ping's requests.   *)
Unread == Cardinality(flight) + Len(queue)
Losses == others + faults
Own == Cardinality(Mine)

(* A packet that was not read is there because another one was, or because  *)
(* nothing was; while a ping waits, its request is one more.                *)
Budget == Unread <= IF pc = "recvfrom" THEN Losses + 1 ELSE Losses

(* The task was not refused, and its ping did not give up.                  *)
Pinged == pc \in {"pinger", "recvfrom", "return"} \/ (pc = "returned" /\ result = 0)

(* Every request of a ping is among its own, or it was lost; and what was   *)
(* read or waits in its stead was one that somebody else sent, or is there  *)
(* because another one was lost.                                            *)
Spent == Pinged => i + Unread <= Own + Losses

(* A ping's next request is new.                                            *)
Place ==
    /\ pc \in {"pinger", "recvfrom"} => i < NPackets /\ n > 0
    /\ pc = "return" \/ (pc = "returned" /\ result = 0) => i = NPackets
    /\ pc = "pinger" => \A k \in Mine : k < i
    /\ pc = "recvfrom" => \A k \in Mine : k <= i

PingInv == PingTypes /\ ChecksumVerifies /\ Budget /\ Spent /\ Place

(* A packet more at the end, or one less at the beginning.                  *)
LEMMA NumbersAppend ==
    ASSUME NEW S, NEW s \in Seq(S), NEW e \in S, NEW m
    PROVE  NumbersOf(Append(s, e), m) = NumbersOf(s, m) \cup (IF e.ping = m THEN {e.seq} ELSE {})
<1> DEFINE t == Append(s, e)
<1>1. /\ Len(s) \in Nat /\ DOMAIN s = 1 .. Len(s) /\ DOMAIN t = 1 .. Len(s) + 1
      /\ \A k \in 1 .. Len(s) : t[k] = s[k]
      /\ t[Len(s) + 1] = e
  BY AppendProperties, LenProperties
<1> HIDE DEF t
<1>2. NumbersOf(t, m) = NumbersOf(s, m) \cup (IF e.ping = m THEN {e.seq} ELSE {})
  <2>1. ASSUME NEW v \in NumbersOf(t, m)
        PROVE  v \in NumbersOf(s, m) \cup (IF e.ping = m THEN {e.seq} ELSE {})
    <3>1. PICK k \in DOMAIN t : t[k].ping = m /\ v = t[k].seq
      BY <2>1 DEF NumbersOf
    <3>2. CASE k = Len(s) + 1
      BY <1>1, <3>1, <3>2
    <3>3. CASE k \in 1 .. Len(s)
      BY <1>1, <3>1, <3>3 DEF NumbersOf
    <3>4. QED
      BY <1>1, <3>2, <3>3
  <2>2. ASSUME NEW v \in NumbersOf(s, m) PROVE v \in NumbersOf(t, m)
    <3>1. PICK k \in DOMAIN s : s[k].ping = m /\ v = s[k].seq
      BY <2>2 DEF NumbersOf
    <3>2. k \in DOMAIN t /\ t[k] = s[k]
      BY <1>1
    <3>3. QED
      BY <3>1, <3>2 DEF NumbersOf
  <2>3. e.ping = m => e.seq \in NumbersOf(t, m)
    BY <1>1 DEF NumbersOf
  <2>4. QED
    BY <2>1, <2>2, <2>3
<1>3. QED
  BY <1>2 DEF t

(* The packet at the head is the one that the rest lacks.                   *)
LEMMA NumbersTail ==
    ASSUME NEW S, NEW s \in Seq(S), s # <<>>, NEW m
    PROVE  /\ Tail(s) \in Seq(S) /\ Head(s) \in S /\ Len(s) \in Nat /\ Len(Tail(s)) = Len(s) - 1
           /\ NumbersOf(s, m) =
                NumbersOf(Tail(s), m) \cup (IF Head(s).ping = m THEN {Head(s).seq} ELSE {})
<1> DEFINE t == Tail(s)
<1>1. /\ Len(s) \in Nat /\ Len(s) > 0 /\ DOMAIN s = 1 .. Len(s)
      /\ t \in Seq(S) /\ Len(t) = Len(s) - 1 /\ DOMAIN t = 1 .. Len(s) - 1
      /\ Head(s) = s[1] /\ Head(s) \in S
      /\ \A k \in 1 .. Len(s) - 1 : t[k] = s[k + 1]
  <2>1. Len(s) \in Nat /\ Len(s) > 0 /\ DOMAIN s = 1 .. Len(s)
    BY EmptySeq, LenProperties
  <2>2. t \in Seq(S) /\ Len(t) = Len(s) - 1 /\ \A k \in 1 .. Len(s) - 1 : t[k] = s[k + 1]
    BY <2>1, HeadTailProperties
  <2>3. Head(s) = s[1] /\ Head(s) \in S
    BY <2>1, HeadTailProperties
  <2> HIDE DEF t
  <2>4. DOMAIN t = 1 .. Len(s) - 1
    BY <2>2, LenProperties
  <2>5. QED
    BY <2>1, <2>2, <2>3, <2>4
<1> HIDE DEF t
<1>2. NumbersOf(s, m) = NumbersOf(t, m) \cup (IF s[1].ping = m THEN {s[1].seq} ELSE {})
  <2>1. ASSUME NEW v \in NumbersOf(s, m)
        PROVE  v \in NumbersOf(t, m) \cup (IF s[1].ping = m THEN {s[1].seq} ELSE {})
    <3>1. PICK k \in DOMAIN s : s[k].ping = m /\ v = s[k].seq
      BY <2>1 DEF NumbersOf
    <3>2. CASE k = 1
      BY <3>1, <3>2
    <3>3. CASE k # 1
      <4>1. k - 1 \in DOMAIN t /\ k - 1 + 1 = k
        BY <1>1, <3>3
      <4>2. t[k - 1] = s[k]
        BY <1>1, <4>1
      <4>3. QED
        BY <3>1, <4>1, <4>2 DEF NumbersOf
    <3>4. QED
      BY <3>2, <3>3
  <2>2. ASSUME NEW v \in NumbersOf(t, m) PROVE v \in NumbersOf(s, m)
    <3>1. PICK k \in DOMAIN t : t[k].ping = m /\ v = t[k].seq
      BY <2>2 DEF NumbersOf
    <3>2. k + 1 \in DOMAIN s /\ t[k] = s[k + 1]
      BY <1>1
    <3>3. QED
      BY <3>1, <3>2 DEF NumbersOf
  <2>3. s[1].ping = m => s[1].seq \in NumbersOf(s, m)
    BY <1>1 DEF NumbersOf
  <2>4. QED
    BY <2>1, <2>2, <2>3
<1>3. QED
  BY <1>1, <1>2 DEF t

(* What is read is one packet more.                                         *)
LEMMA ReadAppend ==
    ASSUME NEW S, NEW s \in Seq(S), NEW e \in S, NEW m
    PROVE  ReadOf(Append(s, e), m) =
               ReadOf(s, m) \cup (IF e.packet.ping = m THEN {e.packet.seq} ELSE {})
<1> DEFINE t == Append(s, e)
<1>1. /\ Len(s) \in Nat /\ DOMAIN s = 1 .. Len(s) /\ DOMAIN t = 1 .. Len(s) + 1
      /\ \A k \in 1 .. Len(s) : t[k] = s[k]
      /\ t[Len(s) + 1] = e
  BY AppendProperties, LenProperties
<1> HIDE DEF t
<1>2. ReadOf(t, m) = ReadOf(s, m) \cup (IF e.packet.ping = m THEN {e.packet.seq} ELSE {})
  <2>1. ASSUME NEW v \in ReadOf(t, m)
        PROVE  v \in ReadOf(s, m) \cup (IF e.packet.ping = m THEN {e.packet.seq} ELSE {})
    <3>1. PICK k \in DOMAIN t : t[k].packet.ping = m /\ v = t[k].packet.seq
      BY <2>1 DEF ReadOf
    <3>2. CASE k = Len(s) + 1
      BY <1>1, <3>1, <3>2
    <3>3. CASE k \in 1 .. Len(s)
      BY <1>1, <3>1, <3>3 DEF ReadOf
    <3>4. QED
      BY <1>1, <3>2, <3>3
  <2>2. ASSUME NEW v \in ReadOf(s, m) PROVE v \in ReadOf(t, m)
    <3>1. PICK k \in DOMAIN s : s[k].packet.ping = m /\ v = s[k].packet.seq
      BY <2>2 DEF ReadOf
    <3>2. k \in DOMAIN t /\ t[k] = s[k]
      BY <1>1
    <3>3. QED
      BY <3>1, <3>2 DEF ReadOf
  <2>3. e.packet.ping = m => e.packet.seq \in ReadOf(t, m)
    BY <1>1 DEF ReadOf
  <2>4. QED
    BY <2>1, <2>2, <2>3
<1>3. QED
  BY <1>2 DEF t

(* Sets that grow or shrink by one element at most.                         *)
LEMMA OneMore ==
    ASSUME NEW A, NEW B, NEW e, IsFiniteSet(B), A \subseteq B \cup {e}
    PROVE  /\ IsFiniteSet(A) /\ Cardinality(A) \in Nat /\ Cardinality(B) \in Nat
           /\ Cardinality(A) <= Cardinality(B) + 1
<1>1. /\ IsFiniteSet(B \cup {e}) /\ Cardinality(B) \in Nat
      /\ Cardinality(B \cup {e}) = Cardinality(B) \/ Cardinality(B \cup {e}) = Cardinality(B) + 1
  BY FS_AddElement, FS_CardinalityType
<1>2. IsFiniteSet(A) /\ Cardinality(A) <= Cardinality(B \cup {e})
  BY <1>1, FS_Subset
<1>3. QED
  BY <1>1, <1>2, FS_CardinalityType

(* The numbers are the requests', and there are as many as packets at most. *)
LEMMA MineFacts ==
    ASSUME PingTypes
    PROVE  /\ Mine \subseteq 0 .. NPackets - 1 /\ IsFiniteSet(Mine) /\ Cardinality(Mine) \in Nat
           /\ Cardinality(flight) \in Nat /\ Len(queue) \in Nat
           /\ i \in Nat /\ n \in Nat /\ others \in Nat /\ faults \in Nat
<1>1. FlightOf(flight, n) \subseteq 0 .. NPackets - 1
  BY DEF PingTypes, FlightOf
<1>2. \A k \in DOMAIN queue : queue[k].seq \in 0 .. NPackets - 1
  <2>1. \A k \in DOMAIN queue : queue[k] \in PacketOf(n)
    BY ElementOfSeq, LenProperties DEF PingTypes
  <2>2. QED
    BY <2>1 DEF PacketOf
<1>3. \A k \in DOMAIN got : got[k].packet.seq \in 0 .. NPackets - 1
  <2>1. \A k \in DOMAIN got : got[k] \in [packet : PacketOf(n), r : {0, 1}]
    BY ElementOfSeq, LenProperties DEF PingTypes
  <2>2. \A k \in DOMAIN got : got[k].packet \in PacketOf(n)
    BY <2>1
  <2>3. QED
    BY <2>2 DEF PacketOf
<1>4. NumbersOf(queue, n) \subseteq 0 .. NPackets - 1
  BY <1>2 DEF NumbersOf
<1>5. ReadOf(got, n) \subseteq 0 .. NPackets - 1
  BY <1>3 DEF ReadOf
<1>6. Mine \subseteq 0 .. NPackets - 1
  BY <1>1, <1>4, <1>5 DEF Mine
<1>7. IsFiniteSet(0 .. NPackets - 1)
  BY IcmpAssumption, FS_Interval
<1>8. IsFiniteSet(Mine) /\ Cardinality(Mine) \in Nat
  BY <1>6, <1>7, FS_Subset, FS_CardinalityType
<1>9. Cardinality(flight) \in Nat /\ Len(queue) \in Nat
  BY FS_CardinalityType, LenProperties DEF PingTypes
<1>10. i \in Nat /\ n \in Nat /\ others \in Nat /\ faults \in Nat
  BY IcmpAssumption DEF PingTypes
<1>11. QED
  BY <1>6, <1>8, <1>9, <1>10

(* What the numbers do: a is i, u Unread, m Own, l Losses, and u1, m1 what  *)
(* they become.                                                             *)
LEMMA BalanceBegun ==
    \A u, l, u1 \in Nat : u <= l /\ u1 <= u => u1 <= l /\ 0 + u1 <= 0 + l
OBVIOUS

(* A request is on its way, and is this ping's own.                         *)
LEMMA BalanceSent ==
    \A a, u, m, l, u1 \in Nat :
        u <= l /\ a + u <= m + l /\ u1 <= u + 1 => u1 <= l + 1 /\ a + u1 <= (m + 1) + l
OBVIOUS

(* A request was lost on its way out.                                       *)
LEMMA BalanceNotSent ==
    \A a, u, m, l, m1 \in Nat :
        u <= l /\ a + u <= m + l /\ m <= m1 => u <= (l + 1) + 1 /\ a + u <= m1 + (l + 1)
OBVIOUS

(* A packet was read.                                                       *)
LEMMA BalanceRead ==
    \A a, u, m, l, u1, m1 \in Nat :
        u <= l + 1 /\ a + u <= m + l /\ u1 + 1 = u /\ m <= m1
            => u1 <= l /\ (a + 1) + u1 <= m1 + l
OBVIOUS

(* Reading failed.                                                          *)
LEMMA BalanceNotRead ==
    \A a, u, m, l \in Nat :
        a + u <= m + l => (a + 1) + u <= m + (l + 1)
OBVIOUS

(* A host's answer arrived, or nobody listened.                             *)
LEMMA BalanceAnswered ==
    \A a, u, m, l, u1, m1 \in Nat :
        a + u <= m + l /\ u1 <= u /\ m <= m1 => a + u1 <= m1 + l
OBVIOUS

(* A packet was dropped, which may have been this ping's own.               *)
LEMMA BalanceDropped ==
    \A a, u, m, l, u1, m1 \in Nat :
        a + u <= m + l /\ u1 + 1 = u /\ m <= m1 + 1 => a + u1 <= m1 + l
OBVIOUS

(* The network lost one.                                                    *)
LEMMA BalanceLost ==
    \A a, u, m, l, u1, m1 \in Nat :
        a + u <= m + l /\ u1 <= u /\ m <= m1 + 1 => a + u1 <= m1 + (l + 1)
OBVIOUS

(* One that somebody else sent came.                                        *)
LEMMA BalanceOther ==
    \A a, u, m, l, u1, m1 \in Nat :
        a + u <= m + l /\ u1 <= u + 1 /\ m <= m1 => a + u1 <= m1 + (l + 1)
OBVIOUS

(* A packet goes from the network to the socket, or to nobody.              *)
LEMMA BalanceMoved ==
    \A f, f1, l, l1 \in Nat : f = f1 + 1 /\ l1 <= l + 1 => f1 + l1 <= f + l
OBVIOUS

(* A packet leaves the network.                                             *)
LEMMA BalanceTaken == \A f, f1, l \in Nat : f = f1 + 1 => (f1 + l) + 1 = f + l
OBVIOUS

(* A packet comes into the socket.                                          *)
LEMMA BalanceCame == \A f, l, l1 \in Nat : l1 <= l + 1 => f + l1 <= f + l + 1
OBVIOUS

(* One less is no more.                                                     *)
LEMMA OneLess ==
    \A u, u1 \in Nat : u1 + 1 = u => u1 <= u
OBVIOUS

(* The bound on the unread packets stays, or grows as they do.              *)
LEMMA BudgetGrows ==
    \A u, b, u1 \in Nat : u <= b => (u1 <= u => u1 <= b) /\ (u1 <= u + 1 => u1 <= b + 1)
OBVIOUS

(* What is counted.                                                         *)
Naturals == i \in Nat /\ Unread \in Nat /\ Losses \in Nat /\ Own \in Nat

(* The counts are numbers.                                                  *)
LEMMA NaturalsHere ==
    ASSUME PingTypes
    PROVE  Naturals
<1>1. \A a, b \in Nat : a + b \in Nat
  OBVIOUS
<1>2. QED
  BY <1>1, MineFacts, Zenon DEF Naturals, Unread, Losses, Own

(* So they are after a step.                                                *)
LEMMA NaturalsNext ==
    PingTypes' => i' \in Nat /\ Unread' \in Nat /\ Losses' \in Nat /\ Own' \in Nat
<1>1. PingTypes => Naturals
  BY NaturalsHere
<1>2. PingTypes' => Naturals'
  BY <1>1, PTL
<1>3. QED
  BY <1>2 DEF Naturals

(* Before the first ping nothing is on its way.                             *)
LEMMA IcmpInitInv == IcmpInit => PingInv
<1> SUFFICES ASSUME IcmpInit PROVE PingInv
  OBVIOUS
<1>1. ident \in UShort /\ 0 \in UShort
  BY IcmpAssumption, UShorts DEF IcmpInit
<1>2. IsFiniteSet(flight) /\ Cardinality(flight) = 0
  BY FS_EmptySet DEF IcmpInit
<1>3. queue = <<>> /\ got = <<>> /\ Len(queue) = 0
  BY DEF IcmpInit
<1>4. queue \in Seq(PacketOf(n)) /\ got \in Seq([packet : PacketOf(n), r : {0, 1}])
  BY <1>3
<1>5. PingTypes
  BY <1>1, <1>2, <1>4, IcmpAssumption DEF IcmpInit, PingTypes
<1>6. QED
  BY <1>2, <1>3, <1>5 DEF IcmpInit, PingInv, ChecksumVerifies, Budget, Spent, Pinged, Place,
    Unread, Losses

(* Packets of pings up to one are packets of pings up to the next.          *)
LEMMA LaterPackets ==
    ASSUME PingTypes
    PROVE  /\ queue \in Seq(PacketOf(n + 1))
           /\ flight \subseteq [ping : 1 .. n + 1, seq : 0 .. NPackets - 1, bytes : Seq(Byte)]
<1>1. n \in Nat
  BY MineFacts
<1>2. PacketOf(n) \subseteq PacketOf(n + 1)
  <2>1. 0 .. n \subseteq 0 .. n + 1
    BY <1>1
  <2>2. QED
    BY <2>1 DEF PacketOf
<1>3. queue \in Seq(PacketOf(n + 1))
  BY <1>2 DEF PingTypes
<1>4. flight \subseteq [ping : 1 .. n + 1, seq : 0 .. NPackets - 1, bytes : Seq(Byte)]
  <2>1. 1 .. n \subseteq 1 .. n + 1
    BY <1>1
  <2>2. QED
    BY <2>1 DEF PingTypes
<1>5. QED
  BY <1>3, <1>4

(* A ping that is refused sends nothing (icmp_task).                        *)
LEMMA PingFailsKeeps ==
    ASSUME PingInv, PingFails
    PROVE  PingInv'
<1>0. /\ PingTypes /\ i \in Nat /\ n \in Nat /\ others \in Nat /\ faults \in Nat
      /\ Cardinality(flight) \in Nat /\ Len(queue) \in Nat
      /\ queue \in Seq(PacketOf(n + 1))
      /\ flight \subseteq [ping : 1 .. n + 1, seq : 0 .. NPackets - 1, bytes : Seq(Byte)]
  <2>1. PingTypes
    BY DEF PingInv
  <2>2. QED
    BY <2>1, MineFacts, LaterPackets
<1>1. PingTypes'
  <2>1. PacketOf(n)' = PacketOf(n + 1)
    BY DEF PacketOf, PingFails
  <2>2. n' = n + 1 /\ n + 1 \in 0 .. MaxTasks /\ sockets \in 0 .. n + 1 /\ got' = <<>>
        /\ faults' \in 0 .. MaxFaults
    BY <1>0, IcmpAssumption DEF PingTypes, PingFails, Fault
  <2>3. queue' \in Seq(PacketOf(n)') /\ got' \in Seq([packet : PacketOf(n)', r : {0, 1}])
    BY <1>0, <2>1, <2>2 DEF PingFails
  <2>4. QED
    BY <1>0, <2>2, <2>3 DEF PingTypes, PingFails
<1>2. Budget'
  <2>1. Unread' = Unread /\ Losses' = Losses + 1 /\ Losses \in Nat /\ Unread \in Nat
    BY <1>0, NaturalsHere DEF PingFails, Fault, Unread, Losses, Naturals
  <2>2. Unread <= Losses
    BY DEF PingInv, Budget, PingFails
  <2>3. Unread' <= Losses'
    BY <2>1, <2>2
  <2>4. QED
    BY <2>1, <2>3 DEF Budget
<1>3. QED
  BY <1>1, <1>2 DEF PingInv, PingFails, ChecksumVerifies, Spent, Pinged, Place

(* A ping begins with an empty socket; what others left is on its way.      *)
LEMMA IcmpPingKeeps ==
    ASSUME PingInv, IcmpPing
    PROVE  PingInv'
<1>0. /\ PingTypes /\ i \in Nat /\ n \in Nat /\ others \in Nat /\ faults \in Nat
      /\ Cardinality(flight) \in Nat /\ Len(queue) \in Nat
      /\ queue \in Seq(PacketOf(n + 1))
      /\ flight \subseteq [ping : 1 .. n + 1, seq : 0 .. NPackets - 1, bytes : Seq(Byte)]
  <2>1. PingTypes
    BY DEF PingInv
  <2>2. QED
    BY <2>1, MineFacts, LaterPackets
<1>1. PingTypes'
  BY <1>0, IcmpAssumption DEF PingTypes, IcmpPing
<1>2. Mine' = {}
  <2>1. FlightOf(flight, n + 1) = {}
    <3>1. \A p \in flight : p.ping \in 1 .. n
      BY DEF PingInv, PingTypes
    <3>2. QED
      BY <3>1, <1>0 DEF PingInv, FlightOf
  <2>2. NumbersOf(<<>>, n + 1) = {} /\ ReadOf(<<>>, n + 1) = {}
    BY DEF NumbersOf, ReadOf
  <2>3. QED
    BY <2>1, <2>2 DEF IcmpPing, Mine
<1>3. /\ Own' = 0 /\ Unread' <= Unread /\ Unread' \in Nat /\ Losses' = Losses /\ i' = 0
      /\ Losses \in Nat /\ Unread \in Nat
  <2>1. Own' = 0
    BY <1>2, FS_EmptySet DEF Own
  <2>2. Len(queue') = 0 /\ flight' = flight /\ others' = others /\ faults' = faults /\ i' = 0
    BY DEF IcmpPing
  <2>3. Unread' = Cardinality(flight) /\ Losses' = Losses
    BY <1>0, <2>2 DEF Unread, Losses
  <2>4. QED
    BY <1>0, <2>1, <2>2, <2>3 DEF Unread, Losses
<1>4. Budget' /\ Spent'
  <2>1. Unread <= Losses
    BY DEF PingInv, Budget, IcmpPing
  <2>2. Unread' <= Losses /\ 0 + Unread' <= 0 + Losses
    BY <1>3, <2>1, BalanceBegun, Zenon
  <2>3. QED
    BY <1>3, <2>2 DEF Budget, Spent, IcmpPing
<1>5. Place'
  BY <1>2, <1>0, IcmpAssumption DEF PingInv, Place, IcmpPing
<1>6. ChecksumVerifies'
  BY DEF PingInv, ChecksumVerifies, IcmpPing
<1>7. QED
  BY <1>1, <1>4, <1>5, <1>6 DEF PingInv

(* A request is the next of its ping, and it verifies.                      *)
LEMMA PingerKeeps ==
    ASSUME PingInv, Pinger
    PROVE  PingInv'
<1>0. /\ PingTypes /\ i \in Nat /\ n \in Nat /\ others \in Nat /\ faults \in Nat
      /\ Cardinality(flight) \in Nat /\ Len(queue) \in Nat
      /\ Mine \subseteq 0 .. NPackets - 1 /\ IsFiniteSet(Mine) /\ Cardinality(Mine) \in Nat
      /\ IsFiniteSet(flight) /\ ident \in UShort
  <2>1. PingTypes
    BY DEF PingInv
  <2>2. QED
    BY <2>1, MineFacts DEF PingTypes
<1>1. pc = "pinger" /\ pc' = "recvfrom" /\ i < NPackets /\ n > 0 /\ \A k \in Mine : k < i
  BY DEF PingInv, Place, Pinger
<1>2. UNCHANGED <<ident, i, n, queue, result, sockets, got, others>>
  BY DEF Pinger
<1>3. i \in UShort /\ i \in 0 .. NPackets - 1
  <2>1. i <= 65535
    <3>1. NPackets <= 65535
      BY IcmpAssumption, SMT DEF MaxUShort
    <3>2. QED
      BY <1>0, <1>1, <3>1, IcmpAssumption, SMT
  <2>2. QED
    BY <1>0, <1>1, <2>1, UShorts, IcmpAssumption
<1>4. PICK payload \in Payloads :
        LET ck == InCksum(Request(0, i, payload))
            packet == [ping |-> n, seq |-> i, bytes |-> Request(ck, i, payload)]
        IN  /\ cksum' = ck
            /\ \/ flight' = flight \cup {packet} /\ UNCHANGED faults
               \/ Fault /\ UNCHANGED flight
  BY DEF Pinger
<1> DEFINE ck == InCksum(Request(0, i, payload))
           bytes == Request(ck, i, payload)
           packet == [ping |-> n, seq |-> i, bytes |-> bytes]
<1>5. ck \in UShort /\ bytes \in Seq(Byte) /\ Verifies(bytes)
  BY <1>0, <1>3, RequestVerifies
<1> HIDE DEF ck, bytes
<1>6. cksum' = ck
      /\ \/ flight' = flight \cup {packet} /\ faults' = faults
         \/ Fault /\ flight' = flight
  BY <1>4 DEF ck, bytes
<1>7. packet \in [ping : 1 .. n, seq : 0 .. NPackets - 1, bytes : Seq(Byte)]
  BY <1>0, <1>1, <1>3, <1>5
<1>8. packet.ping = n /\ packet.seq = i /\ packet.bytes = bytes
  OBVIOUS
<1> HIDE DEF packet
<1>9. /\ IsFiniteSet(flight') /\ Cardinality(flight') \in Nat
      /\ Cardinality(flight') <= Cardinality(flight) + 1
      /\ flight' \subseteq flight \cup {packet}
  <2>1. flight' \subseteq flight \cup {packet}
    BY <1>6
  <2>2. QED
    BY <1>0, <2>1, OneMore
<1>10. PingTypes'
  <2>1. PacketOf(n)' = PacketOf(n)
    BY <1>2 DEF PacketOf
  <2>2. queue' \in Seq(PacketOf(n)') /\ got' \in Seq([packet : PacketOf(n)', r : {0, 1}])
    BY <1>0, <1>2, <2>1 DEF PingTypes
  <2>3. faults' \in 0 .. MaxFaults
    BY <1>0, <1>6, IcmpAssumption DEF PingTypes, Fault
  <2>4. flight' \subseteq [ping : 1 .. n, seq : 0 .. NPackets - 1, bytes : Seq(Byte)]
    BY <1>0, <1>7, <1>9 DEF PingTypes
  <2>5. cksum' \in UShort /\ ident' \in UShort
    BY <1>0, <1>2, <1>5, <1>6
  <2>6. QED
    BY <1>0, <1>1, <1>2, <1>9, <2>2, <2>3, <2>4, <2>5 DEF PingTypes
<1>11. ChecksumVerifies'
  BY <1>5, <1>8, <1>9 DEF PingInv, ChecksumVerifies
<1>12. Mine \subseteq Mine' /\ Mine' \subseteq Mine \cup {i}
       /\ (flight' = flight \cup {packet} => i \in Mine')
  <2>1. FlightOf(flight', n) \subseteq FlightOf(flight, n) \cup {i}
    BY <1>8, <1>9 DEF FlightOf
  <2>2. FlightOf(flight, n) \subseteq FlightOf(flight', n)
    BY <1>6 DEF FlightOf
  <2>3. flight' = flight \cup {packet} => i \in FlightOf(flight', n)
    BY <1>8 DEF FlightOf
  <2>4. Mine' = FlightOf(flight', n) \cup NumbersOf(queue, n) \cup ReadOf(got, n)
    BY <1>2 DEF Mine
  <2>5. QED
    BY <2>1, <2>2, <2>3, <2>4 DEF Mine
<1>13. i \notin Mine
  BY <1>0, <1>1
<1>14. /\ IsFiniteSet(Mine') /\ Cardinality(Mine') \in Nat
       /\ Cardinality(Mine) <= Cardinality(Mine')
       /\ flight' = flight \cup {packet} => Cardinality(Mine') = Cardinality(Mine) + 1
  <2>1. IsFiniteSet(Mine') /\ Cardinality(Mine') \in Nat
    BY <1>0, <1>12, OneMore
  <2>2. Cardinality(Mine) <= Cardinality(Mine')
    BY <1>12, <2>1, FS_Subset
  <2>3. flight' = flight \cup {packet} => Mine' = Mine \cup {i}
    BY <1>12
  <2>4. Cardinality(Mine \cup {i}) = Cardinality(Mine) + 1
    BY <1>0, <1>13, FS_AddElement
  <2>5. QED
    BY <2>1, <2>2, <2>3, <2>4
<1>15. \/ Unread' <= Unread + 1 /\ Losses' = Losses /\ Own' = Own + 1
       \/ Unread' = Unread /\ Losses' = Losses + 1 /\ Own <= Own'
  <2>1. Len(queue') = Len(queue) /\ others' = others
    BY <1>2
  <2>2. CASE flight' = flight \cup {packet} /\ faults' = faults
    <3>1. Own' = Own + 1
      BY <1>14, <2>2 DEF Own
    <3>2. Unread' <= Unread + 1
      BY <1>0, <1>9, <2>1 DEF Unread
    <3>3. Losses' = Losses
      BY <2>1, <2>2 DEF Losses
    <3>4. QED
      BY <3>1, <3>2, <3>3
  <2>3. CASE Fault /\ flight' = flight
    <3>1. Own <= Own'
      BY <1>14 DEF Own
    <3>2. Unread' = Unread
      BY <2>1, <2>3 DEF Unread
    <3>3. Losses' = Losses + 1
      BY <1>0, <2>1, <2>3 DEF Losses, Fault
    <3>4. QED
      BY <3>1, <3>2, <3>3
  <2>4. QED
    BY <1>6, <2>2, <2>3
<1>16. Budget' /\ Spent'
  <2>1. Unread <= Losses /\ i + Unread <= Own + Losses
    BY <1>1 DEF PingInv, Budget, Spent, Pinged
  <2>2. i \in Nat /\ Unread \in Nat /\ Losses \in Nat /\ Own \in Nat
    BY <1>0, NaturalsHere DEF Naturals
  <2>3. i' \in Nat /\ Unread' \in Nat /\ Losses' \in Nat /\ Own' \in Nat /\ i' = i
    <3>1. PingTypes'
      BY <1>10
    <3>2. QED
      BY <1>2, <3>1, NaturalsNext
  <2>4. Unread' <= Losses' + 1 /\ i' + Unread' <= Own' + Losses'
    <3>1. CASE Unread' <= Unread + 1 /\ Losses' = Losses /\ Own' = Own + 1
      <4>1. Unread' <= Losses + 1 /\ i + Unread' <= (Own + 1) + Losses
        BY <2>1, <2>2, <2>3, <3>1, BalanceSent, Zenon
      <4>2. QED
        BY <2>3, <3>1, <4>1, Zenon
    <3>2. CASE Unread' = Unread /\ Losses' = Losses + 1 /\ Own <= Own'
      <4>1. Unread <= (Losses + 1) + 1 /\ i + Unread <= Own' + (Losses + 1)
        BY <2>1, <2>2, <2>3, <3>2, BalanceNotSent, Zenon
      <4>2. QED
        BY <2>3, <3>2, <4>1, Zenon
    <3>3. QED
      BY <1>15, <3>1, <3>2
  <2>5. QED
    BY <1>1, <2>4 DEF Budget, Spent
<1>17. Place'
  BY <1>0, <1>1, <1>2, <1>12 DEF Place
<1>18. QED
  BY <1>10, <1>11, <1>16, <1>17 DEF PingInv

(* What is read is kept, so that it stays one of the ping's own.            *)
LEMMA RecvfromKeeps ==
    ASSUME PingInv, Recvfrom
    PROVE  PingInv'
<1>0. /\ PingTypes /\ i \in Nat /\ n \in Nat /\ IsFiniteSet(flight) /\ IsFiniteSet(Mine)
      /\ Cardinality(flight) \in Nat /\ Naturals
      /\ queue \in Seq(PacketOf(n)) /\ got \in Seq([packet : PacketOf(n), r : {0, 1}])
  <2>1. PingTypes
    BY DEF PingInv
  <2>2. QED
    BY <2>1, MineFacts, NaturalsHere DEF PingTypes
<1>1. /\ pc = "recvfrom" /\ queue # <<>> /\ i' = i + 1 /\ i < NPackets /\ n > 0
      /\ pc' = (IF i + 1 < NPackets THEN "pinger" ELSE "return")
      /\ queue' = Tail(queue)
      /\ got' = Append(got, [packet |-> Head(queue), r |-> PrPack(Head(queue))])
  BY DEF PingInv, Place, Recvfrom, NextRequest
<1>2. UNCHANGED <<ident, n, cksum, flight, result, sockets, others, faults>>
  BY DEF Recvfrom
<1> DEFINE head == Head(queue)
           read == [packet |-> head, r |-> PrPack(head)]
<1>3. /\ queue' \in Seq(PacketOf(n)) /\ head \in PacketOf(n) /\ Len(queue) \in Nat
      /\ Len(queue') = Len(queue) - 1
      /\ NumbersOf(queue, n) =
           NumbersOf(queue', n) \cup (IF head.ping = n THEN {head.seq} ELSE {})
  BY <1>0, <1>1, NumbersTail
<1> HIDE DEF head
<1>4. read \in [packet : PacketOf(n), r : {0, 1}] /\ read.packet = head
  BY <1>3 DEF PrPack
<1> HIDE DEF read
<1>5. /\ got' \in Seq([packet : PacketOf(n), r : {0, 1}])
      /\ ReadOf(got', n) = ReadOf(got, n) \cup (IF head.ping = n THEN {head.seq} ELSE {})
  <2>1. got' = Append(got, read)
    BY <1>1 DEF read, head
  <2>2. got' \in Seq([packet : PacketOf(n), r : {0, 1}])
    BY <1>0, <1>4, <2>1, AppendProperties
  <2>3. ReadOf(got', n) =
          ReadOf(got, n) \cup (IF read.packet.ping = n THEN {read.packet.seq} ELSE {})
    <3> DEFINE S == [packet : PacketOf(n), r : {0, 1}]
    <3>1. got \in Seq(S) /\ read \in S
      BY <1>0, <1>4
    <3> HIDE DEF S
    <3>2. QED
      BY <2>1, <3>1, ReadAppend
  <2>4. QED
    BY <1>4, <2>2, <2>3
<1>6. Mine' = Mine
  <2>1. Mine' = FlightOf(flight, n) \cup NumbersOf(queue', n) \cup ReadOf(got', n)
    BY <1>2 DEF Mine
  <2>2. QED
    BY <1>3, <1>5, <2>1 DEF Mine
<1>7. PingTypes'
  <2>1. PacketOf(n)' = PacketOf(n)
    BY <1>2 DEF PacketOf
  <2>2. queue' \in Seq(PacketOf(n)') /\ got' \in Seq([packet : PacketOf(n)', r : {0, 1}])
    BY <1>3, <1>5, <2>1
  <2>3. i' \in 0 .. NPackets /\ pc' \in {"pinger", "return"}
    BY <1>0, <1>1, IcmpAssumption
  <2>4. QED
    BY <1>0, <1>2, <2>2, <2>3 DEF PingTypes
<1>8. Unread' + 1 = Unread /\ Losses' = Losses /\ Own' = Own
  <2>1. Unread' = Cardinality(flight) + (Len(queue) - 1)
    BY <1>2, <1>3 DEF Unread
  <2>2. Unread' + 1 = Unread
    BY <1>0, <1>3, <2>1 DEF Unread
  <2>3. QED
    BY <1>2, <1>6, <2>2 DEF Losses, Own
<1>9. Budget' /\ Spent'
  <2>1. Unread <= Losses + 1 /\ i + Unread <= Own + Losses
    BY <1>1 DEF PingInv, Budget, Spent, Pinged
  <2>2. i \in Nat /\ Unread \in Nat /\ Losses \in Nat /\ Own \in Nat /\ Unread' \in Nat
    BY <1>0, <1>7, NaturalsNext DEF Naturals
  <2>3. Own <= Own
    BY <2>2
  <2>4. Unread' <= Losses /\ (i + 1) + Unread' <= Own + Losses
    BY <1>8, <2>1, <2>2, <2>3, BalanceRead, Zenon
  <2>5. Unread' <= Losses' /\ i' + Unread' <= Own' + Losses'
    BY <1>1, <1>8, <2>4, Zenon
  <2>6. pc' # "recvfrom"
    BY <1>1
  <2>7. QED
    BY <2>5, <2>6 DEF Budget, Spent
<1>10. Place'
  <2>1. \A k \in Mine : k <= i /\ k \in Nat
    BY <1>0, <1>1, MineFacts DEF PingInv, Place
  <2>2. \A k \in Mine : k < i + 1
    BY <1>0, <2>1
  <2>3. i + 1 < NPackets \/ i + 1 = NPackets
    BY <1>0, <1>1, IcmpAssumption
  <2>4. QED
    BY <1>1, <1>2, <1>6, <2>2, <2>3 DEF Place
<1>11. ChecksumVerifies'
  BY <1>2 DEF PingInv, ChecksumVerifies
<1>12. QED
  BY <1>7, <1>9, <1>10, <1>11 DEF PingInv

(* A failed read costs the ping the packet that waits.                      *)
LEMMA RecvfromFailsKeeps ==
    ASSUME PingInv, RecvfromFails
    PROVE  PingInv'
<1>0. PingTypes /\ i \in Nat /\ n \in Nat /\ faults \in Nat /\ others \in Nat /\ Naturals
  <2>1. PingTypes
    BY DEF PingInv
  <2>2. QED
    BY <2>1, MineFacts, NaturalsHere
<1>1. /\ pc = "recvfrom" /\ i' = i + 1 /\ i < NPackets /\ n > 0
      /\ pc' = (IF i + 1 < NPackets THEN "pinger" ELSE "return")
      /\ faults' = faults + 1 /\ faults < MaxFaults
  BY DEF PingInv, Place, RecvfromFails, NextRequest, Fault
<1>2. UNCHANGED <<ident, n, cksum, flight, queue, result, sockets, got, others>>
  BY DEF RecvfromFails
<1>3. Mine' = Mine /\ PacketOf(n)' = PacketOf(n)
  BY <1>2 DEF Mine, PacketOf
<1>4. PingTypes'
  <2>1. i' \in 0 .. NPackets /\ pc' \in {"pinger", "return"} /\ faults' \in 0 .. MaxFaults
    BY <1>0, <1>1, IcmpAssumption
  <2>2. QED
    BY <1>0, <1>2, <1>3, <2>1 DEF PingTypes
<1>5. Unread' = Unread /\ Losses' = Losses + 1 /\ Own' = Own
  BY <1>0, <1>1, <1>2, <1>3 DEF Unread, Losses, Own
<1>6. Budget' /\ Spent'
  <2>1. Unread <= Losses + 1 /\ i + Unread <= Own + Losses
    BY <1>1 DEF PingInv, Budget, Spent, Pinged
  <2>2. i \in Nat /\ Unread \in Nat /\ Losses \in Nat /\ Own \in Nat
    BY <1>0 DEF Naturals
  <2>3. (i + 1) + Unread <= Own + (Losses + 1)
    BY <2>1, <2>2, BalanceNotRead, Zenon
  <2>4. Unread' <= Losses' /\ i' + Unread' <= Own' + Losses'
    BY <1>1, <1>5, <2>1, <2>3, Zenon
  <2>5. pc' # "recvfrom"
    BY <1>1
  <2>6. QED
    BY <2>4, <2>5 DEF Budget, Spent
<1>7. Place'
  <2>1. \A k \in Mine : k <= i /\ k \in Nat
    BY <1>0, <1>1, MineFacts DEF PingInv, Place
  <2>2. \A k \in Mine : k < i + 1
    BY <1>0, <2>1
  <2>3. i + 1 < NPackets \/ i + 1 = NPackets
    BY <1>0, <1>1, IcmpAssumption
  <2>4. QED
    BY <1>1, <1>2, <1>3, <2>2, <2>3 DEF Place
<1>8. ChecksumVerifies'
  BY <1>2 DEF PingInv, ChecksumVerifies
<1>9. QED
  BY <1>4, <1>6, <1>7, <1>8 DEF PingInv

(* The steps between two pings.                                             *)
LEMMA ReturnKeeps ==
    ASSUME PingInv, PingReturns \/ NextTask \/ UNCHANGED icmpVars
    PROVE  PingInv'
<1>1. UNCHANGED <<ident, i, n, cksum, flight, queue, sockets, got, others, faults>>
  BY DEF PingReturns, NextTask, icmpVars
<1>2. /\ result' \in {0, -1} /\ pc' \in {"task", "pinger", "recvfrom", "return", "returned"}
      /\ Pinged' => Pinged
      /\ pc' = "recvfrom" => pc = "recvfrom"
      /\ pc = "recvfrom" => pc' = "recvfrom"
      /\ pc' = "pinger" => pc = "pinger"
      /\ pc' = "return" \/ (pc' = "returned" /\ result' = 0)
            => pc = "return" \/ (pc = "returned" /\ result = 0)
  BY DEF PingInv, PingTypes, PingReturns, NextTask, icmpVars, Pinged
<1>3. Mine' = Mine /\ Own' = Own /\ Unread' = Unread /\ Losses' = Losses
  BY <1>1 DEF Mine, Own, Unread, Losses
<1>4. PingTypes'
  <2>1. PacketOf(n)' = PacketOf(n)
    BY <1>1 DEF PacketOf
  <2>2. QED
    BY <1>1, <1>2, <2>1 DEF PingInv, PingTypes
<1>5. Budget' /\ Spent'
  BY <1>1, <1>2, <1>3 DEF PingInv, Budget, Spent
<1>6. Place' /\ ChecksumVerifies'
  BY <1>1, <1>2, <1>3 DEF PingInv, Place, ChecksumVerifies
<1>7. QED
  BY <1>4, <1>5, <1>6 DEF PingInv

(* Nothing but the network: the process does not move.                      *)
Unmoved == UNCHANGED <<pc, ident, i, n, cksum, result, sockets, got>>

(* A packet that arrives is the socket's last, or nobody's.                 *)
LEMMA ArrivesKeeps ==
    ASSUME PingTypes, Unmoved, NEW q \in PacketOf(n), Arrives(q)
    PROVE  /\ queue' \in Seq(PacketOf(n)) /\ Len(queue') \in Nat
           /\ Len(queue') <= Len(queue) + 1
           /\ NumbersOf(queue, n) \subseteq NumbersOf(queue', n)
           /\ Listening /\ q.ping = n => q.seq \in NumbersOf(queue', n)
           /\ NumbersOf(queue', n) \subseteq NumbersOf(queue, n) \cup {q.seq}
           /\ q.ping # n => NumbersOf(queue', n) = NumbersOf(queue, n)
           /\ ~Listening => queue' = queue
<1>1. queue \in Seq(PacketOf(n)) /\ Len(queue) \in Nat
  BY LenProperties DEF PingTypes
<1>2. CASE Listening
  <2>1. queue' = Append(queue, q)
    BY <1>2 DEF Arrives
  <2>2. queue' \in Seq(PacketOf(n)) /\ Len(queue') = Len(queue) + 1
    BY <1>1, <2>1, AppendProperties
  <2>3. NumbersOf(queue', n) = NumbersOf(queue, n) \cup (IF q.ping = n THEN {q.seq} ELSE {})
    BY <1>1, <2>1, NumbersAppend
  <2>4. Len(queue') \in Nat /\ Len(queue') <= Len(queue) + 1
    BY <1>1, <2>2
  <2>5. QED
    BY <1>2, <2>2, <2>3, <2>4
<1>3. CASE ~Listening
  BY <1>1, <1>3 DEF Arrives
<1>4. QED
  BY <1>2, <1>3

(* A request that is taken from the network is one less; the numbers of     *)
(* the others stay.                                                         *)
LEMMA TakenKeeps ==
    ASSUME PingTypes, NEW p \in flight, flight' = flight \ {p}
    PROVE  /\ IsFiniteSet(flight') /\ Cardinality(flight') \in Nat
           /\ Cardinality(flight) = Cardinality(flight') + 1
           /\ flight' \subseteq flight
           /\ FlightOf(flight', n) \subseteq FlightOf(flight, n)
           /\ FlightOf(flight, n) \subseteq
                FlightOf(flight', n) \cup (IF p.ping = n THEN {p.seq} ELSE {})
           /\ p.ping \in 1 .. n /\ p.seq \in 0 .. NPackets - 1
<1>1. IsFiniteSet(flight) /\ Cardinality(flight) \in Nat
  BY FS_CardinalityType DEF PingTypes
<1>2. /\ IsFiniteSet(flight') /\ Cardinality(flight') \in Nat
      /\ Cardinality(flight) = Cardinality(flight') + 1
  <2>1. IsFiniteSet(flight') /\ Cardinality(flight') = Cardinality(flight) - 1
    BY <1>1, FS_RemoveElement
  <2>2. QED
    BY <1>1, <2>1, FS_CardinalityType
<1>3. p.ping \in 1 .. n /\ p.seq \in 0 .. NPackets - 1 /\ flight' \subseteq flight
  BY DEF PingTypes
<1>4. /\ FlightOf(flight', n) \subseteq FlightOf(flight, n)
      /\ FlightOf(flight, n) \subseteq
           FlightOf(flight', n) \cup (IF p.ping = n THEN {p.seq} ELSE {})
  BY DEF FlightOf
<1>5. QED
  BY <1>2, <1>3, <1>4, Zenon

(* What the network does to the numbers is enough for the rest.             *)
LEMMA NetworkKeeps ==
    ASSUME PingInv, Unmoved, PingTypes', flight' \subseteq flight, Mine' \subseteq Mine,
           \/ Unread' <= Unread /\ Own <= Own' /\ Losses' = Losses
           \/ Unread' + 1 = Unread /\ Own <= Own' + 1 /\ Losses' = Losses /\ ~Listening
           \/ Unread' + 1 = Unread /\ Own <= Own' + 1 /\ Losses' = Losses + 1
           \/ Unread' <= Unread + 1 /\ Own <= Own' /\ Losses' = Losses + 1
    PROVE  PingInv'
<1>1. pc' = pc /\ i' = i /\ n' = n /\ result' = result
  BY DEF Unmoved
<1>2. /\ i \in Nat /\ Unread \in Nat /\ Losses \in Nat /\ Own \in Nat
      /\ Unread' \in Nat /\ Losses' \in Nat /\ Own' \in Nat
  BY NaturalsHere, NaturalsNext DEF PingInv, Naturals
<1>3. Unread' <= Unread \/ (Unread' <= Unread + 1 /\ Losses' = Losses + 1)
  BY <1>2, OneLess, Zenon
<1>4. Losses' = Losses \/ Losses' = Losses + 1
  OBVIOUS
<1>5. Budget'
  <2> DEFINE bound == IF pc = "recvfrom" THEN Losses + 1 ELSE Losses
             bound1 == IF pc = "recvfrom" THEN Losses' + 1 ELSE Losses'
  <2>1. Unread <= bound
    BY DEF PingInv, Budget
  <2>2. /\ bound \in Nat /\ bound1 \in Nat
        /\ Losses' = Losses => bound1 = bound
        /\ Losses' = Losses + 1 => bound1 = bound + 1
    <3>1. bound \in Nat /\ bound1 \in Nat
      <4>1. \A u \in Nat : u + 1 \in Nat
        OBVIOUS
      <4>2. QED
        BY <1>2, <4>1, Zenon
    <3>2. Losses' = Losses => bound1 = bound
      BY Zenon
    <3>3. Losses' = Losses + 1 => bound1 = bound + 1
      BY Zenon
    <3>4. QED
      BY <3>1, <3>2, <3>3, Zenon
  <2> HIDE DEF bound, bound1
  <2>3. Unread' <= bound1
    <3>1. (Unread' <= Unread => Unread' <= bound) /\ (Unread' <= Unread + 1 => Unread' <= bound + 1)
      BY <1>2, <2>1, <2>2, BudgetGrows, Zenon
    <3>2. Unread' <= bound => Unread' <= bound + 1
      BY <1>2, <2>2
    <3>3. QED
      BY <1>3, <1>4, <2>2, <3>1, <3>2, Zenon
  <2>4. QED
    BY <1>1, <2>3 DEF Budget, bound1
<1>6. Spent'
  <2>1. SUFFICES ASSUME Pinged PROVE i + Unread' <= Own' + Losses'
    BY <1>1 DEF Spent, Pinged
  <2>2. i + Unread <= Own + Losses
    BY <2>1 DEF PingInv, Spent
  <2>3. CASE Unread' <= Unread /\ Own <= Own' /\ Losses' = Losses
    BY <1>2, <2>2, <2>3, BalanceAnswered, Zenon
  <2>4. CASE Unread' + 1 = Unread /\ Own <= Own' + 1 /\ Losses' = Losses
    <3>1. i + Unread' <= Own' + Losses
      BY <1>2, <2>2, <2>4, BalanceDropped, Zenon
    <3>2. QED
      BY <2>4, <3>1, Zenon
  <2>5. CASE Unread' + 1 = Unread /\ Own <= Own' + 1 /\ Losses' = Losses + 1
    <3>1. Unread' <= Unread
      BY <1>2, <2>5, OneLess, Zenon
    <3>2. i + Unread' <= Own' + (Losses + 1)
      BY <1>2, <2>2, <2>5, <3>1, BalanceLost, Zenon
    <3>3. QED
      BY <2>5, <3>2, Zenon
  <2>6. CASE Unread' <= Unread + 1 /\ Own <= Own' /\ Losses' = Losses + 1
    <3>1. i + Unread' <= Own' + (Losses + 1)
      BY <1>2, <2>2, <2>6, BalanceOther, Zenon
    <3>2. QED
      BY <2>6, <3>1, Zenon
  <2>7. QED
    BY <2>3, <2>4, <2>5, <2>6
<1>7. Place' /\ ChecksumVerifies'
  BY <1>1 DEF PingInv, Place, ChecksumVerifies
<1>8. QED
  BY <1>5, <1>6, <1>7 DEF PingInv

(* A request's answer waits in the socket, or its ping is over.             *)
LEMMA HostAnswersKeeps ==
    ASSUME PingInv, HostAnswers
    PROVE  PingInv'
<1>0. PingTypes /\ Unmoved /\ UNCHANGED <<others, faults>>
  BY DEF PingInv, HostAnswers, Unmoved
<1>1. PICK p \in flight :
        /\ flight' = flight \ {p}
        /\ IF Verifies(p.bytes) THEN Arrives(Reply(p)) ELSE UNCHANGED queue
  BY DEF HostAnswers
<1>2. Arrives(Reply(p))
  BY <1>1 DEF PingInv, ChecksumVerifies
<1>3. /\ IsFiniteSet(flight') /\ Cardinality(flight') \in Nat
      /\ Cardinality(flight) = Cardinality(flight') + 1
      /\ flight' \subseteq flight
      /\ FlightOf(flight', n) \subseteq FlightOf(flight, n)
      /\ FlightOf(flight, n) \subseteq
           FlightOf(flight', n) \cup (IF p.ping = n THEN {p.seq} ELSE {})
      /\ p.ping \in 1 .. n /\ p.seq \in 0 .. NPackets - 1
  BY <1>0, <1>1, TakenKeeps
<1>4. Reply(p) \in PacketOf(n) /\ Reply(p).ping = p.ping /\ Reply(p).seq = p.seq
  <2>1. p.ping \in 0 .. n
    <3>1. n \in Nat
      BY <1>0, MineFacts
    <3>2. QED
      BY <1>3, <3>1
  <2>2. QED
    BY <1>3, <2>1 DEF Reply, PacketOf
<1>5. /\ queue' \in Seq(PacketOf(n)) /\ Len(queue') \in Nat
      /\ Len(queue') <= Len(queue) + 1
      /\ NumbersOf(queue, n) \subseteq NumbersOf(queue', n)
      /\ Listening /\ p.ping = n => p.seq \in NumbersOf(queue', n)
      /\ NumbersOf(queue', n) \subseteq NumbersOf(queue, n) \cup {p.seq}
      /\ p.ping # n => NumbersOf(queue', n) = NumbersOf(queue, n)
      /\ ~Listening => queue' = queue
  <2> DEFINE q == Reply(p)
  <2>1. q \in PacketOf(n) /\ Arrives(q) /\ q.ping = p.ping /\ q.seq = p.seq
    BY <1>2, <1>4
  <2> HIDE DEF q
  <2>2. QED
    BY <1>0, <2>1, ArrivesKeeps
<1>6. Mine' = FlightOf(flight', n) \cup NumbersOf(queue', n) \cup ReadOf(got, n)
  BY <1>0 DEF Mine, Unmoved
<1>7. PingTypes'
  <2>1. PacketOf(n)' = PacketOf(n)
    BY <1>0 DEF PacketOf, Unmoved
  <2>2. queue' \in Seq(PacketOf(n)') /\ got' \in Seq([packet : PacketOf(n)', r : {0, 1}])
    BY <1>0, <1>5, <2>1 DEF PingTypes, Unmoved
  <2>3. flight' \subseteq [ping : 1 .. n, seq : 0 .. NPackets - 1, bytes : Seq(Byte)]
    BY <1>0, <1>3 DEF PingTypes
  <2>4. QED
    BY <1>0, <1>3, <2>2, <2>3 DEF PingTypes, Unmoved
<1>8. Losses' = Losses /\ Cardinality(flight) \in Nat /\ Len(queue) \in Nat
  BY <1>0, MineFacts DEF Losses
<1>9. /\ Mine' \subseteq Mine /\ Mine \subseteq Mine' \cup {p.seq}
      /\ Listening => Mine \subseteq Mine'
  <2>1. Mine = FlightOf(flight, n) \cup NumbersOf(queue, n) \cup ReadOf(got, n)
    BY DEF Mine
  <2>2. p.ping = n => p.seq \in FlightOf(flight, n)
    BY DEF FlightOf
  <2>3. CASE p.ping = n
    BY <1>3, <1>5, <1>6, <2>1, <2>2, <2>3
  <2>4. CASE p.ping # n
    BY <1>3, <1>5, <1>6, <2>1, <2>4
  <2>5. QED
    BY <2>3, <2>4
<1>10. IsFiniteSet(Mine) /\ IsFiniteSet(Mine')
  BY <1>0, <1>9, MineFacts, FS_Subset
<1>11. CASE Listening
  <2>1. Own <= Own'
    BY <1>9, <1>10, <1>11, FS_Subset DEF Own
  <2>2. Unread' <= Unread
    BY <1>3, <1>5, <1>8, BalanceMoved, Zenon DEF Unread
  <2>3. QED
    BY <1>0, <1>3, <1>7, <1>8, <1>9, <2>1, <2>2, NetworkKeeps
<1>12. CASE ~Listening
  <2>1. Own <= Own' + 1
    BY <1>9, <1>10, OneMore DEF Own
  <2>2. Unread' + 1 = Unread
    <3>1. Unread' = Cardinality(flight') + Len(queue)
      BY <1>5, <1>12 DEF Unread
    <3>2. (Cardinality(flight') + Len(queue)) + 1 = Cardinality(flight) + Len(queue)
      BY <1>3, <1>8, BalanceTaken, Zenon
    <3>3. QED
      BY <3>1, <3>2, Zenon DEF Unread
  <2>3. QED
    BY <1>0, <1>3, <1>7, <1>8, <1>9, <1>12, <2>1, <2>2, NetworkKeeps
<1>13. QED
  BY <1>11, <1>12

(* A request is lost on its way.                                            *)
LEMMA LostKeeps ==
    ASSUME PingInv, Lost
    PROVE  PingInv'
<1>0. /\ PingTypes /\ Unmoved /\ UNCHANGED <<queue, others>>
      /\ faults' = faults + 1 /\ faults < MaxFaults
  BY DEF PingInv, Lost, Unmoved, Fault
<1>1. PICK p \in flight : flight' = flight \ {p}
  BY DEF Lost
<1>2. /\ IsFiniteSet(flight') /\ Cardinality(flight') \in Nat
      /\ Cardinality(flight) = Cardinality(flight') + 1
      /\ flight' \subseteq flight
      /\ FlightOf(flight', n) \subseteq FlightOf(flight, n)
      /\ FlightOf(flight, n) \subseteq
           FlightOf(flight', n) \cup (IF p.ping = n THEN {p.seq} ELSE {})
  BY <1>0, <1>1, TakenKeeps
<1>3. Mine' = FlightOf(flight', n) \cup NumbersOf(queue, n) \cup ReadOf(got, n)
  BY <1>0 DEF Mine, Unmoved
<1>4. Mine' \subseteq Mine /\ Mine \subseteq Mine' \cup {p.seq}
  BY <1>2, <1>3 DEF Mine
<1>5. PingTypes'
  <2>1. PacketOf(n)' = PacketOf(n)
    BY <1>0 DEF PacketOf, Unmoved
  <2>2. queue' \in Seq(PacketOf(n)') /\ got' \in Seq([packet : PacketOf(n)', r : {0, 1}])
    BY <1>0, <2>1 DEF PingTypes, Unmoved
  <2>3. flight' \subseteq [ping : 1 .. n, seq : 0 .. NPackets - 1, bytes : Seq(Byte)]
    BY <1>0, <1>2 DEF PingTypes
  <2>4. faults' \in 0 .. MaxFaults
    BY <1>0, IcmpAssumption DEF PingTypes
  <2>5. QED
    BY <1>0, <1>2, <2>2, <2>3, <2>4 DEF PingTypes, Unmoved
<1>6. IsFiniteSet(Mine') /\ IsFiniteSet(Mine)
  BY <1>0, <1>4, MineFacts, FS_Subset
<1>7. Own <= Own' + 1
  BY <1>4, <1>6, OneMore DEF Own
<1>8. Losses' = Losses + 1
  <2>1. others \in Nat /\ faults \in Nat
    BY <1>0, MineFacts
  <2>2. QED
    BY <1>0, <2>1 DEF Losses
<1>9. Unread' + 1 = Unread
  <2>1. Cardinality(flight) \in Nat /\ Len(queue) \in Nat
    BY <1>0, MineFacts
  <2>2. Unread' = Cardinality(flight') + Len(queue)
    BY <1>0 DEF Unread
  <2>3. (Cardinality(flight') + Len(queue)) + 1 = Cardinality(flight) + Len(queue)
    BY <1>2, <2>1, BalanceTaken, Zenon
  <2>4. QED
    BY <2>2, <2>3, Zenon DEF Unread
<1>10. QED
  BY <1>0, <1>2, <1>4, <1>5, <1>7, <1>8, <1>9, NetworkKeeps

(* Packets of others carry the number of no ping.                           *)
LEMMA OtherArrivesKeeps ==
    ASSUME PingInv, OtherArrives
    PROVE  PingInv'
<1>0. /\ PingTypes /\ Unmoved /\ UNCHANGED <<flight, faults>>
      /\ others' = others + 1 /\ others < MaxOthers
  BY DEF PingInv, OtherArrives, Unmoved
<1>1. PICK id \in {ident, -1}, short \in BOOLEAN :
        Arrives([id |-> id, short |-> short, ping |-> 0, seq |-> 0])
  BY DEF OtherArrives
<1> DEFINE q == [id |-> id, short |-> short, ping |-> 0, seq |-> 0]
<1>2. q \in PacketOf(n) /\ Arrives(q) /\ q.ping = 0
  BY <1>0, <1>1, MineFacts, IcmpAssumption DEF PacketOf
<1> HIDE DEF q
<1>3. /\ queue' \in Seq(PacketOf(n)) /\ Len(queue') \in Nat
      /\ Len(queue') <= Len(queue) + 1
      /\ NumbersOf(queue, n) \subseteq NumbersOf(queue', n)
      /\ q.ping # n => NumbersOf(queue', n) = NumbersOf(queue, n)
      /\ ~Listening => queue' = queue
  BY <1>0, <1>2, ArrivesKeeps
<1>4. Mine' = Mine
  <2>1. Listening => n # 0
    BY <1>0, MineFacts DEF PingInv, Place, Listening
  <2>2. NumbersOf(queue', n) = NumbersOf(queue, n)
    BY <1>2, <1>3, <2>1
  <2>3. QED
    BY <1>0, <2>2 DEF Mine, Unmoved
<1>5. PingTypes'
  <2>1. PacketOf(n)' = PacketOf(n)
    BY <1>0 DEF PacketOf, Unmoved
  <2>2. queue' \in Seq(PacketOf(n)') /\ got' \in Seq([packet : PacketOf(n)', r : {0, 1}])
    BY <1>0, <1>3, <2>1 DEF PingTypes, Unmoved
  <2>3. others' \in 0 .. MaxOthers
    BY <1>0, IcmpAssumption DEF PingTypes
  <2>4. QED
    BY <1>0, <2>2, <2>3 DEF PingTypes, Unmoved
<1>6. others \in Nat /\ faults \in Nat /\ Cardinality(flight) \in Nat /\ Len(queue) \in Nat
      /\ Cardinality(Mine) \in Nat
  BY <1>0, MineFacts
<1>7. Own <= Own'
  BY <1>4, <1>6 DEF Own
<1>8. Losses' = Losses + 1
  BY <1>0, <1>6 DEF Losses
<1>9. Unread' <= Unread + 1
  <2>1. Unread' = Cardinality(flight) + Len(queue')
    BY <1>0 DEF Unread
  <2>2. QED
    BY <1>3, <1>6, <2>1, BalanceCame, Zenon DEF Unread
<1>10. flight' \subseteq flight /\ Mine' \subseteq Mine
  BY <1>0, <1>4
<1>11. QED
  BY <1>0, <1>5, <1>7, <1>8, <1>9, <1>10, NetworkKeeps

(* Every step of the process and of the network keeps the ledger.           *)
LEMMA IcmpNextInv == PingInv /\ [IcmpNext]_icmpVars => PingInv'
<1> SUFFICES ASSUME PingInv, [IcmpNext]_icmpVars PROVE PingInv'
  OBVIOUS
<1>1. CASE UNCHANGED icmpVars
  BY <1>1, ReturnKeeps
<1>2. CASE IcmpNext
  BY <1>2, PingFailsKeeps, IcmpPingKeeps, PingerKeeps, RecvfromKeeps, RecvfromFailsKeeps,
    ReturnKeeps, HostAnswersKeeps, LostKeeps, OtherArrivesKeeps DEF IcmpNext, Step
<1>3. QED
  BY <1>1, <1>2

(* As many values as arguments at most.                                     *)
LEMMA ImageBound ==
    ASSUME NEW S, NEW f, IsFiniteSet(S)
    PROVE  /\ IsFiniteSet({f[e] : e \in S})
           /\ Cardinality({f[e] : e \in S}) <= Cardinality(S)
           /\ Cardinality({f[e] : e \in S}) \in Nat /\ Cardinality(S) \in Nat
<1> DEFINE T == {f[e] : e \in S}
           g == [e \in S |-> f[e]]
<1>1. g \in Surjection(S, T)
  BY DEF Surjection
<1>2. QED
  BY <1>1, FS_Surjection, FS_CardinalityType

(* Of the ping's requests, those that it has not read are on their way or   *)
(* wait, each in a packet of its own.                                       *)
LEMMA OwnIsAccountedFor ==
    ASSUME PingTypes
    PROVE  /\ Cardinality(Answers \cap [ping : {n}, seq : 0 .. NPackets - 1]) \in Nat
           /\ Own <= Unread + Cardinality(Answers \cap [ping : {n}, seq : 0 .. NPackets - 1])
<1> DEFINE A == Answers \cap [ping : {n}, seq : 0 .. NPackets - 1]
           F == FlightOf(flight, n)
           Q == NumbersOf(queue, n)
           R == ReadOf(got, n)
<1>1. /\ IsFiniteSet(flight) /\ Cardinality(flight) \in Nat /\ Len(queue) \in Nat
      /\ IsFiniteSet(Mine) /\ Mine = (F \cup Q) \cup R
      /\ DOMAIN queue = 1 .. Len(queue)
  BY MineFacts, LenProperties DEF PingTypes, Mine
<1>2. IsFiniteSet(F) /\ Cardinality(F) <= Cardinality(flight) /\ Cardinality(F) \in Nat
  <2> DEFINE S == {r \in flight : r.ping = n}
             f == [e \in S |-> e.seq]
  <2>1. IsFiniteSet(S) /\ Cardinality(S) <= Cardinality(flight) /\ Cardinality(S) \in Nat
    BY <1>1, FS_Subset, FS_CardinalityType
  <2>2. F = {f[e] : e \in S}
    BY DEF FlightOf
  <2> HIDE DEF S, f, F
  <2>3. /\ IsFiniteSet({f[e] : e \in S})
        /\ Cardinality({f[e] : e \in S}) <= Cardinality(S)
        /\ Cardinality({f[e] : e \in S}) \in Nat
    BY <2>1, ImageBound
  <2>4. QED
    BY <1>1, <2>1, <2>2, <2>3
<1>3. IsFiniteSet(Q) /\ Cardinality(Q) <= Len(queue) /\ Cardinality(Q) \in Nat
  <2> DEFINE S == {j \in DOMAIN queue : queue[j].ping = n}
             f == [e \in S |-> queue[e].seq]
  <2>1. IsFiniteSet(S) /\ Cardinality(S) <= Len(queue) /\ Cardinality(S) \in Nat
    <3>1. IsFiniteSet(1 .. Len(queue)) /\ Cardinality(1 .. Len(queue)) = Len(queue)
      <4>1. \A m \in Nat : IsFiniteSet(1 .. m) /\ Cardinality(1 .. m) = m
        BY FS_Interval
      <4>2. QED
        BY <1>1, <4>1, Zenon
    <3>2. S \subseteq 1 .. Len(queue)
      BY <1>1
    <3>3. QED
      BY <3>1, <3>2, FS_Subset, FS_CardinalityType
  <2>2. Q = {f[e] : e \in S}
    BY DEF NumbersOf
  <2> HIDE DEF S, f, Q
  <2>3. /\ IsFiniteSet({f[e] : e \in S})
        /\ Cardinality({f[e] : e \in S}) <= Cardinality(S)
        /\ Cardinality({f[e] : e \in S}) \in Nat
    BY <2>1, ImageBound
  <2>4. QED
    BY <1>1, <2>1, <2>2, <2>3
<1>4. IsFiniteSet(R) /\ Cardinality(R) <= Cardinality(A) /\ Cardinality(R) \in Nat
      /\ Cardinality(A) \in Nat
  <2> DEFINE f == [k \in 0 .. NPackets - 1 |-> [ping |-> n, seq |-> k]]
  <2>1. R \subseteq 0 .. NPackets - 1
    BY MineFacts, <1>1
  <2>2. IsFiniteSet(R) /\ Cardinality(R) \in Nat
    BY <1>1, FS_Subset, FS_CardinalityType
  <2>3. IsFiniteSet(A) /\ Cardinality(A) \in Nat
    <3>1. IsFiniteSet(0 .. NPackets - 1)
      BY IcmpAssumption, FS_Interval
    <3> DEFINE D == 0 .. NPackets - 1
    <3>2. A \subseteq {f[k] : k \in D}
      OBVIOUS
    <3>3. IsFiniteSet({f[k] : k \in D})
      BY <3>1, ImageBound
    <3> HIDE DEF A, f, D
    <3>4. QED
      BY <3>2, <3>3, FS_Subset, FS_CardinalityType
  <2>4. \A v \in A : v.seq \in R
    BY DEF Answers, ReadOf
  <2>5. \A k \in R : \E v \in A : v.seq = k
    <3>1. SUFFICES ASSUME NEW k \in R PROVE \E v \in A : v.seq = k
      OBVIOUS
    <3>2. PICK j \in DOMAIN got : got[j].packet.ping = n /\ k = got[j].packet.seq
      BY DEF ReadOf
    <3>3. [ping |-> got[j].packet.ping, seq |-> got[j].packet.seq] \in Answers
      BY DEF Answers
    <3>4. [ping |-> n, seq |-> k] \in A
      BY <2>1, <3>1, <3>2, <3>3
    <3>5. QED
      BY <3>4
  <2> DEFINE g == [v \in A |-> v.seq]
  <2>6. g \in Surjection(A, R)
    <3> HIDE DEF A, R
    <3>1. QED
      BY <2>4, <2>5 DEF Surjection
  <2>7. Cardinality(R) <= Cardinality(A)
    <3> HIDE DEF A, R, g
    <3>1. QED
      BY <2>3, <2>6, FS_Surjection
  <2>8. QED
    BY <2>2, <2>3, <2>7
<1> HIDE DEF A, F, Q, R
<1>5. Cardinality(Mine) <= (Cardinality(F) + Cardinality(Q)) + Cardinality(R)
  <2>1. /\ IsFiniteSet(F \cup Q) /\ Cardinality(F \cup Q) \in Nat
        /\ Cardinality(F \cup Q) <= Cardinality(F) + Cardinality(Q)
    <3>1. /\ IsFiniteSet(F \cup Q)
          /\ Cardinality(F \cup Q) = Cardinality(F) + Cardinality(Q) - Cardinality(F \cap Q)
      BY <1>2, <1>3, FS_Union
    <3>2. Cardinality(F \cap Q) \in Nat
      BY <1>2, FS_Intersection, FS_CardinalityType
    <3>3. QED
      BY <1>2, <1>3, <3>1, <3>2, FS_CardinalityType
  <2>2. Cardinality((F \cup Q) \cup R) <= Cardinality(F \cup Q) + Cardinality(R)
    <3>1. Cardinality((F \cup Q) \cup R) =
            Cardinality(F \cup Q) + Cardinality(R) - Cardinality((F \cup Q) \cap R)
      BY <1>4, <2>1, FS_Union
    <3>2. Cardinality((F \cup Q) \cap R) \in Nat
      BY <2>1, FS_Intersection, FS_CardinalityType
    <3>3. QED
      BY <1>4, <2>1, <3>1, <3>2
  <2>3. \A c, u, f, q, r \in Nat : u <= f + q /\ c <= u + r => c <= (f + q) + r
    OBVIOUS
  <2>4. Cardinality(Mine) \in Nat
    BY MineFacts
  <2>5. QED
    BY <1>1, <1>2, <1>3, <1>4, <2>1, <2>2, <2>3, <2>4, Zenon
<1>6. \A c, f, q, r, s, l, a \in Nat :
        c <= (f + q) + r /\ f <= s /\ q <= l /\ r <= a => c <= (s + l) + a
  OBVIOUS
<1>7. Cardinality(Mine) <= (Cardinality(flight) + Len(queue)) + Cardinality(A)
  BY <1>1, <1>2, <1>3, <1>4, <1>5, <1>6, MineFacts, Zenon
<1>8. QED
  BY <1>4, <1>7 DEF Own, Unread, A

(* However many pings the process makes, whatever their payloads, and       *)
(* whatever the network does with the packets: every request carries the    *)
(* checksum that its host computes, and a ping reads an answer to every     *)
(* request of its own, except for as many as packets of others came or      *)
(* packets were lost.                                                       *)
THEOREM PingsOnePacketCostsOneAnswer == IcmpSpec => []OnePacketCostsOneAnswer
<1>1. PingInv => OnePacketCostsOneAnswer
  <2>1. SUFFICES ASSUME PingInv PROVE OnePacketCostsOneAnswer
    OBVIOUS
  <2>2. PingTypes
    BY <2>1 DEF PingInv
  <2>3. IcmpTypeOK
    <3>1. \A k \in DOMAIN queue : queue[k] \in Packet
      <4>1. PacketOf(n) = Packet
        BY DEF PacketOf, Packet
      <4>2. queue \in Seq(Packet)
        BY <2>2, <4>1 DEF PingTypes
      <4>3. QED
        BY <4>2, ElementOfSeq, LenProperties
    <3>2. QED
      BY <2>2, <3>1 DEF PingTypes, IcmpTypeOK
  <2>4. LossesAreBounded
    <3>1. SUFFICES ASSUME pc = "returned", result = 0
          PROVE  Cardinality(Answers \cap [ping : {n}, seq : 0 .. NPackets - 1]) + others + faults
                   >= NPackets
      BY DEF LossesAreBounded
    <3> DEFINE A == Cardinality(Answers \cap [ping : {n}, seq : 0 .. NPackets - 1])
    <3>2. i = NPackets /\ i + Unread <= Own + Losses
      BY <2>1, <3>1 DEF PingInv, Place, Spent, Pinged
    <3>3. Own <= Unread + A
      BY <2>2, OwnIsAccountedFor
    <3>4. A \in Nat
      BY <2>2, OwnIsAccountedFor
    <3> HIDE DEF A
    <3>5. \A a, u, m, l, b \in Nat : a + u <= m + l /\ m <= u + b => a <= b + l
      OBVIOUS
    <3>6. NPackets <= A + Losses
      <4>1. NPackets \in Nat /\ Unread \in Nat /\ Own \in Nat /\ Losses \in Nat
        BY <2>2, NaturalsHere, IcmpAssumption DEF Naturals
      <4>2. NPackets + Unread <= Own + Losses
        BY <3>2
      <4>3. QED
        BY <3>3, <3>4, <3>5, <4>1, <4>2, Zenon
    <3>7. others \in Nat /\ faults \in Nat
      BY <2>2, MineFacts
    <3>8. NPackets <= A + (others + faults)
      BY <3>6 DEF Losses
    <3>9. A + others + faults >= NPackets
      BY <3>4, <3>7, <3>8, IcmpAssumption
    <3>10. QED
      BY <3>9 DEF A
  <2>5. QED
    BY <2>1, <2>3, <2>4 DEF PingInv, OnePacketCostsOneAnswer
<1>2. QED
  BY <1>1, IcmpInitInv, IcmpNextInv, PTL DEF IcmpSpec
=============================================================================
