-------------------------- MODULE HttpReadProofs ---------------------------
(***************************************************************************)
(* For any buffer sizes, any response, any length announced for it and any *)
(* way its bytes arrive: nothing is written beyond a buffer and no         *)
(* unsigned difference wraps, unless a header was cut short or more of the *)
(* body came with it than it announces.  What is kept of a page is its     *)
(* beginning without a gap, what was announced is read to its last byte,   *)
(* and nothing is waited for behind it.                                    *)
(***************************************************************************)
EXTENDS HttpRead, TLAPS

Reads == [len : Nat, seen : Nat, last : Nat, s : Nat]

ReadType ==
    /\ response.head \in Nat /\ response.body \in Nat /\ response.announced \in Nat
    /\ response.announced < Modulus
    /\ MinHead <= response.head /\ response.head <= HeadSize
    /\ sent \in Nat /\ taken \in Nat /\ taken <= sent /\ sent <= Total
    /\ loop \in Reads
    /\ head_len \in Nat /\ body_len \in Nat /\ room \in Nat /\ len \in Nat /\ len < Modulus
    /\ along \in Nat
    /\ pc \in Loops \cup {"invalid", "undefined", "done"}

(* What has been read of the header is what was taken off the socket, and   *)
(* fills the buffer unless a loop gave up.  A read asks for no more than    *)
(* ReadSize, so the one that ends the header brings less of the body.       *)
HeaderInv ==
    /\ pc \in {"first", "header"} => along = 0
    /\ pc = "first" => /\ head_len = 0 /\ body_len = 0 /\ taken = loop.seen
                       /\ loop.seen + loop.len <= 1
    /\ pc = "header" => /\ body_len = 0 /\ taken = head_len + loop.seen
                        /\ head_len + loop.seen + loop.len <= HeadSize
                        /\ HeaderWasCut \/ head_len + loop.seen + loop.len = HeadSize
                        /\ head_len + loop.seen < response.head + ReadSize

(* Both functions that write to a body count what it holds, what the        *)
(* running loop adds and what it still wants.                               *)
BodyInv ==
    /\ pc = "rest" => loop.seen + loop.len <= len /\ loop.seen + loop.len <= ReadSize
    /\ ~Misled =>
        /\ body_len <= room /\ pc # "undefined"
        /\ pc \in {"keep", "unknown"} => body_len + loop.seen + loop.len < room
        /\ pc = "discard" => /\ body_len < ReadSize
                             /\ loop.seen + loop.len <= ReadSize
                             /\ loop.seen + loop.len <= len - body_len

ReadInv == ReadType /\ HeaderInv /\ BodyInv

(* The smaller of two numbers. *)
LEMMA LeastIsLeast ==
    ASSUME NEW x \in Int, NEW y \in Int
    PROVE  Least(x, y) \in {x, y} /\ Least(x, y) <= x /\ Least(x, y) <= y
  BY DEF Least

(* A difference of unsigned numbers is one; it is the difference itself     *)
(* when that is not below zero, and nothing is left of the modulus.         *)
LEMMA WrapsIs ==
    ASSUME NEW d \in Int
    PROVE  /\ Wraps(d) \in Nat /\ Wraps(d) < Modulus
           /\ 0 <= d /\ d < Modulus => Wraps(d) = d
           /\ d = Modulus => Wraps(d) = 0
<1>1. Modulus \in Nat /\ Modulus > 0
  BY ReadAssumption
<1>2. d % Modulus \in 0 .. (Modulus - 1)
  BY <1>1
<1>3. ASSUME 0 <= d, d < Modulus PROVE d % Modulus = d
  BY <1>1, <1>3
<1>4. Modulus % Modulus = 0
  BY <1>1
<1>5. QED
  BY <1>1, <1>2, <1>3, <1>4 DEF Wraps

(* What the state's numbers are, for the steps below.                       *)
LEMMA ReadNumbers ==
    ASSUME ReadInv
    PROVE  /\ HeadSize \in Nat /\ ReadSize \in Nat /\ BodyLimit \in Nat /\ MinHead \in Nat
           /\ Modulus \in Nat /\ 0 < MinHead /\ 0 < ReadSize
           /\ response.head \in Nat /\ response.head > 0 /\ response.body \in Nat
           /\ response.announced \in Nat /\ response.announced < Modulus
           /\ sent \in Nat /\ taken \in Nat /\ taken <= sent /\ sent <= Total
           /\ Total = response.head + response.body
           /\ loop.len \in Nat /\ loop.seen \in Nat /\ loop \in Reads
           /\ head_len \in Nat /\ body_len \in Nat /\ room \in Nat
           /\ len \in Nat /\ len < Modulus /\ along \in Nat
  BY ReadAssumption DEF ReadInv, ReadType, Total, Reads

(* What a loop starts with.                                                 *)
LEMMA GotoIs ==
    ASSUME NEW where, NEW k \in Nat, Goto(where, k)
    PROVE  pc' = where /\ loop'.len = k /\ loop'.seen = 0 /\ loop' \in Reads
  BY DEF Goto, Reading, Reads

-----------------------------------------------------------------------------
(* What a read gets: more than nothing, no more than the loop wants, than a *)
(* piece, or than there is.                                                 *)
LEMMA GetsIs ==
    ASSUME ReadInv, Wanting, Unread > 0
    PROVE  /\ Gets \in Nat /\ Asks \in Nat /\ Gets > 0 /\ Gets <= loop.len
           /\ Gets <= ReadSize /\ Gets <= Unread /\ Unread = sent - taken
<1>1. loop.len > 0 /\ Unread = sent - taken /\ Unread \in Int
  BY ReadNumbers DEF Wanting, Unread
<1>2. Asks \in Nat /\ Asks > 0 /\ Asks <= loop.len /\ Asks <= ReadSize
  BY <1>1, ReadNumbers, LeastIsLeast DEF Asks
<1>3. QED
  BY <1>1, <1>2, ReadNumbers, LeastIsLeast DEF Gets

(* A read takes no more than the loop wants and no more than there is.      *)
LEMMA ReadSomeKeeps ==
    ASSUME ReadInv, ReadSome
    PROVE  ReadInv'
<1>1. /\ loop' = [len |-> loop.len - Gets, seen |-> loop.seen + Gets,
                  last |-> IF loop.s = 0 THEN Asks ELSE loop.s, s |-> Gets]
      /\ taken' = taken + Gets
      /\ ~HeaderFound /\ pc \in Loops
      /\ UNCHANGED <<response, sent, pc, head_len, body_len, room, len, along, cut>>
  BY DEF ReadSome, Wanting
<1>2. /\ Gets \in Nat /\ Asks \in Nat /\ Gets > 0 /\ Gets <= loop.len
      /\ Gets <= ReadSize /\ Gets <= Unread /\ Unread = sent - taken
  BY GetsIs DEF ReadSome
<1>3. loop'.len = loop.len - Gets /\ loop'.seen = loop.seen + Gets
  BY <1>1
<1>4. ReadType'
  <2>1. loop' \in Reads
    <3>1. loop.len - Gets \in Nat /\ loop.seen + Gets \in Nat
      BY <1>2, ReadNumbers
    <3>2. loop.s \in Nat
      BY ReadNumbers DEF Reads
    <3>3. QED
      BY <1>1, <1>2, <3>1, <3>2 DEF Reads
  <2>2. taken' \in Nat /\ taken' <= sent
    BY <1>1, <1>2, ReadNumbers
  <2>3. QED
    BY <1>1, <2>1, <2>2 DEF ReadInv, ReadType, Total
<1>5. HeaderWasCut' <=> HeaderWasCut
  BY <1>1 DEF HeaderWasCut
<1>6. Misled' <=> Misled
  BY <1>1, <1>5 DEF Misled, TooMuchCame
<1>7. HeaderInv'
  BY <1>1, <1>2, <1>3, <1>5, ReadNumbers DEF ReadInv, HeaderInv, HeaderFound
<1>8. BodyInv'
  BY <1>1, <1>2, <1>3, <1>6, ReadNumbers DEF ReadInv, BodyInv
<1>9. QED
  BY <1>4, <1>7, <1>8 DEF ReadInv

(* Nothing is written beyond a buffer unless the header misled.             *)
LEMMA OverrunKeeps ==
    ASSUME ReadInv, Overrun
    PROVE  ReadInv' /\ Misled /\ Misled'
<1>1. /\ pc' = "undefined" /\ pc \in Loops /\ loop.seen + Gets > Space
      /\ UNCHANGED <<response, sent, taken, loop, head_len, body_len, room, len, along, cut>>
  BY DEF Overrun, Wanting
<1>2. Gets \in Nat /\ Gets <= loop.len
  BY GetsIs DEF Overrun
<1>3. loop.seen + loop.len > Space
  <2>1. Space \in Int
    BY ReadNumbers DEF Space
  <2>2. QED
    BY <1>1, <1>2, <2>1, ReadNumbers
<1>4. Misled
  <2> SUFFICES ASSUME ~Misled PROVE FALSE
    OBVIOUS
  <2>1. CASE pc = "first"
    BY <1>3, <2>1, ReadNumbers, ReadAssumption DEF Space, ReadInv, HeaderInv
  <2>2. CASE pc = "header"
    BY <1>3, <2>2, ReadNumbers DEF Space, ReadInv, HeaderInv
  <2>3. CASE pc \in {"keep", "unknown"}
    BY <1>3, <2>3, ReadNumbers DEF Space, ReadInv, BodyInv
  <2>4. CASE pc \in {"rest", "discard"}
    BY <1>3, <2>4, ReadNumbers DEF Space, ReadInv, BodyInv
  <2>5. QED
    BY <1>1, <2>1, <2>2, <2>3, <2>4 DEF Loops
<1>5. Misled'
  BY <1>1, <1>4 DEF Misled, HeaderWasCut, TooMuchCame
<1>6. ReadType'
  BY <1>1 DEF ReadInv, ReadType, Total
<1>7. HeaderInv' /\ BodyInv'
  BY <1>1, <1>5 DEF HeaderInv, BodyInv
<1>8. QED
  BY <1>4, <1>5, <1>6, <1>7 DEF ReadInv

(* A loop that gives up is remembered; it wants nothing more.               *)
LEMMA GivesUpKeeps ==
    ASSUME ReadInv, Wanting, NEW why, GivesUp(why)
    PROVE  ReadInv'
<1>1. /\ loop' = [loop EXCEPT !.len = 0]
      /\ cut' = cut \cup {[loop |-> pc, why |-> why]}
      /\ UNCHANGED <<response, sent, taken, pc, head_len, body_len, room, len, along>>
  BY DEF GivesUp
<1>2. loop' \in Reads /\ loop'.len = 0 /\ loop'.seen = loop.seen
  BY <1>1, ReadNumbers DEF Reads
<1>3. HeaderWasCut => HeaderWasCut'
  BY <1>1 DEF HeaderWasCut
<1>4. pc \in {"first", "header"} => HeaderWasCut'
  <2>1. [loop |-> pc, why |-> why] \in cut'
    BY <1>1
  <2>2. QED
    BY <2>1 DEF HeaderWasCut
<1>5. Misled => Misled'
  BY <1>1, <1>3 DEF Misled, TooMuchCame
<1>6. ReadType'
  BY <1>1, <1>2 DEF ReadInv, ReadType, Total
<1>7. HeaderInv'
  <2>1. CASE pc = "first"
    BY <1>1, <1>2, <2>1, ReadNumbers DEF ReadInv, HeaderInv
  <2>2. CASE pc = "header"
    BY <1>1, <1>2, <1>4, <2>2, ReadNumbers DEF ReadInv, HeaderInv
  <2>3. CASE pc \notin {"first", "header"}
    BY <1>1, <2>3 DEF HeaderInv
  <2>4. QED
    BY <2>1, <2>2, <2>3
<1>8. BodyInv'
  BY <1>1, <1>2, <1>5, ReadNumbers DEF ReadInv, BodyInv
<1>9. QED
  BY <1>6, <1>7, <1>8 DEF ReadInv

-----------------------------------------------------------------------------
(* What http_read_body_discard asks for when the body's first part is less  *)
(* than a piece and no more than what is to come: no more than a piece, and *)
(* no more than is missing.                                                 *)
LEMMA DiscardWantsIs ==
    ASSUME NEW n \in Nat, NEW have \in Nat, n < Modulus
    PROVE  /\ DiscardWants(n, have) \in Nat
           /\ have <= n /\ have < ReadSize =>
                /\ DiscardWants(n, have) <= ReadSize /\ DiscardWants(n, have) <= n - have
                /\ DiscardWants(n, have) = 0 => n = have
<1>1. ReadSize \in Nat /\ BodyLimit \in Nat /\ Modulus \in Nat /\ BodyLimit + ReadSize < Modulus
  BY ReadAssumption
<1>2. DiscardWants(n, have) \in Nat
  <2>1. Wraps(n - have) \in Nat /\ Wraps(ReadSize - have) \in Nat
    BY <1>1, WrapsIs
  <2>2. QED
    BY <2>1 DEF DiscardWants
<1>3. ASSUME have <= n, have < ReadSize
      PROVE  /\ DiscardWants(n, have) <= ReadSize /\ DiscardWants(n, have) <= n - have
             /\ DiscardWants(n, have) = 0 => n = have
  <2>1. n - have \in Int /\ 0 <= n - have /\ n - have < Modulus
    BY <1>1, <1>3
  <2>2. ReadSize - have \in Int /\ 0 <= ReadSize - have /\ ReadSize - have < Modulus
    BY <1>1, <1>3
  <2>3. Wraps(n - have) = n - have
    BY <2>1, WrapsIs
  <2>4. Wraps(ReadSize - have) = ReadSize - have
    BY <2>2, WrapsIs
  <2>5. DiscardWants(n, have) = IF n - have > ReadSize THEN ReadSize - have ELSE n - have
    BY <2>3, <2>4 DEF DiscardWants
  <2>6. QED
    BY <1>1, <1>3, <2>5
<1>4. QED
  BY <1>2, <1>3

(* How the header's end is split: what the loops have read, what of it is   *)
(* body, and what the header announces when it is whole.                    *)
HeaderSplit(n, have, whole, html, length, total) ==
    /\ html \in BOOLEAN /\ length \in BOOLEAN /\ total \in Announced
    /\ total \in Nat /\ total < Modulus
    /\ whole => /\ html = response.html /\ length = response.length
                /\ total = response.announced
    /\ n \in Nat /\ n = taken /\ n <= HeadSize /\ n <= Total
    /\ have \in Nat /\ have <= n /\ have < BodyLimit
    /\ whole => have = n - response.head /\ have < ReadSize
    /\ head_len' = IF whole THEN response.head ELSE n
    /\ along' = IF whole THEN have ELSE 0
    /\ room' = Allocated(whole, html, length, total)
    /\ len' = IF length THEN total ELSE 0
    /\ \/ have > room' /\ Goto("undefined", 0) /\ body_len' = have
       \/ have <= room' /\ ~length /\ Goto("unknown", BodyLimit - have) /\ body_len' = have
       \/ /\ have <= room' /\ length /\ html
          /\ Goto("keep", Kept(total, have)) /\ body_len' = have
       \/ /\ have <= room' /\ length /\ ~html /\ total > 0
          /\ Goto("discard", DiscardWants(total, have)) /\ body_len' = have
       \/ have <= room' /\ length /\ ~html /\ total = 0 /\ Goto("done", 0) /\ body_len' = 0

(* HeaderRead, in those terms.                                              *)
LEMMA HeaderReadIs ==
    ASSUME ReadInv, HeaderRead
    PROVE  /\ pc = "header" /\ UNCHANGED <<response, sent, taken, closed, cut, waited>>
           /\ \E whole, html, length \in BOOLEAN, total \in Announced :
                 /\ HeaderSplit(head_len + loop.seen, Beheaded(head_len + loop.seen), whole,
                                html, length, total)
                 /\ whole <=> head_len + loop.seen >= response.head
                 /\ ~whole => HeaderWasCut
<1> DEFINE n == head_len + loop.seen
           have == Beheaded(n)
           whole == n >= response.head
<1>1. PICK html \in BOOLEAN, length \in BOOLEAN, total \in Announced :
        /\ whole => /\ html = response.html /\ length = response.length
                    /\ total = response.announced
        /\ head_len' = IF whole THEN response.head ELSE n
        /\ along' = IF whole THEN have ELSE 0
        /\ room' = Allocated(whole, html, length, total)
        /\ len' = IF length THEN total ELSE 0
        /\ \/ have > room' /\ Goto("undefined", 0) /\ body_len' = have
           \/ have <= room' /\ ~length /\ Goto("unknown", BodyLimit - have) /\ body_len' = have
           \/ /\ have <= room' /\ length /\ html
              /\ Goto("keep", Kept(total, have)) /\ body_len' = have
           \/ /\ have <= room' /\ length /\ ~html /\ total > 0
              /\ Goto("discard", DiscardWants(total, have)) /\ body_len' = have
           \/ have <= room' /\ length /\ ~html /\ total = 0 /\ Goto("done", 0) /\ body_len' = 0
  BY DEF HeaderRead
<1>2. /\ pc = "header" /\ LoopOver /\ UNCHANGED <<response, sent, taken, closed, cut, waited>>
  BY DEF HeaderRead
<1>3. /\ n \in Nat /\ n = taken /\ n <= HeadSize /\ n <= Total
      /\ n < response.head + ReadSize
  BY <1>2, ReadNumbers DEF ReadInv, HeaderInv
<1>4. total \in Nat /\ total < Modulus
  BY ReadAssumption
<1>5. /\ have \in Nat /\ have <= n /\ have < BodyLimit
      /\ whole => have = n - response.head /\ have < ReadSize
  BY <1>3, ReadNumbers, ReadAssumption DEF Beheaded
<1>6. ~whole => HeaderWasCut
  <2>1. loop.len = 0 \/ n >= response.head
    BY <1>2, ReadNumbers DEF LoopOver, Wanting, HeaderFound
  <2>2. HeaderWasCut \/ n + loop.len = HeadSize
    BY <1>2 DEF ReadInv, HeaderInv
  <2>3. QED
    BY <1>3, <2>1, <2>2, ReadNumbers DEF ReadInv, ReadType
<1> HIDE DEF n, have, whole
<1>7. HeaderSplit(n, have, whole, html, length, total)
  BY <1>1, <1>3, <1>4, <1>5, Zenon DEF HeaderSplit
<1>8. QED
  <2>1. whole \in BOOLEAN
    BY DEF whole
  <2>2. QED
    BY <1>2, <1>6, <1>7, <2>1, Zenon DEF n, have, whole

(* The end of the header: what came of the body with it fits what is        *)
(* allocated, whichever way the body will be read, unless it is more than   *)
(* was announced.                                                           *)
LEMMA HeaderReadKeeps ==
    ASSUME ReadInv, HeaderRead
    PROVE  ReadInv'
<1> DEFINE n == head_len + loop.seen
           have == Beheaded(n)
<1>1. PICK whole \in BOOLEAN, html \in BOOLEAN, length \in BOOLEAN, total \in Announced :
        HeaderSplit(n, have, whole, html, length, total) /\ (~whole => HeaderWasCut)
  BY HeaderReadIs, Zenon
<1>2. UNCHANGED <<response, sent, taken, cut>>
  BY HeaderReadIs
<1>3. HeaderWasCut' <=> HeaderWasCut
  BY <1>2 DEF HeaderWasCut
<1> HIDE DEF n, have
<1>4. /\ n \in Nat /\ have \in Nat /\ have <= n /\ have < BodyLimit
      /\ total \in Nat /\ total < Modulus
      /\ whole => have = n - response.head /\ have < ReadSize
  BY <1>1, Zenon DEF HeaderSplit
<1>5. /\ head_len' \in Nat /\ along' \in Nat /\ len' \in Nat /\ len' < Modulus
  <2>1. 0 < Modulus
    BY ReadNumbers
  <2>2. /\ head_len' = IF whole THEN response.head ELSE n
        /\ along' = IF whole THEN have ELSE 0
        /\ len' = IF length THEN total ELSE 0
    BY <1>1, Zenon DEF HeaderSplit
  <2>3. QED
    BY <1>4, <2>1, <2>2, ReadNumbers
<1>6. room' = Allocated(whole, html, length, total)
  BY <1>1, Zenon DEF HeaderSplit
<1>7. room' \in Nat
  <2>1. Least(total, BodyLimit) + 1 \in Nat /\ Wraps(total + 1) \in Nat
    <3>1. Least(total, BodyLimit) \in Nat
      BY <1>4, ReadNumbers DEF Least
    <3>2. total + 1 \in Int
      BY <1>4
    <3>3. QED
      BY <3>1, <3>2, WrapsIs
  <2>2. BodyLimit + 1 \in Nat /\ head_len + loop.seen + 1 \in Nat
    BY ReadNumbers
  <2>3. QED
    BY <1>6, <2>1, <2>2 DEF Allocated
<1>8. ~Misled' => /\ whole
                  /\ length => have <= total
                  /\ length /\ ~html => total + 1 < Modulus \/ have = 0
  <2> SUFFICES ASSUME ~Misled' PROVE /\ whole
                                     /\ length => have <= total
                                     /\ length /\ ~html => total + 1 < Modulus \/ have = 0
    OBVIOUS
  <2>1. whole
    BY <1>1, <1>3, Zenon DEF Misled
  <2>2. /\ html = response.html /\ length = response.length /\ total = response.announced
        /\ along' = have
    BY <1>1, <2>1, Zenon DEF HeaderSplit
  <2>3. length => ~(along' > total)
    BY <1>2, <2>2, Zenon DEF Misled, TooMuchCame
  <2>4. length /\ ~html => ~(total + 1 = Modulus) \/ ~(along' > 0)
    BY <1>2, <2>2, Zenon DEF Misled, TooMuchCame
  <2>5. have <= total \/ have > total
    BY <1>4
  <2>6. total + 1 < Modulus \/ total + 1 = Modulus
    BY <1>4, ReadNumbers
  <2>7. have = 0 \/ have > 0
    BY <1>4
  <2>8. QED
    BY <2>1, <2>2, <2>3, <2>4, <2>5, <2>6, <2>7, Zenon
<1>9. CASE have > room' /\ Goto("undefined", 0) /\ body_len' = have
  <2>1. pc' = "undefined" /\ loop' \in Reads
    BY <1>9, GotoIs
  <2>2. Misled'
    <3> SUFFICES ASSUME ~Misled' PROVE FALSE
      OBVIOUS
    <3>1. whole /\ (length => have <= total)
          /\ (length /\ ~html => total + 1 < Modulus \/ have = 0)
      BY <1>8, Zenon
    <3>2. CASE ~length
      <4>1. room' = BodyLimit + 1
        BY <1>6, <3>2, Zenon DEF Allocated
      <4>2. QED
        BY <1>4, <1>9, <4>1, ReadNumbers
    <3>3. CASE length /\ html
      <4>1. room' = Least(total, BodyLimit) + 1
        BY <1>6, <3>1, <3>3, Zenon DEF Allocated
      <4>2. have <= total
        BY <3>1, <3>3, Zenon
      <4>3. QED
        BY <1>4, <1>9, <4>1, <4>2, ReadNumbers DEF Least
    <3>4. CASE length /\ ~html
      <4>1. room' = Wraps(total + 1)
        BY <1>6, <3>1, <3>4, Zenon DEF Allocated
      <4>2. have <= total /\ (total + 1 < Modulus \/ have = 0)
        BY <3>1, <3>4, Zenon
      <4>3. total + 1 \in Int
        BY <1>4
      <4>4. total + 1 < Modulus => room' = total + 1
        BY <1>4, <4>1, <4>3, WrapsIs
      <4>5. QED
        BY <1>4, <1>7, <1>9, <4>2, <4>4
    <3>5. QED
      BY <3>2, <3>3, <3>4
  <2>3. ReadType'
    BY <1>2, <1>4, <1>5, <1>7, <1>9, <2>1 DEF ReadInv, ReadType, Total
  <2>4. HeaderInv' /\ BodyInv'
    BY <2>1, <2>2 DEF HeaderInv, BodyInv
  <2>5. QED
    BY <2>3, <2>4 DEF ReadInv
<1>10. CASE have <= room' /\ ~length /\ Goto("unknown", BodyLimit - have) /\ body_len' = have
  <2>1. BodyLimit - have \in Nat
    BY <1>4, ReadNumbers
  <2>2. pc' = "unknown" /\ loop'.len = BodyLimit - have /\ loop'.seen = 0 /\ loop' \in Reads
    BY <1>10, <2>1, GotoIs
  <2>3. room' = BodyLimit + 1
    BY <1>6, <1>10, Zenon DEF Allocated
  <2>4. ReadType'
    BY <1>2, <1>4, <1>5, <1>7, <1>10, <2>2 DEF ReadInv, ReadType, Total, Loops
  <2>5. HeaderInv' /\ BodyInv'
    BY <1>4, <1>10, <2>2, <2>3, ReadNumbers DEF HeaderInv, BodyInv
  <2>6. QED
    BY <2>4, <2>5 DEF ReadInv
<1>11. CASE /\ have <= room' /\ length /\ html
            /\ Goto("keep", Kept(total, have)) /\ body_len' = have
  <2>1. Least(total, BodyLimit) \in Nat /\ Least(total, BodyLimit) < Modulus
    BY <1>4, ReadNumbers DEF Least
  <2>2. Least(total, BodyLimit) - have \in Int
    BY <1>4, <2>1
  <2>3. Kept(total, have) \in Nat
    BY <2>2, WrapsIs DEF Kept
  <2>4. pc' = "keep" /\ loop'.len = Kept(total, have) /\ loop'.seen = 0 /\ loop' \in Reads
    BY <1>11, <2>3, GotoIs
  <2>5. ~Misled' => /\ room' = Least(total, BodyLimit) + 1
                    /\ Kept(total, have) = Least(total, BodyLimit) - have
    <3> SUFFICES ASSUME ~Misled' PROVE /\ room' = Least(total, BodyLimit) + 1
                                       /\ Kept(total, have) = Least(total, BodyLimit) - have
      OBVIOUS
    <3>1. whole /\ have <= total
      BY <1>8, <1>11, Zenon
    <3>2. room' = Least(total, BodyLimit) + 1
      BY <1>6, <1>11, <3>1, Zenon DEF Allocated
    <3>3. 0 <= Least(total, BodyLimit) - have /\ Least(total, BodyLimit) - have < Modulus
      BY <1>4, <3>1, ReadNumbers DEF Least
    <3>4. QED
      BY <2>2, <3>2, <3>3, WrapsIs DEF Kept
  <2>6. ReadType'
    BY <1>2, <1>4, <1>5, <1>7, <1>11, <2>4 DEF ReadInv, ReadType, Total, Loops
  <2>7. HeaderInv' /\ BodyInv'
    BY <1>4, <1>11, <2>1, <2>4, <2>5 DEF HeaderInv, BodyInv
  <2>8. QED
    BY <2>6, <2>7 DEF ReadInv
<1>12. CASE /\ have <= room' /\ length /\ ~html /\ total > 0
            /\ Goto("discard", DiscardWants(total, have)) /\ body_len' = have
  <2>1. DiscardWants(total, have) \in Nat
    BY <1>4, DiscardWantsIs
  <2>2. pc' = "discard" /\ loop'.len = DiscardWants(total, have) /\ loop'.seen = 0
        /\ loop' \in Reads
    BY <1>12, <2>1, GotoIs
  <2>3. ~Misled' => have <= total /\ have < ReadSize
    BY <1>4, <1>8, <1>12, Zenon
  <2>4. ~Misled' => DiscardWants(total, have) <= ReadSize
                    /\ DiscardWants(total, have) <= total - have
    BY <1>4, <2>3, DiscardWantsIs
  <2>5. len' = total
    BY <1>1, <1>12, Zenon DEF HeaderSplit
  <2>6. ReadType'
    BY <1>2, <1>4, <1>5, <1>7, <1>12, <2>2 DEF ReadInv, ReadType, Total, Loops
  <2>7. HeaderInv' /\ BodyInv'
    BY <1>4, <1>12, <2>1, <2>2, <2>3, <2>4, <2>5, ReadNumbers DEF HeaderInv, BodyInv
  <2>8. QED
    BY <2>6, <2>7 DEF ReadInv
<1>13. CASE have <= room' /\ length /\ ~html /\ total = 0 /\ Goto("done", 0) /\ body_len' = 0
  <2>1. pc' = "done" /\ loop' \in Reads
    BY <1>13, GotoIs
  <2>2. ReadType'
    BY <1>2, <1>4, <1>5, <1>7, <1>13, <2>1 DEF ReadInv, ReadType, Total
  <2>3. HeaderInv' /\ BodyInv'
    BY <1>7, <1>13, <2>1 DEF HeaderInv, BodyInv
  <2>4. QED
    BY <2>2, <2>3 DEF ReadInv
<1>14. QED
  BY <1>1, <1>9, <1>10, <1>11, <1>12, <1>13, Zenon DEF HeaderSplit

-----------------------------------------------------------------------------
(* The other ends of a loop.                                                *)
LEMMA LoopsEndKeep ==
    ASSUME ReadInv, FirstByteRead \/ HeaderTooShort \/ BodyKept \/ Discarded \/ RestRead
    PROVE  ReadInv'
<1>1. UNCHANGED <<response, sent, taken, along, cut>> /\ (HeaderWasCut <=> HeaderWasCut')
  BY DEF FirstByteRead, HeaderTooShort, BodyKept, Discarded, RestRead, HeaderWasCut
<1>2. Misled' <=> Misled
  BY <1>1 DEF Misled, TooMuchCame
<1>3. CASE FirstByteRead
  <2>1. /\ pc = "first" /\ head_len' = loop.seen /\ UNCHANGED <<body_len, room, len>>
        /\ Goto("header", HeadSize - loop.seen)
    BY <1>3 DEF FirstByteRead
  <2>2. loop.seen <= 1 /\ taken = loop.seen /\ body_len = 0 /\ along = 0
    BY <2>1, ReadNumbers DEF ReadInv, HeaderInv
  <2>3. HeadSize - loop.seen \in Nat
    BY <2>2, ReadNumbers, ReadAssumption
  <2>4. pc' = "header" /\ loop'.len = HeadSize - loop.seen /\ loop'.seen = 0 /\ loop' \in Reads
    BY <2>1, <2>3, GotoIs
  <2>5. ReadType'
    BY <1>1, <2>1, <2>4, ReadNumbers DEF ReadInv, ReadType, Total, Loops
  <2>6. HeaderInv'
    BY <1>1, <2>1, <2>2, <2>4, ReadNumbers DEF HeaderInv
  <2>7. BodyInv'
    BY <1>2, <2>1, <2>4 DEF ReadInv, BodyInv
  <2>8. QED
    BY <2>5, <2>6, <2>7 DEF ReadInv
<1>4. CASE HeaderTooShort
  <2>1. /\ pc = "header" /\ pc' = "invalid" /\ head_len' = head_len + loop.seen
        /\ UNCHANGED <<loop, body_len, room, len>>
    BY <1>4 DEF HeaderTooShort
  <2>2. ReadType'
    BY <1>1, <2>1, ReadNumbers DEF ReadInv, ReadType, Total
  <2>3. HeaderInv' /\ BodyInv'
    BY <1>2, <2>1 DEF ReadInv, HeaderInv, BodyInv
  <2>4. QED
    BY <2>2, <2>3 DEF ReadInv
<1>5. CASE RestRead
  <2>1. /\ pc = "unknown" /\ pc' = "done" /\ body_len' \in {body_len + loop.seen, 0}
        /\ UNCHANGED <<loop, head_len, room, len>>
    BY <1>5 DEF RestRead
  <2>2. body_len' \in Nat /\ (~Misled => body_len' <= room)
    BY <2>1, ReadNumbers DEF ReadInv, BodyInv
  <2>3. ReadType'
    BY <1>1, <2>1, <2>2 DEF ReadInv, ReadType, Total
  <2>4. HeaderInv' /\ BodyInv'
    BY <1>2, <2>1, <2>2 DEF HeaderInv, BodyInv
  <2>5. QED
    BY <2>3, <2>4 DEF ReadInv
<1>6. CASE BodyKept
  <2>1. /\ pc = "keep" /\ body_len' = body_len + loop.seen /\ UNCHANGED <<head_len, room>>
    BY <1>6 DEF BodyKept
  <2>2. body_len' \in Nat /\ (~Misled => body_len' <= room)
    BY <2>1, ReadNumbers DEF ReadInv, BodyInv
  <2>3. CASE len > BodyLimit
    <3>1. len' = len - BodyLimit /\ Goto("rest", Least(len', ReadSize))
      BY <1>6, <2>3 DEF BodyKept
    <3>2. /\ len' \in Nat /\ len' < Modulus /\ Least(len', ReadSize) \in Nat
          /\ Least(len', ReadSize) <= len' /\ Least(len', ReadSize) <= ReadSize
      BY <2>3, <3>1, ReadNumbers DEF Least
    <3>3. pc' = "rest" /\ loop'.len = Least(len', ReadSize) /\ loop'.seen = 0
          /\ loop' \in Reads
      BY <3>1, <3>2, GotoIs
    <3>4. ReadType'
      BY <1>1, <2>1, <2>2, <3>2, <3>3 DEF ReadInv, ReadType, Total, Loops
    <3>5. HeaderInv' /\ BodyInv'
      BY <1>2, <2>1, <2>2, <3>2, <3>3 DEF HeaderInv, BodyInv
    <3>6. QED
      BY <3>4, <3>5 DEF ReadInv
  <2>4. CASE ~(len > BodyLimit)
    <3>1. pc' = "done" /\ UNCHANGED <<loop, len>>
      BY <1>6, <2>4 DEF BodyKept
    <3>2. ReadType'
      BY <1>1, <2>1, <2>2, <3>1 DEF ReadInv, ReadType, Total
    <3>3. HeaderInv' /\ BodyInv'
      BY <1>2, <2>1, <2>2, <3>1 DEF HeaderInv, BodyInv
    <3>4. QED
      BY <3>2, <3>3 DEF ReadInv
  <2>5. QED
    BY <2>3, <2>4
<1>7. CASE Discarded
  <2>1. /\ pc = "rest" /\ len' = len - loop.seen /\ UNCHANGED <<head_len, body_len, room>>
    BY <1>7 DEF Discarded
  <2>2. /\ len' \in Nat /\ len' < Modulus /\ Least(len', ReadSize) \in Nat
        /\ Least(len', ReadSize) <= len' /\ Least(len', ReadSize) <= ReadSize
    <3>1. len' \in Nat /\ len' < Modulus
      BY <2>1, ReadNumbers DEF ReadInv, BodyInv
    <3>2. QED
      BY <3>1, ReadNumbers DEF Least
  <2>3. CASE Goto("rest", Least(len', ReadSize))
    <3>1. pc' = "rest" /\ loop'.len = Least(len', ReadSize) /\ loop'.seen = 0
          /\ loop' \in Reads
      BY <2>2, <2>3, GotoIs
    <3>2. ReadType'
      BY <1>1, <2>1, <2>2, <3>1 DEF ReadInv, ReadType, Total, Loops
    <3>3. HeaderInv' /\ BodyInv'
      BY <1>2, <2>1, <2>2, <3>1 DEF ReadInv, HeaderInv, BodyInv
    <3>4. QED
      BY <3>2, <3>3 DEF ReadInv
  <2>4. CASE pc' = "done" /\ UNCHANGED loop
    <3>1. ReadType'
      BY <1>1, <2>1, <2>2, <2>4 DEF ReadInv, ReadType, Total
    <3>2. HeaderInv' /\ BodyInv'
      BY <1>2, <2>1, <2>4 DEF ReadInv, HeaderInv, BodyInv
    <3>3. QED
      BY <3>1, <3>2 DEF ReadInv
  <2>5. QED
    BY <1>7, <2>3, <2>4 DEF Discarded
<1>8. QED
  BY <1>3, <1>4, <1>5, <1>6, <1>7

(* A page that is thrown away: what is still to come is never less than     *)
(* what the body holds.                                                     *)
LEMMA DiscardKeeps ==
    ASSUME ReadInv, BodyDiscarded
    PROVE  ReadInv'
<1>1. /\ pc = "discard" /\ len' = Wraps(len - loop.seen)
      /\ UNCHANGED <<response, sent, taken, head_len, room, along, cut>>
      /\ (HeaderWasCut <=> HeaderWasCut')
  BY DEF BodyDiscarded, HeaderWasCut
<1>2. Misled' <=> Misled
  BY <1>1 DEF Misled, TooMuchCame
<1>3. len - loop.seen \in Int
  BY ReadNumbers
<1>4. len' \in Nat /\ len' < Modulus
  BY <1>1, <1>3, WrapsIs
<1>5. ~Misled => len' = len - loop.seen /\ body_len <= len'
  <2> SUFFICES ASSUME ~Misled PROVE len' = len - loop.seen /\ body_len <= len'
    OBVIOUS
  <2>1. loop.seen <= len - body_len
    BY <1>1, ReadNumbers DEF ReadInv, BodyInv
  <2>2. 0 <= len - loop.seen /\ len - loop.seen < Modulus
    BY <2>1, ReadNumbers
  <2>3. len' = len - loop.seen
    BY <1>1, <1>3, <2>2, WrapsIs
  <2>4. QED
    BY <2>1, <2>3, ReadNumbers
<1>6. CASE pc' = "done" /\ body_len' = 0 /\ UNCHANGED loop
  <2>1. ReadType'
    BY <1>1, <1>4, <1>6 DEF ReadInv, ReadType, Total
  <2>2. HeaderInv' /\ BodyInv'
    BY <1>1, <1>6, ReadNumbers DEF HeaderInv, BodyInv
  <2>3. QED
    BY <2>1, <2>2 DEF ReadInv
<1>7. CASE Goto("discard", DiscardWants(len', body_len)) /\ UNCHANGED body_len
  <2>1. DiscardWants(len', body_len) \in Nat
    BY <1>4, ReadNumbers, DiscardWantsIs
  <2>2. /\ pc' = "discard" /\ loop'.len = DiscardWants(len', body_len) /\ loop'.seen = 0
        /\ loop' \in Reads
    BY <1>7, <2>1, GotoIs
  <2>3. ~Misled => body_len < ReadSize
    BY <1>1 DEF ReadInv, BodyInv
  <2>4. ~Misled => /\ DiscardWants(len', body_len) <= ReadSize
                   /\ DiscardWants(len', body_len) <= len' - body_len
    BY <1>4, <1>5, <2>3, ReadNumbers, DiscardWantsIs
  <2>5. ReadType'
    BY <1>1, <1>4, <1>7, <2>2 DEF ReadInv, ReadType, Total, Loops
  <2>6. HeaderInv'
    BY <2>2 DEF HeaderInv
  <2>7. BodyInv'
    <3>1. ~Misled' => body_len' <= room' /\ pc' # "undefined"
      BY <1>1, <1>2, <1>7, <2>2 DEF ReadInv, BodyInv
    <3>2. QED
      BY <1>1, <1>2, <1>7, <2>1, <2>2, <2>3, <2>4, <3>1 DEF BodyInv
  <2>8. QED
    BY <2>5, <2>6, <2>7 DEF ReadInv
<1>8. QED
  BY <1>6, <1>7 DEF BodyDiscarded

-----------------------------------------------------------------------------
(* The invariant holds however the bytes arrive.                            *)
THEOREM ReadInvariant == Spec => []ReadInv
<1>1. Init => ReadInv
  <2> SUFFICES ASSUME Init PROVE ReadInv
    OBVIOUS
  <2>1. /\ response.head \in MinHead .. HeadSize /\ response.body \in Nat
        /\ response.announced \in 0 .. (Modulus - 1)
        /\ MinHead \in Nat /\ HeadSize \in Nat /\ Modulus \in Nat /\ 0 < Modulus
    <3>1. /\ response.head \in HeadLens /\ response.body \in BodyLens
          /\ response.announced \in Announced
      <4>1. response \in [head : HeadLens, body : BodyLens, length : BOOLEAN,
                          announced : Announced, html : BOOLEAN]
        BY Zenon DEF Init
      <4>2. QED
        BY <4>1
    <3>2. /\ HeadLens \subseteq MinHead .. HeadSize /\ BodyLens \subseteq Nat
          /\ Announced \subseteq 0 .. (Modulus - 1)
      BY ReadAssumption, Zenon
    <3>3. MinHead \in Nat /\ HeadSize \in Nat /\ Modulus \in Nat /\ 0 < Modulus
      BY ReadAssumption
    <3>4. QED
      BY <3>1, <3>2, <3>3, Zenon
  <2>2. loop \in Reads /\ loop.len = 1 /\ loop.seen = 0
    BY DEF Init, Reading, Reads
  <2>3. ReadType
    BY <2>1, <2>2 DEF Init, ReadType, Total, Loops
  <2>4. HeaderInv /\ BodyInv
    BY <2>2 DEF Init, HeaderInv, BodyInv
  <2>5. QED
    BY <2>3, <2>4 DEF ReadInv
<1>2. ReadInv /\ [Next]_vars => ReadInv'
  <2> SUFFICES ASSUME ReadInv, [Next]_vars PROVE ReadInv'
    OBVIOUS
  <2>1. CASE UNCHANGED <<response, taken, pc, loop, head_len, body_len, room, len, along, cut>>
             /\ sent' \in Nat /\ sent <= sent' /\ sent' <= Total
    <3>1. Misled' <=> Misled
      BY <2>1 DEF Misled, HeaderWasCut, TooMuchCame
    <3>2. ReadType'
      BY <2>1, ReadNumbers DEF ReadInv, ReadType, Total
    <3>3. HeaderInv'
      BY <2>1 DEF ReadInv, HeaderInv, HeaderWasCut
    <3>4. BodyInv'
      BY <2>1, <3>1 DEF ReadInv, BodyInv
    <3>5. QED
      BY <3>2, <3>3, <3>4 DEF ReadInv
  <2>2. CASE Arrive \/ ServerCloses \/ UNCHANGED vars
    <3>1. sent' \in Nat /\ sent <= sent' /\ sent' <= Total
      BY <2>2, ReadNumbers DEF Arrive, ServerCloses, vars
    <3>2. UNCHANGED <<response, taken, pc, loop, head_len, body_len, room, len, along, cut>>
      BY <2>2 DEF Arrive, ServerCloses, vars
    <3>3. QED
      BY <2>1, <3>1, <3>2
  <2>3. CASE ProbeStep
    <3>1. CASE TimesOut \/ EndOfFile
      BY <3>1, GivesUpKeeps DEF TimesOut, EndOfFile
    <3>2. QED
      BY <2>3, <3>1, ReadSomeKeeps, OverrunKeeps, HeaderReadKeeps, LoopsEndKeep, DiscardKeeps
      DEF ProbeStep
  <2>4. QED
    BY <2>2, <2>3 DEF Next
<1>3. QED
  BY <1>1, <1>2, PTL DEF Spec

(* Nothing is written beyond a buffer by the loops that fill it, and a kept  *)
(* body leaves room for its terminator (BodyFits).                           *)
THEOREM ReadBodyFits == Spec => []BodyFits
<1>1. ReadInv => BodyFits
  <2> SUFFICES ASSUME ReadInv, ~Misled PROVE /\ body_len <= room
                                             /\ pc \in Loops => loop.seen + loop.len <= Space
                                             /\ pc \in {"keep", "unknown"} =>
                                                    loop.seen + loop.len < Space
    BY DEF BodyFits
  <2>1. body_len <= room
    BY DEF ReadInv, BodyInv
  <2>2. CASE pc \in {"first", "header"}
    BY <2>1, <2>2, ReadNumbers, ReadAssumption DEF Space, ReadInv, HeaderInv
  <2>3. CASE pc \in {"keep", "unknown"}
    BY <2>1, <2>3, ReadNumbers DEF Space, ReadInv, BodyInv
  <2>4. CASE pc \in {"rest", "discard"}
    BY <2>1, <2>4, ReadNumbers DEF Space, ReadInv, BodyInv
  <2>5. QED
    BY <2>1, <2>2, <2>3, <2>4 DEF Loops
<1>2. QED
  BY <1>1, ReadInvariant, PTL

(* The differences of unsigned numbers do not wrap and nothing is written    *)
(* beyond the end of a buffer, unless the header was cut short or more came  *)
(* with it than it announces (NoUnderflow).                                  *)
THEOREM ReadNoUnderflow == Spec => []NoUnderflow
<1>1. ReadInv => NoUnderflow
  BY ReadNumbers DEF ReadInv, BodyInv, NoUnderflow
<1>2. QED
  BY <1>1, ReadInvariant, PTL

(* The three together: types, buffers, differences (ReadInBounds).           *)
THEOREM ReadStaysInBounds == Spec => []ReadInBounds
<1>1. ReadInv => ReadTypeOK
  BY DEF ReadInv, ReadType, Reads, ReadTypeOK
<1>2. QED
  BY <1>1, ReadInvariant, ReadBodyFits, ReadNoUnderflow, PTL DEF ReadInBounds

-----------------------------------------------------------------------------
KeepWasCut == \E c \in cut : c.loop = "keep"

(* What has been taken off the socket behind the header is in the body or   *)
(* was dropped, and what is still to be read is still to come.              *)
(* Where what was announced ends.                                           *)
End == response.head + response.announced

KeepInv ==
    pc = "keep" =>
        /\ response.length /\ response.html /\ len = response.announced
        /\ taken = response.head + body_len + loop.seen
        /\ body_len + loop.seen + loop.len <= Least(response.announced, BodyLimit)
        /\ KeepWasCut \/ body_len + loop.seen + loop.len = Least(response.announced, BodyLimit)

RestInv ==
    pc = "rest" =>
        /\ response.length /\ response.html /\ response.announced > BodyLimit
        /\ body_len <= BodyLimit /\ body_len <= taken - response.head
        /\ KeepWasCut \/ body_len = BodyLimit
        /\ len > 0
        /\ loop.seen + loop.len <= len /\ len - loop.seen <= End - taken
        /\ cut = {} => /\ len - loop.seen = End - taken
                       /\ loop.seen + loop.len = Least(len, ReadSize)

DiscardInv ==
    pc = "discard" =>
        /\ response.length /\ ~response.html /\ body_len < ReadSize
        /\ len - body_len - loop.seen = End - taken
        /\ cut = {} => loop.seen + loop.len = DiscardWants(len, body_len)

UnknownInv ==
    pc = "unknown" =>
        /\ ~response.length /\ head_len = response.head
        /\ taken = response.head + body_len + loop.seen
        /\ body_len + loop.seen + loop.len <= BodyLimit

BodyAsSentInv ==
    /\ Misled \/ (KeepInv /\ RestInv /\ DiscardInv /\ UnknownInv)
    /\ BodyAsSent

(* A read moves bytes from what is wanted to what was seen.                 *)
LEMMA ReadSomeAsSent ==
    ASSUME ReadInv, BodyAsSentInv, ReadSome
    PROVE  BodyAsSentInv'
<1>1. /\ loop' = [len |-> loop.len - Gets, seen |-> loop.seen + Gets,
                  last |-> IF loop.s = 0 THEN Asks ELSE loop.s, s |-> Gets]
      /\ taken' = taken + Gets
      /\ pc \in Loops
      /\ UNCHANGED <<response, sent, pc, head_len, body_len, room, len, along, cut, waited>>
  BY DEF ReadSome, Wanting
<1>2. loop'.len = loop.len - Gets /\ loop'.seen = loop.seen + Gets
  BY <1>1
<1>3. Gets \in Nat
  BY GetsIs DEF ReadSome
<1>4. /\ HeaderWasCut' <=> HeaderWasCut
      /\ KeepWasCut' <=> KeepWasCut
      /\ End' = End
  BY <1>1 DEF HeaderWasCut, KeepWasCut, End
<1>5. (Misled' <=> Misled) /\ (TooMuchCame' <=> TooMuchCame)
  BY <1>1, <1>4 DEF Misled, TooMuchCame
<1>6. KeepInv => KeepInv'
  BY <1>1, <1>2, <1>3, <1>4, ReadNumbers DEF KeepInv
<1>7. RestInv => RestInv'
  BY <1>1, <1>2, <1>3, <1>4, ReadNumbers DEF RestInv, End
<1>8. DiscardInv => DiscardInv'
  BY <1>1, <1>2, <1>3, <1>4, ReadNumbers DEF DiscardInv, End
<1>9. UnknownInv => UnknownInv'
  BY <1>1, <1>2, <1>3, <1>4, ReadNumbers DEF UnknownInv
<1>10. KeptIsPrefix' /\ WholeBodyRead'
  BY <1>1 DEF KeptIsPrefix, WholeBodyRead, Loops
<1>11. NeverWaitsForMore'
  BY <1>1, <1>5 DEF BodyAsSentInv, BodyAsSent, NeverWaitsForMore
<1>12. QED
  BY <1>5, <1>6, <1>7, <1>8, <1>9, <1>10, <1>11 DEF BodyAsSentInv, BodyAsSent

(* A write beyond a buffer says nothing about a server that did not mislead. *)
LEMMA OverrunAsSent ==
    ASSUME ReadInv, BodyAsSentInv, Overrun
    PROVE  BodyAsSentInv'
<1>1. Misled' /\ pc' = "undefined"
  BY OverrunKeeps DEF Overrun
<1>2. KeptIsPrefix' /\ WholeBodyRead' /\ NeverWaitsForMore'
  BY <1>1 DEF KeptIsPrefix, WholeBodyRead, NeverWaitsForMore
<1>3. QED
  BY <1>1, <1>2 DEF BodyAsSentInv, BodyAsSent

(* A time-out or the end of the connection; when everything had arrived,    *)
(* only a loop that had no length to go by was still waiting.               *)
LEMMA GivesUpAsSent ==
    ASSUME ReadInv, BodyAsSentInv, TimesOut \/ EndOfFile
    PROVE  BodyAsSentInv'
<1>1. PICK why \in {"long", "short", "closed"} : GivesUp(why)
  BY DEF TimesOut, EndOfFile
<1>2. /\ loop.len > 0 /\ pc \in Loops /\ ~HeaderFound /\ Unread = 0
      /\ waited' = waited \/ (waited' = (waited \/ sent = Total))
  BY DEF TimesOut, EndOfFile, Wanting
<1>3. /\ cut' = cut \cup {[loop |-> pc, why |-> why]}
      /\ loop' = [loop EXCEPT !.len = 0]
      /\ UNCHANGED <<response, sent, taken, closed, pc, head_len, body_len, room, len, along>>
  BY <1>1 DEF GivesUp
<1>4. loop'.len = 0 /\ loop'.seen = loop.seen /\ End' = End
  BY <1>3, ReadNumbers DEF Reads, End
<1>5. taken = sent
  BY <1>2, ReadNumbers DEF Unread
<1>6. [loop |-> pc, why |-> why] \in cut' /\ cut' # {}
  BY <1>3
<1>7. /\ HeaderWasCut => HeaderWasCut'
      /\ KeepWasCut => KeepWasCut'
      /\ pc \in {"first", "header"} => HeaderWasCut'
      /\ pc = "keep" => KeepWasCut'
  BY <1>3, <1>6 DEF HeaderWasCut, KeepWasCut
<1>8. Misled => Misled'
  BY <1>3, <1>7 DEF Misled, TooMuchCame
<1>9. ASSUME ~Misled'
      PROVE  KeepInv' /\ RestInv' /\ DiscardInv' /\ UnknownInv'
  <2>1. KeepInv /\ RestInv /\ DiscardInv /\ UnknownInv
    BY <1>8, <1>9 DEF BodyAsSentInv
  <2>2. KeepInv'
    <3>1. Least(response.announced, BodyLimit) \in Int
      BY ReadNumbers DEF Least
    <3>2. QED
      BY <1>2, <1>3, <1>4, <1>7, <2>1, <3>1, ReadNumbers DEF KeepInv
  <2>3. RestInv'
    BY <1>2, <1>3, <1>4, <1>6, <1>7, <2>1, ReadNumbers DEF RestInv, End
  <2>4. DiscardInv'
    BY <1>2, <1>3, <1>4, <1>6, <1>7, <2>1, ReadNumbers DEF DiscardInv, End
  <2>5. UnknownInv'
    BY <1>2, <1>3, <1>4, <2>1, ReadNumbers DEF UnknownInv
  <2>6. QED
    BY <2>2, <2>3, <2>4, <2>5
<1>10. KeptIsPrefix' /\ WholeBodyRead'
  BY <1>2, <1>3 DEF KeptIsPrefix, WholeBodyRead, Loops
<1>11. NeverWaitsForMore'
  <2> SUFFICES ASSUME response.length, response.announced <= response.body, ~Misled', waited'
               PROVE  FALSE
    BY <1>3 DEF NeverWaitsForMore
  <2>1. ~Misled /\ ~waited
    BY <1>8 DEF BodyAsSentInv, BodyAsSent, NeverWaitsForMore
  <2>2. taken = Total
    BY <1>2, <1>5, <2>1
  <2>3. taken >= End
    BY <2>2, ReadNumbers DEF End
  <2>4. pc \in {"keep", "rest", "discard", "unknown"}
    BY <1>2, <1>7 DEF Loops, Misled
  <2>5. KeepInv /\ RestInv /\ DiscardInv /\ UnknownInv
    BY <2>1 DEF BodyAsSentInv
  <2>6. CASE pc = "keep"
    BY <1>2, <2>3, <2>5, <2>6, ReadNumbers, LeastIsLeast DEF KeepInv, End
  <2>7. CASE pc = "rest"
    BY <1>2, <2>3, <2>5, <2>7, ReadNumbers DEF RestInv, End
  <2>8. CASE pc = "discard"
    BY <1>2, <2>1, <2>3, <2>5, <2>8, ReadNumbers DEF DiscardInv, End, ReadInv, BodyInv
  <2>9. CASE pc = "unknown"
    BY <2>5, <2>9 DEF UnknownInv
  <2>10. QED
    BY <2>4, <2>6, <2>7, <2>8, <2>9
<1>12. QED
  BY <1>9, <1>10, <1>11 DEF BodyAsSentInv, BodyAsSent

(* The header's end splits what was read: the header, and a part of the     *)
(* body that no later read will bring again.                                *)
LEMMA HeaderReadAsSent ==
    ASSUME ReadInv, BodyAsSentInv, HeaderRead
    PROVE  BodyAsSentInv'
<1> DEFINE n == head_len + loop.seen
           have == Beheaded(n)
<1>1. PICK whole \in BOOLEAN, html \in BOOLEAN, length \in BOOLEAN, total \in Announced :
        HeaderSplit(n, have, whole, html, length, total) /\ (~whole => HeaderWasCut)
  BY HeaderReadIs, Zenon
<1>2. UNCHANGED <<response, sent, taken, closed, cut, waited>> /\ pc = "header"
  BY HeaderReadIs
<1>3. /\ HeaderWasCut' <=> HeaderWasCut
      /\ KeepWasCut' <=> KeepWasCut
      /\ End' = End
  BY <1>2 DEF HeaderWasCut, KeepWasCut, End
<1> HIDE DEF n, have
<1>4. /\ have \in Nat /\ have < BodyLimit /\ total \in Nat /\ total < Modulus
      /\ whole => have = n - response.head /\ have < ReadSize
      /\ n \in Nat /\ n = taken
  BY <1>1, Zenon DEF HeaderSplit
<1>5. NeverWaitsForMore'
  <2>1. ~Misled' => ~Misled
    <3>1. along = 0
      BY <1>2 DEF ReadInv, HeaderInv
    <3>2. ~TooMuchCame
      BY <3>1, ReadNumbers DEF TooMuchCame
    <3>3. QED
      BY <1>3, <3>2 DEF Misled
  <2>2. QED
    BY <1>2, <1>3, <2>1 DEF BodyAsSentInv, BodyAsSent, NeverWaitsForMore
<1>6. ASSUME ~Misled'
      PROVE  /\ whole /\ html = response.html /\ length = response.length
             /\ total = response.announced /\ along' = have
             /\ head_len' = response.head /\ taken = response.head + have
             /\ length => have <= total
  <2>1. whole
    BY <1>1, <1>3, <1>6, Zenon DEF Misled
  <2>2. /\ html = response.html /\ length = response.length /\ total = response.announced
        /\ along' = have /\ head_len' = response.head
    BY <1>1, <2>1, Zenon DEF HeaderSplit
  <2>3. length => ~(along' > total)
    BY <1>2, <1>6, <2>2, Zenon DEF Misled, TooMuchCame
  <2>4. have <= total \/ have > total
    BY <1>4
  <2>5. taken = response.head + have
    BY <1>4, <2>1, ReadNumbers
  <2>6. QED
    BY <2>1, <2>2, <2>3, <2>4, <2>5, Zenon
<1>7. CASE have > room' /\ Goto("undefined", 0) /\ body_len' = have
  <2>1. pc' = "undefined"
    BY <1>7 DEF Goto
  <2>2. QED
    BY <1>5, <2>1 DEF BodyAsSentInv, BodyAsSent, KeepInv, RestInv, DiscardInv, UnknownInv,
       KeptIsPrefix, WholeBodyRead
<1>8. CASE have <= room' /\ ~length /\ Goto("unknown", BodyLimit - have) /\ body_len' = have
  <2>1. BodyLimit - have \in Nat
    BY <1>4, ReadNumbers
  <2>2. pc' = "unknown" /\ loop'.len = BodyLimit - have /\ loop'.seen = 0
    BY <1>8, <2>1, GotoIs
  <2>3. ASSUME ~Misled' PROVE UnknownInv'
    <3>1. /\ ~response.length /\ head_len' = response.head /\ taken = response.head + have
      BY <1>6, <1>8, <2>3, Zenon
    <3>2. QED
      BY <1>2, <1>4, <1>8, <2>2, <3>1, ReadNumbers DEF UnknownInv
  <2>4. QED
    BY <1>5, <2>2, <2>3 DEF BodyAsSentInv, BodyAsSent, KeepInv, RestInv, DiscardInv,
       KeptIsPrefix, WholeBodyRead
<1>9. CASE /\ have <= room' /\ length /\ html
           /\ Goto("keep", Kept(total, have)) /\ body_len' = have
  <2>1. Least(total, BodyLimit) \in Nat /\ Least(total, BodyLimit) < Modulus
    BY <1>4, ReadNumbers DEF Least
  <2>2. Least(total, BodyLimit) - have \in Int
    BY <1>4, <2>1
  <2>3. Kept(total, have) \in Nat
    BY <2>2, WrapsIs DEF Kept
  <2>4. pc' = "keep" /\ loop'.len = Kept(total, have) /\ loop'.seen = 0
    BY <1>9, <2>3, GotoIs
  <2>5. ASSUME ~Misled' PROVE KeepInv'
    <3>1. /\ response.length /\ response.html /\ taken = response.head + have
          /\ total = response.announced /\ have <= total
      BY <1>6, <1>9, <2>5, Zenon
    <3>2. len' = total
      BY <1>1, <1>9, Zenon DEF HeaderSplit
    <3>3. 0 <= Least(total, BodyLimit) - have /\ Least(total, BodyLimit) - have < Modulus
      BY <1>4, <3>1, ReadNumbers DEF Least
    <3>4. loop'.len = Least(total, BodyLimit) - have
      BY <2>2, <2>4, <3>3, WrapsIs DEF Kept
    <3>5. QED
      BY <1>2, <1>4, <1>9, <2>1, <2>4, <3>1, <3>2, <3>4, ReadNumbers DEF KeepInv
  <2>6. QED
    BY <1>5, <2>4, <2>5 DEF BodyAsSentInv, BodyAsSent, RestInv, DiscardInv, UnknownInv,
       KeptIsPrefix, WholeBodyRead
<1>10. CASE /\ have <= room' /\ length /\ ~html /\ total > 0
            /\ Goto("discard", DiscardWants(total, have)) /\ body_len' = have
  <2>1. DiscardWants(total, have) \in Nat
    BY <1>4, DiscardWantsIs
  <2>2. pc' = "discard" /\ loop'.len = DiscardWants(total, have) /\ loop'.seen = 0
    BY <1>10, <2>1, GotoIs
  <2>3. ASSUME ~Misled' PROVE DiscardInv'
    <3>1. /\ response.length /\ ~response.html /\ taken = response.head + have
          /\ total = response.announced /\ whole
      BY <1>6, <1>10, <2>3, Zenon
    <3>2. len' = total
      BY <1>1, <1>10, Zenon DEF HeaderSplit
    <3>3. len' - body_len' - loop'.seen = End' - taken'
      BY <1>2, <1>3, <1>4, <1>10, <2>2, <3>1, <3>2, ReadNumbers DEF End
    <3>4. loop'.seen + loop'.len = DiscardWants(len', body_len')
      BY <1>10, <2>1, <2>2, <3>2
    <3>5. QED
      BY <1>2, <1>4, <1>10, <2>2, <3>1, <3>3, <3>4 DEF DiscardInv
  <2>4. QED
    BY <1>5, <2>2, <2>3 DEF BodyAsSentInv, BodyAsSent, KeepInv, RestInv, UnknownInv,
       KeptIsPrefix, WholeBodyRead
<1>11. CASE have <= room' /\ length /\ ~html /\ total = 0 /\ Goto("done", 0) /\ body_len' = 0
  <2>1. pc' = "done"
    BY <1>11 DEF Goto
  <2>2. ASSUME ~Misled' PROVE ~response.html /\ taken = response.head + response.announced
    <3>1. /\ ~response.html /\ taken = response.head + have
          /\ total = response.announced /\ have <= total
      BY <1>6, <1>11, <2>2, Zenon
    <3>2. QED
      BY <1>4, <1>11, <3>1, ReadNumbers
  <2>3. cut' = {} => ~HeaderWasCut'
    BY DEF HeaderWasCut
  <2>4. KeptIsPrefix' /\ WholeBodyRead'
    BY <1>2, <2>2, <2>3 DEF KeptIsPrefix, WholeBodyRead, Misled
  <2>5. QED
    BY <1>5, <2>1, <2>4 DEF BodyAsSentInv, BodyAsSent, KeepInv, RestInv, DiscardInv, UnknownInv
<1>12. QED
  BY <1>1, <1>7, <1>8, <1>9, <1>10, <1>11, Zenon DEF HeaderSplit

(* The other ends of a loop.                                                *)
LEMMA LoopsEndAsSent ==
    ASSUME ReadInv, BodyAsSentInv, FirstByteRead \/ HeaderTooShort \/ RestRead
    PROVE  BodyAsSentInv'
<1>1. /\ UNCHANGED <<response, sent, taken, closed, along, cut, waited>>
      /\ HeaderWasCut' <=> HeaderWasCut
  BY DEF FirstByteRead, HeaderTooShort, RestRead, HeaderWasCut
<1>2. (Misled' <=> Misled) /\ (TooMuchCame' <=> TooMuchCame)
  BY <1>1 DEF Misled, TooMuchCame
<1>3. NeverWaitsForMore'
  BY <1>1, <1>2 DEF BodyAsSentInv, BodyAsSent, NeverWaitsForMore
<1>4. CASE FirstByteRead \/ HeaderTooShort
  <2>1. pc' \in {"header", "invalid"}
    BY <1>4 DEF FirstByteRead, HeaderTooShort, Goto
  <2>2. QED
    BY <1>3, <2>1
    DEF BodyAsSentInv, BodyAsSent, KeepInv, RestInv, DiscardInv, UnknownInv,
        KeptIsPrefix, WholeBodyRead
<1>5. CASE RestRead
  <2>1. PICK html \in BOOLEAN :
          /\ head_len >= response.head => html = response.html
          /\ body_len' = IF html THEN body_len + loop.seen ELSE 0
    BY <1>5 DEF RestRead
  <2>2. pc = "unknown" /\ pc' = "done"
    BY <1>5 DEF RestRead
  <2>3. KeepInv' /\ RestInv' /\ DiscardInv' /\ UnknownInv'
    BY <2>2 DEF KeepInv, RestInv, DiscardInv, UnknownInv
  <2>4. Misled \/ UnknownInv
    BY DEF BodyAsSentInv
  <2>5. ASSUME response.html, ~Misled
        PROVE  body_len' = Least(taken - response.head, BodyLimit)
    <3>1. head_len >= response.head
      BY <2>2, <2>4, <2>5, ReadNumbers DEF UnknownInv
    <3>2. html
      BY <2>1, <2>5, <3>1, Zenon
    <3>3. body_len' = body_len + loop.seen
      BY <2>1, <3>2
    <3>4. QED
      BY <2>2, <2>4, <2>5, <3>3, ReadNumbers DEF UnknownInv, Least
  <2>6. KeptIsPrefix'
    BY <1>1, <1>2, <2>5 DEF KeptIsPrefix
  <2>7. ASSUME cut = {}, response.length, ~TooMuchCame PROVE FALSE
    BY <2>2, <2>4, <2>7 DEF UnknownInv, HeaderWasCut, Misled
  <2>8. WholeBodyRead'
    BY <1>1, <1>2, <2>7 DEF WholeBodyRead
  <2>9. QED
    BY <1>3, <2>3, <2>6, <2>8 DEF BodyAsSentInv, BodyAsSent
<1>6. QED
  BY <1>4, <1>5

(* The kept part of the body has been read: all of it, or as much as the    *)
(* limit allows, with the rest to be read and dropped.                      *)
LEMMA BodyKeptAsSent ==
    ASSUME ReadInv, BodyAsSentInv, BodyKept
    PROVE  BodyAsSentInv'
<1> DEFINE total == response.announced
           most == Least(total, BodyLimit)
<1>1. /\ pc = "keep" /\ ~(loop.len > 0) /\ body_len' = body_len + loop.seen
      /\ UNCHANGED <<response, sent, taken, closed, head_len, room, along, cut, waited>>
      /\ HeaderWasCut' <=> HeaderWasCut
      /\ KeepWasCut' <=> KeepWasCut
      /\ End' = End
  BY DEF BodyKept, LoopOver, Wanting, HeaderFound, HeaderWasCut, KeepWasCut, End
<1>2. (Misled' <=> Misled) /\ (TooMuchCame' <=> TooMuchCame)
  BY <1>1 DEF Misled, TooMuchCame
<1>3. NeverWaitsForMore'
  BY <1>1, <1>2 DEF BodyAsSentInv, BodyAsSent, NeverWaitsForMore
<1>4. loop.len = 0
  BY <1>1, ReadNumbers
<1>5. most \in Int /\ most <= BodyLimit
      /\ most = IF total > BodyLimit THEN BodyLimit ELSE total
  BY ReadNumbers DEF Least
<1>6. ~Misled =>
        /\ response.length /\ response.html /\ len = total
        /\ taken = response.head + body_len' /\ body_len' <= most /\ body_len' \in Nat
        /\ KeepWasCut \/ body_len' = most
  BY <1>1, <1>4, <1>5, ReadNumbers DEF BodyAsSentInv, KeepInv
<1> HIDE DEF most
<1>7. CASE len > BodyLimit
  <2>1. /\ len' = len - BodyLimit /\ Goto("rest", Least(len', ReadSize))
    BY <1>7 DEF BodyKept
  <2>2. /\ len' \in Nat /\ len' > 0 /\ Least(len', ReadSize) \in Nat
        /\ Least(len', ReadSize) <= len'
    BY <1>7, <2>1, ReadNumbers DEF Least
  <2>3. pc' = "rest" /\ loop'.len = Least(len', ReadSize) /\ loop'.seen = 0
    BY <2>1, <2>2, GotoIs
  <2>4. cut = {} => ~KeepWasCut
    BY DEF KeepWasCut
  <2>5. ~Misled => RestInv'
    BY <1>1, <1>5, <1>6, <1>7, <2>1, <2>2, <2>3, <2>4, ReadNumbers DEF RestInv, End
  <2>6. QED
    BY <1>2, <1>3, <2>3, <2>5
    DEF BodyAsSentInv, BodyAsSent, KeepInv, DiscardInv, UnknownInv, KeptIsPrefix, WholeBodyRead
<1>8. CASE ~(len > BodyLimit)
  <2>1. pc' = "done"
    BY <1>8, ReadNumbers DEF BodyKept
  <2>2. ~Misled => body_len' = Least(taken - response.head, BodyLimit)
    BY <1>5, <1>6, <1>8, ReadNumbers DEF Least
  <2>3. KeptIsPrefix'
    BY <1>1, <1>2, <2>2 DEF KeptIsPrefix
  <2>4. cut = {} /\ ~TooMuchCame => ~KeepWasCut /\ ~Misled
    BY DEF KeepWasCut, HeaderWasCut, Misled
  <2>5. ~Misled /\ ~KeepWasCut => taken = response.head + total
    BY <1>5, <1>6, <1>8, ReadNumbers
  <2>6. WholeBodyRead'
    BY <1>1, <1>2, <2>4, <2>5 DEF WholeBodyRead
  <2>7. QED
    BY <1>2, <1>3, <2>1, <2>3, <2>6
    DEF BodyAsSentInv, BodyAsSent, KeepInv, RestInv, DiscardInv, UnknownInv
<1>9. QED
  BY <1>7, <1>8

(* A piece over the limit has been dropped.                                 *)
LEMMA DiscardedAsSent ==
    ASSUME ReadInv, BodyAsSentInv, Discarded
    PROVE  BodyAsSentInv'
<1>1. /\ pc = "rest" /\ ~(loop.len > 0) /\ len' = len - loop.seen
      /\ UNCHANGED <<response, sent, taken, closed, head_len, body_len, room, along, cut, waited>>
      /\ HeaderWasCut' <=> HeaderWasCut
      /\ KeepWasCut' <=> KeepWasCut
      /\ End' = End
  BY DEF Discarded, LoopOver, Wanting, HeaderFound, HeaderWasCut, KeepWasCut, End
<1>2. (Misled' <=> Misled) /\ (TooMuchCame' <=> TooMuchCame)
  BY <1>1 DEF Misled, TooMuchCame
<1>3. NeverWaitsForMore'
  BY <1>1, <1>2 DEF BodyAsSentInv, BodyAsSent, NeverWaitsForMore
<1>4. Misled \/ RestInv
  BY DEF BodyAsSentInv
<1>5. CASE loop.seen > 0 /\ len' > 0
  <2>1. Goto("rest", Least(len', ReadSize))
    BY <1>5 DEF Discarded
  <2>2. /\ len' \in Nat /\ Least(len', ReadSize) \in Nat
        /\ Least(len', ReadSize) > 0 /\ Least(len', ReadSize) <= len'
    BY <1>1, <1>5, ReadNumbers DEF Least
  <2>3. pc' = "rest" /\ loop'.len = Least(len', ReadSize) /\ loop'.seen = 0
    BY <2>1, <2>2, GotoIs
  <2>4. RestInv => RestInv'
    BY <1>1, <1>5, <2>2, <2>3, ReadNumbers DEF RestInv, End
  <2>5. QED
    BY <1>2, <1>3, <1>4, <2>3, <2>4
    DEF BodyAsSentInv, BodyAsSent, KeepInv, DiscardInv, UnknownInv, KeptIsPrefix, WholeBodyRead
<1>6. CASE ~(loop.seen > 0 /\ len' > 0)
  <2>1. pc' = "done"
    BY <1>6 DEF Discarded
  <2>2. RestInv =>
           \/ body_len = Least(taken - response.head, BodyLimit)
           \/ /\ response.length /\ response.announced > BodyLimit /\ KeepWasCut
              /\ body_len < taken - response.head
    BY <1>1, ReadNumbers DEF RestInv, Least
  <2>3. KeptIsPrefix'
    BY <1>1, <1>2, <1>4, <2>2 DEF KeptIsPrefix, KeepWasCut
  <2>4. cut = {} /\ ~TooMuchCame => RestInv
    BY <1>4 DEF HeaderWasCut, Misled
  <2>5. RestInv /\ cut = {} => taken = End
    <3>1. RestInv /\ cut = {} => loop.seen > 0
      BY <1>1, ReadNumbers DEF RestInv, Least
    <3>2. RestInv => loop.seen <= len
      BY <1>1, ReadNumbers DEF RestInv
    <3>3. RestInv /\ cut = {} => len - loop.seen = End - taken
      BY <1>1 DEF RestInv
    <3>4. End \in Nat
      BY ReadNumbers DEF End
    <3>5. QED
      BY <1>1, <1>6, <3>1, <3>2, <3>3, <3>4, ReadNumbers
  <2>6. WholeBodyRead'
    BY <1>1, <1>2, <2>4, <2>5 DEF WholeBodyRead, End
  <2>7. QED
    BY <1>2, <1>3, <2>1, <2>3, <2>6
    DEF BodyAsSentInv, BodyAsSent, KeepInv, RestInv, DiscardInv, UnknownInv
<1>7. QED
  BY <1>5, <1>6

(* A piece of a page that is thrown away has been read: the part that came  *)
(* with the header is less than a piece, so what is wanted of the next one  *)
(* is above zero as long as something is to come.                           *)
LEMMA BodyDiscardedAsSent ==
    ASSUME ReadInv, BodyAsSentInv, BodyDiscarded
    PROVE  BodyAsSentInv'
<1>1. /\ pc = "discard" /\ ~(loop.len > 0) /\ len' = Wraps(len - loop.seen)
      /\ UNCHANGED <<response, sent, taken, closed, head_len, room, along, cut, waited>>
      /\ HeaderWasCut' <=> HeaderWasCut
      /\ End' = End
  BY DEF BodyDiscarded, LoopOver, Wanting, HeaderFound, HeaderWasCut, End
<1>2. (Misled' <=> Misled) /\ (TooMuchCame' <=> TooMuchCame)
  BY <1>1 DEF Misled, TooMuchCame
<1>3. NeverWaitsForMore'
  BY <1>1, <1>2 DEF BodyAsSentInv, BodyAsSent, NeverWaitsForMore
<1>4. Misled \/ (DiscardInv /\ ~Misled)
  BY DEF BodyAsSentInv
<1>5. ASSUME DiscardInv, ~Misled
      PROVE  /\ response.length /\ ~response.html /\ loop.len = 0
             /\ body_len < ReadSize /\ len' - body_len = End - taken
             /\ len' \in Nat /\ len' < Modulus /\ body_len <= len'
             /\ len' = len - loop.seen /\ body_len <= len
             /\ cut = {} => loop.seen = DiscardWants(len, body_len)
  <2>1. loop.len = 0 /\ loop.seen <= len - body_len
    BY <1>1, <1>5, ReadNumbers DEF ReadInv, BodyInv
  <2>2. len - loop.seen \in Int /\ 0 <= len - loop.seen /\ len - loop.seen < Modulus
    BY <2>1, ReadNumbers
  <2>3. len' = len - loop.seen
    BY <1>1, <2>2, WrapsIs
  <2>4. QED
    BY <1>1, <1>5, <2>1, <2>2, <2>3, ReadNumbers DEF DiscardInv
<1>6. CASE loop.seen > 0 /\ len' # 0
  <2>1. Goto("discard", DiscardWants(len', body_len)) /\ UNCHANGED body_len
    BY <1>6 DEF BodyDiscarded
  <2>2. len' \in Nat /\ len' < Modulus
    BY <1>1, ReadNumbers, WrapsIs
  <2>3. DiscardWants(len', body_len) \in Nat
    BY <2>2, ReadNumbers, DiscardWantsIs
  <2>4. pc' = "discard" /\ loop'.len = DiscardWants(len', body_len) /\ loop'.seen = 0
    BY <2>1, <2>3, GotoIs
  <2>5. ASSUME DiscardInv, ~Misled PROVE DiscardInv'
    BY <1>1, <1>5, <2>1, <2>3, <2>4, <2>5, ReadNumbers DEF DiscardInv, End
  <2>6. QED
    BY <1>2, <1>3, <1>4, <2>4, <2>5
    DEF BodyAsSentInv, BodyAsSent, KeepInv, RestInv, UnknownInv, KeptIsPrefix, WholeBodyRead
<1>7. CASE ~(loop.seen > 0 /\ len' # 0)
  <2>1. pc' = "done"
    BY <1>7 DEF BodyDiscarded
  <2>2. KeptIsPrefix'
    BY <1>1, <1>2, <1>4, <1>5 DEF KeptIsPrefix
  <2>3. cut = {} /\ ~TooMuchCame => DiscardInv /\ ~Misled
    BY <1>4 DEF HeaderWasCut, Misled
  <2>4. ASSUME DiscardInv, ~Misled, cut = {}
        PROVE  taken = End
    <3>1. /\ body_len < ReadSize /\ len' - body_len = End - taken /\ len' \in Nat
          /\ body_len <= len' /\ len' = len - loop.seen /\ body_len <= len
          /\ loop.seen = DiscardWants(len, body_len)
      BY <1>5, <2>4
    <3>2. End \in Nat
      BY ReadNumbers DEF End
    <3>3. CASE len' = 0
      <4>1. body_len = 0
        BY <3>1, <3>3, ReadNumbers
      <4>2. End - taken = 0
        BY <3>1, <3>3, <4>1
      <4>3. QED
        BY <3>2, <4>2, ReadNumbers
    <3>4. CASE loop.seen = 0
      <4>1. DiscardWants(len, body_len) = 0
        BY <3>1, <3>4
      <4>2. len = body_len
        BY <3>1, <4>1, ReadNumbers, DiscardWantsIs
      <4>3. End - taken = 0
        BY <3>1, <3>4, <4>2, ReadNumbers
      <4>4. QED
        BY <3>2, <4>3, ReadNumbers
    <3>5. QED
      BY <1>7, <3>3, <3>4, ReadNumbers
  <2>5. WholeBodyRead'
    BY <1>1, <1>2, <2>3, <2>4 DEF WholeBodyRead, End
  <2>6. QED
    BY <1>2, <1>3, <2>1, <2>2, <2>5
    DEF BodyAsSentInv, BodyAsSent, KeepInv, RestInv, DiscardInv, UnknownInv
<1>8. QED
  BY <1>6, <1>7

-----------------------------------------------------------------------------
(* Whatever the sizes of the buffers, of the response, of what is announced *)
(* and of the pieces it comes in: the kept body is the beginning of the     *)
(* page without a gap, what was announced is read to its last byte, and     *)
(* nothing is waited for behind it (BodyAsSent).                            *)
THEOREM ReadBodyAsSent == Spec => []BodyAsSent
<1>1. Init => BodyAsSentInv
  BY DEF Init, BodyAsSentInv, BodyAsSent, KeepInv, RestInv, DiscardInv,
         UnknownInv, KeptIsPrefix, WholeBodyRead, NeverWaitsForMore
<1>2. ReadInv /\ BodyAsSentInv /\ [Next]_vars => BodyAsSentInv'
  <2> SUFFICES ASSUME ReadInv, BodyAsSentInv, [Next]_vars PROVE BodyAsSentInv'
    OBVIOUS
  <2>1. CASE UNCHANGED <<response, taken, pc, loop, head_len, body_len, room, len, along, cut,
                         waited>>
    <3>1. /\ HeaderWasCut' <=> HeaderWasCut
          /\ KeepWasCut' <=> KeepWasCut
          /\ End' = End
      BY <2>1 DEF HeaderWasCut, KeepWasCut, End
    <3>2. (Misled' <=> Misled) /\ (TooMuchCame' <=> TooMuchCame)
      BY <2>1, <3>1 DEF Misled, TooMuchCame
    <3>3. /\ KeepInv => KeepInv'
          /\ RestInv => RestInv'
          /\ DiscardInv => DiscardInv'
          /\ UnknownInv => UnknownInv'
      <4>1. KeepInv => KeepInv'
        BY <2>1, <3>1 DEF KeepInv
      <4>2. RestInv => RestInv'
        BY <2>1, <3>1 DEF RestInv
      <4>3. DiscardInv => DiscardInv'
        BY <2>1, <3>1 DEF DiscardInv
      <4>4. UnknownInv => UnknownInv'
        BY <2>1 DEF UnknownInv
      <4>5. QED
        BY <4>1, <4>2, <4>3, <4>4
    <3>4. BodyAsSent => BodyAsSent'
      BY <2>1, <3>2 DEF BodyAsSent, KeptIsPrefix, WholeBodyRead, NeverWaitsForMore
    <3>5. QED
      BY <3>2, <3>3, <3>4 DEF BodyAsSentInv
  <2>2. CASE ProbeStep
    BY <2>2, ReadSomeAsSent, OverrunAsSent, GivesUpAsSent, HeaderReadAsSent, LoopsEndAsSent,
       BodyKeptAsSent, DiscardedAsSent, BodyDiscardedAsSent DEF ProbeStep
  <2>3. QED
    BY <2>1, <2>2 DEF Next, vars, Arrive, ServerCloses
<1>3. BodyAsSentInv => BodyAsSent
  BY DEF BodyAsSentInv
<1>4. QED
  BY <1>1, <1>2, <1>3, ReadInvariant, PTL DEF Spec
=============================================================================
