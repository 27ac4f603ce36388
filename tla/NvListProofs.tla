---------------------------- MODULE NvListProofs ----------------------------
(***************************************************************************)
(* Lists of names and values, for any characters, names, values, bodies    *)
(* and sizes: a list's string fits the buffer that is made for it, a list  *)
(* that is read has room for its pairs whatever the string, and what was   *)
(* put into a list encoded is read back from its string, in its order.     *)
(*                                                                         *)
(* FlattenSeq, UrlDecode and Written are recursive functions.  That there  *)
(* is such a function is proved step by step (StepsExist); what holds of   *)
(* every value of it, by its number (AllNumbers).                          *)
(***************************************************************************)
EXTENDS NvList, FiniteSetTheorems, SequenceTheorems, WellFoundedInduction, TLAPS

(* The least of some places is one of them.                                 *)
LEMMA FirstPlace ==
    ASSUME NEW S \in SUBSET Nat, S # {}
    PROVE  Min(S) \in S /\ \A k \in S : Min(S) <= k
<1>1. PICK m \in S : \A y \in S : ~(<<y, m>> \in OpToRel(<, Nat))
  BY NatLessThanWellFounded, WFMin
<1>2. \A y \in S : m <= y
  <2>1. SUFFICES ASSUME NEW y \in S PROVE ~(y < m)
    BY SMT
  <2>2. <<y, m>> \in Nat \X Nat
    OBVIOUS
  <2>3. y < m => <<y, m>> \in OpToRel(<, Nat)
    BY <2>2, Zenon DEF OpToRel
  <2>4. QED
    BY <1>1, <2>3
<1>3. QED
  BY <1>2, Zenon DEF Min

(* A set of numbers with 0 and every successor has them all.                *)
LEMMA AllNumbers ==
    ASSUME NEW S, 0 \in S, \A k \in Nat : k \in S => k + 1 \in S
    PROVE  \A k \in Nat : k \in S
<1> SUFFICES ASSUME Nat \ S # {} PROVE FALSE
  OBVIOUS
<1>1. PICK m \in Nat \ S : \A y \in Nat \ S : ~(<<y, m>> \in OpToRel(<, Nat))
  BY NatLessThanWellFounded, WFMin
<1>2. /\ m \in Nat /\ m # 0 /\ m - 1 \in Nat
      /\ m - 1 \in S => m \in S
  <2>1. m - 1 + 1 = m
    OBVIOUS
  <2>2. m \in Nat /\ m # 0 /\ m - 1 \in Nat
    OBVIOUS
  <2>3. QED
    BY <2>1, <2>2
<1>3. m - 1 \in Nat \ S
  BY <1>1, <1>2
<1>4. <<m - 1, m>> \in OpToRel(<, Nat)
  <2>1. <<m - 1, m>> \in Nat \X Nat /\ m - 1 < m
    BY <1>3
  <2>2. QED
    BY <2>1, Zenon DEF OpToRel
<1>5. QED
  BY <1>1, <1>3, <1>4

(* What is computed in m steps, one value after the other.                  *)
Computes(g, m, b, f, A) ==
    /\ g \in [0 .. m -> A] /\ g[0] = b
    /\ \A k \in 1 .. m : g[k] = f[<<g[k - 1], k>>]

(* It exists.                                                               *)
LEMMA StepsExist ==
    ASSUME NEW A, NEW b \in A, NEW f, \A a \in A, k \in Nat : f[<<a, k>>] \in A
    PROVE  \A m \in Nat : \E g : Computes(g, m, b, f, A)
<1> DEFINE Is(g, m) == Computes(g, m, b, f, A)
           S == {m \in Nat : \E g : Is(g, m)}
<1>1. 0 \in S
  <2> DEFINE g == [k \in 0 .. 0 |-> b]
  <2>1. Is(g, 0)
    BY DEF Computes
  <2> HIDE DEF g, Is
  <2>2. QED
    BY <2>1
<1>2. ASSUME NEW m \in Nat, m \in S PROVE m + 1 \in S
  <2>1. PICK g : Is(g, m)
    BY <1>2
  <2>A. /\ g \in [0 .. m -> A] /\ g[0] = b
        /\ \A k \in 1 .. m : g[k] = f[<<g[k - 1], k>>]
    BY <2>1 DEF Computes
  <2> DEFINE v == f[<<g[m], m + 1>>]
             h == [k \in 0 .. m + 1 |-> IF k = m + 1 THEN v ELSE g[k]]
  <2>2. g[m] \in A /\ v \in A
    BY <2>A
  <2>3. h \in [0 .. m + 1 -> A] /\ h[0] = b
    <3> HIDE DEF v
    <3>1. QED
      BY <2>A, <2>2
  <2>4. \A k \in 1 .. m + 1 : h[k] = f[<<h[k - 1], k>>]
    <3>1. SUFFICES ASSUME NEW k \in 1 .. m + 1 PROVE h[k] = f[<<h[k - 1], k>>]
      OBVIOUS
    <3>2. CASE k = m + 1
      <4>1. h[k] = v /\ h[k - 1] = g[m] /\ k - 1 = m
        BY <3>2
      <4>2. QED
        BY <3>2, <4>1
    <3>3. CASE k # m + 1
      <4>1. k \in 1 .. m /\ k \in 0 .. m + 1 /\ k - 1 \in 0 .. m + 1 /\ k - 1 # m + 1
        BY <3>3
      <4>2. h[k] = g[k] /\ h[k - 1] = g[k - 1]
        BY <3>3, <4>1
      <4>3. QED
        BY <2>A, <4>1, <4>2
    <3>4. QED
      BY <3>2, <3>3
  <2>5. Is(h, m + 1)
    <3> HIDE DEF h
    <3>1. QED
      BY <2>3, <2>4 DEF Computes
  <2> HIDE DEF h, Is
  <2>6. QED
    BY <2>5
<1>3. \A m \in Nat : m \in S
  <2> HIDE DEF S
  <2>1. QED
    BY <1>1, <1>2, AllNumbers
<1>4. QED
  <2>1. SUFFICES ASSUME NEW m \in Nat PROVE \E g : Is(g, m)
    OBVIOUS
  <2> HIDE DEF Is
  <2>2. QED
    BY <1>3


Text == Seq(Char)

(* What a slot costs: a pair is written with a "=" and a "&".               *)
Cost(pair) == IF pair = NoPair THEN 0 ELSE Len(pair[1]) + Len(pair[2]) + 2

(* The cost of a list's first k slots.                                      *)
Costs(list, k) ==
    LET cost[j \in 0 .. list.size + 1] ==
            IF j = 0 THEN 0 ELSE cost[j - 1] + Cost(list.nvp[j - 1])
    IN  cost[k]

(* A list whose pairs are of texts.                                         *)
TextList(list) ==
    /\ list.size \in Nat
    /\ list.nvp \in [Slots(list.size) -> {NoPair} \cup (Text \X Text)]

(* It is a number, and a pair's is its length with the two delimiters.      *)
LEMMA SlotCost ==
    ASSUME NEW v \in {NoPair} \cup (Text \X Text)
    PROVE  /\ Cost(v) \in Nat
           /\ v # NoPair => /\ v[1] \in Text /\ v[2] \in Text
                            /\ Len(v[1]) \in Nat /\ Len(v[2]) \in Nat
                            /\ Cost(v) = Len(v[1]) + Len(v[2]) + 2
<1>1. CASE v = NoPair
  BY <1>1 DEF Cost
<1>2. CASE v # NoPair
  <2>1. v \in Text \X Text
    BY <1>2
  <2>2. v[1] \in Text /\ v[2] \in Text
    BY <2>1
  <2>3. Len(v[1]) \in Nat /\ Len(v[2]) \in Nat
    BY <2>2, LenProperties DEF Text
  <2>4. QED
    <3>1. Cost(v) = Len(v[1]) + Len(v[2]) + 2
      BY <1>2 DEF Cost
    <3>2. \A j, k \in Nat : j + k + 2 \in Nat
      OBVIOUS
    <3>3. QED
      BY <2>2, <2>3, <3>1, <3>2
<1>3. QED
  BY <1>1, <1>2

(* A list's cost grows slot by slot.                                        *)
LEMMA CostSteps ==
    ASSUME NEW list, TextList(list)
    PROVE  /\ Costs(list, 0) = 0
           /\ \A k \in 1 .. list.size + 1 :
                Costs(list, k) = Costs(list, k - 1) + Cost(list.nvp[k - 1])
           /\ \A k \in 0 .. list.size + 1 : Costs(list, k) \in Nat
<1> DEFINE m == list.size + 1
           f == [x \in Nat \X Nat |->
                   IF x[2] \in 1 .. m THEN x[1] + Cost(list.nvp[x[2] - 1]) ELSE 0]
<1>1. list.size \in Nat /\ m \in Nat
  BY DEF TextList
<1>2. \A k \in 1 .. m : Cost(list.nvp[k - 1]) \in Nat
  <2>1. SUFFICES ASSUME NEW k \in 1 .. m PROVE Cost(list.nvp[k - 1]) \in Nat
    OBVIOUS
  <2>2. k - 1 \in Slots(list.size)
    BY <1>1 DEF Slots
  <2>3. list.nvp[k - 1] \in {NoPair} \cup (Text \X Text)
    BY <2>2 DEF TextList
  <2>4. QED
    BY <2>3, SlotCost
<1>3. \A a \in Nat, k \in Nat : f[<<a, k>>] \in Nat
  <2> HIDE DEF m
  <2>1. QED
    BY <1>1, <1>2
<1>A. 0 \in Nat
  OBVIOUS
<1>4. PICK g : Computes(g, m, 0, f, Nat)
  <2> HIDE DEF f, m
  <2>1. \A j \in Nat : \E g : Computes(g, j, 0, f, Nat)
    BY <1>3, <1>A, StepsExist, Zenon
  <2>2. QED
    BY <1>1, <2>1, Zenon
<1>B. /\ g \in [0 .. m -> Nat] /\ g[0] = 0
      /\ \A k \in 1 .. m : g[k] = f[<<g[k - 1], k>>]
  BY <1>4, Zenon DEF Computes
<1>5. \A k \in 1 .. m : g[k] = g[k - 1] + Cost(list.nvp[k - 1])
  <2>1. SUFFICES ASSUME NEW k \in 1 .. m PROVE g[k] = g[k - 1] + Cost(list.nvp[k - 1])
    OBVIOUS
  <2>2. k \in Nat /\ k - 1 \in 0 .. m
    BY <1>1
  <2>3. g[k - 1] \in Nat
    BY <1>B, <2>2
  <2>4. f[<<g[k - 1], k>>] = g[k - 1] + Cost(list.nvp[k - 1])
    <3> HIDE DEF m
    <3>1. QED
      BY <2>2, <2>3
  <2>5. QED
    BY <1>B, <2>4
<1> HIDE DEF f
<1>6. g = [k \in 0 .. m |-> IF k = 0 THEN 0 ELSE g[k - 1] + Cost(list.nvp[k - 1])]
  <2>1. \A k \in 0 .. m : g[k] = IF k = 0 THEN 0 ELSE g[k - 1] + Cost(list.nvp[k - 1])
    BY <1>1, <1>B, <1>5
  <2>2. g = [k \in 0 .. m |-> g[k]]
    BY <1>B
  <2>3. QED
    BY <2>1, <2>2
<1>7. PICK h : /\ h = [k \in 0 .. m |-> IF k = 0 THEN 0 ELSE h[k - 1] + Cost(list.nvp[k - 1])]
               /\ \A k : Costs(list, k) = h[k]
  BY <1>6 DEF Costs
<1>8. h[0] = 0 /\ \A k \in 1 .. m : h[k] = h[k - 1] + Cost(list.nvp[k - 1])
  BY <1>1, <1>7
<1>9. \A k \in 0 .. m : h[k] \in Nat
  <2> DEFINE S == {k \in Nat : k <= m => h[k] \in Nat}
  <2>1. 0 \in S
    BY <1>8
  <2>2. ASSUME NEW k \in Nat, k \in S PROVE k + 1 \in S
    <3>1. SUFFICES ASSUME k + 1 <= m PROVE h[k + 1] \in Nat
      OBVIOUS
    <3>2. k + 1 \in 1 .. m /\ (k + 1) - 1 = k /\ h[k] \in Nat
      BY <1>1, <2>2, <3>1
    <3>3. h[k + 1] = h[k] + Cost(list.nvp[k]) /\ Cost(list.nvp[k]) \in Nat
      BY <1>2, <1>8, <3>2
    <3>4. QED
      BY <3>2, <3>3
  <2>3. \A k \in Nat : k \in S
    <3> HIDE DEF S
    <3>1. QED
      BY <2>1, <2>2, AllNumbers
  <2>4. QED
    BY <1>1, <2>3
<1>10. QED
  <2>1. Costs(list, 0) = 0
    BY <1>7, <1>8
  <2>2. \A k \in 0 .. m : Costs(list, k) \in Nat
    BY <1>7, <1>9
  <2>3. \A k \in 1 .. m : Costs(list, k) = Costs(list, k - 1) + Cost(list.nvp[k - 1])
    BY <1>7, <1>8
  <2>4. QED
    BY <2>1, <2>2, <2>3

(* Two sequences one behind the other.                                      *)
LEMMA JoinedSeqs ==
    ASSUME NEW T
    PROVE  \A s, t \in Seq(T) :
             /\ s \o t \in Seq(T) /\ Len(s \o t) = Len(s) + Len(t)
             /\ Len(s) \in Nat /\ Len(t) \in Nat
             /\ \A k \in 1 .. Len(s) : (s \o t)[k] = s[k]
             /\ \A k \in 1 .. Len(t) : (s \o t)[Len(s) + k] = t[k]
<1> SUFFICES ASSUME NEW s \in Seq(T), NEW t \in Seq(T)
    PROVE  /\ s \o t \in Seq(T) /\ Len(s \o t) = Len(s) + Len(t)
           /\ Len(s) \in Nat /\ Len(t) \in Nat
           /\ \A k \in 1 .. Len(s) : (s \o t)[k] = s[k]
           /\ \A k \in 1 .. Len(t) : (s \o t)[Len(s) + k] = t[k]
  OBVIOUS
<1>1. Len(s) \in Nat /\ Len(t) \in Nat
  BY LenProperties
<1>2. /\ s \o t \in Seq(T) /\ Len(s \o t) = Len(s) + Len(t)
      /\ \A k \in 1 .. Len(s) + Len(t) :
           (s \o t)[k] = IF k <= Len(s) THEN s[k] ELSE t[k - Len(s)]
  BY ConcatProperties
<1> DEFINE u == s \o t
<1> HIDE DEF u
<1>3. \A k \in 1 .. Len(s) : u[k] = s[k]
  BY <1>1, <1>2 DEF u
<1>4. \A k \in 1 .. Len(t) : u[Len(s) + k] = t[k]
  <2>1. SUFFICES ASSUME NEW k \in 1 .. Len(t) PROVE u[Len(s) + k] = t[k]
    OBVIOUS
  <2>2. Len(s) + k \in 1 .. Len(s) + Len(t) /\ ~(Len(s) + k <= Len(s))
        /\ (Len(s) + k) - Len(s) = k
    BY <1>1
  <2>3. QED
    BY <1>2, <2>2 DEF u
<1>5. QED
  BY <1>1, <1>2, <1>3, <1>4 DEF u

(* Two texts are.                                                           *)
LEMMA JoinedTexts ==
    \A s, t \in Text :
        /\ s \o t \in Text /\ Len(s \o t) = Len(s) + Len(t)
        /\ Len(s) \in Nat /\ Len(t) \in Nat
        /\ \A k \in 1 .. Len(s) : (s \o t)[k] = s[k]
        /\ \A k \in 1 .. Len(t) : (s \o t)[Len(s) + k] = t[k]
<1>1. \A s, t \in Seq(Char) :
        /\ s \o t \in Seq(Char) /\ Len(s \o t) = Len(s) + Len(t)
        /\ Len(s) \in Nat /\ Len(t) \in Nat
        /\ \A k \in 1 .. Len(s) : (s \o t)[k] = s[k]
        /\ \A k \in 1 .. Len(t) : (s \o t)[Len(s) + k] = t[k]
  BY JoinedSeqs
<1>2. QED
  BY <1>1 DEF Text

(* The delimiters are texts of one character.                               *)
LEMMA Delimiters ==
    /\ \A c \in Char : <<c>> \in Text /\ Len(<<c>>) = 1 /\ <<c>>[1] = c
    /\ <<>> \in Text /\ Len(<<>>) = 0
    /\ "&" \in Char /\ "=" \in Char /\ "%" \in Char
BY DEF Text, Char, Special

(* Where a pair is written behind ret: how many characters are in front.    *)
Before(ret) == IF ret = <<>> THEN 0 ELSE Len(ret) + 1

(* What strcat writes, and where.                                           *)
LEMMA PairPlaces ==
    ASSUME NEW ret \in Text, NEW pair \in Text \X Text
    PROVE  LET s == Strcat(ret, pair)
               a == pair[1]
               v == pair[2]
           IN  /\ s \in Text /\ Len(s) = Before(ret) + Len(a) + 1 + Len(v)
               /\ \A k \in 1 .. Len(ret) : s[k] = ret[k]
               /\ ret # <<>> => s[Len(ret) + 1] = "&"
               /\ \A k \in 1 .. Len(a) : s[Before(ret) + k] = a[k]
               /\ s[Before(ret) + Len(a) + 1] = "="
               /\ \A k \in 1 .. Len(v) : s[Before(ret) + Len(a) + 1 + k] = v[k]
<1> DEFINE a == pair[1]
           v == pair[2]
           c == IF ret = <<>> THEN <<>> ELSE <<"&">>
           e == <<"=">>
           p == ret \o c
           q == p \o a
           r == q \o e
           s == r \o v
<1>1. Strcat(ret, pair) = s
  BY DEF Strcat
<1>2. /\ a \in Text /\ v \in Text /\ c \in Text /\ e \in Text
      /\ Len(e) = 1 /\ e[1] = "="
      /\ ret # <<>> => Len(c) = 1 /\ c[1] = "&"
      /\ ret = <<>> => Len(c) = 0
      /\ Len(ret) \in Nat /\ (ret = <<>> => Len(ret) = 0)
  BY Delimiters, LenProperties DEF Text
<1> HIDE DEF a, v, c, e
<1>3. /\ p \in Text /\ Len(p) = Len(ret) + Len(c) /\ Len(ret) \in Nat /\ Len(c) \in Nat
      /\ \A k \in 1 .. Len(ret) : p[k] = ret[k]
      /\ \A k \in 1 .. Len(c) : p[Len(ret) + k] = c[k]
  BY <1>2, JoinedTexts, Zenon
<1>4. Len(p) = Before(ret) /\ (ret # <<>> => p[Len(ret) + 1] = "&")
  <2> HIDE DEF p
  <2>1. CASE ret = <<>>
    <3>1. Before(ret) = 0 /\ Len(ret) = 0 /\ Len(c) = 0
      BY <1>2, <2>1 DEF Before
    <3>2. QED
      BY <1>3, <2>1, <3>1
  <2>2. CASE ret # <<>>
    <3>1. Before(ret) = Len(ret) + 1 /\ Len(c) = 1 /\ c[1] = "&"
      BY <1>2, <2>2 DEF Before
    <3>2. p[Len(ret) + 1] = c[1]
      BY <1>3, <3>1
    <3>3. QED
      BY <1>3, <3>1, <3>2
  <2>3. QED
    BY <2>1, <2>2
<1> HIDE DEF p
<1>5. /\ q \in Text /\ Len(q) = Len(p) + Len(a) /\ Len(p) \in Nat /\ Len(a) \in Nat
      /\ \A k \in 1 .. Len(p) : q[k] = p[k]
      /\ \A k \in 1 .. Len(a) : q[Len(p) + k] = a[k]
  <2>1. p \in Text /\ a \in Text
    BY <1>2, <1>3
  <2>2. QED
    BY <2>1, JoinedTexts, Zenon
<1> HIDE DEF q
<1>6. /\ r \in Text /\ Len(r) = Len(q) + Len(e)
      /\ \A k \in 1 .. Len(q) : r[k] = q[k]
      /\ \A k \in 1 .. Len(e) : r[Len(q) + k] = e[k]
  <2>1. q \in Text /\ e \in Text
    BY <1>2, <1>5
  <2>2. QED
    BY <2>1, JoinedTexts, Zenon
<1> HIDE DEF r
<1>7. /\ s \in Text /\ Len(s) = Len(r) + Len(v) /\ Len(v) \in Nat
      /\ \A k \in 1 .. Len(r) : s[k] = r[k]
      /\ \A k \in 1 .. Len(v) : s[Len(r) + k] = v[k]
  <2>1. r \in Text /\ v \in Text
    BY <1>2, <1>6
  <2>2. QED
    BY <2>1, JoinedTexts, Zenon
<1> HIDE DEF s
<1> DEFINE b == Before(ret)
<1> HIDE DEF b
<1>8. /\ Len(p) = b /\ Len(q) = b + Len(a) /\ Len(r) = b + Len(a) + 1
      /\ b \in Nat /\ Len(ret) <= b /\ (ret # <<>> => Len(ret) + 1 = b)
  BY <1>2, <1>3, <1>4, <1>5, <1>6 DEF Before, b
<1>9. Len(s) = b + Len(a) + 1 + Len(v)
  BY <1>5, <1>7, <1>8
<1>10. \A k \in 1 .. b : s[k] = p[k]
  BY <1>5, <1>6, <1>7, <1>8
<1>11. \A k \in 1 .. Len(ret) : s[k] = ret[k]
  BY <1>2, <1>3, <1>8, <1>10
<1>12. ret # <<>> => s[Len(ret) + 1] = "&"
  BY <1>2, <1>4, <1>8, <1>10
<1>13. \A k \in 1 .. Len(a) : s[b + k] = a[k]
  <2>1. SUFFICES ASSUME NEW k \in 1 .. Len(a) PROVE s[b + k] = a[k]
    OBVIOUS
  <2>2. b + k \in 1 .. Len(q) /\ b + k \in 1 .. Len(r)
    BY <1>5, <1>8
  <2>3. QED
    BY <1>5, <1>6, <1>7, <1>8, <2>2
<1>14. s[b + Len(a) + 1] = "="
  <2>1. b + Len(a) + 1 \in 1 .. Len(r) /\ 1 \in 1 .. Len(e) /\ b + Len(a) + 1 = Len(q) + 1
    BY <1>2, <1>5, <1>8
  <2>2. QED
    BY <1>2, <1>6, <1>7, <2>1
<1>15. \A k \in 1 .. Len(v) : s[b + Len(a) + 1 + k] = v[k]
  BY <1>7, <1>8
<1>16. QED
  BY <1>1, <1>7, <1>9, <1>11, <1>12, <1>13, <1>14, <1>15 DEF a, v, b

(* What is written of a list grows slot by slot.                            *)
LEMMA WrittenSteps ==
    ASSUME NEW list, TextList(list)
    PROVE  /\ Written(list, 0) = <<>>
           /\ \A k \in 1 .. list.size + 1 :
                Written(list, k) = IF list.nvp[k - 1] = NoPair THEN Written(list, k - 1)
                                   ELSE Strcat(Written(list, k - 1), list.nvp[k - 1])
           /\ \A k \in 0 .. list.size + 1 : Written(list, k) \in Text
<1> DEFINE m == list.size + 1
           Next(ret, k) == IF list.nvp[k - 1] = NoPair THEN ret ELSE Strcat(ret, list.nvp[k - 1])
           f == [y \in Text \X Nat |-> IF y[2] \in 1 .. m THEN Next(y[1], y[2]) ELSE <<>>]
<1>1. list.size \in Nat /\ m \in Nat
  BY DEF TextList
<1>2. \A ret \in Text, k \in 1 .. m : Next(ret, k) \in Text
  <2>1. SUFFICES ASSUME NEW ret \in Text, NEW k \in 1 .. m PROVE Next(ret, k) \in Text
    OBVIOUS
  <2>2. k - 1 \in Slots(list.size)
    BY <1>1 DEF Slots
  <2>3. list.nvp[k - 1] \in {NoPair} \cup (Text \X Text)
    BY <2>2 DEF TextList
  <2>4. list.nvp[k - 1] # NoPair => Strcat(ret, list.nvp[k - 1]) \in Text
    BY <2>3, PairPlaces
  <2>5. QED
    BY <2>4
<1>3. <<>> \in Text
  BY Delimiters
<1> HIDE DEF Next, m
<1>4. \A a \in Text, k \in Nat : f[<<a, k>>] \in Text
  BY <1>2, <1>3
<1>5. \A a \in Text, k \in 1 .. m : f[<<a, k>>] = Next(a, k)
  BY <1>1
<1> HIDE DEF f
<1>6. PICK g : Computes(g, m, <<>>, f, Text)
  <2>1. \A j \in Nat : \E g : Computes(g, j, <<>>, f, Text)
    BY <1>3, <1>4, StepsExist, Zenon
  <2>2. QED
    BY <1>1, <2>1, Zenon
<1>7. /\ g \in [0 .. m -> Text] /\ g[0] = <<>>
      /\ \A k \in 1 .. m : g[k] = f[<<g[k - 1], k>>]
  BY <1>6, Zenon DEF Computes
<1>8. g = [k \in 0 .. m |-> IF k = 0 THEN <<>> ELSE Next(g[k - 1], k)]
  <2>1. \A k \in 1 .. m : g[k] = Next(g[k - 1], k)
    <3>1. SUFFICES ASSUME NEW k \in 1 .. m PROVE g[k] = Next(g[k - 1], k)
      OBVIOUS
    <3>2. k - 1 \in 0 .. m
      BY <1>1
    <3>3. QED
      BY <1>5, <1>7, <3>2
  <2>2. \A k \in 0 .. m : g[k] = IF k = 0 THEN <<>> ELSE Next(g[k - 1], k)
    BY <1>1, <1>7, <2>1
  <2>3. g = [k \in 0 .. m |-> g[k]]
    BY <1>7
  <2>4. QED
    BY <2>2, <2>3
<1>9. PICK h : /\ h = [k \in 0 .. m |-> IF k = 0 THEN <<>> ELSE Next(h[k - 1], k)]
               /\ \A k : Written(list, k) = h[k]
  BY <1>8 DEF Written, Next, m
<1>10. h[0] = <<>> /\ \A k \in 1 .. m : h[k] = Next(h[k - 1], k)
  BY <1>1, <1>9
<1>11. \A k \in 0 .. m : h[k] \in Text
  <2> DEFINE S == {k \in Nat : k <= m => h[k] \in Text}
  <2>1. 0 \in S
    BY <1>3, <1>10
  <2>2. ASSUME NEW k \in Nat, k \in S PROVE k + 1 \in S
    <3>1. SUFFICES ASSUME k + 1 <= m PROVE h[k + 1] \in Text
      OBVIOUS
    <3>2. k + 1 \in 1 .. m /\ (k + 1) - 1 = k /\ h[k] \in Text
      BY <1>1, <2>2, <3>1
    <3>3. h[k + 1] = Next(h[k], k + 1)
      BY <1>10, <3>2
    <3>4. QED
      BY <1>2, <3>2, <3>3
  <2>3. \A k \in Nat : k \in S
    <3> HIDE DEF S
    <3>1. QED
      BY <2>1, <2>2, AllNumbers
  <2>4. QED
    BY <1>1, <2>3
<1>12. QED
  <2>1. Written(list, 0) = <<>>
    BY <1>9, <1>10
  <2>2. \A k \in 0 .. m : Written(list, k) \in Text
    BY <1>9, <1>11
  <2>3. \A k \in 1 .. m : Written(list, k) = Next(Written(list, k - 1), k)
    BY <1>9, <1>10
  <2>4. QED
    BY <2>1, <2>2, <2>3 DEF Next, m

(* A list's cost only grows with its slots.                                 *)
LEMMA CostsGrow ==
    ASSUME NEW list, TextList(list), NEW k \in 0 .. list.size + 1
    PROVE  Costs(list, k) <= Costs(list, list.size + 1)
<1> DEFINE m == list.size + 1
           S == {j \in Nat : k + j <= m => Costs(list, k) <= Costs(list, k + j)}
<1>1. m \in Nat /\ list.size \in Nat /\ k \in Nat /\ \A j \in 0 .. m : Costs(list, j) \in Nat
  BY CostSteps DEF TextList
<1>2. 0 \in S
  BY <1>1
<1>3. ASSUME NEW j \in Nat, j \in S PROVE j + 1 \in S
  <2>1. SUFFICES ASSUME k + (j + 1) <= m PROVE Costs(list, k) <= Costs(list, k + (j + 1))
    OBVIOUS
  <2>2. /\ k + (j + 1) \in 1 .. m /\ k + (j + 1) - 1 = k + j /\ k + j \in 0 .. m
        /\ Costs(list, k) <= Costs(list, k + j)
    BY <1>1, <1>3, <2>1
  <2>3. Costs(list, k + (j + 1)) = Costs(list, k + j) + Cost(list.nvp[k + j])
    BY <2>2, CostSteps
  <2>4. k + j \in Slots(list.size)
    BY <1>1, <2>1 DEF Slots
  <2>5. Cost(list.nvp[k + j]) \in Nat
    BY <2>4, SlotCost DEF TextList
  <2>6. Costs(list, k) \in Nat /\ Costs(list, k + j) \in Nat
    BY <1>1, <2>2
  <2>7. QED
    BY <2>2, <2>3, <2>5, <2>6
<1>4. \A j \in Nat : j \in S
  <2> HIDE DEF S
  <2>1. QED
    BY <1>2, <1>3, AllNumbers
<1>5. m - k \in Nat /\ k + (m - k) = m
  BY <1>1
<1>6. QED
  BY <1>4, <1>5

(* What is written of k slots, and one character more, is no longer than    *)
(* what they cost.                                                          *)
LEMMA WrittenCosts ==
    ASSUME NEW list, TextList(list), NEW k \in 0 .. list.size + 1, Written(list, k) # <<>>
    PROVE  Len(Written(list, k)) + 1 <= Costs(list, k)
<1> DEFINE m == list.size + 1
           Fits(j) == IF Written(list, j) = <<>> THEN TRUE
                      ELSE Len(Written(list, j)) + 1 <= Costs(list, j)
           S == {j \in Nat : j <= m => Fits(j)}
<1>1. m \in Nat
  BY DEF TextList
<1>2. 0 \in S
  BY WrittenSteps
<1>3. ASSUME NEW j \in Nat, j \in S PROVE j + 1 \in S
  <2>1. SUFFICES ASSUME j + 1 <= m PROVE Fits(j + 1)
    OBVIOUS
  <2> DEFINE pair == list.nvp[j]
             ret == Written(list, j)
             c == Costs(list, j)
  <2>2. j + 1 \in 1 .. m /\ (j + 1) - 1 = j /\ j \in 0 .. m /\ Fits(j)
    BY <1>1, <1>3, <2>1
  <2>3. pair \in {NoPair} \cup (Text \X Text)
    <3>1. j \in Slots(list.size)
      BY <1>1, <2>1 DEF Slots, TextList
    <3>2. QED
      BY <3>1 DEF TextList
  <2>4. /\ Written(list, j + 1) = IF pair = NoPair THEN ret ELSE Strcat(ret, pair)
        /\ ret \in Text
    BY <2>2, WrittenSteps
  <2>5. Costs(list, j + 1) = c + Cost(pair) /\ c \in Nat
    BY <2>2, CostSteps
  <2>6. IF ret = <<>> THEN TRUE ELSE Len(ret) + 1 <= c
    BY <2>2
  <2> HIDE DEF pair, ret, c
  <2>7. CASE pair = NoPair
    BY <2>4, <2>5, <2>6, <2>7 DEF Cost
  <2>8. CASE pair # NoPair
    <3>1. /\ Len(Strcat(ret, pair)) = Before(ret) + Len(pair[1]) + 1 + Len(pair[2])
          /\ Cost(pair) = Len(pair[1]) + Len(pair[2]) + 2
          /\ Len(pair[1]) \in Nat /\ Len(pair[2]) \in Nat
      BY <2>3, <2>4, <2>8, PairPlaces, SlotCost
    <3>2. Before(ret) \in Nat /\ Before(ret) <= c
      BY <2>4, <2>5, <2>6, LenProperties DEF Before, Text
    <3>3. Written(list, j + 1) = Strcat(ret, pair)
      BY <2>4, <2>8
    <3>4. \A a, u, v, w \in Nat : a <= w => (a + u + 1 + v) + 1 <= w + (u + v + 2)
      OBVIOUS
    <3>5. Len(Strcat(ret, pair)) + 1 <= c + Cost(pair)
      BY <2>5, <3>1, <3>2, <3>4
    <3>6. QED
      BY <2>5, <3>3, <3>5
  <2>9. QED
    BY <2>7, <2>8
<1>4. \A j \in Nat : j \in S
  <2> HIDE DEF S
  <2>1. QED
    BY <1>2, <1>3, AllNumbers
<1>5. k \in Nat /\ k <= m
  BY <1>1
<1>6. QED
  BY <1>4, <1>5

(* FlattenSeq puts one sequence behind the other.                           *)
LEMMA FlattenSteps ==
    ASSUME NEW T, NEW q \in Seq(Seq(T))
    PROVE  \E g : /\ g \in [0 .. Len(q) -> Seq(T)] /\ g[0] = <<>>
                  /\ \A k \in 1 .. Len(q) : g[k] = g[k - 1] \o q[k]
                  /\ FlattenSeq(q) = g[Len(q)]
<1> DEFINE m == Len(q)
           A == Seq(T)
           f == [y \in A \X Nat |-> IF y[2] \in 1 .. m THEN y[1] \o q[y[2]] ELSE <<>>]
<1>1. m \in Nat /\ <<>> \in A
  BY LenProperties
<1>2. \A k \in 1 .. m : q[k] \in A
  BY ElementOfSeq
<1>3. \A s, t \in A : s \o t \in A
  BY ConcatProperties
<1>4. \A t \in A : <<>> \o t = t
  BY ConcatEmptySeq
<1> HIDE DEF A, m
<1>5. \A a \in A, k \in Nat : f[<<a, k>>] \in A
  BY <1>1, <1>2, <1>3
<1>6. \A a \in A, k \in 1 .. m : f[<<a, k>>] = a \o q[k]
  <2>1. SUFFICES ASSUME NEW a \in A, NEW k \in 1 .. m PROVE f[<<a, k>>] = a \o q[k]
    OBVIOUS
  <2>2. k \in Nat
    BY <1>1
  <2>3. <<a, k>> \in A \X Nat /\ <<a, k>>[1] = a /\ <<a, k>>[2] = k
    BY <2>2
  <2>4. QED
    BY <2>3
<1> HIDE DEF f
<1>7. PICK g : Computes(g, m, <<>>, f, A)
  <2>1. \A j \in Nat : \E g : Computes(g, j, <<>>, f, A)
    BY <1>1, <1>5, StepsExist, Zenon
  <2>2. QED
    BY <1>1, <2>1, Zenon
<1>8. /\ g \in [0 .. m -> A] /\ g[0] = <<>>
      /\ \A k \in 1 .. m : g[k] = f[<<g[k - 1], k>>]
  BY <1>7, Zenon DEF Computes
<1>9. \A k \in 1 .. m : g[k] = g[k - 1] \o q[k]
  <2>1. SUFFICES ASSUME NEW k \in 1 .. m PROVE g[k] = g[k - 1] \o q[k]
    OBVIOUS
  <2>2. k - 1 \in 0 .. m
    BY <1>1
  <2>3. QED
    BY <1>6, <1>8, <2>2
<1>10. CASE m = 0
  <2>1. q = <<>> /\ FlattenSeq(q) = q
    BY <1>10, EmptySeq DEF FlattenSeq, m
  <2>2. QED
    BY <1>1, <1>8, <1>9, <1>10, <2>1 DEF A, m
<1>11. CASE m # 0
  <2> DEFINE e == [k \in 1 .. m |-> g[k]]
  <2>1. \A k \in 1 .. m : e[k] = IF k = 1 THEN q[k] ELSE e[k - 1] \o q[k]
    <3>1. SUFFICES ASSUME NEW k \in 1 .. m
          PROVE  e[k] = IF k = 1 THEN q[k] ELSE e[k - 1] \o q[k]
      OBVIOUS
    <3>2. CASE k = 1
      <4>1. k - 1 = 0 /\ q[k] \in A
        BY <1>2, <3>2
      <4>2. g[k] = <<>> \o q[k]
        BY <1>8, <1>9, <4>1
      <4>3. QED
        BY <1>4, <3>2, <4>1, <4>2
    <3>3. CASE k # 1
      <4>1. k - 1 \in 1 .. m
        BY <1>1, <3>3
      <4>2. QED
        BY <1>9, <3>3, <4>1
    <3>4. QED
      BY <3>2, <3>3
  <2>2. e = [k \in 1 .. m |-> e[k]]
    OBVIOUS
  <2> HIDE DEF e
  <2>3. e = [k \in 1 .. m |-> IF k = 1 THEN q[k] ELSE e[k - 1] \o q[k]]
    BY <2>1, <2>2
  <2>4. PICK h : /\ h = [k \in 1 .. m |-> IF k = 1 THEN q[k] ELSE h[k - 1] \o q[k]]
                 /\ FlattenSeq(q) = h[m]
    BY <1>11, <2>3 DEF FlattenSeq, m
  <2> DEFINE d == [k \in 0 .. m |-> IF k = 0 THEN <<>> ELSE h[k]]
  <2>5. d[0] = <<>> /\ d[m] = FlattenSeq(q) /\ DOMAIN d = 0 .. m /\ d = [k \in 0 .. m |-> d[k]]
    BY <1>1, <1>11, <2>4
  <2>6. \A k \in 1 .. m : d[k] = d[k - 1] \o q[k]
    <3>1. SUFFICES ASSUME NEW k \in 1 .. m PROVE d[k] = d[k - 1] \o q[k]
      OBVIOUS
    <3>2. d[k] = h[k] /\ (k # 1 => d[k - 1] = h[k - 1]) /\ (k = 1 => d[k - 1] = <<>>)
      BY <1>1
    <3> HIDE DEF d
    <3>3. h[k] = IF k = 1 THEN q[k] ELSE h[k - 1] \o q[k]
      BY <2>4
    <3>4. QED
      BY <1>2, <1>4, <3>2, <3>3
  <2> HIDE DEF d
  <2>7. \A k \in 0 .. m : d[k] \in A
    <3> DEFINE S == {k \in Nat : k <= m => d[k] \in A}
    <3>1. 0 \in S
      BY <1>1, <2>5
    <3>2. ASSUME NEW k \in Nat, k \in S PROVE k + 1 \in S
      <4>1. SUFFICES ASSUME k + 1 <= m PROVE d[k + 1] \in A
        OBVIOUS
      <4>2. k + 1 \in 1 .. m /\ (k + 1) - 1 = k /\ d[k] \in A
        BY <1>1, <3>2, <4>1
      <4>3. d[k + 1] = d[k] \o q[k + 1] /\ q[k + 1] \in A
        BY <1>2, <2>6, <4>2
      <4>4. QED
        BY <1>3, <4>2, <4>3
    <3>3. \A k \in Nat : k \in S
      <4> HIDE DEF S
      <4>1. QED
        BY <3>1, <3>2, AllNumbers
    <3>4. QED
      BY <1>1, <3>3
  <2>8. d \in [0 .. m -> A]
    BY <2>5, <2>7
  <2>9. QED
    BY <2>5, <2>6, <2>8 DEF A, m
<1>12. QED
  BY <1>10, <1>11

(* The characters an encoded text has.                                      *)
Plain == Letter \cup {"%"}

(* A text is encoded character by character, none of which is "&" or "=".   *)
LEMMA EncodeSteps ==
    ASSUME NEW s \in Text
    PROVE  \E g : /\ g \in [0 .. Len(s) -> Seq(Plain)] /\ g[0] = <<>>
                  /\ \A k \in 1 .. Len(s) : g[k] = g[k - 1] \o Encoded(s[k])
                  /\ UrlEncode(s) = g[Len(s)]
<1> DEFINE q == [k \in DOMAIN s |-> Encoded(s[k])]
<1>1. Len(s) \in Nat /\ DOMAIN s = 1 .. Len(s) /\ \A k \in 1 .. Len(s) : s[k] \in Char
  BY LenProperties, ElementOfSeq DEF Text
<1>2. \A c \in Char : Encoded(c) \in Seq(Plain)
  <2>1. SUFFICES ASSUME NEW c \in Char PROVE Encoded(c) \in Seq(Plain)
    OBVIOUS
  <2>2. CASE c \in Special
    <3>1. Hex[c] \in Letter \X Letter
      BY <2>2, NvListAssumption
    <3>2. Hex[c][1] \in Plain /\ Hex[c][2] \in Plain /\ "%" \in Plain
      BY <3>1 DEF Plain
    <3>3. QED
      BY <2>2, <3>2 DEF Encoded
  <2>3. CASE c \notin Special
    BY <2>3 DEF Encoded, Char, Plain
  <2>4. QED
    BY <2>2, <2>3
<1>3. q \in Seq(Seq(Plain)) /\ Len(q) = Len(s) /\ \A k \in 1 .. Len(s) : q[k] = Encoded(s[k])
  BY <1>1, <1>2, IsASeq
<1>4. UrlEncode(s) = FlattenSeq(q)
  BY DEF UrlEncode
<1> HIDE DEF q
<1>5. PICK g : /\ g \in [0 .. Len(q) -> Seq(Plain)] /\ g[0] = <<>>
               /\ \A k \in 1 .. Len(q) : g[k] = g[k - 1] \o q[k]
               /\ FlattenSeq(q) = g[Len(q)]
  BY <1>3, FlattenSteps
<1>6. QED
  BY <1>3, <1>4, <1>5

(* What an encoded text is.                                                 *)
LEMMA EncodedIsPlain ==
    ASSUME NEW s \in Text
    PROVE  UrlEncode(s) \in Seq(Plain) /\ UrlEncode(s) \in Text
<1>1. PICK g : g \in [0 .. Len(s) -> Seq(Plain)] /\ UrlEncode(s) = g[Len(s)]
  BY EncodeSteps
<1>2. Len(s) \in 0 .. Len(s)
  BY LenProperties DEF Text
<1>3. Seq(Plain) \subseteq Text
  <2>1. Plain \subseteq Char
    BY DEF Plain, Char, Special
  <2>2. QED
    BY <2>1, SeqMonotonic DEF Text
<1>4. QED
  BY <1>1, <1>2, <1>3

(* Lists of these pairs.                                                    *)
Lists(P, n) ==
    [nvp : [Slots(n) -> {NoPair} \cup P], size : {n}, data_size : Nat, last : Slots(n)]

(* A pair is put into a free slot.                                          *)
LEMMA FreeSlotIs ==
    ASSUME NEW P, NEW n \in Nat, NEW list \in Lists(P, n), NEW i \in 0 .. n
    PROVE  LET k == FreeSlot(list, i)
           IN  k <= n => k \in Slots(n) /\ list.nvp[k] = NoPair
<1> DEFINE start == IF i = 0 /\ list.last # 0 THEN list.last + 1 ELSE i
           free == {k \in DOMAIN list.nvp : k >= start /\ list.nvp[k] = NoPair}
<1>1. FreeSlot(list, i) = IF free = {} THEN list.size + 1 ELSE Min(free)
  BY DEF FreeSlot
<1>2. list.size = n /\ DOMAIN list.nvp = Slots(n) /\ Slots(n) \subseteq Nat
  BY DEF Lists, Slots
<1>3. free \in SUBSET Nat
  BY <1>2
<1>4. free # {} => Min(free) \in free
  <2> HIDE DEF free
  <2>1. QED
    BY <1>3, FirstPlace
<1>5. free = {} => ~(FreeSlot(list, i) <= n)
  BY <1>1, <1>2
<1>6. QED
  BY <1>1, <1>2, <1>4, <1>5

(* In a list whose first m slots are used it is the next one.               *)
LEMMA NextSlotIs ==
    ASSUME NEW P, NEW n \in Nat, NEW list \in Lists(P, n), NEW m \in 0 .. n,
           \A k \in Slots(n) : list.nvp[k] = NoPair <=> k >= m,
           list.last = IF m = 0 THEN 0 ELSE m - 1
    PROVE  FreeSlot(list, 0) = m
<1> DEFINE start == IF list.last # 0 THEN list.last + 1 ELSE 0
           free == {k \in DOMAIN list.nvp : k >= start /\ list.nvp[k] = NoPair}
<1>1. FreeSlot(list, 0) = IF free = {} THEN list.size + 1 ELSE Min(free)
  BY DEF FreeSlot
<1>2. DOMAIN list.nvp = 0 .. n /\ Slots(n) = 0 .. n /\ m \in Nat /\ m <= n
  BY DEF Lists, Slots
<1>3. start \in Nat /\ start <= m
  BY <1>2
<1>4. free = {k \in 0 .. n : k >= m}
  <2> HIDE DEF start
  <2>1. QED
    BY <1>2, <1>3
<1>5. m \in free /\ free \in SUBSET Nat /\ \A k \in free : k >= m
  BY <1>2, <1>4
<1> HIDE DEF free
<1>6. Min(free) \in free /\ Min(free) <= m
  BY <1>5, FirstPlace
<1>7. Min(free) = m /\ free # {}
  <2> DEFINE z == Min(free)
  <2>1. z \in Nat /\ z >= m /\ z <= m
    BY <1>5, <1>6
  <2> HIDE DEF z
  <2>2. z = m
    BY <1>2, <2>1
  <2>3. QED
    BY <1>5, <2>2 DEF z
<1>8. QED
  BY <1>1, <1>7

(* What Insert does to a list with a free slot.                             *)
LEMMA InsertIs ==
    ASSUME NEW P, NEW n \in Nat, NEW list \in Lists(P, n), NEW i,
           FreeSlot(list, i) \in Slots(n),
           NEW name, NEW value, <<name, value>> \in P, Len(name) \in Nat, Len(value) \in Nat
    PROVE  LET k == FreeSlot(list, i)
               new == Insert(list, name, value, i)
           IN  /\ new \in Lists(P, n) /\ new.last = k
               /\ new.data_size = list.data_size + (Len(name) + Len(value))
               /\ new.nvp[k] = <<name, value>>
               /\ \A j \in Slots(n) : j # k => new.nvp[j] = list.nvp[j]
<1> DEFINE k == FreeSlot(list, i)
           size == list.data_size + Len(name) + Len(value)
           slots == [list.nvp EXCEPT ![k] = <<name, value>>]
<1>1. Insert(list, name, value, i) = [list EXCEPT !.nvp = slots, !.data_size = size, !.last = k]
  BY DEF Insert
<1>2. /\ list.nvp \in [Slots(n) -> {NoPair} \cup P] /\ list.size = n
      /\ list.data_size \in Nat /\ k \in Slots(n)
  BY DEF Lists
<1>3. size \in Nat /\ size = list.data_size + (Len(name) + Len(value))
  BY <1>2
<1>4. slots \in [Slots(n) -> {NoPair} \cup P]
      /\ slots[k] = <<name, value>> /\ \A j \in Slots(n) : j # k => slots[j] = list.nvp[j]
  <2> HIDE DEF k
  <2>1. QED
    BY <1>2
<1> HIDE DEF size, slots, k
<1> DEFINE new == [list EXCEPT !.nvp = slots, !.data_size = size, !.last = k]
<1>5. /\ new \in Lists(P, n) /\ new.nvp = slots /\ new.data_size = size /\ new.last = k
  <2>1. /\ list \in [nvp : [Slots(n) -> {NoPair} \cup P], size : {n}, data_size : Nat,
                     last : Slots(n)]
        /\ slots \in [Slots(n) -> {NoPair} \cup P] /\ size \in Nat /\ k \in Slots(n)
    BY <1>2, <1>3, <1>4 DEF Lists
  <2> DEFINE A == [Slots(n) -> {NoPair} \cup P]
  <2> HIDE DEF A
  <2>2. /\ list \in [nvp : A, size : {n}, data_size : Nat, last : Slots(n)] /\ slots \in A
    BY <2>1 DEF A
  <2>3. new \in [nvp : A, size : {n}, data_size : Nat, last : Slots(n)]
    BY <2>1, <2>2
  <2>4. new.nvp = slots /\ new.data_size = size /\ new.last = k
    BY <2>1, <2>2
  <2>5. QED
    BY <2>3, <2>4 DEF A, Lists
<1>6. Insert(list, name, value, i) = new
  BY <1>1
<1> HIDE DEF new
<1>7. QED
  BY <1>3, <1>4, <1>5, <1>6 DEF k

(* A list with one pair more costs more, by that pair.                      *)
LEMMA InsertCosts ==
    ASSUME NEW list, NEW new, TextList(list), TextList(new), new.size = list.size,
           NEW k \in Slots(list.size), list.nvp[k] = NoPair,
           \A j \in Slots(list.size) : j # k => new.nvp[j] = list.nvp[j]
    PROVE  Costs(new, new.size + 1) = Costs(list, list.size + 1) + Cost(new.nvp[k])
<1> DEFINE m == list.size + 1
           c == Cost(new.nvp[k])
           S == {j \in Nat : j <= m =>
                     Costs(new, j) = Costs(list, j) + (IF j <= k THEN 0 ELSE c)}
<1>1. list.size \in Nat /\ m \in Nat /\ k \in 0 .. list.size
  BY DEF TextList, Slots
<1>2. c \in Nat
  <2>1. new.nvp[k] \in {NoPair} \cup (Text \X Text)
    BY DEF TextList
  <2>2. QED
    BY <2>1, SlotCost
<1>3. /\ \A j \in 1 .. m : Costs(new, j) = Costs(new, j - 1) + Cost(new.nvp[j - 1])
      /\ \A j \in 1 .. m : Costs(list, j) = Costs(list, j - 1) + Cost(list.nvp[j - 1])
      /\ \A j \in 0 .. m : Costs(list, j) \in Nat
      /\ Costs(new, 0) = 0 /\ Costs(list, 0) = 0
  BY CostSteps
<1>4. \A j \in 0 .. list.size : Cost(list.nvp[j]) \in Nat
  <2>1. \A j \in 0 .. list.size : list.nvp[j] \in {NoPair} \cup (Text \X Text)
    BY DEF TextList, Slots
  <2>2. QED
    BY <2>1, SlotCost
<1>5. 0 \in S
  BY <1>1, <1>3
<1>6. ASSUME NEW j \in Nat, j \in S PROVE j + 1 \in S
  <2>1. SUFFICES ASSUME j + 1 <= m
        PROVE  Costs(new, j + 1) = Costs(list, j + 1) + (IF j + 1 <= k THEN 0 ELSE c)
    OBVIOUS
  <2>2. /\ j + 1 \in 1 .. m /\ (j + 1) - 1 = j /\ j \in 0 .. list.size /\ j \in 0 .. m
        /\ Costs(new, j) = Costs(list, j) + (IF j <= k THEN 0 ELSE c)
    BY <1>1, <1>6, <2>1
  <2> HIDE DEF c
  <2>3. /\ Costs(new, j + 1) = Costs(new, j) + Cost(new.nvp[j])
        /\ Costs(list, j + 1) = Costs(list, j) + Cost(list.nvp[j])
        /\ Costs(list, j) \in Nat /\ Cost(list.nvp[j]) \in Nat
    BY <1>3, <1>4, <2>2
  <2>4. CASE j = k
    <3>1. Cost(new.nvp[j]) = c /\ Cost(list.nvp[j]) = 0
      BY <2>4 DEF Cost, c
    <3>2. QED
      BY <1>1, <1>2, <2>2, <2>3, <2>4, <3>1
  <2>5. CASE j # k
    <3>1. new.nvp[j] = list.nvp[j]
      BY <2>2, <2>5 DEF Slots
    <3>2. (IF j + 1 <= k THEN 0 ELSE c) = (IF j <= k THEN 0 ELSE c)
      BY <1>1, <2>2, <2>5
    <3>3. QED
      BY <1>2, <2>2, <2>3, <3>1, <3>2
  <2>6. QED
    BY <2>4, <2>5
<1>7. \A j \in Nat : j \in S
  <2> HIDE DEF S
  <2>1. QED
    BY <1>5, <1>6, AllNumbers
<1>8. ~(m <= k) /\ m <= m
  BY <1>1
<1>9. QED
  BY <1>1, <1>7, <1>8

(* strchr: the first place of a character, or the end.                      *)
LEMMA UptoFirst ==
    ASSUME NEW s, Len(s) \in Nat, DOMAIN s = 1 .. Len(s), NEW c
    PROVE  LET w == Upto(s, c)
           IN  /\ w \in 0 .. Len(s) /\ \A k \in 1 .. w : s[k] # c
               /\ w < Len(s) => s[w + 1] = c
<1> DEFINE places == {k \in 1 .. Len(s) : s[k] = c}
           w == Upto(s, c)
<1>1. w = IF places # {} THEN Min(places) - 1 ELSE Len(s)
  <2>1. (\E k \in DOMAIN s : s[k] = c) <=> places # {}
    OBVIOUS
  <2>2. SelectInSeq(s, LAMBDA y : y = c) = IF places # {} THEN Min(places) ELSE 0
    BY DEF SelectInSeq
  <2> HIDE DEF places
  <2>3. QED
    BY <2>1, <2>2 DEF Upto
<1>2. CASE places = {}
  <2>1. \A k \in 1 .. Len(s) : s[k] # c
    BY <1>2
  <2>2. w = Len(s)
    BY <1>1, <1>2
  <2> HIDE DEF w
  <2>3. QED
    BY <2>1, <2>2 DEF w
<1>3. CASE places # {}
  <2> DEFINE z == Min(places)
  <2>1. w = z - 1
    BY <1>1, <1>3
  <2>2. z \in places /\ \A k \in places : z <= k
    <3>1. places \in SUBSET Nat
      OBVIOUS
    <3> HIDE DEF places
    <3>2. QED
      BY <1>3, <3>1, FirstPlace
  <2> HIDE DEF z, w
  <2>3. z \in 1 .. Len(s) /\ s[z] = c /\ z = w + 1 /\ w \in Nat
    BY <2>1, <2>2
  <2>4. \A k \in 1 .. w : s[k] # c
    <3>1. SUFFICES ASSUME NEW k \in 1 .. w, s[k] = c PROVE FALSE
      OBVIOUS
    <3>2. k \in 1 .. Len(s) /\ ~(z <= k)
      BY <2>3
    <3>3. k \in places
      BY <3>1, <3>2
    <3>4. QED
      BY <2>2, <3>2, <3>3
  <2>5. w \in 0 .. Len(s) /\ s[w + 1] = c
    BY <2>3
  <2>6. QED
    BY <2>4, <2>5 DEF w
<1>4. QED
  BY <1>2, <1>3

(* There is but one.                                                        *)
LEMMA UptoIs ==
    ASSUME NEW s, Len(s) \in Nat, DOMAIN s = 1 .. Len(s), NEW c,
           NEW w \in 0 .. Len(s), \A k \in 1 .. w : s[k] # c, w < Len(s) => s[w + 1] = c
    PROVE  Upto(s, c) = w
<1> DEFINE z == Upto(s, c)
<1>1. z \in 0 .. Len(s) /\ (\A k \in 1 .. z : s[k] # c) /\ (z < Len(s) => s[z + 1] = c)
  BY UptoFirst
<1> HIDE DEF z
<1>2. ~(z < w)
  <2>1. SUFFICES ASSUME z < w PROVE FALSE
    OBVIOUS
  <2>2. z + 1 \in 1 .. w /\ z < Len(s)
    BY <1>1, <2>1
  <2>3. QED
    BY <1>1, <2>2
<1>3. ~(w < z)
  <2>1. SUFFICES ASSUME w < z PROVE FALSE
    OBVIOUS
  <2>2. w + 1 \in 1 .. z /\ w < Len(s)
    BY <1>1, <2>1
  <2>3. QED
    BY <1>1, <2>2
<1>4. QED
  BY <1>1, <1>2, <1>3 DEF z

(* What a text's characters and its rest are.                               *)
LEMMA RestOfText ==
    ASSUME NEW s \in Text, NEW k \in 1 .. Len(s) + 1
    PROVE  LET t == SubSeq(s, k, Len(s))
           IN  /\ t \in Text /\ Len(s) \in Nat /\ Len(t) = Len(s) + 1 - k
               /\ \A j \in 1 .. Len(s) + 1 - k : t[j] = s[j + k - 1]
<1>1. Len(s) \in Nat /\ \A j \in k .. Len(s) : s[j] \in Char
  BY LenProperties, ElementOfSeq DEF Text
<1> DEFINE t == SubSeq(s, k, Len(s))
<1>2. /\ t \in Seq(Char) /\ Len(t) = IF k <= Len(s) THEN Len(s) - k + 1 ELSE 0
      /\ \A j \in 1 .. Len(s) - k + 1 : t[j] = s[k + j - 1]
  BY <1>1, SubSeqProperties
<1> HIDE DEF t
<1>3. Len(t) = Len(s) + 1 - k
  BY <1>1, <1>2
<1>4. \A j \in 1 .. Len(s) + 1 - k : t[j] = s[j + k - 1]
  <2>1. SUFFICES ASSUME NEW j \in 1 .. Len(s) + 1 - k PROVE t[j] = s[j + k - 1]
    OBVIOUS
  <2>2. j \in 1 .. Len(s) - k + 1 /\ k + j - 1 = j + k - 1
    BY <1>1
  <2>3. QED
    BY <1>2, <2>2
<1>5. QED
  BY <1>1, <1>2, <1>3, <1>4 DEF t, Text

(* A text behind one of the "&" that are counted has one less of them.      *)
LEMMA CountShrinks ==
    ASSUME NEW s \in Text, NEW w \in 1 .. Len(s), w < Len(s), s[w + 1] = "&"
    PROVE  LET t == SubSeq(s, w + 2, Len(s))
           IN  Count(t) \in Nat /\ Count(s) \in Nat /\ Count(t) + 1 <= Count(s)
<1> DEFINE t == SubSeq(s, w + 2, Len(s))
           S == {k \in DOMAIN s : k > 1 /\ s[k] = "&"}
           T == {k \in DOMAIN t : k > 1 /\ t[k] = "&"}
           R == S \ {w + 1}
           f == [k \in T |-> k + w + 1]
<1>1. Len(s) \in Nat /\ DOMAIN s = 1 .. Len(s) /\ w \in Nat /\ w + 2 \in 1 .. Len(s) + 1
  BY LenProperties DEF Text
<1>2. /\ t \in Text /\ Len(t) = Len(s) + 1 - (w + 2)
      /\ \A j \in 1 .. Len(s) + 1 - (w + 2) : t[j] = s[j + (w + 2) - 1]
  BY <1>1, RestOfText
<1> HIDE DEF t
<1>3. DOMAIN t = 1 .. Len(t) /\ Len(t) \in Nat
  BY <1>2, LenProperties DEF Text
<1>4. IsFiniteSet(S) /\ IsFiniteSet(T) /\ IsFiniteSet(R) /\ w + 1 \in S
  <2>1. \A m \in Nat : IsFiniteSet(1 .. m)
    BY FS_Interval
  <2>2. IsFiniteSet(1 .. Len(s)) /\ IsFiniteSet(1 .. Len(t))
    BY <1>1, <1>3, <2>1
  <2>3. S \subseteq 1 .. Len(s) /\ T \subseteq 1 .. Len(t) /\ R \subseteq S
    BY <1>1, <1>3
  <2>4. w + 1 \in S
    BY <1>1
  <2> HIDE DEF S, T, R
  <2>5. IsFiniteSet(S) /\ IsFiniteSet(T)
    BY <2>2, <2>3, FS_Subset
  <2>6. QED
    BY <2>3, <2>4, <2>5, FS_Subset
<1>5. f \in Injection(T, R)
  <2>1. \A k \in T : k + w + 1 \in R
    <3>1. SUFFICES ASSUME NEW k \in T PROVE k + w + 1 \in R
      OBVIOUS
    <3>2. k \in 1 .. Len(s) + 1 - (w + 2) /\ k > 1 /\ t[k] = "&"
      BY <1>2, <1>3
    <3>3. t[k] = s[k + (w + 2) - 1] /\ k + (w + 2) - 1 = k + w + 1
      BY <1>1, <1>2, <3>2
    <3>4. k + w + 1 \in 1 .. Len(s) /\ k + w + 1 > 1 /\ k + w + 1 # w + 1
      BY <1>1, <3>2
    <3>5. QED
      BY <1>1, <3>2, <3>3, <3>4
  <2>2. T \subseteq Nat
    BY <1>3
  <2> HIDE DEF T, R
  <2>3. f \in [T -> R] /\ DOMAIN f = T
    BY <2>1
  <2>4. \A j, k \in T : f[j] = f[k] => j = k
    <3>1. \A j, k \in Nat : j + w + 1 = k + w + 1 => j = k
      BY <1>1
    <3>2. QED
      BY <2>2, <3>1
  <2> HIDE DEF f
  <2>5. IsInjective(f)
    BY <2>3, <2>4 DEF IsInjective
  <2>6. QED
    BY <2>3, <2>5 DEF Injection
<1> HIDE DEF f, S, T, R
<1>6. Cardinality(T) <= Cardinality(R) /\ Cardinality(T) \in Nat /\ Cardinality(R) \in Nat
  BY <1>4, <1>5, FS_Injection, FS_CardinalityType
<1>7. Cardinality(R) = Cardinality(S) - 1 /\ Cardinality(S) \in Nat
  BY <1>4, FS_RemoveElement, FS_CardinalityType DEF R
<1>8. Count(s) = 1 + Cardinality(S) /\ Count(t) = 1 + Cardinality(T)
  BY DEF Count, S, T
<1>9. QED
  BY <1>6, <1>7, <1>8 DEF t

(* What is read may have characters that were not sent.                     *)
ReadText == Seq(Char \cup {Other})
Reading == [to : ReadText, next : Nat]

\* One step of urldecode_dup.
DecodeStep(s, r, k) ==
    IF k < r.next THEN r
    ELSE [to |-> Append(r.to, Decoded(s, k)), next |-> k + (IF s[k] = "%" THEN 3 ELSE 1)]

(* A text is decoded from its beginning to its end.                         *)
LEMMA DecodeSteps ==
    ASSUME NEW s \in Text
    PROVE  \E r : /\ r \in [0 .. Len(s) -> Reading] /\ r[0] = [to |-> <<>>, next |-> 1]
                  /\ \A k \in 1 .. Len(s) : r[k] = DecodeStep(s, r[k - 1], k)
                  /\ UrlDecode(s) = r[Len(s)].to
<1> DEFINE m == Len(s)
           base == [to |-> <<>>, next |-> 1]
           f == [y \in Reading \X Nat |->
                   IF y[2] \in 1 .. m THEN DecodeStep(s, y[1], y[2]) ELSE base]
<1>1. m \in Nat /\ \A k \in 1 .. m : s[k] \in Char
  BY LenProperties, ElementOfSeq DEF Text
<1>2. base \in Reading
  BY DEF Reading, ReadText
<1>3. \A r \in Reading, k \in 1 .. m : DecodeStep(s, r, k) \in Reading
  <2>1. SUFFICES ASSUME NEW r \in Reading, NEW k \in 1 .. m PROVE DecodeStep(s, r, k) \in Reading
    OBVIOUS
  <2>2. Decoded(s, k) \in Char \cup {Other}
    <3> DEFINE is == {c \in Special : k + 2 <= Len(s) /\ Hex[c] = <<s[k + 1], s[k + 2]>>}
    <3>1. Decoded(s, k) = IF s[k] # "%" THEN s[k]
                          ELSE IF is = {} THEN Other ELSE CHOOSE c \in is : TRUE
      BY DEF Decoded
    <3>2. is \subseteq Char
      BY DEF Char
    <3> HIDE DEF is
    <3>3. is # {} => (CHOOSE c \in is : TRUE) \in is
      OBVIOUS
    <3>4. QED
      BY <1>1, <3>1, <3>2, <3>3
  <2>3. r.to \in ReadText /\ r.next \in Nat
    BY DEF Reading
  <2>4. Append(r.to, Decoded(s, k)) \in ReadText
    BY <2>2, <2>3, AppendProperties DEF ReadText
  <2>5. k + (IF s[k] = "%" THEN 3 ELSE 1) \in Nat
    BY <1>1
  <2>6. QED
    BY <2>4, <2>5 DEF DecodeStep, Reading
<1> HIDE DEF m, base
<1>4. \A a \in Reading, k \in Nat : f[<<a, k>>] \in Reading
  BY <1>2, <1>3
<1>5. \A a \in Reading, k \in 1 .. m : f[<<a, k>>] = DecodeStep(s, a, k)
  <2>1. SUFFICES ASSUME NEW a \in Reading, NEW k \in 1 .. m
        PROVE  f[<<a, k>>] = DecodeStep(s, a, k)
    OBVIOUS
  <2>2. k \in Nat
    BY <1>1
  <2>3. <<a, k>> \in Reading \X Nat /\ <<a, k>>[1] = a /\ <<a, k>>[2] = k
    BY <2>2
  <2>4. QED
    BY <2>3
<1> HIDE DEF f
<1>6. PICK g : Computes(g, m, base, f, Reading)
  <2>1. \A j \in Nat : \E g : Computes(g, j, base, f, Reading)
    BY <1>2, <1>4, StepsExist, Zenon
  <2>2. QED
    BY <1>1, <2>1, Zenon
<1>7. /\ g \in [0 .. m -> Reading] /\ g[0] = base
      /\ \A k \in 1 .. m : g[k] = f[<<g[k - 1], k>>]
  BY <1>6, Zenon DEF Computes
<1>8. g = [k \in 0 .. m |-> IF k = 0 THEN base ELSE DecodeStep(s, g[k - 1], k)]
  <2>1. \A k \in 1 .. m : g[k] = DecodeStep(s, g[k - 1], k)
    <3>1. SUFFICES ASSUME NEW k \in 1 .. m PROVE g[k] = DecodeStep(s, g[k - 1], k)
      OBVIOUS
    <3>2. k - 1 \in 0 .. m
      BY <1>1
    <3>3. QED
      BY <1>5, <1>7, <3>2
  <2>2. \A k \in 0 .. m : g[k] = IF k = 0 THEN base ELSE DecodeStep(s, g[k - 1], k)
    BY <1>1, <1>7, <2>1
  <2>3. g = [k \in 0 .. m |-> g[k]]
    BY <1>7
  <2>4. QED
    BY <2>2, <2>3
<1>9. PICK h : /\ h = [k \in 0 .. m |-> IF k = 0 THEN base ELSE DecodeStep(s, h[k - 1], k)]
               /\ UrlDecode(s) = h[m].to
  BY <1>8 DEF UrlDecode, DecodeStep, m, base
<1>10. h[0] = base /\ DOMAIN h = 0 .. m /\ \A k \in 1 .. m : h[k] = DecodeStep(s, h[k - 1], k)
  BY <1>1, <1>9
<1>11. \A k \in 0 .. m : h[k] \in Reading
  <2> DEFINE S == {k \in Nat : k <= m => h[k] \in Reading}
  <2>1. 0 \in S
    BY <1>2, <1>10
  <2>2. ASSUME NEW k \in Nat, k \in S PROVE k + 1 \in S
    <3>1. SUFFICES ASSUME k + 1 <= m PROVE h[k + 1] \in Reading
      OBVIOUS
    <3>2. k + 1 \in 1 .. m /\ (k + 1) - 1 = k /\ h[k] \in Reading
      BY <1>1, <2>2, <3>1
    <3>3. h[k + 1] = DecodeStep(s, h[k], k + 1)
      BY <1>10, <3>2
    <3>4. QED
      BY <1>3, <3>2, <3>3
  <2>3. \A k \in Nat : k \in S
    <3> HIDE DEF S
    <3>1. QED
      BY <2>1, <2>2, AllNumbers
  <2>4. QED
    BY <1>1, <2>3
<1>12. h \in [0 .. m -> Reading]
  <2>1. h = [k \in 0 .. m |-> h[k]]
    BY <1>9
  <2>2. QED
    BY <1>11, <2>1
<1>13. QED
  BY <1>9, <1>10, <1>12 DEF m, base

(* What is decoded is a text.                                               *)
LEMMA DecodedIsText ==
    ASSUME NEW s \in Text
    PROVE  UrlDecode(s) \in ReadText
<1>1. PICK r : r \in [0 .. Len(s) -> Reading] /\ UrlDecode(s) = r[Len(s)].to
  BY DecodeSteps
<1>2. Len(s) \in 0 .. Len(s)
  BY LenProperties DEF Text
<1>3. QED
  BY <1>1, <1>2 DEF Reading

(* The first m slots are used.                                              *)
FirstSlots(list, m) ==
    /\ m \in 0 .. list.size
    /\ \A k \in Slots(list.size) : list.nvp[k] = NoPair <=> k >= m
    /\ list.last = IF m = 0 THEN 0 ELSE m - 1

(* How many, if they are the first.                                         *)
Used(list) == IF list.nvp[0] = NoPair THEN 0 ELSE list.last + 1

(* Then they tell their number.                                             *)
LEMMA UsedIs ==
    ASSUME NEW list, list.size \in Nat, NEW m, FirstSlots(list, m)
    PROVE  Used(list) = m
<1>1. 0 \in Slots(list.size) /\ m \in Nat
  BY DEF Slots, FirstSlots
<1>2. QED
  BY <1>1 DEF Used, FirstSlots

(* An empty list.                                                           *)
LEMMA NewListIs ==
    ASSUME NEW P, NEW m \in Nat
    PROVE  /\ NewList(m) \in Lists(P, m) /\ NewList(m).size = m /\ NewList(m).data_size = 0
           /\ \A k \in Slots(m) : NewList(m).nvp[k] = NoPair
           /\ FirstSlots(NewList(m), 0)
<1>1. 0 \in Slots(m) /\ Slots(m) \subseteq Nat
  BY DEF Slots
<1>2. QED
  BY <1>1 DEF NewList, Lists, FirstSlots

(* It costs nothing.                                                        *)
LEMMA NewListCosts ==
    ASSUME NEW m \in Nat
    PROVE  Costs(NewList(m), m + 1) = 0
<1> DEFINE list == NewList(m)
           S == {j \in Nat : j <= m + 1 => Costs(list, j) = 0}
<1>1. /\ TextList(list) /\ list.size = m
      /\ \A k \in Slots(m) : list.nvp[k] = NoPair
  BY NewListIs DEF TextList, NewList
<1> HIDE DEF list
<1>2. 0 \in S
  BY <1>1, CostSteps
<1>3. ASSUME NEW j \in Nat, j \in S PROVE j + 1 \in S
  <2>1. SUFFICES ASSUME j + 1 <= m + 1 PROVE Costs(list, j + 1) = 0
    OBVIOUS
  <2>2. j + 1 \in 1 .. list.size + 1 /\ (j + 1) - 1 = j /\ j \in Slots(m) /\ Costs(list, j) = 0
    BY <1>1, <1>3, <2>1 DEF Slots
  <2>3. Costs(list, j + 1) = Costs(list, j) + Cost(list.nvp[j])
    BY <1>1, <2>2, CostSteps
  <2>4. Cost(list.nvp[j]) = 0
    BY <1>1, <2>2 DEF Cost
  <2>5. QED
    BY <2>2, <2>3, <2>4
<1>4. \A j \in Nat : j \in S
  <2> HIDE DEF S
  <2>1. QED
    BY <1>2, <1>3, AllNumbers
<1>5. QED
  BY <1>4 DEF list

(* A text's front.                                                          *)
LEMMA FrontOfText ==
    ASSUME NEW s \in Text, NEW w \in 0 .. Len(s)
    PROVE  LET t == SubSeq(s, 1, w)
           IN  t \in Text /\ Len(t) = w /\ \A k \in 1 .. w : t[k] = s[k]
<1>1. Len(s) \in Nat /\ \A j \in 1 .. w : s[j] \in Char
  BY LenProperties, ElementOfSeq DEF Text
<1> DEFINE t == SubSeq(s, 1, w)
<1>2. /\ t \in Seq(Char) /\ Len(t) = IF 1 <= w THEN w - 1 + 1 ELSE 0
      /\ \A j \in 1 .. w - 1 + 1 : t[j] = s[1 + j - 1]
  BY <1>1, SubSeqProperties
<1> HIDE DEF t
<1>3. Len(t) = w
  BY <1>1, <1>2
<1>4. \A k \in 1 .. w : t[k] = s[k]
  <2>1. SUFFICES ASSUME NEW k \in 1 .. w PROVE t[k] = s[k]
    OBVIOUS
  <2>2. k \in 1 .. w - 1 + 1 /\ 1 + k - 1 = k
    BY <1>1
  <2>3. QED
    BY <1>2, <2>2
<1>5. QED
  BY <1>2, <1>3, <1>4 DEF t, Text

(* What nv_urlstring_to_list reads of a text: what is in front of the first *)
(* "&", and its two parts if there is a "=".                                *)
LEMMA PairIsRead ==
    ASSUME NEW s \in Text
    PROVE  LET w == Upto(s, "&")
               p == SubSeq(s, 1, w)
               e == Upto(p, "=")
           IN  /\ w \in 0 .. Len(s) /\ (w < Len(s) => s[w + 1] = "&")
               /\ p \in Text /\ Len(p) = w /\ Len(s) \in Nat
               /\ e \in 0 .. w
               /\ e < w => /\ Name(p) = SubSeq(p, 1, e) /\ Name(p) \in Text
                           /\ Value(p) = SubSeq(p, e + 2, Len(p)) /\ Value(p) \in Text
<1> DEFINE w == Upto(s, "&")
           p == SubSeq(s, 1, w)
           e == Upto(p, "=")
<1>1. Len(s) \in Nat /\ DOMAIN s = 1 .. Len(s)
  BY LenProperties DEF Text
<1>2. w \in 0 .. Len(s) /\ (w < Len(s) => s[w + 1] = "&")
  BY <1>1, UptoFirst
<1> HIDE DEF w
<1>3. p \in Text /\ Len(p) = w
  BY <1>2, FrontOfText
<1> HIDE DEF p
<1>4. Len(p) \in Nat /\ DOMAIN p = 1 .. Len(p)
  BY <1>3, LenProperties DEF Text
<1>5. e \in 0 .. w
  BY <1>3, <1>4, UptoFirst
<1>6. ASSUME e < w
      PROVE  /\ Name(p) = SubSeq(p, 1, e) /\ Name(p) \in Text
             /\ Value(p) = SubSeq(p, e + 2, Len(p)) /\ Value(p) \in Text
  <2>1. Name(p) = SubSeq(p, 1, e) /\ Value(p) = SubSeq(p, e + 2, Len(p))
    BY DEF Name, Value
  <2> HIDE DEF e
  <2>2. e \in 0 .. Len(p) /\ e + 2 \in 1 .. Len(p) + 1
    BY <1>2, <1>3, <1>5, <1>6
  <2>3. QED
    BY <1>3, <2>1, <2>2, FrontOfText, RestOfText
<1>7. QED
  BY <1>1, <1>2, <1>3, <1>5, <1>6 DEF w, p, e

(* Every variable is in its domain.                                         *)
NvTypes ==
    /\ nvl \in Lists(Text \X Text, Size)
    /\ back.size \in Nat \ {0} /\ back \in Lists(Text \X ReadText, back.size)
    /\ put \in Seq(Names \X Values) /\ Len(put) <= Size
    /\ text \in Text /\ str \in Text
    /\ doing \in {"insert", "read", "crash", "done"}

(* The list that is sent costs what its size says.                          *)
SentFits ==
    /\ Costs(nvl, Size + 1) = nvl.data_size + 2 * Len(put)
    /\ doing = "insert" => text = <<>>
    /\ FitsItsBuffer

(* The list that is read has its pairs in its first slots, and room for     *)
(* those that are still to read.                                            *)
ReadFits ==
    /\ FirstSlots(back, Used(back))
    /\ str # <<>> => Used(back) + Count(str) <= back.size

(* FitsItsBuffers is not inductive: it does not say what a slot costs, nor  *)
(* what the rest of the string needs.                                       *)
NvInv == NvTypes /\ SentFits /\ ReadFits

(* A list that was made for a text has room for its pairs.                  *)
LEMMA NewListFits ==
    ASSUME NEW s \in Text
    PROVE  LET list == NewList(Count(s))
           IN  /\ list.size \in Nat \ {0} /\ list \in Lists(Text \X ReadText, list.size)
               /\ FirstSlots(list, Used(list))
               /\ s # <<>> => Used(list) + Count(s) <= list.size
<1> DEFINE m == Count(s)
           S == {k \in DOMAIN s : k > 1 /\ s[k] = "&"}
           list == NewList(m)
<1>1. m \in Nat \ {0}
  <2>1. \A j \in Nat : IsFiniteSet(1 .. j)
    BY FS_Interval
  <2>2. S \in SUBSET (1 .. Len(s)) /\ IsFiniteSet(1 .. Len(s))
    BY <2>1, LenProperties DEF Text
  <2>3. m = 1 + Cardinality(S)
    BY DEF Count
  <2> HIDE DEF S, m
  <2>4. Cardinality(S) \in Nat
    BY <2>2, FS_Subset, FS_CardinalityType
  <2>5. QED
    BY <2>3, <2>4
<1> HIDE DEF m
<1>2. /\ list.size = m /\ list \in Lists(Text \X ReadText, m)
      /\ FirstSlots(list, 0)
  BY <1>1, NewListIs
<1> HIDE DEF list
<1>3. Used(list) = 0
  BY <1>1, <1>2, UsedIs
<1>4. QED
  BY <1>1, <1>2, <1>3 DEF list, m

(* Nothing is written or read yet.                                          *)
LEMMA NvInitInv == NvInit => NvInv
<1> SUFFICES ASSUME NvInit PROVE NvInv
  OBVIOUS
<1>1. Size \in Nat /\ <<>> \in Text /\ Bodies \subseteq Text
  BY NvListAssumption, Delimiters DEF Text
<1>2. str \in Text
  BY <1>1 DEF NvInit
<1>3. /\ nvl = NewList(Size) /\ text = <<>> /\ put = <<>> /\ doing \in {"insert", "read"}
      /\ back = NewList(Count(str))
  BY DEF NvInit
<1>4. nvl \in Lists(Text \X Text, Size) /\ nvl.data_size = 0 /\ Costs(nvl, Size + 1) = 0
  BY <1>1, <1>3, NewListIs, NewListCosts
<1>5. put \in Seq(Names \X Values) /\ Len(put) = 0
  BY <1>3
<1>6. ReadFits /\ back.size \in Nat \ {0} /\ back \in Lists(Text \X ReadText, back.size)
  BY <1>2, <1>3, NewListFits DEF ReadFits
<1>7. QED
  BY <1>1, <1>2, <1>3, <1>4, <1>5, <1>6 DEF NvInv, NvTypes, SentFits, FitsItsBuffer

(* Names, and values as they are sent, are texts.                           *)
LEMMA SentIsText ==
    /\ \A name \in Names : name \in Text /\ name \in Seq(Letter) /\ Len(name) \in Nat
    /\ \A value \in Values : /\ value \in Text /\ Sent(value) \in Text
                             /\ Len(Sent(value)) \in Nat
<1>1. Letter \subseteq Char
  BY DEF Char
<1>2. \A name \in Names : name \in Text /\ name \in Seq(Letter) /\ Len(name) \in Nat
  <2>1. SUFFICES ASSUME NEW name \in Names
        PROVE  name \in Text /\ name \in Seq(Letter) /\ Len(name) \in Nat
    OBVIOUS
  <2>2. name \in Seq(Letter)
    BY NvListAssumption
  <2>3. QED
    BY <1>1, <2>2, SeqMonotonic, LenProperties DEF Text
<1>3. \A value \in Values : value \in Text /\ Sent(value) \in Text /\ Len(Sent(value)) \in Nat
  <2>1. SUFFICES ASSUME NEW value \in Values
        PROVE  value \in Text /\ Sent(value) \in Text /\ Len(Sent(value)) \in Nat
    OBVIOUS
  <2>2. value \in Text
    BY NvListAssumption DEF Text
  <2>3. Sent(value) \in Text
    BY <2>2, EncodedIsPlain DEF Sent
  <2>4. QED
    BY <2>2, <2>3, LenProperties DEF Text
<1>4. QED
  BY <1>2, <1>3

(* A pair more in the list costs what it adds to data_size, and two.        *)
LEMMA InsertKeeps ==
    ASSUME NvInv, NvListInsert
    PROVE  NvInv'
<1>1. PICK name \in Names, value \in Values, i \in Indices :
        /\ doing = "insert" /\ Len(put) < Size
        /\ FreeSlot(nvl, i) <= Size
        /\ nvl' = Insert(nvl, name, Sent(value), i)
        /\ put' = Append(put, <<name, value>>)
        /\ UNCHANGED <<text, str, back, doing>>
  BY DEF NvListInsert
<1> DEFINE v == Sent(value)
           k == FreeSlot(nvl, i)
<1>2. /\ name \in Text /\ v \in Text /\ Len(name) \in Nat /\ Len(v) \in Nat
      /\ <<name, v>> \in Text \X Text
  BY SentIsText
<1>3. /\ Size \in Nat /\ i \in 0 .. Size
      /\ nvl \in Lists(Text \X Text, Size)
  BY NvListAssumption DEF NvInv, NvTypes
<1>4. k \in Slots(Size) /\ nvl.nvp[k] = NoPair
  BY <1>1, <1>3, FreeSlotIs
<1> HIDE DEF k, v
<1>5. /\ nvl' \in Lists(Text \X Text, Size)
      /\ nvl'.data_size = nvl.data_size + (Len(name) + Len(v))
      /\ nvl'.nvp[k] = <<name, v>>
      /\ \A j \in Slots(Size) : j # k => nvl'.nvp[j] = nvl.nvp[j]
  BY <1>1, <1>2, <1>3, <1>4, InsertIs DEF k, v
<1>6. TextList(nvl) /\ TextList(nvl') /\ nvl.size = Size /\ nvl'.size = Size
      /\ nvl.data_size \in Nat
  BY <1>3, <1>5 DEF TextList, Lists
<1>7. Costs(nvl', Size + 1) = Costs(nvl, Size + 1) + Cost(nvl'.nvp[k])
  <2>1. k \in Slots(nvl.size) /\ \A j \in Slots(nvl.size) : j # k => nvl'.nvp[j] = nvl.nvp[j]
    BY <1>4, <1>5, <1>6
  <2>2. Costs(nvl', nvl'.size + 1) = Costs(nvl, nvl.size + 1) + Cost(nvl'.nvp[k])
    BY <1>4, <1>6, <2>1, InsertCosts
  <2>3. QED
    BY <1>6, <2>2
<1>8. Cost(nvl'.nvp[k]) = Len(name) + Len(v) + 2
  <2>1. nvl'.nvp[k] \in {NoPair} \cup (Text \X Text) /\ nvl'.nvp[k] # NoPair
    BY <1>2, <1>5 DEF NoPair
  <2>2. nvl'.nvp[k][1] = name /\ nvl'.nvp[k][2] = v
    BY <1>5
  <2>3. QED
    BY <2>1, <2>2, SlotCost
<1>9. /\ put' \in Seq(Names \X Values) /\ Len(put') = Len(put) + 1
      /\ Len(put') <= Size /\ Len(put) \in Nat
  BY <1>1, <1>3, AppendProperties, LenProperties DEF NvInv, NvTypes
<1>10. Costs(nvl', Size + 1) = nvl'.data_size + 2 * Len(put')
  <2>1. Costs(nvl, Size + 1) = nvl.data_size + 2 * Len(put)
    BY DEF NvInv, SentFits
  <2>2. \A a, b, c, d \in Nat : a + 2 * b + (c + d + 2) = a + (c + d) + 2 * (b + 1)
    OBVIOUS
  <2>3. QED
    BY <1>2, <1>5, <1>6, <1>7, <1>8, <1>9, <2>1, <2>2
<1>11. NvTypes'
  BY <1>1, <1>5, <1>9 DEF NvInv, NvTypes
<1>12. SentFits'
  BY <1>1, <1>10 DEF NvInv, SentFits, FitsItsBuffer
<1>13. ReadFits'
  BY <1>1 DEF NvInv, ReadFits
<1>14. QED
  BY <1>11, <1>12, <1>13 DEF NvInv

(* The string is no longer than its list's cost.                            *)
LEMMA ToStringKeeps ==
    ASSUME NvInv, NvListToString
    PROVE  NvInv'
<1>1. /\ text' = AsString(nvl) /\ str' = text' /\ back' = NewList(Count(text'))
      /\ doing' = "read" /\ UNCHANGED <<nvl, put>>
  BY DEF NvListToString
<1>2. /\ Size \in Nat /\ TextList(nvl) /\ nvl.size = Size /\ nvl.data_size \in Nat
      /\ nvl.last + 1 \in 0 .. nvl.size + 1 /\ Len(put) \in Nat /\ Len(put) <= Size
  BY NvListAssumption, LenProperties DEF NvInv, NvTypes, Lists, TextList, Slots
<1> DEFINE t == Written(nvl, nvl.last + 1)
<1>3. t \in Text /\ text' = t
  BY <1>1, <1>2, WrittenSteps DEF AsString
<1>4. t # <<>> => Len(t) + 1 <= nvl.data_size + 3 * Size
  <2>1. SUFFICES ASSUME t # <<>> PROVE Len(t) + 1 <= nvl.data_size + 3 * Size
    OBVIOUS
  <2>2. Len(t) + 1 <= Costs(nvl, nvl.last + 1)
    BY <1>2, <2>1, WrittenCosts
  <2>3. Costs(nvl, nvl.last + 1) <= Costs(nvl, nvl.size + 1)
    BY <1>2, CostsGrow
  <2>4. Costs(nvl, nvl.size + 1) = nvl.data_size + 2 * Len(put)
    BY <1>2 DEF NvInv, SentFits
  <2> DEFINE c == Costs(nvl, nvl.last + 1)
  <2>5. c \in Nat /\ Len(t) \in Nat
    BY <1>2, <1>3, CostSteps, LenProperties DEF Text
  <2> HIDE DEF t, c
  <2>6. \A a, u, v, w, z \in Nat : a + 1 <= u /\ u <= v + 2 * w /\ w <= z => a + 1 <= v + 3 * z
    OBVIOUS
  <2>7. c <= nvl.data_size + 2 * Len(put)
    BY <2>3, <2>4 DEF c
  <2>8. QED
    BY <1>2, <2>2, <2>5, <2>6, <2>7 DEF c
<1> HIDE DEF t
<1>5. ReadFits' /\ back'.size \in Nat \ {0} /\ back' \in Lists(Text \X ReadText, back'.size)
  <2>1. /\ back' = NewList(Count(t)) /\ str' = t
    BY <1>1, <1>3
  <2>2. /\ back'.size \in Nat \ {0} /\ back' \in Lists(Text \X ReadText, back'.size)
        /\ FirstSlots(back', Used(back'))
        /\ t # <<>> => Used(back') + Count(t) <= back'.size
    BY <1>3, <2>1, NewListFits
  <2>3. QED
    BY <2>1, <2>2 DEF ReadFits
<1>6. NvTypes'
  BY <1>1, <1>3, <1>5 DEF NvInv, NvTypes
<1>7. SentFits'
  BY <1>1, <1>2, <1>3, <1>4 DEF NvInv, SentFits, FitsItsBuffer
<1>8. QED
  BY <1>5, <1>6, <1>7 DEF NvInv

(* A pair that is read goes into the slot behind those that are used.       *)
LEMMA ReadPairIs ==
    ASSUME NvInv, ReadPair
    PROVE  LET w == Upto(str, "&")
               p == SubSeq(str, 1, w)
               m == Used(back)
           IN  /\ w \in 1 .. Len(str) /\ (w < Len(str) => str[w + 1] = "&")
               /\ str' = SubSeq(str, w + 2, Len(str))
               /\ m \in Nat /\ m + 1 <= back.size /\ m + Count(str) <= back.size
               /\ back' \in Lists(Text \X ReadText, back.size) /\ back'.size = back.size
               /\ back'.nvp[m] = <<Name(p), UrlDecode(Value(p))>>
               /\ \A j \in Slots(back.size) : j # m => back'.nvp[j] = back.nvp[j]
               /\ FirstSlots(back', m + 1) /\ Used(back') = m + 1
<1> DEFINE w == Upto(str, "&")
           p == SubSeq(str, 1, w)
           e == Upto(p, "=")
           m == Used(back)
           a == Name(p)
           v == UrlDecode(Value(p))
<1>1. /\ doing = "read" /\ str # <<>> /\ e < Len(p)
      /\ back' = Insert(back, a, v, 0)
      /\ str' = SubSeq(str, Len(p) + 2, Len(str))
      /\ UNCHANGED <<nvl, text, doing, put>>
  BY DEF ReadPair, ThisPair
<1>2. str \in Text /\ back.size \in Nat \ {0} /\ back \in Lists(Text \X ReadText, back.size)
  BY DEF NvInv, NvTypes
<1>3. /\ w \in 0 .. Len(str) /\ (w < Len(str) => str[w + 1] = "&")
      /\ p \in Text /\ Len(p) = w /\ Len(str) \in Nat
      /\ e \in 0 .. w
      /\ e < w => Name(p) \in Text /\ Value(p) \in Text
  BY <1>2, PairIsRead
<1> HIDE DEF w, p, e
<1>4. w \in 1 .. Len(str) /\ a \in Text /\ v \in ReadText
  <2>1. e < w
    BY <1>1, <1>3
  <2>2. a \in Text /\ Value(p) \in Text
    BY <1>3, <2>1
  <2>3. QED
    BY <1>3, <2>1, <2>2, DecodedIsText
<1> HIDE DEF a, v
<1>5. Len(a) \in Nat /\ Len(v) \in Nat /\ <<a, v>> \in Text \X ReadText /\ <<a, v>> # NoPair
  BY <1>4, LenProperties DEF Text, ReadText, NoPair
<1>6. FirstSlots(back, m) /\ m + Count(str) <= back.size
  BY <1>1 DEF NvInv, ReadFits
<1>7. Count(str) \in Nat \ {0}
  <2>1. NewList(Count(str)).size \in Nat \ {0}
    BY <1>2, NewListFits
  <2>2. QED
    BY <2>1 DEF NewList
<1> HIDE DEF m
<1>8. m \in Nat /\ m + 1 <= back.size /\ m \in 0 .. back.size
  BY <1>2, <1>6, <1>7 DEF FirstSlots
<1>9. FreeSlot(back, 0) = m
  BY <1>2, <1>6, <1>8, NextSlotIs DEF FirstSlots
<1>10. /\ back' \in Lists(Text \X ReadText, back.size) /\ back'.last = m
       /\ back'.nvp[m] = <<a, v>>
       /\ \A j \in Slots(back.size) : j # m => back'.nvp[j] = back.nvp[j]
  <2>1. m \in Slots(back.size)
    BY <1>8 DEF Slots
  <2>2. QED
    BY <1>1, <1>2, <1>5, <1>9, <2>1, InsertIs
<1>11. back'.size = back.size
  BY <1>10 DEF Lists
<1>12. FirstSlots(back', m + 1)
  <2>1. \A k \in Slots(back.size) : back'.nvp[k] = NoPair <=> k >= m + 1
    <3>1. SUFFICES ASSUME NEW k \in Slots(back.size)
          PROVE  back'.nvp[k] = NoPair <=> k >= m + 1
      OBVIOUS
    <3>2. k \in Nat
      BY DEF Slots
    <3>3. CASE k = m
      BY <1>5, <1>8, <1>10, <3>3
    <3>4. CASE k # m
      <4>1. k >= m + 1 <=> k >= m
        BY <1>8, <3>2, <3>4
      <4>2. back.nvp[k] = NoPair <=> k >= m
        BY <1>6 DEF FirstSlots
      <4>3. QED
        BY <1>10, <3>4, <4>1, <4>2
    <3>5. QED
      BY <3>3, <3>4
  <2>2. m + 1 \in 0 .. back.size /\ m + 1 # 0 /\ (m + 1) - 1 = m
    BY <1>2, <1>8
  <2>3. QED
    BY <1>10, <1>11, <2>1, <2>2 DEF FirstSlots
<1>13. Used(back') = m + 1
  BY <1>2, <1>11, <1>12, UsedIs
<1>14. QED
  BY <1>1, <1>3, <1>4, <1>6, <1>8, <1>10, <1>11, <1>12, <1>13 DEF m, w, p, a, v

(* A pair that is read takes a "&" from what is still to read.              *)
LEMMA ReadPairKeeps ==
    ASSUME NvInv, ReadPair
    PROVE  NvInv'
<1> DEFINE w == Upto(str, "&")
           m == Used(back)
<1>1. /\ w \in 1 .. Len(str) /\ (w < Len(str) => str[w + 1] = "&")
      /\ str' = SubSeq(str, w + 2, Len(str))
      /\ m \in Nat /\ m + Count(str) <= back.size
      /\ back' \in Lists(Text \X ReadText, back.size) /\ back'.size = back.size
      /\ FirstSlots(back', m + 1) /\ Used(back') = m + 1
  BY ReadPairIs
<1> HIDE DEF w, m
<1>2. /\ str \in Text /\ Len(str) \in Nat /\ back.size \in Nat \ {0}
      /\ UNCHANGED <<nvl, text, doing, put>>
  BY LenProperties DEF NvInv, NvTypes, Text, ReadPair
<1>3. str' \in Text /\ (str' # <<>> => m + 1 + Count(str') <= back.size)
  <2>1. CASE w = Len(str)
    <3>1. str' = SubSeq(str, Len(str) + 2, Len(str))
      BY <1>1, <2>1
    <3>2. str' = <<>>
      <4>1. Len(str) < Len(str) + 2 /\ Len(str) + 2 \in Int /\ Len(str) \in Int
        BY <1>2
      <4>2. QED
        BY <3>1, <4>1, SubSeqEmpty
    <3>3. QED
      BY <3>2, Delimiters
  <2>2. CASE w # Len(str)
    <3>1. /\ w < Len(str) /\ str[w + 1] = "&" /\ w + 2 \in 1 .. Len(str) + 1
          /\ str' = SubSeq(str, w + 2, Len(str))
      BY <1>1, <1>2, <2>2
    <3>2. Count(str') \in Nat /\ Count(str) \in Nat /\ Count(str') + 1 <= Count(str)
      BY <1>1, <1>2, <3>1, CountShrinks
    <3>3. str' \in Text
      BY <1>2, <3>1, RestOfText
    <3>4. QED
      BY <1>1, <1>2, <3>2, <3>3
  <2>3. QED
    BY <2>1, <2>2
<1>4. NvTypes'
  BY <1>1, <1>2, <1>3 DEF NvInv, NvTypes
<1>5. SentFits'
  BY <1>2 DEF NvInv, SentFits, FitsItsBuffer
<1>6. ReadFits'
  BY <1>1, <1>3 DEF ReadFits
<1>7. QED
  BY <1>4, <1>5, <1>6 DEF NvInv

(* Every step keeps the costs and the room.                                 *)
LEMMA NvNextInv == NvInv /\ [NvNext]_nvVars => NvInv'
<1> SUFFICES ASSUME NvInv, [NvNext]_nvVars PROVE NvInv'
  OBVIOUS
<1>1. CASE UNCHANGED nvVars
  BY <1>1 DEF nvVars, NvInv, NvTypes, SentFits, ReadFits, FitsItsBuffer
<1>2. CASE ReadNoPair
  BY <1>2 DEF ReadNoPair, NvInv, NvTypes, SentFits, ReadFits, FitsItsBuffer
<1>3. CASE AllRead
  BY <1>3 DEF AllRead, NvInv, NvTypes, SentFits, ReadFits, FitsItsBuffer
<1>4. QED
  BY <1>1, <1>2, <1>3, InsertKeeps, ToStringKeeps, ReadPairKeeps DEF NvNext

(* Whatever is put into a list and whatever string is read: a list's string *)
(* fits the buffer that is made for it, and a list that is read has room    *)
(* for its pairs, none of which is in its last slot.                        *)
THEOREM ListsFitTheirBuffers == NvSpec => []FitsItsBuffers
<1>1. NvInv => FitsItsBuffers
  <2>1. SUFFICES ASSUME NvInv PROVE FitsItsBuffers
    OBVIOUS
  <2>2. FitsItsBuffer
    BY <2>1 DEF NvInv, SentFits
  <2>3. ReadFitsTheList
    <3>1. SUFFICES ASSUME NEW k \in DOMAIN back.nvp, back.nvp[k] # NoPair PROVE k < back.size
      BY DEF ReadFitsTheList
    <3>2. /\ k \in Slots(back.size) /\ back.size \in Nat
          /\ FirstSlots(back, Used(back))
      BY <2>1 DEF NvInv, NvTypes, ReadFits, Lists
    <3>3. k \in Nat /\ Used(back) \in Nat /\ Used(back) <= back.size
      BY <3>2 DEF Slots, FirstSlots
    <3>4. ~(k >= Used(back))
      BY <3>1, <3>2 DEF FirstSlots
    <3>5. QED
      BY <3>2, <3>3, <3>4
  <2>4. QED
    BY <2>2, <2>3 DEF FitsItsBuffers
<1>2. QED
  BY <1>1, NvInitInv, NvNextInv, PTL DEF NvSpec

(* A sequence whose front is another one.                                   *)
BeginsWith(t, u) == Len(u) <= Len(t) /\ \A i \in 1 .. Len(u) : t[i] = u[i]

(* Of sequences that each begin with the one before, the last begins with   *)
(* all.                                                                     *)
LEMMA FrontsOfLast ==
    ASSUME NEW T, NEW m \in Nat, NEW h, \A k \in 0 .. m : h[k] \in Seq(T),
           \A k \in 1 .. m : BeginsWith(h[k], h[k - 1])
    PROVE  \A k \in 0 .. m : BeginsWith(h[m], h[k])
<1>1. \A k \in 0 .. m : Len(h[k]) \in Nat
  BY LenProperties
<1>2. SUFFICES ASSUME NEW k \in 0 .. m PROVE BeginsWith(h[m], h[k])
  OBVIOUS
<1> DEFINE S == {d \in Nat : k + d <= m => BeginsWith(h[k + d], h[k])}
<1>3. 0 \in S
  <2>1. k + 0 = k
    OBVIOUS
  <2>2. QED
    BY <1>1, <2>1 DEF BeginsWith
<1>4. ASSUME NEW d \in Nat, d \in S PROVE d + 1 \in S
  <2>1. SUFFICES ASSUME k + (d + 1) <= m PROVE BeginsWith(h[k + (d + 1)], h[k])
    OBVIOUS
  <2>2. /\ k + (d + 1) \in 1 .. m /\ k + (d + 1) - 1 = k + d /\ k + d \in 0 .. m
        /\ BeginsWith(h[k + d], h[k])
    BY <1>4, <2>1
  <2> DEFINE a == h[k]
             b == h[k + d]
             c == h[k + (d + 1)]
  <2>3. Len(b) <= Len(c) /\ \A i \in 1 .. Len(b) : c[i] = b[i]
    BY <2>2 DEF BeginsWith
  <2>4. Len(a) <= Len(b) /\ \A i \in 1 .. Len(a) : b[i] = a[i]
    BY <2>2 DEF BeginsWith
  <2>5. Len(a) \in Nat /\ Len(b) \in Nat /\ Len(c) \in Nat
    BY <1>1, <2>2
  <2> HIDE DEF a, b, c
  <2>6. Len(a) <= Len(c) /\ \A i \in 1 .. Len(a) : c[i] = a[i]
    BY <2>3, <2>4, <2>5
  <2>7. QED
    BY <2>6 DEF a, c, BeginsWith
<1>5. \A d \in Nat : d \in S
  <2> HIDE DEF S
  <2>1. QED
    BY <1>3, <1>4, AllNumbers
<1>6. PICK d \in Nat : k + d = m
  <2>1. m - k \in Nat /\ k + (m - k) = m
    OBVIOUS
  <2>2. QED
    BY <2>1
<1>7. k + d <= m => BeginsWith(h[k + d], h[k])
  BY <1>5, Zenon
<1>8. m <= m
  OBVIOUS
<1>9. QED
  BY <1>6, <1>7, <1>8, Zenon

(* Where an encoded text has its characters: place[k] of its characters     *)
(* stand for the first k.                                                   *)
IsEncoded(s, v, place) ==
    /\ place \in [0 .. Len(v) -> Nat] /\ place[0] = 0 /\ place[Len(v)] = Len(s)
    /\ \A k \in 1 .. Len(v) :
         /\ place[k] <= Len(s)
         /\ v[k] \notin Special =>
              place[k] = place[k - 1] + 1 /\ s[place[k - 1] + 1] = v[k]
         /\ v[k] \in Special =>
              /\ place[k] = place[k - 1] + 3 /\ s[place[k - 1] + 1] = "%"
              /\ s[place[k - 1] + 2] = Hex[v[k]][1] /\ s[place[k - 1] + 3] = Hex[v[k]][2]

(* It has them there.                                                       *)
LEMMA EncodePlaces ==
    ASSUME NEW v \in Text
    PROVE  \E place : IsEncoded(UrlEncode(v), v, place)
<1>1. PICK g : /\ g \in [0 .. Len(v) -> Seq(Plain)] /\ g[0] = <<>>
               /\ \A k \in 1 .. Len(v) : g[k] = g[k - 1] \o Encoded(v[k])
               /\ UrlEncode(v) = g[Len(v)]
  BY EncodeSteps
<1>2. Len(v) \in Nat /\ \A k \in 1 .. Len(v) : v[k] \in Char
  BY LenProperties, ElementOfSeq DEF Text
<1>3. Seq(Plain) \subseteq Text
  <2>1. Plain \subseteq Char
    BY DEF Plain, Char, Special
  <2>2. QED
    BY <2>1, SeqMonotonic DEF Text
<1>4. \A k \in 0 .. Len(v) : g[k] \in Text /\ Len(g[k]) \in Nat
  BY <1>1, <1>3, LenProperties DEF Text
<1>5. ASSUME NEW c \in Char
      PROVE  /\ Encoded(c) \in Text
             /\ c \notin Special => Len(Encoded(c)) = 1 /\ Encoded(c)[1] = c
             /\ c \in Special => /\ Len(Encoded(c)) = 3 /\ Encoded(c)[1] = "%"
                                 /\ Encoded(c)[2] = Hex[c][1] /\ Encoded(c)[3] = Hex[c][2]
  <2>1. CASE c \in Special
    <3>1. Hex[c][1] \in Char /\ Hex[c][2] \in Char /\ "%" \in Char
      BY <2>1, NvListAssumption DEF Char, Special
    <3>2. QED
      BY <2>1, <3>1 DEF Encoded, Text
  <2>2. CASE c \notin Special
    BY <1>5, <2>2 DEF Encoded, Text
  <2>3. QED
    BY <2>1, <2>2
<1>6. ASSUME NEW k \in 1 .. Len(v)
      PROVE  /\ Len(g[k]) = Len(g[k - 1]) + Len(Encoded(v[k]))
             /\ Len(g[k - 1]) \in Nat /\ Len(Encoded(v[k])) \in Nat
             /\ \A i \in 1 .. Len(g[k - 1]) : g[k][i] = g[k - 1][i]
             /\ \A i \in 1 .. Len(Encoded(v[k])) :
                  g[k][Len(g[k - 1]) + i] = Encoded(v[k])[i]
  <2> DEFINE a == g[k - 1]
             b == Encoded(v[k])
  <2>1. k - 1 \in 0 .. Len(v) /\ v[k] \in Char
    BY <1>2
  <2>2. a \in Text /\ b \in Text /\ g[k] = a \o b
    BY <1>1, <1>4, <1>5, <2>1
  <2> HIDE DEF a, b
  <2>3. /\ Len(a \o b) = Len(a) + Len(b) /\ Len(a) \in Nat /\ Len(b) \in Nat
        /\ \A i \in 1 .. Len(a) : (a \o b)[i] = a[i]
        /\ \A i \in 1 .. Len(b) : (a \o b)[Len(a) + i] = b[i]
    BY <2>2, JoinedTexts, Zenon
  <2>4. QED
    BY <2>2, <2>3 DEF a, b
<1>7. \A k \in 0 .. Len(v) : BeginsWith(g[Len(v)], g[k])
  <2>1. \A k \in 1 .. Len(v) : BeginsWith(g[k], g[k - 1])
    <3>1. SUFFICES ASSUME NEW k \in 1 .. Len(v) PROVE BeginsWith(g[k], g[k - 1])
      OBVIOUS
    <3>2. /\ Len(g[k]) = Len(g[k - 1]) + Len(Encoded(v[k]))
          /\ Len(g[k - 1]) \in Nat /\ Len(Encoded(v[k])) \in Nat
          /\ \A i \in 1 .. Len(g[k - 1]) : g[k][i] = g[k - 1][i]
      BY <1>6
    <3>3. Len(g[k - 1]) <= Len(g[k])
      <4>1. \A a, b \in Nat : a <= a + b
        OBVIOUS
      <4>2. QED
        BY <3>2, <4>1, Zenon
    <3>4. QED
      BY <3>2, <3>3, Zenon DEF BeginsWith
  <2>2. QED
    BY <1>2, <1>4, <2>1, FrontsOfLast DEF Text
<1> DEFINE place == [k \in 0 .. Len(v) |-> Len(g[k])]
           s == UrlEncode(v)
<1>8. s = g[Len(v)] /\ place \in [0 .. Len(v) -> Nat] /\ place[0] = 0 /\ place[Len(v)] = Len(s)
  BY <1>1, <1>2, <1>4
<1>9. ASSUME NEW k \in 1 .. Len(v)
      PROVE  /\ place[k] <= Len(s)
             /\ v[k] \notin Special =>
                  place[k] = place[k - 1] + 1 /\ s[place[k - 1] + 1] = v[k]
             /\ v[k] \in Special =>
                  /\ place[k] = place[k - 1] + 3 /\ s[place[k - 1] + 1] = "%"
                  /\ s[place[k - 1] + 2] = Hex[v[k]][1] /\ s[place[k - 1] + 3] = Hex[v[k]][2]
  <2> DEFINE a == Len(g[k - 1])
             b == Len(g[k])
             c == Encoded(v[k])
  <2>1. place[k] = b /\ place[k - 1] = a /\ k \in 0 .. Len(v)
    BY <1>2
  <2>2. /\ b = a + Len(c) /\ a \in Nat /\ Len(c) \in Nat
        /\ \A i \in 1 .. Len(c) : g[k][a + i] = c[i]
    BY <1>6
  <2>3. b <= Len(s) /\ \A i \in 1 .. b : s[i] = g[k][i]
    BY <1>7, <1>8, <2>1 DEF BeginsWith
  <2> HIDE DEF s, place
  <2>4. \A i \in 1 .. Len(c) : s[a + i] = c[i]
    <3>1. SUFFICES ASSUME NEW i \in 1 .. Len(c) PROVE s[a + i] = c[i]
      OBVIOUS
    <3> HIDE DEF a, b, c
    <3>2. a + i \in 1 .. b
      BY <2>2
    <3>3. QED
      BY <2>2, <2>3, <3>2
  <2>5. /\ v[k] \notin Special => Len(c) = 1 /\ c[1] = v[k]
        /\ v[k] \in Special => /\ Len(c) = 3 /\ c[1] = "%"
                               /\ c[2] = Hex[v[k]][1] /\ c[3] = Hex[v[k]][2]
    BY <1>2, <1>5
  <2> HIDE DEF a, b, c
  <2>6. v[k] \notin Special => b = a + 1 /\ s[a + 1] = v[k]
    BY <2>2, <2>4, <2>5
  <2>7. v[k] \in Special => /\ b = a + 3 /\ s[a + 1] = "%"
                            /\ s[a + 2] = Hex[v[k]][1] /\ s[a + 3] = Hex[v[k]][2]
    <3>1. SUFFICES ASSUME v[k] \in Special
          PROVE  /\ b = a + 3 /\ s[a + 1] = "%"
                 /\ s[a + 2] = Hex[v[k]][1] /\ s[a + 3] = Hex[v[k]][2]
      OBVIOUS
    <3>2. Len(c) = 3
      BY <2>5, <3>1
    <3>3. s[a + 1] = c[1] /\ s[a + 2] = c[2] /\ s[a + 3] = c[3]
      BY <2>4, <3>2
    <3>4. QED
      BY <2>2, <2>5, <3>1, <3>2, <3>3
  <2>8. QED
    BY <2>1, <2>3, <2>6, <2>7
<1> HIDE DEF s, place
<1>10. IsEncoded(s, v, place)
  BY <1>8, <1>9 DEF IsEncoded
<1>11. QED
  BY <1>10 DEF s

(* One step adds what is read at its place, if the one before ended there.  *)
LEMMA OneDecoded ==
    ASSUME NEW s \in Text, NEW r \in Reading, NEW k \in Nat, r.next = k
    PROVE  LET z == DecodeStep(s, r, k)
           IN  /\ z.to = Append(r.to, Decoded(s, k))
               /\ z.next = IF s[k] = "%" THEN k + 3 ELSE k + 1
<1>1. ~(k < r.next)
  OBVIOUS
<1>2. DecodeStep(s, r, k) =
        [to |-> Append(r.to, Decoded(s, k)), next |-> k + (IF s[k] = "%" THEN 3 ELSE 1)]
  BY <1>1 DEF DecodeStep
<1>3. QED
  BY <1>2

(* urldecode_dup takes back what urlencode_dup did.                         *)
LEMMA DecodesEncoded ==
    ASSUME NEW v \in Text
    PROVE  UrlDecode(UrlEncode(v)) = v
<1> DEFINE s == UrlEncode(v)
           m == Len(s)
<1>1. PICK place : IsEncoded(s, v, place)
  BY EncodePlaces
<1>2. s \in Text
  BY EncodedIsPlain
<1> HIDE DEF s
<1>3. PICK r : /\ r \in [0 .. m -> Reading] /\ r[0] = [to |-> <<>>, next |-> 1]
               /\ \A k \in 1 .. m : r[k] = DecodeStep(s, r[k - 1], k)
               /\ UrlDecode(s) = r[m].to
  BY <1>2, DecodeSteps
<1>4. /\ m \in Nat /\ Len(v) \in Nat /\ \A k \in 1 .. Len(v) : v[k] \in Char
      /\ v \in ReadText
  <2>1. Char \subseteq Char \cup {Other}
    OBVIOUS
  <2>2. v \in ReadText
    BY <2>1, SeqMonotonic DEF Text, ReadText
  <2>3. QED
    BY <1>2, <2>2, LenProperties, ElementOfSeq DEF Text
<1> HIDE DEF m
<1>5. /\ \A k \in 0 .. Len(v) : place[k] \in Nat
      /\ place[0] = 0 /\ place[Len(v)] = m
      /\ \A k \in 1 .. Len(v) : place[k] <= m
  BY <1>1 DEF IsEncoded, m
<1> DEFINE IsRead(k) == /\ r[place[k]].next = place[k] + 1
                        /\ Len(r[place[k]].to) = k
                        /\ \A i \in 1 .. k : r[place[k]].to[i] = v[i]
           S == {k \in Nat : k <= Len(v) => IsRead(k)}
<1>6. 0 \in S
  <2>1. r[place[0]] = [to |-> <<>>, next |-> 1]
    BY <1>3, <1>5
  <2>2. Len(<<>>) = 0
    BY Delimiters
  <2>3. QED
    BY <1>5, <2>1, <2>2
<1>7. ASSUME NEW k \in Nat, k \in S PROVE k + 1 \in S
  <2>1. SUFFICES ASSUME k + 1 <= Len(v) PROVE IsRead(k + 1)
    OBVIOUS
  <2> DEFINE a == place[k]
             b == place[k + 1]
             c == v[k + 1]
             old == r[a]
             new == r[a + 1]
  <2>2. k \in 0 .. Len(v) /\ k + 1 \in 1 .. Len(v) /\ (k + 1) - 1 = k /\ IsRead(k)
    BY <1>4, <1>7, <2>1
  <2>3. a \in Nat /\ b \in Nat /\ b <= m /\ c \in Char
    BY <1>4, <1>5, <2>2
  <2>4. /\ c \notin Special => b = a + 1 /\ s[a + 1] = c
        /\ c \in Special => /\ b = a + 3 /\ s[a + 1] = "%"
                            /\ s[a + 2] = Hex[c][1] /\ s[a + 3] = Hex[c][2]
    BY <1>1, <2>2 DEF IsEncoded
  <2>5. old.next = a + 1 /\ Len(old.to) = k /\ \A i \in 1 .. k : old.to[i] = v[i]
    BY <2>2
  <2> HIDE DEF a, b, c
  <2>6. a + 1 \in 1 .. m /\ a \in 0 .. m /\ (a + 1) - 1 = a /\ a + 1 \in Nat
    BY <1>4, <2>3, <2>4
  <2>7. old \in Reading /\ new \in Reading /\ new = DecodeStep(s, old, a + 1)
    BY <1>3, <1>4, <2>6
  <2>8. Decoded(s, a + 1) = c
    <3>1. CASE c \notin Special
      BY <2>4, <3>1 DEF Decoded, Special
    <3>2. CASE c \in Special
      <4> DEFINE is == {d \in Special : /\ (a + 1) + 2 <= Len(s)
                                        /\ Hex[d] = <<s[(a + 1) + 1], s[(a + 1) + 2]>>}
      <4>1. (a + 1) + 1 = a + 2 /\ (a + 1) + 2 = a + 3 /\ (a + 1) + 2 <= Len(s)
        BY <2>3, <2>4, <3>2 DEF m
      <4>2. Hex[c] = <<s[(a + 1) + 1], s[(a + 1) + 2]>>
        <5>1. Hex[c] \in Letter \X Letter
          BY <3>2, NvListAssumption
        <5>2. Hex[c] = <<Hex[c][1], Hex[c][2]>>
          BY <5>1
        <5>3. QED
          BY <2>4, <3>2, <4>1, <5>2
      <4>3. is = {c}
        BY <3>2, <4>1, <4>2, NvListAssumption
      <4>4. (CHOOSE d \in {c} : TRUE) = c
        OBVIOUS
      <4>5. Decoded(s, a + 1) = IF is = {} THEN Other ELSE CHOOSE d \in is : TRUE
        BY <2>4, <3>2 DEF Decoded
      <4> HIDE DEF is
      <4>6. QED
        BY <4>3, <4>4, <4>5
    <3>3. QED
      BY <3>1, <3>2
  <2>9. /\ new.to = Append(old.to, c)
        /\ new.next = IF s[a + 1] = "%" THEN (a + 1) + 3 ELSE (a + 1) + 1
    BY <1>2, <2>5, <2>6, <2>7, <2>8, OneDecoded
  <2> HIDE DEF old, new
  <2>10. Len(new.to) = k + 1 /\ \A i \in 1 .. k + 1 : new.to[i] = v[i]
    <3>1. old.to \in ReadText /\ c \in Char \cup {Other}
      BY <2>3, <2>7 DEF Reading
    <3>2. /\ Len(Append(old.to, c)) = Len(old.to) + 1
          /\ \A i \in 1 .. Len(old.to) : Append(old.to, c)[i] = old.to[i]
          /\ Append(old.to, c)[Len(old.to) + 1] = c
      BY <3>1, AppendProperties DEF ReadText
    <3>3. QED
      BY <2>5, <2>9, <3>2 DEF c
  <2>11. CASE c \notin Special
    <3>1. b = a + 1 /\ s[a + 1] # "%"
      BY <2>4, <2>11 DEF Special
    <3>2. r[b] = new /\ new.next = b + 1
      BY <2>3, <2>9, <3>1 DEF new
    <3>3. QED
      BY <2>10, <3>2 DEF b
  <2>12. CASE c \in Special
    <3>1. b = a + 3 /\ new.next = a + 4
      BY <2>3, <2>4, <2>9, <2>12
    <3>2. r[a + 2] = new
      <4>1. a + 2 \in 1 .. m /\ (a + 2) - 1 = a + 1 /\ a + 2 < a + 4
        BY <1>4, <2>3, <3>1
      <4>2. r[a + 2] = DecodeStep(s, new, a + 2)
        BY <1>3, <4>1 DEF new
      <4>3. QED
        BY <3>1, <4>1, <4>2 DEF DecodeStep
    <3>3. r[a + 3] = new
      <4>1. a + 3 \in 1 .. m /\ (a + 3) - 1 = a + 2 /\ a + 3 < a + 4
        BY <1>4, <2>3, <3>1
      <4>2. r[a + 3] = DecodeStep(s, new, a + 3)
        BY <1>3, <3>2, <4>1
      <4>3. QED
        BY <3>1, <4>1, <4>2 DEF DecodeStep
    <3>4. r[b] = new /\ new.next = b + 1
      BY <2>3, <3>1, <3>3
    <3>5. QED
      BY <2>10, <3>4 DEF b
  <2>13. QED
    BY <2>11, <2>12
<1>8. IsRead(Len(v))
  <2>1. \A k \in Nat : k \in S
    <3> HIDE DEF S
    <3>1. QED
      BY <1>6, <1>7, AllNumbers
  <2>2. QED
    BY <1>4, <2>1
<1>9. Len(UrlDecode(s)) = Len(v) /\ \A i \in 1 .. Len(v) : UrlDecode(s)[i] = v[i]
  BY <1>3, <1>5, <1>8
<1>10. UrlDecode(s) \in ReadText
  BY <1>2, DecodedIsText
<1>11. UrlDecode(s) = v
  <2> DEFINE t == UrlDecode(s)
  <2> HIDE DEF t
  <2>1. /\ t \in Seq(Char \cup {Other}) /\ v \in Seq(Char \cup {Other}) /\ Len(t) = Len(v)
        /\ \A i \in 1 .. Len(t) : t[i] = v[i]
    BY <1>4, <1>9, <1>10 DEF t, ReadText
  <2>2. t = v
    BY <2>1, SeqEqual
  <2>3. QED
    BY <2>2 DEF t
<1>12. QED
  BY <1>11 DEF s

(* Of a list whose first m slots are used, pair by pair is written, each    *)
(* but the first behind a "&".                                              *)
LEMMA WrittenInOrder ==
    ASSUME NEW list, TextList(list), NEW m \in 0 .. list.size + 1,
           \A k \in 0 .. m - 1 : list.nvp[k] # NoPair
    PROVE  /\ \A k \in 0 .. m : BeginsWith(Written(list, m), Written(list, k))
           /\ \A k \in 0 .. m - 1 :
                /\ Written(list, k) \in Text /\ list.nvp[k] \in Text \X Text
                /\ Written(list, k + 1) = Strcat(Written(list, k), list.nvp[k])
           /\ \A k \in 1 .. m : Written(list, k) # <<>>
           /\ \A k \in 1 .. m - 1 :
                /\ Len(Written(list, k)) + 1 <= Len(Written(list, m))
                /\ Written(list, m)[Len(Written(list, k)) + 1] = "&"
<1> DEFINE h == [k \in 0 .. m |-> Written(list, k)]
<1>1. list.size \in Nat /\ m \in Nat
  BY DEF TextList
<1>2. \A k \in 0 .. m : Written(list, k) \in Text /\ Len(Written(list, k)) \in Nat
  <2>1. \A k \in 0 .. m : Written(list, k) \in Text
    BY <1>1, WrittenSteps
  <2>2. QED
    BY <2>1, LenProperties DEF Text
<1>3. ASSUME NEW k \in 0 .. m - 1
      PROVE  /\ Written(list, k) \in Text /\ list.nvp[k] \in Text \X Text
             /\ Written(list, k + 1) = Strcat(Written(list, k), list.nvp[k])
  <2>1. k + 1 \in 1 .. list.size + 1 /\ (k + 1) - 1 = k /\ k \in Slots(list.size) /\ k \in 0 .. m
    BY <1>1 DEF Slots
  <2>2. list.nvp[k] \in Text \X Text
    BY <2>1 DEF TextList
  <2>3. QED
    BY <1>2, <2>1, <2>2, WrittenSteps
<1>4. ASSUME NEW k \in 0 .. m - 1
      PROVE  /\ BeginsWith(Written(list, k + 1), Written(list, k))
             /\ Written(list, k + 1) # <<>>
             /\ Written(list, k) # <<>> =>
                  /\ Len(Written(list, k)) + 1 <= Len(Written(list, k + 1))
                  /\ Written(list, k + 1)[Len(Written(list, k)) + 1] = "&"
  <2> DEFINE a == Written(list, k)
             b == Written(list, k + 1)
             p == list.nvp[k]
  <2>1. a \in Text /\ p \in Text \X Text /\ b = Strcat(a, p)
    BY <1>3
  <2> HIDE DEF a, b, p
  <2>2. /\ b \in Text /\ Len(b) = Before(a) + Len(p[1]) + 1 + Len(p[2])
        /\ \A j \in 1 .. Len(a) : b[j] = a[j]
        /\ a # <<>> => b[Len(a) + 1] = "&"
    BY <2>1, PairPlaces
  <2>3. /\ Len(p[1]) \in Nat /\ Len(p[2]) \in Nat /\ Len(a) \in Nat
        /\ (a = <<>> => Len(a) = 0)
    BY <2>1, LenProperties DEF Text
  <2>4. /\ Before(a) \in Nat /\ Len(a) <= Before(a)
        /\ (a # <<>> => Len(a) + 1 <= Before(a))
    BY <2>3 DEF Before
  <2>5. Before(a) + 1 <= Len(b)
    BY <2>2, <2>3, <2>4
  <2>6. Len(b) # 0 /\ Len(a) <= Len(b) /\ (a # <<>> => Len(a) + 1 <= Len(b))
    <3>1. Len(b) \in Nat
      BY <2>2, LenProperties DEF Text
    <3>2. QED
      BY <2>3, <2>4, <2>5, <3>1
  <2>7. b # <<>>
    BY <2>6, Delimiters
  <2>8. QED
    BY <2>2, <2>6, <2>7 DEF BeginsWith, a, b
<1>5. \A k \in 0 .. m : BeginsWith(Written(list, m), Written(list, k))
  <2>1. \A k \in 0 .. m : h[k] \in Text /\ h[k] = Written(list, k)
    BY <1>2
  <2>2. \A k \in 1 .. m : BeginsWith(h[k], h[k - 1])
    <3>1. SUFFICES ASSUME NEW k \in 1 .. m PROVE BeginsWith(h[k], h[k - 1])
      OBVIOUS
    <3>2. k - 1 \in 0 .. m - 1 /\ (k - 1) + 1 = k /\ k - 1 \in 0 .. m /\ k \in 0 .. m
      BY <1>1
    <3>3. BeginsWith(Written(list, (k - 1) + 1), Written(list, k - 1))
      BY <1>4, <3>2
    <3>4. QED
      BY <2>1, <3>2, <3>3
  <2> HIDE DEF h
  <2>3. \A k \in 0 .. m : BeginsWith(h[m], h[k])
    BY <1>1, <2>1, <2>2, FrontsOfLast DEF Text
  <2>4. m \in 0 .. m
    BY <1>1
  <2>5. QED
    BY <2>1, <2>3, <2>4
<1>6. \A k \in 1 .. m : Written(list, k) # <<>>
  <2>1. SUFFICES ASSUME NEW k \in 1 .. m PROVE Written(list, k) # <<>>
    OBVIOUS
  <2>2. k - 1 \in 0 .. m - 1 /\ (k - 1) + 1 = k
    BY <1>1
  <2>3. QED
    BY <1>4, <2>2
<1>7. ASSUME NEW k \in 1 .. m - 1
      PROVE  /\ Len(Written(list, k)) + 1 <= Len(Written(list, m))
             /\ Written(list, m)[Len(Written(list, k)) + 1] = "&"
  <2> DEFINE a == Written(list, k)
             b == Written(list, k + 1)
             c == Written(list, m)
  <2>1. k \in 0 .. m - 1 /\ k \in 1 .. m /\ k \in 0 .. m /\ k + 1 \in 0 .. m /\ m \in 0 .. m
    BY <1>1
  <2>2. Len(a) + 1 <= Len(b) /\ b[Len(a) + 1] = "&"
    BY <1>4, <1>6, <2>1
  <2>3. BeginsWith(c, b)
    BY <1>5, <2>1
  <2>4. Len(a) \in Nat /\ Len(b) \in Nat /\ Len(c) \in Nat
    BY <1>2, <2>1
  <2> HIDE DEF a, b, c
  <2>5. Len(a) + 1 \in 1 .. Len(b)
    BY <2>2, <2>4
  <2>6. Len(a) + 1 <= Len(c) /\ c[Len(a) + 1] = "&"
    BY <2>2, <2>3, <2>4, <2>5 DEF BeginsWith
  <2>7. QED
    BY <2>6 DEF a, c
<1>8. QED
  BY <1>3, <1>5, <1>6, <1>7

(* A pair is written behind b characters of a string, and a "&" behind it,  *)
(* if anything is.                                                          *)
PairIsAt(t, b, a, v) ==
    LET n == Len(a) + 1 + Len(v)
    IN  /\ b + n <= Len(t)
        /\ \A k \in 1 .. Len(a) : t[b + k] = a[k]
        /\ t[b + Len(a) + 1] = "="
        /\ \A k \in 1 .. Len(v) : t[b + Len(a) + 1 + k] = v[k]
        /\ b + n < Len(t) => t[b + n + 1] = "&"

(* Where pair j is in the string of m pairs.                                *)
LEMMA PairIsWritten ==
    ASSUME NEW list, TextList(list), NEW m \in 0 .. list.size + 1,
           \A k \in 0 .. m - 1 : list.nvp[k] # NoPair, NEW j \in 0 .. m - 1
    PROVE  LET a == list.nvp[j][1]
               v == list.nvp[j][2]
               b == Before(Written(list, j))
           IN  /\ b \in Nat /\ PairIsAt(Written(list, m), b, a, v)
               /\ Before(Written(list, j + 1)) = b + (Len(a) + 1 + Len(v)) + 1
<1> DEFINE t == Written(list, m)
           p == list.nvp[j]
           a == p[1]
           v == p[2]
           ret == Written(list, j)
           s == Written(list, j + 1)
           b == Before(ret)
           n == Len(a) + 1 + Len(v)
<1>1. m \in Nat /\ j + 1 \in 0 .. m /\ j + 1 \in 1 .. m /\ (j + 1 < m => j + 1 \in 1 .. m - 1)
  BY DEF TextList
<1>2. /\ BeginsWith(t, s) /\ ret \in Text /\ p \in Text \X Text /\ s = Strcat(ret, p)
      /\ s # <<>>
      /\ j + 1 < m => Len(s) + 1 <= Len(t) /\ t[Len(s) + 1] = "&"
  BY <1>1, WrittenInOrder
<1>3. /\ a \in Text /\ v \in Text /\ Len(a) \in Nat /\ Len(v) \in Nat /\ Len(ret) \in Nat
  BY <1>2, LenProperties DEF Text
<1>4. j + 1 = m => s = t
  OBVIOUS
<1> HIDE DEF t, ret, s, p
<1>5. /\ s \in Text /\ Len(s) = b + Len(a) + 1 + Len(v)
      /\ \A k \in 1 .. Len(a) : s[b + k] = a[k]
      /\ s[b + Len(a) + 1] = "="
      /\ \A k \in 1 .. Len(v) : s[b + Len(a) + 1 + k] = v[k]
  BY <1>2, PairPlaces
<1> HIDE DEF a, v
<1>6. b \in Nat
  BY <1>3 DEF Before
<1>7. Before(s) = Len(s) + 1
  BY <1>2 DEF Before
<1> HIDE DEF b
<1>8. Len(s) = b + n /\ n \in Nat /\ n >= 1
  BY <1>3, <1>5, <1>6
<1>9. Len(s) <= Len(t) /\ \A k \in 1 .. Len(s) : t[k] = s[k]
  BY <1>2 DEF BeginsWith
<1>10. \A k \in 1 .. Len(a) : t[b + k] = a[k]
  <2>1. SUFFICES ASSUME NEW k \in 1 .. Len(a) PROVE t[b + k] = a[k]
    OBVIOUS
  <2>2. b + k \in 1 .. Len(s)
    BY <1>3, <1>5, <1>6
  <2>3. QED
    BY <1>5, <1>9, <2>2
<1>11. t[b + Len(a) + 1] = "="
  <2>1. b + Len(a) + 1 \in 1 .. Len(s)
    BY <1>3, <1>5, <1>6
  <2>2. QED
    BY <1>5, <1>9, <2>1
<1>12. \A k \in 1 .. Len(v) : t[b + Len(a) + 1 + k] = v[k]
  <2>1. SUFFICES ASSUME NEW k \in 1 .. Len(v) PROVE t[b + Len(a) + 1 + k] = v[k]
    OBVIOUS
  <2>2. b + Len(a) + 1 + k \in 1 .. Len(s)
    BY <1>3, <1>5, <1>6
  <2>3. QED
    BY <1>5, <1>9, <2>2
<1>13. b + n < Len(t) => t[b + n + 1] = "&"
  <2>1. j + 1 < m \/ j + 1 = m
    BY <1>1
  <2>2. j + 1 < m => t[b + n + 1] = "&"
    BY <1>2, <1>8
  <2>3. j + 1 = m => Len(t) = b + n
    BY <1>4, <1>8
  <2> HIDE DEF n
  <2>4. b + n \in Nat
    BY <1>6, <1>8
  <2>5. QED
    BY <2>1, <2>2, <2>3, <2>4
<1> HIDE DEF n
<1>14. b + n <= Len(t) /\ Before(s) = b + n + 1
  BY <1>7, <1>8, <1>9
<1>15. n = Len(a) + 1 + Len(v)
  BY DEF n
<1>16. PairIsAt(t, b, a, v)
  BY <1>10, <1>11, <1>12, <1>13, <1>14, <1>15 DEF PairIsAt
<1>17. QED
  BY <1>6, <1>14, <1>15, <1>16 DEF t, a, v, b, ret, s, p

(* Names and encoded values have no "&", and names no "=".                  *)
LEMMA NoDelimiters ==
    /\ \A a \in Seq(Letter) : \A k \in 1 .. Len(a) : a[k] # "&" /\ a[k] # "="
    /\ \A v \in Seq(Plain) : \A k \in 1 .. Len(v) : v[k] # "&"
<1>1. Letter \cap Special = {} /\ "&" \in Special /\ "=" \in Special
  BY NvListAssumption DEF Special
<1>2. "&" \notin Letter /\ "=" \notin Letter /\ "&" \notin Plain
  BY <1>1 DEF Plain
<1>3. /\ \A a \in Seq(Letter) : \A k \in 1 .. Len(a) : a[k] \in Letter
      /\ \A v \in Seq(Plain) : \A k \in 1 .. Len(v) : v[k] \in Plain
  BY ElementOfSeq
<1>4. QED
  BY <1>2, <1>3

(* A name and an encoded value are read from where they are in a string.    *)
LEMMA PairIsFound ==
    ASSUME NEW t \in Text, NEW b \in Nat, NEW a \in Seq(Letter), NEW v \in Seq(Plain),
           PairIsAt(t, b, a, v)
    PROVE  LET s == SubSeq(t, b + 1, Len(t))
               w == Upto(s, "&")
               p == SubSeq(s, 1, w)
               n == Len(a) + 1 + Len(v)
           IN  /\ Upto(p, "=") < Len(p) /\ Name(p) = a /\ Value(p) = v
               /\ SubSeq(s, w + 2, Len(s)) = SubSeq(t, b + n + 2, Len(t))
               /\ s # <<>>
<1> DEFINE s == SubSeq(t, b + 1, Len(t))
           w == Upto(s, "&")
           n == Len(a) + 1 + Len(v)
           p == SubSeq(s, 1, n)
           e == Upto(p, "=")
<1>1. /\ Letter \subseteq Char /\ Plain \subseteq Char
      /\ a \in Text /\ v \in Text /\ Len(a) \in Nat /\ Len(v) \in Nat /\ Len(t) \in Nat
  <2>1. Letter \subseteq Char /\ Plain \subseteq Char
    BY DEF Char, Plain, Special
  <2>2. QED
    BY <2>1, SeqMonotonic, LenProperties DEF Text
<1>A. /\ b + n <= Len(t)
      /\ \A k \in 1 .. Len(a) : t[b + k] = a[k]
      /\ t[b + Len(a) + 1] = "="
      /\ \A k \in 1 .. Len(v) : t[b + Len(a) + 1 + k] = v[k]
      /\ b + n < Len(t) => t[b + n + 1] = "&"
  BY DEF PairIsAt
<1>B. n \in Nat /\ n = Len(a) + 1 + Len(v) /\ n >= 1
  BY <1>1
<1> HIDE DEF n
<1>2. b + 1 \in 1 .. Len(t) + 1
  BY <1>1, <1>A, <1>B
<1>3. /\ s \in Text /\ Len(s) = Len(t) + 1 - (b + 1)
      /\ \A j \in 1 .. Len(t) + 1 - (b + 1) : s[j] = t[j + (b + 1) - 1]
  BY <1>2, RestOfText
<1> HIDE DEF s
<1>4. Len(s) = Len(t) - b /\ Len(s) \in Nat /\ n <= Len(s) /\ DOMAIN s = 1 .. Len(s)
  BY <1>1, <1>A, <1>B, <1>3, LenProperties DEF Text
<1>5. \A j \in 1 .. Len(s) : s[j] = t[b + j]
  <2>1. SUFFICES ASSUME NEW j \in 1 .. Len(s) PROVE s[j] = t[b + j]
    OBVIOUS
  <2>2. j \in 1 .. Len(t) + 1 - (b + 1) /\ j + (b + 1) - 1 = b + j
    BY <1>1, <1>A, <1>B, <1>4
  <2>3. QED
    BY <1>3, <2>2
<1>6. /\ \A k \in 1 .. Len(a) : s[k] = a[k]
      /\ s[Len(a) + 1] = "="
      /\ \A k \in 1 .. Len(v) : s[Len(a) + 1 + k] = v[k]
      /\ n < Len(s) => s[n + 1] = "&"
  <2>1. \A k \in 1 .. Len(a) : k \in 1 .. Len(s)
    BY <1>1, <1>A, <1>B, <1>4
  <2>2. Len(a) + 1 \in 1 .. Len(s) /\ b + (Len(a) + 1) = b + Len(a) + 1
    BY <1>1, <1>A, <1>B, <1>4
  <2>3. \A k \in 1 .. Len(v) : /\ Len(a) + 1 + k \in 1 .. Len(s)
                               /\ b + (Len(a) + 1 + k) = b + Len(a) + 1 + k
    BY <1>1, <1>A, <1>B, <1>4
  <2>4. n < Len(s) => n + 1 \in 1 .. Len(s) /\ b + (n + 1) = b + n + 1 /\ b + n < Len(t)
    BY <1>1, <1>A, <1>B, <1>4
  <2>5. QED
    BY <1>A, <1>5, <2>1, <2>2, <2>3, <2>4
<1>7. \A k \in 1 .. n : s[k] # "&"
  <2>1. SUFFICES ASSUME NEW k \in 1 .. n PROVE s[k] # "&"
    OBVIOUS
  <2>2. CASE k <= Len(a)
    <3>1. k \in 1 .. Len(a)
      BY <1>1, <1>B, <2>2
    <3>2. QED
      BY <1>6, <3>1, NoDelimiters
  <2>3. CASE k = Len(a) + 1
    BY <1>6, <2>3
  <2>4. CASE k > Len(a) + 1
    <3>1. k - (Len(a) + 1) \in 1 .. Len(v) /\ Len(a) + 1 + (k - (Len(a) + 1)) = k
      BY <1>1, <1>A, <1>B, <2>4
    <3>2. s[k] = v[k - (Len(a) + 1)]
      BY <1>6, <3>1
    <3>3. QED
      BY <3>1, <3>2, NoDelimiters
  <2>5. QED
    BY <1>1, <1>A, <1>B, <2>2, <2>3, <2>4
<1>8. w = n
  <2>1. n \in 0 .. Len(s)
    BY <1>B, <1>4
  <2>2. QED
    BY <1>4, <1>6, <1>7, <2>1, UptoIs
<1>9. p \in Text /\ Len(p) = n /\ \A k \in 1 .. n : p[k] = s[k]
  <2>1. n \in 0 .. Len(s)
    BY <1>B, <1>4
  <2>2. QED
    BY <1>3, <2>1, FrontOfText
<1> HIDE DEF p
<1>10. DOMAIN p = 1 .. Len(p)
  BY <1>9, LenProperties DEF Text
<1>11. e = Len(a)
  <2>1. Len(a) \in 0 .. Len(p) /\ \A k \in 1 .. Len(a) : k \in 1 .. n
    BY <1>1, <1>A, <1>B, <1>9
  <2>2. \A k \in 1 .. Len(a) : p[k] # "="
    BY <1>6, <1>9, <2>1, NoDelimiters
  <2>3. p[Len(a) + 1] = "="
    <3>1. Len(a) + 1 \in 1 .. n
      BY <1>1, <1>A, <1>B
    <3>2. QED
      BY <1>6, <1>9, <3>1
  <2>4. Len(p) \in Nat
    BY <1>9
  <2>5. QED
    BY <1>10, <2>1, <2>2, <2>3, <2>4, UptoIs
<1>12. Name(p) = a
  <2> DEFINE u == SubSeq(p, 1, e)
  <2>1. e \in 0 .. Len(p)
    BY <1>1, <1>A, <1>B, <1>9, <1>11
  <2>2. u \in Text /\ Len(u) = Len(a) /\ \A k \in 1 .. Len(a) : u[k] = p[k]
    BY <1>9, <1>11, <2>1, FrontOfText
  <2>3. Name(p) = u
    BY DEF Name
  <2> HIDE DEF u
  <2>4. \A k \in 1 .. Len(u) : u[k] = a[k]
    <3>1. \A k \in 1 .. Len(a) : k \in 1 .. n
      BY <1>1, <1>A, <1>B
    <3>2. QED
      BY <1>6, <1>9, <2>2, <3>1
  <2>5. u = a
    BY <1>1, <1>A, <1>B, <2>2, <2>4, SeqEqual DEF Text
  <2>6. QED
    BY <2>3, <2>5
<1>13. Value(p) = v
  <2> DEFINE u == SubSeq(p, Len(a) + 2, Len(p))
  <2>1. Len(a) + 2 \in 1 .. Len(p) + 1
    BY <1>1, <1>A, <1>B, <1>9
  <2>2. /\ u \in Text /\ Len(u) = Len(p) + 1 - (Len(a) + 2)
        /\ \A j \in 1 .. Len(p) + 1 - (Len(a) + 2) : u[j] = p[j + (Len(a) + 2) - 1]
    BY <1>9, <2>1, RestOfText
  <2>3. Value(p) = u
    BY <1>11 DEF Value
  <2> HIDE DEF u
  <2>4. Len(u) = Len(v)
    BY <1>1, <1>A, <1>B, <1>9, <2>2
  <2>5. \A k \in 1 .. Len(u) : u[k] = v[k]
    <3>1. SUFFICES ASSUME NEW k \in 1 .. Len(v) PROVE u[k] = v[k]
      BY <2>4
    <3>2. /\ k \in 1 .. Len(p) + 1 - (Len(a) + 2)
          /\ k + (Len(a) + 2) - 1 = Len(a) + 1 + k
          /\ Len(a) + 1 + k \in 1 .. n
      BY <1>1, <1>A, <1>B, <1>9
    <3>3. QED
      BY <1>6, <1>9, <2>2, <3>2
  <2>6. u = v
    BY <1>1, <1>A, <1>B, <2>2, <2>4, <2>5, SeqEqual DEF Text
  <2>7. QED
    BY <2>3, <2>6
<1>14. SubSeq(s, n + 2, Len(s)) = SubSeq(t, b + n + 2, Len(t))
  <2>1. CASE n = Len(s)
    <3>1. Len(s) < n + 2 /\ Len(t) < b + n + 2 /\ n + 2 \in Int /\ b + n + 2 \in Int
          /\ Len(s) \in Int /\ Len(t) \in Int
      BY <1>1, <1>A, <1>B, <1>4, <2>1
    <3>2. QED
      BY <3>1, SubSeqEmpty
  <2>2. CASE n # Len(s)
    <3> DEFINE u == SubSeq(s, n + 2, Len(s))
               z == SubSeq(t, b + n + 2, Len(t))
    <3>1. n + 2 \in 1 .. Len(s) + 1 /\ b + n + 2 \in 1 .. Len(t) + 1
      <4>1. \A i, j, k, l \in Nat :
              i <= j /\ i # j /\ j = k - l => /\ i + 2 \in 1 .. j + 1
                                           /\ l + i + 2 \in 1 .. k + 1
        OBVIOUS
      <4>2. QED
        BY <1>1, <1>A, <1>B, <1>4, <2>2, <4>1, Zenon
    <3>2. /\ u \in Text /\ Len(u) = Len(s) + 1 - (n + 2)
          /\ \A j \in 1 .. Len(s) + 1 - (n + 2) : u[j] = s[j + (n + 2) - 1]
      BY <1>3, <3>1, RestOfText
    <3>3. /\ z \in Text /\ Len(z) = Len(t) + 1 - (b + n + 2)
          /\ \A j \in 1 .. Len(t) + 1 - (b + n + 2) : z[j] = t[j + (b + n + 2) - 1]
      BY <3>1, RestOfText
    <3> HIDE DEF u, z
    <3>4. Len(u) = Len(z)
      BY <1>1, <1>A, <1>B, <1>4, <3>2, <3>3
    <3>5. \A j \in 1 .. Len(u) : u[j] = z[j]
      <4>1. SUFFICES ASSUME NEW j \in 1 .. Len(u) PROVE u[j] = z[j]
        OBVIOUS
      <4>2. /\ j \in 1 .. Len(s) + 1 - (n + 2) /\ j \in 1 .. Len(t) + 1 - (b + n + 2)
            /\ j + (n + 2) - 1 \in 1 .. Len(s)
            /\ b + (j + (n + 2) - 1) = j + (b + n + 2) - 1
        BY <1>1, <1>A, <1>B, <1>4, <3>1, <3>2
      <4>3. QED
        BY <1>5, <3>2, <3>3, <4>2
    <3>6. u = z
      BY <3>2, <3>3, <3>4, <3>5, SeqEqual DEF Text
    <3>7. QED
      BY <3>6 DEF u, z
  <2>3. QED
    BY <2>1, <2>2
<1>15. e < Len(p) /\ s # <<>>
  BY <1>1, <1>B, <1>4, <1>9, <1>11, Delimiters
<1> HIDE DEF e, w
<1>16. QED
  BY <1>8, <1>12, <1>13, <1>14, <1>15 DEF s, p, e, w, n

(* Pairs are sent encoded and in the order in which they were put.          *)
SentPairs ==
    /\ FirstSlots(nvl, Len(put))
    /\ \A k \in 0 .. Len(put) - 1 : nvl.nvp[k] = <<put[k + 1][1], UrlEncode(put[k + 1][2])>>

(* What is still to read is what is written behind the pairs that were.     *)
ReadSoFar ==
    LET m == Len(put)
        j == Used(back)
    IN  put # <<>> =>
        /\ doing # "crash"
        /\ doing # "insert" =>
             /\ j <= m /\ \A k \in 0 .. j - 1 : back.nvp[k] = put[k + 1]
             /\ text = Written(nvl, m)
             /\ str = SubSeq(text, Before(Written(nvl, j)) + 1, Len(text))
             /\ doing = "done" => str = <<>>

(* ReadsBack is not inductive: it does not say how pairs are written, nor   *)
(* how far the string is read.                                              *)
ReadInv == NvInv /\ SentPairs /\ ReadSoFar


(* Nothing is put or read yet.                                              *)
LEMMA NothingIsRead == NvInit => ReadInv
<1> SUFFICES ASSUME NvInit PROVE ReadInv
  OBVIOUS
<1>1. nvl = NewList(Size) /\ put = <<>> /\ Len(put) = 0 /\ Size \in Nat
  BY NvListAssumption DEF NvInit
<1>2. FirstSlots(nvl, 0)
  BY <1>1, NewListIs
<1>3. SentPairs
  BY <1>1, <1>2 DEF SentPairs
<1>4. QED
  BY <1>1, <1>3, NvInitInv DEF ReadInv, ReadSoFar

(* A pair is put behind the others, its value encoded.                      *)
LEMMA InsertIsSent ==
    ASSUME ReadInv, NvListInsert, Encodes = TRUE, Indices = {0}
    PROVE  SentPairs' /\ ReadSoFar'
<1> DEFINE m == Len(put)
<1>1. PICK name \in Names, value \in Values :
        /\ doing = "insert" /\ m < Size
        /\ nvl' = Insert(nvl, name, UrlEncode(value), 0)
        /\ put' = Append(put, <<name, value>>)
        /\ UNCHANGED <<text, str, back, doing>>
  BY DEF NvListInsert, Sent
<1> DEFINE v == UrlEncode(value)
<1>2. v = Sent(value)
  BY DEF Sent
<1> HIDE DEF v
<1>3. /\ name \in Text /\ v \in Text /\ Len(name) \in Nat /\ Len(v) \in Nat
      /\ <<name, v>> \in Text \X Text /\ <<name, v>> # NoPair
  BY <1>2, SentIsText DEF NoPair
<1>4. /\ Size \in Nat /\ m \in Nat /\ nvl \in Lists(Text \X Text, Size) /\ nvl.size = Size
      /\ put \in Seq(Names \X Values)
  BY NvListAssumption, LenProperties DEF ReadInv, NvInv, NvTypes, Lists
<1>5. /\ FirstSlots(nvl, m)
      /\ \A k \in 0 .. m - 1 : nvl.nvp[k] = <<put[k + 1][1], UrlEncode(put[k + 1][2])>>
  BY DEF ReadInv, SentPairs
<1>6. /\ Len(put') = m + 1 /\ put'[m + 1] = <<name, value>>
      /\ \A k \in 1 .. m : put'[k] = put[k]
  BY <1>1, <1>4, AppendProperties
<1> HIDE DEF m
<1>7. FreeSlot(nvl, 0) = m
  <2>1. m \in 0 .. Size
    BY <1>1, <1>4
  <2>2. QED
    BY <1>4, <1>5, <2>1, NextSlotIs DEF FirstSlots
<1>8. /\ nvl' \in Lists(Text \X Text, Size) /\ nvl'.last = m
      /\ nvl'.nvp[m] = <<name, v>>
      /\ \A j \in Slots(Size) : j # m => nvl'.nvp[j] = nvl.nvp[j]
  <2>1. m \in Slots(Size)
    BY <1>1, <1>4 DEF Slots
  <2>2. nvl' = Insert(nvl, name, v, 0)
    BY <1>1 DEF v
  <2>3. QED
    BY <1>3, <1>4, <1>7, <2>1, <2>2, InsertIs
<1>9. nvl'.size = Size
  BY <1>8 DEF Lists
<1>10. FirstSlots(nvl', m + 1)
  <2>1. ASSUME NEW k \in Slots(Size) PROVE nvl'.nvp[k] = NoPair <=> k >= m + 1
    <3>1. k \in Nat
      BY DEF Slots
    <3>2. CASE k = m
      BY <1>3, <1>4, <1>8, <3>2
    <3>3. CASE k # m
      <4>1. k >= m + 1 <=> k >= m
        BY <1>4, <3>1, <3>3
      <4>2. nvl.nvp[k] = NoPair <=> k >= m
        BY <1>4, <1>5 DEF FirstSlots
      <4>3. QED
        BY <1>8, <3>3, <4>1, <4>2
    <3>4. QED
      BY <3>2, <3>3
  <2>2. m + 1 \in 0 .. Size /\ m + 1 # 0 /\ (m + 1) - 1 = m
    BY <1>1, <1>4
  <2>3. QED
    BY <1>8, <1>9, <2>1, <2>2 DEF FirstSlots
<1>11. ASSUME NEW k \in 0 .. m
       PROVE  nvl'.nvp[k] = <<put'[k + 1][1], UrlEncode(put'[k + 1][2])>>
  <2>1. CASE k = m
    BY <1>6, <1>8, <2>1 DEF v
  <2>2. CASE k # m
    <3>1. k \in 0 .. m - 1 /\ k + 1 \in 1 .. m /\ k \in Slots(Size)
      BY <1>1, <1>4, <2>2 DEF Slots
    <3>2. QED
      BY <1>5, <1>6, <1>8, <2>2, <3>1
  <2>3. QED
    BY <2>1, <2>2
<1>12. SentPairs'
  <2>1. Len(put') - 1 = m
    BY <1>4, <1>6
  <2>2. QED
    BY <1>6, <1>10, <1>11, <2>1 DEF SentPairs
<1>13. ReadSoFar'
  BY <1>1 DEF ReadSoFar
<1>14. QED
  BY <1>12, <1>13

(* The whole string is still to read.                                       *)
LEMMA NothingOfItIsRead ==
    ASSUME ReadInv, NvListToString
    PROVE  SentPairs' /\ ReadSoFar'
<1> DEFINE m == Len(put)
<1>1. /\ put # <<>> /\ text' = AsString(nvl) /\ str' = text'
      /\ back' = NewList(Count(text')) /\ doing' = "read" /\ UNCHANGED <<nvl, put>>
  BY DEF NvListToString
<1>2. /\ put \in Seq(Names \X Values) /\ TextList(nvl) /\ nvl.size \in Nat /\ FirstSlots(nvl, m)
  BY NvListAssumption DEF ReadInv, NvInv, NvTypes, SentPairs, Lists, TextList
<1>3. m \in Nat \ {0}
  BY <1>1, <1>2, EmptySeq, LenProperties
<1>4. nvl.last + 1 = m
  BY <1>2, <1>3 DEF FirstSlots
<1>5. text' = Written(nvl, m) /\ text' \in Text
  <2>1. m \in 0 .. nvl.size + 1
    BY <1>2, <1>3 DEF FirstSlots
  <2>2. QED
    BY <1>1, <1>2, <1>4, <2>1, WrittenSteps DEF AsString
<1> HIDE DEF m
<1>6. Used(back') = 0
  <2>1. NewList(Count(text')).size \in Nat
    BY <1>5, NewListFits
  <2>2. Count(text') \in Nat
    BY <2>1 DEF NewList
  <2>3. FirstSlots(back', 0) /\ back'.size \in Nat
    BY <1>1, <2>2, NewListIs
  <2>4. QED
    BY <2>3, UsedIs
<1>7. Before(Written(nvl, 0)) = 0
  BY <1>2, WrittenSteps DEF Before
<1>8. str' = SubSeq(text', 1, Len(text'))
  BY <1>1, <1>5, SubSeqFull DEF Text
<1>9. SentPairs'
  BY <1>1 DEF ReadInv, SentPairs
<1>10. ReadSoFar'
  BY <1>1, <1>3, <1>5, <1>6, <1>7, <1>8 DEF ReadSoFar, m
<1>11. QED
  BY <1>9, <1>10

(* If a pair is still to read, it is the next that was put.                 *)
LEMMA NextPairIsRead ==
    ASSUME ReadInv, put # <<>>, doing = "read", Used(back) < Len(put)
    PROVE  LET w == Upto(str, "&")
               p == SubSeq(str, 1, w)
               j == Used(back)
           IN  /\ str # <<>> /\ Upto(p, "=") < Len(p)
               /\ Name(p) = put[j + 1][1] /\ UrlDecode(Value(p)) = put[j + 1][2]
               /\ SubSeq(str, w + 2, Len(str)) =
                    SubSeq(text, Before(Written(nvl, j + 1)) + 1, Len(text))
<1> DEFINE m == Len(put)
           j == Used(back)
           name == put[j + 1][1]
           value == put[j + 1][2]
           v == UrlEncode(value)
           b == Before(Written(nvl, j))
           n == Len(name) + 1 + Len(v)
<1>1. /\ text = Written(nvl, m) /\ str = SubSeq(text, b + 1, Len(text))
  BY DEF ReadInv, ReadSoFar
<1>2. /\ text \in Text /\ put \in Seq(Names \X Values) /\ TextList(nvl) /\ nvl.size \in Nat
      /\ FirstSlots(back, j) /\ FirstSlots(nvl, m) /\ nvl.size = Size
      /\ \A k \in 0 .. m - 1 : nvl.nvp[k] = <<put[k + 1][1], UrlEncode(put[k + 1][2])>>
  BY NvListAssumption DEF ReadInv, NvInv, NvTypes, ReadFits, SentPairs, Lists, TextList
<1>3. m \in Nat /\ m <= nvl.size /\ j \in 0 .. m - 1 /\ m \in 0 .. nvl.size + 1
  BY <1>2, LenProperties DEF FirstSlots
<1> HIDE DEF j, m
<1>4. name \in Names /\ value \in Values
  <2>1. put[j + 1] \in Names \X Values
    <3>1. j + 1 \in 1 .. m
      BY <1>3
    <3>2. QED
      BY <1>2, <3>1, ElementOfSeq DEF m
  <2>2. QED
    BY <2>1
<1>5. name \in Seq(Letter) /\ v \in Seq(Plain) /\ v \in Text /\ UrlDecode(v) = value
  BY <1>4, SentIsText, EncodedIsPlain, DecodesEncoded
<1>6. Len(name) \in Nat /\ Len(v) \in Nat /\ n \in Nat
  <2> HIDE DEF name, v
  <2>1. Len(name) \in Nat /\ Len(v) \in Nat
    BY <1>5, LenProperties
  <2>2. QED
    BY <2>1
<1>7. nvl.nvp[j][1] = name /\ nvl.nvp[j][2] = v
  BY <1>2, <1>3
<1> HIDE DEF name, value, v
<1>8. \A k \in 0 .. m - 1 : nvl.nvp[k] # NoPair
  <2>1. SUFFICES ASSUME NEW k \in 0 .. m - 1 PROVE nvl.nvp[k] # NoPair
    OBVIOUS
  <2>2. k \in Slots(nvl.size) /\ ~(k >= m)
    BY <1>2, <1>3 DEF Slots
  <2>3. QED
    BY <1>2, <2>2 DEF FirstSlots
<1> DEFINE t == Written(nvl, m)
<1>9. /\ b \in Nat /\ PairIsAt(t, b, name, v)
      /\ Before(Written(nvl, j + 1)) = b + n + 1
  <2>1. /\ b \in Nat /\ PairIsAt(t, b, nvl.nvp[j][1], nvl.nvp[j][2])
        /\ Before(Written(nvl, j + 1)) = b + (Len(nvl.nvp[j][1]) + 1 + Len(nvl.nvp[j][2])) + 1
    BY <1>2, <1>3, <1>8, PairIsWritten
  <2> HIDE DEF b, t
  <2>2. QED
    BY <1>7, <2>1
<1>10. t = text
  BY <1>1
<1> HIDE DEF t
<1>11. str = SubSeq(t, b + 1, Len(t))
  BY <1>1, <1>10
<1> HIDE DEF b
<1> DEFINE s == SubSeq(t, b + 1, Len(t))
           w == Upto(s, "&")
           p == SubSeq(s, 1, w)
<1>12. /\ Upto(p, "=") < Len(p) /\ Name(p) = name /\ Value(p) = v
       /\ SubSeq(s, w + 2, Len(s)) = SubSeq(t, b + n + 2, Len(t))
       /\ s # <<>>
  <2>1. t \in Text
    BY <1>2, <1>10
  <2>2. QED
    BY <1>5, <1>9, <2>1, PairIsFound
<1>13. b + n + 2 = (b + n + 1) + 1
  BY <1>6, <1>9
<1> HIDE DEF s, n
<1>14. s = str
  BY <1>11 DEF s
<1>15. QED
  BY <1>5, <1>9, <1>10, <1>12, <1>13, <1>14 DEF j, name, value

(* Only then is something still to read.                                    *)
LEMMA ReadsUpToLast ==
    ASSUME ReadInv, put # <<>>, doing \in {"read", "done"}
    PROVE  /\ Used(back) <= Len(put) /\ Used(back) \in Nat /\ Len(put) \in Nat
           /\ str # <<>> => Used(back) < Len(put)
<1> DEFINE m == Len(put)
           j == Used(back)
<1>1. /\ j <= m /\ text = Written(nvl, m)
      /\ str = SubSeq(text, Before(Written(nvl, j)) + 1, Len(text))
  BY DEF ReadInv, ReadSoFar
<1>2. /\ text \in Text /\ put \in Seq(Names \X Values) /\ TextList(nvl) /\ nvl.size \in Nat
      /\ FirstSlots(back, j) /\ FirstSlots(nvl, m)
  BY NvListAssumption DEF ReadInv, NvInv, NvTypes, ReadFits, SentPairs, Lists, TextList
<1>3. m \in Nat \ {0} /\ j \in Nat
  BY <1>2, EmptySeq, LenProperties DEF FirstSlots
<1>4. ASSUME str # <<>> PROVE j < m
  <2>1. SUFFICES ASSUME j = m PROVE FALSE
    BY <1>1, <1>3
  <2>2. text # <<>>
    <3>1. m \in 0 .. nvl.size + 1 /\ m \in 1 .. m
      BY <1>2, <1>3 DEF FirstSlots
    <3>2. \A k \in 0 .. m - 1 : nvl.nvp[k] # NoPair
      <4>1. \A k \in 0 .. m - 1 : k \in Slots(nvl.size) /\ ~(k >= m)
        BY <1>2, <1>3, <3>1 DEF Slots, FirstSlots
      <4>2. QED
        BY <1>2, <4>1 DEF FirstSlots
    <3>3. QED
      BY <1>1, <1>2, <3>1, <3>2, WrittenInOrder
  <2>3. str = SubSeq(text, Len(text) + 2, Len(text))
    <3>1. Before(text) + 1 = Len(text) + 2
      BY <1>2, <2>2, LenProperties DEF Before, Text
    <3>2. QED
      BY <1>1, <2>1, <3>1
  <2>4. Len(text) < Len(text) + 2 /\ Len(text) + 2 \in Int /\ Len(text) \in Int
    BY <1>2, LenProperties DEF Text
  <2>5. QED
    BY <1>4, <2>3, <2>4, SubSeqEmpty
<1>5. QED
  BY <1>1, <1>3, <1>4

(* What is read is what was put next.                                       *)
LEMMA PairIsReadBack ==
    ASSUME ReadInv, ReadPair
    PROVE  SentPairs' /\ ReadSoFar'
<1>1. doing = "read" /\ str # <<>> /\ UNCHANGED <<nvl, text, doing, put>>
  BY DEF ReadPair
<1>2. SentPairs'
  BY <1>1 DEF ReadInv, SentPairs
<1> DEFINE m == Len(put)
           j == Used(back)
           w == Upto(str, "&")
           p == SubSeq(str, 1, w)
<1>3. CASE put = <<>>
  BY <1>1, <1>2, <1>3 DEF ReadSoFar
<1>4. CASE put # <<>>
  <2>1. j < m /\ m \in Nat /\ j \in Nat
    BY <1>1, <1>4, ReadsUpToLast
  <2>2. /\ Name(p) = put[j + 1][1] /\ UrlDecode(Value(p)) = put[j + 1][2]
        /\ SubSeq(str, w + 2, Len(str)) =
             SubSeq(text, Before(Written(nvl, j + 1)) + 1, Len(text))
    BY <1>1, <1>4, <2>1, NextPairIsRead
  <2>3. /\ str' = SubSeq(str, w + 2, Len(str))
        /\ back'.nvp[j] = <<Name(p), UrlDecode(Value(p))>>
        /\ \A k \in Slots(back.size) : k # j => back'.nvp[k] = back.nvp[k]
        /\ Used(back') = j + 1 /\ j + 1 <= back.size
    BY ReadPairIs DEF ReadInv
  <2>4. /\ back.size \in Nat /\ put \in Seq(Names \X Values)
        /\ \A k \in 0 .. j - 1 : back.nvp[k] = put[k + 1]
        /\ text = Written(nvl, m)
    BY <1>1, <1>4 DEF ReadInv, NvInv, NvTypes, ReadSoFar
  <2> HIDE DEF j, m, w, p
  <2>5. put[j + 1] \in Names \X Values
    <3>1. j + 1 \in 1 .. Len(put)
      BY <2>1 DEF m
    <3>2. QED
      BY <2>4, <3>1, ElementOfSeq
  <2>6. back'.nvp[j] = put[j + 1]
    BY <2>2, <2>3, <2>5
  <2>7. ASSUME NEW k \in 0 .. (j + 1) - 1 PROVE back'.nvp[k] = put[k + 1]
    <3>1. CASE k = j
      BY <2>6, <3>1
    <3>2. CASE k # j
      <4>1. k \in 0 .. j - 1 /\ k \in Slots(back.size)
        BY <2>1, <2>3, <2>4, <3>2 DEF Slots
      <4>2. QED
        BY <2>3, <2>4, <3>2, <4>1
    <3>3. QED
      BY <3>1, <3>2
  <2>8. j + 1 <= m
    BY <2>1
  <2>9. doing' = "read"
    BY <1>1
  <2>10. str' = SubSeq(text, Before(Written(nvl, j + 1)) + 1, Len(text))
    BY <2>2, <2>3
  <2>11. Used(back') = j + 1 /\ Len(put') = m /\ put' = put /\ text' = text /\ nvl' = nvl
    BY <1>1, <2>3 DEF m
  <2>12. ReadSoFar'
    BY <2>4, <2>7, <2>8, <2>9, <2>10, <2>11 DEF ReadSoFar
  <2>13. QED
    BY <1>2, <2>12
<1>5. QED
  BY <1>2, <1>3, <1>4

(* Every step keeps what was put and read.                                  *)
LEMMA ReadNextInv ==
    ASSUME Encodes = TRUE, Indices = {0}
    PROVE  ReadInv /\ [NvNext]_nvVars => ReadInv'
<1> SUFFICES ASSUME ReadInv, [NvNext]_nvVars PROVE SentPairs' /\ ReadSoFar'
  BY NvNextInv DEF ReadInv
<1>1. CASE UNCHANGED nvVars
  BY <1>1 DEF nvVars, ReadInv, SentPairs, ReadSoFar
<1>2. CASE ReadNoPair
  <2>1. /\ doing = "read" /\ str # <<>> /\ Upto(ThisPair, "=") >= Len(ThisPair)
        /\ doing' = "crash" /\ UNCHANGED <<nvl, text, str, back, put>>
    BY <1>2 DEF ReadNoPair
  <2>2. put = <<>>
    <3>1. SUFFICES ASSUME put # <<>> PROVE FALSE
      OBVIOUS
    <3>2. Used(back) < Len(put)
      BY <2>1, <3>1, ReadsUpToLast
    <3> DEFINE p == SubSeq(str, 1, Upto(str, "&"))
               e == Upto(p, "=")
    <3>3. e < Len(p)
      BY <2>1, <3>1, <3>2, NextPairIsRead
    <3>4. p \in Text /\ e \in 0 .. Upto(str, "&") /\ Len(p) = Upto(str, "&") /\ Len(p) \in Nat
      <4>1. str \in Text
        BY DEF ReadInv, NvInv, NvTypes
      <4>2. QED
        BY <4>1, PairIsRead, LenProperties DEF Text
    <3>5. e >= Len(p)
      BY <2>1 DEF ThisPair
    <3> HIDE DEF p, e
    <3>6. QED
      BY <3>3, <3>4, <3>5
  <2>3. QED
    BY <2>1, <2>2 DEF ReadInv, SentPairs, ReadSoFar
<1>3. CASE AllRead
  BY <1>3 DEF AllRead, ReadInv, SentPairs, ReadSoFar
<1>4. QED
  BY <1>1, <1>2, <1>3, InsertIsSent, NothingOfItIsRead, PairIsReadBack DEF NvNext


(* If all is read, every pair that was put is in its slot.                  *)
LEMMA AllIsReadBack ==
    ASSUME ReadInv, put # <<>>, doing = "done"
    PROVE  Used(back) = Len(put) /\ Holds(back, put)
<1> DEFINE m == Len(put)
<1>1. m \in Nat /\ Used(back) = m
  <2>1. /\ m \in Nat /\ Used(back) \in Nat /\ Used(back) <= m
        /\ text = Written(nvl, m) /\ str = <<>>
        /\ str = SubSeq(text, Before(Written(nvl, Used(back))) + 1, Len(text))
    BY ReadsUpToLast DEF ReadInv, ReadSoFar
  <2>2. SUFFICES ASSUME Used(back) < m PROVE FALSE
    BY <2>1
  <2> DEFINE j == Used(back)
             b == Before(Written(nvl, j))
             a == nvl.nvp[j][1]
             v == nvl.nvp[j][2]
  <2>3. /\ text \in Text /\ TextList(nvl) /\ nvl.size \in Nat /\ FirstSlots(nvl, m)
    BY NvListAssumption DEF ReadInv, NvInv, NvTypes, SentPairs, Lists, TextList
  <2>4. j \in 0 .. m - 1 /\ m \in 0 .. nvl.size + 1 /\ m <= nvl.size
    BY <2>1, <2>2, <2>3 DEF FirstSlots
  <2> HIDE DEF m, j
  <2>5. \A k \in 0 .. m - 1 : nvl.nvp[k] # NoPair
    <3>1. \A k \in 0 .. m - 1 : k \in Slots(nvl.size) /\ ~(k >= m)
      BY <2>3, <2>4 DEF Slots
    <3>2. QED
      BY <2>3, <3>1 DEF FirstSlots
  <2>6. b \in Nat /\ PairIsAt(text, b, a, v)
    BY <2>1, <2>3, <2>4, <2>5, PairIsWritten
  <2>7. nvl.nvp[j] \in Text \X Text
    BY <2>3, <2>4, <2>5, WrittenInOrder
  <2>8. Len(a) \in Nat /\ Len(v) \in Nat /\ Len(text) \in Nat
    BY <2>3, <2>7, LenProperties DEF Text
  <2> HIDE DEF a, v, b
  <2>9. b + 1 <= Len(text)
    BY <2>6, <2>8 DEF PairIsAt
  <2>10. b + 1 \in 1 .. Len(text) + 1
    BY <2>6, <2>8, <2>9
  <2>11. Len(SubSeq(text, b + 1, Len(text))) = Len(text) + 1 - (b + 1)
    BY <2>3, <2>10, RestOfText
  <2>12. Len(<<>>) = Len(text) + 1 - (b + 1)
    BY <2>1, <2>11 DEF b, j
  <2>13. QED
    BY <2>6, <2>8, <2>9, <2>12, Delimiters
<1>2. /\ \A k \in 0 .. m - 1 : back.nvp[k] = put[k + 1]
      /\ FirstSlots(back, m) /\ DOMAIN back.nvp = Slots(back.size)
  BY <1>1 DEF ReadInv, NvInv, NvTypes, ReadFits, ReadSoFar, Lists
<1>3. ASSUME NEW k \in DOMAIN back.nvp
      PROVE  back.nvp[k] = IF k < m THEN put[k + 1] ELSE NoPair
  <2>1. k \in Nat /\ k \in Slots(back.size)
    BY <1>2 DEF Slots
  <2>2. CASE k < m
    <3>1. k \in 0 .. m - 1
      BY <1>1, <2>1, <2>2
    <3>2. QED
      BY <1>2, <2>2, <3>1
  <2>3. CASE ~(k < m)
    <3>1. k >= m
      BY <1>1, <2>1, <2>3
    <3>2. QED
      BY <1>2, <2>1, <2>3, <3>1 DEF FirstSlots
  <2>4. QED
    BY <2>2, <2>3
<1>4. QED
  BY <1>1, <1>3 DEF Holds

(* Whatever pairs are put into a list, if values are encoded: they are read *)
(* back from its string in their order, and nv_hash finds the first of a    *)
(* name.  Callers let nv_list_insert look for the slot.                     *)
THEOREM ListsReadBack ==
    ASSUME Encodes = TRUE, Indices = {0}
    PROVE  NvSpec => []ReadsBack
<1>1. ReadInv => ReadsBack
  <2>1. SUFFICES ASSUME ReadInv PROVE ReadsBack
    OBVIOUS
  <2>2. NvTypeOK
    <3>1. /\ nvl \in Lists(Text \X Text, Size) /\ back \in Lists(Text \X ReadText, back.size)
          /\ doing \in {"insert", "read", "crash", "done"} /\ text \in Text
      BY <2>1 DEF ReadInv, NvInv, NvTypes
    <3>2. ListOK(nvl)
      BY <3>1 DEF Lists, ListOK
    <3>3. ListOK(back)
      BY <3>1 DEF Lists, ListOK
    <3>4. \A k \in DOMAIN text : text[k] \in Char
      BY <3>1, ElementOfSeq, LenProperties DEF Text
    <3>5. QED
      BY <3>1, <3>2, <3>3, <3>4 DEF NvTypeOK
  <2>3. PairsReadBack
    BY <2>1, AllIsReadBack DEF PairsReadBack, ReadInv, ReadSoFar
  <2>4. FindsFirst
    <3>1. SUFFICES ASSUME doing = "done", put # <<>>, NEW name \in Names
          PROVE  LET of == SelectInSeq(put, LAMBDA pair : pair[1] = name)
                 IN  NvHash(back, name) = IF of = 0 THEN NoPair ELSE <<put[of][2]>>
      BY DEF FindsFirst
    <3> DEFINE m == Len(put)
               places == {k \in 1 .. Len(put) : put[k][1] = name}
               found == {k \in 0 .. back.size - 1 :
                           back.nvp[k] # NoPair /\ back.nvp[k][1] = name}
               of == IF places # {} THEN Min(places) ELSE 0
    <3>2. SelectInSeq(put, LAMBDA pair : pair[1] = name) = of
      BY DEF SelectInSeq
    <3>3. NvHash(back, name) = IF found = {} THEN NoPair ELSE <<back.nvp[Min(found)][2]>>
      BY DEF NvHash
    <3>4. /\ m \in Nat /\ m <= back.size /\ back.size \in Nat
          /\ \A k \in 0 .. m - 1 : back.nvp[k] = put[k + 1] /\ back.nvp[k] # NoPair
          /\ \A k \in Slots(back.size) : k >= m => back.nvp[k] = NoPair
      <4>1. /\ Used(back) = m /\ FirstSlots(back, m) /\ back.size \in Nat
            /\ \A k \in 0 .. m - 1 : back.nvp[k] = put[k + 1]
        BY <2>1, <3>1, AllIsReadBack DEF ReadInv, NvInv, NvTypes, ReadFits, ReadSoFar
      <4>2. m \in Nat /\ m <= back.size
        BY <4>1 DEF FirstSlots
      <4>3. \A k \in 0 .. m - 1 : k \in Slots(back.size) /\ ~(k >= m)
        BY <4>1, <4>2 DEF Slots
      <4>4. QED
        BY <4>1, <4>2, <4>3 DEF FirstSlots
    <3> HIDE DEF m
    <3>5. \A k \in 0 .. back.size - 1 : k \in Slots(back.size) /\ (k < m => k \in 0 .. m - 1)
      BY <3>4 DEF Slots
    <3>6. \A k \in found : k \in Nat /\ k + 1 \in places /\ back.nvp[k] = put[k + 1]
      <4>1. SUFFICES ASSUME NEW k \in found
            PROVE  k \in Nat /\ k + 1 \in places /\ back.nvp[k] = put[k + 1]
        OBVIOUS
      <4>2. k \in 0 .. back.size - 1 /\ back.nvp[k] # NoPair /\ back.nvp[k][1] = name
        OBVIOUS
      <4>3. k \in 0 .. m - 1
        BY <3>4, <3>5, <4>2
      <4>4. k \in Nat /\ k + 1 \in 1 .. m
        BY <3>4, <4>3
      <4>5. QED
        BY <3>4, <4>2, <4>3, <4>4 DEF m
    <3>7. \A k \in places : k \in Nat /\ k - 1 \in found
      <4>1. SUFFICES ASSUME NEW k \in places PROVE k \in Nat /\ k - 1 \in found
        OBVIOUS
      <4>2. k \in 1 .. m /\ put[k][1] = name
        BY DEF m
      <4>3. k - 1 \in 0 .. m - 1 /\ (k - 1) + 1 = k /\ k - 1 \in 0 .. back.size - 1 /\ k \in Nat
        BY <3>4, <4>2
      <4>4. QED
        BY <3>4, <4>2, <4>3
    <3>8. CASE places = {}
      BY <3>2, <3>3, <3>6, <3>8
    <3>9. CASE places # {}
      <4> HIDE DEF places, found
      <4>1. places \in SUBSET Nat /\ found \in SUBSET Nat /\ found # {}
        BY <3>6, <3>7, <3>9
      <4> DEFINE a == Min(found)
                 b == Min(places)
      <4>2. a \in found /\ (\A k \in found : a <= k) /\ b \in places /\ \A k \in places : b <= k
        BY <3>9, <4>1, FirstPlace
      <4> HIDE DEF a, b
      <4>3. a + 1 = b
        <5>1. a + 1 \in places /\ b - 1 \in found /\ a \in Nat /\ b \in Nat
          BY <3>6, <3>7, <4>2
        <5>2. b <= a + 1 /\ a <= b - 1
          BY <4>2, <5>1
        <5>3. QED
          BY <5>1, <5>2
      <4>4. back.nvp[a] = put[b] /\ b # 0
        <5>1. 0 \notin places
          BY DEF places
        <5>2. QED
          BY <3>6, <4>2, <4>3, <5>1
      <4>5. NvHash(back, name) = <<put[b][2]>>
        BY <3>3, <4>1, <4>4 DEF a
      <4>6. of = b
        BY <3>9 DEF b
      <4>7. QED
        BY <3>2, <4>4, <4>5, <4>6
    <3>10. QED
      BY <3>8, <3>9
  <2>5. QED
    BY <2>2, <2>3, <2>4 DEF ReadsBack
<1>2. ReadInv /\ [NvNext]_nvVars => ReadInv'
  BY ReadNextInv
<1>3. QED
  BY <1>1, <1>2, NothingIsRead, PTL DEF NvSpec

=============================================================================
