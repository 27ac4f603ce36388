------------------------------- MODULE NvList -------------------------------
(***************************************************************************)
(* Lists of names and values (lib/nv_pair.c), as the bodies of messages:   *)
(* a list is filled, turned into a string, and read from one; values are   *)
(* encoded (urlencode.c) before and decoded (urldecode.c) after.           *)
(*                                                                         *)
(* A string is a sequence of characters.  Of those that are no letters,    *)
(* "&", "=" and "%" are looked at; Hex gives the digits they are encoded   *)
(* as, which are letters like others.                                      *)
(***************************************************************************)
EXTENDS Integers, Sequences, SequencesExt, FiniteSetsExt

CONSTANTS
    Letter,     \* characters that are safe in a URL
    Hex,        \* the two digits of "&", "=" and "%"
    Names,      \* names
    Values,     \* values, before they are encoded
    Encodes,    \* whether they are
    Bodies,     \* other strings that are read
    Size,       \* the size of the list
    Indices     \* the indices given to nv_list_insert

Special == {"&", "=", "%"}
Char == Letter \cup Special

ASSUME NvListAssumption ==
    /\ Letter \cap Special = {} /\ Hex \in [Special -> Letter \X Letter]
    /\ \A c, d \in Special : Hex[c] = Hex[d] => c = d
    /\ Names \subseteq Seq(Letter) /\ Values \subseteq Seq(Char)
    /\ Bodies \subseteq Seq(Char) /\ Encodes \in BOOLEAN
    /\ Size \in Nat \ {0} /\ Indices \subseteq 0 .. Size

VARIABLES
    nvl,        \* the list that is sent
    text,       \* its string
    str,        \* what nv_urlstring_to_list has not read yet
    back,       \* the list it makes
    doing,      \* what is done next
    put         \* history: the pairs that were put into nvl, in order

nvVars == <<nvl, text, str, back, doing, put>>

NoPair == <<>>    \* no nv_pair

\* nv_list_init: one slot more than the size.
Slots(size) == 0 .. size
NewList(size) ==
    [nvp |-> [k \in Slots(size) |-> NoPair], size |-> size, data_size |-> 0, last |-> 0]

-----------------------------------------------------------------------------
(* urlencode_common and urldecode_common.                                  *)

Encoded(c) == IF c \in Special THEN <<"%", Hex[c][1], Hex[c][2]>> ELSE <<c>>
UrlEncode(s) == FlattenSeq([k \in DOMAIN s |-> Encoded(s[k])])

\* What is read from s at k: after a "%" two digits.  What they stand for if they
\* are none is left open; that a "%" near the end of s makes the code read behind it
\* is left out.
Other == "?"
Decoded(s, k) ==
    IF s[k] # "%" THEN s[k]
    ELSE LET is == {c \in Special : k + 2 <= Len(s) /\ Hex[c] = <<s[k + 1], s[k + 2]>>}
         IN  IF is = {} THEN Other ELSE CHOOSE c \in is : TRUE

\* Mutant: the digits are read again.
UrlDecodeTwice(s) == [k \in DOMAIN s |-> Decoded(s, k)]

UrlDecode(s) ==
    LET read[k \in 0 .. Len(s)] ==
            IF k = 0 THEN [to |-> <<>>, next |-> 1]
            ELSE IF k < read[k - 1].next THEN read[k - 1]
            ELSE [to |-> Append(read[k - 1].to, Decoded(s, k)),
                  next |-> k + (IF s[k] = "%" THEN 3 ELSE 1)]
    IN  read[Len(s)].to

-----------------------------------------------------------------------------
(* nv_list_insert.                                                         *)

\* The first free slot from where the search begins.
FreeSlot(list, i) ==
    LET start == IF i = 0 /\ list.last # 0 THEN list.last + 1 ELSE i
        free == {k \in DOMAIN list.nvp : k >= start /\ list.nvp[k] = NoPair}
    IN  IF free = {} THEN list.size + 1 ELSE Min(free)

\* No list of the program is filled beyond its last slot.
Insert(list, name, value, i) ==
    LET k == FreeSlot(list, i)
    IN  [list EXCEPT !.nvp[k] = <<name, value>>,
                     !.data_size = @ + Len(name) + Len(value),
                     !.last = k]

\* Values that are put into a message.
Sent(value) == IF Encodes THEN UrlEncode(value) ELSE value

\* Mutant: the pair behind the last "&" is not counted.
CountAmpersands(s) == Cardinality({k \in DOMAIN s : k > 1 /\ s[k] = "&"})

\* nv_urlstring_to_list counts the "&", but not one at the beginning.
Count(s) == 1 + Cardinality({k \in DOMAIN s : k > 1 /\ s[k] = "&"})

\* A list is filled, or a message has come.
NvInit ==
    /\ nvl = NewList(Size) /\ text = <<>> /\ put = <<>>
    /\ \/ doing = "insert" /\ str = <<>>
       \/ doing = "read" /\ str \in Bodies
    /\ back = NewList(Count(str))

NvListInsert ==
    /\ doing = "insert" /\ Len(put) < Size
    /\ \E name \in Names, value \in Values, i \in Indices :
         /\ FreeSlot(nvl, i) <= Size
         /\ nvl' = Insert(nvl, name, Sent(value), i)
         /\ put' = Append(put, <<name, value>>)
    /\ UNCHANGED <<text, str, back, doing>>

-----------------------------------------------------------------------------
(* nv_list_to_string.                                                      *)

\* "&" goes in front of every pair but the first.
Strcat(ret, pair) ==
    ret \o (IF ret = <<>> THEN <<>> ELSE <<"&">>) \o pair[1] \o <<"=">> \o pair[2]

\* What is written after k slots.
Written(list, k) ==
    LET ret[j \in 0 .. list.size + 1] ==
            IF j = 0 THEN <<>>
            ELSE IF list.nvp[j - 1] = NoPair THEN ret[j - 1]
            ELSE Strcat(ret[j - 1], list.nvp[j - 1])
    IN  ret[k]

AsString(list) == Written(list, list.last + 1)

NvListToString ==
    /\ doing = "insert" /\ put # <<>>
    /\ text' = AsString(nvl) /\ str' = text'
    /\ back' = NewList(Count(text'))
    /\ doing' = "read"
    /\ UNCHANGED <<nvl, put>>

-----------------------------------------------------------------------------
(* nv_urlstring_to_list.                                                   *)

Upto(s, c) == IF \E k \in DOMAIN s : s[k] = c THEN SelectInSeq(s, LAMBDA x : x = c) - 1
              ELSE Len(s)
ThisPair == SubSeq(str, 1, Upto(str, "&"))
Name(pair) == SubSeq(pair, 1, Upto(pair, "="))

Value(pair) == SubSeq(pair, Upto(pair, "=") + 2, Len(pair))

ReadPair ==
    /\ doing = "read" /\ str # <<>>
    /\ Upto(ThisPair, "=") < Len(ThisPair)
    /\ back' = Insert(back, Name(ThisPair), UrlDecode(Value(ThisPair)), 0)
    /\ str' = SubSeq(str, Len(ThisPair) + 2, Len(str))
    /\ UNCHANGED <<nvl, text, doing, put>>

\* There is no "=": v is NULL, and one behind it.
ReadNoPair ==
    /\ doing = "read" /\ str # <<>>
    /\ Upto(ThisPair, "=") >= Len(ThisPair)
    /\ doing' = "crash"
    /\ UNCHANGED <<nvl, text, str, back, put>>

AllRead ==
    /\ doing = "read" /\ str = <<>> /\ doing' = "done"
    /\ UNCHANGED <<nvl, text, str, back, put>>

NvNext == NvListInsert \/ NvListToString \/ ReadPair \/ ReadNoPair \/ AllRead

NvSpec == NvInit /\ [][NvNext]_nvVars

\* nv_hash: the value of the first pair with the name, NULL without one.
NvHash(list, name) ==
    LET found == {k \in 0 .. list.size - 1 : list.nvp[k] # NoPair /\ list.nvp[k][1] = name}
    IN  IF found = {} THEN NoPair ELSE <<list.nvp[Min(found)][2]>>

-----------------------------------------------------------------------------
(* Properties.                                                             *)

ListOK(list) ==
    /\ DOMAIN list.nvp = Slots(list.size)
    /\ list.last \in Slots(list.size)
    /\ \A k \in DOMAIN list.nvp : list.nvp[k] = NoPair \/ Len(list.nvp[k]) = 2

\* Every variable is in its domain.
NvTypeOK ==
    /\ ListOK(nvl) /\ ListOK(back)
    /\ doing \in {"insert", "read", "crash", "done"}
    /\ \A k \in DOMAIN text : text[k] \in Char

\* These pairs are in the list's first slots, and no others.
Holds(list, pairs) ==
    \A k \in DOMAIN list.nvp :
        list.nvp[k] = IF k < Len(pairs) THEN pairs[k + 1] ELSE NoPair

\* What is read from the string is what was put into the list, pair by pair and
\* character by character, if values were encoded and names need no encoding.
PairsReadBack ==
    put # <<>> =>
    /\ doing # "crash"
    /\ doing = "done" => Holds(back, put)

\* The string with its NUL fits the buffer nv_list_to_string makes for it.
FitsItsBuffer == text # <<>> => Len(text) + 1 <= nvl.data_size + 3 * nvl.size

\* nv_hash finds the first value that was put under a name, in the list that was
\* read, though it does not look at the last slot.
FindsFirst ==
    doing = "done" /\ put # <<>> =>
        \A name \in Names :
            LET of == SelectInSeq(put, LAMBDA pair : pair[1] = name)
            IN  NvHash(back, name) = IF of = 0 THEN NoPair ELSE <<put[of][2]>>

\* Whatever string is read, the list has room for its pairs, and none is in the
\* slot that nv_hash does not look at.
ReadFitsTheList == \A k \in DOMAIN back.nvp : back.nvp[k] # NoPair => k < back.size

\* What is read from a list's string was put into it, and nv_hash finds the first
\* value put under a name (nv_urlstring_to_list).
ReadsBack == NvTypeOK /\ PairsReadBack /\ FindsFirst

\* A list's string fits the buffer made for it, and a list that is read has room
\* for its pairs, whatever the string (nv_list_to_string, nv_urlstring_to_list).
FitsItsBuffers == FitsItsBuffer /\ ReadFitsTheList

-----------------------------------------------------------------------------
(* What the documents say, and the code does not do.                       *)

\* "handles arrays of arbitrary name=value pairs (must be text)" (nv_pair.h:10)
ArbitraryPairs == doing = "done" => Holds(back, put)

\* "Turns a name/value-pair list (*nvl) into a string." (nv_pair.c:81): every
\* pair of the list is in it.
EveryPairIsWritten == text # <<>> => text = Written(nvl, nvl.size + 1)

\* "our new string is at _most_ 3 times longer" (urlencode.c:64): with its NUL it
\* fits a buffer of that size.
EncodedFits ==
    \A k \in DOMAIN put : Len(UrlEncode(put[k][2])) + 1 <= 3 * Len(put[k][2])

=============================================================================
