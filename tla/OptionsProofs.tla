--------------------------- MODULE OptionsProofs ---------------------------
(***************************************************************************)
(* For any table of options with the defaults that the program has, any    *)
(* command line, any configuration file and any number of times it is read *)
(* again: what the command line says holds as long as the probe runs, for  *)
(* the other options the first line on them in the first file does, and a  *)
(* limit from the command line keeps the probe from being kept alive.      *)
(*                                                                         *)
(* And for every length of the table and in either build: a look-up finds  *)
(* the option it is asked for from wherever earlier ones, or the signal    *)
(* handler, left the static index.  Only a look-up that works on the index *)
(* in memory and is itself interrupted may miss or leave the table.        *)
(***************************************************************************)
EXTENDS Options, OptionLookup, SequenceTheorems, TLAPS

Values == [Opts -> Nat \cup {Null}]

AllPlaces == {"argv", "config", "started", "running", "hup", "exited"}

ConfigType ==
    /\ argv \in Argvs /\ arg \in 1 .. Len(argv) + 1
    /\ value \in Values /\ given \in Values /\ first \in Values
    /\ parsed_yet \in BOOLEAN /\ place \in AllPlaces
    /\ file \in Seq(Line) /\ Len(file) <= MaxLines

(* While the command line is read nothing else sets an option.              *)
BeforeFile == place = "argv" => value = given /\ first = [o \in Opts |-> Null]

(* The two promises hold at every step between the command line and the end *)
(* of the program, in the middle of a file too.                             *)
Settled ==
    place \notin {"argv", "exited"} =>
        \A o \in Opts :
            /\ Sane(given)[o] # Null => value[o] = Sane(given)[o]
            /\ Sane(given)[o] = Null =>
                   value[o] = first[o] \/ (o = "log-method" /\ value[o] = StdOut)

OptionsInv == ConfigType /\ BeforeFile /\ Settled

-----------------------------------------------------------------------------
(* The options that are looked at by name are there.                        *)
LEMMA NamedOptions ==
    ASSUME OptionsAssumption
    PROVE  /\ {"interval", "limit-runs", "keepalive", "log-method"} \subseteq Opts
           /\ Default \in [Opts -> Nat] /\ Default["keepalive"] # 0
           /\ Argvs \subseteq Seq(Arg) /\ Lines \subseteq Line /\ MaxLines \in Nat
           /\ \A l \in Lines : l.is = "option" => l.opt \in Opts
<1>1. \A l \in Lines : l.is = "option" => l.opt \in Opts
  BY DEF OptionsAssumption, Line
<1>2. QED
  BY <1>1 DEF OptionsAssumption, Opts

(* The checks after the command line give values, and a limit turns         *)
(* keepalive off, which is on if nobody says otherwise.                     *)
LEMMA SaneValues ==
    ASSUME OptionsAssumption, NEW val \in Values
    PROVE  /\ Sane(val) \in Values
           /\ val["limit-runs"] \notin {Null, 0} => Sane(val)["keepalive"] = 0
<1> DEFINE int == IF Read(val, "interval") < 15 THEN [val EXCEPT !["interval"] = 15] ELSE val
           both == Read(int, "limit-runs") # 0 /\ Read(int, "keepalive") # 0
<1>1. Sane(val) = IF both THEN [int EXCEPT !["keepalive"] = 0] ELSE int
  BY DEF Sane
<1>2. int \in Values /\ int["limit-runs"] = val["limit-runs"]
  BY NamedOptions DEF Values
<1> HIDE DEF int
<1>3. Sane(val) \in Values
  <2>1. [int EXCEPT !["keepalive"] = 0] \in Values
    BY <1>2 DEF Values
  <2> HIDE DEF both
  <2>2. QED
    BY <1>1, <1>2, <2>1
<1>4. ASSUME val["limit-runs"] \notin {Null, 0} PROVE Sane(val)["keepalive"] = 0
  <2>1. Read(int, "limit-runs") # 0
    BY <1>2, <1>4 DEF Read
  <2>2. CASE Read(int, "keepalive") # 0
    BY <1>1, <1>2, <2>1, <2>2, NamedOptions DEF Values
  <2>3. CASE Read(int, "keepalive") = 0
    <3>1. int["keepalive"] = 0
      BY <2>3, NamedOptions DEF Read
    <3>2. QED
      BY <1>1, <2>3, <3>1
  <2>4. QED
    BY <2>2, <2>3
<1>5. QED
  BY <1>3, <1>4

(* Nothing is set before the command line is read.                          *)
LEMMA NothingSetYet == OptionsAssumption /\ OptionsInit => OptionsInv
<1> SUFFICES ASSUME OptionsAssumption, OptionsInit PROVE OptionsInv
  OBVIOUS
<1>1. Len(argv) \in Nat
  BY NamedOptions, LenProperties DEF OptionsInit
<1>2. file \in Seq(Line) /\ Len(file) = 0
  BY DEF OptionsInit
<1>3. argv \in Argvs /\ arg = 1 /\ arg \in 1 .. Len(argv) + 1
  BY <1>1 DEF OptionsInit
<1>4. value \in Values /\ given \in Values /\ first \in Values
  BY DEF OptionsInit, Values
<1>5. parsed_yet \in BOOLEAN /\ place \in AllPlaces
  BY DEF OptionsInit, AllPlaces
<1>6. ConfigType
  BY <1>2, <1>3, <1>4, <1>5, NamedOptions DEF ConfigType
<1>7. QED
  BY <1>6 DEF OptionsInit, OptionsInv, BeforeFile, Settled

-----------------------------------------------------------------------------
(* A word of the command line sets an option, or is passed over.            *)
LEMMA GiveOptKeeps ==
    ASSUME OptionsAssumption, OptionsInv, place = "argv",
           NEW o \in Opts, NEW v \in Nat, NEW words \in {1, 2}, arg + words <= Len(argv) + 1,
           GiveOpt(o, v, words)
    PROVE  OptionsInv'
<1>1. /\ value' = [value EXCEPT ![o] = v] /\ given' = [given EXCEPT ![o] = v]
      /\ arg' = arg + words /\ UNCHANGED <<argv, parsed_yet, file, place, first>>
  BY DEF GiveOpt
<1>2. Len(argv) \in Nat /\ arg' \in 1 .. Len(argv) + 1
  BY <1>1, NamedOptions, LenProperties DEF OptionsInv, ConfigType
<1>3. value' \in Values /\ given' \in Values
  BY <1>1 DEF OptionsInv, ConfigType, Values
<1>4. QED
  BY <1>1, <1>2, <1>3 DEF OptionsInv, ConfigType, BeforeFile, Settled

(* All that parse_options does with a word.                                 *)
LEMMA WordKeeps ==
    ASSUME OptionsAssumption, OptionsInv,
           StringOption \/ NumberOption \/ JoinedOption \/ UnknownOption \/ StrayWord
    PROVE  OptionsInv'
<1>1. place = "argv" /\ arg <= Len(argv)
  BY DEF StringOption, NumberOption, JoinedOption, UnknownOption, StrayWord
<1>2. argv \in Seq(Arg) /\ Len(argv) \in Nat /\ arg \in 1 .. Len(argv)
  BY <1>1, NamedOptions, LenProperties DEF OptionsInv, ConfigType
<1>3. \A k \in 1 .. Len(argv) : argv[k] \in Arg
  BY <1>2, ElementOfSeq
<1>4. Here.v \in Nat
  BY <1>2, <1>3 DEF Here, Arg
<1>5. ~AtLast => arg + 1 \in 1 .. Len(argv)
  BY <1>2 DEF AtLast
<1>6. ~AtLast => Following.v \in Nat /\ TextOf(Following) \in Nat /\ arg + 2 <= Len(argv) + 1
  BY <1>2, <1>3, <1>5 DEF Following, Arg, TextOf, AnOption
<1>7. arg + 1 <= Len(argv) + 1
  BY <1>2
<1>8. StrOpts \subseteq Opts /\ IntOpts \subseteq Opts
  BY DEF Opts
<1>9. ASSUME Exit, UNCHANGED <<argv, arg, value, parsed_yet, file, given, first>> PROVE OptionsInv'
  BY <1>9 DEF Exit, OptionsInv, ConfigType, BeforeFile, Settled, AllPlaces
<1>10. CASE StringOption
  BY <1>1, <1>6, <1>8, <1>9, <1>10, GiveOptKeeps DEF StringOption
<1>11. CASE NumberOption
  BY <1>1, <1>6, <1>7, <1>8, <1>11, GiveOptKeeps DEF NumberOption
<1>12. CASE JoinedOption
  BY <1>1, <1>4, <1>7, <1>12, GiveOptKeeps DEF JoinedOption
<1>13. CASE UnknownOption
  BY <1>2, <1>13 DEF UnknownOption, OptionsInv, ConfigType, BeforeFile, Settled
<1>14. CASE StrayWord
  BY <1>9, <1>14 DEF StrayWord
<1>15. QED
  BY <1>10, <1>11, <1>12, <1>13, <1>14

(* The end of parse_options settles what the command line says.             *)
LEMMA CommandLineReadKeeps ==
    ASSUME OptionsAssumption, OptionsInv, CommandLineRead
    PROVE  OptionsInv'
<1>1. /\ place = "argv" /\ value' = Sane(value) /\ place' = "config"
      /\ UNCHANGED <<argv, arg, parsed_yet, file, given, first>>
  BY DEF CommandLineRead
<1>2. value = given /\ first = [o \in Opts |-> Null] /\ value \in Values
  BY <1>1 DEF OptionsInv, BeforeFile, ConfigType
<1>3. value' \in Values /\ value' = Sane(given')
  BY <1>1, <1>2, SaneValues
<1>4. Settled'
  BY <1>1, <1>2, <1>3 DEF Settled
<1>5. QED
  BY <1>1, <1>3, <1>4 DEF OptionsInv, ConfigType, BeforeFile, AllPlaces

(* A line sets what nobody has set, in the first file.                      *)
LEMMA ReadLineKeeps ==
    ASSUME OptionsAssumption, OptionsInv, ReadLine
    PROVE  OptionsInv'
<1>1. PICK l \in Lines :
        /\ l.is = "option" /\ file' = Append(file, l) /\ value' = FromFile(l.opt, l.v)
        /\ first' = IF parsed_yet \/ first[l.opt] # Null THEN first
                    ELSE [first EXCEPT ![l.opt] = l.v]
  BY DEF ReadLine
<1>2. /\ place \in {"config", "hup"} /\ Len(file) < MaxLines
      /\ UNCHANGED <<argv, arg, parsed_yet, place, given>>
  BY DEF ReadLine, Reading
<1>3. l \in Line /\ l.opt \in Opts /\ l.v \in Nat
  BY <1>1, NamedOptions DEF Line
<1>4. file' \in Seq(Line) /\ Len(file') <= MaxLines
  <2>1. file' \in Seq(Line) /\ Len(file') = Len(file) + 1 /\ Len(file) \in Nat
    BY <1>1, <1>3, AppendProperties, LenProperties DEF OptionsInv, ConfigType
  <2>2. QED
    BY <1>2, <2>1, NamedOptions
<1>5. value' \in Values /\ first' \in Values
  BY <1>1, <1>3 DEF FromFile, OptionsInv, ConfigType, Values
<1>6. /\ \A o \in Opts \ {l.opt} : value'[o] = value[o] /\ first'[o] = first[o]
      /\ value'[l.opt] = IF value[l.opt] = Null /\ ~parsed_yet THEN l.v ELSE value[l.opt]
      /\ first'[l.opt] = IF parsed_yet \/ first[l.opt] # Null THEN first[l.opt] ELSE l.v
  BY <1>1, <1>3 DEF FromFile, OptionsInv, ConfigType, Values
<1>7. Settled'
  <2> SUFFICES ASSUME NEW o \in Opts
               PROVE  /\ Sane(given)[o] # Null => value'[o] = Sane(given)[o]
                      /\ Sane(given)[o] = Null =>
                           value'[o] = first'[o] \/ (o = "log-method" /\ value'[o] = StdOut)
    BY <1>2 DEF Settled
  <2>1. /\ Sane(given)[o] # Null => value[o] = Sane(given)[o]
        /\ Sane(given)[o] = Null =>
               value[o] = first[o] \/ (o = "log-method" /\ value[o] = StdOut)
    BY <1>2 DEF OptionsInv, Settled
  <2>2. QED
    BY <1>6, <2>1 DEF StdOut, Null
<1>8. QED
  BY <1>2, <1>4, <1>5, <1>7 DEF OptionsInv, ConfigType, BeforeFile

(* The other steps of reading a file, and what the program does between.    *)
LEMMA FileKeeps ==
    ASSUME OptionsAssumption, OptionsInv,
           BadLine \/ EndOfConfig \/ NoConfigFile \/ MaybeDaemonize \/ HupRereads
    PROVE  OptionsInv'
<1>1. CASE BadLine
  <2>1. PICK l \in Lines : file' = Append(file, l)
    BY <1>1 DEF BadLine
  <2>2. l \in Line /\ Len(file) < MaxLines
    BY <1>1, NamedOptions DEF BadLine
  <2>3. file' \in Seq(Line) /\ Len(file') = Len(file) + 1 /\ Len(file) \in Nat
    BY <2>1, <2>2, AppendProperties, LenProperties DEF OptionsInv, ConfigType
  <2>4. Len(file') <= MaxLines
    BY <2>2, <2>3, NamedOptions
  <2>5. QED
    BY <1>1, <2>3, <2>4 DEF BadLine, Reading, OptionsInv, ConfigType, BeforeFile, Settled, AllPlaces
<1>2. CASE EndOfConfig \/ NoConfigFile
  BY <1>2 DEF EndOfConfig, NoConfigFile, Reading, After, OptionsInv, ConfigType, BeforeFile,
              Settled, AllPlaces
<1>3. CASE MaybeDaemonize
  <2>1. /\ place = "started" /\ place' = "running"
        /\ UNCHANGED <<argv, arg, parsed_yet, file, given, first>>
    BY <1>3 DEF MaybeDaemonize
  <2>2. CASE UNCHANGED value
    BY <2>1, <2>2 DEF OptionsInv, ConfigType, BeforeFile, Settled, AllPlaces
  <2>3. CASE value["log-method"] = Null /\ value' = [value EXCEPT !["log-method"] = StdOut]
    <3>1. value' \in Values
      BY <2>3 DEF OptionsInv, ConfigType, Values, StdOut
    <3>2. /\ value'["log-method"] = StdOut
          /\ \A o \in Opts \ {"log-method"} : value'[o] = value[o]
      BY <2>3, NamedOptions DEF OptionsInv, ConfigType, Values
    <3>3. Settled'
      BY <2>1, <2>3, <3>2 DEF OptionsInv, Settled
    <3>4. QED
      BY <2>1, <3>1, <3>3 DEF OptionsInv, ConfigType, BeforeFile, AllPlaces
  <2>4. QED
    BY <1>3, <2>2, <2>3 DEF MaybeDaemonize
<1>4. CASE HupRereads
  <2>1. file' \in Seq(Line) /\ Len(file') = 0
    BY <1>4 DEF HupRereads
  <2>2. QED
    BY <1>4, <2>1, NamedOptions
    DEF HupRereads, OptionsInv, ConfigType, BeforeFile, Settled, AllPlaces
<1>5. QED
  BY <1>1, <1>2, <1>3, <1>4

-----------------------------------------------------------------------------
(* At every step the options are the command line's, or the first file's.   *)
THEOREM OptionsInvariant ==
    ASSUME OptionsAssumption PROVE OptionsSpec => []OptionsInv
<1>1. OptionsInv /\ [OptionsNext]_optionVars => OptionsInv'
  <2> SUFFICES ASSUME OptionsInv, [OptionsNext]_optionVars PROVE OptionsInv'
    OBVIOUS
  <2>1. CASE UNCHANGED optionVars
    BY <2>1 DEF optionVars, OptionsInv, ConfigType, BeforeFile, Settled
  <2>2. CASE OptionsNext
    BY <2>2, WordKeeps, CommandLineReadKeeps, ReadLineKeeps, FileKeeps DEF OptionsNext
  <2>3. QED
    BY <2>1, <2>2
<1>2. QED
  BY <1>1, NothingSetYet, PTL DEF OptionsSpec

(* What the command line says, after the checks made of it, holds as long   *)
(* as the probe runs, otherwise the first line on an option in the first    *)
(* file does, and with a limit the probe is not kept alive (parse_options,  *)
(* parse_line, catch_hup: FirstSettingHolds).                               *)
THEOREM OptionsFirstSettingHolds ==
    ASSUME OptionsAssumption PROVE OptionsSpec => []FirstSettingHolds
<1>1. OptionsInv => OptionsTypeOK
  BY DEF OptionsInv, ConfigType, OptionsTypeOK, Values, AllPlaces
<1>2. OptionsInv => CommandLineHolds /\ FirstLineHolds
  BY DEF OptionsInv, Settled, CommandLineHolds, FirstLineHolds
<1>3. OptionsInv => LimitIsNotKeptAlive
  <2> SUFFICES ASSUME OptionsInv, place = "running", given["limit-runs"] \notin {Null, 0}
               PROVE  Read(value, "keepalive") = 0
    BY DEF LimitIsNotKeptAlive
  <2>1. Sane(given)["keepalive"] = 0
    BY SaneValues DEF OptionsInv, ConfigType
  <2>2. value["keepalive"] = 0
    BY <2>1, NamedOptions DEF OptionsInv, Settled, Null
  <2>3. QED
    BY <2>2 DEF Read, Null
<1>4. QED
  BY <1>1, <1>2, <1>3, OptionsInvariant, PTL DEF FirstSettingHolds

-----------------------------------------------------------------------------
(* Looking an option up.                                                    *)
(* No signal has touched the index of the look-up that goes on.             *)
Undisturbed == ~(shared /\ disturbed)

(* FindsWhatIsThere is not inductive: it needs what the two loops have      *)
(* already passed by.  The first has seen the entries from start to the     *)
(* index; the second those behind start and those before the index.         *)
Passed(from, to) == \A j \in InTable : from <= j /\ j < to => j # opt

InLoop ==
    /\ at = "to_the_end" => start <= Index /\ Passed(start, Index)
    /\ at = "from_the_start" => Index <= start /\ Passed(start, End) /\ Passed(0, Index)

AfterLoop ==
    /\ at = "found" => Index = opt /\ Index # End
    /\ at = "not_found" => opt = NotFound

Searching == (at = "idle" => found = opt) /\ at # "outside" /\ InLoop /\ AfterLoop

SearchInv == LookupTypeOK /\ (Undisturbed => Searching)

-----------------------------------------------------------------------------
(* The table has an entry.                                                  *)
LEMMA TableLength == NOptions \in Nat /\ NOptions > 0
  BY LookupAssumption

(* The index is in one of two places, and the other is not touched.         *)
LEMMA WhereIndexIs ==
    ASSUME LookupTypeOK
    PROVE  /\ Index \in 0 .. End
           /\ shared => Index = i /\ \A n : SetIndex(n) <=> i' = n /\ reg' = reg
           /\ ~shared => Index = reg /\ \A n : SetIndex(n) <=> reg' = n /\ i' = i
  BY DEF LookupTypeOK, Index, SetIndex

(* A step of the function that sets the index, and one that leaves it.      *)
LEMMA IndexSet ==
    ASSUME LookupTypeOK, UNCHANGED shared, NEW n \in 0 .. End, SetIndex(n)
    PROVE  Index' = n /\ i' \in 0 .. End /\ reg' \in 0 .. End
  BY DEF LookupTypeOK, Index, SetIndex

LEMMA IndexStays ==
    ASSUME LookupTypeOK, UNCHANGED <<shared, i, reg>>
    PROVE  Index' = Index /\ i' \in 0 .. End /\ reg' \in 0 .. End
  BY DEF LookupTypeOK, Index

(* Before the first look-up nothing is looked for.                          *)
LEMMA SearchInit == LookupInit => SearchInv
<1> SUFFICES ASSUME LookupInit PROVE SearchInv
  OBVIOUS
<1>1. shared \in BOOLEAN /\ disturbed \in BOOLEAN
  BY Zenon DEF LookupInit
<1>2. i = 0 /\ reg = 0 /\ start = 0 /\ opt = -1 /\ at = "idle" /\ found = -1
  BY DEF LookupInit, NotFound
<1>3. 0 \in 0 .. End /\ -1 \in Option
  BY TableLength DEF End, Option
<1>4. LookupTypeOK
  BY <1>1, <1>2, <1>3 DEF LookupTypeOK
<1>5. Searching
  BY <1>2 DEF Searching, InLoop, AfterLoop
<1>6. QED
  BY <1>4, <1>5 DEF SearchInv

(* The first loop ends at the option or at the end of the table; if it      *)
(* began at the first entry, it has seen all of them there.                 *)
LEMMA SearchToTheEnd ==
    ASSUME SearchInv, ToTheEnd
    PROVE  SearchInv'
<1>1. LookupTypeOK /\ Index \in 0 .. End
  BY WhereIndexIs DEF SearchInv
<1>2. at = "to_the_end" /\ UNCHANGED <<shared, start, opt, found, disturbed>>
  BY DEF ToTheEnd
<1>3. UNCHANGED <<Undisturbed, End, InTable>>
  BY <1>2, Zenon DEF Undisturbed, End, InTable
<1> USE TableLength DEF LookupTypeOK, Searching, InLoop, AfterLoop, Passed, End, Option,
        InTable, NotFound
<1>5. CASE Index < End /\ Index # opt /\ SetIndex(Index + 1) /\ UNCHANGED at
  <2>1. Index + 1 \in 0 .. End
    BY <1>1, <1>5
  <2>2. Index' = Index + 1 /\ i' \in 0 .. End /\ reg' \in 0 .. End
    BY <1>1, <1>2, <1>5, <2>1, IndexSet
  <2>3. QED
    BY <1>1, <1>2, <1>3, <1>5, <2>2 DEF SearchInv
<1>6. CASE Index < End /\ Index = opt /\ at' = "found" /\ UNCHANGED <<i, reg>>
  BY <1>1, <1>2, <1>3, <1>6, IndexStays DEF SearchInv
<1>7. CASE Index = End /\ start # 0 /\ SetIndex(0) /\ at' = "from_the_start"
  <2>1. Index' = 0 /\ i' \in 0 .. End /\ reg' \in 0 .. End
    BY <1>1, <1>2, <1>7, IndexSet
  <2>2. QED
    BY <1>1, <1>2, <1>3, <1>7, <2>1 DEF SearchInv
<1>8. CASE Index = End /\ start = 0 /\ at' = "not_found" /\ UNCHANGED <<i, reg>>
  BY <1>1, <1>2, <1>3, <1>8, IndexStays DEF SearchInv
<1>9. QED
  BY <1>5, <1>6, <1>7, <1>8 DEF ToTheEnd

(* The second loop ends at the option or where the first began.             *)
LEMMA SearchFromTheStart ==
    ASSUME SearchInv, FromTheStart
    PROVE  SearchInv'
<1>1. LookupTypeOK /\ Index \in 0 .. End
  BY WhereIndexIs DEF SearchInv
<1>2. at = "from_the_start" /\ UNCHANGED <<shared, start, opt, found, disturbed>>
  BY DEF FromTheStart
<1>3. UNCHANGED <<Undisturbed, End, InTable>>
  BY <1>2, Zenon DEF Undisturbed, End, InTable
<1> USE TableLength DEF LookupTypeOK, Searching, InLoop, AfterLoop, Passed, End, Option,
        InTable, NotFound
<1>4. CASE Index < start /\ Index # opt /\ SetIndex(Index + 1) /\ UNCHANGED at
  <2>1. Index + 1 \in 0 .. End
    BY <1>1, <1>4
  <2>2. Index' = Index + 1 /\ i' \in 0 .. End /\ reg' \in 0 .. End
    BY <1>1, <1>2, <1>4, <2>1, IndexSet
  <2>3. QED
    BY <1>1, <1>2, <1>3, <1>4, <2>2 DEF SearchInv
<1>5. CASE Index < start /\ Index = opt /\ at' = "found" /\ UNCHANGED <<i, reg>>
  BY <1>1, <1>2, <1>3, <1>5, IndexStays DEF SearchInv
<1>6. CASE Index >= start /\ at' = "not_found" /\ UNCHANGED <<i, reg>>
  BY <1>1, <1>2, <1>3, <1>6, IndexStays DEF SearchInv
<1>7. QED
  BY <1>4, <1>5, <1>6 DEF FromTheStart

(* The function returns with the index where it is.                         *)
LEMMA SearchReturns ==
    ASSUME SearchInv, Found \/ NothingFound
    PROVE  SearchInv'
<1>1. LookupTypeOK /\ Index \in 0 .. End
  BY WhereIndexIs DEF SearchInv
<1>2. /\ at' = "idle" /\ i' = Index /\ UNCHANGED <<shared, reg, start, opt, disturbed>>
      /\ (at = "found" /\ found' = Index) \/ (at = "not_found" /\ found' = NotFound)
  BY DEF Found, NothingFound, Return
<1>3. UNCHANGED Undisturbed
  BY <1>2, Zenon DEF Undisturbed
<1>4. LookupTypeOK'
  <2>1. Index \in Option \cup {End} /\ NotFound \in Option
    BY <1>1, TableLength DEF Option, End, NotFound
  <2>2. shared' \in BOOLEAN /\ disturbed' \in BOOLEAN
    BY <1>1, <1>2, Zenon DEF LookupTypeOK
  <2>3. QED
    BY <1>1, <1>2, <2>1, <2>2 DEF LookupTypeOK
<1>5. ASSUME Undisturbed PROVE Searching'
  <2>1. AfterLoop
    BY <1>5 DEF SearchInv, Searching
  <2>2. QED
    BY <1>2, <2>1 DEF Searching, InLoop, AfterLoop
<1>6. QED
  BY <1>3, <1>4, <1>5, Zenon DEF SearchInv

(* catch_hup leaves the index in the table.                                 *)
LEMMA HupStays == LookupTypeOK => LeftAt \subseteq 0 .. End
  BY TableLength DEF LookupTypeOK, LeftAt, LeavesAt, InTable, Option, End

(* It disturbs a look-up that works on the index in memory, and no other.   *)
LEMMA SearchHup ==
    ASSUME SearchInv, Hup
    PROVE  SearchInv'
<1>1. LookupTypeOK /\ LeftAt \subseteq 0 .. End
  BY HupStays DEF SearchInv
<1>2. CASE HupLooksUp
  <2>1. /\ i' \in 0 .. End /\ UNCHANGED <<shared, reg, start, opt, at, found>>
        /\ disturbed' = (disturbed \/ at # "idle")
    BY <1>1, <1>2 DEF HupLooksUp
  <2>2. LookupTypeOK'
    BY <1>1, <2>1 DEF LookupTypeOK
  <2>3. CASE shared
    BY <1>1, <2>1, <2>2, <2>3
    DEF SearchInv, Undisturbed, Searching, InLoop, AfterLoop, LookupTypeOK
  <2>4. CASE ~shared
    <3>1. Undisturbed /\ Index' = Index
      BY <2>1, <2>4 DEF Undisturbed, Index
    <3>2. Searching'
      BY <2>1, <3>1
      DEF SearchInv, Searching, InLoop, AfterLoop, Passed, End, InTable, NotFound
    <3>3. QED
      BY <2>2, <3>2 DEF SearchInv
  <2>5. QED
    BY <2>3, <2>4
<1>3. CASE HupWithinStep
  <2>1. /\ i' \in 0 .. End /\ UNCHANGED <<shared, reg, start, opt, found>>
        /\ shared /\ disturbed' = TRUE
        /\ at' \in {"to_the_end", "from_the_start", "found", "outside"}
    BY <1>1, <1>3, TableLength DEF HupWithinStep, End
  <2>2. QED
    BY <1>1, <2>1 DEF SearchInv, LookupTypeOK, Undisturbed
<1>4. QED
  BY <1>2, <1>3 DEF Hup

(* The next look-up begins where the index was left.                        *)
LEMMA SearchCall ==
    ASSUME SearchInv, Call
    PROVE  SearchInv'
<1>1. /\ opt' \in Option /\ start' = i /\ reg' = i /\ at' = "to_the_end"
      /\ disturbed' = FALSE /\ UNCHANGED <<shared, i, found>>
  BY DEF Call
<1>2. LookupTypeOK'
  BY <1>1 DEF SearchInv, LookupTypeOK
<1>3. Index' = i
  BY <1>1 DEF Index
<1>4. Searching'
  BY <1>1, <1>2, <1>3, TableLength
  DEF Searching, InLoop, AfterLoop, Passed, LookupTypeOK, InTable, End
<1>5. QED
  BY <1>2, <1>4 DEF SearchInv

(* Every step keeps the invariant.                                          *)
LEMMA SearchNext == SearchInv /\ [LookupNext]_lookupVars => SearchInv'
<1> SUFFICES ASSUME SearchInv, [LookupNext]_lookupVars PROVE SearchInv'
  OBVIOUS
<1>1. CASE UNCHANGED lookupVars
  BY <1>1 DEF lookupVars, SearchInv, LookupTypeOK, Undisturbed, Searching, InLoop, AfterLoop,
      Passed, Index
<1>2. CASE LookUp
  BY <1>2, SearchCall, SearchToTheEnd, SearchFromTheStart, SearchReturns DEF LookUp
<1>3. QED
  BY <1>1, <1>2, SearchHup DEF LookupNext

-----------------------------------------------------------------------------
(* opt_is_valid_i's index never leaves the table with its last entry, in    *)
(* either build, unless the function itself goes on outside of it.          *)
THEOREM LookupTypeCorrect == LookupSpec => []LookupTypeOK
<1>1. SearchInv => LookupTypeOK
  BY DEF SearchInv
<1>2. QED
  BY SearchInit, SearchNext, <1>1, PTL DEF LookupSpec

(* A look-up returns the option's place if it has one, and none otherwise,  *)
(* and stays in the table, wherever earlier ones and SIGHUP left the index: *)
(* every one in a build with the index in a register, and in one with the   *)
(* index in memory every one that is not itself interrupted.                *)
THEOREM LookupFindsWhatIsThere == LookupSpec => []FindsWhatIsThere
<1>1. SearchInv => FindsWhatIsThere
  BY DEF SearchInv, Undisturbed, Searching, FindsWhatIsThere
<1>2. QED
  BY SearchInit, SearchNext, <1>1, PTL DEF LookupSpec
=============================================================================
