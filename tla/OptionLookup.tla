---------------------------- MODULE OptionLookup ----------------------------
(***************************************************************************)
(* opt_is_valid_i of options.c: every look-up of an option by name goes    *)
(* round the table once, from where the last one stopped, with an index    *)
(* that is static.  catch_hup (main.c) re-reads the configuration in a     *)
(* signal handler, which looks options up with the same index.             *)
(*                                                                         *)
(* read_int_opt goes round the table in the same way, past the entries     *)
(* that are not integers, with a static index of its own; the messages     *)
(* catch_hup writes look "verbosity" up with it (io.c).  What is said here *)
(* of the one function holds for the other.                                *)
(*                                                                         *)
(* An option is its place in the table, Option \ InTable are names it does *)
(* not have.  For a static that a signal handler changes C leaves it to    *)
(* the compiler whether the function works on it in memory (shared) or in  *)
(* a register until it returns: both builds are modelled.                  *)
(***************************************************************************)
EXTENDS Integers

CONSTANTS
    NOptions,   \* the length of cli_opts
    Hups        \* whether SIGHUP comes

ASSUME LookupAssumption == NOptions \in Nat \ {0} /\ Hups \in BOOLEAN

VARIABLES
    shared,     \* the build: whether i is in memory while the function runs
    i,          \* the static index
    reg,        \* the index in a register, if that is where it is
    start,      \* where this look-up began
    opt,        \* the option looked up
    at,         \* what opt_is_valid_i does next
    found,      \* what it returned: *idx, or NotFound
    disturbed   \* history: a signal came during this look-up

lookupVars == <<shared, i, reg, start, opt, at, found, disturbed>>

InTable == 0 .. NOptions - 1
Option == -1 .. NOptions - 1    \* -1: a name that is not in the table
End == NOptions                 \* the entry without a name
NotFound == -1

LookupInit ==
    /\ shared \in BOOLEAN
    /\ i = 0 /\ reg = 0 /\ start = 0 /\ opt = -1 /\ at = "idle" /\ found = NotFound
    /\ disturbed = FALSE

\* The index the function works with.
Index == IF shared THEN i ELSE reg

SetIndex(n) == IF shared THEN i' = n /\ UNCHANGED reg ELSE reg' = n /\ UNCHANGED i

Call ==
    /\ at = "idle"
    /\ \E o \in Option : opt' = o
    /\ start' = i /\ reg' = i /\ at' = "to_the_end" /\ disturbed' = FALSE
    /\ UNCHANGED <<shared, i, found>>

Return(result) == at' = "idle" /\ found' = result /\ i' = Index

\* The rest of the table.
ToTheEnd ==
    /\ at = "to_the_end"
    /\ \/ Index < End /\ Index # opt /\ SetIndex(Index + 1) /\ UNCHANGED at
       \/ Index < End /\ Index = opt /\ at' = "found" /\ UNCHANGED <<i, reg>>
       \/ Index = End /\ start # 0 /\ SetIndex(0) /\ at' = "from_the_start"
       \/ Index = End /\ start = 0 /\ at' = "not_found" /\ UNCHANGED <<i, reg>>
    /\ UNCHANGED <<shared, start, opt, found, disturbed>>

\* Mutant: the last entry before the start is left out.
FromTheStartShort ==
    /\ at = "from_the_start"
    /\ \/ Index + 1 < start /\ Index # opt /\ SetIndex(Index + 1) /\ UNCHANGED at
       \/ Index + 1 < start /\ Index = opt /\ at' = "found" /\ UNCHANGED <<i, reg>>
       \/ Index + 1 >= start /\ at' = "not_found" /\ UNCHANGED <<i, reg>>
    /\ UNCHANGED <<shared, start, opt, found, disturbed>>

\* And what is before the place it began at.
FromTheStart ==
    /\ at = "from_the_start"
    /\ \/ Index < start /\ Index # opt /\ SetIndex(Index + 1) /\ UNCHANGED at
       \/ Index < start /\ Index = opt /\ at' = "found" /\ UNCHANGED <<i, reg>>
       \/ Index >= start /\ at' = "not_found" /\ UNCHANGED <<i, reg>>
    /\ UNCHANGED <<shared, start, opt, found, disturbed>>

\* *idx = i, which reads the index again.
Found == at = "found" /\ Return(Index) /\ UNCHANGED <<shared, reg, start, opt, disturbed>>

NothingFound ==
    at = "not_found" /\ Return(NotFound) /\ UNCHANGED <<shared, reg, start, opt, disturbed>>

-----------------------------------------------------------------------------
(* catch_hup, which runs to its end at any point of the above.             *)

\* Where a look-up that runs undisturbed leaves the index: at the option, or
\* where it gives up.
LeavesAt(from, o) == IF o \in InTable THEN o ELSE IF from = 0 THEN End ELSE from

\* read_file_opt_dup("config-file") finds that option; then opt_is_valid and
\* is_default_opt find one option after another, line by line of the file, and
\* perhaps at last none.
LeftAt == {LeavesAt(o, last) : o \in InTable, last \in Option}

\* The signal comes between two steps of the look-up, or between two look-ups.
HupLooksUp ==
    /\ Hups
    /\ i' \in LeftAt
    /\ disturbed' = (disturbed \/ at # "idle")
    /\ UNCHANGED <<shared, reg, start, opt, at, found>>

\* It comes inside a step of a loop that works on i in memory: after the test of
\* the loop, before the comparison or between that and i++.  The entry at the new
\* index is compared, or passed over; with End there, a name that is none is
\* compared, or i is moved behind the table: what follows is not defined.
HupWithinStep ==
    /\ Hups /\ shared
    /\ \/ at = "to_the_end" /\ i < End
       \/ at = "from_the_start" /\ i < start
    /\ \E n \in LeftAt :
          \/ n = opt /\ i' = n /\ at' = "found"
          \/ n < End /\ i' = n + 1 /\ UNCHANGED at
          \/ n = End /\ i' = n /\ at' = "outside"
    /\ disturbed' = TRUE
    /\ UNCHANGED <<shared, reg, start, opt, found>>

Hup == HupLooksUp \/ HupWithinStep

LookUp == Call \/ ToTheEnd \/ FromTheStart \/ Found \/ NothingFound
LookupNext == LookUp \/ Hup

LookupSpec == LookupInit /\ [][LookupNext]_lookupVars
FairLookupSpec == LookupSpec /\ WF_lookupVars(ToTheEnd \/ FromTheStart \/ Found \/ NothingFound)

-----------------------------------------------------------------------------
(* Properties.                                                             *)

\* Every variable is in its domain: the index never leaves the table, with
\* its last entry, unless a look-up goes outside of it.
LookupTypeOK ==
    /\ shared \in BOOLEAN /\ disturbed \in BOOLEAN
    /\ i \in 0 .. End /\ reg \in 0 .. End /\ start \in 0 .. End
    /\ opt \in Option /\ found \in Option \cup {End}
    /\ at \in {"idle", "to_the_end", "from_the_start", "found", "not_found", "outside"}

(* A look-up returns the option's place if it has one, and no place        *)
(* otherwise, wherever earlier look-ups and signals left the index         *)
(* (read_str_opt, set_opt and is_default_opt abort when they are told of   *)
(* no place), and compares nothing behind the table.  The one exception is *)
(* a signal during the look-up in a build with the index in memory: such a *)
(* look-up may miss or run away, the next one is right again.              *)
FindsWhatIsThere ==
    ~(shared /\ disturbed) => (at = "idle" => found = opt) /\ at # "outside"

\* A look-up comes to an end, or signals come again and again during look-ups.
LookupEnds ==
    \/ []<><<Hup /\ shared /\ at # "idle">>_lookupVars
    \/ at # "idle" ~> at \in {"idle", "outside"}

\* "opt_is_valid returns 0 for invalid option or 1 for valid." (options.c:389)
ValidIsFound == opt \in InTable => at # "not_found"

=============================================================================
