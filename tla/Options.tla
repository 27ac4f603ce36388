------------------------------ MODULE Options ------------------------------
(***************************************************************************)
(* Where the probe's options come from (options.c, lib/config_parse.c and  *)
(* main.c): the command line, the checks after it, the configuration file, *)
(* and the file again whenever SIGHUP is caught.                           *)
(*                                                                         *)
(* Values are numbers; those of string options stand for texts.            *)
(***************************************************************************)
EXTENDS Integers, Sequences

CONSTANTS
    IntOpts,    \* options of type 'i'
    StrOpts,    \* options of type 's'
    Default,    \* def_val of every option
    Argvs,      \* the command lines: sequences of arguments
    Lines,      \* the lines a configuration file may have
    MaxLines    \* how many it has

Opts == IntOpts \cup StrOpts

\* An option's value is NULL until it is set.
Null == -1

\* The kinds of words on a command line: an option by itself, an option with
\* its value attached (--name=value, -nvalue), another word, and the word given
\* after an option that no row of the table knows.
Arg == [is : {"option", "joined", "word"}, opt : Opts \cup {"unknown"}, digits : BOOLEAN,
        v : Nat]

Line == [is : {"option", "comment", "unknown", "no_value"}, opt : Opts \cup {"unknown"}, v : Nat]

OptionsAssumption ==
    /\ {"interval", "limit-runs", "keepalive"} \subseteq IntOpts /\ "log-method" \in StrOpts
    /\ IntOpts \cap StrOpts = {} /\ "unknown" \notin Opts
    /\ Default \in [Opts -> Nat] /\ Default["keepalive"] # 0
    /\ Argvs \subseteq Seq(Arg) /\ Lines \subseteq Line /\ MaxLines \in Nat
    /\ \A l \in Lines : l.is = "option" <=> l.opt # "unknown"

VARIABLES
    argv,       \* the command line
    arg,        \* the argument read_cli_opts is at
    value,      \* the values
    parsed_yet, \* a configuration file has been read
    file,       \* the file as far as it has been read
    place,      \* what runs
    given,      \* history: what the command line says of an option
    first       \* history: the first line on an option in the first file read

optionVars == <<argv, arg, value, parsed_yet, file, place, given, first>>

OptionsInit ==
    /\ argv \in Argvs /\ arg = 1
    /\ value = [o \in Opts |-> Null] /\ parsed_yet = FALSE /\ file = <<>>
    /\ place = "argv"
    /\ given = [o \in Opts |-> Null] /\ first = [o \in Opts |-> Null]

\* read_int_opt, read_str_opt
Read(val, o) == IF val[o] = Null THEN Default[o] ELSE val[o]

-----------------------------------------------------------------------------
(* parse_options.                                                          *)

Exit == place' = "exited"

Here == argv[arg]
AtLast == arg = Len(argv)
Following == argv[arg + 1]

\* What a string option gets from the word after it, which may be an option.
AnOption == 99
TextOf(a) == IF a.is = "word" THEN a.v ELSE AnOption

GiveOpt(o, v, words) ==
    /\ value' = [value EXCEPT ![o] = v]
    /\ given' = [given EXCEPT ![o] = v]
    /\ arg' = arg + words
    /\ UNCHANGED <<argv, parsed_yet, file, place, first>>

\* read_opt for a string: the next word, whatever it is.
StringOption ==
    /\ place = "argv" /\ arg <= Len(argv) /\ Here.is = "option" /\ Here.opt \in StrOpts
    /\ IF AtLast THEN Exit /\ UNCHANGED <<argv, arg, value, parsed_yet, file, given, first>>
       ELSE GiveOpt(Here.opt, TextOf(Following), 2)

\* read_opt for an integer: the next word if it is a number, or 1.
NumberOption ==
    /\ place = "argv" /\ arg <= Len(argv) /\ Here.is = "option" /\ Here.opt \in IntOpts
    /\ IF ~AtLast /\ Following.is = "word" /\ Following.digits
       THEN GiveOpt(Here.opt, Following.v, 2)
       ELSE GiveOpt(Here.opt, 1, 1)

JoinedOption ==
    /\ place = "argv" /\ arg <= Len(argv) /\ Here.is = "joined" /\ Here.opt \in Opts
    /\ GiveOpt(Here.opt, IF Here.opt \in StrOpts \/ Here.digits THEN Here.v ELSE 1, 1)

\* get_long_opt and get_short_opt find no such row, and nobody is told.
UnknownOption ==
    /\ place = "argv" /\ arg <= Len(argv) /\ Here.is # "word" /\ Here.opt = "unknown"
    /\ arg' = arg + 1
    /\ UNCHANGED <<argv, value, parsed_yet, file, place, given, first>>

\* A word where an option is expected: usage() and exit.
StrayWord ==
    /\ place = "argv" /\ arg <= Len(argv) /\ Here.is = "word"
    /\ Exit /\ UNCHANGED <<argv, arg, value, parsed_yet, file, given, first>>

\* The checks at the end of parse_options.
Sane(val) ==
    LET int == IF Read(val, "interval") < 15 THEN [val EXCEPT !["interval"] = 15] ELSE val
    IN  IF Read(int, "limit-runs") # 0 /\ Read(int, "keepalive") # 0
        THEN [int EXCEPT !["keepalive"] = 0] ELSE int

CommandLineRead ==
    /\ place = "argv" /\ arg > Len(argv)
    /\ value' = Sane(value)
    /\ place' = "config"
    /\ UNCHANGED <<argv, arg, parsed_yet, file, given, first>>

-----------------------------------------------------------------------------
(* read_config, called by main and by catch_hup.                           *)

Reading == place \in {"config", "hup"}

\* The step after read_config.
After == IF place = "config" THEN "started" ELSE "running"

\* Mutant: what was given on the command line is overwritten.
FromFileOver(o, v) == IF ~parsed_yet THEN [value EXCEPT ![o] = v] ELSE value

\* parse_line: only what has its default value is set, and only the first time.
FromFile(o, v) ==
    IF value[o] = Null /\ ~parsed_yet THEN [value EXCEPT ![o] = v] ELSE value

ReadLine ==
    /\ Reading /\ Len(file) < MaxLines
    /\ \E l \in Lines :
         /\ l.is = "option"
         /\ file' = Append(file, l)
         /\ value' = FromFile(l.opt, l.v)
         /\ first' = IF parsed_yet \/ first[l.opt] # Null THEN first
                     ELSE [first EXCEPT ![l.opt] = l.v]
    /\ UNCHANGED <<argv, arg, parsed_yet, place, given>>

\* A line that is no option, and a comment or an empty line is none either,
\* ends the reading with -1: main exits, catch_hup goes on.
BadLine ==
    /\ Reading /\ Len(file) < MaxLines
    /\ \E l \in Lines : l.is # "option" /\ file' = Append(file, l)
    /\ parsed_yet' = TRUE
    /\ place' = IF place = "config" THEN "exited" ELSE "running"
    /\ UNCHANGED <<argv, arg, value, given, first>>

\* The end of the file.
EndOfConfig ==
    /\ Reading /\ parsed_yet' = TRUE /\ place' = After
    /\ UNCHANGED <<argv, arg, value, file, given, first>>

NoConfigFile ==
    /\ Reading /\ file = <<>> /\ place' = After
    /\ UNCHANGED <<argv, arg, value, parsed_yet, file, given, first>>

-----------------------------------------------------------------------------

\* maybe_daemonize: in the foreground messages go to stdout, if nothing else
\* was asked for.
StdOut == 1

MaybeDaemonize ==
    /\ place = "started" /\ place' = "running"
    /\ \/ UNCHANGED value
       \/ /\ value["log-method"] = Null
          /\ value' = [value EXCEPT !["log-method"] = StdOut]
    /\ UNCHANGED <<argv, arg, parsed_yet, file, given, first>>

\* The file may be another one by now.
HupRereads ==
    /\ place = "running" /\ place' = "hup" /\ file' = <<>>
    /\ UNCHANGED <<argv, arg, value, parsed_yet, given, first>>

OptionsNext ==
    \/ StringOption \/ NumberOption \/ JoinedOption \/ UnknownOption \/ StrayWord
    \/ CommandLineRead
    \/ ReadLine \/ BadLine \/ EndOfConfig \/ NoConfigFile
    \/ MaybeDaemonize \/ HupRereads

OptionsSpec == OptionsInit /\ [][OptionsNext]_optionVars

-----------------------------------------------------------------------------
(* Properties.                                                             *)

\* Every variable is in its domain.
OptionsTypeOK ==
    /\ value \in [Opts -> Nat \cup {Null}] /\ parsed_yet \in BOOLEAN
    /\ given \in [Opts -> Nat \cup {Null}] /\ first \in [Opts -> Nat \cup {Null}]
    /\ arg \in 1 .. Len(argv) + 1 /\ Len(file) <= MaxLines
    /\ place \in {"argv", "config", "started", "running", "hup", "exited"}

\* What the command line says, after the checks made of it, holds as long as the
\* probe runs, whatever files are read and re-read (parse_line sets only what
\* has its default value).
CommandLineHolds ==
    place \in {"config", "started", "running", "hup"} =>
        \A o \in Opts : Sane(given)[o] # Null => value[o] = Sane(given)[o]

\* An option that the command line leaves alone has what the first line on it
\* says, in the first file that was read, or its default value: a later line or
\* a later file does not count.  (In the foreground log-method is set.)
FirstLineHolds ==
    place \in {"started", "running"} =>
        \A o \in Opts :
            Sane(given)[o] = Null =>
                \/ value[o] = first[o]
                \/ o = "log-method" /\ value[o] = StdOut

\* With a limit from the command line the probe is not kept alive, whatever the
\* configuration file says.
LimitIsNotKeptAlive ==
    place = "running" /\ given["limit-runs"] \notin {Null, 0} => Read(value, "keepalive") = 0

\* What the command line says, or else the first line of the first file, holds as
\* long as the probe runs; that includes what the limit says of keepalive
\* (parse_options, parse_line).
FirstSettingHolds ==
    OptionsTypeOK /\ CommandLineHolds /\ FirstLineHolds /\ LimitIsNotKeptAlive

-----------------------------------------------------------------------------
(* What the documents say, and the code does not do.                       *)

\* "Sleep interval between jobs (Minimum 15)" (options.c:47)
MinimumInterval == place = "running" => Read(value, "interval") >= 15

\* "Reads and config file, removing comments" (config_parse.c:60): a file of
\* options and comments is read to its end.
CommentsAreRemoved ==
    place = "exited" /\ file # <<>> =>
        \E k \in DOMAIN file : file[k].is \in {"unknown", "no_value"}

\* "Caught SIGHUP.  Re-reading config file..." (main.c:316): an option on whose
\* value nobody has decided yet is set by the file that is read now.
RereadCounts ==
    [][place = "hup" /\ place' = "running" /\ Len(file) = 1 /\ value[Head(file).opt] = Null
         => value'[Head(file).opt] = Head(file).v]_optionVars

=============================================================================
