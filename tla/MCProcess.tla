----------------------------- MODULE MCProcess -----------------------------
(* The probe's process and its options: OptionLookup with a short table (an   *)
(* option may be before, at or behind the place a look-up begins at);         *)
(* Options with command lines of up to two words and files of up to two       *)
(* lines; and Supervisor with three process numbers, the process that         *)
(* daemonizes, its child and one more that is being forked.  In a behaviour   *)
(* one of the three runs, and the others stay where they begin.               *)
EXTENDS OptionLookup, Options, Supervisor

VARIABLE part   \* the one that runs

-----------------------------------------------------------------------------
Ints == {"interval", "limit-runs", "keepalive"}
Strs == {"log-method"}
Defaults == [o \in Ints \cup Strs |->
                IF o = "interval" THEN 60 ELSE IF o = "keepalive" THEN 1 ELSE 0]

A(is, o, digits, v) == [is |-> is, opt |-> o, digits |-> digits, v |-> v]
SomeArgs ==
    {A("option", o, FALSE, 0) : o \in Ints \cup Strs \cup {"unknown"}} \cup
    {A("word", "unknown", TRUE, 5), A("word", "unknown", FALSE, 7),
     A("joined", "interval", TRUE, 5), A("joined", "limit-runs", TRUE, 3),
     A("joined", "keepalive", TRUE, 0), A("joined", "unknown", FALSE, 7)}
SomeArgvs == UNION {[1 .. n -> SomeArgs] : n \in 0 .. 2}

L(is, o, v) == [is |-> is, opt |-> o, v |-> v]
SomeLines ==
    {L("option", "interval", 5), L("option", "interval", 20), L("option", "keepalive", 1),
     L("option", "limit-runs", 3), L("option", "log-method", 2), L("comment", "unknown", 0),
     L("unknown", "unknown", 0), L("no_value", "unknown", 0)}

ASSUME OptionsAssumption /\ SupervisorAssumption

-----------------------------------------------------------------------------
OneInit ==
    /\ LookupInit /\ OptionsInit /\ Init
    /\ part \in {"lookup", "options", "processes"}
    /\ part # "lookup" => ~shared
    /\ part # "options" => argv = <<>>
    /\ part # "processes" => limit = 0 /\ keepalive[First]

\* A usage error or a bad file, a limit, a failure or a signal has ended it.
Over ==
    /\ \/ part = "options" /\ place = "exited"
       \/ part = "processes" /\ \A p \in Pid : ~Alive(p)
    /\ UNCHANGED <<part, lookupVars, optionVars, vars>>

OneNext ==
    \/ part = "lookup" /\ LookupNext /\ UNCHANGED <<part, optionVars, vars>>
    \/ part = "options" /\ OptionsNext /\ UNCHANGED <<part, lookupVars, vars>>
    \/ part = "processes" /\ Next /\ UNCHANGED <<part, lookupVars, optionVars>>
    \/ Over

OneSpec ==
    /\ OneInit /\ [][OneNext]_<<part, lookupVars, optionVars, vars>>
    /\ WF_lookupVars(part = "lookup" /\ (ToTheEnd \/ FromTheStart \/ Found \/ NothingFound))
    /\ \A p \in Pid :
         /\ WF_vars(part = "processes" /\ Supervise(p))
         /\ WF_vars(part = "processes" /\ Iteration(p))
         /\ WF_vars(part = "processes" /\ Catch(p))

-----------------------------------------------------------------------------
(* The other properties are those of the three modules.                      *)

\* A look-up returns, whatever the signals do; and while a process keeps watch,
\* some process works again and again.
GoesOn == LookupEnds /\ KeepsAlive
=============================================================================
