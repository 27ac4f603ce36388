------------------------------- MODULE Probe -------------------------------
(***************************************************************************)
(* The probe process, the files it keeps in ~/.freenote and the dispatch   *)
(* server: registration (dispatch_init, dispatch_checkin), fetching work   *)
(* (dispatch_getwork), reporting it (send_results) and the handling of the *)
(* server's errors (proto_error), around the table steps of Worker.        *)
(*                                                                         *)
(* A message exchange is one HTTP request of the probe's only thread, so   *)
(* it is one step: it may get lost on the way, or be acted on by the       *)
(* server and its answer get lost on the way back.  The process may die    *)
(* between any two steps; under "keepalive" its parent forks a new one     *)
(* that starts with the initial memory and the files the old one left.     *)
(***************************************************************************)
EXTENDS Worker

CONSTANTS
    ProbeIds,   \* the non-zero ids the dispatch server gives to probes
    MaxFaults   \* bound: crashes and failed writes in a behaviour

ASSUME ProbeAssumption == ProbeIds \subseteq Nat \ {0} /\ MaxFaults \in Nat

VARIABLES
    probe_id,       \* dispatch.c's probe_info.probe_id, 0 before registration
    report_id,      \* collection.c's own copy, -1 before it is read
    dispatch_key,   \* pdsa.c's dispatch: absent, parameters only, or a key
    id_file,        \* FM_ID_PROBE: an id's text, or NoText when missing or empty
    key_file,       \* FM_KEY_DISPATCH_PUBLIC holds a key that can be read
    registered,     \* server: the probe ids it knows
    retired,        \* server: the probe ids it gave and has forgotten
    issuer,         \* server: the probe each work packet was given to
    pairs,          \* server: the ids in each work packet
    saved,          \* server: the packets whose results it has stored
    given,          \* history: the id this process was given, NoText if it read one
    answered,       \* history: packets whose report was answered while the process ran
    mishap,         \* history: what kept the last check-in from saving its key
    faults          \* faults so far

memory == <<probe_id, report_id, dispatch_key, given>>
files == <<id_file, key_file>>
server == <<registered, retired, issuer, pairs, saved, issued, sent>>
history == <<answered, mishap, faults>>
pass == <<tasks, task, work_id, packet, results, wid>>
vars == <<workerVars, memory, files, registered, retired, issuer, pairs, saved, history>>

KeyState == {"NULL", "HOLLOW", "LOADED"}
Mishap == {"none", "cut short", "not written", "no key"}

-----------------------------------------------------------------------------
(* An id is decimal digits, which may begin with zeros.  The same text is   *)
(* read in two ways.                                                       *)

IdText == [id : ProbeIds, zero : BOOLEAN]
NoText == [id |-> 0, zero |-> FALSE]

Atoi(text) == text.id

\* n's digits read as octal ones, as far as they are: 8 and 9 end the number.
OctalValue(n) ==
    LET read[k \in 0 .. n] ==
            IF k = 0 THEN [value |-> 0, over |-> FALSE]
            ELSE LET high == read[k \div 10]
                 IN  IF high.over \/ k % 10 > 7 THEN [high EXCEPT !.over = TRUE]
                     ELSE [high EXCEPT !.value = 8 * @ + (k % 10)]
    IN  read[n].value

\* sscanf's %i.
ScanI(text) == IF text.zero THEN OctalValue(text.id) ELSE text.id

ReadIds == ProbeIds \cup {0} \cup {OctalValue(p) : p \in ProbeIds}

-----------------------------------------------------------------------------

ProbeInit ==
    /\ Init
    /\ probe_id = 0 /\ report_id = -1 /\ dispatch_key = "NULL"
    /\ id_file = NoText /\ key_file = FALSE /\ given = NoText
    /\ registered = {} /\ retired = {}
    /\ issuer = [w \in WorkIds |-> 0]
    /\ pairs = [w \in WorkIds |-> {}]
    /\ saved = {} /\ answered = {}
    /\ mishap = "none" /\ faults = 0

-----------------------------------------------------------------------------
(* The process ends: exit(), a signal, a crash.  All memory is gone.       *)

Dies ==
    /\ pc' = "dead"
    /\ tasks' = TasksInit /\ task' = InitTask /\ work_id' = 0 /\ packet' = {}
    /\ results' = {} /\ wid' = NoWork
    /\ probe_id' = 0 /\ report_id' = -1 /\ dispatch_key' = "NULL" /\ given' = NoText

Crash ==
    /\ pc # "dead" /\ faults < MaxFaults
    /\ Dies
    /\ faults' = faults + 1
    /\ mishap' = IF pc = "save_dispatch_key" THEN "cut short" ELSE mishap
    /\ UNCHANGED <<files, server, answered>>

\* The parent forks again; subsystems_init loads the dispatch key if it is there.
Restart ==
    /\ pc = "dead"
    /\ pc' = "get_jobs"
    /\ dispatch_key' = IF key_file THEN "LOADED" ELSE "NULL"
    /\ UNCHANGED <<pass, probe_id, report_id, given, files, server, history>>

-----------------------------------------------------------------------------
(* get_jobs: dispatch_init, whose result is always 0, then dispatch_getwork.*)

\* Mutant: the file is read in each pass.
KnownProbeReads ==
    /\ pc = "get_jobs"
    /\ probe_id # 0 \/ id_file # NoText
    /\ probe_id' = IF id_file = NoText THEN probe_id ELSE ScanI(id_file)
    /\ pc' = "givework"
    /\ UNCHANGED <<pass, report_id, dispatch_key, given, files, server, history>>

\* dispatch_init with an id in memory or on disk, though the one on disk may read 0.
KnownProbe ==
    /\ pc = "get_jobs"
    /\ probe_id # 0 \/ id_file # NoText
    /\ probe_id' = IF probe_id # 0 THEN probe_id ELSE ScanI(id_file)
    /\ pc' = "givework"
    /\ UNCHANGED <<pass, report_id, dispatch_key, given, files, server, history>>

NewProbe == pc = "get_jobs" /\ probe_id = 0 /\ id_file = NoText

NewIds == ProbeIds \ (registered \cup retired)

\* dispatch_checkin fails before it learns an id; dispatch_getwork follows.
CheckinFails ==
    /\ NewProbe
    /\ pc' = "givework"
    /\ UNCHANGED <<pass, memory, files, server, history>>

\* The server registers a new probe; its answer may still get lost.
CheckinAnswerLost ==
    /\ NewProbe
    /\ \E p \in NewIds : registered' = registered \cup {p}
    /\ pc' = "givework"
    /\ UNCHANGED <<pass, memory, files, retired, issuer, pairs, saved, issued, sent, history>>

\* Mutant: the key that came with the id is not saved.
CheckinAssignedNoKey ==
    /\ NewProbe
    /\ \E text \in IdText :
          /\ text.id \in NewIds /\ registered' = registered \cup {text.id}
          /\ probe_id' = Atoi(text) /\ given' = text /\ id_file' = text
    /\ pc' = "givework"
    /\ UNCHANGED <<pass, report_id, dispatch_key, key_file,
                   retired, issuer, pairs, saved, issued, sent, history>>

\* The answer arrives: the id is kept in memory whether or not it can be
\* written; a key that came with it is saved only after a successful write.
CheckinAssigned ==
    /\ NewProbe
    /\ \E text \in IdText :
          /\ text.id \in NewIds /\ registered' = registered \cup {text.id}
          /\ probe_id' = Atoi(text) /\ given' = text
          /\ \/ /\ id_file' = text /\ UNCHANGED faults
                /\ \/ pc' = "save_dispatch_key" /\ mishap' = "none"
                   \/ pc' = "givework" /\ mishap' = "no key"
             \/ /\ faults < MaxFaults /\ faults' = faults + 1
                /\ pc' = "givework" /\ UNCHANGED <<id_file, mishap>>
    /\ UNCHANGED <<pass, report_id, dispatch_key, key_file,
                   retired, issuer, pairs, saved, issued, sent, answered>>

\* save_dispatch_key: a key already in memory wins over the one received.  A key that
\* cannot be read is written nevertheless, one that cannot be written is not read, and
\* without memory for it nothing is done.
SaveDispatchKey ==
    /\ pc = "save_dispatch_key"
    /\ \/ dispatch_key # "NULL" /\ UNCHANGED <<dispatch_key, key_file, mishap, faults>>
       \/ /\ dispatch_key = "NULL"
          /\ key_file' = TRUE /\ dispatch_key' = "LOADED" /\ UNCHANGED <<mishap, faults>>
       \/ /\ dispatch_key = "NULL"
          /\ dispatch_key' = "HOLLOW" /\ mishap' = "no key" /\ UNCHANGED <<key_file, faults>>
       \/ /\ dispatch_key = "NULL" /\ faults < MaxFaults
          /\ faults' = faults + 1 /\ mishap' = "not written"
          /\ dispatch_key' \in {"NULL", "HOLLOW"} /\ UNCHANGED key_file
    /\ pc' = "givework"
    /\ UNCHANGED <<pass, probe_id, report_id, given, id_file, server, answered>>

\* Any exchange may be answered by an error that makes proto_error exit
\* (pin_code, team_name, INACTIVE), a report also by a bad signature.
Denied ==
    /\ NewProbe \/ pc \in {"givework", "proto_mesg_send"}
    /\ faults < MaxFaults /\ faults' = faults + 1
    /\ Dies
    /\ UNCHANGED <<files, server, answered, mishap>>

\* GIVEWORK: no answer, or an error that leaves things as they are (TOOSOON
\* included): there is no work_id, get_jobs returns -1 and mainiter sleeps.
GiveworkFails ==
    /\ pc = "givework"
    /\ pc' = "get_jobs"
    /\ UNCHANGED <<pass, memory, files, server, history>>

\* probe_id NOTFOUND: the file goes; dispatch_init checks in only if there is no
\* id in memory (which, for id 0, the next get_jobs does here).
GiveworkNotFound ==
    /\ pc = "givework" /\ probe_id \notin registered
    /\ id_file' = NoText
    /\ pc' = "get_jobs"
    /\ UNCHANGED <<pass, memory, key_file, server, history>>

GiveworkAssigned ==
    /\ pc = "givework" /\ probe_id \in registered
    /\ \E w \in WorkIds \ issued :
          /\ work_id' = w
          /\ issued' = issued \cup {w}
          /\ issuer' = [issuer EXCEPT ![w] = probe_id]
    /\ packet' = {}
    /\ pc' = "dispatch_getwork"
    /\ UNCHANGED <<tasks, task, results, wid, sent, memory, files,
                   registered, retired, pairs, saved, history>>

-----------------------------------------------------------------------------
(* The steps of Worker, with what they mean for the server.                *)

ReadPacket ==
    /\ AddOffer
    /\ pairs' = [pairs EXCEPT ![work_id] = @ \cup {p.id : p \in packet'}]
    /\ UNCHANGED <<memory, files, registered, retired, issuer, saved, history>>

Process ==
    /\ \/ EndPacket \/ TakeTask \/ DoHttpTask \/ DoDnsTask \/ DoIcmpTask
       \/ AllProcessed \/ (report_id # -1 /\ (DrainCompleted \/ EndDrain))
    /\ UNCHANGED <<memory, files, registered, retired, issuer, pairs, saved, history>>

\* collection_init: the id is read from the file, once in a process.
CollectionInit ==
    /\ pc = "collection_report" /\ report_id = -1
    /\ \/ /\ id_file # NoText
          /\ report_id' = ScanI(id_file)
          /\ UNCHANGED <<pc, pass, probe_id, dispatch_key, given>>
       \/ id_file = NoText /\ Dies
    /\ UNCHANGED <<files, server, history>>

-----------------------------------------------------------------------------
(* collection_report's exchange.  It repeats until there is an answer.     *)

\* The server stores the results of an open packet of a probe it knows.
Stores ==
    /\ report_id \in registered
    /\ wid \in issued \ saved
    /\ pairs[wid] \subseteq {r.id : r \in results}

ServerTakesReport ==
    IF Stores
    THEN /\ saved' = saved \cup {wid} /\ sent' = sent \cup results
    ELSE UNCHANGED <<saved, sent>>

ReportAnswerLost ==
    /\ pc = "proto_mesg_send"
    /\ ServerTakesReport
    /\ UNCHANGED <<pc, pass, memory, files, registered, retired, issuer, pairs,
                   issued, history>>

\* mainiter is done: the results are dropped, whatever the answer was.
PassEnds ==
    /\ results' = {} /\ wid' = NoWork
    /\ pc' = "get_jobs"
    /\ UNCHANGED <<tasks, task, work_id, packet, memory>>

\* Mutant: a report is sent once only.
ReportLostGivesUp ==
    /\ pc = "proto_mesg_send"
    /\ PassEnds
    /\ UNCHANGED <<files, server, history>>

ReportLost ==
    /\ pc = "proto_mesg_send"
    /\ UNCHANGED vars

RecordAnswer == answered' = answered \cup {work_id}

\* SAVESUCCESS, on a verified signature (a key without a public part makes
\* DSA_verify fail with -1, which is not the 0 the caller tests for).
ReportSaved ==
    /\ pc = "proto_mesg_send" /\ Stores /\ dispatch_key # "NULL"
    /\ ServerTakesReport
    /\ RecordAnswer
    /\ PassEnds
    /\ UNCHANGED <<files, registered, retired, issuer, pairs, issued, mishap, faults>>

\* Errors proto_error calms down: work_id COMPLETE, INCOMPLETE, NOTFOUND, and
\* probe_id NOTFOUND, which also removes the file.  The packet of another probe may be
\* taken or refused.
ReportRefused ==
    /\ pc = "proto_mesg_send" /\ (Stores => issuer[wid] # report_id)
    /\ dispatch_key # "NULL"
    /\ id_file' = IF report_id \in registered THEN id_file ELSE NoText
    /\ RecordAnswer
    /\ PassEnds
    /\ UNCHANGED <<key_file, server, mishap, faults>>

\* work_id DBERROR, EMPTY or MISSING: proto_error returns no value, so the
\* process goes on or stops with do_or_die (as for an unrecognized error).
ReportUnanswerable ==
    /\ pc = "proto_mesg_send" /\ dispatch_key # "NULL"
    /\ faults < MaxFaults /\ faults' = faults + 1
    /\ RecordAnswer
    /\ PassEnds \/ Dies
    /\ UNCHANGED <<files, server, mishap>>

\* No dispatch key: the verification of the answer uses a null DSA and the
\* process crashes, after the server has acted.
ReportWithoutKey ==
    /\ pc = "proto_mesg_send" /\ dispatch_key = "NULL"
    /\ ServerTakesReport
    /\ Dies
    /\ UNCHANGED <<files, registered, retired, issuer, pairs, issued, history>>

\* Environment: the server loses a probe's registration.
ServerForgets ==
    /\ \E p \in registered :
          /\ registered' = registered \ {p}
          /\ retired' = retired \cup {p}
    /\ UNCHANGED <<workerVars, memory, files, issuer, pairs, saved, history>>

-----------------------------------------------------------------------------
Checkin == CheckinFails \/ CheckinAnswerLost \/ CheckinAssigned \/ SaveDispatchKey

Givework == GiveworkFails \/ GiveworkNotFound \/ GiveworkAssigned

Answered == ReportSaved \/ ReportRefused \/ ReportWithoutKey

ProbeNext ==
    \/ Crash \/ Restart \/ Denied
    \/ KnownProbe \/ Checkin \/ Givework
    \/ ReadPacket \/ Process \/ CollectionInit
    \/ ReportLost \/ ReportAnswerLost \/ Answered \/ ReportUnanswerable
    \/ ServerForgets

ProbeSpec == ProbeInit /\ [][ProbeNext]_vars

(* Fairness: the process and its parent keep running, and an exchange that  *)
(* is repeated for ever is answered in the end.  For the steps with tables  *)
(* inside, conditions stand for ENABLED, as in Worker.                      *)
Registering == KnownProbe \/ Checkin

ProbeFairness ==
    /\ WF_vars(Restart) /\ WF_vars(Registering) /\ WF_vars(Givework)
    /\ []<>~Busy \/ []<><<ReadPacket \/ Process \/ CollectionInit>>_vars
    /\ []<>(pc # "proto_mesg_send") \/ []<><<Answered>>_vars

FairProbeSpec == ProbeSpec /\ ProbeFairness

-----------------------------------------------------------------------------
(* Properties.                                                             *)

ProbeTypeOK ==
    /\ pc \in {"get_jobs", "save_dispatch_key", "givework", "dispatch_getwork",
               "process_tasks", "do_task", "collection_report", "proto_mesg_send",
               "dead"}
    /\ tasks \in [Slot -> Task] /\ task \in Task
    /\ work_id \in WorkIds \cup {0}
    /\ results \subseteq Results /\ wid \in WorkIds \cup {NoWork}
    /\ probe_id \in ReadIds /\ report_id \in ReadIds \cup {-1}
    /\ dispatch_key \in KeyState
    /\ {id_file, given} \subseteq IdText \cup {NoText} /\ key_file \in BOOLEAN
    /\ registered \subseteq ProbeIds /\ retired \subseteq ProbeIds
    /\ issuer \in [WorkIds -> ProbeIds \cup {0}]
    /\ pairs \in [WorkIds -> SUBSET (TaskIds \cup {0})]
    /\ issued \subseteq WorkIds /\ saved \subseteq issued /\ answered \subseteq WorkIds
    /\ sent \subseteq Results
    /\ mishap \in Mishap /\ faults \in 0 .. MaxFaults

(* The id lives in three places, dispatch.c's variable, collection.c's own  *)
(* variable and the file, each read and dropped at other times and not in   *)
(* the same way.  The variables stem from one text; what dispatch.c has is  *)
(* what its packets are given to, and a report goes out under the same id,  *)
(* unless the process was given its id with a leading zero.                 *)
OneIdentity ==
    /\ probe_id # 0 /\ id_file # NoText =>
          \/ given = NoText /\ probe_id = ScanI(id_file)
          \/ given = id_file /\ probe_id = Atoi(id_file)
    /\ report_id # -1 =>
          report_id = IF given = NoText THEN probe_id ELSE ScanI(given)
    /\ pc = "proto_mesg_send" =>
          issuer[work_id] = probe_id /\ (given.zero \/ report_id = probe_id)

(* A probe that is registered on disk but has no dispatch key can never     *)
(* take the answer to a report.  Only a last check-in that was cut short    *)
(* between its two writes, whose second write failed, or whose answer had   *)
(* no key that can be read leaves it in that state.                         *)
KeyMissingOnlyAfterMishap ==
    (pc # "dead" /\ id_file # NoText /\ dispatch_key = "NULL")
        => mishap # "none" \/ pc = "save_dispatch_key"

(* End to end: when every pair of the packet made a task, the report names  *)
(* that packet and has a result for every pair the server put in it.        *)
ReportCoversPacket ==
    (pc = "proto_mesg_send" /\ packet # {} /\ \A p \in packet : p.valid)
        => wid = work_id /\ pairs[wid] = {r.id : r \in results}

(* Results leave the process' memory only after an answer, or with it.      *)
ResultsKeptUntilAnswered ==
    [][(results # {} /\ results' = {}) => pc' = "dead" \/ work_id \in answered']_vars

(* proto.c: "probe_id NOTFOUND:  checks in again and returns 1".  A running *)
(* probe that was told so, and has removed its file, gets a registration.   *)
ForgottenProbeChecksInAgain ==
    (probe_id # 0 /\ probe_id \notin registered /\ id_file = NoText)
        ~> (probe_id \in registered \/ pc = "dead")

(* A packet the probe has begun is answered for, unless the process dies:   *)
(* the retry loop of collection_report is left.                             *)
PacketAnswered ==
    \A w \in WorkIds :
        (pc = "dispatch_getwork" /\ work_id = w) ~> (w \in answered \/ pc = "dead")

=============================================================================
