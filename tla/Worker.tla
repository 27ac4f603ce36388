------------------------------ MODULE Worker ------------------------------
(***************************************************************************)
(* One pass of mainiter over the task table: dispatch_getwork adds the     *)
(* tasks of a work packet, process_tasks performs them, collection_report  *)
(* empties the table into a report (src/main.c, src/work.c, the loops of   *)
(* src/lib/dispatch.c and src/lib/collection.c).  Here the servers are an  *)
(* environment that hands out packets and takes reports; module Probe puts *)
(* the protocol, the persisted files and failures around these steps.      *)
(*                                                                         *)
(* The probe is one thread; a step is one call on the table with what its  *)
(* caller does next.                                                       *)
(***************************************************************************)
EXTENDS TaskTable, FiniteSets

CONSTANTS
    AssignedTypes,  \* the task types the dispatch server assigns to this probe
    PacketMax,      \* pairs in a packet beside work_id; "only gives 10"
    NoWork          \* a work id no server ever issued (uninitialised buffer)

ASSUME WorkerAssumption ==
    /\ AssignedTypes \subseteq HandledTypes
    /\ PacketMax \in Nat
    /\ NoWork \notin WorkIds

VARIABLES
    pc,         \* the function mainiter is in
    tasks,      \* the task table
    task,       \* process_tasks' copy of the task it took
    work_id,    \* the packet being answered (dispatch_getwork's local)
    packet,     \* its pairs already read: the id, and whether they made a task
    results,    \* the name/value list collection_report is building
    wid,        \* its work_id buffer; meaningful once results # {}
    issued,     \* environment: work ids handed out so far
    sent        \* environment: results the collection server has taken

workerVars == <<pc, tasks, task, work_id, packet, results, wid, issued, sent>>

-----------------------------------------------------------------------------
(* Data.                                                                   *)

\* An entry of a report (task_to_s); workid and url are not sent, they say
\* which assignment the entry was made from.
Result(t) == [workid |-> t.workid, id |-> t.id, type |-> t.type,
              err |-> t.err, url |-> t.url]

Results == [workid : WorkIds, id : TaskIds, type : HandledTypes,
            err : ErrorCond, url : Urls]

\* Pairs the server sends: no two of a packet have the same name (the protocol's
\* "unique integer ID of this url"), and a readable type is one this probe can do.
Offerable == {o \in Offer : /\ o.type \in AssignedTypes \cup {"NULL_TASK"}
                            /\ \A p \in packet : p.id # o.id}

HttpOutcome == {"bad_url", "no_address", "failed", "redirects", "done"}

\* do_http_task's copy of the task after the run.
HttpMeasured(t, outcome) ==
    CASE outcome = "bad_url"    -> [t EXCEPT !.err = "OTHER_PROBLEM"]
      [] outcome = "no_address" -> [t EXCEPT !.err = "DNS_FAILURE", !.ip = "NONE"]
      [] outcome = "failed"     -> [t EXCEPT !.err = "OTHER_PROBLEM", !.ip = "FOUND"]
      [] outcome = "redirects"  -> [t EXCEPT !.err = "REDIRECTS_EXCEEDED", !.ip = "FOUND"]
      [] outcome = "done"       -> [t EXCEPT !.err = "SUCCESS", !.ip = "FOUND"]

\* Mutant: a task that was performed is not marked COMPLETE.
HttpTableUnmarked(tb, t, outcome) == UpdateTask(tb, HttpMeasured(t, outcome))

\* Mutant: the measurements stay in the copy.
HttpTableNotUpdated(tb, t, outcome) ==
    IF outcome \in {"bad_url", "no_address"} THEN tb
    ELSE TaskSetStatus(tb, t.id, "COMPLETE")

\* The table when do_http_task returns; it returns -1 unless "done".
HttpTable(tb, t, outcome) ==
    LET updated == UpdateTask(tb, HttpMeasured(t, outcome))
    IN  IF outcome \in {"bad_url", "no_address"}
        THEN updated
        ELSE TaskSetStatus(updated, t.id, "COMPLETE")

\* Mutant: a failed task is tried again.
AfterHandlerRetries(tb, id, failed) ==
    IF failed THEN TaskSetStatus(tb, id, "TODO") ELSE GetTaskId(tb, id)

\* What process_tasks does with the handler's return value, then the refetch
\* of the task for its "Completed:" message.
AfterHandler(tb, id, failed) ==
    GetTaskId(IF failed THEN TaskSetStatus(tb, id, "IMPOSSIBLE") ELSE tb, id)

-----------------------------------------------------------------------------
Init ==
    /\ pc = "get_jobs"
    /\ tasks = TasksInit
    /\ task = InitTask
    /\ work_id = 0
    /\ packet = {}
    /\ results = {}
    /\ wid = NoWork
    /\ issued = {}
    /\ sent = {}

\* get_jobs fails: mainiter sleeps and tries again.
NoJobs == pc = "get_jobs" /\ UNCHANGED workerVars

\* dispatch_getwork got a message with a work_id.
BeginPacket ==
    /\ pc = "get_jobs"
    /\ \E w \in WorkIds \ issued :
          /\ work_id' = w
          /\ issued' = issued \cup {w}
    /\ packet' = {}
    /\ pc' = "dispatch_getwork"
    /\ UNCHANGED <<tasks, task, results, wid, sent>>

\* One turn of its loop; the return value of task_add is not looked at.
AddOffer ==
    /\ pc = "dispatch_getwork"
    /\ Cardinality(packet) < PacketMax
    /\ \E o \in Offerable :
          LET t == NvToTask(work_id, o)
          IN  /\ packet' = packet \cup {[id |-> o.id, valid |-> ValidTask(t)]}
              /\ tasks' = IF ValidTask(t) THEN TaskAdd(tasks, t) ELSE tasks
    /\ UNCHANGED <<pc, task, work_id, results, wid, issued, sent>>

EndPacket ==
    /\ pc = "dispatch_getwork"
    /\ pc' = "process_tasks"
    /\ UNCHANGED <<tasks, task, work_id, packet, results, wid, issued, sent>>

TakeTask ==
    /\ pc = "process_tasks"
    /\ FindWithStatus(tasks, "TODO") # -1
    /\ tasks' = GetTask(tasks)
    /\ task' = tasks'[FindWithStatus(tasks, "TODO")]
    /\ pc' = "do_task"
    /\ UNCHANGED <<work_id, packet, results, wid, issued, sent>>

\* The copy is dead once the next get_task overwrites it: it is cleared.
Performed(tb) ==
    /\ tasks' = tb
    /\ task' = InitTask
    /\ pc' = "process_tasks"
    /\ UNCHANGED <<work_id, packet, results, wid, issued, sent>>

DoHttpTask ==
    /\ pc = "do_task" /\ ValidTask(task) /\ task.type = "HTTP"
    /\ \E outcome \in HttpOutcome :
          Performed(AfterHandler(HttpTable(tasks, task, outcome), task.id,
                                 outcome # "done"))

\* The answer of resolve() is dropped: the test is on the stored address.
DoDnsTask ==
    /\ pc = "do_task" /\ ValidTask(task) /\ task.type = "DNS"
    /\ Performed(AfterHandler(IF task.ip = "NONE" THEN tasks
                              ELSE TaskSetStatus(tasks, task.id, "COMPLETE"),
                              task.id, FALSE))

\* icmp_ping's result is returned, no status is set.
DoIcmpTask ==
    /\ pc = "do_task" /\ ValidTask(task) /\ task.type = "ICMP"
    /\ \E failed \in BOOLEAN :
          Performed(AfterHandler(tasks, task.id, failed))

AllProcessed ==
    /\ pc = "process_tasks"
    /\ FindWithStatus(tasks, "TODO") = -1
    /\ pc' = "collection_report"
    /\ results' = {}
    /\ UNCHANGED <<tasks, task, work_id, packet, wid, issued, sent>>

\* Mutant: the test on widg is the wrong way round.
DrainCompletedWidg ==
    /\ pc = "collection_report"
    /\ CompletedSlot(tasks) # -1
    /\ LET t == tasks[CompletedSlot(tasks)]
       IN  /\ results' = results \cup {Result(t)}
           /\ wid' = IF results # {} THEN t.workid ELSE wid
    /\ tasks' = GetCompleted(tasks)
    /\ UNCHANGED <<pc, task, work_id, packet, issued, sent>>

\* One turn of collection_report's loop; widg is results # {}.
DrainCompleted ==
    /\ pc = "collection_report"
    /\ CompletedSlot(tasks) # -1
    /\ LET t == tasks[CompletedSlot(tasks)]
       IN  /\ results' = results \cup {Result(t)}
           /\ wid' = IF results = {} THEN t.workid ELSE wid
    /\ tasks' = GetCompleted(tasks)
    /\ UNCHANGED <<pc, task, work_id, packet, issued, sent>>

\* Without a result the buffer was never written: it may hold anything.
EndDrain ==
    /\ pc = "collection_report"
    /\ CompletedSlot(tasks) = -1
    /\ wid' \in IF results = {} THEN WorkIds \cup {NoWork} ELSE {wid}
    /\ pc' = "proto_mesg_send"
    /\ UNCHANGED <<tasks, task, work_id, packet, results, issued, sent>>

\* Environment: the report arrives and the probe goes back to mainiter.
Delivered ==
    /\ pc = "proto_mesg_send"
    /\ sent' = sent \cup results
    /\ results' = {}
    /\ wid' = NoWork
    /\ pc' = "get_jobs"
    /\ UNCHANGED <<tasks, task, work_id, packet, issued>>

-----------------------------------------------------------------------------
WorkStep ==
    \/ AddOffer \/ EndPacket
    \/ TakeTask \/ DoHttpTask \/ DoDnsTask \/ DoIcmpTask \/ AllProcessed
    \/ DrainCompleted \/ EndDrain

Next == NoJobs \/ BeginPacket \/ WorkStep \/ Delivered

Spec == Init /\ [][Next]_workerVars

\* Inside these functions mainiter always has a next step (no run deadlocks).
Busy == pc \in {"dispatch_getwork", "process_tasks", "do_task", "collection_report"}

(* Weak fairness of the probe's own steps, Busy standing for the condition *)
(* that enables them: the one thread keeps running, its waits on the       *)
(* network all time out (for HTTP tasks; icmp_ping waits without a limit). *)
(* And of delivery: collection_report resends until it has an answer.      *)
Fairness ==
    /\ []<>~Busy \/ []<><<WorkStep>>_workerVars
    /\ WF_workerVars(Delivered)

FairSpec == Spec /\ Fairness

-----------------------------------------------------------------------------
(* Properties.                                                             *)

TypeOK ==
    /\ pc \in {"get_jobs", "dispatch_getwork", "process_tasks", "do_task",
               "collection_report", "proto_mesg_send"}
    /\ tasks \in [Slot -> Task]
    /\ task \in Task
    /\ work_id \in WorkIds \cup {0}
    /\ packet \subseteq [id : TaskIds \cup {0}, valid : BOOLEAN]
    /\ results \subseteq Results
    /\ wid \in WorkIds \cup {NoWork}
    /\ issued \subseteq WorkIds
    /\ sent \subseteq Results

Used == {i \in Slot : tasks[i].type # "NULL_TASK"}

(* An unused slot is wholly unused, a used one wholly used: an id of 0 or a *)
(* half-parsed pair never enters the table, and marking one task impossible *)
(* never walks into the unused slots, whose id and parent are 0.            *)
SlotsCoherent == Coherent(tasks)

(* The two places that record how a task ended agree: between handlers, a  *)
(* task is COMPLETE exactly when it was measured successfully, though a    *)
(* failed HTTP run passes through COMPLETE on its way to IMPOSSIBLE.        *)
StatusTellsVerdict ==
    \A i \in Slot :
        /\ tasks[i].status = "COMPLETE" => tasks[i].err = "SUCCESS"
        /\ tasks[i].status = "IMPOSSIBLE" => tasks[i].err # "SUCCESS"

(* update_task and task_set_status look a task up by its id alone, and the  *)
(* server uses an id again in a later packet.  The first slot with the id   *)
(* is still the one the task being performed was taken from, so what is     *)
(* measured for this packet does not end up in the task of an earlier one.  *)
LookupFindsTakenTask ==
    pc = "do_task" =>
        \E i \in Slot : /\ i = FindWithId(tasks, task.id)
                       /\ tasks[i].status = "RUNNING"
                       /\ tasks[i].workid = task.workid

(* process_tasks: "Processes tasks.  All the tasks."  When it has returned, *)
(* no task is still waiting or still running.                               *)
AllTasksProcessed ==
    pc \in {"collection_report", "proto_mesg_send", "get_jobs"} =>
        \A i \in Slot : tasks[i].status \notin {"TODO", "RUNNING"}

(* task_add's failure is ignored by dispatch, so no well-formed pair of the *)
(* packet being read may meet a full table.                                 *)
NoTaskDropped ==
    pc = "dispatch_getwork" =>
        \A p \in packet : p.valid =>
            \E i \in Slot : tasks[i].id = p.id /\ tasks[i].workid = work_id

(* A report has one work_id for all its results: it is the packet each of  *)
(* them was assigned in, and the one this pass fetched.                     *)
ReportIsOnePacket ==
    \A r \in results : r.workid = wid /\ r.workid = work_id

(* protocol.html, message 3: work_id is the "work id we completed", also    *)
(* for a packet none of whose pairs gave a result.                          *)
ReportNamesItsPacket == pc = "proto_mesg_send" => wid = work_id

-----------------------------------------------------------------------------
(* Refinement: the table and the report under construction hold the        *)
(* assignments, delivery reports them.                                      *)

Assignment(t) == [workid |-> t.workid, id |-> t.id, type |-> t.type, url |-> t.url]

Held == {Assignment(tasks[i]) : i \in Used} \cup {Assignment(r) : r \in results}

Reported == {[assignment |-> Assignment(r), verdict |-> r.err] : r \in sent}

Ledger == INSTANCE WorkLedger WITH
              held <- Held,
              reported <- Reported,
              Assignments <- [workid : WorkIds, id : TaskIds, type : HandledTypes, url : Urls],
              Verdicts <- ErrorCond \ {"UNDEFINED"}

(* Every accepted assignment is held until it is reported, once, with a     *)
(* measured verdict, on its own URL and under its own packet.               *)
KeepsLedger == Ledger!LedgerSpec

(* Every task that gets into the table leaves it in a report.               *)
EveryTaskReported ==
    \A w \in WorkIds, n \in TaskIds :
        (\E i \in Slot : tasks[i].workid = w /\ tasks[i].id = n)
            ~> (\E r \in sent : r.workid = w /\ r.id = n)

=============================================================================
