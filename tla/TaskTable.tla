----------------------------- MODULE TaskTable -----------------------------
(***************************************************************************)
(* The probe's task stack (src/lib/task.c, src/lib/task.h): a fixed array  *)
(* of MAX_TASKS records that dispatch fills, the worker runs down and      *)
(* collection empties.  Every operator is one function of task.c, on a     *)
(* table value: it takes the array `tb' and returns the array afterwards.  *)
(*                                                                         *)
(* Abstractions.  The four HTTP and HTTPS task types share one handler and *)
(* are the single type "HTTP".  Of the measurements only the resolved      *)
(* address (present or not), the error condition and the URL they were     *)
(* taken on are kept; times and sizes are left out.  VALID_TASK_MAGIC is a *)
(* Boolean.                                                                *)
(***************************************************************************)
EXTENDS Integers

CONSTANTS
    MaxTasks,   \* MAX_TASKS, 15 in task.h
    TaskIds,    \* the non-zero ids a work packet gives its tasks
    WorkIds,    \* the non-zero ids of work packets
    Urls,       \* what a task is to be performed on
    NoUrl       \* the empty data of an unused slot

ASSUME TableAssumption ==
    /\ MaxTasks \in Nat \ {0}
    /\ 0 \notin TaskIds
    /\ 0 \notin WorkIds
    /\ NoUrl \notin Urls

Slot == 0 .. MaxTasks - 1

TaskStat == {"INVALID", "TODO", "RUNNING", "COMPLETE", "IMPOSSIBLE"}

HandledTypes == {"HTTP", "DNS", "ICMP"}

TaskType == {"NULL_TASK"} \cup HandledTypes

ErrorCond ==
    {"UNDEFINED", "SUCCESS", "DNS_FAILURE", "REDIRECTS_EXCEEDED", "OTHER_PROBLEM"}

Task == [magic  : BOOLEAN,
         status : TaskStat,
         type   : TaskType,
         err    : ErrorCond,
         id     : TaskIds \cup {0},
         workid : WorkIds \cup {0},
         parent : {0},
         url    : Urls \cup {NoUrl},
         ip     : {"NONE", "FOUND"}]

\* init_task: what an unused slot holds.
InitTask == [magic  |-> FALSE,
             status |-> "INVALID",
             type   |-> "NULL_TASK",
             err    |-> "UNDEFINED",
             id     |-> 0,
             workid |-> 0,
             parent |-> 0,
             url    |-> NoUrl,
             ip     |-> "NONE"]

TasksInit == [i \in Slot |-> InitTask]

-----------------------------------------------------------------------------
(* Searches: each returns the lowest matching index, or -1.                *)

Lowest(S) == IF S = {} THEN -1 ELSE CHOOSE i \in S : \A j \in S : i <= j

FindWithStatus(tb, s) == Lowest({i \in Slot : tb[i].status = s})

FindWithType(tb, t) == Lowest({i \in Slot : tb[i].type = t})

FindWithId(tb, id) == Lowest({i \in Slot : tb[i].id = id})

-----------------------------------------------------------------------------
(* A pair of a work packet: the name is the task's id as atoi reads it (0  *)
(* if it is no number), the value "TYPE,ACTION,URL" may lack a comma.      *)

Offer == [id : TaskIds \cup {0}, type : TaskType, url : Urls, wellformed : BOOLEAN]

NvToTask(workid, o) ==
    IF o.id = 0
    THEN [InitTask EXCEPT !.workid = workid]
    ELSE IF ~o.wellformed
    THEN [InitTask EXCEPT !.workid = workid, !.id = o.id, !.type = o.type]
    ELSE [InitTask EXCEPT !.workid = workid, !.id = o.id, !.type = o.type,
                          !.url = o.url, !.magic = TRUE, !.status = "TODO"]

ValidTask(t) == t.magic /\ t.status # "INVALID" /\ t.type # "NULL_TASK"

-----------------------------------------------------------------------------
(* Operations.                                                             *)

TaskAdd(tb, t) ==
    LET i == FindWithType(tb, "NULL_TASK")
    IN  IF ~t.magic \/ i = -1
        THEN tb
        ELSE [tb EXCEPT ![i] = [t EXCEPT !.status = "TODO"]]

\* get_task, when some task is TODO: the caller copies the slot this starts.
GetTask(tb) == [tb EXCEPT ![FindWithStatus(tb, "TODO")].status = "RUNNING"]

\* Mutant: impossible tasks are not handed out.
CompletedSlotOnly(tb) == FindWithStatus(tb, "COMPLETE")

\* The slot get_completed hands out: a completed task before an impossible one.
CompletedSlot(tb) ==
    LET done == FindWithStatus(tb, "COMPLETE")
    IN  IF done # -1 THEN done ELSE FindWithStatus(tb, "IMPOSSIBLE")

\* Mutant: the slot is freed for task_add but not reset.
GetCompletedFreesType(tb) == [tb EXCEPT ![CompletedSlot(tb)].type = "NULL_TASK"]

GetCompleted(tb) == [tb EXCEPT ![CompletedSlot(tb)] = InitTask]

GetTaskId(tb, id) ==
    LET i == FindWithId(tb, id)
    IN  IF i # -1 /\ tb[i].status = "TODO"
        THEN [tb EXCEPT ![i].status = "RUNNING"]
        ELSE tb

(***************************************************************************)
(* mark_impossible and mark call each other down the tree of tasks whose   *)
(* parent is the given one; Descendants is the least set of slots closed   *)
(* under that walk.  It is all of the unused slots as soon as the id is 0. *)
(***************************************************************************)
ClosedUnderParent(tb, id, S) ==
    \A k \in Slot : (tb[k].parent = id \/ \E i \in S : tb[k].parent = tb[i].id) => k \in S

Descendants(tb, id) ==
    {k \in Slot : \A S \in SUBSET Slot : ClosedUnderParent(tb, id, S) => k \in S}

MarkImpossible(tb, id) ==
    [k \in Slot |-> IF k \in Descendants(tb, id)
                    THEN [tb[k] EXCEPT !.status = "IMPOSSIBLE"]
                    ELSE tb[k]]

TaskSetStatus(tb, id, status) ==
    LET i  == FindWithId(tb, id)
        up == [tb EXCEPT ![i].status = status]
    IN  IF i = -1 THEN tb
        ELSE IF status = "IMPOSSIBLE" THEN MarkImpossible(up, id)
        ELSE up

\* Mutant: the measurements go to the first task with that work packet.
UpdateTaskOfPacket(tb, t) ==
    LET i == Lowest({j \in Slot : tb[j].workid = t.workid})
    IN  IF i = -1 THEN tb
        ELSE [tb EXCEPT ![i] = [t EXCEPT !.magic  = tb[i].magic,
                                         !.status = tb[i].status,
                                         !.type   = tb[i].type,
                                         !.workid = tb[i].workid]]

\* update_task: new measurements, but the slot's own magic, status, type and
\* work packet.
UpdateTask(tb, t) ==
    LET i == FindWithId(tb, t.id)
    IN  IF i = -1 THEN tb
        ELSE [tb EXCEPT ![i] = [t EXCEPT !.magic  = tb[i].magic,
                                         !.status = tb[i].status,
                                         !.type   = tb[i].type,
                                         !.workid = tb[i].workid]]

-----------------------------------------------------------------------------
(* An unused slot is wholly unused and a used one wholly used.             *)
Occupied(t) ==
    /\ ValidTask(t)
    /\ t.id # 0 /\ t.workid # 0 /\ t.url # NoUrl

Coherent(tb) ==
    \A i \in Slot : IF tb[i].type = "NULL_TASK" THEN tb[i] = InitTask ELSE Occupied(tb[i])

=============================================================================
