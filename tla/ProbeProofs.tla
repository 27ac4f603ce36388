---------------------------- MODULE ProbeProofs ----------------------------
(***************************************************************************)
(* The task table in every run of the worker, for any table size, ids,     *)
(* URLs and assigned task types: first lemmas about the operators of        *)
(* TaskTable (what the searches return, and that every operation maps       *)
(* tables to tables), then type correctness, coherence of the slots, and    *)
(* that the two places where a task's end is recorded agree; at last what   *)
(* is guaranteed to a probe that is given HTTP and HTTPS tasks only.        *)
(*                                                                         *)
(* Then the whole probe, for any number of ids, packets, tasks and faults:  *)
(* its id in three places stems from one text, a report goes out under the  *)
(* id its packet was given to but for one spelled with a leading zero, only *)
(* a check-in that was cut short or brought no key leaves a registered      *)
(* probe without the key it needs for the answers, results are kept until   *)
(* the server has answered, and a probe of HTTP tasks reports a result for  *)
(* every pair of its packet.                                               *)
(***************************************************************************)
EXTENDS Probe, FiniteSetTheorems, WellFoundedInduction, TLAPS

-----------------------------------------------------------------------------
(* The worker.                                                             *)

(* A search that can succeed returns a matching slot and no earlier one     *)
(* matches; one that cannot returns -1 (tasks_itest).                       *)
LEMMA LowestIsLeast ==
    ASSUME NEW S, S \subseteq Slot, S # {}
    PROVE  /\ Lowest(S) \in S
           /\ \A j \in S : Lowest(S) <= j
           /\ Lowest(S) # -1
<1>1. S \subseteq Nat
  BY TableAssumption DEF Slot
<1>2. PICK m \in S : \A y \in S : ~(<<y, m>> \in OpToRel(<, Nat))
  BY <1>1, NatLessThanWellFounded, WFMin
<1>3. \A y \in S : m <= y
  <2>1. SUFFICES ASSUME NEW y \in S PROVE ~(y < m)
    BY <1>1, SMT
  <2>2. <<y, m>> \in Nat \X Nat
    BY <1>1
  <2>3. y < m => <<y, m>> \in OpToRel(<, Nat)
    BY <2>2, Zenon DEF OpToRel
  <2>4. QED
    BY <1>2, <2>3
<1>4. Lowest(S) = CHOOSE i \in S : \A j \in S : i <= j
  BY DEF Lowest
<1>5. Lowest(S) \in S /\ \A j \in S : Lowest(S) <= j
  BY <1>3, <1>4, Zenon
<1>6. QED
  BY <1>1, <1>5, SMT

(* A search without a match returns -1.                                    *)
LEMMA LowestOfNone == Lowest({}) = -1
  BY DEF Lowest

(* A search returns a matching slot or -1.                                 *)
LEMMA LowestType ==
    ASSUME NEW S, S \subseteq Slot
    PROVE  Lowest(S) \in S \cup {-1}
  BY LowestIsLeast, LowestOfNone

-----------------------------------------------------------------------------
Table == [Slot -> Task]

(* A search by status, type or id ends at a slot that matches, or at -1.   *)
LEMMA FindType ==
    ASSUME NEW tb \in Table, NEW x
    PROVE  /\ FindWithStatus(tb, x) \in {i \in Slot : tb[i].status = x} \cup {-1}
           /\ FindWithType(tb, x) \in {i \in Slot : tb[i].type = x} \cup {-1}
           /\ FindWithId(tb, x) \in {i \in Slot : tb[i].id = x} \cup {-1}
  BY LowestType DEF FindWithStatus, FindWithType, FindWithId

(* The -1 of a failed search is no index of the array.                     *)
LEMMA NoSlotMinusOne == -1 \notin Slot
  BY TableAssumption DEF Slot

(* What init_task writes is a task record.                                 *)
LEMMA InitTaskType == InitTask \in Task
  BY DEF InitTask, Task, TaskStat, TaskType, HandledTypes, ErrorCond

(* tasks_init: a table of unused slots is coherent.                        *)
LEMMA TasksInitCoherent == TasksInit \in Table /\ Coherent(TasksInit)
<1>1. InitTask.type = "NULL_TASK"
  BY DEF InitTask
<1>2. QED
  BY <1>1, InitTaskType DEF TasksInit, Table, Coherent

(* Marking the children of a task with a real id impossible marks nothing: *)
(* every task in the table has parent 0 (task.h: "0 for tasks direct from  *)
(* the dispatch server"), so the walk of mark_impossible stays empty.      *)
LEMMA MarkNothing ==
    ASSUME NEW tb \in Table, NEW id \in TaskIds
    PROVE  MarkImpossible(tb, id) = tb
<1>1. \A k \in Slot : tb[k].parent # id
  BY TableAssumption DEF Table, Task
<1>2. ClosedUnderParent(tb, id, {})
  BY <1>1 DEF ClosedUnderParent
<1>3. Descendants(tb, id) = {}
  BY <1>2 DEF Descendants
<1>4. QED
  BY <1>3 DEF MarkImpossible, Table

-----------------------------------------------------------------------------
(* Each operation of task.c maps coherent tables to coherent tables.       *)

Good(tb) == tb \in Table /\ Coherent(tb)

(* task_add: a valid task goes to an unused slot, whole, or is dropped.    *)
LEMMA TaskAddGood ==
    ASSUME NEW tb, Good(tb), NEW t \in Task, Occupied(t)
    PROVE  Good(TaskAdd(tb, t))
<1> DEFINE i == FindWithType(tb, "NULL_TASK")
           s == [t EXCEPT !.status = "TODO"]
<1>1. s \in Task /\ Occupied(s) /\ s.type # "NULL_TASK"
  BY DEF Task, TaskStat, Occupied, ValidTask
<1>2. i = -1 \/ i \in Slot
  BY FindType DEF Good
<1>3. CASE i = -1
  BY <1>3 DEF TaskAdd, Good
<1>4. CASE i \in Slot
  <2>1. TaskAdd(tb, t) = [tb EXCEPT ![i] = s]
    BY <1>4, NoSlotMinusOne DEF TaskAdd, Occupied, ValidTask
  <2>2. QED
    BY <1>1, <1>4, <2>1 DEF Good, Table, Coherent
<1>5. QED
  BY <1>2, <1>3, <1>4

(* Setting the status of a used slot leaves it used.                       *)
LEMMA SetStatusGood ==
    ASSUME NEW tb, Good(tb), NEW i \in Slot, tb[i].type # "NULL_TASK",
           NEW st \in TaskStat \ {"INVALID"}
    PROVE  Good([tb EXCEPT ![i].status = st])
<1> DEFINE s == [tb[i] EXCEPT !.status = st]
<1>1. tb[i] \in Task /\ Occupied(tb[i])
  BY DEF Good, Table, Coherent
<1>2. s \in Task /\ Occupied(s) /\ s.type # "NULL_TASK"
  BY <1>1 DEF Task, Occupied, ValidTask
<1>3. [tb EXCEPT ![i].status = st] = [tb EXCEPT ![i] = s]
  BY DEF Good, Table
<1>4. QED
  BY <1>2, <1>3 DEF Good, Table, Coherent

(* get_task starts a task that is in a used slot.                          *)
LEMMA GetTaskGood ==
    ASSUME NEW tb, Good(tb), FindWithStatus(tb, "TODO") # -1
    PROVE  /\ Good(GetTask(tb))
           /\ FindWithStatus(tb, "TODO") \in Slot
           /\ tb[FindWithStatus(tb, "TODO")].type # "NULL_TASK"
<1> DEFINE i == FindWithStatus(tb, "TODO")
<1>1. i \in Slot /\ tb[i].status = "TODO"
  BY FindType DEF Good
<1>2. tb[i].type # "NULL_TASK"
  BY <1>1 DEF Good, Coherent, InitTask
<1>3. QED
  BY <1>1, <1>2, SetStatusGood DEF GetTask, TaskStat

(* get_task_id starts a used slot or changes nothing.                      *)
LEMMA GetTaskIdGood ==
    ASSUME NEW tb, Good(tb), NEW id \in TaskIds
    PROVE  Good(GetTaskId(tb, id))
<1> DEFINE i == FindWithId(tb, id)
<1>1. CASE i # -1 /\ tb[i].status = "TODO"
  <2>1. i \in Slot /\ tb[i].type # "NULL_TASK"
    BY <1>1, FindType DEF Good, Coherent, InitTask
  <2>2. QED
    BY <1>1, <2>1, SetStatusGood DEF GetTaskId, TaskStat
<1>2. QED
  BY <1>1 DEF GetTaskId

(* get_completed hands out a used slot and empties it wholly.              *)
LEMMA GetCompletedGood ==
    ASSUME NEW tb, Good(tb), CompletedSlot(tb) # -1
    PROVE  /\ CompletedSlot(tb) \in Slot
           /\ tb[CompletedSlot(tb)].type # "NULL_TASK"
           /\ Good(GetCompleted(tb))
<1> DEFINE i == CompletedSlot(tb)
<1>1. i \in Slot /\ tb[i].status \in {"COMPLETE", "IMPOSSIBLE"}
  BY FindType DEF Good, CompletedSlot
<1>2. tb[i].type # "NULL_TASK"
  BY <1>1 DEF Good, Coherent, InitTask
<1>3. InitTask.type = "NULL_TASK"
  BY DEF InitTask
<1>4. QED
  BY <1>1, <1>2, <1>3, InitTaskType DEF GetCompleted, Good, Table, Coherent

(* task_set_status, with the walk of mark_impossible it may set off.       *)
LEMMA TaskSetStatusGood ==
    ASSUME NEW tb, Good(tb), NEW id \in TaskIds,
           NEW st \in TaskStat \ {"INVALID"}
    PROVE  Good(TaskSetStatus(tb, id, st))
<1> DEFINE i  == FindWithId(tb, id)
           up == [tb EXCEPT ![i].status = st]
<1>1. CASE i = -1
  BY <1>1 DEF TaskSetStatus
<1>2. CASE i # -1
  <2>1. i \in Slot /\ tb[i].id = id
    BY <1>2, FindType DEF Good
  <2>2. tb[i].type # "NULL_TASK"
    BY <2>1, TableAssumption DEF Good, Coherent, InitTask
  <2>3. Good(up)
    BY <2>1, <2>2, SetStatusGood
  <2>4. MarkImpossible(up, id) = up
    BY <2>3, MarkNothing DEF Good
  <2>5. QED
    BY <1>2, <2>3, <2>4 DEF TaskSetStatus
<1>3. QED
  BY <1>1, <1>2

(* update_task writes into a used slot, and what it writes is a whole task.*)
LEMMA UpdateTaskGood ==
    ASSUME NEW tb, Good(tb), NEW t \in Task, t.id # 0, t.url # NoUrl
    PROVE  Good(UpdateTask(tb, t))
<1> DEFINE i == FindWithId(tb, t.id)
           s == [t EXCEPT !.magic = tb[i].magic, !.status = tb[i].status,
                          !.type = tb[i].type, !.workid = tb[i].workid]
<1>1. CASE i = -1
  BY <1>1 DEF UpdateTask
<1>2. CASE i # -1
  <2>1. i \in Slot /\ tb[i].id = t.id
    BY <1>2, FindType DEF Good
  <2>2. tb[i].type # "NULL_TASK"
    BY <2>1 DEF Good, Coherent, InitTask
  <2>3. tb[i] \in Task /\ Occupied(tb[i])
    BY <2>1, <2>2 DEF Good, Table, Coherent
  <2>4. s \in Task /\ Occupied(s) /\ s.type # "NULL_TASK"
    BY <2>2, <2>3 DEF Task, Occupied, ValidTask
  <2>5. UpdateTask(tb, t) = [tb EXCEPT ![i] = s]
    BY <1>2 DEF UpdateTask
  <2>6. QED
    BY <2>1, <2>4, <2>5 DEF Good, Table, Coherent
<1>3. QED
  BY <1>1, <1>2
-----------------------------------------------------------------------------

(* SlotsCoherent is not inductive alone: it needs that the task being       *)
(* performed, and the packet being read, carry real ids.                   *)
WorkerInv ==
    /\ TypeOK
    /\ SlotsCoherent
    /\ pc = "do_task" => Occupied(task)
    /\ pc = "dispatch_getwork" => work_id # 0

(* The invariant says of the table what the lemmas on task.c ask for.      *)
LEMMA GoodTasks == WorkerInv => Good(tasks)
  BY DEF WorkerInv, TypeOK, SlotsCoherent, Good, Table

(* A pair that passes valid_task gives a task fit for the table.            *)
LEMMA NvToTaskOccupied ==
    ASSUME NEW w \in WorkIds, NEW o \in Offer, ValidTask(NvToTask(w, o))
    PROVE  NvToTask(w, o) \in Task /\ Occupied(NvToTask(w, o))
<1> DEFINE t == NvToTask(w, o)
<1>1. o.id # 0 /\ o.wellformed
  BY DEF ValidTask, NvToTask, InitTask
<1>2. t = [InitTask EXCEPT !.workid = w, !.id = o.id, !.type = o.type,
                           !.url = o.url, !.magic = TRUE, !.status = "TODO"]
  BY <1>1 DEF NvToTask
<1>3. t \in Task
  BY <1>2, InitTaskType DEF Task, Offer, TaskStat
<1>4. t.id # 0 /\ t.workid # 0 /\ t.url # NoUrl
  BY <1>1, <1>2, TableAssumption DEF Offer, InitTask
<1>5. QED
  BY <1>3, <1>4 DEF Occupied

(* do_http_task measures: id and URL of the copy stay as they were.        *)
LEMMA HttpMeasuredType ==
    ASSUME NEW t \in Task, Occupied(t), NEW o \in HttpOutcome
    PROVE  /\ HttpMeasured(t, o) \in Task
           /\ HttpMeasured(t, o).id = t.id
           /\ HttpMeasured(t, o).url = t.url
  BY DEF HttpMeasured, HttpOutcome, Task, ErrorCond

(* What process_tasks does after a handler keeps the table coherent.       *)
LEMMA AfterHandlerGood ==
    ASSUME NEW tb, Good(tb), NEW id \in TaskIds, NEW failed \in BOOLEAN
    PROVE  Good(AfterHandler(tb, id, failed))
<1>1. Good(TaskSetStatus(tb, id, "IMPOSSIBLE"))
  BY TaskSetStatusGood DEF TaskStat
<1>2. QED
  BY <1>1, GetTaskIdGood DEF AfterHandler

(* do_http_task keeps the table coherent, however the run ended.           *)
LEMMA HttpTableGood ==
    ASSUME NEW tb, Good(tb), NEW t \in Task, Occupied(t), NEW o \in HttpOutcome
    PROVE  Good(HttpTable(tb, t, o))
<1> DEFINE up == UpdateTask(tb, HttpMeasured(t, o))
<1>1. Good(up)
  BY HttpMeasuredType, UpdateTaskGood DEF Occupied
<1>2. t.id \in TaskIds
  BY DEF Task, Occupied
<1>3. Good(TaskSetStatus(up, t.id, "COMPLETE"))
  BY <1>1, <1>2, TaskSetStatusGood DEF TaskStat
<1>4. QED
  BY <1>1, <1>3 DEF HttpTable

(* A task from a used slot makes an entry of a report (task_to_s).         *)
LEMMA ResultType ==
    ASSUME NEW t \in Task, Occupied(t)
    PROVE  Result(t) \in Results
  BY DEF Result, Results, Task, Occupied, ValidTask, TaskType

-----------------------------------------------------------------------------
(* The empty table the probe starts with satisfies the invariant.          *)
LEMMA InitInv == Init => WorkerInv
<1> SUFFICES ASSUME Init PROVE WorkerInv
  OBVIOUS
<1>1. Good(tasks)
  BY TasksInitCoherent DEF Init, Good
<1>2. TypeOK
  BY <1>1, InitTaskType DEF Init, TypeOK, Good, Table
<1>3. QED
  BY <1>1, <1>2 DEF WorkerInv, SlotsCoherent, Good, Init

(* The step of a handler: the table it leaves is all that matters.          *)
LEMMA PerformedInv ==
    ASSUME WorkerInv, NEW tb, Good(tb), Performed(tb)
    PROVE  WorkerInv'
<1>1. TypeOK'
  BY InitTaskType DEF WorkerInv, TypeOK, Performed, Good, Table
<1>2. SlotsCoherent'
  BY DEF Performed, SlotsCoherent, Good, Coherent
<1>3. QED
  BY <1>1, <1>2 DEF WorkerInv, Performed

(* Every step of mainiter keeps the invariant, one case per action.        *)
LEMMA NextInv == WorkerInv /\ [Next]_workerVars => WorkerInv'
<1> SUFFICES ASSUME WorkerInv, [Next]_workerVars PROVE WorkerInv'
  OBVIOUS
<1> USE DEF WorkerInv
<1>g. Good(tasks)
  BY GoodTasks
<1>1. CASE NoJobs \/ UNCHANGED workerVars
  BY <1>1 DEF NoJobs, workerVars, TypeOK, SlotsCoherent, Coherent
<1>2. CASE BeginPacket
  BY <1>2, TableAssumption DEF BeginPacket, TypeOK, SlotsCoherent, Coherent
<1>3. CASE AddOffer
  <2>1. PICK o \in Offerable :
            /\ packet' = packet \cup {[id |-> o.id, valid |-> ValidTask(NvToTask(work_id, o))]}
            /\ tasks' = IF ValidTask(NvToTask(work_id, o))
                        THEN TaskAdd(tasks, NvToTask(work_id, o)) ELSE tasks
    BY <1>3 DEF AddOffer
  <2>2. work_id \in WorkIds /\ o \in Offer
    BY <1>3 DEF AddOffer, TypeOK, Offerable
  <2>3. Good(tasks')
    BY <1>g, <2>1, <2>2, NvToTaskOccupied, TaskAddGood
  <2>4. packet' \subseteq [id : TaskIds \cup {0}, valid : BOOLEAN]
    <3>1. ValidTask(NvToTask(work_id, o)) \in BOOLEAN
      BY DEF ValidTask, NvToTask, InitTask
    <3>2. QED
      BY <2>1, <2>2, <3>1 DEF TypeOK, Offer
  <2>5. QED
    BY <1>3, <2>3, <2>4 DEF AddOffer, TypeOK, SlotsCoherent, Good, Table, Coherent
<1>4. CASE EndPacket
  BY <1>4 DEF EndPacket, TypeOK, SlotsCoherent, Coherent
<1>5. CASE TakeTask
  <2>1. Good(tasks')
    BY <1>5, <1>g, GetTaskGood DEF TakeTask
  <2>2. /\ task' = tasks'[FindWithStatus(tasks, "TODO")]
        /\ FindWithStatus(tasks, "TODO") \in Slot
        /\ tasks[FindWithStatus(tasks, "TODO")].type # "NULL_TASK"
    BY <1>5, <1>g, GetTaskGood DEF TakeTask
  <2>3. task' \in Task /\ task'.type # "NULL_TASK"
    BY <1>5, <2>1, <2>2 DEF TakeTask, GetTask, Good, Table, Task
  <2>4. Occupied(task')
    BY <2>1, <2>2, <2>3 DEF Good, Coherent
  <2>5. QED
    BY <1>5, <2>1, <2>3, <2>4 DEF TakeTask, TypeOK, SlotsCoherent, Good, Table, Coherent
<1>6. CASE DoHttpTask \/ DoDnsTask \/ DoIcmpTask
  <2>1. task \in Task /\ Occupied(task) /\ task.id \in TaskIds
    BY <1>6 DEF DoHttpTask, DoDnsTask, DoIcmpTask, TypeOK, Occupied, Task
  <2>2. CASE DoHttpTask
    <3>1. PICK o \in HttpOutcome :
            Performed(AfterHandler(HttpTable(tasks, task, o), task.id, o # "done"))
      BY <2>2 DEF DoHttpTask
    <3>2. QED
      BY <1>g, <2>1, <3>1, HttpTableGood, AfterHandlerGood, PerformedInv
  <2>3. CASE DoDnsTask
    <3> DEFINE tb == IF task.ip = "NONE" THEN tasks
                     ELSE TaskSetStatus(tasks, task.id, "COMPLETE")
    <3>1. Good(tb)
      BY <1>g, <2>1, TaskSetStatusGood DEF TaskStat
    <3>2. Good(AfterHandler(tb, task.id, FALSE))
      BY <2>1, <3>1, AfterHandlerGood
    <3>3. Performed(AfterHandler(tb, task.id, FALSE))
      BY <2>3 DEF DoDnsTask
    <3>4. QED
      BY <3>2, <3>3, PerformedInv
  <2>4. CASE DoIcmpTask
    <3>1. PICK failed \in BOOLEAN : Performed(AfterHandler(tasks, task.id, failed))
      BY <2>4 DEF DoIcmpTask
    <3>2. QED
      BY <1>g, <2>1, <3>1, AfterHandlerGood, PerformedInv
  <2>5. QED
    BY <1>6, <2>2, <2>3, <2>4
<1>7. CASE AllProcessed
  BY <1>7 DEF AllProcessed, TypeOK, SlotsCoherent, Coherent
<1>8. CASE DrainCompleted
  <2> DEFINE t == tasks[CompletedSlot(tasks)]
  <2>1. /\ t \in Task /\ Occupied(t)
        /\ Good(tasks')
    BY <1>8, <1>g, GetCompletedGood DEF DrainCompleted, Good, Table, Coherent
  <2>2. Result(t) \in Results /\ t.workid \in WorkIds
    BY <2>1, ResultType DEF Task, Occupied
  <2>3. results' = results \cup {Result(t)} /\ wid' \in {t.workid, wid}
    BY <1>8 DEF DrainCompleted
  <2>4. QED
    BY <1>8, <2>1, <2>2, <2>3
    DEF DrainCompleted, TypeOK, SlotsCoherent, Good, Table, Coherent
<1>9. CASE EndDrain
  BY <1>9 DEF EndDrain, TypeOK, SlotsCoherent, Coherent
<1>10. CASE Delivered
  BY <1>10 DEF Delivered, TypeOK, SlotsCoherent, Coherent
<1>11. QED
  BY <1>1, <1>2, <1>3, <1>4, <1>5, <1>6, <1>7, <1>8, <1>9, <1>10 DEF Next, WorkStep

(* The inductive invariant holds in every behaviour of the worker.          *)
THEOREM WorkerInvariant == Spec => []WorkerInv
  BY InitInv, NextInv, PTL DEF Spec

(* Types: among others, that only results of real, handled tasks of issued  *)
(* packets are ever reported, whatever the packets contain.                 *)
THEOREM WorkerTypeCorrect == Spec => []TypeOK
<1>1. WorkerInv => TypeOK
  BY DEF WorkerInv
<1>2. QED
  BY <1>1, WorkerInvariant, PTL

(* The slots of lib/task.c are coherent for every table size and packet: a  *)
(* slot is wholly empty or holds a task with a real id, packet and URL, so  *)
(* no half-parsed pair or stray mark_impossible ever reaches a report.      *)
THEOREM WorkerSlotsCoherent == Spec => []SlotsCoherent
<1>1. WorkerInv => SlotsCoherent
  BY DEF WorkerInv
<1>2. QED
  BY <1>1, WorkerInvariant, PTL

-----------------------------------------------------------------------------
(***************************************************************************)
(* One handler's effect on the table.  update_task and task_set_status go   *)
(* to the first slot with the id of the task; that slot is looked up anew   *)
(* by each of them and is the same each time, as none changes an id.        *)
(***************************************************************************)
Ended == {"COMPLETE", "IMPOSSIBLE"}

Measured(t, old) == [t EXCEPT !.magic = old.magic, !.status = old.status,
                              !.type = old.type,   !.workid = old.workid]

WithStatus(tb, i, st) == [tb EXCEPT ![i] = [tb[i] EXCEPT !.status = st]]

(* A search by id sees nothing of a table but its ids.                      *)
LEMMA SameIds ==
    ASSUME NEW tb, NEW tb2, \A j \in Slot : tb2[j].id = tb[j].id, NEW n
    PROVE  FindWithId(tb2, n) = FindWithId(tb, n)
<1>1. {j \in Slot : tb2[j].id = n} = {j \in Slot : tb[j].id = n}
  OBVIOUS
<1>2. QED
  BY <1>1 DEF FindWithId

(* The slot a search by a real id ends at is a used one with that id.       *)
LEMMA FoundSlot ==
    ASSUME NEW tb, Good(tb), NEW n \in TaskIds, FindWithId(tb, n) # -1
    PROVE  /\ FindWithId(tb, n) \in Slot
           /\ tb[FindWithId(tb, n)] \in Task /\ Occupied(tb[FindWithId(tb, n)])
           /\ tb[FindWithId(tb, n)].id = n
           /\ tb[FindWithId(tb, n)].type # "NULL_TASK"
<1>1. FindWithId(tb, n) \in Slot /\ tb[FindWithId(tb, n)].id = n
  BY FindType DEF Good
<1>2. tb[FindWithId(tb, n)].type # "NULL_TASK"
  BY <1>1, TableAssumption DEF Good, Coherent, InitTask
<1>3. QED
  BY <1>1, <1>2 DEF Good, Table, Coherent

(* task_set_status on a task in the table changes that task's status and    *)
(* nothing else.                                                            *)
LEMMA SetStatusAt ==
    ASSUME NEW tb, Good(tb), NEW n \in TaskIds, NEW i, i = FindWithId(tb, n), i # -1,
           NEW st \in TaskStat \ {"INVALID"}
    PROVE  /\ TaskSetStatus(tb, n, st) = WithStatus(tb, i, st)
           /\ Good(WithStatus(tb, i, st))
           /\ FindWithId(WithStatus(tb, i, st), n) = i
<1> DEFINE up == [tb EXCEPT ![i].status = st]
<1>1. i \in Slot /\ tb[i].type # "NULL_TASK" /\ tb \in Table
  BY FoundSlot DEF Good
<1>2. up = WithStatus(tb, i, st)
  BY <1>1 DEF WithStatus, Table
<1>3. Good(up)
  BY <1>1, SetStatusGood
<1>4. MarkImpossible(up, n) = up
  BY <1>3, MarkNothing DEF Good
<1>5. TaskSetStatus(tb, n, st) = up
  BY <1>4 DEF TaskSetStatus
<1>6. \A j \in Slot : up[j].id = tb[j].id
  BY <1>1 DEF Table, Task
<1> HIDE DEF up
<1>7. FindWithId(up, n) = FindWithId(tb, n)
  BY <1>6, SameIds
<1>8. QED
  BY <1>2, <1>3, <1>5, <1>7

(* What a handler leaves in the slot of a task: an end, and the verdict     *)
(* that goes with it.                                                       *)
EndedRight(s) ==
    /\ s.status \in Ended
    /\ s.status = "COMPLETE" => s.err = "SUCCESS"
    /\ s.status = "IMPOSSIBLE" => s.err # "SUCCESS"

TaskEnded(s, t) ==
    /\ s.id = t.id /\ s.url = t.url
    /\ EndedRight(s)
    /\ s.err \in ErrorCond \ {"UNDEFINED"}

(* What do_http_task and the rest of process_tasks' loop do to the slot     *)
(* their lookups find: it keeps id, packet and type, holds what was         *)
(* measured on the task's own URL, and is COMPLETE or IMPOSSIBLE.  If there *)
(* is no such slot they do nothing.                                         *)
LEMMA HttpPerformed ==
    ASSUME NEW tb, Good(tb), NEW t \in Task, Occupied(t), NEW o \in HttpOutcome,
           NEW i, i = FindWithId(tb, t.id), i # -1
    PROVE  \E s \in Task :
               /\ AfterHandler(HttpTable(tb, t, o), t.id, o # "done") = [tb EXCEPT ![i] = s]
               /\ s.workid = tb[i].workid /\ s.type = tb[i].type
               /\ TaskEnded(s, t)
<1> DEFINE m == HttpMeasured(t, o)
           r == Measured(m, tb[i])
           R(st) == [r EXCEPT !.status = st]
           N(st) == [tb EXCEPT ![i] = R(st)]
           n == t.id
<1>1. /\ m \in Task /\ m.id = n /\ m.url = t.url
      /\ m.err \in ErrorCond \ {"UNDEFINED"}
      /\ o = "done" <=> m.err = "SUCCESS"
  <2>1. m \in Task /\ m.id = n /\ m.url = t.url
    BY HttpMeasuredType
  <2>2. /\ m.err \in {"OTHER_PROBLEM", "DNS_FAILURE", "REDIRECTS_EXCEEDED", "SUCCESS"}
        /\ o = "done" <=> m.err = "SUCCESS"
    BY DEF HttpMeasured, HttpOutcome, Task
  <2>3. QED
    BY <2>1, <2>2 DEF ErrorCond
<1> HIDE DEF m
<1>n. n \in TaskIds /\ n # 0
  BY DEF Task, Occupied
<1>2. i \in Slot /\ tb \in Table /\ tb[i] \in Task /\ tb[i].id = n
  BY <1>n, FoundSlot DEF Good
<1>3. /\ r \in Task /\ r.id = n /\ r.url = t.url /\ r.err = m.err
      /\ r.workid = tb[i].workid /\ r.type = tb[i].type
  BY <1>1, <1>2 DEF Task, Measured
<1>4. UpdateTask(tb, m) = [tb EXCEPT ![i] = r] /\ Good(UpdateTask(tb, m))
  <2>1. m.id # 0 /\ m.url # NoUrl
    BY <1>1, <1>n DEF Occupied
  <2>2. Good(UpdateTask(tb, m))
    BY <1>1, <2>1, UpdateTaskGood
  <2>3. QED
    BY <1>1, <2>2 DEF UpdateTask, Measured
<1> DEFINE up == UpdateTask(tb, m)
<1> HIDE DEF r
<1>5. \A st \in Ended : /\ R(st) \in Task /\ R(st).status = st
                        /\ R(st).id = n /\ R(st).url = t.url /\ R(st).err = m.err
                        /\ R(st).workid = tb[i].workid /\ R(st).type = tb[i].type
  BY <1>3 DEF Task, TaskStat, Ended
<1>6. up \in Table /\ up[i] = r /\ \A j \in Slot : up[j].id = tb[j].id
  BY <1>2, <1>3, <1>4 DEF Table
<1> HIDE DEF up
<1>7. FindWithId(up, n) = i
  BY <1>6, SameIds
<1>8. Ended \subseteq TaskStat \ {"INVALID"} /\ "TODO" \notin Ended
  BY DEF Ended, TaskStat
<1>9. \A st \in Ended : WithStatus(up, i, st) = N(st)
  BY <1>2, <1>4, <1>6 DEF WithStatus, up, Table
<1>10. \A st, st2 \in Ended : WithStatus(N(st), i, st2) = N(st2)
  <2>1. \A st, st2 \in Ended : [R(st) EXCEPT !.status = st2] = R(st2)
    BY <1>3 DEF Task
  <2> HIDE DEF R
  <2>2. QED
    BY <1>2, <2>1 DEF WithStatus, Table
<1>11. \A st \in Ended : /\ TaskSetStatus(up, n, st) = N(st)
                         /\ Good(N(st)) /\ FindWithId(N(st), n) = i
  <2>1. Good(up)
    BY <1>4 DEF up
  <2>2. QED
    BY <1>n, <1>7, <1>8, <1>9, <2>1, SetStatusAt
<1> HIDE DEF N
<1>12. \A st, st2 \in Ended : TaskSetStatus(N(st), n, st2) = N(st2)
  BY <1>n, <1>8, <1>10, <1>11, SetStatusAt
<1>13. \A st \in Ended : GetTaskId(N(st), n) = N(st)
  <2>1. \A st \in Ended : N(st)[i].status = st
    BY <1>2, <1>5 DEF N, Table
  <2>2. QED
    BY <1>8, <1>11, <2>1 DEF GetTaskId
<1> DEFINE st == IF o = "done" THEN "COMPLETE" ELSE "IMPOSSIBLE"
<1>14. {"COMPLETE", "IMPOSSIBLE"} \subseteq Ended
  BY DEF Ended
<1>15. AfterHandler(HttpTable(tb, t, o), n, o # "done") = N(st)
  <2>1. HttpTable(tb, t, o) = IF o \in {"bad_url", "no_address"} THEN up ELSE N("COMPLETE")
    BY <1>11, <1>14 DEF HttpTable, up, m
  <2>2. CASE o = "done"
    BY <1>13, <1>14, <2>1, <2>2 DEF AfterHandler
  <2>3. CASE o # "done"
    <3>1. TaskSetStatus(HttpTable(tb, t, o), n, "IMPOSSIBLE") = N("IMPOSSIBLE")
      BY <1>11, <1>12, <1>14, <2>1
    <3>2. QED
      BY <1>13, <1>14, <2>3, <3>1 DEF AfterHandler
  <2>4. QED
    BY <2>2, <2>3
<1>16. R(st) \in Task /\ TaskEnded(R(st), t)
  BY <1>1, <1>5, <1>14 DEF TaskEnded, EndedRight
<1>17. QED
  BY <1>5, <1>14, <1>15, <1>16 DEF N

-----------------------------------------------------------------------------
(***************************************************************************)
(* StatusTellsVerdict, for all task types: DNS and ICMP tasks stay in the   *)
(* table as RUNNING for ever, ids come back in later packets, and the       *)
(* lookups by id may write to the slot of such an old task.  The invariant  *)
(* behind it: what is not ended is unmeasured, and no ended task has the id *)
(* of one that is still to be done in this pass.                            *)
(***************************************************************************)
Unmeasured(t) == t.err = "UNDEFINED" /\ t.ip = "NONE"

ToldIn(tb) ==
    \A i \in Slot : /\ tb[i].status = "COMPLETE" => tb[i].err = "SUCCESS"
                    /\ tb[i].status = "IMPOSSIBLE" => tb[i].err # "SUCCESS"
                    /\ tb[i].status \in {"TODO", "RUNNING"} => Unmeasured(tb[i])

ToDoOnce(tb) ==
    \A i, j \in Slot : /\ tb[i].status = "TODO"
                       /\ tb[j].status \in {"TODO"} \cup Ended
                       /\ tb[i].id = tb[j].id
                       => i = j

NoneEnded(tb) == \A i \in Slot : tb[i].status \notin Ended

NoneToDo(tb) == \A i \in Slot : tb[i].status # "TODO"

OnlyRunning(tb, n) ==
    \A j \in Slot : tb[j].status \in {"TODO"} \cup Ended => tb[j].id # n

VerdictInv ==
    /\ WorkerInv
    /\ ToldIn(tasks) /\ ToDoOnce(tasks)
    /\ pc = "do_task" => Unmeasured(task) /\ OnlyRunning(tasks, task.id)
    /\ pc \in {"get_jobs", "dispatch_getwork", "proto_mesg_send"} => NoneEnded(tasks)
    /\ pc = "dispatch_getwork" =>
           \A i \in Slot : tasks[i].status = "TODO" => \E p \in packet : p.id = tasks[i].id
    /\ pc \in {"get_jobs", "collection_report", "proto_mesg_send"} => NoneToDo(tasks)

(* A search that ends at -1 matched no slot.                                *)
LEMMA NoneFound ==
    ASSUME NEW tb, NEW x, FindWithStatus(tb, x) = -1
    PROVE  \A j \in Slot : tb[j].status # x
  BY LowestIsLeast DEF FindWithStatus

(* When get_completed has nothing to hand out, no task has ended.           *)
LEMMA NoneCompleted ==
    ASSUME NEW tb, CompletedSlot(tb) = -1
    PROVE  NoneEnded(tb)
<1>1. FindWithStatus(tb, "COMPLETE") = -1 /\ FindWithStatus(tb, "IMPOSSIBLE") = -1
  BY DEF CompletedSlot
<1>2. QED
  BY <1>1, NoneFound DEF Ended, NoneEnded

(* Each of the three handlers, with what process_tasks does after it, ends  *)
(* at most one task, one with the id of the task it performed.              *)
LEMMA HandlerEndsOne ==
    ASSUME VerdictInv, DoHttpTask \/ DoDnsTask \/ DoIcmpTask
    PROVE  \/ tasks' = tasks
           \/ \E i \in Slot, s \in Task :
                 tasks' = [tasks EXCEPT ![i] = s] /\ s.id = task.id /\ EndedRight(s)
<1> DEFINE i == FindWithId(tasks, task.id)
<1>1. pc = "do_task" /\ Good(tasks) /\ task \in Task /\ Occupied(task)
  BY GoodTasks
  DEF DoHttpTask, DoDnsTask, DoIcmpTask, VerdictInv, WorkerInv, TypeOK
<1>2. task.id \in TaskIds /\ Unmeasured(task) /\ OnlyRunning(tasks, task.id)
  BY <1>1 DEF Task, Occupied, VerdictInv
<1>3. i # -1 => /\ i \in Slot /\ tasks[i] \in Task /\ tasks[i].id = task.id
                /\ tasks[i].status \notin {"TODO"} \cup Ended
  BY <1>1, <1>2, FoundSlot DEF OnlyRunning
<1>4. GetTaskId(tasks, task.id) = tasks
  BY <1>3 DEF GetTaskId
<1>5. CASE DoHttpTask
  <2>1. PICK o \in HttpOutcome :
            Performed(AfterHandler(HttpTable(tasks, task, o), task.id, o # "done"))
    BY <1>5 DEF DoHttpTask
  <2>2. CASE i = -1
    <3>1. HttpMeasured(task, o).id = task.id
      BY <1>1, HttpMeasuredType
    <3>2. AfterHandler(HttpTable(tasks, task, o), task.id, o # "done") = tasks
      BY <2>2, <3>1 DEF AfterHandler, HttpTable, UpdateTask, TaskSetStatus, GetTaskId
    <3>3. QED
      BY <2>1, <3>2 DEF Performed
  <2>3. CASE i # -1
    <3>1. PICK s \in Task :
              /\ AfterHandler(HttpTable(tasks, task, o), task.id, o # "done")
                    = [tasks EXCEPT ![i] = s]
              /\ TaskEnded(s, task)
      BY <1>1, <2>3, HttpPerformed
    <3>2. QED
      BY <1>3, <2>1, <2>3, <3>1 DEF Performed, TaskEnded
  <2>4. QED
    BY <2>2, <2>3
<1>6. CASE DoDnsTask
  BY <1>2, <1>4, <1>6 DEF DoDnsTask, Performed, AfterHandler, Unmeasured
<1>7. CASE DoIcmpTask
  <2>1. PICK failed \in BOOLEAN : Performed(AfterHandler(tasks, task.id, failed))
    BY <1>7 DEF DoIcmpTask
  <2>2. CASE ~failed
    BY <1>4, <2>1, <2>2 DEF Performed, AfterHandler
  <2>3. CASE failed /\ i = -1
    BY <1>4, <2>1, <2>3 DEF Performed, AfterHandler, TaskSetStatus
  <2>4. CASE failed /\ i # -1
    <3> DEFINE s == [tasks[i] EXCEPT !.status = "IMPOSSIBLE"]
               tb == WithStatus(tasks, i, "IMPOSSIBLE")
    <3>1. TaskSetStatus(tasks, task.id, "IMPOSSIBLE") = tb /\ FindWithId(tb, task.id) = i
      BY <1>1, <1>2, <2>4, SetStatusAt DEF TaskStat
    <3>2. s \in Task /\ s.id = task.id /\ s.status = "IMPOSSIBLE" /\ s.err = tasks[i].err
      BY <1>3, <2>4 DEF Task, TaskStat
    <3>3. tb = [tasks EXCEPT ![i] = s] /\ tb[i] = s
      BY <1>1, <1>3, <2>4 DEF WithStatus, Good, Table
    <3>4. GetTaskId(tb, task.id) = tb
      BY <3>1, <3>2, <3>3 DEF GetTaskId
    <3>5. tasks[i].status = "RUNNING"
      <4>1. tasks[i].status # "INVALID"
        BY <1>1, <1>2, <2>4, FoundSlot DEF Occupied, ValidTask
      <4>2. QED
        BY <1>3, <2>4, <4>1 DEF Task, TaskStat, Ended
    <3>6. EndedRight(s)
      BY <1>3, <2>4, <3>2, <3>5 DEF VerdictInv, ToldIn, Unmeasured, EndedRight, Ended
    <3>7. tasks' = tb
      BY <2>1, <2>4, <3>1, <3>4 DEF Performed, AfterHandler
    <3>8. QED
      BY <1>3, <2>4, <3>2, <3>3, <3>6, <3>7
  <2>5. QED
    BY <2>2, <2>3, <2>4
<1>8. QED
  BY <1>5, <1>6, <1>7

(* Every step keeps it, one case per action.                                *)
LEMMA VerdictNext == VerdictInv /\ [Next]_workerVars => VerdictInv'
<1> SUFFICES ASSUME VerdictInv, [Next]_workerVars PROVE VerdictInv'
  OBVIOUS
<1>w. WorkerInv'
  BY NextInv DEF VerdictInv
<1>g. Good(tasks) /\ tasks \in Table /\ ToldIn(tasks) /\ ToDoOnce(tasks)
  BY GoodTasks DEF VerdictInv, Good
<1>1. CASE NoJobs \/ UNCHANGED workerVars
  BY <1>1, <1>w
  DEF NoJobs, workerVars, VerdictInv, ToldIn, ToDoOnce, NoneEnded, NoneToDo, OnlyRunning
<1>2. CASE BeginPacket
  <2>1. pc = "get_jobs" /\ pc' = "dispatch_getwork" /\ tasks' = tasks
    BY <1>2 DEF BeginPacket
  <2>2. QED
    BY <1>w, <2>1 DEF VerdictInv, ToldIn, ToDoOnce, NoneEnded, NoneToDo
<1>3. CASE AddOffer
  <2> DEFINE T(o) == NvToTask(work_id, o)
             k == FindWithType(tasks, "NULL_TASK")
  <2>1. PICK o \in Offerable :
            /\ packet' = packet \cup {[id |-> o.id, valid |-> ValidTask(T(o))]}
            /\ tasks' = IF ValidTask(T(o)) THEN TaskAdd(tasks, T(o)) ELSE tasks
    BY <1>3 DEF AddOffer
  <2>2. /\ pc = "dispatch_getwork" /\ pc' = pc
        /\ work_id \in WorkIds /\ o \in Offer /\ NoneEnded(tasks)
        /\ \A j \in Slot : tasks[j].status = "TODO" =>
               \E p \in packet : p.id = tasks[j].id
    BY <1>3 DEF AddOffer, VerdictInv, WorkerInv, TypeOK, Offerable
  <2>3. CASE tasks' = tasks
    BY <1>w, <1>g, <2>1, <2>2, <2>3 DEF VerdictInv, ToldIn, ToDoOnce, NoneEnded
  <2>4. CASE tasks' # tasks
    <3> DEFINE s == [T(o) EXCEPT !.status = "TODO"]
               p == [id |-> o.id, valid |-> ValidTask(T(o))]
    <3>1. ValidTask(T(o)) /\ tasks' = [tasks EXCEPT ![k] = s] /\ k # -1
      BY <2>1, <2>4 DEF TaskAdd
    <3>2. k \in Slot
      BY <1>g, <3>1, FindType
    <3>3. T(o) \in Task /\ T(o).id = o.id /\ Unmeasured(T(o))
      BY <2>2, <3>1, NvToTaskOccupied DEF NvToTask, InitTask, Unmeasured
    <3>4. s.id = o.id /\ s.status = "TODO" /\ Unmeasured(s)
      BY <3>3 DEF Task, Unmeasured
    <3>5. p \in packet' /\ p.id = o.id /\ packet \subseteq packet'
      BY <2>1
    <3>6. \A j \in Slot : tasks[j].status = "TODO" => tasks[j].id # o.id
      BY <2>2 DEF Offerable
    <3> HIDE DEF k, s, p, T
    <3>7. \A j \in Slot : tasks'[j] = IF j = k THEN s ELSE tasks[j]
      BY <1>g, <3>1 DEF Table
    <3>8. ToldIn(tasks') /\ NoneEnded(tasks')
      BY <1>g, <2>2, <3>4, <3>7 DEF ToldIn, NoneEnded, Ended
    <3>9. ToDoOnce(tasks')
      BY <1>g, <2>2, <3>4, <3>6, <3>7, <3>8 DEF ToDoOnce, NoneEnded
    <3>10. \A j \in Slot : tasks'[j].status = "TODO" =>
               \E q \in packet' : q.id = tasks'[j].id
      BY <2>2, <3>4, <3>5, <3>7
    <3>11. QED
      BY <1>w, <2>2, <3>8, <3>9, <3>10 DEF VerdictInv
  <2>5. QED
    BY <2>3, <2>4
<1>4. CASE EndPacket
  BY <1>4, <1>w, <1>g DEF EndPacket, VerdictInv, ToldIn, ToDoOnce
<1>5. CASE TakeTask
  <2> DEFINE i == FindWithStatus(tasks, "TODO")
             s == [tasks[i] EXCEPT !.status = "RUNNING"]
  <2>1. i \in Slot /\ tasks[i].status = "TODO" /\ tasks[i] \in Task
    BY <1>5, <1>g, FindType DEF TakeTask, Table
  <2>2. /\ tasks' = [tasks EXCEPT ![i] = s] /\ task' = tasks'[i] /\ pc' = "do_task"
    BY <1>5, <1>g, <2>1 DEF TakeTask, GetTask, Table
  <2>3. s.id = tasks[i].id /\ s.status = "RUNNING" /\ Unmeasured(s)
    BY <1>g, <2>1 DEF Task, TaskStat, ToldIn, Unmeasured
  <2> HIDE DEF i, s
  <2>4. task' = s /\ \A j \in Slot : tasks'[j] = IF j = i THEN s ELSE tasks[j]
    BY <1>g, <2>1, <2>2 DEF Table
  <2>5. ToldIn(tasks')
    BY <1>g, <2>3, <2>4 DEF ToldIn
  <2>6. ToDoOnce(tasks') /\ OnlyRunning(tasks', task'.id)
    BY <1>g, <2>1, <2>3, <2>4 DEF ToDoOnce, OnlyRunning, Ended
  <2>7. QED
    BY <1>w, <2>2, <2>3, <2>4, <2>5, <2>6 DEF VerdictInv
<1>6. CASE DoHttpTask \/ DoDnsTask \/ DoIcmpTask
  <2>1. pc = "do_task" /\ pc' = "process_tasks"
    BY <1>6 DEF DoHttpTask, DoDnsTask, DoIcmpTask, Performed
  <2>2. CASE tasks' = tasks
    BY <1>w, <1>g, <2>1, <2>2 DEF VerdictInv, ToldIn, ToDoOnce
  <2>3. CASE \E i \in Slot, s \in Task :
               tasks' = [tasks EXCEPT ![i] = s] /\ s.id = task.id /\ EndedRight(s)
    <3>1. PICK i \in Slot, s \in Task :
               tasks' = [tasks EXCEPT ![i] = s] /\ s.id = task.id /\ EndedRight(s)
      BY <2>3
    <3>2. \A j \in Slot : tasks'[j] = IF j = i THEN s ELSE tasks[j]
      BY <1>g, <3>1 DEF Table
    <3>3. ToldIn(tasks')
      BY <1>g, <3>1, <3>2 DEF ToldIn, EndedRight, Ended
    <3>4. OnlyRunning(tasks, task.id)
      BY <2>1 DEF VerdictInv
    <3>5. ToDoOnce(tasks')
      BY <1>g, <3>1, <3>2, <3>4 DEF ToDoOnce, OnlyRunning, EndedRight, Ended
    <3>6. QED
      BY <1>w, <2>1, <3>3, <3>5 DEF VerdictInv
  <2>4. QED
    BY <1>6, <2>2, <2>3, HandlerEndsOne
<1>7. CASE AllProcessed
  <2>1. /\ pc' = "collection_report" /\ tasks' = tasks
        /\ FindWithStatus(tasks, "TODO") = -1
    BY <1>7 DEF AllProcessed
  <2>2. NoneToDo(tasks)
    BY <2>1, NoneFound DEF NoneToDo
  <2>3. QED
    BY <1>w, <1>g, <2>1, <2>2 DEF VerdictInv, ToldIn, ToDoOnce, NoneToDo
<1>8. CASE DrainCompleted
  <2> DEFINE i == CompletedSlot(tasks)
  <2>1. /\ pc = "collection_report" /\ pc' = pc
        /\ tasks' = [tasks EXCEPT ![i] = InitTask]
    BY <1>8 DEF DrainCompleted, GetCompleted
  <2> HIDE DEF i
  <2>2. \A j \in Slot : tasks'[j] = IF j = i THEN InitTask ELSE tasks[j]
    BY <1>g, <2>1 DEF Table
  <2>3. InitTask.status = "INVALID"
    BY DEF InitTask
  <2>4. NoneToDo(tasks)
    BY <2>1 DEF VerdictInv
  <2>5. ToldIn(tasks') /\ NoneToDo(tasks') /\ ToDoOnce(tasks')
    BY <1>g, <2>2, <2>3, <2>4 DEF ToldIn, NoneToDo, ToDoOnce
  <2>6. QED
    BY <1>w, <2>1, <2>5 DEF VerdictInv
<1>9. CASE EndDrain
  <2>1. /\ pc = "collection_report" /\ pc' = "proto_mesg_send" /\ tasks' = tasks
        /\ CompletedSlot(tasks) = -1
    BY <1>9 DEF EndDrain
  <2>2. NoneEnded(tasks)
    BY <2>1, NoneCompleted
  <2>3. QED
    BY <1>w, <1>g, <2>1, <2>2 DEF VerdictInv, ToldIn, ToDoOnce, NoneEnded, NoneToDo
<1>10. CASE Delivered
  BY <1>10, <1>w, <1>g DEF Delivered, VerdictInv, ToldIn, ToDoOnce, NoneEnded, NoneToDo
<1>11. QED
  BY <1>1, <1>2, <1>3, <1>4, <1>5, <1>6, <1>7, <1>8, <1>9, <1>10 DEF Next, WorkStep

(* A task's end is recorded twice, as its status by process_tasks and as    *)
(* its error by the handler: COMPLETE goes with SUCCESS and IMPOSSIBLE with *)
(* anything else, for all task types, although the writes go by id alone.   *)
THEOREM WorkerStatusTellsVerdict == Spec => []StatusTellsVerdict
<1>1. Init => VerdictInv
  <2>1. SUFFICES ASSUME Init PROVE VerdictInv
    OBVIOUS
  <2>2. \A i \in Slot : tasks[i].status = "INVALID"
    BY <2>1 DEF Init, TasksInit, InitTask
  <2>3. ToldIn(tasks) /\ ToDoOnce(tasks) /\ NoneEnded(tasks) /\ NoneToDo(tasks)
    BY <2>2 DEF ToldIn, ToDoOnce, NoneEnded, NoneToDo, Ended
  <2>4. pc = "get_jobs"
    BY <2>1 DEF Init
  <2>5. QED
    BY <2>1, <2>3, <2>4, InitInv DEF VerdictInv
<1>2. VerdictInv => StatusTellsVerdict
  BY DEF VerdictInv, ToldIn, StatusTellsVerdict
<1>3. QED
  BY <1>1, <1>2, VerdictNext, PTL DEF Spec

-----------------------------------------------------------------------------
(***************************************************************************)
(* What the worker guarantees to a probe that is given HTTP and HTTPS      *)
(* tasks only, for any table size, ids, URLs and packets: every task is    *)
(* processed, a report is of one packet, and a lookup by id finds the task *)
(* being performed.                                                        *)
(*                                                                         *)
(* None of these is inductive.  Behind them is the shape of a pass: the    *)
(* table is empty outside, within it all tasks are of the packet at hand   *)
(* and have different ids, and at most the task being performed is RUNNING.*)
(***************************************************************************)
HttpProbe == AssignedTypes \subseteq {"HTTP"}

UsedIn(tb) == {i \in Slot : tb[i].type # "NULL_TASK"}

OfPacket(tb, w) ==
    /\ \A i \in UsedIn(tb) : tb[i].type = "HTTP" /\ tb[i].workid = w
    /\ \A i, j \in UsedIn(tb) : tb[i].id = tb[j].id => i = j

StatusIn(tb, S) == \A i \in UsedIn(tb) : tb[i].status \in S

PassShape ==
    /\ OfPacket(tasks, work_id)
    /\ pc \in {"get_jobs", "proto_mesg_send"} => StatusIn(tasks, {})
    /\ pc = "dispatch_getwork" =>
           /\ StatusIn(tasks, {"TODO"})
           /\ \A i \in UsedIn(tasks) : \E p \in packet : p.id = tasks[i].id
    /\ pc = "process_tasks" => StatusIn(tasks, {"TODO"} \cup Ended)
    /\ pc = "do_task" =>
           /\ task.status = "RUNNING"
           /\ \E i \in UsedIn(tasks) :
                 /\ tasks[i] = task
                 /\ \A j \in UsedIn(tasks) \ {i} : tasks[j].status \in {"TODO"} \cup Ended
    /\ pc = "collection_report" => StatusIn(tasks, Ended)

ReportShape ==
    /\ ReportIsOnePacket
    /\ pc \notin {"collection_report", "proto_mesg_send"} => results = {}

HttpInv == WorkerInv /\ PassShape /\ ReportShape

-----------------------------------------------------------------------------
(* With ids all different, the search by the id of a used slot ends there. *)
LEMMA FindsOwnSlot ==
    ASSUME NEW tb, Good(tb), NEW w, OfPacket(tb, w), NEW i \in UsedIn(tb)
    PROVE  FindWithId(tb, tb[i].id) = i
<1> DEFINE S == {j \in Slot : tb[j].id = tb[i].id}
           k == Lowest(S)
<1>1. i \in S
  BY DEF UsedIn
<1>2. k \in S
  BY <1>1, LowestIsLeast
<1>3. tb[i].id # 0
  BY DEF UsedIn, Good, Coherent, Occupied
<1>4. k \in UsedIn(tb)
  BY <1>2, <1>3 DEF UsedIn, Good, Coherent, InitTask
<1>5. k = i
  BY <1>2, <1>4 DEF OfPacket
<1>6. QED
  BY <1>5 DEF FindWithId

(* Replacing a used slot by a task with its id and packet keeps the shape. *)
LEMMA ReplaceInPacket ==
    ASSUME NEW tb \in Table, NEW w, OfPacket(tb, w), NEW i \in UsedIn(tb),
           NEW s, s.id = tb[i].id, s.workid = tb[i].workid, s.type = tb[i].type
    PROVE  /\ OfPacket([tb EXCEPT ![i] = s], w)
           /\ UsedIn([tb EXCEPT ![i] = s]) = UsedIn(tb)
<1> DEFINE new == [tb EXCEPT ![i] = s]
<1>1. \A j \in Slot : new[j] = IF j = i THEN s ELSE tb[j]
  BY DEF Table
<1>2. UsedIn(new) = UsedIn(tb)
  BY <1>1 DEF UsedIn
<1>3. \A j \in UsedIn(tb) : /\ new[j].id = tb[j].id
                            /\ new[j].workid = tb[j].workid
                            /\ new[j].type = tb[j].type
  BY <1>1 DEF UsedIn
<1>4. QED
  BY <1>2, <1>3 DEF OfPacket

-----------------------------------------------------------------------------
(* The empty table at the start has the shape of a pass.                   *)
LEMMA HttpInit == Init => HttpInv
<1> SUFFICES ASSUME Init PROVE HttpInv
  OBVIOUS
<1>1. UsedIn(tasks) = {}
  BY DEF Init, UsedIn, TasksInit, InitTask
<1>2. PassShape
  BY <1>1 DEF Init, PassShape, OfPacket, StatusIn
<1>3. ReportShape
  BY DEF Init, ReportShape, ReportIsOnePacket
<1>4. QED
  BY <1>2, <1>3, InitInv DEF HttpInv

(* A slot with a status other than INVALID is used: init_task leaves       *)
(* nothing behind.                                                         *)
LEMMA UsedByStatus ==
    ASSUME NEW tb, Good(tb), NEW i \in Slot, tb[i].status # "INVALID"
    PROVE  i \in UsedIn(tb)
  BY DEF Good, Coherent, UsedIn, InitTask

(* task_add puts a task with an id not yet in the table into an unused     *)
(* slot, or drops it: either way the table stays one packet's, all TODO.   *)
LEMMA AddKeepsShape ==
    ASSUME NEW tb \in Table, NEW w, OfPacket(tb, w), StatusIn(tb, {"TODO"}),
           NEW t, t.type = "HTTP", t.workid = w,
           \A i \in UsedIn(tb) : tb[i].id # t.id,
           [t EXCEPT !.status = "TODO"] \in Task
    PROVE  /\ OfPacket(TaskAdd(tb, t), w)
           /\ StatusIn(TaskAdd(tb, t), {"TODO"})
           /\ \A i \in UsedIn(TaskAdd(tb, t)) :
                 \/ TaskAdd(tb, t)[i].id = t.id
                 \/ i \in UsedIn(tb) /\ TaskAdd(tb, t)[i].id = tb[i].id
<1> DEFINE k == FindWithType(tb, "NULL_TASK")
           s == [t EXCEPT !.status = "TODO"]
           new == [tb EXCEPT ![k] = s]
<1>1. CASE TaskAdd(tb, t) = tb
  BY <1>1
<1>2. CASE TaskAdd(tb, t) = new
  <2>1. s.type = "HTTP" /\ s.workid = w /\ s.id = t.id /\ s.status = "TODO"
    BY DEF Task
  <2> HIDE DEF s, k
  <2>2. \A j \in Slot : new[j] = IF j = k THEN s ELSE tb[j]
    BY DEF Table
  <2> HIDE DEF new
  <2>3. UsedIn(new) \subseteq UsedIn(tb) \cup {k}
    BY <2>2 DEF UsedIn
  <2>4. \A j \in UsedIn(new) : j = k \/ j \in UsedIn(tb)
    BY <2>3
  <2>5. \A j \in UsedIn(new) : j \in Slot
    BY DEF UsedIn
  <2>6. OfPacket(new, w)
    <3>1. \A j \in UsedIn(new) : new[j].type = "HTTP" /\ new[j].workid = w
      BY <2>1, <2>2, <2>4, <2>5 DEF OfPacket
    <3>2. ASSUME NEW a \in UsedIn(new), NEW b \in UsedIn(new),
                 new[a].id = new[b].id
          PROVE  a = b
      <4>1. CASE a = k \/ b = k
        <5>1. \A j \in UsedIn(new) : j # k => new[j].id # t.id
          BY <2>2, <2>4, <2>5
        <5>2. \A j \in UsedIn(new) : j = k => new[j].id = t.id
          BY <2>1, <2>2, <2>5
        <5>3. QED
          BY <3>2, <4>1, <5>1, <5>2
      <4>2. CASE a # k /\ b # k
        <5>1. a \in UsedIn(tb) /\ b \in UsedIn(tb) /\ tb[a].id = tb[b].id
          BY <2>2, <2>4, <2>5, <3>2, <4>2
        <5>2. QED
          BY <5>1 DEF OfPacket
      <4>3. QED
        BY <4>1, <4>2
    <3>3. QED
      BY <3>1, <3>2 DEF OfPacket
  <2>7. StatusIn(new, {"TODO"})
    BY <2>1, <2>2, <2>4, <2>5 DEF StatusIn
  <2>8. QED
    BY <1>2, <2>1, <2>2, <2>4, <2>5, <2>6, <2>7
<1>3. QED
  BY <1>1, <1>2 DEF TaskAdd

-----------------------------------------------------------------------------
(* Every step of a probe of HTTP tasks keeps the shape of the pass, and    *)
(* with it the work id of the report it is building.                       *)
LEMMA HttpNext ==
    ASSUME HttpProbe
    PROVE  HttpInv /\ [Next]_workerVars => HttpInv'
<1> SUFFICES ASSUME HttpInv, [Next]_workerVars PROVE HttpInv'
  OBVIOUS
<1>w. WorkerInv'
  BY NextInv DEF HttpInv
<1>g. Good(tasks) /\ Good(tasks')
  BY <1>w, GoodTasks DEF HttpInv, WorkerInv, TypeOK, SlotsCoherent, Good, Table
<1>t. tasks \in Table /\ tasks' \in Table
  BY <1>g DEF Good
<1>p. PassShape /\ ReportShape
  BY DEF HttpInv
<1>1. CASE NoJobs \/ UNCHANGED workerVars
  <2>1. UNCHANGED workerVars
    BY <1>1 DEF NoJobs
  <2>2. UsedIn(tasks)' = UsedIn(tasks)
    BY <2>1 DEF UsedIn, workerVars
  <2>3. PassShape' /\ ReportShape'
    BY <1>p, <2>1, <2>2
    DEF PassShape, ReportShape, ReportIsOnePacket, OfPacket, StatusIn, workerVars
  <2>4. QED
    BY <1>w, <2>3 DEF HttpInv
<1>2. CASE BeginPacket
  <2>1. UsedIn(tasks) = {} /\ results = {}
    BY <1>2, <1>p DEF BeginPacket, PassShape, ReportShape, StatusIn
  <2>2. UsedIn(tasks)' = {} /\ results' = {} /\ pc' = "dispatch_getwork"
    BY <1>2, <2>1 DEF BeginPacket, UsedIn
  <2>3. PassShape' /\ ReportShape'
    BY <2>2 DEF PassShape, ReportShape, ReportIsOnePacket, OfPacket, StatusIn
  <2>4. QED
    BY <1>w, <2>3 DEF HttpInv
<1>3. CASE AddOffer
  <2> DEFINE T(o) == NvToTask(work_id, o)
  <2>1. PICK o \in Offerable :
            /\ packet' = packet \cup {[id |-> o.id, valid |-> ValidTask(T(o))]}
            /\ tasks' = IF ValidTask(T(o)) THEN TaskAdd(tasks, T(o)) ELSE tasks
    BY <1>3 DEF AddOffer
  <2>2. pc = "dispatch_getwork" /\ UNCHANGED <<pc, task, work_id, results, wid>>
    BY <1>3 DEF AddOffer
  <2>3. /\ OfPacket(tasks, work_id)
        /\ StatusIn(tasks, {"TODO"})
        /\ \A i \in UsedIn(tasks) : \E p \in packet : p.id = tasks[i].id
    BY <1>p, <2>2 DEF PassShape
  <2>4. /\ OfPacket(tasks', work_id)
        /\ StatusIn(tasks', {"TODO"})
        /\ \A i \in UsedIn(tasks') : \E p \in packet' : p.id = tasks'[i].id
    <3>1. CASE ~ValidTask(T(o))
      BY <2>1, <2>3, <3>1
    <3>2. CASE ValidTask(T(o))
      <4>1. work_id \in WorkIds /\ o \in Offer
        BY <2>2 DEF HttpInv, WorkerInv, TypeOK, Offerable
      <4>2. T(o) \in Task /\ Occupied(T(o))
        BY <3>2, <4>1, NvToTaskOccupied
      <4>3. T(o).id = o.id /\ T(o).workid = work_id /\ T(o).type = "HTTP"
        <5>1. o.id # 0 /\ o.wellformed
          BY <3>2 DEF ValidTask, NvToTask, InitTask
        <5>2. T(o) = [InitTask EXCEPT !.workid = work_id, !.id = o.id, !.type = o.type,
                                      !.url = o.url, !.magic = TRUE, !.status = "TODO"]
          BY <5>1 DEF NvToTask
        <5>3. T(o).id = o.id /\ T(o).workid = work_id /\ T(o).type = o.type
          BY <5>2 DEF InitTask
        <5>4. o.type # "NULL_TASK" /\ o.type \in AssignedTypes \cup {"NULL_TASK"}
          BY <4>2, <5>3 DEF Occupied, ValidTask, Offerable
        <5>5. QED
          BY <5>3, <5>4 DEF HttpProbe
      <4>4. [T(o) EXCEPT !.status = "TODO"] \in Task
        BY <4>2 DEF Task, TaskStat
      <4>5. \A i \in UsedIn(tasks) : tasks[i].id # o.id
        BY <2>3 DEF Offerable
      <4> HIDE DEF T
      <4>6. /\ OfPacket(TaskAdd(tasks, T(o)), work_id)
            /\ StatusIn(TaskAdd(tasks, T(o)), {"TODO"})
            /\ \A i \in UsedIn(TaskAdd(tasks, T(o))) :
                  \/ TaskAdd(tasks, T(o))[i].id = o.id
                  \/ i \in UsedIn(tasks) /\ TaskAdd(tasks, T(o))[i].id = tasks[i].id
        BY <1>t, <2>3, <4>3, <4>4, <4>5, AddKeepsShape
      <4>7. tasks' = TaskAdd(tasks, T(o))
        BY <2>1, <3>2
      <4>8. \A i \in UsedIn(tasks') : \E p \in packet' : p.id = tasks'[i].id
        <5>1. SUFFICES ASSUME NEW i \in UsedIn(tasks')
                       PROVE  \E p \in packet' : p.id = tasks'[i].id
          OBVIOUS
        <5>2. CASE tasks'[i].id = o.id
          <6> DEFINE p == [id |-> o.id, valid |-> ValidTask(T(o))]
          <6>1. p \in packet' /\ p.id = o.id
            BY <2>1
          <6>2. QED
            BY <5>2, <6>1
        <5>3. CASE i \in UsedIn(tasks) /\ tasks'[i].id = tasks[i].id
          BY <2>1, <2>3, <5>3
        <5>4. QED
          BY <4>6, <4>7, <5>2, <5>3
      <4>9. QED
        BY <4>6, <4>7, <4>8
    <3>3. QED
      BY <3>1, <3>2
  <2>5. PassShape'
    BY <2>2, <2>4 DEF PassShape, OfPacket, StatusIn, UsedIn
  <2>6. ReportShape'
    BY <1>p, <2>2 DEF ReportShape, ReportIsOnePacket
  <2>7. QED
    BY <1>w, <2>5, <2>6 DEF HttpInv
<1>4. CASE EndPacket
  <2>1. UsedIn(tasks)' = UsedIn(tasks)
    BY <1>4 DEF UsedIn, EndPacket
  <2>2. PassShape' /\ ReportShape'
    BY <1>4, <1>p, <2>1
    DEF EndPacket, PassShape, ReportShape, ReportIsOnePacket, OfPacket, StatusIn
  <2>3. QED
    BY <1>w, <2>2 DEF HttpInv
<1>5. CASE TakeTask
  <2> DEFINE i == FindWithStatus(tasks, "TODO")
             s == [tasks[i] EXCEPT !.status = "RUNNING"]
  <2>1. i \in UsedIn(tasks)
    BY <1>5, <1>g, GetTaskGood DEF TakeTask, UsedIn
  <2>2. i \in Slot /\ tasks[i] \in Task
    BY <1>t, <2>1 DEF UsedIn, Table
  <2>3. s.status = "RUNNING" /\ s.id = tasks[i].id
        /\ s.workid = tasks[i].workid /\ s.type = tasks[i].type
    BY <2>2 DEF Task
  <2>4. tasks' = [tasks EXCEPT ![i] = s]
    BY <1>5, <1>t, <2>2 DEF TakeTask, GetTask, Table
  <2>5. UNCHANGED <<work_id, packet, results, wid>> /\ task' = tasks'[i]
        /\ pc = "process_tasks" /\ pc' = "do_task"
    BY <1>5 DEF TakeTask
  <2> HIDE DEF s, i
  <2>6. tasks'[i] = s /\ \A j \in Slot \ {i} : tasks'[j] = tasks[j]
    BY <1>t, <2>2, <2>4 DEF Table
  <2>7. OfPacket(tasks', work_id) /\ UsedIn(tasks') = UsedIn(tasks)
    BY <1>t, <1>p, <2>1, <2>3, <2>4, ReplaceInPacket DEF PassShape
  <2>8. \A j \in UsedIn(tasks) \ {i} : tasks'[j].status \in {"TODO"} \cup Ended
    BY <1>p, <2>5, <2>6 DEF PassShape, StatusIn, UsedIn
  <2>9. PassShape'
    BY <2>1, <2>3, <2>5, <2>6, <2>7, <2>8 DEF PassShape, OfPacket, StatusIn, UsedIn
  <2>10. ReportShape'
    BY <1>p, <2>5 DEF ReportShape, ReportIsOnePacket
  <2>11. QED
    BY <1>w, <2>9, <2>10 DEF HttpInv
<1>6. CASE DoHttpTask \/ DoDnsTask \/ DoIcmpTask
  <2>1. pc = "do_task"
    BY <1>6 DEF DoHttpTask, DoDnsTask, DoIcmpTask
  <2>2. PICK i \in UsedIn(tasks) :
            /\ tasks[i] = task
            /\ \A j \in UsedIn(tasks) \ {i} : tasks[j].status \in {"TODO"} \cup Ended
    BY <1>p, <2>1 DEF PassShape
  <2>3. task.type = "HTTP" /\ tasks[i].status = "RUNNING" /\ OfPacket(tasks, work_id)
    BY <1>p, <2>1, <2>2 DEF PassShape, OfPacket
  <2>4. DoHttpTask
    BY <1>6, <2>3 DEF DoDnsTask, DoIcmpTask
  <2>5. PICK o \in HttpOutcome :
            Performed(AfterHandler(HttpTable(tasks, task, o), task.id, o # "done"))
    BY <2>4 DEF DoHttpTask
  <2>6. task \in Task /\ Occupied(task) /\ task.id = tasks[i].id
    BY <2>1, <2>2 DEF HttpInv, WorkerInv, TypeOK
  <2>7. PICK s \in Task :
            /\ AfterHandler(HttpTable(tasks, task, o), task.id, o # "done")
                  = [tasks EXCEPT ![i] = s]
            /\ s.workid = tasks[i].workid /\ s.type = tasks[i].type
            /\ TaskEnded(s, task)
    <3>1. i = FindWithId(tasks, task.id) /\ i # -1
      BY <1>g, <2>3, <2>6, FindsOwnSlot, NoSlotMinusOne DEF UsedIn
    <3>2. \A x : x = FindWithId(tasks, task.id) /\ x # -1 =>
              \E s \in Task :
                 /\ AfterHandler(HttpTable(tasks, task, o), task.id, o # "done")
                       = [tasks EXCEPT ![x] = s]
                 /\ s.workid = tasks[x].workid /\ s.type = tasks[x].type
                 /\ TaskEnded(s, task)
      BY <1>g, <2>6, HttpPerformed
    <3>3. QED
      BY <3>1, <3>2
  <2>8. tasks' = [tasks EXCEPT ![i] = s] /\ s.id = tasks[i].id /\ s.status \in Ended
    BY <2>5, <2>6, <2>7 DEF Performed, TaskEnded, EndedRight
  <2>9. OfPacket(tasks', work_id) /\ UsedIn(tasks') = UsedIn(tasks)
    BY <1>t, <2>3, <2>7, <2>8, ReplaceInPacket
  <2>10. tasks'[i] = s /\ \A j \in Slot \ {i} : tasks'[j] = tasks[j]
    BY <1>t, <2>8 DEF Table, UsedIn
  <2>11. \A j \in UsedIn(tasks') : tasks'[j].status \in {"TODO"} \cup Ended
    BY <2>2, <2>8, <2>9, <2>10 DEF UsedIn
  <2>12. pc' = "process_tasks" /\ UNCHANGED <<work_id, packet, results, wid>>
    BY <2>5 DEF Performed
  <2>13. PassShape'
    BY <2>9, <2>11, <2>12 DEF PassShape, OfPacket, StatusIn, UsedIn
  <2>14. ReportShape'
    BY <1>p, <2>1, <2>12 DEF ReportShape, ReportIsOnePacket
  <2>15. QED
    BY <1>w, <2>13, <2>14 DEF HttpInv
<1>7. CASE AllProcessed
  <2>1. /\ pc = "process_tasks" /\ pc' = "collection_report" /\ results' = {}
        /\ FindWithStatus(tasks, "TODO") = -1
        /\ UNCHANGED <<tasks, task, work_id, packet, wid>>
    BY <1>7 DEF AllProcessed
  <2>2. \A j \in Slot : tasks[j].status # "TODO"
    BY <2>1, NoneFound
  <2>3. StatusIn(tasks, Ended)
    BY <1>p, <2>1, <2>2 DEF PassShape, StatusIn, UsedIn
  <2>4. PassShape'
    BY <1>p, <2>1, <2>3 DEF PassShape, OfPacket, StatusIn, UsedIn
  <2>5. ReportShape'
    BY <2>1 DEF ReportShape, ReportIsOnePacket
  <2>6. QED
    BY <1>w, <2>4, <2>5 DEF HttpInv
<1>8. CASE DrainCompleted
  <2> DEFINE i == CompletedSlot(tasks)
  <2>1. i \in UsedIn(tasks)
    BY <1>8, <1>g, GetCompletedGood DEF DrainCompleted, UsedIn
  <2>2. /\ pc = "collection_report" /\ UNCHANGED <<pc, task, work_id, packet>>
        /\ results' = results \cup {Result(tasks[i])}
        /\ wid' = IF results = {} THEN tasks[i].workid ELSE wid
        /\ tasks' = [tasks EXCEPT ![i] = InitTask]
    BY <1>8 DEF DrainCompleted, GetCompleted
  <2>3. OfPacket(tasks, work_id) /\ StatusIn(tasks, Ended) /\ tasks[i].workid = work_id
    BY <1>p, <2>1, <2>2 DEF PassShape, OfPacket
  <2> HIDE DEF i
  <2>4. \A j \in Slot : tasks'[j] = IF j = i THEN InitTask ELSE tasks[j]
    BY <1>t, <2>2 DEF Table
  <2>5. \A j \in UsedIn(tasks') : j \in UsedIn(tasks) /\ tasks'[j] = tasks[j]
    BY <2>4 DEF UsedIn, InitTask
  <2>6. OfPacket(tasks', work_id) /\ StatusIn(tasks', Ended)
    BY <2>3, <2>5 DEF OfPacket, StatusIn
  <2>7. PassShape'
    BY <2>2, <2>6 DEF PassShape, OfPacket, StatusIn, UsedIn
  <2>8. Result(tasks[i]).workid = work_id
    BY <2>3 DEF Result
  <2>9. wid' = work_id
    BY <1>p, <2>2, <2>3 DEF ReportShape, ReportIsOnePacket
  <2>10. ReportShape'
    BY <1>p, <2>2, <2>8, <2>9 DEF ReportShape, ReportIsOnePacket
  <2>11. QED
    BY <1>w, <2>7, <2>10 DEF HttpInv
<1>9. CASE EndDrain
  <2>1. /\ pc = "collection_report" /\ pc' = "proto_mesg_send"
        /\ CompletedSlot(tasks) = -1
        /\ UNCHANGED <<tasks, task, work_id, packet, results>>
        /\ results # {} => wid' = wid
    BY <1>9 DEF EndDrain
  <2>2. \A j \in Slot : tasks[j].status \notin Ended
    BY <2>1, NoneCompleted DEF NoneEnded
  <2>3. UsedIn(tasks) = {}
    BY <1>p, <2>1, <2>2 DEF PassShape, StatusIn, UsedIn
  <2>4. UsedIn(tasks)' = {}
    BY <2>1, <2>3 DEF UsedIn
  <2>5. PassShape'
    BY <2>1, <2>4 DEF PassShape, OfPacket, StatusIn
  <2>6. ReportShape'
    BY <1>p, <2>1 DEF ReportShape, ReportIsOnePacket
  <2>7. QED
    BY <1>w, <2>5, <2>6 DEF HttpInv
<1>10. CASE Delivered
  <2>1. UsedIn(tasks) = {}
    BY <1>10, <1>p DEF Delivered, PassShape, StatusIn
  <2>2. UsedIn(tasks)' = {} /\ pc' = "get_jobs" /\ results' = {}
    BY <1>10, <2>1 DEF Delivered, UsedIn
  <2>3. PassShape' /\ ReportShape'
    BY <2>2 DEF PassShape, ReportShape, ReportIsOnePacket, OfPacket, StatusIn
  <2>4. QED
    BY <1>w, <2>3 DEF HttpInv
<1>11. QED
  BY <1>1, <1>2, <1>3, <1>4, <1>5, <1>6, <1>7, <1>8, <1>9, <1>10 DEF Next, WorkStep

-----------------------------------------------------------------------------
(* While fewer pairs than slots have been read there is a free slot: no two *)
(* used slots can come from the same pair.                                 *)
LEMMA RoomLeft ==
    ASSUME NEW tb \in Table, NEW w, OfPacket(tb, w),
           NEW P, IsFiniteSet(P), Cardinality(P) < MaxTasks,
           \A i \in UsedIn(tb) : \E p \in P : p.id = tb[i].id
    PROVE  /\ FindWithType(tb, "NULL_TASK") \in Slot
           /\ tb[FindWithType(tb, "NULL_TASK")].type = "NULL_TASK"
<1>1. SUFFICES ASSUME FindWithType(tb, "NULL_TASK") = -1
               PROVE  FALSE
  BY FindType
<1>2. UsedIn(tb) = Slot
  BY <1>1, LowestIsLeast DEF FindWithType, UsedIn
<1>3. IsFiniteSet(Slot) /\ Cardinality(Slot) = MaxTasks
  <2>1. MaxTasks \in Nat \ {0} /\ MaxTasks - 1 \in Int /\ ~(0 > MaxTasks - 1)
    BY TableAssumption
  <2>2. MaxTasks - 1 - 0 + 1 = MaxTasks
    BY <2>1
  <2>3. QED
    BY <2>1, <2>2, FS_Interval DEF Slot
<1> DEFINE f == [i \in Slot |-> CHOOSE p \in P : p.id = tb[i].id]
<1>4. \A i \in Slot : f[i] \in P /\ f[i].id = tb[i].id
  BY <1>2
<1>5. f \in [Slot -> P]
  BY <1>4
<1> HIDE DEF f
<1>6. PICK i, j \in Slot : i # j /\ f[i] = f[j]
  BY <1>3, <1>5, FS_PigeonHole
<1>7. tb[i].id = tb[j].id
  BY <1>4, <1>6
<1>8. QED
  BY <1>2, <1>6, <1>7 DEF OfPacket

SmallPackets == PacketMax <= MaxTasks

KeptInv ==
    /\ HttpInv
    /\ NoTaskDropped
    /\ pc = "dispatch_getwork" => IsFiniteSet(packet)

(* Reading one more pair: a well-formed one finds a free slot, and the     *)
(* tasks of the pairs before it stay where they are.                       *)
LEMMA OfferKept ==
    ASSUME HttpProbe, SmallPackets, KeptInv, AddOffer
    PROVE  NoTaskDropped' /\ IsFiniteSet(packet')
<1> DEFINE T(o) == NvToTask(work_id, o)
<1>1. PICK o \in Offerable :
          /\ packet' = packet \cup {[id |-> o.id, valid |-> ValidTask(T(o))]}
          /\ tasks' = IF ValidTask(T(o)) THEN TaskAdd(tasks, T(o)) ELSE tasks
  BY DEF AddOffer
<1>2. /\ pc = "dispatch_getwork" /\ Cardinality(packet) < PacketMax
      /\ work_id' = work_id /\ IsFiniteSet(packet)
  BY DEF AddOffer, KeptInv
<1>3. IsFiniteSet(packet')
  BY <1>1, <1>2, FS_AddElement
<1>4. /\ tasks \in Table /\ Coherent(tasks) /\ OfPacket(tasks, work_id)
      /\ \A i \in UsedIn(tasks) : \E p \in packet : p.id = tasks[i].id
      /\ work_id \in WorkIds /\ o \in Offer
  BY <1>2, GoodTasks
  DEF KeptInv, HttpInv, WorkerInv, TypeOK, PassShape, Good, Offerable
<1>5. \A p \in packet : p.valid =>
          \E i \in Slot : tasks[i].id = p.id /\ tasks[i].workid = work_id
  BY <1>2 DEF KeptInv, NoTaskDropped
<1>6. CASE ~ValidTask(T(o))
  <2>1. \A p \in packet' : p.valid => p \in packet
    BY <1>1, <1>6
  <2>2. tasks' = tasks
    BY <1>1, <1>6
  <2>3. QED
    BY <1>2, <1>3, <1>5, <2>1, <2>2 DEF NoTaskDropped
<1>7. CASE ValidTask(T(o))
  <2> DEFINE k == FindWithType(tasks, "NULL_TASK")
             s == [T(o) EXCEPT !.status = "TODO"]
  <2>1. T(o) \in Task /\ Occupied(T(o))
    BY <1>4, <1>7, NvToTaskOccupied
  <2>2. Cardinality(packet) < MaxTasks
    <3>1. Cardinality(packet) \in Nat
      BY <1>2, FS_CardinalityType
    <3>2. QED
      BY <1>2, <3>1, TableAssumption, WorkerAssumption DEF SmallPackets
  <2>3. k \in Slot /\ tasks[k].type = "NULL_TASK"
    BY <1>2, <1>4, <2>2, RoomLeft
  <2>4. tasks' = [tasks EXCEPT ![k] = s]
    BY <1>1, <1>7, <2>3, NoSlotMinusOne DEF TaskAdd, ValidTask
  <2>5. T(o).id = o.id /\ T(o).workid = work_id
    BY DEF NvToTask, InitTask
  <2>6. s.id = o.id /\ s.workid = work_id
    BY <2>1, <2>5 DEF Task
  <2>7. tasks[k].workid # work_id
    BY <1>4, <2>3, TableAssumption DEF Coherent, InitTask
  <2> HIDE DEF k, s, T
  <2>8. tasks'[k] = s /\ \A j \in Slot : j # k => tasks'[j] = tasks[j]
    BY <1>4, <2>3, <2>4 DEF Table
  <2>9. ASSUME NEW p \in packet', p.valid
        PROVE  \E i \in Slot : tasks'[i].id = p.id /\ tasks'[i].workid = work_id
    <3>1. CASE p \in packet
      <4>1. PICK i \in Slot : tasks[i].id = p.id /\ tasks[i].workid = work_id
        BY <1>5, <2>9, <3>1
      <4>2. QED
        BY <2>7, <2>8, <4>1
    <3>2. CASE p = [id |-> o.id, valid |-> ValidTask(T(o))]
      BY <2>3, <2>6, <2>8, <3>2
    <3>3. QED
      BY <1>1, <2>9, <3>1, <3>2
  <2>10. QED
    BY <1>2, <1>3, <2>9 DEF NoTaskDropped
<1>8. QED
  BY <1>6, <1>7

(* Only a step that reads a pair can drop a task.                          *)
LEMMA KeptNext ==
    ASSUME HttpProbe, SmallPackets
    PROVE  KeptInv /\ [Next]_workerVars => KeptInv'
<1> SUFFICES ASSUME KeptInv, [Next]_workerVars PROVE KeptInv'
  OBVIOUS
<1>1. HttpInv'
  BY HttpNext DEF KeptInv
<1>2. CASE AddOffer
  BY <1>1, <1>2, OfferKept DEF KeptInv
<1>3. CASE BeginPacket
  <2>1. packet' = {}
    BY <1>3 DEF BeginPacket
  <2>2. NoTaskDropped' /\ IsFiniteSet(packet')
    BY <2>1, FS_EmptySet DEF NoTaskDropped
  <2>3. QED
    BY <1>1, <2>2 DEF KeptInv
<1>4. CASE NoJobs \/ UNCHANGED workerVars
  BY <1>1, <1>4 DEF KeptInv, NoTaskDropped, NoJobs, workerVars
<1>5. CASE \/ EndPacket \/ TakeTask \/ DoHttpTask \/ DoDnsTask \/ DoIcmpTask
          \/ AllProcessed \/ DrainCompleted \/ EndDrain \/ Delivered
  <2>1. pc' # "dispatch_getwork"
    BY <1>5 DEF EndPacket, TakeTask, DoHttpTask, DoDnsTask, DoIcmpTask, Performed,
                AllProcessed, DrainCompleted, EndDrain, Delivered
  <2>2. QED
    BY <1>1, <2>1 DEF KeptInv, NoTaskDropped
<1>6. QED
  BY <1>2, <1>3, <1>4, <1>5 DEF Next, WorkStep

-----------------------------------------------------------------------------
(* The shape of the pass holds throughout every behaviour.                 *)
THEOREM WorkerHttpInvariant ==
    ASSUME HttpProbe
    PROVE  Spec => []HttpInv
  BY HttpInit, HttpNext, PTL DEF Spec

(* process_tasks keeps its "Processes tasks.  All the tasks.": for a probe *)
(* of HTTP tasks nothing is TODO or RUNNING when it has returned, whatever *)
(* the outcomes of the runs.                                               *)
THEOREM WorkerAllTasksProcessed ==
    ASSUME HttpProbe
    PROVE  Spec => []AllTasksProcessed
<1>1. HttpInv => AllTasksProcessed
  <2>1. SUFFICES ASSUME HttpInv, pc \in {"collection_report", "proto_mesg_send", "get_jobs"},
                        NEW i \in Slot, tasks[i].status # "INVALID"
                 PROVE  tasks[i].status \in Ended
    BY DEF AllTasksProcessed, Ended
  <2>2. i \in UsedIn(tasks)
    BY <2>1, GoodTasks, UsedByStatus DEF HttpInv
  <2>3. QED
    BY <2>1, <2>2 DEF HttpInv, PassShape, StatusIn
<1>2. QED
  BY <1>1, WorkerHttpInvariant, PTL

(* update_task and task_set_status, which look up by id alone, always find *)
(* the task being performed, although ids come back in later packets.      *)
THEOREM WorkerLookupFindsTakenTask ==
    ASSUME HttpProbe
    PROVE  Spec => []LookupFindsTakenTask
<1>1. HttpInv => LookupFindsTakenTask
  <2>1. SUFFICES ASSUME HttpInv, pc = "do_task" PROVE LookupFindsTakenTask
    BY DEF LookupFindsTakenTask
  <2>2. PICK i \in UsedIn(tasks) : tasks[i] = task /\ task.status = "RUNNING"
    BY <2>1 DEF HttpInv, PassShape
  <2>3. FindWithId(tasks, tasks[i].id) = i
    BY <2>1, GoodTasks, FindsOwnSlot DEF HttpInv, PassShape
  <2>4. QED
    BY <2>2, <2>3 DEF LookupFindsTakenTask, UsedIn
<1>2. QED
  BY <1>1, WorkerHttpInvariant, PTL

(* The one work_id collection_report puts in a report is the packet of all *)
(* the results it lists, and the packet dispatch_getwork fetched.          *)
THEOREM WorkerReportIsOnePacket ==
    ASSUME HttpProbe
    PROVE  Spec => []ReportIsOnePacket
<1>1. HttpInv => ReportIsOnePacket
  BY DEF HttpInv, ReportShape
<1>2. QED
  BY <1>1, WorkerHttpInvariant, PTL

(* With packets no larger than the table, dispatch may ignore task_add's   *)
(* answer: every well-formed pair of the packet has its slot.              *)
THEOREM WorkerNoTaskDropped ==
    ASSUME HttpProbe, SmallPackets
    PROVE  Spec => []NoTaskDropped
<1>1. Init => KeptInv
  BY HttpInit DEF KeptInv, NoTaskDropped, Init
<1>2. KeptInv => NoTaskDropped
  BY DEF KeptInv
<1>3. QED
  BY <1>1, <1>2, KeptNext, PTL DEF Spec

-----------------------------------------------------------------------------
(***************************************************************************)
(* The worker implements WorkLedger.  A step either changes neither what is *)
(* held nor what is reported, or accepts one new assignment (task_add found *)
(* a slot), or reports everything that is held.  That an assignment is new, *)
(* and that what is delivered was not delivered before, takes facts about   *)
(* the ids of a packet and of earlier packets.                              *)
(***************************************************************************)
FreshInv ==
    /\ \A r \in results : /\ r.err # "UNDEFINED"
                          /\ \A i \in UsedIn(tasks) : tasks[i].id # r.id
    /\ \A r, s \in results : r.id = s.id => r = s
    /\ \A i \in UsedIn(tasks) : tasks[i].status \in Ended => tasks[i].err # "UNDEFINED"
    /\ \A r \in sent : /\ r.err # "UNDEFINED" /\ r.workid \in issued
                       /\ pc # "get_jobs" => r.workid # work_id
    /\ pc # "get_jobs" => work_id \in issued

LedgerInv == HttpInv /\ FreshInv

LedgerStep == Ledger!LedgerNext \/ UNCHANGED <<Held, Reported>>

(* Replacing a used slot by a task on the same assignment: nothing changes  *)
(* in what is held.                                                         *)
LEMMA SameAssignment ==
    ASSUME tasks \in Table, NEW i \in UsedIn(tasks), NEW s,
           tasks' = [tasks EXCEPT ![i] = s],
           Assignment(s) = Assignment(tasks[i]), s.type # "NULL_TASK",
           results' = results
    PROVE  Held' = Held
<1>1. i \in Slot /\ \A j \in Slot : tasks'[j] = IF j = i THEN s ELSE tasks[j]
  BY DEF Table, UsedIn
<1>2. Used' = Used /\ \A j \in Used : Assignment(tasks'[j]) = Assignment(tasks[j])
  BY <1>1 DEF Used, UsedIn
<1>3. {Assignment(tasks'[j]) : j \in Used'} = {Assignment(tasks[j]) : j \in Used}
  BY <1>2
<1>4. {Assignment(r) : r \in results'} = {Assignment(r) : r \in results}
  OBVIOUS
<1>5. QED
  BY <1>3, <1>4 DEF Held

(* dispatch_getwork's step accepts the assignment of a well-formed pair,    *)
(* if there is room in the table.                                           *)
LEMMA OfferAccepted ==
    ASSUME HttpProbe, LedgerInv, AddOffer
    PROVE  FreshInv' /\ LedgerStep
<1> DEFINE T(o) == NvToTask(work_id, o)
           k == FindWithType(tasks, "NULL_TASK")
<1>1. PICK o \in Offerable :
          /\ packet' = packet \cup {[id |-> o.id, valid |-> ValidTask(T(o))]}
          /\ tasks' = IF ValidTask(T(o)) THEN TaskAdd(tasks, T(o)) ELSE tasks
  BY DEF AddOffer
<1>2. /\ pc = "dispatch_getwork" /\ UNCHANGED <<pc, work_id, results, issued, sent>>
      /\ results = {} /\ tasks \in Table /\ work_id \in WorkIds /\ o \in Offer
  BY GoodTasks DEF AddOffer, LedgerInv, HttpInv, WorkerInv, TypeOK, ReportShape, Good, Offerable
<1>3. Reported' = Reported
  BY <1>2 DEF Reported
<1>4. CASE tasks' = tasks
  <2>1. Held' = Held
    BY <1>2, <1>4 DEF Held, Used
  <2>2. FreshInv'
    BY <1>2, <1>4 DEF LedgerInv, FreshInv, UsedIn
  <2>3. QED
    BY <1>3, <2>1, <2>2 DEF LedgerStep
<1>5. CASE tasks' # tasks
  <2> DEFINE s == [T(o) EXCEPT !.status = "TODO"]
             a == Assignment(T(o))
  <2>1. ValidTask(T(o)) /\ tasks' = [tasks EXCEPT ![k] = s] /\ k # -1
    BY <1>1, <1>5 DEF TaskAdd
  <2>2. k \in Slot /\ tasks[k].type = "NULL_TASK"
    BY <1>2, <2>1, FindType
  <2>3. T(o) \in Task /\ Occupied(T(o)) /\ T(o).id = o.id /\ T(o).workid = work_id
    BY <1>2, <2>1, NvToTaskOccupied DEF NvToTask, InitTask
  <2>4. /\ s.id = o.id /\ s.status = "TODO" /\ s.type # "NULL_TASK"
        /\ Assignment(s) = a /\ a.workid = work_id /\ a.id = o.id
        /\ a \in [workid : WorkIds, id : TaskIds, type : HandledTypes, url : Urls]
    BY <2>3 DEF Task, Assignment, Occupied, ValidTask, TaskType
  <2> HIDE DEF k, s, T, a
  <2>5. \A j \in Slot : tasks'[j] = IF j = k THEN s ELSE tasks[j]
    BY <1>2, <2>1 DEF Table
  <2>6. k \notin Used /\ Used' = Used \cup {k}
    BY <2>2, <2>4, <2>5 DEF Used
  <2>7. {Assignment(tasks'[j]) : j \in Used'} = {Assignment(tasks[j]) : j \in Used} \cup {a}
    <3>1. \A j \in Used : tasks'[j] = tasks[j] /\ j \in Slot
      BY <2>5, <2>6 DEF Used
    <3>2. Assignment(tasks'[k]) = a
      BY <2>2, <2>4, <2>5
    <3>3. QED
      BY <2>6, <3>1, <3>2
  <2>8. Held' = Held \cup {a}
    BY <1>2, <2>7 DEF Held
  <2>9. a \notin Held
    <3>1. \A j \in Used : tasks[j].id # o.id
      BY <1>2 DEF LedgerInv, HttpInv, PassShape, Used, UsedIn, Offerable
    <3>2. \A j \in Used : Assignment(tasks[j]).id = tasks[j].id
      BY DEF Assignment
    <3>3. QED
      BY <1>2, <2>4, <3>1, <3>2 DEF Held
  <2>10. a \notin Ledger!Answered
    <3>1. \A r \in sent : r.workid # work_id
      BY <1>2 DEF LedgerInv, FreshInv
    <3>2. \A x \in Reported : x.assignment.workid # work_id
      BY <3>1 DEF Reported, Assignment
    <3>3. QED
      BY <2>4, <3>2 DEF Ledger!Answered
  <2>11. Ledger!Accept(a)
    BY <1>3, <2>8, <2>9, <2>10 DEF Ledger!Accept
  <2>12. FreshInv'
    <3>1. UsedIn(tasks)' = UsedIn(tasks) \cup {k}
      BY <2>6 DEF Used, UsedIn
    <3>2. \A j \in UsedIn(tasks)' : tasks'[j].status \in Ended => tasks'[j].err # "UNDEFINED"
      BY <2>4, <2>5, <3>1 DEF LedgerInv, FreshInv, UsedIn, Ended
    <3>3. QED
      BY <1>2, <3>2 DEF LedgerInv, FreshInv
  <2>13. QED
    BY <2>4, <2>11, <2>12 DEF LedgerStep, Ledger!LedgerNext
<1>6. QED
  BY <1>4, <1>5

(* get_task leaves the assignment of the task it starts as it was.          *)
LEMMA TakeHolds ==
    ASSUME HttpInv, TakeTask
    PROVE  \E i \in UsedIn(tasks), s \in Task :
               /\ tasks' = [tasks EXCEPT ![i] = s]
               /\ s.status = "RUNNING" /\ s.type = tasks[i].type
               /\ s.id = tasks[i].id /\ s.err = tasks[i].err
               /\ Held' = Held
<1> DEFINE i == FindWithStatus(tasks, "TODO")
           s == [tasks[i] EXCEPT !.status = "RUNNING"]
<1>1. Good(tasks) /\ tasks \in Table
  BY GoodTasks DEF HttpInv, Good
<1>2. i \in UsedIn(tasks) /\ tasks[i] \in Task /\ i \in Slot
  BY <1>1, GetTaskGood DEF TakeTask, UsedIn, Table
<1>3. tasks' = [tasks EXCEPT ![i] = s] /\ results' = results
  BY <1>1, <1>2 DEF TakeTask, GetTask, Table
<1>4. /\ Assignment(s) = Assignment(tasks[i]) /\ s.type # "NULL_TASK" /\ s \in Task
      /\ s.status = "RUNNING" /\ s.type = tasks[i].type /\ s.id = tasks[i].id
      /\ s.err = tasks[i].err
  BY <1>2 DEF Assignment, Task, TaskStat, UsedIn
<1> HIDE DEF i, s
<1>5. Held' = Held
  BY <1>1, <1>2, <1>3, <1>4, SameAssignment
<1>6. QED
  BY <1>2, <1>3, <1>4, <1>5

(* A handler leaves the assignment of the task as it was, and a measured    *)
(* verdict beside it.                                                       *)
LEMMA HandlerHolds ==
    ASSUME HttpInv, DoHttpTask \/ DoDnsTask \/ DoIcmpTask
    PROVE  \E i \in UsedIn(tasks), s \in Task :
               /\ tasks' = [tasks EXCEPT ![i] = s]
               /\ s.type = tasks[i].type /\ s.id = tasks[i].id
               /\ s.err # "UNDEFINED"
               /\ Held' = Held
<1> DEFINE f == FindWithId(tasks, task.id)
<1>1. pc = "do_task" /\ Good(tasks) /\ OfPacket(tasks, work_id)
  BY GoodTasks DEF DoHttpTask, DoDnsTask, DoIcmpTask, HttpInv, PassShape
<1>2. PICK i \in UsedIn(tasks) : tasks[i] = task
  BY <1>1 DEF HttpInv, PassShape
<1>3. i \in Slot /\ task \in Task /\ Occupied(task) /\ task.type = "HTTP"
  BY <1>1, <1>2 DEF HttpInv, WorkerInv, TypeOK, UsedIn, OfPacket
<1>4. i = f /\ f # -1
  BY <1>1, <1>2, FindsOwnSlot, NoSlotMinusOne DEF UsedIn
<1>5. PICK o \in HttpOutcome :
          Performed(AfterHandler(HttpTable(tasks, task, o), task.id, o # "done"))
  BY <1>3 DEF DoHttpTask, DoDnsTask, DoIcmpTask
<1>6. PICK s \in Task :
          /\ AfterHandler(HttpTable(tasks, task, o), task.id, o # "done") = [tasks EXCEPT ![i] = s]
          /\ s.workid = task.workid /\ s.type = task.type /\ TaskEnded(s, task)
  <2>1. \A x : x = FindWithId(tasks, task.id) /\ x # -1 =>
            \E s \in Task :
               /\ AfterHandler(HttpTable(tasks, task, o), task.id, o # "done")
                     = [tasks EXCEPT ![x] = s]
               /\ s.workid = tasks[x].workid /\ s.type = tasks[x].type
               /\ TaskEnded(s, task)
    BY <1>1, <1>3, HttpPerformed
  <2>2. QED
    BY <1>2, <1>4, <2>1
<1>7. tasks' = [tasks EXCEPT ![i] = s] /\ results' = results
  BY <1>5, <1>6 DEF Performed
<1>8. /\ Assignment(s) = Assignment(tasks[i]) /\ s.type # "NULL_TASK"
      /\ s.type = tasks[i].type /\ s.id = tasks[i].id /\ s.err # "UNDEFINED"
  BY <1>2, <1>3, <1>6 DEF Assignment, TaskEnded
<1>9. tasks \in Table
  BY <1>1 DEF Good
<1>10. Held' = Held
  BY <1>7, <1>8, <1>9, SameAssignment
<1>11. QED
  BY <1>7, <1>8, <1>10

(* Either way what is held, and what is known of it, stays.                 *)
LEMMA ReplacedKeepsFresh ==
    ASSUME LedgerInv, NEW i \in UsedIn(tasks), NEW s \in Task,
           tasks' = [tasks EXCEPT ![i] = s],
           s.type = tasks[i].type, s.id = tasks[i].id,
           s.status \in Ended => s.err # "UNDEFINED",
           pc # "get_jobs", results = {},
           UNCHANGED <<work_id, results, issued, sent>>
    PROVE  FreshInv'
<1>1. i \in Slot /\ \A j \in Slot : tasks'[j] = IF j = i THEN s ELSE tasks[j]
  BY GoodTasks DEF LedgerInv, HttpInv, Good, Table, UsedIn
<1>2. UsedIn(tasks)' = UsedIn(tasks)
  BY <1>1 DEF UsedIn
<1>3. \A j \in UsedIn(tasks)' : tasks'[j].status \in Ended => tasks'[j].err # "UNDEFINED"
  BY <1>1, <1>2 DEF LedgerInv, FreshInv, UsedIn
<1>4. QED
  BY <1>3 DEF LedgerInv, FreshInv

(* get_completed moves an assignment from the table to the report.          *)
LEMMA DrainHolds ==
    ASSUME HttpInv, DrainCompleted
    PROVE  \E i \in UsedIn(tasks) :
               /\ tasks' = [tasks EXCEPT ![i] = InitTask]
               /\ results' = results \cup {Result(tasks[i])}
               /\ Held' = Held
<1> DEFINE i == CompletedSlot(tasks)
           t == tasks[i]
<1>1. Good(tasks) /\ tasks \in Table
  BY GoodTasks DEF HttpInv, Good
<1>2. tasks' = [tasks EXCEPT ![i] = InitTask] /\ results' = results \cup {Result(t)}
  BY DEF DrainCompleted, GetCompleted
<1>3. i \in UsedIn(tasks)
  BY <1>1, GetCompletedGood DEF DrainCompleted, UsedIn
<1>4. Assignment(Result(t)) = Assignment(t)
  BY DEF Result, Assignment
<1> HIDE DEF i
<1>5. \A j \in Slot : tasks'[j] = IF j = i THEN InitTask ELSE tasks[j]
  BY <1>1, <1>2 DEF Table
<1>6. i \in Used /\ Used' = Used \ {i} /\ \A j \in Used' : tasks'[j] = tasks[j]
  BY <1>3, <1>5 DEF Used, UsedIn, InitTask
<1>7. {Assignment(tasks[j]) : j \in Used} =
        {Assignment(tasks'[j]) : j \in Used'} \cup {Assignment(t)}
  BY <1>6
<1>8. {Assignment(r) : r \in results'} = {Assignment(r) : r \in results} \cup {Assignment(t)}
  BY <1>2, <1>4
<1>9. Held' = Held
  BY <1>7, <1>8 DEF Held
<1>10. QED
  BY <1>2, <1>3, <1>9

(* No step of the pass between the packet and the report changes what is    *)
(* held.                                                                    *)
LEMMA PassHolds ==
    ASSUME HttpInv,
           \/ EndPacket \/ TakeTask \/ DoHttpTask \/ DoDnsTask \/ DoIcmpTask
           \/ AllProcessed \/ DrainCompleted \/ EndDrain
    PROVE  Held' = Held
<1>1. CASE EndPacket \/ AllProcessed \/ EndDrain
  <2>1. tasks' = tasks /\ results' = results
    BY <1>1 DEF EndPacket, AllProcessed, EndDrain, HttpInv, ReportShape
  <2>2. QED
    BY <2>1 DEF Held, Used
<1>2. QED
  BY <1>1, TakeHolds, HandlerHolds, DrainHolds

(* The entry that get_completed's task becomes is the only one with its id. *)
LEMMA DrainKeepsFresh ==
    ASSUME LedgerInv, DrainCompleted
    PROVE  FreshInv'
<1>1. PICK i \in UsedIn(tasks) :
          /\ tasks' = [tasks EXCEPT ![i] = InitTask]
          /\ results' = results \cup {Result(tasks[i])}
  BY DrainHolds DEF LedgerInv
<1> DEFINE t == tasks[i]
<1>2. /\ Good(tasks) /\ tasks \in Table /\ OfPacket(tasks, work_id)
      /\ pc = "collection_report" /\ StatusIn(tasks, Ended)
      /\ UNCHANGED <<pc, work_id, issued, sent>>
  BY GoodTasks DEF DrainCompleted, LedgerInv, HttpInv, PassShape, Good
<1>3. t.err # "UNDEFINED" /\ Result(t).id = t.id /\ Result(t).err = t.err
  BY <1>2 DEF StatusIn, LedgerInv, FreshInv, Result
<1>4. i \in Slot /\ \A j \in Slot : tasks'[j] = IF j = i THEN InitTask ELSE tasks[j]
  BY <1>1, <1>2 DEF Table, UsedIn
<1>5. UsedIn(tasks)' = UsedIn(tasks) \ {i}
  BY <1>4 DEF UsedIn, InitTask
<1>6. \A j \in UsedIn(tasks)' : tasks'[j] = tasks[j] /\ tasks[j].id # t.id
  BY <1>2, <1>4, <1>5 DEF OfPacket, UsedIn
<1>7. \A r \in results' : r.err # "UNDEFINED" /\ \A j \in UsedIn(tasks)' : tasks'[j].id # r.id
  <2>1. \A r \in results : r.err # "UNDEFINED" /\ \A j \in UsedIn(tasks) : tasks[j].id # r.id
    BY DEF LedgerInv, FreshInv
  <2>2. \A r \in results : r.err # "UNDEFINED" /\ \A j \in UsedIn(tasks)' : tasks'[j].id # r.id
    BY <1>5, <1>6, <2>1
  <2>3. Result(t).err # "UNDEFINED" /\ \A j \in UsedIn(tasks)' : tasks'[j].id # Result(t).id
    BY <1>3, <1>6
  <2>4. QED
    BY <1>1, <2>2, <2>3
<1>8. \A r, s \in results' : r.id = s.id => r = s
  BY <1>1, <1>3 DEF LedgerInv, FreshInv
<1>9. QED
  BY <1>2, <1>5, <1>6, <1>7, <1>8 DEF LedgerInv, FreshInv

(* The delivery reports every assignment held, each once, in a report of    *)
(* one packet.                                                              *)
LEMMA DeliveryReports ==
    ASSUME LedgerInv, Delivered
    PROVE  FreshInv' /\ LedgerStep
<1> DEFINE Entry(r) == [assignment |-> Assignment(r), verdict |-> r.err]
           New == {Entry(r) : r \in results}
<1>1. /\ pc = "proto_mesg_send" /\ pc' = "get_jobs" /\ tasks' = tasks
      /\ results' = {} /\ sent' = sent \cup results /\ UNCHANGED <<work_id, issued>>
  BY DEF Delivered
<1>2. UsedIn(tasks) = {} /\ Used = {} /\ Used' = {}
  BY <1>1 DEF LedgerInv, HttpInv, PassShape, StatusIn, Used, UsedIn
<1>3. Held = {Assignment(r) : r \in results} /\ Held' = {}
  BY <1>1, <1>2 DEF Held
<1>4. Reported' = Reported \cup New
  BY <1>1 DEF Reported
<1>5. \A r \in results : r.workid = work_id /\ r.err \in ErrorCond \ {"UNDEFINED"}
  BY DEF LedgerInv, HttpInv, WorkerInv, TypeOK, Results, ReportShape, ReportIsOnePacket, FreshInv
<1>6. \A r \in sent : r.workid # work_id
  BY <1>1 DEF LedgerInv, FreshInv
<1>7. Reported' \ Reported = New
  <2>1. \A x \in Reported : x.assignment.workid # work_id
    BY <1>6 DEF Reported, Assignment
  <2>2. \A x \in New : x.assignment.workid = work_id
    BY <1>5 DEF Assignment
  <2>3. QED
    BY <1>4, <2>1, <2>2
<1>8. \A x \in New : x.assignment \in Held /\ x.verdict \in ErrorCond \ {"UNDEFINED"}
  BY <1>3, <1>5
<1>9. \A x, y \in New : /\ x.assignment.workid = y.assignment.workid
                        /\ x.assignment = y.assignment => x = y
  <2>1. SUFFICES ASSUME NEW r \in results, NEW s \in results
                 PROVE  /\ Assignment(r).workid = Assignment(s).workid
                        /\ Assignment(r) = Assignment(s) => r = s
    OBVIOUS
  <2>2. Assignment(r).id = r.id /\ Assignment(r).workid = r.workid
        /\ Assignment(s).id = s.id /\ Assignment(s).workid = s.workid
    BY DEF Assignment
  <2>3. Assignment(r) = Assignment(s) => r.id = s.id
    BY <2>2
  <2>4. QED
    BY <1>5, <2>2, <2>3 DEF LedgerInv, FreshInv
<1>10. {x.assignment : x \in New} = Held
  <2>1. \A a \in Held : \E x \in New : x.assignment = a
    <3>1. \A r \in results : Entry(r) \in New /\ Entry(r).assignment = Assignment(r)
      OBVIOUS
    <3>2. QED
      BY <1>3, <3>1
  <2> HIDE DEF New
  <2>2. QED
    BY <1>8, <2>1
<1> HIDE DEF New
<1>11. Ledger!Report(Reported' \ Reported)
  <2>1. Held' = Held \ {x.assignment : x \in New}
    BY <1>3, <1>10
  <2>2. Ledger!Report(New)
    BY <1>4, <1>8, <1>9, <2>1 DEF Ledger!Report
  <2>3. QED
    BY <1>7, <2>2
<1>12. FreshInv'
  <2>1. \A r \in sent' : r.err # "UNDEFINED" /\ r.workid \in issued'
    BY <1>1, <1>5 DEF LedgerInv, FreshInv
  <2>2. UsedIn(tasks)' = {}
    BY <1>1, <1>2 DEF UsedIn
  <2>3. QED
    BY <1>1, <2>1, <2>2 DEF FreshInv
<1>13. QED
  BY <1>11, <1>12 DEF LedgerStep, Ledger!LedgerNext

(* Every step is a step of the ledger or invisible to it.                   *)
LEMMA StepIsLedgerStep ==
    ASSUME HttpProbe, LedgerInv, [Next]_workerVars
    PROVE  LedgerInv' /\ LedgerStep
<1>h. HttpInv'
  BY HttpNext DEF LedgerInv
<1> SUFFICES FreshInv' /\ LedgerStep
  BY <1>h DEF LedgerInv
<1>1. CASE UNCHANGED <<tasks, results, sent>>
  <2>1. Held' = Held /\ Reported' = Reported
    BY <1>1 DEF Held, Used, Reported
  <2>2. UsedIn(tasks)' = UsedIn(tasks) /\ issued \subseteq issued'
    BY <1>1 DEF UsedIn, Next, WorkStep, workerVars, NoJobs, BeginPacket, AddOffer, EndPacket,
                TakeTask, DoHttpTask, DoDnsTask, DoIcmpTask, Performed, AllProcessed,
                DrainCompleted, EndDrain, Delivered
  <2>3. CASE BeginPacket
    <3>1. work_id' \in issued' \ issued /\ pc = "get_jobs"
      BY <2>3 DEF BeginPacket
    <3>2. QED
      BY <1>1, <2>1, <2>2, <3>1 DEF LedgerStep, LedgerInv, FreshInv
  <2>4. CASE ~BeginPacket
    <3>1. work_id' = work_id /\ (pc' # "get_jobs" => pc # "get_jobs")
      BY <2>4 DEF Next, WorkStep, workerVars, NoJobs, AddOffer, EndPacket, TakeTask,
                  DoHttpTask, DoDnsTask, DoIcmpTask, Performed, AllProcessed,
                  DrainCompleted, EndDrain, Delivered
    <3>2. QED
      BY <1>1, <2>1, <2>2, <3>1 DEF LedgerStep, LedgerInv, FreshInv
  <2>5. QED
    BY <2>3, <2>4
<1>2. CASE AddOffer
  BY <1>2, OfferAccepted
<1>3. CASE TakeTask \/ DoHttpTask \/ DoDnsTask \/ DoIcmpTask
  <2>1. PICK i \in UsedIn(tasks), s \in Task :
            /\ tasks' = [tasks EXCEPT ![i] = s]
            /\ s.type = tasks[i].type /\ s.id = tasks[i].id
            /\ s.status \in Ended => s.err # "UNDEFINED"
    BY <1>3, TakeHolds, HandlerHolds DEF LedgerInv, Ended
  <2>2. /\ UNCHANGED <<work_id, results, issued, sent>>
        /\ pc # "get_jobs" /\ results = {}
    BY <1>3 DEF TakeTask, DoHttpTask, DoDnsTask, DoIcmpTask, Performed,
                LedgerInv, HttpInv, ReportShape
  <2>3. FreshInv'
    BY <2>1, <2>2, ReplacedKeepsFresh
  <2>4. Held' = Held /\ Reported' = Reported
    BY <1>3, <2>2, PassHolds DEF LedgerInv, Reported
  <2>5. QED
    BY <2>3, <2>4 DEF LedgerStep
<1>5. CASE AllProcessed
  BY <1>5, <1>1 DEF AllProcessed, LedgerInv, HttpInv, ReportShape
<1>6. CASE DrainCompleted
  BY <1>6, PassHolds, DrainKeepsFresh DEF LedgerInv, LedgerStep, DrainCompleted, Reported
<1>7. CASE Delivered
  BY <1>7, DeliveryReports
<1>8. CASE NoJobs \/ BeginPacket \/ EndPacket \/ EndDrain \/ UNCHANGED workerVars
  BY <1>1, <1>8 DEF NoJobs, BeginPacket, EndPacket, EndDrain, workerVars
<1>9. QED
  BY <1>2, <1>3, <1>5, <1>6, <1>7, <1>8 DEF Next, WorkStep

(* The worker of a probe of HTTP tasks implements WorkLedger: whatever the  *)
(* packets and outcomes, each accepted assignment is held until it is       *)
(* reported, once, with a measured verdict, on its own URL and under its    *)
(* own packet.                                                              *)
THEOREM WorkerKeepsLedger ==
    ASSUME HttpProbe
    PROVE  Spec => KeepsLedger
<1>1. Init => LedgerInv
  <2>1. SUFFICES ASSUME Init PROVE FreshInv
    BY HttpInit DEF LedgerInv
  <2>2. UsedIn(tasks) = {} /\ results = {} /\ sent = {} /\ pc = "get_jobs"
    BY <2>1 DEF Init, UsedIn, TasksInit, InitTask
  <2>3. QED
    BY <2>2 DEF FreshInv
<1>2. Init => Ledger!LedgerInit
  <2>1. SUFFICES ASSUME Init PROVE Held = {} /\ Reported = {}
    BY DEF Ledger!LedgerInit
  <2>2. Used = {} /\ results = {} /\ sent = {}
    BY <2>1 DEF Init, Used, TasksInit, InitTask
  <2>3. QED
    BY <2>2 DEF Held, Reported
<1>3. LedgerInv /\ [Next]_workerVars => LedgerInv'
  BY StepIsLedgerStep
<1>4. LedgerInv /\ [Next]_workerVars => [Ledger!LedgerNext]_(Ledger!ledgerVars)
  BY StepIsLedgerStep DEF LedgerStep, Ledger!ledgerVars
<1>5. QED
  BY <1>1, <1>2, <1>3, <1>4, PTL DEF Spec, KeepsLedger, Ledger!LedgerSpec

-----------------------------------------------------------------------------
(* The whole probe.                                                        *)

(* The parts of the inductive invariant.  OneIdentity needs that a packet   *)
(* is worked on under the id it was given to, from dispatch_getwork on.     *)
AtWork == {"dispatch_getwork", "process_tasks", "do_task", "collection_report",
           "proto_mesg_send"}

Texts == IdText \cup {NoText}

PassType ==
    /\ tasks \in [Slot -> Task] /\ task \in Task
    /\ work_id \in WorkIds \cup {0}
    /\ packet \subseteq [id : TaskIds \cup {0}, valid : BOOLEAN]
    /\ results \subseteq Results /\ wid \in WorkIds \cup {NoWork}
    /\ issued \subseteq WorkIds /\ sent \subseteq Results

OwnType ==
    /\ pc \in {"get_jobs", "save_dispatch_key", "givework", "dead"} \cup AtWork
    /\ probe_id \in ReadIds /\ report_id \in ReadIds \cup {-1}
    /\ dispatch_key \in KeyState /\ mishap \in Mishap
    /\ id_file \in Texts /\ given \in Texts
    /\ registered \subseteq ProbeIds /\ retired \subseteq ProbeIds
    /\ issuer \in [WorkIds -> ProbeIds \cup {0}]
    /\ saved \subseteq issued /\ answered \subseteq WorkIds
    /\ faults \in 0 .. MaxFaults

BoolType == key_file \in BOOLEAN

PairsType == pairs \in [WorkIds -> SUBSET (TaskIds \cup {0})]

TypeInv == PassType /\ OwnType /\ BoolType /\ PairsType

TableInv ==
    /\ SlotsCoherent
    /\ pc = "do_task" => Occupied(task)
    /\ pc \in AtWork => work_id # 0

IdInv ==
    /\ OneIdentity
    /\ pc \in AtWork => /\ work_id \in WorkIds /\ probe_id # 0
                        /\ issuer[work_id] = probe_id
    /\ pc = "proto_mesg_send" => report_id # -1
    /\ report_id # -1 => probe_id # 0
    /\ given # NoText => probe_id = Atoi(given) /\ probe_id # 0

(* KeyMissingOnlyAfterMishap needs that key and file agree while the        *)
(* process runs, that what the file lacks was lost in the last check-in,    *)
(* and that none begins in a process that holds no more than a key's        *)
(* parameters.                                                              *)
KeyInv ==
    /\ dispatch_key = "LOADED" => key_file
    /\ dispatch_key = "HOLLOW" => probe_id # 0 /\ pc # "save_dispatch_key"
    /\ pc = "save_dispatch_key" => probe_id # 0
    /\ (pc # "dead" /\ key_file) => dispatch_key # "NULL"
    /\ (id_file # NoText /\ ~key_file) => mishap # "none" \/ pc = "save_dispatch_key"

ProbeInv == TypeInv /\ TableInv /\ IdInv /\ KeyInv

-----------------------------------------------------------------------------
(* What the two conversions make of an id, and that they agree without a    *)
(* leading zero.                                                            *)
LEMMA Conversions ==
    /\ \A text \in IdText : /\ Atoi(text) \in ProbeIds /\ Atoi(text) # 0 /\ text # NoText
                            /\ Atoi(text) = text.id
    /\ \A text \in Texts : ScanI(text) \in ReadIds
    /\ \A text \in Texts : ~text.zero => ScanI(text) = Atoi(text)
    /\ ProbeIds \subseteq ReadIds /\ 0 \in ReadIds
<1>1. \A text \in IdText : text.id \in ProbeIds /\ text.id # 0
  BY ProbeAssumption DEF IdText
<1>2. NoText.id = 0
  BY DEF NoText
<1>3. \A text \in Texts : text.id \in ProbeIds \cup {0}
  BY <1>1, <1>2 DEF Texts
<1>4. \A text \in Texts : ScanI(text) \in ReadIds
  <2>1. SUFFICES ASSUME NEW text \in Texts PROVE ScanI(text) \in ReadIds
    OBVIOUS
  <2>2. CASE text \in IdText
    BY <1>1, <2>2, Zenon DEF ScanI, ReadIds
  <2>3. CASE text = NoText
    BY <2>3 DEF ScanI, ReadIds, NoText
  <2>4. QED
    BY <2>2, <2>3 DEF Texts
<1>5. QED
  BY <1>1, <1>2, <1>4, Zenon DEF Atoi, ScanI, ReadIds

(* Where the worker is in its pass, its own invariant holds, and the steps  *)
(* of the pass keep it.                                                     *)
LEMMA PassKeepsWorkerInv ==
    ASSUME TypeInv, TableInv, ReadPacket \/ Process
    PROVE  WorkerInv'
<1>1. WorkStep /\ pc \in AtWork
  BY DEF ReadPacket, Process, WorkStep, AtWork, AddOffer, EndPacket, TakeTask, DoHttpTask,
         DoDnsTask, DoIcmpTask, AllProcessed, DrainCompleted, EndDrain
<1>2. WorkerInv
  BY <1>1 DEF TypeInv, PassType, TableInv, WorkerInv, TypeOK, AtWork
<1>3. QED
  BY <1>1, <1>2, NextInv DEF Next

(* The steps of the pass change nothing that is not the worker's, and leave *)
(* work_id alone.                                                           *)
LEMMA PassLeavesRest ==
    ASSUME ReadPacket \/ Process
    PROVE  /\ UNCHANGED <<work_id, issued, sent, memory, files, registered, retired,
                          issuer, saved, history>>
           /\ pc \in AtWork /\ pc' \in AtWork
           /\ (pc' = "proto_mesg_send" => report_id # -1)
<1>1. CASE ReadPacket
  BY <1>1 DEF ReadPacket, AddOffer, AtWork
<1>2. CASE Process
  BY <1>2 DEF Process, EndPacket, TakeTask, DoHttpTask, DoDnsTask, DoIcmpTask, Performed,
              AllProcessed, DrainCompleted, EndDrain, AtWork
<1>3. QED
  BY <1>1, <1>2

(* The empty memory of a process that ended has the right types.            *)
LEMMA DiesType ==
    ASSUME Dies
    PROVE  /\ tasks' \in [Slot -> Task] /\ Coherent(tasks') /\ task' \in Task
           /\ pc' = "dead"
  BY InitTaskType, TasksInitCoherent DEF Dies, Table

-----------------------------------------------------------------------------
(* Init: nothing is known, nothing is on disk.                              *)
LEMMA ProbeInitInv == ProbeInit => ProbeInv
<1> SUFFICES ASSUME ProbeInit PROVE ProbeInv
  OBVIOUS
<1>1. WorkerInv
  BY InitInv DEF ProbeInit
<1>2. TypeInv
  <2>1. PassType
    BY <1>1 DEF WorkerInv, TypeOK, PassType
  <2>2. OwnType /\ PairsType
    BY ProbeAssumption DEF OwnType, PairsType, KeyState, Mishap, Texts, ReadIds, ProbeInit, Init
  <2>3. BoolType
    BY DEF BoolType, ProbeInit
  <2>4. QED
    BY <2>1, <2>2, <2>3 DEF TypeInv
<1>3. TableInv
  BY <1>1 DEF WorkerInv, TableInv, AtWork, ProbeInit, Init
<1>4. IdInv
  <2>1. probe_id = 0 /\ report_id = -1 /\ given = NoText /\ pc = "get_jobs"
    BY DEF ProbeInit, Init
  <2>2. QED
    BY <2>1 DEF IdInv, OneIdentity, AtWork
<1>5. KeyInv
  BY DEF KeyInv, ProbeInit, Init
<1>6. QED
  BY <1>2, <1>3, <1>4, <1>5 DEF ProbeInv

-----------------------------------------------------------------------------
(* Types: what the worker keeps is as in its pass, or gone with the process.*)
LEMMA PassTypeNext == TypeInv /\ TableInv /\ [ProbeNext]_vars => PassType'
<1> SUFFICES ASSUME TypeInv, TableInv, [ProbeNext]_vars PROVE PassType'
  OBVIOUS
<1>1. PassType /\ saved \subseteq issued
  BY DEF TypeInv, OwnType
<1>2. CASE UNCHANGED <<pass, issued, sent>>
  BY <1>1, <1>2 DEF PassType, pass
<1>3. CASE Dies /\ UNCHANGED issued /\ (UNCHANGED sent \/ ServerTakesReport)
  <2>1. tasks' \in [Slot -> Task] /\ task' \in Task
    BY <1>3, DiesType
  <2>2. work_id' = 0 /\ packet' = {} /\ results' = {} /\ wid' = NoWork
    BY <1>3 DEF Dies
  <2>3. issued' \subseteq WorkIds /\ sent' \subseteq Results
    BY <1>1, <1>3 DEF PassType, ServerTakesReport
  <2>4. QED
    BY <2>1, <2>2, <2>3 DEF PassType
<1>4. CASE PassEnds /\ UNCHANGED issued /\ (UNCHANGED sent \/ ServerTakesReport)
  BY <1>1, <1>4 DEF PassType, PassEnds, ServerTakesReport
<1>5. CASE UNCHANGED <<pass, issued>> /\ ServerTakesReport
  BY <1>1, <1>5 DEF PassType, pass, ServerTakesReport
<1>6. CASE GiveworkAssigned
  BY <1>1, <1>6 DEF PassType, GiveworkAssigned
<1>7. CASE ReadPacket \/ Process
  BY <1>7, PassKeepsWorkerInv DEF WorkerInv, TypeOK, PassType
<1>8. CASE UNCHANGED vars
  BY <1>8, <1>2 DEF vars, workerVars, pass
<1>9. CASE Crash \/ Denied
  BY <1>9, <1>3 DEF Crash, Denied, server
<1>10. CASE Restart \/ KnownProbe \/ Checkin \/ GiveworkFails \/ GiveworkNotFound
  BY <1>10, <1>2
  DEF Restart, KnownProbe, Checkin, CheckinFails, CheckinAnswerLost, CheckinAssigned,
      SaveDispatchKey, GiveworkFails, GiveworkNotFound, server
<1>11. CASE CollectionInit
  BY <1>11, <1>2, <1>3 DEF CollectionInit, server
<1>12. CASE ReportLost \/ ServerForgets
  BY <1>12, <1>2 DEF ReportLost, ServerForgets, vars, workerVars, pass
<1>13. CASE ReportAnswerLost
  BY <1>13, <1>5 DEF ReportAnswerLost
<1>14. CASE Answered \/ ReportUnanswerable
  BY <1>14, <1>3, <1>4
  DEF Answered, ReportSaved, ReportRefused, ReportWithoutKey, ReportUnanswerable, server
<1>15. QED
  BY <1>6, <1>7, <1>8, <1>9, <1>10, <1>11, <1>12, <1>13, <1>14 DEF ProbeNext, Givework

(* Types: the ids, the key's state and what the server keeps.               *)
LEMMA OwnTypeNext == TypeInv /\ TableInv /\ [ProbeNext]_vars => OwnType'
<1> SUFFICES ASSUME TypeInv, TableInv, [ProbeNext]_vars PROVE OwnType'
  OBVIOUS
<1>1. OwnType /\ work_id \in WorkIds \cup {0} /\ issued \subseteq WorkIds
  BY DEF TypeInv, PassType
<1> DEFINE OneFault == faults < MaxFaults /\ faults' = faults + 1
<1>2. (OneFault \/ UNCHANGED faults) => faults' \in 0 .. MaxFaults
  BY <1>1, ProbeAssumption DEF OwnType
<1>3. ServerTakesReport => saved' \subseteq issued
  BY <1>1 DEF ServerTakesReport, Stores, OwnType
<1>4. (RecordAnswer /\ pc = "proto_mesg_send" /\ work_id \in WorkIds) => answered' \subseteq WorkIds
  BY <1>1 DEF RecordAnswer, OwnType
<1>t. 0 \in ReadIds /\ NoText \in Texts /\ IdText \subseteq Texts
  BY Conversions DEF Texts
<1> USE DEF OwnType, KeyState, Mishap
<1>5. CASE UNCHANGED vars
  BY <1>1, <1>5 DEF vars, workerVars, memory, files, history
<1>6. CASE Crash
  BY <1>1, <1>t, <1>2, <1>6 DEF Crash, Dies, files, server
<1>7. CASE Denied
  BY <1>1, <1>t, <1>2, <1>7 DEF Denied, Dies, files, server
<1>8. CASE Restart
  BY <1>1, <1>8 DEF Restart, pass, files, server, history
<1>9. CASE KnownProbe
  BY <1>1, <1>9, Conversions DEF KnownProbe, pass, files, server, history
<1>10. CASE CheckinFails
  BY <1>1, <1>10 DEF CheckinFails, pass, memory, files, server, history
<1>11. CASE CheckinAnswerLost
  BY <1>1, <1>11 DEF CheckinAnswerLost, NewIds, pass, memory, files, history
<1>12. CASE CheckinAssigned
  <2>1. PICK text \in IdText :
          /\ text.id \in NewIds /\ registered' = registered \cup {text.id}
          /\ probe_id' = Atoi(text) /\ given' = text /\ id_file' \in {text, id_file}
    BY <1>12, Zenon DEF CheckinAssigned
  <2>2. /\ probe_id' \in ReadIds /\ given' \in Texts /\ id_file' \in Texts
        /\ registered' \subseteq ProbeIds
    BY <1>1, <1>t, <2>1, Conversions DEF NewIds
  <2>3. /\ UNCHANGED <<report_id, dispatch_key, retired, issuer, saved, issued, answered>>
        /\ pc' \in {"save_dispatch_key", "givework"} /\ mishap' \in {mishap, "none", "no key"}
        /\ OneFault \/ UNCHANGED faults
    BY <1>12 DEF CheckinAssigned
  <2>4. QED
    BY <1>1, <1>2, <2>2, <2>3
<1>13. CASE SaveDispatchKey
  BY <1>1, <1>2, <1>13 DEF SaveDispatchKey, pass, server
<1>14. CASE GiveworkFails \/ GiveworkNotFound
  BY <1>1, <1>t, <1>14 DEF GiveworkFails, GiveworkNotFound, pass, memory, files, server, history
<1>15. CASE GiveworkAssigned
  BY <1>1, <1>15 DEF GiveworkAssigned, memory, files, history, AtWork
<1>16. CASE ReadPacket \/ Process
  BY <1>1, <1>16, PassLeavesRest DEF memory, files, history
<1>17. CASE CollectionInit
  BY <1>1, <1>t, <1>17, Conversions DEF CollectionInit, Dies, pass, files, server, history
<1>18. CASE ReportLost
  BY <1>1, <1>18 DEF ReportLost, vars, workerVars, memory, files, history
<1>19. CASE ReportAnswerLost
  BY <1>1, <1>3, <1>19 DEF ReportAnswerLost, pass, memory, files, history
<1>20. CASE ReportSaved \/ ReportRefused \/ ReportUnanswerable
  <2>1. pc = "proto_mesg_send" /\ RecordAnswer
    BY <1>20 DEF ReportSaved, ReportRefused, ReportUnanswerable
  <2>2. work_id \in WorkIds
    BY <1>1, <2>1 DEF TableInv, AtWork
  <2>3. answered' \subseteq WorkIds
    BY <1>4, <2>1, <2>2
  <2>4. CASE ReportSaved
    BY <1>1, <1>3, <2>3, <2>4 DEF ReportSaved, PassEnds, memory, files
  <2>5. CASE ReportRefused
    BY <1>1, <1>t, <2>3, <2>5 DEF ReportRefused, PassEnds, memory, server
  <2>6. CASE ReportUnanswerable
    BY <1>1, <1>t, <1>2, <2>3, <2>6 DEF ReportUnanswerable, PassEnds, Dies, memory, files, server
  <2>7. QED
    BY <1>20, <2>4, <2>5, <2>6
<1>21. CASE ReportWithoutKey
  BY <1>1, <1>t, <1>3, <1>21 DEF ReportWithoutKey, Dies, files, history
<1>22. CASE ServerForgets
  BY <1>1, <1>22 DEF ServerForgets, workerVars, memory, files, history
<1>23. QED
  BY <1>5, <1>6, <1>7, <1>8, <1>9, <1>10, <1>11, <1>12, <1>13, <1>14, <1>15, <1>16, <1>17,
     <1>18, <1>19, <1>20, <1>21, <1>22 DEF ProbeNext, Checkin, Givework, Answered

(* Types: the Boolean variables.                                            *)
LEMMA BoolTypeNext == TypeInv /\ [ProbeNext]_vars => BoolType'
<1> SUFFICES ASSUME TypeInv, [ProbeNext]_vars PROVE BoolType'
  OBVIOUS
<1>1. key_file \in BOOLEAN
  BY DEF TypeInv, BoolType
<1>2. UNCHANGED key_file \/ SaveDispatchKey
  <2>1. CASE UNCHANGED vars
    BY <2>1 DEF vars, files, history
  <2>2. CASE Crash \/ Denied \/ Restart \/ KnownProbe \/ CollectionInit
    BY <2>2 DEF Crash, Denied, Restart, KnownProbe, CollectionInit, files
  <2>3. CASE CheckinFails \/ CheckinAnswerLost \/ CheckinAssigned
    BY <2>3 DEF CheckinFails, CheckinAnswerLost, CheckinAssigned, files, history
  <2>4. CASE Givework
    BY <2>4 DEF Givework, GiveworkFails, GiveworkNotFound, GiveworkAssigned, files, history
  <2>5. CASE ReadPacket \/ Process
    BY <2>5, PassLeavesRest DEF files, history
  <2>6. CASE ReportLost \/ ReportAnswerLost \/ ServerForgets
    BY <2>6 DEF ReportLost, ReportAnswerLost, ServerForgets, vars, files, history
  <2>7. CASE Answered \/ ReportUnanswerable
    BY <2>7 DEF Answered, ReportSaved, ReportRefused, ReportWithoutKey, ReportUnanswerable,
                files, history
  <2>8. QED
    BY <2>1, <2>2, <2>3, <2>4, <2>5, <2>6, <2>7 DEF ProbeNext, Checkin
<1>3. CASE UNCHANGED key_file
  BY <1>1, <1>3 DEF BoolType
<1>4. CASE SaveDispatchKey
  BY <1>1, <1>4 DEF SaveDispatchKey, BoolType
<1>5. QED
  BY <1>2, <1>3, <1>4

(* Types: the server keeps the ids of a packet's pairs; only reading one    *)
(* adds to them.                                                            *)
LEMMA PairsTypeNext == TypeInv /\ TableInv /\ [ProbeNext]_vars => PairsType'
<1> SUFFICES ASSUME TypeInv, TableInv, [ProbeNext]_vars PROVE PairsType'
  OBVIOUS
<1>1. pairs \in [WorkIds -> SUBSET (TaskIds \cup {0})]
  BY DEF TypeInv, PairsType
<1>2. CASE UNCHANGED pairs
  BY <1>1, <1>2 DEF PairsType
<1>3. CASE ReadPacket
  <2>1. packet' \subseteq [id : TaskIds \cup {0}, valid : BOOLEAN]
    BY <1>3, PassKeepsWorkerInv DEF WorkerInv, TypeOK
  <2>2. {p.id : p \in packet'} \subseteq TaskIds \cup {0}
    BY <2>1
  <2>3. QED
    BY <1>1, <1>3, <2>2 DEF ReadPacket, PairsType
<1>4. UNCHANGED pairs \/ ReadPacket
  <2>1. CASE UNCHANGED vars
    BY <2>1 DEF vars
  <2>2. CASE Crash \/ Denied \/ Restart \/ KnownProbe \/ CollectionInit
    BY <2>2 DEF Crash, Denied, Restart, KnownProbe, CollectionInit, server
  <2>3. CASE Checkin
    BY <2>3 DEF Checkin, CheckinFails, CheckinAnswerLost, CheckinAssigned, SaveDispatchKey, server
  <2>4. CASE Givework
    BY <2>4 DEF Givework, GiveworkFails, GiveworkNotFound, GiveworkAssigned, server
  <2>5. CASE Process
    BY <2>5 DEF Process
  <2>6. CASE ReportLost \/ ReportAnswerLost \/ ServerForgets
    BY <2>6 DEF ReportLost, ReportAnswerLost, ServerForgets, vars
  <2>7. CASE Answered \/ ReportUnanswerable
    BY <2>7 DEF Answered, ReportSaved, ReportRefused, ReportWithoutKey, ReportUnanswerable, server
  <2>8. QED
    BY <2>1, <2>2, <2>3, <2>4, <2>5, <2>6, <2>7 DEF ProbeNext
<1>5. QED
  BY <1>2, <1>3, <1>4

-----------------------------------------------------------------------------
(* The table: kept by the steps of the pass, emptied when the process ends, *)
(* untouched by the rest; a packet that is begun has an id.                 *)
LEMMA TableNext == TypeInv /\ TableInv /\ [ProbeNext]_vars => TableInv'
<1> SUFFICES ASSUME TypeInv, TableInv, [ProbeNext]_vars PROVE TableInv'
  OBVIOUS
<1>1. CASE UNCHANGED <<tasks, task, work_id, pc>>
  BY <1>1 DEF TableInv, SlotsCoherent, Coherent
<1>2. CASE UNCHANGED <<tasks>> /\ pc' \notin AtWork
  BY <1>2 DEF TableInv, SlotsCoherent, Coherent, AtWork
<1>3. CASE Dies
  BY <1>3, DiesType DEF TableInv, SlotsCoherent, Coherent, AtWork
<1>4. CASE GiveworkAssigned
  <2>1. work_id' # 0
    BY <1>4, TableAssumption DEF GiveworkAssigned
  <2>2. UNCHANGED tasks /\ pc' = "dispatch_getwork"
    BY <1>4 DEF GiveworkAssigned
  <2>3. QED
    BY <2>1, <2>2 DEF TableInv, SlotsCoherent, Coherent
<1>5. CASE ReadPacket \/ Process
  <2>1. SlotsCoherent' /\ (pc' = "do_task" => Occupied(task'))
    BY <1>5, PassKeepsWorkerInv DEF WorkerInv, Occupied
  <2>2. work_id' # 0
    BY <1>5, PassLeavesRest DEF TableInv
  <2>3. QED
    BY <2>1, <2>2 DEF TableInv, Occupied
<1>6. CASE CollectionInit
  BY <1>6, <1>1, <1>3 DEF CollectionInit, pass
<1>7. CASE ReportLost \/ ReportAnswerLost \/ ServerForgets \/ UNCHANGED vars
  BY <1>7, <1>1
  DEF ReportLost, ReportAnswerLost, ServerForgets, vars, workerVars, pass
<1>8. CASE Crash \/ Denied \/ Answered \/ ReportUnanswerable
  BY <1>8, <1>2, <1>3
  DEF Crash, Denied, Answered, ReportSaved, ReportRefused, ReportWithoutKey,
      ReportUnanswerable, PassEnds, AtWork
<1>9. CASE Restart \/ KnownProbe \/ Checkin \/ GiveworkFails \/ GiveworkNotFound
  BY <1>9, <1>2
  DEF Restart, KnownProbe, Checkin, CheckinFails, CheckinAnswerLost, CheckinAssigned,
      SaveDispatchKey, GiveworkFails, GiveworkNotFound, pass, AtWork
<1>10. QED
  BY <1>4, <1>5, <1>6, <1>7, <1>8, <1>9 DEF ProbeNext, Givework

-----------------------------------------------------------------------------
(* The identity: it is taken from the server or the file while there is     *)
(* none in memory, copied from the file once, and given to packets.         *)
LEMMA IdNext == TypeInv /\ IdInv /\ [ProbeNext]_vars => IdInv'
<1> SUFFICES ASSUME TypeInv, IdInv, [ProbeNext]_vars PROVE IdInv'
  OBVIOUS
<1> USE DEF IdInv, OneIdentity
<1>1. /\ id_file \in Texts /\ given \in Texts
      /\ probe_id = 0 => report_id = -1 /\ given = NoText
  BY DEF TypeInv, OwnType
<1>2. CASE UNCHANGED <<pc, work_id, probe_id, report_id, given, id_file, issuer>>
  BY <1>2
<1>3. CASE /\ UNCHANGED <<probe_id, report_id, given>>
           /\ id_file' \in {NoText, id_file} /\ pc' \notin AtWork
  BY <1>3 DEF AtWork
<1>4. CASE Dies
  BY <1>4 DEF Dies, AtWork
<1>5. CASE KnownProbe
  BY <1>1, <1>5 DEF KnownProbe, files, AtWork
<1>6. CASE CheckinAssigned
  <2>1. PICK text \in IdText :
          probe_id' = Atoi(text) /\ given' = text /\ id_file' \in {text, id_file}
    BY <1>6, Zenon DEF CheckinAssigned
  <2>2. /\ report_id' = -1 /\ id_file = NoText /\ pc' \in {"save_dispatch_key", "givework"}
    BY <1>1, <1>6 DEF CheckinAssigned, NewProbe
  <2>3. Atoi(text) # 0
    BY Conversions
  <2>4. QED
    BY <2>1, <2>2, <2>3 DEF AtWork
<1>7. CASE GiveworkAssigned
  <2>1. PICK w \in WorkIds : work_id' = w /\ issuer' = [issuer EXCEPT ![w] = probe_id]
    BY <1>7 DEF GiveworkAssigned
  <2>2. issuer'[work_id'] = probe_id
    BY <2>1 DEF TypeInv, OwnType
  <2>3. probe_id # 0
    BY <1>7, ProbeAssumption DEF GiveworkAssigned, TypeInv, OwnType
  <2>4. UNCHANGED <<probe_id, report_id, given, id_file>> /\ pc' = "dispatch_getwork"
    BY <1>7 DEF GiveworkAssigned, memory, files
  <2>5. QED
    BY <2>1, <2>2, <2>3, <2>4
<1>8. CASE ReadPacket \/ Process
  <2>1. /\ UNCHANGED <<work_id, probe_id, report_id, given, id_file, issuer>>
        /\ pc \in AtWork /\ (pc' = "proto_mesg_send" => report_id # -1)
    BY <1>8, PassLeavesRest DEF memory, files
  <2>2. given # NoText /\ ~given.zero => ScanI(given) = Atoi(given)
    BY <1>1, Conversions
  <2>3. QED
    BY <2>1, <2>2
<1>9. CASE CollectionInit
  <2>1. CASE Dies
    BY <1>4, <2>1
  <2>2. CASE ~Dies
    <3>1. /\ id_file # NoText /\ report_id' = ScanI(id_file)
          /\ UNCHANGED <<pc, work_id, probe_id, given, id_file, issuer>>
          /\ pc = "collection_report"
      BY <1>9, <2>2 DEF CollectionInit, pass, files, server
    <3>2. probe_id # 0
      BY <3>1 DEF AtWork
    <3>3. report_id' = IF given = NoText THEN probe_id ELSE ScanI(given)
      BY <3>1, <3>2
    <3>4. QED
      BY <3>1, <3>2, <3>3
  <2>3. QED
    BY <2>1, <2>2
<1>10. CASE ReportLost \/ ReportAnswerLost \/ ServerForgets \/ UNCHANGED vars
  BY <1>10, <1>2
  DEF ReportLost, ReportAnswerLost, ServerForgets, vars, workerVars, pass, memory, files
<1>11. CASE Crash \/ Denied
  BY <1>11, <1>4 DEF Crash, Denied
<1>12. CASE Answered \/ ReportUnanswerable
  BY <1>12, <1>3, <1>4
  DEF Answered, ReportSaved, ReportRefused, ReportWithoutKey, ReportUnanswerable,
      PassEnds, memory, files, AtWork
<1>13. CASE Restart \/ CheckinFails \/ CheckinAnswerLost \/ SaveDispatchKey
  BY <1>13, <1>3
  DEF Restart, CheckinFails, CheckinAnswerLost, SaveDispatchKey, memory, files, AtWork
<1>14. CASE GiveworkFails \/ GiveworkNotFound
  BY <1>14, <1>3 DEF GiveworkFails, GiveworkNotFound, memory, files, AtWork
<1>15. QED
  BY <1>5, <1>6, <1>7, <1>8, <1>9, <1>10, <1>11, <1>12, <1>13, <1>14
  DEF ProbeNext, Checkin, Givework

-----------------------------------------------------------------------------
(* The key: it is loaded from the file or saved to it, and a check-in that  *)
(* does not save one is remembered.                                         *)
LEMMA KeyNext == TypeInv /\ KeyInv /\ [ProbeNext]_vars => KeyInv'
<1> SUFFICES ASSUME TypeInv, KeyInv, [ProbeNext]_vars PROVE KeyInv'
  OBVIOUS
<1> USE DEF KeyInv
<1>1. CASE /\ UNCHANGED <<dispatch_key, key_file, mishap>>
           /\ id_file' \in {NoText, id_file} /\ (probe_id # 0 => probe_id' = probe_id)
           /\ pc # "dead" /\ pc' # "save_dispatch_key" /\ pc # "save_dispatch_key"
  BY <1>1
<1>2. CASE Dies /\ UNCHANGED <<files, mishap>> /\ pc # "save_dispatch_key"
  BY <1>2 DEF Dies, files
<1>3. CASE Crash
  BY <1>3 DEF Crash, Dies, files
<1>4. CASE Restart
  BY <1>4 DEF Restart, files, history
<1>5. CASE CheckinAssigned
  <2>1. PICK text \in IdText : probe_id' = Atoi(text)
    BY <1>5, Zenon DEF CheckinAssigned
  <2>2. probe_id' # 0
    BY <2>1, Conversions
  <2>3. /\ UNCHANGED <<dispatch_key, key_file>> /\ probe_id = 0 /\ id_file = NoText
        /\ \/ pc' = "save_dispatch_key"
           \/ pc' = "givework" /\ (id_file' = id_file \/ mishap' = "no key")
        /\ pc = "get_jobs"
    BY <1>5 DEF CheckinAssigned, NewProbe
  <2>4. QED
    BY <2>2, <2>3
<1>6. CASE SaveDispatchKey
  <2>1. dispatch_key \in {"NULL", "HOLLOW", "LOADED"}
    BY DEF TypeInv, OwnType, KeyState
  <2>2. pc = "save_dispatch_key" /\ pc' = "givework" /\ UNCHANGED <<id_file, probe_id>>
    BY <1>6 DEF SaveDispatchKey
  <2>3. \/ dispatch_key' = "LOADED" /\ key_file' = TRUE
        \/ dispatch_key = "LOADED" /\ UNCHANGED <<dispatch_key, key_file>>
        \/ dispatch_key' \in {"NULL", "HOLLOW"} /\ UNCHANGED key_file
           /\ mishap' \in {"no key", "not written"} /\ dispatch_key = "NULL"
    BY <1>6, <2>1, <2>2 DEF SaveDispatchKey
  <2>4. probe_id # 0 /\ pc # "dead"
    BY <2>2
  <2>5. CASE dispatch_key = "LOADED" /\ UNCHANGED <<dispatch_key, key_file>>
    BY <2>2, <2>4, <2>5
  <2>6. CASE dispatch_key' = "LOADED" /\ key_file' = TRUE
    BY <2>2, <2>4, <2>6
  <2>7. CASE /\ dispatch_key' \in {"NULL", "HOLLOW"} /\ UNCHANGED key_file
             /\ mishap' \in {"no key", "not written"} /\ dispatch_key = "NULL"
    BY <2>2, <2>4, <2>7
  <2>8. QED
    BY <2>3, <2>5, <2>6, <2>7
<1>7. CASE ReadPacket \/ Process
  BY <1>7, <1>1, PassLeavesRest DEF memory, files, history, AtWork
<1>8. CASE ServerForgets \/ ReportLost \/ UNCHANGED vars
  <2>1. UNCHANGED <<pc, dispatch_key, key_file, mishap, id_file, probe_id>>
    BY <1>8 DEF ServerForgets, ReportLost, vars, workerVars, memory, files, history
  <2>2. QED
    BY <2>1
<1>9. CASE Denied \/ KnownProbe \/ CollectionInit
  BY <1>9, <1>1, <1>2
  DEF Denied, NewProbe, KnownProbe, CollectionInit, pass, memory, files, history
<1>10. CASE CheckinFails \/ CheckinAnswerLost
  BY <1>10, <1>1 DEF CheckinFails, CheckinAnswerLost, NewProbe, memory, files, history
<1>11. CASE Givework
  BY <1>11, <1>1 DEF Givework, GiveworkFails, GiveworkNotFound, GiveworkAssigned,
                     memory, files, history
<1>12. CASE ReportAnswerLost \/ Answered \/ ReportUnanswerable
  BY <1>12, <1>1, <1>2
  DEF ReportAnswerLost, Answered, ReportSaved, ReportRefused, ReportWithoutKey,
      ReportUnanswerable, PassEnds, pass, memory, files, history
<1>13. QED
  BY <1>3, <1>4, <1>5, <1>6, <1>7, <1>8, <1>9, <1>10, <1>11, <1>12
  DEF ProbeNext, Checkin

-----------------------------------------------------------------------------
(* Every step keeps all parts.                                              *)
LEMMA ProbeInvNext == ProbeInv /\ [ProbeNext]_vars => ProbeInv'
  BY PassTypeNext, OwnTypeNext, BoolTypeNext, PairsTypeNext, TableNext, IdNext, KeyNext
  DEF ProbeInv, TypeInv

(* Every state of the probe, its files and the server satisfies all parts.  *)
THEOREM ProbeInvariant == ProbeSpec => []ProbeInv
  BY ProbeInvNext, ProbeInitInv, PTL DEF ProbeSpec

(* Type correctness (ProbeTypeOK): the server stores only packets it gave,  *)
(* and no fault brings an id, a key or a result of no kind.                 *)
THEOREM ProbeTypeCorrect == ProbeSpec => []ProbeTypeOK
<1>1. ProbeInv => ProbeTypeOK
  <2> SUFFICES ASSUME ProbeInv PROVE ProbeTypeOK
    OBVIOUS
  <2>1. PassType /\ OwnType /\ PairsType
    BY DEF ProbeInv, TypeInv
  <2>2. BoolType
    BY DEF ProbeInv, TypeInv
  <2>3. QED
    BY <2>1, <2>2 DEF ProbeTypeOK, PassType, OwnType, PairsType, BoolType, AtWork, Texts
<1>2. QED
  BY <1>1, ProbeInvariant, PTL

(* The three copies of the probe's id stem from one text, and a report goes *)
(* out under the id its packet was given to, unless the process was given   *)
(* that id with a leading zero (OneIdentity).                               *)
THEOREM ProbeOneIdentity == ProbeSpec => []OneIdentity
<1>1. ProbeInv => OneIdentity
  BY DEF ProbeInv, IdInv
<1>2. QED
  BY <1>1, ProbeInvariant, PTL

(* A registered probe that runs without its dispatch key is one whose last  *)
(* check-in was cut short between the two writes, could not write the key,  *)
(* or was answered without one (KeyMissingOnlyAfterMishap).                 *)
THEOREM ProbeKeyMissing == ProbeSpec => []KeyMissingOnlyAfterMishap
<1>1. ProbeInv => KeyMissingOnlyAfterMishap
  BY DEF ProbeInv, KeyInv, KeyMissingOnlyAfterMishap
<1>2. QED
  BY <1>1, ProbeInvariant, PTL
-----------------------------------------------------------------------------
(***************************************************************************)
(* What becomes of a packet.  For the pass the many steps of the protocol   *)
(* are of few kinds: most change nothing of it, or happen outside of it;    *)
(* the process may die, and an answer ends it.                              *)
(***************************************************************************)
Outside ==
    /\ pc \notin AtWork /\ pc' \notin AtWork
    /\ UNCHANGED <<pass, pairs, issued>>

AnswerEnds ==
    /\ pc = "proto_mesg_send" /\ PassEnds /\ RecordAnswer
    /\ UNCHANGED <<pairs, issued>>

(* The steps of the protocol, by what they do to the pass.                  *)
LEMMA StepKinds ==
    ASSUME [ProbeNext]_vars
    PROVE  \/ ReadPacket \/ Process \/ GiveworkAssigned
           \/ UNCHANGED <<pass, pc, pairs, issued>>
           \/ Outside
           \/ Dies /\ UNCHANGED <<pairs, issued>>
           \/ AnswerEnds
<1>1. CASE Crash \/ Denied \/ ReportWithoutKey
  BY <1>1 DEF Crash, Denied, ReportWithoutKey, server
<1>2. CASE Restart \/ KnownProbe \/ Checkin
  BY <1>2 DEF Restart, KnownProbe, Checkin, CheckinFails, CheckinAnswerLost, CheckinAssigned,
              SaveDispatchKey, NewProbe, Outside, AtWork, server
<1>3. CASE GiveworkFails \/ GiveworkNotFound
  BY <1>3 DEF GiveworkFails, GiveworkNotFound, Outside, AtWork, server
<1>4. CASE CollectionInit
  BY <1>4 DEF CollectionInit, server
<1>5. CASE ReportLost \/ ReportAnswerLost \/ ServerForgets \/ UNCHANGED vars
  BY <1>5 DEF ReportLost, ReportAnswerLost, ServerForgets, vars, workerVars, pass
<1>6. CASE ReportSaved \/ ReportRefused
  BY <1>6 DEF ReportSaved, ReportRefused, AnswerEnds, server
<1>7. CASE ReportUnanswerable
  BY <1>7 DEF ReportUnanswerable, AnswerEnds, server
<1>8. QED
  BY <1>1, <1>2, <1>3, <1>4, <1>5, <1>6, <1>7 DEF ProbeNext, Givework, Answered

(* Outside collection_report and its exchange there are no results.         *)
NoEarlyResults == pc \notin {"collection_report", "proto_mesg_send"} => results = {}

(* Results are made by the drain and go with the answer or the process.     *)
LEMMA NoEarlyResultsNext ==
    ASSUME NoEarlyResults, [ProbeNext]_vars
    PROVE  NoEarlyResults'
<1> USE DEF NoEarlyResults
<1>1. CASE ReadPacket
  BY <1>1 DEF ReadPacket, AddOffer
<1>2. CASE Process
  BY <1>2 DEF Process, EndPacket, TakeTask, DoHttpTask, DoDnsTask, DoIcmpTask, Performed,
              AllProcessed, DrainCompleted, EndDrain
<1>3. CASE GiveworkAssigned
  BY <1>3 DEF GiveworkAssigned
<1>4. CASE UNCHANGED <<pass, pc, pairs, issued>> \/ Outside
  BY <1>4 DEF pass, Outside, AtWork
<1>5. CASE Dies \/ AnswerEnds
  BY <1>5 DEF Dies, AnswerEnds, PassEnds
<1>6. QED
  BY <1>1, <1>2, <1>3, <1>4, <1>5, StepKinds

(* The results of a packet, of any task type, leave the process' memory     *)
(* with an answer to the report or with the process: no lost message and no *)
(* retry drops them (ResultsKeptUntilAnswered).                             *)
THEOREM ProbeResultsKept == ProbeSpec => ResultsKeptUntilAnswered
<1> DEFINE Kept == (results # {} /\ results' = {}) => pc' = "dead" \/ work_id \in answered'
<1>1. ProbeInit => NoEarlyResults
  BY DEF ProbeInit, Init, NoEarlyResults
<1>2. ASSUME NoEarlyResults, [ProbeNext]_vars, results # {}, results' = {}
      PROVE  pc' = "dead" \/ work_id \in answered'
  <2>1. ~ReadPacket /\ ~GiveworkAssigned /\ ~UNCHANGED results
    BY <1>2 DEF ReadPacket, AddOffer, GiveworkAssigned
  <2>2. ~Process
    BY <1>2 DEF NoEarlyResults, Process, EndPacket, TakeTask, DoHttpTask, DoDnsTask,
                DoIcmpTask, Performed, AllProcessed, DrainCompleted, EndDrain
  <2>3. Dies \/ AnswerEnds
    BY <1>2, <2>1, <2>2, StepKinds DEF pass, Outside
  <2>4. QED
    BY <2>3 DEF Dies, AnswerEnds, RecordAnswer
<1>3. NoEarlyResults /\ [ProbeNext]_vars => NoEarlyResults' /\ [Kept]_vars
  BY <1>2, NoEarlyResultsNext
<1>4. QED
  BY <1>1, <1>3, PTL DEF ProbeSpec, ResultsKeptUntilAnswered

(* The server's record of the packet at work is what the probe has read of  *)
(* it, and there is none of a packet not yet given out.                     *)
ServerInv ==
    /\ \A w \in WorkIds \ issued : pairs[w] = {}
    /\ pc \in AtWork => /\ work_id \in issued
                        /\ pairs[work_id] = {p.id : p \in packet}
                        /\ IsFiniteSet(packet)

(* The record grows with what is read, and a new packet has none yet.       *)
LEMMA ServerNext ==
    ASSUME ProbeInv, ServerInv, [ProbeNext]_vars
    PROVE  ServerInv'
<1>1. CASE ReadPacket
  <2>1. PICK p : packet' = packet \cup {p}
    BY <1>1 DEF ReadPacket, AddOffer
  <2>2. /\ pc \in AtWork /\ pc' = pc /\ work_id' = work_id /\ issued' = issued
        /\ pairs' = [pairs EXCEPT ![work_id] = @ \cup {q.id : q \in packet'}]
    BY <1>1 DEF ReadPacket, AddOffer, AtWork
  <2>3. /\ pairs \in [WorkIds -> SUBSET (TaskIds \cup {0})] /\ work_id \in WorkIds
        /\ work_id \in issued
    BY <2>2 DEF ProbeInv, TypeInv, PairsType, IdInv, ServerInv
  <2>4. pairs'[work_id] = pairs[work_id] \cup {q.id : q \in packet'}
        /\ \A w \in WorkIds \ {work_id} : pairs'[w] = pairs[w]
    BY <2>2, <2>3
  <2>5. pairs'[work_id] = {q.id : q \in packet'}
    BY <2>1, <2>2, <2>4 DEF ServerInv
  <2>6. IsFiniteSet(packet')
    BY <2>1, <2>2, FS_AddElement DEF ServerInv
  <2>7. QED
    BY <2>2, <2>3, <2>4, <2>5, <2>6 DEF ServerInv
<1>2. CASE Process
  <2>1. UNCHANGED <<packet, pairs>>
    BY <1>2 DEF Process, EndPacket, TakeTask, DoHttpTask, DoDnsTask, DoIcmpTask, Performed,
                AllProcessed, DrainCompleted, EndDrain
  <2>2. QED
    BY <1>2, <2>1, PassLeavesRest DEF ServerInv
<1>3. CASE GiveworkAssigned
  <2>1. PICK w \in WorkIds \ issued : work_id' = w /\ issued' = issued \cup {w}
    BY <1>3 DEF GiveworkAssigned
  <2>2. packet' = {} /\ pairs' = pairs /\ pairs[w] = {}
    BY <1>3 DEF GiveworkAssigned, ServerInv
  <2>3. QED
    BY <2>1, <2>2, FS_EmptySet DEF ServerInv
<1>4. CASE UNCHANGED <<pass, pc, pairs, issued>> \/ Outside
  BY <1>4 DEF ServerInv, Outside, pass
<1>5. CASE (Dies /\ UNCHANGED <<pairs, issued>>) \/ AnswerEnds
  BY <1>5 DEF ServerInv, Dies, AnswerEnds, PassEnds, AtWork
<1>6. QED
  BY <1>1, <1>2, <1>3, <1>4, <1>5, StepKinds

-----------------------------------------------------------------------------
(* For a probe of HTTP tasks: at work the table and the report have the     *)
(* shape of a pass, and together they hold the packet: an assignment for    *)
(* every well-formed pair, and only for its pairs.                          *)
Covered ==
    /\ \A p \in packet : p.valid => \E a \in Held : a.id = p.id
    /\ \A a \in Held : \E p \in packet : p.id = a.id

PassInv ==
    /\ pc \in AtWork => PassShape /\ ReportShape /\ Covered
    /\ pc \notin AtWork => UsedIn(tasks) = {} /\ results = {}

HttpProbeInv == ProbeInv /\ ServerInv /\ PassInv

(* A step of the pass finds the worker in the state its own proofs assume.  *)
LEMMA AtWorkHttpInv ==
    ASSUME HttpProbeInv, ReadPacket \/ Process
    PROVE  /\ pc \in AtWork /\ HttpInv /\ Covered
           /\ WorkStep
<1>1. WorkStep /\ pc \in AtWork
  BY DEF ReadPacket, Process, WorkStep, AtWork, AddOffer, EndPacket, TakeTask, DoHttpTask,
         DoDnsTask, DoIcmpTask, AllProcessed, DrainCompleted, EndDrain
<1>2. WorkerInv
  BY <1>1 DEF HttpProbeInv, ProbeInv, TypeInv, PassType, TableInv, WorkerInv, TypeOK, AtWork
<1>3. QED
  BY <1>1, <1>2 DEF HttpProbeInv, PassInv, HttpInv

(* While the packet is read, what is held is what is in the table.          *)
LEMMA HeldInTable ==
    ASSUME HttpInv, pc = "dispatch_getwork"
    PROVE  Held = {Assignment(tasks[i]) : i \in UsedIn(tasks)}
<1>1. results = {} /\ Used = UsedIn(tasks)
  BY DEF HttpInv, ReportShape, Used, UsedIn
<1>2. QED
  BY <1>1 DEF Held

(* Reading a pair keeps the packet covered: its task finds a slot.          *)
LEMMA ReadKeepsCovered ==
    ASSUME HttpProbe, SmallPackets, HttpProbeInv, ReadPacket
    PROVE  PassInv'
<1>1. /\ HttpInv /\ HttpInv' /\ Covered /\ AddOffer
      /\ pc = "dispatch_getwork" /\ pc' = "dispatch_getwork" /\ work_id' = work_id
  <2>1. AddOffer /\ HttpInv /\ Covered
    BY AtWorkHttpInv DEF ReadPacket
  <2>2. HttpInv'
    BY <2>1, HttpNext DEF Next, WorkStep
  <2>3. QED
    BY <2>1, <2>2 DEF AddOffer
<1>2. \A i \in Slot : i \in UsedIn(tasks) \/ tasks[i].workid = 0
  BY <1>1, GoodTasks DEF HttpInv, Good, Coherent, UsedIn, InitTask
<1>3. KeptInv
  <2>1. ASSUME NEW p \in packet, p.valid
        PROVE  \E i \in Slot : tasks[i].id = p.id /\ tasks[i].workid = work_id
    <3>1. PICK i \in UsedIn(tasks) : Assignment(tasks[i]).id = p.id
      BY <1>1, <2>1, HeldInTable DEF Covered
    <3>2. tasks[i].id = p.id /\ tasks[i].workid = work_id /\ i \in Slot
      BY <1>1, <3>1 DEF Assignment, HttpInv, PassShape, OfPacket, UsedIn
    <3>3. QED
      BY <3>2
  <2>2. IsFiniteSet(packet)
    BY <1>1 DEF HttpProbeInv, ServerInv, AtWork
  <2>3. QED
    BY <1>1, <2>1, <2>2 DEF KeptInv, NoTaskDropped
<1>4. NoTaskDropped'
  BY <1>1, <1>3, OfferKept
<1>5. Held' = {Assignment(tasks'[i]) : i \in UsedIn(tasks)'}
  <2>1. results' = {} /\ Used' = UsedIn(tasks)'
    BY <1>1 DEF HttpInv, ReportShape, Used, UsedIn
  <2>2. QED
    BY <2>1 DEF Held
<1>6. \A p \in packet' : p.valid => \E a \in Held' : a.id = p.id
  <2>1. SUFFICES ASSUME NEW p \in packet', p.valid PROVE \E a \in Held' : a.id = p.id
    OBVIOUS
  <2>2. PICK i \in Slot : tasks'[i].id = p.id /\ tasks'[i].workid = work_id
    BY <1>1, <1>4, <2>1 DEF NoTaskDropped
  <2>3. work_id # 0
    BY <1>1 DEF HttpInv, WorkerInv
  <2>4. i \in UsedIn(tasks)'
    BY <1>1, <2>2, <2>3 DEF HttpInv, WorkerInv, SlotsCoherent, Coherent, UsedIn, InitTask
  <2>5. Assignment(tasks'[i]).id = p.id
    BY <2>2 DEF Assignment
  <2>6. QED
    BY <1>5, <2>4, <2>5
<1>7. \A a \in Held' : \E p \in packet' : p.id = a.id
  <2>1. \A i \in UsedIn(tasks)' : \E p \in packet' : p.id = tasks'[i].id
    BY <1>1 DEF HttpInv, PassShape, UsedIn
  <2>2. \A i \in UsedIn(tasks)' : Assignment(tasks'[i]).id = tasks'[i].id
    BY DEF Assignment
  <2>3. QED
    BY <1>5, <2>1, <2>2
<1>8. QED
  BY <1>1, <1>6, <1>7 DEF PassInv, Covered, HttpInv, AtWork

(* The pass keeps its shape through every step of the protocol.             *)
LEMMA PassInvNext ==
    ASSUME HttpProbe, SmallPackets, HttpProbeInv, [ProbeNext]_vars
    PROVE  PassInv'
<1>1. CASE ReadPacket
  BY <1>1, ReadKeepsCovered
<1>2. CASE Process
  <2>1. HttpInv /\ Covered /\ WorkStep
    BY <1>2, AtWorkHttpInv
  <2>2. HttpInv'
    BY <2>1, HttpNext DEF Next
  <2>3. Held' = Held
    BY <1>2, <2>1, PassHolds DEF Process
  <2>4. packet' = packet /\ pc' \in AtWork
    BY <1>2 DEF Process, EndPacket, TakeTask, DoHttpTask, DoDnsTask, DoIcmpTask, Performed,
                AllProcessed, DrainCompleted, EndDrain, AtWork
  <2>5. QED
    BY <2>1, <2>2, <2>3, <2>4 DEF PassInv, Covered, HttpInv
<1>3. CASE GiveworkAssigned
  <2>1. UsedIn(tasks) = {} /\ results = {}
    BY <1>3 DEF GiveworkAssigned, HttpProbeInv, PassInv, AtWork
  <2>2. /\ UsedIn(tasks)' = {} /\ Used' = {} /\ results' = {} /\ packet' = {}
        /\ pc' = "dispatch_getwork"
    BY <1>3, <2>1 DEF GiveworkAssigned, UsedIn, Used
  <2>3. Held' = {}
    BY <2>2 DEF Held
  <2>4. PassShape' /\ ReportShape' /\ Covered'
    BY <2>2, <2>3 DEF PassShape, ReportShape, ReportIsOnePacket, OfPacket, StatusIn, Covered
  <2>5. QED
    BY <2>2, <2>4 DEF PassInv, AtWork
<1>4. CASE UNCHANGED <<pass, pc, pairs, issued>>
  <2>1. UsedIn(tasks)' = UsedIn(tasks) /\ Held' = Held /\ UNCHANGED <<pass, pc>>
    BY <1>4 DEF UsedIn, Held, Used, pass
  <2>2. PassShape => PassShape'
    BY <2>1 DEF PassShape, OfPacket, StatusIn, pass
  <2>3. ReportShape /\ Covered => ReportShape' /\ Covered'
    BY <2>1 DEF ReportShape, ReportIsOnePacket, Covered, pass
  <2>4. QED
    BY <2>1, <2>2, <2>3 DEF HttpProbeInv, PassInv, pass
<1>5. CASE Outside
  <2>1. UsedIn(tasks)' = UsedIn(tasks)
    BY <1>5 DEF UsedIn, Outside, pass
  <2>2. QED
    BY <1>5, <2>1 DEF HttpProbeInv, PassInv, Outside, pass
<1>6. CASE Dies
  <2>1. UsedIn(tasks)' = {}
    BY <1>6 DEF Dies, UsedIn, TasksInit, InitTask
  <2>2. QED
    BY <1>6, <2>1 DEF PassInv, Dies, AtWork
<1>7. CASE AnswerEnds
  <2>1. UsedIn(tasks) = {}
    BY <1>7 DEF AnswerEnds, HttpProbeInv, PassInv, PassShape, StatusIn, AtWork
  <2>2. UsedIn(tasks)' = {}
    BY <1>7, <2>1 DEF AnswerEnds, PassEnds, UsedIn
  <2>3. QED
    BY <1>7, <2>2 DEF PassInv, AnswerEnds, PassEnds, AtWork
<1>8. QED
  BY <1>1, <1>2, <1>3, <1>4, <1>5, <1>6, <1>7, StepKinds

(* A probe of HTTP tasks whose packets fit the table reports, when every    *)
(* pair of the packet made a task, a result for every pair the server put   *)
(* in it, under that packet's id: through losses, retries, crashes and      *)
(* restarts (ReportCoversPacket).                                           *)
THEOREM ProbeReportCoversPacket ==
    ASSUME HttpProbe, SmallPackets
    PROVE  ProbeSpec => []ReportCoversPacket
<1>1. ProbeInit => HttpProbeInv
  <2> SUFFICES ASSUME ProbeInit PROVE HttpProbeInv
    OBVIOUS
  <2>1. ServerInv
    BY DEF ServerInv, AtWork, ProbeInit, Init
  <2>2. PassInv
    BY DEF PassInv, AtWork, ProbeInit, Init, UsedIn, TasksInit, InitTask
  <2>3. QED
    BY <2>1, <2>2, ProbeInitInv DEF HttpProbeInv
<1>2. HttpProbeInv /\ [ProbeNext]_vars => HttpProbeInv'
  BY ProbeInvNext, ServerNext, PassInvNext DEF HttpProbeInv
<1>3. HttpProbeInv => ReportCoversPacket
  <2> SUFFICES ASSUME HttpProbeInv, pc = "proto_mesg_send", packet # {},
                      \A p \in packet : p.valid
               PROVE  wid = work_id /\ pairs[wid] = {r.id : r \in results}
    BY DEF ReportCoversPacket
  <2>1. PassShape /\ ReportShape /\ Covered /\ pairs[work_id] = {p.id : p \in packet}
    BY DEF HttpProbeInv, PassInv, ServerInv, AtWork
  <2>2. Held = {Assignment(r) : r \in results}
    BY <2>1 DEF PassShape, StatusIn, UsedIn, Used, Held
  <2>3. \A r \in results : Assignment(r).id = r.id
    BY DEF Assignment
  <2>4. (\A p \in packet : \E r \in results : r.id = p.id)
        /\ (\A r \in results : \E p \in packet : p.id = r.id)
    BY <2>1, <2>2, <2>3 DEF Covered
  <2>5. results # {} /\ {p.id : p \in packet} = {r.id : r \in results}
    BY <2>4
  <2>6. wid = work_id
    BY <2>1, <2>5 DEF ReportShape, ReportIsOnePacket
  <2>7. QED
    BY <2>1, <2>5, <2>6
<1>4. QED
  BY <1>1, <1>2, <1>3, PTL DEF ProbeSpec
=============================================================================
