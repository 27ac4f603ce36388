-------------------------- MODULE SupervisorProofs --------------------------
(***************************************************************************)
(* For any number of process numbers, any limit and whatever signals,      *)
(* crashes and failures of fork() come: no two processes run the main loop *)
(* at a time, a limit from the command line counts the iterations of all   *)
(* of them, and the pid file names a process that is there unless that     *)
(* process was stopped or crashed.                                         *)
(***************************************************************************)
EXTENDS Supervisor, FiniteSetTheorems, TLAPS

Sig == {"TERM", "HUP", "CONT"}

(* The part of the type invariant that is about single processes.           *)
ProcessOK ==
    /\ pc \in [Pid -> Place]
    /\ parent \in [Pid -> 0 .. MaxPid] /\ ret \in [Pid -> -1 .. MaxPid]
    /\ child_pid \in [Pid -> -1 .. MaxPid]
    /\ keepalive \in [Pid -> BOOLEAN] /\ removes \in [Pid -> BOOLEAN]
    /\ jobs_completed \in [Pid -> 0 .. Limit]
    /\ pending \in [Pid -> SUBSET Sig]

(* The process that will go on: before the last fork() returns, the one that *)
(* daemonizes; after it, the one that keeps watch.  The parents that only   *)
(* leave are not counted.                                                   *)
Leads(p) ==
    \/ pc[p] \in {"daemonize", "setsid", "reg_sighandlers", "keepalive", "wait", "sleep"}
    \/ pc[p] \in {"forked_1", "forked_2"} /\ ~(ret[p] > 0)
    \/ pc[p] = "forked" /\ ret[p] # 0

(* One process leads and one works; a leader waits for the worker, its only *)
(* child, or there is no worker.                                            *)
Lineage ==
    /\ \A p, q \in Pid : Leads(p) /\ Leads(q) => p = q
    /\ \A p, q \in Pid : Works(p) /\ Works(q) => p = q
    /\ \A p, q \in Pid : Leads(p) /\ Works(q) =>
            pc[p] \in {"forked", "wait"} /\ q = ret[p] /\ parent[q] = p
    /\ \A p, q \in Pid : Leads(p) /\ parent[q] = p =>
            pc[p] \in {"forked", "wait"} /\ q = ret[p]
    /\ \A p, q \in Pid : parent[q] = p => Alive(p)

(* With a limit from the command line nobody is kept alive, so one process  *)
(* counts all the iterations.                                               *)
Counted ==
    limit # 0 =>
        /\ \A p \in Pid : ~keepalive[p] /\ pc[p] \notin {"forked", "wait", "sleep"}
        /\ \A p \in Pid : Leads(p) => done = 0 /\ jobs_completed[p] = 0
        /\ \A p \in Pid : Works(p) => done = jobs_completed[p] /\ done < limit
        /\ done <= limit

(* The process the pid file names is the one that wrote it, and will remove *)
(* it, if it gets to, when it comes to its end.                             *)
PidFileInv ==
    /\ pidfile \in {Nobody, top}
    /\ \A p \in Pid : Leads(p) => child_pid[p] # 0
    /\ pidfile # Nobody /\ ~lost =>
          \/ Watches(top)
          \/ pc[top] = "after" /\ child_pid[top] # 0
          \/ pc[top] = "mainloop" /\ removes[top]

(* The part of the type invariant that is not about single processes.       *)
RestOK ==
    /\ limit \in {0, Limit} /\ pidfile \in 0 .. MaxPid /\ top \in 0 .. MaxPid
    /\ stopped_at \in Place \cup {"nowhere"} /\ lost \in BOOLEAN /\ done \in 0 .. Limit + 1

StepInv == ProcessOK /\ RestOK /\ Lineage /\ PidFileInv

-----------------------------------------------------------------------------
(* Process numbers are natural numbers other than Nobody.                   *)
LEMMA PidFacts ==
    ASSUME SupervisorAssumption
    PROVE  /\ MaxPid \in Nat /\ MaxPid > 0 /\ Limit \in Nat /\ Limit > 0
           /\ First \in Pid /\ Nobody \notin Pid /\ Pid \subseteq 0 .. MaxPid
           /\ \A p \in Pid : p \in Int /\ p > 0 /\ p # 0 /\ p # -1
  BY DEF SupervisorAssumption, Pid, First, Nobody

(* fork(): two processes with the same past, and two results.               *)
Splits(p, place, r) ==
    /\ pc[r] = "free" /\ r # p /\ r > 0
    /\ pc'[p] = place /\ ret'[p] = r /\ pc'[r] = place /\ ret'[r] = 0
    /\ parent'[r] = p /\ parent'[p] = parent[p]
    /\ child_pid'[r] = child_pid[p] /\ child_pid'[p] = child_pid[p]
    /\ keepalive'[r] = keepalive[p] /\ keepalive'[p] = keepalive[p]
    /\ jobs_completed'[r] = jobs_completed[p] /\ jobs_completed'[p] = jobs_completed[p]
    /\ \A q \in Pid : q # p /\ q # r =>
          /\ pc'[q] = pc[q] /\ ret'[q] = ret[q] /\ parent'[q] = parent[q]
          /\ child_pid'[q] = child_pid[q] /\ keepalive'[q] = keepalive[q]
          /\ removes'[q] = removes[q] /\ jobs_completed'[q] = jobs_completed[q]

(* There is a number for the child, and the table stays one of processes.   *)
LEMMA ForkSplits ==
    ASSUME SupervisorAssumption, ProcessOK, NEW p \in Pid, Alive(p), NEW place \in Place,
           Fork(p, place)
    PROVE  ProcessOK' /\ \E r \in Pid : Splits(p, place, r)
<1>1. PICK q \in Pid :
        /\ pc[q] = "free" /\ pc' = [pc EXCEPT ![p] = place, ![q] = place]
        /\ parent' = [parent EXCEPT ![q] = p]
        /\ ret' = [ret EXCEPT ![p] = q, ![q] = 0]
        /\ child_pid' = [child_pid EXCEPT ![q] = child_pid[p]]
        /\ keepalive' = [keepalive EXCEPT ![q] = keepalive[p]]
        /\ removes' = [removes EXCEPT ![q] = removes[p]]
        /\ jobs_completed' = [jobs_completed EXCEPT ![q] = jobs_completed[p]]
        /\ pending' = [pending EXCEPT ![q] = {}]
  BY DEF Fork
<1>2. p \in 0 .. MaxPid /\ q \in -1 .. MaxPid /\ 0 \in -1 .. MaxPid
  BY PidFacts
<1>3. /\ pc' \in [Pid -> Place] /\ parent' \in [Pid -> 0 .. MaxPid]
      /\ ret' \in [Pid -> -1 .. MaxPid]
  BY <1>1, <1>2 DEF ProcessOK
<1>4. /\ child_pid' \in [Pid -> -1 .. MaxPid] /\ keepalive' \in [Pid -> BOOLEAN]
      /\ removes' \in [Pid -> BOOLEAN] /\ jobs_completed' \in [Pid -> 0 .. Limit]
      /\ pending' \in [Pid -> SUBSET Sig]
  BY <1>1 DEF ProcessOK
<1>5. ProcessOK'
  BY <1>3, <1>4 DEF ProcessOK
<1>6. q # p /\ q > 0
  BY <1>1, PidFacts DEF Alive
<1>7. Splits(p, place, q)
  BY <1>1, <1>6 DEF Splits, ProcessOK
<1>8. QED
  BY <1>5, <1>7

(* The end of a process touches no other that is alive, but for its         *)
(* parent's number and signals.                                             *)
LEMMA GoneOnly ==
    ASSUME SupervisorAssumption, ProcessOK, NEW p \in Pid, NEW sent \in [Pid -> SUBSET Sig],
           Gone(p, sent)
    PROVE  /\ ProcessOK' /\ ~Alive(p)' /\ UNCHANGED keepalive
           /\ \A q \in Pid : q # p /\ Alive(q) =>
                /\ pc'[q] = pc[q] /\ ret'[q] = ret[q] /\ child_pid'[q] = child_pid[q]
                /\ removes'[q] = removes[q] /\ jobs_completed'[q] = jobs_completed[q]
           /\ \A q \in Pid : q # p /\ ~Alive(q) => ~Alive(q)'
           /\ \A q \in Pid : parent'[q] = IF parent[q] = p THEN Nobody ELSE parent[q]
<1>1. /\ pc' = [q \in Pid |->
                IF q = p THEN IF parent[p] = Nobody THEN "free" ELSE "zombie"
                ELSE IF parent[q] = p /\ pc[q] = "zombie" THEN "free" ELSE pc[q]]
      /\ parent' = [q \in Pid |-> IF parent[q] = p THEN Nobody ELSE parent[q]]
      /\ pending' = [sent EXCEPT ![p] = {}]
      /\ ret' = [ret EXCEPT ![p] = 0] /\ child_pid' = [child_pid EXCEPT ![p] = -1]
      /\ removes' = [removes EXCEPT ![p] = FALSE]
      /\ jobs_completed' = [jobs_completed EXCEPT ![p] = 0]
      /\ UNCHANGED keepalive
  BY DEF Gone
<1>2. /\ 0 \in -1 .. MaxPid /\ -1 \in -1 .. MaxPid /\ 0 \in 0 .. Limit
      /\ Nobody \in 0 .. MaxPid
  BY PidFacts DEF Nobody
<1>3. pc' \in [Pid -> Place] /\ parent' \in [Pid -> 0 .. MaxPid]
  BY <1>1, <1>2 DEF ProcessOK, Place
<1>4. /\ ret' \in [Pid -> -1 .. MaxPid] /\ child_pid' \in [Pid -> -1 .. MaxPid]
      /\ keepalive' \in [Pid -> BOOLEAN] /\ removes' \in [Pid -> BOOLEAN]
      /\ jobs_completed' \in [Pid -> 0 .. Limit] /\ pending' \in [Pid -> SUBSET Sig]
  BY <1>1, <1>2 DEF ProcessOK
<1>5. \A q \in Pid : q # p =>
        /\ Alive(q) => pc'[q] = pc[q]
        /\ ~Alive(q) => ~Alive(q)'
        /\ ret'[q] = ret[q] /\ child_pid'[q] = child_pid[q]
        /\ removes'[q] = removes[q] /\ jobs_completed'[q] = jobs_completed[q]
  BY <1>1 DEF ProcessOK, Alive
<1>6. ~Alive(p)'
  BY <1>1 DEF Alive
<1>7. \A q \in Pid : parent'[q] = IF parent[q] = p THEN Nobody ELSE parent[q]
  BY <1>1
<1>8. QED
  BY <1>1, <1>3, <1>4, <1>5, <1>6, <1>7 DEF ProcessOK

(* Signals are sent to a process by its number.                             *)
LEMMA SendType ==
    ASSUME SupervisorAssumption, ProcessOK, NEW p \in Pid, NEW sig \in Sig
    PROVE  Send(p, sig) \in [Pid -> SUBSET Sig]
  BY DEF Send, ProcessOK, Sig

(* What leads or works is alive.                                            *)
LEMMA RolesAlive ==
    ASSUME NEW p \in Pid
    PROVE  (Leads(p) => Alive(p)) /\ (Works(p) => Alive(p)) /\ ~(Leads(p) /\ Works(p))
  BY DEF Leads, Works, Alive

-----------------------------------------------------------------------------
(* The two halves of the invariant that a process's end keeps.              *)
LEMMA GoneLineage ==
    ASSUME SupervisorAssumption, ProcessOK, Lineage, NEW p \in Pid, Alive(p),
           NEW sent \in [Pid -> SUBSET Sig], Gone(p, sent)
    PROVE  /\ Lineage'
           /\ \A q \in Pid : Leads(q)' => Leads(q) /\ q # p
           /\ \A q \in Pid : Works(q)' => Works(q) /\ q # p
           /\ \A q \in Pid : Leads(q) /\ q # p => Leads(q)'
<1>1. \A q \in Pid : q # p /\ Alive(q) => pc'[q] = pc[q] /\ ret'[q] = ret[q]
  BY GoneOnly
<1>2. \A q \in Pid : q = p \/ ~Alive(q) => ~Alive(q)'
  BY GoneOnly
<1>3. \A q \in Pid : Leads(q)' => Leads(q) /\ q # p
  <2> SUFFICES ASSUME NEW q \in Pid, Leads(q)' PROVE Leads(q) /\ q # p
    OBVIOUS
  <2>1. Alive(q)'
    BY DEF Leads, Alive
  <2>2. QED
    BY <1>1, <1>2, <2>1 DEF Leads
<1>4. \A q \in Pid : Works(q)' => Works(q) /\ q # p
  <2> SUFFICES ASSUME NEW q \in Pid, Works(q)' PROVE Works(q) /\ q # p
    OBVIOUS
  <2>1. Alive(q)'
    BY DEF Works, Alive
  <2>2. QED
    BY <1>1, <1>2, <2>1 DEF Works
<1>5. \A q \in Pid : Leads(q) /\ q # p => Leads(q)'
  BY <1>1, RolesAlive DEF Leads
<1>6. \A q \in Pid : parent'[q] = IF parent[q] = p THEN Nobody ELSE parent[q]
  BY GoneOnly
<1>7. \A q, r \in Pid : parent'[q] = r => parent[q] = r /\ r # p
  BY <1>6, PidFacts
<1>8. \A q, r \in Pid : Leads(q)' /\ Works(r)' =>
         pc'[q] \in {"forked", "wait"} /\ r = ret'[q] /\ parent'[r] = q
  <2> SUFFICES ASSUME NEW q \in Pid, NEW r \in Pid, Leads(q)', Works(r)'
               PROVE  pc'[q] \in {"forked", "wait"} /\ r = ret'[q] /\ parent'[r] = q
    OBVIOUS
  <2>1. Leads(q) /\ q # p /\ Works(r) /\ r # p
    BY <1>3, <1>4
  <2>2. pc[q] \in {"forked", "wait"} /\ r = ret[q] /\ parent[r] = q
    BY <2>1 DEF Lineage
  <2>3. QED
    BY <1>1, <1>6, <2>1, <2>2, RolesAlive
<1>9. \A q, r \in Pid : Leads(q)' /\ parent'[r] = q =>
         pc'[q] \in {"forked", "wait"} /\ r = ret'[q]
  BY <1>1, <1>3, <1>7, RolesAlive DEF Lineage
<1>10. \A q, r \in Pid : parent'[r] = q => Alive(q)'
  BY <1>1, <1>7 DEF Lineage, Alive
<1>11. QED
  BY <1>3, <1>4, <1>5, <1>8, <1>9, <1>10 DEF Lineage

(* After fork() the parent of a daemon leaves, and its child leads.         *)
LEMMA DaemonForkLineage ==
    ASSUME SupervisorAssumption, ProcessOK, Lineage, NEW p \in Pid,
           pc[p] \in {"daemonize", "setsid"}, NEW place \in {"forked_1", "forked_2"},
           Fork(p, place)
    PROVE  /\ Lineage'
           /\ \E r \in Pid : \A q \in Pid : Leads(q)' =>
                 q = r /\ child_pid'[q] = child_pid[p] /\ jobs_completed'[q] = jobs_completed[p]
           /\ \A q \in Pid : ~Works(q)'
<1>1. PICK r \in Pid : Splits(p, place, r)
  <2>1. place \in Place /\ Alive(p)
    BY DEF Place, Alive
  <2>2. QED
    BY <2>1, ForkSplits
<1>2. r \in Int /\ r > 0 /\ r # 0
  BY PidFacts
<1>3. /\ pc[r] = "free" /\ r # p
      /\ pc'[p] = place /\ ret'[p] = r /\ pc'[r] = place /\ ret'[r] = 0 /\ parent'[r] = p
      /\ child_pid'[r] = child_pid[p] /\ jobs_completed'[r] = jobs_completed[p]
      /\ \A q \in Pid : q # p /\ q # r =>
            pc'[q] = pc[q] /\ ret'[q] = ret[q] /\ parent'[q] = parent[q]
      /\ parent'[p] = parent[p] /\ child_pid'[p] = child_pid[p]
  BY <1>1 DEF Splits
<1>4. Leads(p) /\ \A q \in Pid : ~Works(q)
  BY DEF Leads, Lineage
<1>5. \A q \in Pid : Leads(q)' => q = r
  <2> SUFFICES ASSUME NEW q \in Pid, Leads(q)', q # r PROVE FALSE
    OBVIOUS
  <2>1. CASE q = p
    <3>1. pc'[q] = place /\ ret'[q] = r
      BY <1>3, <2>1
    <3>3. pc'[q] \in {"forked_1", "forked_2"}
      BY <3>1
    <3>4. ~(ret'[q] > 0)
      BY <3>3 DEF Leads
    <3>5. QED
      BY <1>2, <3>1, <3>4
  <2>2. CASE q # p
    <3>1. Leads(q)
      BY <1>3, <2>2 DEF Leads
    <3>2. QED
      BY <1>4, <2>2, <3>1 DEF Lineage
  <2>3. QED
    BY <2>1, <2>2
<1>6. \A q \in Pid : ~Works(q)'
  BY <1>3, <1>4 DEF Works
<1>7. \A q \in Pid : parent'[q] # r
  <2>1. ~Alive(r)
    BY <1>3 DEF Alive
  <2>2. \A q \in Pid : parent[q] # r
    BY <2>1 DEF Lineage
  <2>3. QED
    BY <1>3, <2>2
<1>8. \A q, s \in Pid : parent'[q] = s => Alive(s)'
  <2>1. \A s \in Pid : Alive(s) => Alive(s)'
    <3>1. Alive(p)'
      BY <1>3 DEF Alive
    <3>2. \A s \in Pid : s # p /\ s # r => (Alive(s)' <=> Alive(s))
      BY <1>3 DEF Alive
    <3>3. ~Alive(r)
      BY <1>3 DEF Alive
    <3>4. QED
      BY <3>1, <3>2, <3>3
  <2>2. \A q \in Pid : parent'[q] = IF q = r THEN p ELSE parent[q]
    BY <1>3
  <2>3. Alive(p)
    BY DEF Alive
  <2>4. QED
    BY <2>1, <2>2, <2>3 DEF Lineage
<1>9. QED
  BY <1>3, <1>5, <1>6, <1>7, <1>8 DEF Lineage

(* The process that keeps watch has forked a worker.                        *)
LEMMA WorkerForkLineage ==
    ASSUME SupervisorAssumption, ProcessOK, Lineage, NEW p \in Pid,
           pc[p] = "keepalive", Fork(p, "forked")
    PROVE  /\ Lineage' /\ Leads(p)'
           /\ \A q \in Pid : Leads(q)' => q = p
           /\ child_pid'[p] = child_pid[p]
<1>1. PICK r \in Pid : Splits(p, "forked", r)
  <2>1. "forked" \in Place /\ Alive(p)
    BY DEF Place, Alive
  <2>2. QED
    BY <2>1, ForkSplits
<1>2. r \in Int /\ r > 0 /\ r # 0
  BY PidFacts
<1>3. /\ pc[r] = "free" /\ r # p
      /\ pc'[p] = "forked" /\ ret'[p] = r /\ pc'[r] = "forked" /\ ret'[r] = 0 /\ parent'[r] = p
      /\ child_pid'[r] = child_pid[p] /\ jobs_completed'[r] = jobs_completed[p]
      /\ \A q \in Pid : q # p /\ q # r =>
            pc'[q] = pc[q] /\ ret'[q] = ret[q] /\ parent'[q] = parent[q]
      /\ parent'[p] = parent[p] /\ child_pid'[p] = child_pid[p]
  BY <1>1 DEF Splits
<1>4. /\ Leads(p) /\ \A q \in Pid : ~Works(q)
      /\ \A q \in Pid : parent[q] # p
  BY DEF Leads, Lineage
<1>5. \A q \in Pid : Leads(q)' <=> q = p
  <2> SUFFICES ASSUME NEW q \in Pid PROVE Leads(q)' <=> q = p
    OBVIOUS
  <2>1. CASE q = p
    <3>1. pc'[q] = "forked" /\ ret'[q] = r
      BY <1>3, <2>1
    <3>2. QED
      BY <1>2, <2>1, <3>1 DEF Leads
  <2>2. CASE q = r
    <3>1. pc'[q] = "forked" /\ ret'[q] = 0
      BY <1>3, <2>2
    <3>2. QED
      BY <1>3, <2>2, <3>1 DEF Leads
  <2>3. CASE q # p /\ q # r
    <3>1. Leads(q)' <=> Leads(q)
      BY <1>3, <2>3 DEF Leads
    <3>2. QED
      BY <1>4, <2>3, <3>1 DEF Lineage
  <2>4. QED
    BY <2>1, <2>2, <2>3
<1>6. \A q \in Pid : Works(q)' => q = r
  <2>1. ~Works(p)'
    BY <1>2, <1>3 DEF Works
  <2>2. \A q \in Pid : q # p /\ q # r => (Works(q)' <=> Works(q))
    BY <1>3 DEF Works
  <2>3. QED
    BY <1>4, <2>1, <2>2
<1>7. \A q \in Pid : parent'[q] = p => q = r
  BY <1>3, <1>4
<1>8. \A q, s \in Pid : parent'[q] = s => Alive(s)'
  <2>1. \A s \in Pid : Alive(s) => Alive(s)'
    <3>1. Alive(p)'
      BY <1>3 DEF Alive
    <3>2. \A s \in Pid : s # p /\ s # r => (Alive(s)' <=> Alive(s))
      BY <1>3 DEF Alive
    <3>3. ~Alive(r)
      BY <1>3 DEF Alive
    <3>4. QED
      BY <3>1, <3>2, <3>3
  <2>2. \A q \in Pid : parent'[q] = IF q = r THEN p ELSE parent[q]
    BY <1>3
  <2>3. Alive(p)
    BY DEF Alive
  <2>4. QED
    BY <2>1, <2>2, <2>3 DEF Lineage
<1>9. QED
  BY <1>3, <1>5, <1>6, <1>7, <1>8 DEF Lineage

(* A process goes from one place to another by itself.                      *)
LEMMA MoveLineage ==
    ASSUME SupervisorAssumption, ProcessOK, Lineage, NEW p \in Pid, Alive(p),
           NEW place \in Place \ {"free", "zombie"}, Goto(p, place),
           UNCHANGED parent, NEW n, ret' = [ret EXCEPT ![p] = n],
           Leads(p)' => Leads(p) /\ \A q \in Pid : parent[q] = p =>
                              place \in {"forked", "wait"} /\ q = n,
           Works(p)' => Works(p) \/ (Leads(p) /\ \A q \in Pid : ~Works(q))
    PROVE  /\ Lineage'
           /\ \A q \in Pid : Leads(q)' => Leads(q)
           /\ \A q \in Pid : Leads(q) /\ q # p => Leads(q)'
           /\ \A q \in Pid : Works(q)' => Works(q) \/ (q = p /\ Leads(p))
<1>1. /\ pc'[p] = place /\ ret'[p] = n
      /\ \A q \in Pid : q # p => pc'[q] = pc[q] /\ ret'[q] = ret[q]
  BY DEF Goto, ProcessOK
<1>2. \A q \in Pid :
        q # p => (Leads(q)' <=> Leads(q)) /\ (Works(q)' <=> Works(q)) /\ (Alive(q)' <=> Alive(q))
  BY <1>1 DEF Leads, Works, Alive
<1>3. Alive(p)'
  BY <1>1 DEF Alive
<1>4. \A q, r \in Pid : Leads(q)' /\ Leads(r)' => q = r
  BY <1>2 DEF Lineage
<1>5. \A q, r \in Pid : Works(q)' /\ Works(r)' => q = r
  BY <1>2 DEF Lineage
<1>6. \A q, r \in Pid : parent'[r] = q => Alive(q)'
  BY <1>2, <1>3 DEF Lineage
<1>7. \A q, r \in Pid : Leads(q)' /\ parent'[r] = q =>
         pc'[q] \in {"forked", "wait"} /\ r = ret'[q]
  BY <1>1, <1>2 DEF Lineage
<1>8. \A q, r \in Pid : Leads(q)' /\ Works(r)' =>
         pc'[q] \in {"forked", "wait"} /\ r = ret'[q] /\ parent'[r] = q
  <2> SUFFICES ASSUME NEW q \in Pid, NEW r \in Pid, Leads(q)', Works(r)'
               PROVE  parent'[r] = q
    BY <1>7
  <2>1. q # r /\ Leads(q)
    BY <1>2, RolesAlive DEF Leads, Works
  <2>2. CASE Works(r)
    BY <2>1, <2>2 DEF Lineage
  <2>3. CASE ~Works(r)
    BY <1>2, <2>1, <2>3 DEF Lineage
  <2>4. QED
    BY <2>2, <2>3
<1>9. QED
  BY <1>2, <1>4, <1>5, <1>6, <1>7, <1>8 DEF Lineage

(* wait() takes the worker that has ended; there is no other.               *)
LEMMA WaitLineage ==
    ASSUME SupervisorAssumption, ProcessOK, Lineage, NEW p \in Pid, Wait(p)
    PROVE  /\ ProcessOK' /\ Lineage'
           /\ pc'[p] = "sleep"
           /\ \A q \in Pid : q # p /\ Alive(q) => pc'[q] = pc[q]
           /\ \A q \in Pid : Leads(q)' => Leads(q)
           /\ \A q \in Pid : ~Works(q)'
<1>1. PICK z \in Pid : /\ parent[z] = p /\ pc[z] = "zombie"
                       /\ pc' = [pc EXCEPT ![z] = "free", ![p] = "sleep"]
                       /\ parent' = [parent EXCEPT ![z] = Nobody]
  BY DEF Wait, Children
<1>2. pc[p] = "wait" /\ UNCHANGED <<ret, child_pid, keepalive, removes, jobs_completed, pending>>
  BY DEF Wait
<1>3. z # p /\ Leads(p) /\ ~Alive(z) /\ ~Works(z)
  BY <1>1, <1>2 DEF Leads, Alive, Works
<1>4. ProcessOK'
  <2>1. pc' \in [Pid -> Place]
    BY <1>1 DEF ProcessOK, Place
  <2>2. parent' \in [Pid -> 0 .. MaxPid]
    <3>1. Nobody \in 0 .. MaxPid
      BY PidFacts DEF Nobody
    <3>2. QED
      BY <1>1, <3>1 DEF ProcessOK
  <2>3. QED
    BY <1>2, <2>1, <2>2 DEF ProcessOK
<1>5. /\ pc'[p] = "sleep" /\ pc'[z] = "free" /\ parent'[z] = Nobody
      /\ \A q \in Pid : q # p /\ q # z => pc'[q] = pc[q]
      /\ \A q \in Pid : q # z => parent'[q] = parent[q]
  BY <1>1, <1>3 DEF ProcessOK
<1>6. z = ret[p]
  BY <1>1, <1>3 DEF Lineage
<1>7. \A q \in Pid : ~Works(q)
  <2>1. \A q \in Pid : Works(q) => q = ret[p]
    BY <1>3 DEF Lineage
  <2>2. QED
    BY <1>3, <1>6, <2>1
<1>8. \A q \in Pid : q # p /\ q # z =>
         (Leads(q)' <=> Leads(q)) /\ (Works(q)' <=> Works(q)) /\ (Alive(q)' <=> Alive(q))
  BY <1>2, <1>5 DEF Leads, Works, Alive
<1>9. Leads(p)' /\ ~Works(p)' /\ Alive(p)' /\ ~Leads(z)' /\ ~Works(z)'
  BY <1>3, <1>5 DEF Leads, Works, Alive
<1>10. \A q \in Pid : ~Works(q)'
  BY <1>7, <1>8, <1>9
<1>11. \A q \in Pid : Leads(q)' => Leads(q)
  BY <1>3, <1>8, <1>9
<1>12. \A q \in Pid : Leads(q)' => q = p
  BY <1>3, <1>11 DEF Lineage
<1>13. \A q \in Pid : parent'[q] # p
  <2>1. \A q \in Pid : parent[q] = p => q = z
    BY <1>3, <1>6 DEF Lineage
  <2>2. QED
    BY <1>5, <2>1, PidFacts
<1>14. \A q, s \in Pid : parent'[q] = s => Alive(s)'
  <2>1. \A q, s \in Pid : parent'[q] = s => parent[q] = s
    BY <1>5, PidFacts
  <2>2. \A q, s \in Pid : parent[q] = s => Alive(s) /\ s # z
    BY <1>3 DEF Lineage
  <2>3. QED
    BY <1>8, <1>9, <2>1, <2>2
<1>15. Lineage'
  BY <1>10, <1>12, <1>13, <1>14 DEF Lineage
<1>16. QED
  BY <1>3, <1>4, <1>5, <1>10, <1>11, <1>15

-----------------------------------------------------------------------------
(* The whole invariant, when a process ends: it was not the one that the    *)
(* pid file names, or that is known to be lost, or the file is gone too.    *)
LEMMA GoneKeeps ==
    ASSUME SupervisorAssumption, StepInv, NEW p \in Pid, Alive(p),
           NEW sent \in [Pid -> SUBSET Sig], Gone(p, sent),
           UNCHANGED <<limit, top>>, pidfile' \in {pidfile, Nobody},
           lost' \in BOOLEAN, lost => lost',
           stopped_at' \in Place \cup {"nowhere"}, done' \in 0 .. Limit + 1,
           p = top /\ pidfile' # Nobody /\ ~lost' =>
               ~Watches(p) /\ pc[p] # "after" /\ ~(pc[p] = "mainloop" /\ removes[p])
    PROVE  StepInv'
<1>1. /\ ProcessOK'
      /\ \A q \in Pid : q # p /\ Alive(q) =>
           /\ pc'[q] = pc[q] /\ ret'[q] = ret[q] /\ child_pid'[q] = child_pid[q]
           /\ removes'[q] = removes[q]
  BY GoneOnly DEF StepInv
<1>2. Lineage' /\ \A q \in Pid : Leads(q)' => Leads(q) /\ q # p
  BY GoneLineage DEF StepInv
<1>3. RestOK'
  BY PidFacts DEF StepInv, RestOK, Nobody
<1>4. pidfile' \in {Nobody, top'}
  BY DEF StepInv, PidFileInv
<1>5. \A q \in Pid : Leads(q)' => child_pid'[q] # 0
  BY <1>1, <1>2, RolesAlive DEF StepInv, PidFileInv
<1>6. ASSUME pidfile' # Nobody, ~lost'
      PROVE  \/ Watches(top)'
             \/ pc'[top'] = "after" /\ child_pid'[top'] # 0
             \/ pc'[top'] = "mainloop" /\ removes'[top']
  <2>1. pidfile # Nobody /\ ~lost /\ pidfile = top /\ top \in Pid /\ UNCHANGED top
    BY <1>4, <1>6 DEF StepInv, PidFileInv, RestOK, Pid, Nobody
  <2>2. \/ Watches(top)
        \/ pc[top] = "after" /\ child_pid[top] # 0
        \/ pc[top] = "mainloop" /\ removes[top]
    BY <2>1 DEF StepInv, PidFileInv
  <2>3. top # p /\ Alive(top)
    BY <1>6, <2>2 DEF Watches, Alive
  <2>4. QED
    BY <1>1, <2>1, <2>2, <2>3 DEF Watches
<1>7. QED
  BY <1>1, <1>2, <1>3, <1>4, <1>5, <1>6 DEF StepInv, PidFileInv

(* The count is kept when a process ends, by its limit or otherwise.        *)
LEMMA GoneCounts ==
    ASSUME SupervisorAssumption, StepInv, Counted, NEW p \in Pid, Alive(p),
           NEW sent \in [Pid -> SUBSET Sig], Gone(p, sent), UNCHANGED limit,
           limit # 0 => done' = done \/ (Works(p) /\ done' <= limit)
    PROVE  Counted'
<1> SUFFICES ASSUME limit # 0
             PROVE  /\ \A q \in Pid : ~keepalive'[q] /\ pc'[q] \notin {"forked", "wait", "sleep"}
                    /\ \A q \in Pid : Leads(q)' => done' = 0 /\ jobs_completed'[q] = 0
                    /\ \A q \in Pid : Works(q)' => done' = jobs_completed'[q] /\ done' < limit
                    /\ done' <= limit
  BY DEF Counted
<1>1. /\ UNCHANGED keepalive
      /\ \A q \in Pid : q # p /\ Alive(q) =>
            pc'[q] = pc[q] /\ jobs_completed'[q] = jobs_completed[q]
      /\ \A q \in Pid : q = p \/ ~Alive(q) => ~Alive(q)'
  BY GoneOnly DEF StepInv
<1>2. /\ \A q \in Pid : Leads(q)' => Leads(q) /\ q # p
      /\ \A q \in Pid : Works(q)' => Works(q) /\ q # p
  BY GoneLineage DEF StepInv
<1>3. /\ \A q \in Pid : ~keepalive[q] /\ pc[q] \notin {"forked", "wait", "sleep"}
      /\ \A q \in Pid : Leads(q) => done = 0 /\ jobs_completed[q] = 0
      /\ \A q \in Pid : Works(q) => done = jobs_completed[q] /\ done < limit
      /\ done <= limit
  BY DEF Counted
<1>4. Works(p) => \A q \in Pid : ~Leads(q) /\ (Works(q) => q = p)
  BY <1>3 DEF StepInv, Lineage
<1>5. \A q \in Pid : pc'[q] \notin {"forked", "wait", "sleep"}
  BY <1>1, <1>3 DEF Alive
<1>6. \A q \in Pid : Leads(q)' => done' = 0 /\ jobs_completed'[q] = 0
  BY <1>1, <1>2, <1>3, <1>4, RolesAlive
<1>7. \A q \in Pid : Works(q)' => done' = jobs_completed'[q] /\ done' < limit
  BY <1>1, <1>2, <1>3, <1>4, RolesAlive
<1>8. QED
  BY <1>1, <1>3, <1>5, <1>6, <1>7

(* When a process goes from one place to another.                           *)
LEMMA MoveCounts ==
    ASSUME SupervisorAssumption, StepInv, Counted, NEW p \in Pid, Alive(p),
           NEW place \in Place, Goto(p, place),
           limit # 0 => place \notin {"forked", "wait", "sleep"},
           \A q \in Pid : Leads(q)' => Leads(q),
           \A q \in Pid : Works(q)' => Works(q) \/ (q = p /\ Leads(p)),
           UNCHANGED <<keepalive, jobs_completed, limit, done>>
    PROVE  Counted'
<1> SUFFICES ASSUME limit # 0
             PROVE  /\ \A q \in Pid : ~keepalive[q] /\ pc'[q] \notin {"forked", "wait", "sleep"}
                    /\ \A q \in Pid : Leads(q)' => done = 0 /\ jobs_completed[q] = 0
                    /\ \A q \in Pid : Works(q)' => done = jobs_completed[q] /\ done < limit
                    /\ done <= limit
  BY DEF Counted
<1>1. /\ \A q \in Pid : ~keepalive[q] /\ pc[q] \notin {"forked", "wait", "sleep"}
      /\ \A q \in Pid : Leads(q) => done = 0 /\ jobs_completed[q] = 0
      /\ \A q \in Pid : Works(q) => done = jobs_completed[q] /\ done < limit
      /\ done <= limit
  BY DEF Counted
<1>2. limit \in Nat /\ 0 < limit
  BY PidFacts DEF StepInv, RestOK
<1>3. \A q \in Pid : pc'[q] \notin {"forked", "wait", "sleep"}
  BY <1>1 DEF Goto, StepInv, ProcessOK
<1>4. \A q \in Pid : Works(q)' => done = jobs_completed[q] /\ done < limit
  BY <1>1, <1>2
<1>5. QED
  BY <1>1, <1>3, <1>4

(* A step of one process by itself.                                         *)
Moves(p, place, n, c, b) ==
    /\ Goto(p, place) /\ ret' = [ret EXCEPT ![p] = n]
    /\ child_pid' = [child_pid EXCEPT ![p] = c] /\ removes' = [removes EXCEPT ![p] = b]
    /\ UNCHANGED <<parent, keepalive, jobs_completed, pending, limit, stopped_at, lost, done>>
    /\ place \in Place \ {"free", "zombie"} /\ n \in -1 .. MaxPid /\ c \in -1 .. MaxPid
    /\ b \in BOOLEAN

(* It keeps the whole invariant, if the process takes no role it had not,   *)
(* and goes on accounting for the pid file if that names it.                *)
LEMMA MoveKeeps ==
    ASSUME SupervisorAssumption, StepInv, NEW p \in Pid, Alive(p),
           NEW place, NEW n, NEW c, NEW b, Moves(p, place, n, c, b),
           Leads(p)' => Leads(p) /\ \A q \in Pid : parent[q] = p =>
                              place \in {"forked", "wait"} /\ q = n,
           Works(p)' => Works(p) \/ (Leads(p) /\ \A q \in Pid : ~Works(q)),
           \/ UNCHANGED top /\ pidfile' \in {pidfile, Nobody}
           \/ top' = p /\ pidfile' \in {p, Nobody},
           Leads(p)' => c # 0,
           p = top' /\ pidfile' # Nobody /\ ~lost =>
              \/ Watches(p)'
              \/ place = "after" /\ c # 0
              \/ place = "mainloop" /\ b
    PROVE  /\ StepInv'
           /\ \A q \in Pid : Leads(q)' => Leads(q)
           /\ \A q \in Pid : Works(q)' => Works(q) \/ (q = p /\ Leads(p))
<1>1. /\ Lineage'
      /\ \A q \in Pid : Leads(q)' => Leads(q)
      /\ \A q \in Pid : Works(q)' => Works(q) \/ (q = p /\ Leads(p))
  BY MoveLineage DEF StepInv, Moves
<1>2. ProcessOK'
  BY DEF StepInv, ProcessOK, Goto, Moves
<1>3. /\ pc'[p] = place /\ ret'[p] = n /\ child_pid'[p] = c /\ removes'[p] = b
      /\ \A q \in Pid : q # p => /\ pc'[q] = pc[q] /\ ret'[q] = ret[q]
                                 /\ child_pid'[q] = child_pid[q] /\ removes'[q] = removes[q]
  BY DEF StepInv, ProcessOK, Goto, Moves
<1>4. RestOK'
  <2>1. p \in 0 .. MaxPid /\ Nobody \in 0 .. MaxPid
    BY PidFacts DEF Nobody
  <2>2. QED
    BY <2>1 DEF StepInv, RestOK, Moves
<1>5. pidfile' \in {Nobody, top'}
  BY DEF StepInv, PidFileInv
<1>6. \A q \in Pid : Leads(q)' => child_pid'[q] # 0
  BY <1>1, <1>3 DEF StepInv, PidFileInv
<1>7. ASSUME pidfile' # Nobody, ~lost'
      PROVE  \/ Watches(top)'
             \/ pc'[top'] = "after" /\ child_pid'[top'] # 0
             \/ pc'[top'] = "mainloop" /\ removes'[top']
  <2>1. pidfile' = top' /\ top' \in Pid
    BY <1>4, <1>5, <1>7 DEF RestOK, Pid, Nobody
  <2>2. CASE top' = p
    BY <1>3, <1>7, <2>2 DEF Watches, Moves
  <2>3. CASE top' # p
    <3>1. UNCHANGED top /\ pidfile = pidfile' /\ pidfile # Nobody /\ ~lost
      BY <1>7, <2>3 DEF Moves
    <3>2. \/ Watches(top)
          \/ pc[top] = "after" /\ child_pid[top] # 0
          \/ pc[top] = "mainloop" /\ removes[top]
      BY <3>1 DEF StepInv, PidFileInv
    <3>3. QED
      BY <1>3, <2>1, <2>3, <3>1, <3>2 DEF Watches
  <2>4. QED
    BY <2>2, <2>3
<1>8. QED
  BY <1>1, <1>2, <1>4, <1>5, <1>6, <1>7 DEF StepInv, PidFileInv

-----------------------------------------------------------------------------
(* The steps of unix_daemonize.  No pid file has been written by a process  *)
(* that is still at them.                                                   *)
LEMMA DaemonNotInFile ==
    ASSUME SupervisorAssumption, StepInv, NEW p \in Pid,
           pc[p] \in {"daemonize", "forked_1", "setsid", "forked_2", "reg_sighandlers"},
           p = top, pidfile # Nobody
    PROVE  lost
  BY DEF StepInv, PidFileInv, RestOK, Watches

(* fork() returns in two processes, of which the first is about to leave.   *)
LEMMA DaemonForks ==
    ASSUME SupervisorAssumption, StepInv, NEW p \in Pid,
           pc[p] \in {"daemonize", "setsid"}, NEW place \in {"forked_1", "forked_2"},
           Fork(p, place), UNCHANGED <<limit, pidfile, history>>
    PROVE  StepInv' /\ (Counted => Counted')
<1>1. place \in Place /\ Alive(p)
  BY DEF Place, Alive
<1>2. ProcessOK'
  BY <1>1, ForkSplits DEF StepInv
<1>3. PICK r \in Pid : Splits(p, place, r)
  BY <1>1, ForkSplits DEF StepInv
<1>4. Lineage' /\ \A q \in Pid : ~Works(q)'
  BY DaemonForkLineage DEF StepInv
<1>5. \A q \in Pid : Leads(q)' =>
         child_pid'[q] = child_pid[p] /\ jobs_completed'[q] = jobs_completed[p]
  BY DaemonForkLineage DEF StepInv
<1>6. Leads(p)
  BY DEF Leads
<1>7. \A q \in Pid : Leads(q)' => child_pid'[q] # 0
  BY <1>5, <1>6 DEF StepInv, PidFileInv
<1>8. RestOK' /\ UNCHANGED <<top, pidfile, lost, done>>
  BY DEF StepInv, RestOK, history
<1>9. ASSUME pidfile' # Nobody, ~lost'
      PROVE  \/ Watches(top)'
             \/ pc'[top'] = "after" /\ child_pid'[top'] # 0
             \/ pc'[top'] = "mainloop" /\ removes'[top']
  <2>1. pidfile # Nobody /\ ~lost /\ top \in Pid
    <3>1. pidfile # Nobody /\ ~lost
      BY <1>8, <1>9
    <3>2. top = pidfile /\ top \in 0 .. MaxPid
      BY <3>1 DEF StepInv, PidFileInv, RestOK
    <3>3. QED
      BY <3>1, <3>2, PidFacts DEF Pid, Nobody
  <2>2. \/ Watches(top)
        \/ pc[top] = "after" /\ child_pid[top] # 0
        \/ pc[top] = "mainloop" /\ removes[top]
    BY <2>1 DEF StepInv, PidFileInv
  <2>3. top # p /\ top # r
    BY <1>3, <2>2 DEF Splits, Watches
  <2>4. pc'[top] = pc[top] /\ ret'[top] = ret[top] /\ child_pid'[top] = child_pid[top]
        /\ removes'[top] = removes[top]
    BY <1>3, <2>1, <2>3 DEF Splits
  <2>5. QED
    BY <1>8, <2>2, <2>4 DEF Watches
<1>10. StepInv'
  BY <1>2, <1>4, <1>7, <1>8, <1>9 DEF StepInv, PidFileInv
<1>11. ASSUME Counted, limit # 0
       PROVE  /\ \A q \in Pid : ~keepalive'[q] /\ pc'[q] \notin {"forked", "wait", "sleep"}
              /\ \A q \in Pid : Leads(q)' => done = 0 /\ jobs_completed'[q] = 0
              /\ done <= limit
  <2>1. /\ \A q \in Pid : ~keepalive[q] /\ pc[q] \notin {"forked", "wait", "sleep"}
        /\ \A q \in Pid : Leads(q) => done = 0 /\ jobs_completed[q] = 0
        /\ done <= limit
    BY <1>11 DEF Counted
  <2>2. \A q \in Pid : ~keepalive'[q] /\ pc'[q] \notin {"forked", "wait", "sleep"}
    <3>1. \A q \in Pid : q = p \/ q = r \/ (q # p /\ q # r)
      OBVIOUS
    <3>2. place \notin {"forked", "wait", "sleep"}
      OBVIOUS
    <3>3. QED
      BY <1>3, <2>1, <3>1, <3>2 DEF Splits
  <2>3. QED
    BY <1>5, <1>6, <2>1, <2>2
<1>12. Counted => Counted'
  BY <1>4, <1>8, <1>11 DEF Counted
<1>13. QED
  BY <1>10, <1>12

(* fork() may fail.                                                         *)
LEMMA ForkErrorKeeps ==
    ASSUME SupervisorAssumption, StepInv, NEW p \in Pid,
           NEW place \in {"forked_1", "forked_2", "forked"},
           pc[p] \in {"daemonize", "setsid", "keepalive"},
           place = "forked" => pc[p] = "keepalive" /\ keepalive[p],
           pc[p] = "keepalive" => place = "forked",
           ForkReturnsError(p, place), UNCHANGED <<limit, pidfile, history>>
    PROVE  StepInv' /\ (Counted => Counted')
<1>1. /\ Goto(p, place) /\ ret' = [ret EXCEPT ![p] = -1]
      /\ UNCHANGED <<parent, child_pid, keepalive, removes, jobs_completed, pending>>
      /\ UNCHANGED <<limit, pidfile, top, stopped_at, lost, done>>
  BY DEF ForkReturnsError, history
<1>2. /\ place \in Place \ {"free", "zombie"} /\ place \in Place /\ Alive(p) /\ Leads(p)
      /\ -1 \in -1 .. MaxPid
  <2>1. place \in Place \ {"free", "zombie"} /\ place \in Place
    BY DEF Place
  <2>2. Alive(p) /\ Leads(p)
    BY DEF Alive, Leads
  <2>3. -1 \in -1 .. MaxPid
    BY PidFacts
  <2>4. QED
    BY <2>1, <2>2, <2>3
<1>3. pc'[p] = place /\ ret'[p] = -1
  BY <1>1 DEF StepInv, ProcessOK, Goto
<1>4. ~Works(p)' /\ (place = "forked" => Watches(p)')
  <2>1. ret'[p] # 0
    BY <1>3
  <2>2. QED
    BY <1>3, <2>1 DEF Works, Watches
<1>5. \A q \in Pid : parent[q] # p
  BY <1>2 DEF StepInv, Lineage
<1>6. /\ child_pid' = [child_pid EXCEPT ![p] = child_pid[p]] /\ child_pid[p] \in -1 .. MaxPid
      /\ removes' = [removes EXCEPT ![p] = removes[p]] /\ removes[p] \in BOOLEAN
  BY <1>1 DEF StepInv, ProcessOK
<1>7. child_pid[p] # 0
  BY <1>2 DEF StepInv, PidFileInv
<1>8. p = top' /\ pidfile' # Nobody /\ ~lost => Watches(p)'
  BY <1>1, <1>4, DaemonNotInFile
<1>9. /\ StepInv'
      /\ \A q \in Pid : Leads(q)' => Leads(q)
      /\ \A q \in Pid : Works(q)' => Works(q) \/ (q = p /\ Leads(p))
  <2>1. Moves(p, place, -1, child_pid[p], removes[p])
    BY <1>1, <1>2, <1>6 DEF Moves
  <2>2. /\ Leads(p)' => Leads(p) /\ \A q \in Pid : parent[q] = p =>
                              place \in {"forked", "wait"} /\ q = -1
        /\ Works(p)' => Works(p) \/ (Leads(p) /\ \A q \in Pid : ~Works(q))
    BY <1>2, <1>4, <1>5
  <2>3. UNCHANGED top /\ pidfile' \in {pidfile, Nobody}
    BY <1>1
  <2>4. QED
    BY <1>2, <1>7, <1>8, <2>1, <2>2, <2>3, MoveKeeps
<1>10. Counted /\ limit # 0 => place \notin {"forked", "wait", "sleep"}
  BY DEF Counted
<1>11. Counted => Counted'
  BY <1>1, <1>2, <1>9, <1>10, MoveCounts
<1>12. QED
  BY <1>9, <1>11

(* The process that leaves after fork() is not the one in the pid file.     *)
LEMMA AfterForkKeeps ==
    ASSUME SupervisorAssumption, StepInv, NEW p \in Pid,
           NEW next \in {"setsid", "reg_sighandlers"}, pc[p] \in {"forked_1", "forked_2"},
           AfterFork(p, next), UNCHANGED <<limit, history>>
    PROVE  StepInv' /\ (Counted => Counted')
<1>1. /\ Alive(p) /\ next \in Place /\ next \in Place \ {"free", "zombie"}
      /\ pending \in [Pid -> SUBSET Sig]
  BY DEF Alive, Place, StepInv, ProcessOK
<1>2. UNCHANGED <<limit, top, stopped_at, lost, done>> /\ RestOK
  BY DEF history, StepInv
<1>3. ~Watches(p) /\ pc[p] # "after" /\ ~(pc[p] = "mainloop" /\ removes[p])
  BY DEF Watches
<1>4. CASE ret[p] = 0
  <2>1. /\ Goto(p, next)
        /\ UNCHANGED <<parent, ret, child_pid, keepalive, removes, jobs_completed>>
        /\ UNCHANGED <<pending, pidfile>>
    BY <1>4 DEF AfterFork
  <2>2. pc'[p] = next
    BY <2>1 DEF StepInv, ProcessOK, Goto
  <2>3. ~Works(p)' /\ Leads(p)
    <3>1. ~Works(p)'
      BY <2>2 DEF Works
    <3>2. ~(ret[p] > 0)
      BY <1>4
    <3>3. Leads(p)
      BY <3>2 DEF Leads
    <3>4. QED
      BY <3>1, <3>3
  <2>4. \A q \in Pid : parent[q] # p
    BY <2>3 DEF StepInv, Lineage
  <2>5. /\ child_pid' = [child_pid EXCEPT ![p] = child_pid[p]] /\ child_pid[p] \in -1 .. MaxPid
        /\ removes' = [removes EXCEPT ![p] = removes[p]] /\ removes[p] \in BOOLEAN
        /\ ret' = [ret EXCEPT ![p] = ret[p]] /\ ret[p] \in -1 .. MaxPid
    BY <2>1 DEF StepInv, ProcessOK
  <2>6. child_pid[p] # 0
    BY <2>3 DEF StepInv, PidFileInv
  <2>7. ~(p = top' /\ pidfile' # Nobody /\ ~lost)
    BY <1>2, <2>1, DaemonNotInFile
  <2>8. /\ StepInv'
        /\ \A q \in Pid : Leads(q)' => Leads(q)
        /\ \A q \in Pid : Works(q)' => Works(q) \/ (q = p /\ Leads(p))
    <3>1. Moves(p, next, ret[p], child_pid[p], removes[p])
      BY <1>1, <1>2, <2>1, <2>5 DEF Moves
    <3>2. /\ Leads(p)' => Leads(p) /\ \A q \in Pid : parent[q] = p =>
                                next \in {"forked", "wait"} /\ q = ret[p]
          /\ Works(p)' => Works(p) \/ (Leads(p) /\ \A q \in Pid : ~Works(q))
      BY <2>3, <2>4
    <3>3. UNCHANGED top /\ pidfile' \in {pidfile, Nobody}
      BY <1>2, <2>1
    <3>4. QED
      BY <1>1, <2>6, <2>7, <3>1, <3>2, <3>3, MoveKeeps
  <2>9. Counted => Counted'
    BY <1>1, <1>2, <2>1, <2>8, MoveCounts
  <2>10. QED
    BY <2>8, <2>9
<1>5. CASE ret[p] # 0
  <2>1. Gone(p, pending) /\ pidfile' \in {pidfile, Nobody}
    BY <1>5 DEF AfterFork, Killed, Exits
  <2>2. StepInv'
    BY <1>1, <1>2, <1>3, <2>1, GoneKeeps DEF RestOK
  <2>3. Counted => Counted'
    BY <1>1, <1>2, <2>1, GoneCounts
  <2>4. QED
    BY <2>2, <2>3
<1>6. QED
  BY <1>4, <1>5

(* All of unix_daemonize.                                                   *)
LEMMA DaemonizeKeeps ==
    ASSUME SupervisorAssumption, StepInv, NEW p \in Pid, Daemonize(p)
    PROVE  StepInv' /\ (Counted => Counted')
<1>1. UNCHANGED <<limit, history>>
  BY DEF Daemonize
<1>2. CASE pc[p] = "daemonize" /\ Fork(p, "forked_1") /\ UNCHANGED pidfile
  BY <1>1, <1>2, DaemonForks
<1>3. CASE pc[p] = "daemonize" /\ ForkReturnsError(p, "forked_1") /\ UNCHANGED pidfile
  BY <1>1, <1>3, ForkErrorKeeps
<1>4. CASE pc[p] = "forked_1" /\ AfterFork(p, "setsid")
  BY <1>1, <1>4, AfterForkKeeps
<1>5. CASE pc[p] = "setsid" /\ Fork(p, "forked_2") /\ UNCHANGED pidfile
  BY <1>1, <1>5, DaemonForks
<1>6. CASE pc[p] = "setsid" /\ ForkReturnsError(p, "forked_2") /\ UNCHANGED pidfile
  BY <1>1, <1>6, ForkErrorKeeps
<1>7. CASE pc[p] = "setsid" /\ Exits(p, pending)
  <2>1. Alive(p) /\ pending \in [Pid -> SUBSET Sig] /\ RestOK /\ ~Watches(p)
    BY <1>7 DEF Alive, StepInv, ProcessOK, Watches
  <2>2. Gone(p, pending) /\ pidfile' \in {pidfile, Nobody}
    BY <1>7 DEF Exits
  <2>3. UNCHANGED <<top, stopped_at, lost, done>>
    BY <1>1 DEF history
  <2>4. StepInv'
    BY <1>1, <1>7, <2>1, <2>2, <2>3, GoneKeeps DEF RestOK
  <2>5. Counted => Counted'
    BY <1>1, <2>1, <2>2, <2>3, GoneCounts
  <2>6. QED
    BY <2>4, <2>5
<1>8. CASE pc[p] = "forked_2" /\ AfterFork(p, "reg_sighandlers")
  BY <1>1, <1>8, AfterForkKeeps
<1>9. QED
  BY <1>2, <1>3, <1>4, <1>5, <1>6, <1>7, <1>8 DEF Daemonize

-----------------------------------------------------------------------------
(* The steps of maybe_daemonize.                                            *)

(* What a process that stays with its numbers keeps.                        *)
LEMMA SameNumbers ==
    ASSUME ProcessOK, NEW p \in Pid
    PROVE  /\ ret = [ret EXCEPT ![p] = ret[p]] /\ ret[p] \in -1 .. MaxPid
           /\ child_pid = [child_pid EXCEPT ![p] = child_pid[p]]
           /\ child_pid[p] \in -1 .. MaxPid
           /\ removes = [removes EXCEPT ![p] = removes[p]] /\ removes[p] \in BOOLEAN
  BY DEF ProcessOK

(* The process that writes the pid file keeps watch.                        *)
LEMMA CreatePidfileKeeps ==
    ASSUME SupervisorAssumption, StepInv, NEW p \in Pid, CreatePidfile(p)
    PROVE  StepInv' /\ (Counted => Counted')
<1>1. /\ pc[p] = "reg_sighandlers" /\ Goto(p, "keepalive")
      /\ pidfile' \in {p, Nobody} /\ top' = p
      /\ UNCHANGED <<parent, ret, child_pid, keepalive, removes, jobs_completed, pending,
                     limit, stopped_at, lost, done>>
  BY DEF CreatePidfile
<1>2. Alive(p) /\ Leads(p) /\ "keepalive" \in Place \ {"free", "zombie"} /\ "keepalive" \in Place
  BY <1>1 DEF Alive, Leads, Place
<1>3. pc'[p] = "keepalive"
  BY <1>1 DEF StepInv, ProcessOK, Goto
<1>4. Watches(p)' /\ ~Works(p)'
  BY <1>3 DEF Watches, Works
<1>5. child_pid[p] # 0 /\ \A q \in Pid : parent[q] # p
  BY <1>1, <1>2 DEF StepInv, PidFileInv, Lineage
<1>6. Moves(p, "keepalive", ret[p], child_pid[p], removes[p])
  BY <1>1, <1>2, SameNumbers DEF Moves, StepInv
<1>7. /\ StepInv'
      /\ \A q \in Pid : Leads(q)' => Leads(q)
      /\ \A q \in Pid : Works(q)' => Works(q) \/ (q = p /\ Leads(p))
  BY <1>1, <1>2, <1>4, <1>5, <1>6, MoveKeeps
<1>8. Counted => Counted'
  BY <1>1, <1>2, <1>7, MoveCounts
<1>9. QED
  BY <1>7, <1>8

(* The watch forks a worker, or fails to.                                   *)
LEMMA KeepAliveKeeps ==
    ASSUME SupervisorAssumption, StepInv, NEW p \in Pid, KeepAlive(p)
    PROVE  StepInv' /\ (Counted => Counted')
<1>1. pc[p] = "keepalive" /\ keepalive[p] /\ UNCHANGED <<limit, pidfile, history>>
  BY DEF KeepAlive
<1>2. CASE ForkReturnsError(p, "forked")
  BY <1>1, <1>2, ForkErrorKeeps
<1>3. CASE Fork(p, "forked")
  <2>1. "forked" \in Place /\ Alive(p) /\ Leads(p)
    BY <1>1 DEF Place, Alive, Leads
  <2>2. ProcessOK'
    BY <1>3, <2>1, ForkSplits DEF StepInv
  <2>3. PICK r \in Pid : Splits(p, "forked", r)
    BY <1>3, <2>1, ForkSplits DEF StepInv
  <2>4. Lineage' /\ (\A q \in Pid : Leads(q)' => q = p) /\ child_pid'[p] = child_pid[p]
    BY <1>1, <1>3, WorkerForkLineage DEF StepInv
  <2>5. \A q \in Pid : Leads(q)' => child_pid'[q] # 0
    BY <2>1, <2>4 DEF StepInv, PidFileInv
  <2>6. RestOK' /\ UNCHANGED <<top, pidfile, lost, done>>
    BY <1>1 DEF StepInv, RestOK, history
  <2>7. ASSUME pidfile' # Nobody, ~lost'
        PROVE  \/ Watches(top)'
               \/ pc'[top'] = "after" /\ child_pid'[top'] # 0
               \/ pc'[top'] = "mainloop" /\ removes'[top']
    <3>1. pidfile # Nobody /\ ~lost
      BY <2>6, <2>7
    <3>2. top = pidfile /\ top \in Pid
      <4>1. top = pidfile /\ top \in 0 .. MaxPid
        BY <3>1 DEF StepInv, PidFileInv, RestOK
      <4>2. QED
        BY <3>1, <4>1, PidFacts DEF Pid, Nobody
    <3>3. \/ Watches(top)
          \/ pc[top] = "after" /\ child_pid[top] # 0
          \/ pc[top] = "mainloop" /\ removes[top]
      BY <3>1 DEF StepInv, PidFileInv
    <3>4. top # r
      BY <2>3, <3>3 DEF Splits, Watches
    <3>5. CASE top = p
      <4>1. pc'[top] = "forked" /\ ret'[top] # 0
        BY <2>3, <3>5, PidFacts DEF Splits
      <4>2. QED
        BY <2>6, <4>1 DEF Watches
    <3>6. CASE top # p
      <4>1. /\ pc'[top] = pc[top] /\ ret'[top] = ret[top] /\ child_pid'[top] = child_pid[top]
            /\ removes'[top] = removes[top]
        BY <2>3, <3>2, <3>4, <3>6 DEF Splits
      <4>2. QED
        BY <2>6, <3>3, <4>1 DEF Watches
    <3>7. QED
      BY <3>5, <3>6
  <2>8. StepInv'
    BY <2>2, <2>4, <2>5, <2>6, <2>7 DEF StepInv, PidFileInv
  <2>9. Counted => Counted'
    BY <1>1 DEF Counted
  <2>10. QED
    BY <2>8, <2>9
<1>4. QED
  BY <1>2, <1>3 DEF KeepAlive

(* The parent waits, the child works; without a child, the parent does.     *)
LEMMA ForkedKeeps ==
    ASSUME SupervisorAssumption, StepInv, NEW p \in Pid, Forked(p)
    PROVE  StepInv' /\ (Counted => Counted')
<1> DEFINE place == IF ret[p] > 0 THEN "wait" ELSE "after"
<1>1. /\ pc[p] = "forked" /\ child_pid' = [child_pid EXCEPT ![p] = ret[p]]
      /\ Goto(p, place)
      /\ UNCHANGED <<parent, ret, keepalive, removes, jobs_completed, pending, limit, pidfile>>
      /\ UNCHANGED <<top, stopped_at, lost, done>>
  BY DEF Forked, history
<1>2. Alive(p) /\ place \in Place \ {"free", "zombie"} /\ place \in Place
  BY <1>1 DEF Alive, Place
<1>3. pc'[p] = place /\ ret'[p] = ret[p]
  BY <1>1 DEF StepInv, ProcessOK, Goto
<1>4. ret[p] \in Int /\ (Leads(p) <=> ret[p] # 0) /\ (Works(p) <=> ret[p] = 0)
  <2>1. ret[p] \in -1 .. MaxPid
    BY DEF StepInv, ProcessOK
  <2>2. Leads(p) <=> ret[p] # 0
    BY <1>1 DEF Leads
  <2>3. Works(p) <=> ret[p] = 0
    BY <1>1 DEF Works
  <2>4. QED
    BY <2>1, <2>2, <2>3
<1>5. Leads(p)' => ret[p] > 0 /\ place = "wait"
  BY <1>3 DEF Leads
<1>6. Leads(p)' => Leads(p) /\ \A q \in Pid : parent[q] = p =>
                              place \in {"forked", "wait"} /\ q = ret[p]
  BY <1>4, <1>5 DEF StepInv, Lineage
<1>7. Works(p)' => Works(p) \/ (Leads(p) /\ \A q \in Pid : ~Works(q))
  <2>1. SUFFICES ASSUME Works(p)', ~Works(p)
                 PROVE  Leads(p) /\ \A q \in Pid : ~Works(q)
    OBVIOUS
  <2>2. Leads(p)
    BY <1>4, <2>1
  <2>3. ~(ret[p] > 0)
    BY <1>3, <2>1 DEF Works
  <2>4. \A q \in Pid : Works(q) => q = ret[p]
    BY <2>2 DEF StepInv, Lineage
  <2>5. QED
    BY <2>2, <2>3, <2>4, PidFacts
<1>8. Leads(p)' => ret[p] # 0
  BY <1>4, <1>5
<1>9. p = top' /\ pidfile' # Nobody /\ ~lost =>
              \/ Watches(p)'
              \/ place = "after" /\ ret[p] # 0
              \/ place = "mainloop" /\ removes[p]
  <2>1. SUFFICES ASSUME p = top, pidfile # Nobody, ~lost
                 PROVE  Watches(p)' \/ (place = "after" /\ ret[p] # 0)
    BY <1>1
  <2>2. Watches(p)
    BY <1>1, <2>1 DEF StepInv, PidFileInv
  <2>3. ret[p] # 0
    BY <1>1, <2>2 DEF Watches
  <2>4. CASE ret[p] > 0
    BY <1>3, <2>4 DEF Watches
  <2>5. CASE ~(ret[p] > 0)
    BY <2>3, <2>5
  <2>6. QED
    BY <2>4, <2>5
<1>10. Moves(p, place, ret[p], ret[p], removes[p])
  <2>1. /\ ret' = [ret EXCEPT ![p] = ret[p]] /\ ret[p] \in -1 .. MaxPid
        /\ removes' = [removes EXCEPT ![p] = removes[p]] /\ removes[p] \in BOOLEAN
    BY <1>1, SameNumbers DEF StepInv
  <2>2. QED
    BY <1>1, <1>2, <2>1 DEF Moves
<1>11. UNCHANGED top /\ pidfile' \in {pidfile, Nobody}
  BY <1>1
<1> HIDE DEF place
<1>12. StepInv'
  BY <1>2, <1>6, <1>7, <1>8, <1>9, <1>10, <1>11, MoveKeeps
<1>13. Counted => limit = 0 /\ limit' = 0
  BY <1>1 DEF Counted
<1>14. QED
  BY <1>12, <1>13 DEF Counted

(* wait() returns: the worker has ended, whichever way.                     *)
LEMMA WaitKeeps ==
    ASSUME SupervisorAssumption, StepInv, NEW p \in Pid, Wait(p)
    PROVE  StepInv' /\ (Counted => Counted')
<1>1. /\ pc[p] = "wait"
      /\ UNCHANGED <<ret, child_pid, removes, limit, pidfile, top, stopped_at, lost, done>>
  BY DEF Wait, history
<1>2. /\ ProcessOK' /\ Lineage' /\ pc'[p] = "sleep"
      /\ \A q \in Pid : q # p /\ Alive(q) => pc'[q] = pc[q]
      /\ \A q \in Pid : Leads(q)' => Leads(q)
  BY WaitLineage DEF StepInv
<1>3. RestOK'
  BY <1>1 DEF StepInv, RestOK
<1>4. \A q \in Pid : Leads(q)' => child_pid'[q] # 0
  BY <1>1, <1>2 DEF StepInv, PidFileInv
<1>5. ASSUME pidfile # Nobody, ~lost
      PROVE  \/ Watches(top)'
             \/ pc'[top] = "after" /\ child_pid[top] # 0
             \/ pc'[top] = "mainloop" /\ removes[top]
  <2>1. top \in Pid
    BY <1>5 DEF StepInv, PidFileInv, RestOK, Pid, Nobody
  <2>2. \/ Watches(top)
        \/ pc[top] = "after" /\ child_pid[top] # 0
        \/ pc[top] = "mainloop" /\ removes[top]
    BY <1>5 DEF StepInv, PidFileInv
  <2>3. CASE top = p
    <3>1. pc'[top] = "sleep"
      BY <1>2, <2>3
    <3>2. QED
      BY <1>1, <3>1 DEF Watches
  <2>4. CASE top # p
    <3>1. pc'[top] = pc[top]
      BY <1>2, <2>1, <2>2, <2>4 DEF Watches, Alive
    <3>2. QED
      BY <1>1, <2>2, <3>1 DEF Watches
  <2>5. QED
    BY <2>3, <2>4
<1>6. PidFileInv'
  <2>1. pidfile \in {Nobody, top}
    BY DEF StepInv, PidFileInv
  <2>2. QED
    BY <1>1, <1>4, <1>5, <2>1 DEF PidFileInv
<1>7. Counted => limit = 0 /\ limit' = 0
  BY <1>1 DEF Counted
<1>8. QED
  BY <1>2, <1>3, <1>6, <1>7 DEF StepInv, Counted

(* The watch rests, and looks again.                                        *)
LEMMA SleepKeeps ==
    ASSUME SupervisorAssumption, StepInv, NEW p \in Pid, Sleep(p)
    PROVE  StepInv' /\ (Counted => Counted')
<1>1. /\ pc[p] = "sleep" /\ Goto(p, "keepalive")
      /\ UNCHANGED <<parent, ret, child_pid, keepalive, removes, jobs_completed, pending,
                     limit, pidfile, top, stopped_at, lost, done>>
  BY DEF Sleep, history
<1>2. Alive(p) /\ Leads(p) /\ "keepalive" \in Place \ {"free", "zombie"}
  BY <1>1 DEF Alive, Leads, Place
<1>3. pc'[p] = "keepalive"
  BY <1>1 DEF StepInv, ProcessOK, Goto
<1>4. Watches(p)' /\ ~Works(p)'
  BY <1>3 DEF Watches, Works
<1>5. child_pid[p] # 0 /\ \A q \in Pid : parent[q] # p
  BY <1>1, <1>2 DEF StepInv, PidFileInv, Lineage
<1>6. Moves(p, "keepalive", ret[p], child_pid[p], removes[p])
  BY <1>1, <1>2, SameNumbers DEF Moves, StepInv
<1>7. StepInv'
  BY <1>1, <1>2, <1>4, <1>5, <1>6, MoveKeeps
<1>8. Counted => limit = 0 /\ limit' = 0
  BY <1>1 DEF Counted
<1>9. QED
  BY <1>7, <1>8 DEF Counted

(* The watch turns to the work itself, when it has no child.                *)
LEMMA NoKeepAliveKeeps ==
    ASSUME SupervisorAssumption, StepInv, NEW p \in Pid, NoKeepAlive(p)
    PROVE  StepInv' /\ (Counted => Counted')
<1>1. /\ pc[p] = "keepalive" /\ Goto(p, "after")
      /\ UNCHANGED <<parent, ret, child_pid, keepalive, removes, jobs_completed, pending,
                     limit, pidfile, top, stopped_at, lost, done>>
  BY DEF NoKeepAlive, history
<1>2. Alive(p) /\ Leads(p) /\ "after" \in Place \ {"free", "zombie"} /\ "after" \in Place
  BY <1>1 DEF Alive, Leads, Place
<1>3. pc'[p] = "after"
  BY <1>1 DEF StepInv, ProcessOK, Goto
<1>4. ~Leads(p)'
  BY <1>3 DEF Leads
<1>5. child_pid[p] # 0 /\ \A q \in Pid : ~Works(q)
  BY <1>1, <1>2 DEF StepInv, PidFileInv, Lineage
<1>6. Moves(p, "after", ret[p], child_pid[p], removes[p])
  BY <1>1, <1>2, SameNumbers DEF Moves, StepInv
<1>7. /\ StepInv'
      /\ \A q \in Pid : Leads(q)' => Leads(q)
      /\ \A q \in Pid : Works(q)' => Works(q) \/ (q = p /\ Leads(p))
  BY <1>1, <1>2, <1>4, <1>5, <1>6, MoveKeeps
<1>8. Counted => Counted'
  BY <1>1, <1>2, <1>7, MoveCounts
<1>9. QED
  BY <1>7, <1>8

(* Whoever wrote the pid file removes it now, or will when it exits.        *)
LEMMA AfterLoopKeeps ==
    ASSUME SupervisorAssumption, StepInv, NEW p \in Pid, AfterLoop(p)
    PROVE  StepInv' /\ (Counted => Counted')
<1>1. /\ pc[p] = "after" /\ Goto(p, "mainloop")
      /\ UNCHANGED <<parent, ret, child_pid, keepalive, jobs_completed, pending,
                     limit, top, stopped_at, lost, done>>
  BY DEF AfterLoop, history
<1>2. Alive(p) /\ Works(p) /\ "mainloop" \in Place \ {"free", "zombie"} /\ "mainloop" \in Place
  BY <1>1 DEF Alive, Works, Place
<1>3. pc'[p] = "mainloop"
  BY <1>1 DEF StepInv, ProcessOK, Goto
<1>4. ~Leads(p)'
  BY <1>3 DEF Leads
<1>5. p = top /\ pidfile # Nobody /\ ~lost => child_pid[p] # 0
  BY <1>1 DEF StepInv, PidFileInv, Watches
<1>6. PICK b \in BOOLEAN :
        /\ removes' = [removes EXCEPT ![p] = b] /\ pidfile' \in {pidfile, Nobody}
        /\ p = top /\ pidfile' # Nobody /\ ~lost => b
  <2>1. CASE keepalive[p]
    <3>1. pidfile' = (IF child_pid[p] # 0 THEN Nobody ELSE pidfile) /\ removes' = removes
      BY <2>1 DEF AfterLoop
    <3>2. removes' = [removes EXCEPT ![p] = removes[p]] /\ removes[p] \in BOOLEAN
      BY <3>1, SameNumbers DEF StepInv
    <3>3. ~(p = top /\ pidfile' # Nobody /\ ~lost)
      BY <1>5, <3>1
    <3>4. pidfile' \in {pidfile, Nobody}
      BY <3>1
    <3>5. QED
      BY <3>2, <3>3, <3>4
  <2>2. CASE ~keepalive[p]
    <3>1. removes' = [removes EXCEPT ![p] = TRUE] /\ UNCHANGED pidfile
      BY <2>2 DEF AfterLoop
    <3>2. QED
      BY <3>1
  <2>3. QED
    BY <2>1, <2>2
<1>7. Moves(p, "mainloop", ret[p], child_pid[p], b)
  BY <1>1, <1>2, <1>6, SameNumbers DEF Moves, StepInv
<1>8. /\ StepInv'
      /\ \A q \in Pid : Leads(q)' => Leads(q)
      /\ \A q \in Pid : Works(q)' => Works(q) \/ (q = p /\ Leads(p))
  <2>1. UNCHANGED top /\ pidfile' \in {pidfile, Nobody}
    BY <1>1, <1>6
  <2>2. p = top' /\ pidfile' # Nobody /\ ~lost => "mainloop" = "mainloop" /\ b
    BY <1>1, <1>6
  <2>3. QED
    BY <1>2, <1>4, <1>7, <2>1, <2>2, MoveKeeps
<1>9. Counted => Counted'
  BY <1>1, <1>2, <1>8, MoveCounts
<1>10. QED
  BY <1>8, <1>9

-----------------------------------------------------------------------------
(* mainloop and the signals.                                                *)

(* What happens to a process where it is.                                   *)
LEMMA StayKeeps ==
    ASSUME StepInv, UNCHANGED <<pc, parent, ret, child_pid, removes>>,
           UNCHANGED <<limit, pidfile, top, stopped_at, lost>>,
           keepalive' \in [Pid -> BOOLEAN], jobs_completed' \in [Pid -> 0 .. Limit],
           pending' \in [Pid -> SUBSET Sig], done' \in 0 .. Limit + 1
    PROVE  StepInv'
<1>1. ProcessOK' /\ RestOK'
  BY DEF StepInv, ProcessOK, RestOK
<1>2. Lineage' /\ PidFileInv'
  BY DEF StepInv, Lineage, PidFileInv, Leads, Works, Watches, Alive
<1>3. QED
  BY <1>1, <1>2 DEF StepInv

(* An iteration more, and the last one.                                     *)
LEMMA IterationKeeps ==
    ASSUME SupervisorAssumption, StepInv, NEW p \in Pid, Iteration(p)
    PROVE  StepInv' /\ (Counted => Counted')
<1> DEFINE n == IF limit = 0 THEN 0 ELSE jobs_completed[p] + 1
<1>1. /\ pc[p] = "mainloop"
      /\ done' = IF limit = 0 THEN 0 ELSE Bounded(done + 1)
      /\ UNCHANGED <<limit, top, stopped_at, lost>>
  BY DEF Iteration
<1>2. Alive(p) /\ Works(p) /\ pending \in [Pid -> SUBSET Sig]
  BY <1>1 DEF Alive, Works, StepInv, ProcessOK
<1>3. /\ limit \in {0, Limit} /\ Limit \in Nat /\ done \in 0 .. Limit + 1
      /\ jobs_completed[p] \in 0 .. Limit /\ lost \in BOOLEAN
      /\ stopped_at \in Place \cup {"nowhere"}
  BY PidFacts DEF StepInv, RestOK, ProcessOK
<1>4. done' \in 0 .. Limit + 1
  BY <1>1, <1>3 DEF Bounded
<1>5. Counted /\ limit # 0 => /\ \A q \in Pid : Works(q) => q = p
                             /\ \A q \in Pid : ~Leads(q)
                             /\ done = jobs_completed[p] /\ done < limit
                             /\ done' = done + 1 /\ done' <= limit
  <2>1. SUFFICES ASSUME Counted, limit # 0
                 PROVE  /\ \A q \in Pid : Works(q) => q = p
                        /\ \A q \in Pid : ~Leads(q)
                        /\ done = jobs_completed[p] /\ done < limit
                        /\ done' = done + 1 /\ done' <= limit
    OBVIOUS
  <2>2. done = jobs_completed[p] /\ done < limit /\ limit = Limit
    BY <1>2, <1>3, <2>1 DEF Counted
  <2>3. done' = done + 1 /\ done' <= limit
    BY <1>1, <1>3, <2>1, <2>2 DEF Bounded
  <2>4. \A q \in Pid : Works(q) => q = p
    BY <1>2 DEF StepInv, Lineage
  <2>5. \A q \in Pid : ~Leads(q)
    <3>1. \A q \in Pid : Leads(q) => pc[q] \in {"forked", "wait"}
      BY <1>2 DEF StepInv, Lineage
    <3>2. \A q \in Pid : pc[q] \notin {"forked", "wait"}
      BY <2>1 DEF Counted
    <3>3. QED
      BY <3>1, <3>2
  <2>6. QED
    BY <2>2, <2>3, <2>4, <2>5
<1>6. CASE LimitReached(n)
  <2>1. Exits(p, pending)
    BY <1>6 DEF Iteration
  <2>2. Gone(p, pending) /\ pidfile' \in {pidfile, Nobody} /\ (removes[p] => pidfile' = Nobody)
    BY <2>1 DEF Exits
  <2>3. p = top /\ pidfile' # Nobody /\ ~lost' =>
            ~Watches(p) /\ pc[p] # "after" /\ ~(pc[p] = "mainloop" /\ removes[p])
    BY <1>1, <2>2 DEF Watches
  <2>4. StepInv'
    BY <1>1, <1>2, <1>3, <1>4, <2>2, <2>3, GoneKeeps
  <2>5. Counted => Counted'
    BY <1>1, <1>2, <1>5, <2>2, GoneCounts
  <2>6. QED
    BY <2>4, <2>5
<1>7. CASE ~LimitReached(n)
  <2>1. /\ jobs_completed' = [jobs_completed EXCEPT ![p] = n]
        /\ UNCHANGED <<pc, parent, ret, child_pid, keepalive, removes, pending, pidfile>>
    BY <1>7 DEF Iteration
  <2>2. n \in 0 .. Limit
    BY <1>3, <1>7 DEF LimitReached
  <2>3. jobs_completed' \in [Pid -> 0 .. Limit] /\ keepalive' \in [Pid -> BOOLEAN]
    BY <2>1, <2>2 DEF StepInv, ProcessOK
  <2>4. StepInv'
    BY <1>1, <1>2, <1>4, <2>1, <2>3, StayKeeps
  <2>5. ASSUME Counted, limit # 0 PROVE Counted'
    <3>1. n = done' /\ n < limit
      BY <1>3, <1>5, <1>7, <2>5 DEF LimitReached
    <3>2. jobs_completed'[p] = done'
      BY <2>1, <3>1 DEF StepInv, ProcessOK
    <3>3. \A q \in Pid : (Works(q)' => q = p) /\ ~Leads(q)'
      BY <1>5, <2>1, <2>5 DEF Works, Leads
    <3>4. \A q \in Pid : ~keepalive'[q] /\ pc'[q] \notin {"forked", "wait", "sleep"}
      BY <2>1, <2>5 DEF Counted
    <3>5. done' < limit' /\ done' <= limit'
      BY <1>1, <1>5, <2>5, <3>1
    <3>6. QED
      BY <3>2, <3>3, <3>4, <3>5 DEF Counted
  <2>6. limit = 0 => Counted'
    BY <1>1 DEF Counted
  <2>7. QED
    BY <2>4, <2>5, <2>6
<1>8. QED
  BY <1>6, <1>7

(* The end of a process in its main loop, with exit() or without.           *)
LEMMA DiesKeeps ==
    ASSUME SupervisorAssumption, StepInv, NEW p \in Pid, Dies(p) \/ Crash(p)
    PROVE  StepInv' /\ (Counted => Counted')
<1>1. pc[p] = "mainloop" /\ UNCHANGED <<limit, top, stopped_at, done>>
  BY DEF Dies, Crash, history
<1>2. Alive(p) /\ pending \in [Pid -> SUBSET Sig]
  BY <1>1 DEF Alive, StepInv, ProcessOK
<1>3. Gone(p, pending) /\ pidfile' \in {pidfile, Nobody}
  BY DEF Dies, Crash, Exits, Killed
<1>4. /\ lost' \in BOOLEAN /\ (lost => lost') /\ stopped_at \in Place \cup {"nowhere"}
      /\ done \in 0 .. Limit + 1
  BY DEF StepInv, RestOK, Dies, Crash, history
<1>5. p = top /\ pidfile' # Nobody /\ ~lost' =>
          ~Watches(p) /\ pc[p] # "after" /\ ~(pc[p] = "mainloop" /\ removes[p])
  <2>1. CASE Dies(p)
    BY <1>1, <2>1 DEF Dies, Exits, Watches
  <2>2. CASE Crash(p)
    BY <2>2 DEF Crash
  <2>3. QED
    BY <2>1, <2>2
<1>6. StepInv'
  BY <1>1, <1>2, <1>3, <1>4, <1>5, GoneKeeps
<1>7. Counted => Counted'
  BY <1>1, <1>2, <1>3, GoneCounts
<1>8. QED
  BY <1>6, <1>7

(* Signals sent from outside wait for their process.                        *)
LEMMA KillKeeps ==
    ASSUME SupervisorAssumption, StepInv, Kill
    PROVE  StepInv' /\ (Counted => Counted')
<1>1. /\ UNCHANGED <<pc, parent, ret, child_pid, keepalive, removes, jobs_completed>>
      /\ UNCHANGED <<limit, pidfile, top, stopped_at, lost, done>>
  BY DEF Kill, history
<1>2. pending' \in [Pid -> SUBSET Sig]
  <2>1. CASE pidfile # Nobody /\ \E sig \in {"TERM", "HUP"} : pending' = Send(pidfile, sig)
    <3>1. pidfile \in Pid
      BY <2>1 DEF StepInv, RestOK, Pid, Nobody
    <3>2. QED
      BY <2>1, <3>1, SendType DEF StepInv, Sig
  <2>2. CASE \E p \in Pid : Handles(p) /\ pending' = Send(p, "CONT")
    BY <2>2, SendType DEF StepInv, Sig
  <2>3. QED
    BY <2>1, <2>2 DEF Kill
<1>3. StepInv'
  BY <1>1, <1>2, StayKeeps DEF StepInv, ProcessOK, RestOK
<1>4. Counted => Counted'
  BY <1>1 DEF Counted, Leads, Works
<1>5. QED
  BY <1>3, <1>4

(* catch_term passes its signal on and exits, the handler of SIGCONT exits. *)
LEMMA CatchEndKeeps ==
    ASSUME SupervisorAssumption, StepInv, NEW p \in Pid, CatchTerm(p) \/ CatchCont(p)
    PROVE  StepInv' /\ (Counted => Counted')
<1>1. Alive(p) /\ UNCHANGED <<limit, top, done>> /\ lost' = (lost \/ p = top)
  BY DEF CatchTerm, CatchCont, Stopped, Handles
<1>2. stopped_at' \in Place \cup {"nowhere"} /\ done \in 0 .. Limit + 1 /\ lost \in BOOLEAN
  <2>1. pc[p] \in Place
    BY DEF StepInv, ProcessOK
  <2>2. stopped_at' \in {pc[p], stopped_at}
    BY DEF CatchTerm, CatchCont, Stopped
  <2>3. QED
    BY <2>1, <2>2 DEF StepInv, RestOK
<1>3. PICK sent \in [Pid -> SUBSET Sig] : Exits(p, sent)
  <2>1. pending \in [Pid -> SUBSET Sig]
    BY DEF StepInv, ProcessOK
  <2>2. CASE CatchTerm(p)
    <3>1. CASE child_pid[p] > 0
      <4>1. child_pid[p] \in Pid
        BY <3>1, PidFacts DEF StepInv, ProcessOK, Pid
      <4>2. Send(child_pid[p], "TERM") \in [Pid -> SUBSET Sig]
        BY <4>1, SendType DEF StepInv, Sig
      <4>3. Exits(p, Send(child_pid[p], "TERM"))
        BY <2>2, <3>1 DEF CatchTerm
      <4>4. QED
        BY <4>2, <4>3
    <3>2. CASE ~(child_pid[p] > 0)
      BY <2>1, <2>2, <3>2 DEF CatchTerm
    <3>3. QED
      BY <3>1, <3>2
  <2>3. CASE CatchCont(p)
    BY <2>1, <2>3 DEF CatchCont
  <2>4. QED
    BY <2>2, <2>3
<1>4. Gone(p, sent) /\ pidfile' \in {pidfile, Nobody}
  BY <1>3 DEF Exits
<1>5. StepInv'
  BY <1>1, <1>2, <1>4, GoneKeeps
<1>6. Counted => Counted'
  BY <1>1, <1>4, GoneCounts
<1>7. QED
  BY <1>5, <1>6

(* The options file is read again: keepalive can only be turned off.        *)
LEMMA CatchHupKeeps ==
    ASSUME SupervisorAssumption, StepInv, NEW p \in Pid, CatchHup(p)
    PROVE  StepInv' /\ (Counted => Counted')
<1>1. /\ UNCHANGED <<pc, parent, ret, child_pid, removes, jobs_completed>>
      /\ UNCHANGED <<limit, pidfile, top, stopped_at, lost, done>>
  BY DEF CatchHup, history
<1>2. keepalive' \in [Pid -> BOOLEAN] /\ \A q \in Pid : keepalive'[q] => keepalive[q]
  BY DEF CatchHup, StepInv, ProcessOK
<1>3. pending' \in [Pid -> SUBSET Sig]
  BY DEF CatchHup, StepInv, ProcessOK
<1>4. StepInv'
  BY <1>1, <1>2, <1>3, StayKeeps DEF StepInv, ProcessOK, RestOK
<1>5. Counted => Counted'
  BY <1>1, <1>2 DEF Counted, Leads, Works
<1>6. QED
  BY <1>4, <1>5

-----------------------------------------------------------------------------
(* The invariant.                                                           *)

(* One process there, that daemonizes or not.                               *)
LEMMA InitHolds ==
    ASSUME SupervisorAssumption, Init
    PROVE  StepInv /\ (LimitFrom = "argv" => Counted)
<1>1. PICK k \in BOOLEAN :
        (LimitFrom = "argv" /\ limit # 0 => ~k) /\ keepalive = [p \in Pid |-> k]
  BY DEF Init
<1>2. /\ pc = [p \in Pid |-> IF p # First THEN "free"
                             ELSE IF Daemon THEN "daemonize" ELSE "reg_sighandlers"]
      /\ parent = [p \in Pid |-> Nobody]
      /\ ret = [p \in Pid |-> 0] /\ child_pid = [p \in Pid |-> -1]
      /\ limit \in {0, Limit} /\ removes = [p \in Pid |-> FALSE]
      /\ jobs_completed = [p \in Pid |-> 0] /\ pending = [p \in Pid |-> {}]
      /\ pidfile = Nobody /\ top = Nobody /\ stopped_at = "nowhere" /\ lost = FALSE
      /\ done = 0
  BY DEF Init
<1>3. /\ 0 \in 0 .. MaxPid /\ 0 \in -1 .. MaxPid /\ -1 \in -1 .. MaxPid /\ 0 \in 0 .. Limit
      /\ 0 \in 0 .. Limit + 1 /\ Limit \in Nat /\ Limit > 0 /\ Nobody = 0
  BY PidFacts DEF Nobody
<1>4. ProcessOK
  <2>1. pc \in [Pid -> Place]
    BY <1>2 DEF Place
  <2>2. /\ parent \in [Pid -> 0 .. MaxPid] /\ ret \in [Pid -> -1 .. MaxPid]
        /\ child_pid \in [Pid -> -1 .. MaxPid]
    BY <1>2, <1>3
  <2>3. jobs_completed \in [Pid -> 0 .. Limit] /\ removes \in [Pid -> BOOLEAN]
    BY <1>2, <1>3
  <2>4. pending \in [Pid -> SUBSET Sig]
    BY <1>2
  <2>5. keepalive \in [Pid -> BOOLEAN]
    BY <1>1
  <2>6. QED
    BY <2>1, <2>2, <2>3, <2>4, <2>5 DEF ProcessOK
<1>5. RestOK
  BY <1>2, <1>3 DEF RestOK
<1>6. /\ \A p \in Pid : pc[p] \in {"free", "daemonize", "reg_sighandlers"}
      /\ \A p \in Pid : pc[p] # "free" => p = First
  BY <1>2
<1>7. \A p \in Pid : ~Works(p) /\ (Leads(p) => p = First)
  BY <1>6 DEF Works, Leads
<1>8. \A p, q \in Pid : parent[q] # p
  BY <1>2, <1>3, PidFacts
<1>9. Lineage
  BY <1>7, <1>8 DEF Lineage
<1>10. PidFileInv
  BY <1>2, <1>3 DEF PidFileInv
<1>11. ASSUME LimitFrom = "argv" PROVE Counted
  <2>1. SUFFICES ASSUME limit # 0
                 PROVE  /\ \A p \in Pid : ~keepalive[p] /\ pc[p] \notin {"forked", "wait", "sleep"}
                        /\ \A p \in Pid : Leads(p) => done = 0 /\ jobs_completed[p] = 0
                        /\ done <= limit
    BY <1>7 DEF Counted
  <2>2. \A p \in Pid : ~keepalive[p]
    BY <1>1, <1>11, <2>1
  <2>3. \A p \in Pid : pc[p] \notin {"forked", "wait", "sleep"}
    BY <1>6
  <2>4. done <= limit
    BY <1>2, <1>3, <2>1
  <2>5. QED
    BY <1>2, <2>2, <2>3, <2>4
<1>12. QED
  BY <1>4, <1>5, <1>9, <1>10, <1>11 DEF StepInv

(* Every step of every process keeps it.                                    *)
LEMMA NextKeeps ==
    ASSUME SupervisorAssumption, StepInv, [Next]_vars
    PROVE  StepInv' /\ (Counted => Counted')
<1>1. CASE UNCHANGED vars
  <2>1. /\ UNCHANGED <<pc, parent, ret, child_pid, keepalive, removes, jobs_completed, pending>>
        /\ UNCHANGED <<limit, pidfile, top, stopped_at, lost, done>>
    BY <1>1 DEF vars, process, history
  <2>2. StepInv'
    BY <2>1, StayKeeps DEF StepInv, ProcessOK, RestOK
  <2>3. QED
    BY <2>1, <2>2 DEF Counted, Leads, Works
<1>2. CASE Kill
  BY <1>2, KillKeeps
<1>3. ASSUME NEW p \in Pid, Supervise(p) PROVE StepInv' /\ (Counted => Counted')
  BY <1>3, DaemonizeKeeps, CreatePidfileKeeps, KeepAliveKeeps, ForkedKeeps, WaitKeeps, SleepKeeps,
     NoKeepAliveKeeps, AfterLoopKeeps DEF Supervise
<1>4. ASSUME NEW p \in Pid, Iteration(p) PROVE StepInv' /\ (Counted => Counted')
  BY <1>4, IterationKeeps
<1>5. ASSUME NEW p \in Pid, Dies(p) \/ Crash(p) PROVE StepInv' /\ (Counted => Counted')
  BY <1>5, DiesKeeps
<1>6. ASSUME NEW p \in Pid, Catch(p) PROVE StepInv' /\ (Counted => Counted')
  BY <1>6, CatchEndKeeps, CatchHupKeeps DEF Catch
<1>7. QED
  BY <1>1, <1>2, <1>3, <1>4, <1>5, <1>6 DEF Next

(* Whatever dies, one leads, one works, and the pid file is accounted for.  *)
THEOREM SupervisorInvariant ==
    ASSUME SupervisorAssumption PROVE Spec => []StepInv
<1>1. Init => StepInv
  BY InitHolds
<1>2. StepInv /\ [Next]_vars => StepInv'
  BY NextKeeps
<1>3. QED
  BY <1>1, <1>2, PTL DEF Spec

(* The pid file names a process that is there, unless that process was      *)
(* stopped by a signal or crashed (maybe_daemonize, fm_remove_pidfile).     *)
THEOREM SupervisorPidFileIsTrue ==
    ASSUME SupervisorAssumption PROVE Spec => []PidFileIsTrue
<1>1. StepInv => PidFileIsTrue
  BY DEF StepInv, PidFileInv, PidFileIsTrue, Watches, Alive
<1>2. QED
  BY <1>1, SupervisorInvariant, PTL

(* The type invariant and mutual exclusion, from the parts.                 *)
LEMMA OneWorksHolds ==
    ASSUME StepInv PROVE SupervisorTypeOK /\ OneWorks
<1>1. SupervisorTypeOK
  BY DEF StepInv, ProcessOK, RestOK, SupervisorTypeOK, Place, Sig
<1>2. OneWorks
  <2> DEFINE W == {p \in Pid : Works(p)}
  <2>1. CASE W = {}
    BY <2>1, FS_EmptySet DEF OneWorks
  <2>2. CASE W # {}
    <3>1. PICK p \in Pid : Works(p)
      BY <2>2
    <3>2. W = {p}
      BY <3>1 DEF StepInv, Lineage
    <3>3. Cardinality(W) = 1
      BY <3>2, FS_Singleton
    <3>4. QED
      BY <3>3 DEF OneWorks
  <2>3. QED
    BY <2>1, <2>2
<1>3. QED
  BY <1>1, <1>2

(* No two processes run the main loop at a time, and a limit given on the   *)
(* command line is kept by all of them together (maybe_daemonize,           *)
(* mainloop).  A limit from the configuration file is not: see              *)
(* LimitFromFileHolds.                                                      *)
THEOREM SupervisorOneProbe ==
    ASSUME SupervisorAssumption, LimitFrom = "argv" PROVE Spec => []OneProbe
<1>1. Init => StepInv /\ Counted
  BY InitHolds
<1>2. (StepInv /\ Counted) /\ [Next]_vars => (StepInv /\ Counted)'
  BY NextKeeps
<1>3. StepInv /\ Counted => OneProbe
  BY OneWorksHolds DEF Counted, OneProbe, LimitHolds
<1>4. QED
  BY <1>1, <1>2, <1>3, PTL DEF Spec

(* Wherever the limit comes from, no two processes run the main loop.       *)
THEOREM SupervisorOneWorks ==
    ASSUME SupervisorAssumption PROVE Spec => [](SupervisorTypeOK /\ OneWorks)
  BY SupervisorInvariant, OneWorksHolds, PTL
=============================================================================
