----------------------------- MODULE Supervisor -----------------------------
(***************************************************************************)
(* The probe's processes: sys/unix/daemon.c puts it in the background,     *)
(* maybe_daemonize (main.c) writes the pid file and keeps a child alive,   *)
(* mainloop works until its limit, and signal handlers end it.             *)
(*                                                                         *)
(* Every process has its own copy of the program's statics.  Process       *)
(* numbers are used again when a process is gone and was waited for.       *)
(***************************************************************************)
EXTENDS Integers, FiniteSets

CONSTANTS
    MaxPid,         \* processes are 1 .. MaxPid
    Limit,          \* a limit-runs other than 0
    LimitFrom,      \* where it is given: "argv" or "file"
    Daemon,         \* the option daemon
    HupTurnsOff,    \* whether the file that SIGHUP reads turns keepalive off
    ForkFails, Crashes, Signals     \* what may happen

SupervisorAssumption ==
    /\ MaxPid \in Nat \ {0} /\ Limit \in Nat \ {0} /\ LimitFrom \in {"argv", "file"}
    /\ {Daemon, HupTurnsOff, ForkFails, Crashes, Signals} \subseteq BOOLEAN

Pid == 1 .. MaxPid
Nobody == 0

Place == {"free", "zombie", "daemonize", "forked_1", "setsid", "forked_2",
          "reg_sighandlers", "keepalive", "forked", "wait", "sleep", "after", "mainloop"}

VARIABLES
    pc,             \* where every process is
    parent,         \* its parent, or Nobody
    ret,            \* what fork() returned to it
    child_pid,      \* its child_pid
    keepalive,      \* its option keepalive
    removes,        \* whether it has called atexit(fm_remove_pidfile)
    jobs_completed, \* its jobs_completed
    pending,        \* signals sent to it
    limit,          \* the option limit-runs
    pidfile,        \* what the pid file says
    top,            \* history: the process that wrote it
    stopped_at,     \* history: where that process was when it was told to stop
    lost,           \* history: it did not get to remove the file
    done            \* history: iterations completed by all of them

process == <<pc, parent, ret, child_pid, keepalive, removes, jobs_completed, pending>>
history == <<top, stopped_at, lost, done>>
vars == <<process, limit, pidfile, history>>

First == 1

Init ==
    /\ pc = [p \in Pid |-> IF p # First THEN "free"
                           ELSE IF Daemon THEN "daemonize" ELSE "reg_sighandlers"]
    /\ parent = [p \in Pid |-> Nobody]
    /\ ret = [p \in Pid |-> 0] /\ child_pid = [p \in Pid |-> -1]
    /\ limit \in {0, Limit}
    /\ \E k \in BOOLEAN :   \* parse_options turns it off, given a limit
         /\ LimitFrom = "argv" /\ limit # 0 => ~k
         /\ keepalive = [p \in Pid |-> k]
    /\ removes = [p \in Pid |-> FALSE] /\ jobs_completed = [p \in Pid |-> 0]
    /\ pending = [p \in Pid |-> {}]
    /\ pidfile = Nobody
    /\ top = Nobody /\ stopped_at = "nowhere" /\ lost = FALSE /\ done = 0

-----------------------------------------------------------------------------
(* fork() and exit().                                                      *)

Alive(p) == pc[p] \notin {"free", "zombie"}
Children(p) == {q \in Pid : parent[q] = p}

Goto(p, place) == pc' = [pc EXCEPT ![p] = place]

\* The child is a copy of its parent, and both return from fork().
Fork(p, place) ==
    \E q \in Pid :
        /\ pc[q] = "free"
        /\ pc' = [pc EXCEPT ![p] = place, ![q] = place]
        /\ parent' = [parent EXCEPT ![q] = p]
        /\ ret' = [ret EXCEPT ![p] = q, ![q] = 0]
        /\ child_pid' = [child_pid EXCEPT ![q] = child_pid[p]]
        /\ keepalive' = [keepalive EXCEPT ![q] = keepalive[p]]
        /\ removes' = [removes EXCEPT ![q] = removes[p]]
        /\ jobs_completed' = [jobs_completed EXCEPT ![q] = jobs_completed[p]]
        /\ pending' = [pending EXCEPT ![q] = {}]

ForkReturnsError(p, place) ==
    /\ ForkFails
    /\ Goto(p, place) /\ ret' = [ret EXCEPT ![p] = -1]
    /\ UNCHANGED <<parent, child_pid, keepalive, removes, jobs_completed, pending>>

\* The process is gone; its parent, if there is one, may wait for it.  sent is
\* what it sent to others before.
Gone(p, sent) ==
    /\ pc' = [q \in Pid |->
                IF q = p THEN IF parent[p] = Nobody THEN "free" ELSE "zombie"
                ELSE IF parent[q] = p /\ pc[q] = "zombie" THEN "free" ELSE pc[q]]
    /\ parent' = [q \in Pid |-> IF parent[q] = p THEN Nobody ELSE parent[q]]
    /\ pending' = [sent EXCEPT ![p] = {}]
    /\ ret' = [ret EXCEPT ![p] = 0] /\ child_pid' = [child_pid EXCEPT ![p] = -1]
    /\ removes' = [removes EXCEPT ![p] = FALSE]
    /\ jobs_completed' = [jobs_completed EXCEPT ![p] = 0]
    /\ UNCHANGED keepalive

\* exit(): what atexit was given is called.
Exits(p, sent) ==
    /\ Gone(p, sent)
    /\ pidfile' = IF removes[p] THEN Nobody ELSE pidfile

\* The end of a process that had no say in it.
Killed(p) == Gone(p, pending) /\ UNCHANGED pidfile

-----------------------------------------------------------------------------
(* unix_daemonize.                                                         *)

\* The parent leaves with _exit, the child goes on; without one, p_exit.
AfterFork(p, next) ==
    IF ret[p] = 0 THEN /\ Goto(p, next) /\ UNCHANGED <<parent, ret, child_pid, keepalive,
                            removes, jobs_completed, pending, pidfile>>
    ELSE IF ret[p] > 0 THEN Killed(p)
    ELSE Exits(p, pending)

Daemonize(p) ==
    /\ \/ pc[p] = "daemonize" /\ (Fork(p, "forked_1") \/ ForkReturnsError(p, "forked_1"))
          /\ UNCHANGED pidfile
       \/ pc[p] = "forked_1" /\ AfterFork(p, "setsid")
       \/ pc[p] = "setsid" /\ (Fork(p, "forked_2") \/ ForkReturnsError(p, "forked_2"))
          /\ UNCHANGED pidfile
       \/ pc[p] = "setsid" /\ Exits(p, pending)   \* chdir or setsid fails
       \/ pc[p] = "forked_2" /\ AfterFork(p, "reg_sighandlers")
    /\ UNCHANGED <<limit, history>>

-----------------------------------------------------------------------------
(* maybe_daemonize.                                                        *)

\* reg_sighandlers and fm_create_pidfile; a file that cannot be written is not
\* missed.
CreatePidfile(p) ==
    /\ pc[p] = "reg_sighandlers" /\ Goto(p, "keepalive")
    /\ pidfile' \in {p, Nobody}
    /\ top' = p
    /\ UNCHANGED <<parent, ret, child_pid, keepalive, removes, jobs_completed, pending,
                   limit, stopped_at, lost, done>>

\* while (read_int_opt("keepalive") && fork() ...
KeepAlive(p) ==
    /\ pc[p] = "keepalive" /\ keepalive[p]
    /\ Fork(p, "forked") \/ ForkReturnsError(p, "forked")
    /\ UNCHANGED <<limit, pidfile, history>>

\* ... (child_pid = fork()) > 0)
Forked(p) ==
    /\ pc[p] = "forked"
    /\ child_pid' = [child_pid EXCEPT ![p] = ret[p]]
    /\ Goto(p, IF ret[p] > 0 THEN "wait" ELSE "after")
    /\ UNCHANGED <<parent, ret, keepalive, removes, jobs_completed, pending, limit, pidfile,
                   history>>

\* Mutant: it does not wait for its child.
WaitAny(p) ==
    /\ pc[p] = "wait" /\ Goto(p, "sleep")
    /\ UNCHANGED <<parent, ret, child_pid, keepalive, removes, jobs_completed, pending, limit,
                   pidfile, history>>

\* Mutant: a dead child is not waited for, so none is forked again.
WaitForEver(p) ==
    /\ pc[p] = "wait" /\ Goto(p, "wait")
    /\ UNCHANGED <<parent, ret, child_pid, keepalive, removes, jobs_completed, pending, limit,
                   pidfile, history>>

\* wait(NULL)
Wait(p) ==
    /\ pc[p] = "wait"
    /\ \E q \in Children(p) :
         /\ pc[q] = "zombie"
         /\ pc' = [pc EXCEPT ![q] = "free", ![p] = "sleep"]
         /\ parent' = [parent EXCEPT ![q] = Nobody]
    /\ UNCHANGED <<ret, child_pid, keepalive, removes, jobs_completed, pending, limit,
                   pidfile, history>>

Sleep(p) ==
    /\ pc[p] = "sleep" /\ Goto(p, "keepalive")
    /\ UNCHANGED <<parent, ret, child_pid, keepalive, removes, jobs_completed, pending, limit,
                   pidfile, history>>

\* keepalive is off: the process does the work itself.
NoKeepAlive(p) ==
    /\ pc[p] = "keepalive" /\ ~keepalive[p] /\ Goto(p, "after")
    /\ UNCHANGED <<parent, ret, child_pid, keepalive, removes, jobs_completed, pending, limit,
                   pidfile, history>>

\* Mutant: atexit is forgotten.
AfterLoopNone(p) ==
    /\ pc[p] = "after" /\ Goto(p, "mainloop")
    /\ pidfile' = IF keepalive[p] /\ child_pid[p] # 0 THEN Nobody ELSE pidfile
    /\ UNCHANGED <<parent, ret, child_pid, keepalive, removes, jobs_completed, pending, limit,
                   history>>

\* The option is read once more; with it, a process that is no child could not
\* fork.
AfterLoop(p) ==
    /\ pc[p] = "after" /\ Goto(p, "mainloop")
    /\ IF keepalive[p]
       THEN /\ pidfile' = IF child_pid[p] # 0 THEN Nobody ELSE pidfile
            /\ UNCHANGED removes
       ELSE removes' = [removes EXCEPT ![p] = TRUE] /\ UNCHANGED pidfile
    /\ UNCHANGED <<parent, ret, child_pid, keepalive, jobs_completed, pending, limit, history>>

-----------------------------------------------------------------------------
(* mainloop, and main after it.                                            *)

Bounded(n) == IF n > Limit THEN Limit + 1 ELSE n

LimitReached(n) == limit # 0 /\ ~(n < limit)

\* mainiter comes to its end, and sleep to its.
Iteration(p) ==
    LET n == IF limit = 0 THEN 0 ELSE jobs_completed[p] + 1
    IN  /\ pc[p] = "mainloop"
        /\ done' = IF limit = 0 THEN 0 ELSE Bounded(done + 1)
        /\ IF LimitReached(n) THEN Exits(p, pending)
           ELSE /\ jobs_completed' = [jobs_completed EXCEPT ![p] = n]
                /\ UNCHANGED <<pc, parent, ret, child_pid, keepalive, removes, pending, pidfile>>
        /\ UNCHANGED <<limit, top, stopped_at, lost>>

\* do_or_die, or subsystems_init failing.
Dies(p) ==
    /\ Crashes /\ pc[p] = "mainloop" /\ Exits(p, pending)
    /\ UNCHANGED <<limit, history>>

Crash(p) ==
    /\ Crashes /\ pc[p] = "mainloop" /\ Killed(p)
    /\ lost' = (lost \/ p = top)
    /\ UNCHANGED <<limit, top, stopped_at, done>>

-----------------------------------------------------------------------------
(* Signals.  SIGTERM stands for SIGINT as well.                            *)

Handles(p) == Alive(p) /\ pc[p] \notin {"daemonize", "forked_1", "setsid", "forked_2",
                                        "reg_sighandlers"}

Send(p, sig) == IF Alive(p) THEN [pending EXCEPT ![p] = @ \cup {sig}] ELSE pending

\* The init script's stop and reload, and anybody's kill -CONT.
Kill ==
    /\ Signals
    /\ \/ /\ pidfile # Nobody
          /\ \E sig \in {"TERM", "HUP"} : pending' = Send(pidfile, sig)
       \/ \E p \in Pid : Handles(p) /\ pending' = Send(p, "CONT")
    /\ UNCHANGED <<pc, parent, ret, child_pid, keepalive, removes, jobs_completed, limit,
                   pidfile, history>>

Stopped(p) ==
    /\ stopped_at' = IF p = top THEN pc[p] ELSE stopped_at
    /\ lost' = (lost \/ p = top)
    /\ UNCHANGED <<limit, top, done>>

\* Mutant: the child is left alone.
CatchTermAlone(p) == Handles(p) /\ "TERM" \in pending[p] /\ Exits(p, pending) /\ Stopped(p)

CatchTerm(p) ==
    /\ Handles(p) /\ "TERM" \in pending[p]
    /\ Exits(p, IF child_pid[p] > 0 THEN Send(child_pid[p], "TERM") ELSE pending)
    /\ Stopped(p)

CatchCont(p) ==
    /\ Handles(p) /\ "CONT" \in pending[p]
    /\ Exits(p, pending)
    /\ lost' = (lost \/ p = top)
    /\ UNCHANGED <<limit, top, stopped_at, done>>

\* The file may turn keepalive off, if it is the first that is read.
CatchHup(p) ==
    /\ Handles(p) /\ "HUP" \in pending[p]
    /\ pending' = [pending EXCEPT ![p] = @ \ {"HUP"}]
    /\ \/ UNCHANGED keepalive
       \/ HupTurnsOff /\ keepalive' = [keepalive EXCEPT ![p] = FALSE]
    /\ UNCHANGED <<pc, parent, ret, child_pid, removes, jobs_completed, limit, pidfile, history>>

Supervise(p) ==
    \/ Daemonize(p) \/ CreatePidfile(p) \/ KeepAlive(p) \/ Forked(p) \/ Wait(p) \/ Sleep(p)
    \/ NoKeepAlive(p) \/ AfterLoop(p)

Catch(p) == CatchTerm(p) \/ CatchCont(p) \/ CatchHup(p)

Next ==
    \/ \E p \in Pid : Supervise(p) \/ Iteration(p) \/ Dies(p) \/ Crash(p) \/ Catch(p)
    \/ Kill

Spec == Init /\ [][Next]_vars

\* The kernel runs every process, delivers signals, and an iteration ends.
FairSpec ==
    /\ Spec
    /\ \A p \in Pid : WF_vars(Supervise(p)) /\ WF_vars(Iteration(p)) /\ WF_vars(Catch(p))

-----------------------------------------------------------------------------
(* Properties.                                                             *)

\* Every variable is in its domain.
SupervisorTypeOK ==
    /\ pc \in [Pid -> Place]
    /\ parent \in [Pid -> 0 .. MaxPid] /\ ret \in [Pid -> -1 .. MaxPid]
    /\ child_pid \in [Pid -> -1 .. MaxPid]
    /\ keepalive \in [Pid -> BOOLEAN] /\ removes \in [Pid -> BOOLEAN]
    /\ jobs_completed \in [Pid -> 0 .. Limit]
    /\ pending \in [Pid -> SUBSET {"TERM", "HUP", "CONT"}]
    /\ limit \in {0, Limit} /\ pidfile \in 0 .. MaxPid /\ top \in 0 .. MaxPid
    /\ stopped_at \in Place \cup {"nowhere"} /\ lost \in BOOLEAN /\ done \in 0 .. Limit + 1

Works(p) == pc[p] \in {"after", "mainloop"} \/ (pc[p] = "forked" /\ ret[p] = 0)
Watches(p) == pc[p] \in {"keepalive", "wait", "sleep"} \/ (pc[p] = "forked" /\ ret[p] # 0)

\* No two processes run the main loop at a time, whoever dies, is stopped, told
\* to read its file again, or fails to fork (they would take the same jobs with
\* the same id).
OneWorks == Cardinality({p \in Pid : Works(p)}) <= 1

\* A limit given on the command line is the number of iterations there will be,
\* in all processes together.
LimitHolds == limit # 0 => done <= limit

\* At most one process runs mainloop, and a limit from the command line counts the
\* iterations of all of them (maybe_daemonize, mainloop).
OneProbe == SupervisorTypeOK /\ OneWorks /\ LimitHolds

\* As long as the process that keeps watch is there, some process does the work
\* again and again.
KeepsAlive == \A p \in Pid : Watches(p) ~> (\E q \in Pid : Works(q)) \/ ~Alive(p)

\* The pid file names a process that is there, unless that process was stopped by
\* a signal or crashed.
PidFileIsTrue == pidfile # Nobody /\ ~lost => Alive(pidfile)

\* Only the process that wrote the pid file removes it: the death of a child does
\* not.
PidFileIsTops ==
    [][pidfile # Nobody /\ pidfile' = Nobody => pc'[top] # pc[top]]_vars

\* When the init script stops the process that keeps watch, the probe ends as
\* well, unless the signal comes between fork() and the assignment of its result.
StopStops ==
    stopped_at \notin {"nowhere", "forked"} ~> \A p \in Pid : ~Alive(p)

-----------------------------------------------------------------------------
(* What the documents say, and the code does not do.                       *)

\* "Exit after a certain number of iterations." (options.c:81), for a limit that
\* the configuration file gives.
LimitFromFileHolds == limit # 0 => done <= limit

\* "Make sure the probe survives" (options.c:85): with keepalive it is not gone
\* for good unless somebody stops it.
Survives == keepalive[First] => \E p \in Pid : Alive(p)

\* "Caught TERM.  Cleaning up..." (main.c:337): what catch_term ends is ended
\* with its child.
TermStopsAll == stopped_at # "nowhere" ~> \A p \in Pid : ~Alive(p)

\* "Caught TERM.  Cleaning up..." (main.c:337): the pid file is removed.
TermRemovesPidFile == stopped_at # "nowhere" => pidfile = Nobody

=============================================================================
