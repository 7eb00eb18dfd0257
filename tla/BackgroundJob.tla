--------------------------- MODULE BackgroundJob ---------------------------
(***************************************************************************)
(* A background job of the GUI has a directory with a status file, and     *)
(* runs as a process of its own (background_job.py).  Requests of users    *)
(* start it, stop it and delete it; one lock keeps starts apart, and the   *)
(* status file is read and written by all of them and by the process.      *)
(* The model has one job.  Process ids are never used again; rmtree is one *)
(* step, and so is each reading of the status together with its look at    *)
(* the process table.                                                      *)
(***************************************************************************)
EXTENDS Naturals

CONSTANTS Request,     \* requests of users, and runs of the housekeeping
          Process,     \* processes that the job has over time
          None         \* no file, no process, no request

VARIABLES stoppable, \* the option of the job
          dir,     \* the work directory exists
          status,  \* jobstatus.mk, or None
          lock,    \* the request that holds job_initialization.lock
          jpc,     \* step of a process of the job
          next,    \* the state that it is about to write
          term,    \* processes with a SIGTERM that they have not handled
          rpc,     \* step of a request
          op,      \* what it is for
          target,  \* the process that it stops
          raced    \* history: one of the races named below has happened

filevars == <<dir, status, lock>>
jobvars == <<jpc, next, term>>
requestvars == <<rpc, op, target>>
vars == <<stoppable, filevars, jobvars, requestvars, raced>>

Final == {"finished", "exception", "stopped"}
State == {"initialized", "running"} \cup Final
\* age: "started" in the file, less than five seconds ago, longer, or missing.
Status == [state : State, pid : Process \cup {None}, age : {"young", "old", "missing"}]

ASSUME NoneAssumption == None \notin Request \cup Process /\ None \notin Status

Init == /\ stoppable \in BOOLEAN
        /\ dir = FALSE /\ status = None /\ lock = None
        /\ jpc = [i \in Process |-> "none"]
        /\ next = [i \in Process |-> "running"]
        /\ term = {}
        /\ rpc = [r \in Request |-> "new"]
        /\ op = [r \in Request |-> "none"]
        /\ target = [r \in Request |-> None]
        /\ raced = FALSE

Alive(i) == jpc[i] \notin {"none", "done"}

\* get_status shows a job as stopped whose process is gone; a job without a
\* process id is taken for running in the first five seconds.
IsRunning == /\ dir /\ status # None
             /\ status.state \notin Final
             /\ \/ status.state = "initialized" /\ status.age = "young"
                \/ status.pid # None /\ Alive(status.pid)

\* JobStatus.update_status behind its check for the directory, which
\* aquire_lock creates again.
Blank == [state |-> "initialized", pid |-> None, age |-> "missing"]
Written == IF status = None THEN Blank ELSE status
UpdateStatus(new) == dir' = TRUE /\ status' = new

\* Five seconds pass.
Age ==
    /\ status # None /\ status.age = "young"
    /\ status' = [status EXCEPT !.age = "old"]
    /\ UNCHANGED <<stoppable, dir, lock, jobvars, requestvars, raced>>

-----------------------------------------------------------------------------
\* BackgroundProcess.run

\* Nobody takes the lock of the initialization.
BugLockFree == \A i \in Process : jpc[i] # "forked"

\* The file of the lock is inherited: it is free when all have closed it.
LockFree == lock = None /\ \A i \in Process : jpc[i] # "forked"

CloseFds(i) ==
    /\ jpc[i] = "forked"
    /\ jpc' = [jpc EXCEPT ![i] = "init"]
    /\ UNCHANGED <<stoppable, filevars, next, term, requestvars, raced>>

\* The state of the starting request is kept.
BugInitializeEnvironment(i) ==
    /\ jpc[i] = "init"
    /\ jpc' = [jpc EXCEPT ![i] = "update"]
    /\ next' = [next EXCEPT ![i] = IF dir THEN "initialized" ELSE "exception"]
    /\ UNCHANGED <<stoppable, filevars, term, requestvars, raced>>

\* initialize_environment opens a file in the work directory.
InitializeEnvironment(i) ==
    /\ jpc[i] = "init"
    /\ jpc' = [jpc EXCEPT ![i] = "update"]
    /\ next' = [next EXCEPT ![i] = IF dir THEN "running" ELSE "exception"]
    /\ UNCHANGED <<stoppable, filevars, term, requestvars, raced>>

AfterUpdate(i) == IF next[i] = "running" THEN "function" ELSE "done"

UpdateCheck(i) ==
    /\ jpc[i] = "update"
    /\ jpc' = [jpc EXCEPT ![i] = IF dir THEN "write" ELSE AfterUpdate(i)]
    /\ UNCHANGED <<stoppable, filevars, next, term, requestvars, raced>>

\* The process does not write its id.
BugUpdateWrite(i) ==
    /\ jpc[i] = "write"
    /\ UpdateStatus([Written EXCEPT !.state = next[i]])
    /\ jpc' = [jpc EXCEPT ![i] = AfterUpdate(i)]
    /\ UNCHANGED <<stoppable, lock, next, term, requestvars, raced>>

UpdateWrite(i) ==
    /\ jpc[i] = "write"
    /\ UpdateStatus([Written EXCEPT !.state = next[i],
                                    !.pid = IF next[i] = "running" THEN i ELSE @])
    /\ jpc' = [jpc EXCEPT ![i] = AfterUpdate(i)]
    /\ UNCHANGED <<stoppable, lock, next, term, requestvars, raced>>

\* The function has come back; the duration is computed from "started".
FunctionEnds(i, state) ==
    /\ jpc[i] = "function"
    /\ state = "exception" \/ (state = "finished" /\ Written.age # "missing")
    /\ jpc' = [jpc EXCEPT ![i] = "update"]
    /\ next' = [next EXCEPT ![i] = state]
    /\ UNCHANGED <<stoppable, filevars, term, requestvars, raced>>

\* _handle_sigterm raises MKTerminate.  The function may swallow it, since it
\* is an Exception; in the handlers of run() nobody catches it.
HandleSigterm(i) ==
    /\ i \in term /\ jpc[i] \in {"update", "write", "function"}
    /\ term' = term \ {i}
    /\ \/ ~stoppable /\ status # None /\ UNCHANGED <<jpc, next>>
       \/ /\ stoppable \/ status = None
          /\ \/ /\ jpc[i] = "function" \/ next[i] # "stopped"
                /\ jpc' = [jpc EXCEPT ![i] = "update"]
                /\ next' = [next EXCEPT ![i] = "stopped"]
             \/ jpc[i] = "function" /\ UNCHANGED <<jpc, next>>
             \/ /\ jpc[i] # "function" /\ next[i] \in {"stopped", "exception"}
                /\ jpc' = [jpc EXCEPT ![i] = "done"]
                /\ UNCHANGED next
    /\ UNCHANGED <<stoppable, filevars, requestvars, raced>>

\* The process dies by itself.
Dies(i) ==
    /\ Alive(i)
    /\ jpc' = [jpc EXCEPT ![i] = "done"]
    /\ UNCHANGED <<stoppable, filevars, next, term, requestvars, raced>>

-----------------------------------------------------------------------------
\* BackgroundJob.start
Goto(r, step) == rpc' = [rpc EXCEPT ![r] = step]

Start(r) ==
    /\ rpc[r] = "new"
    /\ Goto(r, "lock")
    /\ op' = [op EXCEPT ![r] = "start"]
    /\ UNCHANGED <<stoppable, filevars, jobvars, target, raced>>

AcquireLock(r) ==
    /\ rpc[r] = "lock" /\ LockFree
    /\ lock' = r
    /\ Goto(r, "check")
    /\ UNCHANGED <<stoppable, dir, status, jobvars, op, target, raced>>

Late == status # None /\ status.state = "initialized" /\ status.age = "old"

\* raced: a process has needed more than five seconds to write its id.
StartCheck(r) ==
    /\ rpc[r] = "check"
    /\ IF IsRunning THEN Goto(r, "done") /\ lock' = None
                    ELSE Goto(r, "prepare") /\ UNCHANGED lock
    /\ raced' = (raced \/ (Late /\ \E i \in Process : Alive(i)))
    /\ UNCHANGED <<stoppable, dir, status, jobvars, op, target>>

\* _prepare_work_dir: rmtree ...
DeleteWorkDir(r) ==
    /\ rpc[r] = "prepare"
    /\ dir' = FALSE /\ status' = None
    /\ Goto(r, "makedirs")
    /\ UNCHANGED <<stoppable, lock, jobvars, op, target, raced>>

\* The failure leaves the lock behind.
BugMakeWorkDir(r) ==
    /\ rpc[r] = "makedirs"
    /\ dir' = TRUE
    /\ Goto(r, IF dir THEN "done" ELSE "initial")
    /\ UNCHANGED <<stoppable, status, lock, jobvars, op, target, raced>>

\* ... and makedirs, which fails if somebody has created it again.
MakeWorkDir(r) ==
    /\ rpc[r] = "makedirs"
    /\ dir' = TRUE
    /\ IF dir THEN Goto(r, "done") /\ lock' = None ELSE Goto(r, "initial") /\ UNCHANGED lock
    /\ UNCHANGED <<stoppable, status, jobvars, op, target, raced>>

InitialStatus(r) ==
    /\ rpc[r] = "initial"
    /\ IF dir THEN UpdateStatus([Written EXCEPT !.state = "initialized", !.age = "young"])
              ELSE UNCHANGED <<dir, status>>
    /\ Goto(r, "fork")
    /\ UNCHANGED <<stoppable, lock, jobvars, op, target, raced>>

Fork(r, i) ==
    /\ rpc[r] = "fork" /\ jpc[i] = "none"
    /\ jpc' = [jpc EXCEPT ![i] = "forked"]
    /\ lock' = None
    /\ Goto(r, "done")
    /\ UNCHANGED <<stoppable, dir, status, next, term, op, target, raced>>

ForkFails(r) ==
    /\ rpc[r] = "fork"
    /\ lock' = None
    /\ Goto(r, "done")
    /\ UNCHANGED <<stoppable, dir, status, jobvars, op, target, raced>>

-----------------------------------------------------------------------------
\* BackgroundJob.stop and delete, and the housekeeping, which deletes.
Stop(r) ==
    /\ rpc[r] = "new" /\ dir
    /\ op' = [op EXCEPT ![r] = "stop"]
    /\ Goto(r, IF IsRunning /\ stoppable THEN "terminate" ELSE "done")
    /\ UNCHANGED <<stoppable, filevars, jobvars, target, raced>>

Delete(r) ==
    /\ rpc[r] = "new" /\ dir
    /\ op' = [op EXCEPT ![r] = "delete"]
    /\ Goto(r, IF IsRunning /\ ~stoppable THEN "done" ELSE "terminate")
    /\ UNCHANGED <<stoppable, filevars, jobvars, target, raced>>

\* _terminate_processes: the process that the status names gets a SIGTERM.
\* raced: it has not yet written its id, so that nobody stops it.
Known == status # None /\ status.pid # None

Terminate(r) ==
    /\ rpc[r] = "terminate"
    /\ IF Known /\ Alive(status.pid)
       THEN /\ term' = term \cup {status.pid}
            /\ target' = [target EXCEPT ![r] = status.pid]
            /\ Goto(r, "wait")
       ELSE /\ UNCHANGED <<term, target>>
            /\ Goto(r, "finish")
    /\ raced' = (raced \/ (~Known /\ \E i \in Process : Alive(i)))
    /\ UNCHANGED <<stoppable, filevars, jpc, next, op>>

\* SIGTERM is taken for the end of the process.
BugWaitEnds(r) ==
    /\ rpc[r] = "wait"
    /\ Goto(r, "finish")
    /\ UNCHANGED <<stoppable, filevars, jobvars, op, target, raced>>

WaitEnds(r) ==
    /\ rpc[r] = "wait" /\ ~Alive(target[r])
    /\ Goto(r, "finish")
    /\ UNCHANGED <<stoppable, filevars, jobvars, op, target, raced>>

\* Ten seconds have passed: SIGKILL.
Kill(r) ==
    /\ rpc[r] = "wait" /\ Alive(target[r])
    /\ jpc' = [jpc EXCEPT ![target[r]] = "done"]
    /\ Goto(r, "finish")
    /\ UNCHANGED <<stoppable, filevars, next, term, op, target, raced>>

\* stop reads "started" and checks for the directory ...
StopRead(r) ==
    /\ rpc[r] = "finish" /\ op[r] = "stop"
    /\ Goto(r, IF Written.age # "missing" THEN "write" ELSE "done")
    /\ UNCHANGED <<stoppable, filevars, jobvars, op, target, raced>>

\* ... and writes the state.  raced: into the status of the next process.
Other(r) == \/ \E i \in Process : i # target[r] /\ Alive(i)
            \/ \E q \in Request : rpc[q] \in {"initial", "fork"}

StopWrite(r) ==
    /\ rpc[r] = "write"
    /\ UpdateStatus([Written EXCEPT !.state = "stopped"])
    /\ Goto(r, "done")
    /\ raced' = (raced \/ Other(r))
    /\ UNCHANGED <<stoppable, lock, jobvars, op, target>>

\* delete removes the directory.  raced: that of the next process.
DeleteEnds(r) ==
    /\ rpc[r] = "finish" /\ op[r] = "delete"
    /\ dir' = FALSE /\ status' = None
    /\ Goto(r, "done")
    /\ raced' = (raced \/ Other(r))
    /\ UNCHANGED <<stoppable, lock, jobvars, op, target>>

-----------------------------------------------------------------------------
Work(r) == \/ AcquireLock(r) \/ StartCheck(r) \/ DeleteWorkDir(r) \/ MakeWorkDir(r)
           \/ InitialStatus(r) \/ (\E i \in Process : Fork(r, i)) \/ ForkFails(r)
           \/ Terminate(r) \/ WaitEnds(r) \/ Kill(r) \/ StopRead(r) \/ StopWrite(r)
           \/ DeleteEnds(r)

Run(i) == \/ CloseFds(i) \/ InitializeEnvironment(i) \/ UpdateCheck(i) \/ UpdateWrite(i)
          \/ (\E state \in Final : FunctionEnds(i, state)) \/ HandleSigterm(i)

Next == \/ Age
        \/ \E r \in Request : Start(r) \/ Stop(r) \/ Delete(r) \/ Work(r)
        \/ \E i \in Process : Run(i) \/ Dies(i)

\* A request goes on, and a new process gets to its first instructions.
Fairness == /\ \A r \in Request : WF_vars(Work(r))
            /\ \A i \in Process : WF_vars(CloseFds(i))

Spec == Init /\ [][Next]_vars
FairSpec == Spec /\ Fairness

-----------------------------------------------------------------------------
TypeOK ==
    /\ stoppable \in BOOLEAN /\ dir \in BOOLEAN
    /\ status \in Status \cup {None}
    /\ lock \in Request \cup {None}
    /\ jpc \in [Process -> {"none", "forked", "init", "update", "write", "function", "done"}]
    /\ next \in [Process -> State \ {"initialized"}]
    /\ term \in SUBSET Process
    /\ rpc \in [Request -> {"new", "lock", "check", "prepare", "makedirs", "initial", "fork",
                           "terminate", "wait", "finish", "write", "done"}]
    /\ op \in [Request -> {"none", "start", "stop", "delete"}]
    /\ target \in [Request -> Process \cup {None}]
    /\ raced \in BOOLEAN

\* "Background Job already running": the job never runs twice at a time, unless
\* a request met one of the races that are marked in the actions.
OneProcess ==
    raced \/ \A i, j \in Process : Alive(i) /\ Alive(j) => i = j

\* What the GUI shows as ended has ended, so that it may be started again or
\* its directory be deleted: no process of the job is left.
EndedIsOver ==
    raced \/ (status # None /\ status.state \in Final => \A i \in Process : ~Alive(i))

\* A process that executes the function can be found: the status has its id.
Found == raced \/ \A i \in Process : jpc[i] = "function" => dir /\ Known /\ status.pid = i

\* Each request comes to its end, whatever the function does: nobody keeps the
\* lock of the initialization, and who does not react to SIGTERM is killed.
RequestEnds == \A r \in Request : rpc[r] # "new" ~> rpc[r] = "done"
=============================================================================
