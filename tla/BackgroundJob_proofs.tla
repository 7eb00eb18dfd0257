----------------------- MODULE BackgroundJob_proofs ------------------------
(***************************************************************************)
(* Proofs about BackgroundJob, for any number of requests and processes.   *)
(* The safety properties are those of Spec; FairSpec only adds fairness.   *)
(***************************************************************************)
EXTENDS BackgroundJob, TLAPS

\* The steps of a start that hold the lock of the initialization, and those
\* after its check.
Locked == {"check", "prepare", "makedirs", "initial", "fork"}
Preparing == {"prepare", "makedirs", "initial", "fork"}

\* The process has written its id.
HasWritten(i) == jpc[i] = "function" \/ (jpc[i] \in {"update", "write"} /\ next[i] # "running")

LockInv == \A r \in Request : rpc[r] \in Locked => lock = r
DirInv == ~dir => status = None

\* Who is stopped has run, and is done when its request goes on.
TargetInv ==
    \A r \in Request :
        /\ rpc[r] \in {"new", "terminate"} => target[r] = None
        /\ target[r] # None => jpc[target[r]] # "none"
        /\ rpc[r] = "wait" => target[r] # None
        /\ rpc[r] \in {"finish", "write"} => target[r] = None \/ jpc[target[r]] = "done"
BaseInv == TypeOK /\ LockInv /\ DirInv /\ TargetInv

\* As long as no race was met:
Alone == \A i, j \in Process : Alive(i) /\ Alive(j) => i = j

\* the status tells of each process what it is doing,
Shown ==
    \A i \in Process :
        Alive(i) => /\ dir /\ status # None /\ status.age # "missing"
                    /\ HasWritten(i) => status.state = "running" /\ status.pid = i
                    /\ ~HasWritten(i) => status.state = "initialized" /\ status.pid = None

\* only processes that have written their id are sent a signal,
TermInv == \A i \in term : jpc[i] # "none" /\ (Alive(i) => HasWritten(i))

\* and a start that has made its check finds no process and meets nobody.
Fresh ==
    \A r \in Request :
        /\ rpc[r] \in Preparing => \A i \in Process : ~Alive(i)
        /\ rpc[r] = "initial" => dir /\ status = None
        /\ rpc[r] = "fork" => /\ dir /\ status # None /\ status.age # "missing"
                              /\ status.state = "initialized" /\ status.pid = None
RaceInv == ~raced => Alone /\ Shown /\ TermInv /\ Fresh

Inv == BaseInv /\ RaceInv

USE NoneAssumption

-----------------------------------------------------------------------------
\* Initially there is no directory, no process and no race.
LEMMA InitInv == Init => Inv
<1> SUFFICES ASSUME Init PROVE Inv
  OBVIOUS
<1>1. TypeOK
  BY DEF Init, TypeOK, State, Final
<1>2. LockInv /\ DirInv /\ TargetInv
  BY DEF Init, LockInv, DirInv, TargetInv, Locked
<1>3. \A i \in Process : ~Alive(i)
  BY DEF Init, Alive
<1>4. Alone /\ Shown /\ TermInv
  BY <1>3 DEF Alone, Shown, TermInv, Init
<1>5. Fresh
  BY DEF Init, Fresh, Preparing
<1> QED BY <1>1, <1>2, <1>4, <1>5 DEF Inv, BaseInv, RaceInv

\* What is written into the status file is a status.
LEMMA WrittenType == TypeOK => Written \in Status
  BY DEF TypeOK, Written, Blank, Status, State, Final

\* The types are kept by each step of a process.
LEMMA TypeOfProcess ==
  ASSUME TypeOK, NEW i \in Process, Run(i) \/ Dies(i)
  PROVE  TypeOK'
<1>1. CASE CloseFds(i)
  BY <1>1 DEF CloseFds, TypeOK, filevars, requestvars
<1>2. CASE InitializeEnvironment(i)
  BY <1>2 DEF InitializeEnvironment, TypeOK, filevars, requestvars, State, Final
<1>3. CASE UpdateCheck(i)
  BY <1>3 DEF UpdateCheck, AfterUpdate, TypeOK, filevars, requestvars
<1>4. CASE UpdateWrite(i)
  <2>1. [Written EXCEPT !.state = next[i], !.pid = IF next[i] = "running" THEN i ELSE @] \in Status
    BY WrittenType DEF Status, TypeOK
  <2> QED BY <1>4, <2>1 DEF UpdateWrite, UpdateStatus, AfterUpdate, TypeOK, requestvars
<1>5. ASSUME NEW state \in Final, FunctionEnds(i, state) PROVE TypeOK'
  BY <1>5 DEF FunctionEnds, TypeOK, filevars, requestvars, State, Final
<1>6. CASE HandleSigterm(i)
  BY <1>6 DEF HandleSigterm, TypeOK, filevars, requestvars, State, Final
<1>7. CASE Dies(i)
  BY <1>7 DEF Dies, TypeOK, filevars, requestvars
<1> QED BY <1>1, <1>2, <1>3, <1>4, <1>5, <1>6, <1>7 DEF Run

\* The types are kept by each step of a request.
LEMMA TypeOfRequest ==
  ASSUME TypeOK, NEW r \in Request, Start(r) \/ Stop(r) \/ Delete(r) \/ Work(r)
  PROVE  TypeOK'
<1> USE DEF Goto
<1>1. CASE Start(r)
  BY <1>1 DEF Start, TypeOK, filevars, jobvars
<1>2. CASE Stop(r)
  BY <1>2 DEF Stop, TypeOK, filevars, jobvars
<1>3. CASE Delete(r)
  BY <1>3 DEF Delete, TypeOK, filevars, jobvars
<1>4. CASE AcquireLock(r)
  BY <1>4 DEF AcquireLock, TypeOK, jobvars
<1>5. CASE StartCheck(r)
  BY <1>5 DEF StartCheck, TypeOK, jobvars
<1>6. CASE DeleteWorkDir(r)
  BY <1>6 DEF DeleteWorkDir, TypeOK, jobvars
<1>7. CASE MakeWorkDir(r)
  BY <1>7 DEF MakeWorkDir, TypeOK, jobvars
<1>8. CASE InitialStatus(r)
  <2>1. [Written EXCEPT !.state = "initialized", !.age = "young"] \in Status
    BY WrittenType DEF Status, State
  <2> QED BY <1>8, <2>1 DEF InitialStatus, UpdateStatus, TypeOK, jobvars
<1>9. ASSUME NEW i \in Process, Fork(r, i) PROVE TypeOK'
  BY <1>9 DEF Fork, TypeOK
<1>10. CASE ForkFails(r)
  BY <1>10 DEF ForkFails, TypeOK, jobvars
<1>11. CASE Terminate(r)
  <2>1. Known /\ Alive(status.pid) => status.pid \in Process
    BY DEF TypeOK, Status, Known
  <2> QED BY <1>11, <2>1 DEF Terminate, TypeOK, filevars
<1>12. CASE WaitEnds(r)
  BY <1>12 DEF WaitEnds, TypeOK, filevars, jobvars
<1>13. CASE Kill(r)
  BY <1>13 DEF Kill, TypeOK, filevars
<1>14. CASE StopRead(r)
  BY <1>14 DEF StopRead, TypeOK, filevars, jobvars
<1>15. CASE StopWrite(r)
  <2>1. [Written EXCEPT !.state = "stopped"] \in Status
    BY WrittenType DEF Status, State, Final
  <2> QED BY <1>15, <2>1 DEF StopWrite, UpdateStatus, TypeOK, jobvars
<1>16. CASE DeleteEnds(r)
  BY <1>16 DEF DeleteEnds, TypeOK, jobvars
<1> QED BY <1>1, <1>2, <1>3, <1>4, <1>5, <1>6, <1>7, <1>8, <1>9, <1>10, <1>11, <1>12, <1>13, <1>14,
           <1>15, <1>16 DEF Work

\* So the types are kept by every step.
LEMMA TypeStep == TypeOK /\ [Next]_vars => TypeOK'
<1> SUFFICES ASSUME TypeOK, [Next]_vars PROVE TypeOK'
  OBVIOUS
<1>1. CASE Age
  <2>1. status \in Status /\ [status EXCEPT !.age = "old"] \in Status
    BY <1>1 DEF Age, TypeOK, Status
  <2> QED BY <1>1, <2>1 DEF Age, TypeOK, jobvars, requestvars
<1>2. CASE UNCHANGED vars
  BY <1>2 DEF vars, filevars, jobvars, requestvars, TypeOK
<1> QED BY <1>1, <1>2, TypeOfProcess, TypeOfRequest DEF Next

-----------------------------------------------------------------------------
\* A process ends once: who is done or has not begun is not stopped anew.
LEMMA BaseStep == BaseInv /\ [Next]_vars => BaseInv'
<1> SUFFICES ASSUME BaseInv, [Next]_vars PROVE BaseInv'
  OBVIOUS
<1> USE DEF Goto
<1>1. TypeOK /\ TypeOK'
  BY TypeStep DEF BaseInv
<1>2. LockInv'
  <2>1. ASSUME NEW r \in Request, Work(r) PROVE LockInv'
    <3>1. CASE AcquireLock(r)
      BY <3>1, <1>1 DEF AcquireLock, LockFree, BaseInv, LockInv, Locked, TypeOK
    <3>2. CASE StartCheck(r)
      BY <3>2, <1>1 DEF StartCheck, BaseInv, LockInv, Locked, TypeOK
    <3>3. CASE DeleteWorkDir(r) \/ MakeWorkDir(r) \/ InitialStatus(r) \/ ForkFails(r)
               \/ \E i \in Process : Fork(r, i)
      BY <3>3, <1>1 DEF DeleteWorkDir, MakeWorkDir, InitialStatus, ForkFails, Fork, BaseInv,
                        LockInv, Locked, TypeOK
    <3>4. CASE Terminate(r) \/ WaitEnds(r) \/ Kill(r) \/ StopRead(r) \/ StopWrite(r)
               \/ DeleteEnds(r)
      BY <3>4, <1>1 DEF Terminate, WaitEnds, Kill, StopRead, StopWrite, DeleteEnds, BaseInv,
                        LockInv, Locked, TypeOK, filevars
    <3> QED BY <2>1, <3>1, <3>2, <3>3, <3>4 DEF Work
  <2>2. ASSUME NEW r \in Request, Start(r) \/ Stop(r) \/ Delete(r) PROVE LockInv'
    BY <2>2, <1>1 DEF Start, Stop, Delete, BaseInv, LockInv, Locked, TypeOK, filevars
  <2>3. ASSUME NEW i \in Process, Run(i) \/ Dies(i) PROVE LockInv'
    BY <2>3 DEF Run, CloseFds, InitializeEnvironment, UpdateCheck, UpdateWrite, FunctionEnds,
                HandleSigterm, Dies, BaseInv, LockInv, filevars, requestvars
  <2>4. CASE Age \/ UNCHANGED vars
    BY <2>4 DEF Age, vars, filevars, requestvars, BaseInv, LockInv
  <2> QED BY <2>1, <2>2, <2>3, <2>4 DEF Next
<1>3. DirInv'
  <2>1. ASSUME NEW r \in Request, Start(r) \/ Stop(r) \/ Delete(r) \/ Work(r) PROVE DirInv'
    BY <2>1 DEF Start, Stop, Delete, Work, AcquireLock, StartCheck, DeleteWorkDir, MakeWorkDir,
                InitialStatus, Fork, ForkFails, Terminate, WaitEnds, Kill, StopRead, StopWrite,
                DeleteEnds, UpdateStatus, BaseInv, DirInv, filevars
  <2>2. ASSUME NEW i \in Process, Run(i) \/ Dies(i) PROVE DirInv'
    BY <2>2 DEF Run, CloseFds, InitializeEnvironment, UpdateCheck, UpdateWrite, FunctionEnds,
                HandleSigterm, Dies, UpdateStatus, BaseInv, DirInv, filevars
  <2>3. CASE Age \/ UNCHANGED vars
    BY <2>3 DEF Age, vars, filevars, BaseInv, DirInv
  <2> QED BY <2>1, <2>2, <2>3 DEF Next
<1>4. TargetInv'
  <2>1. ASSUME NEW r \in Request, Start(r) \/ Stop(r) \/ Delete(r) \/ Work(r) PROVE TargetInv'
    <3>1. CASE Terminate(r)
      <4>1. Known /\ Alive(status.pid) => status.pid \in Process /\ jpc[status.pid] # "none"
        BY <1>1 DEF TypeOK, Status, Known, Alive
      <4> QED BY <3>1, <4>1, <1>1 DEF Terminate, BaseInv, TargetInv, TypeOK
    <3>2. CASE WaitEnds(r)
      BY <3>2, <1>1 DEF WaitEnds, Alive, BaseInv, TargetInv, TypeOK, jobvars
    <3>3. CASE Kill(r)
      BY <3>3, <1>1 DEF Kill, BaseInv, TargetInv, TypeOK
    <3>4. ASSUME NEW i \in Process, Fork(r, i) PROVE TargetInv'
      BY <3>4, <1>1 DEF Fork, BaseInv, TargetInv, TypeOK
    <3>5. CASE Start(r) \/ Stop(r) \/ Delete(r)
      BY <3>5, <1>1 DEF Start, Stop, Delete, BaseInv, TargetInv, TypeOK, jobvars
    <3>6. CASE AcquireLock(r) \/ StartCheck(r) \/ DeleteWorkDir(r) \/ MakeWorkDir(r)
               \/ InitialStatus(r) \/ ForkFails(r)
      BY <3>6, <1>1 DEF AcquireLock, StartCheck, DeleteWorkDir, MakeWorkDir, InitialStatus,
                        ForkFails, BaseInv, TargetInv, TypeOK, jobvars
    <3>7. CASE StopRead(r) \/ StopWrite(r) \/ DeleteEnds(r)
      BY <3>7, <1>1 DEF StopRead, StopWrite, DeleteEnds, BaseInv, TargetInv, TypeOK, jobvars
    <3> QED BY <2>1, <3>1, <3>2, <3>3, <3>4, <3>5, <3>6, <3>7 DEF Work
  <2>2. ASSUME NEW i \in Process, Run(i) \/ Dies(i) PROVE TargetInv'
    <3>1. \A j \in Process : /\ jpc[j] # "none" => jpc'[j] # "none"
                             /\ jpc[j] = "done" => jpc'[j] = "done"
      BY <2>2, <1>1 DEF Run, CloseFds, InitializeEnvironment, UpdateCheck, UpdateWrite, AfterUpdate,
                  FunctionEnds, HandleSigterm, Dies, Alive, TypeOK
    <3>2. UNCHANGED <<rpc, target>>
      BY <2>2 DEF Run, CloseFds, InitializeEnvironment, UpdateCheck, UpdateWrite,
                  FunctionEnds, HandleSigterm, Dies, requestvars
    <3> QED BY <3>1, <3>2, <1>1 DEF BaseInv, TargetInv, TypeOK
  <2>3. CASE Age \/ UNCHANGED vars
    BY <2>3 DEF Age, vars, jobvars, requestvars, BaseInv, TargetInv
  <2> QED BY <2>1, <2>2, <2>3 DEF Next
<1> QED BY <1>1, <1>2, <1>3, <1>4 DEF BaseInv

-----------------------------------------------------------------------------
\* A race is never forgotten, so that a step without one starts without one.
LEMMA RacedStays == [Next]_vars /\ ~raced' /\ TypeOK => ~raced
<1> SUFFICES ASSUME [Next]_vars, raced, TypeOK PROVE raced'
  BY DEF TypeOK
<1>1. ASSUME NEW r \in Request, Start(r) \/ Stop(r) \/ Delete(r) \/ Work(r) PROVE raced'
  BY <1>1 DEF Start, Stop, Delete, Work, AcquireLock, StartCheck, DeleteWorkDir, MakeWorkDir,
              InitialStatus, Fork, ForkFails, Terminate, WaitEnds, Kill, StopRead, StopWrite,
              DeleteEnds
<1>2. ASSUME NEW i \in Process, Run(i) \/ Dies(i) PROVE raced'
  BY <1>2 DEF Run, CloseFds, InitializeEnvironment, UpdateCheck, UpdateWrite, FunctionEnds,
              HandleSigterm, Dies
<1>3. CASE Age \/ UNCHANGED vars
  BY <1>3 DEF Age, vars
<1> QED BY <1>1, <1>2, <1>3 DEF Next

\* The steps of a process keep the status true.
LEMMA RaceOfProcess ==
  ASSUME BaseInv, TypeOK', Alone, Shown, TermInv, Fresh, NEW i \in Process, Run(i) \/ Dies(i)
  PROVE  Alone' /\ Shown' /\ TermInv' /\ Fresh'
<1> USE DEF BaseInv
<1>1. /\ Alive(i) /\ \A j \in Process : Alive(j) => j = i
      /\ \A r \in Request : rpc[r] \notin Preparing
      /\ dir /\ status # None /\ status \in Status /\ status.age # "missing"
  <2>1. Alive(i)
    BY DEF Run, CloseFds, InitializeEnvironment, UpdateCheck, UpdateWrite, FunctionEnds,
           HandleSigterm, Dies, Alive
  <2> QED BY <2>1 DEF Alone, Fresh, Shown, TypeOK
<1>2. UNCHANGED rpc /\ term' \subseteq term /\ \A j \in Process \ {i} : jpc'[j] = jpc[j]
  BY DEF Run, CloseFds, InitializeEnvironment, UpdateCheck, UpdateWrite, FunctionEnds,
         HandleSigterm, Dies, jobvars, requestvars, TypeOK
<1>3. Alone' /\ Fresh'
  BY <1>1, <1>2 DEF Alone, Fresh, Alive, Preparing
<1>4. Shown' /\ TermInv'
  <2> SUFFICES /\ Alive(i)' => /\ dir' /\ status' # None /\ status'.age # "missing"
                               /\ HasWritten(i)' => status'.state = "running" /\ status'.pid = i
                               /\ ~HasWritten(i)' => status'.state = "initialized" /\ status'.pid = None
               /\ i \in term' => jpc'[i] # "none" /\ (Alive(i)' => HasWritten(i)')
    BY <1>1, <1>2 DEF Shown, TermInv, Alive, TypeOK
  <2>1. CASE CloseFds(i)
    BY <2>1, <1>1 DEF CloseFds, Shown, TermInv, HasWritten, Alive, TypeOK, filevars
  <2>2. CASE InitializeEnvironment(i)
    BY <2>2, <1>1 DEF InitializeEnvironment, Shown, TermInv, HasWritten, Alive, TypeOK, filevars
  <2>3. CASE UpdateCheck(i)
    BY <2>3, <1>1 DEF UpdateCheck, Shown, TermInv, HasWritten, Alive, TypeOK, filevars
  <2>4. CASE UpdateWrite(i)
    <3>1. status' = [status EXCEPT !.state = next[i],
                                   !.pid = IF next[i] = "running" THEN i ELSE @]
      BY <2>4, <1>1 DEF UpdateWrite, UpdateStatus, Written
    <3>2. /\ status' \in Status /\ status'.age # "missing"
          /\ next[i] = "running" => status'.state = "running" /\ status'.pid = i
      BY <3>1, <1>1 DEF Status, TypeOK
    <3>5. dir'
      BY <2>4 DEF UpdateWrite, UpdateStatus
    <3>3. CASE next[i] = "running"
      BY <3>2, <3>3, <3>5, <2>4 DEF UpdateWrite, AfterUpdate, HasWritten, Alive, TypeOK
    <3>4. CASE next[i] # "running"
      BY <3>4, <2>4 DEF UpdateWrite, AfterUpdate, HasWritten, Alive, TypeOK
    <3> QED BY <3>3, <3>4
  <2>5. CASE \E state \in Final : FunctionEnds(i, state)
    BY <2>5, <1>1 DEF FunctionEnds, Final, Shown, TermInv, HasWritten, Alive, TypeOK, filevars
  <2>6. CASE HandleSigterm(i)
    BY <2>6, <1>1 DEF HandleSigterm, Shown, TermInv, HasWritten, Alive, TypeOK, filevars
  <2>7. CASE Dies(i)
    BY <2>7 DEF Dies, Alive, TypeOK
  <2> QED BY <2>1, <2>2, <2>3, <2>4, <2>5, <2>6, <2>7 DEF Run
<1> QED BY <1>3, <1>4

\* A start keeps the status true, since it finds no process after its check.
LEMMA RaceOfStart ==
  ASSUME BaseInv, TypeOK', Alone, Shown, TermInv, Fresh, ~raced', NEW r \in Request,
         \/ Start(r) \/ AcquireLock(r) \/ StartCheck(r) \/ DeleteWorkDir(r) \/ MakeWorkDir(r)
         \/ InitialStatus(r) \/ (\E i \in Process : Fork(r, i)) \/ ForkFails(r)
  PROVE  Alone' /\ Shown' /\ TermInv' /\ Fresh'
<1> USE DEF Goto, BaseInv
<1>1. \A q \in Request \ {r} : rpc'[q] = rpc[q] /\ (rpc[q] \in Preparing => rpc[r] \notin Locked)
  BY DEF Start, AcquireLock, StartCheck, DeleteWorkDir, MakeWorkDir, InitialStatus, Fork, ForkFails,
         LockInv, Locked, Preparing, TypeOK
<1>2. CASE Start(r) \/ AcquireLock(r)
  BY <1>2, <1>1 DEF Start, AcquireLock, Alone, Shown, TermInv, Fresh, Alive, HasWritten, Preparing,
                    TypeOK, filevars, jobvars
<1>3. CASE StartCheck(r)
  <2>1. UNCHANGED <<dir, status, jobvars>>
    BY <1>3 DEF StartCheck
  <2>2. Alone' /\ Shown' /\ TermInv'
    BY <2>1 DEF Alone, Shown, TermInv, Alive, HasWritten, jobvars
  <2>3. ASSUME rpc'[r] = "prepare", NEW i \in Process, Alive(i) PROVE FALSE
    <3>1. ~IsRunning /\ ~Late
      BY <1>3, <2>3 DEF StartCheck, TypeOK
    <3>2. dir /\ status # None /\ status \in Status /\ status.age # "missing"
      BY <2>3 DEF Shown, TypeOK
    <3>3. CASE HasWritten(i)
      BY <3>1, <3>2, <3>3, <2>3 DEF Shown, IsRunning, Final
    <3>4. CASE ~HasWritten(i)
      BY <3>1, <3>2, <3>4, <2>3 DEF Shown, IsRunning, Late, Final, Status
    <3> QED BY <3>3, <3>4
  <2>4. rpc'[r] \in {"prepare", "done"}
    BY <1>3 DEF StartCheck, TypeOK
  <2> QED BY <1>1, <2>1, <2>2, <2>3, <2>4 DEF Fresh, Alive, Preparing, jobvars
<1>4. CASE DeleteWorkDir(r) \/ MakeWorkDir(r) \/ InitialStatus(r)
  <2>1. \A i \in Process : ~Alive(i) /\ ~Alive(i)'
    BY <1>4 DEF DeleteWorkDir, MakeWorkDir, InitialStatus, Fresh, Alive, Preparing, jobvars
  <2>2. \A q \in Request \ {r} : rpc'[q] \notin Preparing
    BY <1>1, <1>4 DEF DeleteWorkDir, MakeWorkDir, InitialStatus, Locked
  <2>3. /\ rpc'[r] = "initial" => dir' /\ status' = None
        /\ rpc'[r] = "fork" => /\ dir' /\ status' # None /\ status'.age # "missing"
                               /\ status'.state = "initialized" /\ status'.pid = None
    <3>1. CASE DeleteWorkDir(r)
      BY <3>1 DEF DeleteWorkDir, TypeOK
    <3>2. CASE MakeWorkDir(r)
      BY <3>2 DEF MakeWorkDir, DirInv, TypeOK
    <3>3. CASE InitialStatus(r)
      <4>1. dir /\ status = None
        BY <3>3 DEF InitialStatus, Fresh
      <4>2. dir' /\ status' = [Blank EXCEPT !.state = "initialized", !.age = "young"]
        BY <3>3, <4>1 DEF InitialStatus, UpdateStatus, Written
      <4>3. status' = [state |-> "initialized", pid |-> None, age |-> "young"]
        BY <4>2 DEF Blank
      <4>4. status' # None
        BY <4>3 DEF Status, State
      <4>5. dir' /\ rpc'[r] = "fork"
        BY <4>2, <3>3 DEF InitialStatus, TypeOK
      <4> QED BY <4>3, <4>4, <4>5
    <3> QED BY <1>4, <3>1, <3>2, <3>3
  <2>4. UNCHANGED <<jpc, term>>
    BY <1>4 DEF DeleteWorkDir, MakeWorkDir, InitialStatus, jobvars
  <2>5. Fresh'
    BY <2>1, <2>2, <2>3 DEF Fresh, Preparing
  <2> QED BY <2>1, <2>4, <2>5 DEF Alone, Shown, TermInv, TypeOK
<1>5. ASSUME NEW i \in Process, Fork(r, i) PROVE Alone' /\ Shown' /\ TermInv' /\ Fresh'
  <2>1. rpc[r] = "fork" /\ \A j \in Process : ~Alive(j)
    BY <1>5 DEF Fork, Fresh, Preparing
  <2>2. /\ UNCHANGED <<dir, status, next, term>>
        /\ jpc' = [jpc EXCEPT ![i] = "forked"] /\ rpc'[r] = "done"
    BY <1>5 DEF Fork, TypeOK
  <2>3. \A j \in Process : Alive(j)' => j = i
    BY <2>1, <2>2 DEF Alive, TypeOK
  <2>4. ~HasWritten(i)'
    BY <2>2 DEF HasWritten, TypeOK
  <2>5. Shown'
    BY <2>1, <2>2, <2>3, <2>4 DEF Shown, Fresh
  <2>6. i \notin term
    BY <1>5 DEF Fork, TermInv
  <2>7. Alone' /\ TermInv'
    BY <2>1, <2>2, <2>3, <2>6 DEF Alone, TermInv, Alive, TypeOK
  <2>8. Fresh'
    BY <1>1, <2>1, <2>2 DEF Fresh, Locked, Preparing
  <2> QED BY <2>5, <2>7, <2>8
<1>6. CASE ForkFails(r)
  BY <1>6, <1>1 DEF ForkFails, Alone, Shown, TermInv, Fresh, Alive, HasWritten, Preparing, jobvars, TypeOK
<1> QED BY <1>2, <1>3, <1>4, <1>5, <1>6

\* Whoever stops or deletes the job sends a signal to the process that has
\* written its id, and changes the status after its end only.
LEMMA RaceOfStop ==
  ASSUME BaseInv, TypeOK', Alone, Shown, TermInv, Fresh, ~raced', NEW r \in Request,
         \/ Stop(r) \/ Delete(r) \/ Terminate(r) \/ WaitEnds(r) \/ Kill(r)
         \/ StopRead(r) \/ StopWrite(r) \/ DeleteEnds(r)
  PROVE  Alone' /\ Shown' /\ TermInv' /\ Fresh'
<1> USE DEF Goto, BaseInv
<1>1. rpc'[r] \notin Preparing /\ \A q \in Request \ {r} : rpc'[q] = rpc[q]
  BY DEF Stop, Delete, Terminate, WaitEnds, Kill, StopRead, StopWrite, DeleteEnds, Preparing, TypeOK
<1>2. CASE Stop(r) \/ Delete(r) \/ WaitEnds(r) \/ StopRead(r)
  <2>1. UNCHANGED <<dir, status, jpc, next, term>>
    BY <1>2 DEF Stop, Delete, WaitEnds, StopRead, filevars, jobvars
  <2>2. Alone' /\ Shown' /\ TermInv'
    BY <2>1 DEF Alone, Shown, TermInv, Alive, HasWritten
  <2>3. Fresh'
    BY <1>1, <2>1 DEF Fresh, Alive, Preparing
  <2> QED BY <2>2, <2>3
<1>3. CASE Terminate(r)
  <2>1. UNCHANGED <<dir, status, jpc, next>>
    BY <1>3 DEF Terminate, filevars
  <2>2. Alone' /\ Shown' /\ Fresh'
    <3>1. Alone' /\ Shown'
      BY <2>1 DEF Alone, Shown, Alive, HasWritten
    <3>2. Fresh'
      BY <1>1, <2>1 DEF Fresh, Alive, Preparing
    <3> QED BY <3>1, <3>2
  <2>3. Known /\ Alive(status.pid) => /\ status.pid \in Process
                                      /\ jpc[status.pid] # "none"
                                      /\ HasWritten(status.pid)
    <3>1. Known => status.pid \in Process
      BY DEF Known, TypeOK, Status
    <3> QED BY <3>1 DEF Shown, Alive, Known
  <2>4. TermInv'
    BY <1>3, <2>1, <2>3 DEF Terminate, TermInv, Alive, HasWritten
  <2> QED BY <2>2, <2>4
<1>4. CASE Kill(r)
  <2>1. /\ UNCHANGED <<dir, status, next, term>>
        /\ \A i \in Process : jpc'[i] # jpc[i] => jpc'[i] = "done"
    BY <1>4 DEF Kill, filevars, TypeOK
  <2>2. Alone' /\ Shown'
    BY <2>1 DEF Alone, Shown, Alive, HasWritten
  <2>3. TermInv'
    BY <2>1 DEF TermInv, Alive, HasWritten, TypeOK
  <2>4. Fresh'
    BY <1>1, <2>1 DEF Fresh, Alive, Preparing
  <2> QED BY <2>2, <2>3, <2>4
<1>5. CASE StopWrite(r) \/ DeleteEnds(r)
  <2>1. ~Other(r) /\ UNCHANGED <<jpc, next, term>>
    BY <1>5 DEF StopWrite, DeleteEnds, jobvars, TypeOK
  <2>2. \A i \in Process : ~Alive(i) /\ ~Alive(i)'
    <3>1. target[r] = None \/ jpc[target[r]] = "done"
      BY <1>5 DEF StopWrite, DeleteEnds, TargetInv
    <3> QED BY <2>1, <3>1 DEF Other, Alive
  <2>3. \A q \in Request : rpc[q] \notin {"initial", "fork"}
    BY <2>1 DEF Other
  <2>4. Alone' /\ Shown' /\ TermInv'
    BY <2>1, <2>2 DEF Alone, Shown, TermInv, TypeOK
  <2>5. Fresh'
    BY <1>1, <2>2, <2>3 DEF Fresh, Preparing
  <2> QED BY <2>4, <2>5
<1> QED BY <1>2, <1>3, <1>4, <1>5

\* The passing of time does not change what the status tells.
LEMMA RaceOfAge ==
  ASSUME BaseInv, Alone, Shown, TermInv, Fresh, Age \/ UNCHANGED vars
  PROVE  Alone' /\ Shown' /\ TermInv' /\ Fresh'
<1>1. CASE Age
  <2>1. /\ UNCHANGED <<dir, jpc, next, term, rpc>>
        /\ status # None /\ status \in Status /\ status' = [status EXCEPT !.age = "old"]
    BY <1>1 DEF Age, BaseInv, TypeOK, jobvars, requestvars
  <2>2. /\ status' \in Status /\ status'.age = "old"
        /\ status'.state = status.state /\ status'.pid = status.pid
    BY <2>1 DEF Status
  <2> QED BY <2>1, <2>2 DEF Alone, Shown, TermInv, Fresh, Alive, HasWritten
<1>2. CASE UNCHANGED vars
  BY <1>2 DEF vars, filevars, jobvars, requestvars, Alone, Shown, TermInv, Fresh, Alive, HasWritten
<1> QED BY <1>1, <1>2

\* The invariant is inductive.
LEMMA InvStep == Inv /\ [Next]_vars => Inv'
<1> SUFFICES ASSUME Inv, [Next]_vars PROVE Inv'
  OBVIOUS
<1>1. BaseInv /\ BaseInv' /\ TypeOK'
  BY BaseStep DEF Inv, BaseInv
<1>2. RaceInv'
  <2> SUFFICES ASSUME ~raced' PROVE Alone' /\ Shown' /\ TermInv' /\ Fresh'
    BY DEF RaceInv
  <2>1. Alone /\ Shown /\ TermInv /\ Fresh
    BY RacedStays, <1>1 DEF Inv, BaseInv, RaceInv
  <2>2. CASE Age \/ UNCHANGED vars
    BY <2>2, <2>1, <1>1, RaceOfAge
  <2>3. ASSUME NEW r \in Request, Start(r) \/ Stop(r) \/ Delete(r) \/ Work(r)
        PROVE  Alone' /\ Shown' /\ TermInv' /\ Fresh'
    <3>1. CASE \/ Start(r) \/ AcquireLock(r) \/ StartCheck(r) \/ DeleteWorkDir(r) \/ MakeWorkDir(r)
               \/ InitialStatus(r) \/ (\E i \in Process : Fork(r, i)) \/ ForkFails(r)
      BY <3>1, <2>1, <1>1, RaceOfStart
    <3>2. CASE \/ Stop(r) \/ Delete(r) \/ Terminate(r) \/ WaitEnds(r) \/ Kill(r)
               \/ StopRead(r) \/ StopWrite(r) \/ DeleteEnds(r)
      BY <3>2, <2>1, <1>1, RaceOfStop
    <3> QED BY <2>3, <3>1, <3>2 DEF Work
  <2>4. ASSUME NEW i \in Process, Run(i) \/ Dies(i)
        PROVE  Alone' /\ Shown' /\ TermInv' /\ Fresh'
    BY <2>4, <2>1, <1>1, RaceOfProcess
  <2> QED BY <2>2, <2>3, <2>4 DEF Next
<1> QED BY <1>1, <1>2 DEF Inv

\* It holds in every state of the job.
LEMMA InvHolds == Spec => []Inv
  BY InitInv, InvStep, PTL DEF Spec

-----------------------------------------------------------------------------
\* The variables have their types, for any number of requests and processes.
THEOREM JobTypeCorrect == Spec => []TypeOK
<1>1. Inv => TypeOK
  BY DEF Inv, BaseInv
<1> QED BY <1>1, InvHolds, PTL

\* However the requests and the processes meet, and wherever processes die, the
\* job runs once at a time, unless a race was met.
THEOREM JobRunsOnce == Spec => []OneProcess
<1>1. Inv => OneProcess
  BY DEF Inv, RaceInv, Alone, OneProcess
<1> QED BY <1>1, InvHolds, PTL

\* A job that is shown as ended has no process any more, unless a race was met.
THEOREM EndedJobIsOver == Spec => []EndedIsOver
<1>1. Inv => EndedIsOver
  <2> SUFFICES ASSUME Inv, ~raced, status # None, status.state \in Final,
                      NEW i \in Process, Alive(i)
               PROVE  FALSE
    BY DEF EndedIsOver
  <2> QED BY DEF Inv, RaceInv, Shown, Final
<1> QED BY <1>1, InvHolds, PTL

\* The status names the process that executes the function, unless a race was
\* met, so that it can be stopped.
THEOREM RunningJobIsFound == Spec => []Found
<1>1. Inv => Found
  <2> SUFFICES ASSUME Inv, ~raced, NEW i \in Process, jpc[i] = "function"
               PROVE  dir /\ Known /\ status.pid = i
    BY DEF Found
  <2> QED BY DEF Inv, RaceInv, Shown, Alive, HasWritten, Known
<1> QED BY <1>1, InvHolds, PTL

-----------------------------------------------------------------------------
\* What a request has begun: the lock has an owner that works with it, and who
\* stops or deletes knows which of the two it does.
OwnedInv ==
    /\ lock # None => rpc[lock] \in Locked
    /\ \A r \in Request : rpc[r] \in {"terminate", "wait", "finish"} => op[r] \in {"stop", "delete"}

LEMMA OwnedStep ==
  ASSUME BaseInv, BaseInv', OwnedInv, [Next]_vars
  PROVE  OwnedInv'
<1> USE DEF Goto
<1>1. TypeOK /\ TypeOK' /\ LockInv
  BY DEF BaseInv
<1>2. ASSUME NEW r \in Request, AcquireLock(r) PROVE OwnedInv'
  BY <1>2, <1>1 DEF AcquireLock, OwnedInv, Locked, TypeOK
<1>3. ASSUME NEW r \in Request,
             \/ StartCheck(r) \/ DeleteWorkDir(r) \/ MakeWorkDir(r) \/ InitialStatus(r)
             \/ ForkFails(r) \/ \E i \in Process : Fork(r, i)
      PROVE  OwnedInv'
  <2>1. /\ lock = r /\ UNCHANGED op
        /\ rpc' = [rpc EXCEPT ![r] = rpc'[r]]
        /\ \/ lock' = None /\ rpc'[r] = "done"
           \/ lock' = r /\ rpc'[r] \in Locked
    BY <1>3, <1>1 DEF StartCheck, DeleteWorkDir, MakeWorkDir, InitialStatus, ForkFails, Fork,
                      LockInv, Locked, TypeOK
  <2> QED BY <2>1, <1>1 DEF OwnedInv, Locked, TypeOK
<1>4. ASSUME NEW r \in Request,
             \/ Start(r) \/ Stop(r) \/ Delete(r) \/ Terminate(r) \/ WaitEnds(r) \/ Kill(r)
             \/ StopRead(r) \/ StopWrite(r) \/ DeleteEnds(r)
      PROVE  OwnedInv'
  <2>1. /\ rpc[r] \notin Locked /\ UNCHANGED lock
        /\ rpc' = [rpc EXCEPT ![r] = rpc'[r]] /\ op' = [op EXCEPT ![r] = op'[r]]
    BY <1>4, <1>1 DEF Start, Stop, Delete, Terminate, WaitEnds, Kill, StopRead, StopWrite,
                      DeleteEnds, Locked, TypeOK, filevars
  <2>2. rpc'[r] \in {"terminate", "wait", "finish"} => op'[r] \in {"stop", "delete"}
    BY <1>4, <1>1 DEF Start, Stop, Delete, Terminate, WaitEnds, Kill, StopRead, StopWrite,
                      DeleteEnds, OwnedInv, TypeOK
  <2> QED BY <2>1, <2>2, <1>1 DEF OwnedInv, TypeOK
<1>5. CASE UNCHANGED <<lock, rpc, op>>
  BY <1>5 DEF OwnedInv
<1>6. ASSUME NEW i \in Process, Run(i) \/ Dies(i) PROVE UNCHANGED <<lock, rpc, op>>
  BY <1>6 DEF Run, CloseFds, InitializeEnvironment, UpdateCheck, UpdateWrite, FunctionEnds,
              HandleSigterm, Dies, filevars, requestvars
<1>7. Age \/ UNCHANGED vars => UNCHANGED <<lock, rpc, op>>
  BY DEF Age, vars, filevars, requestvars
<1> QED BY <1>2, <1>3, <1>4, <1>5, <1>6, <1>7 DEF Next, Work

\* The guards of Work(r): the request can take its next step.
CanWork(r) ==
    \/ rpc[r] = "lock" /\ LockFree
    \/ rpc[r] \in Locked \cup {"terminate", "write"}
    \/ rpc[r] = "wait" /\ target[r] \in Process
    \/ rpc[r] = "finish" /\ op[r] \in {"stop", "delete"}

\* A request that is under way can go on; or it waits for the lock, which
\* another one has that can go on, or a process that has not closed it yet.
NobodyStuck ==
    \A r \in Request :
        \/ rpc[r] \in {"new", "done"} \/ CanWork(r)
        \/ /\ rpc[r] = "lock"
           /\ \/ \E q \in Request : lock = q /\ CanWork(q)
              \/ \E i \in Process : jpc[i] = "forked"

\* Whatever the function does and wherever processes die, no request is stuck:
\* nobody ends with the lock, and there is a next step for each target and for
\* each operation.  (With the fairness of the requests this is RequestEnds.)
THEOREM NoRequestIsStuck == Spec => []NobodyStuck
<1>1. Init => OwnedInv
  BY DEF Init, OwnedInv
<1>2. Inv /\ Inv' /\ OwnedInv /\ [Next]_vars => OwnedInv'
  BY OwnedStep DEF Inv
<1>3. Inv /\ OwnedInv => NobodyStuck
  <2> SUFFICES ASSUME Inv, OwnedInv, NEW r \in Request, rpc[r] \notin {"new", "done"}, ~CanWork(r)
               PROVE  /\ rpc[r] = "lock"
                      /\ \/ \E q \in Request : lock = q /\ CanWork(q)
                         \/ \E i \in Process : jpc[i] = "forked"
    BY DEF NobodyStuck
  <2>1. TypeOK /\ TargetInv
    BY DEF Inv, BaseInv
  <2>2. rpc[r] = "wait" => target[r] \in Process
    BY <2>1 DEF TypeOK, TargetInv
  <2>3. rpc[r] = "lock" /\ ~LockFree
    BY <2>1, <2>2 DEF CanWork, OwnedInv, Locked, TypeOK
  <2>4. lock # None => lock \in Request /\ CanWork(lock)
    BY <2>1 DEF TypeOK, OwnedInv, CanWork
  <2> QED BY <2>3, <2>4 DEF LockFree
<1> QED BY <1>1, <1>2, <1>3, InvHolds, PTL DEF Spec
============================================================================
