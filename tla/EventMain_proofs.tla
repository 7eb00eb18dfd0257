-------------------------- MODULE EventMain_proofs ---------------------------
(***************************************************************************)
(* Proofs about EventMain, for all signals, commands and bounds.           *)
(***************************************************************************)
EXTENDS EventMain, TLAPS

USE MainAssumption

\* How far the shutdown has come.
Shutdown ==
  /\ pc \in {"joinSs", "final", "exit"} => es = "ended"
  /\ pc \in {"final", "exit"} => ss = "ended"
  /\ pc = "exit" => file = state

LEMMA TypeInit == Init => TypeOK
<1> SUFFICES ASSUME Init PROVE TypeOK
  OBVIOUS
<1>1. pc \in Pc /\ pending = None /\ handling = None /\ terminate \in BOOLEAN
  BY DEF Init, Pc
<1>2. /\ es \in {"select", "lock", "work", "ended"} /\ ss \in {"select", "lock", "work", "ended"}
      /\ command = None /\ lock = None
  BY DEF Init
<1>3. /\ pipe \in 0..PipeSize /\ state \in 0..MaxChanges /\ file \in 0..MaxChanges
      /\ signals \in Nat /\ messages \in Nat
  BY DEF Init
<1> QED
  BY <1>1, <1>2, <1>3 DEF TypeOK

LEMMA TypeStep ==
  ASSUME TypeOK, [Next]_vars
  PROVE  TypeOK'
<1>1. CASE Loop
  BY <1>1 DEF Loop, Due, TypeOK, None, Pc, Waiting, Inside, mainVars, serverVars, counters
<1>2. CASE LoopEnds
  BY <1>2 DEF LoopEnds, TypeOK, None, Pc, Waiting, Inside, mainVars, serverVars, counters
<1>3. CASE Housekeeping
  BY <1>3 DEF Housekeeping, StepEnds, Due, Work, TypeOK, None, Pc, Waiting, Inside, mainVars, serverVars, counters
<1>4. CASE Retention
  BY <1>4 DEF Retention, StepEnds, Due, TypeOK, None, Pc, Waiting, Inside, mainVars, serverVars, counters
<1>5. CASE Pull
  BY <1>5 DEF Pull, StepEnds, Due, Work, TypeOK, None, Pc, Waiting, Inside, mainVars, serverVars, counters
<1>6. CASE ActionStarts
  BY <1>6 DEF ActionStarts, TypeOK, None, Pc, Waiting, Inside, mainVars, serverVars, counters
<1>7. CASE ActionEnds
  BY <1>7 DEF ActionEnds, TypeOK, None, Pc, Waiting, Inside, mainVars, serverVars, counters
<1>8. CASE PullInterrupted
  BY <1>8 DEF PullInterrupted, TypeOK, None, Pc, Waiting, Inside, mainVars, serverVars, counters
<1>9. CASE Interrupted
  BY <1>9 DEF Interrupted, TypeOK, None, Pc, Waiting, Inside, mainVars, serverVars, counters
<1>10. CASE Handle
  BY <1>10 DEF Handle, TypeOK, None, Pc, Waiting, Inside, mainVars, serverVars, counters
<1>11. CASE JoinEs
  BY <1>11 DEF JoinEs, TypeOK, None, Pc, Waiting, Inside, mainVars, serverVars, counters
<1>12. CASE JoinSs
  BY <1>12 DEF JoinSs, TypeOK, None, Pc, Waiting, Inside, mainVars, serverVars, counters
<1>13. CASE Final
  BY <1>13 DEF Final, TypeOK, None, Pc, Waiting, Inside, mainVars, serverVars, counters
<1>14. CASE Dies
  BY <1>14 DEF Dies, TypeOK, None, Pc, Waiting, Inside, mainVars, serverVars, counters
<1>15. CASE Acquire
  BY <1>15 DEF Acquire, Doing, TypeOK, None, Pc, Waiting, Inside, mainVars, serverVars, counters
<1>16. CASE EsReadPipe
  BY <1>16 DEF EsReadPipe, TypeOK, None, Pc, Waiting, Inside, mainVars, serverVars, counters
<1>17. CASE EsProcess
  BY <1>17 DEF EsProcess, Work, TypeOK, None, Pc, Waiting, Inside, mainVars, serverVars, counters
<1>18. CASE EsEnds
  BY <1>18 DEF EsEnds, TypeOK, None, Pc, Waiting, Inside, mainVars, serverVars, counters
<1>19. CASE EsAcquire
  BY <1>19 DEF EsAcquire, TypeOK, None, Pc, Waiting, Inside, mainVars, serverVars, counters
<1>20. CASE EsReceive
  BY <1>20 DEF EsReceive, TypeOK, None, Pc, Waiting, Inside, mainVars, serverVars, counters
<1>21. CASE CommandDelete
  BY <1>21 DEF CommandDelete, SsDone, Work, TypeOK, None, Pc, Waiting, Inside, mainVars, serverVars, counters
<1>22. CASE CommandSync
  BY <1>22 DEF CommandSync, SsDone, TypeOK, None, Pc, Waiting, Inside, mainVars, serverVars, counters
<1>23. CASE CommandShutdown
  BY <1>23 DEF CommandShutdown, SsDone, TypeOK, None, Pc, Waiting, Inside, mainVars, serverVars, counters
<1>24. CASE CommandCreate
  BY <1>24 DEF CommandCreate, SsDone, TypeOK, None, Pc, Waiting, Inside, mainVars, serverVars, counters
<1>25. CASE SsEnds
  BY <1>25 DEF SsEnds, TypeOK, None, Pc, Waiting, Inside, mainVars, serverVars, counters
<1>26. CASE SsAcquire
  BY <1>26 DEF SsAcquire, TypeOK, None, Pc, Waiting, Inside, mainVars, serverVars, counters
<1>27. CASE SsReceive
  BY <1>27 DEF SsReceive, TypeOK, None, Pc, Waiting, Inside, mainVars, serverVars, counters
<1>28. CASE Signal
  BY <1>28 DEF Signal, TypeOK, None, Pc, Waiting, Inside, mainVars, serverVars, counters
<1>29. CASE Write
  BY <1>29 DEF Write, TypeOK, None, Pc, Waiting, Inside, mainVars, serverVars, counters
<1>30. CASE UNCHANGED vars
  BY <1>30 DEF vars, TypeOK, None, Pc, Waiting, Inside, mainVars, serverVars, counters
<1> QED
  BY <1>1, <1>2, <1>3, <1>4, <1>5, <1>6, <1>7, <1>8, <1>9, <1>10, <1>11, <1>12, <1>13, <1>14, <1>15, <1>16, <1>17, <1>18, <1>19, <1>20, <1>21, <1>22, <1>23, <1>24, <1>25, <1>26, <1>27, <1>28, <1>29, <1>30
     DEF Next, MainStep, EsStep, SsStep

LEMMA OwnersStep ==
  ASSUME Owners, [Next]_vars
  PROVE  Owners'
<1>1. CASE Loop
  BY <1>1 DEF Loop, Due, Owners, None, Waiting, Inside, mainVars, serverVars, counters
<1>2. CASE LoopEnds
  BY <1>2 DEF LoopEnds, Owners, None, Waiting, Inside, mainVars, serverVars, counters
<1>3. CASE Housekeeping
  BY <1>3 DEF Housekeeping, StepEnds, Due, Work, Owners, None, Waiting, Inside, mainVars, serverVars, counters
<1>4. CASE Retention
  BY <1>4 DEF Retention, StepEnds, Due, Owners, None, Waiting, Inside, mainVars, serverVars, counters
<1>5. CASE Pull
  BY <1>5 DEF Pull, StepEnds, Due, Work, Owners, None, Waiting, Inside, mainVars, serverVars, counters
<1>6. CASE ActionStarts
  BY <1>6 DEF ActionStarts, Owners, None, Waiting, Inside, mainVars, serverVars, counters
<1>7. CASE ActionEnds
  BY <1>7 DEF ActionEnds, Owners, None, Waiting, Inside, mainVars, serverVars, counters
<1>8. CASE PullInterrupted
  BY <1>8 DEF PullInterrupted, Owners, None, Waiting, Inside, mainVars, serverVars, counters
<1>9. CASE Interrupted
  BY <1>9 DEF Interrupted, Owners, None, Waiting, Inside, mainVars, serverVars, counters
<1>10. CASE Handle
  BY <1>10 DEF Handle, Owners, None, Waiting, Inside, mainVars, serverVars, counters
<1>11. CASE JoinEs
  BY <1>11 DEF JoinEs, Owners, None, Waiting, Inside, mainVars, serverVars, counters
<1>12. CASE JoinSs
  BY <1>12 DEF JoinSs, Owners, None, Waiting, Inside, mainVars, serverVars, counters
<1>13. CASE Final
  BY <1>13 DEF Final, Owners, None, Waiting, Inside, mainVars, serverVars, counters
<1>14. CASE Dies
  BY <1>14 DEF Dies, Owners, None, Waiting, Inside, mainVars, serverVars, counters
<1>15. CASE Acquire
  BY <1>15 DEF Acquire, Doing, Owners, None, Waiting, Inside, mainVars, serverVars, counters
<1>16. CASE EsReadPipe
  BY <1>16 DEF EsReadPipe, Owners, None, Waiting, Inside, mainVars, serverVars, counters
<1>17. CASE EsProcess
  BY <1>17 DEF EsProcess, Work, Owners, None, Waiting, Inside, mainVars, serverVars, counters
<1>18. CASE EsEnds
  BY <1>18 DEF EsEnds, Owners, None, Waiting, Inside, mainVars, serverVars, counters
<1>19. CASE EsAcquire
  BY <1>19 DEF EsAcquire, Owners, None, Waiting, Inside, mainVars, serverVars, counters
<1>20. CASE EsReceive
  BY <1>20 DEF EsReceive, Owners, None, Waiting, Inside, mainVars, serverVars, counters
<1>21. CASE CommandDelete
  BY <1>21 DEF CommandDelete, SsDone, Work, Owners, None, Waiting, Inside, mainVars, serverVars, counters
<1>22. CASE CommandSync
  BY <1>22 DEF CommandSync, SsDone, Owners, None, Waiting, Inside, mainVars, serverVars, counters
<1>23. CASE CommandShutdown
  BY <1>23 DEF CommandShutdown, SsDone, Owners, None, Waiting, Inside, mainVars, serverVars, counters
<1>24. CASE CommandCreate
  BY <1>24 DEF CommandCreate, SsDone, Owners, None, Waiting, Inside, mainVars, serverVars, counters
<1>25. CASE SsEnds
  BY <1>25 DEF SsEnds, Owners, None, Waiting, Inside, mainVars, serverVars, counters
<1>26. CASE SsAcquire
  BY <1>26 DEF SsAcquire, Owners, None, Waiting, Inside, mainVars, serverVars, counters
<1>27. CASE SsReceive
  BY <1>27 DEF SsReceive, Owners, None, Waiting, Inside, mainVars, serverVars, counters
<1>28. CASE Signal
  BY <1>28 DEF Signal, Owners, None, Waiting, Inside, mainVars, serverVars, counters
<1>29. CASE Write
  BY <1>29 DEF Write, Owners, None, Waiting, Inside, mainVars, serverVars, counters
<1>30. CASE UNCHANGED vars
  BY <1>30 DEF vars, Owners, None, Waiting, Inside, mainVars, serverVars, counters
<1> QED
  BY <1>1, <1>2, <1>3, <1>4, <1>5, <1>6, <1>7, <1>8, <1>9, <1>10, <1>11, <1>12, <1>13, <1>14, <1>15, <1>16, <1>17, <1>18, <1>19, <1>20, <1>21, <1>22, <1>23, <1>24, <1>25, <1>26, <1>27, <1>28, <1>29, <1>30
     DEF Next, MainStep, EsStep, SsStep

LEMMA ShutdownStep ==
  ASSUME Shutdown, [Next]_vars
  PROVE  Shutdown'
<1>1. CASE Loop
  BY <1>1 DEF Loop, Due, Shutdown, Waiting, Inside, mainVars, serverVars, counters
<1>2. CASE LoopEnds
  BY <1>2 DEF LoopEnds, Shutdown, Waiting, Inside, mainVars, serverVars, counters
<1>3. CASE Housekeeping
  BY <1>3 DEF Housekeeping, StepEnds, Due, Work, Shutdown, Waiting, Inside, mainVars, serverVars, counters
<1>4. CASE Retention
  BY <1>4 DEF Retention, StepEnds, Due, Shutdown, Waiting, Inside, mainVars, serverVars, counters
<1>5. CASE Pull
  BY <1>5 DEF Pull, StepEnds, Due, Work, Shutdown, Waiting, Inside, mainVars, serverVars, counters
<1>6. CASE ActionStarts
  BY <1>6 DEF ActionStarts, Shutdown, Waiting, Inside, mainVars, serverVars, counters
<1>7. CASE ActionEnds
  BY <1>7 DEF ActionEnds, Shutdown, Waiting, Inside, mainVars, serverVars, counters
<1>8. CASE PullInterrupted
  BY <1>8 DEF PullInterrupted, Shutdown, Waiting, Inside, mainVars, serverVars, counters
<1>9. CASE Interrupted
  BY <1>9 DEF Interrupted, Shutdown, Waiting, Inside, mainVars, serverVars, counters
<1>10. CASE Handle
  BY <1>10 DEF Handle, Shutdown, Waiting, Inside, mainVars, serverVars, counters
<1>11. CASE JoinEs
  BY <1>11 DEF JoinEs, Shutdown, Waiting, Inside, mainVars, serverVars, counters
<1>12. CASE JoinSs
  BY <1>12 DEF JoinSs, Shutdown, Waiting, Inside, mainVars, serverVars, counters
<1>13. CASE Final
  BY <1>13 DEF Final, Shutdown, Waiting, Inside, mainVars, serverVars, counters
<1>14. CASE Dies
  BY <1>14 DEF Dies, Shutdown, Waiting, Inside, mainVars, serverVars, counters
<1>15. CASE Acquire
  BY <1>15 DEF Acquire, Doing, Shutdown, Waiting, Inside, mainVars, serverVars, counters
<1>16. CASE EsReadPipe
  BY <1>16 DEF EsReadPipe, Shutdown, Waiting, Inside, mainVars, serverVars, counters
<1>17. CASE EsProcess
  BY <1>17 DEF EsProcess, Work, Shutdown, Waiting, Inside, mainVars, serverVars, counters
<1>18. CASE EsEnds
  BY <1>18 DEF EsEnds, Shutdown, Waiting, Inside, mainVars, serverVars, counters
<1>19. CASE EsAcquire
  BY <1>19 DEF EsAcquire, Shutdown, Waiting, Inside, mainVars, serverVars, counters
<1>20. CASE EsReceive
  BY <1>20 DEF EsReceive, Shutdown, Waiting, Inside, mainVars, serverVars, counters
<1>21. CASE CommandDelete
  BY <1>21 DEF CommandDelete, SsDone, Work, Shutdown, Waiting, Inside, mainVars, serverVars, counters
<1>22. CASE CommandSync
  BY <1>22 DEF CommandSync, SsDone, Shutdown, Waiting, Inside, mainVars, serverVars, counters
<1>23. CASE CommandShutdown
  BY <1>23 DEF CommandShutdown, SsDone, Shutdown, Waiting, Inside, mainVars, serverVars, counters
<1>24. CASE CommandCreate
  BY <1>24 DEF CommandCreate, SsDone, Shutdown, Waiting, Inside, mainVars, serverVars, counters
<1>25. CASE SsEnds
  BY <1>25 DEF SsEnds, Shutdown, Waiting, Inside, mainVars, serverVars, counters
<1>26. CASE SsAcquire
  BY <1>26 DEF SsAcquire, Shutdown, Waiting, Inside, mainVars, serverVars, counters
<1>27. CASE SsReceive
  BY <1>27 DEF SsReceive, Shutdown, Waiting, Inside, mainVars, serverVars, counters
<1>28. CASE Signal
  BY <1>28 DEF Signal, Shutdown, Waiting, Inside, mainVars, serverVars, counters
<1>29. CASE Write
  BY <1>29 DEF Write, Shutdown, Waiting, Inside, mainVars, serverVars, counters
<1>30. CASE UNCHANGED vars
  BY <1>30 DEF vars, Shutdown, Waiting, Inside, mainVars, serverVars, counters
<1> QED
  BY <1>1, <1>2, <1>3, <1>4, <1>5, <1>6, <1>7, <1>8, <1>9, <1>10, <1>11, <1>12, <1>13, <1>14, <1>15, <1>16, <1>17, <1>18, <1>19, <1>20, <1>21, <1>22, <1>23, <1>24, <1>25, <1>26, <1>27, <1>28, <1>29, <1>30
     DEF Next, MainStep, EsStep, SsStep

\* The types.
THEOREM MainTypeCorrect == Spec => []TypeOK
<1> QED
  BY TypeInit, TypeStep, PTL DEF Spec

\* event_status.lock is owned by the thread that works with the event status,
\* whenever signals arrive.
THEOREM MainLockIsOwned == Spec => []Owners
<1>1. Init => Owners
  BY DEF Init, Owners, Inside, None
<1> QED
  BY <1>1, OwnersStep, PTL DEF Spec

\* A proper shutdown has stopped the servers and has saved every change.
THEOREM MainExitsCleanly == Spec => []CleanExit
<1>1. Init => Shutdown
  BY DEF Init, Shutdown
<1>2. Shutdown => CleanExit
  BY DEF Shutdown, CleanExit
<1> QED
  BY <1>1, <1>2, ShutdownStep, PTL DEF Spec

-----------------------------------------------------------------------------
\* The StatusServer has a command when it works, and who waits for the
\* servers, or has waited, has told them to terminate.
ServerInv ==
  /\ ss \in {"lock", "work"} => command # None
  /\ pc \in {"joinEs", "joinSs", "final", "exit"} => terminate

LEMMA ServerStep ==
  ASSUME ServerInv, [Next]_vars
  PROVE  ServerInv'
<1> USE DEF ServerInv, mainVars, serverVars, counters
<1>1. ASSUME MainStep \/ Acquire \/ Signal
      PROVE  ServerInv'
  <2>1. UNCHANGED <<ss, command>> /\ (terminate => terminate')
    BY <1>1 DEF MainStep, Loop, LoopEnds, Housekeeping, Retention, Pull, StepEnds, ActionStarts,
                ActionEnds, PullInterrupted, Interrupted, Handle, JoinEs, JoinSs, Final, Dies,
                Acquire, Signal
  <2>2. pc' \in {"joinEs", "joinSs", "final", "exit"} => terminate
    BY <1>1 DEF MainStep, Loop, LoopEnds, Housekeeping, Retention, Pull, StepEnds, ActionStarts,
                ActionEnds, PullInterrupted, Interrupted, Handle, JoinEs, JoinSs, Final, Dies,
                Acquire, Signal, Due, Doing, Waiting
  <2> QED
    BY <2>1, <2>2
<1>2. CASE EsStep \/ EsAcquire \/ EsReceive \/ Write
  BY <1>2 DEF EsStep, EsReadPipe, EsProcess, EsEnds, EsAcquire, EsReceive, Write
<1>3. CASE SsStep \/ SsAcquire
  BY <1>3 DEF SsStep, SsDone, CommandDelete, CommandSync, CommandShutdown, CommandCreate, SsEnds, SsAcquire
<1>4. CASE SsReceive
  <2>1. None \notin Commands
    BY DEF None, CommandSet
  <2> QED
    BY <1>4, <2>1 DEF SsReceive
<1>5. CASE UNCHANGED vars
  BY <1>5 DEF vars
<1> QED
  BY <1>1, <1>2, <1>3, <1>4, <1>5 DEF Next

\* The guards of MainStep and Acquire, EsStep and EsAcquire, SsStep and
\* SsAcquire: the thread can take its next step, without a signal, message or
\* command from outside.  (A signal may hit the main thread before it waits, but
\* that is not relied on.)
MainGoesOn ==
  \/ pc \in {"sleep", "handler", "final"} \cup Inside
  \/ pc \in Waiting /\ lock = None
  \/ pc = "joinEs" /\ es = "ended"
  \/ pc = "joinSs" /\ ss = "ended"
EsGoesOn == es = "work" \/ (es = "lock" /\ lock = None) \/ (es = "select" /\ terminate)
SsGoesOn ==
  \/ ss = "work" /\ command \in Commands /\ (command = "CREATE" => pipe < PipeSize)
  \/ ss = "lock" /\ lock = None
  \/ ss = "select" /\ terminate

\* A daemon that has not ended goes on, or is stuck in one of the three ways.
NoDeadlock == pc = "exit" \/ Stuck \/ MainGoesOn \/ EsGoesOn \/ SsGoesOn

\* For all signals and commands, the three threads never wait for each other but
\* in the ways that Stuck names, and who shuts down is not left waiting.
THEOREM OnlyStuckIsStuck == Spec => []NoDeadlock
<1>1. Init => TypeOK /\ Owners /\ ServerInv
  BY TypeInit DEF Init, Owners, Inside, None, ServerInv
<1>2. TypeOK /\ Owners /\ ServerInv => NoDeadlock
  <2> SUFFICES ASSUME TypeOK, Owners, ServerInv, pc # "exit", ~Stuck, ~MainGoesOn, ~SsGoesOn
               PROVE  EsGoesOn
    BY DEF NoDeadlock
  <2>1. lock # "main" /\ lock # "ss"
    <3>1. lock = "main" => pc \in Inside
      BY DEF Stuck
    <3>2. ss = "work" => command \in Commands /\ (command = "CREATE" => pipe < PipeSize)
      BY DEF TypeOK, ServerInv, Stuck
    <3> QED
      BY <3>1, <3>2 DEF MainGoesOn, SsGoesOn, Owners
  <2>2. lock = None \/ es = "work"
    BY <2>1 DEF TypeOK, Owners
  <2>3. CASE lock = None
    <3>1. pc \in {"joinEs", "joinSs"} /\ terminate
      BY <2>3 DEF TypeOK, Pc, MainGoesOn, Stuck, ServerInv
    <3>2. ss = "ended"
      BY <2>3, <3>1 DEF TypeOK, SsGoesOn, Owners, None
    <3>3. pc = "joinEs" /\ es # "ended"
      BY <3>1, <3>2 DEF MainGoesOn
    <3> QED
      BY <2>3, <3>1, <3>3 DEF TypeOK, EsGoesOn
  <2> QED
    BY <2>2, <2>3 DEF EsGoesOn
<1> QED
  BY <1>1, <1>2, TypeStep, OwnersStep, ServerStep, PTL DEF Spec
=============================================================================
