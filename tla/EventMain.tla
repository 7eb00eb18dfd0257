------------------------------ MODULE EventMain ------------------------------
(***************************************************************************)
(* The life of the Event Console daemon: the loop of its main thread       *)
(* (run_eventd), signals, the commands that stop or reload it, the event   *)
(* pipe and the saving of the event status.                                *)
(*                                                                         *)
(* A signal handler runs in the main thread, between two bytecodes, and    *)
(* raises MKSignalException there.  While the main thread waits in C for a *)
(* lock or a join, the handler has to wait, too.  The event status is      *)
(* abstracted to the number of changes that were made to it.               *)
(***************************************************************************)
EXTENDS Naturals

CONSTANTS
  Signals,     \* the signals that are sent: "HUP", "TERM"
  Hits,        \* the steps of the main thread in which they arrive
  Commands,    \* the commands that are sent
  PipeSize,    \* messages that the pipe can hold
  MaxSignals,  \* bound: signals
  MaxMessages, \* bound: messages written to the pipe by other programs
  MaxChanges   \* bound: changes of the event status

VARIABLES
  pc,         \* of the main thread
  pending,    \* the signal that has arrived and has not been handled yet
  handling,   \* the signal that is being handled
  terminate,  \* the terminate events of the three threads
  es, ss,     \* where the EventServer and the StatusServer are
  command,    \* what the StatusServer executes
  lock,       \* the owner of event_status.lock
  pipe,       \* number of messages in the pipe
  state,      \* the event status
  file,       \* the status file
  signals,    \* number of signals sent
  messages    \* number of messages written

mainVars == <<pc, pending, handling>>
serverVars == <<es, ss, command>>
counters == <<signals, messages>>
vars == <<mainVars, serverVars, terminate, lock, pipe, state, file, counters>>

None == "none"
Waiting == {"hkLock", "saveLock", "pullLock"}
Inside == {"hk", "action", "save", "pull"}
Pc == {"sleep", "handler", "joinEs", "joinSs", "final", "exit", "dead"} \cup Waiting \cup Inside
CommandSet == {"DELETE", "SYNC", "CREATE", "SHUTDOWN"}

ASSUME MainAssumption ==
  /\ Signals \subseteq {"HUP", "TERM"} /\ Hits \subseteq Pc
  /\ Commands \subseteq CommandSet
  /\ PipeSize \in Nat /\ MaxSignals \in Nat /\ MaxMessages \in Nat /\ MaxChanges \in Nat

\* The types: the pipe never holds more than it can, or less than nothing.
TypeOK ==
  /\ pc \in Pc
  /\ pending \in Signals \cup {None} /\ handling \in Signals \cup {None}
  /\ terminate \in BOOLEAN
  /\ es \in {"select", "lock", "work", "ended"}
  /\ ss \in {"select", "lock", "work", "ended"}
  /\ command \in Commands \cup {None}
  /\ lock \in {None, "main", "es", "ss"}
  /\ pipe \in 0..PipeSize
  /\ state \in 0..MaxChanges /\ file \in 0..MaxChanges
  /\ signals \in Nat /\ messages \in Nat

Init ==
  /\ pc = "sleep" /\ pending = None /\ handling = None
  /\ terminate = FALSE
  /\ es = "select" /\ ss = "select" /\ command = None
  /\ lock = None
  /\ pipe = 0 /\ state = 0 /\ file = 0
  /\ signals = 0 /\ messages = 0

\* The event status changes, or not.
Work == \E n \in {state, state + 1} : n <= MaxChanges /\ state' = n

-----------------------------------------------------------------------------
(* The main thread.                                                        *)

Doing == [hkLock |-> "hk", saveLock |-> "save", pullLock |-> "pull"]

\* Mutant: the retention is only due after a pull.
BugDue(step) ==
  CASE step = "sleep" -> {"hkLock", "pullLock"}
    [] step = "hk" -> {"pullLock"}
    [] step = "pull" -> {"saveLock"}
    [] OTHER -> {}

\* What may be due after a step of the loop, in the order of the loop.
Due(step) ==
  CASE step = "sleep" -> Waiting
    [] step = "hk" -> {"saveLock", "pullLock"}
    [] step = "save" -> {"pullLock"}
    [] OTHER -> {}

Loop ==
  /\ pc = "sleep" /\ pending = None /\ ~terminate
  /\ pc' \in Due("sleep")
  /\ UNCHANGED <<pending, handling, serverVars, terminate, lock, pipe, state, file, counters>>

LoopEnds ==
  /\ pc = "sleep" /\ pending = None /\ terminate
  /\ pc' = "joinEs"
  /\ UNCHANGED <<pending, handling, serverVars, terminate, lock, pipe, state, file, counters>>

\* A signal that arrives while the main thread waits is handled when it has
\* got the lock, but before the with statement knows of it.
Acquire ==
  /\ pc \in Waiting /\ lock = None
  /\ lock' = "main"
  /\ pc' = IF pending = None THEN Doing[pc] ELSE "handler"
  /\ handling' = pending /\ pending' = None
  /\ UNCHANGED <<serverVars, terminate, pipe, state, file, counters>>

\* The step is over, the lock is given back, and the next step begins.
StepEnds(step) ==
  /\ pc = step /\ pending = None
  /\ lock' = None
  /\ pc' \in Due(step) \cup {"sleep"}
  /\ UNCHANGED <<pending, handling, serverVars, terminate, pipe, counters>>

Housekeeping == StepEnds("hk") /\ Work /\ UNCHANGED file
Retention == StepEnds("save") /\ file' = state /\ UNCHANGED state
Pull == StepEnds("pull") /\ Work /\ UNCHANGED file

\* A rule action of an event that the housekeeping opens or creates.
ActionStarts ==
  /\ pc = "hk" /\ pending = None /\ pc' = "action"
  /\ UNCHANGED <<pending, handling, serverVars, terminate, lock, pipe, state, file, counters>>

ActionEnds ==
  /\ pc = "action" /\ pc' = "hk"
  /\ pending' = None  \* "except Exception" in do_event_action
  /\ UNCHANGED <<handling, serverVars, terminate, lock, pipe, state, file, counters>>

\* "except Exception" in get_state_from_master and replication_pull
PullInterrupted ==
  /\ pc = "pull" /\ pending # None
  /\ pending' = None /\ lock' = None /\ pc' = "sleep"
  /\ UNCHANGED <<handling, serverVars, terminate, pipe, state, file, counters>>

\* Mutant: the lock is released whether the main thread has it or not.
BugInterrupted ==
  /\ pc \in {"sleep", "hk", "save", "pull"} \cup Waiting /\ pending # None
  /\ pc' = "handler" /\ handling' = pending /\ pending' = None
  /\ lock' = None
  /\ UNCHANGED <<serverVars, terminate, pipe, state, file, counters>>

\* The exception leaves the with statements and reaches the loop.
Interrupted ==
  /\ pc \in {"sleep", "hk", "save", "pull"} \cup Waiting /\ pending # None
  /\ pc' = "handler" /\ handling' = pending /\ pending' = None
  /\ lock' = IF pc \in Inside THEN None ELSE lock
  /\ UNCHANGED <<serverVars, terminate, pipe, state, file, counters>>

\* Mutant: a signal stops the main thread only.
BugHandle ==
  /\ pc = "handler" /\ pending = None
  /\ pc' = IF handling = "TERM" THEN "joinEs" ELSE "sleep"
  /\ handling' = None
  /\ UNCHANGED <<pending, serverVars, terminate, lock, pipe, state, file, counters>>

\* reload_configuration or terminate
Handle ==
  /\ pc = "handler" /\ pending = None
  /\ terminate' = (terminate \/ handling = "TERM")
  /\ pc' = "sleep" /\ handling' = None
  /\ UNCHANGED <<pending, serverVars, lock, pipe, state, file, counters>>

JoinEs ==
  /\ pc = "joinEs" /\ es = "ended" /\ pending = None
  /\ pc' = "joinSs"
  /\ UNCHANGED <<pending, handling, serverVars, terminate, lock, pipe, state, file, counters>>

\* Mutant: only the EventServer is waited for.
BugJoinSs ==
  /\ pc = "joinSs" /\ pending = None
  /\ pc' = "final"
  /\ UNCHANGED <<pending, handling, serverVars, terminate, lock, pipe, state, file, counters>>

JoinSs ==
  /\ pc = "joinSs" /\ ss = "ended" /\ pending = None
  /\ pc' = "final"
  /\ UNCHANGED <<pending, handling, serverVars, terminate, lock, pipe, state, file, counters>>

\* The pipe is drained, and the status is saved once more.
Final ==
  /\ pc = "final" /\ pending = None
  /\ pipe' = 0 /\ file' = state
  /\ pc' = "exit"
  /\ UNCHANGED <<pending, handling, serverVars, terminate, lock, state, counters>>

\* Outside of the loop nobody catches the exception but main itself, which
\* ends the main thread by bail_out.
Dies ==
  /\ pending # None
  /\ \/ pc \in {"handler", "final"}
     \/ pc = "joinEs" /\ es = "ended"
     \/ pc = "joinSs" /\ ss = "ended"
  /\ pc' = "dead" /\ pending' = None /\ handling' = None
  /\ UNCHANGED <<serverVars, terminate, lock, pipe, state, file, counters>>

Signal ==
  /\ pc \in Hits /\ pending = None /\ signals < MaxSignals
  /\ pending' \in Signals
  /\ signals' = signals + 1
  /\ UNCHANGED <<pc, handling, serverVars, terminate, lock, pipe, state, file, messages>>

-----------------------------------------------------------------------------
(* The EventServer.                                                        *)

\* From a socket or the spool directory.
EsReceive ==
  /\ es = "select" /\ ~terminate
  /\ es' = "lock"
  /\ UNCHANGED <<mainVars, ss, command, terminate, lock, pipe, state, file, counters>>

\* Mutant: the pipe is read without data in it.
BugEsReadPipe ==
  /\ es = "select" /\ ~terminate
  /\ pipe' = pipe - 1
  /\ es' = "lock"
  /\ UNCHANGED <<mainVars, ss, command, terminate, lock, state, file, counters>>

\* select reports a pipe with data, and the data is read.
EsReadPipe ==
  /\ es = "select" /\ ~terminate /\ pipe > 0
  /\ pipe' = pipe - 1
  /\ es' = "lock"
  /\ UNCHANGED <<mainVars, ss, command, terminate, lock, state, file, counters>>

EsAcquire ==
  /\ es = "lock" /\ lock = None
  /\ es' = "work" /\ lock' = "es"
  /\ UNCHANGED <<mainVars, ss, command, terminate, pipe, state, file, counters>>

EsProcess ==
  /\ es = "work" /\ Work
  /\ es' = "select" /\ lock' = None
  /\ UNCHANGED <<mainVars, ss, command, terminate, pipe, file, counters>>

EsEnds ==
  /\ es = "select" /\ terminate
  /\ es' = "ended"
  /\ UNCHANGED <<mainVars, ss, command, terminate, lock, pipe, state, file, counters>>

\* Other programs write messages; they wait while the pipe is full.
Write ==
  /\ messages < MaxMessages /\ pipe < PipeSize
  /\ pipe' = pipe + 1 /\ messages' = messages + 1
  /\ UNCHANGED <<mainVars, serverVars, terminate, lock, state, file, signals>>

-----------------------------------------------------------------------------
(* The StatusServer.                                                       *)

SsReceive ==
  /\ ss = "select" /\ ~terminate
  /\ command' \in Commands
  /\ ss' = "lock"
  /\ UNCHANGED <<mainVars, es, terminate, lock, pipe, state, file, counters>>

SsAcquire ==
  /\ ss = "lock" /\ lock = None
  /\ ss' = "work" /\ lock' = "ss"
  /\ UNCHANGED <<mainVars, es, command, terminate, pipe, state, file, counters>>

SsDone(c) ==
  /\ ss = "work" /\ command = c
  /\ ss' = "select" /\ command' = None /\ lock' = None
  /\ UNCHANGED <<mainVars, es, counters>>

CommandDelete == SsDone("DELETE") /\ Work /\ UNCHANGED <<terminate, pipe, file>>
CommandSync == SsDone("SYNC") /\ file' = state /\ UNCHANGED <<terminate, pipe, state>>
CommandShutdown == SsDone("SHUTDOWN") /\ terminate' = TRUE /\ UNCHANGED <<pipe, state, file>>

\* The message is written to the pipe, which blocks while the pipe is full.
CommandCreate ==
  /\ SsDone("CREATE") /\ pipe < PipeSize
  /\ pipe' = pipe + 1
  /\ UNCHANGED <<terminate, state, file>>

SsEnds ==
  /\ ss = "select" /\ terminate
  /\ ss' = "ended"
  /\ UNCHANGED <<mainVars, es, command, terminate, lock, pipe, state, file, counters>>

-----------------------------------------------------------------------------
MainStep ==
  \/ Loop \/ LoopEnds \/ Housekeeping \/ Retention \/ Pull \/ ActionStarts \/ ActionEnds
  \/ PullInterrupted \/ Interrupted \/ Handle \/ JoinEs \/ JoinSs \/ Final \/ Dies

EsStep == EsReadPipe \/ EsProcess \/ EsEnds
SsStep == CommandDelete \/ CommandSync \/ CommandShutdown \/ CommandCreate \/ SsEnds

Next == MainStep \/ Acquire \/ EsStep \/ EsAcquire \/ SsStep \/ SsAcquire
        \/ EsReceive \/ SsReceive \/ Signal \/ Write

Spec == Init /\ [][Next]_vars

\* The threads are scheduled fairly, a lock that is free again and again is
\* granted at last, and the retention is due again and again.
Fairness ==
  /\ WF_vars(MainStep) /\ WF_vars(EsStep) /\ WF_vars(SsStep)
  /\ SF_vars(Acquire) /\ SF_vars(EsAcquire) /\ SF_vars(SsAcquire)
  /\ SF_vars(Loop /\ pc' = "saveLock") /\ SF_vars(Housekeeping)
  /\ WF_vars(Retention)

FairSpec == Spec /\ Fairness

-----------------------------------------------------------------------------
(* Properties.                                                             *)

\* event_status.lock is owned by the thread that works with the event status,
\* wherever a signal interrupts the main thread.
Owners ==
  /\ lock = "es" <=> es = "work"
  /\ lock = "ss" <=> ss = "work"
  /\ pc \in Inside => lock = "main"

\* Whatever signals and commands come in between, a daemon that shuts down
\* properly has stopped its servers first and has lost no change.
CleanExit == pc = "exit" => es = "ended" /\ ss = "ended" /\ file = state

\* The three ways in which the daemon can get stuck: the main thread has died,
\* or has left its with statement without giving the lock back, or CREATE
\* waits for the reader of the pipe, which waits for the lock of CREATE.
Stuck ==
  \/ pc = "dead"
  \/ pc \notin Inside /\ lock = "main"
  \/ ss = "work" /\ command = "CREATE" /\ pipe = PipeSize

\* A SIGTERM that the loop gets to see, and the command SHUTDOWN, stop the
\* daemon: terminate reaches all three threads, and main joins them.
Exits == handling = "TERM" \/ terminate ~> pc = "exit" \/ Stuck

\* Every change of the event status is saved in the end (save_status), so that
\* a later crash does not lose it.
Retained == \A n \in 1..MaxChanges : state >= n ~> file >= n \/ Stuck
=============================================================================
