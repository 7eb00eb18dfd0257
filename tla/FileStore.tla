----------------------------- MODULE FileStore -------------------------------
(***************************************************************************)
(* cmk/utils/store.py: several processes load one file with lock=True,     *)
(* change what they have read and save it.                                 *)
(*                                                                         *)
(* The lock is a flock on the file itself.  save_file writes a new file    *)
(* and renames it to the path, so a process can find that it has waited    *)
(* for the lock of a file that the path does not name any more, while      *)
(* another one has locked the new file.  Hence the loop of aquire_lock.    *)
(*                                                                         *)
(* Files are numbered in the order of their creation; data[i] is the       *)
(* content of the i-th one, 0 if it is empty, which loads as the default.  *)
(***************************************************************************)
EXTENDS Naturals, Sequences

CONSTANTS
  Proc,      \* the processes: requests of the GUI, cron jobs, checkers
  Timeouts,  \* whether an MKTimeout (a request timeout) can occur
  MaxFiles   \* bound: files that are created

ASSUME StoreAssumption == Timeouts \in BOOLEAN /\ MaxFiles \in Nat

VARIABLES
  data,      \* the content of every file
  path,      \* the file that the path names, 0 if there is none
  locked,    \* the files with an exclusive flock
  pc,        \* where each process is in its load, change and save
  fd,        \* the file it has opened to lock it
  fdNew,     \* the file it has opened to compare
  content,   \* what it has loaded
  tmp,       \* its temporary file
  leaked     \* the files it has locked and does not know of any more

vars == <<data, path, locked, pc, fd, fdNew, content, tmp, leaked>>

Acquiring == {"flock", "reopen", "compare"}
Critical == {"locked", "loaded", "tmp", "written"}
Pc == {"idle", "release"} \cup Acquiring \cup Critical
File == 1..Len(data)

\* The types: among others, the path and the locks are of files that exist.
TypeOK ==
  /\ data \in Seq(Nat)
  /\ path \in 0..Len(data)
  /\ locked \subseteq File
  /\ pc \in [Proc -> Pc]
  /\ fd \in [Proc -> Nat]
  /\ fdNew \in [Proc -> Nat]
  /\ content \in [Proc -> Nat]
  /\ tmp \in [Proc -> Nat]
  /\ leaked \in [Proc -> SUBSET File]

Init ==
  /\ data = << >> /\ path = 0
  /\ locked = {}
  /\ pc = [p \in Proc |-> "idle"]
  /\ fd = [p \in Proc |-> 0]
  /\ fdNew = [p \in Proc |-> 0]
  /\ content = [p \in Proc |-> 0]
  /\ tmp = [p \in Proc |-> 0]
  /\ leaked = [p \in Proc |-> {}]

Goto(p, new) == pc' = [pc EXCEPT ![p] = new]

\* The process is back from its call; its variables go away.
Return(p) ==
  /\ Goto(p, "idle")
  /\ fd' = [fd EXCEPT ![p] = 0]
  /\ fdNew' = [fdNew EXCEPT ![p] = 0]
  /\ content' = [content EXCEPT ![p] = 0]
  /\ tmp' = [tmp EXCEPT ![p] = 0]

-----------------------------------------------------------------------------
(* aquire_lock                                                             *)

\* os.open with O_CREAT
Open(p) ==
  /\ pc[p] = "idle"
  /\ IF path = 0
     THEN /\ Len(data) < MaxFiles
          /\ data' = Append(data, 0)
          /\ path' = Len(data) + 1
     ELSE UNCHANGED <<data, path>>
  /\ fd' = [fd EXCEPT ![p] = path']
  /\ Goto(p, "flock")
  /\ UNCHANGED <<locked, fdNew, content, tmp, leaked>>

\* Mutant: a process that has found the file renamed locks the next one
\* before it has opened it.
BugFlock(p) ==
  /\ pc[p] = "flock" /\ fd[p] \notin locked
  /\ locked' = locked \cup {fdNew[p]}
  /\ Goto(p, "reopen")
  /\ UNCHANGED <<data, path, fd, fdNew, content, tmp, leaked>>

Flock(p) ==
  /\ pc[p] = "flock" /\ fd[p] \notin locked
  /\ locked' = locked \cup {fd[p]}
  /\ Goto(p, "reopen")
  /\ UNCHANGED <<data, path, fd, fdNew, content, tmp, leaked>>

\* try_aquire_lock does not wait.
TryFails(p) ==
  /\ pc[p] = "flock" /\ fd[p] \in locked
  /\ Return(p)
  /\ UNCHANGED <<data, path, locked, leaked>>

Reopen(p) ==
  /\ pc[p] = "reopen"
  /\ fdNew' = [fdNew EXCEPT ![p] = path]
  /\ Goto(p, "compare")
  /\ UNCHANGED <<data, path, locked, fd, content, tmp, leaked>>

\* Mutant: a lock that has been waited for is taken for the right one.
BugSameFile(p) ==
  /\ pc[p] = "compare"
  /\ Goto(p, "locked")
  /\ UNCHANGED <<data, path, locked, fd, fdNew, content, tmp, leaked>>

SameFile(p) ==
  /\ pc[p] = "compare" /\ fd[p] = fdNew[p]
  /\ Goto(p, "locked")
  /\ UNCHANGED <<data, path, locked, fd, fdNew, content, tmp, leaked>>

Renamed(p) ==
  /\ pc[p] = "compare" /\ fd[p] # fdNew[p]
  /\ locked' = locked \ {fd[p]}
  /\ fd' = [fd EXCEPT ![p] = fdNew[p]]
  /\ Goto(p, "flock")
  /\ UNCHANGED <<data, path, fdNew, content, tmp, leaked>>

\* A timeout inside of aquire_lock: the file is not in _acquired_locks yet,
\* so nobody closes it.
Timeout(p) ==
  /\ Timeouts /\ pc[p] \in Acquiring
  /\ leaked' = [leaked EXCEPT ![p] = @ \cup IF pc[p] = "flock" THEN {} ELSE {fd[p]}]
  /\ Return(p)
  /\ UNCHANGED <<data, path, locked>>

-----------------------------------------------------------------------------
(* load_data_from_file, save_file, release_lock                            *)

Load(p) ==
  /\ pc[p] = "locked"
  /\ content' = [content EXCEPT ![p] = data[path]]
  /\ Goto(p, "loaded")
  /\ UNCHANGED <<data, path, locked, fd, fdNew, tmp, leaked>>

CreateTmp(p) ==
  /\ pc[p] = "loaded" /\ Len(data) < MaxFiles
  /\ data' = Append(data, 0)
  /\ tmp' = [tmp EXCEPT ![p] = Len(data) + 1]
  /\ Goto(p, "tmp")
  /\ UNCHANGED <<path, locked, fd, fdNew, content, leaked>>

WriteTmp(p) ==
  /\ pc[p] = "tmp"
  /\ data' = [data EXCEPT ![tmp[p]] = content[p] + 1]
  /\ Goto(p, "written")
  /\ UNCHANGED <<path, locked, fd, fdNew, content, tmp, leaked>>

Rename(p) ==
  /\ pc[p] = "written"
  /\ path' = tmp[p]
  /\ Goto(p, "release")
  /\ UNCHANGED <<data, locked, fd, fdNew, content, tmp, leaked>>

\* The file is not saved, after an exception or because nothing has changed:
\* load_data_from_file, save_file or the end of the request release the lock.
GiveUp(p) ==
  /\ pc[p] \in Critical
  /\ Goto(p, "release")
  /\ UNCHANGED <<data, path, locked, fd, fdNew, content, tmp, leaked>>

\* Mutant: an exception leaves the lock to the garbage collector.
BugRelease(p) ==
  /\ pc[p] = "release" /\ path = tmp[p]
  /\ locked' = locked \ {fd[p]}
  /\ Return(p)
  /\ UNCHANGED <<data, path, leaked>>

Release(p) ==
  /\ pc[p] = "release"
  /\ locked' = locked \ {fd[p]}
  /\ Return(p)
  /\ UNCHANGED <<data, path, leaked>>

\* The process dies: the kernel releases its locks.
Crash(p) ==
  /\ locked' = locked \ (leaked[p] \cup IF pc[p] \in {"idle", "flock"} THEN {} ELSE {fd[p]})
  /\ leaked' = [leaked EXCEPT ![p] = {}]
  /\ Return(p)
  /\ UNCHANGED <<data, path>>

-----------------------------------------------------------------------------
Step(p) ==
  \/ Reopen(p) \/ SameFile(p) \/ Renamed(p)
  \/ Load(p) \/ CreateTmp(p) \/ WriteTmp(p) \/ Rename(p) \/ Release(p)

Next == \E p \in Proc :
  Open(p) \/ Flock(p) \/ TryFails(p) \/ Timeout(p) \/ GiveUp(p) \/ Crash(p) \/ Step(p)

Spec == Init /\ [][Next]_vars

\* A process that works goes on; the kernel grants a lock at last that is free
\* again and again; and no process keeps a lock for ever (no request lasts
\* for ever), even if the bound on the files does not let it save.
Fairness == \A p \in Proc : WF_vars(Step(p)) /\ SF_vars(Flock(p)) /\ WF_vars(GiveUp(p))
FairSpec == Spec /\ Fairness

-----------------------------------------------------------------------------
Value == IF path = 0 THEN 0 ELSE data[path]
Owners == {p \in Proc : pc[p] \in Critical}

\* What load and save promise: loading, changing and saving is atomic, no update is lost, and whoever
\* reads the file without the lock sees complete values only, in their order.
Atomic == INSTANCE AtomicFile WITH value <- Value, owners <- Owners

\* aquire_lock, the load, save_file and release_lock implement AtomicFile.
AtomicSpec == Atomic!Spec

\* A process that waits in aquire_lock gets the lock of the file that the path
\* names then, unless it gives up itself, however often the file is replaced;
\* only a lock that a timeout has left behind can keep it from that.
Granted ==
  \A p \in Proc : pc[p] = "flock" ~> pc[p] \notin Acquiring \/ \E q \in Proc : leaked[q] # {}

=============================================================================
