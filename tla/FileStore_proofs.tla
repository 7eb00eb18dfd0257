-------------------------- MODULE FileStore_proofs ---------------------------
(***************************************************************************)
(* Theorems about FileStore, for any number of processes and files.        *)
(***************************************************************************)
EXTENDS FileStore, TLAPS

Held(p) == pc[p] \in {"reopen", "compare", "release"} \cup Critical

\* What a process has opened exists, and once there is a file there always is.
FileInv ==
  /\ \A p \in Proc : pc[p] # "idle" => fd[p] \in File /\ path \in File
  /\ \A p \in Proc : pc[p] = "compare" => fdNew[p] \in File

\* Each file is locked by one process at most, and a process that knows of its
\* lock shares it with nobody.
LockInv ==
  /\ \A p \in Proc : Held(p) => fd[p] \in locked
  /\ \A p, q \in Proc : Held(p) /\ Held(q) /\ fd[p] = fd[q] => p = q
  /\ \A p, q \in Proc : Held(p) => fd[p] \notin leaked[q]
  /\ \A p \in Proc : leaked[p] \subseteq locked
  /\ \A p, q \in Proc : p # q => leaked[p] \cap leaked[q] = {}

\* The file that was compared, or is about to be replaced, is still the one
\* that the path names.
PathInv ==
  /\ \A p \in Proc : pc[p] \in Critical => fd[p] = path
  /\ \A p \in Proc : pc[p] = "compare" /\ fdNew[p] = fd[p] => fd[p] = path

\* What is going to be saved continues what the file contains now.
ContentInv ==
  /\ \A p \in Proc : pc[p] \in {"loaded", "tmp"} => content[p] = data[path]
  /\ \A p \in Proc : pc[p] \in {"tmp", "written"} => tmp[p] \in File /\ tmp[p] # path
  /\ \A p \in Proc : pc[p] = "written" => data[tmp[p]] = data[path] + 1

Inv == TypeOK /\ FileInv /\ LockInv /\ PathInv /\ ContentInv

-----------------------------------------------------------------------------
LEMMA InitInv ==
  ASSUME Init
  PROVE  Inv
<1>1. TypeOK
  BY DEF Init, TypeOK, Pc, Acquiring, Critical, File
<1>2. \A p \in Proc : pc[p] = "idle" /\ leaked[p] = {}
  BY DEF Init
<1> QED
  BY <1>1, <1>2 DEF Inv, FileInv, LockInv, PathInv, ContentInv, Held, Critical

\* At most one process may replace the file.
LEMMA OneOwner ==
  ASSUME Inv
  PROVE  \A p, q \in Owners : p = q
<1>1. \A p \in Owners : p \in Proc /\ Held(p) /\ fd[p] = path
  BY DEF Owners, Inv, PathInv, Held
<1> QED
  BY <1>1 DEF Inv, LockInv

LEMMA AppendData ==
  ASSUME data \in Seq(Nat), NEW n \in Nat, data' = Append(data, n)
  PROVE  /\ data' \in Seq(Nat) /\ Len(data') = Len(data) + 1
         /\ File \subseteq File' /\ Len(data) + 1 \in File' /\ Len(data) + 1 \notin File
         /\ \A f \in File : data'[f] = data[f]
         /\ data'[Len(data) + 1] = n
  BY DEF File

\* The files: none vanishes, and only the temporary file of a process changes.
LEMMA FilesStep ==
  ASSUME Inv, NEW p \in Proc,
         Open(p) \/ Flock(p) \/ TryFails(p) \/ Timeout(p) \/ GiveUp(p) \/ Crash(p) \/ Step(p)
  PROVE  /\ data' \in Seq(Nat) /\ File \subseteq File' /\ path' \in 0..Len(data')
         /\ path \in File => path' \in File'
         /\ \A f \in File : data'[f] = data[f] \/ (f = tmp[p] /\ pc[p] = "tmp")
<1> USE DEF Inv
<1>0. data \in Seq(Nat) /\ Len(data) \in Nat /\ path \in 0..Len(data)
  BY DEF TypeOK
<1>1. CASE UNCHANGED <<data, path>>
  BY <1>0, <1>1 DEF File
<1>2. CASE Open(p) /\ path = 0
  BY <1>0, <1>2, AppendData DEF Open, File
<1>3. CASE CreateTmp(p)
  BY <1>0, <1>3, AppendData DEF CreateTmp, File
<1>4. CASE WriteTmp(p)
  <2>1. tmp[p] \in File /\ content[p] + 1 \in Nat
    BY <1>4 DEF WriteTmp, ContentInv, TypeOK
  <2> QED
    BY <1>0, <1>4, <2>1 DEF WriteTmp, File
<1>5. CASE Rename(p)
  <2>1. tmp[p] \in File
    BY <1>5 DEF Rename, ContentInv
  <2> QED
    BY <1>0, <1>5, <2>1 DEF Rename, File
<1> QED
  BY <1>1, <1>2, <1>3, <1>4, <1>5
  DEF Open, Flock, TryFails, Timeout, GiveUp, Crash, Step, Reopen, SameFile, Renamed, Load, Release

LEMMA LocalTypes ==
  ASSUME Inv, NEW p \in Proc,
         Open(p) \/ Flock(p) \/ TryFails(p) \/ Timeout(p) \/ GiveUp(p) \/ Crash(p) \/ Step(p)
  PROVE  /\ pc' \in [Proc -> Pc] /\ fd' \in [Proc -> Nat] /\ fdNew' \in [Proc -> Nat]
         /\ content' \in [Proc -> Nat] /\ tmp' \in [Proc -> Nat]
<1> USE DEF Inv
<1>0. /\ pc \in [Proc -> Pc] /\ fd \in [Proc -> Nat] /\ fdNew \in [Proc -> Nat]
      /\ content \in [Proc -> Nat] /\ tmp \in [Proc -> Nat]
      /\ data \in Seq(Nat) /\ Len(data) \in Nat /\ path \in Nat
  BY DEF TypeOK
<1>1. CASE Return(p)
  BY <1>0, <1>1 DEF Return, Goto, Pc
<1>2. CASE Open(p)
  <2>1. path' \in Nat
    BY <1>0, <1>2 DEF Open
  <2> QED
    BY <1>0, <1>2, <2>1 DEF Open, Goto, Pc, Acquiring
<1>3. CASE Flock(p) \/ Reopen(p) \/ SameFile(p) \/ Renamed(p)
  BY <1>0, <1>3 DEF Flock, Reopen, SameFile, Renamed, Goto, Pc, Acquiring, Critical
<1>4. CASE Load(p)
  <2>1. data[path] \in Nat
    BY <1>0, <1>4 DEF Load, FileInv, File
  <2> QED
    BY <1>0, <1>4, <2>1 DEF Load, Goto, Pc, Critical
<1>5. CASE WriteTmp(p) \/ Rename(p) \/ GiveUp(p)
  BY <1>0, <1>5 DEF WriteTmp, Rename, GiveUp, Goto, Pc, Critical
<1>6. CASE CreateTmp(p)
  <2>1. pc' = [pc EXCEPT ![p] = "tmp"] /\ tmp' = [tmp EXCEPT ![p] = Len(data) + 1]
        /\ UNCHANGED <<fd, fdNew, content>>
    BY <1>6 DEF CreateTmp, Goto
  <2>2. Len(data) + 1 \in Nat
    BY <1>0
  <2> QED
    BY <1>0, <2>1, <2>2 DEF Pc, Critical
<1> QED
  BY <1>1, <1>2, <1>3, <1>4, <1>5, <1>6 DEF TryFails, Timeout, Crash, Step, Release

LEMMA FileInvStep ==
  ASSUME Inv, NEW p \in Proc,
         Open(p) \/ Flock(p) \/ TryFails(p) \/ Timeout(p) \/ GiveUp(p) \/ Crash(p) \/ Step(p)
  PROVE  FileInv'
<1> USE DEF Inv
<1>0. /\ pc \in [Proc -> Pc] /\ fd \in [Proc -> Nat] /\ fdNew \in [Proc -> Nat]
      /\ data \in Seq(Nat) /\ path \in 0..Len(data) /\ Len(data) \in Nat
      /\ File \subseteq File' /\ (path \in File => path' \in File')
  BY FilesStep DEF TypeOK
<1>1. CASE Return(p)
  BY <1>0, <1>1 DEF Return, Goto, FileInv
<1>2. CASE Open(p)
  <2>1. path' \in File'
    <3>1. CASE path = 0
      BY <1>0, <1>2, <3>1, AppendData DEF Open
    <3>2. CASE path # 0
      BY <1>0, <1>2, <3>2 DEF Open, File
    <3> QED
      BY <3>1, <3>2
  <2> QED
    BY <1>0, <1>2, <2>1 DEF Open, Goto, FileInv
<1>3. CASE Flock(p) \/ Reopen(p) \/ SameFile(p) \/ Renamed(p)
  BY <1>0, <1>3 DEF Flock, Reopen, SameFile, Renamed, Goto, FileInv
<1>4. CASE Load(p) \/ CreateTmp(p) \/ WriteTmp(p) \/ Rename(p) \/ GiveUp(p)
  BY <1>0, <1>4 DEF Load, CreateTmp, WriteTmp, Rename, GiveUp, Goto, FileInv, Critical
<1> QED
  BY <1>1, <1>2, <1>3, <1>4 DEF TryFails, Timeout, Crash, Step, Release

LEMMA LockInvStep ==
  ASSUME Inv, NEW p \in Proc,
         Open(p) \/ Flock(p) \/ TryFails(p) \/ Timeout(p) \/ GiveUp(p) \/ Crash(p) \/ Step(p)
  PROVE  LockInv' /\ locked' \subseteq File' /\ leaked' \in [Proc -> SUBSET File']
<1> USE DEF Inv
<1>0. /\ pc \in [Proc -> Pc] /\ fd \in [Proc -> Nat] /\ fdNew \in [Proc -> Nat]
      /\ leaked \in [Proc -> SUBSET File] /\ locked \subseteq File
      /\ File \subseteq File'
  BY FilesStep DEF TypeOK
<1>1. CASE Open(p) \/ TryFails(p)
  <2>1. /\ ~Held(p) /\ ~Held(p)' /\ UNCHANGED <<locked, leaked>>
        /\ pc' = [pc EXCEPT ![p] = pc'[p]] /\ fd' = [fd EXCEPT ![p] = fd'[p]]
    BY <1>0, <1>1 DEF Open, TryFails, Return, Goto, Held, Critical
  <2> QED
    BY <1>0, <2>1 DEF LockInv, Held
<1>2. CASE Flock(p)
  <2>1. fd[p] \in File
    BY <1>2 DEF Flock, FileInv
  <2> QED
    BY <1>0, <1>2, <2>1 DEF Flock, Goto, LockInv, Held, Critical
<1>3. CASE Reopen(p) \/ SameFile(p) \/ Load(p) \/ CreateTmp(p) \/ WriteTmp(p) \/ Rename(p) \/ GiveUp(p)
  <2>1. Held(p) /\ pc' = [pc EXCEPT ![p] = pc'[p]] /\ UNCHANGED <<locked, leaked, fd>>
    BY <1>0, <1>3 DEF Reopen, SameFile, Load, CreateTmp, WriteTmp, Rename, GiveUp, Goto, Held, Critical
  <2> QED
    BY <1>0, <2>1 DEF LockInv, Held
<1>4. CASE Renamed(p) \/ Release(p)
  <2>1. /\ Held(p) /\ locked' = locked \ {fd[p]} /\ UNCHANGED leaked
        /\ pc' = [pc EXCEPT ![p] = pc'[p]] /\ ~Held(p)' /\ fd' = [fd EXCEPT ![p] = fd'[p]]
    BY <1>0, <1>4 DEF Renamed, Release, Return, Goto, Held, Critical
  <2> QED
    BY <1>0, <2>1 DEF LockInv, Held
<1>5. CASE Timeout(p)
  <2>1. /\ pc' = [pc EXCEPT ![p] = "idle"] /\ fd' = [fd EXCEPT ![p] = 0]
        /\ UNCHANGED locked
        /\ leaked' = [leaked EXCEPT ![p] = @ \cup IF Held(p) THEN {fd[p]} ELSE {}]
    BY <1>0, <1>5 DEF Timeout, Return, Goto, Held, Critical, Acquiring
  <2> QED
    BY <1>0, <2>1 DEF LockInv, Held, Critical, FileInv
<1>6. CASE Crash(p)
  <2>1. /\ pc' = [pc EXCEPT ![p] = "idle"] /\ fd' = [fd EXCEPT ![p] = 0]
        /\ leaked' = [leaked EXCEPT ![p] = {}]
        /\ locked' = locked \ (leaked[p] \cup IF Held(p) THEN {fd[p]} ELSE {})
    BY <1>0, <1>6 DEF Crash, Return, Goto, Held, Critical, Pc, Acquiring
  <2> QED
    BY <1>0, <2>1 DEF LockInv, Held, Critical
<1> QED
  BY <1>1, <1>2, <1>3, <1>4, <1>5, <1>6 DEF Step

LEMMA PathInvStep ==
  ASSUME Inv, NEW p \in Proc,
         Open(p) \/ Flock(p) \/ TryFails(p) \/ Timeout(p) \/ GiveUp(p) \/ Crash(p) \/ Step(p)
  PROVE  PathInv'
<1> USE DEF Inv
<1>0. pc \in [Proc -> Pc] /\ fd \in [Proc -> Nat] /\ fdNew \in [Proc -> Nat] /\ path \in 0..Len(data)
  BY DEF TypeOK
<1>1. CASE Return(p) /\ UNCHANGED path
  BY <1>0, <1>1 DEF Return, Goto, PathInv, Critical
<1>2. CASE Open(p)
  <2>1. path # 0 => path' = path
    BY <1>2 DEF Open
  <2>2. path = 0 => \A q \in Proc : pc[q] = "idle"
    BY DEF FileInv, File
  <2> QED
    BY <1>0, <1>2, <2>1, <2>2 DEF Open, Goto, PathInv, Critical
<1>3. CASE Flock(p) \/ Reopen(p) \/ SameFile(p) \/ Renamed(p)
  BY <1>0, <1>3 DEF Flock, Reopen, SameFile, Renamed, Goto, PathInv, Critical
<1>4. CASE Load(p) \/ CreateTmp(p) \/ WriteTmp(p) \/ GiveUp(p)
  BY <1>0, <1>4 DEF Load, CreateTmp, WriteTmp, GiveUp, Goto, PathInv, Critical
<1>5. CASE Rename(p)
  <2>1. fd[p] = path /\ Held(p)
    BY <1>5 DEF Rename, PathInv, Critical, Held
  <2>2. \A q \in Proc : q # p => pc[q] \notin Critical /\ (pc[q] = "compare" => fd[q] # path)
    BY <2>1 DEF LockInv, PathInv, Held
  <2> QED
    BY <1>0, <1>5, <2>1, <2>2 DEF Rename, Goto, PathInv, Critical
<1> QED
  BY <1>1, <1>2, <1>3, <1>4, <1>5 DEF TryFails, Timeout, Crash, Step, Release

LEMMA ContentInvStep ==
  ASSUME Inv, NEW p \in Proc,
         Open(p) \/ Flock(p) \/ TryFails(p) \/ Timeout(p) \/ GiveUp(p) \/ Crash(p) \/ Step(p)
  PROVE  ContentInv'
<1> USE DEF Inv
<1>0. /\ pc \in [Proc -> Pc] /\ content \in [Proc -> Nat] /\ tmp \in [Proc -> Nat]
      /\ data \in Seq(Nat) /\ path \in 0..Len(data) /\ Len(data) \in Nat
      /\ File \subseteq File'
      /\ \A q \in Proc : pc[q] # "idle" => path \in File
  BY FilesStep DEF TypeOK, FileInv
<1>1. \A q \in Proc : pc[q] \in Critical /\ pc[p] \in Critical => q = p
  BY OneOwner DEF Owners
<1>2. CASE Return(p) /\ UNCHANGED <<data, path>>
  BY <1>0, <1>2 DEF Return, Goto, ContentInv, File
<1>3. CASE Open(p)
  <2>1. CASE path = 0
    BY <1>0, <1>3, <2>1 DEF Open, Goto, ContentInv, File
  <2>2. CASE path # 0
    BY <1>0, <1>3, <2>2 DEF Open, Goto, ContentInv, File
  <2> QED
    BY <2>1, <2>2
<1>4. CASE Flock(p) \/ Reopen(p) \/ SameFile(p) \/ Renamed(p)
  BY <1>0, <1>4 DEF Flock, Reopen, SameFile, Renamed, Goto, ContentInv, File
<1>5. CASE Load(p) \/ GiveUp(p)
  BY <1>0, <1>5 DEF Load, GiveUp, Goto, ContentInv, File
<1>6. CASE CreateTmp(p)
  <2>1. /\ \A f \in File : data'[f] = data[f]
        /\ Len(data) + 1 \in File' /\ Len(data) + 1 \notin File
    BY <1>0, <1>6, AppendData DEF CreateTmp
  <2>2. \A q \in Proc : q # p => pc'[q] \notin Critical
    BY <1>0, <1>1, <1>6 DEF CreateTmp, Goto, Critical
  <2>3. pc'[p] = "tmp" /\ tmp'[p] = Len(data) + 1 /\ content' = content /\ path' = path
    BY <1>0, <1>6 DEF CreateTmp, Goto
  <2>4. content[p] = data[path] /\ path \in File
    BY <1>0, <1>6 DEF CreateTmp, ContentInv
  <2> QED
    BY <2>1, <2>2, <2>3, <2>4 DEF ContentInv, Critical
<1>7. CASE WriteTmp(p)
  <2>1. tmp[p] \in File /\ tmp[p] # path /\ content[p] = data[path] /\ path \in File
    BY <1>0, <1>7 DEF WriteTmp, ContentInv
  <2>2. data'[tmp[p]] = data[path] + 1 /\ data'[path] = data[path]
    BY <1>0, <1>7, <2>1 DEF WriteTmp, File
  <2>3. \A q \in Proc : q # p => pc'[q] \notin Critical
    BY <1>0, <1>1, <1>7 DEF WriteTmp, Goto, Critical
  <2>4. pc'[p] = "written" /\ UNCHANGED <<tmp, path>>
    BY <1>0, <1>7 DEF WriteTmp, Goto
  <2> QED
    BY <1>0, <2>1, <2>2, <2>3, <2>4 DEF ContentInv, Critical
<1>8. CASE Rename(p)
  <2>1. \A q \in Proc : pc'[q] \notin Critical
    BY <1>0, <1>1, <1>8 DEF Rename, Goto, Critical
  <2> QED
    BY <2>1 DEF ContentInv, Critical
<1> QED
  BY <1>2, <1>3, <1>4, <1>5, <1>6, <1>7, <1>8 DEF TryFails, Timeout, Crash, Step, Release

LEMMA InvStep ==
  ASSUME Inv, [Next]_vars
  PROVE  Inv'
<1>1. CASE UNCHANGED vars
  BY <1>1 DEF vars, Inv, TypeOK, FileInv, LockInv, PathInv, ContentInv, Held, File
<1>2. ASSUME NEW p \in Proc,
             Open(p) \/ Flock(p) \/ TryFails(p) \/ Timeout(p) \/ GiveUp(p) \/ Crash(p) \/ Step(p)
      PROVE  Inv'
  <2>1. TypeOK'
    BY <1>2, FilesStep, LocalTypes, LockInvStep DEF TypeOK
  <2> QED
    BY <1>2, <2>1, FileInvStep, LockInvStep, PathInvStep, ContentInvStep DEF Inv
<1> QED
  BY <1>1, <1>2 DEF Next

\* The inductive invariant holds in every state.
THEOREM FileStoreInvariant == Spec => []Inv
  BY InitInv, InvStep, PTL DEF Spec

\* The variables have their types in every state.
THEOREM FileStoreTypeCorrect == Spec => []TypeOK
<1>1. Inv => TypeOK
  BY DEF Inv
<1> QED
  BY <1>1, FileStoreInvariant, PTL

\* What a process saves replaces what it has loaded: for any number of
\* processes, and whatever times out or crashes, each load, change and save is
\* atomic, and the file is never seen half written.
THEOREM FileStoreImplementsAtomic == Spec => AtomicSpec
<1>1. Init => Atomic!Init
  BY DEF Init, Atomic!Init, Value, Owners, Critical
<1>2. ASSUME Inv, [Next]_vars
      PROVE  [Atomic!Next]_<<Value, Owners>>
  <2>1. CASE UNCHANGED vars
    BY <2>1 DEF vars, Value, Owners
  <2>2. ASSUME NEW p \in Proc,
               Open(p) \/ Flock(p) \/ TryFails(p) \/ Timeout(p) \/ GiveUp(p) \/ Crash(p) \/ Step(p)
        PROVE  [Atomic!Next]_<<Value, Owners>>
    <3>0. /\ pc \in [Proc -> Pc] /\ data \in Seq(Nat) /\ path \in 0..Len(data) /\ Len(data) \in Nat
          /\ (p \in Owners => Owners = {p})
          /\ p \in Owners => path \in File
      BY <1>2, OneOwner DEF Inv, TypeOK, Owners, Critical, FileInv
    <3>1. CASE Rename(p)
      <4>1. Owners = {p} /\ Owners' = {}
        BY <3>0, <3>1 DEF Rename, Goto, Owners, Critical
      <4>2. path # 0 /\ path' # 0 /\ data'[path'] = data[path] + 1
        BY <1>2, <3>0, <3>1, <4>1 DEF Rename, Inv, ContentInv, File
      <4> QED
        BY <4>1, <4>2 DEF Value, Atomic!Next, Atomic!Put
    <3>2. CASE SameFile(p)
      <4>1. Owners = {}
        <5>1. Held(p) /\ fd[p] = path /\ p \notin Owners
          BY <1>2, <3>2 DEF SameFile, Inv, PathInv, Held, Owners, Critical
        <5>2. \A q \in Owners : q \in Proc /\ Held(q) /\ fd[q] = path
          BY <1>2 DEF Owners, Inv, PathInv, Held
        <5> QED
          BY <1>2, <5>1, <5>2 DEF Inv, LockInv
      <4>2. Owners' = {p}
        BY <3>0, <3>2, <4>1 DEF SameFile, Goto, Owners, Critical
      <4>3. Value' = Value
        BY <3>2 DEF SameFile, Value
      <4> QED
        BY <4>1, <4>2, <4>3 DEF Atomic!Next, Atomic!Take
    <3>3. CASE GiveUp(p) \/ Crash(p) \/ Timeout(p) \/ Release(p)
      <4>1. Owners' = Owners \ {p}
        BY <3>0, <3>3 DEF GiveUp, Crash, Timeout, Release, Return, Goto, Owners, Critical, Acquiring
      <4>2. Value' = Value
        BY <3>3 DEF GiveUp, Crash, Timeout, Release, Value
      <4> QED
        BY <3>0, <4>1, <4>2 DEF Atomic!Next, Atomic!Drop
    <3>4. CASE Load(p) \/ CreateTmp(p) \/ WriteTmp(p)
      <4>1. Owners' = Owners /\ p \in Owners
        BY <3>0, <3>4 DEF Load, CreateTmp, WriteTmp, Goto, Owners, Critical
      <4>2. data'[path] = data[path] /\ path' = path
        <5>1. pc[p] = "tmp" => tmp[p] # path
          BY <1>2 DEF Inv, ContentInv
        <5>2. path' = path
          BY <3>4 DEF Load, CreateTmp, WriteTmp
        <5> QED
          BY <1>2, <2>2, <3>0, <4>1, <5>1, <5>2, FilesStep
      <4> QED
        BY <4>1, <4>2 DEF Value
    <3>5. CASE Open(p)
      <4>1. Owners' = Owners
        BY <3>0, <3>5 DEF Open, Goto, Owners, Critical
      <4>2. Value' = Value
        BY <3>0, <3>5, AppendData DEF Open, Value
      <4> QED
        BY <4>1, <4>2
    <3>6. CASE Flock(p) \/ TryFails(p) \/ Reopen(p) \/ Renamed(p)
      <4>1. Owners' = Owners
        BY <3>0, <3>6 DEF Flock, TryFails, Reopen, Renamed, Return, Goto, Owners, Critical
      <4>2. Value' = Value
        BY <3>6 DEF Flock, TryFails, Reopen, Renamed, Value
      <4> QED
        BY <4>1, <4>2
    <3> QED
      BY <2>2, <3>1, <3>2, <3>3, <3>4, <3>5, <3>6 DEF Step
  <2> QED
    BY <1>2, <2>1, <2>2 DEF Next
<1> QED
  BY <1>1, <1>2, FileStoreInvariant, PTL DEF Spec, Atomic!Spec, AtomicSpec

-----------------------------------------------------------------------------
\* Every lock has an owner: a process that works with the file, or one that a
\* timeout has made forget it.
OwnedInv == \A f \in locked : \E p \in Proc : (Held(p) /\ fd[p] = f) \/ f \in leaked[p]

LEMMA OwnedStep ==
  ASSUME Inv, OwnedInv, NEW p \in Proc,
         Open(p) \/ Flock(p) \/ TryFails(p) \/ Timeout(p) \/ GiveUp(p) \/ Crash(p) \/ Step(p)
  PROVE  OwnedInv'
<1>0. pc \in [Proc -> Pc] /\ fd \in [Proc -> Nat] /\ leaked \in [Proc -> SUBSET File]
  BY DEF Inv, TypeOK
<1>1. CASE Open(p) \/ TryFails(p)
  <2>1. /\ ~Held(p) /\ UNCHANGED <<locked, leaked>>
        /\ pc' = [pc EXCEPT ![p] = pc'[p]] /\ fd' = [fd EXCEPT ![p] = fd'[p]]
    BY <1>0, <1>1 DEF Open, TryFails, Return, Goto, Held, Critical
  <2> QED
    BY <1>0, <2>1 DEF OwnedInv, Held
<1>2. CASE Flock(p)
  <2>1. /\ ~Held(p) /\ locked' = locked \cup {fd[p]} /\ UNCHANGED <<fd, leaked>>
        /\ pc' = [pc EXCEPT ![p] = "reopen"]
    BY <1>2 DEF Flock, Goto, Held, Critical
  <2> QED
    BY <1>0, <2>1 DEF OwnedInv, Held
<1>3. CASE Reopen(p) \/ SameFile(p) \/ Load(p) \/ CreateTmp(p) \/ WriteTmp(p) \/ Rename(p) \/ GiveUp(p)
  <2>1. Held(p)' /\ pc' = [pc EXCEPT ![p] = pc'[p]] /\ UNCHANGED <<locked, leaked, fd>>
    BY <1>0, <1>3 DEF Reopen, SameFile, Load, CreateTmp, WriteTmp, Rename, GiveUp, Goto, Held, Critical
  <2> QED
    BY <1>0, <2>1 DEF OwnedInv, Held
<1>4. CASE Renamed(p) \/ Release(p)
  <2>1. /\ locked' = locked \ {fd[p]} /\ UNCHANGED leaked
        /\ pc' = [pc EXCEPT ![p] = pc'[p]] /\ fd' = [fd EXCEPT ![p] = fd'[p]]
    BY <1>0, <1>4 DEF Renamed, Release, Return, Goto
  <2> QED
    BY <1>0, <2>1 DEF OwnedInv, Held
<1>5. CASE Timeout(p)
  <2>1. /\ pc' = [pc EXCEPT ![p] = "idle"] /\ fd' = [fd EXCEPT ![p] = 0] /\ UNCHANGED locked
        /\ leaked' = [leaked EXCEPT ![p] = @ \cup IF Held(p) THEN {fd[p]} ELSE {}]
    BY <1>0, <1>5 DEF Timeout, Return, Goto, Held, Critical, Acquiring
  <2> QED
    BY <1>0, <2>1 DEF OwnedInv, Held
<1>6. CASE Crash(p)
  <2>1. /\ pc' = [pc EXCEPT ![p] = "idle"] /\ fd' = [fd EXCEPT ![p] = 0]
        /\ leaked' = [leaked EXCEPT ![p] = {}]
        /\ locked' = locked \ (leaked[p] \cup IF Held(p) THEN {fd[p]} ELSE {})
    BY <1>0, <1>6 DEF Crash, Return, Goto, Held, Critical, Pc, Acquiring
  <2> QED
    BY <1>0, <2>1 DEF OwnedInv, Held
<1> QED
  BY <1>1, <1>2, <1>3, <1>4, <1>5, <1>6 DEF Step

\* The guards of Step and GiveUp: a process that has a lock can go on with it.
CanStep(p) ==
  \/ pc[p] \in {"reopen", "release"} \cup Critical
  \/ pc[p] = "compare" /\ fd[p] \in File /\ fdNew[p] \in File

\* Whoever waits for a lock waits for a process that can go on, and that is
\* not waiting for a lock itself, or for one that has forgotten its lock.
NobodyStuck ==
  \A p \in Proc : pc[p] = "flock" /\ fd[p] \in locked =>
    \E q \in Proc : (fd[q] = fd[p] /\ CanStep(q)) \/ fd[p] \in leaked[q]

\* aquire_lock deadlocks with no one: who waits for a file waits for one process
\* that works, however many there are, unless a timeout has left the lock behind.
THEOREM NoWaiterIsStuck == Spec => []NobodyStuck
<1>1. Init => OwnedInv
  BY DEF Init, OwnedInv
<1>2. Inv /\ OwnedInv /\ [Next]_vars => OwnedInv'
  <2> SUFFICES ASSUME Inv, OwnedInv, [Next]_vars
               PROVE  OwnedInv'
    OBVIOUS
  <2>1. CASE UNCHANGED vars
    BY <2>1 DEF vars, OwnedInv, Held
  <2> QED
    BY <2>1, OwnedStep DEF Next
<1>3. Inv /\ OwnedInv => NobodyStuck
  <2> SUFFICES ASSUME Inv, OwnedInv, NEW p \in Proc, fd[p] \in locked
               PROVE  \E q \in Proc : (fd[q] = fd[p] /\ CanStep(q)) \/ fd[p] \in leaked[q]
    BY DEF NobodyStuck
  <2>1. \A q \in Proc : Held(q) => CanStep(q)
    BY DEF Inv, FileInv, Held, CanStep
  <2> QED
    BY <2>1 DEF OwnedInv
<1> QED
  BY <1>1, <1>2, <1>3, FileStoreInvariant, PTL DEF Spec
=============================================================================
