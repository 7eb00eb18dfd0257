------------------------- MODULE Piggyback_proofs --------------------------
(***************************************************************************)
(* Proofs about Piggyback, for any number of sources, hosts and processes, *)
(* and without the bounds.                                                 *)
(***************************************************************************)
EXTENDS Piggyback, TLAPS

USE BoundsAssumption, ProcessAssumption, NoneAssumption

\* A sender that is not idle works on a source, and on hosts of its data.
SendInv ==
    \A p \in Sender :
        /\ spc[p] # "idle" => src[p] \in Source
        /\ left[p] \subseteq data[p]
        /\ spc[p] \in {"write", "rename"} => cur[p] \in left[p]
        /\ spc[p] = "forget" => data[p] = {}
        /\ spc[p] = "idle" => p \notin alone

\* A checker looks at a source of a host.
CheckInv ==
    \A c \in Checker :
        /\ cpc[c] \in {"status", "stat", "remove", "removesource"} => at[c] \in Source
        /\ cpc[c] \in {"check", "status", "stat", "remove"} => host[c] \in Host
        /\ c \in Reader =>
              /\ cpc[c] \in {"new", "check", "status", "stat", "done"}
              /\ cpc[c] = "new" => found[c] = {} /\ result[c] = {}

TypeInv == TypeOK /\ SendInv /\ CheckInv

-----------------------------------------------------------------------------
\* The types hold initially.
LEMMA InitType == Init => TypeInv
<1> SUFFICES ASSUME Init PROVE TypeInv
  OBVIOUS
<1>1. TypeOK
  BY DEF Init, TypeOK, Path, Checker, Mark, NoMark, File
<1>2. SendInv /\ CheckInv
  BY DEF Init, SendInv, CheckInv, Checker
<1> QED BY <1>1, <1>2 DEF TypeInv

\* The steps of a sender keep them,
LEMMA SendType ==
  ASSUME TypeInv, NEW p \in Sender, Send(p)
  PROVE  TypeOK'
<1> USE DEF Path, Checker, Mark, NoMark, TypeInv
<1>1. ASSUME NEW s \in Source, NEW H \in SUBSET Host, StoreStart(p, s, H) PROVE TypeOK'
  BY <1>1 DEF StoreStart, Storing, TypeOK, filevars, checkvars
<1>2. ASSUME NEW h \in Host, Makedirs(p, h) PROVE TypeOK'
  BY <1>2 DEF Makedirs, TypeOK, sendervars, checkvars, history
<1>3. ASSUME NEW h \in Host, Open(p, h) PROVE TypeOK'
  <2>1. file' \in [Path -> File \cup {None}]
    <3>1. [time |-> now, data |-> 0] \in File
      BY DEF TypeOK, File
    <3> QED BY <1>3, <3>1 DEF Open, TypeOK
  <2> QED BY <1>3, <2>1 DEF Open, TypeOK, checkvars, history
<1>4. ASSUME NEW h \in Host, Utime(p, h) PROVE TypeOK'
  <2> DEFINE f == <<h, src[p]>>
  <2>1. f \in Path
    BY <1>4 DEF Utime, SendInv
  <2>2. CASE Exists(f)
    <3> DEFINE g == [file[f] EXCEPT !.time = stamp[p]]
    <3>0. file[f] \in File /\ stamp[p] \in Nat
      BY <2>1, <2>2 DEF TypeOK, Exists
    <3>1. g \in File
      BY <3>0 DEF File
    <3>2. file' = [file EXCEPT ![f] = g]
      BY <1>4, <2>2 DEF Utime
    <3> HIDE DEF g
    <3>3. file' \in [Path -> File \cup {None}]
      BY <3>1, <3>2 DEF TypeOK
    <3> QED BY <1>4, <3>3 DEF Utime, TypeOK, checkvars, history
  <2>3. CASE ~Exists(f)
    BY <1>4, <2>3 DEF Utime, TypeOK, checkvars, history
  <2> QED BY <2>2, <2>3
<1>5. CASE WriteTmp(p)
  BY <1>5 DEF WriteTmp, TypeOK, filevars, checkvars, history
<1>6. CASE Rename(p)
  <2>1. [time |-> stamp[p], data |-> gen[p]] \in File
    BY DEF TypeOK, File
  <2> QED BY <1>6, <2>1 DEF Rename, TypeOK, checkvars, history
<1>7. CASE StampStatus(p)
  BY <1>7 DEF StampStatus, TypeOK, filevars, checkvars, history
<1>8. CASE RenameStatus(p)
  <2>0. stamp[p] \in Nat /\ [data |-> gen[p], time |-> stamp[p]] \in Mark
    BY DEF TypeOK
  <2>1. status' \in [Source -> Nat \cup {None}]
    BY <1>8, <2>0 DEF RenameStatus, TypeOK
  <2>2. steady' \in SUBSET Path
    BY <1>8 DEF RenameStatus, TypeOK, SendInv
  <2>3. last' \in [Source -> Mark]
    BY <1>8, <2>0 DEF RenameStatus, TypeOK
  <2> QED BY <1>8, <2>1, <2>2, <2>3 DEF RenameStatus, StoreEnd, TypeOK, checkvars
<1>9. CASE RemoveStatus(p)
  BY <1>9 DEF RemoveStatus, StoreEnd, TypeOK, checkvars
<1>10. CASE StoreFails(p)
  <2>1. litter' \in SUBSET Host
    BY <1>10 DEF StoreFails, TypeOK, SendInv
  <2> QED BY <1>10, <2>1 DEF StoreFails, StoreEnd, TypeOK, checkvars
<1> QED BY <1>1, <1>2, <1>3, <1>4, <1>5, <1>6, <1>7, <1>8, <1>9, <1>10 DEF Send

\* those of a reader or a cleanup that looks at a file,
LEMMA CheckType ==
  ASSUME TypeInv, NEW c \in Checker, Check(c)
  PROVE  TypeOK'
<1> USE DEF TypeInv
<1>1. ASSUME NEW s \in Source, FileAge(c, s) PROVE TypeOK'
  BY <1>1 DEF FileAge, OutOfUse, TypeOK, filevars, sendervars, history
<1>2. CASE StatStatus(c)
  <2>1. at[c] \in Source
    BY <1>2 DEF StatStatus, CheckInv
  <2>2. Present(at[c]) => status[at[c]] \in Nat
    BY <2>1 DEF Present, TypeOK
  <2> QED BY <1>2, <2>1, <2>2 DEF StatStatus, OutOfUse, TypeOK, filevars, sendervars, history
<1>3. CASE StatFile(c)
  <2>1. at[c] \in Source
    BY <1>3 DEF StatFile, CheckInv
  <2> QED BY <1>3, <2>1 DEF StatFile, OutOfUse, TypeOK, filevars, sendervars, history
<1> QED BY <1>1, <1>2, <1>3 DEF Check

\* those of a reader,
LEMMA ReadType ==
  ASSUME TypeInv, NEW r \in Reader, Read(r)
  PROVE  TypeOK'
<1> USE DEF TypeInv, Checker
<1>1. ASSUME NEW h \in Host, ReadStart(r, h) PROVE TypeOK'
  BY <1>1 DEF ReadStart, TypeOK, filevars, sendervars
<1>2. ASSUME NEW s \in Source, ReadFile(r, s) PROVE TypeOK'
  <2> DEFINE f == <<host[r], s>>
             d == [source |-> s, data |-> file[f].data]
  <2>1. host[r] \in Host
    BY <1>2 DEF ReadFile, CheckInv
  <2>2. Exists(f) => file[f].data \in Nat
    BY <2>1 DEF TypeOK, Exists, Path, File
  <2>3. Exists(f) => d \in [source : Source, data : Nat]
    BY <2>2
  <2>4. result' \in [Reader -> SUBSET [source : Source, data : Nat]]
    <3> DEFINE R == [source : Source, data : Nat]
               e == result[r] \cup {d}
    <3>1. \/ Exists(f) /\ result' = [result EXCEPT ![r] = e]
          \/ result' = result
      BY <1>2 DEF ReadFile
    <3>2. result \in [Reader -> SUBSET R]
      BY DEF TypeOK
    <3>3. Exists(f) => e \in SUBSET R
      BY <2>3, <3>2
    <3> HIDE DEF R, e, d, f
    <3>4. result' \in [Reader -> SUBSET R]
      BY <3>1, <3>2, <3>3
    <3> QED BY <3>4 DEF R
  <2>5. /\ found' = [found EXCEPT ![r] = @ \ {s}]
        /\ UNCHANGED <<now, filevars, sendervars, cpc, host, todo, at, seen, keep, hosts, history>>
    BY <1>2 DEF ReadFile
  <2> QED BY <2>4, <2>5 DEF TypeOK, filevars, sendervars, history
<1>3. CASE ReadEnd(r)
  BY <1>3 DEF ReadEnd, TypeOK, filevars, sendervars, Mark, NoMark
<1> QED BY <1>1, <1>2, <1>3 DEF Read

\* those of a cleanup,
LEMMA CleanType ==
  ASSUME TypeInv, NEW c \in Cleaner, Clean(c)
  PROVE  TypeOK'
<1> USE DEF TypeInv, Checker
<1>1. ASSUME NEW s \in Source, SourceAge(c, s) PROVE TypeOK'
  BY <1>1 DEF SourceAge, TypeOK, filevars, sendervars, history
<1>2. ASSUME NEW h \in Host, EnterHost(c, h) PROVE TypeOK'
  BY <1>2 DEF EnterHost, TypeOK, filevars, sendervars, history
<1>3. CASE CleanStart(c)
  BY <1>3 DEF CleanStart, TypeOK, filevars, sendervars
<1>4. CASE RemoveSource(c)
  BY <1>4 DEF RemoveSource, CheckInv, TypeOK, sendervars, history
<1>5. CASE KeepSources(c)
  BY <1>5 DEF KeepSources, TypeOK, filevars, sendervars, history
<1>6. CASE ListHosts(c)
  BY <1>6 DEF ListHosts, TypeOK, filevars, sendervars, history
<1>7. CASE RemoveFile(c)
  BY <1>7 DEF RemoveFile, CheckInv, TypeOK, sendervars, history
<1>8. CASE LeaveHost(c)
  BY <1>8 DEF LeaveHost, TypeOK, filevars, sendervars, history
<1>9. CASE CleanEnd(c)
  BY <1>9 DEF CleanEnd, TypeOK, filevars, sendervars, history
<1> QED BY <1>1, <1>2, <1>3, <1>4, <1>5, <1>6, <1>7, <1>8, <1>9 DEF Clean

\* and so does every step.
LEMMA StepType ==
  ASSUME TypeInv, [Next]_vars
  PROVE  TypeOK'
<1>1. CASE Tick
  BY <1>1 DEF Tick, TypeInv, TypeOK, filevars, sendervars, checkvars
<1>2. ASSUME NEW s \in Source, Flush(s) PROVE TypeOK'
  BY <1>2 DEF Flush, TypeInv, TypeOK, sendervars, checkvars
<1>3. CASE UNCHANGED vars
  BY <1>3 DEF vars, TypeInv, TypeOK, filevars, sendervars, checkvars, history
<1> QED BY <1>1, <1>2, <1>3, SendType, CheckType, ReadType, CleanType DEF Next

-----------------------------------------------------------------------------
\* A sender's step keeps what is said about senders,
LEMMA SendKeepsSendInv ==
  ASSUME TypeInv, NEW p \in Sender, Send(p)
  PROVE  SendInv' /\ UNCHANGED checkvars
<1> USE DEF TypeInv, TypeOK, SendInv
<1>1. ASSUME NEW s \in Source, NEW H \in SUBSET Host, StoreStart(p, s, H)
      PROVE  SendInv' /\ UNCHANGED checkvars
  BY <1>1 DEF StoreStart, Storing, checkvars
<1>2. ASSUME NEW h \in Host, Makedirs(p, h) PROVE SendInv' /\ UNCHANGED checkvars
  BY <1>2 DEF Makedirs, sendervars, checkvars, history
<1>3. ASSUME NEW h \in Host, Open(p, h) PROVE SendInv' /\ UNCHANGED checkvars
  BY <1>3 DEF Open, checkvars, history
<1>4. ASSUME NEW h \in Host, Utime(p, h) PROVE SendInv' /\ UNCHANGED checkvars
  BY <1>4 DEF Utime, checkvars, history
<1>5. CASE WriteTmp(p)
  BY <1>5 DEF WriteTmp, filevars, checkvars, history
<1>6. CASE Rename(p)
  BY <1>6 DEF Rename, checkvars, history
<1>7. CASE StampStatus(p)
  BY <1>7 DEF StampStatus, filevars, checkvars, history
<1>8. CASE RenameStatus(p)
  BY <1>8 DEF RenameStatus, StoreEnd, checkvars
<1>9. CASE RemoveStatus(p)
  BY <1>9 DEF RemoveStatus, StoreEnd, checkvars
<1>10. CASE StoreFails(p)
  BY <1>10 DEF StoreFails, StoreEnd, checkvars
<1> QED BY <1>1, <1>2, <1>3, <1>4, <1>5, <1>6, <1>7, <1>8, <1>9, <1>10 DEF Send

\* and a checker's step what is said about checkers.
LEMMA CheckKeepsCheckInv ==
  ASSUME TypeInv, NEW c \in Checker,
         Check(c) \/ (c \in Reader /\ Read(c)) \/ (c \in Cleaner /\ Clean(c))
  PROVE  CheckInv' /\ UNCHANGED <<sendervars, alone>>
<1> USE DEF TypeInv, TypeOK, CheckInv, Checker
<1>1. ASSUME NEW s \in Source, FileAge(c, s)
      PROVE  CheckInv' /\ UNCHANGED <<sendervars, alone>>
  BY <1>1 DEF FileAge, OutOfUse, sendervars, history
<1>2. CASE StatStatus(c)
  BY <1>2 DEF StatStatus, OutOfUse, sendervars, history
<1>3. CASE StatFile(c)
  BY <1>3 DEF StatFile, OutOfUse, sendervars, history
<1>4. ASSUME c \in Reader, NEW h \in Host, ReadStart(c, h)
      PROVE  CheckInv' /\ UNCHANGED <<sendervars, alone>>
  BY <1>4 DEF ReadStart, sendervars
<1>5. ASSUME c \in Reader, NEW s \in Source, ReadFile(c, s)
      PROVE  CheckInv' /\ UNCHANGED <<sendervars, alone>>
  <2>1. /\ cpc[c] = "check" /\ UNCHANGED <<sendervars, alone, cpc, host, at>>
        /\ \A q \in Reader \ {c} : found'[q] = found[q] /\ result'[q] = result[q]
    BY <1>5 DEF ReadFile, history
  <2> QED BY <2>1 DEF sendervars
<1>6. CASE c \in Reader /\ ReadEnd(c)
  BY <1>6 DEF ReadEnd, sendervars
<1>7. ASSUME c \in Cleaner, NEW s \in Source, SourceAge(c, s)
      PROVE  CheckInv' /\ UNCHANGED <<sendervars, alone>>
  BY <1>7 DEF SourceAge, sendervars, history
<1>8. ASSUME c \in Cleaner, NEW h \in Host, EnterHost(c, h)
      PROVE  CheckInv' /\ UNCHANGED <<sendervars, alone>>
  BY <1>8 DEF EnterHost, sendervars, history
<1>9. ASSUME c \in Cleaner,
             CleanStart(c) \/ RemoveSource(c) \/ KeepSources(c) \/ ListHosts(c)
               \/ RemoveFile(c) \/ LeaveHost(c) \/ CleanEnd(c)
      PROVE  CheckInv' /\ UNCHANGED <<sendervars, alone>>
  BY <1>9 DEF CleanStart, RemoveSource, KeepSources, ListHosts, RemoveFile, LeaveHost,
              CleanEnd, sendervars, history
<1> QED BY <1>1, <1>2, <1>3, <1>4, <1>5, <1>6, <1>7, <1>8, <1>9 DEF Check, Read, Clean

LEMMA StepTypeInv ==
  ASSUME TypeInv, [Next]_vars
  PROVE  TypeInv'
<1>1. TypeOK'
  BY StepType
<1>2. CASE Tick \/ (\E s \in Source : Flush(s)) \/ UNCHANGED vars
  BY <1>1, <1>2 DEF Tick, Flush, vars, sendervars, checkvars, history, TypeInv, SendInv, CheckInv
<1>3. CASE \E p \in Sender : Send(p)
  BY <1>1, <1>3, SendKeepsSendInv DEF TypeInv, CheckInv, checkvars
<1>4. CASE \E c \in Checker :
             Check(c) \/ (c \in Reader /\ Read(c)) \/ (c \in Cleaner /\ Clean(c))
  BY <1>1, <1>4, CheckKeepsCheckInv DEF TypeInv, SendInv, sendervars
<1> QED BY <1>2, <1>3, <1>4 DEF Next, Checker

\* The types hold in every reachable state, whatever the senders, the readers
\* and the cleanups do to each other.
THEOREM PiggybackTypeCorrect == Spec => []TypeOK
<1>1. TypeInv => TypeOK
  BY DEF TypeInv
<1> QED BY InitType, StepTypeInv, <1>1, PTL DEF Spec

-----------------------------------------------------------------------------
\* What makes steady files safe.  A file is in a directory, and so is the
\* temporary file of a store;
DirInv == /\ \A f \in Path : Exists(f) => f[1] \in dir
          /\ \A p \in Sender : spc[p] = "rename" => cur[p] \in dir

\* no time is in the future;
TimeInv == /\ \A s \in Source : Present(s) => status[s] <= now
           /\ \A f \in Path : Exists(f) => file[f].time <= now
           /\ \A p \in Sender : stamp[p] <= now
           /\ \A c \in Checker : seen[c] <= now

Active(p) == spc[p] # "idle"

\* a store that is alone has its source for itself;
AloneInv == \A p \in alone : \A q \in Sender : Active(q) /\ src[q] = src[p] => q = p

\* the stores of the source of a steady file are alone, and have data for it;
SteadySent == \A f \in steady : \A p \in Sender :
                  Active(p) /\ src[p] = f[2] => p \in alone /\ f[1] \in data[p]

\* a store that is alone is not older than the status file, than what the
\* checkers know of it, and than the files that have got its time;
StoreInv ==
    \A p \in alone :
        spc[p] \in {"rename", "utime"} =>
            /\ Present(src[p]) => status[src[p]] <= stamp[p]
            /\ \A c \in Checker : cpc[c] = "stat" /\ at[c] = src[p] => seen[c] <= stamp[p]
            /\ \A h \in data[p] \ left[p] :
                   spc[p] = "utime" /\ Exists(<<h, src[p]>>) => stamp[p] <= file[<<h, src[p]>>].time

\* a steady file is in use, its status file is young as well, no cleanup has
\* decided to remove it, and no checker is about to find it outdated.
SteadyFile ==
    \A f \in steady : InUse(f) /\ ~MaybeTooOld(status[f[2]])
SteadyChecked ==
    \A f \in steady :
        /\ \A c \in Cleaner : ~MayRemove(c, f)
        /\ \A c \in Checker : cpc[c] = "stat" /\ host[c] = f[1] /\ at[c] = f[2]
                                 => seen[c] <= file[f].time

SteadyInv == /\ DirInv /\ TimeInv /\ AloneInv
             /\ SteadySent /\ StoreInv /\ SteadyFile /\ SteadyChecked

-----------------------------------------------------------------------------
\* A step of a sender changes nothing of the others, and only files and the
\* status file of its source.
LEMMA SendFrame ==
  ASSUME TypeInv, NEW p \in Sender, Send(p)
  PROVE  /\ UNCHANGED <<now, checkvars>>
         /\ \A q \in Sender \ {p} :
               /\ spc'[q] = spc[q] /\ src'[q] = src[q] /\ data'[q] = data[q]
               /\ left'[q] = left[q] /\ cur'[q] = cur[q] /\ stamp'[q] = stamp[q]
               /\ gen'[q] = gen[q]
         /\ \A f \in Path : file'[f] = file[f] \/ (spc[p] # "idle" /\ f[2] = src[p])
         /\ \A s \in Source : status'[s] = status[s] \/ (spc[p] # "idle" /\ s = src[p])
         /\ dir \subseteq dir'
<1> USE DEF TypeInv, TypeOK, SendInv, Path, checkvars, filevars, sendervars, history
<1> DEFINE Frame ==
         /\ UNCHANGED <<now, checkvars>>
         /\ \A q \in Sender \ {p} :
               /\ spc'[q] = spc[q] /\ src'[q] = src[q] /\ data'[q] = data[q]
               /\ left'[q] = left[q] /\ cur'[q] = cur[q] /\ stamp'[q] = stamp[q]
               /\ gen'[q] = gen[q]
         /\ \A f \in Path : file'[f] = file[f] \/ (spc[p] # "idle" /\ f[2] = src[p])
         /\ \A s \in Source : status'[s] = status[s] \/ (spc[p] # "idle" /\ s = src[p])
         /\ dir \subseteq dir'
<1>1. ASSUME NEW s \in Source, NEW H \in SUBSET Host, StoreStart(p, s, H) PROVE Frame
  BY <1>1 DEF StoreStart
<1>2. ASSUME NEW h \in Host, Makedirs(p, h) PROVE Frame
  BY <1>2 DEF Makedirs
<1>3. ASSUME NEW h \in Host, Open(p, h) PROVE Frame
  <2>1. \/ file' = file
        \/ file' = [file EXCEPT ![<<h, src[p]>>] = [time |-> now, data |-> 0]]
    BY <1>3 DEF Open
  <2> QED BY <1>3, <2>1 DEF Open
<1>4. ASSUME NEW h \in Host, Utime(p, h) PROVE Frame
  <2> DEFINE g == [file[<<h, src[p]>>] EXCEPT !.time = stamp[p]]
  <2>1. file' = file \/ file' = [file EXCEPT ![<<h, src[p]>>] = g]
    BY <1>4 DEF Utime
  <2>2. \A f \in Path : file'[f] = file[f] \/ f = <<h, src[p]>>
    <3> HIDE DEF g
    <3> QED BY <2>1
  <2>3. spc[p] # "idle" /\ UNCHANGED <<now, checkvars, spc, src, data, cur, stamp, gen, dir, status>>
    BY <1>4 DEF Utime
  <2>4. left' = [left EXCEPT ![p] = @ \ {h}]
    BY <1>4 DEF Utime
  <2> QED BY <2>2, <2>3, <2>4
<1>5. CASE WriteTmp(p)
  BY <1>5 DEF WriteTmp
<1>6. CASE Rename(p)
  BY <1>6 DEF Rename
<1>7. CASE StampStatus(p)
  BY <1>7 DEF StampStatus
<1>8. CASE RenameStatus(p)
  BY <1>8 DEF RenameStatus, StoreEnd
<1>9. CASE RemoveStatus(p)
  BY <1>9 DEF RemoveStatus, StoreEnd
<1>10. CASE StoreFails(p)
  BY <1>10 DEF StoreFails, StoreEnd
<1> QED BY <1>1, <1>2, <1>3, <1>4, <1>5, <1>6, <1>7, <1>8, <1>9, <1>10 DEF Send

\* What Open and Utime do to the files.
LEMMA OpenFile ==
  ASSUME TypeInv, NEW p \in Sender, NEW h \in Host, Open(p, h)
  PROVE  /\ \A g \in Path : file'[g] = file[g]
                            \/ (g[1] = h /\ g[2] = src[p] /\ ~Exists(g)
                                /\ file'[g] = [time |-> now, data |-> 0])
<1> DEFINE f == <<h, src[p]>>
           new == [time |-> now, data |-> 0]
<1>1. f \in Path
  BY DEF Open, TypeInv, SendInv, Path
<1>2. \/ Exists(f) /\ file' = file
      \/ ~Exists(f) /\ file' = [file EXCEPT ![f] = new]
  BY DEF Open
<1> HIDE DEF f, new
<1>3. /\ \A g \in Path : file'[g] = file[g] \/ (g = f /\ ~Exists(f))
      /\ ~Exists(f) => file'[f] = new
  BY <1>1, <1>2 DEF TypeInv, TypeOK
<1> QED BY <1>3 DEF f, new

LEMMA UtimeFile ==
  ASSUME TypeInv, NEW p \in Sender, NEW h \in Host, Utime(p, h)
  PROVE  /\ <<h, src[p]>> \in Path
         /\ \A g \in Path : file'[g] = file[g] \/ (g = <<h, src[p]>> /\ Exists(g))
         /\ Exists(<<h, src[p]>>) =>
               file'[<<h, src[p]>>] = [time |-> stamp[p], data |-> file[<<h, src[p]>>].data]
<1> DEFINE f == <<h, src[p]>>
           new == [file[f] EXCEPT !.time = stamp[p]]
<1>1. f \in Path
  BY DEF Utime, TypeInv, SendInv, Path
<1>2. \/ ~Exists(f) /\ file' = file
      \/ Exists(f) /\ file' = [file EXCEPT ![f] = new]
  BY DEF Utime
<1>3. Exists(f) => new = [time |-> stamp[p], data |-> file[f].data]
  <2>1. Exists(f) => file[f] \in File
    BY <1>1 DEF TypeInv, TypeOK, Exists
  <2> QED BY <2>1 DEF File
<1> HIDE DEF f, new
<1>4. /\ \A g \in Path : file'[g] = file[g] \/ (g = f /\ Exists(f))
      /\ Exists(f) => file'[f] = new
  BY <1>1, <1>2 DEF TypeInv, TypeOK
<1> QED BY <1>1, <1>3, <1>4 DEF f

\* A step of a checker only removes things, and changes nothing of the others.
LEMMA CheckFrame ==
  ASSUME TypeInv, NEW c \in Checker,
         Check(c) \/ (c \in Reader /\ Read(c)) \/ (c \in Cleaner /\ Clean(c))
  PROVE  /\ UNCHANGED <<now, sendervars, alone, steady, last>>
         /\ \A b \in Checker \ {c} : /\ cpc'[b] = cpc[b] /\ host'[b] = host[b]
                                     /\ at'[b] = at[b] /\ seen'[b] = seen[b]
         /\ \A b \in Cleaner \ {c} : keep'[b] = keep[b]
         /\ \A f \in Path : file'[f] = file[f] \/ file'[f] = None
         /\ \A s \in Source : status'[s] = status[s] \/ status'[s] = None
<1> USE DEF TypeInv, TypeOK, CheckInv, Checker, Path, filevars, sendervars, history
<1> DEFINE Frame ==
         /\ UNCHANGED <<now, sendervars, alone, steady, last>>
         /\ \A b \in Checker \ {c} : /\ cpc'[b] = cpc[b] /\ host'[b] = host[b]
                                     /\ at'[b] = at[b] /\ seen'[b] = seen[b]
         /\ \A b \in Cleaner \ {c} : keep'[b] = keep[b]
         /\ \A f \in Path : file'[f] = file[f] \/ file'[f] = None
         /\ \A s \in Source : status'[s] = status[s] \/ status'[s] = None
<1>1. ASSUME NEW s \in Source, FileAge(c, s) PROVE Frame
  BY <1>1 DEF FileAge
<1>2. CASE StatStatus(c) \/ StatFile(c)
  BY <1>2 DEF StatStatus, StatFile
<1>3. ASSUME c \in Reader, NEW h \in Host, ReadStart(c, h) PROVE Frame
  BY <1>3 DEF ReadStart
<1>4. ASSUME c \in Reader, NEW s \in Source, ReadFile(c, s) PROVE Frame
  <2>1. UNCHANGED <<now, filevars, sendervars, cpc, host, at, seen, keep, history>>
    BY <1>4 DEF ReadFile
  <2> QED BY <2>1
<1>5. CASE c \in Reader /\ ReadEnd(c)
  BY <1>5 DEF ReadEnd
<1>6. ASSUME c \in Cleaner, NEW s \in Source, SourceAge(c, s) PROVE Frame
  BY <1>6 DEF SourceAge
<1>7. ASSUME c \in Cleaner, NEW h \in Host, EnterHost(c, h) PROVE Frame
  BY <1>7 DEF EnterHost
<1>8. CASE c \in Cleaner /\ (CleanStart(c) \/ KeepSources(c) \/ ListHosts(c) \/ CleanEnd(c))
  BY <1>8 DEF CleanStart, KeepSources, ListHosts, CleanEnd
<1>9. CASE c \in Cleaner /\ (RemoveSource(c) \/ RemoveFile(c))
  BY <1>9 DEF RemoveSource, RemoveFile
<1>10. CASE c \in Cleaner /\ LeaveHost(c)
  BY <1>10 DEF LeaveHost
<1> QED BY <1>1, <1>2, <1>3, <1>4, <1>5, <1>6, <1>7, <1>8, <1>9, <1>10 DEF Check, Read, Clean

\* What is known of a steady file,
LEMMA SteadyFacts ==
  ASSUME TypeInv, SteadyInv, NEW f \in steady
  PROVE  /\ f \in Path /\ f[1] \in Host /\ f[2] \in Source /\ f = <<f[1], f[2]>>
         /\ Exists(f) /\ file[f].time \in Nat /\ f[1] \in dir
         /\ Present(f[2]) /\ status[f[2]] \in Nat
         /\ status[f[2]] <= file[f].time
         /\ now - file[f].time < MaxAge /\ now - status[f[2]] < MaxAge
<1>1. /\ f \in Path /\ f[1] \in Host /\ f[2] \in Source /\ f = <<f[1], f[2]>>
  BY DEF TypeInv, TypeOK, Path
<1>2. Exists(f) => file[f].time \in Nat
  BY <1>1 DEF TypeInv, TypeOK, Exists, File
<1>3. Present(f[2]) => status[f[2]] \in Nat
  BY <1>1 DEF TypeInv, TypeOK, Present
<1>4. InUse(f) /\ ~MaybeTooOld(status[f[2]])
  BY DEF SteadyInv, SteadyFile
<1>5. now \in Nat
  BY DEF TypeInv, TypeOK
<1> QED BY <1>1, <1>2, <1>3, <1>4, <1>5 DEF InUse, MaybeTooOld

\* and of a store of its source.
LEMMA StoreFacts ==
  ASSUME TypeInv, SteadyInv, NEW f \in steady, NEW p \in Sender, Active(p), src[p] = f[2]
  PROVE  /\ p \in alone /\ f[1] \in data[p] /\ stamp[p] \in Nat
         /\ spc[p] \in {"rename", "utime"} => status[f[2]] <= stamp[p]
         /\ spc[p] = "utime" /\ f[1] \notin left[p] => stamp[p] <= file[f].time
<1>1. p \in alone /\ f[1] \in data[p] /\ stamp[p] \in Nat
  BY DEF TypeInv, TypeOK, SteadyInv, SteadySent
<1> QED BY <1>1, SteadyFacts DEF SteadyInv, StoreInv

\* A step of a sender keeps files in directories,
LEMMA SendDir ==
  ASSUME TypeInv, SteadyInv, NEW p \in Sender, Send(p)
  PROVE  DirInv'
<1> USE SendFrame DEF TypeInv, TypeOK, SendInv, SteadyInv, Path, Active, DirInv, Exists, filevars, sendervars, history
<1>1. ASSUME NEW s \in Source, NEW H \in SUBSET Host, StoreStart(p, s, H) PROVE DirInv'
  BY <1>1 DEF StoreStart
<1>2. ASSUME NEW h \in Host, Makedirs(p, h) PROVE DirInv'
  BY <1>2 DEF Makedirs
<1>3. ASSUME NEW h \in Host, Open(p, h) PROVE DirInv'
  <2>1. h \in dir /\ dir' = dir /\ spc[p] = "store"
    BY <1>3 DEF Open
  <2>2. \A f \in Path : file'[f] = file[f] \/ f[1] = h
    <3> HIDE SendFrame DEF TypeInv, TypeOK, SendInv, SteadyInv
    <3> QED BY <1>3, OpenFile
  <2>3. \A q \in Sender : spc'[q] = "rename" => spc[q] = "rename" /\ cur'[q] = cur[q]
    BY <1>3 DEF Open
  <2> QED BY <2>1, <2>2, <2>3
<1>4. ASSUME NEW h \in Host, Utime(p, h) PROVE DirInv'
  BY <1>4 DEF Utime
<1>5. CASE WriteTmp(p)
  BY <1>5 DEF WriteTmp
<1>6. CASE Rename(p)
  BY <1>6 DEF Rename
<1>7. CASE StampStatus(p)
  BY <1>7 DEF StampStatus
<1>8. CASE RenameStatus(p)
  BY <1>8 DEF RenameStatus, StoreEnd
<1>9. CASE RemoveStatus(p)
  BY <1>9 DEF RemoveStatus, StoreEnd
<1>10. CASE StoreFails(p)
  BY <1>10 DEF StoreFails, StoreEnd
<1> QED BY <1>1, <1>2, <1>3, <1>4, <1>5, <1>6, <1>7, <1>8, <1>9, <1>10 DEF Send

\* and no time in the future,
LEMMA SendTime ==
  ASSUME TypeInv, SteadyInv, NEW p \in Sender, Send(p)
  PROVE  TimeInv'
<1> USE SendFrame DEF TypeInv, TypeOK, SendInv, SteadyInv, Path, Active, TimeInv, Exists, Present, File, filevars, sendervars, checkvars, history
<1>1. ASSUME NEW s \in Source, NEW H \in SUBSET Host, StoreStart(p, s, H) PROVE TimeInv'
  BY <1>1 DEF StoreStart
<1>2. ASSUME NEW h \in Host, Makedirs(p, h) PROVE TimeInv'
  BY <1>2 DEF Makedirs
<1>3. ASSUME NEW h \in Host, Open(p, h) PROVE TimeInv'
  BY <1>3 DEF Open
<1>4. ASSUME NEW h \in Host, Utime(p, h) PROVE TimeInv'
  BY <1>4 DEF Utime
<1>5. CASE WriteTmp(p)
  BY <1>5 DEF WriteTmp
<1>6. CASE Rename(p)
  BY <1>6 DEF Rename
<1>7. CASE StampStatus(p)
  BY <1>7 DEF StampStatus
<1>8. CASE RenameStatus(p)
  BY <1>8 DEF RenameStatus, StoreEnd
<1>9. CASE RemoveStatus(p)
  BY <1>9 DEF RemoveStatus, StoreEnd
<1>10. CASE StoreFails(p)
  BY <1>10 DEF StoreFails, StoreEnd
<1> QED BY <1>1, <1>2, <1>3, <1>4, <1>5, <1>6, <1>7, <1>8, <1>9, <1>10 DEF Send

\* and stores alone that are,
LEMMA SendAlone ==
  ASSUME TypeInv, SteadyInv, NEW p \in Sender, Send(p)
  PROVE  AloneInv'
<1> USE SendFrame DEF TypeInv, TypeOK, SendInv, SteadyInv, Path, Active, AloneInv, Storing, filevars, sendervars, checkvars, history
<1>1. ASSUME NEW s \in Source, NEW H \in SUBSET Host, StoreStart(p, s, H) PROVE AloneInv'
  BY <1>1 DEF StoreStart
<1>2. ASSUME NEW h \in Host, Makedirs(p, h) PROVE AloneInv'
  BY <1>2 DEF Makedirs
<1>3. ASSUME NEW h \in Host, Open(p, h) PROVE AloneInv'
  BY <1>3 DEF Open
<1>4. ASSUME NEW h \in Host, Utime(p, h) PROVE AloneInv'
  BY <1>4 DEF Utime
<1>5. CASE WriteTmp(p)
  BY <1>5 DEF WriteTmp
<1>6. CASE Rename(p)
  BY <1>6 DEF Rename
<1>7. CASE StampStatus(p)
  BY <1>7 DEF StampStatus
<1>8. CASE RenameStatus(p)
  BY <1>8 DEF RenameStatus, StoreEnd
<1>9. CASE RemoveStatus(p)
  BY <1>9 DEF RemoveStatus, StoreEnd
<1>10. CASE StoreFails(p)
  BY <1>10 DEF StoreFails, StoreEnd
<1> QED BY <1>1, <1>2, <1>3, <1>4, <1>5, <1>6, <1>7, <1>8, <1>9, <1>10 DEF Send

\* and data coming for steady files,
LEMMA SendSent ==
  ASSUME TypeInv, SteadyInv, NEW p \in Sender, Send(p)
  PROVE  SteadySent'
<1> USE SendFrame DEF TypeInv, TypeOK, SendInv, SteadyInv, Path, Active, SteadySent, Storing, AloneInv, filevars, sendervars, checkvars, history
<1>1. ASSUME NEW s \in Source, NEW H \in SUBSET Host, StoreStart(p, s, H) PROVE SteadySent'
  BY <1>1 DEF StoreStart
<1>2. ASSUME NEW h \in Host, Makedirs(p, h) PROVE SteadySent'
  BY <1>2 DEF Makedirs
<1>3. ASSUME NEW h \in Host, Open(p, h) PROVE SteadySent'
  BY <1>3 DEF Open
<1>4. ASSUME NEW h \in Host, Utime(p, h) PROVE SteadySent'
  BY <1>4 DEF Utime
<1>5. CASE WriteTmp(p)
  BY <1>5 DEF WriteTmp
<1>6. CASE Rename(p)
  BY <1>6 DEF Rename
<1>7. CASE StampStatus(p)
  BY <1>7 DEF StampStatus
<1>8. CASE RenameStatus(p)
  BY <1>8 DEF RenameStatus, StoreEnd
<1>9. CASE RemoveStatus(p)
  BY <1>9 DEF RemoveStatus, StoreEnd
<1>10. CASE StoreFails(p)
  BY <1>10 DEF StoreFails, StoreEnd
<1> QED BY <1>1, <1>2, <1>3, <1>4, <1>5, <1>6, <1>7, <1>8, <1>9, <1>10 DEF Send

\* and times in order,
LEMMA SendStore ==
  ASSUME TypeInv, SteadyInv, NEW p \in Sender, Send(p)
  PROVE  StoreInv'
<1> USE SendFrame DEF TypeInv, TypeOK, SendInv, SteadyInv, Path, Active, StoreInv, Exists, Present, File, AloneInv, TimeInv, filevars, sendervars, checkvars, history
<1>1. ASSUME NEW s \in Source, NEW H \in SUBSET Host, StoreStart(p, s, H) PROVE StoreInv'
  BY <1>1 DEF StoreStart
<1>2. ASSUME NEW h \in Host, Makedirs(p, h) PROVE StoreInv'
  BY <1>2 DEF Makedirs
<1>3. ASSUME NEW h \in Host, Open(p, h) PROVE StoreInv'
  BY <1>3 DEF Open
<1>4. ASSUME NEW h \in Host, Utime(p, h) PROVE StoreInv'
  <2>1. /\ UNCHANGED <<now, status, spc, src, data, cur, stamp, alone, cpc, at, seen>>
        /\ left' = [left EXCEPT ![p] = @ \ {h}] /\ spc[p] = "utime"
    BY <1>4 DEF Utime
  <2> DEFINE f == <<h, src[p]>>
  <2>2. /\ \A g \in Path : file'[g] = file[g] \/ (g = f /\ Exists(g))
        /\ Exists(f) => file'[f] = [time |-> stamp[p], data |-> file[f].data]
    <3> HIDE SendFrame DEF TypeInv, TypeOK, SendInv, SteadyInv
    <3> QED BY <1>4, UtimeFile
  <2>3. Exists(f) => file'[f].time = stamp[p]
    BY <2>2
  <2>4. \A q \in alone, i \in Host : q # p /\ spc[q] # "idle" => file'[<<i, src[q]>>] = file[<<i, src[q]>>]
    BY <2>2 DEF AloneInv
  <2>5. \A i \in data[p] \ left'[p] :
            p \in alone /\ Exists(<<i, src[p]>>)' => stamp[p] <= file'[<<i, src[p]>>].time
    <3> HIDE SendFrame
    <3> TAKE i \in data[p] \ left'[p]
    <3> HAVE p \in alone /\ Exists(<<i, src[p]>>)'
    <3>0. i \in Host /\ src[p] \in Source /\ stamp[p] \in Nat
      BY <2>1
    <3>1. CASE i = h
      <4>1. Exists(f)
        BY <3>0, <3>1, <2>1, <2>2
      <4> QED BY <3>0, <3>1, <4>1, <2>3
    <3>2. CASE i # h
      <4>1. file'[<<i, src[p]>>] = file[<<i, src[p]>>] /\ i \in data[p] \ left[p]
        BY <3>0, <3>2, <2>1, <2>2
      <4> QED BY <3>0, <4>1, <2>1
    <3> QED BY <3>1, <3>2
  <2> HIDE SendFrame
  <2> QED BY <2>1, <2>2, <2>4, <2>5
<1>5. CASE WriteTmp(p)
  BY <1>5 DEF WriteTmp
<1>6. CASE Rename(p)
  BY <1>6 DEF Rename
<1>7. CASE StampStatus(p)
  BY <1>7 DEF StampStatus
<1>8. CASE RenameStatus(p)
  BY <1>8 DEF RenameStatus, StoreEnd
<1>9. CASE RemoveStatus(p)
  BY <1>9 DEF RemoveStatus, StoreEnd
<1>10. CASE StoreFails(p)
  BY <1>10 DEF StoreFails, StoreEnd
<1> QED BY <1>1, <1>2, <1>3, <1>4, <1>5, <1>6, <1>7, <1>8, <1>9, <1>10 DEF Send

\* and steady files in use,
LEMMA SendFile ==
  ASSUME TypeInv, SteadyInv, NEW p \in Sender, Send(p)
  PROVE  SteadyFile'
<1> USE SendFrame DEF TypeInv, TypeOK, SendInv, SteadyInv, Path, Active, SteadyFile, InUse, MaybeTooOld, Exists, Present, File, AloneInv, TimeInv, DirInv, SteadySent, StoreInv, filevars, sendervars, checkvars, history
<1>1. ASSUME NEW s \in Source, NEW H \in SUBSET Host, StoreStart(p, s, H) PROVE SteadyFile'
  BY <1>1 DEF StoreStart
<1>2. ASSUME NEW h \in Host, Makedirs(p, h) PROVE SteadyFile'
  BY <1>2 DEF Makedirs
<1>3. ASSUME NEW h \in Host, Open(p, h) PROVE SteadyFile'
  BY <1>3 DEF Open
<1>4. ASSUME NEW h \in Host, Utime(p, h) PROVE SteadyFile'
  <2> DEFINE f == <<h, src[p]>>
  <2>1. UNCHANGED <<now, status, dir, steady>> /\ spc[p] = "utime"
    BY <1>4 DEF Utime, history
  <2>2. /\ \A g \in Path : file'[g] = file[g] \/ (g = f /\ Exists(g))
        /\ Exists(f) => file'[f] = [time |-> stamp[p], data |-> file[f].data]
    <3> HIDE SendFrame DEF TypeInv, TypeOK, SendInv, SteadyInv
    <3> QED BY <1>4, UtimeFile
  <2> HIDE SendFrame DEF TypeInv, TypeOK, SendInv, SteadyInv
  <2> TAKE g \in steady'
  <2>5. g \in steady
    BY <2>1
  <2>6. CASE g = f
    <3>1. file'[g] = [time |-> stamp[p], data |-> file[f].data] /\ src[p] = g[2]
      BY <2>2, <2>5, <2>6, SteadyFacts
    <3>2. file'[g] # None /\ file'[g].time = stamp[p]
      <4>1. file[f] \in File /\ stamp[p] \in Nat
        BY <2>5, <2>6, SteadyFacts DEF TypeInv, TypeOK, Exists
      <4>2. [time |-> stamp[p], data |-> file[f].data] \in File
        BY <4>1 DEF File
      <4> QED BY <3>1, <4>2
    <3>3. status[g[2]] <= stamp[p] /\ stamp[p] \in Nat
      BY <2>1, <2>5, <3>1, StoreFacts
    <3> QED BY <2>1, <2>5, <3>2, <3>3, SteadyFacts DEF TypeInv, TypeOK
  <2>7. CASE g # f
    BY <2>1, <2>2, <2>5, <2>7, SteadyFacts DEF TypeInv, TypeOK
  <2> QED BY <2>6, <2>7
<1>5. CASE WriteTmp(p)
  BY <1>5 DEF WriteTmp
<1>6. CASE Rename(p)
  BY <1>6 DEF Rename
<1>7. CASE StampStatus(p)
  BY <1>7 DEF StampStatus
<1>8. CASE RenameStatus(p)
  <2>1. /\ UNCHANGED <<now, file, dir>> /\ status' = [status EXCEPT ![src[p]] = stamp[p]]
        /\ spc[p] = "utime" /\ left[p] = {} /\ src[p] \in Source
        /\ stamp[p] \in Nat /\ stamp[p] <= now
    BY <1>8 DEF RenameStatus
  <2>2. \A f \in steady' : \/ f \in steady
                           \/ /\ p \in alone /\ f[1] \in data[p] /\ f[2] = src[p] /\ f \in Path
                              /\ Exists(f) /\ now - stamp[p] < MaxAge
    BY <1>8, <2>1 DEF RenameStatus
  <2>3. \A f \in Path : /\ p \in alone /\ f[1] \in data[p] /\ f[2] = src[p] /\ Exists(f)
                         => stamp[p] <= file[f].time
    <3> HIDE SendFrame
    <3> TAKE f \in Path
    <3>1. f = <<f[1], f[2]>>
      OBVIOUS
    <3>2. CASE p \in alone /\ f[1] \in data[p] /\ f[2] = src[p]
      BY <2>1, <3>1, <3>2
    <3> QED BY <3>2
  <2>4. \A f \in Path : Exists(f) => file[f].time \in Nat /\ f[1] \in dir
    OBVIOUS
  <2> HIDE SendFrame DEF TypeInv, TypeOK, SendInv, SteadyInv, StoreInv
  <2>5. \A f \in steady : f[2] = src[p] =>
             /\ f \in Path /\ p \in alone /\ f[1] \in data[p] /\ Exists(f)
             /\ status[src[p]] \in Nat /\ status[src[p]] <= stamp[p]
             /\ now - status[src[p]] < MaxAge
    BY <2>1, SteadyFacts, StoreFacts
  <2>6. status \in [Source -> Nat \cup {None}] /\ now \in Nat
    BY DEF TypeInv, TypeOK
  <2> TAKE f \in steady'
  <2>7. CASE f \in steady /\ f[2] # src[p]
    BY <2>1, <2>6, <2>7, SteadyFacts
  <2>8. CASE f \in steady /\ f[2] = src[p]
    BY <2>1, <2>3, <2>4, <2>5, <2>6, <2>8
  <2>9. CASE f \notin steady
    BY <2>1, <2>2, <2>3, <2>4, <2>6, <2>9
  <2> QED BY <2>7, <2>8, <2>9
<1>9. CASE RemoveStatus(p)
  BY <1>9 DEF RemoveStatus, StoreEnd
<1>10. CASE StoreFails(p)
  BY <1>10 DEF StoreFails, StoreEnd
<1> QED BY <1>1, <1>2, <1>3, <1>4, <1>5, <1>6, <1>7, <1>8, <1>9, <1>10 DEF Send

\* and no checker about to drop them.
LEMMA SendChecked ==
  ASSUME TypeInv, SteadyInv, NEW p \in Sender, Send(p)
  PROVE  SteadyChecked'
<1> USE SendFrame DEF TypeInv, TypeOK, SendInv, SteadyInv, Path, Active, SteadyChecked, MayRemove, MaybeTooOld, InUse, Exists, Present, File, AloneInv, TimeInv, SteadyFile, SteadySent, StoreInv, filevars, sendervars, checkvars, history
<1>1. ASSUME NEW s \in Source, NEW H \in SUBSET Host, StoreStart(p, s, H) PROVE SteadyChecked'
  BY <1>1 DEF StoreStart
<1>2. ASSUME NEW h \in Host, Makedirs(p, h) PROVE SteadyChecked'
  BY <1>2 DEF Makedirs
<1>3. ASSUME NEW h \in Host, Open(p, h) PROVE SteadyChecked'
  BY <1>3 DEF Open
<1>4. ASSUME NEW h \in Host, Utime(p, h) PROVE SteadyChecked'
  BY <1>4 DEF Utime
<1>5. CASE WriteTmp(p)
  BY <1>5 DEF WriteTmp
<1>6. CASE Rename(p)
  BY <1>6 DEF Rename
<1>7. CASE StampStatus(p)
  BY <1>7 DEF StampStatus
<1>8. CASE RenameStatus(p)
  BY <1>8 DEF RenameStatus, StoreEnd
<1>9. CASE RemoveStatus(p)
  BY <1>9 DEF RemoveStatus, StoreEnd
<1>10. CASE StoreFails(p)
  BY <1>10 DEF StoreFails, StoreEnd
<1> QED BY <1>1, <1>2, <1>3, <1>4, <1>5, <1>6, <1>7, <1>8, <1>9, <1>10 DEF Send

\* Nothing of a checker matters to the stores
LEMMA CheckAlone ==
  ASSUME TypeInv, SteadyInv, NEW c \in Checker,
         Check(c) \/ (c \in Reader /\ Read(c)) \/ (c \in Cleaner /\ Clean(c))
  PROVE  AloneInv'
BY CheckFrame DEF TypeInv, TypeOK, SteadyInv, Path, Checker, AloneInv, Active, sendervars

\* and what they send;
LEMMA CheckSent ==
  ASSUME TypeInv, SteadyInv, NEW c \in Checker,
         Check(c) \/ (c \in Reader /\ Read(c)) \/ (c \in Cleaner /\ Clean(c))
  PROVE  SteadySent'
BY CheckFrame DEF TypeInv, TypeOK, SteadyInv, Path, Checker, SteadySent, Active, sendervars

\* a cleanup removes empty directories only,
LEMMA CheckDir ==
  ASSUME TypeInv, SteadyInv, NEW c \in Checker,
         Check(c) \/ (c \in Reader /\ Read(c)) \/ (c \in Cleaner /\ Clean(c))
  PROVE  DirInv'
<1> USE CheckFrame DEF TypeInv, TypeOK, CheckInv, SteadyInv, Path, Checker, DirInv, Exists, filevars, sendervars, history
<1>1. ASSUME NEW s \in Source, FileAge(c, s) PROVE DirInv'
  BY <1>1 DEF FileAge, OutOfUse
<1>2. CASE StatStatus(c)
  BY <1>2 DEF StatStatus, OutOfUse
<1>3. CASE StatFile(c)
  BY <1>3 DEF StatFile, Current, OutOfUse
<1>4. ASSUME c \in Reader, NEW h \in Host, ReadStart(c, h) PROVE DirInv'
  BY <1>4 DEF ReadStart
<1>5. ASSUME c \in Reader, NEW s \in Source, ReadFile(c, s) PROVE DirInv'
  BY <1>5 DEF ReadFile
<1>6. CASE c \in Reader /\ ReadEnd(c)
  BY <1>6 DEF ReadEnd
<1>7. ASSUME c \in Cleaner, NEW s \in Source, SourceAge(c, s) PROVE DirInv'
  BY <1>7 DEF SourceAge
<1>8. ASSUME c \in Cleaner, NEW h \in Host, EnterHost(c, h) PROVE DirInv'
  BY <1>8 DEF EnterHost
<1>9. CASE c \in Cleaner /\ CleanStart(c)
  BY <1>9 DEF CleanStart
<1>10. CASE c \in Cleaner /\ KeepSources(c)
  BY <1>10 DEF KeepSources
<1>11. CASE c \in Cleaner /\ ListHosts(c)
  BY <1>11 DEF ListHosts
<1>12. CASE c \in Cleaner /\ RemoveSource(c)
  BY <1>12 DEF RemoveSource
<1>13. CASE c \in Cleaner /\ RemoveFile(c)
  BY <1>13 DEF RemoveFile
<1>14. CASE c \in Cleaner /\ LeaveHost(c)
  BY <1>14 DEF LeaveHost, Empty
<1>15. CASE c \in Cleaner /\ CleanEnd(c)
  BY <1>15 DEF CleanEnd
<1> QED BY <1>1, <1>2, <1>3, <1>4, <1>5, <1>6, <1>7, <1>8, <1>9, <1>10, <1>11, <1>12, <1>13, <1>14, <1>15 DEF Check, Read, Clean

\* the times that a checker takes are not in the future,
LEMMA CheckTime ==
  ASSUME TypeInv, SteadyInv, NEW c \in Checker,
         Check(c) \/ (c \in Reader /\ Read(c)) \/ (c \in Cleaner /\ Clean(c))
  PROVE  TimeInv'
<1> USE CheckFrame DEF TypeInv, TypeOK, CheckInv, SteadyInv, Path, Checker, TimeInv, Exists, Present, filevars, sendervars, history
<1>1. ASSUME NEW s \in Source, FileAge(c, s) PROVE TimeInv'
  BY <1>1 DEF FileAge, OutOfUse
<1>2. CASE StatStatus(c)
  BY <1>2 DEF StatStatus, OutOfUse
<1>3. CASE StatFile(c)
  BY <1>3 DEF StatFile, Current, OutOfUse
<1>4. ASSUME c \in Reader, NEW h \in Host, ReadStart(c, h) PROVE TimeInv'
  BY <1>4 DEF ReadStart
<1>5. ASSUME c \in Reader, NEW s \in Source, ReadFile(c, s) PROVE TimeInv'
  BY <1>5 DEF ReadFile
<1>6. CASE c \in Reader /\ ReadEnd(c)
  BY <1>6 DEF ReadEnd
<1>7. ASSUME c \in Cleaner, NEW s \in Source, SourceAge(c, s) PROVE TimeInv'
  BY <1>7 DEF SourceAge
<1>8. ASSUME c \in Cleaner, NEW h \in Host, EnterHost(c, h) PROVE TimeInv'
  BY <1>8 DEF EnterHost
<1>9. CASE c \in Cleaner /\ CleanStart(c)
  BY <1>9 DEF CleanStart
<1>10. CASE c \in Cleaner /\ KeepSources(c)
  BY <1>10 DEF KeepSources
<1>11. CASE c \in Cleaner /\ ListHosts(c)
  BY <1>11 DEF ListHosts
<1>12. CASE c \in Cleaner /\ RemoveSource(c)
  BY <1>12 DEF RemoveSource
<1>13. CASE c \in Cleaner /\ RemoveFile(c)
  BY <1>13 DEF RemoveFile
<1>14. CASE c \in Cleaner /\ LeaveHost(c)
  BY <1>14 DEF LeaveHost, Empty
<1>15. CASE c \in Cleaner /\ CleanEnd(c)
  BY <1>15 DEF CleanEnd
<1> QED BY <1>1, <1>2, <1>3, <1>4, <1>5, <1>6, <1>7, <1>8, <1>9, <1>10, <1>11, <1>12, <1>13, <1>14, <1>15 DEF Check, Read, Clean

\* nor after the time of a store that is alone,
LEMMA CheckStore ==
  ASSUME TypeInv, SteadyInv, NEW c \in Checker,
         Check(c) \/ (c \in Reader /\ Read(c)) \/ (c \in Cleaner /\ Clean(c))
  PROVE  StoreInv'
<1> USE CheckFrame DEF TypeInv, TypeOK, CheckInv, SteadyInv, Path, Checker, StoreInv, Exists, Present, TimeInv, filevars, sendervars, history
<1>1. ASSUME NEW s \in Source, FileAge(c, s) PROVE StoreInv'
  BY <1>1 DEF FileAge, OutOfUse
<1>2. CASE StatStatus(c)
  BY <1>2 DEF StatStatus, OutOfUse
<1>3. CASE StatFile(c)
  BY <1>3 DEF StatFile, Current, OutOfUse
<1>4. ASSUME c \in Reader, NEW h \in Host, ReadStart(c, h) PROVE StoreInv'
  BY <1>4 DEF ReadStart
<1>5. ASSUME c \in Reader, NEW s \in Source, ReadFile(c, s) PROVE StoreInv'
  BY <1>5 DEF ReadFile
<1>6. CASE c \in Reader /\ ReadEnd(c)
  BY <1>6 DEF ReadEnd
<1>7. ASSUME c \in Cleaner, NEW s \in Source, SourceAge(c, s) PROVE StoreInv'
  BY <1>7 DEF SourceAge
<1>8. ASSUME c \in Cleaner, NEW h \in Host, EnterHost(c, h) PROVE StoreInv'
  BY <1>8 DEF EnterHost
<1>9. CASE c \in Cleaner /\ CleanStart(c)
  BY <1>9 DEF CleanStart
<1>10. CASE c \in Cleaner /\ KeepSources(c)
  BY <1>10 DEF KeepSources
<1>11. CASE c \in Cleaner /\ ListHosts(c)
  BY <1>11 DEF ListHosts
<1>12. CASE c \in Cleaner /\ RemoveSource(c)
  BY <1>12 DEF RemoveSource
<1>13. CASE c \in Cleaner /\ RemoveFile(c)
  BY <1>13 DEF RemoveFile
<1>14. CASE c \in Cleaner /\ LeaveHost(c)
  BY <1>14 DEF LeaveHost, Empty
<1>15. CASE c \in Cleaner /\ CleanEnd(c)
  BY <1>15 DEF CleanEnd
<1> QED BY <1>1, <1>2, <1>3, <1>4, <1>5, <1>6, <1>7, <1>8, <1>9, <1>10, <1>11, <1>12, <1>13, <1>14, <1>15 DEF Check, Read, Clean

\* steady files remain,
LEMMA CheckFile ==
  ASSUME TypeInv, SteadyInv, NEW c \in Checker,
         Check(c) \/ (c \in Reader /\ Read(c)) \/ (c \in Cleaner /\ Clean(c))
  PROVE  SteadyFile'
<1> USE CheckFrame DEF TypeInv, TypeOK, CheckInv, SteadyInv, Path, Checker, SteadyFile, InUse, MaybeTooOld, MayRemove, SteadyChecked, Exists, Present, TimeInv, filevars, sendervars, history
<1>1. ASSUME NEW s \in Source, FileAge(c, s) PROVE SteadyFile'
  BY <1>1 DEF FileAge, OutOfUse
<1>2. CASE StatStatus(c)
  BY <1>2 DEF StatStatus, OutOfUse
<1>3. CASE StatFile(c)
  BY <1>3 DEF StatFile, Current, OutOfUse
<1>4. ASSUME c \in Reader, NEW h \in Host, ReadStart(c, h) PROVE SteadyFile'
  BY <1>4 DEF ReadStart
<1>5. ASSUME c \in Reader, NEW s \in Source, ReadFile(c, s) PROVE SteadyFile'
  BY <1>5 DEF ReadFile
<1>6. CASE c \in Reader /\ ReadEnd(c)
  BY <1>6 DEF ReadEnd
<1>7. ASSUME c \in Cleaner, NEW s \in Source, SourceAge(c, s) PROVE SteadyFile'
  BY <1>7 DEF SourceAge
<1>8. ASSUME c \in Cleaner, NEW h \in Host, EnterHost(c, h) PROVE SteadyFile'
  BY <1>8 DEF EnterHost
<1>9. CASE c \in Cleaner /\ CleanStart(c)
  BY <1>9 DEF CleanStart
<1>10. CASE c \in Cleaner /\ KeepSources(c)
  BY <1>10 DEF KeepSources
<1>11. CASE c \in Cleaner /\ ListHosts(c)
  BY <1>11 DEF ListHosts
<1>12. CASE c \in Cleaner /\ RemoveSource(c)
  BY <1>12 DEF RemoveSource
<1>13. CASE c \in Cleaner /\ RemoveFile(c)
  BY <1>13 DEF RemoveFile
<1>14. CASE c \in Cleaner /\ LeaveHost(c)
  BY <1>14 DEF LeaveHost, Empty
<1>15. CASE c \in Cleaner /\ CleanEnd(c)
  BY <1>15 DEF CleanEnd
<1> QED BY <1>1, <1>2, <1>3, <1>4, <1>5, <1>6, <1>7, <1>8, <1>9, <1>10, <1>11, <1>12, <1>13, <1>14, <1>15 DEF Check, Read, Clean

\* and no checker finds them out of use.
LEMMA CheckChecked ==
  ASSUME TypeInv, SteadyInv, NEW c \in Checker,
         Check(c) \/ (c \in Reader /\ Read(c)) \/ (c \in Cleaner /\ Clean(c))
  PROVE  SteadyChecked'
<1> USE CheckFrame DEF TypeInv, TypeOK, CheckInv, SteadyInv, Path, Checker, SteadyChecked, InUse, MaybeTooOld, MayRemove, SteadyFile, Exists, Present, TimeInv, filevars, sendervars, history
<1>1. ASSUME NEW s \in Source, FileAge(c, s) PROVE SteadyChecked'
  <2>1. /\ UNCHANGED <<now, file, status, steady, host, seen, keep>>
        /\ cpc[c] = "check" /\ cpc'[c] # "stat"
    BY <1>1 DEF FileAge, OutOfUse
  <2>2. cpc'[c] \in {"remove", "check", "status"}
    BY <1>1 DEF FileAge, OutOfUse
  <2>5. cpc'[c] = "remove" => at'[c] = s
    BY <1>1 DEF FileAge
  <2>6. cpc'[c] = "remove" => s \notin keep[c] \/ now - file[<<host[c], s>>].time >= MaxAge
    BY <1>1 DEF FileAge, OutOfUse
  <2> HIDE CheckFrame DEF TypeInv, TypeOK, CheckInv
  <2>3. ASSUME NEW f \in steady, NEW b \in Cleaner PROVE ~MayRemove(b, f)'
    <3>1. CASE b = c
      <4>1. f[2] \in keep[c]
        BY <2>1, <2>3, <3>1
      <4>2. CASE cpc'[c] = "remove" /\ <<host[c], s>> = f
        BY <2>6, <4>1, <4>2, <2>3, SteadyFacts DEF TypeInv, TypeOK
      <4>3. CASE ~(cpc'[c] = "remove" /\ <<host[c], s>> = f)
        BY <2>1, <2>2, <2>5, <3>1, <4>1, <4>3
      <4> QED BY <4>2, <4>3
    <3>2. CASE b # c
      <4>1. cpc'[b] = cpc[b] /\ at'[b] = at[b]
        BY <2>3, <3>2, CheckFrame
      <4> QED BY <2>1, <2>3, <4>1
    <3> QED BY <3>1, <3>2
  <2>4. ASSUME NEW f \in steady, NEW b \in Checker, b # c
        PROVE  cpc'[b] = cpc[b] /\ at'[b] = at[b]
    BY <2>4, CheckFrame
  <2> QED BY <2>1, <2>3, <2>4
<1>2. CASE StatStatus(c)
  BY <1>2 DEF StatStatus, OutOfUse
<1>3. CASE StatFile(c)
  <2>1. /\ UNCHANGED <<now, file, status, steady, host, keep>>
        /\ cpc[c] = "stat" /\ cpc'[c] # "stat"
    BY <1>3 DEF StatFile, OutOfUse
  <2>2. /\ cpc'[c] \in {"remove", "check"} /\ at' = [at EXCEPT ![c] = at'[c]]
        /\ cpc'[c] = "remove" => c \in Cleaner /\ at'[c] = at[c] /\ ~Current(c)
    BY <1>3 DEF StatFile, OutOfUse
  <2> HIDE CheckFrame DEF TypeInv, TypeOK, CheckInv
  <2>3. ASSUME NEW f \in steady, NEW b \in Cleaner PROVE ~MayRemove(b, f)'
    <3>1. CASE b = c
      <4>1. f[2] \in keep[c]
        BY <2>1, <2>3, <3>1
      <4>2. <<host[c], at[c]>> = f => Current(c)
        BY <2>1, <2>3, SteadyFacts DEF Current
      <4> QED BY <2>1, <2>2, <3>1, <4>1, <4>2
    <3>2. CASE b # c
      <4>1. cpc'[b] = cpc[b] /\ at'[b] = at[b]
        BY <2>3, <3>2, CheckFrame
      <4> QED BY <2>1, <2>3, <4>1
    <3> QED BY <3>1, <3>2
  <2>4. ASSUME NEW b \in Checker, b # c
        PROVE  cpc'[b] = cpc[b] /\ at'[b] = at[b] /\ seen'[b] = seen[b]
    BY <2>4, CheckFrame
  <2> QED BY <2>1, <2>3, <2>4
<1>4. ASSUME c \in Reader, NEW h \in Host, ReadStart(c, h) PROVE SteadyChecked'
  <2>1. /\ UNCHANGED <<now, file, status, steady, at, seen, keep>>
        /\ c \notin Cleaner /\ cpc'[c] # "stat"
    BY <1>4 DEF ReadStart
  <2> HIDE CheckFrame DEF TypeInv, TypeOK, CheckInv
  <2>2. ASSUME NEW b \in Checker, b # c
        PROVE  cpc'[b] = cpc[b] /\ host'[b] = host[b]
    BY <2>2, CheckFrame
  <2> QED BY <2>1, <2>2
<1>5. ASSUME c \in Reader, NEW s \in Source, ReadFile(c, s) PROVE SteadyChecked'
  BY <1>5 DEF ReadFile
<1>6. CASE c \in Reader /\ ReadEnd(c)
  BY <1>6 DEF ReadEnd
<1>7. ASSUME c \in Cleaner, NEW s \in Source, SourceAge(c, s) PROVE SteadyChecked'
  BY <1>7 DEF SourceAge
<1>8. ASSUME c \in Cleaner, NEW h \in Host, EnterHost(c, h) PROVE SteadyChecked'
  BY <1>8 DEF EnterHost
<1>9. CASE c \in Cleaner /\ CleanStart(c)
  BY <1>9 DEF CleanStart
<1>10. CASE c \in Cleaner /\ KeepSources(c)
  <2>1. /\ UNCHANGED <<now, file, status, steady, host, at, seen>>
        /\ cpc'[c] = "hosts" /\ keep' = [keep EXCEPT ![c] = keep'[c]]
        /\ keep'[c] = {s \in Source : Present(s)}
    BY <1>10 DEF KeepSources
  <2> HIDE CheckFrame DEF TypeInv, TypeOK, CheckInv
  <2>2. ASSUME NEW b \in Checker, b # c PROVE cpc'[b] = cpc[b]
    BY <2>2, CheckFrame
  <2>3. \A f \in steady : f[2] \in keep'[c]
    BY <2>1, SteadyFacts
  <2>4. \A b \in Cleaner : b # c => keep'[b] = keep[b]
    BY CheckFrame
  <2> QED BY <1>10, <2>1, <2>2, <2>3, <2>4
<1>11. CASE c \in Cleaner /\ ListHosts(c)
  BY <1>11 DEF ListHosts
<1>12. CASE c \in Cleaner /\ RemoveSource(c)
  BY <1>12 DEF RemoveSource
<1>13. CASE c \in Cleaner /\ RemoveFile(c)
  BY <1>13 DEF RemoveFile
<1>14. CASE c \in Cleaner /\ LeaveHost(c)
  BY <1>14 DEF LeaveHost, Empty
<1>15. CASE c \in Cleaner /\ CleanEnd(c)
  BY <1>15 DEF CleanEnd
<1> QED BY <1>1, <1>2, <1>3, <1>4, <1>5, <1>6, <1>7, <1>8, <1>9, <1>10, <1>11, <1>12, <1>13, <1>14, <1>15 DEF Check, Read, Clean

-----------------------------------------------------------------------------
LEMMA InitSteady == Init => SteadyInv
<1> SUFFICES ASSUME Init PROVE SteadyInv
  OBVIOUS
<1>1. DirInv /\ TimeInv
  BY DEF Init, DirInv, TimeInv, Exists, Present, Path
<1>2. AloneInv /\ SteadySent /\ StoreInv /\ SteadyFile /\ SteadyChecked
  BY DEF Init, AloneInv, SteadySent, StoreInv, SteadyFile, SteadyChecked
<1> QED BY <1>1, <1>2 DEF SteadyInv

\* The passing of time ends what is steady, before it is too old.
LEMMA TickSteady == ASSUME TypeInv, SteadyInv, Tick PROVE SteadyInv'
<1>1. /\ UNCHANGED <<dir, file, status, spc, src, data, left, cur, stamp, cpc, host, at, seen,
                      keep, alone>>
      /\ now \in Nat /\ now' = now + 1
      /\ steady' = {f \in steady : (now + 1) - status[f[2]] < MaxAge}
  BY DEF Tick, filevars, sendervars, checkvars, TypeInv, TypeOK
<1>2. DirInv' /\ AloneInv' /\ SteadySent' /\ StoreInv' /\ SteadyChecked'
  BY <1>1 DEF SteadyInv, DirInv, AloneInv, SteadySent, StoreInv, SteadyChecked, Exists, Present,
              Active, MayRemove
<1>3. TimeInv'
  <2>1. /\ \A s \in Source : Present(s) => status[s] \in Nat
        /\ \A f \in Path : Exists(f) => file[f].time \in Nat
    BY DEF TypeInv, TypeOK, Present, Exists, File
  <2> QED BY <1>1, <2>1 DEF SteadyInv, TimeInv, Exists, Present, TypeInv, TypeOK
<1>4. SteadyFile'
  BY <1>1, SteadyFacts DEF SteadyFile, InUse, MaybeTooOld, Exists, Present, TypeInv, TypeOK
<1> QED BY <1>2, <1>3, <1>4 DEF SteadyInv

LEMMA FlushSteady == ASSUME TypeInv, SteadyInv, NEW s \in Source, Flush(s) PROVE SteadyInv'
<1>1. /\ UNCHANGED <<now, dir, file, spc, src, data, left, cur, stamp, cpc, host, at, seen,
                      keep, alone>>
      /\ status' = [status EXCEPT ![s] = None]
      /\ steady' = {f \in steady : f[2] # s}
  BY DEF Flush, sendervars, checkvars
<1>2. DirInv' /\ AloneInv' /\ SteadySent' /\ SteadyChecked'
  BY <1>1 DEF SteadyInv, DirInv, AloneInv, SteadySent, SteadyChecked, Exists, Active, MayRemove
<1>3. TimeInv' /\ StoreInv'
  BY <1>1 DEF SteadyInv, TimeInv, StoreInv, Exists, Present, TypeInv, TypeOK
<1>4. SteadyFile'
  BY <1>1, SteadyFacts DEF SteadyInv, SteadyFile, InUse, MaybeTooOld, Exists, Present, TypeInv,
                           TypeOK
<1> QED BY <1>2, <1>3, <1>4 DEF SteadyInv

LEMMA StepSteady == ASSUME TypeInv, SteadyInv, [Next]_vars PROVE SteadyInv'
<1>1. CASE UNCHANGED vars
  BY <1>1 DEF vars, filevars, sendervars, checkvars, history, SteadyInv, DirInv, TimeInv, AloneInv,
              SteadySent, StoreInv, SteadyFile, SteadyChecked, Exists, Present, Active, MayRemove,
              InUse, MaybeTooOld
<1>2. CASE \E p \in Sender : Send(p)
  BY <1>2, SendDir, SendTime, SendAlone, SendSent, SendStore, SendFile, SendChecked DEF SteadyInv
<1>3. CASE \E c \in Checker :
             Check(c) \/ (c \in Reader /\ Read(c)) \/ (c \in Cleaner /\ Clean(c))
  BY <1>3, CheckDir, CheckTime, CheckAlone, CheckSent, CheckStore, CheckFile, CheckChecked
     DEF SteadyInv
<1> QED BY <1>1, <1>2, <1>3, TickSteady, FlushSteady DEF Next, Checker

\* No step drops a steady file that a reader looks for.
LEMMA StepRead == ASSUME TypeInv, SteadyInv, [Next]_vars, NEW r \in Reader PROVE ~Drops(r)
<1> DEFINE Same == UNCHANGED <<cpc, host, todo, found, result>>
           SameFor == /\ cpc'[r] = cpc[r] /\ host'[r] = host[r] /\ todo'[r] = todo[r]
                      /\ found'[r] = found[r] /\ result'[r] = result[r]
<1>0. r \in Checker /\ r \notin Cleaner /\ (cpc[r] = "new" => found[r] = {})
  BY DEF Checker, TypeInv, CheckInv
<1>1. CASE SameFor
  BY <1>0, <1>1 DEF Drops
<1>2. ASSUME NEW s \in Source, FileAge(r, s) PROVE ~Drops(r)
  <2>1. /\ UNCHANGED <<host, found>> /\ cpc[r] = "check" /\ todo[r] \ todo'[r] \subseteq {s}
        /\ cpc'[r] # "status" => \/ ~Exists(<<host[r], s>>)
                                 \/ MaybeTooOld(file[<<host[r], s>>].time)
    BY <1>0, <1>2 DEF FileAge, OutOfUse, TypeInv, TypeOK
  <2>2. <<host[r], s>> \in steady => cpc'[r] = "status"
    <3>1. now \in Nat
      BY DEF TypeInv, TypeOK
    <3> QED BY <2>1, <3>1, SteadyFacts DEF MaybeTooOld
  <2> QED BY <2>1, <2>2 DEF Drops
<1>3. CASE StatStatus(r)
  <2>1. /\ UNCHANGED <<host, found, todo>> /\ cpc[r] = "status"
        /\ Present(at[r]) => cpc'[r] = "stat"
    BY <1>0, <1>3 DEF StatStatus, TypeInv, TypeOK
  <2> QED BY <2>1, SteadyFacts DEF Drops
<1>4. CASE StatFile(r)
  <2>1. /\ UNCHANGED <<host, todo>> /\ cpc[r] = "stat"
        /\ Current(r) => at[r] \in found'[r]
        /\ found[r] \subseteq found'[r]
    BY <1>0, <1>4 DEF StatFile, TypeInv, TypeOK
  <2>2. \A f \in steady : f = <<host[r], at[r]>> => Current(r)
    BY <1>0, <2>1, SteadyFacts DEF Current, SteadyInv, SteadyChecked
  <2> QED BY <2>1, <2>2 DEF Drops
<1>5. ASSUME NEW h \in Host, ReadStart(r, h) PROVE ~Drops(r)
  <2>1. /\ cpc[r] = "new" /\ host'[r] = h /\ todo'[r] = {s \in Source : Exists(<<h, s>>)}
        /\ found' = found
    BY <1>0, <1>5 DEF ReadStart, TypeInv, TypeOK
  <2> QED BY <2>1, SteadyFacts DEF Drops
<1>6. ASSUME NEW s \in Source, ReadFile(r, s) PROVE ~Drops(r)
  <2>1. /\ UNCHANGED <<cpc, host, todo>> /\ cpc[r] = "check" /\ found[r] \ found'[r] \subseteq {s}
    BY <1>0, <1>6 DEF ReadFile, TypeInv, TypeOK
  <2>2. Exists(<<host[r], s>>) => \E d \in result'[r] : d.source = s
    <3> DEFINE d == [source |-> s, data |-> file[<<host[r], s>>].data]
    <3>1. Exists(<<host[r], s>>) => result'[r] = result[r] \cup {d}
      BY <1>6 DEF ReadFile, TypeInv, TypeOK
    <3>2. d.source = s
      OBVIOUS
    <3> HIDE DEF d
    <3> QED BY <3>1, <3>2
  <2> QED BY <2>1, <2>2, SteadyFacts DEF Drops
<1>7. CASE ReadEnd(r)
  BY <1>0, <1>7 DEF ReadEnd, Drops, TypeInv, TypeOK
<1>8. ASSUME NEW c \in Checker, c # r,
             Check(c) \/ (c \in Reader /\ Read(c)) \/ (c \in Cleaner /\ Clean(c))
      PROVE  SameFor
  <2> USE <1>0 DEF TypeInv, TypeOK
  <2>1. CASE Check(c)
    BY <1>8, <2>1 DEF Check, FileAge, StatStatus, StatFile
  <2>2. ASSUME c \in Reader, NEW h \in Host, ReadStart(c, h) PROVE SameFor
    BY <1>8, <2>2 DEF ReadStart
  <2>3. ASSUME c \in Reader, NEW s \in Source, ReadFile(c, s) PROVE SameFor
    BY <1>8, <2>3 DEF ReadFile
  <2>4. CASE c \in Reader /\ ReadEnd(c)
    BY <1>8, <2>4 DEF ReadEnd
  <2>5. ASSUME c \in Cleaner, NEW s \in Source, SourceAge(c, s) PROVE SameFor
    BY <1>8, <2>5 DEF SourceAge
  <2>6. ASSUME c \in Cleaner, NEW h \in Host, EnterHost(c, h) PROVE SameFor
    BY <1>8, <2>6 DEF EnterHost
  <2>7. CASE c \in Cleaner /\ (CleanStart(c) \/ RemoveSource(c) \/ KeepSources(c) \/ ListHosts(c)
                               \/ RemoveFile(c) \/ LeaveHost(c) \/ CleanEnd(c))
    BY <1>8, <2>7 DEF CleanStart, RemoveSource, KeepSources, ListHosts, RemoveFile, LeaveHost,
                      CleanEnd
  <2> QED BY <1>8, <2>1, <2>2, <2>3, <2>4, <2>5, <2>6, <2>7 DEF Read, Clean
<1>9. CASE Tick \/ (\E s \in Source : Flush(s)) \/ UNCHANGED vars
  <2>1. Same
    BY <1>9 DEF Tick, Flush, vars, checkvars
  <2> QED BY <2>1, <1>1
<1>10. ASSUME NEW p \in Sender, Send(p) PROVE ~Drops(r)
  <2>1. Same
    BY <1>10, SendFrame DEF checkvars
  <2> QED BY <2>1, <1>1
<1>11. CASE Check(r)
  BY <1>2, <1>3, <1>4, <1>11 DEF Check
<1>12. CASE Read(r)
  BY <1>5, <1>6, <1>7, <1>12 DEF Read
<1>13. ASSUME NEW c \in Checker,
              Check(c) \/ (c \in Reader /\ Read(c)) \/ (c \in Cleaner /\ Clean(c))
       PROVE  ~Drops(r)
  BY <1>0, <1>1, <1>8, <1>11, <1>12, <1>13
<1> QED BY <1>9, <1>10, <1>13 DEF Next, Checker

\* The files that steady stores keep up to date are in use at every moment,
\* whatever the stores of other sources, the readers and the cleanups do.
THEOREM SteadyFilesInUse == Spec => []SteadyInUse
<1>1. SteadyInv => SteadyInUse
  BY DEF SteadyInv, SteadyFile, SteadyInUse
<1> QED BY InitType, InitSteady, StepTypeInv, StepSteady, <1>1, PTL DEF Spec

\* A reader gets the data of every steady file of its host.
THEOREM SteadyFilesRead == Spec => SteadyRead
<1>1. ASSUME TypeInv, SteadyInv, [Next]_vars PROVE [\A r \in Reader : ~Drops(r)]_vars
  BY <1>1, StepRead
<1> QED BY InitType, InitSteady, StepTypeInv, StepSteady, <1>1, PTL DEF Spec, SteadyRead

-----------------------------------------------------------------------------
\* What makes NothingStale hold.  A store has a higher number than the last
\* completed one;
GenInv == /\ \A s \in Source : last[s].data <= stores
          /\ \A p \in Sender : /\ gen[p] <= stores
                               /\ Active(p) => last[src[p]].data < gen[p]

\* no status file, and no store that will write one, is older than the last
\* completed store, and that is not older than the one a reader began with;
MarkInv ==
    \A s \in Source :
        /\ last[s].time <= now
        /\ Present(s) => last[s].time <= status[s]
        /\ \A p \in Sender : spc[p] \in {"rename", "utime"} /\ src[p] = s
                             => last[s].time <= stamp[p]
        /\ \A r \in Reader : /\ since[r][s].data <= last[s].data
                             /\ since[r][s].time <= last[s].time

\* the files that a store has written or is about to give a new time are not
\* those of earlier stores;
NoneBefore(f, n) == Exists(f) => file[f].data = 0 \/ n <= file[f].data
Stored(p) == {h \in data[p] : h \notin left[p] \/ spc[p] = "utime"}
StoredInv ==
    \A p \in Sender :
        Active(p) => \A h \in Stored(p) :
            /\ NoneBefore(<<h, src[p]>>, last[src[p]].data + 1)
            /\ p \in alone => NoneBefore(<<h, src[p]>>, gen[p])

\* what is left of stores before a completed one is older than that;
OldBefore(f, m) == Exists(f) /\ file[f].data # 0 /\ file[f].data < m.data
                     => file[f].time < m.time
OldInv == \A f \in Path : /\ OldBefore(f, last[f[2]])
                          /\ \A r \in Reader : OldBefore(f, since[r][f[2]])

\* so that a reader, which compares the times, does not find it.
ReaderInv ==
    \A r \in Reader :
        /\ cpc[r] \in {"new", "done"} => found[r] = {}
        /\ cpc[r] = "stat" => since[r][at[r]].time <= seen[r]
        /\ \A s \in found[r] : NoneBefore(<<host[r], s>>, since[r][s].data)

FreshInv == GenInv /\ MarkInv /\ StoredInv /\ OldInv /\ ReaderInv /\ NothingStale

LEMMA FileFacts ==
  ASSUME TypeInv, NEW f \in Path, Exists(f)
  PROVE  file[f] \in File /\ file[f].time \in Nat /\ file[f].data \in Nat
<1>1. file[f] \in File
  BY DEF TypeInv, TypeOK, Exists
<1> QED BY <1>1 DEF File

\* What a sender does to a file,
LEMMA SendFiles ==
  ASSUME TypeInv, NEW p \in Sender, Send(p), NEW f \in Path
  PROVE  \/ file'[f] = file[f]
         \/ /\ Active(p) /\ f[2] = src[p]
            /\ file'[f].time \in Nat /\ file'[f].data \in Nat
            /\ \/ ~Exists(f) /\ file'[f].data = 0
               \/ /\ spc[p] = "rename" /\ f[1] = cur[p]
                  /\ file'[f].time = stamp[p] /\ file'[f].data = gen[p]
               \/ /\ spc[p] = "utime" /\ f[1] \in left[p] /\ Exists(f)
                  /\ file'[f].time = stamp[p] /\ file'[f].data = file[f].data
<1> DEFINE Effect ==
         \/ file'[f] = file[f]
         \/ /\ Active(p) /\ f[2] = src[p]
            /\ file'[f].time \in Nat /\ file'[f].data \in Nat
            /\ \/ ~Exists(f) /\ file'[f].data = 0
               \/ /\ spc[p] = "rename" /\ f[1] = cur[p]
                  /\ file'[f].time = stamp[p] /\ file'[f].data = gen[p]
               \/ /\ spc[p] = "utime" /\ f[1] \in left[p] /\ Exists(f)
                  /\ file'[f].time = stamp[p] /\ file'[f].data = file[f].data
<1>0. now \in Nat /\ stamp[p] \in Nat /\ gen[p] \in Nat
  BY DEF TypeInv, TypeOK
<1>1. ASSUME NEW h \in Host, Open(p, h) PROVE Effect
  <2>1. file'[f] = file[f] \/ (/\ f[2] = src[p] /\ ~Exists(f)
                               /\ file'[f] = [time |-> now, data |-> 0])
    BY <1>1, OpenFile
  <2> QED BY <1>0, <1>1, <2>1 DEF Open, Active
<1>2. ASSUME NEW h \in Host, Utime(p, h) PROVE Effect
  <2>1. \/ file'[f] = file[f]
        \/ /\ f = <<h, src[p]>> /\ Exists(f)
           /\ file'[f] = [time |-> stamp[p], data |-> file[f].data]
    BY <1>2, UtimeFile
  <2> QED BY <1>0, <1>2, <2>1, FileFacts DEF Utime, Active
<1>3. CASE Rename(p)
  <2> DEFINE new == [time |-> stamp[p], data |-> gen[p]]
  <2>1. /\ file' = [file EXCEPT ![<<cur[p], src[p]>>] = new] /\ spc[p] = "rename"
        /\ new.time = stamp[p] /\ new.data = gen[p]
    BY <1>3 DEF Rename
  <2> HIDE DEF new
  <2>2. file'[f] = file[f] \/ (f = <<cur[p], src[p]>> /\ file'[f] = new)
    BY <2>1 DEF TypeInv, TypeOK
  <2> QED BY <1>0, <2>1, <2>2 DEF Active
<1>4. ASSUME NEW s \in Source, NEW H \in SUBSET Host, StoreStart(p, s, H) PROVE Effect
  BY <1>4 DEF StoreStart, filevars
<1>5. ASSUME NEW h \in Host, Makedirs(p, h) PROVE Effect
  BY <1>5 DEF Makedirs
<1>6. CASE WriteTmp(p) \/ StampStatus(p) \/ RenameStatus(p) \/ RemoveStatus(p) \/ StoreFails(p)
  BY <1>6 DEF WriteTmp, StampStatus, RenameStatus, RemoveStatus, StoreFails, filevars
<1> QED BY <1>1, <1>2, <1>3, <1>4, <1>5, <1>6 DEF Send

\* and to the marks.
LEMMA SendMarks ==
  ASSUME TypeInv, NEW p \in Sender, Send(p)
  PROVE  /\ since' = since /\ alone' \subseteq alone \cup {p}
         /\ \A s \in Source :
               \/ last'[s] = last[s]
               \/ /\ s = src[p] /\ p \in alone /\ spc[p] = "utime" /\ left[p] = {}
                  /\ last'[s].data = gen[p] /\ last'[s].time = stamp[p]
                  /\ OlderThan(p) /\ file' = file /\ spc'[p] = "idle" /\ p \notin alone'
<1> DEFINE Effect ==
         /\ since' = since /\ alone' \subseteq alone \cup {p}
         /\ \A s \in Source :
               \/ last'[s] = last[s]
               \/ /\ s = src[p] /\ p \in alone /\ spc[p] = "utime" /\ left[p] = {}
                  /\ last'[s].data = gen[p] /\ last'[s].time = stamp[p]
                  /\ OlderThan(p) /\ file' = file /\ spc'[p] = "idle" /\ p \notin alone'
<1>1. CASE RenameStatus(p)
  <2> DEFINE new == [data |-> gen[p], time |-> stamp[p]]
  <2>1. /\ since' = since /\ file' = file /\ spc[p] = "utime" /\ left[p] = {} /\ spc'[p] = "idle"
        /\ p \notin alone' /\ alone' \subseteq alone
    BY <1>1 DEF RenameStatus, StoreEnd, TypeInv, TypeOK
  <2>2. last' = last \/ (/\ p \in alone /\ OlderThan(p)
                         /\ last' = [last EXCEPT ![src[p]] = new])
    BY <1>1 DEF RenameStatus
  <2>3. new.data = gen[p] /\ new.time = stamp[p]
    OBVIOUS
  <2> HIDE DEF new
  <2> QED BY <2>1, <2>2, <2>3 DEF TypeInv, TypeOK
<1>2. ASSUME NEW s \in Source, NEW H \in SUBSET Host, StoreStart(p, s, H) PROVE Effect
  BY <1>2 DEF StoreStart
<1>3. ASSUME NEW h \in Host, Makedirs(p, h) \/ Open(p, h) \/ Utime(p, h) PROVE Effect
  BY <1>3 DEF Makedirs, Open, Utime, history
<1>4. CASE WriteTmp(p) \/ Rename(p) \/ StampStatus(p) \/ RemoveStatus(p) \/ StoreFails(p)
  BY <1>4 DEF WriteTmp, Rename, StampStatus, RemoveStatus, StoreFails, StoreEnd, history
<1> QED BY <1>1, <1>2, <1>3, <1>4 DEF Send

\* A step of a sender keeps the numbers in order,
LEMMA SendGen ==
  ASSUME TypeInv, SteadyInv, FreshInv, NEW p \in Sender, Send(p)
  PROVE  GenInv'
<1> USE SendFrame, SendMarks DEF TypeInv, TypeOK, SendInv, SteadyInv, FreshInv, Path, Active, GenInv, Mark, AloneInv, filevars, sendervars, checkvars, history
<1>1. ASSUME NEW s \in Source, NEW H \in SUBSET Host, StoreStart(p, s, H) PROVE GenInv'
  BY <1>1 DEF StoreStart
<1>2. ASSUME NEW h \in Host, Makedirs(p, h) PROVE GenInv'
  BY <1>2 DEF Makedirs
<1>3. ASSUME NEW h \in Host, Open(p, h) PROVE GenInv'
  BY <1>3 DEF Open
<1>4. ASSUME NEW h \in Host, Utime(p, h) PROVE GenInv'
  BY <1>4 DEF Utime
<1>5. CASE WriteTmp(p)
  BY <1>5 DEF WriteTmp
<1>6. CASE Rename(p)
  BY <1>6 DEF Rename
<1>7. CASE StampStatus(p)
  BY <1>7 DEF StampStatus
<1>8. CASE RenameStatus(p)
  <2>1. /\ stores' = stores /\ gen' = [gen EXCEPT ![p] = 0] /\ spc'[p] = "idle"
        /\ spc[p] = "utime" /\ src[p] \in Source
    BY <1>8 DEF RenameStatus, StoreEnd
  <2>2. ASSUME NEW s \in Source PROVE last'[s].data <= stores'
    <3>1. last'[s] = last[s] \/ last'[s].data = gen[p]
      OBVIOUS
    <3> HIDE SendFrame, SendMarks
    <3> QED BY <2>1, <3>1
  <2>3. ASSUME NEW q \in Sender, Active(q)' PROVE last'[src'[q]].data < gen'[q]
    <3>1. /\ q # p /\ src'[q] = src[q] /\ gen'[q] = gen[q] /\ spc[q] # "idle"
          /\ src[q] \in Source
      BY <2>1, <2>3
    <3>2. last'[src[q]] = last[src[q]]
      BY <2>1, <3>1
    <3> QED BY <3>1, <3>2
  <2> QED BY <2>1, <2>2, <2>3
<1>9. CASE RemoveStatus(p)
  BY <1>9 DEF RemoveStatus, StoreEnd
<1>10. CASE StoreFails(p)
  BY <1>10 DEF StoreFails, StoreEnd
<1> QED BY <1>1, <1>2, <1>3, <1>4, <1>5, <1>6, <1>7, <1>8, <1>9, <1>10 DEF Send

\* and the times of the marks,
LEMMA SendMark ==
  ASSUME TypeInv, SteadyInv, FreshInv, NEW p \in Sender, Send(p)
  PROVE  MarkInv'
<1> USE SendFrame, SendMarks DEF TypeInv, TypeOK, SendInv, SteadyInv, FreshInv, Path, Active, MarkInv, Mark, Present, AloneInv, TimeInv, filevars, sendervars, checkvars, history
<1>1. ASSUME NEW s \in Source, NEW H \in SUBSET Host, StoreStart(p, s, H) PROVE MarkInv'
  BY <1>1 DEF StoreStart
<1>2. ASSUME NEW h \in Host, Makedirs(p, h) PROVE MarkInv'
  BY <1>2 DEF Makedirs
<1>3. ASSUME NEW h \in Host, Open(p, h) PROVE MarkInv'
  BY <1>3 DEF Open
<1>4. ASSUME NEW h \in Host, Utime(p, h) PROVE MarkInv'
  BY <1>4 DEF Utime
<1>5. CASE WriteTmp(p)
  BY <1>5 DEF WriteTmp
<1>6. CASE Rename(p)
  BY <1>6 DEF Rename
<1>7. CASE StampStatus(p)
  BY <1>7 DEF StampStatus
<1>8. CASE RenameStatus(p)
  <2>1. /\ status' = [status EXCEPT ![src[p]] = stamp[p]] /\ spc'[p] = "idle"
        /\ spc[p] = "utime" /\ src[p] \in Source
        /\ stamp[p] \in Nat /\ stamp[p] <= now /\ last[src[p]].time <= stamp[p]
    BY <1>8 DEF RenameStatus, StoreEnd
  <2> TAKE s \in Source
  <2>2. /\ last[s].data \in Nat /\ last[s].time \in Nat /\ now \in Nat
        /\ \A r \in Reader : since[r][s].data \in Nat /\ since[r][s].time \in Nat
    OBVIOUS
  <2>3. \/ last'[s] = last[s]
        \/ /\ s = src[p] /\ p \in alone
           /\ last'[s].data = gen[p] /\ last'[s].time = stamp[p]
    OBVIOUS
  <2>4. last'[s].time <= now'
    BY <2>1, <2>3
  <2>5. Present(s)' => last'[s].time <= status'[s]
    BY <2>1, <2>3
  <2>6. ASSUME NEW q \in Sender, spc'[q] \in {"rename", "utime"}, src'[q] = s
        PROVE  last'[s].time <= stamp'[q]
    <3>1. q # p /\ spc[q] \in {"rename", "utime"} /\ src[q] = s /\ stamp'[q] = stamp[q]
      BY <2>1, <2>6
    <3>2. last'[s] = last[s]
      BY <2>3, <3>1
    <3> QED BY <3>1, <3>2
  <2>7. \A r \in Reader : since'[r][s].data <= last'[s].data /\ since'[r][s].time <= last'[s].time
    <3>1. gen[p] \in Nat /\ last[src[p]].data < gen[p]
      <4> HIDE SendFrame, SendMarks
      <4> QED BY <2>1 DEF GenInv
    <3> QED BY <2>1, <2>2, <2>3, <3>1
  <2> QED BY <2>4, <2>5, <2>6, <2>7
<1>9. CASE RemoveStatus(p)
  BY <1>9 DEF RemoveStatus, StoreEnd
<1>10. CASE StoreFails(p)
  BY <1>10 DEF StoreFails, StoreEnd
<1> QED BY <1>1, <1>2, <1>3, <1>4, <1>5, <1>6, <1>7, <1>8, <1>9, <1>10 DEF Send

\* and the files of a store from being those of an earlier one,
LEMMA SendStored ==
  ASSUME TypeInv, SteadyInv, FreshInv, NEW p \in Sender, Send(p)
  PROVE  StoredInv'
<1> SUFFICES ASSUME NEW q \in Sender, Active(q)', NEW h \in Stored(q)'
             PROVE  /\ NoneBefore(<<h, src[q]>>, last[src[q]].data + 1)'
                    /\ (q \in alone => NoneBefore(<<h, src[q]>>, gen[q]))'
  BY DEF StoredInv
<1>0. TypeInv'
  BY StepTypeInv DEF Next
<1>1. PICK s \in Source : s = src'[q]
  BY <1>0 DEF TypeInv, SendInv, Active
<1> DEFINE f == <<h, s>>
<1>2. /\ h \in Host /\ f \in Path
      /\ gen[p] \in Nat /\ last[s].data \in Nat /\ last'[s].data \in Nat
  BY <1>0 DEF TypeInv, TypeOK, Stored, Path, Mark
<1> SUFFICES /\ file'[f] # None => file'[f].data = 0 \/ last'[s].data + 1 <= file'[f].data
             /\ q \in alone' /\ file'[f] # None => file'[f].data = 0 \/ gen'[q] <= file'[f].data
  BY <1>1 DEF NoneBefore, Exists
<1>3. CASE q # p
  <2>1. /\ src[q] = s /\ Active(q) /\ h \in Stored(q) /\ gen'[q] = gen[q]
        /\ q \in alone' => q \in alone
    BY <1>1, <1>3, SendFrame, SendMarks DEF Active, Stored
  <2>2. /\ NoneBefore(f, last[s].data + 1)
        /\ q \in alone => NoneBefore(f, gen[q])
    BY <2>1 DEF FreshInv, StoredInv
  <2>3. last'[s] = last[s]
    BY <1>1, <1>3, <2>1, SendMarks DEF SteadyInv, AloneInv
  <2>4. src[p] = s /\ Active(p) => last[s].data < gen[p] /\ q \notin alone
    BY <1>3, <2>1 DEF FreshInv, GenInv, SteadyInv, AloneInv
  <2>5. \/ file'[f] = file[f]
        \/ src[p] = s /\ Active(p) /\ file'[f].data \in Nat
             /\ (file'[f].data = 0 \/ file'[f].data = gen[p]
                   \/ (Exists(f) /\ file'[f].data = file[f].data))
    BY <1>2, SendFiles
  <2> QED BY <1>2, <2>1, <2>2, <2>3, <2>4, <2>5 DEF NoneBefore, Exists
<1>4. CASE q = p
  <2> DEFINE Kept == /\ src[p] = s /\ Active(p) /\ gen'[p] = gen[p] /\ last' = last
                     /\ alone' = alone
                     /\ \/ h \in Stored(p)
                        \/ /\ file'[f].data = gen[p]
  <2>1. Kept
    <3> USE <1>1, <1>2, <1>4 DEF Active, Stored, TypeInv, TypeOK, SendInv
    <3>1. ASSUME NEW x \in Source, NEW H \in SUBSET Host, StoreStart(p, x, H) PROVE Kept
      BY <3>1 DEF StoreStart
    <3>2. ASSUME NEW i \in Host, Makedirs(p, i) \/ Open(p, i) \/ Utime(p, i) PROVE Kept
      BY <3>2 DEF Makedirs, Open, Utime, sendervars, history
    <3>3. CASE WriteTmp(p) \/ StampStatus(p)
      BY <3>3 DEF WriteTmp, StampStatus, history
    <3>4. CASE Rename(p)
      <4> DEFINE new == [time |-> stamp[p], data |-> gen[p]]
      <4>1. /\ file' = [file EXCEPT ![<<cur[p], src[p]>>] = new] /\ new.data = gen[p]
            /\ left' = [left EXCEPT ![p] = @ \ {cur[p]}] /\ spc'[p] = "store"
            /\ UNCHANGED <<src, gen, last, alone, data>> /\ spc[p] = "rename"
        BY <3>4 DEF Rename, history
      <4> HIDE DEF new
      <4>2. h = cur[p] => file'[f].data = gen[p]
        BY <4>1
      <4> QED BY <4>1, <4>2
    <3>5. CASE RenameStatus(p) \/ RemoveStatus(p) \/ StoreFails(p)
      BY <3>5 DEF RenameStatus, RemoveStatus, StoreFails, StoreEnd
    <3> QED BY <3>1, <3>2, <3>3, <3>4, <3>5 DEF Send
  <2>2. last[s].data < gen[p]
    BY <2>1 DEF FreshInv, GenInv
  <2>3. CASE file'[f].data = gen[p]
    BY <1>2, <1>4, <2>1, <2>2, <2>3
  <2>4. CASE h \in Stored(p)
    <3>1. /\ NoneBefore(f, last[s].data + 1)
          /\ p \in alone => NoneBefore(f, gen[p])
      BY <2>1, <2>4 DEF FreshInv, StoredInv
    <3>2. \/ file'[f] = file[f]
          \/ file'[f].data \in Nat
             /\ (file'[f].data = 0 \/ file'[f].data = gen[p]
                   \/ (Exists(f) /\ file'[f].data = file[f].data))
      BY <1>2, SendFiles
    <3> QED BY <1>2, <1>4, <2>1, <2>2, <3>1, <3>2 DEF NoneBefore, Exists
  <2> QED BY <2>1, <2>3, <2>4
<1> QED BY <1>3, <1>4

\* and what is left of earlier stores from being taken for newer.
LEMMA SendOld ==
  ASSUME TypeInv, SteadyInv, FreshInv, NEW p \in Sender, Send(p)
  PROVE  OldInv'
<1>1. ASSUME NEW f \in Path, NEW m \in Mark, OldBefore(f, m), m.data <= last[f[2]].data
      PROVE  OldBefore(f, m)'
  <2>0. f[1] \in Host /\ f[2] \in Source /\ f = <<f[1], f[2]>> /\ m.data \in Nat
        /\ last[f[2]].data \in Nat /\ gen[p] \in Nat
    BY DEF Path, Mark, TypeInv, TypeOK
  <2>1. CASE file'[f] = file[f]
    BY <1>1, <2>1 DEF OldBefore, Exists
  <2>2. CASE /\ Active(p) /\ f[2] = src[p]
             /\ file'[f].data = 0 \/ file'[f].data = gen[p]
    BY <2>0, <1>1, <2>2 DEF OldBefore, FreshInv, GenInv
  <2>3. CASE /\ spc[p] = "utime" /\ f[1] \in left[p] /\ Exists(f) /\ f[2] = src[p]
             /\ file'[f].data = file[f].data
    <3>1. NoneBefore(f, last[f[2]].data + 1)
      BY <2>0, <2>3 DEF FreshInv, StoredInv, Stored, TypeInv, SendInv, Active
    <3>2. file[f].data \in Nat
      BY <2>3, FileFacts
    <3> QED BY <1>1, <2>0, <2>3, <3>1, <3>2 DEF NoneBefore, OldBefore
  <2> QED BY <2>1, <2>2, <2>3, SendFiles
<1>2. ASSUME NEW f \in Path PROVE OldBefore(f, last[f[2]])'
  <2>0. f[1] \in Host /\ f[2] \in Source /\ f = <<f[1], f[2]>>
    BY DEF Path
  <2>1. CASE last'[f[2]] = last[f[2]]
    <3>1. last[f[2]] \in Mark /\ last[f[2]].data \in Nat
      BY <2>0 DEF TypeInv, TypeOK, Mark
    <3>2. OldBefore(f, last[f[2]])
      BY DEF FreshInv, OldInv
    <3>3. PICK m \in Mark : m = last[f[2]]
      BY <3>1
    <3>4. OldBefore(f, m)'
      BY <1>1, <3>1, <3>2, <3>3
    <3> QED BY <2>1, <3>3, <3>4 DEF OldBefore, Exists
  <2>2. CASE /\ f[2] = src[p] /\ p \in alone /\ spc[p] = "utime" /\ left[p] = {}
             /\ last'[f[2]].data = gen[p] /\ last'[f[2]].time = stamp[p]
             /\ OlderThan(p) /\ file' = file
    <3>1. Exists(f) => file[f].data \in Nat
      BY FileFacts
    <3>2. f[1] \in data[p] => NoneBefore(f, gen[p])
      BY <2>0, <2>2 DEF FreshInv, StoredInv, Stored, Active
    <3>3. f[1] \notin data[p] /\ Exists(f) => file[f].time < stamp[p]
      BY <2>2 DEF OlderThan
    <3>4. gen[p] \in Nat
      BY DEF TypeInv, TypeOK
    <3> QED BY <2>2, <3>1, <3>2, <3>3, <3>4 DEF NoneBefore, OldBefore, Exists
  <2> QED BY <2>0, <2>1, <2>2, SendMarks
<1>3. ASSUME NEW f \in Path, NEW r \in Reader PROVE OldBefore(f, since[r][f[2]])'
  <2>1. f[2] \in Source /\ since[r][f[2]] \in Mark
    BY DEF Path, TypeInv, TypeOK
  <2>2. OldBefore(f, since[r][f[2]]) /\ since[r][f[2]].data <= last[f[2]].data
    BY <2>1 DEF FreshInv, OldInv, MarkInv
  <2>3. PICK m \in Mark : m = since[r][f[2]]
    BY <2>1
  <2>4. OldBefore(f, m)'
    BY <1>1, <2>2, <2>3
  <2> QED BY <2>3, <2>4, SendMarks DEF OldBefore, Exists
<1> QED BY <1>2, <1>3 DEF OldInv

LEMMA SendReader ==
  ASSUME TypeInv, SteadyInv, FreshInv, NEW p \in Sender, Send(p)
  PROVE  ReaderInv' /\ NothingStale'
<1>1. UNCHANGED <<cpc, host, at, seen, found, result, since>>
  BY SendFrame, SendMarks DEF checkvars
<1>2. ASSUME NEW r \in Reader, NEW s \in found[r] PROVE NoneBefore(<<host[r], s>>, since[r][s].data)'
  <2>1. host[r] \in Host /\ s \in Source
    BY DEF FreshInv, ReaderInv, TypeInv, CheckInv, TypeOK, Checker
  <2> DEFINE f == <<host[r], s>>
  <2>2. /\ f \in Path /\ gen[p] \in Nat /\ since[r][s].data \in Nat /\ last[s].data \in Nat
    BY <2>1 DEF Path, TypeInv, TypeOK, Mark
  <2>3. NoneBefore(f, since[r][s].data) /\ since[r][s].data <= last[s].data
    BY <2>1 DEF FreshInv, ReaderInv, MarkInv
  <2>4. Active(p) /\ src[p] = s => last[s].data < gen[p]
    BY DEF FreshInv, GenInv
  <2>5. \/ file'[f] = file[f]
        \/ Active(p) /\ src[p] = s
           /\ (file'[f].data = 0 \/ file'[f].data = gen[p]
                 \/ (Exists(f) /\ file'[f].data = file[f].data))
    BY <2>2, SendFiles
  <2> QED BY <1>1, <2>2, <2>3, <2>4, <2>5 DEF NoneBefore, Exists
<1>3. ReaderInv'
  BY <1>1, <1>2 DEF FreshInv, ReaderInv
<1> QED BY <1>1, <1>3 DEF FreshInv, NothingStale

\* A checker changes what its own reader knows, and removes files.
LEMMA CheckSince ==
  ASSUME TypeInv, NEW c \in Checker,
         Check(c) \/ (c \in Reader /\ Read(c)) \/ (c \in Cleaner /\ Clean(c))
  PROVE  /\ \A r \in Reader : \/ since'[r] = since[r]
                              \/ since'[r] = last
                              \/ since'[r] = [s \in Source |-> NoMark]
         /\ \A r \in Reader \ {c} : /\ since'[r] = since[r] /\ found'[r] = found[r]
                                    /\ result'[r] = result[r]
<1> USE DEF TypeInv, TypeOK, Checker
<1> DEFINE Effect ==
         /\ \A r \in Reader : \/ since'[r] = since[r]
                              \/ since'[r] = last
                              \/ since'[r] = [s \in Source |-> NoMark]
         /\ \A r \in Reader \ {c} : /\ since'[r] = since[r] /\ found'[r] = found[r]
                                    /\ result'[r] = result[r]
<1>1. CASE Check(c)
  BY <1>1 DEF Check, FileAge, StatStatus, StatFile, history
<1>2. ASSUME c \in Reader, NEW h \in Host, ReadStart(c, h) PROVE Effect
  BY <1>2 DEF ReadStart
<1>3. ASSUME c \in Reader, NEW s \in Source, ReadFile(c, s) PROVE Effect
  BY <1>3 DEF ReadFile, history
<1>4. CASE c \in Reader /\ ReadEnd(c)
  BY <1>4 DEF ReadEnd
<1>5. CASE c \in Cleaner /\ Clean(c)
  <2>1. UNCHANGED <<since, found, result>>
    BY <1>5 DEF Clean, SourceAge, EnterHost, CleanStart, RemoveSource, KeepSources, ListHosts,
                RemoveFile, LeaveHost, CleanEnd, history
  <2> QED BY <2>1
<1> QED BY <1>1, <1>2, <1>3, <1>4, <1>5 DEF Read

\* Removing files and status files does not make old data newer.
LEMMA CheckFresh ==
  ASSUME TypeInv, SteadyInv, FreshInv, NEW c \in Checker,
         Check(c) \/ (c \in Reader /\ Read(c)) \/ (c \in Cleaner /\ Clean(c))
  PROVE  GenInv' /\ MarkInv' /\ StoredInv' /\ OldInv'
<1>1. /\ UNCHANGED <<now, stores, spc, src, data, left, stamp, gen, alone, last>>
      /\ \A f \in Path : file'[f] = file[f] \/ file'[f] = None
      /\ \A s \in Source : status'[s] = status[s] \/ status'[s] = None
  BY CheckFrame DEF sendervars
<1>2. /\ GenInv /\ MarkInv /\ StoredInv /\ OldInv
  BY DEF FreshInv
<1>3. GenInv'
  BY <1>1, <1>2 DEF GenInv, Active
<1>4. MarkInv'
  <2>1. \A s \in Source : last[s].data \in Nat /\ last[s].time \in Nat
    BY DEF TypeInv, TypeOK, Mark
  <2>2. ASSUME NEW s \in Source, NEW r \in Reader
        PROVE  since'[r][s].data <= last[s].data /\ since'[r][s].time <= last[s].time
    BY <1>2, <2>1, CheckSince DEF MarkInv, NoMark
  <2> QED BY <1>1, <1>2, <2>2 DEF MarkInv, Present
<1>5. StoredInv'
  <2>1. \A p \in Sender : \A h \in Stored(p) : Active(p) => <<h, src[p]>> \in Path
    BY DEF Stored, TypeInv, TypeOK, SendInv, Active, Path
  <2> QED BY <1>1, <1>2, <2>1 DEF StoredInv, Stored, NoneBefore, Active, Exists
<1>6. OldInv'
  <2>1. ASSUME NEW f \in Path PROVE OldBefore(f, last[f[2]])'
    BY <1>1, <1>2 DEF OldInv, OldBefore, Exists
  <2>2. ASSUME NEW f \in Path, NEW r \in Reader PROVE OldBefore(f, since[r][f[2]])'
    <3>1. f[2] \in Source
      BY DEF Path
    <3>2. CASE since'[r] = since[r]
      BY <1>1, <1>2, <3>2 DEF OldInv, OldBefore, Exists
    <3>3. CASE since'[r] = last
      BY <1>1, <1>2, <3>3 DEF OldInv, OldBefore, Exists
    <3>4. CASE since'[r] = [s \in Source |-> NoMark]
      <4>1. since'[r][f[2]].data = 0
        BY <3>1, <3>4 DEF NoMark
      <4>2. Exists(f) => file[f].data \in Nat
        BY FileFacts
      <4> QED BY <1>1, <4>1, <4>2 DEF OldBefore, Exists
    <3> QED BY <3>2, <3>3, <3>4, CheckSince
  <2> QED BY <2>1, <2>2 DEF OldInv
<1> QED BY <1>3, <1>4, <1>5, <1>6

\* A reader takes no file for current that is older than what it began with.
LEMMA CheckReader ==
  ASSUME TypeInv, SteadyInv, FreshInv, NEW c \in Checker,
         Check(c) \/ (c \in Reader /\ Read(c)) \/ (c \in Cleaner /\ Clean(c)),
         NEW r \in Reader
  PROVE  /\ (cpc[r] \in {"new", "done"} => found[r] = {})'
         /\ (cpc[r] = "stat" => since[r][at[r]].time <= seen[r])'
         /\ (\A s \in found[r] : NoneBefore(<<host[r], s>>, since[r][s].data))'
         /\ (\A d \in result[r] : d.data = 0 \/ d.data >= since[r][d.source].data)'
<1> DEFINE Goal ==
         /\ cpc'[r] \in {"new", "done"} => found'[r] = {}
         /\ cpc'[r] = "stat" => since'[r][at'[r]].time <= seen'[r]
         /\ \A s \in found'[r] : file'[<<host'[r], s>>] # None =>
                 file'[<<host'[r], s>>].data = 0
                   \/ since'[r][s].data <= file'[<<host'[r], s>>].data
         /\ \A d \in result'[r] : d.data = 0 \/ d.data >= since'[r][d.source].data
<1> SUFFICES Goal
  BY DEF NoneBefore, Exists
<1>0. /\ r \in Checker /\ r \notin Cleaner
      /\ cpc[r] \in {"new", "done"} => found[r] = {}
      /\ cpc[r] = "stat" => since[r][at[r]].time <= seen[r]
      /\ \A s \in found[r] : NoneBefore(<<host[r], s>>, since[r][s].data)
      /\ \A d \in result[r] : d.data = 0 \/ d.data >= since[r][d.source].data
      /\ cpc[r] = "new" => found[r] = {} /\ result[r] = {}
      /\ found[r] # {} => host[r] \in Host
      /\ found[r] \in SUBSET Source /\ since[r] \in [Source -> Mark]
  BY DEF Checker, TypeInv, TypeOK, CheckInv, FreshInv, ReaderInv, NothingStale
<1>1. \A f \in Path : file'[f] = file[f] \/ file'[f] = None
  BY CheckFrame
<1>2. CASE /\ host'[r] = host[r] /\ found'[r] \subseteq found[r] /\ since'[r] = since[r]
           /\ cpc'[r] \notin {"new", "done"} \/ (cpc'[r] = cpc[r] /\ found'[r] = found[r])
           /\ cpc'[r] = "stat" => /\ since[r][at'[r]].time <= seen'[r]
           /\ result'[r] = result[r]
  BY <1>0, <1>1, <1>2 DEF NoneBefore, Exists, Path
<1>3. CASE c # r
  <2>1. /\ host'[r] = host[r] /\ found'[r] = found[r] /\ since'[r] = since[r]
        /\ cpc'[r] = cpc[r] /\ at'[r] = at[r] /\ seen'[r] = seen[r] /\ result'[r] = result[r]
    BY <1>0, <1>3, CheckFrame, CheckSince
  <2> QED BY <1>0, <1>2, <2>1
<1>4. ASSUME NEW s \in Source, FileAge(r, s) PROVE Goal
  <2>1. /\ UNCHANGED <<host, found, since, result>> /\ cpc'[r] \in {"check", "status"}
    BY <1>0, <1>4 DEF FileAge, OutOfUse, history, TypeInv, TypeOK
  <2> QED BY <1>2, <2>1
<1>5. CASE StatStatus(r)
  <2>1. at[r] \in Source /\ cpc[r] = "status"
    BY <1>0, <1>5 DEF StatStatus, TypeInv, CheckInv
  <2>2. /\ UNCHANGED <<host, found, since, result>> /\ cpc'[r] \in {"check", "stat"}
        /\ cpc'[r] = "stat" => Present(at[r]) /\ at'[r] = at[r] /\ seen'[r] = status[at[r]]
    BY <1>0, <1>5 DEF StatStatus, OutOfUse, history, TypeInv, TypeOK
  <2>3. Present(at[r]) => since[r][at[r]].time <= status[at[r]]
    <3>1. Present(at[r]) => status[at[r]] \in Nat
      BY <2>1 DEF TypeInv, TypeOK, Present
    <3>2. last[at[r]].time \in Nat /\ since[r][at[r]].time \in Nat
      BY <2>1, <1>0 DEF TypeInv, TypeOK, Mark
    <3> QED BY <2>1, <3>1, <3>2 DEF FreshInv, MarkInv
  <2> QED BY <1>2, <2>2, <2>3
<1>6. CASE StatFile(r)
  <2>1. /\ at[r] \in Source /\ host[r] \in Host /\ cpc[r] = "stat" /\ seen[r] \in Nat
    BY <1>0, <1>6 DEF StatFile, TypeInv, TypeOK, CheckInv
  <2> DEFINE f == <<host[r], at[r]>>
  <2>2. /\ UNCHANGED <<host, since, result, file>> /\ cpc'[r] = "check"
        /\ found'[r] = IF Current(r) THEN found[r] \cup {at[r]} ELSE found[r]
    BY <1>0, <1>6 DEF StatFile, OutOfUse, history, filevars, TypeInv, TypeOK
  <2>3. Current(r) => file[f].data = 0 \/ since[r][at[r]].data <= file[f].data
    <3>1. f \in Path /\ OldBefore(f, since[r][at[r]])
      BY <2>1 DEF Path, FreshInv, OldInv
    <3>2. Exists(f) => file[f].time \in Nat /\ file[f].data \in Nat
      BY <3>1, FileFacts
    <3>3. since[r][at[r]].time \in Nat /\ since[r][at[r]].data \in Nat
      BY <1>0, <2>1 DEF Mark
    <3>4. since[r][at[r]].time <= seen[r]
      BY <1>0, <2>1
    <3> QED BY <2>1, <3>1, <3>2, <3>3, <3>4 DEF OldBefore, Current
  <2> QED BY <1>0, <2>2, <2>3 DEF NoneBefore, Exists
<1>7. ASSUME NEW h \in Host, ReadStart(r, h) PROVE Goal
  <2>1. /\ UNCHANGED <<found, result>> /\ cpc'[r] \in {"check", "done"} /\ cpc[r] = "new"
    BY <1>0, <1>7 DEF ReadStart, TypeInv, TypeOK
  <2> QED BY <1>0, <2>1
<1>8. ASSUME NEW s \in Source, ReadFile(r, s) PROVE Goal
  <2> DEFINE f == <<host[r], s>>
             d == [source |-> s, data |-> file[f].data]
  <2>1. /\ UNCHANGED <<cpc, host, since, at, seen, file>> /\ cpc[r] = "check"
        /\ found'[r] = found[r] \ {s} /\ s \in found[r]
        /\ result'[r] = result[r] \/ (Exists(f) /\ result'[r] = result[r] \cup {d})
    BY <1>0, <1>8 DEF ReadFile, filevars, history, TypeInv, TypeOK
  <2>2. Exists(f) => file[f].data = 0 \/ since[r][s].data <= file[f].data
    BY <1>0, <2>1 DEF NoneBefore
  <2>3. d.source = s /\ d.data = file[f].data
    OBVIOUS
  <2>4. /\ Exists(f) => file[f].data \in Nat
        /\ since[r][s].data \in Nat
    BY <1>0, <2>1, FileFacts DEF Path, Mark
  <2>5. \A e \in result'[r] : e.data = 0 \/ e.data >= since'[r][e.source].data
    <3> HIDE DEF d
    <3> QED BY <1>0, <2>1, <2>2, <2>3, <2>4
  <2> QED BY <1>0, <2>1, <2>5 DEF NoneBefore, Exists
<1>9. CASE ReadEnd(r)
  <2>1. found'[r] = {} /\ result'[r] = {} /\ cpc'[r] = "done"
    BY <1>0, <1>9 DEF ReadEnd, TypeInv, TypeOK
  <2> QED BY <2>1
<1> QED BY <1>0, <1>3, <1>4, <1>5, <1>6, <1>7, <1>8, <1>9 DEF Check, Read

LEMMA InitFresh == Init => FreshInv
<1> SUFFICES ASSUME Init PROVE FreshInv
  OBVIOUS
<1>1. GenInv /\ MarkInv /\ ReaderInv /\ NothingStale
  BY DEF Init, GenInv, MarkInv, ReaderInv, NothingStale, NoMark, Active, Present, Checker
<1>2. StoredInv /\ OldInv
  BY DEF Init, StoredInv, OldInv, OldBefore, Exists, Active, Path
<1> QED BY <1>1, <1>2 DEF FreshInv

LEMMA StepFresh == ASSUME TypeInv, SteadyInv, FreshInv, [Next]_vars PROVE FreshInv'
<1>1. CASE Tick \/ UNCHANGED vars
  <2>1. /\ UNCHANGED <<filevars, sendervars, checkvars, alone, last, since>>
        /\ now' = now \/ now' = now + 1
    BY <1>1 DEF Tick, vars, history
  <2>2. now \in Nat /\ \A s \in Source : last[s].time \in Nat
    BY DEF TypeInv, TypeOK, Mark
  <2>3. MarkInv'
    BY <2>1, <2>2 DEF filevars, sendervars, checkvars, FreshInv, MarkInv, Present
  <2> QED BY <2>1, <2>3 DEF filevars, sendervars, checkvars, FreshInv, GenInv, StoredInv, OldInv,
             ReaderInv, NothingStale, NoneBefore, OldBefore, Stored, Active, Exists
<1>2. ASSUME NEW s \in Source, Flush(s) PROVE FreshInv'
  <2>1. /\ UNCHANGED <<now, file, sendervars, checkvars, alone, last, since>>
        /\ status' = [status EXCEPT ![s] = None]
    BY <1>2 DEF Flush
  <2>2. MarkInv'
    BY <2>1 DEF sendervars, FreshInv, MarkInv, Present, TypeInv, TypeOK
  <2> QED BY <2>1, <2>2 DEF sendervars, checkvars, FreshInv, GenInv, StoredInv, OldInv,
             ReaderInv, NothingStale, NoneBefore, OldBefore, Stored, Active, Exists
<1>3. CASE \E p \in Sender : Send(p)
  BY <1>3, SendGen, SendMark, SendStored, SendOld, SendReader DEF FreshInv
<1>4. ASSUME NEW c \in Checker,
             Check(c) \/ (c \in Reader /\ Read(c)) \/ (c \in Cleaner /\ Clean(c))
      PROVE  FreshInv'
  <2>1. GenInv' /\ MarkInv' /\ StoredInv' /\ OldInv'
    BY <1>4, CheckFresh
  <2>2. ReaderInv' /\ NothingStale'
    BY <1>4, CheckReader DEF ReaderInv, NothingStale
  <2> QED BY <2>1, <2>2 DEF FreshInv
<1> QED BY <1>1, <1>2, <1>3, <1>4 DEF Next, Checker

\* A reader gets no data of a store that is older than the last one completed
\* when it started, if that one was alone and began a second of its own.
THEOREM NothingStaleRead == Spec => []NothingStale
<1>1. FreshInv => NothingStale
  BY DEF FreshInv
<1> QED BY InitType, InitSteady, InitFresh, StepTypeInv, StepSteady, StepFresh, <1>1, PTL DEF Spec
-----------------------------------------------------------------------------
\* What a cleanup that nothing else meets has done so far.  The files that it
\* has not decided about yet are those of hosts that it has still to visit,
\* and of the sources that are left of the host it visits.
Visiting == {"check", "status", "stat", "remove"}

Undecided(c, f) ==
    \/ cpc[c] \in Visiting \cup {"host"} /\ f[1] \in hosts[c]
    \/ /\ cpc[c] \in Visiting /\ f[1] = host[c]
       /\ f[2] \in todo[c] \/ (cpc[c] # "check" /\ f[2] = at[c])

Unvisited(c, h) ==
    \/ cpc[c] \in Visiting \cup {"host"} /\ h \in hosts[c]
    \/ cpc[c] \in Visiting /\ h = host[c]

Fit(f) == Exists(f) => /\ Present(f[2]) /\ status[f[2]] <= file[f].time
                       /\ ~SurelyTooOld(file[f].time)

Quiet(c) == /\ \A p \in Sender : spc[p] = "idle"
            /\ \A d \in Cleaner \ {c} : cpc[d] \in {"new", "done", "failed"}
            /\ cpc[c] # "new"

TidySoFar(c) ==
    /\ cpc[c] \in Visiting \cup {"hosts", "host"} => keep[c] = {s \in Source : Present(s)}
    /\ cpc[c] \in Visiting \cup {"host", "done"} =>
          /\ \A f \in Path : Fit(f) \/ Undecided(c, f)
          /\ \A h \in dir : ~Empty(h) \/ Unvisited(c, h)
    /\ cpc[c] \in {"status", "stat"} =>
          /\ at[c] \in keep[c]
          /\ Exists(<<host[c], at[c]>>) => ~SurelyTooOld(file[<<host[c], at[c]>>].time)
    /\ cpc[c] = "stat" => seen[c] = status[at[c]]

TidyInv == \A c \in quiet : Quiet(c) /\ TidySoFar(c)

\* A step of somebody else that changes no file.
LEMMA TidyFrame ==
  ASSUME NEW c \in Cleaner, Quiet(c), TidySoFar(c),
         UNCHANGED <<now, filevars, spc, cur, keep, hosts>>,
         \A d \in Cleaner : cpc'[d] = cpc[d],
         host'[c] = host[c], todo'[c] = todo[c], at'[c] = at[c], seen'[c] = seen[c]
  PROVE  Quiet(c)' /\ TidySoFar(c)'
<1>1. Quiet(c)'
  BY DEF Quiet
<1>2. \A f : Fit(f)' = Fit(f) /\ Undecided(c, f)' = Undecided(c, f)
  BY DEF Fit, Undecided, Exists, Present, SurelyTooOld, filevars
<1>3. \A h : Empty(h)' = Empty(h) /\ Unvisited(c, h)' = Unvisited(c, h)
  BY DEF Empty, Exists, Unvisited, filevars
<1>4. TidySoFar(c)'
  BY <1>2, <1>3 DEF TidySoFar, Present, Exists, SurelyTooOld, filevars
<1> QED BY <1>1, <1>4

\* Its own steps.
LEMMA TidyOwn ==
  ASSUME TypeInv, DirInv, NEW c \in Cleaner, Quiet(c), TidySoFar(c), Check(c) \/ Clean(c),
         ~CleanStart(c)
  PROVE  Quiet(c)' /\ TidySoFar(c)'
<1> USE DEF Visiting
<1>0. /\ c \in Checker /\ c \notin Reader
      /\ cpc \in [Checker -> {"new", "check", "status", "stat", "remove", "sources",
                              "removesource", "hosts", "host", "done", "failed"}]
      /\ host \in [Checker -> Host \cup {None}] /\ todo \in [Checker -> SUBSET Source]
      /\ at \in [Checker -> Source \cup {None}] /\ seen \in [Checker -> Nat]
      /\ keep \in [Cleaner -> SUBSET Source] /\ hosts \in [Cleaner -> SUBSET Host]
      /\ file \in [Path -> File \cup {None}] /\ status \in [Source -> Nat \cup {None}]
      /\ dir \in SUBSET Host /\ now \in Nat
      /\ cpc[c] \in {"status", "stat", "remove", "removesource"} => at[c] \in Source
      /\ cpc[c] \in {"check", "status", "stat", "remove"} => host[c] \in Host
  BY DEF Checker, TypeInv, TypeOK, CheckInv
<1>q. ASSUME NEW pc, pc # "new", cpc' = [cpc EXCEPT ![c] = pc], UNCHANGED sendervars
      PROVE  Quiet(c)' /\ cpc'[c] = pc
  BY <1>0, <1>q DEF Quiet, sendervars, Checker
<1>f. ASSUME UNCHANGED <<now, file, status>>
      PROVE  \A f : Fit(f)' = Fit(f) /\ Exists(f)' = Exists(f)
  BY <1>f DEF Fit, Exists, Present, SurelyTooOld
<1>e. ASSUME UNCHANGED <<litter, file, sendervars>>
      PROVE  \A h : Empty(h)' = Empty(h)
  BY <1>e DEF Empty, Exists, sendervars
<1>1. ASSUME NEW s \in Source, SourceAge(c, s)
      PROVE  Quiet(c)' /\ TidySoFar(c)'
  <2>1. /\ UNCHANGED sendervars
        /\ \/ cpc' = [cpc EXCEPT ![c] = "removesource"]
           \/ cpc' = [cpc EXCEPT ![c] = "sources"]
    BY <1>0, <1>1 DEF SourceAge
  <2>2. Quiet(c)' /\ cpc'[c] \in {"sources", "removesource"}
    BY <1>q, <2>1
  <2> QED BY <2>2 DEF TidySoFar
<1>2. CASE RemoveSource(c)
  <2>1. Quiet(c)' /\ cpc'[c] = "sources"
    BY <1>2, <1>q DEF RemoveSource
  <2> QED BY <2>1 DEF TidySoFar
<1>3. CASE KeepSources(c)
  <2>1. Quiet(c)' /\ cpc'[c] = "hosts"
    BY <1>3, <1>q DEF KeepSources
  <2>2. keep'[c] = {s \in Source : Present(s)} /\ status' = status
    BY <1>0, <1>3 DEF KeepSources, filevars
  <2> QED BY <2>1, <2>2 DEF TidySoFar, Present
<1>4. CASE ListHosts(c)
  <2>1. Quiet(c)' /\ cpc'[c] = "host"
    BY <1>4, <1>q DEF ListHosts
  <2>2. hosts'[c] = dir /\ UNCHANGED <<now, filevars, keep>> /\ cpc[c] = "hosts"
    BY <1>0, <1>4 DEF ListHosts
  <2>3. \A f \in Path : Exists(f) => f[1] \in dir
    BY DEF DirInv
  <2>4. \A f \in Path : Fit(f)' \/ Undecided(c, f)'
    BY <2>1, <2>2, <2>3 DEF Fit, Undecided, Exists, filevars
  <2>5. \A h \in dir' : Unvisited(c, h)'
    BY <2>1, <2>2 DEF Unvisited, filevars
  <2> QED BY <2>1, <2>2, <2>4, <2>5 DEF TidySoFar, Present, filevars
<1>5. ASSUME NEW h \in Host, EnterHost(c, h)
      PROVE  Quiet(c)' /\ TidySoFar(c)'
  <2>1. /\ Quiet(c)' /\ cpc'[c] = IF h \in dir THEN "check" ELSE "failed"
    <3>1. (IF h \in dir THEN "check" ELSE "failed") # "new"
      OBVIOUS
    <3> QED BY <1>5, <1>q, <3>1 DEF EnterHost
  <2>2. /\ cpc[c] = "host" /\ hosts'[c] = hosts[c] \ {h} /\ host'[c] = h
        /\ todo'[c] = {s \in Source : Exists(<<h, s>>)}
        /\ UNCHANGED <<now, filevars, sendervars, keep>>
    BY <1>0, <1>5 DEF EnterHost
  <2>3. CASE h \in dir
    <3>1. \A f \in Path : Fit(f)' \/ Undecided(c, f)'
      <4> TAKE f \in Path
      <4>1. Fit(f)' = Fit(f)
        BY <1>f, <2>2 DEF filevars
      <4>2. CASE f[1] = h
        <5>1. f = <<h, f[2]>> /\ f[2] \in Source
          BY <4>2 DEF Path
        <5>2. Exists(f) => f[2] \in todo'[c]
          BY <2>2, <5>1
        <5>3. ~Exists(f) => Fit(f)
          BY DEF Fit
        <5> QED BY <2>1, <2>2, <2>3, <4>1, <4>2, <5>2, <5>3 DEF Undecided
      <4>3. CASE f[1] # h
        BY <2>1, <2>2, <2>3, <4>1, <4>3 DEF Undecided, TidySoFar
      <4> QED BY <4>2, <4>3
    <3>2. \A g \in dir' : ~Empty(g)' \/ Unvisited(c, g)'
      BY <1>e, <2>1, <2>2, <2>3 DEF Unvisited, TidySoFar, filevars
    <3> QED BY <2>1, <2>2, <2>3, <3>1, <3>2 DEF TidySoFar, Present, filevars
  <2>4. CASE h \notin dir
    BY <2>1, <2>4 DEF TidySoFar
  <2> QED BY <2>3, <2>4
<1>6. ASSUME NEW s \in Source, FileAge(c, s)
      PROVE  Quiet(c)' /\ TidySoFar(c)'
  <2> DEFINE f0 == <<host[c], s>>
  <2>0. f0 \in Path
    BY <1>0, <1>6 DEF FileAge, Path
  <2>1. /\ cpc[c] = "check" /\ s \in todo[c] /\ todo'[c] = todo[c] \ {s}
        /\ UNCHANGED <<now, filevars, sendervars, host, seen, keep, hosts>>
    BY <1>0, <1>6 DEF FileAge
  <2>2. \/ cpc' = [cpc EXCEPT ![c] = "remove"]
        \/ s \in keep[c] /\ ~Exists(f0) /\ cpc' = [cpc EXCEPT ![c] = "check"]
        \/ /\ s \in keep[c] /\ Exists(f0) /\ ~SurelyTooOld(file[f0].time)
           /\ cpc' = [cpc EXCEPT ![c] = "status"]
    <3>1. [cpc EXCEPT ![c] = "check"] = cpc
      BY <1>0, <2>1
    <3> QED BY <1>0, <1>6, <3>1 DEF FileAge, OutOfUse
  <2>3. Quiet(c)' /\ cpc'[c] \in {"remove", "check", "status"}
    BY <1>q, <2>1, <2>2
  <2>4. at'[c] = IF cpc'[c] = "check" THEN None ELSE s
    BY <1>0, <1>6 DEF FileAge
  <2>5. \A f \in Path : Fit(f)' \/ Undecided(c, f)'
    <3> TAKE f \in Path
    <3>1. Fit(f)' = Fit(f)
      BY <1>f, <2>1 DEF filevars
    <3>2. CASE f = f0
      <4>1. f[1] = host[c] /\ f[2] = s
        BY <3>2
      <4>2. CASE cpc'[c] = "check"
        <5>1. ~Exists(f)
          BY <1>0, <2>2, <3>2, <4>2
        <5> QED BY <3>1, <5>1 DEF Fit
      <4>3. CASE cpc'[c] # "check"
        BY <2>1, <2>3, <2>4, <4>1, <4>3 DEF Undecided
      <4> QED BY <4>2, <4>3
    <3>3. CASE f # f0
      <4>1. f[1] # host[c] \/ f[2] # s
        BY <3>3 DEF Path
      <4> QED BY <2>1, <2>3, <3>1, <4>1 DEF Undecided, TidySoFar
    <3> QED BY <3>2, <3>3
  <2>6. \A h \in dir' : ~Empty(h)' \/ Unvisited(c, h)'
    BY <1>e, <2>1, <2>3 DEF Unvisited, TidySoFar, filevars
  <2>7. cpc'[c] = "status" => /\ at'[c] \in keep'[c]
                              /\ ~SurelyTooOld(file[f0].time) /\ at'[c] = s
    BY <1>0, <2>1, <2>2, <2>4
  <2>8. keep'[c] = {t \in Source : Present(t)'}
    BY <2>1 DEF TidySoFar, Present, filevars
  <2> QED BY <2>1, <2>3, <2>5, <2>6, <2>7, <2>8 DEF TidySoFar, SurelyTooOld, filevars
<1>7. CASE StatStatus(c)
  <2>1. /\ cpc[c] = "status" /\ UNCHANGED <<now, filevars, sendervars, host, todo, keep, hosts>>
    BY <1>7 DEF StatStatus
  <2>2. at[c] \in keep[c] /\ Present(at[c]) /\ at[c] \in Source
    BY <1>0, <2>1 DEF TidySoFar
  <2>3. cpc' = [cpc EXCEPT ![c] = "stat"] /\ seen'[c] = status[at[c]]
    BY <1>0, <1>7, <2>2 DEF StatStatus
  <2>4. Quiet(c)' /\ cpc'[c] = "stat"
    BY <1>q, <2>1, <2>3
  <2>5. at'[c] = at[c]
    BY <1>0, <1>7, <2>4 DEF StatStatus
  <2>6. \A f \in Path : Fit(f)' \/ Undecided(c, f)'
    BY <1>f, <2>1, <2>4, <2>5 DEF Undecided, TidySoFar, filevars
  <2>7. \A h \in dir' : ~Empty(h)' \/ Unvisited(c, h)'
    BY <1>e, <2>1, <2>4 DEF Unvisited, TidySoFar, filevars
  <2> QED BY <2>1, <2>2, <2>3, <2>4, <2>5, <2>6, <2>7
          DEF TidySoFar, Present, Exists, SurelyTooOld, filevars
<1>8. CASE StatFile(c)
  <2> DEFINE f0 == <<host[c], at[c]>>
  <2>0. f0 \in Path /\ cpc[c] = "stat"
    BY <1>0, <1>8 DEF StatFile, Path
  <2>1. UNCHANGED <<now, filevars, sendervars, host, todo, keep, hosts>>
    BY <1>8 DEF StatFile
  <2>2. \/ Current(c) /\ cpc' = [cpc EXCEPT ![c] = "check"]
        \/ ~Current(c) /\ cpc' = [cpc EXCEPT ![c] = "remove"]
    BY <1>0, <1>8 DEF StatFile, OutOfUse
  <2>3. Quiet(c)' /\ cpc'[c] \in {"check", "remove"}
    BY <1>q, <2>1, <2>2
  <2>4. cpc'[c] = "remove" => at'[c] = at[c]
    BY <1>0, <1>8 DEF StatFile
  <2>5. cpc'[c] = "check" => Fit(f0)
    <3>1. /\ at[c] \in Source /\ Present(at[c]) /\ seen[c] = status[at[c]]
          /\ Exists(f0) => ~SurelyTooOld(file[f0].time)
      BY <1>0, <2>0 DEF TidySoFar
    <3>2. cpc'[c] = "check" => Current(c)
      BY <1>0, <2>2
    <3>3. status[at[c]] \in Nat
      BY <1>0, <3>1 DEF Present
    <3>4. Exists(f0) => file[f0].time \in Nat
      BY <1>0, <2>0 DEF Exists, File
    <3> QED BY <3>1, <3>2, <3>3, <3>4 DEF Fit, Current
  <2>6. \A f \in Path : Fit(f)' \/ Undecided(c, f)'
    <3> TAKE f \in Path
    <3>1. Fit(f)' = Fit(f)
      BY <1>f, <2>1 DEF filevars
    <3>2. CASE f = f0 /\ cpc'[c] = "check"
      BY <2>5, <3>1, <3>2
    <3>3. CASE f # f0 \/ cpc'[c] = "remove"
      <4>1. f # f0 => f[1] # host[c] \/ f[2] # at[c]
        BY DEF Path
      <4> QED BY <2>0, <2>1, <2>3, <2>4, <3>1, <3>3, <4>1 DEF Undecided, TidySoFar
    <3> QED BY <2>3, <3>2, <3>3
  <2>7. \A h \in dir' : ~Empty(h)' \/ Unvisited(c, h)'
    BY <1>e, <2>0, <2>1, <2>3 DEF Unvisited, TidySoFar, filevars
  <2> QED BY <2>0, <2>1, <2>3, <2>6, <2>7 DEF TidySoFar, Present, filevars
<1>9. CASE RemoveFile(c)
  <2> DEFINE f0 == <<host[c], at[c]>>
  <2>0. f0 \in Path /\ cpc[c] = "remove"
    BY <1>0, <1>9 DEF RemoveFile, Path
  <2>1. /\ UNCHANGED <<now, dir, litter, status, sendervars, host, todo, keep, hosts>>
        /\ file' = [file EXCEPT ![f0] = None]
    BY <1>9 DEF RemoveFile
  <2>2. Quiet(c)' /\ cpc'[c] = "check"
    BY <1>9, <1>q DEF RemoveFile
  <2>3. \A f \in Path : file'[f] = IF f = f0 THEN None ELSE file[f]
    BY <1>0, <2>0, <2>1
  <2>4. \A f \in Path : Fit(f)' \/ Undecided(c, f)'
    <3> TAKE f \in Path
    <3>1. CASE f = f0
      BY <2>3, <3>1 DEF Fit, Exists
    <3>2. CASE f # f0
      <4>1. f[1] # host[c] \/ f[2] # at[c]
        BY <3>2 DEF Path
      <4>2. Fit(f)' = Fit(f)
        BY <2>1, <2>3, <3>2 DEF Fit, Exists, Present, SurelyTooOld
      <4> QED BY <2>0, <2>1, <2>2, <4>1, <4>2 DEF Undecided, TidySoFar
    <3> QED BY <3>1, <3>2
  <2>5. \A h \in dir' : ~Empty(h)' \/ Unvisited(c, h)'
    <3> TAKE h \in dir'
    <3>1. CASE h = host[c]
      BY <2>1, <2>2, <3>1 DEF Unvisited
    <3>2. CASE h # host[c]
      <4>1. \A s \in Source : <<h, s>> \in Path /\ <<h, s>> # f0
        BY <1>0, <2>1, <3>2 DEF Path
      <4>2. Empty(h)' = Empty(h)
        BY <2>1, <2>3, <4>1 DEF Empty, Exists, sendervars
      <4> QED BY <2>0, <2>1, <2>2, <3>2, <4>2 DEF Unvisited, TidySoFar
    <3> QED BY <3>1, <3>2
  <2> QED BY <2>0, <2>1, <2>2, <2>4, <2>5 DEF TidySoFar, Present
<1>10. CASE LeaveHost(c)
  <2>1. /\ cpc[c] = "check" /\ todo[c] = {} /\ host[c] \in Host
        /\ dir' = IF Empty(host[c]) THEN dir \ {host[c]} ELSE dir
        /\ UNCHANGED <<now, litter, file, status, sendervars, keep, hosts>>
    BY <1>0, <1>10 DEF LeaveHost
  <2>2. /\ Quiet(c)' /\ cpc'[c] = IF host[c] \in dir THEN "host" ELSE "failed"
    <3>1. (IF host[c] \in dir THEN "host" ELSE "failed") # "new"
      OBVIOUS
    <3> QED BY <1>10, <1>q, <3>1 DEF LeaveHost
  <2>3. \A f \in Path : Fit(f)' \/ (f[1] \in hosts'[c])
    BY <1>f, <2>1 DEF TidySoFar, Undecided
  <2>4. \A h \in dir' : ~Empty(h)' \/ (h \in hosts'[c])
    BY <1>e, <2>1 DEF TidySoFar, Unvisited
  <2> QED BY <2>1, <2>2, <2>3, <2>4 DEF TidySoFar, Present, Undecided, Unvisited
<1>11. CASE CleanEnd(c)
  <2>1. cpc[c] = "host" /\ hosts[c] = {} /\ UNCHANGED <<now, filevars, sendervars>>
    BY <1>11 DEF CleanEnd
  <2>2. Quiet(c)' /\ cpc'[c] = "done"
    BY <1>11, <1>q DEF CleanEnd
  <2>3. \A f \in Path : Fit(f)'
    BY <1>f, <2>1 DEF TidySoFar, Undecided, filevars
  <2>4. \A h \in dir' : ~Empty(h)'
    BY <1>e, <2>1 DEF TidySoFar, Unvisited, filevars
  <2> QED BY <2>2, <2>3, <2>4 DEF TidySoFar
<1> QED BY <1>1, <1>2, <1>3, <1>4, <1>5, <1>6, <1>7, <1>8, <1>9, <1>10, <1>11 DEF Check, Clean

LEMMA TidyStep == ASSUME TypeInv, DirInv, TidyInv, [Next]_vars PROVE TidyInv'
<1>0. quiet \subseteq Cleaner
  BY DEF TypeInv, TypeOK
<1>1. CASE quiet' = {}
  BY <1>1 DEF TidyInv
<1>2. ASSUME NEW p \in Sender, Send(p)
      PROVE  quiet' = {} \/ quiet = {}
  <2>1. quiet' = {} \/ spc[p] # "idle"
    BY <1>2 DEF Send, StoreStart, Makedirs, Open, Utime, WriteTmp, Rename, StampStatus,
                RenameStatus, RemoveStatus, StoreFails
  <2> QED BY <2>1 DEF TidyInv, Quiet
<1>3. ASSUME NEW p \in Sender, Send(p)
      PROVE  TidyInv'
  <2>1. quiet' = {} \/ quiet' = quiet
    BY <1>3 DEF Send, StoreStart, Makedirs, Open, Utime, WriteTmp, Rename, StampStatus,
                RenameStatus, RemoveStatus, StoreFails, history
  <2> QED BY <1>1, <1>2, <1>3, <2>1
<1>4. ASSUME NEW r \in Reader, Check(r) \/ Read(r)
      PROVE  TidyInv'
  <2>1. /\ UNCHANGED <<now, filevars, sendervars, keep, hosts, quiet>>
        /\ \A d \in Checker : d # r =>
              /\ cpc'[d] = cpc[d] /\ host'[d] = host[d] /\ todo'[d] = todo[d]
              /\ at'[d] = at[d] /\ seen'[d] = seen[d]
    <3> USE DEF TypeInv, TypeOK, history, checkvars
    <3>1. CASE \E s \in Source : FileAge(r, s)
      BY <3>1 DEF FileAge
    <3>2. CASE StatStatus(r) \/ StatFile(r)
      BY <3>2 DEF StatStatus, StatFile
    <3>3. CASE \E h \in Host : ReadStart(r, h)
      BY <3>3 DEF ReadStart
    <3>4. CASE \E s \in Source : ReadFile(r, s)
      BY <3>4 DEF ReadFile
    <3>5. CASE ReadEnd(r)
      BY <3>5 DEF ReadEnd
    <3> QED BY <1>4, <3>1, <3>2, <3>3, <3>4, <3>5 DEF Check, Read
  <2>2. \A d \in Cleaner : d \in Checker /\ d # r
    BY DEF Checker
  <2> QED BY <1>0, <2>1, <2>2, TidyFrame DEF TidyInv, sendervars
<1>5. ASSUME NEW d \in Cleaner, CleanStart(d)
      PROVE  TidyInv'
  <2>1. quiet' = IF Running = {} THEN {d} ELSE {}
    BY <1>5 DEF CleanStart
  <2>2. CASE Running = {}
    <3>1. /\ cpc'[d] = "sources" /\ spc' = spc
          /\ \A c \in Cleaner \ {d} : cpc'[c] = cpc[c]
      BY <1>5 DEF CleanStart, TypeInv, TypeOK, Checker, sendervars
    <3>2. \A p \in Sender : spc[p] = "idle"
      BY <2>2 DEF Running
    <3>3. \A c \in Cleaner : cpc[c] \in {"new", "done", "failed"}
      BY <2>2 DEF Running, Checker
    <3>4. Quiet(d)' /\ TidySoFar(d)'
      BY <3>1, <3>2, <3>3 DEF Quiet, TidySoFar, Visiting
    <3> QED BY <2>1, <2>2, <3>4 DEF TidyInv
  <2> QED BY <1>1, <2>1, <2>2
<1>6. ASSUME NEW d \in Cleaner, Check(d) \/ Clean(d), ~CleanStart(d)
      PROVE  TidyInv'
  <2>1. quiet' = quiet
    BY <1>6 DEF Check, Clean, FileAge, StatStatus, StatFile, SourceAge, EnterHost, RemoveSource,
                KeepSources, ListHosts, RemoveFile, LeaveHost, CleanEnd, history
  <2>2. cpc[d] \notin {"new", "done", "failed"}
    BY <1>6 DEF Check, Clean, FileAge, StatStatus, StatFile, SourceAge, EnterHost, RemoveSource,
                KeepSources, ListHosts, RemoveFile, LeaveHost, CleanEnd
  <2>3. \A c \in quiet : c = d
    BY <1>6, <2>2 DEF TidyInv, Quiet
  <2> QED BY <1>6, <2>1, <2>3, TidyOwn DEF TidyInv
<1>7. CASE Tick \/ \E s \in Source : Flush(s)
  BY <1>1, <1>7 DEF Tick, Flush
<1>8. CASE UNCHANGED vars
  BY <1>0, <1>8, TidyFrame DEF vars, sendervars, checkvars, history, TidyInv
<1> QED BY <1>3, <1>4, <1>5, <1>6, <1>7, <1>8 DEF Next, Checker

\* What a cleanup leaves behind, if nothing else happens meanwhile, is what the
\* monitoring uses, for any number of hosts and sources, and whatever failed or
\* overlapped before.
THEOREM CleanupIsTidy == Spec => []Tidy
<1>1. Init => TidyInv
  BY DEF Init, TidyInv
<1>2. SteadyInv => DirInv
  BY DEF SteadyInv
<1>3. TidyInv => Tidy
  BY DEF TidyInv, TidySoFar, Tidy, Fit, Undecided, Unvisited, Visiting
<1> QED BY InitType, InitSteady, StepTypeInv, StepSteady, TidyStep, <1>1, <1>2, <1>3, PTL DEF Spec
============================================================================
