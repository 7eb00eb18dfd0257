----------------------------- MODULE Piggyback -----------------------------
(***************************************************************************)
(* A source host may deliver monitoring data of other hosts.  The check of *)
(* the source stores it in one file per host and source, and then writes a *)
(* status file of the source (piggyback.py).  The check of a host uses the *)
(* files of all sources that are not older than the status file of their   *)
(* source; a cron job deletes the others.  All of this runs at the same    *)
(* time: "all these functions needs to deal with suddenly vanishing or     *)
(* updated files/directories".                                             *)
(*                                                                         *)
(* Times are those of file systems as the code compares them: in whole     *)
(* seconds.  Data is the number of the store that has written it, 0 for    *)
(* the empty file that aquire_lock creates.                                *)
(***************************************************************************)
EXTENDS Naturals, FiniteSets

CONSTANTS Source, Host,
          Sender,      \* processes that store data, one store at a time
          Reader,      \* processes that read the data of one host, once
          Cleaner,     \* runs of the cleanup
          MaxAge,      \* piggyback_max_cachefile_age
          MaxTime,     \* bound: the clock
          MaxStores,   \* bound: number of stores
          MaxRunning,  \* bound: stores, readers and cleanups at one time
          None         \* no file, no process

ASSUME BoundsAssumption == MaxAge \in Nat /\ MaxTime \in Nat /\ MaxStores \in Nat
                            /\ MaxRunning \in Nat
ASSUME ProcessAssumption == Reader \cap Cleaner = {}
VARIABLES now,        \* the clock
          dir,        \* the directories of hosts that exist
          litter,     \* those of them in which a dead process left a temporary file
          file,       \* piggyback/<host>/<source>: time and data
          status,     \* piggyback_sources/<source>: its time
          stores,     \* number of stores so far
          spc, src, data, left, cur, stamp, gen, \* a sender and its store
          cpc, host, todo, at, seen,             \* a check of files, of both kinds
          found, result,                         \* what a reader has found and read
          keep, hosts,                           \* the lists of a cleanup
          alone,      \* history: senders whose store has not met another of its source
          steady,     \* history: files that a reader has to find
          last,       \* history: the last completed store of a source, and its time
          since,      \* history: this, when a reader started
          quiet       \* history: cleanups that nothing else has met

filevars == <<dir, litter, file, status>>
sendervars == <<stores, spc, src, data, left, cur, stamp, gen>>
checkvars == <<cpc, host, todo, at, seen, found, result, keep, hosts>>
history == <<alone, steady, last, since, quiet>>
vars == <<now, filevars, sendervars, checkvars, history>>

Path == Host \X Source
Checker == Reader \cup Cleaner
File == [time : Nat, data : Nat]
Mark == [data : Nat, time : Nat]
NoMark == [data |-> 0, time |-> 0]

ASSUME NoneAssumption == None \notin Source \cup Host \cup Nat /\ None \notin File

Init == /\ now = 0 /\ dir = {} /\ litter = {}
        /\ file = [f \in Path |-> None]
        /\ status = [s \in Source |-> None]
        /\ stores = 0
        /\ spc = [p \in Sender |-> "idle"]
        /\ src = [p \in Sender |-> None]
        /\ data = [p \in Sender |-> {}]
        /\ left = [p \in Sender |-> {}]
        /\ cur = [p \in Sender |-> None]
        /\ stamp = [p \in Sender |-> 0]
        /\ gen = [p \in Sender |-> 0]
        /\ cpc = [c \in Checker |-> "new"]
        /\ host = [c \in Checker |-> None]
        /\ todo = [c \in Checker |-> {}]
        /\ at = [c \in Checker |-> None]
        /\ seen = [c \in Checker |-> 0]
        /\ found = [r \in Reader |-> {}]
        /\ result = [r \in Reader |-> {}]
        /\ keep = [c \in Cleaner |-> {}]
        /\ hosts = [c \in Cleaner |-> {}]
        /\ alone = {} /\ steady = {} /\ quiet = {}
        /\ last = [s \in Source |-> NoMark]
        /\ since = [r \in Reader |-> last]

Exists(f) == file[f] # None
Present(s) == status[s] # None

\* cachefile_age() > piggyback_max_cachefile_age: the times of files are cut
\* to seconds, the clock is not.
MaybeTooOld(t) == now - t >= MaxAge
SurelyTooOld(t) == now - t > MaxAge

Tick ==
    /\ now < MaxTime
    /\ now' = now + 1
    /\ steady' = {f \in steady : (now + 1) - status[f[2]] < MaxAge}
    /\ quiet' = {}
    /\ UNCHANGED <<filevars, sendervars, checkvars, alone, last, since>>

Running == {p \in Sender : spc[p] # "idle"}
             \cup {c \in Checker : cpc[c] \notin {"new", "done", "failed"}}
Bounded == Cardinality(Running) < MaxRunning

-----------------------------------------------------------------------------
\* store_piggyback_raw_data, called at the end of a check of the source, and
\* for the same source by the check of a cluster that the source is a node of.

Storing(s) == {p \in Sender : spc[p] # "idle" /\ src[p] = s}

StoreStart(p, s, H) ==
    /\ spc[p] = "idle"
    /\ stores < MaxStores /\ Bounded
    /\ stores' = stores + 1
    /\ spc' = [spc EXCEPT ![p] = IF H = {} THEN "forget" ELSE "store"]
    /\ src' = [src EXCEPT ![p] = s]
    /\ data' = [data EXCEPT ![p] = H]
    /\ left' = [left EXCEPT ![p] = H]
    /\ gen' = [gen EXCEPT ![p] = stores + 1]
    /\ alone' = IF Storing(s) = {} THEN alone \cup {p} ELSE alone \ Storing(s)
    /\ steady' = {f \in steady : f[2] # s \/ (f[1] \in H /\ Storing(s) = {})}
    /\ quiet' = {}
    /\ UNCHANGED <<now, filevars, cur, stamp, checkvars, last, since>>

\* aquire_lock of save_file: os.makedirs if the directory is missing (if it
\* has come into being since, this raises: StoreFails) ...
Makedirs(p, h) ==
    /\ spc[p] = "store" /\ h \in left[p] \ dir
    /\ dir' = dir \cup {h}
    /\ UNCHANGED <<now, litter, file, status, sendervars, checkvars, history>>

\* ... and os.open, which creates the file, again and again until the opened
\* file is the one of the path.  The lock itself only orders two stores of one
\* source; every order is possible here.
Open(p, h) ==
    /\ spc[p] = "store" /\ h \in left[p] \cap dir
    /\ file' = IF Exists(<<h, src[p]>>) THEN file
               ELSE [file EXCEPT ![<<h, src[p]>>] = [time |-> now, data |-> 0]]
    /\ \/ spc' = [spc EXCEPT ![p] = "write"] /\ cur' = [cur EXCEPT ![p] = h]
       \/ UNCHANGED <<spc, cur>>
    /\ UNCHANGED <<now, stores, dir, litter, status, src, data, left, stamp, gen, checkvars, history>>

WriteTmp(p) ==
    /\ spc[p] = "write" /\ cur[p] \in dir
    /\ spc' = [spc EXCEPT ![p] = "rename"]
    /\ stamp' = [stamp EXCEPT ![p] = now]
    /\ UNCHANGED <<now, stores, filevars, src, data, left, cur, gen, checkvars, history>>

Rename(p) ==
    /\ spc[p] = "rename"
    /\ file' = [file EXCEPT ![<<cur[p], src[p]>>] = [time |-> stamp[p], data |-> gen[p]]]
    /\ left' = [left EXCEPT ![p] = @ \ {cur[p]}]
    /\ cur' = [cur EXCEPT ![p] = None]
    /\ stamp' = [stamp EXCEPT ![p] = 0]
    /\ spc' = [spc EXCEPT ![p] = "store"]
    /\ UNCHANGED <<now, stores, dir, litter, status, src, data, gen, checkvars, history>>

\* The files keep the times at which they were written.
BugStampStatus(p) ==
    /\ spc[p] = "store" /\ left[p] = {}
    /\ spc' = [spc EXCEPT ![p] = "utime"]
    /\ stamp' = [stamp EXCEPT ![p] = now]
    /\ UNCHANGED <<now, stores, filevars, src, data, left, cur, gen, checkvars, history>>

\* _store_status_file_of: the time of a temporary file is given to all files
\* of the store, and the temporary file is made the status file.
StampStatus(p) ==
    /\ spc[p] = "store" /\ left[p] = {}
    /\ spc' = [spc EXCEPT ![p] = "utime"]
    /\ stamp' = [stamp EXCEPT ![p] = now]
    /\ left' = [left EXCEPT ![p] = data[p]]
    /\ UNCHANGED <<now, stores, filevars, src, data, cur, gen, checkvars, history>>

Utime(p, h) ==
    LET f == <<h, src[p]>> IN
    /\ spc[p] = "utime" /\ h \in left[p]
    /\ file' = IF Exists(f) THEN [file EXCEPT ![f].time = stamp[p]] ELSE file
    /\ left' = [left EXCEPT ![p] = @ \ {h}]
    /\ UNCHANGED <<now, stores, dir, litter, status, spc, src, data, cur, stamp, gen, checkvars, history>>

StoreEnd(p) == /\ spc' = [spc EXCEPT ![p] = "idle"]
               /\ src' = [src EXCEPT ![p] = None]
               /\ data' = [data EXCEPT ![p] = {}]
               /\ left' = [left EXCEPT ![p] = {}]
               /\ cur' = [cur EXCEPT ![p] = None]
               /\ stamp' = [stamp EXCEPT ![p] = 0]
               /\ gen' = [gen EXCEPT ![p] = 0]
               /\ alone' = alone \ {p}

\* A cleanup that has found the file or the source out of use before.
MayRemove(c, f) == \/ cpc[c] = "remove" /\ <<host[c], at[c]>> = f
                   \/ cpc[c] = "removesource" /\ at[c] = f[2]
                   \/ cpc[c] \in {"hosts", "host", "check", "status", "stat", "remove"}
                         /\ f[2] \notin keep[c]

\* Two times of one second are equal: what an earlier store of the same
\* second has left is not older than this store.
OlderThan(p) == \A f \in Path : f[2] = src[p] /\ f[1] \notin data[p] /\ Exists(f)
                                  => file[f].time < stamp[p]

RenameStatus(p) ==
    LET s == src[p] IN
    /\ spc[p] = "utime" /\ left[p] = {}
    /\ status' = [status EXCEPT ![s] = stamp[p]]
    /\ StoreEnd(p)
    /\ steady' = steady \cup {f \in data[p] \X {s} :
                                 /\ p \in alone /\ Exists(f) /\ ~MaybeTooOld(stamp[p])
                                 /\ \A c \in Cleaner : ~MayRemove(c, f)}
    /\ last' = IF p \in alone /\ OlderThan(p)
               THEN [last EXCEPT ![s] = [data |-> gen[p], time |-> stamp[p]]] ELSE last
    /\ UNCHANGED <<now, stores, dir, litter, file, checkvars, since, quiet>>

\* Nothing was sent: the status file is removed.
RemoveStatus(p) ==
    /\ spc[p] = "forget"
    /\ status' = [status EXCEPT ![src[p]] = None]
    /\ StoreEnd(p)
    /\ UNCHANGED <<now, stores, dir, litter, file, checkvars, steady, last, since, quiet>>

\* The store fails since the directory came or went, or the process dies.
StoreFails(p) ==
    /\ spc[p] # "idle"
    /\ litter' = IF spc[p] = "rename" THEN litter \cup {cur[p]} ELSE litter
    /\ StoreEnd(p)
    /\ UNCHANGED <<now, stores, dir, file, status, checkvars, steady, last, since, quiet>>

\* cmk --flush
Flush(s) ==
    /\ Present(s)
    /\ status' = [status EXCEPT ![s] = None]
    /\ steady' = {f \in steady : f[2] # s}
    /\ quiet' = {}
    /\ UNCHANGED <<now, dir, litter, file, sendervars, checkvars, alone, last, since>>

-----------------------------------------------------------------------------
\* get_piggyback_files and cleanup_piggyback_files look at a file by the same
\* calls in the same order; a reader drops what is out of use, a cleanup
\* deletes it.

OutOfUse(c) == IF c \in Reader THEN "check" ELSE "remove"

\* The reader lists the directory of its host; without one it is done.
ReadStart(r, h) ==
    /\ cpc[r] = "new" /\ Bounded
    /\ host' = [host EXCEPT ![r] = h]
    /\ todo' = [todo EXCEPT ![r] = {s \in Source : Exists(<<h, s>>)}]
    /\ cpc' = [cpc EXCEPT ![r] = IF h \in dir THEN "check" ELSE "done"]
    /\ since' = [since EXCEPT ![r] = last]
    /\ UNCHANGED <<now, filevars, sendervars, at, seen, found, result, keep, hosts,
                   alone, steady, last, quiet>>

\* A source of the list: what the cleanup does not keep is deleted at once, a
\* file that has vanished is left alone.
FileAge(c, s) ==
    LET f == <<host[c], s>> IN
    /\ cpc[c] = "check" /\ s \in todo[c]
    /\ todo' = [todo EXCEPT ![c] = @ \ {s}]
    /\ \/ /\ c \in Cleaner /\ s \notin keep[c]
          /\ cpc' = [cpc EXCEPT ![c] = "remove"]
       \/ /\ c \in Cleaner => s \in keep[c]
          /\ \/ ~Exists(f) /\ UNCHANGED cpc
             \/ Exists(f) /\ MaybeTooOld(file[f].time) /\ cpc' = [cpc EXCEPT ![c] = OutOfUse(c)]
             \/ Exists(f) /\ ~SurelyTooOld(file[f].time) /\ cpc' = [cpc EXCEPT ![c] = "status"]
    /\ at' = [at EXCEPT ![c] = IF cpc'[c] = "check" THEN None ELSE s]
    /\ UNCHANGED <<now, filevars, sendervars, host, seen, found, result, keep, hosts, history>>

\* _is_piggyback_file_outdated takes the time of the status file ...
StatStatus(c) ==
    /\ cpc[c] = "status"
    /\ cpc' = [cpc EXCEPT ![c] = IF Present(at[c]) THEN "stat" ELSE OutOfUse(c)]
    /\ seen' = [seen EXCEPT ![c] = IF Present(at[c]) THEN status[at[c]] ELSE 0]
    /\ at' = [at EXCEPT ![c] = IF cpc'[c] = "check" THEN None ELSE @]
    /\ UNCHANGED <<now, filevars, sendervars, host, todo, found, result, keep, hosts, history>>

\* Off by one in both directions.
BugCurrentBefore(c) == LET f == <<host[c], at[c]>> IN Exists(f) /\ file[f].time + 1 >= seen[c]
BugCurrentAfter(c) == LET f == <<host[c], at[c]>> IN Exists(f) /\ file[f].time > seen[c]

\* ... and then that of the file.
Current(c) == LET f == <<host[c], at[c]>> IN Exists(f) /\ file[f].time >= seen[c]

StatFile(c) ==
    /\ cpc[c] = "stat"
    /\ seen' = [seen EXCEPT ![c] = 0]
    /\ cpc' = [cpc EXCEPT ![c] = IF Current(c) THEN "check" ELSE OutOfUse(c)]
    /\ found' = IF c \in Reader /\ Current(c)
                THEN [found EXCEPT ![c] = @ \cup {at[c]}] ELSE found
    /\ at' = [at EXCEPT ![c] = IF cpc'[c] = "check" THEN None ELSE @]
    /\ UNCHANGED <<now, filevars, sendervars, host, todo, result, keep, hosts, history>>

\* A file that has vanished is taken for data.
BugReadFile(r, s) ==
    LET f == <<host[r], s>> IN
    /\ cpc[r] = "check" /\ todo[r] = {} /\ s \in found[r]
    /\ found' = [found EXCEPT ![r] = @ \ {s}]
    /\ result' = [result EXCEPT ![r] = @ \cup
                    {[source |-> s, data |-> IF Exists(f) THEN file[f].data ELSE None]}]
    /\ UNCHANGED <<now, filevars, sendervars, cpc, host, todo, at, seen, keep, hosts, history>>

\* get_piggyback_raw_data reads the files, as far as they still exist.
ReadFile(r, s) ==
    LET f == <<host[r], s>> IN
    /\ cpc[r] = "check" /\ todo[r] = {} /\ s \in found[r]
    /\ found' = [found EXCEPT ![r] = @ \ {s}]
    /\ result' = IF Exists(f)
                 THEN [result EXCEPT ![r] = @ \cup {[source |-> s, data |-> file[f].data]}]
                 ELSE result
    /\ UNCHANGED <<now, filevars, sendervars, cpc, host, todo, at, seen, keep, hosts, history>>

ReadEnd(r) ==
    /\ cpc[r] = "check" /\ todo[r] = {} /\ found[r] = {}
    /\ cpc' = [cpc EXCEPT ![r] = "done"]
    /\ host' = [host EXCEPT ![r] = None]
    /\ result' = [result EXCEPT ![r] = {}]
    /\ since' = [since EXCEPT ![r] = [s \in Source |-> NoMark]]
    /\ UNCHANGED <<now, filevars, sendervars, todo, at, seen, found, keep, hosts,
                   alone, steady, last, quiet>>

-----------------------------------------------------------------------------
\* The cleanup.  First the old status files ...
CleanStart(c) ==
    /\ cpc[c] = "new" /\ Bounded
    /\ cpc' = [cpc EXCEPT ![c] = "sources"]
    /\ todo' = [todo EXCEPT ![c] = {s \in Source : Present(s)}]
    /\ quiet' = IF Running = {} THEN {c} ELSE {}
    /\ UNCHANGED <<now, filevars, sendervars, host, at, seen, found, result, keep, hosts,
                   alone, steady, last, since>>

SourceAge(c, s) ==
    /\ cpc[c] = "sources" /\ s \in todo[c]
    /\ todo' = [todo EXCEPT ![c] = @ \ {s}]
    /\ \/ ~Present(s) /\ UNCHANGED cpc
       \/ Present(s) /\ MaybeTooOld(status[s]) /\ cpc' = [cpc EXCEPT ![c] = "removesource"]
       \/ Present(s) /\ ~SurelyTooOld(status[s]) /\ UNCHANGED cpc
    /\ at' = [at EXCEPT ![c] = IF cpc'[c] = "sources" THEN None ELSE s]
    /\ UNCHANGED <<now, filevars, sendervars, host, seen, found, result, keep, hosts, history>>

RemoveSource(c) ==
    /\ cpc[c] = "removesource"
    /\ status' = [status EXCEPT ![at[c]] = None]
    /\ cpc' = [cpc EXCEPT ![c] = "sources"]
    /\ at' = [at EXCEPT ![c] = None]
    /\ UNCHANGED <<now, dir, litter, file, sendervars, host, todo, seen, found, result, keep,
                   hosts, history>>

\* ... then the files of each host, of the sources that had a status file when
\* this began.
KeepSources(c) ==
    /\ cpc[c] = "sources" /\ todo[c] = {}
    /\ keep' = [keep EXCEPT ![c] = {s \in Source : Present(s)}]
    /\ cpc' = [cpc EXCEPT ![c] = "hosts"]
    /\ UNCHANGED <<now, filevars, sendervars, host, todo, at, seen, found, result, hosts, history>>

ListHosts(c) ==
    /\ cpc[c] = "hosts"
    /\ hosts' = [hosts EXCEPT ![c] = dir]
    /\ cpc' = [cpc EXCEPT ![c] = "host"]
    /\ UNCHANGED <<now, filevars, sendervars, host, todo, at, seen, found, result, keep, history>>

\* Another cleanup may have removed the directory: os.listdir raises.
EnterHost(c, h) ==
    /\ cpc[c] = "host" /\ h \in hosts[c]
    /\ hosts' = [hosts EXCEPT ![c] = @ \ {h}]
    /\ host' = [host EXCEPT ![c] = h]
    /\ todo' = [todo EXCEPT ![c] = {s \in Source : Exists(<<h, s>>)}]
    /\ cpc' = [cpc EXCEPT ![c] = IF h \in dir THEN "check" ELSE "failed"]
    /\ UNCHANGED <<now, filevars, sendervars, at, seen, found, result, keep, history>>

\* The loop over the sources is left at the first file it deletes.
BugRemoveFile(c) ==
    /\ cpc[c] = "remove"
    /\ file' = [file EXCEPT ![<<host[c], at[c]>>] = None]
    /\ cpc' = [cpc EXCEPT ![c] = "host"]
    /\ at' = [at EXCEPT ![c] = None]
    /\ UNCHANGED <<now, dir, litter, status, sendervars, host, todo, seen, found, result, keep,
                   hosts, history>>

RemoveFile(c) ==
    /\ cpc[c] = "remove"
    /\ file' = [file EXCEPT ![<<host[c], at[c]>>] = None]
    /\ cpc' = [cpc EXCEPT ![c] = "check"]
    /\ at' = [at EXCEPT ![c] = None]
    /\ UNCHANGED <<now, dir, litter, status, sendervars, host, todo, seen, found, result, keep,
                   hosts, history>>

\* os.rmdir: only ENOTEMPTY is expected.
Empty(h) == /\ h \notin litter
            /\ \A s \in Source : ~Exists(<<h, s>>)
            /\ \A p \in Sender : ~(spc[p] = "rename" /\ cur[p] = h)

LeaveHost(c) ==
    /\ cpc[c] = "check" /\ todo[c] = {}
    /\ dir' = IF Empty(host[c]) THEN dir \ {host[c]} ELSE dir
    /\ cpc' = [cpc EXCEPT ![c] = IF host[c] \in dir THEN "host" ELSE "failed"]
    /\ host' = [host EXCEPT ![c] = None]
    /\ UNCHANGED <<now, litter, file, status, sendervars, todo, at, seen, found, result, keep,
                   hosts, history>>

CleanEnd(c) ==
    /\ cpc[c] = "host" /\ hosts[c] = {}
    /\ cpc' = [cpc EXCEPT ![c] = "done"]
    /\ keep' = [keep EXCEPT ![c] = {}]
    /\ UNCHANGED <<now, filevars, sendervars, host, todo, at, seen, found, result, hosts,
                   history>>

-----------------------------------------------------------------------------
Send(p) == \/ \E s \in Source, H \in SUBSET Host : StoreStart(p, s, H)
           \/ \E h \in Host : Makedirs(p, h) \/ Open(p, h) \/ Utime(p, h)
           \/ WriteTmp(p) \/ Rename(p) \/ StampStatus(p)
           \/ RenameStatus(p) \/ RemoveStatus(p) \/ StoreFails(p)

Check(c) == \/ \E s \in Source : FileAge(c, s)
            \/ StatStatus(c) \/ StatFile(c)

Read(r) == \/ \E h \in Host : ReadStart(r, h)
           \/ \E s \in Source : ReadFile(r, s)
           \/ ReadEnd(r)

Clean(c) == \/ \E s \in Source : SourceAge(c, s)
            \/ \E h \in Host : EnterHost(c, h)
            \/ CleanStart(c) \/ RemoveSource(c) \/ KeepSources(c) \/ ListHosts(c)
            \/ RemoveFile(c) \/ LeaveHost(c) \/ CleanEnd(c)

Next == \/ Tick
        \/ \E s \in Source : Flush(s)
        \/ \E p \in Sender : Send(p)
        \/ \E c \in Checker : Check(c)
        \/ \E r \in Reader : Read(r)
        \/ \E c \in Cleaner : Clean(c)

Spec == Init /\ [][Next]_vars

-----------------------------------------------------------------------------
TypeOK ==
    /\ now \in Nat /\ dir \in SUBSET Host /\ litter \in SUBSET Host
    /\ file \in [Path -> File \cup {None}]
    /\ status \in [Source -> Nat \cup {None}]
    /\ stores \in Nat
    /\ spc \in [Sender -> {"idle", "store", "write", "rename", "utime", "forget"}]
    /\ src \in [Sender -> Source \cup {None}]
    /\ data \in [Sender -> SUBSET Host]
    /\ left \in [Sender -> SUBSET Host]
    /\ cur \in [Sender -> Host \cup {None}]
    /\ stamp \in [Sender -> Nat]
    /\ gen \in [Sender -> Nat]
    /\ cpc \in [Checker -> {"new", "check", "status", "stat", "remove", "sources", "removesource",
                           "hosts", "host", "done", "failed"}]
    /\ host \in [Checker -> Host \cup {None}]
    /\ todo \in [Checker -> SUBSET Source]
    /\ at \in [Checker -> Source \cup {None}]
    /\ seen \in [Checker -> Nat]
    /\ found \in [Reader -> SUBSET Source]
    /\ result \in [Reader -> SUBSET [source : Source, data : Nat]]
    /\ keep \in [Cleaner -> SUBSET Source]
    /\ hosts \in [Cleaner -> SUBSET Host]
    /\ alone \in SUBSET Sender /\ quiet \in SUBSET Cleaner /\ steady \in SUBSET Path
    /\ last \in [Source -> Mark]
    /\ since \in [Reader -> [Source -> Mark]]

\* A file that is steady is there and in use: the source keeps sending data of
\* this host, each of its stores ran alone, the last completed one is younger
\* than the maximum age, and no cleanup had given the file up before.  No
\* store, and no cleanup that runs meanwhile, takes it away even for a moment.
InUse(f) == /\ Exists(f) /\ Present(f[2]) /\ f[1] \in dir
            /\ status[f[2]] <= file[f].time
            /\ ~MaybeTooOld(file[f].time)
SteadyInUse == \A f \in steady : InUse(f)

\* A reader that looks at a steady file gets its data: none of the calls of
\* which get_piggyback_raw_data consists drops it, in whatever order they meet
\* the calls of a store.
Drops(r) ==
    \E h \in Host, s \in Source :
        /\ <<h, s>> \in steady
        /\ \/ cpc[r] = "new" /\ cpc'[r] # "new" /\ host'[r] = h /\ s \notin todo'[r]
           \/ /\ host[r] = h /\ cpc[r] # "new"
              /\ \/ cpc[r] = "check" /\ s \in todo[r] \ todo'[r] /\ cpc'[r] # "status"
                 \/ cpc[r] \in {"status", "stat"} /\ at[r] = s /\ cpc'[r] = "check"
                       /\ s \notin found'[r]
                 \/ /\ s \in found[r] \ found'[r]
                    /\ \A d \in result'[r] : d.source # s
SteadyRead == [][\A r \in Reader : ~Drops(r)]_vars

\* "This also implies a removal of piggyback files received during previous
\* calls": a reader that starts after a store has completed gets no data of an
\* earlier store of that source, for the hosts of the store and for all
\* others, unless two stores overlapped or fell into one second.
NothingStale ==
    \A r \in Reader : \A d \in result[r] :
        d.data = 0 \/ d.data >= since[r][d.source].data

\* "The monitoring is already skipping these files": what a cleanup leaves
\* behind, if nothing else happens meanwhile, is what the monitoring uses, in
\* directories that are not empty.
Tidy == \A c \in quiet :
            cpc[c] = "done" =>
                /\ \A f \in Path : Exists(f) => /\ Present(f[2])
                                                /\ status[f[2]] <= file[f].time
                                                /\ ~SurelyTooOld(file[f].time)
                /\ \A h \in dir : ~Empty(h)
=============================================================================
