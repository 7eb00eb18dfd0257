----------------------------- MODULE Activation -----------------------------
(***************************************************************************)
(* WATO keeps, for each site, a file with the changes that have not been   *)
(* activated there (changes.py).  Users make and discard changes under one *)
(* exclusive lock; an activation takes a snapshot of the configuration     *)
(* under that lock and then forks one process per site, which transfers    *)
(* the snapshot, restarts the site and removes the activated changes from  *)
(* the file (activate_changes.py).  Those processes run for minutes beside *)
(* each other, beside the users and beside other activations; what they    *)
(* share is the file, its lock (of the inode, see FileStore) and the site. *)
(*                                                                         *)
(* A change is its id, a configuration is the set of changes it contains.  *)
(* Every change needs a transfer and a restart; a discard logs a change of *)
(* its own, which has no content.                                          *)
(***************************************************************************)
EXTENDS Naturals, Sequences, FiniteSets

CONSTANTS Site,        \* the sites that changes are activated on
          Local,       \* the central site itself, whose configuration is live
          Change,      \* ids of changes, one for each edit and each discard
          Activation,  \* ids of activations
          Targets,     \* the sets of sites that an edit may concern
          MaxProcess,  \* bound: processes of sites that are ever started
          None         \* no lock owner, no snapshot

ASSUME TargetsAssumption == Targets \subseteq SUBSET Site
ASSUME NoneAssumption == /\ None \notin (Activation \X Site) \cup Activation \cup Change
                         /\ \A S \in SUBSET Change : S # None

VARIABLES config,    \* the configuration files of the central site
          backup,    \* the newest automatic snapshot, which a discard restores
          changes,   \* replication_changes_<site>.mk: the pending changes
          owner,     \* who holds the lock of the file of that path
          synced,    \* the configuration files at a remote site
          running,   \* the configuration that the core of a site runs
          current,   \* "current_activation" in the replication status
          used,      \* change ids that have been given out
          editor,    \* the request that holds the exclusive lock
          manager,   \* progress of the request that starts an activation
          todo,      \* sites it has not yet forked a process for
          prevent,   \* _prevent_activate: transfer only
          snap,      \* the snapshot of an activation
          pc,        \* step of a site's activation process
          count,     \* len(self._site_changes): what it has loaded
          needs,     \* is_sync_needed for what it has loaded
          rest,      \* changes it has still to write back
          logged,    \* history: the changes ever logged for a site
          raced      \* history: sites that a race named below has met

filevars == <<changes, owner>>
sitevars == <<synced, running, current>>
managervars == <<manager, todo, prevent, snap>>
procvars == <<pc, count, needs, rest>>
uservars == <<config, backup, used, editor>>
vars == <<uservars, filevars, sitevars, managervars, procvars, logged, raced>>

Process == Activation \X Site
Entry == [id : Change, sync : BOOLEAN]
Ids(s) == {s[i].id : i \in DOMAIN s}

Idle == [op |-> "none", id |-> None, left |-> {}]

\* The steps between load() and the last entry written back, the steps in
\* which the process believes that it holds the lock of the file, and the
\* steps in which the file lacks what the process has in memory.
Working == {"ready", "sync", "activate", "confirm", "truncate", "rewrite", "append"}
Holding == {"truncate", "rewrite", "unlock"}
Writing == {"rewrite", "append"}
Alive == Working \cup {"unlock"}

Busy(s) == \E a \in Activation : pc[<<a, s>>] \in Working
Rewritten(s) == UNION {Ids(rest[<<a, s>>]) :
                         a \in {b \in Activation : pc[<<b, s>>] \in Writing}}
Pending(s) == Ids(changes[s]) \cup Rewritten(s)

Init == /\ config = {} /\ backup = None /\ used = {} /\ editor = Idle
        /\ changes = [s \in Site |-> <<>>]
        /\ owner = [s \in Site |-> None]
        /\ synced = [s \in Site |-> {}]
        /\ running = [s \in Site |-> {}]
        /\ current = [s \in Site |-> None]
        /\ manager = [a \in Activation |-> "new"]
        /\ todo = [a \in Activation |-> {}]
        /\ prevent = [a \in Activation |-> FALSE]
        /\ snap = [a \in Activation |-> {}]
        /\ pc = [p \in Process |-> "none"]
        /\ count = [p \in Process |-> 0]
        /\ needs = [p \in Process |-> FALSE]
        /\ rest = [p \in Process |-> <<>>]
        /\ logged = [s \in Site |-> {}]
        /\ raced = {}

-----------------------------------------------------------------------------
\* Users.  Nobody edits beside another edit, a discard or a snapshot.

\* SiteChanges.save_change: lock, append, unlock.
LogEntry(s, c) ==
    /\ owner[s] = None
    /\ changes' = [changes EXCEPT ![s] = Append(@, [id |-> c, sync |-> TRUE])]
    /\ UNCHANGED owner

\* A page changes the configuration and calls add_change for the sites of the
\* change: Host.edit saves first, Folder.create_hosts and delete_hosts log first.
EditStart(c, sites, saved) ==
    /\ editor.op = "none"
    /\ c \notin used
    /\ used' = used \cup {c}
    /\ editor' = [op |-> "edit", id |-> c, left |-> sites]
    /\ config' = IF saved THEN config \cup {c} ELSE config
    /\ UNCHANGED <<backup, filevars, sitevars, managervars, procvars, logged, raced>>

EditLog(s) ==
    /\ editor.op = "edit" /\ s \in editor.left
    /\ LogEntry(s, editor.id)
    /\ editor' = [editor EXCEPT !.left = @ \ {s}]
    /\ logged' = [logged EXCEPT ![s] = @ \cup {editor.id}]
    /\ UNCHANGED <<config, backup, used, sitevars, managervars, procvars, raced>>

EditEnd ==
    /\ editor.op = "edit" /\ editor.left = {}
    /\ config' = config \cup {editor.id}
    /\ editor' = Idle
    /\ UNCHANGED <<backup, used, filevars, sitevars, managervars, procvars, logged, raced>>

\* The page discards: it logs a change for all sites, restores the newest
\* automatic snapshot, restarts the own site, and unlinks the files of all
\* sites, whatever they contain by then and whoever has locked them.
\* raced: an activation of the site is under way.
Discarding == editor.op \in {"discard", "restart", "clear"}

\* The sites' files get no entry for the discard.
BugDiscardStart(c) ==
    /\ editor.op = "none"
    /\ backup # None
    /\ \E s \in Site : changes[s] # <<>>
    /\ c \notin used
    /\ used' = used \cup {c}
    /\ editor' = [op |-> "discard", id |-> c, left |-> {}]
    /\ raced' = raced \cup {s \in Site : Busy(s)}
    /\ UNCHANGED <<config, backup, filevars, sitevars, managervars, procvars, logged>>

DiscardStart(c) ==
    /\ editor.op = "none"
    /\ backup # None
    /\ \E s \in Site : changes[s] # <<>>
    /\ c \notin used
    /\ used' = used \cup {c}
    /\ editor' = [op |-> "discard", id |-> c, left |-> Site]
    /\ raced' = raced \cup {s \in Site : Busy(s)}
    /\ UNCHANGED <<config, backup, filevars, sitevars, managervars, procvars, logged>>

DiscardLog(s) ==
    /\ editor.op = "discard" /\ s \in editor.left
    /\ LogEntry(s, editor.id)
    /\ editor' = [editor EXCEPT !.left = @ \ {s}]
    /\ UNCHANGED <<config, backup, used, sitevars, managervars, procvars, logged, raced>>

DiscardExtract ==
    /\ editor.op = "discard" /\ editor.left = {}
    /\ config' = backup
    /\ editor' = [editor EXCEPT !.op = "restart"]
    /\ UNCHANGED <<backup, used, filevars, sitevars, managervars, procvars, logged, raced>>

\* The site is restarted with what it ran before.
BugDiscardRestart ==
    /\ editor.op = "restart"
    /\ editor' = [editor EXCEPT !.op = "clear", !.left = Site]
    /\ UNCHANGED <<config, backup, used, filevars, sitevars, managervars, procvars, logged, raced>>

DiscardRestart ==
    /\ editor.op = "restart"
    /\ running' = [running EXCEPT ![Local] = config]
    /\ editor' = [editor EXCEPT !.op = "clear", !.left = Site]
    /\ UNCHANGED <<config, backup, used, filevars, synced, current, managervars, procvars,
                   logged, raced>>

\* The lock is given back, the request is not ended.
BugDiscardFails ==
    /\ editor.op = "restart"
    /\ editor' = [editor EXCEPT !.op = "none"]
    /\ UNCHANGED <<config, backup, used, filevars, sitevars, managervars, procvars, logged, raced>>

DiscardFails ==
    /\ editor.op = "restart"
    /\ editor' = Idle
    /\ UNCHANGED <<config, backup, used, filevars, sitevars, managervars, procvars, logged, raced>>

\* raced: the snapshot to restore already has a change that is pending at a
\* remote site.
DiscardClear(s) ==
    /\ editor.op = "clear" /\ s \in editor.left
    /\ changes' = [changes EXCEPT ![s] = <<>>]
    /\ owner' = [owner EXCEPT ![s] = None]
    /\ editor' = IF editor.left = {s} THEN Idle ELSE [editor EXCEPT !.left = @ \ {s}]
    /\ raced' = IF s # Local /\ Ids(changes[s]) \cap logged[s] \cap backup # {}
                THEN raced \cup {s} ELSE raced
    /\ UNCHANGED <<config, backup, used, sitevars, managervars, procvars, logged>>

-----------------------------------------------------------------------------
\* The request that starts an activation.  It loads the changes without a
\* lock and compares the last of them with activate_until, which it took from
\* the same load: changes of the time until the snapshot are not noticed.
Started == {p \in Process : pc[p] # "none" \/ p[2] \in todo[p[1]]}

Load(a, sites, transfer) ==
    /\ manager[a] = "new"
    /\ sites # {}
    /\ Cardinality(sites) + Cardinality(Started) <= MaxProcess
    /\ IF transfer
       THEN \E s \in Site \ {Local} : /\ sites = {s}
                                      /\ \E i \in DOMAIN changes[s] : changes[s][i].sync
       ELSE \E s \in Site : changes[s] # <<>>
    /\ manager' = [manager EXCEPT ![a] = "loaded"]
    /\ todo' = [todo EXCEPT ![a] = sites]
    /\ prevent' = [prevent EXCEPT ![a] = transfer]
    /\ UNCHANGED <<uservars, filevars, sitevars, snap, procvars, logged, raced>>

CreateSnapshots(a) ==
    /\ manager[a] = "loaded"
    /\ editor.op = "none"
    /\ manager' = [manager EXCEPT ![a] = "started"]
    /\ snap' = [snap EXCEPT ![a] = config]
    /\ backup' = config
    /\ UNCHANGED <<config, used, editor, filevars, sitevars, todo, prevent, procvars, logged, raced>>

\* self._activate_until_change_id() returns nothing, so that no entry is the
\* last one and all entries are taken.
ChangesTillActivation(s) == changes[s]

\* A process for the next site: ActivateChangesSite.load reads the file anew,
\* after the snapshot and without a lock.
\* raced: another activation of the site is between its load and its end, or
\* a discard is under way, or a change was made for the site since the snapshot.
Late(a, s) == ~(logged[s] \cap (config \cup Ids(changes[s])) \subseteq snap[a])

Fork(a, s) ==
    /\ manager[a] = "started" /\ s \in todo[a]
    /\ todo' = [todo EXCEPT ![a] = @ \ {s}]
    /\ pc' = [pc EXCEPT ![<<a, s>>] = "ready"]
    /\ count' = [count EXCEPT ![<<a, s>>] = Len(ChangesTillActivation(s))]
    /\ needs' = [needs EXCEPT ![<<a, s>>] =
                    s # Local /\ \E i \in DOMAIN changes[s] : changes[s][i].sync]
    /\ raced' = IF Busy(s) \/ Discarding \/ (s # Local /\ Late(a, s)) THEN raced \cup {s} ELSE raced
    /\ UNCHANGED <<uservars, filevars, sitevars, manager, prevent, snap, rest, logged>>

-----------------------------------------------------------------------------
\* The process of a site.

\* rep_status.get(self._site_id, {}) asks the status of one site for that of
\* the site: there is no such key, and None is no known activation.
CurrentActivation(s) == None

IsCurrentlyActivating(s) ==
    /\ current[s] # None
    /\ CurrentActivation(s) # None
    /\ pc[<<CurrentActivation(s), s>>] \in Alive

LockActivation(p) ==
    LET s == p[2] IN
    /\ pc[p] = "ready"
    /\ current' = [current EXCEPT ![s] = p[1]]
    /\ pc' = [pc EXCEPT ![p] = IF IsCurrentlyActivating(s) THEN "unlock" ELSE "sync"]
    /\ UNCHANGED <<uservars, filevars, synced, running, managervars, count, needs, rest,
                   logged, raced>>

Synchronized(p) == IF prevent[p[1]] THEN "confirm" ELSE "activate"

NoSyncNeeded(p) ==
    /\ pc[p] = "sync" /\ ~needs[p]
    /\ pc' = [pc EXCEPT ![p] = Synchronized(p)]
    /\ UNCHANGED <<uservars, filevars, sitevars, managervars, count, needs, rest, logged, raced>>

\* The transfer fails with and without effect, since the answer may be lost.
SynchronizeSite(p, effect, answer) ==
    LET s == p[2] IN
    /\ pc[p] = "sync" /\ needs[p]
    /\ effect \/ ~answer
    /\ synced' = IF effect THEN [synced EXCEPT ![s] = snap[p[1]]] ELSE synced
    /\ pc' = [pc EXCEPT ![p] = IF answer THEN Synchronized(p) ELSE "unlock"]
    /\ UNCHANGED <<uservars, filevars, running, current, managervars, count, needs, rest,
                   logged, raced>>

NoActivateNeeded(p) ==
    /\ pc[p] = "activate" /\ count[p] = 0
    /\ pc' = [pc EXCEPT ![p] = "confirm"]
    /\ UNCHANGED <<uservars, filevars, sitevars, managervars, count, needs, rest, logged, raced>>

\* The restart: a remote site uses what was transferred, the central site its
\* live files.  raced: there, a logged change is not yet saved.
DoActivate(p, effect, answer) ==
    LET s == p[2] IN
    /\ pc[p] = "activate" /\ count[p] > 0
    /\ effect \/ ~answer
    /\ running' = IF effect
                  THEN [running EXCEPT ![s] = IF s = Local THEN config ELSE synced[s]]
                  ELSE running
    /\ pc' = [pc EXCEPT ![p] = IF answer THEN "confirm" ELSE "unlock"]
    /\ raced' = IF s = Local /\ editor.op = "edit" /\ editor.id \in Ids(changes[s]) \ config
                THEN raced \cup {s} ELSE raced
    /\ UNCHANGED <<uservars, filevars, synced, current, managervars, count, needs, rest, logged>>

\* What _confirm_activated_changes and _confirm_synchronized_changes write back.
Unsynced(s) == [i \in DOMAIN changes[s] |-> [changes[s][i] EXCEPT !.sync = FALSE]]
\* Confirming empties the file.
BugRemaining(p) == <<>>

Remaining(p) == SubSeq(changes[p[2]], count[p] + 1, Len(changes[p[2]]))

\* raced: changes made since the load are marked as transferred.
ConfirmLoad(p) ==
    LET s == p[2] IN
    /\ pc[p] = "confirm"
    /\ owner[s] = None
    /\ owner' = [owner EXCEPT ![s] = p]
    /\ rest' = [rest EXCEPT ![p] = IF prevent[p[1]] THEN Unsynced(s) ELSE Remaining(p)]
    /\ pc' = [pc EXCEPT ![p] = "truncate"]
    /\ raced' = IF prevent[p[1]] /\ Len(changes[s]) > count[p] THEN raced \cup {s} ELSE raced
    /\ UNCHANGED <<uservars, changes, sitevars, managervars, count, needs, logged>>

\* SiteChanges.save: truncate, then save_change for each entry.  The first
\* call finds the lock held, and gives it back; without an entry the lock is
\* kept until the process ends.
Truncate(p) ==
    /\ pc[p] = "truncate"
    /\ changes' = [changes EXCEPT ![p[2]] = <<>>]
    /\ pc' = [pc EXCEPT ![p] = IF rest[p] = <<>> THEN "unlock" ELSE "rewrite"]
    /\ UNCHANGED <<uservars, owner, sitevars, managervars, count, needs, rest, logged, raced>>

\* Nobody closes the file.
BugRelease(p) == owner

Release(p) == [owner EXCEPT ![p[2]] = IF @ = p THEN None ELSE @]

Rewrite(p) ==
    LET s == p[2] IN
    /\ \/ pc[p] = "rewrite"
       \/ pc[p] = "append" /\ owner[s] = None
    /\ changes' = [changes EXCEPT ![s] = Append(@, Head(rest[p]))]
    /\ owner' = Release(p)
    /\ rest' = [rest EXCEPT ![p] = Tail(@)]
    /\ pc' = [pc EXCEPT ![p] = IF Tail(rest[p]) = <<>> THEN "unlock" ELSE "append"]
    /\ UNCHANGED <<uservars, sitevars, managervars, count, needs, logged, raced>>

Forget(p) == /\ count' = [count EXCEPT ![p] = 0]
             /\ needs' = [needs EXCEPT ![p] = FALSE]
             /\ rest' = [rest EXCEPT ![p] = <<>>]

\* _unlock_activation and the end of the process, with all of its locks.
UnlockActivation(p) ==
    /\ pc[p] = "unlock"
    /\ current' = [current EXCEPT ![p[2]] = None]
    /\ owner' = Release(p)
    /\ pc' = [pc EXCEPT ![p] = "done"]
    /\ Forget(p)
    /\ UNCHANGED <<uservars, changes, synced, running, managervars, logged, raced>>

\* The process is killed.  raced: it was writing entries back.
Crash(p) ==
    /\ pc[p] \in Alive
    /\ owner' = Release(p)
    /\ pc' = [pc EXCEPT ![p] = "done"]
    /\ Forget(p)
    /\ raced' = IF pc[p] \in Writing THEN raced \cup {p[2]} ELSE raced
    /\ UNCHANGED <<uservars, changes, sitevars, managervars, logged>>

-----------------------------------------------------------------------------
Edit == \/ \E c \in Change, sites \in Targets, saved \in BOOLEAN :
              EditStart(c, sites, saved)
        \/ \E c \in Change : DiscardStart(c)

Request == \/ \E s \in Site : EditLog(s) \/ DiscardLog(s) \/ DiscardClear(s)
           \/ EditEnd \/ DiscardExtract \/ DiscardRestart \/ DiscardFails

Manage(a) == \/ CreateSnapshots(a)
             \/ \E s \in Site : Fork(a, s)

Step(p) == \/ LockActivation(p) \/ NoSyncNeeded(p) \/ NoActivateNeeded(p)
           \/ \E effect, answer \in BOOLEAN : \/ SynchronizeSite(p, effect, answer)
                                              \/ DoActivate(p, effect, answer)
           \/ ConfirmLoad(p) \/ Truncate(p) \/ Rewrite(p) \/ UnlockActivation(p)

Next == \/ Edit
        \/ Request
        \/ \E a \in Activation, sites \in SUBSET Site, transfer \in BOOLEAN :
              Load(a, sites, transfer)
        \/ \E a \in Activation : Manage(a)
        \/ \E p \in Process : Step(p) \/ Crash(p)

Spec == Init /\ [][Next]_vars

-----------------------------------------------------------------------------
TypeOK ==
    /\ config \in SUBSET Change
    /\ backup \in (SUBSET Change) \cup {None}
    /\ used \in SUBSET Change
    /\ editor \in {Idle} \cup [op : {"edit", "discard", "restart", "clear"},
                               id : Change, left : SUBSET Site]
    /\ changes \in [Site -> Seq(Entry)]
    /\ owner \in [Site -> Process \cup {None}]
    /\ synced \in [Site -> SUBSET Change]
    /\ running \in [Site -> SUBSET Change]
    /\ current \in [Site -> Activation \cup {None}]
    /\ manager \in [Activation -> {"new", "loaded", "started"}]
    /\ todo \in [Activation -> SUBSET Site]
    /\ prevent \in [Activation -> BOOLEAN]
    /\ snap \in [Activation -> SUBSET Change]
    /\ pc \in [Process -> Alive \cup {"none", "done"}]
    /\ count \in [Process -> Nat]
    /\ needs \in [Process -> BOOLEAN]
    /\ rest \in [Process -> Seq(Entry)]
    /\ logged \in [Site -> SUBSET Change]
    /\ raced \in SUBSET Site

\* The lock of a site's file is held by nobody or by a process of that site
\* in a step in which it believes to hold it: no end of a process, whatever
\* happened to the file meanwhile, leaves it locked.
LockHeld == \A s \in Site : owner[s] # None => owner[s][2] = s /\ pc[owner[s]] \in Holding

\* No change gets lost: what the configuration has, and was logged for a site,
\* the site runs, or it is pending there.  This holds of every site unless it
\* met one of the races that are marked in the actions.
NothingLost ==
    \A s \in Site \ raced : config \cap logged[s] \subseteq running[s] \cup Pending(s)

\* "No pending changes" means what the user takes it for: such a site runs
\* nothing that is not in the configuration, so that together with
\* NothingLost it runs exactly the configuration.
NothingLeftOver ==
    \A s \in Site \ raced : Pending(s) = {} => running[s] \subseteq config

\* Every site's list of pending changes, as the activations, the users and the
\* crashes change it, is the one that SiteChanges promises: the entries that a
\* process has still to write back are pending, too.
Changes(s) == INSTANCE SiteChanges WITH
                logged <- logged[s], pending <- Pending(s), running <- running[s],
                raced <- s \in raced
SitesSpec == /\ \A s \in Site : Changes(s)!Init
             /\ [][\A s \in Site : [Changes(s)!Next]_(Changes(s)!vars)]_vars
=============================================================================
