------------------------- MODULE Activation_proofs -------------------------
(***************************************************************************)
(* Proofs about Activation, for any number of sites, changes, activations  *)
(* and processes.  Inv is inductive: where no race has met a site, one     *)
(* process works at it (WorkInv), what is due there is running or pending  *)
(* at every step of that process (LostInv), and what a remote site was     *)
(* sent is what the confirmed changes say (SyncInv).                       *)
(***************************************************************************)
EXTENDS Activation, TLAPS

\* A process is started once, after the snapshot; the central site gets no
\* transfer.
ProcInv ==
    \A a \in Activation, s \in Site :
        /\ manager[a] # "started" \/ s \in todo[a] => pc[<<a, s>>] = "none"
        /\ pc[<<a, s>>] \in Writing => rest[<<a, s>>] # <<>>
        /\ s = Local /\ (s \in todo[a] \/ pc[<<a, s>>] # "none") => ~prevent[a]

\* There is a snapshot for a discard to restore.
DiscardInv == Discarding => backup # None

TypeInv == TypeOK /\ ProcInv /\ DiscardInv

\* A change that begins is new everywhere, and logged once for each site.
IdInv ==
    /\ config \subseteq used
    /\ editor.op # "none" => editor.id \in used
    /\ \A a \in Activation : snap[a] \subseteq used
    /\ \A s \in Site : logged[s] \subseteq used /\ Ids(changes[s]) \subseteq used
    /\ \A p \in Process : Ids(rest[p]) \subseteq used
    /\ editor.op = "edit" =>
          /\ editor.id \notin config => \A a \in Activation : editor.id \notin snap[a]
          /\ \A s \in editor.left : /\ editor.id \notin Ids(changes[s])
                                    /\ \A a \in Activation : editor.id \notin Ids(rest[<<a, s>>])

\* A later snapshot contains the earlier ones, and remote sites have what some
\* snapshot has.
Saved == {c \in Change : backup # None /\ c \in backup}
SnapInv ==
    /\ Saved \subseteq config
    /\ editor.op \in {"restart", "clear"} => config = backup
    /\ \A a \in Activation : snap[a] \subseteq Saved
    /\ \A s \in Site \ {Local} : synced[s] \subseteq Saved /\ running[s] \subseteq Saved

\* A change that is logged for a site and that the configuration has, or that
\* the running edit will add; and one that is pending at the site.
IsDue(s, c) == c \in logged[s] /\ (c \in config \/ (editor.op = "edit" /\ c = editor.id))
Waiting(s, c) ==
    \/ c \in Ids(changes[s])
    \/ \E a \in Activation : pc[<<a, s>>] \in Writing /\ c \in Ids(rest[<<a, s>>])

\* The changes that a process takes as activated, those that came later, and
\* those that have still to be transferred.
Taken(p) == {changes[p[2]][i].id : i \in 1..count[p]}
Later(p) == {changes[p[2]][i].id : i \in (count[p] + 1)..Len(changes[p[2]])}
ToSync(q) == {q[i].id : i \in {j \in DOMAIN q : q[j].sync}}
InSync(q) == {q[i].id : i \in {j \in DOMAIN q : ~q[j].sync}}

Before == {"ready", "sync"}
Unconfirmed == {"ready", "sync", "activate", "confirm"}

\* No process works at a site beside a discard, nor beside another one;
QuietInv == \A s \in Site \ raced : Discarding => ~Busy(s)
AloneInv ==
    \A s \in Site \ raced : \A a, b \in Activation :
        pc[<<a, s>>] \in Working /\ pc[<<b, s>>] \in Working => a = b

\* it has the lock while the file lacks what it writes back, and before that
\* the changes that it has loaded stay where they are.
OwnInv ==
    \A s \in Site \ raced, a \in Activation :
        pc[<<a, s>>] \in {"truncate", "rewrite"} => owner[s] = <<a, s>>
CountInv ==
    \A s \in Site \ raced, a \in Activation :
        LET p == <<a, s>> IN
        pc[p] \in Unconfirmed =>
            /\ count[p] <= Len(changes[s])
            /\ \A i \in (count[p] + 1)..Len(changes[s]) : changes[s][i].sync
            /\ pc[p] \in Before /\ s # Local /\ ~needs[p] =>
                  \A i \in 1..count[p] : ~changes[s][i].sync

WorkInv == QuietInv /\ AloneInv /\ OwnInv /\ CountInv

\* What is due is running or pending, and stays so when the process takes its
\* changes out of the file.
LostAt(s, c) ==
    IsDue(s, c) =>
        /\ c \in running[s] \/ Waiting(s, c)
        /\ c \in config \/ Waiting(s, c)
        /\ \A a \in Activation :
              /\ pc[<<a, s>>] = "confirm" /\ c \in Taken(<<a, s>>) =>
                    c \in config /\ (prevent[a] \/ c \in running[s])
              /\ pc[<<a, s>>] = "truncate" =>
                    c \in Ids(rest[<<a, s>>]) \/ (c \in config /\ c \in running[s])
LostInv == \A s \in Site \ raced, c \in Change : LostAt(s, c)

\* The same of the files at a remote site: what is due has been transferred,
\* or it is pending and marked so.
SyncAt(s, c) ==
    c \in logged[s] =>
        /\ IsDue(s, c) =>
              \/ c \in synced[s] \/ c \in ToSync(changes[s])
              \/ \E a \in Activation : pc[<<a, s>>] \in Writing /\ c \in ToSync(rest[<<a, s>>])
        /\ c \in InSync(changes[s]) => c \in synced[s]
        /\ \A a \in Activation :
              /\ pc[<<a, s>>] \in Unconfirmed /\ c \in Taken(<<a, s>>) => c \in snap[a]
              /\ pc[<<a, s>>] \in Before /\ IsDue(s, c) => c \in snap[a] \/ c \in Later(<<a, s>>)
              /\ pc[<<a, s>>] \in {"activate", "confirm"} =>
                    /\ c \in Taken(<<a, s>>) => c \in synced[s]
                    /\ IsDue(s, c) => c \in synced[s] \/ c \in Later(<<a, s>>)
              /\ pc[<<a, s>>] = "truncate" /\ IsDue(s, c) =>
                    c \in synced[s] \/ c \in ToSync(rest[<<a, s>>])
              /\ pc[<<a, s>>] \in {"truncate", "rewrite", "append"} /\ c \in InSync(rest[<<a, s>>])
                    => c \in synced[s]
SyncInv == \A s \in Site \ (raced \cup {Local}), c \in Change : SyncAt(s, c)

\* What the central site runs beyond its configuration is an unfinished
\* discard, which is pending itself.
LeftInv ==
    Local \in Site \ raced =>
        /\ running[Local] \subseteq config \/ changes[Local] # <<>>
        /\ editor.op = "restart" \/ (editor.op = "discard" /\ Local \notin editor.left)
              => changes[Local] # <<>>
        /\ editor.op = "clear" => running[Local] = config
        /\ \A a \in Activation :
              LET p == <<a, Local>> IN
              /\ pc[p] \in {"ready", "sync", "activate"} =>
                    running[Local] \subseteq config \/ count[p] > 0
              /\ pc[p] \in {"confirm", "truncate", "rewrite", "append"} =>
                    running[Local] \subseteq config

Inv == TypeInv /\ IdInv /\ SnapInv /\ WorkInv /\ LostInv /\ SyncInv /\ LeftInv

\* For the refinement.  What an edit or a discard is about to log is new to the
\* snapshots and to the configuration;
NewInv ==
    /\ editor.op = "edit" => editor.id \notin Saved
    /\ Discarding => editor.id \notin config

\* a discard is pending at a site as soon as it is logged there; what a process
\* writes back is still in the file until it truncates it;
NoteInv ==
    \A s \in Site \ raced :
        editor.op = "discard" /\ s \notin editor.left => changes[s] # <<>>
RestInv ==
    \A s \in Site \ raced, a \in Activation :
        pc[<<a, s>>] = "truncate" => Ids(rest[<<a, s>>]) \subseteq Ids(changes[s])

\* and what a remote site runs of its changes is in the files there, and in the
\* snapshot that will replace them.
RunInv ==
    \A s \in Site \ (raced \cup {Local}) :
        /\ running[s] \cap logged[s] \cap config \subseteq synced[s]
        /\ \A a \in Activation :
              pc[<<a, s>>] \in Before => running[s] \cap logged[s] \cap config \subseteq snap[a]

SiteInv == NewInv /\ NoteInv /\ RestInv /\ RunInv

-----------------------------------------------------------------------------
USE TargetsAssumption, NoneAssumption

\* Facts about sequences of entries.
LEMMA AppendFacts ==
  ASSUME NEW q \in Seq(Entry), NEW e \in Entry
  PROVE  /\ Append(q, e) \in Seq(Entry)
         /\ Len(Append(q, e)) = Len(q) + 1
         /\ \A i \in 1..Len(q) : Append(q, e)[i] = q[i]
         /\ Append(q, e)[Len(q) + 1] = e
         /\ Ids(Append(q, e)) = Ids(q) \cup {e.id}
         /\ InSync(Append(q, e)) \subseteq InSync(q) \cup {e.id}
         /\ ToSync(q) \subseteq ToSync(Append(q, e))
         /\ e.sync => /\ InSync(Append(q, e)) \subseteq InSync(q)
                      /\ e.id \in ToSync(Append(q, e))
<1>1. /\ Append(q, e) \in Seq(Entry)
      /\ Len(Append(q, e)) = Len(q) + 1
      /\ \A i \in 1..Len(q) : Append(q, e)[i] = q[i]
      /\ Append(q, e)[Len(q) + 1] = e
  OBVIOUS
<1> DEFINE r == Append(q, e)
<1>2. /\ DOMAIN q = 1..Len(q) /\ DOMAIN r = 1..(Len(q) + 1) /\ Len(q) \in Nat
  BY <1>1
<1>3. \A i \in DOMAIN r : (i \in DOMAIN q /\ r[i] = q[i]) \/ (i = Len(q) + 1 /\ r[i] = e)
  BY <1>1, <1>2
<1>4. \A i \in DOMAIN q : i \in DOMAIN r /\ r[i] = q[i]
  BY <1>1, <1>2
<1>5. Len(q) + 1 \in DOMAIN r
  BY <1>2
<1> HIDE DEF r
<1> QED BY <1>1, <1>3, <1>4, <1>5 DEF Ids, ToSync, InSync, r

LEMMA TailFacts ==
  ASSUME NEW q \in Seq(Entry), q # <<>>
  PROVE  /\ Head(q) \in Entry /\ Tail(q) \in Seq(Entry)
         /\ Ids(q) = {Head(q).id} \cup Ids(Tail(q))
         /\ ToSync(q) \subseteq ToSync(Tail(q)) \cup {c \in {Head(q).id} : Head(q).sync}
         /\ InSync(Tail(q)) \subseteq InSync(q)
         /\ ~Head(q).sync => Head(q).id \in InSync(q)
<1> DEFINE t == Tail(q)
<1>1. /\ Head(q) = q[1] /\ q[1] \in Entry /\ t \in Seq(Entry) /\ Len(q) \in Nat \ {0}
      /\ DOMAIN q = 1..Len(q) /\ DOMAIN t = 1..(Len(q) - 1)
      /\ \A i \in 1..(Len(q) - 1) : t[i] = q[i + 1]
  OBVIOUS
<1>2. ASSUME NEW i \in DOMAIN q PROVE q[i] = Head(q) \/ \E j \in DOMAIN t : q[i] = t[j]
  <2>1. CASE i = 1
    BY <1>1, <2>1
  <2>2. CASE i # 1
    <3>1. i - 1 \in DOMAIN t /\ t[i - 1] = q[(i - 1) + 1] /\ (i - 1) + 1 = i
      BY <1>1, <2>2
    <3> QED BY <3>1
  <2> QED BY <2>1, <2>2
<1>3. ASSUME NEW j \in DOMAIN t PROVE \E i \in DOMAIN q : t[j] = q[i]
  <2>1. j + 1 \in DOMAIN q /\ t[j] = q[j + 1]
    BY <1>1
  <2> QED BY <2>1
<1>4. \E i \in DOMAIN q : q[i] = Head(q)
  BY <1>1
<1> HIDE DEF t
<1>5. Ids(q) = {Head(q).id} \cup Ids(t)
  BY <1>2, <1>3, <1>4 DEF Ids
<1>6. /\ ToSync(q) \subseteq ToSync(t) \cup {c \in {Head(q).id} : Head(q).sync}
      /\ InSync(t) \subseteq InSync(q)
      /\ ~Head(q).sync => Head(q).id \in InSync(q)
  BY <1>2, <1>3, <1>4 DEF ToSync, InSync
<1> QED BY <1>1, <1>5, <1>6 DEF t

LEMMA SubSeqFacts ==
  ASSUME NEW q \in Seq(Entry), NEW n \in Nat
  PROVE  LET r == SubSeq(q, n + 1, Len(q)) IN
         /\ r \in Seq(Entry)
         /\ Ids(r) = {q[i].id : i \in (n + 1)..Len(q)}
         /\ (\A i \in (n + 1)..Len(q) : q[i].sync) => InSync(r) = {} /\ ToSync(r) = Ids(r)
<1> DEFINE r == SubSeq(q, n + 1, Len(q))
<1>1. r \in Seq(Entry)
  OBVIOUS
<1>2. CASE n <= Len(q)
  <2>1. /\ DOMAIN r = 1..(Len(q) - n) /\ Len(q) \in Nat
        /\ \A i \in 1..(Len(q) - n) : r[i] = q[i + n]
    BY <1>2
  <2>2. ASSUME NEW i \in DOMAIN r PROVE \E j \in (n + 1)..Len(q) : r[i] = q[j]
    <3>1. i + n \in (n + 1)..Len(q) /\ r[i] = q[i + n]
      BY <2>1
    <3> QED BY <3>1
  <2>3. ASSUME NEW j \in (n + 1)..Len(q) PROVE \E i \in DOMAIN r : q[j] = r[i]
    <3>1. j - n \in DOMAIN r /\ (j - n) + n = j /\ j - n \in 1..(Len(q) - n)
      BY <2>1
    <3>2. r[j - n] = q[(j - n) + n]
      BY <2>1, <3>1
    <3> QED BY <3>1, <3>2
  <2> HIDE DEF r
  <2>4. Ids(r) = {q[i].id : i \in (n + 1)..Len(q)}
    BY <2>2, <2>3 DEF Ids
  <2>5. (\A i \in (n + 1)..Len(q) : q[i].sync)
          => {j \in DOMAIN r : ~r[j].sync} = {} /\ {j \in DOMAIN r : r[j].sync} = DOMAIN r
    BY <2>2
  <2>6. (\A i \in (n + 1)..Len(q) : q[i].sync) => InSync(r) = {} /\ ToSync(r) = Ids(r)
    BY <2>5 DEF Ids, ToSync, InSync
  <2> QED BY <1>1, <2>4, <2>6 DEF r
<1>3. CASE ~(n <= Len(q))
  <2>1. r = <<>> /\ (n + 1)..Len(q) = {}
    BY <1>3
  <2>2. DOMAIN r = {}
    BY <2>1
  <2> HIDE DEF r
  <2> QED BY <1>1, <2>1, <2>2 DEF Ids, ToSync, InSync, r
<1> QED BY <1>2, <1>3

LEMMA UnsyncedFacts ==
  ASSUME TypeOK, NEW s \in Site
  PROVE  /\ Unsynced(s) \in Seq(Entry)
         /\ Ids(Unsynced(s)) = Ids(changes[s])
         /\ InSync(Unsynced(s)) = Ids(changes[s]) /\ ToSync(Unsynced(s)) = {}
         /\ Unsynced(s) = <<>> => changes[s] = <<>>
<1> DEFINE q == changes[s]
           u == Unsynced(s)
<1>1. q \in Seq(Entry) /\ DOMAIN q = 1..Len(q) /\ Len(q) \in Nat
  BY DEF TypeOK
<1>2. DOMAIN u = DOMAIN q
  BY DEF Unsynced
<1>3. ASSUME NEW i \in DOMAIN q PROVE u[i] \in Entry /\ u[i].id = q[i].id /\ ~u[i].sync
  <2>1. q[i] \in Entry
    BY <1>1
  <2>2. u[i] = [q[i] EXCEPT !.sync = FALSE]
    BY DEF Unsynced
  <2> QED BY <2>1, <2>2 DEF Entry
<1>4. u \in [1..Len(q) -> Entry]
  BY <1>1, <1>2, <1>3 DEF Unsynced
<1> HIDE DEF q, u
<1>5. u \in Seq(Entry) /\ Len(u) = Len(q)
  BY <1>1, <1>4
<1>6. Ids(u) = Ids(q)
  BY <1>2, <1>3 DEF Ids
<1>7. {j \in DOMAIN u : u[j].sync} = {} /\ {j \in DOMAIN u : ~u[j].sync} = DOMAIN u
  BY <1>2, <1>3
<1>8. InSync(u) = Ids(u) /\ ToSync(u) = {}
  BY <1>7 DEF Ids, InSync, ToSync
<1>9. u = <<>> => q = <<>>
  BY <1>1, <1>5
<1> QED BY <1>5, <1>6, <1>8, <1>9 DEF q, u

-----------------------------------------------------------------------------
LEMMA EditorFacts ==
  ASSUME TypeOK, editor.op # "none"
  PROVE  /\ editor \in [op : {"edit", "discard", "restart", "clear"},
                        id : Change, left : SUBSET Site]
         /\ editor.id \in Change /\ editor.left \in SUBSET Site
BY DEF TypeOK, Idle

LEMMA LogFacts ==
  ASSUME TypeOK, NEW s \in Site, NEW e \in Entry
  PROVE  [changes EXCEPT ![s] = Append(@, e)] \in [Site -> Seq(Entry)]
<1>1. changes \in [Site -> Seq(Entry)]
  BY DEF TypeOK
<1>2. Append(changes[s], e) \in Seq(Entry)
  BY <1>1, AppendFacts
<1> QED BY <1>1, <1>2

LEMMA BackupFacts ==
  ASSUME TypeOK, backup # None
  PROVE  backup \in SUBSET Change
BY DEF TypeOK

LEMMA ProcessFacts ==
  ASSUME NEW p \in Process
  PROVE  p[1] \in Activation /\ p[2] \in Site /\ p = <<p[1], p[2]>>
BY DEF Process

\* The types hold initially.
LEMMA InitType == Init => TypeInv
<1> SUFFICES ASSUME Init PROVE TypeInv
  OBVIOUS
<1>1. /\ config \in SUBSET Change /\ used \in SUBSET Change
      /\ editor = Idle
      /\ synced \in [Site -> SUBSET Change] /\ running \in [Site -> SUBSET Change]
      /\ logged \in [Site -> SUBSET Change] /\ raced \in SUBSET Site
  BY DEF Init
<1>6. backup \in (SUBSET Change) \cup {None}
  <2>1. backup = None
    BY DEF Init
  <2> QED BY <2>1
<1>7. owner \in [Site -> Process \cup {None}]
  BY DEF Init
<1>8. current \in [Site -> Activation \cup {None}]
  BY DEF Init
<1>2. /\ manager \in [Activation -> {"new", "loaded", "started"}]
      /\ todo \in [Activation -> SUBSET Site] /\ prevent \in [Activation -> BOOLEAN]
      /\ snap \in [Activation -> SUBSET Change]
  BY DEF Init
<1>3. /\ pc \in [Process -> Alive \cup {"none", "done"}] /\ count \in [Process -> Nat]
      /\ needs \in [Process -> BOOLEAN]
  BY DEF Init
<1>4. changes \in [Site -> Seq(Entry)] /\ rest \in [Process -> Seq(Entry)]
  <2>1. <<>> \in Seq(Entry)
    OBVIOUS
  <2> QED BY <2>1 DEF Init
<1>5. ProcInv
  BY DEF Init, ProcInv, Process, Writing
<1> QED BY <1>1, <1>2, <1>3, <1>4, <1>5, <1>6, <1>7, <1>8 DEF TypeOK, TypeInv, DiscardInv, Discarding, Idle

\* Every step keeps the types,
LEMMA StepType ==
  ASSUME TypeInv, [Next]_vars
  PROVE  TypeOK'
<1> USE DEF TypeInv, TypeOK, ProcInv, Process, Entry, Idle, Alive, Working, Writing, uservars,
          filevars, sitevars, managervars, procvars
<1>1. ASSUME NEW x \in Change, NEW sites \in Targets, NEW saved \in BOOLEAN, EditStart(x, sites,
             saved)
       PROVE  TypeOK'
  BY <1>1 DEF EditStart
<1>2. ASSUME NEW z \in Site, EditLog(z) PROVE TypeOK'
  <2>1. [id |-> editor.id, sync |-> TRUE] \in Entry
    BY <1>2, EditorFacts DEF EditLog
  <2>2. changes' \in [Site -> Seq(Entry)]
    <3>1. changes' = [changes EXCEPT ![z] = Append(@, [id |-> editor.id, sync |-> TRUE])]
      BY <1>2 DEF EditLog, LogEntry
    <3> HIDE DEF TypeOK, Entry
    <3> QED BY <3>1, <2>1, LogFacts
  <2>3. [editor EXCEPT !.left = @ \ {z}] \in [op : {"edit", "discard", "restart", "clear"},
                                              id : Change, left : SUBSET Site]
    BY <1>2, EditorFacts DEF EditLog
  <2>4. logged' \in [Site -> SUBSET Change]
    BY <1>2, EditorFacts DEF EditLog
  <2> QED BY <1>2, <2>2, <2>3, <2>4 DEF EditLog, LogEntry
<1>3. CASE EditEnd
  BY <1>3, EditorFacts DEF EditEnd
<1>4. ASSUME NEW x \in Change, DiscardStart(x) PROVE TypeOK'
  BY <1>4 DEF DiscardStart
<1>5. ASSUME NEW z \in Site, DiscardLog(z) PROVE TypeOK'
  <2>1. [id |-> editor.id, sync |-> TRUE] \in Entry
    BY <1>5, EditorFacts DEF DiscardLog
  <2>2. changes' \in [Site -> Seq(Entry)]
    <3>1. changes' = [changes EXCEPT ![z] = Append(@, [id |-> editor.id, sync |-> TRUE])]
      BY <1>5 DEF DiscardLog, LogEntry
    <3> HIDE DEF TypeOK, Entry
    <3> QED BY <3>1, <2>1, LogFacts
  <2>3. [editor EXCEPT !.left = @ \ {z}] \in [op : {"edit", "discard", "restart", "clear"},
                                              id : Change, left : SUBSET Site]
    BY <1>5, EditorFacts DEF DiscardLog
  <2> QED BY <1>5, <2>2, <2>3 DEF DiscardLog, LogEntry
<1>6. CASE DiscardExtract
  <2>1. [editor EXCEPT !.op = "restart"] \in [op : {"edit", "discard", "restart", "clear"},
                                              id : Change, left : SUBSET Site]
    BY <1>6, EditorFacts DEF DiscardExtract
  <2>2. backup \in SUBSET Change
    <3>1. backup # None
      BY <1>6 DEF DiscardExtract, DiscardInv, Discarding
    <3> QED BY <3>1, BackupFacts
  <2> QED BY <1>6, <2>1, <2>2 DEF DiscardExtract
<1>7. CASE DiscardRestart
  <2>1. [editor EXCEPT !.op = "clear", !.left = Site]
             \in [op : {"edit", "discard", "restart", "clear"}, id : Change, left : SUBSET Site]
    BY <1>7, EditorFacts DEF DiscardRestart
  <2>2. running' \in [Site -> SUBSET Change]
    BY <1>7 DEF DiscardRestart
  <2> QED BY <1>7, <2>1, <2>2 DEF DiscardRestart
<1>8. CASE DiscardFails
  BY <1>8 DEF DiscardFails
<1>9. ASSUME NEW z \in Site, DiscardClear(z) PROVE TypeOK'
  <2>1. [editor EXCEPT !.left = @ \ {z}] \in [op : {"edit", "discard", "restart", "clear"},
                                              id : Change, left : SUBSET Site]
    BY <1>9, EditorFacts DEF DiscardClear
  <2>2. changes' \in [Site -> Seq(Entry)] /\ owner' \in [Site -> Process \cup {None}]
    <3>1. <<>> \in Seq(Entry)
      OBVIOUS
    <3> QED BY <1>9, <3>1 DEF DiscardClear
  <2>3. editor' \in {Idle} \cup [op : {"edit", "discard", "restart", "clear"},
                                 id : Change, left : SUBSET Site]
    BY <1>9, <2>1 DEF DiscardClear
  <2> QED BY <1>9, <2>2, <2>3 DEF DiscardClear
<1>10. ASSUME NEW b \in Activation, NEW sites \in SUBSET Site, NEW transfer \in BOOLEAN, Load(b,
             sites, transfer)
       PROVE  TypeOK'
  BY <1>10 DEF Load
<1>11. ASSUME NEW b \in Activation, CreateSnapshots(b) PROVE TypeOK'
  BY <1>11 DEF CreateSnapshots
<1>12. ASSUME NEW b \in Activation, NEW z \in Site, Fork(b, z) PROVE TypeOK'
  <2>1. count' \in [Process -> Nat] /\ pc' \in [Process -> Alive \cup {"none", "done"}]
    BY <1>12 DEF Fork, ChangesTillActivation
  <2>2. todo' \in [Activation -> SUBSET Site] /\ needs' \in [Process -> BOOLEAN]
    BY <1>12 DEF Fork
  <2>3. raced' \in SUBSET Site
    BY <1>12 DEF Fork
  <2> QED BY <1>12, <2>1, <2>2, <2>3 DEF Fork
<1>13. ASSUME NEW q \in Process, LockActivation(q) PROVE TypeOK'
  BY <1>13 DEF LockActivation
<1>14. ASSUME NEW q \in Process, NoSyncNeeded(q) PROVE TypeOK'
  BY <1>14 DEF NoSyncNeeded, Synchronized
<1>15. ASSUME NEW q \in Process, NEW effect \in BOOLEAN, NEW answer \in BOOLEAN,
             SynchronizeSite(q, effect, answer)
       PROVE  TypeOK'
  BY <1>15 DEF SynchronizeSite, Synchronized
<1>16. ASSUME NEW q \in Process, NoActivateNeeded(q) PROVE TypeOK'
  BY <1>16 DEF NoActivateNeeded
<1>17. ASSUME NEW q \in Process, NEW effect \in BOOLEAN, NEW answer \in BOOLEAN, DoActivate(q,
             effect, answer)
       PROVE  TypeOK'
  <2>1. q[2] \in Site
    BY ProcessFacts
  <2>2. running' \in [Site -> SUBSET Change] /\ raced' \in SUBSET Site
    BY <1>17, <2>1 DEF DoActivate
  <2> QED BY <1>17, <2>2 DEF DoActivate
<1>18. ASSUME NEW q \in Process, ConfirmLoad(q) PROVE TypeOK'
  <2>1. q[2] \in Site
    BY ProcessFacts
  <2>2. Unsynced(q[2]) \in Seq(Entry) /\ Remaining(q) \in Seq(Entry)
    BY <2>1, UnsyncedFacts, SubSeqFacts DEF Remaining
  <2>3. rest' \in [Process -> Seq(Entry)]
    BY <1>18, <2>2 DEF ConfirmLoad
  <2>4. owner' \in [Site -> Process \cup {None}] /\ raced' \in SUBSET Site
    BY <1>18, <2>1 DEF ConfirmLoad
  <2> QED BY <1>18, <2>3, <2>4 DEF ConfirmLoad
<1>19. ASSUME NEW q \in Process, Truncate(q) PROVE TypeOK'
  <2>1. changes' \in [Site -> Seq(Entry)]
    <3>1. <<>> \in Seq(Entry)
      OBVIOUS
    <3> QED BY <1>19, <3>1 DEF Truncate
  <2> QED BY <1>19, <2>1 DEF Truncate
<1>20. ASSUME NEW q \in Process, Rewrite(q) PROVE TypeOK'
  <2>1. q[2] \in Site
    BY ProcessFacts
  <2>2. rest[q] # <<>>
    BY <1>20, ProcessFacts DEF Rewrite
  <2>3. Head(rest[q]) \in Entry /\ Tail(rest[q]) \in Seq(Entry)
    BY <2>2, TailFacts
  <2>4. changes' \in [Site -> Seq(Entry)] /\ rest' \in [Process -> Seq(Entry)]
    <3>1. /\ changes' = [changes EXCEPT ![q[2]] = Append(@, Head(rest[q]))]
          /\ rest' = [rest EXCEPT ![q] = Tail(@)]
      BY <1>20 DEF Rewrite
    <3>2. changes' \in [Site -> Seq(Entry)]
      <4> HIDE DEF TypeOK, Entry
      <4> QED BY <3>1, <2>1, <2>3, LogFacts
    <3>3. rest' \in [Process -> Seq(Entry)]
      <4> DEFINE t == Tail(rest[q])
      <4>1. rest' = [rest EXCEPT ![q] = t] /\ t \in Seq(Entry)
        BY <3>1, <2>3
      <4> HIDE DEF t
      <4> QED BY <4>1
    <3> QED BY <3>2, <3>3
  <2>5. owner' \in [Site -> Process \cup {None}]
    BY <1>20, <2>1 DEF Rewrite, Release
  <2> QED BY <1>20, <2>4, <2>5 DEF Rewrite
<1>21. ASSUME NEW q \in Process, UnlockActivation(q) PROVE TypeOK'
  <2>1. q[2] \in Site
    BY ProcessFacts
  <2>2. owner' \in [Site -> Process \cup {None}] /\ current' \in [Site -> Activation \cup {None}]
    BY <1>21, <2>1 DEF UnlockActivation, Release
  <2>3. rest' \in [Process -> Seq(Entry)] /\ count' \in [Process -> Nat] /\ needs' \in [Process -> BOOLEAN]
    <3>1. <<>> \in Seq(Entry)
      OBVIOUS
    <3> QED BY <1>21, <3>1 DEF UnlockActivation, Forget
  <2> QED BY <1>21, <2>2, <2>3 DEF UnlockActivation
<1>22. ASSUME NEW q \in Process, Crash(q) PROVE TypeOK'
  <2>1. q[2] \in Site
    BY ProcessFacts
  <2>2. owner' \in [Site -> Process \cup {None}] /\ raced' \in SUBSET Site
    BY <1>22, <2>1 DEF Crash, Release
  <2>3. rest' \in [Process -> Seq(Entry)] /\ count' \in [Process -> Nat] /\ needs' \in [Process -> BOOLEAN]
    <3>1. <<>> \in Seq(Entry)
      OBVIOUS
    <3> QED BY <1>22, <3>1 DEF Crash, Forget
  <2> QED BY <1>22, <2>2, <2>3 DEF Crash
<1>23. CASE UNCHANGED vars
  BY <1>23 DEF vars
<1> HIDE DEF TypeInv, TypeOK, ProcInv, Process, Entry, Idle, Alive, Working, Writing, uservars,
           filevars, sitevars, managervars, procvars
<1> QED BY <1>1, <1>2, <1>3, <1>4, <1>5, <1>6, <1>7, <1>8, <1>9, <1>10, <1>11, <1>12, <1>13,
           <1>14, <1>15, <1>16, <1>17, <1>18, <1>19, <1>20, <1>21, <1>22, <1>23
        DEF Next, Edit, Request, Manage, Step

\* and every process in its place.
LEMMA StepProc ==
  ASSUME TypeInv, [Next]_vars
  PROVE  ProcInv'
<1> USE DEF TypeInv, TypeOK, ProcInv, Process, Alive, Working, Writing, uservars, filevars,
          sitevars, managervars, procvars
<1>1. ASSUME NEW x \in Change, NEW sites \in Targets, NEW saved \in BOOLEAN, EditStart(x, sites,
             saved)
       PROVE  ProcInv'
  BY <1>1 DEF EditStart
<1>2. ASSUME NEW z \in Site, EditLog(z) PROVE ProcInv'
  BY <1>2 DEF EditLog, LogEntry
<1>3. CASE EditEnd
  BY <1>3 DEF EditEnd
<1>4. ASSUME NEW x \in Change, DiscardStart(x) PROVE ProcInv'
  BY <1>4 DEF DiscardStart
<1>5. ASSUME NEW z \in Site, DiscardLog(z) PROVE ProcInv'
  BY <1>5 DEF DiscardLog, LogEntry
<1>6. CASE DiscardExtract
  BY <1>6 DEF DiscardExtract
<1>7. CASE DiscardRestart
  BY <1>7 DEF DiscardRestart
<1>8. CASE DiscardFails
  BY <1>8 DEF DiscardFails
<1>9. ASSUME NEW z \in Site, DiscardClear(z) PROVE ProcInv'
  BY <1>9 DEF DiscardClear
<1>10. ASSUME NEW b \in Activation, NEW sites \in SUBSET Site, NEW transfer \in BOOLEAN, Load(b,
             sites, transfer)
       PROVE  ProcInv'
  BY <1>10 DEF Load
<1>11. ASSUME NEW b \in Activation, CreateSnapshots(b) PROVE ProcInv'
  BY <1>11 DEF CreateSnapshots
<1>12. ASSUME NEW b \in Activation, NEW z \in Site, Fork(b, z) PROVE ProcInv'
  BY <1>12 DEF Fork, ChangesTillActivation
<1>13. ASSUME NEW q \in Process, LockActivation(q) PROVE ProcInv'
  BY <1>13 DEF LockActivation
<1>14. ASSUME NEW q \in Process, NoSyncNeeded(q) PROVE ProcInv'
  BY <1>14 DEF NoSyncNeeded, Synchronized
<1>15. ASSUME NEW q \in Process, NEW effect \in BOOLEAN, NEW answer \in BOOLEAN,
             SynchronizeSite(q, effect, answer)
       PROVE  ProcInv'
  BY <1>15 DEF SynchronizeSite, Synchronized
<1>16. ASSUME NEW q \in Process, NoActivateNeeded(q) PROVE ProcInv'
  BY <1>16 DEF NoActivateNeeded
<1>17. ASSUME NEW q \in Process, NEW effect \in BOOLEAN, NEW answer \in BOOLEAN, DoActivate(q,
             effect, answer)
       PROVE  ProcInv'
  BY <1>17 DEF DoActivate
<1>18. ASSUME NEW q \in Process, ConfirmLoad(q) PROVE ProcInv'
  <2>1. pc' = [pc EXCEPT ![q] = "truncate"] /\ rest' = [rest EXCEPT ![q] = rest'[q]]
        /\ UNCHANGED <<manager, todo, prevent>> /\ pc[q] = "confirm"
    BY <1>18 DEF ConfirmLoad
  <2> QED BY <2>1
<1>19. ASSUME NEW q \in Process, Truncate(q) PROVE ProcInv'
  BY <1>19 DEF Truncate
<1>20. ASSUME NEW q \in Process, Rewrite(q) PROVE ProcInv'
  BY <1>20 DEF Rewrite, Release
<1>21. ASSUME NEW q \in Process, UnlockActivation(q) PROVE ProcInv'
  BY <1>21 DEF UnlockActivation, Release, Forget
<1>22. ASSUME NEW q \in Process, Crash(q) PROVE ProcInv'
  <2>1. /\ pc' = [pc EXCEPT ![q] = "done"] /\ rest' = [rest EXCEPT ![q] = <<>>]
        /\ UNCHANGED <<manager, todo, prevent>> /\ pc[q] \in Alive
    BY <1>22 DEF Crash, Forget
  <2>2. /\ pc[q] # "none"
        /\ \A p \in Process : p # q => pc'[p] = pc[p] /\ rest'[p] = rest[p]
        /\ pc'[q] = "done"
    BY <2>1
  <2> SUFFICES ASSUME NEW a \in Activation, NEW s \in Site
               PROVE  /\ manager[a] # "started" \/ s \in todo[a] => pc'[<<a, s>>] = "none"
                      /\ pc'[<<a, s>>] \in Writing => rest'[<<a, s>>] # <<>>
                      /\ s = Local /\ (s \in todo[a] \/ pc'[<<a, s>>] # "none") => ~prevent[a]
    <3>1. manager' = manager /\ todo' = todo /\ prevent' = prevent
      BY <2>1
    <3> HIDE DEF TypeInv, TypeOK, Process, Alive, Working, Writing
    <3> QED BY <3>1
  <2>3. pc[<<a, s>>] = "none" => pc'[<<a, s>>] = "none"
    BY <2>2
  <2>4. pc'[<<a, s>>] \in Writing => <<a, s>> # q
    BY <2>2
  <2>5. pc'[<<a, s>>] # "none" => pc[<<a, s>>] # "none"
    BY <2>2
  <2> QED BY <2>2, <2>3, <2>4, <2>5
<1>23. CASE UNCHANGED vars
  BY <1>23 DEF vars
<1> HIDE DEF TypeInv, TypeOK, ProcInv, Process, Alive, Working, Writing, uservars, filevars,
           sitevars, managervars, procvars
<1> QED BY <1>1, <1>2, <1>3, <1>4, <1>5, <1>6, <1>7, <1>8, <1>9, <1>10, <1>11, <1>12, <1>13,
           <1>14, <1>15, <1>16, <1>17, <1>18, <1>19, <1>20, <1>21, <1>22, <1>23
        DEF Next, Edit, Request, Manage, Step

\* and the snapshot of a discard,
LEMMA StepDiscard ==
  ASSUME TypeInv, [Next]_vars
  PROVE  DiscardInv'
<1> USE DEF TypeInv, DiscardInv, Discarding, Idle, uservars, filevars, sitevars, managervars,
          procvars
<1>1. ASSUME NEW x \in Change, NEW sites \in Targets, NEW saved \in BOOLEAN, EditStart(x, sites,
             saved)
       PROVE  DiscardInv'
  <2>1. editor'.op = "edit"
    BY <1>1 DEF EditStart
  <2> QED BY <2>1
<1>2. ASSUME NEW z \in Site, EditLog(z) PROVE DiscardInv'
  BY <1>2 DEF EditLog, LogEntry
<1>3. CASE EditEnd
  BY <1>3 DEF EditEnd
<1>4. ASSUME NEW x \in Change, DiscardStart(x) PROVE DiscardInv'
  BY <1>4 DEF DiscardStart
<1>5. ASSUME NEW z \in Site, DiscardLog(z) PROVE DiscardInv'
  BY <1>5 DEF DiscardLog, LogEntry
<1>6. CASE DiscardExtract
  BY <1>6 DEF DiscardExtract
<1>7. CASE DiscardRestart
  BY <1>7 DEF DiscardRestart
<1>8. CASE DiscardFails
  BY <1>8 DEF DiscardFails
<1>9. ASSUME NEW z \in Site, DiscardClear(z) PROVE DiscardInv'
  BY <1>9 DEF DiscardClear
<1>10. ASSUME NEW b \in Activation, NEW sites \in SUBSET Site, NEW transfer \in BOOLEAN, Load(b,
             sites, transfer)
       PROVE  DiscardInv'
  BY <1>10 DEF Load
<1>11. ASSUME NEW b \in Activation, CreateSnapshots(b) PROVE DiscardInv'
  <2>1. config \in SUBSET Change /\ backup' = config
    BY <1>11 DEF CreateSnapshots, TypeOK
  <2> QED BY <2>1
<1>12. ASSUME NEW b \in Activation, NEW z \in Site, Fork(b, z) PROVE DiscardInv'
  BY <1>12 DEF Fork, ChangesTillActivation
<1>13. ASSUME NEW q \in Process, LockActivation(q) PROVE DiscardInv'
  BY <1>13 DEF LockActivation
<1>14. ASSUME NEW q \in Process, NoSyncNeeded(q) PROVE DiscardInv'
  BY <1>14 DEF NoSyncNeeded, Synchronized
<1>15. ASSUME NEW q \in Process, NEW effect \in BOOLEAN, NEW answer \in BOOLEAN,
             SynchronizeSite(q, effect, answer)
       PROVE  DiscardInv'
  BY <1>15 DEF SynchronizeSite, Synchronized
<1>16. ASSUME NEW q \in Process, NoActivateNeeded(q) PROVE DiscardInv'
  BY <1>16 DEF NoActivateNeeded
<1>17. ASSUME NEW q \in Process, NEW effect \in BOOLEAN, NEW answer \in BOOLEAN, DoActivate(q,
             effect, answer)
       PROVE  DiscardInv'
  BY <1>17 DEF DoActivate
<1>18. ASSUME NEW q \in Process, ConfirmLoad(q) PROVE DiscardInv'
  BY <1>18 DEF ConfirmLoad, Unsynced, Remaining
<1>19. ASSUME NEW q \in Process, Truncate(q) PROVE DiscardInv'
  BY <1>19 DEF Truncate
<1>20. ASSUME NEW q \in Process, Rewrite(q) PROVE DiscardInv'
  BY <1>20 DEF Rewrite, Release
<1>21. ASSUME NEW q \in Process, UnlockActivation(q) PROVE DiscardInv'
  BY <1>21 DEF UnlockActivation, Release, Forget
<1>22. ASSUME NEW q \in Process, Crash(q) PROVE DiscardInv'
  BY <1>22 DEF Crash, Release, Forget
<1>23. CASE UNCHANGED vars
  BY <1>23 DEF vars
<1> HIDE DEF TypeInv, DiscardInv, Discarding, Idle, uservars, filevars, sitevars, managervars,
           procvars
<1> QED BY <1>1, <1>2, <1>3, <1>4, <1>5, <1>6, <1>7, <1>8, <1>9, <1>10, <1>11, <1>12, <1>13,
           <1>14, <1>15, <1>16, <1>17, <1>18, <1>19, <1>20, <1>21, <1>22, <1>23
        DEF Next, Edit, Request, Manage, Step

LEMMA StepTypeInv ==
  ASSUME TypeInv, [Next]_vars
  PROVE  TypeInv'
BY StepType, StepProc, StepDiscard DEF TypeInv

LEMMA SpecTypeInv == Spec => []TypeInv
<1>1. Init => TypeInv
  BY InitType
<1>2. TypeInv /\ [Next]_vars => TypeInv'
  BY StepTypeInv
<1> QED BY <1>1, <1>2, PTL DEF Spec

\* Every variable keeps its type (save, save_change, the activation process
\* and the GUI request all write records of the shape that the others read).
THEOREM ActivationTypeCorrect == Spec => []TypeOK
BY SpecTypeInv, PTL DEF TypeInv

\* Who is named as the owner of a lock believes to hold it.
LEMMA StepLock ==
  ASSUME TypeInv, LockHeld, [Next]_vars
  PROVE  LockHeld'
<1> USE DEF TypeInv, TypeOK, ProcInv, Process, LockHeld, Holding, Alive, Working, uservars,
          filevars, sitevars, managervars, procvars
<1>1. ASSUME NEW x \in Change, NEW sites \in Targets, NEW saved \in BOOLEAN, EditStart(x, sites,
             saved)
       PROVE  LockHeld'
  BY <1>1 DEF EditStart
<1>2. ASSUME NEW z \in Site, EditLog(z) PROVE LockHeld'
  BY <1>2 DEF EditLog, LogEntry
<1>3. CASE EditEnd
  BY <1>3 DEF EditEnd
<1>4. ASSUME NEW x \in Change, DiscardStart(x) PROVE LockHeld'
  BY <1>4 DEF DiscardStart
<1>5. ASSUME NEW z \in Site, DiscardLog(z) PROVE LockHeld'
  BY <1>5 DEF DiscardLog, LogEntry
<1>6. CASE DiscardExtract
  BY <1>6 DEF DiscardExtract
<1>7. CASE DiscardRestart
  BY <1>7 DEF DiscardRestart
<1>8. CASE DiscardFails
  BY <1>8 DEF DiscardFails
<1>9. ASSUME NEW z \in Site, DiscardClear(z) PROVE LockHeld'
  BY <1>9 DEF DiscardClear
<1>10. ASSUME NEW b \in Activation, NEW sites \in SUBSET Site, NEW transfer \in BOOLEAN, Load(b,
             sites, transfer)
       PROVE  LockHeld'
  BY <1>10 DEF Load
<1>11. ASSUME NEW b \in Activation, CreateSnapshots(b) PROVE LockHeld'
  BY <1>11 DEF CreateSnapshots
<1>12. ASSUME NEW b \in Activation, NEW z \in Site, Fork(b, z) PROVE LockHeld'
  BY <1>12 DEF Fork, ChangesTillActivation
<1>13. ASSUME NEW q \in Process, LockActivation(q) PROVE LockHeld'
  BY <1>13 DEF LockActivation
<1>14. ASSUME NEW q \in Process, NoSyncNeeded(q) PROVE LockHeld'
  BY <1>14 DEF NoSyncNeeded, Synchronized
<1>15. ASSUME NEW q \in Process, NEW effect \in BOOLEAN, NEW answer \in BOOLEAN,
             SynchronizeSite(q, effect, answer)
       PROVE  LockHeld'
  BY <1>15 DEF SynchronizeSite, Synchronized
<1>16. ASSUME NEW q \in Process, NoActivateNeeded(q) PROVE LockHeld'
  BY <1>16 DEF NoActivateNeeded
<1>17. ASSUME NEW q \in Process, NEW effect \in BOOLEAN, NEW answer \in BOOLEAN, DoActivate(q,
             effect, answer)
       PROVE  LockHeld'
  BY <1>17 DEF DoActivate
<1>18. ASSUME NEW q \in Process, ConfirmLoad(q) PROVE LockHeld'
  BY <1>18 DEF ConfirmLoad, Unsynced, Remaining
<1>19. ASSUME NEW q \in Process, Truncate(q) PROVE LockHeld'
  BY <1>19 DEF Truncate
<1>20. ASSUME NEW q \in Process, Rewrite(q) PROVE LockHeld'
  BY <1>20 DEF Rewrite, Release
<1>21. ASSUME NEW q \in Process, UnlockActivation(q) PROVE LockHeld'
  BY <1>21 DEF UnlockActivation, Release, Forget
<1>22. ASSUME NEW q \in Process, Crash(q) PROVE LockHeld'
  BY <1>22 DEF Crash, Release, Forget
<1>23. CASE UNCHANGED vars
  BY <1>23 DEF vars
<1> HIDE DEF TypeInv, TypeOK, ProcInv, Process, LockHeld, Holding, Alive, Working, uservars,
           filevars, sitevars, managervars, procvars
<1> QED BY <1>1, <1>2, <1>3, <1>4, <1>5, <1>6, <1>7, <1>8, <1>9, <1>10, <1>11, <1>12, <1>13,
           <1>14, <1>15, <1>16, <1>17, <1>18, <1>19, <1>20, <1>21, <1>22, <1>23
        DEF Next, Edit, Request, Manage, Step

\* Whatever happens to the file meanwhile, only a process of the site, in a
\* step in which it believes to hold the lock, is the owner: its end releases
\* the lock (SiteChanges.save, store.release_lock, discard's unlink).
THEOREM LockIsHeld == Spec => []LockHeld
<1>1. Init => LockHeld
  BY DEF Init, LockHeld
<1>2. TypeInv /\ LockHeld /\ [Next]_vars => LockHeld'
  BY StepLock
<1> QED BY <1>1, <1>2, SpecTypeInv, PTL DEF Spec

-----------------------------------------------------------------------------

\* A discard marks the sites that are activated when it begins, a process the
\* site that it is forked for during a discard.
LEMMA StepQuiet ==
  ASSUME TypeInv, QuietInv, [Next]_vars
  PROVE  QuietInv'
<1> USE DEF TypeInv, TypeOK, ProcInv, Process, QuietInv, Discarding, Busy, Working, Idle,
          uservars, filevars, sitevars, managervars, procvars
<1>1. ASSUME NEW x \in Change, NEW sites \in Targets, NEW saved \in BOOLEAN, EditStart(x, sites,
             saved)
       PROVE  QuietInv'
  BY <1>1 DEF EditStart
<1>2. ASSUME NEW z \in Site, EditLog(z) PROVE QuietInv'
  BY <1>2 DEF EditLog, LogEntry
<1>3. CASE EditEnd
  BY <1>3 DEF EditEnd
<1>4. ASSUME NEW x \in Change, DiscardStart(x) PROVE QuietInv'
  BY <1>4 DEF DiscardStart
<1>5. ASSUME NEW z \in Site, DiscardLog(z) PROVE QuietInv'
  BY <1>5 DEF DiscardLog, LogEntry
<1>6. CASE DiscardExtract
  BY <1>6 DEF DiscardExtract
<1>7. CASE DiscardRestart
  BY <1>7 DEF DiscardRestart
<1>8. CASE DiscardFails
  BY <1>8 DEF DiscardFails
<1>9. ASSUME NEW z \in Site, DiscardClear(z) PROVE QuietInv'
  BY <1>9 DEF DiscardClear
<1>10. ASSUME NEW b \in Activation, NEW sites \in SUBSET Site, NEW transfer \in BOOLEAN, Load(b,
             sites, transfer)
       PROVE  QuietInv'
  BY <1>10 DEF Load
<1>11. ASSUME NEW b \in Activation, CreateSnapshots(b) PROVE QuietInv'
  BY <1>11 DEF CreateSnapshots
<1>12. ASSUME NEW b \in Activation, NEW z \in Site, Fork(b, z) PROVE QuietInv'
  BY <1>12 DEF Fork, ChangesTillActivation
<1>13. ASSUME NEW q \in Process, LockActivation(q) PROVE QuietInv'
  BY <1>13 DEF LockActivation
<1>14. ASSUME NEW q \in Process, NoSyncNeeded(q) PROVE QuietInv'
  <2>1. /\ editor' = editor /\ raced \subseteq raced' /\ pc[q] \in Working
        /\ \A r \in Process : r # q => pc'[r] = pc[r]
    BY <1>14 DEF NoSyncNeeded
  <2> QED BY <2>1
<1>15. ASSUME NEW q \in Process, NEW effect \in BOOLEAN, NEW answer \in BOOLEAN,
             SynchronizeSite(q, effect, answer)
       PROVE  QuietInv'
  <2>1. /\ editor' = editor /\ raced \subseteq raced' /\ pc[q] \in Working
        /\ \A r \in Process : r # q => pc'[r] = pc[r]
    BY <1>15 DEF SynchronizeSite
  <2> QED BY <2>1
<1>16. ASSUME NEW q \in Process, NoActivateNeeded(q) PROVE QuietInv'
  <2>1. /\ editor' = editor /\ raced \subseteq raced' /\ pc[q] \in Working
        /\ \A r \in Process : r # q => pc'[r] = pc[r]
    BY <1>16 DEF NoActivateNeeded
  <2> QED BY <2>1
<1>17. ASSUME NEW q \in Process, NEW effect \in BOOLEAN, NEW answer \in BOOLEAN, DoActivate(q,
             effect, answer)
       PROVE  QuietInv'
  BY <1>17 DEF DoActivate
<1>18. ASSUME NEW q \in Process, ConfirmLoad(q) PROVE QuietInv'
  <2>1. /\ editor' = editor /\ raced \subseteq raced' /\ pc[q] \in Working
        /\ \A r \in Process : r # q => pc'[r] = pc[r]
    BY <1>18 DEF ConfirmLoad
  <2> QED BY <2>1
<1>19. ASSUME NEW q \in Process, Truncate(q) PROVE QuietInv'
  BY <1>19 DEF Truncate
<1>20. ASSUME NEW q \in Process, Rewrite(q) PROVE QuietInv'
  BY <1>20 DEF Rewrite, Release
<1>21. ASSUME NEW q \in Process, UnlockActivation(q) PROVE QuietInv'
  BY <1>21 DEF UnlockActivation, Release, Forget
<1>22. ASSUME NEW q \in Process, Crash(q) PROVE QuietInv'
  BY <1>22 DEF Crash, Release, Forget
<1>23. CASE UNCHANGED vars
  BY <1>23 DEF vars
<1> HIDE DEF TypeInv, TypeOK, ProcInv, Process, QuietInv, Discarding, Busy, Working, Idle,
           uservars, filevars, sitevars, managervars, procvars
<1> QED BY <1>1, <1>2, <1>3, <1>4, <1>5, <1>6, <1>7, <1>8, <1>9, <1>10, <1>11, <1>12, <1>13,
           <1>14, <1>15, <1>16, <1>17, <1>18, <1>19, <1>20, <1>21, <1>22, <1>23
        DEF Next, Edit, Request, Manage, Step

\* What a site gets was in a snapshot, and is saved.
LEMMA StepSnap ==
  ASSUME TypeInv, SnapInv, [Next]_vars
  PROVE  SnapInv'
<1> USE DEF TypeInv, TypeOK, ProcInv, Process, SnapInv, Saved, Idle, Discarding, uservars,
          filevars, sitevars, managervars, procvars
<1>1. ASSUME NEW x \in Change, NEW sites \in Targets, NEW saved \in BOOLEAN, EditStart(x, sites,
             saved)
       PROVE  SnapInv'
  BY <1>1 DEF EditStart
<1>2. ASSUME NEW z \in Site, EditLog(z) PROVE SnapInv'
  BY <1>2 DEF EditLog, LogEntry
<1>3. CASE EditEnd
  BY <1>3 DEF EditEnd
<1>4. ASSUME NEW x \in Change, DiscardStart(x) PROVE SnapInv'
  BY <1>4 DEF DiscardStart
<1>5. ASSUME NEW z \in Site, DiscardLog(z) PROVE SnapInv'
  BY <1>5 DEF DiscardLog, LogEntry
<1>6. CASE DiscardExtract
  BY <1>6 DEF DiscardExtract
<1>7. CASE DiscardRestart
  BY <1>7 DEF DiscardRestart
<1>8. CASE DiscardFails
  BY <1>8 DEF DiscardFails
<1>9. ASSUME NEW z \in Site, DiscardClear(z) PROVE SnapInv'
  BY <1>9 DEF DiscardClear
<1>10. ASSUME NEW b \in Activation, NEW sites \in SUBSET Site, NEW transfer \in BOOLEAN, Load(b,
             sites, transfer)
       PROVE  SnapInv'
  BY <1>10 DEF Load
<1>11. ASSUME NEW b \in Activation, CreateSnapshots(b) PROVE SnapInv'
  BY <1>11 DEF CreateSnapshots
<1>12. ASSUME NEW b \in Activation, NEW z \in Site, Fork(b, z) PROVE SnapInv'
  BY <1>12 DEF Fork, ChangesTillActivation
<1>13. ASSUME NEW q \in Process, LockActivation(q) PROVE SnapInv'
  BY <1>13 DEF LockActivation
<1>14. ASSUME NEW q \in Process, NoSyncNeeded(q) PROVE SnapInv'
  BY <1>14 DEF NoSyncNeeded, Synchronized
<1>15. ASSUME NEW q \in Process, NEW effect \in BOOLEAN, NEW answer \in BOOLEAN,
             SynchronizeSite(q, effect, answer)
       PROVE  SnapInv'
  BY <1>15 DEF SynchronizeSite, Synchronized
<1>16. ASSUME NEW q \in Process, NoActivateNeeded(q) PROVE SnapInv'
  BY <1>16 DEF NoActivateNeeded
<1>17. ASSUME NEW q \in Process, NEW effect \in BOOLEAN, NEW answer \in BOOLEAN, DoActivate(q,
             effect, answer)
       PROVE  SnapInv'
  BY <1>17 DEF DoActivate
<1>18. ASSUME NEW q \in Process, ConfirmLoad(q) PROVE SnapInv'
  BY <1>18 DEF ConfirmLoad, Unsynced, Remaining
<1>19. ASSUME NEW q \in Process, Truncate(q) PROVE SnapInv'
  BY <1>19 DEF Truncate
<1>20. ASSUME NEW q \in Process, Rewrite(q) PROVE SnapInv'
  BY <1>20 DEF Rewrite, Release
<1>21. ASSUME NEW q \in Process, UnlockActivation(q) PROVE SnapInv'
  BY <1>21 DEF UnlockActivation, Release, Forget
<1>22. ASSUME NEW q \in Process, Crash(q) PROVE SnapInv'
  BY <1>22 DEF Crash, Release, Forget
<1>23. CASE UNCHANGED vars
  BY <1>23 DEF vars
<1> HIDE DEF TypeInv, TypeOK, ProcInv, Process, SnapInv, Saved, Idle, Discarding, uservars,
           filevars, sitevars, managervars, procvars
<1> QED BY <1>1, <1>2, <1>3, <1>4, <1>5, <1>6, <1>7, <1>8, <1>9, <1>10, <1>11, <1>12, <1>13,
           <1>14, <1>15, <1>16, <1>17, <1>18, <1>19, <1>20, <1>21, <1>22, <1>23
        DEF Next, Edit, Request, Manage, Step

\* The central site runs its configuration, or a change is pending.
LEMMA StepLeft ==
  ASSUME TypeInv, QuietInv, LeftInv, [Next]_vars
  PROVE  LeftInv'
<1> USE DEF TypeInv, ProcInv, LeftInv, Process, Idle, uservars, filevars, sitevars, managervars,
          procvars
<1>1. ASSUME NEW x \in Change, NEW sites \in Targets, NEW saved \in BOOLEAN, EditStart(x, sites,
             saved)
       PROVE  LeftInv'
  BY <1>1 DEF EditStart
<1>2. ASSUME NEW z \in Site, EditLog(z) PROVE LeftInv'
  BY <1>2 DEF EditLog, LogEntry
<1>3. CASE EditEnd
  BY <1>3 DEF EditEnd
<1>4. ASSUME NEW x \in Change, DiscardStart(x) PROVE LeftInv'
  BY <1>4 DEF DiscardStart
<1>5. ASSUME NEW z \in Site, DiscardLog(z) PROVE LeftInv'
  <2>1. [id |-> editor.id, sync |-> TRUE] \in Entry
    BY <1>5, EditorFacts DEF DiscardLog, Entry
  <2>2. Local \in Site => changes[Local] \in Seq(Entry)
    BY DEF TypeOK
  <2>3. /\ changes' = [changes EXCEPT ![z] = Append(@, [id |-> editor.id, sync |-> TRUE])]
        /\ \A s \in Site : changes'[s] = IF s = z THEN Append(changes[s], [id |-> editor.id, sync |-> TRUE])
                                                  ELSE changes[s]
    BY <1>5 DEF DiscardLog, LogEntry, TypeOK
  <2>4. Local \in Site => changes'[Local] # <<>> \/ (changes'[Local] = changes[Local] /\ z # Local)
    <3>1. \A s \in Seq(Entry), e \in Entry : Append(s, e) # <<>>
      OBVIOUS
    <3> QED BY <2>1, <2>2, <2>3, <3>1
  <2>5. editor.op = "discard" /\ editor.left \in SUBSET Site /\ editor'.op = "discard"
        /\ editor'.left = editor.left \ {z}
    BY <1>5, EditorFacts DEF DiscardLog
  <2>6. UNCHANGED <<config, running, pc, count, raced>>
    BY <1>5 DEF DiscardLog
  <2> QED BY <2>4, <2>5, <2>6
<1>6. CASE DiscardExtract
  <2>1. \A a \in Activation : Local \in Site \ raced => pc[<<a, Local>>] \notin Working
    BY <1>6 DEF QuietInv, Busy, DiscardExtract, Discarding
  <2>2. /\ editor.op = "discard" /\ editor.left = {} /\ editor'.op = "restart"
        /\ UNCHANGED <<changes, running, pc, count, raced>>
    BY <1>6, EditorFacts DEF DiscardExtract
  <2> QED BY <2>1, <2>2 DEF Working
<1>7. CASE DiscardRestart
  <2>1. /\ editor.op = "restart" /\ editor'.op = "clear"
        /\ UNCHANGED <<config, changes, pc, count, raced>>
    BY <1>7, EditorFacts DEF DiscardRestart
  <2>2. Local \in Site => running'[Local] = config
    BY <1>7 DEF DiscardRestart, TypeOK
  <2> QED BY <2>1, <2>2
<1>8. CASE DiscardFails
  BY <1>8 DEF DiscardFails
<1>9. ASSUME NEW z \in Site, DiscardClear(z) PROVE LeftInv'
  BY <1>9 DEF DiscardClear
<1>10. ASSUME NEW b \in Activation, NEW sites \in SUBSET Site, NEW transfer \in BOOLEAN, Load(b,
             sites, transfer)
       PROVE  LeftInv'
  BY <1>10 DEF Load
<1>11. ASSUME NEW b \in Activation, CreateSnapshots(b) PROVE LeftInv'
  BY <1>11 DEF CreateSnapshots
<1>12. ASSUME NEW b \in Activation, NEW z \in Site, Fork(b, z) PROVE LeftInv'
  <2>1. /\ UNCHANGED <<config, editor, changes, running>> /\ raced \subseteq raced'
        /\ \A r \in Process : r # <<b, z>> => pc'[r] = pc[r] /\ count'[r] = count[r]
    BY <1>12 DEF Fork
  <2>2. /\ pc'[<<b, z>>] = "ready" /\ count'[<<b, z>>] = Len(changes[z])
    BY <1>12 DEF Fork, ChangesTillActivation, TypeOK
  <2>3. changes[z] # <<>> => Len(changes[z]) > 0
    <3>1. changes[z] \in Seq(Entry)
      BY DEF TypeOK
    <3> QED BY <3>1
  <2> QED BY <2>1, <2>2, <2>3
<1>13. ASSUME NEW q \in Process, LockActivation(q) PROVE LeftInv'
  BY <1>13 DEF LockActivation
<1>14. ASSUME NEW q \in Process, NoSyncNeeded(q) PROVE LeftInv'
  BY <1>14 DEF NoSyncNeeded, Synchronized
<1>15. ASSUME NEW q \in Process, NEW effect \in BOOLEAN, NEW answer \in BOOLEAN,
             SynchronizeSite(q, effect, answer)
       PROVE  LeftInv'
  BY <1>15 DEF SynchronizeSite, Synchronized
<1>16. ASSUME NEW q \in Process, NoActivateNeeded(q) PROVE LeftInv'
  BY <1>16 DEF NoActivateNeeded
<1>17. ASSUME NEW q \in Process, NEW effect \in BOOLEAN, NEW answer \in BOOLEAN, DoActivate(q,
             effect, answer)
       PROVE  LeftInv'
  <2>1. /\ UNCHANGED <<config, editor, changes, count>> /\ raced \subseteq raced'
        /\ \A r \in Process : r # q => pc'[r] = pc[r]
    BY <1>17 DEF DoActivate
  <2>2. /\ pc[q] = "activate" /\ pc'[q] \in {"confirm", "unlock"}
        /\ pc'[q] = "confirm" => effect
    BY <1>17 DEF DoActivate, TypeOK
  <2>3. Local \in Site => running'[Local] = running[Local] \/ running'[Local] = config
    BY <1>17, ProcessFacts DEF DoActivate, TypeOK
  <2>4. q[2] = Local /\ effect /\ Local \in Site => running'[Local] = config
    BY <1>17 DEF DoActivate, TypeOK
  <2> QED BY <2>1, <2>2, <2>3, <2>4
<1>18. ASSUME NEW q \in Process, ConfirmLoad(q) PROVE LeftInv'
  BY <1>18 DEF ConfirmLoad, Unsynced, Remaining
<1>19. ASSUME NEW q \in Process, Truncate(q) PROVE LeftInv'
  <2>1. /\ UNCHANGED <<config, editor, running, count, raced>> /\ pc[q] = "truncate"
        /\ \A r \in Process : r # q => pc'[r] = pc[r]
    BY <1>19 DEF Truncate
  <2>2. pc'[q] \in {"rewrite", "unlock"}
    BY <1>19 DEF Truncate, TypeOK
  <2>3. \A s \in Site : s # q[2] => changes'[s] = changes[s]
    BY <1>19 DEF Truncate, TypeOK
  <2>4. q[2] = Local /\ Local \in Site \ raced => ~Discarding
    BY <1>19 DEF Truncate, QuietInv, Busy, Working
  <2> QED BY <2>1, <2>2, <2>3, <2>4 DEF Discarding
<1>20. ASSUME NEW q \in Process, Rewrite(q) PROVE LeftInv'
  <2>1. /\ UNCHANGED <<config, editor, running, count, raced>> /\ pc[q] \in Writing
        /\ \A r \in Process : r # q => pc'[r] = pc[r]
    BY <1>20 DEF Rewrite, Writing
  <2>2. pc'[q] \in {"append", "unlock"}
    BY <1>20 DEF Rewrite, TypeOK
  <2>3. \A s \in Site : s # q[2] => changes'[s] = changes[s]
    BY <1>20 DEF Rewrite, TypeOK
  <2>4. q[2] = Local /\ Local \in Site \ raced => ~Discarding
    BY <2>1 DEF QuietInv, Busy, Working, Writing
  <2> QED BY <2>1, <2>2, <2>3, <2>4 DEF Discarding, Writing
<1>21. ASSUME NEW q \in Process, UnlockActivation(q) PROVE LeftInv'
  BY <1>21 DEF UnlockActivation, Release, Forget
<1>22. ASSUME NEW q \in Process, Crash(q) PROVE LeftInv'
  <2>1. /\ UNCHANGED <<config, editor, running, changes>> /\ raced \subseteq raced'
        /\ \A r \in Process : r # q => pc'[r] = pc[r] /\ count'[r] = count[r]
    BY <1>22 DEF Crash, Forget
  <2>2. pc'[q] = "done"
    BY <1>22 DEF Crash, TypeOK
  <2> QED BY <2>1, <2>2
<1>23. CASE UNCHANGED vars
  BY <1>23 DEF vars
<1> HIDE DEF TypeInv, ProcInv, LeftInv, Process, Idle, uservars, filevars, sitevars,
           managervars, procvars
<1> QED BY <1>1, <1>2, <1>3, <1>4, <1>5, <1>6, <1>7, <1>8, <1>9, <1>10, <1>11, <1>12, <1>13,
           <1>14, <1>15, <1>16, <1>17, <1>18, <1>19, <1>20, <1>21, <1>22, <1>23
        DEF Next, Edit, Request, Manage, Step

-----------------------------------------------------------------------------
\* What the steps that change the file do to the pending changes.
LEMMA EmptyFacts == Ids(<<>>) = {} /\ ToSync(<<>>) = {} /\ InSync(<<>>) = {}
<1>1. DOMAIN <<>> = {}
  OBVIOUS
<1> QED BY <1>1 DEF Ids, ToSync, InSync

LEMMA LogEffect ==
  ASSUME TypeOK, NEW s \in Site, NEW c \in Change, LogEntry(s, c)
  PROVE  /\ owner[s] = None /\ owner' = owner
         /\ \A t \in Site : t # s => changes'[t] = changes[t]
         /\ changes[s] \in Seq(Entry)
         /\ Len(changes[s]) \in Nat /\ Len(changes'[s]) = Len(changes[s]) + 1
         /\ \A i \in 1..Len(changes[s]) : changes'[s][i] = changes[s][i]
         /\ changes'[s][Len(changes[s]) + 1].sync /\ changes'[s][Len(changes[s]) + 1].id = c
         /\ Ids(changes'[s]) = Ids(changes[s]) \cup {c}
         /\ InSync(changes'[s]) \subseteq InSync(changes[s])
         /\ ToSync(changes[s]) \subseteq ToSync(changes'[s]) /\ c \in ToSync(changes'[s])
<1> DEFINE e == [id |-> c, sync |-> TRUE]
<1>1. e \in Entry /\ e.id = c /\ e.sync
  BY DEF Entry
<1>2. changes[s] \in Seq(Entry)
  BY DEF TypeOK
<1>3. /\ owner[s] = None /\ owner' = owner
      /\ changes'[s] = Append(changes[s], e)
      /\ \A t \in Site : t # s => changes'[t] = changes[t]
  BY DEF LogEntry, TypeOK
<1>4. Len(changes[s]) \in Nat
  BY <1>2
<1> HIDE DEF e
<1> QED BY <1>1, <1>2, <1>3, <1>4, AppendFacts

LEMMA TakenFacts ==
  ASSUME TypeOK, NEW p \in Process, count[p] <= Len(changes[p[2]])
  PROVE  /\ Ids(changes[p[2]]) = Taken(p) \cup Later(p)
         /\ (\A i \in (count[p] + 1)..Len(changes[p[2]]) : changes[p[2]][i].sync) =>
               InSync(changes[p[2]]) \subseteq Taken(p) /\ Later(p) \subseteq ToSync(changes[p[2]])
         /\ (\A i \in 1..count[p] : ~changes[p[2]][i].sync) =>
               Taken(p) \subseteq InSync(changes[p[2]]) /\ ToSync(changes[p[2]]) \subseteq Later(p)
         /\ count[p] = 0 => Taken(p) = {}
<1> DEFINE q == changes[p[2]]
           n == count[p]
<1>1. q \in Seq(Entry) /\ n \in Nat /\ Len(q) \in Nat /\ DOMAIN q = 1..Len(q) /\ n <= Len(q)
  BY ProcessFacts DEF TypeOK
<1>2. /\ \A i \in DOMAIN q : i \in 1..n \/ i \in (n + 1)..Len(q)
      /\ 1..n \subseteq DOMAIN q /\ (n + 1)..Len(q) \subseteq DOMAIN q
      /\ n = 0 => 1..n = {}
  BY <1>1
<1> HIDE DEF q, n
<1>3. /\ Taken(p) = {q[i].id : i \in 1..n} /\ Later(p) = {q[i].id : i \in (n + 1)..Len(q)}
  BY DEF Taken, Later, q, n
<1>4. Ids(q) = {q[i].id : i \in 1..n} \cup {q[i].id : i \in (n + 1)..Len(q)}
  BY <1>2 DEF Ids
<1>5. (\A i \in (n + 1)..Len(q) : q[i].sync) =>
         /\ InSync(q) \subseteq {q[i].id : i \in 1..n}
         /\ {q[i].id : i \in (n + 1)..Len(q)} \subseteq ToSync(q)
  BY <1>2 DEF InSync, ToSync
<1>6. (\A i \in 1..n : ~q[i].sync) =>
         /\ {q[i].id : i \in 1..n} \subseteq InSync(q)
         /\ ToSync(q) \subseteq {q[i].id : i \in (n + 1)..Len(q)}
  BY <1>2 DEF InSync, ToSync
<1>7. n = 0 => {q[i].id : i \in 1..n} = {}
  BY <1>2
<1> QED BY <1>3, <1>4, <1>5, <1>6, <1>7 DEF q, n

LEMMA LogTaken ==
  ASSUME TypeOK, NEW s \in Site, NEW c \in Change, LogEntry(s, c), count' = count,
         NEW p \in Process, p[2] = s => count[p] <= Len(changes[s])
  PROVE  /\ Taken(p)' = Taken(p) /\ Later(p) \subseteq Later(p)'
         /\ p[2] = s => c \in Later(p)'
<1>1. CASE p[2] # s
  <2>1. changes'[p[2]] = changes[p[2]]
    BY <1>1, LogEffect, ProcessFacts
  <2> QED BY <1>1, <2>1 DEF Taken, Later
<1>2. CASE p[2] = s
  <2> DEFINE q == changes[s]
             r == changes'[s]
             n == count[p]
  <2>1. /\ Len(q) \in Nat /\ Len(r) = Len(q) + 1 /\ \A i \in 1..Len(q) : r[i] = q[i]
        /\ r[Len(q) + 1].id = c
    BY LogEffect
  <2>2. n \in Nat /\ n <= Len(q)
    BY <1>2 DEF TypeOK
  <2> HIDE DEF q, r, n
  <2>3. \A i \in 1..n : r[i] = q[i]
    BY <2>1, <2>2
  <2>4. \A i \in (n + 1)..Len(q) : i \in (n + 1)..Len(r) /\ r[i] = q[i]
    BY <2>1, <2>2
  <2>7. Len(q) + 1 \in (n + 1)..Len(r)
    BY <2>1, <2>2
  <2>5. /\ {r[i].id : i \in 1..n} = {q[i].id : i \in 1..n}
        /\ {q[i].id : i \in (n + 1)..Len(q)} \subseteq {r[i].id : i \in (n + 1)..Len(r)}
    BY <2>3, <2>4
  <2>6. /\ Taken(p) = {q[i].id : i \in 1..n} /\ Taken(p)' = {r[i].id : i \in 1..n}
        /\ Later(p) = {q[i].id : i \in (n + 1)..Len(q)}
        /\ Later(p)' = {r[i].id : i \in (n + 1)..Len(r)}
    BY <1>2 DEF Taken, Later, q, r, n
  <2> QED BY <2>1, <2>5, <2>6, <2>7
<1> QED BY <1>1, <1>2

LEMMA ConfirmEffect ==
  ASSUME TypeOK, NEW q \in Process, ConfirmLoad(q)
  PROVE  /\ pc[q] = "confirm" /\ pc'[q] = "truncate"
         /\ owner[q[2]] = None /\ owner'[q[2]] = q
         /\ \A s \in Site : s # q[2] => owner'[s] = owner[s]
         /\ \A r \in Process : r # q => pc'[r] = pc[r] /\ rest'[r] = rest[r]
         /\ raced \subseteq raced'
         /\ Ids(rest'[q]) \subseteq Ids(changes[q[2]])
         /\ ~prevent[q[1]] =>
               /\ Ids(rest'[q]) = Later(q)
               /\ (\A i \in (count[q] + 1)..Len(changes[q[2]]) : changes[q[2]][i].sync) =>
                     InSync(rest'[q]) = {} /\ ToSync(rest'[q]) = Later(q)
         /\ prevent[q[1]] =>
               /\ Ids(rest'[q]) = Ids(changes[q[2]])
               /\ q[2] \notin raced' => Later(q) = {}
<1> DEFINE s == q[2]
<1>1. s \in Site /\ changes[s] \in Seq(Entry) /\ Len(changes[s]) \in Nat /\ count[q] \in Nat
  BY ProcessFacts DEF TypeOK
<1>2. /\ pc[q] = "confirm" /\ pc'[q] = "truncate" /\ owner[s] = None /\ owner'[s] = q
      /\ \A t \in Site : t # s => owner'[t] = owner[t]
      /\ \A r \in Process : r # q => pc'[r] = pc[r] /\ rest'[r] = rest[r]
      /\ raced \subseteq raced'
      /\ rest'[q] = IF prevent[q[1]] THEN Unsynced(s) ELSE Remaining(q)
  BY <1>1 DEF ConfirmLoad, TypeOK
<1>3. prevent[q[1]] /\ s \notin raced' => Later(q) = {}
  <2>1. prevent[q[1]] /\ s \notin raced' => ~(Len(changes[s]) > count[q])
    BY DEF ConfirmLoad
  <2>2. prevent[q[1]] /\ s \notin raced' => (count[q] + 1)..Len(changes[s]) = {}
    BY <1>1, <2>1
  <2> QED BY <2>2 DEF Later
<1>4. Later(q) \subseteq Ids(changes[s])
  <2>1. \A i \in (count[q] + 1)..Len(changes[s]) : i \in DOMAIN changes[s]
    BY <1>1
  <2> QED BY <2>1 DEF Later, Ids
<1>5. /\ Ids(Remaining(q)) = Later(q)
      /\ (\A i \in (count[q] + 1)..Len(changes[s]) : changes[s][i].sync) =>
            InSync(Remaining(q)) = {} /\ ToSync(Remaining(q)) = Later(q)
  BY <1>1, SubSeqFacts DEF Remaining, Later
<1>6. Ids(Unsynced(s)) = Ids(changes[s])
  BY <1>1, UnsyncedFacts
<1> HIDE DEF s
<1>7. CASE prevent[q[1]]
  BY <1>2, <1>3, <1>6, <1>7 DEF s
<1>8. CASE ~prevent[q[1]]
  BY <1>2, <1>4, <1>5, <1>8 DEF s
<1> QED BY <1>7, <1>8

LEMMA RewriteEffect ==
  ASSUME TypeInv, NEW q \in Process, Rewrite(q)
  PROVE  /\ pc[q] \in Writing /\ pc'[q] \in {"append", "unlock"}
         /\ pc[q] = "append" => owner[q[2]] = None
         /\ \A r \in Process : r # q => pc'[r] = pc[r] /\ rest'[r] = rest[r]
         /\ \A s \in Site : s # q[2] => changes'[s] = changes[s] /\ owner'[s] = owner[s]
         /\ Ids(changes'[q[2]]) \cup Ids(rest'[q]) = Ids(changes[q[2]]) \cup Ids(rest[q])
         /\ Ids(changes[q[2]]) \subseteq Ids(changes'[q[2]])
         /\ ToSync(changes[q[2]]) \cup ToSync(rest[q]) \subseteq
               ToSync(changes'[q[2]]) \cup ToSync(rest'[q])
         /\ ToSync(changes[q[2]]) \subseteq ToSync(changes'[q[2]])
         /\ InSync(changes'[q[2]]) \subseteq InSync(changes[q[2]]) \cup InSync(rest[q])
         /\ InSync(rest'[q]) \subseteq InSync(rest[q])
         /\ pc'[q] = "unlock" => Ids(rest'[q]) = {} /\ ToSync(rest'[q]) = {}
<1> DEFINE s == q[2]
           h == Head(rest[q])
           t == Tail(rest[q])
<1>1. s \in Site /\ changes[s] \in Seq(Entry) /\ rest[q] \in Seq(Entry) /\ rest[q] # <<>>
  BY ProcessFacts DEF TypeInv, TypeOK, ProcInv, Rewrite, Writing
<1>2. h \in Entry /\ t \in Seq(Entry)
  BY <1>1, TailFacts
<1> HIDE DEF h, t
<1>3. /\ pc[q] \in Writing /\ pc'[q] \in {"append", "unlock"}
      /\ pc[q] = "append" => owner[s] = None
      /\ \A r \in Process : r # q => pc'[r] = pc[r] /\ rest'[r] = rest[r]
      /\ \A u \in Site : u # s => changes'[u] = changes[u] /\ owner'[u] = owner[u]
      /\ changes'[s] = Append(changes[s], h) /\ rest'[q] = t
      /\ pc'[q] = "unlock" => t = <<>>
  BY <1>1 DEF Rewrite, Release, TypeInv, TypeOK, Writing, h, t
<1>4. /\ Ids(Append(changes[s], h)) = Ids(changes[s]) \cup {h.id}
      /\ InSync(Append(changes[s], h)) \subseteq InSync(changes[s]) \cup {h.id}
      /\ h.sync => InSync(Append(changes[s], h)) \subseteq InSync(changes[s])
      /\ h.sync => h.id \in ToSync(Append(changes[s], h))
      /\ ToSync(changes[s]) \subseteq ToSync(Append(changes[s], h))
  BY <1>1, <1>2, AppendFacts
<1>5. /\ Ids(rest[q]) = {h.id} \cup Ids(t)
      /\ ToSync(rest[q]) \subseteq ToSync(t) \cup {c \in {h.id} : h.sync}
      /\ InSync(t) \subseteq InSync(rest[q])
      /\ ~h.sync => h.id \in InSync(rest[q])
  BY <1>1, TailFacts DEF h, t
<1> HIDE DEF s
<1> QED BY <1>3, <1>4, <1>5, EmptyFacts DEF s

-----------------------------------------------------------------------------

\* A second process of a site marks it.
LEMMA StepAlone ==
  ASSUME TypeInv, AloneInv, [Next]_vars
  PROVE  AloneInv'
<1> USE DEF TypeInv, TypeOK, ProcInv, Process, AloneInv, Working, Busy, uservars, filevars,
          sitevars, managervars, procvars
<1>1. ASSUME NEW x \in Change, NEW sites \in Targets, NEW saved \in BOOLEAN, EditStart(x, sites,
             saved)
       PROVE  AloneInv'
  BY <1>1 DEF EditStart
<1>2. ASSUME NEW z \in Site, EditLog(z) PROVE AloneInv'
  BY <1>2 DEF EditLog, LogEntry
<1>3. CASE EditEnd
  BY <1>3 DEF EditEnd
<1>4. ASSUME NEW x \in Change, DiscardStart(x) PROVE AloneInv'
  BY <1>4 DEF DiscardStart
<1>5. ASSUME NEW z \in Site, DiscardLog(z) PROVE AloneInv'
  BY <1>5 DEF DiscardLog, LogEntry
<1>6. CASE DiscardExtract
  BY <1>6 DEF DiscardExtract
<1>7. CASE DiscardRestart
  BY <1>7 DEF DiscardRestart
<1>8. CASE DiscardFails
  BY <1>8 DEF DiscardFails
<1>9. ASSUME NEW z \in Site, DiscardClear(z) PROVE AloneInv'
  BY <1>9 DEF DiscardClear
<1>10. ASSUME NEW b \in Activation, NEW sites \in SUBSET Site, NEW transfer \in BOOLEAN, Load(b,
             sites, transfer)
       PROVE  AloneInv'
  BY <1>10 DEF Load
<1>11. ASSUME NEW b \in Activation, CreateSnapshots(b) PROVE AloneInv'
  BY <1>11 DEF CreateSnapshots
<1>12. ASSUME NEW b \in Activation, NEW z \in Site, Fork(b, z) PROVE AloneInv'
  BY <1>12 DEF Fork, ChangesTillActivation
<1>13. ASSUME NEW q \in Process, LockActivation(q) PROVE AloneInv'
  BY <1>13 DEF LockActivation
<1>14. ASSUME NEW q \in Process, NoSyncNeeded(q) PROVE AloneInv'
  BY <1>14 DEF NoSyncNeeded, Synchronized
<1>15. ASSUME NEW q \in Process, NEW effect \in BOOLEAN, NEW answer \in BOOLEAN,
             SynchronizeSite(q, effect, answer)
       PROVE  AloneInv'
  BY <1>15 DEF SynchronizeSite, Synchronized
<1>16. ASSUME NEW q \in Process, NoActivateNeeded(q) PROVE AloneInv'
  BY <1>16 DEF NoActivateNeeded
<1>17. ASSUME NEW q \in Process, NEW effect \in BOOLEAN, NEW answer \in BOOLEAN, DoActivate(q,
             effect, answer)
       PROVE  AloneInv'
  BY <1>17 DEF DoActivate
<1>18. ASSUME NEW q \in Process, ConfirmLoad(q) PROVE AloneInv'
  BY <1>18 DEF ConfirmLoad, Unsynced, Remaining
<1>19. ASSUME NEW q \in Process, Truncate(q) PROVE AloneInv'
  BY <1>19 DEF Truncate
<1>20. ASSUME NEW q \in Process, Rewrite(q) PROVE AloneInv'
  BY <1>20 DEF Rewrite, Release
<1>21. ASSUME NEW q \in Process, UnlockActivation(q) PROVE AloneInv'
  BY <1>21 DEF UnlockActivation, Release, Forget
<1>22. ASSUME NEW q \in Process, Crash(q) PROVE AloneInv'
  BY <1>22 DEF Crash, Release, Forget
<1>23. CASE UNCHANGED vars
  BY <1>23 DEF vars
<1> HIDE DEF TypeInv, TypeOK, ProcInv, Process, AloneInv, Working, Busy, uservars, filevars,
           sitevars, managervars, procvars
<1> QED BY <1>1, <1>2, <1>3, <1>4, <1>5, <1>6, <1>7, <1>8, <1>9, <1>10, <1>11, <1>12, <1>13,
           <1>14, <1>15, <1>16, <1>17, <1>18, <1>19, <1>20, <1>21, <1>22, <1>23
        DEF Next, Edit, Request, Manage, Step

\* The lock stays with a process until it gives it back.
LEMMA StepOwn ==
  ASSUME TypeInv, QuietInv, AloneInv, OwnInv, [Next]_vars
  PROVE  OwnInv'
<1> USE DEF TypeInv, TypeOK, ProcInv, Process, OwnInv, uservars, filevars, sitevars,
          managervars, procvars
<1>1. ASSUME NEW x \in Change, NEW sites \in Targets, NEW saved \in BOOLEAN, EditStart(x, sites,
             saved)
       PROVE  OwnInv'
  BY <1>1 DEF EditStart
<1>2. ASSUME NEW z \in Site, EditLog(z) PROVE OwnInv'
  BY <1>2 DEF EditLog, LogEntry
<1>3. CASE EditEnd
  BY <1>3 DEF EditEnd
<1>4. ASSUME NEW x \in Change, DiscardStart(x) PROVE OwnInv'
  BY <1>4 DEF DiscardStart
<1>5. ASSUME NEW z \in Site, DiscardLog(z) PROVE OwnInv'
  BY <1>5 DEF DiscardLog, LogEntry
<1>6. CASE DiscardExtract
  BY <1>6 DEF DiscardExtract
<1>7. CASE DiscardRestart
  BY <1>7 DEF DiscardRestart
<1>8. CASE DiscardFails
  BY <1>8 DEF DiscardFails
<1>9. ASSUME NEW z \in Site, DiscardClear(z) PROVE OwnInv'
  <2>1. /\ \A s \in Site : s # z => owner'[s] = owner[s]
        /\ pc' = pc /\ raced \subseteq raced'
    BY <1>9 DEF DiscardClear
  <2>2. z \notin raced => \A a \in Activation : pc[<<a, z>>] \notin Working
    BY <1>9 DEF DiscardClear, QuietInv, Busy, Discarding
  <2>3. ASSUME NEW s \in Site \ raced, NEW a \in Activation, pc[<<a, s>>] \in {"truncate", "rewrite"}
        PROVE  s # z
    BY <2>2, <2>3 DEF Working
  <2> HIDE DEF TypeOK
  <2> QED BY <2>1, <2>3
<1>10. ASSUME NEW b \in Activation, NEW sites \in SUBSET Site, NEW transfer \in BOOLEAN, Load(b,
             sites, transfer)
       PROVE  OwnInv'
  BY <1>10 DEF Load
<1>11. ASSUME NEW b \in Activation, CreateSnapshots(b) PROVE OwnInv'
  BY <1>11 DEF CreateSnapshots
<1>12. ASSUME NEW b \in Activation, NEW z \in Site, Fork(b, z) PROVE OwnInv'
  BY <1>12 DEF Fork, ChangesTillActivation
<1>13. ASSUME NEW q \in Process, LockActivation(q) PROVE OwnInv'
  BY <1>13 DEF LockActivation
<1>14. ASSUME NEW q \in Process, NoSyncNeeded(q) PROVE OwnInv'
  BY <1>14 DEF NoSyncNeeded, Synchronized
<1>15. ASSUME NEW q \in Process, NEW effect \in BOOLEAN, NEW answer \in BOOLEAN,
             SynchronizeSite(q, effect, answer)
       PROVE  OwnInv'
  BY <1>15 DEF SynchronizeSite, Synchronized
<1>16. ASSUME NEW q \in Process, NoActivateNeeded(q) PROVE OwnInv'
  BY <1>16 DEF NoActivateNeeded
<1>17. ASSUME NEW q \in Process, NEW effect \in BOOLEAN, NEW answer \in BOOLEAN, DoActivate(q,
             effect, answer)
       PROVE  OwnInv'
  BY <1>17 DEF DoActivate
<1>18. ASSUME NEW q \in Process, ConfirmLoad(q) PROVE OwnInv'
  <2>1. /\ owner[q[2]] = None /\ owner'[q[2]] = q /\ raced \subseteq raced'
        /\ \A s \in Site : s # q[2] => owner'[s] = owner[s]
        /\ \A r \in Process : r # q => pc'[r] = pc[r]
    BY <1>18, ConfirmEffect
  <2>2. \A r \in Process : r # None
    BY DEF Process
  <2> HIDE DEF TypeOK, Process
  <2> SUFFICES ASSUME NEW s \in Site \ raced, NEW a \in Activation,
                      pc'[<<a, s>>] \in {"truncate", "rewrite"}
               PROVE  owner'[s] = <<a, s>>
    BY <2>1
  <2>3. <<a, s>> \in Process
    BY DEF Process
  <2>4. CASE <<a, s>> = q
    BY <2>1, <2>4
  <2>5. CASE <<a, s>> # q
    <3>1. owner[s] = <<a, s>>
      BY <2>1, <2>3, <2>5
    <3> QED BY <2>1, <2>2, <2>3, <3>1
  <2> QED BY <2>4, <2>5
<1>19. ASSUME NEW q \in Process, Truncate(q) PROVE OwnInv'
  BY <1>19 DEF Truncate
<1>20. ASSUME NEW q \in Process, Rewrite(q) PROVE OwnInv'
  BY <1>20 DEF Rewrite, Release
<1>21. ASSUME NEW q \in Process, UnlockActivation(q) PROVE OwnInv'
  BY <1>21 DEF UnlockActivation, Release, Forget
<1>22. ASSUME NEW q \in Process, Crash(q) PROVE OwnInv'
  BY <1>22 DEF Crash, Release, Forget
<1>23. CASE UNCHANGED vars
  BY <1>23 DEF vars
<1> HIDE DEF TypeInv, TypeOK, ProcInv, Process, OwnInv, uservars, filevars, sitevars,
           managervars, procvars
<1> QED BY <1>1, <1>2, <1>3, <1>4, <1>5, <1>6, <1>7, <1>8, <1>9, <1>10, <1>11, <1>12, <1>13,
           <1>14, <1>15, <1>16, <1>17, <1>18, <1>19, <1>20, <1>21, <1>22, <1>23
        DEF Next, Edit, Request, Manage, Step

\* An id that is given out is nowhere yet.
LEMMA StepId ==
  ASSUME TypeInv, SnapInv, IdInv, [Next]_vars
  PROVE  IdInv'
<1> USE DEF TypeInv, TypeOK, ProcInv, Process, IdInv, Idle, uservars, filevars, sitevars,
          managervars, procvars
<1>1. ASSUME NEW x \in Change, NEW sites \in Targets, NEW saved \in BOOLEAN, EditStart(x, sites,
             saved)
       PROVE  IdInv'
  BY <1>1 DEF EditStart
<1>2. ASSUME NEW z \in Site, EditLog(z) PROVE IdInv'
  <2>1. /\ LogEntry(z, editor.id) /\ editor.id \in Change /\ editor.left \in SUBSET Site
    BY <1>2, EditorFacts DEF EditLog
  <2>2. /\ UNCHANGED <<config, used, snap, rest>>
        /\ editor'.op = "edit" /\ editor'.id = editor.id /\ editor'.left = editor.left \ {z}
        /\ logged' = [logged EXCEPT ![z] = @ \cup {editor.id}]
        /\ editor.op = "edit"
    BY <1>2, EditorFacts DEF EditLog
  <2>3. /\ Ids(changes'[z]) = Ids(changes[z]) \cup {editor.id}
        /\ \A s \in Site : s # z => Ids(changes'[s]) = Ids(changes[s])
    BY <2>1, LogEffect
  <2>4. \A s \in Site : logged'[s] \subseteq logged[s] \cup {editor.id}
    BY <2>2
  <2> HIDE DEF TypeOK
  <2> QED BY <2>1, <2>2, <2>3, <2>4
<1>3. CASE EditEnd
  BY <1>3 DEF EditEnd
<1>4. ASSUME NEW x \in Change, DiscardStart(x) PROVE IdInv'
  BY <1>4 DEF DiscardStart
<1>5. ASSUME NEW z \in Site, DiscardLog(z) PROVE IdInv'
  <2>1. /\ LogEntry(z, editor.id) /\ editor.id \in Change /\ editor.left \in SUBSET Site
    BY <1>5, EditorFacts DEF DiscardLog
  <2>2. /\ UNCHANGED <<config, used, snap, rest, logged>>
        /\ editor'.op = "discard" /\ editor'.id = editor.id /\ editor.op = "discard"
    BY <1>5, EditorFacts DEF DiscardLog
  <2>3. /\ Ids(changes'[z]) = Ids(changes[z]) \cup {editor.id}
        /\ \A s \in Site : s # z => Ids(changes'[s]) = Ids(changes[s])
    BY <2>1, LogEffect
  <2> HIDE DEF TypeOK
  <2> QED BY <2>1, <2>2, <2>3
<1>6. CASE DiscardExtract
  <2>1. config' \subseteq config
    <3>1. backup # None
      BY <1>6 DEF DiscardExtract, DiscardInv, Discarding
    <3>2. backup \in SUBSET Change
      BY <3>1, BackupFacts
    <3> QED BY <1>6, <3>1, <3>2 DEF DiscardExtract, SnapInv, Saved
  <2>2. /\ UNCHANGED <<used, snap, rest, logged, changes>>
        /\ editor'.op = "restart" /\ editor'.id = editor.id /\ editor.op = "discard"
    BY <1>6, EditorFacts DEF DiscardExtract
  <2> QED BY <2>1, <2>2
<1>7. CASE DiscardRestart
  BY <1>7 DEF DiscardRestart
<1>8. CASE DiscardFails
  BY <1>8 DEF DiscardFails
<1>9. ASSUME NEW z \in Site, DiscardClear(z) PROVE IdInv'
  <2>1. /\ UNCHANGED <<config, used, snap, rest, logged>>
        /\ editor'.op = "none" \/ (editor'.op = "clear" /\ editor'.id = editor.id)
        /\ editor.op = "clear"
    BY <1>9, EditorFacts DEF DiscardClear
  <2>2. \A s \in Site : changes'[s] = changes[s] \/ changes'[s] = <<>>
    BY <1>9 DEF DiscardClear
  <2>3. \A s \in Site : Ids(changes'[s]) \subseteq Ids(changes[s])
    BY <2>2, EmptyFacts
  <2> QED BY <2>1, <2>3
<1>10. ASSUME NEW b \in Activation, NEW sites \in SUBSET Site, NEW transfer \in BOOLEAN, Load(b,
             sites, transfer)
       PROVE  IdInv'
  BY <1>10 DEF Load
<1>11. ASSUME NEW b \in Activation, CreateSnapshots(b) PROVE IdInv'
  BY <1>11 DEF CreateSnapshots
<1>12. ASSUME NEW b \in Activation, NEW z \in Site, Fork(b, z) PROVE IdInv'
  BY <1>12 DEF Fork, ChangesTillActivation
<1>13. ASSUME NEW q \in Process, LockActivation(q) PROVE IdInv'
  BY <1>13 DEF LockActivation
<1>14. ASSUME NEW q \in Process, NoSyncNeeded(q) PROVE IdInv'
  BY <1>14 DEF NoSyncNeeded, Synchronized
<1>15. ASSUME NEW q \in Process, NEW effect \in BOOLEAN, NEW answer \in BOOLEAN,
             SynchronizeSite(q, effect, answer)
       PROVE  IdInv'
  BY <1>15 DEF SynchronizeSite, Synchronized
<1>16. ASSUME NEW q \in Process, NoActivateNeeded(q) PROVE IdInv'
  BY <1>16 DEF NoActivateNeeded
<1>17. ASSUME NEW q \in Process, NEW effect \in BOOLEAN, NEW answer \in BOOLEAN, DoActivate(q,
             effect, answer)
       PROVE  IdInv'
  BY <1>17 DEF DoActivate
<1>18. ASSUME NEW q \in Process, ConfirmLoad(q) PROVE IdInv'
  <2>1. /\ UNCHANGED <<config, used, editor, snap, changes, logged>>
    BY <1>18 DEF ConfirmLoad
  <2>2. /\ Ids(rest'[q]) \subseteq Ids(changes[q[2]])
        /\ \A r \in Process : r # q => rest'[r] = rest[r]
    <3> HIDE DEF TypeOK, ProcInv, IdInv
    <3> QED BY <1>18, ConfirmEffect
  <2>3. \A r \in Process : Ids(rest'[r]) \subseteq Ids(rest[r])
                              \cup (IF r = q THEN Ids(changes[q[2]]) ELSE {})
    BY <2>2
  <2>4. \A r \in Process : Ids(rest'[r]) \subseteq used
    BY <2>3, ProcessFacts
  <2>5. ASSUME editor.op = "edit", NEW s \in editor.left, NEW a \in Activation
        PROVE  editor.id \notin Ids(rest'[<<a, s>>])
    <3>1. <<a, s>> \in Process /\ <<a, s>>[2] = s
      BY <2>5, EditorFacts
    <3>2. editor.id \notin Ids(changes[s]) /\ editor.id \notin Ids(rest[<<a, s>>])
      BY <2>5
    <3> HIDE DEF TypeOK, IdInv, Process
    <3> QED BY <2>3, <3>1, <3>2
  <2> HIDE DEF TypeOK, Process
  <2> QED BY <2>1, <2>4, <2>5
<1>19. ASSUME NEW q \in Process, Truncate(q) PROVE IdInv'
  <2>1. /\ UNCHANGED <<config, used, editor, snap, rest, logged>>
        /\ \A s \in Site : changes'[s] = changes[s] \/ changes'[s] = <<>>
    BY <1>19 DEF Truncate
  <2>2. \A s \in Site : Ids(changes'[s]) \subseteq Ids(changes[s])
    BY <2>1, EmptyFacts
  <2> QED BY <2>1, <2>2
<1>20. ASSUME NEW q \in Process, Rewrite(q) PROVE IdInv'
  <2>1. UNCHANGED <<config, used, editor, snap, logged>>
    BY <1>20 DEF Rewrite
  <2>2. /\ \A s \in Site : s # q[2] => changes'[s] = changes[s]
        /\ \A r \in Process : r # q => rest'[r] = rest[r]
        /\ Ids(changes'[q[2]]) \cup Ids(rest'[q]) = Ids(changes[q[2]]) \cup Ids(rest[q])
    BY <1>20, RewriteEffect
  <2> HIDE DEF TypeOK
  <2>3. \A s \in Site : Ids(changes'[s]) \subseteq Ids(changes[s]) \cup (IF s = q[2] THEN Ids(rest[q]) ELSE {})
    BY <2>2
  <2>4. \A r \in Process : Ids(rest'[r]) \subseteq Ids(rest[r]) \cup (IF r = q THEN Ids(changes[q[2]]) ELSE {})
    BY <2>2
  <2>5. \A r \in Process : Ids(rest'[r]) \subseteq used
    BY <2>4, ProcessFacts
  <2>6. \A u \in Site : Ids(changes'[u]) \subseteq used
    BY <2>3, ProcessFacts
  <2>7. ASSUME editor.op = "edit", NEW s \in editor.left, NEW a \in Activation
        PROVE  editor.id \notin Ids(rest'[<<a, s>>]) /\ editor.id \notin Ids(changes'[s])
    <3>1. <<a, s>> \in Process /\ <<a, s>>[2] = s /\ s \in Site
      BY <2>7, EditorFacts DEF TypeOK
    <3>2. /\ editor.id \notin Ids(changes[s]) /\ editor.id \notin Ids(rest[<<a, s>>])
          /\ s = q[2] => editor.id \notin Ids(rest[q])
      BY <2>7, ProcessFacts
    <3> HIDE DEF TypeOK, IdInv, Process
    <3> QED BY <2>3, <2>4, <3>1, <3>2
  <2> HIDE DEF TypeOK, Process
  <2>8. \A s \in editor.left : editor.op = "edit" => editor.id \notin Ids(changes'[s])
    BY <2>1, <2>3, <2>7, ProcessFacts
  <2> QED BY <2>1, <2>5, <2>6, <2>7, <2>8
<1>21. ASSUME NEW q \in Process, UnlockActivation(q) PROVE IdInv'
  <2>1. /\ UNCHANGED <<config, used, editor, snap, changes, logged>>
        /\ \A r \in Process : rest'[r] = rest[r] \/ rest'[r] = <<>>
    BY <1>21 DEF UnlockActivation, Forget
  <2>2. \A r \in Process : Ids(rest'[r]) \subseteq Ids(rest[r])
    BY <2>1, EmptyFacts
  <2> QED BY <2>1, <2>2
<1>22. ASSUME NEW q \in Process, Crash(q) PROVE IdInv'
  <2>1. /\ UNCHANGED <<config, used, editor, snap, changes, logged>>
        /\ \A r \in Process : rest'[r] = rest[r] \/ rest'[r] = <<>>
    BY <1>22 DEF Crash, Forget
  <2>2. \A r \in Process : Ids(rest'[r]) \subseteq Ids(rest[r])
    BY <2>1, EmptyFacts
  <2> QED BY <2>1, <2>2
<1>23. CASE UNCHANGED vars
  BY <1>23 DEF vars
<1> HIDE DEF TypeInv, TypeOK, ProcInv, Process, IdInv, Idle, uservars, filevars, sitevars,
           managervars, procvars
<1> QED BY <1>1, <1>2, <1>3, <1>4, <1>5, <1>6, <1>7, <1>8, <1>9, <1>10, <1>11, <1>12, <1>13,
           <1>14, <1>15, <1>16, <1>17, <1>18, <1>19, <1>20, <1>21, <1>22, <1>23
        DEF Next, Edit, Request, Manage, Step

\* What a process has loaded stays in the file until it confirms.
LEMMA StepCount ==
  ASSUME TypeInv, QuietInv, AloneInv, CountInv, [Next]_vars
  PROVE  CountInv'
<1> USE DEF CountInv, Process, Unconfirmed, Before, uservars, filevars, sitevars, managervars,
          procvars
<1>1. ASSUME NEW x \in Change, NEW sites \in Targets, NEW saved \in BOOLEAN, EditStart(x, sites,
             saved)
       PROVE  CountInv'
  BY <1>1 DEF EditStart
<1>2. ASSUME NEW z \in Site, EditLog(z) PROVE CountInv'
  <2>1. /\ LogEntry(z, editor.id) /\ editor.id \in Change
        /\ UNCHANGED <<pc, count, needs, raced>>
    BY <1>2, EditorFacts DEF EditLog, TypeInv
  <2>2. /\ \A s \in Site : s # z => changes'[s] = changes[s]
        /\ Len(changes[z]) \in Nat /\ Len(changes'[z]) = Len(changes[z]) + 1
        /\ \A i \in 1..Len(changes[z]) : changes'[z][i] = changes[z][i]
        /\ changes'[z][Len(changes[z]) + 1].sync
    BY <2>1, LogEffect DEF TypeInv
  <2>3. \A p \in Process : count[p] \in Nat
    BY DEF TypeInv, TypeOK
  <2> SUFFICES ASSUME NEW s \in Site \ raced, NEW a \in Activation, pc[<<a, s>>] \in Unconfirmed
               PROVE  /\ count[<<a, s>>] <= Len(changes'[s])
                      /\ \A i \in (count[<<a, s>>] + 1)..Len(changes'[s]) : changes'[s][i].sync
                      /\ pc[<<a, s>>] \in Before /\ s # Local /\ ~needs[<<a, s>>] =>
                            \A i \in 1..count[<<a, s>>] : ~changes'[s][i].sync
    BY <2>1 DEF CountInv
  <2>4. /\ count[<<a, s>>] <= Len(changes[s])
        /\ \A i \in (count[<<a, s>>] + 1)..Len(changes[s]) : changes[s][i].sync
        /\ pc[<<a, s>>] \in Before /\ s # Local /\ ~needs[<<a, s>>] =>
              \A i \in 1..count[<<a, s>>] : ~changes[s][i].sync
    BY DEF CountInv
  <2>5. CASE s # z
    BY <2>2, <2>4, <2>5
  <2>6. CASE s = z
    <3>1. count[<<a, s>>] \in Nat
      BY <2>3 DEF Process
    <3>2. \A i \in (count[<<a, s>>] + 1)..Len(changes'[s]) :
             i \in (count[<<a, s>>] + 1)..Len(changes[s]) \/ i = Len(changes[s]) + 1
      BY <2>2, <2>6, <3>1
    <3>3. \A i \in (count[<<a, s>>] + 1)..Len(changes[s]) : i \in 1..Len(changes[s])
      BY <2>2, <2>6, <3>1
    <3>4. \A i \in 1..count[<<a, s>>] : i \in 1..Len(changes[s])
      BY <2>2, <2>4, <2>6, <3>1
    <3>5. count[<<a, s>>] <= Len(changes'[s])
      BY <2>2, <2>4, <2>6, <3>1
    <3> QED BY <2>2, <2>4, <2>6, <3>2, <3>3, <3>4, <3>5
  <2> QED BY <2>5, <2>6
<1>3. CASE EditEnd
  BY <1>3 DEF EditEnd
<1>4. ASSUME NEW x \in Change, DiscardStart(x) PROVE CountInv'
  BY <1>4 DEF DiscardStart
<1>5. ASSUME NEW z \in Site, DiscardLog(z) PROVE CountInv'
  <2>1. /\ LogEntry(z, editor.id) /\ editor.id \in Change
        /\ UNCHANGED <<pc, count, needs, raced>>
    BY <1>5, EditorFacts DEF DiscardLog, TypeInv
  <2>2. /\ \A s \in Site : s # z => changes'[s] = changes[s]
        /\ Len(changes[z]) \in Nat /\ Len(changes'[z]) = Len(changes[z]) + 1
        /\ \A i \in 1..Len(changes[z]) : changes'[z][i] = changes[z][i]
        /\ changes'[z][Len(changes[z]) + 1].sync
    BY <2>1, LogEffect DEF TypeInv
  <2>3. \A p \in Process : count[p] \in Nat
    BY DEF TypeInv, TypeOK
  <2> SUFFICES ASSUME NEW s \in Site \ raced, NEW a \in Activation, pc[<<a, s>>] \in Unconfirmed
               PROVE  /\ count[<<a, s>>] <= Len(changes'[s])
                      /\ \A i \in (count[<<a, s>>] + 1)..Len(changes'[s]) : changes'[s][i].sync
                      /\ pc[<<a, s>>] \in Before /\ s # Local /\ ~needs[<<a, s>>] =>
                            \A i \in 1..count[<<a, s>>] : ~changes'[s][i].sync
    BY <2>1 DEF CountInv
  <2>4. /\ count[<<a, s>>] <= Len(changes[s])
        /\ \A i \in (count[<<a, s>>] + 1)..Len(changes[s]) : changes[s][i].sync
        /\ pc[<<a, s>>] \in Before /\ s # Local /\ ~needs[<<a, s>>] =>
              \A i \in 1..count[<<a, s>>] : ~changes[s][i].sync
    BY DEF CountInv
  <2>5. CASE s # z
    BY <2>2, <2>4, <2>5
  <2>6. CASE s = z
    <3>1. count[<<a, s>>] \in Nat
      BY <2>3 DEF Process
    <3>2. \A i \in (count[<<a, s>>] + 1)..Len(changes'[s]) :
             i \in (count[<<a, s>>] + 1)..Len(changes[s]) \/ i = Len(changes[s]) + 1
      BY <2>2, <2>6, <3>1
    <3>3. \A i \in (count[<<a, s>>] + 1)..Len(changes[s]) : i \in 1..Len(changes[s])
      BY <2>2, <2>6, <3>1
    <3>4. \A i \in 1..count[<<a, s>>] : i \in 1..Len(changes[s])
      BY <2>2, <2>4, <2>6, <3>1
    <3>5. count[<<a, s>>] <= Len(changes'[s])
      BY <2>2, <2>4, <2>6, <3>1
    <3> QED BY <2>2, <2>4, <2>6, <3>2, <3>3, <3>4, <3>5
  <2> QED BY <2>5, <2>6
<1>6. CASE DiscardExtract
  BY <1>6 DEF DiscardExtract
<1>7. CASE DiscardRestart
  BY <1>7 DEF DiscardRestart
<1>8. CASE DiscardFails
  BY <1>8 DEF DiscardFails
<1>9. ASSUME NEW z \in Site, DiscardClear(z) PROVE CountInv'
  <2>1. /\ UNCHANGED <<pc, count, needs>> /\ raced \subseteq raced'
        /\ \A s \in Site : s # z => changes'[s] = changes[s]
    BY <1>9 DEF DiscardClear, TypeInv, TypeOK
  <2>2. z \notin raced => \A a \in Activation : pc[<<a, z>>] \notin Working
    BY <1>9 DEF DiscardClear, QuietInv, Busy, Discarding
  <2>3. ASSUME NEW s \in Site \ raced, NEW a \in Activation, pc[<<a, s>>] \in Unconfirmed
        PROVE  s # z
    BY <2>2, <2>3 DEF Working
  <2>4. ASSUME NEW s \in Site \ raced, NEW a \in Activation, pc[<<a, s>>] \in Unconfirmed
        PROVE  changes'[s] = changes[s]
    BY <2>1, <2>3, <2>4
  <2> QED BY <2>1, <2>4 DEF CountInv
<1>10. ASSUME NEW b \in Activation, NEW sites \in SUBSET Site, NEW transfer \in BOOLEAN, Load(b,
             sites, transfer)
       PROVE  CountInv'
  BY <1>10 DEF Load
<1>11. ASSUME NEW b \in Activation, CreateSnapshots(b) PROVE CountInv'
  BY <1>11 DEF CreateSnapshots
<1>12. ASSUME NEW b \in Activation, NEW z \in Site, Fork(b, z) PROVE CountInv'
  <2>1. /\ UNCHANGED changes /\ raced \subseteq raced'
        /\ \A r \in Process : r # <<b, z>> =>
              pc'[r] = pc[r] /\ count'[r] = count[r] /\ needs'[r] = needs[r]
    BY <1>12 DEF Fork
  <2>2. /\ count'[<<b, z>>] = Len(changes[z])
        /\ needs'[<<b, z>>] = (z # Local /\ \E i \in DOMAIN changes[z] : changes[z][i].sync)
    BY <1>12 DEF Fork, ChangesTillActivation, TypeInv, TypeOK
  <2>3. Len(changes[z]) \in Nat /\ DOMAIN changes[z] = 1..Len(changes[z])
    BY DEF TypeInv, TypeOK
  <2>4. /\ Len(changes[z]) <= Len(changes[z]) /\ (Len(changes[z]) + 1)..Len(changes[z]) = {}
    BY <2>3
  <2>5. z # Local /\ ~needs'[<<b, z>>] => \A i \in 1..Len(changes[z]) : ~changes[z][i].sync
    BY <2>2, <2>3
  <2> SUFFICES ASSUME NEW s \in Site \ raced, NEW a \in Activation, pc'[<<a, s>>] \in Unconfirmed
               PROVE  /\ count'[<<a, s>>] <= Len(changes[s])
                      /\ \A i \in (count'[<<a, s>>] + 1)..Len(changes[s]) : changes[s][i].sync
                      /\ pc'[<<a, s>>] \in Before /\ s # Local /\ ~needs'[<<a, s>>] =>
                            \A i \in 1..count'[<<a, s>>] : ~changes[s][i].sync
    BY <2>1
  <2>6. CASE <<a, s>> = <<b, z>>
    BY <2>2, <2>4, <2>5, <2>6
  <2>7. CASE <<a, s>> # <<b, z>>
    BY <2>1, <2>7
  <2> QED BY <2>6, <2>7
<1>13. ASSUME NEW q \in Process, LockActivation(q) PROVE CountInv'
  <2>1. /\ UNCHANGED <<changes, count, needs, raced>> /\ pc[q] = "ready" /\ pc'[q] \in {"unlock", "sync"}
        /\ \A r \in Process : r # q => pc'[r] = pc[r]
    BY <1>13 DEF LockActivation, TypeInv, TypeOK
  <2> QED BY <2>1
<1>14. ASSUME NEW q \in Process, NoSyncNeeded(q) PROVE CountInv'
  <2>1. /\ UNCHANGED <<changes, count, needs, raced>> /\ pc[q] = "sync" /\ pc'[q] \in {"activate", "confirm"}
        /\ \A r \in Process : r # q => pc'[r] = pc[r]
    BY <1>14 DEF NoSyncNeeded, Synchronized, TypeInv, TypeOK
  <2> QED BY <2>1
<1>15. ASSUME NEW q \in Process, NEW effect \in BOOLEAN, NEW answer \in BOOLEAN,
             SynchronizeSite(q, effect, answer)
       PROVE  CountInv'
  <2>1. /\ UNCHANGED <<changes, count, needs, raced>> /\ pc[q] = "sync"
        /\ pc'[q] \in {"activate", "confirm", "unlock"}
        /\ \A r \in Process : r # q => pc'[r] = pc[r]
    BY <1>15 DEF SynchronizeSite, Synchronized, TypeInv, TypeOK
  <2> QED BY <2>1
<1>16. ASSUME NEW q \in Process, NoActivateNeeded(q) PROVE CountInv'
  <2>1. /\ UNCHANGED <<changes, count, needs, raced>> /\ pc[q] = "activate" /\ pc'[q] = "confirm"
        /\ \A r \in Process : r # q => pc'[r] = pc[r]
    BY <1>16 DEF NoActivateNeeded, TypeInv, TypeOK
  <2> QED BY <2>1
<1>17. ASSUME NEW q \in Process, NEW effect \in BOOLEAN, NEW answer \in BOOLEAN, DoActivate(q,
             effect, answer)
       PROVE  CountInv'
  <2>1. /\ UNCHANGED <<changes, count, needs>> /\ raced \subseteq raced' /\ pc[q] = "activate"
        /\ pc'[q] \in {"confirm", "unlock"}
        /\ \A r \in Process : r # q => pc'[r] = pc[r]
    BY <1>17 DEF DoActivate, TypeInv, TypeOK
  <2> QED BY <2>1
<1>18. ASSUME NEW q \in Process, ConfirmLoad(q) PROVE CountInv'
  <2>1. /\ UNCHANGED <<changes, count, needs>> /\ raced \subseteq raced' /\ pc'[q] = "truncate"
        /\ \A r \in Process : r # q => pc'[r] = pc[r]
    BY <1>18 DEF ConfirmLoad, TypeInv, TypeOK
  <2> QED BY <2>1
<1>19. ASSUME NEW q \in Process, Truncate(q) PROVE CountInv'
  <2>1. /\ UNCHANGED <<count, needs, raced>> /\ pc[q] \in Working /\ pc'[q] \notin Unconfirmed
        /\ \A r \in Process : r # q => pc'[r] = pc[r]
        /\ \A s \in Site : s # q[2] => changes'[s] = changes[s]
    BY <1>19, ProcessFacts DEF Truncate, Working, TypeInv, TypeOK
  <2>2. q[2] \notin raced => \A a \in Activation : <<a, q[2]>> # q => pc[<<a, q[2]>>] \notin Working
    BY <2>1, ProcessFacts DEF AloneInv
  <2>3. Unconfirmed \subseteq Working
    BY DEF Unconfirmed, Working
  <2>4. ASSUME NEW s \in Site \ raced, NEW a \in Activation, pc'[<<a, s>>] \in Unconfirmed
        PROVE  s # q[2] /\ pc[<<a, s>>] = pc'[<<a, s>>]
    BY <2>1, <2>2, <2>3, <2>4 DEF Process
  <2> QED BY <2>1, <2>4 DEF CountInv
<1>20. ASSUME NEW q \in Process, Rewrite(q) PROVE CountInv'
  <2>1. /\ UNCHANGED <<count, needs, raced>> /\ pc[q] \in Working /\ pc'[q] \notin Unconfirmed
        /\ \A r \in Process : r # q => pc'[r] = pc[r]
        /\ \A s \in Site : s # q[2] => changes'[s] = changes[s]
    BY <1>20, ProcessFacts DEF Rewrite, Working, TypeInv, TypeOK, Writing
  <2>2. q[2] \notin raced => \A a \in Activation : <<a, q[2]>> # q => pc[<<a, q[2]>>] \notin Working
    BY <2>1, ProcessFacts DEF AloneInv
  <2>3. Unconfirmed \subseteq Working
    BY DEF Unconfirmed, Working
  <2>4. ASSUME NEW s \in Site \ raced, NEW a \in Activation, pc'[<<a, s>>] \in Unconfirmed
        PROVE  s # q[2] /\ pc[<<a, s>>] = pc'[<<a, s>>]
    BY <2>1, <2>2, <2>3, <2>4 DEF Process
  <2> QED BY <2>1, <2>4 DEF CountInv
<1>21. ASSUME NEW q \in Process, UnlockActivation(q) PROVE CountInv'
  <2>1. /\ UNCHANGED <<changes, raced>> /\ pc'[q] = "done"
        /\ \A r \in Process : r # q => pc'[r] = pc[r] /\ count'[r] = count[r] /\ needs'[r] = needs[r]
    BY <1>21 DEF UnlockActivation, Forget, TypeInv, TypeOK
  <2> QED BY <2>1
<1>22. ASSUME NEW q \in Process, Crash(q) PROVE CountInv'
  <2>1. /\ UNCHANGED changes /\ raced \subseteq raced' /\ pc'[q] = "done"
        /\ \A r \in Process : r # q => pc'[r] = pc[r] /\ count'[r] = count[r] /\ needs'[r] = needs[r]
    BY <1>22 DEF Crash, Forget, TypeInv, TypeOK
  <2> QED BY <2>1
<1>23. CASE UNCHANGED vars
  BY <1>23 DEF vars
<1> HIDE DEF CountInv, Process, Unconfirmed, Before, uservars, filevars, sitevars, managervars,
           procvars
<1> QED BY <1>1, <1>2, <1>3, <1>4, <1>5, <1>6, <1>7, <1>8, <1>9, <1>10, <1>11, <1>12, <1>13,
           <1>14, <1>15, <1>16, <1>17, <1>18, <1>19, <1>20, <1>21, <1>22, <1>23
        DEF Next, Edit, Request, Manage, Step

-----------------------------------------------------------------------------
\* A step that leaves the pending changes of a site alone.
LEMMA LostFrame ==
  ASSUME NEW s \in Site, NEW c \in Change, LostAt(s, c), changes'[s] = changes[s],
         IsDue(s, c)' => /\ IsDue(s, c) /\ (c \in config => c \in config')
                         /\ c \in running[s] => c \in running'[s],
         \A a \in Activation :
            /\ pc[<<a, s>>] \in Writing =>
                  pc'[<<a, s>>] \in Writing /\ rest'[<<a, s>>] = rest[<<a, s>>]
            /\ pc'[<<a, s>>] = "truncate" =>
                  pc[<<a, s>>] = "truncate" /\ rest'[<<a, s>>] = rest[<<a, s>>]
            /\ pc'[<<a, s>>] = "confirm" =>
                  /\ count'[<<a, s>>] = count[<<a, s>>] /\ (prevent[a] => prevent'[a])
                  /\ \/ pc[<<a, s>>] = "confirm"
                     \/ c \in Taken(<<a, s>>) /\ IsDue(s, c) =>
                           c \in config /\ (prevent[a] \/ c \in running[s])
  PROVE  LostAt(s, c)'
<1> SUFFICES ASSUME IsDue(s, c)'
             PROVE  /\ c \in running'[s] \/ Waiting(s, c)'
                    /\ c \in config' \/ Waiting(s, c)'
                    /\ \A a \in Activation :
                          /\ pc'[<<a, s>>] = "confirm" /\ c \in Taken(<<a, s>>)' =>
                                c \in config' /\ (prevent'[a] \/ c \in running'[s])
                          /\ pc'[<<a, s>>] = "truncate" =>
                                c \in Ids(rest'[<<a, s>>]) \/ (c \in config' /\ c \in running'[s])
  BY DEF LostAt
<1>1. Waiting(s, c) => Waiting(s, c)'
  BY DEF Waiting
<1>2. \A a \in Activation : pc'[<<a, s>>] = "confirm" => Taken(<<a, s>>)' = Taken(<<a, s>>)
  BY DEF Taken
<1> HIDE DEF Taken, Waiting
<1> QED BY <1>1, <1>2 DEF LostAt

LEMMA SyncFrame ==
  ASSUME NEW s \in Site, NEW c \in Change, SyncAt(s, c), logged'[s] = logged[s],
         changes'[s] = changes[s],
         c \in synced[s] => c \in synced'[s],
         IsDue(s, c)' => IsDue(s, c),
         \A a \in Activation :
            /\ pc[<<a, s>>] \in Writing =>
                  pc'[<<a, s>>] \in Writing /\ rest'[<<a, s>>] = rest[<<a, s>>]
            /\ pc'[<<a, s>>] \in {"truncate", "rewrite", "append"} =>
                  pc[<<a, s>>] = pc'[<<a, s>>] /\ rest'[<<a, s>>] = rest[<<a, s>>]
            /\ pc'[<<a, s>>] \in Unconfirmed =>
                  /\ count'[<<a, s>>] = count[<<a, s>>] /\ snap'[a] = snap[a]
                  /\ \/ pc'[<<a, s>>] \in Before /\ pc[<<a, s>>] \in Before
                     \/ pc'[<<a, s>>] = "activate" /\ pc[<<a, s>>] = "activate"
                     \/ pc'[<<a, s>>] = "confirm" /\ pc[<<a, s>>] \in {"activate", "confirm"}
  PROVE  SyncAt(s, c)'
<1> SUFFICES ASSUME c \in logged[s]
             PROVE  SyncAt(s, c)'
  BY DEF SyncAt
<1>1. \A a \in Activation : pc'[<<a, s>>] \in Unconfirmed =>
         Taken(<<a, s>>)' = Taken(<<a, s>>) /\ Later(<<a, s>>)' = Later(<<a, s>>)
  BY DEF Taken, Later
<1>2. \A a \in Activation : pc'[<<a, s>>] \in {"activate", "confirm"} => pc'[<<a, s>>] \in Unconfirmed
  BY DEF Unconfirmed
<1>3. \A a \in Activation : pc'[<<a, s>>] \in Before => pc'[<<a, s>>] \in Unconfirmed /\ pc[<<a, s>>] \in Before
  BY DEF Unconfirmed, Before
<1>4. \A a \in Activation : pc'[<<a, s>>] \in {"activate", "confirm"} => pc[<<a, s>>] \in {"activate", "confirm"}
  BY <1>2 DEF Before
<1>5. \A a \in Activation : pc'[<<a, s>>] \in Unconfirmed => pc[<<a, s>>] \in Unconfirmed
  BY DEF Unconfirmed, Before
<1> HIDE DEF Taken, Later, Unconfirmed, Before
<1>6. IsDue(s, c)' => \/ c \in synced'[s] \/ c \in ToSync(changes'[s])
                      \/ \E a \in Activation : pc'[<<a, s>>] \in Writing /\ c \in ToSync(rest'[<<a, s>>])
  BY DEF SyncAt
<1>7. c \in InSync(changes'[s]) => c \in synced'[s]
  BY DEF SyncAt
<1> SUFFICES ASSUME NEW a \in Activation
             PROVE  /\ pc'[<<a, s>>] \in Unconfirmed /\ c \in Taken(<<a, s>>)' => c \in snap'[a]
                    /\ pc'[<<a, s>>] \in Before /\ IsDue(s, c)' => c \in snap'[a] \/ c \in Later(<<a, s>>)'
                    /\ pc'[<<a, s>>] \in {"activate", "confirm"} =>
                          /\ c \in Taken(<<a, s>>)' => c \in synced'[s]
                          /\ IsDue(s, c)' => c \in synced'[s] \/ c \in Later(<<a, s>>)'
                    /\ pc'[<<a, s>>] = "truncate" /\ IsDue(s, c)' =>
                          c \in synced'[s] \/ c \in ToSync(rest'[<<a, s>>])
                    /\ pc'[<<a, s>>] \in {"truncate", "rewrite", "append"} /\ c \in InSync(rest'[<<a, s>>])
                          => c \in synced'[s]
  BY <1>6, <1>7 DEF SyncAt
<1>8. pc'[<<a, s>>] \in Unconfirmed /\ c \in Taken(<<a, s>>)' => c \in snap'[a]
  BY <1>1, <1>5 DEF SyncAt
<1>9. pc'[<<a, s>>] \in Before /\ IsDue(s, c)' => c \in snap'[a] \/ c \in Later(<<a, s>>)'
  BY <1>1, <1>3 DEF SyncAt
<1>10. pc'[<<a, s>>] \in {"activate", "confirm"} =>
          /\ c \in Taken(<<a, s>>)' => c \in synced'[s]
          /\ IsDue(s, c)' => c \in synced'[s] \/ c \in Later(<<a, s>>)'
  BY <1>1, <1>2, <1>4 DEF SyncAt
<1>11. /\ pc'[<<a, s>>] = "truncate" /\ IsDue(s, c)' =>
             c \in synced'[s] \/ c \in ToSync(rest'[<<a, s>>])
       /\ pc'[<<a, s>>] \in {"truncate", "rewrite", "append"} /\ c \in InSync(rest'[<<a, s>>])
             => c \in synced'[s]
  BY DEF SyncAt
<1> QED BY <1>8, <1>9, <1>10, <1>11

LEMMA RacedGrows == ASSUME [Next]_vars PROVE raced \subseteq raced'
BY DEF Next, Edit, Request, Manage, Step, vars, uservars, filevars, sitevars, managervars, procvars,
       EditStart, EditLog, EditEnd, DiscardStart, DiscardLog, DiscardExtract, DiscardRestart,
       DiscardFails, DiscardClear, Load, CreateSnapshots, Fork, LockActivation, NoSyncNeeded,
       SynchronizeSite, NoActivateNeeded, DoActivate, ConfirmLoad, Truncate, Rewrite,
       UnlockActivation, Crash

LEMMA AloneFacts ==
  ASSUME AloneInv, NEW q \in Process, q[2] \notin raced, pc[q] \in Working
  PROVE  \A a \in Activation : <<a, q[2]>> # q => pc[<<a, q[2]>>] \notin Working
BY ProcessFacts DEF AloneInv

\* A change that is due is not lost.
LEMMA StepLost ==
  ASSUME TypeInv, IdInv, SnapInv, WorkInv, SyncInv, LeftInv, LostInv, [Next]_vars
  PROVE  LostInv'
<1> SUFFICES ASSUME NEW s \in Site, s \notin raced', NEW c \in Change
             PROVE  LostAt(s, c)'
  BY DEF LostInv
<1>a. raced \subseteq raced' /\ s \notin raced
  BY RacedGrows
<1>b. LostAt(s, c)
  BY <1>a DEF LostInv
<1>c. \A a \in Activation : <<a, s>> \in Process /\ <<a, s>> # None /\ <<a, s>>[1] = a /\ <<a, s>>[2] = s
  BY DEF Process
<1>d. Writing \subseteq Working /\ Unconfirmed \subseteq Working /\ "truncate" \in Working /\ "confirm" \in Working
      /\ "truncate" \notin Writing /\ "confirm" \notin Writing /\ "confirm" \in Unconfirmed
  BY DEF Working, Writing, Unconfirmed
<1> USE DEF WorkInv, uservars, filevars, sitevars, managervars, procvars
<1>1. ASSUME NEW x \in Change, NEW sites \in Targets, NEW saved \in BOOLEAN, EditStart(x, sites,
             saved)
       PROVE  LostAt(s, c)'
  <2>1. x \notin logged[s]
    BY <1>1 DEF EditStart, IdInv
  <2> QED BY <1>1, <1>b, <2>1, LostFrame DEF EditStart, IsDue
<1>2. ASSUME NEW z \in Site, EditLog(z) PROVE LostAt(s, c)'
  <2>1. /\ LogEntry(z, editor.id) /\ editor.id \in Change
        /\ UNCHANGED <<pc, count, rest, prevent, running, config>>
    BY <1>2, EditorFacts DEF EditLog, TypeInv
  <2>2. /\ owner[z] = None /\ Ids(changes'[z]) = Ids(changes[z]) \cup {editor.id}
        /\ \A t \in Site : t # z => changes'[t] = changes[t]
    BY <2>1, LogEffect DEF TypeInv
  <2>3. /\ editor.op = "edit" /\ editor'.op = "edit" /\ editor'.id = editor.id /\ z \in editor.left
        /\ logged'[z] = logged[z] \cup {editor.id}
        /\ \A t \in Site : t # z => logged'[t] = logged[t]
    BY <1>2, EditorFacts DEF EditLog, TypeInv, TypeOK
  <2>4. CASE s # z
    <3>1. changes'[s] = changes[s] /\ IsDue(s, c)' = IsDue(s, c)
      BY <2>1, <2>2, <2>3, <2>4 DEF IsDue
    <3> QED BY <1>b, <2>1, <3>1, LostFrame
  <2>5. CASE s = z
    <3>1. \A a \in Activation : pc'[<<a, s>>] # "truncate"
      BY <1>a, <1>c, <2>1, <2>2, <2>5 DEF OwnInv
    <3>2. \A a \in Activation : pc[<<a, s>>] = "confirm" =>
             /\ Taken(<<a, s>>)' = Taken(<<a, s>>) /\ Taken(<<a, s>>) \subseteq Ids(changes[s])
      <4> SUFFICES ASSUME NEW a \in Activation, pc[<<a, s>>] = "confirm"
                   PROVE  /\ Taken(<<a, s>>)' = Taken(<<a, s>>)
                          /\ Taken(<<a, s>>) \subseteq Ids(changes[s])
        OBVIOUS
      <4>1. count[<<a, s>>] <= Len(changes[s])
        BY <1>a, <1>d DEF CountInv
      <4>2. Taken(<<a, s>>)' = Taken(<<a, s>>)
        BY <1>c, <2>1, <2>5, <4>1, LogTaken DEF TypeInv
      <4>3. Taken(<<a, s>>) \subseteq Ids(changes[s])
        BY <1>c, <4>1, TakenFacts DEF TypeInv
      <4> QED BY <4>2, <4>3
    <3>3. editor.id \notin Ids(changes[s])
      BY <2>3, <2>5 DEF IdInv
    <3>4. Waiting(s, c) => Waiting(s, c)'
      BY <2>1, <2>2, <2>5 DEF Waiting
    <3>5. c = editor.id => Waiting(s, c)'
      BY <2>2, <2>5 DEF Waiting
    <3>6. c # editor.id /\ IsDue(s, c)' => IsDue(s, c)
      BY <2>1, <2>3, <2>5 DEF IsDue
    <3> HIDE DEF Taken, Waiting, IsDue
    <3> QED BY <1>b, <2>1, <3>1, <3>2, <3>3, <3>4, <3>5, <3>6 DEF LostAt
  <2> QED BY <2>4, <2>5
<1>3. CASE EditEnd
  <2>1. /\ editor.op = "edit" /\ editor'.op = "none" /\ config' = config \cup {editor.id}
        /\ UNCHANGED <<pc, count, rest, prevent, running, changes, logged>>
    BY <1>3 DEF EditEnd, Idle
  <2>2. IsDue(s, c)' => IsDue(s, c)
    BY <2>1 DEF IsDue
  <2> QED BY <1>b, <2>1, <2>2, LostFrame
<1>4. ASSUME NEW x \in Change, DiscardStart(x) PROVE LostAt(s, c)'
  BY <1>4, <1>b, LostFrame DEF DiscardStart, IsDue
<1>5. ASSUME NEW z \in Site, DiscardLog(z) PROVE LostAt(s, c)'
  <2>1. /\ LogEntry(z, editor.id) /\ editor.id \in Change
        /\ UNCHANGED <<pc, count, rest, prevent, running, config>>
    BY <1>5, EditorFacts DEF DiscardLog, TypeInv
  <2>2. /\ owner[z] = None /\ Ids(changes'[z]) = Ids(changes[z]) \cup {editor.id}
        /\ \A t \in Site : t # z => changes'[t] = changes[t]
    BY <2>1, LogEffect DEF TypeInv
  <2>3. /\ editor.op = "discard" /\ editor'.op = "discard" /\ UNCHANGED logged
    BY <1>5, EditorFacts DEF DiscardLog, TypeInv
  <2>4. IsDue(s, c)' => IsDue(s, c)
    BY <2>1, <2>3 DEF IsDue
  <2>5. CASE s # z
    <3>1. changes'[s] = changes[s]
      BY <2>2, <2>5
    <3> QED BY <1>b, <2>1, <2>4, <3>1, LostFrame
  <2>6. CASE s = z
    <3>1. \A a \in Activation : pc[<<a, s>>] \notin Working
      BY <1>a, <2>3 DEF QuietInv, Busy, Discarding
    <3>2. Waiting(s, c) => Waiting(s, c)'
      BY <2>1, <2>2, <2>6 DEF Waiting
    <3> QED BY <1>b, <1>d, <2>1, <2>4, <3>1, <3>2 DEF LostAt
  <2> QED BY <2>5, <2>6
<1>6. CASE DiscardExtract
  <2>1. editor'.op = "restart" /\ UNCHANGED <<pc, count, rest, prevent, running, changes, logged>>
    BY <1>6, EditorFacts DEF DiscardExtract, TypeInv
  <2>2. config' \subseteq config
    <3>1. backup # None
      BY <1>6 DEF DiscardExtract, TypeInv, DiscardInv, Discarding
    <3>2. backup \in SUBSET Change
      BY <3>1, BackupFacts DEF TypeInv
    <3> QED BY <1>6, <3>1, <3>2 DEF DiscardExtract, SnapInv, Saved
  <2>3. IsDue(s, c)' => IsDue(s, c) /\ c \in config'
    BY <2>1, <2>2 DEF IsDue
  <2> QED BY <1>b, <2>1, <2>3, LostFrame
<1>7. CASE DiscardRestart
  <2>1. /\ editor.op = "restart" /\ editor'.op = "clear"
        /\ UNCHANGED <<pc, count, rest, prevent, config, changes, logged>>
    BY <1>7, EditorFacts DEF DiscardRestart, TypeInv
  <2>2. running'[s] = IF s = Local THEN config ELSE running[s]
    BY <1>7 DEF DiscardRestart, TypeInv, TypeOK
  <2>3. IsDue(s, c)' => IsDue(s, c) /\ c \in config
    BY <2>1 DEF IsDue
  <2> QED BY <1>b, <2>1, <2>2, <2>3, LostFrame
<1>8. CASE DiscardFails
  <2>1. /\ editor.op = "restart" /\ editor'.op = "none"
        /\ UNCHANGED <<pc, count, rest, prevent, running, config, changes, logged>>
    BY <1>8 DEF DiscardFails, Idle
  <2>2. IsDue(s, c)' => IsDue(s, c)
    BY <2>1 DEF IsDue
  <2> QED BY <1>b, <2>1, <2>2, LostFrame
<1>9. ASSUME NEW z \in Site, DiscardClear(z) PROVE LostAt(s, c)'
  <2>1. /\ editor.op = "clear" /\ editor'.op \in {"none", "clear"}
        /\ UNCHANGED <<pc, count, rest, prevent, config, running, logged>>
    BY <1>9, EditorFacts DEF DiscardClear, TypeInv, Idle
  <2>2. IsDue(s, c)' => IsDue(s, c) /\ c \in config /\ c \in logged[s]
    BY <2>1 DEF IsDue
  <2>3. CASE s # z
    <3>1. changes'[s] = changes[s]
      BY <1>9, <2>3 DEF DiscardClear, TypeInv, TypeOK
    <3> QED BY <1>b, <2>1, <2>2, <3>1, LostFrame
  <2>4. CASE s = z
    <3>1. \A a \in Activation : pc[<<a, s>>] \notin Working
      BY <1>a, <2>1 DEF QuietInv, Busy, Discarding
    <3>2. IsDue(s, c)' => c \in running[s]
      <4>1. CASE s = Local
        BY <1>a, <2>1, <2>2, <4>1 DEF LeftInv
      <4>2. CASE s # Local
        <5>1. config = backup
          BY <2>1 DEF SnapInv
        <5>2. Ids(changes[s]) \cap logged[s] \cap backup = {}
          BY <1>9, <2>4, <4>2 DEF DiscardClear
        <5>3. IsDue(s, c)' => ~Waiting(s, c)
          BY <1>d, <2>2, <3>1, <5>1, <5>2 DEF Waiting
        <5> QED BY <1>b, <2>2, <5>3 DEF LostAt
      <4> QED BY <4>1, <4>2
    <3> QED BY <1>d, <2>1, <2>2, <3>1, <3>2 DEF LostAt
  <2> QED BY <2>3, <2>4
<1>10. ASSUME NEW b \in Activation, NEW sites \in SUBSET Site, NEW transfer \in BOOLEAN, Load(b,
             sites, transfer)
       PROVE  LostAt(s, c)'
  <2>1. /\ UNCHANGED <<pc, count, rest, running, config, editor, changes, logged>>
        /\ \A a \in Activation : a # b => prevent'[a] = prevent[a]
        /\ pc[<<b, s>>] = "none"
    BY <1>10 DEF Load, TypeInv, ProcInv
  <2>2. IsDue(s, c)' => IsDue(s, c)
    BY <2>1 DEF IsDue
  <2> QED BY <1>b, <2>1, <2>2, LostFrame
<1>11. ASSUME NEW b \in Activation, CreateSnapshots(b) PROVE LostAt(s, c)'
  BY <1>11, <1>b, LostFrame DEF CreateSnapshots, IsDue
<1>12. ASSUME NEW b \in Activation, NEW z \in Site, Fork(b, z) PROVE LostAt(s, c)'
  <2>1. /\ UNCHANGED <<config, editor, running, changes, prevent, rest, logged>>
        /\ \A r \in Process : r # <<b, z>> => pc'[r] = pc[r] /\ count'[r] = count[r]
        /\ pc'[<<b, z>>] = "ready"
    BY <1>12 DEF Fork, TypeInv, TypeOK, Process
  <2>2. pc[<<b, z>>] = "none"
    BY <1>12 DEF Fork, TypeInv, ProcInv
  <2>3. IsDue(s, c)' = IsDue(s, c)
    BY <2>1 DEF IsDue
  <2>4. "none" \notin Writing
    BY DEF Writing
  <2> QED BY <1>b, <1>c, <2>1, <2>2, <2>3, <2>4, LostFrame
<1>13. ASSUME NEW q \in Process, LockActivation(q) PROVE LostAt(s, c)'
  <2>1. /\ UNCHANGED <<config, editor, running, changes, prevent, rest, count, logged>>
        /\ \A r \in Process : r # q => pc'[r] = pc[r]
        /\ pc[q] = "ready" /\ pc'[q] \in {"sync", "unlock"}
    BY <1>13 DEF LockActivation, TypeInv, TypeOK
  <2>2. IsDue(s, c)' = IsDue(s, c)
    BY <2>1 DEF IsDue
  <2> QED BY <1>b, <1>c, <2>1, <2>2, LostFrame DEF Writing
<1>14. ASSUME NEW q \in Process, NoSyncNeeded(q) PROVE LostAt(s, c)'
  <2>1. /\ UNCHANGED <<config, editor, running, changes, prevent, rest, count, logged>>
        /\ \A r \in Process : r # q => pc'[r] = pc[r]
        /\ pc[q] = "sync" /\ pc'[q] \in {"activate", "confirm"}
    BY <1>14 DEF NoSyncNeeded, Synchronized, TypeInv, TypeOK
  <2>2. IsDue(s, c)' = IsDue(s, c)
    BY <2>1 DEF IsDue
  <2>3. pc'[q] = "confirm" => prevent[q[1]]
    BY <1>14 DEF NoSyncNeeded, Synchronized, TypeInv, TypeOK
  <2>4. ASSUME NEW a \in Activation, q = <<a, s>>, prevent[a], c \in Taken(q), IsDue(s, c)
        PROVE  c \in config
    <3>1. s # Local
      BY <1>c, <2>1, <2>4 DEF TypeInv, ProcInv
    <3>2. SyncAt(s, c)
      BY <1>a, <3>1 DEF SyncInv
    <3>3. c \in snap[a]
      BY <2>1, <2>4, <3>2 DEF SyncAt, IsDue, Unconfirmed
    <3> QED BY <3>3 DEF SnapInv
  <2> QED BY <1>b, <1>c, <2>1, <2>2, <2>3, <2>4, LostFrame DEF Writing
<1>15. ASSUME NEW q \in Process, NEW effect \in BOOLEAN, NEW answer \in BOOLEAN,
             SynchronizeSite(q, effect, answer)
       PROVE  LostAt(s, c)'
  <2>1. /\ UNCHANGED <<config, editor, running, changes, prevent, rest, count, logged>>
        /\ \A r \in Process : r # q => pc'[r] = pc[r]
        /\ pc[q] = "sync" /\ pc'[q] \in {"activate", "confirm", "unlock"}
    BY <1>15 DEF SynchronizeSite, Synchronized, TypeInv, TypeOK
  <2>2. IsDue(s, c)' = IsDue(s, c)
    BY <2>1 DEF IsDue
  <2>3. pc'[q] = "confirm" => prevent[q[1]]
    BY <1>15 DEF SynchronizeSite, Synchronized, TypeInv, TypeOK
  <2>4. ASSUME NEW a \in Activation, q = <<a, s>>, prevent[a], c \in Taken(q), IsDue(s, c)
        PROVE  c \in config
    <3>1. s # Local
      BY <1>c, <2>1, <2>4 DEF TypeInv, ProcInv
    <3>2. SyncAt(s, c)
      BY <1>a, <3>1 DEF SyncInv
    <3>3. c \in snap[a]
      BY <2>1, <2>4, <3>2 DEF SyncAt, IsDue, Unconfirmed
    <3> QED BY <3>3 DEF SnapInv
  <2> QED BY <1>b, <1>c, <2>1, <2>2, <2>3, <2>4, LostFrame DEF Writing
<1>16. ASSUME NEW q \in Process, NoActivateNeeded(q) PROVE LostAt(s, c)'
  <2>1. /\ UNCHANGED <<config, editor, running, changes, prevent, rest, count, logged>>
        /\ \A r \in Process : r # q => pc'[r] = pc[r]
        /\ pc[q] = "activate" /\ pc'[q] \in {"confirm"}
    BY <1>16 DEF NoActivateNeeded, TypeInv, TypeOK
  <2>2. IsDue(s, c)' = IsDue(s, c)
    BY <2>1 DEF IsDue
  <2>3. q[2] = s => Taken(q) = {}
    <3>1. count[q] = 0
      BY <1>16 DEF NoActivateNeeded
    <3>2. 1..0 = {}
      OBVIOUS
    <3> QED BY <3>1, <3>2 DEF Taken
  <2> QED BY <1>b, <1>c, <2>1, <2>2, <2>3, LostFrame DEF Writing
<1>17. ASSUME NEW q \in Process, NEW effect \in BOOLEAN, NEW answer \in BOOLEAN, DoActivate(q,
             effect, answer)
       PROVE  LostAt(s, c)'
  <2>1. /\ UNCHANGED <<config, editor, changes, prevent, rest, count, logged>>
        /\ \A r \in Process : r # q => pc'[r] = pc[r]
        /\ pc[q] = "activate" /\ pc'[q] \in {"confirm", "unlock"}
        /\ ~effect => pc'[q] = "unlock" /\ running' = running
        /\ effect => /\ running'[q[2]] = IF q[2] = Local THEN config ELSE synced[q[2]]
                     /\ \A t \in Site : t # q[2] => running'[t] = running[t]
    BY <1>17, ProcessFacts DEF DoActivate, TypeInv, TypeOK
  <2>2. IsDue(s, c)' = IsDue(s, c)
    BY <2>1 DEF IsDue
  <2>3. CASE q[2] # s \/ ~effect
    BY <1>b, <1>c, <2>1, <2>2, <2>3, LostFrame DEF Writing
  <2>4. CASE q[2] = s /\ effect
    <3>1. \A a \in Activation : <<a, s>> # q => pc[<<a, s>>] \notin Working
      BY <1>a, <2>1, <2>4, AloneFacts DEF Working
    <3>2. \A a \in Activation : pc'[<<a, s>>] # "truncate"
                                /\ (pc'[<<a, s>>] = "confirm" => <<a, s>> = q)
      BY <1>c, <1>d, <2>1, <3>1
    <3>3. Waiting(s, c)' = Waiting(s, c)
      BY <1>c, <2>1 DEF Waiting, Writing
    <3>4. count[q] <= Len(changes[s])
      BY <1>a, <2>1, <2>4, ProcessFacts DEF CountInv, Unconfirmed
    <3>5. Taken(q) \subseteq Ids(changes[s]) /\ Later(q) \subseteq Ids(changes[s])
      BY <2>4, <3>4, TakenFacts DEF TypeInv
    <3>6. Taken(q)' = Taken(q)
      BY <2>1 DEF Taken
    <3>7. ASSUME IsDue(s, c)
          PROVE  /\ c \in running'[s] \/ Waiting(s, c)
                 /\ c \in config \/ Waiting(s, c)
                 /\ c \in Taken(q) => c \in config /\ c \in running'[s]
      <4>1. CASE s = Local
        <5>1. running'[s] = config
          BY <2>1, <2>4, <4>1
        <5>2. c \in config \/ Waiting(s, c)
          BY <1>b, <3>7 DEF LostAt
        <5>3. c \in Ids(changes[s]) => c \in config
          BY <1>17, <2>4, <3>7, <4>1 DEF DoActivate, IsDue
        <5> QED BY <3>5, <5>1, <5>2, <5>3
      <4>2. CASE s # Local
        <5>1. running'[s] = synced[s]
          BY <2>1, <2>4, <4>2
        <5>2. SyncAt(s, c)
          BY <1>a, <4>2 DEF SyncInv
        <5>3. PICK a \in Activation : q = <<a, s>>
          BY <2>4, ProcessFacts
        <5>4. /\ c \in Taken(q) => c \in synced[s]
              /\ c \in synced[s] \/ c \in Later(q)
          BY <2>1, <3>7, <5>2, <5>3 DEF SyncAt, IsDue
        <5>5. c \in synced[s] => c \in config
          BY <4>2 DEF SnapInv
        <5>6. c \in Later(q) => Waiting(s, c)
          BY <3>5 DEF Waiting
        <5> QED BY <5>1, <5>4, <5>5, <5>6
      <4> QED BY <4>1, <4>2
    <3> HIDE DEF Taken, Waiting, IsDue
    <3> QED BY <2>1, <2>2, <3>2, <3>3, <3>6, <3>7 DEF LostAt
  <2> QED BY <2>3, <2>4
<1>18. ASSUME NEW q \in Process, ConfirmLoad(q) PROVE LostAt(s, c)'
  <2>1. /\ UNCHANGED <<config, editor, changes, prevent, running, count, logged>>
    BY <1>18 DEF ConfirmLoad
  <2>2. /\ pc[q] = "confirm" /\ pc'[q] = "truncate"
        /\ \A r \in Process : r # q => pc'[r] = pc[r] /\ rest'[r] = rest[r]
        /\ ~prevent[q[1]] => Ids(rest'[q]) = Later(q)
        /\ prevent[q[1]] => Ids(rest'[q]) = Ids(changes[q[2]])
    BY <1>18, ConfirmEffect DEF TypeInv
  <2>3. IsDue(s, c)' = IsDue(s, c)
    BY <2>1 DEF IsDue
  <2>4. CASE q[2] # s
    BY <1>b, <1>c, <2>1, <2>2, <2>3, <2>4, LostFrame
  <2>5. CASE q[2] = s
    <3>1. \A a \in Activation : <<a, s>> # q => pc[<<a, s>>] \notin Working
      BY <1>a, <1>d, <2>2, <2>5, AloneFacts
    <3>2. Waiting(s, c) => c \in Ids(changes[s])
      BY <1>d, <2>2, <3>1 DEF Waiting
    <3>3. c \in Ids(changes[s]) => Waiting(s, c)'
      BY <2>1 DEF Waiting
    <3>4. count[q] <= Len(changes[s])
      BY <1>a, <2>2, <2>5, ProcessFacts DEF CountInv, Unconfirmed
    <3>5. Ids(changes[s]) = Taken(q) \cup Later(q)
      BY <2>5, <3>4, TakenFacts DEF TypeInv
    <3>6. \A a \in Activation : /\ pc'[<<a, s>>] # "confirm"
                                /\ pc'[<<a, s>>] = "truncate" => <<a, s>> = q /\ q[1] = a
      BY <1>c, <1>d, <2>2, <3>1
    <3>7. IsDue(s, c) => c \in Ids(rest'[q]) \/ (c \in config /\ c \in running[s])
      <4>1. PICK a \in Activation : q = <<a, s>> /\ q[1] = a
        BY <2>5, ProcessFacts
      <4> HIDE DEF Taken, Later, Waiting, IsDue
      <4> QED BY <1>b, <2>2, <2>5, <3>2, <3>5, <4>1 DEF LostAt
    <3> HIDE DEF Taken, Later, Waiting, IsDue
    <3> QED BY <1>b, <2>1, <2>3, <3>2, <3>3, <3>6, <3>7 DEF LostAt
  <2> QED BY <2>4, <2>5
<1>19. ASSUME NEW q \in Process, Truncate(q) PROVE LostAt(s, c)'
  <2>1. /\ UNCHANGED <<config, editor, running, prevent, rest, count, logged>>
        /\ \A r \in Process : r # q => pc'[r] = pc[r]
        /\ pc[q] = "truncate" /\ pc'[q] = IF rest[q] = <<>> THEN "unlock" ELSE "rewrite"
        /\ \A t \in Site : t # q[2] => changes'[t] = changes[t]
    BY <1>19 DEF Truncate, TypeInv, TypeOK
  <2>2. IsDue(s, c)' = IsDue(s, c)
    BY <2>1 DEF IsDue
  <2>3. CASE q[2] # s
    BY <1>b, <1>c, <2>1, <2>2, <2>3, LostFrame
  <2>4. CASE q[2] = s
    <3>1. \A a \in Activation : <<a, s>> # q => pc[<<a, s>>] \notin Working
      BY <1>a, <1>d, <2>1, <2>4, AloneFacts
    <3>2. c \in Ids(rest[q]) => Waiting(s, c)'
      <4>1. PICK a \in Activation : q = <<a, s>>
        BY <2>4, ProcessFacts
      <4> QED BY <2>1, <4>1, EmptyFacts DEF Waiting, Writing
    <3>3. \A a \in Activation : pc'[<<a, s>>] \notin {"confirm", "truncate"}
      BY <1>c, <1>d, <2>1, <3>1
    <3>4. IsDue(s, c) => c \in Ids(rest[q]) \/ (c \in config /\ c \in running[s])
      <4>1. PICK a \in Activation : q = <<a, s>>
        BY <2>4, ProcessFacts
      <4> QED BY <1>b, <2>1, <4>1 DEF LostAt
    <3> HIDE DEF Taken, Waiting, IsDue
    <3> QED BY <2>1, <2>2, <3>2, <3>3, <3>4 DEF LostAt
  <2> QED BY <2>3, <2>4
<1>20. ASSUME NEW q \in Process, Rewrite(q) PROVE LostAt(s, c)'
  <2>1. /\ UNCHANGED <<config, editor, running, prevent, count, logged>>
    BY <1>20 DEF Rewrite
  <2>2. /\ \A r \in Process : r # q => pc'[r] = pc[r] /\ rest'[r] = rest[r]
        /\ pc[q] \in Writing /\ pc'[q] \in {"append", "unlock"}
        /\ \A t \in Site : t # q[2] => changes'[t] = changes[t]
        /\ Ids(changes'[q[2]]) \cup Ids(rest'[q]) = Ids(changes[q[2]]) \cup Ids(rest[q])
        /\ pc'[q] = "unlock" => Ids(rest'[q]) = {}
    BY <1>20, RewriteEffect
  <2>3. IsDue(s, c)' = IsDue(s, c)
    BY <2>1 DEF IsDue
  <2>4. CASE q[2] # s
    BY <1>b, <1>c, <2>1, <2>2, <2>3, <2>4, LostFrame
  <2>5. CASE q[2] = s
    <3>1. \A a \in Activation : <<a, s>> # q => pc[<<a, s>>] \notin Working
      BY <1>a, <1>d, <2>2, <2>5, AloneFacts
    <3>2. Waiting(s, c) => c \in Ids(changes[s]) \cup Ids(rest[q])
      BY <1>d, <3>1 DEF Waiting
    <3>3. c \in Ids(changes'[s]) \cup Ids(rest'[q]) => Waiting(s, c)'
      <4>1. PICK a \in Activation : q = <<a, s>>
        BY <2>5, ProcessFacts
      <4> QED BY <2>2, <4>1 DEF Waiting, Writing
    <3>4. \A a \in Activation : pc'[<<a, s>>] \notin {"confirm", "truncate"}
      BY <1>c, <1>d, <2>2, <3>1
    <3> HIDE DEF Taken, Waiting, IsDue
    <3> QED BY <1>b, <2>1, <2>2, <2>3, <2>5, <3>2, <3>3, <3>4 DEF LostAt
  <2> QED BY <2>4, <2>5
<1>21. ASSUME NEW q \in Process, UnlockActivation(q) PROVE LostAt(s, c)'
  <2>1. /\ UNCHANGED <<config, editor, running, changes, prevent, logged>>
        /\ \A r \in Process : r # q => pc'[r] = pc[r] /\ rest'[r] = rest[r] /\ count'[r] = count[r]
        /\ pc'[q] = "done"
    BY <1>21 DEF UnlockActivation, Forget, TypeInv, TypeOK
  <2>2. IsDue(s, c)' = IsDue(s, c)
    BY <2>1 DEF IsDue
  <2>3. q[2] = s => pc[q] \notin Writing
    BY <1>21, ProcessFacts DEF UnlockActivation, Writing
  <2> QED BY <1>b, <1>c, <2>1, <2>2, <2>3, LostFrame
<1>22. ASSUME NEW q \in Process, Crash(q) PROVE LostAt(s, c)'
  <2>1. /\ UNCHANGED <<config, editor, running, changes, prevent, logged>>
        /\ \A r \in Process : r # q => pc'[r] = pc[r] /\ rest'[r] = rest[r] /\ count'[r] = count[r]
        /\ pc'[q] = "done"
    BY <1>22 DEF Crash, Forget, TypeInv, TypeOK
  <2>2. IsDue(s, c)' = IsDue(s, c)
    BY <2>1 DEF IsDue
  <2>3. q[2] = s => pc[q] \notin Writing
    BY <1>22, ProcessFacts DEF Crash, Writing
  <2> QED BY <1>b, <1>c, <2>1, <2>2, <2>3, LostFrame
<1>23. CASE UNCHANGED vars
  BY <1>b, <1>23, LostFrame DEF vars, IsDue
<1> HIDE DEF WorkInv, uservars, filevars, sitevars, managervars, procvars
<1> QED BY <1>1, <1>2, <1>3, <1>4, <1>5, <1>6, <1>7, <1>8, <1>9, <1>10, <1>11, <1>12, <1>13,
           <1>14, <1>15, <1>16, <1>17, <1>18, <1>19, <1>20, <1>21, <1>22, <1>23
        DEF Next, Edit, Request, Manage, Step

LEMMA SyncIds == ASSUME NEW q \in Seq(Entry) PROVE InSync(q) \subseteq Ids(q) /\ ToSync(q) \subseteq Ids(q)
BY DEF InSync, ToSync, Ids

\* A change that is due will be transferred.
LEMMA StepSync ==
  ASSUME TypeInv, IdInv, SnapInv, WorkInv, LostInv, SyncInv, [Next]_vars
  PROVE  SyncInv'
<1> SUFFICES ASSUME NEW s \in Site, s \notin raced', s # Local, NEW c \in Change
             PROVE  SyncAt(s, c)'
  BY DEF SyncInv
<1>a. raced \subseteq raced' /\ s \notin raced
  BY RacedGrows
<1>b. SyncAt(s, c)
  BY <1>a DEF SyncInv
<1>c. \A a \in Activation : <<a, s>> \in Process /\ <<a, s>> # None /\ <<a, s>>[1] = a /\ <<a, s>>[2] = s
  BY DEF Process
<1>d. Writing \subseteq Working /\ Unconfirmed \subseteq Working /\ "truncate" \in Working /\ "confirm" \in Working
      /\ "truncate" \notin Writing /\ "confirm" \notin Writing /\ "confirm" \in Unconfirmed
  BY DEF Working, Writing, Unconfirmed
<1> USE DEF WorkInv, uservars, filevars, sitevars, managervars, procvars
<1>1. ASSUME NEW x \in Change, NEW sites \in Targets, NEW saved \in BOOLEAN, EditStart(x, sites,
             saved)
       PROVE  SyncAt(s, c)'
  <2>1. x \notin logged[s]
    BY <1>1 DEF EditStart, IdInv
  <2>2. /\ UNCHANGED <<pc, count, rest, snap, synced, changes, logged>>
        /\ editor.op = "none" /\ editor'.op = "edit" /\ editor'.id = x /\ config' \subseteq config \cup {x}
    BY <1>1 DEF EditStart
  <2>3. IsDue(s, c)' => IsDue(s, c)
    BY <2>1, <2>2 DEF IsDue
  <2> QED BY <1>b, <2>2, <2>3, SyncFrame DEF Unconfirmed, Before
<1>2. ASSUME NEW z \in Site, EditLog(z) PROVE SyncAt(s, c)'
  <2>1. /\ LogEntry(z, editor.id) /\ editor.id \in Change
        /\ UNCHANGED <<pc, count, rest, snap, synced, config>>
    BY <1>2, EditorFacts DEF EditLog, TypeInv
  <2>2. /\ owner[z] = None /\ Ids(changes'[z]) = Ids(changes[z]) \cup {editor.id}
        /\ InSync(changes'[z]) \subseteq InSync(changes[z])
        /\ ToSync(changes[z]) \subseteq ToSync(changes'[z]) /\ editor.id \in ToSync(changes'[z])
        /\ \A t \in Site : t # z => changes'[t] = changes[t]
    BY <2>1, LogEffect DEF TypeInv
  <2>3. /\ editor.op = "edit" /\ editor'.op = "edit" /\ editor'.id = editor.id /\ z \in editor.left
        /\ logged'[z] = logged[z] \cup {editor.id}
        /\ \A t \in Site : t # z => logged'[t] = logged[t]
    BY <1>2, EditorFacts DEF EditLog, TypeInv, TypeOK
  <2>4. CASE s # z
    <3>1. changes'[s] = changes[s] /\ logged'[s] = logged[s] /\ IsDue(s, c)' = IsDue(s, c)
      BY <2>1, <2>2, <2>3, <2>4 DEF IsDue
    <3> QED BY <1>b, <2>1, <3>1, SyncFrame DEF Unconfirmed, Before
  <2>5. CASE s = z
    <3>1. \A a \in Activation : pc[<<a, s>>] \notin {"truncate", "rewrite"}
      BY <1>a, <1>c, <2>1, <2>2, <2>5 DEF OwnInv
    <3>2. ASSUME NEW a \in Activation, pc[<<a, s>>] \in Unconfirmed
          PROVE  /\ Taken(<<a, s>>)' = Taken(<<a, s>>) /\ Later(<<a, s>>) \subseteq Later(<<a, s>>)'
                 /\ editor.id \in Later(<<a, s>>)' /\ Taken(<<a, s>>) \subseteq Ids(changes[s])
      <4>1. count[<<a, s>>] <= Len(changes[s])
        BY <1>a, <3>2 DEF CountInv
      <4>2. /\ Taken(<<a, s>>)' = Taken(<<a, s>>) /\ Later(<<a, s>>) \subseteq Later(<<a, s>>)'
            /\ editor.id \in Later(<<a, s>>)'
        BY <1>c, <2>1, <2>5, <4>1, LogTaken DEF TypeInv
      <4>3. Taken(<<a, s>>) \subseteq Ids(changes[s])
        BY <1>c, <4>1, TakenFacts DEF TypeInv
      <4> QED BY <4>2, <4>3
    <3>3. /\ editor.id \notin Ids(changes[s]) /\ editor.id \notin InSync(changes[s])
          /\ \A a \in Activation : editor.id \notin InSync(rest[<<a, s>>])
      <4>1. changes[s] \in Seq(Entry) /\ \A a \in Activation : rest[<<a, s>>] \in Seq(Entry)
        BY <1>c DEF TypeInv, TypeOK
      <4>2. editor.id \notin Ids(changes[s]) /\ \A a \in Activation : editor.id \notin Ids(rest[<<a, s>>])
        BY <2>3, <2>5 DEF IdInv
      <4> QED BY <4>1, <4>2, SyncIds
    <3>4. \A a \in Activation : /\ pc[<<a, s>>] \in Before => pc[<<a, s>>] \in Unconfirmed
                                /\ pc[<<a, s>>] \in {"activate", "confirm"} => pc[<<a, s>>] \in Unconfirmed
      BY DEF Before, Unconfirmed
    <3> HIDE DEF Taken, Later, Before, Unconfirmed, Writing
    <3>5. CASE c = editor.id
      <4> SUFFICES ASSUME NEW a \in Activation
                   PROVE  /\ c \notin InSync(changes'[s]) /\ c \in ToSync(changes'[s])
                          /\ pc[<<a, s>>] \in Unconfirmed => c \notin Taken(<<a, s>>)' /\ c \in Later(<<a, s>>)'
                          /\ pc[<<a, s>>] # "truncate" /\ c \notin InSync(rest[<<a, s>>])
        BY <2>1, <2>2, <2>5, <3>3, <3>4, <3>5 DEF SyncAt
      <4> QED BY <2>2, <2>5, <3>1, <3>2, <3>3, <3>5
    <3>6. CASE c # editor.id
      <4>1. (IsDue(s, c)' => IsDue(s, c)) /\ (c \in logged'[s] => c \in logged[s])
        BY <2>1, <2>3, <2>5, <3>6 DEF IsDue
      <4> SUFFICES ASSUME c \in logged[s] PROVE SyncAt(s, c)'
        BY <4>1 DEF SyncAt
      <4>2. IsDue(s, c)' =>
               \/ c \in synced'[s] \/ c \in ToSync(changes'[s])
               \/ \E a \in Activation : pc'[<<a, s>>] \in Writing /\ c \in ToSync(rest'[<<a, s>>])
        BY <1>b, <2>1, <2>2, <2>5, <4>1 DEF SyncAt
      <4>3. c \in InSync(changes'[s]) => c \in synced'[s]
        BY <1>b, <2>1, <2>2, <2>5 DEF SyncAt
      <4>4. ASSUME NEW a \in Activation
            PROVE  /\ pc[<<a, s>>] \in Unconfirmed /\ c \in Taken(<<a, s>>)' => c \in snap[a]
                   /\ pc[<<a, s>>] \in Before /\ IsDue(s, c)' => c \in snap[a] \/ c \in Later(<<a, s>>)'
                   /\ pc[<<a, s>>] \in {"activate", "confirm"} =>
                         /\ c \in Taken(<<a, s>>)' => c \in synced[s]
                         /\ IsDue(s, c)' => c \in synced[s] \/ c \in Later(<<a, s>>)'
                   /\ pc[<<a, s>>] = "append" /\ c \in InSync(rest[<<a, s>>]) => c \in synced[s]
        BY <1>b, <3>2, <3>4, <4>1 DEF SyncAt
      <4> QED BY <2>1, <3>1, <4>2, <4>3, <4>4 DEF SyncAt
    <3> QED BY <3>5, <3>6
  <2> QED BY <2>4, <2>5
<1>3. CASE EditEnd
  <2>1. /\ UNCHANGED <<pc, count, rest, snap, synced, changes, logged>>
        /\ editor.op = "edit" /\ editor'.op = "none" /\ config' = config \cup {editor.id}
    BY <1>3 DEF EditEnd, Idle
  <2>2. IsDue(s, c)' => IsDue(s, c)
    BY <2>1 DEF IsDue
  <2> QED BY <1>b, <2>1, <2>2, SyncFrame DEF Unconfirmed, Before
<1>4. ASSUME NEW x \in Change, DiscardStart(x) PROVE SyncAt(s, c)'
  <2>1. /\ UNCHANGED <<pc, count, rest, snap, synced, changes, logged>>
        /\ editor.op = "none" /\ editor'.op = "discard" /\ config' = config
    BY <1>4 DEF DiscardStart
  <2>2. IsDue(s, c)' => IsDue(s, c)
    BY <2>1 DEF IsDue
  <2> QED BY <1>b, <2>1, <2>2, SyncFrame DEF Unconfirmed, Before
<1>5. ASSUME NEW z \in Site, DiscardLog(z) PROVE SyncAt(s, c)'
  <2>1. /\ LogEntry(z, editor.id) /\ editor.id \in Change
        /\ UNCHANGED <<pc, count, rest, snap, synced, config>>
    BY <1>5, EditorFacts DEF DiscardLog, TypeInv
  <2>2. /\ owner[z] = None /\ Ids(changes'[z]) = Ids(changes[z]) \cup {editor.id}
        /\ InSync(changes'[z]) \subseteq InSync(changes[z])
        /\ ToSync(changes[z]) \subseteq ToSync(changes'[z]) /\ editor.id \in ToSync(changes'[z])
        /\ \A t \in Site : t # z => changes'[t] = changes[t]
    BY <2>1, LogEffect DEF TypeInv
  <2>3. /\ editor.op = "discard" /\ editor'.op = "discard" /\ UNCHANGED logged
    BY <1>5, EditorFacts DEF DiscardLog, TypeInv
  <2>4. IsDue(s, c)' => IsDue(s, c)
    BY <2>1, <2>3 DEF IsDue
  <2>5. CASE s # z
    <3>1. changes'[s] = changes[s]
      BY <2>2, <2>5
    <3> QED BY <1>b, <2>1, <2>3, <2>4, <3>1, SyncFrame DEF Unconfirmed, Before
  <2>6. CASE s = z
    <3>1. \A a \in Activation : pc[<<a, s>>] \notin Working
      BY <1>a, <2>3 DEF QuietInv, Busy, Discarding
    <3>2. \A a \in Activation : /\ pc[<<a, s>>] \notin Writing \cup Unconfirmed \cup {"truncate"}
                                /\ pc[<<a, s>>] \notin {"activate", "confirm", "rewrite", "append"}
                                /\ pc[<<a, s>>] \notin Before
      BY <3>1 DEF Working, Writing, Unconfirmed, Before
    <3> QED BY <1>b, <2>1, <2>2, <2>3, <2>4, <2>6, <3>2 DEF SyncAt
  <2> QED BY <2>5, <2>6
<1>6. CASE DiscardExtract
  <2>1. /\ editor'.op = "restart" /\ UNCHANGED <<pc, count, rest, snap, synced, changes, logged>>
    BY <1>6, EditorFacts DEF DiscardExtract, TypeInv
  <2>2. config' \subseteq config
    <3>1. backup # None
      BY <1>6 DEF DiscardExtract, TypeInv, DiscardInv, Discarding
    <3>2. backup \in SUBSET Change
      BY <3>1, BackupFacts DEF TypeInv
    <3> QED BY <1>6, <3>1, <3>2 DEF DiscardExtract, SnapInv, Saved
  <2>3. IsDue(s, c)' => IsDue(s, c)
    BY <2>1, <2>2 DEF IsDue
  <2> QED BY <1>b, <2>1, <2>3, SyncFrame DEF Unconfirmed, Before
<1>7. CASE DiscardRestart
  <2>1. /\ UNCHANGED <<pc, count, rest, snap, synced, changes, logged>>
        /\ editor.op = "restart" /\ editor'.op = "clear" /\ config' = config
    BY <1>7, EditorFacts DEF DiscardRestart, TypeInv
  <2>2. IsDue(s, c)' => IsDue(s, c)
    BY <2>1 DEF IsDue
  <2> QED BY <1>b, <2>1, <2>2, SyncFrame DEF Unconfirmed, Before
<1>8. CASE DiscardFails
  <2>1. /\ UNCHANGED <<pc, count, rest, snap, synced, changes, logged>>
        /\ editor.op = "restart" /\ editor'.op = "none" /\ config' = config
    BY <1>8 DEF DiscardFails, Idle
  <2>2. IsDue(s, c)' => IsDue(s, c)
    BY <2>1 DEF IsDue
  <2> QED BY <1>b, <2>1, <2>2, SyncFrame DEF Unconfirmed, Before
<1>9. ASSUME NEW z \in Site, DiscardClear(z) PROVE SyncAt(s, c)'
  <2>1. /\ editor.op = "clear" /\ editor'.op \in {"none", "clear"}
        /\ UNCHANGED <<pc, count, rest, snap, config, synced, logged>>
    BY <1>9, EditorFacts DEF DiscardClear, TypeInv, Idle
  <2>2. IsDue(s, c)' => IsDue(s, c) /\ c \in config /\ c \in logged[s]
    BY <2>1 DEF IsDue
  <2>3. CASE s # z
    <3>1. changes'[s] = changes[s]
      BY <1>9, <2>3 DEF DiscardClear, TypeInv, TypeOK
    <3> QED BY <1>b, <2>1, <2>2, <3>1, SyncFrame DEF Unconfirmed, Before
  <2>4. CASE s = z
    <3>1. \A a \in Activation : pc[<<a, s>>] \notin Working
      BY <1>a, <2>1 DEF QuietInv, Busy, Discarding
    <3>2. \A a \in Activation : /\ pc[<<a, s>>] \notin Writing \cup Unconfirmed \cup {"truncate"}
                                /\ pc[<<a, s>>] \notin {"activate", "confirm", "rewrite", "append"}
                                /\ pc[<<a, s>>] \notin Before
      BY <3>1 DEF Working, Writing, Unconfirmed, Before
    <3>3. IsDue(s, c)' => c \in synced[s]
      <4>1. config = backup
        BY <2>1 DEF SnapInv
      <4>2. Ids(changes[s]) \cap logged[s] \cap backup = {}
        BY <1>9, <2>4 DEF DiscardClear
      <4>3. ToSync(changes[s]) \subseteq Ids(changes[s])
        BY SyncIds DEF TypeInv, TypeOK
      <4> QED BY <1>b, <2>2, <3>2, <4>1, <4>2, <4>3 DEF SyncAt
    <3>4. changes'[s] = <<>>
      BY <1>9, <2>4 DEF DiscardClear, TypeInv, TypeOK
    <3> QED BY <2>1, <2>2, <3>2, <3>3, <3>4, EmptyFacts DEF SyncAt
  <2> QED BY <2>3, <2>4
<1>10. ASSUME NEW b \in Activation, NEW sites \in SUBSET Site, NEW transfer \in BOOLEAN, Load(b,
             sites, transfer)
       PROVE  SyncAt(s, c)'
  <2>1. /\ UNCHANGED <<pc, count, rest, snap, synced, changes, logged>>
        /\ editor' = editor /\ config' = config
    BY <1>10 DEF Load
  <2>2. IsDue(s, c)' => IsDue(s, c)
    BY <2>1 DEF IsDue
  <2> QED BY <1>b, <2>1, <2>2, SyncFrame DEF Unconfirmed, Before
<1>11. ASSUME NEW b \in Activation, CreateSnapshots(b) PROVE SyncAt(s, c)'
  <2>1. /\ UNCHANGED <<pc, count, rest, config, editor, synced, changes, logged>>
        /\ \A a \in Activation : a # b => snap'[a] = snap[a]
    BY <1>11 DEF CreateSnapshots, TypeInv, TypeOK
  <2>2. pc[<<b, s>>] = "none"
    BY <1>11 DEF CreateSnapshots, TypeInv, ProcInv
  <2>3. IsDue(s, c)' = IsDue(s, c)
    BY <2>1 DEF IsDue
  <2> QED BY <1>b, <2>1, <2>2, <2>3, SyncFrame DEF Unconfirmed, Before
<1>12. ASSUME NEW b \in Activation, NEW z \in Site, Fork(b, z) PROVE SyncAt(s, c)'
  <2>1. /\ UNCHANGED <<config, editor, synced, changes, snap, rest, logged>>
        /\ \A r \in Process : r # <<b, z>> => pc'[r] = pc[r] /\ count'[r] = count[r]
        /\ pc'[<<b, z>>] = "ready" /\ count'[<<b, z>>] = Len(changes[z])
    BY <1>12 DEF Fork, ChangesTillActivation, TypeInv, TypeOK, Process
  <2>2. IsDue(s, c)' = IsDue(s, c)
    BY <2>1 DEF IsDue
  <2>3. CASE s # z
    BY <1>b, <1>c, <2>1, <2>2, <2>3, SyncFrame DEF Unconfirmed, Before
  <2>4. CASE s = z
    <3>1. ~Busy(s) /\ ~Late(b, s)
      BY <1>12, <2>4 DEF Fork
    <3>2. \A a \in Activation : pc[<<a, s>>] \notin Working
      BY <3>1 DEF Busy
    <3>3. /\ Len(changes[s]) \in Nat /\ DOMAIN changes[s] = 1..Len(changes[s])
          /\ (Len(changes[s]) + 1)..Len(changes[s]) = {}
      BY DEF TypeInv, TypeOK
    <3>4. Taken(<<b, s>>)' = Ids(changes[s])
      BY <2>1, <2>4, <3>3 DEF Taken, Ids
    <3>5. c \in logged[s] /\ (c \in config \/ c \in Ids(changes[s])) => c \in snap[b]
      BY <3>1 DEF Late
    <3>6. IsDue(s, c) => c \in snap[b]
      <4>1. LostAt(s, c)
        BY <1>a DEF LostInv
      <4>2. Waiting(s, c) => c \in Ids(changes[s])
        BY <1>d, <3>2 DEF Waiting
      <4> QED BY <3>5, <4>1, <4>2 DEF LostAt, IsDue
    <3>7. \A a \in Activation :
             /\ pc[<<a, s>>] \notin Writing /\ pc'[<<a, s>>] \notin Writing
             /\ pc'[<<a, s>>] \in Unconfirmed => a = b
             /\ pc'[<<a, s>>] \in Before => a = b
             /\ pc'[<<a, s>>] \notin {"activate", "confirm", "truncate", "rewrite", "append"}
      BY <1>c, <2>1, <2>4, <3>2 DEF Working, Writing, Unconfirmed, Before
    <3> HIDE DEF Taken, Later, Before, Unconfirmed, Writing, IsDue
    <3> QED BY <1>b, <2>1, <2>2, <3>4, <3>5, <3>6, <3>7 DEF SyncAt
  <2> QED BY <2>3, <2>4
<1>13. ASSUME NEW q \in Process, LockActivation(q) PROVE SyncAt(s, c)'
  <2>1. /\ UNCHANGED <<config, editor, changes, snap, rest, count, logged>>
        /\ \A r \in Process : r # q => pc'[r] = pc[r]
        /\ pc[q] = "ready" /\ pc'[q] \in {"sync", "unlock"}
        /\ synced' = synced
    BY <1>13 DEF LockActivation, TypeInv, TypeOK
  <2>2. IsDue(s, c)' = IsDue(s, c)
    BY <2>1 DEF IsDue
  <2> QED BY <1>b, <1>c, <2>1, <2>2, SyncFrame DEF Writing, Unconfirmed, Before
<1>14. ASSUME NEW q \in Process, NoSyncNeeded(q) PROVE SyncAt(s, c)'
  <2>1. /\ UNCHANGED <<config, editor, changes, snap, rest, count, logged>>
        /\ \A r \in Process : r # q => pc'[r] = pc[r]
        /\ pc[q] = "sync" /\ pc'[q] \in {"activate", "confirm"}
        /\ synced' = synced
    BY <1>14 DEF NoSyncNeeded, Synchronized, TypeInv, TypeOK
  <2>2. IsDue(s, c)' = IsDue(s, c)
    BY <2>1 DEF IsDue
  <2>3. CASE q[2] # s
    BY <1>b, <1>c, <2>1, <2>2, <2>3, SyncFrame DEF Unconfirmed, Before, Writing
  <2>4. CASE q[2] = s
    <3>1. \A a \in Activation : <<a, s>> # q => pc[<<a, s>>] \notin Working
      BY <1>a, <2>1, <2>4, AloneFacts DEF Working
    <3>2. PICK b \in Activation : q = <<b, s>> /\ q[1] = b
      BY <2>4, ProcessFacts
    <3>3. count[q] <= Len(changes[s]) /\ (\A i \in (count[q] + 1)..Len(changes[s]) : changes[s][i].sync)
      BY <1>a, <2>1, <3>2 DEF CountInv, Unconfirmed
    <3>4. /\ Ids(changes[s]) = Taken(q) \cup Later(q)
          /\ InSync(changes[s]) \subseteq Taken(q) /\ Later(q) \subseteq ToSync(changes[s])
          /\ (\A i \in 1..count[q] : ~changes[s][i].sync) =>
                Taken(q) \subseteq InSync(changes[s]) /\ ToSync(changes[s]) \subseteq Later(q)
      BY <2>4, <3>3, TakenFacts DEF TypeInv
    <3>5. Taken(q)' = Taken(q) /\ Later(q)' = Later(q)
      BY <2>1 DEF Taken, Later
    <3>6. \A a \in Activation :
             /\ pc[<<a, s>>] \notin Writing /\ pc'[<<a, s>>] \notin Writing
             /\ pc'[<<a, s>>] \in Unconfirmed => a = b
             /\ pc'[<<a, s>>] \notin Before /\ pc'[<<a, s>>] \notin {"truncate", "rewrite", "append"}
      BY <1>c, <2>1, <3>1, <3>2 DEF Working, Writing, Unconfirmed, Before
    <3>7. \A a \in Activation : pc'[<<a, s>>] \in {"activate", "confirm"} => pc'[<<a, s>>] \in Unconfirmed
      BY DEF Unconfirmed
    <3>8. \A i \in 1..count[q] : ~changes[s][i].sync
      <4>1. ~needs[q]
        BY <1>14 DEF NoSyncNeeded
      <4> QED BY <1>a, <2>1, <3>2, <4>1 DEF CountInv, Unconfirmed, Before
    <3>9. pc[q] \in Unconfirmed
      BY <2>1 DEF Unconfirmed
    <3> HIDE DEF Taken, Later, Before, Unconfirmed, Writing, IsDue
    <3>10. c \in logged[s] => /\ c \in Taken(q) => c \in synced[s]
                              /\ IsDue(s, c) => c \in synced[s] \/ c \in Later(q)
                              /\ c \in Taken(q) => c \in snap[b]
      <4>1. \A a \in Activation : pc[<<a, s>>] \notin Writing
        BY <3>6
      <4> QED BY <1>b, <3>2, <3>4, <3>8, <3>9, <4>1 DEF SyncAt
    <3> QED BY <1>b, <2>1, <2>2, <3>2, <3>4, <3>5, <3>6, <3>7, <3>10 DEF SyncAt
  <2> QED BY <2>3, <2>4
<1>15. ASSUME NEW q \in Process, NEW effect \in BOOLEAN, NEW answer \in BOOLEAN,
             SynchronizeSite(q, effect, answer)
       PROVE  SyncAt(s, c)'
  <2>1. /\ UNCHANGED <<config, editor, changes, snap, rest, count, logged>>
        /\ \A r \in Process : r # q => pc'[r] = pc[r]
        /\ pc[q] = "sync" /\ pc'[q] \in {"activate", "confirm", "unlock"}
        /\ ~effect => pc'[q] = "unlock" /\ synced' = synced
        /\ effect => /\ synced'[q[2]] = snap[q[1]]
                     /\ \A t \in Site : t # q[2] => synced'[t] = synced[t]
    BY <1>15, ProcessFacts DEF SynchronizeSite, Synchronized, TypeInv, TypeOK
  <2>2. IsDue(s, c)' = IsDue(s, c)
    BY <2>1 DEF IsDue
  <2>3. CASE q[2] # s \/ ~effect
    BY <1>b, <1>c, <2>1, <2>2, <2>3, SyncFrame DEF Unconfirmed, Before, Writing
  <2>4. CASE q[2] = s /\ effect
    <3>1. \A a \in Activation : <<a, s>> # q => pc[<<a, s>>] \notin Working
      BY <1>a, <2>1, <2>4, AloneFacts DEF Working
    <3>2. PICK b \in Activation : q = <<b, s>> /\ q[1] = b
      BY <2>4, ProcessFacts
    <3>3. count[q] <= Len(changes[s]) /\ (\A i \in (count[q] + 1)..Len(changes[s]) : changes[s][i].sync)
      BY <1>a, <2>1, <3>2 DEF CountInv, Unconfirmed
    <3>4. /\ Ids(changes[s]) = Taken(q) \cup Later(q)
          /\ InSync(changes[s]) \subseteq Taken(q) /\ Later(q) \subseteq ToSync(changes[s])
          /\ (\A i \in 1..count[q] : ~changes[s][i].sync) =>
                Taken(q) \subseteq InSync(changes[s]) /\ ToSync(changes[s]) \subseteq Later(q)
      BY <2>4, <3>3, TakenFacts DEF TypeInv
    <3>5. Taken(q)' = Taken(q) /\ Later(q)' = Later(q)
      BY <2>1 DEF Taken, Later
    <3>6. \A a \in Activation :
             /\ pc[<<a, s>>] \notin Writing /\ pc'[<<a, s>>] \notin Writing
             /\ pc'[<<a, s>>] \in Unconfirmed => a = b
             /\ pc'[<<a, s>>] \notin Before /\ pc'[<<a, s>>] \notin {"truncate", "rewrite", "append"}
      BY <1>c, <2>1, <3>1, <3>2 DEF Working, Writing, Unconfirmed, Before
    <3>7. \A a \in Activation : pc'[<<a, s>>] \in {"activate", "confirm"} => pc'[<<a, s>>] \in Unconfirmed
      BY DEF Unconfirmed
    <3>8. pc[q] \in Unconfirmed /\ pc[q] \in Before
      BY <2>1 DEF Unconfirmed, Before
    <3>9. synced'[s] = snap[b]
      BY <2>1, <2>4, <3>2
    <3> HIDE DEF Taken, Later, Before, Unconfirmed, Writing, IsDue
    <3>10. c \in logged[s] => /\ c \in Taken(q) => c \in snap[b]
                              /\ IsDue(s, c) => c \in snap[b] \/ c \in Later(q)
      BY <1>b, <3>2, <3>8 DEF SyncAt
    <3> QED BY <2>1, <2>2, <3>2, <3>4, <3>5, <3>6, <3>7, <3>9, <3>10 DEF SyncAt
  <2> QED BY <2>3, <2>4
<1>16. ASSUME NEW q \in Process, NoActivateNeeded(q) PROVE SyncAt(s, c)'
  <2>1. /\ UNCHANGED <<config, editor, changes, snap, rest, count, logged>>
        /\ \A r \in Process : r # q => pc'[r] = pc[r]
        /\ pc[q] = "activate" /\ pc'[q] \in {"confirm"}
        /\ synced' = synced
    BY <1>16 DEF NoActivateNeeded, TypeInv, TypeOK
  <2>2. IsDue(s, c)' = IsDue(s, c)
    BY <2>1 DEF IsDue
  <2> QED BY <1>b, <1>c, <2>1, <2>2, SyncFrame DEF Writing, Unconfirmed, Before
<1>17. ASSUME NEW q \in Process, NEW effect \in BOOLEAN, NEW answer \in BOOLEAN, DoActivate(q,
             effect, answer)
       PROVE  SyncAt(s, c)'
  <2>1. /\ UNCHANGED <<config, editor, changes, snap, rest, count, logged>>
        /\ \A r \in Process : r # q => pc'[r] = pc[r]
        /\ pc[q] = "activate" /\ pc'[q] \in {"confirm", "unlock"}
        /\ synced' = synced
    BY <1>17 DEF DoActivate, TypeInv, TypeOK
  <2>2. IsDue(s, c)' = IsDue(s, c)
    BY <2>1 DEF IsDue
  <2> QED BY <1>b, <1>c, <2>1, <2>2, SyncFrame DEF Writing, Unconfirmed, Before
<1>18. ASSUME NEW q \in Process, ConfirmLoad(q) PROVE SyncAt(s, c)'
  <2>1. /\ UNCHANGED <<config, editor, changes, synced, snap, count, logged>>
        /\ \A r \in Process : r # q => pc'[r] = pc[r] /\ rest'[r] = rest[r]
        /\ pc[q] = "confirm" /\ pc'[q] = "truncate"
    BY <1>18, ConfirmEffect DEF ConfirmLoad, TypeInv
  <2>2. IsDue(s, c)' = IsDue(s, c)
    BY <2>1 DEF IsDue
  <2>3. CASE q[2] # s
    BY <1>b, <1>c, <2>1, <2>2, <2>3, SyncFrame DEF Unconfirmed, Before, Writing
  <2>4. CASE q[2] = s
    <3>1. \A a \in Activation : <<a, s>> # q => pc[<<a, s>>] \notin Working
      BY <1>a, <2>1, <2>4, AloneFacts DEF Working
    <3>2. PICK b \in Activation : q = <<b, s>> /\ q[1] = b
      BY <2>4, ProcessFacts
    <3>3. count[q] <= Len(changes[s]) /\ (\A i \in (count[q] + 1)..Len(changes[s]) : changes[s][i].sync)
      BY <1>a, <2>1, <3>2 DEF CountInv, Unconfirmed
    <3>4. /\ Ids(changes[s]) = Taken(q) \cup Later(q)
          /\ InSync(changes[s]) \subseteq Taken(q) /\ Later(q) \subseteq ToSync(changes[s])
          /\ (\A i \in 1..count[q] : ~changes[s][i].sync) =>
                Taken(q) \subseteq InSync(changes[s]) /\ ToSync(changes[s]) \subseteq Later(q)
      BY <2>4, <3>3, TakenFacts DEF TypeInv
    <3>5. /\ ~prevent[b] => InSync(rest'[q]) = {} /\ ToSync(rest'[q]) = Later(q)
          /\ prevent[b] => Ids(rest'[q]) = Ids(changes[s]) /\ Later(q) = {}
      BY <1>18, <2>4, <3>2, <3>3, ConfirmEffect DEF TypeInv
    <3>6. InSync(rest'[q]) \subseteq Ids(rest'[q])
      <4>1. rest'[q] \in Seq(Entry)
        BY StepType DEF TypeOK
      <4> QED BY <4>1, SyncIds
    <3>7. \A a \in Activation :
             /\ pc[<<a, s>>] \notin Writing /\ pc'[<<a, s>>] \notin Writing \cup Unconfirmed \cup Before
             /\ pc'[<<a, s>>] \in {"truncate", "rewrite", "append"} => a = b
             /\ pc'[<<a, s>>] \notin {"activate", "confirm"}
      BY <1>c, <2>1, <3>1, <3>2 DEF Working, Writing, Unconfirmed, Before
    <3> HIDE DEF Taken, Later, Before, Unconfirmed, Writing, IsDue
    <3>8. c \in logged[s] => /\ c \in Taken(q) => c \in synced[s]
                             /\ IsDue(s, c) => c \in synced[s] \/ c \in Later(q)
      BY <1>b, <2>1, <3>2 DEF SyncAt
    <3>9. c \in logged[s] => /\ IsDue(s, c) => c \in synced[s] \/ c \in ToSync(rest'[q])
                             /\ c \in InSync(rest'[q]) => c \in synced[s]
      BY <3>4, <3>5, <3>6, <3>8
    <3> QED BY <1>b, <2>1, <2>2, <3>2, <3>7, <3>9 DEF SyncAt
  <2> QED BY <2>3, <2>4
<1>19. ASSUME NEW q \in Process, Truncate(q) PROVE SyncAt(s, c)'
  <2>1. /\ UNCHANGED <<config, editor, synced, snap, rest, count, logged>>
        /\ \A r \in Process : r # q => pc'[r] = pc[r]
        /\ pc[q] = "truncate" /\ pc'[q] = IF rest[q] = <<>> THEN "unlock" ELSE "rewrite"
        /\ \A t \in Site : t # q[2] => changes'[t] = changes[t]
        /\ changes'[q[2]] = <<>>
    BY <1>19, ProcessFacts DEF Truncate, TypeInv, TypeOK
  <2>2. IsDue(s, c)' = IsDue(s, c)
    BY <2>1 DEF IsDue
  <2>3. CASE q[2] # s
    BY <1>b, <1>c, <2>1, <2>2, <2>3, SyncFrame DEF Unconfirmed, Before, Writing
  <2>4. CASE q[2] = s
    <3>1. \A a \in Activation : <<a, s>> # q => pc[<<a, s>>] \notin Working
      BY <1>a, <2>1, <2>4, AloneFacts DEF Working
    <3>2. PICK b \in Activation : q = <<b, s>> /\ q[1] = b
      BY <2>4, ProcessFacts
    <3>3. \A a \in Activation :
             /\ pc'[<<a, s>>] \notin Unconfirmed \cup Before \cup {"truncate", "activate", "confirm"}
             /\ pc'[<<a, s>>] \in {"rewrite", "append"} => a = b
      BY <1>c, <2>1, <3>1, <3>2 DEF Working, Unconfirmed, Before
    <3>4. rest[q] # <<>> => pc'[q] \in Writing
      BY <2>1 DEF Writing
    <3> HIDE DEF Taken, Later, Before, Unconfirmed, Writing, IsDue
    <3>5. c \in logged[s] => /\ IsDue(s, c) => c \in synced[s] \/ c \in ToSync(rest[q])
                             /\ c \in InSync(rest[q]) => c \in synced[s]
      BY <1>b, <2>1, <3>2 DEF SyncAt
    <3> QED BY <2>1, <2>2, <2>4, <3>2, <3>3, <3>4, <3>5, EmptyFacts DEF SyncAt
  <2> QED BY <2>3, <2>4
<1>20. ASSUME NEW q \in Process, Rewrite(q) PROVE SyncAt(s, c)'
  <2>1. /\ UNCHANGED <<config, editor, synced, snap, count, logged>>
    BY <1>20 DEF Rewrite
  <2>2. /\ \A r \in Process : r # q => pc'[r] = pc[r] /\ rest'[r] = rest[r]
        /\ pc[q] \in Writing /\ pc'[q] \in {"append", "unlock"}
        /\ \A t \in Site : t # q[2] => changes'[t] = changes[t]
        /\ ToSync(changes[q[2]]) \cup ToSync(rest[q]) \subseteq ToSync(changes'[q[2]]) \cup ToSync(rest'[q])
        /\ InSync(changes'[q[2]]) \subseteq InSync(changes[q[2]]) \cup InSync(rest[q])
        /\ InSync(rest'[q]) \subseteq InSync(rest[q])
        /\ pc'[q] = "unlock" => ToSync(rest'[q]) = {}
    BY <1>20, RewriteEffect
  <2>3. IsDue(s, c)' = IsDue(s, c)
    BY <2>1 DEF IsDue
  <2>4. CASE q[2] # s
    BY <1>b, <1>c, <2>1, <2>2, <2>3, <2>4, SyncFrame DEF Unconfirmed, Before
  <2>5. CASE q[2] = s
    <3>1. \A a \in Activation : <<a, s>> # q => pc[<<a, s>>] \notin Working
      BY <1>a, <1>d, <2>2, <2>5, AloneFacts
    <3>2. PICK b \in Activation : q = <<b, s>> /\ q[1] = b
      BY <2>5, ProcessFacts
    <3>3. \A a \in Activation :
             /\ pc[<<a, s>>] \in Writing => a = b
             /\ pc'[<<a, s>>] \notin Unconfirmed \cup Before \cup {"truncate", "activate", "confirm"}
             /\ pc'[<<a, s>>] \in {"rewrite", "append"} => a = b
      BY <1>c, <2>2, <3>1, <3>2 DEF Working, Writing, Unconfirmed, Before
    <3>4. pc'[q] = "unlock" \/ pc'[q] \in Writing
      BY <2>2 DEF Writing
    <3>5. pc[q] \in {"truncate", "rewrite", "append"}
      BY <2>2 DEF Writing
    <3> HIDE DEF Taken, Later, Before, Unconfirmed, Writing, IsDue
    <3>6. c \in logged[s] => /\ IsDue(s, c) => c \in synced[s] \cup ToSync(changes[s]) \cup ToSync(rest[q])
                             /\ c \in InSync(changes[s]) \cup InSync(rest[q]) => c \in synced[s]
      BY <1>b, <3>2, <3>3, <3>5 DEF SyncAt
    <3> QED BY <2>1, <2>2, <2>3, <2>5, <3>2, <3>3, <3>4, <3>6 DEF SyncAt
  <2> QED BY <2>4, <2>5
<1>21. ASSUME NEW q \in Process, UnlockActivation(q) PROVE SyncAt(s, c)'
  <2>1. /\ UNCHANGED <<config, editor, synced, changes, snap, logged>>
        /\ \A r \in Process : r # q => pc'[r] = pc[r] /\ rest'[r] = rest[r] /\ count'[r] = count[r]
        /\ pc'[q] = "done"
    BY <1>21 DEF UnlockActivation, Forget, TypeInv, TypeOK
  <2>2. IsDue(s, c)' = IsDue(s, c)
    BY <2>1 DEF IsDue
  <2>3. q[2] = s => pc[q] \notin Writing
    BY <1>21, ProcessFacts DEF UnlockActivation, Writing
  <2> QED BY <1>b, <1>c, <2>1, <2>2, <2>3, SyncFrame DEF Unconfirmed, Before
<1>22. ASSUME NEW q \in Process, Crash(q) PROVE SyncAt(s, c)'
  <2>1. /\ UNCHANGED <<config, editor, synced, changes, snap, logged>>
        /\ \A r \in Process : r # q => pc'[r] = pc[r] /\ rest'[r] = rest[r] /\ count'[r] = count[r]
        /\ pc'[q] = "done"
    BY <1>22 DEF Crash, Forget, TypeInv, TypeOK
  <2>2. IsDue(s, c)' = IsDue(s, c)
    BY <2>1 DEF IsDue
  <2>3. q[2] = s => pc[q] \notin Writing
    BY <1>22, ProcessFacts DEF Crash, Writing
  <2> QED BY <1>b, <1>c, <2>1, <2>2, <2>3, SyncFrame DEF Unconfirmed, Before
<1>23. CASE UNCHANGED vars
  <2>1. /\ UNCHANGED <<pc, count, rest, snap, synced, changes, logged, config, editor>>
    BY <1>23 DEF vars
  <2>2. IsDue(s, c)' = IsDue(s, c)
    BY <2>1 DEF IsDue
  <2> QED BY <1>b, <2>1, <2>2, SyncFrame DEF Unconfirmed, Before
<1> HIDE DEF WorkInv, uservars, filevars, sitevars, managervars, procvars
<1> QED BY <1>1, <1>2, <1>3, <1>4, <1>5, <1>6, <1>7, <1>8, <1>9, <1>10, <1>11, <1>12, <1>13,
           <1>14, <1>15, <1>16, <1>17, <1>18, <1>19, <1>20, <1>21, <1>22, <1>23
        DEF Next, Edit, Request, Manage, Step

-----------------------------------------------------------------------------
LEMMA InitInv == Init => Inv
<1> SUFFICES ASSUME Init PROVE Inv
  OBVIOUS
<1> USE DEF Init, Process
<1>1. IdInv
  BY EmptyFacts DEF IdInv, Idle
<1>2. SnapInv
  BY DEF SnapInv, Saved, Idle
<1>3. WorkInv
  BY DEF WorkInv, QuietInv, AloneInv, OwnInv, CountInv, Busy, Working, Unconfirmed, Discarding, Idle
<1>4. LostInv
  BY DEF LostInv, LostAt, IsDue, Idle
<1>5. SyncInv
  BY DEF SyncInv, SyncAt
<1>6. LeftInv
  BY DEF LeftInv, Idle
<1> QED BY <1>1, <1>2, <1>3, <1>4, <1>5, <1>6, InitType DEF Inv

LEMMA StepInv ==
  ASSUME Inv, [Next]_vars
  PROVE  Inv'
<1>1. TypeInv'
  BY StepTypeInv DEF Inv
<1>2. IdInv' /\ SnapInv'
  BY StepId, StepSnap DEF Inv
<1>3. WorkInv'
  BY StepQuiet, StepAlone, StepOwn, StepCount DEF Inv, WorkInv
<1>4. LostInv' /\ SyncInv'
  BY StepLost, StepSync DEF Inv
<1>5. LeftInv'
  BY StepLeft DEF Inv, WorkInv
<1> QED BY <1>1, <1>2, <1>3, <1>4, <1>5 DEF Inv

LEMMA SpecInv == Spec => []Inv
BY InitInv, StepInv, PTL DEF Spec

LEMMA PendingIs ==
  ASSUME NEW s \in Site, NEW c, Waiting(s, c)
  PROVE  c \in Pending(s)
<1>1. CASE c \in Ids(changes[s])
  BY <1>1 DEF Pending
<1>2. CASE \E a \in Activation : pc[<<a, s>>] \in Writing /\ c \in Ids(rest[<<a, s>>])
  BY <1>2 DEF Pending, Rewritten
<1> QED BY <1>1, <1>2 DEF Waiting

\* A change that the configuration has and that was logged for a site runs
\* there or is pending, whatever was edited, discarded, activated, lost or
\* killed, unless the site met a race that is marked in the actions
\* (ActivateChangesSite.run, _confirm_activated_changes, ModeDiscardChanges).
THEOREM ChangesAreNotLost == Spec => []NothingLost
<1>1. Inv => NothingLost
  <2> SUFFICES ASSUME Inv, NEW s \in Site \ raced, NEW c \in config \cap logged[s]
               PROVE  c \in running[s] \cup Pending(s)
    BY DEF NothingLost
  <2>1. c \in Change /\ IsDue(s, c)
    BY DEF Inv, TypeInv, TypeOK, IsDue
  <2>2. c \in running[s] \/ Waiting(s, c)
    BY <2>1 DEF Inv, LostInv, LostAt
  <2> QED BY <2>2, PendingIs
<1> QED BY <1>1, SpecInv, PTL

\* Where no change is pending, nothing runs that the configuration has not
\* got: a discard is complete, or the changes of the file say that it is not.
THEOREM NothingIsLeftOver == Spec => []NothingLeftOver
<1>1. Inv => NothingLeftOver
  <2> SUFFICES ASSUME Inv, NEW s \in Site \ raced, Pending(s) = {}
               PROVE  running[s] \subseteq config
    BY DEF NothingLeftOver
  <2>1. CASE s = Local
    <3>1. running[Local] \subseteq config \/ changes[Local] # <<>>
      BY <2>1 DEF Inv, LeftInv
    <3>2. changes[Local] \in Seq(Entry) /\ DOMAIN changes[Local] = 1..Len(changes[Local])
          /\ Len(changes[Local]) \in Nat
      BY <2>1 DEF Inv, TypeInv, TypeOK
    <3>3. changes[Local] # <<>> => 1 \in DOMAIN changes[Local]
      BY <3>2
    <3>4. changes[Local] # <<>> => changes[Local][1].id \in Ids(changes[Local])
      BY <3>3 DEF Ids
    <3> QED BY <2>1, <3>1, <3>4 DEF Pending
  <2>2. CASE s # Local
    BY <2>2 DEF Inv, SnapInv
  <2> QED BY <2>1, <2>2
<1> QED BY <1>1, SpecInv, PTL

-----------------------------------------------------------------------------
\* For the abstract specification: a change that begins is in no snapshot and in
\* no configuration.
LEMMA StepNew ==
  ASSUME TypeInv, IdInv, SnapInv, NewInv, [Next]_vars
  PROVE  NewInv'
<1> USE DEF TypeInv, TypeOK, ProcInv, Process, NewInv, Saved, Idle, Discarding, uservars,
          filevars, sitevars, managervars, procvars
<1>1. ASSUME NEW x \in Change, NEW sites \in Targets, NEW saved \in BOOLEAN, EditStart(x, sites,
             saved)
       PROVE  NewInv'
  <2>1. x \notin Saved /\ editor'.op = "edit" /\ editor'.id = x /\ backup' = backup
    BY <1>1 DEF EditStart, IdInv, SnapInv
  <2> QED BY <2>1
<1>2. ASSUME NEW z \in Site, EditLog(z) PROVE NewInv'
  BY <1>2 DEF EditLog, LogEntry
<1>3. CASE EditEnd
  BY <1>3 DEF EditEnd
<1>4. ASSUME NEW x \in Change, DiscardStart(x) PROVE NewInv'
  <2>1. x \notin config /\ editor'.op = "discard" /\ editor'.id = x /\ config' = config
    BY <1>4 DEF DiscardStart, IdInv
  <2> QED BY <2>1
<1>5. ASSUME NEW z \in Site, DiscardLog(z) PROVE NewInv'
  BY <1>5 DEF DiscardLog, LogEntry
<1>6. CASE DiscardExtract
  <2>1. config' \subseteq config
    BY <1>6, BackupFacts DEF DiscardExtract, SnapInv, DiscardInv
  <2> QED BY <1>6, <2>1, EditorFacts DEF DiscardExtract
<1>7. CASE DiscardRestart
  BY <1>7 DEF DiscardRestart
<1>8. CASE DiscardFails
  BY <1>8 DEF DiscardFails
<1>9. ASSUME NEW z \in Site, DiscardClear(z) PROVE NewInv'
  BY <1>9 DEF DiscardClear
<1>10. ASSUME NEW b \in Activation, NEW sites \in SUBSET Site, NEW transfer \in BOOLEAN, Load(b,
             sites, transfer)
       PROVE  NewInv'
  BY <1>10 DEF Load
<1>11. ASSUME NEW b \in Activation, CreateSnapshots(b) PROVE NewInv'
  BY <1>11 DEF CreateSnapshots
<1>12. ASSUME NEW b \in Activation, NEW z \in Site, Fork(b, z) PROVE NewInv'
  BY <1>12 DEF Fork, ChangesTillActivation
<1>13. ASSUME NEW q \in Process, LockActivation(q) PROVE NewInv'
  BY <1>13 DEF LockActivation
<1>14. ASSUME NEW q \in Process, NoSyncNeeded(q) PROVE NewInv'
  BY <1>14 DEF NoSyncNeeded, Synchronized
<1>15. ASSUME NEW q \in Process, NEW effect \in BOOLEAN, NEW answer \in BOOLEAN,
             SynchronizeSite(q, effect, answer)
       PROVE  NewInv'
  BY <1>15 DEF SynchronizeSite, Synchronized
<1>16. ASSUME NEW q \in Process, NoActivateNeeded(q) PROVE NewInv'
  BY <1>16 DEF NoActivateNeeded
<1>17. ASSUME NEW q \in Process, NEW effect \in BOOLEAN, NEW answer \in BOOLEAN, DoActivate(q,
             effect, answer)
       PROVE  NewInv'
  BY <1>17 DEF DoActivate
<1>18. ASSUME NEW q \in Process, ConfirmLoad(q) PROVE NewInv'
  BY <1>18 DEF ConfirmLoad, Unsynced, Remaining
<1>19. ASSUME NEW q \in Process, Truncate(q) PROVE NewInv'
  BY <1>19 DEF Truncate
<1>20. ASSUME NEW q \in Process, Rewrite(q) PROVE NewInv'
  BY <1>20 DEF Rewrite, Release
<1>21. ASSUME NEW q \in Process, UnlockActivation(q) PROVE NewInv'
  BY <1>21 DEF UnlockActivation, Release, Forget
<1>22. ASSUME NEW q \in Process, Crash(q) PROVE NewInv'
  BY <1>22 DEF Crash, Release, Forget
<1>23. CASE UNCHANGED vars
  BY <1>23 DEF vars
<1> HIDE DEF TypeInv, TypeOK, ProcInv, Process, NewInv, Saved, Idle, Discarding, uservars,
           filevars, sitevars, managervars, procvars
<1> QED BY <1>1, <1>2, <1>3, <1>4, <1>5, <1>6, <1>7, <1>8, <1>9, <1>10, <1>11, <1>12, <1>13,
           <1>14, <1>15, <1>16, <1>17, <1>18, <1>19, <1>20, <1>21, <1>22, <1>23
        DEF Next, Edit, Request, Manage, Step

\* Where a discard has been logged, no process empties the file.
LEMMA StepNote ==
  ASSUME TypeInv, QuietInv, NoteInv, [Next]_vars
  PROVE  NoteInv'
<1> USE DEF NoteInv, Process, Idle, uservars, filevars, sitevars, managervars, procvars
<1>1. ASSUME NEW x \in Change, NEW sites \in Targets, NEW saved \in BOOLEAN, EditStart(x, sites,
             saved)
       PROVE  NoteInv'
  BY <1>1 DEF EditStart
<1>2. ASSUME NEW z \in Site, EditLog(z) PROVE NoteInv'
  <2>1. editor'.op = "edit"
    BY <1>2, EditorFacts DEF EditLog, TypeInv
  <2> QED BY <2>1
<1>3. CASE EditEnd
  BY <1>3 DEF EditEnd
<1>4. ASSUME NEW x \in Change, DiscardStart(x) PROVE NoteInv'
  <2>1. editor'.op = "discard" /\ editor'.left = Site
    BY <1>4 DEF DiscardStart
  <2> QED BY <2>1
<1>5. ASSUME NEW z \in Site, DiscardLog(z) PROVE NoteInv'
  <2>1. /\ LogEntry(z, editor.id) /\ editor.id \in Change /\ editor.left \in SUBSET Site
    BY <1>5, EditorFacts DEF DiscardLog, TypeInv
  <2>2. /\ editor.op = "discard" /\ editor'.left = editor.left \ {z} /\ raced' = raced
    BY <1>5, EditorFacts DEF DiscardLog, TypeInv
  <2>3. /\ \A s \in Site : s # z => changes'[s] = changes[s]
        /\ Len(changes'[z]) = Len(changes[z]) + 1 /\ Len(changes[z]) \in Nat
    BY <2>1, LogEffect DEF TypeInv
  <2>4. changes'[z] # <<>>
    BY <2>3
  <2> QED BY <2>1, <2>2, <2>3, <2>4
<1>6. CASE DiscardExtract
  <2>1. editor'.op = "restart"
    BY <1>6, EditorFacts DEF DiscardExtract, TypeInv
  <2> QED BY <2>1
<1>7. CASE DiscardRestart
  <2>1. editor'.op = "clear"
    BY <1>7, EditorFacts DEF DiscardRestart, TypeInv
  <2> QED BY <2>1
<1>8. CASE DiscardFails
  BY <1>8 DEF DiscardFails
<1>9. ASSUME NEW z \in Site, DiscardClear(z) PROVE NoteInv'
  <2>1. editor'.op # "discard"
    BY <1>9, EditorFacts DEF DiscardClear, TypeInv
  <2> QED BY <2>1
<1>10. ASSUME NEW b \in Activation, NEW sites \in SUBSET Site, NEW transfer \in BOOLEAN, Load(b,
             sites, transfer)
       PROVE  NoteInv'
  BY <1>10 DEF Load
<1>11. ASSUME NEW b \in Activation, CreateSnapshots(b) PROVE NoteInv'
  BY <1>11 DEF CreateSnapshots
<1>12. ASSUME NEW b \in Activation, NEW z \in Site, Fork(b, z) PROVE NoteInv'
  BY <1>12 DEF Fork, ChangesTillActivation
<1>13. ASSUME NEW q \in Process, LockActivation(q) PROVE NoteInv'
  BY <1>13 DEF LockActivation
<1>14. ASSUME NEW q \in Process, NoSyncNeeded(q) PROVE NoteInv'
  BY <1>14 DEF NoSyncNeeded, Synchronized
<1>15. ASSUME NEW q \in Process, NEW effect \in BOOLEAN, NEW answer \in BOOLEAN,
             SynchronizeSite(q, effect, answer)
       PROVE  NoteInv'
  BY <1>15 DEF SynchronizeSite, Synchronized
<1>16. ASSUME NEW q \in Process, NoActivateNeeded(q) PROVE NoteInv'
  BY <1>16 DEF NoActivateNeeded
<1>17. ASSUME NEW q \in Process, NEW effect \in BOOLEAN, NEW answer \in BOOLEAN, DoActivate(q,
             effect, answer)
       PROVE  NoteInv'
  BY <1>17 DEF DoActivate
<1>18. ASSUME NEW q \in Process, ConfirmLoad(q) PROVE NoteInv'
  BY <1>18 DEF ConfirmLoad, Unsynced, Remaining
<1>19. ASSUME NEW q \in Process, Truncate(q) PROVE NoteInv'
  <2>1. /\ UNCHANGED <<editor, raced>> /\ pc[q] = "truncate"
        /\ \A s \in Site : s # q[2] => changes'[s] = changes[s]
    BY <1>19 DEF Truncate, TypeInv, TypeOK
  <2>2. q[2] \notin raced => ~Discarding
    BY <1>19, <2>1 DEF QuietInv, Busy, Working
  <2> QED BY <2>1, <2>2 DEF Discarding
<1>20. ASSUME NEW q \in Process, Rewrite(q) PROVE NoteInv'
  <2>1. /\ UNCHANGED <<editor, raced>> /\ pc[q] \in Writing
        /\ \A s \in Site : s # q[2] => changes'[s] = changes[s]
    BY <1>20 DEF Rewrite, Writing, TypeInv, TypeOK
  <2>2. q[2] \notin raced => ~Discarding
    BY <2>1 DEF QuietInv, Busy, Working, Writing
  <2> QED BY <2>1, <2>2 DEF Discarding
<1>21. ASSUME NEW q \in Process, UnlockActivation(q) PROVE NoteInv'
  BY <1>21 DEF UnlockActivation, Release, Forget
<1>22. ASSUME NEW q \in Process, Crash(q) PROVE NoteInv'
  BY <1>22 DEF Crash, Release, Forget
<1>23. CASE UNCHANGED vars
  BY <1>23 DEF vars
<1> HIDE DEF NoteInv, Process, Idle, uservars, filevars, sitevars, managervars, procvars
<1> QED BY <1>1, <1>2, <1>3, <1>4, <1>5, <1>6, <1>7, <1>8, <1>9, <1>10, <1>11, <1>12, <1>13,
           <1>14, <1>15, <1>16, <1>17, <1>18, <1>19, <1>20, <1>21, <1>22, <1>23
        DEF Next, Edit, Request, Manage, Step

\* What a process is about to write back stays in the file until it truncates it.
LEMMA StepRest ==
  ASSUME TypeInv, QuietInv, AloneInv, RestInv, [Next]_vars
  PROVE  RestInv'
<1> USE DEF RestInv, Process, uservars, filevars, sitevars, managervars, procvars
<1>1. ASSUME NEW x \in Change, NEW sites \in Targets, NEW saved \in BOOLEAN, EditStart(x, sites,
             saved)
       PROVE  RestInv'
  BY <1>1 DEF EditStart
<1>2. ASSUME NEW z \in Site, EditLog(z) PROVE RestInv'
  <2>1. /\ LogEntry(z, editor.id) /\ editor.id \in Change /\ editor.left \in SUBSET Site
    BY <1>2, EditorFacts DEF EditLog, TypeInv
  <2>2. /\ \A s \in Site : Ids(changes[s]) \subseteq Ids(changes'[s])
        /\ UNCHANGED <<pc, rest, raced>>
    <3>1. UNCHANGED <<pc, rest, raced>>
      BY <1>2 DEF EditLog
    <3>2. /\ \A s \in Site : s # z => changes'[s] = changes[s]
          /\ Ids(changes'[z]) = Ids(changes[z]) \cup {editor.id}
      BY <2>1, LogEffect DEF TypeInv
    <3> QED BY <3>1, <3>2
  <2> QED BY <2>2
<1>3. CASE EditEnd
  BY <1>3 DEF EditEnd
<1>4. ASSUME NEW x \in Change, DiscardStart(x) PROVE RestInv'
  BY <1>4 DEF DiscardStart
<1>5. ASSUME NEW z \in Site, DiscardLog(z) PROVE RestInv'
  <2>1. /\ LogEntry(z, editor.id) /\ editor.id \in Change /\ editor.left \in SUBSET Site
    BY <1>5, EditorFacts DEF DiscardLog, TypeInv
  <2>2. /\ \A s \in Site : Ids(changes[s]) \subseteq Ids(changes'[s])
        /\ UNCHANGED <<pc, rest, raced>>
    <3>1. UNCHANGED <<pc, rest, raced>>
      BY <1>5 DEF DiscardLog
    <3>2. /\ \A s \in Site : s # z => changes'[s] = changes[s]
          /\ Ids(changes'[z]) = Ids(changes[z]) \cup {editor.id}
      BY <2>1, LogEffect DEF TypeInv
    <3> QED BY <3>1, <3>2
  <2> QED BY <2>2
<1>6. CASE DiscardExtract
  BY <1>6 DEF DiscardExtract
<1>7. CASE DiscardRestart
  BY <1>7 DEF DiscardRestart
<1>8. CASE DiscardFails
  BY <1>8 DEF DiscardFails
<1>9. ASSUME NEW z \in Site, DiscardClear(z) PROVE RestInv'
  <2>1. /\ UNCHANGED <<pc, rest>> /\ raced \subseteq raced'
        /\ \A s \in Site : s # z => changes'[s] = changes[s]
    BY <1>9 DEF DiscardClear, TypeInv, TypeOK
  <2>2. z \notin raced => \A a \in Activation : pc[<<a, z>>] # "truncate"
    BY <1>9 DEF DiscardClear, QuietInv, Busy, Discarding, Working
  <2> QED BY <2>1, <2>2
<1>10. ASSUME NEW b \in Activation, NEW sites \in SUBSET Site, NEW transfer \in BOOLEAN, Load(b,
             sites, transfer)
       PROVE  RestInv'
  BY <1>10 DEF Load
<1>11. ASSUME NEW b \in Activation, CreateSnapshots(b) PROVE RestInv'
  BY <1>11 DEF CreateSnapshots
<1>12. ASSUME NEW b \in Activation, NEW z \in Site, Fork(b, z) PROVE RestInv'
  <2>1. /\ UNCHANGED <<changes, rest>> /\ raced \subseteq raced'
        /\ \A r \in Process : r # <<b, z>> => pc'[r] = pc[r]
        /\ pc'[<<b, z>>] = "ready"
    BY <1>12 DEF Fork, TypeInv, TypeOK
  <2> QED BY <2>1
<1>13. ASSUME NEW q \in Process, LockActivation(q) PROVE RestInv'
  <2>1. /\ UNCHANGED <<changes, rest>> /\ raced \subseteq raced' /\ pc'[q] # "truncate"
        /\ \A r \in Process : r # q => pc'[r] = pc[r]
    BY <1>13 DEF LockActivation, TypeInv, TypeOK
  <2> QED BY <2>1
<1>14. ASSUME NEW q \in Process, NoSyncNeeded(q) PROVE RestInv'
  <2>1. /\ UNCHANGED <<changes, rest>> /\ raced \subseteq raced' /\ pc'[q] # "truncate"
        /\ \A r \in Process : r # q => pc'[r] = pc[r]
    BY <1>14 DEF NoSyncNeeded, Synchronized, TypeInv, TypeOK
  <2> QED BY <2>1
<1>15. ASSUME NEW q \in Process, NEW effect \in BOOLEAN, NEW answer \in BOOLEAN,
             SynchronizeSite(q, effect, answer)
       PROVE  RestInv'
  <2>1. /\ UNCHANGED <<changes, rest>> /\ raced \subseteq raced' /\ pc'[q] # "truncate"
        /\ \A r \in Process : r # q => pc'[r] = pc[r]
    BY <1>15 DEF SynchronizeSite, Synchronized, TypeInv, TypeOK
  <2> QED BY <2>1
<1>16. ASSUME NEW q \in Process, NoActivateNeeded(q) PROVE RestInv'
  <2>1. /\ UNCHANGED <<changes, rest>> /\ raced \subseteq raced' /\ pc'[q] # "truncate"
        /\ \A r \in Process : r # q => pc'[r] = pc[r]
    BY <1>16 DEF NoActivateNeeded, TypeInv, TypeOK
  <2> QED BY <2>1
<1>17. ASSUME NEW q \in Process, NEW effect \in BOOLEAN, NEW answer \in BOOLEAN, DoActivate(q,
             effect, answer)
       PROVE  RestInv'
  <2>1. /\ UNCHANGED <<changes, rest>> /\ raced \subseteq raced' /\ pc'[q] # "truncate"
        /\ \A r \in Process : r # q => pc'[r] = pc[r]
    BY <1>17 DEF DoActivate, TypeInv, TypeOK
  <2> QED BY <2>1
<1>18. ASSUME NEW q \in Process, ConfirmLoad(q) PROVE RestInv'
  <2>1. /\ raced \subseteq raced' /\ Ids(rest'[q]) \subseteq Ids(changes[q[2]])
        /\ \A r \in Process : r # q => pc'[r] = pc[r] /\ rest'[r] = rest[r]
    BY <1>18, ConfirmEffect DEF TypeInv
  <2>2. changes' = changes
    BY <1>18 DEF ConfirmLoad
  <2> SUFFICES ASSUME NEW s \in Site \ raced, NEW a \in Activation, pc'[<<a, s>>] = "truncate"
               PROVE  Ids(rest'[<<a, s>>]) \subseteq Ids(changes[s])
    BY <2>1, <2>2
  <2>3. CASE <<a, s>> = q
    BY <2>1, <2>3
  <2>4. CASE <<a, s>> # q
    BY <2>1, <2>4
  <2> QED BY <2>3, <2>4
<1>19. ASSUME NEW q \in Process, Truncate(q) PROVE RestInv'
  <2>1. /\ UNCHANGED <<rest, raced>> /\ pc[q] = "truncate" /\ pc'[q] # "truncate"
        /\ \A r \in Process : r # q => pc'[r] = pc[r]
        /\ \A s \in Site : s # q[2] => changes'[s] = changes[s]
    BY <1>19 DEF Truncate, TypeInv, TypeOK
  <2>2. ASSUME NEW s \in Site \ raced, NEW a \in Activation, <<a, s>> # q, pc[<<a, s>>] = "truncate"
        PROVE  s # q[2]
    BY <2>1, <2>2, ProcessFacts DEF AloneInv, Working
  <2> SUFFICES ASSUME NEW s \in Site \ raced, NEW a \in Activation, pc'[<<a, s>>] = "truncate"
               PROVE  Ids(rest[<<a, s>>]) \subseteq Ids(changes'[s])
    BY <2>1
  <2>3. <<a, s>> # q /\ pc[<<a, s>>] = "truncate"
    BY <2>1
  <2> QED BY <2>1, <2>2, <2>3
<1>20. ASSUME NEW q \in Process, Rewrite(q) PROVE RestInv'
  <2>1. /\ \A r \in Process : r # q => pc'[r] = pc[r] /\ rest'[r] = rest[r]
        /\ pc'[q] # "truncate" /\ \A s \in Site : Ids(changes[s]) \subseteq Ids(changes'[s])
    BY <1>20, RewriteEffect
  <2>2. raced' = raced
    BY <1>20 DEF Rewrite
  <2> QED BY <2>1, <2>2
<1>21. ASSUME NEW q \in Process, UnlockActivation(q) PROVE RestInv'
  <2>1. /\ UNCHANGED <<changes, raced>> /\ pc'[q] # "truncate"
        /\ \A r \in Process : r # q => pc'[r] = pc[r] /\ rest'[r] = rest[r]
    BY <1>21 DEF UnlockActivation, Forget, TypeInv, TypeOK
  <2> QED BY <2>1
<1>22. ASSUME NEW q \in Process, Crash(q) PROVE RestInv'
  <2>1. /\ UNCHANGED changes /\ raced \subseteq raced' /\ pc'[q] # "truncate"
        /\ \A r \in Process : r # q => pc'[r] = pc[r] /\ rest'[r] = rest[r]
    BY <1>22 DEF Crash, Forget, TypeInv, TypeOK
  <2> QED BY <2>1
<1>23. CASE UNCHANGED vars
  BY <1>23 DEF vars
<1> HIDE DEF RestInv, Process, uservars, filevars, sitevars, managervars, procvars
<1> QED BY <1>1, <1>2, <1>3, <1>4, <1>5, <1>6, <1>7, <1>8, <1>9, <1>10, <1>11, <1>12, <1>13,
           <1>14, <1>15, <1>16, <1>17, <1>18, <1>19, <1>20, <1>21, <1>22, <1>23
        DEF Next, Edit, Request, Manage, Step

\* What a remote site runs of its changes is kept by the next transfer, too.
LEMMA StepRun ==
  ASSUME TypeInv, IdInv, SnapInv, AloneInv, NewInv, RunInv, [Next]_vars
  PROVE  RunInv'
<1> USE DEF RunInv, Process, uservars, filevars, sitevars, managervars, procvars
<1>1. ASSUME NEW x \in Change, NEW sites \in Targets, NEW saved \in BOOLEAN, EditStart(x, sites,
             saved)
       PROVE  RunInv'
  <2>1. /\ UNCHANGED <<logged, running, synced, snap, pc, raced>>
        /\ config' \subseteq config \cup {x} /\ x \notin used
    BY <1>1 DEF EditStart
  <2>2. \A s \in Site \ {Local} : x \notin running[s]
    BY <2>1 DEF IdInv, SnapInv
  <2> QED BY <2>1, <2>2
<1>2. ASSUME NEW z \in Site, EditLog(z) PROVE RunInv'
  <2>1. /\ UNCHANGED <<config, running, synced, snap, pc, raced>> /\ editor.op = "edit"
        /\ \A s \in Site : logged'[s] \subseteq logged[s] \cup {editor.id}
    BY <1>2 DEF EditLog, TypeInv, TypeOK
  <2>2. \A s \in Site \ {Local} : editor.id \notin running[s]
    BY <2>1 DEF NewInv, SnapInv
  <2> QED BY <2>1, <2>2
<1>3. CASE EditEnd
  <2>1. /\ UNCHANGED <<logged, running, synced, snap, pc, raced>> /\ editor.op = "edit"
        /\ config' = config \cup {editor.id}
    BY <1>3 DEF EditEnd
  <2>2. \A s \in Site \ {Local} : editor.id \notin running[s]
    BY <2>1 DEF NewInv, SnapInv
  <2> QED BY <2>1, <2>2
<1>4. ASSUME NEW x \in Change, DiscardStart(x) PROVE RunInv'
  BY <1>4 DEF DiscardStart
<1>5. ASSUME NEW z \in Site, DiscardLog(z) PROVE RunInv'
  BY <1>5 DEF DiscardLog, LogEntry
<1>6. CASE DiscardExtract
  <2>1. config' \subseteq config /\ UNCHANGED <<logged, running, synced, snap, pc, raced>>
    <3>1. backup # None
      BY <1>6 DEF DiscardExtract, TypeInv, DiscardInv, Discarding
    <3>2. backup \in SUBSET Change
      BY <3>1, BackupFacts DEF TypeInv
    <3> QED BY <1>6, <3>1, <3>2 DEF DiscardExtract, SnapInv, Saved
  <2> QED BY <2>1
<1>7. CASE DiscardRestart
  <2>1. /\ UNCHANGED <<config, logged, synced, snap, pc, raced>>
        /\ \A s \in Site \ {Local} : running'[s] = running[s]
    BY <1>7 DEF DiscardRestart, TypeInv, TypeOK
  <2> QED BY <2>1
<1>8. CASE DiscardFails
  BY <1>8 DEF DiscardFails
<1>9. ASSUME NEW z \in Site, DiscardClear(z) PROVE RunInv'
  BY <1>9 DEF DiscardClear
<1>10. ASSUME NEW b \in Activation, NEW sites \in SUBSET Site, NEW transfer \in BOOLEAN, Load(b,
             sites, transfer)
       PROVE  RunInv'
  BY <1>10 DEF Load
<1>11. ASSUME NEW b \in Activation, CreateSnapshots(b) PROVE RunInv'
  <2>1. /\ UNCHANGED <<config, logged, running, synced, pc, raced>> /\ manager[b] # "started"
        /\ \A a \in Activation : a # b => snap'[a] = snap[a]
    BY <1>11 DEF CreateSnapshots, TypeInv, TypeOK
  <2>2. \A s \in Site : pc[<<b, s>>] \notin Before
    BY <2>1 DEF TypeInv, ProcInv, Before
  <2> QED BY <2>1, <2>2
<1>12. ASSUME NEW b \in Activation, NEW z \in Site, Fork(b, z) PROVE RunInv'
  <2>1. /\ UNCHANGED <<config, logged, running, synced, snap>> /\ raced \subseteq raced'
        /\ \A r \in Process : r # <<b, z>> => pc'[r] = pc[r]
    BY <1>12 DEF Fork
  <2>2. z # Local /\ z \notin raced' => running[z] \cap logged[z] \cap config \subseteq snap[b]
    BY <1>12 DEF Fork, Late
  <2> SUFFICES ASSUME NEW s \in Site \ {Local}, s \notin raced', NEW a \in Activation,
                      pc'[<<a, s>>] \in Before
               PROVE  running[s] \cap logged[s] \cap config \subseteq snap[a]
    BY <2>1
  <2>3. CASE <<a, s>> = <<b, z>>
    BY <2>2, <2>3
  <2>4. CASE <<a, s>> # <<b, z>>
    BY <2>1, <2>4
  <2> QED BY <2>3, <2>4
<1>13. ASSUME NEW q \in Process, LockActivation(q) PROVE RunInv'
  <2>1. /\ UNCHANGED <<config, logged, running, synced, snap>> /\ raced \subseteq raced'
        /\ \A r \in Process : pc'[r] \in Before => pc[r] \in Before
    BY <1>13 DEF LockActivation, TypeInv, TypeOK, Before
  <2> QED BY <2>1
<1>14. ASSUME NEW q \in Process, NoSyncNeeded(q) PROVE RunInv'
  <2>1. /\ UNCHANGED <<config, logged, running, synced, snap>> /\ raced \subseteq raced'
        /\ \A r \in Process : pc'[r] \in Before => pc[r] \in Before
    BY <1>14 DEF NoSyncNeeded, Synchronized, TypeInv, TypeOK, Before
  <2> QED BY <2>1
<1>15. ASSUME NEW q \in Process, NEW effect \in BOOLEAN, NEW answer \in BOOLEAN,
             SynchronizeSite(q, effect, answer)
       PROVE  RunInv'
  <2>1. /\ UNCHANGED <<config, logged, running, snap, raced>> /\ pc[q] = "sync"
        /\ \A r \in Process : pc'[r] \in Before => pc[r] \in Before
    BY <1>15 DEF SynchronizeSite, Synchronized, TypeInv, TypeOK, Before
  <2>2. /\ \A s \in Site : s # q[2] => synced'[s] = synced[s]
        /\ synced'[q[2]] \in {synced[q[2]], snap[q[1]]}
    BY <1>15, ProcessFacts DEF SynchronizeSite, TypeInv, TypeOK
  <2>3. q[2] \notin raced \cup {Local} => running[q[2]] \cap logged[q[2]] \cap config \subseteq snap[q[1]]
    BY <2>1, ProcessFacts DEF Before
  <2> QED BY <2>1, <2>2, <2>3
<1>16. ASSUME NEW q \in Process, NoActivateNeeded(q) PROVE RunInv'
  <2>1. /\ UNCHANGED <<config, logged, running, synced, snap>> /\ raced \subseteq raced'
        /\ \A r \in Process : pc'[r] \in Before => pc[r] \in Before
    BY <1>16 DEF NoActivateNeeded, TypeInv, TypeOK, Before
  <2> QED BY <2>1
<1>17. ASSUME NEW q \in Process, NEW effect \in BOOLEAN, NEW answer \in BOOLEAN, DoActivate(q,
             effect, answer)
       PROVE  RunInv'
  <2>1. /\ UNCHANGED <<config, logged, synced, snap>> /\ raced \subseteq raced'
        /\ pc[q] = "activate" /\ pc'[q] \notin Before
        /\ \A r \in Process : r # q => pc'[r] = pc[r]
    BY <1>17 DEF DoActivate, TypeInv, TypeOK, Before
  <2>2. /\ \A s \in Site : s # q[2] => running'[s] = running[s]
        /\ q[2] # Local => running'[q[2]] \in {running[q[2]], synced[q[2]]}
    BY <1>17, ProcessFacts DEF DoActivate, TypeInv, TypeOK
  <2>3. ASSUME NEW s \in Site \ raced, NEW a \in Activation, pc'[<<a, s>>] \in Before
        PROVE  s # q[2] /\ pc[<<a, s>>] \in Before
    <3>1. <<a, s>> # q
      BY <2>1, <2>3
    <3>2. pc[<<a, s>>] \in Before
      BY <2>1, <2>3, <3>1
    <3>3. s = q[2] => FALSE
      BY <2>1, <3>1, <3>2, ProcessFacts DEF AloneInv, Working, Before
    <3> QED BY <3>2, <3>3
  <2> QED BY <2>1, <2>2, <2>3
<1>18. ASSUME NEW q \in Process, ConfirmLoad(q) PROVE RunInv'
  <2>1. /\ UNCHANGED <<config, logged, running, synced, snap>> /\ raced \subseteq raced'
        /\ \A r \in Process : pc'[r] \in Before => pc[r] \in Before
    BY <1>18 DEF ConfirmLoad, TypeInv, TypeOK, Before
  <2> QED BY <2>1
<1>19. ASSUME NEW q \in Process, Truncate(q) PROVE RunInv'
  <2>1. /\ UNCHANGED <<config, logged, running, synced, snap>> /\ raced \subseteq raced'
        /\ \A r \in Process : pc'[r] \in Before => pc[r] \in Before
    BY <1>19 DEF Truncate, TypeInv, TypeOK, Before
  <2> QED BY <2>1
<1>20. ASSUME NEW q \in Process, Rewrite(q) PROVE RunInv'
  <2>1. /\ UNCHANGED <<config, logged, running, synced, snap>> /\ raced \subseteq raced'
        /\ \A r \in Process : pc'[r] \in Before => pc[r] \in Before
    BY <1>20 DEF Rewrite, TypeInv, TypeOK, Before
  <2> QED BY <2>1
<1>21. ASSUME NEW q \in Process, UnlockActivation(q) PROVE RunInv'
  <2>1. /\ UNCHANGED <<config, logged, running, synced, snap>> /\ raced \subseteq raced'
        /\ \A r \in Process : pc'[r] \in Before => pc[r] \in Before
    BY <1>21 DEF UnlockActivation, TypeInv, TypeOK, Before
  <2> QED BY <2>1
<1>22. ASSUME NEW q \in Process, Crash(q) PROVE RunInv'
  <2>1. /\ UNCHANGED <<config, logged, running, synced, snap>> /\ raced \subseteq raced'
        /\ \A r \in Process : pc'[r] \in Before => pc[r] \in Before
    BY <1>22 DEF Crash, TypeInv, TypeOK, Before
  <2> QED BY <2>1
<1>23. CASE UNCHANGED vars
  BY <1>23 DEF vars
<1> HIDE DEF RunInv, Process, uservars, filevars, sitevars, managervars, procvars
<1> QED BY <1>1, <1>2, <1>3, <1>4, <1>5, <1>6, <1>7, <1>8, <1>9, <1>10, <1>11, <1>12, <1>13,
           <1>14, <1>15, <1>16, <1>17, <1>18, <1>19, <1>20, <1>21, <1>22, <1>23
        DEF Next, Edit, Request, Manage, Step

-----------------------------------------------------------------------------
\* What is pending at a site depends on its file and on the process that
\* writes it.
LEMMA PendingFrame ==
  ASSUME NEW s \in Site, changes'[s] = changes[s],
         \A a \in Activation :
            /\ pc'[<<a, s>>] \in Writing <=> pc[<<a, s>>] \in Writing
            /\ pc[<<a, s>>] \in Writing => rest'[<<a, s>>] = rest[<<a, s>>]
  PROVE  Pending(s)' = Pending(s)
<1>1. {a \in Activation : pc'[<<a, s>>] \in Writing} = {a \in Activation : pc[<<a, s>>] \in Writing}
  OBVIOUS
<1>2. Rewritten(s)' = Rewritten(s)
  BY <1>1 DEF Rewritten
<1> QED BY <1>2 DEF Pending

LEMMA PendingLogged ==
  ASSUME TypeInv, NEW s \in Site, NEW c \in Change, LogEntry(s, c), UNCHANGED <<pc, rest>>
  PROVE  /\ Pending(s)' = Pending(s) \cup {c}
         /\ \A t \in Site : t # s => Pending(t)' = Pending(t)
<1>1. /\ Ids(changes'[s]) = Ids(changes[s]) \cup {c}
      /\ \A t \in Site : t # s => changes'[t] = changes[t]
  BY LogEffect DEF TypeInv
<1>2. \A t \in Site : Rewritten(t)' = Rewritten(t)
  BY DEF Rewritten
<1> QED BY <1>1, <1>2 DEF Pending

\* One process writes.
LEMMA OneWriter ==
  ASSUME NEW s \in Site, NEW b \in Activation, NEW A, A = {b}, NEW r
  PROVE  UNION {Ids(r[<<a, s>>]) : a \in A} = Ids(r[<<b, s>>])
<1>1. {Ids(r[<<a, s>>]) : a \in A} = {Ids(r[<<b, s>>])}
  OBVIOUS
<1> QED BY <1>1

\* Beside a process that does not write, or a discard, the file says it all.
LEMMA PendingInFile ==
  ASSUME NEW s \in Site, \A a \in Activation : pc[<<a, s>>] \notin Writing
  PROVE  Pending(s) = Ids(changes[s])
BY DEF Pending, Rewritten

LEMMA EmptyFile ==
  ASSUME TypeOK, NEW s \in Site, changes[s] # <<>>
  PROVE  Ids(changes[s]) # {}
<1>1. changes[s] \in Seq(Entry) /\ DOMAIN changes[s] = 1..Len(changes[s]) /\ Len(changes[s]) \in Nat
  BY DEF TypeOK
<1>2. 1 \in DOMAIN changes[s]
  BY <1>1
<1>3. changes[s][1].id \in Ids(changes[s])
  BY <1>2 DEF Ids
<1> QED BY <1>3

\* Nothing more than its configuration runs at a site that a process confirms.
LEMMA ConfirmedSite ==
  ASSUME Inv, NEW s \in Site \ raced,
         \/ s # Local
         \/ editor.op = "clear"
         \/ \E a \in Activation : pc[<<a, s>>] = "truncate"
  PROVE  running[s] \subseteq config
<1>1. CASE s # Local
  BY <1>1 DEF Inv, SnapInv
<1>2. CASE s = Local
  BY <1>2 DEF Inv, LeftInv
<1> QED BY <1>1, <1>2

\* Every step is one of the abstract specification at each site, or leaves the
\* site alone.
LEMMA StepSites ==
  ASSUME Inv, SiteInv, [Next]_vars, NEW s \in Site
  PROVE  [Changes(s)!Next]_(Changes(s)!vars)
<1> USE DEF uservars, filevars, sitevars, managervars, procvars
<1>a. TypeInv
  BY DEF Inv
<1>r. CASE s \in raced'
  <2>1. (s \in raced)' = TRUE
    BY <1>r
  <2> QED BY <2>1 DEF Changes!Next, Changes!Race
<1> SUFFICES ASSUME s \notin raced' PROVE [Changes(s)!Next]_(Changes(s)!vars)
  BY <1>r
<1>b. s \in Site \ raced
  BY RacedGrows
<1>c. (s \in raced)' = (s \in raced)
  BY <1>b
<1>d. \A a \in Activation : <<a, s>> \in Process /\ <<a, s>>[1] = a /\ <<a, s>>[2] = s
  BY DEF Process
<1>s. config' = config /\ logged'[s] = logged[s] /\ Pending(s)' = Pending(s) /\ running'[s] = running[s]
         => [Changes(s)!Next]_(Changes(s)!vars)
  BY <1>c DEF Changes!vars
<1> USE <1>a, <1>b
<1>1. ASSUME NEW x \in Change, NEW sites \in Targets, NEW saved \in BOOLEAN, EditStart(x, sites,
             saved)
       PROVE  [Changes(s)!Next]_(Changes(s)!vars)
  <2>1. /\ UNCHANGED <<logged, changes, running, pc, rest>> /\ x \notin used
        /\ config' = IF saved THEN config \cup {x} ELSE config
    BY <1>1 DEF EditStart
  <2>2. Pending(s)' = Pending(s)
    BY <2>1, PendingFrame
  <2>3. CASE saved
    <3>1. x \notin logged[s]
      BY <2>1 DEF Inv, IdInv
    <3>2. Changes(s)!Save(x)
      BY <1>c, <2>1, <2>2, <2>3, <3>1 DEF Changes!Save
    <3> QED BY <3>2 DEF Changes!Next
  <2>4. CASE ~saved
    BY <1>s, <2>1, <2>2, <2>4
  <2> QED BY <2>3, <2>4
<1>2. ASSUME NEW z \in Site, EditLog(z) PROVE [Changes(s)!Next]_(Changes(s)!vars)
  <2>1. /\ LogEntry(z, editor.id) /\ editor.id \in Change
        /\ UNCHANGED <<config, running, pc, rest>>
    BY <1>2, EditorFacts DEF EditLog, TypeInv
  <2>2. /\ logged'[z] = logged[z] \cup {editor.id}
        /\ \A t \in Site : t # z => logged'[t] = logged[t]
    BY <1>2 DEF EditLog, TypeInv, TypeOK
  <2>3. /\ Pending(z)' = Pending(z) \cup {editor.id}
        /\ \A t \in Site : t # z => Pending(t)' = Pending(t)
    BY <2>1, PendingLogged
  <2>4. CASE z = s
    <3>1. Changes(s)!Log(editor.id)
      BY <1>c, <2>1, <2>2, <2>3, <2>4 DEF Changes!Log
    <3> QED BY <2>1, <3>1 DEF Changes!Next
  <2>5. CASE z # s
    BY <1>s, <2>1, <2>2, <2>3, <2>5
  <2> QED BY <2>4, <2>5
<1>3. CASE EditEnd
  <2>1. /\ UNCHANGED <<logged, changes, running, pc, rest>> /\ editor.op = "edit"
        /\ config' = config \cup {editor.id} /\ editor.id \in Change
    BY <1>3, EditorFacts DEF EditEnd, TypeInv
  <2>2. Pending(s)' = Pending(s)
    BY <2>1, PendingFrame
  <2>3. CASE editor.id \in config
    BY <1>s, <2>1, <2>2, <2>3
  <2>4. CASE editor.id \notin config
    <3>1. editor.id \in logged[s] => Waiting(s, editor.id)
      BY <2>1, <2>4 DEF Inv, LostInv, LostAt, IsDue
    <3>2. editor.id \in logged[s] => editor.id \in Pending(s)
      BY <3>1, PendingIs
    <3>3. Changes(s)!Save(editor.id)
      BY <1>c, <2>1, <2>2, <3>2 DEF Changes!Save
    <3> QED BY <2>1, <3>3 DEF Changes!Next
  <2> QED BY <2>3, <2>4
<1>4. ASSUME NEW x \in Change, DiscardStart(x) PROVE [Changes(s)!Next]_(Changes(s)!vars)
  <2>1. UNCHANGED <<config, logged, changes, running, pc, rest>>
    BY <1>4 DEF DiscardStart
  <2>2. Pending(s)' = Pending(s)
    BY <2>1, PendingFrame
  <2> QED BY <1>s, <2>1, <2>2
<1>5. ASSUME NEW z \in Site, DiscardLog(z) PROVE [Changes(s)!Next]_(Changes(s)!vars)
  <2>1. /\ LogEntry(z, editor.id) /\ editor.id \in Change
        /\ UNCHANGED <<config, running, logged, pc, rest>>
    BY <1>5, EditorFacts DEF DiscardLog, TypeInv
  <2>2. editor.id \notin config
    BY <1>5 DEF DiscardLog, SiteInv, NewInv, Discarding
  <2>3. /\ Pending(z)' = Pending(z) \cup {editor.id}
        /\ \A t \in Site : t # z => Pending(t)' = Pending(t)
    BY <2>1, PendingLogged
  <2>4. CASE z = s
    <3>1. Changes(s)!Note(editor.id)
      BY <1>c, <2>1, <2>2, <2>3, <2>4 DEF Changes!Note
    <3> QED BY <2>1, <3>1 DEF Changes!Next
  <2>5. CASE z # s
    BY <1>s, <2>1, <2>3, <2>5
  <2> QED BY <2>4, <2>5
<1>6. CASE DiscardExtract
  <2>1. /\ UNCHANGED <<logged, changes, running, pc, rest>>
        /\ editor.op = "discard" /\ editor.left = {} /\ config' = backup
    BY <1>6 DEF DiscardExtract
  <2>2. Pending(s)' = Pending(s)
    BY <2>1, PendingFrame
  <2>3. Pending(s) # {}
    <3>1. changes[s] # <<>>
      BY <2>1 DEF SiteInv, NoteInv
    <3> QED BY <3>1, EmptyFile DEF TypeInv, Pending
  <2>4. config' \subseteq config
    <3>1. backup # None
      BY <2>1 DEF TypeInv, DiscardInv, Discarding
    <3>2. backup \in SUBSET Change
      BY <3>1, BackupFacts DEF TypeInv
    <3> QED BY <2>1, <3>1, <3>2 DEF Inv, SnapInv, Saved
  <2>5. Changes(s)!Restore
    BY <1>c, <2>1, <2>2, <2>3, <2>4 DEF Changes!Restore
  <2> QED BY <2>5 DEF Changes!Next
<1>7. CASE DiscardRestart
  <2>1. /\ UNCHANGED <<config, logged, changes, pc, rest>>
        /\ \A t \in Site : running'[t] = IF t = Local THEN config ELSE running[t]
    BY <1>7 DEF DiscardRestart, TypeInv, TypeOK
  <2>2. Pending(s)' = Pending(s)
    BY <2>1, PendingFrame
  <2>3. CASE s = Local
    <3>1. Changes(s)!Activate
      BY <1>c, <2>1, <2>2, <2>3 DEF Changes!Activate
    <3> QED BY <3>1 DEF Changes!Next
  <2>4. CASE s # Local
    BY <1>s, <2>1, <2>2, <2>4
  <2> QED BY <2>3, <2>4
<1>8. CASE DiscardFails
  <2>1. UNCHANGED <<config, logged, changes, running, pc, rest>>
    BY <1>8 DEF DiscardFails
  <2>2. Pending(s)' = Pending(s)
    BY <2>1, PendingFrame
  <2> QED BY <1>s, <2>1, <2>2
<1>9. ASSUME NEW z \in Site, DiscardClear(z) PROVE [Changes(s)!Next]_(Changes(s)!vars)
  <2>1. /\ UNCHANGED <<config, logged, running, pc, rest>> /\ editor.op = "clear"
        /\ \A t \in Site : changes'[t] = IF t = z THEN <<>> ELSE changes[t]
    BY <1>9 DEF DiscardClear, TypeInv, TypeOK
  <2>2. CASE z = s
    <3>1. \A a \in Activation : pc[<<a, s>>] \notin Writing
      BY <2>1 DEF Inv, WorkInv, QuietInv, Discarding, Busy, Working, Writing
    <3>2. Pending(s) = Ids(changes[s]) /\ Pending(s)' = {}
      <4>1. Pending(s) = Ids(changes[s])
        BY <3>1, PendingInFile
      <4>2. Rewritten(s)' = {}
        BY <2>1, <3>1 DEF Rewritten
      <4> QED BY <2>1, <2>2, <4>1, <4>2, EmptyFacts DEF Pending
    <3>3. Ids(changes[s]) \cap config \cap logged[s] \subseteq running[s]
      <4>1. CASE s = Local
        BY <2>1, <4>1 DEF Inv, LeftInv
      <4>2. CASE s # Local
        <5>1. Ids(changes[s]) \cap logged[s] \cap backup = {}
          BY <1>9, <2>2, <4>2 DEF DiscardClear
        <5>2. config = backup
          BY <2>1 DEF Inv, SnapInv
        <5> QED BY <5>1, <5>2
      <4> QED BY <4>1, <4>2
    <3>4. running[s] \subseteq config
      BY <2>1, ConfirmedSite
    <3>5. Changes(s)!Confirm
      BY <1>c, <2>1, <3>2, <3>3, <3>4 DEF Changes!Confirm
    <3> QED BY <3>5 DEF Changes!Next
  <2>3. CASE z # s
    <3>1. Pending(s)' = Pending(s)
      BY <2>1, <2>3, PendingFrame
    <3> QED BY <1>s, <2>1, <3>1
  <2> QED BY <2>2, <2>3
<1>10. ASSUME NEW b \in Activation, NEW sites \in SUBSET Site, NEW transfer \in BOOLEAN, Load(b,
             sites, transfer)
       PROVE  [Changes(s)!Next]_(Changes(s)!vars)
  <2>1. UNCHANGED <<config, logged, changes, running, pc, rest>>
    BY <1>10 DEF Load
  <2>2. Pending(s)' = Pending(s)
    BY <2>1, PendingFrame
  <2> QED BY <1>s, <2>1, <2>2
<1>11. ASSUME NEW b \in Activation, CreateSnapshots(b) PROVE [Changes(s)!Next]_(Changes(s)!vars)
  <2>1. UNCHANGED <<config, logged, changes, running, pc, rest>>
    BY <1>11 DEF CreateSnapshots
  <2>2. Pending(s)' = Pending(s)
    BY <2>1, PendingFrame
  <2> QED BY <1>s, <2>1, <2>2
<1>12. ASSUME NEW b \in Activation, NEW z \in Site, Fork(b, z) PROVE [Changes(s)!Next]_(Changes(s)!vars)
  <2>1. /\ UNCHANGED <<config, logged, changes, running, rest>>
        /\ \A r \in Process : r # <<b, z>> => pc'[r] = pc[r]
        /\ pc'[<<b, z>>] = "ready"
    BY <1>12 DEF Fork, TypeInv, TypeOK, Process
  <2>2. pc[<<b, z>>] = "none"
    BY <1>12 DEF Fork, TypeInv, ProcInv
  <2>3. \A r \in Process : pc'[r] \in Writing <=> pc[r] \in Writing
    BY <2>1, <2>2 DEF Writing
  <2>4. Pending(s)' = Pending(s)
    BY <1>d, <2>1, <2>3, PendingFrame
  <2> QED BY <1>s, <2>1, <2>4
<1>13. ASSUME NEW q \in Process, LockActivation(q) PROVE [Changes(s)!Next]_(Changes(s)!vars)
  <2>1. /\ UNCHANGED <<config, logged, changes, running>>
        /\ \A r \in Process : /\ pc'[r] \in Writing <=> pc[r] \in Writing
                              /\ pc[r] \in Writing => rest'[r] = rest[r]
    BY <1>13 DEF LockActivation, TypeInv, TypeOK, Writing
  <2>2. Pending(s)' = Pending(s)
    BY <1>d, <2>1, PendingFrame
  <2> QED BY <1>s, <2>1, <2>2
<1>14. ASSUME NEW q \in Process, NoSyncNeeded(q) PROVE [Changes(s)!Next]_(Changes(s)!vars)
  <2>1. /\ UNCHANGED <<config, logged, changes, running>>
        /\ \A r \in Process : /\ pc'[r] \in Writing <=> pc[r] \in Writing
                              /\ pc[r] \in Writing => rest'[r] = rest[r]
    BY <1>14 DEF NoSyncNeeded, Synchronized, TypeInv, TypeOK, Writing
  <2>2. Pending(s)' = Pending(s)
    BY <1>d, <2>1, PendingFrame
  <2> QED BY <1>s, <2>1, <2>2
<1>15. ASSUME NEW q \in Process, NEW effect \in BOOLEAN, NEW answer \in BOOLEAN,
             SynchronizeSite(q, effect, answer)
       PROVE  [Changes(s)!Next]_(Changes(s)!vars)
  <2>1. /\ UNCHANGED <<config, logged, changes, running>>
        /\ \A r \in Process : /\ pc'[r] \in Writing <=> pc[r] \in Writing
                              /\ pc[r] \in Writing => rest'[r] = rest[r]
    BY <1>15 DEF SynchronizeSite, Synchronized, TypeInv, TypeOK, Writing
  <2>2. Pending(s)' = Pending(s)
    BY <1>d, <2>1, PendingFrame
  <2> QED BY <1>s, <2>1, <2>2
<1>16. ASSUME NEW q \in Process, NoActivateNeeded(q) PROVE [Changes(s)!Next]_(Changes(s)!vars)
  <2>1. /\ UNCHANGED <<config, logged, changes, running>>
        /\ \A r \in Process : /\ pc'[r] \in Writing <=> pc[r] \in Writing
                              /\ pc[r] \in Writing => rest'[r] = rest[r]
    BY <1>16 DEF NoActivateNeeded, TypeInv, TypeOK, Writing
  <2>2. Pending(s)' = Pending(s)
    BY <1>d, <2>1, PendingFrame
  <2> QED BY <1>s, <2>1, <2>2
<1>17. ASSUME NEW q \in Process, NEW effect \in BOOLEAN, NEW answer \in BOOLEAN, DoActivate(q,
             effect, answer)
       PROVE  [Changes(s)!Next]_(Changes(s)!vars)
  <2>1. /\ UNCHANGED <<config, logged, changes, rest>>
        /\ \A r \in Process : pc'[r] \in Writing <=> pc[r] \in Writing
    BY <1>17 DEF DoActivate, TypeInv, TypeOK, Writing
  <2>2. Pending(s)' = Pending(s)
    BY <1>d, <2>1, PendingFrame
  <2>3. \A t \in Site : \/ running'[t] = running[t]
                        \/ running'[t] = IF t = Local THEN config ELSE synced[t]
    BY <1>17, ProcessFacts DEF DoActivate, TypeInv, TypeOK
  <2>4. CASE running'[s] = running[s]
    BY <1>s, <2>1, <2>2, <2>4
  <2>5. CASE running'[s] # running[s]
    <3>1. running'[s] = IF s = Local THEN config ELSE synced[s]
      BY <2>3, <2>5
    <3>2. s # Local => synced[s] \subseteq config
      BY DEF Inv, SnapInv
    <3>3. s # Local => running[s] \cap logged[s] \cap config \subseteq synced[s]
      BY DEF SiteInv, RunInv
    <3>4. Changes(s)!Activate
      BY <1>c, <2>1, <2>2, <3>1, <3>2, <3>3 DEF Changes!Activate
    <3> QED BY <3>4 DEF Changes!Next
  <2> QED BY <2>4, <2>5
<1>18. ASSUME NEW q \in Process, ConfirmLoad(q) PROVE [Changes(s)!Next]_(Changes(s)!vars)
  <2>1. UNCHANGED <<config, logged, changes, running>>
    BY <1>18 DEF ConfirmLoad
  <2>2. \A r \in Process : /\ pc'[r] \in Writing <=> pc[r] \in Writing
                           /\ pc[r] \in Writing => rest'[r] = rest[r]
    BY <1>18, ConfirmEffect DEF TypeInv, Writing
  <2>3. Pending(s)' = Pending(s)
    BY <1>d, <2>1, <2>2, PendingFrame
  <2> QED BY <1>s, <2>1, <2>3
<1>19. ASSUME NEW q \in Process, Truncate(q) PROVE [Changes(s)!Next]_(Changes(s)!vars)
  <2>1. /\ UNCHANGED <<config, logged, running, rest>>
        /\ \A r \in Process : r # q => pc'[r] = pc[r]
        /\ pc[q] = "truncate" /\ pc'[q] = IF rest[q] = <<>> THEN "unlock" ELSE "rewrite"
        /\ \A t \in Site : t # q[2] => changes'[t] = changes[t]
        /\ changes'[q[2]] = <<>>
    BY <1>19, ProcessFacts DEF Truncate, TypeInv, TypeOK
  <2>2. CASE q[2] = s
    <3>1. PICK b \in Activation : q = <<b, s>> /\ q[1] = b
      BY <2>2, ProcessFacts
    <3>2. \A a \in Activation : pc[<<a, s>>] \notin Writing
      BY <2>1, <2>2, AloneFacts DEF Inv, WorkInv, Working, Writing
    <3>3. \A a \in Activation : pc'[<<a, s>>] \in Writing <=> a = b /\ rest[q] # <<>>
      BY <1>d, <2>1, <3>1, <3>2 DEF Writing
    <3>4. Pending(s) = Ids(changes[s])
      BY <3>2, PendingInFile
    <3>5. Pending(s)' = Ids(rest[q])
      <4>1. {a \in Activation : pc'[<<a, s>>] \in Writing} = IF rest[q] = <<>> THEN {} ELSE {b}
        BY <3>3
      <4>2. Rewritten(s)' = Ids(rest[q])
        <5>1. rest' = rest
          BY <2>1
        <5>2. CASE rest[q] = <<>>
          BY <4>1, <5>2, EmptyFacts DEF Rewritten
        <5>3. CASE rest[q] # <<>>
          <6>1. Rewritten(s)' = Ids(rest'[<<b, s>>])
            BY <4>1, <5>3, OneWriter DEF Rewritten
          <6> QED BY <3>1, <5>1, <6>1
        <5> QED BY <5>2, <5>3
      <4> QED BY <2>1, <2>2, <4>2, EmptyFacts DEF Pending
    <3>6. Ids(rest[q]) \subseteq Ids(changes[s])
      BY <2>1, <3>1 DEF SiteInv, RestInv
    <3>7. (Ids(changes[s]) \ Ids(rest[q])) \cap config \cap logged[s] \subseteq running[s]
      <4> SUFFICES ASSUME NEW c \in (Ids(changes[s]) \ Ids(rest[q])) \cap config \cap logged[s]
                   PROVE  c \in running[s]
        OBVIOUS
      <4>1. c \in Change /\ IsDue(s, c)
        BY DEF TypeInv, TypeOK, IsDue
      <4>2. LostAt(s, c)
        BY <4>1 DEF Inv, LostInv
      <4> QED BY <2>1, <3>1, <4>1, <4>2 DEF LostAt
    <3>8. running[s] \subseteq config
      BY <2>1, <3>1, ConfirmedSite
    <3>9. Changes(s)!Confirm
      BY <1>c, <2>1, <3>4, <3>5, <3>6, <3>7, <3>8 DEF Changes!Confirm
    <3> QED BY <3>9 DEF Changes!Next
  <2>3. CASE q[2] # s
    <3>1. \A a \in Activation : pc'[<<a, s>>] = pc[<<a, s>>]
      BY <1>d, <2>1, <2>3
    <3>2. Pending(s)' = Pending(s)
      BY <2>1, <2>3, <3>1, PendingFrame
    <3> QED BY <1>s, <2>1, <3>2
  <2> QED BY <2>2, <2>3
<1>20. ASSUME NEW q \in Process, Rewrite(q) PROVE [Changes(s)!Next]_(Changes(s)!vars)
  <2>1. UNCHANGED <<config, logged, running>>
    BY <1>20 DEF Rewrite
  <2>2. /\ pc[q] \in Writing /\ pc'[q] \in {"append", "unlock"}
        /\ \A r \in Process : r # q => pc'[r] = pc[r] /\ rest'[r] = rest[r]
        /\ \A t \in Site : t # q[2] => changes'[t] = changes[t]
        /\ Ids(changes'[q[2]]) \cup Ids(rest'[q]) = Ids(changes[q[2]]) \cup Ids(rest[q])
        /\ pc'[q] = "unlock" => Ids(rest'[q]) = {}
    BY <1>20, RewriteEffect
  <2>3. CASE q[2] = s
    <3>1. PICK b \in Activation : q = <<b, s>> /\ q[1] = b
      BY <2>3, ProcessFacts
    <3>2. \A a \in Activation : a # b => <<a, s>> # q /\ pc[<<a, s>>] \notin Writing
      <4>1. \A a \in Activation : <<a, s>> # q => pc[<<a, s>>] \notin Working
        BY <2>2, <2>3, AloneFacts DEF Inv, WorkInv, Working, Writing
      <4> QED BY <3>1, <4>1 DEF Working, Writing
    <3>3. \A a \in Activation : pc'[<<a, s>>] \in Writing <=> a = b /\ pc'[q] = "append"
      BY <1>d, <2>2, <3>1, <3>2 DEF Writing
    <3>4. Rewritten(s) = Ids(rest[q])
      <4>1. {a \in Activation : pc[<<a, s>>] \in Writing} = {b}
        BY <2>2, <3>1, <3>2
      <4> QED BY <3>1, <4>1, OneWriter DEF Rewritten
    <3>5. Rewritten(s)' = Ids(rest'[q])
      <4>1. {a \in Activation : pc'[<<a, s>>] \in Writing} = IF pc'[q] = "append" THEN {b} ELSE {}
        BY <3>3
      <4>2. CASE pc'[q] = "append"
        BY <3>1, <4>1, <4>2, OneWriter DEF Rewritten
      <4>3. CASE pc'[q] = "unlock"
        BY <2>2, <4>1, <4>3 DEF Rewritten
      <4> QED BY <2>2, <4>2, <4>3
    <3>6. Pending(s)' = Pending(s)
      BY <2>2, <2>3, <3>4, <3>5 DEF Pending
    <3> QED BY <1>s, <2>1, <3>6
  <2>4. CASE q[2] # s
    <3>1. \A a \in Activation : pc'[<<a, s>>] = pc[<<a, s>>] /\ rest'[<<a, s>>] = rest[<<a, s>>]
      BY <1>d, <2>2, <2>4
    <3>2. Pending(s)' = Pending(s)
      BY <2>2, <2>4, <3>1, PendingFrame
    <3> QED BY <1>s, <2>1, <3>2
  <2> QED BY <2>3, <2>4
<1>21. ASSUME NEW q \in Process, UnlockActivation(q) PROVE [Changes(s)!Next]_(Changes(s)!vars)
  <2>1. /\ UNCHANGED <<config, logged, changes, running>>
        /\ \A r \in Process : /\ pc'[r] \in Writing <=> pc[r] \in Writing
                              /\ pc[r] \in Writing => rest'[r] = rest[r]
    BY <1>21 DEF UnlockActivation, Forget, TypeInv, TypeOK, Writing
  <2>2. Pending(s)' = Pending(s)
    BY <1>d, <2>1, PendingFrame
  <2> QED BY <1>s, <2>1, <2>2
<1>22. ASSUME NEW q \in Process, Crash(q) PROVE [Changes(s)!Next]_(Changes(s)!vars)
  <2>1. /\ UNCHANGED <<config, logged, changes, running>>
        /\ \A r \in Process : r # q => pc'[r] = pc[r] /\ rest'[r] = rest[r]
        /\ pc'[q] = "done"
    BY <1>22 DEF Crash, Forget, TypeInv, TypeOK
  <2>2. q[2] = s => pc[q] \notin Writing
    BY <1>22 DEF Crash
  <2>3. \A a \in Activation : /\ pc'[<<a, s>>] \in Writing <=> pc[<<a, s>>] \in Writing
                              /\ pc[<<a, s>>] \in Writing => rest'[<<a, s>>] = rest[<<a, s>>]
    BY <1>d, <2>1, <2>2 DEF Writing
  <2>4. Pending(s)' = Pending(s)
    BY <2>1, <2>3, PendingFrame
  <2> QED BY <1>s, <2>1, <2>4
<1>23. CASE UNCHANGED vars
  <2>1. UNCHANGED <<config, logged, changes, running, pc, rest>>
    BY <1>23 DEF vars, uservars, filevars, sitevars, managervars, procvars
  <2>2. Pending(s)' = Pending(s)
    BY <2>1, PendingFrame
  <2> QED BY <1>s, <2>1, <2>2
<1> QED BY <1>1, <1>2, <1>3, <1>4, <1>5, <1>6, <1>7, <1>8, <1>9, <1>10, <1>11, <1>12, <1>13,
           <1>14, <1>15, <1>16, <1>17, <1>18, <1>19, <1>20, <1>21, <1>22, <1>23
        DEF Next, Edit, Request, Manage, Step

LEMMA StepSiteInv ==
  ASSUME Inv, SiteInv, [Next]_vars
  PROVE  SiteInv'
BY StepNew, StepNote, StepRest, StepRun DEF Inv, WorkInv, SiteInv

\* The pending changes of every site are, through all the steps of the users
\* and of the activations, what SiteChanges promises: nothing is taken off the
\* list that the site does not run, nothing that the site ran and should run is
\* lost again, a discard is listed as long as it is not complete (SiteChanges,
\* ActivateChangesSite, ModeDiscardChanges).
THEOREM ActivationImplementsSites == Spec => SitesSpec
<1>1. Init => \A s \in Site : Changes(s)!Init
  <2> SUFFICES ASSUME Init, NEW s \in Site PROVE Changes(s)!Init
    OBVIOUS
  <2>1. Pending(s) = {}
    BY EmptyFacts DEF Init, Pending, Rewritten, Writing, Process
  <2> QED BY <2>1 DEF Init, Changes!Init
<1>2. Init => SiteInv
  BY DEF Init, SiteInv, NewInv, NoteInv, RestInv, RunInv, Discarding, Idle, Process, Before
<1>3. Inv /\ SiteInv /\ [Next]_vars => SiteInv'
  BY StepSiteInv
<1>4. Inv /\ SiteInv /\ [Next]_vars => \A s \in Site : [Changes(s)!Next]_(Changes(s)!vars)
  BY StepSites
<1> QED BY <1>1, <1>2, <1>3, <1>4, SpecInv, PTL DEF Spec, SitesSpec

\* That is what the users rely on: NothingLost and NothingLeftOver follow from
\* the abstract specification alone.
THEOREM SitesPromise == SitesSpec => [](NothingLost /\ NothingLeftOver)
<1> DEFINE Sites == \A s \in Site : [Changes(s)!Next]_(Changes(s)!vars)
<1>1. (\A s \in Site : Changes(s)!Init) => NothingLost /\ NothingLeftOver
  BY DEF Changes!Init, NothingLost, NothingLeftOver
<1>2. NothingLost /\ NothingLeftOver /\ [Sites]_vars => (NothingLost /\ NothingLeftOver)'
  <2> SUFFICES ASSUME NothingLost, NothingLeftOver, [Sites]_vars, NEW s \in Site, s \notin raced'
               PROVE  /\ config' \cap logged'[s] \subseteq running'[s] \cup Pending(s)'
                      /\ Pending(s)' = {} => running'[s] \subseteq config'
    BY DEF NothingLost, NothingLeftOver
  <2>1. CASE UNCHANGED vars
    <3>1. Pending(s)' = Pending(s) /\ UNCHANGED <<config, logged, running, raced>>
      BY <2>1 DEF vars, uservars, filevars, sitevars, procvars, Pending, Rewritten
    <3> QED BY <3>1 DEF NothingLost, NothingLeftOver
  <2>2. CASE [Changes(s)!Next]_(Changes(s)!vars)
    <3> DEFINE Promise == /\ config \cap logged[s] \subseteq running[s] \cup Pending(s)
                          /\ Pending(s) = {} => running[s] \subseteq config
    <3>1. (s \in raced)' = FALSE
      OBVIOUS
    <3>2. s \notin raced => Promise
      BY DEF NothingLost, NothingLeftOver
    <3> HIDE DEF Promise
    <3>3. ASSUME NEW c \in Change, Changes(s)!Save(c) PROVE Promise'
      BY <3>1, <3>2, <3>3 DEF Changes!Save, Promise
    <3>4. ASSUME NEW c \in Change, Changes(s)!Log(c) PROVE Promise'
      BY <3>1, <3>2, <3>4 DEF Changes!Log, Promise
    <3>5. ASSUME NEW c \in Change, Changes(s)!Note(c) PROVE Promise'
      BY <3>1, <3>2, <3>5 DEF Changes!Note, Promise
    <3>6. ASSUME Changes(s)!Restore PROVE Promise'
      BY <3>1, <3>2, <3>6 DEF Changes!Restore, Promise
    <3>7. ASSUME Changes(s)!Activate PROVE Promise'
      BY <3>1, <3>2, <3>7 DEF Changes!Activate, Promise
    <3>8. ASSUME Changes(s)!Confirm PROVE Promise'
      BY <3>1, <3>2, <3>8 DEF Changes!Confirm, Promise
    <3>9. ASSUME Changes(s)!Race PROVE Promise'
      BY <3>1, <3>9 DEF Changes!Race
    <3>10. ASSUME UNCHANGED (Changes(s)!vars) PROVE Promise'
      BY <3>1, <3>2, <3>10 DEF Changes!vars, Promise
    <3> HIDE DEF Promise
    <3>11. ASSUME Changes(s)!Next PROVE Promise'
      BY <3>3, <3>4, <3>5, <3>6, <3>7, <3>8, <3>9, <3>11 DEF Changes!Next
    <3>12. Promise'
      BY <2>2, <3>10, <3>11
    <3> QED BY <3>12 DEF Promise
  <2> QED BY <2>1, <2>2
<1> QED BY <1>1, <1>2, PTL DEF SitesSpec
============================================================================
