------------------------- MODULE EventDaemon_proofs -------------------------
(***************************************************************************)
(* Theorems about the daemon, for all hosts, rule sets, limits and bounds: *)
(* its threads change the event store by the operations of EventStatus     *)
(* only, the overall limit is never exceeded by more than four events,     *)
(* what a thread has marked for removal is still there, and, if rules tell *)
(* hosts apart, counters are exact and closed events are removed.          *)
(***************************************************************************)
EXTENDS EventDaemon, EventStatus_proofs

\* The references that the threads hold are references to events, and the
\* housekeeping looks at rules that are loaded.
Holding == {"countup", "test", "reach", "opened", "reached", "close", "remove", "created"}

RefOK ==
  /\ es \in Holding => cur.found \in Ref
  /\ es = "archive" => ArchiveOrphans
  /\ hk = "timeouts" => todo \subseteq Ref
  /\ hk \in {"drop", "expect"} => todo \subseteq active

DaemonInv == StatusTypeOK /\ ThreadTypeOK /\ RefOK

-----------------------------------------------------------------------------
(* How the threads use the operations of EventStatus.                      *)

LEMMA ConfIsTyped ==
  ASSUME ThreadTypeOK
  PROVE  /\ active \subseteq Rule
         /\ \A r \in active : rules[r] \in RuleConf
         /\ cur.conf \in RuleConf
  BY ConfAssumption DEF ThreadTypeOK, Message, active

LEMMA HeapIsTyped ==
  ASSUME StatusTypeOK
  PROVE  \A e \in Ref : heap[e] \in Event
  BY DEF StatusTypeOK, Ref

LEMMA FreshIsEvent ==
  ASSUME StatusTypeOK, NEW r \in Rules, NEW h \in Hosts, NEW p \in Phase, NEW d \in BOOLEAN
  PROVE  Fresh(r, h, p, d) \in Event /\ Fresh(r, h, p, d).id = nextId
  BY DEF StatusTypeOK, Fresh, Event, What

\* A change of an event that keeps its id, rule and host.
LEMMA ChangeIsTouch ==
  ASSUME StatusTypeOK, NEW e \in Ref, NEW new \in Event, Change(e, new),
         new.id = heap[e].id, new.rule = heap[e].rule, new.host = heap[e].host
  PROVE  Touch
<1>1. heap' = [heap EXCEPT ![e] = new] /\ UNCHANGED <<events, nextId, counters>>
  BY DEF Change
<1>2. heap'[e] = new /\ Len(heap') = Len(heap)
  BY <1>1 DEF StatusTypeOK, Ref
<1> QED
  BY <1>2 DEF Touch

LEMMA NewEventIsNew ==
  ASSUME StatusTypeOK, NEW ev \in Event, ev.id = nextId, NewEvent(ev)
  PROVE  New
<1>1. heap'[Len(heap) + 1] = ev /\ Len(heap') = Len(heap) + 1
  BY AppendOK DEF NewEvent, StatusTypeOK
<1> QED
  BY <1>1 DEF New

LEMMA RemoveEventIsRemove ==
  ASSUME StatusTypeOK, NEW e, RemoveEvent(e)
  PROVE  Remove \/ UNCHANGED statusVars
<1>1. CASE e \in events
  BY <1>1 DEF StatusTypeOK, Remove
<1>2. CASE e \notin events
  BY <1>2 DEF RemoveEvent, statusVars, counters
<1> QED
  BY <1>1, <1>2

LEMMA CountEventUpIsCountUp ==
  ASSUME StatusTypeOK, NEW e \in Ref, NEW h \in Hosts, NEW d \in BOOLEAN, NEW c \in Nat,
         CountEventUp(e, h, d, c)
  PROVE  CountUp
<1>1. heap[e] \in Event
  BY HeapIsTyped
<1>2. heap'[e].count = c /\ Len(heap') = Len(heap)
  BY <1>1 DEF CountEventUp, Change, StatusTypeOK, Ref, Event
<1> QED
  BY <1>2 DEF CountUp

-----------------------------------------------------------------------------
(* Each step of the daemon is an operation of the store, or leaves it      *)
(* alone, or is the unprotected increment of archive_event.                *)

StoreStep == StatusNext \/ UNCHANGED statusVars

\* One that is not count_event_up.
HostStep == New \/ Remove \/ Delete \/ Touch \/ Flush \/ UNCHANGED statusVars

LEMMA EsStoreStep ==
  ASSUME DaemonInv, EsStep
  PROVE  HostStep \/ (CountEventUpStep /\ CountUp) \/ ArchiveStore
<1> USE DEF DaemonInv, HostStep
<1>0. /\ cur.rule \in Rules /\ cur.host \in Hosts /\ cur.down \in BOOLEAN /\ cur.n \in Nat
      /\ cur.conf \in RuleConf
      /\ es \in Holding => cur.found \in Ref /\ found \in Event
  BY HeapIsTyped DEF ThreadTypeOK, Message, RefOK, found
<1>1. CASE CountEventUpStep
  BY <1>0, <1>1, CountEventUpIsCountUp DEF CountEventUpStep, Holding
<1>2. CASE ReachCount
  <2> DEFINE new == [found EXCEPT !.phase = "open"]
  <2>1. new \in Event /\ new.id = found.id /\ new.rule = found.rule /\ new.host = found.host
    BY <1>0, <1>2 DEF ReachCount, Holding, Event, Phase
  <2>2. Change(cur.found, new)
    BY <1>2 DEF ReachCount
  <2>3. Touch
    BY <1>0, <1>2, <2>1, <2>2, ChangeIsTouch DEF found, ReachCount, Holding
  <2> QED
    BY <2>3
<1>3. CASE OpenCounted
  <2> DEFINE new == IF conf.delay THEN [found EXCEPT !.phase = "delayed"]
                                  ELSE [found EXCEPT !.live = NewLive(@, conf)]
  <2>1. new \in Event /\ new.id = found.id /\ new.rule = found.rule /\ new.host = found.host
    BY <1>0, <1>3 DEF OpenCounted, Holding, Event, Phase, NewLive, conf, RuleConf
  <2>2. Change(cur.found, new)
    BY <1>3 DEF OpenCounted
  <2>3. Touch
    BY <1>0, <1>3, <2>1, <2>2, ChangeIsTouch DEF found, OpenCounted, Holding
  <2> QED
    BY <2>3
<1>4. CASE LogCountReached
  <2> DEFINE new == [found EXCEPT !.log = "COUNTREACHED"]
  <2>1. new \in Event /\ new.id = found.id /\ new.rule = found.rule /\ new.host = found.host
    BY <1>0, <1>4 DEF LogCountReached, Holding, Event, What
  <2>2. Change(cur.found, new)
    BY <1>4 DEF LogCountReached
  <2>3. Touch
    BY <1>0, <1>4, <2>1, <2>2, ChangeIsTouch DEF found, LogCountReached, Holding
  <2> QED
    BY <2>3
<1>5. CASE OpenCreated
  <2> DEFINE new == [found EXCEPT !.live = NewLive(@, conf)]
  <2>1. new \in Event /\ new.id = found.id /\ new.rule = found.rule /\ new.host = found.host
    BY <1>0, <1>5 DEF OpenCreated, Holding, Event, NewLive, conf, RuleConf
  <2>2. Change(cur.found, new) \/ UNCHANGED statusVars
    BY <1>5 DEF OpenCreated
  <2>3. Touch \/ UNCHANGED statusVars
    BY <1>0, <1>5, <2>1, <2>2, ChangeIsTouch DEF found, OpenCreated, Holding
  <2> QED
    BY <2>3
<1>6. CASE CloseEvent
  <2> DEFINE new == [found EXCEPT !.phase = "closed", !.log = "AUTODELETE"]
  <2>1. new \in Event /\ new.id = found.id /\ new.rule = found.rule /\ new.host = found.host
    BY <1>0, <1>6 DEF CloseEvent, Holding, Event, Phase, What
  <2>2. Change(cur.found, new)
    BY <1>6 DEF CloseEvent
  <2>3. Touch
    BY <1>0, <1>6, <2>1, <2>2, ChangeIsTouch DEF found, CloseEvent, Holding
  <2> QED
    BY <2>3
<1>7. CASE CancelMark
  <2> PICK e \in events : Change(e, [heap[e] EXCEPT !.phase = "closed", !.log = "CANCELLED"])
    BY <1>7 DEF CancelMark
  <2> DEFINE new == [heap[e] EXCEPT !.phase = "closed", !.log = "CANCELLED"]
  <2>1. e \in Ref /\ heap[e] \in Event
    BY HeapIsTyped DEF StatusTypeOK
  <2>2. new \in Event /\ new.id = heap[e].id /\ new.rule = heap[e].rule /\ new.host = heap[e].host
    BY <2>1 DEF Event, Phase, What
  <2>3. Touch
    BY <2>1, <2>2, ChangeIsTouch
  <2> QED
    BY <2>3
<1>8. CASE RemoveClosed
  BY <1>8, RemoveEventIsRemove DEF RemoveClosed
<1>9. CASE SweepCancelled
  BY <1>9, RemoveEventIsRemove DEF SweepCancelled
<1>10. CASE ShrinkOldest
  BY <1>10, RemoveEventIsRemove DEF ShrinkOldest
<1>11. CASE Create
  <2>1. FirstPhase \in Phase
    BY <1>0 DEF FirstPhase, Phase, conf
  <2>2. New
    BY <1>0, <1>11, <2>1, FreshIsEvent, NewEventIsNew DEF Create
  <2> QED
    BY <2>2
<1>12. ASSUME NEW ty \in LimitType, LimitReached(ty)
       PROVE  HostStep
  <2>1. Overflow(ty) \in Event /\ Overflow(ty).id = nextId
    BY <1>0, FreshIsEvent DEF Overflow, LimitType, Rules, Hosts, Phase
  <2>2. New \/ UNCHANGED statusVars
    BY <1>12, <2>1, NewEventIsNew DEF LimitReached
  <2> QED
    BY <2>2
<1>13. CASE CountRuleMatch \/ ScanFound \/ ScanSkip \/ ScanEnd \/ TestCount
              \/ LimitTake \/ ShrinkEnd \/ CancelTake \/ CancelSweep \/ SweepEnd
  BY <1>13 DEF CountRuleMatch, ScanFound, ScanSkip, ScanEnd, TestCount, LimitTake,
               ShrinkEnd, CancelTake, CancelSweep, SweepEnd
<1>14. ASSUME NEW ty \in LimitType,
              LimitFails(ty) \/ LimitNotReached(ty) \/ LimitDeletesOldest(ty) \/ LimitRefuses(ty)
       PROVE  UNCHANGED statusVars
  BY <1>14 DEF LimitFails, LimitNotReached, LimitDeletesOldest, LimitRefuses
<1> QED
  BY <1>1, <1>2, <1>3, <1>4, <1>5, <1>6, <1>7, <1>8, <1>9, <1>10, <1>11, <1>12, <1>13, <1>14
  DEF EsStep, LimitStep

LEMMA HkStoreStep ==
  ASSUME DaemonInv, HkStep
  PROVE  HostStep
<1> USE DEF DaemonInv, HostStep
<1>0. /\ \A e \in Ref : heap[e] \in Event
      /\ \A r \in active : rules[r] \in RuleConf
      /\ events \subseteq Ref
  BY HeapIsTyped, ConfIsTyped DEF StatusTypeOK
<1>1. CASE HkTimeout
  <2> PICK e \in First(todo) : \/ TimeoutCounting(e) \/ TimeoutDelayed(e) \/ TimeoutLivetime(e)
                               \/ NotDue
    BY <1>1 DEF HkTimeout
  <2>1. e \in Ref
    BY <1>1 DEF HkTimeout, RefOK, First
  <2>2. heap[e] \in Event
    BY <1>0, <2>1
  <2>3. ASSUME NEW w \in What, Close(e, w)
        PROVE  Touch
    <3> DEFINE new == [heap[e] EXCEPT !.phase = "closed", !.log = w]
    <3>1. new \in Event /\ new.id = heap[e].id /\ new.rule = heap[e].rule /\ new.host = heap[e].host
      BY <2>2 DEF Event, Phase
    <3>2. Change(e, new)
      BY <2>3 DEF Close
    <3> QED
      BY <2>1, <3>1, <3>2, ChangeIsTouch
  <2>4. CASE TimeoutCounting(e)
    <3>1. CASE LoseTokens(e)
      <4> PICK c \in 0..heap[e].count :
                 IF c = 0
                 THEN Change(e, [heap[e] EXCEPT !.count = 0, !.phase = "closed", !.log = "COUNTFAILED"])
                 ELSE Change(e, [heap[e] EXCEPT !.count = c])
        BY <3>1 DEF LoseTokens
      <4> DEFINE new == IF c = 0
                        THEN [heap[e] EXCEPT !.count = 0, !.phase = "closed", !.log = "COUNTFAILED"]
                        ELSE [heap[e] EXCEPT !.count = c]
      <4>1. c \in Nat
        BY <2>2 DEF Event
      <4>2. new \in Event /\ new.id = heap[e].id /\ new.rule = heap[e].rule /\ new.host = heap[e].host
        BY <2>2, <4>1 DEF Event, Phase, What
      <4>3. Change(e, new)
        OBVIOUS
      <4>4. Touch
        BY <2>1, <4>2, <4>3, ChangeIsTouch
      <4> QED
        BY <4>4
    <3>2. CASE \E w \in {"ORPHANED", "NOCOUNT", "COUNTFAILED"} : Close(e, w)
      BY <2>3, <3>2 DEF What
    <3> QED
      BY <2>4, <3>1, <3>2 DEF TimeoutCounting
  <2>5. CASE TimeoutDelayed(e)
    <3> DEFINE r == heap[e].rule
               opened == [heap[e] EXCEPT !.phase = "open", !.log = "DELAYOVER"]
               new == IF r \notin active THEN opened
                      ELSE [opened EXCEPT !.live = NewLive(@, rules[r])]
    <3>1. CASE Close(e, "AUTODELETE")
      BY <2>3, <3>1 DEF What
    <3>2. CASE Change(e, new)
      <4>1. opened \in Event /\ opened.id = heap[e].id /\ opened.rule = heap[e].rule
               /\ opened.host = heap[e].host
        BY <2>2 DEF Event, Phase, What
      <4> HIDE DEF opened
      <4>2. new \in Event /\ new.id = heap[e].id /\ new.rule = heap[e].rule /\ new.host = heap[e].host
        BY <1>0, <4>1 DEF Event, NewLive, RuleConf
      <4>3. Touch
        BY <2>1, <3>2, <4>2, ChangeIsTouch
      <4> QED
        BY <4>3
    <3> QED
      BY <2>5, <3>1, <3>2 DEF TimeoutDelayed
  <2>6. CASE TimeoutLivetime(e)
    BY <2>3, <2>6 DEF TimeoutLivetime, What
  <2>7. CASE NotDue
    BY <2>7 DEF NotDue
  <2> QED
    BY <2>4, <2>5, <2>6, <2>7
<1>2. CASE HkDrop
  BY <1>2, RemoveEventIsRemove DEF HkDrop
<1>3. CASE HkExpect
  <2>10. PICK r \in todo :
         \/ \E e \in Counted(r) : Change(e, [heap[e] EXCEPT !.log = "COUNTREACHED"])
         \/ \E m \in First(Mergeable(r)) :
              Change(m, [heap[m] EXCEPT !.phase = "open", !.log = "COUNTFAILED", !.count = @ + 1])
         \/ NewEvent([Fresh(r, NoHost, IF rules[r].autodelete THEN "closed" ELSE "open", FALSE)
                      EXCEPT !.log = IF rules[r].autodelete THEN "AUTODELETE" ELSE "COUNTFAILED",
                             !.live = rules[r].livetime])
    BY <1>3 DEF HkExpect
  <2>0. r \in active /\ r \in Rules /\ NoHost \in Hosts
    BY <1>3, ConfIsTyped DEF HkExpect, RefOK, Rules, Hosts
  <2>1. ASSUME NEW e \in Counted(r), Change(e, [heap[e] EXCEPT !.log = "COUNTREACHED"])
        PROVE  Touch
    <3>1. e \in Ref
      BY <1>0 DEF Counted, Counting, First, OfRule
    <3> DEFINE new == [heap[e] EXCEPT !.log = "COUNTREACHED"]
    <3>2. new \in Event /\ new.id = heap[e].id /\ new.rule = heap[e].rule /\ new.host = heap[e].host
      BY <1>0, <3>1 DEF Event, What
    <3> QED
      BY <2>1, <3>1, <3>2, ChangeIsTouch
  <2>2. ASSUME NEW m \in First(Mergeable(r)),
               Change(m, [heap[m] EXCEPT !.phase = "open", !.log = "COUNTFAILED", !.count = @ + 1])
        PROVE  Touch
    <3>1. m \in Ref
      BY <1>0 DEF Mergeable, First, OfRule
    <3> DEFINE new == [heap[m] EXCEPT !.phase = "open", !.log = "COUNTFAILED", !.count = @ + 1]
    <3>2. new \in Event /\ new.id = heap[m].id /\ new.rule = heap[m].rule /\ new.host = heap[m].host
      <4>1. heap[m] \in Event /\ heap[m].count + 1 \in Nat
        BY <1>0, <3>1 DEF Event
      <4> QED
        BY <4>1 DEF Event, Phase, What
    <3> QED
      BY <2>2, <3>1, <3>2, ChangeIsTouch
  <2>3. ASSUME NEW p \in Phase, NEW w \in What,
               NewEvent([Fresh(r, NoHost, p, FALSE) EXCEPT !.log = w, !.live = rules[r].livetime])
        PROVE  New
    <3> DEFINE f == Fresh(r, NoHost, p, FALSE)
               new == [f EXCEPT !.log = w, !.live = rules[r].livetime]
    <3>1. f \in Event /\ f.id = nextId
      BY <2>0, FreshIsEvent
    <3>2. rules[r].livetime \in SUBSET {"open", "ack"}
      BY <1>0, <2>0 DEF RuleConf
    <3>3. NewEvent(new)
      BY <2>3
    <3> HIDE DEF f
    <3>4. new \in Event /\ new.id = nextId
      BY <3>1, <3>2 DEF Event
    <3> QED
      BY <3>3, <3>4, NewEventIsNew
  <2>4. CASE NewEvent([Fresh(r, NoHost, IF rules[r].autodelete THEN "closed" ELSE "open", FALSE)
                      EXCEPT !.log = IF rules[r].autodelete THEN "AUTODELETE" ELSE "COUNTFAILED",
                             !.live = rules[r].livetime])
    BY <2>3, <2>4 DEF Phase, What
  <2> QED
    BY <2>1, <2>2, <2>4, <2>10
<1>4. CASE HkDowntime
  BY <1>4, RemoveEventIsRemove DEF HkDowntime
<1>5. CASE HkTimeoutsEnd \/ HkDropEnd \/ HkExpectNotDue \/ HkExpectEnd \/ HkEnd
  BY <1>5 DEF HkTimeoutsEnd, HkDropEnd, HkExpectNotDue, HkExpectEnd, HkEnd
<1> QED
  BY <1>1, <1>2, <1>3, <1>4, <1>5 DEF HkStep

LEMMA CommandStoreStep ==
  ASSUME DaemonInv, CommandStep
  PROVE  HostStep
<1> USE DEF DaemonInv, HostStep
<1>0. events \subseteq Ref /\ Named \subseteq events /\ \A e \in Ref : heap[e] \in Event
  BY HeapIsTyped DEF StatusTypeOK, Named
<1>1. CASE CommandDelete
  BY <1>0, <1>1 DEF CommandDelete, Delete
<1>2. CASE CommandUpdate
  <2> PICK e \in Named, ack \in {"", "0", "1"} :
          Change(e, [heap[e] EXCEPT !.log = "UPDATE", !.phase = CASE ack = "" -> @
                                                                  [] ack = "0" -> "open"
                                                                  [] ack = "1" -> "ack"])
    BY <1>2 DEF CommandUpdate
  <2> DEFINE p == CASE ack = "" -> heap[e].phase [] ack = "0" -> "open" [] ack = "1" -> "ack"
             new == [heap[e] EXCEPT !.log = "UPDATE", !.phase = p]
  <2>1. e \in Ref /\ heap[e] \in Event
    BY <1>0
  <2>2. Change(e, new)
    OBVIOUS
  <2>3. p \in Phase
    BY <2>1 DEF Event, Phase
  <2> HIDE DEF p
  <2>4. new \in Event /\ new.id = heap[e].id /\ new.rule = heap[e].rule /\ new.host = heap[e].host
    BY <2>1, <2>3 DEF Event, What
  <2>5. Touch
    BY <2>1, <2>2, <2>4, ChangeIsTouch
  <2> QED
    BY <2>5
<1>3. CASE CommandChangestate
  <2> PICK e \in Named : Change(e, [heap[e] EXCEPT !.log = "CHANGESTATE"])
    BY <1>3 DEF CommandChangestate
  <2> DEFINE new == [heap[e] EXCEPT !.log = "CHANGESTATE"]
  <2>1. e \in Ref /\ heap[e] \in Event
    BY <1>0
  <2>2. new \in Event /\ new.id = heap[e].id /\ new.rule = heap[e].rule /\ new.host = heap[e].host
    BY <2>1 DEF Event, What
  <2>3. Touch
    BY <2>1, <2>2, ChangeIsTouch
  <2> QED
    BY <2>3
<1>4. CASE CommandFlush
  BY <1>4 DEF CommandFlush
<1>5. CASE CommandReload \/ Sighup
  BY <1>5 DEF CommandReload, Sighup
<1> QED
  BY <1>1, <1>2, <1>3, <1>4, <1>5 DEF CommandStep

LEMMA DaemonStoreStep ==
  ASSUME DaemonInv, [Next]_vars
  PROVE  StoreStep \/ ArchiveStore
<1>1. ASSUME EsArrival \/ HkStart
      PROVE  UNCHANGED statusVars
  BY <1>1 DEF EsArrival, Receive, ReceiveOrphan, HkStart
<1> QED
  BY <1>1, EsStoreStep, HkStoreStep, CommandStoreStep DEF Next, StoreStep, HostStep, StatusNext, vars

\* No step of the store takes a reference away.
LEMMA HeapGrows ==
  ASSUME StatusTypeOK, ThreadTypeOK, StoreStep \/ ArchiveStore
  PROVE  StatusTypeOK' /\ Ref \subseteq Ref' /\ Len(heap) \in Nat
<1>1. CASE StoreStep
  <2>1. StatusTypeOK'
    BY <1>1, StatusTypeStep DEF StoreStep
  <2>2. Len(heap') = Len(heap) \/ Len(heap') = Len(heap) + 1
    <3>1. CASE New \/ Touch \/ CountUp
      BY <3>1 DEF New, Touch, CountUp
    <3>2. CASE Remove \/ ArchiveEvent \/ Flush \/ UNCHANGED statusVars
      BY <3>2 DEF Remove, RemoveEvent, ArchiveEvent, Flush, statusVars
    <3>3. CASE Delete
      BY <3>3 DEF Delete, DeleteEvent, StatusTypeOK
    <3> QED
      BY <1>1, <3>1, <3>2, <3>3 DEF StoreStep, StatusNext
  <2> QED
    BY <2>1, <2>2 DEF StatusTypeOK, Ref
<1>2. CASE ArchiveStore
  <2>1. nextId' \in Nat
    BY <1>2 DEF ArchiveStore, ThreadTypeOK, Message
  <2> QED
    BY <1>2, <2>1 DEF ArchiveStore, StatusTypeOK, Ref, counters
<1> QED
  BY <1>1, <1>2

-----------------------------------------------------------------------------
(* The types and references of the threads.                                *)

\* The part of the invariant that the EventServer is responsible for.
EsOK ==
  /\ lock \in {"free", "es", "hk"}
  /\ es \in EsLocked <=> lock = "es"
  /\ es \in EsPc
  /\ cur \in Message
  /\ msgs \in Nat
  /\ es \in Holding => cur.found \in Ref
  /\ es = "archive" => ArchiveOrphans

\* The part that the housekeeping is responsible for.
HkOK ==
  /\ hk \in HkLocked <=> lock = "hk"
  /\ hk \in HkPc
  /\ todo \subseteq Nat \cup Rule
  /\ purge \subseteq Nat
  /\ pos \in Nat
  /\ absent \in Nat
  /\ hk = "timeouts" => todo \subseteq Ref
  /\ hk \in {"drop", "expect"} => todo \subseteq active

LEMMA InvParts == DaemonInv <=> StatusTypeOK /\ rules \in RuleSets /\ EsOK /\ HkOK
  BY DEF DaemonInv, ThreadTypeOK, RefOK, EsOK, HkOK

LEMMA NoMessageOK == NoMessage \in Message
  BY DEF NoMessage, NoConf, Message, RuleConf, Rules, Hosts, LimitType

\* A step that changes the program counter and the local variables only.
LEMMA EsMoves ==
  ASSUME EsOK, StatusTypeOK, Ref \subseteq Ref', es' \in EsPc, cur' \in Message, msgs' \in Nat,
         lock' \in {"free", "es", "hk"},
         es' \in EsLocked <=> lock' = "es",
         es' \in Holding => cur'.found \in Ref',
         es' = "archive" => ArchiveOrphans
  PROVE  EsOK'
  BY DEF EsOK

LEMMA EsTypeStep ==
  ASSUME DaemonInv, EsArrival \/ EsStep
  PROVE  EsOK' /\ (lock' = "hk" <=> lock = "hk")
<1> USE DEF DaemonInv
<1>0. /\ EsOK /\ StatusTypeOK /\ StatusTypeOK' /\ Ref \subseteq Ref' /\ Len(heap) \in Nat
      /\ \A r \in active : r \in Rules /\ rules[r] \in RuleConf
  <2>1. EsArrival => UNCHANGED statusVars
    BY DEF EsArrival, Receive, ReceiveOrphan
  <2>2. StoreStep \/ ArchiveStore
    BY <2>1, EsStoreStep DEF StoreStep, HostStep, StatusNext
  <2>3. \A r \in active : r \in Rules
    BY ConfIsTyped DEF Rules
  <2> QED
    BY <2>2, <2>3, HeapGrows, InvParts, ConfIsTyped
<1>1. CASE Receive
  <2> PICK r \in active, h \in Host, d \in BOOLEAN :
         cur' = [NoMessage EXCEPT !.rule = r, !.conf = rules[r], !.host = h, !.down = d]
    BY <1>1 DEF Receive
  <2>1. cur' \in Message
    BY <1>0, NoMessageOK DEF Message, Hosts
  <2> QED
    BY <1>0, <1>1, <2>1 DEF Receive, EsOK, EsPc, EsLocked, Holding
<1>2. CASE ReceiveOrphan
  <2>1. [NoMessage EXCEPT !.n = nextId] \in Message
    BY NoMessageOK DEF Message, StatusTypeOK
  <2> QED
    BY <1>0, <1>2, <2>1 DEF ReceiveOrphan, EsOK, EsPc, EsLocked, Holding
<1>3. CASE ArchiveStore
  BY <1>0, <1>3, NoMessageOK DEF ArchiveStore, Done, EsOK, EsPc, EsLocked, Holding
<1>4. CASE CountRuleMatch \/ ScanEnd
  BY <1>0, <1>4, NoMessageOK DEF CountRuleMatch, ScanEnd, Goto, Done, EsOK, EsPc, EsLocked, Holding
<1>5. CASE ScanFound
  <2> PICK e \in events : With("countup", [cur EXCEPT !.found = e, !.n = heap[e].count + 1])
    BY <1>5 DEF ScanFound
  <2>0. e \in Ref /\ e \in Nat
    BY DEF StatusTypeOK, Ref
  <2>1. heap[e].count + 1 \in Nat
    BY <2>0, HeapIsTyped DEF Event
  <2>2. cur' = [cur EXCEPT !.found = e, !.n = heap[e].count + 1] /\ es' = "countup" /\ msgs' = msgs
    BY DEF With
  <2>3. cur' \in Message /\ cur'.found = e
    BY <1>0, <2>0, <2>1, <2>2 DEF Message, EsOK
  <2> QED
    BY <1>0, <1>5, <2>0, <2>2, <2>3 DEF ScanFound, EsOK, EsPc, EsLocked, Holding
<1>6. CASE ScanSkip
  <2>1. [cur EXCEPT !.nr = @ + 1] \in Message
    BY <1>0 DEF EsOK, Message
  <2> QED
    BY <1>0, <1>6, <2>1 DEF ScanSkip, With, EsOK, EsPc, EsLocked, Holding
<1>7. CASE CountEventUpStep \/ TestCount \/ ReachCount \/ OpenCounted
  BY <1>0, <1>7, NoMessageOK DEF CountEventUpStep, TestCount, ReachCount, OpenCounted,
                               Goto, Done, EsOK, EsPc, EsLocked, Holding
<1>8. CASE LogCountReached \/ OpenCreated \/ CloseEvent \/ RemoveClosed
  BY <1>0, <1>8, NoMessageOK DEF LogCountReached, OpenCreated, CloseEvent, RemoveClosed,
                               Goto, Done, EsOK, EsPc, EsLocked, Holding
<1>9. CASE CancelTake \/ CancelSweep \/ SweepEnd \/ LimitTake
  BY <1>0, <1>9, NoMessageOK DEF CancelTake, CancelSweep, SweepEnd, LimitTake,
                               Goto, Leave, Done, EsOK, EsPc, EsLocked, Holding
<1>10. CASE CancelMark
  <2> PICK e \in events : With("cancelling", [cur EXCEPT !.gone = @ \cup {e}])
    BY <1>10 DEF CancelMark
  <2>1. [cur EXCEPT !.gone = @ \cup {e}] \in Message
    <3>1. e \in Nat /\ cur.gone \cup {e} \subseteq Nat
      BY <1>0 DEF EsOK, Message, StatusTypeOK, Ref
    <3> QED
      BY <1>0, <3>1 DEF EsOK, Message
  <2> QED
    BY <1>0, <1>10, <2>1 DEF CancelMark, With, EsOK, EsPc, EsLocked, Holding
<1>11. CASE SweepCancelled
  <2> PICK e \in Last(cur.gone) :
        Leave \/ (With("sweep", [cur EXCEPT !.gone = @ \ {e}]) /\ UNCHANGED lock)
    BY <1>11 DEF SweepCancelled
  <2>1. [cur EXCEPT !.gone = @ \ {e}] \in Message
    BY <1>0 DEF EsOK, Message
  <2> QED
    BY <1>0, <1>11, <2>1, NoMessageOK
    DEF SweepCancelled, With, Leave, Done, EsOK, EsPc, EsLocked, Holding
<1>12. CASE ShrinkOldest
  <2>1. [cur EXCEPT !.n = @ - 1] \in Message
    BY <1>0, <1>12 DEF ShrinkOldest, EsOK, Message
  <2>2. Leave \/ (With("shrink", [cur EXCEPT !.n = @ - 1]) /\ UNCHANGED lock)
    BY <1>12 DEF ShrinkOldest
  <2> QED
    BY <1>0, <1>12, <2>1, <2>2, NoMessageOK
    DEF ShrinkOldest, With, Leave, Done, EsOK, EsPc, EsLocked, Holding
<1>13. CASE ShrinkEnd
  <2>1. After(cur.ty) \in {"by_host", "by_rule", "create"}
    BY <1>0 DEF After, EsOK, Message, LimitType
  <2> QED
    BY <1>0, <1>13, <2>1 DEF ShrinkEnd, Goto, EsOK, EsPc, EsLocked, Holding
<1>14. CASE Create
  <2>1. /\ Len(heap) + 1 \in Ref'
        /\ [cur EXCEPT !.found = Len(heap) + 1] \in Message
        /\ [cur EXCEPT !.found = Len(heap) + 1].found = Len(heap) + 1
    <3>1. Len(heap') = Len(heap) + 1
      BY <1>14, AppendOK DEF Create, NewEvent, StatusTypeOK
    <3> QED
      BY <1>0, <3>1 DEF EsOK, Message, Ref
  <2> QED
    BY <1>0, <1>14, <2>1, NoMessageOK DEF Create, With, Done, EsOK, EsPc, EsLocked, Holding
<1>15. ASSUME NEW ty \in LimitType, LimitFails(ty) \/ LimitRefuses(ty)
       PROVE  EsOK' /\ (lock' = "hk" <=> lock = "hk")
  BY <1>0, <1>15, NoMessageOK
  DEF LimitFails, LimitRefuses, LimitType, Leave, Done, EsOK, EsPc, EsLocked, Holding
<1>16. ASSUME NEW ty \in LimitType, LimitNotReached(ty) \/ LimitReached(ty)
       PROVE  EsOK' /\ (lock' = "hk" <=> lock = "hk")
  <2>1. es' \in {"by_host", "by_rule", "create"} /\ UNCHANGED <<cur, msgs, lock>> /\ es = ty
    BY <1>16 DEF LimitNotReached, LimitReached, Goto, After, LimitType
  <2> QED
    BY <1>0, <2>1 DEF LimitType, EsOK, EsPc, EsLocked, Holding
<1>17. ASSUME NEW ty \in LimitType, LimitDeletesOldest(ty)
       PROVE  EsOK' /\ (lock' = "hk" <=> lock = "hk")
  <2>1. AlreadyOpen(ty) - Limit[ty].limit \in Nat
    <3>1. AlreadyOpen(ty) \in Int
      <4>1. Existing(ty) \in Int
        BY <1>0 DEF Existing, LimitType, EsOK, Message, StatusTypeOK
      <4> QED
        BY <4>1 DEF AlreadyOpen
    <3>2. Limit[ty].limit \in Nat
      BY ConfAssumption DEF LimitConf
    <3> QED
      BY <1>17, <3>1, <3>2 DEF LimitDeletesOldest
  <2>2. [cur EXCEPT !.ty = ty, !.n = AlreadyOpen(ty) - Limit[ty].limit] \in Message
    BY <1>0, <2>1 DEF EsOK, Message
  <2> QED
    BY <1>0, <1>17, <2>2 DEF LimitDeletesOldest, With, LimitType, EsOK, EsPc, EsLocked, Holding
<1> QED
  BY <1>1, <1>2, <1>3, <1>4, <1>5, <1>6, <1>7, <1>8, <1>9, <1>10, <1>11, <1>12, <1>13, <1>14,
     <1>15, <1>16, <1>17 DEF EsArrival, EsStep, LimitStep

\* While the EventServer moves, the housekeeping keeps its place.
LEMMA HkStays ==
  ASSUME HkOK, Ref \subseteq Ref', UNCHANGED hkElse \/ UNCHANGED <<rules, hkVars>>,
         UNCHANGED hkVars, UNCHANGED rules, lock' = "hk" <=> lock = "hk"
  PROVE  HkOK'
  BY DEF HkOK, hkVars, active

LEMMA EsStays ==
  ASSUME EsOK, Ref \subseteq Ref', UNCHANGED esVars, lock' \in {"free", "es", "hk"},
         lock' = "es" <=> lock = "es"
  PROVE  EsOK'
  BY DEF EsOK, esVars

LEMMA HkTypeStep ==
  ASSUME DaemonInv, HkStart \/ HkStep
  PROVE  DaemonInv'
<1>0. /\ EsOK /\ HkOK /\ StatusTypeOK /\ StatusTypeOK' /\ Ref \subseteq Ref' /\ Len(heap) \in Nat
      /\ rules \in RuleSets /\ active \subseteq Rule
  <2>1. HkStart => UNCHANGED statusVars
    BY DEF HkStart
  <2>2. StoreStep
    BY <2>1, HkStoreStep DEF StoreStep, HostStep, StatusNext
  <2> QED
    BY <2>2, HeapGrows, InvParts, ConfIsTyped DEF DaemonInv
<1>5. events \subseteq Ref /\ Ref \subseteq Nat
  <2>1. StatusTypeOK
    BY DEF DaemonInv
  <2> QED
    BY <2>1 DEF StatusTypeOK, Ref
<1>1. UNCHANGED <<rules, esVars>>
  BY DEF HkStart, HkStep, HkTimeout, HkTimeoutsEnd, HkDrop, HkDropEnd, HkExpectNotDue, HkExpect,
         HkExpectEnd, HkDowntime, HkEnd, hkElse
<1>2. HkOK' /\ lock' \in {"free", "hk"} /\ lock # "es"
  <2>0. active' = active /\ HkLocked = {"timeouts", "drop", "expect", "downtime"}
    BY <1>1 DEF active, HkLocked, HkPc
  <2>7. HkStep => lock = "hk"
    BY <1>0, <2>0 DEF HkOK, HkStep, HkTimeout, HkTimeoutsEnd, HkDrop, HkDropEnd, HkExpectNotDue,
                HkExpect, HkExpectEnd, HkDowntime, HkEnd
  <2>8. ASSUME HkLeave
        PROVE  HkOK' /\ lock' = "free"
    BY <1>0, <2>0, <2>8 DEF HkLeave, HkOK, HkPc
  <2>1. CASE HkStart
    <3>1. events \subseteq Ref' /\ events \subseteq Nat
      BY <1>0, <1>5
    <3>2. lock = "free" /\ lock' = "hk" /\ hk' = "timeouts" /\ todo' = events
             /\ UNCHANGED <<purge, pos, absent>>
      BY <2>1 DEF HkStart
    <3> QED
      BY <1>0, <2>0, <3>1, <3>2 DEF HkOK, HkPc
  <2>2. CASE HkTimeout
    <3>1. UNCHANGED <<lock, hk, pos, absent>> /\ hk = "timeouts" /\ todo' \subseteq todo
      BY <2>2 DEF HkTimeout
    <3>2. PICK e \in First(todo) : TimeoutCounting(e) \/ TimeoutDelayed(e) \/ TimeoutLivetime(e) \/ NotDue
      BY <2>2 DEF HkTimeout
    <3>3. purge' = purge \/ purge' = purge \cup {e}
      BY <3>2 DEF TimeoutCounting, TimeoutDelayed, TimeoutLivetime, NotDue, Close, LoseTokens
    <3>4. e \in Nat
      BY <1>0, <3>1 DEF First, HkOK, Ref
    <3> QED
      BY <1>0, <3>1, <3>3, <3>4 DEF HkOK, HkPc, HkLocked
  <2>3. CASE HkTimeoutsEnd
    <3>1. {r \in active : rules[r].kind = "expect"} \subseteq active
      OBVIOUS
    <3>2. UNCHANGED <<lock, purge, pos, absent>> /\ hk' = "drop" /\ todo' \subseteq active
      BY <2>3, <3>1 DEF HkTimeoutsEnd
    <3> QED
      BY <1>0, <2>0, <2>3, <2>7, <3>2 DEF HkOK, HkPc, HkStep
  <2>4. CASE HkDrop
    <3>1. PICK e \in Last(purge) :
            HkLeave \/ (purge' = purge \ {e} /\ UNCHANGED <<lock, hk, todo, pos, absent>>)
      BY <2>4 DEF HkDrop
    <3>2. CASE purge' = purge \ {e} /\ UNCHANGED <<lock, hk, todo, pos, absent>>
      BY <1>0, <2>0, <2>4, <2>7, <3>2 DEF HkDrop, HkOK, HkPc, HkStep
    <3> QED
      BY <2>4, <2>7, <2>8, <3>1, <3>2 DEF HkStep
  <2>5. CASE HkExpect
    <3>2. /\ UNCHANGED <<lock, pos>> /\ hk = "expect" /\ hk' = "drop" /\ absent' = absent + 1
          /\ todo' \subseteq todo
      BY <2>5 DEF HkExpect
    <3>3. PICK r \in todo : \/ \E e \in Counted(r) : purge' = {e}
                            \/ purge' = Counted(r)
                            \/ purge' = Counted(r) \cup IF rules[r].autodelete THEN {Len(heap) + 1} ELSE {}
      BY <2>5 DEF HkExpect
    <3>4. Counted(r) \subseteq Nat
      <4>1. Counted(r) \subseteq events
        BY DEF Counted, First, Counting, OfRule
      <4> QED
        BY <1>5, <4>1
    <3>5. purge' \subseteq Nat
      BY <1>0, <3>3, <3>4
    <3> QED
      BY <1>0, <2>0, <2>5, <2>7, <3>2, <3>5 DEF HkOK, HkPc, HkStep
  <2>6. CASE HkDowntime
    <3>1. hk = "downtime" /\ (HkNext \/ HkLeave)
      BY <2>6 DEF HkDowntime
    <3>2. CASE HkNext
      <4>1. pos + 1 \in Nat
        BY <1>0 DEF HkOK
      <4>2. UNCHANGED <<lock, hk, todo, purge, absent>> /\ pos' = pos + 1
        BY <3>2 DEF HkNext
      <4> QED
        BY <1>0, <2>0, <2>6, <2>7, <3>1, <4>1, <4>2 DEF HkOK, HkPc, HkStep
    <3> QED
      BY <2>6, <2>7, <2>8, <3>1, <3>2 DEF HkStep
  <2>9. CASE HkDropEnd \/ HkExpectNotDue \/ HkExpectEnd
    <3>1. /\ UNCHANGED <<lock, purge, pos, absent>> /\ hk' \in {"expect", "downtime"}
          /\ todo' \subseteq todo /\ hk \in {"drop", "expect"}
      BY <2>9 DEF HkDropEnd, HkExpectNotDue, HkExpectEnd
    <3> QED
      BY <1>0, <2>0, <2>7, <2>9, <3>1 DEF HkOK, HkPc, HkStep
  <2>10. CASE HkEnd
    BY <2>7, <2>8, <2>10 DEF HkEnd, HkStep
  <2> QED
    BY <2>1, <2>2, <2>3, <2>4, <2>5, <2>6, <2>9, <2>10 DEF HkStep
<1>3. EsOK'
  BY <1>0, <1>1, <1>2, EsStays
<1>4. rules' \in RuleSets
  BY <1>0, <1>1
<1> QED
  BY <1>0, <1>2, <1>3, <1>4 DEF DaemonInv, ThreadTypeOK, RefOK, EsOK, HkOK

LEMMA DaemonInvStep ==
  ASSUME DaemonInv, [Next]_vars
  PROVE  DaemonInv'
<1>0. EsOK /\ HkOK /\ StatusTypeOK /\ StatusTypeOK' /\ Ref \subseteq Ref' /\ rules \in RuleSets
  BY DaemonStoreStep, HeapGrows, InvParts DEF DaemonInv
<1>1. CASE EsArrival \/ EsStep
  <2>1. UNCHANGED <<rules, hkVars>>
    BY <1>1 DEF EsArrival, Receive, ReceiveOrphan, EsStep, ArchiveStore, CountRuleMatch, ScanFound,
       ScanSkip, ScanEnd, CountEventUpStep, TestCount, ReachCount, OpenCounted, LogCountReached,
       CloseEvent, RemoveClosed, LimitStep, LimitTake, LimitFails, LimitNotReached,
       LimitDeletesOldest, LimitRefuses, LimitReached, ShrinkOldest, ShrinkEnd, Create, OpenCreated,
       CancelTake, CancelMark, CancelSweep, SweepCancelled, SweepEnd, esElse
  <2>2. EsOK' /\ (lock' = "hk" <=> lock = "hk")
    BY <1>1, EsTypeStep
  <2>3. HkOK'
    BY <1>0, <2>1, <2>2, HkStays
  <2>4. rules' \in RuleSets
    BY <1>0, <2>1
  <2> QED
    BY <1>0, <2>2, <2>3, <2>4 DEF DaemonInv, ThreadTypeOK, RefOK, EsOK, HkOK
<1>2. CASE HkStart \/ HkStep
  BY <1>2, HkTypeStep
<1>3. CASE CommandStep
  <2>1. UNCHANGED <<lock, hkVars, esVars>> /\ rules' \in RuleSets
    BY <1>0, <1>3 DEF CommandStep, CommandDelete, CommandUpdate, CommandChangestate, CommandFlush,
                      CommandReload, Sighup, cmdElse
  <2>2. rules' = rules \/ hk \notin {"drop", "expect"}
    BY <1>0, <1>3 DEF CommandStep, CommandDelete, CommandUpdate, CommandChangestate, CommandFlush,
                      CommandReload, Sighup, Command, HkOK, HkLocked, HkPc
  <2>3. EsOK'
    BY <1>0, <2>1, EsStays DEF EsOK
  <2>4. HkOK'
    BY <1>0, <2>1, <2>2 DEF HkOK, hkVars, active
  <2> QED
    BY <1>0, <2>1, <2>3, <2>4 DEF DaemonInv, ThreadTypeOK, RefOK, EsOK, HkOK
<1>4. CASE UNCHANGED vars
  BY <1>4 DEF vars, statusVars, threadVars, esVars, hkVars, DaemonInv, StatusTypeOK, ThreadTypeOK,
              RefOK, Ref, active
<1> QED
  BY <1>1, <1>2, <1>3, <1>4 DEF Next

LEMMA DaemonInvInit ==
  ASSUME Init
  PROVE  DaemonInv
<1>1. StatusTypeOK
  BY DEF Init, StatusInit, StatusTypeOK, Ref, Hosts, Rules, Event
<1>2. ThreadTypeOK /\ RefOK
  BY NoMessageOK DEF Init, ThreadTypeOK, RefOK, EsLocked, HkLocked, EsPc, HkPc, Holding
<1> QED
  BY <1>1, <1>2 DEF DaemonInv

\* The inductive invariant of the threads holds in every state.
THEOREM DaemonInvariant == Spec => []DaemonInv
  BY DaemonInvInit, DaemonInvStep, PTL DEF Spec

\* In every state of the daemon its variables have their types, and each of
\* the threads holds event_status.lock exactly at the places of its program
\* that are inside a "with" block: no two threads are inside at a time.
THEOREM DaemonTypeCorrect == Spec => []TypeOK
<1>1. DaemonInv => TypeOK
  BY DEF DaemonInv, TypeOK
<1> QED
  BY <1>1, DaemonInvariant, PTL

\* Unless messages that no rule matches are archived, which consumes an event
\* id without the lock, the three threads together implement EventStatus: they
\* change the store by complete operations of that class only.
THEOREM DaemonImplementsStatus == ~ArchiveOrphans => (Spec => StatusSpec)
<1> SUFFICES ASSUME ~ArchiveOrphans
             PROVE  Spec => StatusSpec
  OBVIOUS
<1>1. Init => StatusInit
  BY DEF Init
<1>2. ASSUME DaemonInv, [Next]_vars
      PROVE  [StatusNext]_statusVars
  <2>1. ~ArchiveStore
    BY <1>2 DEF DaemonInv, RefOK, ArchiveStore
  <2> QED
    BY <1>2, <2>1, DaemonStoreStep DEF StoreStep
<1> QED
  BY <1>1, <1>2, DaemonInvariant, PTL DEF Spec, StatusSpec

\* So no two events of the daemon have the same id, for all rules and limits.
THEOREM DaemonIdsAreUnique == ~ArchiveOrphans => (Spec => []UniqueIds)
  BY DaemonImplementsStatus, IdsAreUnique, PTL

-----------------------------------------------------------------------------
(* The event limit.                                                        *)

L == Limit["overall"].limit

\* The overflow event of the overall limit
Slack == IF Limit["overall"].action = "delete_oldest" THEN 0 ELSE 1

\* How far the overall limit can be exceeded while an event passes the three
\* limits: one more after each of them that creates an overflow event.
LimitInv ==
  /\ num <= L + Slack + 3 + absent
  /\ es = "by_host" => num <= L + Slack
  /\ es = "by_rule" => num <= L + Slack + 1
  /\ es = "create" => num <= L + Slack + 2
  /\ es = "shrink" =>
       /\ cur.ty = "overall" => num - cur.n <= L
       /\ cur.ty = "by_host" => num <= L + Slack
       /\ cur.ty = "by_rule" => num <= L + Slack + 1

LEMMA LimitTyped == L \in Nat /\ Slack \in 0..1
  BY ConfAssumption DEF L, Slack, LimitConf, LimitType

\* The counter of the events and the list, in the daemon.
LEMMA NumExactStep ==
  ASSUME DaemonInv, NumExact, [Next]_vars
  PROVE  NumExact'
<1>1. StatusTypeOK
  BY DEF DaemonInv
<1>2. CASE StoreStep
  BY <1>1, <1>2, NumStep DEF StoreStep
<1>3. CASE ArchiveStore
  BY <1>3 DEF ArchiveStore, counters, NumExact
<1> QED
  BY <1>2, <1>3, DaemonStoreStep

LEMMA RemoveLowers ==
  ASSUME num \in Int, NEW e, RemoveEvent(e)
  PROVE  num' <= num /\ (e \in events => num' = num - 1)
  BY DEF RemoveEvent, CountEventRemove, counters

\* Only the alarms of expecting rules make the list longer if it is not the
\* EventServer that does; and while it has the lock, nobody else does.
LEMMA OthersLower ==
  ASSUME DaemonInv, HkStart \/ HkStep \/ CommandStep
  PROVE  /\ es \in EsLocked => num' = num /\ absent' = absent
         /\ \/ num' = num + 1 /\ absent' = absent + 1
            \/ (num' <= num \/ num' = 0) /\ absent' = absent
            \/ num' = num /\ absent' = absent + 1
<1> USE DEF DaemonInv
<1>0. num \in Int /\ (es \in EsLocked <=> lock = "es") /\ (hk \in HkLocked <=> lock = "hk")
  BY DEF StatusTypeOK, ThreadTypeOK
<1>1. CASE CommandReload \/ Sighup \/ HkStart
  BY <1>0, <1>1 DEF CommandReload, Sighup, HkStart, cmdElse, hkVars, statusVars
<1>2. CASE CommandDelete
  <2>1. PICK e \in Named : DeleteEvent(e)
    BY <1>2 DEF CommandDelete
  <2>2. num' = num - 1
    BY <2>1 DEF DeleteEvent, CountEventRemove
  <2> QED
    BY <1>0, <1>2, <2>2 DEF CommandDelete, Command, cmdElse, hkVars
<1>3. CASE CommandUpdate \/ CommandChangestate \/ CommandFlush
  <2>1. num' = num \/ num' = 0
    BY <1>3 DEF CommandUpdate, CommandChangestate, CommandFlush, Change, Flush, counters
  <2>2. lock = "free" /\ absent' = absent
    BY <1>3 DEF CommandUpdate, CommandChangestate, CommandFlush, Command, cmdElse, hkVars
  <2> QED
    BY <1>0, <2>1, <2>2
<1>4. CASE HkStep
  <2>1. lock = "hk"
    BY <1>0, <1>4 DEF HkLocked, HkPc, HkStep, HkTimeout, HkTimeoutsEnd, HkDrop, HkDropEnd,
                HkExpectNotDue, HkExpect, HkExpectEnd, HkDowntime, HkEnd
  <2>2. CASE HkTimeout
    <3>1. PICK e \in First(todo) : TimeoutCounting(e) \/ TimeoutDelayed(e) \/ TimeoutLivetime(e) \/ NotDue
      BY <2>2 DEF HkTimeout
    <3>2. num' = num
      BY <3>1 DEF TimeoutCounting, TimeoutDelayed, TimeoutLivetime, NotDue, Close, LoseTokens,
                  Change, counters, statusVars
    <3> QED
      BY <1>0, <2>1, <2>2, <3>2 DEF HkTimeout
  <2>3. CASE HkDrop \/ HkDowntime
    <3>1. absent' = absent
      BY <2>3 DEF HkDrop, HkDowntime, HkNext, HkLeave
    <3>2. num' = num \/ \E e \in Last(purge) \cup events : RemoveEvent(e)
      BY <2>3 DEF HkDrop, HkDowntime, statusVars
    <3> QED
      BY <1>0, <2>1, <3>1, <3>2, RemoveLowers
  <2>4. CASE HkExpect
    <3>1. (\E e, new : Change(e, new)) \/ (\E new : NewEvent(new))
      BY <2>4 DEF HkExpect
    <3>2. num' = num \/ num' = num + 1
      BY <3>1 DEF Change, NewEvent, counters
    <3> QED
      BY <1>0, <2>1, <2>4, <3>2 DEF HkExpect
  <2>5. CASE HkTimeoutsEnd \/ HkDropEnd \/ HkExpectNotDue \/ HkExpectEnd \/ HkEnd
    BY <1>0, <2>1, <2>5
    DEF HkTimeoutsEnd, HkDropEnd, HkExpectNotDue, HkExpectEnd, HkEnd, HkLeave, statusVars
  <2> QED
    BY <1>4, <2>2, <2>3, <2>4, <2>5 DEF HkStep
<1> QED
  BY <1>1, <1>2, <1>3, <1>4 DEF CommandStep

LEMMA OthersKeepLimit ==
  ASSUME DaemonInv, LimitInv, HkStart \/ HkStep \/ CommandStep
  PROVE  LimitInv'
<1>1. UNCHANGED <<es, cur>>
  BY DEF HkStart, HkStep, HkTimeout, HkTimeoutsEnd, HkDrop, HkDropEnd, HkExpectNotDue, HkExpect,
         HkExpectEnd, HkDowntime, HkEnd, CommandStep, CommandDelete, CommandUpdate,
         CommandChangestate, CommandFlush, CommandReload, Sighup, hkElse, cmdElse, esVars
<1>2. num \in Int /\ absent \in Nat /\ L \in Nat /\ Slack \in 0..1
  BY LimitTyped DEF DaemonInv, StatusTypeOK, ThreadTypeOK
<1>3. UNCHANGED <<L, Slack>>
  BY DEF L, Slack
<1>4. num' <= L + Slack + 3 + absent'
  <2>1. num <= L + Slack + 3 + absent
    BY DEF LimitInv
  <2>2. num' \in Int /\ absent' \in Nat
    BY DaemonInvStep DEF Next, DaemonInv, StatusTypeOK, ThreadTypeOK
  <2>3. CASE num' = num + 1 /\ absent' = absent + 1
    BY <1>2, <2>1, <2>3
  <2>4. CASE (num' <= num \/ num' = 0) /\ absent' = absent
    BY <1>2, <2>1, <2>2, <2>4
  <2>5. CASE num' = num /\ absent' = absent + 1
    BY <1>2, <2>1, <2>5
  <2> QED
    BY <2>3, <2>4, <2>5, OthersLower
<1>5. es \in EsLocked => num' = num
  BY OthersLower
<1> QED
  BY <1>1, <1>3, <1>4, <1>5 DEF LimitInv, EsLocked

\* A step of the EventServer that does not create an event.
LEMMA EsLowers ==
  ASSUME DaemonInv, EsArrival \/ EsStep, ~Create, \A ty \in LimitType : ~LimitReached(ty)
  PROVE  num' <= num
<1>0. num \in Int
  BY DEF DaemonInv, StatusTypeOK
<1>1. CASE \E e : RemoveEvent(e)
  BY <1>0, <1>1, RemoveLowers
<1>2. CASE num' = num
  BY <1>0, <1>2
<1>3. CASE EsArrival \/ CountRuleMatch \/ ScanFound \/ ScanSkip \/ ScanEnd \/ CancelTake
           \/ CancelSweep \/ SweepEnd \/ LimitTake \/ ShrinkEnd \/ ArchiveStore \/ TestCount
  BY <1>2, <1>3 DEF EsArrival, Receive, ReceiveOrphan, CountRuleMatch, ScanFound, ScanSkip, ScanEnd,
     CancelTake, CancelSweep, SweepEnd, LimitTake, ShrinkEnd, ArchiveStore, TestCount, statusVars, counters
<1>4. ASSUME NEW ty \in LimitType,
             LimitFails(ty) \/ LimitNotReached(ty) \/ LimitDeletesOldest(ty) \/ LimitRefuses(ty)
      PROVE  num' <= num
  BY <1>2, <1>4 DEF LimitFails, LimitNotReached, LimitDeletesOldest, LimitRefuses, statusVars
<1>5. CASE CountEventUpStep \/ ReachCount \/ OpenCounted \/ LogCountReached \/ CloseEvent
           \/ CancelMark
  BY <1>2, <1>5 DEF CountEventUpStep, CountEventUp, ReachCount, OpenCounted, LogCountReached,
     CloseEvent, CancelMark, Change, counters
<1>6. CASE OpenCreated
  BY <1>2, <1>6 DEF OpenCreated, Change, counters, statusVars
<1>7. CASE RemoveClosed \/ SweepCancelled
  BY <1>1, <1>7 DEF RemoveClosed, SweepCancelled
<1>8. CASE ShrinkOldest
  BY <1>1, <1>2, <1>8 DEF ShrinkOldest, statusVars
<1> QED
  BY <1>3, <1>4, <1>5, <1>6, <1>7, <1>8 DEF EsStep, LimitStep

LEMMA EsKeepsLimit ==
  ASSUME DaemonInv, NumExact, LimitInv, EsArrival \/ EsStep
  PROVE  LimitInv'
<1>0. /\ num \in Int /\ absent \in Nat /\ L \in Nat /\ Slack \in 0..1 /\ cur \in Message
      /\ StatusTypeOK
  BY LimitTyped DEF DaemonInv, StatusTypeOK, ThreadTypeOK
<1>1. UNCHANGED <<L, Slack>>
  BY DEF L, Slack
<1>2. UNCHANGED absent
  BY DEF EsArrival, Receive, ReceiveOrphan, EsStep, ArchiveStore, CountRuleMatch, ScanFound,
     ScanSkip, ScanEnd, CountEventUpStep, TestCount, ReachCount, OpenCounted, LogCountReached,
     CloseEvent, RemoveClosed, LimitStep, LimitTake, LimitFails, LimitNotReached,
     LimitDeletesOldest, LimitRefuses, LimitReached, ShrinkOldest, ShrinkEnd, Create, OpenCreated,
     CancelTake, CancelMark, CancelSweep, SweepCancelled, SweepEnd, esElse, hkVars
<1>3. ASSUME ~Create, \A ty \in LimitType : ~LimitReached(ty)
      PROVE  num' \in Int /\ num' <= num /\ num' <= L + Slack + 3 + absent'
  <2>1. num' <= num
    BY <1>3, EsLowers
  <2>2. num' \in Int
    BY DaemonInvStep DEF Next, DaemonInv, StatusTypeOK
  <2> QED
    BY <1>0, <1>2, <2>1, <2>2 DEF LimitInv
<1>4. CASE Create
  <2>1. num' = num + 1 /\ es = "create" /\ es' \in {"test", "idle", "created"}
    BY <1>4 DEF Create, NewEvent, Goto, Done, With
  <2> QED
    BY <1>0, <1>1, <1>2, <2>1 DEF LimitInv
<1>5. ASSUME NEW ty \in LimitType, LimitReached(ty)
      PROVE  LimitInv'
  <2>1. es = ty /\ es' = After(ty) /\ cur' = cur /\ (num' = num \/ num' = num + 1)
    BY <1>5 DEF LimitReached, NewEvent, Goto, statusVars
  <2>2. CASE ty = "overall"
    <3>1. AlreadyOpen(ty) = L /\ Slack = 1 /\ Existing(ty) = num
      BY <1>5, <2>2 DEF LimitReached, L, Slack, Existing
    <3>2. num = L \/ num = L - 1
      BY <1>0, <2>2, <3>1 DEF AlreadyOpen, L
    <3>3. es' = "by_host"
      BY <2>1, <2>2 DEF After
    <3> QED
      BY <1>0, <1>1, <1>2, <2>1, <3>1, <3>2, <3>3 DEF LimitInv
  <2>3. CASE ty = "by_host"
    <3>1. es' = "by_rule" /\ es = "by_host"
      BY <2>1, <2>3 DEF After
    <3> QED
      BY <1>0, <1>1, <1>2, <2>1, <3>1 DEF LimitInv
  <2>4. CASE ty = "by_rule"
    <3>1. es' = "create" /\ es = "by_rule"
      BY <2>1, <2>4 DEF After
    <3> QED
      BY <1>0, <1>1, <1>2, <2>1, <3>1 DEF LimitInv
  <2> QED
    BY <2>2, <2>3, <2>4 DEF LimitType
<1> DEFINE Plainly == ~Create /\ \A ty \in LimitType : ~LimitReached(ty)
<1>6. ASSUME NEW ty \in LimitType, LimitNotReached(ty), Plainly
      PROVE  LimitInv'
  <2>1. es = ty /\ es' = After(ty) /\ cur' = cur /\ num' = num
    BY <1>6 DEF LimitNotReached, Goto, statusVars
  <2>2. ty = "overall" => num <= L
    BY <1>0, <1>6 DEF LimitNotReached, AlreadyOpen, Existing, L
  <2>3. es' = IF ty = "overall" THEN "by_host" ELSE IF ty = "by_host" THEN "by_rule" ELSE "create"
    BY <2>1 DEF After, LimitType
  <2> QED
    BY <1>0, <1>1, <1>2, <2>1, <2>2, <2>3 DEF LimitInv, LimitType
<1>7. ASSUME NEW ty \in LimitType, LimitDeletesOldest(ty), Plainly
      PROVE  LimitInv'
  <2>1. /\ es = ty /\ es' = "shrink" /\ num' = num
        /\ cur' = [cur EXCEPT !.ty = ty, !.n = AlreadyOpen(ty) - Limit[ty].limit]
    BY <1>7 DEF LimitDeletesOldest, With, statusVars
  <2>2. cur'.ty = ty /\ cur'.n = AlreadyOpen(ty) - Limit[ty].limit
    BY <1>0, <2>1 DEF Message
  <2>3. ty = "overall" => num - cur'.n <= L
    BY <1>0, <2>2 DEF AlreadyOpen, Existing, L
  <2> QED
    BY <1>0, <1>1, <1>2, <2>1, <2>2, <2>3 DEF LimitInv, LimitType
<1>8. CASE ShrinkOldest /\ Plainly
  <2>1. es = "shrink" /\ cur.n > 0 /\ cur.n \in Nat /\ cur.ty \in LimitType
    BY <1>0, <1>8 DEF ShrinkOldest, Message
  <2>2. CASE es' = "idle"
    BY <1>0, <1>1, <1>3, <1>8, <2>2 DEF LimitInv
  <2>3. CASE es' = "shrink" /\ cur' = [cur EXCEPT !.n = @ - 1]
    <3>1. cur'.n = cur.n - 1 /\ cur'.ty = cur.ty
      BY <1>0, <2>3 DEF Message
    <3>2. cur.ty = "overall" => num' - cur'.n <= L
      <4>1. CASE \E e \in events : RemoveEvent(e)
        BY <1>0, <2>1, <3>1, <4>1, RemoveLowers DEF LimitInv
      <4>2. CASE events = {} /\ num' = num
        <5>1. num = 0
          BY <4>2, FS_EmptySet DEF NumExact
        <5> QED
          BY <1>0, <2>1, <3>1, <4>2, <5>1
      <4> QED
        BY <1>8, <4>1, <4>2 DEF ShrinkOldest, Oldest, First, statusVars
    <3> QED
      BY <1>0, <1>1, <1>3, <1>8, <2>1, <2>3, <3>1, <3>2 DEF LimitInv
  <2> QED
    BY <1>8, <2>2, <2>3 DEF ShrinkOldest, With, Leave, Done
<1>9. CASE ShrinkEnd /\ Plainly
  <2>1. es = "shrink" /\ cur.n = 0 /\ cur' = cur /\ es' = After(cur.ty) /\ cur.ty \in LimitType
    BY <1>0, <1>9 DEF ShrinkEnd, Goto, Message
  <2>2. es' = IF cur.ty = "overall" THEN "by_host" ELSE IF cur.ty = "by_host" THEN "by_rule" ELSE "create"
    BY <2>1 DEF After, LimitType
  <2> QED
    BY <1>0, <1>1, <1>3, <1>9, <2>1, <2>2 DEF LimitInv, LimitType
<1>10. ASSUME es' \notin {"by_host", "by_rule", "create", "shrink"}, Plainly
       PROVE  LimitInv'
  BY <1>1, <1>3, <1>10 DEF LimitInv
<1> QED
  <2>1. ASSUME Plainly, ~ShrinkOldest, ~ShrinkEnd,
               \A ty \in LimitType : ~LimitNotReached(ty) /\ ~LimitDeletesOldest(ty)
        PROVE  es' \notin {"by_host", "by_rule", "create", "shrink"}
    BY <2>1 DEF EsArrival, Receive, ReceiveOrphan, EsStep, ArchiveStore, CountRuleMatch, ScanFound,
       ScanSkip, ScanEnd, CountEventUpStep, TestCount, ReachCount, OpenCounted, LogCountReached,
       CloseEvent, RemoveClosed, LimitStep, LimitTake, LimitFails, LimitRefuses, OpenCreated,
       CancelTake, CancelMark, CancelSweep, SweepCancelled, SweepEnd, Goto, With, Leave, Done
  <2> QED
    BY <1>4, <1>5, <1>6, <1>7, <1>8, <1>9, <1>10, <2>1

LEMMA LimitInvariant == Spec => [](LimitInv /\ NumExact)
<1>1. Init => LimitInv /\ NumExact
  BY LimitTyped, FS_EmptySet DEF Init, StatusInit, LimitInv, NumExact
<1>2. ASSUME DaemonInv, LimitInv, NumExact, [Next]_vars
      PROVE  LimitInv' /\ NumExact'
  <2>1. CASE UNCHANGED vars
    <3>1. UNCHANGED <<num, es, cur, absent, L, Slack>>
      BY <2>1 DEF vars, threadVars, statusVars, L, Slack
    <3>2. LimitInv'
      BY <1>2, <3>1 DEF LimitInv
    <3> QED
      BY <1>2, <3>2, NumExactStep
  <2> QED
    BY <1>2, <2>1, NumExactStep, OthersKeepLimit, EsKeepsLimit DEF Next
<1> QED
  BY <1>1, <1>2, DaemonInvariant, PTL DEF Spec

\* The event limit is never exceeded by more than four events, plus the alarms
\* of expecting rules, for all limits, rules, messages and commands.
THEOREM LimitIsBound == Spec => []LimitBound
<1>1. DaemonInv /\ LimitInv => LimitBound
  BY LimitTyped DEF DaemonInv, StatusTypeOK, ThreadTypeOK, LimitInv, LimitBound, L
<1> QED
  BY <1>1, LimitInvariant, DaemonInvariant, PTL

\* With delete_oldest, the overflow event of the overall limit is not created.
THEOREM OldestIsBound == Spec => []OldestBound
<1>1. DaemonInv /\ LimitInv => OldestBound
  BY LimitTyped DEF DaemonInv, StatusTypeOK, ThreadTypeOK, LimitInv, OldestBound, L, Slack
<1> QED
  BY <1>1, LimitInvariant, DaemonInvariant, PTL

\* num_existing_events is the length of the list in every state of the daemon,
\* even though no lock protects the counting of a message.
THEOREM DaemonNumIsExact == Spec => []NumExact
  BY LimitInvariant, PTL
-----------------------------------------------------------------------------
(* What is marked for removal.                                             *)

\* The two loops of the housekeeping and the one of the EventServer that
\* remove what they have marked: nobody else has the lock meanwhile, so what
\* is marked stays in the list, and nothing is marked anywhere else.
MarkInv ==
  /\ es \notin {"cancelling", "sweep"} => cur.gone = {}
  /\ cur.gone \subseteq events
  /\ hk \notin {"timeouts", "drop"} => purge = {}
  /\ purge \subseteq events
  /\ hk = "timeouts" => todo \subseteq events

\* A thread that has the lock, or may take it, meets no marks of the others.
LEMMA OneMarks ==
  ASSUME DaemonInv, MarkInv
  PROVE  /\ lock # "hk" => purge = {} /\ hk = "idle"
         /\ lock # "es" => cur.gone = {} /\ es \notin EsLocked
         /\ lock \in {"free", "es", "hk"}
         /\ hk \in HkLocked => lock = "hk"
         /\ es \in EsLocked => lock = "es"
  BY DEF DaemonInv, ThreadTypeOK, MarkInv, EsLocked, HkLocked, HkPc

LEMMA EsMarks ==
  ASSUME DaemonInv, MarkInv, EsArrival \/ EsStep
  PROVE  MarkInv'
<1>0. /\ UNCHANGED hkVars /\ cur \in Message /\ NoMessage \in Message
      /\ cur.gone \subseteq events /\ purge \subseteq events
      /\ NoMessage.gone = {}
  <2>1. UNCHANGED hkVars
    BY DEF EsArrival, Receive, ReceiveOrphan, EsStep, ArchiveStore, CountRuleMatch, ScanFound,
     ScanSkip, ScanEnd, CountEventUpStep, TestCount, ReachCount, OpenCounted, LogCountReached,
     CloseEvent, RemoveClosed, LimitStep, LimitTake, LimitFails, LimitNotReached,
     LimitDeletesOldest, LimitRefuses, LimitReached, ShrinkOldest, ShrinkEnd, Create, OpenCreated,
     CancelTake, CancelMark, CancelSweep, SweepCancelled, SweepEnd, esElse
  <2> QED
    BY <2>1, NoMessageOK DEF DaemonInv, ThreadTypeOK, MarkInv, NoMessage
<1>1. ASSUME events \subseteq events', cur.gone = {}, cur'.gone = {}
      PROVE  MarkInv'
  BY <1>0, <1>1 DEF MarkInv, hkVars
<1>2. ASSUME lock # "hk", cur'.gone \subseteq events',
             es' \notin {"cancelling", "sweep"} => cur'.gone = {}
      PROVE  MarkInv'
  <2>1. purge = {} /\ hk = "idle"
    BY <1>2, OneMarks
  <2> QED
    BY <1>0, <1>2, <2>1 DEF MarkInv, hkVars
<1>3. CASE EsArrival
  BY <1>0, <1>1, <1>3 DEF EsArrival, Receive, ReceiveOrphan, MarkInv, Message, statusVars
<1>4. CASE \/ ArchiveStore \/ CountRuleMatch \/ ScanFound \/ ScanSkip \/ ScanEnd
           \/ CountEventUpStep \/ TestCount \/ ReachCount \/ OpenCounted \/ LogCountReached
           \/ CloseEvent \/ OpenCreated
  <2>1. cur.gone = {}
    BY <1>4 DEF MarkInv, ArchiveStore, CountRuleMatch, ScanFound, ScanSkip, ScanEnd,
      CountEventUpStep, TestCount, ReachCount, OpenCounted, LogCountReached, CloseEvent, OpenCreated
  <2>2. events' = events
    BY <1>4 DEF ArchiveStore, CountRuleMatch, ScanFound, ScanSkip, ScanEnd, CountEventUpStep,
      CountEventUp, TestCount, ReachCount, OpenCounted, LogCountReached, CloseEvent, OpenCreated,
      Change, statusVars
  <2>3. cur' = cur \/ cur' = NoMessage \/ ScanFound \/ ScanSkip
    BY <1>4 DEF ArchiveStore, CountRuleMatch, ScanEnd, CountEventUpStep, TestCount, ReachCount,
      OpenCounted, LogCountReached, CloseEvent, OpenCreated, Goto, Done
  <2>4. ScanFound \/ ScanSkip => cur'.gone = {}
    BY <1>0, <2>1 DEF ScanFound, ScanSkip, With, Message
  <2> QED
    BY <1>0, <1>1, <2>1, <2>2, <2>3, <2>4
<1>5. CASE RemoveClosed
  BY <1>0, <1>2, <1>5 DEF RemoveClosed, Done
<1>6. CASE CancelTake
  <2>1. cur.gone = {} /\ cur' = cur /\ events' = events
    BY <1>6 DEF MarkInv, CancelTake, Goto, statusVars
  <2> QED
    BY <1>0, <1>1, <2>1
<1>7. CASE CancelMark
  <2>1. PICK e \in events : With("cancelling", [cur EXCEPT !.gone = @ \cup {e}])
    BY <1>7 DEF CancelMark
  <2>2. cur'.gone = cur.gone \cup {e} /\ es' = "cancelling"
    BY <1>0, <2>1 DEF With, Message
  <2>3. events' = events
    BY <1>7 DEF CancelMark, Change
  <2>4. lock # "hk"
    BY <1>7, OneMarks DEF CancelMark, EsLocked
  <2> QED
    BY <1>0, <1>2, <2>2, <2>3, <2>4
<1>8. CASE CancelSweep
  <2>1. cur' = cur /\ events' = events /\ es' = "sweep" /\ lock # "hk"
    BY <1>8, OneMarks DEF CancelSweep, Goto, EsLocked, statusVars
  <2> QED
    BY <1>0, <1>2, <2>1
<1>9. CASE SweepCancelled
  <2>1. PICK e \in Last(cur.gone) :
          /\ RemoveEvent(e)
          /\ Leave \/ With("sweep", [cur EXCEPT !.gone = @ \ {e}])
    BY <1>9 DEF SweepCancelled
  <2>2. events' = events \ {e} /\ lock # "hk"
    BY <1>9, <2>1, OneMarks DEF RemoveEvent, SweepCancelled, EsLocked
  <2>3. \/ cur'.gone = {}
        \/ cur'.gone = cur.gone \ {e} /\ es' = "sweep"
    BY <1>0, <2>1 DEF Leave, Done, With, Message
  <2> QED
    BY <1>0, <1>2, <2>2, <2>3
<1>10. CASE SweepEnd
  <2>1. cur'.gone = {} /\ lock # "hk"
    BY <1>0, <1>10, OneMarks DEF SweepEnd, Leave, Done, EsLocked
  <2> QED
    BY <1>2, <2>1
<1>11. CASE LimitStep
  <2>1. es \in {"limit", "overall", "by_host", "by_rule", "shrink", "create"} /\ lock # "hk"
    BY <1>11, OneMarks DEF LimitStep, LimitTake, LimitFails, LimitNotReached, LimitDeletesOldest,
      LimitRefuses, LimitReached, ShrinkOldest, ShrinkEnd, Create, LimitType, EsLocked
  <2>2. cur.gone = {}
    BY <2>1 DEF MarkInv
  <2>3. cur'.gone = {}
    <3>1. CASE \/ LimitTake \/ ShrinkEnd
               \/ \E ty \in LimitType : LimitFails(ty) \/ LimitNotReached(ty)
                                          \/ LimitRefuses(ty) \/ LimitReached(ty)
      <4>1. cur' = cur \/ cur' = NoMessage
        BY <3>1 DEF LimitTake, ShrinkEnd, LimitFails, LimitNotReached, LimitRefuses, LimitReached,
          Goto, Leave, Done
      <4> QED
        BY <1>0, <2>2, <4>1
    <3>2. CASE \E ty \in LimitType : LimitDeletesOldest(ty)
      BY <1>0, <2>2, <3>2 DEF LimitDeletesOldest, With, Message
    <3>3. CASE ShrinkOldest
      BY <1>0, <2>2, <3>3 DEF ShrinkOldest, Leave, Done, With, Message
    <3>4. CASE Create
      BY <1>0, <2>2, <3>4 DEF Create, Done, With, Message
    <3> QED
      BY <1>11, <3>1, <3>2, <3>3, <3>4 DEF LimitStep
  <2> QED
    BY <1>2, <2>1, <2>3
<1> QED
  BY <1>3, <1>4, <1>5, <1>6, <1>7, <1>8, <1>9, <1>10, <1>11 DEF EsStep

LEMMA HkMarks ==
  ASSUME DaemonInv, MarkInv, HkStart \/ HkStep
  PROVE  MarkInv'
<1>0. UNCHANGED esVars
  BY DEF HkStart, HkStep, HkTimeout, HkTimeoutsEnd, HkDrop, HkDropEnd, HkExpectNotDue, HkExpect,
         HkExpectEnd, HkDowntime, HkEnd, hkElse
<1>1. /\ lock # "es" /\ cur.gone = {} /\ events \subseteq Ref /\ Len(heap) + 1 \notin Ref
      /\ purge \subseteq events
  <2>1. lock # "es"
    BY OneMarks DEF HkStart, HkStep, HkTimeout, HkTimeoutsEnd, HkDrop, HkDropEnd, HkExpectNotDue,
                    HkExpect, HkExpectEnd, HkDowntime, HkEnd, HkLocked, HkPc
  <2> QED
    BY <2>1, OneMarks DEF DaemonInv, StatusTypeOK, Ref, MarkInv
<1>2. ASSUME purge' \subseteq events', hk' \notin {"timeouts", "drop"} => purge' = {},
             hk' = "timeouts" => todo' \subseteq events'
      PROVE  MarkInv'
  BY <1>0, <1>1, <1>2 DEF MarkInv, esVars
<1>3. ASSUME HkLeave
      PROVE  MarkInv'
  BY <1>2, <1>3 DEF HkLeave
<1>4. CASE HkStart
  BY <1>2, <1>4 DEF HkStart, MarkInv, statusVars
<1>5. CASE HkTimeout
  <2>1. PICK e \in First(todo) : \/ TimeoutCounting(e) \/ TimeoutDelayed(e) \/ TimeoutLivetime(e)
                                 \/ NotDue
    BY <1>5 DEF HkTimeout
  <2>2. events' = events /\ (purge' = purge \/ purge' = purge \cup {e})
    BY <2>1 DEF TimeoutCounting, TimeoutDelayed, TimeoutLivetime, NotDue, Close, LoseTokens,
                Change, statusVars
  <2>3. todo' \subseteq todo /\ hk = "timeouts" /\ hk' = hk /\ e \in todo /\ todo \subseteq events
    BY <1>5 DEF HkTimeout, First, MarkInv
  <2> QED
    BY <1>1, <1>2, <2>2, <2>3
<1>6. CASE HkDrop
  <2>1. PICK e \in Last(purge) :
          /\ RemoveEvent(e)
          /\ HkLeave \/ (purge' = purge \ {e} /\ UNCHANGED <<lock, hk, todo, pos, absent>>)
    BY <1>6 DEF HkDrop
  <2>2. events' = events \ {e} /\ hk = "drop"
    BY <1>6, <2>1 DEF RemoveEvent, HkDrop
  <2> QED
    BY <1>1, <1>2, <1>3, <2>1, <2>2
<1>7. CASE HkExpect
  <2>1. PICK r \in todo :
          \/ events' = events /\ \E e \in Counted(r) : purge' = {e}
          \/ events' = events /\ purge' = Counted(r)
          \/ /\ events' = events \cup {Len(heap) + 1}
             /\ purge' \subseteq Counted(r) \cup {Len(heap) + 1}
    BY <1>7 DEF HkExpect, Change, NewEvent
  <2>2. Counted(r) \subseteq events
    BY DEF Counted, First, Counting, OfRule
  <2>3. hk' = "drop"
    BY <1>7 DEF HkExpect
  <2> QED
    BY <1>2, <2>1, <2>2, <2>3
<1>8. CASE HkDowntime
  <2>1. purge = {} /\ hk = "downtime"
    BY <1>8 DEF HkDowntime, MarkInv
  <2>2. HkNext \/ HkLeave
    BY <1>8 DEF HkDowntime
  <2> QED
    BY <1>2, <1>3, <2>1, <2>2 DEF HkNext
<1>9. CASE HkTimeoutsEnd \/ HkDropEnd \/ HkExpectNotDue \/ HkExpectEnd
  BY <1>1, <1>2, <1>9 DEF HkTimeoutsEnd, HkDropEnd, HkExpectNotDue, HkExpectEnd, MarkInv, statusVars
<1>10. CASE HkEnd
  BY <1>3, <1>10 DEF HkEnd
<1> QED
  BY <1>4, <1>5, <1>6, <1>7, <1>8, <1>9, <1>10 DEF HkStep

LEMMA MarkStep ==
  ASSUME DaemonInv, MarkInv, [Next]_vars
  PROVE  MarkInv'
<1>1. CASE CommandStep
  <2>1. UNCHANGED <<hkVars, esVars>>
    BY <1>1 DEF CommandStep, CommandDelete, CommandUpdate, CommandChangestate, CommandFlush,
                CommandReload, Sighup, cmdElse
  <2>2. lock = "free" \/ events' = events
    BY <1>1 DEF CommandStep, CommandDelete, CommandUpdate, CommandChangestate, CommandFlush,
                CommandReload, Sighup, Command, statusVars
  <2> QED
    BY <2>1, <2>2, OneMarks DEF MarkInv, hkVars, esVars
<1>2. CASE UNCHANGED vars
  BY <1>2 DEF vars, statusVars, threadVars, MarkInv
<1> QED
  BY <1>1, <1>2, EsMarks, HkMarks DEF Next

LEMMA MarkInvariant == Spec => []MarkInv
<1>1. Init => MarkInv
  BY DEF Init, StatusInit, NoMessage, MarkInv
<1> QED
  BY <1>1, MarkStep, DaemonInvariant, PTL DEF Spec

\* Both loops that remove events by their position in the list find there what
\* they have marked, for all rules, messages and commands: nobody else takes
\* an event out of the list between the two passes.
THEOREM MarkedIsInList == Spec => []MarkedInList
<1>1. MarkInv => MarkedInList
  BY DEF MarkInv, MarkedInList
<1> QED
  BY <1>1, MarkInvariant, PTL

-----------------------------------------------------------------------------
(* Counters and hosts.                                                     *)

\* The rules that count tell the hosts apart, and none expects messages: then
\* a message is only counted to an event of its own host.
SeparateHosts ==
  \A R \in RuleSets : \A r \in DOMAIN R :
    R[r].kind # "expect" /\ (R[r].kind = "count" => R[r].sepHost)

HostInv ==
  /\ conf.kind # "expect" /\ (conf.kind = "count" => conf.sepHost)
  /\ es \in {"scan", "countup"} => conf.kind = "count"
  /\ es = "countup" => found.host = cur.host

\* A step of the store that is not count_event_up changes no host.
LEMMA HostStepKeeps ==
  ASSUME StatusTypeOK, HostStep
  PROVE  HostsStay
<1>0. \A e \in Ref : heap[e] \in Event
  BY HeapIsTyped
<1>1. CASE New
  <2> PICK ev \in Event : NewEvent(ev)
    BY <1>1 DEF New
  <2>1. heap' = Append(heap, ev) /\ heap \in Seq(Event)
    BY DEF NewEvent, StatusTypeOK
  <2>2. \A e \in Ref : heap'[e] = heap[e]
    BY <2>1, AppendOK DEF Ref
  <2> QED
    BY <2>2 DEF HostsStay
<1>2. CASE Delete
  <2> PICK e \in Ref : DeleteEvent(e)
    BY <1>2 DEF Delete
  <2> DEFINE new == [heap[e] EXCEPT !.phase = "closed", !.log = "DELETE"]
  <2>1. heap' = [heap EXCEPT ![e] = new] /\ new.host = heap[e].host
    BY <1>0 DEF DeleteEvent, Event
  <2> HIDE DEF new
  <2> QED
    BY <2>1 DEF StatusTypeOK, Ref, HostsStay
<1>3. CASE Touch
  <2> PICK e \in Ref : heap'[e].host = heap[e].host /\ Change(e, heap'[e])
    BY <1>3 DEF Touch
  <2> DEFINE new == heap'[e]
  <2>1. new.host = heap[e].host /\ heap' = [heap EXCEPT ![e] = new]
    BY DEF Change
  <2> HIDE DEF new
  <2> QED
    BY <2>1 DEF StatusTypeOK, Ref, HostsStay
<1>4. CASE Remove \/ Flush \/ UNCHANGED statusVars
  BY <1>4 DEF Remove, RemoveEvent, Flush, statusVars, HostsStay
<1> QED
  BY <1>1, <1>2, <1>3, <1>4 DEF HostStep

\* Nor does it if it counts an event of the host of the message.
LEMMA DaemonHostsStay ==
  ASSUME DaemonInv, HostInv, [Next]_vars
  PROVE  HostsStay
<1>0. StatusTypeOK
  BY DEF DaemonInv
<1>1. CASE HostStep
  BY <1>0, <1>1, HostStepKeeps
<1>2. CASE ArchiveStore
  BY <1>2 DEF ArchiveStore, HostsStay
<1>3. CASE CountEventUpStep
  <2>1. cur.found \in Ref /\ found \in Event /\ found.host = cur.host
    BY <1>0, <1>3, HeapIsTyped DEF DaemonInv, RefOK, Holding, HostInv, CountEventUpStep, found
  <2> DEFINE new == [found EXCEPT !.host = cur.host, !.down = cur.down, !.count = cur.n]
  <2>2. heap' = [heap EXCEPT ![cur.found] = new] /\ new.host = found.host
    BY <1>3, <2>1 DEF CountEventUpStep, CountEventUp, Change, found, Event
  <2> HIDE DEF new
  <2> QED
    BY <1>0, <2>1, <2>2 DEF StatusTypeOK, Ref, HostsStay, found
<1>4. EsArrival \/ HkStart \/ UNCHANGED vars => HostStep
  BY DEF EsArrival, Receive, ReceiveOrphan, HkStart, HostStep, vars
<1> QED
  BY <1>1, <1>2, <1>3, <1>4, EsStoreStep, HkStoreStep, CommandStoreStep DEF Next

LEMMA HostStepOfDaemon ==
  ASSUME SeparateHosts, DaemonInv, HostInv, [Next]_vars
  PROVE  HostInv'
<1>0. /\ HostsStay /\ cur \in Message /\ NoMessage \in Message
      /\ es \in Holding => cur.found \in Ref
  BY DaemonHostsStay, NoMessageOK DEF DaemonInv, ThreadTypeOK, RefOK
<1>1. ASSUME cur'.conf = cur.conf, es' \notin {"scan", "countup"}
      PROVE  HostInv'
  BY <1>1 DEF HostInv, conf
<1>2. ASSUME cur' = NoMessage, es' = "idle"
      PROVE  HostInv'
  BY <1>2 DEF HostInv, conf, NoMessage, NoConf
<1>3. ASSUME UNCHANGED <<es, cur>>
      PROVE  HostInv'
  <2>1. es = "countup" => heap'[cur.found].host = heap[cur.found].host
    BY <1>0 DEF HostsStay, Holding
  <2> QED
    BY <1>3, <2>1 DEF HostInv, conf, found
<1>4. CASE Receive
  <2>1. PICK r \in active, h \in Host, d \in BOOLEAN :
          cur' = [NoMessage EXCEPT !.rule = r, !.conf = rules[r], !.host = h, !.down = d]
    BY <1>4 DEF Receive
  <2>2. cur'.conf = rules[r]
    BY <1>0, <2>1 DEF Message
  <2>3. rules \in RuleSets /\ r \in DOMAIN rules
    BY DEF DaemonInv, ThreadTypeOK, active
  <2> QED
    BY <1>4, <2>2, <2>3 DEF Receive, SeparateHosts, HostInv, conf
<1>5. CASE ReceiveOrphan
  <2>1. \/ UNCHANGED <<es, cur>>
        \/ cur' = [NoMessage EXCEPT !.n = nextId] /\ es' = "archive"
    BY <1>5 DEF ReceiveOrphan
  <2>2. CASE cur' = [NoMessage EXCEPT !.n = nextId] /\ es' = "archive"
    <3>1. cur'.conf.kind = "drop"
      BY <2>2 DEF NoMessage, NoConf
    <3> QED
      BY <2>2, <3>1 DEF HostInv, conf
  <2> QED
    BY <1>3, <2>1, <2>2
<1>6. CASE ScanFound
  <2>1. PICK e \in events : /\ Counts(e)
                            /\ With("countup", [cur EXCEPT !.found = e, !.n = heap[e].count + 1])
    BY <1>6 DEF ScanFound
  <2>2. conf.kind = "count" /\ conf.sepHost
    BY <1>6 DEF ScanFound, HostInv
  <2>3. heap[e].host = cur.host
    BY <2>1, <2>2 DEF Counts
  <2>4. /\ cur'.found = e /\ cur'.host = cur.host /\ cur'.conf = cur.conf /\ es' = "countup"
        /\ heap' = heap
    BY <1>0, <1>6, <2>1 DEF With, Message, ScanFound, statusVars
  <2> QED
    BY <2>2, <2>3, <2>4 DEF HostInv, conf, found
<1>7. CASE ScanSkip
  <2>1. cur'.conf = cur.conf /\ es = "scan" /\ es' = "scan"
    BY <1>0, <1>7 DEF ScanSkip, With, Message
  <2> QED
    BY <2>1 DEF HostInv, conf
<1>8. CASE CountRuleMatch
  <2>1. /\ es' \in {"idle", "cancel", "scan", "limit"} /\ (cur' = cur \/ cur' = NoMessage)
        /\ es' = "scan" => conf.kind \in {"count", "expect"} /\ cur' = cur
        /\ es' = "idle" => cur' = NoMessage
        /\ es' # "idle" => cur' = cur
    BY <1>8 DEF CountRuleMatch, Goto, Done
  <2>2. CASE es' = "scan"
    BY <2>1, <2>2 DEF HostInv, conf
  <2> QED
    BY <1>1, <1>2, <2>1, <2>2
<1>9. CASE \/ ScanEnd \/ TestCount \/ ReachCount \/ OpenCounted \/ LogCountReached
           \/ CloseEvent \/ OpenCreated \/ RemoveClosed \/ ArchiveStore \/ CountEventUpStep
           \/ CancelTake \/ CancelSweep \/ SweepEnd \/ LimitTake
  BY <1>1, <1>2, <1>9 DEF ScanEnd, TestCount, ReachCount, OpenCounted, LogCountReached, CloseEvent,
     OpenCreated, RemoveClosed, ArchiveStore, CountEventUpStep, CancelTake, CancelSweep, SweepEnd,
     LimitTake, Goto, Leave, Done
<1>10. CASE CancelMark \/ SweepCancelled
  <2>1. \/ cur' = NoMessage /\ es' = "idle"
        \/ (\E g : cur' = [cur EXCEPT !.gone = g]) /\ es' \in {"cancelling", "sweep"}
    BY <1>10 DEF CancelMark, SweepCancelled, With, Leave, Done
  <2> QED
    BY <1>0, <1>1, <1>2, <2>1 DEF Message
<1>11. CASE \E ty \in LimitType : \/ LimitFails(ty) \/ LimitNotReached(ty) \/ LimitDeletesOldest(ty)
                                  \/ LimitRefuses(ty) \/ LimitReached(ty)
  <2>1. PICK ty \in LimitType : \/ LimitFails(ty) \/ LimitNotReached(ty) \/ LimitDeletesOldest(ty)
                                \/ LimitRefuses(ty) \/ LimitReached(ty)
    BY <1>11
  <2>2. After(ty) \in {"by_host", "by_rule", "create"}
    BY DEF After, LimitType
  <2>3. \/ cur' = NoMessage /\ es' = "idle"
        \/ cur' = cur /\ es' = After(ty)
        \/ (\E n : cur' = [cur EXCEPT !.ty = ty, !.n = n]) /\ es' = "shrink"
    BY <2>1 DEF LimitFails, LimitNotReached, LimitDeletesOldest, LimitRefuses, LimitReached,
                Goto, With, Leave, Done
  <2> QED
    BY <1>0, <1>1, <1>2, <2>2, <2>3 DEF Message
<1>12. CASE ShrinkOldest \/ ShrinkEnd \/ Create
  <2>2. After(cur.ty) \in {"by_host", "by_rule", "create"}
    BY <1>0 DEF After, Message, LimitType
  <2>1. \/ cur' = NoMessage /\ es' = "idle"
        \/ cur' = cur /\ es' = After(cur.ty)
        \/ (\E n : cur' = [cur EXCEPT !.n = n]) /\ es' = "shrink"
        \/ (\E n : cur' = [cur EXCEPT !.found = n]) /\ es' \in {"test", "created"}
    BY <1>12 DEF ShrinkOldest, ShrinkEnd, Create, Goto, With, Leave, Done
  <2> QED
    BY <1>0, <1>1, <1>2, <2>1, <2>2 DEF Message
<1>13. CASE HkStart \/ HkStep \/ CommandStep \/ UNCHANGED vars
  <2>1. UNCHANGED <<es, cur>>
    BY <1>13 DEF HkStart, HkStep, HkTimeout, HkTimeoutsEnd, HkDrop, HkDropEnd, HkExpectNotDue,
       HkExpect, HkExpectEnd, HkDowntime, HkEnd, CommandStep, CommandDelete, CommandUpdate,
       CommandChangestate, CommandFlush, CommandReload, Sighup, hkElse, cmdElse, esVars,
       vars, threadVars
  <2> QED
    BY <1>3, <2>1
<1> QED
  BY <1>4, <1>5, <1>6, <1>7, <1>8, <1>9, <1>10, <1>11, <1>12, <1>13
  DEF Next, EsArrival, EsStep, LimitStep

LEMMA DaemonCountersStep ==
  ASSUME DaemonInv, HostInv, CountersInv, [Next]_vars
  PROVE  CountersInv'
<1>1. CASE StoreStep
  BY <1>1, CountersStep, DaemonHostsStay DEF StoreStep, DaemonInv
<1>2. CASE ArchiveStore
  BY <1>2 DEF ArchiveStore, counters, CountersInv, CountersExact, OfHost, OfRule, Uncounted
<1> QED
  BY <1>1, <1>2, DaemonStoreStep

LEMMA CountersInvariant == SeparateHosts => (Spec => [](HostInv /\ CountersInv))
<1> SUFFICES ASSUME SeparateHosts
             PROVE  Spec => [](HostInv /\ CountersInv)
  OBVIOUS
<1>1. Init => HostInv /\ CountersInv
  BY CountersInit DEF Init, HostInv, conf, NoMessage, NoConf
<1>2. ASSUME DaemonInv, HostInv, CountersInv, [Next]_vars
      PROVE  HostInv' /\ CountersInv'
  BY <1>2, HostStepOfDaemon, DaemonCountersStep
<1> QED
  BY <1>1, <1>2, DaemonInvariant, PTL DEF Spec

\* If the counting rules separate hosts and no rule expects messages, the
\* counters of all hosts and rules are the numbers of their events in every
\* state, although messages are counted without the lock: so no removal ever
\* ends in a KeyError.  (Otherwise it may: a message of another host takes the
\* event over.)
THEOREM DaemonCountersAreExact == SeparateHosts => (Spec => []CountersExact)
<1>1. CountersInv => CountersExact
  BY DEF CountersInv
<1> QED
  BY <1>1, CountersInvariant, PTL

-----------------------------------------------------------------------------
(* The limits of each host and of each rule.                               *)

HostLimit == Limit["by_host"].limit
RuleLimit == Limit["by_rule"].limit

\* The overflow event
Extra(ty) == IF Limit[ty].action = "delete_oldest" THEN 0 ELSE 1

\* The event of this host has passed the limit of its host.
HostPassed(h) ==
  /\ cur.host = h
  /\ es \in {"by_rule", "create"} \/ (es = "shrink" /\ cur.ty = "by_rule")

\* How far these limits can be exceeded, by counter and by place.
HostsBound ==
  \A h \in Host :
    /\ byHost[h] <= HostLimit + 1 + Extra("by_host")
    /\ HostPassed(h) => byHost[h] <= HostLimit + Extra("by_host")
    /\ es = "shrink" /\ cur.ty = "by_host" /\ cur.host = h => byHost[h] - cur.n <= HostLimit

RulesBound ==
  \A r \in Rule :
    /\ byRule[r] <= RuleLimit + 1 + Extra("by_rule")
    /\ es = "create" /\ cur.rule = r => byRule[r] <= RuleLimit + Extra("by_rule")
    /\ es = "shrink" /\ cur.ty = "by_rule" /\ cur.rule = r => byRule[r] - cur.n <= RuleLimit

\* No rule expects messages, so the housekeeping has none to look at.
NoneExpected == hk \in {"drop", "expect"} => todo = {}

EachInv == HostsBound /\ RulesBound /\ NoneExpected

LEMMA EachTyped ==
  /\ HostLimit \in Nat /\ RuleLimit \in Nat
  /\ Extra("by_host") \in 0..1 /\ Extra("by_rule") \in 0..1
  BY ConfAssumption DEF HostLimit, RuleLimit, Extra, LimitConf, LimitType

LEMMA NoneExpectedStep ==
  ASSUME SeparateHosts, DaemonInv, NoneExpected, [Next]_vars
  PROVE  NoneExpected' /\ ~HkExpect
<1>1. ~HkExpect
  BY DEF NoneExpected, HkExpect
<1>2. CASE HkTimeoutsEnd
  <2>1. rules \in RuleSets
    BY DEF DaemonInv, ThreadTypeOK
  <2>2. \A r \in active : rules[r].kind # "expect"
    BY <2>1 DEF SeparateHosts, active
  <2> QED
    BY <1>1, <1>2, <2>2 DEF HkTimeoutsEnd, NoneExpected
<1>3. CASE HkTimeout \/ HkDrop \/ HkDropEnd \/ HkExpectNotDue \/ HkExpectEnd \/ HkDowntime \/ HkEnd
           \/ HkStart
  BY <1>1, <1>3 DEF HkTimeout, HkDrop, HkDropEnd, HkExpectNotDue, HkExpectEnd, HkDowntime, HkEnd,
    HkStart, HkNext, HkLeave, NoneExpected
<1>4. CASE UNCHANGED <<hk, todo>>
  BY <1>1, <1>4 DEF NoneExpected
<1>5. EsArrival \/ EsStep => UNCHANGED <<hk, todo>>
  BY DEF EsArrival, Receive, ReceiveOrphan, EsStep, ArchiveStore, CountRuleMatch, ScanFound,
     ScanSkip, ScanEnd, CountEventUpStep, TestCount, ReachCount, OpenCounted, LogCountReached,
     CloseEvent, RemoveClosed, LimitStep, LimitTake, LimitFails, LimitNotReached,
     LimitDeletesOldest, LimitRefuses, LimitReached, ShrinkOldest, ShrinkEnd, Create, OpenCreated,
     CancelTake, CancelMark, CancelSweep, SweepCancelled, SweepEnd, esElse, hkVars
<1>6. CommandStep \/ UNCHANGED vars => UNCHANGED <<hk, todo>>
  BY DEF CommandStep, CommandDelete, CommandUpdate, CommandChangestate, CommandFlush,
     CommandReload, Sighup, cmdElse, hkVars, vars, threadVars
<1> QED
  BY <1>1, <1>2, <1>3, <1>4, <1>5, <1>6 DEF Next, HkStep

\* Only three actions add an event to the list.
Adds == Create \/ (\E ty \in LimitType : LimitReached(ty)) \/ HkExpect

LEMMA NothingAdded ==
  ASSUME [Next]_vars, ~Adds
  PROVE  events' \subseteq events
<1> USE DEF Adds
<1>1. CASE \E e : RemoveEvent(e) \/ DeleteEvent(e)
  BY <1>1 DEF RemoveEvent, DeleteEvent
<1>2. CASE UNCHANGED statusVars \/ ArchiveStore \/ CommandFlush
  BY <1>2 DEF statusVars, ArchiveStore, CommandFlush, Flush
<1>3. ASSUME NEW e, NEW new, Change(e, new)
      PROVE  events' \subseteq events
  BY <1>3 DEF Change
<1>4. CASE EsArrival \/ CountRuleMatch \/ ScanFound \/ ScanSkip \/ ScanEnd \/ CancelTake
           \/ CancelSweep \/ SweepEnd \/ LimitTake \/ ShrinkEnd \/ TestCount
  BY <1>2, <1>4 DEF EsArrival, Receive, ReceiveOrphan, CountRuleMatch, ScanFound, ScanSkip, ScanEnd,
     CancelTake, CancelSweep, SweepEnd, LimitTake, ShrinkEnd, TestCount
<1>5. ASSUME NEW ty \in LimitType,
             LimitFails(ty) \/ LimitNotReached(ty) \/ LimitDeletesOldest(ty) \/ LimitRefuses(ty)
      PROVE  UNCHANGED statusVars
  BY <1>5 DEF LimitFails, LimitNotReached, LimitDeletesOldest, LimitRefuses
<1>6. CASE CountEventUpStep \/ ReachCount \/ OpenCounted \/ LogCountReached \/ CloseEvent
           \/ CancelMark \/ CommandUpdate \/ CommandChangestate
  BY <1>6 DEF CountEventUpStep, CountEventUp, ReachCount, OpenCounted, LogCountReached,
     CloseEvent, CancelMark, CommandUpdate, CommandChangestate, Change
<1>7. CASE OpenCreated
  BY <1>2, <1>7 DEF OpenCreated, Change
<1>8. CASE RemoveClosed \/ SweepCancelled \/ CommandDelete
  BY <1>1, <1>8 DEF RemoveClosed, SweepCancelled, CommandDelete
<1>9. CASE ShrinkOldest \/ HkDrop \/ HkDowntime
  BY <1>1, <1>2, <1>9 DEF ShrinkOldest, HkDrop, HkDowntime
<1>10. CASE HkTimeout
  <2>1. PICK e \in First(todo) : TimeoutCounting(e) \/ TimeoutDelayed(e) \/ TimeoutLivetime(e) \/ NotDue
    BY <1>10 DEF HkTimeout
  <2> QED
    BY <1>2, <2>1 DEF TimeoutCounting, TimeoutDelayed, TimeoutLivetime, NotDue, Close, LoseTokens, Change
<1>11. CASE HkStart \/ HkTimeoutsEnd \/ HkDropEnd \/ HkExpectNotDue \/ HkExpectEnd \/ HkEnd
            \/ CommandReload \/ Sighup \/ UNCHANGED vars
  BY <1>2, <1>11 DEF HkStart, HkTimeoutsEnd, HkDropEnd, HkExpectNotDue, HkExpectEnd, HkEnd,
     CommandReload, Sighup, vars
<1>12. CASE LimitStep
  BY <1>2, <1>4, <1>5, <1>9, <1>12 DEF LimitStep
<1> QED
  BY <1>2, <1>4, <1>6, <1>7, <1>8, <1>9, <1>10, <1>11, <1>12 DEF Next, EsStep, HkStep, CommandStep

\* Without a new event no counter rises.
LEMMA CountersFall ==
  ASSUME DaemonInv, HostInv, CountersInv, [Next]_vars, ~Adds
  PROVE  /\ \A h \in Host : byHost'[h] <= byHost[h]
         /\ \A r \in Rule : byRule'[r] <= byRule[r]
<1>0. /\ StatusTypeOK /\ HostsStay /\ events' \subseteq events
      /\ Len(heap) \in Nat /\ IsFiniteSet(events) /\ events \subseteq Ref
      /\ byHost \in [Hosts -> Int] /\ byRule \in [Rules -> Int]
      /\ Host \subseteq Hosts /\ Rule \subseteq Rules
      /\ StoreStep \/ ArchiveStore
  BY DaemonHostsStay, NothingAdded, EventsFinite, DaemonStoreStep
  DEF DaemonInv, StatusTypeOK, Hosts, Rules
<1>1. CASE ArchiveStore
  BY <1>0, <1>1 DEF ArchiveStore, counters
<1>2. CASE StoreStep
  <2>1. \A h \in Host : byHost[h] >= 0
    <3> SUFFICES ASSUME NEW h \in Host PROVE byHost[h] >= 0
      OBVIOUS
    <3>1. OfHost(h) \subseteq events
      BY DEF OfHost
    <3> QED
      BY <1>0, <3>1, FS_Subset, FS_CardinalityType DEF CountersInv, CountersExact
  <2>2. \A r \in Rule : byRule[r] >= 0
    <3> SUFFICES ASSUME NEW r \in Rule PROVE byRule[r] >= 0
      OBVIOUS
    <3>1. OfRule(r) \subseteq events
      BY DEF OfRule
    <3> QED
      BY <1>0, <3>1, FS_Subset, FS_CardinalityType DEF CountersInv, CountersExact
  <2>3. Len(heap) + 1 \notin events'
    BY <1>0 DEF Ref
  <2>4. CASE \E e \in events : events' = events \ {e} /\ CountedFor(e, -1)
    <3>1. PICK e \in events : CountedFor(e, -1)
      BY <2>4
    <3> QED
      BY <1>0, <3>1 DEF CountedFor
  <2>5. CASE UNCHANGED <<events, byHost, byRule>>
    BY <1>0, <2>5
  <2>6. CASE byHost' = [h \in Hosts |-> 0] /\ byRule' = [r \in Rules |-> 0]
    BY <1>0, <2>1, <2>2, <2>6
  <2> QED
    BY <1>0, <1>2, <2>3, <2>4, <2>5, <2>6, CountersEffect DEF StoreStep
<1> QED
  BY <1>0, <1>1, <1>2

\* A new event raises the counters of its host and of its rule only.
LEMMA NewEventCounts ==
  ASSUME StatusTypeOK, NEW ev \in Event, NewEvent(ev)
  PROVE  /\ \A h \in Host : byHost'[h] = IF h = ev.host THEN byHost[h] + 1 ELSE byHost[h]
         /\ \A r \in Rule : byRule'[r] = IF r = ev.rule THEN byRule[r] + 1 ELSE byRule[r]
<1>1. byHost \in [Hosts -> Int] /\ byRule \in [Rules -> Int] /\ Host \subseteq Hosts /\ Rule \subseteq Rules
  BY DEF StatusTypeOK, Hosts, Rules
<1> QED
  BY <1>1 DEF NewEvent

\* The removal of an event lowers the counters of its host and of its rule.
LEMMA RemovalCounts ==
  ASSUME StatusTypeOK, CountersInv, NEW e \in events, RemoveEvent(e)
  PROVE  /\ heap[e].host \in Host => byHost'[heap[e].host] = byHost[heap[e].host] - 1
         /\ heap[e].rule \in Rule => byRule'[heap[e].rule] = byRule[heap[e].rule] - 1
<1>1. byHost \in [Hosts -> Int] /\ byRule \in [Rules -> Int] /\ Host \subseteq Hosts /\ Rule \subseteq Rules
  BY DEF StatusTypeOK, Hosts, Rules
<1> QED
  BY <1>1 DEF RemoveEvent, CountEventRemove, CountersInv

\* Who does not admit an event, or is still at the overall limit, keeps both.
LEMMA EachStays ==
  ASSUME StatusTypeOK, StatusTypeOK', ThreadTypeOK, EachInv, NoneExpected',
         \A h \in Host : byHost'[h] <= byHost[h],
         \A r \in Rule : byRule'[r] <= byRule[r],
         \/ UNCHANGED <<es, cur>>
         \/ es' \notin {"by_rule", "create", "shrink"}
  PROVE  EachInv'
<1>0. /\ \A h \in Host : byHost[h] \in Int /\ byHost'[h] \in Int
      /\ \A r \in Rule : byRule[r] \in Int /\ byRule'[r] \in Int
      /\ cur.n \in Nat
  BY DEF StatusTypeOK, ThreadTypeOK, Message, Hosts, Rules
<1>1. HostsBound'
  <2> SUFFICES ASSUME NEW h \in Host
               PROVE  /\ byHost'[h] <= HostLimit + 1 + Extra("by_host")
                      /\ HostPassed(h)' => byHost'[h] <= HostLimit + Extra("by_host")
                      /\ es' = "shrink" /\ cur'.ty = "by_host" /\ cur'.host = h
                           => byHost'[h] - cur'.n <= HostLimit
    BY DEF HostsBound, HostLimit, Extra
  <2>1. byHost'[h] <= byHost[h] /\ byHost[h] \in Int /\ byHost'[h] \in Int
    BY <1>0
  <2>2. HostPassed(h)' => HostPassed(h)
    BY DEF HostPassed
  <2> QED
    BY <1>0, <2>1, <2>2, EachTyped DEF EachInv, HostsBound
<1>2. RulesBound'
  <2> SUFFICES ASSUME NEW r \in Rule
               PROVE  /\ byRule'[r] <= RuleLimit + 1 + Extra("by_rule")
                      /\ es' = "create" /\ cur'.rule = r => byRule'[r] <= RuleLimit + Extra("by_rule")
                      /\ es' = "shrink" /\ cur'.ty = "by_rule" /\ cur'.rule = r
                           => byRule'[r] - cur'.n <= RuleLimit
    BY DEF RulesBound, RuleLimit, Extra
  <2>1. byRule'[r] <= byRule[r] /\ byRule[r] \in Int /\ byRule'[r] \in Int
    BY <1>0
  <2> QED
    BY <1>0, <2>1, EachTyped DEF EachInv, RulesBound
<1> QED
  BY <1>1, <1>2 DEF EachInv

\* The place of the EventServer after a limit
LEMMA AfterLimit ==
  /\ After("overall") = "by_host" /\ After("by_host") = "by_rule" /\ After("by_rule") = "create"
  /\ \A ty \in LimitType : After(ty) \in {"by_host", "by_rule", "create"}
  BY DEF After, LimitType

\* The event itself is created: it has passed both limits.
LEMMA EachCreate ==
  ASSUME DaemonInv, EachInv, NoneExpected', Create
  PROVE  EachInv'
<1>0. /\ StatusTypeOK /\ cur \in Message /\ es = "create" /\ es' \in {"test", "idle", "created"}
      /\ \A h \in Host : byHost[h] \in Int
      /\ \A r \in Rule : byRule[r] \in Int
  BY DEF DaemonInv, ThreadTypeOK, StatusTypeOK, Create, Done, With, Hosts, Rules
<1> DEFINE new == Fresh(cur.rule, cur.host, FirstPhase, cur.down)
<1>1. new \in Event /\ new.host = cur.host /\ new.rule = cur.rule /\ NewEvent(new)
  <2>1. FirstPhase \in Phase
    BY DEF FirstPhase, Phase
  <2> QED
    BY <1>0, <2>1, FreshIsEvent DEF Create, Message, Fresh
<1> HIDE DEF new
<1>2. /\ \A h \in Host : byHost'[h] = IF h = cur.host THEN byHost[h] + 1 ELSE byHost[h]
      /\ \A r \in Rule : byRule'[r] = IF r = cur.rule THEN byRule[r] + 1 ELSE byRule[r]
  BY <1>0, <1>1, NewEventCounts
<1>3. HostsBound'
  BY <1>0, <1>2, EachTyped DEF EachInv, HostsBound, HostPassed, HostLimit, Extra
<1>4. RulesBound'
  BY <1>0, <1>2, EachTyped DEF EachInv, RulesBound, RuleLimit, Extra
<1> QED
  BY <1>3, <1>4 DEF EachInv

\* A limit is passed with or without an overflow event, which counts for the
\* host at its own limit and for the rule at its own.
LEMMA EachReached ==
  ASSUME DaemonInv, EachInv, NoneExpected', NEW ty \in LimitType,
         LimitReached(ty) \/ LimitNotReached(ty)
  PROVE  EachInv'
<1>0. /\ StatusTypeOK /\ cur \in Message /\ es = ty /\ es' = After(ty) /\ cur' = cur
      /\ \A h \in Host : byHost[h] \in Int
      /\ \A r \in Rule : byRule[r] \in Int
      /\ cur.host \in Hosts /\ cur.rule \in Rules
      /\ NoHost \notin Host /\ NoRule \notin Rule
      /\ NoRule \in Rules /\ NoHost \in Hosts /\ cur.down \in BOOLEAN
  BY NamesAssumption DEF DaemonInv, ThreadTypeOK, StatusTypeOK, LimitReached, LimitNotReached,
     Goto, Hosts, Rules, Message
<1>1. ASSUME NEW h \in Host, ty = "by_host", cur.host = h
      PROVE  /\ LimitReached(ty) /\ Limit[ty].action = "delete_oldest" => FALSE
             /\ byHost[h] <= HostLimit
             /\ LimitNotReached(ty) => byHost[h] < HostLimit
  BY <1>0, <1>1, EachTyped DEF LimitReached, LimitNotReached, AlreadyOpen, Existing, HostLimit
<1>2. ASSUME NEW r \in Rule, ty = "by_rule", cur.rule = r
      PROVE  /\ LimitReached(ty) /\ Limit[ty].action = "delete_oldest" => FALSE
             /\ byRule[r] <= RuleLimit
             /\ LimitNotReached(ty) => byRule[r] < RuleLimit
  BY <1>0, <1>2, EachTyped DEF LimitReached, LimitNotReached, AlreadyOpen, Existing, RuleLimit
<1>3. /\ \A h \in Host : \/ byHost'[h] = byHost[h]
                         \/ /\ ty = "by_host" /\ h = cur.host /\ LimitReached(ty)
                            /\ byHost'[h] = byHost[h] + 1
      /\ \A r \in Rule : \/ byRule'[r] = byRule[r]
                         \/ /\ ty = "by_rule" /\ r = cur.rule /\ LimitReached(ty)
                            /\ byRule'[r] = byRule[r] + 1
  <2>1. CASE UNCHANGED statusVars
    BY <2>1 DEF statusVars
  <2>2. CASE LimitReached(ty) /\ NewEvent(Overflow(ty))
    <3>1. CASE ty = "overall"
      <4>1. Overflow(ty) \in Event /\ Overflow(ty).host = NoHost /\ Overflow(ty).rule = NoRule
        BY <1>0, <3>1, FreshIsEvent DEF Overflow, Fresh, Phase
      <4> QED
        BY <1>0, <2>2, <4>1, NewEventCounts
    <3>2. CASE ty = "by_host"
      <4>1. Overflow(ty) \in Event /\ Overflow(ty).host = cur.host /\ Overflow(ty).rule = NoRule
        BY <1>0, <3>2, FreshIsEvent DEF Overflow, Fresh, Phase
      <4> QED
        BY <1>0, <2>2, <3>2, <4>1, NewEventCounts
    <3>3. CASE ty = "by_rule"
      <4>1. Overflow(ty) \in Event /\ Overflow(ty).host = NoHost /\ Overflow(ty).rule = cur.rule
        BY <1>0, <3>3, FreshIsEvent DEF Overflow, Fresh, Phase
      <4> QED
        BY <1>0, <2>2, <3>3, <4>1, NewEventCounts
    <3> QED
      BY <3>1, <3>2, <3>3 DEF LimitType
  <2> QED
    BY <2>1, <2>2 DEF LimitReached, LimitNotReached
<1>4. HostsBound'
  <2> SUFFICES ASSUME NEW h \in Host
               PROVE  /\ byHost'[h] <= HostLimit + 1 + Extra("by_host")
                      /\ HostPassed(h)' => byHost'[h] <= HostLimit + Extra("by_host")
    BY <1>0, AfterLimit DEF HostsBound, HostLimit, Extra
  <2>0. /\ byHost[h] \in Int /\ HostLimit \in Nat /\ Extra("by_host") \in 0..1
        /\ byHost[h] <= HostLimit + 1 + Extra("by_host")
        /\ HostPassed(h) => byHost[h] <= HostLimit + Extra("by_host")
    BY <1>0, EachTyped DEF EachInv, HostsBound
  <2>1. CASE ty = "by_host" /\ h = cur.host
    <3>1. LimitReached(ty) => Extra("by_host") = 1
      BY <1>1, <2>1 DEF Extra
    <3>2. byHost'[h] <= HostLimit + Extra("by_host")
      BY <1>1, <1>3, <2>0, <2>1, <3>1
    <3>3. byHost'[h] \in Int
      BY <1>3, <2>0
    <3> QED
      BY <2>0, <3>2, <3>3
  <2>2. CASE ~(ty = "by_host" /\ h = cur.host)
    <3>1. HostPassed(h)' => HostPassed(h)
      BY <1>0, <2>2, AfterLimit DEF HostPassed, LimitType
    <3> QED
      BY <1>3, <2>0, <2>2, <3>1
  <2> QED
    BY <2>1, <2>2
<1>5. RulesBound'
  <2> SUFFICES ASSUME NEW r \in Rule
               PROVE  /\ byRule'[r] <= RuleLimit + 1 + Extra("by_rule")
                      /\ es' = "create" /\ cur'.rule = r
                           => byRule'[r] <= RuleLimit + Extra("by_rule")
    BY <1>0, AfterLimit DEF RulesBound, RuleLimit, Extra
  <2>0. /\ byRule[r] \in Int /\ RuleLimit \in Nat /\ Extra("by_rule") \in 0..1
        /\ byRule[r] <= RuleLimit + 1 + Extra("by_rule")
    BY <1>0, EachTyped DEF EachInv, RulesBound
  <2>1. CASE ty = "by_rule" /\ r = cur.rule
    <3>1. LimitReached(ty) => Extra("by_rule") = 1
      BY <1>2, <2>1 DEF Extra
    <3>2. byRule'[r] <= RuleLimit + Extra("by_rule")
      BY <1>2, <1>3, <2>0, <2>1, <3>1
    <3>3. byRule'[r] \in Int
      BY <1>3, <2>0
    <3> QED
      BY <2>0, <3>2, <3>3
  <2>2. CASE ~(ty = "by_rule" /\ r = cur.rule)
    <3>1. ~(es' = "create" /\ cur'.rule = r)
      BY <1>0, <2>2, AfterLimit DEF LimitType
    <3> QED
      BY <1>3, <2>0, <2>2, <3>1
  <2> QED
    BY <2>1, <2>2
<1> QED
  BY <1>4, <1>5 DEF EachInv

\* delete_oldest computes how many events of the host or rule it has to delete.
LEMMA EachDeletes ==
  ASSUME DaemonInv, EachInv, NoneExpected', NEW ty \in LimitType, LimitDeletesOldest(ty)
  PROVE  EachInv'
<1>0. /\ cur \in Message /\ es = ty /\ es' = "shrink"
      /\ \A h \in Host : byHost[h] \in Int
      /\ \A r \in Rule : byRule[r] \in Int
      /\ UNCHANGED <<byHost, byRule>>
      /\ cur' = [cur EXCEPT !.ty = ty, !.n = AlreadyOpen(ty) - Limit[ty].limit]
  BY DEF DaemonInv, ThreadTypeOK, StatusTypeOK, LimitDeletesOldest, With, Hosts, Rules, statusVars
<1>1. /\ cur'.ty = ty /\ cur'.host = cur.host /\ cur'.rule = cur.rule
      /\ cur'.n = AlreadyOpen(ty) - Limit[ty].limit
  BY <1>0 DEF Message
<1>2. HostsBound'
  <2> SUFFICES ASSUME NEW h \in Host
               PROVE  /\ byHost'[h] <= HostLimit + 1 + Extra("by_host")
                      /\ HostPassed(h)' => byHost'[h] <= HostLimit + Extra("by_host")
                      /\ cur'.ty = "by_host" /\ cur'.host = h => byHost'[h] - cur'.n <= HostLimit
    BY DEF HostsBound, HostLimit, Extra
  <2>1. cur'.ty = "by_host" /\ cur'.host = h => byHost'[h] - cur'.n <= HostLimit
    BY <1>0, <1>1, EachTyped DEF AlreadyOpen, Existing, HostLimit
  <2>2. HostPassed(h)' => HostPassed(h)
    BY <1>0, <1>1 DEF HostPassed
  <2> QED
    BY <1>0, <2>1, <2>2 DEF EachInv, HostsBound
<1>3. RulesBound'
  <2> SUFFICES ASSUME NEW r \in Rule
               PROVE  /\ byRule'[r] <= RuleLimit + 1 + Extra("by_rule")
                      /\ cur'.ty = "by_rule" /\ cur'.rule = r => byRule'[r] - cur'.n <= RuleLimit
    BY <1>0 DEF RulesBound, RuleLimit, Extra
  <2>1. cur'.ty = "by_rule" /\ cur'.rule = r => byRule'[r] - cur'.n <= RuleLimit
    BY <1>0, <1>1, EachTyped DEF AlreadyOpen, Existing, RuleLimit
  <2> QED
    BY <1>0, <2>1 DEF EachInv, RulesBound
<1> QED
  BY <1>2, <1>3 DEF EachInv

\* Each turn of its loop deletes an event of the host or rule, or there is none.
LEMMA EachShrinks ==
  ASSUME DaemonInv, HostInv, CountersInv, EachInv, NoneExpected', [Next]_vars, ShrinkOldest
  PROVE  EachInv'
<1>0. /\ StatusTypeOK /\ ThreadTypeOK /\ StatusTypeOK' /\ cur \in Message
      /\ cur.n \in Nat /\ cur.n > 0 /\ es = "shrink"
      /\ \A h \in Host : byHost[h] \in Int /\ byHost'[h] \in Int
      /\ \A r \in Rule : byRule[r] \in Int /\ byRule'[r] \in Int
      /\ Host \subseteq Hosts /\ Rule \subseteq Rules
  BY DaemonInvStep DEF DaemonInv, ThreadTypeOK, StatusTypeOK, ShrinkOldest, Message, Hosts, Rules
<1>1. /\ \A h \in Host : byHost'[h] <= byHost[h]
      /\ \A r \in Rule : byRule'[r] <= byRule[r]
  <2>1. ~Adds
    BY <1>0 DEF ThreadTypeOK, EsLocked, HkLocked, HkPc, Adds, Create, LimitReached, LimitType, HkExpect
  <2> QED
    BY <2>1, CountersFall
<1>2. CASE es' = "idle"
  BY <1>0, <1>1, <1>2, EachStays
<1>3. CASE es' = "shrink" /\ cur' = [cur EXCEPT !.n = @ - 1]
  <2>1. cur'.n = cur.n - 1 /\ cur'.ty = cur.ty /\ cur'.host = cur.host /\ cur'.rule = cur.rule
    BY <1>0, <1>3 DEF Message
  <2>2. \/ Oldest(cur.ty) = {}
        \/ \E e \in Oldest(cur.ty) : RemoveEvent(e)
    BY DEF ShrinkOldest, First
  <2>3. HostsBound'
    <3> SUFFICES ASSUME NEW h \in Host
                 PROVE  /\ byHost'[h] <= HostLimit + 1 + Extra("by_host")
                        /\ HostPassed(h)' => byHost'[h] <= HostLimit + Extra("by_host")
                        /\ cur'.ty = "by_host" /\ cur'.host = h => byHost'[h] - cur'.n <= HostLimit
      BY DEF HostsBound, HostLimit, Extra
    <3>0. byHost[h] \in Int /\ byHost'[h] \in Int /\ byHost'[h] <= byHost[h]
      BY <1>0, <1>1
    <3>1. ASSUME cur.ty = "by_host", cur.host = h
          PROVE  byHost'[h] - (cur.n - 1) <= HostLimit
      <4>1. byHost[h] - cur.n <= HostLimit
        BY <1>0, <3>1 DEF EachInv, HostsBound
      <4>2. Oldest(cur.ty) = OfHost(h)
        BY <3>1 DEF Oldest
      <4>3. CASE OfHost(h) = {}
        <5>1. byHost[h] = 0
          BY <1>0, <4>3, FS_EmptySet DEF CountersInv, CountersExact
        <5> QED
          BY <1>0, <3>0, <5>1, EachTyped
      <4>4. CASE \E e \in OfHost(h) : RemoveEvent(e)
        <5>1. byHost'[h] = byHost[h] - 1
          BY <1>0, <4>4, RemovalCounts DEF OfHost
        <5> QED
          BY <1>0, <3>0, <4>1, <5>1, EachTyped
      <4> QED
        BY <2>2, <4>2, <4>3, <4>4
    <3>2. HostPassed(h)' => HostPassed(h)
      BY <1>0, <1>3, <2>1 DEF HostPassed
    <3> QED
      BY <2>1, <3>0, <3>1, <3>2, EachTyped DEF EachInv, HostsBound
  <2>4. RulesBound'
    <3> SUFFICES ASSUME NEW r \in Rule
                 PROVE  /\ byRule'[r] <= RuleLimit + 1 + Extra("by_rule")
                        /\ cur'.ty = "by_rule" /\ cur'.rule = r => byRule'[r] - cur'.n <= RuleLimit
      BY <1>3 DEF RulesBound, RuleLimit, Extra
    <3>0. byRule[r] \in Int /\ byRule'[r] \in Int /\ byRule'[r] <= byRule[r]
      BY <1>0, <1>1
    <3>1. ASSUME cur.ty = "by_rule", cur.rule = r
          PROVE  byRule'[r] - (cur.n - 1) <= RuleLimit
      <4>1. byRule[r] - cur.n <= RuleLimit
        BY <1>0, <3>1 DEF EachInv, RulesBound
      <4>2. Oldest(cur.ty) = OfRule(r)
        BY <3>1 DEF Oldest
      <4>3. CASE OfRule(r) = {}
        <5>1. byRule[r] = 0
          BY <1>0, <4>3, FS_EmptySet DEF CountersInv, CountersExact
        <5> QED
          BY <1>0, <3>0, <5>1, EachTyped
      <4>4. CASE \E e \in OfRule(r) : RemoveEvent(e)
        <5>1. byRule'[r] = byRule[r] - 1
          BY <1>0, <4>4, RemovalCounts DEF OfRule
        <5> QED
          BY <1>0, <3>0, <4>1, <5>1, EachTyped
      <4> QED
        BY <2>2, <4>2, <4>3, <4>4
    <3> QED
      BY <2>1, <3>0, <3>1, EachTyped DEF EachInv, RulesBound
  <2> QED
    BY <2>3, <2>4 DEF EachInv
<1> QED
  BY <1>2, <1>3 DEF ShrinkOldest, With, Leave, Done

\* When the loop ends, the host or rule is back at its limit.
LEMMA EachShrunk ==
  ASSUME DaemonInv, EachInv, NoneExpected', ShrinkEnd
  PROVE  EachInv'
<1>0. /\ es = "shrink" /\ es' = After(cur.ty) /\ cur' = cur /\ cur.n = 0 /\ cur.ty \in LimitType
      /\ UNCHANGED <<byHost, byRule>>
      /\ \A h \in Host : byHost[h] \in Int
      /\ \A r \in Rule : byRule[r] \in Int
  BY DEF DaemonInv, ThreadTypeOK, StatusTypeOK, ShrinkEnd, Goto, Message, Hosts, Rules, statusVars
<1>1. HostsBound'
  <2> SUFFICES ASSUME NEW h \in Host
               PROVE  /\ byHost'[h] <= HostLimit + 1 + Extra("by_host")
                      /\ HostPassed(h)' => byHost'[h] <= HostLimit + Extra("by_host")
    BY <1>0, AfterLimit DEF HostsBound, HostLimit, Extra
  <2>1. HostPassed(h)' => HostPassed(h) \/ (cur.ty = "by_host" /\ cur.host = h)
    BY <1>0, AfterLimit DEF HostPassed, LimitType
  <2> QED
    BY <1>0, <2>1, EachTyped DEF EachInv, HostsBound
<1>2. RulesBound'
  <2> SUFFICES ASSUME NEW r \in Rule
               PROVE  /\ byRule'[r] <= RuleLimit + 1 + Extra("by_rule")
                      /\ es' = "create" /\ cur'.rule = r
                           => byRule'[r] <= RuleLimit + Extra("by_rule")
    BY <1>0, AfterLimit DEF RulesBound, RuleLimit, Extra
  <2>1. es' = "create" => cur.ty = "by_rule"
    BY <1>0, AfterLimit DEF LimitType
  <2> QED
    BY <1>0, <2>1, EachTyped DEF EachInv, RulesBound
<1> QED
  BY <1>1, <1>2 DEF EachInv

LEMMA EachStep ==
  ASSUME SeparateHosts, DaemonInv, HostInv, CountersInv, EachInv, [Next]_vars
  PROVE  EachInv'
<1>0. NoneExpected' /\ ~HkExpect
  BY NoneExpectedStep DEF EachInv
<1> DEFINE Admits == \E ty \in LimitType : LimitNotReached(ty) \/ LimitDeletesOldest(ty)
<1>1. CASE Adds \/ Admits \/ ShrinkOldest \/ ShrinkEnd
  BY <1>0, <1>1, EachCreate, EachReached, EachDeletes, EachShrinks, EachShrunk DEF Adds
<1>2. CASE ~Adds /\ ~Admits /\ ~ShrinkOldest /\ ~ShrinkEnd
  <2>1. StatusTypeOK /\ StatusTypeOK' /\ ThreadTypeOK
    BY DaemonInvStep DEF DaemonInv
  <2>2. EsArrival \/ EsStep => es' \notin {"by_rule", "create", "shrink"}
    BY <1>2 DEF Adds, EsArrival, Receive, ReceiveOrphan, EsStep, ArchiveStore, CountRuleMatch,
       ScanFound, ScanSkip, ScanEnd, CountEventUpStep, TestCount, ReachCount, OpenCounted,
       LogCountReached, CloseEvent, RemoveClosed, LimitStep, LimitTake, LimitFails, LimitRefuses,
       OpenCreated, CancelTake, CancelMark, CancelSweep, SweepCancelled, SweepEnd, Goto, With,
       Leave, Done
  <2>3. HkStart \/ HkStep \/ CommandStep \/ UNCHANGED vars => UNCHANGED <<es, cur>>
    BY DEF HkStart, HkStep, HkTimeout, HkTimeoutsEnd, HkDrop, HkDropEnd, HkExpectNotDue, HkExpect,
       HkExpectEnd, HkDowntime, HkEnd, CommandStep, CommandDelete, CommandUpdate,
       CommandChangestate, CommandFlush, CommandReload, Sighup, hkElse, cmdElse, esVars,
       vars, threadVars
  <2> QED
    BY <1>0, <1>2, <2>1, <2>2, <2>3, CountersFall, EachStays DEF Next
<1> QED
  BY <1>1, <1>2

\* If the counting rules separate hosts and no rule expects messages, then no
\* host and no rule ever has more events in the list than its limit and two,
\* and than its limit and one with delete_oldest: for all limits, rules and
\* orders of messages, commands, reloads and runs of the housekeeping.
THEOREM EachLimitIsBound == SeparateHosts => (Spec => []EachBound)
<1> SUFFICES ASSUME SeparateHosts
             PROVE  Spec => []EachBound
  OBVIOUS
<1>1. Init => EachInv
  <2> SUFFICES ASSUME Init
               PROVE  EachInv
    OBVIOUS
  <2>1. /\ \A h \in Host : byHost[h] = 0
        /\ \A r \in Rule : byRule[r] = 0
        /\ es = "idle" /\ todo = {}
    BY DEF Init, StatusInit, Hosts, Rules
  <2> QED
    BY <2>1, EachTyped DEF EachInv, HostsBound, RulesBound, NoneExpected, HostPassed
<1>2. ASSUME DaemonInv, HostInv, CountersInv, EachInv, [Next]_vars
      PROVE  EachInv'
  BY <1>2, EachStep
<1>3. ASSUME DaemonInv, CountersInv, EachInv
      PROVE  EachBound
  <2>1. \A ty \in LimitType : Limit[ty].limit + 1 + Extra(ty) =
                              Limit[ty].limit + IF Limit[ty].action = "delete_oldest" THEN 1 ELSE 2
    BY ConfAssumption DEF Extra, LimitConf
  <2>2. \A h \in Host : Cardinality(OfHost(h)) <= HostLimit + 1 + Extra("by_host")
    BY <1>3 DEF CountersInv, CountersExact, EachInv, HostsBound, Hosts
  <2>3. \A r \in Rule : Cardinality(OfRule(r)) <= RuleLimit + 1 + Extra("by_rule")
    BY <1>3 DEF CountersInv, CountersExact, EachInv, RulesBound, Rules
  <2> QED
    BY <2>1, <2>2, <2>3 DEF EachBound, LimitType, HostLimit, RuleLimit
<1>4. Spec => [](HostInv /\ CountersInv)
  BY CountersInvariant
<1> QED
  BY <1>1, <1>2, <1>3, <1>4, DaemonInvariant, PTL DEF Spec

-----------------------------------------------------------------------------
(* Closed events.                                                          *)

\* The events that a thread is about to remove.
Marked == purge \cup cur.gone \cup {e \in {cur.found} : es = "remove"}

ClosedInv == \A e \in events : heap[e].phase = "closed" => e \in Marked

LEMMA ClosedChange ==
  ASSUME StatusTypeOK, ClosedInv, NEW e \in Ref, NEW new, Change(e, new),
         new.phase = "closed" => heap[e].phase = "closed" \/ e \in Marked',
         Marked \subseteq Marked'
  PROVE  ClosedInv'
<1>1. /\ events' = events /\ heap'[e] = new /\ \A f \in Ref : f # e => heap'[f] = heap[f]
      /\ events \subseteq Ref
  BY DEF Change, StatusTypeOK, Ref
<1> QED
  BY <1>1 DEF ClosedInv

LEMMA ClosedNew ==
  ASSUME StatusTypeOK, ClosedInv, NEW ev \in Event, NewEvent(ev),
         ev.phase = "closed" => Len(heap) + 1 \in Marked',
         Marked \cap events \subseteq Marked'
  PROVE  ClosedInv'
<1>1. /\ events' = events \cup {Len(heap) + 1} /\ heap'[Len(heap) + 1] = ev
      /\ \A f \in Ref : heap'[f] = heap[f]
      /\ events \subseteq Ref
  BY AppendOK DEF NewEvent, StatusTypeOK, Ref
<1> QED
  BY <1>1 DEF ClosedInv

LEMMA ClosedSame ==
  ASSUME ClosedInv, heap' = heap, events' \subseteq events, Marked \cap events' \subseteq Marked'
  PROVE  ClosedInv'
  BY DEF ClosedInv

\* Every removal of an event of the list succeeds.
NoKeyError == \A e \in events : ~Uncounted(e)

LEMMA EsCloses ==
  ASSUME DaemonInv, MarkInv, ClosedInv, NoKeyError, EsArrival \/ EsStep
  PROVE  ClosedInv'
<1>0. /\ StatusTypeOK /\ purge' = purge /\ cur \in Message
      /\ es \in Holding => cur.found \in Ref /\ found \in Event
      /\ purge \subseteq events /\ cur.gone \subseteq events /\ events \subseteq Ref
      /\ \A e \in Ref : heap[e] \in Event
      /\ es \notin {"cancelling", "sweep"} => cur.gone = {}
      /\ MarkInv'
  <2>1. purge' = purge
    BY DEF EsArrival, Receive, ReceiveOrphan, EsStep, ArchiveStore, CountRuleMatch, ScanFound,
     ScanSkip, ScanEnd, CountEventUpStep, TestCount, ReachCount, OpenCounted, LogCountReached,
     CloseEvent, RemoveClosed, LimitStep, LimitTake, LimitFails, LimitNotReached,
     LimitDeletesOldest, LimitRefuses, LimitReached, ShrinkOldest, ShrinkEnd, Create, OpenCreated,
     CancelTake, CancelMark, CancelSweep, SweepCancelled, SweepEnd, esElse, hkVars
  <2>2. MarkInv'
    BY EsMarks
  <2> QED
    BY <2>1, <2>2, HeapIsTyped DEF DaemonInv, StatusTypeOK, ThreadTypeOK, RefOK, MarkInv, found
<1> DEFINE Plain == es # "remove" /\ cur.gone = {}
<1>1. Plain => Marked \subseteq Marked'
  BY <1>0 DEF Marked
<1>2. ASSUME UNCHANGED statusVars, Plain
      PROVE  ClosedInv'
  BY <1>1, <1>2, ClosedSame DEF statusVars
<1>3. ASSUME NEW new, es \in Holding, Change(cur.found, new), Plain,
             new.phase = "closed" => found.phase = "closed" \/ cur.found \in Marked'
      PROVE  ClosedInv'
  BY <1>0, <1>1, <1>3, ClosedChange DEF found
<1>4. CASE \/ EsArrival \/ CountRuleMatch \/ ScanFound \/ ScanSkip \/ ScanEnd \/ TestCount
           \/ CancelTake \/ LimitTake
  <2>1. UNCHANGED statusVars /\ es \notin {"remove", "cancelling", "sweep"}
    BY <1>4 DEF EsArrival, Receive, ReceiveOrphan, CountRuleMatch, ScanFound, ScanSkip, ScanEnd,
                TestCount, CancelTake, LimitTake
  <2> QED
    BY <1>0, <1>2, <2>1
<1>5. CASE ArchiveStore
  <2>1. heap' = heap /\ events' = events /\ Plain
    BY <1>0, <1>5 DEF ArchiveStore
  <2> QED
    BY <1>1, <2>1, ClosedSame
<1>6. CASE CountEventUpStep
  <2> DEFINE new == [found EXCEPT !.host = cur.host, !.down = cur.down, !.count = cur.n]
  <2>1. Change(cur.found, new) /\ es \in Holding /\ Plain
    BY <1>0, <1>6 DEF CountEventUpStep, CountEventUp, found, Holding
  <2>2. new.phase = found.phase
    BY <1>0, <2>1 DEF Event
  <2> QED
    BY <1>3, <2>1, <2>2
<1>7. CASE ReachCount
  <2>1. /\ Change(cur.found, [found EXCEPT !.phase = "open"]) /\ es \in Holding /\ Plain
        /\ [found EXCEPT !.phase = "open"].phase = "open"
    BY <1>0, <1>7 DEF ReachCount, Holding, Event
  <2> QED
    BY <1>3, <2>1
<1>8. CASE OpenCounted
  <2> DEFINE new == IF conf.delay THEN [found EXCEPT !.phase = "delayed"]
                                  ELSE [found EXCEPT !.live = NewLive(@, conf)]
  <2>1. Change(cur.found, new) /\ es \in Holding /\ Plain
    BY <1>0, <1>8 DEF OpenCounted, Holding
  <2>2. new.phase = "delayed" \/ new.phase = found.phase
    BY <1>0, <2>1 DEF Event
  <2> HIDE DEF new
  <2> QED
    BY <1>3, <2>1, <2>2
<1>9. CASE LogCountReached
  <2>1. /\ Change(cur.found, [found EXCEPT !.log = "COUNTREACHED"]) /\ es \in Holding /\ Plain
        /\ [found EXCEPT !.log = "COUNTREACHED"].phase = found.phase
    BY <1>0, <1>9 DEF LogCountReached, Holding, Event
  <2> QED
    BY <1>3, <2>1
<1>10. CASE OpenCreated
  <2> DEFINE new == [found EXCEPT !.live = NewLive(@, conf)]
  <2>1. (Change(cur.found, new) \/ UNCHANGED statusVars) /\ es \in Holding /\ Plain
    BY <1>0, <1>10 DEF OpenCreated, Holding
  <2>2. new.phase = found.phase
    BY <1>0, <2>1 DEF Event
  <2> HIDE DEF new
  <2> QED
    BY <1>2, <1>3, <2>1, <2>2
<1>11. CASE CloseEvent
  <2>1. Change(cur.found, [found EXCEPT !.phase = "closed", !.log = "AUTODELETE"])
           /\ es \in Holding /\ Plain /\ es' = "remove" /\ cur' = cur
    BY <1>0, <1>11 DEF CloseEvent, Holding, Goto
  <2>2. cur.found \in Marked'
    BY <2>1 DEF Marked
  <2> QED
    BY <1>3, <2>1, <2>2
<1>12. CASE RemoveClosed
  <2>1. heap' = heap /\ events' = events \ {cur.found} /\ cur.gone = {}
    BY <1>0, <1>12 DEF RemoveClosed, RemoveEvent
  <2>2. Marked \ {cur.found} \subseteq Marked'
    BY <1>0, <2>1 DEF Marked
  <2> QED
    BY <2>1, <2>2, ClosedSame
<1>13. CASE CancelMark
  <2>1. PICK e \in events :
          /\ Change(e, [heap[e] EXCEPT !.phase = "closed", !.log = "CANCELLED"])
          /\ With("cancelling", [cur EXCEPT !.gone = @ \cup {e}])
    BY <1>13 DEF CancelMark
  <2>2. cur'.gone = cur.gone \cup {e} /\ es = "cancelling"
    BY <1>0, <1>13, <2>1 DEF With, Message, CancelMark
  <2>3. Marked \subseteq Marked' /\ e \in Marked'
    BY <1>0, <2>2 DEF Marked
  <2> QED
    BY <1>0, <2>1, <2>3, ClosedChange
<1>14. CASE CancelSweep
  <2>1. UNCHANGED statusVars /\ cur' = cur /\ es = "cancelling"
    BY <1>14 DEF CancelSweep, Goto
  <2>2. Marked \subseteq Marked'
    BY <1>0, <2>1 DEF Marked
  <2> QED
    BY <2>1, <2>2, ClosedSame DEF statusVars
<1>15. CASE SweepCancelled
  <2>1. PICK e \in Last(cur.gone) :
          /\ RemoveEvent(e)
          /\ Uncounted(e) \/ With("sweep", [cur EXCEPT !.gone = @ \ {e}])
    BY <1>15 DEF SweepCancelled
  <2>2. ~Uncounted(e)
    BY <1>0 DEF NoKeyError, Last
  <2>3. cur'.gone = cur.gone \ {e} /\ es = "sweep" /\ heap' = heap /\ events' = events \ {e}
    BY <1>0, <1>15, <2>1, <2>2 DEF With, Message, SweepCancelled, RemoveEvent
  <2>4. Marked \ {e} \subseteq Marked'
    BY <1>0, <2>3 DEF Marked
  <2> QED
    BY <2>3, <2>4, ClosedSame
<1>16. CASE SweepEnd
  <2>1. UNCHANGED statusVars /\ Plain
    BY <1>16 DEF SweepEnd
  <2> QED
    BY <1>2, <2>1
<1>17. ASSUME NEW ty \in LimitType,
              LimitFails(ty) \/ LimitNotReached(ty) \/ LimitDeletesOldest(ty) \/ LimitRefuses(ty)
       PROVE  ClosedInv'
  <2>1. UNCHANGED statusVars /\ es = ty
    BY <1>17 DEF LimitFails, LimitNotReached, LimitDeletesOldest, LimitRefuses
  <2>2. Plain
    BY <1>0, <2>1 DEF LimitType
  <2> QED
    BY <1>2, <2>1, <2>2
<1>18. ASSUME NEW ty \in LimitType, LimitReached(ty)
       PROVE  ClosedInv'
  <2>1. es = ty /\ (NewEvent(Overflow(ty)) \/ UNCHANGED statusVars)
    BY <1>18 DEF LimitReached
  <2>2. Plain
    BY <1>0, <2>1 DEF LimitType
  <2>3. Overflow(ty) \in Event
    BY <1>0, FreshIsEvent DEF Overflow, LimitType, Rules, Hosts, Phase, Message
  <2>4. Overflow(ty).phase = "open"
    BY DEF Overflow, LimitType, Fresh
  <2> QED
    BY <1>0, <1>1, <1>2, <2>1, <2>2, <2>3, <2>4, ClosedNew
<1>19. CASE ShrinkOldest
  <2>1. Plain /\ heap' = heap
    BY <1>0, <1>19 DEF ShrinkOldest, RemoveEvent, statusVars
  <2>2. events' \subseteq events
    BY <1>19 DEF ShrinkOldest, RemoveEvent, statusVars
  <2> QED
    BY <1>1, <2>1, <2>2, ClosedSame
<1>20. CASE ShrinkEnd
  <2>1. UNCHANGED statusVars /\ es = "shrink"
    BY <1>20 DEF ShrinkEnd
  <2> QED
    BY <1>0, <1>2, <2>1
<1>21. CASE Create
  <2>1. es = "create" /\ NewEvent(Fresh(cur.rule, cur.host, FirstPhase, cur.down))
    BY <1>21 DEF Create
  <2>2. FirstPhase \in Phase /\ FirstPhase # "closed"
    BY <1>0 DEF FirstPhase, Phase
  <2>3. /\ Fresh(cur.rule, cur.host, FirstPhase, cur.down) \in Event
        /\ Fresh(cur.rule, cur.host, FirstPhase, cur.down).phase = FirstPhase
    <3>1. Fresh(cur.rule, cur.host, FirstPhase, cur.down) \in Event
      BY <1>0, <2>2, FreshIsEvent DEF Message
    <3> QED
      BY <3>1 DEF Fresh
  <2> QED
    BY <1>0, <1>1, <2>1, <2>2, <2>3, ClosedNew
<1> QED
  BY <1>4, <1>5, <1>6, <1>7, <1>8, <1>9, <1>10, <1>11, <1>12, <1>13, <1>14, <1>15, <1>16, <1>17,
     <1>18, <1>19, <1>20, <1>21 DEF EsStep, LimitStep

LEMMA HkCloses ==
  ASSUME DaemonInv, MarkInv, ClosedInv, NoKeyError, HkStart \/ HkStep
  PROVE  ClosedInv'
<1>0. /\ StatusTypeOK /\ UNCHANGED <<es, cur>>
      /\ purge \subseteq events /\ events \subseteq Ref
      /\ \A e \in Ref : heap[e] \in Event
      /\ \A r \in active : r \in Rules /\ rules[r] \in RuleConf
      /\ hk \notin {"timeouts", "drop"} => purge = {}
      /\ hk = "timeouts" => todo \subseteq events
      /\ hk = "expect" => todo \subseteq active
  <2>1. UNCHANGED <<es, cur>>
    BY DEF HkStart, HkStep, HkTimeout, HkTimeoutsEnd, HkDrop, HkDropEnd, HkExpectNotDue, HkExpect,
           HkExpectEnd, HkDowntime, HkEnd, hkElse, esVars
  <2>2. \A r \in active : r \in Rules /\ rules[r] \in RuleConf
    BY ConfIsTyped DEF DaemonInv, Rules
  <2> QED
    BY <2>1, <2>2, HeapIsTyped DEF DaemonInv, StatusTypeOK, RefOK, MarkInv
<1>1. \A S : purge \subseteq purge' \cup S => Marked \subseteq Marked' \cup S
  BY <1>0 DEF Marked
<1>2. CASE HkStart \/ HkTimeoutsEnd \/ HkDropEnd \/ HkExpectNotDue \/ HkExpectEnd \/ HkEnd
  <2>1. UNCHANGED statusVars /\ purge \subseteq purge'
    BY <1>0, <1>2 DEF HkStart, HkTimeoutsEnd, HkDropEnd, HkExpectNotDue, HkExpectEnd, HkEnd, HkLeave
  <2> QED
    BY <1>1, <2>1, ClosedSame DEF statusVars
<1>3. CASE HkTimeout
  <2>1. PICK e \in First(todo) : \/ TimeoutCounting(e) \/ TimeoutDelayed(e) \/ TimeoutLivetime(e)
                                 \/ NotDue
    BY <1>3 DEF HkTimeout
  <2>2. e \in Ref /\ heap[e] \in Event
    BY <1>0, <1>3 DEF HkTimeout, First
  <2>3. ASSUME NEW w, Close(e, w)
        PROVE  ClosedInv'
    <3>1. Marked \subseteq Marked' /\ e \in Marked'
      BY <1>1, <2>3 DEF Close, Marked
    <3> QED
      BY <1>0, <2>2, <2>3, <3>1, ClosedChange DEF Close
  <2>4. ASSUME NEW new, Change(e, new), new.phase \in {"open", heap[e].phase}, purge' = purge
        PROVE  ClosedInv'
    <3>1. Marked \subseteq Marked'
      BY <1>1, <2>4
    <3> QED
      BY <1>0, <2>2, <2>4, <3>1, ClosedChange
  <2>5. CASE NotDue
    BY <1>1, <2>5, ClosedSame DEF NotDue, statusVars
  <2>6. CASE LoseTokens(e)
    <3>1. PICK c \in 0..heap[e].count :
            IF c = 0
            THEN /\ Change(e, [heap[e] EXCEPT !.count = 0, !.phase = "closed", !.log = "COUNTFAILED"])
                 /\ purge' = purge \cup {e}
            ELSE Change(e, [heap[e] EXCEPT !.count = c]) /\ UNCHANGED purge
      BY <2>6 DEF LoseTokens
    <3>2. CASE c = 0
      <4>1. Marked \subseteq Marked' /\ e \in Marked'
        BY <1>1, <3>1, <3>2 DEF Marked
      <4> QED
        BY <1>0, <2>2, <3>1, <3>2, <4>1, ClosedChange
    <3>3. CASE c # 0
      <4>1. [heap[e] EXCEPT !.count = c].phase = heap[e].phase
        BY <2>2 DEF Event
      <4> QED
        BY <2>4, <3>1, <3>3, <4>1
    <3> QED
      BY <3>2, <3>3
  <2>7. CASE TimeoutCounting(e)
    <3>1. (\E w : Close(e, w)) \/ LoseTokens(e) \/ NotDue
      BY <2>7 DEF TimeoutCounting, NotDue
    <3> QED
      BY <2>3, <2>5, <2>6, <3>1
  <2>8. CASE TimeoutDelayed(e)
    <3> DEFINE opened == [heap[e] EXCEPT !.phase = "open", !.log = "DELAYOVER"]
               new == [opened EXCEPT !.live = NewLive(@, rules[heap[e].rule])]
    <3>1. Close(e, "AUTODELETE") \/ ((Change(e, opened) \/ Change(e, new)) /\ purge' = purge)
      BY <2>8 DEF TimeoutDelayed
    <3>2. opened.phase = "open" /\ new.phase = "open"
      BY <2>2 DEF Event
    <3> HIDE DEF opened, new
    <3> QED
      BY <2>3, <2>4, <3>1, <3>2
  <2> QED
    BY <2>1, <2>3, <2>5, <2>7, <2>8 DEF TimeoutLivetime
<1>4. CASE HkDrop
  <2>1. PICK e \in Last(purge) :
          /\ RemoveEvent(e)
          /\ (Uncounted(e) /\ e \in events) \/ purge' = purge \ {e}
    BY <1>4 DEF HkDrop
  <2>2. purge' = purge \ {e} /\ heap' = heap /\ events' = events \ {e}
    BY <2>1 DEF NoKeyError, RemoveEvent
  <2>3. Marked \subseteq Marked' \cup {e}
    BY <1>1, <2>2
  <2> QED
    BY <2>2, <2>3, ClosedSame
<1>5. CASE HkExpect
  <2>0. purge = {} /\ Marked \subseteq Marked'
    BY <1>0, <1>1, <1>5 DEF HkExpect
  <2>1. PICK r \in todo :
          \/ \E e \in Counted(r) : Change(e, [heap[e] EXCEPT !.log = "COUNTREACHED"])
          \/ \E m \in First(Mergeable(r)) :
               Change(m, [heap[m] EXCEPT !.phase = "open", !.log = "COUNTFAILED", !.count = @ + 1])
          \/ /\ NewEvent([Fresh(r, NoHost, IF rules[r].autodelete THEN "closed" ELSE "open", FALSE)
                          EXCEPT !.log = IF rules[r].autodelete THEN "AUTODELETE" ELSE "COUNTFAILED",
                                 !.live = rules[r].livetime])
             /\ purge' = Counted(r) \cup IF rules[r].autodelete THEN {Len(heap) + 1} ELSE {}
    BY <1>5 DEF HkExpect
  <2>2. r \in Rules /\ rules[r] \in RuleConf /\ NoHost \in Hosts
    BY <1>0, <1>5 DEF HkExpect, Hosts
  <2>3. ASSUME NEW e \in Counted(r), Change(e, [heap[e] EXCEPT !.log = "COUNTREACHED"])
        PROVE  ClosedInv'
    <3>1. e \in Ref
      BY <1>0 DEF Counted, Counting, First, OfRule
    <3>2. [heap[e] EXCEPT !.log = "COUNTREACHED"].phase = heap[e].phase
      BY <1>0, <3>1 DEF Event
    <3> QED
      BY <1>0, <2>0, <2>3, <3>1, <3>2, ClosedChange
  <2>4. ASSUME NEW m \in First(Mergeable(r)),
               Change(m, [heap[m] EXCEPT !.phase = "open", !.log = "COUNTFAILED", !.count = @ + 1])
        PROVE  ClosedInv'
    <3>1. m \in Ref
      BY <1>0 DEF Mergeable, First, OfRule
    <3>2. [heap[m] EXCEPT !.phase = "open", !.log = "COUNTFAILED", !.count = @ + 1].phase = "open"
      BY <1>0, <3>1 DEF Event
    <3> QED
      BY <1>0, <2>0, <2>4, <3>1, <3>2, ClosedChange
  <2>5. ASSUME NEW p \in Phase, NEW w \in What,
               NewEvent([Fresh(r, NoHost, p, FALSE) EXCEPT !.log = w, !.live = rules[r].livetime]),
               p = "closed" => Len(heap) + 1 \in purge'
        PROVE  ClosedInv'
    <3> DEFINE f == Fresh(r, NoHost, p, FALSE)
               new == [f EXCEPT !.log = w, !.live = rules[r].livetime]
    <3>1. f \in Event /\ f.phase = p
      <4>1. f \in Event
        BY <1>0, <2>2, FreshIsEvent
      <4> QED
        BY <4>1 DEF Fresh
    <3>2. rules[r].livetime \in SUBSET {"open", "ack"} /\ NewEvent(new)
      BY <2>2, <2>5 DEF RuleConf
    <3> HIDE DEF f
    <3>3. new \in Event /\ new.phase = p
      BY <3>1, <3>2 DEF Event
    <3>4. p = "closed" => Len(heap) + 1 \in Marked'
      BY <2>5 DEF Marked
    <3> QED
      BY <1>0, <2>0, <3>2, <3>3, <3>4, ClosedNew
  <2>6. CASE /\ NewEvent([Fresh(r, NoHost, IF rules[r].autodelete THEN "closed" ELSE "open", FALSE)
                          EXCEPT !.log = IF rules[r].autodelete THEN "AUTODELETE" ELSE "COUNTFAILED",
                                 !.live = rules[r].livetime])
             /\ purge' = Counted(r) \cup IF rules[r].autodelete THEN {Len(heap) + 1} ELSE {}
    <3>1. CASE rules[r].autodelete
      BY <2>5, <2>6, <3>1 DEF Phase, What
    <3>2. CASE ~rules[r].autodelete
      BY <2>5, <2>6, <3>2 DEF Phase, What
    <3> QED
      BY <3>1, <3>2
  <2> QED
    BY <2>1, <2>3, <2>4, <2>6
<1>6. CASE HkDowntime
  <2>1. purge = {} /\ heap' = heap /\ events' \subseteq events
    BY <1>0, <1>6 DEF HkDowntime, RemoveEvent, statusVars
  <2> QED
    BY <1>1, <2>1, ClosedSame
<1> QED
  BY <1>2, <1>3, <1>4, <1>5, <1>6 DEF HkStep

LEMMA CommandCloses ==
  ASSUME DaemonInv, ClosedInv, CommandStep
  PROVE  ClosedInv'
<1>0. /\ StatusTypeOK /\ Marked' = Marked
      /\ events \subseteq Ref /\ Named \subseteq events /\ \A e \in Ref : heap[e] \in Event
  <2>1. UNCHANGED <<es, cur, purge>>
    BY DEF CommandStep, CommandDelete, CommandUpdate, CommandChangestate, CommandFlush,
           CommandReload, Sighup, cmdElse, hkVars, esVars
  <2> QED
    BY <2>1, HeapIsTyped DEF DaemonInv, StatusTypeOK, Named, Marked
<1>1. CASE CommandDelete
  <2> PICK e \in Named : DeleteEvent(e)
    BY <1>1 DEF CommandDelete
  <2>1. events' = events \ {e} /\ \A f \in Ref : f # e => heap'[f] = heap[f]
    BY <1>0 DEF DeleteEvent, StatusTypeOK, Ref
  <2> QED
    BY <1>0, <2>1 DEF ClosedInv
<1>2. CASE CommandUpdate
  <2> PICK e \in Named, ack \in {"", "0", "1"} :
          Change(e, [heap[e] EXCEPT !.log = "UPDATE", !.phase = CASE ack = "" -> @
                                                                  [] ack = "0" -> "open"
                                                                  [] ack = "1" -> "ack"])
    BY <1>2 DEF CommandUpdate
  <2> DEFINE p == CASE ack = "" -> heap[e].phase [] ack = "0" -> "open" [] ack = "1" -> "ack"
             new == [heap[e] EXCEPT !.log = "UPDATE", !.phase = p]
  <2>1. e \in Ref /\ Change(e, new) /\ p \in {heap[e].phase, "open", "ack"}
    BY <1>0
  <2> HIDE DEF p
  <2>2. new.phase = p
    BY <1>0, <2>1 DEF Event
  <2> QED
    BY <1>0, <2>1, <2>2, ClosedChange
<1>3. CASE CommandChangestate
  <2> PICK e \in Named : Change(e, [heap[e] EXCEPT !.log = "CHANGESTATE"])
    BY <1>3 DEF CommandChangestate
  <2>1. e \in Ref /\ [heap[e] EXCEPT !.log = "CHANGESTATE"].phase = heap[e].phase
    BY <1>0 DEF Event
  <2> QED
    BY <1>0, <2>1, ClosedChange
<1>4. CASE CommandFlush
  BY <1>4 DEF CommandFlush, Flush, ClosedInv
<1>5. CASE CommandReload \/ Sighup
  BY <1>0, <1>5, ClosedSame DEF CommandReload, Sighup, statusVars
<1> QED
  BY <1>1, <1>2, <1>3, <1>4, <1>5 DEF CommandStep

LEMMA ClosedStep ==
  ASSUME DaemonInv, MarkInv, NoKeyError, ClosedInv, [Next]_vars
  PROVE  ClosedInv'
<1>1. CASE UNCHANGED vars
  <2>1. Marked' = Marked
    BY <1>1 DEF vars, threadVars, Marked
  <2> QED
    BY <1>1, <2>1, ClosedSame DEF vars, statusVars
<1> QED
  BY <1>1, EsCloses, HkCloses, CommandCloses DEF Next

\* If the counting rules separate hosts and no rule expects messages, then
\* between two messages and two runs of the housekeeping no closed event is
\* left in the list: each one is marked until it is removed, and no removal
\* is cut short by a KeyError, even if a user updates the event meanwhile.
THEOREM ClosedAreRemoved == SeparateHosts => (Spec => []NoClosedLeft)
<1> SUFFICES ASSUME SeparateHosts
             PROVE  Spec => []NoClosedLeft
  OBVIOUS
<1>1. CountersInv => NoKeyError
  BY DEF CountersInv, NoKeyError
<1>2. Init => ClosedInv
  BY DEF Init, StatusInit, ClosedInv
<1>3. MarkInv /\ ClosedInv => NoClosedLeft
  BY DEF MarkInv, ClosedInv, NoClosedLeft, Marked
<1> QED
  BY <1>1, <1>2, <1>3, ClosedStep, DaemonInvariant, MarkInvariant, CountersInvariant, PTL DEF Spec
-----------------------------------------------------------------------------
(* The history entries of removed events.                                  *)

\* The configuration is loaded once, and nobody writes into the history of an
\* event that is about to be removed.
Settled ==
  /\ \A R, S \in RuleSets : R = S
  /\ Commands \cap {"UPDATE", "CHANGESTATE"} = {}

\* The EventServer works with the rule that is loaded, and counts to an event
\* of this rule; the loops of the housekeeping do not look at an event again
\* that they have marked, and expect messages for expecting rules only.
CountsTo == {"countup", "test", "reach", "opened"}

EsRule ==
  /\ es \notin {"idle", "archive"} => cur.rule \in active /\ conf = rules[cur.rule]
  /\ es \in {"scan", "countup"} => conf.kind \in {"count", "expect"}
  /\ es \in {"test", "reach", "opened"} => conf.kind = "count"
  /\ es \in CountsTo => found.rule = cur.rule

HkRule ==
  /\ hk = "timeouts" => purge \cap todo = {}
  /\ hk \in {"drop", "expect"} => \A r \in todo : rules[r].kind = "expect"

\* An event that may be removed: its history says why, or it is the counting
\* event of an expecting rule.
Excused(e) ==
  \/ heap[e].log \in Final
  \/ /\ heap[e].phase = "counting" /\ heap[e].rule \in active
     /\ rules[heap[e].rule].kind = "expect"

LogInv ==
  /\ \A e \in purge \cup cur.gone : Excused(e)
  /\ es = "remove" => found.phase = "closed" /\ found.log \in Final

\* No operation changes the rule of an event.
LEMMA RulesStay ==
  ASSUME DaemonInv, [Next]_vars
  PROVE  \A e \in Ref : heap'[e].rule = heap[e].rule
<1>0. StatusTypeOK /\ \A e \in Ref : heap[e] \in Event
  BY HeapIsTyped DEF DaemonInv
<1>1. CASE New
  <2>1. heap' = Append(heap, heap'[Len(heap) + 1]) /\ heap \in Seq(Event)
        /\ heap'[Len(heap) + 1] \in Event
    BY <1>0, <1>1 DEF New, NewEvent, StatusTypeOK
  <2> DEFINE ev == heap'[Len(heap) + 1]
  <2>2. heap' = Append(heap, ev) /\ ev \in Event
    BY <2>1
  <2> HIDE DEF ev
  <2> QED
    BY <2>1, <2>2, AppendOK DEF Ref
<1>2. CASE Delete
  <2> PICK e \in Ref : DeleteEvent(e)
    BY <1>2 DEF Delete
  <2> DEFINE new == [heap[e] EXCEPT !.phase = "closed", !.log = "DELETE"]
  <2>1. heap' = [heap EXCEPT ![e] = new] /\ new.rule = heap[e].rule
    BY <1>0 DEF DeleteEvent, Event
  <2> HIDE DEF new
  <2> QED
    BY <1>0, <2>1 DEF StatusTypeOK, Ref
<1>3. ASSUME NEW e \in Ref, NEW new, Change(e, new), new.rule = heap[e].rule
      PROVE  \A f \in Ref : heap'[f].rule = heap[f].rule
  BY <1>0, <1>3 DEF Change, StatusTypeOK, Ref
<1>5. CASE Touch
  <2> PICK e \in Ref : heap'[e].rule = heap[e].rule /\ Change(e, heap'[e])
    BY <1>5 DEF Touch
  <2> QED
    BY <1>3
<1>6. CASE CountUp
  <2> PICK e \in Ref, h \in Hosts, d \in BOOLEAN : CountEventUp(e, h, d, heap'[e].count)
    BY <1>6 DEF CountUp
  <2> DEFINE new == [heap[e] EXCEPT !.host = h, !.down = d, !.count = heap'[e].count]
  <2>1. Change(e, new) /\ new.rule = heap[e].rule
    BY <1>0 DEF CountEventUp, Event
  <2> HIDE DEF new
  <2> QED
    BY <1>3, <2>1
<1>4. CASE Remove \/ ArchiveEvent \/ Flush \/ UNCHANGED statusVars \/ ArchiveStore
  BY <1>4 DEF Remove, RemoveEvent, ArchiveEvent, Flush, statusVars, ArchiveStore
<1> QED
  BY <1>1, <1>2, <1>4, <1>5, <1>6, DaemonStoreStep DEF StoreStep, StatusNext

LEMMA RulesAreSettled ==
  ASSUME Settled, DaemonInv, [Next]_vars
  PROVE  rules' = rules
<1>1. rules \in RuleSets /\ rules' \in RuleSets
  BY DaemonInvStep DEF DaemonInv, ThreadTypeOK
<1> QED
  BY <1>1 DEF Settled

LEMMA EsRuleStep ==
  ASSUME Settled, DaemonInv, EsRule, [Next]_vars
  PROVE  EsRule'
<1>0. /\ rules' = rules /\ active' = active
      /\ \A e \in Ref : heap'[e].rule = heap[e].rule
      /\ cur \in Message /\ NoMessage \in Message
      /\ es \in CountsTo => cur.found \in Ref
  <2>1. rules' = rules
    BY RulesAreSettled
  <2> QED
    BY <2>1, RulesStay, NoMessageOK DEF DaemonInv, ThreadTypeOK, RefOK, Holding, CountsTo, active
<1>1. ASSUME es \notin {"idle", "archive"}, cur'.rule = cur.rule, cur'.conf = cur.conf,
             es' \notin CountsTo \cup {"scan"}
      PROVE  EsRule'
  BY <1>0, <1>1 DEF EsRule, conf, CountsTo
<1>2. ASSUME es' = "idle"
      PROVE  EsRule'
  BY <1>2 DEF EsRule, CountsTo
<1>3. ASSUME UNCHANGED <<es, cur>>
      PROVE  EsRule'
  <2>1. es \in CountsTo => heap'[cur.found].rule = heap[cur.found].rule
    BY <1>0
  <2> QED
    BY <1>0, <1>3, <2>1 DEF EsRule, conf, found
<1>4. ASSUME es \in CountsTo, cur' = cur, es' \in {"test", "reach", "opened"}, conf.kind = "count"
      PROVE  EsRule'
  <2>1. heap'[cur.found].rule = heap[cur.found].rule
    BY <1>0, <1>4
  <2> QED
    BY <1>0, <1>4, <2>1 DEF EsRule, conf, found, CountsTo
<1>5. CASE Receive
  <2>1. PICK r \in active, h \in Host, d \in BOOLEAN :
          cur' = [NoMessage EXCEPT !.rule = r, !.conf = rules[r], !.host = h, !.down = d]
    BY <1>5 DEF Receive
  <2>2. cur'.rule = r /\ cur'.conf = rules[r] /\ es' = "matched"
    BY <1>0, <1>5, <2>1 DEF Message, Receive
  <2> QED
    BY <1>0, <2>2 DEF EsRule, conf, CountsTo
<1>6. CASE ReceiveOrphan
  <2>1. UNCHANGED <<es, cur>> \/ es' = "archive"
    BY <1>6 DEF ReceiveOrphan
  <2>2. es' = "archive" => EsRule'
    BY DEF EsRule, CountsTo
  <2> QED
    BY <1>3, <2>1, <2>2
<1>7. CASE CountRuleMatch
  <2>1. /\ es = "matched"
        /\ \/ es' = "idle"
           \/ es' \in {"cancel", "limit"} /\ cur' = cur
           \/ es' = "scan" /\ cur' = cur /\ conf.kind \in {"count", "expect"}
    BY <1>7 DEF CountRuleMatch, Goto, Done
  <2>2. CASE es' = "scan" /\ cur' = cur /\ conf.kind \in {"count", "expect"}
    BY <1>0, <2>1, <2>2 DEF EsRule, conf, CountsTo
  <2> QED
    BY <1>1, <1>2, <2>1, <2>2 DEF CountsTo
<1>8. CASE ScanFound
  <2>1. PICK e \in events : /\ Counts(e)
                            /\ With("countup", [cur EXCEPT !.found = e, !.n = heap[e].count + 1])
    BY <1>8 DEF ScanFound
  <2>2. /\ cur'.found = e /\ cur'.rule = cur.rule /\ cur'.conf = cur.conf /\ es' = "countup"
        /\ heap' = heap /\ es = "scan"
    BY <1>0, <1>8, <2>1 DEF With, Message, ScanFound, statusVars
  <2>3. heap[e].rule = cur.rule
    BY <2>1 DEF Counts
  <2> QED
    BY <1>0, <2>2, <2>3 DEF EsRule, conf, found, CountsTo
<1>9. CASE ScanSkip
  <2>1. cur'.rule = cur.rule /\ cur'.conf = cur.conf /\ es = "scan" /\ es' = "scan"
    BY <1>0, <1>9 DEF ScanSkip, With, Message
  <2> QED
    BY <1>0, <2>1 DEF EsRule, conf, CountsTo
<1>10. CASE CountEventUpStep
  <2>1. /\ es = "countup"
        /\ es' = "idle" \/ (es' = "test" /\ cur' = cur /\ conf.kind # "expect")
    BY <1>10 DEF CountEventUpStep, Goto, Done
  <2> QED
    BY <1>2, <1>4, <2>1 DEF EsRule, CountsTo
<1>11. CASE TestCount \/ ReachCount
  <2>1. /\ es \in {"test", "reach"}
        /\ es' = "idle" \/ (es' \in {"reach", "opened"} /\ cur' = cur)
    BY <1>11 DEF TestCount, ReachCount, Goto, Done
  <2> QED
    BY <1>2, <1>4, <2>1 DEF EsRule, CountsTo
<1>12. CASE \/ ScanEnd \/ OpenCounted \/ LogCountReached \/ CloseEvent \/ OpenCreated \/ RemoveClosed
            \/ ArchiveStore \/ CancelTake \/ CancelSweep \/ SweepEnd \/ LimitTake
  <2>1. \/ es' = "idle"
        \/ /\ cur' = cur /\ es \notin {"idle", "archive"}
           /\ es' \in {"limit", "reached", "close", "remove", "cancelling", "sweep", "overall"}
    BY <1>12 DEF ScanEnd, OpenCounted, LogCountReached, CloseEvent, OpenCreated, RemoveClosed,
       ArchiveStore, CancelTake, CancelSweep, SweepEnd, LimitTake, Goto, Leave, Done
  <2> QED
    BY <1>1, <1>2, <2>1 DEF CountsTo
<1>13. CASE CancelMark \/ SweepCancelled
  <2>1. \/ es' = "idle"
        \/ /\ \E g : cur' = [cur EXCEPT !.gone = g]
           /\ es \in {"cancelling", "sweep"} /\ es' \in {"cancelling", "sweep"}
    BY <1>13 DEF CancelMark, SweepCancelled, With, Leave, Done
  <2>2. es' # "idle" => cur'.rule = cur.rule /\ cur'.conf = cur.conf
    BY <1>0, <2>1 DEF Message
  <2> QED
    BY <1>1, <1>2, <2>1, <2>2 DEF CountsTo
<1>14. CASE \E ty \in LimitType : \/ LimitFails(ty) \/ LimitNotReached(ty) \/ LimitDeletesOldest(ty)
                                  \/ LimitRefuses(ty) \/ LimitReached(ty)
  <2>1. PICK ty \in LimitType : \/ LimitFails(ty) \/ LimitNotReached(ty) \/ LimitDeletesOldest(ty)
                                \/ LimitRefuses(ty) \/ LimitReached(ty)
    BY <1>14
  <2>2. After(ty) \in {"by_host", "by_rule", "create"} /\ ty \notin {"idle", "archive"}
    BY DEF After, LimitType
  <2>3. /\ es = ty
        /\ \/ es' = "idle"
           \/ cur' = cur /\ es' = After(ty)
           \/ (\E n : cur' = [cur EXCEPT !.ty = ty, !.n = n]) /\ es' = "shrink"
    BY <2>1 DEF LimitFails, LimitNotReached, LimitDeletesOldest, LimitRefuses, LimitReached,
                Goto, With, Leave, Done
  <2>4. es' # "idle" => cur'.rule = cur.rule /\ cur'.conf = cur.conf
    BY <1>0, <2>3 DEF Message
  <2> QED
    BY <1>1, <1>2, <2>2, <2>3, <2>4 DEF CountsTo
<1>15. CASE ShrinkOldest \/ ShrinkEnd
  <2>1. After(cur.ty) \in {"by_host", "by_rule", "create"}
    BY <1>0 DEF After, Message, LimitType
  <2>2. /\ es = "shrink"
        /\ \/ es' = "idle"
           \/ cur' = cur /\ es' = After(cur.ty)
           \/ (\E n : cur' = [cur EXCEPT !.n = n]) /\ es' = "shrink"
    BY <1>15 DEF ShrinkOldest, ShrinkEnd, Goto, With, Leave, Done
  <2>3. es' # "idle" => cur'.rule = cur.rule /\ cur'.conf = cur.conf
    BY <1>0, <2>2 DEF Message
  <2> QED
    BY <1>1, <1>2, <2>1, <2>2, <2>3 DEF CountsTo
<1>16. CASE Create
  <2> DEFINE new == Fresh(cur.rule, cur.host, FirstPhase, cur.down)
  <2>1. /\ es = "create" /\ NewEvent(new)
        /\ \/ es' = "idle"
           \/ /\ es' = "test" /\ conf.kind = "count"
              /\ cur' = [cur EXCEPT !.found = Len(heap) + 1]
           \/ es' = "created" /\ cur' = [cur EXCEPT !.found = Len(heap) + 1]
    BY <1>16 DEF Create, With, Done
  <2>2. StatusTypeOK /\ FirstPhase \in Phase
    BY DEF DaemonInv, FirstPhase, Phase
  <2>3. new \in Event /\ new.rule = cur.rule
    <3>1. new \in Event
      BY <1>0, <2>2, FreshIsEvent DEF Message
    <3> QED
      BY <3>1 DEF Fresh
  <2> HIDE DEF new
  <2>4. heap'[Len(heap) + 1] = new
    BY <2>1, <2>2, <2>3, AppendOK DEF NewEvent, StatusTypeOK
  <2>5. es' # "idle" => /\ cur'.rule = cur.rule /\ cur'.conf = cur.conf
                        /\ cur'.found = Len(heap) + 1
    BY <1>0, <2>1, <2>2 DEF Message, StatusTypeOK
  <2>6. CASE es' = "test"
    BY <1>0, <2>1, <2>3, <2>4, <2>5, <2>6 DEF EsRule, conf, found, CountsTo
  <2> QED
    BY <1>1, <1>2, <2>1, <2>5, <2>6 DEF CountsTo
<1>17. CASE HkStart \/ HkStep \/ CommandStep \/ UNCHANGED vars
  <2>1. UNCHANGED <<es, cur>>
    BY <1>17 DEF HkStart, HkStep, HkTimeout, HkTimeoutsEnd, HkDrop, HkDropEnd, HkExpectNotDue,
       HkExpect, HkExpectEnd, HkDowntime, HkEnd, CommandStep, CommandDelete, CommandUpdate,
       CommandChangestate, CommandFlush, CommandReload, Sighup, hkElse, cmdElse, esVars,
       vars, threadVars
  <2> QED
    BY <1>3, <2>1
<1> QED
  BY <1>5, <1>6, <1>7, <1>8, <1>9, <1>10, <1>11, <1>12, <1>13, <1>14, <1>15, <1>16, <1>17
  DEF Next, EsArrival, EsStep, LimitStep

LEMMA HkRuleStep ==
  ASSUME Settled, DaemonInv, MarkInv, HkRule, [Next]_vars
  PROVE  HkRule'
<1>0. rules' = rules
  BY RulesAreSettled
<1>1. CASE EsArrival \/ EsStep \/ CommandStep \/ UNCHANGED vars
  <2>1. UNCHANGED <<hk, todo, purge>>
    BY <1>1 DEF EsArrival, Receive, ReceiveOrphan, EsStep, ArchiveStore, CountRuleMatch, ScanFound,
     ScanSkip, ScanEnd, CountEventUpStep, TestCount, ReachCount, OpenCounted, LogCountReached,
     CloseEvent, RemoveClosed, LimitStep, LimitTake, LimitFails, LimitNotReached,
     LimitDeletesOldest, LimitRefuses, LimitReached, ShrinkOldest, ShrinkEnd, Create, OpenCreated,
     CancelTake, CancelMark, CancelSweep, SweepCancelled, SweepEnd, esElse, hkVars,
     CommandStep, CommandDelete, CommandUpdate, CommandChangestate, CommandFlush, CommandReload,
     Sighup, cmdElse, vars, threadVars
  <2> QED
    BY <1>0, <2>1 DEF HkRule
<1>2. CASE HkStart
  BY <1>2 DEF HkStart, HkRule, MarkInv
<1>3. CASE HkTimeout
  <2>1. PICK e \in First(todo) : /\ todo' = todo \ {e}
                                 /\ \/ TimeoutCounting(e) \/ TimeoutDelayed(e)
                                    \/ TimeoutLivetime(e) \/ NotDue
    BY <1>3 DEF HkTimeout
  <2>2. purge' \subseteq purge \cup {e}
    BY <2>1 DEF TimeoutCounting, TimeoutDelayed, TimeoutLivetime, NotDue, LoseTokens, Close
  <2> QED
    BY <1>3, <2>1, <2>2 DEF HkTimeout, HkRule
<1>4. CASE HkTimeoutsEnd
  BY <1>0, <1>4 DEF HkTimeoutsEnd, HkRule
<1>5. CASE HkDrop \/ HkDropEnd \/ HkExpectNotDue \/ HkExpect \/ HkExpectEnd \/ HkDowntime \/ HkEnd
  <2>1. hk' # "timeouts" /\ (hk' \in {"drop", "expect"} => hk \in {"drop", "expect"} /\ todo' \subseteq todo)
    BY <1>5 DEF HkDrop, HkDropEnd, HkExpectNotDue, HkExpect, HkExpectEnd, HkDowntime, HkEnd,
                HkNext, HkLeave
  <2> QED
    BY <1>0, <2>1 DEF HkRule
<1> QED
  BY <1>1, <1>2, <1>3, <1>4, <1>5 DEF Next, HkStep

\* The events that are marked, but for the one that the EventServer deletes.
Queued == purge \cup cur.gone

LEMMA LogSame ==
  ASSUME LogInv, rules' = rules, Queued' \subseteq Queued,
         \A e \in Queued : heap'[e] = heap[e],
         es' = "remove" => /\ es = "remove" /\ cur'.found = cur.found
                           /\ heap'[cur.found] = heap[cur.found]
  PROVE  LogInv'
  BY DEF LogInv, Queued, Excused, found, active

\* A change of one event: if it is marked, its history says why.
LEMMA LogChange ==
  ASSUME StatusTypeOK, LogInv, rules' = rules, Queued \subseteq Ref,
         NEW e \in Ref, NEW new, Change(e, new),
         Queued' \subseteq Queued \cup {e},
         e \in Queued' => \/ new.log \in Final
                          \/ /\ new.phase = "counting" /\ new.rule \in active
                             /\ rules[new.rule].kind = "expect",
         es' = "remove" => /\ cur'.found \in Ref
                           /\ cur'.found = e => new.phase = "closed" /\ new.log \in Final
                           /\ cur'.found # e => es = "remove" /\ cur'.found = cur.found
  PROVE  LogInv'
<1>1. heap'[e] = new /\ \A f \in Ref : f # e => heap'[f] = heap[f]
  BY DEF Change, StatusTypeOK, Ref
<1> QED
  BY <1>1 DEF LogInv, Queued, Excused, found, active

LEMMA EsLogs ==
  ASSUME Settled, DaemonInv, MarkInv, EsRule, LogInv, EsArrival \/ EsStep
  PROVE  LogInv'
<1>0. /\ StatusTypeOK /\ purge' = purge /\ rules' = rules /\ cur \in Message
      /\ NoMessage \in Message /\ NoMessage.gone = {}
      /\ es \in Holding => cur.found \in Ref /\ found \in Event
      /\ events \subseteq Ref /\ Queued \subseteq events /\ \A e \in Ref : heap[e] \in Event
      /\ es \notin {"cancelling", "sweep"} => cur.gone = {}
  <2>1. purge' = purge
    BY DEF EsArrival, Receive, ReceiveOrphan, EsStep, ArchiveStore, CountRuleMatch, ScanFound,
     ScanSkip, ScanEnd, CountEventUpStep, TestCount, ReachCount, OpenCounted, LogCountReached,
     CloseEvent, RemoveClosed, LimitStep, LimitTake, LimitFails, LimitNotReached,
     LimitDeletesOldest, LimitRefuses, LimitReached, ShrinkOldest, ShrinkEnd, Create, OpenCreated,
     CancelTake, CancelMark, CancelSweep, SweepCancelled, SweepEnd, esElse, hkVars
  <2>2. rules' = rules
    BY RulesAreSettled DEF Next
  <2>3. NoMessage.gone = {}
    BY DEF NoMessage
  <2> QED
    BY <2>1, <2>2, <2>3, HeapIsTyped, NoMessageOK
    DEF DaemonInv, StatusTypeOK, ThreadTypeOK, RefOK, MarkInv, Queued, found
<1>1. ASSUME heap' = heap, cur'.gone \subseteq cur.gone, es' # "remove"
      PROVE  LogInv'
  <2>1. Queued' \subseteq Queued
    BY <1>0, <1>1 DEF Queued
  <2> QED
    BY <1>0, <1>1, <2>1, LogSame
<1>2. ASSUME heap' = heap, cur' \in {cur, NoMessage}, es' # "remove"
      PROVE  LogInv'
  BY <1>0, <1>1, <1>2
<1>3. ASSUME NEW new, es \in Holding, Change(cur.found, new), cur' \in {cur, NoMessage},
             \/ new.log \in Final
             \/ new.log = found.log /\ new.phase = found.phase /\ new.rule = found.rule
             \/ new.log = found.log /\ es \in {"test", "reach", "opened"},
             es' = "remove" => cur' = cur /\ new.phase = "closed" /\ new.log \in Final
      PROVE  LogInv'
  <2>1. Queued' \subseteq Queued
    BY <1>0, <1>3 DEF Queued, Holding
  <2>2. cur.found \in Queued =>
          \/ new.log \in Final
          \/ new.phase = "counting" /\ new.rule \in active /\ rules[new.rule].kind = "expect"
    <3>1. es \in {"test", "reach", "opened"} => rules[found.rule].kind # "expect"
      BY DEF EsRule, CountsTo, conf
    <3>2. cur.found \in Queued =>
            \/ found.log \in Final
            \/ found.phase = "counting" /\ found.rule \in active /\ rules[found.rule].kind = "expect"
      BY DEF LogInv, Queued, Excused, found
    <3> QED
      BY <1>3, <3>1, <3>2
  <2> QED
    BY <1>0, <1>3, <2>1, <2>2, LogChange
<1>4. ASSUME NEW ev \in Event, NewEvent(ev), cur'.gone \subseteq cur.gone, es' # "remove"
      PROVE  LogInv'
  <2>1. \A e \in Ref : heap'[e] = heap[e]
    BY <1>0, <1>4, AppendOK DEF NewEvent, StatusTypeOK, Ref
  <2>2. Queued' \subseteq Queued
    BY <1>0, <1>4 DEF Queued
  <2> QED
    BY <1>0, <1>4, <2>1, <2>2, LogSame
<1>5. CASE \/ CountRuleMatch \/ ScanEnd \/ TestCount \/ CancelTake \/ LimitTake \/ ArchiveStore
           \/ RemoveClosed \/ CancelSweep \/ SweepEnd
  <2>1. heap' = heap /\ cur' \in {cur, NoMessage} /\ es' # "remove"
    BY <1>5 DEF CountRuleMatch, ScanEnd, TestCount, CancelTake, LimitTake, ArchiveStore, RemoveClosed,
       RemoveEvent, CancelSweep, SweepEnd, Goto, Leave, Done, statusVars
  <2> QED
    BY <1>2, <2>1
<1>6. CASE Receive \/ ReceiveOrphan \/ ScanFound \/ ScanSkip
  <2>1. heap' = heap
    BY <1>6 DEF Receive, ReceiveOrphan, ScanFound, ScanSkip, statusVars
  <2>2. CASE Receive
    <3>1. PICK r \in active, h \in Host, d \in BOOLEAN :
            cur' = [NoMessage EXCEPT !.rule = r, !.conf = rules[r], !.host = h, !.down = d]
      BY <2>2 DEF Receive
    <3>2. cur'.gone = {} /\ es' # "remove"
      BY <1>0, <2>2, <3>1 DEF Receive, Message
    <3> QED
      BY <1>1, <2>1, <3>2
  <2>3. CASE ReceiveOrphan
    <3>1. \/ UNCHANGED <<es, cur>> /\ es = "idle"
          \/ cur' = [NoMessage EXCEPT !.n = nextId] /\ es' = "archive"
      BY <2>3 DEF ReceiveOrphan
    <3>2. cur'.gone \subseteq cur.gone /\ es' # "remove"
      BY <1>0, <3>1 DEF Message
    <3> QED
      BY <1>1, <2>1, <3>2
  <2>4. CASE ScanFound \/ ScanSkip
    <3>1. \/ (\E e, n : cur' = [cur EXCEPT !.found = e, !.n = n]) /\ es' = "countup"
          \/ cur' = [cur EXCEPT !.nr = @ + 1] /\ es' = "scan"
      BY <2>4 DEF ScanFound, ScanSkip, With
    <3>2. cur'.gone \subseteq cur.gone /\ es' # "remove"
      BY <1>0, <3>1 DEF Message
    <3> QED
      BY <1>1, <2>1, <3>2
  <2> QED
    BY <1>6, <2>2, <2>3, <2>4
<1>7. CASE CountEventUpStep
  <2> DEFINE new == [found EXCEPT !.host = cur.host, !.down = cur.down, !.count = cur.n]
  <2>1. Change(cur.found, new) /\ es \in Holding /\ cur' \in {cur, NoMessage} /\ es' # "remove"
    BY <1>7 DEF CountEventUpStep, CountEventUp, found, Holding, Goto, Done
  <2>2. new.log = found.log /\ new.phase = found.phase /\ new.rule = found.rule
    BY <1>0, <2>1 DEF Event
  <2> HIDE DEF new
  <2> QED
    BY <1>3, <2>1, <2>2
<1>8. CASE ReachCount
  <2> DEFINE new == [found EXCEPT !.phase = "open"]
  <2>1. Change(cur.found, new) /\ es = "reach" /\ cur' = cur /\ es' # "remove"
    BY <1>8 DEF ReachCount, Goto
  <2>2. new.log = found.log
    BY <1>0, <2>1 DEF Event, Holding
  <2> HIDE DEF new
  <2> QED
    BY <1>3, <2>1, <2>2 DEF Holding
<1>9. CASE OpenCounted
  <2> DEFINE new == IF conf.delay THEN [found EXCEPT !.phase = "delayed"]
                                  ELSE [found EXCEPT !.live = NewLive(@, conf)]
  <2>1. Change(cur.found, new) /\ es = "opened" /\ cur' = cur /\ es' # "remove"
    BY <1>9 DEF OpenCounted, Goto
  <2>2. new.log = found.log
    BY <1>0, <2>1 DEF Event, Holding
  <2> HIDE DEF new
  <2> QED
    BY <1>3, <2>1, <2>2 DEF Holding
<1>10. CASE LogCountReached
  <2> DEFINE new == [found EXCEPT !.log = "COUNTREACHED"]
  <2>1. Change(cur.found, new) /\ es \in Holding /\ cur' \in {cur, NoMessage} /\ es' # "remove"
    BY <1>10 DEF LogCountReached, Holding, Goto, Done
  <2>2. new.log \in Final
    BY <1>0, <2>1 DEF Event, Final
  <2> HIDE DEF new
  <2> QED
    BY <1>3, <2>1, <2>2
<1>11. CASE OpenCreated
  <2>1. es = "created" /\ cur' \in {cur, NoMessage} /\ es' # "remove"
    BY <1>11 DEF OpenCreated, Goto, Done
  <2>2. CASE UNCHANGED statusVars
    BY <1>2, <2>1, <2>2 DEF statusVars
  <2>3. CASE Change(cur.found, [found EXCEPT !.live = NewLive(@, conf)])
    <3> DEFINE new == [found EXCEPT !.live = NewLive(@, conf)]
    <3>1. new.log = found.log /\ new.phase = found.phase /\ new.rule = found.rule
      BY <1>0, <2>1 DEF Event, Holding
    <3>2. Change(cur.found, new)
      BY <2>3
    <3> HIDE DEF new
    <3> QED
      BY <1>3, <2>1, <3>1, <3>2 DEF Holding
  <2> QED
    BY <1>11, <2>2, <2>3 DEF OpenCreated
<1>12. CASE CloseEvent
  <2> DEFINE new == [found EXCEPT !.phase = "closed", !.log = "AUTODELETE"]
  <2>1. Change(cur.found, new) /\ es = "close" /\ cur' = cur
    BY <1>12 DEF CloseEvent, Goto
  <2>2. new.log \in Final /\ new.phase = "closed"
    BY <1>0, <2>1 DEF Event, Holding, Final
  <2> HIDE DEF new
  <2> QED
    BY <1>3, <2>1, <2>2 DEF Holding
<1>13. CASE CancelMark
  <2>1. PICK e \in events :
          /\ Change(e, [heap[e] EXCEPT !.phase = "closed", !.log = "CANCELLED"])
          /\ With("cancelling", [cur EXCEPT !.gone = @ \cup {e}])
    BY <1>13 DEF CancelMark
  <2> DEFINE new == [heap[e] EXCEPT !.phase = "closed", !.log = "CANCELLED"]
  <2>2. cur'.gone = cur.gone \cup {e} /\ es' = "cancelling"
    BY <1>0, <2>1 DEF With, Message
  <2>3. Queued' \subseteq Queued \cup {e} /\ e \in Ref /\ Queued \subseteq Ref
    BY <1>0, <2>2 DEF Queued
  <2>4. new.log \in Final /\ Change(e, new)
    BY <1>0, <2>1, <2>3 DEF Event, Final
  <2> HIDE DEF new
  <2> QED
    BY <1>0, <2>2, <2>3, <2>4, LogChange
<1>14. CASE SweepCancelled
  <2>1. PICK e \in Last(cur.gone) : /\ RemoveEvent(e)
                                    /\ Leave \/ With("sweep", [cur EXCEPT !.gone = @ \ {e}])
    BY <1>14 DEF SweepCancelled
  <2>2. heap' = heap /\ cur'.gone \subseteq cur.gone /\ es' # "remove"
    BY <1>0, <2>1 DEF RemoveEvent, Leave, Done, With, Message
  <2> QED
    BY <1>1, <2>2
<1>15. ASSUME NEW ty \in LimitType,
              \/ LimitFails(ty) \/ LimitNotReached(ty) \/ LimitDeletesOldest(ty)
              \/ LimitRefuses(ty) \/ LimitReached(ty)
       PROVE  LogInv'
  <2>1. /\ \/ es' = "idle" /\ cur' = NoMessage
           \/ cur' = cur /\ es' = After(ty)
           \/ (\E n : cur' = [cur EXCEPT !.ty = ty, !.n = n]) /\ es' = "shrink"
        /\ UNCHANGED statusVars \/ NewEvent(Overflow(ty))
    BY <1>15 DEF LimitFails, LimitNotReached, LimitDeletesOldest, LimitRefuses, LimitReached,
                 Goto, With, Leave, Done
  <2>2. After(ty) # "remove"
    BY DEF After, LimitType
  <2>3. cur'.gone \subseteq cur.gone /\ es' # "remove"
    BY <1>0, <2>1, <2>2 DEF Message
  <2>4. Overflow(ty) \in Event
    BY <1>0, FreshIsEvent DEF Overflow, LimitType, Rules, Hosts, Phase, Message
  <2> QED
    BY <1>1, <1>4, <2>1, <2>3, <2>4 DEF statusVars
<1>16. CASE ShrinkOldest \/ ShrinkEnd
  <2>1. After(cur.ty) # "remove"
    BY <1>0 DEF After, Message, LimitType
  <2>2. /\ heap' = heap
        /\ \/ es' = "idle" /\ cur' = NoMessage
           \/ cur' = cur /\ es' = After(cur.ty)
           \/ (\E n : cur' = [cur EXCEPT !.n = n]) /\ es' = "shrink"
    BY <1>16 DEF ShrinkOldest, ShrinkEnd, RemoveEvent, Goto, With, Leave, Done, statusVars
  <2>3. cur'.gone \subseteq cur.gone /\ es' # "remove"
    BY <1>0, <2>1, <2>2 DEF Message
  <2> QED
    BY <1>1, <2>2, <2>3
<1>17. CASE Create
  <2>1. /\ NewEvent(Fresh(cur.rule, cur.host, FirstPhase, cur.down)) /\ es' # "remove"
        /\ cur' = NoMessage \/ cur' = [cur EXCEPT !.found = Len(heap) + 1]
    BY <1>17 DEF Create, With, Done
  <2>2. FirstPhase \in Phase
    BY DEF FirstPhase, Phase
  <2>3. Fresh(cur.rule, cur.host, FirstPhase, cur.down) \in Event
    BY <1>0, <2>2, FreshIsEvent DEF Message
  <2>4. cur'.gone \subseteq cur.gone
    BY <1>0, <2>1 DEF Message
  <2> QED
    BY <1>4, <2>1, <2>3, <2>4
<1> QED
  BY <1>5, <1>6, <1>7, <1>8, <1>9, <1>10, <1>11, <1>12, <1>13, <1>14, <1>15, <1>16, <1>17
  DEF EsArrival, EsStep, LimitStep

LEMMA HkLogs ==
  ASSUME Settled, DaemonInv, MarkInv, HkRule, LogInv, HkStart \/ HkStep
  PROVE  LogInv'
<1>0. /\ StatusTypeOK /\ rules' = rules /\ UNCHANGED <<es, cur>>
      /\ events \subseteq Ref /\ Queued \subseteq events
      /\ \A e \in Ref : heap[e] \in Event
      /\ es = "remove" => cur.found \in Ref /\ found.phase = "closed" /\ found.log \in Final
      /\ hk \notin {"timeouts", "drop"} => purge = {}
      /\ cur.gone = {}
      /\ \A r \in active : r \in Rules /\ rules[r] \in RuleConf
      /\ hk = "expect" => todo \subseteq active /\ \A r \in todo : rules[r].kind = "expect"
      /\ hk = "timeouts" => todo \subseteq events /\ purge \cap todo = {}
  <2>1. UNCHANGED <<es, cur>>
    BY DEF HkStart, HkStep, HkTimeout, HkTimeoutsEnd, HkDrop, HkDropEnd, HkExpectNotDue, HkExpect,
           HkExpectEnd, HkDowntime, HkEnd, hkElse, esVars
  <2>2. rules' = rules
    BY RulesAreSettled DEF Next
  <2>3. \A r \in active : r \in Rules /\ rules[r] \in RuleConf
    BY ConfIsTyped DEF DaemonInv, Rules
  <2>4. lock # "es"
    BY DEF HkStart, HkStep, HkTimeout, HkTimeoutsEnd, HkDrop, HkDropEnd, HkExpectNotDue, HkExpect,
           HkExpectEnd, HkDowntime, HkEnd, DaemonInv, ThreadTypeOK, HkLocked, HkPc
  <2>5. cur.gone = {}
    BY <2>4, OneMarks
  <2> QED
    BY <2>1, <2>2, <2>3, <2>5, HeapIsTyped
    DEF DaemonInv, StatusTypeOK, RefOK, MarkInv, Queued, LogInv, HkRule, Holding
<1>1. ASSUME heap' = heap, purge' \subseteq purge
      PROVE  LogInv'
  <2>1. Queued' \subseteq Queued
    BY <1>0, <1>1 DEF Queued
  <2> QED
    BY <1>0, <1>1, <2>1, LogSame
<1>2. CASE \/ HkStart \/ HkTimeoutsEnd \/ HkDropEnd \/ HkExpectNotDue \/ HkExpectEnd \/ HkEnd
           \/ HkDrop \/ HkDowntime
  <2>1. heap' = heap /\ purge' \subseteq purge
    BY <1>2 DEF HkStart, HkTimeoutsEnd, HkDropEnd, HkExpectNotDue, HkExpectEnd, HkEnd, HkDrop,
                HkDowntime, HkNext, HkLeave, RemoveEvent, statusVars
  <2> QED
    BY <1>1, <2>1
<1>3. ASSUME NEW e \in Ref, NEW new, Change(e, new), e \notin purge,
             \/ purge' = purge
             \/ purge' = purge \cup {e} /\ new.log \in Final,
             heap[e].phase # "closed"
      PROVE  LogInv'
  <2>1. Queued' \subseteq Queued \cup {e} /\ Queued \subseteq Ref /\ (e \in Queued' => new.log \in Final)
    BY <1>0, <1>3 DEF Queued
  <2>2. es' = "remove" => es = "remove" /\ cur' = cur /\ cur.found # e /\ cur.found \in Ref
    BY <1>0, <1>3 DEF found
  <2> QED
    BY <1>0, <1>3, <2>1, <2>2, LogChange
<1>4. CASE HkTimeout
  <2>1. PICK e \in First(todo) : \/ TimeoutCounting(e) \/ TimeoutDelayed(e) \/ TimeoutLivetime(e)
                                 \/ NotDue
    BY <1>4 DEF HkTimeout
  <2>2. e \in Ref /\ e \notin purge /\ heap[e] \in Event
    BY <1>0, <1>4 DEF HkTimeout, First
  <2>3. CASE NotDue
    BY <1>1, <2>3 DEF NotDue, statusVars
  <2>4. ASSUME NEW w \in Final, Close(e, w), heap[e].phase # "closed"
        PROVE  LogInv'
    <3> DEFINE new == [heap[e] EXCEPT !.phase = "closed", !.log = w]
    <3>1. Change(e, new) /\ purge' = purge \cup {e} /\ new.log \in Final
      BY <2>2, <2>4 DEF Close, Event
    <3> HIDE DEF new
    <3> QED
      BY <1>3, <2>2, <2>4, <3>1
  <2>5. CASE heap[e].phase = "counting" /\ LoseTokens(e)
    <3>1. PICK c \in 0..heap[e].count :
            IF c = 0
            THEN /\ Change(e, [heap[e] EXCEPT !.count = 0, !.phase = "closed", !.log = "COUNTFAILED"])
                 /\ purge' = purge \cup {e}
            ELSE Change(e, [heap[e] EXCEPT !.count = c]) /\ UNCHANGED purge
      BY <2>5 DEF LoseTokens
    <3>2. [heap[e] EXCEPT !.count = 0, !.phase = "closed", !.log = "COUNTFAILED"].log \in Final
      BY <2>2 DEF Event, Final
    <3> QED
      BY <1>3, <2>2, <2>5, <3>1, <3>2
  <2>6. CASE TimeoutCounting(e)
    <3>1. /\ heap[e].phase = "counting"
          /\ (\E w \in Final : Close(e, w)) \/ LoseTokens(e) \/ NotDue
      BY <2>6 DEF TimeoutCounting, NotDue, Final
    <3> QED
      BY <2>3, <2>4, <2>5, <3>1
  <2>7. CASE TimeoutDelayed(e)
    <3> DEFINE opened == [heap[e] EXCEPT !.phase = "open", !.log = "DELAYOVER"]
               new == [opened EXCEPT !.live = NewLive(@, rules[heap[e].rule])]
    <3>1. /\ heap[e].phase = "delayed"
          /\ Close(e, "AUTODELETE") \/ ((Change(e, opened) \/ Change(e, new)) /\ purge' = purge)
      BY <2>7 DEF TimeoutDelayed
    <3> HIDE DEF opened, new
    <3> QED
      BY <1>3, <2>2, <2>4, <3>1 DEF Final
  <2>8. CASE TimeoutLivetime(e)
    <3>1. heap[e].phase \in {"open", "ack"} /\ Close(e, "EXPIRED")
      BY <2>2, <2>8 DEF TimeoutLivetime, Event
    <3> QED
      BY <2>4, <3>1 DEF Final
  <2> QED
    BY <2>1, <2>3, <2>6, <2>7, <2>8
<1>5. CASE HkExpect
  <2>0. purge = {} /\ hk = "expect" /\ Queued = {}
    BY <1>0, <1>5 DEF HkExpect, Queued
  <2>1. PICK r \in todo :
          \/ \E e \in Counted(r) : /\ Change(e, [heap[e] EXCEPT !.log = "COUNTREACHED"])
                                   /\ purge' = {e}
          \/ \E m \in First(Mergeable(r)) :
               /\ Change(m, [heap[m] EXCEPT !.phase = "open", !.log = "COUNTFAILED", !.count = @ + 1])
               /\ purge' = Counted(r)
          \/ /\ NewEvent([Fresh(r, NoHost, IF rules[r].autodelete THEN "closed" ELSE "open", FALSE)
                          EXCEPT !.log = IF rules[r].autodelete THEN "AUTODELETE" ELSE "COUNTFAILED",
                                 !.live = rules[r].livetime])
             /\ purge' = Counted(r) \cup IF rules[r].autodelete THEN {Len(heap) + 1} ELSE {}
    BY <1>5 DEF HkExpect
  <2>2. /\ r \in Rules /\ r \in active /\ rules[r] \in RuleConf /\ NoHost \in Hosts
        /\ rules[r].kind = "expect" /\ Queued' = purge'
        /\ Counted(r) \subseteq Ref
        /\ \A e \in Counted(r) : heap[e].phase = "counting" /\ heap[e].rule = r
    <3>1. /\ Counted(r) \subseteq events
          /\ \A e \in Counted(r) : heap[e].phase = "counting" /\ heap[e].rule = r
      BY DEF Counted, Counting, First, OfRule
    <3> QED
      BY <1>0, <2>0, <3>1 DEF Hosts, Queued
  <2>3. ASSUME NEW e \in Counted(r), Change(e, [heap[e] EXCEPT !.log = "COUNTREACHED"]), purge' = {e}
        PROVE  LogInv'
    <3> DEFINE new == [heap[e] EXCEPT !.log = "COUNTREACHED"]
    <3>1. e \in Ref /\ heap[e].phase # "closed"
      BY <2>2
    <3>2. new.log \in Final /\ Change(e, new)
      BY <1>0, <2>3, <3>1 DEF Event, Final
    <3> HIDE DEF new
    <3> QED
      BY <1>3, <2>0, <2>3, <3>1, <3>2
  <2>4. ASSUME NEW m \in First(Mergeable(r)),
               Change(m, [heap[m] EXCEPT !.phase = "open", !.log = "COUNTFAILED", !.count = @ + 1]),
               purge' = Counted(r)
        PROVE  LogInv'
    <3>1. m \in events /\ heap[m].phase \in {"open", "ack"}
      BY DEF Mergeable, First, OfRule
    <3>2. m \notin Counted(r)
      BY <2>2, <3>1
    <3>3. \A f \in Ref : f # m => heap'[f] = heap[f]
      BY <1>0, <2>4, <3>1 DEF Change, StatusTypeOK, Ref
    <3>4. \A e \in Counted(r) : heap'[e].phase = "counting" /\ heap'[e].rule = r
      BY <2>2, <3>2, <3>3
    <3>5. es = "remove" => cur.found # m /\ heap'[cur.found] = heap[cur.found]
      BY <1>0, <3>1, <3>3 DEF found
    <3> QED
      BY <1>0, <2>2, <2>4, <3>4, <3>5 DEF LogInv, Excused, found, active
  <2>5. ASSUME NEW p \in Phase, NEW w \in What,
               NewEvent([Fresh(r, NoHost, p, FALSE) EXCEPT !.log = w, !.live = rules[r].livetime]),
               purge' \subseteq Counted(r) \cup {Len(heap) + 1},
               Len(heap) + 1 \in purge' => w \in Final
        PROVE  LogInv'
    <3> DEFINE f == Fresh(r, NoHost, p, FALSE)
               new == [f EXCEPT !.log = w, !.live = rules[r].livetime]
    <3>1. f \in Event
      BY <1>0, <2>2, FreshIsEvent
    <3>2. rules[r].livetime \in SUBSET {"open", "ack"} /\ NewEvent(new)
      BY <2>2, <2>5 DEF RuleConf
    <3> HIDE DEF f
    <3>3. new \in Event /\ new.log = w
      BY <3>1, <3>2 DEF Event
    <3> HIDE DEF new
    <3>4. heap'[Len(heap) + 1] = new /\ \A e \in Ref : heap'[e] = heap[e]
      BY <1>0, <3>2, <3>3, AppendOK DEF NewEvent, StatusTypeOK, Ref
    <3>5. \A e \in purge' : Excused(e)'
      BY <1>0, <2>2, <2>5, <3>3, <3>4 DEF Excused, active
    <3>6. es = "remove" => heap'[cur.found] = heap[cur.found]
      BY <1>0, <3>4
    <3> QED
      BY <1>0, <2>2, <3>5, <3>6 DEF LogInv, found
  <2>6. CASE /\ NewEvent([Fresh(r, NoHost, IF rules[r].autodelete THEN "closed" ELSE "open", FALSE)
                          EXCEPT !.log = IF rules[r].autodelete THEN "AUTODELETE" ELSE "COUNTFAILED",
                                 !.live = rules[r].livetime])
             /\ purge' = Counted(r) \cup IF rules[r].autodelete THEN {Len(heap) + 1} ELSE {}
    <3>1. CASE rules[r].autodelete
      BY <2>5, <2>6, <3>1 DEF Phase, What, Final
    <3>2. CASE ~rules[r].autodelete
      BY <2>5, <2>6, <3>2 DEF Phase, What, Final
    <3> QED
      BY <3>1, <3>2
  <2> QED
    BY <2>1, <2>3, <2>4, <2>6
<1> QED
  BY <1>2, <1>4, <1>5 DEF HkStep

LEMMA CommandLogs ==
  ASSUME Settled, DaemonInv, MarkInv, LogInv, CommandStep
  PROVE  LogInv'
<1>0. /\ StatusTypeOK /\ rules' = rules /\ UNCHANGED <<es, cur, purge>>
      /\ events \subseteq Ref /\ Queued \subseteq Ref /\ Named \subseteq events
      /\ \A e \in Ref : heap[e] \in Event
      /\ es = "remove" => cur.found \in Ref
      /\ lock = "free" => Queued = {}
  <2>1. UNCHANGED <<es, cur, purge>>
    BY DEF CommandStep, CommandDelete, CommandUpdate, CommandChangestate, CommandFlush,
           CommandReload, Sighup, cmdElse, hkVars, esVars
  <2>2. rules' = rules
    BY RulesAreSettled DEF Next
  <2>3. lock = "free" => purge = {} /\ cur.gone = {}
    BY OneMarks
  <2> QED
    BY <2>1, <2>2, <2>3, HeapIsTyped
    DEF DaemonInv, StatusTypeOK, RefOK, Holding, MarkInv, Named, Queued
<1>1. CASE CommandDelete
  <2> PICK e \in Named : DeleteEvent(e)
    BY <1>1 DEF CommandDelete
  <2> DEFINE new == [heap[e] EXCEPT !.phase = "closed", !.log = "DELETE"]
  <2>1. heap' = [heap EXCEPT ![e] = new] /\ e \in Ref
    BY <1>0 DEF DeleteEvent
  <2>2. new.phase = "closed" /\ new.log \in Final
    BY <1>0, <2>1 DEF Event, Final
  <2> HIDE DEF new
  <2>3. heap'[e] = new /\ \A f \in Ref : f # e => heap'[f] = heap[f]
    BY <1>0, <2>1 DEF StatusTypeOK, Ref
  <2>4. Queued' = {}
    BY <1>0, <1>1 DEF CommandDelete, Command, Queued
  <2> QED
    BY <1>0, <2>2, <2>3, <2>4 DEF LogInv, Queued, found
<1>2. CASE CommandFlush \/ CommandReload \/ Sighup
  <2>1. heap' = heap /\ Queued' = Queued
    BY <1>0, <1>2 DEF CommandFlush, Flush, CommandReload, Sighup, statusVars, Queued
  <2> QED
    BY <1>0, <2>1, LogSame
<1>3. ~CommandUpdate /\ ~CommandChangestate
  BY DEF Settled, CommandUpdate, CommandChangestate, Command
<1> QED
  BY <1>1, <1>2, <1>3 DEF CommandStep

LEMMA LogStep ==
  ASSUME Settled, DaemonInv, MarkInv, EsRule, HkRule, LogInv, [Next]_vars
  PROVE  LogInv'
<1>1. CASE UNCHANGED vars
  BY <1>1, LogSame DEF vars, statusVars, threadVars, Queued
<1> QED
  BY <1>1, EsLogs, HkLogs, CommandLogs DEF Next

\* Where the events leave the list.
LEMMA RemovalStep ==
  ASSUME Settled, DaemonInv, MarkInv, LogInv, [Next]_vars, NEW e \in events \ events'
  PROVE  \/ heap'[e].log \in Final \/ heap'[e].phase = "counting"
         \/ es = "shrink" \/ hk = "downtime" \/ nextId' = 1
<1>0. e \in Ref /\ StatusTypeOK /\ heap[e] \in Event
  BY HeapIsTyped DEF DaemonInv, StatusTypeOK
<1>1. ASSUME NEW f \in Queued, RemoveEvent(f)
      PROVE  heap'[e].log \in Final \/ heap'[e].phase = "counting"
  BY <1>1 DEF RemoveEvent, LogInv, Queued, Excused
<1>2. CASE RemoveClosed
  BY <1>2 DEF RemoveClosed, RemoveEvent, LogInv, found
<1>3. CASE SweepCancelled
  BY <1>1, <1>3 DEF SweepCancelled, Last, Queued
<1>4. CASE HkDrop
  BY <1>1, <1>4 DEF HkDrop, Last, Queued
<1>5. CASE ShrinkOldest \/ HkDowntime \/ CommandFlush
  BY <1>5 DEF ShrinkOldest, HkDowntime, CommandFlush, Flush
<1>6. CASE CommandDelete
  <2> PICK f \in Named : DeleteEvent(f)
    BY <1>6 DEF CommandDelete
  <2> DEFINE new == [heap[e] EXCEPT !.phase = "closed", !.log = "DELETE"]
  <2>1. f = e
    BY DEF DeleteEvent
  <2>2. heap' = [heap EXCEPT ![e] = new]
    BY <2>1 DEF DeleteEvent
  <2>3. new.log \in Final
    BY <1>0 DEF Event, Final
  <2> HIDE DEF new
  <2>4. heap'[e] = new
    BY <1>0, <2>2 DEF StatusTypeOK, Ref
  <2> QED
    BY <2>3, <2>4
<1>7. ASSUME \/ EsArrival \/ ArchiveStore \/ CountRuleMatch \/ ScanFound \/ ScanSkip \/ ScanEnd
             \/ CountEventUpStep \/ TestCount \/ ReachCount \/ OpenCounted \/ LogCountReached
             \/ CloseEvent \/ OpenCreated \/ CancelTake \/ CancelMark \/ CancelSweep \/ SweepEnd
      PROVE  FALSE
  BY <1>7 DEF EsArrival, Receive, ReceiveOrphan, ArchiveStore, CountRuleMatch, ScanFound, ScanSkip,
     ScanEnd, CountEventUpStep, CountEventUp, TestCount, ReachCount, OpenCounted, LogCountReached,
     CloseEvent, OpenCreated, CancelTake, CancelMark, CancelSweep, SweepEnd, Change, statusVars
<1>8. ASSUME \/ LimitTake \/ ShrinkEnd \/ Create
             \/ \E ty \in LimitType : \/ LimitFails(ty) \/ LimitNotReached(ty)
                                      \/ LimitDeletesOldest(ty) \/ LimitRefuses(ty) \/ LimitReached(ty)
      PROVE  FALSE
  BY <1>8 DEF LimitTake, ShrinkEnd, Create, LimitFails, LimitNotReached, LimitDeletesOldest,
     LimitRefuses, LimitReached, NewEvent, statusVars
<1>9. ASSUME \/ HkStart \/ HkTimeout \/ HkTimeoutsEnd \/ HkDropEnd \/ HkExpectNotDue \/ HkExpect
             \/ HkExpectEnd \/ HkEnd
      PROVE  FALSE
  BY <1>9 DEF HkStart, HkTimeout, TimeoutCounting, TimeoutDelayed, TimeoutLivetime, NotDue, LoseTokens,
     Close, Change, HkTimeoutsEnd, HkDropEnd, HkExpectNotDue, HkExpect, NewEvent, HkExpectEnd,
     HkEnd, statusVars
<1>10. ASSUME CommandUpdate \/ CommandChangestate \/ CommandReload \/ Sighup \/ UNCHANGED vars
       PROVE  FALSE
  BY <1>10 DEF CommandUpdate, CommandChangestate, CommandReload, Sighup, Change, statusVars, vars
<1> QED
  BY <1>2, <1>3, <1>4, <1>5, <1>6, <1>7, <1>8, <1>9, <1>10
  DEF Next, EsStep, LimitStep, HkStep, CommandStep

\* If the configuration is not changed by a reload, and no user updates an
\* event or changes its state, then an event leaves the list only with a
\* history entry that says why, for all rules, limits and messages, although
\* the EventServer goes on with events that the housekeeping has closed: it
\* then writes an entry of its own, or leaves the one there is.
THEOREM RemovalIsLogged == Settled => (Spec => RemovalLogged)
<1> SUFFICES ASSUME Settled
             PROVE  Spec => RemovalLogged
  OBVIOUS
<1>1. Init => EsRule /\ HkRule /\ LogInv
  BY DEF Init, EsRule, HkRule, LogInv, NoMessage, CountsTo
<1>2. DaemonInv /\ MarkInv /\ EsRule /\ HkRule /\ LogInv /\ [Next]_vars => (EsRule /\ HkRule /\ LogInv)'
  BY EsRuleStep, HkRuleStep, LogStep
<1>3. DaemonInv /\ MarkInv /\ LogInv /\ [Next]_vars =>
        [\A e \in events \ events' :
           \/ heap'[e].log \in Final \/ heap'[e].phase = "counting"
           \/ es = "shrink" \/ hk = "downtime" \/ nextId' = 1]_vars
  BY RemovalStep
<1> QED
  BY <1>1, <1>2, <1>3, DaemonInvariant, MarkInvariant, PTL DEF Spec, RemovalLogged
-----------------------------------------------------------------------------
(* Who waits for whom.                                                     *)

\* The guards of EsStep.  The steps of a limit are for all numbers of events.
EsWaiting == {"matched", "limit", "remove", "cancel"}
EsGoesOn ==
  \/ es \in EsWaiting /\ lock = "free"
  \/ es \in {"archive", "countup", "test", "reach", "opened", "reached", "close", "created",
             "create", "cancelling"} \cup LimitType
  \/ es = "scan" /\ (cur.nr >= Cardinality(events) \/ \E e \in events : Index(e) = cur.nr)
  \/ es = "shrink" /\ (cur.n = 0 \/ Oldest(cur.ty) = {} \/ First(Oldest(cur.ty)) # {})
  \/ es = "sweep" /\ (cur.gone = {} \/ Last(cur.gone) # {})

\* The guards of HkStart and HkStep.
HkGoesOn ==
  \/ hk = "idle" /\ lock = "free"
  \/ hk = "timeouts" /\ (todo = {} \/ First(todo) # {})
  \/ hk = "drop" /\ (purge = {} \/ Last(purge) # {})
  \/ hk = "expect"
  \/ hk = "downtime" /\ (pos >= Cardinality(events) \/ \E e \in events : Index(e) = pos)

\* Each of the two threads can go on, or waits for the lock that the other one
\* has, which can go on itself.
NobodyStuck ==
  /\ es = "idle" \/ EsGoesOn \/ (es \in EsWaiting /\ lock = "hk" /\ HkGoesOn)
  /\ HkGoesOn \/ (hk = "idle" /\ lock = "es" /\ EsGoesOn)

\* No thread of the daemon gets stuck, or keeps the lock: for all rules, limits
\* and messages, and although the list changes while the EventServer goes
\* through it by position, there is always a next step.
THEOREM NoThreadIsStuck == Spec => []NobodyStuck
<1>1. ASSUME DaemonInv, MarkInv
      PROVE  NobodyStuck
  <2>0. /\ StatusTypeOK /\ ThreadTypeOK /\ cur.nr \in Nat /\ cur.n \in Nat /\ cur.ty \in LimitType
        /\ Len(heap) \in Nat /\ events \subseteq 1..Len(heap)
        /\ IsFiniteSet(events) /\ Cardinality(events) \in Nat
    BY <1>1, EventsFinite, FS_CardinalityType DEF DaemonInv, StatusTypeOK, ThreadTypeOK, Message, Ref
  <2>1. ASSUME NEW S, S \subseteq events
        PROVE  S = {} \/ (First(S) # {} /\ Last(S) # {})
    <3> SUFFICES ASSUME S # {}
                 PROVE  First(S) # {} /\ Last(S) # {}
      OBVIOUS
    <3>1. S \subseteq 1..Len(heap) /\ S \subseteq Nat
      BY <2>0, <2>1
    <3>2. PICK e \in S : \A f \in S : e <= f
      BY <3>1, LeastExists
    <3>3. PICK g \in S : \A f \in S : f <= g
      BY <2>0, <3>1, GreatestExists
    <3>4. \A f \in S : g >= f
      BY <3>1, <3>3
    <3> QED
      BY <3>2, <3>4 DEF First, Last
  <2>2. ASSUME NEW i \in Nat
        PROVE  i >= Cardinality(events) \/ \E e \in events : Index(e) = i
    <3>1. i < Cardinality(events) => \E e \in events : Index(e) = i
      BY <2>0, PositionExists
    <3> QED
      BY <2>0, <3>1
  <2>3. Oldest(cur.ty) \subseteq events
    BY <2>0 DEF Oldest, LimitType, OfHost, OfRule
  <2>4. es \in EsPc \ (EsWaiting \cup {"idle"}) => EsGoesOn
    <3>1. es = "scan" => EsGoesOn
      BY <2>0, <2>2 DEF EsGoesOn
    <3>2. es = "shrink" => EsGoesOn
      BY <2>1, <2>3 DEF EsGoesOn
    <3>3. es = "sweep" => EsGoesOn
      BY <1>1, <2>1 DEF EsGoesOn, MarkInv
    <3> QED
      BY <3>1, <3>2, <3>3 DEF EsGoesOn, EsPc, EsWaiting, LimitType
  <2>5. hk \in HkPc \ {"idle"} => HkGoesOn
    <3>1. hk = "timeouts" => HkGoesOn
      BY <1>1, <2>1 DEF HkGoesOn, MarkInv
    <3>2. hk = "drop" => HkGoesOn
      BY <1>1, <2>1 DEF HkGoesOn, MarkInv
    <3>3. hk = "downtime" => HkGoesOn
      <4>1. pos \in Nat
        BY <2>0 DEF ThreadTypeOK
      <4> QED
        BY <2>2, <4>1 DEF HkGoesOn
    <3> QED
      BY <3>1, <3>2, <3>3 DEF HkGoesOn, HkPc
  <2>6. /\ es \in EsPc /\ hk \in HkPc /\ lock \in {"free", "es", "hk"}
        /\ lock = "es" => es \in EsLocked
        /\ lock = "hk" => hk \in HkLocked
    BY <2>0 DEF ThreadTypeOK
  <2>7. lock = "es" => EsGoesOn
    BY <2>4, <2>6 DEF EsLocked, EsPc, EsWaiting
  <2>8. lock = "hk" => HkGoesOn
    BY <2>5, <2>6 DEF HkLocked
  <2>9. es = "idle" \/ EsGoesOn \/ (es \in EsWaiting /\ lock = "hk" /\ HkGoesOn)
    BY <2>4, <2>6, <2>7, <2>8 DEF EsGoesOn
  <2>10. HkGoesOn \/ (hk = "idle" /\ lock = "es" /\ EsGoesOn)
    BY <2>5, <2>6, <2>7, <2>8 DEF HkGoesOn
  <2> QED
    BY <2>9, <2>10 DEF NobodyStuck
<1> QED
  BY <1>1, DaemonInvariant, MarkInvariant, PTL
=============================================================================
