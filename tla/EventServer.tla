----------------------------- MODULE EventServer -----------------------------
(***************************************************************************)
(* The EventServer thread: process_event and what it calls in EventServer  *)
(* and EventStatus, from the message to the stored, counted, opened,       *)
(* cancelled or refused event.                                             *)
(***************************************************************************)
EXTENDS EventLimits

-----------------------------------------------------------------------------
(* Matching.  Which rule a message matches is a free choice; the match is  *)
(* made under lock_configuration, which the housekeeping holds as well.    *)

Receive ==
  /\ es = "idle" /\ msgs < MaxMessages /\ hk = "idle"
  /\ msgs' = msgs + 1
  /\ es' = "matched"
  /\ \E r \in active, h \in Host, d \in BOOLEAN :
       cur' = [NoMessage EXCEPT !.rule = r, !.conf = rules[r],
                                     !.host = h, !.down = d]
  /\ UNCHANGED <<statusVars, lock, esElse>>

\* No rule matches: the message is dropped or archived.  archive_event does
\* not take the lock: it reads _next_event_id and stores one more later.
ReceiveOrphan ==
  /\ es = "idle" /\ msgs < MaxMessages /\ hk = "idle"
  /\ msgs' = msgs + 1
  /\ IF ArchiveOrphans
     THEN es' = "archive" /\ cur' = [NoMessage EXCEPT !.n = nextId]
     ELSE UNCHANGED <<es, cur>>
  /\ UNCHANGED <<statusVars, lock, esElse>>

ArchiveStore ==
  /\ es = "archive"
  /\ nextId' = cur.n + 1
  /\ Done
  /\ UNCHANGED <<heap, events, counters, lock, esElse>>

\* count_rule_match needs the lock for the statistics of the rule.
CountRuleMatch ==
  /\ es = "matched" /\ lock = "free"
  /\ \/ conf.kind = "drop" /\ Done
     \/ conf.kind # "drop" /\ Goto("cancel")
     \/ conf.kind \in {"count", "expect"} /\ Goto("scan")
     \/ conf.kind = "plain" /\ Goto("limit")
  /\ UNCHANGED <<statusVars, lock, esElse>>

-----------------------------------------------------------------------------
(* count_event and count_expected_event: the loop over the list runs       *)
(* without the lock and by position, so an event may move while it runs.   *)

Counts(e) ==
  /\ heap[e].rule = cur.rule
  /\ IF conf.kind = "expect"
     THEN heap[e].phase = "counting"
     ELSE /\ heap[e].phase = "ack" => conf.countAck
          /\ conf.sepHost => heap[e].host = cur.host
          /\ heap[e].down = cur.down

\* The applications, match groups or times of the events may differ, too.
MayDiffer == conf.kind = "count" /\ conf.sepOther

ScanFound ==
  /\ es = "scan"
  /\ \E e \in events :
       /\ Index(e) = cur.nr
       /\ Counts(e)
       /\ With("countup", [cur EXCEPT !.found = e, !.n = heap[e].count + 1])
  /\ UNCHANGED <<statusVars, lock, esElse>>

ScanSkip ==
  /\ es = "scan"
  /\ \E e \in events :
       /\ Index(e) = cur.nr
       /\ Counts(e) => MayDiffer
  /\ With("scan", [cur EXCEPT !.nr = @ + 1])
  /\ UNCHANGED <<statusVars, lock, esElse>>

ScanEnd ==
  /\ es = "scan"
  /\ cur.nr >= Cardinality(events)
  /\ Goto("limit")
  /\ UNCHANGED <<statusVars, lock, esElse>>

CountEventUpStep ==
  /\ es = "countup"
  /\ CountEventUp(cur.found, cur.host, cur.down, cur.n)
  /\ IF conf.kind = "expect" THEN Done ELSE Goto("test")
  /\ UNCHANGED <<lock, esElse>>

-----------------------------------------------------------------------------
(* The count is reached: still without the lock.                           *)

TestCount ==
  /\ es = "test"
  /\ IF found.phase = "counting" /\ found.count >= conf.n THEN Goto("reach") ELSE Done
  /\ UNCHANGED <<statusVars, lock, esElse>>

ReachCount ==
  /\ es = "reach"
  /\ Change(cur.found, [found EXCEPT !.phase = "open"])
  /\ Goto("opened")
  /\ UNCHANGED <<lock, esElse>>

\* event_has_opened starts the livetime and executes the actions of the rule.
OpenCounted ==
  /\ es = "opened"
  /\ Change(cur.found, IF conf.delay
                       THEN [found EXCEPT !.phase = "delayed"]
                       ELSE [found EXCEPT !.live = NewLive(@, conf)])
  /\ Goto("reached")
  /\ UNCHANGED <<lock, esElse>>

LogCountReached ==
  /\ es = "reached"
  /\ Change(cur.found, [found EXCEPT !.log = "COUNTREACHED"])
  /\ IF ~conf.delay /\ conf.autodelete THEN Goto("close") ELSE Done
  /\ UNCHANGED <<lock, esElse>>

\* Back in process_event, the phase is looked at again without the lock.
OpenCreated ==
  /\ es = "created"
  /\ IF found.phase = "open"
     THEN /\ Change(cur.found, [found EXCEPT !.live = NewLive(@, conf)])
          /\ IF conf.autodelete THEN Goto("close") ELSE Done
     ELSE Done /\ UNCHANGED statusVars
  /\ UNCHANGED <<lock, esElse>>

\* Mutant: the closed event stays in the list.
BugCloseEvent ==
  /\ es = "close"
  /\ Change(cur.found, [found EXCEPT !.phase = "closed", !.log = "AUTODELETE"])
  /\ Done
  /\ UNCHANGED <<lock, esElse>>

CloseEvent ==
  /\ es = "close"
  /\ Change(cur.found, [found EXCEPT !.phase = "closed", !.log = "AUTODELETE"])
  /\ Goto("remove")
  /\ UNCHANGED <<lock, esElse>>

\* Mutant: takes the event out of the list behind the back of the counters.
BugRemoveClosed ==
  /\ es = "remove" /\ lock = "free"
  /\ events' = events \ {cur.found}
  /\ UNCHANGED <<heap, nextId, counters>>
  /\ Done
  /\ UNCHANGED <<lock, esElse>>

RemoveClosed ==
  /\ es = "remove" /\ lock = "free"
  /\ RemoveEvent(cur.found)
  /\ Done
  /\ UNCHANGED <<lock, esElse>>

-----------------------------------------------------------------------------
(* cancel_events: all under the lock, the deletion after the loop.         *)

CancelTake ==
  /\ es = "cancel" /\ lock = "free"
  /\ lock' = "es"
  /\ Goto("cancelling")
  /\ UNCHANGED <<statusVars, esElse>>

\* The applications and match groups decide which of the events of the same
\* rule and host are cancelled: any of them may be.
CancelMark ==
  /\ es = "cancelling"
  /\ \E e \in events :
       /\ heap[e].rule = cur.rule /\ heap[e].host = cur.host
       /\ \A g \in cur.gone : g < e
       /\ Change(e, [heap[e] EXCEPT !.phase = "closed", !.log = "CANCELLED"])
       /\ With("cancelling", [cur EXCEPT !.gone = @ \cup {e}])
  /\ UNCHANGED <<lock, esElse>>

CancelSweep ==
  /\ es = "cancelling"
  /\ Goto("sweep")
  /\ UNCHANGED <<statusVars, lock, esElse>>

\* Backwards, so that the positions of the others stay right.
SweepCancelled ==
  /\ es = "sweep" /\ cur.gone # {}
  /\ \E e \in Last(cur.gone) :
       /\ RemoveEvent(e)
       /\ \/ Uncounted(e) /\ Leave
          \/ ~Uncounted(e) /\ With("sweep", [cur EXCEPT !.gone = @ \ {e}]) /\ UNCHANGED lock
  /\ UNCHANGED esElse

SweepEnd ==
  /\ es = "sweep" /\ cur.gone = {}
  /\ Leave
  /\ UNCHANGED <<statusVars, esElse>>

-----------------------------------------------------------------------------
(* The arrival of messages is up to the network, the rest to the thread.   *)

EsArrival == Receive \/ ReceiveOrphan

EsStep ==
  \/ ArchiveStore \/ CountRuleMatch
  \/ ScanFound \/ ScanSkip \/ ScanEnd \/ CountEventUpStep
  \/ TestCount \/ ReachCount \/ OpenCounted \/ LogCountReached
  \/ CloseEvent \/ RemoveClosed
  \/ LimitStep \/ OpenCreated
  \/ CancelTake \/ CancelMark \/ CancelSweep \/ SweepCancelled \/ SweepEnd

=============================================================================
