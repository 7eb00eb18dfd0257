----------------------------- MODULE EventStatus -----------------------------
(***************************************************************************)
(* The event store of the Event Console daemon: class EventStatus of       *)
(* cmk/ec/main.py.  It keeps the list of current events, the number of the *)
(* next event and the three counters the event limits are computed from.   *)
(*                                                                         *)
(* An event is a Python dictionary that several threads hold a reference   *)
(* to, so it outlives its removal from the list.  heap[e] is the e-th      *)
(* dictionary ever put into the list, and "events" the references that are *)
(* in the list now: new_event appends and nothing reorders the list, so    *)
(* its order is the order of the references.                               *)
(***************************************************************************)
EXTENDS Integers, Sequences, FiniteSets

CONSTANTS
  Host,      \* the host names of messages
  NoHost,    \* the empty host name of overflow events and of absent messages
  Rule,      \* the rule ids
  NoRule     \* the rule id None of an overflow event

ASSUME NamesAssumption == NoHost \notin Host /\ NoRule \notin Rule

VARIABLES
  heap,      \* every event dictionary, in the order of creation
  events,    \* _events
  nextId,    \* _next_event_id
  num,       \* num_existing_events
  byHost,    \* num_existing_events_by_host, 0 where the dictionary has no key
  hostKeys,  \* the keys of num_existing_events_by_host
  byRule     \* num_existing_events_by_rule, 0 where the dictionary has no key

statusVars == <<heap, events, nextId, num, byHost, hostKeys, byRule>>
counters == <<num, byHost, hostKeys, byRule>>

Hosts == Host \cup {NoHost}
Rules == Rule \cup {NoRule}
Phase == {"counting", "delayed", "open", "ack", "closed"}

\* The kinds of history entries written about an event.
What == {"NEW", "COUNTREACHED", "DELAYOVER", "UPDATE", "CHANGESTATE",
         "COUNTFAILED", "ORPHANED", "NOCOUNT", "EXPIRED", "AUTODELETE",
         "CANCELLED", "DELETE"}

\* down: host_in_downtime; live: live_until_phases, {} without a livetime;
\* log: the last history entry that was written about the event.
Event == [id : Nat, rule : Rules, host : Hosts, phase : Phase, count : Nat,
          down : BOOLEAN, live : SUBSET {"open", "ack"}, log : What]

Ref == 1..Len(heap)

\* The types of the store: the counters are not even known to be non-negative,
\* since _count_event_remove takes from them what was never put in.
StatusTypeOK ==
  /\ heap \in Seq(Event)
  /\ events \subseteq Ref
  /\ nextId \in Nat
  /\ num \in Int
  /\ byHost \in [Hosts -> Int]
  /\ hostKeys \subseteq Hosts
  /\ byRule \in [Rules -> Int]

StatusInit ==
  /\ heap = << >>
  /\ events = {}
  /\ nextId = 1
  /\ num = 0
  /\ byHost = [h \in Hosts |-> 0]
  /\ hostKeys = {}
  /\ byRule = [r \in Rules |-> 0]

-----------------------------------------------------------------------------
(* Reading the list.                                                       *)

\* The position of a reference in the list, from 0.
Index(e) == Cardinality({f \in events : f < e})

\* The first and the last of the events S, as sets that are empty if S is.
First(S) == {e \in S : \A f \in S : e <= f}
Last(S) == {e \in S : \A f \in S : e >= f}

OfHost(h) == {e \in events : heap[e].host = h}
OfRule(r) == {e \in events : heap[e].rule = r}

-----------------------------------------------------------------------------
(* Changing the list.                                                      *)

Fresh(r, h, p, d) ==
  [id |-> nextId, rule |-> r, host |-> h, phase |-> p, count |-> 1,
   down |-> d, live |-> {}, log |-> "NEW"]

\* Mutant: the id is not used up.
BugNewEventId(ev) ==
  /\ heap' = Append(heap, ev)
  /\ events' = events \cup {Len(heap) + 1}
  /\ UNCHANGED nextId
  /\ num' = num + 1
  /\ byHost' = [byHost EXCEPT ![ev.host] = @ + 1]
  /\ hostKeys' = hostKeys \cup {ev.host}
  /\ byRule' = [byRule EXCEPT ![ev.rule] = @ + 1]

NewEvent(ev) ==
  /\ heap' = Append(heap, ev)
  /\ events' = events \cup {Len(heap) + 1}
  /\ nextId' = nextId + 1
  /\ num' = num + 1
  /\ byHost' = [byHost EXCEPT ![ev.host] = @ + 1]
  /\ hostKeys' = hostKeys \cup {ev.host}
  /\ byRule' = [byRule EXCEPT ![ev.rule] = @ + 1]

\* _count_event_remove fails for a host that was never counted, with a
\* KeyError that the callers of EventStatus have to survive.
Uncounted(e) == heap[e].host \notin hostKeys

\* Mutant: the counter of the rule is forgotten.
BugCountEventRemove(e) ==
  /\ num' = num - 1
  /\ byHost' = [byHost EXCEPT ![heap[e].host] = @ - 1]
  /\ UNCHANGED <<hostKeys, byRule>>

CountEventRemove(e) ==
  /\ num' = num - 1
  /\ UNCHANGED hostKeys
  /\ IF Uncounted(e)
     THEN UNCHANGED <<byHost, byRule>>
     ELSE /\ byHost' = [byHost EXCEPT ![heap[e].host] = @ - 1]
          /\ byRule' = [byRule EXCEPT ![heap[e].rule] = @ - 1]

\* Mutant: counts the removal before it knows that the event is present.
BugRemoveEvent(e) ==
  /\ events' = events \ {e}
  /\ UNCHANGED <<heap, nextId>>
  /\ CountEventRemove(e)

RemoveEvent(e) ==
  /\ events' = events \ {e}
  /\ UNCHANGED <<heap, nextId>>
  /\ IF e \in events THEN CountEventRemove(e) ELSE UNCHANGED counters

\* delete_event, the command of a user
DeleteEvent(e) ==
  /\ e \in events
  /\ heap' = [heap EXCEPT ![e].phase = "closed", ![e].log = "DELETE"]
  /\ events' = events \ {e}
  /\ UNCHANGED nextId
  /\ CountEventRemove(e)

\* Every other thread that holds a reference changes the dictionary in place.
Change(e, new) ==
  /\ heap' = [heap EXCEPT ![e] = new]
  /\ UNCHANGED <<events, nextId, counters>>

\* count_event_up: the event takes over all fields of the new message, its
\* host and downtime among them; c is one more than the count that was read.
CountEventUp(e, h, d, c) ==
  Change(e, [heap[e] EXCEPT !.host = h, !.down = d, !.count = c])

ArchiveEvent ==
  /\ nextId' = nextId + 1
  /\ UNCHANGED <<heap, events, counters>>

Flush ==
  /\ events' = {}
  /\ nextId' = 1
  /\ num' = 0
  /\ byHost' = [h \in Hosts |-> 0]
  /\ hostKeys' = {}
  /\ byRule' = [r \in Rules |-> 0]
  /\ UNCHANGED heap

-----------------------------------------------------------------------------
(* The class on its own, used by one client at a time.                     *)

\* (Written so that TLC can evaluate it on a given step.)

New ==
  /\ Len(heap') = Len(heap) + 1
  /\ heap'[Len(heap) + 1] \in Event
  /\ heap'[Len(heap) + 1].id = nextId
  /\ NewEvent(heap'[Len(heap) + 1])

Remove == \E e \in Ref : RemoveEvent(e)
Delete == \E e \in Ref : DeleteEvent(e)

\* id and rule of an event never change; its host only in count_event_up.
Touch == \E e \in Ref :
  /\ Len(heap') = Len(heap)
  /\ heap'[e] \in Event
  /\ heap'[e].id = heap[e].id
  /\ heap'[e].rule = heap[e].rule
  /\ heap'[e].host = heap[e].host
  /\ Change(e, heap'[e])

CountUp == \E e \in Ref, h \in Hosts, d \in BOOLEAN :
  /\ Len(heap') = Len(heap)
  /\ heap'[e].count \in Nat
  /\ CountEventUp(e, h, d, heap'[e].count)

StatusNext == New \/ Remove \/ Delete \/ Touch \/ CountUp \/ ArchiveEvent \/ Flush

\* The store changes by complete operations of the class only.
StatusSpec == StatusInit /\ [][StatusNext]_statusVars

-----------------------------------------------------------------------------
(* What the store promises to its clients.                                 *)

\* The overall counter is the length of the list, whatever the clients do,
\* even if a removal stopped with a KeyError.
NumExact == num = Cardinality(events)

\* No two events of the list have the same id, and the next id is larger
\* than all of them: event(id) and delete_event(id) find the right event.
UniqueIds ==
  \A e \in events :
    /\ heap[e].id < nextId
    /\ \A f \in events : heap[e].id = heap[f].id => e = f

\* The counters of each host and of each rule are the numbers of their events
\* in the list, so that the limits compare what is really there.  It holds as
\* long as no event changes its host: the KeyError of a missing host comes
\* before the rule is counted.
CountersExact ==
  /\ \A h \in Hosts : byHost[h] = Cardinality(OfHost(h))
  /\ \A r \in Rules : byRule[r] = Cardinality(OfRule(r))
=============================================================================
