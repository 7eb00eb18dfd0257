------------------------- MODULE EventStatus_proofs -------------------------
(***************************************************************************)
(* Theorems about EventStatus, for all hosts, rules and histories: types,  *)
(* exact counters, and the uniqueness of the event ids.                    *)
(***************************************************************************)
EXTENDS EventStatus, FiniteSetTheorems, WellFoundedInduction, TLAPS

\* A list of events is finite, so its length is a number.
LEMMA EventsFinite ==
  ASSUME StatusTypeOK
  PROVE  IsFiniteSet(events) /\ Len(heap) \in Nat
<1>1. Len(heap) \in Nat
  BY DEF StatusTypeOK
<1>2. IsFiniteSet(1..Len(heap))
  BY <1>1, FS_Interval
<1> QED
  BY <1>1, <1>2, FS_Subset DEF StatusTypeOK, Ref

\* Replacing an event by an event keeps the heap a sequence of events.
LEMMA ReplaceOK ==
  ASSUME NEW s \in Seq(Event), NEW e \in 1..Len(s), NEW new \in Event
  PROVE  /\ [s EXCEPT ![e] = new] \in Seq(Event)
         /\ Len([s EXCEPT ![e] = new]) = Len(s)
  OBVIOUS

\* So does appending one.
LEMMA AppendOK ==
  ASSUME NEW s \in Seq(Event), NEW new \in Event
  PROVE  /\ Append(s, new) \in Seq(Event)
         /\ Len(Append(s, new)) = Len(s) + 1
         /\ \A e \in 1..Len(s) : Append(s, new)[e] = s[e]
         /\ Append(s, new)[Len(s) + 1] = new
  OBVIOUS

\* Removing an event, whether a KeyError ends it or not, keeps the types.
LEMMA CountEventRemoveOK ==
  ASSUME StatusTypeOK, NEW e \in Ref, CountEventRemove(e)
  PROVE  num' \in Int /\ byHost' \in [Hosts -> Int] /\ hostKeys' \subseteq Hosts
           /\ byRule' \in [Rules -> Int]
  BY DEF StatusTypeOK, CountEventRemove, Ref

\* The variables of the store keep their types in every step.
LEMMA StatusTypeStep ==
  ASSUME StatusTypeOK, [StatusNext]_statusVars
  PROVE  StatusTypeOK'
<1>1. CASE New
  <2> DEFINE ev == heap'[Len(heap) + 1]
  <2>1. ev \in Event /\ NewEvent(ev)
    BY <1>1 DEF New
  <2>2. heap' \in Seq(Event) /\ Len(heap') = Len(heap) + 1
    BY <2>1, AppendOK DEF NewEvent, StatusTypeOK
  <2>3. ev.host \in Hosts /\ ev.rule \in Rules
    BY <2>1 DEF Event
  <2> HIDE DEF ev
  <2>4. Len(heap) \in Nat /\ events \subseteq 1..Len(heap)
    BY DEF StatusTypeOK, Ref
  <2>5. events' \subseteq 1..Len(heap')
    <3>1. events' = events \cup {Len(heap) + 1}
      BY <2>1 DEF NewEvent
    <3>2. 1..Len(heap) \subseteq 1..(Len(heap) + 1) /\ Len(heap) + 1 \in 1..(Len(heap) + 1)
      BY <2>4
    <3> QED
      BY <2>2, <2>4, <3>1, <3>2
  <2> QED
    BY <2>1, <2>2, <2>3, <2>5 DEF NewEvent, StatusTypeOK, Ref
<1>2. CASE Remove
  <2> PICK e \in Ref : RemoveEvent(e)
    BY <1>2 DEF Remove
  <2> QED
    BY CountEventRemoveOK DEF RemoveEvent, StatusTypeOK, Ref, counters
<1>3. CASE Delete
  <2> PICK e \in Ref : DeleteEvent(e)
    BY <1>3 DEF Delete
  <2> DEFINE new == [heap[e] EXCEPT !.phase = "closed", !.log = "DELETE"]
  <2>1. heap[e] \in Event
    BY DEF StatusTypeOK, Ref
  <2>2. new \in Event
    BY <2>1 DEF Event, Phase, What
  <2>3. heap' = [heap EXCEPT ![e] = new]
    BY DEF DeleteEvent
  <2>4. heap' \in Seq(Event) /\ Len(heap') = Len(heap)
    BY <2>2, <2>3, ReplaceOK DEF StatusTypeOK, Ref
  <2> QED
    BY <2>4, CountEventRemoveOK DEF DeleteEvent, StatusTypeOK, Ref
<1>4. CASE Touch
  <2> PICK e \in Ref : heap'[e] \in Event /\ Change(e, heap'[e])
    BY <1>4 DEF Touch
  <2>1. heap' \in Seq(Event) /\ Len(heap') = Len(heap)
    BY ReplaceOK DEF Change, StatusTypeOK, Ref
  <2> QED
    BY <2>1 DEF Change, StatusTypeOK, Ref, counters
<1>5. CASE CountUp
  <2> PICK e \in Ref, h \in Hosts, d \in BOOLEAN :
         heap'[e].count \in Nat /\ CountEventUp(e, h, d, heap'[e].count)
    BY <1>5 DEF CountUp
  <2> DEFINE c == heap'[e].count
             new == [heap[e] EXCEPT !.host = h, !.down = d, !.count = c]
  <2>1. heap[e] \in Event
    BY DEF StatusTypeOK, Ref
  <2> HIDE DEF c
  <2>2. new \in Event
    BY <2>1 DEF Event, c
  <2>3. heap' = [heap EXCEPT ![e] = new] /\ UNCHANGED <<events, nextId, counters>>
    BY DEF CountEventUp, Change, c
  <2>4. heap' \in Seq(Event) /\ Len(heap') = Len(heap)
    BY <2>2, <2>3, ReplaceOK DEF StatusTypeOK, Ref
  <2> QED
    BY <2>3, <2>4 DEF StatusTypeOK, Ref, counters
<1>6. CASE ArchiveEvent
  BY <1>6 DEF ArchiveEvent, StatusTypeOK, Ref, counters
<1>7. CASE Flush
  BY <1>7 DEF Flush, StatusTypeOK, Ref
<1>8. CASE UNCHANGED statusVars
  BY <1>8 DEF statusVars, StatusTypeOK, Ref
<1> QED
  BY <1>1, <1>2, <1>3, <1>4, <1>5, <1>6, <1>7, <1>8 DEF StatusNext

\* The variables of the store have their types in every state.
THEOREM StatusTypeCorrect == StatusSpec => []StatusTypeOK
<1>1. StatusInit => StatusTypeOK
  BY DEF StatusInit, StatusTypeOK, Ref, Hosts, Rules, Event
<1> QED
  BY <1>1, StatusTypeStep, PTL DEF StatusSpec
-----------------------------------------------------------------------------
\* What each operation does to the list, and to the ids of its events.
LEMMA StepEffect ==
  ASSUME StatusTypeOK, StatusNext
  PROVE  \/ /\ events' = events \cup {Len(heap) + 1} /\ num' = num + 1
            /\ nextId' = nextId + 1 /\ heap'[Len(heap) + 1].id = nextId
            /\ \A e \in Ref : heap'[e] = heap[e]
         \/ /\ \/ events' = events /\ num' = num
               \/ \E e \in events : events' = events \ {e} /\ num' = num - 1
            /\ nextId' = nextId
            /\ \A e \in Ref : heap'[e].id = heap[e].id
         \/ events' = events /\ num' = num /\ nextId' = nextId + 1 /\ heap' = heap
         \/ events' = {} /\ num' = 0
<1>1. CASE New
  <2>1. NewEvent(heap'[Len(heap) + 1]) /\ heap'[Len(heap) + 1] \in Event
           /\ heap'[Len(heap) + 1].id = nextId
    BY <1>1 DEF New
  <2>2. \A e \in Ref : heap'[e] = heap[e]
    BY <2>1, AppendOK DEF NewEvent, StatusTypeOK, Ref
  <2> QED
    BY <2>1, <2>2 DEF NewEvent
<1>2. CASE Remove
  BY <1>2 DEF Remove, RemoveEvent, CountEventRemove, counters
<1>3. CASE Delete
  <2> PICK e \in Ref : DeleteEvent(e)
    BY <1>3 DEF Delete
  <2>1. heap' = [heap EXCEPT ![e] = [heap[e] EXCEPT !.phase = "closed", !.log = "DELETE"]]
    BY DEF DeleteEvent
  <2>2. \A f \in Ref : heap[f] \in Event
    BY DEF StatusTypeOK, Ref
  <2>3. \A f \in Ref : heap'[f].id = heap[f].id
    BY <2>1, <2>2 DEF StatusTypeOK, Ref, Event
  <2> QED
    BY <2>3 DEF DeleteEvent, CountEventRemove
<1>4. CASE Touch
  <2> PICK e \in Ref : heap'[e].id = heap[e].id /\ Change(e, heap'[e])
    BY <1>4 DEF Touch
  <2> DEFINE new == heap'[e]
  <2>1. new.id = heap[e].id
    OBVIOUS
  <2>2. heap' = [heap EXCEPT ![e] = new] /\ UNCHANGED <<events, nextId, counters>>
    BY DEF Change
  <2> HIDE DEF new
  <2>3. \A f \in Ref : heap'[f].id = heap[f].id
    BY <2>1, <2>2 DEF StatusTypeOK, Ref
  <2> QED
    BY <2>2, <2>3 DEF counters
<1>5. CASE CountUp
  <2> PICK e \in Ref, h \in Hosts, d \in BOOLEAN : CountEventUp(e, h, d, heap'[e].count)
    BY <1>5 DEF CountUp
  <2> DEFINE c == heap'[e].count
  <2> HIDE DEF c
  <2>1. /\ heap' = [heap EXCEPT ![e] = [heap[e] EXCEPT !.host = h, !.down = d, !.count = c]]
        /\ UNCHANGED <<events, nextId, counters>>
    BY DEF CountEventUp, Change, c
  <2>2. \A f \in Ref : heap[f] \in Event
    BY DEF StatusTypeOK, Ref
  <2>3. \A f \in Ref : heap'[f].id = heap[f].id
    BY <2>1, <2>2 DEF StatusTypeOK, Ref, Event
  <2> QED
    BY <2>1, <2>3 DEF counters
<1>6. CASE ArchiveEvent
  BY <1>6 DEF ArchiveEvent, counters
<1>7. CASE Flush
  BY <1>7 DEF Flush
<1> QED
  BY <1>1, <1>2, <1>3, <1>4, <1>5, <1>6, <1>7 DEF StatusNext

\* A step of the store keeps its overall counter exact.
LEMMA NumStep ==
  ASSUME StatusTypeOK, NumExact, [StatusNext]_statusVars
  PROVE  NumExact'
<1>1. IsFiniteSet(events) /\ Len(heap) \in Nat /\ Len(heap) + 1 \notin events
  BY EventsFinite DEF StatusTypeOK, Ref
<1>2. Cardinality(events) \in Nat
  BY <1>1, FS_CardinalityType
<1>3. CASE events' = events /\ num' = num
  BY <1>3 DEF NumExact
<1>4. CASE events' = events \cup {Len(heap) + 1} /\ num' = num + 1
  BY <1>1, <1>4, FS_AddElement DEF NumExact
<1>5. CASE \E e \in events : events' = events \ {e} /\ num' = num - 1
  BY <1>1, <1>5, FS_RemoveElement DEF NumExact
<1>6. CASE events' = {} /\ num' = 0
  BY <1>6, FS_EmptySet DEF NumExact
<1> QED
  BY <1>3, <1>4, <1>5, <1>6, StepEffect DEF statusVars

\* The overall counter is the number of events in the list, in every state:
\* the event limits are computed from it, and a KeyError in the counters of
\* the hosts never disturbs it.
THEOREM NumIsExact == StatusSpec => []NumExact
<1>1. StatusInit => NumExact
  BY FS_EmptySet DEF StatusInit, NumExact
<1> QED
  BY <1>1, NumStep, StatusTypeCorrect, PTL DEF StatusSpec

\* No two events of the list have the same id, so a command that names an
\* event by its id reaches the event that the user saw.
THEOREM IdsAreUnique == StatusSpec => []UniqueIds
<1>1. StatusInit => UniqueIds
  BY DEF StatusInit, UniqueIds
<1>2. ASSUME StatusTypeOK, UniqueIds, [StatusNext]_statusVars
      PROVE  UniqueIds'
  <2>1. events \subseteq Ref /\ nextId \in Nat
    BY <1>2 DEF StatusTypeOK
  <2>6. \A e \in Ref : heap[e] \in Event
    BY <1>2 DEF StatusTypeOK, Ref
  <2>7. \A e \in Ref : heap[e].id \in Nat
    BY <2>6 DEF Event
  <2>2. CASE /\ events' = events \cup {Len(heap) + 1} /\ nextId' = nextId + 1
             /\ heap'[Len(heap) + 1].id = nextId
             /\ \A e \in Ref : heap'[e] = heap[e]
    BY <1>2, <2>1, <2>7, <2>2 DEF UniqueIds
  <2>3. CASE events' \subseteq events /\ nextId' = nextId /\ \A e \in Ref : heap'[e].id = heap[e].id
    BY <1>2, <2>1, <2>7, <2>3 DEF UniqueIds
  <2>4. CASE events' = events /\ nextId' = nextId + 1 /\ heap' = heap
    BY <1>2, <2>1, <2>7, <2>4 DEF UniqueIds
  <2>5. CASE events' = {}
    BY <2>5 DEF UniqueIds
  <2> QED
    BY <1>2, <2>2, <2>3, <2>4, <2>5, StepEffect DEF statusVars
<1> QED
  BY <1>1, <1>2, StatusTypeCorrect, PTL DEF StatusSpec
-----------------------------------------------------------------------------
(* The counters of hosts and rules, as long as no event changes its host.  *)

HostsStay == \A e \in Ref : heap'[e].host = heap[e].host

\* A removal never meets an event of a host that was not counted.
CountersInv == CountersExact /\ \A e \in events : ~Uncounted(e)

\* What a step does to the counters of an event's host and rule.
CountedFor(e, n) ==
  /\ byHost' = [byHost EXCEPT ![heap'[e].host] = @ + n]
  /\ byRule' = [byRule EXCEPT ![heap'[e].rule] = @ + n]

LEMMA CountersEffect ==
  ASSUME StatusTypeOK, CountersInv, [StatusNext]_statusVars, HostsStay
  PROVE  /\ hostKeys \subseteq hostKeys' \/ events' = {}
         /\ \A e \in Ref : heap'[e].rule = heap[e].rule
         /\ \/ /\ events' = events \cup {Len(heap) + 1} /\ CountedFor(Len(heap) + 1, 1)
               /\ heap'[Len(heap) + 1] \in Event /\ heap'[Len(heap) + 1].host \in hostKeys'
            \/ \E e \in events : events' = events \ {e} /\ CountedFor(e, -1)
            \/ UNCHANGED <<events, byHost, byRule>>
            \/ /\ events' = {} /\ byHost' = [h \in Hosts |-> 0]
               /\ byRule' = [r \in Rules |-> 0]
<1>0. /\ events \subseteq Ref /\ heap \in Seq(Event)
      /\ \A e \in Ref : heap[e] \in Event
  BY DEF StatusTypeOK, Ref
<1>1. CASE New
  <2>1. NewEvent(heap'[Len(heap) + 1]) /\ heap'[Len(heap) + 1] \in Event
    BY <1>1 DEF New
  <2>2. \A e \in Ref : heap'[e] = heap[e]
    BY <2>1, AppendOK DEF NewEvent, StatusTypeOK, Ref
  <2> QED
    BY <2>1, <2>2 DEF NewEvent, CountedFor
<1>2. CASE Remove
  <2> PICK e \in Ref : RemoveEvent(e)
    BY <1>2 DEF Remove
  <2>1. heap' = heap
    BY DEF RemoveEvent
  <2>2. CASE e \in events
    BY <2>1, <2>2 DEF RemoveEvent, CountEventRemove, CountersInv, CountedFor
  <2>3. CASE e \notin events
    BY <2>1, <2>3 DEF RemoveEvent, counters
  <2> QED
    BY <2>2, <2>3
<1>3. CASE Delete
  <2> PICK e \in Ref : DeleteEvent(e)
    BY <1>3 DEF Delete
  <2> DEFINE new == [heap[e] EXCEPT !.phase = "closed", !.log = "DELETE"]
  <2>1. heap' = [heap EXCEPT ![e] = new] /\ new.host = heap[e].host /\ new.rule = heap[e].rule
    BY <1>0 DEF DeleteEvent, Event
  <2> HIDE DEF new
  <2>2. \A f \in Ref : heap'[f].rule = heap[f].rule /\ heap'[f].host = heap[f].host
    BY <1>0, <2>1 DEF Ref
  <2> QED
    BY <2>2 DEF DeleteEvent, CountEventRemove, CountersInv, CountedFor
<1>4. CASE Touch
  <2> PICK e \in Ref : heap'[e].rule = heap[e].rule /\ Change(e, heap'[e])
    BY <1>4 DEF Touch
  <2> DEFINE new == heap'[e]
  <2>1. new.rule = heap[e].rule /\ heap' = [heap EXCEPT ![e] = new]
    BY DEF Change
  <2> HIDE DEF new
  <2>2. \A f \in Ref : heap'[f].rule = heap[f].rule
    BY <1>0, <2>1 DEF Ref
  <2> QED
    BY <2>2 DEF Change, counters
<1>5. CASE CountUp
  <2> PICK e \in Ref, h \in Hosts, d \in BOOLEAN : CountEventUp(e, h, d, heap'[e].count)
    BY <1>5 DEF CountUp
  <2> DEFINE c == heap'[e].count
             new == [heap[e] EXCEPT !.host = h, !.down = d, !.count = c]
  <2> HIDE DEF c
  <2>1. heap' = [heap EXCEPT ![e] = new] /\ new.rule = heap[e].rule
    BY <1>0 DEF CountEventUp, Change, Event, c
  <2> HIDE DEF new
  <2>2. \A f \in Ref : heap'[f].rule = heap[f].rule
    BY <1>0, <2>1 DEF Ref
  <2> QED
    BY <2>2 DEF CountEventUp, Change, counters
<1>6. CASE ArchiveEvent \/ UNCHANGED statusVars
  BY <1>6 DEF ArchiveEvent, counters, statusVars
<1>7. CASE Flush
  BY <1>7 DEF Flush
<1> QED
  BY <1>1, <1>2, <1>3, <1>4, <1>5, <1>6, <1>7 DEF StatusNext

\* Hence each counter goes with the set that it counts.
LEMMA CountersStep ==
  ASSUME StatusTypeOK, CountersInv, [StatusNext]_statusVars, HostsStay
  PROVE  CountersInv'
<1>0. /\ events \subseteq Ref /\ Len(heap) + 1 \notin Ref /\ StatusTypeOK'
      /\ \A e \in Ref : heap[e] \in Event
      /\ \A e \in Ref : heap'[e].host = heap[e].host /\ heap'[e].rule = heap[e].rule
      /\ \A h \in Hosts : byHost[h] \in Int
      /\ \A r \in Rules : byRule[r] \in Int
  BY CountersEffect, StatusTypeStep DEF StatusTypeOK, Ref, HostsStay
<1>1. \A h : IsFiniteSet(OfHost(h)) /\ IsFiniteSet(OfRule(h))
  <2>1. \A h : OfHost(h) \subseteq events /\ OfRule(h) \subseteq events
    BY DEF OfHost, OfRule
  <2> QED
    BY <2>1, EventsFinite, FS_Subset
<1>2. \A h : Cardinality(OfHost(h)) \in Nat /\ Cardinality(OfRule(h)) \in Nat
  BY <1>1, FS_CardinalityType
<1>3. /\ \A h \in Hosts : byHost[h] = Cardinality(OfHost(h))
      /\ \A r \in Rules : byRule[r] = Cardinality(OfRule(r))
      /\ \A e \in events : heap[e].host \in hostKeys
  BY DEF CountersInv, CountersExact, Uncounted
<1>4. CASE /\ events' = events \cup {Len(heap) + 1} /\ CountedFor(Len(heap) + 1, 1)
           /\ heap'[Len(heap) + 1] \in Event /\ heap'[Len(heap) + 1].host \in hostKeys'
  <2> DEFINE new == Len(heap) + 1
  <2>1. heap'[new].host \in Hosts /\ heap'[new].rule \in Rules
    BY <1>4 DEF Event
  <2>2. \A h : OfHost(h)' = IF h = heap'[new].host THEN OfHost(h) \cup {new} ELSE OfHost(h)
    BY <1>0, <1>4 DEF OfHost
  <2>3. \A r : OfRule(r)' = IF r = heap'[new].rule THEN OfRule(r) \cup {new} ELSE OfRule(r)
    BY <1>0, <1>4 DEF OfRule
  <2>4. \A h : new \notin OfHost(h) /\ new \notin OfRule(h)
    BY <1>0 DEF OfHost, OfRule
  <2>5. \A h : /\ Cardinality(OfHost(h) \cup {new}) = Cardinality(OfHost(h)) + 1
               /\ Cardinality(OfRule(h) \cup {new}) = Cardinality(OfRule(h)) + 1
    BY <1>1, <2>4, FS_AddElement
  <2>6. \A h \in Hosts : byHost'[h] = IF h = heap'[new].host THEN byHost[h] + 1 ELSE byHost[h]
    BY <1>4 DEF CountedFor, StatusTypeOK
  <2>7. \A r \in Rules : byRule'[r] = IF r = heap'[new].rule THEN byRule[r] + 1 ELSE byRule[r]
    BY <1>4 DEF CountedFor, StatusTypeOK
  <2>8. \A h \in Hosts : byHost'[h] = Cardinality(OfHost(h)')
    BY <1>3, <2>2, <2>5, <2>6
  <2>9. \A r \in Rules : byRule'[r] = Cardinality(OfRule(r)')
    BY <1>3, <2>3, <2>5, <2>7
  <2>10. \A e \in events' : heap'[e].host \in hostKeys'
    BY <1>0, <1>3, <1>4, CountersEffect
  <2> QED
    BY <2>8, <2>9, <2>10 DEF CountersInv, CountersExact, Uncounted
<1>5. ASSUME NEW e \in events, events' = events \ {e}, CountedFor(e, -1)
      PROVE  CountersInv'
  <2>0. e \in Ref
    BY <1>0
  <2>2. \A h : OfHost(h)' = IF h = heap'[e].host THEN OfHost(h) \ {e} ELSE OfHost(h)
    BY <1>0, <1>5 DEF OfHost
  <2>3. \A r : OfRule(r)' = IF r = heap'[e].rule THEN OfRule(r) \ {e} ELSE OfRule(r)
    BY <1>0, <1>5 DEF OfRule
  <2>4. e \in OfHost(heap'[e].host) /\ e \in OfRule(heap'[e].rule)
    BY <1>0 DEF OfHost, OfRule
  <2>5. /\ Cardinality(OfHost(heap'[e].host) \ {e}) = Cardinality(OfHost(heap'[e].host)) - 1
        /\ Cardinality(OfRule(heap'[e].rule) \ {e}) = Cardinality(OfRule(heap'[e].rule)) - 1
    BY <1>1, <2>4, FS_RemoveElement
  <2>6. \A h \in Hosts : byHost'[h] = IF h = heap'[e].host THEN byHost[h] - 1 ELSE byHost[h]
    BY <1>0, <1>5 DEF CountedFor, StatusTypeOK
  <2>7. \A r \in Rules : byRule'[r] = IF r = heap'[e].rule THEN byRule[r] - 1 ELSE byRule[r]
    BY <1>0, <1>5 DEF CountedFor, StatusTypeOK
  <2>8. \A h \in Hosts : byHost'[h] = Cardinality(OfHost(h)')
    BY <1>3, <2>2, <2>5, <2>6
  <2>9. \A r \in Rules : byRule'[r] = Cardinality(OfRule(r)')
    BY <1>3, <2>3, <2>5, <2>7
  <2>10. \A f \in events' : heap'[f].host \in hostKeys'
    BY <1>0, <1>3, <1>5, CountersEffect
  <2> QED
    BY <2>8, <2>9, <2>10 DEF CountersInv, CountersExact, Uncounted
<1>6. CASE UNCHANGED <<events, byHost, byRule>>
  <2>1. \A h : OfHost(h)' = OfHost(h) /\ OfRule(h)' = OfRule(h)
    BY <1>0, <1>6 DEF OfHost, OfRule
  <2>2. \A f \in events' : heap'[f].host \in hostKeys'
    BY <1>0, <1>3, <1>6, CountersEffect
  <2> QED
    BY <1>3, <1>6, <2>1, <2>2 DEF CountersInv, CountersExact, Uncounted
<1>7. CASE /\ events' = {} /\ byHost' = [h \in Hosts |-> 0]
           /\ byRule' = [r \in Rules |-> 0]
  <2>1. \A h : OfHost(h)' = {} /\ OfRule(h)' = {}
    BY <1>7 DEF OfHost, OfRule
  <2> QED
    BY <1>7, <2>1, FS_EmptySet DEF CountersInv, CountersExact
<1> QED
  BY <1>4, <1>5, <1>6, <1>7, CountersEffect

LEMMA CountersInit ==
  ASSUME StatusInit
  PROVE  CountersInv
<1>1. \A h : OfHost(h) = {} /\ OfRule(h) = {}
  BY DEF StatusInit, OfHost, OfRule
<1> QED
  BY <1>1, FS_EmptySet DEF StatusInit, CountersInv, CountersExact

\* The counters of the hosts and rules are what their names say, and so the
\* limits compare what is in the list, if no event ever changes its host: the
\* one thing a client of EventStatus has to take care of.
THEOREM CountersAreExact == StatusSpec /\ [][HostsStay]_statusVars => []CountersExact
<1>1. ASSUME StatusTypeOK, CountersInv, [StatusNext]_statusVars, [HostsStay]_statusVars
      PROVE  CountersInv'
  <2>1. UNCHANGED statusVars => HostsStay
    BY DEF statusVars, HostsStay
  <2> QED
    BY <1>1, <2>1, CountersStep
<1>2. CountersInv => CountersExact
  BY DEF CountersInv
<1> QED
  BY <1>1, <1>2, CountersInit, StatusTypeCorrect, PTL DEF StatusSpec
-----------------------------------------------------------------------------
(* The loops over the list go by position, and remove from its ends.       *)

\* Every set of events has a first and a last one ...
LEMMA LeastExists ==
  ASSUME NEW S, S \subseteq Nat, S # {}
  PROVE  \E e \in S : \A f \in S : e <= f
<1> DEFINE R == {ss \in Nat \X Nat : ss[1] < ss[2]}
<1>1. IsWellFoundedOn(R, Nat)
  BY NatLessThanWellFounded DEF OpToRel
<1>2. \E e \in S : \A f \in S : <<f, e>> \notin R
  <2> HIDE DEF R
  <2> QED
    BY <1>1, WFMin
<1>3. \A e, f \in S : f < e => <<f, e>> \in R
  OBVIOUS
<1> HIDE DEF R
<1>4. \A e, f \in S : ~(f < e) => e <= f
  OBVIOUS
<1> QED
  BY <1>2, <1>3, <1>4

LEMMA GreatestExists ==
  ASSUME NEW S, NEW n \in Nat, S \subseteq 1..n, S # {}
  PROVE  \E e \in S : \A f \in S : f <= e
<1> DEFINE T == {n - e : e \in S}
<1>0. \A e \in S : e \in 1..n /\ e \in Nat /\ n - e \in Nat
  OBVIOUS
<1>1. T \subseteq Nat /\ T # {}
  BY <1>0
<1>2. PICK t \in T : \A u \in T : t <= u
  <2> HIDE DEF T
  <2> QED
    BY <1>1, LeastExists
<1>3. PICK e \in S : t = n - e
  BY <1>2
<1>4. ASSUME NEW f \in S
      PROVE  f <= e
  <2>1. n - f \in T
    OBVIOUS
  <2>2. n - e <= n - f
    <3> HIDE DEF T
    <3> QED
      BY <1>2, <1>3, <2>1
  <2> QED
    BY <1>0, <2>2
<1> QED
  BY <1>4

\* ... and the list an event at each position.
LEMMA PositionExists ==
  ASSUME NEW n \in Nat, events \subseteq 1..n, NEW i \in Nat, i < Cardinality(events)
  PROVE  \E e \in events : Index(e) = i
<1> DEFINE Before(e) == {f \in events : f < e}
           S == {e \in events : Index(e) >= i}
<1>0. IsFiniteSet(events) /\ Cardinality(events) \in Nat /\ \A e \in events : e \in Nat
  <2>1. IsFiniteSet(1..n) /\ \A e \in 1..n : e \in Nat
    BY FS_Interval
  <2> QED
    BY <2>1, FS_Subset, FS_CardinalityType
<1>1. \A e \in events : Index(e) = Cardinality(Before(e)) /\ Index(e) \in Nat /\ IsFiniteSet(Before(e))
  <2> SUFFICES ASSUME NEW e \in events
               PROVE  Index(e) = Cardinality(Before(e)) /\ Index(e) \in Nat /\ IsFiniteSet(Before(e))
    OBVIOUS
  <2>1. IsFiniteSet(Before(e))
    BY <1>0, FS_Subset
  <2> QED
    BY <2>1, FS_CardinalityType DEF Index
<1>2. S # {}
  <2>1. events # {}
    BY <1>0, FS_EmptySet
  <2>2. PICK e \in events : \A f \in events : f <= e
    BY <2>1, GreatestExists
  <2>3. Before(e) = events \ {e}
    <3>1. \A f \in events : f < e <=> f # e
      BY <1>0, <2>2
    <3> QED
      BY <3>1
  <2>4. Index(e) = Cardinality(events) - 1
    BY <1>0, <1>1, <2>3, FS_RemoveElement
  <2> QED
    BY <1>0, <2>4
<1>3. PICK e \in S : \A f \in S : e <= f
  <2>1. S \subseteq Nat
    BY <1>0
  <2> HIDE DEF S
  <2> QED
    BY <1>2, <2>1, LeastExists
<1>4. CASE Before(e) = {}
  <2>1. Index(e) = 0
    BY <1>1, <1>4, FS_EmptySet
  <2> QED
    BY <2>1
<1>5. CASE Before(e) # {}
  <2>1. PICK p \in Before(e) : \A f \in Before(e) : f <= p
    BY <1>5, GreatestExists
  <2>2. Before(e) = Before(p) \cup {p} /\ p \notin Before(p) /\ p \in events
    <3>1. p \in events /\ p < e
      BY <2>1
    <3>2. \A f \in events : f < e <=> f < p \/ f = p
      <4> SUFFICES ASSUME NEW f \in events
                   PROVE  f < e <=> f < p \/ f = p
        OBVIOUS
      <4>1. f < e => f <= p
        BY <2>1
      <4>2. e \in Nat /\ f \in Nat /\ p \in Nat
        BY <1>0, <3>1
      <4> QED
        BY <3>1, <4>1, <4>2
    <3>3. ~(p < p)
      BY <1>0, <3>1
    <3> QED
      BY <3>1, <3>2, <3>3
  <2>3. Index(e) = Index(p) + 1
    <3>1. /\ Index(e) = Cardinality(Before(e)) /\ Index(p) = Cardinality(Before(p))
          /\ IsFiniteSet(Before(p))
      BY <1>1, <2>2
    <3> HIDE DEF Before
    <3> QED
      BY <2>2, <3>1, FS_AddElement
  <2>4. ~(Index(p) >= i)
    <3>1. p < e /\ p \in Nat /\ e \in Nat
      BY <1>0, <2>1
    <3>2. p \notin S
      BY <1>3, <3>1
    <3> QED
      BY <2>2, <3>2
  <2>5. Index(p) \in Nat /\ Index(e) >= i
    BY <1>1, <2>2
  <2> QED
    BY <2>3, <2>4, <2>5
<1> QED
  BY <1>4, <1>5
=============================================================================
