---------------------------- MODULE Housekeeping -----------------------------
(***************************************************************************)
(* do_housekeeping of the main thread: hk_handle_event_timeouts, then      *)
(* hk_check_expected_messages, then hk_cleanup_downtime_events, all under  *)
(* event_status.lock and lock_configuration.  No other thread changes the  *)
(* list meanwhile, but the EventServer may change the events in it.        *)
(***************************************************************************)
EXTENDS EventThreads

hkElse == <<rules, esVars>>

\* The end of the "with" block, reached or left by a KeyError.
\* Mutant: the lock is not given back.
BugHkLeave ==
  /\ hk' = "idle" /\ todo' = {} /\ purge' = {} /\ pos' = 0
  /\ UNCHANGED <<lock, absent>>

HkLeave ==
  /\ lock' = "free"
  /\ hk' = "idle" /\ todo' = {} /\ purge' = {} /\ pos' = 0
  /\ UNCHANGED absent

\* Mutant: does not wait for the lock.
BugHkStart ==
  /\ hk = "idle"
  /\ lock' = "hk"
  /\ hk' = "timeouts" /\ todo' = events
  /\ UNCHANGED <<statusVars, purge, pos, absent, hkElse>>

HkStart ==
  /\ hk = "idle" /\ lock = "free"
  /\ lock' = "hk"
  /\ hk' = "timeouts" /\ todo' = events
  /\ UNCHANGED <<statusVars, purge, pos, absent, hkElse>>

-----------------------------------------------------------------------------
(* hk_handle_event_timeouts: one step per event, in the order of the list. *)

\* Mutant: the history entry is forgotten.
BugClose(e, w) ==
  /\ Change(e, [heap[e] EXCEPT !.phase = "closed"])
  /\ purge' = purge \cup {e}

Close(e, w) ==
  /\ Change(e, [heap[e] EXCEPT !.phase = "closed", !.log = w])
  /\ purge' = purge \cup {e}

\* A bucket takes some of the counts away, and closes an event without any.
LoseTokens(e) ==
  \E c \in 0..heap[e].count :
    IF c = 0
    THEN /\ Change(e, [heap[e] EXCEPT !.count = 0, !.phase = "closed", !.log = "COUNTFAILED"])
         /\ purge' = purge \cup {e}
    ELSE Change(e, [heap[e] EXCEPT !.count = c]) /\ UNCHANGED purge

TimeoutCounting(e) ==
  LET r == heap[e].rule IN
  /\ heap[e].phase = "counting"
  /\ CASE r \notin active -> Close(e, "ORPHANED")
       [] r \in active /\ rules[r].kind \notin {"count", "expect"} -> Close(e, "NOCOUNT")
       [] r \in active /\ rules[r].kind = "count" /\ rules[r].bucket -> LoseTokens(e)
       [] r \in active /\ rules[r].kind = "count" /\ ~rules[r].bucket -> Close(e, "COUNTFAILED")
       [] OTHER -> UNCHANGED <<statusVars, purge>>

\* The delay of an event is over: it is opened and the actions are executed.
\* Mutant: an event that is to be deleted at once is never opened.
BugTimeoutDelayed(e) ==
  LET r == heap[e].rule IN
  /\ heap[e].phase = "delayed"
  /\ r \in active /\ ~rules[r].autodelete
  /\ Change(e, [heap[e] EXCEPT !.phase = "open", !.log = "DELAYOVER"])
  /\ UNCHANGED purge

TimeoutDelayed(e) ==
  LET r == heap[e].rule
      opened == [heap[e] EXCEPT !.phase = "open", !.log = "DELAYOVER"]
  IN
  /\ heap[e].phase = "delayed"
  /\ CASE r \notin active -> Change(e, opened) /\ UNCHANGED purge
       [] r \in active /\ rules[r].autodelete -> Close(e, "AUTODELETE")
       [] OTHER -> /\ Change(e, [opened EXCEPT !.live = NewLive(@, rules[r])])
                   /\ UNCHANGED purge

TimeoutLivetime(e) ==
  /\ heap[e].phase \notin {"counting", "delayed"}
  /\ heap[e].phase \in heap[e].live
  /\ Close(e, "EXPIRED")

\* The time of the event is not over yet, or it has no timeout.
NotDue == UNCHANGED <<statusVars, purge>>

\* An obsolete counting event has no time to wait for, nor has one of a rule
\* that does not count any more.
Obsolete(e) ==
  heap[e].phase = "counting" /\
    (heap[e].rule \in active => rules[heap[e].rule].kind \notin {"count", "expect"})

HkTimeout ==
  /\ hk = "timeouts" /\ todo # {}
  /\ \E e \in First(todo) :
       /\ todo' = todo \ {e}
       /\ \/ TimeoutCounting(e) \/ TimeoutDelayed(e) \/ TimeoutLivetime(e)
          \/ ~Obsolete(e) /\ NotDue
  /\ UNCHANGED <<lock, hk, pos, absent, hkElse>>

HkTimeoutsEnd ==
  /\ hk = "timeouts" /\ todo = {}
  /\ hk' = "drop"
  /\ todo' = {r \in active : rules[r].kind = "expect"}
  /\ UNCHANGED <<statusVars, lock, purge, pos, absent, hkElse>>

\* The delayed deletion of both loops, backwards.
HkDrop ==
  /\ hk = "drop" /\ purge # {}
  /\ \E e \in Last(purge) :
       /\ RemoveEvent(e)
       /\ \/ Uncounted(e) /\ e \in events /\ HkLeave
          \/ /\ ~Uncounted(e) \/ e \notin events
             /\ purge' = purge \ {e}
             /\ UNCHANGED <<lock, hk, todo, pos, absent>>
  /\ UNCHANGED hkElse

HkDropEnd ==
  /\ hk = "drop" /\ purge = {}
  /\ hk' = "expect"
  /\ UNCHANGED <<statusVars, lock, todo, purge, pos, absent, hkElse>>

-----------------------------------------------------------------------------
(* hk_check_expected_messages, for a rule whose interval has elapsed.      *)

Counting(r) == {e \in OfRule(r) : heap[e].phase = "counting"}

Mergeable(r) ==
  IF rules[r].merge = "never" THEN {}
  ELSE {e \in OfRule(r) : \/ heap[e].phase = "open"
                          \/ heap[e].phase = "ack" /\ rules[r].merge = "acked"}

\* The counting event, if there is one, is not needed any more.
Counted(r) == First(Counting(r))
Enough(r) == \E e \in Counted(r) : heap[e].count >= rules[r].n

\* The interval of the rule has not elapsed.
HkExpectNotDue ==
  /\ hk = "expect"
  /\ \E r \in todo : todo' = todo \ {r}
  /\ UNCHANGED <<statusVars, lock, hk, purge, pos, absent, hkElse>>

HkExpect ==
  /\ hk = "expect" /\ absent < MaxAbsent
  /\ absent' = absent + 1
  /\ \E r \in todo :
       /\ todo' = todo \ {r}
       /\ CASE Enough(r) -> \* log that the messages came
                 \E e \in Counted(r) :
                   /\ Change(e, [heap[e] EXCEPT !.log = "COUNTREACHED"])
                   /\ purge' = {e}
            [] ~Enough(r) /\ Mergeable(r) # {} -> \* merge with the alarm there is
                 \E m \in First(Mergeable(r)) :
                   /\ Change(m, [heap[m] EXCEPT !.phase = "open", !.log = "COUNTFAILED",
                                                !.count = @ + 1])
                   /\ purge' = Counted(r)
            [] OTHER -> \* a new alarm, past all limits
                 /\ NewEvent([Fresh(r, NoHost, IF rules[r].autodelete THEN "closed" ELSE "open", FALSE)
                              EXCEPT !.log = IF rules[r].autodelete THEN "AUTODELETE" ELSE "COUNTFAILED",
                                     !.live = rules[r].livetime])
                 /\ purge' = Counted(r) \cup IF rules[r].autodelete THEN {Len(heap) + 1} ELSE {}
  /\ hk' = "drop"
  /\ UNCHANGED <<lock, pos, hkElse>>

HkExpectEnd ==
  /\ hk = "expect" /\ todo = {}
  /\ hk' = "downtime"
  /\ UNCHANGED <<statusVars, lock, todo, purge, pos, absent, hkElse>>

-----------------------------------------------------------------------------
(* hk_cleanup_downtime_events removes from the list it iterates over: the  *)
(* event after a removed one moves to its position and is not visited.     *)

HkNext == pos' = pos + 1 /\ UNCHANGED <<lock, hk, todo, purge, absent>>

HkDowntime ==
  /\ hk = "downtime" /\ pos < Cardinality(events)
  /\ \E e \in events :
       /\ Index(e) = pos
       /\ \/ UNCHANGED statusVars /\ HkNext
          \/ heap[e].down /\ RemoveEvent(e) /\ ~Uncounted(e) /\ HkNext
          \/ heap[e].down /\ RemoveEvent(e) /\ Uncounted(e) /\ HkLeave
  /\ UNCHANGED hkElse

HkEnd ==
  /\ hk = "downtime" /\ pos >= Cardinality(events)
  /\ HkLeave
  /\ UNCHANGED <<statusVars, hkElse>>

HkStep ==
  \/ HkTimeout \/ HkTimeoutsEnd \/ HkDrop \/ HkDropEnd
  \/ HkExpectNotDue \/ HkExpect \/ HkExpectEnd \/ HkDowntime \/ HkEnd
=============================================================================
