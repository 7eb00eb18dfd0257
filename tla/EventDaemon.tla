----------------------------- MODULE EventDaemon -----------------------------
(***************************************************************************)
(* The daemon: EventServer, housekeeping and StatusServer, interleaved.    *)
(***************************************************************************)
EXTENDS EventServer, Housekeeping, StatusCommands

Next == EsArrival \/ EsStep \/ HkStart \/ HkStep \/ CommandStep

Spec == Init /\ [][Next]_vars

(* The threads are scheduled fairly.  A thread that waits for the lock gets *)
(* it at last, since the others keep giving it back and then sleep or wait *)
(* for input; and a delay ends at last, as the time goes on.  (Without     *)
(* overflow events, each message creates one event at most.)               *)
Watched == 1..MaxMessages

Fairness ==
  /\ WF_vars(EsStep) /\ WF_vars(HkStep)
  /\ SF_vars(HkStart) /\ SF_vars(CountRuleMatch) /\ SF_vars(LimitTake)
  /\ SF_vars(RemoveClosed) /\ SF_vars(CancelTake)
  /\ \A e \in Watched : SF_vars(HkTimeout /\ e \in First(todo) /\ heap'[e].phase # "delayed")

FairSpec == Spec /\ Fairness

-----------------------------------------------------------------------------
(* Safety.                                                                 *)

\* The types of the store and of the threads, and that each thread holds
\* event_status.lock exactly inside of its "with" blocks: HkStart, the commands
\* and the EventServer all wait for it.
TypeOK == StatusTypeOK /\ ThreadTypeOK

\* What hk_handle_event_timeouts, hk_check_expected_messages and cancel_events
\* have marked for removal is in the list until they remove it, although this
\* comes later and names the events by their position.
MarkedInList ==
  /\ purge \subseteq events
  /\ es \in {"cancelling", "sweep"} => cur.gone \subseteq events

\* However the limits are configured, and whatever the other threads do, the
\* overall limit is exceeded by four events at most: the overflow events of
\* the three limits and the event that reached them.  Only the alarms of
\* expecting rules are created past the limits.
LimitBound == num <= Limit["overall"].limit + 4 + absent

\* With delete_oldest, each admission comes back to the overall limit before
\* it creates the event and the overflow events of the other two limits.
OldestBound ==
  Limit["overall"].action = "delete_oldest" => num <= Limit["overall"].limit + 3 + absent

\* The limits of each host and of each rule bound the events that are really in
\* the list, not only the counters: at the limit there is one event more, or
\* two with the overflow event, which is counted for the same host or rule.
\* (If messages change the host of an event, only the counters keep it.)
EachBound ==
  LET bound(ty) == Limit[ty].limit + IF Limit[ty].action = "delete_oldest" THEN 1 ELSE 2 IN
  /\ \A h \in Host : Cardinality(OfHost(h)) <= bound("by_host")
  /\ \A r \in Rule : Cardinality(OfRule(r)) <= bound("by_rule")

\* When no thread is working, no event of the list is closed: whoever closes
\* an event also removes it, although in a later step.
NoClosedLeft == es = "idle" /\ hk = "idle" => \A e \in events : heap[e].phase # "closed"

-----------------------------------------------------------------------------
(* Action properties.                                                      *)

\* An event leaves the list only with a history entry that says why, although
\* the EventServer goes on with events that the housekeeping has closed.  The
\* exceptions are a counting event that an alarm replaces, the oldest event for
\* a limit, FLUSH, and the end of a downtime.  (A user who updates an event
\* that is just being removed writes a later entry, and a reload while a message
\* is counted makes the alarm replace an event that is being opened.)
Final == {"COUNTFAILED", "COUNTREACHED", "ORPHANED", "NOCOUNT", "EXPIRED",
          "AUTODELETE", "CANCELLED", "DELETE"}
RemovalLogged ==
  [][\A e \in events \ events' :
       \/ heap'[e].log \in Final \/ heap'[e].phase = "counting"
       \/ es = "shrink" \/ hk = "downtime" \/ nextId' = 1]_vars

-----------------------------------------------------------------------------
(* Liveness.                                                               *)

\* No thread keeps the others from the lock or gets lost in the list: a message
\* is processed in the end, whether its event is stored or not, and the
\* housekeeping ends and starts again.
ThreadsGoOn ==
  /\ es # "idle" ~> es = "idle"
  /\ []<>(hk = "idle") /\ []<>(hk = "timeouts")

\* A delayed event is opened or removed in the end, even if the housekeeping
\* is cut short by the removal of another event.
DelayedEnds ==
  \A e \in Watched :
    (e \in events /\ heap[e].phase = "delayed") ~> (e \notin events \/ heap[e].phase # "delayed")
=============================================================================
