----------------------------- MODULE EventLimits -----------------------------
(***************************************************************************)
(* new_event_respecting_limits: a new event passes the overall limit, the  *)
(* limit of its host and the limit of its rule, in this order and under    *)
(* event_status.lock, before it is put into the list.                      *)
(***************************************************************************)
EXTENDS EventThreads

Existing(ty) ==
  CASE ty = "overall" -> num
    [] ty = "by_host" -> byHost[cur.host]
    [] ty = "by_rule" -> byRule[cur.rule]

\* num_already_open of _handle_event_limit, after this event is added
AlreadyOpen(ty) ==
  Existing(ty) + IF Existing(ty) < Limit[ty].limit THEN 1 ELSE 0

\* _get_event_limit looks the rule up, and a reload may have removed it.
NoLimit(ty) == ty = "by_rule" /\ cur.rule \notin active

After(ty) ==
  CASE ty = "overall" -> "by_host"
    [] ty = "by_host" -> "by_rule"
    [] ty = "by_rule" -> "create"

Overflow(ty) ==
  CASE ty = "overall" -> Fresh(NoRule, NoHost, "open", FALSE)
    [] ty = "by_host" -> Fresh(NoRule, cur.host, "open", cur.down)
    [] ty = "by_rule" -> Fresh(cur.rule, NoHost, "open", FALSE)

\* The candidates of remove_oldest_event
Oldest(ty) ==
  CASE ty = "overall" -> events
    [] ty = "by_host" -> OfHost(cur.host)
    [] ty = "by_rule" -> OfRule(cur.rule)

-----------------------------------------------------------------------------
LimitTake ==
  /\ es = "limit" /\ lock = "free"
  /\ lock' = "es"
  /\ Goto("overall")
  /\ UNCHANGED <<statusVars, esElse>>

LimitFails(ty) ==
  /\ es = ty /\ NoLimit(ty)
  /\ Leave
  /\ UNCHANGED <<statusVars, esElse>>

LimitNotReached(ty) ==
  /\ es = ty /\ ~NoLimit(ty)
  /\ AlreadyOpen(ty) < Limit[ty].limit
  /\ Goto(After(ty))
  /\ UNCHANGED <<statusVars, lock, esElse>>

LimitDeletesOldest(ty) ==
  /\ es = ty /\ ~NoLimit(ty)
  /\ AlreadyOpen(ty) >= Limit[ty].limit
  /\ Limit[ty].action = "delete_oldest"
  /\ With("shrink", [cur EXCEPT !.ty = ty, !.n = AlreadyOpen(ty) - Limit[ty].limit])
  /\ UNCHANGED <<statusVars, lock, esElse>>

\* The limit has been passed before: the event is dropped.
LimitRefuses(ty) ==
  /\ es = ty /\ ~NoLimit(ty)
  /\ AlreadyOpen(ty) > Limit[ty].limit
  /\ Limit[ty].action # "delete_oldest"
  /\ Leave
  /\ UNCHANGED <<statusVars, esElse>>

\* This event reaches the limit: it is still created.
\* Mutant: the overflow event is created again for every further message.
BugLimitReached(ty) ==
  /\ es = ty /\ ~NoLimit(ty)
  /\ AlreadyOpen(ty) >= Limit[ty].limit
  /\ NewEvent(Overflow(ty))
  /\ Goto(After(ty))
  /\ UNCHANGED <<lock, esElse>>

LimitReached(ty) ==
  /\ es = ty /\ ~NoLimit(ty)
  /\ AlreadyOpen(ty) = Limit[ty].limit
  /\ Limit[ty].action # "delete_oldest"
  /\ IF Limit[ty].action \in {"stop_overflow", "stop_overflow_notify"}
     THEN NewEvent(Overflow(ty))
     ELSE UNCHANGED statusVars
  /\ Goto(After(ty))
  /\ UNCHANGED <<lock, esElse>>

\* remove_oldest_event; the loop counts down even if it finds nothing.
ShrinkOldest ==
  /\ es = "shrink" /\ cur.n > 0
  /\ \/ /\ Oldest(cur.ty) = {}
        /\ With("shrink", [cur EXCEPT !.n = @ - 1])
        /\ UNCHANGED <<statusVars, lock>>
     \/ \E e \in First(Oldest(cur.ty)) :
          /\ RemoveEvent(e)
          /\ \/ Uncounted(e) /\ Leave
             \/ ~Uncounted(e) /\ With("shrink", [cur EXCEPT !.n = @ - 1]) /\ UNCHANGED lock
  /\ UNCHANGED esElse

\* Mutant: stops one event early.
BugShrinkEnd ==
  /\ es = "shrink" /\ cur.n <= 1
  /\ With(After(cur.ty), [cur EXCEPT !.n = 0])
  /\ UNCHANGED <<statusVars, lock, esElse>>

ShrinkEnd ==
  /\ es = "shrink" /\ cur.n = 0
  /\ Goto(After(cur.ty))
  /\ UNCHANGED <<statusVars, lock, esElse>>

FirstPhase ==
  CASE conf.kind \in {"count", "expect"} -> "counting"
    [] OTHER -> IF conf.delay THEN "delayed" ELSE "open"

\* new_event, and the end of the "with" block
Create ==
  /\ es = "create"
  /\ NewEvent(Fresh(cur.rule, cur.host, FirstPhase, cur.down))
  /\ lock' = "free"
  /\ CASE conf.kind = "count" -> With("test", [cur EXCEPT !.found = Len(heap) + 1])
       [] conf.kind = "expect" -> Done
       [] OTHER -> With("created", [cur EXCEPT !.found = Len(heap) + 1])
  /\ UNCHANGED esElse

LimitStep ==
  \/ LimitTake
  \/ \E ty \in LimitType :
       \/ LimitFails(ty) \/ LimitNotReached(ty) \/ LimitDeletesOldest(ty)
       \/ LimitRefuses(ty) \/ LimitReached(ty)
  \/ ShrinkOldest \/ ShrinkEnd \/ Create
=============================================================================
