------------------------------- MODULE MCDaemon ------------------------------
(* Instances of EventDaemon: one operator per rule configuration.          *)
EXTENDS EventDaemon, TLC

CONSTANTS r1, r2, h1, h2

Plain == [NoConf EXCEPT !.kind = "plain"]
Count == [NoConf EXCEPT !.kind = "count", !.n = 2, !.sepHost = TRUE]
Expect == [NoConf EXCEPT !.kind = "expect", !.n = 2, !.merge = "open"]

Limits(all, host, rule, a) ==
  [overall |-> [limit |-> all, action |-> a],
   by_host |-> [limit |-> host, action |-> a],
   by_rule |-> [limit |-> rule, action |-> a]]

NoLimits == Limits(9, 9, 9, "stop")

\* A counting rule that deletes its events when they have opened.
CountRules == {r1 :> [Count EXCEPT !.autodelete = TRUE]}

\* All limits are reached at once, or by one event after the other.
OverflowLimits == Limits(1, 1, 9, "stop_overflow")
OldestLimits ==
  [Limits(2, 1, 2, "stop_overflow_notify") EXCEPT !["overall"].action = "delete_oldest"]

\* An expecting rule that becomes a counting rule, a plain one, or vanishes.
ChangingRules ==
  {r1 :> Expect,
   r1 :> [Expect EXCEPT !.autodelete = TRUE, !.merge = "never"],
   r1 :> [Count EXCEPT !.bucket = TRUE, !.delay = TRUE],
   r1 :> Plain, << >>}

\* Delayed events beside counting ones, with a livetime.
DelayRules ==
  {(r1 :> [Count EXCEPT !.delay = TRUE, !.livetime = {"open"}])
     @@ (r2 :> [Plain EXCEPT !.delay = TRUE, !.autodelete = TRUE])}

\* The limits alone.
PlainRules == {r1 :> Plain}

\* With these in place of CountRules and NoLimits, CountersExact fails, and a
\* list at its limit still grows (section 5 of the README).
MixedRules == {r1 :> [Count EXCEPT !.sepHost = FALSE]}
StopLimits == Limits(1, 9, 9, "stop")
=============================================================================
