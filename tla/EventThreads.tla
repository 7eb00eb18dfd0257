----------------------------- MODULE EventThreads ----------------------------
(***************************************************************************)
(* The three threads of the Event Console daemon (cmk/ec/main.py) that     *)
(* share the EventStatus:                                                  *)
(*                                                                         *)
(*   EventServer   takes messages from the event pipe and the sockets and  *)
(*                 creates, counts, opens, cancels events: es, cur         *)
(*   main thread   housekeeping: timeouts, expected messages, downtimes,   *)
(*                 and the reload on SIGHUP: hk, todo, purge, pos          *)
(*   StatusServer  executes the commands of the users, each of them under  *)
(*                 event_status.lock                                       *)
(*                                                                         *)
(* "lock" is event_status.lock.  The EventServer takes it to change the    *)
(* list, but reads and changes the events themselves without it, so each   *)
(* of its accesses to an event is a step of its own.  A command never      *)
(* waits for anything while it has the lock and is one step.               *)
(*                                                                         *)
(* Time is abstracted: whether a delay, a counting period, a livetime, an  *)
(* interval or a downtime is over is a free choice of the housekeeping.    *)
(***************************************************************************)
EXTENDS EventStatus

CONSTANTS
  RuleSets,        \* the rule configurations that are activated over time
  Limit,           \* _config["event_limit"], see LimitConf
  ArchiveOrphans,  \* _config["archive_orphans"]
  Commands,        \* the commands that the users send
  MaxMessages,     \* bound: messages that arrive
  MaxAbsent        \* bound: elapsed intervals of expecting rules

Actions == {"stop", "stop_overflow", "stop_overflow_notify", "delete_oldest"}
LimitType == {"overall", "by_host", "by_rule"}
LimitConf == [LimitType -> [limit : Nat, action : Actions]]

RuleConf ==
  [kind : {"plain", "count", "expect", "drop"},
   n : Nat,                            \* the count that has to be reached
   bucket : BOOLEAN,                   \* algorithm tokenbucket or dynabucket
   sepHost : BOOLEAN,                  \* separate_host
   sepOther : BOOLEAN,                 \* separate_application, match groups
   countAck : BOOLEAN,                 \* count_ack
   merge : {"open", "acked", "never"}, \* expect: merge with an open event
   delay : BOOLEAN,
   autodelete : BOOLEAN,
   livetime : SUBSET {"open", "ack"}]  \* livetime ends in these phases

CommandSet == {"DELETE", "UPDATE", "CHANGESTATE", "FLUSH", "RELOAD", "SIGHUP"}

ASSUME ConfAssumption ==
  /\ \A R \in RuleSets : DOMAIN R \subseteq Rule /\ R \in [DOMAIN R -> RuleConf]
  /\ Limit \in LimitConf
  /\ ArchiveOrphans \in BOOLEAN
  /\ Commands \subseteq CommandSet
  /\ MaxMessages \in Nat
  /\ MaxAbsent \in Nat

VARIABLES
  rules,     \* the rules that are loaded: _rule_by_id
  lock,      \* the holder of event_status.lock
  es,        \* where the EventServer is in process_event
  cur,       \* its local variables
  hk,        \* where the housekeeping is
  todo,      \* the events or rules its current loop has still to visit
  purge,     \* events_to_delete
  pos,       \* the list index of hk_cleanup_downtime_events
  msgs,      \* messages received
  absent     \* intervals elapsed

threadVars == <<rules, lock, es, cur, hk, todo, purge, pos, msgs, absent>>
vars == <<statusVars, threadVars>>

NoConf == [kind |-> "drop", n |-> 0, bucket |-> FALSE, sepHost |-> FALSE,
           sepOther |-> FALSE, countAck |-> FALSE, merge |-> "never",
           delay |-> FALSE, autodelete |-> FALSE, livetime |-> {}]

\* rule, conf, host, down: the rule that matched and the message; nr: index
\* in the loop over the list; found: the event that is counted, opened or
\* deleted; n: its new count, the number of events still to be deleted, or
\* the id that was read; ty: the limit that is enforced; gone: the events to
\* cancel.
Message == [rule : Rules, conf : RuleConf, host : Hosts, down : BOOLEAN, nr : Nat,
            found : Nat, n : Nat, ty : LimitType, gone : SUBSET Nat]

NoMessage == [rule |-> NoRule, conf |-> NoConf, host |-> NoHost, down |-> FALSE, nr |-> 0,
              found |-> 0, n |-> 0, ty |-> "overall", gone |-> {}]

Init ==
  /\ StatusInit
  /\ rules \in RuleSets
  /\ lock = "free"
  /\ es = "idle"
  /\ cur = NoMessage
  /\ hk = "idle"
  /\ todo = {}
  /\ purge = {}
  /\ pos = 0
  /\ msgs = 0
  /\ absent = 0

EsPc == {"idle", "archive", "matched", "scan", "countup", "test", "reach",
         "opened", "reached", "close", "remove", "limit", "overall", "by_host",
         "by_rule", "shrink", "create", "created", "cancel", "cancelling",
         "sweep"}
HkPc == {"idle", "timeouts", "drop", "expect", "downtime"}

\* The places where a thread holds event_status.lock.
EsLocked == {"overall", "by_host", "by_rule", "shrink", "create",
             "cancelling", "sweep"}
HkLocked == HkPc \ {"idle"}

\* The types, and that each thread holds event_status.lock exactly at the
\* places of its program that are inside of a "with event_status.lock" block.
ThreadTypeOK ==
  /\ rules \in RuleSets
  /\ lock \in {"free", "es", "hk"}
  /\ es \in EsLocked <=> lock = "es"
  /\ hk \in HkLocked <=> lock = "hk"
  /\ es \in EsPc
  /\ cur \in Message
  /\ hk \in HkPc
  /\ todo \subseteq Nat \cup Rule
  /\ purge \subseteq Nat
  /\ pos \in Nat
  /\ msgs \in Nat
  /\ absent \in Nat

active == DOMAIN rules

esVars == <<es, cur, msgs>>
hkVars == <<hk, todo, purge, pos, absent>>
-----------------------------------------------------------------------------
(* The EventServer thread goes on with its message, is done with it, or    *)
(* leaves a "with" block, at its end or by an exception, which gives the   *)
(* lock back.                                                              *)

esElse == <<rules, hkVars>>

Goto(pc) == es' = pc /\ UNCHANGED <<cur, msgs>>
With(pc, new) == es' = pc /\ cur' = new /\ UNCHANGED msgs
Done == es' = "idle" /\ cur' = NoMessage /\ UNCHANGED msgs
Leave == lock' = "free" /\ Done

conf == cur.conf
found == heap[cur.found]

\* event_has_opened starts the livetime of an event and executes the actions
\* of its rule; only the former changes the event.
NewLive(old, c) == IF c.livetime # {} THEN c.livetime ELSE old

=============================================================================
