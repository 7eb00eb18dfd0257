------------------------------- MODULE Standby -------------------------------
(***************************************************************************)
(* What the replication promises: the slave mirrors the master, and in the *)
(* case of a takeover it goes on from the last mirrored state with the     *)
(* master's rules.                                                         *)
(***************************************************************************)
CONSTANTS
  NoEvents,      \* the state of a new event status
  AutoFallback,  \* whether the slave may fall back by itself
  Switches       \* whether the mode is switched by hand
VARIABLES
  primary,   \* rules and events of the master
  snapshot,  \* what the master has last told of them
  copy,      \* rules and events of the slave
  mode,      \* of the slave: "sync" or "takeover"
  writing    \* whether the slave is processing a message

vars == <<primary, snapshot, copy, mode, writing>>

Init == mode = "sync" /\ ~writing

\* The master does as it likes.
Work == UNCHANGED <<snapshot, copy, mode, writing>>

Tell == snapshot' = primary /\ UNCHANGED <<primary, copy, mode, writing>>

\* Rules and events are replaced together, and in takeover mode only if the
\* slave falls back, or if somebody switches the mode meanwhile.
Install ==
  /\ mode = "sync" \/ AutoFallback \/ Switches
  /\ copy' = snapshot
  /\ mode' = "sync" \/ (Switches /\ mode' = mode)
  /\ UNCHANGED <<primary, snapshot, writing>>

TakeOver ==
  /\ mode = "sync" /\ mode' = "takeover"
  /\ UNCHANGED <<primary, snapshot, copy, writing>>

\* Only in takeover mode the slave accepts messages and commands.  They change
\* its events and never its rules.
Admit ==
  /\ mode = "takeover" /\ ~writing /\ writing'
  /\ UNCHANGED <<primary, snapshot, copy, mode>>

Store ==
  /\ writing /\ ~writing'
  /\ copy'.rules = copy.rules
  /\ UNCHANGED <<primary, snapshot, mode>>

Command ==
  /\ mode = "takeover"
  /\ copy'.rules = copy.rules
  /\ UNCHANGED <<primary, snapshot, mode, writing>>

\* The slave's own housekeeping may change the mirrored events at any time.
Housekeep ==
  /\ copy'.rules = copy.rules /\ copy'.events.own = copy.events.own
  /\ UNCHANGED <<primary, snapshot, mode, writing>>

Flush ==
  /\ copy' = [rules |-> copy.rules, events |-> NoEvents] /\ mode' = "sync"
  /\ UNCHANGED <<primary, snapshot, writing>>

SwitchMode ==
  /\ Switches /\ mode' \in {"sync", "takeover"}
  /\ UNCHANGED <<primary, snapshot, copy, writing>>

Next == Work \/ Tell \/ Install \/ TakeOver \/ Admit \/ Store \/ Command
        \/ Housekeep \/ Flush \/ SwitchMode

Spec == Init /\ [][Next]_vars
=============================================================================
