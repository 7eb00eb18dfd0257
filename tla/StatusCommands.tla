---------------------------- MODULE StatusCommands ---------------------------
(***************************************************************************)
(* The StatusServer thread: handle_client executes each command under      *)
(* event_status.lock.  Commands about an event name it by its id.          *)
(* The reload on SIGHUP, by the main thread, does not take that lock.      *)
(***************************************************************************)
EXTENDS EventThreads

cmdElse == <<lock, hkVars, esVars>>

Command(c) == c \in Commands /\ lock = "free"

\* The events that event(eid) can return: the first one with its id.
Named == {e \in events : e \in First({f \in events : heap[f].id = heap[e].id})}

\* Mutant: does not wait for the lock.
BugCommandDelete ==
  /\ "DELETE" \in Commands
  /\ \E e \in Named : DeleteEvent(e)
  /\ UNCHANGED <<rules, cmdElse>>

CommandDelete ==
  /\ Command("DELETE")
  /\ \E e \in Named : DeleteEvent(e)
  /\ UNCHANGED <<rules, cmdElse>>

\* Only an open event can be acknowledged, but every event can be unacknowledged.
CommandUpdate ==
  /\ Command("UPDATE")
  /\ \E e \in Named, ack \in {"", "0", "1"} :
       /\ ack = "1" => heap[e].phase \in {"open", "ack"}
       /\ Change(e, [heap[e] EXCEPT !.log = "UPDATE",
                                    !.phase = CASE ack = "" -> @
                                                [] ack = "0" -> "open"
                                                [] ack = "1" -> "ack"])
  /\ UNCHANGED <<rules, cmdElse>>

CommandChangestate ==
  /\ Command("CHANGESTATE")
  /\ \E e \in Named : Change(e, [heap[e] EXCEPT !.log = "CHANGESTATE"])
  /\ UNCHANGED <<rules, cmdElse>>

CommandFlush ==
  /\ Command("FLUSH")
  /\ Flush
  /\ UNCHANGED <<rules, cmdElse>>

\* reload_configuration takes lock_configuration, which the housekeeping
\* holds only together with the lock.
CommandReload ==
  /\ Command("RELOAD")
  /\ rules' \in RuleSets
  /\ UNCHANGED <<statusVars, cmdElse>>

\* The main thread reloads between two runs of the housekeeping.
Sighup ==
  /\ "SIGHUP" \in Commands /\ hk = "idle"
  /\ rules' \in RuleSets
  /\ UNCHANGED <<statusVars, cmdElse>>

CommandStep ==
  \/ CommandDelete \/ CommandUpdate \/ CommandChangestate
  \/ CommandFlush \/ CommandReload \/ Sighup
=============================================================================
