---------------------------- MODULE Replication ------------------------------
(***************************************************************************)
(* The replication of the Event Console: a master, and a slave that pulls  *)
(* rules and events from it every few seconds, takes over when the master  *)
(* has not been reached for some time, and may fall back.                  *)
(*                                                                         *)
(* Rules are numbered by the edits at the master; Own are the rules that   *)
(* are configured at the slave.  The events of the slave are the ones that *)
(* the master had after so many messages, and on top of them the ones of   *)
(* its own messages and of its own housekeeping.                           *)
(* The clock counts seconds from 1, so 0 stands for "never" (None).  Both  *)
(* sites have the same clock.                                              *)
(***************************************************************************)
EXTENDS Naturals

CONSTANTS
  Takeover,     \* seconds of config["replication"]["takeover"], 0 if not set
  Fallback,     \* seconds of config["replication"]["fallback"], 0 if not set
  Switches,     \* whether the mode is switched by hand
  SlaveReloads, \* whether the slave reloads its configuration
  Sighups,      \* whether the master reloads by SIGHUP (else by RELOAD)
  MaxTime,      \* bound of the clock
  MaxRules,     \* bound: edits of the rules at the master
  MaxEvents     \* bound: messages at the master, and at the slave

ASSUME ReplicationAssumption ==
  /\ Takeover \in Nat /\ Fallback \in Nat
  /\ Switches \in BOOLEAN /\ SlaveReloads \in BOOLEAN /\ Sighups \in BOOLEAN
  /\ MaxTime \in Nat \ {0} /\ MaxRules \in Nat \ {0} /\ MaxEvents \in Nat

VARIABLES
  clock,
  up,          \* whether the master can be reached
  events,      \* of the master: the messages it has processed
  loaded,      \* the configuration of its EventServer: rules and last_reload
  config,      \* the configuration of its StatusServer
  rules,       \* of the slave
  status,      \* of the slave: the events of the master and its own
  slave,       \* slave_status: mode, last_sync, last_master_down
  receiving,   \* whether the slave's EventServer has accepted a message
  pull,        \* replication_pull: where it is, and what it has read
  reply,       \* the rules in the master's answer, Nothing if there are none
  sent,        \* history: rules and events of the master when it answered
  answered     \* history: when an answer of the master has last arrived

masterVars == <<up, events, loaded, config>>
slaveVars == <<rules, status, slave, receiving, pull>>
history == <<sent, answered>>
vars == <<clock, masterVars, slaveVars, reply, history>>

Own == 0
Mirrored(n) == [of |-> n, own |-> 0, timed |-> 0]
Nothing == 0
Modes == {"sync", "takeover"}
Time == 0..MaxTime
EventState == [of : 0..MaxEvents, own : 0..MaxEvents, timed : {0, 1}]
Config == [rules : 1..MaxRules, last_reload : Time]

\* The types: the mode of a slave is "sync" or "takeover", never "master".
TypeOK ==
  /\ clock \in Time \ {0}
  /\ up \in BOOLEAN
  /\ events \in 0..MaxEvents
  /\ loaded \in Config /\ config \in Config
  /\ rules \in 0..MaxRules
  /\ status \in EventState
  /\ slave \in [mode : Modes, last_sync : Time, last_master_down : Time]
  /\ receiving \in BOOLEAN
  /\ pull \in [pc : {"idle", "locks", "request", "reply"}, now : Time, mode : Modes]
  /\ reply \in 0..MaxRules
  /\ sent \in [rules : 0..MaxRules, events : EventState]
  /\ answered \in Time

Init ==
  /\ clock = 1
  /\ up = TRUE /\ events = 0
  /\ loaded = [rules |-> 1, last_reload |-> 1] /\ config = loaded
  /\ rules = Own
  /\ status = Mirrored(0)
  /\ slave = [mode |-> "sync", last_sync |-> 0, last_master_down |-> 0]
  /\ receiving = FALSE
  /\ pull = [pc |-> "idle", now |-> 0, mode |-> "sync"]
  /\ reply = Nothing
  /\ sent = [rules |-> Own, events |-> status]
  /\ answered = 0

\* The pull holds event_status.lock and lock_configuration while it waits
\* for the master.
Locked == pull.pc \in {"request", "reply"}

Tick ==
  /\ clock < MaxTime /\ clock' = clock + 1
  /\ UNCHANGED <<masterVars, slaveVars, reply, history>>

-----------------------------------------------------------------------------
(* The master.                                                             *)

MasterMessage ==
  /\ up /\ events < MaxEvents /\ events' = events + 1
  /\ UNCHANGED <<clock, up, loaded, config, slaveVars, reply, history>>

\* Edited rules are loaded: by RELOAD the thread that answers the slave does
\* it all; by SIGHUP it gets its new configuration in a step of its own.
Loading == [rules |-> loaded.rules + 1, last_reload |-> clock]

CommandReload ==
  /\ up /\ config = loaded /\ loaded.rules < MaxRules
  /\ loaded' = Loading /\ config' = loaded'
  /\ UNCHANGED <<clock, up, events, slaveVars, reply, history>>

SighupLoads ==
  /\ Sighups /\ up /\ config = loaded /\ loaded.rules < MaxRules
  /\ loaded' = Loading
  /\ UNCHANGED <<clock, up, events, config, slaveVars, reply, history>>

SighupEnds ==
  /\ config # loaded /\ config' = loaded
  /\ UNCHANGED <<clock, up, events, loaded, slaveVars, reply, history>>

\* A stop of the master or a broken network; the master comes back with
\* its configuration loaded anew.
MasterDown ==
  /\ up /\ up' = FALSE
  /\ UNCHANGED <<clock, events, loaded, config, slaveVars, reply, history>>

MasterUp ==
  /\ ~up /\ up' = TRUE
  /\ \/ UNCHANGED <<loaded, config>>
     \/ /\ loaded' = [loaded EXCEPT !.last_reload = clock]
        /\ config' = loaded'
  /\ UNCHANGED <<clock, events, slaveVars, reply, history>>

\* Whether the rules are sent: last_sync is cut to seconds, last_reload is
\* not, so in the same second last_reload is the later one.
Outdated(last_update, last_reload) == last_update <= last_reload

ReplicationSend ==
  /\ pull.pc = "request" /\ up
  /\ reply' = IF Outdated(slave.last_sync, config.last_reload) THEN config.rules ELSE Nothing
  /\ sent' = [rules |-> config.rules, events |-> Mirrored(events)]
  /\ pull' = [pull EXCEPT !.pc = "reply"]
  /\ UNCHANGED <<clock, masterVars, rules, status, slave, receiving, answered>>

-----------------------------------------------------------------------------
(* The slave pulls.                                                        *)

\* Mutant: pulls in takeover mode, too, although no fallback is configured.
BugNeedSync == slave.mode \in Modes

NeedSync ==
  \/ slave.mode = "sync"
  \/ /\ Fallback # 0
     /\ slave.last_master_down = 0 \/ clock < slave.last_master_down + Fallback

\* The mode and the time are read before the locks are taken.
PullStart ==
  /\ pull.pc = "idle" /\ NeedSync
  /\ pull' = [pc |-> "locks", now |-> clock, mode |-> slave.mode]
  /\ UNCHANGED <<clock, masterVars, rules, status, slave, receiving, reply, history>>

PullLocks ==
  /\ pull.pc = "locks"
  /\ pull' = [pull EXCEPT !.pc = "request"]
  /\ UNCHANGED <<clock, masterVars, rules, status, slave, receiving, reply, history>>

PullEnd == pull' = [pull EXCEPT !.pc = "idle"]

\* Mutant: the time of the sync is the one of its end.
BugPullSucceeds ==
  /\ pull.pc = "reply"
  /\ rules' = IF reply = Nothing THEN rules ELSE reply
  /\ status' = sent.events
  /\ slave' = [mode |-> IF pull.mode = "takeover" THEN "sync" ELSE slave.mode,
               last_sync |-> clock, last_master_down |-> 0]
  /\ answered' = clock
  /\ PullEnd
  /\ UNCHANGED <<clock, masterVars, receiving, reply, sent>>

\* replication_update_state and what replication_pull does after it
PullSucceeds ==
  /\ pull.pc = "reply"
  /\ rules' = IF reply = Nothing THEN rules ELSE reply
  /\ status' = sent.events
  /\ slave' = [mode |-> IF pull.mode = "takeover" THEN "sync" ELSE slave.mode,
               last_sync |-> pull.now, last_master_down |-> 0]
  /\ answered' = clock
  /\ PullEnd
  /\ UNCHANGED <<clock, masterVars, receiving, reply, sent>>

TakesOver ==
  /\ Takeover # 0 /\ pull.mode # "takeover"
  /\ slave.last_sync # 0 /\ pull.now >= slave.last_sync + Takeover

\* No connection, no answer in time, or the answer is cut off.
PullFails ==
  /\ Locked
  /\ slave' = [slave EXCEPT !.last_master_down = IF @ = 0 THEN pull.now ELSE @,
                            !.mode = IF TakesOver THEN "takeover" ELSE @]
  /\ PullEnd
  /\ UNCHANGED <<clock, masterVars, rules, status, receiving, reply, history>>

-----------------------------------------------------------------------------
(* The other threads of the slave.                                         *)

\* Messages are dropped in sync mode, which is looked up first.
Receive ==
  /\ slave.mode = "takeover" /\ ~receiving
  /\ receiving' = TRUE
  /\ UNCHANGED <<clock, masterVars, rules, status, slave, pull, reply, history>>

\* The message becomes an event, or no rule wants it.
StoreEvent ==
  /\ receiving /\ ~Locked
  /\ receiving' = FALSE
  /\ \E n \in {status.own, status.own + 1} :
        n <= MaxEvents /\ status' = [status EXCEPT !.own = n]
  /\ UNCHANGED <<clock, masterVars, rules, slave, pull, reply, history>>

\* The housekeeping does not ask for the mode.  It shares its thread with the
\* pull; it removes events that have timed out and creates events for expected
\* messages that have not come.
DoHousekeeping ==
  /\ pull.pc = "idle"
  /\ \E n \in {status.of, 0}, t \in {0, 1} :
        status' = [of |-> n, own |-> status.own, timed |-> t]
  /\ UNCHANGED <<clock, masterVars, rules, slave, receiving, pull, reply, history>>

\* Mutant: a slave in sync mode obeys these commands, too.
BugAllowCommand == TRUE

\* DELETE, UPDATE, CHANGESTATE and ACTION; deleting is enough here.
AllowCommand == slave.mode # "sync"

CommandDelete ==
  /\ AllowCommand /\ ~Locked
  /\ \E n \in {status.of, 0}, k \in {status.own, 0} :
        status' = [of |-> n, own |-> k, timed |-> status.timed]
  /\ UNCHANGED <<clock, masterVars, rules, slave, receiving, pull, reply, history>>

\* Mutant: the slave_status of a master is restored.
BugCommandFlush ==
  /\ ~Locked
  /\ status' = Mirrored(0)
  /\ slave' = [mode |-> "master", last_sync |-> 0, last_master_down |-> 0]
  /\ UNCHANGED <<clock, masterVars, rules, receiving, pull, reply, history>>

\* Without a saved copy of the master's rules the first unlink fails, and
\* slave_status is left as it is.
CommandFlush ==
  /\ ~Locked
  /\ status' = Mirrored(0)
  /\ \/ /\ slave.last_sync # 0
        /\ slave' = [mode |-> "sync", last_sync |-> 0, last_master_down |-> 0]
     \/ slave.last_sync = 0 /\ UNCHANGED slave
  /\ UNCHANGED <<clock, masterVars, rules, receiving, pull, reply, history>>

CommandSwitchmode ==
  /\ Switches /\ ~Locked
  /\ \E new_mode \in Modes : slave' = [slave EXCEPT !.mode = new_mode]
  /\ UNCHANGED <<clock, masterVars, rules, status, receiving, pull, reply, history>>

\* RELOAD, SIGHUP or a restart: slave_status comes back from its file, and
\* load_master_config has no effect on the configuration that is compiled.
SlaveReload ==
  /\ SlaveReloads /\ ~Locked
  /\ rules' = Own
  /\ UNCHANGED <<clock, masterVars, status, slave, receiving, pull, reply, history>>

-----------------------------------------------------------------------------
Master == MasterMessage \/ CommandReload \/ SighupLoads \/ SighupEnds
          \/ MasterDown \/ MasterUp \/ ReplicationSend
Pull == PullStart \/ PullLocks \/ PullSucceeds \/ PullFails
Slave == Receive \/ StoreEvent \/ DoHousekeeping \/ CommandDelete \/ CommandFlush
         \/ CommandSwitchmode \/ SlaveReload

Next == Tick \/ Master \/ Pull \/ Slave

Spec == Init /\ [][Next]_vars

-----------------------------------------------------------------------------
(* Properties.                                                             *)

\* The slave mirrors the master, and processes messages in takeover mode only.
Promise == INSTANCE Standby WITH
  NoEvents <- Mirrored(0),
  AutoFallback <- Fallback # 0,
  Switches <- Switches,
  primary <- [rules |-> config.rules, events |-> Mirrored(events)],
  snapshot <- sent,
  copy <- [rules |-> rules, events |-> status],
  mode <- slave.mode,
  writing <- receiving

\* replication_pull, the commands and process_raw_data implement Standby.
StandbySpec == Promise!Spec

\* That holds of the events whatever happens to the rules.
PromiseOfEvents == INSTANCE Standby WITH
  NoEvents <- Mirrored(0),
  AutoFallback <- Fallback # 0,
  Switches <- Switches,
  primary <- [rules |-> Own, events |-> Mirrored(events)],
  snapshot <- [rules |-> Own, events |-> sent.events],
  copy <- [rules |-> Own, events |-> status],
  mode <- slave.mode,
  writing <- receiving

\* The same of the events alone.
EventsSpec == PromiseOfEvents!Spec

\* A slave that the master takes to be up to date has the master's rules, so
\* that it is safe to leave them out of the answer.
RulesKept ==
  ~Outdated(slave.last_sync, loaded.last_reload) => rules = loaded.rules

\* "The rules edited here will not be used. Instead a copy of the rules of
\* the master are being used in the case of a takeover."
TakeoverRules == slave.mode = "takeover" /\ slave.last_sync # 0 => rules # Own

=============================================================================
