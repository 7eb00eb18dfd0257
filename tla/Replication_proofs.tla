------------------------- MODULE Replication_proofs --------------------------
(***************************************************************************)
(* Proofs about Replication, for every setting and every bound.            *)
(***************************************************************************)
EXTENDS Replication, TLAPS

\* No time is ahead of the clock.
Clocks ==
  /\ slave.last_sync <= clock
  /\ loaded.last_reload <= clock
  /\ pull.now <= clock

\* What is on its way to the slave and has not been overtaken by a reload is
\* what the master still has; if the rules are left out, the slave has them.
InFlight ==
  pull.pc = "reply" =>
    /\ reply = Nothing => rules = sent.rules
    /\ reply # Nothing => reply = sent.rules
    /\ ~Outdated(pull.now, loaded.last_reload) => sent.rules = loaded.rules

RulesInv == config = loaded /\ RulesKept /\ InFlight

\* The mode that a pull has read is still a reason to pull, unless somebody has
\* switched it meanwhile.
ModeInv ==
  ~Switches /\ pull.pc # "idle" =>
    /\ pull.mode = "sync" => slave.mode = "sync"
    /\ pull.mode = "takeover" => Fallback # 0

USE ReplicationAssumption

LEMMA TypeInit == Init => TypeOK /\ Clocks
<1> SUFFICES ASSUME Init PROVE TypeOK /\ Clocks
  OBVIOUS
<1>1. loaded = [rules |-> 1, last_reload |-> 1] /\ config = loaded
  BY DEF Init
<1>2. loaded \in Config /\ config \in Config /\ loaded.last_reload = 1
  BY <1>1 DEF Config, Time
<1>3. status = Mirrored(0) /\ Mirrored(0) \in EventState
  BY DEF Init, Mirrored, EventState
<1>4. 0 \in Time /\ 1 \in Time \ {0}
  BY DEF Time
<1>5. /\ slave \in [mode : Modes, last_sync : Time, last_master_down : Time]
      /\ slave.last_sync = 0
  BY <1>4 DEF Init, Modes
<1>6. /\ pull \in [pc : {"idle", "locks", "request", "reply"}, now : Time, mode : Modes]
      /\ pull.now = 0
  BY <1>4 DEF Init, Modes
<1>7. sent \in [rules : 0..MaxRules, events : EventState]
  BY <1>3 DEF Init, Own
<1>8. /\ clock = 1 /\ up \in BOOLEAN /\ events = 0 /\ rules = 0 /\ receiving \in BOOLEAN
      /\ reply = 0 /\ answered = 0
  BY DEF Init, Own, Nothing
<1>9. TypeOK
  BY <1>2, <1>3, <1>4, <1>5, <1>6, <1>7, <1>8 DEF TypeOK
<1> QED
  BY <1>2, <1>5, <1>6, <1>8, <1>9 DEF Clocks
LEMMA TypeStep == TypeOK /\ Clocks /\ [Next]_vars => TypeOK' /\ Clocks'
<1> SUFFICES ASSUME TypeOK, Clocks, [Next]_vars PROVE TypeOK' /\ Clocks'
  OBVIOUS
<1>1. CASE Tick
  BY <1>1 DEF Tick, TypeOK, Clocks, Time, Config, EventState, Modes, vars, masterVars, slaveVars, history
<1>2. CASE MasterMessage
  BY <1>2 DEF MasterMessage, TypeOK, Clocks, Time, Config, EventState, Modes, vars, masterVars, slaveVars, history
<1>3. CASE CommandReload
  BY <1>3 DEF CommandReload, TypeOK, Clocks, Time, Config, EventState, Modes, vars, masterVars, slaveVars, history, Loading
<1>4. CASE SighupLoads
  BY <1>4 DEF SighupLoads, TypeOK, Clocks, Time, Config, EventState, Modes, vars, masterVars, slaveVars, history, Loading
<1>5. CASE SighupEnds
  BY <1>5 DEF SighupEnds, TypeOK, Clocks, Time, Config, EventState, Modes, vars, masterVars, slaveVars, history
<1>6. CASE MasterDown
  BY <1>6 DEF MasterDown, TypeOK, Clocks, Time, Config, EventState, Modes, vars, masterVars, slaveVars, history
<1>7. CASE MasterUp
  BY <1>7 DEF MasterUp, TypeOK, Clocks, Time, Config, EventState, Modes, vars, masterVars, slaveVars, history
<1>8. CASE ReplicationSend
  BY <1>8 DEF ReplicationSend, TypeOK, Clocks, Time, Config, EventState, Modes, vars, masterVars, slaveVars, history, Outdated, Mirrored, Nothing
<1>9. CASE PullStart
  BY <1>9 DEF PullStart, TypeOK, Clocks, Time, Config, EventState, Modes, vars, masterVars, slaveVars, history, NeedSync
<1>10. CASE PullLocks
  BY <1>10 DEF PullLocks, TypeOK, Clocks, Time, Config, EventState, Modes, vars, masterVars, slaveVars, history
<1>11. CASE PullSucceeds
  BY <1>11 DEF PullSucceeds, TypeOK, Clocks, Time, Config, EventState, Modes, vars, masterVars, slaveVars, history, PullEnd
<1>12. CASE PullFails
  BY <1>12 DEF PullFails, TypeOK, Clocks, Time, Config, EventState, Modes, vars, masterVars, slaveVars, history, PullEnd, TakesOver, Locked
<1>13. CASE Receive
  BY <1>13 DEF Receive, TypeOK, Clocks, Time, Config, EventState, Modes, vars, masterVars, slaveVars, history
<1>14. CASE StoreEvent
  <2>1. PICK n \in {status.own, status.own + 1} :
          n <= MaxEvents /\ status' = [status EXCEPT !.own = n]
    BY <1>14 DEF StoreEvent
  <2>2. status' \in EventState
    BY <2>1 DEF TypeOK, EventState
  <2> QED
    BY <1>14, <2>2 DEF StoreEvent, TypeOK, Clocks, Time, Config, EventState, Modes, vars, masterVars, slaveVars, history
<1>15. CASE DoHousekeeping
  <2>1. PICK n \in {status.of, 0}, t \in {0, 1} :
          status' = [of |-> n, own |-> status.own, timed |-> t]
    BY <1>15 DEF DoHousekeeping
  <2>2. status' \in EventState
    BY <2>1 DEF TypeOK, EventState
  <2> QED
    BY <1>15, <2>2 DEF DoHousekeeping, TypeOK, Clocks, Time, Config, EventState, Modes, vars, masterVars, slaveVars, history
<1>16. CASE CommandDelete
  <2>1. PICK n \in {status.of, 0}, k \in {status.own, 0} :
          status' = [of |-> n, own |-> k, timed |-> status.timed]
    BY <1>16 DEF CommandDelete
  <2>2. status' \in EventState
    BY <2>1 DEF TypeOK, EventState
  <2> QED
    BY <1>16, <2>2 DEF CommandDelete, TypeOK, Clocks, Time, Config, EventState, Modes, vars, masterVars, slaveVars, history
<1>17. CASE CommandFlush
  BY <1>17 DEF CommandFlush, TypeOK, Clocks, Time, Config, EventState, Modes, vars, masterVars, slaveVars, history, Mirrored
<1>18. CASE CommandSwitchmode
  BY <1>18 DEF CommandSwitchmode, TypeOK, Clocks, Time, Config, EventState, Modes, vars, masterVars, slaveVars, history
<1>19. CASE SlaveReload
  BY <1>19 DEF SlaveReload, TypeOK, Clocks, Time, Config, EventState, Modes, vars, masterVars, slaveVars, history, Own
<1>20. CASE UNCHANGED vars
  BY <1>20 DEF TypeOK, Clocks, Time, Config, EventState, Modes, vars, masterVars, slaveVars, history
<1> QED
  BY <1>1, <1>2, <1>3, <1>4, <1>5, <1>6, <1>7, <1>8, <1>9, <1>10, <1>11, <1>12, <1>13, <1>14, <1>15, <1>16, <1>17, <1>18, <1>19, <1>20 DEF Next, Master, Pull, Slave

LEMMA RulesStep ==
  ASSUME ~SlaveReloads, ~Sighups, TypeOK, Clocks, TypeOK', RulesInv, [Next]_vars
  PROVE  RulesInv'
<1>1. CASE Tick
  BY <1>1 DEF Tick, TypeOK, Clocks, Time, Config, Nothing, Outdated, RulesInv, RulesKept, InFlight, vars, masterVars, slaveVars, history
<1>2. CASE MasterMessage
  BY <1>2 DEF MasterMessage, TypeOK, Clocks, Time, Config, Nothing, Outdated, RulesInv, RulesKept, InFlight, vars, masterVars, slaveVars, history
<1>3. CASE CommandReload
  BY <1>3 DEF CommandReload, TypeOK, Clocks, Time, Config, Nothing, Outdated, RulesInv, RulesKept, InFlight, vars, masterVars, slaveVars, history, Loading
<1>4. CASE SighupLoads
  BY <1>4 DEF SighupLoads, TypeOK, Clocks, Time, Config, Nothing, Outdated, RulesInv, RulesKept, InFlight, vars, masterVars, slaveVars, history
<1>5. CASE SighupEnds
  BY <1>5 DEF SighupEnds, TypeOK, Clocks, Time, Config, Nothing, Outdated, RulesInv, RulesKept, InFlight, vars, masterVars, slaveVars, history
<1>6. CASE MasterDown
  BY <1>6 DEF MasterDown, TypeOK, Clocks, Time, Config, Nothing, Outdated, RulesInv, RulesKept, InFlight, vars, masterVars, slaveVars, history
<1>7. CASE MasterUp
  BY <1>7 DEF MasterUp, TypeOK, Clocks, Time, Config, Nothing, Outdated, RulesInv, RulesKept, InFlight, vars, masterVars, slaveVars, history
<1>8. CASE ReplicationSend
  BY <1>8 DEF ReplicationSend, TypeOK, Clocks, Time, Config, Nothing, Outdated, RulesInv, RulesKept, InFlight, vars, masterVars, slaveVars, history
<1>9. CASE PullStart
  BY <1>9 DEF PullStart, TypeOK, Clocks, Time, Config, Nothing, Outdated, RulesInv, RulesKept, InFlight, vars, masterVars, slaveVars, history
<1>10. CASE PullLocks
  BY <1>10 DEF PullLocks, TypeOK, Clocks, Time, Config, Nothing, Outdated, RulesInv, RulesKept, InFlight, vars, masterVars, slaveVars, history
<1>11. CASE PullSucceeds
  BY <1>11 DEF PullSucceeds, TypeOK, Clocks, Time, Config, Nothing, Outdated, RulesInv, RulesKept, InFlight, vars, masterVars, slaveVars, history, PullEnd
<1>12. CASE PullFails
  BY <1>12 DEF PullFails, TypeOK, Clocks, Time, Config, Nothing, Outdated, RulesInv, RulesKept, InFlight, vars, masterVars, slaveVars, history, PullEnd, TakesOver, Locked
<1>13. CASE Receive
  BY <1>13 DEF Receive, TypeOK, Clocks, Time, Config, Nothing, Outdated, RulesInv, RulesKept, InFlight, vars, masterVars, slaveVars, history
<1>14. CASE StoreEvent
  BY <1>14 DEF StoreEvent, TypeOK, Clocks, Time, Config, Nothing, Outdated, RulesInv, RulesKept, InFlight, vars, masterVars, slaveVars, history
<1>15. CASE DoHousekeeping
  BY <1>15 DEF DoHousekeeping, TypeOK, Clocks, Time, Config, Nothing, Outdated, RulesInv, RulesKept, InFlight, vars, masterVars, slaveVars, history
<1>16. CASE CommandDelete
  BY <1>16 DEF CommandDelete, TypeOK, Clocks, Time, Config, Nothing, Outdated, RulesInv, RulesKept, InFlight, vars, masterVars, slaveVars, history
<1>17. CASE CommandFlush
  BY <1>17 DEF CommandFlush, TypeOK, Clocks, Time, Config, Nothing, Outdated, RulesInv, RulesKept, InFlight, vars, masterVars, slaveVars, history, Locked, Mirrored
<1>18. CASE CommandSwitchmode
  BY <1>18 DEF CommandSwitchmode, TypeOK, Clocks, Time, Config, Nothing, Outdated, RulesInv, RulesKept, InFlight, vars, masterVars, slaveVars, history
<1>19. CASE SlaveReload
  BY <1>19 DEF SlaveReload, TypeOK, Clocks, Time, Config, Nothing, Outdated, RulesInv, RulesKept, InFlight, vars, masterVars, slaveVars, history
<1>20. CASE UNCHANGED vars
  BY <1>20 DEF TypeOK, Clocks, Time, Config, Nothing, Outdated, RulesInv, RulesKept, InFlight, vars, masterVars, slaveVars, history
<1> QED
  BY <1>1, <1>2, <1>3, <1>4, <1>5, <1>6, <1>7, <1>8, <1>9, <1>10, <1>11, <1>12, <1>13, <1>14, <1>15, <1>16, <1>17, <1>18, <1>19, <1>20 DEF Next, Master, Pull, Slave

LEMMA ModeStep ==
  ASSUME TypeOK, ModeInv, [Next]_vars
  PROVE  ModeInv'
<1> SUFFICES ASSUME ~Switches PROVE ModeInv'
  BY DEF ModeInv
<1>1. CASE Tick
  BY <1>1 DEF Tick, TypeOK, Modes, ModeInv, vars, masterVars, slaveVars, history
<1>2. CASE MasterMessage
  BY <1>2 DEF MasterMessage, TypeOK, Modes, ModeInv, vars, masterVars, slaveVars, history
<1>3. CASE CommandReload
  BY <1>3 DEF CommandReload, TypeOK, Modes, ModeInv, vars, masterVars, slaveVars, history
<1>4. CASE SighupLoads
  BY <1>4 DEF SighupLoads, TypeOK, Modes, ModeInv, vars, masterVars, slaveVars, history
<1>5. CASE SighupEnds
  BY <1>5 DEF SighupEnds, TypeOK, Modes, ModeInv, vars, masterVars, slaveVars, history
<1>6. CASE MasterDown
  BY <1>6 DEF MasterDown, TypeOK, Modes, ModeInv, vars, masterVars, slaveVars, history
<1>7. CASE MasterUp
  BY <1>7 DEF MasterUp, TypeOK, Modes, ModeInv, vars, masterVars, slaveVars, history
<1>8. CASE ReplicationSend
  BY <1>8 DEF ReplicationSend, TypeOK, Modes, ModeInv, vars, masterVars, slaveVars, history
<1>9. CASE PullStart
  BY <1>9 DEF PullStart, TypeOK, Modes, ModeInv, vars, masterVars, slaveVars, history, NeedSync
<1>10. CASE PullLocks
  BY <1>10 DEF PullLocks, TypeOK, Modes, ModeInv, vars, masterVars, slaveVars, history
<1>11. CASE PullSucceeds
  BY <1>11 DEF PullSucceeds, TypeOK, Modes, ModeInv, vars, masterVars, slaveVars, history, PullEnd
<1>12. CASE PullFails
  BY <1>12 DEF PullFails, TypeOK, Modes, ModeInv, vars, masterVars, slaveVars, history, PullEnd, TakesOver, Locked
<1>13. CASE Receive
  BY <1>13 DEF Receive, TypeOK, Modes, ModeInv, vars, masterVars, slaveVars, history
<1>14. CASE StoreEvent
  BY <1>14 DEF StoreEvent, TypeOK, Modes, ModeInv, vars, masterVars, slaveVars, history
<1>15. CASE DoHousekeeping
  BY <1>15 DEF DoHousekeeping, TypeOK, Modes, ModeInv, vars, masterVars, slaveVars, history
<1>16. CASE CommandDelete
  BY <1>16 DEF CommandDelete, TypeOK, Modes, ModeInv, vars, masterVars, slaveVars, history
<1>17. CASE CommandFlush
  BY <1>17 DEF CommandFlush, TypeOK, Modes, ModeInv, vars, masterVars, slaveVars, history, Locked
<1>18. CASE CommandSwitchmode
  BY <1>18 DEF CommandSwitchmode, TypeOK, Modes, ModeInv, vars, masterVars, slaveVars, history
<1>19. CASE SlaveReload
  BY <1>19 DEF SlaveReload, TypeOK, Modes, ModeInv, vars, masterVars, slaveVars, history
<1>20. CASE UNCHANGED vars
  BY <1>20 DEF TypeOK, Modes, ModeInv, vars, masterVars, slaveVars, history
<1> QED
  BY <1>1, <1>2, <1>3, <1>4, <1>5, <1>6, <1>7, <1>8, <1>9, <1>10, <1>11, <1>12, <1>13, <1>14, <1>15, <1>16, <1>17, <1>18, <1>19, <1>20 DEF Next, Master, Pull, Slave

LEMMA RulesInit == Init => RulesInv
BY DEF Init, RulesInv, RulesKept, InFlight, Outdated

LEMMA ModeInit == Init => ModeInv
BY DEF Init, ModeInv

\* The types, and that no time is ahead of the clock.
THEOREM ReplicationTypeCorrect == Spec => [](TypeOK /\ Clocks)
<1> QED
  BY TypeInit, TypeStep, PTL DEF Spec

\* If the slave keeps its configuration and the master reloads by RELOAD only,
\* then rules are left out of an answer only if the slave has them, however
\* long the transfers last and whatever fails, is flushed or is switched.
THEOREM ReplicationKeepsRules == ~SlaveReloads /\ ~Sighups => (Spec => []RulesKept)
<1> SUFFICES ASSUME ~SlaveReloads, ~Sighups PROVE Spec => []RulesKept
  OBVIOUS
<1>1. TypeOK /\ Clocks /\ TypeOK' /\ RulesInv /\ [Next]_vars => RulesInv'
  BY RulesStep
<1>2. RulesInv => RulesKept
  BY DEF RulesInv
<1> QED
  BY <1>1, <1>2, RulesInit, ReplicationTypeCorrect, PTL DEF Spec

LEMMA PromiseStep ==
  ASSUME ~SlaveReloads, ~Sighups, TypeOK, RulesInv, ModeInv, [Next]_vars
  PROVE  [Promise!Next]_(Promise!vars)
<1>1. CASE Tick
  BY <1>1 DEF Tick, vars, masterVars, slaveVars, history, Promise!vars
<1>2. CASE MasterMessage
  BY <1>2 DEF MasterMessage, vars, masterVars, slaveVars, history, Promise!Work, Promise!Next, Promise!vars
<1>3. CASE CommandReload
  BY <1>3 DEF CommandReload, vars, masterVars, slaveVars, history, Promise!Work, Promise!Next, Promise!vars
<1>4. CASE SighupLoads
  BY <1>4 DEF SighupLoads, vars, masterVars, slaveVars, history, Promise!vars
<1>5. CASE SighupEnds
  BY <1>5 DEF SighupEnds, vars, masterVars, slaveVars, history, Promise!Work, Promise!Next, Promise!vars
<1>6. CASE MasterDown
  BY <1>6 DEF MasterDown, vars, masterVars, slaveVars, history, Promise!vars
<1>7. CASE MasterUp
  BY <1>7 DEF MasterUp, vars, masterVars, slaveVars, history, Promise!Work, Promise!Next, Promise!vars
<1>8. CASE ReplicationSend
  BY <1>8 DEF ReplicationSend, vars, masterVars, slaveVars, history, Promise!Tell, Promise!Next, Promise!vars
<1>9. CASE PullStart
  BY <1>9 DEF PullStart, vars, masterVars, slaveVars, history, Promise!vars
<1>10. CASE PullLocks
  BY <1>10 DEF PullLocks, vars, masterVars, slaveVars, history, Promise!vars
<1>11. CASE PullSucceeds
  <2>1. slave.mode = "sync" \/ Fallback # 0 \/ Switches
    BY <1>11 DEF PullSucceeds, TypeOK, ModeInv, Modes
  <2>2. slave'.mode = "sync" \/ (Switches /\ slave'.mode = slave.mode)
    BY <1>11 DEF PullSucceeds, TypeOK, ModeInv, Modes
  <2>3. rules' = sent.rules /\ sent = [rules |-> sent.rules, events |-> sent.events]
    BY <1>11 DEF PullSucceeds, RulesInv, InFlight, TypeOK
  <2> QED
    BY <1>11, <2>1, <2>2, <2>3 DEF PullSucceeds, masterVars, Promise!Install, Promise!Next
<1>12. CASE PullFails
  <2>1. CASE TakesOver
    <3>1. slave'.mode = "takeover"
      BY <1>12, <2>1 DEF PullFails, TypeOK
    <3>2. CASE slave.mode = "sync"
      BY <1>12, <3>1, <3>2 DEF PullFails, masterVars, history, Promise!TakeOver, Promise!Next
    <3>3. CASE slave.mode = "takeover"
      BY <1>12, <3>1, <3>3 DEF PullFails, masterVars, history, Promise!vars
    <3> QED
      BY <3>2, <3>3 DEF TypeOK, Modes
  <2>2. CASE ~TakesOver
    <3>1. slave'.mode = slave.mode
      BY <1>12, <2>2 DEF PullFails, TypeOK
    <3> QED
      BY <1>12, <3>1 DEF PullFails, masterVars, history, Promise!vars
  <2> QED
    BY <2>1, <2>2
<1>13. CASE Receive
  BY <1>13 DEF Receive, vars, masterVars, slaveVars, history, Promise!Admit, Promise!Next, Promise!vars
<1>14. CASE StoreEvent
  BY <1>14 DEF StoreEvent, vars, masterVars, slaveVars, history, Promise!Store, Promise!Next, Promise!vars
<1>15. CASE DoHousekeeping
  BY <1>15 DEF DoHousekeeping, vars, masterVars, slaveVars, history, Promise!Housekeep, Promise!Next, Promise!vars
<1>16. CASE CommandDelete
  <2>1. slave.mode = "takeover"
    BY <1>16 DEF CommandDelete, AllowCommand, TypeOK, Modes
  <2> QED
    BY <1>16, <2>1 DEF CommandDelete, masterVars, history, Promise!Command, Promise!Next
<1>17. CASE CommandFlush
  <2>1. CASE slave'.mode = "sync"
    BY <1>17, <2>1 DEF CommandFlush, masterVars, history, Promise!Flush, Promise!Next
  <2>2. CASE slave' = slave /\ slave.mode = "takeover"
    BY <1>17, <2>2 DEF CommandFlush, masterVars, history, Promise!Command, Promise!Next
  <2>3. slave' = slave \/ slave'.mode = "sync"
    BY <1>17 DEF CommandFlush
  <2> QED
    BY <2>1, <2>2, <2>3 DEF TypeOK, Modes
<1>18. CASE CommandSwitchmode
  BY <1>18 DEF CommandSwitchmode, Modes, TypeOK, masterVars, history, Promise!SwitchMode, Promise!Next
<1>19. CASE SlaveReload
  BY <1>19 DEF SlaveReload, vars, masterVars, slaveVars, history, Promise!vars
<1>20. CASE UNCHANGED vars
  BY <1>20 DEF vars, masterVars, slaveVars, history, Promise!vars
<1> QED
  BY <1>1, <1>2, <1>3, <1>4, <1>5, <1>6, <1>7, <1>8, <1>9, <1>10, <1>11, <1>12, <1>13, <1>14, <1>15, <1>16, <1>17, <1>18, <1>19, <1>20 DEF Next, Master, Pull, Slave

LEMMA EventsStep ==
  ASSUME TypeOK, ModeInv, [Next]_vars
  PROVE  [PromiseOfEvents!Next]_(PromiseOfEvents!vars)
<1>1. CASE Tick
  BY <1>1 DEF Tick, vars, masterVars, slaveVars, history, PromiseOfEvents!vars
<1>2. CASE MasterMessage
  BY <1>2 DEF MasterMessage, vars, masterVars, slaveVars, history, PromiseOfEvents!Work, PromiseOfEvents!Next, PromiseOfEvents!vars
<1>3. CASE CommandReload
  BY <1>3 DEF CommandReload, vars, masterVars, slaveVars, history, PromiseOfEvents!Work, PromiseOfEvents!Next, PromiseOfEvents!vars
<1>4. CASE SighupLoads
  BY <1>4 DEF SighupLoads, vars, masterVars, slaveVars, history, PromiseOfEvents!vars
<1>5. CASE SighupEnds
  BY <1>5 DEF SighupEnds, vars, masterVars, slaveVars, history, PromiseOfEvents!Work, PromiseOfEvents!Next, PromiseOfEvents!vars
<1>6. CASE MasterDown
  BY <1>6 DEF MasterDown, vars, masterVars, slaveVars, history, PromiseOfEvents!vars
<1>7. CASE MasterUp
  BY <1>7 DEF MasterUp, vars, masterVars, slaveVars, history, PromiseOfEvents!Work, PromiseOfEvents!Next, PromiseOfEvents!vars
<1>8. CASE ReplicationSend
  BY <1>8 DEF ReplicationSend, vars, masterVars, slaveVars, history, PromiseOfEvents!Tell, PromiseOfEvents!Next, PromiseOfEvents!vars
<1>9. CASE PullStart
  BY <1>9 DEF PullStart, vars, masterVars, slaveVars, history, PromiseOfEvents!vars
<1>10. CASE PullLocks
  BY <1>10 DEF PullLocks, vars, masterVars, slaveVars, history, PromiseOfEvents!vars
<1>11. CASE PullSucceeds
  <2>1. slave.mode = "sync" \/ Fallback # 0 \/ Switches
    BY <1>11 DEF PullSucceeds, TypeOK, ModeInv, Modes
  <2>2. slave'.mode = "sync" \/ (Switches /\ slave'.mode = slave.mode)
    BY <1>11 DEF PullSucceeds, TypeOK, ModeInv, Modes
  <2> QED
    BY <1>11, <2>1, <2>2 DEF PullSucceeds, masterVars, PromiseOfEvents!Install, PromiseOfEvents!Next
<1>12. CASE PullFails
  <2>1. CASE TakesOver
    <3>1. slave'.mode = "takeover"
      BY <1>12, <2>1 DEF PullFails, TypeOK
    <3>2. CASE slave.mode = "sync"
      BY <1>12, <3>1, <3>2 DEF PullFails, masterVars, history, PromiseOfEvents!TakeOver, PromiseOfEvents!Next
    <3>3. CASE slave.mode = "takeover"
      BY <1>12, <3>1, <3>3 DEF PullFails, masterVars, history, PromiseOfEvents!vars
    <3> QED
      BY <3>2, <3>3 DEF TypeOK, Modes
  <2>2. CASE ~TakesOver
    <3>1. slave'.mode = slave.mode
      BY <1>12, <2>2 DEF PullFails, TypeOK
    <3> QED
      BY <1>12, <3>1 DEF PullFails, masterVars, history, PromiseOfEvents!vars
  <2> QED
    BY <2>1, <2>2
<1>13. CASE Receive
  BY <1>13 DEF Receive, vars, masterVars, slaveVars, history, PromiseOfEvents!Admit, PromiseOfEvents!Next, PromiseOfEvents!vars
<1>14. CASE StoreEvent
  BY <1>14 DEF StoreEvent, vars, masterVars, slaveVars, history, PromiseOfEvents!Store, PromiseOfEvents!Next, PromiseOfEvents!vars
<1>15. CASE DoHousekeeping
  BY <1>15 DEF DoHousekeeping, vars, masterVars, slaveVars, history, PromiseOfEvents!Housekeep, PromiseOfEvents!Next, PromiseOfEvents!vars
<1>16. CASE CommandDelete
  <2>1. slave.mode = "takeover"
    BY <1>16 DEF CommandDelete, AllowCommand, TypeOK, Modes
  <2> QED
    BY <1>16, <2>1 DEF CommandDelete, masterVars, history, PromiseOfEvents!Command, PromiseOfEvents!Next
<1>17. CASE CommandFlush
  <2>1. CASE slave'.mode = "sync"
    BY <1>17, <2>1 DEF CommandFlush, masterVars, history, PromiseOfEvents!Flush, PromiseOfEvents!Next
  <2>2. CASE slave' = slave /\ slave.mode = "takeover"
    BY <1>17, <2>2 DEF CommandFlush, masterVars, history, PromiseOfEvents!Command, PromiseOfEvents!Next
  <2>3. slave' = slave \/ slave'.mode = "sync"
    BY <1>17 DEF CommandFlush
  <2> QED
    BY <2>1, <2>2, <2>3 DEF TypeOK, Modes
<1>18. CASE CommandSwitchmode
  BY <1>18 DEF CommandSwitchmode, Modes, TypeOK, masterVars, history, PromiseOfEvents!SwitchMode, PromiseOfEvents!Next
<1>19. CASE SlaveReload
  BY <1>19 DEF SlaveReload, vars, masterVars, slaveVars, history, PromiseOfEvents!vars
<1>20. CASE UNCHANGED vars
  BY <1>20 DEF vars, masterVars, slaveVars, history, PromiseOfEvents!vars
<1> QED
  BY <1>1, <1>2, <1>3, <1>4, <1>5, <1>6, <1>7, <1>8, <1>9, <1>10, <1>11, <1>12, <1>13, <1>14, <1>15, <1>16, <1>17, <1>18, <1>19, <1>20 DEF Next, Master, Pull, Slave

LEMMA PromiseInit == Init => Promise!Init /\ PromiseOfEvents!Init
BY DEF Init, Promise!Init, PromiseOfEvents!Init

\* Without reloads of the slave and SIGHUPs of the master, the slave mirrors rules
\* and events of the master together, and in takeover mode nothing is pulled
\* unless it falls back by itself or somebody switches the mode.
THEOREM ReplicationImplementsStandby ==
  ~SlaveReloads /\ ~Sighups => (Spec => StandbySpec)
<1> SUFFICES ASSUME ~SlaveReloads, ~Sighups PROVE Spec => StandbySpec
  OBVIOUS
<1>1. TypeOK /\ Clocks /\ TypeOK' /\ RulesInv /\ [Next]_vars => RulesInv'
  BY RulesStep
<1>2. TypeOK /\ ModeInv /\ [Next]_vars => ModeInv'
  BY ModeStep
<1>3. TypeOK /\ RulesInv /\ ModeInv /\ [Next]_vars => [Promise!Next]_(Promise!vars)
  BY PromiseStep
<1>4. Spec => [](TypeOK /\ Clocks)
  BY ReplicationTypeCorrect
<1> QED
  BY <1>1, <1>2, <1>3, <1>4, RulesInit, ModeInit, PromiseInit, PTL
     DEF Spec, StandbySpec, Promise!Spec

\* That holds of the events, whatever reloads do to the rules.
THEOREM ReplicationMirrorsEvents == Spec => EventsSpec
<1>1. TypeOK /\ ModeInv /\ [Next]_vars => ModeInv'
  BY ModeStep
<1>2. TypeOK /\ ModeInv /\ [Next]_vars => [PromiseOfEvents!Next]_(PromiseOfEvents!vars)
  BY EventsStep
<1>3. Spec => [](TypeOK /\ Clocks)
  BY ReplicationTypeCorrect
<1> QED
  BY <1>1, <1>2, <1>3, ModeInit, PromiseInit, PTL DEF Spec, EventsSpec, PromiseOfEvents!Spec

=============================================================================
