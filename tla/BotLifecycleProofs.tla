------------------------- MODULE BotLifecycleProofs -------------------------
(***************************************************************************)
(* What holds of BotLifecycle for any number of bots, tasks, requests and  *)
(* restarts.  Types, RegisteredHasBridge and NoFalseOrphan hold without a  *)
(* condition.  That a bot has one task at most holds as long as no restart *)
(* at boot comes upon a live task of its bot, which it would take out of   *)
(* _running_bots; and none does if no boot restarts bots, or if nobody     *)
(* else starts any.  The last sections rank what is left to do for a row   *)
(* without a task and for a task on its way out, and say what alone can    *)
(* take a stop its signal.                                                 *)
(***************************************************************************)
EXTENDS BotLifecycle, TLAPS

\* restart_crashed_bots is at an attempt whenever it is inside start_bot.
BootIsStarting == startPc[Boot] # "idle" => bootPc = "starting"

LEMMA BootStarter == Boot \in Starters /\ Boot \notin StartReqs /\ None \notin Tasks
  BY ConstantsAssumption DEF Starters

\* A cancellation only moves the task: it ends or goes on, it never revives.
LEMMA CancelTaskType ==
  ASSUME TaskTypeOK, NEW t, NEW f, NEW down, CancelTask(t, f, down)
  PROVE  /\ pc' \in [Tasks -> TaskPcs]
         /\ retry' \in [Tasks -> Nat]
         /\ \A u \in Tasks : pc'[u] # "done" => pc[u] # "done"
  BY DEF TaskTypeOK, CancelTask, Goto, BackOff, TaskPcs

LEMMA InitTypes == Init => TypeOK /\ BootIsStarting
<1> SUFFICES ASSUME Init PROVE TypeOK /\ BootIsStarting
  OBVIOUS
<1> USE DEF Init, NoEntry
<1>1. DbTypeOK /\ MemTypeOK
  BY DEF DbTypeOK, MemTypeOK
<1>2. TaskTypeOK
  BY DEF TaskTypeOK, Live, TaskPcs
<1>3. StartTypeOK /\ StopTypeOK
  BY DEF StartTypeOK, StopTypeOK, StartPcs, StopPcs
<1>4. ProcessTypeOK
  BY DEF ProcessTypeOK, BootPcs, ReconPcs, ShutPcs
<1>5. BootIsStarting
  BY BootStarter DEF BootIsStarting
<1>6. QED
  BY <1>1, <1>2, <1>3, <1>4, <1>5 DEF TypeOK

\* Nothing moves.
LEMMA StutterTypes ==
  ASSUME TypeOK, BootIsStarting, UNCHANGED vars
  PROVE  TypeOK' /\ BootIsStarting'
  BY DEF vars, dbVars, memVars, taskVars, startVars, stopVars, bootVars, reconVars,
     shutVars, TypeOK, DbTypeOK, MemTypeOK, TaskTypeOK, StartTypeOK, StopTypeOK,
     ProcessTypeOK, BootIsStarting, Live

\* The callers of start_bot.
LEMMA StartTypes ==
  ASSUME TypeOK, BootIsStarting, NEW s \in Starters,
         \/ \E b \in Bots : s \in StartReqs /\ RequestStart(s, b)
         \/ EnterStart(s) \/ AcquireLock(s) \/ StartStep(s) \/ StartFails(s)
  PROVE  TypeOK' /\ BootIsStarting'
<1> USE BootStarter DEF dbVars, memVars, taskVars, startVars, stopVars, bootVars,
        reconVars, shutVars
<1> USE DEF TypeOK, DbTypeOK, MemTypeOK, TaskTypeOK, StartTypeOK, StopTypeOK,
        ProcessTypeOK, BootIsStarting, Live, StartPcs, BootPcs
<1>1. ASSUME NEW b \in Bots, s \in StartReqs, RequestStart(s, b)
      PROVE  TypeOK' /\ BootIsStarting'
  BY <1>1 DEF RequestStart
<1>2. CASE EnterStart(s)
  BY <1>2 DEF EnterStart, InsideLock, Abandon
<1>3. CASE AcquireLock(s)
  BY <1>3 DEF AcquireLock, Woken, InsideLock, Abandon
<1>4. CASE LoadBot(s)
  BY <1>4 DEF LoadBot, Abandon
<1>5. CASE CommitStarting(s)
  BY <1>5 DEF CommitStarting, Statuses
<1>6. CASE StoreRefs(s)
  BY <1>6 DEF StoreRefs, FreeTask, TaskPcs
<1>7. CASE StartFails(s)
  BY <1>7 DEF StartFails, Abandon
<1>8. QED
  BY <1>1, <1>2, <1>3, <1>4, <1>5, <1>6, <1>7 DEF StartStep

\* The wrapper task.
LEMMA TaskTypes ==
  ASSUME TypeOK, BootIsStarting, NEW t \in Tasks, TaskStep(t) \/ TaskFault(t)
  PROVE  TypeOK' /\ BootIsStarting'
<1> USE BootStarter DEF dbVars, memVars, taskVars, startVars, stopVars, bootVars,
        reconVars, shutVars
<1> USE DEF TypeOK, DbTypeOK, MemTypeOK, TaskTypeOK, StartTypeOK, StopTypeOK,
        ProcessTypeOK, BootIsStarting, Live, TaskPcs, Goto
<1>1. CASE MarkRunning(t)
  BY <1>1 DEF MarkRunning, Statuses
<1>2. CASE Connected(t) \/ PollEnds(t) \/ Wake(t)
  BY <1>2 DEF Connected, PollEnds, Wake, TaskMoves, BridgeReturned, BackOff
<1>3. CASE FreshBridge(t)
  BY <1>3 DEF FreshBridge
<1>4. CASE RecordEnd(t)
  BY <1>4 DEF RecordEnd, Statuses
<1>5. CASE Cleanup(t)
  BY <1>5 DEF Cleanup
<1>6. CASE WarmupFails(t) \/ BridgeRaises(t) \/ PermanentError(t) \/ WriteFails(t)
  BY <1>6 DEF WarmupFails, BridgeRaises, PermanentError, WriteFails, TaskMoves,
     BridgeReturned, BackOff
<1>7. QED
  BY <1>1, <1>2, <1>3, <1>4, <1>5, <1>6 DEF TaskStep, TaskFault

\* The callers of stop_bot.
LEMMA StopTypes ==
  ASSUME TypeOK, BootIsStarting, NEW q \in Stoppers,
         (\E b \in Bots : RequestStop(q, b)) \/ StopStep(q)
  PROVE  TypeOK' /\ BootIsStarting'
<1> USE DEF dbVars, memVars, taskVars, startVars, stopVars, bootVars, reconVars,
        shutVars
<1> USE DEF TypeOK, DbTypeOK, MemTypeOK, TaskTypeOK, StartTypeOK, StopTypeOK,
        ProcessTypeOK, BootIsStarting, Live, StopPcs
<1>1. ASSUME NEW b \in Bots, RequestStop(q, b)
      PROVE  TypeOK' /\ BootIsStarting'
  <2>1. TaskTypeOK'
    <3>1. flag' \in [Tasks -> BOOLEAN]
      BY <1>1 DEF RequestStop, Signal
    <3>2. UNCHANGED <<pc, owner, retry>>
      BY <1>1 DEF RequestStop
    <3>3. QED
      BY <3>1, <3>2
  <2>2. StopTypeOK'
    BY <1>1 DEF RequestStop
  <2>3. QED
    BY <1>1, <2>1, <2>2 DEF RequestStop
<1>2. CASE StopInDb(q)
  BY <1>2 DEF StopInDb, StopBotDone, Statuses
<1>3. CASE SignalStop(q)
  BY <1>3 DEF SignalStop, Signal
<1>4. CASE StopTimesOut(q)
  <2>1. TaskTypeOK'
    BY <1>4, CancelTaskType DEF StopTimesOut
  <2>2. QED
    BY <1>4, <2>1 DEF StopTimesOut
<1>5. CASE StopReturns(q)
  BY <1>5 DEF StopReturns, StopBotDone
<1>6. CASE BillingCommits(q)
  BY <1>6 DEF BillingCommits, Statuses
<1>7. QED
  BY <1>1, <1>2, <1>3, <1>4, <1>5, <1>6 DEF StopStep

\* A fresh process.
LEMMA RestartTypes ==
  ASSUME TypeOK, ProcessRestarts
  PROVE  TypeOK' /\ BootIsStarting'
<1> USE DEF ProcessRestarts, NoEntry
<1>1. DbTypeOK' /\ MemTypeOK'
  BY DEF TypeOK, DbTypeOK, MemTypeOK, dbVars
<1>2. TaskTypeOK'
  BY DEF TaskTypeOK, Live, TaskPcs
<1>3. StartTypeOK' /\ StopTypeOK'
  BY DEF StartTypeOK, StopTypeOK, StartPcs, StopPcs
<1>4. ProcessTypeOK'
  <2>1. crashes' \in Nat
    BY DEF TypeOK, ProcessTypeOK
  <2>2. /\ bootPc' = "sleep" /\ bootQueue' = {} /\ bootBot' = None
        /\ bootAttempt' = 0 /\ reconPc' = "idle" /\ reconIds' = {} /\ reconOrphans' = {}
        /\ shuttingDown' = FALSE /\ shutPc' = "idle" /\ shutTodo' = {} /\ shutTask' = None
    OBVIOUS
  <2>3. QED
    BY ONLY <2>1, <2>2 DEF ProcessTypeOK, BootPcs, ReconPcs, ShutPcs
<1>5. BootIsStarting'
  BY BootStarter DEF BootIsStarting
<1>6. QED
  BY <1>1, <1>2, <1>3, <1>4, <1>5 DEF TypeOK

\* Boot, reconciler, shutdown and the end of the process.
LEMMA ProcessTypes ==
  ASSUME TypeOK, BootIsStarting,
         \/ BootStep \/ ReconStep \/ ReconFails \/ (\E b \in Bots : GraceExpires(b))
         \/ BeginShutdown \/ ShutdownStep \/ ProcessRestarts
  PROVE  TypeOK' /\ BootIsStarting'
<1> USE BootStarter DEF dbVars, memVars, taskVars, startVars, stopVars, bootVars,
        reconVars, shutVars
<1> USE DEF TypeOK, DbTypeOK, MemTypeOK, TaskTypeOK, StartTypeOK, StopTypeOK,
        ProcessTypeOK, BootIsStarting, Live, BootPcs, ReconPcs, ShutPcs
<1>1. CASE BootSnapshot
  BY <1>1 DEF BootSnapshot
<1>2. ASSUME NEW b \in Bots, BootNext(b)
      PROVE  TypeOK' /\ BootIsStarting'
  BY <1>2 DEF BootNext, StartPcs
<1>3. CASE BootRetry
  BY <1>3 DEF BootRetry, StartPcs
<1>4. CASE BootGivesUp
  BY <1>4 DEF BootGivesUp, Statuses
<1>5. CASE ReconStep \/ ReconFails
  BY <1>5 DEF ReconStep, ReconSnapshot, ReconReads, ReconCommits, ReconFails, Statuses
<1>6. ASSUME NEW b \in Bots, GraceExpires(b)
      PROVE  TypeOK' /\ BootIsStarting'
  BY <1>6 DEF GraceExpires
<1>7. CASE BeginShutdown
  BY <1>7 DEF BeginShutdown, StartPcs
<1>8. ASSUME NEW b \in Bots, NEW t \in Tasks, ShutdownTask(b, t)
      PROVE  TypeOK' /\ BootIsStarting'
  BY <1>8, CancelTaskType DEF ShutdownTask
<1>9. CASE ShutdownTimesOut
  BY <1>9, CancelTaskType DEF ShutdownTimesOut
<1>10. CASE ShutdownProceeds
  BY <1>10 DEF ShutdownProceeds
<1>11. CASE ShutdownEnds
  BY <1>11 DEF ShutdownEnds, NoEntry
<1>12. CASE ProcessRestarts
  BY <1>12, RestartTypes
<1>13. QED
  BY <1>1, <1>2, <1>3, <1>4, <1>5, <1>6, <1>7, <1>8, <1>9, <1>10, <1>11, <1>12
     DEF BootStep, ShutdownStep

LEMMA NextTypes ==
  ASSUME TypeOK, BootIsStarting, [Next]_vars
  PROVE  TypeOK' /\ BootIsStarting'
  BY BootStarter, StutterTypes, StartTypes, TaskTypes, StopTypes, ProcessTypes
     DEF Next, Starters

LEMMA TypeTheorem == Spec => [](TypeOK /\ BootIsStarting)
  BY InitTypes, NextTypes, PTL DEF Spec

\* The variables have their types in every reachable state.
THEOREM TypeCorrect == Spec => []TypeOK
  BY TypeTheorem, PTL

-----------------------------------------------------------------------------
\* A registered bot has a bridge to signal: the two dictionaries are filled and
\* emptied in one go wherever start_bot, a restart, a fresh bridge or the finally
\* block touches them.
LEMMA BridgeInit == Init => RegisteredHasBridge
  BY DEF Init, NoEntry, RegisteredHasBridge

LEMMA BridgeStep ==
  ASSUME TypeOK, RegisteredHasBridge, [Next]_vars
  PROVE  RegisteredHasBridge'
<1> USE BootStarter DEF dbVars, memVars, taskVars, startVars, stopVars, bootVars,
        reconVars, shutVars
<1> USE DEF TypeOK, MemTypeOK, RegisteredHasBridge
<1>1. CASE UNCHANGED <<running, bridges>>
  BY <1>1
<1>2. ASSUME NEW s \in Starters, EnterStart(s) \/ AcquireLock(s)
      PROVE  RegisteredHasBridge'
  BY <1>2 DEF EnterStart, AcquireLock, InsideLock
<1>3. ASSUME NEW s \in Starters, StoreRefs(s)
      PROVE  RegisteredHasBridge'
  BY <1>3 DEF StoreRefs
<1>4. ASSUME NEW t \in Tasks, FreshBridge(t)
      PROVE  RegisteredHasBridge'
  BY <1>4 DEF FreshBridge
<1>5. ASSUME NEW t \in Tasks, Cleanup(t)
      PROVE  RegisteredHasBridge'
  BY <1>5 DEF Cleanup
<1>6. CASE ProcessRestarts
  BY <1>6 DEF ProcessRestarts, NoEntry
<1>7. ASSUME NEW s \in Starters,
             \/ \E b \in Bots : RequestStart(s, b)
             \/ LoadBot(s) \/ CommitStarting(s) \/ StartFails(s)
      PROVE  UNCHANGED <<running, bridges>>
  BY <1>7 DEF RequestStart, LoadBot, CommitStarting, StartFails
<1>8. ASSUME NEW t \in Tasks,
             \/ MarkRunning(t) \/ Connected(t) \/ PollEnds(t) \/ Wake(t)
             \/ RecordEnd(t) \/ TaskFault(t)
      PROVE  UNCHANGED <<running, bridges>>
  BY <1>8 DEF MarkRunning, Connected, PollEnds, Wake, RecordEnd, TaskFault,
     WarmupFails, BridgeRaises, PermanentError, WriteFails, TaskMoves
<1>9. ASSUME NEW q \in Stoppers, (\E b \in Bots : RequestStop(q, b)) \/ StopStep(q)
      PROVE  UNCHANGED <<running, bridges>>
  BY <1>9 DEF RequestStop, StopStep, StopInDb, SignalStop, StopTimesOut,
     StopReturns, BillingCommits
<1>10. CASE BootStep \/ ReconStep \/ ReconFails \/ \E b \in Bots : GraceExpires(b)
  <2>1. UNCHANGED <<running, bridges>>
    BY <1>10 DEF BootStep, BootSnapshot, BootNext, BootRetry, BootGivesUp,
       ReconStep, ReconSnapshot, ReconReads, ReconCommits, ReconFails, GraceExpires
  <2>2. QED
    BY <1>1, <2>1
<1>11. CASE \/ BeginShutdown \/ ShutdownTimesOut \/ ShutdownProceeds
             \/ \E b \in Bots, t \in Tasks : ShutdownTask(b, t)
  <2>1. UNCHANGED <<running, bridges>>
    BY <1>11 DEF BeginShutdown, ShutdownTask, ShutdownTimesOut, ShutdownProceeds
  <2>2. QED
    BY <1>1, <2>1
<1>12. CASE ShutdownEnds
  BY <1>12 DEF ShutdownEnds, NoEntry
<1>13. CASE UNCHANGED vars
  BY <1>1, <1>13 DEF vars
<1>14. QED
  BY <1>1, <1>2, <1>3, <1>4, <1>5, <1>6, <1>7, <1>8, <1>9, <1>10, <1>11, <1>12, <1>13
     DEF ShutdownStep, Next, Starters, StartStep, TaskStep

\* stop_bot, billing and shutdown_all find a bridge for every registered task, so
\* no stop of a registered bot ends in the branch that only edits the row.
THEOREM BridgeTheorem == Spec => []RegisteredHasBridge
<1>1. Spec => [](RegisteredHasBridge)
  BY BridgeInit, BridgeStep, TypeCorrect, PTL DEF Spec
<1>2. QED
  BY <1>1, PTL

-----------------------------------------------------------------------------
(***************************************************************************)
(* One task per bot.  LiveIsRegistered is not inductive: a start registers *)
(* its task blindly, so that nobody else may have passed the check of      *)
(* _running_bots for the same bot, and this is what the lock is for; the   *)
(* lock itself is deleted from _start_locks by a finishing task, so that a *)
(* caller inside it or waiting for it must still find it there.            *)
(***************************************************************************)

\* What a restart takes for granted when it drops the references of its bot: that
\* no task is behind them.
RestartFindsNoTask ==
    startPc[Boot] \in {"charged", "waiting"} =>
        \A t \in Tasks : Live(t) => owner[t] # startBot[Boot]

\* One caller of start_bot at a time is inside the lock of a bot.
LockExclusion ==
    \A r, s \in Starters :
        (startPc[r] \in InLock /\ startPc[s] \in InLock /\ startBot[r] = startBot[s])
            => r = s

\* A lock belongs to one bot.
LocksDistinct ==
    \A b, c \in Bots : (locks[b] = locks[c] /\ locks[b] # None) => b = c

\* The lock that a caller holds or waits for is the one in _start_locks.
LockIsCurrent ==
    \A s \in Starters : startPc[s] \in InLock \cup {"waiting"} =>
        startLock[s] # None /\ locks[startBot[s]] = startLock[s]

LockInv ==
    /\ LiveIsRegistered
    /\ LockGuardsStart
    /\ LockExclusion
    /\ LocksDistinct
    /\ LockIsCurrent

LEMMA LockInit == Init => LockInv
<1> SUFFICES ASSUME Init PROVE LockInv
  OBVIOUS
<1>1. \A s \in Starters : startPc[s] = "idle"
  BY DEF Init
<1>2. \A t \in Tasks : ~Live(t)
  BY DEF Init, Live
<1>3. \A b \in Bots : locks[b] = None
  BY DEF Init, NoEntry
<1>4. QED
  BY <1>1, <1>2, <1>3 DEF LockInv, LiveIsRegistered, LockGuardsStart,
     LockExclusion, LocksDistinct, LockIsCurrent, InLock

\* A step that starts no task and leaves the dictionaries and the callers of
\* start_bot alone.
LEMMA LockFrame ==
  ASSUME LockInv, UNCHANGED <<running, owner, locks, startVars>>,
         \A t \in Tasks : Live(t)' => Live(t)
  PROVE  LockInv'
  BY DEF LockInv, LiveIsRegistered, LockGuardsStart, LockExclusion, LocksDistinct,
     LockIsCurrent, startVars

\* Entering the lock l of the bot: nobody else is inside a lock of that bot.
LEMMA LockEntered ==
  ASSUME TypeOK, LockInv, RestartFindsNoTask, NEW s \in Starters, NEW l \in Locks,
         startPc[s] \in {"charged", "waiting"}, InsideLock(s, l),
         ~LockHeld(l), UNCHANGED taskVars,
         locks' = [locks EXCEPT ![startBot[s]] = l],
         locks[startBot[s]] = l \/ (locks[startBot[s]] = None /\ FreeLock(l))
  PROVE  LockInv'
<1> DEFINE b == startBot[s]
<1>1. b \in Bots /\ l # None /\ startPc[s] \notin InLock
  BY ConstantsAssumption DEF TypeOK, StartTypeOK, InLock
<1>2. \A r \in Starters : startPc[r] \in InLock => startBot[r] # b
  BY <1>1 DEF LockInv, LockIsCurrent, LockHeld
<1>3. \/ Abandon(s) /\ running' = running
      \/ /\ running[b] = None \/ s = Boot
         /\ running' = [running EXCEPT ![b] = None]
         /\ startPc' = [startPc EXCEPT ![s] = "loading"]
         /\ startLock' = [startLock EXCEPT ![s] = l]
         /\ UNCHANGED startBot
  BY DEF InsideLock
<1>4. /\ startPc'[s] # "waiting"
      /\ startPc'[s] \in InLock =>
            startLock'[s] = l /\ startBot'[s] = b /\ running'[b] = None
      /\ \A r \in Starters \ {s} : /\ startPc'[r] = startPc[r]
                                   /\ startBot'[r] = startBot[r]
                                   /\ startLock'[r] = startLock[r]
  BY <1>1, <1>3 DEF Abandon, InLock, TypeOK, StartTypeOK, MemTypeOK
<1>5. locks'[b] = l /\ \A c \in Bots \ {b} : locks'[c] = locks[c] /\ locks'[c] # l
  BY <1>1 DEF LockInv, LocksDistinct, FreeLock, TypeOK, MemTypeOK
<1>6. \A c \in Bots : running'[c] = running[c] \/ running'[c] = None
  BY <1>1, <1>3 DEF TypeOK, MemTypeOK
<1>7. LiveIsRegistered'
  <2> SUFFICES ASSUME NEW t \in Tasks, Live(t) PROVE running'[owner[t]] = t
    BY DEF LiveIsRegistered, Live, taskVars
  <2>1. running[owner[t]] = t /\ owner[t] \in Bots /\ t # None
    BY BootStarter DEF LockInv, LiveIsRegistered, TypeOK, TaskTypeOK
  <2>2. CASE s = Boot
    <3>1. owner[t] # b
      BY <2>2 DEF RestartFindsNoTask
    <3> QED
      BY <1>1, <1>3, <2>1, <3>1 DEF TypeOK, MemTypeOK
  <2>3. CASE s # Boot
    <3>1. running' = running
      BY <1>1, <1>3, <2>3 DEF TypeOK, MemTypeOK
    <3> QED
      BY <2>1, <3>1
  <2> QED
    BY <2>2, <2>3
<1>8. LockIsCurrent'
  <2> SUFFICES ASSUME NEW r \in Starters, startPc'[r] \in InLock \cup {"waiting"}
               PROVE  startLock'[r] # None /\ locks'[startBot'[r]] = startLock'[r]
    BY DEF LockIsCurrent, InLock
  <2>1. CASE r = s
    BY <2>1, <1>1, <1>4, <1>5
  <2>2. CASE r # s
    <3>1. /\ startLock[r] # None /\ locks[startBot[r]] = startLock[r]
          /\ startBot[r] \in Bots
      BY <2>2, <1>4 DEF LockInv, LockIsCurrent, InLock, TypeOK, StartTypeOK
    <3>2. locks'[startBot[r]] = locks[startBot[r]]
      BY <1>5, <3>1, <2>2
    <3>3. QED
      BY <2>2, <1>4, <3>1, <3>2
  <2>3. QED
    BY <2>1, <2>2
<1>9. LockExclusion'
  BY <1>2, <1>4 DEF LockInv, LockExclusion
<1>10. LocksDistinct'
  BY <1>5 DEF LockInv, LocksDistinct
<1>11. LockGuardsStart'
  <2> SUFFICES ASSUME NEW r \in Starters, startPc'[r] \in InLock
               PROVE  running'[startBot'[r]] = None
    BY <1>8 DEF LockGuardsStart, LockIsCurrent
  <2>1. CASE r = s
    BY <2>1, <1>4
  <2>2. CASE r # s
    BY <2>2, <1>4, <1>6 DEF LockInv, LockGuardsStart, TypeOK, StartTypeOK, InLock
  <2> QED
    BY <2>1, <2>2
<1>12. QED
  BY <1>7, <1>8, <1>9, <1>10, <1>11 DEF LockInv

\* A caller of start_bot moves on inside its lock, leaves it, or comes in from
\* outside; tasks and dictionaries stay.
LEMMA LockMoves ==
  ASSUME TypeOK, LockInv, NEW s \in Starters, UNCHANGED <<running, locks, taskVars>>,
         \/ /\ startPc' = [startPc EXCEPT ![s] = "charged"]
            /\ UNCHANGED startLock
            /\ \E b \in Bots : startBot' = [startBot EXCEPT ![s] = b]
         \/ /\ startPc[s] \in InLock /\ UNCHANGED <<startLock, startBot>>
            /\ \E p \in InLock : startPc' = [startPc EXCEPT ![s] = p]
         \/ /\ startPc[s] \in InLock /\ Abandon(s)
  PROVE  LockInv'
<1>1. /\ startPc'[s] \in InLock => startPc[s] \in InLock /\ startBot'[s] = startBot[s]
                                     /\ startLock'[s] = startLock[s]
      /\ startPc'[s] # "waiting"
      /\ \A r \in Starters \ {s} : /\ startPc'[r] = startPc[r]
                                   /\ startBot'[r] = startBot[r]
                                   /\ startLock'[r] = startLock[r]
  BY DEF Abandon, InLock, TypeOK, StartTypeOK
<1>2. LiveIsRegistered' /\ LocksDistinct'
  BY DEF LockInv, LiveIsRegistered, LocksDistinct, Live, taskVars
<1>3. LockIsCurrent' /\ LockGuardsStart'
  BY <1>1 DEF LockInv, LockIsCurrent, LockGuardsStart, InLock
<1>4. LockExclusion'
  BY <1>1 DEF LockInv, LockExclusion
<1>5. QED
  BY <1>2, <1>3, <1>4 DEF LockInv

\* Taking the lock, or queueing for it.
LEMMA LockEnter ==
  ASSUME TypeOK, LockInv, RestartFindsNoTask, NEW s \in Starters, EnterStart(s)
  PROVE  LockInv'
<1> DEFINE b == startBot[s]
<1>1. b \in Bots
  BY DEF EnterStart, TypeOK, StartTypeOK
<1>2. PICK l \in Locks :
        /\ locks[b] = l \/ (locks[b] = None /\ FreeLock(l))
        /\ locks' = [locks EXCEPT ![b] = l]
        /\ \/ /\ LockHeld(l)
              /\ startPc' = [startPc EXCEPT ![s] = "waiting"]
              /\ startLock' = [startLock EXCEPT ![s] = l]
              /\ UNCHANGED <<running, bridges, startBot, bootPc>>
           \/ /\ ~LockHeld(l)
              /\ InsideLock(s, l)
  BY DEF EnterStart
<1>3. CASE LockHeld(l)
  <2>1. PICK h \in Starters : startPc[h] \in InLock /\ startLock[h] = l
    BY <1>3 DEF LockHeld
  <2>2. locks[b] = l /\ locks' = locks /\ l # None
    BY <1>1, <1>2, <2>1, ConstantsAssumption DEF FreeLock, TypeOK, MemTypeOK
  <2>3. /\ startPc' = [startPc EXCEPT ![s] = "waiting"]
        /\ startLock' = [startLock EXCEPT ![s] = l]
        /\ UNCHANGED <<running, startBot>>
    BY <1>2, <1>3
  <2>4. UNCHANGED taskVars
    BY DEF EnterStart
  <2>5. /\ startPc'[s] = "waiting" /\ startLock'[s] = l
        /\ \A r \in Starters \ {s} : startPc'[r] = startPc[r] /\ startLock'[r] = startLock[r]
    BY <2>3 DEF TypeOK, StartTypeOK
  <2>6. LiveIsRegistered' /\ LocksDistinct'
    BY <2>2, <2>3, <2>4 DEF LockInv, LiveIsRegistered, LocksDistinct, Live, taskVars
  <2>7. LockIsCurrent'
    BY <2>2, <2>3, <2>5 DEF LockInv, LockIsCurrent, InLock
  <2>8. LockGuardsStart' /\ LockExclusion'
    BY <2>2, <2>3, <2>5 DEF LockInv, LockGuardsStart, LockExclusion, InLock
  <2>9. QED
    BY <2>6, <2>7, <2>8 DEF LockInv
<1>4. CASE ~LockHeld(l)
  <2>1. InsideLock(s, l) /\ UNCHANGED taskVars
    BY <1>2, <1>4 DEF EnterStart
  <2>2. startPc[s] = "charged"
    BY DEF EnterStart
  <2>3. QED
    BY <1>1, <1>2, <1>4, <2>1, <2>2, LockEntered
<1>5. QED
  BY <1>3, <1>4

LEMMA LockAcquire ==
  ASSUME TypeOK, LockInv, RestartFindsNoTask, NEW s \in Starters, AcquireLock(s)
  PROVE  LockInv'
<1>1. startBot[s] \in Bots
  BY DEF AcquireLock, Woken, TypeOK, StartTypeOK
<1>2. startLock[s] \in Locks /\ locks[startBot[s]] = startLock[s]
  BY DEF AcquireLock, Woken, LockInv, LockIsCurrent, TypeOK, StartTypeOK
<1>3. locks' = [locks EXCEPT ![startBot[s]] = startLock[s]]
  BY <1>1, <1>2 DEF AcquireLock, TypeOK, MemTypeOK
<1>4. QED
  BY <1>2, <1>3, LockEntered DEF AcquireLock, Woken

\* The new task of StoreRefs is the only one of its bot: the lock has kept
\* everybody else away since _running_bots was found without the bot.
LEMMA LockStore ==
  ASSUME TypeOK, LockInv, NEW s \in Starters, StoreRefs(s)
  PROVE  LockInv'
<1> DEFINE b == startBot[s]
<1>1. b \in Bots /\ startPc[s] \in InLock
  BY DEF StoreRefs, TypeOK, StartTypeOK, InLock
<1>2. PICK t \in Tasks :
        /\ FreeTask(t)
        /\ running' = [running EXCEPT ![b] = t]
        /\ pc' = [pc EXCEPT ![t] = "init"]
        /\ owner' = [owner EXCEPT ![t] = b]
  BY DEF StoreRefs
<1>3. running[b] = None /\ \A u \in Tasks : Live(u) => owner[u] # b
  BY <1>1, BootStarter DEF LockInv, LockGuardsStart, LiveIsRegistered
<1>4. \A r \in Starters \ {s} : startPc[r] \in InLock => startBot[r] # b
  BY <1>1 DEF LockInv, LockExclusion
<1>5. /\ startPc'[s] = "idle"
      /\ \A r \in Starters \ {s} : /\ startPc'[r] = startPc[r]
                                   /\ startBot'[r] = startBot[r]
                                   /\ startLock'[r] = startLock[r]
  BY DEF StoreRefs, TypeOK, StartTypeOK
<1>6. LiveIsRegistered'
  <2> SUFFICES ASSUME NEW u \in Tasks, Live(u)'
               PROVE  running'[owner'[u]] = u
    BY DEF LiveIsRegistered
  <2>1. CASE u = t
    BY <1>1, <1>2, <2>1 DEF TypeOK, MemTypeOK, TaskTypeOK
  <2>2. CASE u # t
    <3>1. Live(u) /\ owner'[u] = owner[u] /\ owner[u] \in Bots
      BY <1>2, <2>2 DEF Live, TypeOK, TaskTypeOK
    <3>2. QED
      BY <1>2, <1>3, <3>1 DEF LockInv, LiveIsRegistered, TypeOK, MemTypeOK
  <2>3. QED
    BY <2>1, <2>2
<1>7. LocksDistinct'
  BY DEF StoreRefs, LockInv, LocksDistinct
<1>8. LockIsCurrent'
  BY <1>5 DEF StoreRefs, LockInv, LockIsCurrent, InLock
<1>9. LockGuardsStart'
  <2> SUFFICES ASSUME NEW r \in Starters, startPc'[r] \in InLock
               PROVE  running'[startBot'[r]] = None
    BY <1>8 DEF LockGuardsStart, LockIsCurrent
  <2>1. r # s /\ startPc[r] \in InLock
    BY <1>5 DEF InLock
  <2>2. startBot'[r] = startBot[r] /\ startBot[r] # b /\ running[startBot[r]] = None
    BY <1>4, <1>5, <2>1 DEF LockInv, LockGuardsStart
  <2>3. QED
    BY <1>2, <2>2 DEF TypeOK, MemTypeOK
<1>10. LockExclusion'
  BY <1>5 DEF LockInv, LockExclusion, InLock
<1>11. QED
  BY <1>6, <1>7, <1>8, <1>9, <1>10 DEF LockInv

\* A finishing task deletes the lock of its bot, which nobody is in: the bot has
\* been registered all the time.  Nor is anybody queueing for it, since a waiter
\* whose lock is free has run before.
LEMMA LockCleanup ==
  ASSUME TypeOK, LockInv, ~ReadyNow, NEW t \in Tasks, Cleanup(t)
  PROVE  LockInv'
<1> DEFINE b == owner[t]
<1>1. Live(t) /\ b \in Bots /\ running[b] = t /\ t # None
  BY BootStarter DEF Cleanup, Live, LockInv, LiveIsRegistered, TypeOK, TaskTypeOK
<1>2. \A s \in Starters : startPc[s] \in InLock => startBot[s] # b
  BY <1>1 DEF LockInv, LockGuardsStart
<1>3. \A s \in Starters : startPc[s] = "waiting" => startBot[s] # b
  <2> SUFFICES ASSUME NEW s \in Starters, startPc[s] = "waiting", startBot[s] = b
               PROVE  FALSE
    OBVIOUS
  <2>1. PICK h \in Starters : startPc[h] \in InLock /\ startLock[h] = startLock[s]
    BY DEF ReadyNow, Woken, LockHeld
  <2>2. locks[startBot[h]] = locks[b] /\ locks[b] # None /\ startBot[h] \in Bots
    BY <2>1 DEF LockInv, LockIsCurrent, TypeOK, StartTypeOK, InLock
  <2>3. startBot[h] = b
    BY <1>1, <2>2 DEF LockInv, LocksDistinct
  <2>4. QED
    BY <1>2, <2>1, <2>3
<1>4. /\ locks'[b] = None /\ running'[b] = None
      /\ \A c \in Bots \ {b} : locks'[c] = locks[c] /\ running'[c] = running[c]
  BY <1>1 DEF Cleanup, TypeOK, MemTypeOK
<1>5. UNCHANGED startVars
  BY DEF Cleanup, startVars
<1>6. LiveIsRegistered'
  <2> SUFFICES ASSUME NEW u \in Tasks, Live(u)'
               PROVE  running'[owner'[u]] = u
    BY DEF LiveIsRegistered
  <2>1. u # t /\ Live(u) /\ owner'[u] = owner[u] /\ owner[u] \in Bots
    BY DEF Cleanup, Live, TypeOK, TaskTypeOK
  <2>2. running[owner[u]] = u
    BY <2>1 DEF LockInv, LiveIsRegistered
  <2>3. QED
    BY <1>1, <1>4, <2>1, <2>2
<1>7. LockIsCurrent' /\ LockGuardsStart'
  BY <1>2, <1>3, <1>4, <1>5 DEF LockInv, LockIsCurrent, LockGuardsStart, startVars,
     TypeOK, StartTypeOK, InLock
<1>8. LocksDistinct'
  BY <1>4 DEF LockInv, LocksDistinct
<1>9. LockExclusion'
  BY <1>5 DEF LockInv, LockExclusion, startVars
<1>10. QED
  BY <1>6, <1>7, <1>8, <1>9 DEF LockInv

\* The steps that start no task and leave _running_bots and _start_locks alone.
LEMMA LockQuiet ==
  ASSUME TypeOK, LockInv,
         \/ \E t \in Tasks : \/ MarkRunning(t) \/ Connected(t) \/ PollEnds(t)
                             \/ Wake(t) \/ FreshBridge(t) \/ RecordEnd(t)
                             \/ TaskFault(t)
         \/ \E q \in Stoppers : (\E b \in Bots : RequestStop(q, b)) \/ StopStep(q)
         \/ BootStep \/ ReconStep \/ ReconFails \/ (\E b \in Bots : GraceExpires(b))
         \/ (\E b \in Bots, t \in Tasks : ShutdownTask(b, t)) \/ ShutdownTimesOut \/ ShutdownProceeds
         \/ UNCHANGED vars
  PROVE  LockInv'
<1> USE DEF dbVars, memVars, taskVars, startVars, stopVars, bootVars, reconVars,
        shutVars, Live, TypeOK
<1>1. ASSUME NEW t \in Tasks,
             \/ MarkRunning(t) \/ Connected(t) \/ PollEnds(t) \/ Wake(t)
             \/ FreshBridge(t) \/ RecordEnd(t) \/ TaskFault(t)
      PROVE  LockInv'
  <2>1. /\ UNCHANGED <<running, owner, locks, startVars>>
        /\ pc[t] # "done" /\ \A u \in Tasks \ {t} : pc'[u] = pc[u]
    BY <1>1 DEF MarkRunning, Connected, PollEnds, Wake, FreshBridge, RecordEnd,
       TaskFault, WarmupFails, BridgeRaises, PermanentError, WriteFails, TaskMoves,
       BridgeReturned, BackOff, Goto, TaskTypeOK
  <2>2. QED
    BY <2>1, LockFrame
<1>2. ASSUME NEW q \in Stoppers,
             \/ \E b \in Bots : RequestStop(q, b)
             \/ StopInDb(q) \/ SignalStop(q) \/ StopReturns(q) \/ BillingCommits(q)
      PROVE  LockInv'
  <2>1. UNCHANGED <<running, owner, pc, locks, startVars>>
    BY <1>2 DEF RequestStop, StopInDb, SignalStop, StopReturns, BillingCommits
  <2>2. QED
    BY <2>1, LockFrame
<1>3. ASSUME NEW q \in Stoppers, StopTimesOut(q)
      PROVE  LockInv'
  BY <1>3, CancelTaskType, LockFrame DEF StopTimesOut
<1>4. CASE BootStep
  <2>1. ASSUME NEW b \in Bots, startPc' = [startPc EXCEPT ![Boot] = "charged"],
               startBot' = [startBot EXCEPT ![Boot] = b],
               UNCHANGED <<running, locks, taskVars, startLock>>
        PROVE  LockInv'
    BY <2>1, BootStarter, LockMoves
  <2>2. ASSUME NEW b \in Bots, BootNext(b)
        PROVE  LockInv'
    <3>1. CASE running[b] # None
      <4>1. UNCHANGED <<running, owner, pc, locks, startVars>>
        BY <2>2, <3>1 DEF BootNext
      <4>2. QED
        BY <4>1, LockFrame
    <3>2. CASE running[b] = None
      BY <2>1, <2>2, <3>2 DEF BootNext
    <3>3. QED
      BY <3>1, <3>2
  <2>3. CASE BootRetry
    <3>1. bootBot \in Bots
      BY <2>3 DEF BootRetry, ProcessTypeOK
    <3>2. QED
      BY <2>1, <2>3, <3>1 DEF BootRetry
  <2>4. CASE BootSnapshot \/ BootGivesUp
    <3>1. UNCHANGED <<running, owner, pc, locks, startVars>>
      BY <2>4 DEF BootSnapshot, BootGivesUp
    <3>2. QED
      BY <3>1, LockFrame
  <2>5. QED
    BY <1>4, <2>2, <2>3, <2>4 DEF BootStep
<1>5. CASE ReconStep \/ ReconFails \/ \E b \in Bots : GraceExpires(b)
  <2>1. UNCHANGED <<running, owner, pc, locks, startVars>>
    BY <1>5 DEF ReconStep, ReconSnapshot, ReconReads, ReconCommits, ReconFails,
       GraceExpires
  <2>2. QED
    BY <2>1, LockFrame
<1>6. CASE (\E b \in Bots, t \in Tasks : ShutdownTask(b, t)) \/ ShutdownTimesOut \/ ShutdownProceeds
  <2>1. /\ UNCHANGED <<running, owner, locks, startVars>>
        /\ \A u \in Tasks : pc'[u] # "done" => pc[u] # "done"
    BY <1>6, CancelTaskType DEF ShutdownTask, ShutdownTimesOut, ShutdownProceeds
  <2>2. QED
    BY <2>1, LockFrame
<1>7. CASE UNCHANGED vars
  BY <1>7, LockFrame DEF vars
<1>8. QED
  BY <1>1, <1>2, <1>3, <1>4, <1>5, <1>6, <1>7 DEF StopStep

\* A shutdown reaches every live task before it clears the dictionaries, for no
\* start is under way by then.
ShutdownInv ==
    /\ shutPc # "idle" => shuttingDown
    /\ shutPc = "over" => shutTodo = {}
    /\ shuttingDown => bootPc = "off" /\ \A s \in Starters : startPc[s] = "idle"
    /\ shuttingDown =>
          \A t \in Tasks : Live(t) =>
              \/ <<owner[t], t>> \in shutTodo
              \/ shutPc \in {"waiting", "timedout"} /\ shutTask = t

LEMMA ShutdownInvStep ==
  ASSUME TypeOK, BootIsStarting, LockInv, ShutdownInv, [Next]_vars
  PROVE  ShutdownInv'
<1> USE BootStarter DEF dbVars, memVars, taskVars, startVars, stopVars, bootVars,
        reconVars, shutVars, ShutdownInv
<1>1. ASSUME UNCHANGED <<shutVars, bootPc, startPc>>,
             \A t \in Tasks : Live(t)' => Live(t) /\ owner'[t] = owner[t]
      PROVE  ShutdownInv'
  BY <1>1
<1>2. ASSUME NEW s \in Starters,
             \/ \E b \in Bots : RequestStart(s, b)
             \/ EnterStart(s) \/ AcquireLock(s) \/ StartStep(s) \/ StartFails(s)
      PROVE  ShutdownInv'
  <2>1. ~shuttingDown /\ UNCHANGED <<shuttingDown, shutPc>>
    BY <1>2 DEF RequestStart, EnterStart, AcquireLock, Woken, StartStep, LoadBot,
       CommitStarting, StoreRefs, StartFails
  <2>2. QED
    BY <2>1
<1>3. ASSUME NEW t \in Tasks, TaskStep(t) \/ TaskFault(t)
      PROVE  ShutdownInv'
  <2>1. /\ UNCHANGED <<shutVars, bootPc, startPc>>
        /\ Live(t) /\ \A u \in Tasks \ {t} : pc'[u] = pc[u] /\ owner'[u] = owner[u]
        /\ Live(t)' => owner'[t] = owner[t]
    BY <1>3 DEF TaskStep, TaskFault, MarkRunning, Connected, PollEnds, Wake,
       FreshBridge, RecordEnd, Cleanup, WarmupFails, BridgeRaises, PermanentError,
       WriteFails, TaskMoves, BridgeReturned, BackOff, Goto, Live, TypeOK, TaskTypeOK
  <2>2. QED
    BY <2>1, <1>1 DEF Live
<1>4. ASSUME NEW q \in Stoppers, (\E b \in Bots : RequestStop(q, b)) \/ StopStep(q)
      PROVE  ShutdownInv'
  <2>1. CASE StopTimesOut(q)
    BY <1>1, <2>1, CancelTaskType DEF StopTimesOut, Live, TypeOK
  <2>2. CASE ~StopTimesOut(q)
    <3>1. UNCHANGED <<shutVars, bootPc, startPc, pc, owner>>
      BY <1>4, <2>2 DEF RequestStop, StopStep, StopInDb, SignalStop, StopReturns,
         BillingCommits
    <3>2. QED
      BY <3>1, <1>1 DEF Live
  <2>3. QED
    BY <2>1, <2>2
<1>5. CASE BootStep
  <2>1. bootPc # "off" /\ UNCHANGED <<shuttingDown, shutPc>>
    BY <1>5 DEF BootStep, BootSnapshot, BootNext, BootRetry, BootGivesUp
  <2>2. QED
    BY <2>1
<1>6. CASE ReconStep \/ ReconFails \/ \E b \in Bots : GraceExpires(b)
  <2>1. UNCHANGED <<shutVars, bootPc, startPc, pc, owner>>
    BY <1>6 DEF ReconStep, ReconSnapshot, ReconReads, ReconCommits, ReconFails,
       GraceExpires
  <2>2. QED
    BY <2>1, <1>1 DEF Live
<1>7. CASE BeginShutdown
  <2>1. /\ \A s \in Starters : startPc'[s] = "idle"
        /\ shutTodo' = {e \in Bots \X Tasks : running[e[1]] = e[2]}
        /\ shuttingDown' /\ shutPc' = "next" /\ bootPc' = "off" /\ UNCHANGED <<pc, owner>>
    BY <1>7 DEF BeginShutdown, Starters, TypeOK, StartTypeOK
  <2>2. QED
    BY <2>1 DEF LockInv, LiveIsRegistered, Live, TypeOK, TaskTypeOK
<1>8. ASSUME NEW b \in Bots, NEW t \in Tasks, ShutdownTask(b, t)
      PROVE  ShutdownInv'
  <2>1. /\ UNCHANGED <<bootPc, startPc, owner, shuttingDown>>
        /\ shutPc = "next" /\ shutTodo' = shutTodo \ {<<b, t>>}
        /\ \A u \in Tasks : Live(u)' => Live(u)
        /\ shutPc' = "waiting" /\ shutTask' = t
    BY <1>8, CancelTaskType DEF ShutdownTask, Live, TypeOK
  <2>2. QED
    BY <2>1
<1>9. CASE ShutdownTimesOut
  <2>1. /\ UNCHANGED <<bootPc, startPc, owner, shuttingDown, shutTodo, shutTask>>
        /\ shutPc = "waiting" /\ shutPc' = "timedout"
        /\ \A t \in Tasks : Live(t)' => Live(t)
    BY <1>9, CancelTaskType DEF ShutdownTimesOut, Live, TypeOK
  <2>2. QED
    BY <2>1
<1>10. CASE ShutdownProceeds \/ ShutdownEnds
  BY <1>10 DEF ShutdownProceeds, ShutdownEnds, Live
<1>11. CASE ProcessRestarts
  BY <1>11 DEF ProcessRestarts
<1>12. CASE UNCHANGED vars
  BY <1>12, <1>1 DEF vars, Live
<1>13. QED
  BY <1>2, <1>3, <1>4, <1>5, <1>6, <1>7, <1>8, <1>9, <1>10, <1>11, <1>12
     DEF Next, Starters, ShutdownStep

\* The dictionaries are cleared when no task is alive.
LEMMA LockCleared ==
  ASSUME TypeOK, LockInv, ShutdownInv, ShutdownEnds
  PROVE  LockInv'
<1>1. /\ \A t \in Tasks : ~Live(t)
      /\ \A s \in Starters : startPc[s] = "idle"
  BY DEF ShutdownInv, ShutdownEnds
<1>2. UNCHANGED <<pc, owner, locks, startPc, startBot, startLock>>
  BY DEF ShutdownEnds, taskVars, startVars
<1>3. QED
  BY <1>1, <1>2 DEF LockInv, LiveIsRegistered, LockGuardsStart,
     LockExclusion, LocksDistinct, LockIsCurrent, InLock, Live

LEMMA LockStep ==
  ASSUME TypeOK, LockInv, ShutdownInv, RestartFindsNoTask, [Next]_vars
  PROVE  LockInv'
<1>1. ASSUME NEW s \in Starters, EnterStart(s) \/ AcquireLock(s)
      PROVE  LockInv'
  BY <1>1, LockEnter, LockAcquire
<1>2. ASSUME NEW s \in StartReqs, NEW b \in Bots, RequestStart(s, b)
      PROVE  LockInv'
  BY <1>2, LockMoves DEF RequestStart, memVars, Starters
<1>3. ASSUME NEW s \in Starters, LoadBot(s) \/ CommitStarting(s) \/ StartFails(s)
      PROVE  LockInv'
  <2>1. startPc[s] \in InLock
    BY <1>3 DEF LoadBot, CommitStarting, StartFails, InLock
  <2>2. QED
    BY <1>3, <2>1, LockMoves DEF LoadBot, CommitStarting, StartFails, memVars, InLock
<1>4. ASSUME NEW s \in Starters, StoreRefs(s)
      PROVE  LockInv'
  BY <1>4, LockStore
<1>5. ASSUME ~ReadyNow, NEW t \in Tasks, Cleanup(t)
      PROVE  LockInv'
  BY <1>5, LockCleanup
<1>6. CASE BeginShutdown
  <2>1. /\ \A s \in Starters : startPc'[s] = "idle"
        /\ UNCHANGED <<running, locks, owner, pc>>
    BY <1>6 DEF BeginShutdown, Starters, TypeOK, StartTypeOK, memVars, taskVars
  <2>2. QED
    BY <2>1 DEF LockInv, LiveIsRegistered, LockGuardsStart,
       LockExclusion, LocksDistinct, LockIsCurrent, InLock, Live
<1>7. CASE ProcessRestarts
  <2>1. /\ \A s \in Starters : startPc'[s] = "idle"
        /\ \A t \in Tasks : pc'[t] = "done"
        /\ \A b \in Bots : locks'[b] = None
    BY <1>7 DEF ProcessRestarts, NoEntry
  <2>2. QED
    BY <2>1 DEF LockInv, LiveIsRegistered, LockGuardsStart,
       LockExclusion, LocksDistinct, LockIsCurrent, InLock, Live
<1>8. ASSUME \/ \E t \in Tasks : \/ MarkRunning(t) \/ Connected(t) \/ PollEnds(t)
                                   \/ Wake(t) \/ FreshBridge(t) \/ RecordEnd(t)
                                   \/ TaskFault(t)
             \/ \E q \in Stoppers : (\E b \in Bots : RequestStop(q, b)) \/ StopStep(q)
             \/ BootStep \/ ReconStep \/ ReconFails \/ (\E b \in Bots : GraceExpires(b))
             \/ (\E b \in Bots, t \in Tasks : ShutdownTask(b, t)) \/ ShutdownTimesOut \/ ShutdownProceeds
             \/ UNCHANGED vars
      PROVE  LockInv'
  BY <1>8, LockQuiet
<1>9. CASE ShutdownEnds
  BY <1>9, LockCleared
<1>10. QED
  BY <1>1, <1>2, <1>3, <1>4, <1>5, <1>6, <1>7, <1>8, <1>9, BootStarter
     DEF Next, Starters, StartStep, TaskStep, ShutdownStep

LEMMA LockTheorem == Spec /\ []RestartFindsNoTask => [](LockInv /\ ShutdownInv)
<1>1. Init => LockInv /\ ShutdownInv
  BY LockInit DEF Init, ShutdownInv
<1>2. TypeOK /\ BootIsStarting /\ LockInv /\ ShutdownInv /\ RestartFindsNoTask /\ [Next]_vars
          => LockInv' /\ ShutdownInv'
  BY LockStep, ShutdownInvStep
<1>3. QED
  BY <1>1, <1>2, TypeTheorem, PTL DEF Spec

LEMMA LockInvSafe == LockInv => OneTaskPerBot /\ LiveIsRegistered /\ LockGuardsStart
  BY DEF LockInv, LiveIsRegistered, OneTaskPerBot

\* When shutdown_all returns, no task is alive.
ShutdownReachesAll == shutPc = "over" => \A t \in Tasks : ~Live(t)

LEMMA ShutdownInvSafe == ShutdownInv => ShutdownReachesAll
  BY DEF ShutdownInv, ShutdownReachesAll

\* A bot trades twice only after a restart at boot has come upon a live task of it:
\* however starts, stops, faults of the bridge, database faults and the finally
\* block that deletes the lock interleave, nothing else leads to two tasks.
THEOREM OneTaskTheorem == Spec /\ []RestartFindsNoTask => []OneTaskPerBot
  BY LockTheorem, LockInvSafe, PTL

\* Until then every live task can be reached through _running_bots.
THEOREM RegisteredTheorem == Spec /\ []RestartFindsNoTask => []LiveIsRegistered
  BY LockTheorem, LockInvSafe, PTL

\* Until then the lock of start_bot guards its check of _running_bots until the task
\* is registered.
THEOREM LockGuardTheorem == Spec /\ []RestartFindsNoTask => []LockGuardsStart
  BY LockTheorem, LockInvSafe, PTL

\* Until then shutdown_all leaves nothing behind: when it returns, no task of the
\* process trades any more, so that the next process may start every bot anew.
THEOREM ShutdownTheorem == Spec /\ []RestartFindsNoTask => []ShutdownReachesAll
  BY LockTheorem, ShutdownInvSafe, PTL

(***************************************************************************)
(* Two ways to run the system in which no restart finds a live task.       *)
(***************************************************************************)
NoRestart ==
    /\ bootQueue = {}
    /\ bootPc \notin {"starting", "failed"}

\* Without automatic restarts there is none.
THEOREM NoRestartTheorem ==
  ASSUME ~AutoRestart
  PROVE  Spec => [](/\ OneTaskPerBot /\ LiveIsRegistered /\ LockGuardsStart
                     /\ ShutdownReachesAll)
<1>1. Init => NoRestart
  BY DEF Init, NoRestart
<1>2. TypeOK /\ BootIsStarting /\ NoRestart /\ [Next]_vars => NoRestart'
  <2> SUFFICES ASSUME BootIsStarting, NoRestart, [Next]_vars PROVE NoRestart'
    OBVIOUS
  <2> USE DEF NoRestart, bootVars
  <2>1. ASSUME NEW s \in Starters,
               \/ \E b \in Bots : s \in StartReqs /\ RequestStart(s, b)
               \/ EnterStart(s) \/ AcquireLock(s) \/ StartStep(s) \/ StartFails(s)
        PROVE  NoRestart'
    <3>1. startPc[Boot] = "idle"
      BY DEF BootIsStarting
    <3>2. s # Boot /\ UNCHANGED bootQueue
      BY <2>1, <3>1, BootStarter DEF RequestStart, EnterStart, AcquireLock, Woken, StartStep,
         LoadBot, CommitStarting, StoreRefs, StartFails
    <3>3. UNCHANGED bootPc
      BY <2>1, <3>2 DEF RequestStart, EnterStart, AcquireLock, InsideLock, Abandon, StartStep,
         LoadBot, CommitStarting, StoreRefs, StartFails
    <3> QED
      BY <3>2, <3>3
  <2>2. ASSUME NEW t \in Tasks, TaskStep(t) \/ TaskFault(t) PROVE NoRestart'
    BY <2>2 DEF TaskStep, TaskFault, MarkRunning, Connected, PollEnds, Wake,
       FreshBridge, RecordEnd, Cleanup, WarmupFails, BridgeRaises, PermanentError,
       WriteFails, TaskMoves
  <2>3. ASSUME NEW q \in Stoppers, (\E b \in Bots : RequestStop(q, b)) \/ StopStep(q)
        PROVE  NoRestart'
    BY <2>3 DEF RequestStop, StopStep, StopInDb, SignalStop, StopTimesOut, StopReturns,
       BillingCommits
  <2>4. CASE BootStep
    BY <2>4 DEF BootStep, BootSnapshot, BootNext, BootRetry, BootGivesUp
  <2>5. CASE ReconStep \/ ReconFails \/ \E b \in Bots : GraceExpires(b)
    BY <2>5 DEF ReconStep, ReconSnapshot, ReconReads, ReconCommits, ReconFails, GraceExpires
  <2>6. CASE BeginShutdown \/ ShutdownStep \/ ProcessRestarts
    BY <2>6 DEF BeginShutdown, ShutdownStep, ShutdownTask, ShutdownTimesOut,
       ShutdownProceeds, ShutdownEnds, ProcessRestarts
  <2>7. CASE UNCHANGED vars
    BY <2>7 DEF vars
  <2> QED
    BY <2>1, <2>2, <2>3, <2>4, <2>5, <2>6, <2>7, BootStarter DEF Next, Starters
<1>3. BootIsStarting /\ NoRestart => RestartFindsNoTask
  BY DEF BootIsStarting, NoRestart, RestartFindsNoTask
<1>4. QED
  BY <1>1, <1>2, <1>3, TypeTheorem, LockTheorem, LockInvSafe, ShutdownInvSafe, PTL DEF Spec

\* A restart has looked into _running_bots, and only a start makes a task: as long as
\* restart_crashed_bots tries a bot, the bot has none.
AloneInv ==
    /\ bootPc \in {"starting", "failed"} =>
          \A t \in Tasks : Live(t) => owner[t] # bootBot
    /\ startPc[Boot] # "idle" => startBot[Boot] = bootBot

LEMMA AloneStep ==
  ASSUME StartReqs = {}, TypeOK, BootIsStarting, LiveIsRegistered, AloneInv, [Next]_vars
  PROVE  AloneInv'
<1> USE BootStarter DEF AloneInv, dbVars, memVars, taskVars, startVars, stopVars,
        bootVars, reconVars, shutVars
<1>1. ASSUME UNCHANGED <<owner, bootPc, bootBot, startPc, startBot>>,
             \A t \in Tasks : Live(t)' => Live(t)
      PROVE  AloneInv'
  BY <1>1
<1>2. CASE EnterStart(Boot) \/ AcquireLock(Boot) \/ LoadBot(Boot) \/ CommitStarting(Boot)
             \/ StartFails(Boot)
  <2>1. bootPc = "starting" /\ startBot[Boot] = bootBot
    BY <1>2 DEF EnterStart, AcquireLock, Woken, LoadBot, CommitStarting, StartFails,
       BootIsStarting
  <2>2. UNCHANGED <<pc, owner, bootBot>>
    BY <1>2 DEF EnterStart, AcquireLock, LoadBot, CommitStarting, StartFails
  <2>3. startPc'[Boot] = "idle" \/ startBot' = startBot
    BY <1>2 DEF EnterStart, AcquireLock, InsideLock, LoadBot, CommitStarting, StartFails,
       Abandon, TypeOK, StartTypeOK
  <2>4. QED
    BY <2>1, <2>2, <2>3 DEF Live
<1>3. CASE StoreRefs(Boot)
  BY <1>3 DEF StoreRefs, TypeOK, StartTypeOK
<1>4. ASSUME NEW t \in Tasks, TaskStep(t) \/ TaskFault(t)
      PROVE  AloneInv'
  <2>1. CASE Cleanup(t)
    BY <2>1 DEF Cleanup, Live, TypeOK, TaskTypeOK
  <2>2. CASE ~Cleanup(t)
    <3>1. UNCHANGED <<owner, bootPc, bootBot, startPc, startBot>>
      BY <1>4, <2>2 DEF TaskStep, TaskFault, MarkRunning, Connected, PollEnds, Wake,
         FreshBridge, RecordEnd, WarmupFails, BridgeRaises, PermanentError, WriteFails,
         TaskMoves
    <3>2. Live(t) /\ \A u \in Tasks \ {t} : pc'[u] = pc[u]
      BY <1>4, <2>2 DEF TaskStep, TaskFault, MarkRunning, Connected, PollEnds, Wake,
         FreshBridge, RecordEnd, WarmupFails, BridgeRaises, PermanentError, WriteFails,
         TaskMoves, BridgeReturned, BackOff, Goto, Live, TypeOK, TaskTypeOK
    <3>3. QED
      BY <1>1, <3>1, <3>2 DEF Live
  <2>3. QED
    BY <2>1, <2>2
<1>5. ASSUME NEW q \in Stoppers, (\E b \in Bots : RequestStop(q, b)) \/ StopStep(q)
      PROVE  AloneInv'
  <2>1. UNCHANGED <<owner, bootPc, bootBot, startPc, startBot>>
    BY <1>5 DEF RequestStop, StopStep, StopInDb, SignalStop, StopTimesOut, StopReturns,
       BillingCommits
  <2>2. \A t \in Tasks : Live(t)' => Live(t)
    <3>1. CASE StopTimesOut(q)
      BY <3>1, CancelTaskType DEF StopTimesOut, Live, TypeOK
    <3>2. CASE ~StopTimesOut(q)
      BY <1>5, <3>2 DEF RequestStop, StopStep, StopInDb, SignalStop, StopReturns,
         BillingCommits, Live
    <3>3. QED
      BY <3>1, <3>2
  <2>3. QED
    BY <1>1, <2>1, <2>2
<1>6. CASE BootSnapshot \/ BootGivesUp
  BY <1>6 DEF BootSnapshot, BootGivesUp, BootIsStarting
<1>7. ASSUME NEW b \in Bots, BootNext(b)
      PROVE  AloneInv'
  <2>1. UNCHANGED <<pc, owner>>
    BY <1>7 DEF BootNext
  <2>2. CASE running[b] # None
    BY <1>7, <2>2 DEF BootNext
  <2>3. CASE running[b] = None
    <3>1. \A t \in Tasks : Live(t) => owner[t] # b
      BY <2>3 DEF LiveIsRegistered
    <3>2. bootBot' = b /\ startBot'[Boot] = b
      BY <1>7, <2>3 DEF BootNext, TypeOK, StartTypeOK
    <3>3. QED
      BY <2>1, <3>1, <3>2 DEF Live
  <2>4. QED
    BY <2>2, <2>3
<1>8. CASE BootRetry
  BY <1>8 DEF BootRetry, Live, TypeOK, StartTypeOK
<1>9. CASE ReconStep \/ ReconFails \/ (\E b \in Bots : GraceExpires(b)) \/ UNCHANGED vars
  <2>1. UNCHANGED <<pc, owner, bootPc, bootBot, startPc, startBot>>
    BY <1>9 DEF ReconStep, ReconSnapshot, ReconReads, ReconCommits, ReconFails,
       GraceExpires, vars
  <2>2. QED
    BY <1>1, <2>1 DEF Live
<1>10. CASE BeginShutdown \/ ProcessRestarts
  BY <1>10 DEF BeginShutdown, ProcessRestarts, TypeOK, StartTypeOK
<1>11. CASE ShutdownStep
  <2>1. UNCHANGED <<owner, bootPc, bootBot, startPc, startBot>>
    BY <1>11 DEF ShutdownStep, ShutdownTask, ShutdownTimesOut, ShutdownProceeds, ShutdownEnds
  <2>2. \A t \in Tasks : Live(t)' => Live(t)
    BY <1>11, CancelTaskType DEF ShutdownStep, ShutdownTask, ShutdownTimesOut,
       ShutdownProceeds, ShutdownEnds, Live, TypeOK
  <2>3. QED
    BY <1>1, <2>1, <2>2
<1>12. QED
  BY <1>2, <1>3, <1>4, <1>5, <1>6, <1>7, <1>8, <1>9, <1>10, <1>11
     DEF Next, Starters, StartStep, BootStep

\* With automatic restarts, if nobody else starts bots: each crash, shutdown and boot
\* leaves a bot with one task at most, however often a restart is tried again and
\* whatever else drops or cancels its task meanwhile.
THEOREM RecoveryTheorem ==
  ASSUME StartReqs = {}
  PROVE  Spec => [](/\ OneTaskPerBot /\ LiveIsRegistered /\ LockGuardsStart
                     /\ ShutdownReachesAll)
<1>1. Init => LockInv /\ ShutdownInv /\ AloneInv
  BY LockInit, BootStarter DEF Init, ShutdownInv, AloneInv
<1>2. BootIsStarting /\ AloneInv => RestartFindsNoTask
  BY DEF BootIsStarting, AloneInv, RestartFindsNoTask
<1>3. /\ TypeOK /\ BootIsStarting /\ LockInv /\ ShutdownInv /\ AloneInv
      /\ [Next]_vars
      => LockInv' /\ ShutdownInv' /\ AloneInv'
  <2> SUFFICES ASSUME TypeOK, BootIsStarting, LockInv, ShutdownInv, AloneInv, [Next]_vars
               PROVE  LockInv' /\ ShutdownInv' /\ AloneInv'
    OBVIOUS
  <2>1. LockInv' /\ ShutdownInv'
    BY <1>2, LockStep, ShutdownInvStep
  <2>2. AloneInv'
    BY AloneStep DEF LockInv
  <2>3. QED
    BY <2>1, <2>2
<1>4. QED
  BY <1>1, <1>3, TypeTheorem, LockInvSafe, ShutdownInvSafe, PTL DEF Spec

-----------------------------------------------------------------------------
\* The reconciler's stale copy is harmless: a start is recent when it registers
\* its task, and a bot registered after the copy is still recent.
GraceInv ==
    /\ \A s \in Starters : startPc[s] = "storing" => recent[startBot[s]]
    /\ \A b \in Bots :
          (reconPc = "snapped" /\ running[b] # None /\ b \notin reconIds) => recent[b]

LEMMA GraceStep ==
  ASSUME TypeOK, GraceInv, [Next]_vars
  PROVE  GraceInv'
<1> USE BootStarter DEF dbVars, memVars, taskVars, startVars, stopVars, bootVars,
        reconVars, shutVars, TypeOK, GraceInv
<1>1. ASSUME UNCHANGED <<recent, startPc, startBot, running, reconVars>>
      PROVE  GraceInv'
  BY <1>1
<1>2. ASSUME NEW s \in Starters, NEW b \in Bots, RequestStart(s, b)
      PROVE  GraceInv'
  BY <1>2 DEF RequestStart, StartTypeOK
<1>3. ASSUME NEW s \in Starters, EnterStart(s) \/ AcquireLock(s)
      PROVE  GraceInv'
  <2>1. /\ UNCHANGED <<recent, reconVars>>
        /\ \A r \in Starters \ {s} : startPc'[r] = startPc[r] /\ startBot'[r] = startBot[r]
        /\ startPc'[s] # "storing"
        /\ \A b \in Bots : running'[b] # None => running[b] # None
    BY <1>3 DEF EnterStart, AcquireLock, InsideLock, Abandon, StartTypeOK, MemTypeOK
  <2>2. QED
    BY <2>1
<1>4. ASSUME NEW s \in Starters, LoadBot(s) \/ StartFails(s)
      PROVE  GraceInv'
  BY <1>4 DEF LoadBot, StartFails, Abandon, StartTypeOK
<1>5. ASSUME NEW s \in Starters, CommitStarting(s)
      PROVE  GraceInv'
  BY <1>5 DEF CommitStarting, StartTypeOK, DbTypeOK
<1>6. ASSUME NEW s \in Starters, StoreRefs(s)
      PROVE  GraceInv'
  BY <1>6 DEF StoreRefs, StartTypeOK, MemTypeOK
<1>7. ASSUME NEW t \in Tasks, TaskStep(t) \/ TaskFault(t)
      PROVE  GraceInv'
  <2>1. /\ UNCHANGED <<recent, startPc, startBot, reconVars>>
        /\ \A b \in Bots : running'[b] # None => running[b] # None
    BY <1>7 DEF TaskStep, TaskFault, MarkRunning, Connected, PollEnds, Wake,
       FreshBridge, RecordEnd, Cleanup, WarmupFails, BridgeRaises, PermanentError,
       WriteFails, TaskMoves, MemTypeOK
  <2>2. QED
    BY <2>1
<1>8. ASSUME NEW q \in Stoppers, (\E b \in Bots : RequestStop(q, b)) \/ StopStep(q)
      PROVE  GraceInv'
  BY <1>1, <1>8 DEF RequestStop, StopStep, StopInDb, SignalStop, StopTimesOut,
     StopReturns, BillingCommits
<1>9. CASE BootStep
  <2>1. /\ UNCHANGED <<recent, running, reconVars>>
        /\ \A s \in Starters : startPc'[s] = "storing" =>
              startPc[s] = "storing" /\ startBot'[s] = startBot[s]
    BY <1>9 DEF BootStep, BootSnapshot, BootNext, BootRetry, BootGivesUp, StartTypeOK
  <2>2. QED
    BY <2>1
<1>10. CASE ReconSnapshot
  BY <1>10 DEF ReconSnapshot
<1>11. CASE ReconReads \/ ReconCommits \/ ReconFails
  <2>1. UNCHANGED <<recent, startPc, startBot>> /\ reconPc' # "snapped"
    BY <1>11 DEF ReconReads, ReconCommits, ReconFails
  <2>2. QED
    BY <2>1
<1>12. ASSUME NEW b \in Bots, GraceExpires(b)
      PROVE  GraceInv'
  <2>1. /\ UNCHANGED <<startPc, startBot, running, reconVars>>
        /\ reconPc # "snapped"
        /\ \A s \in Starters : startPc[s] = "storing" => startBot[s] # b
        /\ \A c \in Bots \ {b} : recent'[c] = recent[c]
    BY <1>12 DEF GraceExpires, DbTypeOK
  <2>2. QED
    BY <2>1 DEF StartTypeOK
<1>13. CASE BeginShutdown
  BY <1>13 DEF BeginShutdown, Starters, StartTypeOK
<1>14. CASE ShutdownStep
  <2>1. /\ UNCHANGED <<recent, startPc, startBot, reconVars>>
        /\ \A b \in Bots : running'[b] # None => running[b] # None
    BY <1>14 DEF ShutdownStep, ShutdownTask, ShutdownTimesOut, ShutdownProceeds,
       ShutdownEnds, NoEntry
  <2>2. QED
    BY <2>1
<1>15. CASE ProcessRestarts
  BY <1>15 DEF ProcessRestarts, NoEntry
<1>16. CASE UNCHANGED vars
  BY <1>1, <1>16 DEF vars
<1>17. QED
  BY <1>2, <1>3, <1>4, <1>5, <1>6, <1>7, <1>8, <1>9, <1>10, <1>11, <1>12, <1>13,
     <1>14, <1>15, <1>16 DEF Next, Starters, StartStep, ReconStep

LEMMA GraceReads ==
  ASSUME TypeOK, GraceInv, [Next]_vars, reconPc = "snapped", reconPc' = "read"
  PROVE  \A b \in reconOrphans' : running[b] = None
<1> USE DEF reconVars
<1>1. CASE ReconReads
  BY <1>1 DEF ReconReads, IsOrphan, GraceInv, TypeOK, DbTypeOK
<1>2. ASSUME NEW s \in Starters,
             \/ \E c \in Bots : RequestStart(s, c)
             \/ EnterStart(s) \/ AcquireLock(s) \/ StartStep(s) \/ StartFails(s)
      PROVE  FALSE
  BY <1>2 DEF RequestStart, EnterStart, AcquireLock, StartStep, LoadBot,
     CommitStarting, StoreRefs, StartFails
<1>3. ASSUME NEW t \in Tasks, TaskStep(t) \/ TaskFault(t)
      PROVE  FALSE
  BY <1>3 DEF TaskStep, TaskFault, MarkRunning, Connected, PollEnds, Wake,
     FreshBridge, RecordEnd, Cleanup, WarmupFails, BridgeRaises, PermanentError,
     WriteFails, TaskMoves
<1>4. ASSUME NEW q \in Stoppers, (\E c \in Bots : RequestStop(q, c)) \/ StopStep(q)
      PROVE  FALSE
  BY <1>4 DEF RequestStop, StopStep, StopInDb, SignalStop, StopTimesOut,
     StopReturns, BillingCommits
<1>5. CASE BootStep \/ (\E c \in Bots : GraceExpires(c)) \/ UNCHANGED vars
  BY <1>5 DEF BootStep, BootSnapshot, BootNext, BootRetry, BootGivesUp, GraceExpires, vars
<1>6. CASE ReconSnapshot \/ ReconCommits \/ ReconFails
  BY <1>6 DEF ReconSnapshot, ReconCommits, ReconFails
<1>7. CASE BeginShutdown \/ ShutdownStep \/ ProcessRestarts
  BY <1>7 DEF BeginShutdown, ShutdownStep, ShutdownTask, ShutdownTimesOut,
     ShutdownProceeds, ShutdownEnds, ProcessRestarts
<1>8. QED
  BY <1>1, <1>2, <1>3, <1>4, <1>5, <1>6, <1>7, BootStarter DEF Next, Starters, ReconStep

\* A pass of the reconciler never picks a bot that is registered when it reads
\* the rows.
THEOREM GraceTheorem == Spec => NoFalseOrphan
<1>1. Init => GraceInv
  BY DEF Init, GraceInv, NoEntry
<1>2. Spec => [](TypeOK /\ GraceInv)
  BY <1>1, GraceStep, TypeCorrect, PTL DEF Spec
<1>3. TypeOK /\ GraceInv /\ [Next]_vars =>
        [(reconPc = "snapped" /\ reconPc' = "read")
            => \A b \in reconOrphans' : running[b] = None]_vars
  BY GraceReads
<1>4. QED
  BY <1>2, <1>3, PTL DEF Spec, NoFalseOrphan

-----------------------------------------------------------------------------
\* A row that says running without a registered task, past its grace period.
Orphan(b) == status[b] = "running" /\ running[b] = None /\ ~recent[b]

\* Steps of the reconciler until it has written error for such a row: those of the pass
\* at hand, unless that one knows the bot as registered or has read the rows before, and
\* then of the next.
StepsLeft(b) ==
    CASE reconPc = "read"          -> IF b \in reconOrphans THEN 1 ELSE 4
      [] reconPc = "snapped"       -> IF b \in reconIds THEN 5 ELSE 2
      [] reconPc \in {"idle", "off"} -> 3

\* An orphan stays one until its row no longer says running or its bot is registered,
\* and no step but a failure, a shutdown or a restart takes it further from that.
OrphanPasses ==
    [][\A b \in Bots : Orphan(b) =>
          /\ Orphan(b)' \/ status'[b] # "running" \/ running'[b] # None
          /\ Orphan(b)' /\ ReconStep => StepsLeft(b)' < StepsLeft(b)
          /\ Orphan(b)' /\ ~(ReconFails \/ BeginShutdown \/ ProcessRestarts)
                => StepsLeft(b)' <= StepsLeft(b)]_vars

Resolved(b) == status[b] # "running" \/ running[b] # None

LEMMA OrphanStays ==
  ASSUME TypeOK, [Next]_vars, NEW b \in Bots, Orphan(b)
  PROVE  /\ Orphan(b)' \/ Resolved(b)'
         /\ UNCHANGED reconVars \/ ReconStep \/ ReconFails \/ BeginShutdown \/ ProcessRestarts
<1> USE BootStarter DEF dbVars, memVars, taskVars, startVars, stopVars, bootVars,
        reconVars, shutVars, Orphan, Resolved
<1>1. ASSUME UNCHANGED recent PROVE Orphan(b)' \/ Resolved(b)'
  BY <1>1
<1>2. ASSUME NEW s \in Starters,
             \/ \E c \in Bots : RequestStart(s, c)
             \/ EnterStart(s) \/ AcquireLock(s) \/ LoadBot(s) \/ StoreRefs(s) \/ StartFails(s)
      PROVE  UNCHANGED recent /\ UNCHANGED reconVars
  BY <1>2 DEF RequestStart, EnterStart, AcquireLock, LoadBot, StoreRefs, StartFails
<1>3. ASSUME NEW s \in Starters, CommitStarting(s)
      PROVE  (Orphan(b)' \/ Resolved(b)') /\ UNCHANGED reconVars
  BY <1>3 DEF CommitStarting, TypeOK, DbTypeOK
<1>4. ASSUME NEW t \in Tasks, TaskStep(t) \/ TaskFault(t)
      PROVE  UNCHANGED recent /\ UNCHANGED reconVars
  BY <1>4 DEF TaskStep, TaskFault, MarkRunning, Connected, PollEnds, Wake,
     FreshBridge, RecordEnd, Cleanup, WarmupFails, BridgeRaises, PermanentError,
     WriteFails, TaskMoves
<1>5. ASSUME NEW q \in Stoppers, (\E c \in Bots : RequestStop(q, c)) \/ StopStep(q)
      PROVE  UNCHANGED recent /\ UNCHANGED reconVars
  BY <1>5 DEF RequestStop, StopStep, StopInDb, SignalStop, StopTimesOut,
     StopReturns, BillingCommits
<1>6. ASSUME BootStep \/ ShutdownStep \/ UNCHANGED vars
      PROVE  UNCHANGED recent /\ UNCHANGED reconVars
  BY <1>6 DEF BootStep, BootSnapshot, BootNext, BootRetry, BootGivesUp, ShutdownStep,
     ShutdownTask, ShutdownTimesOut, ShutdownProceeds, ShutdownEnds, vars
<1>7. ASSUME NEW c \in Bots, GraceExpires(c)
      PROVE  (Orphan(b)' \/ Resolved(b)') /\ UNCHANGED reconVars
  BY <1>7 DEF GraceExpires, TypeOK, DbTypeOK
<1>8. ASSUME ReconStep \/ ReconFails \/ BeginShutdown \/ ProcessRestarts
      PROVE  UNCHANGED recent
  BY <1>8 DEF ReconStep, ReconSnapshot, ReconReads, ReconCommits, ReconFails, BeginShutdown,
     ProcessRestarts
<1>9. QED
  BY <1>1, <1>2, <1>3, <1>4, <1>5, <1>6, <1>7, <1>8 DEF Next, Starters, StartStep

LEMMA OrphanSettles ==
  ASSUME TypeOK, NEW b \in Bots, Orphan(b), ReconStep
  PROVE  StepsLeft(b)' < StepsLeft(b) \/ status'[b] # "running"
<1> USE DEF StepsLeft, Orphan
<1>1. CASE ReconSnapshot
  BY <1>1 DEF ReconSnapshot
<1>2. CASE ReconReads
  BY <1>2 DEF ReconReads, IsOrphan
<1>3. CASE ReconCommits
  BY <1>3 DEF ReconCommits, TypeOK, DbTypeOK
<1>4. QED
  BY <1>1, <1>2, <1>3 DEF ReconStep

\* A bot that its row calls running and nobody has registered is written off, or
\* registered, within five steps of the reconciler, that is two passes, whatever else goes
\* on, unless one of them fails or the process ends (reconcile_bot_status_once; the
\* bounded half of OrphanIsResolved).
THEOREM OrphanTheorem == Spec => OrphanPasses
<1>1. ASSUME TypeOK, TypeOK', [Next]_vars, NEW b \in Bots, Orphan(b)
      PROVE  /\ Orphan(b)' \/ status'[b] # "running" \/ running'[b] # None
             /\ Orphan(b)' /\ ReconStep => StepsLeft(b)' < StepsLeft(b)
             /\ Orphan(b)' /\ ~(ReconFails \/ BeginShutdown \/ ProcessRestarts)
                   => StepsLeft(b)' <= StepsLeft(b)
  <2>1. StepsLeft(b) \in 1..5 /\ StepsLeft(b)' \in 1..5
    BY <1>1 DEF StepsLeft, TypeOK, ProcessTypeOK, ReconPcs
  <2>2. Orphan(b)' \/ status'[b] # "running" \/ running'[b] # None
    BY <1>1, OrphanStays DEF Resolved
  <2>3. CASE ReconStep
    BY <1>1, <2>1, <2>2, <2>3, OrphanSettles DEF Orphan
  <2>4. CASE UNCHANGED reconVars /\ ~ReconStep
    <3>1. StepsLeft(b)' = StepsLeft(b)
      BY <2>4 DEF reconVars, StepsLeft
    <3>2. QED
      BY <2>1, <2>2, <2>4, <3>1
  <2>5. CASE ~ReconStep /\ (ReconFails \/ BeginShutdown \/ ProcessRestarts)
    BY <2>2, <2>5
  <2>6. QED
    BY <1>1, <2>3, <2>4, <2>5, OrphanStays
<1>2. TypeOK /\ TypeOK' /\ [Next]_vars =>
        [\A b \in Bots : Orphan(b) =>
            /\ Orphan(b)' \/ status'[b] # "running" \/ running'[b] # None
            /\ Orphan(b)' /\ ReconStep => StepsLeft(b)' < StepsLeft(b)
            /\ Orphan(b)' /\ ~(ReconFails \/ BeginShutdown \/ ProcessRestarts)
                  => StepsLeft(b)' <= StepsLeft(b)]_vars
  BY <1>1
<1>3. QED
  BY <1>2, TypeCorrect, PTL DEF Spec, OrphanPasses

-----------------------------------------------------------------------------
\* A task on its way out: its bridge is told to stop, or it is past the retry loop.
Ending(t) ==
    /\ Live(t)
    /\ flag[t] \/ pc[t] \in {"stopping", "failing", "cancelled", "cleanup"}

\* The steps such a task has left at most, if it keeps its bridge.
EndsIn(t) ==
    CASE pc[t] = "init"                                   -> 7
      [] pc[t] = "connect"                                -> 6
      [] pc[t] = "poll"                                   -> 5
      [] pc[t] \in {"sleep", "backoffTry", "backoffExc"}  -> 4
      [] pc[t] \in {"stopping", "failing"}                -> 3
      [] pc[t] = "cancelled"                              -> 2
      [] pc[t] = "cleanup"                                -> 1
      [] OTHER                                            -> 0

\* It stays on its way out until it is done, no step of anybody takes it back,
\* and each of its own, failed writes included, takes it further; all but the
\* one that replaces its bridge, which is outside of the main loop.
SignalledEnds ==
    [][\A t \in Tasks : Ending(t) /\ ~FreshBridge(t) =>
          /\ Ending(t)' \/ pc'[t] = "done"
          /\ EndsIn(t)' <= EndsIn(t)
          /\ TaskStep(t) \/ TaskFault(t) => EndsIn(t)' < EndsIn(t)]_vars

GoesOut(t) == (Ending(t)' \/ pc'[t] = "done") /\ EndsIn(t)' <= EndsIn(t)

\* A task that is left where it is, with its signal, is still on its way out.
LEMMA EndingKept ==
  ASSUME NEW t \in Tasks, Ending(t), pc'[t] = pc[t], flag[t] => flag'[t]
  PROVE  GoesOut(t)
<1>1. Ending(t)' /\ EndsIn(t)' = EndsIn(t)
  BY DEF Ending, EndsIn, Live
<1>2. EndsIn(t) \in 0..7
  BY DEF EndsIn
<1>3. QED
  BY <1>1, <1>2 DEF GoesOut

\* A cancellation, of this task or another, takes none back: the one that the
\* main loop swallows is answered by the signal.
LEMMA EndingCancelled ==
  ASSUME TaskTypeOK, NEW t \in Tasks, NEW u, NEW f, NEW down,
         Ending(t), CancelTask(u, f, down), flag[t] => flag'[t],
         u = t => (flag[t] => f)
  PROVE  GoesOut(t)
<1>1. CASE u # t
  BY <1>1, EndingKept DEF CancelTask, Goto, BackOff, TaskTypeOK
<1>2. CASE u = t
  BY <1>2 DEF CancelTask, Goto, BackOff, TaskTypeOK, TaskPcs, Live, Ending, EndsIn, GoesOut
<1>3. QED
  BY <1>1, <1>2

\* The steps of the task itself.
LEMMA EndingMoves ==
  ASSUME TaskTypeOK, NEW t \in Tasks, Ending(t), TaskStep(t) \/ TaskFault(t), ~FreshBridge(t)
  PROVE  GoesOut(t) /\ EndsIn(t)' < EndsIn(t)
<1> USE DEF Live, Ending, EndsIn, GoesOut, TaskTypeOK, Goto, TaskMoves
<1>1. CASE MarkRunning(t) \/ Connected(t)
  BY <1>1 DEF MarkRunning, Connected, BridgeReturned, BackOff
<1>2. CASE PollEnds(t) \/ Wake(t)
  BY <1>2 DEF PollEnds, Wake, BridgeReturned, BackOff
<1>3. CASE RecordEnd(t) \/ Cleanup(t) \/ WriteFails(t)
  BY <1>3 DEF RecordEnd, Cleanup, WriteFails
<1>4. CASE WarmupFails(t) \/ BridgeRaises(t) \/ PermanentError(t)
  BY <1>4 DEF WarmupFails, BridgeRaises, PermanentError, BridgeReturned, BackOff
<1>5. QED
  BY <1>1, <1>2, <1>3, <1>4 DEF TaskStep, TaskFault

\* The steps of the other tasks.
LEMMA EndingAside ==
  ASSUME TaskTypeOK, NEW t \in Tasks, NEW u \in Tasks, u # t, Ending(t),
         TaskStep(u) \/ TaskFault(u)
  PROVE  GoesOut(t)
<1> USE DEF TaskTypeOK, Goto, BackOff, BridgeReturned, TaskMoves
<1>1. CASE MarkRunning(u) \/ Connected(u) \/ PollEnds(u) \/ Wake(u)
  BY <1>1, EndingKept DEF MarkRunning, Connected, PollEnds, Wake
<1>2. CASE FreshBridge(u) \/ RecordEnd(u) \/ Cleanup(u)
  BY <1>2, EndingKept DEF FreshBridge, RecordEnd, Cleanup
<1>3. CASE WarmupFails(u) \/ BridgeRaises(u) \/ PermanentError(u) \/ WriteFails(u)
  BY <1>3, EndingKept DEF WarmupFails, BridgeRaises, PermanentError, WriteFails
<1>4. QED
  BY <1>1, <1>2, <1>3 DEF TaskStep, TaskFault

\* Everything else: a start takes a finished task, a stop signals or cancels.
LEMMA EndingOutside ==
  ASSUME TypeOK, [Next]_vars, NEW t \in Tasks, Ending(t)
  PROVE  GoesOut(t) \/ \E u \in Tasks : TaskStep(u) \/ TaskFault(u)
<1> USE BootStarter DEF TypeOK, TaskTypeOK, dbVars, memVars, taskVars, startVars, stopVars,
        bootVars, reconVars, shutVars
<1>1. ASSUME NEW s \in Starters,
             \/ \E c \in Bots : RequestStart(s, c)
             \/ EnterStart(s) \/ AcquireLock(s) \/ LoadBot(s) \/ CommitStarting(s) \/ StartFails(s)
      PROVE  GoesOut(t)
  BY <1>1, EndingKept DEF RequestStart, EnterStart, AcquireLock, LoadBot, CommitStarting,
     StartFails
<1>2. ASSUME NEW s \in Starters, StoreRefs(s)
      PROVE  GoesOut(t)
  BY <1>2, EndingKept DEF StoreRefs, FreeTask, Live, Ending
<1>3. ASSUME NEW q \in Stoppers, (\E c \in Bots : RequestStop(q, c)) \/ SignalStop(q)
      PROVE  GoesOut(t)
  BY <1>3, EndingKept DEF RequestStop, SignalStop, Signal
<1>4. ASSUME NEW q \in Stoppers, StopTimesOut(q)
      PROVE  GoesOut(t)
  <2>1. CancelTask(stopTask[q], flag[stopTask[q]], shuttingDown) /\ flag' = flag
    BY <1>4 DEF StopTimesOut
  <2>2. QED
    BY <2>1, EndingCancelled
<1>5. ASSUME NEW q \in Stoppers, StopInDb(q) \/ StopReturns(q) \/ BillingCommits(q)
      PROVE  GoesOut(t)
  BY <1>5, EndingKept DEF StopInDb, StopReturns, BillingCommits
<1>6. ASSUME NEW c \in Bots, NEW u \in Tasks, ShutdownTask(c, u)
      PROVE  GoesOut(t)
  <2>1. CancelTask(u, flag'[u], TRUE) /\ (flag[t] => flag'[t])
    BY <1>6 DEF ShutdownTask
  <2>2. QED
    BY <2>1, EndingCancelled
<1>7. ASSUME ShutdownTimesOut
      PROVE  GoesOut(t)
  <2>1. CancelTask(shutTask, flag[shutTask], TRUE) /\ flag' = flag
    BY <1>7 DEF ShutdownTimesOut
  <2>2. QED
    BY <2>1, EndingCancelled
<1>8. CASE BootStep \/ ReconStep \/ ReconFails \/ BeginShutdown \/ ShutdownProceeds
           \/ ShutdownEnds \/ UNCHANGED vars
  BY <1>8, EndingKept DEF BootStep, BootSnapshot, BootNext, BootRetry, BootGivesUp, ReconStep,
     ReconSnapshot, ReconReads, ReconCommits, ReconFails, BeginShutdown, ShutdownProceeds,
     ShutdownEnds, vars
<1>9. CASE ProcessRestarts
  BY <1>9 DEF ProcessRestarts, Ending, EndsIn, GoesOut, TaskPcs
<1>10. CASE \E c \in Bots : GraceExpires(c)
  BY <1>10, EndingKept DEF GraceExpires
<1>11. QED
  BY <1>1, <1>2, <1>3, <1>4, <1>5, <1>6, <1>7, <1>8, <1>9, <1>10
     DEF Next, Starters, StartStep, StopStep, ShutdownStep

\* A task whose bridge is told to stop ends within seven steps of its own, and so
\* does one that fails for good or is cancelled out of the retry loop, unless the
\* bridge is replaced, which does not happen to one in its main loop: nothing else, a
\* failed write, a second stop, a shutdown or a restart of the process, takes it back
\* (LiveBridge.run, _run_bridge_wrapper; the bounded half of SignalledPollingEnds).
THEOREM SignalledTheorem == Spec => SignalledEnds
<1>1. ASSUME TypeOK, [Next]_vars, NEW t \in Tasks, Ending(t), ~FreshBridge(t)
      PROVE  /\ Ending(t)' \/ pc'[t] = "done"
             /\ EndsIn(t)' <= EndsIn(t)
             /\ TaskStep(t) \/ TaskFault(t) => EndsIn(t)' < EndsIn(t)
  BY <1>1, EndingOutside, EndingAside, EndingMoves DEF GoesOut, TypeOK
<1>2. TypeOK /\ [Next]_vars =>
        [\A t \in Tasks : Ending(t) /\ ~FreshBridge(t) =>
            /\ Ending(t)' \/ pc'[t] = "done"
            /\ EndsIn(t)' <= EndsIn(t)
            /\ TaskStep(t) \/ TaskFault(t) => EndsIn(t)' < EndsIn(t)]_vars
  BY <1>1
<1>3. QED
  BY <1>2, TypeCorrect, PTL DEF Spec, SignalledEnds

-----------------------------------------------------------------------------
\* A registered bot has the bridge of its task.
PairKept == \A b \in Bots : running[b] # None => bridges[b] = running[b]

\* A stop has picked up a task with its bridge, which may be gone by now.
StopKnows ==
    \A q \in Stoppers : stopPc[q] \in {"closing", "waiting", "timedout"} =>
        stopTask[q] \in Tasks /\ stopBridge[q] \in {None, stopTask[q]}

\* A stop that waits for a live task has signalled it, unless the bridge that it
\* picked up has been replaced.
SignalHeld ==
    \A q \in Stoppers : stopPc[q] \in {"waiting", "timedout"} /\ Live(stopTask[q]) =>
        stopBridge[q] = None \/ flag[stopTask[q]]

StopInv == PairKept /\ StopKnows /\ SignalHeld

\* A step that registers nobody, makes no task and takes no signal.
LEMMA StopFrame ==
  ASSUME StopInv, UNCHANGED <<running, bridges, stopPc, stopTask, stopBridge>>,
         \A t \in Tasks : /\ flag[t] => flag'[t]
                          /\ pc'[t] # "done" => pc[t] # "done"
  PROVE  StopInv'
BY DEF StopInv, PairKept, StopKnows, SignalHeld, Live

LEMMA StopStarts ==
  ASSUME TypeOK, StopInv, NEW s \in Starters,
         \/ \E b \in Bots : RequestStart(s, b)
         \/ EnterStart(s) \/ AcquireLock(s) \/ StartStep(s) \/ StartFails(s)
  PROVE  StopInv'
<1> USE DEF dbVars, memVars, taskVars, startVars, stopVars
<1>1. CASE \/ \E b \in Bots : RequestStart(s, b)
           \/ LoadBot(s) \/ CommitStarting(s) \/ StartFails(s)
  BY <1>1, StopFrame DEF RequestStart, LoadBot, CommitStarting, StartFails
<1>2. CASE EnterStart(s) \/ AcquireLock(s)
  <2>1. UNCHANGED <<taskVars, stopVars>>
    BY <1>2 DEF EnterStart, AcquireLock
  <2>2. PairKept'
    BY <1>2 DEF StopInv, PairKept, EnterStart, AcquireLock, InsideLock, TypeOK, MemTypeOK
  <2>3. QED
    BY <2>1, <2>2 DEF StopInv, StopKnows, SignalHeld, Live
<1>3. CASE StoreRefs(s)
  <2>1. PICK t \in Tasks : /\ FreeTask(t)
                           /\ running' = [running EXCEPT ![startBot[s]] = t]
                           /\ bridges' = [bridges EXCEPT ![startBot[s]] = t]
                           /\ pc' = [pc EXCEPT ![t] = "init"]
                           /\ flag' = [flag EXCEPT ![t] = FALSE]
                           /\ UNCHANGED stopVars
    BY <1>3 DEF StoreRefs
  <2>2. PairKept'
    BY <2>1 DEF StopInv, PairKept, TypeOK, MemTypeOK
  <2>3. \A q \in Stoppers : stopTask[q] # t
    BY <2>1 DEF FreeTask
  <2>4. QED
    BY <2>1, <2>2, <2>3 DEF StopInv, StopKnows, SignalHeld, Live, TypeOK, TaskTypeOK
<1>4. QED
  BY <1>1, <1>2, <1>3 DEF StartStep

LEMMA StopTasks ==
  ASSUME TypeOK, LiveIsRegistered, StopInv, NEW t \in Tasks, TaskStep(t) \/ TaskFault(t)
  PROVE  StopInv'
<1> USE DEF dbVars, memVars, taskVars, startVars, stopVars, TypeOK, TaskTypeOK
<1>1. CASE MarkRunning(t) \/ Connected(t) \/ PollEnds(t) \/ Wake(t) \/ RecordEnd(t) \/ TaskFault(t)
  <2>1. /\ UNCHANGED <<memVars, flag, stopVars>> /\ pc[t] # "done"
        /\ \A u \in Tasks \ {t} : pc'[u] = pc[u]
    BY <1>1 DEF MarkRunning, Connected, PollEnds, Wake, RecordEnd, TaskFault, WarmupFails,
       BridgeRaises, PermanentError, WriteFails, TaskMoves, BridgeReturned, BackOff, Goto
  <2>2. QED
    BY <2>1, StopFrame
<1>2. CASE FreshBridge(t)
  <2>1. running[owner[t]] = t /\ owner[t] \in Bots /\ pc[t] # "done"
    BY <1>2 DEF FreshBridge, Live, LiveIsRegistered
  <2>2. PairKept'
    BY <1>2, <2>1 DEF FreshBridge, StopInv, PairKept, MemTypeOK
  <2>3. /\ UNCHANGED <<stopPc, stopTask>> /\ flag' = [flag EXCEPT ![t] = FALSE]
        /\ \A q \in Stoppers : stopBridge'[q] = IF stopBridge[q] = t THEN None ELSE stopBridge[q]
        /\ \A u \in Tasks \ {t} : pc'[u] = pc[u]
    BY <1>2 DEF FreshBridge, Goto
  <2>4. StopKnows'
    BY <2>3 DEF StopInv, StopKnows
  <2>5. SignalHeld'
    BY <2>1, <2>3 DEF StopInv, StopKnows, SignalHeld, Live
  <2>6. QED
    BY <2>2, <2>4, <2>5 DEF StopInv
<1>3. CASE Cleanup(t)
  <2>1. /\ UNCHANGED stopVars
        /\ pc' = [pc EXCEPT ![t] = "done"] /\ flag' = [flag EXCEPT ![t] = FALSE]
        /\ running' = [running EXCEPT ![owner[t]] = None]
        /\ bridges' = [bridges EXCEPT ![owner[t]] = None]
    BY <1>3 DEF Cleanup
  <2>2. PairKept'
    BY <2>1 DEF StopInv, PairKept, MemTypeOK
  <2>3. QED
    BY <2>1, <2>2 DEF StopInv, StopKnows, SignalHeld, Live
<1>4. QED
  BY <1>1, <1>2, <1>3 DEF TaskStep

LEMMA StopStops ==
  ASSUME TypeOK, StopInv, NEW q \in Stoppers, (\E b \in Bots : RequestStop(q, b)) \/ StopStep(q)
  PROVE  StopInv'
<1> USE DEF dbVars, memVars, taskVars, startVars, stopVars, TypeOK, MemTypeOK, TaskTypeOK, StopTypeOK
<1>1. ASSUME NEW b \in Bots, RequestStop(q, b)
      PROVE  StopInv'
  <2>1. /\ UNCHANGED <<running, bridges, pc>>
        /\ \A u \in Tasks : flag[u] => flag'[u]
        /\ \A r \in Stoppers \ {q} : /\ stopPc'[r] = stopPc[r] /\ stopTask'[r] = stopTask[r]
                                     /\ stopBridge'[r] = stopBridge[r]
    BY <1>1 DEF RequestStop, Signal
  <2>2. CASE stopPc'[q] = "dbonly"
    BY <2>1, <2>2 DEF StopInv, PairKept, StopKnows, SignalHeld, Live
  <2>3. CASE stopPc'[q] # "dbonly"
    <3>1. /\ running[b] \in Tasks /\ stopTask'[q] = running[b] /\ stopBridge'[q] = running[b]
          /\ stopPc'[q] \in {"closing", "waiting"}
          /\ stopPc'[q] = "waiting" => Signal(running[b])
      BY <1>1, <2>3 DEF RequestStop, StopInv, PairKept
    <3>2. stopPc'[q] = "waiting" /\ Live(running[b]) => flag'[running[b]]
      BY <3>1 DEF Signal
    <3>3. QED
      BY <2>1, <3>1, <3>2 DEF StopInv, PairKept, StopKnows, SignalHeld, Live
  <2>4. QED
    BY <2>2, <2>3
<1>2. CASE StopInDb(q) \/ StopReturns(q) \/ BillingCommits(q)
  <2>1. /\ UNCHANGED <<running, bridges, pc, flag>> /\ stopPc'[q] \in {"idle", "commit"}
        /\ \A r \in Stoppers \ {q} : /\ stopPc'[r] = stopPc[r] /\ stopTask'[r] = stopTask[r]
                                     /\ stopBridge'[r] = stopBridge[r]
    BY <1>2 DEF StopInDb, StopReturns, BillingCommits, StopBotDone
  <2>2. QED
    BY <2>1 DEF StopInv, PairKept, StopKnows, SignalHeld, Live
<1>3. CASE SignalStop(q)
  <2>1. /\ UNCHANGED <<running, bridges, pc, stopTask, stopBridge>> /\ stopPc[q] = "closing"
        /\ \A u \in Tasks : flag[u] => flag'[u]
        /\ \A r \in Stoppers \ {q} : stopPc'[r] = stopPc[r]
        /\ stopBridge[q] \in Tasks /\ Live(stopBridge[q]) => flag'[stopBridge[q]]
    BY <1>3 DEF SignalStop, Signal
  <2>2. QED
    BY <2>1 DEF StopInv, PairKept, StopKnows, SignalHeld, Live
<1>4. CASE StopTimesOut(q)
  <2>1. /\ UNCHANGED <<running, bridges, flag, stopTask, stopBridge>> /\ stopPc[q] = "waiting"
        /\ \A r \in Stoppers \ {q} : stopPc'[r] = stopPc[r]
    BY <1>4 DEF StopTimesOut
  <2>2. \A u \in Tasks : pc'[u] # "done" => pc[u] # "done"
    BY <1>4, CancelTaskType DEF StopTimesOut
  <2>3. QED
    BY <2>1, <2>2 DEF StopInv, PairKept, StopKnows, SignalHeld, Live
<1>5. QED
  BY <1>1, <1>2, <1>3, <1>4 DEF StopStep

LEMMA StopProcess ==
  ASSUME TypeOK, StopInv,
         \/ BootStep \/ ReconStep \/ ReconFails \/ (\E b \in Bots : GraceExpires(b))
         \/ BeginShutdown \/ ShutdownStep \/ ProcessRestarts \/ UNCHANGED vars
  PROVE  StopInv'
<1> USE DEF dbVars, memVars, taskVars, startVars, stopVars, bootVars, reconVars, shutVars
<1>1. CASE BootStep \/ ReconStep \/ ReconFails
  BY <1>1, StopFrame DEF BootStep, BootSnapshot, BootNext, BootRetry, BootGivesUp, ReconStep,
     ReconSnapshot, ReconReads, ReconCommits, ReconFails
<1>2. CASE (\E b \in Bots : GraceExpires(b)) \/ BeginShutdown \/ UNCHANGED vars
  BY <1>2, StopFrame DEF GraceExpires, BeginShutdown, vars
<1>3. ASSUME NEW b \in Bots, NEW t \in Tasks, ShutdownTask(b, t)
      PROVE  StopInv'
  <2>1. \A u \in Tasks : pc'[u] # "done" => pc[u] # "done"
    BY <1>3, CancelTaskType DEF ShutdownTask, TypeOK
  <2>2. UNCHANGED <<memVars, stopVars>> /\ \A u \in Tasks : flag[u] => flag'[u]
    BY <1>3 DEF ShutdownTask
  <2>3. QED
    BY <2>1, <2>2, StopFrame
<1>4. CASE ShutdownTimesOut
  <2>1. \A u \in Tasks : pc'[u] # "done" => pc[u] # "done"
    BY <1>4, CancelTaskType DEF ShutdownTimesOut, TypeOK
  <2>2. UNCHANGED <<memVars, stopVars, flag>>
    BY <1>4 DEF ShutdownTimesOut
  <2>3. QED
    BY <2>1, <2>2, StopFrame
<1>5. CASE ShutdownProceeds
  BY <1>5, StopFrame DEF ShutdownProceeds
<1>6. CASE ShutdownEnds
  BY <1>6 DEF ShutdownEnds, NoEntry, StopInv, PairKept, StopKnows, SignalHeld, Live
<1>7. CASE ProcessRestarts
  BY <1>7 DEF ProcessRestarts, NoEntry, StopInv, PairKept, StopKnows, SignalHeld
<1>8. QED
  BY <1>1, <1>2, <1>3, <1>4, <1>5, <1>6, <1>7 DEF ShutdownStep

\* A stop that waits for a task has its signal in force as long as the task lives,
\* unless the wrapper has replaced the bridge since stop_bot picked it up: by
\* SignalledTheorem the task then ends, so that this replacement is the one way in which a
\* stop can wait for ever (stop_bot, _run_bridge_wrapper).
THEOREM StopSignalTheorem == Spec /\ []RestartFindsNoTask => []SignalHeld
<1>1. Init => StopInv
  BY DEF Init, NoEntry, StopInv, PairKept, StopKnows, SignalHeld
<1>2. TypeOK /\ LockInv /\ StopInv /\ [Next]_vars => StopInv'
  BY StopStarts, StopTasks, StopStops, StopProcess, BootStarter, LockInvSafe DEF Next, Starters
<1>3. StopInv => SignalHeld
  BY DEF StopInv
<1>4. QED
  BY <1>1, <1>2, <1>3, TypeCorrect, LockTheorem, PTL DEF Spec
=============================================================================
