---------------------------- MODULE BotLifecycle ----------------------------
(***************************************************************************)
(* The life of a bot in the API process: api/services/bot_manager.py with  *)
(* the start and stop routes (api/routers/bots.py), the low-balance stop   *)
(* of usage billing, the status reconciler, and the process itself, which  *)
(* is shut down, killed and booted again.                                  *)
(*                                                                         *)
(* Everything runs on one asyncio loop, so an action is what runs between  *)
(* two awaits.  A bot owns a database row (status, started_at), which      *)
(* survives the process, and entries in the manager's dictionaries, which  *)
(* do not.  A wrapper task drives a sequence of LiveBridge objects; a task *)
(* has one current bridge, so that a bridge is named by its task, and the  *)
(* bridges it has thrown away are None to whoever still holds them.        *)
(***************************************************************************)
EXTENDS Naturals, FiniteSets

CONSTANTS
    Bots,        \* bot ids
    Tasks,       \* identities of wrapper tasks, reused when unreferenced
    Locks,       \* identities of the asyncio.Lock objects of _start_locks
    StartReqs,   \* handlers of POST /bots/{id}/start in flight
    Stoppers,    \* callers of stop_bot in flight: stop routes, billing
    Billing,     \* the billing tick, which stops bots at a low balance
    Boot,        \* the restart_crashed_bots task of this process
    None,        \* a missing dictionary entry
    MaxRetries,  \* max_retries of the wrapper (50 in the code)
    MaxAttempts, \* attempts of restart_crashed_bots on one bot (3 in the code)
    MaxCrashes,  \* bound: how often the process is killed or shut down
    AutoRestart  \* FALSE: no boot ever finds a bot to restart

ASSUME ConstantsAssumption ==
    /\ Boot \notin StartReqs
    /\ None \notin Tasks \cup Locks \cup Bots
    /\ MaxRetries \in Nat
    /\ MaxAttempts \in Nat \ {0}
    /\ MaxCrashes \in Nat
    /\ AutoRestart \in BOOLEAN

Starters == StartReqs \cup {Boot}

VARIABLES
    status,       \* bots.status in the database
    recent,       \* bots.started_at lies within the reconciler's grace period
    running,      \* _running_bots
    bridges,      \* _bot_bridges: the task whose current bridge is stored
    locks,        \* _start_locks
    shuttingDown, \* _shutting_down
    pc,           \* where each wrapper task is
    owner,        \* the bot it runs
    flag,         \* _shutdown of its current bridge
    retry,        \* its retry_count
    startPc, startBot, startLock,            \* the callers of start_bot
    stopPc, stopBot, stopTask, stopBridge,   \* the callers of stop_bot
    bootPc, bootQueue, bootBot, bootAttempt, \* restart_crashed_bots
    reconPc, reconIds, reconOrphans,         \* reconcile_bot_status_once
    shutPc, shutTodo, shutTask,              \* shutdown_all
    crashes

dbVars    == <<status, recent>>
memVars   == <<running, bridges, locks>>
taskVars  == <<pc, owner, flag, retry>>
startVars == <<startPc, startBot, startLock>>
stopVars  == <<stopPc, stopBot, stopTask, stopBridge>>
bootVars  == <<bootPc, bootQueue, bootBot, bootAttempt>>
reconVars == <<reconPc, reconIds, reconOrphans>>
shutVars  == <<shuttingDown, shutPc, shutTodo, shutTask>>
vars == <<dbVars, memVars, taskVars, startVars, stopVars, bootVars, reconVars,
          shutVars, crashes>>

Statuses == {"stopped", "starting", "running", "error"}

\* bridge.run() is "connect" up to the main loop, then "poll" and "sleep"; the
\* wrapper sleeps inside its try ("backoffTry") or inside an except clause
\* ("backoffExc"); the rest are its database writes and the finally block.
TaskPcs == {"init", "connect", "poll", "sleep", "backoffTry", "backoffExc",
            "stopping", "failing", "cancelled", "cleanup", "done"}
StartPcs == {"idle", "charged", "waiting", "loading", "committing", "storing"}
StopPcs  == {"idle", "dbonly", "closing", "waiting", "timedout", "commit"}
BootPcs  == {"sleep", "next", "starting", "failed", "off"}
ReconPcs == {"idle", "snapped", "read", "off"}
ShutPcs  == {"idle", "next", "waiting", "timedout", "over"}

Live(t) == pc[t] # "done"

DbTypeOK ==
    /\ status \in [Bots -> Statuses]
    /\ recent \in [Bots -> BOOLEAN]
MemTypeOK ==
    /\ running \in [Bots -> Tasks \cup {None}]
    /\ bridges \in [Bots -> Tasks \cup {None}]
    /\ locks \in [Bots -> Locks \cup {None}]
TaskTypeOK ==
    /\ pc \in [Tasks -> TaskPcs]
    /\ owner \in [Tasks -> Bots \cup {None}]
    /\ \A t \in Tasks : Live(t) => owner[t] \in Bots
    /\ flag \in [Tasks -> BOOLEAN]
    /\ retry \in [Tasks -> Nat]
StartTypeOK ==
    /\ startPc \in [Starters -> StartPcs]
    /\ startBot \in [Starters -> Bots \cup {None}]
    /\ \A s \in Starters : startPc[s] # "idle" => startBot[s] \in Bots
    /\ startLock \in [Starters -> Locks \cup {None}]
StopTypeOK ==
    /\ stopPc \in [Stoppers -> StopPcs]
    /\ stopBot \in [Stoppers -> Bots \cup {None}]
    /\ \A q \in Stoppers : stopPc[q] # "idle" => stopBot[q] \in Bots
    /\ stopTask \in [Stoppers -> Tasks \cup {None}]
    /\ stopBridge \in [Stoppers -> Tasks \cup {None}]
ProcessTypeOK ==
    /\ bootPc \in BootPcs
    /\ bootQueue \subseteq Bots
    /\ bootBot \in Bots \cup {None}
    /\ bootPc \in {"starting", "failed"} => bootBot \in Bots
    /\ bootAttempt \in Nat
    /\ reconPc \in ReconPcs
    /\ reconIds \subseteq Bots
    /\ reconOrphans \subseteq Bots
    /\ shutPc \in ShutPcs
    /\ shutPc \in {"waiting", "timedout"} => shutTask \in Tasks
    /\ shuttingDown \in BOOLEAN
    /\ shutTodo \subseteq Bots \X Tasks
    /\ shutTask \in Tasks \cup {None}
    /\ crashes \in Nat

TypeOK ==
    /\ DbTypeOK
    /\ MemTypeOK
    /\ TaskTypeOK
    /\ StartTypeOK
    /\ StopTypeOK
    /\ ProcessTypeOK

-----------------------------------------------------------------------------
NoEntry == [b \in Bots |-> None]

\* The rows are what an earlier process left behind, and this one is fresh:
\* __init__ of the manager and the background tasks of lifespan.
Init ==
    /\ status \in [Bots -> Statuses]
    /\ recent = [b \in Bots |-> FALSE]
    /\ crashes = 0
    /\ running = NoEntry
    /\ bridges = NoEntry
    /\ locks = NoEntry
    /\ pc = [t \in Tasks |-> "done"]
    /\ owner = [t \in Tasks |-> None]
    /\ flag = [t \in Tasks |-> FALSE]
    /\ retry = [t \in Tasks |-> 0]
    /\ startPc = [s \in Starters |-> "idle"]
    /\ startBot = [s \in Starters |-> None]
    /\ startLock = [s \in Starters |-> None]
    /\ stopPc = [q \in Stoppers |-> "idle"]
    /\ stopBot = [q \in Stoppers |-> None]
    /\ stopTask = [q \in Stoppers |-> None]
    /\ stopBridge = [q \in Stoppers |-> None]
    /\ bootPc = "sleep"
    /\ bootQueue = {}
    /\ bootBot = None
    /\ bootAttempt = 0
    /\ reconPc = "idle"
    /\ reconIds = {}
    /\ reconOrphans = {}
    /\ shuttingDown = FALSE
    /\ shutPc = "idle"
    /\ shutTodo = {}
    /\ shutTask = None

-----------------------------------------------------------------------------
(***************************************************************************)
(* Starting a bot.                                                         *)
(***************************************************************************)
InLock == {"loading", "committing", "storing"}
\* Mutant: a lock that somebody waits for is never handed over.
LockHeldByWaiters(l) == \E s \in Starters : startPc[s] # "idle" /\ startLock[s] = l
LockHeld(l) == \E s \in Starters : startPc[s] \in InLock /\ startLock[s] = l

\* The loop resumes a caller woken by the release of its lock before any
\* further input or output completes, and restart_crashed_bots calls start_bot
\* without an await in between.
Woken(s) == startPc[s] = "waiting" /\ ~LockHeld(startLock[s])
ReadyNow == startPc[Boot] = "charged" \/ \E s \in Starters : Woken(s)

FreeTask(t) ==
    /\ ~Live(t)
    /\ \A b \in Bots : running[b] # t /\ bridges[b] # t
    /\ \A q \in Stoppers : stopTask[q] # t /\ stopBridge[q] # t
    /\ shutTask # t
FreeLock(l) ==
    /\ \A b \in Bots : locks[b] # l
    /\ \A s \in Starters : startLock[s] # l

\* A caller of start_bot gives up: its exception reaches the route, which
\* answers 400 or 500, or the attempt loop of restart_crashed_bots.
Abandon(s) ==
    /\ startPc' = [startPc EXCEPT ![s] = "idle"]
    /\ startBot' = [startBot EXCEPT ![s] = None]
    /\ startLock' = [startLock EXCEPT ![s] = None]
    /\ bootPc' = IF s = Boot THEN "failed" ELSE bootPc

\* Mutant: _running_bots is not looked at.
InsideLockUnchecked(s, l) ==
    /\ startPc' = [startPc EXCEPT ![s] = "loading"]
    /\ startLock' = [startLock EXCEPT ![s] = l]
    /\ UNCHANGED <<running, bridges, startBot, bootPc>>

\* The body of start_bot from the acquired lock to the await of the SELECT: a
\* registered bot is refused, except to a restart, which drops the stale
\* references (and does not cancel the task behind them).
InsideLock(s, l) ==
    LET b == startBot[s] IN
    \/ /\ running[b] # None /\ s # Boot
       /\ Abandon(s)
       /\ UNCHANGED <<running, bridges>>
    \/ /\ running[b] = None \/ s = Boot
       /\ startPc' = [startPc EXCEPT ![s] = "loading"]
       /\ startLock' = [startLock EXCEPT ![s] = l]
       /\ running' = [running EXCEPT ![b] = None]
       /\ bridges' = IF running[b] = None THEN bridges
                                          ELSE [bridges EXCEPT ![b] = None]
       /\ UNCHANGED <<startBot, bootPc>>

\* The route reads the row, answers 409 to a bot that runs or starts, and then
\* awaits the charge.
RequestStart(s, b) ==
    /\ ~shuttingDown
    /\ startPc[s] = "idle"
    /\ status[b] \notin {"running", "starting"}
    /\ startPc' = [startPc EXCEPT ![s] = "charged"]
    /\ startBot' = [startBot EXCEPT ![s] = b]
    /\ UNCHANGED <<dbVars, memVars, taskVars, startLock, stopVars, bootVars,
                   reconVars, shutVars, crashes>>

\* Mutant: a new lock is made on every call.
EnterStartNewLock(s) ==
    /\ startPc[s] = "charged"
    /\ \E l \in Locks :
          /\ FreeLock(l)
          /\ locks' = [locks EXCEPT ![startBot[s]] = l]
          /\ InsideLock(s, l)
    /\ UNCHANGED <<dbVars, taskVars, stopVars, bootQueue, bootBot,
                   bootAttempt, reconVars, shutVars, crashes>>

\* Mutant: nobody waits for the lock.
EnterStartNoWait(s) ==
    /\ startPc[s] = "charged"
    /\ \E l \in Locks :
          /\ locks[startBot[s]] = l \/ (locks[startBot[s]] = None /\ FreeLock(l))
          /\ locks' = [locks EXCEPT ![startBot[s]] = l]
          /\ InsideLock(s, l)
    /\ UNCHANGED <<dbVars, taskVars, stopVars, bootQueue, bootBot,
                   bootAttempt, reconVars, shutVars, crashes>>

\* start_bot takes the lock of the bot, made on first use; a lock that is held
\* makes it wait.
EnterStart(s) ==
    /\ startPc[s] = "charged"
    /\ LET b == startBot[s] IN
       \E l \in Locks :
          /\ locks[b] = l \/ (locks[b] = None /\ FreeLock(l))
          /\ locks' = [locks EXCEPT ![b] = l]
          /\ \/ /\ LockHeld(l)
                /\ startPc' = [startPc EXCEPT ![s] = "waiting"]
                /\ startLock' = [startLock EXCEPT ![s] = l]
                /\ UNCHANGED <<running, bridges, startBot, bootPc>>
             \/ /\ ~LockHeld(l)
                /\ InsideLock(s, l)
    /\ UNCHANGED <<dbVars, taskVars, stopVars, bootQueue, bootBot,
                   bootAttempt, reconVars, shutVars, crashes>>

AcquireLock(s) ==
    /\ Woken(s)
    /\ InsideLock(s, startLock[s])
    /\ UNCHANGED <<dbVars, locks, taskVars, stopVars, bootQueue, bootBot,
                   bootAttempt, reconVars, shutVars, crashes>>

\* The row is loaded; a bot that runs or starts is refused, except to a restart.
LoadBot(s) ==
    /\ startPc[s] = "loading"
    /\ \/ /\ status[startBot[s]] \in {"running", "starting"} /\ s # Boot
          /\ Abandon(s)
       \/ /\ status[startBot[s]] \notin {"running", "starting"} \/ s = Boot
          /\ startPc' = [startPc EXCEPT ![s] = "committing"]
          /\ UNCHANGED <<startBot, startLock, bootPc>>
    /\ UNCHANGED <<dbVars, memVars, taskVars, stopVars, bootQueue, bootBot,
                   bootAttempt, reconVars, shutVars, crashes>>

CommitStarting(s) ==
    /\ startPc[s] = "committing"
    /\ status' = [status EXCEPT ![startBot[s]] = "starting"]
    /\ recent' = [recent EXCEPT ![startBot[s]] = TRUE]
    /\ startPc' = [startPc EXCEPT ![s] = "storing"]
    /\ UNCHANGED <<memVars, taskVars, startBot, startLock, stopVars, bootVars,
                   reconVars, shutVars, crashes>>

\* The database fails while the row is loaded or committed.
StartFails(s) ==
    /\ startPc[s] \in {"loading", "committing"}
    /\ Abandon(s)
    /\ UNCHANGED <<dbVars, memVars, taskVars, stopVars, bootQueue, bootBot,
                   bootAttempt, reconVars, shutVars, crashes>>

\* Mutant: the attempt loop does not notice that the start succeeded.
StoreRefsUnnoticed(s) ==
    /\ startPc[s] = "storing"
    /\ LET b == startBot[s] IN
       \E t \in Tasks :
          /\ FreeTask(t)
          /\ running' = [running EXCEPT ![b] = t]
          /\ bridges' = [bridges EXCEPT ![b] = t]
          /\ pc' = [pc EXCEPT ![t] = "init"]
          /\ owner' = [owner EXCEPT ![t] = b]
          /\ UNCHANGED <<flag, retry>>
    /\ Abandon(s)
    /\ UNCHANGED <<dbVars, locks, stopVars, bootQueue, bootBot, bootAttempt,
                   reconVars, shutVars, crashes>>

\* With the session closed, the references are stored, the wrapper task is made
\* and the lock is released.
StoreRefs(s) ==
    /\ startPc[s] = "storing"
    /\ LET b == startBot[s] IN
       \E t \in Tasks :
          /\ FreeTask(t)
          /\ running' = [running EXCEPT ![b] = t]
          /\ bridges' = [bridges EXCEPT ![b] = t]
          /\ pc' = [pc EXCEPT ![t] = "init"]
          /\ owner' = [owner EXCEPT ![t] = b]
          /\ flag' = [flag EXCEPT ![t] = FALSE]
          /\ retry' = [retry EXCEPT ![t] = 0]
    /\ startPc' = [startPc EXCEPT ![s] = "idle"]
    /\ startBot' = [startBot EXCEPT ![s] = None]
    /\ startLock' = [startLock EXCEPT ![s] = None]
    /\ bootPc' = IF s = Boot THEN "next" ELSE bootPc
    /\ UNCHANGED <<dbVars, locks, stopVars, bootQueue, bootBot, bootAttempt,
                   reconVars, shutVars, crashes>>

-----------------------------------------------------------------------------
(***************************************************************************)
(* The wrapper task.                                                       *)
(***************************************************************************)
Goto(t, p) == /\ pc' = [pc EXCEPT ![t] = p]
              /\ UNCHANGED retry

\* The bridge is to be replaced after a sleep, which counts as a retry unless
\* the market is closed.
BackOff(t, p) ==
    /\ pc' = [pc EXCEPT ![t] = p]
    /\ \E n \in {retry[t], retry[t] + 1} : retry' = [retry EXCEPT ![t] = n]

\* bridge.run() returns: with _shutdown set it was the user.
BridgeReturned(t) ==
    \/ flag[t] /\ Goto(t, "stopping")
    \/ ~flag[t] /\ BackOff(t, "backoffTry")

\* A task that only moves on leaves everything else alone.
TaskMoves(t) ==
    UNCHANGED <<dbVars, memVars, owner, flag, startVars, stopVars, bootVars,
                reconVars, shutVars, crashes>>

MarkRunning(t) ==
    /\ pc[t] = "init"
    /\ status' = [status EXCEPT ![owner[t]] = "running"]
    /\ IF shuttingDown THEN Goto(t, "cleanup") ELSE Goto(t, "connect")
    /\ UNCHANGED <<recent, memVars, owner, flag, startVars, stopVars, bootVars,
                   reconVars, shutVars, crashes>>

\* Connected, warmed up and synchronised, the bridge enters its main loop,
\* whose head looks at _shutdown.
Connected(t) ==
    /\ pc[t] = "connect"
    /\ IF flag[t] THEN BridgeReturned(t) ELSE Goto(t, "poll")
    /\ TaskMoves(t)

\* Too few warmup bars: run() returns without entering the loop.
WarmupFails(t) ==
    /\ pc[t] = "connect"
    /\ BridgeReturned(t)
    /\ TaskMoves(t)

\* A transient exception of run() is retried whatever _shutdown says; the main
\* loop catches its own.
BridgeRaises(t) ==
    /\ pc[t] = "connect"
    /\ BackOff(t, "backoffExc")
    /\ TaskMoves(t)

PermanentError(t) ==
    /\ pc[t] = "connect"
    /\ Goto(t, "failing")
    /\ TaskMoves(t)

\* A poll cycle ends, well or badly; a cancelled or timed out one goes back to
\* the head of the loop without the sleep.
PollEnds(t) ==
    /\ pc[t] = "poll"
    /\ \/ Goto(t, "sleep")
       \/ flag[t] /\ BridgeReturned(t)
    /\ TaskMoves(t)

\* The poll interval is over: the head of the main loop.
Wake(t) ==
    /\ pc[t] = "sleep"
    /\ IF flag[t] THEN BridgeReturned(t) ELSE Goto(t, "poll")
    /\ TaskMoves(t)

\* The sleep before a retry is over: a fresh bridge replaces the old one, and
\* the loop goes round unless the retries are used up or the app shuts down.
FreshBridge(t) ==
    /\ pc[t] \in {"backoffTry", "backoffExc"}
    /\ flag' = [flag EXCEPT ![t] = FALSE]
    /\ bridges' = [bridges EXCEPT ![owner[t]] = t]
    /\ stopBridge' = [q \in Stoppers |->
                         IF stopBridge[q] = t THEN None ELSE stopBridge[q]]
    /\ Goto(t, IF retry[t] > MaxRetries THEN "failing"
               ELSE IF shuttingDown THEN "cleanup" ELSE "connect")
    /\ UNCHANGED <<dbVars, running, locks, owner, startVars, stopPc, stopBot,
                   stopTask, bootVars, reconVars, shutVars, crashes>>

\* The last word of the wrapper on the row: stopped by the user, stopped by a
\* cancellation, or error after a permanent fault or the last retry.
RecordEnd(t) ==
    /\ \/ pc[t] \in {"stopping", "cancelled"}
          /\ status' = [status EXCEPT ![owner[t]] = "stopped"]
       \/ pc[t] = "failing"
          /\ status' = [status EXCEPT ![owner[t]] = "error"]
    /\ Goto(t, "cleanup")
    /\ UNCHANGED <<recent, memVars, owner, flag, startVars, stopVars, bootVars,
                   reconVars, shutVars, crashes>>

\* A write to the row fails; only the finally block is left.
WriteFails(t) ==
    /\ pc[t] \in {"init", "stopping", "failing", "cancelled"}
    /\ Goto(t, "cleanup")
    /\ TaskMoves(t)

\* Mutant: the finished task stays registered.
CleanupForgetsTask(t) ==
    /\ pc[t] = "cleanup"
    /\ bridges' = [bridges EXCEPT ![owner[t]] = None]
    /\ locks' = [locks EXCEPT ![owner[t]] = None]
    /\ pc' = [pc EXCEPT ![t] = "done"]
    /\ owner' = [owner EXCEPT ![t] = None]
    /\ flag' = [flag EXCEPT ![t] = FALSE]
    /\ retry' = [retry EXCEPT ![t] = 0]
    /\ UNCHANGED <<dbVars, running, startVars, stopVars, bootVars,
                   reconVars, shutVars, crashes>>

\* The end of the finally block, after the log flush, the streaming connection
\* and the undeploy: the entries of the bot go, whichever task made them.  What the
\* task itself leaves behind nobody reads.
Cleanup(t) ==
    /\ pc[t] = "cleanup"
    /\ running' = [running EXCEPT ![owner[t]] = None]
    /\ bridges' = [bridges EXCEPT ![owner[t]] = None]
    /\ locks' = [locks EXCEPT ![owner[t]] = None]
    /\ pc' = [pc EXCEPT ![t] = "done"]
    /\ owner' = [owner EXCEPT ![t] = None]
    /\ flag' = [flag EXCEPT ![t] = FALSE]
    /\ retry' = [retry EXCEPT ![t] = 0]
    /\ UNCHANGED <<dbVars, startVars, stopVars, bootVars,
                   reconVars, shutVars, crashes>>

\* Mutant: the handler of the retry loop does not look at _shutdown.
CancelTaskRetries(t, f, down) ==
    \/ pc[t] = "poll" /\ Goto(t, IF f THEN "stopping" ELSE "poll")
    \/ /\ pc[t] \in {"connect", "sleep", "backoffTry"}
       /\ IF down THEN Goto(t, "cleanup") ELSE BackOff(t, "backoffExc")
    \/ /\ pc[t] \in {"init", "backoffExc", "stopping", "failing"}
       /\ Goto(t, IF down THEN "cleanup" ELSE "cancelled")
    \/ pc[t] = "cancelled" /\ Goto(t, "cleanup")
    \/ pc[t] \in {"cleanup", "done"} /\ Goto(t, "done")

\* What cancelling task t does to it, with f as _shutdown of its bridge and
\* down as _shutting_down: the main loop swallows a cancellation of its poll
\* cycle; the handler of the retry loop takes one that comes through run() or
\* out of the sleep in its own try; any other goes to the outer handler, and a
\* second one ends even that.  In the finally block it skips what is left.
CancelTask(t, f, down) ==
    \/ pc[t] = "poll" /\ Goto(t, IF f THEN "stopping" ELSE "poll")
    \/ /\ pc[t] \in {"connect", "sleep", "backoffTry"}
       /\ \/ down /\ Goto(t, "cleanup")
          \/ ~down /\ f /\ Goto(t, "stopping")
          \/ ~down /\ ~f /\ BackOff(t, "backoffExc")
    \/ /\ pc[t] \in {"init", "backoffExc", "stopping", "failing"}
       /\ Goto(t, IF down THEN "cleanup" ELSE "cancelled")
    \/ pc[t] = "cancelled" /\ Goto(t, "cleanup")
    \/ pc[t] \in {"cleanup", "done"} /\ Goto(t, "done")

-----------------------------------------------------------------------------
(***************************************************************************)
(* Stopping a bot: the user, or usage billing at a low balance.            *)
(***************************************************************************)
\* stop_bot is done.  Billing has marked its own copy of the row as stopped and
\* commits it at the end of the tick.
StopBotDone(q) ==
    /\ stopPc' = [stopPc EXCEPT ![q] = IF q = Billing THEN "commit" ELSE "idle"]
    /\ stopBot' = [stopBot EXCEPT ![q] = IF q = Billing THEN @ ELSE None]
    /\ stopTask' = [stopTask EXCEPT ![q] = None]
    /\ stopBridge' = [stopBridge EXCEPT ![q] = None]

\* _shutdown is set on the bridge of task x, unless that has been replaced.
Signal(x) == flag' = [t \in Tasks |-> flag[t] \/ (x = t /\ Live(t))]

\* stop_bot picks up the bridge and the task; without both only the row is
\* touched.  A bridge that has come to its main loop has an executor, through
\* which the positions are closed first; any other is signalled at once.
RequestStop(q, b) ==
    /\ ~shuttingDown
    /\ stopPc[q] = "idle"
    /\ q = Billing => status[b] = "running"
    /\ stopBot' = [stopBot EXCEPT ![q] = b]
    /\ \/ /\ running[b] = None \/ bridges[b] = None
          /\ stopPc' = [stopPc EXCEPT ![q] = "dbonly"]
          /\ UNCHANGED <<flag, stopTask, stopBridge>>
       \/ /\ running[b] # None /\ bridges[b] # None
          /\ stopTask' = [stopTask EXCEPT ![q] = running[b]]
          /\ stopBridge' = [stopBridge EXCEPT ![q] = bridges[b]]
          /\ \/ /\ pc[bridges[b]] \notin {"init", "connect", "backoffTry"}
                /\ stopPc' = [stopPc EXCEPT ![q] = "closing"]
                /\ UNCHANGED flag
             \/ /\ pc[bridges[b]] \notin {"poll", "sleep"}
                /\ stopPc' = [stopPc EXCEPT ![q] = "waiting"]
                /\ Signal(bridges[b])
    /\ UNCHANGED <<dbVars, memVars, pc, owner, retry, startVars, bootVars,
                   reconVars, shutVars, crashes>>

StopInDb(q) ==
    /\ stopPc[q] = "dbonly"
    /\ status' = [status EXCEPT ![stopBot[q]] = "stopped"]
    /\ StopBotDone(q)
    /\ UNCHANGED <<recent, memVars, taskVars, startVars, bootVars, reconVars,
                   shutVars, crashes>>

\* The positions are closed, or the attempt failed: the bridge picked up at the
\* start is signalled, which may have been replaced since.
SignalStop(q) ==
    /\ stopPc[q] = "closing"
    /\ stopPc' = [stopPc EXCEPT ![q] = "waiting"]
    /\ Signal(stopBridge[q])
    /\ UNCHANGED <<dbVars, memVars, pc, owner, retry, startVars, stopBot,
                   stopTask, stopBridge, bootVars, reconVars, shutVars, crashes>>

\* 30 seconds are over: wait_for cancels the task, once, and waits on.
StopTimesOut(q) ==
    /\ stopPc[q] = "waiting"
    /\ Live(stopTask[q])
    /\ stopPc' = [stopPc EXCEPT ![q] = "timedout"]
    /\ CancelTask(stopTask[q], flag[stopTask[q]], shuttingDown)
    /\ UNCHANGED <<dbVars, memVars, owner, flag, startVars, stopBot, stopTask,
                   stopBridge, bootVars, reconVars, shutVars, crashes>>

StopReturns(q) ==
    /\ stopPc[q] \in {"waiting", "timedout"}
    /\ ~Live(stopTask[q])
    /\ StopBotDone(q)
    /\ UNCHANGED <<dbVars, memVars, taskVars, startVars, bootVars, reconVars,
                   shutVars, crashes>>

BillingCommits(q) ==
    /\ stopPc[q] = "commit"
    /\ status' = [status EXCEPT ![stopBot[q]] = "stopped"]
    /\ stopPc' = [stopPc EXCEPT ![q] = "idle"]
    /\ stopBot' = [stopBot EXCEPT ![q] = None]
    /\ UNCHANGED <<recent, memVars, taskVars, startVars, stopTask, stopBridge,
                   bootVars, reconVars, shutVars, crashes>>

-----------------------------------------------------------------------------
(***************************************************************************)
(* The process boots, reconciles, shuts down and dies.                     *)
(***************************************************************************)
BootSnapshot ==
    /\ bootPc = "sleep"
    /\ bootPc' = "next"
    /\ bootQueue' = IF AutoRestart
                    THEN {b \in Bots : status[b] \in {"running", "starting"}}
                    ELSE {}
    /\ UNCHANGED <<dbVars, memVars, taskVars, startVars, stopVars, bootBot,
                   bootAttempt, reconVars, shutVars, crashes>>

\* The next bot of the snapshot, whatever its row says by now; one that has a
\* task is skipped.
BootNext(b) ==
    /\ bootPc = "next"
    /\ b \in bootQueue
    /\ bootQueue' = bootQueue \ {b}
    /\ \/ /\ running[b] # None
          /\ UNCHANGED <<bootPc, bootBot, bootAttempt, startPc, startBot>>
       \/ /\ running[b] = None
          /\ bootPc' = "starting"
          /\ bootBot' = b
          /\ bootAttempt' = 1
          /\ startPc' = [startPc EXCEPT ![Boot] = "charged"]
          /\ startBot' = [startBot EXCEPT ![Boot] = b]
    /\ UNCHANGED <<dbVars, memVars, taskVars, startLock, stopVars, reconVars,
                   shutVars, crashes>>

\* The attempt failed: the next one follows after ten seconds.
BootRetry ==
    /\ bootPc = "failed"
    /\ bootAttempt < MaxAttempts
    /\ bootPc' = "starting"
    /\ bootAttempt' = bootAttempt + 1
    /\ startPc' = [startPc EXCEPT ![Boot] = "charged"]
    /\ startBot' = [startBot EXCEPT ![Boot] = bootBot]
    /\ UNCHANGED <<dbVars, memVars, taskVars, startLock, stopVars, bootQueue,
                   bootBot, reconVars, shutVars, crashes>>

\* The last attempt failed: the row becomes error.
BootGivesUp ==
    /\ bootPc = "failed"
    /\ bootAttempt = MaxAttempts
    /\ bootPc' = "next"
    /\ status' = [status EXCEPT ![bootBot] = "error"]
    /\ UNCHANGED <<recent, memVars, taskVars, startVars, stopVars, bootQueue,
                   bootBot, bootAttempt, reconVars, shutVars, crashes>>

\* A pass of the reconciler copies the keys of _running_bots, then reads the
\* rows that say running and picks the ones out of their grace period, older
\* than the copy, that are not among the keys.
ReconSnapshot ==
    /\ reconPc = "idle"
    /\ bootPc # "sleep"
    /\ reconPc' = "snapped"
    /\ reconIds' = {b \in Bots : running[b] # None}
    /\ UNCHANGED <<dbVars, memVars, taskVars, startVars, stopVars, bootVars,
                   reconOrphans, shutVars, crashes>>

\* Mutant: no grace period after a start.
IsOrphanAtOnce(b) == status[b] = "running" /\ b \notin reconIds
IsOrphan(b) == status[b] = "running" /\ ~recent[b] /\ b \notin reconIds

ReconReads ==
    /\ reconPc = "snapped"
    /\ reconIds' = {}
    /\ reconOrphans' = {b \in Bots : IsOrphan(b)}
    /\ reconPc' = IF reconOrphans' = {} THEN "idle" ELSE "read"
    /\ UNCHANGED <<dbVars, memVars, taskVars, startVars, stopVars, bootVars,
                   shutVars, crashes>>

\* Mutant: the reconciler ends after its first pass.
ReconCommitsOnce ==
    /\ reconPc = "read"
    /\ reconPc' = "off"
    /\ reconOrphans' = {}
    /\ status' = [b \in Bots |-> IF b \in reconOrphans THEN "error" ELSE status[b]]
    /\ UNCHANGED <<recent, memVars, taskVars, startVars, stopVars, bootVars,
                   reconIds, shutVars, crashes>>

\* The picked rows become error, whatever has become of them since.
ReconCommits ==
    /\ reconPc = "read"
    /\ reconPc' = "idle"
    /\ reconOrphans' = {}
    /\ status' = [b \in Bots |-> IF b \in reconOrphans THEN "error" ELSE status[b]]
    /\ UNCHANGED <<recent, memVars, taskVars, startVars, stopVars, bootVars,
                   reconIds, shutVars, crashes>>

\* The database fails; the next pass comes in a minute.
ReconFails ==
    /\ reconPc \in {"snapped", "read"}
    /\ reconPc' = "idle"
    /\ reconIds' = {}
    /\ reconOrphans' = {}
    /\ UNCHANGED <<dbVars, memVars, taskVars, startVars, stopVars, bootVars,
                   shutVars, crashes>>

\* Two minutes have passed since the start.  A pass takes far less, and so does
\* the way from the commit of a start to its registration: no bot leaves the
\* grace period in the middle of either.
GraceExpires(b) ==
    /\ recent[b]
    /\ reconPc # "snapped"
    /\ \A s \in Starters : startPc[s] = "storing" => startBot[s] # b
    /\ recent' = [recent EXCEPT ![b] = FALSE]
    /\ UNCHANGED <<status, memVars, taskVars, startVars, stopVars, bootVars,
                   reconVars, shutVars, crashes>>

\* The server has drained its requests: lifespan cancels the background tasks
\* (of which billing is asleep here) and calls shutdown_all.
BeginShutdown ==
    /\ ~shuttingDown
    /\ crashes < MaxCrashes
    /\ \A s \in StartReqs : startPc[s] = "idle"
    /\ \A q \in Stoppers : stopPc[q] = "idle"
    /\ shuttingDown' = TRUE
    /\ shutPc' = "next"
    /\ shutTodo' = {e \in Bots \X Tasks : running[e[1]] = e[2]}
    /\ bootPc' = "off"
    /\ bootQueue' = {}
    /\ reconPc' = "off"
    /\ reconIds' = {}
    /\ reconOrphans' = {}
    /\ startPc' = [startPc EXCEPT ![Boot] = "idle"]
    /\ startBot' = [startBot EXCEPT ![Boot] = None]
    /\ startLock' = [startLock EXCEPT ![Boot] = None]
    /\ UNCHANGED <<dbVars, memVars, taskVars, stopVars, bootBot, bootAttempt,
                   shutTask, crashes>>

\* shutdown_all takes the next entry of its copy, sets _shutdown on the bridge
\* of the bot, cancels the task and waits for it.
ShutdownTask(b, t) ==
    /\ shutPc = "next"
    /\ <<b, t>> \in shutTodo
    /\ shutTodo' = shutTodo \ {<<b, t>>}
    /\ flag' = [u \in Tasks |-> flag[u] \/ bridges[b] = u]
    /\ CancelTask(t, flag'[t], TRUE)
    /\ shutPc' = "waiting"
    /\ shutTask' = t
    /\ UNCHANGED <<dbVars, memVars, owner, startVars, stopVars, bootVars, reconVars,
                   shuttingDown, crashes>>

\* Five seconds are over: wait_for cancels the task again, once, and waits on.
ShutdownTimesOut ==
    /\ shutPc = "waiting"
    /\ Live(shutTask)
    /\ shutPc' = "timedout"
    /\ CancelTask(shutTask, flag[shutTask], TRUE)
    /\ UNCHANGED <<dbVars, memVars, owner, flag, startVars, stopVars, bootVars,
                   reconVars, shuttingDown, shutTodo, shutTask, crashes>>

ShutdownProceeds ==
    /\ shutPc \in {"waiting", "timedout"}
    /\ ~Live(shutTask)
    /\ shutPc' = "next"
    /\ shutTask' = None
    /\ UNCHANGED <<dbVars, memVars, taskVars, startVars, stopVars, bootVars,
                   reconVars, shuttingDown, shutTodo, crashes>>

\* All tasks are done: the dictionaries are cleared, of the entries too that a
\* cancelled finally block has left.
ShutdownEnds ==
    /\ shutPc = "next"
    /\ shutTodo = {}
    /\ shutPc' = "over"
    /\ running' = NoEntry
    /\ bridges' = NoEntry
    /\ UNCHANGED <<dbVars, locks, taskVars, startVars, stopVars, bootVars,
                   reconVars, shuttingDown, shutTodo, shutTask, crashes>>

\* The process ends, killed at any moment or after a shutdown, and another is
\* started: only the rows survive.
ProcessRestarts ==
    /\ crashes < MaxCrashes
    /\ crashes' = crashes + 1
    /\ running' = NoEntry
    /\ bridges' = NoEntry
    /\ locks' = NoEntry
    /\ pc' = [t \in Tasks |-> "done"]
    /\ owner' = [t \in Tasks |-> None]
    /\ flag' = [t \in Tasks |-> FALSE]
    /\ retry' = [t \in Tasks |-> 0]
    /\ startPc' = [s \in Starters |-> "idle"]
    /\ startBot' = [s \in Starters |-> None]
    /\ startLock' = [s \in Starters |-> None]
    /\ stopPc' = [q \in Stoppers |-> "idle"]
    /\ stopBot' = [q \in Stoppers |-> None]
    /\ stopTask' = [q \in Stoppers |-> None]
    /\ stopBridge' = [q \in Stoppers |-> None]
    /\ bootPc' = "sleep"
    /\ bootQueue' = {}
    /\ bootBot' = None
    /\ bootAttempt' = 0
    /\ reconPc' = "idle"
    /\ reconIds' = {}
    /\ reconOrphans' = {}
    /\ shuttingDown' = FALSE
    /\ shutPc' = "idle"
    /\ shutTodo' = {}
    /\ shutTask' = None
    /\ UNCHANGED dbVars

-----------------------------------------------------------------------------
StartStep(s) == LoadBot(s) \/ CommitStarting(s) \/ StoreRefs(s)
TaskStep(t) ==
    \/ MarkRunning(t) \/ Connected(t) \/ PollEnds(t) \/ Wake(t)
    \/ FreshBridge(t) \/ RecordEnd(t) \/ Cleanup(t)
TaskFault(t) ==
    WarmupFails(t) \/ BridgeRaises(t) \/ PermanentError(t) \/ WriteFails(t)
StopStep(q) ==
    \/ StopInDb(q) \/ SignalStop(q) \/ StopTimesOut(q) \/ StopReturns(q)
    \/ BillingCommits(q)
BootStep ==
    \/ BootSnapshot \/ BootRetry \/ BootGivesUp
    \/ \E b \in Bots : BootNext(b)
ReconStep == ReconSnapshot \/ ReconReads \/ ReconCommits
ShutdownStep ==
    \/ \E b \in Bots, t \in Tasks : ShutdownTask(b, t)
    \/ ShutdownTimesOut \/ ShutdownProceeds \/ ShutdownEnds

Next ==
    \/ \E s \in Starters : AcquireLock(s)
    \/ EnterStart(Boot)
    \/ \E s \in StartReqs, b \in Bots : ~ReadyNow /\ RequestStart(s, b)
    \/ \E s \in StartReqs : ~ReadyNow /\ EnterStart(s)
    \/ \E s \in Starters : ~ReadyNow /\ StartStep(s)
    \/ \E s \in Starters : ~ReadyNow /\ StartFails(s)
    \/ \E t \in Tasks : ~ReadyNow /\ TaskStep(t)
    \/ \E t \in Tasks : ~ReadyNow /\ TaskFault(t)
    \/ \E q \in Stoppers, b \in Bots : ~ReadyNow /\ RequestStop(q, b)
    \/ \E q \in Stoppers : ~ReadyNow /\ StopStep(q)
    \/ ~ReadyNow /\ BootStep
    \/ ~ReadyNow /\ ReconStep
    \/ ~ReadyNow /\ ReconFails
    \/ \E b \in Bots : ~ReadyNow /\ GraceExpires(b)
    \/ ~ReadyNow /\ BeginShutdown
    \/ ~ReadyNow /\ ShutdownStep
    \/ ~ReadyNow /\ ProcessRestarts

Spec == Init /\ [][Next]_vars

-----------------------------------------------------------------------------
(***************************************************************************)
(* Safety.                                                                 *)
(***************************************************************************)

\* No bot trades twice: at most one wrapper task of a bot is alive, however
\* start requests, stops, crashes of the bridge and the finally block that
\* deletes the lock interleave (the purpose of _start_locks in start_bot).
OneTaskPerBot ==
    \A t, u \in Tasks :
        Live(t) /\ Live(u) /\ owner[t] = owner[u] => t = u

\* A task that is alive is the one _running_bots names for its bot: stop_bot,
\* shutdown_all and the reconciler reach a task through that entry only.
LiveIsRegistered ==
    \A t \in Tasks : Live(t) => running[owner[t]] = t

\* Between the check of _running_bots and the registration of the task, the
\* caller of start_bot holds the lock under which any other would look.
LockGuardsStart ==
    \A s \in Starters : startPc[s] \in InLock =>
        /\ running[startBot[s]] = None
        /\ locks[startBot[s]] = startLock[s]

\* A registered bot always has a bridge for stop_bot to signal, so a stop never
\* falls back to editing the row under a registered task.
RegisteredHasBridge ==
    \A b \in Bots : running[b] # None => bridges[b] # None

\* The reconciler never picks a bot that is registered when its row is read:
\* its copy of the keys is stale by then, and only the grace period covers the
\* bots that started after it (reconcile_bot_status_once).
NoFalseOrphan ==
    [][(reconPc = "snapped" /\ reconPc' = "read")
            => \A b \in reconOrphans' : running[b] = None]_vars

\* A shutdown of the app stops no bot for good: the row of a bot that ran or
\* was starting never becomes stopped, so that restart_crashed_bots finds it
\* (the docstring of shutdown_all).
ShutdownKeepsRows ==
    [][\A b \in Bots :
        (shuttingDown /\ status[b] \in {"running", "starting"})
            => status'[b] # "stopped"]_vars

-----------------------------------------------------------------------------
(***************************************************************************)
(* Liveness.  Requests, faults and grace of clocks come from outside; what *)
(* the process has begun it goes on with, a sleep ends, a timeout expires, *)
(* a process that has shut down is started again.                          *)
(***************************************************************************)
Fairness ==
    /\ \A s \in Starters :
          WF_vars(EnterStart(s)) /\ WF_vars(AcquireLock(s)) /\ WF_vars(StartStep(s))
    /\ \A t \in Tasks : WF_vars(TaskStep(t))
    /\ \A q \in Stoppers : WF_vars(StopStep(q))
    /\ WF_vars(BootStep)
    /\ WF_vars(ReconSnapshot) /\ SF_vars(ReconReads) /\ SF_vars(ReconCommits)
    /\ \A b \in Bots : SF_vars(GraceExpires(b))
    /\ WF_vars(ShutdownStep)
    /\ WF_vars(shutPc = "over" /\ ProcessRestarts)

FairSpec == Spec /\ Fairness

\* A call of start_bot comes to an end: no caller waits for ever for a lock,
\* not even for one that a finishing task has deleted from _start_locks.
StartAnswered ==
    \A s \in Starters : startPc[s] = "charged" ~> startPc[s] = "idle"

\* A bridge that is told to stop once it is past its connection ends its task,
\* through the main loop or through the cancellation after 30 seconds.
SignalledPollingEnds ==
    \A t \in Tasks : (flag[t] /\ pc[t] \in {"poll", "sleep"}) ~> pc[t] = "done"

\* A row that says running without a registered task does not stay so: a boot
\* restarts the bot or the reconciler writes error.
OrphanIsResolved ==
    \A b \in Bots : (status[b] = "running" /\ running[b] = None)
                        ~> (status[b] # "running" \/ running[b] # None)

\* A stop that has been signalled ends the task it was meant for (the comment
\* in the wrapper that the cancelled retry loop no longer outlives a stop).
StopEndsTask ==
    \A q \in Stoppers : stopPc[q] = "waiting" ~> stopPc[q] = "idle"

=============================================================================
