------------------------------- MODULE Worker -------------------------------
(***************************************************************************)
(* Direct mode: the bot worker beside the MT5 terminals (worker/main.py,   *)
(* bot_runner.py, account_manager.py) and the start and stop routes of the *)
(* API, which talk to it through one column, bots.status.                  *)
(*                                                                         *)
(* The worker polls: it looks at its dead subprocesses, then, in one       *)
(* database session, serves the rows that ask for a start and those that   *)
(* ask for a stop, and commits.  A runner is a subprocess, or a task of    *)
(* the worker's loop: the mode is configuration.  Rows are read committed; *)
(* a session writes only the columns whose value differs from the one it   *)
(* read, and holds the locks of locked rows until it ends.                *)
(***************************************************************************)
EXTENDS Naturals, FiniteSets

CONSTANTS
    Bots,       \* bot ids; each has a broker account of its own
    Runners,    \* identities of runners, reused when unreferenced
    Requests,   \* handlers of POST /bots/{id}/start and /stop in flight
    None,
    Modes,      \* use_subprocess: subset of {"subprocess", "task"}
    MaxBots,    \* max_bots (50 in the code)
    MaxRetries, \* max_retries (3 in the code)
    MaxFaults   \* bound: how often a poll fails or the worker is killed

Statuses == {"stopped", "start_requested", "running", "stop_requested", "error"}

ASSUME WorkerAssumption ==
    /\ None \notin Bots \cup Runners \cup Statuses
    /\ Modes \subseteq {"subprocess", "task"}
    /\ MaxBots \in Nat /\ MaxRetries \in Nat /\ MaxFaults \in Nat

VARIABLES
    row,      \* bots.status
    mode,
    wpc,      \* where the worker's loop is
    running,  \* _running
    retries,  \* _bot_retries
    ready,    \* bots whose account has a connected MT5Instance
    todo,     \* the bots that the loop at hand still has to visit
    cur,      \* the bot it is at
    target,   \* the runner that a stop or a shutdown waits for
    pending,  \* the status that a health check or a shutdown will commit
    dirty,    \* unsaved statuses of the rows loaded in the poll's session
    locked,   \* the rows that the session has written and not committed
    rpc, rbot, rsaw, rcode, \* each runner: where it is, its bot, the status it read, its exit code
    orphan,   \* runners whose worker was killed
    request,  \* each request: the bot and the status that it will write
    faults,
    unsaved   \* history: the bots since whose last start a write of a health check or a
              \* stop has failed, or whose processes a killed worker left behind

dbVars == <<row, dirty, locked>>
workerVars == <<mode, wpc, running, retries, ready, todo, cur, target, pending>>
runnerVars == <<rpc, rbot, rsaw, rcode, orphan>>
vars == <<dbVars, workerVars, runnerVars, request, faults, unsaved>>

WorkerPcs == {"off", "idle", "health", "noted", "settle", "starts", "login", "stops",
              "closing", "killed", "shut", "shutClosing", "shutKilled", "shutRows"}
\* A subprocess boots and writes running; both kinds work, may fail, and end by
\* writing their row.
RunnerPcs == {"boot", "booting", "work", "failing", "failed", "final", "finishing", "dead"}

WorkerTypeOK ==
    /\ row \in [Bots -> Statuses]
    /\ mode \in Modes
    /\ wpc \in WorkerPcs
    /\ running \in [Bots -> Runners \cup {None}]
    /\ retries \in [Bots -> 0..MaxRetries]
    /\ ready \subseteq Bots
    /\ todo \subseteq Bots
    /\ cur \in Bots \cup {None}
    /\ target \in Runners \cup {None}
    /\ pending \in Statuses \cup {None}
    /\ dirty \in [Bots -> Statuses \cup {None}]
    /\ locked \subseteq Bots
    /\ rpc \in [Runners -> RunnerPcs]
    /\ rbot \in [Runners -> Bots \cup {None}]
    /\ rsaw \in [Runners -> Statuses \cup {None}]
    /\ rcode \in [Runners -> {0, 1}]
    /\ orphan \in [Runners -> BOOLEAN]
    /\ request \in [Requests -> (Bots \X Statuses) \cup {None}]
    /\ faults \in Nat
    /\ unsaved \subseteq Bots

Init ==
    /\ row \in [Bots -> Statuses]
    /\ mode \in Modes
    /\ wpc = "off"
    /\ running = [b \in Bots |-> None]
    /\ retries = [b \in Bots |-> 0]
    /\ ready = {} /\ todo = {} /\ cur = None /\ target = None /\ pending = None
    /\ dirty = [b \in Bots |-> None]
    /\ locked = {}
    /\ rpc = [r \in Runners |-> "dead"]
    /\ rbot = [r \in Runners |-> None]
    /\ rsaw = [r \in Runners |-> None]
    /\ rcode = [r \in Runners |-> 0]
    /\ orphan = [r \in Runners |-> FALSE]
    /\ request = [q \in Requests |-> None]
    /\ faults = 0
    /\ unsaved = {}

-----------------------------------------------------------------------------
Live(r) == rpc[r] # "dead"

\* A task is registered until its finally block, a process until it is dead.
Holds(r) == rpc[r] \in {"boot", "booting", "work", "failing", "failed"}
            \/ (mode = "subprocess" /\ Live(r))

\* The end of a runner.  The exit code of a process that this worker started is
\* still to be collected.
Buried(r, code) ==
    /\ rcode' = [rcode EXCEPT ![r] = IF mode = "subprocess" /\ ~orphan[r] THEN code ELSE 0]
    /\ rpc' = [rpc EXCEPT ![r] = "dead"]
    /\ rbot' = [rbot EXCEPT ![r] = None]
    /\ rsaw' = [rsaw EXCEPT ![r] = None]
    /\ orphan' = [orphan EXCEPT ![r] = FALSE]

Goto(pc) == wpc' = pc
Unreferenced(r) == r # target /\ \A b \in Bots : running[b] # r

\* The row is set to the status `to' by a session that read `saw'.
Written(b, saw, to) == IF saw = to THEN row ELSE [row EXCEPT ![b] = to]

-----------------------------------------------------------------------------
(* The routes of the API: read, check, and write when the session commits.  *)

ApiStart(q, b) ==
    /\ request[q] = None
    /\ row[b] \notin {"running", "start_requested"}
    /\ request' = [request EXCEPT ![q] = <<b, "start_requested">>]
    /\ UNCHANGED <<dbVars, workerVars, runnerVars, faults, unsaved>>

ApiStop(q, b) ==
    /\ request[q] = None
    /\ \/ /\ row[b] \in {"running", "start_requested"}
          /\ request' = [request EXCEPT ![q] = <<b, "stop_requested">>]
       \/ /\ row[b] \in {"error", "stop_requested"}
          /\ request' = [request EXCEPT ![q] = <<b, "stopped">>]
    /\ UNCHANGED <<dbVars, workerVars, runnerVars, faults, unsaved>>

\* The commit of the request, or its failure.
ApiEnds(q) ==
    /\ request[q] # None
    /\ \/ /\ request[q][1] \notin locked
          /\ row' = [row EXCEPT ![request[q][1]] = request[q][2]]
       \/ UNCHANGED row
    /\ request' = [request EXCEPT ![q] = None]
    /\ UNCHANGED <<dirty, locked, workerVars, runnerVars, faults, unsaved>>

-----------------------------------------------------------------------------
(* The worker's loop *)

\* run(): the accounts are provisioned, as far as their logins succeed, and
\* what ran before asks for a start again.
Boot ==
    /\ wpc = "off"
    /\ Goto("idle")
    /\ \E accounts \in SUBSET Bots : ready' = accounts
    /\ row' = [b \in Bots |-> IF row[b] = "running" THEN "start_requested" ELSE row[b]]
    /\ UNCHANGED <<dirty, locked, mode, running, retries, todo, cur, target, pending,
                   runnerVars, request, faults, unsaved>>

\* _check_subprocess_health takes note of the processes that have exited.
PollBegins ==
    /\ wpc = "idle"
    /\ Goto("health")
    /\ todo' = IF mode = "subprocess"
               THEN {b \in Bots : running[b] # None /\ ~Live(running[b])} ELSE {}
    /\ UNCHANGED <<dbVars, mode, running, retries, ready, cur, target, pending,
                   runnerVars, request, faults, unsaved>>

\* A dead process loses its entry first, then its row is looked at.
HealthTakes(b) ==
    /\ wpc = "health" /\ b \in todo
    /\ LET again == rcode[running[b]] # 0 /\ retries[b] < MaxRetries
       IN /\ retries' = [retries EXCEPT ![b] = IF again THEN @ + 1 ELSE 0]
          /\ pending' = IF again THEN "start_requested"
                        ELSE IF rcode[running[b]] # 0 THEN "error" ELSE "stopped"
    /\ running' = [running EXCEPT ![b] = None]
    /\ rcode' = [rcode EXCEPT ![running[b]] = 0]
    /\ todo' = todo \ {b}
    /\ cur' = b
    /\ Goto("noted")
    /\ UNCHANGED <<dbVars, mode, ready, target, rpc, rbot, rsaw, orphan,
                   request, faults, unsaved>>

\* Mutant: only a row that will be restarted is written.
HealthReadsCrashed ==
    /\ wpc = "noted"
    /\ IF row[cur] = "running" /\ pending = "start_requested"
       THEN Goto("settle") /\ UNCHANGED <<cur, pending>>
       ELSE Goto("health") /\ cur' = None /\ pending' = None
    /\ UNCHANGED <<dbVars, mode, running, retries, ready, todo, target,
                   runnerVars, request, faults, unsaved>>

HealthReads ==
    /\ wpc = "noted"
    /\ IF row[cur] = "running"
       THEN Goto("settle") /\ UNCHANGED <<cur, pending>>
       ELSE Goto("health") /\ cur' = None /\ pending' = None
    /\ UNCHANGED <<dbVars, mode, running, retries, ready, todo, target,
                   runnerVars, request, faults, unsaved>>

HealthCommits ==
    /\ wpc = "settle"
    /\ row' = [row EXCEPT ![cur] = pending]
    /\ Goto("health") /\ cur' = None /\ pending' = None
    /\ UNCHANGED <<dirty, locked, mode, running, retries, ready, todo, target,
                   runnerVars, request, faults, unsaved>>

\* The session fails; the exception is only logged.
HealthFails ==
    /\ wpc \in {"noted", "settle"}
    /\ unsaved' = unsaved \cup {cur}
    /\ Goto("health") /\ cur' = None /\ pending' = None
    /\ UNCHANGED <<dbVars, mode, running, retries, ready, todo, target,
                   runnerVars, request, faults>>

SelectStarts ==
    /\ wpc = "health" /\ todo = {}
    /\ todo' = {b \in Bots : row[b] = "start_requested"}
    /\ Goto("starts")
    /\ UNCHANGED <<dbVars, mode, running, retries, ready, cur, target, pending,
                   runnerVars, request, faults, unsaved>>

Registered == {b \in Bots : running[b] # None}

SkipRegistered(b) ==
    /\ wpc = "starts" /\ b \in todo /\ running[b] # None
    /\ todo' = todo \ {b}
    /\ UNCHANGED <<dbVars, mode, wpc, running, retries, ready, cur, target, pending,
                   runnerVars, request, faults, unsaved>>

\* At capacity, or the stored password is missing or cannot be decrypted.
StartRefused(b) ==
    /\ wpc = "starts" /\ b \in todo /\ running[b] = None
    /\ dirty' = [dirty EXCEPT ![b] = "error"]
    /\ todo' = todo \ {b}
    /\ UNCHANGED <<row, locked, mode, wpc, running, retries, ready, cur, target, pending,
                   runnerVars, request, faults, unsaved>>

\* Mutant: a registered bot is started again.
StartLogsInTwice(b) ==
    /\ wpc = "starts" /\ b \in todo
    /\ cur' = b
    /\ todo' = todo \ {b}
    /\ Goto("login")
    /\ UNCHANGED <<dbVars, mode, running, retries, ready, target, pending,
                   runnerVars, request, faults, unsaved>>

\* ensure_account_ready, which returns at once for a connected instance.
StartLogsIn(b) ==
    /\ wpc = "starts" /\ b \in todo /\ running[b] = None
    /\ Cardinality(Registered) < MaxBots
    /\ cur' = b
    /\ todo' = todo \ {b}
    /\ Goto("login")
    /\ UNCHANGED <<dbVars, mode, running, retries, ready, target, pending,
                   runnerVars, request, faults, unsaved>>

LoginFails ==
    /\ wpc = "login" /\ cur \notin ready
    /\ dirty' = [dirty EXCEPT ![cur] = "error"]
    /\ cur' = None
    /\ Goto("starts")
    /\ UNCHANGED <<row, locked, mode, running, retries, ready, todo, target, pending,
                   runnerVars, request, faults, unsaved>>

\* The row becomes running in the session, and the runner exists.
Spawn(r) ==
    /\ wpc = "login"
    /\ ~Live(r) /\ Unreferenced(r)
    /\ ready' = ready \cup {cur}
    /\ dirty' = [dirty EXCEPT ![cur] = "running"]
    /\ running' = [running EXCEPT ![cur] = r]
    /\ rpc' = [rpc EXCEPT ![r] = IF mode = "subprocess" THEN "boot" ELSE "work"]
    /\ rbot' = [rbot EXCEPT ![r] = cur]
    /\ rsaw' = [rsaw EXCEPT ![r] = None]
    /\ orphan' = [orphan EXCEPT ![r] = FALSE]
    /\ unsaved' = IF \E q \in Runners : orphan[q] /\ rbot[q] = cur THEN unsaved
                  ELSE unsaved \ {cur}
    /\ cur' = None
    /\ Goto("starts")
    /\ UNCHANGED <<row, locked, mode, retries, todo, target, pending,
                   rcode, request, faults>>

\* The second select of the session first writes what the first loop has set,
\* over whatever the rows say by now.
SelectStops ==
    /\ wpc = "starts" /\ todo = {}
    /\ locked' = {b \in Bots : dirty[b] # None}
    /\ todo' = {b \in Bots : dirty[b] = None /\ row[b] = "stop_requested"}
    /\ Goto("stops")
    /\ UNCHANGED <<row, dirty, mode, running, retries, ready, cur, target, pending,
                   runnerVars, request, faults, unsaved>>

\* _stop_bot once nothing of the bot is left to wait for.
Settled(b) ==
    /\ running' = [running EXCEPT ![b] = None]
    /\ retries' = [retries EXCEPT ![b] = 0]

StopUnregistered(b) ==
    /\ wpc = "stops" /\ b \in todo /\ running[b] = None
    /\ Settled(b)
    /\ dirty' = [dirty EXCEPT ![b] = "stopped"]
    /\ todo' = todo \ {b}
    /\ UNCHANGED <<row, locked, mode, wpc, ready, cur, target, pending,
                   runnerVars, request, faults, unsaved>>

\* What terminate() or cancel() does to a runner.  A process dies at once on
\* Windows; elsewhere it is signalled and returns when it can.  A cancellation
\* is swallowed by a poll cycle (bridge.py:315-327), or ends the bridge, or
\* cuts a later await short.
Terminate(r) ==
    \/ /\ mode = "subprocess"
       /\ UNCHANGED <<runnerVars, running>>
    \/ /\ mode = "subprocess" /\ Live(r)
       /\ Buried(r, 1)
       /\ UNCHANGED running
    \/ /\ mode = "task" /\ rpc[r] = "work"
       /\ UNCHANGED <<runnerVars, running>>
    \/ /\ mode = "task" /\ rpc[r] \in {"work", "failing", "failed"}
       /\ rpc' = [rpc EXCEPT ![r] = "final"]
       /\ running' = [running EXCEPT ![rbot[r]] = None]
       /\ UNCHANGED <<rbot, rsaw, rcode, orphan>>
    \/ /\ mode = "task" /\ rpc[r] \in {"final", "finishing"}
       /\ Buried(r, 1)
       /\ UNCHANGED running

StopTerminates(b) ==
    /\ wpc = "stops" /\ b \in todo /\ running[b] # None
    /\ Terminate(running[b])
    /\ target' = running[b]
    /\ cur' = b
    /\ todo' = todo \ {b}
    /\ Goto("closing")
    /\ UNCHANGED <<dbVars, mode, retries, ready, pending, request, faults, unsaved>>

\* Mutant: a process that does not react is not killed.
WaitTimesOutGently ==
    /\ wpc \in {"closing", "shutClosing"} /\ Live(target)
    /\ Terminate(target)
    /\ Goto(IF wpc = "closing" THEN "killed" ELSE "shutKilled")
    /\ UNCHANGED <<dbVars, mode, retries, ready, todo, cur, target, pending,
                   request, faults, unsaved>>

\* After ten seconds: kill(), or the cancellation by wait_for.  Either then
\* waits for the end of the runner without a limit.
WaitTimesOut ==
    /\ wpc \in {"closing", "shutClosing"} /\ Live(target)
    /\ \/ mode = "subprocess" /\ Buried(target, 1) /\ UNCHANGED running
       \/ mode = "task" /\ Terminate(target)
    /\ Goto(IF wpc = "closing" THEN "killed" ELSE "shutKilled")
    /\ UNCHANGED <<dbVars, mode, retries, ready, todo, cur, target, pending,
                   request, faults, unsaved>>

\* Mutant: the stop does not wait for the runner.
StopWaitedShortly ==
    /\ wpc \in {"closing", "killed"}
    /\ Settled(cur)
    /\ rcode' = [rcode EXCEPT ![target] = 0]
    /\ dirty' = [dirty EXCEPT ![cur] = "stopped"]
    /\ cur' = None /\ target' = None
    /\ Goto("stops")
    /\ UNCHANGED <<row, locked, mode, ready, todo, pending,
                   rpc, rbot, rsaw, orphan, request, faults, unsaved>>

StopWaited ==
    /\ wpc \in {"closing", "killed"} /\ ~Live(target)
    /\ Settled(cur)
    /\ rcode' = [rcode EXCEPT ![target] = 0]
    /\ dirty' = [dirty EXCEPT ![cur] = "stopped"]
    /\ cur' = None /\ target' = None
    /\ Goto("stops")
    /\ UNCHANGED <<row, locked, mode, ready, todo, pending,
                   rpc, rbot, rsaw, orphan, request, faults, unsaved>>

NoDirt == [b \in Bots |-> None]

PollCommits ==
    /\ wpc = "stops" /\ todo = {}
    /\ row' = [b \in Bots |-> IF dirty[b] = None THEN row[b] ELSE dirty[b]]
    /\ dirty' = NoDirt /\ locked' = {}
    /\ Goto("idle")
    /\ UNCHANGED <<mode, running, retries, ready, todo, cur, target, pending,
                   runnerVars, request, faults, unsaved>>

\* An exception anywhere in the session: rolled back, logged by run(), and
\* what was spawned or stopped stays so.
PollFails ==
    /\ wpc \in {"starts", "login", "stops"} /\ faults < MaxFaults
    /\ faults' = faults + 1
    /\ unsaved' = unsaved \cup {b \in Bots : dirty[b] = "stopped"}
    /\ dirty' = NoDirt /\ locked' = {}
    /\ todo' = {} /\ cur' = None
    /\ Goto("idle")
    /\ UNCHANGED <<row, mode, running, retries, ready, target, pending,
                   runnerVars, request>>

-----------------------------------------------------------------------------
(* The end of the worker *)

ShutBegins ==
    /\ wpc = "idle"
    /\ todo' = Registered
    /\ Goto("shut")
    /\ UNCHANGED <<dbVars, mode, running, retries, ready, cur, target, pending,
                   runnerVars, request, faults, unsaved>>

\* An entry stays in _running: only the process goes.
ShutTerminates(b) ==
    /\ wpc = "shut" /\ b \in todo
    /\ todo' = todo \ {b}
    /\ IF running[b] = None
       THEN UNCHANGED <<running, target, wpc, runnerVars>>
       ELSE Terminate(running[b]) /\ target' = running[b] /\ Goto("shutClosing")
    /\ UNCHANGED <<dbVars, mode, retries, ready, cur, pending, request, faults, unsaved>>

ShutWaited ==
    /\ wpc \in {"shutClosing", "shutKilled"} /\ ~Live(target)
    /\ target' = None
    /\ Goto("shut")
    /\ UNCHANGED <<dbVars, mode, running, retries, ready, todo, cur, pending,
                   runnerVars, request, faults, unsaved>>

ShutReads ==
    /\ wpc = "shut" /\ todo = {}
    /\ todo' = {b \in Bots : row[b] \in {"running", "start_requested"}}
    /\ Goto("shutRows")
    /\ UNCHANGED <<dbVars, mode, running, retries, ready, cur, target, pending,
                   runnerVars, request, faults, unsaved>>

\* What a process loses when it ends.
Forgotten ==
    /\ running' = [b \in Bots |-> None]
    /\ retries' = [b \in Bots |-> 0]
    /\ ready' = {} /\ todo' = {} /\ cur' = None /\ target' = None /\ pending' = None
    /\ dirty' = NoDirt /\ locked' = {}
    /\ Goto("off")

\* Nobody collects a process any more; the tasks end with the loop.
LeftBehind ==
    /\ rcode' = [r \in Runners |-> 0]
    /\ IF mode = "task"
       THEN /\ rpc' = [r \in Runners |-> "dead"]
            /\ rbot' = [r \in Runners |-> None]
            /\ rsaw' = [r \in Runners |-> None]
            /\ UNCHANGED orphan
       ELSE /\ orphan' = [r \in Runners |-> Live(r)]
            /\ UNCHANGED <<rpc, rbot, rsaw>>

ShutDone ==
    /\ wpc = "shutRows"
    /\ \/ row' = [b \in Bots |-> IF b \in todo THEN "stopped" ELSE row[b]]
       \/ UNCHANGED row
    /\ Forgotten
    /\ LeftBehind
    /\ UNCHANGED <<mode, request, faults, unsaved>>

\* The worker process is killed.  Its subprocesses live on.
Crash ==
    /\ wpc # "off" /\ faults < MaxFaults
    /\ faults' = faults + 1
    /\ unsaved' = Bots
    /\ Forgotten
    /\ LeftBehind
    /\ UNCHANGED <<row, mode, request>>

-----------------------------------------------------------------------------
(* The runner.  A subprocess first writes running over what its row says.   *)

RunnerReads(r) ==
    /\ rpc[r] = "boot"
    /\ rsaw' = [rsaw EXCEPT ![r] = row[rbot[r]]]
    /\ rpc' = [rpc EXCEPT ![r] = "booting"]
    /\ UNCHANGED <<dbVars, workerVars, rbot, rcode, orphan, request, faults, unsaved>>

RunnerStarts(r) ==
    /\ rpc[r] = "booting"
    /\ rpc' = [rpc EXCEPT ![r] = "work"]
    /\ rsaw' = [rsaw EXCEPT ![r] = None]
    /\ \/ rbot[r] \notin locked /\ row' = Written(rbot[r], rsaw[r], "running")
       \/ UNCHANGED row
    /\ UNCHANGED <<dirty, locked, workerVars, rbot, rcode, orphan, request, faults, unsaved>>

\* bridge.run() returns after a signal, or when it finds too few bars
\* (bridge.py:276-278), or when a cancellation ends it.
RunnerReturns(r) ==
    /\ rpc[r] = "work"
    /\ rpc' = [rpc EXCEPT ![r] = "final"]
    /\ running' = IF mode = "task" THEN [running EXCEPT ![rbot[r]] = None] ELSE running
    /\ UNCHANGED <<dbVars, mode, wpc, retries, ready, todo, cur, target, pending,
                   rbot, rsaw, rcode, orphan, request, faults, unsaved>>

\* bridge.run() raises: the row is read, to become error.
RunnerRaises(r) ==
    /\ rpc[r] = "work"
    /\ rpc' = [rpc EXCEPT ![r] = "failing"]
    /\ UNCHANGED <<dbVars, workerVars, rbot, rsaw, rcode, orphan, request, faults, unsaved>>

RunnerReadsToFail(r) ==
    /\ rpc[r] = "failing"
    /\ rsaw' = [rsaw EXCEPT ![r] = row[rbot[r]]]
    /\ rpc' = [rpc EXCEPT ![r] = "failed"]
    /\ UNCHANGED <<dbVars, workerVars, rbot, rcode, orphan, request, faults, unsaved>>

\* The error is written, or not.  A subprocess has then ended, and an exception
\* without a message leaves it writing stopped over running
\* (bot_runner.py:159-163); a task still has its finally block before it.
RunnerFails(r) ==
    /\ rpc[r] = "failed"
    /\ \/ rbot[r] \notin locked /\ row' = Written(rbot[r], rsaw[r], "error")
       \/ /\ mode = "subprocess" /\ rsaw[r] = "running" /\ rbot[r] \notin locked
          /\ row' = [row EXCEPT ![rbot[r]] = "stopped"]
       \/ UNCHANGED row
    /\ IF mode = "task"
       THEN /\ rpc' = [rpc EXCEPT ![r] = "final"]
            /\ rsaw' = [rsaw EXCEPT ![r] = None]
            /\ running' = [running EXCEPT ![rbot[r]] = None]
            /\ UNCHANGED <<rbot, rcode, orphan>>
       ELSE Buried(r, 1) /\ UNCHANGED running
    /\ UNCHANGED <<dirty, locked, mode, wpc, retries, ready, todo, cur, target, pending,
                   request, faults, unsaved>>

RunnerReadsToEnd(r) ==
    /\ rpc[r] = "final"
    /\ rsaw' = [rsaw EXCEPT ![r] = row[rbot[r]]]
    /\ rpc' = [rpc EXCEPT ![r] = "finishing"]
    /\ UNCHANGED <<dbVars, workerVars, rbot, rcode, orphan, request, faults, unsaved>>

\* A row that said running becomes stopped, unless the write fails.
RunnerFinishes(r) ==
    /\ rpc[r] = "finishing"
    /\ \/ /\ rsaw[r] = "running" /\ rbot[r] \notin locked
          /\ row' = [row EXCEPT ![rbot[r]] = "stopped"]
       \/ UNCHANGED row
    /\ Buried(r, 0)
    /\ UNCHANGED <<dirty, locked, workerVars, request, faults, unsaved>>

\* The process of a runner is killed.
RunnerKilled(r) ==
    /\ mode = "subprocess" /\ Live(r)
    /\ Buried(r, 1)
    /\ UNCHANGED <<dbVars, workerVars, request, faults, unsaved>>

-----------------------------------------------------------------------------
Poll ==
    \/ PollBegins \/ HealthReads \/ HealthCommits \/ HealthFails
    \/ SelectStarts \/ LoginFails \/ SelectStops
    \/ WaitTimesOut \/ StopWaited \/ PollCommits \/ PollFails
    \/ \E b \in Bots : \/ HealthTakes(b) \/ SkipRegistered(b) \/ StartRefused(b)
                       \/ StartLogsIn(b) \/ StopUnregistered(b) \/ StopTerminates(b)
    \/ \E r \in Runners : Spawn(r)

Shutdown ==
    \/ WaitTimesOut \/ ShutWaited \/ ShutReads \/ ShutDone
    \/ \E b \in Bots : ShutTerminates(b)

RunnerSteps(r) ==
    \/ RunnerReads(r) \/ RunnerStarts(r) \/ RunnerReturns(r)
    \/ RunnerRaises(r) \/ RunnerReadsToFail(r) \/ RunnerFails(r)
    \/ RunnerReadsToEnd(r) \/ RunnerFinishes(r) \/ RunnerKilled(r)

Api == \E q \in Requests : \/ ApiEnds(q)
                           \/ \E b \in Bots : ApiStart(q, b) \/ ApiStop(q, b)

Next ==
    \/ Boot \/ Poll \/ ShutBegins \/ Shutdown \/ Crash \/ Api
    \/ \E r \in Runners : RunnerSteps(r)

\* The worker's loop goes on.  Nothing makes a user press a button, restarts the
\* worker, or lets a bridge return; a write of the health check may fail any
\* number of times, the session of a poll as often as MaxFaults says.
Spec == Init /\ [][Next]_vars /\ WF_vars(Poll) /\ WF_vars(Shutdown)

-----------------------------------------------------------------------------
(* Properties *)

\* Every runner of this life of the worker that still holds its bot is the one
\* registered for it: no bot has two, and each can be stopped (_running,
\* main.py:140-149, 250-283, 343-345, 401).
LiveIsTracked ==
    \A r \in Runners : Holds(r) /\ ~orphan[r] => running[rbot[r]] = r

\* When the worker is about to write stopped, for one bot after a stop or for
\* all of them at its own shutdown, nothing of this life of the worker runs
\* the bot any more (main.py:253-283, 436-468).
StoppedMeansDead ==
    \A r \in Runners :
        Holds(r) /\ ~orphan[r] => dirty[rbot[r]] # "stopped" /\ wpc # "shutRows"

Runs(b) == \E r \in Runners : rbot[r] = b
RunsHere(b) == \E r \in Runners : rbot[r] = b /\ ~orphan[r]

\* With subprocesses a stop that a poll has selected is carried out: the row
\* comes to say stopped with no runner of this worker left, whatever the runner,
\* the users and the other bots do meanwhile, unless that poll fails or the
\* worker is killed.  A request that is overwritten before the poll selects it
\* is lost, which StopPickedUp shows (main.py:132-160, 250-283).
StopServed ==
    \A b \in Bots, n \in 0..MaxFaults :
        mode = "subprocess" /\ wpc = "stops" /\ b \in todo /\ faults = n
            ~> (row[b] = "stopped" /\ ~RunsHere(b)) \/ faults # n

\* With subprocesses a row that says running while nothing runs the bot is put
\* right, also when the bot dies again after each restart, unless since its last
\* start the write that would have done it failed, or a killed worker left a
\* process of the bot behind (main.py:390-434).
DeadRowResolved ==
    \A b \in Bots :
        mode = "subprocess" /\ row[b] = "running" /\ ~Runs(b)
            ~> row[b] # "running" \/ Runs(b) \/ b \in unsaved \/ wpc = "off"

\* The comment on the stop route (api/routers/bots.py:367): a stop request is
\* picked up by the worker.  It is not when, without a new request of a user,
\* the runner that boots, the flush of a poll or a health check overwrites it.
StopPickedUp ==
    [][\A b \in Bots :
          row[b] = "stop_requested" /\ row'[b] # "stop_requested" /\ request' = request
              => row'[b] \in {"stopped", "error"} /\ ~RunsHere(b)]_vars
=============================================================================
