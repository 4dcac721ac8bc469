---------------------------- MODULE WorkerProofs ----------------------------
(***************************************************************************)
(* Type correctness of Worker, that the worker has every runner of its own *)
(* registered, that it writes stopped only when the runner is dead, that   *)
(* it never runs more bots than it may, and that its polls come to an end. *)
(***************************************************************************)
EXTENDS Worker, FiniteSetTheorems, TLAPS

Waits == {"closing", "killed"}
ShutWaits == {"shutClosing", "shutKilled"}

\* A runner has a bot; a task dies with its worker.
RunnersOwned ==
    /\ \A r \in Runners : Live(r) => rbot[r] \in Bots
    /\ mode = "task" => \A r \in Runners : ~orphan[r]

\* What the loop is at is known.
LoopTypeOK ==
    /\ wpc \in Waits \cup {"noted", "settle", "login"} => cur \in Bots
    /\ wpc \in {"noted", "settle"} => pending \in Statuses
    /\ wpc \in Waits \cup ShutWaits => target \in Runners
    /\ \A q \in Requests : request[q] # None => request[q] \in Bots \X Statuses

\* The part of WorkerTypeOK that is about runners.
RunnerTypeOK ==
    /\ rpc \in [Runners -> RunnerPcs]
    /\ rbot \in [Runners -> Bots \cup {None}]
    /\ rsaw \in [Runners -> Statuses \cup {None}]
    /\ rcode \in [Runners -> {0, 1}]
    /\ orphan \in [Runners -> BOOLEAN]

TypeInv == WorkerTypeOK /\ RunnersOwned /\ LoopTypeOK

\* A health check only takes dead processes from the register.
HealthIsOfDead ==
    wpc \in {"health", "noted", "settle"} =>
        \A b \in todo : running[b] \in Runners /\ ~Live(running[b])

\* A login is for a bot that has no entry.
LoginIsFree == wpc = "login" => running[cur] = None

\* A stop waits for the runner that was registered.
WaitIsForEntry == wpc \in Waits => running[cur] \in {target, None}

\* What a shutdown has been through is dead.
ShutIsOfRest ==
    /\ wpc \in {"shut", "shutRows"} =>
           \A b \in Bots : running[b] # None /\ (b \notin todo \/ wpc = "shutRows")
                               => ~Live(running[b])
    /\ wpc \in ShutWaits =>
           \A b \in Bots : running[b] # None /\ b \notin todo
                               => running[b] = target \/ ~Live(running[b])

\* Stopped stands in the session for bots without an entry.
StoppedHasNoEntry ==
    \A b \in Bots : dirty[b] = "stopped" =>
        running[b] = None /\ wpc \in Waits \cup {"stops"}

RegisterInv ==
    /\ LiveIsTracked
    /\ HealthIsOfDead
    /\ LoginIsFree
    /\ WaitIsForEntry
    /\ ShutIsOfRest
    /\ StoppedHasNoEntry

WorkerInv == TypeInv /\ RegisterInv

\* It holds before the worker has booted.
LEMMA InitWorker == Init => WorkerInv
<1> SUFFICES ASSUME Init PROVE WorkerInv
    OBVIOUS
<1> USE WorkerAssumption DEF Init
<1>1. WorkerTypeOK
    <2>1. retries \in [Bots -> 0..MaxRetries] /\ faults \in Nat
        OBVIOUS
    <2>2. RunnerTypeOK
        BY DEF RunnerTypeOK, RunnerPcs
    <2> QED
        BY <2>1, <2>2 DEF WorkerTypeOK, RunnerTypeOK, Statuses, WorkerPcs
<1>2. RunnersOwned /\ LoopTypeOK
    BY DEF WorkerTypeOK, RunnersOwned, LoopTypeOK, Live, Statuses, WorkerPcs, RunnerPcs, Waits, ShutWaits,
       dbVars, workerVars, runnerVars
<1>3. /\ LiveIsTracked /\ HealthIsOfDead /\ LoginIsFree /\ WaitIsForEntry
      /\ ShutIsOfRest /\ StoppedHasNoEntry
    BY DEF LiveIsTracked, Holds, Live, HealthIsOfDead, LoginIsFree,
       WaitIsForEntry, Waits, ShutIsOfRest, ShutWaits, StoppedHasNoEntry, Statuses
<1> QED
    BY <1>1, <1>2, <1>3 DEF WorkerInv, TypeInv, RegisterInv

-----------------------------------------------------------------------------
\* What ends a runner keeps the types of the runners and revives none.
LEMMA BuriedType ==
  ASSUME TypeInv, NEW r \in Runners, Buried(r, 1)
  PROVE  /\ RunnerTypeOK'
         /\ \A s \in Runners : rpc'[s] # "dead" => rpc[s] # "dead" /\ rbot'[s] = rbot[s]
         /\ \A s \in Runners : ~orphan[s] => ~orphan'[s]
BY WorkerAssumption DEF TypeInv, Buried, RunnerTypeOK, WorkerTypeOK, RunnersOwned, LoopTypeOK, Live, Statuses, WorkerPcs, RunnerPcs, Waits, ShutWaits,
       dbVars, workerVars, runnerVars

\* The same of what a stop does to a runner.
LEMMA TerminateType ==
  ASSUME TypeInv, NEW r \in Runners, Terminate(r)
  PROVE  /\ RunnerTypeOK'
         /\ running' \in [Bots -> Runners \cup {None}]
         /\ \A s \in Runners : rpc'[s] # "dead" => rpc[s] # "dead" /\ rbot'[s] = rbot[s]
         /\ \A s \in Runners : ~orphan[s] => ~orphan'[s]
<1>1. CASE UNCHANGED <<runnerVars, running>>
    BY <1>1 DEF TypeInv, RunnerTypeOK, WorkerTypeOK, RunnersOwned, LoopTypeOK, Live, Statuses, WorkerPcs, RunnerPcs, Waits, ShutWaits,
       dbVars, workerVars, runnerVars
<1>2. CASE Buried(r, 1) /\ UNCHANGED running
    BY <1>2, BuriedType DEF TypeInv, WorkerTypeOK
<1>3. CASE /\ mode = "task" /\ rpc[r] \in {"work", "failing", "failed"}
           /\ rpc' = [rpc EXCEPT ![r] = "final"]
           /\ running' = [running EXCEPT ![rbot[r]] = None]
           /\ UNCHANGED <<rbot, rsaw, rcode, orphan>>
    BY <1>3 DEF TypeInv, RunnerTypeOK, WorkerTypeOK, RunnersOwned, LoopTypeOK, Live, Statuses, WorkerPcs, RunnerPcs, Waits, ShutWaits,
       dbVars, workerVars, runnerVars
<1> QED
    BY <1>1, <1>2, <1>3 DEF Terminate

\* The same of the end of the worker.
LEMMA LeftBehindType ==
  ASSUME TypeInv, LeftBehind, UNCHANGED mode
  PROVE  RunnerTypeOK' /\ RunnersOwned'
<1>1. CASE mode = "task"
    BY <1>1 DEF LeftBehind, TypeInv, RunnerTypeOK, WorkerTypeOK, RunnersOwned, LoopTypeOK, Live, Statuses, WorkerPcs, RunnerPcs, Waits, ShutWaits,
       dbVars, workerVars, runnerVars
<1>2. CASE mode # "task"
    <2>1. /\ orphan' = [r \in Runners |-> Live(r)] /\ UNCHANGED <<rpc, rbot, rsaw>>
          /\ rcode' = [r \in Runners |-> 0]
        BY <1>2 DEF LeftBehind
    <2>2. \A r \in Runners : Live(r) \in BOOLEAN
        BY DEF Live
    <2>3. orphan' \in [Runners -> BOOLEAN]
        BY <2>1, <2>2
    <2> QED
        BY <1>2, <2>1, <2>3 DEF TypeInv, RunnerTypeOK, WorkerTypeOK, RunnersOwned, LoopTypeOK, Live, Statuses, WorkerPcs, RunnerPcs, Waits, ShutWaits,
       dbVars, workerVars, runnerVars
<1> QED
    BY <1>1, <1>2

\* Every step keeps the types, the owners of the runners and what the loop is at.
LEMMA TypeStep == TypeInv /\ [Next]_vars => TypeInv'
<1> SUFFICES ASSUME TypeInv, [Next]_vars PROVE TypeInv'
    OBVIOUS
<1> USE DEF TypeInv, WorkerTypeOK, RunnersOwned, LoopTypeOK, Live, Statuses, WorkerPcs, RunnerPcs, Waits, ShutWaits,
       dbVars, workerVars, runnerVars
<1>1. CASE Boot
    BY <1>1, WorkerAssumption DEF Boot, Goto
<1>2. CASE PollBegins
    BY <1>2, WorkerAssumption DEF PollBegins, Goto, Live
<1>3. CASE HealthReads
    BY <1>3, WorkerAssumption DEF HealthReads, Goto
<1>4. CASE HealthCommits
    BY <1>4, WorkerAssumption DEF HealthCommits, Goto
<1>5. CASE HealthFails
    BY <1>5, WorkerAssumption DEF HealthFails, Goto
<1>6. CASE SelectStarts
    BY <1>6, WorkerAssumption DEF SelectStarts, Goto
<1>7. CASE LoginFails
    BY <1>7, WorkerAssumption DEF LoginFails, Goto
<1>8. CASE SelectStops
    BY <1>8, WorkerAssumption DEF SelectStops, Goto
<1>9. CASE WaitTimesOut
    <2>1. target \in Runners /\ wpc \in Waits \cup ShutWaits
        BY <1>9 DEF WaitTimesOut
    <2>2. /\ RunnerTypeOK' /\ running' \in [Bots -> Runners \cup {None}]
          /\ \A s \in Runners : rpc'[s] # "dead" => rpc[s] # "dead" /\ rbot'[s] = rbot[s]
          /\ \A s \in Runners : ~orphan[s] => ~orphan'[s]
        BY <1>9, <2>1, BuriedType, TerminateType DEF WaitTimesOut
    <2> QED
        BY <1>9, <2>1, <2>2 DEF WaitTimesOut, Goto, RunnerTypeOK
<1>10. CASE StopWaited
    BY <1>10, WorkerAssumption DEF StopWaited, Goto, Settled, NoDirt, Live
<1>11. CASE PollCommits
    BY <1>11, WorkerAssumption DEF PollCommits, Goto, NoDirt
<1>12. CASE PollFails
    BY <1>12, WorkerAssumption DEF PollFails, Goto, NoDirt
<1>13. CASE ShutBegins
    BY <1>13, WorkerAssumption DEF ShutBegins, Goto, Registered
<1>14. CASE ShutWaited
    BY <1>14, WorkerAssumption DEF ShutWaited, Goto
<1>15. CASE ShutReads
    BY <1>15, WorkerAssumption DEF ShutReads, Goto
<1>16. CASE ShutDone
    BY <1>16, LeftBehindType, WorkerAssumption
    DEF ShutDone, Forgotten, Goto, NoDirt, RunnerTypeOK
<1>17. CASE Crash
    BY <1>17, LeftBehindType, WorkerAssumption
    DEF Crash, Forgotten, Goto, NoDirt, RunnerTypeOK
<1>18. ASSUME NEW b \in Bots, HealthTakes(b) PROVE TypeInv'
    <2>1. /\ retries' \in [Bots -> 0..MaxRetries] /\ pending' \in Statuses
        BY <1>18, WorkerAssumption DEF HealthTakes
    <2> QED
        BY <1>18, <2>1 DEF HealthTakes, Goto
<1>19. ASSUME NEW b \in Bots, SkipRegistered(b) PROVE TypeInv'
    BY <1>19, WorkerAssumption DEF SkipRegistered, Goto
<1>20. ASSUME NEW b \in Bots, StartRefused(b) PROVE TypeInv'
    BY <1>20, WorkerAssumption DEF StartRefused, Goto
<1>21. ASSUME NEW b \in Bots, StartLogsIn(b) PROVE TypeInv'
    BY <1>21, WorkerAssumption DEF StartLogsIn, Goto
<1>22. ASSUME NEW b \in Bots, StopUnregistered(b) PROVE TypeInv'
    BY <1>22, WorkerAssumption DEF StopUnregistered, Settled
<1>23. ASSUME NEW b \in Bots, StopTerminates(b) PROVE TypeInv'
    <2>1. running[b] \in Runners /\ Terminate(running[b])
        BY <1>23 DEF StopTerminates
    <2> QED
        BY <1>23, <2>1, TerminateType DEF StopTerminates, Goto, RunnerTypeOK
<1>24. ASSUME NEW b \in Bots, ShutTerminates(b) PROVE TypeInv'
    <2>1. CASE running[b] = None
        BY <1>24, <2>1 DEF ShutTerminates
    <2>2. CASE running[b] # None
        <3>1. running[b] \in Runners /\ Terminate(running[b])
            BY <1>24, <2>2 DEF ShutTerminates
        <3> QED
            BY <1>24, <2>2, <3>1, TerminateType DEF ShutTerminates, Goto, RunnerTypeOK
    <2> QED
        BY <2>1, <2>2
<1>25. ASSUME NEW r \in Runners, Spawn(r) PROVE TypeInv'
    BY <1>25, WorkerAssumption DEF Spawn, Goto, Live, Unreferenced
<1>26. ASSUME NEW r \in Runners, RunnerReads(r) PROVE TypeInv'
    BY <1>26, WorkerAssumption DEF RunnerReads
<1>27. ASSUME NEW r \in Runners, RunnerStarts(r) PROVE TypeInv'
    BY <1>27, WorkerAssumption DEF RunnerStarts, Written
<1>28. ASSUME NEW r \in Runners, RunnerReturns(r) PROVE TypeInv'
    BY <1>28, WorkerAssumption DEF RunnerReturns
<1>29. ASSUME NEW r \in Runners, RunnerRaises(r) PROVE TypeInv'
    BY <1>29, WorkerAssumption DEF RunnerRaises
<1>30. ASSUME NEW r \in Runners, RunnerReadsToFail(r) PROVE TypeInv'
    BY <1>30, WorkerAssumption DEF RunnerReadsToFail
<1>31. ASSUME NEW r \in Runners, RunnerFails(r) PROVE TypeInv'
    <2>1. row' \in [Bots -> Statuses]
        BY <1>31 DEF RunnerFails, Written
    <2>2. CASE mode = "task"
        <3>1. /\ rpc' = [rpc EXCEPT ![r] = "final"]
              /\ rsaw' = [rsaw EXCEPT ![r] = None]
              /\ running' = [running EXCEPT ![rbot[r]] = None]
              /\ rpc[r] = "failed"
            BY <1>31, <2>2 DEF RunnerFails
        <3> QED
            BY <1>31, <2>1, <2>2, <3>1 DEF RunnerFails
    <2>3. CASE mode # "task"
        BY <1>31, <2>1, <2>3, BuriedType DEF RunnerFails, RunnerTypeOK
    <2> QED
        BY <2>2, <2>3
<1>32. ASSUME NEW r \in Runners, RunnerReadsToEnd(r) PROVE TypeInv'
    BY <1>32, WorkerAssumption DEF RunnerReadsToEnd
<1>33. ASSUME NEW r \in Runners, RunnerFinishes(r) PROVE TypeInv'
    BY <1>33, WorkerAssumption DEF RunnerFinishes, Buried
<1>34. ASSUME NEW r \in Runners, RunnerKilled(r) PROVE TypeInv'
    BY <1>34, WorkerAssumption DEF RunnerKilled, Buried, Live
<1>35. ASSUME NEW q \in Requests, ApiEnds(q) PROVE TypeInv'
    BY <1>35, WorkerAssumption DEF ApiEnds
<1>36. ASSUME NEW q \in Requests, NEW b \in Bots, ApiStart(q, b) PROVE TypeInv'
    BY <1>36, WorkerAssumption DEF ApiStart
<1>37. ASSUME NEW q \in Requests, NEW b \in Bots, ApiStop(q, b) PROVE TypeInv'
    BY <1>37, WorkerAssumption DEF ApiStop
<1>38. CASE UNCHANGED vars
    BY <1>38 DEF vars
<1> QED
    BY <1>1, <1>2, <1>3, <1>4, <1>5, <1>6, <1>7, <1>8, <1>9, <1>10, <1>11, <1>12, <1>13, <1>14,
       <1>15, <1>16, <1>17, <1>18, <1>19, <1>20, <1>21, <1>22, <1>23, <1>24, <1>25, <1>26, <1>27, <1>28,
       <1>29, <1>30, <1>31, <1>32, <1>33, <1>34, <1>35, <1>36, <1>37, <1>38
    DEF Next, Poll, Shutdown, Api, RunnerSteps

\* Every step keeps the runners in the register.
LEMMA RegisterStep == TypeInv /\ RegisterInv /\ [Next]_vars => RegisterInv'
<1> SUFFICES ASSUME TypeInv, RegisterInv, [Next]_vars PROVE RegisterInv'
    OBVIOUS
<1> USE DEF TypeInv, RegisterInv, LiveIsTracked, Holds, HealthIsOfDead, LoginIsFree, WaitIsForEntry, ShutIsOfRest,
       StoppedHasNoEntry, WorkerTypeOK, RunnersOwned, LoopTypeOK, Live, Statuses, WorkerPcs, RunnerPcs, Waits, ShutWaits,
       dbVars, workerVars, runnerVars
<1>1. CASE Boot
    BY <1>1, WorkerAssumption DEF Boot, Goto
<1>2. CASE PollBegins
    BY <1>2, WorkerAssumption DEF PollBegins, Goto, Live
<1>3. CASE HealthReads
    BY <1>3, WorkerAssumption DEF HealthReads, Goto
<1>4. CASE HealthCommits
    BY <1>4, WorkerAssumption DEF HealthCommits, Goto
<1>5. CASE HealthFails
    BY <1>5, WorkerAssumption DEF HealthFails, Goto
<1>6. CASE SelectStarts
    BY <1>6, WorkerAssumption DEF SelectStarts, Goto
<1>7. CASE LoginFails
    BY <1>7, WorkerAssumption DEF LoginFails, Goto
<1>8. CASE SelectStops
    BY <1>8, WorkerAssumption DEF SelectStops, Goto
<1>9. CASE WaitTimesOut
    BY <1>9, WorkerAssumption DEF WaitTimesOut, Goto, Terminate, Buried, Live
<1>10. CASE StopWaited
    BY <1>10, WorkerAssumption DEF StopWaited, Goto, Settled, NoDirt, Live
<1>11. CASE PollCommits
    BY <1>11, WorkerAssumption DEF PollCommits, Goto, NoDirt
<1>12. CASE PollFails
    BY <1>12, WorkerAssumption DEF PollFails, Goto, NoDirt
<1>13. CASE ShutBegins
    BY <1>13, WorkerAssumption DEF ShutBegins, Goto, Registered
<1>14. CASE ShutWaited
    BY <1>14, WorkerAssumption DEF ShutWaited, Goto
<1>15. CASE ShutReads
    BY <1>15, WorkerAssumption DEF ShutReads, Goto
<1>16. CASE ShutDone
    BY <1>16, WorkerAssumption DEF ShutDone, Forgotten, LeftBehind, Goto, NoDirt, Live
<1>17. CASE Crash
    <2>1. ASSUME NEW r \in Runners, Holds(r)' PROVE orphan'[r]
        <3>1. mode # "task"
            BY <1>17, <2>1 DEF Crash, LeftBehind
        <3>2. orphan' = [s \in Runners |-> Live(s)] /\ rpc' = rpc /\ mode' = mode
            BY <1>17, <3>1 DEF Crash, LeftBehind
        <3>3. Live(r)
            BY <2>1, <3>2
        <3>4. orphan'[r] = Live(r)
            BY <3>2, Zenon
        <3> QED
            BY <3>3, <3>4, Zenon
    <2>2. LiveIsTracked'
        BY <2>1
    <2>3. wpc' = "off" /\ running' = [c \in Bots |-> None] /\ dirty' = [c \in Bots |-> None]
        BY <1>17 DEF Crash, Forgotten, Goto, NoDirt
    <2> QED
        BY <2>2, <2>3, WorkerAssumption
<1>18. ASSUME NEW b \in Bots, HealthTakes(b) PROVE RegisterInv'
    BY <1>18, WorkerAssumption DEF HealthTakes, Goto
<1>19. ASSUME NEW b \in Bots, SkipRegistered(b) PROVE RegisterInv'
    BY <1>19, WorkerAssumption DEF SkipRegistered, Goto
<1>20. ASSUME NEW b \in Bots, StartRefused(b) PROVE RegisterInv'
    BY <1>20, WorkerAssumption DEF StartRefused, Goto
<1>21. ASSUME NEW b \in Bots, StartLogsIn(b) PROVE RegisterInv'
    BY <1>21, WorkerAssumption DEF StartLogsIn, Goto
<1>22. ASSUME NEW b \in Bots, StopUnregistered(b) PROVE RegisterInv'
    BY <1>22, WorkerAssumption DEF StopUnregistered, Settled
<1>23. ASSUME NEW b \in Bots, StopTerminates(b) PROVE RegisterInv'
    BY <1>23, WorkerAssumption DEF StopTerminates, Goto, Terminate, Buried, Live
<1>24. ASSUME NEW b \in Bots, ShutTerminates(b) PROVE RegisterInv'
    BY <1>24, WorkerAssumption DEF ShutTerminates, Goto, Terminate, Buried, Live
<1>25. ASSUME NEW r \in Runners, Spawn(r) PROVE RegisterInv'
    BY <1>25, WorkerAssumption DEF Spawn, Goto, Live, Unreferenced
<1>26. ASSUME NEW r \in Runners, RunnerReads(r) PROVE RegisterInv'
    BY <1>26, WorkerAssumption DEF RunnerReads
<1>27. ASSUME NEW r \in Runners, RunnerStarts(r) PROVE RegisterInv'
    BY <1>27, WorkerAssumption DEF RunnerStarts, Written
<1>28. ASSUME NEW r \in Runners, RunnerReturns(r) PROVE RegisterInv'
    BY <1>28, WorkerAssumption DEF RunnerReturns
<1>29. ASSUME NEW r \in Runners, RunnerRaises(r) PROVE RegisterInv'
    BY <1>29, WorkerAssumption DEF RunnerRaises
<1>30. ASSUME NEW r \in Runners, RunnerReadsToFail(r) PROVE RegisterInv'
    BY <1>30, WorkerAssumption DEF RunnerReadsToFail
<1>31. ASSUME NEW r \in Runners, RunnerFails(r) PROVE RegisterInv'
    BY <1>31, WorkerAssumption DEF RunnerFails, Written, Buried
<1>32. ASSUME NEW r \in Runners, RunnerReadsToEnd(r) PROVE RegisterInv'
    BY <1>32, WorkerAssumption DEF RunnerReadsToEnd
<1>33. ASSUME NEW r \in Runners, RunnerFinishes(r) PROVE RegisterInv'
    BY <1>33, WorkerAssumption DEF RunnerFinishes, Buried
<1>34. ASSUME NEW r \in Runners, RunnerKilled(r) PROVE RegisterInv'
    BY <1>34, WorkerAssumption DEF RunnerKilled, Buried, Live
<1>35. ASSUME NEW q \in Requests, ApiEnds(q) PROVE RegisterInv'
    BY <1>35, WorkerAssumption DEF ApiEnds
<1>36. ASSUME NEW q \in Requests, NEW b \in Bots, ApiStart(q, b) PROVE RegisterInv'
    BY <1>36, WorkerAssumption DEF ApiStart
<1>37. ASSUME NEW q \in Requests, NEW b \in Bots, ApiStop(q, b) PROVE RegisterInv'
    BY <1>37, WorkerAssumption DEF ApiStop
<1>38. CASE UNCHANGED vars
    BY <1>38 DEF vars
<1> QED
    BY <1>1, <1>2, <1>3, <1>4, <1>5, <1>6, <1>7, <1>8, <1>9, <1>10, <1>11, <1>12, <1>13, <1>14,
       <1>15, <1>16, <1>17, <1>18, <1>19, <1>20, <1>21, <1>22, <1>23, <1>24, <1>25, <1>26, <1>27, <1>28,
       <1>29, <1>30, <1>31, <1>32, <1>33, <1>34, <1>35, <1>36, <1>37, <1>38
    DEF Next, Poll, Shutdown, Api, RunnerSteps

-----------------------------------------------------------------------------
\* The invariant behind the theorems holds in every state.
THEOREM WorkerSafety == Spec => []WorkerInv
<1>1. Init => WorkerInv
    BY InitWorker
<1>2. WorkerInv /\ [Next]_vars => WorkerInv'
    BY TypeStep, RegisterStep DEF WorkerInv
<1> QED
    BY <1>1, <1>2, PTL DEF Spec

\* Every variable keeps its type; a bot is restarted after crashes MaxRetries
\* times at most (main.py:404-407).
THEOREM WorkerTypeCorrect == Spec => []WorkerTypeOK
<1>1. WorkerInv => WorkerTypeOK
    BY DEF WorkerInv, TypeInv
<1> QED
    BY <1>1, WorkerSafety, PTL

\* Every runner of this life of the worker is the one registered for its bot.
THEOREM WorkerTracksRunners == Spec => []LiveIsTracked
<1>1. WorkerInv => LiveIsTracked
    BY DEF WorkerInv, RegisterInv
<1> QED
    BY <1>1, WorkerSafety, PTL

\* Hence no bot has two of them.
OneRunnerPerBot ==
    \A r, s \in Runners :
        Holds(r) /\ Holds(s) /\ ~orphan[r] /\ ~orphan[s] /\ rbot[r] = rbot[s] => r = s

\* A bot never has two runners that hold it in one life of the worker.
THEOREM WorkerStartsOnce == Spec => []OneRunnerPerBot
<1>1. LiveIsTracked => OneRunnerPerBot
    BY DEF LiveIsTracked, OneRunnerPerBot
<1> QED
    BY <1>1, WorkerTracksRunners, PTL

\* Stopped is only written, after a stop or at the shutdown of the worker, when
\* nothing holds the bot any more.
THEOREM WorkerStopsBeforeWriting == Spec => []StoppedMeansDead
<1>1. ASSUME WorkerInv PROVE StoppedMeansDead
    <2> SUFFICES ASSUME NEW r \in Runners, Holds(r), ~orphan[r]
                 PROVE  dirty[rbot[r]] # "stopped" /\ wpc # "shutRows"
        BY DEF StoppedMeansDead
    <2>1. rbot[r] \in Bots /\ Live(r)
        BY <1>1 DEF WorkerInv, TypeInv, RunnersOwned, Holds, Live
    <2>2. running[rbot[r]] = r /\ r # None
        BY <1>1, WorkerAssumption DEF WorkerInv, RegisterInv, LiveIsTracked
    <2>3. dirty[rbot[r]] # "stopped"
        BY <1>1, <2>1, <2>2 DEF WorkerInv, RegisterInv, StoppedHasNoEntry
    <2>4. wpc # "shutRows"
        BY <1>1, <2>1, <2>2 DEF WorkerInv, RegisterInv, ShutIsOfRest
    <2> QED
        BY <2>3, <2>4
<1> QED
    BY <1>1, WorkerSafety, PTL

-----------------------------------------------------------------------------
(***************************************************************************)
(* Capacity.  The worker counts its entries before it logs a bot in, and   *)
(* only that login adds one.                                               *)
(***************************************************************************)
CapacityInv ==
    /\ IsFiniteSet(Registered)
    /\ Cardinality(Registered) <= MaxBots
    /\ wpc = "login" => Cardinality(Registered) < MaxBots

\* The runners of this life of the worker that hold a bot.
OwnRunners == {r \in Runners : Holds(r) /\ ~orphan[r]}

WithinCapacity == IsFiniteSet(OwnRunners) /\ Cardinality(OwnRunners) <= MaxBots

LEMMA CapacityInit == Init => CapacityInv
<1> SUFFICES ASSUME Init PROVE CapacityInv
    OBVIOUS
<1>1. Registered = {} /\ wpc # "login"
    BY DEF Init, Registered
<1> QED
    BY <1>1, FS_EmptySet, WorkerAssumption DEF CapacityInv

\* Entries only go.
LEMMA CapacityKept ==
  ASSUME CapacityInv, \A b \in Bots : running'[b] # None => running[b] # None,
         wpc' = "login" => wpc = "login"
  PROVE  CapacityInv'
<1>1. Registered' \subseteq Registered
    BY DEF Registered
<1>2. /\ IsFiniteSet(Registered') /\ Cardinality(Registered') <= Cardinality(Registered)
      /\ Cardinality(Registered) \in Nat /\ Cardinality(Registered') \in Nat
    BY <1>1, FS_Subset, FS_CardinalityType DEF CapacityInv
<1> QED
    BY <1>2, WorkerAssumption DEF CapacityInv

LEMMA CapacityStep == TypeInv /\ LoginIsFree /\ CapacityInv /\ [Next]_vars => CapacityInv'
<1> SUFFICES ASSUME TypeInv, LoginIsFree, CapacityInv, [Next]_vars PROVE CapacityInv'
    OBVIOUS
<1> USE DEF workerVars, runnerVars, Goto
<1>1. ASSUME NEW b \in Bots, StartLogsIn(b) PROVE CapacityInv'
    <2>1. Registered' = Registered
        BY <1>1 DEF StartLogsIn, Registered
    <2> QED
        BY <1>1, <2>1 DEF StartLogsIn, CapacityInv
<1>2. ASSUME NEW r \in Runners, Spawn(r) PROVE CapacityInv'
    <2>1. cur \in Bots /\ wpc = "login" /\ wpc' = "starts" /\ r # None
        BY <1>2, WorkerAssumption DEF Spawn, TypeInv, LoopTypeOK
    <2>2. Registered' = Registered \cup {cur}
        BY <1>2, <2>1 DEF Spawn, Registered, TypeInv, WorkerTypeOK
    <2>3. /\ IsFiniteSet(Registered \cup {cur})
          /\ Cardinality(Registered \cup {cur}) <= Cardinality(Registered) + 1
          /\ Cardinality(Registered) \in Nat
        <3>1. IsFiniteSet(Registered) /\ Cardinality(Registered) \in Nat
            BY FS_CardinalityType DEF CapacityInv
        <3>2. /\ IsFiniteSet(Registered \cup {cur})
              /\ Cardinality(Registered \cup {cur})
                     = IF cur \in Registered THEN Cardinality(Registered)
                       ELSE Cardinality(Registered) + 1
            BY <3>1, FS_AddElement
        <3> QED
            BY <3>1, <3>2
    <2>4. Cardinality(Registered') \in Nat
        BY <2>2, <2>3, FS_CardinalityType
    <2> QED
        BY <2>1, <2>2, <2>3, <2>4, WorkerAssumption DEF CapacityInv
<1>3. CASE \/ UNCHANGED <<wpc, running>>
           \/ UNCHANGED running /\ wpc' # "login"
           \/ wpc' # "login" /\ \A b \in Bots : running'[b] # None => running[b] # None
    BY <1>3, CapacityKept
<1>4. CASE \/ Boot \/ PollBegins \/ HealthReads \/ HealthCommits \/ HealthFails \/ SelectStarts
           \/ LoginFails \/ SelectStops \/ PollCommits \/ PollFails \/ ShutBegins \/ ShutWaited
           \/ ShutReads
    BY <1>3, <1>4 DEF Boot, PollBegins, HealthReads, HealthCommits, HealthFails, SelectStarts,
       LoginFails, SelectStops, PollCommits, PollFails, ShutBegins, ShutWaited, ShutReads
<1>5. CASE \/ \E b \in Bots : SkipRegistered(b) \/ StartRefused(b)
           \/ \E q \in Requests : \/ ApiEnds(q)
                                  \/ \E b \in Bots : ApiStart(q, b) \/ ApiStop(q, b)
           \/ \E r \in Runners : \/ RunnerReads(r) \/ RunnerStarts(r) \/ RunnerRaises(r)
                                 \/ RunnerReadsToFail(r) \/ RunnerReadsToEnd(r)
                                 \/ RunnerFinishes(r) \/ RunnerKilled(r)
           \/ UNCHANGED vars
    BY <1>3, <1>5 DEF SkipRegistered, StartRefused, ApiEnds, ApiStart, ApiStop, RunnerReads,
       RunnerStarts, RunnerRaises, RunnerReadsToFail, RunnerReadsToEnd, RunnerFinishes,
       RunnerKilled, vars
<1>6. ASSUME NEW r \in Runners, RunnerReturns(r) \/ RunnerFails(r) PROVE CapacityInv'
    <2>1. UNCHANGED wpc /\ \A b \in Bots : running'[b] # None => running[b] # None
        BY <1>6 DEF RunnerReturns, RunnerFails, TypeInv, WorkerTypeOK
    <2> QED
        BY <2>1, CapacityKept
<1>7. ASSUME NEW r \in Runners, Terminate(r), wpc' # "login" PROVE CapacityInv'
    BY <1>3, <1>7 DEF Terminate, TypeInv, WorkerTypeOK
<1>8. CASE WaitTimesOut
    <2>1. target \in Runners /\ wpc' # "login"
        BY <1>8 DEF WaitTimesOut, TypeInv, LoopTypeOK, Waits, ShutWaits
    <2> QED
        BY <1>3, <1>7, <1>8, <2>1 DEF WaitTimesOut
<1>9. ASSUME NEW b \in Bots, StopTerminates(b) \/ ShutTerminates(b) PROVE CapacityInv'
    <2>1. running[b] # None => running[b] \in Runners
        BY DEF TypeInv, WorkerTypeOK
    <2> QED
        BY <1>3, <1>7, <1>9, <2>1 DEF StopTerminates, ShutTerminates
<1>10. ASSUME NEW b \in Bots, HealthTakes(b) \/ StopUnregistered(b) PROVE CapacityInv'
    BY <1>3, <1>10 DEF HealthTakes, StopUnregistered, Settled, TypeInv, WorkerTypeOK
<1>11. CASE StopWaited
    BY <1>3, <1>11 DEF StopWaited, Settled, TypeInv, WorkerTypeOK
<1>12. CASE ShutDone \/ Crash
    BY <1>3, <1>12 DEF ShutDone, Crash, Forgotten
<1> QED
    BY <1>1, <1>2, <1>4, <1>5, <1>6, <1>8, <1>9, <1>10, <1>11, <1>12
    DEF Next, Poll, Shutdown, Api, RunnerSteps

\* As many runners as entries at most, since each has one of its own.
LEMMA CapacityCounts == TypeInv /\ LiveIsTracked /\ CapacityInv => WithinCapacity
<1> SUFFICES ASSUME TypeInv, LiveIsTracked, CapacityInv PROVE WithinCapacity
    OBVIOUS
<1> DEFINE bot == [r \in OwnRunners |-> rbot[r]]
<1>1. \A r \in OwnRunners : rbot[r] \in Bots /\ running[rbot[r]] = r /\ r # None
    BY WorkerAssumption DEF OwnRunners, TypeInv, RunnersOwned, LiveIsTracked, Holds, Live
<1>2. bot \in [OwnRunners -> Registered]
    BY <1>1 DEF Registered
<1>3. bot \in Injection(OwnRunners, Registered)
    BY <1>1, <1>2 DEF Injection, IsInjective
<1>4. IsFiniteSet(OwnRunners) /\ Cardinality(OwnRunners) <= Cardinality(Registered)
    BY <1>3, FS_Injection DEF CapacityInv
<1>5. Cardinality(OwnRunners) \in Nat /\ Cardinality(Registered) \in Nat
    BY <1>4, FS_CardinalityType DEF CapacityInv
<1> QED
    BY <1>4, <1>5, WorkerAssumption DEF CapacityInv, WithinCapacity

\* At no moment does the worker run more than max_bots bots, although it counts them
\* before the login and registers the runner after it (_start_bot, main.py:162-167).
THEOREM WorkerCapacity == Spec => []WithinCapacity
<1>1. WorkerInv => TypeInv /\ LoginIsFree /\ LiveIsTracked
    BY DEF WorkerInv, RegisterInv
<1>2. Spec => []CapacityInv
    BY <1>1, CapacityInit, CapacityStep, WorkerSafety, PTL DEF Spec
<1> QED
    BY <1>1, <1>2, CapacityCounts, WorkerSafety, PTL

-----------------------------------------------------------------------------
(***************************************************************************)
(* Polls and shutdowns come to an end.                                     *)
(***************************************************************************)
\* The loops of a poll, and those of a shutdown, that are still to be run.
LoopsLeft ==
    CASE wpc \in {"health", "noted", "settle"} -> 3
      [] wpc \in {"starts", "login"} -> 2
      [] wpc \in {"stops", "closing", "killed"} -> 1
      [] wpc \in {"shut", "shutClosing", "shutKilled"} -> 2
      [] wpc = "shutRows" -> 1
      [] OTHER -> 0

\* The awaits that the bot at hand still needs.
AwaitsLeft ==
    CASE wpc \in {"noted", "closing", "shutClosing"} -> 2
      [] wpc \in {"settle", "login", "killed", "shutKilled"} -> 1
      [] OTHER -> 0

\* There are fewer loops, fewer bots in this one, or fewer awaits for this bot.
Nearer ==
    \/ LoopsLeft' < LoopsLeft
    \/ /\ LoopsLeft' = LoopsLeft
       /\ \/ todo' \subseteq todo /\ todo' # todo
          \/ todo' = todo /\ AwaitsLeft' < AwaitsLeft

\* Each step of a poll or a shutdown brings it nearer to its end, and no runner, no
\* route of the API and no fault puts it back.
LoopRunsOut ==
    [][wpc \notin {"off", "idle"} =>
          /\ Poll \/ Shutdown => Nearer
          /\ Nearer \/ UNCHANGED <<wpc, todo>>]_vars

LEMMA LoopEnds ==
  ASSUME WorkerTypeOK, wpc \notin {"off", "idle"}, wpc' \in {"off", "idle"}
  PROVE  Nearer
<1>1. LoopsLeft \in {1, 2, 3}
    BY DEF LoopsLeft, WorkerTypeOK, WorkerPcs
<1>2. LoopsLeft' = 0
    BY DEF LoopsLeft
<1> QED
    BY <1>1, <1>2 DEF Nearer

LEMMA HealthNearer ==
  ASSUME wpc \in {"health", "noted", "settle"},
         \/ HealthReads \/ HealthCommits \/ HealthFails \/ SelectStarts
         \/ \E b \in Bots : HealthTakes(b)
  PROVE  Nearer
<1> USE DEF Nearer, LoopsLeft, AwaitsLeft, Goto
<1>1. CASE HealthReads
    BY <1>1 DEF HealthReads
<1>2. CASE HealthCommits \/ HealthFails
    BY <1>2 DEF HealthCommits, HealthFails
<1>3. CASE SelectStarts
    BY <1>3 DEF SelectStarts
<1>4. ASSUME NEW b \in Bots, HealthTakes(b) PROVE Nearer
    <2>1. wpc = "health" /\ wpc' = "noted" /\ b \in todo /\ todo' = todo \ {b}
        BY <1>4 DEF HealthTakes
    <2> QED
        BY <2>1
<1> QED
    BY <1>1, <1>2, <1>3, <1>4

LEMMA StartNearer ==
  ASSUME wpc \in {"starts", "login"},
         \/ LoginFails \/ SelectStops
         \/ \E b \in Bots : SkipRegistered(b) \/ StartRefused(b) \/ StartLogsIn(b)
         \/ \E r \in Runners : Spawn(r)
  PROVE  Nearer
<1> USE DEF Nearer, LoopsLeft, AwaitsLeft, Goto
<1>1. CASE LoginFails \/ \E r \in Runners : Spawn(r)
    BY <1>1 DEF LoginFails, Spawn
<1>2. CASE SelectStops
    BY <1>2 DEF SelectStops
<1>3. ASSUME NEW b \in Bots, SkipRegistered(b) \/ StartRefused(b) \/ StartLogsIn(b)
      PROVE  Nearer
    <2>1. /\ wpc = "starts" /\ wpc' \in {"starts", "login"}
          /\ b \in todo /\ todo' = todo \ {b}
        BY <1>3 DEF SkipRegistered, StartRefused, StartLogsIn
    <2> QED
        BY <2>1
<1> QED
    BY <1>1, <1>2, <1>3

LEMMA StopNearer ==
  ASSUME WorkerTypeOK, wpc \in {"stops", "closing", "killed"},
         \/ WaitTimesOut \/ StopWaited \/ PollCommits
         \/ \E b \in Bots : StopUnregistered(b) \/ StopTerminates(b)
  PROVE  Nearer
<1>1. CASE WaitTimesOut \/ StopWaited
    BY <1>1 DEF WaitTimesOut, StopWaited, Nearer, LoopsLeft, AwaitsLeft, Goto
<1>2. CASE PollCommits
    BY <1>2, LoopEnds DEF PollCommits, Goto
<1>3. ASSUME NEW b \in Bots, StopUnregistered(b) \/ StopTerminates(b) PROVE Nearer
    <2>1. /\ wpc = "stops" /\ wpc' \in {"stops", "closing"}
          /\ b \in todo /\ todo' = todo \ {b}
        BY <1>3 DEF StopUnregistered, StopTerminates, Goto
    <2> QED
        BY <2>1 DEF Nearer, LoopsLeft
<1> QED
    BY <1>1, <1>2, <1>3

LEMMA ShutNearer ==
  ASSUME WorkerTypeOK, wpc \in {"shut", "shutClosing", "shutKilled", "shutRows"}, Shutdown
  PROVE  Nearer
<1>1. CASE WaitTimesOut \/ ShutWaited
    BY <1>1 DEF WaitTimesOut, ShutWaited, Nearer, LoopsLeft, AwaitsLeft, Goto
<1>2. CASE ShutReads
    BY <1>2 DEF ShutReads, Nearer, LoopsLeft, Goto
<1>3. CASE ShutDone
    BY <1>3, LoopEnds DEF ShutDone, Forgotten, Goto
<1>4. ASSUME NEW b \in Bots, ShutTerminates(b) PROVE Nearer
    <2>1. /\ wpc = "shut" /\ wpc' \in {"shut", "shutClosing"}
          /\ b \in todo /\ todo' = todo \ {b}
        BY <1>4 DEF ShutTerminates, Goto
    <2> QED
        BY <2>1 DEF Nearer, LoopsLeft
<1> QED
    BY <1>1, <1>2, <1>3, <1>4 DEF Shutdown

LEMMA LoopNearer ==
  ASSUME WorkerTypeOK, wpc \notin {"off", "idle"}, Poll \/ Shutdown
  PROVE  Nearer
<1>1. CASE wpc \in {"health", "noted", "settle"}
    BY <1>1, HealthNearer DEF Poll, Shutdown, PollBegins, LoginFails, SelectStops, WaitTimesOut,
       StopWaited, PollCommits, PollFails, SkipRegistered, StartRefused, StartLogsIn,
       StopUnregistered, StopTerminates, Spawn, ShutWaited, ShutReads, ShutDone, ShutTerminates
<1>2. CASE wpc \in {"starts", "login"}
    <2>1. CASE PollFails
        BY <2>1, LoopEnds DEF PollFails, Goto
    <2> QED
        BY <1>2, <2>1, StartNearer DEF Poll, Shutdown, PollBegins, HealthReads, HealthCommits,
           HealthFails, SelectStarts, WaitTimesOut, StopWaited, PollCommits, HealthTakes,
           StopUnregistered, StopTerminates, ShutWaited, ShutReads, ShutDone, ShutTerminates
<1>3. CASE wpc \in {"stops", "closing", "killed"}
    <2>1. CASE PollFails
        BY <2>1, LoopEnds DEF PollFails, Goto
    <2> QED
        BY <1>3, <2>1, StopNearer DEF Poll, Shutdown, PollBegins, HealthReads, HealthCommits,
           HealthFails, SelectStarts, LoginFails, SelectStops, HealthTakes, SkipRegistered,
           StartRefused, StartLogsIn, Spawn, ShutWaited, ShutReads, ShutDone, ShutTerminates
<1>4. CASE wpc \in {"shut", "shutClosing", "shutKilled", "shutRows"}
    BY <1>4, ShutNearer DEF Poll, Shutdown, PollBegins, HealthReads, HealthCommits, HealthFails,
       SelectStarts, LoginFails, SelectStops, StopWaited, PollCommits, PollFails, HealthTakes,
       SkipRegistered, StartRefused, StartLogsIn, StopUnregistered, StopTerminates, Spawn
<1> QED
    BY <1>1, <1>2, <1>3, <1>4 DEF WorkerTypeOK, WorkerPcs

LEMMA LoopStep ==
  ASSUME WorkerTypeOK, wpc \notin {"off", "idle"}, [Next]_vars
  PROVE  /\ Poll \/ Shutdown => Nearer
         /\ Nearer \/ UNCHANGED <<wpc, todo>>
<1> USE DEF workerVars
<1>1. CASE Poll \/ Shutdown
    BY <1>1, LoopNearer
<1>2. CASE Crash
    BY <1>2, LoopEnds, LoopNearer DEF Crash, Forgotten, Goto
<1>3. CASE Boot \/ ShutBegins
    BY <1>3 DEF Boot, ShutBegins
<1>4. CASE Api \/ (\E r \in Runners : RunnerSteps(r)) \/ UNCHANGED vars
    <2>1. UNCHANGED <<wpc, todo>>
        BY <1>4 DEF Api, ApiEnds, ApiStart, ApiStop, RunnerSteps, RunnerReads, RunnerStarts,
           RunnerReturns, RunnerRaises, RunnerReadsToFail, RunnerFails, RunnerReadsToEnd,
           RunnerFinishes, RunnerKilled, vars
    <2> QED
        BY <2>1, LoopNearer
<1> QED
    BY <1>1, <1>2, <1>3, <1>4 DEF Next

\* The safety half of StopServed and DeadRowResolved: three loops over finitely many
\* bots, with two awaits for each at most, whatever happens to the runners meanwhile.
THEOREM WorkerLoopEnds == Spec => LoopRunsOut
<1>1. WorkerTypeOK /\ [Next]_vars
        => [wpc \notin {"off", "idle"} =>
               /\ Poll \/ Shutdown => Nearer
               /\ Nearer \/ UNCHANGED <<wpc, todo>>]_vars
    BY LoopStep
<1> QED
    BY <1>1, WorkerTypeCorrect, PTL DEF Spec, LoopRunsOut
=============================================================================
