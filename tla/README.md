# PineForge in TLA+

PineForge runs Pine Script trading strategies: a backtester, a live bridge that
trades a MetaTrader 5 account through MetaAPI, and a multi-tenant API that
starts and stops bots, records their trades and bills their owners. The
difficult part of it is not a formula. One asyncio process shares dictionaries,
locks and database rows between request handlers, one long-lived task per bot
and half a dozen background loops, and every one of them can be cancelled,
fail in the database, or die with the process. These modules model that part
from the source. Paths below are relative to the repository (`src/` is its
root in `PROJECT.json`).

## The system

| component | state | operations | hard behaviour |
|---|---|---|---|
| BotManager, `api/services/bot_manager.py` | `_running_bots`, `_bot_bridges`, `_start_locks`, `_shutting_down`; the rows of `bots` | `start_bot`, the wrapper task with its retry loop, `stop_bot`, `restart_crashed_bots`, `shutdown_all` | dictionaries read before an await and used after it; cancellation that lands in one of five `except` clauses; a lock that is deleted while others hold or await it |
| status reconciler, `api/services/bot_status_reconcile.py` | copy of the keys of `_running_bots` | `reconcile_bot_status_once` | the copy is stale when it is used |
| bot routes, `api/routers/bots.py` | rows of `bots`, `users.balance` | create, start, stop, delete | charge before, refund after, rollback of both |
| trade history, `bot_logger.py`, `trade_listener.py`, `position_reconcile.py` | `bot_trades` | queue and flush; deal events; periodic pass | three writers of one row, none of which locks it; lost, late and repeated deals |
| billing and payments, `usage_billing.py`, `transaction_service.py`, `payments.py` | `users.balance`, `transactions` | tick, checkout, webhook, PayPal and Razorpay credits | sessions that read a balance and write an absolute value; webhooks delivered again |
| live bridge, `pineforge/live/` | `_shutdown`, series, position, failure counters | warm-up, poll cycle, signals, reconnect | a call that timed out may have been executed; a failed read looks like "flat" |
| direct-mode worker, `worker/` | subprocesses; `bots.status` as a mailbox | poll commands, start, stop, health check | request values overwritten in a shared column; dying subprocesses |
| MT5 bridge service, `mt5bridge/` | one terminal connection, a reconnect task | connect, disconnect, reconnect | connection shared by requests and a task |
| backtest, `pineforge/broker.py`, `engine.py`, `interpreter.py`, `series.py` | orders, position, trades, equity, scopes | submit, process, fill, exit, execute bar | order of fills and exits within a bar |
| lexer and parser, `pineforge/lexer.py`, `parser.py` | indentation stack, token position | tokenize, parse | layout: blank lines, comments, dedents over several levels |
| interpreter, `pineforge/interpreter.py`, `series.py`, `builtins/` | heap of series, scopes, indicator states | execute a bar | histories and indicator states that two statements share; bars cut short by an exception |
| accounts, scripts, bot rows, `api/routers/`, `account_service.py`, `bot_service.py` | rows; accounts at MetaApi | create, delete | checks made minutes before the commit; a provider that keeps what a failed request left |
| users, dashboards, rate limiter, mails, clean-up | rows | requests | single-row updates, provider calls |

They interact through three things: calls (a route or the billing tick calls
BotManager, which owns a bridge), the database rows (`bots.status` is written by
the manager, the wrapper, the reconciler, billing and the routes; `bot_trades`
by its three writers; `users.balance` by every session that charges or credits),
and callbacks (the broker's streaming connection calls the trade listener, the
bot's prints reach the log handler).

What makes each component correct:

- lifecycle: one task per bot; every live task reachable through
  `_running_bots`; a start and a stop come to an end; a row does not say
  "running" for ever with nothing behind it; a server restart loses no bot;
- trade history: a trade is recorded once, with its own direction, settled only
  when the broker has closed it, never reopened, and settled in the end;
- wallet: the transactions explain the balance, a failed start is free, money
  paid is credited, once, and a bot does not run on an empty wallet;
- live bridge: at most one position per bot, a signal is executed on the bar
  after its own, a close signal is obeyed, no cycle waits for ever;
- worker: every runner of a bot is registered, so that it can be stopped, a row
  is written stopped only when nothing runs, a stop that a poll has selected is
  carried out, a row that says running with nothing behind it is put right;
- accounts, scripts, bots: one bot per account, a bot's account and script exist
  and are its user's, no account is paid for that nobody knows, limits hold;
- backtest: stops and limits hold, a fill is due and at a price of its bar, exit
  orders belong to the trade they were placed for, the running totals agree;
- scripts: a source is read as the program that was written, `x[k]` is what `x`
  was `k` bars ago, an indicator has the value of its definition, a `var` is
  bound once.

## Modules

| module | what it is |
|---|---|
| `BotLifecycle` | BotManager, the bot's wrapper task, `stop_bot`, boot, shutdown, the status reconciler, and the process that dies and comes back |
| `BotLifecycleProofs` | its type invariant, the start-lock invariant and the theorems on it, and the ranks of orphaned rows and signalled tasks |
| `TradeBook` | abstract: what the trade history promises |
| `TradeLedger` | the three writers of `bot_trades`; implements `TradeBook` |
| `TradeLedgerProofs` | safety of the ledger, the refinement, and the end of a missed close |
| `Wallet` | the balance of one user and the sessions that change it |
| `WalletProofs` | its safety theorems: transactions, balance, deposits, and the stop at a low balance |
| `LiveBridge` | the poll cycle of a live bot against its broker |
| `LiveBridgeProofs` | its type invariant and the theorems on positions, signals and awaits |
| `Backtest` | the simulated broker, the engine's loop, and any script |
| `BacktestProofs` | its safety |
| `Worker` | the direct-mode worker, its runners, the account logins, and the API requests that reach it through `bots.status` |
| `WorkerProofs` | its type invariant, the register of runners, the capacity, and the end of its loops |
| `Platform` | rows of accounts, scripts and bots, and the accounts at MetaApi behind them |
| `PlatformProofs` | its safety |
| `PineLexer` | the layout of a source: indentation, comments, newlines, line by line |
| `PineSyntax` | the grammar of Pine, as operators on tokens |
| `PinePrinter` | reference: how a program is written down |
| `PineSeries` | what a series keeps of its history |
| `PineIndicators` | the indicators and the state that some keep from bar to bar |
| `PineInterp` | the interpreter with its scopes, functions, inputs and orders |
| `Pine` | a script from its source to its last bar: composes the others |
| `PineProofs` | theorems on the lexer, two of them refinements, on the series and on the streaming indicators |
| `MCBotLifecycle`, `MCTradeLedger`, `MCWallet`, `MCLiveBridge`, `MCBacktest`, `MCWorker`, `MCPlatform`, `MCPine` | constants, inputs and symmetry for TLC |

`Worker`, `BotLifecycle`, `Wallet` and `Platform` each see the row of a bot from
one side: the first two are the alternative backends that run it, `Wallet` is
what its start costs, `Platform` is where the row comes from and goes. `Backtest`
takes any choice of orders for its script and `Pine` any position for its broker,
so that the two together cover `Engine.run` without their product.

An operator whose comment begins with "Mutant" is a deliberately broken variant
of the definition that follows it. No specification uses it; replacing the
definition by it makes a run fail, which shows what the run depends on.

### BotLifecycle

The process runs on one asyncio loop, so an action is what the code does between
two awaits. Correspondence of state:

- `status`, `recent`: `bots.status`, and whether `started_at` is within the two
  minutes in which the reconciler leaves a row alone. They survive the process.
- `running`, `bridges`, `locks`: the three dictionaries. They do not.
- `pc`, `owner`, `flag`, `retry`: a wrapper task (`_run_bot_wrapper`): where it
  is, its bot, `_shutdown` of its current `LiveBridge`, `retry_count`. A bridge
  is named by its task; once the task has replaced it, a caller that still holds
  the old one holds `None`, since setting `_shutdown` there has no effect.
- `startPc/startBot/startLock`: each caller of `start_bot`, a route or the boot.
- `stopPc/stopBot/stopTask/stopBridge`: each caller of `stop_bot`, with the
  task and the bridge it read before it closed the positions.
- `boot...`: `restart_crashed_bots`. `reconPc`, `reconIds`, `reconOrphans`: a pass
  of the reconciler. `shutPc`, `shutTodo`, `shutTask`: `shutdown_all`, which signals
  the bridges, then waits for one task after the other and ends by clearing the
  dictionaries.

`start_bot` is `EnterStart` (take or make the lock, or wait), `AcquireLock`,
`InsideLock` (the check and the stale clean-up), `LoadBot`, `CommitStarting`,
`StoreRefs`. `ReadyNow` says that a task which the loop has already woken runs
before new input is handled: without it the model would let a second request
slip between the release of a lock and its hand-over, which asyncio does not do.
The wrapper is `MarkRunning`, `Connected`, `PollEnds`, `Wake`, `FreshBridge`,
`RecordEnd`, `Cleanup` and its faults; `CancelTask` is the delivery of a
`CancelledError` to whichever await the task is in, one case for each `except`
clause that may catch it.

A pass of the reconciler is `ReconSnapshot` (the copy of the keys), `ReconReads`
(the rows that say running, without a key and past their grace period) and
`ReconCommits` or `ReconFails`. `NoFalseOrphan` is about the read: a bot that is
picked then is not registered. Between the read and the commit lies one more
round trip, in which a bot can be started and the commit overwrites its row; the
model does the same, and no property denies it.

Left out: the streaming side connection and the undeploy of the account in the
finally block (they do not touch the modelled state; the lock is already gone),
a cancellation before the first step of a task, and a billing tick that is in
flight when the app shuts down. Task and lock identities are reused when nothing
refers to them, which is what bounds them.

### TradeLedger

`state`, `rowDir`, `pnl` are the row of a position (the unique index on bot and
order makes it a function); `broker` is the position at the broker. The log
handler is `queue`, `batch` and the flush actions, which take the queue first
and insert later; the listener is `OnOpen`, and `OnClose` with `CloseCommits` or
`CloseFails`, since it reads the row and updates it after an await; the
reconciler is `ReconStarts`, `ReconPositions`, `ReconSelects`, `ReconCommits`
or `ReconFails`. The deals are fetched and the rows selected in one action
(the deals only decide whether a profit is known; the interval that matters, from
the live positions to the rows, is there). A position closes in one deal;
partial closes are not modelled. A deal of entry type INOUT (`trade_listener.py:108`) runs
both handlers of the listener, which for a position opened and closed at once is `OnOpen`
and then `OnClose`; one that reverses a position on a netting account is not modelled, nor
is the direction of its close when its open was not recorded. An account has one bot, which
a unique index enforces. Prints of closes, and orders of a dry run, have no broker id: only
whether such open rows exist is kept, because they decide whether the reconciler
runs.

### Wallet

A session is `Reads`, then `Writes` (its flush takes the lock of the user's row),
then a commit or a rollback. Its `copy` is the balance of the user object in the
session; SQLAlchemy writes the attribute as an absolute value, and
`with_for_update` takes the lock without refreshing the object that the session
already has, so that the copy is the one that `get_current_user` read. The
variable `base` remembers what was read and is not in the code: the properties
use it to say which copies are outdated. The sessions are start requests
(`StartReads` ... `StartCommits`; `StartRaises` flushes the refund and then rolls
everything back with the exception), account setups and payments
(`Request...`; a Razorpay verification that is sent again is another payment), deliveries of the Stripe webhook, and the billing tick, which
flushes only at its commit. When the tick finds the balance too low it sets the
row of the bot to stopped, which is `marked` until the commit, and BotManager's
stop, which may fail, writes the row in between; the commit then overwrites
whatever the row says. Amounts are whole units. The user is no
administrator and has an active account, so that each tick costs something. With
several users in a tick an earlier flush would take the lock earlier.

### LiveBridge

One bridge, one symbol. `open` and `late` are on the broker's side: the bot's
positions in each direction (those with its magic number), and the orders that
the bridge has given up and the broker has still to decide. `newBar` says that the
last closed bar is not `_last_bar_time`. `pending` is `_pending_signal`, `overdue`
whether a bar has been taken since the one it was computed on. `failures` is
`_execution_failures` up to 2, since the code only asks for "two or more".
`order` is the request that an `open_buy` or `open_sell` awaits. `faulted` is a
history variable: a read of the positions failed while there were some, a close
failed, or an order was filled after it was given up.

A bridge starts with `BridgeStarts`; `Connects` and `ConnectTimesOut` are the
attempts to connect (3 in the code), `WarmsUp` and `WarmupShort` those to fetch
enough bars. A closed market is waited for up to 60 attempts, an open one only by
the first three, and the code counts both with one number: after three attempts
while the market is closed, the first short answer of the open market ends the
bridge. `Syncs` reads the positions of an earlier bridge, which only sets the
position of a simulated broker that nothing in live mode reads. The three limits
are constants, `ConnectLimit`, `ShortLimit` and `WarmupLimit`.

A poll cycle is `PollFeeds`, or `PollExecutes` followed by the awaits of
`_execute_signal`: `GetPositions` or its failure, `CloseAll`, and the order, each
of which may time out in the executor. Each way out ends in `FeedBar`, which
runs the script and leaves its signal. A `CancelledError` in one of the awaits is
`FirstFailure` (caught, the signal dropped, the bar fed), `SecondFailure` (a
reconnection, then the same signal again), or, at that retry, `RetryFails`,
which no handler of the cycle catches. The script is any choice of signals.

Left out: the daily loss and the limit of positions of `RiskManager`, which the
bridge never gives values that could act (see below); dry runs; and the backends
other than MetaAPI. The executor of the self-hosted bridge has the same calls, with
the 60 seconds of its HTTP client for a timeout, and closes every position of the
symbol instead of those with the bot's magic number.

### Backtest

`pending`, `exits`, `position`, `cash`, `realized` and `equity` are the fields of
`Broker`; of `closed_trades` only the last is kept, which is what the properties
compare with. `fees` sums the entry commissions and is not in the code, nor is
`ordered`, the bar on which the order of a trade was given. `process_orders`
loops over a snapshot three times; `todo` and `at` are the current loop, and
`FillClose`, `FillEntry`, `FillExit` one round of it. The engine is `NextBar`,
`UpdateEquity`, `ScriptEnds` and `DataEnds`; `fillOn` decides whether the script runs
before or after the orders. The script is any sequence of `Submit` and
`SubmitExit`. Amounts are integers; slippage and commission are constants since
the declaration `strategy()` can only change them before the first fill.
`Without` removes the one order of an id, which is the filter of `submit_exit` as
long as ids are unique (part of `BacktestTypeOK`).

The model shows two things that no promise of the repository denies, so that no
property does: a flip also clears the exit orders that were placed for the new
entry, and in close mode an exit order placed at the close is tried against the
high and low of the bar that is over. Left out: the curve of equities and the
figures computed from it. Its last point is the equity from before the forced
close at the end.

### Worker

In direct mode the API and the worker are separate processes, and one column,
`bots.status`, is their mailbox: `row`. Correspondence of state:

- `wpc` is where the worker's loop is; `running` and `retries` are `_running` and
  `_bot_retries`; `ready` the bots whose account has a connected MT5 instance.
- `todo`, `cur` and `target` are the loop of a poll: the bots it has still to visit,
  the one it is at, the runner it waits for. `pending` is the status that a health
  check or a shutdown is about to commit. `dirty` and `locked` are the session of
  the poll: SQLAlchemy writes the columns whose value differs from the one it read,
  and an autoflush takes the lock of a row until the session ends.
- `rpc`, `rbot`, `rsaw`, `rcode` are a runner (a subprocess, or a task of the loop,
  by `mode`): where it is, its bot, the status that it read, its exit code. `orphan`
  is a runner whose worker was killed.
- `request` is a start or stop request between its check and its commit. `unsaved` is
  history: the bots for which, since their last start, the result of a health check or of a
  stop was not written, or whose processes a killed worker left behind.

A poll is `PollBegins`, the health check (`HealthTakes`, `HealthReads`,
`HealthCommits` or `HealthFails` for each dead process), the start requests
(`SelectStarts`; `SkipRegistered`, `StartRefused` at the limit of bots, `StartLogsIn`
and `LoginFails`, `Spawn`), the stop requests (`SelectStops`; `StopUnregistered`, or
`StopTerminates`, `WaitTimesOut` and `StopWaited`), and one commit for all of them
(`PollCommits`) or none (`PollFails`). `ShutBegins` to `ShutDone` are the shutdown,
`Crash` a kill, `Boot` the next start, which takes the rows left at running for start
requests. The `Runner...` actions are `bot_runner.py`: it reads its row, writes running,
works, and writes its end.

Left out: what the bridge of a runner does (`LiveBridge`), the terminals, and the
writers of the row that direct mode does not reach.

### Platform

`owner`, `active`, `author` and `bot` are the rows of accounts, scripts and bots;
`cloud` the accounts at MetaApi; `req` the requests in flight; `lost` remembers the
MetaApi accounts that a fault cut off and is not in the code. `CreateAccount` counts;
`CloudCreates`, `CloudRefuses`, `CloudAnswerLost` (MetaApi makes the account and the call
fails all the same), `Verifies` and the clean-up are the minutes of
provisioning; `AccountCommits` makes the row. `CreateBot`, `DeleteBot`,
`DeleteAccount` and `DeleteScript` check, and a second action commits or is refused
by a constraint of the table. The checks of one request are one action, although they
are several queries, since none of them can become true while the request runs.
`BotStarts`, `BotRuns` and `BotStops` are what the rest of the system does to the
status. Ids are never used again, which `Deleted` says of scripts. `Views` are the
pages that ask MetaApi, and thereby deploy the account.

### Pine

Numbers are integers, quotients are rounded down, and NaN is `Na`. A token is a
string; how characters make a word is abstracted. A line that a backslash continues is one
line of the model, and a line of nothing but a backslash is left out.

- `PineLexer` is the lexer, a step for each line (`Lex`, and `LexEnds` at the end of the
  source): the stack of indentations, and the INDENT, DEDENT and NEWLINE tokens.
- `PineSyntax` is the parser, one operator for each of its methods, on tokens and a
  position.
- `PinePrinter` writes a program down, with the parentheses it needs and in a given
  layout, which may have a version directive in it: the reference for the two.
- `PineSeries` and `PineIndicators` are `Series` and the functions of `ta`, on the data of
  a series and the state that `TAState` keeps. No recursive operator is in reach of these
  two and of `PineLexer`, so that theorems about them can be proved.
- `PineInterp` is `Interpreter`: a record `m` with the heap of series, the scopes, the
  sets of names it keeps, and the states of the indicators; each operator returns a
  value and the machine after it, or an exception. It has all statements and
  expressions but strings and lists, the calls of the indicators, orders, inputs without overrides,
  and the arithmetic functions that stay within the integers.
- `Pine` is the pipeline: `Tokenize`, `ParseTokens`, then a `Bar` for each bar,
  which feeds the prices and executes the script, and `Finish`. A backtest ends with the
  first exception; the loop of a live bot catches it and feeds the next bar to the same
  interpreter.

Left out: rounding, powers and logarithms, strings, lists, plotting (no effect), input
overrides.

## Runs

| run | question | instance | result |
|---|---|---|---|
| `lifecycle` | one process without restarts at boot: starts, stop, faults, reconciler | 1 bot, 2 tasks, 2 locks, 2 start requests, 1 stop; fairness | passes, 72 thousand states, 2 min |
| `recovery` | kill, shutdown and boot with failing attempts and billing | 1 bot, 2 tasks, 2 locks, 1 retry, 3 attempts, 2 crashes, a user's stop and a billing stop; symmetry in tasks, locks | passes, 260 thousand states, 20 s |
| `stop_lost` | does a signalled stop end its task? | 1 bot; fairness | **violated**: finding 1 |
| `ledger` | truth, refinement and repair of the trade history | a long and a short position; fairness | passes, 107 thousand states, 1 min |
| `ledger_false_close` | is `reconciled_external` only written for closed trades? | the same | **violated**: finding 2 |
| `wallet` | charges, refunds, credits and the low-balance stop | 1 start, 1 setup, 1 checkout with a delivery that may be repeated on failure, the tick; fairness | passes, 190 thousand states, 1.5 min |
| `wallet_double` | is a checkout credited once? | 1 checkout, 2 deliveries, 1 payment | **violated**: finding 3 |
| `livebridge` | positions, signals, cycles and starts against a faulty broker | margin for 2 positions, 2 attempts to connect, 2 and 4 to warm up; fairness | passes, 20 thousand states, 10 s |
| `backtest` | fills, stops, exits and totals for any script | 3 bars of 2 shapes, one of which gaps below every level; 2 entry ids (symmetric), 1 exit id, 2 orders and any exits per bar; both fill modes | passes, 1.8 million states, 1 min |
| `worker` | does direct mode keep track of its runners, carry out stops and repair rows? | 1 bot, 2 runners, 1 request, capacity 1, 1 retry, 1 fault; both modes; fairness | passes, 300 thousand states, 1.5 min |
| `platform` | do concurrent requests keep accounts, scripts and bots consistent? | 2 users, 3 accounts, 1 script, 2 bots, 2 requests, limits of 1, 1 fault; symmetry in accounts, bots, requests | passes, 240 thousand states, 20 s |
| `pine` | is a script read as written and executed by definition? | some hundred expressions to depth 2, nested blocks under every layout, 13 scripts in both engines; 6 bars, series of at most 4 values, loops of at most 3 rounds | passes, 82 thousand states, 20 s |

Except in `backtest` and `pine`, the type invariants are not among the properties of a
run: they are proved, for every value of the constants.

Why these bounds are enough. Races of the start lock need two callers and one
finishing task whose finally block deletes the lock, hence two requests, two tasks and
two locks. `MaxRetries` 0 makes the limit of retries reachable at once, and 1 in `recovery`
adds the retry itself. The second crash of `recovery` kills the process that the
first one's boot was still restoring, and the third attempt is one after a failed
retry. One bot is enough for the checked properties because bots share nothing
but the queue of the boot and the list of `shutdown_all`, which only order what
happens to each; the theorems hold for any number of bots. Two positions of opposite direction suffice
for the ledger because its batches and passes act on each position by itself.
The wallet has each kind of session once, in `wallet_double` a delivery twice;
opening balance, fees and thresholds are scaled down with their order kept (one
start is allowed, a charge and two ticks reach the threshold). `Floor` stops the
tick from billing an idle user below 0 for ever. Two concurrent starts are
covered by the proofs, which hold for any number of sessions.
A trade of `Backtest` needs a bar for its order, one for its entry and one for its
exit; a bar of low prices after one of high prices opens beyond the stops of longs and
the limits of shorts, and the reverse order beyond the others.

In `LiveBridge` a second position is already the violation, so a margin for two
suffices; the theorem holds for any. Of the attempts only their order matters: the
limit for an open market is below the one for a closed one.

The bots of a `Worker` interact through its capacity and the order of a poll only, and the
theorems hold for any number; a second runner is the one that a killed worker or a
replaced task leaves behind. One request is enough to write at any moment, since the
routes do not wait for each other. `MaxRetries` 1 has a dead process started again and,
at the second death, given up. In `Platform` each race is between two requests of one
user or of two; the third account and the second bot are those that pass a limit of 1.
The theorems hold for any sets. In `Pine` an expression of depth two has every pair of
neighbouring operators in both associations; a nest of depth two closes two blocks at
once; a series limit of 4 and a trim of 1 have six bars cut a history twice, and every
indicator has a length of at most 3, below the limit, which in the code is 50,000 values. The
prices are multiples of 96, so that the averages lose little to rounding; where they do, the definition
rounds alike.

Deadlock is checked everywhere except in `backtest` and `pine`, where data come to an
end, in `worker`, which may be off with no user to press a button, and in the wallet runs,
in which the requests are one-shot and an idle user at `Floor` is no longer billed: there
the model really ends.

### Fairness

- `BotLifecycle`: weak fairness of what the process has begun (a handler between
  two awaits, a wrapper, a timeout, the boot and reconcile loops) since
  asyncio runs every ready callback; strong fairness only for the end of the
  grace period, which a pass in progress may disable again and again, and for the
  read and the commit of a pass: the loop swallows every error and comes again, so
  that a database which is asked for ever answers at some time. No
  fairness for requests, faults or crashes.
- `TradeLedger`: strong fairness of the reconciler's steps. The loop of
  `position_reconciliation_loop` never ends and swallows every error; strong
  fairness says that a broker or database which is asked again and again answers
  at some time. None for flush or listener, which give up after one attempt.
- `Wallet`: as above for the tick and for Stripe's repeated deliveries; weak
  fairness of BotManager's answer and of commits. None for reads of requests.
- `LiveBridge`: weak fairness of the cycle's own steps, because every await in it
  has a timeout and the loop goes on polling whatever a cycle raised, of a
  warm-up, whose attempts are counted, and of the closing of bars. None for
  connecting, in which some awaits have no timeout, and none for the broker's
  answers, failures or the script.
- `Worker`: weak fairness of the poll and of the shutdown: the loop catches what a
  poll raises and goes on after `poll_interval`. None for a boot, for users,
  and for runners, which a terminal may hold up for ever. Commits of a health check may
  fail for ever, and a poll may fail as often as `MaxFaults` says.
- `Platform` and `Pine` have safety properties only.

### Findings

1. `StopEndsTask`: a stop that arrives while the wrapper sleeps after a failed
   warm-up sets `_shutdown` on a bridge which is then replaced; the cancellation
   after 30 s is retried as a lost connection and `stop_bot` waits for ever. The
   billing tick, which awaits it, waits with it.
2. `ReconciledIsGone`: positions are read before the rows, so a trade opened in
   between is recorded as closed externally.
3. `CreditedOnce`: the Stripe session id is stored but never looked up before
   the credit.

## Known deviations

What the models show of the code that nobody may have intended. For the first group
there is a configuration that has TLC print a counterexample:

| configuration | module | property | what happens |
|---|---|---|---|
| `shutdown_rows.cfg` | `MCBotLifecycle` | `ShutdownKeepsRows` | a shutdown whose cancellation lands in a poll cycle ends as a stop by the user, with "stopped" in the row: the next boot does not restart the bot (`bot_manager.py:231`) |
| `double_start.cfg` | `MCBotLifecycle` | `OneTaskPerBot` | with automatic restarts, one that waited for the lock of a user's start drops the entries of the live task and starts a second one (`bot_manager.py:82`) |
| `late_signal.cfg` | `MCLiveBridge` | `ExecutesPreviousBar` | a cycle cancelled after its reconnection failed has marked its bar as seen but not fed it: the signal is executed one bar late (`live/bridge.py:629`) |
| `delete_bot.cfg` | `MCPlatform` | `DeletedBotIsGone` | no bot can be deleted: `get_settings` is not imported, so that the handler ends in a NameError once its checks have passed (`routers/bots.py:209`) |
| `pine_alias.cfg` | `MCPine` | `HistoryAligned` | `src = close` makes two names for one series, and pushing to one changes both (`interpreter.py:343`) |
| `stop_overwritten.cfg` | `MCWorker` | `StopPickedUp` | a stop request that comes while a poll starts the bot is overwritten with running at the poll's commit, and the bot runs on; so may the booting runner and the health check overwrite one (`worker/main.py:157`, `routers/bots.py:367`) |
| `macd_shared.cfg` | `MCPine` | `IndicatorsRight` | `ta.ema(close, n)` and `ta.macd` with a line of length `n` share one state, and both advance it on each bar (`builtins/ta.py:378`) |

The others are in the models as the code has them, and no property denies them.

Worker:

- A stop request can be overwritten: by a runner that writes running when it boots, by
  the flush of a poll that read start_requested, and by the health check's own
  start_requested. `StopPickedUp` says what the comment on the route
  (`routers/bots.py:367`) promises; the model does not keep it. `StopServed` is what is
  left: a stop that a poll has selected is carried out.
- Stop pressed twice, or Start after Stop, writes stopped or start_requested over a runner
  that is still at work; a session of a poll that fails after it stopped a runner can
  leave running in the row until the next boot.
- In task mode the end of an old task writes stopped over the row of a newer one and
  pops its entry (`worker/main.py`, `_run_bot`), and a cancellation that the bridge
  swallows twice leaves the poll waiting.
- A subprocess whose exception has no message writes stopped, not error
  (`worker/bot_runner.py:159`).
- A poll's running overwrites the error of a task that failed at once. A runner that wrote
  error itself is never started again.
- Runners in task mode replace `sys.stdout` for the whole process (not modelled).

Platform:

- A `create_account` of MetaApi that fails or times out after it was carried out leaves an
  account that is paid for and that nothing knows, since `account` is still None and the
  clean-up is skipped (`account_service.py:94`, `CloudAnswerLost`).
- `start_bot` never asks whether the account is active; the pages deploy an undeployed
  account again; `delete_account` never undeploys one.
- A limit can be passed by the requests in flight (`LimitsHold` says by how much). Deleting
  a script that a stopped bot uses is refused by the database, as an error 500.
- Not modelled: `update_bot` checks and writes without a lock; two administrators can
  demote each other; the balance for a new account is read minutes before it is charged.

Pine:

- The same call of an exponential average twice in one bar advances its state twice
  (`builtins/ta.py:314`); `ta.ema` and `ta.rma` keep their states in one dictionary, under a key
  that "avoids id() memory-address collisions" (`builtins/ta.py:59`), but `ta.ema(x, 37)` and
  `ta.rma(x, 31)` have the same one (31 * 37 = 37 * 31) and advance one average. They are apart for
  all other lengths up to 270 but the multiples of these (`KeyTheorem`). A source that is no series, such as
  `ta.sma(close - open, 3)`, is always na, although "even `2 + 3` becomes a series"
  (`series.py:3`).
- `na(x)` is read as the literal `na` and then `(x)`, although the README documents the
  call; `math.sum` returns its argument and `fixnan` carries nothing forward; the triple of
  `ta.macd` cannot be taken apart; `input.int` of a series raises.
- `strategy.exit(..., stop=close)` passes the series itself on: the backtest ends with a
  TypeError when the broker compares it with a price (`builtins/strategy.py:175`, `BrokerRaises`).
- An exception in a live bar leaves the bar counter, the scope of an open call and the
  histories as they were at that moment (`interpreter.py:332`), and the next bar goes on from there.
- `var` inside a function raises at the second call; an assignment in a function to a name that
  exists globally pushes to the global series; an assignment in a loop pushes once a round;
  a `var` series is never pushed, so that `n[1]` is na.
- `while` raises when the limit of rounds is reached exactly; comment-only lines do
  indent (`lexer.py:105` says not); whitespace at the end of a source without a newline is refused.
- `and` and `or` with na are na and evaluate both sides; built-in names shadow a script's functions.
  `strategy.position_size` is the position before the bar's fills, and undefined in a live bot;
  the quantity override is not in force on the first bar.

Live bot:

- The attempts of a warm-up are shared between a closed and an open market. The reconnection in
  the outer loop has no timeout (`live/bridge.py:324`). Of several bars that closed since the last poll
  only the latest is fed (`live/bridge.py:627`).
- The limits on daily loss and on positions never act (`live/risk.py:75`). An order that was not
  answered starts no cooldown.

Outside the properties, and in no model: a process that dies between the commit of starting and
that of running leaves a row which nothing repairs (`bot_manager.py:177`); a tick overwrites a row
that changed meanwhile (`usage_billing.py:127`, in `Wallet`); a partial close settles the whole trade
(`trade_listener.py:114`); a failed commit after the start leaves a bot running whose charge was
rolled back (`routers/bots.py:300`); a PayPal capture whose session fails is not credited
(`payments.py:500`); a Razorpay verification can be sent again and credits each time the
amount that its body names (`payments.py:296`, in `Wallet`); a bot whose wrapper is cancelled in its
finally block stays registered and cannot be started until the process restarts
(`bot_manager.py:381`, in `BotLifecycle`); a failed flush loses its batch (`bot_logger.py:276`, in `TradeLedger`); a flip
clears the exit orders that were placed for the new entry (`broker.py:245`, in `Backtest`); in close mode an
exit placed at the close is tried against the bar that is over (`engine.py:148`, in `Backtest`). The
MT5 bridge service reconnects with the login of its configuration instead of the one last used
(`mt5bridge/app.py:88`).

## Proofs

All theorems hold for every value of the constants that satisfies the named
assumption of its module.

| module | theorems | what they say |
|---|---|---|
| `BotLifecycleProofs` | `TypeCorrect`, `BridgeTheorem`, `GraceTheorem` | of every behaviour: types; a registered bot has a bridge; the reconciler leaves registered bots alone |
| | `OneTaskTheorem`, `RegisteredTheorem`, `LockGuardTheorem`, `ShutdownTheorem` | as long as no restart at boot finds a live task: one task per bot, registered, behind its lock, and dead when the shutdown is over |
| | `NoRestartTheorem`, `RecoveryTheorem` | these four hold without restarts at boot, and with them when nobody else starts bots |
| | `OrphanTheorem`, `SignalledTheorem` | a row without a task is resolved in two passes; a task that was told to stop ends in seven steps unless its bridge is replaced |
| | `StopSignalTheorem` | under the condition above, a stop has its signal in force until the bridge is replaced |
| `TradeLedgerProofs` | `LedgerTypeCorrect`, `DirectionTheorem`, `ClosedTheorem`, `BookTheorem` | directions, closes, and that the ledger implements `TradeBook` |
| | `QuietPassTheorem`, `GhostTheorem` | what alone makes a pass write off a live position; a missed close is settled in two passes |
| `WalletProofs` | `WalletTypeCorrect`, `FailedStartTheorem`, `ChargedTheorem`, `ExactTheorem`, `TrailTheorem` | the starts that are charged are those that were answered; balance and transactions agree unless a copy is outdated, and the transactions are right in any case |
| | `DepositTheorem`, `OneDeliveryTheorem`, `StopsTheorem` | checkouts are credited once for each answered delivery; what stops the bot |
| `LiveBridgeProofs` | `LiveTypeCorrect`, `OnePositionTheorem`, `ObeyedTheorem`, `AwaitsTheorem` | one position; a signal that was executed is obeyed; a cycle has few awaits |
| `BacktestProofs` | `BacktestTypeCorrect`, `ExitsHonouredTheorem`, `FillsWithinBarTheorem`, `FillsOnTimeTheorem`, `NoStaleExitTheorem`, `TotalsAgreeTheorem` | every property of the run, for all bars and scripts |
| `WorkerProofs` | `WorkerTypeCorrect`, `WorkerTracksRunners`, `WorkerStartsOnce`, `WorkerStopsBeforeWriting`, `WorkerCapacity`, `WorkerLoopEnds` | the register of runners, their number, and the end of the worker's loops |
| `PlatformProofs` | `PlatformTypeCorrect`, `PlatformOneBotPerAccount`, `PlatformBotsOwnTheirParts`, `PlatformPaidForIsKnown`, `PlatformLimits` | every property of the run, for any number of requests |
| `PineProofs` | `LayoutTheorem`, `SeriesTheorem`, `WindowTheorem`, `KeyTheorem`, `EmaTheorem`, `RmaTheorem`, `RsiTheorem`, `OthersTheorem` | the layout of every source, the history of every series, the indicators of a window and the streaming ones |
| | `WidthTheorem`, `SilentLineTheorem` | refinements: only the order of the columns matters to the lexer, and a blank or comment line does not |

### Lifecycle

`TypeCorrect` is the induction on `TypeOK`, one step per action. `BridgeTheorem`
needs nothing else: every writer of `_running_bots` writes `_bot_bridges` in the
same step. For `OneTaskPerBot` that is not enough. The check in `start_bot` is
separated from the registration by three awaits, and the lock that covers them is
deleted from `_start_locks` by the finally block of a finishing task. `LockInv` is
the strengthening: live tasks are registered, whoever is inside the lock
sees its bot unregistered and its lock still current, locks of different bots
differ, and at most one caller is inside a lock. The reason why deleting the lock
is harmless is then visible: the task that deletes it is registered until that
step, so nobody can be inside, and a waiter cannot exist without a holder except
in the moment in which it is woken. `ShutdownInv` says that `shutdown_all` still has
every live task before it, so that it empties the dictionaries only when no task is
alive.

One action breaks `LockInv`, and `double_start.cfg` shows it: a restart at boot that
has waited for the lock drops the entries of its bot, whatever is behind them. The
theorems therefore have the hypothesis `[]RestartFindsNoTask`: while a restart has still
to do that, its bot has no live task. It is discharged in two ways. `NoRestartTheorem` is
for a server with automatic restarts switched off, with any number of requests.
`RecoveryTheorem` is for one that restarts its bots while no user starts one
(run `recovery`): `AloneInv` says that the bots which the boot has still to restart have
no task, since only the boot itself makes one. `GraceTheorem` (`NoFalseOrphan`)
uses `GraceInv`: a bot registered since the reconciler's copy is still in its grace
period.

Two ranks are what liveness rests on here. `StepsLeft` counts the steps of the reconciler
before it comes to an orphaned row, five at most, since a copy of the keys taken before the
row was orphaned can hide it from one pass: `OrphanTheorem` says that every step of the
reconciler lowers it and only a failed pass, a shutdown or a restart raises it, until the
row no longer says running or the bot is registered. `EndsIn` counts the steps a task has left
once its bridge was told to stop, or once it has left the retry loop. What makes
`SignalledTheorem` hard is what others do to such a task: a cancellation can send it back to
`cancelled` from any of its writes, and the main loop swallows one; but only without the
signal, and nothing takes the signal from a task but the replacement of its bridge
(`FreshBridge`), which cannot happen in the main loop.

`StopEndsTask` does not hold, which is a finding of the run `stop_lost`. `StopSignalTheorem`
says that this replacement is the only reason: as long as the bridge is the one that the stop has
picked up, a stop that waits for a live task has its signal in force (`SignalHeld`), and then
the task, if it is scheduled at all, ends by `SignalledTheorem`. `StopInv` adds that the bridge of a
registered bot is that of its task (`PairKept`), for which `LiveIsRegistered` is needed, and with it
the hypothesis of that.

### Trades and money

`LedgerInv` adds to the types what the writers hold in flight: a position whose close
is being written has its closing deal, the row the listener read has not vanished,
and the deals of a pass are those of rows it will write. Directions and closes
and the refinement `BookTheorem` (`Spec => Book!Spec`, each step a `Record`, a
`Settle` or a stutter) follow.

`ReconciledIsGone` does not hold, which is a finding of the run `ledger_false_close`.
`QuietPassTheorem` says why, and that there is no other reason: if no position opens while a
pass is between the positions it has read and the rows it selects (`QuietPasses`), the
property is an invariant. `PassInv` carries it through the pass: the positions that the
pass has in its hands and whose rows it will write are gone. `GhostTheorem` is about the
converse, the trade whose close was missed: `Left`, six at most, falls with every step of
the reconciler and is raised only by one that fails.

`Books` says of every session that its copy of the balance differs from what it
read by just the transactions it added; `ExactTheorem` follows, since then a
commit from an up-to-date copy changes balance and transactions alike.
`ChargedIsDone` gives `FailedStartTheorem`.

The balance is not always right, the transactions are. `Pending` says that a session
holds its one transaction from the flush to its end; a commit moves it into the sum.
`TrailTheorem` counts them: the transactions are the opening balance, a fee for each answered
start and each answered setup, a credit for each answered payment and delivery, and a
cost for each of some number of ticks. `DepositTheorem` does the same for every checkout, and so
`OneDeliveryTheorem` names the only cause of the other finding, `CreditedOnce` in the run
`wallet_double`: a second delivery of the same completion. The kinds of requests have to
be finite, since requests are counted. `StopsTheorem` says that a bot which stops running has
ended by itself, or was stopped by a tick that saw a balance below the threshold;
it rests on `MarkInv`, the mark which the tick holds between its deduction and its commit.

### Live bridge

`OnePositionTheorem`: without a fault of the broker a bot has one position at most.
Alone the property is not inductive: `LiveInv` adds that there is no position at all
while the broker has still to decide the order that the cycle waits for. An order
which was given up counts only when it is filled, and then it is a fault.

`ObeyedTheorem` is about a step: when a cycle ends its execution with no failure
counted, the broker holds no position against the signal, or there was a fault.
`AgainstInv` carries that through the cycle: while an order is on its way nothing is held
on the other side, or there was a fault, and a cycle that reconnects remembers its failure
until the signal has been executed.

`AwaitsTheorem` bounds `AwaitsLeft`, the awaits a cycle still has before it: seven when it
begins to execute a signal, one reconnection and one retry included. No step of anybody
raises it within a cycle and every step of the bridge lowers it. With the fairness of the
bridge this is why `CycleEnds` holds, for any limits; that conclusion itself is TLC's.

### Backtest

`TradeSteps` says what any step does to the trades: nothing, a close at a price of the
bar, or an entry. `BacktestInv` adds to the properties the times of orders in flight
(`OrderTimes`: the orders of a bar are processed with the bar on which they are due,
and are then gone), that no trade lies in the future (`TradeTimes`), and which exit
orders the third loop has passed (`ExitsTried`). All properties of the run are
proved for any bars, prices, quantities, ids and scripts.

### Worker

`WorkerInv` is the types and `RegisterInv`: a login is made only for a bot without an
entry, a stop waits for the runner that is registered, what a shutdown has been through
is dead, and stopped stands in the session of a poll only for bots without an entry.
`WorkerTracksRunners` and `WorkerStopsBeforeWriting` follow, and `WorkerStartsOnce`: of
the runners of one life of the worker at most one holds a bot.

`WorkerCapacity`: the worker counts its runners against `max_bots` before the login and
registers the new one after it. `CapacityInv` says that the bots with an entry are at most
`max_bots`, and fewer while a login is under way. By `LiveIsTracked` the runners that hold a
bot go injectively into these bots, so that there are no more of them.

`WorkerLoopEnds`: a poll, a health check and a shutdown are loops over bots. The rank is
lexicographic: the loops still to come, then the set of bots still to do, which shrinks,
then the awaits of the bot at hand. Inside a loop every step of the worker lowers the rank
and no step of a runner, a request or the database raises it. For finitely many bots the
rank is well-founded, so that with the fairness of the worker its loops end; this is the half of
`StopServed` and `DeadRowResolved` that does not need fairness.

### Platform

`PlatformInv` adds to the properties that the request which made an account
at MetaApi is the only one at work on it, and that a bot which may be inserted has its parts.
`PlatformLimits` counts: a request is admitted only below the limit, and each one in flight
moves its own unit from the requests to the rows, so that `LimitsHold` is inductive with the
requests counted in.

### Pine

`LayoutTheorem` is proved of the lexer for every source, of any length: `Balanced` counts
the INDENT and DEDENT tokens of every prefix, a line that ends blocks emits a DEDENT for each
(`BalancedDedents`), and the stack stays strictly increasing (`StillOpenPrefix`).

Two refinements, of the lexer by the lexer of another source, say what a layout means.
`WidthTheorem`: move the lines of the source to other columns in the same order (`Widens`),
and the lexer takes the same steps to the same tokens or the same error; the mapping
moves the stack along with the columns. `SilentLineTheorem`: leave out a blank line, or a
comment at the column of the line before it (`SaysNothing`); the step over that line
becomes a stutter and every other one the same step. They are the lexer's half
of `RoundTrip`, for sources of any length: how wide the blocks are indented, and such lines between
others, say nothing.

`SeriesTheorem` is an induction on bars: `Keeps` says that what a series holds are the last
values of its history, and that it holds all of them or more than a trim leaves.
`PushShifts` and `SetCurrentKeeps` are the two operations. The library's induction over the
naturals takes an operator as its parameter; `NatInduct` replaces it by a set, from the
well-foundedness of `<`.

`WindowTheorem` carries this to `ta.sma`, `ta.highest`, `ta.lowest` and `ta.change`: the slice that
they take of the series (`Recent`) is that of the history (`RecentIsLately`), as long as the
length is at most what a trim leaves of the series (45,000).

`EmaTheorem` and `RmaTheorem` say that the code's streaming averages are the recurrences of
their definitions after any number of bars, also when the series has been trimmed in between and
only the stored average remembers its past. Their hypotheses are those of a script that calls
the function once a bar: no value is na, the length is again at most 45,000, nobody
else writes the entry between two calls, and no average happens to be the number that
stands for NaN. That nobody else writes it is what `OthersTheorem` gives for other calls of the two
functions, from the keys (`KeyTheorem`: 10007 shares no factor with 31, 37 and 41), and
`ta.macd`, which averages under the keys of `ta.ema`, is the case it leaves open. What the sum of the
first values is, a fold, is not looked into. `RsiTheorem` is the same for the two averages of
`ta.rsi`, of gains and of losses, which read one bar more than the length and begin on the
first bar that has all the moves.

### Only model-checked

- Liveness, which is beyond the proof system: `StartAnswered`, `SignalledPollingEnds`,
  `OrphanIsResolved`, `GhostResolved`, `PaidIsCredited`, `LowBalanceStops`, `CloseSignalObeyed`,
  `CycleEnds`, `StopServed`, `DeadRowResolved`. The part of them that needs no fairness is
  proved, see above, but for `StartAnswered`: a rank for
  `SignalledPollingEnds`, `OrphanIsResolved`, `GhostResolved`, `CycleEnds`, `StopServed` and
  `DeadRowResolved`, the safety of the outcome for `PaidIsCredited`, `LowBalanceStops` and,
  of one cycle, `CloseSignalObeyed`.
- `PineTypeOK`, `RoundTrip`, `HistoryAligned`, `IndicatorsRight` and `VarsBoundOnce`, which
  speak of whole programs: grammar and interpreter are recursive operators, over which
  the prover has no induction, and it cannot use a module that declares one.

## What is not modelled

`PROJECT.json` lists every component with its status. Not modelled:

- the MT5 bridge service: one thread runs every call to the terminal, and what a request sees
  is decided by the terminal, which is not in the repository;
- market hours, a pure function of the clock, whose answer is a choice in `LiveBridge`;
- the rate limiter, tokens, users, dashboards and administration: one request and one row each;
- subscriptions and plans; several users in one billing tick; partial closes, and deals that
  reverse a position on a netting account;
- rounding, powers, logarithms, strings and lists of Pine; sources of data; result figures;
- mails, health checks and clean-up, which read the state of other components;
- the frontend, the migrations, tools, and the client that tests a running server.

## Plan

Done: `BotLifecycle`, `TradeBook` and `TradeLedger`, `Wallet`, `LiveBridge`, `Backtest`, `Worker`,
`Platform`, all with proofs, and Pine from the source to the last bar.

What could follow, in the proofs: the streaming states of `ta.macd`, which shares its keys with
`ta.ema`; a rank for the waiters of a start lock (`StartAnswered`). In the model, in this
order: partial closes in `TradeLedger`; several users in one billing tick,
and subscriptions, in `Wallet`; the MT5 bridge service with a terminal that may lose its
connection at any time; strings and input overrides in `PineInterp`.
