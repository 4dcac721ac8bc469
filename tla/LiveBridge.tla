----------------------------- MODULE LiveBridge -----------------------------
(***************************************************************************)
(* The main loop of the bridge of a live bot: it polls for a closed bar,   *)
(* carries out the signal that the previous bar left, and computes the     *)
(* next one (pineforge/live/bridge.py, executor.py, risk.py, feed.py).     *)
(*                                                                         *)
(* An action is what the bridge does between two awaits.  The broker       *)
(* decides orders, and closes positions, on its own.                       *)
(***************************************************************************)
EXTENDS Integers

CONSTANTS
    None,
    MaxOpen,      \* bound: the margin of the account allows so many positions
    ConnectLimit, \* attempts to connect (3)
    ShortLimit,   \* attempts to warm up while the market is open (3)
    WarmupLimit   \* attempts to warm up in all (60)

ASSUME LiveBridgeAssumption ==
    /\ MaxOpen \in Nat \ {0}
    /\ ConnectLimit \in 1..WarmupLimit
    /\ ShortLimit \in Nat /\ WarmupLimit \in Nat /\ ShortLimit < WarmupLimit
    /\ None \notin {"long", "short", "close"}

Dirs == {"long", "short"}
Opposite(d) == IF d = "long" THEN "short" ELSE "long"
Signals == Dirs \cup {"close"}

VARIABLES
    open,     \* positions of the bot at the broker, in each direction
    late,     \* orders the bridge has given up and the broker has not decided
    faulted,  \* a read or a close failed, or a late order was filled
    newBar,   \* the last closed bar is not _last_bar_time
    attempt,  \* attempt of a new bridge to connect, then to warm up
    pc,       \* where the poll cycle is
    retrying, \* it is at the retry after a reconnection
    pending,  \* _pending_signal
    overdue,  \* a bar has been taken since the one that it was computed on
    failures, \* _execution_failures, up to the 2 that matter
    cooling,  \* the cooldown after the last trade has not elapsed
    order     \* the order that the cycle waits for

brokerVars == <<open, late, faulted>>
signalVars == <<pending, overdue>>
vars == <<brokerVars, newBar, attempt, pc, retrying, signalVars, failures, cooling, order>>

InCycle == {"read", "close", "order", "reconnect"}
Starting == {"connect", "warm", "sync"}

LiveTypeOK ==
    /\ open \in [Dirs -> 0..MaxOpen]
    /\ late \in [Dirs -> 0..MaxOpen]
    /\ faulted \in BOOLEAN
    /\ newBar \in BOOLEAN
    /\ attempt \in 0..WarmupLimit
    /\ pc \in InCycle \cup Starting \cup {"off", "idle"}
    /\ retrying \in BOOLEAN
    /\ pending \in Signals \cup {None}
    /\ overdue \in BOOLEAN
    /\ failures \in 0..2
    /\ cooling \in BOOLEAN
    /\ order \in {"none", "sent", "filled", "rejected"}
    /\ pc \in {"read", "close", "reconnect"} => pending \in Signals
    /\ pc = "order" => pending \in Dirs
    /\ pc = "order" <=> order # "none"

Nothing == [d \in Dirs |-> 0]
Total(positions) == positions["long"] + positions["short"]

Init ==
    /\ open = Nothing
    /\ late = Nothing
    /\ faulted = FALSE
    /\ newBar = TRUE
    /\ attempt = 0
    /\ pc = "off"
    /\ retrying = FALSE
    /\ pending = None
    /\ overdue = FALSE
    /\ failures = 0
    /\ cooling = FALSE
    /\ order = "none"

-----------------------------------------------------------------------------
(***************************************************************************)
(* The broker and the clock.                                               *)
(***************************************************************************)
BarCloses ==
    /\ ~newBar
    /\ newBar' = TRUE
    /\ UNCHANGED <<brokerVars, attempt, pc, retrying, signalVars, failures, cooling, order>>

CooldownEnds ==
    /\ cooling
    /\ cooling' = FALSE
    /\ UNCHANGED <<brokerVars, newBar, attempt, pc, retrying, signalVars, failures, order>>

BrokerFills ==
    /\ order = "sent"
    /\ Total(open) < MaxOpen
    /\ open' = [open EXCEPT ![pending] = @ + 1]
    /\ order' = "filled"
    /\ UNCHANGED <<late, faulted, newBar, attempt, pc, retrying, signalVars, failures, cooling>>

BrokerRejects ==
    /\ order = "sent"
    /\ order' = "rejected"
    /\ UNCHANGED <<brokerVars, newBar, attempt, pc, retrying, signalVars, failures, cooling>>

\* An order that the bridge has given up is decided after all.
LateFill(d) ==
    /\ late[d] > 0
    /\ Total(open) < MaxOpen
    /\ late' = [late EXCEPT ![d] = @ - 1]
    /\ open' = [open EXCEPT ![d] = @ + 1]
    /\ faulted' = TRUE
    /\ UNCHANGED <<newBar, attempt, pc, retrying, signalVars, failures, cooling, order>>

LateReject(d) ==
    /\ late[d] > 0
    /\ late' = [late EXCEPT ![d] = @ - 1]
    /\ UNCHANGED <<open, faulted, newBar, attempt, pc, retrying, signalVars, failures, cooling, order>>

\* A stop loss, the user, or a stop of the bot closes a position.
BrokerCloses(d) ==
    /\ open[d] > 0
    /\ open' = [open EXCEPT ![d] = @ - 1]
    /\ UNCHANGED <<late, faulted, newBar, attempt, pc, retrying, signalVars, failures, cooling, order>>

-----------------------------------------------------------------------------
(***************************************************************************)
(* The end of a cycle.                                                     *)
(***************************************************************************)
\* _feed_bar and _detect_signal: the script may leave a signal.  If it raises
\* there is none.
FeedBar ==
    /\ pending' \in Signals \cup {None}
    /\ overdue' = FALSE
    /\ retrying' = FALSE
    /\ pc' = "idle"

\* _execute_signal has returned.
Executed ==
    /\ failures' = 0
    /\ order' = "none"
    /\ FeedBar

\* The bridge no longer waits for its order: an undecided one is lost on the
\* way or is still to be decided.
GivesUpOrder ==
    \/ late' = late
    \/ /\ order = "sent"
       /\ late[pending] < MaxOpen
       /\ late' = [late EXCEPT ![pending] = @ + 1]

-----------------------------------------------------------------------------
(***************************************************************************)
(* The poll cycle.                                                         *)
(***************************************************************************)
\* A new bar, and no signal: it is fed.
PollFeeds ==
    /\ pc = "idle" /\ newBar /\ pending = None
    /\ newBar' = FALSE
    /\ FeedBar
    /\ UNCHANGED <<brokerVars, attempt, failures, cooling, order>>

\* A new bar, and the signal of an earlier one to be executed.
PollExecutes ==
    /\ pc = "idle" /\ newBar /\ pending # None
    /\ newBar' = FALSE
    /\ pc' = "read"
    /\ UNCHANGED <<brokerVars, attempt, retrying, signalVars, failures, cooling, order>>

\* check_can_trade and the order.
Enter ==
    IF cooling
    THEN Executed
    ELSE /\ pc' = "order"
         /\ order' = "sent"
         /\ UNCHANGED <<retrying, signalVars, failures>>

\* The position that the signal asks for.
Wanted == IF pending = "close" THEN None ELSE pending

\* Mutant: the test for "no position to close" is the wrong way round.
DecideInverted(seen) ==
    \/ /\ IF pending = "close" THEN seen # None ELSE seen = pending
       /\ Executed
    \/ /\ seen = None /\ pending # "close"
       /\ Enter
    \/ /\ IF pending = "close" THEN seen = None ELSE seen \notin {None, pending}
       /\ pc' = "close"
       /\ UNCHANGED <<retrying, signalVars, failures, order>>

\* What to do about the position that get_positions lists first, if any.
Decide(seen) ==
    \/ /\ seen = Wanted
       /\ Executed
    \/ /\ seen = None /\ seen # Wanted
       /\ Enter
    \/ /\ seen # None /\ seen # Wanted
       /\ pc' = "close"
       /\ UNCHANGED <<retrying, signalVars, failures, order>>

Held == {d \in Dirs : open[d] > 0}

GetPositions ==
    /\ pc = "read"
    /\ \E seen \in IF Held = {} THEN {None} ELSE Held : Decide(seen)
    /\ UNCHANGED <<brokerVars, newBar, attempt, cooling>>

\* get_positions times out or fails, and answers with an empty list.
GetPositionsFails ==
    /\ pc = "read"
    /\ Decide(None)
    /\ faulted' = (faulted \/ Held # {})
    /\ UNCHANGED <<open, late, newBar, attempt, cooling>>

\* close_all reads the positions and closes one after the other.  Its result
\* is not looked at.
CloseAll(left) ==
    /\ pc = "close"
    /\ \A d \in Dirs : left[d] <= open[d]
    /\ open' = left
    /\ faulted' = (faulted \/ left # Nothing)
    /\ IF pending = "close" THEN Executed ELSE Enter
    /\ UNCHANGED <<late, newBar, attempt, cooling>>

\* The result of the order, which starts the cooldown if there is one.
OrderAnswered ==
    /\ order \in {"filled", "rejected"}
    /\ cooling' = (cooling \/ order = "filled")
    /\ Executed
    /\ UNCHANGED <<brokerVars, newBar, attempt>>

\* Mutant: only an order that the broker has decided times out.
OrderTimesOutDecided ==
    /\ order \in {"filled", "rejected"}
    /\ Executed
    /\ UNCHANGED <<brokerVars, newBar, attempt, cooling>>

\* After 30 seconds the executor returns None, which is no failure.
OrderTimesOut ==
    /\ pc = "order"
    /\ GivesUpOrder
    /\ Executed
    /\ UNCHANGED <<open, faulted, newBar, attempt, cooling>>

-----------------------------------------------------------------------------
(***************************************************************************)
(* A CancelledError in an await of _execute_signal: from the SDK, from the *)
(* timeout of the cycle, or from the task that runs the bridge.            *)
(***************************************************************************)
\* What the awaited call may still have done.
Interrupted ==
    /\ pc \in {"read", "close", "order"}
    /\ \/ pc # "close" /\ open' = open
       \/ /\ pc = "close"
          /\ \E left \in [Dirs -> 0..MaxOpen] :
                /\ \A d \in Dirs : left[d] <= open[d]
                /\ open' = left
    /\ GivesUpOrder
    /\ order' = "none"
    /\ UNCHANGED <<faulted, newBar, attempt, cooling>>

\* It is caught: the signal is dropped, and the bar is fed.
FirstFailure ==
    /\ ~retrying /\ failures = 0
    /\ Interrupted
    /\ failures' = 1
    /\ FeedBar

\* Mutant: the order is sent again instead.
SecondFailureResends ==
    /\ ~retrying /\ failures > 0
    /\ pc = "order"
    /\ order' = "sent"
    /\ UNCHANGED <<brokerVars, newBar, attempt, pc, retrying, signalVars, failures, cooling>>

\* A second failure in a row leads to a reconnection.
SecondFailure ==
    /\ ~retrying /\ failures > 0
    /\ Interrupted
    /\ failures' = 2
    /\ pc' = "reconnect"
    /\ UNCHANGED <<retrying, signalVars>>

\* The handler of the retry does not catch it: the cycle ends at once, and the
\* bar is not fed.
RetryFails ==
    /\ retrying
    /\ Interrupted
    /\ retrying' = FALSE
    /\ pc' = "idle"
    /\ overdue' = TRUE
    /\ UNCHANGED <<pending, failures>>

\* The reconnection succeeds, fails or is cancelled: the signal is retried.
Reconnects ==
    /\ pc = "reconnect"
    /\ retrying' = TRUE
    /\ pc' = "read"
    /\ UNCHANGED <<brokerVars, newBar, attempt, signalVars, failures, cooling, order>>

\* A cancellation in the 30 seconds' sleep after a failed reconnection is not
\* caught.
ReconnectFails ==
    /\ pc = "reconnect"
    /\ pc' = "idle"
    /\ overdue' = TRUE
    /\ UNCHANGED <<brokerVars, newBar, attempt, retrying, pending, failures, cooling, order>>

-----------------------------------------------------------------------------
\* The bridge ends, by a shutdown, a failure or the death of the process.
BridgeEnds ==
    /\ pc # "off"
    /\ GivesUpOrder
    /\ pc' = "off"
    /\ order' = "none"
    /\ pending' = None
    /\ overdue' = FALSE
    /\ retrying' = FALSE
    /\ failures' = 0
    /\ cooling' = FALSE
    /\ attempt' = 0
    /\ UNCHANGED <<open, faulted, newBar>>

-----------------------------------------------------------------------------
(***************************************************************************)
(* A new bridge: it connects, warms up and looks for positions of its own. *)
(***************************************************************************)
\* The bridge goes to pc "to" and counts from n.
Advances(to, n) ==
    /\ pc' = to
    /\ attempt' = n
    /\ UNCHANGED <<brokerVars, retrying, signalVars, failures, cooling, order>>

BridgeStarts ==
    /\ pc = "off"
    /\ Advances("connect", 1)
    /\ UNCHANGED newBar

Connects ==
    /\ pc = "connect"
    /\ Advances("warm", 1)
    /\ UNCHANGED newBar

\* wait_connected times out: the third time it raises, and run ends.
ConnectTimesOut ==
    /\ pc = "connect"
    /\ IF attempt < ConnectLimit THEN Advances("connect", attempt + 1) ELSE Advances("off", 0)
    /\ UNCHANGED newBar

\* There are bars enough, which are fed up to the last closed one; the signal
\* that they leave is dropped.
WarmsUp ==
    /\ pc = "warm"
    /\ newBar' = FALSE
    /\ Advances("sync", 0)

\* Too few bars, or none since the call failed.  A closed market is waited for;
\* an open one only by the first attempts, which are the same as those that
\* found the market closed.
WarmupShort ==
    /\ pc = "warm"
    /\ \E closed \in BOOLEAN :
          IF attempt < WarmupLimit /\ (closed \/ attempt <= ShortLimit)
          THEN Advances("warm", attempt + 1)
          ELSE Advances("off", 0)
    /\ UNCHANGED newBar

\* _sync_existing_positions: the positions that it reads, or fails to read, only
\* set the position of a simulated broker that nothing reads.
Syncs ==
    /\ pc = "sync"
    /\ Advances("idle", 0)
    /\ UNCHANGED newBar

StartStep == WarmsUp \/ WarmupShort \/ Syncs

CycleStep ==
    \/ PollFeeds \/ PollExecutes \/ GetPositions
    \/ \E left \in [Dirs -> 0..MaxOpen] : CloseAll(left)
    \/ OrderAnswered \/ OrderTimesOut \/ Reconnects

Next ==
    \/ BarCloses
    \/ CooldownEnds
    \/ BrokerFills
    \/ BrokerRejects
    \/ \E d \in Dirs : LateFill(d)
    \/ \E d \in Dirs : LateReject(d)
    \/ \E d \in Dirs : BrokerCloses(d)
    \/ CycleStep
    \/ GetPositionsFails
    \/ FirstFailure
    \/ SecondFailure
    \/ RetryFails
    \/ ReconnectFails
    \/ BridgeEnds
    \/ BridgeStarts
    \/ Connects
    \/ ConnectTimesOut
    \/ StartStep

Spec == Init /\ [][Next]_vars

-----------------------------------------------------------------------------
\* The bot has one position at most (the comment in _sync_existing_positions),
\* however its orders are answered, timed out, interrupted and retried and the
\* bridge is restarted, unless the broker withheld something: a read that
\* failed, a close that failed, or an order filled after it was given up.
OnePositionUnlessFault == faulted \/ Total(open) <= 1

\* A signal is executed on the bar after the one that it was computed on (the
\* docstring of _poll_cycle).
ExecutesPreviousBar == pc = "read" => ~overdue

-----------------------------------------------------------------------------
(***************************************************************************)
(* Liveness: every await of a cycle has a timeout, bars go on closing, and *)
(* the loop goes on polling.                                               *)
(***************************************************************************)
FairSpec == Spec /\ WF_vars(CycleStep) /\ WF_vars(StartStep) /\ WF_vars(BarCloses)

\* The bot does what the script says: a signal to close leaves no position,
\* unless something failed, was interrupted, or the bridge ended.
CloseSignalObeyed ==
    (pending = "close") ~> (open = Nothing \/ faulted \/ failures > 0 \/ pc = "off")

\* A cycle comes to an end, whatever the broker does not answer (the timeouts
\* of the executor), and so does a warm-up, however long the market is closed
\* or its bars are missing (_fetch_warmup_bars_with_retry).
CycleEnds == (pc \in InCycle \cup {"warm", "sync"}) ~> (pc \in {"idle", "off"})
=============================================================================
