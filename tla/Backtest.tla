------------------------------ MODULE Backtest ------------------------------
(***************************************************************************)
(* The backtest: the engine feeds one bar after the other to the script    *)
(* and to the simulated broker, which fills the script's orders at the     *)
(* open of the next bar or at the close of the same one                    *)
(* (pineforge/engine.py, broker.py, builtins/strategy.py).                 *)
(*                                                                         *)
(* process_orders is split into its three loops, one order to an action.   *)
(* Amounts are integers, a commission a multiple of the price.             *)
(***************************************************************************)
EXTENDS Integers, Sequences

CONSTANTS
    None,
    InitialCapital, Commission, Slippage,
    Bars,      \* the bars that the data consists of
    Ids, Qtys, \* ids and quantities of entries
    ExitIds,   \* ids of exit orders
    Levels,    \* prices of stops and limits
    MaxBars,   \* bound: bars in the data
    MaxOrders  \* bound: market orders that the script gives on a bar

Prices == [open : Int, high : Int, low : Int, close : Int]

ASSUME BacktestAssumption ==
    /\ InitialCapital \in Int /\ Commission \in Nat /\ Slippage \in Nat
    /\ Qtys \subseteq Nat \ {0}
    /\ Levels \subseteq Int
    /\ None \notin Levels
    /\ Bars \subseteq Prices
    /\ \A b \in Bars : {b.open, b.close} \subseteq b.low..b.high
    /\ MaxBars \in Nat /\ MaxOrders \in Nat

VARIABLES
    fillOn,   \* fill_on
    pc,       \* where the engine is within the bar
    index,    \* bar_index, -1 before the first bar
    bar,      \* the bar
    pending,  \* pending_orders
    exits,    \* _exit_orders
    todo, at, \* the orders that the current loop goes through, and its index
    position, \* the open trade
    last,     \* the last of closed_trades
    cash, realized, equity,
    fees      \* the commissions of all entries: not in the code

account == <<cash, realized, equity, fees>>
data == <<fillOn, index, bar>>
vars == <<data, pc, pending, exits, todo, at, position, last, account>>

Dirs == {"long", "short"}

Order == [kind : {"entry"}, id : Ids, dir : Dirs, qty : Qtys, bar : Nat]
    \cup [kind : {"close"}, id : Ids, bar : Nat]
    \cup [kind : {"close_all"}, bar : Nat]

Exit == [id : ExitIds, from : Ids \cup {None}, stop : Levels \cup {None},
         limit : Levels \cup {None}, bar : Nat]

\* ordered is bar_index of the order, which the code's Trade does not keep.
Trade == [id : Ids, dir : Dirs, qty : Qtys, price : Int, bar : Nat, ordered : Nat]
ClosedTrade == [dir : Dirs, bar : Nat, ordered : Nat, exit : Int, exitBar : Nat]

UniqueIds(orders) == \A i, j \in 1..Len(orders) : orders[i].id = orders[j].id => i = j

BacktestTypeOK ==
    /\ fillOn \in {"next_open", "close"}
    /\ pc \in {"next", "closes", "entries", "exits", "equity", "script", "end"}
    /\ index \in Nat \cup {-1}
    /\ bar \in Bars \cup {None}
    /\ pc \in {"closes", "entries", "exits", "equity", "script"} \/ index >= 0
          => bar \in Bars /\ index \in Nat
    /\ pending \in Seq(Order)
    /\ exits \in Seq(Exit) /\ UniqueIds(exits)
    /\ todo \in Seq(IF pc = "exits" THEN Exit ELSE Order)
    /\ at \in Nat \ {0} /\ at <= Len(todo) + 1
    /\ position \in Trade \cup {None}
    /\ position # None => index >= 0
    /\ last \in ClosedTrade \cup {None}
    /\ cash \in Int /\ realized \in Int /\ equity \in Int /\ fees \in Int

Init ==
    /\ fillOn \in {"next_open", "close"}
    /\ pc = "next"
    /\ index = -1
    /\ bar = None
    /\ pending = <<>> /\ exits = <<>>
    /\ todo = <<>> /\ at = 1
    /\ position = None /\ last = None
    /\ cash = InitialCapital /\ realized = 0 /\ equity = InitialCapital /\ fees = 0

-----------------------------------------------------------------------------
(***************************************************************************)
(* Fills.                                                                  *)
(***************************************************************************)
FillPrice == IF fillOn = "next_open" THEN bar.open ELSE bar.close

Min2(a, b) == IF a <= b THEN a ELSE b
Max2(a, b) == IF a >= b THEN a ELSE b

\* What is left of a price on leaving a position, and what entering costs.
Leaving(dir, price) == IF dir = "long" THEN price - Slippage ELSE price + Slippage
Entering(dir, price) == IF dir = "long" THEN price + Slippage ELSE price - Slippage

Profit(trade, price) ==
    (IF trade.dir = "long" THEN price - trade.price ELSE trade.price - price) * trade.qty

\* What closing the position at a price brings, and its record.
Pnl(price) == Profit(position, price) - price * position.qty * Commission

Closed(price) == [dir |-> position.dir, bar |-> position.bar,
                  ordered |-> position.ordered, exit |-> price, exitBar |-> index]

\* Mutant: the commission is left out of the cash.
SettledGross(price) ==
    /\ last' = Closed(price)
    /\ cash' = cash + Profit(position, price)
    /\ realized' = realized + Pnl(price)

Settled(price) ==
    /\ last' = Closed(price)
    /\ cash' = cash + Pnl(price)
    /\ realized' = realized + Pnl(price)

\* Mutant: the exit orders of the closed position stay.
ClosePositionKeepsExits(price) ==
    /\ Settled(price)
    /\ position' = None
    /\ UNCHANGED <<exits, fees>>

ClosePosition(price) ==
    /\ Settled(price)
    /\ position' = None
    /\ exits' = <<>>
    /\ UNCHANGED fees

KeepPosition == UNCHANGED <<position, last, exits, cash, realized, fees>>

Opened(order) ==
    LET price == Entering(order.dir, FillPrice)
    IN  [id |-> order.id, dir |-> order.dir, qty |-> order.qty, price |-> price,
         bar |-> index, ordered |-> order.bar]

Fee(order) == Entering(order.dir, FillPrice) * order.qty * Commission

-----------------------------------------------------------------------------
(***************************************************************************)
(* process_orders.                                                         *)
(***************************************************************************)
\* Mutant: the orders stay pending.
BeginOrdersKeeps ==
    /\ pc' = "closes"
    /\ todo' = pending
    /\ at' = 1
    /\ UNCHANGED pending

BeginOrders ==
    /\ pc' = "closes"
    /\ todo' = pending
    /\ at' = 1
    /\ pending' = <<>>

InLoop(phase) == pc = phase /\ at <= Len(todo)

NextOrder == at' = at + 1 /\ UNCHANGED <<data, pc, pending, todo, equity>>

\* Phase 1: close and close_all apply to the position from before this bar.
FillClose ==
    /\ InLoop("closes")
    /\ LET order == todo[at]
       IN  IF /\ position # None
              /\ \/ order.kind = "close" /\ order.id = position.id
                 \/ order.kind = "close_all"
           THEN ClosePosition(Leaving(position.dir, FillPrice))
           ELSE KeepPosition
    /\ NextOrder

\* Phase 2: an entry opens a position, or turns one of the other direction.
FillEntry ==
    /\ InLoop("entries")
    /\ LET order == todo[at]
       IN  IF order.kind = "entry" /\ (position = None \/ position.dir # order.dir)
           THEN /\ position' = Opened(order)
                /\ fees' = fees + Fee(order)
                /\ \/ /\ position = None
                      /\ cash' = cash - Fee(order)
                      /\ UNCHANGED <<last, exits, realized>>
                   \/ /\ position # None
                      /\ LET price == Leaving(position.dir, FillPrice)
                         IN  /\ last' = Closed(price)
                             /\ cash' = cash + Pnl(price) - Fee(order)
                             /\ realized' = realized + Pnl(price)
                      /\ exits' = <<>>
           ELSE KeepPosition
    /\ NextOrder

Applies(order, trade) == order.from \in {None, trade.id}

\* Mutant: a long position's stop is compared with the close.
StopHitAtClose(order, trade) ==
    /\ order.stop # None
    /\ IF trade.dir = "long" THEN bar.close <= order.stop ELSE bar.high >= order.stop

StopHit(order, trade) ==
    /\ order.stop # None
    /\ IF trade.dir = "long" THEN bar.low <= order.stop ELSE bar.high >= order.stop

LimitHit(order, trade) ==
    /\ order.limit # None
    /\ IF trade.dir = "long" THEN bar.high >= order.limit ELSE bar.low <= order.limit

\* Mutant: a stop fills at its level, though the bar opened beyond it.
StopPriceAtLevel(order, trade) == order.stop

\* A bar that opens beyond the level fills at its open.
StopPrice(order, trade) ==
    IF trade.dir = "long" THEN Min2(bar.open, order.stop) ELSE Max2(bar.open, order.stop)

LimitPrice(order, trade) ==
    IF trade.dir = "long" THEN Max2(bar.open, order.limit) ELSE Min2(bar.open, order.limit)

\* Phase 3: the exit orders, a stop before its limit.
FillExit ==
    /\ InLoop("exits")
    /\ position # None
    /\ LET order == todo[at]
       IN  \/ /\ Applies(order, position) /\ StopHit(order, position)
              /\ ClosePosition(Leaving(position.dir, StopPrice(order, position)))
           \/ /\ Applies(order, position) /\ ~StopHit(order, position)
              /\ LimitHit(order, position)
              /\ ClosePosition(Leaving(position.dir, LimitPrice(order, position)))
           \/ /\ \/ ~Applies(order, position)
                 \/ ~StopHit(order, position) /\ ~LimitHit(order, position)
              /\ KeepPosition
    /\ NextOrder

\* The end of a loop.  The third one goes through a copy of _exit_orders, and
\* ends with the position.
ClosesEnd ==
    /\ pc = "closes" /\ at > Len(todo)
    /\ pc' = "entries"
    /\ at' = 1
    /\ UNCHANGED <<data, pending, exits, todo, position, last, account>>

EntriesEnd ==
    /\ pc = "entries" /\ at > Len(todo)
    /\ pc' = "exits"
    /\ todo' = exits
    /\ at' = 1
    /\ UNCHANGED <<data, pending, exits, position, last, account>>

ExitsEnd ==
    /\ pc = "exits" /\ (at > Len(todo) \/ position = None)
    /\ pc' = "equity"
    /\ todo' = <<>>
    /\ at' = 1
    /\ UNCHANGED <<data, pending, exits, position, last, account>>

-----------------------------------------------------------------------------
(***************************************************************************)
(* The engine.                                                             *)
(***************************************************************************)
Unrealized == IF position = None THEN 0 ELSE Profit(position, bar.close)

UpdateEquity ==
    /\ pc = "equity"
    /\ equity' = InitialCapital + realized + Unrealized
    /\ pc' = IF fillOn = "next_open" THEN "script" ELSE "next"
    /\ UNCHANGED <<data, pending, exits, todo, at, position, last, cash, realized, fees>>

\* The next bar.  The orders of the previous one are processed first, unless
\* they fill at the close; the first bar has none, only its equity is taken.
NextBar ==
    /\ pc = "next" /\ index + 1 < MaxBars
    /\ index' = index + 1
    /\ bar' \in Bars
    /\ IF fillOn = "next_open" /\ index >= 0
       THEN BeginOrders
       ELSE /\ pc' = "script"
            /\ UNCHANGED <<pending, todo, at>>
    /\ UNCHANGED <<fillOn, exits, position, last, account>>

\* strategy.entry, strategy.order, strategy.close and strategy.close_all.
Submit(order) ==
    /\ pc = "script" /\ Len(pending) < MaxOrders
    /\ order.bar = index
    /\ pending' = Append(pending, order)
    /\ UNCHANGED <<data, pc, exits, todo, at, position, last, account>>

\* Mutant: an order of the same id is not replaced.
WithoutNothing(orders, id) == orders

\* The list without the order of that id, which is there at most once.
Without(orders, id) ==
    IF \E k \in 1..Len(orders) : orders[k].id = id
    THEN LET k == CHOOSE k \in 1..Len(orders) : orders[k].id = id
         IN  [i \in 1..Len(orders) - 1 |-> IF i < k THEN orders[i] ELSE orders[i + 1]]
    ELSE orders

\* strategy.exit replaces the exit order of the same id.
SubmitExit(order) ==
    /\ pc = "script"
    /\ order.bar = index
    /\ exits' = Append(Without(exits, order.id), order)
    /\ UNCHANGED <<data, pc, pending, todo, at, position, last, account>>

ScriptEnds ==
    /\ pc = "script"
    /\ IF fillOn = "close"
       THEN BeginOrders
       ELSE /\ pc' = "next"
            /\ UNCHANGED <<pending, todo, at>>
    /\ UNCHANGED <<data, exits, position, last, account>>

\* The data end: an open position is closed at the last close.  The equity is
\* not computed again.
DataEnds ==
    /\ pc = "next"
    /\ pc' = "end"
    /\ IF position # None
       THEN ClosePosition(Leaving(position.dir, bar.close))
       ELSE KeepPosition
    /\ UNCHANGED <<data, pending, todo, at, equity>>

MarketOrders ==
    [kind : {"entry"}, id : Ids, dir : Dirs, qty : Qtys, bar : {index}]
        \cup [kind : {"close"}, id : Ids, bar : {index}]
        \cup [kind : {"close_all"}, bar : {index}]

ExitOrders ==
    [id : ExitIds, from : Ids \cup {None}, stop : Levels \cup {None},
     limit : Levels \cup {None}, bar : {index}]

Next ==
    \/ NextBar
    \/ FillClose \/ ClosesEnd
    \/ FillEntry \/ EntriesEnd
    \/ FillExit \/ ExitsEnd
    \/ UpdateEquity
    \/ \E order \in MarketOrders : Submit(order)
    \/ \E order \in ExitOrders : SubmitExit(order)
    \/ ScriptEnds
    \/ DataEnds

Spec == Init /\ [][Next]_vars

-----------------------------------------------------------------------------
\* The bar lies between the stop and the limit of an exit order.
Between(order, trade) ==
    LET below == IF trade.dir = "long" THEN order.stop ELSE order.limit
        above == IF trade.dir = "long" THEN order.limit ELSE order.stop
    IN  (below # None => below < bar.low) /\ (above # None => bar.high < above)

\* Stops and limits hold: whatever orders a bar brings, at the end of
\* process_orders no position is open with an exit order that is meant for it
\* and whose level the bar has touched.
ExitsHonoured ==
    pc = "equity" /\ position # None =>
        \A i \in 1..Len(exits) :
            exits[i].from \in {None, position.id} => Between(exits[i], position)

\* The price without the slippage, which is always against the trader.
Bought(price) == price - Slippage
Sold(price) == price + Slippage

\* Nothing is filled at a price that the bar did not trade at, but for an
\* adverse slippage, even when the bar opens beyond a stop or a limit.
FillsWithinBar ==
    /\ position # None /\ position.bar = index =>
          (IF position.dir = "long" THEN Bought(position.price) ELSE Sold(position.price))
              \in bar.low..bar.high
    /\ last # None /\ last.exitBar = index =>
          (IF last.dir = "long" THEN Sold(last.exit) ELSE Bought(last.exit))
              \in bar.low..bar.high

Delay == IF fillOn = "next_open" THEN 1 ELSE 0

\* An entry is filled once, on the bar after the one whose script ordered it, or on
\* that one's close: neither earlier (no look-ahead) nor again later.  Trades
\* follow each other without overlap.
FillsOnTime ==
    /\ position # None => position.bar = position.ordered + Delay
    /\ last # None => last.bar = last.ordered + Delay /\ last.bar <= last.exitBar
    /\ position # None /\ last # None => last.exitBar <= position.bar

\* No exit order outlives the trade that it was placed for: each was placed
\* when the last closed trade had ended, or on the bar where it did.
NoStaleExit ==
    last # None => \A i \in 1..Len(exits) : exits[i].bar >= last.exitBar

\* The two running totals agree: the cash is the realized profit but for the
\* commissions of entries, and without a position the equity of the bar is
\* what was realized.
TotalsAgree ==
    /\ cash + fees = InitialCapital + realized
    /\ position = None /\ pc \in {"script", "next"} => equity = InitialCapital + realized
=============================================================================
