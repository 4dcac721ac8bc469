--------------------------- MODULE BacktestProofs ---------------------------
(* The safety of Backtest, for every set of bars and every script. *)
EXTENDS Backtest, TLAPS

LEMMA Constants ==
  /\ InitialCapital \in Int /\ Commission \in Int /\ Commission >= 0
  /\ Slippage \in Int /\ Slippage >= 0
BY BacktestAssumption

LEMMA QtyType ==
  ASSUME NEW qty \in Qtys
  PROVE  qty \in Int
BY BacktestAssumption

LEMMA LevelType ==
  ASSUME NEW level \in Levels \cup {None}
  PROVE  level # None => level \in Int
<1>1. Levels \subseteq Int
    BY BacktestAssumption
<1> QED
    BY <1>1

\* The prices of a bar, which open and close within its range.
LEMMA BarPrices ==
  ASSUME NEW b \in Bars
  PROVE  /\ b.low \in Int /\ b.high \in Int
         /\ b.open \in Int /\ b.low <= b.open /\ b.open <= b.high
         /\ b.close \in Int /\ b.low <= b.close /\ b.close <= b.high
<1>1. b.low \in Int /\ b.high \in Int
    BY BacktestAssumption DEF Prices
<1>2. b.open \in b.low..b.high /\ b.close \in b.low..b.high
    BY BacktestAssumption
<1> QED
    BY <1>1, <1>2

LEMMA FillPriceInBar ==
  ASSUME bar \in Bars
  PROVE  FillPrice \in Int /\ bar.low <= FillPrice /\ FillPrice <= bar.high
BY BarPrices DEF FillPrice

LEMMA SlippedType ==
  ASSUME NEW dir, NEW price \in Int
  PROVE  Leaving(dir, price) \in Int /\ Entering(dir, price) \in Int
BY Constants DEF Leaving, Entering

LEMMA ProductType ==
  ASSUME NEW a \in Int, NEW b \in Int
  PROVE  a * b \in Int
OBVIOUS

LEMMA ProfitType ==
  ASSUME NEW trade \in Trade, NEW price \in Int
  PROVE  Profit(trade, price) \in Int
<1> DEFINE gain == IF trade.dir = "long" THEN price - trade.price ELSE trade.price - price
<1>1. trade.price \in Int /\ trade.qty \in Int
    BY QtyType DEF Trade
<1>2. gain \in Int
    BY <1>1
<1>3. gain * trade.qty \in Int
    BY <1>1, <1>2, ProductType
<1> QED
    BY <1>3 DEF Profit

LEMMA ClosedType ==
  ASSUME position \in Trade, index \in Nat, NEW price \in Int
  PROVE  Pnl(price) \in Int /\ Closed(price) \in ClosedTrade
<1>0. /\ position.price \in Int /\ position.qty \in Qtys
      /\ position.dir \in Dirs /\ position.bar \in Nat /\ position.ordered \in Nat
    BY DEF Trade
<1>1. position.price \in Int /\ position.qty \in Int
    BY <1>0, QtyType
<1>2. Closed(price) \in ClosedTrade
    BY <1>0 DEF Closed, ClosedTrade
<1>3. price * position.qty \in Int
    BY <1>1, ProductType
<1>4. (price * position.qty) * Commission \in Int
    BY <1>3, ProductType, Constants
<1> QED
    BY <1>2, <1>4, ProfitType DEF Pnl

LEMMA OpenedType ==
  ASSUME bar \in Bars, index \in Nat, NEW order \in Order, order.kind = "entry"
  PROVE  Opened(order) \in Trade /\ Fee(order) \in Int
<1>1. /\ order.id \in Ids /\ order.dir \in Dirs /\ order.qty \in Qtys /\ order.bar \in Nat
  <2> DEFINE Entries == [kind : {"entry"}, id : Ids, dir : Dirs, qty : Qtys, bar : Nat]
  <2>1. order \in Entries
    BY DEF Order
  <2> QED
    BY <2>1
<1>2. Entering(order.dir, FillPrice) \in Int
    BY FillPriceInBar, SlippedType
<1>3. Opened(order) \in Trade
    BY <1>1, <1>2 DEF Opened, Trade
<1>4. Entering(order.dir, FillPrice) * order.qty \in Int
    BY <1>1, <1>2, ProductType, QtyType
<1>5. (Entering(order.dir, FillPrice) * order.qty) * Commission \in Int
    BY <1>4, ProductType, Constants
<1> QED
    BY <1>3, <1>5 DEF Fee

\* Replacing an exit order: what is left was there before, and has other ids.
LEMMA WithoutFacts ==
  ASSUME NEW s \in Seq(Exit), UniqueIds(s), NEW id
  PROVE  /\ Without(s, id) \in Seq(Exit)
         /\ UniqueIds(Without(s, id))
         /\ \A i \in 1..Len(Without(s, id)) :
                /\ Without(s, id)[i].id # id
                /\ \E j \in 1..Len(s) : Without(s, id)[i] = s[j]
<1>1. CASE ~ \E k \in 1..Len(s) : s[k].id = id
    BY <1>1 DEF Without
<1>2. CASE \E k \in 1..Len(s) : s[k].id = id
  <2> DEFINE k == CHOOSE k \in 1..Len(s) : s[k].id = id
             w == [i \in 1..Len(s) - 1 |-> IF i < k THEN s[i] ELSE s[i + 1]]
             old(i) == IF i < k THEN i ELSE i + 1
  <2>1. k \in 1..Len(s) /\ s[k].id = id
    BY <1>2
  <2>2. Without(s, id) = w
    BY <1>2 DEF Without
  <2> HIDE DEF k
  <2>3. \A i \in 1..Len(s) - 1 : /\ w[i] = s[old(i)]
                                 /\ old(i) \in 1..Len(s) /\ old(i) # k
    BY <2>1
  <2>4. w \in Seq(Exit) /\ Len(w) = Len(s) - 1
    <3>1. Len(s) - 1 \in Nat
      BY <2>1
    <3>2. \A i \in 1..Len(s) - 1 : w[i] \in Exit
      BY <2>3
    <3> QED
      BY <3>1, <3>2
  <2>5. UniqueIds(w)
    <3> SUFFICES ASSUME NEW i \in 1..Len(s) - 1, NEW j \in 1..Len(s) - 1, w[i].id = w[j].id
                 PROVE  i = j
      BY <2>4 DEF UniqueIds
    <3>1. old(i) = old(j)
      BY <2>3 DEF UniqueIds
    <3> QED
      BY <3>1, <2>1
  <2>6. \A i \in 1..Len(w) : w[i].id # id
    BY <2>1, <2>3, <2>4 DEF UniqueIds
  <2> QED
    BY <2>2, <2>3, <2>4, <2>5, <2>6
<1> QED
    BY <1>1, <1>2

-----------------------------------------------------------------------------
(***************************************************************************)
(* Types.                                                                  *)
(***************************************************************************)
LEMMA InitTypes == Init => BacktestTypeOK
<1> SUFFICES ASSUME Init PROVE BacktestTypeOK
    OBVIOUS
<1>1. /\ pending \in Seq(Order) /\ exits \in Seq(Exit) /\ todo \in Seq(Order)
      /\ UniqueIds(exits) /\ Len(todo) = 0
    BY DEF Init, UniqueIds
<1> QED
    BY <1>1, Constants DEF Init, BacktestTypeOK

\* What closing a position leaves.
LEMMA ClosePositionType ==
  ASSUME BacktestTypeOK, position # None, NEW price \in Int, ClosePosition(price)
  PROVE  /\ position' = None /\ exits' = <<>> /\ fees' \in Int
         /\ last' = Closed(price) /\ last' \in ClosedTrade
         /\ cash' \in Int /\ realized' \in Int
<1>1. /\ position \in Trade /\ index \in Nat
      /\ cash \in Int /\ realized \in Int /\ fees \in Int
    BY DEF BacktestTypeOK
<1>2. Pnl(price) \in Int /\ Closed(price) \in ClosedTrade
    BY <1>1, ClosedType
<1> QED
    BY <1>1, <1>2 DEF ClosePosition, Settled

LEMMA NoExits == <<>> \in Seq(Exit) /\ UniqueIds(<<>>)
BY DEF UniqueIds

\* An order in a loop of process_orders.
LEMMA InLoopFacts ==
  ASSUME BacktestTypeOK, NEW phase \in {"closes", "entries", "exits"}, InLoop(phase), NextOrder
  PROVE  /\ at \in 1..Len(todo) /\ at' \in Nat \ {0} /\ at' <= Len(todo') + 1
         /\ todo[at] \in (IF pc = "exits" THEN Exit ELSE Order)
         /\ bar \in Bars /\ index \in Nat
BY DEF BacktestTypeOK, InLoop, NextOrder

\* The prices at which an exit order closes the position.
LEMMA ExitPrice ==
  ASSUME BacktestTypeOK, bar \in Bars, NEW order \in Exit, position \in Trade
  PROVE  /\ StopHit(order, position) =>
                /\ StopPrice(order, position) \in Int
                /\ bar.low <= StopPrice(order, position)
                /\ StopPrice(order, position) <= bar.high
         /\ LimitHit(order, position) =>
                /\ LimitPrice(order, position) \in Int
                /\ bar.low <= LimitPrice(order, position)
                /\ LimitPrice(order, position) <= bar.high
<1>1. order.stop \in Levels \cup {None} /\ order.limit \in Levels \cup {None}
    BY DEF Exit
<1>2. /\ order.stop # None => order.stop \in Int
      /\ order.limit # None => order.limit \in Int
    BY <1>1, LevelType
<1>3. /\ bar.low \in Int /\ bar.high \in Int /\ bar.open \in Int
      /\ bar.low <= bar.open /\ bar.open <= bar.high
    BY BarPrices
<1>4. StopHit(order, position) =>
         /\ StopPrice(order, position) \in Int
         /\ bar.low <= StopPrice(order, position)
         /\ StopPrice(order, position) <= bar.high
    BY <1>2, <1>3 DEF StopHit, StopPrice, Min2, Max2
<1>5. LimitHit(order, position) =>
         /\ LimitPrice(order, position) \in Int
         /\ bar.low <= LimitPrice(order, position)
         /\ LimitPrice(order, position) <= bar.high
    BY <1>2, <1>3 DEF LimitHit, LimitPrice, Min2, Max2
<1> QED
    BY <1>4, <1>5


LEMMA NextTypes ==
  ASSUME BacktestTypeOK, [Next]_vars
  PROVE  BacktestTypeOK'
<1> USE DEF account, data
<1>1. ASSUME NextBar PROVE BacktestTypeOK'
  <2>1. index' \in Nat /\ bar' \in Bars
    BY <1>1 DEF NextBar, BacktestTypeOK
  <2>0. pending \in Seq(Order) /\ todo \in Seq(Order) /\ <<>> \in Seq(Order)
    BY <1>1 DEF NextBar, BacktestTypeOK
  <2>2. pending' \in Seq(Order) /\ todo' \in Seq(Order)
    BY <1>1, <2>0 DEF NextBar, BeginOrders
  <2>3. at' \in Nat \ {0} /\ at' <= Len(todo') + 1
    BY <1>1 DEF NextBar, BeginOrders, BacktestTypeOK
  <2> QED
    BY <1>1, <2>1, <2>2, <2>3 DEF NextBar, BeginOrders, BacktestTypeOK
<1>2. ASSUME FillClose PROVE BacktestTypeOK'
  <2>1. InLoop("closes") /\ NextOrder
    BY <1>2 DEF FillClose
  <2>2. at' \in Nat \ {0} /\ at' <= Len(todo') + 1 /\ bar \in Bars
    BY <2>1, InLoopFacts
  <2>3. CASE KeepPosition
    BY <2>1, <2>2, <2>3 DEF KeepPosition, NextOrder, BacktestTypeOK
  <2>4. CASE position # None /\ ClosePosition(Leaving(position.dir, FillPrice))
    <3>1. Leaving(position.dir, FillPrice) \in Int
      BY <2>2, FillPriceInBar, SlippedType
    <3>2. /\ position' = None /\ exits' = <<>> /\ fees' \in Int
          /\ last' \in ClosedTrade /\ cash' \in Int /\ realized' \in Int
      BY <2>4, <3>1, ClosePositionType
    <3> QED
      BY <2>1, <2>2, <3>2, NoExits DEF NextOrder, BacktestTypeOK
  <2> QED
    BY <1>2, <2>3, <2>4 DEF FillClose
<1>3. ASSUME FillEntry PROVE BacktestTypeOK'
  <2>1. InLoop("entries") /\ NextOrder /\ todo[at] \in Order
    BY <1>3, InLoopFacts DEF FillEntry, InLoop
  <2>2. at' \in Nat \ {0} /\ at' <= Len(todo') + 1 /\ bar \in Bars /\ index \in Nat
    BY <2>1, InLoopFacts
  <2>3. CASE KeepPosition
    BY <2>1, <2>2, <2>3 DEF KeepPosition, NextOrder, BacktestTypeOK
  <2>4. CASE todo[at].kind = "entry" /\ (position = None \/ position.dir # todo[at].dir)
    <3>0. position' = Opened(todo[at]) /\ fees' = fees + Fee(todo[at])
      BY <1>3, <2>4 DEF FillEntry
    <3>1. Opened(todo[at]) \in Trade /\ Fee(todo[at]) \in Int
      BY <2>1, <2>2, <2>4, OpenedType
    <3>2. CASE /\ cash' = cash - Fee(todo[at])
               /\ fees' = fees + Fee(todo[at])
               /\ UNCHANGED <<last, exits, realized>>
      BY <2>1, <2>2, <3>0, <3>1, <3>2 DEF NextOrder, BacktestTypeOK
    <3>3. ASSUME NEW price \in Int, position # None,
                 last' = Closed(price),
                 cash' = cash + Pnl(price) - Fee(todo[at]),
                 realized' = realized + Pnl(price),
                 exits' = <<>>,
                 fees' = fees + Fee(todo[at])
          PROVE  BacktestTypeOK'
      <4>1. position \in Trade
        BY <3>3 DEF BacktestTypeOK
      <4>2. last' \in ClosedTrade /\ Pnl(price) \in Int
        BY <2>2, <3>3, <4>1, ClosedType
      <4>3. cash \in Int /\ realized \in Int /\ fees \in Int
        BY DEF BacktestTypeOK
      <4>4. cash' \in Int /\ realized' \in Int /\ fees' \in Int
        BY <3>1, <3>3, <4>2, <4>3
      <4> QED
        BY <2>1, <2>2, <3>0, <3>1, <3>3, <4>2, <4>4, NoExits DEF NextOrder, BacktestTypeOK
    <3> DEFINE price == Leaving(position.dir, FillPrice)
    <3>4. price \in Int
      BY <2>2, FillPriceInBar, SlippedType
    <3> HIDE DEF price
    <3> QED
      <4>1. CASE position = None
        <5>1. /\ cash' = cash - Fee(todo[at]) /\ fees' = fees + Fee(todo[at])
              /\ last' = last /\ exits' = exits /\ realized' = realized
          BY <1>3, <2>4, <4>1 DEF FillEntry
        <5> QED
          BY <3>0, <3>2, <5>1
      <4>2. CASE position # None
        <5>1. /\ last' = Closed(price) /\ exits' = <<>>
              /\ cash' = cash + Pnl(price) - Fee(todo[at])
              /\ realized' = realized + Pnl(price)
          BY <1>3, <2>4, <4>2 DEF FillEntry, price
        <5> QED
          BY <3>0, <3>3, <3>4, <4>2, <5>1
      <4> QED
        BY <4>1, <4>2
  <2> QED
    BY <1>3, <2>3, <2>4 DEF FillEntry
<1>4. ASSUME FillExit PROVE BacktestTypeOK'
  <2>1. InLoop("exits") /\ NextOrder /\ pc = "exits" /\ position # None
    BY <1>4 DEF FillExit, InLoop
  <2>2. /\ at' \in Nat \ {0} /\ at' <= Len(todo') + 1 /\ bar \in Bars
        /\ todo[at] \in Exit /\ position \in Trade
    BY <2>1, InLoopFacts DEF BacktestTypeOK
  <2>3. CASE KeepPosition
    BY <2>1, <2>2, <2>3 DEF KeepPosition, NextOrder, BacktestTypeOK
  <2>4. ASSUME NEW price \in Int, ClosePosition(price)
        PROVE  BacktestTypeOK'
    <3>1. /\ position' = None /\ exits' = <<>> /\ fees' \in Int
          /\ last' \in ClosedTrade /\ cash' \in Int /\ realized' \in Int
      BY <2>1, <2>4, ClosePositionType
    <3> QED
      BY <2>1, <2>2, <3>1, NoExits DEF NextOrder, BacktestTypeOK
  <2>5. /\ StopHit(todo[at], position) =>
               Leaving(position.dir, StopPrice(todo[at], position)) \in Int
        /\ LimitHit(todo[at], position) =>
               Leaving(position.dir, LimitPrice(todo[at], position)) \in Int
    BY <2>2, ExitPrice, SlippedType
  <2> QED
    BY <1>4, <2>3, <2>4, <2>5 DEF FillExit
<1>5. ASSUME ClosesEnd PROVE BacktestTypeOK'
    BY <1>5 DEF ClosesEnd, BacktestTypeOK
<1>6. ASSUME EntriesEnd PROVE BacktestTypeOK'
  <2>1. todo' \in Seq(Exit) /\ 1 <= Len(todo') + 1
    BY <1>6 DEF EntriesEnd, BacktestTypeOK
  <2> QED
    BY <1>6, <2>1 DEF EntriesEnd, BacktestTypeOK
<1>7. ASSUME ExitsEnd PROVE BacktestTypeOK'
  <2>1. todo' \in Seq(Order) /\ Len(todo') = 0
    BY <1>7 DEF ExitsEnd
  <2> QED
    BY <1>7, <2>1 DEF ExitsEnd, BacktestTypeOK
<1>8. ASSUME UpdateEquity PROVE BacktestTypeOK'
  <2>1. bar \in Bars /\ index \in Nat
    BY <1>8 DEF UpdateEquity, BacktestTypeOK
  <2>2. Unrealized \in Int
    <3>1. CASE position = None
      BY <3>1 DEF Unrealized
    <3>2. CASE position # None
      <4>1. position \in Trade
        BY <3>2 DEF BacktestTypeOK
      <4>2. Profit(position, bar.close) \in Int
        BY <2>1, <4>1, BarPrices, ProfitType
      <4> QED
        BY <3>2, <4>2 DEF Unrealized
    <3> QED
      BY <3>1, <3>2
  <2>3. equity' \in Int
    BY <1>8, <2>2, Constants DEF UpdateEquity, BacktestTypeOK
  <2>4. /\ pc' \in {"script", "next"} /\ todo \in Seq(Order)
    BY <1>8 DEF UpdateEquity, BacktestTypeOK
  <2> QED
    BY <1>8, <2>1, <2>3, <2>4 DEF UpdateEquity, BacktestTypeOK
<1>9. ASSUME NEW order \in MarketOrders, Submit(order) PROVE BacktestTypeOK'
  <2>1. index \in Nat
    BY <1>9 DEF Submit, BacktestTypeOK
  <2>2. order \in Order
    BY <2>1, <1>9 DEF MarketOrders, Order
  <2>3. pending' \in Seq(Order)
    BY <1>9, <2>2 DEF Submit, BacktestTypeOK
  <2> QED
    BY <1>9, <2>3 DEF Submit, BacktestTypeOK
<1>10. ASSUME NEW order \in ExitOrders, SubmitExit(order) PROVE BacktestTypeOK'
  <2>1. index \in Nat
    BY <1>10 DEF SubmitExit, BacktestTypeOK
  <2>2. order \in Exit
    BY <2>1, <1>10 DEF ExitOrders, Exit
  <2> DEFINE rest == Without(exits, order.id)
  <2>3. /\ rest \in Seq(Exit) /\ UniqueIds(rest)
        /\ \A i \in 1..Len(rest) : rest[i].id # order.id
    BY WithoutFacts DEF BacktestTypeOK
  <2> HIDE DEF rest
  <2>4. exits' \in Seq(Exit) /\ UniqueIds(exits')
    <3>1. exits' = Append(rest, order)
      BY <1>10 DEF SubmitExit, rest
    <3>2. /\ exits' \in Seq(Exit) /\ Len(exits') = Len(rest) + 1
          /\ exits'[Len(rest) + 1] = order
          /\ \A i \in 1..Len(rest) : exits'[i] = rest[i]
      BY <2>2, <2>3, <3>1
    <3> QED
      BY <2>3, <3>2 DEF UniqueIds
  <2> QED
    BY <1>10, <2>4 DEF SubmitExit, BacktestTypeOK
<1>11. ASSUME ScriptEnds PROVE BacktestTypeOK'
  <2>0. pending \in Seq(Order) /\ todo \in Seq(Order) /\ <<>> \in Seq(Order)
    BY <1>11 DEF ScriptEnds, BacktestTypeOK
  <2>1. pending' \in Seq(Order) /\ todo' \in Seq(Order)
    BY <1>11, <2>0 DEF ScriptEnds, BeginOrders
  <2>2. at' \in Nat \ {0} /\ at' <= Len(todo') + 1
    BY <1>11 DEF ScriptEnds, BeginOrders, BacktestTypeOK
  <2> QED
    BY <1>11, <2>1, <2>2 DEF ScriptEnds, BeginOrders, BacktestTypeOK
<1>12. ASSUME DataEnds PROVE BacktestTypeOK'
  <2>1. CASE KeepPosition
    BY <1>12, <2>1 DEF DataEnds, KeepPosition, BacktestTypeOK
  <2>2. CASE position # None /\ ClosePosition(Leaving(position.dir, bar.close))
    <3>1. bar \in Bars
      BY <2>2 DEF BacktestTypeOK
    <3>2. Leaving(position.dir, bar.close) \in Int
      BY <3>1, BarPrices, SlippedType
    <3>3. /\ position' = None /\ exits' = <<>> /\ fees' \in Int
          /\ last' \in ClosedTrade /\ cash' \in Int /\ realized' \in Int
      BY <2>2, <3>2, ClosePositionType
    <3> QED
      BY <1>12, <3>1, <3>3, NoExits DEF DataEnds, BacktestTypeOK
  <2> QED
    BY <1>12, <2>1, <2>2 DEF DataEnds
<1>13. ASSUME UNCHANGED vars PROVE BacktestTypeOK'
    BY <1>13 DEF vars, BacktestTypeOK
<1> QED
    BY <1>1, <1>2, <1>3, <1>4, <1>5, <1>6, <1>7, <1>8, <1>9, <1>10, <1>11, <1>12, <1>13
       DEF Next

\* The engine and its broker keep their types; in particular there is one exit
\* order of an id at most.
THEOREM BacktestTypeCorrect == Spec => []BacktestTypeOK
<1>1. Init => BacktestTypeOK
    BY InitTypes
<1> QED
    BY <1>1, NextTypes, PTL DEF Spec

-----------------------------------------------------------------------------
(***************************************************************************)
(* What a step does to the trades.                                         *)
(***************************************************************************)
\* The price of leaving a position lies in the bar, but for the slippage.
ExitInBar(price) ==
    (IF position.dir = "long" THEN Sold(price) ELSE Bought(price)) \in bar.low..bar.high

\* The position is closed, which also removes the exit orders.
Closes ==
    /\ position # None
    /\ exits' = <<>>
    /\ \E price \in Int : last' = Closed(price) /\ ExitInBar(price)

\* An entry is filled.
Opens ==
    /\ pc = "entries" /\ at \in 1..Len(todo) /\ todo[at] \in Order
    /\ todo[at].kind = "entry"
    /\ position' = Opened(todo[at])
    /\ \/ position = None /\ UNCHANGED <<last, exits>>
       \/ Closes

LEMMA LeavingInBar ==
  ASSUME bar \in Bars, position \in Trade, NEW price \in Int,
         bar.low <= price, price <= bar.high
  PROVE  ExitInBar(Leaving(position.dir, price)) /\ Leaving(position.dir, price) \in Int
<1>1. bar.low \in Int /\ bar.high \in Int /\ Slippage \in Int
    BY BarPrices, Constants
<1> QED
    BY <1>1 DEF ExitInBar, Leaving, Sold, Bought

LEMMA TradeSteps ==
  ASSUME BacktestTypeOK, Next
  PROVE  \/ position' = position /\ last' = last
         \/ UNCHANGED data /\ Closes /\ position' = None
         \/ UNCHANGED data /\ Opens
<1> USE DEF account
<1>1. CASE NextBar \/ ClosesEnd \/ EntriesEnd \/ ExitsEnd \/ UpdateEquity \/ ScriptEnds
    BY <1>1 DEF NextBar, ClosesEnd, EntriesEnd, ExitsEnd, UpdateEquity, ScriptEnds
<1>2. CASE \E order \in MarketOrders : Submit(order)
    BY <1>2 DEF Submit
<1>3. CASE \E order \in ExitOrders : SubmitExit(order)
    BY <1>3 DEF SubmitExit
<1>4. ASSUME NEW price \in Int, position # None, bar \in Bars,
             bar.low <= price, price <= bar.high,
             ClosePosition(Leaving(position.dir, price))
      PROVE  Closes /\ position' = None
  <2>1. position \in Trade
    BY <1>4 DEF BacktestTypeOK
  <2>2. ExitInBar(Leaving(position.dir, price)) /\ Leaving(position.dir, price) \in Int
    BY <1>4, <2>1, LeavingInBar
  <2> QED
    BY <1>4, <2>2 DEF ClosePosition, Settled, Closes
<1>5. CASE FillClose
  <2>1. bar \in Bars /\ UNCHANGED data
    BY <1>5, InLoopFacts DEF FillClose, NextOrder
  <2>2. FillPrice \in Int /\ bar.low <= FillPrice /\ FillPrice <= bar.high
    BY <2>1, FillPriceInBar
  <2>3. CASE KeepPosition
    BY <2>3 DEF KeepPosition
  <2>4. CASE position # None /\ ClosePosition(Leaving(position.dir, FillPrice))
    BY <1>4, <2>1, <2>2, <2>4
  <2> QED
    BY <1>5, <2>3, <2>4 DEF FillClose
<1>6. CASE FillEntry
  <2>1. InLoop("entries") /\ NextOrder /\ pc = "entries" /\ UNCHANGED data
    BY <1>6 DEF FillEntry, InLoop, NextOrder
  <2>2. at \in 1..Len(todo) /\ todo[at] \in Order /\ bar \in Bars
    BY <2>1, InLoopFacts
  <2>3. CASE ~(todo[at].kind = "entry" /\ (position = None \/ position.dir # todo[at].dir))
    BY <1>6, <2>3 DEF FillEntry, KeepPosition
  <2>4. CASE todo[at].kind = "entry" /\ (position = None \/ position.dir # todo[at].dir)
    <3>1. position' = Opened(todo[at])
      BY <1>6, <2>4 DEF FillEntry
    <3>2. CASE position = None
      <4>1. UNCHANGED <<last, exits>>
        BY <1>6, <2>4, <3>2 DEF FillEntry
      <4> QED
        BY <2>1, <2>2, <2>4, <3>1, <3>2, <4>1 DEF Opens
    <3>3. CASE position # None
      <4>1. last' = Closed(Leaving(position.dir, FillPrice)) /\ exits' = <<>>
        BY <1>6, <2>4, <3>3 DEF FillEntry
      <4>2. FillPrice \in Int /\ bar.low <= FillPrice /\ FillPrice <= bar.high
        BY <2>2, FillPriceInBar
      <4>3. position \in Trade
        BY <3>3 DEF BacktestTypeOK
      <4>4. /\ ExitInBar(Leaving(position.dir, FillPrice))
            /\ Leaving(position.dir, FillPrice) \in Int
        BY <2>2, <4>2, <4>3, LeavingInBar
      <4>5. Closes
        BY <3>3, <4>1, <4>4 DEF Closes
      <4> QED
        BY <2>1, <2>2, <2>4, <3>1, <4>5 DEF Opens
    <3> QED
      BY <3>2, <3>3
  <2> QED
    BY <2>3, <2>4
<1>7. CASE FillExit
  <2>1. InLoop("exits") /\ NextOrder /\ pc = "exits" /\ position # None /\ UNCHANGED data
    BY <1>7 DEF FillExit, InLoop, NextOrder
  <2>2. bar \in Bars /\ todo[at] \in Exit /\ position \in Trade
    BY <2>1, InLoopFacts DEF BacktestTypeOK
  <2>3. CASE KeepPosition
    BY <2>3 DEF KeepPosition
  <2>4. CASE /\ StopHit(todo[at], position)
             /\ ClosePosition(Leaving(position.dir, StopPrice(todo[at], position)))
    BY <1>4, <2>1, <2>2, <2>4, ExitPrice
  <2>5. CASE /\ LimitHit(todo[at], position)
             /\ ClosePosition(Leaving(position.dir, LimitPrice(todo[at], position)))
    BY <1>4, <2>1, <2>2, <2>5, ExitPrice
  <2> QED
    BY <1>7, <2>3, <2>4, <2>5 DEF FillExit
<1>8. CASE DataEnds
  <2>1. CASE position = None
    BY <1>8, <2>1 DEF DataEnds, KeepPosition
  <2>2. CASE position # None
    <3>1. bar \in Bars /\ UNCHANGED data
      BY <1>8, <2>2 DEF DataEnds, BacktestTypeOK
    <3>2. ClosePosition(Leaving(position.dir, bar.close))
      BY <1>8, <2>2 DEF DataEnds
    <3> QED
      BY <1>4, <2>2, <3>1, <3>2, BarPrices
  <2> QED
    BY <2>1, <2>2
<1> QED
    BY <1>1, <1>2, <1>3, <1>5, <1>6, <1>7, <1>8 DEF Next

-----------------------------------------------------------------------------
(***************************************************************************)
(* The times of orders and trades.                                         *)
(***************************************************************************)
\* The orders of the script of a bar are processed with the bar on which they
\* fill, and are then gone.
OrderTimes ==
    /\ pc \in {"script", "next"} => \A i \in 1..Len(pending) : pending[i].bar = index
    /\ pc \in {"closes", "entries"} => \A i \in 1..Len(todo) : todo[i].bar + Delay = index
    /\ pc \in {"closes", "entries", "exits", "equity"} => pending = <<>>
    /\ fillOn = "close" /\ pc = "next" => pending = <<>>

TradeTimes ==
    /\ FillsOnTime
    /\ position # None => position.bar <= index
    /\ last # None => last.exitBar <= index

LEMMA OrderBar ==
  ASSUME NEW order \in Order
  PROVE  order.bar \in Nat
BY DEF Order

LEMMA NextOrderTimes ==
  ASSUME BacktestTypeOK, OrderTimes, Next
  PROVE  OrderTimes'
<1> USE DEF account, data
<1>0. /\ pending \in Seq(Order) /\ fillOn \in {"next_open", "close"}
      /\ pc \in {"next", "closes", "entries", "exits", "equity", "script", "end"}
    BY DEF BacktestTypeOK
<1>1. ASSUME NextBar PROVE OrderTimes'
  <2>1. CASE fillOn = "next_open" /\ index >= 0
    <3>1. /\ index' = index + 1 /\ fillOn' = fillOn /\ pc' = "closes"
          /\ todo' = pending /\ pending' = <<>> /\ pc = "next"
      BY <1>1, <2>1 DEF NextBar, BeginOrders
    <3>2. Delay' = 1
      BY <2>1, <3>1 DEF Delay
    <3>3. \A i \in 1..Len(pending) : pending[i].bar = index
      BY <3>1 DEF OrderTimes
    <3> QED
      BY <3>1, <3>2, <3>3 DEF OrderTimes
  <2>2. CASE ~(fillOn = "next_open" /\ index >= 0)
    <3>1. /\ fillOn' = fillOn /\ pc' = "script" /\ pending' = pending /\ pc = "next"
      BY <1>1, <2>2 DEF NextBar
    <3>2. pending = <<>>
      <4>1. CASE fillOn = "close"
        BY <3>1, <4>1 DEF OrderTimes
      <4>2. CASE fillOn # "close"
        <5>1. index = -1
          BY <1>0, <2>2, <4>2 DEF BacktestTypeOK
        <5>2. \A i \in 1..Len(pending) : pending[i].bar = index /\ pending[i].bar \in Nat
          BY <1>0, <3>1, OrderBar DEF OrderTimes
        <5>3. Len(pending) = 0
          BY <1>0, <5>1, <5>2
        <5> QED
          BY <1>0, <5>3
      <4> QED
        BY <4>1, <4>2
    <3> QED
      BY <3>1, <3>2 DEF OrderTimes
  <2> QED
    BY <2>1, <2>2
<1>2. CASE FillClose \/ FillEntry \/ FillExit
  <2>1. NextOrder
    BY <1>2 DEF FillClose, FillEntry, FillExit
  <2> QED
    BY <2>1 DEF NextOrder, OrderTimes, Delay
<1>3. CASE ClosesEnd
    BY <1>3 DEF ClosesEnd, OrderTimes, Delay
<1>4. CASE EntriesEnd \/ ExitsEnd
    BY <1>4 DEF EntriesEnd, ExitsEnd, OrderTimes
<1>5. CASE UpdateEquity
    BY <1>5 DEF UpdateEquity, OrderTimes
<1>6. ASSUME NEW order \in MarketOrders, Submit(order) PROVE OrderTimes'
  <2>1. /\ pc = "script" /\ pc' = "script" /\ index' = index
        /\ order.bar = index /\ pending' = Append(pending, order)
    BY <1>6 DEF Submit
  <2>2. index \in Nat
    BY <2>1 DEF BacktestTypeOK
  <2>3. order \in Order
    BY <1>6, <2>2 DEF MarketOrders, Order
  <2>4. /\ Len(pending') = Len(pending) + 1 /\ pending'[Len(pending) + 1] = order
        /\ \A i \in 1..Len(pending) : pending'[i] = pending[i]
    BY <1>0, <2>1, <2>3
  <2>5. \A i \in 1..Len(pending') : pending'[i].bar = index
    BY <1>0, <2>1, <2>4 DEF OrderTimes
  <2> QED
    BY <2>1, <2>5 DEF OrderTimes
<1>7. CASE \E order \in ExitOrders : SubmitExit(order)
    BY <1>7 DEF SubmitExit, OrderTimes
<1>8. CASE ScriptEnds
  <2>1. CASE fillOn = "close"
    <3>1. /\ pc = "script" /\ pc' = "closes" /\ index' = index /\ fillOn' = fillOn
          /\ todo' = pending /\ pending' = <<>>
      BY <1>8, <2>1 DEF ScriptEnds, BeginOrders
    <3>2. Delay' = 0 /\ index \in Int
      BY <2>1, <3>1 DEF Delay, BacktestTypeOK
    <3> QED
      BY <3>1, <3>2 DEF OrderTimes
  <2>2. CASE fillOn # "close"
    BY <1>8, <2>2 DEF ScriptEnds, OrderTimes
  <2> QED
    BY <2>1, <2>2
<1>9. CASE DataEnds
    BY <1>9 DEF DataEnds, OrderTimes
<1> QED
    BY <1>1, <1>2, <1>3, <1>4, <1>5, <1>6, <1>7, <1>8, <1>9 DEF Next

LEMMA NextTradeTimes ==
  ASSUME BacktestTypeOK, OrderTimes, TradeTimes, Next
  PROVE  TradeTimes'
<1>1. /\ fillOn' = fillOn
      /\ index' = index \/ index' = index + 1
  <2>1. CASE NextBar
    BY <2>1 DEF NextBar
  <2>2. CASE ~NextBar
    <3>1. UNCHANGED data
      BY <2>2 DEF Next, FillClose, FillEntry, FillExit, NextOrder, ClosesEnd, EntriesEnd,
         ExitsEnd, UpdateEquity, Submit, SubmitExit, ScriptEnds, DataEnds
    <3> QED
      BY <3>1 DEF data
  <2> QED
    BY <2>1, <2>2
<1>2. /\ index \in Int /\ position \in Trade \cup {None} /\ last \in ClosedTrade \cup {None}
      /\ Delay' = Delay
    BY <1>1 DEF BacktestTypeOK, Delay
<1>3. CASE position' = position /\ last' = last
  <2>1. position # None => position.bar \in Nat
    BY <1>2 DEF Trade
  <2>2. last # None => last.exitBar \in Nat
    BY <1>2 DEF ClosedTrade
  <2>3. FillsOnTime'
    BY <1>2, <1>3 DEF TradeTimes, FillsOnTime
  <2>4. /\ position' # None => position'.bar <= index'
        /\ last' # None => last'.exitBar <= index'
    BY <1>1, <1>2, <1>3, <2>1, <2>2 DEF TradeTimes
  <2> QED
    BY <2>3, <2>4 DEF TradeTimes
<1>4. ASSUME Closes, UNCHANGED data
      PROVE  /\ last'.bar = last'.ordered + Delay /\ last'.bar <= last'.exitBar
             /\ last'.exitBar = index
  <2>1. PICK price \in Int : last' = Closed(price)
    BY <1>4 DEF Closes
  <2> QED
    BY <1>4, <2>1 DEF Closes, Closed, TradeTimes, FillsOnTime
<1>5. CASE UNCHANGED data /\ Closes /\ position' = None
    BY <1>2, <1>4, <1>5 DEF TradeTimes, FillsOnTime, data
<1>6. CASE UNCHANGED data /\ Opens
  <2>1. position'.bar = index /\ position'.ordered = todo[at].bar
    BY <1>6 DEF Opens, Opened
  <2>2. todo[at].bar + Delay = index
    BY <1>6 DEF Opens, OrderTimes
  <2>3. CASE position = None /\ last' = last
    BY <1>2, <1>6, <2>1, <2>2, <2>3 DEF TradeTimes, FillsOnTime, data
  <2>4. CASE Closes
    BY <1>2, <1>4, <1>6, <2>1, <2>2, <2>4 DEF TradeTimes, FillsOnTime, data
  <2> QED
    BY <1>6, <2>3, <2>4 DEF Opens
<1> QED
    BY <1>3, <1>5, <1>6, TradeSteps

-----------------------------------------------------------------------------
(***************************************************************************)
(* Prices, exit orders and money.                                          *)
(***************************************************************************)
LEMMA OpenedInBar ==
  ASSUME BacktestTypeOK, Opens
  PROVE  (IF position'.dir = "long" THEN Bought(position'.price) ELSE Sold(position'.price))
             \in bar.low..bar.high
<1> DEFINE order == todo[at]
<1>1. bar \in Bars
    BY DEF Opens, BacktestTypeOK
<1>2. /\ FillPrice \in Int /\ bar.low <= FillPrice /\ FillPrice <= bar.high
      /\ bar.low \in Int /\ bar.high \in Int /\ Slippage \in Int
    BY <1>1, FillPriceInBar, BarPrices, Constants
<1>3. position'.dir = order.dir /\ position'.price = Entering(order.dir, FillPrice)
    BY DEF Opens, Opened
<1> QED
    BY <1>2, <1>3 DEF Entering, Bought, Sold

LEMMA NextFillsWithinBar ==
  ASSUME BacktestTypeOK, TradeTimes, FillsWithinBar, Next
  PROVE  FillsWithinBar'
<1>1. ASSUME Closes, UNCHANGED data
      PROVE  (IF last'.dir = "long" THEN Sold(last'.exit) ELSE Bought(last'.exit))
                 \in bar.low..bar.high
  <2>1. PICK price \in Int : last' = Closed(price) /\ ExitInBar(price)
    BY <1>1 DEF Closes
  <2>2. last'.dir = position.dir /\ last'.exit = price
    BY <2>1 DEF Closed
  <2> QED
    BY <2>1, <2>2 DEF ExitInBar
<1>2. CASE position' = position /\ last' = last
  <2>1. CASE UNCHANGED data
    BY <1>2, <2>1 DEF FillsWithinBar, data, Bought, Sold
  <2>2. CASE NextBar
    <3>1. index' = index + 1 /\ index \in Int
      BY <2>2 DEF NextBar, BacktestTypeOK
    <3>2. /\ position # None => position.bar # index'
          /\ last # None => last.exitBar # index'
      BY <3>1 DEF TradeTimes
    <3> QED
      BY <1>2, <3>2 DEF FillsWithinBar
  <2>3. UNCHANGED data \/ NextBar
    BY DEF Next, FillClose, FillEntry, FillExit, NextOrder, ClosesEnd, EntriesEnd,
       ExitsEnd, UpdateEquity, Submit, SubmitExit, ScriptEnds, DataEnds
  <2> QED
    BY <2>1, <2>2, <2>3
<1>3. CASE UNCHANGED data /\ Closes /\ position' = None
    BY <1>1, <1>3 DEF FillsWithinBar, data, Bought, Sold
<1>4. CASE UNCHANGED data /\ Opens
  <2>1. (IF position'.dir = "long" THEN Bought(position'.price) ELSE Sold(position'.price))
            \in bar.low..bar.high
    BY <1>4, OpenedInBar
  <2>2. CASE last' = last
    BY <1>4, <2>1, <2>2 DEF FillsWithinBar, data, Bought, Sold
  <2>3. CASE Closes
    BY <1>1, <1>4, <2>1, <2>3 DEF FillsWithinBar, data, Bought, Sold
  <2> QED
    BY <1>4, <2>2, <2>3 DEF Opens
<1> QED
    BY <1>2, <1>3, <1>4, TradeSteps

\* What a step does to the exit orders.
LEMMA ExitSteps ==
  ASSUME BacktestTypeOK, Next
  PROVE  \/ exits' = exits
         \/ exits' = <<>>
         \/ \E order \in ExitOrders : SubmitExit(order)
<1>1. CASE NextBar \/ ClosesEnd \/ EntriesEnd \/ ExitsEnd \/ UpdateEquity \/ ScriptEnds
    BY <1>1 DEF NextBar, ClosesEnd, EntriesEnd, ExitsEnd, UpdateEquity, ScriptEnds
<1>2. CASE FillClose \/ FillExit \/ DataEnds
    BY <1>2 DEF FillClose, FillExit, DataEnds, ClosePosition, KeepPosition
<1>3. CASE FillEntry
    BY <1>3 DEF FillEntry, KeepPosition
<1>4. CASE \E order \in MarketOrders : Submit(order)
    BY <1>4 DEF Submit
<1> QED
    BY <1>1, <1>2, <1>3, <1>4 DEF Next

LEMMA NextNoStaleExit ==
  ASSUME BacktestTypeOK, TradeTimes, NoStaleExit, Next
  PROVE  NoStaleExit'
<1>1. CASE exits' = <<>>
    BY <1>1 DEF NoStaleExit
<1>2. ASSUME NEW order \in ExitOrders, SubmitExit(order) PROVE NoStaleExit'
  <2> DEFINE rest == Without(exits, order.id)
  <2>1. /\ rest \in Seq(Exit)
        /\ \A i \in 1..Len(rest) : \E j \in 1..Len(exits) : rest[i] = exits[j]
    BY WithoutFacts DEF BacktestTypeOK
  <2> HIDE DEF rest
  <2>2. /\ index \in Nat /\ last' = last /\ order.bar = index
        /\ exits' = Append(rest, order)
    BY <1>2 DEF SubmitExit, BacktestTypeOK, rest
  <2>3. order \in Exit
    BY <1>2, <2>2 DEF ExitOrders, Exit
  <2>4. /\ Len(exits') = Len(rest) + 1 /\ exits'[Len(rest) + 1] = order
        /\ \A i \in 1..Len(rest) : exits'[i] = rest[i]
    BY <2>1, <2>2, <2>3
  <2>5. SUFFICES ASSUME last # None, NEW i \in 1..Len(exits')
                 PROVE  exits'[i].bar >= last.exitBar
    BY <2>2 DEF NoStaleExit
  <2>6. CASE i = Len(rest) + 1
    <3>1. last.exitBar <= index /\ last.exitBar \in Nat
      BY <2>5 DEF TradeTimes, BacktestTypeOK, ClosedTrade
    <3> QED
      BY <2>2, <2>4, <2>6, <3>1
  <2>7. CASE i \in 1..Len(rest)
    BY <2>1, <2>4, <2>5, <2>7 DEF NoStaleExit
  <2> QED
    BY <2>1, <2>4, <2>6, <2>7
<1>3. CASE exits' = exits /\ last' = last
    BY <1>3 DEF NoStaleExit
<1>4. CASE exits' = exits /\ last' # last
  <2>1. exits' = <<>> \/ last' = last
    BY TradeSteps DEF Closes, Opens
  <2> QED
    BY <1>1, <1>4, <2>1
<1>5. CASE UNCHANGED exits
    BY <1>3, <1>4, <1>5
<1> QED
    BY <1>1, <1>2, <1>5, ExitSteps

\* The exit orders that the third loop has passed.
ExitsTried ==
    /\ pc = "exits" =>
          \/ position = None
          \/ /\ todo = exits
             /\ \A i \in 1..Len(todo) :
                    i < at /\ todo[i].from \in {None, position.id} => Between(todo[i], position)
    /\ ExitsHonoured

\* An exit order that does not close the position has not been touched.
LEMMA NotHitIsBetween ==
  ASSUME bar \in Bars, position \in Trade, NEW order \in Exit,
         ~StopHit(order, position), ~LimitHit(order, position)
  PROVE  Between(order, position)
<1>1. order.stop \in Levels \cup {None} /\ order.limit \in Levels \cup {None}
    BY DEF Exit
<1>2. /\ order.stop # None => order.stop \in Int
      /\ order.limit # None => order.limit \in Int
      /\ bar.low \in Int /\ bar.high \in Int
    BY <1>1, LevelType, BarPrices
<1> QED
    BY <1>2 DEF StopHit, LimitHit, Between

LEMMA NextExitsTried ==
  ASSUME BacktestTypeOK, ExitsTried, Next
  PROVE  ExitsTried'
<1> USE DEF account
<1>1. CASE EntriesEnd
    BY <1>1 DEF EntriesEnd, ExitsTried, ExitsHonoured, BacktestTypeOK
<1>2. CASE FillExit
  <2>1. /\ InLoop("exits") /\ NextOrder /\ pc = "exits" /\ position # None
        /\ UNCHANGED <<data, pc, todo>> /\ at' = at + 1
    BY <1>2 DEF FillExit, InLoop, NextOrder
  <2>2. /\ at \in 1..Len(todo) /\ bar \in Bars /\ todo[at] \in Exit /\ position \in Trade
        /\ todo = exits
    BY <2>1, InLoopFacts DEF BacktestTypeOK, ExitsTried
  <2>3. CASE position' = None
    BY <2>1, <2>3 DEF ExitsTried, ExitsHonoured
  <2>4. CASE position' # None
    <3>1. /\ KeepPosition
          /\ \/ ~Applies(todo[at], position)
             \/ ~StopHit(todo[at], position) /\ ~LimitHit(todo[at], position)
      BY <1>2, <2>4 DEF FillExit, ClosePosition
    <3>2. todo[at].from \in {None, position.id} => Between(todo[at], position)
      BY <2>2, <3>1, NotHitIsBetween DEF Applies
    <3>3. /\ position' = position /\ exits' = exits /\ bar' = bar /\ pc' = "exits"
          /\ todo' = todo
      BY <2>1, <3>1 DEF KeepPosition, data
    <3>4. \A i \in 1..Len(todo) :
             i < at + 1 /\ todo[i].from \in {None, position.id} => Between(todo[i], position)
      BY <2>1, <2>2, <3>2 DEF ExitsTried
    <3>5. \A i \in 1..Len(todo) : Between(todo[i], position)' = Between(todo[i], position)
      BY <3>3 DEF Between
    <3> QED
      BY <2>1, <2>2, <3>3, <3>4, <3>5 DEF ExitsTried, ExitsHonoured
  <2> QED
    BY <2>3, <2>4
<1>3. CASE ExitsEnd
  <2>1. /\ pc = "exits" /\ pc' = "equity" /\ UNCHANGED data
        /\ exits' = exits /\ position' = position /\ (at > Len(todo) \/ position = None)
    BY <1>3 DEF ExitsEnd
  <2>2. \A i \in 1..Len(exits) : Between(exits[i], position)' = Between(exits[i], position)
    BY <2>1 DEF Between, data
  <2>3. at \in Nat /\ Len(todo) \in Nat
    <3>1. todo \in Seq(Exit)
      BY <2>1 DEF BacktestTypeOK
    <3> QED
      BY <3>1 DEF BacktestTypeOK
  <2> QED
    BY <2>1, <2>2, <2>3 DEF ExitsTried, ExitsHonoured
<1>4. CASE ~(EntriesEnd \/ FillExit \/ ExitsEnd)
  <2>1. pc' \notin {"exits", "equity"}
    BY <1>4 DEF Next, NextBar, FillClose, InLoop, NextOrder, ClosesEnd, FillEntry, UpdateEquity,
       Submit, SubmitExit, ScriptEnds, DataEnds, BeginOrders
  <2> QED
    BY <2>1 DEF ExitsTried, ExitsHonoured
<1> QED
    BY <1>1, <1>2, <1>3, <1>4

LEMMA NextTotalsAgree ==
  ASSUME BacktestTypeOK, TotalsAgree, Next
  PROVE  TotalsAgree'
<1> USE DEF account
<1>0. /\ cash \in Int /\ fees \in Int /\ realized \in Int /\ InitialCapital \in Int
      /\ cash + fees = InitialCapital + realized
    BY Constants DEF BacktestTypeOK, TotalsAgree
<1>1. ASSUME NEW price \in Int, position # None, ClosePosition(price)
      PROVE  cash' + fees' = InitialCapital + realized'
  <2>1. Pnl(price) \in Int
    BY <1>1, ClosedType DEF BacktestTypeOK
  <2> QED
    BY <1>0, <1>1, <2>1 DEF ClosePosition, Settled
<1>2. CASE FillClose \/ FillExit
  <2>1. pc' = pc /\ pc \in {"closes", "exits"} /\ bar \in Bars
    BY <1>2, InLoopFacts DEF FillClose, FillExit, NextOrder, InLoop
  <2>2. CASE KeepPosition
    BY <1>0, <2>1, <2>2 DEF KeepPosition, TotalsAgree
  <2>3. CASE FillClose /\ ~KeepPosition
    <3>1. position # None /\ ClosePosition(Leaving(position.dir, FillPrice))
      BY <2>3 DEF FillClose
    <3>2. Leaving(position.dir, FillPrice) \in Int
      BY <2>1, FillPriceInBar, SlippedType
    <3> QED
      BY <1>1, <2>1, <3>1, <3>2 DEF TotalsAgree
  <2>4. CASE FillExit /\ ~KeepPosition
    <3>1. position \in Trade /\ position # None /\ todo[at] \in Exit
      BY <2>4, InLoopFacts DEF FillExit, InLoop, BacktestTypeOK
    <3>2. \/ /\ StopHit(todo[at], position)
             /\ ClosePosition(Leaving(position.dir, StopPrice(todo[at], position)))
          \/ /\ LimitHit(todo[at], position)
             /\ ClosePosition(Leaving(position.dir, LimitPrice(todo[at], position)))
      BY <2>4 DEF FillExit
    <3>3. \E price \in Int : ClosePosition(price)
      BY <2>1, <3>1, <3>2, ExitPrice, SlippedType
    <3> QED
      BY <1>1, <2>1, <3>1, <3>3 DEF TotalsAgree
  <2> QED
    BY <1>2, <2>2, <2>3, <2>4
<1>3. CASE FillEntry
  <2>1. InLoop("entries") /\ NextOrder /\ pc = "entries" /\ pc' = "entries"
    BY <1>3 DEF FillEntry, InLoop, NextOrder
  <2>2. todo[at] \in Order /\ bar \in Bars /\ index \in Nat
    BY <2>1, InLoopFacts
  <2>3. CASE ~(todo[at].kind = "entry" /\ (position = None \/ position.dir # todo[at].dir))
    BY <1>0, <1>3, <2>1, <2>3 DEF FillEntry, KeepPosition, TotalsAgree
  <2>4. CASE todo[at].kind = "entry" /\ (position = None \/ position.dir # todo[at].dir)
    <3>1. Fee(todo[at]) \in Int
      BY <2>2, <2>4, OpenedType
    <3>2. CASE position = None
      <4>1. /\ cash' = cash - Fee(todo[at]) /\ fees' = fees + Fee(todo[at])
            /\ realized' = realized
        BY <1>3, <2>4, <3>2 DEF FillEntry
      <4> QED
        BY <1>0, <2>1, <3>1, <4>1 DEF TotalsAgree
    <3>3. CASE position # None
      <4> DEFINE price == Leaving(position.dir, FillPrice)
      <4>1. /\ cash' = cash + Pnl(price) - Fee(todo[at]) /\ fees' = fees + Fee(todo[at])
            /\ realized' = realized + Pnl(price)
        BY <1>3, <2>4, <3>3 DEF FillEntry
      <4>2. price \in Int
        BY <2>2, FillPriceInBar, SlippedType
      <4>3. Pnl(price) \in Int
        BY <2>2, <3>3, <4>2, ClosedType DEF BacktestTypeOK
      <4> QED
        BY <1>0, <2>1, <3>1, <4>1, <4>3 DEF TotalsAgree
    <3> QED
      BY <3>2, <3>3
  <2> QED
    BY <2>3, <2>4
<1>4. CASE UpdateEquity
  <2>1. /\ position' = position /\ cash' = cash /\ realized' = realized /\ fees' = fees
        /\ equity' = InitialCapital + realized + Unrealized
    BY <1>4 DEF UpdateEquity
  <2>2. position = None => Unrealized = 0
    BY DEF Unrealized
  <2> QED
    BY <1>0, <2>1, <2>2 DEF TotalsAgree
<1>5. CASE DataEnds
  <2>1. CASE position = None
    BY <1>0, <1>5, <2>1 DEF DataEnds, KeepPosition, TotalsAgree
  <2>2. CASE position # None
    <3>1. bar \in Bars /\ pc' = "end" /\ ClosePosition(Leaving(position.dir, bar.close))
      BY <1>5, <2>2 DEF DataEnds, BacktestTypeOK
    <3>2. Leaving(position.dir, bar.close) \in Int
      BY <3>1, BarPrices, SlippedType
    <3> QED
      BY <1>1, <2>2, <3>1, <3>2 DEF TotalsAgree
  <2> QED
    BY <2>1, <2>2
<1>6. CASE NextBar \/ ScriptEnds
    BY <1>6 DEF NextBar, ScriptEnds, BeginOrders, TotalsAgree
<1>7. CASE ClosesEnd \/ EntriesEnd \/ ExitsEnd
    BY <1>7 DEF ClosesEnd, EntriesEnd, ExitsEnd, TotalsAgree
<1>8. CASE \/ \E order \in MarketOrders : Submit(order)
           \/ \E order \in ExitOrders : SubmitExit(order)
    BY <1>8 DEF Submit, SubmitExit, TotalsAgree
<1> QED
    BY <1>2, <1>3, <1>4, <1>5, <1>6, <1>7, <1>8 DEF Next

-----------------------------------------------------------------------------
(***************************************************************************)
(* The inductive invariant, and the theorems.                              *)
(***************************************************************************)
BacktestInv ==
    /\ BacktestTypeOK
    /\ OrderTimes /\ TradeTimes
    /\ FillsWithinBar /\ NoStaleExit /\ ExitsTried /\ TotalsAgree

LEMMA BacktestInvariant == Spec => []BacktestInv
<1>1. ASSUME Init PROVE BacktestInv
  <2>1. /\ pc = "next" /\ pending = <<>> /\ position = None /\ last = None
        /\ cash = InitialCapital /\ realized = 0 /\ equity = InitialCapital /\ fees = 0
    BY <1>1 DEF Init
  <2>2. BacktestTypeOK
    BY <1>1, InitTypes
  <2>3. OrderTimes /\ TradeTimes
    BY <2>1 DEF OrderTimes, TradeTimes, FillsOnTime
  <2>4. FillsWithinBar /\ NoStaleExit /\ ExitsTried
    BY <2>1 DEF FillsWithinBar, NoStaleExit, ExitsTried, ExitsHonoured
  <2>5. TotalsAgree
    BY <2>1, Constants DEF TotalsAgree
  <2> QED
    BY <2>2, <2>3, <2>4, <2>5 DEF BacktestInv
<1>2. ASSUME BacktestInv, [Next]_vars PROVE BacktestInv'
  <2>1. CASE Next
    BY <1>2, <2>1, NextTypes, NextOrderTimes, NextTradeTimes, NextFillsWithinBar,
       NextNoStaleExit, NextExitsTried, NextTotalsAgree DEF BacktestInv
  <2>2. CASE UNCHANGED vars
    <3>1. BacktestTypeOK'
      BY <1>2, NextTypes DEF BacktestInv
    <3>2. /\ fillOn' = fillOn /\ index' = index /\ bar' = bar /\ pc' = pc
          /\ pending' = pending /\ exits' = exits /\ todo' = todo /\ at' = at
          /\ position' = position /\ last' = last
          /\ cash' = cash /\ realized' = realized /\ equity' = equity /\ fees' = fees
      BY <2>2 DEF vars, data, account
    <3>3. OrderTimes' /\ TradeTimes' /\ NoStaleExit' /\ TotalsAgree'
      BY <1>2, <3>2 DEF BacktestInv, OrderTimes, TradeTimes, FillsOnTime, Delay, NoStaleExit,
         TotalsAgree
    <3>4. FillsWithinBar' /\ ExitsTried'
      BY <1>2, <3>2 DEF BacktestInv, FillsWithinBar, Bought, Sold, ExitsTried, ExitsHonoured,
         Between
    <3> QED
      BY <3>1, <3>3, <3>4 DEF BacktestInv
  <2> QED
    BY <1>2, <2>1, <2>2
<1> QED
    BY <1>1, <1>2, PTL DEF Spec

\* No position survives a bar that has touched the level of an exit order that
\* is meant for it, whatever orders the script has placed.
THEOREM ExitsHonouredTheorem == Spec => []ExitsHonoured
<1>1. BacktestInv => ExitsHonoured
    BY DEF BacktestInv, ExitsTried
<1> QED
    BY <1>1, BacktestInvariant, PTL

\* Nothing is filled at a price that the bar did not trade at, but for a
\* slippage against the trader.
THEOREM FillsWithinBarTheorem == Spec => []FillsWithinBar
<1>1. BacktestInv => FillsWithinBar
    BY DEF BacktestInv
<1> QED
    BY <1>1, BacktestInvariant, PTL

\* Entries are filled once, on the bar on which they are due, and trades do not
\* overlap.
THEOREM FillsOnTimeTheorem == Spec => []FillsOnTime
<1>1. BacktestInv => FillsOnTime
    BY DEF BacktestInv, TradeTimes
<1> QED
    BY <1>1, BacktestInvariant, PTL

\* Exit orders do not outlive the trade that they were placed for.
THEOREM NoStaleExitTheorem == Spec => []NoStaleExit
<1>1. BacktestInv => NoStaleExit
    BY DEF BacktestInv
<1> QED
    BY <1>1, BacktestInvariant, PTL

\* The totals the broker keeps as it runs agree: the equity is the cash of a flat
\* account, and the cash is the start capital with every profit and every fee.
THEOREM TotalsAgreeTheorem == Spec => []TotalsAgree
<1>1. BacktestInv => TotalsAgree
    BY DEF BacktestInv
<1> QED
    BY <1>1, BacktestInvariant, PTL
=============================================================================
