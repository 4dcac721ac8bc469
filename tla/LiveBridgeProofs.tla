-------------------------- MODULE LiveBridgeProofs --------------------------
(***************************************************************************)
(* Theorems of LiveBridge, for any margin of the account.                  *)
(***************************************************************************)
EXTENDS LiveBridge, TLAPS

\* Nothing has failed: the bot has one position at most, and none while it waits
\* for an order that the broker has not decided.
OneInv ==
    \/ faulted
    \/ /\ Total(open) <= 1
       /\ order = "sent" => Total(open) = 0

LiveInv == LiveTypeOK /\ OneInv

LEMMA Constants ==
  /\ MaxOpen \in Nat /\ 1 <= MaxOpen
  /\ WarmupLimit \in Nat /\ 1 <= WarmupLimit
  /\ None \notin Signals /\ None \notin Dirs
  /\ Dirs \subseteq Signals
<1>1. Signals = {"long", "short", "close"}
    BY DEF Dirs, Signals
<1>2. MaxOpen \in Nat /\ 1 <= MaxOpen /\ WarmupLimit \in Nat /\ 1 <= WarmupLimit
    BY LiveBridgeAssumption
<1>3. None \notin Signals
    BY <1>1, LiveBridgeAssumption
<1>4. Dirs \subseteq Signals
    BY DEF Signals
<1> QED
    BY <1>2, <1>3, <1>4

LEMMA InitLive == Init => LiveInv
<1> SUFFICES ASSUME Init PROVE LiveInv
    OBVIOUS
<1>1. /\ open \in [Dirs -> 0..MaxOpen] /\ late \in [Dirs -> 0..MaxOpen]
      /\ failures \in 0..2 /\ attempt \in 0..WarmupLimit
    BY Constants DEF Init, Nothing
<1>2. LiveTypeOK
    BY <1>1 DEF Init, LiveTypeOK, InCycle, Starting
<1>3. OneInv
    BY DEF Init, OneInv, Total, Nothing, Dirs
<1> QED
    BY <1>2, <1>3 DEF LiveInv

\* Positions of both directions add up, and closing some leaves fewer.
LEMMA TotalType ==
  ASSUME NEW f \in [Dirs -> 0..MaxOpen]
  PROVE  /\ Total(f) \in Nat
         /\ Total(f) = 0 <=> \A d \in Dirs : f[d] = 0
         /\ f = Nothing => Total(f) = 0
BY Constants DEF Total, Dirs, Nothing

LEMMA FewerPositions ==
  ASSUME NEW f \in [Dirs -> 0..MaxOpen], NEW g \in [Dirs -> 0..MaxOpen],
         \A d \in Dirs : g[d] <= f[d]
  PROVE  Total(g) <= Total(f)
BY Constants DEF Total, Dirs

LEMMA OneMore ==
  ASSUME NEW f \in [Dirs -> 0..MaxOpen], NEW d \in Dirs, Total(f) < MaxOpen
  PROVE  /\ [f EXCEPT ![d] = @ + 1] \in [Dirs -> 0..MaxOpen]
         /\ Total([f EXCEPT ![d] = @ + 1]) = Total(f) + 1
BY Constants DEF Total, Dirs

-----------------------------------------------------------------------------
(***************************************************************************)
(* Types.                                                                  *)
(***************************************************************************)
LEMMA GivesUpType ==
  ASSUME LiveTypeOK, GivesUpOrder
  PROVE  late' \in [Dirs -> 0..MaxOpen]
<1>1. CASE order = "sent" /\ late[pending] < MaxOpen
    <2>1. pending \in Dirs
        BY <1>1 DEF LiveTypeOK
    <2> QED
        BY <1>1, <2>1, Constants DEF LiveTypeOK, GivesUpOrder
<1> QED
    BY <1>1 DEF LiveTypeOK, GivesUpOrder

LEMMA BrokerType ==
  ASSUME LiveTypeOK,
         \/ BrokerFills \/ BrokerRejects
         \/ \E d \in Dirs : LateFill(d) \/ LateReject(d) \/ BrokerCloses(d)
  PROVE  LiveTypeOK'
<1> USE Constants DEF InCycle, Starting
<1>1. CASE BrokerFills
    <2>1. pending \in Dirs
        BY <1>1 DEF BrokerFills, LiveTypeOK
    <2>2. open' \in [Dirs -> 0..MaxOpen]
        BY <1>1, <2>1, OneMore DEF BrokerFills, LiveTypeOK
    <2> QED
        BY <1>1, <2>2 DEF BrokerFills, signalVars, LiveTypeOK
<1>2. CASE BrokerRejects
    BY <1>2 DEF BrokerRejects, brokerVars, signalVars, LiveTypeOK
<1>3. ASSUME NEW d \in Dirs, LateFill(d) PROVE LiveTypeOK'
    <2>1. open' \in [Dirs -> 0..MaxOpen]
        BY <1>3, OneMore DEF LateFill, LiveTypeOK
    <2>2. late' \in [Dirs -> 0..MaxOpen]
        BY <1>3 DEF LateFill, LiveTypeOK
    <2> QED
        BY <1>3, <2>1, <2>2 DEF LateFill, signalVars, LiveTypeOK
<1>4. ASSUME NEW d \in Dirs, LateReject(d) PROVE LiveTypeOK'
    <2>1. late' \in [Dirs -> 0..MaxOpen]
        BY <1>4 DEF LateReject, LiveTypeOK
    <2> QED
        BY <1>4, <2>1 DEF LateReject, signalVars, LiveTypeOK
<1>5. ASSUME NEW d \in Dirs, BrokerCloses(d) PROVE LiveTypeOK'
    <2>1. open' \in [Dirs -> 0..MaxOpen]
        BY <1>5 DEF BrokerCloses, LiveTypeOK
    <2> QED
        BY <1>5, <2>1 DEF BrokerCloses, signalVars, LiveTypeOK
<1> QED
    BY <1>1, <1>2, <1>3, <1>4, <1>5

\* What the end of _execute_signal, and an entry, leave behind.
LEMMA ControlType ==
  ASSUME LiveTypeOK, pc \in {"read", "close", "order"},
         \/ Executed
         \/ Enter /\ pending \in Dirs
  PROVE  /\ pc' \in {"idle", "order"} /\ retrying' \in BOOLEAN
         /\ pending' \in Signals \cup {None} /\ overdue' \in BOOLEAN
         /\ failures' \in 0..2
         /\ order' \in {"none", "sent"}
         /\ pc' = "order" => pending' \in Dirs
         /\ pc' = "order" <=> order' # "none"
<1>1. CASE Executed
    <2>1. retrying' \in BOOLEAN /\ overdue' \in BOOLEAN
        BY <1>1 DEF Executed, FeedBar
    <2>2. failures' \in 0..2
        BY <1>1 DEF Executed
    <2>3. pc' = "idle" /\ order' = "none" /\ pending' \in Signals \cup {None}
        BY <1>1 DEF Executed, FeedBar
    <2> QED
        BY <2>1, <2>2, <2>3
<1>2. CASE Enter /\ pending \in Dirs /\ ~Executed
    BY <1>2 DEF LiveTypeOK, Enter, signalVars
<1> QED
    BY <1>1, <1>2

LEMMA DecideType ==
  ASSUME LiveTypeOK, pc = "read", NEW seen \in Dirs \cup {None}, Decide(seen),
         UNCHANGED <<open, late, newBar, attempt, cooling>>, faulted' \in BOOLEAN
  PROVE  LiveTypeOK'
<1> USE Constants DEF InCycle, Starting
<1>1. CASE Executed \/ (Enter /\ pending \in Dirs)
    BY <1>1, ControlType DEF LiveTypeOK
<1>2. CASE pc' = "close" /\ UNCHANGED <<retrying, signalVars, failures, order>>
    BY <1>2 DEF LiveTypeOK, signalVars
<1>3. pending \in Signals
    BY DEF LiveTypeOK
<1> QED
    BY <1>1, <1>2, <1>3 DEF Decide, Wanted, Signals

LEMMA CycleType ==
  ASSUME LiveTypeOK, CycleStep \/ GetPositionsFails
  PROVE  LiveTypeOK'
<1> USE Constants DEF InCycle, Starting
<1>1. CASE PollFeeds
    BY <1>1 DEF PollFeeds, FeedBar, brokerVars, LiveTypeOK
<1>2. CASE PollExecutes
    BY <1>2 DEF PollExecutes, brokerVars, signalVars, LiveTypeOK
<1>3. CASE GetPositions
    BY <1>3, DecideType DEF GetPositions, Held, brokerVars, LiveTypeOK
<1>4. CASE GetPositionsFails
    BY <1>4, DecideType DEF GetPositionsFails, LiveTypeOK
<1>5. ASSUME NEW left \in [Dirs -> 0..MaxOpen], CloseAll(left) PROVE LiveTypeOK'
    <2>1. Executed \/ (Enter /\ pending \in Dirs)
        BY <1>5 DEF CloseAll, LiveTypeOK, Signals
    <2> QED
        BY <1>5, <2>1, ControlType DEF CloseAll, LiveTypeOK
<1>6. CASE OrderAnswered
    <2>1. pc = "order"
        BY <1>6 DEF OrderAnswered, LiveTypeOK
    <2> QED
        BY <1>6, <2>1, ControlType DEF OrderAnswered, brokerVars, LiveTypeOK
<1>7. CASE OrderTimesOut
    BY <1>7, ControlType, GivesUpType DEF OrderTimesOut, LiveTypeOK
<1>8. CASE Reconnects
    <2>1. pending \in Signals
        BY <1>8 DEF Reconnects, LiveTypeOK
    <2> QED
        BY <1>8, <2>1 DEF Reconnects, brokerVars, signalVars, LiveTypeOK
<1> QED
    BY <1>1, <1>2, <1>3, <1>4, <1>5, <1>6, <1>7, <1>8 DEF CycleStep

LEMMA InterruptedType ==
  ASSUME LiveTypeOK, Interrupted
  PROVE  /\ open' \in [Dirs -> 0..MaxOpen] /\ late' \in [Dirs -> 0..MaxOpen]
         /\ order' = "none" /\ UNCHANGED <<faulted, newBar, attempt, cooling>>
         /\ pending \in Signals
<1>1. open' \in [Dirs -> 0..MaxOpen] /\ late' \in [Dirs -> 0..MaxOpen]
    BY GivesUpType DEF Interrupted, LiveTypeOK
<1>2. pending \in Signals
    BY Constants DEF Interrupted, LiveTypeOK
<1> QED
    BY <1>1, <1>2 DEF Interrupted

LEMMA FailureType ==
  ASSUME LiveTypeOK,
         \/ FirstFailure \/ SecondFailure \/ RetryFails \/ ReconnectFails
         \/ BridgeEnds
  PROVE  LiveTypeOK'
<1> USE Constants DEF InCycle, Starting
<1>1. CASE FirstFailure
    <2>1. failures' \in 0..2
        BY <1>1 DEF FirstFailure
    <2> QED
        BY <1>1, <2>1, InterruptedType DEF FirstFailure, FeedBar, LiveTypeOK
<1>2. CASE SecondFailure
    <2>1. failures' \in 0..2
        BY <1>2 DEF SecondFailure
    <2> QED
        BY <1>2, <2>1, InterruptedType DEF SecondFailure, signalVars, LiveTypeOK
<1>3. CASE RetryFails
    BY <1>3, InterruptedType DEF RetryFails, LiveTypeOK
<1>4. CASE ReconnectFails
    BY <1>4 DEF ReconnectFails, brokerVars, LiveTypeOK
<1>5. CASE BridgeEnds
    <2>1. failures' \in 0..2 /\ attempt' \in 0..WarmupLimit
        BY <1>5 DEF BridgeEnds
    <2>2. open' \in [Dirs -> 0..MaxOpen] /\ late' \in [Dirs -> 0..MaxOpen]
        BY <1>5, GivesUpType DEF BridgeEnds, LiveTypeOK
    <2> QED
        BY <1>5, <2>1, <2>2 DEF BridgeEnds, LiveTypeOK
<1> QED
    BY <1>1, <1>2, <1>3, <1>4, <1>5

\* A bridge on its way to the first cycle counts its attempts up to WarmupLimit.
LEMMA StartType ==
  ASSUME LiveTypeOK, BridgeStarts \/ Connects \/ ConnectTimesOut \/ StartStep
  PROVE  LiveTypeOK'
<1> USE Constants DEF InCycle, Starting
<1>1. ASSUME NEW to, NEW n, Advances(to, n), pc \in Starting \cup {"off"},
             to \in Starting \cup {"off", "idle"}, n \in 0..WarmupLimit,
             newBar' \in BOOLEAN
      PROVE  LiveTypeOK'
    BY <1>1 DEF Advances, brokerVars, signalVars, LiveTypeOK
<1>2. newBar' \in BOOLEAN /\ pc \in Starting \cup {"off"}
    BY DEF BridgeStarts, Connects, ConnectTimesOut, StartStep, WarmsUp, WarmupShort, Syncs,
       LiveTypeOK
<1>3. \E to \in Starting \cup {"off", "idle"}, n \in 0..WarmupLimit : Advances(to, n)
    <2>1. ConnectLimit \in 1..WarmupLimit /\ attempt \in 0..WarmupLimit
        BY LiveBridgeAssumption DEF LiveTypeOK
    <2>2. 0 \in 0..WarmupLimit /\ 1 \in 0..WarmupLimit
        OBVIOUS
    <2>3. attempt < WarmupLimit => attempt + 1 \in 0..WarmupLimit
        BY <2>1
    <2>4. CASE BridgeStarts \/ Connects
        BY <2>2, <2>4 DEF BridgeStarts, Connects
    <2>5. CASE ConnectTimesOut
        BY <2>1, <2>2, <2>3, <2>5 DEF ConnectTimesOut
    <2>6. CASE WarmupShort
        BY <2>2, <2>3, <2>6 DEF WarmupShort
    <2>7. CASE WarmsUp \/ Syncs
        BY <2>2, <2>7 DEF WarmsUp, Syncs
    <2> QED
        BY <2>4, <2>5, <2>6, <2>7 DEF StartStep
<1> QED
    BY <1>1, <1>2, <1>3

LEMMA NextType == LiveTypeOK /\ [Next]_vars => LiveTypeOK'
<1> SUFFICES ASSUME LiveTypeOK, [Next]_vars PROVE LiveTypeOK'
    OBVIOUS
<1>1. CASE BarCloses \/ CooldownEnds
    BY <1>1 DEF BarCloses, CooldownEnds, brokerVars, signalVars, LiveTypeOK
<1>2. CASE UNCHANGED vars
    BY <1>2 DEF vars, brokerVars, signalVars, LiveTypeOK
<1> QED
    BY <1>1, <1>2, BrokerType, CycleType, FailureType, StartType DEF Next

\* The variables keep their types, and a poll cycle never waits for an order
\* that it has not sent (the main loop and _execute_signal).
THEOREM LiveTypeCorrect == Spec => []LiveTypeOK
<1>1. Init => LiveTypeOK
    BY InitLive DEF LiveInv
<1> QED
    BY <1>1, NextType, PTL DEF Spec

-----------------------------------------------------------------------------
(***************************************************************************)
(* One position.                                                           *)
(***************************************************************************)
\* An entry waits for an order only if there is no position.
LEMMA EnterOne ==
  ASSUME LiveTypeOK, Total(open') <= 1, pc # "order",
         \/ Executed
         \/ Enter /\ Total(open') = 0
  PROVE  Total(open') <= 1 /\ (order' = "sent" => Total(open') = 0)
BY DEF LiveTypeOK, Executed, Enter

LEMMA FlatRead ==
  ASSUME LiveTypeOK, Held = {}
  PROVE  Total(open) = 0
<1>1. \A d \in Dirs : open[d] \in Nat /\ ~(open[d] > 0)
    BY Constants DEF Held, LiveTypeOK
<1> QED
    BY <1>1, TotalType DEF LiveTypeOK

LEMMA DecideOne ==
  ASSUME LiveTypeOK, pc = "read", Total(open) <= 1, open' = open,
         NEW seen, Decide(seen), seen = None => Held = {}
  PROVE  Total(open') <= 1 /\ (order' = "sent" => Total(open') = 0)
<1>1. CASE Executed
    BY <1>1, EnterOne
<1>2. CASE seen = None /\ Enter
    BY <1>2, EnterOne, FlatRead
<1>3. CASE UNCHANGED order
    BY <1>3 DEF LiveTypeOK
<1> QED
    BY <1>1, <1>2, <1>3 DEF Decide

\* While nothing has failed, each step keeps the bot at one position.
LEMMA CycleOne ==
  ASSUME LiveTypeOK, LiveTypeOK', ~faulted', Total(open) <= 1,
         order = "sent" => Total(open) = 0, CycleStep \/ GetPositionsFails
  PROVE  Total(open') <= 1 /\ (order' = "sent" => Total(open') = 0)
<1>1. CASE PollFeeds \/ PollExecutes
    BY <1>1 DEF PollFeeds, PollExecutes, brokerVars
<1>2. CASE GetPositions
    <2>1. PICK seen \in IF Held = {} THEN {None} ELSE Held : Decide(seen)
        BY <1>2 DEF GetPositions
    <2>2. seen = None => Held = {}
        BY <2>1, Constants DEF Held
    <2> QED
        BY <1>2, <2>1, <2>2, DecideOne DEF GetPositions, brokerVars
<1>3. CASE GetPositionsFails
    BY <1>3, DecideOne DEF GetPositionsFails
<1>4. ASSUME NEW left \in [Dirs -> 0..MaxOpen], CloseAll(left)
      PROVE  Total(open') <= 1 /\ (order' = "sent" => Total(open') = 0)
    <2>1. left = Nothing /\ open' = left
        BY <1>4 DEF CloseAll
    <2>2. Total(open') = 0
        BY <2>1, TotalType
    <2> QED
        BY <1>4, <2>2, EnterOne DEF CloseAll
<1>5. CASE OrderAnswered
    BY <1>5 DEF OrderAnswered, Executed, brokerVars
<1>6. CASE OrderTimesOut
    BY <1>6 DEF OrderTimesOut, Executed
<1>7. CASE Reconnects
    BY <1>7 DEF Reconnects, brokerVars
<1> QED
    BY <1>1, <1>2, <1>3, <1>4, <1>5, <1>6, <1>7 DEF CycleStep

\* A start sends nothing and closes nothing.
LEMMA StartKeeps ==
  ASSUME BridgeStarts \/ Connects \/ ConnectTimesOut \/ StartStep
  PROVE  UNCHANGED <<open, faulted, order>>
BY DEF BridgeStarts, Connects, ConnectTimesOut, StartStep, WarmsUp, WarmupShort, Syncs,
   Advances, brokerVars

LEMMA OtherOne ==
  ASSUME LiveTypeOK, LiveTypeOK', ~faulted', Total(open) <= 1,
         order = "sent" => Total(open) = 0, [Next]_vars, ~CycleStep, ~GetPositionsFails
  PROVE  Total(open') <= 1 /\ (order' = "sent" => Total(open') = 0)
<1>1. CASE BrokerFills
    <2>1. pending \in Dirs /\ Total(open') = Total(open) + 1
        BY <1>1, OneMore DEF BrokerFills, LiveTypeOK
    <2> QED
        BY <1>1, <2>1 DEF BrokerFills
<1>2. ASSUME NEW d \in Dirs, BrokerCloses(d)
      PROVE  Total(open') <= 1 /\ (order' = "sent" => Total(open') = 0)
    <2>1. \A e \in Dirs : open'[e] <= open[e]
        BY <1>2, Constants DEF BrokerCloses, LiveTypeOK
    <2>2. Total(open') <= Total(open) /\ Total(open') \in Nat /\ Total(open) \in Nat
        BY <2>1, FewerPositions, TotalType DEF LiveTypeOK
    <2> QED
        BY <1>2, <2>2 DEF BrokerCloses
<1>3. CASE Interrupted /\ (FirstFailure \/ SecondFailure \/ RetryFails)
    <2>1. \A e \in Dirs : open'[e] <= open[e]
        BY <1>3, Constants DEF Interrupted, LiveTypeOK
    <2>2. Total(open') <= Total(open) /\ Total(open') \in Nat /\ Total(open) \in Nat
        BY <2>1, FewerPositions, TotalType DEF LiveTypeOK
    <2> QED
        BY <1>3, <2>2 DEF Interrupted
<1>4. CASE BarCloses \/ CooldownEnds \/ BrokerRejects \/ ReconnectFails
    BY <1>4 DEF BarCloses, CooldownEnds, BrokerRejects, ReconnectFails, brokerVars
<1>5. CASE BridgeEnds
    BY <1>5 DEF BridgeEnds
<1>6. ASSUME NEW d \in Dirs, LateFill(d) \/ LateReject(d)
      PROVE  Total(open') <= 1 /\ (order' = "sent" => Total(open') = 0)
    BY <1>6 DEF LateFill, LateReject
<1>7. CASE UNCHANGED vars
    BY <1>7 DEF vars, brokerVars
<1>8. CASE BridgeStarts \/ Connects \/ ConnectTimesOut \/ StartStep
    BY <1>8, StartKeeps
<1> QED
    BY <1>1, <1>2, <1>3, <1>4, <1>5, <1>6, <1>7, <1>8 DEF Next, FirstFailure, SecondFailure,
       RetryFails

\* A fault is not forgotten.
LEMMA FaultStays ==
  ASSUME LiveTypeOK, [Next]_vars, faulted
  PROVE  faulted'
BY StartKeeps DEF Next, vars, brokerVars, CycleStep, BarCloses, CooldownEnds, BrokerFills,
   BrokerRejects, LateFill, LateReject, BrokerCloses, PollFeeds, PollExecutes,
   GetPositions, GetPositionsFails, CloseAll, OrderAnswered, OrderTimesOut, Interrupted,
   FirstFailure, SecondFailure, RetryFails, Reconnects, ReconnectFails, BridgeEnds

LEMMA NextLive == LiveInv /\ [Next]_vars => LiveInv'
<1> SUFFICES ASSUME LiveInv, [Next]_vars PROVE LiveInv'
    OBVIOUS
<1>1. LiveTypeOK'
    BY NextType DEF LiveInv
<1>2. CASE faulted'
    BY <1>1, <1>2 DEF LiveInv, OneInv
<1>3. CASE ~faulted'
    <2>1. Total(open) <= 1 /\ (order = "sent" => Total(open) = 0)
        BY <1>3, FaultStays DEF LiveInv, OneInv
    <2>2. Total(open') <= 1 /\ (order' = "sent" => Total(open') = 0)
        BY <1>1, <1>3, <2>1, CycleOne, OtherOne DEF LiveInv
    <2> QED
        BY <1>1, <2>2 DEF LiveInv, OneInv
<1> QED
    BY <1>2, <1>3

\* Unless the broker withholds something, orders that time out, are interrupted or
\* are retried never leave the bot with two positions (_execute_signal).
THEOREM OnePositionTheorem == Spec => []OnePositionUnlessFault
<1>1. LiveInv => OnePositionUnlessFault
    BY DEF LiveInv, OneInv, OnePositionUnlessFault
<1> QED
    BY <1>1, InitLive, NextLive, PTL DEF Spec

-----------------------------------------------------------------------------
(***************************************************************************)
(* A signal that was executed is obeyed.                                   *)
(***************************************************************************)
\* An order is only sent when nothing is held on the other side; a reconnection
\* remembers its failures until the signal has been executed.
AgainstInv ==
    /\ faulted \/ (pc = "order" => open[Opposite(pending)] = 0)
    /\ retrying \/ pc = "reconnect" => failures > 0

\* At the end of an execution that nothing interrupted, no position is held but one
\* that the signal asks for, unless the broker withheld something.
SignalObeyed ==
    [][(pc \in InCycle /\ pc' = "idle" /\ failures' = 0)
           => faulted' \/ \A d \in Dirs \ {pending} : open'[d] = 0]_vars

LEMMA FlatReadAll ==
  ASSUME LiveTypeOK, Held = {}
  PROVE  \A d \in Dirs : open[d] = 0
BY Constants DEF Held, LiveTypeOK

\* What was read decides: without a position, or with one on the side of the signal.
LEMMA DecideFlat ==
  ASSUME LiveTypeOK, pc = "read", NEW seen \in Dirs \cup {None}, Decide(seen),
         IF seen = None THEN Held = {} ELSE Total(open) <= 1 /\ open[seen] > 0
  PROVE  /\ pc' = "order" => (\A d \in Dirs : open[d] = 0) /\ pending' = pending
         /\ pc' = "idle" => \A d \in Dirs \ {pending} : open[d] = 0
<1> USE Constants
<1>1. CASE seen = None
    BY <1>1, FlatReadAll DEF Decide, Executed, Enter, FeedBar, signalVars
<1>2. CASE seen # None
    <2>1. pc' = "order" => FALSE
        BY <1>2 DEF Decide, Executed, FeedBar
    <2>2. ASSUME pc' = "idle" PROVE seen = pending
        BY <1>2, <2>2 DEF Decide, Wanted
    <2>3. \A d \in Dirs \ {seen} : open[d] = 0
        BY <1>2 DEF Total, Dirs, LiveTypeOK
    <2> QED
        BY <2>1, <2>2, <2>3
<1> QED
    BY <1>1, <1>2

\* The same of each step of a cycle.
LEMMA CycleFlat ==
  ASSUME LiveInv, AgainstInv, ~faulted, ~faulted', pc \in InCycle,
         CycleStep \/ GetPositionsFails
  PROVE  /\ pc' = "order" => open'[Opposite(pending')] = 0
         /\ pc' = "idle" => \A d \in Dirs \ {pending} : open'[d] = 0
<1> USE DEF LiveInv
<1>1. CASE PollFeeds \/ PollExecutes
    BY <1>1 DEF PollFeeds, PollExecutes, InCycle
<1>2. CASE GetPositions \/ GetPositionsFails
    <2>1. PICK seen \in Dirs \cup {None} :
             /\ Decide(seen)
             /\ IF seen = None THEN Held = {} ELSE open[seen] > 0
        <3>1. CASE GetPositions
            BY <3>1, Constants DEF GetPositions, Held
        <3>2. CASE GetPositionsFails
            BY <3>2 DEF GetPositionsFails
        <3> QED
            BY <1>2, <3>1, <3>2
    <2>2. open' = open /\ pc = "read" /\ Total(open) <= 1 /\ pending \in Signals
        BY <1>2 DEF GetPositions, GetPositionsFails, brokerVars, OneInv, LiveTypeOK
    <2>3. /\ pc' = "order" => (\A d \in Dirs : open[d] = 0) /\ pending' = pending
          /\ pc' = "idle" => \A d \in Dirs \ {pending} : open[d] = 0
        BY <2>1, <2>2, DecideFlat
    <2>4. \A d : Opposite(d) \in Dirs
        BY DEF Opposite, Dirs
    <2> QED
        BY <2>2, <2>3, <2>4
<1>3. ASSUME NEW left \in [Dirs -> 0..MaxOpen], CloseAll(left)
      PROVE  /\ pc' = "order" => open'[Opposite(pending')] = 0
             /\ pc' = "idle" => \A d \in Dirs \ {pending} : open'[d] = 0
    <2>1. open' = Nothing
        BY <1>3 DEF CloseAll
    <2>2. \A d : Opposite(d) \in Dirs
        BY DEF Opposite, Dirs
    <2> QED
        BY <2>1, <2>2 DEF Nothing
<1>4. CASE OrderAnswered \/ OrderTimesOut
    <2>1. pc = "order" /\ pending \in Dirs /\ open' = open /\ pc' = "idle"
        BY <1>4 DEF OrderAnswered, OrderTimesOut, Executed, FeedBar, brokerVars, LiveTypeOK
    <2>2. \A d \in Dirs \ {pending} : d = Opposite(pending)
        BY <2>1 DEF Dirs, Opposite
    <2> QED
        BY <2>1, <2>2 DEF AgainstInv
<1>5. CASE Reconnects
    BY <1>5 DEF Reconnects
<1> QED
    BY <1>2, <1>3, <1>4, <1>5, <1>1 DEF CycleStep

LEMMA AgainstStep == LiveInv /\ AgainstInv /\ [Next]_vars => AgainstInv'
<1> SUFFICES ASSUME LiveInv, AgainstInv, [Next]_vars PROVE AgainstInv'
    OBVIOUS
<1>1. LiveTypeOK /\ LiveTypeOK'
    BY NextType DEF LiveInv
<1>2. (retrying \/ pc = "reconnect" => failures > 0)'
    <2>1. CASE UNCHANGED <<retrying, pc, failures>>
        BY <2>1 DEF AgainstInv
    <2>2. CASE retrying' = FALSE /\ pc' = "idle"
        BY <2>2
    <2>3. CASE UNCHANGED <<retrying, failures>> /\ pc' # "reconnect"
        BY <2>3 DEF AgainstInv
    <2>4. CASE CycleStep \/ GetPositionsFails
        BY <2>2, <2>3, <2>4 DEF CycleStep, PollFeeds, PollExecutes, GetPositions,
           GetPositionsFails, Decide, CloseAll, OrderAnswered, OrderTimesOut, Executed, Enter,
           FeedBar, Reconnects, AgainstInv
    <2>5. CASE \/ FirstFailure \/ SecondFailure \/ RetryFails \/ ReconnectFails \/ BridgeEnds
        BY <2>5 DEF FirstFailure, SecondFailure, RetryFails, ReconnectFails, BridgeEnds,
           FeedBar, AgainstInv
    <2>6. CASE BridgeStarts \/ Connects \/ ConnectTimesOut \/ StartStep
        BY <2>3, <2>6 DEF BridgeStarts, Connects, ConnectTimesOut, StartStep, WarmsUp,
           WarmupShort, Syncs, Advances
    <2> QED
        BY <2>1, <2>4, <2>5, <2>6 DEF Next, BarCloses, CooldownEnds, BrokerFills,
           BrokerRejects, LateFill, LateReject, BrokerCloses, vars
<1>3. ASSUME ~faulted', pc' = "order" PROVE open'[Opposite(pending')] = 0
    <2>1. ~faulted
        BY <1>1, <1>3, FaultStays
    <2>2. CASE CycleStep \/ GetPositionsFails
        <3>1. pc \in InCycle
            BY <1>3, <2>2 DEF CycleStep, PollFeeds, PollExecutes, FeedBar, GetPositions,
               GetPositionsFails, CloseAll, OrderAnswered, OrderTimesOut, Executed,
               Reconnects, InCycle
        <3> QED
            BY <1>3, <2>1, <2>2, <3>1, CycleFlat
    <2>3. CASE BrokerFills
        BY <1>1, <1>3, <2>1, <2>3 DEF BrokerFills, AgainstInv, Opposite, signalVars, LiveTypeOK
    <2>4. ASSUME NEW d \in Dirs, BrokerCloses(d) PROVE open'[Opposite(pending')] = 0
        <3>1. Opposite(pending) \in Dirs
            BY DEF Opposite, Dirs
        <3>2. /\ pc = "order" /\ pending' = pending
              /\ open' = [open EXCEPT ![d] = @ - 1] /\ open[d] > 0
            BY <1>3, <2>4 DEF BrokerCloses, signalVars
        <3> QED
            BY <1>1, <2>1, <3>1, <3>2 DEF AgainstInv, LiveTypeOK
    <2>5. CASE UNCHANGED <<open, pc, pending>>
        BY <1>3, <2>1, <2>5 DEF AgainstInv
    <2>6. CASE BridgeStarts \/ Connects \/ ConnectTimesOut \/ StartStep
        BY <1>1, <1>3, <2>6 DEF BridgeStarts, Connects, ConnectTimesOut, StartStep, WarmsUp,
           WarmupShort, Syncs, Advances
    <2> QED
        BY <1>3, <2>2, <2>3, <2>4, <2>5, <2>6 DEF Next, BarCloses, CooldownEnds, BrokerRejects,
           LateFill, LateReject, FirstFailure, FeedBar, SecondFailure, RetryFails, ReconnectFails,
           BridgeEnds, vars, brokerVars, signalVars
<1> QED
    BY <1>2, <1>3 DEF AgainstInv

\* Whoever ends a cycle with the bar fed and no failure counted has executed it.
LEMMA ObeyedStep ==
  ASSUME LiveInv, AgainstInv, [Next]_vars, pc \in InCycle, pc' = "idle", failures' = 0,
         ~faulted'
  PROVE  \A d \in Dirs \ {pending} : open'[d] = 0
<1>1. ~faulted
    BY FaultStays DEF LiveInv
<1>2. ~(FirstFailure \/ SecondFailure \/ RetryFails \/ ReconnectFails \/ BridgeEnds)
    BY DEF FirstFailure, SecondFailure, RetryFails, ReconnectFails, BridgeEnds, AgainstInv
<1>3. CycleStep \/ GetPositionsFails
    BY <1>2 DEF Next, BarCloses, CooldownEnds, BrokerFills, BrokerRejects, LateFill,
       LateReject, BrokerCloses, BridgeStarts, Connects, ConnectTimesOut, StartStep, WarmsUp,
       WarmupShort, Syncs, InCycle, vars
<1> QED
    BY <1>1, <1>3, CycleFlat

\* A signal that was executed leaves no position against it: a close leaves none at
\* all, an entry none on the other side (_execute_signal).
THEOREM ObeyedTheorem == Spec => SignalObeyed
<1>1. Init => AgainstInv
    BY DEF Init, AgainstInv
<1>2. LiveInv /\ AgainstInv /\ [Next]_vars
        => [(pc \in InCycle /\ pc' = "idle" /\ failures' = 0)
               => faulted' \/ \A d \in Dirs \ {pending} : open'[d] = 0]_vars
    BY ObeyedStep
<1> QED
    BY <1>1, <1>2, InitLive, NextLive, AgainstStep, PTL DEF Spec, SignalObeyed

-----------------------------------------------------------------------------
(***************************************************************************)
(* Nothing goes on for ever: what a cycle and a start have before them.    *)
(***************************************************************************)
\* How many more awaits there can be, the retry after a reconnection and all the
\* attempts to connect and to warm up included.
AwaitsLeft ==
    CASE pc = "connect" -> 2 * WarmupLimit + 2 - attempt
      [] pc = "warm" -> WarmupLimit + 2 - attempt
      [] pc = "sync" -> 1
      [] pc = "read" -> IF retrying THEN 3 ELSE 7
      [] pc = "close" -> IF retrying THEN 2 ELSE 6
      [] pc = "order" -> IF retrying THEN 1 ELSE 5
      [] pc = "reconnect" -> 4
      [] OTHER -> 0

\* A cycle or a start that is under way comes nearer to its end with every step of
\* the bridge, and nobody else, the broker or the clock, puts it back.
AwaitsRunOut ==
    [][pc \notin {"idle", "off"} =>
          /\ AwaitsLeft' <= AwaitsLeft
          /\ CycleStep \/ StartStep => AwaitsLeft' < AwaitsLeft]_vars

LEMMA AwaitsType == LiveTypeOK => AwaitsLeft \in Nat
BY Constants DEF LiveTypeOK, AwaitsLeft, InCycle, Starting

LEMMA AwaitsAtEnd ==
  ASSUME LiveTypeOK, pc \notin {"idle", "off"}, pc' \in {"idle", "off"}
  PROVE  AwaitsLeft' < AwaitsLeft
<1>1. AwaitsLeft' = 0
    BY DEF AwaitsLeft
<1>2. AwaitsLeft > 0
    BY Constants DEF LiveTypeOK, AwaitsLeft, InCycle, Starting
<1> QED
    BY <1>1, <1>2

LEMMA CycleShorter ==
  ASSUME LiveTypeOK, pc \in InCycle, CycleStep \/ GetPositionsFails
  PROVE  AwaitsLeft' < AwaitsLeft
<1> USE DEF InCycle
<1>1. CASE pc' = "idle"
    BY <1>1, AwaitsAtEnd
<1>2. CASE pc = "read" /\ pc' \in {"close", "order"} /\ UNCHANGED retrying
    BY <1>2 DEF AwaitsLeft
<1>3. CASE pc = "close" /\ pc' = "order" /\ UNCHANGED retrying
    BY <1>3 DEF AwaitsLeft
<1>4. CASE pc = "reconnect" /\ pc' = "read" /\ retrying'
    BY <1>4 DEF AwaitsLeft
<1> QED
    BY <1>1, <1>2, <1>3, <1>4 DEF CycleStep, PollFeeds, PollExecutes, GetPositions,
       GetPositionsFails, Decide, CloseAll, OrderAnswered, OrderTimesOut, Executed, Enter,
       FeedBar, Reconnects, LiveTypeOK

LEMMA StartShorter ==
  ASSUME LiveTypeOK, pc \in Starting, Connects \/ ConnectTimesOut \/ StartStep
  PROVE  AwaitsLeft' < AwaitsLeft
<1> USE Constants DEF Starting
<1>1. CASE pc' \in {"idle", "off"}
    BY <1>1, AwaitsAtEnd
<1>2. CASE Connects
    <2>1. pc = "connect" /\ pc' = "warm" /\ attempt' = 1
        BY <1>2 DEF Connects, Advances
    <2> QED
        BY <2>1 DEF AwaitsLeft, LiveTypeOK
<1>3. CASE ConnectTimesOut /\ pc' \notin {"idle", "off"}
    <2>1. /\ pc = "connect" /\ pc' = "connect" /\ attempt' = attempt + 1
          /\ attempt \in 0..WarmupLimit
        BY <1>3 DEF ConnectTimesOut, Advances, LiveTypeOK
    <2> QED
        BY <2>1 DEF AwaitsLeft
<1>4. CASE WarmupShort /\ pc' \notin {"idle", "off"}
    <2>1. /\ pc = "warm" /\ pc' = "warm" /\ attempt' = attempt + 1
          /\ attempt \in 0..WarmupLimit
        BY <1>4 DEF WarmupShort, Advances, LiveTypeOK
    <2> QED
        BY <2>1 DEF AwaitsLeft
<1>5. CASE WarmsUp
    <2>1. pc = "warm" /\ pc' = "sync"
        BY <1>5 DEF WarmsUp, Advances
    <2> QED
        BY <2>1 DEF AwaitsLeft, LiveTypeOK
<1>6. CASE Syncs
    BY <1>1, <1>6 DEF Syncs, Advances
<1> QED
    BY <1>1, <1>2, <1>3, <1>4, <1>5, <1>6 DEF StartStep

LEMMA AwaitsStep ==
  ASSUME LiveTypeOK, [Next]_vars, pc \notin {"idle", "off"}
  PROVE  /\ AwaitsLeft' <= AwaitsLeft
         /\ CycleStep \/ StartStep => AwaitsLeft' < AwaitsLeft
<1>1. AwaitsLeft \in Nat
    BY AwaitsType
<1>2. CASE AwaitsLeft' < AwaitsLeft
    <2>1. AwaitsLeft' \in Nat
        BY NextType, Constants DEF LiveTypeOK, AwaitsLeft, InCycle, Starting
    <2> QED
        BY <1>1, <1>2, <2>1
<1>3. CASE CycleStep \/ GetPositionsFails
    <2>1. pc \in InCycle
        BY <1>3 DEF CycleStep, PollFeeds, PollExecutes, GetPositions, GetPositionsFails,
           CloseAll, OrderAnswered, OrderTimesOut, Reconnects, InCycle, LiveTypeOK
    <2> QED
        BY <1>2, <1>3, <2>1, CycleShorter
<1>4. CASE Connects \/ ConnectTimesOut \/ StartStep
    <2>1. pc \in Starting
        BY <1>4 DEF Connects, ConnectTimesOut, StartStep, WarmsUp, WarmupShort, Syncs, Starting
    <2> QED
        BY <1>2, <1>4, <2>1, StartShorter
<1>5. CASE FirstFailure \/ RetryFails \/ ReconnectFails \/ BridgeEnds
    <2>1. pc' \in {"idle", "off"}
        BY <1>5 DEF FirstFailure, FeedBar, RetryFails, ReconnectFails, BridgeEnds
    <2> QED
        BY <1>2, <2>1, AwaitsAtEnd
<1>6. CASE SecondFailure
    <2>1. pc \in {"read", "close", "order"} /\ ~retrying /\ pc' = "reconnect"
        BY <1>6 DEF SecondFailure, Interrupted
    <2>2. AwaitsLeft' < AwaitsLeft
        BY <2>1 DEF AwaitsLeft
    <2> QED
        BY <1>2, <2>2
<1>7. CASE UNCHANGED <<pc, attempt, retrying>> /\ ~CycleStep /\ ~StartStep
    <2>1. AwaitsLeft' = AwaitsLeft
        BY <1>7 DEF AwaitsLeft
    <2> QED
        BY <1>1, <1>7, <2>1
<1> QED
    BY <1>3, <1>4, <1>5, <1>6, <1>7 DEF Next, BarCloses, CooldownEnds, BrokerFills, BrokerRejects,
       LateFill, LateReject, BrokerCloses, BridgeStarts, vars

\* The safety half of CycleEnds: a cycle that has begun to execute has at most seven
\* awaits before it, one reconnection and retry included, and a start as many as its
\* limits say; each step of the bridge uses one up.
THEOREM AwaitsTheorem == Spec => AwaitsRunOut
<1>1. LiveTypeOK /\ [Next]_vars
        => [pc \notin {"idle", "off"} =>
               /\ AwaitsLeft' <= AwaitsLeft
               /\ CycleStep \/ StartStep => AwaitsLeft' < AwaitsLeft]_vars
    BY AwaitsStep
<1> QED
    BY <1>1, LiveTypeCorrect, PTL DEF Spec, AwaitsRunOut
=============================================================================
