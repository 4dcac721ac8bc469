-------------------------- MODULE TradeLedgerProofs --------------------------
(***************************************************************************)
(* Theorems of TradeLedger, for any set of positions: safety, the          *)
(* refinement of TradeBook, what makes a pass of the reconciler write off  *)
(* a live position, and how soon it settles a close that was missed.       *)
(***************************************************************************)
EXTENDS TradeLedger, TLAPS

\* What the listener and the reconciler hold between reading and writing: a
\* position that is being closed has its closing deal, a row that was read is
\* still there, and the profits found belong to the rows that are written.
InFlight ==
    /\ lstPos # None => IsCloseDeal(lstPos)
    /\ lstSeen = "open" => lstPos # None /\ state[lstPos] # "none"
    /\ \A p \in sel : state[p] # "none"
    /\ deals \subseteq sel

LedgerInv ==
    /\ LedgerTypeOK
    /\ InFlight
    /\ DirectionRight
    /\ ClosedIsGone

-----------------------------------------------------------------------------
\* The variables keep their types (all of bot_logger, trade_listener and
\* position_reconcile that is modelled).
LEMMA InitType == Init => LedgerTypeOK
BY LedgerAssumption DEF Init, LedgerTypeOK, Directions, Terminal, Gone, Entries

LEMMA NextType == LedgerTypeOK /\ [Next]_vars => LedgerTypeOK'
<1> SUFFICES ASSUME LedgerTypeOK, [Next]_vars PROVE LedgerTypeOK'
    OBVIOUS
<1> USE LedgerAssumption DEF LedgerTypeOK, Terminal, Gone, Entries, rowVars, logVars,
    lstVars, reconVars
<1>1. ASSUME NEW p \in Positions, NEW printed \in BOOLEAN, OrderFilled(p, printed)
      PROVE  LedgerTypeOK'
    BY <1>1 DEF OrderFilled
<1>2. ASSUME NEW p \in Positions, NEW end \in Gone, NEW printed \in BOOLEAN,
             PositionCloses(p, end, printed)
      PROVE  LedgerTypeOK'
    BY <1>2 DEF PositionCloses
<1>3. CASE BotStarts
    BY <1>3 DEF BotStarts
<1>4. CASE BotStops
    BY <1>4 DEF BotStops
<1>5. CASE FlushDrains
    BY <1>5 DEF FlushDrains
<1>6. CASE FlushCommits
    BY <1>6 DEF FlushCommits, InsertOpen
<1>7. CASE FlushFails
    BY <1>7 DEF FlushFails
<1>8. CASE ListenerAttaches
    BY <1>8 DEF ListenerAttaches
<1>9. CASE ListenerDrops
    BY <1>9 DEF ListenerDrops
<1>10. ASSUME NEW p \in Positions, OnOpen(p)
       PROVE  LedgerTypeOK'
    BY <1>10 DEF OnOpen, InsertOpen
<1>11. ASSUME NEW p \in Positions, OnClose(p)
       PROVE  LedgerTypeOK'
    BY <1>11 DEF OnClose
<1>12. CASE CloseCommits
    <2>1. CASE InsertClosed(lstPos)
        BY <1>12, <2>1 DEF CloseCommits, InsertClosed, SynthesisedDirection, Directions
    <2>2. CASE UpdateClosed(lstPos)
        BY <1>12, <2>2 DEF CloseCommits, UpdateClosed
    <2> QED
        BY <1>12, <2>1, <2>2 DEF CloseCommits
<1>13. CASE CloseFails
    BY <1>13 DEF CloseFails
<1>14. CASE ReconStarts
    BY <1>14 DEF ReconStarts
<1>15. CASE ReconPositions
    BY <1>15 DEF ReconPositions
<1>16. CASE ReconSelects
    BY <1>16 DEF ReconSelects, Orphans, OpenRows
<1>17. CASE ReconCommits
    BY <1>17 DEF ReconCommits, PassEnds
<1>18. CASE ReconFails
    BY <1>18 DEF ReconFails, PassEnds
<1>19. CASE ProcessRestarts
    BY <1>19 DEF ProcessRestarts, PassEnds
<1>20. CASE UNCHANGED vars
    BY <1>20 DEF vars
<1> QED
    BY <1>1, <1>2, <1>3, <1>4, <1>5, <1>6, <1>7, <1>8, <1>9, <1>10, <1>11, <1>12,
       <1>13, <1>14, <1>15, <1>16, <1>17, <1>18, <1>19, <1>20 DEF Next

THEOREM LedgerTypeCorrect == Spec => []LedgerTypeOK
BY InitType, NextType, PTL DEF Spec

-----------------------------------------------------------------------------
\* The closing deal of a position is of the opposite type, so that its inverse is
\* the direction of the trade (_record_close).
LEMMA DirectionOfClose ==
  ASSUME NEW p \in Positions PROVE SynthesisedDirection(p) = Dir[p]
BY LedgerAssumption DEF SynthesisedDirection, DealType, Directions

LEMMA InitLedger == Init => LedgerInv
BY InitType, LedgerAssumption DEF Init, LedgerInv, LedgerTypeOK, InFlight, DirectionRight, ClosedIsGone

LEMMA NextLedger == LedgerInv /\ [Next]_vars => LedgerInv'
<1> SUFFICES ASSUME LedgerInv, [Next]_vars PROVE LedgerInv'
    OBVIOUS
<1>0. LedgerTypeOK'
    BY NextType DEF LedgerInv
<1>a. SUFFICES (InFlight /\ DirectionRight /\ ClosedIsGone)'
    BY <1>0 DEF LedgerInv
<1> USE LedgerAssumption DEF LedgerInv, LedgerTypeOK, InFlight, IsCloseDeal, DirectionRight,
    ClosedIsGone, Terminal, Gone, Entries, rowVars, logVars, lstVars, reconVars
<1>1. ASSUME NEW p \in Positions, NEW printed \in BOOLEAN, OrderFilled(p, printed)
      PROVE  (InFlight /\ DirectionRight /\ ClosedIsGone)'
    BY <1>1 DEF OrderFilled
<1>2. ASSUME NEW p \in Positions, NEW end \in Gone, NEW printed \in BOOLEAN,
             PositionCloses(p, end, printed)
      PROVE  (InFlight /\ DirectionRight /\ ClosedIsGone)'
    BY <1>2 DEF PositionCloses
<1>3. CASE BotStarts \/ BotStops \/ FlushDrains \/ FlushFails
    BY <1>3 DEF BotStarts, BotStops, FlushDrains, FlushFails
<1>4. CASE FlushCommits
    BY <1>4 DEF FlushCommits, InsertOpen
<1>5. CASE ListenerAttaches \/ ListenerDrops \/ CloseFails
    BY <1>5 DEF ListenerAttaches, ListenerDrops, CloseFails
<1>6. ASSUME NEW p \in Positions, OnOpen(p)
      PROVE  (InFlight /\ DirectionRight /\ ClosedIsGone)'
    BY <1>6 DEF OnOpen, InsertOpen
<1>7. ASSUME NEW p \in Positions, OnClose(p)
      PROVE  (InFlight /\ DirectionRight /\ ClosedIsGone)'
    BY <1>7 DEF OnClose
<1>8. CASE CloseCommits
    <2>1. lstPos \in Positions /\ broker[lstPos] = "closed"
        BY <1>8 DEF CloseCommits
    <2>2. CASE InsertClosed(lstPos)
        BY <1>8, <2>1, <2>2, DirectionOfClose DEF CloseCommits, InsertClosed
    <2>3. CASE UpdateClosed(lstPos)
        BY <1>8, <2>1, <2>3 DEF CloseCommits, UpdateClosed
    <2> QED
        BY <1>8, <2>1, <2>2, <2>3 DEF CloseCommits
<1>9. CASE ReconStarts \/ ReconPositions
    BY <1>9 DEF ReconStarts, ReconPositions
<1>10. CASE ReconSelects
    BY <1>10 DEF ReconSelects, Orphans, OpenRows
<1>11. CASE ReconCommits
    BY <1>11 DEF ReconCommits, PassEnds
<1>12. CASE ReconFails
    BY <1>12 DEF ReconFails, PassEnds
<1>13. CASE ProcessRestarts
    BY <1>13 DEF ProcessRestarts, PassEnds
<1>14. CASE UNCHANGED vars
    BY <1>14 DEF vars
<1> QED
    BY <1>1, <1>2, <1>3, <1>4, <1>5, <1>6, <1>7, <1>8, <1>9, <1>10, <1>11, <1>12,
       <1>13, <1>14 DEF Next

LEMMA LedgerInvariant == Spec => []LedgerInv
BY InitLedger, NextLedger, PTL DEF Spec

\* Every row has the direction of its trade (_parse_trade, _record_open and
\* _record_close agree).
THEOREM DirectionTheorem == Spec => []DirectionRight
BY LedgerInvariant, PTL DEF LedgerInv

\* Only a position that the broker has closed is written closed (_record_close).
THEOREM ClosedTheorem == Spec => []ClosedIsGone
BY LedgerInvariant, PTL DEF LedgerInv

-----------------------------------------------------------------------------
(***************************************************************************)
(* The three writers implement TradeBook: an insert of open rows is Record *)
(* of those that have none, a close and a pass of the reconciler Settle,   *)
(* everything else a stutter.                                              *)
(***************************************************************************)
BookOf == [p \in Positions |-> IF state[p] \in Terminal THEN "settled" ELSE state[p]]

\* An insert of open rows (_flush_all, _record_open).
LEMMA InsertRecords ==
  ASSUME LedgerTypeOK, NEW S \in SUBSET Positions, InsertOpen(S), UNCHANGED pnl
  PROVE  Book!Next
<1> DEFINE new == {p \in S : state[p] = "none"}
<1>1. Book!Record(new)
    BY DEF Book!Record, InsertOpen, LedgerTypeOK, Terminal
<1>2. new \in SUBSET Positions
    OBVIOUS
<1> QED
    BY <1>1, <1>2, Zenon DEF Book!Next, Book!Record

\* A close by the listener (_record_close).
LEMMA CloseSettles ==
  ASSUME LedgerTypeOK, NEW p \in Positions, state' = [state EXCEPT ![p] = "closed"],
         pnl' = [pnl EXCEPT ![p] = TRUE]
  PROVE  Book!Next
<1>1. Book!Settle({p}, {p})
    BY DEF Book!Settle, LedgerTypeOK, Terminal
<1> QED
    BY <1>1 DEF Book!Next

\* A step that leaves the rows alone.
LEMMA RowsStutter ==
  ASSUME UNCHANGED <<state, pnl>>
  PROVE  UNCHANGED <<BookOf, pnl>>
BY DEF BookOf

LEMMA NextBook == LedgerInv /\ [Next]_vars => [Book!Next]_<<BookOf, pnl>>
<1> SUFFICES ASSUME LedgerInv, [Next]_vars, ~UNCHANGED <<state, pnl>> PROVE Book!Next
    BY RowsStutter
<1> USE DEF LedgerInv
<1>1. CASE FlushCommits
    BY <1>1, InsertRecords DEF FlushCommits
<1>2. ASSUME NEW p \in Positions, OnOpen(p) PROVE Book!Next
    BY <1>2, InsertRecords DEF OnOpen
<1>3. CASE CloseCommits
    <2>1. lstPos \in Positions
        BY <1>3 DEF CloseCommits, LedgerTypeOK
    <2>2. CASE InsertClosed(lstPos)
        BY <2>1, <2>2, CloseSettles DEF InsertClosed
    <2>3. CASE UpdateClosed(lstPos)
        BY <2>1, <2>3, CloseSettles DEF UpdateClosed
    <2> QED
        BY <1>3, <2>2, <2>3 DEF CloseCommits
<1>4. CASE ReconCommits
    <2>1. Book!Settle(sel, deals)
        BY <1>4 DEF Book!Settle, ReconCommits, LedgerTypeOK, InFlight, Terminal
    <2>2. sel \in SUBSET Positions /\ deals \in SUBSET sel
        BY DEF LedgerTypeOK, InFlight
    <2> QED
        BY <2>1, <2>2, Zenon DEF Book!Next, Book!Settle
<1>5. ASSUME \/ \E p \in Positions, printed \in BOOLEAN : OrderFilled(p, printed)
             \/ \E p \in Positions, end \in Gone, printed \in BOOLEAN :
                    PositionCloses(p, end, printed)
             \/ BotStarts \/ BotStops \/ FlushDrains \/ FlushFails
             \/ ListenerAttaches \/ ListenerDrops \/ CloseFails
             \/ \E p \in Positions : OnClose(p)
      PROVE  FALSE
    BY <1>5 DEF OrderFilled, PositionCloses, BotStarts, BotStops, FlushDrains, FlushFails,
       ListenerAttaches, ListenerDrops, CloseFails, OnClose, rowVars
<1>6. ASSUME \/ ReconStarts \/ ReconPositions \/ ReconSelects \/ ReconFails
             \/ ProcessRestarts \/ UNCHANGED vars
      PROVE  FALSE
    BY <1>6 DEF ReconStarts, ReconPositions, ReconSelects, ReconFails, ProcessRestarts,
       vars, rowVars
<1> QED
    BY <1>1, <1>2, <1>3, <1>4, <1>5, <1>6 DEF Next

LEMMA InitBook == Init => Book!Init
BY DEF Init, Book!Init, Terminal

\* No writer reopens a settled trade or takes back a profit, in any order of
\* their reads and writes (all of bot_logger, trade_listener, position_reconcile).
THEOREM BookTheorem == Spec => KeepsBook
<1>1. Init => Book!Init
    BY InitBook
<1>2. LedgerInv /\ [Next]_vars => [Book!Next]_<<BookOf, pnl>>
    BY NextBook
<1> QED
    BY <1>1, <1>2, LedgerInvariant, PTL DEF Spec, KeepsBook, Book!Spec, BookOf

-----------------------------------------------------------------------------
(***************************************************************************)
(* What makes the reconciler write off a position that is live.            *)
(***************************************************************************)
\* No position opens between the moment in which a pass has the positions of the
\* broker and the one in which it has the open rows (reconcile_once).
QuietPasses ==
    [][reconPc = "positions" =>
           \A p \in Positions : broker[p] = "unborn" => broker'[p] = "unborn"]_vars

\* Rows, and lines on their way to a row, are of positions that exist.
Born ==
    /\ \A p \in Positions : state[p] # "none" => broker[p] # "unborn"
    /\ \A p \in Positions \cap (queue \cup batch) : broker[p] # "unborn"

\* A pass knows all live positions until it has selected, and selects none of them.
PassInv ==
    /\ reconPc = "positions" => \A p \in Positions : broker[p] = "live" => p \in live
    /\ \A p \in sel : broker[p] \in Gone
    /\ ReconciledIsGone

LEMMA NextBorn == LedgerInv /\ Born /\ [Next]_vars => Born'
<1> SUFFICES ASSUME LedgerInv, Born, [Next]_vars PROVE Born'
    OBVIOUS
<1> USE LedgerAssumption DEF LedgerInv, LedgerTypeOK, InFlight, Born, IsCloseDeal, Gone, rowVars,
    logVars, lstVars, reconVars
<1>1. ASSUME NEW p \in Positions, NEW printed \in BOOLEAN, OrderFilled(p, printed)
      PROVE  Born'
    BY <1>1 DEF OrderFilled
<1>2. ASSUME NEW p \in Positions, NEW end \in Gone, NEW printed \in BOOLEAN,
             PositionCloses(p, end, printed)
      PROVE  Born'
    BY <1>2 DEF PositionCloses
<1>3. CASE BotStarts \/ BotStops \/ FlushDrains \/ FlushFails
    BY <1>3 DEF BotStarts, BotStops, FlushDrains, FlushFails
<1>4. CASE FlushCommits
    BY <1>4 DEF FlushCommits, InsertOpen
<1>5. CASE ListenerAttaches \/ ListenerDrops \/ CloseFails
    BY <1>5 DEF ListenerAttaches, ListenerDrops, CloseFails
<1>6. ASSUME NEW p \in Positions, OnOpen(p) \/ OnClose(p) PROVE Born'
    BY <1>6 DEF OnOpen, OnClose, InsertOpen
<1>7. CASE CloseCommits
    BY <1>7 DEF CloseCommits, InsertClosed, UpdateClosed
<1>8. CASE ReconStarts \/ ReconPositions \/ ReconSelects \/ ReconFails
    BY <1>8 DEF ReconStarts, ReconPositions, ReconSelects, ReconFails, PassEnds
<1>9. CASE ReconCommits
    BY <1>9 DEF ReconCommits, PassEnds
<1>10. CASE ProcessRestarts \/ UNCHANGED vars
    BY <1>10 DEF ProcessRestarts, PassEnds, vars
<1> QED
    BY <1>1, <1>2, <1>3, <1>4, <1>5, <1>6, <1>7, <1>8, <1>9, <1>10 DEF Next

LEMMA NextPass ==
  ASSUME LedgerTypeOK, Born, PassInv, [Next]_vars,
         reconPc = "positions" => \A p \in Positions : broker[p] = "unborn" => broker'[p] = "unborn"
  PROVE  PassInv'
<1> USE DEF LedgerTypeOK, Born, PassInv, ReconciledIsGone, Terminal, Gone, rowVars, logVars,
    lstVars, reconVars
<1>1. ASSUME NEW p \in Positions, NEW printed \in BOOLEAN, OrderFilled(p, printed)
      PROVE  PassInv'
    BY <1>1 DEF OrderFilled
<1>2. ASSUME NEW p \in Positions, NEW end \in Gone, NEW printed \in BOOLEAN,
             PositionCloses(p, end, printed)
      PROVE  PassInv'
    BY <1>2 DEF PositionCloses
<1>3. CASE BotStarts \/ BotStops \/ FlushDrains \/ FlushFails
    BY <1>3 DEF BotStarts, BotStops, FlushDrains, FlushFails
<1>4. CASE FlushCommits
    BY <1>4 DEF FlushCommits, InsertOpen
<1>5. CASE ListenerAttaches \/ ListenerDrops \/ CloseFails
    BY <1>5 DEF ListenerAttaches, ListenerDrops, CloseFails
<1>6. ASSUME NEW p \in Positions, OnOpen(p) \/ OnClose(p) PROVE PassInv'
    BY <1>6 DEF OnOpen, OnClose, InsertOpen
<1>7. CASE CloseCommits
    BY <1>7 DEF CloseCommits, InsertClosed, UpdateClosed
<1>8. CASE ReconStarts \/ ReconPositions
    BY <1>8 DEF ReconStarts, ReconPositions
<1>9. CASE ReconSelects
    BY <1>9 DEF ReconSelects, Orphans, OpenRows
<1>10. CASE ReconCommits
    BY <1>10 DEF ReconCommits, PassEnds
<1>11. CASE ReconFails \/ ProcessRestarts \/ UNCHANGED vars
    BY <1>11 DEF ReconFails, ProcessRestarts, PassEnds, vars
<1> QED
    BY <1>1, <1>2, <1>3, <1>4, <1>5, <1>6, <1>7, <1>8, <1>9, <1>10, <1>11 DEF Next

\* A row is reconciled only of a position that is gone, in any order of the writers,
\* crashes and failures, unless a position opens while a pass is between its positions
\* and its rows (reconcile_once; without the hypothesis the property does not hold).
THEOREM QuietPassTheorem == Spec /\ QuietPasses => []ReconciledIsGone
<1>1. Init => Born /\ PassInv
    BY DEF Init, Born, PassInv, ReconciledIsGone
<1> DEFINE quiet == reconPc = "positions" =>
                        \A p \in Positions : broker[p] = "unborn" => broker'[p] = "unborn"
<1>2. LedgerInv /\ LedgerInv' /\ Born /\ PassInv /\ [Next]_vars /\ [quiet]_vars => Born' /\ PassInv'
  <2> SUFFICES ASSUME LedgerInv, Born, PassInv, [Next]_vars, [quiet]_vars PROVE Born' /\ PassInv'
      OBVIOUS
  <2>1. quiet
      BY DEF vars
  <2> QED
      BY <2>1, NextBorn, NextPass DEF LedgerInv
<1>3. PassInv => ReconciledIsGone
    BY DEF PassInv
<1> QED
    BY <1>1, <1>2, <1>3, LedgerInvariant, PTL DEF Spec, QuietPasses

-----------------------------------------------------------------------------
(***************************************************************************)
(* How many steps of the reconciler a missed close stays open.             *)
(***************************************************************************)
\* A trade whose close no writer has recorded.
Ghost(p) == state[p] = "open" /\ broker[p] \in Gone

\* Steps until the pass is over that settles it: the pass at hand, unless that one read
\* the positions before the close, and then the next.
Left(p) ==
    CASE reconPc = "selected"   -> IF p \in sel THEN 1 ELSE 5
      [] reconPc = "positions"  -> IF p \in live THEN 6 ELSE 2
      [] reconPc = "connecting" -> 3
      [] reconPc = "idle"       -> 4

PassStep == ReconStarts \/ ReconPositions \/ ReconSelects \/ ReconCommits

GhostSettles ==
    [][\A p \in Positions : Ghost(p) =>
          /\ Ghost(p)' \/ state'[p] \in Terminal
          /\ Ghost(p)' /\ PassStep => Left(p)' < Left(p)
          /\ Ghost(p)' /\ ~(ReconFails \/ ProcessRestarts) => Left(p)' <= Left(p)]_vars

\* A step that is not the reconciler's leaves what is left, and settles or keeps a ghost.
LEMMA OthersKeepGhost ==
  ASSUME LedgerTypeOK, NEW p \in Positions, Ghost(p), [Next]_vars,
         ~PassStep, ~(ReconFails \/ ProcessRestarts)
  PROVE  (Ghost(p)' \/ state'[p] \in Terminal) /\ Left(p)' = Left(p)
<1> USE DEF LedgerTypeOK, Ghost, Gone, Terminal, rowVars, logVars, lstVars, reconVars
<1>1. ASSUME NEW q \in Positions, NEW printed \in BOOLEAN, OrderFilled(q, printed)
      PROVE  UNCHANGED <<reconPc, live, sel>> /\ (Ghost(p)' \/ state'[p] \in Terminal)
    BY <1>1 DEF OrderFilled
<1>2. ASSUME NEW q \in Positions, NEW end \in Gone, NEW printed \in BOOLEAN,
             PositionCloses(q, end, printed)
      PROVE  UNCHANGED <<reconPc, live, sel>> /\ (Ghost(p)' \/ state'[p] \in Terminal)
    BY <1>2 DEF PositionCloses
<1>3. ASSUME BotStarts \/ BotStops \/ FlushDrains \/ FlushFails \/ ListenerAttaches
             \/ ListenerDrops \/ CloseFails \/ UNCHANGED vars
      PROVE  UNCHANGED <<reconPc, live, sel>> /\ (Ghost(p)' \/ state'[p] \in Terminal)
    BY <1>3 DEF BotStarts, BotStops, FlushDrains, FlushFails, ListenerAttaches, ListenerDrops,
       CloseFails, vars
<1>4. ASSUME NEW q \in Positions, OnOpen(q) \/ OnClose(q)
      PROVE  UNCHANGED <<reconPc, live, sel>> /\ (Ghost(p)' \/ state'[p] \in Terminal)
    BY <1>4 DEF OnOpen, OnClose, InsertOpen
<1>5. ASSUME FlushCommits
      PROVE  UNCHANGED <<reconPc, live, sel>> /\ (Ghost(p)' \/ state'[p] \in Terminal)
    BY <1>5 DEF FlushCommits, InsertOpen
<1>6. ASSUME CloseCommits
      PROVE  UNCHANGED <<reconPc, live, sel>> /\ (Ghost(p)' \/ state'[p] \in Terminal)
    BY <1>6 DEF CloseCommits, InsertClosed, UpdateClosed
<1>7. UNCHANGED <<reconPc, live, sel>> /\ (Ghost(p)' \/ state'[p] \in Terminal)
    BY <1>1, <1>2, <1>3, <1>4, <1>5, <1>6 DEF Next, PassStep
<1> QED
    BY <1>7 DEF Left

\* A step of a pass brings a ghost nearer to being settled.
LEMMA PassSettles ==
  ASSUME LedgerTypeOK, NEW p \in Positions, Ghost(p), PassStep
  PROVE  (Ghost(p)' /\ Left(p)' < Left(p)) \/ state'[p] \in Terminal
<1> USE DEF LedgerTypeOK, Ghost, Gone, Terminal, rowVars, logVars, lstVars, reconVars, Left
<1>1. CASE ReconStarts
    BY <1>1 DEF ReconStarts
<1>2. CASE ReconPositions
    BY <1>2 DEF ReconPositions
<1>3. CASE ReconSelects
    BY <1>3 DEF ReconSelects, Orphans, OpenRows
<1>4. CASE ReconCommits
    BY <1>4 DEF ReconCommits, PassEnds
<1> QED
    BY <1>1, <1>2, <1>3, <1>4 DEF PassStep

\* A trade whose close was missed is settled after at most six steps of the reconciler,
\* that is two passes, if none of them fails: no step reopens its position or undoes
\* what a pass has done for it (reconcile_once; the bounded half of GhostResolved).
THEOREM GhostTheorem == Spec => GhostSettles
<1>1. ASSUME LedgerInv, [Next]_vars, NEW p \in Positions, Ghost(p)
      PROVE  /\ Ghost(p)' \/ state'[p] \in Terminal
             /\ Ghost(p)' /\ PassStep => Left(p)' < Left(p)
             /\ Ghost(p)' /\ ~(ReconFails \/ ProcessRestarts) => Left(p)' <= Left(p)
  <2>1. Left(p) \in 1..6 /\ Left(p)' \in 1..6
      BY <1>1, NextType DEF Left, LedgerInv, LedgerTypeOK
  <2>2. CASE PassStep
      BY <1>1, <2>1, <2>2, PassSettles DEF LedgerInv, Ghost, Terminal
  <2>3. CASE ~PassStep /\ (ReconFails \/ ProcessRestarts)
      BY <1>1, <2>3 DEF ReconFails, ProcessRestarts, Ghost
  <2>4. CASE ~PassStep /\ ~(ReconFails \/ ProcessRestarts)
      BY <1>1, <2>1, <2>4, OthersKeepGhost DEF LedgerInv
  <2> QED
      BY <2>2, <2>3, <2>4
<1>2. LedgerInv /\ [Next]_vars =>
          [\A p \in Positions : Ghost(p) =>
              /\ Ghost(p)' \/ state'[p] \in Terminal
              /\ Ghost(p)' /\ PassStep => Left(p)' < Left(p)
              /\ Ghost(p)' /\ ~(ReconFails \/ ProcessRestarts) => Left(p)' <= Left(p)]_vars
  BY <1>1
<1> QED
  BY <1>2, LedgerInvariant, PTL DEF Spec, GhostSettles
=============================================================================
