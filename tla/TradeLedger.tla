----------------------------- MODULE TradeLedger -----------------------------
(***************************************************************************)
(* The trade history of one bot, the table bot_trades, and its three       *)
(* writers: the log handler that parses the bot's own print lines          *)
(* (api/utils/bot_logger.py), the listener of broker deals                 *)
(* (api/services/trade_listener.py) and the position reconciler            *)
(* (api/services/position_reconcile.py).  The broker is external: it opens *)
(* and closes positions, and its deals may reach the listener late, twice, *)
(* out of order or never.  A position is closed in one deal.  A deal of    *)
(* entry type INOUT goes to both handlers of the listener, one after the   *)
(* other (trade_listener.py:108-113).  For a position that it opens and    *)
(* closes these are OnOpen and OnClose in a row; a deal that turns the     *)
(* position of a netting account round is left out, and so is the          *)
(* direction of its close when the insert of its open has failed.          *)
(*                                                                         *)
(* The unique index on (bot_id, order_id) makes the row of a position a    *)
(* function of the position.  Prices are left out; of a profit only        *)
(* whether it is recorded.  A printed close, and an order of a dry run, is *)
(* a row without an id of the broker: of those only whether one has        *)
(* lifecycle_state open is kept, since the reconciler counts them.         *)
(***************************************************************************)
EXTENDS Naturals

CONSTANTS
    Positions,  \* positions of the bot at the broker, by position id
    Dir,        \* their directions
    CloseAll,   \* the queue entry of a printed close
    None

Directions == {"long", "short"}

ASSUME LedgerAssumption ==
    /\ Dir \in [Positions -> Directions]
    /\ CloseAll \notin Positions
    /\ None \notin Positions

VARIABLES
    broker,   \* each position at the broker
    state,    \* lifecycle_state of its row, "none" without a row
    rowDir,   \* direction of the row
    pnl,      \* whether pnl of the row is recorded
    closeRows, \* open rows of printed closes, those the pass has read apart
    running,  \* the row of the bot says running
    queue, batch,             \* BotDatabaseHandler: _queue, and a flush in flight
    attached,                 \* the listener gets the deals of the broker
    lstPos, lstSeen,          \* the close that it is writing, the row that it read
    reconPc, live, \* a pass of the reconciler: the positions that it has read,
    sel, deals     \* the rows that it writes, those with a closing deal

rowVars    == <<state, rowDir, pnl, closeRows>>
logVars    == <<queue, batch>>
lstVars    == <<lstPos, lstSeen>>
reconVars  == <<reconPc, live, deals, sel>>
vars == <<broker, rowVars, running, logVars, attached, lstVars, reconVars>>

Gone == {"closed", "closed_by_user"}
Terminal == {"closed", "reconciled_external"}
Entries == Positions \cup {CloseAll}

LedgerTypeOK ==
    /\ broker \in [Positions -> {"unborn", "live"} \cup Gone]
    /\ state \in [Positions -> {"none", "open"} \cup Terminal]
    /\ rowDir \in [Positions -> Directions \cup {None}]
    /\ pnl \in [Positions -> BOOLEAN]
    /\ closeRows \subseteq {"unread", "read"}
    /\ running \in BOOLEAN
    /\ queue \subseteq Entries
    /\ batch \subseteq Entries
    /\ attached \in BOOLEAN
    /\ lstPos \in Positions \cup {None}
    /\ lstSeen \in {"none", "open"}
    /\ reconPc \in {"idle", "connecting", "positions", "selected"}
    /\ live \subseteq Positions
    /\ deals \subseteq Positions
    /\ sel \subseteq Positions

Init ==
    /\ broker = [p \in Positions |-> "unborn"]
    /\ state = [p \in Positions |-> "none"]
    /\ rowDir = [p \in Positions |-> None]
    /\ pnl = [p \in Positions |-> FALSE]
    /\ closeRows = {}
    /\ running = FALSE
    /\ queue = {}
    /\ batch = {}
    /\ attached = FALSE
    /\ lstPos = None
    /\ lstSeen = "none"
    /\ reconPc = "idle"
    /\ live = {}
    /\ deals = {}
    /\ sel = {}

-----------------------------------------------------------------------------
(***************************************************************************)
(* The bot and the broker.                                                 *)
(***************************************************************************)
\* An order of the bot is filled; its line is printed unless the call to the
\* broker timed out.
OrderFilled(p, printed) ==
    /\ running
    /\ broker[p] = "unborn"
    /\ broker' = [broker EXCEPT ![p] = "live"]
    /\ queue' = IF printed THEN queue \cup {p} ELSE queue
    /\ UNCHANGED <<rowVars, running, batch, attached, lstVars, reconVars>>

\* The position ends: closed by the bot, which prints it, by the broker, or by
\* the user, whose deal has another magic number.
PositionCloses(p, end, printed) ==
    /\ broker[p] = "live"
    /\ printed => running /\ end = "closed"
    /\ broker' = [broker EXCEPT ![p] = end]
    /\ queue' = IF printed THEN queue \cup {CloseAll} ELSE queue
    /\ UNCHANGED <<rowVars, running, batch, attached, lstVars, reconVars>>

BotStarts ==
    /\ ~running
    /\ queue = {} /\ batch = {}
    /\ running' = TRUE
    /\ UNCHANGED <<broker, rowVars, logVars, attached, lstVars, reconVars>>

\* The bot stops: the consumer of the queue is cancelled, and with it a flush in
\* flight, whose entries are gone; what is still queued is flushed.  The
\* streaming connection is closed.
BotStops ==
    /\ running
    /\ running' = FALSE
    /\ batch' = {}
    /\ attached' = FALSE
    /\ UNCHANGED <<broker, rowVars, queue, lstVars, reconVars>>

-----------------------------------------------------------------------------
(***************************************************************************)
(* Parsed log lines: BotDatabaseHandler.                                   *)
(***************************************************************************)
FlushDrains ==
    /\ batch = {}
    /\ queue # {}
    /\ batch' = queue
    /\ queue' = {}
    /\ UNCHANGED <<broker, rowVars, running, attached, lstVars, reconVars>>

\* Mutant: the insert is an update where there is a row.
InsertOpenUpserts(S) ==
    /\ state' = [p \in Positions |-> IF p \in S THEN "open" ELSE state[p]]
    /\ rowDir' = [p \in Positions |-> IF p \in S THEN Dir[p] ELSE rowDir[p]]

\* An insert of open rows that does nothing where there is a row.
InsertOpen(S) ==
    LET new == {p \in S : state[p] = "none"} IN
    /\ state' = [p \in Positions |-> IF p \in new THEN "open" ELSE state[p]]
    /\ rowDir' = [p \in Positions |-> IF p \in new THEN Dir[p] ELSE rowDir[p]]

FlushCommits ==
    /\ batch # {}
    /\ InsertOpen(batch \cap Positions)
    /\ closeRows' = IF CloseAll \in batch THEN closeRows \cup {"unread"} ELSE closeRows
    /\ batch' = {}
    /\ UNCHANGED <<broker, pnl, running, queue, attached, lstVars, reconVars>>

\* The database fails: the entries have left the queue and are not written.
FlushFails ==
    /\ batch # {}
    /\ batch' = {}
    /\ UNCHANGED <<broker, rowVars, running, queue, attached, lstVars, reconVars>>

-----------------------------------------------------------------------------
(***************************************************************************)
(* Broker deals: BotTradeListener.                                         *)
(***************************************************************************)
ListenerAttaches ==
    /\ running
    /\ ~attached
    /\ attached' = TRUE
    /\ UNCHANGED <<broker, rowVars, running, logVars, lstVars, reconVars>>

ListenerDrops ==
    /\ attached
    /\ attached' = FALSE
    /\ UNCHANGED <<broker, rowVars, running, logVars, lstVars, reconVars>>

\* The opening deal, or the opening half of an INOUT deal, at any time after it
\* and as often as the broker likes.
OnOpen(p) ==
    /\ attached
    /\ lstPos = None
    /\ broker[p] # "unborn"
    /\ InsertOpen({p})
    /\ UNCHANGED <<broker, pnl, closeRows, running, logVars, attached, lstVars, reconVars>>

\* Mutant: any deal of the position is taken for its close.
IsCloseDealOfAny(p) == broker[p] # "unborn"

\* The broker has a closing deal of the position with the bot's magic number.
IsCloseDeal(p) == broker[p] = "closed"

\* The closing deal, or the closing half of an INOUT deal: the row is read, and a
\* settled one is left alone.
OnClose(p) ==
    /\ attached
    /\ lstPos = None
    /\ IsCloseDeal(p)
    /\ state[p] \notin Terminal
    /\ lstPos' = p
    /\ lstSeen' = state[p]
    /\ UNCHANGED <<broker, rowVars, running, logVars, attached, reconVars>>

\* A sell that closes has ended a long position.
DealType(p) == IF Dir[p] = "long" THEN "SELL" ELSE "BUY"

\* Mutant: the direction of the deal itself.
DirectionOfDeal(p) == IF DealType(p) = "SELL" THEN "short" ELSE "long"

SynthesisedDirection(p) == IF DealType(p) = "SELL" THEN "long" ELSE "short"

\* No row was there: a closed one is inserted, unless one has come since.
InsertClosed(p) ==
    /\ lstSeen = "none"
    /\ IF state[p] = "none"
       THEN /\ state' = [state EXCEPT ![p] = "closed"]
            /\ rowDir' = [rowDir EXCEPT ![p] = SynthesisedDirection(p)]
            /\ pnl' = [pnl EXCEPT ![p] = TRUE]
       ELSE UNCHANGED <<state, rowDir, pnl>>

\* An open row was there: it is closed, whatever has become of it since.
UpdateClosed(p) ==
    /\ lstSeen = "open"
    /\ state' = [state EXCEPT ![p] = "closed"]
    /\ pnl' = [pnl EXCEPT ![p] = TRUE]
    /\ UNCHANGED rowDir

CloseCommits ==
    /\ lstPos # None
    /\ InsertClosed(lstPos) \/ UpdateClosed(lstPos)
    /\ lstPos' = None
    /\ lstSeen' = "none"
    /\ UNCHANGED <<broker, closeRows, running, logVars, attached, reconVars>>

\* The database fails: the deal is not seen again unless the broker repeats it.
CloseFails ==
    /\ lstPos # None
    /\ lstPos' = None
    /\ lstSeen' = "none"
    /\ UNCHANGED <<broker, rowVars, running, logVars, attached, reconVars>>

-----------------------------------------------------------------------------
(***************************************************************************)
(* The position reconciler, reconcile_once for the account of the bot.     *)
(***************************************************************************)
OpenRows == {p \in Positions : state[p] = "open"}

\* Only the account of a running bot with an open row is looked at.
ReconStarts ==
    /\ reconPc = "idle"
    /\ running
    /\ OpenRows # {} \/ closeRows # {}
    /\ reconPc' = "connecting"
    /\ UNCHANGED <<broker, rowVars, running, logVars, attached, lstVars, live, deals, sel>>

ReconPositions ==
    /\ reconPc = "connecting"
    /\ reconPc' = "positions"
    /\ live' = {p \in Positions : broker[p] = "live"}
    /\ UNCHANGED <<broker, rowVars, running, logVars, attached, lstVars, deals, sel>>

\* Mutant: an empty list of positions is taken for a failed call.
OrphansIfAnyLive == IF live = {} THEN {} ELSE OpenRows \ live

Orphans == OpenRows \ live

\* The closing deals are fetched, of any magic number: those older than 48 hours
\* are missing, and after three failures all are.  Then the open rows are read;
\* a pass that selects none ends.
ReconSelects ==
    /\ reconPc = "positions"
    /\ sel' = Orphans
    /\ \E D \in SUBSET {p \in Orphans : broker[p] \in Gone} : deals' = D
    /\ live' = {}
    /\ closeRows' = IF closeRows = {} THEN {} ELSE {"read"}
    /\ reconPc' = IF sel' = {} /\ closeRows = {} THEN "idle" ELSE "selected"
    /\ UNCHANGED <<broker, state, rowDir, pnl, running, logVars, attached, lstVars>>

\* The pass is over; rows that it had read apart are as any other.
PassEnds(rows) ==
    /\ reconPc' = "idle"
    /\ live' = {}
    /\ deals' = {}
    /\ sel' = {}
    /\ closeRows' = IF rows = {} THEN {} ELSE {"unread"}

\* The selected rows, and those of printed closes, are written whatever has
\* become of them since they were read.
ReconCommits ==
    /\ reconPc = "selected"
    /\ state' = [p \in Positions |-> IF p \in sel THEN "reconciled_external" ELSE state[p]]
    /\ pnl' = [p \in Positions |-> pnl[p] \/ p \in deals]
    /\ PassEnds(closeRows \ {"read"})
    /\ UNCHANGED <<broker, rowDir, running, logVars, attached, lstVars>>

\* The broker or the database fails: the pass ends.
ReconFails ==
    /\ reconPc # "idle"
    /\ PassEnds(closeRows)
    /\ UNCHANGED <<broker, state, rowDir, pnl, running, logVars, attached, lstVars>>

\* The process dies: only the rows and the broker are left.
ProcessRestarts ==
    /\ queue' = {}
    /\ batch' = {}
    /\ attached' = FALSE
    /\ lstPos' = None
    /\ lstSeen' = "none"
    /\ PassEnds(closeRows)
    /\ UNCHANGED <<broker, state, rowDir, pnl, running>>

-----------------------------------------------------------------------------
Next ==
    \/ \E p \in Positions, printed \in BOOLEAN : OrderFilled(p, printed)
    \/ \E p \in Positions, end \in Gone, printed \in BOOLEAN : PositionCloses(p, end, printed)
    \/ BotStarts
    \/ BotStops
    \/ FlushDrains
    \/ FlushCommits
    \/ FlushFails
    \/ ListenerAttaches
    \/ ListenerDrops
    \/ \E p \in Positions : OnOpen(p)
    \/ \E p \in Positions : OnClose(p)
    \/ CloseCommits
    \/ CloseFails
    \/ ReconStarts
    \/ ReconPositions
    \/ ReconSelects
    \/ ReconCommits
    \/ ReconFails
    \/ ProcessRestarts

Spec == Init /\ [][Next]_vars

-----------------------------------------------------------------------------
\* The direction in the history is that of the trade, whichever writer came
\* first: the print line, the opening deal, or the closing deal, whose own type
\* is the opposite (_record_close).
DirectionRight ==
    \A p \in Positions : state[p] # "none" => rowDir[p] = Dir[p]

\* A row says closed only of a position that the broker has closed, whichever of
\* the writers came before or in between (_record_close).
ClosedIsGone ==
    \A p \in Positions : state[p] = "closed" => broker[p] \in Gone

\* A row says reconciled_external only of a position that the broker has closed
\* (the docstring of position_reconcile).
ReconciledIsGone ==
    \A p \in Positions : state[p] = "reconciled_external" => broker[p] \in Gone

\* The three writers keep the promise of TradeBook: no late open reopens a
\* settled trade, none of them takes back a recorded profit.
Book == INSTANCE TradeBook WITH
    book  <- [p \in Positions |-> IF state[p] \in Terminal THEN "settled" ELSE state[p]],
    known <- pnl
KeepsBook == Book!Spec

-----------------------------------------------------------------------------
(***************************************************************************)
(* Liveness.  The reconciliation loop runs for ever, and a broker and a    *)
(* database that are tried again and again answer at last.                 *)
(***************************************************************************)
Fairness ==
    /\ SF_vars(ReconStarts)
    /\ SF_vars(ReconPositions)
    /\ SF_vars(ReconSelects)
    /\ SF_vars(ReconCommits)

FairSpec == Spec /\ Fairness

\* As long as the bot comes back to running, a trade whose close was missed does
\* not stay open in the history (the purpose of position_reconcile).
GhostResolved ==
    []<>running =>
        \A p \in Positions : (state[p] = "open" /\ broker[p] \in Gone)
                                 ~> state[p] \in Terminal
=============================================================================
