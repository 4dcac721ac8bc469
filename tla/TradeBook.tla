------------------------------ MODULE TradeBook ------------------------------
(***************************************************************************)
(* What the trade history promises, whoever writes it: the record of a     *)
(* trade is written once, is settled once, and a profit that has been      *)
(* recorded stays.  The writers of bot_trades (the parsed log lines, the   *)
(* streaming listener and the position reconciler) implement it together,  *)
(* see TradeLedger.                                                        *)
(***************************************************************************)
CONSTANT Positions

VARIABLES
    book,   \* what the history says of each position
    known   \* whether the profit is recorded

Records == {"none", "open", "settled"}

BookTypeOK ==
    /\ book \in [Positions -> Records]
    /\ known \in [Positions -> BOOLEAN]

Init ==
    /\ book = [p \in Positions |-> "none"]
    /\ known = [p \in Positions |-> FALSE]

\* A batch of trades is recorded as open.
Record(S) ==
    /\ \A p \in S : book[p] = "none"
    /\ book' = [p \in Positions |-> IF p \in S THEN "open" ELSE book[p]]
    /\ UNCHANGED known

\* Trades are settled, with the profit of those in K; a settled one may still
\* gain its profit and loses nothing.
Settle(S, K) ==
    /\ K \subseteq S
    /\ book' = [p \in Positions |-> IF p \in S THEN "settled" ELSE book[p]]
    /\ known' = [p \in Positions |-> known[p] \/ p \in K]

Next ==
    \/ \E S \in SUBSET Positions : Record(S)
    \/ \E S \in SUBSET Positions : \E K \in SUBSET S : Settle(S, K)

Spec == Init /\ [][Next]_<<book, known>>
=============================================================================
