---------------------------- MODULE MCTradeLedger ----------------------------
(***************************************************************************)
(* The trade history of a bot with two positions, for TLC.                 *)
(***************************************************************************)
EXTENDS TradeLedger, TLC

CONSTANTS p1, p2

MCPositions == {p1, p2}
MCDir == p1 :> "long" @@ p2 :> "short"
=============================================================================
