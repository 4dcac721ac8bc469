----------------------------- MODULE MCBacktest -----------------------------
(* Model checking of Backtest: bars that rise, gap down and spread. *)
EXTENDS Backtest, TLC

Bar(o, h, l, c) == [open |-> o, high |-> h, low |-> l, close |-> c]
MCBars == {Bar(4, 5, 3, 4), Bar(2, 2, 1, 2)}
BacktestSymmetry == Permutations(Ids)
=============================================================================
