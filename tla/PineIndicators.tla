---------------------------- MODULE PineIndicators ----------------------------
(***************************************************************************)
(* The indicators of Pine scripts (pineforge/builtins/ta.py), on the data  *)
(* of a series.  What goes on from bar to bar is kept in TAState: ta.ema   *)
(* and ta.rma share _ema_state, ta.rsi has _rsi_state.  A state is a       *)
(* function on the keys that have an entry.  A quotient is rounded down.   *)
(***************************************************************************)
EXTENDS PineSeries, SequencesExt

Recent(d, n) == [i \in 1..n |-> Back(d, i - 1)]
Total(s) == FoldLeft(LAMBDA a, b : a + b, 0, s)
Valid(s) == SelectSeq(s, LAMBDA x : x # Na)
Known(s) == Na \notin Range(s)
Gain(c) == IF c > 0 THEN c ELSE 0

Sma(d, n) ==
    IF Len(d) < n \/ ~Known(Recent(d, n)) THEN Na ELSE Total(Recent(d, n)) \div n

\* Of the values that are known.
Highest(d, n) ==
    LET known == Range(Valid(Recent(d, n))) IN
    IF Len(d) < n \/ known = {} THEN Na ELSE Max(known)
Lowest(d, n) ==
    LET known == Range(Valid(Recent(d, n))) IN
    IF Len(d) < n \/ known = {} THEN Na ELSE Min(known)

\* A root is rounded down.
Root(x) == CHOOSE r \in 0..x : r * r <= x /\ x < (r + 1) * (r + 1)

Stdev(d, n) ==
    LET known == Valid(Recent(d, n))
        mean == Total(known) \div Len(known)
        squares == [i \in DOMAIN known |-> (known[i] - mean) * (known[i] - mean)]
    IN IF Len(d) < n \/ Len(known) < 2 THEN Na ELSE Root(Total(squares) \div (Len(known) - 1))

Change(d, n) ==
    IF Len(d) <= n \/ Na \in {Back(d, 0), Back(d, n)} THEN Na ELSE Back(d, 0) - Back(d, n)

\* Mutant: the state of an indicator belongs to its length.
LengthKey(s, multiplier) == multiplier

\* _series_key: it belongs to its series and its length.
SeriesKey(s, multiplier) == s * 10007 + multiplier

EmaKey(s, n) == SeriesKey(s, n * 31)
RmaKey(s, n) == SeriesKey(s, n * 37)
RsiKey(s, n) == SeriesKey(s, n * 41)
MacdKey(s, fastlen, slowlen) == s * 100003 + fastlen * 1009 + slowlen

\* A state with the entry x for a key.
With(state, key, x) == [k \in DOMAIN state \cup {key} |-> IF k = key THEN x ELSE state[k]]

\* ta.ema and ta.rma: the average of the first n values, then one step for
\* every call.
Smoothed(state, key, d, n, step(_)) ==
    LET now == Back(d, 0)
        result == CASE now = Na -> IF key \in DOMAIN state THEN state[key] ELSE Na
                    [] key \in DOMAIN state -> step(state[key])
                    [] OTHER -> Sma(d, n)
    IN [v |-> result, state |-> IF Na \in {now, result} THEN state ELSE With(state, key, result)]

Ema(state, s, d, n) ==
    Smoothed(state, EmaKey(s, n), d, n,
             LAMBDA prev : (2 * Back(d, 0) + (n - 1) * prev) \div (n + 1))
Rma(state, s, d, n) ==
    Smoothed(state, RmaKey(s, n), d, n,
             LAMBDA prev : (Back(d, 0) + (n - 1) * prev) \div n)

\* ta.rsi: the averages of the gains and of the losses.
Rsi(state, s, d, n) ==
    LET key == RsiKey(s, n)
        moves == [i \in 1..n |-> IF Na \in {Back(d, i - 1), Back(d, i)} THEN Na
                                 ELSE Back(d, i - 1) - Back(d, i)]
        seed == [gain |-> Total([i \in 1..n |-> Gain(moves[i])]) \div n,
                 loss |-> Total([i \in 1..n |-> Gain(-moves[i])]) \div n]
        on(p) == [gain |-> (p.gain * (n - 1) + Gain(moves[1])) \div n,
                  loss |-> (p.loss * (n - 1) + Gain(-moves[1])) \div n]
        avg == IF key \in DOMAIN state THEN on(state[key]) ELSE seed
    IN IF moves[1] = Na \/ (key \notin DOMAIN state /\ (Len(d) < n + 1 \/ ~Known(moves)))
       THEN [v |-> Na, state |-> state]
       ELSE [v |-> IF avg.loss = 0 THEN 100 ELSE (100 * avg.gain) \div (avg.gain + avg.loss),
             state |-> With(state, key, avg)]

=============================================================================
