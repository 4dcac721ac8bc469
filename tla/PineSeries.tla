------------------------------ MODULE PineSeries ------------------------------
(***************************************************************************)
(* The series of Pine scripts (pineforge/series.py): what a Series keeps in *)
(* _data, oldest first.  Numbers are integers and NaN is Na.                *)
(***************************************************************************)
EXTENDS Integers, Sequences

CONSTANTS MaxSeries,  \* MAX_SERIES_DATA
          Trim        \* MAX_SERIES_DATA // 10, what a series that is full gives up

ASSUME SeriesAssumption == MaxSeries \in Nat /\ Trim \in 1..MaxSeries

Na == -1000000

\* Mutant: a full series is not cut.
PushUncut(d, x) == Append(d, x)

Push(d, x) ==
    LET all == Append(d, x) IN
    IF Len(all) > MaxSeries THEN SubSeq(all, Trim + 1, Len(all)) ELSE all

SetCurrent(d, x) == IF d = <<>> THEN <<x>> ELSE [d EXCEPT ![Len(d)] = x]

\* __getitem__: the value k bars ago.
Back(d, k) == IF k \in 0..(Len(d) - 1) THEN d[Len(d) - k] ELSE Na

=============================================================================
