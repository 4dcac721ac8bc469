--------------------------------- MODULE Pine ---------------------------------
(***************************************************************************)
(* A script from its source to its last bar: the lexer, the parser and the *)
(* interpreter in the order in which Engine.run (pineforge/engine.py) and  *)
(* LiveBridge (pineforge/live/bridge.py: _init_interpreter, _feed_bar) use *)
(* them.  A backtest ends with the first exception.  A live bot's loop     *)
(* catches it and feeds the next bar to the same interpreter.  The broker  *)
(* is Backtest's: here a script finds any position its orders can lead to. *)
(***************************************************************************)
EXTENDS PineInterp, PinePrinter

CONSTANTS Inputs,       \* records of a program, its layout and whether the bot is live
          Bars,         \* the bars of the feed
          QtyOverride   \* Engine's qty_override, or Na

VARIABLES input,    \* the input that is run
          script,   \* the parsed statements
          machine,  \* the interpreter
          fed,      \* bars fed
          past      \* history: the current value of every series after each bar

\* The status of the lexer goes on to running and done, or the error that ended it.
runVars == <<input, script, machine, fed, past>>
vars == <<runVars, lexVars>>

Init ==
    /\ input \in Inputs
    /\ source = Written(input.program, input.layout) /\ LexInit
    /\ script = <<>>
    /\ machine = NewMachine(1)
    /\ fed = 0 /\ past = <<>>

-----------------------------------------------------------------------------
(* tokenize.                                                                *)

Tokenize == (Lex \/ LexEnds) /\ UNCHANGED runVars

(* parse.                                                                   *)

ParseTokens ==
    /\ status = "parsing"
    /\ LET r == ParseScript(tokens) IN
       IF Failed(r) THEN status' = "parse_error" /\ UNCHANGED script
       ELSE status' = "running" /\ script' = r.n
    /\ UNCHANGED <<input, source, at, stack, tokens, machine, fed, past>>

-----------------------------------------------------------------------------
(* The bars.                                                                *)

\* The positions the broker may have made of the orders.
Positions ==
    CASE input.live -> {Na}   \* the bridge defines no strategy.position_size
      [] ~input.live /\ (machine.orders # <<>> \/ machine.position # 0) -> {-1, 0, 1}
      [] OTHER -> {0}

\* What a bar begins with: its prices, the position, no pending orders.
Fed(m, position) ==
    PushBar([m EXCEPT !.position = position, !.orders = <<>>], Bars[fed + 1], Len(past))

Currents(m) ==
    [x \in {y \in DOMAIN m.scopes[1] : m.scopes[1][y].s # 0} |-> Unwrap(m, m.scopes[1][x])]

\* The first bar declares the strategy: only then is the override set.
Settled(m) == IF Len(past) = 0 /\ ~input.live THEN [m EXCEPT !.over = QtyOverride] ELSE m

\* An exception ends a backtest.  In the bridge _bar_count stays, and the next
\* bar of the live bot finds the interpreter as the exception left it.
Bar ==
    /\ status = "running" /\ fed < Len(Bars)
    /\ \E m \in {ExecuteBar(Fed(machine, p), script, Len(past)) : p \in Positions} :
       IF m.err
       THEN /\ machine' = m
            /\ status' = IF input.live THEN "running" ELSE "runtime_error"
            /\ UNCHANGED past
       ELSE /\ machine' = Settled(m)
            /\ past' = Append(past, Currents(m))
            /\ UNCHANGED status
    /\ fed' = fed + 1
    /\ UNCHANGED <<input, source, at, stack, tokens, script>>

\* The broker compares the levels of an exit with the prices of the bar while a
\* position is open.  A series compares with no price: the TypeError ends the backtest.
Incomparable(exit) == exit.stop.s # 0 \/ exit.limit.s # 0

BrokerRaises ==
    /\ status = "running" /\ ~input.live /\ fed < Len(Bars)
    /\ Positions # {0} /\ \E exit \in machine.exits : Incomparable(exit)
    /\ fed' = fed + 1
    /\ status' = "runtime_error"
    /\ UNCHANGED <<input, source, at, stack, tokens, script, machine, past>>

Finish ==
    /\ status = "running" /\ fed = Len(Bars)
    /\ status' = "done"
    /\ UNCHANGED <<input, source, at, stack, tokens, script, machine, fed, past>>

Next == Tokenize \/ ParseTokens \/ Bar \/ BrokerRaises \/ Finish

Spec == Init /\ [][Next]_vars

-----------------------------------------------------------------------------
(* Properties.                                                              *)

Ran == status \in {"running", "done"}
Failures == fed - Len(past)

\* The shape of the state: layout, tokens and machine are what the lexer, the
\* parser and the interpreter make, and no series is longer than it may be.
PineTypeOK ==
    /\ status \in {"lexing", "parsing", "running", "done", "lexer_error", "parse_error",
                   "runtime_error"}
    /\ LexTypeOK
    /\ \A i \in DOMAIN machine.heap : Len(machine.heap[i]) <= MaxSeries
    /\ machine.scopes[1]["close"].s \in DOMAIN machine.heap
    /\ Len(past) <= fed /\ fed <= Len(Bars)

\* Lexer.tokenize and Parser.parse: whatever the width of its blocks and with
\* blank lines and comments at its own column, a source is read as the program
\* that was written.  A comment in the margin or whitespace at the end may have
\* it refused, but it is never read as another program.  A version directive says
\* nothing at the head of a script, and has it refused anywhere else.
RoundTrip ==
    /\ status \notin {"lexing", "parsing", "lexer_error", "parse_error"} =>
            script = input.program /\ input.layout.version # "later"
    /\ status \in {"lexer_error", "parse_error"} =>
            input.layout.noise = "margin" \/ input.layout.tail \/ input.layout.version = "later"

\* Interpreter.execute_bar and Series.__getitem__: after a bar x[k] is what x
\* was k bars ago, and na for a bar that did not write it, for every series
\* that the script assigns and every series of the engine ("so history indices
\* stay aligned with bar_index"); of a full series the last ones are kept.
HistoryAligned ==
    Ran /\ Failures = 0 =>
    \A x \in (machine.names \cup Range(BarSeries)) \ machine.inited :
        IsSeries(machine, x) =>
        \A k \in 0..(Len(past) - 1) :
            LET d == Data(machine, Get(machine, x))
                then == past[Len(past) - k]
            IN /\ k < Len(d) =>
                    Back(d, k) = IF x \in DOMAIN then THEN then[x] ELSE Na
               /\ k >= Len(d) => k > MaxSeries - Trim \/ x \notin DOMAIN then

\* The value of an indicator by its definition, from the bars up to b.
Averaged(vals, n, step(_, _)) ==
    LET f[b \in 0..Len(vals)] ==
            CASE b < n -> Na
              [] b = n -> Total(SubSeq(vals, 1, n)) \div n
              [] OTHER -> step(vals[b], f[b - 1])
    IN f[Len(vals)]

Window(vals, n) == SubSeq(vals, Len(vals) - n + 1, Len(vals))

Exponential(vals, n) == Averaged(vals, n, LAMBDA x, prev : (2 * x + (n - 1) * prev) \div (n + 1))

\* The line of ta.macd, its signal and their difference.
DefinedMacd(vals, fastlen, slowlen, siglen) ==
    LET first == Max({fastlen, slowlen})
        line(b) == Exponential(SubSeq(vals, 1, b), fastlen) - Exponential(SubSeq(vals, 1, b), slowlen)
        lines == [i \in 1..(Len(vals) - first + 1) |-> line(first + i - 1)]
        signal == Exponential(lines, siglen)
    IN IF lines = <<>> THEN <<Na, Na, Na>>
       ELSE <<Last(lines), signal, IF signal = Na THEN Na ELSE Last(lines) - signal>>

Defined(f, vals, ns) ==
    LET n == ns[1]
        moves == [i \in 1..(Len(vals) - 1) |-> vals[i + 1] - vals[i]]
        wilder(w) == Averaged(w, n, LAMBDA x, prev : (x + (n - 1) * prev) \div n)
        gain == wilder([i \in DOMAIN moves |-> Gain(moves[i])])
        loss == wilder([i \in DOMAIN moves |-> Gain(-moves[i])])
    IN CASE f = "ema" -> Exponential(vals, n)
         [] f = "macd" -> DefinedMacd(vals, ns[1], ns[2], ns[3])
         [] f = "rma" -> wilder(vals)
         [] f = "rsi" -> IF gain = Na THEN Na ELSE IF loss = 0 THEN 100
                         ELSE (100 * gain) \div (gain + loss)
         [] f = "change" -> IF Len(vals) <= n THEN Na ELSE Last(vals) - vals[Len(vals) - n]
         [] Len(vals) < n -> Na
         [] f = "sma" /\ Len(vals) >= n -> Total(Window(vals, n)) \div n
         [] f = "highest" /\ Len(vals) >= n -> Max(Range(Window(vals, n)))
         [] f = "lowest" /\ Len(vals) >= n -> Min(Range(Window(vals, n)))
         [] f = "stdev" /\ Len(vals) >= n ->
                LET w == Window(vals, n)
                    squares == Total([i \in 1..n |-> w[i] * w[i]])
                IN Root((n * squares - Total(w) * Total(w)) \div (n * (n - 1)))

\* A statement x = ta.f(s, n) on a series s of the engine.
IsIndicator(n) ==
    /\ n.k = "assign" /\ n.val.k = "call" /\ Dotted(n.val.callee)[1] = "ta"
    /\ Dotted(n.val.callee)[2] \in Indicators \cup {"macd"}
    /\ n.val.args[1].val.k = "id" /\ n.val.args[1].val.name \in Range(BarSeries)

\* builtins/ta.py: an indicator that a script evaluates once on every bar has
\* on every bar the value of its definition over all bars so far, whatever
\* other indicators the script keeps on the same series or with the same length,
\* but for two that share their state: ta.macd and ta.ema of one series and length,
\* and ta.ema and ta.rma of one series with lengths as 37 to 31.
IndicatorsRight ==
    Ran /\ Failures = 0 =>
    \A i \in DOMAIN script : IsIndicator(script[i]) =>
        LET call == script[i].val
            vals == [b \in DOMAIN past |-> past[b][call.args[1].val.name]]
        IN past # <<>> =>
            Last(past)[script[i].x] =
                Defined(Dotted(call.callee)[2], vals,
                        [a \in 1..(Len(call.args) - 1) |-> LiteralValue(call.args[a + 1].val.lit)])

\* Interpreter._exec_Assignment: a name declared with var keeps the series of
\* its first bar for as long as the script runs.
VarsBoundOnce ==
    [][\A x \in machine.inited \cap DOMAIN machine.scopes[1] :
           machine'.scopes[1][x] = machine.scopes[1][x]]_vars

=============================================================================
