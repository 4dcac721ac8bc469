------------------------------ MODULE PineInterp ------------------------------
(***************************************************************************)
(* The interpreter of Pine scripts (pineforge/interpreter.py), its series  *)
(* (series.py), its scopes (environment.py) and the indicators, the        *)
(* strategy functions and the inputs a script calls (builtins/).           *)
(*                                                                         *)
(* A machine m is the state of an Interpreter and of its ExecutionContext: *)
(*   heap     the data of every Series, by its _id; 1..9 are the bar's own *)
(*   scopes   the Environments, the global one first, self.env last        *)
(*   inited, names, written   _initialized_vars, _series_names and         *)
(*            _bar_written                                                 *)
(*   ema, rsi, macd, atr   the TAState                                     *)
(*   orders, exits, position   the broker as a script sees it              *)
(*   qty, over   default_qty_value and qty_override of the strategy        *)
(*   bar, err    bar_index, and whether an exception is raised             *)
(* A value is a number or a reference to a series (s # 0) or a FunctionDef *)
(* (def).  Numbers are integers, booleans 0 and 1, NaN is Na, and a        *)
(* quotient is rounded down; ta.macd gives a triple, which no expression   *)
(* takes apart.                                                            *)
(***************************************************************************)
EXTENDS PineSyntax, PineIndicators

CONSTANT MaxLoop     \* MAX_LOOP_ITERATIONS

ASSUME LoopAssumption == MaxLoop \in Nat \ {0}

Bool(b) == IF b THEN 1 ELSE 0
True(x) == x # 0 /\ x # Na           \* `cond and not is_na(cond)`

Scalar(x) == [s |-> 0, v |-> x, def |-> <<>>]
Ref(id) == [s |-> id, v |-> 0, def |-> <<>>]
Function(node) == [s |-> 0, v |-> 0, def |-> <<node>>]

-----------------------------------------------------------------------------
(* Series.                                                                  *)

Data(m, v) == m.heap[v.s]
Unwrap(m, v) == IF v.s = 0 THEN v.v ELSE Back(Data(m, v), 0)

PushTo(m, v, x) == [m EXCEPT !.heap[v.s] = Push(@, x)]
SetTo(m, v, x) == [m EXCEPT !.heap[v.s] = SetCurrent(@, x)]

-----------------------------------------------------------------------------
(* Scopes: a name is looked up from the innermost one outwards.             *)

Bound(m, x) == \E i \in DOMAIN m.scopes : x \in DOMAIN m.scopes[i]
ScopeOf(m, x) == CHOOSE i \in DOMAIN m.scopes :
                    /\ x \in DOMAIN m.scopes[i]
                    /\ \A j \in (i + 1)..Len(m.scopes) : x \notin DOMAIN m.scopes[j]
Get(m, x) == m.scopes[ScopeOf(m, x)][x]
DefineIn(m, i, x, v) == [m EXCEPT !.scopes[i] = (x :> v) @@ @]
Define(m, x, v) == DefineIn(m, Len(m.scopes), x, v)

IsSeries(m, x) == Bound(m, x) /\ Get(m, x).s # 0

-----------------------------------------------------------------------------
(* A step gives a value v and the machine m after it.  An exception leaves  *)
(* the machine as it was when it was raised.                                *)

Ret(m, v) == [v |-> v, m |-> m]
Number(m, x) == Ret(m, Scalar(x))
Raise(m) == Ret([m EXCEPT !.err = TRUE], Scalar(Na))
Then(r, next(_, _)) == IF r.m.err THEN r ELSE next(r.m, r.v)

-----------------------------------------------------------------------------
(* Operators.                                                               *)

Modulo(a, b) == IF b > 0 THEN a % b ELSE -((-a) % (-b))

Arithmetic(op, a, b) ==
    CASE op = "+" -> a + b
      [] op = "-" -> a - b
      [] op = "*" -> a * b
      [] op = "/" -> IF b = 0 THEN Na ELSE IF b > 0 THEN a \div b ELSE (-a) \div (-b)
      [] op = "%" -> IF b = 0 THEN Na ELSE Modulo(a, b)

Compared(op, a, b) ==
    CASE op = "==" -> a = b
      [] op = "!=" -> a # b
      [] op = "<" -> a < b
      [] op = ">" -> a > b
      [] op = "<=" -> a <= b
      [] op = ">=" -> a >= b
      [] op = "and" -> a # 0 /\ b # 0
      [] op = "or" -> a # 0 \/ b # 0

\* Both operands are evaluated, and Na in one makes the result Na but of == and !=.
Binary(op, a, b) ==
    CASE Na \in {a, b} /\ op \notin {"==", "!="} -> Na
      [] op \in {"+", "-", "*", "/", "%"} -> Arithmetic(op, a, b)
      [] OTHER -> Bool(Compared(op, a, b))

Unary(op, a) == IF a = Na THEN Na ELSE IF op = "-" THEN -a ELSE Bool(a = 0)

\* An augmented assignment: of NaN it makes NaN.
Combined(op, a, b) ==
    LET sign == CHOOSE s \in {"+", "-", "*", "/", "%"} : s \o "=" = op IN
    IF Na \in {a, b} THEN Na ELSE Arithmetic(sign, a, b)

-----------------------------------------------------------------------------
(* Indicators that a script calls.                                          *)

\* ta.ema of the series s, and the machine that keeps its state.
EmaOf(m, s, n) ==
    LET r == Ema(m.ema, s, m.heap[s], n) IN Number([m EXCEPT !.ema = r.state], r.v)

\* The series of a ta.macd: a new one for a new key.
MacdSeries(m, key) ==
    IF key \in DOMAIN m.macd THEN m
    ELSE [m EXCEPT !.macd = (key :> Len(m.heap) + 1) @@ @, !.heap = Append(@, <<>>)]

\* The line of a bar goes to its series, which the signal averages.
MacdSignal(m, id, line, siglen) ==
    Then(EmaOf(PushTo(m, Ref(id), line), id, siglen), LAMBDA m1, signal :
        Number(m1, <<line, signal.v, IF signal.v = Na THEN Na ELSE line - signal.v>>))

\* ta.macd: the averages are those that ta.ema keeps.
Macd(m, s, fastlen, slowlen, siglen) ==
    LET key == MacdKey(s, fastlen, slowlen) IN
    Then(EmaOf(m, s, fastlen), LAMBDA m1, fast :
    Then(EmaOf(m1, s, slowlen), LAMBDA m2, slow :
        IF Na \in {fast.v, slow.v} THEN Number(m2, <<Na, Na, Na>>)
        ELSE MacdSignal(MacdSeries(m2, key), MacdSeries(m2, key).macd[key],
                        fast.v - slow.v, siglen)))

\* A level that is no series is the same before.
Crossed(m, a, b, over) ==
    LET before(v) == IF v.s = 0 THEN v.v ELSE Back(Data(m, v), 1)
        now(v) == Unwrap(m, v)
    IN /\ a.s # 0 \/ b.s # 0
       /\ \A v \in {a, b} : v.s = 0 \/ Len(Data(m, v)) >= 2
       /\ Na \notin {now(a), now(b), before(a), before(b)}
       /\ IF over THEN now(a) > now(b) /\ before(a) <= before(b)
                  ELSE now(a) < now(b) /\ before(a) >= before(b)

Abs(x) == IF x < 0 THEN -x ELSE x

\* The true range i bars ago, of the bar's series high, low and close.
Range3(h, l, pc) == Max({h - l, Abs(h - pc), Abs(l - pc)})
TrueRange(m) ==
    LET h == Back(m.heap[2], 0)  l == Back(m.heap[3], 0)  pc == Back(m.heap[4], 1) IN
    IF Len(m.heap[4]) < 2 THEN h - l ELSE Range3(h, l, pc)

Atr(m, n) ==
    LET ranges == [i \in 1..n |-> Range3(Back(m.heap[2], i - 1), Back(m.heap[3], i - 1),
                                         Back(m.heap[4], i))]
        result == IF n \in DOMAIN m.atr THEN (TrueRange(m) + (n - 1) * m.atr[n]) \div n
                  ELSE IF Len(m.heap[4]) < n + 1 THEN Na ELSE Total(ranges) \div n
    IN [v |-> result, state |-> IF result = Na THEN m.atr ELSE (n :> result) @@ m.atr]

-----------------------------------------------------------------------------
(* The functions a script may call, by the two parts of their names.        *)

Fields == {"position_size", "long", "short"}   \* of strategy: they are values
Indicators == {"sma", "ema", "rma", "rsi", "highest", "lowest", "stdev", "change"}
Builtins == {<<"", f>> : f \in {"nz", "fixnan", "input", "strategy"}}
    \cup {<<"input", f>> : f \in {"source", "int", "float", "bool"}}
    \cup {<<"math", f>> : f \in {"sum", "abs", "max", "min", "sign", "avg", "sqrt"}}
    \cup {<<"ta", f>> : f \in Indicators \cup {"macd", "crossover", "crossunder", "tr", "atr"}}
    \cup {<<"strategy", f>> : f \in {"entry", "close", "close_all", "exit"}}

\* The argument i, or the one that is named key.
ArgOf(args, kw, i, key, default) ==
    CASE i <= Len(args) -> args[i]
      [] key \in DOMAIN kw -> kw[key]
      [] OTHER -> default

\* A function of a series; of any other value an indicator is Na.
Indicator(m, f, src, n) ==
    LET d == Data(m, src)
        rma == Rma(m.ema, src.s, d, n)
        rsi == Rsi(m.rsi, src.s, d, n)
    IN CASE src.s = 0 -> Number(m, Na)
         [] f = "sma" -> Number(m, Sma(d, n))
         [] f = "ema" -> EmaOf(m, src.s, n)
         [] f = "rma" -> Number([m EXCEPT !.ema = rma.state], rma.v)
         [] f = "rsi" -> Number([m EXCEPT !.rsi = rsi.state], rsi.v)
         [] f = "highest" -> Number(m, Highest(d, n))
         [] f = "lowest" -> Number(m, Lowest(d, n))
         [] f = "stdev" -> Number(m, Stdev(d, n))
         [] f = "change" -> Number(m, Change(d, n))

\* A length is int(...) of a number, which NaN has none of.
Technical(m, f, args, kw) ==
    LET src == ArgOf(args, kw, 1, "source", Scalar(Na))
        n == Unwrap(m, ArgOf(args, kw, IF f = "atr" THEN 1 ELSE 2,
                             IF f = "macd" THEN "fastlen" ELSE "length",
                             Scalar(IF f = "macd" THEN 12 ELSE 1)))
        atr == Atr(m, n)
        slowlen == Unwrap(m, ArgOf(args, kw, 3, "slowlen", Scalar(26)))
        siglen == Unwrap(m, ArgOf(args, kw, 4, "siglen", Scalar(9)))
    IN CASE f \in {"crossover", "crossunder"} ->
                Number(m, Bool(Crossed(m, args[1], args[2], f = "crossover")))
         [] f = "tr" -> Number(m, TrueRange(m))
         [] f \notin {"crossover", "crossunder", "tr"} /\ n = Na -> Raise(m)
         [] f = "macd" /\ n # Na ->
                CASE Na \in {slowlen, siglen} -> Raise(m)
                  [] Na \notin {slowlen, siglen} /\ src.s = 0 -> Number(m, <<Na, Na, Na>>)
                  [] OTHER -> Macd(m, src.s, n, slowlen, siglen)
         [] f = "atr" /\ n # Na -> Number([m EXCEPT !.atr = atr.state], atr.v)
         [] OTHER -> Indicator(m, f, src, n)

\* strategy.*: an order goes to the broker with the bar's index.  The levels of an
\* exit go there as they are: a name stands for its series, not for a number.
Strategic(m, f, args, kw) ==
    LET qty == Unwrap(m, ArgOf(args, kw, 3, "qty", Scalar(Na)))
        size == IF m.over # Na THEN m.over ELSE IF qty # Na THEN qty ELSE m.qty
        id == Unwrap(m, ArgOf(args, kw, 1, "id", Scalar(0)))
        order(action, dir, n) == [action |-> action, id |-> id, dir |-> dir, qty |-> n, bar |-> m.bar]
        sent(o) == Number([m EXCEPT !.orders = Append(@, o)], Na)
        level(key) == ArgOf(<<>>, kw, 1, key, Scalar(Na))
    IN CASE f = "entry" ->
                sent(order("entry", Unwrap(m, ArgOf(args, kw, 2, "direction", Scalar(0))), size))
         [] f = "close" -> sent(order("close", 0, 0))
         [] f = "close_all" -> sent(order("close_all", 0, 0))
         [] f = "exit" ->
                Number([m EXCEPT !.exits = {o \in @ : o.id # id}
                          \cup {[id |-> id, stop |-> level("stop"), limit |-> level("limit"),
                                 bar |-> m.bar]}], Na)

\* input.*: without an override the default it is given.  A series is no number,
\* and true unless it is empty; Na is true.
InputValue(m, f, v) ==
    CASE f = "source" \/ (f = "input" /\ v.s # 0) -> Ret(m, v)
      [] f = "bool" -> Number(m, Bool(IF v.s = 0 THEN v.v # 0 ELSE Data(m, v) # <<>>))
      [] f \in {"int", "float"} /\ v.s # 0 -> Raise(m)
      [] f \in {"int", "float", "input"} /\ v.s = 0 -> Number(m, IF v.v = Na THEN 0 ELSE v.v)

\* math.*: max, min and avg leave out what is Na; sum unwraps its source.
Mathematical(f, xs) ==
    LET x == xs[1]
        known == Valid(xs)
    IN CASE f = "sum" -> x
         [] f = "max" -> IF known = <<>> THEN Na ELSE Max(Range(known))
         [] f = "min" -> IF known = <<>> THEN Na ELSE Min(Range(known))
         [] f = "avg" -> IF known = <<>> THEN Na ELSE Total(known) \div Len(known)
         [] f = "abs" -> IF x = Na THEN Na ELSE Abs(x)
         [] f = "sign" -> IF x = Na THEN Na ELSE IF x > 0 THEN 1 ELSE IF x < 0 THEN -1 ELSE 0
         [] f = "sqrt" -> IF x = Na \/ x < 0 THEN Na ELSE Root(x)

\* fixnan only unwraps its source.
Builtin(m, name, args, kw) ==
    CASE name[1] = "ta" -> Technical(m, name[2], args, kw)
      [] name[1] = "strategy" -> Strategic(m, name[2], args, kw)
      [] name[1] = "input" \/ name = <<"", "input">> ->
            InputValue(m, name[2], ArgOf(args, kw, 1, "defval", Scalar(0)))
      [] name[1] = "math" ->
            Number(m, Mathematical(name[2], [i \in DOMAIN args |-> Unwrap(m, args[i])]))
      [] name = <<"", "strategy">> ->
            Number([m EXCEPT !.qty = Unwrap(m, ArgOf(<<>>, kw, 1, "default_qty_value", Scalar(@)))], Na)
      [] name = <<"", "fixnan">> -> Number(m, Unwrap(m, args[1]))
      [] name = <<"", "nz">> ->
            Number(m, IF Unwrap(m, args[1]) # Na THEN Unwrap(m, args[1])
                      ELSE Unwrap(m, ArgOf(args, kw, 2, "replacement", Scalar(0))))

-----------------------------------------------------------------------------
(* Expressions.                                                             *)

LiteralValue(t) ==
    CASE t = "na" -> Na [] t \in {"1", "true"} -> 1 [] t = "2" -> 2 [] t = "3" -> 3
      [] t = "5" -> 5 [] OTHER -> 0

\* The parts of a dotted name.
Dotted(n) == IF n.k = "id" THEN <<"", n.name>>
             ELSE IF n.k = "member" /\ n.e.k = "id" THEN <<n.e.name, n.m>> ELSE <<"", "">>

Position(m) == CASE m.position = Na -> Raise(m) [] OTHER -> Number(m, m.position)

\* _exec of a statement and _eval of an expression.
RECURSIVE Run(_, _)

EvalNumber(m, n) == Then(Run(m, n), LAMBDA m1, v : Ret(m1, Unwrap(m1, v)))

\* Statements and arguments in a row are run like a node.
ExecBlock(m, stmts) == Run(m, [k |-> "block", stmts |-> stmts])
EvalAll(m, nodes) == Run(m, [k |-> "all", nodes |-> nodes])

\* The value of the last statement.
InTurn(m, stmts) ==
    FoldLeft(LAMBDA r, n : Then(r, LAMBDA m1, last : Run(m1, n)), Number(m, Na), stmts)

\* All values, in order.
Together(m, nodes) ==
    FoldLeft(LAMBDA r, n : Then(r, LAMBDA m1, vs : Then(Run(m1, n), LAMBDA m2, v :
                 Ret(m2, Append(vs, v)))), Ret(m, <<>>), nodes)

EvalName(m, x) == IF Bound(m, x) THEN Ret(m, Get(m, x)) ELSE Raise(m)

\* The parameters in the scope of the call: by place, by name or by default.
Bind(m, params, args, kw) ==
    LET given(m1, i) ==
            CASE i <= Len(args) -> Ret(m1, args[i])
              [] i > Len(args) /\ params[i].key \in DOMAIN kw -> Ret(m1, kw[params[i].key])
              [] i > Len(args) /\ params[i].key \notin DOMAIN kw ->
                    IF params[i].val = <<>> THEN Number(m1, Na) ELSE Run(m1, params[i].val[1])
    IN FoldLeft(LAMBDA r, i : Then(r, LAMBDA m1, u : Then(given(m1, i), LAMBDA m2, v :
                    Ret(Define(m2, params[i].key, v), v))),
                Number(m, Na), [i \in DOMAIN params |-> i])

\* _call_user_function: an exception leaves the scope of the call in place.
CallUser(m, fn, args, kw) ==
    LET inner == [m EXCEPT !.scopes = Append(@, <<>>)] IN
    Then(Bind(inner, fn.params, args, kw), LAMBDA m1, u :
    Then(ExecBlock(m1, fn.body), LAMBDA m2, v : Ret([m2 EXCEPT !.scopes = Front(@)], v)))

\* A builtin comes before a function of the script.  The arguments are evaluated
\* from the left, those with a name last.
EvalCall(m, n) ==
    LET placed == SelectSeq(n.args, LAMBDA a : a.key = "")
        keyed == SelectSeq(n.args, LAMBDA a : a.key # "")
        nodes == [i \in DOMAIN n.args |-> (placed \o keyed)[i].val]
        args(vs) == SubSeq(vs, 1, Len(placed))
        kw(vs) == [x \in {a.key : a \in Range(keyed)} |->
                      vs[Len(placed) + CHOOSE i \in DOMAIN keyed : keyed[i].key = x]]
        name == Dotted(n.callee)
    IN Then(EvalAll(m, nodes), LAMBDA m1, vs :
        CASE name \in Builtins -> Builtin(m1, name, args(vs), kw(vs))
          [] name \notin Builtins /\ name[1] = "" /\ Bound(m1, name[2]) ->
                IF Get(m1, name[2]).def = <<>> THEN Raise(m1)
                ELSE CallUser(m1, Get(m1, name[2]).def[1], args(vs), kw(vs))
          [] OTHER -> Raise(m1))

Eval(m, n) ==
    CASE n.k = "literal" -> Number(m, LiteralValue(n.lit))
      [] n.k = "id" -> EvalName(m, n.name)
      [] n.k = "binary" ->
            Then(EvalNumber(m, n.l), LAMBDA m1, a :
            Then(EvalNumber(m1, n.r), LAMBDA m2, b : Number(m2, Binary(n.op, a, b))))
      [] n.k = "unary" -> Then(EvalNumber(m, n.e), LAMBDA m1, a : Number(m1, Unary(n.op, a)))
      [] n.k = "ternary" ->
            Then(EvalNumber(m, n.c), LAMBDA m1, c : Run(m1, IF True(c) THEN n.a ELSE n.b))
      [] n.k = "history" ->
            Then(Run(m, n.e), LAMBDA m1, v :
            Then(EvalNumber(m1, n.off), LAMBDA m2, k :
                IF k = Na THEN Raise(m2)
                ELSE Number(m2, IF v.s = 0 THEN Na ELSE Back(Data(m2, v), k))))
      [] n.k = "member" ->
            CASE Dotted(n) = <<"strategy", "long">> -> Number(m, 1)
              [] Dotted(n) = <<"strategy", "short">> -> Number(m, -1)
              [] Dotted(n) = <<"strategy", "position_size">> -> Position(m)
              [] OTHER -> Raise(m)
      [] n.k = "call" -> EvalCall(m, n)

-----------------------------------------------------------------------------
(* Statements.                                                              *)

\* _to_series: a series stays the one it is.
AsSeries(m, v) ==
    IF v.s # 0 THEN [m |-> m, v |-> v]
    ELSE [m |-> [m EXCEPT !.heap = Append(@, <<v.v>>)], v |-> Ref(Len(m.heap) + 1)]

\* Mutant: on every bar.
DeclareAgain(m, n) ==
    Then(Run(m, n.val), LAMBDA m1, v :
        LET kept == AsSeries(m1, v) IN
        Ret([Define(kept.m, n.x, kept.v) EXCEPT !.inited = @ \cup {n.x}], kept.v))

\* var and varip: the first time only.
Declare(m, n) ==
    IF n.x \in m.inited THEN EvalName(m, n.x)
    ELSE Then(Run(m, n.val), LAMBDA m1, v :
         LET kept == AsSeries(m1, v) IN
         Ret([Define(kept.m, n.x, kept.v) EXCEPT !.inited = @ \cup {n.x}], kept.v))

\* A series that exists gets a new value, and any other name a new series.
AssignTo(m, n) ==
    Then(Run(m, n.val), LAMBDA m1, v :
        IF IsSeries(m1, n.x)
        THEN Ret([PushTo(m1, Get(m1, n.x), Unwrap(m1, v)) EXCEPT !.written = @ \cup {n.x}],
                 Get(m1, n.x))
        ELSE LET kept == AsSeries(m1, v) IN
             Ret([Define(kept.m, n.x, kept.v) EXCEPT !.names = @ \cup {n.x},
                                                   !.written = @ \cup {n.x}], kept.v))

\* := and the augmented ones: the current value, or the variable that is no series.
Overwrite(m, x, r) ==
    CASE IsSeries(m, x) -> Ret(SetTo(m, Get(m, x), r), Get(m, x))
      [] Bound(m, x) /\ ~IsSeries(m, x) ->
            Number(DefineIn(m, ScopeOf(m, x), x, Scalar(r)), r)
      [] OTHER -> Raise(m)

AugmentBy(m, n) ==
    Then(EvalName(m, n.x), LAMBDA m1, v :
    Then(EvalNumber(m1, n.val), LAMBDA m2, b :
        Overwrite(m2, n.x, Combined(n.op, Unwrap(m1, v), b))))

\* The first clause whose condition holds, or the else block: no condition after
\* it is evaluated.
ExecIf(m, n) ==
    LET clauses == <<[c |-> n.c, body |-> n.body]>> \o n.elifs
        chosen == FoldLeft(LAMBDA r, c : Then(r, LAMBDA m1, body :
                               IF body # <<>> THEN r
                               ELSE Then(EvalNumber(m1, c.c), LAMBDA m2, cond :
                                    Ret(m2, IF True(cond) THEN <<c.body>> ELSE <<>>))),
                           Ret(m, <<>>), clauses)
    IN Then(chosen, LAMBDA m1, body :
            IF body \o n.els = <<>> THEN Number(m1, Na) ELSE ExecBlock(m1, (body \o n.els)[1]))

\* At most MaxLoop bodies run; the count is checked before the next one.
Loop(m, n, from, to, step) ==
    LET count == IF step = 0 \/ (to - from) * step < 0 THEN 0
                 ELSE IF step > 0 THEN (to - from) \div step + 1 ELSE (from - to) \div (-step) + 1
        values == [i \in 1..(IF count > MaxLoop THEN MaxLoop ELSE count) |-> from + (i - 1) * step]
        ran == FoldLeft(LAMBDA r, i : Then(r, LAMBDA m1, last :
                            ExecBlock(Define(m1, n.x, Scalar(i)), n.body)), Number(m, Na), values)
    IN Then(ran, LAMBDA m1, last : IF count > MaxLoop THEN Raise(m1) ELSE Ret(m1, last))

ExecFor(m, n) ==
    Then(EvalAll(m, <<n.from, n.to>> \o n.by), LAMBDA m1, vs :
        LET bounds == [i \in DOMAIN vs |-> Unwrap(m1, vs[i])]
            step == IF n.by = <<>> THEN 1 ELSE bounds[3]
        IN IF Na \in Range(bounds) THEN Raise(m1) ELSE Loop(m1, n, bounds[1], bounds[2], step))

\* The count is checked before the condition: a loop that would end after
\* exactly MaxLoop bodies raises.
ExecWhile(m, n) ==
    LET ran == FoldLeft(LAMBDA r, i :
                            IF r.over \/ r.m.err THEN r
                            ELSE LET c == EvalNumber(r.m, n.c)
                                     b == ExecBlock(c.m, n.body)
                                 IN IF c.m.err THEN [r EXCEPT !.m = c.m]
                                    ELSE IF ~True(c.v) THEN [r EXCEPT !.m = c.m, !.over = TRUE]
                                    ELSE [v |-> b.v, m |-> b.m, over |-> FALSE],
                        [v |-> Scalar(Na), m |-> m, over |-> FALSE], [i \in 1..MaxLoop |-> i])
    IN IF ran.over \/ ran.m.err THEN Ret(ran.m, ran.v) ELSE Raise(ran.m)

Exec(m, n) ==
    CASE n.k = "expr" -> Run(m, n.e)
      [] n.k = "assign" -> IF n.var THEN Declare(m, n) ELSE AssignTo(m, n)
      [] n.k = "reassign" ->
            Then(EvalNumber(m, n.val), LAMBDA m1, r : Overwrite(m1, n.x, r))
      [] n.k = "augment" -> AugmentBy(m, n)
      [] n.k = "if" -> ExecIf(m, n)
      [] n.k = "for" -> ExecFor(m, n)
      [] n.k = "forin" -> Then(Run(m, n.it), LAMBDA m1, v : Number(m1, Na))  \* no value is a list
      [] n.k = "while" -> ExecWhile(m, n)
      [] n.k = "def" -> Number(Define(m, n.f, Function(n)), Na)

Expressions == {"literal", "id", "binary", "unary", "ternary", "history", "member", "call"}
Run(m, n) ==
    CASE n.k = "block" -> InTurn(m, n.stmts)
      [] n.k = "all" -> Together(m, n.nodes)
      [] n.k \in Expressions -> Eval(m, n)
      [] OTHER -> Exec(m, n)

-----------------------------------------------------------------------------
(* A bar.                                                                   *)

BarSeries == <<"open", "high", "low", "close", "volume", "hl2", "hlc3", "ohlc4", "bar_index">>

\* A new Interpreter with the engine's series.
NewMachine(qty) ==
    [heap |-> [i \in DOMAIN BarSeries |-> <<>>],
     scopes |-> <<[x \in Range(BarSeries) |->
                      Ref(CHOOSE i \in DOMAIN BarSeries : BarSeries[i] = x)]>>,
     inited |-> {}, names |-> {}, written |-> {}, ema |-> <<>>, rsi |-> <<>>, macd |-> <<>>,
     atr |-> <<>>,
     orders |-> <<>>, exits |-> {}, position |-> 0, qty |-> qty, over |-> Na,
     bar |-> 0, err |-> FALSE]

\* The values of a bar.
BarValues(b, i) ==
    <<b.open, b.high, b.low, b.close, 0, (b.high + b.low) \div 2,
      (b.high + b.low + b.close) \div 3, (b.open + b.high + b.low + b.close) \div 4, i>>

PushBar(m, b, i) ==
    [m EXCEPT !.heap = [s \in DOMAIN BarSeries |-> Push(m.heap[s], BarValues(b, i)[s])]
                    \o SubSeq(m.heap, Len(BarSeries) + 1, Len(m.heap))]

\* Mutant: nothing is filled in.
NoBackfill(m) == m

\* A series that the bar has not written gets Na, so that its history keeps in
\* step with the bars.
Backfill(m) ==
    IF m.bar = 0 THEN m
    ELSE FoldSet(LAMBDA x, m1 : PushTo(m1, Get(m1, x), Na), m,
                 {x \in m.names \ (m.written \cup m.inited) : IsSeries(m, x)})

\* execute_bar: the statements, and Na for what they have not written.
ExecuteBar(m, script, i) ==
    LET r == ExecBlock([m EXCEPT !.bar = i, !.written = {}, !.err = FALSE], script) IN
    IF r.m.err THEN r.m ELSE Backfill(r.m)

=============================================================================
