-------------------------------- MODULE MCPine --------------------------------
EXTENDS Pine

Close == Id("close")
One == Num("1")
Previous == Hist(Close, One)
Rising == Bin(">", Close, Previous)
Positional(es) == [i \in DOMAIN es |-> Arg("", es[i])]
Ta(f, es) == Call(Member(Id("ta"), f), Positional(es))
Strategy(f, args) == ExprStmt(Call(Member(Id("strategy"), f), args))
Let(x, e) == Assign(x, e, FALSE)
Only(c, body) == If(c, body, <<>>, <<>>)

Plain == [width |-> 4, noise |-> "none", version |-> "none", eol |-> TRUE, tail |-> FALSE]
MCLayouts ==
    [width : {1, 2}, noise : {"none", "blank", "comment", "margin"}, version : {"none"},
     eol : BOOLEAN, tail : {FALSE}]
        \cup {[Plain EXCEPT !.tail = TRUE]}
        \cup {[Plain EXCEPT !.version = v, !.noise = n] : v \in {"first", "later"}, n \in {"none", "blank"}}

Ops == {"or", "and", "<", "-", "*"}
Small == {Close, One} \cup {Bin(op, Close, One) : op \in Ops}
    \cup {Un(op, Close) : op \in {"not", "-"}}
    \cup {Ternary(Close, One, Close), Previous, Call(Id("nz"), <<Arg("", Close), Arg("x", One)>>)}
MCExpressions ==
    Small \cup {Bin(op, l, r) : op \in Ops, l, r \in Small}
    \cup {Un(op, e) : op \in {"not", "-"}, e \in Small}
    \cup {Ternary(c, Close, b) : c, b \in Small} \cup {Ternary(Close, a, One) : a \in Small}
    \cup {Hist(e, off) : e \in Small, off \in {One, Bin("-", One, One)}}

\* A name, a ternary or a call may be a series, and an assigned one is the same
\* series by another name: see MCAlias.
Stated(e) == IF e.k \in {"binary", "unary", "history"} THEN Let("x", e) ELSE ExprStmt(e)

Step == ExprStmt(One)
Around(b) ==
    {If(Rising, b, <<>>, <<>>), If(Rising, b, <<>>, <<<<Step>>>>),
     If(Rising, <<Step>>, <<[c |-> Rising, body |-> b]>>, <<b>>),
     For("i", One, Num("2"), <<>>, b), For("i", Num("2"), One, <<Un("-", One)>>, b),
     ForIn("i", Close, b), While(Num("false"), b),
     Def("f", <<Arg("a", <<>>), Arg("b", <<One>>)>>, b), Assign("x", If(Rising, b, <<>>, <<b>>), TRUE)}
OneBlock == Around(<<Step>>)
TwoBlocks == UNION {Around(<<s, Step>>) \cup Around(<<s>>) : s \in OneBlock}
Nests == {<<s>> : s \in OneBlock} \cup {<<s, Step>> : s \in OneBlock \cup TwoBlocks}

Counter == <<Assign("n", Num("0"), TRUE), Reassign("n", Bin("+", Id("n"), One)),
             Augment("n", "+=", One), Let("m", Bin("+", Id("n"), Num("0")))>>
Branches == <<Only(Rising, <<Let("x", Bin("*", Close, One))>>),
              If(Bin("<", Close, Previous), <<Let("y", Num("1"))>>,
                 <<[c |-> Bin("==", Close, Previous), body |-> <<Let("y", Num("2"))>>]>>,
                 <<<<Let("y", Num("3"))>>>>),
              Let("z", Bin("-", Hist(Id("y"), One), Num("0")))>>
Sums == <<Let("s", Num("0")), For("i", One, Num("2"), <<>>, <<Augment("s", "+=", Id("i"))>>),
          For("j", Num("2"), One, <<Un("-", One)>>, <<Augment("s", "*=", Id("j"))>>),
          Let("w", Num("0")), While(Bin("<", Id("w"), Num("2")), <<Augment("w", "+=", One)>>)>>
Endless == <<Let("s", Num("0")), While(One, <<Augment("s", "-=", One)>>)>>
Function2 == <<Def("f", <<Arg("a", <<>>), Arg("b", <<Num("2")>>)>>,
                   <<Let("t", Bin("*", Id("a"), Id("b"))), ExprStmt(Bin("%", Id("t"), Num("5")))>>),
               Let("x", Call(Id("f"), Positional(<<Close>>))),
               Let("y", Call(Id("f"), <<Arg("", Close), Arg("b", Num("3"))>>))>>
Averages == <<Let("e", Ta("ema", <<Close, Num("3")>>)), Let("h", Ta("ema", <<Id("high"), Num("3")>>)),
              Let("r", Ta("rma", <<Close, Num("2")>>)), Let("q", Ta("rsi", <<Close, Num("2")>>)),
              Let("a", Ta("sma", <<Close, Num("3")>>)), Let("p", Ta("rsi", <<Id("high"), Num("2")>>))>>
Ranges == <<Let("u", Ta("highest", <<Id("high"), Num("2")>>)), Let("l", Ta("lowest", <<Id("low"), Num("2")>>)),
            Let("c", Ta("change", <<Close, One>>)), Let("v", Ta("tr", <<>>)),
            Let("w", Ta("atr", <<Num("2")>>)), Let("x", Ta("crossover", <<Close, Id("open")>>)),
            Let("y", Ta("crossunder", <<Close, Num("5")>>)), Let("z", Call(Id("nz"), Positional(<<Id("c")>>))),
            Let("t", Call(Member(Id("math"), "sum"), Positional(<<Close, Num("2")>>)))>>
Macds == <<Let("m", Ta("macd", <<Close, Num("2"), Num("3"), Num("2")>>)),
           Let("n", Ta("macd", <<Id("high"), One, Num("3"), Num("2")>>)),
           Let("d", Ta("stdev", <<Close, Num("3")>>)), Let("f", Ta("stdev", <<Id("low"), Num("2")>>)),
           ExprStmt(Ta("macd", <<One, Num("2")>>))>>
Math(f, es) == Call(Member(Id("math"), f), Positional(es))
Input1(f, e) == Call(Member(Id("input"), f), <<Arg("defval", e)>>)
Numbers == <<Let("a", Math("abs", <<Bin("-", Previous, Close)>>)), Let("b", Math("max", <<Previous, Close>>)),
             Let("c", Math("min", <<Previous, Num("3")>>)), Let("d", Math("sign", <<Bin("-", Close, Previous)>>)),
             Let("e", Math("avg", <<Previous, Close, Num("na")>>)), Let("f", Math("sqrt", <<Close>>)),
             Let("g", Call(Id("fixnan"), Positional(<<Id("a")>>))), Let("h", Input1("int", Previous)),
             Let("i", Input1("bool", Close)), Let("j", Call(Id("input"), Positional(<<Num("2")>>))),
             Let("k", Input1("float", Num("na"))), Let("l", Input1("bool", Num("na")))>>
NoNumber == <<Let("x", Input1("int", Close))>>
Trades == <<ExprStmt(Call(Id("strategy"), <<Arg("default_qty_value", Num("2"))>>)),
            If(Rising, <<Strategy("entry", Positional(<<One, Member(Id("strategy"), "long")>>))>>, <<>>,
               <<<<Strategy("close", Positional(<<One>>))>>>>),
            Only(Bin("<", Member(Id("strategy"), "position_size"), Num("0")),
                 <<Strategy("exit", <<Arg("", One), Arg("stop", Close)>>), Strategy("close_all", <<>>)>>)>>
Fails == <<Let("x", Previous), Let("y", Hist(Id("high"), Id("x")))>>

FailsInside == <<Def("g", <<Arg("a", <<>>)>>, <<ExprStmt(Hist(Id("high"), Id("a")))>>), Let("x", Previous),
                 Let("y", Call(Id("g"), Positional(<<Id("x")>>)))>>

Scripts == {Counter, FailsInside, Branches, Sums, Endless, Function2, Averages, Ranges, Macds,
            Numbers, NoNumber, Trades, Fails}
Input(p, layout, live) == [program |-> p, layout |-> layout, live |-> live]

MCInputs ==
    {Input(<<Stated(e)>>, Plain, FALSE) : e \in MCExpressions}
    \cup {Input(p, l, FALSE) : p \in Nests, l \in MCLayouts}
    \cup {Input(p, Plain, live) : p \in Scripts, live \in BOOLEAN}

\* ta.ema and ta.macd of one series and length
MCShared == {Input(<<Let("e", Ta("ema", <<Close, Num("2")>>)),
                     Let("m", Ta("macd", <<Close, Num("2"), Num("3"), Num("2")>>))>>, Plain, FALSE)}

\* src = input.source(close)
MCAlias == {Input(<<Let("src", Call(Member(Id("input"), "source"), Positional(<<Close>>)))>>, Plain, FALSE)}

\* Multiples that averages of three and repeated halves divide.
Price(o, h, l, c) == [open |-> 96 * o, high |-> 96 * h, low |-> 96 * l, close |-> 96 * c]
MCBars == <<Price(3, 6, 2, 4), Price(4, 7, 3, 6), Price(6, 6, 1, 2), Price(2, 9, 2, 7),
            Price(7, 8, 3, 3), Price(3, 5, 3, 5)>>
=============================================================================
