---------------------------- MODULE PineSyntax ------------------------------
(***************************************************************************)
(* The parser of Pine scripts (pineforge/parser.py).  A node of the tree   *)
(* has its kind in k, and no line numbers.                                 *)
(*                                                                         *)
(* A parsing operator takes the tokens and a position, as self.pos, and    *)
(* returns the node n and the position p after it; ParseError is p = 0.    *)
(***************************************************************************)
EXTENDS PineLexer

-----------------------------------------------------------------------------
(* The nodes.                                                               *)

Num(t) == [k |-> "literal", lit |-> t]
Id(t) == [k |-> "id", name |-> t]
Bin(op, l, r) == [k |-> "binary", op |-> op, l |-> l, r |-> r]
Un(op, e) == [k |-> "unary", op |-> op, e |-> e]
Ternary(c, a, b) == [k |-> "ternary", c |-> c, a |-> a, b |-> b]
Hist(e, off) == [k |-> "history", e |-> e, off |-> off]
Member(e, m) == [k |-> "member", e |-> e, m |-> m]
Call(callee, args) == [k |-> "call", callee |-> callee, args |-> args]
Arg(key, val) == [key |-> key, val |-> val]   \* key "" for a positional one

Assign(x, e, var) == [k |-> "assign", x |-> x, val |-> e, var |-> var]
Reassign(x, e) == [k |-> "reassign", x |-> x, val |-> e]
Augment(x, op, e) == [k |-> "augment", x |-> x, op |-> op, val |-> e]
ExprStmt(e) == [k |-> "expr", e |-> e]
If(c, body, elifs, els) == [k |-> "if", c |-> c, body |-> body, elifs |-> elifs, els |-> els]
For(x, from, to, by, body) ==
    [k |-> "for", x |-> x, from |-> from, to |-> to, by |-> by, body |-> body]
ForIn(x, it, body) == [k |-> "forin", x |-> x, it |-> it, body |-> body]
While(c, body) == [k |-> "while", c |-> c, body |-> body]
Def(f, params, body) == [k |-> "def", f |-> f, params |-> params, body |-> body]

-----------------------------------------------------------------------------
(* The rules of the grammar, one for a method of Parser.  A rule reaches    *)
(* the others, and itself, through Parse.                                   *)

RECURSIVE Parse(_, _, _, _)

\* The node so far is for the rules that go round a loop.
Rule(rule, ts, i) == Parse(rule, ts, i, <<>>)
Expression(ts, i) == Rule("expression", ts, i)
Block(ts, i) == Rule("block", ts, i)

Node(n, p) == [n |-> n, p |-> p]
Fail == Node(<<>>, 0)
Failed(r) == r.p = 0
Ate(ts, r, t) == ~Failed(r) /\ ts[r.p] = t   \* the node is followed by t

\* The node of r, as part of a larger one.
Within(r, node(_)) == IF Failed(r) THEN Fail ELSE Node(node(r.n), r.p)

\* The left-associative operators, from the weakest; not stands between and
\* and the comparisons.
BinaryOps == <<{"or"}, {"and"}, {}, Comparisons, {"+", "-"}, {"*", "/", "%"}>>
Rules == <<"or", "and", "not", "comparison", "addition", "multiplication", "unary">>
LevelOf(rule) == CHOOSE level \in DOMAIN Rules : Rules[level] = rule
NotLevel == LevelOf("not")
UnaryLevel == LevelOf("unary")

ParseTernary(ts, i) ==
    LET c == Rule("or", ts, i)
        a == Expression(ts, c.p + 1)
        b == Expression(ts, a.p + 1)
    IN IF ~Ate(ts, c, "?") THEN c
       ELSE IF ~Ate(ts, a, ":") THEN Fail
       ELSE Within(b, LAMBDA e : Ternary(c.n, a.n, e))

\* Mutant: right-associative operators.
ParseBinaryRight(ts, i, level, left) ==
    LET l == IF left = <<>> THEN Rule(Rules[level + 1], ts, i) ELSE Node(left[1], i) IN
    IF Failed(l) \/ ts[l.p] \notin BinaryOps[level] THEN l
    ELSE Within(Rule(Rules[level], ts, l.p + 1), LAMBDA r : Bin(ts[l.p], l.n, r))

\* An operand, and further ones as long as the level's operators follow.
ParseBinary(ts, i, level, left) ==
    LET l == IF left = <<>> THEN Rule(Rules[level + 1], ts, i) ELSE Node(left[1], i)
        r == Rule(Rules[level + 1], ts, l.p + 1)
    IN IF Failed(l) \/ ts[l.p] \notin BinaryOps[level] THEN l
       ELSE IF Failed(r) THEN Fail
       ELSE Parse(Rules[level], ts, r.p, <<Bin(ts[l.p], l.n, r.n)>>)

ParseNot(ts, i) ==
    IF ts[i] = "not" THEN Within(Rule("not", ts, i + 1), LAMBDA e : Un("not", e))
    ELSE Rule("comparison", ts, i)

ParseUnary(ts, i) ==
    CASE ts[i] = "-" -> Within(Rule("unary", ts, i + 1), LAMBDA e : Un("-", e))
      [] ts[i] = "+" -> Rule("unary", ts, i + 1)
      [] OTHER -> Rule("postfix", ts, i)

ParsePostfix(ts, i, sofar) ==
    LET r == IF sofar = <<>> THEN Rule("primary", ts, i) ELSE Node(sofar[1], i)
        on(n, p) == Parse("postfix", ts, p, <<n>>)
        off == Expression(ts, r.p + 1)
        args == Rule("args", ts, r.p + 1)
    IN CASE Failed(r) -> Fail
         [] Ate(ts, r, "[") -> IF Ate(ts, off, "]") THEN on(Hist(r.n, off.n), off.p + 1) ELSE Fail
         [] Ate(ts, r, ".") ->
                IF IsIdentifier(ts[r.p + 1]) THEN on(Member(r.n, ts[r.p + 1]), r.p + 2) ELSE Fail
         [] Ate(ts, r, "(") /\ r.n.k \in {"id", "member"} ->
                IF Failed(args) THEN Fail ELSE on(Call(r.n, args.n), args.p)
         [] OTHER -> r

\* The arguments after the opening parenthesis, and the closing one.
ParseArgs(ts, i, args) ==
    LET named == IsIdentifier(ts[i]) /\ ts[i + 1] = "="
        val == Expression(ts, IF named THEN i + 2 ELSE i)
        more == Append(args, Arg(IF named THEN ts[i] ELSE "", val.n))
    IN CASE ts[i] = ")" -> Node(args, i + 1)
         [] ts[i] # ")" /\ Ate(ts, val, ",") -> Parse("args", ts, val.p + 1, more)
         [] ts[i] # ")" /\ Ate(ts, val, ")") -> Node(more, val.p + 1)
         [] OTHER -> Fail

ParsePrimary(ts, i) ==
    LET e == Expression(ts, i + 1) IN
    CASE ts[i] \in Literals -> Node(Num(ts[i]), i + 1)
      [] IsIdentifier(ts[i]) -> Node(Id(ts[i]), i + 1)
      [] ts[i] = "(" -> IF Ate(ts, e, ")") THEN Node(e.n, e.p + 1) ELSE Fail
      [] ts[i] = "if" -> Rule("if", ts, i)
      [] OTHER -> Fail

-----------------------------------------------------------------------------
(* Statements.                                                              *)

\* The next token that is no NEWLINE.
SkipNewlines(ts, i) ==
    CHOOSE j \in i..Len(ts) : ts[j] # "NEWLINE" /\ \A h \in i..(j - 1) : ts[h] = "NEWLINE"

\* The expression from i on, the NEWLINE after it, which may be missing, and
\* the statement they make.
Valued(ts, i, node(_)) ==
    LET e == Expression(ts, i) IN
    IF Failed(e) THEN Fail
    ELSE Node(node(e.n), IF ts[e.p] = "NEWLINE" THEN e.p + 1 ELSE e.p)

\* The statements up to the end of the block or of the script.
ParseStatements(ts, i, stmts) ==
    LET j == SkipNewlines(ts, i)
        s == Rule("statement", ts, j)
    IN IF ts[j] \in {"DEDENT", "EOF"} THEN Node(stmts, j)
       ELSE IF Failed(s) THEN Fail ELSE Parse("statements", ts, s.p, Append(stmts, s.n))

ParseBlock(ts, i) ==
    LET j == SkipNewlines(ts, i)
        body == Rule("statements", ts, j + 1)
    IN IF ts[j] # "INDENT" \/ Failed(body) THEN Fail
       ELSE Node(body.n, IF ts[body.p] = "DEDENT" THEN body.p + 1 ELSE body.p)

\* A condition and a block.
Clause(ts, i) ==
    LET c == Expression(ts, i)
        body == Block(ts, c.p)
    IN IF Failed(c) THEN Fail ELSE Within(body, LAMBDA b : [c |-> c.n, body |-> b])

ParseIf(ts, i) ==
    LET first == Clause(ts, i + 1) IN
    IF Failed(first) THEN Fail
    ELSE Parse("clauses", ts, first.p, If(first.n.c, first.n.body, <<>>, <<>>))

\* The else clauses of an if statement.
ParseClauses(ts, i, n) ==
    LET j == SkipNewlines(ts, i)
        elif == Clause(ts, j + 2)
    IN CASE ts[j] # "else" -> Node(n, j)
         [] ts[j] = "else" /\ ts[j + 1] # "if" ->
                Within(Block(ts, j + 1), LAMBDA b : [n EXCEPT !.els = <<b>>])
         [] OTHER -> IF Failed(elif) THEN Fail
                     ELSE Parse("clauses", ts, elif.p, [n EXCEPT !.elifs = Append(@, elif.n)])

ParseFor(ts, i) ==
    LET x == ts[i + 1]
        first == Expression(ts, i + 3)
        to == Expression(ts, first.p + 1)
        by == Expression(ts, to.p + 1)
    IN CASE ~IsIdentifier(x) \/ ts[i + 2] \notin {"in", "="} \/ Failed(first) -> Fail
         [] IsIdentifier(x) /\ ts[i + 2] = "in" ->
                Within(Block(ts, first.p), LAMBDA b : ForIn(x, first.n, b))
         [] OTHER ->
                IF ~Ate(ts, first, "to") \/ Failed(to) THEN Fail
                ELSE IF ts[to.p] # "by"
                THEN Within(Block(ts, to.p), LAMBDA b : For(x, first.n, to.n, <<>>, b))
                ELSE IF Failed(by) THEN Fail
                ELSE Within(Block(ts, by.p), LAMBDA b : For(x, first.n, to.n, <<by.n>>, b))

\* _is_function_def: `(...) =>` before the end of the line.
Depth(ts, i, j) ==
    Len(SelectSeq(SubSeq(ts, i, j), LAMBDA t : t = "("))
  - Len(SelectSeq(SubSeq(ts, i, j), LAMBDA t : t = ")"))

IsFunctionDef(ts, i) ==
    \E j \in i..Len(ts) :
        /\ ts[j] = ")" /\ ts[j + 1] = "=>" /\ Depth(ts, i, j) = 0
        /\ \A h \in i..(j - 1) : Depth(ts, i, h) > 0 /\ ts[h] \notin {"NEWLINE", "EOF"}

\* The parameters after the opening parenthesis, and the closing one.
ParseParams(ts, i, params) ==
    LET default == Expression(ts, i + 2)
        has == ts[i + 1] = "="
        p == IF has THEN default.p ELSE i + 1
        more == Append(params, Arg(ts[i], IF has THEN <<default.n>> ELSE <<>>))
    IN CASE ts[i] = ")" -> Node(params, i + 1)
         [] ts[i] # ")" /\ (~IsIdentifier(ts[i]) \/ p = 0) -> Fail
         [] OTHER -> CASE ts[p] = "," -> Parse("params", ts, p + 1, more)
                       [] ts[p] = ")" -> Node(more, p + 1)
                       [] OTHER -> Fail

ParseDef(ts, i) ==
    LET params == Rule("params", ts, i + 2)
        body == IF ts[params.p + 1] = "NEWLINE" THEN Block(ts, params.p + 1)
                ELSE Valued(ts, params.p + 1, LAMBDA e : <<ExprStmt(e)>>)
    IN IF ~Ate(ts, params, "=>") THEN Fail
       ELSE Within(body, LAMBDA b : Def(ts[i], params.n, b))

ParseIdentifierStatement(ts, i) ==
    CASE ts[i + 1] = "(" /\ IsFunctionDef(ts, i + 1) -> ParseDef(ts, i)
      [] ts[i + 1] = "=" -> Valued(ts, i + 2, LAMBDA e : Assign(ts[i], e, FALSE))
      [] ts[i + 1] = ":=" -> Valued(ts, i + 2, LAMBDA e : Reassign(ts[i], e))
      [] ts[i + 1] \in Augmented -> Valued(ts, i + 2, LAMBDA e : Augment(ts[i], ts[i + 1], e))
      [] OTHER -> Valued(ts, i, ExprStmt)

ParseVarDeclaration(ts, i) ==
    IF IsIdentifier(ts[i + 1]) /\ ts[i + 2] = "="
    THEN Valued(ts, i + 3, LAMBDA e : Assign(ts[i + 1], e, TRUE)) ELSE Fail

ParseStatement(ts, i) ==
    CASE ts[i] \in {"var", "varip"} -> ParseVarDeclaration(ts, i)
      [] ts[i] = "if" -> Rule("if", ts, i)
      [] ts[i] = "for" -> ParseFor(ts, i)
      [] ts[i] = "while" -> Within(Clause(ts, i + 1), LAMBDA c : While(c.c, c.body))
      [] IsIdentifier(ts[i]) -> ParseIdentifierStatement(ts, i)
      [] OTHER -> Valued(ts, i, ExprStmt)

Parse(rule, ts, i, sofar) ==
    CASE rule = "statement" -> ParseStatement(ts, i)
      [] rule = "statements" -> ParseStatements(ts, i, sofar)
      [] rule = "block" -> ParseBlock(ts, i)
      [] rule = "if" -> ParseIf(ts, i)
      [] rule = "clauses" -> ParseClauses(ts, i, sofar)
      [] rule = "params" -> ParseParams(ts, i, sofar)
      [] rule = "expression" -> ParseTernary(ts, i)
      [] rule = "not" -> ParseNot(ts, i)
      [] rule = "unary" -> ParseUnary(ts, i)
      [] rule = "postfix" -> ParsePostfix(ts, i, sofar)
      [] rule = "args" -> ParseArgs(ts, i, sofar)
      [] rule = "primary" -> ParsePrimary(ts, i)
      [] OTHER -> ParseBinary(ts, i, LevelOf(rule), sofar)

\* parse: a version directive may stand before the first statement, and begins no
\* statement itself; a DEDENT at the top level is no statement either.
ParseScript(ts) ==
    LET head == SkipNewlines(ts, 1)
        body == Rule("statements", ts, IF ts[head] = Version THEN head + 1 ELSE head)
    IN
    IF Failed(body) \/ ts[body.p] # "EOF" THEN Fail ELSE body

=============================================================================
