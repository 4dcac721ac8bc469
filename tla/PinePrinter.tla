------------------------------ MODULE PinePrinter ------------------------------
(***************************************************************************)
(* How a program is written down: the reference the lexer and the parser   *)
(* are held against.  An expression has the parentheses it needs, a block  *)
(* is one step deeper, and a layout says how wide a step is and what       *)
(* stands between the lines:                                               *)
(*   width    columns per block                                            *)
(*   noise    before every line nothing, a blank line, a comment at the    *)
(*            line's own column, or a comment in the margin                *)
(*   version  where a version directive stands: nowhere, first, or later   *)
(*   eol      the last line ends in a newline                              *)
(*   tail     whitespace after the last newline                            *)
(***************************************************************************)
EXTENDS PineSyntax

\* An operand that binds weaker than its place asks for is parenthesised.
Level(n) ==
    CASE n.k = "ternary" -> 0
      [] n.k = "binary" -> CHOOSE i \in DOMAIN BinaryOps : n.op \in BinaryOps[i]
      [] n.k = "unary" -> IF n.op = "not" THEN NotLevel ELSE UnaryLevel
      [] OTHER -> UnaryLevel + 1

RECURSIVE Words(_, _), WordsOf(_), Lines(_, _, _), BlockLines(_, _)

Words(n, level) ==
    IF Level(n) < level THEN <<"(">> \o WordsOf(n) \o <<")">> ELSE WordsOf(n)

Listed(parts) ==
    FoldLeft(LAMBDA a, b : IF a = <<>> THEN b ELSE a \o <<",">> \o b, <<>>, parts)

WordsOf(n) ==
    CASE n.k = "literal" -> <<n.lit>>
      [] n.k = "id" -> <<n.name>>
      [] n.k = "binary" -> Words(n.l, Level(n)) \o <<n.op>> \o Words(n.r, Level(n) + 1)
      [] n.k = "unary" -> <<n.op>> \o Words(n.e, Level(n))
      [] n.k = "ternary" -> Words(n.c, 1) \o <<"?">> \o Words(n.a, 0) \o <<":">> \o Words(n.b, 0)
      [] n.k = "history" -> Words(n.e, Level(n)) \o <<"[">> \o Words(n.off, 0) \o <<"]">>
      [] n.k = "member" -> Words(n.e, Level(n)) \o <<".", n.m>>
      [] n.k = "call" ->
            WordsOf(n.callee) \o <<"(">>
         \o Listed([i \in DOMAIN n.args |->
                        (IF n.args[i].key = "" THEN <<>> ELSE <<n.args[i].key, "=">>)
                     \o Words(n.args[i].val, 0)])
         \o <<")">>

Param(p) == <<p.key>> \o (IF p.val = <<>> THEN <<>> ELSE <<"=">> \o Words(p.val[1], 0))
Line(depth, words) == [indent |-> depth, toks |-> words, eol |-> TRUE]

BlockLines(stmts, depth) ==
    IF stmts = <<>> THEN <<>>
    ELSE Lines(<<>>, Head(stmts), depth) \o BlockLines(Tail(stmts), depth)

\* A statement after the words that stand before it on its line.
Lines(before, s, depth) ==
    LET line(words) == <<Line(depth, before \o words)>>
        block(b) == BlockLines(b, depth + 1)
        valued(words, e) == IF e.k = "if" THEN Lines(words, e, depth) ELSE line(words \o Words(e, 0))
        elif(c) == <<Line(depth, <<"else", "if">> \o Words(c.c, 0))>> \o block(c.body)
    IN CASE s.k = "expr" -> line(Words(s.e, 0))
         [] s.k = "assign" -> valued((IF s.var THEN <<"var">> ELSE <<>>) \o <<s.x, "=">>, s.val)
         [] s.k = "reassign" -> valued(<<s.x, ":=">>, s.val)
         [] s.k = "augment" -> valued(<<s.x, s.op>>, s.val)
         [] s.k = "if" -> line(<<"if">> \o Words(s.c, 0)) \o block(s.body)
                       \o FoldLeft(LAMBDA a, c : a \o elif(c), <<>>, s.elifs)
                       \o (IF s.els = <<>> THEN <<>> ELSE <<Line(depth, <<"else">>)>> \o block(s.els[1]))
         [] s.k = "for" -> line(<<"for", s.x, "=">> \o Words(s.from, 0) \o <<"to">> \o Words(s.to, 0)
                                \o (IF s.by = <<>> THEN <<>> ELSE <<"by">> \o Words(s.by[1], 0)))
                        \o block(s.body)
         [] s.k = "forin" -> line(<<"for", s.x, "in">> \o Words(s.it, 0)) \o block(s.body)
         [] s.k = "while" -> line(<<"while">> \o Words(s.c, 0)) \o block(s.body)
         [] s.k = "def" -> line(<<s.f, "(">> \o Listed([i \in DOMAIN s.params |-> Param(s.params[i])])
                                \o <<")", "=>">>) \o block(s.body)

Noise(layout, line) ==
    CASE layout.noise = "none" -> <<line>>
      [] layout.noise = "blank" -> <<Line(1, <<>>), line>>
      [] layout.noise = "comment" -> <<Line(line.indent, Comment), line>>
      [] layout.noise = "margin" -> <<Line(0, Comment), line>>

\* The lines with a version directive before or after the first one.
Versioned(version, lines) ==
    CASE version = "none" -> lines
      [] version = "first" -> <<Line(0, <<Version>>)>> \o lines
      [] version = "later" -> <<Head(lines), Line(0, <<Version>>)>> \o Tail(lines)

\* The lines of a program.
Written(program, layout) ==
    LET lines == Versioned(layout.version, BlockLines(program, 0))
        wide(l) == Line(l.indent * layout.width, l.toks)
        all == FoldLeft(LAMBDA a, l : a \o Noise(layout, wide(l)), <<>>, lines)
               \o (IF layout.tail THEN <<Line(1, <<>>)>> ELSE <<>>)
    IN [all EXCEPT ![Len(all)].eol = layout.eol /\ ~layout.tail]

=============================================================================
