------------------------------ MODULE PineLexer ------------------------------
(***************************************************************************)
(* The lexer of Pine scripts (pineforge/lexer.py).  A line of a source is  *)
(* its indentation, its tokens and whether a newline ends it; a token is a *)
(* string.  Of the lexer the layout is kept, what INDENT, DEDENT and       *)
(* NEWLINE it makes of the lines; how characters make a word is left out.  *)
(* A line that a backslash continues is one line with the words of both;   *)
(* a line of nothing but a backslash is left out.                          *)
(*                                                                         *)
(* A step of the machine is a line, as one turn of tokenize's loop that    *)
(* finds _at_line_start set and the turns that follow up to the next.      *)
(***************************************************************************)
EXTENDS Integers, FiniteSets, SequencesExt

VARIABLES source,   \* the lines of the source
          at,       \* the next of them, as the lexer's pos
          stack,    \* _indent_stack
          tokens,   \* the tokens so far
          status    \* lexing; then parsing, or lexer_error

lexVars == <<source, at, stack, tokens, status>>

Keywords == {"if", "else", "for", "to", "by", "in", "while", "var", "varip",
             "import", "export", "switch", "type"}
Comparisons == {"==", "!=", "<", ">", "<=", ">="}
Augmented == {"+=", "-=", "*=", "/=", "%="}
Operators == Comparisons \cup Augmented \cup
    {"or", "and", "not", "+", "-", "*", "/", "%", "?", ":", "(", ")", "[", "]", ",", ".",
     "=", ":=", "=>"}
Layout == {"NEWLINE", "INDENT", "DEDENT", "EOF"}
Literals == {"0", "1", "2", "3", "5", "true", "false", "na"}
Version == "//@version="   \* VERSION_DIRECTIVE, with a number after it
IsIdentifier(t) == t \notin Keywords \cup Operators \cup Layout \cup Literals \cup {Version}

Word == STRING \ Layout
SourceLine == [indent : Nat, toks : Seq(Word), eol : BOOLEAN]
Comment == <<"//">>  \* a line that is only a comment, other than a version directive

\* Only the last line may lack its newline.
IsSource(lines) == lines \in Seq(SourceLine) /\ \A i \in 1..(Len(lines) - 1) : lines[i].eol

\* A line that is only whitespace ends in a newline, or is the rest of the source.
IsBlank(line) == line.toks = <<>>

\* _emit_newline: a NEWLINE ends a statement, not a layout token.
Newline(ts) ==
    IF ts = <<>> \/ Last(ts) \in {"NEWLINE", "INDENT", "DEDENT"} THEN ts
    ELSE Append(ts, "NEWLINE")

\* _handle_indentation: the blocks on top of the stack that are deeper than the
\* line end, down to the first that is not.
StillOpen(blocks, indent) ==
    SubSeq(blocks, 1, CHOOSE n \in DOMAIN blocks :
                         blocks[n] <= indent /\ \A j \in (n + 1)..Len(blocks) : indent < blocks[j])
Dedents(n) == [i \in 1..n |-> "DEDENT"]

\* Mutant: a line closes one block at most.
IndentedOnce(blocks, ts, indent) ==
    IF indent > Last(blocks)
    THEN [ok |-> TRUE, stack |-> Append(blocks, indent), toks |-> Append(ts, "INDENT")]
    ELSE LET open == StillOpen(blocks, indent) IN
         [ok |-> Last(open) = indent, stack |-> open,
          toks |-> ts \o Dedents(IF Len(blocks) > Len(open) THEN 1 ELSE 0)]

\* [ok, stack, toks] after the indentation of a line.
Indented(blocks, ts, indent) ==
    IF indent > Last(blocks)
    THEN [ok |-> TRUE, stack |-> Append(blocks, indent), toks |-> Append(ts, "INDENT")]
    ELSE LET open == StillOpen(blocks, indent) IN
         [ok |-> Last(open) = indent, stack |-> open,
          toks |-> ts \o Dedents(Len(blocks) - Len(open))]

\* The tokens after the words of a line and its newline.  A comment is no token,
\* a version directive is one.
Read(ts, line) ==
    LET all == ts \o (IF line.toks = Comment THEN <<>> ELSE line.toks) IN
    IF line.eol THEN Newline(all) ELSE all

\* One line of the source.  A blank line leaves the blocks alone, unless it is
\* the rest of the source: then no character follows the whitespace, and the
\* lexer fails on it.  A line with a comment alone is indented like any other.
LexLine(blocks, ts, line) ==
    IF IsBlank(line)
    THEN [ok |-> line.eol \/ line.indent = 0, stack |-> blocks,
          toks |-> IF line.eol THEN Newline(ts) ELSE ts]
    ELSE LET within == Indented(blocks, ts, line.indent)
         IN [within EXCEPT !.toks = Read(@, line)]

\* The end of the source closes the blocks that are left.
LexEnd(blocks, ts) == Append(ts \o Dedents(Len(blocks) - 1), "EOF")

-----------------------------------------------------------------------------
LexInit ==
    /\ IsSource(source)
    /\ at = 1 /\ stack = <<0>> /\ tokens = <<>>
    /\ status = "lexing"

Lex ==
    /\ status = "lexing" /\ at <= Len(source)
    /\ LET r == LexLine(stack, tokens, source[at]) IN
       /\ stack' = r.stack /\ tokens' = r.toks
       /\ status' = IF r.ok THEN "lexing" ELSE "lexer_error"
    /\ at' = at + 1
    /\ UNCHANGED source

LexEnds ==
    /\ status = "lexing" /\ at > Len(source)
    /\ tokens' = LexEnd(stack, tokens)
    /\ stack' = <<0>>
    /\ status' = "parsing"
    /\ UNCHANGED <<source, at>>

LexSpec == LexInit /\ [][Lex \/ LexEnds]_lexVars

-----------------------------------------------------------------------------
(* Properties.                                                              *)

LexTypeOK ==
    /\ IsSource(source) /\ at \in 1..(Len(source) + 1)
    /\ stack \in Seq(Nat) /\ stack # <<>>
    /\ tokens \in Seq(Word \cup Layout)

\* How many of the first n tokens are t.
Count(ts, n, t) == Cardinality({i \in 1..n : ts[i] = t})

\* The blocks are open that the tokens have opened, and no DEDENT stands before
\* the INDENT that it closes.
Balanced(ts, open) ==
    /\ Count(ts, Len(ts), "INDENT") - Count(ts, Len(ts), "DEDENT") = open
    /\ \A n \in 1..Len(ts) : Count(ts, n, "DEDENT") <= Count(ts, n, "INDENT")

Nested(blocks) == blocks[1] = 0 /\ \A i \in 2..Len(blocks) : blocks[i - 1] < blocks[i]

\* Lexer._handle_indentation: the open blocks are nested, the INDENT and DEDENT
\* tokens so far open and close exactly these blocks, and none is closed before it
\* is opened: the parser, which reads a block up to its DEDENT, meets no DEDENT at
\* the top level.
LayoutBalanced ==
    /\ Nested(stack)
    /\ status # "lexer_error" => Balanced(tokens, Len(stack) - 1)

=============================================================================
