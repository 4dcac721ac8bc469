----------------------------- MODULE PineProofs -----------------------------
(***************************************************************************)
(* Theorems about the parts of the Pine interpreter that no recursion      *)
(* reaches: the layout of every source, and what it does not depend on;    *)
(* the history of every series; the indicators, of a window and streaming. *)
(***************************************************************************)
EXTENDS PineLexer, PineIndicators, FiniteSetTheorems, WellFoundedInduction, TLAPS

CONSTANTS
    Columns,  \* columns at which the lines of a source begin
    Column,   \* for each of them, the column of the same line in another source
    Skipped   \* a line of the source that says nothing

-----------------------------------------------------------------------------
(* Natural numbers.                                                         *)

LEMMA NatMinimum ==
    ASSUME NEW T \in SUBSET Nat, T # {}
    PROVE  \E x \in T : \A y \in T : x <= y
<1> DEFINE R == OpToRel(<, Nat)
<1>1. IsWellFoundedOn(R, Nat)
    BY NatLessThanWellFounded
<1>2. \A a, b \in Nat : <<a, b>> \in R <=> a < b
    BY DEF R, OpToRel
<1> HIDE DEF R
<1>3. PICK x \in T : \A y \in T : ~ (<<y, x>> \in R)
    BY <1>1, WFMin
<1>4. ASSUME NEW y \in T PROVE x <= y
  <2>1. x \in Nat /\ y \in Nat
    OBVIOUS
  <2>2. ~ (y < x)
    BY <1>2, <1>3, <2>1
  <2> QED
    BY <2>1, <2>2
<1> QED
    BY <1>4

LEMMA NatMaximum ==
    ASSUME NEW m \in Nat, NEW T \in SUBSET (0..m), T # {}
    PROVE  \E x \in T : \A y \in T : y <= x
<1> DEFINE U == {m - y : y \in T}
<1>1. U \in SUBSET Nat /\ U # {}
  <2>1. \A y \in T : m - y \in Nat
    OBVIOUS
  <2>2. PICK y \in T : TRUE
    OBVIOUS
  <2>3. m - y \in U
    BY <2>2
  <2> QED
    BY <2>1, <2>3
<1>2. PICK u \in U : \A w \in U : u <= w
  <2> HIDE DEF U
  <2> QED
    BY <1>1, NatMinimum
<1>3. PICK x \in T : u = m - x
    BY <1>2
<1>4. ASSUME NEW y \in T PROVE y <= x
  <2>1. m - y \in U
    OBVIOUS
  <2>2. m - x <= m - y
    BY <1>2, <1>3, <2>1
  <2> QED
    BY <2>2
<1> QED
    BY <1>4

LEMMA NatInduct ==
    ASSUME NEW T, 0 \in T, \A n \in Nat : n \in T => n + 1 \in T
    PROVE  Nat \subseteq T
<1> DEFINE U == {n \in Nat : n \notin T}
<1>1. SUFFICES U = {}
    OBVIOUS
<1>2. SUFFICES ASSUME U # {} PROVE FALSE
    OBVIOUS
<1>3. PICK x \in U : \A y \in U : x <= y
    BY <1>2, NatMinimum
<1>4. x \in Nat /\ x # 0
    BY <1>3
<1>5. x - 1 \in Nat /\ x - 1 \notin U
    BY <1>3, <1>4
<1> QED
    BY <1>3, <1>4, <1>5

-----------------------------------------------------------------------------
(* Counting tokens.                                                         *)

LEMMA CountType ==
    ASSUME NEW ts, NEW n \in Nat, NEW t
    PROVE  /\ IsFiniteSet({i \in 1..n : ts[i] = t})
           /\ Count(ts, n, t) \in Nat
<1>1. IsFiniteSet(1..n)
    BY FS_Interval
<1>2. {i \in 1..n : ts[i] = t} \in SUBSET (1..n)
    OBVIOUS
<1> QED
    BY <1>1, <1>2, FS_Subset, FS_CardinalityType DEF Count

\* A count depends on the first tokens only.
LEMMA CountSame ==
    ASSUME NEW ts, NEW us, NEW n \in Nat, NEW t, \A i \in 1..n : ts[i] = us[i]
    PROVE  Count(ts, n, t) = Count(us, n, t)
<1>1. {i \in 1..n : ts[i] = t} = {i \in 1..n : us[i] = t}
    OBVIOUS
<1> QED
    BY <1>1 DEF Count

LEMMA CountMonotonic ==
    ASSUME NEW ts, NEW m \in Nat, NEW n \in Nat, m <= n, NEW t
    PROVE  Count(ts, m, t) <= Count(ts, n, t)
<1>1. {i \in 1..m : ts[i] = t} \in SUBSET {i \in 1..n : ts[i] = t}
    OBVIOUS
<1> QED
    BY <1>1, CountType, FS_Subset DEF Count

LEMMA CountNoneAfter ==
    ASSUME NEW ts, NEW m \in Nat, NEW n \in Nat, m <= n, NEW t,
           \A i \in (m + 1)..n : ts[i] # t
    PROVE  Count(ts, n, t) = Count(ts, m, t)
<1>1. {i \in 1..n : ts[i] = t} = {i \in 1..m : ts[i] = t}
    OBVIOUS
<1> QED
    BY <1>1 DEF Count

LEMMA CountAllAfter ==
    ASSUME NEW ts, NEW m \in Nat, NEW n \in Nat, m <= n, NEW t,
           \A i \in (m + 1)..n : ts[i] = t
    PROVE  Count(ts, n, t) = Count(ts, m, t) + (n - m)
<1> DEFINE S == {i \in 1..m : ts[i] = t}
           T == (m + 1)..n
<1>1. {i \in 1..n : ts[i] = t} = S \cup T
    OBVIOUS
<1>2. S \cap T = {}
    OBVIOUS
<1>3. IsFiniteSet(S) /\ IsFiniteSet(T) /\ Cardinality(T) = n - m
  <2>1. IsFiniteSet(S)
    BY CountType
  <2>2. /\ IsFiniteSet((m + 1)..n)
        /\ Cardinality((m + 1)..n) = IF m + 1 > n THEN 0 ELSE n - (m + 1) + 1
    BY FS_Interval
  <2> QED
    BY <2>1, <2>2
<1>4. Cardinality(S) \in Nat
    BY <1>3, FS_CardinalityType
<1>5. Cardinality(S \cup T) = Cardinality(S) + Cardinality(T) - Cardinality(S \cap T)
  <2> HIDE DEF S, T
  <2> QED
    BY <1>3, FS_Union
<1>6. Cardinality(S \cap T) = 0
    BY <1>2, FS_EmptySet
<1>7. Cardinality(S \cup T) = Cardinality(S) + (n - m)
  <2> HIDE DEF S, T
  <2> QED
    BY <1>3, <1>4, <1>5, <1>6
<1>8. Count(ts, n, t) = Cardinality(S \cup T) /\ Count(ts, m, t) = Cardinality(S)
    BY <1>1 DEF Count
<1> QED
    BY <1>7, <1>8

-----------------------------------------------------------------------------
(* What is added to balanced tokens.                                        *)

\* Words and newlines open and close nothing.
LEMMA BalancedWords ==
    ASSUME NEW S, NEW ts \in Seq(S), NEW us \in Seq(S), NEW open \in Nat,
           Len(ts) <= Len(us), \A i \in 1..Len(ts) : us[i] = ts[i],
           \A i \in (Len(ts) + 1)..Len(us) : us[i] \notin {"INDENT", "DEDENT"},
           Balanced(ts, open)
    PROVE  Balanced(us, open)
<1>1. Len(ts) \in Nat /\ Len(us) \in Nat
    OBVIOUS
<1>2. ASSUME NEW n \in 1..Len(ts), NEW t PROVE Count(us, n, t) = Count(ts, n, t)
  <2>1. n \in Nat /\ \A i \in 1..n : us[i] = ts[i]
    BY <1>1
  <2> QED
    BY <2>1, CountSame
<1>3. ASSUME NEW n \in Len(ts)..Len(us), NEW t \in {"INDENT", "DEDENT"}
      PROVE  Count(us, n, t) = Count(ts, Len(ts), t)
  <2>1. n \in Nat /\ Len(ts) <= n /\ \A i \in (Len(ts) + 1)..n : us[i] # t
    BY <1>1
  <2>2. Count(us, n, t) = Count(us, Len(ts), t)
    BY <1>1, <2>1, CountNoneAfter
  <2>3. Count(us, Len(ts), t) = Count(ts, Len(ts), t)
    BY <1>1, CountSame
  <2> QED
    BY <2>2, <2>3
<1>4. /\ Count(ts, Len(ts), "INDENT") \in Nat /\ Count(ts, Len(ts), "DEDENT") \in Nat
      /\ Count(ts, Len(ts), "INDENT") - Count(ts, Len(ts), "DEDENT") = open
    BY <1>1, CountType DEF Balanced
<1>5. ASSUME NEW n \in 1..Len(us) PROVE Count(us, n, "DEDENT") <= Count(us, n, "INDENT")
  <2>1. CASE n \in 1..Len(ts)
    BY <1>2, <2>1 DEF Balanced
  <2>2. CASE n \in Len(ts)..Len(us)
    BY <1>3, <1>4, <2>2
  <2> QED
    BY <1>1, <2>1, <2>2
<1>6. Len(us) \in Len(ts)..Len(us)
    BY <1>1
<1>7. Count(us, Len(us), "INDENT") - Count(us, Len(us), "DEDENT") = open
    BY <1>3, <1>4, <1>6
<1> QED
    BY <1>5, <1>7 DEF Balanced

LEMMA BalancedIndent ==
    ASSUME NEW S, NEW ts \in Seq(S), NEW open \in Nat, Balanced(ts, open)
    PROVE  Balanced(Append(ts, "INDENT"), open + 1)
<1> DEFINE us == Append(ts, "INDENT")
           m == Len(ts)
<1>1. m \in Nat /\ Len(us) = m + 1 /\ us[m + 1] = "INDENT" /\ \A i \in 1..m : us[i] = ts[i]
    OBVIOUS
<1> HIDE DEF us, m
<1>2. ASSUME NEW n \in 1..m, NEW t PROVE Count(us, n, t) = Count(ts, n, t)
  <2>1. n \in Nat /\ \A i \in 1..n : us[i] = ts[i]
    BY <1>1
  <2> QED
    BY <2>1, CountSame
<1>3. \A t : Count(us, m, t) = Count(ts, m, t)
    BY <1>1, CountSame
<1>4. Count(us, m + 1, "INDENT") = Count(us, m, "INDENT") + 1
  <2>1. \A i \in (m + 1)..(m + 1) : us[i] = "INDENT"
    BY <1>1
  <2>2. Count(us, m + 1, "INDENT") = Count(us, m, "INDENT") + (m + 1 - m)
    BY <1>1, <2>1, CountAllAfter
  <2> QED
    BY <1>1, <2>2, CountType
<1>5. Count(us, m + 1, "DEDENT") = Count(us, m, "DEDENT")
  <2>1. \A i \in (m + 1)..(m + 1) : us[i] # "DEDENT"
    BY <1>1
  <2> QED
    BY <1>1, <2>1, CountNoneAfter
<1>6. /\ Count(ts, m, "INDENT") \in Nat /\ Count(ts, m, "DEDENT") \in Nat
      /\ Count(ts, m, "INDENT") - Count(ts, m, "DEDENT") = open
      /\ \A n \in 1..m : Count(ts, n, "DEDENT") <= Count(ts, n, "INDENT")
    BY <1>1, CountType DEF Balanced, m
<1>7. ASSUME NEW n \in 1..(m + 1) PROVE Count(us, n, "DEDENT") <= Count(us, n, "INDENT")
  <2>1. CASE n \in 1..m
    BY <1>2, <1>6, <2>1
  <2>2. CASE n = m + 1
    BY <1>3, <1>4, <1>5, <1>6, <2>2
  <2> QED
    BY <1>1, <2>1, <2>2
<1>8. Count(us, m + 1, "INDENT") - Count(us, m + 1, "DEDENT") = open + 1
    BY <1>3, <1>4, <1>5, <1>6
<1>9. Balanced(us, open + 1)
    BY <1>1, <1>7, <1>8 DEF Balanced
<1> QED
    BY <1>9 DEF us

LEMMA BalancedDedents ==
    ASSUME NEW S, NEW ts \in Seq(S), NEW open \in Nat, NEW k \in 0..open, Balanced(ts, open)
    PROVE  Balanced(ts \o Dedents(k), open - k)
<1> DEFINE us == ts \o Dedents(k)
           m == Len(ts)
<1>1. /\ m \in Nat /\ Len(us) = m + k /\ \A i \in 1..m : us[i] = ts[i]
      /\ \A i \in (m + 1)..(m + k) : us[i] = "DEDENT"
  <2>1. Dedents(k) \in Seq({"DEDENT"}) /\ Len(Dedents(k)) = k
    BY DEF Dedents
  <2>2. \A i \in 1..k : Dedents(k)[i] = "DEDENT"
    BY DEF Dedents
  <2>3. Len(us) = m + k /\ \A i \in 1..(m + k) : us[i] = IF i <= m THEN ts[i] ELSE Dedents(k)[i - m]
    BY <2>1
  <2> QED
    BY <2>2, <2>3
<1> HIDE DEF us, m
<1>2. ASSUME NEW n \in 0..m, NEW t PROVE Count(us, n, t) = Count(ts, n, t)
  <2>1. n \in Nat /\ \A i \in 1..n : us[i] = ts[i]
    BY <1>1
  <2> QED
    BY <2>1, CountSame
<1>3. ASSUME NEW n \in m..(m + k)
      PROVE  /\ Count(us, n, "INDENT") = Count(ts, m, "INDENT")
             /\ Count(us, n, "DEDENT") = Count(ts, m, "DEDENT") + (n - m)
  <2>1. /\ n \in Nat /\ m <= n
        /\ \A i \in (m + 1)..n : us[i] = "DEDENT"
        /\ \A i \in (m + 1)..n : us[i] # "INDENT"
    BY <1>1
  <2>2. Count(us, n, "INDENT") = Count(us, m, "INDENT")
    BY <1>1, <2>1, CountNoneAfter
  <2>3. Count(us, n, "DEDENT") = Count(us, m, "DEDENT") + (n - m)
    BY <1>1, <2>1, CountAllAfter
  <2> QED
    BY <1>1, <1>2, <2>2, <2>3
<1>4. /\ Count(ts, m, "INDENT") \in Nat /\ Count(ts, m, "DEDENT") \in Nat
      /\ Count(ts, m, "INDENT") - Count(ts, m, "DEDENT") = open
      /\ \A n \in 1..m : Count(ts, n, "DEDENT") <= Count(ts, n, "INDENT")
    BY <1>1, CountType DEF Balanced, m
<1>5. ASSUME NEW n \in 1..(m + k) PROVE Count(us, n, "DEDENT") <= Count(us, n, "INDENT")
  <2>1. CASE n \in 1..m
    BY <1>1, <1>2, <1>4, <2>1
  <2>2. CASE n \in m..(m + k)
    <3>1. Count(ts, m, "DEDENT") + (n - m) <= Count(ts, m, "INDENT")
      BY <1>1, <1>4, <2>2
    <3> QED
      BY <1>3, <2>2, <3>1
  <2> QED
    BY <1>1, <2>1, <2>2
<1>6. Count(us, m + k, "INDENT") - Count(us, m + k, "DEDENT") = open - k
  <2>1. m + k \in m..(m + k)
    BY <1>1
  <2> QED
    BY <1>1, <1>3, <1>4, <2>1
<1>7. Balanced(us, open - k)
    BY <1>1, <1>5, <1>6 DEF Balanced
<1> QED
    BY <1>7 DEF us

-----------------------------------------------------------------------------
(* The lines.                                                               *)

Token == Word \cup Layout

LEMMA NewlineKeeps ==
    ASSUME NEW ts \in Seq(Token), NEW open \in Nat, Balanced(ts, open)
    PROVE  Newline(ts) \in Seq(Token) /\ Balanced(Newline(ts), open)
<1> DEFINE us == Append(ts, "NEWLINE")
<1>1. us \in Seq(Token) /\ Len(us) = Len(ts) + 1 /\ us[Len(ts) + 1] = "NEWLINE"
      /\ \A i \in 1..Len(ts) : us[i] = ts[i]
    BY DEF Token, Layout
<1>2. Balanced(us, open)
  <2> HIDE DEF us
  <2>1. Len(ts) \in Nat /\ \A i \in (Len(ts) + 1)..Len(us) : us[i] \notin {"INDENT", "DEDENT"}
    BY <1>1
  <2> QED
    BY <1>1, <2>1, BalancedWords
<1> QED
    BY <1>1, <1>2 DEF Newline

LEMMA ReadKeeps ==
    ASSUME NEW ts \in Seq(Token), NEW open \in Nat, Balanced(ts, open), NEW line \in SourceLine
    PROVE  Read(ts, line) \in Seq(Token) /\ Balanced(Read(ts, line), open)
<1> DEFINE words == IF line.toks = Comment THEN <<>> ELSE line.toks
           us == ts \o words
<1>1. words \in Seq(Word)
    BY DEF SourceLine
<1> HIDE DEF words
<1>2. /\ us \in Seq(Token) /\ Len(ts) <= Len(us) /\ \A i \in 1..Len(ts) : us[i] = ts[i]
      /\ \A i \in (Len(ts) + 1)..Len(us) : us[i] \in Word
  <2>1. words \in Seq(Token)
    BY <1>1 DEF Token
  <2>2. us \in Seq(Token)
    BY <2>1
  <2>3. /\ Len(us) = Len(ts) + Len(words)
        /\ \A i \in 1..Len(us) : us[i] = IF i <= Len(ts) THEN ts[i] ELSE words[i - Len(ts)]
    BY <2>1
  <2>4. \A i \in 1..Len(words) : words[i] \in Word
    BY <1>1
  <2>5. Len(words) \in Nat /\ Len(ts) \in Nat
    BY <1>1
  <2> QED
    BY <2>2, <2>3, <2>4, <2>5
<1>3. Balanced(us, open)
  <2>1. \A w \in Word : w \notin {"INDENT", "DEDENT"}
    BY DEF Word, Layout
  <2> HIDE DEF us
  <2> QED
    BY <1>2, <2>1, BalancedWords
<1>4. Newline(us) \in Seq(Token) /\ Balanced(Newline(us), open)
    BY <1>2, <1>3, NewlineKeeps
<1> QED
    BY <1>2, <1>3, <1>4 DEF Read, words

\* The loop that pops stops: the margin is never deeper than a line.
LEMMA LastStop ==
    ASSUME NEW blocks \in Seq(Nat), blocks # <<>>, Nested(blocks), NEW indent \in Nat
    PROVE  \E n \in DOMAIN blocks :
               blocks[n] <= indent /\ \A j \in (n + 1)..Len(blocks) : indent < blocks[j]
<1> DEFINE T == {n \in DOMAIN blocks : blocks[n] <= indent}
<1>1. Len(blocks) \in Nat \ {0} /\ DOMAIN blocks = 1..Len(blocks)
    OBVIOUS
<1>2. T \in SUBSET (0..Len(blocks)) /\ 1 \in T
    BY <1>1 DEF Nested
<1>3. PICK n \in T : \A y \in T : y <= n
  <2> HIDE DEF T
  <2> QED
    BY <1>1, <1>2, NatMaximum
<1>4. \A j \in (n + 1)..Len(blocks) : indent < blocks[j]
    BY <1>1, <1>3
<1> QED
    BY <1>3, <1>4

LEMMA StillOpenPrefix ==
    ASSUME NEW blocks \in Seq(Nat), blocks # <<>>, Nested(blocks), NEW indent \in Nat
    PROVE  \E n \in 1..Len(blocks) : StillOpen(blocks, indent) = SubSeq(blocks, 1, n)
<1> DEFINE c == CHOOSE n \in DOMAIN blocks :
                    blocks[n] <= indent /\ \A j \in (n + 1)..Len(blocks) : indent < blocks[j]
<1>1. c \in 1..Len(blocks)
  <2>1. DOMAIN blocks = 1..Len(blocks)
    OBVIOUS
  <2>2. c \in DOMAIN blocks
    BY LastStop
  <2> QED
    BY <2>1, <2>2
<1>2. StillOpen(blocks, indent) = SubSeq(blocks, 1, c)
    BY DEF StillOpen
<1> QED
    BY <1>1, <1>2

LEMMA IndentedKeeps ==
    ASSUME NEW blocks \in Seq(Nat), blocks # <<>>, Nested(blocks),
           NEW ts \in Seq(Token), Balanced(ts, Len(blocks) - 1), NEW indent \in Nat,
           NEW r, r = Indented(blocks, ts, indent)
    PROVE  /\ r.stack \in Seq(Nat) /\ r.stack # <<>> /\ Nested(r.stack)
           /\ r.toks \in Seq(Token) /\ Balanced(r.toks, Len(r.stack) - 1)
           /\ r = [ok |-> r.ok, stack |-> r.stack, toks |-> r.toks]
<1>1. Len(blocks) \in Nat \ {0} /\ Len(blocks) - 1 \in Nat
    OBVIOUS
<1>2. CASE indent > Last(blocks)
  <2>1. r = [ok |-> TRUE, stack |-> Append(blocks, indent), toks |-> Append(ts, "INDENT")]
    BY <1>2 DEF Indented
  <2>2. /\ Append(blocks, indent) \in Seq(Nat) /\ Append(blocks, indent) # <<>>
        /\ Len(Append(blocks, indent)) = Len(blocks) + 1
    OBVIOUS
  <2>3. Nested(Append(blocks, indent))
    BY <1>1, <1>2 DEF Nested, Last
  <2>4. Append(ts, "INDENT") \in Seq(Token)
    BY DEF Token, Layout
  <2>5. Balanced(Append(ts, "INDENT"), Len(blocks) - 1 + 1)
    BY <1>1, BalancedIndent
  <2>6. Len(blocks) - 1 + 1 = Len(Append(blocks, indent)) - 1
    BY <1>1, <2>2
  <2> QED
    BY <2>1, <2>2, <2>3, <2>4, <2>5, <2>6
<1>3. CASE ~ (indent > Last(blocks))
  <2>1. PICK n \in 1..Len(blocks) : StillOpen(blocks, indent) = SubSeq(blocks, 1, n)
    BY StillOpenPrefix
  <2> DEFINE open == SubSeq(blocks, 1, n)
  <2>2. /\ open \in Seq(Nat) /\ open # <<>> /\ Len(open) = n
        /\ \A i \in 1..n : open[i] = blocks[i]
    <3>1. n \in Nat /\ 1 <= n /\ n <= Len(blocks)
      BY <1>1
    <3>2. open \in Seq(Nat) /\ Len(open) = n
      BY <3>1
    <3>3. \A i \in 1..n : open[i] = blocks[i]
      BY <3>1
    <3>4. open # <<>>
      <4> HIDE DEF open
      <4> QED
        BY <3>1, <3>2
    <3> QED
      BY <3>2, <3>3, <3>4
  <2>3. r = [ok |-> Last(open) = indent, stack |-> open,
             toks |-> ts \o Dedents(Len(blocks) - Len(open))]
    BY <1>3, <2>1 DEF Indented
  <2> HIDE DEF open
  <2>4. Nested(open)
    <3>1. open[1] = 0
      BY <1>1, <2>2 DEF Nested
    <3>2. ASSUME NEW i \in 2..n PROVE open[i - 1] < open[i]
      <4>1. i \in 1..n /\ i - 1 \in 1..n /\ i \in 2..Len(blocks)
        BY <1>1
      <4>2. blocks[i - 1] < blocks[i]
        BY <4>1 DEF Nested
      <4> QED
        BY <2>2, <4>1, <4>2
    <3> QED
      BY <2>2, <3>1, <3>2 DEF Nested
  <2>5. Len(blocks) - n \in 0..(Len(blocks) - 1)
    BY <1>1, <2>1
  <2>6. Dedents(Len(blocks) - n) \in Seq(Token)
    BY <2>5 DEF Dedents, Token, Layout
  <2>7. ts \o Dedents(Len(blocks) - n) \in Seq(Token)
    BY <2>6
  <2>8. Balanced(ts \o Dedents(Len(blocks) - n), Len(blocks) - 1 - (Len(blocks) - n))
    BY <1>1, <2>5, BalancedDedents
  <2>9. Len(blocks) - 1 - (Len(blocks) - n) = Len(open) - 1
    BY <1>1, <2>1, <2>2
  <2> QED
    BY <2>2, <2>3, <2>4, <2>7, <2>8, <2>9
<1> QED
    BY <1>2, <1>3

LEMMA LexLineKeeps ==
    ASSUME NEW blocks \in Seq(Nat), blocks # <<>>, Nested(blocks),
           NEW ts \in Seq(Token), Balanced(ts, Len(blocks) - 1), NEW line \in SourceLine,
           NEW r, r = LexLine(blocks, ts, line)
    PROVE  /\ r.stack \in Seq(Nat) /\ r.stack # <<>> /\ Nested(r.stack)
           /\ r.toks \in Seq(Token) /\ Balanced(r.toks, Len(r.stack) - 1)
<1>1. Len(blocks) - 1 \in Nat
    OBVIOUS
<1>2. CASE IsBlank(line)
  <2>1. r.stack = blocks /\ r.toks = IF line.eol THEN Newline(ts) ELSE ts
    BY <1>2 DEF LexLine
  <2> QED
    BY <1>1, <2>1, NewlineKeeps
<1>3. CASE ~ IsBlank(line)
  <2> DEFINE in == Indented(blocks, ts, line.indent)
  <2>1. line.indent \in Nat
    BY DEF SourceLine
  <2>2. r = [in EXCEPT !.toks = Read(@, line)]
    BY <1>3 DEF LexLine
  <2> HIDE DEF in
  <2>3. /\ in.stack \in Seq(Nat) /\ in.stack # <<>> /\ Nested(in.stack)
        /\ in.toks \in Seq(Token) /\ Balanced(in.toks, Len(in.stack) - 1)
        /\ in = [ok |-> in.ok, stack |-> in.stack, toks |-> in.toks]
    BY <2>1, IndentedKeeps DEF in
  <2>4. Len(in.stack) - 1 \in Nat
    BY <2>3
  <2>5. Read(in.toks, line) \in Seq(Token) /\ Balanced(Read(in.toks, line), Len(in.stack) - 1)
    BY <2>3, <2>4, ReadKeeps
  <2>6. r.stack = in.stack /\ r.toks = Read(in.toks, line)
    BY <2>2, <2>3
  <2> QED
    BY <2>3, <2>5, <2>6
<1> QED
    BY <1>2, <1>3

-----------------------------------------------------------------------------
(* The lexer.                                                               *)

LexInv ==
    /\ LexTypeOK
    /\ status \in {"lexing", "parsing", "lexer_error"}
    /\ Nested(stack) /\ Balanced(tokens, Len(stack) - 1)

LEMMA LexSafety == LexSpec => []LexInv
<1>1. LexInit => LexInv
  <2> SUFFICES ASSUME LexInit PROVE LexInv
    OBVIOUS
  <2>1. LexTypeOK
    BY DEF LexInit, LexTypeOK, IsSource
  <2>2. Nested(stack)
    BY DEF LexInit, Nested
  <2>3. Count(<<>>, 0, "INDENT") = 0 /\ Count(<<>>, 0, "DEDENT") = 0
    BY FS_EmptySet DEF Count
  <2>4. Balanced(tokens, Len(stack) - 1)
    BY <2>3 DEF LexInit, Balanced
  <2> QED
    BY <2>1, <2>2, <2>4 DEF LexInv, LexInit
<1>2. LexInv /\ [Lex \/ LexEnds]_lexVars => LexInv'
  <2> SUFFICES ASSUME LexInv, [Lex \/ LexEnds]_lexVars PROVE LexInv'
    OBVIOUS
  <2> USE DEF LexInv
  <2>1. CASE Lex
    <3> DEFINE r == LexLine(stack, tokens, source[at])
    <3>1. /\ source' = source /\ at' = at + 1 /\ stack' = r.stack /\ tokens' = r.toks
          /\ status' \in {"lexing", "lexer_error"} /\ at <= Len(source)
      BY <2>1 DEF Lex
    <3>2. source[at] \in SourceLine /\ at + 1 \in 1..(Len(source) + 1)
      BY <3>1 DEF LexTypeOK, IsSource
    <3> HIDE DEF r
    <3>3. /\ r.stack \in Seq(Nat) /\ r.stack # <<>> /\ Nested(r.stack)
          /\ r.toks \in Seq(Token) /\ Balanced(r.toks, Len(r.stack) - 1)
      BY <3>2, LexLineKeeps DEF r, LexTypeOK, Token
    <3>4. LexTypeOK'
      BY <3>1, <3>2, <3>3 DEF LexTypeOK, Token
    <3>5. Nested(stack)' /\ Balanced(tokens, Len(stack) - 1)'
      BY <3>1, <3>3 DEF Nested, Balanced, Count
    <3> QED
      BY <3>1, <3>4, <3>5
  <2>2. CASE LexEnds
    <3> DEFINE us == tokens \o Dedents(Len(stack) - 1)
    <3>1. /\ source' = source /\ at' = at /\ stack' = <<0>> /\ status' = "parsing"
          /\ tokens' = Append(us, "EOF")
      BY <2>2 DEF LexEnds, LexEnd
    <3>2. Len(stack) - 1 \in Nat /\ tokens \in Seq(Token)
      BY DEF LexTypeOK, Token
    <3>3. Dedents(Len(stack) - 1) \in Seq(Token)
      BY <3>2 DEF Dedents, Token, Layout
    <3>4. us \in Seq(Token)
      BY <3>2, <3>3
    <3>5. Balanced(us, 0)
      <4>1. Balanced(us, Len(stack) - 1 - (Len(stack) - 1))
        BY <3>2, BalancedDedents
      <4> QED
        BY <3>2, <4>1
    <3> DEFINE vs == Append(us, "EOF")
    <3> HIDE DEF us
    <3>6. /\ vs \in Seq(Token) /\ Len(vs) = Len(us) + 1 /\ vs[Len(us) + 1] = "EOF"
          /\ \A i \in 1..Len(us) : vs[i] = us[i]
      BY <3>4 DEF Token, Layout
    <3>7. Balanced(vs, 0)
      <4> HIDE DEF vs
      <4>1. Len(us) \in Nat /\ \A i \in (Len(us) + 1)..Len(vs) : vs[i] \notin {"INDENT", "DEDENT"}
        BY <3>4, <3>6
      <4> QED
        BY <3>4, <3>5, <3>6, <4>1, BalancedWords
    <3>8. LexTypeOK'
      BY <3>1, <3>6 DEF LexTypeOK, Token
    <3>9. Nested(stack)' /\ Balanced(tokens, Len(stack) - 1)'
      <4>1. Len(stack') - 1 = 0 /\ tokens' = vs
        BY <3>1
      <4>2. Nested(stack)'
        BY <3>1 DEF Nested
      <4> QED
        BY <3>7, <4>1, <4>2 DEF Balanced, Count
    <3> QED
      BY <3>1, <3>8, <3>9
  <2>3. CASE UNCHANGED lexVars
    BY <2>3 DEF lexVars, LexTypeOK, Nested, Balanced, Count
  <2> QED
    BY <2>1, <2>2, <2>3
<1> QED
    BY <1>1, <1>2, PTL DEF LexSpec

\* Whatever the source, the lexer keeps its blocks nested and emits an INDENT or a
\* DEDENT for each that it opens or closes, and none is closed before it is opened.
THEOREM LayoutTheorem == LexSpec => []LayoutBalanced
<1>1. LexInv => LayoutBalanced
    BY DEF LexInv, LayoutBalanced
<1> QED
    BY <1>1, LexSafety, PTL

-----------------------------------------------------------------------------
(* What the layout does not say.                                            *)

\* The open blocks, a line or a source, with every column c moved to Column[c].
Moved(blocks) == [i \in DOMAIN blocks |-> Column[blocks[i]]]
MovedLine(line) == [line EXCEPT !.indent = Column[@]]
MovedSource(lines) == [i \in DOMAIN lines |-> MovedLine(lines[i])]

\* The lexer of the source that is moved.
Wide == INSTANCE PineLexer WITH source <- MovedSource(source), stack <- Moved(stack)

\* The columns in use keep their order, and the margin stays.
Widens ==
    /\ Column \in [Nat -> Nat] /\ Columns \in SUBSET Nat /\ 0 \in Columns
    /\ Column[0] = 0 /\ \A a, b \in Columns : a < b => Column[a] < Column[b]

LEMMA WidensOrder ==
    ASSUME Widens, NEW a \in Columns, NEW b \in Columns
    PROVE  /\ Column[a] < Column[b] <=> a < b
           /\ Column[a] <= Column[b] <=> a <= b
           /\ Column[a] = Column[b] <=> a = b
<1>1. a \in Nat /\ b \in Nat /\ Column[a] \in Nat /\ Column[b] \in Nat
    BY DEF Widens
<1>2. (a < b => Column[a] < Column[b]) /\ (b < a => Column[b] < Column[a])
    BY DEF Widens
<1> QED
    BY <1>1, <1>2

LEMMA SameElements ==
    ASSUME NEW S, NEW s \in Seq(S), NEW t \in Seq(S), Len(s) = Len(t),
           \A i \in 1..Len(s) : s[i] = t[i]
    PROVE  s = t
<1>1. s = [i \in 1..Len(s) |-> s[i]] /\ t = [i \in 1..Len(t) |-> t[i]]
    OBVIOUS
<1> QED
    BY <1>1

InUse(blocks) == \A i \in 1..Len(blocks) : blocks[i] \in Columns

\* Moving the blocks keeps how many there are.
LEMMA MovedBlocks ==
    ASSUME Widens, NEW blocks \in Seq(Nat), InUse(blocks)
    PROVE  /\ Moved(blocks) \in Seq(Nat) /\ Len(Moved(blocks)) = Len(blocks)
           /\ \A i \in 1..Len(blocks) : Moved(blocks)[i] = Column[blocks[i]]
<1>1. Len(blocks) \in Nat /\ DOMAIN blocks = 1..Len(blocks) /\ Column \in [Nat -> Nat]
    BY DEF Widens
<1>2. \A i \in 1..Len(blocks) : blocks[i] \in Nat
    OBVIOUS
<1>3. Moved(blocks) = [i \in 1..Len(blocks) |-> Column[blocks[i]]]
    BY <1>1 DEF Moved
<1>4. \A i \in 1..Len(blocks) : Column[blocks[i]] \in Nat
    BY <1>1, <1>2
<1> QED
    BY <1>1, <1>3, <1>4

LEMMA MovedPrefix ==
    ASSUME Widens, NEW blocks \in Seq(Nat), InUse(blocks), NEW n \in 1..Len(blocks)
    PROVE  /\ Moved(SubSeq(blocks, 1, n)) = SubSeq(Moved(blocks), 1, n)
           /\ SubSeq(blocks, 1, n) \in Seq(Nat) /\ Len(SubSeq(blocks, 1, n)) = n
           /\ SubSeq(blocks, 1, n)[n] = blocks[n] /\ InUse(SubSeq(blocks, 1, n))
<1> DEFINE open == SubSeq(blocks, 1, n)
           movedOpen == SubSeq(Moved(blocks), 1, n)
<1>1. Len(blocks) \in Nat /\ n \in Nat /\ 1 <= n /\ n <= Len(blocks)
    OBVIOUS
<1>2. open \in Seq(Nat) /\ Len(open) = n /\ \A i \in 1..n : open[i] = blocks[i]
    BY <1>1
<1>3. movedOpen \in Seq(Nat) /\ Len(movedOpen) = n /\ \A i \in 1..n : movedOpen[i] = Moved(blocks)[i]
    BY <1>1, MovedBlocks
<1> HIDE DEF open, movedOpen
<1>4. InUse(open) /\ open[n] = blocks[n]
    BY <1>1, <1>2 DEF InUse
<1>5. Moved(open) \in Seq(Nat) /\ Len(Moved(open)) = n /\ \A i \in 1..n : Moved(open)[i] = Column[open[i]]
    BY <1>2, <1>4, MovedBlocks
<1>6. ASSUME NEW i \in 1..n PROVE Moved(open)[i] = movedOpen[i]
  <2>1. Moved(blocks)[i] = Column[blocks[i]]
    BY <1>1, MovedBlocks
  <2> QED
    BY <1>2, <1>3, <1>5, <2>1
<1>7. Moved(open) = movedOpen
    BY <1>3, <1>5, <1>6, SameElements
<1> QED
    BY <1>2, <1>4, <1>7 DEF open, movedOpen

LEMMA MovedAppend ==
    ASSUME Widens, NEW blocks \in Seq(Nat), InUse(blocks), NEW indent \in Columns
    PROVE  /\ Moved(Append(blocks, indent)) = Append(Moved(blocks), Column[indent])
           /\ InUse(Append(blocks, indent))
<1> DEFINE more == Append(blocks, indent)
           moved == Append(Moved(blocks), Column[indent])
<1>1. Len(blocks) \in Nat /\ indent \in Nat /\ Column[indent] \in Nat
    BY DEF Widens
<1>2. /\ more \in Seq(Nat) /\ Len(more) = Len(blocks) + 1
      /\ \A i \in 1..Len(more) : more[i] = IF i <= Len(blocks) THEN blocks[i] ELSE indent
    BY <1>1
<1>3. /\ moved \in Seq(Nat) /\ Len(moved) = Len(blocks) + 1
      /\ \A i \in 1..Len(moved) : moved[i] = IF i <= Len(blocks) THEN Moved(blocks)[i] ELSE Column[indent]
    BY <1>1, MovedBlocks
<1> HIDE DEF more, moved
<1>4. InUse(more)
    BY <1>1, <1>2 DEF InUse
<1>5. /\ Moved(more) \in Seq(Nat) /\ Len(Moved(more)) = Len(more)
      /\ \A i \in 1..Len(more) : Moved(more)[i] = Column[more[i]]
    BY <1>2, <1>4, MovedBlocks
<1>6. ASSUME NEW i \in 1..Len(more) PROVE Moved(more)[i] = moved[i]
  <2>1. i <= Len(blocks) => Moved(blocks)[i] = Column[blocks[i]]
    BY <1>1, <1>2, MovedBlocks
  <2> QED
    BY <1>2, <1>3, <1>5, <2>1
<1>7. Moved(more) = moved
    BY <1>2, <1>3, <1>5, <1>6, SameElements
<1> QED
    BY <1>4, <1>7 DEF more, moved

LEMMA StillOpenMoved ==
    ASSUME Widens, NEW blocks \in Seq(Nat), blocks # <<>>, Nested(blocks), InUse(blocks),
           NEW indent \in Columns
    PROVE  \E n \in 1..Len(blocks) :
               /\ StillOpen(blocks, indent) = SubSeq(blocks, 1, n)
               /\ StillOpen(Moved(blocks), Column[indent]) = SubSeq(Moved(blocks), 1, n)
<1> DEFINE moved == Moved(blocks)
           Stops(n) == blocks[n] <= indent /\ \A j \in (n + 1)..Len(blocks) : indent < blocks[j]
           StopsMoved(n) == /\ moved[n] <= Column[indent]
                            /\ \A j \in (n + 1)..Len(moved) : Column[indent] < moved[j]
<1>1. Len(blocks) \in Nat /\ DOMAIN blocks = 1..Len(blocks) /\ indent \in Nat
    BY DEF Widens
<1>2. /\ DOMAIN moved = DOMAIN blocks /\ Len(moved) = Len(blocks)
      /\ \A n \in 1..Len(blocks) : moved[n] = Column[blocks[n]] /\ blocks[n] \in Columns
    BY <1>1, MovedBlocks DEF InUse
<1> HIDE DEF moved
<1>3. \A n \in DOMAIN blocks : StopsMoved(n) <=> Stops(n)
  <2> TAKE n \in DOMAIN blocks
  <2>1. moved[n] <= Column[indent] <=> blocks[n] <= indent
    BY <1>1, <1>2, WidensOrder
  <2>2. ASSUME NEW j \in (n + 1)..Len(blocks) PROVE Column[indent] < moved[j] <=> indent < blocks[j]
    <3>1. j \in 1..Len(blocks)
      BY <1>1
    <3> QED
      BY <1>2, <3>1, WidensOrder
  <2> QED
    BY <1>2, <2>1, <2>2
<1>4. \E n \in DOMAIN blocks : Stops(n)
    BY <1>1, LastStop
<1> DEFINE c == CHOOSE n \in DOMAIN blocks : Stops(n)
<1>5. c \in 1..Len(blocks)
    BY <1>1, <1>4
<1>6. c = CHOOSE n \in DOMAIN moved : StopsMoved(n)
  <2>1. \A n : (n \in DOMAIN blocks /\ Stops(n)) <=> (n \in DOMAIN moved /\ StopsMoved(n))
    BY <1>2, <1>3
  <2> HIDE DEF Stops, StopsMoved
  <2> QED
    BY <2>1, Zenon
<1>7. StillOpen(blocks, indent) = SubSeq(blocks, 1, c)
    BY DEF StillOpen
<1>8. StillOpen(moved, Column[indent]) = SubSeq(moved, 1, c)
    BY <1>6 DEF StillOpen
<1> QED
    BY <1>5, <1>7, <1>8 DEF moved

LEMMA IndentedMoved ==
    ASSUME Widens, NEW blocks \in Seq(Nat), blocks # <<>>, Nested(blocks), InUse(blocks),
           NEW ts, NEW indent \in Columns, NEW r, r = Indented(blocks, ts, indent)
    PROVE  /\ r = [ok |-> r.ok, stack |-> r.stack, toks |-> r.toks]
           /\ Indented(Moved(blocks), ts, Column[indent])
                  = [ok |-> r.ok, stack |-> Moved(r.stack), toks |-> r.toks]
           /\ InUse(r.stack)
<1> DEFINE moved == Moved(blocks)
<1>1. Len(blocks) \in Nat \ {0}
    OBVIOUS
<1>2. Len(moved) = Len(blocks) /\ \A i \in 1..Len(blocks) : moved[i] = Column[blocks[i]]
    BY MovedBlocks
<1>3. Last(blocks) \in Columns /\ Last(moved) = Column[Last(blocks)]
    BY <1>1, <1>2 DEF Last, InUse
<1>4. Column[indent] > Last(moved) <=> indent > Last(blocks)
    BY <1>3, WidensOrder
<1>5. CASE indent > Last(blocks)
  <2>1. r =
            [ok |-> TRUE, stack |-> Append(blocks, indent), toks |-> Append(ts, "INDENT")]
    BY <1>5 DEF Indented
  <2>2. Indented(moved, ts, Column[indent]) =
            [ok |-> TRUE, stack |-> Append(moved, Column[indent]), toks |-> Append(ts, "INDENT")]
    BY <1>4, <1>5 DEF Indented
  <2>3. Append(moved, Column[indent]) = Moved(Append(blocks, indent)) /\ InUse(Append(blocks, indent))
    BY MovedAppend
  <2> QED
    BY <2>1, <2>2, <2>3
<1>6. CASE ~ (indent > Last(blocks))
  <2>1. PICK n \in 1..Len(blocks) : /\ StillOpen(blocks, indent) = SubSeq(blocks, 1, n)
                                    /\ StillOpen(moved, Column[indent]) = SubSeq(moved, 1, n)
    BY StillOpenMoved
  <2> DEFINE open == SubSeq(blocks, 1, n)
  <2>2. /\ SubSeq(moved, 1, n) = Moved(open) /\ InUse(open) /\ open \in Seq(Nat)
        /\ Len(open) = n /\ open[n] = blocks[n]
    BY MovedPrefix
  <2>3. /\ r =
               [ok |-> Last(open) = indent, stack |-> open,
                toks |-> ts \o Dedents(Len(blocks) - Len(open))]
        /\ Indented(moved, ts, Column[indent]) =
               [ok |-> Last(Moved(open)) = Column[indent], stack |-> Moved(open),
                toks |-> ts \o Dedents(Len(moved) - Len(Moved(open)))]
    BY <1>4, <1>6, <2>1, <2>2 DEF Indented
  <2> HIDE DEF open, moved
  <2>4. Len(Moved(open)) = Len(open) /\ Moved(open)[n] = Column[open[n]]
    <3>1. n \in 1..Len(open)
      BY <1>1, <2>2
    <3> QED
      BY <2>2, <3>1, MovedBlocks
  <2>5. Last(open) = blocks[n] /\ Last(Moved(open)) = Column[blocks[n]]
    BY <2>2, <2>4 DEF Last
  <2>6. (Last(Moved(open)) = Column[indent]) = (Last(open) = indent)
    BY <2>5, WidensOrder DEF InUse
  <2> DEFINE ok == Last(open) = indent
             us == ts \o Dedents(Len(blocks) - Len(open))
  <2>7. r = [ok |-> ok, stack |-> open, toks |-> us]
    BY <2>3
  <2>8. Indented(moved, ts, Column[indent]) = [ok |-> ok, stack |-> Moved(open), toks |-> us]
    BY <1>2, <2>3, <2>4, <2>6
  <2> HIDE DEF ok, us
  <2> QED
    BY <2>2, <2>7, <2>8 DEF moved
<1> QED
    BY <1>5, <1>6

\* One line that is moved makes the same tokens.
LEMMA LineMoved ==
    ASSUME Widens, NEW blocks \in Seq(Nat), blocks # <<>>, Nested(blocks), InUse(blocks),
           NEW ts, NEW line \in SourceLine, line.indent \in Columns,
           NEW r, r = LexLine(blocks, ts, line),
           NEW q, q = LexLine(Moved(blocks), ts, MovedLine(line))
    PROVE  /\ q.ok = r.ok /\ q.toks = r.toks /\ q.stack = Moved(r.stack)
           /\ InUse(r.stack)
<1> DEFINE indent == line.indent
           there == MovedLine(line)
<1>1. /\ there.indent = Column[indent] /\ there.toks = line.toks /\ there.eol = line.eol
      /\ indent \in Columns /\ 0 \in Columns /\ Column[0] = 0
    BY DEF MovedLine, SourceLine, Widens
<1> HIDE DEF there
<1>2. IsBlank(there) <=> IsBlank(line)
    BY <1>1 DEF IsBlank
<1>3. CASE IsBlank(line)
  <2>1. there.indent = 0 <=> line.indent = 0
    BY <1>1, WidensOrder
  <2>2. r.stack = blocks /\ q.stack = Moved(blocks)
    BY <1>2, <1>3 DEF LexLine, there
  <2>3. q.toks = r.toks
    BY <1>1, <1>2, <1>3 DEF LexLine, there
  <2>4. q.ok = r.ok
    BY <1>1, <1>2, <1>3, <2>1 DEF LexLine, there
  <2> QED
    BY <2>2, <2>3, <2>4
<1>4. CASE ~ IsBlank(line)
  <2> DEFINE in == Indented(blocks, ts, indent)
             inMoved == Indented(Moved(blocks), ts, Column[indent])
  <2>1. /\ r = [in EXCEPT !.toks = Read(@, line)]
        /\ q = [inMoved EXCEPT !.toks = Read(@, there)]
    BY <1>1, <1>2, <1>4 DEF LexLine, there
  <2>2. \A us : Read(us, there) = Read(us, line)
    BY <1>1 DEF Read
  <2>3. /\ in = [ok |-> in.ok, stack |-> in.stack, toks |-> in.toks]
        /\ inMoved = [ok |-> in.ok, stack |-> Moved(in.stack), toks |-> in.toks]
        /\ InUse(in.stack)
    BY <1>1, IndentedMoved
  <2> HIDE DEF in, inMoved
  <2> QED
    BY <2>1, <2>2, <2>3
<1> QED
    BY <1>3, <1>4

SourceInUse == \A i \in 1..Len(source) : source[i].indent \in Columns

LEMMA WideOperators ==
    /\ \A blocks, ts, line : Wide!LexLine(blocks, ts, line) = LexLine(blocks, ts, line)
    /\ \A blocks, ts : Wide!LexEnd(blocks, ts) = LexEnd(blocks, ts)
    /\ \A lines : Wide!IsSource(lines) <=> IsSource(lines)
<1>0. \A ts : Wide!Last(ts) = Last(ts)
    BY DEF Wide!Last, Last
<1>1. \A ts : Wide!Newline(ts) = Newline(ts)
    BY <1>0 DEF Wide!Newline, Newline
<1>2. Wide!Comment = Comment /\ Wide!SourceLine = SourceLine
    BY DEF Wide!Comment, Comment, Wide!SourceLine, SourceLine, Wide!Word, Word, Wide!Layout, Layout
<1>3. \A line : Wide!IsBlank(line) <=> IsBlank(line)
    BY DEF Wide!IsBlank, IsBlank
<1>4. \A n : Wide!Dedents(n) = Dedents(n)
    BY DEF Wide!Dedents, Dedents
<1>5. \A blocks, indent : Wide!StillOpen(blocks, indent) = StillOpen(blocks, indent)
    BY DEF Wide!StillOpen, StillOpen
<1>6. \A blocks, ts, indent : Wide!Indented(blocks, ts, indent) = Indented(blocks, ts, indent)
    BY <1>0, <1>4, <1>5 DEF Wide!Indented, Indented
<1>7. \A ts, line : Wide!Read(ts, line) = Read(ts, line)
    BY <1>1, <1>2 DEF Wide!Read, Read
<1>8. \A blocks, ts, line : Wide!LexLine(blocks, ts, line) = LexLine(blocks, ts, line)
    BY <1>1, <1>3, <1>6, <1>7 DEF Wide!LexLine, LexLine
<1>9. \A blocks, ts : Wide!LexEnd(blocks, ts) = LexEnd(blocks, ts)
    BY <1>4 DEF Wide!LexEnd, LexEnd
<1>10. \A lines : Wide!IsSource(lines) <=> IsSource(lines)
    BY <1>2 DEF Wide!IsSource, IsSource
<1> QED
    BY <1>8, <1>9, <1>10

LEMMA MovedIsSource ==
    ASSUME Widens, NEW lines, IsSource(lines)
    PROVE  IsSource(MovedSource(lines))
<1>1. lines \in Seq(SourceLine) /\ \A i \in 1..(Len(lines) - 1) : lines[i].eol
    BY DEF IsSource
<1>2. \A line \in SourceLine : MovedLine(line) \in SourceLine /\ MovedLine(line).eol = line.eol
    BY DEF MovedLine, SourceLine, Widens
<1>3. MovedSource(lines) = [i \in 1..Len(lines) |-> MovedLine(lines[i])]
    BY <1>1 DEF MovedSource
<1>4. MovedSource(lines) \in Seq(SourceLine) /\ Len(MovedSource(lines)) = Len(lines)
    BY <1>1, <1>2, <1>3
<1>5. \A i \in 1..(Len(lines) - 1) : MovedSource(lines)[i].eol
    BY <1>1, <1>2, <1>3
<1> QED
    BY <1>4, <1>5 DEF IsSource

\* Lexer.tokenize: the columns of the lines say nothing but their order.  The lexer of a
\* source whose lines are moved to other columns in the same order does what the lexer of
\* the source does, with the same tokens, or the same error, after every line: a program
\* may be indented by any width, also by one that differs from block to block.
THEOREM WidthTheorem ==
    ASSUME Widens
    PROVE  LexSpec /\ SourceInUse => Wide!LexSpec
<1> DEFINE Inv == LexInv /\ SourceInUse /\ InUse(stack)
<1>1. LexInit /\ SourceInUse => Wide!LexInit /\ InUse(stack)
  <2> SUFFICES ASSUME LexInit, SourceInUse PROVE Wide!LexInit /\ InUse(stack)
    OBVIOUS
  <2>1. IsSource(source) /\ at = 1 /\ stack = <<0>> /\ tokens = <<>> /\ status = "lexing"
    BY DEF LexInit
  <2>2. IsSource(MovedSource(source))
    BY <2>1, MovedIsSource
  <2>3. Moved(stack) = <<0>> /\ InUse(stack)
    BY <2>1 DEF Moved, InUse, Widens
  <2> QED
    BY <2>1, <2>2, <2>3, WideOperators DEF Wide!LexInit
<1>2. Inv /\ LexInv' /\ [Lex \/ LexEnds]_lexVars
          => InUse(stack)' /\ SourceInUse' /\ [Wide!Lex \/ Wide!LexEnds]_(Wide!lexVars)
  <2> SUFFICES ASSUME Inv, LexInv', [Lex \/ LexEnds]_lexVars
               PROVE  InUse(stack)' /\ SourceInUse' /\ [Wide!Lex \/ Wide!LexEnds]_(Wide!lexVars)
    OBVIOUS
  <2>0. source \in Seq(SourceLine) /\ Len(MovedSource(source)) = Len(source)
        /\ \A i \in 1..Len(source) : MovedSource(source)[i] = MovedLine(source[i])
    <3>1. source \in Seq(SourceLine)
      BY DEF LexInv, LexTypeOK, IsSource
    <3> QED
      BY <3>1 DEF MovedSource
  <2>1. CASE Lex
    <3> DEFINE r == LexLine(stack, tokens, source[at])
               q == LexLine(Moved(stack), tokens, MovedLine(source[at]))
    <3>1. /\ source' = source /\ at' = at + 1 /\ stack' = r.stack /\ tokens' = r.toks
          /\ status = "lexing" /\ status' = (IF r.ok THEN "lexing" ELSE "lexer_error")
          /\ at <= Len(source)
      BY <2>1 DEF Lex
    <3>2. at \in 1..Len(source) /\ source[at] \in SourceLine /\ source[at].indent \in Columns
      BY <3>1, <2>0 DEF LexInv, LexTypeOK, SourceInUse
    <3>3. stack \in Seq(Nat) /\ stack # <<>> /\ Nested(stack)
      BY DEF LexInv, LexTypeOK
    <3>4. q.ok = r.ok /\ q.toks = r.toks /\ q.stack = Moved(r.stack) /\ InUse(r.stack)
      BY <3>2, <3>3, LineMoved
    <3>5. /\ MovedSource(source)[at] = MovedLine(source[at])
          /\ Wide!LexLine(Moved(stack), tokens, MovedLine(source[at])) = q
      BY <2>0, <3>2, WideOperators
    <3> HIDE DEF r, q
    <3>6. Wide!Lex
      BY <2>0, <3>1, <3>2, <3>4, <3>5 DEF Wide!Lex
    <3> QED
      BY <3>1, <3>4, <3>6 DEF InUse, SourceInUse
  <2>2. CASE LexEnds
    <3>1. /\ status = "lexing" /\ at > Len(source) /\ tokens' = LexEnd(stack, tokens)
          /\ stack' = <<0>> /\ status' = "parsing" /\ source' = source /\ at' = at
      BY <2>2 DEF LexEnds
    <3>2. Len(Moved(stack)) = Len(stack)
      <4>1. stack \in Seq(Nat)
        BY DEF LexInv, LexTypeOK
      <4> QED
        BY <4>1, MovedBlocks
    <3>3. Wide!LexEnd(Moved(stack), tokens) = LexEnd(stack, tokens)
      BY <3>2, WideOperators DEF LexEnd
    <3>4. Moved(<<0>>) = <<0>> /\ InUse(<<0>>)
      BY DEF Moved, InUse, Widens
    <3>5. Wide!LexEnds
      BY <2>0, <3>1, <3>3, <3>4 DEF Wide!LexEnds
    <3> QED
      BY <3>1, <3>4, <3>5 DEF InUse, SourceInUse
  <2>3. CASE UNCHANGED lexVars
    BY <2>3 DEF lexVars, InUse, SourceInUse, Wide!lexVars
  <2> QED
    BY <2>1, <2>2, <2>3
<1> QED
    BY <1>1, <1>2, LexSafety, PTL DEF LexSpec, Wide!LexSpec

\* The source without one of its lines, and the lexer of it.
Without(lines) == [i \in 1..(Len(lines) - 1) |-> IF i < Skipped THEN lines[i] ELSE lines[i + 1]]
Shorter == INSTANCE PineLexer WITH
    source <- Without(source),
    at     <- IF at <= Skipped THEN at ELSE at - 1

\* A line that says nothing: whitespace and a newline, or a comment at the column of
\* the line before.
SaysNothing ==
    /\ Skipped \in 1..Len(source) /\ source[Skipped].eol
    /\ \/ IsBlank(source[Skipped])
       \/ /\ Skipped > 1 /\ ~IsBlank(source[Skipped - 1])
          /\ source[Skipped].toks = Comment
          /\ source[Skipped].indent = source[Skipped - 1].indent

\* After a line the tokens end where a NEWLINE adds nothing, and the last block is the
\* line's own.
Settles(ts) == Newline(ts) = ts
LineRead ==
    status = "lexing" =>
        /\ at = 1 => tokens = <<>>
        /\ at > 1 /\ source[at - 1].eol => Settles(tokens)
        /\ at > 1 /\ ~IsBlank(source[at - 1]) => Last(stack) = source[at - 1].indent

LEMMA NewlineSettles ==
    ASSUME NEW ts \in Seq(Token)
    PROVE  Settles(Newline(ts)) /\ Newline(ts) \in Seq(Token)
<1>1. CASE Newline(ts) = ts
    BY <1>1 DEF Settles
<1>2. CASE Newline(ts) # ts
  <2> DEFINE us == Append(ts, "NEWLINE")
  <2>1. Newline(ts) = us
    BY <1>2 DEF Newline
  <2>2. us \in Seq(Token) /\ Len(us) = Len(ts) + 1 /\ us[Len(us)] = "NEWLINE"
    BY DEF Token, Layout
  <2>3. Last(us) = "NEWLINE"
    BY <2>2 DEF Last
  <2> QED
    BY <2>1, <2>2, <2>3 DEF Settles, Newline
<1> QED
    BY <1>1, <1>2

LEMMA IndentedLast ==
    ASSUME NEW blocks \in Seq(Nat), blocks # <<>>, Nested(blocks),
           NEW ts, NEW indent \in Nat, NEW r, r = Indented(blocks, ts, indent), r.ok
    PROVE  Last(r.stack) = indent
<1>1. CASE indent > Last(blocks)
  <2>1. r.stack = Append(blocks, indent)
    BY <1>1 DEF Indented
  <2>2. Append(blocks, indent) \in Seq(Nat) /\ Len(Append(blocks, indent)) = Len(blocks) + 1
        /\ Append(blocks, indent)[Len(blocks) + 1] = indent
    OBVIOUS
  <2> QED
    BY <2>1, <2>2 DEF Last
<1>2. CASE ~ (indent > Last(blocks))
    BY <1>2 DEF Indented
<1> QED
    BY <1>1, <1>2

\* A line at the column of the last block neither opens nor closes one.
LEMMA IndentedSame ==
    ASSUME NEW blocks \in Seq(Nat), blocks # <<>>, Nested(blocks), NEW ts \in Seq(Token),
           NEW indent \in Nat, indent = Last(blocks)
    PROVE  Indented(blocks, ts, indent) = [ok |-> TRUE, stack |-> blocks, toks |-> ts]
<1> DEFINE Stops(n) == blocks[n] <= indent /\ \A j \in (n + 1)..Len(blocks) : indent < blocks[j]
<1>1. /\ Len(blocks) \in Nat \ {0} /\ DOMAIN blocks = 1..Len(blocks)
      /\ blocks[Len(blocks)] = indent
    BY DEF Last
<1>2. Stops(Len(blocks))
    BY <1>1
<1>3. \A n \in DOMAIN blocks : Stops(n) => n = Len(blocks)
    BY <1>1
<1> DEFINE c == CHOOSE n \in DOMAIN blocks : Stops(n)
<1>4. c = Len(blocks)
  <2>1. Len(blocks) \in DOMAIN blocks
    BY <1>1
  <2> HIDE DEF Stops
  <2>2. c \in DOMAIN blocks /\ Stops(c)
    BY <1>2, <2>1
  <2> QED
    BY <1>3, <2>2
<1>5. StillOpen(blocks, indent) = SubSeq(blocks, 1, Len(blocks))
    BY <1>4 DEF StillOpen
<1>6. SubSeq(blocks, 1, Len(blocks)) = blocks
    BY <1>1
<1>7. Dedents(0) = <<>> /\ ts \o <<>> = ts
    BY DEF Dedents
<1>8. Len(blocks) - Len(blocks) = 0
    BY <1>1
<1>9. ~ (indent > Last(blocks)) /\ Last(blocks) = indent
    BY <1>1 DEF Last
<1> QED
    BY <1>5, <1>6, <1>7, <1>8, <1>9 DEF Indented

LEMMA LexLineSettles ==
    ASSUME NEW blocks \in Seq(Nat), blocks # <<>>, Nested(blocks),
           NEW ts \in Seq(Token), Balanced(ts, Len(blocks) - 1), NEW line \in SourceLine,
           NEW r, r = LexLine(blocks, ts, line), r.ok
    PROVE  /\ line.eol => Settles(r.toks)
           /\ ~IsBlank(line) => Last(r.stack) = line.indent
<1>1. CASE IsBlank(line)
  <2>1. line.eol => r.toks = Newline(ts)
    BY <1>1 DEF LexLine
  <2> QED
    BY <1>1, <2>1, NewlineSettles
<1>2. CASE ~IsBlank(line)
  <2> DEFINE in == Indented(blocks, ts, line.indent)
  <2>1. r = [in EXCEPT !.toks = Read(@, line)] /\ line.indent \in Nat
    BY <1>2 DEF LexLine, SourceLine
  <2>2. in.toks \in Seq(Token) /\ in = [ok |-> in.ok, stack |-> in.stack, toks |-> in.toks]
    BY <2>1, IndentedKeeps
  <2>3. in.ok => Last(in.stack) = line.indent
    BY <2>1, IndentedLast
  <2> HIDE DEF in
  <2>4. r.ok = in.ok /\ r.stack = in.stack /\ r.toks = Read(in.toks, line)
    BY <2>1, <2>2
  <2> DEFINE all == in.toks \o (IF line.toks = Comment THEN <<>> ELSE line.toks)
  <2>5. all \in Seq(Token)
    <3>1. line.toks \in Seq(Word) /\ Word \subseteq Token
      BY DEF SourceLine, Token
    <3>2. line.toks \in Seq(Token)
      BY <3>1
    <3> QED
      BY <2>2, <3>2
  <2>6. line.eol => r.toks = Newline(all)
    BY <2>4 DEF Read
  <2> HIDE DEF all
  <2> QED
    BY <1>2, <2>3, <2>4, <2>5, <2>6, NewlineSettles
<1> QED
    BY <1>1, <1>2

LEMMA ShorterOperators ==
    /\ \A blocks, ts, line : Shorter!LexLine(blocks, ts, line) = LexLine(blocks, ts, line)
    /\ \A blocks, ts : Shorter!LexEnd(blocks, ts) = LexEnd(blocks, ts)
    /\ \A lines : Shorter!IsSource(lines) <=> IsSource(lines)
<1>0. \A ts : Shorter!Last(ts) = Last(ts)
    BY DEF Shorter!Last, Last
<1>1. \A ts : Shorter!Newline(ts) = Newline(ts)
    BY <1>0 DEF Shorter!Newline, Newline
<1>2. Shorter!Comment = Comment /\ Shorter!SourceLine = SourceLine
    BY DEF Shorter!Comment, Comment, Shorter!SourceLine, SourceLine, Shorter!Word, Word, Shorter!Layout, Layout
<1>3. \A line : Shorter!IsBlank(line) <=> IsBlank(line)
    BY DEF Shorter!IsBlank, IsBlank
<1>4. \A n : Shorter!Dedents(n) = Dedents(n)
    BY DEF Shorter!Dedents, Dedents
<1>5. \A blocks, indent : Shorter!StillOpen(blocks, indent) = StillOpen(blocks, indent)
    BY DEF Shorter!StillOpen, StillOpen
<1>6. \A blocks, ts, indent : Shorter!Indented(blocks, ts, indent) = Indented(blocks, ts, indent)
    BY <1>0, <1>4, <1>5 DEF Shorter!Indented, Indented
<1>7. \A ts, line : Shorter!Read(ts, line) = Read(ts, line)
    BY <1>1, <1>2 DEF Shorter!Read, Read
<1>8. \A blocks, ts, line : Shorter!LexLine(blocks, ts, line) = LexLine(blocks, ts, line)
    BY <1>1, <1>3, <1>6, <1>7 DEF Shorter!LexLine, LexLine
<1>9. \A blocks, ts : Shorter!LexEnd(blocks, ts) = LexEnd(blocks, ts)
    BY <1>4 DEF Shorter!LexEnd, LexEnd
<1>10. \A lines : Shorter!IsSource(lines) <=> IsSource(lines)
    BY <1>2 DEF Shorter!IsSource, IsSource
<1> QED
    BY <1>8, <1>9, <1>10

LEMMA WithoutIsSource ==
    ASSUME NEW lines, IsSource(lines), Skipped \in 1..Len(lines), lines[Skipped].eol
    PROVE  IsSource(Without(lines)) /\ Len(Without(lines)) = Len(lines) - 1
<1>1. /\ lines \in Seq(SourceLine) /\ Len(lines) \in Nat /\ Skipped \in Nat
      /\ \A i \in 1..(Len(lines) - 1) : lines[i].eol
    BY DEF IsSource
<1> DEFINE rest == Without(lines)
<1>2. \A i \in 1..(Len(lines) - 1) : lines[i] \in SourceLine /\ lines[i + 1] \in SourceLine
    BY <1>1
<1>3. Len(lines) - 1 \in Nat
    BY <1>1
<1>4. rest \in Seq(SourceLine) /\ Len(rest) = Len(lines) - 1
    BY <1>2, <1>3 DEF Without
<1>5. ASSUME NEW i \in 1..(Len(rest) - 1) PROVE rest[i].eol
  <2>1. /\ i \in 1..(Len(lines) - 1) /\ i + 1 \in 1..(Len(lines) - 1)
    BY <1>1, <1>4
  <2>2. rest[i] = IF i < Skipped THEN lines[i] ELSE lines[i + 1]
    BY <2>1 DEF Without
  <2> QED
    BY <1>1, <2>1, <2>2
<1> QED
    BY <1>4, <1>5 DEF IsSource

\* A step of the lexer over the line that says nothing.
LEMMA SkippedLine ==
    ASSUME LexInv, LineRead, SaysNothing, status = "lexing", at = Skipped
    PROVE  LexLine(stack, tokens, source[at]) = [ok |-> TRUE, stack |-> stack, toks |-> tokens]
<1> DEFINE line == source[at]
<1>1. /\ source \in Seq(SourceLine) /\ Len(source) \in Nat /\ at \in 1..Len(source) /\ at \in Nat
      /\ line \in SourceLine /\ line.eol /\ line.indent \in Nat
  <2>1. source \in Seq(SourceLine) /\ Skipped \in 1..Len(source) /\ source[Skipped].eol
    BY DEF SaysNothing, LexInv, LexTypeOK, IsSource
  <2>2. line \in SourceLine
    BY <2>1
  <2>3. line.indent \in Nat
    BY <2>2 DEF SourceLine
  <2> QED
    BY <2>1, <2>2, <2>3
<1>2. stack \in Seq(Nat) /\ stack # <<>> /\ Nested(stack) /\ tokens \in Seq(Token)
    BY DEF LexInv, LexTypeOK, Token
<1>3. Newline(tokens) = tokens
  <2>1. CASE at = 1
    BY <2>1 DEF LineRead, Newline
  <2>2. CASE at # 1
    <3>1. at > 1 /\ at - 1 \in 1..(Len(source) - 1)
      BY <1>1, <2>2
    <3>2. source[at - 1].eol
      BY <3>1 DEF LexInv, LexTypeOK, IsSource
    <3> QED
      BY <3>1, <3>2 DEF LineRead, Settles
  <2> QED
    BY <2>1, <2>2
<1> HIDE DEF line
<1>4. CASE IsBlank(line)
    BY <1>1, <1>3, <1>4 DEF LexLine, line
<1>5. CASE ~IsBlank(line)
  <2>1. at > 1 /\ line.toks = Comment /\ line.indent = Last(stack)
    BY <1>5 DEF SaysNothing, LineRead, line
  <2>2. Indented(stack, tokens, line.indent) = [ok |-> TRUE, stack |-> stack, toks |-> tokens]
    BY <1>1, <1>2, <2>1, IndentedSame
  <2>3. Read(tokens, line) = tokens
    <3>1. tokens \o <<>> = tokens
      BY <1>2
    <3> QED
      BY <1>1, <1>3, <2>1, <3>1 DEF Read
  <2> DEFINE in == Indented(stack, tokens, line.indent)
  <2>4. LexLine(stack, tokens, line) = [in EXCEPT !.toks = Read(@, line)]
    BY <1>5 DEF LexLine
  <2> HIDE DEF in
  <2>5. in = [ok |-> TRUE, stack |-> stack, toks |-> tokens]
    BY <2>2 DEF in
  <2> QED
    BY <2>3, <2>4, <2>5 DEF line
<1> QED
    BY <1>4, <1>5

LEMMA LineReadKept ==
    ASSUME LexInv, LineRead, [Lex \/ LexEnds]_lexVars
    PROVE  LineRead'
<1>1. CASE Lex
  <2> DEFINE r == LexLine(stack, tokens, source[at])
  <2>1. /\ source' = source /\ at' = at + 1 /\ stack' = r.stack /\ tokens' = r.toks
        /\ status' = (IF r.ok THEN "lexing" ELSE "lexer_error") /\ at <= Len(source)
    BY <1>1 DEF Lex
  <2>2. /\ source[at] \in SourceLine /\ at \in Nat /\ at + 1 > 1 /\ at + 1 # 1 /\ at + 1 - 1 = at
    BY <2>1 DEF LexInv, LexTypeOK, IsSource
  <2>3. /\ stack \in Seq(Nat) /\ stack # <<>> /\ Nested(stack) /\ tokens \in Seq(Token)
        /\ Balanced(tokens, Len(stack) - 1)
    BY DEF LexInv, LexTypeOK, Token
  <2>4. r.ok => /\ source[at].eol => Settles(r.toks)
                /\ ~IsBlank(source[at]) => Last(r.stack) = source[at].indent
    BY <2>2, <2>3, LexLineSettles
  <2> HIDE DEF r
  <2>5. status' = "lexing" => r.ok
    BY <2>1
  <2> QED
    BY <2>1, <2>2, <2>4, <2>5 DEF LineRead, Settles, IsBlank, Newline, Last
<1>2. CASE LexEnds
    BY <1>2 DEF LexEnds, LineRead
<1>3. CASE UNCHANGED lexVars
    BY <1>3 DEF lexVars, LineRead, Settles, IsBlank, Newline, Last
<1> QED
    BY <1>1, <1>2, <1>3

\* Lexer.tokenize: a line of whitespace, wherever it is and however wide, and a comment
\* at the column of the line before say nothing.  The lexer of the source without the line
\* does what the lexer of the source does, with the same tokens, but for the step over
\* that line, which changes nothing.
THEOREM SilentLineTheorem == LexSpec /\ SaysNothing => Shorter!LexSpec
<1> DEFINE Inv == LexInv /\ LineRead /\ SaysNothing
<1>1. LexInit /\ SaysNothing => Shorter!LexInit /\ LineRead
  <2> SUFFICES ASSUME LexInit, SaysNothing PROVE Shorter!LexInit /\ LineRead
    OBVIOUS
  <2>1. IsSource(source) /\ at = 1 /\ stack = <<0>> /\ tokens = <<>> /\ status = "lexing"
    BY DEF LexInit
  <2>2. IsSource(Without(source)) /\ 1 <= Skipped
    BY <2>1, WithoutIsSource DEF SaysNothing
  <2>3. Shorter!LexInit
    BY <2>1, <2>2, ShorterOperators DEF Shorter!LexInit
  <2> QED
    BY <2>1, <2>3 DEF LineRead
<1>2. Inv /\ [Lex \/ LexEnds]_lexVars
          => LineRead' /\ SaysNothing' /\ [Shorter!Lex \/ Shorter!LexEnds]_(Shorter!lexVars)
  <2> SUFFICES ASSUME Inv, [Lex \/ LexEnds]_lexVars
               PROVE  LineRead' /\ SaysNothing'
                      /\ [Shorter!Lex \/ Shorter!LexEnds]_(Shorter!lexVars)
    OBVIOUS
  <2>0. LineRead'
    BY LineReadKept
  <2>1. /\ Len(Without(source)) = Len(source) - 1 /\ Len(source) \in Nat /\ Skipped \in 1..Len(source)
        /\ at \in Nat
        /\ \A i \in 1..(Len(source) - 1) :
               Without(source)[i] = IF i < Skipped THEN source[i] ELSE source[i + 1]
    <3>1. IsSource(source) /\ source \in Seq(SourceLine) /\ at \in 1..(Len(source) + 1)
      BY DEF LexInv, LexTypeOK, IsSource
    <3> QED
      BY <3>1, WithoutIsSource DEF SaysNothing, Without
  <2>2. CASE Lex
    <3> DEFINE r == LexLine(stack, tokens, source[at])
    <3>1. /\ source' = source /\ at' = at + 1 /\ stack' = r.stack /\ tokens' = r.toks
          /\ status = "lexing" /\ status' = (IF r.ok THEN "lexing" ELSE "lexer_error")
          /\ at <= Len(source) /\ 1 <= at
      BY <2>2 DEF Lex, LexInv, LexTypeOK
    <3>2. CASE at = Skipped
      <4>1. r = [ok |-> TRUE, stack |-> stack, toks |-> tokens]
        BY <3>1, <3>2, SkippedLine
      <4> HIDE DEF r
      <4>2. stack' = stack /\ tokens' = tokens /\ status' = status
        BY <3>1, <4>1
      <4>3. (IF at' <= Skipped THEN at' ELSE at' - 1) = IF at <= Skipped THEN at ELSE at - 1
        BY <2>1, <3>1, <3>2
      <4> QED
        BY <2>0, <3>1, <4>2, <4>3 DEF Shorter!lexVars, SaysNothing
    <3>3. CASE at # Skipped
      <4> DEFINE there == IF at <= Skipped THEN at ELSE at - 1
                 next == IF at' <= Skipped THEN at' ELSE at' - 1
      <4>1. /\ there \in 1..(Len(source) - 1) /\ next = there + 1
            /\ Without(source)[there] = source[at]
        <5>1. CASE at < Skipped
          BY <2>1, <3>1, <5>1
        <5>2. CASE Skipped < at
          BY <2>1, <3>1, <5>2
        <5> QED
          BY <2>1, <3>3, <5>1, <5>2
      <4>2. Shorter!LexLine(stack, tokens, Without(source)[there]) = r
        BY <4>1, ShorterOperators
      <4> HIDE DEF there, next, r
      <4>3. there <= Len(Without(source))
        BY <2>1, <4>1
      <4>4. Shorter!Lex
        BY <3>1, <4>1, <4>2, <4>3 DEF Shorter!Lex, there, next
      <4> QED
        BY <2>0, <3>1, <4>4 DEF SaysNothing
    <3> QED
      BY <3>2, <3>3
  <2>3. CASE LexEnds
    <3>1. /\ status = "lexing" /\ at > Len(source) /\ tokens' = LexEnd(stack, tokens)
          /\ stack' = <<0>> /\ status' = "parsing" /\ source' = source /\ at' = at
      BY <2>3 DEF LexEnds
    <3>2. ~ (at <= Skipped) /\ at - 1 > Len(Without(source))
      BY <2>1, <3>1
    <3>3. Shorter!LexEnds
      BY <3>1, <3>2, ShorterOperators DEF Shorter!LexEnds
    <3> QED
      BY <2>0, <3>1, <3>3 DEF SaysNothing
  <2>4. CASE UNCHANGED lexVars
    BY <2>0, <2>4 DEF lexVars, SaysNothing, Shorter!lexVars
  <2> QED
    BY <2>2, <2>3, <2>4
<1> QED
    BY <1>1, <1>2, LexSafety, PTL DEF LexSpec, Shorter!LexSpec

-----------------------------------------------------------------------------
(* Series.  A series d stands for the history v of the first n bars: what it  *)
(* keeps are the last values, and how many depends on the trims.              *)

Keeps(d, v, n) ==
    /\ d \in Seq(Int) /\ Len(d) <= n /\ Len(d) <= MaxSeries
    /\ Len(d) = n \/ MaxSeries - Trim < Len(d)
    /\ \A k \in 0..(Len(d) - 1) : Back(d, k) = v[n - k]

\* A bar pushes a value, which later assignments of the bar may replace.
BarOn(d, x) == {Push(d, x)} \cup {SetCurrent(Push(d, y), x) : y \in Int}

LEMMA PushShifts ==
    ASSUME NEW d \in Seq(Int), Len(d) <= MaxSeries, NEW x \in Int
    PROVE  /\ Push(d, x) \in Seq(Int) /\ Push(d, x) # <<>>
           /\ Len(Push(d, x)) = IF Len(d) < MaxSeries THEN Len(d) + 1 ELSE Len(d) + 1 - Trim
           /\ Back(Push(d, x), 0) = x
           /\ \A k \in 1..(Len(Push(d, x)) - 1) : Back(Push(d, x), k) = Back(d, k - 1)
<1> DEFINE all == Append(d, x)
           p == Push(d, x)
<1>1. /\ all \in Seq(Int) /\ Len(all) = Len(d) + 1 /\ all[Len(d) + 1] = x
      /\ \A i \in 1..Len(d) : all[i] = d[i]
    OBVIOUS
<1>2. Len(d) \in Nat /\ MaxSeries \in Nat /\ Trim \in Nat /\ 1 <= Trim /\ Trim <= MaxSeries
    BY SeriesAssumption
<1>3. CASE Len(d) < MaxSeries
  <2>1. p = all
    BY <1>1, <1>2, <1>3 DEF Push
  <2> HIDE DEF p, all
  <2>2. Len(p) = Len(d) + 1 /\ p \in Seq(Int) /\ p # <<>>
    BY <1>1, <1>2, <2>1
  <2>3. Back(p, 0) = x
    BY <1>1, <1>2, <2>1, <2>2 DEF Back
  <2>4. ASSUME NEW k \in 1..(Len(p) - 1) PROVE Back(p, k) = Back(d, k - 1)
    <3>1. k \in 0..(Len(p) - 1) /\ k - 1 \in 0..(Len(d) - 1) /\ Len(p) - k \in 1..Len(d)
      BY <1>2, <2>2
    <3>2. Back(p, k) = p[Len(p) - k] /\ Back(d, k - 1) = d[Len(d) - (k - 1)]
      BY <3>1 DEF Back
    <3>3. Len(p) - k = Len(d) - (k - 1)
      BY <1>2, <2>2
    <3> QED
      BY <1>1, <2>1, <3>1, <3>2, <3>3
  <2>5. Len(p) = IF Len(d) < MaxSeries THEN Len(d) + 1 ELSE Len(d) + 1 - Trim
    BY <1>3, <2>2
  <2> QED
    BY <2>2, <2>3, <2>4, <2>5 DEF p
<1>4. CASE ~ (Len(d) < MaxSeries)
  <2>1. p = SubSeq(all, Trim + 1, Len(all)) /\ Len(d) = MaxSeries
    BY <1>1, <1>2, <1>4 DEF Push
  <2> HIDE DEF p, all
  <2>2. /\ p \in Seq(Int) /\ Len(p) = Len(d) + 1 - Trim
        /\ \A i \in 1..Len(p) : p[i] = all[i + Trim]
    <3>1. Trim + 1 \in 1..Len(all) /\ Len(all) \in 1..Len(all)
      BY <1>1, <1>2, <2>1
    <3>2. SubSeq(all, Trim + 1, Len(all)) \in Seq(Int)
      BY <1>1, <3>1
    <3>3. Len(SubSeq(all, Trim + 1, Len(all))) = Len(all) - Trim
      BY <1>1, <1>2, <3>1
    <3>4. \A i \in 1..(Len(all) - Trim) : SubSeq(all, Trim + 1, Len(all))[i] = all[i + Trim]
      BY <1>1, <1>2, <3>1
    <3> QED
      BY <1>1, <1>2, <2>1, <3>2, <3>3, <3>4
  <2>3. Len(d) = MaxSeries /\ Len(p) = Len(d) + 1 - Trim
    BY <2>1, <2>2
  <2>4. Len(p) \in Nat /\ 1 <= Len(p) /\ Len(p) + Trim = Len(d) + 1
    BY <1>2, <2>3
  <2>5. p # <<>>
    BY <2>4
  <2>6. Back(p, 0) = x
    <3>1. 0 \in 0..(Len(p) - 1) /\ Len(p) \in 1..Len(p)
      BY <2>4
    <3>2. Back(p, 0) = p[Len(p)]
      BY <3>1 DEF Back
    <3> QED
      BY <1>1, <2>2, <2>4, <3>1, <3>2
  <2>7. ASSUME NEW k \in 1..(Len(p) - 1) PROVE Back(p, k) = Back(d, k - 1)
    <3>1. /\ k \in 0..(Len(p) - 1) /\ k - 1 \in 0..(Len(d) - 1)
          /\ Len(p) - k \in 1..Len(p) /\ Len(p) - k + Trim \in 1..Len(d)
      BY <1>2, <2>4
    <3>2. Back(p, k) = p[Len(p) - k] /\ Back(d, k - 1) = d[Len(d) - (k - 1)]
      BY <3>1 DEF Back
    <3>3. p[Len(p) - k] = all[Len(p) - k + Trim] /\ Len(p) - k + Trim = Len(d) - (k - 1)
      BY <1>2, <2>2, <2>4, <3>1
    <3> QED
      BY <1>1, <3>1, <3>2, <3>3
  <2>8. Len(p) = IF Len(d) < MaxSeries THEN Len(d) + 1 ELSE Len(d) + 1 - Trim
    BY <1>4, <2>2
  <2> QED
    BY <2>2, <2>5, <2>6, <2>7, <2>8 DEF p
<1> QED
    BY <1>3, <1>4

LEMMA SetCurrentKeeps ==
    ASSUME NEW d \in Seq(Int), d # <<>>, NEW x \in Int
    PROVE  /\ SetCurrent(d, x) \in Seq(Int) /\ Len(SetCurrent(d, x)) = Len(d)
           /\ Back(SetCurrent(d, x), 0) = x
           /\ \A k \in 1..(Len(d) - 1) : Back(SetCurrent(d, x), k) = Back(d, k)
<1> DEFINE e == SetCurrent(d, x)
<1>1. Len(d) \in Nat \ {0}
    OBVIOUS
<1>2. e \in Seq(Int) /\ Len(e) = Len(d) /\ e[Len(d)] = x
      /\ \A i \in 1..(Len(d) - 1) : e[i] = d[i]
    BY <1>1 DEF SetCurrent
<1> HIDE DEF e
<1>3. Back(e, 0) = x
  <2>1. 0 \in 0..(Len(e) - 1) /\ Len(e) - 0 = Len(d)
    BY <1>1, <1>2
  <2> QED
    BY <1>2, <2>1 DEF Back
<1>4. ASSUME NEW k \in 1..(Len(d) - 1) PROVE Back(e, k) = Back(d, k)
  <2>1. k \in 0..(Len(d) - 1) /\ Len(d) - k \in 1..(Len(d) - 1)
    BY <1>1
  <2> QED
    BY <1>2, <2>1 DEF Back
<1> QED
    BY <1>2, <1>3, <1>4 DEF e

\* One bar of a series.
LEMMA BarKeeps ==
    ASSUME NEW n \in Nat, NEW v, NEW d, Keeps(d, v, n), v[n + 1] \in Int,
           NEW e \in BarOn(d, v[n + 1])
    PROVE  Keeps(e, v, n + 1)
<1> DEFINE x == v[n + 1]
<1>1. PICK y \in Int : (e = Push(d, x) /\ y = x) \/ e = SetCurrent(Push(d, y), x)
    BY DEF BarOn
<1> DEFINE p == Push(d, y)
<1>2. /\ p \in Seq(Int) /\ p # <<>>
      /\ Len(p) = IF Len(d) < MaxSeries THEN Len(d) + 1 ELSE Len(d) + 1 - Trim
      /\ Back(p, 0) = y
      /\ \A k \in 1..(Len(p) - 1) : Back(p, k) = Back(d, k - 1)
    BY PushShifts DEF Keeps
<1>3. /\ e \in Seq(Int) /\ Len(e) = Len(p) /\ Back(e, 0) = x
      /\ \A k \in 1..(Len(p) - 1) : Back(e, k) = Back(p, k)
  <2>1. CASE e = Push(d, x) /\ y = x
    BY <1>2, <2>1
  <2>2. CASE e = SetCurrent(Push(d, y), x)
    <3> HIDE DEF p
    <3>1. e = SetCurrent(p, x)
      BY <2>2 DEF p
    <3> QED
      BY <1>2, <3>1, SetCurrentKeeps
  <2> QED
    BY <1>1, <2>1, <2>2
<1> HIDE DEF p, x
<1>4. /\ Len(d) \in Nat /\ Len(d) <= n /\ Len(d) <= MaxSeries /\ Len(p) \in Nat
      /\ Len(d) = n \/ MaxSeries - Trim < Len(d)
      /\ MaxSeries \in Nat /\ Trim \in Nat /\ 1 <= Trim /\ Trim <= MaxSeries
    BY <1>2, SeriesAssumption DEF Keeps
<1>5. /\ Len(e) <= n + 1 /\ Len(e) <= MaxSeries
      /\ Len(e) = n + 1 \/ MaxSeries - Trim < Len(e)
  <2>1. Len(e) = IF Len(d) < MaxSeries THEN Len(d) + 1 ELSE Len(d) + 1 - Trim
    BY <1>2, <1>3
  <2>2. CASE Len(d) < MaxSeries
    <3>1. Len(e) = Len(d) + 1
      BY <2>1, <2>2
    <3> QED
      BY <3>1, <1>4, <2>2
  <2>3. CASE ~ (Len(d) < MaxSeries)
    <3>1. Len(d) = MaxSeries /\ Len(e) = MaxSeries + 1 - Trim
      BY <2>1, <2>3, <1>4
    <3> QED
      BY <3>1, <1>4
  <2> QED
    BY <2>2, <2>3
<1>6. ASSUME NEW k \in 0..(Len(e) - 1) PROVE Back(e, k) = v[n + 1 - k]
  <2>1. CASE k = 0
    <3>1. n + 1 - k = n + 1
      BY <2>1
    <3> QED
      BY <1>3, <2>1, <3>1 DEF x
  <2>2. CASE k # 0
    <3>1. k \in 1..(Len(p) - 1) /\ k - 1 \in 0..(Len(d) - 1)
      BY <1>2, <1>3, <1>4, <2>2
    <3>2. Back(e, k) = Back(d, k - 1)
      BY <1>2, <1>3, <3>1
    <3>3. Back(d, k - 1) = v[n - (k - 1)]
      BY <3>1 DEF Keeps
    <3>4. n - (k - 1) = n + 1 - k
      BY <3>1
    <3> QED
      BY <3>2, <3>3, <3>4
  <2> QED
    BY <2>1, <2>2
<1> QED
    BY <1>3, <1>5, <1>6 DEF Keeps

\* Series.__getitem__: of a series that gets a value on every bar, x[k] is the value
\* of k bars ago after any number of bars, for as many bars back as it keeps; it
\* keeps all of them or more than are left by a trim, and never more than
\* MAX_SERIES_DATA.
THEOREM SeriesTheorem ==
    ASSUME NEW v \in [Nat \ {0} -> Int], NEW d \in [Nat -> Seq(Int)], d[0] = <<>>,
           \A n \in Nat : d[n + 1] \in BarOn(d[n], v[n + 1])
    PROVE  \A n \in Nat : Keeps(d[n], v, n)
<1> DEFINE T == {n \in Nat : Keeps(d[n], v, n)}
<1>1. 0 \in T
  <2>1. Len(<<>>) = 0 /\ <<>> \in Seq(Int) /\ 0 <= MaxSeries
    BY SeriesAssumption
  <2>2. Keeps(<<>>, v, 0)
    BY <2>1 DEF Keeps
  <2> QED
    BY <2>2
<1>2. ASSUME NEW n \in Nat, n \in T PROVE n + 1 \in T
  <2>1. v[n + 1] \in Int
    OBVIOUS
  <2>2. Keeps(d[n + 1], v, n + 1)
    BY <1>2, <2>1, BarKeeps
  <2> QED
    BY <2>2
<1>3. Nat \subseteq T
  <2> HIDE DEF T
  <2> QED
    BY <1>1, <1>2, NatInduct
<1> QED
    BY <1>3

-----------------------------------------------------------------------------
(* Indicators.                                                              *)

\* 10007 shares no factor with 31, 37 or 41: the identity in w shows it.
LEMMA Coprime ==
    ASSUME NEW a \in Int, NEW b \in Int, -10007 < b, b < 10007,
           10007 * a = 31 * b \/ 10007 * a = 37 * b \/ 10007 * a = 41 * b
    PROVE  a = 0 /\ b = 0
<1>1. ASSUME NEW w \in Int, b = 10007 * w PROVE b = 0
    BY <1>1
<1>2. CASE 10007 * a = 31 * b
  <2>1. b = 10007 * (5 * b + (-1614) * a)
    BY <1>2
  <2> QED
    BY <1>1, <1>2, <2>1
<1>3. CASE 10007 * a = 37 * b
  <2>1. b = 10007 * ((-13) * b + 3516 * a)
    BY <1>3
  <2> QED
    BY <1>1, <1>3, <2>1
<1>4. CASE 10007 * a = 41 * b
  <2>1. b = 10007 * (14 * b + (-3417) * a)
    BY <1>4
  <2> QED
    BY <1>1, <1>4, <2>1
<1> QED
    BY <1>2, <1>3, <1>4

\* _series_key: the states of the indicators of one kind are apart for all series
\* and for all lengths below 10007, the states of the macd lines for fast lengths
\* up to 98 and slow ones up to 1008.  ta.ema and ta.rma keep theirs together: they
\* are apart for lengths up to 270 but on one series with 31 * n = 37 * k, as for
\* ta.ema(x, 37) and ta.rma(x, 31), which share one state.
THEOREM KeyTheorem ==
    ASSUME NEW s \in Nat, NEW t \in Nat
    PROVE  /\ \A n, k \in Nat : n < 10007 /\ k < 10007 =>
                  /\ EmaKey(s, n) = EmaKey(t, k) => s = t /\ n = k
                  /\ RmaKey(s, n) = RmaKey(t, k) => s = t /\ n = k
                  /\ RsiKey(s, n) = RsiKey(t, k) => s = t /\ n = k
           /\ \A n, k \in Nat : n <= 270 /\ k <= 270 =>
                  (EmaKey(s, n) = RmaKey(t, k) <=> s = t /\ 31 * n = 37 * k)
           /\ \A f, g, n, k \in Nat : f <= 98 /\ g <= 98 /\ n <= 1008 /\ k <= 1008 =>
                  (MacdKey(s, f, n) = MacdKey(t, g, k) => s = t /\ f = g /\ n = k)
<1>1. ASSUME NEW n \in Nat, NEW k \in Nat, n < 10007, k < 10007
      PROVE  /\ EmaKey(s, n) = EmaKey(t, k) => s = t /\ n = k
             /\ RmaKey(s, n) = RmaKey(t, k) => s = t /\ n = k
             /\ RsiKey(s, n) = RsiKey(t, k) => s = t /\ n = k
  <2> DEFINE a == s - t
             b == k - n
  <2>1. a \in Int /\ b \in Int /\ -10007 < b /\ b < 10007
    BY <1>1
  <2>2. /\ EmaKey(s, n) = EmaKey(t, k) => 10007 * a = 31 * b
        /\ RmaKey(s, n) = RmaKey(t, k) => 10007 * a = 37 * b
        /\ RsiKey(s, n) = RsiKey(t, k) => 10007 * a = 41 * b
    BY DEF EmaKey, RmaKey, RsiKey, SeriesKey
  <2>3. a = 0 /\ b = 0 => s = t /\ n = k
    OBVIOUS
  <2> HIDE DEF a, b
  <2> QED
    BY <2>1, <2>2, <2>3, Coprime
<1>2. ASSUME NEW n \in Nat, NEW k \in Nat, n <= 270, k <= 270
      PROVE  EmaKey(s, n) = RmaKey(t, k) <=> s = t /\ 31 * n = 37 * k
  <2>1. /\ EmaKey(s, n) = RmaKey(t, k) <=> 10007 * (s - t) = 37 * k - 31 * n
        /\ -10007 < 37 * k - 31 * n /\ 37 * k - 31 * n < 10007
    BY <1>2 DEF EmaKey, RmaKey, SeriesKey
  <2>2. s - t \in Int /\ \A a \in Int : -10007 < 10007 * a /\ 10007 * a < 10007 => a = 0
    OBVIOUS
  <2>3. 10007 * (s - t) = 37 * k - 31 * n => s = t
    BY <2>1, <2>2
  <2>4. 10007 * (s - t) = 37 * k - 31 * n <=> s = t /\ 31 * n = 37 * k
    BY <2>3
  <2> QED
    BY <2>1, <2>4
<1>3. ASSUME NEW f \in Nat, NEW g \in Nat, NEW n \in Nat, NEW k \in Nat,
             f <= 98, g <= 98, n <= 1008, k <= 1008, MacdKey(s, f, n) = MacdKey(t, g, k)
      PROVE  s = t /\ f = g /\ n = k
  <2>1. 100003 * (s - t) + 1009 * (f - g) = k - n
    BY <1>3 DEF MacdKey
  <2>2. -1009 < k - n /\ k - n < 1009 /\ -99 < f - g /\ f - g < 99
    BY <1>3
  <2>3. s - t = 0
    <3>1. -100003 < 100003 * (s - t) /\ 100003 * (s - t) < 100003
      BY <2>1, <2>2
    <3> QED
      BY <3>1
  <2>4. f - g = 0
    <3>1. -1009 < 1009 * (f - g) /\ 1009 * (f - g) < 1009
      BY <2>1, <2>2, <2>3
    <3> QED
      BY <3>1
  <2> QED
    BY <2>1, <2>3, <2>4
<1> QED
    BY <1>1, <1>2, <1>3

\* The last n values of the first b, latest first.
Lately(v, b, n) == [i \in 1..n |-> v[b - (i - 1)]]

LEMMA RecentIsLately ==
    ASSUME NEW v, NEW d, NEW b \in Nat, NEW n \in Nat, n <= MaxSeries - Trim, Keeps(d, v, b)
    PROVE  /\ Len(d) < n <=> b < n
           /\ n <= b => Recent(d, n) = Lately(v, b, n)
           /\ Len(d) <= n <=> b <= n
           /\ n < b => Back(d, n) = v[b - n]
<1>1. /\ Len(d) \in Nat /\ Len(d) <= b /\ (Len(d) = b \/ MaxSeries - Trim < Len(d))
      /\ MaxSeries - Trim \in Int
    BY SeriesAssumption DEF Keeps
<1>2. (Len(d) < n <=> b < n) /\ (Len(d) <= n <=> b <= n)
    BY <1>1
<1>3. \A k \in 0..(Len(d) - 1) : Back(d, k) = v[b - k]
    BY DEF Keeps
<1>4. n <= b => Recent(d, n) = Lately(v, b, n)
  <2> SUFFICES ASSUME n <= b PROVE Recent(d, n) = Lately(v, b, n)
    OBVIOUS
  <2>1. \A i \in 1..n : i - 1 \in 0..(Len(d) - 1)
    BY <1>1, <1>2
  <2>2. \A i \in 1..n : Back(d, i - 1) = v[b - (i - 1)]
    BY <1>3, <2>1
  <2> QED
    BY <2>2 DEF Recent, Lately
<1>5. n < b => Back(d, n) = v[b - n]
  <2>1. n < b => n \in 0..(Len(d) - 1)
    BY <1>1, <1>2
  <2> QED
    BY <1>3, <2>1
<1> QED
    BY <1>2, <1>4, <1>5

\* What the indicators of a window have to say of bar b of the history v.
Windowed(d, v, b, n) ==
    LET w == Lately(v, b, n)
        known == Range(Valid(w))
    IN /\ Sma(d, n) = IF b < n \/ ~ Known(w) THEN Na ELSE Total(w) \div n
       /\ Highest(d, n) = IF b < n \/ known = {} THEN Na ELSE Max(known)
       /\ Lowest(d, n) = IF b < n \/ known = {} THEN Na ELSE Min(known)
       /\ Change(d, n) = IF b <= n \/ Na \in {v[b], v[b - n]} THEN Na ELSE v[b] - v[b - n]

LEMMA Windows ==
    ASSUME NEW v, NEW d, NEW b \in Nat \ {0}, NEW n \in Nat, n <= MaxSeries - Trim,
           Keeps(d, v, b)
    PROVE  Windowed(d, v, b, n)
<1> DEFINE w == Lately(v, b, n)
           known == Range(Valid(w))
<1>1. /\ Len(d) < n <=> b < n
      /\ n <= b => Recent(d, n) = w
      /\ Len(d) <= n <=> b <= n
      /\ n < b => Back(d, n) = v[b - n]
    BY RecentIsLately
<1>2. Back(d, 0) = v[b]
  <2>1. 0 <= MaxSeries - Trim /\ 0 \in Nat /\ b - 0 = b
    BY SeriesAssumption
  <2>2. 0 < b => Back(d, 0) = v[b - 0]
    BY <2>1, RecentIsLately
  <2> QED
    BY <2>1, <2>2
<1>3. b < n \/ n <= b
    OBVIOUS
<1> HIDE DEF w
<1>4. Sma(d, n) = IF b < n \/ ~ Known(w) THEN Na ELSE Total(w) \div n
    BY <1>1, <1>3 DEF Sma
<1>5. Highest(d, n) = IF b < n \/ known = {} THEN Na ELSE Max(known)
    BY <1>1, <1>3, Zenon DEF Highest
<1>6. Lowest(d, n) = IF b < n \/ known = {} THEN Na ELSE Min(known)
    BY <1>1, <1>3, Zenon DEF Lowest
<1>7. Change(d, n) = IF b <= n \/ Na \in {v[b], v[b - n]} THEN Na ELSE v[b] - v[b - n]
  <2>1. b <= n \/ n < b
    OBVIOUS
  <2> QED
    BY <1>1, <1>2, <2>1 DEF Change
<1> QED
    BY <1>4, <1>5, <1>6, <1>7 DEF Windowed, w

\* ta.sma, ta.highest, ta.lowest and ta.change: on every bar, after any number of bars and
\* trims, each has its value by definition of the last bars, and na as long as there are
\* too few of them.
THEOREM WindowTheorem ==
    ASSUME NEW v \in [Nat \ {0} -> Int], NEW d \in [Nat -> Seq(Int)], d[0] = <<>>,
           \A b \in Nat : d[b + 1] \in BarOn(d[b], v[b + 1]),
           NEW n \in Nat, n <= MaxSeries - Trim
    PROVE  \A b \in Nat \ {0} : Windowed(d[b], v, b, n)
<1>1. \A b \in Nat : Keeps(d[b], v, b)
    BY SeriesTheorem
<1> QED
    BY <1>1, Windows

\* What a state has for one key.
Same(f, g, key) ==
    /\ key \in DOMAIN f <=> key \in DOMAIN g
    /\ key \in DOMAIN g => f[key] = g[key]

\* What a call of ta.ema or ta.rma does with the state that it finds, whose next
\* average would be next: its value is r.v and it leaves r.state.
Calls(r, state, key, d, n, next) ==
    /\ r.v = IF key \in DOMAIN state THEN next ELSE Sma(d, n)
    /\ r.v = Na => r.state = state
    /\ r.v # Na => key \in DOMAIN r.state /\ r.state[key] = r.v
    /\ \A other : other # key => Same(r.state, state, other)

EmaNext(x, n, prev) == (2 * x + (n - 1) * prev) \div (n + 1)
RmaNext(x, n, prev) == (x + (n - 1) * prev) \div n

LEMMA Entered ==
    ASSUME NEW f, NEW key, NEW x
    PROVE  /\ key \in DOMAIN With(f, key, x) /\ With(f, key, x)[key] = x
           /\ \A other : other # key => Same(With(f, key, x), f, other)
BY DEF With, Same

LEMMA EmaCalls ==
    ASSUME NEW state, NEW s, NEW d, NEW n, Back(d, 0) # Na
    PROVE  Calls(Ema(state, s, d, n), state, EmaKey(s, n), d, n,
                 EmaNext(Back(d, 0), n, state[EmaKey(s, n)]))
<1> DEFINE key == EmaKey(s, n)
           v == IF key \in DOMAIN state THEN EmaNext(Back(d, 0), n, state[key]) ELSE Sma(d, n)
           kept == IF v = Na THEN state ELSE With(state, key, v)
<1>1. Ema(state, s, d, n) = [v |-> v, state |-> kept]
    BY DEF Ema, Smoothed, EmaNext
<1> HIDE DEF key, v
<1>2. v # Na => key \in DOMAIN kept /\ kept[key] = v
    BY Entered
<1>3. \A other : other # key => Same(kept, state, other)
    BY Entered DEF Same
<1> QED
    BY <1>1, <1>2, <1>3 DEF Calls, key, v

LEMMA RmaCalls ==
    ASSUME NEW state, NEW s, NEW d, NEW n, Back(d, 0) # Na
    PROVE  Calls(Rma(state, s, d, n), state, RmaKey(s, n), d, n,
                 RmaNext(Back(d, 0), n, state[RmaKey(s, n)]))
<1> DEFINE key == RmaKey(s, n)
           v == IF key \in DOMAIN state THEN RmaNext(Back(d, 0), n, state[key]) ELSE Sma(d, n)
           kept == IF v = Na THEN state ELSE With(state, key, v)
<1>1. Rma(state, s, d, n) = [v |-> v, state |-> kept]
    BY DEF Rma, Smoothed, RmaNext
<1> HIDE DEF key, v
<1>2. v # Na => key \in DOMAIN kept /\ kept[key] = v
    BY Entered
<1>3. \A other : other # key => Same(kept, state, other)
    BY Entered DEF Same
<1> QED
    BY <1>1, <1>2, <1>3 DEF Calls, key, v

\* The average of the first n bars.
Seed(v, n) == Total([i \in 1..n |-> v[n - (i - 1)]]) \div n

LEMMA SmaSeeds ==
    ASSUME NEW v, NEW d, NEW n \in Nat \ {0}, n <= MaxSeries - Trim, NEW b \in Nat, b <= n,
           Keeps(d, v, b), \A i \in 1..n : v[i] # Na
    PROVE  Sma(d, n) = IF b < n THEN Na ELSE Seed(v, n)
<1>1. Len(d) \in Nat /\ Len(d) <= b /\ (Len(d) = b \/ MaxSeries - Trim < Len(d))
    BY DEF Keeps
<1>2. CASE b < n
    BY <1>1, <1>2 DEF Sma
<1>3. CASE b = n
  <2>1. Len(d) = n
    BY <1>1, <1>3, SeriesAssumption
  <2>2. \A i \in 1..n : i - 1 \in 0..(Len(d) - 1) /\ n - (i - 1) \in 1..n
    BY <2>1
  <2>3. \A i \in 1..n : Back(d, i - 1) = v[n - (i - 1)]
    BY <1>3, <2>2 DEF Keeps
  <2>4. Recent(d, n) = [i \in 1..n |-> v[n - (i - 1)]]
    BY <2>3 DEF Recent
  <2>5. Known(Recent(d, n))
    BY <2>2, <2>4 DEF Known, Range
  <2> QED
    BY <1>3, <2>1, <2>4, <2>5 DEF Sma, Seed
<1> QED
    BY <1>2, <1>3

\* A call on the bar after b, which steps the average of bar b.
Goes(r, state, key, d, n, b, avg) ==
    \E next : /\ Calls(r, state, key, d, n, next)
              /\ n <= b /\ state[key] = avg[b] => next = avg[b + 1]

\* The calls of the bars give na, then the averages from the n-th on.
Averages(r, n, avg) == \A b \in Nat \ {0} : r[b].v = IF b < n THEN Na ELSE avg[b]

\* One call on every bar: r[b] is the call of bar b, which finds state[b].
Streaming(v, d, n, key, state, r, avg) ==
    /\ v \in [Nat \ {0} -> Int] /\ \A b \in Nat \ {0} : v[b] # Na
    /\ \A b \in Nat : Keeps(d[b], v, b)
    /\ n \in Nat \ {0} /\ n <= MaxSeries - Trim
    /\ key \notin DOMAIN state[1]
    /\ \A b \in Nat \ {0} : Same(state[b + 1], r[b].state, key)
    /\ avg[n] = Seed(v, n) /\ \A b \in Nat : n <= b => avg[b] # Na
    /\ \A b \in Nat : Goes(r[b + 1], state[b + 1], key, d[b + 1], n, b, avg)

LEMMA Streams ==
    ASSUME NEW v, NEW d, NEW n, NEW key, NEW state, NEW r, NEW avg,
           Streaming(v, d, n, key, state, r, avg)
    PROVE  Averages(r, n, avg)
<1> SUFFICES ASSUME v \in [Nat \ {0} -> Int], \A b \in Nat \ {0} : v[b] # Na,
                    \A b \in Nat : Keeps(d[b], v, b),
                    n \in Nat \ {0}, n <= MaxSeries - Trim, key \notin DOMAIN state[1],
                    \A b \in Nat \ {0} : Same(state[b + 1], r[b].state, key),
                    avg[n] = Seed(v, n), \A b \in Nat : n <= b => avg[b] # Na,
                    \A b \in Nat :
                        Goes(r[b + 1], state[b + 1], key, d[b + 1], n, b, avg)
             PROVE  \A b \in Nat \ {0} : r[b].v = IF b < n THEN Na ELSE avg[b]
    BY DEF Streaming, Averages
<1> DEFINE Upto(b) == /\ b < n => key \notin DOMAIN state[b + 1]
                      /\ n <= b => key \in DOMAIN state[b + 1] /\ state[b + 1][key] = avg[b]
           T == {b \in Nat : Upto(b)}
<1>1. 0 \in T
    OBVIOUS
<1>2. ASSUME NEW b \in Nat, Upto(b)
      PROVE  Upto(b + 1) /\ r[b + 1].v = IF b + 1 < n THEN Na ELSE avg[b + 1]
  <2> DEFINE c == b + 1
  <2>1. c \in Nat \ {0} /\ Keeps(d[c], v, c)
    OBVIOUS
  <2>2. /\ Same(state[c + 1], r[c].state, key)
        /\ \E next : /\ Calls(r[c], state[c], key, d[c], n, next)
                     /\ n <= b /\ state[c][key] = avg[b] => next = avg[c]
    BY <2>1 DEF Goes
  <2>3. r[c].v = IF c < n THEN Na ELSE avg[c]
    <3>1. CASE b < n
      <4>1. key \notin DOMAIN state[c] /\ c <= n
        BY <1>2, <3>1
      <4>2. \A i \in 1..n : v[i] # Na
        OBVIOUS
      <4>3. Sma(d[c], n) = IF c < n THEN Na ELSE Seed(v, n)
        BY <2>1, <4>1, <4>2, SmaSeeds
      <4>4. c < n \/ c = n
        BY <4>1
      <4>5. r[c].v = Sma(d[c], n)
        BY <2>2, <4>1 DEF Calls
      <4> QED
        BY <4>3, <4>4, <4>5
    <3>2. CASE n <= b
      <4>1. key \in DOMAIN state[c] /\ state[c][key] = avg[b] /\ ~ (c < n)
        BY <1>2, <3>2
      <4> QED
        BY <2>2, <3>2, <4>1 DEF Calls
    <3> QED
      BY <3>1, <3>2
  <2>4. CASE c < n
    <3>1. r[c].state = state[c] /\ key \notin DOMAIN state[c]
      BY <1>2, <2>2, <2>3, <2>4 DEF Calls
    <3> QED
      BY <2>2, <2>3, <2>4, <3>1 DEF Same
  <2>5. CASE ~ (c < n)
    <3>1. n <= c /\ avg[c] # Na
      BY <2>5
    <3>2. key \in DOMAIN r[c].state /\ r[c].state[key] = avg[c]
      BY <2>2, <2>3, <2>5, <3>1 DEF Calls
    <3> QED
      BY <2>2, <2>3, <2>5, <3>2 DEF Same
  <2> QED
    BY <2>4, <2>5
<1>3. T = Nat
  <2> HIDE DEF Upto
  <2>1. \A b \in Nat : b \in T => b + 1 \in T
    BY <1>2
  <2>2. T \subseteq Nat /\ 0 \in T
    BY <1>1
  <2> HIDE DEF T
  <2> QED
    BY <2>1, <2>2, NatInduct
<1>4. ASSUME NEW b \in Nat \ {0} PROVE r[b].v = IF b < n THEN Na ELSE avg[b]
  <2>1. b - 1 \in Nat /\ (b - 1) + 1 = b
    OBVIOUS
  <2> HIDE DEF Upto
  <2>2. Upto(b - 1)
    BY <1>3, <2>1
  <2> QED
    BY <1>2, <2>1, <2>2
<1> QED
    BY <1>4

\* The series holds its value of the bar.
LEMMA BarCurrent ==
    ASSUME NEW d \in Seq(Int), Len(d) <= MaxSeries, NEW x \in Int, NEW e \in BarOn(d, x)
    PROVE  Back(e, 0) = x
<1>1. PICK y \in Int : e = Push(d, x) \/ e = SetCurrent(Push(d, y), x)
    BY DEF BarOn
<1>2. Push(d, y) \in Seq(Int) /\ Push(d, y) # <<>> /\ Back(Push(d, x), 0) = x
    BY PushShifts
<1> QED
    BY <1>1, <1>2, SetCurrentKeeps

\* ta.ema: a script that calls it once on every bar gets na up to the bar before the
\* n-th, then the average of the first n values, and on every later bar
\* (2 * x + (n - 1) * average) / (n + 1): for any number of bars, across every trim of
\* the series, and whatever else is kept in _ema_state under other keys between two
\* calls.  The call of bar b finds state[b] and gives r[b].
THEOREM EmaTheorem ==
    ASSUME NEW v \in [Nat \ {0} -> Int], \A b \in Nat \ {0} : v[b] # Na,
           NEW d \in [Nat -> Seq(Int)], d[0] = <<>>,
           \A b \in Nat : d[b + 1] \in BarOn(d[b], v[b + 1]),
           NEW n \in Nat \ {0}, n <= MaxSeries - Trim, NEW s \in Nat, NEW state, NEW r,
           EmaKey(s, n) \notin DOMAIN state[1],
           \A b \in Nat \ {0} : /\ r[b] = Ema(state[b], s, d[b], n)
                                /\ Same(state[b + 1], r[b].state, EmaKey(s, n)),
           NEW avg, avg[n] = Seed(v, n), \A b \in Nat : n <= b => avg[b] # Na,
           \A b \in Nat : n <= b => avg[b + 1] = EmaNext(v[b + 1], n, avg[b])
    PROVE  Averages(r, n, avg)
<1>1. \A b \in Nat : Keeps(d[b], v, b)
    BY SeriesTheorem
<1>2. ASSUME NEW b \in Nat
      PROVE  Goes(r[b + 1], state[b + 1], EmaKey(s, n), d[b + 1], n, b, avg)
  <2> DEFINE c == b + 1
  <2>1. c \in Nat \ {0}
    OBVIOUS
  <2>2. d[b] \in Seq(Int) /\ d[c] \in BarOn(d[b], v[c])
    OBVIOUS
  <2>3. n <= b => avg[c] = EmaNext(v[c], n, avg[b])
    OBVIOUS
  <2>4. Len(d[b]) <= MaxSeries
    BY <1>1 DEF Keeps
  <2> DEFINE next == EmaNext(v[c], n, state[c][EmaKey(s, n)])
  <2> HIDE DEF c
  <2>5. v[c] \in Int /\ v[c] # Na /\ r[c] = Ema(state[c], s, d[c], n)
    <3>1. v[c] \in Int
      BY <2>1
    <3>2. v[c] # Na
      BY <2>1, Zenon
    <3>3. r[c] = Ema(state[c], s, d[c], n)
      BY <2>1, Zenon
    <3> QED
      BY <3>1, <3>2, <3>3
  <2>6. Back(d[c], 0) = v[c]
    BY <2>2, <2>4, <2>5, BarCurrent
  <2>7. Calls(r[c], state[c], EmaKey(s, n), d[c], n, next)
    <3>1. Back(d[c], 0) # Na
      BY <2>5, <2>6
    <3>2. Calls(Ema(state[c], s, d[c], n), state[c], EmaKey(s, n), d[c], n,
                EmaNext(Back(d[c], 0), n, state[c][EmaKey(s, n)]))
      BY <3>1, EmaCalls, Zenon
    <3> QED
      BY <2>5, <2>6, <3>2, Zenon
  <2>8. n <= b /\ state[c][EmaKey(s, n)] = avg[b] => next = avg[b + 1]
    BY <2>3 DEF c
  <2>9. Goes(r[c], state[c], EmaKey(s, n), d[c], n, b, avg)
    <3> HIDE DEF next
    <3> QED
      BY <2>7, <2>8 DEF Goes
  <2> QED
    BY <2>9 DEF c
<1>3. \A b \in Nat : Goes(r[b + 1], state[b + 1], EmaKey(s, n), d[b + 1], n, b, avg)
    BY <1>2
<1>4. \A b \in Nat \ {0} : Same(state[b + 1], r[b].state, EmaKey(s, n))
    OBVIOUS
<1>5. Streaming(v, d, n, EmaKey(s, n), state, r, avg)
  <2>1. v \in [Nat \ {0} -> Int] /\ \A b \in Nat \ {0} : v[b] # Na
    OBVIOUS
  <2>2. EmaKey(s, n) \notin DOMAIN state[1]
    OBVIOUS
  <2>3. avg[n] = Seed(v, n) /\ \A b \in Nat : n <= b => avg[b] # Na
    OBVIOUS
  <2>4. n \in Nat \ {0} /\ n <= MaxSeries - Trim
    OBVIOUS
  <2> QED
    BY <1>1, <1>3, <1>4, <2>1, <2>2, <2>3, <2>4, Zenon DEF Streaming
<1> QED
    BY <1>5, Streams

\* ta.rma: the same with (x + (n - 1) * average) / n.
THEOREM RmaTheorem ==
    ASSUME NEW v \in [Nat \ {0} -> Int], \A b \in Nat \ {0} : v[b] # Na,
           NEW d \in [Nat -> Seq(Int)], d[0] = <<>>,
           \A b \in Nat : d[b + 1] \in BarOn(d[b], v[b + 1]),
           NEW n \in Nat \ {0}, n <= MaxSeries - Trim, NEW s \in Nat, NEW state, NEW r,
           RmaKey(s, n) \notin DOMAIN state[1],
           \A b \in Nat \ {0} : /\ r[b] = Rma(state[b], s, d[b], n)
                                /\ Same(state[b + 1], r[b].state, RmaKey(s, n)),
           NEW avg, avg[n] = Seed(v, n), \A b \in Nat : n <= b => avg[b] # Na,
           \A b \in Nat : n <= b => avg[b + 1] = RmaNext(v[b + 1], n, avg[b])
    PROVE  Averages(r, n, avg)
<1>1. \A b \in Nat : Keeps(d[b], v, b)
    BY SeriesTheorem
<1>2. ASSUME NEW b \in Nat
      PROVE  Goes(r[b + 1], state[b + 1], RmaKey(s, n), d[b + 1], n, b, avg)
  <2> DEFINE c == b + 1
  <2>1. c \in Nat \ {0}
    OBVIOUS
  <2>2. d[b] \in Seq(Int) /\ d[c] \in BarOn(d[b], v[c])
    OBVIOUS
  <2>3. n <= b => avg[c] = RmaNext(v[c], n, avg[b])
    OBVIOUS
  <2>4. Len(d[b]) <= MaxSeries
    BY <1>1 DEF Keeps
  <2> DEFINE next == RmaNext(v[c], n, state[c][RmaKey(s, n)])
  <2> HIDE DEF c
  <2>5. v[c] \in Int /\ v[c] # Na /\ r[c] = Rma(state[c], s, d[c], n)
    <3>1. v[c] \in Int
      BY <2>1
    <3>2. v[c] # Na
      BY <2>1, Zenon
    <3>3. r[c] = Rma(state[c], s, d[c], n)
      BY <2>1, Zenon
    <3> QED
      BY <3>1, <3>2, <3>3
  <2>6. Back(d[c], 0) = v[c]
    BY <2>2, <2>4, <2>5, BarCurrent
  <2>7. Calls(r[c], state[c], RmaKey(s, n), d[c], n, next)
    <3>1. Back(d[c], 0) # Na
      BY <2>5, <2>6
    <3>2. Calls(Rma(state[c], s, d[c], n), state[c], RmaKey(s, n), d[c], n,
                RmaNext(Back(d[c], 0), n, state[c][RmaKey(s, n)]))
      BY <3>1, RmaCalls, Zenon
    <3> QED
      BY <2>5, <2>6, <3>2, Zenon
  <2>8. n <= b /\ state[c][RmaKey(s, n)] = avg[b] => next = avg[b + 1]
    BY <2>3 DEF c
  <2>9. Goes(r[c], state[c], RmaKey(s, n), d[c], n, b, avg)
    <3> HIDE DEF next
    <3> QED
      BY <2>7, <2>8 DEF Goes
  <2> QED
    BY <2>9 DEF c
<1>3. \A b \in Nat : Goes(r[b + 1], state[b + 1], RmaKey(s, n), d[b + 1], n, b, avg)
    BY <1>2
<1>4. \A b \in Nat \ {0} : Same(state[b + 1], r[b].state, RmaKey(s, n))
    OBVIOUS
<1>5. Streaming(v, d, n, RmaKey(s, n), state, r, avg)
  <2>1. v \in [Nat \ {0} -> Int] /\ \A b \in Nat \ {0} : v[b] # Na
    OBVIOUS
  <2>2. RmaKey(s, n) \notin DOMAIN state[1]
    OBVIOUS
  <2>3. avg[n] = Seed(v, n) /\ \A b \in Nat : n <= b => avg[b] # Na
    OBVIOUS
  <2>4. n \in Nat \ {0} /\ n <= MaxSeries - Trim
    OBVIOUS
  <2> QED
    BY <1>1, <1>3, <1>4, <2>1, <2>2, <2>3, <2>4, Zenon DEF Streaming
<1> QED
    BY <1>5, Streams

\* Other calls of ta.ema and ta.rma on any series leave what one has stored, for
\* lengths up to 270, but for an ema and an rma of one series with 31 * n = 37 * k.
THEOREM OthersTheorem ==
    ASSUME NEW s \in Nat, NEW t \in Nat, NEW n \in Nat, NEW k \in Nat, n <= 270, k <= 270,
           NEW state, NEW d
    PROVE  /\ s # t \/ n # k =>
                  /\ Same(Ema(state, t, d, k).state, state, EmaKey(s, n))
                  /\ Same(Rma(state, t, d, k).state, state, RmaKey(s, n))
           /\ s # t \/ 31 * n # 37 * k => Same(Rma(state, t, d, k).state, state, EmaKey(s, n))
           /\ s # t \/ 31 * k # 37 * n => Same(Ema(state, t, d, k).state, state, RmaKey(s, n))
<1>1. /\ \A other : other # EmaKey(t, k) => Same(Ema(state, t, d, k).state, state, other)
      /\ \A other : other # RmaKey(t, k) => Same(Rma(state, t, d, k).state, state, other)
  <2>1. CASE Back(d, 0) # Na
    BY <2>1, EmaCalls, RmaCalls DEF Calls
  <2>2. CASE Back(d, 0) = Na
    <3>1. Ema(state, t, d, k).state = state /\ Rma(state, t, d, k).state = state
      BY <2>2 DEF Ema, Rma, Smoothed
    <3> QED
      BY <3>1 DEF Same
  <2> QED
    BY <2>1, <2>2
<1>2. /\ EmaKey(s, n) = EmaKey(t, k) => s = t /\ n = k
      /\ RmaKey(s, n) = RmaKey(t, k) => s = t /\ n = k
  <2>1. n < 10007 /\ k < 10007
    OBVIOUS
  <2> QED
    BY <2>1, KeyTheorem
<1>3. EmaKey(s, n) = RmaKey(t, k) => s = t /\ 31 * n = 37 * k
    BY KeyTheorem
<1>4. EmaKey(t, k) = RmaKey(s, n) => t = s /\ 31 * k = 37 * n
    BY KeyTheorem
<1> QED
    BY <1>1, <1>2, <1>3, <1>4

-----------------------------------------------------------------------------
(* ta.rsi.                                                                  *)

\* Prices, none of them na, whose moves from bar to bar are not na either.
Prices(v) == /\ v \in [Nat \ {0} -> Int]
             /\ \A b \in Nat \ {0} : v[b] # Na /\ v[b + 1] - v[b] # Na

\* The averages of the gains and losses of the first n moves, and those on a bar that
\* moves by x.
RsiSeed(v, n) ==
    [gain |-> Total([i \in 1..n |-> Gain(v[n + 1 - (i - 1)] - v[n + 1 - i])]) \div n,
     loss |-> Total([i \in 1..n |-> Gain(-(v[n + 1 - (i - 1)] - v[n + 1 - i]))]) \div n]
RsiNext(x, n, prev) ==
    [gain |-> (prev.gain * (n - 1) + Gain(x)) \div n,
     loss |-> (prev.loss * (n - 1) + Gain(-x)) \div n]
RsiValue(avg) == IF avg.loss = 0 THEN 100 ELSE (100 * avg.gain) \div (avg.gain + avg.loss)

\* The moves that ta.rsi reads from a series.
MovesOf(d, n) == [i \in 1..n |-> IF Na \in {Back(d, i - 1), Back(d, i)} THEN Na
                                 ELSE Back(d, i - 1) - Back(d, i)]

LEMMA Places ==
    ASSUME NEW c \in Nat \ {0}, NEW m \in Nat, m <= c, NEW i \in Nat \ {0}, i < m
    PROVE  /\ i - 1 \in 0..(m - 1) /\ i \in 0..(m - 1)
           /\ c - i \in Nat \ {0} /\ c - (i - 1) = (c - i) + 1
OBVIOUS

\* The moves that a call on bar c sees.
LEMMA RsiMoves ==
    ASSUME NEW v, Prices(v), NEW c \in Nat \ {0}, NEW d, Keeps(d, v, c),
           NEW n \in Nat \ {0}, NEW i \in 1..n, i < Len(d)
    PROVE  MovesOf(d, n)[i] = v[c - (i - 1)] - v[c - i] /\ MovesOf(d, n)[i] # Na
<1> DEFINE b == c - i
<1>1. Len(d) \in Nat /\ Len(d) <= c /\ i \in Nat \ {0}
    BY DEF Keeps
<1>2. i - 1 \in 0..(Len(d) - 1) /\ i \in 0..(Len(d) - 1) /\ b \in Nat \ {0} /\ c - (i - 1) = b + 1
    BY <1>1, Places
<1>3. Back(d, i - 1) = v[c - (i - 1)] /\ Back(d, i) = v[b]
    BY <1>2, Zenon DEF Keeps, b
<1> HIDE DEF b
<1>4. Back(d, i - 1) = v[b + 1]
    BY <1>2, <1>3, Zenon
<1>5. b + 1 \in Nat \ {0}
    BY <1>2
<1>6. v[b] # Na /\ v[b + 1] # Na /\ v[b + 1] - v[b] # Na
    BY <1>2, <1>5, Zenon DEF Prices
<1>7. MovesOf(d, n)[i] = v[b + 1] - v[b]
    BY <1>3, <1>4, <1>6 DEF MovesOf
<1> QED
    BY <1>2, <1>6, <1>7, Zenon DEF b

LEMMA RsiFirst ==
    ASSUME NEW v, Prices(v), NEW n \in Nat \ {0}, NEW d, Keeps(d, v, n + 1), Len(d) = n + 1
    PROVE  /\ Known(MovesOf(d, n)) /\ MovesOf(d, n)[1] # Na
           /\ [gain |-> Total([i \in 1..n |-> Gain(MovesOf(d, n)[i])]) \div n,
               loss |-> Total([i \in 1..n |-> Gain(-MovesOf(d, n)[i])]) \div n] = RsiSeed(v, n)
<1>1. n + 1 \in Nat \ {0} /\ 1 \in 1..n /\ \A i \in 1..n : i < Len(d)
    OBVIOUS
<1>2. \A i \in 1..n : /\ MovesOf(d, n)[i] = v[n + 1 - (i - 1)] - v[n + 1 - i]
                      /\ MovesOf(d, n)[i] # Na
  <2> SUFFICES ASSUME NEW i \in 1..n
               PROVE  /\ MovesOf(d, n)[i] = v[n + 1 - (i - 1)] - v[n + 1 - i]
                      /\ MovesOf(d, n)[i] # Na
    OBVIOUS
  <2> DEFINE c == n + 1
  <2>1. c \in Nat \ {0} /\ Keeps(d, v, c) /\ i < Len(d)
    BY <1>1
  <2> HIDE DEF c
  <2>2. MovesOf(d, n)[i] = v[c - (i - 1)] - v[c - i] /\ MovesOf(d, n)[i] # Na
    BY <2>1, RsiMoves
  <2> QED
    BY <2>2 DEF c
<1>3. DOMAIN MovesOf(d, n) = 1..n
    BY DEF MovesOf
<1>4. Known(MovesOf(d, n)) /\ MovesOf(d, n)[1] # Na
    BY <1>1, <1>2, <1>3, Zenon DEF Known, Range
<1>5. /\ [i \in 1..n |-> Gain(MovesOf(d, n)[i])]
             = [i \in 1..n |-> Gain(v[n + 1 - (i - 1)] - v[n + 1 - i])]
      /\ [i \in 1..n |-> Gain(-MovesOf(d, n)[i])]
             = [i \in 1..n |-> Gain(-(v[n + 1 - (i - 1)] - v[n + 1 - i]))]
    BY <1>2, Zenon
<1> QED
    BY <1>4, <1>5, Zenon DEF RsiSeed

\* How long the series is on bar c.
LEMMA RsiLengths ==
    ASSUME NEW n \in Nat \ {0}, n + 1 <= MaxSeries - Trim, NEW c \in Nat \ {0}, NEW v, NEW d,
           Keeps(d, v, c)
    PROVE  /\ c <= n => Len(d) < n + 1 /\ c <= n + 1
           /\ c = n + 1 => Len(d) = n + 1 /\ c <= n + 1
           /\ c > n + 1 => 1 < Len(d) /\ ~ (c <= n + 1)
           /\ c <= n \/ c = n + 1 \/ c > n + 1
<1>1. Len(d) \in Nat /\ Len(d) <= c /\ (Len(d) = c \/ MaxSeries - Trim < Len(d))
    BY DEF Keeps
<1> QED
    BY <1>1, SeriesAssumption

LEMMA Following ==
    ASSUME NEW n \in Nat \ {0}, NEW b \in Nat, NEW c, c = b + 1
    PROVE  /\ c \in Nat \ {0} /\ c - 1 = b /\ (c <= n + 1 <=> b <= n) /\ (n < b <=> ~ (b <= n))
           /\ (c > n + 1 <=> n < b) /\ (c <= n \/ c = n + 1 \/ c > n + 1)
           /\ (n < c <=> ~ (c <= n))
OBVIOUS

\* Whether ta.rsi has averages to step on bar c, and what a call does on that bar.
Started(c, n, state, key) == c <= n + 1 <=> key \notin DOMAIN state
RsiGoes(v, n, c, state, key, r) ==
    LET avg == RsiNext(v[c] - v[c - 1], n, state[key])
    IN /\ c <= n => r = [v |-> Na, state |-> state]
       /\ c = n + 1 => r = [v |-> RsiValue(RsiSeed(v, n)), state |-> With(state, key, RsiSeed(v, n))]
       /\ c > n + 1 => r = [v |-> RsiValue(avg), state |-> With(state, key, avg)]

LEMMA RsiCalls ==
    ASSUME NEW v, Prices(v), NEW n \in Nat \ {0}, n + 1 <= MaxSeries - Trim,
           NEW c \in Nat \ {0}, NEW d, Keeps(d, v, c), NEW state, NEW s,
           Started(c, n, state, RsiKey(s, n))
    PROVE  RsiGoes(v, n, c, state, RsiKey(s, n), Rsi(state, s, d, n))
<1> DEFINE r == Rsi(state, s, d, n)
           key == RsiKey(s, n)
           moves == MovesOf(d, n)
           seed == [gain |-> Total([i \in 1..n |-> Gain(moves[i])]) \div n,
                    loss |-> Total([i \in 1..n |-> Gain(-moves[i])]) \div n]
           avg == IF key \in DOMAIN state THEN RsiNext(moves[1], n, state[key]) ELSE seed
           unknown == moves[1] = Na \/ (key \notin DOMAIN state /\ (Len(d) < n + 1 \/ ~Known(moves)))
<1>1. r = IF unknown THEN [v |-> Na, state |-> state]
          ELSE [v |-> RsiValue(avg), state |-> With(state, key, avg)]
    BY DEF Rsi, RsiValue, RsiNext, MovesOf
<1> HIDE DEF r
<1>2. ASSUME c <= n PROVE r = [v |-> Na, state |-> state]
  <2>1. unknown
    BY <1>2, RsiLengths, Zenon DEF Started
  <2> QED
    BY <1>1, <2>1, Zenon
<1>3. ASSUME c = n + 1
      PROVE  r = [v |-> RsiValue(RsiSeed(v, n)), state |-> With(state, key, RsiSeed(v, n))]
  <2>1. Len(d) = n + 1 /\ key \notin DOMAIN state
    BY <1>3, RsiLengths, Zenon DEF Started
  <2>2. Keeps(d, v, n + 1)
    BY <1>3, Zenon
  <2>3. Known(moves) /\ moves[1] # Na /\ seed = RsiSeed(v, n)
    BY <2>1, <2>2, RsiFirst, Zenon
  <2>4. ~(Len(d) < n + 1)
    BY <2>1
  <2>5. ~unknown /\ avg = RsiSeed(v, n)
    BY <2>1, <2>3, <2>4, Zenon
  <2> HIDE DEF unknown, avg
  <2> QED
    BY <1>1, <2>5, Zenon
<1>4. ASSUME c > n + 1
      PROVE  r = [v |-> RsiValue(RsiNext(v[c] - v[c - 1], n, state[key])),
                  state |-> With(state, key, RsiNext(v[c] - v[c - 1], n, state[key]))]
  <2>1. 1 < Len(d) /\ key \in DOMAIN state
    BY <1>4, RsiLengths, Zenon DEF Started
  <2>2. 1 \in 1..n /\ c - (1 - 1) = c
    OBVIOUS
  <2>3. moves[1] = v[c] - v[c - 1] /\ moves[1] # Na
    <3>1. moves[1] = v[c - (1 - 1)] - v[c - 1] /\ moves[1] # Na
      BY <2>1, <2>2, RsiMoves
    <3> QED
      BY <2>2, <3>1, Zenon
  <2>4. ~unknown /\ avg = RsiNext(v[c] - v[c - 1], n, state[key])
    BY <2>1, <2>3, Zenon
  <2> HIDE DEF unknown, avg
  <2> QED
    BY <1>1, <2>4, Zenon
<1> QED
    BY <1>2, <1>3, <1>4, Zenon DEF r, RsiGoes

\* ta.rsi: a script that calls it once on every bar gets na up to the bar n, and from
\* the next on the ratio of the averages of gains and losses: those of the first n moves,
\* stepped by every later one.
THEOREM RsiTheorem ==
    ASSUME NEW v, Prices(v), NEW d \in [Nat -> Seq(Int)], d[0] = <<>>,
           \A b \in Nat : d[b + 1] \in BarOn(d[b], v[b + 1]),
           NEW n \in Nat \ {0}, n + 1 <= MaxSeries - Trim, NEW s \in Nat, NEW state, NEW r,
           RsiKey(s, n) \notin DOMAIN state[1],
           \A b \in Nat \ {0} : /\ r[b] = Rsi(state[b], s, d[b], n)
                                /\ Same(state[b + 1], r[b].state, RsiKey(s, n)),
           NEW avg, avg[n + 1] = RsiSeed(v, n),
           \A b \in Nat : n < b => avg[b + 1] = RsiNext(v[b + 1] - v[b], n, avg[b])
    PROVE  \A b \in Nat \ {0} : r[b].v = IF b <= n THEN Na ELSE RsiValue(avg[b])
<1> DEFINE key == RsiKey(s, n)
           Upto(b) == /\ b <= n => key \notin DOMAIN state[b + 1]
                      /\ n < b => key \in DOMAIN state[b + 1] /\ state[b + 1][key] = avg[b]
           T == {b \in Nat : Upto(b)}
<1>0. \A b \in Nat : Keeps(d[b], v, b)
    BY SeriesTheorem DEF Prices
<1>1. 0 \in T
  <2>1. 0 + 1 = 1 /\ ~ (n < 0)
    OBVIOUS
  <2> QED
    BY <2>1, Zenon
<1>2. ASSUME NEW b \in Nat, Upto(b)
      PROVE  Upto(b + 1) /\ r[b + 1].v = IF b + 1 <= n THEN Na ELSE RsiValue(avg[b + 1])
  <2> DEFINE c == b + 1
  <2>0. /\ c \in Nat \ {0} /\ c - 1 = b /\ (c <= n + 1 <=> b <= n) /\ (n < b <=> ~ (b <= n))
        /\ (c > n + 1 <=> n < b) /\ (c <= n \/ c = n + 1 \/ c > n + 1)
        /\ (n < c <=> ~ (c <= n))
    BY Following
  <2>1. Keeps(d[c], v, c) /\ r[c] = Rsi(state[c], s, d[c], n)
        /\ Same(state[c + 1], r[c].state, key)
    BY <1>0, <2>0, Zenon
  <2>2. (c <= n + 1 <=> key \notin DOMAIN state[c]) /\ (n < b => state[c][key] = avg[b])
    BY <1>2, <2>0, Zenon
  <2>3. n < b => avg[c] = RsiNext(v[c] - v[b], n, avg[b])
    BY Zenon
  <2> HIDE DEF c, key
  <2>4. RsiGoes(v, n, c, state[c], key, r[c])
    <3>1. Started(c, n, state[c], RsiKey(s, n))
      BY <2>2, Zenon DEF Started, key
    <3>2. c \in Nat \ {0} /\ Keeps(d[c], v, c)
      BY <2>0, <2>1, Zenon
    <3>3. RsiGoes(v, n, c, state[c], RsiKey(s, n), Rsi(state[c], s, d[c], n))
      BY <3>1, <3>2, RsiCalls
    <3> QED
      BY <2>1, <3>3, Zenon DEF key
  <2>5. CASE c <= n
    <3>1. r[c].v = Na /\ r[c].state = state[c] /\ key \notin DOMAIN state[c] /\ ~ (n < c)
      <4>1. c <= n + 1
        BY <2>0, <2>5
      <4>2. r[c] = [v |-> Na, state |-> state[c]]
        BY <2>4, <2>5, Zenon DEF RsiGoes
      <4>3. r[c].v = Na /\ r[c].state = state[c]
        BY <4>2
      <4> QED
        BY <2>0, <2>2, <2>5, <4>1, <4>3, Zenon
    <3> QED
      BY <2>1, <2>5, <3>1, Zenon DEF Same, c
  <2>6. CASE ~ (c <= n)
    <3>1. r[c] = [v |-> RsiValue(avg[c]), state |-> With(state[c], key, avg[c])]
      <4>1. CASE c = n + 1
        BY <2>4, <4>1, Zenon DEF RsiGoes
      <4>2. CASE c > n + 1
        BY <2>0, <2>2, <2>3, <2>4, <4>2, Zenon DEF RsiGoes
      <4> QED
        BY <2>0, <2>6, <4>1, <4>2, Zenon
    <3>2. /\ r[c].v = RsiValue(avg[c]) /\ r[c].state = With(state[c], key, avg[c])
      BY <3>1
    <3>3. key \in DOMAIN r[c].state /\ r[c].state[key] = avg[c]
      BY <3>2, Entered
    <3> QED
      BY <2>0, <2>1, <2>6, <3>2, <3>3, Zenon DEF Same, c
  <2> QED
    BY <2>5, <2>6
<1>3. T = Nat
  <2> HIDE DEF Upto
  <2>1. \A b \in Nat : b \in T => b + 1 \in T
    BY <1>2
  <2>2. T \subseteq Nat /\ 0 \in T
    BY <1>1
  <2> HIDE DEF T
  <2> QED
    BY <2>1, <2>2, NatInduct
<1>4. ASSUME NEW b \in Nat \ {0} PROVE r[b].v = IF b <= n THEN Na ELSE RsiValue(avg[b])
  <2>1. b - 1 \in Nat /\ (b - 1) + 1 = b
    OBVIOUS
  <2>2. Upto(b - 1)
    BY <1>3, <2>1
  <2> HIDE DEF Upto
  <2> QED
    BY <1>2, <2>1, <2>2
<1> QED
    BY <1>4

=============================================================================
