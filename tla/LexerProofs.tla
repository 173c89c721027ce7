---------------------------- MODULE LexerProofs ----------------------------
(***************************************************************************)
(* For any texts: a token is the longest that starts where it does, a      *)
(* string keeps its quotes, the line number follows the text and nothing   *)
(* but blanks is passed over.                                              *)
(*                                                                         *)
(* None of it depends on the tokens before: the invariant is only that the *)
(* position is in the text until the end has been read, and each action    *)
(* establishes the rest by what its loops stop at.  That a literal keeps   *)
(* its last quote goes from its end to its beginning, as unEscape is       *)
(* defined; that is an induction on a number, for which the smallest       *)
(* counterexample serves.                                                  *)
(***************************************************************************)
EXTENDS Lexer, FiniteSetTheorems, WellFoundedInduction, TLAPS

\* A sequence of characters.
IsText(text) == text \in Seq(Characters)

-----------------------------------------------------------------------------
\* The smallest number of a set is one of them.
LEMMA Smallest ==
  ASSUME NEW S, S \subseteq Nat, S # {}
  PROVE  /\ Min(S) \in S
         /\ \A m \in S : Min(S) <= m
<1>1. PICK n \in S : \A m \in S : ~(<<m, n>> \in OpToRel(<, Nat))
  <2> HIDE DEF OpToRel
  <2> QED
    BY NatLessThanWellFounded, WFMin
<1>2. ASSUME NEW m \in Nat, NEW k \in Nat, m < k PROVE <<m, k>> \in OpToRel(<, Nat)
  BY <1>2, Zenon DEF OpToRel
<1>3. \A m \in S : ~(m < n)
  <2> HIDE DEF OpToRel
  <2> QED
    BY <1>1, <1>2
<1>4. \A m \in S : n <= m
  BY <1>3
<1> QED
  BY <1>4 DEF Min

\* The character 0 ends a text and is not part of it.
LEMMA NoCharacterIsNUL == NUL \notin Characters
BY DEF NUL, Characters, Digits, Letters, Blanks, OneCharacter

\* The loops of the lexer find the end of the input by the character 0.
LEMMA CharAtFacts ==
  ASSUME IsText(input), NEW p \in Nat
  PROVE  /\ Len(input) \in Nat
         /\ p < Len(input) => CharAt(p) \in Characters /\ CharAt(p) = input[p + 1]
         /\ p >= Len(input) => CharAt(p) = NUL
         /\ p < Len(input) <=> CharAt(p) # NUL
BY NoCharacterIsNUL DEF IsText, CharAt

\* The characters between two positions of the input.
LEMMA TextFacts ==
  ASSUME IsText(input), NEW p \in Nat, NEW q \in Nat, p <= q, q <= Len(input)
  PROVE  /\ Text(p, q) \in Seq(Characters)
         /\ Len(Text(p, q)) = q - p
         /\ \A i \in 1 .. q - p : Text(p, q)[i] = CharAt(p + i - 1)
<1>1. Min({q, Len(input)}) = q
  BY DEF Min, IsText
<1>2. Text(p, q) = SubSeq(input, p + 1, q)
  BY <1>1 DEF Text
<1>3. \A i \in 1 .. q - p : input[p + i] = CharAt(p + i - 1) /\ p + i - 1 \in Nat
  BY DEF CharAt, IsText
<1>4. input \in Seq(Characters) /\ Len(input) \in Nat
  BY DEF IsText
<1>5. /\ SubSeq(input, p + 1, q) \in Seq(Characters)
      /\ Len(SubSeq(input, p + 1, q)) = q - p
      /\ \A i \in 1 .. q - p : SubSeq(input, p + 1, q)[i] = input[p + i]
  BY <1>4
<1> QED
  BY <1>2, <1>3, <1>5

\* A text that would go past the end of the input ends there.
LEMMA TextBeyond ==
  ASSUME IsText(input), NEW p \in Nat, NEW q \in Nat, q >= Len(input)
  PROVE  Text(p, q) = Text(p, Len(input))
<1>1. Min({q, Len(input)}) = Len(input) /\ Min({Len(input), Len(input)}) = Len(input)
  BY DEF Min, IsText
<1> QED
  BY <1>1 DEF Text

\* A loop that reads while the character is in C stops at the first one that is
\* not, at the latest at the end of the input.
LEMMA PastFacts ==
  ASSUME IsText(input), NEW p \in Nat, NEW C, NUL \notin C
  PROVE  /\ p <= Len(input) => /\ Past(p, C) \in p .. Len(input)
                               /\ CharAt(Past(p, C)) \notin C
                               /\ \A r \in p .. Past(p, C) - 1 : CharAt(r) \in C
         /\ p > Len(input) => Past(p, C) = Len(input)
<1> DEFINE S == {q \in p .. Len(input) : CharAt(q) \notin C} \cup {Len(input)}
<1>1. S \subseteq Nat /\ S # {} /\ Len(input) \in Nat
  BY DEF IsText
<1>2. Past(p, C) = Min(S)
  BY DEF Past
<1>3. Min(S) \in S /\ \A m \in S : Min(S) <= m
  <2> HIDE DEF S
  <2> QED
    BY <1>1, Smallest
<1>4. CharAt(Len(input)) \notin C
  BY <1>1, CharAtFacts
<1>5. PICK e : e = Past(p, C)
  OBVIOUS
<1>6. e \in S /\ \A m \in S : e <= m
  BY <1>2, <1>3, <1>5
<1>7. e \in Nat /\ e <= Len(input) /\ CharAt(e) \notin C
  BY <1>1, <1>4, <1>6
<1>8. p > Len(input) => e = Len(input)
  BY <1>1, <1>6
<1>9. p <= Len(input) => p <= e
  BY <1>1, <1>6
<1>10. ASSUME NEW r \in p .. e - 1 PROVE CharAt(r) \in C
  BY <1>1, <1>6, <1>7
<1> QED
  BY <1>1, <1>5, <1>7, <1>8, <1>9, <1>10

\* A loop that looks at the next character stops before the first one in C, or
\* on the last character of the input.
LEMMA BeforeFacts ==
  ASSUME IsText(input), NEW p \in Nat, NEW C, p < Len(input)
  PROVE  /\ Before(p, C) \in p .. Len(input) - 1
         /\ CharAt(Before(p, C) + 1) \in C \cup {NUL}
         /\ \A r \in p .. Before(p, C) - 1 : CharAt(r + 1) \notin C \cup {NUL}
<1> DEFINE stops(q) == CharAt(q + 1) \in C \cup {NUL}
           S == {q \in p .. Len(input) : stops(q)}
<1>1. S \subseteq Nat /\ Len(input) - 1 \in S /\ Len(input) \in Nat
  <2>1. Len(input) \in Nat /\ CharAt(Len(input)) = NUL
    BY CharAtFacts DEF IsText
  <2> QED
    BY <2>1
<1>2. Before(p, C) = Min(S)
  BY DEF Before
<1> HIDE DEF stops
<1>3. Min(S) \in S /\ \A m \in S : Min(S) <= m
  <2> HIDE DEF S
  <2> QED
    BY <1>1, Smallest
<1>4. PICK e : e = Before(p, C)
  OBVIOUS
<1>5. e \in S /\ \A m \in S : e <= m
  BY <1>2, <1>3, <1>4
<1>6. e \in p .. Len(input) - 1 /\ stops(e)
  BY <1>1, <1>5
<1>7. ASSUME NEW r \in p .. e - 1 PROVE ~stops(r)
  BY <1>1, <1>5, <1>6
<1> QED
  BY <1>4, <1>6, <1>7 DEF stops

-----------------------------------------------------------------------------
\* What holds at n, and at each number when it holds from there to n, holds down
\* to 0: unEscape is defined from the end of the literal.
LEMMA Downwards ==
  ASSUME NEW n \in Nat, NEW S, n \in S,
         ASSUME NEW i \in 0 .. n - 1, \A j \in i + 1 .. n : j \in S PROVE i \in S
  PROVE  \A i \in 0 .. n : i \in S
<1> DEFINE T == {k \in 0 .. n : n - k \notin S}
<1>1. SUFFICES ASSUME T # {} PROVE FALSE
  <2>1. SUFFICES ASSUME NEW i \in 0 .. n, i \notin S, T = {} PROVE FALSE
    OBVIOUS
  <2>2. n - i \in 0 .. n /\ n - (n - i) = i
    OBVIOUS
  <2>3. n - i \in T
    <3>1. n - (n - i) \notin S
      BY <2>1, <2>2
    <3> QED
      BY <2>2, <3>1
  <2> QED
    BY <2>1, <2>3
<1>2. PICK k \in T : \A m \in T : k <= m
  <2>1. T \subseteq Nat
    OBVIOUS
  <2> HIDE DEF T
  <2> QED
    BY <1>1, <2>1, Smallest
<1>3. k \in 0 .. n /\ n - k \notin S /\ k # 0
  BY <1>2
<1>4. ASSUME NEW j \in n - k + 1 .. n PROVE j \in S
  <2>1. n - j \in 0 .. n /\ ~(k <= n - j) /\ n - (n - j) = j
    BY <1>3
  <2> QED
    BY <1>2, <2>1
<1>5. n - k \in 0 .. n - 1
  BY <1>3
<1> QED
  BY <1>3, <1>4, <1>5

Unfolded(s, rest, i) ==
  LET Then(out, j) == [text |-> out \o rest[j].text, beyond |-> rest[j].beyond]
      escape == i < Len(s) - 1 /\ s[i + 1] = "\\"
      cut    == Len(s) >= 4 /\ i > Len(s) - 4
  IN IF i = Len(s) THEN [text |-> <<>>, beyond |-> FALSE]
     ELSE IF ~escape THEN Then(<<s[i + 1]>>, i + 1)
     ELSE IF s[i + 2] \in DOMAIN Escapes THEN Then(<<Escapes[s[i + 2]]>>, i + 2)
     ELSE IF s[i + 2] # "0" \/ cut THEN Then(<<>>, i + 1)
     ELSE IF i + 3 < Len(s)
       THEN Then(Octal(MinusZero(s[i + 3]) * 8 + MinusZero(s[i + 4])), i + 4)
       ELSE [text |-> <<>>, beyond |-> TRUE]

\* The five things unEscape does at a character.
LEMMA UnfoldedCases ==
  ASSUME NEW s \in Seq(Characters), NEW i \in 0 .. Len(s), NEW rest
  PROVE  \/ i = Len(s) /\ Unfolded(s, rest, i) = [text |-> <<>>, beyond |-> FALSE]
         \/ /\ i < Len(s) /\ ~(i < Len(s) - 1 /\ s[i + 1] = "\\")
            /\ Unfolded(s, rest, i) = [text |-> <<s[i + 1]>> \o rest[i + 1].text,
                                       beyond |-> rest[i + 1].beyond]
         \/ /\ i < Len(s) - 1 /\ s[i + 1] = "\\" /\ s[i + 2] \in {"n", "t", "r"}
            /\ Unfolded(s, rest, i) = [text |-> <<Escapes[s[i + 2]]>> \o rest[i + 2].text,
                                       beyond |-> rest[i + 2].beyond]
         \/ /\ i + 3 < Len(s) /\ s[i + 1] = "\\" /\ s[i + 2] = "0"
            /\ \E code :
                 Unfolded(s, rest, i) = [text |-> Octal(code) \o rest[i + 4].text,
                                         beyond |-> rest[i + 4].beyond]
         \/ /\ i < Len(s) - 1 /\ s[i + 1] = "\\" /\ s[i + 2] = "0" /\ Len(s) < 4
            /\ Unfolded(s, rest, i) = [text |-> <<>>, beyond |-> TRUE]
         \/ /\ i < Len(s) - 1 /\ s[i + 1] = "\\"
            /\ Unfolded(s, rest, i) = [text |-> <<>> \o rest[i + 1].text,
                                       beyond |-> rest[i + 1].beyond]
<1> DEFINE escape == i < Len(s) - 1 /\ s[i + 1] = "\\"
           cut == Len(s) >= 4 /\ i > Len(s) - 4
           code == MinusZero(s[i + 3]) * 8 + MinusZero(s[i + 4])
<1>1. DOMAIN Escapes = {"n", "t", "r"}
  BY DEF Escapes
<1>2. CASE i = Len(s)
  BY <1>2 DEF Unfolded
<1>3. CASE i < Len(s) /\ ~escape
  BY <1>3 DEF Unfolded
<1>4. CASE i < Len(s) /\ escape /\ s[i + 2] \in DOMAIN Escapes
  BY <1>1, <1>4 DEF Unfolded
<1>5. CASE i < Len(s) /\ escape /\ s[i + 2] \notin DOMAIN Escapes /\ (s[i + 2] # "0" \/ cut)
  <2>1. Unfolded(s, rest, i) = [text |-> <<>> \o rest[i + 1].text,
                                beyond |-> rest[i + 1].beyond]
    BY <1>5 DEF Unfolded
  <2> QED
    BY <1>5, <2>1
<1>6. CASE /\ i < Len(s) /\ escape /\ s[i + 2] \notin DOMAIN Escapes
           /\ s[i + 2] = "0" /\ ~cut /\ i + 3 < Len(s)
  <2>1. Unfolded(s, rest, i) = [text |-> Octal(code) \o rest[i + 4].text,
                                beyond |-> rest[i + 4].beyond]
    BY <1>6 DEF Unfolded
  <2> HIDE DEF code
  <2> QED
    BY <1>6, <2>1
<1>7. CASE /\ i < Len(s) /\ escape /\ s[i + 2] \notin DOMAIN Escapes
           /\ s[i + 2] = "0" /\ ~cut /\ ~(i + 3 < Len(s))
  <2>1. Unfolded(s, rest, i) = [text |-> <<>>, beyond |-> TRUE]
    BY <1>7 DEF Unfolded
  <2>2. Len(s) < 4
    BY <1>7
  <2> QED
    BY <1>7, <2>1, <2>2
<1>8. i < Len(s) \/ i = Len(s)
  OBVIOUS
<1> QED
  BY <1>2, <1>3, <1>4, <1>5, <1>6, <1>7, <1>8

\* What unEscape does at a character depends on what it makes of the later ones.
LEMMA UnfoldedIsLocal ==
  ASSUME NEW s \in Seq(Characters), NEW i \in 0 .. Len(s), NEW f, NEW g,
         \A j \in i + 1 .. Len(s) : f[j] = g[j]
  PROVE  Unfolded(s, f, i) = Unfolded(s, g, i)
<1>1. i < Len(s) => f[i + 1] = g[i + 1]
  OBVIOUS
<1>2. i < Len(s) - 1 => f[i + 2] = g[i + 2]
  OBVIOUS
<1>3. i + 3 < Len(s) => f[i + 4] = g[i + 4]
  OBVIOUS
<1> DEFINE escape == i < Len(s) - 1 /\ s[i + 1] = "\\"
           cut == Len(s) >= 4 /\ i > Len(s) - 4
<1>4. CASE i = Len(s)
  BY <1>4 DEF Unfolded
<1>5. CASE i < Len(s) /\ ~escape
  BY <1>1, <1>5 DEF Unfolded
<1>6. CASE i < Len(s) /\ escape /\ s[i + 2] \in DOMAIN Escapes
  BY <1>2, <1>6 DEF Unfolded
<1>7. CASE i < Len(s) /\ escape /\ s[i + 2] \notin DOMAIN Escapes /\ (s[i + 2] # "0" \/ cut)
  BY <1>1, <1>7 DEF Unfolded
<1>8. CASE /\ i < Len(s) /\ escape /\ s[i + 2] \notin DOMAIN Escapes
           /\ s[i + 2] = "0" /\ ~cut
  BY <1>3, <1>8 DEF Unfolded
<1>9. i < Len(s) \/ i = Len(s)
  OBVIOUS
<1> QED
  BY <1>4, <1>5, <1>6, <1>7, <1>8, <1>9

\* The recursive function satisfies its equation.
LEMMA UnEscapedUnfolds ==
  ASSUME NEW s \in Seq(Characters)
  PROVE  \A i \in 0 .. Len(s) : UnEscaped(s)[i] = Unfolded(s, UnEscaped(s), i)
<1> DEFINE n == Len(s)
           Good(f, i) == \A k \in i .. n : f[k] = Unfolded(s, f, k)
           S == {i \in 0 .. n : \E f : Good(f, i)}
<1>1. n \in Nat
  OBVIOUS
<1> HIDE DEF n
<1>2. n \in S
  <2>1. n \in 0 .. n /\ n .. n = {n}
    BY <1>1
  <2>2. PICK f : f = [k \in {n} |-> Unfolded(s, <<>>, n)]
    OBVIOUS
  <2>3. Unfolded(s, f, n) = Unfolded(s, <<>>, n)
    BY DEF Unfolded, n
  <2> QED
    BY <2>1, <2>2, <2>3
<1>3. ASSUME NEW i \in 0 .. n - 1, \A j \in i + 1 .. n : j \in S PROVE i \in S
  <2>1. i + 1 \in i + 1 .. n /\ i \in 0 .. n
    BY <1>1
  <2>2. PICK f : Good(f, i + 1)
    BY <1>3, <2>1
  <2>3. PICK g : g = [k \in 0 .. n |-> IF k = i THEN Unfolded(s, f, i) ELSE f[k]]
    OBVIOUS
  <2>4. \A k \in i + 1 .. n : g[k] = f[k]
    BY <1>1, <2>3
  <2>5. ASSUME NEW k \in i .. n PROVE Unfolded(s, g, k) = Unfolded(s, f, k)
    <3>1. k \in 0 .. Len(s) /\ \A j \in k + 1 .. Len(s) : f[j] = g[j]
      BY <1>1, <2>4 DEF n
    <3> QED
      BY <3>1, UnfoldedIsLocal
  <2>6. ASSUME NEW k \in i .. n PROVE g[k] = Unfolded(s, g, k)
    <3>1. CASE k = i
      BY <2>1, <2>3, <2>5, <3>1
    <3>2. CASE k # i
      <4>1. k \in i + 1 .. n
        BY <1>1, <3>2
      <4> QED
        BY <2>2, <2>4, <2>5, <4>1
    <3> QED
      BY <3>1, <3>2
  <2> QED
    BY <2>1, <2>6
<1>4. 0 \in S
  <2> HIDE DEF S
  <2>1. \A i \in 0 .. n : i \in S
    BY <1>1, <1>2, <1>3, Downwards
  <2> QED
    BY <1>1, <2>1
<1>5. PICK f : Good(f, 0)
  BY <1>4
<1>6. PICK h : h = [k \in 0 .. n |-> f[k]]
  OBVIOUS
<1>7. ASSUME NEW k \in 0 .. n PROVE h[k] = Unfolded(s, h, k)
  <2>1. k \in 0 .. Len(s) /\ \A j \in k + 1 .. Len(s) : f[j] = h[j]
    BY <1>1, <1>6 DEF n
  <2>2. Unfolded(s, h, k) = Unfolded(s, f, k)
    BY <2>1, UnfoldedIsLocal
  <2> QED
    BY <1>5, <1>6, <2>2
<1>8. h = [k \in 0 .. n |-> Unfolded(s, h, k)]
  BY <1>6, <1>7
<1>9. UnEscaped(s) = CHOOSE rest : rest = [k \in 0 .. n |-> Unfolded(s, rest, k)]
  BY DEF UnEscaped, Unfolded, n
<1>10. UnEscaped(s) = [k \in 0 .. n |-> Unfolded(s, UnEscaped(s), k)]
  BY <1>8, <1>9
<1> QED
  BY <1>10 DEF n

Unescaped == [text : Seq(Characters \cup {"#"}), beyond : BOOLEAN]

\* An octal escape is a character, or none.
LEMMA OctalIsText == \A code : Octal(code) \in Seq(Characters \cup {"#"})
<1>1. <<"#">> \in Seq(Characters \cup {"#"}) /\ <<>> \in Seq(Characters \cup {"#"})
  OBVIOUS
<1>2. ASSUME NEW code PROVE Octal(code) = <<"#">> \/ Octal(code) = <<>>
  BY Zenon DEF Octal
<1> QED
  BY <1>1, <1>2

\* The escapes of a new line, a tab and a carriage return are characters.
LEMMA EscapesAreCharacters == \A c \in {"n", "t", "r"} : Escapes[c] \in Characters
<1>1. {"\n", "\t", "\r"} \subseteq Characters
  BY DEF Characters, Blanks
<1>2. Escapes["n"] = "\n" /\ Escapes["t"] = "\t" /\ Escapes["r"] = "\r"
  BY DEF Escapes
<1> QED
  BY <1>1, <1>2

\* unEscape makes a text of a text, from any of its characters on.
LEMMA UnEscapedIsText ==
  ASSUME NEW s \in Seq(Characters)
  PROVE  \A i \in 0 .. Len(s) : UnEscaped(s)[i] \in Unescaped
<1> DEFINE n == Len(s)
           S == {i \in 0 .. n : UnEscaped(s)[i] \in Unescaped}
<1>1. n \in Nat
  OBVIOUS
<1>2. ASSUME NEW i \in 0 .. n, \A j \in i + 1 .. n : UnEscaped(s)[j] \in Unescaped
      PROVE  UnEscaped(s)[i] \in Unescaped
  <2>1. UnEscaped(s)[i] = Unfolded(s, UnEscaped(s), i)
    BY UnEscapedUnfolds
  <2>2. ASSUME NEW out \in Seq(Characters \cup {"#"}), NEW j \in i + 1 .. n
        PROVE  [text |-> out \o UnEscaped(s)[j].text,
                beyond |-> UnEscaped(s)[j].beyond] \in Unescaped
    BY <1>2 DEF Unescaped
  <2>3. <<>> \in Seq(Characters \cup {"#"})
    OBVIOUS
  <2>4. \A code : Octal(code) \in Seq(Characters \cup {"#"})
    BY OctalIsText
  <2>5. \A c \in {"n", "t", "r"} : Escapes[c] \in Characters
    BY EscapesAreCharacters
  <2>6. \A c \in Characters : <<c>> \in Seq(Characters \cup {"#"})
    OBVIOUS
  <2>7. i < n => s[i + 1] \in Characters
    OBVIOUS
  <2>8. CASE i = n /\ Unfolded(s, UnEscaped(s), i) = [text |-> <<>>, beyond |-> FALSE]
    BY <2>1, <2>3, <2>8 DEF Unescaped
  <2>9. CASE /\ i < n
             /\ Unfolded(s, UnEscaped(s), i) = [text |-> <<s[i + 1]>> \o UnEscaped(s)[i + 1].text,
                                                beyond |-> UnEscaped(s)[i + 1].beyond]
    <3>1. i + 1 \in i + 1 .. n
      BY <2>9
    <3>2. <<s[i + 1]>> \in Seq(Characters \cup {"#"})
      BY <2>6, <2>7, <2>9
    <3> QED
      BY <2>1, <2>2, <2>9, <3>1, <3>2
  <2>10. CASE /\ i < n - 1 /\ s[i + 2] \in {"n", "t", "r"}
              /\ Unfolded(s, UnEscaped(s), i) =
                   [text |-> <<Escapes[s[i + 2]]>> \o UnEscaped(s)[i + 2].text,
                    beyond |-> UnEscaped(s)[i + 2].beyond]
    <3>1. i + 2 \in i + 1 .. n
      BY <2>10
    <3>2. <<Escapes[s[i + 2]]>> \in Seq(Characters \cup {"#"})
      BY <2>5, <2>6, <2>10
    <3> QED
      BY <2>1, <2>2, <2>10, <3>1, <3>2
  <2>11. CASE /\ i + 3 < n
              /\ \E code :
                   Unfolded(s, UnEscaped(s), i) =
                     [text |-> Octal(code) \o UnEscaped(s)[i + 4].text,
                      beyond |-> UnEscaped(s)[i + 4].beyond]
    <3>1. i + 4 \in i + 1 .. n
      BY <2>11
    <3>2. PICK code : Unfolded(s, UnEscaped(s), i) =
                        [text |-> Octal(code) \o UnEscaped(s)[i + 4].text,
                         beyond |-> UnEscaped(s)[i + 4].beyond]
      BY <2>11
    <3> QED
      BY <2>1, <2>2, <2>4, <3>1, <3>2
  <2>12. CASE Unfolded(s, UnEscaped(s), i) = [text |-> <<>>, beyond |-> TRUE]
    BY <2>1, <2>3, <2>12 DEF Unescaped
  <2>13. CASE /\ i < n - 1
              /\ Unfolded(s, UnEscaped(s), i) = [text |-> <<>> \o UnEscaped(s)[i + 1].text,
                                                 beyond |-> UnEscaped(s)[i + 1].beyond]
    <3>1. i + 1 \in i + 1 .. n
      BY <2>13
    <3> QED
      BY <2>1, <2>2, <2>3, <2>13, <3>1
  <2> QED
    BY UnfoldedCases, <2>8, <2>9, <2>10, <2>11, <2>12, <2>13
<1>3. n \in S
  BY <1>1, <1>2
<1>4. ASSUME NEW i \in 0 .. n - 1, \A j \in i + 1 .. n : j \in S PROVE i \in S
  BY <1>1, <1>2, <1>4
<1>5. \A i \in 0 .. n : i \in S
  <2> HIDE DEF S, n
  <2> QED
    BY <1>1, <1>3, <1>4, Downwards
<1> QED
  BY <1>5

Quote == "\""
TakesTheQuote(s) == Len(s) >= 4 /\ s[Len(s) - 3] = "\\" /\ s[Len(s) - 2] = "0"

\* What is made of a rest of a literal that ends with a quote.
EndsWithQuote(s, result) ==
  /\ ~result.beyond
  /\ \/ Len(result.text) >= 1 /\ result.text[Len(result.text)] = Quote
     \/ TakesTheQuote(s)

\* Whatever unEscape has read before it, the last quote of a literal stays, unless
\* an octal escape takes it.
LEMMA QuoteStays ==
  ASSUME NEW s \in Seq(Characters), Len(s) >= 2, s[1] = Quote, s[Len(s)] = Quote
  PROVE  \A i \in 0 .. Len(s) - 1 : EndsWithQuote(s, UnEscaped(s)[i])
<1> DEFINE n == Len(s)
           S == {i \in 0 .. n : i = n \/ EndsWithQuote(s, UnEscaped(s)[i])}
<1>1. n \in Nat /\ n >= 2
  OBVIOUS
<1>2. /\ UnEscaped(s)[n] = Unfolded(s, UnEscaped(s), n)
      /\ Unfolded(s, UnEscaped(s), n) = [text |-> <<>>, beyond |-> FALSE]
  <2>1. n \in 0 .. n
    BY <1>1
  <2> QED
    BY <2>1, UnEscapedUnfolds DEF Unfolded
<1>3. ASSUME NEW i \in 0 .. n - 1,
             \A j \in i + 1 .. n - 1 : EndsWithQuote(s, UnEscaped(s)[j])
      PROVE  EndsWithQuote(s, UnEscaped(s)[i])
  <2>1. i \in 0 .. n /\ UnEscaped(s)[i] = Unfolded(s, UnEscaped(s), i)
    BY <1>1, UnEscapedUnfolds
  <2>2. ASSUME NEW out \in Seq(Characters \cup {"#"}), NEW j \in i + 1 .. n - 1
        PROVE  EndsWithQuote(s, [text |-> out \o UnEscaped(s)[j].text,
                                 beyond |-> UnEscaped(s)[j].beyond])
    <3>1. UnEscaped(s)[j] \in Unescaped /\ EndsWithQuote(s, UnEscaped(s)[j])
      BY <1>1, <1>3, UnEscapedIsText
    <3>2. PICK t \in Seq(Characters \cup {"#"}) : t = UnEscaped(s)[j].text
      BY <3>1 DEF Unescaped
    <3>3. ASSUME Len(t) >= 1, t[Len(t)] = Quote
          PROVE  Len(out \o t) >= 1 /\ (out \o t)[Len(out \o t)] = Quote
      BY <3>3
    <3> QED
      BY <3>1, <3>2, <3>3 DEF EndsWithQuote
  <2>3. <<>> \in Seq(Characters \cup {"#"})
    OBVIOUS
  <2>4. \A code : Octal(code) \in Seq(Characters \cup {"#"})
    BY OctalIsText
  <2>5. \A c \in {"n", "t", "r"} : Escapes[c] \in Characters
    BY EscapesAreCharacters
  <2>6. \A c \in Characters : <<c>> \in Seq(Characters \cup {"#"})
    OBVIOUS
  <2>7. CASE /\ i < n
             /\ Unfolded(s, UnEscaped(s), i) = [text |-> <<s[i + 1]>> \o UnEscaped(s)[i + 1].text,
                                                beyond |-> UnEscaped(s)[i + 1].beyond]
    <3>1. CASE i = n - 1
      <4>1. UnEscaped(s)[i + 1] = [text |-> <<>>, beyond |-> FALSE] /\ s[i + 1] = Quote
        BY <1>1, <1>2, <3>1
      <4>2. <<s[i + 1]>> \o <<>> = <<Quote>>
        BY <4>1
      <4>3. UnEscaped(s)[i] = [text |-> <<Quote>>, beyond |-> FALSE]
        BY <2>1, <2>7, <4>1, <4>2
      <4> QED
        BY <4>3 DEF EndsWithQuote
    <3>2. CASE i # n - 1
      <4>1. i + 1 \in i + 1 .. n - 1 /\ s[i + 1] \in Characters
        BY <1>1, <3>2
      <4> QED
        BY <2>1, <2>2, <2>6, <2>7, <4>1
    <3> QED
      BY <3>1, <3>2
  <2>8. CASE /\ i < n - 1 /\ s[i + 2] \in {"n", "t", "r"}
             /\ Unfolded(s, UnEscaped(s), i) =
                  [text |-> <<Escapes[s[i + 2]]>> \o UnEscaped(s)[i + 2].text,
                   beyond |-> UnEscaped(s)[i + 2].beyond]
    <3>1. i + 2 # n
      BY <1>1, <2>8 DEF Quote
    <3>2. i + 2 \in i + 1 .. n - 1
      BY <1>1, <2>8, <3>1
    <3>3. <<Escapes[s[i + 2]]>> \in Seq(Characters \cup {"#"})
      BY <2>5, <2>6, <2>8
    <3> QED
      BY <2>1, <2>2, <2>8, <3>2, <3>3
  <2>9. CASE /\ i + 3 < n /\ s[i + 1] = "\\" /\ s[i + 2] = "0"
             /\ \E code :
                  Unfolded(s, UnEscaped(s), i) =
                    [text |-> Octal(code) \o UnEscaped(s)[i + 4].text,
                     beyond |-> UnEscaped(s)[i + 4].beyond]
    <3>1. PICK code : Unfolded(s, UnEscaped(s), i) =
                        [text |-> Octal(code) \o UnEscaped(s)[i + 4].text,
                         beyond |-> UnEscaped(s)[i + 4].beyond]
      BY <2>9
    <3>2. CASE i + 4 = n
      <4>1. TakesTheQuote(s)
        BY <1>1, <2>9, <3>2 DEF TakesTheQuote
      <4>2. ~UnEscaped(s)[i].beyond
        BY <1>2, <2>1, <3>1, <3>2
      <4> QED
        BY <4>1, <4>2 DEF EndsWithQuote
    <3>3. CASE i + 4 # n
      <4>1. i + 4 \in i + 1 .. n - 1
        BY <1>1, <2>9, <3>3
      <4> QED
        BY <2>1, <2>2, <2>4, <3>1, <4>1
    <3> QED
      BY <3>2, <3>3
  <2>10. ~(i < n - 1 /\ s[i + 1] = "\\" /\ s[i + 2] = "0" /\ n < 4)
    <3>1. SUFFICES ASSUME i < n - 1, s[i + 1] = "\\", s[i + 2] = "0", n < 4
                   PROVE  FALSE
      OBVIOUS
    <3>2. i # 0
      <4>1. i = 0 => s[i + 1] = Quote
        BY <1>1
      <4> QED
        BY <3>1, <4>1 DEF Quote
    <3>3. i + 2 # n
      BY <1>1, <3>1 DEF Quote
    <3> QED
      BY <1>1, <3>1, <3>2, <3>3
  <2>11. CASE /\ i < n - 1
              /\ Unfolded(s, UnEscaped(s), i) = [text |-> <<>> \o UnEscaped(s)[i + 1].text,
                                                 beyond |-> UnEscaped(s)[i + 1].beyond]
    <3>1. i + 1 \in i + 1 .. n - 1
      BY <1>1, <2>11
    <3> QED
      BY <2>1, <2>2, <2>3, <2>11, <3>1
  <2>12. i # n /\ i < n
    BY <1>1
  <2> QED
    BY <2>1, <2>12, UnfoldedCases, <2>7, <2>8, <2>9, <2>10, <2>11
<1>4. n \in S
  BY <1>1
<1>5. ASSUME NEW i \in 0 .. n - 1, \A j \in i + 1 .. n : j \in S PROVE i \in S
  BY <1>1, <1>3, <1>5
<1>6. \A i \in 0 .. n : i \in S
  <2> HIDE DEF S, n
  <2> QED
    BY <1>1, <1>4, <1>5, Downwards
<1> QED
  BY <1>1, <1>6

\* A literal between quotes is a text between quotes after unEscape, and unEscape
\* reads nothing past its end, unless an octal escape takes the last quote.
LEMMA QuotesStay ==
  ASSUME NEW s \in Seq(Characters), Len(s) >= 2, s[1] = Quote, s[Len(s)] = Quote
  PROVE  LET t == unEscape(s).text
         IN /\ ~unEscape(s).beyond
            /\ Len(t) >= 1 /\ t[1] = Quote
            /\ (Len(t) >= 2 /\ t[Len(t)] = Quote) \/ TakesTheQuote(s)
<1>1. 0 \in 0 .. Len(s) /\ 1 \in 0 .. Len(s) - 1 /\ 1 \in 0 .. Len(s)
  OBVIOUS
<1>2. UnEscaped(s)[0] = [text |-> <<s[1]>> \o UnEscaped(s)[1].text,
                         beyond |-> UnEscaped(s)[1].beyond]
  <2>1. UnEscaped(s)[0] = Unfolded(s, UnEscaped(s), 0)
    BY <1>1, UnEscapedUnfolds
  <2>2. 0 # Len(s) /\ 0 + 1 = 1
    OBVIOUS
  <2>3. s[0 + 1] # "\\"
    <3>1. Quote # "\\"
      BY DEF Quote
    <3> QED
      BY <2>2, <3>1
  <2> QED
    BY <2>1, <2>2, <2>3 DEF Unfolded
<1>3. PICK t \in Seq(Characters \cup {"#"}) : t = UnEscaped(s)[1].text
  BY <1>1, UnEscapedIsText DEF Unescaped
<1>4. EndsWithQuote(s, UnEscaped(s)[1])
  BY <1>1, QuoteStays
<1>5. unEscape(s) = UnEscaped(s)[0]
  BY DEF unEscape
<1>6. PICK u : u = <<Quote>> \o t
  OBVIOUS
<1>7. Len(u) = Len(t) + 1 /\ u[1] = Quote /\ \A i \in 1 .. Len(t) : u[i + 1] = t[i]
  BY <1>3, <1>6
<1>8. unEscape(s).text = u /\ unEscape(s).beyond = UnEscaped(s)[1].beyond
  BY <1>2, <1>3, <1>5, <1>6
<1>9. (Len(t) >= 1 /\ t[Len(t)] = Quote) \/ TakesTheQuote(s)
  BY <1>3, <1>4 DEF EndsWithQuote
<1>10. Len(u) >= 1 /\ ((Len(u) >= 2 /\ u[Len(u)] = Quote) \/ TakesTheQuote(s))
  <2>1. Len(t) >= 1 => u[Len(t) + 1] = t[Len(t)]
    BY <1>3, <1>7
  <2> QED
    BY <1>3, <1>7, <1>9, <2>1
<1> QED
  BY <1>4, <1>7, <1>8, <1>10 DEF EndsWithQuote

-----------------------------------------------------------------------------
\* The new lines between two positions are finitely many.
LEMMA LinesType ==
  ASSUME NEW p \in Nat, NEW q \in Nat
  PROVE  /\ IsFiniteSet({r \in p .. q - 1 : CharAt(r) = "\n"})
         /\ Lines(p, q) \in Nat
<1>1. IsFiniteSet(p .. q - 1)
  BY FS_Interval
<1>2. {r \in p .. q - 1 : CharAt(r) = "\n"} \subseteq p .. q - 1
  OBVIOUS
<1>3. IsFiniteSet({r \in p .. q - 1 : CharAt(r) = "\n"})
  <2> HIDE DEF CharAt
  <2> QED
    BY <1>1, <1>2, FS_Subset
<1> QED
  BY <1>3, FS_CardinalityType DEF Lines

\* The new lines of a text are those of its parts.
LEMMA LinesAdd ==
  ASSUME NEW p \in Nat, NEW q \in Nat, NEW s \in Nat, p <= q, q <= s
  PROVE  Lines(p, s) = Lines(p, q) + Lines(q, s)
<1> DEFINE L(a, b) == {r \in a .. b - 1 : CharAt(r) = "\n"}
<1>1. L(p, s) = L(p, q) \cup L(q, s) /\ L(p, q) \cap L(q, s) = {}
  OBVIOUS
<1>2. IsFiniteSet(L(p, q)) /\ IsFiniteSet(L(q, s))
  BY LinesType
<1>3. Cardinality(L(p, q)) \in Nat /\ Cardinality(L(q, s)) \in Nat
  <2> HIDE DEF L
  <2> QED
    BY <1>2, FS_CardinalityType
<1>4. Lines(p, s) = Cardinality(L(p, s)) /\ Lines(p, q) = Cardinality(L(p, q))
      /\ Lines(q, s) = Cardinality(L(q, s))
  BY DEF Lines
<1>5. Cardinality({}) = 0
  BY FS_EmptySet
<1>6. Cardinality(L(p, q) \cup L(q, s)) =
        Cardinality(L(p, q)) + Cardinality(L(q, s)) - Cardinality(L(p, q) \cap L(q, s))
  <2> HIDE DEF L
  <2> QED
    BY <1>2, FS_Union
<1> HIDE DEF L
<1>7. Cardinality(L(p, s)) =
        Cardinality(L(p, q)) + Cardinality(L(q, s)) - Cardinality({})
  BY <1>1, <1>6, Zenon
<1> QED
  BY <1>3, <1>4, <1>5, <1>7

\* A text without a new line has no lines to count.
LEMMA NoLines ==
  ASSUME NEW p \in Nat, NEW q \in Nat, \A r \in p .. q - 1 : CharAt(r) # "\n"
  PROVE  Lines(p, q) = 0
<1>1. {r \in p .. q - 1 : CharAt(r) = "\n"} = {}
  OBVIOUS
<1> QED
  BY <1>1, FS_EmptySet DEF Lines

\* The lines of one character.
LEMMA OneLine ==
  ASSUME NEW p \in Nat
  PROVE  Lines(p, p + 1) = IF CharAt(p) = "\n" THEN 1 ELSE 0
<1>1. p .. p + 1 - 1 = {p}
  OBVIOUS
<1>2. CASE CharAt(p) = "\n"
  <2>1. {r \in p .. p + 1 - 1 : CharAt(r) = "\n"} = {p}
    BY <1>1, <1>2
  <2>2. Lines(p, p + 1) = Cardinality({r \in p .. p + 1 - 1 : CharAt(r) = "\n"})
    BY DEF Lines
  <2>3. Lines(p, p + 1) = Cardinality({p})
    BY <2>1, <2>2
  <2> QED
    BY <1>2, <2>3, FS_Singleton
<1>3. CASE CharAt(p) # "\n"
  <2>1. \A r \in p .. p + 1 - 1 : CharAt(r) # "\n"
    BY <1>1, <1>3
  <2> QED
    BY <1>3, <2>1, NoLines
<1> QED
  BY <1>2, <1>3

-----------------------------------------------------------------------------
Signs == OneCharacter \cup {"|", "&"}

\* The kinds of characters by which nextToken branches have nothing in common.
LEMMA KindsDiffer ==
  /\ Letters \cap Digits = {} /\ Letters \cap Signs = {} /\ Digits \cap Signs = {}
  /\ "." \notin Digits /\ "e" \notin Digits /\ NUL \notin Blanks
  /\ NUL \notin Digits /\ NUL \notin Letters /\ NUL # "\n" /\ NUL # "."
  /\ "e" # "." /\ "-" \notin Digits /\ "+" \notin Digits
BY DEF Letters, Digits, Signs, OneCharacter, Blanks, NUL

\* An operator of two characters is made of signs.
LEMMA PairsAreSigns ==
  \A pair \in TwoCharacters : Len(pair) = 2 /\ pair[1] \in Signs /\ pair[2] \in Signs
<1> DEFINE C == {"=", "!", "+", "-", "/", "*", "|", "&", ":", "<", ">", "."}
<1>1. C \subseteq Signs
  BY DEF Signs, OneCharacter
<1>2. ASSUME NEW pair \in TwoCharacters
      PROVE  Len(pair) = 2 /\ pair[1] \in Signs /\ pair[2] \in Signs
  <2>1. PICK a \in C, b \in C : pair = <<a, b>>
    BY DEF TwoCharacters
  <2> QED
    BY <1>1, <2>1
<1> QED
  BY <1>2

\* What begins as a word, a number or an operator is one, if it is a lexeme.
LEMMA LexemesByFirst ==
  ASSUME NEW u \in Seq(Characters), IsLexeme(u)
  PROVE  /\ Len(u) > 0
         /\ u[1] \in Letters => IsWord(u)
         /\ u[1] \in Digits => IsInt(u) \/ IsDouble(u)
         /\ u[1] \in Signs => IsOperator(u) /\ Len(u) <= 2
<1>1. IsWord(u) => Len(u) > 0 /\ u[1] \in Letters
  BY DEF IsWord
<1>2. IsInt(u) => Len(u) > 0 /\ u[1] \in Digits
  BY DEF IsInt, AllIn
<1>3. IsDouble(u) => Len(u) > 0 /\ u[1] \in Digits
  <2>1. SUFFICES ASSUME IsDouble(u) PROVE Len(u) > 0 /\ u[1] \in Digits
    OBVIOUS
  <2>2. PICK i \in 2 .. Len(u) : AllIn(u, 1, i - 1, Digits)
    BY <2>1 DEF IsDouble
  <2>3. 1 \in 1 .. i - 1 /\ Len(u) > 0
    BY <2>2
  <2> QED
    BY <2>2, <2>3 DEF AllIn
<1>4. IsOperator(u) => Len(u) > 0 /\ Len(u) <= 2 /\ u[1] \in Signs
  <2>1. CASE u \in TwoCharacters
    BY <2>1, PairsAreSigns
  <2>2. CASE \E c \in OneCharacter : u = <<c>>
    <3>1. PICK c \in OneCharacter : u = <<c>>
      BY <2>2
    <3>2. Len(u) = 1 /\ u[1] = c
      BY <3>1
    <3> QED
      BY <3>1, <3>2 DEF Signs
  <2> QED
    BY <2>1, <2>2 DEF IsOperator
<1> QED
  BY <1>1, <1>2, <1>3, <1>4, KindsDiffer DEF IsLexeme

Longest(from, end) ==
  /\ IsLexeme(Text(from, end))
  /\ \A q \in end + 1 .. Len(input) :
       IsLexeme(Text(from, q)) =>
         IsInt(Text(from, end)) /\ Text(end, end + 2) = <<".", ".">>

\* readIdentifier reads the longest word.
LEMMA WordsAreLongest ==
  ASSUME IsText(input), NEW from \in Nat, CharAt(from) \in Letters
  PROVE  LET end == Past(from, Letters \cup Digits)
         IN end \in from + 1 .. Len(input) /\ Longest(from, end)
<1>1. from < Len(input) /\ Len(input) \in Nat
  BY CharAtFacts, KindsDiffer
<1>2. PICK end : end = Past(from, Letters \cup Digits)
  OBVIOUS
<1>3. /\ end \in from .. Len(input) /\ CharAt(end) \notin Letters \cup Digits
      /\ \A r \in from .. end - 1 : CharAt(r) \in Letters \cup Digits
  <2> DEFINE C == Letters \cup Digits
  <2>1. NUL \notin C
    BY KindsDiffer
  <2>2. end = Past(from, C)
    BY <1>2
  <2> HIDE DEF C
  <2>3. /\ end \in from .. Len(input) /\ CharAt(end) \notin C
        /\ \A r \in from .. end - 1 : CharAt(r) \in C
    BY <1>1, <2>1, <2>2, PastFacts
  <2> QED
    BY <2>3 DEF C
<1>4. end # from /\ end \in from + 1 .. Len(input)
  BY <1>1, <1>3
<1>5. IsWord(Text(from, end))
  <2> DEFINE t == Text(from, end)
  <2>1. t \in Seq(Characters) /\ Len(t) = end - from
        /\ \A i \in 1 .. end - from : t[i] = CharAt(from + i - 1)
    BY <1>3, TextFacts
  <2>2. t[1] \in Letters
    BY <1>4, <2>1
  <2>3. ASSUME NEW i \in 2 .. end - from PROVE t[i] \in Letters \cup Digits
    BY <1>3, <2>1
  <2> HIDE DEF t
  <2>4. Len(t) > 0 /\ Len(t) = end - from
    BY <1>4, <2>1
  <2>5. IsWord(t)
    BY <2>2, <2>3, <2>4 DEF IsWord, AllIn
  <2> QED
    BY <2>5 DEF t
<1>6. ASSUME NEW q \in end + 1 .. Len(input), IsLexeme(Text(from, q)) PROVE FALSE
  <2> DEFINE u == Text(from, q)
  <2>1. u \in Seq(Characters) /\ Len(u) = q - from
        /\ \A i \in 1 .. q - from : u[i] = CharAt(from + i - 1)
    <3>1. q \in Nat /\ from <= q /\ q <= Len(input)
      BY <1>1, <1>3
    <3> QED
      BY <3>1, TextFacts
  <2>2. u[1] \in Letters /\ u[end - from + 1] \notin Letters \cup Digits
    BY <1>3, <1>4, <2>1
  <2>3. end - from + 1 \in 2 .. Len(u)
    BY <1>4, <2>1
  <2> HIDE DEF u
  <2>4. IsWord(u)
    BY <1>6, <2>1, <2>2, LexemesByFirst DEF u
  <2> QED
    BY <2>2, <2>3, <2>4 DEF IsWord, AllIn
<1> QED
  BY <1>2, <1>4, <1>5, <1>6 DEF Longest, IsLexeme

\* The first character of a text.
LEMMA TextBegins ==
  ASSUME IsText(input), NEW p \in Nat, NEW q \in Nat, p < q, q <= Len(input)
  PROVE  /\ Text(p, q) \in Seq(Characters) /\ Len(Text(p, q)) = q - p
         /\ Text(p, q)[1] = CharAt(p)
<1>1. Text(p, q) \in Seq(Characters) /\ Len(Text(p, q)) = q - p
      /\ \A i \in 1 .. q - p : Text(p, q)[i] = CharAt(p + i - 1)
  <2>1. p <= q
    OBVIOUS
  <2> QED
    BY <2>1, TextFacts
<1>2. 1 \in 1 .. q - p /\ p + 1 - 1 = p
  OBVIOUS
<1> QED
  BY <1>1, <1>2

\* Two characters of the input, or fewer at its end.
LEMMA TwoOf ==
  ASSUME IsText(input), NEW p \in Nat, p <= Len(input)
  PROVE  /\ Len(Text(p, p + 2)) = 2 <=> p + 2 <= Len(input)
         /\ p + 2 <= Len(input) => Text(p, p + 2) = <<CharAt(p), CharAt(p + 1)>>
<1>1. Len(input) \in Nat
  BY DEF IsText
<1>2. CASE p + 2 <= Len(input)
  <2>1. Text(p, p + 2) \in Seq(Characters) /\ Len(Text(p, p + 2)) = 2
        /\ \A i \in 1 .. 2 : Text(p, p + 2)[i] = CharAt(p + i - 1)
    <3>1. PICK q \in Nat : q = p + 2
      OBVIOUS
    <3>2. p <= q /\ q <= Len(input) /\ q - p = 2
      BY <1>2, <3>1
    <3>3. Text(p, q) \in Seq(Characters) /\ Len(Text(p, q)) = q - p
          /\ \A i \in 1 .. q - p : Text(p, q)[i] = CharAt(p + i - 1)
      BY <3>2, TextFacts
    <3> QED
      BY <3>1, <3>2, <3>3
  <2>2. Text(p, p + 2)[1] = CharAt(p) /\ Text(p, p + 2)[2] = CharAt(p + 1)
    <3>1. p + 1 - 1 = p /\ p + 2 - 1 = p + 1 /\ 1 \in 1 .. 2 /\ 2 \in 1 .. 2
      OBVIOUS
    <3> QED
      BY <2>1, <3>1
  <2> QED
    BY <1>2, <2>1, <2>2
<1>3. CASE ~(p + 2 <= Len(input))
  <2>1. Text(p, p + 2) = Text(p, Len(input))
    BY <1>1, <1>3, TextBeyond
  <2>2. Len(Text(p, Len(input))) = Len(input) - p
    <3>1. PICK q \in Nat : q = Len(input)
      BY <1>1
    <3>2. p <= q /\ q <= Len(input)
      BY <3>1
    <3>3. Len(Text(p, q)) = q - p
      BY <3>2, TextFacts
    <3> QED
      BY <3>1, <3>3
  <2> QED
    BY <1>1, <1>3, <2>1, <2>2
<1> QED
  BY <1>2, <1>3

\* No lexeme goes on after an operator of two characters.
LEMMA PairsAreLongest ==
  ASSUME IsText(input), NEW from \in Nat, from <= Len(input),
         Text(from, from + 2) \in TwoCharacters
  PROVE  from + 2 <= Len(input) /\ CharAt(from) \in Signs /\ CharAt(from + 1) \in Signs
         /\ Longest(from, from + 2)
<1>1. Len(input) \in Nat
  BY DEF IsText
<1>2. from + 2 <= Len(input)
  BY TwoOf, PairsAreSigns
<1>3. Text(from, from + 2)[1] = CharAt(from) /\ Text(from, from + 2)[2] = CharAt(from + 1)
  BY <1>2, TwoOf
<1>4. CharAt(from) \in Signs /\ CharAt(from + 1) \in Signs
  BY <1>3, PairsAreSigns
<1>5. IsLexeme(Text(from, from + 2))
  BY DEF IsLexeme, IsOperator
<1>6. ASSUME NEW q \in from + 2 + 1 .. Len(input), IsLexeme(Text(from, q)) PROVE FALSE
  <2>1. q \in Nat /\ from < q /\ q <= Len(input)
    BY <1>1
  <2>2. Text(from, q) \in Seq(Characters) /\ Len(Text(from, q)) = q - from
        /\ Text(from, q)[1] = CharAt(from)
    BY <2>1, TextBegins
  <2>3. Len(Text(from, q)) <= 2
    BY <1>4, <1>6, <2>2, LexemesByFirst
  <2> QED
    BY <1>1, <2>2, <2>3
<1> QED
  BY <1>2, <1>4, <1>5, <1>6 DEF Longest

\* An operator of one character is read only where none of two begins.
LEMMA SignsAreLongest ==
  ASSUME IsText(input), NEW from \in Nat, CharAt(from) \in OneCharacter,
         Text(from, from + 2) \notin TwoCharacters
  PROVE  from + 1 <= Len(input) /\ Text(from, from + 1) = <<CharAt(from)>>
         /\ Longest(from, from + 1)
<1>1. Len(input) \in Nat /\ from < Len(input)
  <2>1. NUL \notin OneCharacter
    BY DEF NUL, OneCharacter
  <2> QED
    BY <2>1, CharAtFacts
<1>2. Text(from, from + 1) = <<CharAt(from)>>
  <2>1. PICK q \in Nat : q = from + 1
    OBVIOUS
  <2>2. from < q /\ q <= Len(input) /\ q - from = 1
    BY <1>1, <2>1
  <2>3. Text(from, q) \in Seq(Characters) /\ Len(Text(from, q)) = q - from
        /\ Text(from, q)[1] = CharAt(from)
    BY <2>2, TextBegins
  <2>4. Text(from, q) = <<CharAt(from)>>
    BY <2>2, <2>3
  <2> QED
    BY <2>1, <2>4
<1>3. IsLexeme(Text(from, from + 1))
  BY <1>2 DEF IsLexeme, IsOperator
<1>4. ASSUME NEW q \in from + 1 + 1 .. Len(input), IsLexeme(Text(from, q)) PROVE FALSE
  <2>1. q \in Nat /\ from < q /\ q <= Len(input)
    BY <1>1
  <2>2. Text(from, q) \in Seq(Characters) /\ Len(Text(from, q)) = q - from
        /\ Text(from, q)[1] = CharAt(from)
    BY <2>1, TextBegins
  <2>3. Len(Text(from, q)) <= 2 /\ IsOperator(Text(from, q))
    BY <1>4, <2>2, LexemesByFirst DEF Signs
  <2>4. q = from + 2
    BY <1>1, <2>2, <2>3
  <2>5. ASSUME NEW c, Text(from, q) = <<c>> PROVE FALSE
    BY <2>2, <2>4, <2>5
  <2> QED
    BY <2>3, <2>4, <2>5 DEF IsOperator
<1> QED
  BY <1>1, <1>2, <1>3, <1>4 DEF Longest

-----------------------------------------------------------------------------
\* The characters of a number that starts at a position.
LEMMA NumberText ==
  ASSUME IsText(input), NEW from \in Nat, NEW q \in Nat, from <= q, q <= Len(input),
         NEW u, u = Text(from, q)
  PROVE  /\ u \in Seq(Characters)
         /\ Len(u) = q - from
         /\ \A r \in from .. q - 1 : u[r - from + 1] = CharAt(r)
<1>1. u \in Seq(Characters) /\ Len(u) = q - from
      /\ \A i \in 1 .. q - from : u[i] = CharAt(from + i - 1)
  BY TextFacts
<1>2. ASSUME NEW r \in from .. q - 1 PROVE u[r - from + 1] = CharAt(r)
  <2>1. r - from + 1 \in 1 .. q - from /\ from + (r - from + 1) - 1 = r
    OBVIOUS
  <2> QED
    BY <1>1, <2>1
<1> QED
  BY <1>1, <1>2

\* The digits before the point, or all of them.
LEMMA WholePart ==
  ASSUME IsText(input), NEW from \in Nat, CharAt(from) \in Digits,
         NEW whole, whole = Past(from, Digits)
  PROVE  /\ whole \in from + 1 .. Len(input) /\ CharAt(whole) \notin Digits
         /\ \A r \in from .. whole - 1 : CharAt(r) \in Digits
         /\ \A q \in whole + 1 .. Len(input) :
              LET u == Text(from, q)
              IN /\ ~IsInt(u)
                 /\ \A i \in 2 .. Len(u) :
                      AllIn(u, 1, i - 1, Digits) /\ u[i] = "." => i = whole - from + 1
                 /\ IsLexeme(u) => IsDouble(u)
<1>1. from < Len(input) /\ Len(input) \in Nat
  BY CharAtFacts, KindsDiffer
<1>2. /\ whole \in from .. Len(input) /\ CharAt(whole) \notin Digits
      /\ \A r \in from .. whole - 1 : CharAt(r) \in Digits
  <2>1. NUL \notin Digits
    BY KindsDiffer
  <2> QED
    BY <1>1, <2>1, PastFacts
<1>3. whole \in from + 1 .. Len(input)
  BY <1>1, <1>2
<1>4. ASSUME NEW q \in whole + 1 .. Len(input), NEW u, u = Text(from, q)
      PROVE  /\ ~IsInt(u)
             /\ \A i \in 2 .. Len(u) :
                  AllIn(u, 1, i - 1, Digits) /\ u[i] = "." => i = whole - from + 1
             /\ IsLexeme(u) => IsDouble(u)
  <2>1. q \in Nat /\ from <= q /\ q <= Len(input)
    BY <1>1, <1>3
  <2>2. u \in Seq(Characters) /\ Len(u) = q - from
        /\ \A r \in from .. q - 1 : u[r - from + 1] = CharAt(r)
    BY <1>4, <2>1, NumberText, ZenonT(60)
  <2> DEFINE k == whole - from + 1
  <2>3. k \in 2 .. Len(u) /\ u[k] = CharAt(whole)
    BY <1>1, <1>3, <2>1, <2>2
  <2>4. \A i \in 1 .. k - 1 : u[i] \in Digits
    <3>1. ASSUME NEW i \in 1 .. k - 1 PROVE u[i] \in Digits
      <4>1. i + from - 1 \in from .. whole - 1 /\ i + from - 1 \in from .. q - 1
            /\ (i + from - 1) - from + 1 = i
        BY <1>1, <1>3
      <4> QED
        BY <1>2, <2>2, <4>1
    <3> QED
      BY <3>1
  <2>5. u[k] \notin Digits
    BY <1>2, <2>3
  <2> HIDE DEF k
  <2>6. ~IsInt(u)
    BY <2>3, <2>5 DEF IsInt, AllIn
  <2>7. ASSUME NEW i \in 2 .. Len(u), AllIn(u, 1, i - 1, Digits), u[i] = "."
        PROVE  i = k
    <3>1. ~(k < i)
      BY <2>3, <2>5, <2>7 DEF AllIn
    <3>2. ~(i < k)
      <4>1. i < k => u[i] \in Digits
        BY <2>3, <2>4
      <4> QED
        BY <2>7, <4>1, KindsDiffer
    <3> QED
      BY <2>2, <2>3, <3>1, <3>2
  <2>8. u[1] \in Digits
    BY <2>3, <2>4
  <2> QED
    BY <2>2, <2>6, <2>7, <2>8, LexemesByFirst DEF k
<1> QED
  BY <1>2, <1>3, <1>4

\* A number that is read as an integer is the longest one, but for the range that
\* may follow it.
LEMMA IntegersAreLongest ==
  ASSUME IsText(input), NEW from \in Nat, CharAt(from) \in Digits,
         NEW whole, whole = Past(from, Digits),
         CharAt(whole) # "." \/ CharAt(whole + 1) = "."
  PROVE  whole \in from + 1 .. Len(input) /\ Longest(from, whole)
<1>1. Len(input) \in Nat
  BY DEF IsText
<1>2. /\ whole \in from + 1 .. Len(input)
      /\ \A r \in from .. whole - 1 : CharAt(r) \in Digits
  BY WholePart
<1>3. whole \in Nat /\ from <= whole /\ whole <= Len(input) /\ from < whole
  BY <1>1, <1>2
<1>4. IsInt(Text(from, whole))
  <2>0. PICK u : u = Text(from, whole)
    OBVIOUS
  <2>1. u \in Seq(Characters) /\ Len(u) = whole - from
        /\ \A r \in from .. whole - 1 : u[r - from + 1] = CharAt(r)
    BY <1>3, <2>0, NumberText, ZenonT(60)
  <2>2. ASSUME NEW i \in 1 .. Len(u) PROVE u[i] \in Digits
    <3>1. i + from - 1 \in from .. whole - 1 /\ (i + from - 1) - from + 1 = i
      BY <1>3, <2>1
    <3> QED
      BY <1>2, <2>1, <3>1
  <2>3. Len(u) > 0
    BY <1>3, <2>1
  <2>4. IsInt(u)
    BY <2>2, <2>3 DEF IsInt, AllIn
  <2> QED
    BY <2>0, <2>4
<1>5. ASSUME NEW q \in whole + 1 .. Len(input), IsLexeme(Text(from, q))
      PROVE  Text(whole, whole + 2) = <<".", ".">>
  <2>1. PICK u : u = Text(from, q)
    OBVIOUS
  <2>2. /\ \A i \in 2 .. Len(u) :
             AllIn(u, 1, i - 1, Digits) /\ u[i] = "." => i = whole - from + 1
        /\ IsDouble(u)
    BY <1>5, <2>1, WholePart
  <2>3. PICK i \in 2 .. Len(u) : AllIn(u, 1, i - 1, Digits) /\ u[i] = "."
    BY <2>2 DEF IsDouble
  <2>4. i = whole - from + 1
    BY <2>2, <2>3
  <2>5. q \in Nat /\ from <= q /\ q <= Len(input) /\ whole \in from .. q - 1
    BY <1>1, <1>3
  <2>6. u[whole - from + 1] = CharAt(whole)
    BY <2>1, <2>5, NumberText, ZenonT(60)
  <2>7. CharAt(whole) = "." /\ CharAt(whole + 1) = "."
    BY <2>3, <2>4, <2>6
  <2>8. whole + 1 < Len(input)
    <3>1. whole + 1 \in Nat /\ CharAt(whole + 1) # NUL
      BY <1>3, <2>7, KindsDiffer
    <3> QED
      BY <3>1, CharAtFacts
  <2>9. whole + 2 <= Len(input)
    BY <1>1, <1>3, <2>8
  <2> QED
    BY <1>3, <2>7, <2>9, TwoOf
<1> QED
  BY <1>2, <1>4, <1>5 DEF Longest, IsLexeme

\* The point, and the fraction.
LEMMA FractionPart ==
  ASSUME IsText(input), NEW from \in Nat, CharAt(from) \in Digits,
         NEW whole, whole = Past(from, Digits), CharAt(whole) = ".",
         NEW fraction, fraction = Past(whole + 1, Digits)
  PROVE  /\ from < whole /\ whole < fraction /\ fraction <= Len(input)
         /\ whole \in Nat /\ fraction \in Nat /\ Len(input) \in Nat
         /\ CharAt(fraction) \notin Digits
         /\ \A r \in from .. whole - 1 : CharAt(r) \in Digits
         /\ \A r \in whole + 1 .. fraction - 1 : CharAt(r) \in Digits
<1>1. Len(input) \in Nat
  BY DEF IsText
<1>2. /\ whole \in from + 1 .. Len(input)
      /\ \A r \in from .. whole - 1 : CharAt(r) \in Digits
  BY WholePart
<1>3. whole \in Nat /\ whole < Len(input) /\ from < whole
  <2>1. whole \in Nat /\ from < whole
    BY <1>1, <1>2
  <2>2. CharAt(whole) # NUL
    BY KindsDiffer
  <2> QED
    BY <2>1, <2>2, CharAtFacts
<1>4. /\ fraction \in whole + 1 .. Len(input) /\ CharAt(fraction) \notin Digits
      /\ \A r \in whole + 1 .. fraction - 1 : CharAt(r) \in Digits
  <2>1. PICK p \in Nat : p = whole + 1
    BY <1>3
  <2>2. p <= Len(input) /\ NUL \notin Digits
    BY <1>1, <1>3, <2>1, KindsDiffer
  <2>3. fraction = Past(p, Digits)
    BY <2>1
  <2>4. /\ fraction \in p .. Len(input) /\ CharAt(fraction) \notin Digits
        /\ \A r \in p .. fraction - 1 : CharAt(r) \in Digits
    BY <2>2, <2>3, PastFacts
  <2> QED
    BY <2>1, <2>4
<1>5. fraction \in Nat /\ whole < fraction /\ fraction <= Len(input)
  BY <1>1, <1>3, <1>4
<1> QED
  BY <1>1, <1>2, <1>3, <1>4, <1>5

\* A text that begins as a number with a point does so, however far it goes.
LEMMA FractionText ==
  ASSUME IsText(input), NEW from \in Nat, CharAt(from) \in Digits,
         NEW whole, whole = Past(from, Digits), CharAt(whole) = ".",
         NEW fraction, fraction = Past(whole + 1, Digits),
         NEW q \in fraction .. Len(input), NEW u, u = Text(from, q)
  PROVE  /\ u \in Seq(Characters) /\ Len(u) = q - from
         /\ whole - from + 1 \in 2 .. Len(u) /\ u[whole - from + 1] = "."
         /\ AllIn(u, 1, whole - from, Digits)
         /\ AllIn(u, whole - from + 2, fraction - from, Digits)
<1>1. /\ from < whole /\ whole < fraction /\ fraction <= Len(input)
      /\ whole \in Nat /\ fraction \in Nat /\ Len(input) \in Nat
      /\ \A r \in from .. whole - 1 : CharAt(r) \in Digits
      /\ \A r \in whole + 1 .. fraction - 1 : CharAt(r) \in Digits
  BY FractionPart
<1>2. q \in Nat /\ from <= q /\ q <= Len(input) /\ fraction <= q
  BY <1>1
<1>3. u \in Seq(Characters) /\ Len(u) = q - from
      /\ \A r \in from .. q - 1 : u[r - from + 1] = CharAt(r)
  BY <1>2, NumberText, ZenonT(60)
<1>4. whole \in from .. q - 1 /\ whole - from + 1 \in 2 .. Len(u)
  <2>1. Len(u) = q - from
    BY <1>3
  <2> QED
    BY <1>1, <1>2, <2>1
<1>5. ASSUME NEW i \in 1 .. whole - from PROVE u[i] \in Digits
  <2>1. i + from - 1 \in from .. whole - 1 /\ i + from - 1 \in from .. q - 1
        /\ (i + from - 1) - from + 1 = i
    BY <1>1, <1>2
  <2> QED
    BY <1>1, <1>3, <2>1
<1>6. ASSUME NEW i \in whole - from + 2 .. fraction - from PROVE u[i] \in Digits
  <2>1. i + from - 1 \in whole + 1 .. fraction - 1 /\ i + from - 1 \in from .. q - 1
        /\ (i + from - 1) - from + 1 = i
    BY <1>1, <1>2
  <2> QED
    BY <1>1, <1>3, <2>1
<1> QED
  BY <1>3, <1>4, <1>5, <1>6 DEF AllIn

\* Where a longer double goes on.
LEMMA FractionGoesOn ==
  ASSUME IsText(input), NEW from \in Nat, CharAt(from) \in Digits,
         NEW whole, whole = Past(from, Digits), CharAt(whole) = ".",
         NEW fraction, fraction = Past(whole + 1, Digits),
         NEW q \in fraction + 1 .. Len(input), NEW u, u = Text(from, q), IsLexeme(u)
  PROVE  /\ ~IsInt(u)
         /\ CharAt(fraction) = "e"
         /\ IsExponent(u, fraction - from + 1)
<1>1. /\ from < whole /\ whole < fraction /\ fraction <= Len(input)
      /\ whole \in Nat /\ fraction \in Nat /\ Len(input) \in Nat
      /\ CharAt(fraction) \notin Digits
  BY FractionPart
<1>2. /\ q \in fraction .. Len(input) /\ q \in whole + 1 .. Len(input) /\ q \in Nat
      /\ fraction < q
  BY <1>1
<1>3. u \in Seq(Characters) /\ Len(u) = q - from
      /\ \A r \in from .. q - 1 : u[r - from + 1] = CharAt(r)
  <2>1. from <= q /\ q <= Len(input)
    BY <1>1, <1>2
  <2> QED
    BY <1>2, <2>1, NumberText, ZenonT(60)
<1>3a. AllIn(u, whole - from + 2, fraction - from, Digits)
  BY <1>2, FractionText
<1>4. /\ ~IsInt(u) /\ IsDouble(u)
      /\ \A i \in 2 .. Len(u) :
           AllIn(u, 1, i - 1, Digits) /\ u[i] = "." => i = whole - from + 1
  BY <1>2, WholePart
<1>5. PICK i \in 2 .. Len(u) :
             \E j \in i .. Len(u) :
                /\ AllIn(u, 1, i - 1, Digits) /\ u[i] = "." /\ AllIn(u, i + 1, j, Digits)
                /\ j = Len(u) \/ IsExponent(u, j + 1)
  BY <1>4 DEF IsDouble
<1>6. PICK j \in i .. Len(u) : /\ AllIn(u, i + 1, j, Digits)
                               /\ j = Len(u) \/ IsExponent(u, j + 1)
  BY <1>5
<1>7. i = whole - from + 1
  BY <1>4, <1>5
<1> DEFINE k == fraction - from + 1
<1>8. Len(u) = q - from
  BY <1>3
<1>9. k \in Nat /\ i < k /\ k <= Len(u)
  <2>1. \A a \in Nat, b \in Nat, c \in Nat, d \in Nat :
           a < b /\ b < c /\ c < d =>
             c - a + 1 \in Nat /\ b - a + 1 < c - a + 1 /\ c - a + 1 <= d - a
    OBVIOUS
  <2>2. /\ fraction - from + 1 \in Nat
        /\ whole - from + 1 < fraction - from + 1
        /\ fraction - from + 1 <= q - from
    BY <1>1, <1>2, <2>1, Zenon
  <2> QED
    BY <1>7, <1>8, <2>2, Zenon
<1>10. u[k] = CharAt(fraction)
  <2>1. fraction \in from .. q - 1
    BY <1>1, <1>2
  <2> QED
    BY <1>3, <2>1
<1>11. u[k] \notin Digits
  BY <1>1, <1>10
<1>12. AllIn(u, i + 1, k - 1, Digits)
  <2>1. i + 1 = whole - from + 2 /\ k - 1 = fraction - from
    BY <1>1, <1>7
  <2> QED
    BY <1>3a, <2>1
<1> HIDE DEF k
<1>13. i \in Nat /\ j \in Nat /\ i <= j /\ j <= Len(u) /\ Len(u) \in Nat
  BY <1>3
<1>14. j < k
  <2>1. ~(k <= j)
    BY <1>5, <1>6, <1>9, <1>11, <1>13 DEF AllIn
  <2> QED
    BY <1>9, <1>13, <2>1
<1>15. IsExponent(u, j + 1) /\ u[j + 1] = "e"
  <2>1. j # Len(u)
    BY <1>9, <1>13, <1>14
  <2> QED
    BY <1>6, <2>1 DEF IsExponent
<1>16. j + 1 = k
  <2>1. ~(j + 1 < k)
    <3>1. j + 1 < k => j + 1 \in i + 1 .. k - 1
      BY <1>9, <1>13
    <3>2. j + 1 < k => u[j + 1] \in Digits
      BY <1>12, <3>1 DEF AllIn
    <3> QED
      BY <1>15, <3>2, KindsDiffer
  <2> QED
    BY <1>9, <1>13, <1>14, <2>1
<1> QED
  BY <1>4, <1>10, <1>15, <1>16 DEF k

\* Without an exponent a number ends with its fraction.
LEMMA FractionsAreLongest ==
  ASSUME IsText(input), NEW from \in Nat, CharAt(from) \in Digits,
         NEW whole, whole = Past(from, Digits), CharAt(whole) = ".",
         NEW fraction, fraction = Past(whole + 1, Digits), CharAt(fraction) # "e"
  PROVE  fraction \in from + 1 .. Len(input) /\ Longest(from, fraction)
<1>1. /\ from < whole /\ whole < fraction /\ fraction <= Len(input)
      /\ whole \in Nat /\ fraction \in Nat /\ Len(input) \in Nat
  BY FractionPart
<1>3. PICK u : u = Text(from, fraction)
  OBVIOUS
<1>4. /\ u \in Seq(Characters) /\ Len(u) = fraction - from
      /\ whole - from + 1 \in 2 .. Len(u) /\ u[whole - from + 1] = "."
      /\ AllIn(u, 1, whole - from, Digits)
      /\ AllIn(u, whole - from + 2, fraction - from, Digits)
  <2>1. fraction \in fraction .. Len(input)
    BY <1>1
  <2> QED
    BY <1>3, <2>1, FractionText
<1>5. IsDouble(u)
  <2> DEFINE i == whole - from + 1
             j == Len(u)
  <2>1. i \in 2 .. Len(u) /\ j \in i .. Len(u) /\ i - 1 = whole - from
        /\ i + 1 = whole - from + 2
    <3>1. Len(u) = fraction - from
      BY <1>4
    <3> QED
      BY <1>1, <3>1
  <2>2. AllIn(u, 1, i - 1, Digits) /\ u[i] = "." /\ AllIn(u, i + 1, j, Digits)
    BY <1>4, <2>1
  <2>3. j = Len(u)
    OBVIOUS
  <2> HIDE DEF i, j
  <2> QED
    BY <2>1, <2>2, <2>3 DEF IsDouble
<1>6. ASSUME NEW q \in fraction + 1 .. Len(input), IsLexeme(Text(from, q)) PROVE FALSE
  BY <1>6, FractionGoesOn
<1>7. fraction \in from + 1 .. Len(input)
  BY <1>1
<1> QED
  BY <1>3, <1>5, <1>6, <1>7 DEF Longest, IsLexeme

\* An exponent has two characters at least.
LEMMA ExponentIndices ==
  ASSUME NEW from \in Nat, NEW whole \in Nat, NEW fraction \in Nat, NEW exponent \in Nat,
         NEW end \in Nat, from < whole, whole < fraction, fraction < exponent,
         exponent < end, exponent <= fraction + 2
  PROVE  /\ fraction - from + 1 \in Nat /\ end - from \in Nat
         /\ exponent - from + 1 \in fraction - from + 1 + 1 .. end - from
         /\ \/ exponent - from + 1 = fraction - from + 1 + 1
            \/ exponent - from + 1 = fraction - from + 1 + 2
         /\ whole - from + 1 \in 2 .. end - from
         /\ fraction - from \in whole - from + 1 .. end - from
         /\ whole - from + 1 - 1 = whole - from /\ whole - from + 1 + 1 = whole - from + 2
         /\ end - from + 1 >= fraction - from + 1 + 2
OBVIOUS

\* With an exponent a number ends with the digits of that.
LEMMA ExponentsAreLongest ==
  ASSUME IsText(input), NEW from \in Nat, CharAt(from) \in Digits,
         NEW whole, whole = Past(from, Digits), CharAt(whole) = ".",
         NEW fraction, fraction = Past(whole + 1, Digits), CharAt(fraction) = "e",
         NEW exponent,
         \/ exponent = fraction + 1
         \/ exponent = fraction + 2 /\ CharAt(fraction + 1) \in {"-", "+"},
         CharAt(exponent) \in Digits,
         NEW end, end = Past(exponent, Digits)
  PROVE  end \in from + 1 .. Len(input) /\ Longest(from, end)
<1>1. /\ from < whole /\ whole < fraction /\ fraction <= Len(input)
      /\ whole \in Nat /\ fraction \in Nat /\ Len(input) \in Nat
  BY FractionPart
<1>3. exponent \in Nat /\ (exponent = fraction + 1 \/ exponent = fraction + 2)
  BY <1>1
<1>4. exponent < Len(input)
  BY <1>3, CharAtFacts, KindsDiffer
<1>5. /\ end \in exponent .. Len(input) /\ CharAt(end) \notin Digits
      /\ \A r \in exponent .. end - 1 : CharAt(r) \in Digits
  <2>1. NUL \notin Digits /\ exponent <= Len(input)
    BY <1>1, <1>3, <1>4, KindsDiffer
  <2> QED
    BY <1>3, <2>1, PastFacts
<1>6. end \in Nat /\ exponent < end /\ end <= Len(input)
  BY <1>1, <1>3, <1>5
<1>6a. /\ whole \in Nat /\ fraction \in Nat /\ exponent \in Nat /\ end \in Nat
       /\ from < whole /\ whole < fraction /\ fraction < exponent /\ exponent < end
       /\ exponent <= fraction + 2 /\ end <= Len(input) /\ Len(input) \in Nat
  BY <1>1, <1>3, <1>6
<1>7. PICK u : u = Text(from, end)
  OBVIOUS
<1>8. /\ u \in Seq(Characters) /\ Len(u) = end - from
      /\ whole - from + 1 \in 2 .. Len(u) /\ u[whole - from + 1] = "."
      /\ AllIn(u, 1, whole - from, Digits)
      /\ AllIn(u, whole - from + 2, fraction - from, Digits)
  <2>1. end \in fraction .. Len(input)
    BY <1>6a
  <2> QED
    BY <1>7, <2>1, FractionText
<1>9. Len(u) = end - from
  BY <1>8
<1>9a. \A r \in from .. end - 1 : u[r - from + 1] = CharAt(r)
  <2>1. from <= end /\ end <= Len(input)
    BY <1>6a
  <2> QED
    <3>1. /\ u \in Seq(Characters) /\ Len(u) = end - from
          /\ \A r \in from .. end - 1 : u[r - from + 1] = CharAt(r)
      BY <1>6, <1>7, <2>1, NumberText, ZenonT(60)
    <3> QED
      BY <3>1
<1>9b. /\ fraction - from + 1 \in Nat
       /\ exponent - from + 1 \in fraction - from + 1 + 1 .. end - from
       /\ \/ exponent - from + 1 = fraction - from + 1 + 1
          \/ exponent - from + 1 = fraction - from + 1 + 2
  <2>1. fraction - from + 1 \in Nat
    BY <1>6a
  <2>2. exponent = fraction + 1 \/ exponent = fraction + 2
    BY <1>3
  <2>3. exponent - from + 1 \in Int /\ end - from \in Int
    BY <1>6a
  <2>4. exponent - from + 1 <= end - from /\ fraction - from + 1 + 1 <= exponent - from + 1
    BY <1>6a
  <2>5. CASE exponent = fraction + 1
    BY <1>6a, <2>1, <2>3, <2>4, <2>5
  <2>6. CASE exponent = fraction + 2
    <3>1. exponent - from + 1 = fraction - from + 1 + 2
      BY <1>6a, <2>6
    <3>2. exponent - from + 1 \in fraction - from + 1 + 1 .. end - from
      BY <2>1, <2>3, <2>4
    <3> QED
      BY <2>1, <3>1, <3>2
  <2> QED
    BY <2>2, <2>5, <2>6
<1>9c. /\ whole - from + 1 \in 2 .. end - from
       /\ fraction - from \in whole - from + 1 .. end - from
       /\ whole - from + 1 - 1 = whole - from /\ whole - from + 1 + 1 = whole - from + 2
  BY <1>6a
<1>10. IsExponent(u, fraction - from + 1)
  <2> DEFINE k == fraction - from + 1
             first == exponent - from + 1
  <2>1. u[k] = "e"
    <3>1. fraction \in from .. end - 1
      BY <1>6a
    <3> QED
      BY <1>9a, <3>1
  <2>2. k \in Nat /\ first \in k + 1 .. Len(u) /\ (first = k + 1 \/ first = k + 2)
    BY <1>9, <1>9b
  <2>3. first = k + 2 => u[k + 1] \in {"-", "+"}
    <3>1. SUFFICES ASSUME first = k + 2 PROVE u[k + 1] \in {"-", "+"}
      OBVIOUS
    <3>2. exponent = fraction + 2 /\ CharAt(fraction + 1) \in {"-", "+"}
      <4>1. exponent # fraction + 1
        BY <1>6a, <3>1
      <4> QED
        BY <1>3, <4>1
    <3>3. u[k + 1] = CharAt(fraction + 1)
      <4>1. fraction + 1 \in from .. end - 1 /\ k + 1 = (fraction + 1) - from + 1
        BY <1>6a, <3>2
      <4> QED
        BY <1>9a, <4>1
    <3> QED
      BY <3>2, <3>3
  <2>4. ASSUME NEW i \in first .. Len(u) PROVE u[i] \in Digits
    <3>1. i + from - 1 \in exponent .. end - 1 /\ i + from - 1 \in from .. end - 1
          /\ (i + from - 1) - from + 1 = i
      BY <1>6a, <1>9
    <3> QED
      BY <1>5, <1>9a, <3>1
  <2> HIDE DEF k, first
  <2>5. AllIn(u, first, Len(u), Digits)
    BY <2>4 DEF AllIn
  <2>6. IsExponent(u, k)
    BY <2>1, <2>2, <2>3, <2>5 DEF IsExponent
  <2> QED
    BY <2>6 DEF k
<1>11. IsDouble(u)
  <2> DEFINE i == whole - from + 1
             j == fraction - from
  <2>1. i \in 2 .. Len(u)
    BY <1>8
  <2>2. j \in i .. Len(u)
    <3>1. j \in i .. end - from
      BY <1>9c
    <3> QED
      BY <1>9, <3>1
  <2>3. i - 1 = whole - from /\ i + 1 = whole - from + 2
    BY <1>6a
  <2>4. j + 1 = fraction - from + 1
    BY <1>6a
  <2>5. AllIn(u, 1, i - 1, Digits) /\ u[i] = "." /\ AllIn(u, i + 1, j, Digits)
    BY <1>8, <2>3
  <2>6. IsExponent(u, j + 1)
    BY <1>10, <2>4
  <2> HIDE DEF i, j
  <2> QED
    BY <2>1, <2>2, <2>5, <2>6 DEF IsDouble
<1>12. ASSUME NEW q \in end + 1 .. Len(input), IsLexeme(Text(from, q)) PROVE FALSE
  <2>1. PICK v : v = Text(from, q)
    OBVIOUS
  <2>2. q \in fraction + 1 .. Len(input) /\ q \in Nat /\ from <= q /\ q <= Len(input)
    BY <1>6a
  <2> DEFINE k == fraction - from + 1
             past == end - from + 1
  <2>3. IsExponent(v, k)
    BY <1>12, <2>1, <2>2, FractionGoesOn
  <2>4. Len(v) = q - from /\ \A r \in from .. q - 1 : v[r - from + 1] = CharAt(r)
    BY <2>1, <2>2, NumberText, ZenonT(60)
  <2>5. k \in Nat /\ past \in k + 2 .. Len(v)
    <3>1. Len(v) = q - from /\ end < q
      BY <1>6a, <2>4
    <3>2. k \in Nat /\ past >= k + 2
      <4>1. /\ fraction - from + 1 \in Nat
            /\ end - from + 1 >= fraction - from + 1 + 2
        BY <1>6a, ExponentIndices, Zenon
      <4> QED
        BY <4>1, Zenon
    <3>3. past \in Nat /\ past <= q - from
      <4>1. \A a \in Nat, b \in Nat, d \in Nat :
               a < b /\ b < d => b - a + 1 \in Nat /\ b - a + 1 <= d - a
        OBVIOUS
      <4>2. from < end
        BY <1>6a
      <4> QED
        BY <1>6a, <2>2, <3>1, <4>1, <4>2, ZenonT(30)
    <3> HIDE DEF k, past
    <3> QED
      BY <3>1, <3>2, <3>3
  <2>6. v[past] \notin Digits
    <3>1. end \in from .. q - 1
      BY <1>6a, <2>2
    <3> QED
      BY <1>5, <2>4, <3>1
  <2> HIDE DEF k, past
  <2>7. PICK first \in k + 1 .. Len(v) :
               (first = k + 1 \/ first = k + 2) /\ AllIn(v, first, Len(v), Digits)
    BY <2>3 DEF IsExponent
  <2>8. past \in first .. Len(v)
    BY <2>4, <2>5, <2>7
  <2> QED
    BY <2>6, <2>7, <2>8 DEF AllIn
<1>13. end \in from + 1 .. Len(input)
  BY <1>6a
<1> QED
  BY <1>7, <1>11, <1>12, <1>13 DEF Longest, IsLexeme

-----------------------------------------------------------------------------
Types == {"NOT_SET", "EOF", "ILLEGAL", "STRING", "COMMENT", "DOC", "SYMBOL", "IDENT",
          "INT", "DOUBLE"} \cup {pair[1] : pair \in tokenToKeyword}

Typing ==
  /\ IsText(input)
  /\ lexer \in [position : Nat, line : Nat]
  /\ token \in [type : Types, literal : Seq(Characters \cup {"#"}), line : Nat,
                from : Nat, beyond : BOOLEAN]
  /\ token.type # "EOF" => lexer.position <= Len(input)

\* A new lexer, on any text.
LEMMA InitTypes == Init => Typing
<1>1. SUFFICES ASSUME Init PROVE Typing
  OBVIOUS
<1>2. IsText(input)
  BY <1>1, InputsAreTexts DEF Init, IsText
<1>3. Len(input) \in Nat
  BY <1>2 DEF IsText
<1>4. <<>> \in Seq(Characters \cup {"#"})
  OBVIOUS
<1>5. lexer \in [position : Nat, line : Nat] /\ lexer.position = 0
  BY <1>1 DEF Init
<1>6. token \in [type : Types, literal : Seq(Characters \cup {"#"}), line : Nat,
                 from : Nat, beyond : BOOLEAN]
  <2>1. PICK type, t, no : type = "NOT_SET" /\ t = <<>> /\ no = FALSE
    OBVIOUS
  <2>2. type \in Types /\ t \in Seq(Characters \cup {"#"}) /\ no \in BOOLEAN
    <3>1. type \in Types
      BY <2>1 DEF Types
    <3>2. t \in Seq(Characters \cup {"#"})
      BY <1>4, <2>1, Zenon
    <3>3. no \in BOOLEAN
      BY <2>1
    <3> QED
      BY <3>1, <3>2, <3>3
  <2>3. token = [type |-> type, literal |-> t, line |-> 0, from |-> 0, beyond |-> no]
    BY <1>1, <2>1 DEF Init
  <2> QED
    BY <2>2, <2>3
<1>7. lexer.position <= Len(input)
  BY <1>3, <1>5
<1> QED
  BY <1>2, <1>5, <1>6, <1>7 DEF Typing

\* skipWhitespace skips blanks, all of them and nothing else.
LEMMA StartFacts ==
  ASSUME Typing
  PROVE  /\ Start \in Nat /\ Start <= Len(input) /\ Len(input) \in Nat
         /\ StartLine \in Nat
         /\ CharAt(Start) \notin Blanks /\ CharAt(Start) # "\n"
         /\ lexer.position <= Len(input) =>
              /\ lexer.position <= Start
              /\ \A r \in lexer.position .. Start - 1 : CharAt(r) \in Blanks
         /\ lexer.position > Len(input) => Start = Len(input)
         /\ CharAt(Start) # NUL => lexer.position <= Start /\ Start < Len(input)
<1>1. IsText(input) /\ Len(input) \in Nat /\ lexer.position \in Nat /\ lexer.line \in Nat
  BY DEF Typing, IsText
<1>2. NUL \notin Blanks /\ "\n" \in Blanks
  BY KindsDiffer DEF Blanks
<1>3. CASE lexer.position <= Len(input)
  <2>1. /\ Start \in lexer.position .. Len(input) /\ CharAt(Start) \notin Blanks
        /\ \A r \in lexer.position .. Start - 1 : CharAt(r) \in Blanks
    BY <1>1, <1>2, <1>3, PastFacts DEF Start
  <2>2. Start \in Nat
    BY <1>1, <2>1
  <2>3. StartLine \in Nat
    <3>1. Lines(lexer.position, Start) \in Nat
      BY <1>1, <2>2, LinesType
    <3> QED
      BY <1>1, <3>1 DEF StartLine
  <2>4. CharAt(Start) # NUL => Start < Len(input)
    BY <1>1, <2>2, CharAtFacts
  <2> QED
    BY <1>1, <1>2, <1>3, <2>1, <2>2, <2>3, <2>4
<1>4. CASE lexer.position > Len(input)
  <2>1. Start = Len(input)
    BY <1>1, <1>2, <1>4, PastFacts DEF Start
  <2>2. StartLine \in Nat
    <3>1. Lines(lexer.position, Start) \in Nat
      BY <1>1, <2>1, LinesType
    <3> QED
      BY <1>1, <3>1 DEF StartLine
  <2>3. CharAt(Start) = NUL
    BY <1>1, <2>1, CharAtFacts
  <2> QED
    BY <1>1, <1>2, <1>4, <2>1, <2>2, <2>3
<1> QED
  BY <1>1, <1>3, <1>4

\* A token that starts at the start and ends in its line counts what was skipped.
LEMMA InLine ==
  ASSUME Typing, lexer.position <= Start, NEW end \in Nat, Start <= end,
         \A r \in Start .. end - 1 : CharAt(r) # "\n"
  PROVE  StartLine - lexer.line = Lines(lexer.position, end)
<1>1. lexer.position \in Nat /\ Start \in Nat /\ lexer.line \in Nat
  BY StartFacts DEF Typing
<1>2. Lines(lexer.position, end) = Lines(lexer.position, Start) + Lines(Start, end)
  BY <1>1, LinesAdd
<1>3. Lines(Start, end) = 0
  BY <1>1, NoLines
<1>4. Lines(lexer.position, Start) \in Nat
  BY <1>1, LinesType
<1> QED
  BY <1>1, <1>2, <1>3, <1>4 DEF StartLine

\* What a call of Return does.
LEMMA Returned ==
  ASSUME Typing, NEW type \in Types, NEW literal \in Seq(Characters \cup {"#"}),
         NEW line \in Nat, NEW end \in Nat, NEW beyond \in BOOLEAN,
         Return(type, literal, line, end, beyond),
         type # "EOF" => end <= Len(input)
  PROVE  /\ input' = input /\ Typing'
         /\ token'.type = type /\ token'.literal = literal /\ token'.from = Start
         /\ token'.beyond = beyond
         /\ lexer'.position = end /\ lexer'.line = StartLine
<1>1. Start \in Nat /\ StartLine \in Nat
  BY StartFacts
<1>2. /\ input' = input
      /\ token' = [type |-> type, literal |-> literal, line |-> line, from |-> Start,
                   beyond |-> beyond]
      /\ lexer' = [lexer EXCEPT !.position = end, !.line = StartLine]
  BY DEF Return
<1>3. lexer' = [position |-> end, line |-> StartLine]
  BY <1>2 DEF Typing
<1>4. Typing'
  BY <1>1, <1>2, <1>3 DEF Typing, IsText
<1> QED
  BY <1>2, <1>3, <1>4

\* What every step establishes: the token is read from the start on, and ends
\* at the position.
Reads ==
  /\ input' = input /\ Typing'
  /\ lexer.position <= Start
  /\ token'.from = Start /\ lexer'.position > Start

\* A token with the longest text satisfies LongestMatch.
LEMMA LexemeIsLongest ==
  ASSUME input' = input, token'.from = Start, NEW end, lexer'.position = end,
         token'.literal = Text(Start, end), Longest(Start, end)
  PROVE  LongestMatch'
BY DEF LongestMatch, Longest, Text

\* LongestMatch says nothing of the other tokens.
LEMMA OtherTokens ==
  ASSUME token'.type \in {"EOF", "ILLEGAL", "STRING", "COMMENT", "DOC"}
  PROVE  LongestMatch'
BY DEF LongestMatch

\* A word, a number, an operator or a character that is none, in its line.
LEMMA ReadInLine ==
  ASSUME Typing, NEW type \in Types \ {"COMMENT", "DOC"},
         NEW literal \in Seq(Characters \cup {"#"}),
         NEW line \in Nat, NEW end \in Nat, Start < end, Start <= end,
         end <= Len(input), Start < Len(input),
         Return(type, literal, line, end, FALSE),
         CharAt(Start) # Quote,
         \A r \in Start .. end - 1 : CharAt(r) # "\n"
  PROVE  Reads /\ LinesFollow
<1>1. Start \in Nat /\ Len(input) \in Nat
  BY StartFacts
<1>3. lexer.position <= Start
  <2>1. CharAt(Start) # NUL
    BY <1>1, CharAtFacts DEF Typing
  <2> QED
    BY <2>1, StartFacts
<1>3a. type \in Types /\ type \notin {"COMMENT", "DOC"} /\ (type # "EOF" => end <= Len(input))
      /\ FALSE \in BOOLEAN
  OBVIOUS
<1>4. /\ input' = input /\ Typing' /\ token'.type = type /\ token'.from = Start
      /\ lexer'.position = end /\ lexer'.line = StartLine
  BY <1>3a, Returned
<1>5. StartLine - lexer.line = Lines(lexer.position, end)
  BY <1>3, InLine
<1>6. LinesFollow
  <2>1. lexer'.line - lexer.line = Lines(lexer.position, lexer'.position)
    BY <1>4, <1>5
  <2>2. token'.type \notin {"COMMENT", "DOC"} /\ CharAt(token'.from) # Quote
    BY <1>3a, <1>4
  <2> QED
    BY <2>1, <2>2, Zenon DEF LinesFollow, Quote
<1> QED
  BY <1>3, <1>4, <1>6 DEF Reads

\* The lines of a token that goes over several.
LEMMA LinesPassed ==
  ASSUME Typing, lexer.position <= Start, NEW end \in Nat, Start <= end
  PROVE  /\ Lines(lexer.position, end) = (StartLine - lexer.line) + Lines(Start, end)
         /\ Lines(Start, end) \in Nat /\ StartLine - lexer.line \in Nat
<1>1. lexer.position \in Nat /\ Start \in Nat /\ lexer.line \in Nat
  BY StartFacts DEF Typing
<1>2. Lines(lexer.position, end) = Lines(lexer.position, Start) + Lines(Start, end)
  BY <1>1, LinesAdd
<1>3. Lines(lexer.position, Start) \in Nat /\ Lines(Start, end) \in Nat
  BY <1>1, LinesType
<1> QED
  BY <1>1, <1>2, <1>3 DEF StartLine

\* Where a comment ends, whose second character is no new line.
LEMMA LineEnds ==
  ASSUME Typing, Start + 2 <= Len(input), CharAt(Start + 1) # "\n"
  PROVE  /\ EndOfLine \in Start + 1 .. Len(input) - 1
         /\ \A r \in Start .. EndOfLine - 1 : CharAt(r) # "\n"
         /\ CharAt(EndOfLine) # "\n" => EndOfLine + 1 = Len(input)
<1>1. IsText(input) /\ Start \in Nat /\ Len(input) \in Nat /\ CharAt(Start) # "\n"
  BY StartFacts DEF Typing
<1>2. PICK last : last = Before(Start, {"\n"})
  OBVIOUS
<1>3. /\ last \in Start .. Len(input) - 1
      /\ CharAt(last + 1) \in {"\n"} \cup {NUL}
      /\ \A r \in Start .. last - 1 : CharAt(r + 1) \notin {"\n"} \cup {NUL}
  BY <1>1, <1>2, BeforeFacts
<1>4. EndOfLine = IF CharAt(last + 1) = "\n" THEN last + 1 ELSE last
  BY <1>2 DEF EndOfLine
<1>5. ASSUME NEW r \in Start .. last PROVE CharAt(r) # "\n"
  <2>1. CASE r = Start
    BY <1>1, <2>1
  <2>2. CASE r # Start
    <3>1. r - 1 \in Start .. last - 1 /\ (r - 1) + 1 = r
      BY <1>1, <1>3, <2>2
    <3> QED
      BY <1>3, <3>1
  <2> QED
    BY <2>1, <2>2
<1>6. last # Start
  <2>1. CharAt(Start + 1) # NUL
    <3>1. Start + 1 \in Nat /\ Start + 1 < Len(input)
      BY <1>1
    <3> QED
      BY <1>1, <3>1, CharAtFacts
  <2> QED
    BY <1>3, <2>1
<1>7. CASE CharAt(last + 1) = "\n"
  <2>1. last + 1 \in Nat /\ CharAt(last + 1) # NUL
    BY <1>1, <1>3, <1>7, KindsDiffer
  <2>2. last + 1 < Len(input)
    BY <1>1, <2>1, CharAtFacts
  <2>3. EndOfLine = last + 1
    BY <1>4, <1>7
  <2>4. EndOfLine \in Start + 1 .. Len(input) - 1
    BY <1>1, <1>3, <1>6, <2>2, <2>3
  <2>5. \A r \in Start .. EndOfLine - 1 : r \in Start .. last
    BY <1>1, <1>3, <2>3
  <2> QED
    BY <1>5, <1>7, <2>3, <2>4, <2>5
<1>8. CASE CharAt(last + 1) # "\n"
  <2>1. last + 1 \in Nat /\ CharAt(last + 1) = NUL
    BY <1>1, <1>3, <1>8
  <2>2. ~(last + 1 < Len(input))
    BY <1>1, <2>1, CharAtFacts
  <2>3. EndOfLine = last
    BY <1>4, <1>8
  <2>4. EndOfLine \in Start + 1 .. Len(input) - 1 /\ EndOfLine + 1 = Len(input)
    BY <1>1, <1>3, <1>6, <2>2, <2>3
  <2>5. \A r \in Start .. EndOfLine - 1 : r \in Start .. last
    BY <1>1, <1>3, <2>3
  <2> QED
    BY <1>5, <2>4, <2>5
<1> QED
  BY <1>7, <1>8

-----------------------------------------------------------------------------
ReadRight == Reads /\ LongestMatch' /\ StringsKeepTheirQuotes' /\ LinesFollow

\* Reading an operator.
LEMMA SymbolStep ==
  ASSUME Typing, Operator
  PROVE  ReadRight
<1>1. IsText(input) /\ Start \in Nat /\ Len(input) \in Nat /\ Start <= Len(input)
      /\ StartLine \in Nat
  BY StartFacts DEF Typing
<1>2. "SYMBOL" \in Types \ {"COMMENT", "DOC"} /\ FALSE \in BOOLEAN
  BY DEF Types
<1>3. \A c \in Signs : c # "\n" /\ c # Quote
  BY DEF Signs, OneCharacter, Quote
<1>4. CASE Text(Start, Start + 2) \in TwoCharacters
  <2>1. Return("SYMBOL", Text(Start, Start + 2), StartLine, Start + 2, FALSE)
    BY <1>4 DEF Operator
  <2>2. /\ Start + 2 <= Len(input) /\ CharAt(Start) \in Signs
        /\ CharAt(Start + 1) \in Signs /\ Longest(Start, Start + 2)
    BY <1>1, <1>4, PairsAreLongest
  <2>3. PICK end : end = Start + 2
    OBVIOUS
  <2>4. end \in Nat /\ Start < end /\ Start <= end /\ end <= Len(input) /\ Start < Len(input)
    BY <1>1, <2>2, <2>3
  <2>5. Text(Start, end) \in Seq(Characters)
    BY <1>1, <2>4, TextFacts
  <2>6. Text(Start, end) \in Seq(Characters \cup {"#"})
    BY <2>5
  <2>7. ASSUME NEW r \in Start .. end - 1 PROVE CharAt(r) # "\n"
    <3>1. r = Start \/ r = Start + 1
      BY <1>1, <2>3
    <3> QED
      BY <1>3, <2>2, <3>1
  <2>8. Return("SYMBOL", Text(Start, end), StartLine, end, FALSE)
    BY <2>1, <2>3
  <2>9. Reads /\ LinesFollow
    BY <1>1, <1>2, <1>3, <2>2, <2>4, <2>6, <2>7, <2>8, ReadInLine
  <2>10. /\ input' = input /\ token'.type = "SYMBOL" /\ token'.from = Start
         /\ token'.literal = Text(Start, end) /\ lexer'.position = end
    BY <1>1, <1>2, <2>4, <2>6, <2>8, Returned
  <2>11. LongestMatch'
    BY <2>2, <2>3, <2>10, LexemeIsLongest
  <2> QED
    BY <2>9, <2>10, <2>11 DEF ReadRight, StringsKeepTheirQuotes
<1>5. CASE Text(Start, Start + 2) \notin TwoCharacters
  <2>1. /\ CharAt(Start) \in OneCharacter
        /\ Return("SYMBOL", <<CharAt(Start)>>, StartLine, Start + 1, FALSE)
    BY <1>5 DEF Operator
  <2>2. /\ Start + 1 <= Len(input) /\ Text(Start, Start + 1) = <<CharAt(Start)>>
        /\ Longest(Start, Start + 1)
    BY <1>1, <1>5, <2>1, SignsAreLongest
  <2>3. PICK end : end = Start + 1
    OBVIOUS
  <2>4. end \in Nat /\ Start < end /\ Start <= end /\ end <= Len(input) /\ Start < Len(input)
    BY <1>1, <2>2, <2>3
  <2>5. Text(Start, end) \in Seq(Characters)
    BY <1>1, <2>4, TextFacts
  <2>6. Text(Start, end) \in Seq(Characters \cup {"#"})
    BY <2>5
  <2>7. CharAt(Start) \in Signs
    BY <2>1 DEF Signs
  <2>8. ASSUME NEW r \in Start .. end - 1 PROVE CharAt(r) # "\n"
    <3>1. r = Start
      BY <1>1, <2>3
    <3> QED
      BY <1>3, <2>7, <3>1
  <2>9. Return("SYMBOL", Text(Start, end), StartLine, end, FALSE)
    BY <2>1, <2>2, <2>3
  <2>10. Reads /\ LinesFollow
    BY <1>1, <1>2, <1>3, <2>4, <2>6, <2>7, <2>8, <2>9, ReadInLine
  <2>11. /\ input' = input /\ token'.type = "SYMBOL" /\ token'.from = Start
         /\ token'.literal = Text(Start, end) /\ lexer'.position = end
    BY <1>1, <1>2, <2>4, <2>6, <2>9, Returned
  <2>12. LongestMatch'
    BY <2>2, <2>3, <2>11, LexemeIsLongest
  <2> QED
    BY <2>10, <2>11, <2>12 DEF ReadRight, StringsKeepTheirQuotes
<1> QED
  BY <1>4, <1>5

\* Reading a character that starts no token.
LEMMA IllegalStep ==
  ASSUME Typing, Illegal
  PROVE  ReadRight
<1>1. IsText(input) /\ Start \in Nat /\ Len(input) \in Nat /\ StartLine \in Nat
      /\ CharAt(Start) # "\n"
  BY StartFacts DEF Typing
<1>2. "ILLEGAL" \in Types \ {"COMMENT", "DOC"} /\ FALSE \in BOOLEAN
  BY DEF Types
<1>3. /\ CharAt(Start) # Quote /\ CharAt(Start) # NUL
      /\ Return("ILLEGAL", <<CharAt(Start)>>, StartLine, Start + 1, FALSE)
  BY Zenon DEF Illegal, Quote
<1>4. Start < Len(input) /\ CharAt(Start) \in Characters
  BY <1>1, <1>3, CharAtFacts
<1>5. PICK end : end = Start + 1
  OBVIOUS
<1>6. end \in Nat /\ Start < end /\ Start <= end /\ end <= Len(input)
  BY <1>1, <1>4, <1>5
<1>7. <<CharAt(Start)>> \in Seq(Characters \cup {"#"})
  BY <1>4
<1>8. ASSUME NEW r \in Start .. end - 1 PROVE CharAt(r) # "\n"
  <2>1. r = Start
    BY <1>1, <1>5
  <2> QED
    BY <1>1, <2>1
<1>9. Return("ILLEGAL", <<CharAt(Start)>>, StartLine, end, FALSE)
  BY <1>3, <1>5
<1>10. Reads /\ LinesFollow
  BY <1>1, <1>2, <1>3, <1>4, <1>6, <1>7, <1>8, <1>9, ReadInLine
<1>11. token'.type = "ILLEGAL"
  BY <1>1, <1>2, <1>6, <1>7, <1>9, Returned
<1> QED
  BY <1>10, <1>11, OtherTokens DEF ReadRight, StringsKeepTheirQuotes

\* The sign of a comment or of a documentation line is in the input.
LEMMA SignIsRead ==
  ASSUME Typing, Text(Start, Start + 2) \in {CommentSign, DocSign}
  PROVE  /\ Start + 2 <= Len(input) /\ CharAt(Start + 1) # "\n"
         /\ CharAt(Start) # "\"" /\ lexer.position <= Start
<1>1. IsText(input) /\ Start \in Nat /\ Len(input) \in Nat /\ Start <= Len(input)
  BY StartFacts DEF Typing
<1>2. Len(Text(Start, Start + 2)) = 2
  BY DEF CommentSign, DocSign
<1>3. Start + 2 <= Len(input) /\ Text(Start, Start + 2) = <<CharAt(Start), CharAt(Start + 1)>>
  BY <1>1, <1>2, TwoOf
<1>4. CharAt(Start) = "/" /\ CharAt(Start + 1) \in {"/", "!"}
  BY <1>3 DEF CommentSign, DocSign
<1>5. CharAt(Start) # NUL
  BY <1>4 DEF NUL
<1>6. lexer.position <= Start
  BY <1>5, StartFacts
<1> QED
  BY <1>3, <1>4, <1>6

\* Reading a comment.
LEMMA CommentStep ==
  ASSUME Typing, Comment
  PROVE  ReadRight
<1>1. IsText(input) /\ Start \in Nat /\ Len(input) \in Nat /\ StartLine \in Nat
  BY StartFacts DEF Typing
<1>2. /\ Start + 2 <= Len(input) /\ CharAt(Start + 1) # "\n" /\ lexer.position <= Start
  BY SignIsRead DEF Comment
<1>3. PICK end : end = EndOfLine
  OBVIOUS
<1>4. /\ end \in Start + 1 .. Len(input) - 1
      /\ \A r \in Start .. end - 1 : CharAt(r) # "\n"
      /\ CharAt(end) # "\n" => end + 1 = Len(input)
  BY <1>2, <1>3, LineEnds
<1>5. end \in Nat /\ Start <= end /\ end <= Len(input) /\ end + 1 <= Len(input)
      /\ end + 1 > Start /\ Start <= end + 1 /\ end + 1 \in Nat /\ end <= end + 1
  BY <1>1, <1>4
<1>6. PICK u \in Seq(Characters \cup {"#"}) : u = Text(Start, end)
  <2>1. Text(Start, end) \in Seq(Characters)
    BY <1>1, <1>5, TextFacts
  <2>2. Text(Start, end) \in Seq(Characters \cup {"#"})
    BY <2>1
  <2> QED
    BY <2>2
<1>7. /\ token' = [type |-> "COMMENT", literal |-> u, line |-> 0, from |-> Start,
                   beyond |-> FALSE]
      /\ lexer' = [position |-> end + 1, line |-> StartLine + 1]
      /\ input' = input
  BY <1>3, <1>6 DEF Comment
<1>8. Typing'
  <2>1. lexer' \in [position : Nat, line : Nat]
    BY <1>1, <1>5, <1>7
  <2>2. token' \in [type : Types, literal : Seq(Characters \cup {"#"}), line : Nat,
                    from : Nat, beyond : BOOLEAN]
    <3>1. PICK type \in Types : type = "COMMENT"
      BY DEF Types
    <3>2. token' = [type |-> type, literal |-> u, line |-> 0, from |-> Start,
                    beyond |-> FALSE]
      BY <1>7, <3>1
    <3> QED
      BY <1>1, <3>2
  <2>3. lexer'.position <= Len(input)
    BY <1>5, <1>7
  <2> QED
    BY <1>1, <1>7, <2>1, <2>2, <2>3 DEF Typing, IsText
<1>9. /\ token'.type = "COMMENT" /\ token'.from = Start
      /\ lexer'.position = end + 1 /\ lexer'.line = StartLine + 1
  BY <1>7
<1>10. Reads
  BY <1>2, <1>5, <1>7, <1>8, <1>9 DEF Reads
<1>11. LinesFollow
  <2>1. Lines(Start, end) = 0
    BY <1>1, <1>4, <1>5, NoLines
  <2>2. Lines(end, end + 1) = IF CharAt(end) = "\n" THEN 1 ELSE 0
    BY <1>5, OneLine
  <2>3. Lines(Start, end + 1) = Lines(Start, end) + Lines(end, end + 1)
    BY <1>1, <1>5, LinesAdd
  <2>4. /\ Lines(lexer.position, end + 1) = (StartLine - lexer.line) + Lines(Start, end + 1)
        /\ StartLine - lexer.line \in Nat
    BY <1>2, <1>5, LinesPassed
  <2>5. PICK passed : passed = Lines(lexer.position, end + 1)
    OBVIOUS
  <2>6. PICK counted : counted = lexer'.line - lexer.line
    OBVIOUS
  <2>7. lexer.line \in Nat
    BY DEF Typing
  <2>8. counted = (StartLine - lexer.line) + 1
    BY <1>1, <1>9, <2>6, <2>7
  <2>9. passed = (StartLine - lexer.line) + Lines(end, end + 1)
    BY <2>1, <2>2, <2>3, <2>4, <2>5
  <2>10. CharAt(end) = "\n" => counted = passed
    BY <2>2, <2>8, <2>9
  <2>11. CharAt(end) # "\n" => counted = passed + 1
    BY <2>2, <2>4, <2>8, <2>9
  <2>12. IF lexer'.position = Len(input) THEN counted \in {passed, passed + 1}
         ELSE counted = passed
    BY <1>4, <1>9, <2>10, <2>11
  <2>13. CharAt(token'.from) # "\""
    BY <1>9, SignIsRead DEF Comment
  <2> QED
    BY <1>9, <2>5, <2>6, <2>12, <2>13 DEF LinesFollow
<1> QED
  BY <1>9, <1>10, <1>11, OtherTokens DEF ReadRight, StringsKeepTheirQuotes

\* Reading a documentation line.
LEMMA DocStep ==
  ASSUME Typing, Doc
  PROVE  ReadRight
<1>1. IsText(input) /\ Start \in Nat /\ Len(input) \in Nat /\ StartLine \in Nat
  BY StartFacts DEF Typing
<1>2. /\ Start + 2 <= Len(input) /\ CharAt(Start + 1) # "\n" /\ CharAt(Start) # "\""
      /\ lexer.position <= Start
  BY SignIsRead DEF Doc
<1>3. PICK end : end = EndOfLine
  OBVIOUS
<1>4. /\ end \in Start + 1 .. Len(input) - 1
      /\ \A r \in Start .. end - 1 : CharAt(r) # "\n"
  BY <1>2, <1>3, LineEnds
<1>5. end \in Nat /\ Start <= end /\ end <= Len(input) /\ end + 1 <= Len(input)
      /\ end + 1 > Start /\ Start <= end + 1 /\ end + 1 \in Nat /\ end <= end + 1
  BY <1>1, <1>4
<1>6. PICK carrierOffset \in {0, 1} :
        Return("DOC", Text(Start, end - carrierOffset), 0, end + 1, FALSE)
  BY <1>3 DEF Doc
<1>7. PICK u \in Seq(Characters \cup {"#"}) : u = Text(Start, end - carrierOffset)
  <2>1. PICK cut : cut = end - carrierOffset
    OBVIOUS
  <2>2. cut \in Nat /\ Start <= cut /\ cut <= Len(input)
    BY <1>1, <1>4, <2>1
  <2>3. Text(Start, cut) \in Seq(Characters)
    BY <1>1, <2>2, TextFacts
  <2>4. Text(Start, cut) \in Seq(Characters \cup {"#"})
    BY <2>3
  <2> QED
    BY <2>1, <2>4
<1>8. PICK after \in Nat : after = end + 1
  BY <1>5
<1>9. "DOC" \in Types /\ FALSE \in BOOLEAN /\ 0 \in Nat /\ after <= Len(input)
      /\ Return("DOC", u, 0, after, FALSE)
  BY <1>5, <1>6, <1>7, <1>8 DEF Types
<1>10. /\ input' = input /\ Typing' /\ token'.type = "DOC" /\ token'.from = Start
       /\ lexer'.position = after /\ lexer'.line = StartLine
  BY <1>9, Returned
<1>11. Reads
  BY <1>2, <1>5, <1>8, <1>10 DEF Reads
<1>12. LinesFollow
  <2>1. Lines(Start, end) = 0
    BY <1>1, <1>4, <1>5, NoLines
  <2>2. Lines(Start, after) = Lines(Start, end) + Lines(end, after)
    BY <1>1, <1>5, <1>8, LinesAdd
  <2>3. Lines(lexer.position, after) = (StartLine - lexer.line) + Lines(Start, after)
    BY <1>2, <1>5, <1>8, LinesPassed
  <2>4. Lines(end, after) \in Nat /\ StartLine - lexer.line \in Nat
    BY <1>2, <1>5, <1>8, LinesType, LinesPassed
  <2>5. lexer'.line - lexer.line = Lines(lexer.position, after) - Lines(end, after)
    BY <1>10, <2>1, <2>2, <2>3, <2>4
  <2>6. lexer'.position - 1 = end
    BY <1>5, <1>8, <1>10
  <2> QED
    BY <1>10, <2>5, <2>6 DEF LinesFollow
<1> QED
  BY <1>10, <1>11, <1>12, OtherTokens DEF ReadRight, StringsKeepTheirQuotes

\* A token that begins with a quote and ends at a position.
LEMMA QuotedLines ==
  ASSUME Typing, lexer.position <= Start, CharAt(Start) = Quote, NEW end \in Nat,
         Start <= end, token'.type \notin {"DOC", "COMMENT"}, token'.from = Start,
         lexer'.position = end, lexer'.line = StartLine
  PROVE  LinesFollow
<1>1. Lines(lexer.position, end) = (StartLine - lexer.line) + Lines(Start, end)
      /\ Lines(Start, end) \in Nat /\ StartLine - lexer.line \in Nat
  BY LinesPassed
<1>2. PICK skipped, within : skipped = StartLine - lexer.line /\ within = Lines(Start, end)
  OBVIOUS
<1>3. skipped \in Nat /\ within \in Nat /\ Lines(lexer.position, end) = skipped + within
  BY <1>1, <1>2
<1>4. skipped = Lines(lexer.position, end) - within
  BY <1>3
<1>5. lexer'.line - lexer.line = skipped
  BY <1>2
<1>6. lexer'.line - lexer.line = Lines(lexer.position, end) - Lines(Start, end)
  BY <1>2, <1>4, <1>5
<1> QED
  BY <1>6, Zenon DEF LinesFollow, Quote

\* The literal of a string is a text.
LEMMA UnescapedLiteral ==
  ASSUME IsText(input), NEW p \in Nat, NEW q \in Nat, p <= q, q <= Len(input)
  PROVE  /\ unEscape(Text(p, q)).text \in Seq(Characters \cup {"#"})
         /\ unEscape(Text(p, q)).beyond \in BOOLEAN
<1>1. PICK s \in Seq(Characters) : s = Text(p, q)
  BY TextFacts
<1>2. 0 \in 0 .. Len(s)
  OBVIOUS
<1>3. UnEscaped(s)[0] \in Unescaped
  BY <1>2, UnEscapedIsText
<1> QED
  BY <1>1, <1>3 DEF unEscape, Unescaped

\* Reading a string, ended or not.
LEMMA StringStep ==
  ASSUME Typing, String
  PROVE  ReadRight
<1>1. IsText(input) /\ Start \in Nat /\ Len(input) \in Nat /\ StartLine \in Nat
  BY StartFacts DEF Typing
<1>2. CharAt(Start) = Quote /\ lexer.position <= Start /\ Start < Len(input)
  <2>1. CharAt(Start) = Quote /\ CharAt(Start) # NUL
    <3>1. Quote # NUL
      BY DEF NUL, Quote
    <3> QED
      BY <3>1, Zenon DEF String, Quote
  <2> QED
    BY <2>1, StartFacts
<1>3. PICK last : last = Before(Start, {Quote})
  OBVIOUS
<1>4. last \in Start .. Len(input) - 1
  BY <1>1, <1>2, <1>3, BeforeFacts
<1>5. \/ /\ CharAt(last + 1) = NUL
         /\ LET escaped == unEscape(Text(Start, last + 1))
            IN Return("ILLEGAL", escaped.text, StartLine, last + 1, escaped.beyond)
      \/ /\ CharAt(last + 1) = Quote
         /\ LET escaped == unEscape(Text(Start, last + 2))
            IN Return("STRING", escaped.text, 0, last + 2, escaped.beyond)
  BY <1>3, Zenon DEF String, Quote
<1>6. CASE CharAt(last + 1) = NUL
  <2>1. PICK end : end = last + 1
    OBVIOUS
  <2>2. end \in Nat /\ Start <= end /\ Start < end /\ end <= Len(input)
    BY <1>1, <1>4, <2>1
  <2>3. PICK t, b : t = unEscape(Text(Start, end)).text /\ b = unEscape(Text(Start, end)).beyond
    OBVIOUS
  <2>4. t \in Seq(Characters \cup {"#"}) /\ b \in BOOLEAN
    BY <1>1, <2>2, <2>3, UnescapedLiteral
  <2>5. Return("ILLEGAL", t, StartLine, end, b)
    <3>1. NUL # Quote
      BY DEF NUL, Quote
    <3> QED
      BY <1>5, <1>6, <2>1, <2>3, <3>1
  <2>6. "ILLEGAL" \in Types
    BY DEF Types
  <2>7. /\ input' = input /\ Typing' /\ token'.type = "ILLEGAL" /\ token'.from = Start
        /\ lexer'.position = end /\ lexer'.line = StartLine
    BY <1>1, <2>2, <2>4, <2>5, <2>6, Returned, ZenonT(60)
  <2>8. Reads
    BY <1>2, <2>2, <2>7 DEF Reads
  <2>9. LinesFollow
    BY <1>2, <2>2, <2>7, QuotedLines
  <2> QED
    BY <2>7, <2>8, <2>9, OtherTokens DEF ReadRight, StringsKeepTheirQuotes
<1>7. CASE CharAt(last + 1) # NUL
  <2>1. CharAt(last + 1) = Quote
    BY <1>5, <1>7
  <2>2. last + 1 \in Nat /\ last + 1 < Len(input)
    BY <1>1, <1>4, <1>7, CharAtFacts
  <2>3. PICK end : end = last + 2
    OBVIOUS
  <2>4. end \in Nat /\ Start <= end /\ Start < end /\ end <= Len(input)
    BY <1>1, <1>4, <2>2, <2>3
  <2>4a. end - Start >= 2 /\ end - 1 = last + 1 /\ end - 1 \in Start .. end - 1
         /\ Start \in Start .. end - 1
    BY <1>1, <1>4, <2>2, <2>3
  <2>5. PICK s : s = Text(Start, end)
    OBVIOUS
  <2>6. /\ s \in Seq(Characters) /\ Len(s) = end - Start
        /\ \A r \in Start .. end - 1 : s[r - Start + 1] = CharAt(r)
    <3>1. PICK from \in Nat : from = Start
      BY <1>1
    <3>2. IsText(input) /\ from <= end /\ s = Text(from, end) /\ end \in Nat
          /\ end <= Len(input)
      BY <1>1, <2>4, <2>5, <3>1
    <3>3. /\ s \in Seq(Characters) /\ Len(s) = end - from
          /\ \A r \in from .. end - 1 : s[r - from + 1] = CharAt(r)
      BY <3>2, NumberText, ZenonT(60)
    <3> QED
      BY <3>1, <3>3
  <2>7. Len(s) >= 2 /\ s[1] = Quote /\ s[Len(s)] = Quote
    <3>1. Start - Start + 1 = 1 /\ (end - 1) - Start + 1 = Len(s)
      BY <1>1, <2>4, <2>6
    <3>2. s[1] = CharAt(Start)
      BY <2>4a, <2>6, <3>1
    <3>3. s[Len(s)] = CharAt(end - 1)
      BY <2>4a, <2>6, <3>1
    <3> QED
      BY <1>2, <2>1, <2>4a, <2>6, <3>2, <3>3
  <2>8. PICK t, b : t = unEscape(s).text /\ b = unEscape(s).beyond
    OBVIOUS
  <2>9. t \in Seq(Characters \cup {"#"}) /\ b \in BOOLEAN
    BY <1>1, <2>4, <2>5, <2>8, UnescapedLiteral
  <2>10. Return("STRING", t, 0, end, b)
    BY <1>5, <1>7, <2>3, <2>5, <2>8
  <2>11. "STRING" \in Types /\ 0 \in Nat
    BY DEF Types
  <2>12. /\ input' = input /\ Typing' /\ token'.type = "STRING" /\ token'.from = Start
         /\ token'.literal = t /\ token'.beyond = b
         /\ lexer'.position = end /\ lexer'.line = StartLine
    BY <1>1, <2>4, <2>9, <2>10, <2>11, Returned
  <2>13. Reads
    BY <1>2, <2>4, <2>12 DEF Reads
  <2>14. LinesFollow
    BY <1>2, <2>4, <2>12, QuotedLines
  <2>15. StringsKeepTheirQuotes'
    <3>1. ~b
      BY <2>6, <2>7, <2>8, QuotesStay, Zenon
    <3>1a. /\ Len(t) >= 1 /\ t[1] = Quote
           /\ (Len(t) >= 2 /\ t[Len(t)] = Quote) \/ TakesTheQuote(s)
      <4>1. /\ ~unEscape(s).beyond
            /\ Len(unEscape(s).text) >= 1 /\ unEscape(s).text[1] = Quote
            /\ \/ Len(unEscape(s).text) >= 2
                  /\ unEscape(s).text[Len(unEscape(s).text)] = Quote
               \/ TakesTheQuote(s)
        BY <2>6, <2>7, QuotesStay
      <4>3. t = unEscape(s).text
        BY <2>8
      <4>4. Len(t) >= 1 /\ t[1] = Quote
        BY <4>1, <4>3
      <4>5. (Len(t) >= 2 /\ t[Len(t)] = Quote) \/ TakesTheQuote(s)
        BY <4>1, <4>3
      <4> QED
        BY <4>4, <4>5
    <3>2. Text(token.from, lexer.position)' = s
      BY <2>5, <2>12 DEF Text
    <3> QED
      BY <2>12, <3>1, <3>1a, <3>2, Zenon DEF StringsKeepTheirQuotes, TakesTheQuote, Quote, Text
  <2> QED
    BY <2>12, <2>13, <2>14, <2>15, OtherTokens DEF ReadRight
<1> QED
  BY <1>6, <1>7

\* A text that is a token as it stands: one of the grammar, or an illegal one.
LEMMA LexemeStep ==
  ASSUME Typing, NEW type \in Types \ {"COMMENT", "DOC", "STRING", "EOF"},
         NEW end \in Nat, Start < end, end <= Len(input), CharAt(Start) # Quote,
         \A r \in Start .. end - 1 : CharAt(r) # "\n",
         Return(type, Text(Start, end), StartLine, end, FALSE),
         type # "ILLEGAL" => Longest(Start, end)
  PROVE  ReadRight
<1>1. IsText(input) /\ Start \in Nat /\ Len(input) \in Nat /\ StartLine \in Nat
  BY StartFacts DEF Typing
<1>2. Start <= end /\ Start < Len(input)
  BY <1>1
<1>3. Text(Start, end) \in Seq(Characters \cup {"#"})
  <2>1. Text(Start, end) \in Seq(Characters)
    BY <1>1, <1>2, TextFacts
  <2> QED
    BY <2>1
<1>4. type \in Types \ {"COMMENT", "DOC"} /\ FALSE \in BOOLEAN
  OBVIOUS
<1>5. Reads /\ LinesFollow
  BY <1>1, <1>2, <1>3, <1>4, ReadInLine
<1>6. /\ input' = input /\ token'.type = type /\ token'.from = Start
      /\ token'.literal = Text(Start, end) /\ lexer'.position = end
  BY <1>1, <1>3, <1>4, Returned
<1>7. LongestMatch'
  <2>1. CASE type = "ILLEGAL"
    BY <1>6, <2>1, OtherTokens
  <2>2. CASE type # "ILLEGAL"
    BY <1>6, <2>2, LexemeIsLongest
  <2> QED
    BY <2>1, <2>2
<1>8. StringsKeepTheirQuotes'
  BY <1>6, Zenon DEF StringsKeepTheirQuotes
<1> QED
  BY <1>5, <1>7, <1>8 DEF ReadRight

\* lookupIdent gives a word the type of a keyword, or IDENT.
LEMMA WordTypes ==
  \A word : lookupIdent(word) \in
              Types \ {"NOT_SET", "EOF", "ILLEGAL", "STRING", "COMMENT", "DOC"}
<1>1. ASSUME NEW pair \in tokenToKeyword
      PROVE  pair[1] \notin {"NOT_SET", "EOF", "ILLEGAL", "STRING", "COMMENT", "DOC"}
  BY DEF tokenToKeyword
<1>2. \A pair \in tokenToKeyword : pair[1] \in Types
  BY DEF Types
<1>3. ASSUME NEW word
      PROVE  \/ \E pair \in tokenToKeyword : lookupIdent(word) = pair[1]
             \/ lookupIdent(word) = "IDENT"
  BY Zenon DEF lookupIdent
<1>4. "IDENT" \in Types
  BY DEF Types
<1> QED
  BY <1>1, <1>2, <1>3, <1>4

\* Words and numbers have no new line and no quote.
LEMMA CharactersInLine ==
  /\ "\n" \notin Letters /\ "\n" \notin Digits /\ Quote \notin Letters /\ Quote \notin Digits
  /\ "." # "\n" /\ "e" # "\n" /\ "-" # "\n" /\ "+" # "\n"
BY DEF Letters, Digits, Quote

\* Reading a word.
LEMMA WordStep ==
  ASSUME Typing, Word
  PROVE  ReadRight
<1>1. IsText(input) /\ Start \in Nat /\ Len(input) \in Nat
  BY StartFacts DEF Typing
<1>2. CharAt(Start) \in Letters /\ CharAt(Start) # NUL
  BY KindsDiffer DEF Word
<1>3. PICK end : end = Past(Start, Letters \cup Digits)
  OBVIOUS
<1>4. end \in Start + 1 .. Len(input) /\ Longest(Start, end)
  BY <1>1, <1>2, <1>3, WordsAreLongest
<1>5. end \in Nat /\ Start < end /\ end <= Len(input)
  BY <1>1, <1>4
<1>6. \A r \in Start .. end - 1 : CharAt(r) \in Letters \cup Digits
  <2>1. NUL \notin Letters \cup Digits /\ Start <= Len(input)
    BY KindsDiffer, StartFacts
  <2> DEFINE C == Letters \cup Digits
  <2>2. NUL \notin C /\ end = Past(Start, C)
    BY <1>3, <2>1
  <2> HIDE DEF C
  <2>3. \A r \in Start .. end - 1 : CharAt(r) \in C
    BY <1>1, <2>1, <2>2, PastFacts
  <2> QED
    BY <2>3 DEF C
<1>7. \A r \in Start .. end - 1 : CharAt(r) # "\n"
  BY <1>6, CharactersInLine
<1>8. CharAt(Start) # Quote
  BY <1>2, CharactersInLine
<1>9. PICK type : type = lookupIdent(Text(Start, end))
  OBVIOUS
<1>10. type \in Types \ {"COMMENT", "DOC", "STRING", "EOF"}
  BY <1>9, WordTypes
<1>11. Return(type, Text(Start, end), StartLine, end, FALSE)
  BY <1>3, <1>9 DEF Word
<1> QED
  BY <1>4, <1>5, <1>7, <1>8, <1>10, <1>11, LexemeStep

\* Reading the end of the input.
LEMMA EndStep ==
  ASSUME Typing, EndOfInput
  PROVE  ReadRight
<1>1. IsText(input) /\ Start \in Nat /\ Len(input) \in Nat /\ StartLine \in Nat
      /\ Start <= Len(input) /\ CharAt(Start) # "\n"
  BY StartFacts DEF Typing
<1>2. CharAt(Start) = NUL /\ Return("EOF", <<>>, StartLine, Start + 1, FALSE)
  BY DEF EndOfInput
<1>3. lexer.position <= Start
  <2>1. lexer.position <= Len(input)
    BY DEF Typing, EndOfInput
  <2> QED
    BY <2>1, StartFacts
<1>4. PICK end : end = Start + 1
  OBVIOUS
<1>5. end \in Nat /\ Start <= end /\ Start < end
  BY <1>1, <1>4
<1>6. "EOF" \in Types /\ FALSE \in BOOLEAN /\ Return("EOF", <<>>, StartLine, end, FALSE)
  BY <1>2, <1>4 DEF Types
<1>7. PICK t \in Seq(Characters \cup {"#"}) : t = <<>>
  <2>1. <<>> \in Seq(Characters \cup {"#"})
    OBVIOUS
  <2> QED
    BY <2>1, Zenon
<1>8. Return("EOF", t, StartLine, end, FALSE)
  BY <1>6, <1>7
<1>9. /\ input' = input /\ Typing' /\ token'.type = "EOF" /\ token'.from = Start
      /\ lexer'.position = end /\ lexer'.line = StartLine
  BY <1>1, <1>5, <1>6, <1>8, Returned
<1>10. Reads
  BY <1>3, <1>5, <1>9 DEF Reads
<1>11. LinesFollow
  <2>1. \A r \in Start .. end - 1 : CharAt(r) # "\n"
    BY <1>1, <1>4
  <2>2. StartLine - lexer.line = Lines(lexer.position, end)
    BY <1>3, <1>5, <2>1, InLine
  <2>3. CharAt(token'.from) # Quote
    <3>1. NUL # Quote
      BY DEF NUL, Quote
    <3> QED
      BY <1>2, <1>9, <3>1
  <2> QED
    BY <1>9, <2>2, <2>3, Zenon DEF LinesFollow, Quote
<1> QED
  BY <1>9, <1>10, <1>11, OtherTokens DEF ReadRight, StringsKeepTheirQuotes

\* Reading a number.
LEMMA NumberStep ==
  ASSUME Typing, Number
  PROVE  ReadRight
<1>1. IsText(input) /\ Start \in Nat /\ Len(input) \in Nat
  BY StartFacts DEF Typing
<1>2. CharAt(Start) \in Digits
  BY DEF Number
<1>3. CharAt(Start) # Quote
  BY <1>2, CharactersInLine
<1>4. PICK from, whole, fraction, exponent :
        /\ from = Start /\ whole = Past(from, Digits) /\ fraction = Past(whole + 1, Digits)
        /\ exponent = IF CharAt(fraction + 1) \in {"-", "+"} THEN fraction + 1 + 1
                                                             ELSE fraction + 1
  OBVIOUS
<1>5. \/ /\ CharAt(whole) # "." \/ CharAt(whole + 1) = "."
         /\ Return("INT", Text(Start, whole), StartLine, whole, FALSE)
      \/ /\ CharAt(whole) = "." /\ CharAt(fraction) # "e"
         /\ Return("DOUBLE", Text(Start, fraction), StartLine, fraction, FALSE)
      \/ /\ CharAt(whole) = "." /\ CharAt(fraction) = "e" /\ CharAt(exponent) \in Digits
         /\ Return("DOUBLE", Text(Start, Past(exponent, Digits)), StartLine,
                   Past(exponent, Digits), FALSE)
      \/ /\ CharAt(whole) = "." /\ CharAt(fraction) = "e"
         /\ Return("ILLEGAL", Text(Start, exponent), StartLine, exponent, FALSE)
  BY <1>4, Zenon DEF Number
<1>6. IsText(input) /\ from \in Nat /\ CharAt(from) \in Digits
  BY <1>1, <1>2, <1>4
<1>7. {"INT", "DOUBLE", "ILLEGAL"} \subseteq Types \ {"COMMENT", "DOC", "STRING", "EOF"}
  BY DEF Types
<1>8. /\ whole \in Nat /\ from < whole /\ whole <= Len(input)
      /\ \A r \in from .. whole - 1 : CharAt(r) # "\n"
  <2>1. /\ whole \in from + 1 .. Len(input)
        /\ \A r \in from .. whole - 1 : CharAt(r) \in Digits
    BY <1>4, <1>6, WholePart
  <2> QED
    BY <1>1, <1>6, <2>1, CharactersInLine
<1>9. ASSUME CharAt(whole) # "." \/ CharAt(whole + 1) = ".",
             Return("INT", Text(Start, whole), StartLine, whole, FALSE)
      PROVE  ReadRight
  <2>1. Longest(from, whole)
    BY <1>4, <1>6, <1>9, IntegersAreLongest
  <2>2. Longest(Start, whole) /\ Start < whole /\ \A r \in Start .. whole - 1 : CharAt(r) # "\n"
    BY <1>4, <1>8, <2>1
  <2> QED
    BY <1>3, <1>7, <1>8, <1>9, <2>2, LexemeStep
<1>10. ASSUME CharAt(whole) = "."
       PROVE  /\ fraction \in Nat /\ from < fraction /\ fraction <= Len(input)
              /\ \A r \in from .. fraction - 1 : CharAt(r) # "\n"
  <2>1. /\ from < whole /\ whole < fraction /\ fraction <= Len(input)
        /\ whole \in Nat /\ fraction \in Nat
        /\ \A r \in whole + 1 .. fraction - 1 : CharAt(r) \in Digits
    BY <1>4, <1>6, <1>10, FractionPart
  <2>2. ASSUME NEW r \in from .. fraction - 1 PROVE CharAt(r) # "\n"
    <3>1. r \in from .. whole - 1 \/ r = whole \/ r \in whole + 1 .. fraction - 1
      BY <1>6, <2>1
    <3> QED
      BY <1>8, <1>10, <2>1, <3>1, CharactersInLine
  <2> QED
    BY <1>6, <2>1, <2>2
<1>11. ASSUME CharAt(whole) = ".", CharAt(fraction) # "e",
              Return("DOUBLE", Text(Start, fraction), StartLine, fraction, FALSE)
       PROVE  ReadRight
  <2>1. Longest(from, fraction)
    BY <1>4, <1>6, <1>11, FractionsAreLongest
  <2>2. /\ fraction \in Nat /\ from < fraction /\ fraction <= Len(input)
        /\ \A r \in from .. fraction - 1 : CharAt(r) # "\n"
    BY <1>10, <1>11
  <2>3. Longest(Start, fraction) /\ Start < fraction
        /\ \A r \in Start .. fraction - 1 : CharAt(r) # "\n"
    BY <1>4, <2>1, <2>2
  <2> QED
    BY <1>3, <1>7, <1>11, <2>2, <2>3, LexemeStep
<1>12. ASSUME CharAt(whole) = ".", CharAt(fraction) = "e"
       PROVE  /\ exponent \in Nat /\ from < exponent /\ exponent <= Len(input)
              /\ \/ exponent = fraction + 1
                 \/ exponent = fraction + 2 /\ CharAt(fraction + 1) \in {"-", "+"}
              /\ \A r \in from .. exponent - 1 : CharAt(r) # "\n"
  <2>1. /\ fraction \in Nat /\ from < fraction /\ fraction <= Len(input)
        /\ \A r \in from .. fraction - 1 : CharAt(r) # "\n"
    BY <1>10, <1>12
  <2>2. CharAt(fraction) # NUL /\ fraction < Len(input)
    <3>1. CharAt(fraction) # NUL
      BY <1>12 DEF NUL
    <3> QED
      BY <1>6, <2>1, <3>1, CharAtFacts
  <2>3. CASE CharAt(fraction + 1) \in {"-", "+"}
    <3>1. CharAt(fraction + 1) # NUL /\ fraction + 1 \in Nat
      BY <2>1, <2>3 DEF NUL
    <3>2. fraction + 1 < Len(input)
      BY <1>6, <3>1, CharAtFacts
    <3>3. exponent = fraction + 2
      BY <1>4, <2>1, <2>3
    <3>4. ASSUME NEW r \in from .. exponent - 1 PROVE CharAt(r) # "\n"
      <4>1. r \in from .. fraction - 1 \/ r = fraction \/ r = fraction + 1
        BY <1>6, <2>1, <3>3
      <4> QED
        BY <1>12, <2>1, <2>3, <4>1, CharactersInLine
    <3> QED
      BY <1>1, <1>6, <2>1, <2>3, <3>2, <3>3, <3>4
  <2>4. CASE CharAt(fraction + 1) \notin {"-", "+"}
    <3>1. exponent = fraction + 1
      BY <1>4, <2>4
    <3>2. ASSUME NEW r \in from .. exponent - 1 PROVE CharAt(r) # "\n"
      <4>1. r \in from .. fraction - 1 \/ r = fraction
        BY <1>6, <2>1, <3>1
      <4> QED
        BY <1>12, <2>1, <4>1, CharactersInLine
    <3> QED
      BY <1>1, <1>6, <2>1, <2>2, <3>1, <3>2
  <2> QED
    BY <2>3, <2>4
<1>13. ASSUME CharAt(whole) = ".", CharAt(fraction) = "e", CharAt(exponent) \in Digits,
              Return("DOUBLE", Text(Start, Past(exponent, Digits)), StartLine,
                     Past(exponent, Digits), FALSE)
       PROVE  ReadRight
  <2>1. /\ exponent \in Nat /\ from < exponent /\ exponent <= Len(input)
        /\ \/ exponent = fraction + 1
           \/ exponent = fraction + 2 /\ CharAt(fraction + 1) \in {"-", "+"}
        /\ \A r \in from .. exponent - 1 : CharAt(r) # "\n"
    BY <1>12, <1>13
  <2>2. PICK end : end = Past(exponent, Digits)
    OBVIOUS
  <2>3. end \in from + 1 .. Len(input) /\ Longest(from, end)
    BY <1>4, <1>6, <1>13, <2>1, <2>2, ExponentsAreLongest
  <2>4. \A r \in exponent .. end - 1 : CharAt(r) \in Digits
    <3>1. NUL \notin Digits
      BY KindsDiffer
    <3> QED
      BY <1>6, <2>1, <2>2, <3>1, PastFacts
  <2>5. ASSUME NEW r \in from .. end - 1 PROVE CharAt(r) # "\n"
    <3>1. r \in from .. exponent - 1 \/ r \in exponent .. end - 1
      BY <1>1, <1>6, <2>1, <2>3
    <3> QED
      BY <2>1, <2>4, <3>1, CharactersInLine
  <2>6. end \in Nat /\ end <= Len(input) /\ from < end
    BY <1>1, <1>6, <2>3
  <2>7. Longest(Start, end) /\ Start < end /\ \A r \in Start .. end - 1 : CharAt(r) # "\n"
    BY <1>4, <2>3, <2>5, <2>6
  <2>8. Return("DOUBLE", Text(Start, end), StartLine, end, FALSE)
    BY <1>13, <2>2
  <2> QED
    BY <1>3, <1>7, <2>6, <2>7, <2>8, LexemeStep
<1>14. ASSUME CharAt(whole) = ".", CharAt(fraction) = "e",
              Return("ILLEGAL", Text(Start, exponent), StartLine, exponent, FALSE)
       PROVE  ReadRight
  <2>1. /\ exponent \in Nat /\ from < exponent /\ exponent <= Len(input)
        /\ \A r \in from .. exponent - 1 : CharAt(r) # "\n"
    BY <1>12, <1>14
  <2>2. Start < exponent /\ \A r \in Start .. exponent - 1 : CharAt(r) # "\n"
    BY <1>4, <2>1
  <2> QED
    BY <1>3, <1>7, <1>14, <2>1, <2>2, LexemeStep
<1> QED
  BY <1>5, <1>9, <1>11, <1>13, <1>14

\* Every call of nextToken.
LEMMA EveryStep ==
  ASSUME Typing, nextToken
  PROVE  ReadRight
<1>1. CASE Operator
  BY <1>1, SymbolStep
<1>2. CASE Illegal
  BY <1>2, IllegalStep
<1>3. CASE Comment
  BY <1>3, CommentStep
<1>4. CASE Doc
  BY <1>4, DocStep
<1>5. CASE String
  BY <1>5, StringStep
<1>6. CASE Word
  BY <1>6, WordStep
<1>7. CASE Number
  BY <1>7, NumberStep
<1>8. CASE EndOfInput
  BY <1>8, EndStep
<1> QED
  BY <1>1, <1>2, <1>3, <1>4, <1>5, <1>6, <1>7, <1>8 DEF nextToken

-----------------------------------------------------------------------------
\* The state of a lexer is one of the types above, and its position is in the input
\* until the EOF has been read.
THEOREM TypeCorrect == Spec => []Typing
<1>1. Init => Typing
  BY InitTypes
<1>2. ASSUME Typing, [nextToken]_vars PROVE Typing'
  <2>1. CASE nextToken
    BY <1>2, <2>1, EveryStep DEF ReadRight, Reads
  <2>2. CASE UNCHANGED vars
    BY <1>2, <2>2 DEF vars, Typing, IsText
  <2> QED
    BY <1>2, <2>1, <2>2
<1> QED
  BY <1>1, <1>2, PTL DEF Spec

\* On any text, a word, a number or an operator is the longest one that starts where
\* it does, but for the integer before a range.
THEOREM TokensAreLongest == Spec => []LongestMatch
<1>1. Init => LongestMatch
  BY DEF Init, LongestMatch
<1>2. ASSUME Typing, LongestMatch, [nextToken]_vars PROVE LongestMatch'
  <2>1. CASE nextToken
    BY <1>2, <2>1, EveryStep DEF ReadRight
  <2>2. CASE UNCHANGED vars
    BY <1>2, <2>2 DEF vars, LongestMatch, Text
  <2> QED
    BY <1>2, <2>1, <2>2
<1> QED
  BY <1>1, <1>2, TypeCorrect, PTL DEF Spec

\* On any text, the literal of a string token has its quotes first and last, and
\* unEscape has read nothing past it; an octal escape at its end is the exception.
THEOREM QuotesAreKept == Spec => []StringsKeepTheirQuotes
<1>1. Init => StringsKeepTheirQuotes
  BY DEF Init, StringsKeepTheirQuotes
<1>2. ASSUME Typing, StringsKeepTheirQuotes, [nextToken]_vars
      PROVE  StringsKeepTheirQuotes'
  <2>1. CASE nextToken
    BY <1>2, <2>1, EveryStep DEF ReadRight
  <2>2. CASE UNCHANGED vars
    BY <1>2, <2>2 DEF vars, StringsKeepTheirQuotes, Text
  <2> QED
    BY <1>2, <2>1, <2>2
<1> QED
  BY <1>1, <1>2, TypeCorrect, PTL DEF Spec

\* On any text, a call of nextToken counts the lines it passes, but those of strings
\* and documentation lines, and one too many for a comment that ends the input.
THEOREM LinesAreCounted == Spec => LinesFollowTheText
<1>1. ASSUME Typing, [nextToken]_vars PROVE [LinesFollow]_vars
  BY <1>1, EveryStep DEF ReadRight
<1> QED
  BY <1>1, TypeCorrect, PTL DEF Spec, LinesFollowTheText

ReadsOn ==
  /\ lexer.position <= token'.from /\ token'.from < lexer'.position
  /\ \A r \in lexer.position .. token'.from - 1 : CharAt(r) \in Blanks
  /\ input' = input

\* On any text, a call of nextToken passes over nothing but blanks before the token
\* it returns, and reads one character at least: with the fairness of the calls
\* this is why every text comes to its end.
THEOREM NothingIsSkipped == Spec => [][ReadsOn]_vars
<1>1. ASSUME Typing, [nextToken]_vars PROVE [ReadsOn]_vars
  <2>1. ASSUME nextToken PROVE ReadsOn
    <3>1. input' = input /\ lexer.position <= Start /\ token'.from = Start
          /\ lexer'.position > Start
      BY <1>1, <2>1, EveryStep DEF ReadRight, Reads
    <3>2. lexer.position <= Len(input)
      <4>1. Start <= Len(input) /\ Start \in Nat /\ Len(input) \in Nat
            /\ lexer.position \in Nat
        BY <1>1, StartFacts DEF Typing
      <4> QED
        BY <3>1, <4>1
    <3>3. \A r \in lexer.position .. Start - 1 : CharAt(r) \in Blanks
      BY <1>1, <3>2, StartFacts
    <3>4. Start < lexer'.position
      <4>1. Start \in Nat /\ lexer'.position \in Nat
        BY <1>1, <2>1, StartFacts, EveryStep DEF ReadRight, Reads, Typing
      <4> QED
        BY <3>1, <4>1
    <3> QED
      BY <3>1, <3>3, <3>4 DEF ReadsOn
  <2> QED
    BY <1>1, <2>1
<1> QED
  BY <1>1, TypeCorrect, PTL DEF Spec

=============================================================================
