-------------------------- MODULE CmdParser_proofs --------------------------
(***************************************************************************)
(* That the two scanners of a command line agree, that neither argv nor     *)
(* input_copy overflows, and that a command gets the arguments its line     *)
(* shows, for every limit of arguments, every size of the buffer, every set *)
(* of characters and lines of every length; and that echo prints them with  *)
(* the names in them replaced, for every list of names and values.         *)
(*                                                                         *)
(* The reference definition speaks of positions of the line, the loops of   *)
(* flags.  First: what one more character changes of each set of positions, *)
(* then of the arguments (FlagsStep, TokensStep).  Then: what one more      *)
(* character of the output changes of the strings in it (TextGrows, Held).  *)
(* Then what echo shows of an argument, position by position, and of all    *)
(* words (Shown, Said).  Then the loops, and the invariants Scans, which    *)
(* joins flags and positions, and EchoInv, which joins echo to both.        *)
(***************************************************************************)
EXTENDS Echo, SequenceTheorems, FiniteSetTheorems, WellFoundedInduction, TLAPS

\* A set of naturals has a least element: the intervals 0..x are ordered by strict
\* inclusion as their bounds are by <.
LEMMA LeastElement ==
  ASSUME NEW S \in SUBSET Nat, S # {}
  PROVE  \E x \in S : \A y \in S : x <= y
<1> DEFINE T == {0..x : x \in S}
<1>1. T \subseteq FiniteSubsetsOf(Nat)
  <2> SUFFICES ASSUME NEW x \in S PROVE 0..x \in FiniteSubsetsOf(Nat)
    OBVIOUS
  <2>1. IsFiniteSet(0..x)
    BY FS_Interval
  <2>2. 0..x \in SUBSET Nat
    OBVIOUS
  <2> QED
    BY <2>1, <2>2 DEF FiniteSubsetsOf
<1>2. PICK I \in T : \A J \in T : <<J, I>> \notin StrictSubsetOrdering(Nat)
  <2>1. T # {}
    OBVIOUS
  <2> HIDE DEF T
  <2> QED
    BY <1>1, <2>1, FS_StrictSubsetOrderingWellFounded, WFMin
<1>3. PICK x \in S : I = 0..x
  OBVIOUS
<1>4. ASSUME NEW y \in S PROVE x <= y
  <2> SUFFICES ASSUME y < x PROVE FALSE
    OBVIOUS
  <2>1. 0..y \in SUBSET Nat /\ 0..x \in SUBSET Nat /\ 0..y \subseteq 0..x
    OBVIOUS
  <2>2. x \in 0..x /\ x \notin 0..y
    OBVIOUS
  <2>3. <<0..y, 0..x>> \in StrictSubsetOrdering(Nat)
    BY <2>1, <2>2 DEF StrictSubsetOrdering
  <2> QED
    BY <1>2, <1>3, <2>3
<1> QED
  BY <1>4

\* The classes of characters the loops tell apart exclude one another.
LEMMA CharsDiffer ==
  /\ ESCAPE # QUOTE /\ ESCAPE # PIPE /\ ESCAPE # SPACE
  /\ QUOTE # PIPE /\ QUOTE # SPACE /\ PIPE # SPACE
BY DEF ESCAPE, QUOTE, PIPE, SPACE

-----------------------------------------------------------------------------
(* The reference definition, one character after the other.                 *)

\* What is escaped among the first n characters, if f says so.
EscapesUpTo(f, s, n) ==
  f = [i \in 1..n |-> i > 1 /\ s[i - 1] = ESCAPE /\ ~f[i - 1]]

LEMMA EscapesExist ==
  ASSUME NEW s, NEW m \in Nat
  PROVE  \E f : EscapesUpTo(f, s, m)
<1> DEFINE S == {n \in Nat : ~\E f : EscapesUpTo(f, s, n)}
<1> SUFFICES ASSUME S # {} PROVE FALSE
  OBVIOUS
<1>1. PICK n \in S : \A k \in S : n <= k
  BY LeastElement
<1>2. CASE n = 0
  <2> DEFINE g == [i \in 1..0 |-> FALSE]
  <2>1. g = [i \in 1..0 |-> i > 1 /\ s[i - 1] = ESCAPE /\ ~g[i - 1]]
    OBVIOUS
  <2> HIDE DEF g
  <2> QED BY <1>2, <2>1 DEF EscapesUpTo
<1>3. CASE n # 0
  <2>1. n - 1 \in Nat /\ n - 1 \notin S /\ n \in Nat
    BY <1>1, <1>3
  <2>2. PICK f : EscapesUpTo(f, s, n - 1)
    BY <2>1
  <2> DEFINE e(h, i) == i > 1 /\ s[i - 1] = ESCAPE /\ ~h[i - 1]
             g == [i \in 1..n |-> e(f, i)]
  <2>3. f = [i \in 1..(n - 1) |-> e(f, i)]
    BY <2>2 DEF EscapesUpTo
  <2>4. \A i \in 1..(n - 1) : g[i] = f[i]
    <3> HIDE DEF e
    <3> QED BY <2>1, <2>3
  <2>5. ASSUME NEW i \in 1..n PROVE e(f, i) = e(g, i)
    <3>1. CASE i > 1
      <4>1. i - 1 \in 1..(n - 1) BY <2>1, <3>1
      <4>2. g[i - 1] = f[i - 1] BY <2>4, <4>1
      <4> HIDE DEF g
      <4> QED BY <4>2
    <3>2. CASE ~(i > 1)
      BY <3>2
    <3> QED BY <3>1, <3>2
  <2>6. g = [i \in 1..n |-> e(g, i)]
    <3> DEFINE h == [i \in 1..n |-> e(g, i)]
    <3>1. \A i \in 1..n : g[i] = h[i]
      <4> HIDE DEF e
      <4>1. \A i \in 1..n : g[i] = e(f, i) OBVIOUS
      <4>2. \A i \in 1..n : h[i] = e(g, i) OBVIOUS
      <4> QED BY <2>5, <4>1, <4>2
    <3>2. DOMAIN g = 1..n /\ DOMAIN h = 1..n OBVIOUS
    <3>3. g = [i \in 1..n |-> g[i]] /\ h = [i \in 1..n |-> h[i]] OBVIOUS
    <3> HIDE DEF g, h
    <3>4. g = h BY <3>1, <3>3
    <3> QED BY <3>4 DEF h
  <2> HIDE DEF g
  <2> QED BY <2>6 DEF EscapesUpTo
<1> QED BY <1>2, <1>3

LEMMA EscapedIs ==
  ASSUME NEW s, Len(s) \in Nat
  PROVE  \A i \in 1..Len(s) :
           Escaped(s)[i] = (i > 1 /\ s[i - 1] = ESCAPE /\ ~Escaped(s)[i - 1])
<1> DEFINE P(f) == f = [i \in 1..Len(s) |-> i > 1 /\ s[i - 1] = ESCAPE /\ ~f[i - 1]]
<1>1. PICK g : P(g)
  <2>1. PICK h : EscapesUpTo(h, s, Len(s)) BY EscapesExist
  <2>2. P(h) BY <2>1 DEF EscapesUpTo
  <2> QED BY <2>2
<1>2. P(CHOOSE f : P(f))
  <2> HIDE DEF P
  <2> QED BY <1>1, Zenon
<1>3. Escaped(s) = CHOOSE f : P(f)
  BY DEF Escaped
<1> HIDE DEF P
<1>4. P(Escaped(s))
  BY <1>2, <1>3
<1> DEFINE e == Escaped(s)
           r(i) == i > 1 /\ s[i - 1] = ESCAPE /\ ~e[i - 1]
<1>5. e = [i \in 1..Len(s) |-> r(i)]
  BY <1>4 DEF P
<1> HIDE DEF e, r
<1>6. \A i \in 1..Len(s) : e[i] = r(i)
  BY <1>5
<1> QED BY <1>6 DEF e, r

LEMMA AppendFactsOfLine ==
  ASSUME NEW s \in Seq(Chars), NEW c \in Chars, NEW t, t = Append(s, c)
  PROVE  /\ t \in Seq(Chars) /\ Len(t) = Len(s) + 1 /\ Len(s) \in Nat /\ Len(t) \in Nat
         /\ \A i \in 1..Len(s) : t[i] = s[i]
         /\ t[Len(s) + 1] = c
OBVIOUS

LEMMA EscapedAppend ==
  ASSUME NEW s \in Seq(Chars), NEW c \in Chars, NEW t, t = Append(s, c)
  PROVE  /\ \A i \in 1..Len(s) : Escaped(t)[i] = Escaped(s)[i]
         /\ Escaped(t)[Len(s) + 1] <=> Len(s) \in Marks(s, ESCAPE)
<1> DEFINE n == Len(s)
           e == Escaped(s)
           f == Escaped(t)
           S == {i \in 1..n : f[i] # e[i]}
<1>1. /\ n \in Nat /\ Len(t) = n + 1 /\ Len(t) \in Nat
      /\ \A i \in 1..n : t[i] = s[i]
  BY AppendFactsOfLine
<1>2. \A i \in 1..n : e[i] = (i > 1 /\ s[i - 1] = ESCAPE /\ ~e[i - 1])
  BY <1>1, EscapedIs
<1>3. \A i \in 1..(n + 1) : f[i] = (i > 1 /\ t[i - 1] = ESCAPE /\ ~f[i - 1])
  BY <1>1, EscapedIs
<1>4. n \in Marks(s, ESCAPE) <=> n \in 1..n /\ s[n] = ESCAPE /\ ~e[n]
  BY DEF Marks
<1> HIDE DEF n, e, f
<1>5. \A i \in 1..n : f[i] = e[i]
  <2> SUFFICES ASSUME S # {} PROVE FALSE OBVIOUS
  <2>1. S \in SUBSET Nat OBVIOUS
  <2>2. PICK i \in S : \A k \in S : i <= k
    <3> HIDE DEF S
    <3> QED BY <2>1, LeastElement
  <2>3. i \in 1..n /\ f[i] # e[i] OBVIOUS
  <2>4. CASE i = 1
    <3>1. ~(i > 1) /\ i \in 1..(n + 1) BY <1>1, <2>3, <2>4
    <3>2. f[i] = (i > 1 /\ t[i - 1] = ESCAPE /\ ~f[i - 1]) BY <1>3, <3>1
    <3>3. e[i] = (i > 1 /\ s[i - 1] = ESCAPE /\ ~e[i - 1]) BY <1>2, <2>3
    <3>4. (i > 1 /\ t[i - 1] = ESCAPE /\ ~f[i - 1]) = (i > 1 /\ s[i - 1] = ESCAPE /\ ~e[i - 1])
      BY <3>1
    <3> QED BY <2>3, <3>2, <3>3, <3>4
  <2>5. CASE i # 1
    <3>1. i - 1 \in 1..n /\ i > 1 /\ ~(i <= i - 1) /\ i \in 1..(n + 1) BY <1>1, <2>3, <2>5
    <3>2. f[i - 1] = e[i - 1] BY <2>2, <3>1
    <3>3. t[i - 1] = s[i - 1] BY <1>1, <3>1
    <3>4. f[i] = (i > 1 /\ t[i - 1] = ESCAPE /\ ~f[i - 1]) BY <1>3, <3>1
    <3>5. e[i] = (i > 1 /\ s[i - 1] = ESCAPE /\ ~e[i - 1]) BY <1>2, <2>3
    <3>6. (i > 1 /\ t[i - 1] = ESCAPE /\ ~f[i - 1]) = (i > 1 /\ s[i - 1] = ESCAPE /\ ~e[i - 1])
      BY <3>2, <3>3
    <3> QED BY <2>3, <3>4, <3>5, <3>6
  <2> QED BY <2>4, <2>5
<1>6. f[n + 1] <=> n \in Marks(s, ESCAPE)
  <2>1. n + 1 \in 1..(n + 1) /\ (n + 1) - 1 = n BY <1>1
  <2>2. f[n + 1] = (n + 1 > 1 /\ t[n] = ESCAPE /\ ~f[n]) BY <1>3, <2>1
  <2>3. CASE n = 0
    <3>1. ~(n + 1 > 1) /\ n \notin 1..n BY <1>1, <2>3
    <3>2. ~f[n + 1] BY <2>2, <3>1
    <3> QED BY <1>4, <3>1, <3>2
  <2>4. CASE n # 0
    <3>1. n \in 1..n /\ n + 1 > 1 BY <1>1, <2>4
    <3>2. f[n] = e[n] /\ t[n] = s[n] BY <1>1, <1>5, <3>1
    <3>3. f[n + 1] <=> (t[n] = ESCAPE /\ ~f[n]) BY <2>2, <3>1
    <3> QED BY <1>4, <3>1, <3>2, <3>3
  <2> QED BY <2>3, <2>4
<1> QED BY <1>5, <1>6 DEF n, e, f

\* Sets of positions that differ at most in the new one.
Grows(S, T, n, more) == /\ S \subseteq 1..n
                        /\ T = IF more THEN S \cup {n + 1} ELSE S

LEMMA MarksAppend ==
  ASSUME NEW s \in Seq(Chars), NEW c \in Chars, NEW t, t = Append(s, c), NEW x
  PROVE  Grows(Marks(s, x), Marks(t, x), Len(s), c = x /\ Len(s) \notin Marks(s, ESCAPE))
<1> DEFINE n == Len(s)
           e == Escaped(s)
           f == Escaped(t)
           esc == n \in Marks(s, ESCAPE)
<1>1. /\ n \in Nat /\ Len(t) = n + 1
      /\ \A i \in 1..n : t[i] = s[i]
      /\ t[n + 1] = c
  BY AppendFactsOfLine
<1>2. (\A i \in 1..n : f[i] = e[i]) /\ (f[n + 1] <=> esc)
  BY EscapedAppend
<1>3. /\ Marks(s, x) = {i \in 1..n : s[i] = x /\ ~e[i]}
      /\ Marks(t, x) = {i \in 1..(n + 1) : t[i] = x /\ ~f[i]}
  BY <1>1 DEF Marks
<1> HIDE DEF n, e, f, esc
<1>4. \A i \in 1..(n + 1) : i \in 1..n \/ i = n + 1
  BY <1>1
<1>5. \A i \in 1..n : i \in 1..(n + 1)
  BY <1>1
<1>6. n + 1 \in 1..(n + 1)
  BY <1>1
<1>7. \A i : i \in Marks(t, x) <=> i \in Marks(s, x) \/ (i = n + 1 /\ c = x /\ ~esc)
  <2>1. ASSUME NEW i \in 1..n PROVE i \in Marks(t, x) <=> i \in Marks(s, x)
    BY <1>1, <1>2, <1>3, <1>5
  <2>2. n + 1 \in Marks(t, x) <=> c = x /\ ~esc
    BY <1>1, <1>2, <1>3, <1>6
  <2>3. n + 1 \notin 1..n BY <1>1
  <2> QED BY <1>3, <1>4, <2>1, <2>2, <2>3
<1>8. CASE c = x /\ ~esc
  <2>1. Marks(t, x) = Marks(s, x) \cup {n + 1} BY <1>7, <1>8
  <2> QED BY <1>3, <1>8, <2>1 DEF Grows, n, esc
<1>9. CASE ~(c = x /\ ~esc)
  <2>1. Marks(t, x) = Marks(s, x) BY <1>7, <1>9
  <2> QED BY <1>3, <1>9, <2>1 DEF Grows, n, esc
<1> QED BY <1>8, <1>9

\* The rank of a position, and that a position behind the others changes no rank.
LEMMA RankFacts ==
  ASSUME NEW n \in Nat, NEW S \in SUBSET (1..n)
  PROVE  /\ Cardinality(S) \in Nat /\ IsFiniteSet(S)
         /\ \A i \in Nat : Rank(S, i) \in Nat /\ Rank(S, i) <= Cardinality(S)
         /\ Rank(S, 0) = 0
         /\ \A i \in Nat : n <= i => Rank(S, i) = Cardinality(S)
         /\ \A i \in Nat : i < n /\ n \in S => Rank(S, i) < Cardinality(S)
         /\ \A i \in 0..n : Rank(S \cup {n + 1}, i) = Rank(S, i)
         /\ Rank(S \cup {n + 1}, n + 1) = Cardinality(S) + 1
         /\ Cardinality(S \cup {n + 1}) = Cardinality(S) + 1
<1>0. \A j \in S : j \in Nat /\ 1 <= j /\ j <= n
  OBVIOUS
<1>1. IsFiniteSet(S) /\ Cardinality(S) \in Nat
  <2>1. IsFiniteSet(1..n) BY FS_Interval
  <2> QED BY <2>1, FS_Subset, FS_CardinalityType
<1>2. ASSUME NEW i \in Nat PROVE Rank(S, i) \in Nat /\ Rank(S, i) <= Cardinality(S)
  <2>1. {j \in S : j <= i} \subseteq S OBVIOUS
  <2> QED BY <1>1, <2>1, FS_Subset, FS_CardinalityType DEF Rank
<1>3. Rank(S, 0) = 0
  <2>0. \A j \in S : ~(j <= 0) BY <1>0
  <2>1. {j \in S : j <= 0} = {} BY <2>0, Zenon
  <2> QED BY <2>1, FS_EmptySet DEF Rank
<1>4. ASSUME NEW i \in Nat, n <= i PROVE Rank(S, i) = Cardinality(S)
  <2>0. \A j \in S : j <= i BY <1>0, <1>4
  <2>1. {j \in S : j <= i} = S BY <2>0, Zenon
  <2> QED BY <2>1 DEF Rank
<1>5. ASSUME NEW i \in Nat, i < n, n \in S PROVE Rank(S, i) < Cardinality(S)
  <2> DEFINE T == {j \in S : j <= i}
  <2>1. T \subseteq S /\ T # S BY <1>0, <1>5
  <2>2. IsFiniteSet(T) /\ Cardinality(T) \in Nat /\ Cardinality(T) <= Cardinality(S)
        /\ (Cardinality(T) = Cardinality(S) => T = S)
    BY <1>1, <2>1, FS_Subset, FS_CardinalityType
  <2> QED BY <1>1, <2>1, <2>2 DEF Rank
<1>6. ASSUME NEW i \in 0..n PROVE Rank(S \cup {n + 1}, i) = Rank(S, i)
  <2>1. {j \in S \cup {n + 1} : j <= i} = {j \in S : j <= i} BY <1>0, <1>6
  <2> QED BY <2>1 DEF Rank
<1>7. Cardinality(S \cup {n + 1}) = Cardinality(S) + 1
  <2>1. n + 1 \notin S BY <1>0
  <2> QED BY <1>1, <2>1, FS_AddElement
<1>8. Rank(S \cup {n + 1}, n + 1) = Cardinality(S) + 1
  <2>0. \A j \in S \cup {n + 1} : j <= n + 1 BY <1>0
  <2>1. {j \in S \cup {n + 1} : j <= n + 1} = S \cup {n + 1} BY <2>0, Zenon
  <2> QED BY <1>7, <2>1 DEF Rank
<1> QED BY <1>1, <1>2, <1>3, <1>4, <1>5, <1>6, <1>7, <1>8

\* In quotes at the end of the line.
Open(s) == Cardinality(Marks(s, QUOTE)) % 2 = 1

\* What the next character c separates, removes and begins.
Separates(s, c) == c = SPACE /\ Len(s) \notin Marks(s, ESCAPE) /\ ~Open(s)
Remains(s, c) == ~Separates(s, c) /\ (Len(s) \in Marks(s, ESCAPE) \/ c \notin {QUOTE, ESCAPE})
Starts(s, c) == ~Separates(s, c) /\ (Len(s) = 0 \/ Len(s) \in Separators(s))

LEMMA GrowsBy ==
  ASSUME NEW n \in Nat, NEW S \in SUBSET (1..n), NEW T \in SUBSET (1..(n + 1)),
         \A i \in 1..n : i \in T <=> i \in S,
         NEW more, n + 1 \in T <=> more
  PROVE  Grows(S, T, n, more)
<1>1. \A i \in 1..(n + 1) : i \in 1..n \/ i = n + 1
  OBVIOUS
<1>2. CASE more
  <2>1. T = S \cup {n + 1} BY <1>1, <1>2
  <2> QED BY <1>2, <2>1 DEF Grows
<1>3. CASE ~more
  <2>1. T = S BY <1>1, <1>3
  <2> QED BY <1>3, <2>1 DEF Grows
<1> QED BY <1>2, <1>3

LEMMA QuotedAppend ==
  ASSUME NEW s \in Seq(Chars), NEW c \in Chars, NEW t, t = Append(s, c)
  PROVE  /\ \A i \in 1..Len(s) : Quoted(Marks(t, QUOTE), i) <=> Quoted(Marks(s, QUOTE), i)
         /\ Quoted(Marks(t, QUOTE), Len(s) + 1) <=> Open(s)
         /\ Open(t) <=> IF c = QUOTE /\ Len(s) \notin Marks(s, ESCAPE) THEN ~Open(s) ELSE Open(s)
<1> DEFINE n == Len(s)
           q == Marks(s, QUOTE)
           r == Marks(t, QUOTE)
           more == c = QUOTE /\ Len(s) \notin Marks(s, ESCAPE)
<1>1. n \in Nat OBVIOUS
<1> HIDE DEF more
<1>0. Grows(q, r, n, more) BY MarksAppend DEF more
<1>2. q \in SUBSET (1..n) /\ r = IF more THEN q \cup {n + 1} ELSE q
  BY <1>0 DEF Grows
<1> HIDE DEF q, r, n
<1>3. \A i \in 0..n : Rank(r, i) = Rank(q, i)
  <2>1. CASE more BY <1>1, <1>2, <2>1, RankFacts
  <2>2. CASE ~more BY <1>2, <2>2
  <2> QED BY <2>1, <2>2
<1>4. ASSUME NEW i \in 1..n PROVE Quoted(r, i) <=> Quoted(q, i)
  <2>1. i - 1 \in 0..n BY <1>1
  <2>2. Rank(r, i - 1) = Rank(q, i - 1) BY <1>3, <2>1
  <2> QED BY <2>2 DEF Quoted
<1>5. Quoted(r, n + 1) <=> Cardinality(q) % 2 = 1
  <2>1. (n + 1) - 1 = n /\ n \in 0..n BY <1>1
  <2>2. Rank(r, n) = Rank(q, n) BY <1>3, <2>1
  <2>3. Rank(q, n) = Cardinality(q)
    <3>1. n <= n BY <1>1
    <3>2. \A i \in Nat : n <= i => Rank(q, i) = Cardinality(q) BY <1>1, <1>2, RankFacts
    <3> QED BY <1>1, <3>1, <3>2
  <2> QED BY <2>1, <2>2, <2>3 DEF Quoted
<1>6. Cardinality(r) % 2 = 1 <=> IF more THEN ~(Cardinality(q) % 2 = 1)
                                 ELSE Cardinality(q) % 2 = 1
  <2>1. CASE more
    <3>1. Cardinality(q) \in Nat /\ Cardinality(r) = Cardinality(q) + 1
      BY <1>1, <1>2, <2>1, RankFacts
    <3> QED BY <2>1, <3>1
  <2>2. CASE ~more BY <1>2, <2>2
  <2> QED BY <2>1, <2>2
<1> QED BY <1>4, <1>5, <1>6 DEF Open, n, q, r, more

LEMMA SeparatorsAppend ==
  ASSUME NEW s \in Seq(Chars), NEW c \in Chars, NEW t, t = Append(s, c)
  PROVE  Grows(Separators(s), Separators(t), Len(s), Separates(s, c))
<1> DEFINE n == Len(s)
           S == Separators(s)
           T == Separators(t)
<1>1. n \in Nat /\ Len(t) = n + 1 OBVIOUS
<1>2. /\ Marks(s, SPACE) \subseteq 1..n
      /\ Marks(t, SPACE) = IF c = SPACE /\ n \notin Marks(s, ESCAPE)
                           THEN Marks(s, SPACE) \cup {n + 1} ELSE Marks(s, SPACE)
  <2>1. Grows(Marks(s, SPACE), Marks(t, SPACE), n, c = SPACE /\ n \notin Marks(s, ESCAPE))
    BY MarksAppend
  <2> QED BY <2>1 DEF Grows
<1>3. /\ \A i : i \in S <=> i \in Marks(s, SPACE) /\ ~Quoted(Marks(s, QUOTE), i)
      /\ \A i : i \in T <=> i \in Marks(t, SPACE) /\ ~Quoted(Marks(t, QUOTE), i)
  BY DEF Separators
<1>4. /\ \A i \in 1..n : Quoted(Marks(t, QUOTE), i) <=> Quoted(Marks(s, QUOTE), i)
      /\ Quoted(Marks(t, QUOTE), n + 1) <=> Open(s)
  BY QuotedAppend
<1> HIDE DEF n, S, T
<1>5. n + 1 \notin 1..n /\ 1..n \subseteq 1..(n + 1) /\ n + 1 \in 1..(n + 1)
  BY <1>1
<1>6. S \in SUBSET (1..n) /\ T \in SUBSET (1..(n + 1))
  BY <1>2, <1>3, <1>5
<1>7. \A i \in 1..n : i \in T <=> i \in S
  BY <1>2, <1>3, <1>4, <1>5
<1>8. n + 1 \in T <=> Separates(s, c)
  BY <1>2, <1>3, <1>4, <1>5 DEF Separates, n
<1> QED BY <1>1, <1>6, <1>7, <1>8, GrowsBy DEF n, S, T

LEMMA BeginsAppend ==
  ASSUME NEW s \in Seq(Chars), NEW c \in Chars, NEW t, t = Append(s, c)
  PROVE  Grows(Begins(s), Begins(t), Len(s), Starts(s, c))
<1> DEFINE n == Len(s)
           P == Separators(s)
           Q == Separators(t)
           S == Begins(s)
           T == Begins(t)
           sep == Separates(s, c)
<1>1. n \in Nat /\ Len(t) = n + 1 OBVIOUS
<1>2. P \subseteq 1..n /\ Q = IF sep THEN P \cup {n + 1} ELSE P
  BY SeparatorsAppend DEF Grows
<1>3. /\ S = {i \in 1..n : i \notin P /\ (i = 1 \/ i - 1 \in P)}
      /\ T = {i \in 1..(n + 1) : i \notin Q /\ (i = 1 \/ i - 1 \in Q)}
  BY <1>1 DEF Begins
<1> HIDE DEF n, P, Q, S, T, sep
<1>4. S \in SUBSET (1..n) /\ T \in SUBSET (1..(n + 1))
  BY <1>3
<1>5. ASSUME NEW i \in 1..n PROVE i \in T <=> i \in S
  <2>1. i \in 1..(n + 1) /\ i # n + 1 /\ i - 1 # n + 1 BY <1>1
  <2>2. (i \in Q <=> i \in P) /\ (i - 1 \in Q <=> i - 1 \in P) BY <1>2, <2>1
  <2> QED BY <1>3, <2>1, <2>2
<1>6. n + 1 \in T <=> ~sep /\ (n = 0 \/ n \in P)
  <2>1. n + 1 \in 1..(n + 1) /\ (n + 1) - 1 = n /\ n # n + 1 /\ (n + 1 = 1 <=> n = 0)
        /\ n + 1 \notin 1..n
    BY <1>1
  <2>2. (n + 1 \in Q <=> sep) /\ (n \in Q <=> n \in P) BY <1>2, <2>1
  <2> QED BY <1>3, <2>1, <2>2
<1>7. n + 1 \in T <=> Starts(s, c)
  BY <1>6 DEF Starts, n, P, sep
<1> QED BY <1>1, <1>4, <1>5, <1>7, GrowsBy DEF n, S, T

LEMMA KeptAppend ==
  ASSUME NEW s \in Seq(Chars), NEW c \in Chars, NEW t, t = Append(s, c)
  PROVE  Grows(Kept(s), Kept(t), Len(s), Remains(s, c))
<1> DEFINE n == Len(s)
           S == Kept(s)
           T == Kept(t)
           sep == Separates(s, c)
           esc == n \in Marks(s, ESCAPE)
<1>1. n \in Nat /\ Len(t) = n + 1 OBVIOUS
<1>2. /\ Separators(s) \subseteq 1..n
      /\ Separators(t) = IF sep THEN Separators(s) \cup {n + 1} ELSE Separators(s)
  BY SeparatorsAppend DEF Grows
<1>3. /\ Marks(s, QUOTE) \subseteq 1..n
      /\ Marks(t, QUOTE) = IF c = QUOTE /\ ~esc THEN Marks(s, QUOTE) \cup {n + 1}
                           ELSE Marks(s, QUOTE)
  <2>1. Grows(Marks(s, QUOTE), Marks(t, QUOTE), n, c = QUOTE /\ n \notin Marks(s, ESCAPE))
    BY MarksAppend
  <2> QED BY <2>1 DEF Grows
<1>4. /\ Marks(s, ESCAPE) \subseteq 1..n
      /\ Marks(t, ESCAPE) = IF c = ESCAPE /\ ~esc THEN Marks(s, ESCAPE) \cup {n + 1}
                            ELSE Marks(s, ESCAPE)
  <2>1. Grows(Marks(s, ESCAPE), Marks(t, ESCAPE), n, c = ESCAPE /\ n \notin Marks(s, ESCAPE))
    BY MarksAppend
  <2> QED BY <2>1 DEF Grows
<1>5. /\ \A i : i \in S <=> /\ i \in 1..n /\ i \notin Separators(s)
                            /\ i \notin Marks(s, QUOTE) /\ i \notin Marks(s, ESCAPE)
      /\ \A i : i \in T <=> /\ i \in 1..(n + 1) /\ i \notin Separators(t)
                            /\ i \notin Marks(t, QUOTE) /\ i \notin Marks(t, ESCAPE)
  BY <1>1 DEF Kept
<1>6. sep => ~esc /\ c = SPACE BY DEF Separates
<1> HIDE DEF n, S, T, sep, esc
<1>7. n + 1 \notin 1..n /\ 1..n \subseteq 1..(n + 1) /\ n + 1 \in 1..(n + 1)
  BY <1>1
<1>8. S \in SUBSET (1..n) /\ T \in SUBSET (1..(n + 1))
  BY <1>5
<1>9. ASSUME NEW i \in 1..n PROVE i \in T <=> i \in S
  <2>1. i # n + 1 /\ i \in 1..(n + 1) BY <1>7
  <2> QED BY <1>2, <1>3, <1>4, <1>5, <2>1
<1>10. n + 1 \in T <=> ~sep /\ ~(c = QUOTE /\ ~esc) /\ ~(c = ESCAPE /\ ~esc)
  BY <1>2, <1>3, <1>4, <1>5, <1>7
<1>11. n + 1 \in T <=> Remains(s, c)
  BY <1>10 DEF Remains, n, sep, esc
<1> QED BY <1>1, <1>8, <1>9, <1>11, GrowsBy DEF n, S, T

\* Going through the positions, the rank grows by one at each of S.
LEMMA RankStep ==
  ASSUME NEW n \in Nat, NEW S \in SUBSET (1..n), NEW i \in Nat \ {0}
  PROVE  Rank(S, i) = IF i \in S THEN Rank(S, i - 1) + 1 ELSE Rank(S, i - 1)
<1> DEFINE A == {j \in S : j <= i - 1}
           B == {j \in S : j <= i}
<1>1. \A j \in S : j \in Nat /\ (j <= i <=> j <= i - 1 \/ j = i) /\ ~(i <= i - 1)
  OBVIOUS
<1>2. IsFiniteSet(A)
  <2>1. IsFiniteSet(1..n) BY FS_Interval
  <2> QED BY <2>1, FS_Subset
<1>3. CASE i \in S
  <2>1. B = A \cup {i} /\ i \notin A BY <1>1, <1>3, Zenon
  <2>2. Cardinality(B) = Cardinality(A) + 1 BY <1>2, <2>1, FS_AddElement
  <2> QED BY <1>3, <2>2 DEF Rank
<1>4. CASE i \notin S
  <2>1. B = A BY <1>1, <1>4, Zenon
  <2> QED BY <1>4, <2>1 DEF Rank
<1> QED BY <1>3, <1>4

\* So every rank is taken.
LEMMA RankTaken ==
  ASSUME NEW n \in Nat, NEW S \in SUBSET (1..n), NEW m \in 1..Cardinality(S)
  PROVE  \E i \in S : Rank(S, i) = m
<1> DEFINE T == {i \in 0..n : m <= Rank(S, i)}
<1>1. /\ Cardinality(S) \in Nat /\ Rank(S, 0) = 0
      /\ \A i \in Nat : Rank(S, i) \in Nat
      /\ \A i \in Nat : n <= i => Rank(S, i) = Cardinality(S)
  BY RankFacts
<1>2. n \in T
  <2>1. n \in Nat /\ n <= n OBVIOUS
  <2>2. Rank(S, n) = Cardinality(S) BY <1>1, <2>1
  <2>3. m <= Cardinality(S) BY <1>1
  <2> QED BY <2>1, <2>2, <2>3
<1>3. PICK i \in T : \A k \in T : i <= k
  <2>1. T \in SUBSET Nat OBVIOUS
  <2> HIDE DEF T
  <2> QED BY <1>2, <2>1, LeastElement
<1>4. i \in 0..n /\ m <= Rank(S, i) OBVIOUS
<1>5. i # 0
  <2>1. m \in Nat /\ ~(m <= 0) BY <1>1
  <2> QED BY <1>1, <1>4, <2>1
<1>6. i \in Nat \ {0} /\ i - 1 \in 0..n /\ ~(i <= i - 1) /\ i - 1 \in Nat BY <1>4, <1>5
<1>7. ~(m <= Rank(S, i - 1)) BY <1>3, <1>6
<1>8. Rank(S, i) = IF i \in S THEN Rank(S, i - 1) + 1 ELSE Rank(S, i - 1)
  BY <1>6, RankStep
<1>9. Rank(S, i - 1) \in Nat /\ m \in Nat BY <1>1, <1>6
<1>10. i \in S BY <1>4, <1>7, <1>8
<1>11. Rank(S, i) = m BY <1>4, <1>7, <1>8, <1>9, <1>10
<1> QED BY <1>10, <1>11

\* What is picked from the line so far stays, and the new character comes last.
PickedGrows(s, t, c, S) ==
  /\ Picked(s, S) \in Seq(Chars)
  /\ Picked(t, S) = Picked(s, S)
  /\ Picked(t, S \cup {Len(s) + 1}) = Append(Picked(s, S), c)

LEMMA PickedAppend ==
  ASSUME NEW s \in Seq(Chars), NEW c \in Chars, NEW t, t = Append(s, c),
         NEW S \in SUBSET (1..Len(s))
  PROVE  PickedGrows(s, t, c, S)
<1> DEFINE n == Len(s)
           N == Cardinality(S)
           T == S \cup {n + 1}
           nth(A, m) == CHOOSE i \in {j \in A : Rank(A, j) = m} : TRUE
<1>1. /\ n \in Nat /\ \A i \in 1..n : t[i] = s[i] /\ s[i] \in Chars
      /\ t[n + 1] = c
  BY AppendFactsOfLine
<1>2. /\ N \in Nat
      /\ \A i \in Nat : Rank(S, i) \in Nat /\ Rank(S, i) <= N
      /\ \A i \in 0..n : Rank(T, i) = Rank(S, i)
      /\ Rank(T, n + 1) = N + 1 /\ Cardinality(T) = N + 1
  BY <1>1, RankFacts
<1>3. ASSUME NEW m \in 1..N PROVE nth(S, m) \in S
  <2>0. PICK i \in S : Rank(S, i) = m BY <1>1, RankTaken
  <2>1. \E j \in {k \in S : Rank(S, k) = m} : TRUE BY <2>0
  <2> QED BY <2>1
<1>4. /\ Picked(s, S) = [m \in 1..N |-> s[nth(S, m)]]
      /\ Picked(t, S) = [m \in 1..N |-> t[nth(S, m)]]
      /\ Picked(t, T) = [m \in 1..(N + 1) |-> t[nth(T, m)]]
  BY <1>2 DEF Picked
<1>5. ASSUME NEW m \in 1..N PROVE nth(T, m) = nth(S, m)
  <2>1. \A j \in S : Rank(T, j) = Rank(S, j)
    <3>1. \A j \in S : j \in 0..n BY <1>1
    <3> QED BY <1>2, <3>1
  <2>2. Rank(T, n + 1) # m BY <1>2
  <2>3. {j \in T : Rank(T, j) = m} = {j \in S : Rank(S, j) = m}
    BY <2>1, <2>2
  <2> QED BY <2>3
<1>6. nth(T, N + 1) = n + 1
  <2>1. \A j \in S : Rank(T, j) # N + 1
    <3>1. \A j \in S : j \in 0..n /\ j \in Nat BY <1>1
    <3> HIDE DEF N, T
    <3> QED BY <1>2, <3>1
  <2>2. {j \in T : Rank(T, j) = N + 1} = {n + 1} BY <1>2, <2>1
  <2> QED BY <2>2
<1> HIDE DEF n, N, T, nth
<1>7. Picked(s, S) \in Seq(Chars)
  <2>1. \A m \in 1..N : s[nth(S, m)] \in Chars BY <1>1, <1>3 DEF n
  <2> QED BY <1>2, <1>4, <2>1
<1>8. Picked(t, S) = Picked(s, S)
  <2>1. \A m \in 1..N : t[nth(S, m)] = s[nth(S, m)] BY <1>1, <1>3 DEF n
  <2> QED BY <1>4, <2>1
<1>9. Picked(t, T) = Append(Picked(s, S), c)
  <2> DEFINE p == Picked(s, S)
             q == Picked(t, T)
  <2>1. Len(p) = N /\ p \in Seq(Chars) /\ \A m \in 1..N : p[m] = s[nth(S, m)]
    BY <1>2, <1>4, <1>7
  <2>2. \A m \in 1..N : m \in 1..(N + 1) /\ q[m] = p[m]
    <3> SUFFICES ASSUME NEW m \in 1..N PROVE m \in 1..(N + 1) /\ q[m] = p[m] OBVIOUS
    <3>1. m \in 1..(N + 1) BY <1>2
    <3>2. q[m] = t[nth(T, m)] BY <1>4, <3>1
    <3>3. t[nth(T, m)] = s[nth(S, m)] BY <1>1, <1>3, <1>5 DEF n
    <3> QED BY <2>1, <3>1, <3>2, <3>3
  <2>3. q[N + 1] = c
    <3>1. N + 1 \in 1..(N + 1) BY <1>2
    <3> QED BY <1>1, <1>4, <1>6, <3>1
  <2>4. q = [m \in 1..(N + 1) |-> q[m]] BY <1>4
  <2> DEFINE r == Append(p, c)
  <2> HIDE DEF p, q
  <2>5. /\ r \in Seq(Chars) /\ Len(r) = N + 1
        /\ \A m \in 1..N : r[m] = p[m]
        /\ r[N + 1] = c
    BY <2>1, AppendProperties
  <2>6. \A m \in 1..(N + 1) : m \in 1..N \/ m = N + 1 BY <1>2
  <2> HIDE DEF r
  <2>7. \A m \in 1..(N + 1) : q[m] = r[m] BY <2>2, <2>3, <2>5, <2>6
  <2>8. q \in Seq(Chars) /\ Len(q) = N + 1
    <3>0. \A m \in 1..(N + 1) : r[m] \in Chars BY <2>5
    <3>1. \A m \in 1..(N + 1) : q[m] \in Chars BY <2>7, <3>0, Zenon
    <3>2. N + 1 \in Nat BY <1>2
    <3> QED BY <2>4, <3>1, <3>2
  <2>9. q = r BY <2>5, <2>7, <2>8, SeqEqual
  <2> QED BY <2>9 DEF p, q, r
<1> QED BY <1>7, <1>8, <1>9 DEF PickedGrows, n, T

\* The positions that remain of run k, argument k, and how many there are.
RunOf(s, k) == {i \in Kept(s) : Rank(Begins(s), i) = k}
TokenOf(s, k) == Picked(s, RunOf(s, k))
Count(s) == Cardinality(Begins(s))

LEMMA TokensAre ==
  ASSUME NEW s
  PROVE  Tokens(s) = [k \in 1..Count(s) |-> TokenOf(s, k)]
BY DEF Tokens, Count, TokenOf, RunOf

LEMMA CountAppend ==
  ASSUME NEW s \in Seq(Chars), NEW c \in Chars, NEW t, t = Append(s, c)
  PROVE  /\ Count(s) \in Nat /\ Count(t) \in Nat
         /\ Count(t) = IF Starts(s, c) THEN Count(s) + 1 ELSE Count(s)
         /\ Rank(Begins(t), Len(s) + 1) = Count(t)
         /\ \A i \in 1..Len(s) : Rank(Begins(t), i) = Rank(Begins(s), i)
<1> DEFINE n == Len(s)
           S == Begins(s)
           T == Begins(t)
           more == Starts(s, c)
<1>1. n \in Nat OBVIOUS
<1>2. S \in SUBSET (1..n) /\ T = IF more THEN S \cup {n + 1} ELSE S
  BY BeginsAppend DEF Grows
<1> HIDE DEF n, S, T, more
<1>3. /\ Cardinality(S) \in Nat /\ Cardinality(S \cup {n + 1}) = Cardinality(S) + 1
      /\ Rank(S \cup {n + 1}, n + 1) = Cardinality(S) + 1
      /\ \A i \in 0..n : Rank(S \cup {n + 1}, i) = Rank(S, i)
      /\ \A i \in Nat : n <= i => Rank(S, i) = Cardinality(S)
  BY <1>1, <1>2, RankFacts
<1>4. n + 1 \in Nat /\ n <= n + 1 /\ \A i \in 1..n : i \in 0..n BY <1>1
<1>5. /\ Cardinality(T) \in Nat
      /\ Cardinality(T) = IF more THEN Cardinality(S) + 1 ELSE Cardinality(S)
      /\ Rank(T, n + 1) = Cardinality(T)
      /\ \A i \in 1..n : Rank(T, i) = Rank(S, i)
  <2>1. CASE more
    <3>1. T = S \cup {n + 1} BY <1>2, <2>1
    <3>2. /\ Cardinality(T) = Cardinality(S) + 1 /\ Rank(T, n + 1) = Cardinality(T)
          /\ \A i \in 0..n : Rank(T, i) = Rank(S, i)
      BY <1>3, <3>1
    <3>3. \A i \in 1..n : Rank(T, i) = Rank(S, i) BY <1>4, <3>2
    <3>4. Cardinality(T) \in Nat BY <1>3, <3>2
    <3> QED BY <2>1, <3>2, <3>3, <3>4
  <2>2. CASE ~more
    <3>1. T = S BY <1>2, <2>2
    <3>2. Rank(S, n + 1) = Cardinality(S) BY <1>3, <1>4
    <3> QED BY <1>3, <2>2, <3>1, <3>2
  <2> QED BY <2>1, <2>2
<1> QED BY <1>3, <1>5 DEF Count, n, S, T, more

\* What of run k remains.
RunGrows(s, t, c, k) ==
  /\ RunOf(s, k) \in SUBSET (1..Len(s))
  /\ RunOf(t, k) = IF Remains(s, c) /\ k = Count(t)
                   THEN RunOf(s, k) \cup {Len(s) + 1} ELSE RunOf(s, k)
  /\ k > Count(s) => RunOf(s, k) = {}
  /\ k = Count(s) /\ Len(s) \in Begins(s) /\ Len(s) \notin Kept(s) => RunOf(s, k) = {}

LEMMA RunFacts ==
  ASSUME NEW s \in Seq(Chars), NEW c \in Chars, NEW t, t = Append(s, c), NEW k \in Nat
  PROVE  RunGrows(s, t, c, k)
<1> DEFINE n == Len(s)
           S == Begins(s)
           T == Begins(t)
           K == Kept(s)
           L == Kept(t)
           more == Remains(s, c)
<1>1. n \in Nat OBVIOUS
<1>2. K \in SUBSET (1..n) /\ L = IF more THEN K \cup {n + 1} ELSE K
  BY KeptAppend DEF Grows
<1>3. S \in SUBSET (1..n) BY BeginsAppend DEF Grows
<1>4. /\ Rank(T, n + 1) = Count(t) /\ \A i \in 1..n : Rank(T, i) = Rank(S, i)
  BY CountAppend
<1>5. /\ Cardinality(S) \in Nat
      /\ \A i \in Nat : Rank(S, i) \in Nat /\ Rank(S, i) <= Cardinality(S)
      /\ \A i \in Nat : i < n /\ n \in S => Rank(S, i) < Cardinality(S)
  BY <1>1, <1>3, RankFacts
<1>6. /\ RunOf(s, k) = {i \in K : Rank(S, i) = k}
      /\ RunOf(t, k) = {i \in L : Rank(T, i) = k}
  BY DEF RunOf
<1>7. Count(s) = Cardinality(S) BY DEF Count
<1> HIDE DEF n, S, T, K, L, more
<1>8. RunOf(s, k) \in SUBSET (1..n) BY <1>2, <1>6
<1>9. RunOf(t, k) = IF more /\ k = Count(t) THEN RunOf(s, k) \cup {n + 1} ELSE RunOf(s, k)
  <2>1. \A i \in K : Rank(T, i) = Rank(S, i) BY <1>2, <1>4
  <2>2. CASE more /\ k = Count(t)
    <3>1. RunOf(t, k) = RunOf(s, k) \cup {n + 1} BY <1>2, <1>4, <1>6, <2>1, <2>2
    <3> QED BY <2>2, <3>1
  <2>3. CASE ~(more /\ k = Count(t))
    <3>1. RunOf(t, k) = RunOf(s, k) BY <1>2, <1>4, <1>6, <2>1, <2>3
    <3> QED BY <2>3, <3>1
  <2> QED BY <2>2, <2>3
<1>10. ASSUME k > Count(s) PROVE RunOf(s, k) = {}
  <2>1. \A i \in K : i \in Nat BY <1>1, <1>2
  <2>2. \A i \in K : Rank(S, i) # k BY <1>5, <1>7, <1>10, <2>1
  <2> QED BY <1>6, <2>2
<1>11. ASSUME k = Count(s), n \in S, n \notin K PROVE RunOf(s, k) = {}
  <2>1. \A i \in K : i \in Nat /\ i < n
    <3>1. \A i \in 1..n : i # n => i \in Nat /\ i < n BY <1>1
    <3> QED BY <1>2, <1>11, <3>1
  <2>2. \A i \in K : Rank(S, i) # k BY <1>5, <1>7, <1>11, <2>1
  <2> QED BY <1>6, <2>2
<1> QED BY <1>8, <1>9, <1>10, <1>11 DEF RunGrows, n, S, K, more

\* And so argument k grows by the character or stays.
TokenGrows(s, t, c, k) ==
  /\ TokenOf(s, k) \in Seq(Chars)
  /\ TokenOf(t, k) = IF Remains(s, c) /\ k = Count(t)
                     THEN Append(TokenOf(s, k), c) ELSE TokenOf(s, k)
  /\ k > Count(s) => TokenOf(s, k) = << >>
  /\ k = Count(s) /\ Len(s) \in Begins(s) /\ Len(s) \notin Kept(s) => TokenOf(s, k) = << >>

LEMMA TokenAppend ==
  ASSUME NEW s \in Seq(Chars), NEW c \in Chars, NEW t, t = Append(s, c), NEW k \in Nat
  PROVE  TokenGrows(s, t, c, k)
<1> DEFINE R == RunOf(s, k)
<1>0. RunGrows(s, t, c, k) BY RunFacts
<1>1. R \in SUBSET (1..Len(s)) BY <1>0 DEF RunGrows
<1>2. RunOf(t, k) = IF Remains(s, c) /\ k = Count(t) THEN R \cup {Len(s) + 1} ELSE R
  BY <1>0 DEF RunGrows
<1>5. /\ k > Count(s) => R = {}
      /\ k = Count(s) /\ Len(s) \in Begins(s) /\ Len(s) \notin Kept(s) => R = {}
  BY <1>0 DEF RunGrows
<1>6. TokenOf(s, k) = Picked(s, R) /\ TokenOf(t, k) = Picked(t, RunOf(t, k))
  BY DEF TokenOf
<1> HIDE DEF R
<1>3. /\ Picked(s, R) \in Seq(Chars) /\ Picked(t, R) = Picked(s, R)
      /\ Picked(t, R \cup {Len(s) + 1}) = Append(Picked(s, R), c)
  <2>1. PickedGrows(s, t, c, R) BY <1>1, PickedAppend
  <2> QED BY <2>1 DEF PickedGrows
<1>4. R = {} => Picked(s, R) = << >>
  <2> SUFFICES ASSUME R = {} PROVE Picked(s, R) = << >> OBVIOUS
  <2> DEFINE N == Cardinality(R)
             e(m) == s[CHOOSE i \in {j \in R : Rank(R, j) = m} : TRUE]
  <2>1. N = 0 BY FS_EmptySet
  <2>2. Picked(s, R) = [m \in 1..N |-> e(m)] BY DEF Picked
  <2> HIDE DEF N, e
  <2>3. Len(Picked(s, R)) = 0 BY <2>1, <2>2
  <2> QED BY <1>3, <2>3, EmptySeq
<1>7. TokenOf(t, k) = IF Remains(s, c) /\ k = Count(t)
                      THEN Append(TokenOf(s, k), c) ELSE TokenOf(s, k)
  <2>1. CASE Remains(s, c) /\ k = Count(t) BY <1>2, <1>3, <1>6, <2>1
  <2>2. CASE ~(Remains(s, c) /\ k = Count(t)) BY <1>2, <1>3, <1>6, <2>2
  <2> QED BY <2>1, <2>2
<1> QED BY <1>3, <1>4, <1>5, <1>6, <1>7 DEF TokenGrows

\* The same of the end of the line, as the flags of the loop see it.
Esc(s) == Len(s) \in Marks(s, ESCAPE)
Fresh(s) == Len(s) = 0 \/ Len(s) \in Separators(s)
Pending(s) == Esc(s) /\ Len(s) \in Begins(s)
Broken(s) == \E i \in Marks(s, PIPE) : ~Quoted(Marks(s, QUOTE), i)

\* What the next character c changes of that.
FlagsStep(s, t, c) ==
  /\ Esc(t) <=> c = ESCAPE /\ ~Esc(s)
  /\ Open(t) <=> IF c = QUOTE /\ ~Esc(s) THEN ~Open(s) ELSE Open(s)
  /\ Fresh(t) <=> Separates(s, c)
  /\ Pending(t) <=> Esc(t) /\ Starts(s, c)
  /\ Broken(t) <=> Broken(s) \/ (c = PIPE /\ ~Esc(s) /\ ~Open(s))
  /\ Esc(s) => ~Fresh(s)
  /\ Starts(s, c) <=> ~Separates(s, c) /\ Fresh(s)
  /\ Separates(s, c) <=> c = SPACE /\ ~Esc(s) /\ ~Open(s)
  /\ Remains(s, c) <=> ~Separates(s, c) /\ (Esc(s) \/ c \notin {QUOTE, ESCAPE})

LEMMA FlagsFacts ==
  ASSUME NEW s \in Seq(Chars), NEW c \in Chars, NEW t, t = Append(s, c)
  PROVE  FlagsStep(s, t, c)
<1> DEFINE n == Len(s)
<1>1. n \in Nat /\ Len(t) = n + 1 /\ n + 1 # 0 /\ n + 1 \notin 1..n
  OBVIOUS
<1>2. ASSUME NEW x
      PROVE  /\ Marks(s, x) \subseteq 1..n
             /\ Marks(t, x) = IF c = x /\ ~Esc(s) THEN Marks(s, x) \cup {n + 1} ELSE Marks(s, x)
  <2>1. Grows(Marks(s, x), Marks(t, x), n, c = x /\ n \notin Marks(s, ESCAPE))
    BY MarksAppend
  <2> QED BY <2>1 DEF Grows, Esc
<1>3. Separators(s) \subseteq 1..n
      /\ Separators(t) = IF Separates(s, c) THEN Separators(s) \cup {n + 1} ELSE Separators(s)
  BY SeparatorsAppend DEF Grows
<1>4. Begins(s) \subseteq 1..n
      /\ Begins(t) = IF Starts(s, c) THEN Begins(s) \cup {n + 1} ELSE Begins(s)
  BY BeginsAppend DEF Grows
<1>5. /\ \A i \in 1..n : Quoted(Marks(t, QUOTE), i) <=> Quoted(Marks(s, QUOTE), i)
      /\ Quoted(Marks(t, QUOTE), n + 1) <=> Open(s)
      /\ Open(t) <=> IF c = QUOTE /\ ~Esc(s) THEN ~Open(s) ELSE Open(s)
  BY QuotedAppend DEF Esc
<1>6. Esc(t) <=> c = ESCAPE /\ ~Esc(s)
  BY <1>1, <1>2 DEF Esc
<1>7. Fresh(t) <=> Separates(s, c)
  BY <1>1, <1>3 DEF Fresh
<1>8. Pending(t) <=> Esc(t) /\ Starts(s, c)
  BY <1>1, <1>4 DEF Pending
<1>9. Broken(t) <=> Broken(s) \/ (c = PIPE /\ ~Esc(s) /\ ~Open(s))
  <2> DEFINE P == Marks(s, PIPE)
             Q == Marks(t, PIPE)
             q(i) == Quoted(Marks(s, QUOTE), i)
             r(i) == Quoted(Marks(t, QUOTE), i)
  <2>1. P \subseteq 1..n /\ Q = IF c = PIPE /\ ~Esc(s) THEN P \cup {n + 1} ELSE P
    BY <1>2
  <2>2. (\A i \in 1..n : r(i) <=> q(i)) /\ (r(n + 1) <=> Open(s))
    BY <1>5
  <2>3. (Broken(s) <=> \E i \in P : ~q(i)) /\ (Broken(t) <=> \E i \in Q : ~r(i))
    BY DEF Broken
  <2> HIDE DEF P, Q, q, r, n
  <2>4. \A i \in P : r(i) <=> q(i) BY <2>1, <2>2
  <2>5. CASE c = PIPE /\ ~Esc(s)
    <3>1. Q = P \cup {n + 1} BY <2>1, <2>5
    <3>2. (\E i \in Q : ~r(i)) <=> (\E i \in P : ~r(i)) \/ ~r(n + 1) BY <3>1
    <3>3. (\E i \in P : ~r(i)) <=> \E i \in P : ~q(i) BY <2>4
    <3> QED BY <2>2, <2>3, <2>5, <3>2, <3>3
  <2>6. CASE ~(c = PIPE /\ ~Esc(s))
    <3>1. Q = P BY <2>1, <2>6
    <3>3. (\E i \in P : ~r(i)) <=> \E i \in P : ~q(i) BY <2>4
    <3> QED BY <2>3, <2>6, <3>1, <3>3
  <2> QED BY <2>5, <2>6
<1>10. Esc(s) => ~Fresh(s)
  <2> SUFFICES ASSUME Esc(s) PROVE ~Fresh(s) OBVIOUS
  <2>1. n \in 1..n BY <1>2 DEF Esc
  <2>2. s[n] = ESCAPE BY DEF Esc, Marks
  <2>3. n \notin Separators(s) BY <2>2, CharsDiffer DEF Separators, Marks
  <2> QED BY <1>1, <2>1, <2>3 DEF Fresh
<1>11. /\ Starts(s, c) <=> ~Separates(s, c) /\ Fresh(s)
       /\ Separates(s, c) <=> c = SPACE /\ ~Esc(s) /\ ~Open(s)
       /\ Remains(s, c) <=> ~Separates(s, c) /\ (Esc(s) \/ c \notin {QUOTE, ESCAPE})
  BY DEF Starts, Separates, Remains, Fresh, Esc
<1> QED
  BY <1>5, <1>6, <1>7, <1>8, <1>9, <1>10, <1>11 DEF FlagsStep

\* What c changes of the arguments.
TokensStep(s, t, c) ==
  /\ Count(s) \in Nat /\ Count(t) \in Nat
  /\ Count(t) = IF Starts(s, c) THEN Count(s) + 1 ELSE Count(s)
  /\ \A k \in Nat : TokenOf(s, k) \in Seq(Chars)
  /\ \A k \in Nat : TokenOf(t, k) = IF Remains(s, c) /\ k = Count(t)
                                    THEN Append(TokenOf(s, k), c) ELSE TokenOf(s, k)
  /\ \A k \in Nat : k > Count(s) => TokenOf(s, k) = << >>
  /\ Pending(s) => TokenOf(s, Count(s)) = << >>

LEMMA TokensFacts ==
  ASSUME NEW s \in Seq(Chars), NEW c \in Chars, NEW t, t = Append(s, c)
  PROVE  TokensStep(s, t, c)
<1>1. /\ Count(s) \in Nat /\ Count(t) \in Nat
      /\ Count(t) = IF Starts(s, c) THEN Count(s) + 1 ELSE Count(s)
  BY CountAppend
<1>2. ASSUME NEW k \in Nat
      PROVE  TokenGrows(s, t, c, k)
  BY TokenAppend
<1>3. Pending(s) => TokenOf(s, Count(s)) = << >>
  <2> SUFFICES ASSUME Pending(s) PROVE TokenOf(s, Count(s)) = << >> OBVIOUS
  <2>1. Len(s) \in Begins(s) /\ Len(s) \notin Kept(s) BY DEF Pending, Esc, Kept
  <2>2. TokenGrows(s, t, c, Count(s)) BY <1>1, <1>2
  <2> QED BY <2>1, <2>2 DEF TokenGrows
<1> QED
  BY <1>1, <1>2, <1>3 DEF TokensStep, TokenGrows

-----------------------------------------------------------------------------
(* The strings of the output.                                               *)
Output == Seq(Chars \cup {NUL})

\* No end of string yet from a position on.
NoNul(out, from) == \A i \in from..Len(out) : out[i] # NUL

LEMMA NulIsNoChar == NUL \notin Chars
BY CharAssumption DEF Chars, NUL, SPACE, QUOTE, ESCAPE, PIPE

\* What one more character x does to the string from a position on.
TextGrows(out, o, x, from) ==
  /\ NoNul(o, from) <=> NoNul(out, from) /\ x # NUL
  /\ ArgText(o, from) = IF NoNul(out, from) /\ x # NUL
                        THEN Append(ArgText(out, from), x) ELSE ArgText(out, from)

LEMMA TextAppend ==
  ASSUME NEW out \in Output, NEW x \in Chars \cup {NUL}, NEW o, o = Append(out, x),
         NEW from \in 1..(Len(out) + 1)
  PROVE  TextGrows(out, o, x, from)
<1> DEFINE n == Len(out)
           A == {i \in from..n : out[i] = NUL}
           B == {i \in from..(n + 1) : o[i] = NUL}
<1>1. /\ n \in Nat /\ from \in Nat \ {0} /\ from <= n + 1
      /\ o \in Output /\ Len(o) = n + 1
      /\ \A i \in 1..n : o[i] = out[i]
      /\ o[n + 1] = x
  BY DEF Output
<1>2. /\ ArgText(out, from) = IF A = {} THEN SubSeq(out, from, n)
                              ELSE SubSeq(out, from, (CHOOSE i \in A : \A j \in A : i <= j) - 1)
      /\ ArgText(o, from) = IF B = {} THEN SubSeq(o, from, n + 1)
                            ELSE SubSeq(o, from, (CHOOSE i \in B : \A j \in B : i <= j) - 1)
  BY <1>1 DEF ArgText
<1>3. (NoNul(out, from) <=> A = {}) /\ (NoNul(o, from) <=> B = {})
  BY <1>1 DEF NoNul
<1>4. B = IF x = NUL THEN A \cup {n + 1} ELSE A
  <2>1. \A i \in from..(n + 1) : i \in from..n \/ i = n + 1 BY <1>1
  <2>2. \A i \in from..n : o[i] = out[i] /\ i \in from..(n + 1) BY <1>1
  <2>3. n + 1 \in from..(n + 1) BY <1>1
  <2>4. ASSUME NEW i PROVE i \in B <=> i \in A \/ (i = n + 1 /\ x = NUL)
    BY <1>1, <2>1, <2>2, <2>3
  <2> HIDE DEF A, B
  <2>5. CASE x = NUL
    <3>1. B = A \cup {n + 1} BY <2>4, <2>5
    <3> QED BY <2>5, <3>1
  <2>6. CASE x # NUL
    <3>1. B = A BY <2>4, <2>6
    <3> QED BY <2>6, <3>1
  <2> QED BY <2>5, <2>6
<1>5. A \in SUBSET Nat /\ \A i \in A : from <= i /\ i <= n
  BY <1>1
<1>6. out \in Output OBVIOUS
<1> HIDE DEF n, A, B
<1>7. ASSUME NEW m \in Nat, from - 1 <= m, m <= n
      PROVE  SubSeq(o, from, m) = SubSeq(out, from, m)
  <2> DEFINE p == SubSeq(out, from, m)
             q == SubSeq(o, from, m)
  <2>1. /\ p \in Output /\ Len(p) = m - from + 1
        /\ \A i \in 1..(m - from + 1) : p[i] = out[from + i - 1]
    <3>1. from \in 1..(Len(out) + 1) /\ m \in (from - 1)..Len(out) BY <1>1, <1>7 DEF n
    <3> QED BY <1>6, <3>1, SubSeqProperties DEF Output
  <2>2. /\ q \in Output /\ Len(q) = m - from + 1
        /\ \A i \in 1..(m - from + 1) : q[i] = o[from + i - 1]
    <3>1. from \in 1..(Len(o) + 1) /\ m \in (from - 1)..Len(o) BY <1>1, <1>7
    <3> QED BY <1>1, <3>1, SubSeqProperties DEF Output
  <2>3. \A i \in 1..(m - from + 1) : from + i - 1 \in 1..n BY <1>1, <1>7
  <2> HIDE DEF p, q
  <2>4. \A i \in 1..(m - from + 1) : q[i] = p[i] BY <1>1, <2>1, <2>2, <2>3
  <2>5. q = p BY <2>1, <2>2, <2>4, SeqEqual DEF Output
  <2> QED BY <2>5 DEF p, q
<1>8. SubSeq(o, from, n + 1) = Append(SubSeq(out, from, n), x)
  <2> DEFINE p == SubSeq(out, from, n)
             q == SubSeq(o, from, n + 1)
             r == Append(p, x)
  <2>1. /\ p \in Output /\ Len(p) = n - from + 1
        /\ \A i \in 1..(n - from + 1) : p[i] = out[from + i - 1]
    <3>1. from \in 1..(Len(out) + 1) /\ n \in (from - 1)..Len(out) BY <1>1 DEF n
    <3> QED BY <1>6, <3>1, SubSeqProperties DEF Output
  <2>2. /\ q \in Output /\ Len(q) = n - from + 2
        /\ \A i \in 1..(n - from + 2) : q[i] = o[from + i - 1]
    <3>1. from \in 1..(Len(o) + 1) /\ n + 1 \in (from - 1)..Len(o) BY <1>1
    <3>2. (n + 1) - from + 1 = n - from + 2 BY <1>1
    <3> QED BY <1>1, <3>1, <3>2, SubSeqProperties DEF Output
  <2> HIDE DEF p, q
  <2>3. /\ r \in Output /\ Len(r) = n - from + 2
        /\ \A i \in 1..(n - from + 1) : r[i] = p[i]
        /\ r[n - from + 2] = x
    <3>1. /\ r \in Seq(Chars \cup {NUL}) /\ Len(r) = Len(p) + 1
          /\ \A i \in 1..Len(p) : r[i] = p[i] /\ r[Len(p) + 1] = x
          /\ r[Len(p) + 1] = x
      BY <2>1, AppendProperties DEF Output
    <3>2. Len(p) + 1 = n - from + 2 BY <1>1, <2>1
    <3> QED BY <2>1, <3>1, <3>2 DEF Output
  <2> HIDE DEF r
  <2>4. ASSUME NEW i \in 1..(n - from + 2) PROVE q[i] = r[i]
    <3>1. CASE i \in 1..(n - from + 1)
      <4>1. from + i - 1 \in 1..n BY <1>1, <3>1
      <4> QED BY <1>1, <2>1, <2>2, <2>3, <3>1, <4>1
    <3>2. CASE i = n - from + 2
      <4>1. from + i - 1 = n + 1 BY <1>1, <3>2
      <4> QED BY <1>1, <2>2, <2>3, <3>2, <4>1
    <3> QED BY <1>1, <3>1, <3>2
  <2>5. q = r BY <2>2, <2>3, <2>4, SeqEqual DEF Output
  <2> QED BY <2>5 DEF p, q, r
<1>9. CASE A = {} /\ x # NUL
  <2>1. B = {} BY <1>4, <1>9
  <2> QED BY <1>2, <1>3, <1>8, <1>9, <2>1 DEF TextGrows
<1>10. CASE A = {} /\ x = NUL
  <2>1. B = {n + 1} BY <1>4, <1>10
  <2>2. (CHOOSE i \in B : \A j \in B : i <= j) = n + 1 BY <1>1, <2>1
  <2>3. (n + 1) - 1 = n /\ B # {} BY <1>1, <2>1
  <2>4. ArgText(o, from) = SubSeq(o, from, n) BY <1>2, <2>2, <2>3
  <2>5. from - 1 <= n /\ n <= n BY <1>1
  <2>6. SubSeq(o, from, n) = SubSeq(out, from, n) BY <1>1, <1>7, <2>5
  <2> QED BY <1>2, <1>3, <1>10, <2>3, <2>4, <2>6 DEF TextGrows
<1>11. CASE A # {}
  <2>1. PICK i \in A : \A j \in A : i <= j BY <1>5, <1>11, LeastElement
  <2>2. i \in B /\ \A j \in B : i <= j
    <3>1. i <= n + 1 BY <1>1, <1>5
    <3> QED BY <1>4, <2>1, <3>1
  <2>3. (CHOOSE k \in A : \A j \in A : k <= j) = i
    <3>1. \A k \in A : k \in Nat BY <1>5
    <3> QED BY <2>1, <3>1
  <2>4. (CHOOSE k \in B : \A j \in B : k <= j) = i
    <3>1. \A k \in B : k \in Nat BY <1>1, <1>4, <1>5
    <3> QED BY <2>2, <3>1
  <2>5. i - 1 \in Nat /\ from - 1 <= i - 1 /\ i - 1 <= n BY <1>1, <1>5
  <2>6. SubSeq(o, from, i - 1) = SubSeq(out, from, i - 1) BY <1>7, <2>5
  <2>7. B # {} BY <2>2
  <2>8. ArgText(o, from) = ArgText(out, from) BY <1>2, <1>11, <2>3, <2>4, <2>6, <2>7
  <2> QED BY <1>3, <1>11, <2>7, <2>8 DEF TextGrows
<1> QED
  BY <1>9, <1>10, <1>11

\* A string that begins at the end of the output is empty.
LEMMA TextBegins ==
  ASSUME NEW out \in Output
  PROVE  ArgText(out, Len(out) + 1) = << >> /\ NoNul(out, Len(out) + 1)
<1> DEFINE n == Len(out)
<1>1. n \in Nat BY DEF Output
<1>2. \A i \in (n + 1)..n : FALSE BY <1>1
<1>3. {i \in (n + 1)..n : out[i] = NUL} = {} BY <1>2
<1>4. ArgText(out, n + 1) = SubSeq(out, n + 1, n) BY <1>3 DEF ArgText
<1>5. SubSeq(out, n + 1, n) = << >>
  <2> DEFINE p == SubSeq(out, n + 1, n)
  <2>1. n + 1 \in 1..(Len(out) + 1) /\ n \in ((n + 1) - 1)..Len(out) BY <1>1
  <2>2. p \in Output /\ Len(p) = n - (n + 1) + 1 BY <2>1, SubSeqProperties DEF Output
  <2>3. Len(p) = 0 BY <1>1, <2>2
  <2> HIDE DEF p
  <2>4. p = << >> BY <2>2, <2>3, EmptySeq DEF Output
  <2> QED BY <2>4 DEF p
<1> QED BY <1>2, <1>4, <1>5 DEF NoNul

-----------------------------------------------------------------------------
(* The entries av of argv and the arguments of a line.                      *)

\* argv holds the arguments of s; the last of them goes on if `open`.
Held(av, out, s, open) ==
  \A k \in 1..Len(av) :
     /\ av[k] + 1 \in 1..(Len(out) + 1)
     /\ ArgText(out, av[k] + 1) = TokenOf(s, k)
     /\ NoNul(out, av[k] + 1) <=> open /\ k = Len(av)

\* A character goes to the argument begun last.
LEMMA HeldChar ==
  ASSUME NEW av \in Seq(Nat), NEW out \in Output, NEW s, NEW t, NEW c \in Chars,
         TokensStep(s, t, c), Held(av, out, s, TRUE), Remains(s, c), Count(t) = Len(av)
  PROVE  Held(av, Append(out, c), t, TRUE)
<1> DEFINE o == Append(out, c)
<1>1. Len(o) = Len(out) + 1 /\ Len(out) \in Nat /\ Len(av) \in Nat
  BY DEF Output
<1>2. c # NUL BY NulIsNoChar
<1> SUFFICES ASSUME NEW k \in 1..Len(av)
             PROVE  /\ av[k] + 1 \in 1..(Len(o) + 1)
                    /\ ArgText(o, av[k] + 1) = TokenOf(t, k)
                    /\ NoNul(o, av[k] + 1) <=> k = Len(av)
  BY DEF Held
<1>3. /\ av[k] + 1 \in 1..(Len(out) + 1)
      /\ ArgText(out, av[k] + 1) = TokenOf(s, k)
      /\ NoNul(out, av[k] + 1) <=> k = Len(av)
  BY DEF Held
<1>4. TextGrows(out, o, c, av[k] + 1)
  BY <1>3, TextAppend
<1> HIDE DEF o
<1>5. TokenOf(t, k) = IF k = Len(av) THEN Append(TokenOf(s, k), c) ELSE TokenOf(s, k)
  <2>1. k \in Nat BY <1>1
  <2> QED BY <2>1 DEF TokensStep
<1>6. av[k] + 1 \in 1..(Len(o) + 1) BY <1>1, <1>3
<1> QED BY <1>2, <1>3, <1>4, <1>5, <1>6 DEF TextGrows

\* The end of a string closes it.
LEMMA HeldNul ==
  ASSUME NEW av \in Seq(Nat), NEW out \in Output, NEW s, NEW t, NEW c,
         TokensStep(s, t, c), Held(av, out, s, TRUE), ~Remains(s, c)
  PROVE  Held(av, Append(out, NUL), t, FALSE)
<1> DEFINE o == Append(out, NUL)
<1>1. Len(o) = Len(out) + 1 /\ Len(out) \in Nat /\ Len(av) \in Nat
  BY DEF Output
<1> SUFFICES ASSUME NEW k \in 1..Len(av)
             PROVE  /\ av[k] + 1 \in 1..(Len(o) + 1)
                    /\ ArgText(o, av[k] + 1) = TokenOf(t, k)
                    /\ ~NoNul(o, av[k] + 1)
  BY DEF Held
<1>3. /\ av[k] + 1 \in 1..(Len(out) + 1)
      /\ ArgText(out, av[k] + 1) = TokenOf(s, k)
  BY DEF Held
<1>4. TextGrows(out, o, NUL, av[k] + 1)
  BY <1>3, TextAppend
<1> HIDE DEF o
<1>5. TokenOf(t, k) = TokenOf(s, k)
  <2>1. k \in Nat BY <1>1
  <2> QED BY <2>1 DEF TokensStep
<1>6. av[k] + 1 \in 1..(Len(o) + 1) BY <1>1, <1>3
<1> QED BY <1>3, <1>4, <1>5, <1>6 DEF TextGrows

\* A character that is not kept leaves the arguments alone.
LEMMA HeldSame ==
  ASSUME NEW av \in Seq(Nat), NEW out, NEW s, NEW t, NEW c, NEW open,
         TokensStep(s, t, c), Held(av, out, s, open), ~Remains(s, c)
  PROVE  Held(av, out, t, open)
<1>1. \A k \in 1..Len(av) : TokenOf(t, k) = TokenOf(s, k)
  <2>1. \A k \in 1..Len(av) : k \in Nat OBVIOUS
  <2> QED BY <2>1 DEF TokensStep
<1> QED BY <1>1 DEF Held

\* An argument without characters yet begins at the end of the output.
LEMMA HeldStart ==
  ASSUME NEW av \in Seq(Nat), NEW out \in Output, NEW s,
         Held(av, out, s, FALSE), TokenOf(s, Len(av) + 1) = << >>
  PROVE  Held(Append(av, Len(out)), out, s, TRUE)
<1> DEFINE n == Len(av)
           a == Append(av, Len(out))
<1>1. /\ n \in Nat /\ Len(out) \in Nat /\ Len(a) = n + 1
      /\ \A k \in 1..n : a[k] = av[k]
      /\ a[n + 1] = Len(out)
  BY DEF Output
<1>2. ArgText(out, Len(out) + 1) = << >> /\ NoNul(out, Len(out) + 1)
  BY TextBegins
<1>3. \A k \in 1..(n + 1) : k \in 1..n \/ k = n + 1
  BY <1>1
<1> SUFFICES ASSUME NEW k \in 1..(n + 1)
             PROVE  /\ a[k] + 1 \in 1..(Len(out) + 1)
                    /\ ArgText(out, a[k] + 1) = TokenOf(s, k)
                    /\ NoNul(out, a[k] + 1) <=> k = n + 1
  BY <1>1 DEF Held
<1>4. CASE k = n + 1
  <2>1. Len(out) + 1 \in 1..(Len(out) + 1) BY <1>1
  <2> QED BY <1>1, <1>2, <1>4, <2>1
<1>5. CASE k \in 1..n
  <2>1. k # n + 1 /\ a[k] = av[k] BY <1>1, <1>5
  <2> QED BY <1>5, <2>1 DEF Held
<1> QED BY <1>3, <1>4, <1>5

-----------------------------------------------------------------------------
(* Sequences put together.                                                  *)

\* The first m of seqs, one behind the other, if g says so.
FlatUpTo(g, seqs, m) ==
  /\ g[0] = << >>
  /\ \A k \in 1..m : g[k] = g[k - 1] \o seqs[k]

Flat(seqs) == CHOOSE g : FlatUpTo(g, seqs, Len(seqs))

LEMMA Regroup ==
  ASSUME NEW x \in Seq(Chars), NEW y \in Seq(Chars), NEW z \in Seq(Chars)
  PROVE  (x \o y) \o z = x \o (y \o z)
BY ConcatAssociative

LEMMA FlatExists ==
  ASSUME NEW seqs, NEW m \in Nat
  PROVE  \E g : FlatUpTo(g, seqs, m)
<1> DEFINE S == {n \in Nat : ~\E g : FlatUpTo(g, seqs, n)}
<1> SUFFICES ASSUME S # {} PROVE FALSE
  OBVIOUS
<1>1. PICK n \in S : \A k \in S : n <= k
  BY LeastElement
<1>2. CASE n = 0
  <2> DEFINE g == [k \in {0} |-> << >>]
  <2>1. g[0] = << >> /\ \A k \in 1..n : FALSE BY <1>2
  <2> HIDE DEF g
  <2> QED BY <2>1 DEF FlatUpTo
<1>3. CASE n # 0
  <2>1. n - 1 \in Nat /\ n - 1 \notin S /\ n \in Nat BY <1>1, <1>3
  <2>2. PICK f : FlatUpTo(f, seqs, n - 1) BY <2>1
  <2> DEFINE e == f[n - 1] \o seqs[n]
             g == [k \in 0..n |-> IF k = n THEN e ELSE f[k]]
  <2> HIDE DEF e
  <2>3. /\ \A k \in 0..(n - 1) : g[k] = f[k]
        /\ g[n] = e
    <3>1. \A k \in 0..(n - 1) : k \in 0..n /\ k # n BY <2>1
    <3>2. n \in 0..n BY <2>1
    <3> QED BY <3>1, <3>2
  <2> HIDE DEF g
  <2>4. g[0] = << >>
    <3>1. 0 \in 0..(n - 1) BY <2>1
    <3> QED BY <2>2, <2>3, <3>1 DEF FlatUpTo
  <2>5. ASSUME NEW k \in 1..n PROVE g[k] = g[k - 1] \o seqs[k]
    <3>1. k - 1 \in 0..(n - 1) BY <2>1
    <3>2. g[k - 1] = f[k - 1] BY <2>3, <3>1
    <3>3. CASE k = n
      BY <2>3, <3>2, <3>3 DEF e
    <3>4. CASE k # n
      <4>1. k \in 1..(n - 1) /\ k \in 0..(n - 1) BY <2>1, <3>4
      <4>2. g[k] = f[k] /\ f[k] = f[k - 1] \o seqs[k] BY <2>2, <2>3, <4>1 DEF FlatUpTo
      <4> QED BY <3>2, <4>2
    <3> QED BY <3>3, <3>4
  <2>6. FlatUpTo(g, seqs, n) BY <2>4, <2>5 DEF FlatUpTo
  <2> QED BY <2>6
<1> QED BY <1>2, <1>3

LEMMA FlatIs ==
  ASSUME NEW T, NEW seqs \in Seq(Seq(T))
  PROVE  /\ Flat(seqs)[0] = << >>
         /\ \A k \in 1..Len(seqs) : Flat(seqs)[k] = Flat(seqs)[k - 1] \o seqs[k]
         /\ \A k \in 0..Len(seqs) : Flat(seqs)[k] \in Seq(T)
<1> DEFINE g == Flat(seqs)
           n == Len(seqs)
           S == {k \in 0..n : g[k] \notin Seq(T)}
<1>1. n \in Nat /\ \A k \in 1..n : seqs[k] \in Seq(T) OBVIOUS
<1>2. FlatUpTo(g, seqs, n)
  <2>1. \E f : FlatUpTo(f, seqs, n) BY <1>1, FlatExists
  <2> QED BY <2>1, Zenon DEF Flat
<1> HIDE DEF g, n
<1>3. g[0] = << >> /\ \A k \in 1..n : g[k] = g[k - 1] \o seqs[k]
  BY <1>2 DEF FlatUpTo
<1>4. S = {}
  <2> SUFFICES ASSUME S # {} PROVE FALSE OBVIOUS
  <2>1. S \in SUBSET Nat BY <1>1
  <2>2. PICK k \in S : \A j \in S : k <= j
    <3> HIDE DEF S
    <3> QED BY <2>1, LeastElement
  <2>3. k \in 0..n /\ g[k] \notin Seq(T) OBVIOUS
  <2>4. k # 0
    <3>1. << >> \in Seq(T) BY EmptySeq
    <3> QED BY <1>3, <2>3, <3>1
  <2>5. k - 1 \in 0..n /\ k \in 1..n /\ ~(k <= k - 1) BY <1>1, <2>3, <2>4
  <2>6. g[k - 1] \in Seq(T) BY <2>2, <2>5
  <2>7. g[k] \in Seq(T)
    <3>1. seqs[k] \in Seq(T) BY <1>1, <2>5
    <3>2. g[k] = g[k - 1] \o seqs[k] BY <1>3, <2>5
    <3> QED BY <2>6, <3>1, <3>2, ConcatProperties
  <2> QED BY <2>3, <2>7
<1> QED BY <1>3, <1>4 DEF g, n

LEMMA FlattenIs ==
  ASSUME NEW T, NEW seqs \in Seq(Seq(T))
  PROVE  FlattenSeq(seqs) = Flat(seqs)[Len(seqs)]
<1> DEFINE n == Len(seqs)
           g == Flat(seqs)
           P(f) == f = [i \in 1..n |-> IF i = 1 THEN seqs[i] ELSE f[i - 1] \o seqs[i]]
           fl == CHOOSE f : P(f)
           h == [i \in 1..n |-> g[i]]
<1>1. n \in Nat /\ \A k \in 1..n : seqs[k] \in Seq(T) OBVIOUS
<1>2. /\ g[0] = << >>
      /\ \A k \in 1..n : g[k] = g[k - 1] \o seqs[k]
  BY FlatIs
<1>3. FlattenSeq(seqs) = IF n = 0 THEN seqs ELSE fl[n]
  BY DEF FlattenSeq
<1> HIDE DEF g
<1>4. P(h)
  <2> DEFINE r(i) == IF i = 1 THEN seqs[i] ELSE h[i - 1] \o seqs[i]
  <2>1. ASSUME NEW i \in 1..n PROVE h[i] = r(i)
    <3>1. h[i] = g[i] /\ g[i] = g[i - 1] \o seqs[i] BY <1>2
    <3>2. CASE i = 1
      <4>1. seqs[i] \in Seq(T) /\ g[i - 1] = << >> BY <1>1, <1>2, <3>2
      <4>2. << >> \o seqs[i] = seqs[i] BY <4>1, ConcatEmptySeq
      <4> HIDE DEF h
      <4> QED BY <3>1, <3>2, <4>1, <4>2
    <3>3. CASE i # 1
      <4>1. i - 1 \in 1..n BY <1>1, <3>3
      <4>2. h[i - 1] = g[i - 1] BY <4>1
      <4> HIDE DEF h
      <4> QED BY <3>1, <3>3, <4>2
    <3> QED BY <3>2, <3>3
  <2>2. h = [i \in 1..n |-> h[i]] OBVIOUS
  <2> HIDE DEF h, r
  <2>3. h = [i \in 1..n |-> r(i)] BY <2>1, <2>2
  <2> QED BY <2>3 DEF r
<1> HIDE DEF h, P
<1>5. P(fl) BY <1>4, Zenon
<1> DEFINE S == {i \in 1..n : fl[i] # g[i]}
<1>6. S = {}
  <2> SUFFICES ASSUME S # {} PROVE FALSE OBVIOUS
  <2>1. S \in SUBSET Nat OBVIOUS
  <2>2. PICK k \in S : \A j \in S : k <= j
    <3> HIDE DEF S
    <3> QED BY <2>1, LeastElement
  <2>3. k \in 1..n /\ fl[k] # g[k] OBVIOUS
  <2> HIDE DEF fl
  <2>4. fl[k] = IF k = 1 THEN seqs[k] ELSE fl[k - 1] \o seqs[k] BY <1>5, <2>3 DEF P
  <2>5. g[k] = g[k - 1] \o seqs[k] BY <1>2, <2>3
  <2>6. CASE k = 1
    <3>1. seqs[k] \in Seq(T) /\ g[k - 1] = << >> BY <1>1, <1>2, <2>6
    <3>2. << >> \o seqs[k] = seqs[k] BY <3>1, ConcatEmptySeq
    <3> QED BY <2>3, <2>4, <2>5, <2>6, <3>1, <3>2
  <2>7. CASE k # 1
    <3>1. k - 1 \in 1..n /\ ~(k <= k - 1) BY <1>1, <2>3, <2>7
    <3>2. fl[k - 1] = g[k - 1] BY <2>2, <3>1
    <3> QED BY <2>3, <2>4, <2>5, <2>7, <3>2
  <2> QED BY <2>6, <2>7
<1> HIDE DEF fl
<1>7. CASE n = 0
  <2>1. seqs = << >> BY <1>7, EmptySeq
  <2> QED BY <1>2, <1>3, <1>7, <2>1 DEF g, n
<1>8. CASE n # 0
  <2>1. n \in 1..n BY <1>1, <1>8
  <2>2. fl[n] = g[n] BY <1>6, <2>1
  <2> QED BY <1>3, <1>8, <2>2 DEF g, n
<1> QED BY <1>7, <1>8

-----------------------------------------------------------------------------
(* The names.                                                               *)
LEMMA PrefixIs ==
  ASSUME NEW T, NEW s \in Seq(T), NEW t \in Seq(T)
  PROVE  IsPrefix(s, t) <=> Len(s) <= Len(t) /\ \A j \in 1..Len(s) : s[j] = t[j]
<1> DEFINE n == Len(s)
<1>1. n \in Nat /\ Len(t) \in Nat OBVIOUS
<1>2. IsPrefix(s, t) <=> n <= Len(t) /\ SubSeq(s, 1, n) = SubSeq(t, 1, n)
  BY DEF IsPrefix
<1> SUFFICES ASSUME n <= Len(t)
             PROVE  SubSeq(s, 1, n) = SubSeq(t, 1, n) <=> \A j \in 1..n : s[j] = t[j]
  BY <1>2
<1> DEFINE u == SubSeq(s, 1, n)
           v == SubSeq(t, 1, n)
<1>3. /\ u \in Seq(T) /\ Len(u) = n /\ \A j \in 1..n : u[j] = s[j]
  OBVIOUS
<1>4. /\ v \in Seq(T) /\ Len(v) = n /\ \A j \in 1..n : v[j] = t[j]
  OBVIOUS
<1> HIDE DEF u, v, n
<1>5. (\A j \in 1..n : s[j] = t[j]) => u = v
  <2> SUFFICES ASSUME \A j \in 1..n : s[j] = t[j] PROVE u = v OBVIOUS
  <2>1. \A j \in 1..n : u[j] = v[j] BY <1>3, <1>4
  <2> QED BY <1>3, <1>4, <2>1, SeqEqual
<1>6. u = v => \A j \in 1..n : s[j] = t[j]
  BY <1>3, <1>4
<1> QED BY <1>5, <1>6 DEF u, v

\* Name k stands behind position p of the text.
Fits(text, p, k) ==
  /\ k \in DOMAIN Names /\ Len(Names[k]) <= Len(text) - p
  /\ \A j \in 1..Len(Names[k]) : Names[k][j] = text[p + j]

LEMMA MatchIs ==
  ASSUME NEW text \in Seq(Chars), NEW p \in 1..Len(text), NEW k
  PROVE  k \in Match(text, p) <=> Fits(text, p, k)
<1> SUFFICES ASSUME k \in DOMAIN Names
             PROVE  IsPrefix(Names[k], SubSeq(text, p + 1, Len(text))) <=> Fits(text, p, k)
  BY DEF Match, Fits
<1> DEFINE s == Names[k]
           t == SubSeq(text, p + 1, Len(text))
<1>1. s \in Seq(Chars) /\ Len(s) \in Nat
  BY NamesAssumption
<1>2. /\ t \in Seq(Chars) /\ Len(t) = Len(text) - p
      /\ \A j \in 1..(Len(text) - p) : t[j] = text[p + j]
  OBVIOUS
<1> HIDE DEF s, t
<1>3. IsPrefix(s, t) <=> Len(s) <= Len(t) /\ \A j \in 1..Len(s) : s[j] = t[j]
  BY <1>1, <1>2, PrefixIs
<1>4. ASSUME Len(s) <= Len(text) - p
      PROVE  (\A j \in 1..Len(s) : s[j] = t[j]) <=> \A j \in 1..Len(s) : s[j] = text[p + j]
  <2>1. \A j \in 1..Len(s) : j \in 1..(Len(text) - p) BY <1>1, <1>4
  <2> QED BY <1>2, <2>1
<1>5. IsPrefix(s, t) <=> Len(s) <= Len(text) - p /\ \A j \in 1..Len(s) : s[j] = text[p + j]
  BY <1>2, <1>3, <1>4
<1> QED BY <1>5 DEF Fits, s, t

\* The name k that goes with the $ at p: the first that fits and the longest.
Named(text, p, k) ==
  /\ k \in DOMAIN Names /\ Min(Match(text, p)) = k /\ Longest(text, p) = k
  /\ Len(Names[k]) \in Nat \ {0} /\ p + Len(Names[k]) <= Len(text)
  /\ \A q \in (p + 1)..(p + Len(Names[k])) : text[q] # "$"
  /\ Values[k] \in Seq(Chars)

LEMMA FirstIsLongest ==
  ASSUME NEW text \in Seq(Chars), NEW p \in 1..Len(text), Match(text, p) # {}
  PROVE  \E k : Named(text, p, k)
<1> DEFINE M == Match(text, p)
<1>1. \A k : k \in M <=> Fits(text, p, k)
  BY MatchIs
<1>2. M \in SUBSET Nat
  BY NamesAssumption DEF Match
<1>3. \A k \in DOMAIN Names : /\ Names[k] \in Seq(Chars) /\ Len(Names[k]) \in Nat \ {0}
                              /\ \A j \in 1..Len(Names[k]) : Names[k][j] # "$"
                              /\ Values[k] \in Seq(Chars)
  <2> SUFFICES ASSUME NEW k \in DOMAIN Names
               PROVE  /\ Names[k] \in Seq(Chars) /\ Len(Names[k]) \in Nat \ {0}
                      /\ \A j \in 1..Len(Names[k]) : Names[k][j] # "$"
                      /\ Values[k] \in Seq(Chars)
    OBVIOUS
  <2>1. Names[k] \in Seq(Chars) /\ Names[k] # << >> /\ ~Contains(Names[k], "$")
    BY NamesAssumption
  <2>2. Len(Names[k]) \in Nat \ {0} BY <2>1, EmptySeq
  <2>3. DOMAIN Names = DOMAIN Values BY NamesAssumption
  <2>4. Values[k] \in Seq(Chars) BY <2>3, NamesAssumption
  <2> QED BY <2>1, <2>2, <2>4 DEF Contains
<1> HIDE DEF M
<1>4. PICK k \in M : \A j \in M : k <= j
  <2>1. M # {} BY DEF M
  <2> QED BY <1>2, <2>1, LeastElement
<1>5. Min(M) = k
  <2>1. k \in Nat /\ \A j \in M : j \in Nat BY <1>2
  <2>2. \A x \in M : (\A y \in M : x <= y) => x = k BY <1>4, <2>1
  <2>3. Min(M) = CHOOSE x \in M : \A y \in M : x <= y BY DEF Min
  <2> QED BY <1>4, <2>2, <2>3
<1>6. k \in DOMAIN Names /\ Fits(text, p, k)
  BY <1>1 DEF Fits
\* Of two names that fit the shorter one begins the longer one.
<1>7. ASSUME NEW j \in M, Len(Names[k]) <= Len(Names[j])
      PROVE  j = k
  <2>1. j \in DOMAIN Names /\ Fits(text, p, j) BY <1>1 DEF Fits
  <2>2. IsPrefix(Names[k], Names[j])
    <3>1. \A m \in 1..Len(Names[k]) : m \in 1..Len(Names[j]) BY <1>3, <1>6, <1>7, <2>1
    <3>2. \A m \in 1..Len(Names[k]) : Names[k][m] = Names[j][m]
      BY <1>6, <2>1, <3>1 DEF Fits
    <3>3. Names[k] \in Seq(Chars) /\ Names[j] \in Seq(Chars) BY <1>3, <1>6, <2>1
    <3> QED BY <1>7, <3>2, <3>3, PrefixIs
  <2>3. j <= k BY <1>6, <2>1, <2>2, OrderAssumption
  <2>4. k <= j /\ j \in Nat /\ k \in Nat BY <1>2, <1>4
  <2> QED BY <2>3, <2>4
<1>8. \A j \in M : Len(Names[j]) \in Nat
  BY <1>1, <1>3 DEF Fits
<1>9. \A j \in M : Len(Names[j]) <= Len(Names[k])
  BY <1>7, <1>8
<1>10. Longest(text, p) = k
  <2> DEFINE Top(m) == m \in M /\ \A j \in M : Len(Names[j]) <= Len(Names[m])
  <2>1. Longest(text, p) = CHOOSE m \in M : \A j \in M : Len(Names[j]) <= Len(Names[m])
    BY DEF Longest, M
  <2>2. \A m \in M : (\A j \in M : Len(Names[j]) <= Len(Names[m])) => m = k
    BY <1>7
  <2> QED BY <1>9, <2>1, <2>2
<1>11. \A q \in (p + 1)..(p + Len(Names[k])) : text[q] # "$"
  <2> SUFFICES ASSUME NEW q \in (p + 1)..(p + Len(Names[k])) PROVE text[q] # "$" OBVIOUS
  <2>1. q - p \in 1..Len(Names[k]) /\ p + (q - p) = q BY <1>3, <1>6
  <2>2. Names[k][q - p] = text[q] BY <1>6, <2>1 DEF Fits
  <2>3. Names[k][q - p] # "$" BY <1>3, <1>6, <2>1
  <2> QED BY <2>2, <2>3
<1>12. p + Len(Names[k]) <= Len(text) BY <1>3, <1>6 DEF Fits
<1>13. Len(Names[k]) \in Nat \ {0} /\ Values[k] \in Seq(Chars) BY <1>3, <1>6
<1> QED BY <1>5, <1>6, <1>10, <1>11, <1>12, <1>13 DEF Named, M

-----------------------------------------------------------------------------
(* One argument.                                                            *)

LEMMA PiecesType ==
  ASSUME NEW text \in Seq(Chars)
  PROVE  Pieces(text) \in Seq(Seq(Chars)) /\ Len(Pieces(text)) = Len(text)
<1> DEFINE e(p) == IF Covered(text, p) THEN << >>
                   ELSE IF IsReference(text, p) THEN Values[Longest(text, p)] ELSE <<text[p]>>
<1>1. Len(text) \in Nat /\ DOMAIN text = 1..Len(text) /\ \A p \in 1..Len(text) : text[p] \in Chars
  OBVIOUS
<1>2. ASSUME NEW p \in 1..Len(text) PROVE e(p) \in Seq(Chars)
  <2>1. CASE Covered(text, p) BY <2>1
  <2>2. CASE ~Covered(text, p) /\ IsReference(text, p)
    <3>1. PICK k : Named(text, p, k) BY <2>2, FirstIsLongest DEF IsReference
    <3> QED BY <2>2, <3>1 DEF Named
  <2>3. CASE ~Covered(text, p) /\ ~IsReference(text, p)
    <3>1. <<text[p]>> \in Seq(Chars) BY <1>1
    <3> QED BY <2>3, <3>1
  <2> QED BY <2>1, <2>2, <2>3
<1>3. Pieces(text) = [p \in 1..Len(text) |-> e(p)]
  BY <1>1 DEF Pieces
<1> HIDE DEF e
<1> QED BY <1>1, <1>2, <1>3

\* What is printed of a text before position p + 1.
Shown(text, p) == Flat(Pieces(text))[p]

LEMMA ShownIs ==
  ASSUME NEW text \in Seq(Chars)
  PROVE  /\ Shown(text, 0) = << >>
         /\ \A p \in 1..Len(text) : Shown(text, p) = Shown(text, p - 1) \o Pieces(text)[p]
         /\ \A p \in 0..Len(text) : Shown(text, p) \in Seq(Chars)
         /\ Expanded(text) = Shown(text, Len(text)) /\ Expanded(text) \in Seq(Chars)
<1>1. Pieces(text) \in Seq(Seq(Chars)) /\ Len(Pieces(text)) = Len(text)
  BY PiecesType
<1>2. /\ Flat(Pieces(text))[0] = << >>
      /\ \A k \in 1..Len(text) : Flat(Pieces(text))[k] = Flat(Pieces(text))[k - 1] \o Pieces(text)[k]
      /\ \A k \in 0..Len(text) : Flat(Pieces(text))[k] \in Seq(Chars)
  BY <1>1, FlatIs
<1>3. FlattenSeq(Pieces(text)) = Flat(Pieces(text))[Len(text)]
  BY <1>1, FlattenIs
<1>4. Len(text) \in 0..Len(text)
  OBVIOUS
<1> QED BY <1>2, <1>3, <1>4 DEF Shown, Expanded

\* Where the loop of cmd_echo stands in a text: before a character that is no part
\* of a name already replaced.
AtCharacter(text, n) == n \in 0..Len(text) /\ ~Covered(text, n + 1)

\* What is covered starts at a reference not covered itself, or at the last one.
LEMMA CoveredAfter ==
  ASSUME NEW text \in Seq(Chars), NEW p \in 1..Len(text), ~Covered(text, p),
         NEW q \in 1..p, NEW r \in Nat, p < r,
         IsReference(text, q), r <= q + Len(Names[Longest(text, q)])
  PROVE  q = p
<1> SUFFICES ASSUME q # p PROVE FALSE
  OBVIOUS
<1>1. q \in 1..(p - 1) /\ q \in 1..Len(text) OBVIOUS
<1>2. Len(Names[Longest(text, q)]) \in Nat
  <2>1. PICK k : Named(text, q, k) BY <1>1, FirstIsLongest DEF IsReference
  <2> QED BY <2>1 DEF Named
<1>3. p <= q + Len(Names[Longest(text, q)]) BY <1>2
<1> QED BY <1>1, <1>3 DEF Covered

LEMMA PlainStep ==
  ASSUME NEW text \in Seq(Chars), NEW p \in 1..Len(text),
         ~Covered(text, p), ~IsReference(text, p)
  PROVE  /\ AtCharacter(text, p)
         /\ Shown(text, p) = Append(Shown(text, p - 1), text[p])
<1>1. p \in Nat /\ p \in 0..Len(text) /\ (p + 1) - 1 = p /\ p < p + 1 /\ p + 1 \in Nat
      /\ p - 1 \in 0..Len(text)
  OBVIOUS
<1>2. ~Covered(text, p + 1)
  <2> SUFFICES ASSUME NEW q \in 1..p, IsReference(text, q),
                      p + 1 <= q + Len(Names[Longest(text, q)])
               PROVE  FALSE
    BY <1>1 DEF Covered
  <2>1. q = p BY <1>1, CoveredAfter
  <2> QED BY <2>1
<1>3. Pieces(text)[p] = <<text[p]>>
  BY DEF Pieces
<1>4. Shown(text, p) = Shown(text, p - 1) \o Pieces(text)[p] /\ Shown(text, p - 1) \in Seq(Chars)
  BY <1>1, ShownIs
<1>5. text[p] \in Chars OBVIOUS
<1>6. \A u \in Seq(Chars) : u \o <<text[p]>> = Append(u, text[p])
  BY <1>5, AppendIsConcat
<1> QED BY <1>1, <1>2, <1>3, <1>4, <1>6 DEF AtCharacter

LEMMA ReferenceStep ==
  ASSUME NEW text \in Seq(Chars), NEW p \in 1..Len(text),
         ~Covered(text, p), IsReference(text, p), NEW k, Named(text, p, k)
  PROVE  /\ AtCharacter(text, p - 1 + Skip(k))
         /\ Shown(text, p - 1 + Skip(k)) = Shown(text, p - 1) \o Values[k]
<1> DEFINE L == Len(Names[k])
           m == p + L
<1>1. /\ L \in Nat \ {0} /\ p \in Nat /\ m \in 1..Len(text) /\ m \in 0..Len(text)
      /\ p - 1 + Skip(k) = m /\ p < m + 1 /\ m + 1 \in Nat /\ (m + 1) - 1 = m
      /\ p - 1 \in 0..Len(text)
  BY DEF Named, Skip
<1>2. Longest(text, p) = k /\ \A q \in (p + 1)..m : text[q] # "$"
  BY DEF Named
<1>3. ~Covered(text, m + 1)
  <2> SUFFICES ASSUME NEW q \in 1..m, IsReference(text, q),
                      m + 1 <= q + Len(Names[Longest(text, q)])
               PROVE  FALSE
    BY <1>1 DEF Covered
  <2>1. CASE q \in 1..p
    <3>1. q = p BY <1>1, <2>1, CoveredAfter
    <3> QED BY <1>1, <1>2, <3>1
  <2>2. CASE q \notin 1..p
    <3>1. q \in (p + 1)..m BY <1>1, <2>2
    <3> QED BY <1>2, <3>1 DEF IsReference
  <2> QED BY <2>1, <2>2
<1>4. Shown(text, p) = Shown(text, p - 1) \o Values[k]
  <2>1. Pieces(text)[p] = Values[k] BY <1>2 DEF Pieces
  <2> QED BY <2>1, ShownIs
<1>5. ASSUME NEW q \in (p + 1)..m
      PROVE  Shown(text, q) = Shown(text, q - 1)
  <2>1. q \in 1..Len(text) /\ p \in 1..(q - 1) /\ q <= p + L BY <1>1
  <2>2. Covered(text, q) BY <1>2, <2>1 DEF Covered
  <2>3. Pieces(text)[q] = << >> BY <2>1, <2>2 DEF Pieces
  <2>4. /\ Shown(text, q) = Shown(text, q - 1) \o Pieces(text)[q]
        /\ Shown(text, q - 1) \in Seq(Chars)
    <3>1. q - 1 \in 0..Len(text) BY <2>1
    <3> QED BY <2>1, <3>1, ShownIs
  <2> QED BY <2>3, <2>4, ConcatEmptySeq
<1>6. Shown(text, m) = Shown(text, p)
  <2> DEFINE S == {q \in p..m : Shown(text, q) # Shown(text, p)}
  <2> HIDE DEF L, m
  <2> SUFFICES ASSUME S # {} PROVE FALSE
    BY <1>1 DEF m
  <2>1. S \in SUBSET Nat BY <1>1
  <2>2. PICK q \in S : \A j \in S : q <= j
    <3> HIDE DEF S
    <3> QED BY <2>1, LeastElement
  <2>3. q \in p..m /\ q # p /\ Shown(text, q) # Shown(text, p) OBVIOUS
  <2>4. q \in (p + 1)..m /\ q - 1 \in p..m /\ ~(q <= q - 1) BY <1>1, <2>3
  <2>5. Shown(text, q - 1) = Shown(text, p) BY <2>2, <2>4
  <2> QED BY <1>5, <2>3, <2>4, <2>5
<1> HIDE DEF L, m
<1> QED BY <1>1, <1>3, <1>4, <1>6 DEF AtCharacter

-----------------------------------------------------------------------------
(* The words one after the other.                                           *)
LEMMA SpacedType ==
  ASSUME NEW words \in Seq(Seq(Chars))
  PROVE  Spaced(words) \in Seq(Seq(Chars)) /\ Len(Spaced(words)) = Len(words)
<1> DEFINE e(k) == (IF k = 1 THEN << >> ELSE <<SPACE>>) \o Expanded(words[k])
<1>1. Len(words) \in Nat /\ DOMAIN words = 1..Len(words)
      /\ \A k \in 1..Len(words) : words[k] \in Seq(Chars)
  OBVIOUS
<1>2. ASSUME NEW k \in 1..Len(words) PROVE e(k) \in Seq(Chars)
  <2>1. Expanded(words[k]) \in Seq(Chars) BY <1>1, ShownIs
  <2>2. (IF k = 1 THEN << >> ELSE <<SPACE>>) \in Seq(Chars)
    <3>1. SPACE \in Chars BY DEF Chars
    <3> QED BY <3>1
  <2> QED BY <2>1, <2>2, ConcatProperties
<1>3. Spaced(words) = [k \in 1..Len(words) |-> e(k)]
  BY <1>1 DEF Spaced
<1> HIDE DEF e
<1> QED BY <1>1, <1>2, <1>3

\* What is printed of the first k words, and before the first character of word k.
Said(words, k) == Flat(Spaced(words))[k]
Before(words, k) == IF k = 1 THEN << >> ELSE Said(words, k - 1) \o <<SPACE>>

LEMMA SaidIs ==
  ASSUME NEW words \in Seq(Seq(Chars))
  PROVE  /\ Said(words, 0) = << >>
         /\ \A k \in 1..Len(words) : Before(words, k) \o Expanded(words[k]) = Said(words, k)
         /\ \A k \in 0..Len(words) : Said(words, k) \in Seq(Chars)
         /\ \A k \in 1..Len(words) : Before(words, k) \in Seq(Chars)
         /\ FlattenSeq(Spaced(words)) = Said(words, Len(words))
<1>1. Spaced(words) \in Seq(Seq(Chars)) /\ Len(Spaced(words)) = Len(words)
  BY SpacedType
<1>2. /\ Said(words, 0) = << >>
      /\ \A k \in 1..Len(words) : Said(words, k) = Said(words, k - 1) \o Spaced(words)[k]
      /\ \A k \in 0..Len(words) : Said(words, k) \in Seq(Chars)
  BY <1>1, FlatIs DEF Said
<1>3. FlattenSeq(Spaced(words)) = Said(words, Len(words))
  BY <1>1, FlattenIs DEF Said
<1>4. SPACE \in Chars /\ <<SPACE>> \in Seq(Chars)
  BY DEF Chars
<1>5. ASSUME NEW k \in 1..Len(words)
      PROVE  /\ Before(words, k) \in Seq(Chars)
             /\ Before(words, k) \o Expanded(words[k]) = Said(words, k)
  <2> DEFINE X == Expanded(words[k])
             Y == Said(words, k - 1)
  <2>1. X \in Seq(Chars)
    <3>1. words[k] \in Seq(Chars) OBVIOUS
    <3> QED BY <3>1, ShownIs
  <2>2. Y \in Seq(Chars)
    <3>1. k - 1 \in 0..Len(words) OBVIOUS
    <3> QED BY <1>2, <3>1
  <2>3. Said(words, k) = Y \o ((IF k = 1 THEN << >> ELSE <<SPACE>>) \o X)
    <3>1. Spaced(words)[k] = (IF k = 1 THEN << >> ELSE <<SPACE>>) \o X BY DEF Spaced
    <3> QED BY <1>2, <3>1
  <2> HIDE DEF X, Y
  <2>4. CASE k = 1
    <3>1. Before(words, k) = << >> BY <2>4 DEF Before
    <3>2. Y = << >> BY <1>2, <2>4 DEF Y
    <3>3. << >> \o X = X BY <2>1, ConcatEmptySeq
    <3>4. Said(words, k) = << >> \o (<< >> \o X) BY <2>3, <2>4, <3>2
    <3>5. Said(words, k) = X BY <3>3, <3>4
    <3>6. << >> \in Seq(Chars) BY EmptySeq
    <3> QED BY <3>1, <3>3, <3>5, <3>6 DEF X
  <2>5. CASE k # 1
    <3>1. Before(words, k) = Y \o <<SPACE>> BY <2>5 DEF Before, Y
    <3>2. Said(words, k) = Y \o (<<SPACE>> \o X) BY <2>3, <2>5
    <3>3. (Y \o <<SPACE>>) \o X = Y \o (<<SPACE>> \o X)
      BY <1>4, <2>1, <2>2, Regroup
    <3>4. Y \o <<SPACE>> \in Seq(Chars) BY <1>4, <2>2, ConcatProperties
    <3> QED BY <3>1, <3>2, <3>3, <3>4 DEF X
  <2> QED BY <2>4, <2>5
<1> QED BY <1>2, <1>3, <1>5

\* Word k is printed up to position n, and out is what came out of it all.
Printing(words, k, n, out) ==
  /\ k \in 1..(Len(words) + 1)
  /\ k <= Len(words) => AtCharacter(words[k], n) /\ out = Before(words, k) \o Shown(words[k], n)
  /\ k = Len(words) + 1 => out = Said(words, Len(words))

\* A word is begun with nothing of it shown.
LEMMA WordBegins ==
  ASSUME NEW words \in Seq(Seq(Chars)), NEW k \in 1..Len(words)
  PROVE  AtCharacter(words[k], 0) /\ Before(words, k) \o Shown(words[k], 0) = Before(words, k)
<1>1. words[k] \in Seq(Chars) /\ Len(words[k]) \in Nat /\ 0 \in 0..Len(words[k])
  OBVIOUS
<1>2. ~Covered(words[k], 0 + 1)
  <2>1. \A q \in 1..((0 + 1) - 1) : FALSE OBVIOUS
  <2> QED BY <2>1 DEF Covered
<1>3. Shown(words[k], 0) = << >> BY <1>1, ShownIs
<1>4. Before(words, k) \in Seq(Chars) BY SaidIs
<1>5. Before(words, k) \o << >> = Before(words, k) BY <1>4, ConcatEmptySeq
<1> QED BY <1>1, <1>2, <1>3, <1>5 DEF AtCharacter

LEMMA FirstWord ==
  ASSUME NEW words \in Seq(Seq(Chars))
  PROVE  Printing(words, 1, 0, << >>)
<1>1. Len(words) \in Nat /\ 1 \in 1..(Len(words) + 1) OBVIOUS
<1>2. CASE Len(words) = 0
  <2>1. Said(words, Len(words)) = << >> BY <1>2, SaidIs
  <2> QED BY <1>1, <1>2, <2>1 DEF Printing
<1>3. CASE Len(words) # 0
  <2>1. 1 \in 1..Len(words) /\ 1 # Len(words) + 1 BY <1>1, <1>3
  <2>2. AtCharacter(words[1], 0) /\ Before(words, 1) \o Shown(words[1], 0) = Before(words, 1)
    BY <2>1, WordBegins
  <2>3. Before(words, 1) = << >> BY DEF Before
  <2> QED BY <1>1, <2>1, <2>2, <2>3 DEF Printing
<1> QED BY <1>2, <1>3

LEMMA NextWord ==
  ASSUME NEW words \in Seq(Seq(Chars)), NEW k \in 1..Len(words), NEW out,
         Printing(words, k, Len(words[k]), out)
  PROVE  Printing(words, k + 1, 0, out \o (IF k < Len(words) THEN <<SPACE>> ELSE << >>))
<1>1. /\ Len(words) \in Nat /\ k \in Nat /\ k <= Len(words) /\ k + 1 \in 1..(Len(words) + 1)
      /\ words[k] \in Seq(Chars) /\ k \in 0..Len(words)
  OBVIOUS
<1>2. out = Before(words, k) \o Shown(words[k], Len(words[k]))
  BY <1>1 DEF Printing
<1>3. Shown(words[k], Len(words[k])) = Expanded(words[k])
  BY <1>1, ShownIs
<1>4. out = Said(words, k) /\ Said(words, k) \in Seq(Chars)
  BY <1>1, <1>2, <1>3, SaidIs
<1>5. CASE k < Len(words)
  <2>1. /\ k + 1 \in 1..Len(words) /\ k + 1 # 1 /\ (k + 1) - 1 = k /\ k + 1 # Len(words) + 1
        /\ k + 1 <= Len(words)
    BY <1>1, <1>5
  <2>2. /\ AtCharacter(words[k + 1], 0)
        /\ Before(words, k + 1) \o Shown(words[k + 1], 0) = Before(words, k + 1)
    BY <2>1, WordBegins
  <2>3. Before(words, k + 1) = out \o <<SPACE>> BY <1>4, <2>1 DEF Before
  <2>4. Printing(words, k + 1, 0, out \o <<SPACE>>) BY <1>1, <2>1, <2>2, <2>3 DEF Printing
  <2> QED BY <1>5, <2>4
<1>6. CASE ~(k < Len(words))
  <2>1. k = Len(words) /\ ~(k + 1 <= Len(words)) BY <1>1, <1>6
  <2>2. out \o << >> = out BY <1>4, ConcatEmptySeq
  <2>3. out = Said(words, Len(words)) BY <1>4, <2>1
  <2>4. Printing(words, k + 1, 0, out \o << >>)
    <3>1. Printing(words, k + 1, 0, out) BY <1>1, <2>1, <2>3 DEF Printing
    <3> QED BY <2>2, <3>1
  <2> QED BY <1>6, <2>4
<1> QED BY <1>5, <1>6

\* One character, or one name, of word k.
LEMMA CharPrinted ==
  ASSUME NEW words \in Seq(Seq(Chars)), NEW k \in 1..Len(words), NEW n, NEW out,
         Printing(words, k, n, out), n < Len(words[k])
  PROVE  LET text  == words[k]
             found == Match(text, n + 1)
         IN  IF text[n + 1] = "$" /\ found # {}
             THEN Printing(words, k, n + Skip(Min(found)), out \o Values[Min(found)])
             ELSE Printing(words, k, n + 1, Append(out, text[n + 1]))
<1> DEFINE text == words[k]
           p == n + 1
           B == Before(words, k)
<1>1. /\ Len(words) \in Nat /\ k \in 1..(Len(words) + 1) /\ k <= Len(words) /\ k # Len(words) + 1
      /\ text \in Seq(Chars)
  OBVIOUS
<1>2. n \in 0..Len(text) /\ ~Covered(text, p) /\ out = B \o Shown(text, n)
  BY <1>1 DEF Printing, AtCharacter
<1>3. p \in 1..Len(text) /\ p - 1 = n /\ text[p] \in Chars
  BY <1>1, <1>2
<1>4. B \in Seq(Chars) /\ Shown(text, n) \in Seq(Chars)
  BY <1>1, <1>2, ShownIs, SaidIs
<1> HIDE DEF text, p, B
<1>5. \A u \in Seq(Chars) : (B \o Shown(text, n)) \o u = B \o (Shown(text, n) \o u)
  <2> TAKE u \in Seq(Chars)
  <2> DEFINE v == Shown(text, n)
  <2>1. v \in Seq(Chars) BY <1>4
  <2> HIDE DEF v
  <2>2. (B \o v) \o u = B \o (v \o u) BY <1>4, <2>1, Regroup
  <2> QED BY <2>2 DEF v
<1>6. CASE text[p] = "$" /\ Match(text, p) # {}
  <2>0. IsReference(text, p) BY <1>6 DEF IsReference
  <2>1. PICK j : Named(text, p, j) BY <1>1, <1>3, <1>6, FirstIsLongest
  <2>2. Min(Match(text, p)) = j /\ Values[j] \in Seq(Chars) BY <2>1 DEF Named
  <2>3. /\ AtCharacter(text, n + Skip(j))
        /\ Shown(text, n + Skip(j)) = Shown(text, n) \o Values[j]
    BY <1>1, <1>2, <1>3, <2>0, <2>1, ReferenceStep
  <2>4. out \o Values[j] = B \o Shown(text, n + Skip(j))
    BY <1>2, <1>5, <2>2, <2>3
  <2>5. Printing(words, k, n + Skip(j), out \o Values[j])
    BY <1>1, <2>3, <2>4 DEF Printing, text, B
  <2> QED BY <1>6, <2>2, <2>5 DEF text, p
<1>7. CASE ~(text[p] = "$" /\ Match(text, p) # {})
  <2>0. ~IsReference(text, p) BY <1>7 DEF IsReference
  <2>1. AtCharacter(text, p) /\ Shown(text, p) = Append(Shown(text, n), text[p])
    BY <1>1, <1>2, <1>3, <2>0, PlainStep
  <2>2. Append(out, text[p]) = B \o Shown(text, p)
    <3>1. \A u \in Seq(Chars) : Append(u, text[p]) = u \o <<text[p]>> BY <1>3, AppendIsConcat
    <3>2. <<text[p]>> \in Seq(Chars) BY <1>3
    <3>3. out \in Seq(Chars) BY <1>2, <1>4, ConcatProperties
    <3>4. Append(out, text[p]) = (B \o Shown(text, n)) \o <<text[p]>> BY <1>2, <3>1, <3>3
    <3>5. B \o Shown(text, p) = B \o (Shown(text, n) \o <<text[p]>>) BY <1>4, <2>1, <3>1
    <3> QED BY <1>5, <3>2, <3>4, <3>5
  <2>3. Printing(words, k, p, Append(out, text[p]))
    BY <1>1, <2>1, <2>2 DEF Printing, text, B
  <2> QED BY <1>7, <2>3 DEF text, p
<1> QED BY <1>6, <1>7 DEF text, p

-----------------------------------------------------------------------------
(* The two loops.                                                           *)
Parser  == [ret : {"RUN", "USAGE", "PARSE"}, argv : Seq(Nat),
            out : Seq(Chars \cup {NUL}),
            quote : BOOLEAN, escape : BOOLEAN, in_arg : BOOLEAN]

Counter == [ret : BOOLEAN, argc : Nat,
            quote : BOOLEAN, escape : BOOLEAN, in_arg : BOOLEAN]

\* ScannersAgree of the locals p of the one loop and x of the other.
Agree(p, x) ==
  /\ p.ret = "RUN" => /\ ~x.ret
                      /\ x.argc = Len(p.argv)
                      /\ x.quote = p.quote
                      /\ x.escape = p.escape
                      /\ x.in_arg = p.in_arg
  /\ x.ret => p.ret # "RUN"

Fit(p, n) == Len(p.argv) <= CMD_MAX_ARGS /\ Len(p.out) <= n

USE LimitAssumption, SizeAssumption

-----------------------------------------------------------------------------
\* StartArg keeps the parser's type, does not touch the output, and takes an
\* entry of argv exactly when it goes on and no argument was begun.
LEMMA StartArgFacts ==
  ASSUME NEW p \in Parser, Len(p.argv) <= CMD_MAX_ARGS
  PROVE  LET s == StartArg(p)
         IN  /\ s \in Parser /\ Len(s.argv) <= CMD_MAX_ARGS
             /\ s.out = p.out /\ s.quote = p.quote /\ s.escape = p.escape
             /\ p.in_arg => s = p
             /\ ~p.in_arg /\ Len(p.argv) < CMD_MAX_ARGS =>
                  s.ret = p.ret /\ s.in_arg /\ Len(s.argv) = Len(p.argv) + 1
             /\ ~p.in_arg /\ Len(p.argv) = CMD_MAX_ARGS => s.ret = "USAGE"
<1>1. Len(p.argv) \in Nat /\ Len(p.out) \in Nat
  BY DEF Parser
<1>2. CASE p.in_arg
  BY <1>2 DEF StartArg, Parser
<1>3. CASE ~p.in_arg /\ Len(p.argv) >= CMD_MAX_ARGS
  <2>1. StartArg(p) = [p EXCEPT !.ret = "USAGE"]
    BY <1>3 DEF StartArg
  <2> QED
    BY <1>1, <1>3, <2>1 DEF Parser
<1>4. CASE ~p.in_arg /\ Len(p.argv) < CMD_MAX_ARGS
  <2> DEFINE a == Append(p.argv, Len(p.out))
  <2>1. StartArg(p) = [p EXCEPT !.argv = a, !.in_arg = TRUE]
    BY <1>1, <1>4 DEF StartArg
  <2>2. a \in Seq(Nat) /\ Len(a) = Len(p.argv) + 1
    BY <1>1 DEF Parser
  <2> HIDE DEF a
  <2>3. StartArg(p) \in Parser
    BY <2>1, <2>2, Zenon DEF Parser
  <2>4. /\ StartArg(p).ret = p.ret /\ StartArg(p).argv = a /\ StartArg(p).out = p.out
        /\ StartArg(p).quote = p.quote /\ StartArg(p).escape = p.escape
        /\ StartArg(p).in_arg
    BY <2>1 DEF Parser
  <2> QED
    BY <1>1, <1>4, <2>2, <2>3, <2>4
<1> QED
  BY <1>1, <1>2, <1>3, <1>4

\* append_char only makes the output longer, or stops.
LEMMA AppendFacts ==
  ASSUME NEW p \in Parser, NEW c \in Chars \cup {NUL}
  PROVE  LET s == append_char(p, c)
         IN  /\ s \in Parser /\ s.argv = p.argv
             /\ s.quote = p.quote /\ s.escape = p.escape /\ s.in_arg = p.in_arg
             /\ Len(s.out) <= Len(p.out) + 1
             /\ s.ret = "RUN" => p.ret = "RUN"
<1>1. Len(p.out) \in Nat
  BY DEF Parser
<1>2. CASE p.ret # "RUN"
  BY <1>1, <1>2 DEF append_char
<1>3. CASE p.ret = "RUN" /\ Len(p.out) >= CMD_INPUT_MAX - 1
  <2>1. append_char(p, c) = [p EXCEPT !.ret = "PARSE"]
    BY <1>3 DEF append_char
  <2> QED
    BY <1>1, <2>1 DEF Parser
<1>4. CASE p.ret = "RUN" /\ ~(Len(p.out) >= CMD_INPUT_MAX - 1)
  <2> DEFINE o == Append(p.out, c)
  <2>1. append_char(p, c) = [p EXCEPT !.out = o]
    BY <1>4 DEF append_char
  <2>2. o \in Seq(Chars \cup {NUL}) /\ Len(o) = Len(p.out) + 1
    BY DEF Parser
  <2> HIDE DEF o
  <2>3. append_char(p, c) \in Parser
    BY <2>1, <2>2 DEF Parser
  <2>4. LET s == append_char(p, c)
        IN  /\ s.ret = p.ret /\ s.argv = p.argv /\ s.out = o
            /\ s.quote = p.quote /\ s.escape = p.escape /\ s.in_arg = p.in_arg
    BY <2>1 DEF Parser
  <2> QED
    BY <1>1, <1>4, <2>2, <2>3, <2>4
<1> QED
  BY <1>2, <1>3, <1>4

\* CountArg counts what StartArg stores.
LEMMA CountFacts ==
  ASSUME NEW x \in Counter
  PROVE  LET y == CountArg(x)
         IN  /\ y \in Counter /\ y.ret = x.ret /\ y.in_arg
             /\ y.quote = x.quote /\ y.escape = x.escape
             /\ y.argc = IF x.in_arg THEN x.argc ELSE x.argc + 1
<1>1. CASE x.in_arg
  BY <1>1 DEF CountArg
<1>2. CASE ~x.in_arg
  <2>1. CountArg(x) = [x EXCEPT !.argc = x.argc + 1, !.in_arg = TRUE]
    BY <1>2 DEF CountArg
  <2>2. x.argc + 1 \in Nat
    BY DEF Counter
  <2>3. CountArg(x) \in Counter
    BY <2>1, <2>2 DEF Counter
  <2>4. LET y == CountArg(x)
        IN  /\ y.ret = x.ret /\ y.in_arg /\ y.argc = x.argc + 1
            /\ y.quote = x.quote /\ y.escape = x.escape
    BY <2>1 DEF Counter
  <2> QED
    BY <1>2, <2>3, <2>4
<1> QED
  BY <1>1, <1>2

\* What one character does to the locals of parse_args, case by case.
LEMMA ParseCases ==
  ASSUME NEW p, NEW c
  PROVE  LET s == ParseStep(p, c)
         IN  /\ p.ret # "RUN" => s = p
             /\ p.ret = "RUN" =>
                  /\ p.escape => s = [append_char(StartArg(p), c) EXCEPT !.escape = FALSE]
                  /\ ~p.escape =>
                       /\ c = ESCAPE => s = [p EXCEPT !.escape = TRUE]
                       /\ c = QUOTE => s = ToggleQuote(StartArg(p))
                       /\ c = PIPE /\ ~p.quote => s = [p EXCEPT !.ret = "PARSE"]
                       /\ c = SPACE /\ ~p.quote /\ p.in_arg =>
                            s = [append_char(p, NUL) EXCEPT !.in_arg = FALSE]
                       /\ c = SPACE /\ ~p.quote /\ ~p.in_arg => s = p
                       /\ c \notin {ESCAPE, QUOTE} /\ (c \notin {PIPE, SPACE} \/ p.quote) =>
                            s = append_char(StartArg(p), c)
<1>1. CASE p.ret # "RUN"
  BY <1>1 DEF ParseStep
<1>2. CASE p.ret = "RUN" /\ p.escape
  BY <1>2 DEF ParseStep
<1>3. CASE p.ret = "RUN" /\ ~p.escape
  BY <1>3, CharsDiffer DEF ParseStep
<1> QED
  BY <1>1, <1>2, <1>3

\* What one character does to the locals of has_extra_arg_over_limit.
LEMMA ExtraCases ==
  ASSUME NEW x, NEW c, x.ret \in BOOLEAN
  PROVE  LET s == ExtraStep(x, c)
         IN  /\ x.ret => s = x
             /\ ~x.ret =>
                  /\ x.escape => s = [CountArg(x) EXCEPT !.escape = FALSE]
                  /\ ~x.escape =>
                       /\ c = ESCAPE => s = [x EXCEPT !.escape = TRUE]
                       /\ c = QUOTE => s = [CountArg(x) EXCEPT !.quote = ~x.quote]
                       /\ c = SPACE /\ ~x.quote => s = [x EXCEPT !.in_arg = FALSE]
                       /\ c \notin {ESCAPE, QUOTE} /\ (c # SPACE \/ x.quote) =>
                            s = [CountArg(x) EXCEPT !.ret =
                                   ~x.in_arg /\ CountArg(x).argc > CMD_MAX_ARGS]
<1>1. CASE x.ret
  BY <1>1 DEF ExtraStep
<1>2. CASE ~x.ret /\ x.escape
  BY <1>2 DEF ExtraStep
<1>3. CASE ~x.ret /\ ~x.escape
  BY <1>3, CharsDiffer DEF ExtraStep
<1> QED
  BY <1>1, <1>2, <1>3

-----------------------------------------------------------------------------
\* A step of parse_args keeps its type and stores at most one character.
LEMMA ParseStepFits ==
  ASSUME NEW p \in Parser, NEW c \in Chars, Len(p.argv) <= CMD_MAX_ARGS
  PROVE  LET s == ParseStep(p, c)
         IN  s \in Parser /\ Fit(s, Len(p.out) + 1)
<1> DEFINE a == StartArg(p)
           s == ParseStep(p, c)
<1>1. Len(p.out) \in Nat /\ Len(p.argv) \in Nat
  BY DEF Parser
<1>2. /\ a \in Parser /\ Len(a.argv) <= CMD_MAX_ARGS /\ a.out = p.out
  BY StartArgFacts
<1>3. LET t == append_char(a, c)
      IN  t \in Parser /\ Fit(t, Len(p.out) + 1)
  BY <1>1, <1>2, AppendFacts DEF Fit
<1>4. CASE p.ret # "RUN"
  BY <1>1, <1>4, ParseCases DEF Fit
<1>5. CASE p.ret = "RUN" /\ p.escape
  <2> DEFINE b == append_char(a, c)
  <2>1. s = [b EXCEPT !.escape = FALSE]
    BY <1>5, ParseCases
  <2>2. b \in Parser /\ Fit(b, Len(p.out) + 1)
    BY <1>3
  <2> HIDE DEF b, s
  <2>3. s \in Parser
    BY <2>1, <2>2 DEF Parser
  <2>4. s.argv = b.argv /\ s.out = b.out
    BY <2>1, <2>2 DEF Parser
  <2> QED
    BY <2>2, <2>3, <2>4 DEF Fit, s
<1>6. CASE p.ret = "RUN" /\ ~p.escape /\ c = ESCAPE
  <2>1. s = [p EXCEPT !.escape = TRUE]
    BY <1>6, ParseCases
  <2> HIDE DEF s
  <2>2. s \in Parser
    BY <2>1 DEF Parser
  <2>3. s.argv = p.argv /\ s.out = p.out
    BY <2>1 DEF Parser
  <2> QED
    BY <1>1, <2>2, <2>3 DEF Fit, s
<1>7. CASE p.ret = "RUN" /\ ~p.escape /\ c = QUOTE
  <2>1. s = ToggleQuote(a)
    BY <1>7, ParseCases
  <2>2. s = a \/ s = [a EXCEPT !.quote = ~a.quote]
    BY <2>1 DEF ToggleQuote
  <2>3. s \in Parser
    BY <1>2, <2>2 DEF Parser
  <2>4. s.argv = a.argv /\ s.out = a.out
    BY <1>2, <2>2 DEF Parser
  <2> HIDE DEF a, s
  <2> QED
    BY <1>1, <1>2, <2>3, <2>4 DEF Fit, s
<1>8. CASE p.ret = "RUN" /\ ~p.escape /\ c = PIPE /\ ~p.quote
  <2>1. s = [p EXCEPT !.ret = "PARSE"]
    BY <1>8, ParseCases
  <2> HIDE DEF s
  <2>2. s \in Parser
    BY <2>1 DEF Parser
  <2>3. s.argv = p.argv /\ s.out = p.out
    BY <2>1 DEF Parser
  <2> QED
    BY <1>1, <2>2, <2>3 DEF Fit, s
<1>9. CASE p.ret = "RUN" /\ ~p.escape /\ c = SPACE /\ ~p.quote
  <2> DEFINE t == append_char(p, NUL)
  <2>1. t \in Parser /\ Fit(t, Len(p.out) + 1)
    BY <1>1, AppendFacts DEF Fit
  <2>2. s = p \/ s = [t EXCEPT !.in_arg = FALSE]
    BY <1>9, ParseCases DEF Parser
  <2>3. CASE s = p
    BY <1>1, <2>3 DEF Fit
  <2>4. CASE s = [t EXCEPT !.in_arg = FALSE]
    <3> HIDE DEF t, s
    <3>1. s \in Parser
      BY <2>1, <2>4 DEF Parser
    <3>2. s.argv = t.argv /\ s.out = t.out
      BY <2>1, <2>4 DEF Parser
    <3> QED
      BY <2>1, <3>1, <3>2 DEF Fit, s
  <2> QED
    BY <2>2, <2>3, <2>4
<1>10. CASE /\ p.ret = "RUN" /\ ~p.escape
            /\ c \notin {ESCAPE, QUOTE} /\ (c \notin {PIPE, SPACE} \/ p.quote)
  BY <1>3, <1>10, ParseCases
<1> QED
  BY <1>4, <1>5, <1>6, <1>7, <1>8, <1>9, <1>10 DEF Parser

\* A step of has_extra_arg_over_limit keeps its type.
LEMMA ExtraStepType ==
  ASSUME NEW x \in Counter, NEW c
  PROVE  ExtraStep(x, c) \in Counter
<1> DEFINE y == CountArg(x)
<1>1. y \in Counter
  BY CountFacts
<1>2. PICK q \in BOOLEAN : q = (~x.in_arg /\ y.argc > CMD_MAX_ARGS)
  OBVIOUS
<1>3. \/ ExtraStep(x, c) = x
      \/ ExtraStep(x, c) = [y EXCEPT !.escape = FALSE]
      \/ ExtraStep(x, c) = [x EXCEPT !.escape = TRUE]
      \/ ExtraStep(x, c) = [y EXCEPT !.quote = ~x.quote]
      \/ ExtraStep(x, c) = [x EXCEPT !.in_arg = FALSE]
      \/ ExtraStep(x, c) = [y EXCEPT !.ret = q]
  <2>1. x.ret \in BOOLEAN
    BY DEF Counter
  <2> QED
    BY <1>2, <2>1, ExtraCases DEF Counter
<1> HIDE DEF y
<1> QED
  BY <1>1, <1>3 DEF Counter

\* One character keeps the two loops in step.
LEMMA Lockstep ==
  ASSUME NEW p \in Parser, NEW x \in Counter, NEW c \in Chars,
         Len(p.argv) <= CMD_MAX_ARGS, Agree(p, x)
  PROVE  Agree(ParseStep(p, c), ExtraStep(x, c))
<1> DEFINE a == StartArg(p)
           y == CountArg(x)
           s == ParseStep(p, c)
           t == ExtraStep(x, c)
<1>1. Len(p.argv) \in Nat /\ x.ret \in BOOLEAN
  BY DEF Parser, Counter
<1>2. CASE p.ret # "RUN"
  <2>1. s = p
    BY <1>2, ParseCases
  <2> QED
    BY <1>2, <2>1 DEF Agree
<1> SUFFICES ASSUME p.ret = "RUN"
             PROVE  Agree(s, t)
  BY <1>2
<1>3. ~x.ret /\ x.argc = Len(p.argv) /\ x.quote = p.quote /\ x.escape = p.escape
      /\ x.in_arg = p.in_arg
  BY DEF Agree
\* Both begin the argument, or parse_args has no entry left and the count is
\* over the limit.
<1>4. /\ a.ret = "RUN" => Agree(a, y) /\ ~(~x.in_arg /\ y.argc > CMD_MAX_ARGS)
      /\ ~y.ret
  <2>1. /\ ~y.ret /\ y.in_arg /\ y.quote = p.quote /\ y.escape = p.escape
        /\ y.argc = IF p.in_arg THEN Len(p.argv) ELSE Len(p.argv) + 1
    BY <1>3, CountFacts
  <2>0. a.in_arg \in BOOLEAN /\ y.in_arg \in BOOLEAN
    BY StartArgFacts, CountFacts DEF Parser, Counter
  <2>2. CASE p.in_arg
    <3>1. a = p
      BY <2>2, StartArgFacts
    <3> HIDE DEF a, y
    <3> QED
      BY <1>3, <2>0, <2>1, <2>2, <3>1 DEF Agree
  <2>3. CASE ~p.in_arg
    <3>1. \/ a.ret = "USAGE"
          \/ /\ a.in_arg /\ Len(a.argv) = Len(p.argv) + 1 /\ a.quote = p.quote
             /\ a.escape = p.escape /\ Len(p.argv) < CMD_MAX_ARGS
      BY <1>1, <2>3, StartArgFacts
    <3> HIDE DEF a, y
    <3>2. a.ret = "RUN" => /\ a.in_arg = y.in_arg /\ a.quote = y.quote
                           /\ a.escape = y.escape
      BY <2>0, <2>1, <3>1
    <3>3. a.ret = "RUN" => y.argc = Len(a.argv) /\ ~(y.argc > CMD_MAX_ARGS)
      BY <1>1, <2>1, <2>3, <3>1
    <3> QED
      BY <2>1, <3>2, <3>3 DEF Agree
  <2> QED
    BY <2>2, <2>3
<1>5. a \in Parser /\ y \in Counter
  BY StartArgFacts, CountFacts
<1>6. LET b == append_char(a, c)
      IN  /\ b \in Parser
          /\ b.ret = "RUN" => a.ret = "RUN" /\ b.argv = a.argv /\ b.quote = a.quote
                              /\ b.escape = a.escape /\ b.in_arg = a.in_arg
  BY <1>5, AppendFacts
<1> HIDE DEF a, y
<1>7. CASE p.escape
  <2>0. x.escape /\ ~x.ret
    BY <1>3, <1>7
  <2>1. s = [append_char(a, c) EXCEPT !.escape = FALSE] /\ t = [y EXCEPT !.escape = FALSE]
    <3>1. s = [append_char(a, c) EXCEPT !.escape = FALSE]
      BY <1>7, ParseCases, Zenon DEF a
    <3>2. t = [y EXCEPT !.escape = FALSE]
      BY <1>1, <2>0, ExtraCases DEF y
    <3> QED
      BY <3>1, <3>2
  <2> HIDE DEF s, t
  <2>2. t.ret = y.ret /\ t.argc = y.argc /\ t.quote = y.quote /\ t.in_arg = y.in_arg
        /\ t.escape = FALSE
    BY <1>5, <2>1 DEF Counter
  <2>3. LET b == append_char(a, c)
        IN  s.ret = b.ret /\ s.argv = b.argv /\ s.quote = b.quote
            /\ s.in_arg = b.in_arg /\ s.escape = FALSE
    BY <1>6, <2>1 DEF Parser
  <2> QED
    BY <1>4, <1>6, <2>2, <2>3 DEF Agree
<1>8. CASE ~p.escape /\ c = ESCAPE
  <2>1. s = [p EXCEPT !.escape = TRUE] /\ t = [x EXCEPT !.escape = TRUE]
    BY <1>1, <1>3, <1>8, ParseCases, ExtraCases
  <2> HIDE DEF s, t
  <2>2. /\ s.argv = p.argv /\ s.quote = p.quote /\ s.in_arg = p.in_arg /\ s.escape = TRUE
        /\ t.ret = x.ret /\ t.argc = x.argc /\ t.quote = x.quote
        /\ t.in_arg = x.in_arg /\ t.escape = TRUE
    BY <2>1 DEF Parser, Counter
  <2> QED
    BY <1>3, <2>2 DEF Agree
<1>9. CASE ~p.escape /\ c = QUOTE
  <2>1. s = ToggleQuote(a) /\ t = [y EXCEPT !.quote = ~x.quote]
    BY <1>1, <1>3, <1>9, ParseCases, ExtraCases DEF a, y
  <2>2. /\ t.ret = y.ret /\ t.argc = y.argc /\ t.in_arg = y.in_arg
        /\ t.escape = y.escape /\ t.quote = ~x.quote
    BY <1>5, <2>1 DEF Counter
  <2>3. CASE a.ret # "RUN"
    BY <1>3, <1>4, <2>1, <2>2, <2>3 DEF Agree, ToggleQuote
  <2>4. CASE a.ret = "RUN"
    <3>1. s = [a EXCEPT !.quote = ~a.quote]
      BY <2>1, <2>4 DEF ToggleQuote
    <3> HIDE DEF s, t
    <3>2. /\ s.argv = a.argv /\ s.in_arg = a.in_arg
          /\ s.escape = a.escape /\ s.quote = ~a.quote
      BY <1>5, <3>1 DEF Parser
    <3>3. a.quote = p.quote
      BY StartArgFacts DEF a
    <3> QED
      BY <1>3, <1>4, <2>2, <2>4, <3>2, <3>3 DEF Agree
  <2> QED
    BY <2>3, <2>4
<1>10. CASE ~p.escape /\ c = PIPE /\ ~p.quote
  <2>1. s = [p EXCEPT !.ret = "PARSE"]
    BY <1>10, ParseCases
  <2>2. s.ret = "PARSE"
    BY <2>1 DEF Parser
  <2> QED
    BY <2>2 DEF Agree
<1>11. CASE ~p.escape /\ c = SPACE /\ ~p.quote
  <2>1. t = [x EXCEPT !.in_arg = FALSE]
    BY <1>1, <1>3, <1>11, ExtraCases
  <2>2. /\ t.ret = x.ret /\ t.argc = x.argc /\ t.quote = x.quote
        /\ t.escape = x.escape /\ t.in_arg = FALSE
    BY <2>1 DEF Counter
  <2>3. CASE ~p.in_arg
    <3>1. s = p
      BY <1>11, <2>3, ParseCases
    <3> HIDE DEF s, t
    <3> QED
      BY <1>3, <2>2, <2>3, <3>1 DEF Agree, Parser
  <2>4. CASE p.in_arg
    <3> DEFINE b == append_char(p, NUL)
    <3>1. s = [b EXCEPT !.in_arg = FALSE]
      BY <1>11, <2>4, ParseCases
    <3>2. b \in Parser /\ b.argv = p.argv /\ b.quote = p.quote /\ b.escape = p.escape
      BY AppendFacts
    <3> HIDE DEF b, s, t
    <3>3. s.argv = b.argv /\ s.quote = b.quote /\ s.escape = b.escape /\ s.in_arg = FALSE
      BY <3>1, <3>2 DEF Parser
    <3> QED
      BY <1>3, <2>2, <3>2, <3>3 DEF Agree
  <2> QED
    BY <2>3, <2>4
<1>12. CASE ~p.escape /\ c \notin {ESCAPE, QUOTE} /\ (c \notin {PIPE, SPACE} \/ p.quote)
  <2> DEFINE over == ~x.in_arg /\ y.argc > CMD_MAX_ARGS
  <2>1. s = append_char(a, c) /\ t = [y EXCEPT !.ret = over]
    BY <1>1, <1>3, <1>12, ParseCases, ExtraCases DEF a, y
  <2>2. PICK q \in BOOLEAN : q = over
    OBVIOUS
  <2>3. t.ret = q /\ t.argc = y.argc /\ t.quote = y.quote /\ t.in_arg = y.in_arg
        /\ t.escape = y.escape
    BY <1>5, <2>1, <2>2 DEF Counter
  <2> HIDE DEF s, t
  <2> QED
    BY <1>4, <1>6, <2>1, <2>2, <2>3 DEF Agree
<1> QED
  BY <1>7, <1>8, <1>9, <1>10, <1>11, <1>12 DEF Parser

-----------------------------------------------------------------------------
\* What the locals p of parse_args know of the line s it has read.
Scans(p, s) ==
  /\ p.ret = "PARSE" => Broken(s)
  /\ p.ret = "USAGE" => Count(s) > CMD_MAX_ARGS
  /\ p.ret = "RUN" =>
       /\ p.escape <=> Esc(s)
       /\ p.quote <=> Open(s)
       /\ p.in_arg <=> ~Fresh(s) /\ ~Pending(s)
       /\ Count(s) = IF Pending(s) THEN Len(p.argv) + 1 ELSE Len(p.argv)
       /\ ~Broken(s)
       /\ Held(p.argv, p.out, s, p.in_arg)

\* append_char stores the character while there is room.
LEMMA AppendStores ==
  ASSUME NEW p \in Parser, NEW c \in Chars \cup {NUL},
         p.ret = "RUN", Len(p.out) < CMD_INPUT_MAX - 1
  PROVE  append_char(p, c) = [p EXCEPT !.out = Append(p.out, c)]
<1>1. Len(p.out) \in Nat
  BY DEF Parser
<1> QED
  BY <1>1 DEF append_char

\* What StartArg makes of p, m entries of argv being needed for s.
Begun(p, a, s, m) ==
  \/ a.ret = "USAGE" /\ m > CMD_MAX_ARGS
  \/ /\ a.ret = "RUN" /\ a.in_arg /\ Len(a.argv) = m /\ Held(a.argv, p.out, s, TRUE)
     /\ a.out = p.out /\ a.quote = p.quote /\ a.escape = p.escape

LEMMA StartArgBegins ==
  ASSUME NEW p \in Parser, p.ret = "RUN", Len(p.argv) <= CMD_MAX_ARGS,
         NEW s, NEW t, NEW c, TokensStep(s, t, c), Scans(p, s)
  PROVE  Begun(p, StartArg(p), s, IF p.in_arg THEN Len(p.argv) ELSE Len(p.argv) + 1)
<1> DEFINE n == Len(p.argv)
           a == StartArg(p)
<1>1. n \in Nat /\ p.argv \in Seq(Nat) /\ p.out \in Output /\ Len(p.out) \in Nat
  BY DEF Parser, Output
<1>2. /\ a \in Parser /\ a.out = p.out /\ a.quote = p.quote /\ a.escape = p.escape
      /\ p.in_arg => a = p
      /\ ~p.in_arg /\ n < CMD_MAX_ARGS => a.ret = p.ret /\ a.in_arg
      /\ ~p.in_arg /\ n = CMD_MAX_ARGS => a.ret = "USAGE"
  BY StartArgFacts
<1>3. Held(p.argv, p.out, s, p.in_arg)
  BY DEF Scans
<1>4. CASE p.in_arg
  <2>1. p.in_arg = TRUE BY <1>4 DEF Parser
  <2>2. Held(p.argv, p.out, s, TRUE) BY <1>3, <2>1
  <2> HIDE DEF a
  <2>3. a = p BY <1>2, <1>4
  <2>4. Begun(p, a, s, n) BY <1>4, <2>2, <2>3 DEF Begun
  <2> QED BY <1>4, <2>4 DEF a
<1>5. CASE ~p.in_arg /\ n = CMD_MAX_ARGS
  <2>1. a.ret = "USAGE" /\ n + 1 > CMD_MAX_ARGS BY <1>1, <1>2, <1>5
  <2> HIDE DEF a
  <2>2. Begun(p, a, s, n + 1) BY <2>1 DEF Begun
  <2> QED BY <1>5, <2>2 DEF a
<1>6. CASE ~p.in_arg /\ n < CMD_MAX_ARGS
  <2>1. a = [p EXCEPT !.argv = Append(p.argv, Len(p.out)), !.in_arg = TRUE]
    BY <1>1, <1>6 DEF StartArg
  <2>2. a.argv = Append(p.argv, Len(p.out))
    BY <2>1 DEF Parser
  <2>3. Len(Append(p.argv, Len(p.out))) = n + 1
    BY <1>1
  <2>4. TokenOf(s, n + 1) = << >>
    <3>1. /\ Count(s) = IF Pending(s) THEN n + 1 ELSE n
          /\ Count(s) \in Nat
      BY DEF Scans, TokensStep
    <3>2. n + 1 \in Nat /\ n + 1 > n BY <1>1
    <3> QED BY <3>1, <3>2 DEF TokensStep
  <2>5. p.in_arg = FALSE BY <1>6 DEF Parser
  <2>6. Held(p.argv, p.out, s, FALSE) BY <1>3, <2>5
  <2>7. Held(Append(p.argv, Len(p.out)), p.out, s, TRUE)
    BY <1>1, <2>4, <2>6, HeldStart
  <2> HIDE DEF a
  <2>8. Begun(p, a, s, n + 1) BY <1>2, <1>6, <2>2, <2>3, <2>7 DEF Begun
  <2> QED BY <1>6, <2>8 DEF a
<1> QED
  BY <1>1, <1>4, <1>5, <1>6

\* The next character keeps the loop and the line together.
LEMMA ScansStep ==
  ASSUME NEW p \in Parser, Len(p.argv) <= CMD_MAX_ARGS, Len(p.out) < CMD_INPUT_MAX - 1,
         NEW s, NEW c \in Chars, NEW t,
         FlagsStep(s, t, c), TokensStep(s, t, c), Scans(p, s)
  PROVE  Scans(ParseStep(p, c), t)
<1> DEFINE n == Len(p.argv)
           a == StartArg(p)
           u == ParseStep(p, c)
           m == IF p.in_arg THEN n ELSE n + 1
<1>1. /\ n \in Nat /\ p.argv \in Seq(Nat) /\ p.out \in Output /\ Len(p.out) \in Nat
      /\ p.ret \in {"RUN", "USAGE", "PARSE"}
      /\ p.in_arg \in BOOLEAN /\ p.quote \in BOOLEAN /\ p.escape \in BOOLEAN
  BY DEF Parser, Output
<1>2. CASE p.ret # "RUN"
  <2>1. u = p BY <1>2, ParseCases
  <2>2. Broken(s) => Broken(t) BY DEF FlagsStep
  <2>3. Count(s) > CMD_MAX_ARGS => Count(t) > CMD_MAX_ARGS BY DEF TokensStep
  <2> HIDE DEF u
  <2> QED BY <1>2, <2>1, <2>2, <2>3 DEF Scans, u
<1> SUFFICES ASSUME p.ret = "RUN" PROVE Scans(u, t)
  BY <1>2
<1>3. /\ p.escape <=> Esc(s)
      /\ p.quote <=> Open(s)
      /\ p.in_arg <=> ~Fresh(s) /\ ~Pending(s)
      /\ Count(s) = IF Pending(s) THEN n + 1 ELSE n
      /\ ~Broken(s)
      /\ Held(p.argv, p.out, s, p.in_arg)
  BY DEF Scans
<1>4. a \in Parser /\ Begun(p, a, s, m)
  BY StartArgFacts, StartArgBegins
<1>5. Pending(s) => Esc(s)
  BY DEF Pending
<1>6. m \in Nat BY <1>1
\* Wherever an argument is begun it gets the entry the line asks for.
<1>7. (p.escape \/ c # ESCAPE) /\ ~Separates(s, c) => Count(t) = m
  <2>1. CASE p.escape
    <3>1. ~Starts(s, c) BY <1>3, <2>1 DEF FlagsStep
    <3>2. Count(t) = Count(s) BY <3>1 DEF TokensStep
    <3>3. p.in_arg <=> ~Pending(s) BY <1>3, <2>1 DEF FlagsStep
    <3> QED BY <1>3, <3>2, <3>3
  <2>2. CASE ~p.escape
    <3>1. ~Pending(s) BY <1>3, <1>5, <2>2
    <3>2. Count(s) = n /\ (p.in_arg <=> ~Fresh(s)) BY <1>3, <3>1
    <3>3. ~Separates(s, c) => (Starts(s, c) <=> ~p.in_arg) BY <3>2 DEF FlagsStep
    <3>4. Count(t) = IF Starts(s, c) THEN Count(s) + 1 ELSE Count(s) BY DEF TokensStep
    <3> QED BY <3>2, <3>3, <3>4
  <2> QED BY <2>1, <2>2
\* An argument begun or continued, and the character stored.
<1>8. ASSUME Remains(s, c), ~Separates(s, c), p.escape \/ c # ESCAPE,
             a.ret = "RUN"
      PROVE  /\ append_char(a, c) = [a EXCEPT !.out = Append(p.out, c)]
             /\ Held(a.argv, Append(p.out, c), t, TRUE)
  <2>1. /\ a.in_arg /\ Len(a.argv) = m /\ Held(a.argv, p.out, s, TRUE) /\ a.out = p.out
    BY <1>4, <1>8 DEF Begun
  <2> HIDE DEF a, m
  <2>2. a.argv \in Seq(Nat) BY <1>4 DEF Parser
  <2>3. Count(t) = Len(a.argv) BY <1>7, <1>8, <2>1
  <2>4. append_char(a, c) = [a EXCEPT !.out = Append(a.out, c)]
    BY <1>4, <1>8, <2>1, AppendStores
  <2>5. Held(a.argv, Append(p.out, c), t, TRUE)
    BY <1>1, <1>8, <2>1, <2>2, <2>3, HeldChar
  <2> QED BY <2>1, <2>4, <2>5
<1>9. a.ret # "RUN" => a.ret = "USAGE" /\ m > CMD_MAX_ARGS
  BY <1>4 DEF Begun
<1>10. a.ret = "RUN" => a.in_arg /\ Len(a.argv) = m /\ Held(a.argv, p.out, s, TRUE)
                        /\ a.out = p.out /\ a.quote = p.quote /\ a.escape = p.escape
  BY <1>4 DEF Begun
<1> HIDE DEF a, m
<1>11. CASE p.escape
  <2>1. u = [append_char(a, c) EXCEPT !.escape = FALSE] BY <1>11, ParseCases, Zenon DEF a
  <2>2. /\ ~Separates(s, c) /\ Remains(s, c) /\ ~Esc(t) /\ (Open(t) <=> Open(s))
        /\ ~Fresh(t) /\ ~Pending(t) /\ ~Broken(t)
    BY <1>3, <1>11 DEF FlagsStep
  <2>3. Count(t) = m BY <1>7, <1>11, <2>2
  <2> HIDE DEF u
  <2>4. CASE a.ret = "RUN"
    <3>1. /\ append_char(a, c) = [a EXCEPT !.out = Append(p.out, c)]
          /\ Held(a.argv, Append(p.out, c), t, TRUE)
      BY <1>8, <1>11, <2>2, <2>4
    <3>2. /\ u.ret = "RUN" /\ ~u.escape /\ u.quote = a.quote /\ u.in_arg = a.in_arg
          /\ u.argv = a.argv /\ u.out = Append(p.out, c)
      BY <1>4, <2>1, <2>4, <3>1 DEF Parser
    <3>3. a.in_arg = TRUE /\ a.quote = p.quote /\ Len(a.argv) = m
      BY <1>4, <1>10, <2>4 DEF Parser
    <3> QED BY <1>3, <2>2, <2>3, <3>1, <3>2, <3>3 DEF Scans
  <2>5. CASE a.ret # "RUN"
    <3>1. append_char(a, c) = a BY <2>5 DEF append_char
    <3>2. u.ret = "USAGE" BY <1>4, <1>9, <2>1, <2>5, <3>1 DEF Parser
    <3> QED BY <1>9, <2>3, <2>5, <3>2 DEF Scans
  <2> QED BY <2>4, <2>5
<1>12. CASE ~p.escape /\ c = ESCAPE
  <2>1. u = [p EXCEPT !.escape = TRUE] BY <1>12, ParseCases
  <2>2. /\ ~Separates(s, c) /\ ~Remains(s, c) /\ Esc(t) /\ (Open(t) <=> Open(s))
        /\ ~Fresh(t) /\ ~Broken(t) /\ (Pending(t) <=> Starts(s, c))
        /\ (Starts(s, c) <=> Fresh(s))
    BY <1>3, <1>12, CharsDiffer DEF FlagsStep
  <2>3. ~Pending(s) /\ Count(s) = n /\ (p.in_arg <=> ~Fresh(s)) BY <1>3, <1>5, <1>12
  <2>4. Count(t) = IF Pending(t) THEN n + 1 ELSE n BY <2>2, <2>3 DEF TokensStep
  <2>5. Held(p.argv, p.out, t, p.in_arg) BY <1>1, <1>3, <2>2, HeldSame
  <2> HIDE DEF u
  <2>6. /\ u.ret = "RUN" /\ u.escape /\ u.quote = p.quote /\ u.in_arg = p.in_arg
        /\ u.argv = p.argv /\ u.out = p.out
    BY <2>1 DEF Parser
  <2> QED BY <1>3, <2>2, <2>3, <2>4, <2>5, <2>6 DEF Scans
<1>13. CASE ~p.escape /\ c = QUOTE
  <2>1. u = ToggleQuote(a) BY <1>13, ParseCases DEF a
  <2>2. /\ ~Separates(s, c) /\ ~Remains(s, c) /\ ~Esc(t) /\ (Open(t) <=> ~Open(s))
        /\ ~Fresh(t) /\ ~Broken(t) /\ ~Pending(t)
    BY <1>3, <1>13, CharsDiffer DEF FlagsStep
  <2>3. Count(t) = m BY <1>7, <1>13, <2>2, CharsDiffer
  <2> HIDE DEF u
  <2>4. CASE a.ret = "RUN"
    <3>1. u = [a EXCEPT !.quote = ~a.quote] BY <2>1, <2>4 DEF ToggleQuote
    <3>2. /\ u.ret = "RUN" /\ u.quote = ~a.quote /\ u.in_arg = a.in_arg
          /\ u.argv = a.argv /\ u.out = a.out /\ u.escape = a.escape
      BY <1>4, <2>4, <3>1 DEF Parser
    <3>3. /\ a.in_arg = TRUE /\ a.quote = p.quote /\ Len(a.argv) = m /\ a.out = p.out
          /\ a.escape = p.escape /\ Held(a.argv, p.out, s, TRUE) /\ a.argv \in Seq(Nat)
      BY <1>4, <1>10, <2>4 DEF Parser
    <3>4. Held(a.argv, p.out, t, TRUE) BY <2>2, <3>3, HeldSame
    <3> QED BY <1>3, <1>13, <2>2, <2>3, <3>2, <3>3, <3>4 DEF Scans
  <2>5. CASE a.ret # "RUN"
    <3>1. u = a BY <2>1, <2>5 DEF ToggleQuote
    <3>2. u.ret = "USAGE" BY <1>9, <2>5, <3>1
    <3> QED BY <1>9, <2>3, <2>5, <3>2 DEF Scans
  <2> QED BY <2>4, <2>5
<1>14. CASE ~p.escape /\ c = PIPE /\ ~p.quote
  <2>1. u = [p EXCEPT !.ret = "PARSE"] BY <1>14, ParseCases
  <2>2. Broken(t) BY <1>3, <1>14 DEF FlagsStep
  <2>3. u.ret = "PARSE" BY <2>1 DEF Parser
  <2> HIDE DEF u
  <2> QED BY <2>2, <2>3 DEF Scans
<1>15. CASE ~p.escape /\ c = SPACE /\ ~p.quote
  <2>1. /\ Separates(s, c) /\ ~Remains(s, c) /\ ~Esc(t) /\ (Open(t) <=> Open(s))
        /\ Fresh(t) /\ ~Broken(t) /\ ~Pending(t) /\ ~Starts(s, c)
    BY <1>3, <1>15, CharsDiffer DEF FlagsStep
  <2>2. ~Pending(s) /\ Count(s) = n BY <1>3, <1>5, <1>15
  <2>3. Count(t) = n BY <2>1, <2>2 DEF TokensStep
  <2>4. CASE p.in_arg
    <3>1. u = [append_char(p, NUL) EXCEPT !.in_arg = FALSE] BY <1>15, <2>4, ParseCases
    <3>2. append_char(p, NUL) = [p EXCEPT !.out = Append(p.out, NUL)] BY AppendStores
    <3>3. p.in_arg = TRUE BY <1>1, <2>4
    <3>4. Held(p.argv, p.out, s, TRUE) BY <1>3, <3>3
    <3>5. Held(p.argv, Append(p.out, NUL), t, FALSE) BY <1>1, <2>1, <3>4, HeldNul
    <3> HIDE DEF u
    <3>6. /\ u.ret = "RUN" /\ u.escape = p.escape /\ u.quote = p.quote /\ u.in_arg = FALSE
          /\ u.argv = p.argv /\ u.out = Append(p.out, NUL)
      BY <3>1, <3>2 DEF Parser
    <3> QED BY <1>3, <1>15, <2>1, <2>3, <3>5, <3>6 DEF Scans
  <2>5. CASE ~p.in_arg
    <3>1. u = p BY <1>15, <2>5, ParseCases
    <3>2. Held(p.argv, p.out, t, p.in_arg) BY <1>1, <1>3, <2>1, HeldSame
    <3> HIDE DEF u
    <3> QED BY <1>3, <1>15, <2>1, <2>3, <2>5, <3>1, <3>2 DEF Scans
  <2> QED BY <2>4, <2>5
<1>16. CASE ~p.escape /\ c \notin {ESCAPE, QUOTE} /\ (c \notin {PIPE, SPACE} \/ p.quote)
  <2>1. u = append_char(a, c) BY <1>16, ParseCases DEF a
  <2>2. /\ ~Separates(s, c) /\ Remains(s, c) /\ ~Esc(t) /\ (Open(t) <=> Open(s))
        /\ ~Fresh(t) /\ ~Broken(t) /\ ~Pending(t)
    BY <1>3, <1>16 DEF FlagsStep
  <2>3. Count(t) = m BY <1>7, <1>16, <2>2
  <2> HIDE DEF u
  <2>4. CASE a.ret = "RUN"
    <3>1. /\ u = [a EXCEPT !.out = Append(p.out, c)]
          /\ Held(a.argv, Append(p.out, c), t, TRUE)
      BY <1>8, <1>16, <2>1, <2>2, <2>4
    <3>2. /\ u.ret = "RUN" /\ u.quote = a.quote /\ u.in_arg = a.in_arg
          /\ u.argv = a.argv /\ u.out = Append(p.out, c) /\ u.escape = a.escape
      BY <1>4, <2>4, <3>1 DEF Parser
    <3>3. a.in_arg = TRUE /\ a.quote = p.quote /\ Len(a.argv) = m /\ a.escape = p.escape
      BY <1>4, <1>10, <2>4 DEF Parser
    <3> QED BY <1>3, <1>16, <2>2, <2>3, <3>1, <3>2, <3>3 DEF Scans
  <2>5. CASE a.ret # "RUN"
    <3>1. u = a BY <2>1, <2>5 DEF append_char
    <3>2. u.ret = "USAGE" BY <1>9, <2>5, <3>1
    <3> QED BY <1>9, <2>3, <2>5, <3>2 DEF Scans
  <2> QED BY <2>4, <2>5
<1> QED
  BY <1>1, <1>11, <1>12, <1>13, <1>14, <1>15, <1>16

-----------------------------------------------------------------------------
ScanInv ==
  /\ line \in Seq(Chars) /\ Len(line) <= MaxLine
  /\ parse \in Parser /\ extra \in Counter
  /\ Agree(parse, extra) /\ Fit(parse, Len(line))

LEMMA InitScan == Init => ScanInv
BY DEF Init, ScanInv, Parser, Counter, Agree, Fit

LEMMA NextScan ==
  ASSUME ScanInv, [Next]_vars
  PROVE  ScanInv'
<1>1. CASE UNCHANGED vars
  BY <1>1 DEF ScanInv, vars
<1>2. ASSUME NEW c \in Chars, Read(c)
      PROVE  ScanInv'
  <2> USE DEF ScanInv
  <2>1. line' \in Seq(Chars) /\ Len(line') = Len(line) + 1 /\ Len(line') <= MaxLine
    BY <1>2 DEF Read
  <2>2. parse' \in Parser /\ Fit(parse', Len(parse.out) + 1)
    BY <1>2, ParseStepFits DEF Read, Fit
  <2>3. extra' \in Counter
    BY <1>2, ExtraStepType DEF Read
  <2>4. Agree(parse', extra')
    BY <1>2, Lockstep DEF Read, Fit
  <2>5. Fit(parse', Len(line'))
    <3>1. Len(parse.out) \in Nat /\ Len(parse'.out) \in Nat /\ Len(line) \in Nat
      BY <2>2 DEF Parser
    <3> QED
      BY <2>1, <2>2, <3>1 DEF Fit
  <2> QED
    BY <2>1, <2>2, <2>3, <2>4, <2>5
<1> QED
  BY <1>1, <1>2 DEF Next

LEMMA ScanAlways == Spec => []ScanInv
BY InitScan, NextScan, PTL DEF Spec

\* For every line: while parse_args goes on, the two loops of pcmd have counted
\* the same arguments and are in the same state, and a line that
\* has_extra_arg_over_limit refuses, parse_args would not have accepted.
THEOREM ScannersInStep == Spec => []ScannersAgree
<1>1. ScanInv => ScannersAgree
  BY DEF ScanInv, Agree, ScannersAgree
<1> QED
  BY <1>1, ScanAlways, PTL

\* For every line: parse_args stores at most CMD_MAX_ARGS pointers in argv, and
\* writes no more characters to input_copy than it has read.
THEOREM NothingOverflows == Spec => []ArgsFit
<1>1. ScanInv => ArgsFit
  <2> SUFFICES ASSUME ScanInv PROVE ArgsFit
    OBVIOUS
  <2>1. Len(parse.out) \in Nat /\ Len(line) \in Nat
    BY DEF ScanInv, Parser
  <2> QED
    BY <2>1 DEF ScanInv, Fit, ArgsFit
<1> QED
  BY <1>1, ScanAlways, PTL

-----------------------------------------------------------------------------
\* Every line read so far is a line of characters, and parse_args is where it is.
TokenInv == ScanInv /\ Scans(parse, line)

LEMMA NoLine ==
  /\ ~Esc(<< >>) /\ ~Open(<< >>) /\ Fresh(<< >>) /\ ~Pending(<< >>) /\ ~Broken(<< >>)
  /\ Count(<< >>) = 0
<1>1. Len(<< >>) = 0 /\ 1..0 = {} /\ Cardinality({}) = 0
  BY FS_EmptySet
<1>2. \A x : Marks(<< >>, x) = {}
  BY <1>1 DEF Marks
<1>3. Begins(<< >>) = {}
  BY <1>1 DEF Begins
<1>4. ~Open(<< >>)
  <2>1. Cardinality(Marks(<< >>, QUOTE)) = 0 BY <1>1, <1>2
  <2> QED BY <2>1 DEF Open
<1>5. ~Esc(<< >>) BY <1>2 DEF Esc
<1>6. ~Broken(<< >>) BY <1>2 DEF Broken
<1>7. Fresh(<< >>) BY <1>1 DEF Fresh
<1>8. Count(<< >>) = 0 BY <1>1, <1>3 DEF Count
<1> QED
  BY <1>4, <1>5, <1>6, <1>7, <1>8 DEF Pending

LEMMA InitTokens == Init => TokenInv
<1> SUFFICES ASSUME Init PROVE Scans(parse, line)
  BY InitScan DEF TokenInv
<1>1. /\ line = << >> /\ parse.ret = "RUN" /\ ~parse.escape /\ ~parse.quote /\ ~parse.in_arg
      /\ Len(parse.argv) = 0
  BY DEF Init
<1>2. Held(parse.argv, parse.out, line, parse.in_arg)
  BY <1>1 DEF Held
<1> QED
  BY <1>1, <1>2, NoLine DEF Scans

LEMMA NextTokens ==
  ASSUME TokenInv, [Next]_vars
  PROVE  TokenInv'
<1>1. ScanInv'
  BY NextScan DEF TokenInv
<1>2. CASE UNCHANGED vars
  BY <1>1, <1>2 DEF TokenInv, vars
<1>3. ASSUME NEW c \in Chars, Read(c)
      PROVE  Scans(parse', line')
  <2>1. /\ line \in Seq(Chars) /\ line' = Append(line, c) /\ Len(line) < MaxLine
        /\ parse \in Parser /\ parse' = ParseStep(parse, c) /\ Scans(parse, line)
        /\ Len(parse.argv) <= CMD_MAX_ARGS /\ Len(parse.out) <= Len(line)
    BY <1>3 DEF TokenInv, ScanInv, Fit, Read
  <2>2. Len(parse.out) < CMD_INPUT_MAX - 1
    <3>1. Len(parse.out) \in Nat /\ Len(line) \in Nat BY <2>1 DEF Parser
    <3> QED BY <2>1, <3>1
  <2>3. FlagsStep(line, line', c) BY <2>1, FlagsFacts
  <2>4. TokensStep(line, line', c) BY <2>1, TokensFacts
  <2> QED BY <2>1, <2>2, <2>3, <2>4, ScansStep
<1> QED
  BY <1>1, <1>2, <1>3 DEF TokenInv, Next

LEMMA WellFormedFlags ==
  ASSUME NEW s \in Seq(Chars)
  PROVE  WellFormed(s) <=> ~Open(s) /\ ~Esc(s) /\ ~Broken(s)
<1>1. Cardinality(Marks(s, QUOTE)) \in Nat
  <2>1. Len(s) \in Nat /\ Marks(s, QUOTE) \in SUBSET (1..Len(s)) BY DEF Marks
  <2> QED BY <2>1, RankFacts
<1>2. Cardinality(Marks(s, QUOTE)) % 2 = 0 <=> ~Open(s)
  BY <1>1 DEF Open
<1> QED
  BY <1>2 DEF WellFormed, Esc, Broken

LEMMA TokensHold ==
  ASSUME TokenInv
  PROVE  ArgsAreTokens
<1> DEFINE n == Count(line)
<1>1. /\ line \in Seq(Chars) /\ parse \in Parser /\ extra.ret \in BOOLEAN
      /\ extra.ret => parse.ret # "RUN"
      /\ Len(parse.argv) <= CMD_MAX_ARGS /\ Len(parse.argv) \in Nat
  BY DEF TokenInv, ScanInv, Agree, Fit, Parser, Counter
<1>2. WellFormed(line) <=> ~Open(line) /\ ~Esc(line) /\ ~Broken(line)
  BY <1>1, WellFormedFlags
<1>3. Scans(parse, line) BY DEF TokenInv
<1>4. n = Cardinality(Begins(line)) BY DEF Count
<1>5. n \in Nat
  <2>1. Begins(line) \in SUBSET (1..Len(line)) /\ Len(line) \in Nat BY <1>1 DEF Begins
  <2> QED BY <1>4, <2>1, RankFacts
<1> SUFFICES /\ pcmd_status = "OK" <=> WellFormed(line) /\ n <= CMD_MAX_ARGS
             /\ pcmd_status = "OK" => argv = Tokens(line)
             /\ WellFormed(line) /\ n > CMD_MAX_ARGS => pcmd_status = "USAGE"
  BY <1>4 DEF ArgsAreTokens
<1>6. CASE parse.ret = "RUN"
  <2>1. pcmd_status = "OK" <=> ~Esc(line) /\ ~Open(line)
    BY <1>1, <1>3, <1>6 DEF pcmd_status, parse_args, Scans
  <2>2. ~Broken(line) /\ (~Esc(line) => n = Len(parse.argv))
    BY <1>3, <1>6 DEF Scans, Pending
  <2>3. ~Esc(line) => argv = Tokens(line)
    <3> SUFFICES ASSUME ~Esc(line) PROVE argv = Tokens(line) OBVIOUS
    <3>1. n = Len(parse.argv) BY <2>2
    <3>2. Held(parse.argv, parse.out, line, parse.in_arg) BY <1>3, <1>6 DEF Scans
    <3>3. \A k \in 1..n : ArgText(parse.out, parse.argv[k] + 1) = TokenOf(line, k)
      BY <3>1, <3>2 DEF Held
    <3>4. argv = [k \in 1..n |-> ArgText(parse.out, parse.argv[k] + 1)] BY <3>1 DEF argv
    <3>5. Tokens(line) = [k \in 1..n |-> TokenOf(line, k)] BY TokensAre
    <3> HIDE DEF n
    <3> QED BY <3>3, <3>4, <3>5
  <2> HIDE DEF n
  <2> QED BY <1>1, <1>2, <1>5, <2>1, <2>2, <2>3
<1>7. CASE parse.ret = "USAGE"
  <2>1. pcmd_status = "USAGE" BY <1>7 DEF pcmd_status, parse_args
  <2>2. n > CMD_MAX_ARGS BY <1>3, <1>7 DEF Scans
  <2> HIDE DEF n
  <2> QED BY <1>5, <2>1, <2>2
<1>8. CASE parse.ret = "PARSE"
  <2>1. pcmd_status # "OK" BY <1>8 DEF pcmd_status, parse_args
  <2>2. Broken(line) BY <1>3, <1>8 DEF Scans
  <2> QED BY <1>2, <2>1, <2>2
<1> QED BY <1>1, <1>6, <1>7, <1>8 DEF Parser

\* For every line: the command runs exactly when the line is well formed and has no
\* more arguments than argv has room for, what it gets are the arguments as read off
\* the line by their positions, and too many are reported as such.
THEOREM ArgumentsAreTokens == Spec => []ArgsAreTokens
BY InitTokens, NextTokens, TokensHold, PTL DEF Spec

-----------------------------------------------------------------------------
(* The loop of cmd_echo.                                                    *)
LEMMA TokensType ==
  ASSUME NEW s \in Seq(Chars)
  PROVE  Tokens(s) \in Seq(Seq(Chars))
<1>1. SPACE \in Chars BY DEF Chars
<1>2. TokensStep(s, Append(s, SPACE), SPACE) BY <1>1, TokensFacts
<1>3. Count(s) \in Nat /\ \A k \in 1..Count(s) : TokenOf(s, k) \in Seq(Chars)
  BY <1>2 DEF TokensStep
<1>4. Tokens(s) = [k \in 1..Count(s) |-> TokenOf(s, k)] BY TokensAre
<1> QED BY <1>3, <1>4

\* The line is read; then its words are printed one after the other.
EchoInv ==
  /\ TokenInv
  /\ arg = 0 => pos = 0 /\ printed = << >>
  /\ arg # 0 => /\ args = Tokens(line) /\ args # << >> /\ arg \in Nat \ {0, 1}
                /\ Printing(Tail(args), arg - 1, pos, printed)

LEMMA TailFacts ==
  ASSUME NEW seq \in Seq(Seq(Chars)), seq # << >>
  PROVE  /\ Tail(seq) \in Seq(Seq(Chars)) /\ Len(Tail(seq)) = Len(seq) - 1
         /\ Len(seq) \in Nat \ {0}
         /\ \A k \in 2..Len(seq) : Tail(seq)[k - 1] = seq[k]
<1>1. Len(seq) \in Nat \ {0} BY EmptySeq
<1>2. /\ Tail(seq) \in Seq(Seq(Chars)) /\ Len(Tail(seq)) = Len(seq) - 1
      /\ \A j \in 1..(Len(seq) - 1) : Tail(seq)[j] = seq[j + 1]
  BY HeadTailProperties
<1>3. ASSUME NEW k \in 2..Len(seq) PROVE Tail(seq)[k - 1] = seq[k]
  <2>1. k - 1 \in 1..(Len(seq) - 1) /\ (k - 1) + 1 = k BY <1>1
  <2> QED BY <1>2, <2>1
<1> QED BY <1>1, <1>2, <1>3

LEMMA NextEcho ==
  ASSUME EchoInv, [EchoNext]_<<vars, echoVars>>
  PROVE  EchoInv'
<1>1. CASE UNCHANGED <<vars, echoVars>>
  <2>1. UNCHANGED <<vars, args, arg, pos, printed>> BY <1>1 DEF echoVars
  <2>2. TokenInv' BY <2>1, NextTokens DEF EchoInv
  <2>3. line' = line BY <2>1 DEF vars
  <2> QED BY <2>1, <2>2, <2>3 DEF EchoInv
<1>2. ASSUME NEW c \in Chars, Type(c) PROVE EchoInv'
  <2>1. arg = 0 /\ Read(c) /\ arg' = arg /\ pos' = pos /\ printed' = printed
    BY <1>2 DEF Type, echoVars
  <2>2. TokenInv'
    <3>1. Next BY <2>1 DEF Next
    <3> QED BY <3>1, NextTokens DEF EchoInv
  <2> QED BY <2>1, <2>2 DEF EchoInv
<1>3. CASE Dispatch
  <2>1. /\ arg = 0 /\ pcmd_status = "OK" /\ parse.argv # << >> /\ args' = argv /\ arg' = 2
        /\ pos' = pos /\ printed' = printed /\ UNCHANGED vars
    BY <1>3 DEF Dispatch
  <2>2. TokenInv /\ TokenInv' /\ line' = line
    BY <2>1, NextTokens DEF EchoInv, vars
  <2>3. args' = Tokens(line) BY <2>1, <2>2, TokensHold DEF ArgsAreTokens
  <2>4. line \in Seq(Chars) /\ parse \in Parser BY <2>2 DEF TokenInv, ScanInv
  <2>5. args' \in Seq(Seq(Chars)) BY <2>3, <2>4, TokensType
  <2>6. args' # << >>
    <3>1. Len(parse.argv) \in Nat \ {0} BY <2>1, <2>4, EmptySeq DEF Parser
    <3>2. Len(args') = Len(parse.argv) BY <2>1, <3>1 DEF argv
    <3> QED BY <3>1, <3>2
  <2>7. Tail(args') \in Seq(Seq(Chars)) BY <2>5, <2>6, TailFacts
  <2>8. Printing(Tail(args'), 1, 0, << >>) BY <2>7, FirstWord
  <2>9. pos' = 0 /\ printed' = << >> /\ arg' - 1 = 1 BY <2>1 DEF EchoInv
  <2> QED BY <2>1, <2>2, <2>3, <2>6, <2>8, <2>9 DEF EchoInv
<1>4. CASE cmd_echo
  <2> DEFINE w == Tail(args)
             k == arg - 1
  <2>1. arg \in 2..Len(args) /\ UNCHANGED <<vars, args>> BY <1>4 DEF cmd_echo, Char, NextArg
  <2>2. TokenInv /\ TokenInv' /\ line' = line BY <2>1, NextTokens DEF EchoInv, vars
  <2>3. arg # 0 /\ args = Tokens(line) /\ args # << >> /\ Printing(w, k, pos, printed)
    BY <2>1 DEF EchoInv
  <2>4. args \in Seq(Seq(Chars)) BY <2>2, <2>3, TokensType DEF TokenInv, ScanInv
  <2>5. /\ w \in Seq(Seq(Chars)) /\ k \in 1..Len(w) /\ w[k] = args[arg]
        /\ Len(w) = Len(args) - 1 /\ Len(args) \in Nat
    BY <2>1, <2>3, <2>4, TailFacts
  <2>6. CASE NextArg
    <3>1. /\ pos = Len(w[k]) /\ arg' = arg + 1 /\ pos' = 0 /\ printed' = printed \o Separator
      BY <2>5, <2>6 DEF NextArg
    <3>2. Separator = IF k < Len(w) THEN <<SPACE>> ELSE << >> BY <2>1, <2>5 DEF Separator
    <3>3. Printing(w, k + 1, 0, printed \o (IF k < Len(w) THEN <<SPACE>> ELSE << >>))
      BY <2>3, <2>5, <3>1, NextWord
    <3>4. arg' \in Nat \ {0, 1} /\ arg' - 1 = k + 1 BY <2>1, <3>1
    <3>5. Printing(w, arg' - 1, pos', printed') BY <3>1, <3>2, <3>3, <3>4
    <3> QED BY <2>1, <2>2, <2>3, <3>4, <3>5 DEF EchoInv
  <2>7. CASE Char
    <3> DEFINE text == w[k]
               found == Match(text, pos + 1)
    <3>1. /\ pos < Len(text) /\ arg' = arg
          /\ IF text[pos + 1] = "$" /\ found # {}
             THEN printed' = printed \o Values[Min(found)] /\ pos' = pos + Skip(Min(found))
             ELSE printed' = Append(printed, text[pos + 1]) /\ pos' = pos + 1
      BY <2>5, <2>7 DEF Char
    <3>2. IF text[pos + 1] = "$" /\ found # {}
          THEN Printing(w, k, pos + Skip(Min(found)), printed \o Values[Min(found)])
          ELSE Printing(w, k, pos + 1, Append(printed, text[pos + 1]))
      BY <2>3, <2>5, <3>1, CharPrinted
    <3>3. Printing(w, k, pos', printed') BY <3>1, <3>2
    <3>4. arg' \in Nat \ {0, 1} /\ arg' - 1 = k BY <2>1, <3>1
    <3> QED BY <2>1, <2>2, <2>3, <3>3, <3>4 DEF EchoInv
  <2> QED BY <1>4, <2>6, <2>7 DEF cmd_echo
<1> QED
  BY <1>1, <1>2, <1>3, <1>4 DEF EchoNext

\* For every line, every list of names in which a longer one comes first, and all
\* their values: echo prints the words of the line with a blank between them, each
\* $ with a name after it replaced by what the longest such name stands for, the
\* characters of the name skipped and no other one.
THEOREM EchoPrintsExpansion == EchoSpec => []EchoExpands
<1>1. EchoInit => EchoInv
  BY InitTokens DEF EchoInit, EchoInv
<1>2. ASSUME EchoInv PROVE EchoExpands
  <2> SUFFICES ASSUME arg # 0
               PROVE  /\ arg \in 2..Len(args) => pos <= Len(args[arg])
                      /\ arg > 0 /\ arg > Len(args) =>
                           printed = FlattenSeq(Spaced(Tail(Tokens(line))))
    BY <1>2 DEF EchoExpands, EchoInv
  <2> DEFINE w == Tail(args)
             k == arg - 1
  <2>1. /\ args = Tokens(line) /\ args # << >> /\ arg \in Nat \ {0, 1}
        /\ Printing(w, k, pos, printed) /\ line \in Seq(Chars)
    BY <1>2 DEF EchoInv, TokenInv, ScanInv
  <2>2. args \in Seq(Seq(Chars)) BY <2>1, TokensType
  <2>3. /\ w \in Seq(Seq(Chars)) /\ Len(w) = Len(args) - 1 /\ Len(args) \in Nat \ {0}
        /\ \A j \in 2..Len(args) : w[j - 1] = args[j]
    BY <2>1, <2>2, TailFacts
  <2>4. arg \in 2..Len(args) => pos <= Len(args[arg])
    <3> SUFFICES ASSUME arg \in 2..Len(args) PROVE pos <= Len(args[arg]) OBVIOUS
    <3>1. k <= Len(w) /\ w[k] = args[arg] BY <2>3
    <3>2. AtCharacter(w[k], pos) BY <2>1, <3>1 DEF Printing
    <3> QED BY <3>1, <3>2 DEF AtCharacter
  <2>5. arg > Len(args) => printed = FlattenSeq(Spaced(w))
    <3> SUFFICES ASSUME arg > Len(args) PROVE printed = FlattenSeq(Spaced(w)) OBVIOUS
    <3>1. k = Len(w) + 1 BY <2>1, <2>3 DEF Printing
    <3>2. printed = Said(w, Len(w)) BY <2>1, <3>1 DEF Printing
    <3> QED BY <2>3, <3>2, SaidIs
  <2> QED BY <2>1, <2>4, <2>5
<1> QED
  BY <1>1, <1>2, NextEcho, PTL DEF EchoSpec
=============================================================================
