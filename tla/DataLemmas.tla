----------------------------- MODULE DataLemmas ------------------------------
(***************************************************************************)
(* What the parsers of Netstring and HttpHeader return, for every input.   *)
(*                                                                         *)
(* Induction over data is by sets here: NatSetInduction speaks of a set    *)
(* that contains 0 and is closed under successor, and each use of it gives *)
(* it the set of the numbers up to which something has been shown.  A      *)
(* function that is defined by recursion is handled in two steps: there    *)
(* is a function that satisfies the equation, hence the one that CHOOSE    *)
(* denotes does; then what it yields, from the equation.                   *)
(***************************************************************************)
EXTENDS HttpHeader, Netstring, ListLemmas, WellFoundedInduction

\* A set that has 0 and with each number the next has them all.
LEMMA NatSetInduction ==
    ASSUME NEW S, 0 \in S, \A n \in Nat : n \in S => n + 1 \in S
    PROVE  Nat \subseteq S
<1> SUFFICES ASSUME Nat \ S # {} PROVE FALSE
  OBVIOUS
<1> DEFINE T == Nat \ S
           Less == {ss \in Nat \X Nat : ss[1] < ss[2]}
<1>1. IsWellFoundedOn(Less, Nat)
  BY NatLessThanWellFounded DEF OpToRel
<1>2. PICK x \in T : \A y \in T : ~(<<y, x>> \in Less)
  <2>1. T \subseteq Nat /\ T # {}
    OBVIOUS
  <2> HIDE DEF T, Less
  <2> QED
    BY <1>1, <2>1, WFMin
<1>3. x # 0 /\ x \in Nat
  OBVIOUS
<1>4. x - 1 \in Nat /\ x - 1 < x
  BY <1>3
<1>5. x - 1 \in S
  BY <1>2, <1>4
<1> QED
  BY <1>3, <1>4, <1>5

\* A set of numbers that is not empty has a least one, which Min is.
LEMMA MinIsLeast ==
    ASSUME NEW S \in SUBSET Nat, S # {}
    PROVE  Min(S) \in S /\ \A y \in S : Min(S) <= y
<1> DEFINE Less == {ss \in Nat \X Nat : ss[1] < ss[2]}
<1>1. IsWellFoundedOn(Less, Nat)
  BY NatLessThanWellFounded DEF OpToRel
<1>2. PICK x \in S : \A y \in S : ~(<<y, x>> \in Less)
  <2> HIDE DEF Less
  <2> QED
    BY <1>1, WFMin
<1>3. \A y \in S : y \in Nat /\ x \in Nat /\ ~(y < x)
  BY <1>2
<1> HIDE DEF Less
<1>4. \A y \in S : x <= y
  BY <1>3
<1> QED
  BY <1>4 DEF Min

\* The first colon of a string, or 0.
LEMMA ColonInData ==
    ASSUME NEW S, NEW s \in Seq(S)
    PROVE  ColonAt(s) \in 0 .. Len(s)
<1> DEFINE I == {i \in 1 .. Len(s) : s[i] = Colon}
<1>1. Len(s) \in Nat /\ I \in SUBSET Nat
  BY LenProperties
<1>2. I # {} => Min(I) \in I
  BY <1>1, MinIsLeast
<1>3. ColonAt(s) = IF I # {} THEN Min(I) ELSE 0
  BY DEF ColonAt, SelectInSeq
<1> HIDE DEF I
<1>4. I # {} => Min(I) \in 1 .. Len(s)
  BY <1>2 DEF I
<1> QED
  BY <1>1, <1>3, <1>4

\* atoi reads digits, and stops at the first character that is none.
LEMMA AtoiDigits ==
    ASSUME NEW S, NEW s \in Seq(S)
    PROVE  LET stop == SelectInSeq(s, LAMBDA b : ~IsDigit(b))
               digits == IF stop = 0 THEN Len(s) ELSE stop - 1
           IN  digits \in 0 .. Len(s) /\ \A i \in 1 .. digits : IsDigit(s[i])
<1> DEFINE I == {i \in 1 .. Len(s) : ~IsDigit(s[i])}
           stop == SelectInSeq(s, LAMBDA b : ~IsDigit(b))
<1>1. Len(s) \in Nat /\ I \in SUBSET Nat
  BY LenProperties
<1>2. I # {} => Min(I) \in I /\ \A i \in I : Min(I) <= i
  BY <1>1, MinIsLeast
<1>3. stop = IF I # {} THEN Min(I) ELSE 0
  BY DEF SelectInSeq
<1> HIDE DEF stop
<1> DEFINE digits == IF stop = 0 THEN Len(s) ELSE stop - 1
<1> SUFFICES digits \in 0 .. Len(s) /\ \A i \in 1 .. digits : IsDigit(s[i])
  BY DEF stop
<1>4. CASE I = {}
  <2>1. stop = 0
    BY <1>3, <1>4
  <2>2. \A i \in 1 .. Len(s) : IsDigit(s[i])
    BY <1>4
  <2> QED
    BY <1>1, <2>1, <2>2
<1>5. CASE I # {}
  <2>1. stop \in 1 .. Len(s) /\ \A i \in I : stop <= i
    BY <1>2, <1>3, <1>5
  <2>2. \A i \in 1 .. stop - 1 : i \notin I /\ i \in 1 .. Len(s)
    BY <1>1, <2>1
  <2>3. \A i \in 1 .. stop - 1 : IsDigit(s[i])
    BY <2>2
  <2> QED
    BY <1>1, <2>1, <2>3
<1> QED
  BY <1>4, <1>5

\* atoi adds up the digits that it reads, one by one.
LEMMA AtoiSums ==
    ASSUME NEW s, NEW n \in Nat
    PROVE  LET stop == SelectInSeq(s, LAMBDA b : ~IsDigit(b))
               digits == IF stop = 0 THEN Len(s) ELSE stop - 1
           IN  n = digits =>
               \E v : /\ Atoi(s) = v[n] /\ v[0] = 0
                      /\ \A i \in 1 .. n : v[i] = 10 * v[i - 1] + (s[i] - Digit(0))
<1> DEFINE Solves(f, m) ==
               f = [i \in 0 .. m |-> IF i = 0 THEN 0 ELSE 10 * f[i - 1] + (s[i] - Digit(0))]
           value == CHOOSE f : Solves(f, n)
           stop == SelectInSeq(s, LAMBDA b : ~IsDigit(b))
           digits == IF stop = 0 THEN Len(s) ELSE stop - 1
<1>2. ASSUME n = digits PROVE Atoi(s) = value[n]
  BY <1>2 DEF Atoi
<1> HIDE DEF digits
<1>3. \E f : Solves(f, n)
  <2> DEFINE Solved == {m \in Nat : \E f : Solves(f, m)}
  <2>1. 0 \in Solved
    <3>1. Solves([i \in 0 .. 0 |-> 0], 0)
      OBVIOUS
    <3> QED
      BY <3>1
  <2>2. ASSUME NEW m \in Nat, m \in Solved PROVE m + 1 \in Solved
    <3>1. PICK f : Solves(f, m)
      BY <2>2
    <3> DEFINE g == [i \in 0 .. m + 1 |->
                        IF i = m + 1 THEN 10 * f[m] + (s[m + 1] - Digit(0)) ELSE f[i]]
    <3>2. DOMAIN f = 0 .. m /\ \A i \in 0 .. m :
             f[i] = IF i = 0 THEN 0 ELSE 10 * f[i - 1] + (s[i] - Digit(0))
      BY <3>1
    <3>3. ASSUME NEW i \in 0 .. m + 1
          PROVE  g[i] = IF i = 0 THEN 0 ELSE 10 * g[i - 1] + (s[i] - Digit(0))
      <4>1. CASE i = m + 1
        <5>1. g[i] = 10 * f[m] + (s[m + 1] - Digit(0)) /\ i # 0 /\ i - 1 = m
          BY <4>1
        <5>2. g[m] = f[m]
          OBVIOUS
        <5> QED
          BY <4>1, <5>1, <5>2
      <4>2. CASE i # m + 1
        <5>1. i \in 0 .. m /\ g[i] = f[i]
          BY <4>2
        <5>2. i # 0 => i - 1 \in 0 .. m + 1 /\ i - 1 # m + 1
          BY <5>1
        <5>3. i # 0 => g[i - 1] = f[i - 1]
          BY <5>2
        <5> HIDE DEF g
        <5> QED
          BY <3>2, <5>1, <5>3
      <4> QED
        BY <4>1, <4>2
    <3>4. g = [i \in 0 .. m + 1 |-> g[i]]
      OBVIOUS
    <3> HIDE DEF g
    <3>5. Solves(g, m + 1)
      BY <3>3, <3>4
    <3> QED
      BY <3>5
  <2> HIDE DEF Solved
  <2>3. n \in Solved
    BY <2>1, <2>2, NatSetInduction
  <2> QED
    BY <2>3 DEF Solved
<1>4. Solves(value, n)
  BY <1>3
<1> HIDE DEF value
<1>5. value[0] = 0 /\ \A i \in 1 .. n : value[i] = 10 * value[i - 1] + (s[i] - Digit(0))
  <2>1. \A i \in 0 .. n : value[i] = IF i = 0 THEN 0 ELSE 10 * value[i - 1] + (s[i] - Digit(0))
    BY <1>4
  <2>2. 0 \in 0 .. n /\ \A i \in 1 .. n : i \in 0 .. n /\ i # 0
    OBVIOUS
  <2> QED
    BY <2>1, <2>2
<1> QED
  BY <1>2, <1>5 DEF digits

\* atoi returns a number that is not negative.
LEMMA AtoiIsNat == ASSUME NEW S, NEW s \in Seq(S) PROVE Atoi(s) \in Nat
<1> DEFINE stop == SelectInSeq(s, LAMBDA b : ~IsDigit(b))
           n == IF stop = 0 THEN Len(s) ELSE stop - 1
<1>1. n \in Nat /\ \A i \in 1 .. n : s[i] - Digit(0) \in Nat
  <2>1. Len(s) \in Nat
    BY LenProperties
  <2> QED
    BY <2>1, AtoiDigits DEF IsDigit, Digit
<1>2. PICK v : /\ Atoi(s) = v[n] /\ v[0] = 0
               /\ \A i \in 1 .. n : v[i] = 10 * v[i - 1] + (s[i] - Digit(0))
  BY <1>1, AtoiSums
<1> HIDE DEF n, stop
<1> DEFINE Good == {m \in Nat : m <= n => v[m] \in Nat}
<1>3. 0 \in Good
  BY <1>2
<1>4. ASSUME NEW m \in Nat, m \in Good PROVE m + 1 \in Good
  <2> SUFFICES ASSUME m + 1 <= n PROVE v[m + 1] \in Nat
    OBVIOUS
  <2>1. v[m + 1] = 10 * v[m] + (s[m + 1] - Digit(0))
    BY <1>1, <1>2
  <2>2. v[m] \in Nat /\ s[m + 1] - Digit(0) \in Nat
    BY <1>1, <1>4
  <2> QED
    BY <2>1, <2>2
<1> HIDE DEF Good
<1>5. n \in Good
  BY <1>1, <1>3, <1>4, NatSetInduction
<1> QED
  BY <1>1, <1>2, <1>5 DEF Good

------------------------------------------------------------------------------
\* A sequence, of whatever elements.
IsSequence(s) == \E S : s \in Seq(S)

\* A part of a sequence is one.
LEMMA SubSequence ==
    ASSUME NEW s, IsSequence(s), NEW m \in Nat \ {0}, NEW n \in Nat, n <= Len(s)
    PROVE  /\ IsSequence(SubSeq(s, m, n)) /\ Len(s) \in Nat
           /\ Len(SubSeq(s, m, n)) = IF m <= n THEN n - m + 1 ELSE 0
<1> PICK S : s \in Seq(S)
  BY DEF IsSequence
<1>1. Len(s) \in Nat /\ \A i \in m .. n : s[i] \in S
  BY LenProperties, ElementOfSeq
<1> QED
  BY <1>1, SubSeqProperties DEF IsSequence

\* Two sequences make one that is as long as both.
LEMMA JoinedSequences ==
    ASSUME NEW s, IsSequence(s), NEW t, IsSequence(t)
    PROVE  /\ IsSequence(s \o t) /\ Len(s) \in Nat /\ Len(t) \in Nat
           /\ Len(s \o t) = Len(s) + Len(t)
<1> PICK S : s \in Seq(S)
  BY DEF IsSequence
<1> PICK T : t \in Seq(T)
  BY DEF IsSequence
<1>1. s \in Seq(S \cup T) /\ t \in Seq(S \cup T)
  BY SeqMonotonic
<1> QED
  BY <1>1, ConcatProperties, LenProperties DEF IsSequence

\* An element more makes a sequence that is longer by one.
LEMMA LongerSequence ==
    ASSUME NEW s, IsSequence(s), NEW x
    PROVE  /\ IsSequence(Append(s, x)) /\ Len(s) \in Nat
           /\ Len(Append(s, x)) = Len(s) + 1
<1> PICK S : s \in Seq(S)
  BY DEF IsSequence
<1>1. s \in Seq(S \cup {x})
  BY SeqMonotonic
<1> QED
  BY <1>1, AppendProperties, LenProperties DEF IsSequence

------------------------------------------------------------------------------
\* Sequences that are joined or compared have elements of one set.
LEMMA OneElementSet ==
    ASSUME NEW s, IsSequence(s), NEW t, IsSequence(t), NEW u, IsSequence(u)
    PROVE  \E S : s \in Seq(S) /\ t \in Seq(S) /\ u \in Seq(S)
<1> PICK S : s \in Seq(S)
  BY DEF IsSequence
<1> PICK T : t \in Seq(T)
  BY DEF IsSequence
<1> PICK U : u \in Seq(U)
  BY DEF IsSequence
<1> DEFINE V == S \cup T \cup U
<1>1. S \subseteq V /\ T \subseteq V /\ U \subseteq V
  OBVIOUS
<1> HIDE DEF V
<1>2. s \in Seq(V) /\ t \in Seq(V) /\ u \in Seq(V)
  BY <1>1, SeqMonotonic
<1> QED
  BY <1>2

\* Concatenation by a name: a definition is opaque to the provers until it is
\* cited, so equations between joined sequences are kept as they are.
Join(s, t) == s \o t

\* Two sequences make one that is as long as both and has at each place what they have.
LEMMA JoinElements ==
    ASSUME NEW s, IsSequence(s), NEW t, IsSequence(t)
    PROVE  /\ IsSequence(Join(s, t)) /\ Len(Join(s, t)) = Len(s) + Len(t)
           /\ Len(s) \in Nat /\ Len(t) \in Nat
           /\ \A i \in 1 .. Len(s) : Join(s, t)[i] = s[i]
           /\ \A i \in 1 .. Len(t) : Join(s, t)[Len(s) + i] = t[i]
<1> PICK S : s \in Seq(S) /\ t \in Seq(S)
  BY OneElementSet
<1>1. /\ \A i \in 1 .. Len(s) + Len(t) : (s \o t)[i] = IF i <= Len(s) THEN s[i] ELSE t[i - Len(s)]
      /\ Len(s) \in Nat /\ Len(t) \in Nat
  BY ConcatProperties, LenProperties
<1>2. ASSUME NEW i \in 1 .. Len(t) PROVE (s \o t)[Len(s) + i] = t[i]
  <2>1. /\ Len(s) + i \in 1 .. Len(s) + Len(t) /\ ~(Len(s) + i <= Len(s))
        /\ Len(s) + i - Len(s) = i
    BY <1>1
  <2> QED
    BY <1>1, <2>1
<1>3. IsSequence(s \o t) /\ Len(s \o t) = Len(s) + Len(t)
  BY JoinedSequences
<1>4. \A i \in 1 .. Len(s) : (s \o t)[i] = s[i]
  BY <1>1
<1> QED
  BY <1>1, <1>2, <1>3, <1>4 DEF Join

\* What a part of a sequence has at each place.
LEMMA PartElements ==
    ASSUME NEW s, IsSequence(s), NEW m \in Nat \ {0}, NEW n \in Nat, n <= Len(s)
    PROVE  \A i \in 1 .. n - m + 1 : SubSeq(s, m, n)[i] = s[m + i - 1]
<1> PICK S : s \in Seq(S)
  BY DEF IsSequence
<1>1. \A i \in m .. n : s[i] \in S
  BY LenProperties, ElementOfSeq
<1> QED
  BY <1>1, SubSeqProperties

\* Sequences that agree at each place are equal.
LEMMA SameSequence ==
    ASSUME NEW s, IsSequence(s), NEW t, IsSequence(t), Len(s) = Len(t),
           \A i \in 1 .. Len(s) : s[i] = t[i]
    PROVE  s = t
BY OneElementSet, SeqEqual

\* Joining is associative.
LEMMA JoinAssociative ==
    ASSUME NEW s, IsSequence(s), NEW t, IsSequence(t), NEW u, IsSequence(u)
    PROVE  Join(Join(s, t), u) = Join(s, Join(t, u))
<1> PICK S : s \in Seq(S) /\ t \in Seq(S) /\ u \in Seq(S)
  BY OneElementSet
<1> QED
  BY ConcatAssociative DEF Join

\* The empty sequence adds nothing.
LEMMA JoinEmpty ==
    ASSUME NEW s, IsSequence(s)
    PROVE  Join(s, <<>>) = s /\ Join(<<>>, s) = s
BY ConcatEmptySeq DEF IsSequence, Join

\* The first n elements of a sequence, and the others.
First(s, n) == SubSeq(s, 1, n)
After(s, n) == SubSeq(s, n + 1, Len(s))

\* A sequence is its first n elements and the others.
LEMMA CutInTwo ==
    ASSUME NEW s, IsSequence(s), NEW n \in 0 .. Len(s)
    PROVE  /\ s = Join(First(s, n), After(s, n))
           /\ IsSequence(First(s, n)) /\ Len(First(s, n)) = n
           /\ \A i \in 1 .. n : First(s, n)[i] = s[i]
           /\ IsSequence(After(s, n)) /\ Len(After(s, n)) = Len(s) - n
           /\ \A i \in 1 .. Len(s) - n : After(s, n)[i] = s[n + i]
<1> DEFINE a == SubSeq(s, 1, n)
           b == SubSeq(s, n + 1, Len(s))
<1>1. Len(s) \in Nat
  BY JoinedSequences
<1>2. IsSequence(a) /\ Len(a) = n /\ \A i \in 1 .. n : a[i] = s[i]
  <2>1. Len(a) = IF 1 <= n THEN n - 1 + 1 ELSE 0
    BY <1>1, SubSequence
  <2>2. IsSequence(a)
    BY <1>1, SubSequence
  <2>3. \A i \in 1 .. n - 1 + 1 : a[i] = s[1 + i - 1]
    BY <1>1, PartElements
  <2> HIDE DEF a
  <2> QED
    BY <1>1, <2>1, <2>2, <2>3
<1>3. IsSequence(b) /\ Len(b) = Len(s) - n /\ \A i \in 1 .. Len(s) - n : b[i] = s[n + i]
  <2>1. Len(b) = (IF n + 1 <= Len(s) THEN Len(s) - (n + 1) + 1 ELSE 0) /\ IsSequence(b)
    BY <1>1, SubSequence
  <2>2. \A i \in 1 .. Len(s) - (n + 1) + 1 : b[i] = s[(n + 1) + i - 1]
    BY <1>1, PartElements
  <2> HIDE DEF b
  <2>3. Len(b) = Len(s) - n
    BY <1>1, <2>1
  <2>4. ASSUME NEW i \in 1 .. Len(s) - n PROVE b[i] = s[n + i]
    <3>1. i \in 1 .. Len(s) - (n + 1) + 1 /\ (n + 1) + i - 1 = n + i
      BY <1>1
    <3> QED
      BY <2>2, <3>1
  <2> QED
    BY <2>1, <2>3, <2>4
<1> HIDE DEF a, b
<1>4. s = Join(a, b)
  <2>1. /\ IsSequence(Join(a, b)) /\ Len(Join(a, b)) = Len(a) + Len(b)
        /\ \A i \in 1 .. Len(a) : Join(a, b)[i] = a[i]
        /\ \A i \in 1 .. Len(b) : Join(a, b)[Len(a) + i] = b[i]
    <3>1. IsSequence(a) /\ IsSequence(b)
      BY <1>2, <1>3
    <3>2. IsSequence(Join(a, b)) /\ Len(Join(a, b)) = Len(a) + Len(b)
      BY <3>1, JoinElements
    <3>3. \A i \in 1 .. Len(a) : Join(a, b)[i] = a[i]
      BY <3>1, JoinElements
    <3>4. \A i \in 1 .. Len(b) : Join(a, b)[Len(a) + i] = b[i]
      BY <3>1, JoinElements
    <3> QED
      BY <3>2, <3>3, <3>4
  <2>2. Len(Join(a, b)) = Len(s)
    BY <1>1, <1>2, <1>3, <2>1
  <2>3. ASSUME NEW i \in 1 .. Len(s) PROVE s[i] = Join(a, b)[i]
    <3>1. CASE i <= n
      BY <1>1, <1>2, <2>1, <3>1
    <3>2. CASE ~(i <= n)
      <4>1. i - n \in 1 .. Len(b) /\ Len(a) + (i - n) = i /\ n + (i - n) = i
        BY <1>1, <1>2, <1>3, <3>2
      <4>2. Join(a, b)[Len(a) + (i - n)] = b[i - n]
        BY <2>1, <4>1
      <4>3. b[i - n] = s[n + (i - n)]
        BY <1>3, <4>1
      <4> QED
        BY <4>1, <4>2, <4>3
    <3> QED
      BY <3>1, <3>2
  <2> QED
    BY <2>1, <2>2, <2>3, SameSequence
<1> QED
  BY <1>2, <1>3, <1>4 DEF a, b, First, After

\* The beginning of the first of two joined sequences.
LEMMA FirstOfJoin ==
    ASSUME NEW s, IsSequence(s), NEW t, IsSequence(t), NEW n \in 0 .. Len(s)
    PROVE  First(Join(s, t), n) = First(s, n)
<1>1. /\ IsSequence(Join(s, t)) /\ Len(s) \in Nat /\ Len(t) \in Nat
      /\ Len(Join(s, t)) = Len(s) + Len(t)
      /\ \A i \in 1 .. Len(s) : Join(s, t)[i] = s[i]
  BY JoinElements
<1>2. n \in 0 .. Len(Join(s, t))
  BY <1>1
<1>3. /\ IsSequence(First(Join(s, t), n)) /\ Len(First(Join(s, t), n)) = n
      /\ \A i \in 1 .. n : First(Join(s, t), n)[i] = Join(s, t)[i]
  BY <1>1, <1>2, CutInTwo
<1>4. /\ IsSequence(First(s, n)) /\ Len(First(s, n)) = n
      /\ \A i \in 1 .. n : First(s, n)[i] = s[i]
  BY CutInTwo
<1>5. \A i \in 1 .. n : i \in 1 .. Len(s)
  BY <1>1
<1>6. \A i \in 1 .. n : First(Join(s, t), n)[i] = First(s, n)[i]
  BY <1>1, <1>3, <1>4, <1>5
<1> QED
  BY <1>3, <1>4, <1>6, SameSequence

\* What is the same in front leaves the same behind.
LEMMA CancelFirst ==
    ASSUME NEW h, IsSequence(h), NEW y, IsSequence(y), NEW z, IsSequence(z),
           Join(h, y) = Join(h, z)
    PROVE  y = z
<1>1. PICK S : h \in Seq(S) /\ y \in Seq(S) /\ z \in Seq(S)
  BY OneElementSet
<1>2. h \o y = h \o z => y = z
  <2>1. \A V : \A s, t, v \in Seq(V) : s \o t = s \o v => t = v
    BY ConcatSimplifications
  <2> HIDE <1>1
  <2> QED
    BY <1>1, <2>1, Zenon
<1>3. h \o y = h \o z
  BY Zenon DEF Join
<1> QED
  BY <1>2, <1>3

\* Of two ways of cutting one sequence, the longer first part begins with the
\* shorter one.
LEMMA CutAgain ==
    ASSUME NEW x, IsSequence(x), NEW y, IsSequence(y),
           NEW b, IsSequence(b), NEW z, IsSequence(z),
           Len(b) <= Len(x), Join(x, y) = Join(b, z)
    PROVE  First(x, Len(b)) = b /\ Join(After(x, Len(b)), y) = z
<1> DEFINE n == Len(b)
           h == First(x, n)
           r == After(x, n)
<1>1. Len(x) \in Nat /\ n \in 0 .. Len(x) /\ Len(y) \in Nat /\ Len(z) \in Nat
  BY JoinElements
<1>2. /\ x = Join(h, r) /\ IsSequence(h) /\ Len(h) = n /\ IsSequence(r)
      /\ \A i \in 1 .. n : h[i] = x[i]
  BY <1>1, CutInTwo
<1> HIDE DEF h, r
<1>3. ASSUME NEW i \in 1 .. n PROVE h[i] = b[i]
  <2>1. i \in 1 .. Len(x) /\ i \in 1 .. Len(b)
    BY <1>1
  <2>2. Join(x, y)[i] = x[i] /\ Join(b, z)[i] = b[i]
    BY <2>1, JoinElements
  <2> QED
    BY <1>2, <2>2
<1>4. h = b
  BY <1>2, <1>3, SameSequence
<1>5. Join(b, Join(r, y)) = Join(b, z)
  BY <1>2, <1>4, JoinAssociative
<1>6. IsSequence(Join(r, y))
  BY <1>2, JoinElements
<1>7. Join(r, y) = z
  BY <1>5, <1>6, CancelFirst
<1> QED
  BY <1>4, <1>7 DEF h, r

\* FlattenSeq joins one sequence after the other to those before it.
LEMMA FlatPrefixes ==
    ASSUME NEW T, NEW ss \in Seq(T), \A i \in 1 .. Len(ss) : IsSequence(ss[i]), ss # <<>>
    PROVE  \E pre : /\ FlattenSeq(ss) = pre[Len(ss)] /\ pre[1] = ss[1]
                    /\ \A i \in 1 .. Len(ss) : IsSequence(pre[i])
                    /\ \A i \in 1 .. Len(ss) - 1 : pre[i + 1] = Join(pre[i], ss[i + 1])
<1> DEFINE n == Len(ss)
           Solves(f, m) == f = [i \in 1 .. m |-> IF i = 1 THEN ss[i] ELSE Join(f[i - 1], ss[i])]
           flatten == CHOOSE f : Solves(f, n)
<1>1. n \in Nat \ {0}
  BY EmptySeq
<1>2. FlattenSeq(ss) = flatten[n]
  BY <1>1 DEF FlattenSeq, Join
<1> HIDE DEF n
<1>3. \E f : Solves(f, n)
  <2> DEFINE Solved == {m \in Nat : \E f : Solves(f, m)}
  <2>1. 0 \in Solved
    <3>1. Solves([i \in 1 .. 0 |-> 0], 0)
      OBVIOUS
    <3> QED
      BY <3>1
  <2>2. ASSUME NEW m \in Nat, m \in Solved PROVE m + 1 \in Solved
    <3>1. PICK f : Solves(f, m)
      BY <2>2
    <3>2. DOMAIN f = 1 .. m /\ \A i \in 1 .. m :
             f[i] = IF i = 1 THEN ss[i] ELSE Join(f[i - 1], ss[i])
      BY <3>1
    <3> DEFINE last == IF m = 0 THEN ss[1] ELSE Join(f[m], ss[m + 1])
               g == [i \in 1 .. m + 1 |-> IF i = m + 1 THEN last ELSE f[i]]
    <3>3. \A i \in 1 .. m : g[i] = f[i]
      OBVIOUS
    <3>4. g[m + 1] = last /\ g = [i \in 1 .. m + 1 |-> g[i]]
      OBVIOUS
    <3> HIDE DEF g
    <3>5. ASSUME NEW i \in 1 .. m + 1
          PROVE  g[i] = IF i = 1 THEN ss[i] ELSE Join(g[i - 1], ss[i])
      <4>1. CASE i = m + 1
        <5>1. m # 0 => g[i - 1] = f[m] /\ i # 1
          BY <3>3, <4>1
        <5> QED
          BY <3>4, <4>1, <5>1
      <4>2. CASE i # m + 1
        <5>1. i \in 1 .. m /\ (i # 1 => i - 1 \in 1 .. m)
          BY <4>2
        <5> QED
          BY <3>2, <3>3, <5>1
      <4> QED
        BY <4>1, <4>2
    <3>6. Solves(g, m + 1)
      BY <3>4, <3>5
    <3> HIDE DEF Solves
    <3>7. \E ff : Solves(ff, m + 1)
      BY <3>6
    <3> QED
      BY <3>7
  <2> HIDE DEF Solved
  <2>3. n \in Solved
    BY <1>1, <2>1, <2>2, NatSetInduction
  <2> QED
    BY <2>3 DEF Solved
<1>4. \A i \in 1 .. n : flatten[i] = IF i = 1 THEN ss[i] ELSE Join(flatten[i - 1], ss[i])
  <2>1. Solves(flatten, n)
    BY <1>3
  <2> HIDE DEF flatten
  <2> QED
    BY <2>1
<1> HIDE DEF flatten
<1>5. flatten[1] = ss[1]
  BY <1>1, <1>4
<1>6. ASSUME NEW i \in 1 .. n - 1 PROVE flatten[i + 1] = Join(flatten[i], ss[i + 1])
  <2>1. i + 1 \in 1 .. n /\ i + 1 # 1 /\ i + 1 - 1 = i
    BY <1>1
  <2> QED
    BY <1>4, <2>1
<1> DEFINE Good == {m \in Nat : m \in 1 .. n => IsSequence(flatten[m])}
<1>7. 0 \in Good
  OBVIOUS
<1>8. ASSUME NEW m \in Nat, m \in Good PROVE m + 1 \in Good
  <2> SUFFICES ASSUME m + 1 \in 1 .. n PROVE IsSequence(flatten[m + 1])
    OBVIOUS
  <2>1. IsSequence(ss[m + 1])
    BY DEF n
  <2>2. CASE m = 0
    BY <1>5, <2>1, <2>2
  <2>3. CASE m # 0
    <3>1. m \in 1 .. n - 1 /\ IsSequence(flatten[m])
      BY <1>1, <1>8, <2>3
    <3> QED
      BY <1>6, <2>1, <3>1, JoinElements
  <2> QED
    BY <2>2, <2>3
<1> HIDE DEF Good
<1>9. Nat \subseteq Good
  BY <1>7, <1>8, NatSetInduction
<1>10. \A i \in 1 .. n : IsSequence(flatten[i])
  BY <1>1, <1>9 DEF Good
<1> QED
  BY <1>2, <1>5, <1>6, <1>10 DEF n

\* FlattenSeq joins sequences to one.
LEMMA FlatSequence ==
    ASSUME NEW T, NEW ss \in Seq(T), \A i \in 1 .. Len(ss) : IsSequence(ss[i])
    PROVE  IsSequence(FlattenSeq(ss))
<1>1. CASE ss = <<>>
  <2>1. FlattenSeq(ss) = <<>>
    BY <1>1, EmptySeq DEF FlattenSeq
  <2> QED
    BY <2>1, EmptySeq DEF IsSequence
<1>2. CASE ss # <<>>
  <2>1. Len(ss) \in 1 .. Len(ss)
    BY <1>2, EmptySeq
  <2> QED
    BY <1>2, <2>1, FlatPrefixes
<1> QED
  BY <1>1, <1>2

\* What FlattenSeq joins can be taken off from the front, one by one.
LEMMA FlatSuffixes ==
    ASSUME NEW T, NEW ss \in Seq(T), \A i \in 1 .. Len(ss) : IsSequence(ss[i])
    PROVE  \E rest : /\ rest[0] = FlattenSeq(ss) /\ rest[Len(ss)] = <<>>
                     /\ \A i \in 0 .. Len(ss) : IsSequence(rest[i])
                     /\ \A i \in 0 .. Len(ss) - 1 : rest[i] = Join(ss[i + 1], rest[i + 1])
<1> DEFINE n == Len(ss)
           flat == FlattenSeq(ss)
<1>1. IsSequence(<<>>)
  BY EmptySeq DEF IsSequence
<1>2. CASE ss = <<>>
  <2> DEFINE rest == [i \in {0} |-> <<>>]
  <2>1. flat = <<>> /\ Len(ss) = 0
    BY <1>2, EmptySeq DEF FlattenSeq
  <2>2. /\ rest[0] = FlattenSeq(ss) /\ rest[Len(ss)] = <<>>
        /\ \A i \in 0 .. Len(ss) : IsSequence(rest[i])
    BY <1>1, <2>1
  <2>3. \A i \in 0 .. Len(ss) - 1 : rest[i] = Join(ss[i + 1], rest[i + 1])
    BY <2>1
  <2> HIDE DEF rest
  <2> QED
    BY <2>2, <2>3
<1>3. CASE ss # <<>>
  <2>1. PICK pre : /\ flat = pre[n] /\ pre[1] = ss[1]
                   /\ \A i \in 1 .. n : IsSequence(pre[i])
                   /\ \A i \in 1 .. n - 1 : pre[i + 1] = Join(pre[i], ss[i + 1])
    BY <1>3, FlatPrefixes
  <2>2. n \in Nat \ {0} /\ \A i \in 1 .. n : IsSequence(ss[i])
    BY <1>3, EmptySeq
  <2> HIDE DEF n, flat
  <2> DEFINE Back(f, j) == /\ f[n] = <<>> /\ Join(pre[j], f[j]) = flat
                           /\ \A i \in j .. n : IsSequence(f[i])
                           /\ \A i \in j .. n - 1 : f[i] = Join(ss[i + 1], f[i + 1])
             Good == {m \in Nat : m < n => \E f : Back(f, n - m)}
  <2>3. 0 \in Good
    <3> DEFINE f == [i \in {n} |-> <<>>]
    <3>1. f[n] = <<>> /\ IsSequence(pre[n])
      BY <2>1, <2>2
    <3> HIDE DEF f
    <3>2. Join(pre[n], f[n]) = flat
      BY <2>1, <3>1, JoinEmpty
    <3>3. Back(f, n)
      BY <1>1, <2>2, <3>1, <3>2
    <3> HIDE DEF Back
    <3>4. \E g : Back(g, n - 0)
      BY <2>2, <3>3
    <3> QED
      BY <3>4
  <2>4. ASSUME NEW m \in Nat, m \in Good PROVE m + 1 \in Good
    <3> SUFFICES ASSUME m + 1 < n PROVE \E f : Back(f, n - (m + 1))
      OBVIOUS
    <3>1. PICK f : Back(f, n - m)
      BY <2>2, <2>4
    <3> DEFINE j == n - (m + 1)
               g == [i \in j .. n |-> IF i = j THEN Join(ss[j + 1], f[j + 1]) ELSE f[i]]
    <3>2. j \in 1 .. n - 1 /\ j + 1 = n - m /\ j + 1 \in 1 .. n
      BY <2>2
    <3> HIDE DEF j
    <3>3. /\ g[j] = Join(ss[j + 1], f[j + 1]) /\ \A i \in j + 1 .. n : g[i] = f[i]
      BY <2>2, <3>2
    <3> HIDE DEF g
    <3>4. IsSequence(f[j + 1]) /\ IsSequence(ss[j + 1]) /\ IsSequence(pre[j])
      BY <2>1, <2>2, <3>1, <3>2
    <3>5. Join(pre[j], g[j]) = flat
      <4>1. Join(Join(pre[j], ss[j + 1]), f[j + 1]) = Join(pre[j], Join(ss[j + 1], f[j + 1]))
        BY <3>4, JoinAssociative
      <4>2. Join(pre[j], ss[j + 1]) = pre[j + 1] /\ Join(pre[j + 1], f[j + 1]) = flat
        BY <2>1, <3>1, <3>2
      <4> QED
        BY <3>3, <4>1, <4>2
    <3>6. g[n] = <<>>
      BY <2>2, <3>1, <3>2, <3>3
    <3>7. IsSequence(g[j])
      BY <3>3, <3>4, JoinElements
    <3>8. \A i \in j .. n : IsSequence(g[i])
      <4>1. \A i \in j .. n : i = j \/ i \in j + 1 .. n
        BY <2>2, <3>2
      <4> QED
        BY <3>1, <3>2, <3>3, <3>7, <4>1
    <3>9. \A i \in j .. n - 1 : g[i] = Join(ss[i + 1], g[i + 1])
      <4>1. \A i \in j .. n - 1 : i + 1 \in j + 1 .. n /\ (i = j \/ i \in j + 1 .. n - 1)
        BY <2>2, <3>2
      <4>2. \A i \in j + 1 .. n - 1 : f[i] = Join(ss[i + 1], f[i + 1]) /\ i \in j + 1 .. n
        BY <2>2, <3>1, <3>2
      <4> QED
        BY <3>3, <4>1, <4>2
    <3>10. Back(g, j)
      BY <3>5, <3>6, <3>8, <3>9
    <3> HIDE DEF Back
    <3> QED
      BY <3>10 DEF j
  <2> HIDE DEF Good
  <2>5. n - 1 \in Good /\ n - (n - 1) = 1
    BY <2>2, <2>3, <2>4, NatSetInduction
  <2>6. PICK f : Back(f, 1)
    <3>1. \E g : Back(g, n - (n - 1))
      <4> HIDE DEF Back
      <4>1. n - 1 \in Nat /\ n - 1 < n
        BY <2>2
      <4> QED
        BY <2>5, <4>1 DEF Good
    <3> HIDE DEF Back
    <3> QED
      BY <2>5, <3>1
  <2> DEFINE rest == [i \in 0 .. n |-> IF i = 0 THEN flat ELSE f[i]]
  <2>7. rest[0] = flat /\ \A i \in 1 .. n : rest[i] = f[i]
    BY <2>2
  <2> HIDE DEF rest
  <2>8. rest[n] = <<>>
    BY <2>2, <2>6, <2>7
  <2>9. \A i \in 0 .. n : IsSequence(rest[i])
    <3>1. IsSequence(flat)
      BY <2>1, <2>2
    <3>2. \A i \in 0 .. n : i = 0 \/ i \in 1 .. n
      BY <2>2
    <3> QED
      BY <2>6, <2>7, <3>1, <3>2
  <2>10. \A i \in 0 .. n - 1 : rest[i] = Join(ss[i + 1], rest[i + 1])
    <3> SUFFICES ASSUME NEW i \in 0 .. n - 1 PROVE rest[i] = Join(ss[i + 1], rest[i + 1])
      OBVIOUS
    <3>1. i + 1 \in 1 .. n /\ rest[i + 1] = f[i + 1]
      BY <2>2, <2>7
    <3>2. CASE i = 0
      BY <2>1, <2>6, <2>7, <3>1, <3>2
    <3>3. CASE i # 0
      <4>1. i \in 1 .. n /\ i \in 1 .. n - 1
        BY <2>2, <3>3
      <4> QED
        BY <2>6, <2>7, <3>1, <4>1
    <3> QED
      BY <3>2, <3>3
  <2> QED
    BY <2>7, <2>8, <2>9, <2>10 DEF n, flat
<1> QED
  BY <1>2, <1>3

\* A sequence is as long as its domain.
LEMMA LenOfDomain ==
    ASSUME NEW S, NEW s \in Seq(S), NEW n \in Nat, DOMAIN s = 1 .. n
    PROVE  Len(s) = n
<1> DEFINE len == Len(s)
<1>1. len \in Nat /\ 1 .. n = 1 .. len
  BY LenProperties
<1> HIDE DEF len
<1>2. (n \in 1 .. n <=> n \in 1 .. len) /\ (len \in 1 .. n <=> len \in 1 .. len)
  BY <1>1
<1>3. len = n
  BY <1>1, <1>2
<1> QED
  BY <1>3 DEF len

\* One sequence more is joined to the others.
LEMMA FlatNext ==
    ASSUME NEW T, NEW ss \in Seq(T), \A i \in 1 .. Len(ss) : IsSequence(ss[i]),
           NEW x, IsSequence(x)
    PROVE  FlattenSeq(Append(ss, x)) = Join(FlattenSeq(ss), x)
<1> DEFINE n == Len(ss)
           tt == Append(ss, x)
<1>1. ss \in Seq(T \cup {x})
  BY SeqMonotonic
<1>2. /\ tt \in Seq(T \cup {x}) /\ Len(tt) = n + 1 /\ tt[n + 1] = x
      /\ \A i \in 1 .. n : tt[i] = ss[i]
  BY <1>1, AppendProperties
<1>3. n \in Nat /\ (ss # <<>> => n # 0)
  BY EmptySeq
<1> HIDE DEF tt
<1>4. \A i \in 1 .. Len(tt) : IsSequence(tt[i])
  <2>1. \A i \in 1 .. n + 1 : i \in 1 .. n \/ i = n + 1
    BY <1>3
  <2> QED
    BY <1>2, <2>1
<1>5. tt # <<>> /\ Len(tt) - 1 = n
  BY <1>2, <1>3, EmptySeq
<1>6. PICK pre : /\ FlattenSeq(tt) = pre[Len(tt)] /\ pre[1] = tt[1]
                 /\ \A i \in 1 .. Len(tt) : IsSequence(pre[i])
                 /\ \A i \in 1 .. Len(tt) - 1 : pre[i + 1] = Join(pre[i], tt[i + 1])
  BY <1>2, <1>4, <1>5, FlatPrefixes
<1>7. CASE ss = <<>>
  <2>1. n = 0 /\ FlattenSeq(ss) = <<>>
    BY <1>7, EmptySeq DEF FlattenSeq
  <2>2. FlattenSeq(tt) = x
    BY <1>2, <1>6, <2>1
  <2> QED
    BY <2>1, <2>2, JoinEmpty DEF tt
<1>8. CASE ss # <<>>
  <2>1. PICK old : /\ FlattenSeq(ss) = old[n] /\ old[1] = ss[1]
                   /\ \A i \in 1 .. n - 1 : old[i + 1] = Join(old[i], ss[i + 1])
    BY <1>8, FlatPrefixes
  <2> DEFINE Good == {m \in Nat : m \in 1 .. n => pre[m] = old[m]}
  <2>2. 0 \in Good
    OBVIOUS
  <2>3. ASSUME NEW m \in Nat, m \in Good PROVE m + 1 \in Good
    <3> SUFFICES ASSUME m + 1 \in 1 .. n PROVE pre[m + 1] = old[m + 1]
      OBVIOUS
    <3>1. CASE m = 0
      <4>1. 1 \in 1 .. n
        BY <1>3, <1>8
      <4>2. pre[1] = old[1]
        BY <1>2, <1>6, <2>1, <4>1
      <4> QED
        BY <3>1, <4>2
    <3>2. CASE m # 0
      <4>1. m \in 1 .. n /\ m \in 1 .. n - 1 /\ m \in 1 .. Len(tt) - 1 /\ m + 1 \in 1 .. n
        BY <1>3, <1>5, <3>2
      <4>2. pre[m] = old[m] /\ tt[m + 1] = ss[m + 1]
        BY <1>2, <2>3, <4>1
      <4>3. pre[m + 1] = Join(pre[m], tt[m + 1]) /\ old[m + 1] = Join(old[m], ss[m + 1])
        BY <1>6, <2>1, <4>1
      <4> QED
        BY <4>2, <4>3
    <3> QED
      BY <3>1, <3>2
  <2> HIDE DEF Good
  <2>4. n \in Good /\ n \in 1 .. n
    <3>1. Nat \subseteq Good
      BY <2>2, <2>3, NatSetInduction
    <3> QED
      BY <1>3, <1>8, <3>1
  <2>5. pre[n] = old[n]
    BY <2>4 DEF Good
  <2>6. n \in 1 .. Len(tt) - 1
    BY <1>5, <2>4
  <2>7. pre[n + 1] = Join(pre[n], tt[n + 1])
    BY <1>6, <2>6
  <2> QED
    BY <1>2, <1>6, <2>1, <2>5, <2>7 DEF tt
<1> QED
  BY <1>7, <1>8

\* The first n values of a function.
FirstValues(f, n) == [i \in 1 .. n |-> f[i]]

\* A sequence that is written as a function ends with its last value.
LEMMA LastValue ==
    ASSUME NEW n \in Nat, NEW f, f = FirstValues(f, n + 1)
    PROVE  /\ f = Append(FirstValues(f, n), f[n + 1])
           /\ \E T : FirstValues(f, n) \in Seq(T)
           /\ Len(FirstValues(f, n)) = n
           /\ \A i \in 1 .. n : FirstValues(f, n)[i] = f[i]
<1> PICK g : g = FirstValues(f, n)
  OBVIOUS
<1> DEFINE T == {f[i] : i \in 1 .. n + 1}
           h == Append(g, f[n + 1])
<1>1. g \in [1 .. n -> T] /\ f \in [1 .. n + 1 -> T] /\ f[n + 1] \in T
  BY DEF FirstValues
<1>2. g \in Seq(T) /\ f \in Seq(T) /\ DOMAIN g = 1 .. n /\ DOMAIN f = 1 .. n + 1
  <2>1. DOMAIN g = 1 .. n /\ DOMAIN f = 1 .. n + 1
    BY DEF FirstValues
  <2> HIDE DEF T
  <2>2. g \in Seq(T)
    BY <1>1, SeqDef
  <2>3. n + 1 \in Nat
    OBVIOUS
  <2>4. f \in Seq(T)
    BY <1>1, <2>3, SeqDef
  <2> QED
    BY <2>1, <2>2, <2>4
<1>3. \A i \in 1 .. n : g[i] = f[i]
  BY DEF FirstValues
<1> HIDE DEF T
<1>4. Len(g) = n /\ Len(f) = n + 1
  BY <1>2, LenOfDomain
<1>5. /\ h \in Seq(T) /\ Len(h) = n + 1 /\ h[n + 1] = f[n + 1]
      /\ \A i \in 1 .. n : h[i] = g[i]
  BY <1>1, <1>2, <1>4, AppendProperties
<1> HIDE DEF h
<1>6. ASSUME NEW i \in 1 .. n + 1 PROVE h[i] = f[i]
  <2>1. i = n + 1 \/ i \in 1 .. n
    OBVIOUS
  <2> QED
    BY <1>3, <1>5, <2>1
<1>7. h = f
  BY <1>2, <1>4, <1>5, <1>6, SeqEqual
<1> QED
  BY <1>2, <1>3, <1>4, <1>7 DEF h

------------------------------------------------------------------------------
\* The empty sequence is one.
LEMMA EmptyIsSequence == IsSequence(<<>>) /\ Len(<<>>) = 0
BY EmptySeq DEF IsSequence

\* The elements of two joined sequences, one at a time.
LEMMA JoinFront ==
    ASSUME NEW s, IsSequence(s), NEW t, IsSequence(t), NEW i \in 1 .. Len(s)
    PROVE  Join(s, t)[i] = s[i]
BY JoinElements

\* Those of the second one.
LEMMA JoinBehind ==
    ASSUME NEW s, IsSequence(s), NEW t, IsSequence(t), NEW i \in 1 .. Len(t)
    PROVE  Join(s, t)[Len(s) + i] = t[i]
BY JoinElements

\* Two ways of cutting a sequence at one place are the same.
LEMMA CutEqual ==
    ASSUME NEW x, IsSequence(x), NEW y, IsSequence(y),
           NEW b, IsSequence(b), NEW z, IsSequence(z),
           Len(b) = Len(x), Join(x, y) = Join(b, z)
    PROVE  x = b /\ y = z
<1>1. ASSUME NEW i \in 1 .. Len(x) PROVE x[i] = b[i]
  BY <1>1, JoinFront
<1>2. x = b
  BY <1>1, SameSequence
<1>3. Join(x, y) = Join(x, z)
  BY <1>2
<1> QED
  BY <1>2, <1>3, CancelFirst

\* A sequence of one element, by a name.
Single(x) == <<x>>

\* It has that element.
LEMMA SingleElement == ASSUME NEW x
                       PROVE  IsSequence(Single(x)) /\ Len(Single(x)) = 1 /\ Single(x)[1] = x
<1>1. <<x>> = Append(<<>>, x)
  OBVIOUS
<1>2. IsSequence(<<x>>) /\ Len(<<x>>) = 1
  BY <1>1, EmptyIsSequence, LongerSequence
<1> QED
  BY <1>2 DEF Single

\* One digit or two: what the stream operator writes.
LEMMA DecimalDigits ==
    ASSUME NEW m \in 1 .. 99
    PROVE  LET D == Decimal(m) IN
           /\ IsSequence(D) /\ \A i \in 1 .. Len(D) : IsDigit(D[i])
           /\ \/ Len(D) = 1 /\ m = D[1] - Digit(0)
              \/ Len(D) = 2 /\ m = 10 * (D[1] - Digit(0)) + (D[2] - Digit(0))
<1>1. ASSUME NEW a \in 0 .. 9 PROVE IsDigit(Digit(a)) /\ Digit(a) - Digit(0) = a
  BY DEF IsDigit, Digit
<1>2. CASE m < 10
  <2>1. Decimal(m) = Single(Digit(m))
    BY <1>2 DEF Decimal, Single
  <2>2. /\ IsSequence(Decimal(m)) /\ Len(Decimal(m)) = 1 /\ Decimal(m)[1] = Digit(m)
    BY <2>1, SingleElement
  <2>3. IsDigit(Digit(m)) /\ Digit(m) - Digit(0) = m
    BY <1>1, <1>2
  <2>4. \A i \in 1 .. 1 : i = 1
    OBVIOUS
  <2> QED
    BY <2>2, <2>3, <2>4
<1>3. CASE ~(m < 10)
  <2> DEFINE a == m \div 10
             b == m % 10
  <2>1. a \in 0 .. 9 /\ b \in 0 .. 9 /\ m = 10 * a + b
    BY <1>3
  <2>2. Decimal(m) = Append(Single(Digit(a)), Digit(b))
    BY <1>3 DEF Decimal, Single
  <2>3. Decimal(m)[1] = Digit(a) /\ Decimal(m)[2] = Digit(b)
    BY <1>3 DEF Decimal
  <2> HIDE DEF a, b
  <2>4. IsSequence(Decimal(m)) /\ Len(Decimal(m)) = 2
    BY <2>2, SingleElement, LongerSequence
  <2>5. /\ IsDigit(Digit(a)) /\ IsDigit(Digit(b))
        /\ Digit(a) - Digit(0) = a /\ Digit(b) - Digit(0) = b
    BY <1>1, <2>1
  <2> DEFINE D == Decimal(m)
  <2> HIDE DEF D
  <2>6. D[1] = Digit(a) /\ D[2] = Digit(b) /\ IsSequence(D) /\ Len(D) = 2
    BY <2>3, <2>4 DEF D
  <2>7. \A i \in 1 .. Len(D) : i = 1 \/ i = 2
    BY <2>6
  <2>8. \A i \in 1 .. Len(D) : IsDigit(D[i])
    BY <2>5, <2>6, <2>7
  <2>9. m = 10 * (D[1] - Digit(0)) + (D[2] - Digit(0))
    BY <2>1, <2>5, <2>6
  <2> QED
    BY <2>6, <2>8, <2>9 DEF D
<1> QED
  BY <1>2, <1>3

\* atoi reads the number that was written, up to the colon.
LEMMA AtoiOfDecimal ==
    ASSUME NEW m \in 1 .. 99, NEW s, IsSequence(s), Len(s) = Len(Decimal(m)) + 1,
           \A i \in 1 .. Len(Decimal(m)) : s[i] = Decimal(m)[i],
           s[Len(Decimal(m)) + 1] = Colon
    PROVE  Atoi(s) = m
<1> DEFINE d == Len(Decimal(m))
           stop == SelectInSeq(s, LAMBDA b : ~IsDigit(b))
           digits == IF stop = 0 THEN Len(s) ELSE stop - 1
           I == {i \in 1 .. Len(s) : ~IsDigit(s[i])}
<1>1. /\ Len(s) = d + 1 /\ s[d + 1] = Colon /\ \A i \in 1 .. d : IsDigit(s[i])
      /\ \/ d = 1 /\ m = s[1] - Digit(0)
         \/ d = 2 /\ m = 10 * (s[1] - Digit(0)) + (s[2] - Digit(0))
  <2> DEFINE D == Decimal(m)
  <2>1. /\ \A i \in 1 .. Len(D) : IsDigit(D[i])
        /\ \/ Len(D) = 1 /\ m = D[1] - Digit(0)
           \/ Len(D) = 2 /\ m = 10 * (D[1] - Digit(0)) + (D[2] - Digit(0))
    BY DecimalDigits
  <2>2. /\ Len(s) = Len(D) + 1 /\ s[Len(D) + 1] = Colon
        /\ \A i \in 1 .. Len(D) : s[i] = D[i]
    OBVIOUS
  <2> HIDE DEF D
  <2>3. \A i \in 1 .. Len(D) : IsDigit(s[i])
    BY <2>1, <2>2
  <2>4. CASE Len(D) = 1
    <3>1. s[1] = D[1]
      BY <2>2, <2>4
    <3> QED
      BY <2>1, <2>2, <2>3, <2>4, <3>1 DEF D
  <2>5. CASE Len(D) = 2
    <3>1. s[1] = D[1] /\ s[2] = D[2]
      BY <2>2, <2>5
    <3> QED
      BY <2>1, <2>2, <2>3, <2>5, <3>1 DEF D
  <2> QED
    BY <2>1, <2>4, <2>5
<1>2. d \in {1, 2} /\ \A i \in 1 .. d : s[i] - Digit(0) \in 0 .. 9
  BY <1>1 DEF IsDigit, Digit
<1>3. ~IsDigit(Colon)
  BY DEF IsDigit, Colon, Digit
<1>4. I = {d + 1}
  <2>1. d + 1 \in I
    BY <1>1, <1>2, <1>3
  <2>2. \A i \in I : i \in 1 .. d + 1 /\ i \notin 1 .. d
    BY <1>1, <1>2
  <2>3. \A i \in I : i = d + 1
    BY <1>2, <2>2
  <2> QED
    BY <2>1, <2>3
<1>5. stop = IF I # {} THEN Min(I) ELSE 0
  BY DEF SelectInSeq
<1> HIDE DEF stop, I
<1>6. Min(I) = d + 1
  <2>1. I \in SUBSET Nat /\ I # {}
    BY <1>1, <1>4
  <2>2. Min(I) \in I
    BY <2>1, MinIsLeast
  <2> QED
    BY <1>4, <2>2
<1>7. digits = d
  BY <1>1, <1>2, <1>4, <1>5, <1>6
<1>8. \E v : /\ Atoi(s) = v[d] /\ v[0] = 0
             /\ \A i \in 1 .. d : v[i] = 10 * v[i - 1] + (s[i] - Digit(0))
  <2>1. d \in Nat
    BY <1>2
  <2> QED
    BY <1>7, <2>1, AtoiSums DEF stop
<1> HIDE DEF d, digits
<1>9. PICK v : /\ Atoi(s) = v[d] /\ v[0] = 0
              /\ \A i \in 1 .. d : v[i] = 10 * v[i - 1] + (s[i] - Digit(0))
  BY <1>8
<1> DEFINE a == s[1] - Digit(0)
           b == s[2] - Digit(0)
<1>10. v[1] = a /\ a \in 0 .. 9
  <2>1. 1 \in 1 .. d /\ 1 - 1 = 0
    BY <1>2
  <2>2. v[1] = 10 * v[1 - 1] + (s[1] - Digit(0)) /\ s[1] - Digit(0) \in 0 .. 9
    BY <1>2, <1>9, <2>1
  <2> HIDE DEF a
  <2>3. v[1] = 10 * 0 + a /\ a \in 0 .. 9
    BY <1>9, <2>1, <2>2 DEF a
  <2> QED
    BY <2>3
<1>11. CASE d = 1
  BY <1>1, <1>9, <1>10, <1>11
<1>12. CASE d = 2
  <2>1. 2 \in 1 .. d /\ 2 - 1 = 1
    BY <1>12
  <2>2. v[2] = 10 * v[2 - 1] + (s[2] - Digit(0))
    BY <1>9, <2>1
  <2>3. v[2] = 10 * a + b
    BY <1>10, <2>1, <2>2
  <2> QED
    BY <1>1, <1>9, <1>12, <2>3
<1> QED
  BY <1>2, <1>11, <1>12

\* ReadHeader finds the first colon.
LEMMA FirstColon ==
    ASSUME NEW s, IsSequence(s), ColonAt(s) # 0
    PROVE  /\ ColonAt(s) \in 1 .. Len(s) /\ s[ColonAt(s)] = Colon
           /\ \A i \in 1 .. ColonAt(s) - 1 : s[i] # Colon
<1> DEFINE I == {i \in 1 .. Len(s) : s[i] = Colon}
<1>1. Len(s) \in Nat /\ I \in SUBSET Nat
  BY JoinElements
<1>2. ColonAt(s) = IF I # {} THEN Min(I) ELSE 0
  BY DEF ColonAt, SelectInSeq
<1>3. I # {} => Min(I) \in I /\ \A i \in I : Min(I) <= i
  BY <1>1, MinIsLeast
<1> DEFINE c == ColonAt(s)
<1>4. c \in I /\ \A i \in I : c <= i
  BY <1>2, <1>3
<1> HIDE DEF c
<1>5. c \in 1 .. Len(s) /\ s[c] = Colon
  BY <1>4
<1>6. ASSUME NEW i \in 1 .. c - 1 PROVE s[i] # Colon
  <2>1. i \in 1 .. Len(s) /\ ~(c <= i)
    BY <1>1, <1>5
  <2> QED
    BY <1>4, <2>1
<1> QED
  BY <1>5, <1>6 DEF c

\* A string with a colon in it.
LEMMA ColonIsFound ==
    ASSUME NEW s, IsSequence(s), NEW i \in 1 .. Len(s), s[i] = Colon
    PROVE  ColonAt(s) # 0
<1> DEFINE I == {j \in 1 .. Len(s) : s[j] = Colon}
<1>1. Len(s) \in Nat /\ I \in SUBSET Nat /\ i \in I
  BY JoinElements
<1>2. ColonAt(s) = IF I # {} THEN Min(I) ELSE 0
  BY DEF ColonAt, SelectInSeq
<1>3. Min(I) \in I
  BY <1>1, MinIsLeast
<1> QED
  BY <1>1, <1>2, <1>3

\* One that is empty has none.
LEMMA NoColonInNothing == ASSUME NEW s, IsSequence(s), Len(s) = 0 PROVE ColonAt(s) = 0
<1>1. ColonAt(s) # 0 => ColonAt(s) \in 1 .. Len(s)
  BY FirstColon
<1> QED
  BY <1>1

------------------------------------------------------------------------------
\* What f makes of the members of a list, one after the other.
Joined(f, list) == FlattenSeq([i \in 1 .. Len(list) |-> f[list[i]]])

\* Of an empty list nothing, and for one member more what f makes of it at the end.
LEMMA JoinedNext ==
    ASSUME NEW S, NEW f, \A p \in S : IsSequence(f[p]), NEW list \in Seq(S)
    PROVE  /\ IsSequence(Joined(f, list)) /\ Joined(f, <<>>) = <<>>
           /\ \A p \in S : Joined(f, Append(list, p)) = Join(Joined(f, list), f[p])
<1> DEFINE n == Len(list)
           ss == [i \in 1 .. n |-> f[list[i]]]
           T == {f[p] : p \in S}
<1>1. n \in Nat /\ \A i \in 1 .. n : list[i] \in S
  BY LenProperties, ElementOfSeq
<1>2. \A i \in 1 .. n : f[list[i]] \in T
  BY <1>1
<1> HIDE DEF n, T
<1>3. ss \in Seq(T) /\ Len(ss) = n /\ \A i \in 1 .. n : ss[i] = f[list[i]]
  BY <1>1, <1>2, IsASeq
<1>4. \A i \in 1 .. Len(ss) : IsSequence(ss[i])
  BY <1>1, <1>3
<1>5. Joined(f, list) = FlattenSeq(ss)
  BY DEF Joined, n
<1>6. IsSequence(Joined(f, list))
  <2> HIDE DEF ss
  <2> QED
    BY <1>3, <1>4, <1>5, FlatSequence
<1>7. Joined(f, <<>>) = <<>>
  <2>1. [i \in 1 .. Len(<<>>) |-> f[<<>>[i]]] = <<>>
    OBVIOUS
  <2>2. FlattenSeq(<<>>) = <<>>
    BY DEF FlattenSeq
  <2> QED
    BY <2>1, <2>2 DEF Joined
<1>8. ASSUME NEW p \in S PROVE Joined(f, Append(list, p)) = Join(Joined(f, list), f[p])
  <2> DEFINE more == Append(list, p)
             tt == [i \in 1 .. Len(more) |-> f[more[i]]]
  <2>1. /\ Len(more) = n + 1 /\ more[n + 1] = p /\ \A i \in 1 .. n : more[i] = list[i]
    BY AppendProperties DEF n
  <2>2. Joined(f, more) = FlattenSeq(tt)
    BY DEF Joined
  <2> HIDE DEF more
  <2>3. /\ tt = [i \in 1 .. n + 1 |-> f[more[i]]]
        /\ \A i \in 1 .. n : tt[i] = ss[i]
        /\ tt[n + 1] = f[p]
    BY <1>1, <2>1
  <2> HIDE DEF tt, ss
  <2>4. tt = Append(ss, f[p])
    <3>1. ss \in Seq(T \cup {f[p]}) /\ f[p] \in T \cup {f[p]}
      BY <1>3, SeqMonotonic
    <3>2. /\ Append(ss, f[p]) \in Seq(T \cup {f[p]}) /\ Len(Append(ss, f[p])) = n + 1
          /\ Append(ss, f[p])[n + 1] = f[p]
          /\ \A i \in 1 .. n : Append(ss, f[p])[i] = ss[i]
      BY <1>3, <3>1, AppendProperties
    <3>3. \A i \in 1 .. n + 1 : f[more[i]] \in T \cup {f[p]}
      BY <1>1, <1>2, <2>1
    <3>4. tt \in Seq(T \cup {f[p]}) /\ Len(tt) = n + 1
      BY <1>1, <2>3, <3>3, IsASeq
    <3>5. ASSUME NEW i \in 1 .. n + 1 PROVE tt[i] = Append(ss, f[p])[i]
      <4>1. i \in 1 .. n \/ i = n + 1
        BY <1>1
      <4> QED
        BY <2>3, <3>2, <4>1, Zenon
    <3> QED
      BY <3>2, <3>4, <3>5, SeqEqual
  <2>5. FlattenSeq(Append(ss, f[p])) = Join(FlattenSeq(ss), f[p])
    BY <1>3, <1>4, FlatNext
  <2> QED
    BY <1>5, <2>2, <2>4, <2>5 DEF more
<1> QED
  BY <1>6, <1>7, <1>8

\* What it makes of the first member comes first.
LEMMA JoinedFirst ==
    ASSUME NEW S, NEW f, \A p \in S : IsSequence(f[p]), NEW list \in Seq(S), list # <<>>
    PROVE  Joined(f, list) = Join(f[Head(list)], Joined(f, Tail(list)))
<1> DEFINE Starts(s) == Joined(f, s) = Join(f[Head(s)], Joined(f, Tail(s)))
           Good == {n \in Nat : \A s \in Seq(S) : Len(s) = n + 1 => Starts(s)}
<1>1. 0 \in Good
  <2> SUFFICES ASSUME NEW s \in Seq(S), Len(s) = 1 PROVE Starts(s)
    OBVIOUS
  <2>1. s # <<>>
    <3>1. s = <<>> <=> Len(s) = 0
      BY EmptySeq
    <3> QED
      BY <3>1
  <2>2. PICK t \in Seq(S), p \in S : s = Append(t, p)
    BY <2>1, SequenceEmptyOrAppend
  <2>3. t = <<>>
    <3>1. Len(s) = Len(t) + 1 /\ Len(t) \in Nat
      BY <2>2, AppendProperties, LenProperties
    <3>2. \A l \in Nat : 1 = l + 1 => l = 0
      OBVIOUS
    <3>3. Len(t) = 0
      BY <3>1, <3>2, Zenon
    <3> QED
      BY <3>3, EmptySeq
  <2>4. Head(s) = p /\ Tail(s) = <<>>
    BY <2>2, <2>3, HeadTailAppend
  <2>5. Joined(f, s) = Join(Joined(f, <<>>), f[p]) /\ Joined(f, <<>>) = <<>>
    BY <2>2, <2>3, JoinedNext
  <2>6. Joined(f, s) = Join(f[p], <<>>)
    BY <2>5, JoinEmpty
  <2> QED
    BY <2>4, <2>5, <2>6
<1>2. ASSUME NEW n \in Nat, n \in Good PROVE n + 1 \in Good
  <2> SUFFICES ASSUME NEW s \in Seq(S), Len(s) = n + 2 PROVE Starts(s)
    OBVIOUS
  <2>1. s # <<>>
    <3>1. s = <<>> <=> Len(s) = 0
      BY EmptySeq
    <3> QED
      BY <3>1
  <2>2. PICK t \in Seq(S), p \in S : s = Append(t, p)
    BY <2>1, SequenceEmptyOrAppend
  <2>3. Len(t) = n + 1 /\ t # <<>>
    <3>1. Len(s) = Len(t) + 1 /\ Len(t) \in Nat
      BY <2>2, AppendProperties, LenProperties
    <3> QED
      BY <3>1, EmptySeq
  <2>4. Head(s) = Head(t) /\ Tail(s) = Append(Tail(t), p) /\ Head(t) \in S /\ Tail(t) \in Seq(S)
    BY <2>2, <2>3, HeadTailAppend, HeadTailProperties
  <2> DEFINE a == f[Head(t)]
             b == Joined(f, Tail(t))
  <2>5. Starts(t)
    BY <1>2, <2>3
  <2>6. Joined(f, t) = Join(a, b)
    BY <2>5
  <2>7. Joined(f, s) = Join(Joined(f, t), f[p])
    BY <2>2, JoinedNext
  <2>8. Joined(f, Tail(s)) = Join(b, f[p]) /\ IsSequence(b) /\ IsSequence(a) /\ IsSequence(f[p])
    BY <2>4, JoinedNext
  <2> HIDE DEF a, b
  <2>9. Join(Join(a, b), f[p]) = Join(a, Join(b, f[p]))
    BY <2>8, JoinAssociative
  <2> QED
    BY <2>4, <2>6, <2>7, <2>8, <2>9 DEF a
<1>3. \A n \in Nat : n \in Good => n + 1 \in Good
  BY <1>2
<1> HIDE DEF Good
<1>4. Nat \subseteq Good
  BY <1>1, <1>3, NatSetInduction
<1>5. PICK n \in Nat : Len(list) = n + 1
  <2>1. Len(list) \in Nat /\ Len(list) # 0
    BY LenProperties, EmptySeq
  <2>2. Len(list) - 1 \in Nat /\ Len(list) = (Len(list) - 1) + 1
    BY <2>1
  <2> QED
    BY <2>2
<1>6. Starts(list)
  BY <1>4, <1>5 DEF Good
<1> QED
  BY <1>6

------------------------------------------------------------------------------
\* What is left in front of a netstring of the one before it: its comma, or nothing.
IsLead(lead) ==
    IsSequence(lead) /\ Len(lead) \in {0, 1} /\ \A i \in 1 .. Len(lead) : lead[i] = Comma

\* That, the length of the string and the colon.
Preface(lead, m) == Join(Join(lead, Decimal(m)), Single(Colon))

\* Its characters.
LEMMA PrefaceElements ==
    ASSUME NEW lead, IsLead(lead), NEW m \in 1 .. 99
    PROVE  /\ IsSequence(Preface(lead, m))
           /\ Len(Preface(lead, m)) = Len(lead) + Len(Decimal(m)) + 1
           /\ Preface(lead, m)[Len(Preface(lead, m))] = Colon
           /\ \A i \in 1 .. Len(Preface(lead, m)) - 1 : Preface(lead, m)[i] # Colon
           /\ \A i \in 1 .. Len(Decimal(m)) : Preface(lead, m)[Len(lead) + i] = Decimal(m)[i]
<1> DEFINE D == Decimal(m)
           a == Join(lead, D)
           f == Preface(lead, m)
<1>1. /\ IsSequence(lead) /\ Len(lead) \in {0, 1} 
      /\ \A i \in 1 .. Len(lead) : lead[i] = Comma
  BY DEF IsLead
<1>2. IsSequence(D) /\ Len(D) \in {1, 2} /\ \A i \in 1 .. Len(D) : IsDigit(D[i])
  BY DecimalDigits
<1>3. /\ IsSequence(Single(Colon)) /\ Len(Single(Colon)) = 1 /\ Single(Colon)[1] = Colon
      /\ 1 \in 1 .. Len(Single(Colon))
  BY SingleElement
<1>4. f = Join(a, Single(Colon))
  BY DEF Preface
<1> HIDE DEF D, f
<1>5. IsSequence(a) /\ Len(a) = Len(lead) + Len(D)
  BY <1>1, <1>2, JoinElements
<1>6. \A i \in 1 .. Len(lead) : a[i] = lead[i]
  BY <1>1, <1>2, JoinFront
<1>7. \A i \in 1 .. Len(D) : a[Len(lead) + i] = D[i]
  BY <1>1, <1>2, JoinBehind
<1> HIDE DEF a
<1> DEFINE c == Single(Colon)
<1> HIDE DEF c
<1>8. IsSequence(f) /\ Len(f) = Len(a) + 1
  <2>1. IsSequence(a) /\ IsSequence(c) /\ Len(c) = 1 /\ f = Join(a, c)
    BY <1>3, <1>4, <1>5 DEF c
  <2>2. IsSequence(f) /\ Len(f) = Len(a) + Len(c)
    BY <2>1, JoinElements
  <2> QED
    BY <2>1, <2>2
<1>9. f[Len(a) + 1] = Colon
  <2>1. /\ IsSequence(a) /\ IsSequence(c) /\ 1 \in 1 .. Len(c) /\ f = Join(a, c)
        /\ c[1] = Colon
    BY <1>3, <1>4, <1>5 DEF c
  <2>2. Join(a, c)[Len(a) + 1] = c[1]
    BY <2>1, JoinBehind
  <2> QED
    BY <2>1, <2>2
<1>10. \A i \in 1 .. Len(a) : f[i] = a[i]
  BY <1>3, <1>4, <1>5, JoinFront
<1>11. ASSUME NEW i \in 1 .. Len(a) PROVE a[i] # Colon
  <2>1. CASE i <= Len(lead)
    <3>1. a[i] = Comma
      BY <1>1, <1>6, <2>1
    <3> QED
      BY <3>1 DEF Comma, Colon
  <2>2. CASE ~(i <= Len(lead))
    <3> DEFINE j == i - Len(lead)
    <3>1. j \in 1 .. Len(D) /\ Len(lead) + j = i
      BY <1>1, <1>2, <1>5, <2>2
    <3> HIDE DEF j
    <3>2. IsDigit(a[i])
      BY <1>2, <1>7, <3>1
    <3>3. ~IsDigit(Colon)
      BY DEF IsDigit, Colon, Digit
    <3> QED
      BY <3>2, <3>3
  <2> QED
    BY <2>1, <2>2
<1>12. \A i \in 1 .. Len(D) : f[Len(lead) + i] = D[i]
  <2>1. \A i \in 1 .. Len(D) : Len(lead) + i \in 1 .. Len(a)
    BY <1>1, <1>2, <1>5
  <2> QED
    BY <1>7, <1>10, <2>1
<1>13. Len(a) \in Nat /\ Len(f) = Len(lead) + Len(D) + 1 /\ Len(f) - 1 = Len(a)
  BY <1>1, <1>2, <1>5, <1>8
<1>14. f[Len(f)] = Colon
  BY <1>8, <1>9
<1>15. \A i \in 1 .. Len(f) - 1 : f[i] # Colon
  BY <1>10, <1>11, <1>13
<1> QED
  BY <1>8, <1>12, <1>13, <1>14, <1>15 DEF D, f

\* A netstring is its preface, its bytes and what comes after them.
LEMMA NetstringParts ==
    ASSUME NEW lead, IsSequence(lead), NEW m \in 1 .. 99, NEW B, IsSequence(B),
           NEW R, IsSequence(R)
    PROVE  Join(lead, Join(Join(Join(Join(Decimal(m), Single(Colon)), B), Single(Comma)), R))
              = Join(Preface(lead, m), Join(B, Join(Single(Comma), R)))
<1> DEFINE D == Decimal(m)
           C == Single(Colon)
           M == Single(Comma)
<1>1. IsSequence(D) /\ IsSequence(C) /\ IsSequence(M)
  BY DecimalDigits, SingleElement
<1>2. Preface(lead, m) = Join(Join(lead, D), C)
  BY DEF Preface
<1> HIDE DEF D, C, M
<1>3. /\ IsSequence(Join(D, C)) /\ IsSequence(Join(M, R)) /\ IsSequence(Join(lead, D))
  BY <1>1, JoinElements
<1>4. IsSequence(Join(Join(D, C), B)) /\ IsSequence(Join(B, Join(M, R)))
  BY <1>1, <1>3, JoinElements
<1>5. Join(Join(Join(Join(D, C), B), M), R) = Join(Join(Join(D, C), B), Join(M, R))
  BY <1>1, <1>4, JoinAssociative
<1>6. Join(Join(Join(D, C), B), Join(M, R)) = Join(Join(D, C), Join(B, Join(M, R)))
  BY <1>3, JoinAssociative
<1>7. Join(lead, Join(Join(D, C), Join(B, Join(M, R)))) = Join(Join(lead, Join(D, C)), Join(B, Join(M, R)))
  BY <1>3, <1>4, JoinAssociative
<1>8. Join(lead, Join(D, C)) = Join(Join(lead, D), C)
  BY <1>1, JoinAssociative
<1> QED
  BY <1>2, <1>5, <1>6, <1>7, <1>8 DEF D, C, M

\* The data and what is behind them, tail, are a netstring's preface and z.
StartsNetstring(data, tail, lead, m, z) ==
    /\ IsLead(lead) /\ m \in 1 .. 99 /\ IsSequence(data) /\ IsSequence(tail) /\ IsSequence(z)
    /\ Join(data, tail) = Join(Preface(lead, m), z)

\* What is read of that: the comma, the length, and z from there on.
ReadsPreface(data, tail, lead, m, z) ==
    /\ ColonAt(data) \in 1 .. Len(data)
    /\ \A i \in 1 .. Len(lead) : data[i] = Comma
    /\ Atoi(SubSeq(data, Len(lead) + 1, ColonAt(data))) = m
    /\ Join(After(data, ColonAt(data)), tail) = z

\* With a colon in the data that start a netstring, it is that of its preface: the digits
\* in front of it are the length of the string, which is behind it.
LEMMA PrefaceParsed ==
    ASSUME NEW data, NEW tail, NEW lead, NEW m, NEW z, StartsNetstring(data, tail, lead, m, z),
           ColonAt(data) # 0
    PROVE  ReadsPreface(data, tail, lead, m, z)
<1>1. /\ IsLead(lead) /\ m \in 1 .. 99 /\ IsSequence(data) /\ IsSequence(tail) /\ IsSequence(z)
       /\ Join(data, tail) = Join(Preface(lead, m), z)
  BY DEF StartsNetstring
<1> DEFINE colon == ColonAt(data)
           whole == Join(data, tail)
<1>2. /\ colon \in 1 .. Len(data) /\ data[colon] = Colon
      /\ \A i \in 1 .. colon - 1 : data[i] # Colon
  BY <1>1, FirstColon
<1> HIDE DEF colon
<1>3. Len(data) \in Nat /\ Len(tail) \in Nat /\ Len(whole) = Len(data) + Len(tail)
  BY <1>1, JoinElements
<1>4. \A i \in 1 .. Len(data) : whole[i] = data[i]
  BY <1>1, JoinFront
<1> DEFINE f == Preface(lead, m)
           D == Decimal(m)
           start == Len(lead) + 1
<1>5. /\ Len(lead) \in {0, 1} /\ Len(lead) + 1 = start /\ start \in {1, 2}
      /\ IsSequence(f) /\ Len(f) = Len(lead) + Len(D) + 1 /\ f[Len(f)] = Colon
      /\ \A i \in 1 .. Len(f) - 1 : f[i] # Colon
      /\ \A i \in 1 .. Len(D) : f[Len(lead) + i] = D[i]
  <2>1. Len(lead) \in {0, 1}
    BY <1>1 DEF IsLead
  <2>2. /\ IsSequence(f) /\ Len(f) = Len(lead) + Len(D) + 1 /\ f[Len(f)] = Colon
        /\ \A i \in 1 .. Len(f) - 1 : f[i] # Colon
        /\ \A i \in 1 .. Len(D) : f[Len(lead) + i] = D[i]
    BY <1>1, PrefaceElements
  <2> HIDE DEF f, D
  <2>3. Len(lead) + 1 = start /\ start \in {1, 2}
    <3>1. ASSUME NEW n \in {0, 1} PROVE n + 1 \in {1, 2}
      OBVIOUS
    <3> QED
      BY <2>1, <3>1, Zenon
  <2> HIDE DEF start
  <2> QED
    BY <2>1, <2>2, <2>3
<1>6. whole = Join(f, z)
  BY <1>1
<1>7. IsSequence(z) /\ IsSequence(data) /\ IsSequence(tail) /\ m \in 1 .. 99
  BY <1>1
<1>8. Len(D) \in {1, 2}
  BY <1>7, DecimalDigits
<1> HIDE DEF f, D, start, whole
<1>9. \A i \in 1 .. Len(f) : whole[i] = f[i]
  BY <1>5, <1>6, <1>7, JoinFront
<1>10. Len(f) \in Nat \ {0} /\ Len(lead) \in {0, 1}
  BY <1>5, <1>8
<1>11. colon = Len(f)
  <2>1. ~(colon < Len(f))
    <3> SUFFICES ASSUME colon < Len(f) PROVE FALSE
      OBVIOUS
    <3>1. colon \in 1 .. Len(f) - 1 /\ colon \in 1 .. Len(f)
      BY <1>2, <1>3, <1>10
    <3>2. f[colon] = data[colon]
      BY <1>2, <1>4, <1>9, <3>1
    <3> QED
      BY <1>2, <1>5, <3>1, <3>2
  <2>2. ~(Len(f) < colon)
    <3> SUFFICES ASSUME Len(f) < colon PROVE FALSE
      OBVIOUS
    <3>1. Len(f) \in 1 .. colon - 1 /\ Len(f) \in 1 .. Len(data) /\ Len(f) \in 1 .. Len(f)
      BY <1>2, <1>3, <1>10
    <3>2. f[Len(f)] = data[Len(f)]
      BY <1>4, <1>9, <3>1
    <3> QED
      BY <1>2, <1>5, <3>1, <3>2
  <2> QED
    BY <1>2, <1>3, <1>10, <2>1, <2>2
<1>12. Join(After(data, colon), tail) = z
  <2>1. Len(f) <= Len(data) /\ Join(data, tail) = Join(f, z)
    BY <1>2, <1>3, <1>6, <1>10, <1>11 DEF whole
  <2>2. Join(After(data, Len(f)), tail) = z
    BY <1>5, <1>7, <2>1, CutAgain
  <2> QED
    BY <1>11, <2>2
<1>13. Atoi(SubSeq(data, start, colon)) = m
  <2> DEFINE s == SubSeq(data, start, colon)
  <2>1. start \in Nat \ {0} /\ colon \in Nat /\ colon <= Len(data)
    BY <1>2, <1>3, <1>5
  <2>2. /\ IsSequence(s) /\ Len(s) = IF start <= colon THEN colon - start + 1 ELSE 0
    BY <1>7, <2>1, SubSequence
  <2>3. \A i \in 1 .. colon - start + 1 : s[i] = data[start + i - 1]
    BY <1>7, <2>1, PartElements
  <2> HIDE DEF s
  <2>4. Len(s) = Len(D) + 1 /\ colon - start + 1 = Len(D) + 1
    BY <1>5, <1>8, <1>10, <1>11, <2>2
  <2>5. ASSUME NEW i \in 1 .. Len(D) + 1 PROVE s[i] = f[Len(lead) + i]
    <3>1. /\ start + i - 1 = Len(lead) + i
          /\ Len(lead) + i \in 1 .. Len(f) /\ Len(lead) + i \in 1 .. Len(data)
      BY <1>2, <1>3, <1>5, <1>8, <1>10, <1>11
    <3>2. s[i] = data[Len(lead) + i]
      BY <2>3, <2>4, <3>1
    <3> QED
      BY <1>4, <1>9, <3>1, <3>2
  <2>6. \A i \in 1 .. Len(D) : s[i] = D[i]
    <3>1. \A i \in 1 .. Len(D) : i \in 1 .. Len(D) + 1
      BY <1>8
    <3> QED
      BY <1>5, <2>5, <3>1
  <2>7. s[Len(D) + 1] = Colon
    <3>1. Len(D) + 1 \in 1 .. Len(D) + 1 /\ Len(lead) + (Len(D) + 1) = Len(f)
      BY <1>5, <1>8, <1>10
    <3> QED
      BY <1>5, <2>5, <3>1
  <2>8. Atoi(s) = m
    BY <1>7, <1>8, <2>2, <2>4, <2>6, <2>7, AtoiOfDecimal DEF D
  <2> QED
    BY <2>8 DEF s
<1>14. ASSUME NEW i \in 1 .. Len(lead) PROVE data[i] = Comma
  <2>1. /\ IsSequence(lead) /\ IsSequence(D) /\ IsSequence(Single(Colon))
        /\ lead[i] = Comma /\ IsSequence(Join(lead, D)) /\ Len(Join(lead, D)) = Len(lead) + Len(D)
    <3>1. IsSequence(lead) /\ IsSequence(D) /\ IsSequence(Single(Colon)) /\ lead[i] = Comma
      BY <1>1, DecimalDigits, SingleElement DEF IsLead, D
    <3> QED
      BY <3>1, JoinElements
  <2>2. i \in 1 .. Len(Join(lead, D)) /\ i \in 1 .. Len(f) /\ i \in 1 .. Len(data)
    BY <1>2, <1>5, <1>8, <1>10, <1>11, <2>1
  <2>3. Join(lead, D)[i] = Comma
    BY <2>1, JoinFront
  <2>4. Join(Join(lead, D), Single(Colon))[i] = Join(lead, D)[i]
    BY <2>1, <2>2, JoinFront
  <2>5. f[i] = Comma
    BY <2>3, <2>4 DEF f, Preface, D
  <2> QED
    BY <1>4, <1>9, <2>2, <2>5
<1> QED
  BY <1>2, <1>12, <1>13, <1>14 DEF ReadsPreface, colon, start

------------------------------------------------------------------------------
\* The length that a header states: none yet, or a number; a response that is complete
\* has stated it.
StatesLength(h) ==
    /\ h.contentLength \in Nat \cup {-1}
    /\ h.role = "response" /\ h.result = "COMPLETE" => h.contentLength \in Nat

\* An HttpHeader: the record has its fields, and startIndex_ is an offset.
IsHeader(h) ==
    DOMAIN h = DOMAIN InitialHeader("request") /\ h.startIndex \in Nat /\ StatesLength(h)

\* HttpHeader::Initialize.
LEMMA InitialIsHeader ==
    ASSUME NEW r
    PROVE  IsHeader(InitialHeader(r)) /\ InitialHeader(r).role = r
BY DEF IsHeader, InitialHeader, StatesLength

\* What the lines of a header do to its fields.
LEMMA LineKeepsHeader ==
    ASSUME NEW h, IsHeader(h), h.result = "INCOMPLETE", NEW line,
           line.key = "content-length" => line.value \in Int
    PROVE  \A g \in {ProcessFirstLine(h, line), ProcessLine(h, line)} :
               IsHeader(g) /\ g.role = h.role
<1>1. DOMAIN h = DOMAIN InitialHeader("request") /\ StatesLength(h) /\ h.startIndex \in Nat
  BY DEF IsHeader
<1>2. IsHeader(Fault(h)) /\ Fault(h).role = h.role
  BY <1>1 DEF Fault, IsHeader, InitialHeader, StatesLength
<1>3. IsHeader(ProcessFirstLine(h, line)) /\ ProcessFirstLine(h, line).role = h.role
  BY <1>1, <1>2 DEF ProcessFirstLine, IsHeader, InitialHeader, StatesLength
<1>4. IsHeader(Verify(h)) /\ Verify(h).role = h.role
  <2>1. CASE Verify(h) = Fault(h)
    BY <1>2, <2>1
  <2>2. CASE Verify(h) # Fault(h)
    <3>1. /\ Verify(h) = [h EXCEPT !.result = "COMPLETE"]
          /\ h.role = "response" => ~(h.contentLength < 0)
      BY <2>2 DEF Verify
    <3>2. h.role = "response" => h.contentLength \in Nat
      BY <1>1, <3>1 DEF StatesLength
    <3> QED
      BY <1>1, <3>1, <3>2 DEF IsHeader, InitialHeader, StatesLength
  <2> QED
    BY <2>1, <2>2
<1>5. IsHeader(ProcessLine(h, line)) /\ ProcessLine(h, line).role = h.role
  <2>1. CASE ProcessLine(h, line) \in {Fault(h), Verify(h), h}
    BY <1>2, <1>4, <2>1
  <2>2. CASE line.key = "content-length" /\ ProcessLine(h, line) # Fault(h)
    <3>1. line.value \in Nat /\ ProcessLine(h, line) = [h EXCEPT !.contentLength = line.value]
      BY <2>2 DEF ProcessLine
    <3> QED
      BY <1>1, <3>1 DEF IsHeader, InitialHeader, StatesLength
  <2>3. CASE /\ line.key # "content-length"
             /\ ProcessLine(h, line) \notin {Fault(h), Verify(h), h}
    <3> DEFINE alive == line.value = "keep-alive" \/ (h.keepAlive /\ line.value # "close")
               host == h.role = "request"
    <3>1. \/ ProcessLine(h, line) = [h EXCEPT !.contentType = line.value]
          \/ ProcessLine(h, line) = [h EXCEPT !.keepAlive = alive]
          \/ ProcessLine(h, line) = [h EXCEPT !.host = host]
      BY <1>1, <2>3 DEF ProcessLine, InitialHeader
    <3> HIDE DEF alive, host
    <3> QED
      BY <1>1, <3>1 DEF IsHeader, InitialHeader, StatesLength
  <2> QED
    BY <2>1, <2>2, <2>3
<1> QED
  BY <1>3, <1>5

\* A line leaves startIndex_ where it is or puts it behind the line.
LEMMA UnitMovesStart ==
    ASSUME NEW h, IsHeader(h), NEW data, NEW i \in Nat
    PROVE  /\ IsHeader(ProcessUnit(h, data, i))
           /\ ProcessUnit(h, data, i).startIndex \in {h.startIndex, i}
           /\ ProcessUnit(h, data, i).role = h.role
<1> DEFINE line == LineAt(h, data, i)
           next == IF h.startIndex = 0 THEN ProcessFirstLine(h, line) ELSE ProcessLine(h, line)
<1>1. CASE ProcessUnit(h, data, i) = h
  BY <1>1
<1>2. CASE ProcessUnit(h, data, i) # h
  <2>1. /\ ProcessUnit(h, data, i) = [next EXCEPT !.startIndex = i]
        /\ h.result = "INCOMPLETE" /\ data[i] - LineBase \in DOMAIN Line
    BY <1>2 DEF ProcessUnit, StartIndex, IsLine
  <2>2. line.key = "content-length" => line.value \in Int
    BY <2>1, LineAssumption DEF LineAt
  <2> HIDE DEF line
  <2>3. IsHeader(next) /\ next.role = h.role
    BY <2>1, <2>2, LineKeepsHeader
  <2> HIDE DEF next
  <2> QED
    BY <2>1, <2>3 DEF IsHeader, InitialHeader, StatesLength
<1> QED
  BY <1>1, <1>2

\* The states of a header as the data behind startIndex_ is read, unit by unit.
HeaderRun(h, data, st) ==
    /\ st[h.startIndex] = h
    /\ \A i \in h.startIndex + 1 .. Len(data) : st[i] = ProcessUnit(st[i - 1], data, i)

\* HttpHeader::ProcessHeaderData goes through one state of the header after another.
LEMMA HeaderStates ==
    ASSUME NEW h, IsHeader(h), NEW data, IsSequence(data), h.startIndex <= Len(data), NEW eof
    PROVE  \E st :
              /\ HeaderRun(h, data, st)
              /\ ProcessHeaderData(h, data, eof)
                    = IF st[Len(data)].result = "INCOMPLETE" /\ eof THEN Fault(st[Len(data)])
                      ELSE st[Len(data)]
<1> DEFINE a == h.startIndex
           n == Len(data)
           Solves(f, m) == f = [i \in a .. m |-> IF i = a THEN h ELSE ProcessUnit(f[i - 1], data, i)]
           after == CHOOSE f : Solves(f, n)
<1>1. a \in Nat /\ n \in Nat
  BY SubSequence DEF IsHeader
<1>2. ProcessHeaderData(h, data, eof) =
         IF n < a THEN Fault(h)
         ELSE IF after[n].result = "INCOMPLETE" /\ eof THEN Fault(after[n])
         ELSE after[n]
  BY DEF ProcessHeaderData
<1>3. a <= n
  OBVIOUS
<1> HIDE DEF n, a
<1>4. ~(n < a)
  BY <1>1, <1>3
<1>5. \E f : Solves(f, n)
  <2> DEFINE Solved == {m \in Nat : \E f : Solves(f, a + m)}
  <2>1. 0 \in Solved
    <3> DEFINE f == [i \in a .. a |-> h]
    <3>1. Solves(f, a)
      BY <1>1
    <3> HIDE DEF f, Solves
    <3>2. \E g : Solves(g, a + 0)
      BY <1>1, <3>1
    <3> QED
      BY <3>2
  <2>2. ASSUME NEW m \in Nat, m \in Solved PROVE m + 1 \in Solved
    <3>1. PICK f : Solves(f, a + m)
      BY <2>2
    <3>2. DOMAIN f = a .. a + m /\ \A i \in a .. a + m :
             f[i] = IF i = a THEN h ELSE ProcessUnit(f[i - 1], data, i)
      BY <3>1
    <3> DEFINE top == a + (m + 1)
               last == ProcessUnit(f[a + m], data, top)
               g == [i \in a .. top |-> IF i = top THEN last ELSE f[i]]
    <3>3. \A i \in a .. a + m : g[i] = f[i]
      BY <1>1
    <3>4. g[top] = last /\ g = [i \in a .. top |-> g[i]]
      BY <1>1
    <3> HIDE DEF g
    <3>5. ASSUME NEW i \in a .. top
          PROVE  g[i] = IF i = a THEN h ELSE ProcessUnit(g[i - 1], data, i)
      <4>1. CASE i = top
        <5>1. i - 1 = a + m /\ g[a + m] = f[a + m] /\ i # a
          BY <1>1, <3>3, <4>1
        <5> QED
          BY <3>4, <4>1, <5>1
      <4>2. CASE i # top
        <5>1. i \in a .. a + m /\ (i # a => i - 1 \in a .. a + m)
          BY <1>1, <4>2
        <5> QED
          BY <3>2, <3>3, <5>1
      <4> QED
        BY <4>1, <4>2
    <3>6. Solves(g, top)
      BY <3>4, <3>5
    <3> HIDE DEF Solves
    <3>7. \E ff : Solves(ff, top)
      BY <3>6
    <3> QED
      BY <3>7
  <2> HIDE DEF Solved
  <2>3. n - a \in Nat /\ a + (n - a) = n
    BY <1>1, <1>4
  <2>4. n - a \in Solved
    BY <2>1, <2>2, <2>3, NatSetInduction
  <2> QED
    BY <2>3, <2>4 DEF Solved
<1>6. \A i \in a .. n : after[i] = IF i = a THEN h ELSE ProcessUnit(after[i - 1], data, i)
  <2>1. Solves(after, n)
    BY <1>5
  <2> HIDE DEF after
  <2> QED
    BY <2>1
<1> HIDE DEF after
<1>7. after[a] = h
  BY <1>1, <1>3, <1>6
<1>8. ASSUME NEW i \in a + 1 .. n PROVE after[i] = ProcessUnit(after[i - 1], data, i)
  <2>1. i \in a .. n /\ i # a
    BY <1>1
  <2> QED
    BY <1>6, <2>1
<1>9. ProcessHeaderData(h, data, eof) =
         IF after[n].result = "INCOMPLETE" /\ eof THEN Fault(after[n]) ELSE after[n]
  BY <1>2, <1>4
<1> HIDE DEF Solves
<1>10. HeaderRun(h, data, after)
  BY <1>7, <1>8 DEF HeaderRun, a, n
<1> QED
  BY <1>9, <1>10 DEF n

\* HttpHeader::ProcessHeaderData does not go past the data it is given.
LEMMA HeaderEndsInData ==
    ASSUME NEW h, IsHeader(h), NEW data, IsSequence(data), NEW eof
    PROVE  LET p == ProcessHeaderData(h, data, eof)
           IN  /\ IsHeader(p) /\ p.role = h.role
               /\ p.result # "FAULT" => p.startIndex \in 0 .. Len(data)
<1> DEFINE a == h.startIndex
           n == Len(data)
           p == ProcessHeaderData(h, data, eof)
<1>1. a \in Nat /\ n \in Nat /\ "result" \in DOMAIN h /\ "startIndex" \in DOMAIN h
  BY SubSequence DEF IsHeader, InitialHeader
<1>2. n < a => p = Fault(h)
  BY DEF ProcessHeaderData
<1>3. ASSUME NEW g, IsHeader(g)
      PROVE  IsHeader(Fault(g)) /\ Fault(g).result = "FAULT" /\ Fault(g).role = g.role
  BY <1>3 DEF Fault, IsHeader, InitialHeader, StatesLength
<1>4. CASE n < a
  BY <1>2, <1>3, <1>4
<1>5. CASE ~(n < a)
  <2>1. h.startIndex <= Len(data)
    BY <1>1, <1>5
  <2>2. PICK st : /\ st[a] = h
                  /\ \A i \in a + 1 .. n : st[i] = ProcessUnit(st[i - 1], data, i)
                  /\ p = IF st[n].result = "INCOMPLETE" /\ eof THEN Fault(st[n]) ELSE st[n]
    BY <2>1, HeaderStates DEF HeaderRun
  <2> HIDE DEF p
  <2> DEFINE Good == {m \in Nat : a + m <= n =>
                        /\ IsHeader(st[a + m]) /\ st[a + m].role = h.role
                        /\ st[a + m].startIndex \in 0 .. a + m}
  <2> HIDE DEF n
  <2>3. 0 \in Good
    <3>1. st[a + 0] = h
      BY <1>1, <1>5, <2>2
    <3> QED
      BY <1>1, <3>1 DEF a
  <2> HIDE DEF a
  <2>4. ASSUME NEW m \in Nat, m \in Good PROVE m + 1 \in Good
    <3> SUFFICES ASSUME a + (m + 1) <= n
                 PROVE  /\ IsHeader(st[a + (m + 1)]) /\ st[a + (m + 1)].role = h.role
                        /\ st[a + (m + 1)].startIndex \in 0 .. a + (m + 1)
      OBVIOUS
    <3>1. st[a + (m + 1)] = ProcessUnit(st[a + m], data, a + (m + 1))
      <4> DEFINE i == a + (m + 1)
      <4>1. i \in a + 1 .. n /\ i - 1 = a + m
        BY <1>1
      <4> HIDE DEF i
      <4>2. st[i] = ProcessUnit(st[i - 1], data, i)
        BY <2>2, <4>1
      <4>3. st[i] = ProcessUnit(st[a + m], data, i)
        BY <4>1, <4>2
      <4> QED
        BY <4>3 DEF i
    <3>2. /\ IsHeader(st[a + m]) /\ st[a + m].role = h.role
          /\ st[a + m].startIndex \in 0 .. a + m
      BY <1>1, <2>4
    <3>3. a + (m + 1) \in Nat
      BY <1>1
    <3> QED
      BY <1>1, <3>1, <3>2, <3>3, UnitMovesStart
  <2> HIDE DEF Good
  <2>5. n - a \in Nat /\ a + (n - a) = n
    BY <1>1, <1>5
  <2>6. n - a \in Good
    BY <2>3, <2>4, <2>5, NatSetInduction
  <2>7. IsHeader(st[n]) /\ st[n].role = h.role /\ st[n].startIndex \in 0 .. n
    BY <1>1, <2>5, <2>6 DEF Good
  <2>8. IsHeader(Fault(st[n])) /\ Fault(st[n]).result = "FAULT" /\ Fault(st[n]).role = st[n].role
    BY <1>3, <2>7
  <2>9. CASE p = st[n]
    BY <2>7, <2>9 DEF n, p
  <2>10. CASE p = Fault(st[n])
    BY <2>7, <2>8, <2>10 DEF n, p
  <2> QED
    BY <2>2, <2>9, <2>10
<1> QED
  BY <1>4, <1>5

\* Without the end of the stream it ends in the last of them.
LEMMA HeaderLastState ==
    ASSUME NEW h, IsHeader(h), NEW data, IsSequence(data), h.startIndex <= Len(data)
    PROVE  \E st :
              /\ HeaderRun(h, data, st)
              /\ ProcessHeaderData(h, data, FALSE) = st[Len(data)]
<1>1. PICK eof : eof = FALSE
  OBVIOUS
<1>2. \E st : /\ HeaderRun(h, data, st)
              /\ ProcessHeaderData(h, data, eof)
                    = IF st[Len(data)].result = "INCOMPLETE" /\ eof THEN Fault(st[Len(data)])
                      ELSE st[Len(data)]
  BY HeaderStates
<1> QED
  BY <1>1, <1>2

\* A unit counts for what it is, whatever data it is part of.
LEMMA SameUnit ==
    ASSUME NEW data, NEW units, NEW i, data[i] = units[i]
    PROVE  \A g : ProcessUnit(g, data, i) = ProcessUnit(g, units, i)
BY DEF ProcessUnit, LineAt

\* It is determined by the header before and the units behind it.
LEMMA HeaderFromStates ==
    ASSUME NEW h, IsHeader(h), NEW data, IsSequence(data), h.startIndex <= Len(data),
           NEW st, HeaderRun(h, data, st)
    PROVE  ProcessHeaderData(h, data, FALSE) = st[Len(data)]
<1> DEFINE a == h.startIndex
           n == Len(data)
<1>1. a \in Nat /\ n \in Nat /\ a <= n
  BY SubSequence DEF IsHeader
<1>2. PICK s2 : /\ s2[a] = h
                /\ \A i \in a + 1 .. n : s2[i] = ProcessUnit(s2[i - 1], data, i)
                /\ ProcessHeaderData(h, data, FALSE) = s2[n]
  <2>1. \E s2 : HeaderRun(h, data, s2) /\ ProcessHeaderData(h, data, FALSE) = s2[Len(data)]
    BY HeaderLastState
  <2> QED
    BY <2>1 DEF HeaderRun
<1>3. \A i \in a + 1 .. n : st[i] = ProcessUnit(st[i - 1], data, i)
  BY DEF HeaderRun
<1>4. st[a] = h
  BY DEF HeaderRun
<1> HIDE DEF a, n
<1> DEFINE Agree == {m \in Nat : a + m <= n => st[a + m] = s2[a + m]}
<1>5. 0 \in Agree
  BY <1>1, <1>2, <1>4
<1>6. ASSUME NEW m \in Nat, m \in Agree PROVE m + 1 \in Agree
  <2> SUFFICES ASSUME a + (m + 1) <= n PROVE st[a + (m + 1)] = s2[a + (m + 1)]
    OBVIOUS
  <2>1. PICK i : i = a + (m + 1)
    OBVIOUS
  <2>2. i \in a + 1 .. n /\ i - 1 = a + m
    BY <1>1, <2>1
  <2>3. st[i - 1] = s2[i - 1]
    BY <1>1, <1>6, <2>2
  <2>4. st[i] = s2[i]
    BY <1>2, <1>3, <2>2, <2>3
  <2> QED
    BY <2>1, <2>4
<1> HIDE DEF Agree
<1>7. n - a \in Nat /\ a + (n - a) = n
  BY <1>1
<1>8. n - a \in Agree
  BY <1>5, <1>6, <1>7, NatSetInduction
<1>9. st[n] = s2[n]
  BY <1>1, <1>7, <1>8 DEF Agree
<1> QED
  BY <1>2, <1>9 DEF n

\* Parsing in pieces comes to the same as parsing at once: what is left off after the
\* first units is taken up there with the rest.
LEMMA HeaderInPieces ==
    ASSUME NEW h, IsHeader(h), NEW data, IsSequence(data), NEW m \in h.startIndex .. Len(data),
           ProcessHeaderData(h, First(data, m), FALSE).startIndex = m
    PROVE  ProcessHeaderData(ProcessHeaderData(h, First(data, m), FALSE), data, FALSE)
              = ProcessHeaderData(h, data, FALSE)
<1> DEFINE a == h.startIndex
           n == Len(data)
           front == First(data, m)
           p == ProcessHeaderData(h, front, FALSE)
<1>1. a \in Nat /\ n \in Nat /\ a <= n /\ m \in Nat /\ a <= m /\ m <= n /\ m \in 0 .. Len(data)
  BY SubSequence DEF IsHeader
<1>2. PICK st : /\ st[a] = h
                /\ \A i \in a + 1 .. n : st[i] = ProcessUnit(st[i - 1], data, i)
                /\ ProcessHeaderData(h, data, FALSE) = st[n]
  <2>1. h.startIndex <= Len(data)
    BY <1>1
  <2>2. \E st : HeaderRun(h, data, st) /\ ProcessHeaderData(h, data, FALSE) = st[Len(data)]
    BY <2>1, HeaderLastState
  <2> QED
    BY <2>2 DEF HeaderRun
<1>3. IsSequence(front) /\ Len(front) = m /\ \A i \in 1 .. m : front[i] = data[i]
  BY <1>1, CutInTwo
<1> HIDE DEF front
<1>4. \A i \in a + 1 .. m : st[i] = ProcessUnit(st[i - 1], front, i)
  <2>1. \A i \in a + 1 .. m : i \in a + 1 .. n /\ i \in 1 .. m
    BY <1>1
  <2> QED
    BY <1>2, <1>3, <2>1, SameUnit
<1>5. p = st[m]
  <2>1. h.startIndex <= Len(front) /\ Len(front) = m /\ IsSequence(front) /\ st[h.startIndex] = h
    BY <1>1, <1>2, <1>3
  <2>2. HeaderRun(h, front, st)
    BY <1>4, <2>1 DEF HeaderRun
  <2>3. ProcessHeaderData(h, front, FALSE) = st[Len(front)]
    BY <2>1, <2>2, HeaderFromStates
  <2> QED
    BY <2>1, <2>3
<1>6. IsHeader(p) /\ p.startIndex = m
  BY <1>3, HeaderEndsInData DEF front
<1> HIDE DEF p
<1>7. \A i \in m + 1 .. n : st[i] = ProcessUnit(st[i - 1], data, i)
  <2>1. \A i \in m + 1 .. n : i \in a + 1 .. n
    BY <1>1
  <2> QED
    BY <1>2, <2>1
<1>8. ProcessHeaderData(p, data, FALSE) = st[n]
  <2>1. p.startIndex <= Len(data) /\ st[p.startIndex] = p
    BY <1>1, <1>5, <1>6
  <2>2. HeaderRun(p, data, st)
    BY <1>6, <1>7, <2>1 DEF HeaderRun
  <2> QED
    BY <1>6, <2>1, <2>2, HeaderFromStates
<1> QED
  BY <1>2, <1>8 DEF p, front
==============================================================================
