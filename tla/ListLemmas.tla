----------------------------- MODULE ListLemmas ------------------------------
(***************************************************************************)
(* What the servers' std::list and std::deque operations do to the set of  *)
(* elements listed, and that they keep a list without duplicates so.       *)
(* Proofs reason about membership and cite these instead of indices.       *)
(***************************************************************************)
EXTENDS Integers, Sequences, SequencesExt, SequenceTheorems, TLAPS

\* The members of a list are of the type of its elements.
LEMMA ListInType == ASSUME NEW S, NEW q \in Seq(S) PROVE ToSet(q) \subseteq S
BY LenProperties DEF ToSet

\* push_back: the element comes to those listed, and a list that had it not still
\* names each of its elements once.
LEMMA AppendToList ==
    ASSUME NEW S, NEW q \in Seq(S), NEW c \in S
    PROVE  /\ ToSet(Append(q, c)) = ToSet(q) \cup {c}
           /\ IsInjective(q) /\ c \notin ToSet(q) => IsInjective(Append(q, c))
<1>1. /\ Append(q, c) \in Seq(S) /\ Len(Append(q, c)) = Len(q) + 1
      /\ \A i \in 1 .. Len(q) : Append(q, c)[i] = q[i]
      /\ Append(q, c)[Len(q) + 1] = c
  BY AppendProperties
<1>2. DOMAIN q = 1 .. Len(q) /\ DOMAIN Append(q, c) = 1 .. Len(q) + 1 /\ Len(q) \in Nat
  BY <1>1, LenProperties
<1>3. ToSet(Append(q, c)) = ToSet(q) \cup {c}
  BY <1>1, <1>2 DEF ToSet
<1>4. ASSUME IsInjective(q), c \notin ToSet(q) PROVE IsInjective(Append(q, c))
  BY <1>1, <1>2, <1>4 DEF IsInjective, ToSet
<1> QED
  BY <1>3, <1>4

\* front and pop_front: the first element, and only it, leaves a list that names it once.
LEMMA TakeFromList ==
    ASSUME NEW S, NEW q \in Seq(S), q # <<>>
    PROVE  /\ Head(q) \in S /\ Tail(q) \in Seq(S)
           /\ ToSet(q) = ToSet(Tail(q)) \cup {Head(q)}
           /\ IsInjective(q) => IsInjective(Tail(q)) /\ Head(q) \notin ToSet(Tail(q))
<1>1. /\ Head(q) \in S /\ Tail(q) \in Seq(S) /\ Len(Tail(q)) = Len(q) - 1
      /\ \A i \in 1 .. Len(Tail(q)) : Tail(q)[i] = q[i + 1]
      /\ Head(q) = q[1]
  BY HeadTailProperties
<1>2. /\ DOMAIN q = 1 .. Len(q) /\ DOMAIN Tail(q) = 1 .. Len(q) - 1
      /\ Len(q) \in Nat \ {0}
  BY <1>1, LenProperties, EmptySeq
<1>3. ToSet(q) = ToSet(Tail(q)) \cup {Head(q)}
  <2>1. ASSUME NEW x \in ToSet(q) PROVE x \in ToSet(Tail(q)) \cup {Head(q)}
    <3> PICK i \in 1 .. Len(q) : x = q[i]
      BY <1>2 DEF ToSet
    <3>1. CASE i = 1
      BY <1>1, <3>1
    <3>2. CASE i # 1
      <4>1. i - 1 \in 1 .. Len(Tail(q)) /\ Tail(q)[i - 1] = x
        BY <1>1, <1>2, <3>2
      <4> QED
        BY <1>1, <1>2, <4>1 DEF ToSet
    <3> QED
      BY <3>1, <3>2
  <2>2. ASSUME NEW x \in ToSet(Tail(q)) \cup {Head(q)} PROVE x \in ToSet(q)
    BY <1>1, <1>2 DEF ToSet
  <2> QED
    BY <2>1, <2>2
<1>4. ASSUME IsInjective(q)
      PROVE  IsInjective(Tail(q)) /\ Head(q) \notin ToSet(Tail(q))
  BY <1>1, <1>2, <1>4 DEF IsInjective, ToSet
<1> QED
  BY <1>1, <1>3, <1>4

\* erase: what RemoveAt returns, index by index.
LEMMA RemoveAtElements ==
    ASSUME NEW S, NEW s \in Seq(S), NEW i \in 1 .. Len(s)
    PROVE  /\ RemoveAt(s, i) \in Seq(S) /\ Len(RemoveAt(s, i)) = Len(s) - 1
           /\ \A j \in 1 .. Len(s) - 1 :
                 RemoveAt(s, i)[j] = IF j < i THEN s[j] ELSE s[j + 1]
<1> DEFINE a == SubSeq(s, 1, i - 1)
           b == SubSeq(s, i + 1, Len(s))
<1>1. Len(s) \in Nat /\ \A j \in 1 .. Len(s) : s[j] \in S
  BY LenProperties, ElementOfSeq
<1>2. a \in Seq(S) /\ Len(a) = i - 1 /\ \A j \in 1 .. i - 1 : a[j] = s[j]
  BY <1>1, SubSeqProperties
<1>3. b \in Seq(S) /\ Len(b) = Len(s) - i /\ \A j \in 1 .. Len(s) - i : b[j] = s[i + j]
  BY <1>1, SubSeqProperties
<1> HIDE DEF a, b
<1>4. /\ a \o b \in Seq(S) /\ Len(a \o b) = Len(a) + Len(b)
      /\ \A j \in 1 .. Len(a) + Len(b) :
            (a \o b)[j] = IF j <= Len(a) THEN a[j] ELSE b[j - Len(a)]
  BY <1>2, <1>3, ConcatProperties
<1>5. \A j \in 1 .. Len(s) - 1 : (a \o b)[j] = IF j < i THEN s[j] ELSE s[j + 1]
  <2> SUFFICES ASSUME NEW j \in 1 .. Len(s) - 1
               PROVE  (a \o b)[j] = IF j < i THEN s[j] ELSE s[j + 1]
    OBVIOUS
  <2>1. CASE j < i
    BY <1>1, <1>2, <1>3, <1>4, <2>1
  <2>2. CASE j >= i
    <3>1. (a \o b)[j] = b[j - (i - 1)]
      BY <1>1, <1>2, <1>3, <1>4, <2>2
    <3>2. j - (i - 1) \in 1 .. Len(s) - i /\ i + (j - (i - 1)) = j + 1
      BY <1>1, <2>2
    <3>3. b[j - (i - 1)] = s[i + (j - (i - 1))]
      BY <1>3, <3>2
    <3> QED
      BY <1>1, <2>2, <3>1, <3>2, <3>3
  <2>3. j < i \/ j >= i
    OBVIOUS
  <2> QED
    BY <2>1, <2>2, <2>3
<1>6. RemoveAt(s, i) = a \o b
  BY DEF RemoveAt, a, b
<1> QED
  BY <1>1, <1>2, <1>3, <1>4, <1>5, <1>6

\* erase: the element at the place, and only it, leaves a list that names it once.
LEMMA RemoveFromList ==
    ASSUME NEW S, NEW s \in Seq(S), NEW i \in 1 .. Len(s), IsInjective(s)
    PROVE  /\ IsInjective(RemoveAt(s, i))
           /\ ToSet(RemoveAt(s, i)) = ToSet(s) \ {s[i]}
<1> DEFINE r == RemoveAt(s, i)
<1>1. /\ r \in Seq(S) /\ Len(r) = Len(s) - 1
      /\ \A j \in 1 .. Len(s) - 1 : r[j] = IF j < i THEN s[j] ELSE s[j + 1]
  BY RemoveAtElements
<1>2. DOMAIN s = 1 .. Len(s) /\ DOMAIN r = 1 .. Len(s) - 1 /\ Len(s) \in Nat
  BY <1>1, LenProperties
<1> HIDE DEF r
<1>3. \A j, k \in 1 .. Len(s) : s[j] = s[k] => j = k
  BY <1>2 DEF IsInjective
<1>4. IsInjective(r)
  BY <1>1, <1>2, <1>3 DEF IsInjective
<1>5. ASSUME NEW x \in ToSet(r) PROVE x \in ToSet(s) \ {s[i]}
  <2>1. PICK j \in 1 .. Len(s) - 1 : x = r[j]
    BY <1>2 DEF ToSet
  <2>2. PICK l \in 1 .. Len(s) : x = s[l] /\ l # i
    BY <1>1, <1>2, <2>1
  <2> QED
    BY <1>2, <1>3, <2>2 DEF ToSet
<1>6. ASSUME NEW x \in ToSet(s) \ {s[i]} PROVE x \in ToSet(r)
  <2> PICK j \in 1 .. Len(s) : x = s[j]
    BY <1>2 DEF ToSet
  <2>1. \E k \in 1 .. Len(s) - 1 : r[k] = x
    <3>1. CASE j < i
      <4>1. j \in 1 .. Len(s) - 1 /\ r[j] = x
        BY <1>1, <1>2, <3>1
      <4> QED
        BY <4>1
    <3>2. CASE j > i
      <4>1. j - 1 \in 1 .. Len(s) - 1 /\ r[j - 1] = x
        BY <1>1, <1>2, <3>2
      <4> QED
        BY <4>1
    <3> QED
      BY <1>2, <3>1, <3>2
  <2> QED
    BY <1>2, <2>1 DEF ToSet
<1> QED
  BY <1>4, <1>5, <1>6 DEF r

\* The iterator to an element that a list names once.
LEMMA PlaceInList ==
    ASSUME NEW S, NEW s \in Seq(S), NEW x \in ToSet(s), IsInjective(s)
    PROVE  /\ SelectInSeq(s, LAMBDA y : y = x) \in 1 .. Len(s)
           /\ s[SelectInSeq(s, LAMBDA y : y = x)] = x
<1> DEFINE I == {i \in 1 .. Len(s) : s[i] = x}
<1>1. DOMAIN s = 1 .. Len(s) /\ Len(s) \in Nat
  BY LenProperties
<1>2. PICK i \in 1 .. Len(s) : s[i] = x
  BY <1>1 DEF ToSet
<1>3. I = {i}
  BY <1>1, <1>2 DEF IsInjective
<1>4. Min(I) = i
  BY <1>3 DEF Min
<1>5. SelectInSeq(s, LAMBDA y : y = x) = Min(I)
  BY <1>3 DEF SelectInSeq
<1> QED
  BY <1>2, <1>4, <1>5
==============================================================================
