------------------------------- MODULE Stacks -------------------------------
(***************************************************************************)
(* What the machines' proofs need to know of stacks kept as sequences, and *)
(* of sets of natural numbers.  A stack is written s \in Seq(Range(s))     *)
(* where its elements hold whatever the program was given.                 *)
(***************************************************************************)
EXTENDS Integers, Sequences, FiniteSets, SequencesExt, SequenceTheorems, FiniteSetTheorems,
        WellFoundedInduction, TLAPS

\* The top of a stack is an element, and taking it off leaves the rest.
LEMMA StackTop ==
  ASSUME NEW S, NEW s \in Seq(S), s # <<>>
  PROVE  /\ Len(s) \in Nat /\ Len(s) >= 1
         /\ Last(s) = s[Len(s)]
         /\ Last(s) \in S
         /\ Front(s) \in Seq(S)
         /\ Len(Front(s)) = Len(s) - 1
         /\ \A i \in 1 .. (Len(s) - 1) : Front(s)[i] = s[i]
<1>1. PICK n \in Nat : n = Len(s) /\ n >= 1
  OBVIOUS
<1>2. Last(s) = s[n] /\ Last(s) \in S
  BY <1>1 DEF Last
<1>3. Front(s) = SubSeq(s, 1, n - 1)
  BY <1>1 DEF Front
<1>4. \A i \in 1 .. (n - 1) : s[i] \in S
  BY <1>1
<1>5. /\ Front(s) \in Seq(S)
      /\ Len(Front(s)) = IF 1 <= n - 1 THEN n - 1 - 1 + 1 ELSE 0
      /\ \A i \in 1 .. (n - 1 - 1 + 1) : Front(s)[i] = s[1 + i - 1]
  BY <1>3, <1>4, SubSeqProperties
<1>6. Len(Front(s)) = n - 1
  BY <1>1, <1>5
<1>7. \A i \in 1 .. (n - 1) : Front(s)[i] = s[i]
  BY <1>5
<1> QED
  BY <1>1, <1>2, <1>5, <1>6, <1>7

\* A sequence whose elements have no type of their own.
Stack(s) == s \in Seq(Range(s))

LEMMA IsStack == ASSUME NEW S, NEW s \in Seq(S) PROVE Stack(s)
  BY SeqOfRange DEF Stack

\* A stack's heights and elements, and what taking the top off leaves.
LEMMA StackPop ==
  ASSUME NEW s, Stack(s), s # <<>>
  PROVE  /\ Len(s) \in Nat /\ Len(s) >= 1 /\ DOMAIN s = 1 .. Len(s)
         /\ Last(s) = s[Len(s)]
         /\ Stack(Front(s))
         /\ Len(Front(s)) = Len(s) - 1
         /\ DOMAIN Front(s) = 1 .. (Len(s) - 1)
         /\ \A i \in 1 .. (Len(s) - 1) : Front(s)[i] = s[i]
<1>1. s \in Seq(Range(s))
  BY DEF Stack
<1>2. /\ Len(s) \in Nat /\ Len(s) >= 1
      /\ Last(s) = s[Len(s)]
      /\ Front(s) \in Seq(Range(s))
      /\ Len(Front(s)) = Len(s) - 1
      /\ \A i \in 1 .. (Len(s) - 1) : Front(s)[i] = s[i]
  BY <1>1, StackTop
<1>3. DOMAIN s = 1 .. Len(s) /\ DOMAIN Front(s) = 1 .. Len(Front(s))
  BY <1>1, <1>2, LenProperties
<1> QED
  BY <1>2, <1>3, IsStack

\* Pushing an element of any kind.
LEMMA StackPush ==
  ASSUME NEW s, Stack(s), NEW x
  PROVE  /\ Stack(Append(s, x))
         /\ Len(s) \in Nat
         /\ DOMAIN s = 1 .. Len(s)
         /\ Append(s, x) # <<>>
         /\ Len(Append(s, x)) = Len(s) + 1
         /\ DOMAIN Append(s, x) = 1 .. (Len(s) + 1)
         /\ \A i \in 1 .. Len(s) : Append(s, x)[i] = s[i]
         /\ Append(s, x)[Len(s) + 1] = x
<1> DEFINE S == Range(s) \cup {x}
<1>1. s \in Seq(S) /\ x \in S
  BY SeqMonotonic DEF Stack
<1> HIDE DEF S
<1>2. /\ Append(s, x) \in Seq(S)
      /\ Append(s, x) # <<>>
      /\ Len(Append(s, x)) = Len(s) + 1
      /\ \A i \in 1 .. Len(s) : Append(s, x)[i] = s[i]
      /\ Append(s, x)[Len(s) + 1] = x
  BY <1>1, AppendProperties
<1>3. Len(s) \in Nat /\ DOMAIN s = 1 .. Len(s)
  BY <1>1, LenProperties
<1>4. DOMAIN Append(s, x) = 1 .. (Len(s) + 1)
  BY <1>2, LenProperties
<1> QED
  BY <1>2, <1>3, <1>4, IsStack

\* Replacing the top by an element of any kind.
LEMMA StackReplace ==
  ASSUME NEW s, Stack(s), s # <<>>, NEW x
  PROVE  /\ Stack(Append(Front(s), x))
         /\ Len(s) \in Nat /\ Len(s) >= 1
         /\ Append(Front(s), x) # <<>>
         /\ Len(Append(Front(s), x)) = Len(s)
         /\ DOMAIN Append(Front(s), x) = 1 .. Len(s)
         /\ \A i \in 1 .. (Len(s) - 1) : Append(Front(s), x)[i] = s[i]
         /\ Append(Front(s), x)[Len(s)] = x
<1>1. /\ Len(s) \in Nat /\ Len(s) >= 1
      /\ Stack(Front(s))
      /\ Len(Front(s)) = Len(s) - 1
      /\ \A i \in 1 .. (Len(s) - 1) : Front(s)[i] = s[i]
  BY StackPop
<1> QED
  BY <1>1, StackPush

\* Updating the top in place.
Topped(s, x) == [s EXCEPT ![Len(s)] = x]
LEMMA StackUpdate ==
  ASSUME NEW s, Stack(s), s # <<>>, NEW x
  PROVE  /\ Stack(Topped(s, x))
         /\ Topped(s, x) # <<>>
         /\ Len(Topped(s, x)) = Len(s)
         /\ DOMAIN Topped(s, x) = 1 .. Len(s)
         /\ \A i \in 1 .. (Len(s) - 1) : Topped(s, x)[i] = s[i]
         /\ Topped(s, x)[Len(s)] = x
         /\ Last(Topped(s, x)) = x
<1> DEFINE S == Range(s) \cup {x}
<1>1. s \in Seq(S) /\ x \in S
  BY SeqMonotonic DEF Stack
<1> HIDE DEF S
<1>2. Len(s) \in Nat /\ Len(s) >= 1
  BY StackPop
<1>3. Len(s) \in 1 .. Len(s)
  BY <1>2
<1>4. /\ Topped(s, x) \in Seq(S) /\ Len(Topped(s, x)) = Len(s)
      /\ \A j \in 1 .. Len(s) : Topped(s, x)[j] = IF j = Len(s) THEN x ELSE s[j]
  BY <1>1, <1>3, ExceptSeq DEF Topped
<1>5. Topped(s, x) # <<>> /\ DOMAIN Topped(s, x) = 1 .. Len(s)
  BY <1>2, <1>4, LenProperties
<1>6. Last(Topped(s, x)) = x
  BY <1>3, <1>4, <1>5, StackTop
<1>7. \A i \in 1 .. (Len(s) - 1) : i \in 1 .. Len(s) /\ i # Len(s)
  BY <1>2
<1> QED
  BY <1>3, <1>4, <1>5, <1>6, <1>7, IsStack

\* A height is the top's or one below it.
LEMMA TopOrBelow == ASSUME NEW n \in Nat PROVE \A i \in 1 .. n : i = n \/ i \in 1 .. (n - 1)
  OBVIOUS

\* Two elements in place of the top.
LEMMA StackDescend ==
  ASSUME NEW s, Stack(s), s # <<>>, NEW x, NEW y
  PROVE  Front(s) \o <<x, y>> = Append(Append(Front(s), x), y)
<1> DEFINE S == Range(s) \cup {x, y}
<1>1. s \in Seq(S) /\ x \in S /\ y \in S
  BY SeqMonotonic DEF Stack
<1> HIDE DEF S
<1>2. Front(s) \in Seq(S)
  BY <1>1, StackTop
<1> QED
  BY <1>1, <1>2

(***************************************************************************)
(* Sets of natural numbers.                                                *)
(***************************************************************************)
\* Every set of natural numbers that is not empty has a least element.
LEMMA LeastNat ==
  ASSUME NEW S \in SUBSET Nat, S # {}
  PROVE  \E n \in S : \A m \in S : n <= m
<1>1. PICK n \in S : \A m \in S : <<m, n>> \notin OpToRel(<, Nat)
  BY WFMin, NatLessThanWellFounded
<1>2. \A m \in S : ~(m < n)
  BY <1>1 DEF OpToRel
<1> QED
  BY <1>2

\* And if it has a bound, a greatest one.
LEMMA GreatestNat ==
  ASSUME NEW S \in SUBSET Nat, S # {}, NEW b \in Nat, \A m \in S : m <= b
  PROVE  \E n \in S : \A m \in S : m <= n
<1> DEFINE T == {b - m : m \in S}
<1>1. T \in SUBSET Nat
  <2>1. \A m \in S : b - m \in Nat
    OBVIOUS
  <2> QED
    BY <2>1
<1>0. T # {}
  <2>1. PICK m : m \in S
    OBVIOUS
  <2>2. b - m \in T
    BY <2>1
  <2> QED
    BY <2>2
<1>2. PICK k \in T : \A j \in T : k <= j
  BY <1>1, <1>0, LeastNat
<1>3. PICK n \in S : k = b - n
  OBVIOUS
<1>4. \A m \in S : b - m \in T
  OBVIOUS
<1>5. \A m \in S : b - n <= b - m
  BY <1>2, <1>3, <1>4
<1> QED
  BY <1>5

\* Induction on the natural numbers, for the members of a set.
LEMMA NatInductionOn ==
  ASSUME NEW S, 0 \in S, \A n \in Nat : n \in S => n + 1 \in S
  PROVE  Nat \subseteq S
<1> SUFFICES ASSUME Nat \ S # {} PROVE FALSE
  OBVIOUS
<1>1. PICK n \in Nat \ S : \A m \in Nat \ S : n <= m
  BY LeastNat
<1>2. n # 0 /\ n - 1 \in Nat
  BY <1>1
<1>3. n - 1 \in S
  BY <1>1, <1>2
<1> QED
  BY <1>1, <1>2, <1>3

\* Positions told apart by a number up to n are at most n + 1.
LEMMA DistinctBounded ==
  ASSUME NEW D, NEW f, NEW n \in Nat,
         \A i \in D : f[i] \in 0 .. n,
         \A i, j \in D : i # j => f[i] # f[j]
  PROVE  IsFiniteSet(D) /\ Cardinality(D) <= n + 1
<1> DEFINE g == [i \in D |-> f[i]]
<1>1. g \in Injection(D, 0 .. n)
  BY DEF Injection, IsInjective
<1>2. IsFiniteSet(0 .. n) /\ Cardinality(0 .. n) = n + 1
  BY FS_Interval
<1> HIDE DEF g
<1> QED
  BY <1>1, <1>2, FS_Injection
(***************************************************************************)
(* Recursive functions on 0 .. n.  The provers know such a function as one *)
(* CHOOSEn to satisfy its equation: that there is one, and what it keeps.  *)
(***************************************************************************)
\* Steps inside a set T, given as a function of pairs, can be iterated.
Steps(st, n, T) == \A i \in 1 .. n : \A x \in T : st[<<i, x>>] \in T
Iterates(g, st, base, n) == g[0] = base /\ \A i \in 1 .. n : g[i] = st[<<i, g[i - 1]>>]
LEMMA IterExists ==
  ASSUME NEW n \in Nat, NEW T, NEW base, base \in T, NEW st, Steps(st, n, T)
  PROVE  \E g : g \in [0 .. n -> T] /\ Iterates(g, st, base, n)
<1> USE DEF Steps
<1> DEFINE Ok(m, g) == g[0] = base /\ \A i \in 1 .. m : g[i] = st[<<i, g[i - 1]>>]
           S == {m \in Nat : m <= n => \E g \in [0 .. m -> T] : Ok(m, g)}
<1>1. 0 \in S
  <2> DEFINE g == [i \in 0 .. 0 |-> base]
  <2>1. g \in [0 .. 0 -> T] /\ Ok(0, g)
    OBVIOUS
  <2> QED
    BY <2>1
<1>2. ASSUME NEW m \in Nat, m \in S PROVE m + 1 \in S
  <2> SUFFICES ASSUME m + 1 <= n PROVE \E h \in [0 .. (m + 1) -> T] : Ok(m + 1, h)
    OBVIOUS
  <2>1. PICK g \in [0 .. m -> T] : Ok(m, g)
    BY <1>2
  <2> DEFINE h == [i \in 0 .. (m + 1) |-> IF i = m + 1 THEN st[<<m + 1, g[m]>>] ELSE g[i]]
  <2>2. h \in [0 .. (m + 1) -> T]
    <3>1. m + 1 \in 1 .. n /\ g[m] \in T
      OBVIOUS
    <3>2. st[<<m + 1, g[m]>>] \in T
      BY <3>1
    <3> QED
      BY <3>2
  <2>3. Ok(m + 1, h)
    <3>1. h[0] = base
      BY <2>1
    <3>2. ASSUME NEW i \in 1 .. (m + 1) PROVE h[i] = st[<<i, h[i - 1]>>]
      <4>1. CASE i = m + 1
        <5>1. i - 1 = m /\ m \in 0 .. (m + 1) /\ m # m + 1 /\ m + 1 \in 0 .. (m + 1)
          BY <4>1
        <5>2. h[m] = g[m] /\ h[m + 1] = st[<<m + 1, g[m]>>]
          BY <5>1
        <5> QED
          BY <4>1, <5>1, <5>2
      <4>2. CASE i # m + 1
        <5>1. i \in 1 .. m /\ i \in 0 .. (m + 1) /\ i - 1 \in 0 .. (m + 1) /\ i - 1 # m + 1
          BY <4>2
        <5>2. h[i] = g[i] /\ h[i - 1] = g[i - 1]
          BY <4>2, <5>1
        <5> QED
          BY <2>1, <5>1, <5>2
      <4> QED
        BY <4>1, <4>2
    <3> QED
      BY <3>1, <3>2
  <2> HIDE DEF h
  <2> QED
    BY <2>2, <2>3
<1> HIDE DEF Ok
<1>3. n \in S
  BY <1>1, <1>2, NatInductionOn
<1>4. PICK g \in [0 .. n -> T] : Ok(n, g)
  BY <1>3
<1>5. Iterates(g, st, base, n)
  BY <1>4 DEF Ok, Iterates
<1> QED
  BY <1>4, <1>5

\* What holds of the first value and is kept by every step holds of the last:
\* value i is in T[i].
LEMMA IterStays ==
  ASSUME NEW n \in Nat, NEW T, NEW g, g[0] \in T[0],
         \A i \in 1 .. n : g[i - 1] \in T[i - 1] => g[i] \in T[i]
  PROVE  \A i \in 0 .. n : g[i] \in T[i]
<1> DEFINE S == {m \in Nat : m <= n => g[m] \in T[m]}
<1>1. 0 \in S
  OBVIOUS
<1>2. ASSUME NEW m \in Nat, m \in S PROVE m + 1 \in S
  <2> SUFFICES ASSUME m + 1 <= n PROVE g[m + 1] \in T[m + 1]
    OBVIOUS
  <2>1. m + 1 \in 1 .. n /\ (m + 1) - 1 = m /\ m <= n
    OBVIOUS
  <2> QED
    BY <1>2, <2>1
<1>3. Nat \subseteq S
  BY <1>1, <1>2, NatInductionOn
<1> QED
  BY <1>3
=============================================================================
