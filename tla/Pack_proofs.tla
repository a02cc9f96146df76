---------------------------- MODULE Pack_proofs ----------------------------
(***************************************************************************)
(* Proofs about the encoder.  The theorems are at the end of each half;    *)
(* they hold for every program that satisfies the assumptions of Program   *)
(* and Pack, every value, every size of byte and word and every limit.     *)
(*                                                                         *)
(* The provers do not know the operator ^: what the proofs use of it, its  *)
(* two defining equations, is the hypothesis PowerLaw.                     *)
(***************************************************************************)
EXTENDS Pack, Stacks

PowerLaw == \A b \in Nat, n \in Nat : b ^ 0 = 1 /\ b ^ (n + 1) = b * b ^ n

(***************************************************************************)
(* Numbers.                                                                *)
(***************************************************************************)
\* A power of a positive number is positive.
LEMMA PowerPositive ==
  ASSUME PowerLaw, NEW b \in Nat \ {0}, NEW n \in Nat
  PROVE  b ^ n \in Nat \ {0}
<1> DEFINE S == {m \in Nat : b ^ m \in Nat \ {0}}
<1>1. 0 \in S
  BY DEF PowerLaw
<1>2. ASSUME NEW m \in Nat, m \in S PROVE m + 1 \in S
  <2>1. b ^ (m + 1) = b * b ^ m
    BY DEF PowerLaw
  <2>2. PICK x \in Nat \ {0} : x = b ^ m
    BY <1>2
  <2>3. b * x \in Nat \ {0}
    OBVIOUS
  <2> QED
    BY <2>1, <2>2, <2>3
<1> QED
  BY <1>1, <1>2, NatInductionOn

LEMMA BasePositive == ASSUME PowerLaw PROVE Base \in Nat /\ Base >= 2
<1>1. PICK n \in Nat : ByteBits = n + 1
  <2>1. ByteBits \in Nat /\ ByteBits # 0
    BY WireAssumption
  <2>2. ByteBits - 1 \in Nat /\ ByteBits = (ByteBits - 1) + 1
    BY <2>1
  <2> QED
    BY <2>2
<1>2. 2 ^ n \in Nat \ {0}
  BY PowerPositive
<1>3. 2 ^ (n + 1) = 2 * 2 ^ n
  BY DEF PowerLaw
<1> QED
  BY <1>1, <1>2, <1>3 DEF Base

\* Division and remainder of integers by a positive number.
LEMMA DivMod ==
  ASSUME NEW a \in Int, NEW b \in Nat \ {0}
  PROVE  a \div b \in Int /\ a % b \in 0 .. (b - 1)
  OBVIOUS

\* A sum runs through partial sums.
LEMMA TotalRuns ==
  ASSUME NEW s \in Seq(Int)
  PROVE  \E sum : /\ \A i \in 0 .. Len(s) : sum[i] \in Int
                  /\ sum[0] = 0
                  /\ \A i \in 1 .. Len(s) : sum[i] = sum[i - 1] + s[i]
                  /\ Total(s) = sum[Len(s)]
<1> DEFINE n == Len(s)
           Step(i, x) == x + s[i]
           st == [p \in (1 .. n) \X Int |-> Step(p[1], p[2])]
           Eq(g) == g = [i \in 0 .. n |-> IF i = 0 THEN 0 ELSE Step(i, g[i - 1])]
           f == CHOOSE g : Eq(g)
<1>1. n \in Nat
  OBVIOUS
<1>2. \A i \in 1 .. n : \A x \in Int : Step(i, x) \in Int
  OBVIOUS
<1>3. \E g : Eq(g)
  <2>1. \A i \in 1 .. n : \A x \in Int : st[<<i, x>>] = Step(i, x)
    OBVIOUS
  <2>2. \A i \in 1 .. n : \A x \in Int : st[<<i, x>>] \in Int
    BY <1>2, <2>1
  <2> HIDE DEF st, n, Step
  <2>3. PICK g : g \in [0 .. n -> Int] /\ Iterates(g, st, 0, n)
    <3>1. 0 \in Int /\ Steps(st, n, Int)
      BY <2>2 DEF Steps
    <3> QED
      BY <1>1, <3>1, IterExists
  <2>4. \A i \in 1 .. n : g[i - 1] \in Int /\ i # 0
    BY <1>1, <2>3
  <2>5. \A i \in 0 .. n : g[i] = IF i = 0 THEN 0 ELSE Step(i, g[i - 1])
    <3> TAKE i \in 0 .. n
    <3>1. i = 0 \/ i \in 1 .. n
      BY <1>1
    <3> QED
      BY <3>1, <2>1, <2>3, <2>4 DEF Iterates
  <2>6. Eq(g)
    BY <2>3, <2>5
  <2> QED
    BY <2>6
<1>4. Eq(f)
  BY <1>3
<1>5. Total(s) = f[n]
  BY DEF Total
<1> HIDE DEF f, st
<1>6. f[0] = 0 /\ \A i \in 1 .. n : f[i] = Step(i, f[i - 1])
  BY <1>1, <1>4
<1>7. \A i \in 0 .. n : f[i] \in [k \in 0 .. n |-> Int][i]
  <2> DEFINE T == [k \in 0 .. n |-> Int]
  <2>1. f[0] \in T[0]
    BY <1>1, <1>6
  <2>2. \A i \in 1 .. n : f[i - 1] \in T[i - 1] => f[i] \in T[i]
    <3> TAKE i \in 1 .. n
    <3>1. i \in 0 .. n /\ i - 1 \in 0 .. n
      BY <1>1
    <3> QED
      BY <3>1, <1>2, <1>6
  <2> HIDE DEF T, n, Step
  <2>3. \A i \in 0 .. n : f[i] \in T[i]
    BY <1>1, <2>1, <2>2, IterStays, Zenon
  <2> QED
    BY <2>3 DEF T
<1>8. \A i \in 0 .. n : f[i] \in Int
  BY <1>7
<1> QED
  BY <1>5, <1>6, <1>8

\* The sum of integers is an integer.
LEMMA TotalType ==
  ASSUME NEW s \in Seq(Int)
  PROVE  Total(s) \in Int
<1>1. Len(s) \in 0 .. Len(s)
  OBVIOUS
<1> QED
  BY <1>1, TotalRuns

\* What an integer is written as, and what bytes are read as.
LEMMA WriteUintType ==
  ASSUME PowerLaw, NEW w \in Nat, NEW be, NEW v \in Int
  PROVE  WriteUint(w, be, v) \in Seq(Byte) /\ Len(WriteUint(w, be, v)) = w
<1>1. Base \in Nat \ {0}
  BY BasePositive
<1>2. ASSUME NEW i \in 1 .. w
      PROVE  (v \div (Base ^ (IF be THEN w - i ELSE i - 1))) % Base \in Byte
  <2>1. (IF be THEN w - i ELSE i - 1) \in Nat
    OBVIOUS
  <2>2. Base ^ (IF be THEN w - i ELSE i - 1) \in Nat \ {0}
    BY <1>1, <2>1, PowerPositive
  <2>3. v \div (Base ^ (IF be THEN w - i ELSE i - 1)) \in Int
    BY <2>2, DivMod
  <2> QED
    BY <1>1, <2>3, DivMod DEF Byte
<1>3. WriteUint(w, be, v) \in [1 .. w -> Byte]
  BY <1>2 DEF WriteUint
<1> QED
  BY <1>3

LEMMA ReadUintType ==
  ASSUME PowerLaw, NEW raw \in Seq(Byte), NEW be
  PROVE  ReadUint(raw, be) \in Int
<1> DEFINE weight(i) == Base ^ (IF be THEN Len(raw) - i ELSE i - 1)
           s == [i \in DOMAIN raw |-> raw[i] * weight(i)]
<1>1. Base \in Nat \ {0} /\ Byte \subseteq Int
  BY BasePositive DEF Byte
<1>2. ASSUME NEW i \in 1 .. Len(raw) PROVE raw[i] * weight(i) \in Int
  <2>1. (IF be THEN Len(raw) - i ELSE i - 1) \in Nat
    OBVIOUS
  <2>2. weight(i) \in Nat
    BY <1>1, <2>1, PowerPositive
  <2>3. raw[i] \in Byte
    OBVIOUS
  <2>4. raw[i] \in Int
    BY <1>1, <2>3
  <2> HIDE DEF weight
  <2> QED
    BY <2>2, <2>4
<1>3. DOMAIN raw = 1 .. Len(raw) /\ Len(raw) \in Nat
  OBVIOUS
<1>4. s \in Seq(Int)
  BY <1>2, <1>3
<1> QED
  BY <1>4, TotalType DEF ReadUint

LEMMA ZerosType ==
  ASSUME PowerLaw, NEW n \in Nat
  PROVE  Zeros(n) \in Seq(Byte) /\ Len(Zeros(n)) = n
<1>1. 0 \in Byte
  BY BasePositive DEF Byte
<1>2. Zeros(n) \in [1 .. n -> Byte]
  BY <1>1 DEF Zeros
<1> QED
  BY <1>2

\* Overwriting keeps a buffer a buffer, of the same length.
LEMMA WriteAtType ==
  ASSUME NEW o \in Seq(Byte), NEW pos \in Nat, NEW raw \in Seq(Byte)
  PROVE  WriteAt(o, pos, raw) \in Seq(Byte) /\ Len(WriteAt(o, pos, raw)) = Len(o)
<1> DEFINE w == [i \in DOMAIN o |-> IF i \in (pos + 1) .. (pos + Len(raw)) THEN raw[i - pos] ELSE o[i]]
<1>1. DOMAIN o = 1 .. Len(o) /\ Len(o) \in Nat
  OBVIOUS
<1>2. ASSUME NEW i \in 1 .. Len(o), i \in (pos + 1) .. (pos + Len(raw)) PROVE raw[i - pos] \in Byte
  <2>1. i - pos \in 1 .. Len(raw)
    BY <1>2
  <2> QED
    BY <2>1
<1>3. \A i \in 1 .. Len(o) : o[i] \in Byte
  OBVIOUS
<1>4. w \in [1 .. Len(o) -> Byte]
  BY <1>1, <1>2, <1>3
<1>5. WriteAt(o, pos, raw) = w
  BY DEF WriteAt
<1> HIDE DEF w
<1> QED
  BY <1>1, <1>4, <1>5

LEMMA SliceType ==
  ASSUME NEW o \in Seq(Byte), NEW s \in Nat, NEW e \in Nat, e <= Len(o)
  PROVE  /\ Slice(o, s, e) \in Seq(Byte)
         /\ Len(Slice(o, s, e)) = IF s <= e THEN e - s ELSE 0
<1>1. \A i \in (s + 1) .. e : o[i] \in Byte
  OBVIOUS
<1>2. s + 1 \in Int /\ e \in Int
  OBVIOUS
<1>3. /\ SubSeq(o, s + 1, e) \in Seq(Byte)
      /\ Len(SubSeq(o, s + 1, e)) = IF s + 1 <= e THEN e - (s + 1) + 1 ELSE 0
  BY <1>1, <1>2, SubSeqProperties
<1> QED
  BY <1>3 DEF Slice

\* What wraps is an i64.
LEMMA WrapType ==
  ASSUME PowerLaw, NEW v \in Int
  PROVE  Wrap(v) \in I64
<1>1. PICK n \in Nat : WordBits = n + 1
  <2>1. WordBits \in Nat /\ WordBits # 0
    BY WireAssumption
  <2>2. WordBits - 1 \in Nat /\ WordBits = (WordBits - 1) + 1
    BY <2>1
  <2> QED
    BY <2>2
<1>2. PICK h \in Nat \ {0} : h = 2 ^ n
  BY PowerPositive
<1>3. 2 ^ WordBits = 2 * h
  BY <1>1, <1>2 DEF PowerLaw
<1>4. 2 ^ (WordBits - 1) = h /\ I64Max = h - 1
  <2>1. WordBits - 1 = n
    BY <1>1
  <2> QED
    BY <1>2, <2>1, WireAssumption
<1>5. PICK u \in 0 .. (2 * h - 1) : u = v % (2 * h)
  <2>1. 2 * h \in Nat \ {0}
    OBVIOUS
  <2> QED
    BY <2>1, DivMod
<1>6. Wrap(v) = IF u >= h THEN u - 2 * h ELSE u
  BY <1>3, <1>4, <1>5 DEF Wrap, SignExtend
<1> QED
  BY <1>4, <1>6 DEF I64

LEMMA BitOrType ==
  ASSUME PowerLaw, NEW a \in Int, NEW b \in Int
  PROVE  BitOr(a, b) \in Int
<1> DEFINE f(i) == (IF Bit(a, i - 1) + Bit(b, i - 1) > 0 THEN 1 ELSE 0) * 2 ^ (i - 1)
           s == [i \in 1 .. WordBits |-> f(i)]
<1>1. WordBits \in Nat
  BY WireAssumption
<1>2. ASSUME NEW i \in 1 .. WordBits PROVE f(i) \in Int
  <2>1. i - 1 \in Nat
    BY <1>1
  <2>2. 2 ^ (i - 1) \in Nat
    BY <2>1, PowerPositive
  <2>3. PICK x \in {0, 1} : x = IF Bit(a, i - 1) + Bit(b, i - 1) > 0 THEN 1 ELSE 0
    OBVIOUS
  <2> QED
    BY <2>2, <2>3
<1>3. s \in Seq(Int)
  BY <1>1, <1>2
<1>4. BitOr(a, b) = Total(s)
  BY DEF BitOr, BitWise
<1> QED
  BY <1>3, <1>4, TotalType

\* OR-ing a field into the bytes of a run.
LEMMA OrBitsType ==
  ASSUME PowerLaw, NEW raw \in Seq(Byte), NEW off \in Nat, NEW width \in Nat,
         off + width <= Len(raw) * ByteBits, NEW v \in Int
  PROVE  OrBits(raw, off, width, v) \in Seq(Byte) /\ Len(OrBits(raw, off, width, v)) = Len(raw)
<1>1. Len(raw) \in Nat /\ ByteBits \in Nat
  BY WireAssumption
<1>2. PICK n \in Nat : n = Len(raw) * ByteBits - off - width
  <2>1. Len(raw) * ByteBits \in Nat
    BY <1>1
  <2> QED
    BY <2>1
<1>3. PICK sh \in Nat \ {0} : sh = BitShift(raw, off, width)
  BY <1>2, PowerPositive DEF BitShift
<1>4. PICK m \in Nat \ {0} : m = 2 ^ width
  BY PowerPositive
<1>5. PICK u \in Int : u = ReadUint(raw, TRUE)
  BY ReadUintType
<1>6. PICK old \in Int : old = ReadBits(raw, off, width, FALSE)
  <2>1. u \div sh \in Int
    BY DivMod
  <2>2. (u \div sh) % m \in Int
    BY <2>1, DivMod
  <2> QED
    BY <1>3, <1>4, <1>5, <2>2 DEF ReadBits
<1>7. PICK new \in Int : new = BitOr(old, v % (2 ^ width))
  <2>1. v % m \in Int
    BY DivMod
  <2> QED
    BY <1>4, <2>1, BitOrType
<1>8. PICK x \in Int : x = u + (new - old) * sh
  OBVIOUS
<1> DEFINE bigEndian == TRUE
<1>9. OrBits(raw, off, width, v) = WriteUint(Len(raw), bigEndian, x)
  BY <1>3, <1>5, <1>6, <1>7, <1>8 DEF OrBits
<1> HIDE DEF bigEndian
<1> QED
  BY <1>1, <1>9, WriteUintType

LEMMA IpChecksumType ==
  ASSUME PowerLaw, NEW raw \in Seq(Byte)
  PROVE  IpChecksum(raw) \in Int
<1> DEFINE s == [i \in DOMAIN raw |-> raw[i] * (IF i % 2 = 1 THEN Base ELSE 1)]
<1>1. Base \in Nat /\ Base >= 2 /\ Byte \subseteq Int
  BY BasePositive DEF Byte
<1>2. ASSUME NEW i \in 1 .. Len(raw) PROVE raw[i] * (IF i % 2 = 1 THEN Base ELSE 1) \in Int
  <2>1. raw[i] \in Byte
    OBVIOUS
  <2>2. (IF i % 2 = 1 THEN Base ELSE 1) \in Int
    BY <1>1
  <2>3. PICK x \in Int, y \in Int : x = raw[i] /\ y = IF i % 2 = 1 THEN Base ELSE 1
    BY <1>1, <2>1, <2>2
  <2>4. x * y \in Int
    OBVIOUS
  <2> QED
    BY <2>3, <2>4
<1>3. DOMAIN raw = 1 .. Len(raw) /\ Len(raw) \in Nat
  OBVIOUS
<1>4. s \in Seq(Int)
  BY <1>2, <1>3
<1>5. PICK sum \in Int : sum = Total(s)
  BY <1>4, TotalType
<1>6. WordMax \in Nat \ {0}
  <2>1. Base * Base \in Nat /\ Base * Base > 1
    BY <1>1
  <2> QED
    BY <2>1 DEF WordMax
<1>7. EndAround(sum) \in Int
  <2>1. (sum - 1) % WordMax \in 0 .. (WordMax - 1)
    BY <1>6, DivMod
  <2> QED
    BY <1>6, <2>1 DEF EndAround
<1>8. IpChecksum(raw) = WordMax - EndAround(sum)
  BY <1>5 DEF IpChecksum
<1> QED
  BY <1>6, <1>7, <1>8

(***************************************************************************)
(* Sequences put together.                                                 *)
(***************************************************************************)
\* ends[i] is where part i ends in the whole.
Ends(ss, ends) ==
  \A i \in 1 .. Len(ss) : ends[i] = (IF i = 1 THEN 0 ELSE ends[i - 1]) + Len(ss[i])

\* A concatenation runs through the concatenations of the first parts.
LEMMA FlattenRuns ==
  ASSUME NEW S, NEW ss \in Seq(Seq(S)), ss # <<>>
  PROVE  \E f : /\ \A i \in 1 .. Len(ss) : f[i] = IF i = 1 THEN ss[i] ELSE f[i - 1] \o ss[i]
                /\ FlattenSeq(ss) = f[Len(ss)]
<1> DEFINE n == Len(ss)
           Eq(g) == g = [i \in 1 .. n |-> IF i = 1 THEN ss[i] ELSE g[i - 1] \o ss[i]]
           f == CHOOSE g : Eq(g)
           m == n - 1
           st == [p \in (1 .. m) \X Seq(S) |-> p[2] \o ss[p[1] + 1]]
<1>0. n \in Nat /\ n # 0
  OBVIOUS
<1>1. m \in Nat /\ n = m + 1
  BY <1>0
<1>2. \A i \in 1 .. n : ss[i] \in Seq(S)
  OBVIOUS
<1>3. PICK g : g \in [0 .. m -> Seq(S)] /\ Iterates(g, st, ss[1], m)
  <2>1. ASSUME NEW i \in 1 .. m, NEW x \in Seq(S) PROVE st[<<i, x>>] \in Seq(S)
    <3>1. ss[i + 1] \in Seq(S)
      BY <1>1, <1>2
    <3> QED
      BY <3>1
  <2>2. Steps(st, m, Seq(S))
    BY <2>1 DEF Steps
  <2>3. ss[1] \in Seq(S)
    BY <1>1, <1>2
  <2> HIDE DEF st, m, n
  <2> QED
    BY <1>1, <2>2, <2>3, IterExists
<1> DEFINE h == [i \in 1 .. n |-> g[i - 1]]
<1>4. ASSUME NEW i \in 1 .. n PROVE h[i] = IF i = 1 THEN ss[i] ELSE h[i - 1] \o ss[i]
  <2>1. CASE i = 1
    BY <1>1, <1>3, <2>1 DEF Iterates
  <2>2. CASE i # 1
    <3>1. i - 1 \in 1 .. m /\ (i - 1) + 1 = i /\ i - 1 \in 1 .. n /\ (i - 1) - 1 \in 0 .. m
      BY <1>1, <2>2
    <3>2. g[i - 1] = st[<<i - 1, g[(i - 1) - 1]>>]
      BY <1>3, <3>1 DEF Iterates
    <3>3. g[(i - 1) - 1] \in Seq(S)
      BY <1>3, <3>1
    <3>4. h[i] = g[i - 1] /\ h[i - 1] = g[(i - 1) - 1]
      BY <3>1
    <3>5. st[<<i - 1, g[(i - 1) - 1]>>] = g[(i - 1) - 1] \o ss[i]
      BY <3>1, <3>3
    <3> QED
      BY <2>2, <3>2, <3>4, <3>5
  <2> QED
    BY <2>1, <2>2
<1>5. Eq(h)
  BY <1>4
<1> HIDE DEF h, st
<1>6. Eq(f)
  BY <1>5
<1>7. FlattenSeq(ss) = f[n]
  BY <1>0 DEF FlattenSeq
<1> HIDE DEF f
<1>8. \A i \in 1 .. n : f[i] = IF i = 1 THEN ss[i] ELSE f[i - 1] \o ss[i]
  BY <1>6
<1> QED
  BY <1>7, <1>8

LEMMA FlattenType ==
  ASSUME NEW S, NEW ss \in Seq(Seq(S))
  PROVE  /\ FlattenSeq(ss) \in Seq(S)
         /\ \A ends : Ends(ss, ends) /\ ss # <<>> => Len(FlattenSeq(ss)) = ends[Len(ss)]
<1> DEFINE n == Len(ss)
<1>0. n \in Nat
  OBVIOUS
<1>1. CASE n = 0
  <2>1. ss = <<>>
    BY <1>1
  <2>2. FlattenSeq(ss) = ss
    BY <1>1 DEF FlattenSeq
  <2>3. <<>> \in Seq(S)
    OBVIOUS
  <2> QED
    BY <2>1, <2>2, <2>3
<1>2. CASE n # 0
  <2> DEFINE m == n - 1
  <2>1. m \in Nat /\ n = m + 1
    BY <1>0, <1>2
  <2>2. \A i \in 1 .. n : ss[i] \in Seq(S)
    OBVIOUS
  <2>3. ss # <<>>
    BY <1>2
  <2>8. PICK f : /\ \A i \in 1 .. n : f[i] = IF i = 1 THEN ss[i] ELSE f[i - 1] \o ss[i]
                 /\ FlattenSeq(ss) = f[n]
    BY <2>3, FlattenRuns
  <2> DEFINE k == [i \in 0 .. m |-> f[i + 1]]
             T == [i \in 0 .. m |-> {x \in Seq(S) : \A ends : Ends(ss, ends) => Len(x) = ends[i + 1]}]
  <2>9. k[0] \in T[0]
    <3>1. k[0] = ss[1] /\ ss[1] \in Seq(S)
      BY <2>1, <2>2, <2>8
    <3>2. \A ends : Ends(ss, ends) => Len(ss[1]) = ends[1]
      <4>1. 1 \in 1 .. Len(ss) /\ Len(ss[1]) \in Nat
        BY <2>1, <3>1
      <4>2. \A ends : Ends(ss, ends) => ends[1] = 0 + Len(ss[1])
        BY <4>1 DEF Ends
      <4> QED
        BY <4>1, <4>2
    <3> QED
      BY <2>1, <3>1, <3>2
  <2>10. ASSUME NEW i \in 1 .. m, k[i - 1] \in T[i - 1] PROVE k[i] \in T[i]
    <3>1. i \in 0 .. m /\ i - 1 \in 0 .. m /\ (i - 1) + 1 = i /\ i + 1 \in 1 .. n /\ i + 1 # 1 /\ (i + 1) - 1 = i
      BY <2>1
    <3>2. k[i] = f[i] \o ss[i + 1] /\ k[i - 1] = f[i]
      BY <2>8, <3>1
    <3>3. f[i] \in Seq(S) /\ \A ends : Ends(ss, ends) => Len(f[i]) = ends[i]
      BY <2>10, <3>1, <3>2
    <3>4. ss[i + 1] \in Seq(S)
      BY <2>2, <3>1
    <3>5. k[i] \in Seq(S) /\ Len(k[i]) = Len(f[i]) + Len(ss[i + 1])
      <4>1. f[i] \o ss[i + 1] \in Seq(S) /\ Len(f[i] \o ss[i + 1]) = Len(f[i]) + Len(ss[i + 1])
        BY <3>3, <3>4, ConcatProperties
      <4> QED
        BY <3>2, <4>1
    <3>6. \A ends : Ends(ss, ends) => ends[i + 1] = ends[i] + Len(ss[i + 1])
      BY <3>1 DEF Ends
    <3>7. \A ends : Ends(ss, ends) => Len(k[i]) = ends[i + 1]
      BY <3>3, <3>5, <3>6
    <3> HIDE DEF k
    <3> QED
      BY <3>1, <3>5, <3>7
  <2> HIDE DEF k, T
  <2>11. \A i \in 0 .. m : k[i] \in T[i]
    <3> HIDE DEF m
    <3> QED
      BY <2>1, <2>9, <2>10, IterStays
  <2>12. k[m] = f[n] /\ k[m] \in T[m]
    BY <2>1, <2>11 DEF k
  <2>13. f[n] \in Seq(S) /\ \A ends : Ends(ss, ends) => Len(f[n]) = ends[n]
    BY <2>1, <2>12 DEF T
  <2> QED
    BY <2>8, <2>13
<1> QED
  BY <1>1, <1>2

(***************************************************************************)
(* Values.                                                                 *)
(***************************************************************************)
\* A set of values that holds what its members are made of.
WellTyped(V) ==
  \A v \in V :
    /\ v[1] = "int" => v[2] \in Int
    /\ v[1] = "bool" => v[2] \in BOOLEAN
    /\ v[1] \in {"bytes", "str"} => v[2] \in Seq(Byte)
    /\ v[1] = "list" => v[2] \in Seq(V)
    /\ v[1] = "map" => \A k \in DOMAIN v[2] : v[2][k] \in V

\* What Python can hand to pack: integers, booleans, bytes, text, lists and
\* mappings of such values; any other object is of none of these shapes.
Val(v) == \E V : WellTyped(V) /\ v \in V
Vals(s) == \A v \in s : Val(v)
Mapping(m) == \A k \in DOMAIN m : Val(m[k])
Listing(s) == Stack(s) /\ \A i \in DOMAIN s : Val(s[i])

LEMMA ValParts ==
  ASSUME NEW v, Val(v)
  PROVE  /\ v[1] = "int" => v[2] \in Int
         /\ v[1] = "bool" => v[2] \in BOOLEAN
         /\ v[1] \in {"bytes", "str"} => v[2] \in Seq(Byte)
         /\ v[1] = "list" => Listing(v[2])
         /\ v[1] = "map" => Mapping(v[2])
<1>1. PICK V : WellTyped(V) /\ v \in V
  BY DEF Val
<1>2. \A x \in V : Val(x)
  BY <1>1 DEF Val
<1>3. v[1] = "list" => Listing(v[2])
  <2> SUFFICES ASSUME v[1] = "list" PROVE Listing(v[2])
    OBVIOUS
  <2>1. v[2] \in Seq(V)
    BY <1>1 DEF WellTyped
  <2>2. \A i \in DOMAIN v[2] : v[2][i] \in V
    BY <2>1
  <2>3. Stack(v[2])
    BY <2>1, IsStack
  <2> QED
    BY <1>2, <2>2, <2>3 DEF Listing
<1>4. v[1] = "map" => Mapping(v[2])
  BY <1>1, <1>2 DEF WellTyped, Mapping
<1> QED
  BY <1>1, <1>3, <1>4 DEF WellTyped

LEMMA GivenVals ==
  ASSUME NEW m, Mapping(m), NEW key
  PROVE  Vals(Given(m, key))
  BY DEF Mapping, Vals, Given

LEMMA AsIntType ==
  ASSUME NEW v, Val(v), IsInt(v)
  PROVE  AsInt(v) \in Int
<1>1. v[1] \in {"int", "bool"}
  BY DEF IsInt
<1>2. v[1] = "int" => v[2] \in Int
  BY ValParts
<1> QED
  BY <1>1, <1>2 DEF AsInt

(***************************************************************************)
(* What a run of fixed items writes.                                       *)
(***************************************************************************)
LEMMA PackFaultKind ==
  ASSUME NEW item, NEW in
  PROVE  /\ PackFault(item, in) \in PackKinds
         /\ PackFault(item, in) = "Ok" =>
              /\ item.kind = "Int" /\ Supplied(item) => \A v \in in : IsInt(v)
              /\ item.kind = "Raw" /\ Supplied(item) =>
                   \A v \in in : v[1] = "bytes" /\ Len(v[2]) = item.len
<1>1. PackFault(item, in) \in PackKinds
  BY DEF PackFault, PackKinds
<1>2. ASSUME item.kind = "Int", Supplied(item), NEW v \in in, ~IsInt(v) PROVE PackFault(item, in) # "Ok"
  BY <1>2 DEF PackFault
<1>3. ASSUME item.kind = "Raw", Supplied(item), NEW v \in in, v[1] # "bytes" PROVE PackFault(item, in) # "Ok"
  BY <1>3 DEF PackFault
<1>4. ASSUME item.kind = "Raw", Supplied(item), NEW v \in in, v[1] = "bytes", Len(v[2]) # item.len
      PROVE  PackFault(item, in) # "Ok"
  BY <1>4 DEF PackFault
<1> QED
  BY <1>1, <1>2, <1>3, <1>4

LEMMA ItemNumberType ==
  ASSUME NEW item, ItemOk(item), item.kind = "Int", ~item.derived, NEW in, Vals(in),
         PackFault(item, in) = "Ok"
  PROVE  ItemNumber(item, in) \in Int
<1>1. CASE item.expected # {}
  <2>1. (CHOOSE x \in item.expected : TRUE) \in item.expected
    BY <1>1
  <2>2. (CHOOSE x \in item.expected : TRUE) \in Int
    BY <2>1 DEF ItemOk
  <2> QED
    BY <1>1, <2>2 DEF ItemNumber
<1>2. CASE item.expected = {} /\ in # {}
  <2>1. PICK v \in in : v = CHOOSE x \in in : TRUE
    BY <1>2
  <2>2. IsInt(v)
    BY <1>2, PackFaultKind DEF Supplied
  <2>3. AsInt(v) \in Int
    BY <2>2, AsIntType DEF Vals
  <2> QED
    BY <1>2, <2>1, <2>3 DEF ItemNumber
<1>3. CASE item.expected = {} /\ in = {}
  BY <1>3 DEF ItemNumber
<1> QED
  BY <1>1, <1>2, <1>3

LEMMA PackItemType ==
  ASSUME PowerLaw, NEW item, ItemOk(item), ItemWidth(item) \in Nat, NEW in, Vals(in),
         PackFault(item, in) = "Ok"
  PROVE  PackItem(item, in) \in Seq(Byte) /\ Len(PackItem(item, in)) = ItemWidth(item)
<1>1. CASE item.kind = "Int"
  <2>1. item.prim.w \in Nat /\ ItemWidth(item) = item.prim.w
    BY <1>1 DEF ItemWidth
  <2>2. CASE item.derived
    BY <1>1, <2>1, <2>2, ZerosType DEF PackItem
  <2>3. CASE ~item.derived
    <3>1. ItemNumber(item, in) \in Int
      BY <1>1, <2>3, ItemNumberType
    <3>2. PackItem(item, in) = WriteUint(item.prim.w, item.be, ItemNumber(item, in))
      BY <1>1, <2>3 DEF PackItem
    <3> QED
      BY <2>1, <3>1, <3>2, WriteUintType
  <2> QED
    BY <2>2, <2>3
<1>2. CASE item.kind = "Bool"
  <2>1. ItemWidth(item) = 1
    BY <1>2 DEF ItemWidth, ItemOk
  <2>2. PackItem(item, in) \in {<<1>>, <<0>>}
    BY <1>2 DEF PackItem
  <2>3. 0 \in Byte /\ 1 \in Byte
    BY BasePositive DEF Byte
  <2>4. \A b \in Byte : <<b>> \in Seq(Byte) /\ Len(<<b>>) = 1
    OBVIOUS
  <2> QED
    BY <2>1, <2>2, <2>3, <2>4
<1>3. CASE item.kind = "Raw"
  <2>1. item.len \in Nat /\ ItemWidth(item) = item.len
    BY <1>3 DEF ItemWidth
  <2>2. CASE item.expected # {}
    <3>1. PICK x \in item.expected : x = CHOOSE y \in item.expected : TRUE
      BY <2>2
    <3>2. x \in Seq(Byte) /\ Len(x) = item.len
      BY <1>3 DEF ItemOk
    <3>3. PackItem(item, in) = x
      BY <1>3, <2>2, <3>1 DEF PackItem
    <3> QED
      BY <2>1, <3>2, <3>3
  <2>3. CASE item.expected = {} /\ in # {}
    <3>1. PICK v \in in : v = CHOOSE y \in in : TRUE
      BY <2>3
    <3>2. v[1] = "bytes" /\ Len(v[2]) = item.len
      BY <1>3, <2>3, PackFaultKind DEF Supplied
    <3>3. v[2] \in Seq(Byte)
      BY <3>2, ValParts DEF Vals
    <3>4. PackItem(item, in) = v[2]
      BY <1>3, <2>3, <3>1 DEF PackItem
    <3> QED
      BY <2>1, <3>2, <3>3, <3>4
  <2>4. CASE item.expected = {} /\ in = {}
    BY <1>3, <2>1, <2>4, ZerosType DEF PackItem
  <2> QED
    BY <2>2, <2>3, <2>4
<1> QED
  BY <1>1, <1>2, <1>3 DEF ItemOk

\* The parts of a run of fixed items: item i ends where the layout says.
PartsOf(op, in) == [i \in DOMAIN op.items |-> PackItem(op.items[i], in[i])]
EndsOf(op) == [i \in 1 .. Len(op.items) |-> op.items[i].off + ItemWidth(op.items[i])]

Laid(op, ss) ==
  /\ Len(op.items) \in Nat /\ DOMAIN op.items = 1 .. Len(op.items)
  /\ ss \in Seq(Seq(Byte)) /\ Len(ss) = Len(op.items) /\ Ends(ss, EndsOf(op))
  /\ \A i \in 1 .. Len(op.items) :
       /\ ItemOk(op.items[i]) /\ op.items[i].off \in Nat /\ ItemWidth(op.items[i]) \in Nat
       /\ op.items[i].off = (IF i = 1 THEN 0 ELSE op.items[i - 1].off + ItemWidth(op.items[i - 1]))
       /\ Len(ss[i]) = ItemWidth(op.items[i])

LEMMA RunParts ==
  ASSUME PowerLaw, NEW op, op.op = "Fixed", OpOk(op), EncodesOk(op), NEW in,
         \A i \in DOMAIN op.items : Vals(in[i]) /\ PackFault(op.items[i], in[i]) = "Ok"
  PROVE  Laid(op, PartsOf(op, in))
<1> DEFINE items == op.items
           n == Len(items)
           ss == [i \in DOMAIN items |-> PackItem(items[i], in[i])]
           ends == [i \in 1 .. n |-> items[i].off + ItemWidth(items[i])]
<1>1. items \in Seq(Range(items)) /\ n \in Nat /\ DOMAIN items = 1 .. n
  BY DEF EncodesOk
<1>2. ASSUME NEW i \in 1 .. n
      PROVE  /\ ItemOk(items[i]) /\ items[i].off \in Nat /\ ItemWidth(items[i]) \in Nat
             /\ items[i].off = (IF i = 1 THEN 0 ELSE items[i - 1].off + ItemWidth(items[i - 1]))
  BY <1>1 DEF OpOk, FixedOk, EncodesOk
<1>3. ASSUME NEW i \in 1 .. n
      PROVE  ss[i] \in Seq(Byte) /\ Len(ss[i]) = ItemWidth(items[i])
  <2>1. PackItem(items[i], in[i]) \in Seq(Byte) /\ Len(PackItem(items[i], in[i])) = ItemWidth(items[i])
    BY <1>1, <1>2, PackItemType
  <2> QED
    BY <1>1, <2>1
<1>4. ss \in Seq(Seq(Byte)) /\ Len(ss) = n
  <2>1. ss = [i \in 1 .. n |-> ss[i]]
    BY <1>1
  <2> HIDE DEF ss, n, items
  <2>2. ss \in [1 .. n -> Seq(Byte)]
    BY <1>3, <2>1
  <2> QED
    BY <1>1, <2>2
<1>5. Ends(ss, ends)
  <2> SUFFICES ASSUME NEW i \in 1 .. n
               PROVE  ends[i] = (IF i = 1 THEN 0 ELSE ends[i - 1]) + Len(ss[i])
    BY <1>4 DEF Ends
  <2>1. Len(ss[i]) = ItemWidth(items[i])
    BY <1>3
  <2>2. i # 1 => i - 1 \in 1 .. n
    BY <1>1
  <2> HIDE DEF ss, items
  <2> QED
    BY <1>2, <2>1, <2>2
<1>6. PartsOf(op, in) = ss /\ EndsOf(op) = ends
  BY DEF PartsOf, EndsOf
<1> HIDE DEF ss, ends
<1> QED
  BY <1>1, <1>2, <1>3, <1>4, <1>5, <1>6 DEF Laid

LEMMA RunBytes ==
  ASSUME PowerLaw, NEW op, op.op = "Fixed", OpOk(op), EncodesOk(op), NEW in,
         \A i \in DOMAIN op.items : Vals(in[i]) /\ PackFault(op.items[i], in[i]) = "Ok",
         NEW bytes, bytes = FlattenSeq([i \in DOMAIN op.items |-> PackItem(op.items[i], in[i])])
  PROVE  /\ bytes \in Seq(Byte)
         /\ \A i \in DOMAIN op.items : op.items[i].off + ItemWidth(op.items[i]) <= Len(bytes)
<1> DEFINE items == op.items
           n == Len(items)
           ss == [i \in DOMAIN items |-> PackItem(items[i], in[i])]
           ends == [i \in 1 .. n |-> items[i].off + ItemWidth(items[i])]
<1>0. PartsOf(op, in) = ss /\ EndsOf(op) = ends
  BY DEF PartsOf, EndsOf
<1>3. Laid(op, PartsOf(op, in))
  BY RunParts
<1> HIDE DEF ss, ends
<1>1. n \in Nat /\ DOMAIN items = 1 .. n
  BY <1>3 DEF Laid
<1>2. ASSUME NEW i \in 1 .. n
      PROVE  /\ items[i].off \in Nat /\ ItemWidth(items[i]) \in Nat
             /\ items[i].off = (IF i = 1 THEN 0 ELSE items[i - 1].off + ItemWidth(items[i - 1]))
  BY <1>3 DEF Laid
<1>4. ss \in Seq(Seq(Byte)) /\ Len(ss) = n
  BY <1>0, <1>3 DEF Laid
<1>5. Ends(ss, ends)
  BY <1>0, <1>3 DEF Laid
<1> USE DEF ends
<1> HIDE DEF ss
<1>6. bytes = FlattenSeq(ss)
  BY DEF ss
<1>7. bytes \in Seq(Byte) /\ (ss # <<>> => Len(bytes) = ends[Len(ss)])
  BY <1>4, <1>5, <1>6, FlattenType
<1>8. \A i \in 0 .. (n - 1) : ends[n - i] <= ends[n]
  <2> DEFINE S == {k \in Nat : k <= n - 1 => ends[n - k] <= ends[n]}
  <2>0. ASSUME NEW j \in 1 .. n
        PROVE  ends[j] \in Nat /\ (j # 1 => ends[j - 1] <= ends[j])
    <3>1. j # 1 => j - 1 \in 1 .. n
      BY <1>1
    <3> HIDE DEF items, n
    <3> QED
      BY <1>2, <3>1
  <2> HIDE DEF ends, n
  <2>1. 0 \in S
    BY <1>1, <2>0
  <2>2. ASSUME NEW k \in Nat, k \in S PROVE k + 1 \in S
    <3> SUFFICES ASSUME k + 1 <= n - 1 PROVE ends[n - (k + 1)] <= ends[n]
      OBVIOUS
    <3>1. n - k \in 1 .. n /\ n - k # 1 /\ (n - k) - 1 \in 1 .. n /\ (n - k) - 1 = n - (k + 1) /\ n \in 1 .. n
      BY <1>1
    <3>2. ends[n - k] <= ends[n]
      BY <1>1, <2>2
    <3>3. ends[n - (k + 1)] <= ends[n - k]
      BY <2>0, <3>1
    <3> QED
      BY <2>0, <3>1, <3>2, <3>3
  <2>3. Nat \subseteq S
    BY <2>1, <2>2, NatInductionOn
  <2> QED
    BY <1>1, <2>3
<1>9. ASSUME NEW i \in 1 .. n PROVE ends[i] <= Len(bytes)
  <2>1. n - i \in 0 .. (n - 1) /\ n - (n - i) = i
    BY <1>1
  <2>2. ends[i] <= ends[n]
    BY <1>8, <2>1
  <2>3. ss # <<>>
    BY <1>1, <1>4
  <2> QED
    BY <1>4, <1>7, <2>2, <2>3
<1> QED
  BY <1>1, <1>7, <1>9

(***************************************************************************)
(* What a run of bits writes.                                              *)
(***************************************************************************)
LEMMA BitFaultKind ==
  ASSUME NEW item, NEW in
  PROVE  /\ BitFault(item, in) \in PackKinds
         /\ BitFault(item, in) = "Ok" /\ ~item.derived => \A v \in in : IsInt(v)
<1>1. BitFault(item, in) \in PackKinds
  BY DEF BitFault, PackKinds
<1>2. ASSUME ~item.derived, NEW v \in in, ~IsInt(v) PROVE BitFault(item, in) # "Ok"
  BY <1>2 DEF BitFault
<1> QED
  BY <1>1, <1>2

LEMMA BitNumberType ==
  ASSUME NEW item, NEW in, Vals(in), BitFault(item, in) = "Ok"
  PROVE  BitNumber(item, in) \in Int
<1>1. CASE in = {} \/ item.derived
  BY <1>1 DEF BitNumber
<1>2. CASE in # {} /\ ~item.derived
  <2>1. PICK v \in in : v = CHOOSE x \in in : TRUE
    BY <1>2
  <2>2. AsInt(v) \in Int
    BY <1>2, BitFaultKind, AsIntType DEF Vals
  <2> QED
    BY <1>2, <2>1, <2>2 DEF BitNumber
<1> QED
  BY <1>1, <1>2

\* A run of bits runs through the runs of the first items.
BitRuns(f, nbytes, items, numbers) ==
  /\ f[0] = Zeros(nbytes)
  /\ \A i \in 1 .. Len(items) : f[i] = OrBits(f[i - 1], items[i].off, items[i].width, numbers[i])
  /\ PackBits(nbytes, items, numbers) = f[Len(items)]

LEMMA PackBitsRuns ==
  ASSUME PowerLaw, NEW nbytes \in Nat, NEW items, Stack(items),
         \A i \in DOMAIN items : BitItemOk(items[i], nbytes),
         NEW numbers, \A i \in DOMAIN items : numbers[i] \in Int
  PROVE  \E f : BitRuns(f, nbytes, items, numbers)
<1> DEFINE n == Len(items)
           Runs == {x \in Seq(Byte) : Len(x) = nbytes}
           Step(i, x) == OrBits(x, items[i].off, items[i].width, numbers[i])
           st == [p \in (1 .. n) \X Runs |-> Step(p[1], p[2])]
           Eq(g) == g = [i \in 0 .. n |-> IF i = 0 THEN Zeros(nbytes) ELSE Step(i, g[i - 1])]
           f == CHOOSE g : Eq(g)
<1>1. n \in Nat /\ DOMAIN items = 1 .. n
  BY DEF Stack
<1>2. ASSUME NEW i \in 1 .. n, NEW x \in Runs PROVE Step(i, x) \in Runs
  <2>1. BitItemOk(items[i], nbytes) /\ numbers[i] \in Int
    BY <1>1
  <2>2. x \in Seq(Byte) /\ Len(x) = nbytes
    OBVIOUS
  <2>3. Step(i, x) \in Seq(Byte) /\ Len(Step(i, x)) = nbytes
    BY <2>1, <2>2, OrBitsType DEF BitItemOk
  <2> QED
    BY <2>3
<1>3. Zeros(nbytes) \in Runs
  BY ZerosType
<1> HIDE DEF Step, Runs
<1>4. \A i \in 1 .. n : \A x \in Runs : st[<<i, x>>] = Step(i, x)
  OBVIOUS
<1>5. PICK g : g \in [0 .. n -> Runs] /\ Iterates(g, st, Zeros(nbytes), n)
  <2>1. Steps(st, n, Runs)
    BY <1>2, <1>4 DEF Steps
  <2> HIDE DEF st, n
  <2> QED
    BY <1>1, <1>3, <2>1, IterExists
<1>6. Eq(g)
  <2>1. \A i \in 0 .. n : g[i] = IF i = 0 THEN Zeros(nbytes) ELSE Step(i, g[i - 1])
    <3> TAKE i \in 0 .. n
    <3>1. i = 0 \/ (i # 0 /\ i \in 1 .. n /\ i - 1 \in 0 .. n)
      BY <1>1
    <3> HIDE DEF st
    <3> QED
      BY <1>4, <1>5, <3>1 DEF Iterates
  <2> QED
    BY <1>5, <2>1
<1>7. Eq(f)
  BY <1>6
<1>8. PackBits(nbytes, items, numbers) = f[n]
  BY DEF PackBits, Step
<1> HIDE DEF f, st
<1>9. f[0] = Zeros(nbytes) /\ \A i \in 1 .. n : f[i] = Step(i, f[i - 1])
  BY <1>1, <1>7
<1>10. BitRuns(f, nbytes, items, numbers)
  BY <1>8, <1>9 DEF Step, BitRuns
<1> QED
  BY <1>10

LEMMA PackBitsType ==
  ASSUME PowerLaw, NEW nbytes \in Nat, NEW items, Stack(items),
         \A i \in DOMAIN items : BitItemOk(items[i], nbytes),
         NEW numbers, \A i \in DOMAIN items : numbers[i] \in Int
  PROVE  PackBits(nbytes, items, numbers) \in Seq(Byte) /\ Len(PackBits(nbytes, items, numbers)) = nbytes
<1> DEFINE n == Len(items)
           Runs == {x \in Seq(Byte) : Len(x) = nbytes}
           Step(i, x) == OrBits(x, items[i].off, items[i].width, numbers[i])
<1>1. n \in Nat /\ DOMAIN items = 1 .. n
  BY DEF Stack
<1>2. ASSUME NEW i \in 1 .. n, NEW x \in Runs PROVE Step(i, x) \in Runs
  <2>1. BitItemOk(items[i], nbytes) /\ numbers[i] \in Int
    BY <1>1
  <2>2. x \in Seq(Byte) /\ Len(x) = nbytes
    OBVIOUS
  <2>3. Step(i, x) \in Seq(Byte) /\ Len(Step(i, x)) = nbytes
    BY <2>1, <2>2, OrBitsType DEF BitItemOk
  <2> QED
    BY <2>3
<1>3. Zeros(nbytes) \in Runs
  BY ZerosType
<1>7. PICK f : BitRuns(f, nbytes, items, numbers)
  BY PackBitsRuns
<1>8. PackBits(nbytes, items, numbers) = f[n]
  BY <1>7 DEF BitRuns
<1>9. f[0] = Zeros(nbytes) /\ \A i \in 1 .. n : f[i] = Step(i, f[i - 1])
  BY <1>7 DEF BitRuns
<1> HIDE DEF Step, Runs
<1>10. f[n] \in Runs
  <2> DEFINE T == [k \in 0 .. n |-> Runs]
  <2>1. f[0] \in T[0]
    BY <1>1, <1>3, <1>9
  <2>2. \A i \in 1 .. n : f[i - 1] \in T[i - 1] => f[i] \in T[i]
    <3> TAKE i \in 1 .. n
    <3>1. i \in 0 .. n /\ i - 1 \in 0 .. n
      BY <1>1
    <3> QED
      BY <3>1, <1>2, <1>9
  <2> HIDE DEF T, n
  <2>3. \A i \in 0 .. n : f[i] \in T[i]
    BY <1>1, <2>1, <2>2, IterStays
  <2> QED
    BY <1>1, <2>3 DEF T
<1> QED
  BY <1>8, <1>10 DEF Runs

(***************************************************************************)
(* Frames of an encoder that has written n bytes.                          *)
(***************************************************************************)
SlotOk(slot, n) ==
  /\ slot.kind \in {"Int", "Bits"} /\ slot.pos \in Nat
  /\ slot.kind = "Int" => slot.prim.w \in Nat
  /\ slot.kind = "Bits" => slot.off \in Nat /\ slot.width \in Nat
  /\ SlotEnd(slot) <= n

DigestAddrs == {a \in Addr : Code[a].op = "Digest"}

FrameOk(f, n) ==
  /\ f = [regs |-> f.regs, known |-> f.known, res |-> f.res, spans |-> f.spans, digests |-> f.digests]
  /\ f.regs \in [Regs -> I64]
  /\ f.known \subseteq Regs
  /\ f.res = [r \in Regs |-> f.res[r]]
  /\ \A r \in Regs : \A v \in f.res[r] : SlotOk(v.slot, n)
  /\ f.spans \in [Spans -> Nat \X Nat]
  /\ \A s \in Spans : f.spans[s][2] <= n
  /\ f.digests \in Seq([at : DigestAddrs, pos : Nat])

FramesOk(fs, n) == Stack(fs) /\ \A i \in DOMAIN fs : FrameOk(fs[i], n)

\* A whole number of bytes holds the bits it was rounded up from.
LEMMA RoundUp ==
  ASSUME NEW x \in Nat
  PROVE  /\ (x + ByteBits - 1) \div ByteBits \in Nat
         /\ x <= ((x + ByteBits - 1) \div ByteBits) * ByteBits
         /\ \A n \in Nat : x <= n * ByteBits => (x + ByteBits - 1) \div ByteBits <= n
<1>1. PICK b \in Nat \ {0} : b = ByteBits
  BY WireAssumption
<1>2. PICK y \in Nat : y = x + b - 1
  OBVIOUS
<1>3. PICK q \in Int : q = y \div b
  OBVIOUS
<1>4. b * q <= y /\ y < b * q + b
  BY <1>3
<1>5. q >= 0
  BY <1>4
<1>6. x <= b * q
  BY <1>2, <1>4
<1>7. ASSUME NEW n \in Nat, x <= n * b PROVE q <= n
  <2>1. b * q <= n * b + b - 1
    BY <1>2, <1>4, <1>7
  <2>2. ASSUME q >= n + 1 PROVE FALSE
    <3>1. b * q >= b * (n + 1)
      BY <2>2
    <3>2. b * (n + 1) = n * b + b
      OBVIOUS
    <3> QED
      BY <2>1, <3>1, <3>2
  <2> QED
    BY <2>2
<1> QED
  BY <1>1, <1>2, <1>3, <1>5, <1>6, <1>7

\* A frame stays right as the output grows.
LEMMA FrameGrows ==
  ASSUME NEW f, NEW n \in Nat, NEW m \in Nat, n <= m, FrameOk(f, n)
  PROVE  FrameOk(f, m)
<1>1. ASSUME NEW slot, SlotOk(slot, n) PROVE SlotOk(slot, m)
  <2>1. SlotEnd(slot) \in Int
    <3>1. CASE slot.kind = "Int"
      BY <1>1, <3>1 DEF SlotOk, SlotEnd
    <3>2. CASE slot.kind = "Bits"
      <4>1. slot.off + slot.width \in Nat
        BY <1>1, <3>2 DEF SlotOk
      <4>2. (slot.off + slot.width + ByteBits - 1) \div ByteBits \in Nat
        BY <4>1, RoundUp
      <4> QED
        BY <1>1, <3>2, <4>2 DEF SlotOk, SlotEnd
    <3> QED
      BY <1>1, <3>1, <3>2 DEF SlotOk
  <2> QED
    BY <1>1, <2>1 DEF SlotOk
<1>2. \A s \in Spans : f.spans[s][2] <= m
  <2> TAKE s \in Spans
  <2>1. f.spans[s] \in Nat \X Nat /\ f.spans[s][2] <= n
    BY DEF FrameOk
  <2> QED
    BY <2>1
<1> QED
  BY <1>1, <1>2 DEF FrameOk

\* Patching keeps the output a buffer of the same length.
LEMMA PatchSlotType ==
  ASSUME PowerLaw, NEW o \in Seq(Byte), NEW slot, SlotOk(slot, Len(o)), NEW x \in Int
  PROVE  PatchSlot(o, slot, x) \in Seq(Byte) /\ Len(PatchSlot(o, slot, x)) = Len(o)
<1>1. slot.pos \in Nat
  BY DEF SlotOk
<1>2. CASE slot.kind = "Int"
  <2>1. WriteUint(slot.prim.w, slot.be, x) \in Seq(Byte)
    BY <1>2, WriteUintType DEF SlotOk
  <2>2. PatchSlot(o, slot, x) = WriteAt(o, slot.pos, WriteUint(slot.prim.w, slot.be, x))
    BY <1>2 DEF PatchSlot
  <2> QED
    BY <1>1, <2>1, <2>2, WriteAtType
<1>3. CASE slot.kind = "Bits"
  <2> DEFINE q == (slot.off + slot.width + ByteBits - 1) \div ByteBits
  <2>1. slot.off \in Nat /\ slot.width \in Nat /\ slot.off + slot.width \in Nat
    BY <1>3 DEF SlotOk
  <2>2. q \in Nat /\ slot.off + slot.width <= q * ByteBits
    BY <2>1, RoundUp
  <2>3. SlotEnd(slot) = slot.pos + q /\ slot.pos + q <= Len(o)
    BY <1>3 DEF SlotEnd, SlotOk
  <2> HIDE DEF q
  <2>4. SlotRaw(o, slot) \in Seq(Byte) /\ Len(SlotRaw(o, slot)) = q
    <3>1. slot.pos + q \in Nat /\ (slot.pos + q) - slot.pos = q /\ slot.pos <= slot.pos + q
      BY <1>1, <2>2
    <3> QED
      BY <1>1, <2>3, <3>1, SliceType DEF SlotRaw
  <2>5. OrBits(SlotRaw(o, slot), slot.off, slot.width, x) \in Seq(Byte)
    BY <2>1, <2>2, <2>4, OrBitsType
  <2>6. PatchSlot(o, slot, x) = WriteAt(o, slot.pos, OrBits(SlotRaw(o, slot), slot.off, slot.width, x))
    BY <1>3 DEF PatchSlot
  <2> QED
    BY <1>1, <2>5, <2>6, WriteAtType
<1> QED
  BY <1>2, <1>3 DEF SlotOk

\* What a digest covers is bytes.
LEMMA DigestOverType ==
  ASSUME NEW o \in Seq(Byte), NEW f, FrameOk(f, Len(o)), NEW d \in [at : DigestAddrs, pos : Nat],
         NEW start \in Nat
  PROVE  DigestOver(o, d, start, f.spans) \in Seq(Byte)
<1> DEFINE over == Code[d.at].over
           ss == [i \in DOMAIN over |-> Slice(o, f.spans[over[i]][1], f.spans[over[i]][2])]
<1>1. over \in Seq(Spans)
  <2>1. d.at \in Addr /\ Code[d.at].op = "Digest"
    BY DEF DigestAddrs
  <2> QED
    BY <2>1, EncoderAssumption DEF EncodesOk
<1>2. CASE over = <<>>
  <2>1. Len(o) \in Nat
    OBVIOUS
  <2>2. Slice(o, start, Len(o)) \in Seq(Byte)
    BY <2>1, SliceType
  <2> QED
    BY <1>2, <2>2 DEF DigestOver
<1>3. CASE over # <<>>
  <2> HIDE DEF over
  <2>1. ASSUME NEW i \in 1 .. Len(over) PROVE ss[i] \in Seq(Byte)
    <3>1. over[i] \in Spans /\ i \in DOMAIN over
      BY <1>1
    <3>2. /\ f.spans[over[i]] \in Nat \X Nat
          /\ f.spans[over[i]][2] <= Len(o)
      BY <3>1 DEF FrameOk
    <3>3. PICK s \in Nat, e \in Nat : s = f.spans[over[i]][1] /\ e = f.spans[over[i]][2] /\ e <= Len(o)
      BY <3>2
    <3>4. Slice(o, s, e) \in Seq(Byte)
      BY <3>3, SliceType
    <3> QED
      BY <3>1, <3>3, <3>4
  <2>2. ss \in Seq(Seq(Byte))
    <3>1. DOMAIN over = 1 .. Len(over) /\ Len(over) \in Nat
      BY <1>1
    <3>2. ss = [i \in 1 .. Len(over) |-> ss[i]]
      BY <3>1
    <3> HIDE DEF ss
    <3>3. ss \in [1 .. Len(over) -> Seq(Byte)]
      BY <2>1, <3>2
    <3> QED
      BY <3>1, <3>3
  <2>3. FlattenSeq(ss) \in Seq(Byte)
    BY <2>2, FlattenType
  <2>4. DigestOver(o, d, start, f.spans) = FlattenSeq(ss)
    BY <1>3 DEF DigestOver, over
  <2> QED
    BY <2>3, <2>4
<1> QED
  BY <1>2, <1>3

\* Sealing a scope overwrites its digests in place, one after the other.
Overwrites(x, y, pos) ==
  /\ x \in Seq(Byte)
  /\ \E raw \in Seq(Byte) : Len(raw) = ChecksumWidth /\ y = WriteAt(x, pos, raw)

SealRuns(g, o, start, f) ==
  /\ g[0] = o /\ Seal(o, start, f) = g[Len(f.digests)]
  /\ \A i \in 1 .. Len(f.digests) : Overwrites(g[i - 1], g[i], f.digests[i].pos)
  /\ \A i \in 0 .. Len(f.digests) : g[i] \in Seq(Byte) /\ Len(g[i]) = Len(o)

LEMMA SealSteps ==
  ASSUME PowerLaw, NEW o \in Seq(Byte), NEW f, FrameOk(f, Len(o)), NEW start \in Nat
  PROVE  \E g : SealRuns(g, o, start, f)
<1> DEFINE n == Len(f.digests)
           Bufs == {x \in Seq(Byte) : Len(x) = Len(o)}
           seal(acc, d) ==
             WriteAt(acc, d.pos, WriteUint(ChecksumWidth, Code[d.at].be,
                                           IpChecksum(DigestOver(acc, d, start, f.spans))))
           Step(i, x) == seal(x, f.digests[i])
           st == [p \in (1 .. n) \X Bufs |-> Step(p[1], p[2])]
           Eq(g) == g = [i \in 0 .. n |-> IF i = 0 THEN o ELSE Step(i, g[i - 1])]
           g0 == CHOOSE g : Eq(g)
<1>1. f.digests \in Seq([at : DigestAddrs, pos : Nat]) /\ n \in Nat
  BY DEF FrameOk
<1>2. ASSUME NEW i \in 1 .. n, NEW x \in Bufs
      PROVE  Step(i, x) \in Bufs /\ Overwrites(x, Step(i, x), f.digests[i].pos)
  <2>1. PICK d \in [at : DigestAddrs, pos : Nat] : d = f.digests[i]
    BY <1>1, ElementOfSeq
  <2>2. x \in Seq(Byte) /\ Len(x) = Len(o)
    OBVIOUS
  <2>3. DigestOver(x, d, start, f.spans) \in Seq(Byte)
    BY <2>2, DigestOverType
  <2>4. IpChecksum(DigestOver(x, d, start, f.spans)) \in Int
    BY <2>3, IpChecksumType
  <2>5. PICK raw \in Seq(Byte) :
          /\ raw = WriteUint(ChecksumWidth, Code[d.at].be, IpChecksum(DigestOver(x, d, start, f.spans)))
          /\ Len(raw) = ChecksumWidth
    <3>1. ChecksumWidth \in Nat
      BY DEF ChecksumWidth
    <3> QED
      BY <2>4, <3>1, WriteUintType
  <2>6. WriteAt(x, d.pos, raw) \in Seq(Byte) /\ Len(WriteAt(x, d.pos, raw)) = Len(o)
    BY <2>2, WriteAtType
  <2>7. Step(i, x) = WriteAt(x, d.pos, raw)
    BY <2>1, <2>5
  <2> QED
    BY <2>1, <2>2, <2>5, <2>6, <2>7 DEF Overwrites
<1>3. o \in Bufs
  OBVIOUS
<1>8. Seal(o, start, f) = g0[n]
  BY DEF Seal
<1> HIDE DEF Step, seal, Bufs
<1>4. \A i \in 1 .. n : \A x \in Bufs : st[<<i, x>>] = Step(i, x)
  OBVIOUS
<1>5. PICK g : g \in [0 .. n -> Bufs] /\ Iterates(g, st, o, n)
  <2>1. Steps(st, n, Bufs)
    BY <1>2, <1>4 DEF Steps
  <2> HIDE DEF st, n
  <2> QED
    BY <1>1, <1>3, <2>1, IterExists
<1>6. Eq(g)
  <2>1. \A i \in 0 .. n : g[i] = IF i = 0 THEN o ELSE Step(i, g[i - 1])
    <3> TAKE i \in 0 .. n
    <3>1. i = 0 \/ (i # 0 /\ i \in 1 .. n /\ i - 1 \in 0 .. n)
      BY <1>1
    <3> HIDE DEF st
    <3> QED
      BY <1>4, <1>5, <3>1 DEF Iterates
  <2> QED
    BY <1>5, <2>1
<1>7. Eq(g0)
  BY <1>6
<1> HIDE DEF g0, st
<1>9. g0[0] = o /\ \A i \in 1 .. n : g0[i] = Step(i, g0[i - 1])
  <2> HIDE DEF n
  <2> QED
    BY <1>1, <1>7
<1>10. \A i \in 0 .. n : g0[i] \in Bufs
  <2> DEFINE T == [k \in 0 .. n |-> Bufs]
  <2>1. g0[0] \in T[0]
    BY <1>1, <1>3, <1>9
  <2>2. \A i \in 1 .. n : g0[i - 1] \in T[i - 1] => g0[i] \in T[i]
    <3> TAKE i \in 1 .. n
    <3>1. i \in 0 .. n /\ i - 1 \in 0 .. n
      BY <1>1
    <3> QED
      BY <3>1, <1>2, <1>9
  <2> HIDE DEF T, n
  <2>3. \A i \in 0 .. n : g0[i] \in T[i]
    BY <1>1, <2>1, <2>2, IterStays
  <2> QED
    BY <1>1, <2>3 DEF T
<1>11. \A i \in 1 .. n : Overwrites(g0[i - 1], g0[i], f.digests[i].pos)
  <2> TAKE i \in 1 .. n
  <2>1. i - 1 \in 0 .. n
    BY <1>1
  <2> QED
    BY <1>2, <1>9, <1>10, <2>1
<1>12. SealRuns(g0, o, start, f)
  BY <1>8, <1>9, <1>10, <1>11 DEF SealRuns, Bufs
<1> QED
  BY <1>12

LEMMA SealType ==
  ASSUME PowerLaw, NEW o \in Seq(Byte), NEW f, FrameOk(f, Len(o)), NEW start \in Nat
  PROVE  Seal(o, start, f) \in Seq(Byte) /\ Len(Seal(o, start, f)) = Len(o)
<1>1. PICK g : SealRuns(g, o, start, f)
  BY SealSteps
<1>2. Len(f.digests) \in 0 .. Len(f.digests)
  BY DEF FrameOk
<1> QED
  BY <1>1, <1>2 DEF SealRuns

(***************************************************************************)
(* Settling a length.                                                      *)
(***************************************************************************)
\* A quotient is no larger than what is divided.
LEMMA QuotType ==
  ASSUME NEW a \in Int, NEW b \in Int, b # 0, NEW m \in Nat, -m <= a, a <= m
  PROVE  Quot(a, b) \in (-m) .. m
<1>1. PICK x \in 0 .. m : x = IF a < 0 THEN -a ELSE a
  OBVIOUS
<1>2. PICK y \in Nat \ {0} : y = IF b < 0 THEN -b ELSE b
  OBVIOUS
<1>3. PICK q \in Int : q = x \div y /\ y * q <= x /\ x < y * q + y
  OBVIOUS
<1>4. q >= 0
  BY <1>3
<1>5. q <= x
  <2>1. q <= y * q
    BY <1>4
  <2> QED
    BY <1>3, <2>1
<1>6. Quot(a, b) = IF (a < 0) # (b < 0) THEN -q ELSE q
  BY <1>1, <1>2, <1>3 DEF Quot
<1> QED
  BY <1>4, <1>5, <1>6

\* An inverse that settles in one of n frames.
InvOk(inv, n) ==
  inv.a \in I64 \ {0} /\ inv.b \in I64 /\ inv.reg.up \in Nat /\ inv.reg.up < n /\ inv.reg.idx \in Regs

\* The frame whose register has been patched.
PatchFrame(f, idx, slot, x) ==
  [f EXCEPT !.regs[idx] = x, !.known = @ \cup {idx}, !.res[idx] = {[slot |-> slot, value |-> {x}]}]

LEMMA PatchFrameIs ==
  ASSUME NEW n, NEW f, FrameOk(f, n), NEW idx, NEW slot, NEW x
  PROVE  PatchFrame(f, idx, slot, x) =
           [regs |-> [f.regs EXCEPT ![idx] = x], known |-> f.known \cup {idx},
            res |-> [f.res EXCEPT ![idx] = {[slot |-> slot, value |-> {x}]}],
            spans |-> f.spans, digests |-> f.digests]
<1>1. PICK R, K, S, P, D : f = [regs |-> R, known |-> K, res |-> S, spans |-> P, digests |-> D]
  BY DEF FrameOk
<1>2. f.regs = R /\ f.known = K /\ f.res = S /\ f.spans = P /\ f.digests = D
  BY <1>1
<1>3. PICK R2, K2, S2 : /\ R2 = [R EXCEPT ![idx] = x] /\ K2 = K \cup {idx}
                        /\ S2 = [S EXCEPT ![idx] = {[slot |-> slot, value |-> {x}]}]
  OBVIOUS
<1>4. PICK f2 : f2 = [f EXCEPT !.regs = R2]
  OBVIOUS
<1>5. f2 = [regs |-> R2, known |-> K, res |-> S, spans |-> P, digests |-> D]
  BY <1>1, <1>4
<1>6. PICK f3 : f3 = [f2 EXCEPT !.known = K2]
  OBVIOUS
<1>7. f3 = [regs |-> R2, known |-> K2, res |-> S, spans |-> P, digests |-> D]
  BY <1>5, <1>6
<1>8. [f3 EXCEPT !.res = S2] = [regs |-> R2, known |-> K2, res |-> S2, spans |-> P, digests |-> D]
  BY <1>7
<1>9. f3.res = S
  BY <1>7
<1>10. PatchFrame(f, idx, slot, x) = [f3 EXCEPT !.res = S2]
  BY <1>2, <1>3, <1>4, <1>6, <1>9 DEF PatchFrame
<1> QED
  BY <1>2, <1>3, <1>8, <1>10

LEMMA PatchFrameOk ==
  ASSUME NEW n, NEW f, FrameOk(f, n), NEW idx \in Regs, NEW slot, SlotOk(slot, n), NEW x \in I64
  PROVE  FrameOk(PatchFrame(f, idx, slot, x), n)
<1> DEFINE g == PatchFrame(f, idx, slot, x)
<1>1. g = [regs |-> [f.regs EXCEPT ![idx] = x], known |-> f.known \cup {idx},
           res |-> [f.res EXCEPT ![idx] = {[slot |-> slot, value |-> {x}]}],
           spans |-> f.spans, digests |-> f.digests]
  BY PatchFrameIs
<1>2. f.regs \in [Regs -> I64] /\ DOMAIN f.res = Regs
  BY DEF FrameOk
<1> HIDE DEF g
<1>3. g.regs \in [Regs -> I64] /\ g.known \subseteq Regs
  <2>1. f.known \subseteq Regs
    BY DEF FrameOk
  <2> QED
    BY <1>1, <1>2, <2>1
<1>4. /\ g.res = [r \in Regs |-> g.res[r]]
      /\ \A r \in Regs : g.res[r] = IF r = idx THEN {[slot |-> slot, value |-> {x}]} ELSE f.res[r]
  BY <1>1, <1>2
<1>5. ASSUME NEW r \in Regs, NEW v \in g.res[r] PROVE SlotOk(v.slot, n)
  <2>1. CASE r = idx
    <3>1. v = [slot |-> slot, value |-> {x}]
      BY <1>4, <1>5, <2>1
    <3>2. v.slot = slot
      BY <3>1
    <3> QED
      BY <3>2
  <2>2. CASE r # idx
    <3>1. v \in f.res[r]
      BY <1>4, <1>5, <2>2
    <3> QED
      BY <3>1 DEF FrameOk
  <2> QED
    BY <2>1, <2>2
<1>6. g.spans = f.spans /\ g.digests = f.digests
  BY <1>1
<1>7. g = [regs |-> g.regs, known |-> g.known, res |-> g.res, spans |-> g.spans, digests |-> g.digests]
  BY <1>1
<1>8. FrameOk(g, n)
  BY <1>3, <1>4, <1>5, <1>6, <1>7 DEF FrameOk
<1> QED
  BY <1>8 DEF g

Settled(r, o, fs) ==
  /\ r.kind \in PackKinds
  /\ r.out \in Seq(Byte) /\ Len(r.out) = Len(o)
  /\ FramesOk(r.frames, Len(o)) /\ Len(r.frames) = Len(fs)

\* Replacing one frame.
LEMMA FrameReplaced ==
  ASSUME NEW fs, NEW n, FramesOk(fs, n), NEW i \in DOMAIN fs, NEW g, FrameOk(g, n)
  PROVE  FramesOk([fs EXCEPT ![i] = g], n) /\ Len([fs EXCEPT ![i] = g]) = Len(fs)
<1> DEFINE S == Range(fs) \cup {g}
           gs == [fs EXCEPT ![i] = g]
<1>1. fs \in Seq(S) /\ g \in S
  BY SeqMonotonic DEF FramesOk, Stack
<1> HIDE DEF S
<1>2. i \in 1 .. Len(fs) /\ DOMAIN fs = 1 .. Len(fs)
  BY <1>1
<1>3. gs \in Seq(S) /\ Len(gs) = Len(fs) /\ \A j \in 1 .. Len(fs) : gs[j] = IF j = i THEN g ELSE fs[j]
  BY <1>1, <1>2, ExceptSeq
<1>4. DOMAIN gs = DOMAIN fs
  OBVIOUS
<1> HIDE DEF gs
<1>5. \A j \in DOMAIN gs : FrameOk(gs[j], n)
  BY <1>2, <1>3, <1>4 DEF FramesOk
<1>6. FramesOk(gs, n) /\ Len(gs) = Len(fs)
  BY <1>3, <1>5, IsStack DEF FramesOk
<1> QED
  BY <1>6 DEF gs

\* A length that is settled leaves everything or patches a slot that is free.
Leaves(r, o, fs) == \E kind \in PackKinds : r = Patched(kind, o, fs)

PatchedAt(r, o, fs, i, idx, v, x) ==
  /\ i \in DOMAIN fs /\ idx \in Regs /\ x \in I64
  /\ v \in fs[i].res[idx] /\ v.value = {} /\ SlotFits(v.slot, x)
  /\ r = Patched("Ok", PatchSlot(o, v.slot, x), [fs EXCEPT ![i] = PatchFrame(fs[i], idx, v.slot, x)])

Patches(r, o, fs) == \E i, idx, v, x : PatchedAt(r, o, fs, i, idx, v, x)

LEMMA ApplyInvCases ==
  ASSUME PowerLaw, NEW o \in Seq(Byte), NEW fs, FramesOk(fs, Len(o)), NEW inv, InvOk(inv, Len(fs)),
         NEW actual \in Nat
  PROVE  Leaves(ApplyInv(o, fs, inv, actual), o, fs) \/ Patches(ApplyInv(o, fs, inv, actual), o, fs)
<1> DEFINE d == actual - inv.b
           x == Quot(d, inv.a)
           fi == Len(fs) - inv.reg.up
           idx == inv.reg.idx
           f == fs[fi]
           resv == CHOOSE v \in f.res[idx] : TRUE
           r == ApplyInv(o, fs, inv, actual)
<1>1. fi \in DOMAIN fs
  <2>1. Len(fs) \in Nat /\ DOMAIN fs = 1 .. Len(fs)
    BY DEF FramesOk, Stack
  <2> QED
    BY <2>1 DEF InvOk
<1>2. FrameOk(f, Len(o)) /\ idx \in Regs
  BY <1>1 DEF FramesOk, InvOk
<1>3. I64Max \in Nat /\ I64 = (-I64Max - 1) .. I64Max
  BY WireAssumption DEF I64
<1>4. d \in I64 => x \in I64
  <2> SUFFICES ASSUME d \in I64 PROVE x \in I64
    OBVIOUS
  <2>1. d \in Int /\ -I64Max <= d /\ d <= I64Max
    BY <1>3 DEF InvOk
  <2>2. inv.a \in Int /\ inv.a # 0
    BY <1>3 DEF InvOk
  <2>3. x \in (-I64Max) .. I64Max
    <3> HIDE DEF d
    <3> QED
      BY <1>3, <2>1, <2>2, QuotType
  <2> QED
    BY <1>3, <2>3
<1>5. ASSUME NEW kind \in PackKinds PROVE Leaves(Patched(kind, o, fs), o, fs)
  BY DEF Leaves
<1>6. {"Ok", "Inconsistent", "Range", "Indivisible"} \subseteq PackKinds
  BY DEF PackKinds
<1>7. CASE d \notin I64
  <2>1. r = Patched("Range", o, fs)
    BY <1>7 DEF ApplyInv
  <2> QED
    BY <1>5, <1>6, <2>1
<1>8. CASE d \in I64 /\ d % inv.a # 0
  <2>1. r = Patched("Indivisible", o, fs)
    BY <1>8 DEF ApplyInv
  <2> QED
    BY <1>5, <1>6, <2>1
<1>9. CASE d \in I64 /\ ~(d % inv.a # 0)
  <2>1. CASE f.res[idx] = {}
    <3>1. r = Patched(IF idx \in f.known /\ f.regs[idx] = x THEN "Ok" ELSE "Inconsistent", o, fs)
      BY <1>9, <2>1 DEF ApplyInv
    <3> QED
      BY <1>5, <1>6, <3>1
  <2>2. CASE f.res[idx] # {} /\ resv.value # {}
    <3>1. r = Patched(IF x \in resv.value THEN "Ok" ELSE "Inconsistent", o, fs)
      BY <1>9, <2>2 DEF ApplyInv
    <3> QED
      BY <1>5, <1>6, <3>1
  <2>3. CASE f.res[idx] # {} /\ resv.value = {} /\ ~SlotFits(resv.slot, x)
    <3>1. r = Patched("Range", o, fs)
      BY <1>9, <2>3 DEF ApplyInv
    <3> QED
      BY <1>5, <1>6, <3>1
  <2>4. CASE f.res[idx] # {} /\ resv.value = {} /\ SlotFits(resv.slot, x)
    <3> DEFINE g == PatchFrame(f, idx, resv.slot, x)
    <3>1. r = Patched("Ok", PatchSlot(o, resv.slot, x), [fs EXCEPT ![fi] = g])
      BY <1>9, <2>4 DEF ApplyInv, PatchFrame
    <3>2. resv \in f.res[idx]
      BY <2>4
    <3>3. x \in I64
      BY <1>4, <1>9
    <3>4. PICK w, y : w = resv /\ y = x
      OBVIOUS
    <3>5. PatchedAt(r, o, fs, fi, idx, w, y)
      <4> HIDE DEF r
      <4> QED
        BY <1>1, <1>2, <2>4, <3>1, <3>2, <3>3, <3>4 DEF PatchedAt
    <3>6. Patches(r, o, fs)
      <4> HIDE DEF r
      <4> QED
        BY <3>5 DEF Patches
    <3> QED
      BY <3>6
  <2> QED
    BY <2>1, <2>2, <2>3, <2>4
<1> QED
  BY <1>7, <1>8, <1>9

\* Either way the output and the frames keep their shape.
LEMMA SettledOk ==
  ASSUME PowerLaw, NEW o \in Seq(Byte), NEW fs, FramesOk(fs, Len(o)), NEW r,
         Leaves(r, o, fs) \/ Patches(r, o, fs)
  PROVE  Settled(r, o, fs)
<1>1. CASE Leaves(r, o, fs)
  BY <1>1 DEF Leaves, Settled, Patched
<1>2. CASE Patches(r, o, fs)
  <2>1. PICK i, idx, v, x : PatchedAt(r, o, fs, i, idx, v, x)
    BY <1>2 DEF Patches
  <2>2. /\ i \in DOMAIN fs /\ idx \in Regs /\ x \in I64 /\ x \in Int /\ v \in fs[i].res[idx]
        /\ FrameOk(fs[i], Len(o))
    BY <2>1, WireAssumption DEF PatchedAt, FramesOk, I64
  <2>3. SlotOk(v.slot, Len(o))
    BY <2>2 DEF FrameOk
  <2>4. PICK o2 \in Seq(Byte) : o2 = PatchSlot(o, v.slot, x) /\ Len(o2) = Len(o)
    BY <2>2, <2>3, PatchSlotType
  <2>5. PICK g : g = PatchFrame(fs[i], idx, v.slot, x) /\ FrameOk(g, Len(o))
    BY <2>2, <2>3, PatchFrameOk
  <2>9. FramesOk([fs EXCEPT ![i] = g], Len(o)) /\ Len([fs EXCEPT ![i] = g]) = Len(fs)
    BY <2>2, <2>5, FrameReplaced
  <2>6. PICK gs : gs = [fs EXCEPT ![i] = g] /\ FramesOk(gs, Len(o)) /\ Len(gs) = Len(fs)
    BY <2>9, Zenon
  <2>7. r = Patched("Ok", o2, gs)
    BY <2>1, <2>4, <2>5, <2>6 DEF PatchedAt
  <2>8. "Ok" \in PackKinds
    BY DEF PackKinds
  <2> QED
    BY <2>4, <2>6, <2>7, <2>8 DEF Settled, Patched
<1> QED
  BY <1>1, <1>2

LEMMA FinishLenCases ==
  ASSUME PowerLaw, NEW o \in Seq(Byte), NEW fs, FramesOk(fs, Len(o)),
         NEW len, \A inv \in len.inv : InvOk(inv, Len(fs)), NEW actual \in Nat
  PROVE  Leaves(FinishLen(o, fs, len, actual), o, fs) \/ Patches(FinishLen(o, fs, len, actual), o, fs)
<1>1. ASSUME NEW kind \in PackKinds PROVE Leaves(Patched(kind, o, fs), o, fs)
  BY DEF Leaves
<1>2. {"Ok", "Length"} \subseteq PackKinds
  BY DEF PackKinds
<1>3. CASE IsGreedy(len)
  BY <1>1, <1>2, <1>3 DEF FinishLen
<1>4. CASE ~IsGreedy(len) /\ len.inv = {}
  <2>1. FinishLen(o, fs, len, actual) = Patched(IF actual = len.expr[1].arg THEN "Ok" ELSE "Length", o, fs)
    BY <1>4 DEF FinishLen
  <2> QED
    BY <1>1, <1>2, <2>1
<1>5. CASE ~IsGreedy(len) /\ len.inv # {}
  <2>1. PICK inv \in len.inv : inv = CHOOSE v \in len.inv : TRUE
    BY <1>5
  <2>2. FinishLen(o, fs, len, actual) = ApplyInv(o, fs, inv, actual)
    BY <1>5, <2>1 DEF FinishLen
  <2> QED
    BY <2>2, ApplyInvCases
<1> QED
  BY <1>3, <1>4, <1>5

LEMMA FinishLenOk ==
  ASSUME PowerLaw, NEW o \in Seq(Byte), NEW fs, FramesOk(fs, Len(o)),
         NEW len, \A inv \in len.inv : InvOk(inv, Len(fs)), NEW actual \in Nat
  PROVE  Settled(FinishLen(o, fs, len, actual), o, fs)
  BY FinishLenCases, SettledOk

(***************************************************************************)
(* The invariant.  Depth counts the structures open up to an activation,   *)
(* which is the height of the stack of frames it runs on.                  *)
(***************************************************************************)
Levels == CHOOSE l : WellScoped(l)

Grounds == PowerLaw /\ WellScoped(Levels) /\ \A i \in Inputs : Val(i.value)

Depth(ctl, i) == Cardinality({j \in 1 .. i : ctl[j].k = "struct"})

EntryOk(e, depth, n) ==
  /\ e = [k |-> e.k, id |-> e.id, via |-> e.via, i |-> e.i, from |-> e.from, start |-> e.start,
          given |-> e.given]
  /\ e.i \in Nat \ {0} /\ e.from \in Nat /\ e.start \in Nat /\ e.start <= n
  /\ \/ /\ e.k = "struct" /\ e.id \in ProgId /\ Levels.prog[e.id] <= depth
        /\ Mapping(e.given)
     \/ /\ e.k = "array" /\ e.id \in Addr /\ Code[e.id].op = "Array" /\ Levels.op[e.id] <= depth
        /\ Listing(e.given)

\* A structure that is the value of a Nest opcode.
ViaOk(e, depth) ==
  e.via \in Addr /\ Code[e.via].op = "Nest" /\ Levels.op[e.via] <= depth - 1

CtlOk(ctl, n) ==
  /\ Stack(ctl)
  /\ \A i \in DOMAIN ctl :
       /\ EntryOk(ctl[i], Depth(ctl, i), n)
       /\ i = 1 => ctl[i].k = "struct"
       /\ i # 1 /\ ctl[i].k = "struct" => ViaOk(ctl[i], Depth(ctl, i))

ValueOk(a, v, depth) ==
  /\ a \in Addr /\ Code[a].op \in ValueOps /\ Levels.op[a] <= depth
  /\ Code[a].op = "Fixed" => Code[a].items # <<>>
  /\ Val(v)

Running == {"step", "value", "ret"}

PInv ==
  /\ pmode \in {"idle", "step", "value", "ret", "done"}
  /\ input \in Inputs
  /\ out \in Seq(Byte) /\ dst \in Seq(Byte)
  /\ result \in [tag : {"none", "Ok", "Err"}, kind : PackKinds]
  /\ (pmode \in Running) <=> pctl # <<>>
  /\ CtlOk(pctl, Len(out))
  /\ FramesOk(pframes, Len(out)) /\ Len(pframes) = Depth(pctl, Len(pctl))
  /\ pmode = "value" => ValueOk(pcur, arg, Len(pframes))

LEMMA DepthZero == ASSUME NEW ctl PROVE Depth(ctl, 0) = 0
<1>1. {j \in 1 .. 0 : ctl[j].k = "struct"} = {}
  OBVIOUS
<1> QED
  BY <1>1, FS_EmptySet DEF Depth

LEMMA DepthSame ==
  ASSUME NEW ctl, NEW other, NEW i \in Nat, \A j \in 1 .. i : ctl[j].k = other[j].k
  PROVE  Depth(ctl, i) = Depth(other, i)
<1>1. {j \in 1 .. i : ctl[j].k = "struct"} = {j \in 1 .. i : other[j].k = "struct"}
  OBVIOUS
<1> QED
  BY <1>1 DEF Depth

LEMMA DepthType == ASSUME NEW ctl, NEW i \in Nat PROVE Depth(ctl, i) \in Nat
<1> DEFINE S == {j \in 1 .. i : ctl[j].k = "struct"}
<1>1. IsFiniteSet(1 .. i)
  BY FS_Interval
<1>2. IsFiniteSet(S)
  BY <1>1, FS_Subset
<1> QED
  BY <1>2, FS_CardinalityType DEF Depth

LEMMA DepthStep ==
  ASSUME NEW ctl, NEW i \in Nat \ {0}
  PROVE  /\ ctl[i].k = "struct" => Depth(ctl, i) = Depth(ctl, i - 1) + 1
         /\ ctl[i].k # "struct" => Depth(ctl, i) = Depth(ctl, i - 1)
<1> DEFINE S == {j \in 1 .. (i - 1) : ctl[j].k = "struct"}
           T == {j \in 1 .. i : ctl[j].k = "struct"}
<1>1. IsFiniteSet(S) /\ i \notin S
  <2>1. IsFiniteSet(1 .. (i - 1))
    BY FS_Interval
  <2>2. S \subseteq 1 .. (i - 1)
    OBVIOUS
  <2> QED
    BY <2>1, <2>2, FS_Subset
<1>2. ctl[i].k = "struct" => T = S \cup {i}
  OBVIOUS
<1>3. ctl[i].k # "struct" => T = S
  OBVIOUS
<1> HIDE DEF S, T
<1>4. Cardinality(S \cup {i}) = Cardinality(S) + 1
  BY <1>1, FS_AddElement
<1>5. Depth(ctl, i) = Cardinality(T) /\ Depth(ctl, i - 1) = Cardinality(S)
  BY DEF Depth, S, T
<1> QED
  BY <1>2, <1>3, <1>4, <1>5

LEMMA CtlGrows ==
  ASSUME NEW ctl, NEW n \in Nat, NEW m \in Nat, n <= m, CtlOk(ctl, n)
  PROVE  CtlOk(ctl, m)
<1>1. ASSUME NEW e, NEW d, EntryOk(e, d, n) PROVE EntryOk(e, d, m)
  <2>1. e.start <= m
    BY <1>1 DEF EntryOk
  <2> QED
    BY <1>1, <2>1 DEF EntryOk
<1> QED
  BY <1>1 DEF CtlOk

LEMMA FramesGrow ==
  ASSUME NEW fs, NEW n \in Nat, NEW m \in Nat, n <= m, FramesOk(fs, n)
  PROVE  FramesOk(fs, m)
  BY FrameGrows DEF FramesOk

\* The activation that goes on moves.
LEMMA CtlUpdate ==
  ASSUME NEW ctl, NEW n \in Nat, CtlOk(ctl, n), ctl # <<>>,
         NEW e, EntryOk(e, Depth(ctl, Len(ctl)), n), e.k = Last(ctl).k, e.via = Last(ctl).via
  PROVE  /\ CtlOk(SetTop(ctl, e), n) /\ SetTop(ctl, e) # <<>>
         /\ Len(SetTop(ctl, e)) = Len(ctl)
         /\ Depth(SetTop(ctl, e), Len(ctl)) = Depth(ctl, Len(ctl))
<1>0. PICK c : c = SetTop(ctl, e)
  OBVIOUS
<1>1. c = Topped(ctl, e)
  BY <1>0 DEF SetTop, Topped
<1>2. /\ Stack(c) /\ c # <<>> /\ Len(c) = Len(ctl) /\ DOMAIN c = 1 .. Len(ctl)
      /\ \A i \in 1 .. (Len(ctl) - 1) : c[i] = ctl[i]
      /\ c[Len(ctl)] = e
  BY <1>1, StackUpdate DEF CtlOk
<1>3. Len(ctl) \in Nat /\ Len(ctl) >= 1 /\ DOMAIN ctl = 1 .. Len(ctl) /\ Last(ctl) = ctl[Len(ctl)]
  BY StackPop DEF CtlOk
<1>4. ASSUME NEW i \in 1 .. Len(ctl) PROVE c[i].k = ctl[i].k /\ c[i].via = ctl[i].via
  BY <1>2, <1>3, TopOrBelow
<1>5. ASSUME NEW i \in 1 .. Len(ctl) PROVE Depth(c, i) = Depth(ctl, i)
  <2>1. i \in Nat /\ \A j \in 1 .. i : j \in 1 .. Len(ctl)
    BY <1>3
  <2> QED
    BY <1>4, <2>1, DepthSame
<1>6. ASSUME NEW i \in DOMAIN c
      PROVE  /\ EntryOk(c[i], Depth(c, i), n)
             /\ i = 1 => c[i].k = "struct"
             /\ i # 1 /\ c[i].k = "struct" => ViaOk(c[i], Depth(c, i))
  <2>1. i \in 1 .. Len(ctl) /\ i \in DOMAIN ctl
    BY <1>2, <1>3
  <2>2. EntryOk(c[i], Depth(c, i), n)
    <3>1. CASE i = Len(ctl)
      BY <1>2, <1>5, <2>1, <3>1
    <3>2. CASE i \in 1 .. (Len(ctl) - 1)
      BY <1>2, <1>5, <2>1, <3>2 DEF CtlOk
    <3> QED
      BY <1>3, <2>1, <3>1, <3>2, TopOrBelow
  <2> QED
    BY <1>4, <1>5, <2>1, <2>2 DEF CtlOk, ViaOk
<1>7. CtlOk(c, n)
  BY <1>2, <1>6 DEF CtlOk
<1>8. Depth(c, Len(ctl)) = Depth(ctl, Len(ctl))
  BY <1>3, <1>5
<1> QED
  BY <1>0, <1>2, <1>7, <1>8

\* An activation starts.
LEMMA CtlPush ==
  ASSUME NEW ctl, NEW n \in Nat, CtlOk(ctl, n), NEW e, NEW d,
         d = Depth(ctl, Len(ctl)) + (IF e.k = "struct" THEN 1 ELSE 0),
         EntryOk(e, d, n), ctl = <<>> => e.k = "struct",
         ctl # <<>> /\ e.k = "struct" => ViaOk(e, d)
  PROVE  /\ CtlOk(Append(ctl, e), n) /\ Append(ctl, e) # <<>>
         /\ Depth(Append(ctl, e), Len(Append(ctl, e))) = d
<1>0. PICK c : c = Append(ctl, e)
  OBVIOUS
<1>1. /\ Stack(c) /\ c # <<>> /\ Len(c) = Len(ctl) + 1 /\ DOMAIN c = 1 .. (Len(ctl) + 1)
      /\ Len(ctl) \in Nat /\ DOMAIN ctl = 1 .. Len(ctl)
      /\ \A i \in 1 .. Len(ctl) : c[i] = ctl[i]
      /\ c[Len(ctl) + 1] = e
  BY <1>0, StackPush DEF CtlOk
<1>2. ASSUME NEW i \in 0 .. Len(ctl) PROVE Depth(c, i) = Depth(ctl, i)
  <2>1. i \in Nat /\ \A j \in 1 .. i : j \in 1 .. Len(ctl)
    BY <1>1
  <2> QED
    BY <1>1, <2>1, DepthSame
<1>3. Depth(c, Len(ctl) + 1) = d
  <2>1. Len(ctl) + 1 \in Nat \ {0} /\ (Len(ctl) + 1) - 1 = Len(ctl) /\ Len(ctl) \in 0 .. Len(ctl)
    BY <1>1
  <2>2. Depth(ctl, Len(ctl)) \in Nat
    BY <1>1, DepthType
  <2> QED
    BY <1>1, <1>2, <2>1, <2>2, DepthStep
<1>4. ctl = <<>> <=> Len(ctl) = 0
  BY DEF CtlOk, Stack
<1>5. ASSUME NEW i \in DOMAIN c
      PROVE  /\ EntryOk(c[i], Depth(c, i), n)
             /\ i = 1 => c[i].k = "struct"
             /\ i # 1 /\ c[i].k = "struct" => ViaOk(c[i], Depth(c, i))
  <2>1. CASE i = Len(ctl) + 1
    BY <1>1, <1>3, <1>4, <2>1
  <2>2. CASE i \in 1 .. Len(ctl)
    <3>1. i \in 0 .. Len(ctl) /\ i \in DOMAIN ctl
      BY <1>1, <2>2
    <3> QED
      BY <1>1, <1>2, <2>2, <3>1 DEF CtlOk
  <2> QED
    BY <1>1, <2>1, <2>2
<1>6. CtlOk(c, n)
  BY <1>1, <1>5 DEF CtlOk
<1> QED
  BY <1>0, <1>1, <1>3, <1>6

\* An activation ends.
LEMMA CtlPop ==
  ASSUME NEW ctl, NEW n \in Nat, CtlOk(ctl, n), ctl # <<>>, Len(ctl) > 1 \/ Last(ctl).k # "struct"
  PROVE  /\ CtlOk(Front(ctl), n) /\ Front(ctl) # <<>>
         /\ Depth(Front(ctl), Len(Front(ctl))) =
              Depth(ctl, Len(ctl)) - (IF Last(ctl).k = "struct" THEN 1 ELSE 0)
<1>0. PICK c : c = Front(ctl)
  OBVIOUS
<1>1. /\ Stack(c) /\ Len(c) = Len(ctl) - 1 /\ DOMAIN c = 1 .. (Len(ctl) - 1)
      /\ Len(ctl) \in Nat /\ Len(ctl) >= 1 /\ DOMAIN ctl = 1 .. Len(ctl) /\ Last(ctl) = ctl[Len(ctl)]
      /\ \A i \in 1 .. (Len(ctl) - 1) : c[i] = ctl[i]
  BY <1>0, StackPop DEF CtlOk
<1>2. Len(ctl) > 1
  <2>1. CASE Len(ctl) = 1
    <3>1. 1 \in DOMAIN ctl /\ Last(ctl) = ctl[1]
      BY <1>1, <2>1
    <3> QED
      BY <2>1, <3>1 DEF CtlOk
  <2> QED
    BY <1>1, <2>1
<1>3. c # <<>>
  BY <1>1, <1>2
<1>4. ASSUME NEW i \in 0 .. (Len(ctl) - 1) PROVE Depth(c, i) = Depth(ctl, i)
  <2>1. i \in Nat /\ \A j \in 1 .. i : j \in 1 .. (Len(ctl) - 1)
    BY <1>1
  <2> QED
    BY <1>1, <2>1, DepthSame
<1>5. Depth(c, Len(c)) = Depth(ctl, Len(ctl)) - (IF Last(ctl).k = "struct" THEN 1 ELSE 0)
  <2>1. Len(ctl) - 1 \in Nat /\ Len(ctl) - 1 \in 0 .. (Len(ctl) - 1) /\ Len(ctl) \in Nat \ {0}
    BY <1>1
  <2>2. Depth(ctl, Len(ctl) - 1) \in Nat
    BY <2>1, DepthType
  <2> QED
    BY <1>1, <1>4, <2>1, <2>2, DepthStep
<1>6. ASSUME NEW i \in DOMAIN c
      PROVE  /\ EntryOk(c[i], Depth(c, i), n)
             /\ i = 1 => c[i].k = "struct"
             /\ i # 1 /\ c[i].k = "struct" => ViaOk(c[i], Depth(c, i))
  <2>1. i \in 0 .. (Len(ctl) - 1) /\ i \in DOMAIN ctl
    BY <1>1
  <2> QED
    BY <1>1, <1>4, <2>1 DEF CtlOk
<1>7. CtlOk(c, n)
  BY <1>1, <1>6 DEF CtlOk
<1> QED
  BY <1>0, <1>3, <1>5, <1>7

(***************************************************************************)
(* Frames: the top one replaced, one more, one less.                       *)
(***************************************************************************)
LEMMA FramesTop ==
  ASSUME NEW fs, NEW n \in Nat, NEW m \in Nat, n <= m, FramesOk(fs, n), fs # <<>>, NEW g, FrameOk(g, m)
  PROVE  FramesOk(SetTop(fs, g), m) /\ Len(SetTop(fs, g)) = Len(fs)
<1>1. FramesOk(fs, m)
  BY FramesGrow
<1>2. Len(fs) \in DOMAIN fs
  BY StackPop DEF FramesOk
<1> QED
  BY <1>1, <1>2, FrameReplaced DEF SetTop

LEMMA FramesPush ==
  ASSUME NEW fs, NEW n \in Nat, FramesOk(fs, n), NEW g, FrameOk(g, n)
  PROVE  FramesOk(Append(fs, g), n) /\ Len(Append(fs, g)) = Len(fs) + 1
<1>1. PICK c : c = Append(fs, g)
  OBVIOUS
<1>2. /\ Stack(c) /\ Len(c) = Len(fs) + 1 /\ DOMAIN c = 1 .. (Len(fs) + 1) /\ Len(fs) \in Nat
      /\ DOMAIN fs = 1 .. Len(fs) /\ (\A i \in 1 .. Len(fs) : c[i] = fs[i]) /\ c[Len(fs) + 1] = g
  BY <1>1, StackPush DEF FramesOk
<1>3. ASSUME NEW i \in DOMAIN c PROVE FrameOk(c[i], n)
  <2>1. CASE i = Len(fs) + 1
    BY <1>2, <2>1
  <2>2. CASE i \in 1 .. Len(fs)
    BY <1>2, <2>2 DEF FramesOk
  <2> QED
    BY <1>2, <2>1, <2>2
<1> QED
  BY <1>1, <1>2, <1>3 DEF FramesOk

LEMMA FramesPop ==
  ASSUME NEW fs, NEW n \in Nat, FramesOk(fs, n), fs # <<>>
  PROVE  FramesOk(Front(fs), n) /\ Len(Front(fs)) = Len(fs) - 1
<1>1. PICK c : c = Front(fs)
  OBVIOUS
<1>2. /\ Stack(c) /\ Len(c) = Len(fs) - 1 /\ DOMAIN c = 1 .. (Len(fs) - 1) /\ Len(fs) \in Nat
      /\ DOMAIN fs = 1 .. Len(fs) /\ \A i \in 1 .. (Len(fs) - 1) : c[i] = fs[i]
  BY <1>1, StackPop DEF FramesOk
<1>3. ASSUME NEW i \in DOMAIN c PROVE FrameOk(c[i], n)
  <2>1. i \in 1 .. (Len(fs) - 1) /\ i \in DOMAIN fs
    BY <1>2
  <2> QED
    BY <1>2, <2>1 DEF FramesOk
<1> QED
  BY <1>1, <1>2, <1>3 DEF FramesOk

LEMMA ZeroIsI64 == 0 \in I64
  BY WireAssumption DEF I64

LEMMA NewPFrameOk == ASSUME NEW n \in Nat PROVE FrameOk(NewPFrame, n)
<1>1. /\ NewPFrame.regs = [r \in Regs |-> 0] /\ NewPFrame.known = {}
      /\ NewPFrame.res = [r \in Regs |-> {}]
      /\ NewPFrame.spans = [s \in Spans |-> <<0, 0>>] /\ NewPFrame.digests = <<>>
      /\ NewPFrame = [regs |-> NewPFrame.regs, known |-> NewPFrame.known, res |-> NewPFrame.res,
                      spans |-> NewPFrame.spans, digests |-> NewPFrame.digests]
  BY DEF NewPFrame
<1>2. \A s \in Spans : NewPFrame.spans[s] \in Nat \X Nat /\ NewPFrame.spans[s][2] = 0
  BY <1>1
<1>3. NewPFrame.spans \in [Spans -> Nat \X Nat]
  BY <1>1, <1>2
<1>4. NewPFrame.digests \in Seq([at : DigestAddrs, pos : Nat])
  BY <1>1
<1> QED
  BY <1>1, <1>2, <1>3, <1>4, ZeroIsI64 DEF FrameOk

\* Fields of a frame replaced one at a time.
LEMMA FrameFields ==
  ASSUME NEW f, NEW n, FrameOk(f, n)
  PROVE  /\ \A R : [f EXCEPT !.regs = R] =
              [regs |-> R, known |-> f.known, res |-> f.res, spans |-> f.spans, digests |-> f.digests]
         /\ \A S : [f EXCEPT !.spans = S] =
              [regs |-> f.regs, known |-> f.known, res |-> f.res, spans |-> S, digests |-> f.digests]
         /\ \A D : [f EXCEPT !.digests = D] =
              [regs |-> f.regs, known |-> f.known, res |-> f.res, spans |-> f.spans, digests |-> D]
<1>1. PICK R0, K0, S0, P0, D0 : f = [regs |-> R0, known |-> K0, res |-> S0, spans |-> P0, digests |-> D0]
  BY DEF FrameOk
<1>2. f.regs = R0 /\ f.known = K0 /\ f.res = S0 /\ f.spans = P0 /\ f.digests = D0
  BY <1>1
<1>3. ASSUME NEW R
      PROVE  [f EXCEPT !.regs = R] = [regs |-> R, known |-> K0, res |-> S0, spans |-> P0, digests |-> D0]
  BY <1>1
<1>4. ASSUME NEW S
      PROVE  [f EXCEPT !.spans = S] = [regs |-> R0, known |-> K0, res |-> S0, spans |-> S, digests |-> D0]
  BY <1>1
<1>5. ASSUME NEW D
      PROVE  [f EXCEPT !.digests = D] = [regs |-> R0, known |-> K0, res |-> S0, spans |-> P0, digests |-> D]
  BY <1>1
<1> QED
  BY <1>2, <1>3, <1>4, <1>5

LEMMA SpansOk ==
  ASSUME NEW f, NEW n, FrameOk(f, n), NEW S \in [Spans -> Nat \X Nat], \A s \in Spans : S[s][2] <= n
  PROVE  FrameOk([f EXCEPT !.spans = S], n)
<1>1. PICK g : g = [f EXCEPT !.spans = S]
  OBVIOUS
<1>2. g = [regs |-> f.regs, known |-> f.known, res |-> f.res, spans |-> S, digests |-> f.digests]
  BY <1>1, FrameFields
<1>3. g.regs = f.regs /\ g.known = f.known /\ g.res = f.res /\ g.spans = S /\ g.digests = f.digests
  BY <1>2
<1>4. g = [regs |-> g.regs, known |-> g.known, res |-> g.res, spans |-> g.spans, digests |-> g.digests]
  BY <1>2, <1>3
<1>5. FrameOk(g, n)
  BY <1>3, <1>4 DEF FrameOk
<1> QED
  BY <1>1, <1>5

LEMMA PSetSpanOk ==
  ASSUME NEW f, NEW n \in Nat, FrameOk(f, n), NEW span, NEW s \in Nat, NEW e \in Nat, e <= n
  PROVE  FrameOk(PSetSpan(f, span, s, e), n)
<1> DEFINE S == [x \in Spans |-> IF x \in span THEN <<s, e>> ELSE f.spans[x]]
<1>1. ASSUME NEW x \in Spans PROVE S[x] \in Nat \X Nat /\ S[x][2] <= n
  BY DEF FrameOk
<1>2. S \in [Spans -> Nat \X Nat]
  <2>1. S = [x \in Spans |-> S[x]]
    OBVIOUS
  <2> HIDE DEF S
  <2> QED
    BY <1>1, <2>1
<1>3. PSetSpan(f, span, s, e) = [f EXCEPT !.spans = S]
  BY DEF PSetSpan
<1> HIDE DEF S
<1> QED
  BY <1>1, <1>2, <1>3, SpansOk

LEMMA DigestAdded ==
  ASSUME NEW f, NEW n, FrameOk(f, n), NEW d \in [at : DigestAddrs, pos : Nat]
  PROVE  FrameOk([f EXCEPT !.digests = Append(@, d)], n)
<1>1. PICK D \in Seq([at : DigestAddrs, pos : Nat]) : D = Append(f.digests, d)
  <2>1. f.digests \in Seq([at : DigestAddrs, pos : Nat])
    BY DEF FrameOk
  <2> QED
    BY <2>1, AppendProperties
<1>2. PICK g : g = [f EXCEPT !.digests = D]
  OBVIOUS
<1>3. g = [regs |-> f.regs, known |-> f.known, res |-> f.res, spans |-> f.spans, digests |-> D]
  BY <1>2, FrameFields
<1>4. g.regs = f.regs /\ g.known = f.known /\ g.res = f.res /\ g.spans = f.spans /\ g.digests = D
  BY <1>3
<1>5. g = [regs |-> g.regs, known |-> g.known, res |-> g.res, spans |-> g.spans, digests |-> g.digests]
  BY <1>3, <1>4
<1>6. FrameOk(g, n)
  BY <1>1, <1>4, <1>5 DEF FrameOk
<1> QED
  BY <1>1, <1>2, <1>6

\* The registers a run writes at once, and those it reserves a slot for.
InputRegs(items, slots) == UNION {items[i].reg : i \in {j \in DOMAIN slots : ~items[j].derived}}
DerivedRegs(items, slots) == UNION {items[i].reg : i \in {j \in DOMAIN slots : items[j].derived}}
WriterOf(items, slots, r) == CHOOSE i \in DOMAIN slots : r \in items[i].reg

LEMMA RunFrameIs ==
  ASSUME NEW f, NEW n, FrameOk(f, n), NEW items, NEW numbers, NEW slots
  PROVE  RunFrame(f, items, numbers, slots) =
           [regs |-> [r \in Regs |-> IF r \in InputRegs(items, slots)
                                     THEN Wrap(numbers[WriterOf(items, slots, r)]) ELSE f.regs[r]],
            known |-> f.known \cup InputRegs(items, slots),
            res |-> [r \in Regs |-> IF r \in DerivedRegs(items, slots)
                                    THEN {[slot |-> slots[WriterOf(items, slots, r)], value |-> {}]}
                                    ELSE f.res[r]],
            spans |-> f.spans, digests |-> f.digests]
<1> DEFINE R == [r \in Regs |-> IF r \in InputRegs(items, slots)
                                THEN Wrap(numbers[WriterOf(items, slots, r)]) ELSE f.regs[r]]
           K == f.known \cup InputRegs(items, slots)
           S == [r \in Regs |-> IF r \in DerivedRegs(items, slots)
                                THEN {[slot |-> slots[WriterOf(items, slots, r)], value |-> {}]}
                                ELSE f.res[r]]
<1>1. PICK g : g = RunFrame(f, items, numbers, slots)
  OBVIOUS
<1>2. PICK f2 : f2 = [f EXCEPT !.regs = R]
  OBVIOUS
<1>3. PICK f3 : f3 = [f2 EXCEPT !.known = K]
  OBVIOUS
<1>4. f2 = [regs |-> R, known |-> f.known, res |-> f.res, spans |-> f.spans, digests |-> f.digests]
  BY <1>2, FrameFields
<1>5. f2.known = f.known /\ f2.res = f.res
  BY <1>4
<1>6. f3.res = f.res
  BY <1>3, <1>4
<1>7. g = [f3 EXCEPT !.res = S]
  BY <1>1, <1>2, <1>3, <1>5, <1>6 DEF RunFrame, InputRegs, DerivedRegs, WriterOf
<1> HIDE DEF R, K, S
<1>8. f3 = [regs |-> R, known |-> K, res |-> f.res, spans |-> f.spans, digests |-> f.digests]
  BY <1>3, <1>4
<1>9. g = [regs |-> R, known |-> K, res |-> S, spans |-> f.spans, digests |-> f.digests]
  BY <1>7, <1>8
<1> QED
  BY <1>1, <1>9 DEF R, K, S

\* The frame after a run: numbers are those of the items that are not derived.
LEMMA RunFrameOk ==
  ASSUME PowerLaw, NEW f, NEW n, FrameOk(f, n), NEW items, Disjoint(items),
         \A i \in DOMAIN items : items[i].reg \subseteq Regs,
         NEW slots, DOMAIN slots \subseteq DOMAIN items, \A i \in DOMAIN slots : SlotOk(slots[i], n),
         NEW numbers, \A i \in DOMAIN slots : ~items[i].derived => numbers[i] \in Int
  PROVE  FrameOk(RunFrame(f, items, numbers, slots), n)
<1> DEFINE writer(r) == WriterOf(items, slots, r)
           inputs == InputRegs(items, slots)
           deriveds == DerivedRegs(items, slots)
           R == [r \in Regs |-> IF r \in inputs THEN Wrap(numbers[writer(r)]) ELSE f.regs[r]]
           K == f.known \cup inputs
           S == [r \in Regs |-> IF r \in deriveds THEN {[slot |-> slots[writer(r)], value |-> {}]}
                                ELSE f.res[r]]
<1>1. ASSUME NEW r \in inputs PROVE Wrap(numbers[writer(r)]) \in I64 /\ r \in Regs
  <2>1. PICK i \in DOMAIN slots : ~items[i].derived /\ r \in items[i].reg
    BY DEF InputRegs
  <2>2. writer(r) \in DOMAIN slots /\ r \in items[writer(r)].reg
    BY <2>1 DEF WriterOf
  <2>3. writer(r) = i
    BY <2>1, <2>2 DEF Disjoint
  <2>4. numbers[writer(r)] \in Int
    BY <2>1, <2>3
  <2> QED
    BY <2>1, <2>4, WrapType
<1>2. ASSUME NEW r \in deriveds PROVE SlotOk(slots[writer(r)], n)
  <2>1. PICK i \in DOMAIN slots : r \in items[i].reg
    BY DEF DerivedRegs
  <2>2. writer(r) \in DOMAIN slots
    BY <2>1 DEF WriterOf
  <2> QED
    BY <2>2
<1>3. PICK g : g = RunFrame(f, items, numbers, slots)
  OBVIOUS
<1>8. g = [regs |-> R, known |-> K, res |-> S, spans |-> f.spans, digests |-> f.digests]
  BY <1>3, RunFrameIs
<1>5. R \in [Regs -> I64] /\ K \subseteq Regs
  <2>1. f.regs \in [Regs -> I64] /\ f.known \subseteq Regs
    BY DEF FrameOk
  <2> HIDE DEF writer, inputs
  <2> QED
    BY <1>1, <2>1
<1>6. S = [r \in Regs |-> S[r]]
  OBVIOUS
<1>7. ASSUME NEW r \in Regs, NEW v \in S[r] PROVE SlotOk(v.slot, n)
  <2> HIDE DEF writer, deriveds
  <2>1. CASE r \in deriveds
    <3>1. S[r] = {[slot |-> slots[writer(r)], value |-> {}]}
      BY <2>1
    <3>2. v.slot = slots[writer(r)]
      BY <1>7, <3>1
    <3> QED
      BY <1>2, <2>1, <3>2
  <2>2. CASE r \notin deriveds
    BY <2>2 DEF FrameOk
  <2> QED
    BY <2>1, <2>2
<1> HIDE DEF R, K, S
<1>9. g.regs = R /\ g.known = K /\ g.res = S /\ g.spans = f.spans /\ g.digests = f.digests
  BY <1>8
<1>10. g = [regs |-> g.regs, known |-> g.known, res |-> g.res, spans |-> g.spans, digests |-> g.digests]
  BY <1>8, <1>9
<1>11. FrameOk(g, n)
  BY <1>5, <1>6, <1>7, <1>9, <1>10 DEF FrameOk
<1> QED
  BY <1>3, <1>11

(***************************************************************************)
(* The ways a step ends.                                                   *)
(***************************************************************************)
LEMMA NothingOpen == ASSUME NEW n PROVE CtlOk(<<>>, n) /\ FramesOk(<<>>, n) /\ Len(<<>>) = Depth(<<>>, Len(<<>>))
<1>1. Stack(<<>>)
  <2>1. <<>> \in Seq({})
    OBVIOUS
  <2> QED
    BY <2>1, IsStack
<1>2. DOMAIN <<>> = {} /\ Len(<<>>) = 0
  OBVIOUS
<1> QED
  BY <1>1, <1>2, DepthZero DEF CtlOk, FramesOk

LEMMA PStopOk ==
  ASSUME PInv, NEW tag \in {"Ok", "Err"}, NEW kind \in PackKinds, NEW o \in Seq(Byte),
         PStop(tag, kind, o), dst' \in Seq(Byte)
  PROVE  PInv'
<1>1. CtlOk(pctl', Len(out')) /\ FramesOk(pframes', Len(out')) /\ Len(pframes') = Depth(pctl', Len(pctl'))
  BY NothingOpen DEF PStop
<1>2. result' \in [tag : {"none", "Ok", "Err"}, kind : PackKinds]
  BY DEF PStop
<1> QED
  BY <1>1, <1>2 DEF PInv, PStop, Running

LEMMA PFailOk == ASSUME PInv, NEW kind \in PackKinds, PFail(kind) PROVE PInv'
<1>1. <<>> \in Seq(Byte) /\ dst' \in Seq(Byte)
  BY DEF PFail, PInv
<1> QED
  BY <1>1, PStopOk DEF PFail

LEMMA GoOn ==
  ASSUME PInv, pmode' \in Running, pctl' # <<>>, out' \in Seq(Byte), CtlOk(pctl', Len(out')),
         FramesOk(pframes', Len(out')), Len(pframes') = Depth(pctl', Len(pctl')),
         UNCHANGED <<input, dst, result>>, pmode' = "value" => ValueOk(pcur', arg', Len(pframes'))
  PROVE  PInv'
  BY DEF PInv, Running

\* What the activation that goes on runs on.
LEMMA TopFacts ==
  ASSUME PInv, pctl # <<>>
  PROVE  /\ EntryOk(pack, Len(pframes), Len(out))
         /\ Len(out) \in Nat /\ Len(pframes) \in Nat
         /\ pframes # <<>> /\ FrameOk(Last(pframes), Len(out))
<1>1. /\ Len(pctl) \in Nat /\ Len(pctl) >= 1 /\ DOMAIN pctl = 1 .. Len(pctl) /\ pack = pctl[Len(pctl)]
  BY StackPop DEF PInv, CtlOk, pack
<1>2. EntryOk(pack, Len(pframes), Len(out))
  BY <1>1 DEF PInv, CtlOk
<1>3. Len(pframes) # 0
  <2> DEFINE S == {j \in 1 .. Len(pctl) : pctl[j].k = "struct"}
  <2>1. 1 \in S
    BY <1>1 DEF PInv, CtlOk
  <2>2. IsFiniteSet(S)
    <3>1. IsFiniteSet(1 .. Len(pctl))
      BY <1>1, FS_Interval
    <3>2. S \subseteq 1 .. Len(pctl)
      OBVIOUS
    <3> QED
      BY <3>1, <3>2, FS_Subset
  <2>3. Depth(pctl, Len(pctl)) = Cardinality(S)
    BY DEF Depth
  <2> HIDE DEF S
  <2>4. Cardinality(S) # 0
    BY <2>1, <2>2, FS_EmptySet
  <2> QED
    BY <2>3, <2>4 DEF PInv
<1>4. pframes # <<>>
  BY <1>3
<1>5. Len(pframes) \in DOMAIN pframes /\ Last(pframes) = pframes[Len(pframes)] /\ Len(pframes) \in Nat
  BY <1>4, StackPop DEF PInv, FramesOk
<1> QED
  BY <1>2, <1>4, <1>5 DEF PInv, FramesOk

\* Entries that differ only in where they are.
LEMMA EntryFields ==
  ASSUME NEW e, NEW d, NEW n, EntryOk(e, d, n)
  PROVE  /\ \A x : [e EXCEPT !.i = x] =
              [k |-> e.k, id |-> e.id, via |-> e.via, i |-> x, from |-> e.from, start |-> e.start,
               given |-> e.given]
         /\ \A x : [e EXCEPT !.from = x] =
              [k |-> e.k, id |-> e.id, via |-> e.via, i |-> e.i, from |-> x, start |-> e.start,
               given |-> e.given]
<1>1. PICK a1, a2, a3, a4, a5, a6, a7 :
        e = [k |-> a1, id |-> a2, via |-> a3, i |-> a4, from |-> a5, start |-> a6, given |-> a7]
  BY DEF EntryOk
<1>2. e.k = a1 /\ e.id = a2 /\ e.via = a3 /\ e.i = a4 /\ e.from = a5 /\ e.start = a6 /\ e.given = a7
  BY <1>1
<1>3. ASSUME NEW x
      PROVE  [e EXCEPT !.i = x] = [k |-> a1, id |-> a2, via |-> a3, i |-> x, from |-> a5,
                                   start |-> a6, given |-> a7]
  BY <1>1
<1>4. ASSUME NEW x
      PROVE  [e EXCEPT !.from = x] = [k |-> a1, id |-> a2, via |-> a3, i |-> a4, from |-> x,
                                      start |-> a6, given |-> a7]
  BY <1>1
<1> QED
  BY <1>2, <1>3, <1>4

LEMMA EntryMoved ==
  ASSUME NEW e, NEW d, NEW n, EntryOk(e, d, n), NEW x \in Nat
  PROVE  /\ EntryOk([e EXCEPT !.i = @ + 1], d, n)
         /\ [e EXCEPT !.i = @ + 1].k = e.k /\ [e EXCEPT !.i = @ + 1].via = e.via
         /\ EntryOk([e EXCEPT !.from = x], d, n)
         /\ [e EXCEPT !.from = x].k = e.k /\ [e EXCEPT !.from = x].via = e.via
<1>1. PICK g, h : g = [e EXCEPT !.i = @ + 1] /\ h = [e EXCEPT !.from = x]
  OBVIOUS
<1>2. /\ g = [k |-> e.k, id |-> e.id, via |-> e.via, i |-> e.i + 1, from |-> e.from, start |-> e.start,
              given |-> e.given]
      /\ h = [k |-> e.k, id |-> e.id, via |-> e.via, i |-> e.i, from |-> x, start |-> e.start,
              given |-> e.given]
  BY <1>1, EntryFields
<1>3. /\ g.k = e.k /\ g.id = e.id /\ g.via = e.via /\ g.i = e.i + 1 /\ g.from = e.from
      /\ g.start = e.start /\ g.given = e.given
      /\ h.k = e.k /\ h.id = e.id /\ h.via = e.via /\ h.i = e.i /\ h.from = x
      /\ h.start = e.start /\ h.given = e.given
  BY <1>2
<1>4. e.i + 1 \in Nat \ {0}
  BY DEF EntryOk
<1>5. EntryOk(g, d, n)
  BY <1>2, <1>3, <1>4 DEF EntryOk
<1>6. EntryOk(h, d, n)
  BY <1>2, <1>3 DEF EntryOk
<1> QED
  BY <1>1, <1>3, <1>5, <1>6

\* The stacks while the top moves and the output grows to n bytes.
LEMMA Moves ==
  ASSUME PInv, pctl # <<>>, NEW n \in Nat, Len(out) <= n, NEW e, EntryOk(e, Len(pframes), Len(out)),
         e.k = pack.k, e.via = pack.via
  PROVE  /\ CtlOk(SetTop(pctl, e), n) /\ SetTop(pctl, e) # <<>>
         /\ Len(pframes) = Depth(SetTop(pctl, e), Len(SetTop(pctl, e)))
<1>1. Len(out) \in Nat
  BY TopFacts
<1>2. /\ CtlOk(SetTop(pctl, e), Len(out)) /\ SetTop(pctl, e) # <<>>
      /\ Len(SetTop(pctl, e)) = Len(pctl)
      /\ Depth(SetTop(pctl, e), Len(pctl)) = Depth(pctl, Len(pctl))
  BY <1>1, CtlUpdate DEF PInv, pack
<1> QED
  BY <1>1, <1>2, CtlGrows DEF PInv

\* The field at hand has been written.
LEMMA Passes ==
  ASSUME PInv, pctl # <<>>, pctl' = PPassed, pmode' \in {"step", "ret"}, out' \in Seq(Byte),
         Len(out) <= Len(out'), FramesOk(pframes', Len(out')), Len(pframes') = Len(pframes),
         UNCHANGED <<input, dst, result>>
  PROVE  PInv'
<1>1. EntryOk(pack, Len(pframes), Len(out))
  BY TopFacts
<1>2. PICK e : e = [pack EXCEPT !.i = @ + 1]
  OBVIOUS
<1>3. EntryOk(e, Len(pframes), Len(out)) /\ e.k = pack.k /\ e.via = pack.via
  BY <1>1, <1>2, EntryMoved
<1>4. pctl' = SetTop(pctl, e)
  BY <1>2 DEF PPassed
<1>5. Len(out') \in Nat
  OBVIOUS
<1>6. CtlOk(pctl', Len(out')) /\ pctl' # <<>> /\ Len(pframes) = Depth(pctl', Len(pctl'))
  BY <1>3, <1>4, <1>5, Moves
<1> QED
  BY <1>6, GoOn DEF Running

LEMMA FirstFaultOk ==
  ASSUME PInv, NEW faults, \A i \in DOMAIN faults : faults[i] \in PackKinds, FirstFault(faults)
  PROVE  PInv'
  BY PFailOk DEF FirstFault

\* The field at hand.
LEMMA AtFieldFacts ==
  ASSUME Grounds, PInv, NEW o, PAtField(o)
  PROVE  /\ pctl # <<>> /\ pmode = "step" /\ pack.k = "struct" /\ Mapping(pack.given)
         /\ PNextAddr \in Addr /\ Code[PNextAddr].op = o
         /\ Levels.op[PNextAddr] <= Len(pframes)
         /\ OpOk(PFieldOp) /\ EncodesOk(PFieldOp)
<1>1. pctl # <<>> /\ pmode = "step" /\ pack.k = "struct"
  BY DEF PAtField, PInStruct
<1>2. EntryOk(pack, Len(pframes), Len(out)) /\ Len(pframes) \in Nat
  BY <1>1, TopFacts
<1>3. /\ pack.id \in ProgId /\ Levels.prog[pack.id] <= Len(pframes) /\ Mapping(pack.given)
      /\ pack.i \in Nat \ {0}
  BY <1>1, <1>2 DEF EntryOk
<1>4. Prog[pack.id] \in Seq(Addr)
  BY <1>3, ProgramAssumption
<1>5. pack.i \in DOMAIN Prog[pack.id] /\ pack.i \in 1 .. Len(Prog[pack.id])
  BY <1>3, <1>4 DEF PAtField, PMoreOps
<1>6. PNextAddr \in Addr
  BY <1>4, <1>5, ElementOfSeq DEF PNextAddr
<1>7. Levels.op[PNextAddr] <= Levels.prog[pack.id] /\ Levels.op \in [Addr -> Nat] /\ Levels.prog \in [ProgId -> Nat]
  BY <1>3, <1>5 DEF Grounds, WellScoped, PNextAddr
<1>8. Levels.op[PNextAddr] <= Len(pframes)
  <2>1. Levels.op[PNextAddr] \in Nat /\ Levels.prog[pack.id] \in Nat
    BY <1>3, <1>6, <1>7
  <2> QED
    BY <1>2, <1>3, <1>7, <2>1
<1>9. OpOk(PFieldOp) /\ EncodesOk(PFieldOp) /\ Code[PNextAddr].op = o
  BY <1>6, ProgramAssumption, EncoderAssumption DEF PFieldOp, PAtField
<1> QED
  BY <1>1, <1>3, <1>6, <1>8, <1>9

(***************************************************************************)
(* Runs of fields.                                                         *)
(***************************************************************************)
LEMMA PutFixedOk == ASSUME Grounds, PInv, PutFixed PROVE PInv'
<1> DEFINE items == PFieldOp.items
           in(item) == Given(pack.given, item.key)
           ins == [i \in DOMAIN items |-> in(items[i])]
           faults == [i \in DOMAIN items |-> PackFault(items[i], in(items[i]))]
           ints == {i \in DOMAIN items : items[i].kind = "Int"}
           numbers == [i \in ints |-> ItemNumber(items[i], in(items[i]))]
           slots == [i \in ints |-> [kind |-> "Int", pos |-> Len(out) + items[i].off,
                                     prim |-> items[i].prim, be |-> items[i].be]]
           bytes == FlattenSeq([i \in DOMAIN items |-> PackItem(items[i], in(items[i]))])
<1>1. /\ pctl # <<>> /\ pmode = "step" /\ Mapping(pack.given)
      /\ PFieldOp.op = "Fixed" /\ OpOk(PFieldOp) /\ EncodesOk(PFieldOp)
  BY AtFieldFacts DEF PutFixed, PFieldOp
<1>2. CASE FirstFault(faults)
  <2>1. \A i \in DOMAIN faults : faults[i] \in PackKinds
    BY PackFaultKind
  <2> QED
    BY <1>2, <2>1, FirstFaultOk
<1>3. CASE /\ NoFault(faults)
           /\ out' = out \o bytes
           /\ pframes' = SetTop(pframes, SpanItems(RunFrame(Last(pframes), items, numbers, slots), items))
           /\ pctl' = PPassed
           /\ UNCHANGED <<input, dst, pmode, pcur, arg, result>>
  <2>1. ASSUME NEW i \in DOMAIN items PROVE Vals(ins[i]) /\ PackFault(items[i], ins[i]) = "Ok"
    <3>1. faults[i] = "Ok"
      BY <1>3 DEF NoFault
    <3> QED
      BY <1>1, <3>1, GivenVals
  <2>2. bytes = FlattenSeq([i \in DOMAIN items |-> PackItem(items[i], ins[i])])
    <3>1. [i \in DOMAIN items |-> PackItem(items[i], ins[i])] =
            [i \in DOMAIN items |-> PackItem(items[i], in(items[i]))]
      OBVIOUS
    <3> QED
      BY <3>1
  <2> HIDE DEF ins, bytes
  <2>3. /\ bytes \in Seq(Byte)
        /\ \A i \in DOMAIN items : items[i].off + ItemWidth(items[i]) <= Len(bytes)
    BY <1>1, <2>1, <2>2, RunBytes DEF Grounds
  <2>4. FrameOk(Last(pframes), Len(out)) /\ Len(out) \in Nat /\ pframes # <<>> /\ FramesOk(pframes, Len(out))
    BY <1>1, TopFacts DEF PInv
  <2>5. /\ out' \in Seq(Byte) /\ Len(out') = Len(out) + Len(bytes) /\ Len(bytes) \in Nat
        /\ Len(out') \in Nat /\ Len(out) <= Len(out')
    <3>1. out \in Seq(Byte)
      BY DEF PInv
    <3>2. out \o bytes \in Seq(Byte) /\ Len(out \o bytes) = Len(out) + Len(bytes)
      BY <2>3, <3>1, ConcatProperties
    <3>3. Len(bytes) \in Nat
      BY <2>3
    <3> QED
      BY <1>3, <2>4, <3>2, <3>3
  <2>6. ASSUME NEW i \in DOMAIN items
        PROVE  /\ items[i].off \in Nat /\ ItemWidth(items[i]) \in Nat /\ ItemOk(items[i])
               /\ items[i].reg \subseteq Regs
               /\ items[i].off + ItemWidth(items[i]) <= Len(bytes)
    BY <1>1, <2>3 DEF OpOk, FixedOk, EncodesOk
  <2>7. FrameOk(Last(pframes), Len(out'))
    BY <2>4, <2>5, FrameGrows
  <2>8. ASSUME NEW i \in DOMAIN slots PROVE SlotOk(slots[i], Len(out'))
    <3>1. i \in DOMAIN items /\ items[i].kind = "Int" /\ ItemWidth(items[i]) = items[i].prim.w
      BY DEF ItemWidth
    <3>2. PICK s : s = slots[i]
      OBVIOUS
    <3>3. s.kind = "Int" /\ s.pos = Len(out) + items[i].off /\ s.prim = items[i].prim
      BY <3>2
    <3>4. SlotEnd(s) = s.pos + s.prim.w
      BY <3>3 DEF SlotEnd
    <3>5. SlotOk(s, Len(out'))
      BY <2>4, <2>5, <2>6, <3>1, <3>3, <3>4 DEF SlotOk
    <3> QED
      BY <3>2, <3>5
  <2>9. ASSUME NEW i \in DOMAIN slots, ~items[i].derived PROVE numbers[i] \in Int
    <3>1. i \in DOMAIN items /\ items[i].kind = "Int" /\ numbers[i] = ItemNumber(items[i], in(items[i]))
      OBVIOUS
    <3>2. Vals(in(items[i])) /\ PackFault(items[i], in(items[i])) = "Ok"
      BY <2>1, <3>1 DEF ins
    <3> QED
      BY <2>6, <2>9, <3>1, <3>2, ItemNumberType
  <2>10. Disjoint(items) /\ DOMAIN slots \subseteq DOMAIN items
    BY <1>1 DEF OpOk, FixedOk
  <2> HIDE DEF slots, numbers, items
  <2>11. PICK g : g = RunFrame(Last(pframes), items, numbers, slots)
    OBVIOUS
  <2>12. FrameOk(g, Len(out'))
    BY <2>6, <2>7, <2>8, <2>9, <2>10, <2>11, RunFrameOk DEF Grounds
  <2>13. FrameOk(SpanItems(g, items), Len(out'))
    <3> DEFINE at(s) == {i \in DOMAIN items : s \in items[i].span}
               it(s) == items[CHOOSE i \in at(s) : TRUE]
               S == [s \in Spans |-> IF at(s) = {} THEN g.spans[s]
                                     ELSE <<Len(out) + it(s).off, Len(out) + it(s).off + ItemWidth(it(s))>>]
    <3>1. ASSUME NEW s \in Spans PROVE S[s] \in Nat \X Nat /\ S[s][2] <= Len(out')
      <4>1. CASE at(s) = {}
        BY <2>12, <4>1 DEF FrameOk
      <4>2. CASE at(s) # {}
        <5>1. PICK i \in DOMAIN items : it(s) = items[i]
          BY <4>2
        <5>2. PICK x \in Nat, w \in Nat : x = items[i].off /\ w = ItemWidth(items[i]) /\ x + w <= Len(bytes)
          BY <2>6
        <5>3. S[s] = <<Len(out) + x, Len(out) + x + w>>
          BY <4>2, <5>1, <5>2
        <5> HIDE DEF S
        <5> QED
          BY <2>4, <2>5, <5>2, <5>3
      <4> QED
        BY <4>1, <4>2
    <3>2. S \in [Spans -> Nat \X Nat]
      <4>1. S = [s \in Spans |-> S[s]]
        OBVIOUS
      <4> HIDE DEF S
      <4> QED
        BY <3>1, <4>1
    <3>3. SpanItems(g, items) = [g EXCEPT !.spans = S]
      BY DEF SpanItems
    <3> HIDE DEF S
    <3> QED
      BY <2>12, <3>1, <3>2, <3>3, SpansOk
  <2>14. FramesOk(pframes', Len(out')) /\ Len(pframes') = Len(pframes)
    <3>1. pframes' = SetTop(pframes, SpanItems(g, items))
      BY <1>3, <2>11
    <3> QED
      BY <2>4, <2>5, <2>13, <3>1, FramesTop
  <2>15. pmode' \in {"step", "ret"} /\ pctl' = PPassed /\ UNCHANGED <<input, dst, result>>
    BY <1>1, <1>3
  <2> QED
    BY <1>1, <2>5, <2>14, <2>15, Passes
<1> QED
  BY <1>2, <1>3 DEF PutFixed

LEMMA PutBitsOk == ASSUME Grounds, PInv, PutBits PROVE PInv'
<1> DEFINE items == PFieldOp.items
           in(item) == Given(pack.given, item.key)
           faults == [i \in DOMAIN items |-> BitFault(items[i], in(items[i]))]
           numbers == [i \in DOMAIN items |-> BitNumber(items[i], in(items[i]))]
           slots == [i \in DOMAIN items |-> [kind |-> "Bits", pos |-> Len(out), off |-> items[i].off,
                                             width |-> items[i].width, signed |-> items[i].signed]]
           nbytes == PFieldOp.nbytes
           bytes == PackBits(nbytes, items, numbers)
<1>1. /\ pctl # <<>> /\ pmode = "step" /\ Mapping(pack.given)
      /\ PFieldOp.op = "BitRun" /\ OpOk(PFieldOp) /\ EncodesOk(PFieldOp)
  BY AtFieldFacts DEF PutBits, PFieldOp
<1>2. CASE FirstFault(faults)
  <2>1. \A i \in DOMAIN faults : faults[i] \in PackKinds
    BY BitFaultKind
  <2> QED
    BY <1>2, <2>1, FirstFaultOk
<1>3. CASE /\ NoFault(faults)
           /\ out' = out \o bytes
           /\ pframes' = SetTop(pframes, RunFrame(Last(pframes), items, numbers, slots))
           /\ pctl' = PPassed
           /\ UNCHANGED <<input, dst, pmode, pcur, arg, result>>
  <2>1. ASSUME NEW i \in DOMAIN items PROVE numbers[i] \in Int
    <3>1. faults[i] = "Ok" /\ numbers[i] = BitNumber(items[i], in(items[i]))
      BY <1>3 DEF NoFault
    <3>2. Vals(in(items[i]))
      BY <1>1, GivenVals
    <3> QED
      BY <3>1, <3>2, BitNumberType
  <2>2. /\ nbytes \in Nat /\ Disjoint(items) /\ Stack(items)
        /\ \A i \in DOMAIN items : BitItemOk(items[i], nbytes) /\ items[i].reg \subseteq Regs
    BY <1>1, IsStack DEF OpOk, EncodesOk
  <2> HIDE DEF numbers
  <2>3. bytes \in Seq(Byte) /\ Len(bytes) = nbytes
    BY <2>1, <2>2, PackBitsType DEF Grounds
  <2> HIDE DEF bytes
  <2>4. FrameOk(Last(pframes), Len(out)) /\ Len(out) \in Nat /\ pframes # <<>> /\ FramesOk(pframes, Len(out))
    BY <1>1, TopFacts DEF PInv
  <2>5. /\ out' \in Seq(Byte) /\ Len(out') = Len(out) + nbytes
        /\ Len(out') \in Nat /\ Len(out) <= Len(out')
    <3>1. out \in Seq(Byte)
      BY DEF PInv
    <3>2. out \o bytes \in Seq(Byte) /\ Len(out \o bytes) = Len(out) + nbytes
      BY <2>3, <3>1, ConcatProperties
    <3> QED
      BY <1>3, <2>2, <2>4, <3>2
  <2>6. FrameOk(Last(pframes), Len(out'))
    BY <2>4, <2>5, FrameGrows
  <2>7. ASSUME NEW i \in DOMAIN slots PROVE SlotOk(slots[i], Len(out'))
    <3>1. i \in DOMAIN items
      OBVIOUS
    <3>2. PICK s : s = slots[i]
      OBVIOUS
    <3>3. s.kind = "Bits" /\ s.pos = Len(out) /\ s.off = items[i].off /\ s.width = items[i].width
      BY <3>2
    <3>4. s.off \in Nat /\ s.width \in Nat /\ s.off + s.width \in Nat /\ s.off + s.width <= nbytes * ByteBits
      BY <2>2, <3>1, <3>3 DEF BitItemOk
    <3>5. /\ (s.off + s.width + ByteBits - 1) \div ByteBits \in Nat
          /\ (s.off + s.width + ByteBits - 1) \div ByteBits <= nbytes
      BY <2>2, <3>4, RoundUp
    <3>6. SlotEnd(s) = Len(out) + ((s.off + s.width + ByteBits - 1) \div ByteBits)
      BY <3>3 DEF SlotEnd
    <3>7. SlotOk(s, Len(out'))
      BY <2>2, <2>4, <2>5, <3>3, <3>4, <3>5, <3>6 DEF SlotOk
    <3> QED
      BY <3>2, <3>7
  <2>8. DOMAIN slots = DOMAIN items
    OBVIOUS
  <2> HIDE DEF slots, items
  <2>9. PICK g : g = RunFrame(Last(pframes), items, numbers, slots)
    OBVIOUS
  <2>10. FrameOk(g, Len(out'))
    BY <2>1, <2>2, <2>6, <2>7, <2>8, <2>9, RunFrameOk DEF Grounds
  <2>11. FramesOk(pframes', Len(out')) /\ Len(pframes') = Len(pframes)
    <3>1. pframes' = SetTop(pframes, g)
      BY <1>3, <2>9
    <3> QED
      BY <2>4, <2>5, <2>10, <3>1, FramesTop
  <2>12. pmode' \in {"step", "ret"} /\ pctl' = PPassed /\ UNCHANGED <<input, dst, result>>
    BY <1>1, <1>3
  <2> QED
    BY <1>1, <2>5, <2>11, <2>12, Passes
<1> QED
  BY <1>2, <1>3 DEF PutBits

LEMMA PutDigestOk == ASSUME Grounds, PInv, PutDigest PROVE PInv'
<1>1. /\ pctl # <<>> /\ pmode = "step" /\ PNextAddr \in DigestAddrs
  BY AtFieldFacts DEF PutDigest, DigestAddrs
<1>2. FrameOk(Last(pframes), Len(out)) /\ Len(out) \in Nat /\ pframes # <<>> /\ FramesOk(pframes, Len(out))
  BY <1>1, TopFacts DEF PInv
<1>3. ChecksumWidth \in Nat
  BY DEF ChecksumWidth
<1>4. Zeros(ChecksumWidth) \in Seq(Byte) /\ Len(Zeros(ChecksumWidth)) = ChecksumWidth
  BY <1>3, ZerosType DEF Grounds
<1>5. /\ out' \in Seq(Byte) /\ Len(out') = Len(out) + ChecksumWidth
      /\ Len(out') \in Nat /\ Len(out) <= Len(out')
  <2>1. out \in Seq(Byte)
    BY DEF PInv
  <2>2. /\ out \o Zeros(ChecksumWidth) \in Seq(Byte)
        /\ Len(out \o Zeros(ChecksumWidth)) = Len(out) + Len(Zeros(ChecksumWidth))
    BY <1>4, <2>1, ConcatProperties
  <2> QED
    BY <1>2, <1>3, <1>4, <2>2 DEF PutDigest
<1>6. PICK g : g = PSetSpan(Last(pframes), PFieldOp.span, Len(out), Len(out) + ChecksumWidth)
  OBVIOUS
<1>7. FrameOk(g, Len(out'))
  <2>1. FrameOk(Last(pframes), Len(out'))
    BY <1>2, <1>5, FrameGrows
  <2>2. Len(out) + ChecksumWidth \in Nat /\ Len(out) + ChecksumWidth <= Len(out')
    BY <1>2, <1>3, <1>5
  <2> QED
    BY <1>2, <1>5, <1>6, <2>1, <2>2, PSetSpanOk
<1>8. PICK d \in [at : DigestAddrs, pos : Nat] : d = [at |-> PNextAddr, pos |-> Len(out)]
  BY <1>1, <1>2
<1>9. FrameOk([g EXCEPT !.digests = Append(@, d)], Len(out'))
  BY <1>7, DigestAdded
<1>10. pframes' = SetTop(pframes, [g EXCEPT !.digests = Append(@, d)])
  BY <1>6, <1>8 DEF PutDigest
<1>11. FramesOk(pframes', Len(out')) /\ Len(pframes') = Len(pframes)
  BY <1>2, <1>5, <1>9, <1>10, FramesTop
<1>12. pmode' \in {"step", "ret"} /\ pctl' = PPassed /\ UNCHANGED <<input, dst, result>>
  BY <1>1 DEF PutDigest
<1> QED
  BY <1>1, <1>5, <1>11, <1>12, Passes

(***************************************************************************)
(* Fields with a value of their own.                                       *)
(***************************************************************************)
\* pack_value is called.
LEMMA PackValueOk ==
  ASSUME PInv, NEW a, NEW v, NEW ctl, PackValue(a, v, ctl), ctl # <<>>, CtlOk(ctl, Len(out)),
         Len(pframes) = Depth(ctl, Len(ctl)), ValueOk(a, v, Len(pframes))
  PROVE  PInv'
<1>1. /\ pmode' = "value" /\ pcur' = a /\ arg' = v /\ pctl' = ctl /\ out' = out /\ pframes' = pframes
      /\ UNCHANGED <<input, dst, result>>
  BY DEF PackValue
<1>2. out \in Seq(Byte) /\ FramesOk(pframes, Len(out))
  BY DEF PInv
<1> QED
  BY <1>1, <1>2, GoOn DEF Running

LEMMA PackNamedOk ==
  ASSUME Grounds, PInv, NEW a, PackNamed(a), pctl # <<>>, Mapping(pack.given),
         a \in Addr, Code[a].op \in ValueOps, Code[a].op = "Fixed" => Code[a].items # <<>>,
         Levels.op[a] <= Len(pframes)
  PROVE  PInv'
<1> DEFINE vs == Given(pack.given, PFieldOp.key)
<1>1. CASE PFail("Missing")
  BY <1>1, PFailOk DEF PackKinds
<1>2. ASSUME NEW x \in vs, PackValue(a, x, SetTop(pctl, [pack EXCEPT !.from = Len(out)])) PROVE PInv'
  <2>1. Val(x)
    BY GivenVals DEF Vals
  <2>2. EntryOk(pack, Len(pframes), Len(out)) /\ Len(out) \in Nat
    BY TopFacts
  <2>3. PICK e : e = [pack EXCEPT !.from = Len(out)]
    OBVIOUS
  <2>4. EntryOk(e, Len(pframes), Len(out)) /\ e.k = pack.k /\ e.via = pack.via
    BY <2>2, <2>3, EntryMoved
  <2>5. /\ CtlOk(SetTop(pctl, e), Len(out)) /\ SetTop(pctl, e) # <<>>
        /\ Len(pframes) = Depth(SetTop(pctl, e), Len(SetTop(pctl, e)))
    BY <2>2, <2>4, Moves
  <2>6. ValueOk(a, x, Len(pframes))
    BY <2>1 DEF ValueOk
  <2> QED
    BY <1>2, <2>3, <2>5, <2>6, PackValueOk
<1> QED
  BY <1>1, <1>2 DEF PackNamed

LEMMA EvalKinds == ASSUME NEW e PROVE PEval(e).kind \in PackKinds
<1>1. PEval(e) \in EvalResult
  BY WireAssumption DEF PEval, Eval, EvalResult, EvalFaults, Fault, I64
<1> QED
  BY <1>1 DEF EvalResult, EvalFaults, PackKinds

\* Where a value may stand.
LEMMA TargetOk ==
  ASSUME Grounds, NEW a \in Addr, NEW b \in TargetsOf(Code[a]), NEW d \in Nat, Levels.op[a] <= d
  PROVE  /\ b \in Addr /\ Code[b].op \in ValueOps /\ Levels.op[b] <= d
         /\ Code[b].op = "Fixed" => Code[b].items # <<>>
<1>1. b \in Addr /\ b \in ValuePositions
  <2>1. OpOk(Code[a])
    BY ProgramAssumption
  <2>2. CASE Code[a].op = "Array"
    BY <2>1, <2>2 DEF TargetsOf, OpOk, ValuePositions
  <2>3. CASE Code[a].op = "Cond"
    BY <2>1, <2>3 DEF TargetsOf, OpOk, ValuePositions
  <2>4. CASE Code[a].op = "Switch"
    <3>1. b \in Code[a].default \cup {Code[a].cases[i].to : i \in DOMAIN Code[a].cases}
      BY <2>4 DEF TargetsOf
    <3>2. b \in Addr
      BY <2>1, <2>4, <3>1 DEF OpOk
    <3> QED
      BY <2>4, <3>1, <3>2 DEF ValuePositions
  <2>5. CASE Code[a].op \notin {"Array", "Cond", "Switch"}
    BY <2>5 DEF TargetsOf
  <2> QED
    BY <2>2, <2>3, <2>4, <2>5
<1>2. Levels.op[b] <= Levels.op[a] /\ Levels.op \in [Addr -> Nat]
  BY DEF Grounds, WellScoped
<1>3. Levels.op[b] \in Nat /\ Levels.op[a] \in Nat
  BY <1>1, <1>2
<1> QED
  BY <1>1, <1>2, <1>3, PositionAssumption, EncoderAssumption

LEMMA PutCondOk == ASSUME Grounds, PInv, PutCond PROVE PInv'
<1> DEFINE p == PEval(PFieldOp.pred)
<1>1. /\ pctl # <<>> /\ pmode = "step" /\ Mapping(pack.given) /\ PNextAddr \in Addr
      /\ PFieldOp.op = "Cond" /\ PFieldOp = Code[PNextAddr] /\ Levels.op[PNextAddr] <= Len(pframes)
  BY AtFieldFacts DEF PutCond, PFieldOp
<1>2. Len(pframes) \in Nat /\ Len(out) \in Nat
  BY <1>1, TopFacts
<1>3. CASE PFail(p.kind)
  BY <1>3, EvalKinds, PFailOk
<1>4. CASE PackNamed(PFieldOp.then)
  <2>1. PFieldOp.then \in TargetsOf(Code[PNextAddr])
    BY <1>1 DEF TargetsOf
  <2> QED
    BY <1>1, <1>2, <1>4, <2>1, TargetOk, PackNamedOk
<1>5. CASE pctl' = PPassed /\ UNCHANGED <<input, dst, pmode, out, pframes, pcur, arg, result>>
  <2>1. /\ pmode' \in {"step", "ret"} /\ out' \in Seq(Byte) /\ Len(out) <= Len(out')
        /\ FramesOk(pframes', Len(out')) /\ Len(pframes') = Len(pframes)
        /\ UNCHANGED <<input, dst, result>>
    BY <1>1, <1>2, <1>5 DEF PInv
  <2> QED
    BY <1>1, <1>5, <2>1, Passes
<1> QED
  BY <1>3, <1>4, <1>5 DEF PutCond

LEMMA PutOtherOk == ASSUME Grounds, PInv, PutOther PROVE PInv'
<1>1. PICK o \in ValueOps \ {"Fixed"} : PAtField(o)
  BY DEF PutOther
<1>2. /\ pctl # <<>> /\ Mapping(pack.given) /\ PNextAddr \in Addr
      /\ Code[PNextAddr].op = o /\ Levels.op[PNextAddr] <= Len(pframes)
  BY <1>1, AtFieldFacts
<1> QED
  BY <1>1, <1>2, PackNamedOk DEF PutOther

LEMMA PutDoneOk == ASSUME Grounds, PInv, PutDone PROVE PInv'
<1>1. pctl # <<>>
  BY DEF PutDone, PInStruct
<1>2. /\ EntryOk(pack, Len(pframes), Len(out)) /\ Len(out) \in Nat
      /\ pframes # <<>> /\ FrameOk(Last(pframes), Len(out)) /\ FramesOk(pframes, Len(out))
  BY <1>1, TopFacts DEF PInv
<1>3. pack.from \in Nat
  BY <1>2 DEF EntryOk
<1>4. FrameOk(PSetSpan(Last(pframes), PFieldOp.span, pack.from, Len(out)), Len(out))
  BY <1>2, <1>3, PSetSpanOk
<1>5. FramesOk(pframes', Len(out)) /\ Len(pframes') = Len(pframes)
  BY <1>2, <1>4, FramesTop DEF PutDone
<1>6. /\ pmode' \in {"step", "ret"} /\ pctl' = PPassed /\ out' = out /\ out' \in Seq(Byte)
      /\ Len(out) <= Len(out') /\ UNCHANGED <<input, dst, result>>
  BY <1>2 DEF PutDone, PInv
<1> QED
  BY <1>1, <1>5, <1>6, Passes

(***************************************************************************)
(* Values.                                                                 *)
(***************************************************************************)
LEMMA AfterPatchOk ==
  ASSUME PInv, NEW r, NEW ctl, AfterPatch(r, ctl), NEW o \in Seq(Byte), NEW fs, Settled(r, o, fs),
         ctl # <<>>, CtlOk(ctl, Len(o)), Len(fs) = Depth(ctl, Len(ctl))
  PROVE  PInv'
<1>1. CASE PFail(r.kind)
  BY <1>1, PFailOk DEF Settled
<1>2. CASE /\ pmode' = "ret" /\ out' = r.out /\ pframes' = r.frames /\ pctl' = ctl
           /\ UNCHANGED <<input, dst, pcur, arg, result>>
  <2>1. r.out \in Seq(Byte) /\ Len(r.out) = Len(o) /\ FramesOk(r.frames, Len(o)) /\ Len(r.frames) = Len(fs)
    BY DEF Settled
  <2> QED
    BY <1>2, <2>1, GoOn DEF Running
<1> QED
  BY <1>1, <1>2 DEF AfterPatch

\* A value ends with an error, or with bytes after the output and, perhaps, a
\* length patched.
Fails == \E kind \in PackKinds : PFail(kind)
Settles(r, o, fs) == Leaves(r, o, fs) \/ Patches(r, o, fs)
Adds(raw, r) == AfterPatch(r, pctl) /\ Settles(r, out \o raw, pframes)
Appends == Fails \/ \E raw \in Seq(Byte) : \E r : Adds(raw, r)

LEMMA Failing == ASSUME NEW kind \in PackKinds, PFail(kind) PROVE Fails /\ Appends
  BY DEF Fails, Appends

LEMMA FirstFaultFails ==
  ASSUME NEW faults, \A i \in DOMAIN faults : faults[i] \in PackKinds, FirstFault(faults)
  PROVE  Fails /\ Appends
  BY Failing DEF FirstFault

LEMMA Extended ==
  ASSUME PInv, pctl # <<>>, NEW raw \in Seq(Byte), NEW o, o = out \o raw
  PROVE  /\ o \in Seq(Byte) /\ Len(raw) \in Nat /\ Len(o) \in Nat /\ Len(out) <= Len(o)
         /\ FramesOk(pframes, Len(o)) /\ CtlOk(pctl, Len(o))
<1>1. o \in Seq(Byte) /\ Len(o) = Len(out) + Len(raw)
  <2>1. out \in Seq(Byte)
    BY DEF PInv
  <2> QED
    BY <2>1, ConcatProperties
<1>2. Len(raw) \in Nat /\ Len(out) \in Nat /\ Len(o) \in Nat /\ Len(out) <= Len(o)
  BY <1>1, TopFacts
<1> QED
  BY <1>1, <1>2, FramesGrow, CtlGrows DEF PInv

LEMMA Extending ==
  ASSUME Grounds, PInv, pctl # <<>>, NEW raw \in Seq(Byte), NEW len,
         \A inv \in len.inv : InvOk(inv, Len(pframes)), Extend(raw, len)
  PROVE  Appends
<1>1. PICK o : o = out \o raw
  OBVIOUS
<1>2. o \in Seq(Byte) /\ Len(raw) \in Nat /\ FramesOk(pframes, Len(o))
  BY <1>1, Extended
<1>3. Settles(FinishLen(o, pframes, len, Len(raw)), o, pframes)
  BY <1>2, FinishLenCases DEF Grounds, Settles
<1>4. AfterPatch(FinishLen(o, pframes, len, Len(raw)), pctl)
  BY <1>1 DEF Extend
<1> QED
  BY <1>1, <1>3, <1>4 DEF Appends, Adds

LEMMA GreedyExtending ==
  ASSUME Grounds, PInv, pctl # <<>>, NEW raw \in Seq(Byte), Extend(raw, Greedy)
  PROVE  Appends
<1>1. Greedy.inv = {}
  BY DEF Greedy
<1> QED
  BY <1>1, Extending

LEMMA AppendsOk == ASSUME Grounds, PInv, pctl # <<>>, Appends PROVE PInv'
<1>1. CASE Fails
  BY <1>1, PFailOk DEF Fails
<1>2. ASSUME NEW raw \in Seq(Byte), NEW r, Adds(raw, r) PROVE PInv'
  <2>1. PICK o : o = out \o raw
    OBVIOUS
  <2>2. o \in Seq(Byte) /\ FramesOk(pframes, Len(o)) /\ CtlOk(pctl, Len(o))
    BY <2>1, Extended
  <2>3. AfterPatch(r, pctl) /\ Settled(r, o, pframes)
    BY <1>2, <2>1, <2>2, SettledOk DEF Adds, Settles, Grounds
  <2> QED
    BY <2>2, <2>3, AfterPatchOk DEF PInv
<1> QED
  BY <1>1, <1>2 DEF Appends

\* The lengths of an opcode settle in frames that are open.
LEMMA InvsOk ==
  ASSUME Grounds, NEW a \in Addr, NEW d \in Nat, Levels.op[a] <= d, NEW len \in LensOf(Code[a])
  PROVE  \A inv \in len.inv : InvOk(inv, d)
<1> SUFFICES ASSUME NEW inv \in len.inv PROVE InvOk(inv, d)
  OBVIOUS
<1>1. inv.a \in I64 \ {0} /\ inv.b \in I64 /\ inv.reg.up \in Nat /\ inv.reg.idx \in Regs
  BY EncoderAssumption DEF EncodesOk
<1>2. inv.reg.up < Levels.op[a] /\ Levels.op \in [Addr -> Nat]
  BY DEF Grounds, WellScoped
<1>3. Levels.op[a] \in Nat
  BY <1>2
<1>4. inv.reg.up < d
  BY <1>1, <1>2, <1>3
<1> QED
  BY <1>1, <1>4 DEF InvOk

LEMMA AtValueFacts ==
  ASSUME PInv, NEW o, PAtValue(o)
  PROVE  /\ pctl # <<>> /\ pcur \in Addr /\ POp = Code[pcur] /\ POp.op = o /\ Val(arg)
         /\ Levels.op[pcur] <= Len(pframes) /\ Len(pframes) \in Nat
         /\ POp.op = "Fixed" => POp.items # <<>>
         /\ OpOk(POp) /\ EncodesOk(POp)
<1>1. pmode = "value" /\ POp.op = o
  BY DEF PAtValue
<1>2. pctl # <<>> /\ ValueOk(pcur, arg, Len(pframes))
  BY <1>1 DEF PInv, Running
<1>3. Len(pframes) \in Nat
  BY <1>2, TopFacts
<1> QED
  BY <1>1, <1>2, <1>3, ProgramAssumption, EncoderAssumption DEF ValueOk, POp

LEMMA PackFixedAppends == ASSUME Grounds, PInv, PackFixed PROVE pctl # <<>> /\ Appends
<1> DEFINE item == POp.items[1]
<1>1. /\ pctl # <<>> /\ POp.op = "Fixed" /\ Val(arg) /\ POp.items # <<>>
      /\ OpOk(POp) /\ EncodesOk(POp)
  BY AtValueFacts DEF PackFixed
<1>2. 1 \in DOMAIN POp.items
  <2>1. POp.items \in Seq(Range(POp.items))
    BY <1>1 DEF EncodesOk
  <2> QED
    BY <1>1, <2>1
<1>3. ItemOk(item) /\ ItemWidth(item) \in Nat
  BY <1>1, <1>2 DEF OpOk, FixedOk, EncodesOk
<1>4. CASE PFail(PackFault(item, {arg}))
  BY <1>1, <1>4, PackFaultKind, Failing
<1>5. CASE PackFault(item, {arg}) = "Ok" /\ Extend(PackItem(item, {arg}), Greedy)
  <2>1. Vals({arg})
    BY <1>1 DEF Vals
  <2>2. PackItem(item, {arg}) \in Seq(Byte)
    BY <1>3, <1>5, <2>1, PackItemType DEF Grounds
  <2> QED
    BY <1>1, <1>5, <2>2, GreedyExtending
<1> QED
  BY <1>1, <1>4, <1>5 DEF PackFixed

LEMMA PackBytesAppends == ASSUME Grounds, PInv, PackBytes PROVE pctl # <<>> /\ Appends
<1>1. /\ pctl # <<>> /\ pcur \in Addr /\ POp = Code[pcur] /\ POp.op = "Bytes" /\ Val(arg)
      /\ Levels.op[pcur] <= Len(pframes) /\ Len(pframes) \in Nat
  BY AtValueFacts DEF PackBytes
<1>2. CASE PFail("Type") \/ PFail("Limit")
  BY <1>1, <1>2, Failing DEF PackKinds
<1>3. CASE arg[1] = "bytes" /\ Extend(arg[2], POp.len)
  <2>1. arg[2] \in Seq(Byte)
    BY <1>1, <1>3, ValParts
  <2>2. POp.len \in LensOf(Code[pcur])
    BY <1>1 DEF LensOf
  <2>3. \A inv \in POp.len.inv : InvOk(inv, Len(pframes))
    BY <1>1, <2>2, InvsOk
  <2> QED
    BY <1>1, <1>3, <2>1, <2>3, Extending
<1> QED
  BY <1>1, <1>2, <1>3 DEF PackBytes

LEMMA PackStrAppends == ASSUME Grounds, PInv, PackStr PROVE pctl # <<>> /\ Appends
<1>1. /\ pctl # <<>> /\ pcur \in Addr /\ POp = Code[pcur] /\ POp.op = "Str" /\ Val(arg)
      /\ Levels.op[pcur] <= Len(pframes) /\ Len(pframes) \in Nat
  BY AtValueFacts DEF PackStr
<1>2. CASE PFail("Type") \/ PFail("Encode") \/ PFail("Limit")
  BY <1>1, <1>2, Failing DEF PackKinds
<1>3. CASE arg[1] = "str" /\ Extend(arg[2], POp.len)
  <2>1. arg[2] \in Seq(Byte)
    BY <1>1, <1>3, ValParts
  <2>2. POp.len \in LensOf(Code[pcur])
    BY <1>1 DEF LensOf
  <2>3. \A inv \in POp.len.inv : InvOk(inv, Len(pframes))
    BY <1>1, <2>2, InvsOk
  <2> QED
    BY <1>1, <1>3, <2>1, <2>3, Extending
<1> QED
  BY <1>1, <1>2, <1>3 DEF PackStr

LEMMA PackCStrAppends == ASSUME Grounds, PInv, PackCStr PROVE pctl # <<>> /\ Appends
<1>1. pctl # <<>> /\ Val(arg)
  BY AtValueFacts DEF PackCStr
<1>2. CASE PFail("Type") \/ PFail("Encode") \/ PFail("NulInCstr") \/ PFail("Limit")
  BY <1>1, <1>2, Failing DEF PackKinds
<1>3. CASE arg[1] = "str" /\ Extend(Append(arg[2], 0), Greedy)
  <2>1. arg[2] \in Seq(Byte)
    BY <1>1, <1>3, ValParts
  <2>2. 0 \in Byte
    BY BasePositive DEF Grounds, Byte
  <2>3. Append(arg[2], 0) \in Seq(Byte)
    BY <2>1, <2>2, AppendProperties
  <2> QED
    BY <1>1, <1>3, <2>3, GreedyExtending
<1> QED
  BY <1>1, <1>2, <1>3 DEF PackCStr

LEMMA FlagFaultKind ==
  ASSUME NEW item, NEW in
  PROVE  /\ FlagFault(item, in) \in PackKinds
         /\ FlagFault(item, in) = "Ok" /\ item.width # 1 => \A v \in in : IsInt(v)
<1>1. FlagFault(item, in) \in PackKinds
  BY DEF FlagFault, PackKinds
<1>2. ASSUME item.width # 1, NEW v \in in, ~IsInt(v) PROVE FlagFault(item, in) # "Ok"
  BY <1>2 DEF FlagFault
<1> QED
  BY <1>1, <1>2

LEMMA FlagNumberType ==
  ASSUME NEW item, NEW in, Vals(in), FlagFault(item, in) = "Ok"
  PROVE  FlagNumber(item, in) \in Int
<1>1. CASE in = {}
  BY <1>1 DEF FlagNumber
<1>2. CASE in # {} /\ item.width = 1
  <2>1. FlagNumber(item, in) = IF \E v \in in : Truthy(v) THEN 1 ELSE 0
    BY <1>2 DEF FlagNumber
  <2> QED
    BY <2>1
<1>3. CASE in # {} /\ item.width # 1
  <2>1. PICK v \in in : v = CHOOSE x \in in : TRUE
    BY <1>3
  <2>2. AsInt(v) \in Int
    BY <1>3, FlagFaultKind, AsIntType DEF Vals
  <2>3. FlagNumber(item, in) = AsInt(v)
    BY <1>3, <2>1 DEF FlagNumber
  <2> QED
    BY <2>2, <2>3
<1> QED
  BY <1>1, <1>2, <1>3

LEMMA PackFlagsAppends == ASSUME Grounds, PInv, PackFlags PROVE pctl # <<>> /\ Appends
<1> DEFINE items == POp.items
           keep == IF POp.rest = "Keep" THEN {"_rest"} ELSE {}
           in(item) == Given(arg[2], {item.key})
           faults == [i \in DOMAIN items |-> FlagFault(items[i], in(items[i]))]
           rest == Given(arg[2], keep)
           extra == IF rest = {} THEN 0 ELSE AsInt(CHOOSE v \in rest : TRUE)
           terms == [i \in DOMAIN items |-> FlagNumber(items[i], in(items[i])) * 2 ^ items[i].shift]
           raw == extra + Total(terms)
<1>1. /\ pctl # <<>> /\ POp.op = "Flags" /\ Val(arg) /\ OpOk(POp) /\ EncodesOk(POp)
  BY AtValueFacts DEF PackFlags
<1>2. CASE PFail("Type") \/ PFail("UnknownFlag") \/ PFail("Range")
  BY <1>1, <1>2, Failing DEF PackKinds
<1>3. CASE FirstFault(faults)
  <2>1. \A i \in DOMAIN faults : faults[i] \in PackKinds
    BY FlagFaultKind
  <2> QED
    BY <1>1, <1>3, <2>1, FirstFaultFails
<1>4. CASE /\ arg[1] = "map" /\ NoFault(faults) /\ \A v \in rest : IsInt(v)
           /\ Extend(WriteUint(POp.prim.w, POp.be, raw), Greedy)
  <2>1. Mapping(arg[2])
    BY <1>1, <1>4, ValParts
  <2>2. extra \in Int
    <3>1. CASE rest = {}
      BY <3>1
    <3>2. CASE rest # {}
      <4>1. PICK v \in rest : v = CHOOSE x \in rest : TRUE
        BY <3>2
      <4>2. Vals(rest)
        BY <2>1, GivenVals
      <4>3. AsInt(v) \in Int
        BY <1>4, <4>2, AsIntType DEF Vals
      <4>4. extra = AsInt(v)
        BY <3>2, <4>1
      <4> QED
        BY <4>3, <4>4
    <3> QED
      BY <3>1, <3>2
  <2>3. ASSUME NEW i \in DOMAIN items PROVE terms[i] \in Int
    <3>1. FlagFault(items[i], in(items[i])) = "Ok"
      <4>1. faults[i] = "Ok"
        BY <1>4 DEF NoFault
      <4> QED
        BY <4>1
    <3>2. Vals(in(items[i]))
      BY <2>1, GivenVals
    <3>3. PICK x \in Int : x = FlagNumber(items[i], in(items[i]))
      BY <3>1, <3>2, FlagNumberType
    <3>4. PICK n \in Nat : n = items[i].shift
      BY <1>1 DEF EncodesOk
    <3>5. PICK y \in Nat : y = 2 ^ items[i].shift
      <4>1. 2 ^ n \in Nat \ {0}
        BY PowerPositive DEF Grounds
      <4> QED
        BY <3>4, <4>1
    <3>6. terms[i] = x * y
      BY <3>3, <3>5
    <3> QED
      BY <3>6
  <2>4. terms \in Seq(Int)
    <3>1. items \in Seq(Range(items))
      BY <1>1 DEF EncodesOk
    <3>2. DOMAIN items = 1 .. Len(items) /\ Len(items) \in Nat
      BY <3>1
    <3>3. terms = [i \in 1 .. Len(items) |-> terms[i]]
      BY <3>2
    <3> HIDE DEF terms, items
    <3>4. terms \in [1 .. Len(items) -> Int]
      BY <2>3, <3>2, <3>3
    <3> QED
      BY <3>2, <3>4
  <2>5. raw \in Int
    <3>1. Total(terms) \in Int
      BY <2>4, TotalType
    <3> HIDE DEF extra, terms
    <3> QED
      BY <2>2, <3>1
  <2>6. POp.prim.w \in Nat
    BY <1>1 DEF OpOk
  <2> HIDE DEF raw
  <2>7. WriteUint(POp.prim.w, POp.be, raw) \in Seq(Byte)
    BY <2>5, <2>6, WriteUintType DEF Grounds
  <2> QED
    BY <1>1, <1>4, <2>7, GreedyExtending
<1> QED
  BY <1>1, <1>2, <1>3, <1>4 DEF PackFlags

LEMMA ValueAppends ==
  ASSUME Grounds, PInv, PackFixed \/ PackBytes \/ PackStr \/ PackCStr \/ PackFlags
  PROVE  pctl # <<>> /\ Appends
  BY PackFixedAppends, PackBytesAppends, PackStrAppends, PackCStrAppends, PackFlagsAppends

LEMMA EnterScopeOk ==
  ASSUME PInv, NEW p \in ProgId, NEW via, NEW v, Val(v), EnterScope(p, via, v),
         Levels.prog[p] <= Len(pframes) + 1,
         pctl # <<>> => via \in Addr /\ Code[via].op = "Nest" /\ Levels.op[via] <= Len(pframes)
  PROVE  PInv'
<1>1. CASE PFail("Type")
  BY <1>1, PFailOk DEF PackKinds
<1>2. CASE /\ v[1] = "map"
           /\ pmode' = "step"
           /\ pctl' = Append(pctl, [k |-> "struct", id |-> p, via |-> via, i |-> 1, from |-> 0,
                                    start |-> Len(out), given |-> v[2]])
           /\ pframes' = Append(pframes, NewPFrame)
           /\ UNCHANGED <<input, dst, out, pcur, arg, result>>
  <2>1. PICK e : e = [k |-> "struct", id |-> p, via |-> via, i |-> 1, from |-> 0,
                      start |-> Len(out), given |-> v[2]]
    OBVIOUS
  <2>2. /\ e.k = "struct" /\ e.id = p /\ e.via = via /\ e.i = 1 /\ e.from = 0 /\ e.start = Len(out)
        /\ e.given = v[2]
    BY <2>1
  <2>3. out \in Seq(Byte) /\ Len(out) \in Nat /\ CtlOk(pctl, Len(out)) /\ FramesOk(pframes, Len(out))
    BY DEF PInv
  <2>4. Len(pframes) = Depth(pctl, Len(pctl)) /\ Len(pframes) \in Nat
    BY <2>3 DEF PInv, FramesOk, Stack
  <2>5. Mapping(v[2])
    BY <1>2, ValParts
  <2>6. EntryOk(e, Len(pframes) + 1, Len(out))
    BY <2>1, <2>2, <2>3, <2>5 DEF EntryOk
  <2>7. pctl # <<>> => ViaOk(e, Len(pframes) + 1)
    BY <2>2, <2>4 DEF ViaOk
  <2>8. /\ CtlOk(Append(pctl, e), Len(out)) /\ Append(pctl, e) # <<>>
        /\ Depth(Append(pctl, e), Len(Append(pctl, e))) = Len(pframes) + 1
    BY <2>2, <2>3, <2>4, <2>6, <2>7, CtlPush
  <2>9. FramesOk(pframes', Len(out)) /\ Len(pframes') = Len(pframes) + 1
    BY <1>2, <2>3, NewPFrameOk, FramesPush
  <2>10. pctl' = Append(pctl, e) /\ pmode' \in Running /\ pmode' # "value" /\ out' = out
         /\ UNCHANGED <<input, dst, result>>
    BY <1>2, <2>1 DEF Running
  <2> QED
    BY <2>3, <2>8, <2>9, <2>10, GoOn
<1> QED
  BY <1>1, <1>2 DEF EnterScope

LEMMA PackCallOk == ASSUME Grounds, PInv, PackCall PROVE PInv'
<1>1. pctl = <<>> /\ EnterScope(input.root, NoOp, input.value)
  BY DEF PackCall, PInv, Running
<1>2. input.root \in ProgId /\ Val(input.value) /\ Levels.prog[input.root] <= 1
  BY InputAssumption DEF PInv, Grounds, WellScoped
<1>3. Len(pframes) = 0
  BY <1>1, DepthZero DEF PInv
<1> QED
  BY <1>1, <1>2, <1>3, EnterScopeOk

LEMMA PackNestOk == ASSUME Grounds, PInv, PackNest PROVE PInv'
<1>1. /\ pctl # <<>> /\ pcur \in Addr /\ POp = Code[pcur] /\ POp.op = "Nest" /\ Val(arg)
      /\ Levels.op[pcur] <= Len(pframes) /\ Len(pframes) \in Nat /\ OpOk(POp)
  BY AtValueFacts DEF PackNest
<1>2. POp.prog \in ProgId
  BY <1>1 DEF OpOk
<1>3. Levels.prog[POp.prog] <= Levels.op[pcur] + 1 /\ Levels.prog[POp.prog] \in Nat /\ Levels.op[pcur] \in Nat
  BY <1>1, <1>2 DEF Grounds, WellScoped
<1>4. Levels.prog[POp.prog] <= Len(pframes) + 1
  BY <1>1, <1>3
<1>5. EnterScope(POp.prog, pcur, arg)
  BY DEF PackNest
<1> QED
  BY <1>1, <1>2, <1>4, <1>5, EnterScopeOk

LEMMA PackArrayOk == ASSUME Grounds, PInv, PackArray PROVE PInv'
<1>1. /\ pctl # <<>> /\ pcur \in Addr /\ POp = Code[pcur] /\ POp.op = "Array" /\ Val(arg)
      /\ Levels.op[pcur] <= Len(pframes) /\ Len(pframes) \in Nat
  BY AtValueFacts DEF PackArray
<1>2. CASE PFail("Type")
  BY <1>2, PFailOk DEF PackKinds
<1>3. CASE /\ arg[1] = "list"
           /\ pmode' = "step"
           /\ pctl' = Append(pctl, [k |-> "array", id |-> pcur, via |-> NoOp, i |-> 1, from |-> 0,
                                    start |-> Len(out), given |-> arg[2]])
           /\ UNCHANGED <<input, dst, out, pframes, pcur, arg, result>>
  <2>1. PICK e : e = [k |-> "array", id |-> pcur, via |-> NoOp, i |-> 1, from |-> 0,
                      start |-> Len(out), given |-> arg[2]]
    OBVIOUS
  <2>2. /\ e.k = "array" /\ e.id = pcur /\ e.i = 1 /\ e.from = 0 /\ e.start = Len(out) /\ e.given = arg[2]
    BY <2>1
  <2>3. /\ out \in Seq(Byte) /\ Len(out) \in Nat /\ CtlOk(pctl, Len(out)) /\ FramesOk(pframes, Len(out))
        /\ Len(pframes) = Depth(pctl, Len(pctl))
    BY DEF PInv
  <2>4. Listing(arg[2])
    BY <1>1, <1>3, ValParts
  <2>5. EntryOk(e, Len(pframes), Len(out))
    BY <1>1, <2>1, <2>2, <2>3, <2>4 DEF EntryOk
  <2>6. /\ CtlOk(Append(pctl, e), Len(out)) /\ Append(pctl, e) # <<>>
        /\ Depth(Append(pctl, e), Len(Append(pctl, e))) = Len(pframes)
    <3>1. e.k # "struct"
      BY <2>2
    <3>2. Len(pframes) = Depth(pctl, Len(pctl)) + (IF e.k = "struct" THEN 1 ELSE 0)
      BY <1>1, <2>3, <3>1
    <3> QED
      BY <1>1, <2>3, <2>5, <3>1, <3>2, CtlPush
  <2>7. /\ pctl' = Append(pctl, e) /\ pmode' \in Running /\ pmode' # "value" /\ out' = out
        /\ pframes' = pframes /\ UNCHANGED <<input, dst, result>>
    BY <1>3, <2>1 DEF Running
  <2> QED
    BY <2>3, <2>6, <2>7, GoOn
<1> QED
  BY <1>2, <1>3 DEF PackArray

LEMMA PackSwitchOk == ASSUME Grounds, PInv, PackSwitch PROVE PInv'
<1> DEFINE tag == PEval(POp.on)
           hits == {POp.cases[i].to : i \in {j \in DOMAIN POp.cases : POp.cases[j].tag = tag.v}}
           targets == IF hits # {} THEN hits ELSE POp.default
<1>1. /\ pctl # <<>> /\ pcur \in Addr /\ POp = Code[pcur] /\ POp.op = "Switch" /\ Val(arg)
      /\ Levels.op[pcur] <= Len(pframes) /\ Len(pframes) \in Nat
  BY AtValueFacts DEF PackSwitch
<1>2. CASE PFail(tag.kind)
  BY <1>2, EvalKinds, PFailOk
<1>3. CASE PFail("NoCase")
  BY <1>3, PFailOk DEF PackKinds
<1>4. ASSUME NEW a \in targets, PackValue(a, arg, pctl) PROVE PInv'
  <2>1. a \in TargetsOf(Code[pcur])
    <3>1. a \in POp.default \cup {POp.cases[i].to : i \in DOMAIN POp.cases}
      <4> HIDE DEF tag
      <4> QED
        OBVIOUS
    <3> QED
      BY <1>1, <3>1 DEF TargetsOf
  <2>2. /\ a \in Addr /\ Code[a].op \in ValueOps /\ Levels.op[a] <= Len(pframes)
        /\ Code[a].op = "Fixed" => Code[a].items # <<>>
    BY <1>1, <2>1, TargetOk
  <2>3. ValueOk(a, arg, Len(pframes))
    BY <1>1, <2>2 DEF ValueOk
  <2>4. CtlOk(pctl, Len(out)) /\ Len(pframes) = Depth(pctl, Len(pctl))
    BY DEF PInv
  <2> QED
    BY <1>1, <1>4, <2>3, <2>4, PackValueOk
<1> QED
  BY <1>2, <1>3, <1>4 DEF PackSwitch

(***************************************************************************)
(* The array loop and the end of a scope.                                  *)
(***************************************************************************)
LEMMA InArrayFacts ==
  ASSUME PInv, PInArray
  PROVE  /\ pctl # <<>> /\ pack.k = "array" /\ pack.id \in Addr /\ Code[pack.id].op = "Array"
         /\ Levels.op[pack.id] <= Len(pframes) /\ Len(pframes) \in Nat
         /\ Listing(pack.given) /\ pack.i \in Nat \ {0}
<1>1. pctl # <<>> /\ pack.k = "array"
  BY DEF PInArray
<1>2. EntryOk(pack, Len(pframes), Len(out)) /\ Len(pframes) \in Nat
  BY <1>1, TopFacts
<1> QED
  BY <1>1, <1>2 DEF EntryOk

LEMMA PutElemOk == ASSUME Grounds, PInv, PutElem PROVE PInv'
<1>1. /\ pctl # <<>> /\ pack.id \in Addr /\ Code[pack.id].op = "Array"
      /\ Levels.op[pack.id] <= Len(pframes) /\ Len(pframes) \in Nat
      /\ Listing(pack.given) /\ pack.i \in Nat \ {0} /\ pack.i <= Len(pack.given)
  BY InArrayFacts DEF PutElem
<1>2. Val(pack.given[pack.i])
  <2>1. DOMAIN pack.given = 1 .. Len(pack.given) /\ Len(pack.given) \in Nat
    BY <1>1 DEF Listing, Stack
  <2>2. pack.i \in DOMAIN pack.given
    BY <1>1, <2>1
  <2> QED
    BY <1>1, <2>2 DEF Listing
<1>3. PICK a : a = Code[pack.id].elem
  OBVIOUS
<1>4. a \in TargetsOf(Code[pack.id])
  BY <1>1, <1>3 DEF TargetsOf
<1>5. /\ a \in Addr /\ Code[a].op \in ValueOps /\ Levels.op[a] <= Len(pframes)
      /\ Code[a].op = "Fixed" => Code[a].items # <<>>
  BY <1>1, <1>4, TargetOk
<1>6. ValueOk(a, pack.given[pack.i], Len(pframes))
  BY <1>2, <1>5 DEF ValueOk
<1>7. CtlOk(pctl, Len(out)) /\ Len(pframes) = Depth(pctl, Len(pctl))
  BY DEF PInv
<1>8. PackValue(a, pack.given[pack.i], pctl)
  BY <1>3 DEF PutElem
<1> QED
  BY <1>1, <1>6, <1>7, <1>8, PackValueOk

LEMMA PutElemDoneOk == ASSUME Grounds, PInv, PutElemDone PROVE PInv'
<1>1. pctl # <<>>
  BY DEF PutElemDone, PInArray
<1>2. Len(out) \in Nat
  BY <1>1, TopFacts
<1>3. /\ pmode' \in {"step", "ret"} /\ out' \in Seq(Byte) /\ Len(out) <= Len(out')
      /\ FramesOk(pframes', Len(out')) /\ Len(pframes') = Len(pframes)
      /\ UNCHANGED <<input, dst, result>> /\ pctl' = PPassed
  BY <1>2 DEF PInv, PutElemDone
<1> QED
  BY <1>1, <1>3, Passes

LEMMA PutArrayEndOk == ASSUME Grounds, PInv, PutArrayEnd PROVE PInv'
<1>1. /\ pctl # <<>> /\ pack.k = "array" /\ pack.id \in Addr /\ Code[pack.id].op = "Array"
      /\ Levels.op[pack.id] <= Len(pframes) /\ Len(pframes) \in Nat /\ Listing(pack.given)
  BY InArrayFacts DEF PutArrayEnd
<1>2. PICK len : len = Code[pack.id].count
  OBVIOUS
<1>3. \A inv \in len.inv : InvOk(inv, Len(pframes))
  <2>1. len \in LensOf(Code[pack.id])
    BY <1>1, <1>2 DEF LensOf
  <2> QED
    BY <1>1, <2>1, InvsOk
<1>4. Len(pack.given) \in Nat
  BY <1>1 DEF Listing, Stack
<1>5. /\ out \in Seq(Byte) /\ Len(out) \in Nat /\ FramesOk(pframes, Len(out)) /\ CtlOk(pctl, Len(out))
      /\ Len(pframes) = Depth(pctl, Len(pctl))
  BY DEF PInv
<1>6. Settled(FinishLen(out, pframes, len, Len(pack.given)), out, pframes)
  BY <1>3, <1>4, <1>5, FinishLenOk DEF Grounds
<1>7. /\ CtlOk(Front(pctl), Len(out)) /\ Front(pctl) # <<>>
      /\ Len(pframes) = Depth(Front(pctl), Len(Front(pctl)))
  <2>1. Last(pctl).k # "struct"
    BY <1>1 DEF pack
  <2>2. /\ CtlOk(Front(pctl), Len(out)) /\ Front(pctl) # <<>>
        /\ Depth(Front(pctl), Len(Front(pctl))) =
             Depth(pctl, Len(pctl)) - (IF Last(pctl).k = "struct" THEN 1 ELSE 0)
    BY <1>1, <1>5, <2>1, CtlPop
  <2> QED
    BY <1>1, <1>5, <2>1, <2>2
<1>8. AfterPatch(FinishLen(out, pframes, len, Len(pack.given)), Front(pctl))
  BY <1>2 DEF PutArrayEnd
<1> QED
  BY <1>5, <1>6, <1>7, <1>8, AfterPatchOk

\* A scope ends inside another one.
Closes(o, r) ==
  /\ AfterPatch(r, Front(pctl)) /\ Settles(r, o, Front(pframes))
  /\ o \in Seq(Byte) /\ FramesOk(Front(pframes), Len(o)) /\ CtlOk(Front(pctl), Len(o)) /\ Front(pctl) # <<>>
  /\ Len(Front(pframes)) = Depth(Front(pctl), Len(Front(pctl)))

LEMMA LeaveScopeCases ==
  ASSUME Grounds, PInv, LeaveScope, NEW o, o = Seal(out, pack.start, Last(pframes))
  PROVE  /\ pctl # <<>> /\ pack.k = "struct" /\ o \in Seq(Byte) /\ pack.start \in Nat
         /\ Deliver(o) \/ \E r : Closes(o, r)
<1>1. pctl # <<>> /\ pack.k = "struct"
  BY DEF LeaveScope, PInStruct
<1>2. /\ EntryOk(pack, Len(pframes), Len(out)) /\ Len(out) \in Nat /\ Len(pframes) \in Nat
      /\ pframes # <<>> /\ FrameOk(Last(pframes), Len(out))
      /\ out \in Seq(Byte) /\ FramesOk(pframes, Len(out)) /\ CtlOk(pctl, Len(out))
      /\ Len(pframes) = Depth(pctl, Len(pctl))
  BY <1>1, TopFacts DEF PInv
<1>3. pack.start \in Nat /\ pack.start <= Len(out)
  BY <1>2 DEF EntryOk
<1>4. o \in Seq(Byte) /\ Len(o) = Len(out)
  BY <1>2, <1>3, SealType DEF Grounds
<1>6. CASE /\ Len(pctl) > 1
           /\ LET size == Code[pack.via].size
                  len == IF size = {} THEN Greedy ELSE CHOOSE l \in size : TRUE
              IN  AfterPatch(FinishLen(o, Front(pframes), len, Len(o) - pack.start), Front(pctl))
  <2> DEFINE size == Code[pack.via].size
             len == IF size = {} THEN Greedy ELSE CHOOSE l \in size : TRUE
  <2>1. pack.via \in Addr /\ Code[pack.via].op = "Nest" /\ Levels.op[pack.via] <= Len(pframes) - 1
    <3>1. /\ Len(pctl) \in Nat /\ Len(pctl) \in DOMAIN pctl /\ pack = pctl[Len(pctl)]
      BY <1>1, <1>2, StackPop DEF CtlOk, pack
    <3>2. ViaOk(pack, Depth(pctl, Len(pctl)))
      BY <1>1, <1>2, <1>6, <3>1 DEF CtlOk
    <3> QED
      BY <1>2, <3>2 DEF ViaOk
  <2>2. FramesOk(Front(pframes), Len(o)) /\ Len(Front(pframes)) = Len(pframes) - 1
    BY <1>2, <1>4, FramesPop
  <2>3. Len(pframes) - 1 \in Nat
    BY <1>2
  <2>4. \A inv \in len.inv : InvOk(inv, Len(pframes) - 1)
    <3>1. CASE size = {}
      BY <3>1 DEF Greedy
    <3>2. CASE size # {}
      <4>1. len \in LensOf(Code[pack.via])
        BY <2>1, <3>2 DEF LensOf
      <4> HIDE DEF len
      <4> QED
        BY <2>1, <2>3, <4>1, InvsOk
    <3> QED
      BY <3>1, <3>2
  <2>5. Len(o) - pack.start \in Nat
    BY <1>2, <1>3, <1>4
  <2> HIDE DEF len
  <2>6. Settles(FinishLen(o, Front(pframes), len, Len(o) - pack.start), o, Front(pframes))
    BY <1>4, <2>2, <2>4, <2>5, FinishLenCases DEF Grounds, Settles
  <2>7. /\ CtlOk(Front(pctl), Len(o)) /\ Front(pctl) # <<>>
        /\ Depth(Front(pctl), Len(Front(pctl))) = Len(pframes) - 1
    <3>1. Last(pctl).k = "struct"
      BY <1>1 DEF pack
    <3>2. /\ CtlOk(Front(pctl), Len(out)) /\ Front(pctl) # <<>>
          /\ Depth(Front(pctl), Len(Front(pctl))) =
               Depth(pctl, Len(pctl)) - (IF Last(pctl).k = "struct" THEN 1 ELSE 0)
      BY <1>1, <1>2, <1>6, CtlPop
    <3> QED
      BY <1>2, <1>4, <3>1, <3>2
  <2>8. AfterPatch(FinishLen(o, Front(pframes), len, Len(o) - pack.start), Front(pctl))
    BY <1>6 DEF len
  <2>9. Closes(o, FinishLen(o, Front(pframes), len, Len(o) - pack.start))
    BY <1>4, <2>2, <2>6, <2>7, <2>8 DEF Closes
  <2> QED
    BY <1>1, <1>3, <1>4, <2>9
<1> QED
  BY <1>1, <1>3, <1>4, <1>6 DEF LeaveScope

LEMMA LeaveScopeOk == ASSUME Grounds, PInv, LeaveScope PROVE PInv'
<1>1. PICK o : o \in Seq(Byte) /\ (Deliver(o) \/ \E r : Closes(o, r))
  BY LeaveScopeCases
<1>2. CASE Deliver(o)
  <2>1. CASE PStop("Ok", "Ok", o) /\ UNCHANGED dst
    <3>1. dst' \in Seq(Byte)
      BY <2>1 DEF PInv
    <3> QED
      BY <1>1, <2>1, <3>1, PStopOk DEF PackKinds
  <2>2. CASE PFail("Buffer")
    BY <2>2, PFailOk DEF PackKinds
  <2>3. ASSUME NEW off \in input.into, PStop("Ok", "Ok", o), dst' = WriteAt(dst, off, o) PROVE PInv'
    <3>1. off \in Nat
      BY InputAssumption DEF PInv
    <3>2. dst' \in Seq(Byte)
      BY <1>1, <2>3, <3>1, WriteAtType DEF PInv
    <3> QED
      BY <1>1, <2>3, <3>2, PStopOk DEF PackKinds
  <2> QED
    BY <1>2, <2>1, <2>2, <2>3 DEF Deliver
<1>3. ASSUME NEW r, Closes(o, r) PROVE PInv'
  <2>1. Settled(r, o, Front(pframes))
    BY <1>3, SettledOk DEF Closes, Settles, Grounds
  <2> QED
    BY <1>3, <2>1, AfterPatchOk DEF Closes
<1> QED
  BY <1>1, <1>2, <1>3

(***************************************************************************)
(* The theorems.                                                           *)
(***************************************************************************)
LEMMA PackInitOk == ASSUME PackInit PROVE PInv
<1>1. <<>> \in Seq(Byte) /\ dst \in Seq(Byte) /\ result \in [tag : {"none", "Ok", "Err"}, kind : PackKinds]
  BY InputAssumption DEF PackInit, PackIdle, PackKinds
<1>2. CtlOk(pctl, Len(out)) /\ FramesOk(pframes, Len(out)) /\ Len(pframes) = Depth(pctl, Len(pctl))
  BY NothingOpen DEF PackInit, PackIdle
<1> QED
  BY <1>1, <1>2 DEF PInv, PackInit, PackIdle, Running

LEMMA PackStepOk == ASSUME Grounds, PInv, [PackStep \/ PackReturned]_pvars PROVE PInv'
<1>1. CASE PackCall
  BY <1>1, PackCallOk
<1>2. CASE PutField
  BY <1>2, PutFixedOk, PutBitsOk, PutDigestOk, PutCondOk, PutOtherOk, PutDoneOk DEF PutField
<1>3. CASE PutValue
  BY <1>3, ValueAppends, AppendsOk, PackNestOk, PackArrayOk, PackSwitchOk DEF PutValue
<1>4. CASE PutArray
  BY <1>4, PutElemOk, PutElemDoneOk, PutArrayEndOk DEF PutArray
<1>5. CASE LeaveScope
  BY <1>5, LeaveScopeOk
<1>6. CASE UNCHANGED pvars
  BY <1>6 DEF pvars, PInv
<1> QED
  BY <1>1, <1>2, <1>3, <1>4, <1>5, <1>6 DEF PackStep, PackReturned

\* The calls the theorems are about: programs whose lengths refer to scopes
\* they lie in, and values that Python objects can be read as.
Wellformed == PowerLaw /\ (\E l : WellScoped(l)) /\ \A i \in Inputs : Val(i.value)

LEMMA GroundsHold == ASSUME Wellformed PROVE Grounds
<1>1. WellScoped(Levels)
  BY DEF Wellformed, Levels
<1> QED
  BY <1>1 DEF Wellformed, Grounds

\* The encoder's state keeps its shape: reserved slots, spans and digests lie
\* inside the output, every open structure has its frame, and the value and
\* the opcode being packed are ones the program can meet there.
THEOREM PackInvariance == ASSUME Wellformed PROVE PackSpec => []PInv
<1>1. Grounds
  BY GroundsHold
<1>2. PackInit => PInv
  BY PackInitOk
<1>3. PInv /\ [PackStep \/ PackReturned]_pvars => PInv'
  BY <1>1, PackStepOk
<1> QED
  BY <1>2, <1>3, PTL DEF PackSpec

\* Output and destination stay bytes, registers i64s, the frames match the
\* open structures and every error is one the encoder reports.
THEOREM PackTypeCorrect == ASSUME Wellformed PROVE PackSpec => []PackTypeOK
<1>1. PInv => PackTypeOK
  <2> SUFFICES ASSUME PInv PROVE PackTypeOK
    OBVIOUS
  <2>1. Len(pframes) = Cardinality({i \in DOMAIN pctl : pctl[i].k = "struct"})
    <3>1. DOMAIN pctl = 1 .. Len(pctl)
      BY DEF PInv, CtlOk, Stack
    <3> QED
      BY <3>1 DEF PInv, Depth
  <2>2. \A i \in DOMAIN pframes : pframes[i].regs \in [Regs -> I64] /\ pframes[i].known \subseteq Regs
    BY DEF PInv, FramesOk, FrameOk
  <2> QED
    BY <2>1, <2>2 DEF PInv, PackTypeOK, Running
<1> QED
  BY <1>1, PackInvariance, PTL

\* What is written at an offset is read back there, and nothing else moves.
LEMMA WrittenWhole ==
  ASSUME NEW d \in Seq(Byte), NEW o \in Seq(Byte), NEW off \in Nat, off + Len(o) <= Len(d)
  PROVE  /\ Slice(WriteAt(d, off, o), off, off + Len(o)) = o
         /\ \A i \in DOMAIN d : i \notin (off + 1) .. (off + Len(o)) => WriteAt(d, off, o)[i] = d[i]
<1> DEFINE w == WriteAt(d, off, o)
           t == SubSeq(w, off + 1, off + Len(o))
<1>1. w \in Seq(Byte) /\ Len(w) = Len(d)
  BY WriteAtType
<1>2. DOMAIN d = 1 .. Len(d) /\ Len(d) \in Nat /\ Len(o) \in Nat
  OBVIOUS
<1>3. \A i \in DOMAIN d : w[i] = IF i \in (off + 1) .. (off + Len(o)) THEN o[i - off] ELSE d[i]
  BY DEF WriteAt
<1> HIDE DEF w
<1>4. off + 1 \in Int /\ off + Len(o) \in Int
  BY <1>2
<1>5. \A i \in (off + 1) .. (off + Len(o)) : w[i] \in Byte
  BY <1>1, <1>2
<1>6. /\ t \in Seq(Byte)
      /\ Len(t) = IF off + 1 <= off + Len(o) THEN (off + Len(o)) - (off + 1) + 1 ELSE 0
      /\ \A i \in 1 .. ((off + Len(o)) - (off + 1) + 1) : t[i] = w[(off + 1) + i - 1]
  BY <1>4, <1>5, SubSeqProperties
<1>7. Len(t) = Len(o)
  BY <1>2, <1>6
<1>8. ASSUME NEW i \in 1 .. Len(o) PROVE t[i] = o[i]
  <2>1. i \in 1 .. ((off + Len(o)) - (off + 1) + 1)
    BY <1>2
  <2>2. /\ (off + 1) + i - 1 = off + i /\ off + i \in DOMAIN d /\ off + i \in (off + 1) .. (off + Len(o))
        /\ (off + i) - off = i
    BY <1>2
  <2> QED
    BY <1>3, <1>6, <2>1, <2>2
<1> HIDE DEF t
<1>9. t = o
  BY <1>6, <1>7, <1>8, SeqEqual
<1> QED
  BY <1>3, <1>9 DEF Slice, t, w

LEMMA DstKept ==
  ASSUME PackStep, ~LeaveScope
  PROVE  dst' = dst
<1>1. ASSUME NEW r, NEW ctl, AfterPatch(r, ctl) PROVE dst' = dst
  BY <1>1 DEF AfterPatch, PFail
<1>2. ASSUME NEW raw, NEW len, Extend(raw, len) PROVE dst' = dst
  BY <1>1, <1>2 DEF Extend
<1>3. ASSUME NEW p, NEW via, NEW v, EnterScope(p, via, v) PROVE dst' = dst
  BY <1>3 DEF EnterScope, PFail
<1>4. ASSUME NEW a, PackNamed(a) PROVE dst' = dst
  BY <1>4 DEF PackNamed, PFail, PackValue
<1>5. ASSUME NEW faults, FirstFault(faults) PROVE dst' = dst
  BY <1>5 DEF FirstFault, PFail
<1>6. CASE PackCall
  BY <1>3, <1>6 DEF PackCall
<1>7. CASE PutField
  <2>1. CASE PutFixed
    BY <1>5, <2>1 DEF PutFixed
  <2>2. CASE PutBits
    BY <1>5, <2>2 DEF PutBits
  <2>3. CASE PutDigest \/ PutDone
    BY <2>3 DEF PutDigest, PutDone
  <2>4. CASE PutCond
    BY <1>4, <2>4 DEF PutCond, PFail
  <2>5. CASE PutOther
    BY <1>4, <2>5 DEF PutOther
  <2> QED
    BY <1>7, <2>1, <2>2, <2>3, <2>4, <2>5 DEF PutField
<1>8. CASE PutValue
  <2>1. CASE PackFixed
    BY <1>2, <2>1 DEF PackFixed, PFail
  <2>2. CASE PackBytes
    BY <1>2, <2>2 DEF PackBytes, PFail
  <2>3. CASE PackStr
    BY <1>2, <2>3 DEF PackStr, PFail
  <2>4. CASE PackCStr
    BY <1>2, <2>4 DEF PackCStr, PFail
  <2>5. CASE PackFlags
    BY <1>2, <1>5, <2>5 DEF PackFlags, PFail
  <2>6. CASE PackNest
    BY <1>3, <2>6 DEF PackNest
  <2>7. CASE PackArray
    BY <2>7 DEF PackArray, PFail
  <2>8. CASE PackSwitch
    BY <2>8 DEF PackSwitch, PFail, PackValue
  <2> QED
    BY <1>8, <2>1, <2>2, <2>3, <2>4, <2>5, <2>6, <2>7, <2>8 DEF PutValue
<1>9. CASE PutArray
  BY <1>1, <1>9 DEF PutArray, PutElem, PutElemDone, PutArrayEnd, PackValue
<1> QED
  BY <1>6, <1>7, <1>8, <1>9 DEF PackStep

\* pack_into writes the whole encoding where it was told to and nothing else,
\* or, on any error, nothing.
THEOREM IntoAtomic == ASSUME Wellformed PROVE PackSpec => IntoAllOrNothing
<1> DEFINE Whole ==
             \/ dst' = dst
             \/ /\ result'.tag = "Ok"
                /\ \E off \in input.into :
                     /\ Slice(dst', off, off + Len(out')) = out'
                     /\ \A i \in DOMAIN dst : i \notin (off + 1) .. (off + Len(out')) => dst'[i] = dst[i]
<1>0. Grounds
  BY GroundsHold
<1>1. PInv /\ [PackStep \/ PackReturned]_pvars => [Whole]_pvars
  <2> SUFFICES ASSUME PInv, PackStep \/ PackReturned PROVE Whole
    OBVIOUS
  <2>1. CASE PackReturned
    BY <2>1 DEF PackReturned, pvars
  <2>2. CASE PackStep /\ ~LeaveScope
    BY <2>2, DstKept
  <2>3. CASE LeaveScope
    <3> DEFINE o == Seal(out, pack.start, Last(pframes))
    <3>1. pctl # <<>>
      BY <2>3 DEF LeaveScope, PInStruct
    <3>2. /\ EntryOk(pack, Len(pframes), Len(out)) /\ FrameOk(Last(pframes), Len(out))
          /\ out \in Seq(Byte) /\ dst \in Seq(Byte)
      BY <3>1, TopFacts DEF PInv
    <3>3. o \in Seq(Byte)
      BY <1>0, <3>2, SealType DEF Grounds, EntryOk
    <3> HIDE DEF o
    <3>4. CASE Deliver(o)
      <4>1. CASE UNCHANGED dst
        BY <4>1
      <4>2. ASSUME NEW off \in input.into, off + Len(o) <= Len(dst), PStop("Ok", "Ok", o),
                   dst' = WriteAt(dst, off, o)
            PROVE  Whole
        <5>1. off \in Nat
          BY InputAssumption DEF PInv
        <5>2. /\ Slice(dst', off, off + Len(o)) = o
              /\ \A i \in DOMAIN dst : i \notin (off + 1) .. (off + Len(o)) => dst'[i] = dst[i]
          BY <3>2, <3>3, <4>2, <5>1, WrittenWhole
        <5>3. out' = o /\ result'.tag = "Ok"
          BY <4>2 DEF PStop
        <5> QED
          BY <5>2, <5>3
      <4> QED
        BY <3>4, <4>1, <4>2 DEF Deliver, PFail
    <3>5. CASE ~Deliver(o)
      <4>1. PICK r, ctl : AfterPatch(r, ctl)
        BY <2>3, <3>5 DEF LeaveScope, o
      <4> QED
        BY <4>1 DEF AfterPatch, PFail
    <3> QED
      BY <3>4, <3>5
  <2> QED
    BY <2>1, <2>2, <2>3
<1> QED
  BY <1>1, PackInvariance, PTL DEF PackSpec, IntoAllOrNothing

-----------------------------------------------------------------------------
(***************************************************************************)
(* A reserved length field keeps what it holds (Pack.SlotsHold).           *)
(*                                                                         *)
(* From the bottom up: division, powers and the digits of a number; what a *)
(* reader of bytes sees of a field of bits that a writer ORed in, and of   *)
(* the fields beside it; slots, read alike in a longer output and after a  *)
(* write elsewhere; runs, whose reserved fields are written as zeros.      *)
(*                                                                         *)
(* SInv is what the steps preserve.  The slots of all open structures are  *)
(* apart from each other (neighbours in a run of bits share bytes, not     *)
(* bits) and from every digest reserved, and the registers a structure has *)
(* written or reserved are those of the fields it has passed, so that the  *)
(* next field finds its own free.                                          *)
(***************************************************************************)

(***************************************************************************)
(* Division by a positive number.                                          *)
(***************************************************************************)
Pos == Nat \ {0}
Digit(d) == 0 .. (d - 1)

LEMMA DivSplit ==
  ASSUME NEW n \in Int, NEW d \in Pos
  PROVE  \E q \in Int, r \in Digit(d) : q = n \div d /\ r = n % d /\ n = d * q + r
<1>1. d \in Nat \ {0}
  BY DEF Pos
<1>2. n \div d \in Int /\ n % d \in 0 .. (d - 1) /\ n = d * (n \div d) + (n % d)
  BY <1>1
<1> QED
  BY <1>2 DEF Digit

LEMMA DivUnique ==
  ASSUME NEW d \in Pos, NEW q \in Int, NEW r \in Digit(d), NEW n, n = d * q + r
  PROVE  n \in Int /\ n \div d = q /\ n % d = r
<1>1. d \in Nat \ {0} /\ r \in 0 .. (d - 1)
  BY DEF Pos, Digit
<1>2. n \in Int
  BY <1>1
<1>3. PICK a \in Int, b \in 0 .. (d - 1) : a = n \div d /\ b = n % d /\ n = d * a + b
  BY <1>2, DivSplit DEF Digit
<1>4. d * (a - q) = r - b
  BY <1>1, <1>3
<1>5. a - q < 1
  <2> SUFFICES ASSUME a - q >= 1 PROVE FALSE
    OBVIOUS
  <2>1. d * (a - q) >= d
    BY <1>1
  <2> QED
    BY <1>1, <1>4, <2>1
<1>6. a - q > -1
  <2> SUFFICES ASSUME a - q <= -1 PROVE FALSE
    OBVIOUS
  <2>1. d * (a - q) <= -d
    BY <1>1
  <2> QED
    BY <1>1, <1>4, <2>1
<1> QED
  BY <1>1, <1>2, <1>3, <1>5, <1>6

LEMMA PosTimes == ASSUME NEW a \in Pos, NEW b \in Pos PROVE a * b \in Pos
  BY DEF Pos

\* Two digits make one.
LEMMA DigitPair ==
  ASSUME NEW a \in Pos, NEW b \in Pos, NEW r \in Digit(a), NEW s \in Digit(b)
  PROVE  a * s + r \in Digit(a * b)
<1>1. a \in Nat \ {0} /\ b \in Nat \ {0} /\ r \in 0 .. (a - 1) /\ s \in 0 .. (b - 1)
  BY DEF Pos, Digit
<1>2. PICK x \in Int : x = a * s
  BY <1>1
<1>3. PICK y \in Int : y = a * b
  BY <1>1
<1>4. a * (b - 1) = a * b - a
  BY <1>1
<1>5. a * s <= a * (b - 1) /\ a * s >= 0
  BY <1>1
<1>6. x <= y - a /\ x >= 0
  BY <1>2, <1>3, <1>4, <1>5
<1>7. x + r \in 0 .. (y - 1)
  BY <1>1, <1>6
<1> QED
  BY <1>2, <1>3, <1>7 DEF Digit

LEMMA Regroup ==
  ASSUME NEW a \in Int, NEW b \in Int, NEW p \in Int, NEW s \in Int, NEW r \in Int
  PROVE  a * (b * p + s) + r = (a * b) * p + (a * s + r)
<1>1. a * (b * p + s) = (a * b) * p + a * s
  OBVIOUS
<1>2. PICK x \in Int, y \in Int : x = (a * b) * p /\ y = a * s
  OBVIOUS
<1>3. a * (b * p + s) = x + y
  BY <1>1, <1>2
<1>4. x + y + r = x + (y + r)
  OBVIOUS
<1> QED
  BY <1>2, <1>3, <1>4

LEMMA PosDigitTypes ==
  /\ \A a \in Pos : a \in Int /\ a \in Nat
  /\ \A a \in Pos : \A r \in Digit(a) : r \in Int /\ r \in Nat
  BY DEF Pos, Digit

(***************************************************************************)
(* Fields of a number: where S and P are powers of two, the bits of n from *)
(* S up to S * P.                                                          *)
(***************************************************************************)
Field(n, S, P) == (n \div S) % P

\* A number in three parts: above the field, the field, below it.
LEMMA FieldParts ==
  ASSUME NEW S \in Pos, NEW P \in Pos, NEW h \in Int, NEW m \in Digit(P), NEW r \in Digit(S),
         NEW n, n = S * (P * h + m) + r
  PROVE  /\ n \in Int
         /\ Field(n, S, P) = m
         /\ n \div (S * P) = h
         /\ n % S = r
         /\ n % (S * P) = S * m + r
<1>1. S \in Int /\ P \in Int /\ m \in Int /\ r \in Int
  BY PosDigitTypes
<1>2. PICK p \in Int : p = P * h + m
  BY <1>1
<1>3. n = S * p + r
  BY <1>2
<1> HIDE DEF Digit, Pos
<1>4. n \in Int /\ n \div S = p /\ n % S = r
  BY <1>3, DivUnique
<1>5. p \div P = h /\ p % P = m
  BY <1>2, DivUnique
<1>6. PICK D \in Pos : D = S * P
  BY PosTimes
<1>7. PICK t \in Digit(D) : t = S * m + r
  BY <1>6, DigitPair
<1>8. S * (P * h + m) + r = (S * P) * h + (S * m + r)
  BY <1>1, Regroup
<1>9. n = D * h + t
  BY <1>6, <1>7, <1>8
<1>10. n \div D = h /\ n % D = t
  BY <1>9, DivUnique
<1> QED
  BY <1>4, <1>5, <1>6, <1>7, <1>10 DEF Field

LEMMA FieldSplit ==
  ASSUME NEW n \in Int, NEW S \in Pos, NEW P \in Pos
  PROVE  \E h \in Int, m \in Digit(P), r \in Digit(S) :
           /\ n = S * (P * h + m) + r
           /\ n \div S = P * h + m
           /\ Field(n, S, P) = m
           /\ n \div (S * P) = h
           /\ n % S = r
           /\ n % (S * P) = S * m + r
<1>1. PICK q \in Int, r \in Digit(S) : q = n \div S /\ n = S * q + r
  BY DivSplit
<1>2. PICK h \in Int, m \in Digit(P) : q = P * h + m
  BY DivSplit
<1>3. n = S * (P * h + m) + r
  BY <1>1, <1>2
<1>4. /\ Field(n, S, P) = m /\ n \div (S * P) = h /\ n % S = r
      /\ n % (S * P) = S * m + r
  BY <1>3, FieldParts
<1> QED
  BY <1>1, <1>2, <1>3, <1>4

LEMMA DivDiv ==
  ASSUME NEW n \in Int, NEW a \in Pos, NEW b \in Pos
  PROVE  n \div (a * b) = (n \div a) \div b
<1>1. PICK h \in Int, m \in Digit(b) : n \div a = b * h + m /\ n \div (a * b) = h
  BY FieldSplit
<1>2. PICK q : q = n \div a
  OBVIOUS
<1>3. q \div b = h
  BY <1>1, <1>2, DivUnique
<1> QED
  BY <1>1, <1>2, <1>3

\* Replacing a field changes neither the bits above it nor those below it.
LEMMA SetField ==
  ASSUME NEW n \in Int, NEW S \in Pos, NEW P \in Pos, NEW k \in Digit(P),
         NEW n2, n2 = n + (k - Field(n, S, P)) * S
  PROVE  /\ n2 \in Int
         /\ Field(n2, S, P) = k
         /\ n2 \div (S * P) = n \div (S * P)
         /\ n2 % S = n % S
<1>1. PICK h \in Int, m \in Digit(P), r \in Digit(S) :
        /\ n = S * (P * h + m) + r /\ Field(n, S, P) = m
        /\ n \div (S * P) = h /\ n % S = r
  BY FieldSplit
<1>2. S \in Int /\ P \in Int /\ m \in Int /\ r \in Int /\ k \in Int
  BY PosDigitTypes
<1>3. (k - m) * S = S * (P * h + k) - S * (P * h + m)
  BY <1>2
<1>4. PICK x \in Int, y \in Int : x = S * (P * h + k) /\ y = S * (P * h + m)
  BY <1>2
<1>5. PICK z \in Int : z = (k - m) * S
  BY <1>2
<1>6. n = y + r /\ z = x - y
  BY <1>1, <1>3, <1>4, <1>5
<1>7. n2 = n + z
  BY <1>1, <1>5
<1>8. n2 = x + r
  BY <1>2, <1>6, <1>7
<1>9. n2 = S * (P * h + k) + r
  BY <1>4, <1>8
<1>10. n2 \in Int /\ Field(n2, S, P) = k /\ n2 \div (S * P) = h /\ n2 % S = r
  BY <1>9, FieldParts
<1> QED
  BY <1>1, <1>10

LEMMA SetFieldReads ==
  ASSUME NEW n \in Int, NEW S \in Pos, NEW P \in Pos, NEW k \in Digit(P),
         NEW n2, n2 = n + (k - Field(n, S, P)) * S
  PROVE  Field(n2, S, P) = k
<1>1. /\ n2 \in Int
      /\ Field(n2, S, P) = k
      /\ n2 \div (S * P) = n \div (S * P)
      /\ n2 % S = n % S
  BY SetField
<1> QED
  BY <1>1

\* A field depends only on the bits from its lowest up, and only on those up
\* to its highest.
LEMMA FieldAbove ==
  ASSUME NEW n \in Int, NEW B \in Pos, NEW S \in Pos, NEW P
  PROVE  Field(n, B * S, P) = Field(n \div B, S, P)
  BY DivDiv DEF Field

LEMMA FieldBelow ==
  ASSUME NEW n \in Int, NEW S \in Pos, NEW P \in Pos, NEW C \in Pos
  PROVE  Field(n, S, P) = Field(n % (S * (P * C)), S, P)
<1>1. PICK Y \in Pos : Y = P * C
  BY PosTimes
<1>2. PICK h \in Int, x \in Digit(Y), r \in Digit(S) :
        /\ n \div S = Y * h + x /\ Field(n, S, Y) = x /\ n % (S * Y) = S * x + r
  BY FieldSplit
<1>3. PICK q \in Int : q = n \div S
  BY DivSplit
<1>4. x = q % Y
  BY <1>2, <1>3 DEF Field
<1>5. PICK g \in Int, m \in Digit(C), v \in Digit(P) : q % P = v /\ q % (P * C) = P * m + v
  BY FieldSplit
<1>6. x = P * m + v
  BY <1>1, <1>4, <1>5
<1>7. m \in Int
  BY PosDigitTypes
<1>8. PICK z : z = n % (S * Y)
  OBVIOUS
<1>9. z = S * (P * m + v) + r
  BY <1>2, <1>6, <1>8
<1>10. Field(z, S, P) = v
  BY <1>7, <1>9, FieldParts
<1> QED
  BY <1>1, <1>3, <1>5, <1>8, <1>10 DEF Field

\* So replacing one of two fields that do not overlap leaves the other.
LEMMA SetFieldOther ==
  ASSUME NEW n \in Int, NEW S \in Pos, NEW P \in Pos, NEW k \in Digit(P),
         NEW n2, n2 = n + (k - Field(n, S, P)) * S,
         NEW T \in Pos, NEW V \in Pos, NEW D \in Pos,
         T = (S * P) * D \/ S = T * (V * D)
  PROVE  Field(n2, T, V) = Field(n, T, V)
<1>1. n2 \in Int /\ n2 \div (S * P) = n \div (S * P) /\ n2 % S = n % S
  BY SetField
<1>2. CASE T = (S * P) * D
  <2>1. PICK B \in Pos : B = S * P
    BY PosTimes
  <2>2. Field(n2, B * D, V) = Field(n2 \div B, D, V) /\ Field(n, B * D, V) = Field(n \div B, D, V)
    BY <1>1, FieldAbove
  <2> QED
    BY <1>1, <1>2, <2>1, <2>2
<1>3. CASE S = T * (V * D)
  <2>1. /\ Field(n2, T, V) = Field(n2 % (T * (V * D)), T, V)
        /\ Field(n, T, V) = Field(n % (T * (V * D)), T, V)
    BY <1>1, FieldBelow
  <2> QED
    BY <1>1, <1>3, <2>1
<1> QED
  BY <1>2, <1>3

\* And a number below a multiple of the field's end stays below it.
LEMMA SetFieldRange ==
  ASSUME NEW n \in Int, NEW S \in Pos, NEW P \in Pos, NEW k \in Digit(P),
         NEW n2, n2 = n + (k - Field(n, S, P)) * S,
         NEW D \in Pos, n \in Digit((S * P) * D)
  PROVE  n2 \in Digit((S * P) * D)
<1>1. n2 \in Int /\ n2 \div (S * P) = n \div (S * P)
  BY SetField
<1>2. PICK B \in Pos : B = S * P
  BY PosTimes
<1>3. PICK M \in Pos : M = B * D
  BY PosTimes
<1>4. n2 \div M = n \div M
  <2>1. n2 \div (B * D) = (n2 \div B) \div D /\ n \div (B * D) = (n \div B) \div D
    BY <1>1, DivDiv
  <2> QED
    BY <1>1, <1>2, <1>3, <2>1
<1>5. n \in Digit(M) /\ n = M * 0 + n
  BY <1>2, <1>3 DEF Pos, Digit
<1>6. n \div M = 0
  BY <1>5, DivUnique
<1>7. PICK r \in Digit(M) : n2 = M * (n2 \div M) + r
  BY <1>1, DivSplit
<1>8. n2 = r
  <2>1. n2 = M * 0 + r
    BY <1>4, <1>6, <1>7
  <2>2. M \in Int /\ r \in Int
    BY PosDigitTypes
  <2> QED
    BY <2>1, <2>2
<1> QED
  BY <1>2, <1>3, <1>8

\* Powers.
LEMMA PowerAdd ==
  ASSUME PowerLaw, NEW b \in Nat \ {0}, NEW m \in Nat, NEW n \in Nat
  PROVE  b ^ (m + n) = b ^ m * b ^ n
<1> DEFINE S == {k \in Nat : b ^ (m + k) = b ^ m * b ^ k}
<1>1. PICK x \in Nat \ {0} : x = b ^ m
  BY PowerPositive
<1>2. 0 \in S
  <2>1. m + 0 = m /\ b ^ 0 = 1
    BY DEF PowerLaw
  <2> QED
    BY <1>1, <2>1
<1>3. ASSUME NEW k \in Nat, k \in S PROVE k + 1 \in S
  <2>1. m + (k + 1) = (m + k) + 1 /\ m + k \in Nat
    OBVIOUS
  <2>2. b ^ (m + (k + 1)) = b * b ^ (m + k)
    BY <2>1 DEF PowerLaw
  <2>3. b ^ (k + 1) = b * b ^ k
    BY DEF PowerLaw
  <2>4. PICK y \in Nat \ {0} : y = b ^ k
    BY PowerPositive
  <2>5. b * (x * y) = x * (b * y)
    OBVIOUS
  <2> QED
    BY <1>1, <1>3, <2>2, <2>3, <2>4, <2>5
<1>4. Nat \subseteq S
  BY <1>2, <1>3, NatInductionOn
<1> QED
  BY <1>4

LEMMA BasePower ==
  ASSUME PowerLaw, NEW n \in Nat
  PROVE  Base ^ n = 2 ^ (n * ByteBits)
<1> DEFINE S == {k \in Nat : Base ^ k = 2 ^ (k * ByteBits)}
<1>1. ByteBits \in Nat /\ Base \in Nat /\ Base = 2 ^ ByteBits
  BY WireAssumption, BasePositive DEF Base
<1>2. 0 \in S
  <2>1. 0 * ByteBits = 0
    BY <1>1
  <2> QED
    <3>1. Base ^ 0 = 1 /\ 2 ^ 0 = 1
      BY <1>1 DEF PowerLaw
    <3> QED
      BY <2>1, <3>1
<1>3. ASSUME NEW k \in Nat, k \in S PROVE k + 1 \in S
  <2>1. PICK j \in Nat : j = k * ByteBits
    BY <1>1
  <2>2. (k + 1) * ByteBits = ByteBits + j
    BY <1>1, <2>1
  <2>3. Base ^ (k + 1) = Base * Base ^ k
    BY <1>1 DEF PowerLaw
  <2>4. 2 ^ (ByteBits + j) = 2 ^ ByteBits * 2 ^ j
    BY <1>1, PowerAdd
  <2> QED
    BY <1>1, <1>3, <2>1, <2>2, <2>3, <2>4
<1>4. Nat \subseteq S
  BY <1>2, <1>3, NatInductionOn
<1> QED
  BY <1>4


(***************************************************************************)
(* Numbers as bytes.                                                       *)
(***************************************************************************)
LEMMA TotalIs ==
  ASSUME NEW s \in Seq(Int), NEW g, g[0] = 0, \A i \in 1 .. Len(s) : g[i] = g[i - 1] + s[i]
  PROVE  Total(s) = g[Len(s)]
<1> DEFINE n == Len(s)
           T == [k \in 0 .. n |-> {g[k]}]
<1>1. PICK sum : /\ sum[0] = 0
                 /\ \A i \in 1 .. n : sum[i] = sum[i - 1] + s[i]
                 /\ Total(s) = sum[n]
  BY TotalRuns
<1>2. n \in Nat
  OBVIOUS
<1> HIDE DEF n
<1>3. sum[0] \in T[0]
  BY <1>1, <1>2
<1>4. \A i \in 1 .. n : sum[i - 1] \in T[i - 1] => sum[i] \in T[i]
  <2> TAKE i \in 1 .. n
  <2>1. i \in 0 .. n /\ i - 1 \in 0 .. n
    BY <1>2
  <2>2. g[i] = g[i - 1] + s[i]
    BY DEF n
  <2> QED
    BY <1>1, <2>1, <2>2
<1>5. \A i \in 0 .. n : sum[i] \in T[i]
  <2> HIDE DEF T
  <2> QED
    BY <1>2, <1>3, <1>4, IterStays, Zenon
<1>6. n \in 0 .. n
  BY <1>2
<1>7. sum[n] = g[n]
  BY <1>5, <1>6
<1> QED
  BY <1>1, <1>7 DEF n

LEMMA PowerPos ==
  ASSUME PowerLaw
  PROVE  /\ \A n \in Nat : 2 ^ n \in Pos
         /\ \A n \in Nat : Base ^ n \in Pos
         /\ Base \in Pos
<1>1. Base \in Nat \ {0} /\ 2 \in Nat \ {0}
  BY BasePositive
<1> QED
  BY <1>1, PowerPositive DEF Pos

\* The lowest j + 1 digits are the lowest j and the next one.
LEMMA DigitOfBase ==
  ASSUME PowerLaw, NEW b \in Nat \ {0}, NEW v \in Int, NEW j \in Nat
  PROVE  /\ v % (b ^ (j + 1)) = ((v \div (b ^ j)) % b) * b ^ j + (v % (b ^ j))
         /\ v % (b ^ j) \in Int
         /\ (v \div (b ^ j)) % b \in Digit(b)
         /\ ((v \div (b ^ j)) % b) * b ^ j \in Int
<1>1. PICK S \in Pos, P \in Pos : S = b ^ j /\ P = b
  BY PowerPositive DEF Pos
<1>2. b ^ (j + 1) = S * P
  <2>1. b ^ (j + 1) = P * S
    BY <1>1 DEF PowerLaw
  <2>2. S \in Int /\ P \in Int
    BY PosDigitTypes
  <2>3. P * S = S * P
    BY <2>2
  <2> QED
    BY <2>1, <2>3
<1>3. PICK m \in Digit(P), r \in Digit(S) : Field(v, S, P) = m /\ v % S = r /\ v % (S * P) = S * m + r
  BY FieldSplit
<1>4. m \in Int /\ r \in Int /\ S \in Int
  BY PosDigitTypes
<1>5. S * m = m * S /\ m * S \in Int
  BY <1>4
<1>6. (v \div S) % P = m
  BY <1>3 DEF Field
<1> QED
  BY <1>1, <1>2, <1>3, <1>4, <1>5, <1>6

LEMMA NextDigit ==
  ASSUME PowerLaw, NEW v \in Int, NEW j \in Nat
  PROVE  /\ v % (Base ^ (j + 1)) = ((v \div (Base ^ j)) % Base) * Base ^ j + (v % (Base ^ j))
         /\ v % (Base ^ j) \in Int
         /\ ((v \div (Base ^ j)) % Base) * Base ^ j \in Int
<1>1. Base \in Nat \ {0}
  BY BasePositive
<1> QED
  BY <1>1, DigitOfBase, Zenon

\* What was written is what is read, modulo the width.
LEMMA WriteRead ==
  ASSUME PowerLaw, NEW w \in Nat, NEW be \in BOOLEAN, NEW v \in Int
  PROVE  ReadUint(WriteUint(w, be, v), be) = v % (Base ^ w)
<1> DEFINE raw == WriteUint(w, be, v)
           ex(i) == IF be THEN w - i ELSE i - 1
           s == [i \in 1 .. w |-> ((v \div (Base ^ ex(i))) % Base) * Base ^ ex(i)]
           g == [i \in 0 .. w |-> IF be THEN (v % (Base ^ w)) - (v % (Base ^ (w - i))) ELSE v % (Base ^ i)]
<1>1. raw \in Seq(Byte) /\ Len(raw) = w
  BY WriteUintType
<1>2. DOMAIN raw = 1 .. w
  BY <1>1
<1>3. \A i \in 1 .. w : raw[i] = (v \div (Base ^ ex(i))) % Base
  BY DEF WriteUint
<1>4. ReadUint(raw, be) = Total(s)
  <2> HIDE DEF raw
  <2>1. [i \in DOMAIN raw |-> raw[i] * Base ^ (IF be THEN Len(raw) - i ELSE i - 1)] = s
    BY <1>1, <1>2, <1>3
  <2> QED
    BY <2>1 DEF ReadUint
<1>5. \A i \in 1 .. w : ex(i) \in Nat
  OBVIOUS
<1>6. s \in Seq(Int) /\ Len(s) = w
  <2>1. \A i \in 1 .. w : ((v \div (Base ^ ex(i))) % Base) * Base ^ ex(i) \in Int
    BY <1>5, NextDigit
  <2> HIDE DEF ex
  <2> QED
    BY <2>1
<1>7. \A j \in Nat : v % (Base ^ j) \in Int
  BY NextDigit
<1>8. v % (Base ^ 0) = 0
  <2>1. Base ^ 0 = 1
    BY BasePositive DEF PowerLaw
  <2>2. v = 1 * v + 0 /\ 1 \in Pos /\ 0 \in Digit(1)
    BY DEF Pos, Digit
  <2> QED
    BY <2>1, <2>2, DivUnique
<1>9. g[0] = 0
  BY <1>7, <1>8
<1>10. ASSUME NEW i \in 1 .. w PROVE g[i] = g[i - 1] + s[i]
  <2>1. i \in 0 .. w /\ i - 1 \in 0 .. w
    OBVIOUS
  <2>2. CASE be
    <3>1. PICK j \in Nat : j = w - i
      OBVIOUS
    <3>2. ex(i) = j /\ w - (i - 1) = j + 1
      BY <2>2, <3>1
    <3>3. PICK x \in Int, y \in Int, z \in Int, t \in Int :
            /\ x = v % (Base ^ w) /\ y = v % (Base ^ j) /\ z = v % (Base ^ (j + 1))
            /\ t = ((v \div (Base ^ j)) % Base) * Base ^ j
      <4>1. j + 1 \in Nat /\ v % (Base ^ w) \in Int /\ v % (Base ^ j) \in Int
        BY <1>7
      <4>2. v % (Base ^ (j + 1)) \in Int
        BY <1>7, <4>1
      <4>3. ((v \div (Base ^ j)) % Base) * Base ^ j \in Int
        BY NextDigit
      <4> QED
        BY <4>1, <4>2, <4>3, Zenon
    <3>4. z = t + y
      BY <3>3, NextDigit
    <3>5. g[i] = x - y /\ g[i - 1] = x - z /\ s[i] = t
      BY <2>1, <2>2, <3>1, <3>2, <3>3
    <3> QED
      BY <3>4, <3>5
  <2>3. CASE ~be
    <3>1. PICK j \in Nat : j = i - 1
      OBVIOUS
    <3>2. ex(i) = j /\ i = j + 1
      BY <2>3, <3>1
    <3>3. PICK y \in Int, z \in Int, t \in Int :
            /\ y = v % (Base ^ j) /\ z = v % (Base ^ (j + 1))
            /\ t = ((v \div (Base ^ j)) % Base) * Base ^ j
      <4>1. j + 1 \in Nat /\ v % (Base ^ w) \in Int /\ v % (Base ^ j) \in Int
        BY <1>7
      <4>2. v % (Base ^ (j + 1)) \in Int
        BY <1>7, <4>1
      <4>3. ((v \div (Base ^ j)) % Base) * Base ^ j \in Int
        BY NextDigit
      <4> QED
        BY <4>1, <4>2, <4>3, Zenon
    <3>4. z = t + y
      BY <3>3, NextDigit
    <3>5. g[i] = z /\ g[i - 1] = y /\ s[i] = t
      BY <2>1, <2>3, <3>1, <3>2, <3>3
    <3> QED
      BY <3>4, <3>5
  <2> QED
    BY <2>2, <2>3
<1>11. Total(s) = g[w]
  <2> HIDE DEF s, g
  <2> QED
    BY <1>6, <1>9, <1>10, TotalIs
<1>12. g[w] = v % (Base ^ w)
  <2>1. w \in 0 .. w /\ w - w = 0
    OBVIOUS
  <2>2. PICK x \in Int : x = v % (Base ^ w)
    BY <1>7
  <2>3. g[w] = IF be THEN x - 0 ELSE x
    BY <1>8, <2>1, <2>2
  <2> QED
    BY <2>2, <2>3
<1> QED
  BY <1>4, <1>11, <1>12

LEMMA ModOne == ASSUME NEW v \in Int PROVE v % 1 = 0
<1>1. v = 1 * v + 0 /\ 1 \in Pos /\ 0 \in Digit(1)
  BY DEF Pos, Digit
<1> QED
  BY <1>1, DivUnique

LEMMA DigitIsMod ==
  ASSUME NEW d \in Pos, NEW v \in Digit(d)
  PROVE  v \div d = 0 /\ v % d = v
<1>1. v = d * 0 + v
  BY DEF Pos, Digit
<1> QED
  BY <1>1, DivUnique

\* OR-ing bits into zeros writes them.
LEMMA OrZero ==
  ASSUME PowerLaw, NEW y \in Digit(2 ^ WordBits)
  PROVE  BitOr(0, y) = y
<1> DEFINE s == [i \in 1 .. WordBits |-> (IF Bit(0, i - 1) + Bit(y, i - 1) > 0 THEN 1 ELSE 0) * 2 ^ (i - 1)]
           g == [i \in 0 .. WordBits |-> y % (2 ^ i)]
<1>1. WordBits \in Nat
  BY WireAssumption
<1>2. 2 ^ WordBits \in Pos
  BY <1>1, PowerPos
<1>3. y \in Int
  BY <1>2, PosDigitTypes
<1>4. ASSUME NEW i \in 1 .. WordBits
      PROVE  /\ s[i] = ((y \div (2 ^ (i - 1))) % 2) * 2 ^ (i - 1)
             /\ s[i] \in Int
             /\ g[i] = g[i - 1] + s[i]
  <2>1. PICK j \in Nat : j = i - 1 /\ i = j + 1
    BY <1>1
  <2>2. PICK d \in 0 .. 1 : d = (y \div (2 ^ j)) % 2
    BY <1>3, DigitOfBase DEF Digit
  <2>3. PICK S \in Pos : S = 2 ^ j
    BY PowerPos
  <2>4. (0 \div S) % 2 = 0
    <3>1. 0 \in Digit(S) /\ 0 \in Digit(2) /\ 2 \in Pos
      BY DEF Pos, Digit
    <3> QED
      BY <3>1, DigitIsMod
  <2>5. Bit(0, j) = 0 /\ Bit(y, j) = d
    BY <2>2, <2>3, <2>4 DEF Bit
  <2>6. s[i] = d * 2 ^ j
    BY <2>1, <2>5
  <2>7. PICK x \in Int, z \in Int, t \in Int : x = y % (2 ^ j) /\ z = y % (2 ^ (j + 1)) /\ t = d * 2 ^ j
    <3>1. j + 1 \in Nat
      OBVIOUS
    <3>2. y % (2 ^ j) \in Int /\ y % (2 ^ (j + 1)) \in Int
      BY <1>3, <3>1, DigitOfBase
    <3>3. d * S \in Int
      BY PosDigitTypes
    <3> QED
      BY <2>3, <3>2, <3>3
  <2>8. z = t + x
    BY <1>3, <2>2, <2>7, DigitOfBase
  <2>9. g[i] = z /\ g[i - 1] = x
    BY <1>1, <2>1, <2>7
  <2> QED
    BY <2>1, <2>2, <2>6, <2>7, <2>8, <2>9
<1>5. s \in Seq(Int) /\ Len(s) = WordBits
  <2>1. \A i \in 1 .. WordBits : s[i] \in Int
    BY <1>4
  <2>2. s \in [1 .. WordBits -> Int]
    BY <2>1
  <2> HIDE DEF s
  <2> QED
    BY <1>1, <2>2
<1>6. g[0] = 0
  <2>1. 2 ^ 0 = 1
    BY DEF PowerLaw
  <2> QED
    BY <1>1, <1>3, <2>1, ModOne
<1>7. Total(s) = g[WordBits]
  <2>1. \A i \in 1 .. Len(s) : g[i] = g[i - 1] + s[i]
    BY <1>4, <1>5
  <2> HIDE DEF s, g
  <2> QED
    BY <1>5, <1>6, <2>1, TotalIs
<1>8. g[WordBits] = y
  <2>1. g[WordBits] = y % (2 ^ WordBits)
    BY <1>1
  <2> QED
    BY <1>2, <2>1, DigitIsMod
<1> QED
  BY <1>7, <1>8 DEF BitOr, BitWise

\* Bytes read as one number, most significant first.
Number(raw) == ReadUint(raw, TRUE)

LEMMA NumberRuns ==
  ASSUME PowerLaw, NEW raw \in Seq(Byte)
  PROVE  \E sum : /\ \A i \in 0 .. Len(raw) : sum[i] \in Int
                  /\ sum[0] = 0
                  /\ \A i \in 1 .. Len(raw) :
                       /\ raw[i] \in Digit(Base) /\ Base ^ (Len(raw) - i) \in Pos
                       /\ sum[i] = sum[i - 1] + raw[i] * Base ^ (Len(raw) - i)
                  /\ Number(raw) = sum[Len(raw)]
<1> DEFINE n == Len(raw)
           s == [i \in DOMAIN raw |-> raw[i] * Base ^ (n - i)]
<1>1. n \in Nat /\ DOMAIN raw = 1 .. n
  OBVIOUS
<1>2. ASSUME NEW i \in 1 .. n
      PROVE  raw[i] \in Digit(Base) /\ Base ^ (n - i) \in Pos /\ raw[i] * Base ^ (n - i) \in Int
  <2>1. raw[i] \in Digit(Base)
    <3>1. raw[i] \in Byte
      OBVIOUS
    <3> QED
      BY <3>1 DEF Byte, Digit
  <2>2. n - i \in Nat
    BY <1>1
  <2>3. PICK S \in Pos : S = Base ^ (n - i)
    BY <2>2, PowerPos
  <2>4. raw[i] \in Int /\ S \in Int
    BY <2>1, PosDigitTypes, PowerPos
  <2>5. raw[i] * S \in Int
    BY <2>4
  <2> QED
    BY <2>1, <2>3, <2>5
<1>3. s \in Seq(Int) /\ Len(s) = n
  <2>1. s \in [1 .. n -> Int]
    BY <1>1, <1>2
  <2> HIDE DEF s, n
  <2> QED
    BY <1>1, <2>1
<1>4. Number(raw) = Total(s)
  BY DEF Number, ReadUint
<1>5. PICK sum : /\ \A i \in 0 .. n : sum[i] \in Int
                 /\ sum[0] = 0
                 /\ \A i \in 1 .. n : sum[i] = sum[i - 1] + s[i]
                 /\ Total(s) = sum[n]
  <2> HIDE DEF s, n
  <2>1. \E sum : /\ \A i \in 0 .. Len(s) : sum[i] \in Int
                 /\ sum[0] = 0
                 /\ \A i \in 1 .. Len(s) : sum[i] = sum[i - 1] + s[i]
                 /\ Total(s) = sum[Len(s)]
    BY <1>3, TotalRuns
  <2> QED
    BY <1>3, <2>1
<1>6. \A i \in 1 .. n : s[i] = raw[i] * Base ^ (n - i)
  BY <1>1
<1> HIDE DEF s
<1> QED
  BY <1>2, <1>4, <1>5, <1>6

LEMMA NumberType ==
  ASSUME PowerLaw, NEW raw \in Seq(Byte)
  PROVE  Number(raw) \in Digit(Base ^ Len(raw))
<1> DEFINE n == Len(raw)
           T == [i \in 0 .. n |-> {x \in Nat : x + Base ^ (n - i) <= Base ^ n}]
<1>1. PICK sum : /\ \A i \in 0 .. n : sum[i] \in Int
                 /\ sum[0] = 0
                 /\ \A i \in 1 .. n :
                      /\ raw[i] \in Digit(Base) /\ Base ^ (n - i) \in Pos
                      /\ sum[i] = sum[i - 1] + raw[i] * Base ^ (n - i)
                 /\ Number(raw) = sum[n]
  BY NumberRuns
<1>2. n \in Nat
  OBVIOUS
<1> HIDE DEF n
<1>3. PICK N \in Pos : N = Base ^ n
  BY <1>2, PowerPos
<1>4. N \in Nat
  BY PosDigitTypes
<1>5. sum[0] \in T[0]
  <2>1. n - 0 = n /\ 0 \in 0 .. n
    BY <1>2
  <2> QED
    BY <1>1, <1>3, <1>4, <2>1
<1>6. ASSUME NEW i \in 1 .. n, sum[i - 1] \in T[i - 1] PROVE sum[i] \in T[i]
  <2>1. PICK j \in Nat : j = n - i /\ n - (i - 1) = j + 1
    BY <1>2
  <2>2. PICK S \in Pos : S = Base ^ j
    BY PowerPos
  <2>3. PICK x \in Nat : x = sum[i - 1] /\ x + Base ^ (j + 1) <= N
    BY <1>2, <1>3, <1>6, <2>1
  <2>4. PICK b \in Nat \ {0} : b = Base /\ Base ^ (j + 1) = b * S
    <3>1. Base \in Nat \ {0}
      BY BasePositive
    <3>2. Base ^ (j + 1) = Base * S
      BY <2>2, <3>1 DEF PowerLaw
    <3> QED
      BY <3>1, <3>2
  <2>5. PICK d \in 0 .. (b - 1) : d = raw[i]
    BY <1>1, <2>4 DEF Digit
  <2>6. S \in Nat
    BY PosDigitTypes
  <2>7. sum[i] = x + d * S
    BY <1>1, <2>1, <2>2, <2>3, <2>5
  <2>8. d * S + S <= b * S /\ d * S \in Nat
    <3>1. (d + 1) * S <= b * S
      BY <2>6
    <3>2. (d + 1) * S = d * S + S
      BY <2>6
    <3>3. d * S \in Nat
      BY <2>6
    <3> QED
      BY <3>1, <3>2, <3>3
  <2>9. PICK t \in Nat, u \in Int : t = d * S /\ u = b * S
    BY <2>6, <2>8
  <2>10. x + u <= N /\ t + S <= u /\ sum[i] = x + t
    BY <2>3, <2>4, <2>7, <2>8, <2>9
  <2>11. sum[i] \in Nat /\ sum[i] + S <= N
    BY <1>4, <2>6, <2>10
  <2>12. i \in 0 .. n
    BY <1>2
  <2> QED
    BY <1>3, <2>1, <2>2, <2>11, <2>12
<1>7. \A i \in 0 .. n : sum[i] \in T[i]
  <2> HIDE DEF T
  <2> QED
    BY <1>2, <1>5, <1>6, IterStays, Zenon
<1>8. sum[n] \in Nat /\ sum[n] + 1 <= N
  <2>1. n \in 0 .. n /\ n - n = 0 /\ Base ^ 0 = 1
    <3>1. Base \in Nat
      BY BasePositive
    <3>2. Base ^ 0 = 1
      BY <3>1 DEF PowerLaw
    <3> QED
      BY <1>2, <3>2
  <2>2. sum[n] \in T[n]
    BY <1>7, <2>1
  <2> QED
    BY <1>3, <2>1, <2>2
<1> QED
  BY <1>1, <1>3, <1>4, <1>8 DEF Digit, n

LEMMA NumberConcat ==
  ASSUME PowerLaw, NEW a \in Seq(Byte), NEW b \in Seq(Byte)
  PROVE  Number(a \o b) = Base ^ Len(b) * Number(a) + Number(b)
<1> DEFINE n == Len(a)
           k == Len(b)
           c == a \o b
<1>1. /\ n \in Nat /\ k \in Nat /\ c \in Seq(Byte) /\ Len(c) = n + k
      /\ \A i \in 1 .. n : c[i] = a[i]
      /\ \A i \in 1 .. k : c[n + i] = b[i]
  OBVIOUS
<1>2. PICK f : /\ \A i \in 0 .. n : f[i] \in Int
               /\ f[0] = 0
               /\ \A i \in 1 .. n : /\ a[i] \in Digit(Base) /\ Base ^ (n - i) \in Pos
                                    /\ f[i] = f[i - 1] + a[i] * Base ^ (n - i)
               /\ Number(a) = f[n]
  BY NumberRuns
<1>3. PICK g : /\ \A i \in 0 .. k : g[i] \in Int
               /\ g[0] = 0
               /\ \A i \in 1 .. k : /\ b[i] \in Digit(Base) /\ Base ^ (k - i) \in Pos
                                    /\ g[i] = g[i - 1] + b[i] * Base ^ (k - i)
               /\ Number(b) = g[k]
  BY NumberRuns
<1>4. PICK h : /\ \A i \in 0 .. (n + k) : h[i] \in Int
               /\ h[0] = 0
               /\ \A i \in 1 .. (n + k) : h[i] = h[i - 1] + c[i] * Base ^ (n + k - i)
               /\ Number(c) = h[n + k]
  <2> HIDE DEF c, n, k
  <2>1. \E sum : /\ \A i \in 0 .. Len(c) : sum[i] \in Int
                 /\ sum[0] = 0
                 /\ \A i \in 1 .. Len(c) :
                      /\ c[i] \in Digit(Base) /\ Base ^ (Len(c) - i) \in Pos
                      /\ sum[i] = sum[i - 1] + c[i] * Base ^ (Len(c) - i)
                 /\ Number(c) = sum[Len(c)]
    BY <1>1, NumberRuns
  <2> QED
    BY <1>1, <2>1
<1>5. PICK K \in Pos : K = Base ^ k
  BY <1>1, PowerPos
<1>6. K \in Int
  BY PosDigitTypes
<1> DEFINE T == [i \in 0 .. n |-> {K * f[i]}]
           U == [i \in 0 .. k |-> {K * f[n] + g[i]}]
           hn == [i \in 0 .. k |-> h[n + i]]
<1> HIDE DEF n, k, c
<1>7. \A i \in 0 .. n : h[i] \in T[i]
  <2>1. h[0] \in T[0]
    BY <1>1, <1>2, <1>4, <1>6
  <2>2. ASSUME NEW i \in 1 .. n, h[i - 1] \in T[i - 1] PROVE h[i] \in T[i]
    <3>1. i \in 0 .. n /\ i - 1 \in 0 .. n /\ i \in 1 .. (n + k) /\ n - i \in Nat
      BY <1>1
    <3>2. PICK S \in Pos, x \in Digit(Base) : S = Base ^ (n - i) /\ x = a[i]
      BY <1>2
    <3>3. S \in Int /\ x \in Int
      BY PosDigitTypes, PowerPos
    <3>4. Base ^ (n + k - i) = K * S
      <4>1. n + k - i = k + (n - i)
        BY <1>1
      <4>2. Base ^ (k + (n - i)) = Base ^ k * Base ^ (n - i)
        <5>1. Base \in Nat \ {0}
          BY BasePositive
        <5> QED
          BY <1>1, <3>1, <5>1, PowerAdd
      <4> QED
        BY <1>5, <3>2, <4>1, <4>2
    <3>5. PICK y \in Int : y = f[i - 1]
      BY <1>2, <3>1
    <3>6. h[i] = K * y + x * (K * S)
      BY <1>1, <1>4, <2>2, <3>1, <3>2, <3>4, <3>5
    <3>7. f[i] = y + x * S
      BY <1>2, <3>2, <3>5
    <3>8. K * (y + x * S) = K * y + x * (K * S)
      BY <1>6, <3>3
    <3> QED
      BY <3>1, <3>6, <3>7, <3>8
  <2> HIDE DEF T
  <2> QED
    BY <1>1, <2>1, <2>2, IterStays, Zenon
<1>8. h[n] = K * f[n]
  <2>1. n \in 0 .. n
    BY <1>1
  <2> QED
    BY <1>7, <2>1
<1>9. PICK z \in Int : z = K * f[n]
  <2>1. f[n] \in Int
    BY <1>1, <1>2
  <2> QED
    BY <1>6, <2>1
<1>10. \A i \in 0 .. k : hn[i] \in U[i]
  <2>1. hn[0] \in U[0]
    <3>1. hn[0] = z /\ g[0] = 0 /\ 0 \in 0 .. k
      BY <1>1, <1>3, <1>8, <1>9
    <3> QED
      BY <1>9, <3>1
  <2>2. ASSUME NEW i \in 1 .. k, hn[i - 1] \in U[i - 1] PROVE hn[i] \in U[i]
    <3>1. i \in 0 .. k /\ i - 1 \in 0 .. k /\ n + i \in 1 .. (n + k)
      BY <1>1
    <3>2. PICK m \in 1 .. (n + k) : m = n + i
      BY <3>1
    <3>3. m - 1 = n + (i - 1) /\ n + k - m = k - i
      BY <1>1, <3>2
    <3>4. PICK S \in Pos, x \in Digit(Base) : S = Base ^ (k - i) /\ x = b[i]
      BY <1>3
    <3>5. PICK t \in Int : t = x * S
      <4>1. S \in Int /\ x \in Int
        BY PosDigitTypes, PowerPos
      <4> QED
        BY <4>1
    <3>6. h[m] = h[m - 1] + c[m] * Base ^ (n + k - m)
      BY <1>4
    <3>7. h[n + i] = h[n + (i - 1)] + t
      BY <1>1, <3>2, <3>3, <3>4, <3>5, <3>6
    <3>8. h[n + (i - 1)] = z + g[i - 1]
      BY <1>9, <2>2, <3>1
    <3>9. g[i] = g[i - 1] + t /\ g[i - 1] \in Int
      BY <1>3, <3>1, <3>4, <3>5
    <3>10. hn[i] = z + g[i]
      BY <3>1, <3>7, <3>8, <3>9
    <3> QED
      BY <1>9, <3>1, <3>10
  <2> HIDE DEF U, hn
  <2> QED
    BY <1>1, <2>1, <2>2, IterStays, Zenon
<1>11. h[n + k] = K * f[n] + g[k]
  <2>1. k \in 0 .. k
    BY <1>1
  <2> QED
    BY <1>10, <2>1
<1> QED
  BY <1>2, <1>3, <1>4, <1>5, <1>11 DEF c, k

(***************************************************************************)
(* Bit fields.                                                             *)
(***************************************************************************)
\* Where a field of a run lies in the run's number.
LEMMA Shift ==
  ASSUME PowerLaw, NEW raw \in Seq(Byte), NEW off \in Nat, NEW width \in Nat,
         off + width <= Len(raw) * ByteBits
  PROVE  /\ BitShift(raw, off, width) \in Pos
         /\ 2 ^ width \in Pos
         /\ Len(raw) * ByteBits - off - width \in Nat
         /\ Len(raw) * ByteBits \in Nat
<1>1. Len(raw) \in Nat /\ ByteBits \in Nat
  BY WireAssumption
<1>2. PICK x \in Nat : x = Len(raw) * ByteBits
  BY <1>1
<1>3. x - off - width \in Nat
  BY <1>2
<1> QED
  BY <1>2, <1>3, PowerPos DEF BitShift

Bits(raw, off, width) == Field(Number(raw), BitShift(raw, off, width), 2 ^ width)

LEMMA ReadBitsIs ==
  ASSUME NEW raw, NEW off, NEW width, NEW signed
  PROVE  ReadBits(raw, off, width, signed) =
           IF signed THEN SignExtend(Bits(raw, off, width), width) ELSE Bits(raw, off, width)
  BY DEF ReadBits, Bits, Field, Number

\* A field is read alike from any number of the bytes it lies in.
LEMMA BitsOfPrefix ==
  ASSUME PowerLaw, NEW a \in Seq(Byte), NEW b \in Seq(Byte), NEW off \in Nat, NEW width \in Nat,
         off + width <= Len(a) * ByteBits
  PROVE  Bits(a \o b, off, width) = Bits(a, off, width)
<1>1. PICK S \in Pos, P \in Pos : S = BitShift(a, off, width) /\ P = 2 ^ width
  BY Shift
<1>2. PICK e \in Nat : e = Len(a) * ByteBits - off - width
  BY Shift
<1>3. PICK K \in Pos : K = Base ^ Len(b)
  BY PowerPos
<1>4. a \o b \in Seq(Byte) /\ Len(a \o b) = Len(a) + Len(b) /\ Len(a) \in Nat /\ Len(b) \in Nat
  OBVIOUS
<1>5. BitShift(a \o b, off, width) = K * S
  <2>1. PICK f \in Nat : f = Len(b) * ByteBits
    BY <1>4, WireAssumption
  <2>2. Len(a \o b) * ByteBits - off - width = f + e
    <3>1. ByteBits \in Nat
      BY WireAssumption
    <3>2. PICK x \in Nat : x = Len(a) * ByteBits
      BY <1>4, <3>1
    <3>3. (Len(a) + Len(b)) * ByteBits = x + f
      BY <1>4, <2>1, <3>1, <3>2
    <3> QED
      BY <1>2, <1>4, <2>1, <3>2, <3>3
  <2>3. 2 ^ (f + e) = 2 ^ f * 2 ^ e
    BY PowerAdd
  <2>4. K = 2 ^ f /\ S = 2 ^ e
    BY <1>1, <1>2, <1>3, <1>4, <2>1, BasePower DEF BitShift
  <2> QED
    BY <2>2, <2>3, <2>4 DEF BitShift
<1>6. PICK x \in Digit(Base ^ Len(a)), y \in Digit(K) : x = Number(a) /\ y = Number(b)
  BY <1>3, NumberType
<1>7. x \in Int
  BY PosDigitTypes, PowerPos, <1>4
<1>8. Number(a \o b) = K * x + y
  BY <1>3, <1>6, NumberConcat
<1>9. PICK N \in Int : N = Number(a \o b) /\ N \div K = x
  BY <1>7, <1>8, DivUnique
<1>10. Field(N, K * S, P) = Field(N \div K, S, P)
  BY FieldAbove
<1> QED
  BY <1>1, <1>5, <1>6, <1>9, <1>10 DEF Bits

LEMMA DigitWider ==
  ASSUME PowerLaw, NEW m \in Nat, NEW n \in Nat, m <= n
  PROVE  \A x \in Digit(2 ^ m) : x \in Digit(2 ^ n)
<1>1. PICK d \in Nat : n = m + d
  <2>1. n - m \in Nat /\ n = m + (n - m)
    OBVIOUS
  <2> QED
    BY <2>1
<1>2. PICK M \in Pos, D \in Pos : M = 2 ^ m /\ D = 2 ^ d
  BY PowerPos
<1>3. 2 ^ n = M * D
  BY <1>1, <1>2, PowerAdd
<1>4. M * D >= M /\ M \in Nat /\ M * D \in Nat
  BY DEF Pos
<1> QED
  BY <1>2, <1>3, <1>4 DEF Digit

\* Two fields of one run that do not overlap.
Beside(off, width, off2, width2) == off + width <= off2 \/ off2 + width2 <= off

\* A field that lies in a run, and one that ends before the other starts.
Fits(raw, off, width) == off + width <= Len(raw) * ByteBits
Above(raw, off, width, off2, width2) ==
  \E D \in Pos : BitShift(raw, off, width) = BitShift(raw, off2, width2) * (2 ^ width2 * D)

LEMMA ShiftBeside ==
  ASSUME PowerLaw, NEW raw \in Seq(Byte), NEW off \in Nat, NEW width \in Nat,
         NEW off2 \in Nat, NEW width2 \in Nat, Fits(raw, off2, width2),
         off + width <= off2
  PROVE  Above(raw, off, width, off2, width2)
<1>1. PICK L \in Nat : L = Len(raw) * ByteBits
  BY Shift DEF Fits
<1>2. PICK e \in Nat, d \in Nat : e = L - off2 - width2 /\ d = off2 - (off + width)
  <2>1. L - off2 - width2 \in Nat /\ off2 - (off + width) \in Nat
    BY <1>1 DEF Fits
  <2> QED
    BY <2>1
<1>3. L - off - width = e + (width2 + d)
  BY <1>2
<1>4. width2 + d \in Nat
  OBVIOUS
<1>5. 2 ^ (e + (width2 + d)) = 2 ^ e * (2 ^ width2 * 2 ^ d)
  <2>1. PICK t \in Nat : t = width2 + d
    BY <1>4
  <2>2. 2 ^ (e + t) = 2 ^ e * 2 ^ t
    BY PowerAdd
  <2>3. 2 ^ (width2 + d) = 2 ^ width2 * 2 ^ d
    BY PowerAdd
  <2> QED
    BY <2>1, <2>2, <2>3
<1>6. 2 ^ d \in Pos
  BY PowerPos
<1> QED
  BY <1>1, <1>2, <1>3, <1>5, <1>6 DEF BitShift, Above

Scaled(S, P, T, V) == \E E \in Pos : T = (S * P) * E \/ S = T * (V * E)

LEMMA ShiftsBeside ==
  ASSUME PowerLaw, NEW raw \in Seq(Byte), NEW off \in Nat, NEW width \in Nat,
         NEW off2 \in Nat, NEW width2 \in Nat, Fits(raw, off, width),
         Fits(raw, off2, width2), Beside(off, width, off2, width2),
         NEW S \in Pos, NEW P \in Pos, NEW T \in Pos, NEW V \in Pos,
         S = BitShift(raw, off, width), P = 2 ^ width,
         T = BitShift(raw, off2, width2), V = 2 ^ width2
  PROVE  Scaled(S, P, T, V)
<1>1. CASE off + width <= off2
  <2>1. Above(raw, off, width, off2, width2)
    BY <1>1, ShiftBeside
  <2> QED
    BY <2>1, Zenon DEF Above, Scaled
<1>2. CASE off2 + width2 <= off
  <2>0. Above(raw, off2, width2, off, width)
    BY <1>2, ShiftBeside
  <2>1. PICK E \in Pos : T = S * (P * E)
    BY <2>0, Zenon DEF Above
  <2>2. S \in Int /\ P \in Int /\ E \in Int
    BY PosDigitTypes
  <2>3. S * (P * E) = (S * P) * E
    BY <2>2
  <2> QED
    BY <2>1, <2>3, Zenon DEF Scaled
<1> QED
  BY <1>1, <1>2 DEF Beside

\* OR-ing v into a field that is zero writes it there and nowhere else.
LEMMA OrBitsSets ==
  ASSUME PowerLaw, NEW raw \in Seq(Byte), NEW off \in Nat, NEW width \in Nat, width <= WordBits,
         off + width <= Len(raw) * ByteBits, NEW v \in Int, Bits(raw, off, width) = 0
  PROVE  /\ OrBits(raw, off, width, v) \in Seq(Byte)
         /\ Len(OrBits(raw, off, width, v)) = Len(raw)
         /\ Bits(OrBits(raw, off, width, v), off, width) = v % (2 ^ width)
         /\ Number(OrBits(raw, off, width, v)) =
              Number(raw) + (v % (2 ^ width)) * BitShift(raw, off, width)
         /\ \A off2 \in Nat, width2 \in Nat :
              off2 + width2 <= Len(raw) * ByteBits /\ Beside(off, width, off2, width2) =>
                Bits(OrBits(raw, off, width, v), off2, width2) = Bits(raw, off2, width2)
<1> DEFINE L == Len(raw)
           new == OrBits(raw, off, width, v)
<1>1. PICK S \in Pos, P \in Pos : S = BitShift(raw, off, width) /\ P = 2 ^ width
  BY Shift
<1>2. PICK n \in Digit(Base ^ L) : n = Number(raw)
  BY NumberType
<1>3. L \in Nat /\ ByteBits \in Nat /\ WordBits \in Nat
  BY WireAssumption
<1>4. n \in Int
  BY <1>3, PosDigitTypes, PowerPos
<1>5. PICK k \in Digit(P) : k = v % P
  BY DivSplit
<1>6. Field(n, S, P) = 0
  BY <1>1, <1>2 DEF Bits
<1>7. PICK n2 \in Int : n2 = n + (k - 0) * S
  <2>1. k \in Int /\ S \in Int
    BY PosDigitTypes
  <2> QED
    BY <1>4, <2>1
<1>8. n2 = n + (k - Field(n, S, P)) * S
  BY <1>6, <1>7
<1>9. PICK D \in Pos : Base ^ L = (S * P) * D
  <2>1. PICK B \in Nat : B = L * ByteBits
    BY <1>3
  <2>2. PICK e \in Nat : e = B - off - width /\ S = 2 ^ e
    <3>1. B - off - width \in Nat
      BY <2>1
    <3> QED
      BY <1>1, <2>1, <3>1 DEF BitShift
  <2>3. B = (e + width) + off /\ e + width \in Nat
    BY <2>2
  <2>4. 2 ^ ((e + width) + off) = (2 ^ e * 2 ^ width) * 2 ^ off
    <3>1. PICK t \in Nat : t = e + width
      BY <2>3
    <3>2. 2 ^ (t + off) = 2 ^ t * 2 ^ off
      BY PowerAdd
    <3>3. 2 ^ (e + width) = 2 ^ e * 2 ^ width
      BY PowerAdd
    <3> QED
      BY <3>1, <3>2, <3>3
  <2>5. 2 ^ off \in Pos
    BY PowerPos
  <2>6. Base ^ L = 2 ^ B
    BY <1>3, <2>1, BasePower
  <2> QED
    BY <1>1, <2>2, <2>3, <2>4, <2>5, <2>6
<1>10. n2 \in Digit(Base ^ L)
  BY <1>4, <1>8, <1>9, SetFieldRange
<1>11. BitOr(0, k) = k
  <2>1. k \in Digit(2 ^ WordBits)
    BY <1>1, <1>3, DigitWider
  <2> QED
    BY <2>1, OrZero
<1>12. new = WriteUint(L, TRUE, n2)
  <2>1. ReadBits(raw, off, width, FALSE) = 0
    BY ReadBitsIs
  <2>2. ReadUint(raw, TRUE) = n
    BY <1>2 DEF Number
  <2> QED
    BY <1>1, <1>5, <1>7, <1>11, <2>1, <2>2 DEF OrBits
<1>13. new \in Seq(Byte) /\ Len(new) = L
  <2> HIDE DEF new
  <2>1. TRUE \in BOOLEAN
    OBVIOUS
  <2> QED
    BY <1>3, <1>12, <2>1, WriteUintType
<1>14. Number(new) = n2
  <2> HIDE DEF new, L
  <2>1. Number(new) = n2 % (Base ^ L)
    BY <1>3, <1>12, WriteRead DEF Number
  <2>2. Base ^ L \in Pos
    BY <1>3, PowerPos
  <2> QED
    BY <1>10, <2>1, <2>2, DigitIsMod
<1> HIDE DEF new
<1>15. Bits(new, off, width) = k
  <2>1. BitShift(new, off, width) = S
    BY <1>1, <1>13 DEF BitShift
  <2>2. Field(n2, S, P) = k
    BY <1>4, <1>8, SetFieldReads
  <2> QED
    BY <1>1, <1>14, <2>1, <2>2 DEF Bits
<1>16. ASSUME NEW off2 \in Nat, NEW width2 \in Nat, off2 + width2 <= L * ByteBits,
              Beside(off, width, off2, width2)
       PROVE  Bits(new, off2, width2) = Bits(raw, off2, width2)
  <2>1. PICK T \in Pos, V \in Pos : T = BitShift(raw, off2, width2) /\ V = 2 ^ width2
    BY <1>16, Shift
  <2>2. BitShift(new, off2, width2) = T
    BY <1>13, <2>1 DEF BitShift
  <2>3. Fits(raw, off, width) /\ Fits(raw, off2, width2)
    BY <1>16 DEF Fits
  <2>6. Scaled(S, P, T, V)
    BY <1>1, <1>16, <2>1, <2>3, ShiftsBeside
  <2>5. PICK E \in Pos : T = (S * P) * E \/ S = T * (V * E)
    BY <2>6 DEF Scaled
  <2>4. Field(n2, T, V) = Field(n, T, V)
    BY <1>4, <1>8, <2>5, SetFieldOther
  <2> QED
    BY <1>2, <1>14, <2>1, <2>2, <2>4 DEF Bits
<1>17. Number(new) = Number(raw) + (v % (2 ^ width)) * BitShift(raw, off, width)
  <2>1. k - 0 = k
    BY PosDigitTypes
  <2> QED
    BY <1>1, <1>2, <1>5, <1>7, <1>14, <2>1
<1> QED
  BY <1>1, <1>5, <1>13, <1>15, <1>16, <1>17 DEF new

OrSets(y, raw, off, width, v) ==
  /\ y \in Seq(Byte) /\ Len(y) = Len(raw)
  /\ Bits(y, off, width) = v % (2 ^ width)
  /\ \A off2 \in Nat, width2 \in Nat :
       Fits(raw, off2, width2) /\ Beside(off, width, off2, width2) =>
         Bits(y, off2, width2) = Bits(raw, off2, width2)

LEMMA OrBitsIn ==
  ASSUME PowerLaw, NEW raw \in Seq(Byte), NEW off \in Nat, NEW width \in Nat, width <= WordBits,
         Fits(raw, off, width), NEW v \in Int, Bits(raw, off, width) = 0
  PROVE  OrSets(OrBits(raw, off, width, v), raw, off, width, v)
<1>1. PICK y \in Seq(Byte) :
        y = OrBits(raw, off, width, v) /\ Len(y) = Len(raw) /\ Bits(y, off, width) = v % (2 ^ width)
  BY OrBitsSets DEF Fits
<1>2. ASSUME NEW off2 \in Nat, NEW width2 \in Nat, Fits(raw, off2, width2), Beside(off, width, off2, width2)
      PROVE  Bits(OrBits(raw, off, width, v), off2, width2) = Bits(raw, off2, width2)
  BY <1>2, OrBitsSets DEF Fits
<1> QED
  BY <1>1, <1>2 DEF OrSets

\* Two's complement: a number in range survives the modulus.
LEMMA SignExtended ==
  ASSUME PowerLaw, NEW x \in Int, NEW b \in Nat \ {0}, -(2 ^ (b - 1)) <= x, x < 2 ^ (b - 1)
  PROVE  SignExtend(x % (2 ^ b), b) = x
<1>1. PICK c \in Nat : c = b - 1 /\ b = c + 1
  <2>1. b - 1 \in Nat /\ b = (b - 1) + 1
    OBVIOUS
  <2> QED
    BY <2>1
<1>2. PICK H \in Nat \ {0} : H = 2 ^ c
  BY PowerPositive
<1>3. 2 ^ b = 2 * H
  BY <1>1, <1>2 DEF PowerLaw
<1>4. PICK D \in Nat \ {0} : D = 2 ^ b /\ D = 2 * H
  BY <1>3
<1>5. D \in Pos /\ -H <= x /\ x < H
  BY <1>1, <1>2 DEF Pos
<1>6. CASE x >= 0
  <2>1. x \in Digit(D)
    BY <1>4, <1>5, <1>6 DEF Digit
  <2>2. x % D = x
    BY <1>5, <2>1, DigitIsMod
  <2> QED
    BY <1>1, <1>2, <1>4, <1>5, <2>2 DEF SignExtend
<1>7. CASE x < 0
  <2>1. PICK y \in Digit(D) : y = x + D
    BY <1>4, <1>5, <1>7 DEF Digit
  <2>2. PICK q \in Int : q = -1 /\ x = D * q + y
    BY <2>1, <1>4
  <2>3. x % D = y
    BY <1>5, <2>2, DivUnique, Zenon
  <2>4. y >= H /\ y - D = x
    BY <1>4, <1>5, <2>1
  <2> QED
    BY <1>1, <1>2, <1>4, <2>3, <2>4 DEF SignExtend
<1> QED
  BY <1>6, <1>7

LEMMA BitsReadBack ==
  ASSUME PowerLaw, NEW x \in Int, NEW width \in Nat \ {0}, NEW signed \in BOOLEAN,
         BitsInRange(x, width, signed)
  PROVE  (IF signed THEN SignExtend(x % (2 ^ width), width) ELSE x % (2 ^ width)) = x
<1>1. CASE signed
  BY <1>1, SignExtended DEF BitsInRange
<1>2. CASE ~signed
  <2>1. PICK P \in Pos : P = 2 ^ width
    BY PowerPos
  <2>2. x \in Digit(P)
    BY <1>2, <2>1, PosDigitTypes DEF BitsInRange, Digit
  <2> QED
    BY <1>2, <2>1, <2>2, DigitIsMod
<1> QED
  BY <1>1, <1>2

LEMMA IntReadBack ==
  ASSUME PowerLaw, NEW prim, prim.w \in Nat \ {0}, prim.signed \in BOOLEAN, NEW be \in BOOLEAN,
         NEW x \in Int, PrimMin(prim) <= x, x <= PrimMax(prim)
  PROVE  ReadInt(WriteUint(prim.w, be, x), prim, be) = x
<1> DEFINE raw == WriteUint(prim.w, be, x)
<1>1. raw \in Seq(Byte) /\ Len(raw) = prim.w
  BY WriteUintType
<1>2. PICK b \in Nat \ {0} : b = prim.w * ByteBits
  BY WireAssumption
<1>3. ReadUint(raw, be) = x % (2 ^ b)
  BY <1>2, WriteRead, BasePower
<1> HIDE DEF raw
<1>4. ASSUME prim.signed PROVE ReadInt(raw, prim, be) = x
  <2>1. b - 1 \in Nat
    OBVIOUS
  <2>2. PICK H \in Pos : H = 2 ^ (b - 1)
    BY <2>1, PowerPos
  <2>3. -H <= x /\ x < H
    BY <1>2, <1>4, <2>2, PosDigitTypes DEF PrimMin, PrimMax
  <2>4. SignExtend(x % (2 ^ b), b) = x
    BY <2>2, <2>3, SignExtended
  <2> QED
    BY <1>1, <1>2, <1>3, <1>4, <2>4 DEF ReadInt
<1>5. ASSUME ~prim.signed PROVE ReadInt(raw, prim, be) = x
  <2>1. PICK P \in Pos : P = 2 ^ b
    BY PowerPos
  <2>2. prim.w * ByteBits - 0 = b
    BY <1>2
  <2>3. x \in Digit(P)
    BY <1>5, <1>2, <2>1, <2>2, PosDigitTypes DEF PrimMin, PrimMax, Digit
  <2> QED
    BY <1>1, <1>3, <1>5, <2>1, <2>3, DigitIsMod DEF ReadInt
<1> QED
  BY <1>4, <1>5 DEF raw

(***************************************************************************)
(* Slices of the output.                                                   *)
(***************************************************************************)
LEMMA SliceIs ==
  ASSUME NEW o \in Seq(Byte), NEW s \in Nat, NEW e \in Nat, s <= e, e <= Len(o)
  PROVE  /\ Slice(o, s, e) \in Seq(Byte) /\ Len(Slice(o, s, e)) = e - s
         /\ \A i \in 1 .. (e - s) : Slice(o, s, e)[i] = o[s + i]
<1>1. \A i \in (s + 1) .. e : o[i] \in Byte
  OBVIOUS
<1>2. s + 1 \in Int /\ e \in Int
  OBVIOUS
<1>3. \A i \in 1 .. (e - (s + 1) + 1) : SubSeq(o, s + 1, e)[i] = o[(s + 1) + i - 1]
  BY <1>1, <1>2, SubSeqProperties
<1>4. ASSUME NEW i \in 1 .. (e - s) PROVE SubSeq(o, s + 1, e)[i] = o[s + i]
  <2>1. i \in 1 .. (e - (s + 1) + 1) /\ (s + 1) + i - 1 = s + i
    OBVIOUS
  <2> QED
    BY <1>3, <2>1
<1> QED
  BY <1>4, SliceType DEF Slice

IsSlice(x, o, s, e) ==
  x \in Seq(Byte) /\ Len(x) = e - s /\ \A i \in 1 .. (e - s) : x[i] = o[s + i]

LEMMA SliceFacts ==
  ASSUME NEW o \in Seq(Byte), NEW s \in Nat, NEW e \in Nat, s <= e, e <= Len(o)
  PROVE  IsSlice(Slice(o, s, e), o, s, e)
<1>1. /\ Slice(o, s, e) \in Seq(Byte) /\ Len(Slice(o, s, e)) = e - s
      /\ \A i \in 1 .. (e - s) : Slice(o, s, e)[i] = o[s + i]
  BY SliceIs
<1> QED
  BY <1>1 DEF IsSlice

LEMMA SliceSame ==
  ASSUME NEW o \in Seq(Byte), NEW p \in Seq(Byte), NEW s \in Nat, NEW e \in Nat, s <= e,
         e <= Len(o), e <= Len(p), \A i \in (s + 1) .. e : o[i] = p[i]
  PROVE  Slice(o, s, e) = Slice(p, s, e)
<1> DEFINE x == Slice(o, s, e)
           y == Slice(p, s, e)
<1>1. /\ x \in Seq(Byte) /\ Len(x) = e - s /\ y \in Seq(Byte) /\ Len(y) = e - s
      /\ \A i \in 1 .. (e - s) : x[i] = o[s + i] /\ y[i] = p[s + i]
  BY SliceIs
<1>2. ASSUME NEW i \in 1 .. (e - s) PROVE x[i] = y[i]
  <2>1. s + i \in (s + 1) .. e
    OBVIOUS
  <2> QED
    BY <1>1, <2>1
<1> HIDE DEF x, y
<1>3. x = y
  BY <1>1, <1>2, SeqEqual
<1> QED
  BY <1>3 DEF x, y

\* What is appended leaves the bytes before it.
LEMMA SliceAppend ==
  ASSUME NEW o \in Seq(Byte), NEW x \in Seq(Byte), NEW s \in Nat, NEW e \in Nat, s <= e, e <= Len(o)
  PROVE  Slice(o \o x, s, e) = Slice(o, s, e)
<1>1. o \o x \in Seq(Byte) /\ Len(o \o x) = Len(o) + Len(x) /\ Len(x) \in Nat /\ Len(o) \in Nat
  BY ConcatProperties
<1>2. \A i \in (s + 1) .. e : (o \o x)[i] = o[i]
  BY <1>1, ConcatProperties
<1>3. PICK z \in Seq(Byte) : z = o \o x
  BY <1>1
<1>4. e <= Len(z) /\ \A i \in (s + 1) .. e : z[i] = o[i]
  BY <1>1, <1>2, <1>3
<1>5. Slice(z, s, e) = Slice(o, s, e)
  BY <1>4, SliceSame
<1> QED
  BY <1>3, <1>5

\* And what is appended is where the output ended.
LEMMA SliceOfAppended ==
  ASSUME NEW o \in Seq(Byte), NEW x \in Seq(Byte), NEW s \in Nat, NEW e \in Nat, s <= e, e <= Len(x)
  PROVE  Slice(o \o x, Len(o) + s, Len(o) + e) = Slice(x, s, e)
<1> DEFINE n == Len(o)
           z == o \o x
           u == Slice(z, n + s, n + e)
           v == Slice(x, s, e)
<1>1. z \in Seq(Byte) /\ Len(z) = n + Len(x) /\ Len(x) \in Nat /\ n \in Nat
  BY ConcatProperties
<1>2. n + s \in Nat /\ n + e \in Nat /\ n + s <= n + e /\ n + e <= Len(z) /\ (n + e) - (n + s) = e - s
  BY <1>1
<1>3. v \in Seq(Byte) /\ Len(v) = e - s /\ \A i \in 1 .. (e - s) : v[i] = x[s + i]
  BY SliceIs
<1>4. u \in Seq(Byte) /\ Len(u) = e - s /\ \A i \in 1 .. (e - s) : u[i] = z[(n + s) + i]
  <2>1. PICK f \in Nat, g \in Nat, y \in Seq(Byte) : f = n + s /\ g = n + e /\ y = z
    BY <1>1, <1>2
  <2>2. f <= g /\ g <= Len(y) /\ g - f = e - s
    BY <1>2, <2>1
  <2>3. /\ Slice(y, f, g) \in Seq(Byte) /\ Len(Slice(y, f, g)) = g - f
        /\ \A i \in 1 .. (g - f) : Slice(y, f, g)[i] = y[f + i]
    BY <2>2, SliceIs
  <2> QED
    BY <2>1, <2>2, <2>3
<1>5. ASSUME NEW i \in 1 .. (e - s) PROVE u[i] = v[i]
  <2>1. (n + s) + i \in 1 .. (n + Len(x)) /\ (n + s) + i > n /\ ((n + s) + i) - n = s + i
    BY <1>1
  <2>2. z[(n + s) + i] = x[((n + s) + i) - n]
    BY <2>1, ConcatProperties
  <2> QED
    BY <1>3, <1>4, <2>1, <2>2
<1> HIDE DEF u, v
<1>6. u = v
  BY <1>3, <1>4, <1>5, SeqEqual
<1> QED
  BY <1>6 DEF u, v, z, n

\* Overwriting leaves the bytes elsewhere.
LEMMA SliceElsewhere ==
  ASSUME NEW o \in Seq(Byte), NEW pos \in Nat, NEW raw \in Seq(Byte), NEW s \in Nat, NEW e \in Nat,
         s <= e, e <= Len(o), e <= pos \/ pos + Len(raw) <= s
  PROVE  Slice(WriteAt(o, pos, raw), s, e) = Slice(o, s, e)
<1>1. WriteAt(o, pos, raw) \in Seq(Byte) /\ Len(WriteAt(o, pos, raw)) = Len(o)
  BY WriteAtType
<1>2. ASSUME NEW i \in (s + 1) .. e PROVE WriteAt(o, pos, raw)[i] = o[i]
  <2>1. i \in DOMAIN o /\ i \notin (pos + 1) .. (pos + Len(raw))
    OBVIOUS
  <2> QED
    BY <2>1 DEF WriteAt
<1> QED
  BY <1>1, <1>2, SliceSame

\* A buffer in three parts, and the middle one replaced.
InThree(o, s, e, m) == WriteAt(o, s, m) = Slice(o, 0, s) \o (m \o Slice(o, e, Len(o)))

LEMMA ThreeParts ==
  ASSUME NEW o \in Seq(Byte), NEW s \in Nat, NEW e \in Nat, s <= e, e <= Len(o),
         NEW m \in Seq(Byte), Len(m) = e - s
  PROVE  InThree(o, s, e, m)
<1> DEFINE a == Slice(o, 0, s)
           c == Slice(o, e, Len(o))
           t == m \o c
           z == a \o t
           w == WriteAt(o, s, m)
<1>0. Len(o) \in Nat /\ 0 \in Nat /\ s - 0 = s /\ 0 <= s /\ s <= Len(o)
  OBVIOUS
<1>1. a \in Seq(Byte) /\ Len(a) = s /\ \A i \in 1 .. s : a[i] = o[0 + i]
  <2>1. /\ a \in Seq(Byte) /\ Len(a) = s - 0
        /\ \A i \in 1 .. (s - 0) : a[i] = o[0 + i]
    BY <1>0, SliceIs
  <2> QED
    BY <1>0, <2>1
<1>2. c \in Seq(Byte) /\ Len(c) = Len(o) - e /\ \A i \in 1 .. (Len(o) - e) : c[i] = o[e + i]
  <2>1. PICK n \in Nat : n = Len(o) /\ e <= n /\ n <= Len(o)
    BY <1>0
  <2>2. /\ Slice(o, e, n) \in Seq(Byte) /\ Len(Slice(o, e, n)) = n - e
        /\ \A i \in 1 .. (n - e) : Slice(o, e, n)[i] = o[e + i]
    BY <2>1, SliceIs
  <2> QED
    BY <2>1, <2>2
<1>3. w \in Seq(Byte) /\ Len(w) = Len(o)
  BY WriteAtType
<1>4. \A i \in 1 .. Len(o) : w[i] = IF i \in (s + 1) .. (s + Len(m)) THEN m[i - s] ELSE o[i]
  BY DEF WriteAt
<1> HIDE DEF a, c, w
<1>5. t \in Seq(Byte) /\ Len(t) = Len(o) - s
      /\ \A i \in 1 .. (Len(o) - s) : t[i] = IF i <= Len(m) THEN m[i] ELSE c[i - Len(m)]
  BY <1>0, <1>2, ConcatProperties
<1> HIDE DEF t
<1>6. z \in Seq(Byte) /\ Len(z) = Len(o)
      /\ \A i \in 1 .. Len(o) : z[i] = IF i <= s THEN a[i] ELSE t[i - s]
  BY <1>0, <1>1, <1>5, ConcatProperties
<1> HIDE DEF z
<1>7. ASSUME NEW i \in 1 .. Len(o) PROVE w[i] = z[i]
  <2>1. CASE i <= s
    BY <1>0, <1>1, <1>4, <1>6, <2>1
  <2>2. CASE i > s /\ i <= e
    <3>1. i - s \in 1 .. (Len(o) - s) /\ i - s <= Len(m) /\ i \in (s + 1) .. (s + Len(m))
      BY <2>2
    <3> QED
      BY <1>4, <1>5, <1>6, <2>2, <3>1
  <2>3. CASE i > e
    <3>1. /\ i - s \in 1 .. (Len(o) - s) /\ ~(i - s <= Len(m)) /\ i \notin (s + 1) .. (s + Len(m))
          /\ (i - s) - Len(m) = i - e /\ i - e \in 1 .. (Len(o) - e) /\ e + (i - e) = i /\ ~(i <= s)
      BY <2>3
    <3>2. w[i] = o[i] /\ z[i] = t[i - s] /\ t[i - s] = c[(i - s) - Len(m)] /\ c[i - e] = o[e + (i - e)]
      BY <1>2, <1>4, <1>5, <1>6, <3>1
    <3> QED
      BY <3>1, <3>2
  <2> QED
    BY <2>1, <2>2, <2>3
<1>8. w = z
  BY <1>3, <1>6, <1>7, SeqEqual
<1> QED
  BY <1>8 DEF w, z, t, a, c, InThree

(***************************************************************************)
(* Bit fields of the output.                                               *)
(***************************************************************************)
\* A run's number is one of as many values as a multiple of the field's end.
WholeRun(raw, off, width) ==
  \E D \in Pos : Base ^ Len(raw) = BitShift(raw, off, width) * (2 ^ width * D)

LEMMA RunTop ==
  ASSUME PowerLaw, NEW raw \in Seq(Byte), NEW off \in Nat, NEW width \in Nat, Fits(raw, off, width)
  PROVE  WholeRun(raw, off, width)
<1>1. PICK B \in Nat : B = Len(raw) * ByteBits
  BY Shift DEF Fits
<1>2. PICK e \in Nat : e = B - off - width
  <2>1. B - off - width \in Nat
    BY <1>1 DEF Fits
  <2> QED
    BY <2>1
<1>3. B = e + (width + off)
  BY <1>2
<1>4. 2 ^ (e + (width + off)) = 2 ^ e * (2 ^ width * 2 ^ off)
  <2>1. PICK t \in Nat : t = width + off
    OBVIOUS
  <2>2. 2 ^ (e + t) = 2 ^ e * 2 ^ t
    BY PowerAdd
  <2>3. 2 ^ (width + off) = 2 ^ width * 2 ^ off
    BY PowerAdd
  <2> QED
    BY <2>1, <2>2, <2>3
<1>5. 2 ^ off \in Pos
  BY PowerPos
<1>6. Base ^ Len(raw) = 2 ^ B
  <2>1. Len(raw) \in Nat
    OBVIOUS
  <2> QED
    BY <1>1, <2>1, BasePower
<1>7. BitShift(raw, off, width) = 2 ^ e
  BY <1>1, <1>2 DEF BitShift
<1> QED
  BY <1>3, <1>4, <1>5, <1>6, <1>7 DEF WholeRun

\* Byte positions as bit positions.
BitPos(n) == n * ByteBits

LEMMA BitPosType ==
  /\ \A n \in Nat : BitPos(n) \in Nat
  /\ \A m, n \in Nat : BitPos(m + n) = BitPos(m) + BitPos(n)
  /\ \A m, n \in Nat : m <= n => BitPos(m) <= BitPos(n)
<1>1. ByteBits \in Nat
  BY WireAssumption
<1>2. \A n \in Nat : BitPos(n) \in Nat
  BY <1>1 DEF BitPos
<1>3. \A m, n \in Nat : BitPos(m + n) = BitPos(m) + BitPos(n)
  BY <1>1 DEF BitPos
<1>4. ASSUME NEW m \in Nat, NEW n \in Nat, m <= n PROVE BitPos(m) <= BitPos(n)
  <2>1. n = m + (n - m) /\ n - m \in Nat
    BY <1>4
  <2>2. BitPos(n) = BitPos(m) + BitPos(n - m) /\ BitPos(n - m) \in Nat /\ BitPos(m) \in Nat
    BY <1>2, <1>3, <2>1
  <2> QED
    BY <2>2
<1> QED
  BY <1>2, <1>3, <1>4

LEMMA BitsOfSuffix ==
  ASSUME PowerLaw, NEW a \in Seq(Byte), NEW b \in Seq(Byte), NEW off \in Nat, NEW width \in Nat,
         Fits(b, off, width)
  PROVE  Bits(a \o b, BitPos(Len(a)) + off, width) = Bits(b, off, width)
<1>1. PICK S \in Pos, P \in Pos : S = BitShift(b, off, width) /\ P = 2 ^ width
  BY Shift DEF Fits
<1>2. PICK la \in Nat, lb \in Nat : la = Len(a) /\ lb = Len(b)
  OBVIOUS
<1>3. PICK x \in Nat, y \in Nat : x = BitPos(la) /\ y = BitPos(lb) /\ BitPos(la + lb) = x + y
  <2>1. BitPos(la) \in Nat /\ BitPos(lb) \in Nat /\ BitPos(la + lb) = BitPos(la) + BitPos(lb)
    BY BitPosType
  <2> QED
    BY <2>1
<1>4. BitShift(a \o b, x + off, width) = S
  <2>1. Len(a \o b) = la + lb
    BY <1>2, ConcatProperties
  <2>2. (x + y) - (x + off) - width = y - off - width
    OBVIOUS
  <2> QED
    BY <1>1, <1>2, <1>3, <2>1, <2>2 DEF BitShift, BitPos
<1>5. WholeRun(b, off, width)
  BY RunTop
<1>6. PICK D \in Pos : Base ^ lb = S * (P * D)
  BY <1>1, <1>2, <1>5 DEF WholeRun
<1>7. PICK K \in Pos : K = Base ^ lb
  BY PowerPos
<1>8. PICK u \in Digit(Base ^ Len(a)), r \in Digit(K) : u = Number(a) /\ r = Number(b)
  BY <1>2, <1>7, NumberType
<1>9. u \in Int
  BY <1>2, <1>8, PosDigitTypes, PowerPos
<1>10. PICK N : N = Number(a \o b) /\ N = K * u + r
  BY <1>2, <1>7, <1>8, NumberConcat
<1>11. N \in Int /\ N % K = r
  BY <1>9, <1>10, DivUnique
<1>12. Field(N, S, P) = Field(N % (S * (P * D)), S, P)
  BY <1>11, FieldBelow
<1> QED
  BY <1>1, <1>2, <1>3, <1>4, <1>6, <1>7, <1>8, <1>10, <1>11, <1>12 DEF Bits

LEMMA BitsInside ==
  ASSUME PowerLaw, NEW a \in Seq(Byte), NEW m \in Seq(Byte), NEW c \in Seq(Byte),
         NEW off \in Nat, NEW width \in Nat, Fits(m, off, width)
  PROVE  Bits(a \o (m \o c), BitPos(Len(a)) + off, width) = Bits(m, off, width)
<1>1. PICK b \in Seq(Byte) : b = m \o c /\ Len(b) = Len(m) + Len(c)
  BY ConcatProperties
<1>2. Bits(b, off, width) = Bits(m, off, width)
  BY <1>1, BitsOfPrefix DEF Fits
<1>3. Fits(b, off, width)
  <2>1. Len(m) \in Nat /\ Len(c) \in Nat /\ Len(m) <= Len(m) + Len(c) /\ Len(m) + Len(c) \in Nat
    OBVIOUS
  <2>2. BitPos(Len(m)) <= BitPos(Len(m) + Len(c)) /\ BitPos(Len(m)) \in Nat /\ BitPos(Len(m) + Len(c)) \in Nat
    BY <2>1, BitPosType
  <2> QED
    BY <1>1, <2>2 DEF Fits, BitPos
<1>4. Bits(a \o b, BitPos(Len(a)) + off, width) = Bits(b, off, width)
  BY <1>3, BitsOfSuffix
<1> QED
  BY <1>1, <1>2, <1>4

LEMMA ConcatBytes ==
  ASSUME NEW a \in Seq(Byte), NEW b \in Seq(Byte)
  PROVE  a \o b \in Seq(Byte) /\ Len(a \o b) = Len(a) + Len(b)
BY ConcatProperties

\* The shift of a field counted from the end of what follows the run.
ShiftedIn(o, a, m, c, off, width) ==
  /\ BitShift(o, BitPos(Len(a)) + off, width) = Base ^ Len(c) * BitShift(m, off, width)
  /\ BitPos(Len(a)) + off \in Nat /\ Fits(o, BitPos(Len(a)) + off, width)

LEMMA ShiftInside ==
  ASSUME PowerLaw, NEW a \in Seq(Byte), NEW m \in Seq(Byte), NEW c \in Seq(Byte),
         NEW off \in Nat, NEW width \in Nat, Fits(m, off, width),
         NEW o, o = a \o (m \o c)
  PROVE  ShiftedIn(o, a, m, c, off, width)
<1>1. PICK la \in Nat, lm \in Nat, lc \in Nat : la = Len(a) /\ lm = Len(m) /\ lc = Len(c)
  OBVIOUS
<1>2. Len(o) = la + (lm + lc)
  <2>1. PICK b \in Seq(Byte) : b = m \o c /\ Len(b) = Len(m) + Len(c)
    BY ConcatProperties
  <2>2. Len(a \o b) = Len(a) + Len(b)
    BY ConcatProperties
  <2> QED
    BY <1>1, <2>1, <2>2
<1>3. PICK x \in Nat, y \in Nat, z \in Nat :
        x = BitPos(la) /\ y = BitPos(lm) /\ z = BitPos(lc) /\ BitPos(la + (lm + lc)) = x + (y + z)
  <2>1. lm + lc \in Nat
    OBVIOUS
  <2>2. BitPos(la) \in Nat /\ BitPos(lm) \in Nat /\ BitPos(lc) \in Nat
    BY BitPosType
  <2>3. BitPos(la + (lm + lc)) = BitPos(la) + BitPos(lm + lc)
    BY <2>1, BitPosType
  <2>4. BitPos(lm + lc) = BitPos(lm) + BitPos(lc)
    BY BitPosType
  <2> QED
    BY <2>2, <2>3, <2>4
<1>4. off + width <= y
  BY <1>1, <1>3 DEF Fits, BitPos
<1>5. PICK e \in Nat : e = y - off - width
  <2>1. y - off - width \in Nat
    BY <1>4
  <2> QED
    BY <2>1
<1>6. (x + (y + z)) - (x + off) - width = z + e
  BY <1>5
<1>7. BitShift(m, off, width) = 2 ^ e
  BY <1>1, <1>3, <1>5 DEF BitShift, BitPos
<1>8. BitShift(o, x + off, width) = 2 ^ (z + e)
  BY <1>2, <1>3, <1>6 DEF BitShift, BitPos
<1>9. 2 ^ (z + e) = 2 ^ z * 2 ^ e
  BY PowerAdd
<1>10. Base ^ lc = 2 ^ z
  BY <1>3, BasePower DEF BitPos
<1>11. (x + off) + width <= x + (y + z)
  BY <1>4
<1>12. Fits(o, x + off, width)
  BY <1>2, <1>3, <1>11 DEF Fits, BitPos
<1>13. BitShift(o, x + off, width) = Base ^ lc * BitShift(m, off, width)
  BY <1>7, <1>8, <1>9, <1>10, Zenon
<1>14. x + off \in Nat
  OBVIOUS
<1>15. x = BitPos(Len(a)) /\ lc = Len(c)
  BY <1>1, <1>3
<1> QED
  BY <1>12, <1>13, <1>14, <1>15, Zenon DEF ShiftedIn

\* OR-ing into a field of a run in the output leaves the fields beside it.
OrsInto(o, o2, a, m, c, off, width, v) ==
  /\ Fits(m, off, width) /\ Bits(m, off, width) = 0
  /\ o = a \o (m \o c)
  /\ o2 = a \o (OrBits(m, off, width, v) \o c)

LEMMA OrBitsLeaves ==
  ASSUME PowerLaw, NEW a \in Seq(Byte), NEW m \in Seq(Byte), NEW c \in Seq(Byte),
         NEW off \in Nat, NEW width \in Nat, width <= WordBits, NEW v \in Int,
         NEW o, NEW o2, OrsInto(o, o2, a, m, c, off, width, v),
         NEW off2 \in Nat, NEW width2 \in Nat, Fits(o, off2, width2),
         Beside(BitPos(Len(a)) + off, width, off2, width2)
  PROVE  Bits(o2, off2, width2) = Bits(o, off2, width2)
<1>0. /\ Fits(m, off, width) /\ Bits(m, off, width) = 0
      /\ o = a \o (m \o c) /\ o2 = a \o (OrBits(m, off, width, v) \o c)
  BY DEF OrsInto
<1>1. PICK m2 \in Seq(Byte) :
        /\ m2 = OrBits(m, off, width, v) /\ Len(m2) = Len(m)
        /\ Number(m2) = Number(m) + (v % (2 ^ width)) * BitShift(m, off, width)
  BY <1>0, OrBitsSets DEF Fits
<1>2. PICK b \in Seq(Byte), b2 \in Seq(Byte) :
        b = m \o c /\ b2 = m2 \o c /\ Len(b) = Len(m) + Len(c) /\ Len(b2) = Len(b)
  <2>1. m \o c \in Seq(Byte) /\ Len(m \o c) = Len(m) + Len(c)
    BY ConcatBytes
  <2>2. m2 \o c \in Seq(Byte) /\ Len(m2 \o c) = Len(m2) + Len(c)
    BY ConcatBytes
  <2> QED
    BY <1>1, <2>1, <2>2
<1>3. o \in Seq(Byte) /\ o2 \in Seq(Byte) /\ Len(o2) = Len(o)
  <2>1. a \o b \in Seq(Byte) /\ Len(a \o b) = Len(a) + Len(b)
    BY ConcatBytes
  <2>2. a \o b2 \in Seq(Byte) /\ Len(a \o b2) = Len(a) + Len(b2)
    BY ConcatBytes
  <2> QED
    BY <1>0, <1>1, <1>2, <2>1, <2>2
<1>4. PICK S \in Pos, P \in Pos : S = BitShift(m, off, width) /\ P = 2 ^ width
  BY <1>0, Shift DEF Fits
<1>5. PICK k \in Digit(P) : k = v % P
  BY DivSplit
<1>6. PICK K \in Pos, J \in Pos : K = Base ^ Len(c) /\ J = Base ^ Len(b)
  <2>1. Len(c) \in Nat /\ Len(b) \in Nat
    OBVIOUS
  <2> QED
    BY <2>1, PowerPos
<1>7. PICK A \in Int, M \in Int, M2 \in Int, C \in Int :
        A = Number(a) /\ M = Number(m) /\ M2 = Number(m2) /\ C = Number(c)
  <2>1. \A s \in Seq(Byte) : Number(s) \in Int
    <3> TAKE s \in Seq(Byte)
    <3>1. Len(s) \in Nat
      OBVIOUS
    <3> QED
      BY <3>1, NumberType, PosDigitTypes, PowerPos
  <2> QED
    BY <2>1
<1>8. Number(b) = K * M + C /\ Number(b2) = K * M2 + C
  BY <1>2, <1>6, <1>7, NumberConcat
<1>9. Number(a \o b) = J * A + (K * M + C) /\ Number(a \o b2) = J * A + (K * M2 + C)
  BY <1>2, <1>6, <1>7, <1>8, NumberConcat
<1>10. M2 = M + k * S
  BY <1>1, <1>4, <1>5, <1>7
<1>11. k \in Int /\ S \in Int /\ K \in Int /\ J \in Int
  BY PosDigitTypes
<1>12. PICK n \in Int, n2 \in Int : n = J * A + (K * M + C) /\ n2 = J * A + (K * M2 + C)
  BY <1>11
<1>13. PICK S2 \in Pos : S2 = K * S
  BY PosTimes
<1>14. n2 = n + k * S2
  <2>1. PICK q \in Int : q = k * S
    BY <1>11
  <2>2. K * (M + q) = K * M + K * q
    BY <1>11
  <2>3. K * q = k * (K * S)
    BY <1>11, <2>1
  <2>4. PICK t \in Int, u \in Int, w \in Int : t = J * A /\ u = K * M /\ w = K * q
    BY <1>11
  <2>5. K * M2 = u + w
    BY <1>10, <2>1, <2>2, <2>4, Zenon
  <2>6. n = t + (u + C) /\ n2 = t + ((u + w) + C)
    BY <1>12, <2>4, <2>5, Zenon
  <2>7. n2 = n + w
    BY <2>6
  <2>8. w = k * S2
    BY <1>13, <2>3, <2>4, Zenon
  <2> QED
    BY <2>7, <2>8, Zenon
<1>15. PICK p \in Nat : p = BitPos(Len(a)) + off /\ BitShift(o, p, width) = S2 /\ Fits(o, p, width)
  <2>1. ShiftedIn(o, a, m, c, off, width)
    BY <1>0, ShiftInside
  <2> QED
    BY <1>4, <1>6, <1>13, <2>1, Zenon DEF ShiftedIn
<1>16. Field(n, S2, P) = 0
  <2>1. Bits(o, p, width) = 0
    BY <1>0, <1>15, BitsInside
  <2> QED
    BY <1>0, <1>2, <1>4, <1>9, <1>12, <1>15, <2>1 DEF Bits
<1>17. n2 = n + (k - Field(n, S2, P)) * S2
  <2>1. k - 0 = k
    BY <1>11
  <2> QED
    BY <1>14, <1>16, <2>1
<1>18. PICK T \in Pos, V \in Pos : T = BitShift(o, off2, width2) /\ V = 2 ^ width2
  BY <1>3, Shift DEF Fits
<1>19. Scaled(S2, P, T, V)
  BY <1>3, <1>4, <1>15, <1>18, ShiftsBeside
<1>20. PICK E \in Pos : T = (S2 * P) * E \/ S2 = T * (V * E)
  BY <1>19 DEF Scaled
<1>21. Field(n2, T, V) = Field(n, T, V)
  BY <1>17, <1>20, SetFieldOther
<1>22. BitShift(o2, off2, width2) = T
  BY <1>3, <1>18 DEF BitShift
<1> QED
  BY <1>0, <1>1, <1>2, <1>9, <1>12, <1>18, <1>21, <1>22 DEF Bits

(***************************************************************************)
(* Slots.                                                                  *)
(***************************************************************************)
SlotFormed(slot, n) ==
  /\ SlotOk(slot, n)
  /\ slot.kind = "Int" =>
       slot.prim.w \in Nat \ {0} /\ slot.prim.signed \in BOOLEAN /\ slot.be \in BOOLEAN
  /\ slot.kind = "Bits" => slot.width \in 1 .. WordBits /\ slot.signed \in BOOLEAN

\* Slots that share no bits.
BytesApart(s, t) == SlotEnd(s) <= t.pos \/ SlotEnd(t) <= s.pos
SlotAt(slot) == BitPos(slot.pos) + slot.off
Apart(s, t) ==
  \/ BytesApart(s, t)
  \/ s.kind = "Bits" /\ t.kind = "Bits" /\ Beside(SlotAt(s), s.width, SlotAt(t), t.width)

LEMMA SlotRawIs ==
  ASSUME NEW o \in Seq(Byte), NEW slot, SlotFormed(slot, Len(o))
  PROVE  /\ slot.pos \in Nat /\ SlotEnd(slot) \in Nat /\ slot.pos <= SlotEnd(slot) /\ SlotEnd(slot) <= Len(o)
         /\ SlotRaw(o, slot) \in Seq(Byte) /\ Len(SlotRaw(o, slot)) = SlotEnd(slot) - slot.pos
         /\ slot.kind = "Int" => SlotEnd(slot) = slot.pos + slot.prim.w
         /\ slot.kind = "Bits" => /\ slot.off \in Nat /\ slot.width \in Nat
                                  /\ Fits(SlotRaw(o, slot), slot.off, slot.width)
<1>1. slot.pos \in Nat /\ SlotEnd(slot) <= Len(o) /\ slot.kind \in {"Int", "Bits"}
  BY DEF SlotFormed, SlotOk
<1>2. PICK q \in Nat : /\ SlotEnd(slot) = slot.pos + q
                       /\ slot.kind = "Int" => q = slot.prim.w
                       /\ slot.kind = "Bits" => /\ slot.off \in Nat /\ slot.width \in Nat
                                                /\ slot.off + slot.width <= q * ByteBits
  <2>1. CASE slot.kind = "Int"
    BY <2>1 DEF SlotFormed, SlotOk, SlotEnd
  <2>2. CASE slot.kind = "Bits"
    <3>1. PICK x \in Nat : x = slot.off + slot.width /\ slot.off \in Nat /\ slot.width \in Nat
      BY <2>2 DEF SlotFormed, SlotOk
    <3>2. (x + ByteBits - 1) \div ByteBits \in Nat /\ x <= ((x + ByteBits - 1) \div ByteBits) * ByteBits
      BY RoundUp
    <3>3. SlotEnd(slot) = slot.pos + ((x + ByteBits - 1) \div ByteBits)
      BY <2>2, <3>1 DEF SlotEnd
    <3> QED
      BY <2>2, <3>1, <3>2, <3>3
  <2> QED
    BY <1>1, <2>1, <2>2
<1>3. PICK e \in Nat : e = SlotEnd(slot) /\ slot.pos <= e /\ e <= Len(o) /\ e - slot.pos = q
  <2>1. slot.pos + q \in Nat /\ slot.pos <= slot.pos + q /\ (slot.pos + q) - slot.pos = q
    BY <1>1
  <2> QED
    BY <1>1, <1>2, <2>1
<1>4. SlotRaw(o, slot) \in Seq(Byte) /\ Len(SlotRaw(o, slot)) = e - slot.pos
  <2>1. IsSlice(Slice(o, slot.pos, e), o, slot.pos, e)
    BY <1>1, <1>3, SliceFacts
  <2> QED
    BY <1>3, <2>1 DEF SlotRaw, IsSlice
<1>5. slot.kind = "Bits" => Fits(SlotRaw(o, slot), slot.off, slot.width)
  BY <1>2, <1>3, <1>4 DEF Fits
<1> QED
  BY <1>1, <1>2, <1>3, <1>4, <1>5

\* The output around a slot.
Around(o, slot, m) ==
  \E a \in Seq(Byte), c \in Seq(Byte) :
    /\ Len(a) = slot.pos
    /\ o = a \o (SlotRaw(o, slot) \o c)
    /\ WriteAt(o, slot.pos, m) = a \o (m \o c)

LEMMA AroundSlot ==
  ASSUME NEW o \in Seq(Byte), NEW slot, SlotFormed(slot, Len(o)), NEW m \in Seq(Byte),
         Len(m) = Len(SlotRaw(o, slot))
  PROVE  Around(o, slot, m)
<1>1. PICK s \in Nat, e \in Nat : s = slot.pos /\ e = SlotEnd(slot) /\ s <= e /\ e <= Len(o)
  BY SlotRawIs
<1>2. PICK r \in Seq(Byte) : r = SlotRaw(o, slot) /\ Len(r) = e - s /\ r = Slice(o, s, e)
  BY <1>1, SlotRawIs DEF SlotRaw
<1>3. PICK n \in Nat : n = Len(o)
  OBVIOUS
<1>4. PICK a \in Seq(Byte), c \in Seq(Byte) : a = Slice(o, 0, s) /\ c = Slice(o, e, n) /\ Len(a) = s
  <2>0. 0 <= s /\ s <= Len(o) /\ 0 \in Nat /\ s - 0 = s
    BY <1>1, <1>3
  <2>1. IsSlice(Slice(o, 0, s), o, 0, s)
    BY <2>0, SliceFacts
  <2>2. IsSlice(Slice(o, e, n), o, e, n)
    BY <1>1, <1>3, SliceFacts
  <2> QED
    BY <2>0, <2>1, <2>2 DEF IsSlice
<1>5. WriteAt(o, s, m) = a \o (m \o c) /\ WriteAt(o, s, r) = a \o (r \o c)
  <2>1. Len(m) = e - s /\ Len(r) = e - s
    BY <1>2
  <2>2. InThree(o, s, e, m)
    BY <1>1, <2>1, ThreeParts
  <2>3. InThree(o, s, e, r)
    BY <1>1, <2>1, ThreeParts
  <2> QED
    BY <1>3, <1>4, <2>2, <2>3 DEF InThree
<1>6. WriteAt(o, s, r) = o
  <2> DEFINE w == WriteAt(o, s, r)
  <2>1. w \in Seq(Byte) /\ Len(w) = Len(o)
    BY WriteAtType
  <2>2. \A i \in 1 .. Len(o) : w[i] = IF i \in (s + 1) .. (s + Len(r)) THEN r[i - s] ELSE o[i]
    BY DEF WriteAt
  <2>6. IsSlice(Slice(o, s, e), o, s, e)
    BY <1>1, SliceFacts
  <2>3. \A i \in 1 .. (e - s) : r[i] = o[s + i]
    BY <1>2, <2>6 DEF IsSlice
  <2>4. ASSUME NEW i \in 1 .. Len(o) PROVE w[i] = o[i]
    <3>1. CASE i \in (s + 1) .. (s + Len(r))
      <4>1. i - s \in 1 .. (e - s) /\ s + (i - s) = i
        BY <1>2, <3>1
      <4> QED
        BY <2>2, <2>3, <3>1, <4>1
    <3>2. CASE i \notin (s + 1) .. (s + Len(r))
      BY <2>2, <3>2
    <3> QED
      BY <3>1, <3>2
  <2> HIDE DEF w
  <2>5. w = o
    BY <2>1, <2>4, SeqEqual
  <2> QED
    BY <2>5 DEF w
<1> QED
  BY <1>1, <1>2, <1>4, <1>5, <1>6 DEF Around

\* A field of bits is read alike in its slot and in the output.
LEMMA SlotBits ==
  ASSUME PowerLaw, NEW o \in Seq(Byte), NEW slot, SlotFormed(slot, Len(o)), slot.kind = "Bits"
  PROVE  /\ SlotAt(slot) \in Nat /\ slot.width \in Nat
         /\ Fits(o, SlotAt(slot), slot.width)
         /\ Bits(o, SlotAt(slot), slot.width) = Bits(SlotRaw(o, slot), slot.off, slot.width)
<1>1. PICK m \in Seq(Byte) : m = SlotRaw(o, slot)
  BY SlotRawIs
<1>2. slot.off \in Nat /\ slot.width \in Nat /\ Fits(m, slot.off, slot.width)
  BY <1>1, SlotRawIs
<1>3. PICK a \in Seq(Byte), c \in Seq(Byte) : Len(a) = slot.pos /\ o = a \o (m \o c)
  <2>1. Around(o, slot, m)
    BY <1>1, AroundSlot
  <2> QED
    BY <1>1, <2>1 DEF Around
<1>4. ShiftedIn(o, a, m, c, slot.off, slot.width)
  BY <1>2, <1>3, ShiftInside
<1>5. Bits(a \o (m \o c), BitPos(Len(a)) + slot.off, slot.width) = Bits(m, slot.off, slot.width)
  BY <1>2, BitsInside
<1> QED
  BY <1>1, <1>2, <1>3, <1>4, <1>5 DEF ShiftedIn, SlotAt

\* A slot that reads as zero holds zero bits.
LEMMA ZeroExtended ==
  ASSUME PowerLaw, NEW b \in Nat \ {0}, NEW u \in Digit(2 ^ b), SignExtend(u, b) = 0
  PROVE  u = 0
<1>1. PICK P \in Pos : P = 2 ^ b
  BY PowerPos
<1>2. u \in Int /\ P \in Int /\ u < P
  BY <1>1, PosDigitTypes DEF Digit
<1>3. u - P # 0
  BY <1>2
<1> QED
  BY <1>1, <1>3 DEF SignExtend

LEMMA ZeroSlotBits ==
  ASSUME PowerLaw, NEW raw \in Seq(Byte), NEW off \in Nat, NEW width \in Nat \ {0},
         Fits(raw, off, width), NEW signed, ReadBits(raw, off, width, signed) = 0
  PROVE  Bits(raw, off, width) = 0
<1>1. PICK S \in Pos, P \in Pos : S = BitShift(raw, off, width) /\ P = 2 ^ width
  BY Shift DEF Fits
<1>2. PICK n \in Int : n = Number(raw)
  <2>1. Len(raw) \in Nat
    OBVIOUS
  <2> QED
    BY <2>1, NumberType, PosDigitTypes, PowerPos
<1>3. PICK q \in Int : q = n \div S
  BY DivSplit
<1>4. q % P \in Digit(P)
  BY DivSplit
<1>5. Bits(raw, off, width) \in Digit(2 ^ width)
  BY <1>1, <1>2, <1>3, <1>4 DEF Bits, Field
<1>6. CASE signed
  BY <1>5, <1>6, ReadBitsIs, ZeroExtended
<1>7. CASE ~signed
  BY <1>7, ReadBitsIs
<1> QED
  BY <1>6, <1>7

\* The slot's bytes after an overwrite of their number.
LEMMA RawWritten ==
  ASSUME NEW o \in Seq(Byte), NEW slot, SlotFormed(slot, Len(o)), NEW m \in Seq(Byte),
         Len(m) = Len(SlotRaw(o, slot))
  PROVE  SlotRaw(WriteAt(o, slot.pos, m), slot) = m
<1>1. PICK s \in Nat, e \in Nat :
        s = slot.pos /\ e = SlotEnd(slot) /\ s <= e /\ e <= Len(o) /\ Len(SlotRaw(o, slot)) = e - s
  BY SlotRawIs
<1>2. s + Len(m) = e
  BY <1>1
<1>3. Slice(WriteAt(o, s, m), s, s + Len(m)) = m
  BY <1>1, <1>2, WrittenWhole
<1> QED
  BY <1>1, <1>2, <1>3 DEF SlotRaw

\* Overwriting some bytes leaves the slots elsewhere.
LEMMA ValueElsewhere ==
  ASSUME NEW o \in Seq(Byte), NEW pos \in Nat, NEW raw \in Seq(Byte), NEW t, SlotFormed(t, Len(o)),
         SlotEnd(t) <= pos \/ pos + Len(raw) <= t.pos
  PROVE  SlotValue(WriteAt(o, pos, raw), t) = SlotValue(o, t)
<1>1. PICK s \in Nat, e \in Nat : s = t.pos /\ e = SlotEnd(t) /\ s <= e /\ e <= Len(o)
  BY SlotRawIs
<1>2. Slice(WriteAt(o, pos, raw), s, e) = Slice(o, s, e)
  BY <1>1, SliceElsewhere
<1>3. SlotRaw(WriteAt(o, pos, raw), t) = SlotRaw(o, t)
  BY <1>1, <1>2 DEF SlotRaw
<1> QED
  BY <1>3 DEF SlotValue

\* Appending leaves every slot.
LEMMA ValueAppend ==
  ASSUME NEW o \in Seq(Byte), NEW x \in Seq(Byte), NEW t, SlotFormed(t, Len(o))
  PROVE  SlotValue(o \o x, t) = SlotValue(o, t)
<1>1. PICK s \in Nat, e \in Nat : s = t.pos /\ e = SlotEnd(t) /\ s <= e /\ e <= Len(o)
  BY SlotRawIs
<1>2. Slice(o \o x, s, e) = Slice(o, s, e)
  BY <1>1, SliceAppend
<1>3. SlotRaw(o \o x, t) = SlotRaw(o, t)
  BY <1>1, <1>2 DEF SlotRaw
<1> QED
  BY <1>3 DEF SlotValue

LEMMA PatchInt ==
  ASSUME PowerLaw, NEW o \in Seq(Byte), NEW slot, SlotFormed(slot, Len(o)), slot.kind = "Int",
         NEW x \in Int, SlotFits(slot, x)
  PROVE  /\ SlotValue(PatchSlot(o, slot, x), slot) = x
         /\ \A t : SlotFormed(t, Len(o)) /\ Apart(slot, t) =>
              SlotValue(PatchSlot(o, slot, x), t) = SlotValue(o, t)
<1>1. slot.prim.w \in Nat \ {0} /\ slot.prim.signed \in BOOLEAN /\ slot.be \in BOOLEAN
  BY DEF SlotFormed
<1>2. PICK m \in Seq(Byte) : m = WriteUint(slot.prim.w, slot.be, x) /\ Len(m) = slot.prim.w
  BY <1>1, WriteUintType
<1>3. PatchSlot(o, slot, x) = WriteAt(o, slot.pos, m)
  BY <1>2 DEF PatchSlot
<1>4. slot.pos \in Nat /\ SlotEnd(slot) = slot.pos + Len(m) /\ Len(SlotRaw(o, slot)) = Len(m)
  <2>1. slot.pos \in Nat /\ SlotEnd(slot) = slot.pos + slot.prim.w
        /\ Len(SlotRaw(o, slot)) = SlotEnd(slot) - slot.pos
    BY SlotRawIs
  <2> QED
    BY <1>1, <1>2, <2>1
<1>5. SlotRaw(WriteAt(o, slot.pos, m), slot) = m
  BY <1>4, RawWritten
<1>6. ReadInt(m, slot.prim, slot.be) = x
  BY <1>1, <1>2, IntReadBack DEF SlotFits
<1>7. ASSUME NEW t, SlotFormed(t, Len(o)), Apart(slot, t)
      PROVE  SlotValue(WriteAt(o, slot.pos, m), t) = SlotValue(o, t)
  <2>1. SlotEnd(slot) <= t.pos \/ SlotEnd(t) <= slot.pos
    BY <1>7 DEF Apart, BytesApart
  <2> QED
    BY <1>4, <1>7, <2>1, ValueElsewhere
<1> QED
  BY <1>3, <1>5, <1>6, <1>7 DEF SlotValue

LEMMA PatchBits ==
  ASSUME PowerLaw, NEW o \in Seq(Byte), NEW slot, SlotFormed(slot, Len(o)), slot.kind = "Bits",
         NEW x \in Int, SlotFits(slot, x), SlotValue(o, slot) = 0
  PROVE  /\ SlotValue(PatchSlot(o, slot, x), slot) = x
         /\ \A t : SlotFormed(t, Len(o)) /\ Apart(slot, t) =>
              SlotValue(PatchSlot(o, slot, x), t) = SlotValue(o, t)
<1>1. PICK off \in Nat, width \in Nat \ {0}, signed \in BOOLEAN :
        off = slot.off /\ width = slot.width /\ signed = slot.signed /\ width <= WordBits
  <2>1. slot.width \in 1 .. WordBits /\ WordBits \in Nat /\ slot.off \in Nat /\ slot.signed \in BOOLEAN
    BY WireAssumption DEF SlotFormed, SlotOk
  <2> QED
    BY <2>1
<1>2. PICK r \in Seq(Byte) : r = SlotRaw(o, slot) /\ Fits(r, off, width)
  BY <1>1, SlotRawIs
<1>3. Bits(r, off, width) = 0
  <2>1. ReadBits(r, off, width, signed) = 0
    BY <1>1, <1>2 DEF SlotValue
  <2> QED
    BY <1>2, <2>1, ZeroSlotBits
<1>4. PICK m \in Seq(Byte) :
        m = OrBits(r, off, width, x) /\ Len(m) = Len(r) /\ Bits(m, off, width) = x % (2 ^ width)
  BY <1>1, <1>2, <1>3, OrBitsSets DEF Fits
<1>5. PatchSlot(o, slot, x) = WriteAt(o, slot.pos, m)
  BY <1>1, <1>2, <1>4 DEF PatchSlot
<1>6. slot.pos \in Nat /\ SlotEnd(slot) = slot.pos + Len(m)
  <2>1. slot.pos \in Nat /\ SlotEnd(slot) \in Nat /\ Len(SlotRaw(o, slot)) = SlotEnd(slot) - slot.pos
    BY SlotRawIs
  <2> QED
    BY <1>2, <1>4, <2>1
<1>7. SlotRaw(WriteAt(o, slot.pos, m), slot) = m
  BY <1>2, <1>4, RawWritten
<1>8. ReadBits(m, off, width, signed) = x
  <2>1. BitsInRange(x, width, signed)
    BY <1>1 DEF SlotFits
  <2>2. (IF signed THEN SignExtend(x % (2 ^ width), width) ELSE x % (2 ^ width)) = x
    BY <2>1, BitsReadBack
  <2> QED
    BY <1>4, <2>2, ReadBitsIs
<1>9. ASSUME NEW t, SlotFormed(t, Len(o)), Apart(slot, t)
      PROVE  SlotValue(WriteAt(o, slot.pos, m), t) = SlotValue(o, t)
  <2>1. CASE BytesApart(slot, t)
    BY <1>6, <1>9, <2>1, ValueElsewhere DEF BytesApart
  <2>2. CASE t.kind = "Bits" /\ Beside(SlotAt(slot), slot.width, SlotAt(t), t.width)
    <3> DEFINE o2 == WriteAt(o, slot.pos, m)
    <3>1. o2 \in Seq(Byte) /\ Len(o2) = Len(o)
      BY <1>6, WriteAtType
    <3>2. Around(o, slot, m)
      BY <1>2, <1>4, AroundSlot
    <3>3. PICK a \in Seq(Byte), c \in Seq(Byte) :
            Len(a) = slot.pos /\ o = a \o (r \o c) /\ o2 = a \o (m \o c)
      BY <1>2, <3>2 DEF Around
    <3> HIDE DEF o2
    <3>4. SlotFormed(t, Len(o2))
      BY <1>9, <3>1
    <3>5. PICK off2 \in Nat, width2 \in Nat :
            /\ off2 = SlotAt(t) /\ width2 = t.width /\ Fits(o, off2, width2)
            /\ Bits(o, off2, width2) = Bits(SlotRaw(o, t), t.off, t.width)
      BY <1>9, <2>2, SlotBits
    <3>6. Bits(o2, off2, width2) = Bits(SlotRaw(o2, t), t.off, t.width)
      BY <2>2, <3>1, <3>4, <3>5, SlotBits
    <3>7. Beside(BitPos(Len(a)) + off, width, off2, width2)
      BY <1>1, <2>2, <3>3, <3>5 DEF SlotAt
    <3>8. Bits(o2, off2, width2) = Bits(o, off2, width2)
      <4>1. width \in Nat /\ width <= WordBits /\ Fits(o, off2, width2)
        BY <1>1, <3>5
      <4>2. OrsInto(o, o2, a, r, c, off, width, x)
        BY <1>2, <1>3, <1>4, <3>3 DEF OrsInto
      <4> QED
        BY <3>7, <4>1, <4>2, OrBitsLeaves
    <3>9. Bits(SlotRaw(o2, t), t.off, t.width) = Bits(SlotRaw(o, t), t.off, t.width)
      BY <3>5, <3>6, <3>8
    <3>10. ReadBits(SlotRaw(o2, t), t.off, t.width, t.signed) = ReadBits(SlotRaw(o, t), t.off, t.width, t.signed)
      BY <3>9, ReadBitsIs
    <3> QED
      BY <2>2, <3>10 DEF SlotValue, o2
  <2> QED
    BY <1>9, <2>1, <2>2 DEF Apart
<1> QED
  BY <1>1, <1>5, <1>7, <1>8, <1>9 DEF SlotValue

(***************************************************************************)
(* Reserved fields are written as zeros.                                   *)
(***************************************************************************)
LEMMA SliceWhole == ASSUME NEW x \in Seq(Byte) PROVE Slice(x, 0, Len(x)) = x
<1>1. PICK n \in Nat : n = Len(x)
  OBVIOUS
<1>2. IsSlice(Slice(x, 0, n), x, 0, n)
  BY <1>1, SliceFacts
<1>3. PICK y \in Seq(Byte) : y = Slice(x, 0, n) /\ Len(y) = n /\ \A i \in 1 .. n : y[i] = x[i]
  BY <1>2 DEF IsSlice
<1>4. y = x
  BY <1>1, <1>3, SeqEqual
<1> QED
  BY <1>1, <1>3, <1>4

\* Part j of a concatenation is where it ends.
PartIn(x, ss, ends, j) ==
  /\ ends[j] \in Nat /\ Len(ss[j]) \in Nat /\ Len(ss[j]) <= ends[j] /\ ends[j] <= Len(x)
  /\ Slice(x, ends[j] - Len(ss[j]), ends[j]) = ss[j]

Holds(x, ss, ends, k) ==
  x \in Seq(Byte) /\ Len(x) = ends[k] /\ \A j \in 1 .. k : PartIn(x, ss, ends, j)

LEMMA HoldsFirst ==
  ASSUME NEW ss, ss[1] \in Seq(Byte), NEW ends, ends[1] = 0 + Len(ss[1])
  PROVE  Holds(ss[1], ss, ends, 1)
<1>1. PICK x \in Seq(Byte), n \in Nat : x = ss[1] /\ n = Len(x)
  OBVIOUS
<1>2. ends[1] = n /\ n - n = 0
  BY <1>1
<1>3. Slice(x, 0, n) = x
  BY <1>1, SliceWhole
<1>4. PartIn(x, ss, ends, 1)
  BY <1>1, <1>2, <1>3 DEF PartIn
<1>5. \A j \in 1 .. 1 : j = 1
  OBVIOUS
<1> QED
  BY <1>1, <1>2, <1>4, <1>5 DEF Holds

LEMMA HoldsNext ==
  ASSUME NEW ss, NEW ends, NEW k \in Nat, NEW x, Holds(x, ss, ends, k), ss[k + 1] \in Seq(Byte),
         ends[k + 1] = ends[k] + Len(ss[k + 1])
  PROVE  Holds(x \o ss[k + 1], ss, ends, k + 1)
<1>1. x \in Seq(Byte) /\ Len(x) = ends[k] /\ Len(x) \in Nat
  BY DEF Holds
<1>2. PICK y \in Seq(Byte), n \in Nat : y = ss[k + 1] /\ n = Len(y)
  OBVIOUS
<1>3. PICK z \in Seq(Byte) : z = x \o y /\ Len(z) = Len(x) + n
  <2>1. x \o y \in Seq(Byte) /\ Len(x \o y) = Len(x) + Len(y)
    BY <1>1, ConcatBytes
  <2> QED
    BY <1>2, <2>1
<1>4. ASSUME NEW j \in 1 .. k PROVE PartIn(z, ss, ends, j)
  <2>1. PartIn(x, ss, ends, j)
    BY DEF Holds
  <2>2. PICK e \in Nat, s \in Nat : /\ e = ends[j] /\ s = ends[j] - Len(ss[j]) /\ s <= e /\ e <= Len(x)
                                    /\ Slice(x, s, e) = ss[j]
    <3>1. /\ Slice(x, ends[j] - Len(ss[j]), ends[j]) = ss[j] /\ ends[j] \in Nat
          /\ Len(ss[j]) \in Nat /\ Len(ss[j]) <= ends[j] /\ ends[j] <= Len(x)
      BY <2>1 DEF PartIn
    <3>2. ends[j] - Len(ss[j]) \in Nat /\ ends[j] - Len(ss[j]) <= ends[j]
      BY <3>1
    <3> QED
      BY <3>1, <3>2
  <2>3. Slice(z, s, e) = Slice(x, s, e)
    BY <1>1, <1>3, <2>2, SliceAppend
  <2> QED
    BY <1>1, <1>3, <2>1, <2>2, <2>3 DEF PartIn
<1>5. PartIn(z, ss, ends, k + 1)
  <2>1. PICK m \in Nat : m = Len(x)
    BY <1>1
  <2>2. ends[k + 1] = m + n /\ (m + n) - n = m /\ m + n \in Nat /\ n <= m + n /\ m + n <= Len(z)
    BY <1>1, <1>2, <1>3, <2>1
  <2>3. Slice(z, m + 0, m + n) = Slice(y, 0, n)
    BY <1>1, <1>2, <1>3, <2>1, SliceOfAppended
  <2>4. Slice(y, 0, n) = y /\ m + 0 = m
    BY <1>2, SliceWhole
  <2> QED
    BY <1>2, <2>2, <2>3, <2>4 DEF PartIn
<1>6. \A j \in 1 .. (k + 1) : j \in 1 .. k \/ j = k + 1
  OBVIOUS
<1>7. Len(z) = ends[k + 1]
  BY <1>1, <1>2, <1>3
<1> QED
  BY <1>2, <1>3, <1>4, <1>5, <1>6, <1>7 DEF Holds

LEMMA PartsHeld ==
  ASSUME NEW ss \in Seq(Seq(Byte)), ss # <<>>, NEW ends, Ends(ss, ends)
  PROVE  Holds(FlattenSeq(ss), ss, ends, Len(ss))
<1>1. PICK n \in Nat : n = Len(ss) /\ n # 0
  OBVIOUS
<1>2. PICK f : /\ \A i \in 1 .. n : f[i] = IF i = 1 THEN ss[i] ELSE f[i - 1] \o ss[i]
               /\ FlattenSeq(ss) = f[n]
  BY <1>1, FlattenRuns
<1>3. \A i \in 1 .. n : ss[i] \in Seq(Byte)
  BY <1>1
<1>4. \A i \in 1 .. n : ends[i] = (IF i = 1 THEN 0 ELSE ends[i - 1]) + Len(ss[i])
  BY <1>1 DEF Ends
<1> DEFINE S == {k \in Nat : k + 1 <= n => Holds(f[k + 1], ss, ends, k + 1)}
<1>5. 0 \in S
  <2>1. 1 \in 1 .. n /\ 0 + 1 = 1
    BY <1>1
  <2>2. f[1] = ss[1] /\ ss[1] \in Seq(Byte) /\ ends[1] = 0 + Len(ss[1])
    BY <1>2, <1>3, <1>4, <2>1
  <2>3. Holds(ss[1], ss, ends, 1)
    BY <2>2, HoldsFirst
  <2> QED
    BY <2>1, <2>2, <2>3
<1>6. ASSUME NEW k \in Nat, k \in S PROVE k + 1 \in S
  <2> SUFFICES ASSUME (k + 1) + 1 <= n PROVE Holds(f[(k + 1) + 1], ss, ends, (k + 1) + 1)
    OBVIOUS
  <2>1. PICK i \in Nat : i = k + 1
    OBVIOUS
  <2>2. i + 1 \in 1 .. n /\ i + 1 # 1 /\ (i + 1) - 1 = i /\ i <= n
    BY <2>1, <1>1
  <2>3. f[i + 1] = f[i] \o ss[i + 1] /\ ss[i + 1] \in Seq(Byte) /\ ends[i + 1] = ends[i] + Len(ss[i + 1])
    BY <1>2, <1>3, <1>4, <2>2
  <2>4. Holds(f[i], ss, ends, i)
    BY <1>6, <2>1, <2>2
  <2>5. Holds(f[i] \o ss[i + 1], ss, ends, i + 1)
    BY <2>3, <2>4, HoldsNext
  <2> QED
    BY <2>1, <2>3, <2>5
<1>7. Nat \subseteq S
  BY <1>5, <1>6, NatInductionOn
<1>8. PICK k \in Nat : k + 1 = n
  <2>1. n - 1 \in Nat /\ (n - 1) + 1 = n
    BY <1>1
  <2> QED
    BY <2>1
<1>9. Holds(f[n], ss, ends, n)
  <2>1. k \in S /\ k + 1 <= n
    BY <1>7, <1>8
  <2>2. Holds(f[k + 1], ss, ends, k + 1)
    BY <2>1
  <2> QED
    BY <1>8, <2>2
<1> QED
  BY <1>1, <1>2, <1>9

LEMMA ZeroDigit == ASSUME NEW d \in Pos PROVE 0 \in Digit(d) /\ 0 \div d = 0 /\ 0 % d = 0
<1>1. 0 \in Digit(d)
  BY DEF Digit, Pos
<1> QED
  BY <1>1, DigitIsMod

LEMMA ZerosWritten ==
  ASSUME PowerLaw, NEW w \in Nat, NEW be \in BOOLEAN
  PROVE  Zeros(w) = WriteUint(w, be, 0)
<1>1. ASSUME NEW i \in 1 .. w PROVE (0 \div (Base ^ (IF be THEN w - i ELSE i - 1))) % Base = 0
  <2>1. PICK e \in Nat : e = IF be THEN w - i ELSE i - 1
    <3>1. w - i \in Nat /\ i - 1 \in Nat
      OBVIOUS
    <3>2. CASE be
      BY <3>1, <3>2
    <3>3. CASE ~be
      BY <3>1, <3>3
    <3> QED
      BY <3>2, <3>3
  <2>2. PICK K \in Pos, B \in Pos : K = Base ^ e /\ B = Base
    BY PowerPos
  <2>3. 0 \div K = 0 /\ 0 % B = 0
    BY ZeroDigit
  <2> QED
    BY <2>1, <2>2, <2>3
<1> QED
  BY <1>1 DEF Zeros, WriteUint

LEMMA ZeroInt ==
  ASSUME PowerLaw, NEW prim, prim.w \in Nat \ {0}, prim.signed \in BOOLEAN, NEW be \in BOOLEAN
  PROVE  ReadInt(Zeros(prim.w), prim, be) = 0
<1>1. PrimMin(prim) <= 0 /\ 0 <= PrimMax(prim)
  <2>1. PICK b \in Nat \ {0} : b = prim.w * ByteBits
    BY WireAssumption
  <2>2. b - 1 \in Nat /\ b - 0 \in Nat
    OBVIOUS
  <2>3. 2 ^ (b - 1) \in Pos /\ 2 ^ (b - 0) \in Pos
    BY <2>2, PowerPos
  <2> QED
    BY <2>1, <2>3 DEF PrimMin, PrimMax, Pos
<1>2. ReadInt(WriteUint(prim.w, be, 0), prim, be) = 0
  BY <1>1, IntReadBack
<1>3. Zeros(prim.w) = WriteUint(prim.w, be, 0)
  BY ZerosWritten
<1> QED
  BY <1>2, <1>3

LEMMA ZeroNumber == ASSUME PowerLaw, NEW n \in Nat PROVE Number(Zeros(n)) = 0
<1>1. ReadUint(WriteUint(n, TRUE, 0), TRUE) = 0 % (Base ^ n)
  <2>1. TRUE \in BOOLEAN /\ 0 \in Int
    OBVIOUS
  <2> QED
    BY <2>1, WriteRead, Zenon
<1>2. PICK K \in Pos : K = Base ^ n
  BY PowerPos
<1>3. 0 % K = 0
  BY ZeroDigit
<1>4. Zeros(n) = WriteUint(n, TRUE, 0)
  BY ZerosWritten
<1> QED
  BY <1>1, <1>2, <1>3, <1>4 DEF Number

LEMMA ZeroBits ==
  ASSUME PowerLaw, NEW n \in Nat, NEW off \in Nat, NEW width \in Nat, Fits(Zeros(n), off, width)
  PROVE  Bits(Zeros(n), off, width) = 0
<1>1. Zeros(n) \in Seq(Byte)
  BY ZerosType
<1>2. PICK S \in Pos, P \in Pos : S = BitShift(Zeros(n), off, width) /\ P = 2 ^ width
  BY <1>1, Shift DEF Fits
<1>3. 0 \div S = 0 /\ 0 % P = 0
  BY ZeroDigit
<1> QED
  BY <1>2, <1>3, ZeroNumber DEF Bits, Field

\* Fields that lie one after the other in a run of n bytes.
InRow(items, nbytes) ==
  /\ \A i \in DOMAIN items : BitItemOk(items[i], nbytes)
  /\ \A i, j \in DOMAIN items : i < j => items[i].off + items[i].width <= items[j].off

\* After the first k numbers, the fields that have not been written and the
\* ones that zero was written to are zero.
RunAt(x, nbytes, items, numbers, k) ==
  /\ x \in Seq(Byte) /\ Len(x) = nbytes
  /\ \A j \in DOMAIN items : j > k \/ numbers[j] = 0 => Bits(x, items[j].off, items[j].width) = 0

LEMMA RunStep ==
  ASSUME PowerLaw, NEW nbytes \in Nat, NEW items, InRow(items, nbytes), DOMAIN items \subseteq Nat,
         NEW numbers, NEW i \in DOMAIN items, numbers[i] \in Int,
         NEW x, RunAt(x, nbytes, items, numbers, i - 1)
  PROVE  RunAt(OrBits(x, items[i].off, items[i].width, numbers[i]), nbytes, items, numbers, i)
<1>1. x \in Seq(Byte) /\ Len(x) = nbytes
  BY DEF RunAt
<1>2. ASSUME NEW j \in DOMAIN items
      PROVE  /\ items[j].off \in Nat /\ items[j].width \in Nat /\ items[j].width <= WordBits
             /\ items[j].off + items[j].width <= Len(x) * ByteBits
  <2>1. BitItemOk(items[j], nbytes)
    BY DEF InRow
  <2> QED
    BY <1>1, <2>1, WireAssumption DEF BitItemOk
<1>3. PICK off \in Nat, width \in Nat, v \in Int :
        off = items[i].off /\ width = items[i].width /\ v = numbers[i] /\ width <= WordBits
  BY <1>2
<1>4. Bits(x, off, width) = 0
  <2>1. i > i - 1
    OBVIOUS
  <2> QED
    BY <1>3, <2>1 DEF RunAt
<1>5. off + width <= Len(x) * ByteBits
  BY <1>2, <1>3
<1>6. PICK y : y = OrBits(x, off, width, v) /\ OrSets(y, x, off, width, v)
  BY <1>1, <1>3, <1>4, <1>5, OrBitsIn DEF Fits
<1>7. ASSUME NEW j \in DOMAIN items, j > i \/ numbers[j] = 0 PROVE Bits(y, items[j].off, items[j].width) = 0
  <2>1. CASE j = i
    <3>1. v = 0
      BY <1>3, <1>7, <2>1
    <3>2. PICK P \in Pos : P = 2 ^ width
      BY PowerPos
    <3>3. 0 % P = 0
      BY ZeroDigit
    <3> QED
      BY <1>3, <1>6, <2>1, <3>1, <3>2, <3>3 DEF OrSets
  <2>2. CASE j # i
    <3>1. PICK off2 \in Nat, width2 \in Nat :
            off2 = items[j].off /\ width2 = items[j].width /\ off2 + width2 <= Len(x) * ByteBits
      BY <1>2
    <3>2. Beside(off, width, off2, width2)
      <4>1. i < j \/ j < i
        BY <2>2
      <4>2. CASE i < j
        BY <1>3, <3>1, <4>2 DEF Beside, InRow
      <4>3. CASE j < i
        BY <1>3, <3>1, <4>3 DEF Beside, InRow
      <4> QED
        BY <4>1, <4>2, <4>3
    <3>3. Bits(y, off2, width2) = Bits(x, off2, width2)
      BY <1>6, <3>1, <3>2 DEF OrSets, Fits
    <3>4. Bits(x, off2, width2) = 0
      <4>1. j > i - 1 \/ numbers[j] = 0
        BY <1>7
      <4> QED
        BY <3>1, <4>1 DEF RunAt
    <3> QED
      BY <3>1, <3>3, <3>4
  <2> QED
    BY <2>1, <2>2
<1>8. RunAt(y, nbytes, items, numbers, i)
  BY <1>1, <1>6, <1>7 DEF RunAt, OrSets
<1> QED
  BY <1>3, <1>6, <1>8

LEMMA PackBitsZero ==
  ASSUME PowerLaw, NEW nbytes \in Nat, NEW items, Stack(items), InRow(items, nbytes),
         NEW numbers, \A i \in DOMAIN items : numbers[i] \in Int
  PROVE  RunAt(PackBits(nbytes, items, numbers), nbytes, items, numbers, Len(items))
<1>1. PICK n \in Nat : n = Len(items) /\ DOMAIN items = 1 .. n
  BY DEF Stack
<1>2. PICK f : BitRuns(f, nbytes, items, numbers)
  BY PackBitsRuns DEF InRow
<1>3. f[0] = Zeros(nbytes) /\ \A i \in 1 .. n : f[i] = OrBits(f[i - 1], items[i].off, items[i].width, numbers[i])
  BY <1>1, <1>2 DEF BitRuns
<1> DEFINE S == {k \in Nat : k <= n => RunAt(f[k], nbytes, items, numbers, k)}
<1>4. 0 \in S
  <2>1. Zeros(nbytes) \in Seq(Byte) /\ Len(Zeros(nbytes)) = nbytes
    BY ZerosType
  <2>2. ASSUME NEW j \in DOMAIN items PROVE Bits(Zeros(nbytes), items[j].off, items[j].width) = 0
    <3>1. BitItemOk(items[j], nbytes)
      BY DEF InRow
    <3>2. items[j].off \in Nat /\ items[j].width \in Nat /\ Fits(Zeros(nbytes), items[j].off, items[j].width)
      BY <2>1, <3>1, WireAssumption DEF BitItemOk, Fits
    <3> QED
      BY <3>2, ZeroBits
  <2>3. RunAt(f[0], nbytes, items, numbers, 0)
    BY <1>3, <2>1, <2>2 DEF RunAt
  <2> QED
    BY <2>3
<1>5. ASSUME NEW k \in Nat, k \in S PROVE k + 1 \in S
  <2> SUFFICES ASSUME k + 1 <= n PROVE RunAt(f[k + 1], nbytes, items, numbers, k + 1)
    OBVIOUS
  <2>1. PICK i \in DOMAIN items : i = k + 1 /\ i - 1 = k /\ i \in 1 .. n /\ k <= n
    BY <1>1
  <2>2. RunAt(f[i - 1], nbytes, items, numbers, i - 1)
    BY <1>5, <2>1
  <2>3. f[i] = OrBits(f[i - 1], items[i].off, items[i].width, numbers[i])
    BY <1>3, <2>1
  <2>4. DOMAIN items \subseteq Nat /\ numbers[i] \in Int
    BY <1>1
  <2>5. RunAt(OrBits(f[i - 1], items[i].off, items[i].width, numbers[i]), nbytes, items, numbers, i)
    BY <2>2, <2>4, RunStep
  <2> QED
    BY <2>1, <2>3, <2>5
<1>6. Nat \subseteq S
  BY <1>4, <1>5, NatInductionOn
<1>7. RunAt(f[n], nbytes, items, numbers, n)
  <2>1. n \in S /\ n <= n
    BY <1>6
  <2> QED
    BY <2>1
<1>8. PackBits(nbytes, items, numbers) = f[n]
  BY <1>1, <1>2 DEF BitRuns
<1> QED
  BY <1>1, <1>7, <1>8

(***************************************************************************)
(* The reserved fields of the open structures.                             *)
(***************************************************************************)
Wanted(v) == IF v.value = {} THEN 0 ELSE CHOOSE x \in v.value : TRUE

\* A reservation v of register r: its slot holds what it should, and the
\* register is known once it is patched.
ResvOk(o, f, r, v) ==
  /\ SlotFormed(v.slot, Len(o))
  /\ SlotValue(o, v.slot) = Wanted(v)
  /\ v.value # {} <=> r \in f.known
  /\ v.value # {} => v.value = {f.regs[r]}

\* A slot and the digest reserved at pos share no byte.
Clear(slot, pos) == SlotEnd(slot) <= pos \/ pos + ChecksumWidth <= slot.pos

SlotsRight(o, fs) ==
  \A i \in DOMAIN fs : \A r \in Regs : \A v \in fs[i].res[r] : ResvOk(o, fs[i], r, v)

SlotsApart(fs) ==
  \A i, j \in DOMAIN fs : \A r, s \in Regs : \A v \in fs[i].res[r] : \A w \in fs[j].res[s] :
    i # j \/ r # s => Apart(v.slot, w.slot)

DigestIn(pos, n) == pos \in Nat /\ pos + ChecksumWidth <= n

DigestsIn(fs, n) ==
  \A j \in DOMAIN fs : \A d \in DOMAIN fs[j].digests : DigestIn(fs[j].digests[d].pos, n)

DigestsClear(fs) ==
  \A i, j \in DOMAIN fs : \A r \in Regs : \A v \in fs[i].res[r] : \A d \in DOMAIN fs[j].digests :
    Clear(v.slot, fs[j].digests[d].pos)

FramesHold(o, fs) ==
  SlotsRight(o, fs) /\ SlotsApart(fs) /\ DigestsIn(fs, Len(o)) /\ DigestsClear(fs)

\* The registers a structure has written or reserved are those of the fields
\* it has passed.
Held(f) == f.known \cup {r \in Regs : f.res[r] # {}}

Written(p, i) == {r \in Regs : \E j \in DOMAIN Prog[p] : j < i /\ r \in RegsOf(Code[Prog[p][j]])}

RegsIn(ctl, fs) ==
  \A i \in DOMAIN ctl :
    ctl[i].k = "struct" => Held(fs[Depth(ctl, i)]) \subseteq Written(ctl[i].id, ctl[i].i)

SInv == FramesHold(out, pframes) /\ RegsIn(pctl, pframes)

LEMMA ApartSym == ASSUME NEW s, NEW t, Apart(s, t) PROVE Apart(t, s)
  BY DEF Apart, BytesApart, Beside

\* A slot in the output is one in a longer output.
LEMMA FormedGrows ==
  ASSUME NEW slot, NEW n \in Nat, NEW m \in Nat, n <= m, SlotFormed(slot, n)
  PROVE  SlotFormed(slot, m)
<1>1. SlotEnd(slot) \in Nat
  <2>1. CASE slot.kind = "Int"
    BY <2>1 DEF SlotFormed, SlotOk, SlotEnd
  <2>2. CASE slot.kind # "Int"
    <3>1. PICK x \in Nat : x = slot.off + slot.width
      BY <2>2 DEF SlotFormed, SlotOk
    <3>2. (x + ByteBits - 1) \div ByteBits \in Nat
      BY RoundUp
    <3> QED
      BY <2>2, <3>1, <3>2 DEF SlotFormed, SlotOk, SlotEnd
  <2> QED
    BY <2>1, <2>2
<1> QED
  BY <1>1 DEF SlotFormed, SlotOk

\* What a reservation says of an output depends on the slot's value.
LEMMA ResvKept ==
  ASSUME NEW o \in Seq(Byte), NEW o2 \in Seq(Byte), Len(o) <= Len(o2), NEW f, NEW g, NEW r, NEW v,
         ResvOk(o, f, r, v), SlotValue(o2, v.slot) = SlotValue(o, v.slot),
         r \in g.known <=> r \in f.known, g.regs[r] = f.regs[r]
  PROVE  ResvOk(o2, g, r, v)
<1>1. Len(o) \in Nat /\ Len(o2) \in Nat
  OBVIOUS
<1>2. SlotFormed(v.slot, Len(o2))
  BY <1>1, FormedGrows DEF ResvOk
<1> QED
  BY <1>2 DEF ResvOk

Kept(o, fs, o2, gs, i, r, v) ==
  /\ i \in DOMAIN fs /\ v \in fs[i].res[r]
  /\ SlotValue(o2, v.slot) = SlotValue(o, v.slot)
  /\ r \in gs[i].known <=> r \in fs[i].known
  /\ gs[i].regs[r] = fs[i].regs[r]

\* A digest reserved before, and one reserved in what was appended.
Sealed(fs, j, pos) == j \in DOMAIN fs /\ \E d \in DOMAIN fs[j].digests : fs[j].digests[d].pos = pos
NewSeal(o, o2, pos) == Len(o) <= pos /\ DigestIn(pos, Len(o2))

\* No slot is new: those that stay keep their values, and the digests are old
\* or lie in what was appended.
LEMMA FramesKept ==
  ASSUME NEW o \in Seq(Byte), NEW o2 \in Seq(Byte), Len(o) <= Len(o2), NEW fs, FramesHold(o, fs), NEW gs,
         \A i \in DOMAIN gs : \A r \in Regs : \A v \in gs[i].res[r] : Kept(o, fs, o2, gs, i, r, v),
         \A j \in DOMAIN gs : \A d \in DOMAIN gs[j].digests :
           Sealed(fs, j, gs[j].digests[d].pos) \/ NewSeal(o, o2, gs[j].digests[d].pos)
  PROVE  FramesHold(o2, gs)
<1>0. Len(o) \in Nat /\ Len(o2) \in Nat
  OBVIOUS
<1>1. SlotsRight(o2, gs)
  <2> SUFFICES ASSUME NEW i \in DOMAIN gs, NEW r \in Regs, NEW v \in gs[i].res[r]
               PROVE  ResvOk(o2, gs[i], r, v)
    BY DEF SlotsRight
  <2>1. Kept(o, fs, o2, gs, i, r, v)
    OBVIOUS
  <2>2. ResvOk(o, fs[i], r, v)
    BY <2>1 DEF Kept, FramesHold, SlotsRight
  <2> QED
    BY <2>1, <2>2, ResvKept DEF Kept
<1>2. SlotsApart(gs)
  <2> SUFFICES ASSUME NEW i \in DOMAIN gs, NEW j \in DOMAIN gs, NEW r \in Regs, NEW s \in Regs,
                      NEW v \in gs[i].res[r], NEW w \in gs[j].res[s], i # j \/ r # s
               PROVE  Apart(v.slot, w.slot)
    BY DEF SlotsApart
  <2>1. Kept(o, fs, o2, gs, i, r, v) /\ Kept(o, fs, o2, gs, j, s, w)
    OBVIOUS
  <2> QED
    BY <2>1 DEF Kept, FramesHold, SlotsApart
<1>3. DigestsIn(gs, Len(o2))
  <2> SUFFICES ASSUME NEW j \in DOMAIN gs, NEW d \in DOMAIN gs[j].digests
               PROVE  DigestIn(gs[j].digests[d].pos, Len(o2))
    BY DEF DigestsIn
  <2>1. CASE Sealed(fs, j, gs[j].digests[d].pos)
    <3>1. DigestIn(gs[j].digests[d].pos, Len(o))
      BY <2>1 DEF Sealed, FramesHold, DigestsIn
    <3> QED
      BY <1>0, <3>1 DEF DigestIn, ChecksumWidth
  <2>2. CASE NewSeal(o, o2, gs[j].digests[d].pos)
    BY <2>2 DEF NewSeal
  <2> QED
    BY <2>1, <2>2
<1>4. DigestsClear(gs)
  <2> SUFFICES ASSUME NEW i \in DOMAIN gs, NEW j \in DOMAIN gs, NEW r \in Regs, NEW v \in gs[i].res[r],
                      NEW d \in DOMAIN gs[j].digests
               PROVE  Clear(v.slot, gs[j].digests[d].pos)
    BY DEF DigestsClear
  <2>1. Kept(o, fs, o2, gs, i, r, v)
    OBVIOUS
  <2>2. CASE Sealed(fs, j, gs[j].digests[d].pos)
    BY <2>1, <2>2 DEF Kept, Sealed, FramesHold, DigestsClear
  <2>3. CASE NewSeal(o, o2, gs[j].digests[d].pos)
    <3>1. ResvOk(o, fs[i], r, v)
      BY <2>1 DEF Kept, FramesHold, SlotsRight
    <3>2. SlotEnd(v.slot) <= Len(o) /\ SlotEnd(v.slot) \in Nat
      BY <3>1, SlotRawIs DEF ResvOk
    <3> QED
      BY <1>0, <2>3, <3>2 DEF NewSeal, DigestIn, Clear
  <2> QED
    BY <2>2, <2>3
<1> QED
  BY <1>1, <1>2, <1>3, <1>4 DEF FramesHold

Fresh(o, o2, gs, i, r, v) == ResvOk(o2, gs[i], r, v) /\ Len(o) <= v.slot.pos

\* No digest is new: the slots that stay keep their values, the others lie in
\* what was appended, apart from each other.
LEMMA FramesReserve ==
  ASSUME NEW o \in Seq(Byte), NEW o2 \in Seq(Byte), Len(o) <= Len(o2), NEW fs, FramesHold(o, fs), NEW gs,
         \A i \in DOMAIN gs : \A r \in Regs : \A v \in gs[i].res[r] :
           Kept(o, fs, o2, gs, i, r, v) \/ Fresh(o, o2, gs, i, r, v),
         \A i, j \in DOMAIN gs : \A r, s \in Regs : \A v \in gs[i].res[r] : \A w \in gs[j].res[s] :
           i # j \/ r # s =>
             \/ Kept(o, fs, o2, gs, i, r, v) \/ Kept(o, fs, o2, gs, j, s, w)
             \/ Apart(v.slot, w.slot),
         \A j \in DOMAIN gs : \A d \in DOMAIN gs[j].digests : Sealed(fs, j, gs[j].digests[d].pos)
  PROVE  FramesHold(o2, gs)
<1>0. Len(o) \in Nat /\ Len(o2) \in Nat
  OBVIOUS
<1>9. ASSUME NEW i, NEW r \in Regs, NEW v, Kept(o, fs, o2, gs, i, r, v)
      PROVE  SlotEnd(v.slot) <= Len(o) /\ SlotEnd(v.slot) \in Nat
  <2>1. ResvOk(o, fs[i], r, v)
    BY <1>9 DEF Kept, FramesHold, SlotsRight
  <2> QED
    BY <2>1, SlotRawIs DEF ResvOk
<1>8. ASSUME NEW i, NEW r \in Regs, NEW v, Fresh(o, o2, gs, i, r, v)
      PROVE  v.slot.pos \in Nat /\ Len(o) <= v.slot.pos
  BY <1>8 DEF Fresh, ResvOk, SlotFormed, SlotOk
<1>1. SlotsRight(o2, gs)
  <2> SUFFICES ASSUME NEW i \in DOMAIN gs, NEW r \in Regs, NEW v \in gs[i].res[r]
               PROVE  ResvOk(o2, gs[i], r, v)
    BY DEF SlotsRight
  <2>1. CASE Kept(o, fs, o2, gs, i, r, v)
    <3>2. ResvOk(o, fs[i], r, v)
      BY <2>1 DEF Kept, FramesHold, SlotsRight
    <3> QED
      BY <2>1, <3>2, ResvKept DEF Kept
  <2>2. CASE Fresh(o, o2, gs, i, r, v)
    BY <2>2 DEF Fresh
  <2> QED
    BY <2>1, <2>2
<1>2. SlotsApart(gs)
  <2> SUFFICES ASSUME NEW i \in DOMAIN gs, NEW j \in DOMAIN gs, NEW r \in Regs, NEW s \in Regs,
                      NEW v \in gs[i].res[r], NEW w \in gs[j].res[s], i # j \/ r # s
               PROVE  Apart(v.slot, w.slot)
    BY DEF SlotsApart
  <2>1. CASE Kept(o, fs, o2, gs, i, r, v) /\ Kept(o, fs, o2, gs, j, s, w)
    BY <2>1 DEF Kept, FramesHold, SlotsApart
  <2>2. CASE Kept(o, fs, o2, gs, i, r, v) /\ Fresh(o, o2, gs, j, s, w)
    <3>1. SlotEnd(v.slot) <= w.slot.pos
      BY <1>0, <1>8, <1>9, <2>2
    <3> QED
      BY <3>1 DEF Apart, BytesApart
  <2>3. CASE Fresh(o, o2, gs, i, r, v) /\ Kept(o, fs, o2, gs, j, s, w)
    <3>1. SlotEnd(w.slot) <= v.slot.pos
      BY <1>0, <1>8, <1>9, <2>3
    <3> QED
      BY <3>1 DEF Apart, BytesApart
  <2> QED
    BY <2>1, <2>2, <2>3
<1>3. DigestsIn(gs, Len(o2))
  <2> SUFFICES ASSUME NEW j \in DOMAIN gs, NEW d \in DOMAIN gs[j].digests
               PROVE  DigestIn(gs[j].digests[d].pos, Len(o2))
    BY DEF DigestsIn
  <2>1. Sealed(fs, j, gs[j].digests[d].pos)
    OBVIOUS
  <2>2. DigestIn(gs[j].digests[d].pos, Len(o))
    BY <2>1 DEF Sealed, FramesHold, DigestsIn
  <2> QED
    BY <1>0, <2>2 DEF DigestIn, ChecksumWidth
<1>4. DigestsClear(gs)
  <2> SUFFICES ASSUME NEW i \in DOMAIN gs, NEW j \in DOMAIN gs, NEW r \in Regs, NEW v \in gs[i].res[r],
                      NEW d \in DOMAIN gs[j].digests
               PROVE  Clear(v.slot, gs[j].digests[d].pos)
    BY DEF DigestsClear
  <2>1. Sealed(fs, j, gs[j].digests[d].pos)
    OBVIOUS
  <2>2. CASE Kept(o, fs, o2, gs, i, r, v)
    BY <2>1, <2>2 DEF Kept, Sealed, FramesHold, DigestsClear
  <2>3. CASE Fresh(o, o2, gs, i, r, v)
    <3>1. DigestIn(gs[j].digests[d].pos, Len(o))
      BY <2>1 DEF Sealed, FramesHold, DigestsIn
    <3>2. v.slot.pos \in Nat /\ Len(o) <= v.slot.pos
      BY <1>8, <2>3
    <3> QED
      BY <1>0, <3>1, <3>2 DEF DigestIn, Clear, ChecksumWidth
  <2> QED
    BY <2>2, <2>3
<1> QED
  BY <1>1, <1>2, <1>3, <1>4 DEF FramesHold

\* Nothing moves but the output, which grows.
LEMMA FramesExtended ==
  ASSUME NEW o \in Seq(Byte), NEW x \in Seq(Byte), NEW fs, FramesHold(o, fs)
  PROVE  FramesHold(o \o x, fs)
<1>1. PICK o2 \in Seq(Byte) : o2 = o \o x /\ Len(o) <= Len(o2)
  <2>1. o \o x \in Seq(Byte) /\ Len(o \o x) = Len(o) + Len(x)
    BY ConcatBytes
  <2>2. Len(o) \in Nat /\ Len(x) \in Nat
    OBVIOUS
  <2>3. Len(o) <= Len(o \o x)
    BY <2>1, <2>2
  <2> QED
    BY <2>1, <2>3, Zenon
<1>2. ASSUME NEW i \in DOMAIN fs, NEW r \in Regs, NEW v \in fs[i].res[r] PROVE Kept(o, fs, o2, fs, i, r, v)
  <2>1. ResvOk(o, fs[i], r, v)
    BY DEF FramesHold, SlotsRight
  <2>2. SlotValue(o2, v.slot) = SlotValue(o, v.slot)
    BY <1>1, <2>1, ValueAppend DEF ResvOk
  <2> QED
    BY <2>2 DEF Kept
<1>3. \A j \in DOMAIN fs : \A d \in DOMAIN fs[j].digests : Sealed(fs, j, fs[j].digests[d].pos)
  BY DEF Sealed
<1>4. FramesHold(o2, fs)
  BY <1>1, <1>2, <1>3, FramesKept
<1> QED
  BY <1>1, <1>4

\* A structure starts with nothing reserved.
LEMMA FramesPushed ==
  ASSUME NEW o \in Seq(Byte), NEW fs, Stack(fs), FramesHold(o, fs)
  PROVE  FramesHold(o, Append(fs, NewPFrame))
<1>1. PICK n \in Nat : n = Len(fs) /\ DOMAIN fs = 1 .. n
  BY StackPush
<1>2. PICK gs : gs = Append(fs, NewPFrame)
  OBVIOUS
<1>3. DOMAIN gs = 1 .. (n + 1) /\ (\A i \in 1 .. n : gs[i] = fs[i]) /\ gs[n + 1] = NewPFrame
  BY <1>1, <1>2, StackPush
<1>4. ASSUME NEW i \in DOMAIN gs PROVE i = n + 1 \/ (i \in DOMAIN fs /\ gs[i] = fs[i])
  BY <1>1, <1>3
<1>5. \A r \in Regs : NewPFrame.res[r] = {}
  BY DEF NewPFrame
<1>6. DOMAIN NewPFrame.digests = {}
  BY DEF NewPFrame
<1>7. \A i \in DOMAIN gs : \A r \in Regs : \A v \in gs[i].res[r] : Kept(o, fs, o, gs, i, r, v)
  BY <1>3, <1>4, <1>5 DEF Kept
<1>8. \A j \in DOMAIN gs : \A d \in DOMAIN gs[j].digests : Sealed(fs, j, gs[j].digests[d].pos)
  BY <1>3, <1>4, <1>6 DEF Sealed
<1>9. Len(o) <= Len(o)
  OBVIOUS
<1> QED
  BY <1>2, <1>7, <1>8, <1>9, FramesKept

\* The output grows, or stays.
Extends(o, o2) ==
  Len(o) <= Len(o2) /\ \A t : SlotFormed(t, Len(o)) => SlotValue(o2, t) = SlotValue(o, t)

LEMMA ExtendsSame == ASSUME NEW o \in Seq(Byte) PROVE Extends(o, o)
  BY DEF Extends

LEMMA ExtendsAppend == ASSUME NEW o \in Seq(Byte), NEW x \in Seq(Byte) PROVE Extends(o, o \o x)
<1>1. Len(o) <= Len(o \o x)
  <2>1. o \o x \in Seq(Byte) /\ Len(o \o x) = Len(o) + Len(x)
    BY ConcatBytes
  <2>2. Len(o) \in Nat /\ Len(x) \in Nat
    OBVIOUS
  <2> QED
    BY <2>1, <2>2
<1>2. \A t : SlotFormed(t, Len(o)) => SlotValue(o \o x, t) = SlotValue(o, t)
  BY ValueAppend
<1> QED
  BY <1>1, <1>2 DEF Extends

LEMMA TopReplaced ==
  ASSUME NEW fs, Stack(fs), fs # <<>>, NEW g
  PROVE  /\ DOMAIN SetTop(fs, g) = DOMAIN fs /\ Len(fs) \in DOMAIN fs
         /\ Last(fs) = fs[Len(fs)] /\ SetTop(fs, g)[Len(fs)] = g
         /\ \A i \in DOMAIN fs : i # Len(fs) => SetTop(fs, g)[i] = fs[i]
<1>1. PICK n \in Nat : n = Len(fs) /\ n >= 1 /\ DOMAIN fs = 1 .. n /\ Last(fs) = fs[n]
  BY StackPop
<1>2. PICK gs : gs = SetTop(fs, g) /\ gs = Topped(fs, g)
  BY DEF SetTop, Topped
<1>3. DOMAIN gs = 1 .. n /\ (\A i \in 1 .. (n - 1) : gs[i] = fs[i]) /\ gs[n] = g
  BY <1>1, <1>2, StackUpdate
<1>4. \A i \in 1 .. n : i # n => i \in 1 .. (n - 1)
  BY <1>1
<1>5. n \in 1 .. n
  BY <1>1
<1> QED
  BY <1>1, <1>2, <1>3, <1>4, <1>5

\* A digest of f, or one in what was appended.
SealOf(f, o, o2, pos) == (\E d \in DOMAIN f.digests : f.digests[d].pos = pos) \/ NewSeal(o, o2, pos)

\* The top frame keeps its reservations.
LEMMA FramesTopKept ==
  ASSUME NEW o \in Seq(Byte), NEW o2 \in Seq(Byte), Extends(o, o2), NEW fs, Stack(fs), fs # <<>>,
         FramesHold(o, fs), NEW f, f = Last(fs), NEW g,
         g.res = f.res, g.known = f.known, g.regs = f.regs,
         \A d \in DOMAIN g.digests : SealOf(f, o, o2, g.digests[d].pos)
  PROVE  FramesHold(o2, SetTop(fs, g))
<1>1. PICK gs : gs = SetTop(fs, g)
  OBVIOUS
<1>2. /\ DOMAIN gs = DOMAIN fs /\ Len(fs) \in DOMAIN fs
      /\ f = fs[Len(fs)] /\ gs[Len(fs)] = g
      /\ \A i \in DOMAIN fs : i # Len(fs) => gs[i] = fs[i]
  BY <1>1, TopReplaced
<1>3. ASSUME NEW i \in DOMAIN fs PROVE gs[i].res = fs[i].res /\ gs[i].known = fs[i].known /\ gs[i].regs = fs[i].regs
  BY <1>2
<1>4. ASSUME NEW i \in DOMAIN gs, NEW r \in Regs, NEW v \in gs[i].res[r] PROVE Kept(o, fs, o2, gs, i, r, v)
  <2>0. i \in DOMAIN fs /\ v \in fs[i].res[r]
    BY <1>2, <1>3
  <2>1. ResvOk(o, fs[i], r, v)
    BY <2>0 DEF FramesHold, SlotsRight
  <2>2. SlotValue(o2, v.slot) = SlotValue(o, v.slot)
    BY <2>1 DEF ResvOk, Extends
  <2> QED
    BY <1>3, <2>0, <2>2 DEF Kept
<1>5. ASSUME NEW j \in DOMAIN gs, NEW d \in DOMAIN gs[j].digests
      PROVE  Sealed(fs, j, gs[j].digests[d].pos) \/ NewSeal(o, o2, gs[j].digests[d].pos)
  <2>1. CASE j = Len(fs)
    BY <1>2, <2>1 DEF SealOf, Sealed
  <2>2. CASE j # Len(fs)
    BY <1>2, <2>2 DEF Sealed
  <2> QED
    BY <2>1, <2>2
<1>6. FramesHold(o2, gs)
  BY <1>4, <1>5, FramesKept DEF Extends
<1> QED
  BY <1>1, <1>6

\* The top frame reserves slots in what was appended.
OldIn(f, g, r, v) == v \in f.res[r] /\ (r \in g.known <=> r \in f.known) /\ g.regs[r] = f.regs[r]
NewIn(o, o2, g, r, v) == ResvOk(o2, g, r, v) /\ Len(o) <= v.slot.pos

LEMMA FramesTopReserve ==
  ASSUME NEW o \in Seq(Byte), NEW o2 \in Seq(Byte), Extends(o, o2), NEW fs, Stack(fs), fs # <<>>,
         FramesHold(o, fs), NEW f, f = Last(fs), NEW g,
         \A r \in Regs : \A v \in g.res[r] : OldIn(f, g, r, v) \/ NewIn(o, o2, g, r, v),
         \A r, s \in Regs : \A v \in g.res[r] : \A w \in g.res[s] :
           r # s => OldIn(f, g, r, v) \/ OldIn(f, g, s, w) \/ Apart(v.slot, w.slot),
         g.digests = f.digests
  PROVE  FramesHold(o2, SetTop(fs, g))
<1>1. PICK gs : gs = SetTop(fs, g)
  OBVIOUS
<1>2. PICK n : /\ n = Len(fs) /\ DOMAIN gs = DOMAIN fs /\ n \in DOMAIN fs
               /\ f = fs[n] /\ gs[n] = g
               /\ \A i \in DOMAIN fs : i # n => gs[i] = fs[i]
  BY <1>1, TopReplaced
<1>3. ASSUME NEW i \in DOMAIN fs, NEW r \in Regs, NEW v \in fs[i].res[r]
      PROVE  SlotValue(o2, v.slot) = SlotValue(o, v.slot)
  <2>1. ResvOk(o, fs[i], r, v)
    BY DEF FramesHold, SlotsRight
  <2> QED
    BY <2>1 DEF ResvOk, Extends
<1>4. ASSUME NEW i \in DOMAIN gs, NEW r \in Regs, NEW v \in gs[i].res[r], i # n
      PROVE  Kept(o, fs, o2, gs, i, r, v)
  BY <1>2, <1>3, <1>4 DEF Kept
<1>5. ASSUME NEW r \in Regs, NEW v \in g.res[r], OldIn(f, g, r, v) PROVE Kept(o, fs, o2, gs, n, r, v)
  BY <1>2, <1>3, <1>5 DEF Kept, OldIn
<1>6. ASSUME NEW r \in Regs, NEW v \in g.res[r], NewIn(o, o2, g, r, v) PROVE Fresh(o, o2, gs, n, r, v)
  BY <1>2, <1>6 DEF Fresh, NewIn
<1>7. ASSUME NEW i \in DOMAIN gs, NEW r \in Regs, NEW v \in gs[i].res[r]
      PROVE  Kept(o, fs, o2, gs, i, r, v) \/ Fresh(o, o2, gs, i, r, v)
  <2>1. CASE i # n
    BY <1>4, <2>1
  <2>2. CASE i = n
    BY <1>2, <1>5, <1>6, <2>2
  <2> QED
    BY <2>1, <2>2
<1>8. ASSUME NEW i \in DOMAIN gs, NEW j \in DOMAIN gs, NEW r \in Regs, NEW s \in Regs,
             NEW v \in gs[i].res[r], NEW w \in gs[j].res[s], i # j \/ r # s
      PROVE  \/ Kept(o, fs, o2, gs, i, r, v) \/ Kept(o, fs, o2, gs, j, s, w)
             \/ Apart(v.slot, w.slot)
  <2>1. CASE i # n \/ j # n
    BY <1>4, <2>1
  <2>2. CASE i = n /\ j = n
    <3>1. r # s /\ v \in g.res[r] /\ w \in g.res[s]
      BY <1>2, <1>8, <2>2
    <3>2. OldIn(f, g, r, v) \/ OldIn(f, g, s, w) \/ Apart(v.slot, w.slot)
      BY <3>1
    <3> QED
      BY <1>5, <2>2, <3>1, <3>2
  <2> QED
    BY <2>1, <2>2
<1>9. ASSUME NEW j \in DOMAIN gs, NEW d \in DOMAIN gs[j].digests PROVE Sealed(fs, j, gs[j].digests[d].pos)
  <2>1. gs[j].digests = fs[j].digests /\ j \in DOMAIN fs
    BY <1>2
  <2> QED
    BY <2>1 DEF Sealed
<1>10. FramesHold(o2, gs)
  BY <1>7, <1>8, <1>9, FramesReserve DEF Extends
<1> QED
  BY <1>1, <1>10

\* Sealing a scope leaves the slots that its digests are clear of.
LEMMA SealLeaves ==
  ASSUME PowerLaw, NEW o \in Seq(Byte), NEW f, FrameOk(f, Len(o)), NEW start \in Nat,
         NEW t, SlotFormed(t, Len(o)), \A d \in DOMAIN f.digests : Clear(t, f.digests[d].pos)
  PROVE  SlotValue(Seal(o, start, f), t) = SlotValue(o, t)
<1>1. PICK g : SealRuns(g, o, start, f)
  BY SealSteps
<1>2. PICK n \in Nat : n = Len(f.digests) /\ DOMAIN f.digests = 1 .. n
  BY LenProperties DEF FrameOk
<1>3. ASSUME NEW i \in 1 .. n PROVE f.digests[i].pos \in Nat
  <2>1. f.digests[i] \in [at : DigestAddrs, pos : Nat]
    BY <1>2, ElementOfSeq DEF FrameOk
  <2> QED
    BY <2>1
<1>4. ASSUME NEW i \in 1 .. n PROVE SlotValue(g[i], t) = SlotValue(g[i - 1], t)
  <2>1. PICK x \in Seq(Byte), raw \in Seq(Byte), pos \in Nat :
          /\ x = g[i - 1] /\ pos = f.digests[i].pos /\ Len(raw) = ChecksumWidth
          /\ g[i] = WriteAt(x, pos, raw)
    BY <1>1, <1>2, <1>3 DEF SealRuns, Overwrites
  <2>2. i - 1 \in 0 .. n
    BY <1>2
  <2>3. Len(x) = Len(o)
    BY <1>1, <1>2, <2>1, <2>2 DEF SealRuns
  <2>4. Clear(t, pos)
    BY <1>2, <2>1
  <2>5. SlotEnd(t) <= pos \/ pos + Len(raw) <= t.pos
    BY <2>1, <2>4 DEF Clear
  <2>6. SlotFormed(t, Len(x))
    BY <2>3
  <2>7. SlotValue(WriteAt(x, pos, raw), t) = SlotValue(x, t)
    <3>1. t.pos \in Nat /\ SlotEnd(t) \in Nat /\ Len(raw) \in Nat
      BY <2>6, SlotRawIs
    <3> QED
      BY <2>5, <2>6, <3>1, ValueElsewhere
  <2> QED
    BY <2>1, <2>7
<1> DEFINE S == {k \in Nat : k <= n => SlotValue(g[k], t) = SlotValue(o, t)}
<1>5. 0 \in S
  BY <1>1 DEF SealRuns
<1>6. ASSUME NEW k \in Nat, k \in S PROVE k + 1 \in S
  <2> SUFFICES ASSUME k + 1 <= n PROVE SlotValue(g[k + 1], t) = SlotValue(o, t)
    OBVIOUS
  <2>1. PICK i \in 1 .. n : i = k + 1 /\ i - 1 = k /\ k <= n
    BY <1>2
  <2> QED
    BY <1>4, <1>6, <2>1
<1>7. Nat \subseteq S
  BY <1>5, <1>6, NatInductionOn
<1>8. n \in S /\ n <= n
  BY <1>7
<1> QED
  BY <1>1, <1>2, <1>8 DEF SealRuns

\* A structure ends: its digests are computed and its frame goes.
LEMMA FramesPopped ==
  ASSUME PowerLaw, NEW o \in Seq(Byte), NEW fs, FramesOk(fs, Len(o)), fs # <<>>, FramesHold(o, fs),
         NEW start \in Nat
  PROVE  FramesHold(Seal(o, start, Last(fs)), Front(fs))
<1>1. PICK n \in Nat : /\ n = Len(fs) /\ n >= 1 /\ DOMAIN fs = 1 .. n /\ Last(fs) = fs[n]
                       /\ DOMAIN Front(fs) = 1 .. (n - 1) /\ \A i \in 1 .. (n - 1) : Front(fs)[i] = fs[i]
  BY StackPop DEF FramesOk
<1>2. n \in DOMAIN fs /\ FrameOk(fs[n], Len(o)) /\ \A i \in 1 .. (n - 1) : i \in DOMAIN fs
  BY <1>1 DEF FramesOk
<1>3. PICK o2 \in Seq(Byte) : o2 = Seal(o, start, fs[n]) /\ Len(o2) = Len(o)
  BY <1>2, SealType
<1>4. PICK gs : gs = Front(fs)
  OBVIOUS
<1>5. ASSUME NEW i \in DOMAIN gs PROVE i \in DOMAIN fs /\ gs[i] = fs[i]
  BY <1>1, <1>2, <1>4
<1>6. ASSUME NEW i \in DOMAIN gs, NEW r \in Regs, NEW v \in gs[i].res[r] PROVE Kept(o, fs, o2, gs, i, r, v)
  <2>1. ResvOk(o, fs[i], r, v) /\ i \in DOMAIN fs /\ v \in fs[i].res[r]
    BY <1>5 DEF FramesHold, SlotsRight
  <2>2. \A d \in DOMAIN fs[n].digests : Clear(v.slot, fs[n].digests[d].pos)
    BY <1>2, <2>1 DEF FramesHold, DigestsClear
  <2>3. SlotValue(o2, v.slot) = SlotValue(o, v.slot)
    BY <1>2, <1>3, <2>1, <2>2, SealLeaves DEF ResvOk
  <2> QED
    BY <1>5, <2>1, <2>3 DEF Kept
<1>7. \A j \in DOMAIN gs : \A d \in DOMAIN gs[j].digests : Sealed(fs, j, gs[j].digests[d].pos)
  BY <1>5 DEF Sealed
<1>8. Len(o) <= Len(o2)
  BY <1>3
<1>9. FramesHold(o2, gs)
  BY <1>6, <1>7, <1>8, FramesKept
<1> QED
  BY <1>1, <1>3, <1>4, <1>9

(***************************************************************************)
(* Patching a length.                                                      *)
(***************************************************************************)
\* Both kinds of slots: one that holds zero gets the length, the slots apart
\* from it keep their values.
Patch(o, o2, slot, x) ==
  /\ SlotValue(o2, slot) = x
  /\ \A t : SlotFormed(t, Len(o)) /\ Apart(slot, t) => SlotValue(o2, t) = SlotValue(o, t)

LEMMA PatchSets ==
  ASSUME PowerLaw, NEW o \in Seq(Byte), NEW slot, SlotFormed(slot, Len(o)), NEW x \in Int,
         SlotFits(slot, x), SlotValue(o, slot) = 0
  PROVE  Patch(o, PatchSlot(o, slot, x), slot, x)
<1>1. CASE slot.kind = "Int"
  <2>1. SlotValue(PatchSlot(o, slot, x), slot) = x
    BY <1>1, PatchInt
  <2>2. ASSUME NEW t, SlotFormed(t, Len(o)), Apart(slot, t)
        PROVE  SlotValue(PatchSlot(o, slot, x), t) = SlotValue(o, t)
    BY <1>1, <2>2, PatchInt
  <2> QED
    BY <2>1, <2>2 DEF Patch
<1>2. CASE slot.kind = "Bits"
  <2>1. SlotValue(PatchSlot(o, slot, x), slot) = x
    BY <1>2, PatchBits
  <2>2. ASSUME NEW t, SlotFormed(t, Len(o)), Apart(slot, t)
        PROVE  SlotValue(PatchSlot(o, slot, x), t) = SlotValue(o, t)
    BY <1>2, <2>2, PatchBits
  <2> QED
    BY <2>1, <2>2 DEF Patch
<1> QED
  BY <1>1, <1>2 DEF SlotFormed, SlotOk

\* The patched frame: register idx is known and its reservation has a value.
LEMMA PatchFrameFields ==
  ASSUME NEW n, NEW f, FrameOk(f, n), NEW idx \in Regs, NEW slot, NEW x
  PROVE  /\ PatchFrame(f, idx, slot, x).known = f.known \cup {idx}
         /\ PatchFrame(f, idx, slot, x).digests = f.digests
         /\ PatchFrame(f, idx, slot, x).res[idx] = {[slot |-> slot, value |-> {x}]}
         /\ PatchFrame(f, idx, slot, x).regs[idx] = x
         /\ \A r \in Regs : r # idx => /\ PatchFrame(f, idx, slot, x).res[r] = f.res[r]
                                       /\ PatchFrame(f, idx, slot, x).regs[r] = f.regs[r]
<1>2. DOMAIN f.regs = Regs /\ DOMAIN f.res = Regs
  BY DEF FrameOk
<1>3. PatchFrame(f, idx, slot, x) =
        [regs |-> [f.regs EXCEPT ![idx] = x], known |-> f.known \cup {idx},
         res |-> [f.res EXCEPT ![idx] = {[slot |-> slot, value |-> {x}]}],
         spans |-> f.spans, digests |-> f.digests]
  BY PatchFrameIs
<1> QED
  BY <1>2, <1>3

LEMMA FramesPatched ==
  ASSUME PowerLaw, NEW o \in Seq(Byte), NEW fs, FramesOk(fs, Len(o)), FramesHold(o, fs),
         NEW r, NEW i, NEW idx, NEW v, NEW x, PatchedAt(r, o, fs, i, idx, v, x)
  PROVE  FramesHold(r.out, r.frames)
<1>1. /\ i \in DOMAIN fs /\ idx \in Regs /\ x \in Int /\ v \in fs[i].res[idx] /\ v.value = {}
      /\ SlotFits(v.slot, x) /\ FrameOk(fs[i], Len(o)) /\ ResvOk(o, fs[i], idx, v)
  BY WireAssumption DEF PatchedAt, FramesOk, I64, FramesHold, SlotsRight
<1>2. PICK slot : slot = v.slot /\ SlotFormed(slot, Len(o)) /\ SlotValue(o, slot) = 0
  BY <1>1 DEF ResvOk, Wanted
<1>3. PICK o2 : o2 = PatchSlot(o, slot, x)
  OBVIOUS
<1>4. o2 \in Seq(Byte) /\ Len(o2) = Len(o)
  BY <1>1, <1>2, <1>3, PatchSlotType DEF SlotFormed
<1>5. Patch(o, o2, slot, x)
  BY <1>1, <1>2, <1>3, PatchSets
<1>6. PICK g : g = PatchFrame(fs[i], idx, slot, x)
  OBVIOUS
<1>7. /\ g.known = fs[i].known \cup {idx} /\ g.digests = fs[i].digests
      /\ g.res[idx] = {[slot |-> slot, value |-> {x}]} /\ g.regs[idx] = x
      /\ \A s \in Regs : s # idx => g.res[s] = fs[i].res[s] /\ g.regs[s] = fs[i].regs[s]
  BY <1>1, <1>6, PatchFrameFields
<1>8. PICK gs : gs = [fs EXCEPT ![i] = g]
  OBVIOUS
<1>9. DOMAIN gs = DOMAIN fs /\ gs[i] = g /\ \A j \in DOMAIN fs : j # i => gs[j] = fs[j]
  BY <1>1, <1>8
<1>10. r.out = o2 /\ r.frames = gs
  BY <1>2, <1>3, <1>6, <1>8 DEF PatchedAt, Patched
<1>11. ASSUME NEW j \in DOMAIN gs PROVE j \in DOMAIN fs /\ gs[j].digests = fs[j].digests
  BY <1>7, <1>9
<1>12. ASSUME NEW j \in DOMAIN gs, NEW s \in Regs, NEW w \in gs[j].res[s]
       PROVE  \/ j = i /\ s = idx /\ w = [slot |-> slot, value |-> {x}]
              \/ /\ j # i \/ s # idx
                 /\ w \in fs[j].res[s]
                 /\ s \in gs[j].known <=> s \in fs[j].known
                 /\ gs[j].regs[s] = fs[j].regs[s]
  <2>1. CASE j # i
    BY <1>9, <1>12, <2>1
  <2>2. CASE j = i /\ s # idx
    BY <1>7, <1>9, <1>12, <2>2
  <2>3. CASE j = i /\ s = idx
    BY <1>7, <1>9, <1>12, <2>3
  <2> QED
    BY <2>1, <2>2, <2>3
<1>13. ASSUME NEW j \in DOMAIN gs, NEW s \in Regs, NEW w \in gs[j].res[s]
       PROVE  \E w0 \in fs[j].res[s] : w0.slot = w.slot
  <2>1. CASE j = i /\ s = idx /\ w = [slot |-> slot, value |-> {x}]
    BY <1>1, <1>2, <2>1
  <2>2. CASE w \in fs[j].res[s]
    BY <2>2
  <2> QED
    BY <1>12, <2>1, <2>2
<1>14. SlotsRight(o2, gs)
  <2> SUFFICES ASSUME NEW j \in DOMAIN gs, NEW s \in Regs, NEW w \in gs[j].res[s]
               PROVE  ResvOk(o2, gs[j], s, w)
    BY DEF SlotsRight
  <2>1. CASE j = i /\ s = idx /\ w = [slot |-> slot, value |-> {x}]
    <3>1. w.slot = slot /\ w.value = {x} /\ w.value # {}
      BY <2>1
    <3>2. SlotFormed(w.slot, Len(o2))
      BY <1>2, <1>4, <3>1
    <3>3. SlotValue(o2, w.slot) = x
      BY <1>5, <3>1 DEF Patch
    <3>4. Wanted(w) = x
      BY <3>1 DEF Wanted
    <3>5. s \in gs[j].known /\ gs[j].regs[s] = x
      BY <1>7, <1>9, <2>1
    <3> QED
      BY <3>1, <3>2, <3>3, <3>4, <3>5 DEF ResvOk
  <2>2. CASE /\ j # i \/ s # idx
             /\ w \in fs[j].res[s]
             /\ s \in gs[j].known <=> s \in fs[j].known
             /\ gs[j].regs[s] = fs[j].regs[s]
    <3>1. ResvOk(o, fs[j], s, w)
      BY <1>11, <2>2 DEF FramesHold, SlotsRight
    <3>2. Apart(slot, w.slot)
      BY <1>1, <1>2, <1>11, <2>2 DEF FramesHold, SlotsApart
    <3>3. SlotValue(o2, w.slot) = SlotValue(o, w.slot)
      BY <1>5, <3>1, <3>2 DEF Patch, ResvOk
    <3>4. Len(o) <= Len(o2)
      BY <1>4
    <3> QED
      BY <1>4, <2>2, <3>1, <3>3, <3>4, ResvKept
  <2> QED
    BY <1>12, <2>1, <2>2
<1>15. SlotsApart(gs)
  <2> SUFFICES ASSUME NEW j \in DOMAIN gs, NEW k \in DOMAIN gs, NEW s \in Regs, NEW t \in Regs,
                      NEW w \in gs[j].res[s], NEW u \in gs[k].res[t], j # k \/ s # t
               PROVE  Apart(w.slot, u.slot)
    BY DEF SlotsApart
  <2>1. PICK w0 \in fs[j].res[s], u0 \in fs[k].res[t] : w0.slot = w.slot /\ u0.slot = u.slot
    BY <1>13
  <2>2. Apart(w0.slot, u0.slot)
    BY <1>11 DEF FramesHold, SlotsApart
  <2> QED
    BY <2>1, <2>2
<1>16. DigestsIn(gs, Len(o2))
  BY <1>4, <1>11 DEF FramesHold, DigestsIn
<1>17. DigestsClear(gs)
  <2> SUFFICES ASSUME NEW j \in DOMAIN gs, NEW k \in DOMAIN gs, NEW s \in Regs, NEW w \in gs[j].res[s],
                      NEW d \in DOMAIN gs[k].digests
               PROVE  Clear(w.slot, gs[k].digests[d].pos)
    BY DEF DigestsClear
  <2>1. PICK w0 \in fs[j].res[s] : w0.slot = w.slot
    BY <1>13
  <2>2. Clear(w0.slot, fs[k].digests[d].pos)
    BY <1>11 DEF FramesHold, DigestsClear
  <2> QED
    BY <1>11, <2>1, <2>2
<1> QED
  BY <1>10, <1>14, <1>15, <1>16, <1>17 DEF FramesHold

\* Settling a length keeps what the slots hold, and which registers are held.
SameHeld(gs, fs) == DOMAIN gs = DOMAIN fs /\ \A d \in DOMAIN fs : Held(gs[d]) = Held(fs[d])

LEMMA HeldPatched ==
  ASSUME NEW o \in Seq(Byte), NEW fs, FramesOk(fs, Len(o)),
         NEW r, NEW i, NEW idx, NEW v, NEW x, PatchedAt(r, o, fs, i, idx, v, x)
  PROVE  SameHeld(r.frames, fs)
<1>1. i \in DOMAIN fs /\ idx \in Regs /\ v \in fs[i].res[idx] /\ FrameOk(fs[i], Len(o))
  BY DEF PatchedAt, FramesOk
<1>2. PICK g : g = PatchFrame(fs[i], idx, v.slot, x)
  OBVIOUS
<1>3. /\ g.known = fs[i].known \cup {idx}
      /\ g.res[idx] = {[slot |-> v.slot, value |-> {x}]}
      /\ \A s \in Regs : s # idx => g.res[s] = fs[i].res[s]
  BY <1>1, <1>2, PatchFrameFields
<1>4. Held(g) = Held(fs[i])
  BY <1>1, <1>3 DEF Held
<1>5. r.frames = [fs EXCEPT ![i] = g]
  BY <1>2 DEF PatchedAt, Patched
<1> QED
  BY <1>1, <1>4, <1>5 DEF SameHeld

LEMMA SettledHolds ==
  ASSUME PowerLaw, NEW o \in Seq(Byte), NEW fs, FramesOk(fs, Len(o)), FramesHold(o, fs),
         NEW r, Leaves(r, o, fs) \/ Patches(r, o, fs)
  PROVE  FramesHold(r.out, r.frames) /\ SameHeld(r.frames, fs)
<1>1. CASE Leaves(r, o, fs)
  <2>1. r.out = o /\ r.frames = fs
    BY <1>1 DEF Leaves, Patched
  <2> QED
    BY <2>1 DEF SameHeld
<1>2. CASE Patches(r, o, fs)
  <2>1. PICK i, idx, v, x : PatchedAt(r, o, fs, i, idx, v, x)
    BY <1>2 DEF Patches
  <2> QED
    BY <2>1, FramesPatched, HeldPatched
<1> QED
  BY <1>1, <1>2

(***************************************************************************)
(* A run of fields.                                                        *)
(***************************************************************************)
\* The frame g after a run whose items have slots: f with more registers known
\* and more reservations.
RunTo(f, g, items, slots) ==
  /\ g.digests = f.digests
  /\ g.known = f.known \cup InputRegs(items, slots)
  /\ \A r \in Regs : r \notin InputRegs(items, slots) => g.regs[r] = f.regs[r]
  /\ \A r \in Regs :
       \/ g.res[r] = f.res[r]
       \/ \E i \in DOMAIN slots : /\ items[i].derived /\ r \in items[i].reg
                                  /\ g.res[r] = {[slot |-> slots[i], value |-> {}]}

LEMMA RunFrameTo ==
  ASSUME NEW f, NEW n, FrameOk(f, n), NEW items, Disjoint(items), NEW slots, DOMAIN slots \subseteq DOMAIN items,
         NEW numbers
  PROVE  RunTo(f, RunFrame(f, items, numbers, slots), items, slots)
<1>1. PICK g : g = RunFrame(f, items, numbers, slots)
  OBVIOUS
<1>2. g = [regs |-> [r \in Regs |-> IF r \in InputRegs(items, slots)
                                    THEN Wrap(numbers[WriterOf(items, slots, r)]) ELSE f.regs[r]],
           known |-> f.known \cup InputRegs(items, slots),
           res |-> [r \in Regs |-> IF r \in DerivedRegs(items, slots)
                                   THEN {[slot |-> slots[WriterOf(items, slots, r)], value |-> {}]}
                                   ELSE f.res[r]],
           spans |-> f.spans, digests |-> f.digests]
  BY <1>1, RunFrameIs
<1>3. /\ g.digests = f.digests
      /\ g.known = f.known \cup InputRegs(items, slots)
      /\ \A r \in Regs : r \notin InputRegs(items, slots) => g.regs[r] = f.regs[r]
  BY <1>2
<1>4. \A r \in Regs : g.res[r] = IF r \in DerivedRegs(items, slots)
                                 THEN {[slot |-> slots[WriterOf(items, slots, r)], value |-> {}]}
                                 ELSE f.res[r]
  BY <1>2
<1>5. ASSUME NEW r \in Regs, g.res[r] # f.res[r]
      PROVE  \E i \in DOMAIN slots : /\ items[i].derived /\ r \in items[i].reg
                                     /\ g.res[r] = {[slot |-> slots[i], value |-> {}]}
  <2>1. /\ r \in DerivedRegs(items, slots)
        /\ g.res[r] = {[slot |-> slots[WriterOf(items, slots, r)], value |-> {}]}
    BY <1>4, <1>5
  <2>2. PICK i \in DOMAIN slots : items[i].derived /\ r \in items[i].reg
    BY <2>1 DEF DerivedRegs
  <2>3. WriterOf(items, slots, r) \in DOMAIN slots /\ r \in items[WriterOf(items, slots, r)].reg
    BY <2>2 DEF WriterOf
  <2>4. WriterOf(items, slots, r) = i
    BY <2>2, <2>3 DEF Disjoint
  <2> QED
    BY <2>1, <2>2, <2>4
<1>6. RunTo(f, g, items, slots)
  BY <1>3, <1>5 DEF RunTo
<1> QED
  BY <1>1, <1>6

\* A slot for a derived item in what was appended, holding zero.
Reserved(o, o2, slot) ==
  SlotFormed(slot, Len(o2)) /\ SlotValue(o2, slot) = 0 /\ Len(o) <= slot.pos

LEMMA FramesRun ==
  ASSUME NEW o \in Seq(Byte), NEW o2 \in Seq(Byte), Extends(o, o2), NEW fs, Stack(fs), fs # <<>>,
         FramesHold(o, fs), NEW f, f = Last(fs), NEW items, Disjoint(items),
         \A i \in DOMAIN items : \A r, s \in items[i].reg : r = s,
         NEW slots, DOMAIN slots \subseteq DOMAIN items,
         \A i \in DOMAIN slots : items[i].reg \cap Held(f) = {},
         \A i \in DOMAIN slots : items[i].derived => Reserved(o, o2, slots[i]),
         \A i, j \in DOMAIN slots : i # j => Apart(slots[i], slots[j]),
         NEW g, RunTo(f, g, items, slots)
  PROVE  FramesHold(o2, SetTop(fs, g))
<1>1. ASSUME NEW r \in Regs, g.res[r] = f.res[r], NEW v \in g.res[r] PROVE OldIn(f, g, r, v)
  <2>1. r \in Held(f) /\ v \in f.res[r]
    BY <1>1 DEF Held
  <2>2. r \notin InputRegs(items, slots)
    BY <2>1 DEF InputRegs
  <2> QED
    BY <2>1, <2>2 DEF RunTo, OldIn
<1>2. ASSUME NEW r \in Regs, NEW i \in DOMAIN slots, items[i].derived, r \in items[i].reg,
             g.res[r] = {[slot |-> slots[i], value |-> {}]}, NEW v \in g.res[r]
      PROVE  NewIn(o, o2, g, r, v)
  <2>1. v = [slot |-> slots[i], value |-> {}]
    BY <1>2
  <2>2. v.slot = slots[i] /\ v.value = {}
    BY <2>1
  <2>3. Reserved(o, o2, slots[i])
    BY <1>2
  <2>4. r \notin g.known
    <3>1. r \notin f.known
      BY <1>2 DEF Held
    <3>2. r \notin InputRegs(items, slots)
      <4> SUFFICES ASSUME NEW j \in DOMAIN slots, ~items[j].derived, r \in items[j].reg PROVE FALSE
        BY DEF InputRegs
      <4>1. i # j
        BY <1>2
      <4> QED
        BY <1>2, <4>1 DEF Disjoint
    <3> QED
      BY <3>1, <3>2 DEF RunTo
  <2>5. Wanted(v) = 0
    BY <2>2 DEF Wanted
  <2> QED
    BY <2>2, <2>3, <2>4, <2>5 DEF NewIn, ResvOk, Reserved
<1>3. \A r \in Regs : \A v \in g.res[r] : OldIn(f, g, r, v) \/ NewIn(o, o2, g, r, v)
  BY <1>1, <1>2 DEF RunTo
<1>4. ASSUME NEW r \in Regs, NEW s \in Regs, NEW v \in g.res[r], NEW w \in g.res[s], r # s
      PROVE  OldIn(f, g, r, v) \/ OldIn(f, g, s, w) \/ Apart(v.slot, w.slot)
  <2>1. CASE g.res[r] = f.res[r] \/ g.res[s] = f.res[s]
    BY <1>1, <2>1
  <2>2. CASE g.res[r] # f.res[r] /\ g.res[s] # f.res[s]
    <3>1. PICK i \in DOMAIN slots : r \in items[i].reg /\ g.res[r] = {[slot |-> slots[i], value |-> {}]}
      BY <2>2 DEF RunTo
    <3>2. PICK j \in DOMAIN slots : s \in items[j].reg /\ g.res[s] = {[slot |-> slots[j], value |-> {}]}
      BY <2>2 DEF RunTo
    <3>3. i # j
      BY <1>4, <3>1, <3>2
    <3>4. v.slot = slots[i] /\ w.slot = slots[j]
      BY <3>1, <3>2
    <3> QED
      BY <3>3, <3>4
  <2> QED
    BY <2>1, <2>2
<1>5. g.digests = f.digests
  BY DEF RunTo
<1> QED
  BY <1>3, <1>4, <1>5, FramesTopReserve

LEMMA HeldRun ==
  ASSUME NEW f, NEW items, NEW slots, DOMAIN slots \subseteq DOMAIN items, NEW g, RunTo(f, g, items, slots)
  PROVE  Held(g) \subseteq Held(f) \cup UNION {items[i].reg : i \in DOMAIN items}
  BY DEF RunTo, Held, InputRegs

(***************************************************************************)
(* The registers of the open structures.                                   *)
(***************************************************************************)
LEMMA DepthIn ==
  ASSUME NEW ctl, NEW n \in Nat, NEW i \in 1 .. n
  PROVE  /\ Depth(ctl, i) <= Depth(ctl, n) /\ Depth(ctl, i) \in Nat /\ Depth(ctl, n) \in Nat
         /\ ctl[i].k = "struct" => Depth(ctl, i) \in 1 .. Depth(ctl, n)
<1>1. Depth(ctl, i) \in Nat /\ Depth(ctl, n) \in Nat
  BY DepthType
<1>2. Depth(ctl, i) <= Depth(ctl, n)
  <2> DEFINE A == {j \in 1 .. i : ctl[j].k = "struct"}
             B == {j \in 1 .. n : ctl[j].k = "struct"}
  <2>1. A \subseteq B
    OBVIOUS
  <2>2. IsFiniteSet(B)
    <3>1. IsFiniteSet(1 .. n)
      BY FS_Interval
    <3> QED
      BY <3>1, FS_Subset
  <2>3. Cardinality(A) <= Cardinality(B)
    <3> HIDE DEF A, B
    <3> QED
      BY <2>1, <2>2, FS_Subset
  <2> QED
    BY <2>3 DEF Depth
<1>3. ASSUME ctl[i].k = "struct" PROVE Depth(ctl, i) >= 1
  <2>1. i \in Nat \ {0} /\ i - 1 \in Nat
    OBVIOUS
  <2>2. Depth(ctl, i) = Depth(ctl, i - 1) + 1 /\ Depth(ctl, i - 1) \in Nat
    BY <1>3, <2>1, DepthStep, DepthType
  <2> QED
    BY <2>2
<1> QED
  BY <1>1, <1>2, <1>3

LEMMA WrittenGrows ==
  ASSUME NEW p, DOMAIN Prog[p] \subseteq Nat, NEW m \in Nat, NEW n \in Nat, m <= n
  PROVE  Written(p, m) \subseteq Written(p, n)
  BY DEF Written

LEMMA ProgDomain ==
  ASSUME NEW p \in ProgId
  PROVE  /\ DOMAIN Prog[p] = 1 .. Len(Prog[p]) /\ Len(Prog[p]) \in Nat /\ DOMAIN Prog[p] \subseteq Nat
         /\ \A i \in DOMAIN Prog[p] : Prog[p][i] \in Addr
<1>1. Prog[p] \in Seq(Addr)
  BY ProgramAssumption
<1> QED
  BY <1>1, LenProperties, ElementOfSeq

\* Activations of ctl2 that go on from those of ctl.
Resumes(ctl2, ctl) ==
  \A i \in DOMAIN ctl2 :
    /\ i \in DOMAIN ctl /\ ctl2[i].k = ctl[i].k
    /\ ctl2[i].k = "struct" => /\ ctl2[i].id = ctl[i].id /\ ctl2[i].id \in ProgId
                               /\ ctl2[i].i \in Nat /\ ctl[i].i \in Nat /\ ctl[i].i <= ctl2[i].i

LEMMA RegsKept ==
  ASSUME NEW ctl, NEW ctl2, Stack(ctl2), NEW fs, RegsIn(ctl, fs), Resumes(ctl2, ctl), NEW gs,
         \A d \in 1 .. Depth(ctl2, Len(ctl2)) : Held(gs[d]) \subseteq Held(fs[d])
  PROVE  RegsIn(ctl2, gs)
<1>1. PICK n \in Nat : n = Len(ctl2) /\ DOMAIN ctl2 = 1 .. n
  BY StackPush
<1> SUFFICES ASSUME NEW i \in DOMAIN ctl2, ctl2[i].k = "struct"
             PROVE  Held(gs[Depth(ctl2, i)]) \subseteq Written(ctl2[i].id, ctl2[i].i)
  BY DEF RegsIn
<1>2. i \in DOMAIN ctl /\ ctl[i].k = "struct" /\ i \in Nat
  BY <1>1 DEF Resumes
<1>3. Depth(ctl2, i) = Depth(ctl, i)
  <2>1. \A j \in 1 .. i : j \in DOMAIN ctl2
    BY <1>1
  <2> QED
    BY <1>2, <2>1, DepthSame DEF Resumes
<1>4. Depth(ctl2, i) \in 1 .. Depth(ctl2, n)
  BY <1>1, DepthIn
<1>5. Held(fs[Depth(ctl, i)]) \subseteq Written(ctl[i].id, ctl[i].i)
  BY <1>2 DEF RegsIn
<1>6. Written(ctl[i].id, ctl[i].i) \subseteq Written(ctl2[i].id, ctl2[i].i)
  BY ProgDomain, WrittenGrows DEF Resumes
<1> QED
  BY <1>1, <1>3, <1>4, <1>5, <1>6

\* The structure that goes on passes a field.
LEMMA RegsPassed ==
  ASSUME PInv, RegsIn(pctl, pframes), pctl # <<>>, pack.k = "struct", NEW g,
         \/ Held(g) \subseteq Held(Last(pframes))
         \/ PMoreOps /\ Held(g) \subseteq Held(Last(pframes)) \cup RegsOf(PFieldOp)
  PROVE  RegsIn(PPassed, SetTop(pframes, g))
<1>1. PICK n \in Nat : n = Len(pctl) /\ n >= 1 /\ DOMAIN pctl = 1 .. n /\ pack = pctl[n]
  BY StackPop DEF PInv, CtlOk, pack
<1>2. PICK e : e = [pack EXCEPT !.i = @ + 1]
  OBVIOUS
<1>3. /\ EntryOk(pack, Len(pframes), Len(out)) /\ pframes # <<>> /\ Len(pframes) \in Nat
      /\ Stack(pframes) /\ Stack(pctl) /\ Len(pframes) = Depth(pctl, n)
  BY <1>1, TopFacts DEF PInv, FramesOk, CtlOk
<1>4. e.k = pack.k /\ e.id = pack.id /\ e.i = pack.i + 1 /\ pack.id \in ProgId /\ pack.i \in Nat
  <2>1. e = [k |-> pack.k, id |-> pack.id, via |-> pack.via, i |-> pack.i + 1, from |-> pack.from,
             start |-> pack.start, given |-> pack.given]
    BY <1>2, <1>3, EntryFields
  <2> QED
    BY <1>3, <2>1 DEF EntryOk
<1>5. PICK ctl2 : ctl2 = PPassed /\ ctl2 = SetTop(pctl, e)
  BY <1>2 DEF PPassed
<1>6. DOMAIN ctl2 = DOMAIN pctl /\ ctl2[n] = e /\ \A i \in DOMAIN pctl : i # n => ctl2[i] = pctl[i]
  BY <1>1, <1>3, <1>5, TopReplaced
<1>7. PICK gs : gs = SetTop(pframes, g)
  OBVIOUS
<1>8. PICK m \in Nat : /\ m = Len(pframes) /\ m \in DOMAIN pframes /\ Last(pframes) = pframes[m] /\ gs[m] = g
                       /\ \A d \in DOMAIN pframes : d # m => gs[d] = pframes[d]
  BY <1>3, <1>7, TopReplaced
<1>9. DOMAIN pframes = 1 .. m
  BY <1>3, <1>8, StackPop
<1>10. ASSUME NEW i \in DOMAIN ctl2 PROVE Depth(ctl2, i) = Depth(pctl, i) /\ i \in 1 .. n
  <2>1. i \in Nat /\ i \in 1 .. n /\ \A j \in 1 .. i : j \in DOMAIN pctl
    BY <1>1, <1>6
  <2>2. \A j \in DOMAIN pctl : ctl2[j].k = pctl[j].k
    BY <1>1, <1>4, <1>6
  <2> QED
    BY <2>1, <2>2, DepthSame
<1> SUFFICES ASSUME NEW i \in DOMAIN ctl2, ctl2[i].k = "struct"
             PROVE  Held(gs[Depth(ctl2, i)]) \subseteq Written(ctl2[i].id, ctl2[i].i)
  BY <1>5, <1>7 DEF RegsIn
<1>11. CASE i = n
  <2>1. Depth(ctl2, i) = m /\ gs[m] = g /\ ctl2[i].id = pack.id /\ ctl2[i].i = pack.i + 1
    BY <1>3, <1>4, <1>6, <1>8, <1>10, <1>11
  <2>2. Held(pframes[m]) \subseteq Written(pack.id, pack.i)
    BY <1>1, <1>3, <1>8 DEF RegsIn
  <2>3. Written(pack.id, pack.i) \subseteq Written(pack.id, pack.i + 1)
    BY <1>4, ProgDomain, WrittenGrows
  <2>4. PMoreOps => RegsOf(PFieldOp) \subseteq Written(pack.id, pack.i + 1)
    <3> SUFFICES ASSUME PMoreOps PROVE RegsOf(PFieldOp) \subseteq Written(pack.id, pack.i + 1)
      OBVIOUS
    <3>1. pack.i \in DOMAIN Prog[pack.id] /\ PNextAddr \in Addr /\ pack.i < pack.i + 1
      <4>1. pack.i >= 1
        BY <1>3 DEF EntryOk
      <4> QED
        BY <1>4, <4>1, ProgDomain DEF PMoreOps, PNextAddr
    <3>2. RegsOf(PFieldOp) \subseteq Regs
      BY <3>1, EncoderAssumption DEF EncodesOk, RegsOf, PFieldOp
    <3> QED
      BY <3>1, <3>2 DEF Written, PFieldOp, PNextAddr
  <2> QED
    BY <1>8, <2>1, <2>2, <2>3, <2>4
<1>12. CASE i # n
  <2>1. i \in 1 .. (n - 1) /\ n - 1 \in Nat /\ n \in Nat \ {0}
    BY <1>1, <1>10, <1>12
  <2>2. ctl2[i] = pctl[i]
    BY <1>6, <1>12
  <2>3. Depth(pctl, i) \in 1 .. Depth(pctl, n - 1)
    BY <2>1, <2>2, DepthIn
  <2>4. Depth(pctl, n) = Depth(pctl, n - 1) + 1 /\ Depth(pctl, n - 1) \in Nat
    BY <1>1, <2>1, DepthStep, DepthType
  <2>5. Depth(pctl, i) \in 1 .. m /\ Depth(pctl, i) # m
    BY <1>3, <1>8, <2>3, <2>4
  <2>6. gs[Depth(pctl, i)] = pframes[Depth(pctl, i)]
    BY <1>8, <1>9, <2>5
  <2>7. Held(pframes[Depth(pctl, i)]) \subseteq Written(pctl[i].id, pctl[i].i)
    BY <1>1, <1>10, <2>2 DEF RegsIn
  <2> QED
    BY <1>10, <2>2, <2>6, <2>7
<1> QED
  BY <1>11, <1>12

\* An activation starts.
LEMMA RegsPushed ==
  ASSUME PInv, RegsIn(pctl, pframes), NEW e, NEW gs,
         \/ e.k # "struct" /\ gs = pframes
         \/ e.k = "struct" /\ gs = Append(pframes, NewPFrame)
  PROVE  RegsIn(Append(pctl, e), gs)
<1>1. PICK n \in Nat : n = Len(pctl) /\ DOMAIN pctl = 1 .. n
  BY StackPush DEF PInv, CtlOk
<1>2. PICK m \in Nat : m = Len(pframes) /\ DOMAIN pframes = 1 .. m /\ m = Depth(pctl, n)
  BY <1>1, StackPush DEF PInv, FramesOk
<1>3. PICK ctl2 : ctl2 = Append(pctl, e)
  OBVIOUS
<1>4. DOMAIN ctl2 = 1 .. (n + 1) /\ (\A i \in 1 .. n : ctl2[i] = pctl[i]) /\ ctl2[n + 1] = e
  BY <1>1, <1>3, StackPush DEF PInv, CtlOk
<1>5. ASSUME NEW i \in 1 .. n PROVE Depth(ctl2, i) = Depth(pctl, i)
  <2>1. \A j \in 1 .. i : j \in 1 .. n
    BY <1>1
  <2> QED
    BY <1>4, <2>1, DepthSame
<1>6. \A d \in 1 .. m : gs[d] = pframes[d]
  BY <1>2, StackPush DEF PInv, FramesOk
<1> SUFFICES ASSUME NEW i \in DOMAIN ctl2, ctl2[i].k = "struct"
             PROVE  Held(gs[Depth(ctl2, i)]) \subseteq Written(ctl2[i].id, ctl2[i].i)
  BY <1>3 DEF RegsIn
<1>7. CASE i \in 1 .. n
  <2>1. ctl2[i] = pctl[i] /\ i \in DOMAIN pctl
    BY <1>1, <1>4, <1>7
  <2>2. Depth(ctl2, i) \in 1 .. m
    BY <1>2, <1>5, <1>7, <2>1, DepthIn
  <2>3. Held(pframes[Depth(pctl, i)]) \subseteq Written(pctl[i].id, pctl[i].i)
    BY <2>1 DEF RegsIn
  <2> QED
    BY <1>5, <1>6, <1>7, <2>1, <2>2, <2>3
<1>8. CASE i = n + 1
  <2>1. e.k = "struct" /\ gs = Append(pframes, NewPFrame)
    BY <1>4, <1>8
  <2>2. Depth(ctl2, i) = m + 1
    <3>1. i \in Nat \ {0} /\ i - 1 = n
      BY <1>8
    <3>2. Depth(ctl2, i) = Depth(ctl2, i - 1) + 1
      BY <3>1, DepthStep
    <3>3. Depth(ctl2, n) = Depth(pctl, n)
      BY <1>4, DepthSame
    <3> QED
      BY <1>2, <3>1, <3>2, <3>3
  <2>3. gs[m + 1] = NewPFrame
    BY <1>2, <2>1, StackPush DEF PInv, FramesOk
  <2>4. Held(NewPFrame) = {}
    BY DEF Held, NewPFrame
  <2> QED
    BY <2>2, <2>3, <2>4
<1> QED
  BY <1>1, <1>4, <1>7, <1>8

(***************************************************************************)
(* The steps.                                                              *)
(***************************************************************************)
LEMMA EmptyHolds == ASSUME NEW o PROVE FramesHold(o, <<>>) /\ RegsIn(<<>>, <<>>)
<1>1. DOMAIN <<>> = {}
  OBVIOUS
<1> QED
  BY <1>1 DEF FramesHold, SlotsRight, SlotsApart, DigestsIn, DigestsClear, RegsIn

LEMMA PStopHolds ==
  ASSUME NEW tag, NEW kind, NEW o, PStop(tag, kind, o)
  PROVE  SInv'
<1>1. out' = o /\ pctl' = <<>> /\ pframes' = <<>>
  BY DEF PStop
<1>2. FramesHold(out', pframes') /\ RegsIn(pctl', pframes')
  BY <1>1, EmptyHolds
<1> QED
  BY <1>2 DEF SInv

LEMMA PFailHolds == ASSUME NEW kind, PFail(kind) PROVE SInv'
  BY PStopHolds DEF PFail

LEMMA FirstFaultHolds == ASSUME NEW faults, FirstFault(faults) PROVE SInv'
  BY PFailHolds DEF FirstFault

LEMMA ResumesTop ==
  ASSUME PInv, pctl # <<>>, NEW e, e.k = pack.k,
         e.k = "struct" => e.id = pack.id /\ e.i \in Nat /\ pack.i <= e.i
  PROVE  Resumes(SetTop(pctl, e), pctl) /\ Stack(SetTop(pctl, e)) /\ Resumes(pctl, pctl) /\ Stack(pctl)
<1>1. Stack(pctl) /\ \A i \in DOMAIN pctl : EntryOk(pctl[i], Depth(pctl, i), Len(out))
  BY DEF PInv, CtlOk
<1>2. ASSUME NEW i \in DOMAIN pctl, pctl[i].k = "struct" PROVE pctl[i].id \in ProgId /\ pctl[i].i \in Nat
  BY <1>1, <1>2 DEF EntryOk
<1>3. Resumes(pctl, pctl)
  BY <1>2 DEF Resumes
<1>4. PICK c : c = SetTop(pctl, e)
  OBVIOUS
<1>5. /\ DOMAIN c = DOMAIN pctl /\ Len(pctl) \in DOMAIN pctl /\ pack = pctl[Len(pctl)] /\ c[Len(pctl)] = e
      /\ \A i \in DOMAIN pctl : i # Len(pctl) => c[i] = pctl[i]
  BY <1>1, <1>4, TopReplaced DEF pack
<1>6. Resumes(c, pctl)
  <2> SUFFICES ASSUME NEW i \in DOMAIN c
               PROVE  /\ i \in DOMAIN pctl /\ c[i].k = pctl[i].k
                      /\ c[i].k = "struct" =>
                           /\ c[i].id = pctl[i].id /\ c[i].id \in ProgId
                           /\ c[i].i \in Nat /\ pctl[i].i \in Nat /\ pctl[i].i <= c[i].i
    BY DEF Resumes
  <2>1. CASE i = Len(pctl)
    BY <1>2, <1>5, <2>1
  <2>2. CASE i # Len(pctl)
    BY <1>2, <1>5, <2>2
  <2> QED
    BY <2>1, <2>2
<1>7. Stack(c)
  BY <1>1, <1>4, StackUpdate DEF SetTop, Topped
<1> QED
  BY <1>1, <1>3, <1>4, <1>6, <1>7

LEMMA ResumesBelow ==
  ASSUME PInv, pctl # <<>>
  PROVE  Resumes(Front(pctl), pctl) /\ Stack(Front(pctl))
<1>1. Stack(pctl) /\ \A i \in DOMAIN pctl : EntryOk(pctl[i], Depth(pctl, i), Len(out))
  BY DEF PInv, CtlOk
<1>2. ASSUME NEW i \in DOMAIN pctl, pctl[i].k = "struct" PROVE pctl[i].id \in ProgId /\ pctl[i].i \in Nat
  BY <1>1, <1>2 DEF EntryOk
<1>3. PICK n \in Nat : /\ n >= 1 /\ DOMAIN pctl = 1 .. n /\ DOMAIN Front(pctl) = 1 .. (n - 1)
                       /\ \A i \in 1 .. (n - 1) : Front(pctl)[i] = pctl[i]
  BY <1>1, StackPop
<1>4. \A i \in 1 .. (n - 1) : i \in 1 .. n
  BY <1>3
<1> QED
  BY <1>1, <1>2, <1>3, <1>4, StackPop DEF Resumes

\* Nothing is written and no structure starts or ends.
LEMMA StaysHolds ==
  ASSUME PInv, SInv, UNCHANGED <<out, pframes>>, Resumes(pctl', pctl), Stack(pctl')
  PROVE  SInv'
<1>1. FramesHold(out', pframes')
  BY DEF SInv
<1>2. RegsIn(pctl', pframes')
  BY RegsKept DEF SInv
<1> QED
  BY <1>1, <1>2 DEF SInv

LEMMA AfterPatchHolds ==
  ASSUME PowerLaw, PInv, SInv, NEW r, NEW ctl, AfterPatch(r, ctl), Resumes(ctl, pctl), Stack(ctl),
         NEW o \in Seq(Byte), NEW fs, FramesOk(fs, Len(o)), FramesHold(o, fs),
         Leaves(r, o, fs) \/ Patches(r, o, fs),
         \A d \in 1 .. Depth(ctl, Len(ctl)) : d \in DOMAIN fs /\ fs[d] = pframes[d]
  PROVE  SInv'
<1>1. CASE r.kind # "Ok" /\ PFail(r.kind)
  BY <1>1, PFailHolds
<1>2. CASE out' = r.out /\ pframes' = r.frames /\ pctl' = ctl
  <2>1. FramesHold(r.out, r.frames) /\ SameHeld(r.frames, fs)
    BY SettledHolds
  <2>2. PICK gs : gs = r.frames
    OBVIOUS
  <2>3. \A d \in 1 .. Depth(ctl, Len(ctl)) : Held(gs[d]) \subseteq Held(pframes[d])
    BY <2>1, <2>2 DEF SameHeld
  <2>4. RegsIn(ctl, gs)
    BY <2>3, RegsKept DEF SInv
  <2> QED
    BY <1>2, <2>1, <2>2, <2>4 DEF SInv
<1> QED
  BY <1>1, <1>2 DEF AfterPatch

LEMMA AppendsHolds == ASSUME Grounds, PInv, SInv, pctl # <<>>, Appends PROVE SInv'
<1>1. CASE Fails
  BY <1>1, PFailHolds DEF Fails
<1>2. ASSUME NEW raw \in Seq(Byte), NEW r, Adds(raw, r) PROVE SInv'
  <2>1. PICK o : o = out \o raw
    OBVIOUS
  <2>2. o \in Seq(Byte) /\ FramesOk(pframes, Len(o))
    BY <2>1, Extended
  <2>3. FramesHold(o, pframes)
    BY <2>1, FramesExtended DEF SInv, PInv
  <2>4. AfterPatch(r, pctl) /\ (Leaves(r, o, pframes) \/ Patches(r, o, pframes))
    BY <1>2, <2>1 DEF Adds, Settles
  <2>5. Resumes(pctl, pctl) /\ Stack(pctl)
    <3>1. EntryOk(pack, Len(pframes), Len(out))
      BY TopFacts
    <3>2. pack.k = "struct" => pack.i \in Nat /\ pack.i <= pack.i
      BY <3>1 DEF EntryOk
    <3> QED
      BY <3>2, ResumesTop
  <2>6. \A d \in 1 .. Depth(pctl, Len(pctl)) : d \in DOMAIN pframes /\ pframes[d] = pframes[d]
    BY DEF PInv, FramesOk, Stack
  <2> QED
    BY <2>2, <2>3, <2>4, <2>5, <2>6, AfterPatchHolds DEF Grounds
<1> QED
  BY <1>1, <1>2 DEF Appends

LEMMA EnterScopeHolds ==
  ASSUME PInv, SInv, NEW p, NEW via, NEW v, EnterScope(p, via, v)
  PROVE  SInv'
<1>1. CASE PFail("Type")
  BY <1>1, PFailHolds
<1>2. CASE /\ pctl' = Append(pctl, [k |-> "struct", id |-> p, via |-> via, i |-> 1, from |-> 0,
                                    start |-> Len(out), given |-> v[2]])
           /\ pframes' = Append(pframes, NewPFrame) /\ out' = out
  <2>1. PICK e : pctl' = Append(pctl, e) /\ e.k = "struct"
    BY <1>2
  <2>2. FramesHold(out', pframes')
    BY <1>2, FramesPushed DEF PInv, SInv, FramesOk
  <2>3. RegsIn(pctl', pframes')
    BY <1>2, <2>1, RegsPushed DEF SInv
  <2> QED
    BY <2>2, <2>3 DEF SInv
<1> QED
  BY <1>1, <1>2 DEF EnterScope

LEMMA PackArrayHolds == ASSUME PInv, SInv, PackArray PROVE SInv'
<1>1. CASE PFail("Type")
  BY <1>1, PFailHolds
<1>2. CASE /\ pctl' = Append(pctl, [k |-> "array", id |-> pcur, via |-> NoOp, i |-> 1, from |-> 0,
                                    start |-> Len(out), given |-> arg[2]])
           /\ pframes' = pframes /\ out' = out
  <2>1. PICK e : pctl' = Append(pctl, e) /\ e.k # "struct"
    BY <1>2
  <2>2. RegsIn(pctl', pframes')
    BY <1>2, <2>1, RegsPushed DEF SInv
  <2> QED
    BY <1>2, <2>2 DEF SInv
<1> QED
  BY <1>1, <1>2 DEF PackArray

\* The activation that goes on passes a field, or notes where a value starts.
LEMMA TopResumes ==
  ASSUME PInv, pctl # <<>>
  PROVE  /\ Resumes(PPassed, pctl) /\ Stack(PPassed)
         /\ Resumes(pctl, pctl) /\ Stack(pctl)
         /\ \A x : Resumes(SetTop(pctl, [pack EXCEPT !.from = x]), pctl) /\ Stack(SetTop(pctl, [pack EXCEPT !.from = x]))
<1>1. EntryOk(pack, Len(pframes), Len(out))
  BY TopFacts
<1>2. pack.i \in Nat
  BY <1>1 DEF EntryOk
<1>3. PICK e : e = [pack EXCEPT !.i = @ + 1]
  OBVIOUS
<1>4. e = [k |-> pack.k, id |-> pack.id, via |-> pack.via, i |-> pack.i + 1, from |-> pack.from,
           start |-> pack.start, given |-> pack.given]
  BY <1>1, <1>3, EntryFields
<1>5. e.k = pack.k /\ e.id = pack.id /\ e.i \in Nat /\ pack.i <= e.i
  BY <1>2, <1>4
<1>6. Resumes(PPassed, pctl) /\ Stack(PPassed) /\ Resumes(pctl, pctl) /\ Stack(pctl)
  BY <1>3, <1>5, ResumesTop DEF PPassed
<1>7. ASSUME NEW x
      PROVE  Resumes(SetTop(pctl, [pack EXCEPT !.from = x]), pctl) /\ Stack(SetTop(pctl, [pack EXCEPT !.from = x]))
  <2>1. PICK h : h = [pack EXCEPT !.from = x]
    OBVIOUS
  <2>2. h = [k |-> pack.k, id |-> pack.id, via |-> pack.via, i |-> pack.i, from |-> x,
             start |-> pack.start, given |-> pack.given]
    BY <1>1, <2>1, EntryFields
  <2>3. h.k = pack.k /\ h.id = pack.id /\ h.i \in Nat /\ pack.i <= h.i
    BY <1>2, <2>2
  <2> QED
    BY <2>1, <2>3, ResumesTop
<1> QED
  BY <1>6, <1>7

LEMMA PackValueHolds ==
  ASSUME PInv, SInv, pctl # <<>>, NEW a, NEW v, NEW ctl, PackValue(a, v, ctl), Resumes(ctl, pctl), Stack(ctl)
  PROVE  SInv'
  BY StaysHolds DEF PackValue

LEMMA PackNamedHolds == ASSUME PInv, SInv, pctl # <<>>, NEW a, PackNamed(a) PROVE SInv'
<1>1. ASSUME NEW x, PackValue(a, x, SetTop(pctl, [pack EXCEPT !.from = Len(out)])) PROVE SInv'
  BY <1>1, TopResumes, PackValueHolds
<1> QED
  BY <1>1, PFailHolds DEF PackNamed

LEMMA PutCondHolds == ASSUME PInv, SInv, PutCond PROVE SInv'
<1>1. pctl # <<>>
  BY DEF PutCond, PAtField, PInStruct
<1>2. CASE \E kind : PFail(kind)
  BY <1>2, PFailHolds
<1>3. CASE PackNamed(PFieldOp.then)
  BY <1>1, <1>3, PackNamedHolds
<1>4. CASE pctl' = PPassed /\ UNCHANGED <<out, pframes>>
  BY <1>1, <1>4, TopResumes, StaysHolds
<1> QED
  BY <1>2, <1>3, <1>4 DEF PutCond

LEMMA PutOtherHolds == ASSUME PInv, SInv, PutOther PROVE SInv'
  BY PackNamedHolds DEF PutOther, PAtField, PInStruct

LEMMA PackSwitchHolds == ASSUME PInv, SInv, PackSwitch PROVE SInv'
<1>1. pctl # <<>>
  BY AtValueFacts DEF PackSwitch
<1>2. ASSUME NEW kind, PFail(kind) PROVE SInv'
  BY <1>2, PFailHolds
<1>3. ASSUME NEW a, PackValue(a, arg, pctl) PROVE SInv'
  BY <1>1, <1>3, TopResumes, PackValueHolds
<1> QED
  BY <1>2, <1>3 DEF PackSwitch

LEMMA PutElemHolds == ASSUME PInv, SInv, PutElem PROVE SInv'
  BY TopResumes, PackValueHolds DEF PutElem, PInArray

LEMMA PutElemDoneHolds == ASSUME PInv, SInv, PutElemDone PROVE SInv'
  BY TopResumes, StaysHolds DEF PutElemDone, PInArray

LEMMA PutArrayEndHolds == ASSUME Grounds, PInv, SInv, PutArrayEnd PROVE SInv'
<1>1. /\ pctl # <<>> /\ pack.k = "array" /\ pack.id \in Addr /\ Code[pack.id].op = "Array"
      /\ Levels.op[pack.id] <= Len(pframes) /\ Len(pframes) \in Nat /\ Listing(pack.given)
  BY InArrayFacts DEF PutArrayEnd
<1>2. PICK len : len = Code[pack.id].count
  OBVIOUS
<1>3. \A inv \in len.inv : InvOk(inv, Len(pframes))
  <2>1. len \in LensOf(Code[pack.id])
    BY <1>1, <1>2 DEF LensOf
  <2> QED
    BY <1>1, <2>1, InvsOk
<1>4. Len(pack.given) \in Nat
  BY <1>1 DEF Listing, Stack
<1>5. out \in Seq(Byte) /\ FramesOk(pframes, Len(out)) /\ Len(pframes) = Depth(pctl, Len(pctl)) /\ CtlOk(pctl, Len(out))
  BY DEF PInv
<1>6. PICK r : r = FinishLen(out, pframes, len, Len(pack.given))
  OBVIOUS
<1>7. Leaves(r, out, pframes) \/ Patches(r, out, pframes)
  BY <1>3, <1>4, <1>5, <1>6, FinishLenCases DEF Grounds
<1>8. AfterPatch(r, Front(pctl))
  BY <1>2, <1>6 DEF PutArrayEnd
<1>9. \A d \in 1 .. Depth(Front(pctl), Len(Front(pctl))) : d \in DOMAIN pframes /\ pframes[d] = pframes[d]
  <2>1. Last(pctl).k # "struct"
    BY <1>1 DEF pack
  <2>2. Depth(Front(pctl), Len(Front(pctl))) =
          Depth(pctl, Len(pctl)) - (IF Last(pctl).k = "struct" THEN 1 ELSE 0)
    BY <1>1, <1>5, <2>1, CtlPop
  <2>3. Depth(Front(pctl), Len(Front(pctl))) = Len(pframes)
    BY <1>1, <1>5, <2>1, <2>2
  <2> QED
    BY <1>5, <2>3 DEF FramesOk, Stack
<1> QED
  BY <1>1, <1>5, <1>7, <1>8, <1>9, ResumesBelow, AfterPatchHolds DEF Grounds, SInv

LEMMA LeaveScopeHolds == ASSUME Grounds, PInv, SInv, LeaveScope PROVE SInv'
<1>1. PICK o : o = Seal(out, pack.start, Last(pframes))
  OBVIOUS
<1>2. /\ pctl # <<>> /\ o \in Seq(Byte) /\ pack.start \in Nat
      /\ Deliver(o) \/ \E r : Closes(o, r)
  BY <1>1, LeaveScopeCases
<1>3. CASE Deliver(o)
  BY <1>3, PStopHolds, PFailHolds DEF Deliver
<1>4. ASSUME NEW r, Closes(o, r) PROVE SInv'
  <2>1. pframes # <<>> /\ out \in Seq(Byte) /\ FramesOk(pframes, Len(out))
    BY <1>2, TopFacts DEF PInv
  <2>2. FramesHold(o, Front(pframes))
    BY <1>1, <1>2, <2>1, FramesPopped DEF Grounds, SInv
  <2>3. /\ AfterPatch(r, Front(pctl)) /\ FramesOk(Front(pframes), Len(o))
        /\ Leaves(r, o, Front(pframes)) \/ Patches(r, o, Front(pframes))
        /\ Len(Front(pframes)) = Depth(Front(pctl), Len(Front(pctl)))
    BY <1>4 DEF Closes, Settles
  <2>4. \A d \in 1 .. Depth(Front(pctl), Len(Front(pctl))) :
          d \in DOMAIN Front(pframes) /\ Front(pframes)[d] = pframes[d]
    BY <2>1, <2>3, StackPop DEF FramesOk
  <2> QED
    BY <1>2, <2>2, <2>3, <2>4, ResumesBelow, AfterPatchHolds DEF Grounds
<1> QED
  BY <1>2, <1>3, <1>4

\* The field at hand is written: the frame changes at the top only.
LEMMA PassesHolds ==
  ASSUME PInv, SInv, pctl # <<>>, pack.k = "struct", NEW g, pctl' = PPassed, pframes' = SetTop(pframes, g),
         FramesHold(out', pframes'),
         \/ Held(g) \subseteq Held(Last(pframes))
         \/ PMoreOps /\ Held(g) \subseteq Held(Last(pframes)) \cup RegsOf(PFieldOp)
  PROVE  SInv'
<1>1. RegsIn(PPassed, SetTop(pframes, g))
  BY RegsPassed DEF SInv
<1> QED
  BY <1>1 DEF SInv

LEMMA SpansKept ==
  ASSUME NEW f, NEW n, FrameOk(f, n), NEW span, NEW s, NEW e, NEW g, g = PSetSpan(f, span, s, e)
  PROVE  g = [regs |-> f.regs, known |-> f.known, res |-> f.res, spans |-> g.spans, digests |-> f.digests]
<1>1. PICK S : g = [f EXCEPT !.spans = S]
  BY DEF PSetSpan
<1>2. g = [regs |-> f.regs, known |-> f.known, res |-> f.res, spans |-> S, digests |-> f.digests]
  BY <1>1, FrameFields
<1> QED
  BY <1>2

LEMMA PutDoneHolds == ASSUME PInv, SInv, PutDone PROVE SInv'
<1>1. pctl # <<>> /\ pack.k = "struct" /\ pctl' = PPassed /\ out' = out
  BY DEF PutDone, PInStruct
<1>2. PICK f : f = Last(pframes)
  OBVIOUS
<1>3. PICK g : g = PSetSpan(f, PFieldOp.span, pack.from, Len(out)) /\ pframes' = SetTop(pframes, g)
  BY <1>2 DEF PutDone
<1>4. FrameOk(f, Len(out)) /\ pframes # <<>> /\ out \in Seq(Byte) /\ Stack(pframes)
  BY <1>1, <1>2, TopFacts DEF PInv, FramesOk
<1>5. g.res = f.res /\ g.known = f.known /\ g.regs = f.regs /\ g.digests = f.digests
  <2>1. g = [regs |-> f.regs, known |-> f.known, res |-> f.res, spans |-> g.spans, digests |-> f.digests]
    BY <1>3, <1>4, SpansKept
  <2> QED
    BY <2>1
<1>6. \A d \in DOMAIN g.digests : SealOf(f, out, out, g.digests[d].pos)
  BY <1>5 DEF SealOf
<1>7. FramesHold(out', pframes')
  BY <1>1, <1>2, <1>3, <1>4, <1>5, <1>6, ExtendsSame, FramesTopKept DEF SInv
<1>8. Held(g) \subseteq Held(Last(pframes))
  BY <1>2, <1>5 DEF Held
<1> QED
  BY <1>1, <1>3, <1>7, <1>8, PassesHolds

LEMMA PutDigestHolds == ASSUME Grounds, PInv, SInv, PutDigest PROVE SInv'
<1>1. pctl # <<>> /\ pack.k = "struct" /\ pctl' = PPassed
  BY DEF PutDigest, PAtField, PInStruct
<1>2. PICK f : f = Last(pframes)
  OBVIOUS
<1>3. PICK h : h = PSetSpan(f, PFieldOp.span, Len(out), Len(out) + ChecksumWidth)
  OBVIOUS
<1>4. PICK g : /\ g = [h EXCEPT !.digests = Append(@, [at |-> PNextAddr, pos |-> Len(out)])]
               /\ pframes' = SetTop(pframes, g)
  BY <1>2, <1>3 DEF PutDigest
<1>5. /\ FrameOk(f, Len(out)) /\ pframes # <<>> /\ out \in Seq(Byte) /\ Stack(pframes) /\ Len(out) \in Nat
  BY <1>1, <1>2, TopFacts DEF PInv, FramesOk
<1>6. PICK S : h = [regs |-> f.regs, known |-> f.known, res |-> f.res, spans |-> S, digests |-> f.digests]
  <2>1. h = [regs |-> f.regs, known |-> f.known, res |-> f.res, spans |-> h.spans, digests |-> f.digests]
    BY <1>3, <1>5, SpansKept
  <2> QED
    BY <2>1, Zenon
<1>7. PICK D : g = [h EXCEPT !.digests = D] /\ D = Append(f.digests, [at |-> PNextAddr, pos |-> Len(out)])
  BY <1>4, <1>6
<1>8. g = [regs |-> f.regs, known |-> f.known, res |-> f.res, spans |-> S, digests |-> D]
  BY <1>6, <1>7
<1>9. g.res = f.res /\ g.known = f.known /\ g.regs = f.regs /\ g.digests = D
  BY <1>8
<1>10. PICK x : x = Zeros(ChecksumWidth) /\ x \in Seq(Byte) /\ Len(x) = ChecksumWidth
  <2>1. ChecksumWidth \in Nat
    BY DEF ChecksumWidth
  <2> QED
    BY <2>1, ZerosType DEF Grounds
<1>11. out' = out \o x /\ out' \in Seq(Byte) /\ Len(out') = Len(out) + ChecksumWidth
  BY <1>5, <1>10, ConcatBytes DEF PutDigest
<1>12. Extends(out, out')
  BY <1>5, <1>10, <1>11, ExtendsAppend
<1>13. ASSUME NEW d \in DOMAIN g.digests PROVE SealOf(f, out, out', g.digests[d].pos)
  <2>1. PICK n \in Nat : /\ DOMAIN f.digests = 1 .. n /\ DOMAIN D = 1 .. (n + 1)
                         /\ D[n + 1] = [at |-> PNextAddr, pos |-> Len(out)]
                         /\ \A i \in 1 .. n : D[i] = f.digests[i]
    <3>1. Stack(f.digests)
      BY <1>5, IsStack DEF FrameOk
    <3>2. PICK n \in Nat : n = Len(f.digests)
      BY <3>1, StackPush
    <3>3. PICK y : y = [at |-> PNextAddr, pos |-> Len(out)] /\ D = Append(f.digests, y)
      BY <1>7
    <3>4. /\ DOMAIN f.digests = 1 .. n /\ DOMAIN D = 1 .. (n + 1) /\ D[n + 1] = y
          /\ \A i \in 1 .. n : D[i] = f.digests[i]
      BY <3>1, <3>2, <3>3, StackPush
    <3> QED
      BY <3>3, <3>4
  <2>2. CASE d \in 1 .. n
    BY <1>9, <2>1, <2>2 DEF SealOf
  <2>3. CASE d = n + 1
    <3>1. g.digests[d].pos = Len(out)
      BY <1>9, <2>1, <2>3
    <3>2. NewSeal(out, out', Len(out))
      BY <1>5, <1>11 DEF NewSeal, DigestIn, ChecksumWidth
    <3> QED
      BY <3>1, <3>2 DEF SealOf
  <2> QED
    BY <1>9, <2>1, <2>2, <2>3
<1>14. FramesHold(out', pframes')
  BY <1>2, <1>4, <1>5, <1>9, <1>11, <1>12, <1>13, FramesTopKept DEF SInv
<1>15. Held(g) \subseteq Held(Last(pframes))
  BY <1>2, <1>9 DEF Held
<1> QED
  BY <1>1, <1>4, <1>14, <1>15, PassesHolds

(***************************************************************************)
(* Runs of fields.                                                         *)
(***************************************************************************)
\* The registers of the field at hand are free.
LEMMA RegsFree ==
  ASSUME PInv, SInv, pctl # <<>>, pack.k = "struct", PMoreOps
  PROVE  RegsOf(PFieldOp) \cap Held(Last(pframes)) = {}
<1>1. PICK n \in Nat : n = Len(pctl) /\ n \in DOMAIN pctl /\ pack = pctl[n]
  <2>1. Len(pctl) \in Nat /\ Len(pctl) >= 1 /\ DOMAIN pctl = 1 .. Len(pctl) /\ pack = pctl[Len(pctl)]
    BY StackPop DEF PInv, CtlOk, pack
  <2> QED
    BY <2>1
<1>2. Last(pframes) = pframes[Depth(pctl, n)]
  <2>1. pframes # <<>>
    BY TopFacts
  <2> QED
    BY <1>1, <2>1, StackPop DEF PInv, FramesOk
<1>3. Held(Last(pframes)) \subseteq Written(pack.id, pack.i)
  BY <1>1, <1>2 DEF SInv, RegsIn
<1>4. pack.id \in ProgId /\ pack.i \in Nat \ {0}
  <2>1. EntryOk(pack, Len(pframes), Len(out))
    BY TopFacts
  <2> QED
    BY <2>1 DEF EntryOk
<1>5. pack.i \in DOMAIN Prog[pack.id]
  BY <1>4, ProgDomain DEF PMoreOps
<1>6. ASSUME NEW r \in Written(pack.id, pack.i), r \in RegsOf(PFieldOp) PROVE FALSE
  <2>1. PICK j \in DOMAIN Prog[pack.id] : j < pack.i /\ r \in RegsOf(Code[Prog[pack.id][j]])
    BY DEF Written
  <2>2. j # pack.i
    BY <1>4, <2>1, ProgDomain
  <2>3. RegsOf(Code[Prog[pack.id][j]]) \cap RegsOf(Code[Prog[pack.id][pack.i]]) = {}
    BY <1>4, <1>5, <2>2, EncoderAssumption
  <2> QED
    BY <1>6, <2>1, <2>3 DEF PFieldOp, PNextAddr
<1> QED
  BY <1>3, <1>6

\* The run at hand is written, and slots of its items reserved.
LEMMA RunHolds ==
  ASSUME PInv, SInv, pctl # <<>>, pack.k = "struct", PMoreOps, NEW items, NEW slots, NEW g,
         RegsOf(PFieldOp) = UNION {items[i].reg : i \in DOMAIN items}, Disjoint(items),
         \A i \in DOMAIN items : \A r, s \in items[i].reg : r = s,
         DOMAIN slots \subseteq DOMAIN items, out' \in Seq(Byte), Extends(out, out'),
         \A i \in DOMAIN slots : items[i].derived => Reserved(out, out', slots[i]),
         \A i, j \in DOMAIN slots : i # j => Apart(slots[i], slots[j]),
         RunTo(Last(pframes), g, items, slots), pframes' = SetTop(pframes, g), pctl' = PPassed
  PROVE  SInv'
<1>1. out \in Seq(Byte) /\ Stack(pframes) /\ pframes # <<>>
  BY TopFacts DEF PInv, FramesOk
<1>2. \A i \in DOMAIN slots : items[i].reg \cap Held(Last(pframes)) = {}
  BY RegsFree
<1>3. FramesHold(out', pframes')
  BY <1>1, <1>2, FramesRun DEF SInv
<1>4. Held(g) \subseteq Held(Last(pframes)) \cup RegsOf(PFieldOp)
  BY HeldRun
<1> QED
  BY <1>3, <1>4, PassesHolds

\* Consecutive items: each ends before the later ones.
LEMMA Consecutive ==
  ASSUME NEW n \in Nat, NEW a, NEW w, \A i \in 1 .. n : a[i] \in Nat /\ w[i] \in Nat,
         \A i \in 1 .. n : i # 1 => a[i] = a[i - 1] + w[i - 1]
  PROVE  \A i, j \in 1 .. n : i < j => a[i] + w[i] <= a[j]
<1> DEFINE S == {k \in Nat : \A i \in 1 .. n : i + (k + 1) <= n => a[i] + w[i] <= a[i + (k + 1)]}
<1>1. 0 \in S
  <2> SUFFICES ASSUME NEW i \in 1 .. n, i + 1 <= n PROVE a[i] + w[i] <= a[i + 1]
    OBVIOUS
  <2>1. PICK j \in 1 .. n : j = i + 1 /\ j # 1 /\ j - 1 = i
    OBVIOUS
  <2>2. a[j] = a[i] + w[i]
    BY <2>1
  <2> QED
    BY <2>1, <2>2
<1>2. ASSUME NEW k \in Nat, k \in S PROVE k + 1 \in S
  <2> SUFFICES ASSUME NEW i \in 1 .. n, i + (k + 2) <= n PROVE a[i] + w[i] <= a[i + (k + 2)]
    OBVIOUS
  <2>1. PICK j \in 1 .. n : j = i + (k + 1)
    OBVIOUS
  <2>2. a[i] + w[i] <= a[j]
    BY <1>2, <2>1
  <2>3. PICK l \in 1 .. n : l = i + (k + 2) /\ l # 1 /\ l - 1 = j
    BY <2>1
  <2>4. a[l] = a[j] + w[j]
    BY <2>3
  <2>5. a[i] \in Nat /\ w[i] \in Nat /\ a[j] \in Nat /\ w[j] \in Nat
    OBVIOUS
  <2> QED
    BY <2>2, <2>3, <2>4, <2>5
<1>3. Nat \subseteq S
  BY <1>1, <1>2, NatInductionOn
<1> SUFFICES ASSUME NEW i \in 1 .. n, NEW j \in 1 .. n, i < j PROVE a[i] + w[i] <= a[j]
  OBVIOUS
<1>4. PICK k \in Nat : i + (k + 1) = j
  <2>1. j - i - 1 \in Nat /\ i + ((j - i - 1) + 1) = j
    OBVIOUS
  <2> QED
    BY <2>1
<1>5. k \in S
  BY <1>3
<1> QED
  BY <1>4, <1>5

LEMMA LaidInOrder ==
  ASSUME NEW op, NEW ss, Laid(op, ss)
  PROVE  \A i, j \in DOMAIN op.items : i < j => op.items[i].off + ItemWidth(op.items[i]) <= op.items[j].off
<1>1. PICK n \in Nat : n = Len(op.items) /\ DOMAIN op.items = 1 .. n
  BY DEF Laid
<1> DEFINE a == [i \in 1 .. n |-> op.items[i].off]
           w == [i \in 1 .. n |-> ItemWidth(op.items[i])]
<1>2. \A i \in 1 .. n : a[i] \in Nat /\ w[i] \in Nat
  BY <1>1 DEF Laid
<1>3. ASSUME NEW i \in 1 .. n, i # 1 PROVE a[i] = a[i - 1] + w[i - 1]
  <2>1. i - 1 \in 1 .. n
    BY <1>3
  <2> QED
    BY <1>1, <1>3, <2>1 DEF Laid
<1>4. \A i, j \in 1 .. n : i < j => a[i] + w[i] <= a[j]
  <2> HIDE DEF a, w
  <2> QED
    BY <1>2, <1>3, Consecutive
<1> QED
  BY <1>1, <1>4

\* The slot of an integer that a run writes zeros for.
LEMMA IntReserved ==
  ASSUME PowerLaw, NEW o \in Seq(Byte), NEW op, NEW ss, Laid(op, ss), NEW i \in DOMAIN op.items,
         op.items[i].kind = "Int", ss[i] = Zeros(op.items[i].prim.w), NEW bytes, bytes = FlattenSeq(ss),
         bytes \in Seq(Byte), NEW slot,
         slot = [kind |-> "Int", pos |-> Len(o) + op.items[i].off, prim |-> op.items[i].prim, be |-> op.items[i].be]
  PROVE  Reserved(o, o \o bytes, slot)
<1>1. PICK n \in Nat : n = Len(op.items) /\ DOMAIN op.items = 1 .. n /\ ss \in Seq(Seq(Byte)) /\ Len(ss) = n
  BY DEF Laid
<1>2. PICK a \in Nat, w \in Nat \ {0} : /\ a = op.items[i].off /\ w = op.items[i].prim.w
                                        /\ w = ItemWidth(op.items[i]) /\ Len(ss[i]) = w
  BY <1>1 DEF Laid, ItemOk, ItemWidth
<1>3. op.items[i].prim.signed \in BOOLEAN /\ op.items[i].be \in BOOLEAN
  BY <1>1 DEF Laid, ItemOk
<1>4. ss # <<>>
  BY <1>1
<1>5. PICK ends : ends = EndsOf(op) /\ ends[i] = a + w
  <2>1. EndsOf(op)[i] = a + w
    BY <1>1, <1>2 DEF EndsOf
  <2> QED
    BY <2>1
<1>6. PartIn(bytes, ss, ends, i)
  <2>1. Holds(bytes, ss, ends, n)
    BY <1>1, <1>4, <1>5, PartsHeld DEF Laid
  <2> QED
    BY <1>1, <2>1 DEF Holds
<1>7. Slice(bytes, a, a + w) = Zeros(w) /\ a + w <= Len(bytes)
  <2>1. (a + w) - w = a
    BY <1>2
  <2>2. Slice(bytes, ends[i] - Len(ss[i]), ends[i]) = ss[i] /\ ends[i] <= Len(bytes)
    BY <1>6 DEF PartIn
  <2> QED
    BY <1>2, <1>5, <2>1, <2>2
<1>8. PICK m \in Nat, p \in Nat : m = Len(o) /\ p = m + a
  BY <1>2
<1>9. /\ slot.kind = "Int" /\ slot.pos = p /\ slot.prim = op.items[i].prim /\ slot.prim.w = w
      /\ slot.be = op.items[i].be
  BY <1>2, <1>8
<1>10. SlotEnd(slot) = p + w /\ p + w = m + (a + w) /\ a + w \in Nat /\ a <= a + w
  <2>1. SlotEnd(slot) = p + w
    BY <1>9 DEF SlotEnd
  <2>2. p = m + a
    BY <1>8
  <2> QED
    BY <2>1, <2>2
<1>11. PICK o2 \in Seq(Byte) : o2 = o \o bytes /\ Len(o2) = m + Len(bytes)
  BY <1>8, ConcatBytes
<1>12. SlotFormed(slot, Len(o2))
  <2>1. Len(bytes) \in Nat
    OBVIOUS
  <2>2. p + w <= Len(o2)
    BY <1>2, <1>7, <1>8, <1>11, <2>1
  <2> QED
    BY <1>3, <1>8, <1>9, <1>10, <2>2 DEF SlotFormed, SlotOk
<1>13. SlotRaw(o2, slot) = Zeros(w)
  <2>1. Slice(o2, m + a, m + (a + w)) = Slice(bytes, a, a + w)
    <3>1. PICK e \in Nat : e = a + w /\ a <= e /\ e <= Len(bytes)
      BY <1>7, <1>10
    <3>2. Slice(o \o bytes, Len(o) + a, Len(o) + e) = Slice(bytes, a, e)
      BY <1>2, <3>1, SliceOfAppended
    <3> QED
      BY <1>8, <1>11, <3>1, <3>2
  <2> QED
    BY <1>7, <1>8, <1>9, <1>10, <2>1 DEF SlotRaw
<1>14. SlotValue(o2, slot) = 0
  <2>1. ReadInt(Zeros(slot.prim.w), slot.prim, slot.be) = 0
    BY <1>2, <1>3, <1>9, ZeroInt
  <2> QED
    BY <1>9, <1>13, <2>1 DEF SlotValue
<1>15. m <= p
  BY <1>2, <1>8
<1> QED
  BY <1>8, <1>9, <1>11, <1>12, <1>14, <1>15 DEF Reserved

LEMMA PutFixedHolds == ASSUME Grounds, PInv, SInv, PutFixed PROVE SInv'
<1> DEFINE items == PFieldOp.items
           in(item) == Given(pack.given, item.key)
           ins == [i \in DOMAIN items |-> in(items[i])]
           faults == [i \in DOMAIN items |-> PackFault(items[i], in(items[i]))]
           ints == {i \in DOMAIN items : items[i].kind = "Int"}
           numbers == [i \in ints |-> ItemNumber(items[i], in(items[i]))]
           slots == [i \in ints |-> [kind |-> "Int", pos |-> Len(out) + items[i].off,
                                     prim |-> items[i].prim, be |-> items[i].be]]
           bytes == FlattenSeq([i \in DOMAIN items |-> PackItem(items[i], in(items[i]))])
<1>1. /\ pctl # <<>> /\ pack.k = "struct" /\ Mapping(pack.given) /\ PMoreOps
      /\ PFieldOp.op = "Fixed" /\ OpOk(PFieldOp) /\ EncodesOk(PFieldOp)
  BY AtFieldFacts DEF PutFixed, PFieldOp, PAtField
<1>2. CASE FirstFault(faults)
  BY <1>2, FirstFaultHolds
<1>3. CASE /\ NoFault(faults)
           /\ out' = out \o bytes
           /\ pframes' = SetTop(pframes, SpanItems(RunFrame(Last(pframes), items, numbers, slots), items))
           /\ pctl' = PPassed
  <2>1. ASSUME NEW i \in DOMAIN items PROVE Vals(ins[i]) /\ PackFault(items[i], ins[i]) = "Ok"
    <3>1. faults[i] = "Ok"
      BY <1>3 DEF NoFault
    <3> QED
      BY <1>1, <3>1, GivenVals
  <2>2. PartsOf(PFieldOp, ins) = [i \in DOMAIN items |-> PackItem(items[i], in(items[i]))]
    BY DEF PartsOf
  <2>3. PICK ss : ss = PartsOf(PFieldOp, ins) /\ bytes = FlattenSeq(ss)
    BY <2>2
  <2>4. ASSUME NEW i \in DOMAIN slots, items[i].derived
        PROVE  i \in DOMAIN items /\ items[i].kind = "Int" /\ ss[i] = Zeros(items[i].prim.w)
    BY <2>2, <2>3, <2>4 DEF PackItem
  <2> HIDE DEF ins, bytes
  <2>5. Laid(PFieldOp, ss)
    BY <1>1, <2>1, <2>3, RunParts DEF Grounds
  <2>6. bytes \in Seq(Byte)
    BY <1>1, <2>1, <2>3, RunBytes DEF Grounds, PartsOf
  <2>7. out \in Seq(Byte) /\ FrameOk(Last(pframes), Len(out)) /\ Len(out) \in Nat
    BY <1>1, TopFacts DEF PInv
  <2>8. out' \in Seq(Byte) /\ Extends(out, out')
    BY <1>3, <2>6, <2>7, ConcatBytes, ExtendsAppend
  <2>9. ASSUME NEW i \in DOMAIN slots, items[i].derived PROVE Reserved(out, out', slots[i])
    <3>1. slots[i] = [kind |-> "Int", pos |-> Len(out) + items[i].off, prim |-> items[i].prim, be |-> items[i].be]
      OBVIOUS
    <3> HIDE DEF slots
    <3> QED
      BY <1>3, <2>3, <2>4, <2>5, <2>6, <2>7, <2>9, <3>1, IntReserved DEF Grounds
  <2>10. ASSUME NEW i \in DOMAIN slots, NEW j \in DOMAIN slots, i < j PROVE Apart(slots[i], slots[j])
    <3>1. PICK s, t : s = slots[i] /\ t = slots[j]
      OBVIOUS
    <3>2. /\ s.kind = "Int" /\ s.pos = Len(out) + items[i].off /\ s.prim = items[i].prim
          /\ t.pos = Len(out) + items[j].off
          /\ i \in DOMAIN items /\ j \in DOMAIN items /\ items[i].kind = "Int"
      BY <3>1
    <3> HIDE DEF slots
    <3>3. PICK a \in Nat, w \in Nat, b \in Nat :
            /\ a = items[i].off /\ w = ItemWidth(items[i]) /\ b = items[j].off /\ a + w <= b
      <4>1. items[i].off + ItemWidth(items[i]) <= items[j].off
        BY <2>5, <2>10, <3>2, LaidInOrder
      <4> QED
        BY <2>5, <3>2, <4>1 DEF Laid
    <3>4. SlotEnd(s) = (Len(out) + a) + w
      BY <3>2, <3>3 DEF SlotEnd, ItemWidth
    <3>5. SlotEnd(s) <= t.pos
      BY <2>7, <3>2, <3>3, <3>4
    <3> QED
      BY <3>1, <3>5 DEF Apart, BytesApart
  <2>11. ASSUME NEW i \in DOMAIN slots, NEW j \in DOMAIN slots, i # j PROVE Apart(slots[i], slots[j])
    <3>1. i \in Nat /\ j \in Nat
      BY <2>5 DEF Laid
    <3> HIDE DEF slots
    <3>2. i < j \/ j < i
      BY <2>11, <3>1
    <3> QED
      BY <2>10, <3>2, ApartSym
  <2>12. DOMAIN slots \subseteq DOMAIN items /\ Disjoint(items)
    BY <1>1 DEF OpOk, FixedOk
  <2>13. /\ RegsOf(PFieldOp) = UNION {items[i].reg : i \in DOMAIN items}
         /\ \A i \in DOMAIN items : \A r, s \in items[i].reg : r = s
    BY <1>1 DEF RegsOf, EncodesOk
  <2> HIDE DEF slots, numbers, items
  <2>14. PICK h : h = RunFrame(Last(pframes), items, numbers, slots)
    OBVIOUS
  <2>15. RunTo(Last(pframes), h, items, slots)
    BY <2>7, <2>12, <2>14, RunFrameTo
  <2>16. PICK g : g = SpanItems(h, items)
    OBVIOUS
  <2>17. g.digests = h.digests /\ g.known = h.known /\ g.regs = h.regs /\ g.res = h.res
    <3>1. PICK S : g = [h EXCEPT !.spans = S]
      BY <2>16 DEF SpanItems
    <3>2. PICK R0, K0, S0, P0, D0 : h = [regs |-> R0, known |-> K0, res |-> S0, spans |-> P0, digests |-> D0]
      BY <2>7, <2>14, RunFrameIs
    <3>3. g = [regs |-> R0, known |-> K0, res |-> S0, spans |-> S, digests |-> D0]
      BY <3>1, <3>2
    <3> QED
      BY <3>2, <3>3
  <2>18. RunTo(Last(pframes), g, items, slots)
    BY <2>15, <2>17 DEF RunTo
  <2>19. pframes' = SetTop(pframes, g) /\ pctl' = PPassed
    BY <1>3, <2>14, <2>16
  <2> QED
    BY <1>1, <2>8, <2>9, <2>11, <2>12, <2>13, <2>18, <2>19, RunHolds
<1> QED
  BY <1>2, <1>3 DEF PutFixed

LEMMA ReadZeroBits ==
  ASSUME PowerLaw, NEW raw, NEW off, NEW width \in Nat \ {0}, NEW signed, Bits(raw, off, width) = 0
  PROVE  ReadBits(raw, off, width, signed) = 0
<1>1. width - 1 \in Nat
  OBVIOUS
<1>2. PICK H \in Pos : H = 2 ^ (width - 1)
  BY <1>1, PowerPos
<1>3. ~(0 >= H)
  BY <1>2 DEF Pos
<1>4. SignExtend(0, width) = 0
  BY <1>2, <1>3 DEF SignExtend
<1> QED
  BY <1>4, ReadBitsIs

\* The slot of bits that a run writes zero for.
LEMMA BitsReserved ==
  ASSUME PowerLaw, NEW o \in Seq(Byte), NEW x \in Seq(Byte), NEW item, BitItemOk(item, Len(x)),
         Bits(x, item.off, item.width) = 0, NEW slot,
         slot = [kind |-> "Bits", pos |-> Len(o), off |-> item.off, width |-> item.width, signed |-> item.signed]
  PROVE  Reserved(o, o \o x, slot)
<1>1. PICK off \in Nat, width \in Nat \ {0} :
        off = item.off /\ width = item.width /\ off + width <= Len(x) * ByteBits
  BY DEF BitItemOk
<1>2. slot.kind = "Bits" /\ slot.pos = Len(o) /\ slot.off = off /\ slot.width = width /\ slot.signed = item.signed
  BY <1>1
<1>3. PICK m \in Nat, n \in Nat : m = Len(o) /\ n = Len(x)
  OBVIOUS
<1>4. PICK q \in Nat : q = (off + width + ByteBits - 1) \div ByteBits /\ q <= n /\ off + width <= q * ByteBits
  <2>1. PICK y \in Nat : y = off + width /\ y <= n * ByteBits
    BY <1>1, <1>3
  <2>2. /\ (y + ByteBits - 1) \div ByteBits \in Nat /\ (y + ByteBits - 1) \div ByteBits <= n
        /\ y <= ((y + ByteBits - 1) \div ByteBits) * ByteBits
    BY <1>3, <2>1, RoundUp
  <2> QED
    BY <2>1, <2>2
<1>5. SlotEnd(slot) = m + q
  BY <1>2, <1>3, <1>4 DEF SlotEnd
<1>6. PICK o2 \in Seq(Byte) : o2 = o \o x /\ Len(o2) = m + n
  BY <1>3, ConcatBytes
<1>7. SlotFormed(slot, Len(o2))
  <2>1. m + q <= Len(o2)
    BY <1>3, <1>4, <1>6
  <2>2. width \in 1 .. WordBits /\ item.signed \in BOOLEAN
    BY <1>1 DEF BitItemOk
  <2> QED
    BY <1>1, <1>2, <1>3, <1>5, <2>1, <2>2 DEF SlotFormed, SlotOk
<1>8. Bits(SlotRaw(o2, slot), off, width) = 0
  <2>1. Bits(o2, SlotAt(slot), width) = Bits(SlotRaw(o2, slot), off, width)
    BY <1>2, <1>7, SlotBits
  <2>2. PICK c \in Seq(Byte) : o2 = o \o (x \o c)
    <3>1. o2 = o \o (x \o <<>>) /\ <<>> \in Seq(Byte)
      BY <1>6
    <3> QED
      BY <3>1, Zenon
  <2>3. Fits(x, off, width) /\ width \in Nat
    BY <1>1 DEF Fits
  <2>4. Bits(o \o (x \o c), BitPos(Len(o)) + off, width) = Bits(x, off, width)
    BY <1>1, <2>2, <2>3, BitsInside
  <2> QED
    BY <1>1, <1>2, <2>1, <2>2, <2>4 DEF SlotAt
<1>11. SlotValue(o2, slot) = 0
  BY <1>1, <1>2, <1>8, ReadZeroBits DEF SlotValue
<1> QED
  BY <1>2, <1>3, <1>6, <1>7, <1>11 DEF Reserved

\* Fields of a run that lie one after the other have slots apart.
LEMMA BitsApart ==
  ASSUME NEW p \in Nat, NEW items, NEW nbytes, InRow(items, nbytes), NEW i \in DOMAIN items, NEW j \in DOMAIN items, i < j,
         NEW s, NEW t,
         s = [kind |-> "Bits", pos |-> p, off |-> items[i].off, width |-> items[i].width, signed |-> items[i].signed],
         t = [kind |-> "Bits", pos |-> p, off |-> items[j].off, width |-> items[j].width, signed |-> items[j].signed]
  PROVE  Apart(s, t)
<1>1. BitItemOk(items[i], nbytes) /\ BitItemOk(items[j], nbytes) /\ items[i].off + items[i].width <= items[j].off
  BY DEF InRow
<1>2. PICK a \in Nat, w \in Nat, b \in Nat : a = items[i].off /\ w = items[i].width /\ b = items[j].off /\ a + w <= b
  BY <1>1, WireAssumption DEF BitItemOk
<1>3. PICK q \in Nat : q = BitPos(p)
  BY BitPosType
<1>4. /\ s.kind = "Bits" /\ t.kind = "Bits" /\ s.pos = p /\ t.pos = p
      /\ s.off = a /\ s.width = w /\ t.off = b
  BY <1>2
<1>5. SlotAt(s) = q + a /\ SlotAt(t) = q + b /\ (q + a) + w <= q + b
  BY <1>2, <1>3, <1>4 DEF SlotAt
<1> QED
  BY <1>4, <1>5 DEF Apart, Beside

LEMMA PutBitsHolds == ASSUME Grounds, PInv, SInv, PutBits PROVE SInv'
<1> DEFINE items == PFieldOp.items
           in(item) == Given(pack.given, item.key)
           faults == [i \in DOMAIN items |-> BitFault(items[i], in(items[i]))]
           numbers == [i \in DOMAIN items |-> BitNumber(items[i], in(items[i]))]
           slots == [i \in DOMAIN items |-> [kind |-> "Bits", pos |-> Len(out), off |-> items[i].off,
                                             width |-> items[i].width, signed |-> items[i].signed]]
           nbytes == PFieldOp.nbytes
           bytes == PackBits(nbytes, items, numbers)
<1>1. /\ pctl # <<>> /\ pack.k = "struct" /\ Mapping(pack.given) /\ PMoreOps
      /\ PFieldOp.op = "BitRun" /\ OpOk(PFieldOp) /\ EncodesOk(PFieldOp)
  BY AtFieldFacts DEF PutBits, PFieldOp, PAtField
<1>2. CASE FirstFault(faults)
  BY <1>2, FirstFaultHolds
<1>3. CASE /\ NoFault(faults)
           /\ out' = out \o bytes
           /\ pframes' = SetTop(pframes, RunFrame(Last(pframes), items, numbers, slots))
           /\ pctl' = PPassed
  <2>1. ASSUME NEW i \in DOMAIN items PROVE numbers[i] \in Int /\ (items[i].derived => numbers[i] = 0)
    <3>1. faults[i] = "Ok" /\ numbers[i] = BitNumber(items[i], in(items[i]))
      BY <1>3 DEF NoFault
    <3>2. Vals(in(items[i]))
      BY <1>1, GivenVals
    <3>3. items[i].derived => numbers[i] = 0
      BY <3>1 DEF BitNumber
    <3> QED
      BY <3>1, <3>2, <3>3, BitNumberType
  <2>2. /\ nbytes \in Nat /\ Disjoint(items) /\ Stack(items) /\ InRow(items, nbytes)
    BY <1>1, IsStack DEF OpOk, EncodesOk, InRow
  <2> HIDE DEF numbers
  <2>3. PICK x : x = bytes /\ RunAt(x, nbytes, items, numbers, Len(items))
    BY <2>1, <2>2, PackBitsZero DEF Grounds
  <2> HIDE DEF bytes
  <2>4. x \in Seq(Byte) /\ Len(x) = nbytes
    BY <2>3 DEF RunAt
  <2>5. out \in Seq(Byte) /\ FrameOk(Last(pframes), Len(out)) /\ Len(out) \in Nat
    BY <1>1, TopFacts DEF PInv
  <2>6. out' = out \o x /\ out' \in Seq(Byte) /\ Extends(out, out')
    BY <1>3, <2>3, <2>4, <2>5, ConcatBytes, ExtendsAppend
  <2>7. ASSUME NEW i \in DOMAIN slots
        PROVE  /\ i \in DOMAIN items
               /\ slots[i] = [kind |-> "Bits", pos |-> Len(out), off |-> items[i].off,
                              width |-> items[i].width, signed |-> items[i].signed]
    OBVIOUS
  <2>8. DOMAIN slots \subseteq DOMAIN items
    OBVIOUS
  <2>9. /\ RegsOf(PFieldOp) = UNION {items[i].reg : i \in DOMAIN items}
        /\ \A i \in DOMAIN items : \A r, s \in items[i].reg : r = s
    BY <1>1 DEF RegsOf, EncodesOk
  <2> HIDE DEF slots, items
  <2>10. ASSUME NEW i \in DOMAIN slots, items[i].derived PROVE Reserved(out, out', slots[i])
    <3>1. BitItemOk(items[i], Len(x))
      BY <2>2, <2>4, <2>7 DEF InRow
    <3>2. Bits(x, items[i].off, items[i].width) = 0
      <4>1. numbers[i] = 0
        BY <2>1, <2>7, <2>10
      <4> QED
        BY <2>3, <2>7, <4>1 DEF RunAt
    <3> QED
      BY <2>4, <2>5, <2>6, <2>7, <3>1, <3>2, BitsReserved DEF Grounds
  <2>11. ASSUME NEW i \in DOMAIN slots, NEW j \in DOMAIN slots, i < j PROVE Apart(slots[i], slots[j])
    BY <2>2, <2>5, <2>7, <2>11, BitsApart
  <2>12. ASSUME NEW i \in DOMAIN slots, NEW j \in DOMAIN slots, i # j PROVE Apart(slots[i], slots[j])
    <3>1. i \in Nat /\ j \in Nat
      BY <2>2, <2>8 DEF Stack
    <3>2. i < j \/ j < i
      BY <2>12, <3>1
    <3> QED
      BY <2>11, <3>2, ApartSym
  <2>13. PICK g : g = RunFrame(Last(pframes), items, numbers, slots)
    OBVIOUS
  <2>14. RunTo(Last(pframes), g, items, slots)
    BY <2>2, <2>5, <2>8, <2>13, RunFrameTo
  <2>15. pframes' = SetTop(pframes, g) /\ pctl' = PPassed
    BY <1>3, <2>13
  <2> QED
    BY <1>1, <2>2, <2>6, <2>8, <2>9, <2>10, <2>12, <2>14, <2>15, RunHolds
<1> QED
  BY <1>2, <1>3 DEF PutBits

(***************************************************************************)
(* The theorem.                                                            *)
(***************************************************************************)
LEMMA StepHolds == ASSUME Grounds, PInv, SInv, [PackStep \/ PackReturned]_pvars PROVE SInv'
<1>1. CASE PackCall
  BY <1>1, EnterScopeHolds DEF PackCall
<1>2. CASE PutField
  BY <1>2, PutFixedHolds, PutBitsHolds, PutDigestHolds, PutCondHolds, PutOtherHolds, PutDoneHolds DEF PutField
<1>3. CASE PutValue
  <2>1. CASE PackNest
    BY <2>1, EnterScopeHolds DEF PackNest
  <2> QED
    BY <1>3, <2>1, ValueAppends, AppendsHolds, PackArrayHolds, PackSwitchHolds DEF PutValue
<1>4. CASE PutArray
  BY <1>4, PutElemHolds, PutElemDoneHolds, PutArrayEndHolds DEF PutArray
<1>5. CASE LeaveScope
  BY <1>5, LeaveScopeHolds
<1>6. CASE UNCHANGED pvars
  BY <1>6 DEF pvars, SInv
<1> QED
  BY <1>1, <1>2, <1>3, <1>4, <1>5, <1>6 DEF PackStep, PackReturned

LEMMA InitHolds == ASSUME PackInit PROVE SInv
<1>1. pctl = <<>> /\ pframes = <<>>
  BY DEF PackInit, PackIdle
<1> QED
  BY <1>1, EmptyHolds DEF SInv

LEMMA SlotsFollow == ASSUME SInv PROVE SlotsHold
<1> SUFFICES ASSUME NEW p \in Resvs, NEW v \in pframes[p[1]].res[p[2]]
             PROVE  /\ SlotEnd(v.slot) <= Len(out)
                    /\ SlotValue(out, v.slot) = (IF v.value = {} THEN 0 ELSE CHOOSE x \in v.value : TRUE)
                    /\ v.value # {} <=> p[2] \in pframes[p[1]].known
                    /\ v.value # {} => v.value = {pframes[p[1]].regs[p[2]]}
  BY DEF SlotsHold
<1>1. p[1] \in DOMAIN pframes /\ p[2] \in Regs
  BY DEF Resvs
<1>2. ResvOk(out, pframes[p[1]], p[2], v)
  BY <1>1 DEF SInv, FramesHold, SlotsRight
<1> QED
  BY <1>2 DEF ResvOk, SlotFormed, SlotOk, Wanted

\* A reserved field of pack.rs reads as zero until apply_inv patches it and as
\* the register's value from then on: no field, patch or digest written later
\* disturbs it, for every program, value and nesting.
THEOREM SlotsStay == ASSUME Wellformed PROVE PackSpec => []SlotsHold
<1>1. Grounds
  BY GroundsHold
<1>2. PackInit => PInv /\ SInv
  BY PackInitOk, InitHolds
<1>3. PInv /\ SInv /\ [PackStep \/ PackReturned]_pvars => PInv' /\ SInv'
  BY <1>1, PackStepOk, StepHolds
<1>4. SInv => SlotsHold
  BY SlotsFollow
<1> QED
  BY <1>2, <1>3, <1>4, PTL DEF PackSpec
=============================================================================
