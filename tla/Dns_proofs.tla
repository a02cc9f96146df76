----------------------------- MODULE Dns_proofs ------------------------------
(***************************************************************************)
(* Two facts about names in DNS messages, for every message and every size *)
(* of octet.                                                               *)
(*                                                                         *)
(* The compression table is right however the message goes on: Steady says *)
(* that every offset in it spells its suffix in every message that begins  *)
(* with what is written so far.  That is what makes it inductive, for a    *)
(* suffix is entered before all of it is written, and what is written may  *)
(* be a pointer to another one.  The octet of a record's length is written *)
(* twice; until then the table is steady whatever that octet holds.        *)
(*                                                                         *)
(* What decode_name accepts encode_labels accepts: the labels read so far  *)
(* obey the limits of both, and splitting what was joined restores them.   *)
(***************************************************************************)
EXTENDS Dns, Stacks

Octets == Seq(Nat)
Labels == Seq(Octets)
Tables == UNION {[D -> Nat] : D \in SUBSET Labels}

LEMMA Sizes ==
  /\ 2 ^ LenBits \in Nat \ {0} /\ Octet = 4 * 2 ^ LenBits /\ Octet \in Nat \ {0}
  /\ MAX_LABEL \in Nat /\ POINTER_LIMIT \in Nat
  /\ MAX_LABEL < 2 ^ LenBits /\ MAX_LABEL < 3 * 2 ^ LenBits
<1>1. PICK n \in Nat \ {0} : n = 2 ^ LenBits
  BY DnsAssumption
<1>2. Octet = 4 * n /\ MAX_LABEL = n - 1 /\ POINTER_LIMIT = n * Octet - 1
  BY <1>1, DnsAssumption DEF MAX_LABEL, POINTER_LIMIT
<1>3. n * (4 * n) \in Nat \ {0}
  OBVIOUS
<1> QED
  BY <1>1, <1>2, <1>3

(***************************************************************************)
(* The loops.                                                              *)
(***************************************************************************)
\* A loop whose steps stay in T stays in T.
LEMMA LoopStays ==
  ASSUME NEW n \in Nat, NEW T, NEW f, f[0] \in T,
         \A k \in 1 .. n : f[k - 1] \in T => f[k] \in T
  PROVE  \A k \in 0 .. n : f[k] \in T
<1> DEFINE S == [k \in 0 .. n |-> T]
<1>1. \A k \in 1 .. n : k - 1 \in 0 .. n /\ k \in 0 .. n
  OBVIOUS
<1>2. f[0] \in S[0] /\ \A k \in 1 .. n : f[k - 1] \in S[k - 1] => f[k] \in S[k]
  BY <1>1
<1> HIDE DEF S
<1>3. \A k \in 0 .. n : f[k] \in S[k]
  BY <1>2, IterStays
<1> QED
  BY <1>3 DEF S

LEMMA DotIs == Dot \in Nat
  BY DnsAssumption, Sizes

\* An octet goes to the last label or begins the next.
LEMMA PutType ==
  ASSUME NEW x \in Labels \ {<<>>}, NEW c \in Nat
  PROVE  Put(x, c) \in Labels \ {<<>>}
<1>1. CASE c = Dot
  <2>1. Put(x, c) = Append(x, <<>>) /\ <<>> \in Octets
    BY <1>1 DEF Put, Octets
  <2>2. x \in Seq(Octets)
    BY DEF Labels
  <2> QED
    BY <2>1, <2>2, AppendProperties DEF Labels
<1>2. CASE c # Dot
  <2>1. Put(x, c) = Topped(x, Append(x[Len(x)], c))
    BY <1>2 DEF Put, Topped
  <2>2. Stack(x) /\ x # <<>>
    BY IsStack DEF Labels
  <2>3. Len(x) \in Nat \ {0} /\ x[Len(x)] \in Octets
    BY <2>2, StackPop DEF Labels
  <2>4. Append(x[Len(x)], c) \in Octets
    BY <2>3 DEF Octets
  <2>5. Topped(x, Append(x[Len(x)], c)) \in Labels
    BY <2>3, <2>4, ExceptSeq DEF Topped, Labels
  <2> QED
    BY <2>1, <2>2, <2>5, StackUpdate
<1> QED
  BY <1>1, <1>2

\* The length of a name on the wire, label by label (encode_labels).
LEMMA WireLenRuns ==
  ASSUME NEW labels \in Labels
  PROVE  \E u : /\ u[0] = 1
                /\ \A k \in 1 .. Len(labels) : u[k] = u[k - 1] + (Len(labels[k]) + 1)
                /\ \A k \in 0 .. Len(labels) : u[k] \in Int
                /\ WireLen(labels) = u[Len(labels)]
<1> DEFINE n == Len(labels)
           S == Int
           b == 1
           Step(k, x) == x + (Len(labels[k]) + 1)
           st == [p \in (1 .. n) \X S |-> Step(p[1], p[2])]
           Eq(g) == g = [k \in 0 .. n |-> IF k = 0 THEN b ELSE Step(k, g[k - 1])]
           f == CHOOSE g : Eq(g)
<1>1. n \in Nat /\ \A k \in 1 .. n : Len(labels[k]) \in Nat
  BY DEF Labels, Octets
<1>2. \A k \in 1 .. n : \A x \in S : Step(k, x) \in S
  BY <1>1
<1>3. b \in S
  OBVIOUS
<1>4. \A k \in 1 .. n : \A x \in S : st[<<k, x>>] = Step(k, x)
  OBVIOUS
<1>5. WireLen(labels) = f[n]
  BY DEF WireLen
<1>0. n \in Nat
  BY <1>1
<1> HIDE DEF st, n, Step, S, b
<1>6. PICK g : g \in [0 .. n -> S] /\ Iterates(g, st, b, n)
  <2>1. Steps(st, n, S)
    BY <1>2, <1>4 DEF Steps
  <2> QED
    BY <1>0, <1>3, <2>1, IterExists
<1>7. Eq(g)
  <2>1. \A k \in 0 .. n : g[k] = IF k = 0 THEN b ELSE Step(k, g[k - 1])
    <3> TAKE k \in 0 .. n
    <3>1. k = 0 \/ (k # 0 /\ k \in 1 .. n /\ k - 1 \in 0 .. n)
      BY <1>0
    <3> QED
      BY <1>4, <1>6, <3>1 DEF Iterates
  <2> QED
    BY <1>6, <2>1
<1>8. Eq(f)
  BY <1>7
<1> HIDE DEF f
<1>9. f[0] = b /\ \A k \in 1 .. n : f[k] = Step(k, f[k - 1])
  BY <1>0, <1>8
<1>10. \A k \in 0 .. n : f[k] \in S
  BY <1>0, <1>2, <1>3, <1>9, LoopStays
<1> QED
  BY <1>5, <1>9, <1>10 DEF n, Step, S, b

\* A name is joined label by label (decode_name).
LEMMA JoinRuns ==
  ASSUME NEW labels \in Labels
  PROVE  \E u : /\ u[0] = <<>>
                /\ \A k \in 1 .. Len(labels) : u[k] = IF k = 1 THEN labels[1] ELSE u[k - 1] \o (<<Dot>> \o labels[k])
                /\ \A k \in 0 .. Len(labels) : u[k] \in Octets
                /\ Join(labels) = u[Len(labels)]
<1> DEFINE n == Len(labels)
           S == Octets
           b == <<>>
           Step(k, x) == IF k = 1 THEN labels[1] ELSE x \o (<<Dot>> \o labels[k])
           st == [p \in (1 .. n) \X S |-> Step(p[1], p[2])]
           Eq(g) == g = [k \in 0 .. n |-> IF k = 0 THEN b ELSE Step(k, g[k - 1])]
           f == CHOOSE g : Eq(g)
<1>1. n \in Nat /\ Dot \in Nat /\ \A k \in 1 .. n : labels[k] \in Octets
  BY DotIs DEF Labels, Octets
<1>2. \A k \in 1 .. n : \A x \in S : Step(k, x) \in S
  BY <1>1 DEF Octets
<1>3. b \in S
  BY DEF Octets
<1>4. \A k \in 1 .. n : \A x \in S : st[<<k, x>>] = Step(k, x)
  OBVIOUS
<1>5. Join(labels) = f[n]
  BY DEF Join
<1>0. n \in Nat
  BY <1>1
<1> HIDE DEF st, n, Step, S, b
<1>6. PICK g : g \in [0 .. n -> S] /\ Iterates(g, st, b, n)
  <2>1. Steps(st, n, S)
    BY <1>2, <1>4 DEF Steps
  <2> QED
    BY <1>0, <1>3, <2>1, IterExists
<1>7. Eq(g)
  <2>1. \A k \in 0 .. n : g[k] = IF k = 0 THEN b ELSE Step(k, g[k - 1])
    <3> TAKE k \in 0 .. n
    <3>1. k = 0 \/ (k # 0 /\ k \in 1 .. n /\ k - 1 \in 0 .. n)
      BY <1>0
    <3> QED
      BY <1>4, <1>6, <3>1 DEF Iterates
  <2> QED
    BY <1>6, <2>1
<1>8. Eq(f)
  BY <1>7
<1> HIDE DEF f
<1>9. f[0] = b /\ \A k \in 1 .. n : f[k] = Step(k, f[k - 1])
  BY <1>0, <1>8
<1>10. \A k \in 0 .. n : f[k] \in S
  BY <1>0, <1>2, <1>3, <1>9, LoopStays
<1> QED
  BY <1>5, <1>9, <1>10 DEF n, Step, S, b

\* A text is split octet by octet (encode_labels).
LEMMA SplitRuns ==
  ASSUME NEW text \in Octets
  PROVE  \E u : /\ u[0] = << <<>> >>
                /\ \A k \in 1 .. Len(text) : u[k] = Put(u[k - 1], text[k])
                /\ \A k \in 0 .. Len(text) : u[k] \in (Labels \ {<<>>})
                /\ Split(text) = u[Len(text)]
<1> DEFINE n == Len(text)
           S == (Labels \ {<<>>})
           b == << <<>> >>
           Step(k, x) == Put(x, text[k])
           st == [p \in (1 .. n) \X S |-> Step(p[1], p[2])]
           Eq(g) == g = [k \in 0 .. n |-> IF k = 0 THEN b ELSE Step(k, g[k - 1])]
           f == CHOOSE g : Eq(g)
<1>1. n \in Nat /\ \A k \in 1 .. n : text[k] \in Nat
  BY DEF Octets
<1>2. \A k \in 1 .. n : \A x \in S : Step(k, x) \in S
  BY <1>1, PutType
<1>3. b \in S
  BY DEF Labels, Octets
<1>4. \A k \in 1 .. n : \A x \in S : st[<<k, x>>] = Step(k, x)
  OBVIOUS
<1>5. Split(text) = f[n]
  BY DEF Split
<1>0. n \in Nat
  BY <1>1
<1> HIDE DEF st, n, Step, S, b
<1>6. PICK g : g \in [0 .. n -> S] /\ Iterates(g, st, b, n)
  <2>1. Steps(st, n, S)
    BY <1>2, <1>4 DEF Steps
  <2> QED
    BY <1>0, <1>3, <2>1, IterExists
<1>7. Eq(g)
  <2>1. \A k \in 0 .. n : g[k] = IF k = 0 THEN b ELSE Step(k, g[k - 1])
    <3> TAKE k \in 0 .. n
    <3>1. k = 0 \/ (k # 0 /\ k \in 1 .. n /\ k - 1 \in 0 .. n)
      BY <1>0
    <3> QED
      BY <1>4, <1>6, <3>1 DEF Iterates
  <2> QED
    BY <1>6, <2>1
<1>8. Eq(f)
  BY <1>7
<1> HIDE DEF f
<1>9. f[0] = b /\ \A k \in 1 .. n : f[k] = Step(k, f[k - 1])
  BY <1>0, <1>8
<1>10. \A k \in 0 .. n : f[k] \in S
  BY <1>0, <1>2, <1>3, <1>9, LoopStays
<1> QED
  BY <1>5, <1>9, <1>10 DEF n, Step, S, b

\* Chunks are written one after the other (TXT.pack_into).
LEMMA ChunkedRuns ==
  ASSUME NEW strings \in Labels
  PROVE  \E u : /\ u[0] = <<>>
                /\ \A k \in 1 .. Len(strings) : u[k] = u[k - 1] \o (<<Len(strings[k])>> \o strings[k])
                /\ \A k \in 0 .. Len(strings) : u[k] \in Octets
                /\ Chunked(strings) = u[Len(strings)]
<1> DEFINE n == Len(strings)
           S == Octets
           b == <<>>
           Step(k, x) == x \o (<<Len(strings[k])>> \o strings[k])
           st == [p \in (1 .. n) \X S |-> Step(p[1], p[2])]
           Eq(g) == g = [k \in 0 .. n |-> IF k = 0 THEN b ELSE Step(k, g[k - 1])]
           f == CHOOSE g : Eq(g)
<1>1. n \in Nat /\ \A k \in 1 .. n : strings[k] \in Octets /\ Len(strings[k]) \in Nat
  BY DEF Labels, Octets
<1>2. \A k \in 1 .. n : \A x \in S : Step(k, x) \in S
  BY <1>1 DEF Octets
<1>3. b \in S
  BY DEF Octets
<1>4. \A k \in 1 .. n : \A x \in S : st[<<k, x>>] = Step(k, x)
  OBVIOUS
<1>5. Chunked(strings) = f[n]
  BY DEF Chunked
<1>0. n \in Nat
  BY <1>1
<1> HIDE DEF st, n, Step, S, b
<1>6. PICK g : g \in [0 .. n -> S] /\ Iterates(g, st, b, n)
  <2>1. Steps(st, n, S)
    BY <1>2, <1>4 DEF Steps
  <2> QED
    BY <1>0, <1>3, <2>1, IterExists
<1>7. Eq(g)
  <2>1. \A k \in 0 .. n : g[k] = IF k = 0 THEN b ELSE Step(k, g[k - 1])
    <3> TAKE k \in 0 .. n
    <3>1. k = 0 \/ (k # 0 /\ k \in 1 .. n /\ k - 1 \in 0 .. n)
      BY <1>0
    <3> QED
      BY <1>4, <1>6, <3>1 DEF Iterates
  <2> QED
    BY <1>6, <2>1
<1>8. Eq(f)
  BY <1>7
<1> HIDE DEF f
<1>9. f[0] = b /\ \A k \in 1 .. n : f[k] = Step(k, f[k - 1])
  BY <1>0, <1>8
<1>10. \A k \in 0 .. n : f[k] \in S
  BY <1>0, <1>2, <1>3, <1>9, LoopStays
<1> QED
  BY <1>5, <1>9, <1>10 DEF n, Step, S, b

(***************************************************************************)
(* Names in a message.  Offsets count from 0, positions in a sequence      *)
(* from 1.                                                                 *)
(***************************************************************************)
\* o goes on where p ends, and may differ from it at the positions H.
Starts(p, o) == Len(p) <= Len(o) /\ \A j \in 1 .. Len(p) : o[j] = p[j]
Begins(p, o, H) == Len(p) <= Len(o) /\ \A j \in 1 .. Len(p) : j \notin H => o[j] = p[j]

Within(H, p) == H \subseteq 1 .. Len(p)

LabelAt(o, p, label) ==
  /\ p + 1 + Len(label) <= Len(o)
  /\ o[p + 1] = Len(label)
  /\ \A j \in 1 .. Len(label) : o[p + 1 + j] = label[j]

\* Reading at p goes on at q: a pointer is there, or q is p itself.
PointerAt(o, p, q) ==
  p + 1 < Len(o) /\ o[p + 1] >= 3 * 2 ^ LenBits /\ (o[p + 1] % 2 ^ LenBits) * Octet + o[p + 2] = q
Leads(o, p, q) == p = q \/ PointerAt(o, p, q)

\* Label k of s is at f[k], the end of the name at f[Len(s) + 1].
Path(o, f, s) ==
  /\ f \in [1 .. (Len(s) + 1) -> Nat]
  /\ \A k \in 1 .. Len(s) : LabelAt(o, f[k], s[k]) /\ Leads(o, f[k] + 1 + Len(s[k]), f[k + 1])
  /\ f[Len(s) + 1] < Len(o) /\ o[f[Len(s) + 1] + 1] = 0
Spelt(o, t, s) == \E f : Path(o, f, s) /\ f[1] = t
Reads(o, p, s) == \E t \in Nat : Leads(o, p, t) /\ Spelt(o, t, s)

Name(s) == s \in Labels /\ \A k \in DOMAIN s : Len(s[k]) \in 1 .. MAX_LABEL
Entries(tab) ==
  /\ tab \in Tables
  /\ \A s \in DOMAIN tab : Name(s) /\ s # <<>> /\ tab[s] \in 0 .. POINTER_LIMIT

\* Whatever follows p, and whatever is written at H, the table is right.
Right(o, tab) == \A s \in DOMAIN tab : Spelt(o, tab[s], s)
Steady(p, tab, H) == \A o \in Octets : Begins(p, o, H) => Right(o, tab)

LEMMA NameParts ==
  ASSUME NEW s \in Labels
  PROVE  Len(s) \in Nat /\ DOMAIN s = 1 .. Len(s) /\ \A k \in 1 .. Len(s) : s[k] \in Octets /\ Len(s[k]) \in Nat
  BY DEF Labels, Octets

\* A pointer leads to the offset it was written for.
LEMMA PointerLeads ==
  ASSUME NEW o \in Octets, NEW p \in Nat, NEW t \in 0 .. POINTER_LIMIT, p + 1 < Len(o),
         o[p + 1] = Pointer(t)[1], o[p + 2] = Pointer(t)[2]
  PROVE  PointerAt(o, p, t)
<1>1. PICK n \in Nat \ {0} : n = 2 ^ LenBits
  BY Sizes
<1>2. Octet = 4 * n /\ t \in Nat /\ t < n * Octet
  BY <1>1, Sizes DEF POINTER_LIMIT
<1>3. PICK m \in Nat \ {0} : m = Octet
  BY Sizes
<1>4. PICK d \in Nat, e \in Nat : t = d * m + e /\ e < m /\ d = t \div m /\ e = t % m
  <2>1. t \div m \in Nat /\ t % m \in 0 .. (m - 1) /\ t = m * (t \div m) + (t % m)
    BY <1>2
  <2>2. PICK d \in Int, e \in 0 .. (m - 1) : d = t \div m /\ e = t % m /\ t = m * d + e
    BY <2>1
  <2>3. d >= 0
    <3> SUFFICES ASSUME d <= -1 PROVE FALSE
      BY <2>2
    <3>1. m * d <= -m
      OBVIOUS
    <3> QED
      BY <1>2, <2>2, <3>1
  <2>4. m * d = d * m
    OBVIOUS
  <2>5. d \in Nat /\ e \in Nat /\ e < m
    BY <2>3
  <2>6. t = d * m + e
    BY <2>2, <2>4
  <2> QED
    BY <2>2, <2>5, <2>6, Zenon
<1>5. d < n
  <2>1. SUFFICES ASSUME d >= n PROVE FALSE
    BY <1>4
  <2>2. d * m >= n * m
    BY <2>1
  <2> QED
    BY <2>2, <1>2, <1>3, <1>4
<1>6. d % n = d
  BY <1>5
<1>7. (3 * n + d) % n = d
  BY <1>5
<1>8. Pointer(t) = <<3 * n + d, e>>
  BY <1>1, <1>3, <1>4, <1>6 DEF Pointer
<1>9. o[p + 1] = 3 * n + d /\ o[p + 2] = e
  BY <1>8
<1>10. o[p + 1] >= 3 * n /\ (o[p + 1] % n) * m + o[p + 2] = t
  <2>1. o[p + 1] % n = d
    BY <1>7, <1>9
  <2>2. d * m + o[p + 2] = t
    BY <1>4, <1>9
  <2>3. o[p + 1] >= 3 * n
    BY <1>9
  <2> QED
    BY <2>1, <2>2, <2>3
<1> QED
  BY <1>1, <1>3, <1>10 DEF PointerAt

\* A label in front of a name that can be read makes a longer one.
LEMMA Longer ==
  ASSUME NEW o \in Octets, NEW s \in Labels, s # <<>>, NEW p \in Nat,
         LabelAt(o, p, s[1]), Reads(o, p + 1 + Len(s[1]), Tail(s))
  PROVE  Spelt(o, p, s)
<1>1. PICK t, f : Leads(o, p + 1 + Len(s[1]), t) /\ Path(o, f, Tail(s)) /\ f[1] = t
  BY DEF Reads, Spelt
<1> DEFINE n == Len(s)
           g == [k \in 1 .. (n + 1) |-> IF k = 1 THEN p ELSE f[k - 1]]
<1>2. n \in Nat \ {0} /\ Len(Tail(s)) = n - 1 /\ \A k \in 1 .. (n - 1) : Tail(s)[k] = s[k + 1]
  BY DEF Labels
<1>3. f \in [1 .. n -> Nat]
  BY <1>1, <1>2 DEF Path
<1> HIDE DEF n
<1>4. g[1] = p /\ \A k \in 2 .. (n + 1) : g[k] = f[k - 1]
  BY <1>2
<1>5. g \in [1 .. (n + 1) -> Nat]
  BY <1>2, <1>3
<1> HIDE DEF g
<1>6. ASSUME NEW k \in 1 .. n PROVE LabelAt(o, g[k], s[k]) /\ Leads(o, g[k] + 1 + Len(s[k]), g[k + 1])
  <2>1. CASE k = 1
    <3>1. g[k] = p /\ g[k + 1] = t
      BY <1>1, <1>2, <1>4, <2>1
    <3> QED
      BY <1>1, <2>1, <3>1
  <2>2. CASE k # 1
    <3>1. k - 1 \in 1 .. (n - 1) /\ (k - 1) + 1 = k /\ k \in 2 .. (n + 1) /\ k + 1 \in 2 .. (n + 1) /\ (k + 1) - 1 = k
      BY <1>2, <2>2
    <3>2. Tail(s)[k - 1] = s[k] /\ g[k] = f[k - 1] /\ g[k + 1] = f[(k - 1) + 1]
      BY <1>2, <1>4, <3>1
    <3>3. LabelAt(o, f[k - 1], Tail(s)[k - 1]) /\ Leads(o, f[k - 1] + 1 + Len(Tail(s)[k - 1]), f[(k - 1) + 1])
      BY <1>1, <1>2, <3>1 DEF Path
    <3> QED
      BY <3>2, <3>3
  <2> QED
    BY <2>1, <2>2
<1>7. g[n + 1] < Len(o) /\ o[g[n + 1] + 1] = 0
  <2>1. n + 1 \in 2 .. (n + 1) /\ (n + 1) - 1 = n /\ (n - 1) + 1 = n
    BY <1>2
  <2>2. g[n + 1] = f[n]
    BY <1>4, <2>1
  <2> QED
    BY <1>1, <1>2, <2>1, <2>2 DEF Path
<1>8. Path(o, g, s)
  BY <1>5, <1>6, <1>7 DEF Path, n
<1> QED
  BY <1>4, <1>8 DEF Spelt

\* The end of a name.
LEMMA Ends ==
  ASSUME NEW o \in Octets, NEW p \in Nat, p < Len(o), o[p + 1] = 0
  PROVE  Reads(o, p, <<>>)
<1> DEFINE f == [k \in 1 .. 1 |-> p]
<1>1. Path(o, f, <<>>)
  BY DEF Path
<1>2. f[1] = p
  OBVIOUS
<1> HIDE DEF f
<1> QED
  BY <1>1, <1>2 DEF Spelt, Reads, Leads

(***************************************************************************)
(* Writing a name.                                                         *)
(***************************************************************************)
LEMMA PointerType ==
  ASSUME NEW t \in Nat
  PROVE  Pointer(t) \in Octets /\ Len(Pointer(t)) = 2
<1>1. PICK n \in Nat \ {0}, m \in Nat \ {0} : n = 2 ^ LenBits /\ m = Octet
  BY Sizes
<1>2. t \div m \in Nat /\ t % m \in Nat
  OBVIOUS
<1>3. (t \div m) % n \in Nat
  BY <1>2
<1>4. PICK a \in Nat, b \in Nat : a = 3 * n + ((t \div m) % n) /\ b = t % m
  BY <1>2, <1>3
<1>5. Pointer(t) = <<a, b>>
  BY <1>1, <1>4 DEF Pointer
<1> QED
  BY <1>5 DEF Octets

LEMMA BeginsTransitive ==
  ASSUME NEW p \in Octets, NEW q \in Octets, NEW o \in Octets, NEW H, Begins(p, q, H), Begins(q, o, H)
  PROVE  Begins(p, o, H)
<1>1. Len(p) \in Nat /\ Len(q) \in Nat /\ Len(o) \in Nat
  BY DEF Octets
<1>2. \A j \in 1 .. Len(p) : j \in 1 .. Len(q)
  BY <1>1 DEF Begins
<1> QED
  BY <1>1, <1>2 DEF Begins

LEMMA StartsTransitive ==
  ASSUME NEW p \in Octets, NEW q \in Octets, NEW o \in Octets, Starts(p, q), Starts(q, o)
  PROVE  Starts(p, o)
<1>1. Len(p) \in Nat /\ Len(q) \in Nat /\ Len(o) \in Nat
  BY DEF Octets
<1>2. \A j \in 1 .. Len(p) : j \in 1 .. Len(q)
  BY <1>1 DEF Starts
<1> QED
  BY <1>1, <1>2 DEF Starts

LEMMA BeginsConcat ==
  ASSUME NEW p \in Octets, NEW q \in Octets
  PROVE  /\ p \o q \in Octets /\ Len(p \o q) = Len(p) + Len(q)
         /\ Starts(p, p \o q) /\ \A H : Begins(p, p \o q, H)
         /\ \A j \in 1 .. Len(q) : (p \o q)[Len(p) + j] = q[j]
<1>1. p \o q \in Seq(Nat) /\ Len(p \o q) = Len(p) + Len(q)
  BY DEF Octets
<1>2. \A j \in 1 .. (Len(p) + Len(q)) : (p \o q)[j] = IF j <= Len(p) THEN p[j] ELSE q[j - Len(p)]
  BY DEF Octets
<1>3. Len(p) \in Nat /\ Len(q) \in Nat
  BY DEF Octets
<1>4. \A j \in 1 .. Len(p) : j \in 1 .. (Len(p) + Len(q)) /\ j <= Len(p)
  BY <1>3
<1>5. \A j \in 1 .. Len(q) : Len(p) + j \in 1 .. (Len(p) + Len(q)) /\ ~(Len(p) + j <= Len(p)) /\ (Len(p) + j) - Len(p) = j
  BY <1>3
<1> QED
  BY <1>1, <1>2, <1>3, <1>4, <1>5 DEF Begins, Starts, Octets

LEMMA BeginsNamed ==
  ASSUME NEW p, p \in Octets, NEW q, q \in Octets, NEW w, w = p \o q
  PROVE  /\ w \in Octets /\ Len(w) = Len(p) + Len(q)
         /\ Starts(p, w) /\ \A H : Begins(p, w, H)
         /\ \A j \in 1 .. Len(q) : w[Len(p) + j] = q[j]
  BY BeginsConcat

LEMMA LabelIs ==
  ASSUME NEW l \in Octets
  PROVE  /\ <<Len(l)>> \o l \in Octets /\ Len(<<Len(l)>> \o l) = Len(l) + 1
         /\ (<<Len(l)>> \o l)[1] = Len(l)
         /\ \A j \in 1 .. Len(l) : (<<Len(l)>> \o l)[1 + j] = l[j]
<1> DEFINE a == <<Len(l)>>
           c == a \o l
<1>1. a \in Octets
  BY DEF Octets
<1>2. Len(a) = 1 /\ a[1] = Len(l) /\ Len(l) \in Nat
  BY <1>1 DEF Octets
<1> HIDE DEF a
<1>3. c \in Octets /\ Len(c) = Len(a) + Len(l) /\ Starts(a, c) /\ \A j \in 1 .. Len(l) : c[Len(a) + j] = l[j]
  BY <1>1, BeginsConcat
<1> HIDE DEF c
<1>4. c[1] = Len(l)
  BY <1>2, <1>3 DEF Starts
<1> QED
  BY <1>2, <1>3, <1>4 DEF a, c

\* What was written after p is there, wherever the message goes on.
LEMMA Appended ==
  ASSUME NEW p \in Octets, NEW v \in Octets, Starts(p, v), NEW x \in Octets,
         NEW o \in Octets, NEW H, Within(H, p), Begins(v \o x, o, H)
  PROVE  /\ Begins(v, o, H)
         /\ Len(v) + Len(x) <= Len(o)
         /\ \A j \in 1 .. Len(x) : o[Len(v) + j] = x[j]
<1> DEFINE w == v \o x
<1>1. w \in Octets /\ Len(w) = Len(v) + Len(x) /\ Begins(v, w, H) /\ \A j \in 1 .. Len(x) : w[Len(v) + j] = x[j]
  BY BeginsConcat
<1>8. Begins(w, o, H)
  OBVIOUS
<1> HIDE DEF w
<1>2. PICK a \in Nat, b \in Nat, c \in Nat : a = Len(p) /\ b = Len(v) /\ c = Len(x)
  BY DEF Octets
<1>3. a <= b
  BY <1>2 DEF Starts
<1>4. \A j \in 1 .. c : b + j \in 1 .. (b + c) /\ b + j \notin 1 .. a
  BY <1>3
<1>5. \A j \in 1 .. c : b + j \notin H
  BY <1>2, <1>4 DEF Within
<1>6. \A j \in 1 .. c : o[b + j] = w[b + j]
  BY <1>1, <1>2, <1>4, <1>5, <1>8 DEF Begins
<1>7. Begins(v, o, H)
  BY <1>1, <1>8, BeginsTransitive
<1> QED
  BY <1>1, <1>2, <1>6, <1>7, <1>8 DEF Begins

\* A new entry is where the message ends, if a pointer can hold that.
LEMMA RememberOk ==
  ASSUME NEW v, v.out \in Octets, Entries(v.table), NEW suffix, Name(suffix), suffix # <<>>, suffix \notin DOMAIN v.table
  PROVE  /\ Entries(Remember(v, suffix))
         /\ DOMAIN v.table \subseteq DOMAIN Remember(v, suffix)
         /\ DOMAIN Remember(v, suffix) \subseteq DOMAIN v.table \cup {suffix}
         /\ \A s \in DOMAIN v.table : Remember(v, suffix)[s] = v.table[s]
         /\ suffix \in DOMAIN Remember(v, suffix) => Remember(v, suffix)[suffix] = Len(v.out)
<1>1. CASE ~(Len(v.out) <= POINTER_LIMIT)
  BY <1>1 DEF Remember
<1>2. CASE Len(v.out) <= POINTER_LIMIT
  <2> DEFINE D == DOMAIN v.table \cup {suffix}
             new == [s \in D |-> IF s = suffix THEN Len(v.out) ELSE v.table[s]]
  <2>1. Remember(v, suffix) = new
    BY <1>2 DEF Remember
  <2>2. Len(v.out) \in 0 .. POINTER_LIMIT /\ \A s \in DOMAIN v.table : v.table[s] \in 0 .. POINTER_LIMIT
    BY <1>2, Sizes DEF Octets, Entries
  <2>3. \A s \in D : new[s] \in 0 .. POINTER_LIMIT /\ new[s] \in Nat
    BY <2>2, Sizes
  <2>4. D \in SUBSET Labels
    BY DEF Entries, Tables, Name
  <2>5. new \in Tables
    <3>1. new \in [D -> Nat]
      BY <2>3
    <3> HIDE DEF new, D
    <3> QED
      BY <2>4, <3>1 DEF Tables
  <2>6. Entries(new)
    BY <2>3, <2>5 DEF Entries
  <2> QED
    BY <2>1, <2>6
<1> QED
  BY <1>1, <1>2

LEMMA SuffixIs ==
  ASSUME NEW L, Name(L), NEW k \in 1 .. Len(L)
  PROVE  /\ Name(SubSeq(L, k, Len(L))) /\ SubSeq(L, k, Len(L)) # <<>>
         /\ Len(SubSeq(L, k, Len(L))) = Len(L) - k + 1
         /\ SubSeq(L, k, Len(L))[1] = L[k]
         /\ Tail(SubSeq(L, k, Len(L))) = SubSeq(L, k + 1, Len(L))
<1> DEFINE n == Len(L)
           s == SubSeq(L, k, n)
           s2 == SubSeq(L, k + 1, n)
<1>1. n \in Nat /\ L \in Seq(Octets) /\ k \in Nat /\ k >= 1 /\ k <= n /\ DOMAIN L = 1 .. n
  BY DEF Name, Labels
<1>2. \A j \in k .. n : L[j] \in Octets
  BY <1>1
<1>3. s \in Seq(Octets) /\ Len(s) = n - k + 1 /\ \A j \in 1 .. (n - k + 1) : s[j] = L[k + j - 1]
  BY <1>1, <1>2, SubSeqProperties
<1>4. s2 \in Seq(Octets) /\ Len(s2) = n - k /\ \A j \in 1 .. (n - k) : s2[j] = L[k + j]
  <2>1. \A j \in (k + 1) .. n : L[j] \in Octets
    BY <1>1
  <2>2. /\ s2 \in Seq(Octets)
        /\ Len(s2) = IF k + 1 <= n THEN n - (k + 1) + 1 ELSE 0
        /\ \A j \in 1 .. (n - (k + 1) + 1) : s2[j] = L[(k + 1) + j - 1]
    BY <1>1, <2>1, SubSeqProperties
  <2>3. n - (k + 1) + 1 = n - k /\ \A j \in 1 .. (n - k) : (k + 1) + j - 1 = k + j
    BY <1>1
  <2> HIDE DEF s2, n
  <2>4. Len(s2) = n - k
    <3>1. CASE k + 1 <= n
      BY <1>1, <2>2, <2>3, <3>1
    <3>2. CASE ~(k + 1 <= n)
      BY <1>1, <2>2, <3>2
    <3> QED
      BY <3>1, <3>2
  <2> QED
    BY <2>2, <2>3, <2>4
<1> HIDE DEF s, s2, n
<1>5. s # <<>> /\ s[1] = L[k]
  BY <1>1, <1>3
<1>6. Name(s)
  <2>1. DOMAIN s = 1 .. (n - k + 1)
    BY <1>3
  <2>2. \A j \in 1 .. (n - k + 1) : k + j - 1 \in 1 .. n
    BY <1>1
  <2> QED
    BY <1>1, <1>3, <2>1, <2>2 DEF Name, Labels
<1>7. Tail(s) = s2
  <2>1. Tail(s) \in Seq(Octets) /\ Len(Tail(s)) = n - k /\ \A j \in 1 .. (n - k) : Tail(s)[j] = s[j + 1]
    BY <1>1, <1>3, <1>5
  <2>2. \A j \in 1 .. (n - k) : Tail(s)[j] = s2[j]
    BY <1>1, <1>3, <1>4, <2>1
  <2> QED
    BY <1>1, <1>4, <2>1, <2>2
<1> QED
  BY <1>3, <1>5, <1>6, <1>7 DEF s, s2, n

\* What a turn of the loop finds: the message began with p and t, and every
\* entry is right in each message that goes on with the rest of the name.
Turn(v, k, L, p, t, H) ==
  /\ v.out \in Octets /\ v.pointed \in BOOLEAN /\ Entries(v.table)
  /\ Starts(p, v.out)
  /\ DOMAIN t \subseteq DOMAIN v.table /\ \A s \in DOMAIN t : v.table[s] = t[s]
  /\ ~v.pointed =>
       /\ \A s \in DOMAIN v.table \ DOMAIN t : Len(s) > Len(L) - k
       /\ \A o \in Octets : Begins(v.out, o, H) /\ Reads(o, Len(v.out), SubSeq(L, k + 1, Len(L))) => Right(o, v.table)
  /\ v.pointed => Steady(v.out, v.table, H)

\* A turn that writes the label.
LEMMA TurnLabel ==
  ASSUME NEW L, Name(L), NEW k \in 1 .. Len(L), NEW p \in Octets, NEW t, NEW H,
         NEW v, Turn(v, k - 1, L, p, t, H), ~v.pointed, Within(H, p),
         NEW v2, v2.out = v.out \o (<<Len(L[k])>> \o L[k]), v2.pointed = FALSE,
         v2.table = v.table
           \/ (SubSeq(L, k, Len(L)) \notin DOMAIN v.table /\ v2.table = Remember(v, SubSeq(L, k, Len(L))))
  PROVE  Turn(v2, k, L, p, t, H)
<1> DEFINE n == Len(L)
           suffix == SubSeq(L, k, n)
           label == <<Len(L[k])>> \o L[k]
           off == Len(v.out)
<1>1. n \in Nat /\ DOMAIN L = 1 .. n /\ k \in Nat /\ k >= 1 /\ k <= n /\ L[k] \in Octets /\ Len(L[k]) \in Nat /\ (k - 1) + 1 = k
  BY NameParts DEF Name
<1>2. v.out \in Octets /\ Entries(v.table) /\ Starts(p, v.out) /\ off \in Nat
  BY DEF Turn, Octets
<1>3. /\ label \in Octets /\ Len(label) = Len(L[k]) + 1 /\ label[1] = Len(L[k])
      /\ \A j \in 1 .. Len(L[k]) : label[1 + j] = L[k][j]
  BY <1>1, LabelIs
<1>4. /\ v2.out \in Octets /\ Len(v2.out) = off + (Len(L[k]) + 1)
      /\ Starts(v.out, v2.out) /\ \A h : Begins(v.out, v2.out, h)
  <2> HIDE DEF label
  <2>1. v2.out = v.out \o label
    BY DEF label
  <2>2. /\ v2.out \in Octets /\ Len(v2.out) = Len(v.out) + Len(label)
        /\ Starts(v.out, v2.out) /\ \A h : Begins(v.out, v2.out, h)
    BY <1>2, <1>3, <2>1, BeginsConcat, Zenon
  <2> QED
    BY <1>3, <2>2
<1>5. Starts(p, v2.out)
  BY <1>2, <1>4, StartsTransitive
<1>6. Name(suffix) /\ suffix # <<>> /\ suffix[1] = L[k] /\ Tail(suffix) = SubSeq(L, k + 1, n) /\ Len(suffix) = n - k + 1 /\ suffix \in Labels
  BY SuffixIs DEF Name
<1> HIDE DEF suffix, label
<1>7. /\ Entries(v2.table) /\ DOMAIN v.table \subseteq DOMAIN v2.table
      /\ DOMAIN v2.table \subseteq DOMAIN v.table \cup {suffix}
      /\ \A s \in DOMAIN v.table : v2.table[s] = v.table[s]
      /\ suffix \in DOMAIN v2.table => suffix \in DOMAIN v.table \/ v2.table[suffix] = off
  <2>1. CASE v2.table = v.table
    BY <1>2, <2>1
  <2>2. CASE suffix \notin DOMAIN v.table /\ v2.table = Remember(v, suffix)
    BY <1>2, <1>6, <2>2, RememberOk
  <2> QED
    BY <2>1, <2>2 DEF suffix
<1>8. DOMAIN t \subseteq DOMAIN v2.table /\ \A s \in DOMAIN t : v2.table[s] = t[s]
  BY <1>7 DEF Turn
<1>9. \A s \in DOMAIN v2.table \ DOMAIN t : Len(s) > n - k
  <2>1. \A s \in DOMAIN v.table \ DOMAIN t : Len(s) > n - (k - 1)
    BY DEF Turn
  <2>2. \A s \in DOMAIN v.table : Len(s) \in Nat
    BY <1>2, NameParts DEF Entries, Name
  <2>3. Len(suffix) > n - k
    BY <1>1, <1>6
  <2> HIDE DEF n
  <2>4. \A s \in DOMAIN v.table \ DOMAIN t : Len(s) > n - k
    BY <1>1, <2>1, <2>2
  <2> QED
    BY <1>7, <2>3, <2>4
<1>10. ASSUME NEW o \in Octets, Begins(v2.out, o, H), Reads(o, Len(v2.out), SubSeq(L, k + 1, n))
       PROVE  Right(o, v2.table)
  <2>1. PICK c \in Nat, b \in Nat : c = Len(L[k]) /\ b = off
    BY <1>1, <1>2
  <2>2. Begins(v.out, o, H) /\ b + (c + 1) <= Len(o) /\ \A j \in 1 .. (c + 1) : o[b + j] = label[j]
    <3>1. v2.out = v.out \o label
      BY DEF label
    <3> HIDE DEF off
    <3>2. /\ Begins(v.out, o, H) /\ Len(v.out) + Len(label) <= Len(o)
          /\ \A j \in 1 .. Len(label) : o[Len(v.out) + j] = label[j]
      <4>1. PICK x \in Octets, y \in Octets, z \in {v2.out} : x = v.out /\ y = label /\ z = v2.out
        BY <1>2, <1>3
      <4>2. Starts(p, x) /\ Begins(x \o y, o, H)
        BY <1>2, <1>10, <3>1, <4>1
      <4>3. Begins(x, o, H) /\ Len(x) + Len(y) <= Len(o) /\ \A j \in 1 .. Len(y) : o[Len(x) + j] = y[j]
        BY <4>2, Appended
      <4> QED
        BY <4>1, <4>3
    <3> QED
      BY <1>3, <2>1, <3>2 DEF off
  <2>3. LabelAt(o, off, suffix[1])
    <3>1. 1 \in 1 .. (c + 1) /\ \A j \in 1 .. c : 1 + j \in 1 .. (c + 1) /\ b + (1 + j) = b + 1 + j
      OBVIOUS
    <3>2. b + 1 + c <= Len(o)
      BY <2>2 DEF Octets
    <3>3. o[b + 1] = c
      BY <1>3, <2>1, <2>2, <3>1
    <3>4. \A j \in 1 .. c : o[b + 1 + j] = L[k][j]
      BY <1>3, <2>1, <2>2, <3>1
    <3> QED
      BY <1>6, <2>1, <3>2, <3>3, <3>4 DEF LabelAt
  <2>4. Reads(o, off + 1 + Len(suffix[1]), Tail(suffix))
    <3>1. Len(v2.out) = off + 1 + Len(suffix[1])
      <4>1. b + (c + 1) = b + 1 + c
        OBVIOUS
      <4> QED
        BY <1>4, <1>6, <2>1, <4>1
    <3> QED
      BY <1>6, <1>10, <3>1
  <2>5. Spelt(o, off, suffix)
    BY <1>2, <1>6, <2>3, <2>4, Longer
  <2>6. Reads(o, off, suffix)
    BY <1>2, <2>5 DEF Reads, Leads
  <2>7. Right(o, v.table)
    BY <1>1, <2>2, <2>6 DEF Turn, suffix
  <2> QED
    BY <1>7, <2>5, <2>7 DEF Right
<1> QED
  BY <1>4, <1>5, <1>7, <1>8, <1>9, <1>10 DEF Turn

\* A turn that writes a pointer: to a name that was there before this one, for
\* the suffixes of this one entered so far are longer.
LEMMA TurnPointer ==
  ASSUME NEW L, Name(L), NEW k \in 1 .. Len(L), NEW p \in Octets, NEW t, NEW H, Steady(p, t, H),
         NEW v, Turn(v, k - 1, L, p, t, H), ~v.pointed, Within(H, p),
         SubSeq(L, k, Len(L)) \in DOMAIN v.table,
         NEW v2, v2.out = v.out \o Pointer(v.table[SubSeq(L, k, Len(L))]), v2.pointed = TRUE, v2.table = v.table
  PROVE  Turn(v2, k, L, p, t, H)
<1> DEFINE n == Len(L)
           suffix == SubSeq(L, k, n)
           to == v.table[suffix]
           off == Len(v.out)
<1>1. n \in Nat /\ k \in Nat /\ k >= 1 /\ k <= n /\ (k - 1) + 1 = k
  BY NameParts DEF Name
<1>2. v.out \in Octets /\ Entries(v.table) /\ Starts(p, v.out) /\ off \in Nat
  BY DEF Turn, Octets
<1>3. Len(suffix) = n - k + 1
  BY SuffixIs
<1> HIDE DEF suffix
<1>4. suffix \in DOMAIN v.table
  BY DEF suffix
<1>5. suffix \in DOMAIN t /\ to = t[suffix]
  <2>1. \A s \in DOMAIN v.table \ DOMAIN t : Len(s) > n - (k - 1)
    BY DEF Turn
  <2>2. ~(n - k + 1 > n - (k - 1))
    BY <1>1
  <2> QED
    BY <1>3, <1>4, <2>1, <2>2 DEF Turn
<1>6. to \in 0 .. POINTER_LIMIT /\ to \in Nat
  BY <1>2, <1>4, Sizes DEF Entries
<1> HIDE DEF to
<1>7. Pointer(to) \in Octets /\ Len(Pointer(to)) = 2
  BY <1>6, PointerType
<1>8. /\ v2.out \in Octets /\ Len(v2.out) = off + 2
      /\ Starts(v.out, v2.out) /\ \A h : Begins(v.out, v2.out, h)
      /\ v2.out = v.out \o Pointer(to)
  <2>1. v2.out = v.out \o Pointer(to)
    BY DEF to, suffix
  <2> HIDE DEF off
  <2>2. v2.out \in Octets /\ Len(v2.out) = Len(v.out) + Len(Pointer(to)) /\ Starts(v.out, v2.out) /\ \A h : Begins(v.out, v2.out, h)
    <3>1. PICK a \in Octets, b \in Octets, c \in {v2.out} : a = v.out /\ b = Pointer(to) /\ c = v2.out
      BY <1>2, <1>7
    <3>2. c = a \o b
      BY <2>1, <3>1
    <3>3. c \in Octets /\ Len(c) = Len(a) + Len(b) /\ Starts(a, c) /\ \A h : Begins(a, c, h)
      BY <3>2, BeginsNamed
    <3> QED
      BY <3>1, <3>3
  <2> QED
    BY <1>7, <2>1, <2>2 DEF off
<1>9. Starts(p, v2.out)
  BY <1>2, <1>8, StartsTransitive
<1>10. ASSUME NEW o \in Octets, Begins(v2.out, o, H)
       PROVE  Right(o, v2.table)
  <2>1. Begins(v.out, o, H) /\ off + 2 <= Len(o) /\ \A j \in 1 .. 2 : o[off + j] = Pointer(to)[j]
    <3>1. /\ Begins(v.out, o, H) /\ Len(v.out) + Len(Pointer(to)) <= Len(o)
          /\ \A j \in 1 .. Len(Pointer(to)) : o[Len(v.out) + j] = Pointer(to)[j]
      <4>1. PICK a \in Octets, b \in Octets, c \in {v2.out} : a = v.out /\ b = Pointer(to) /\ c = v2.out
        BY <1>2, <1>7
      <4>2. Starts(p, a) /\ Begins(a \o b, o, H)
        BY <1>2, <1>8, <1>10, <4>1
      <4>3. Begins(a, o, H) /\ Len(a) + Len(b) <= Len(o) /\ \A j \in 1 .. Len(b) : o[Len(a) + j] = b[j]
        BY <4>2, Appended
      <4> QED
        BY <4>1, <4>3
    <3> QED
      BY <1>7, <3>1
  <2>2. Begins(p, v.out, H)
    BY <1>2 DEF Begins, Starts
  <2>3. Begins(p, o, H)
    BY <1>2, <2>1, <2>2, BeginsTransitive
  <2>4. Spelt(o, to, suffix)
    BY <1>5, <2>3 DEF Steady, Right
  <2>6. PointerAt(o, off, to)
    <3>1. off + 1 < Len(o)
      <4>1. PICK a \in Nat, b \in Nat : a = off /\ b = Len(o)
        <5>1. off \in Nat
          BY <1>2
        <5>2. Len(o) \in Nat
          BY DEF Octets
        <5> QED
          BY <5>1, <5>2
      <4> QED
        BY <2>1, <4>1
    <3>2. o[off + 1] = Pointer(to)[1] /\ o[off + 2] = Pointer(to)[2]
      BY <2>1
    <3> QED
      BY <1>2, <1>6, <3>1, <3>2, PointerLeads
  <2>7. Reads(o, off, suffix)
    BY <1>6, <2>4, <2>6 DEF Reads, Leads
  <2> QED
    BY <1>1, <2>1, <2>7 DEF Turn, suffix
<1> QED
  BY <1>2, <1>8, <1>9, <1>10 DEF Turn, Steady

\* The loop of write_name, from what is written and the table so far.
Begun(w) == [out |-> w.out, table |-> w.table, pointed |-> FALSE]
Ran(v, w, L, ctx, H) ==
  /\ Turn(v, Len(L), L, w.out, w.table, H)
  /\ write_name(w, L, ctx) = [out |-> IF v.pointed THEN v.out ELSE Append(v.out, 0), table |-> v.table]

LEMMA WriteNameRuns ==
  ASSUME NEW L, Name(L), NEW w, w.out \in Octets, Entries(w.table), NEW ctx \in BOOLEAN, NEW H,
         Within(H, w.out), Steady(w.out, w.table, H)
  PROVE  \E v : Ran(v, w, L, ctx, H)
<1> DEFINE n == Len(L)
           p == w.out
           t == w.table
           S == {v \in [out : Octets, table : Tables, pointed : BOOLEAN] : Entries(v.table)}
           Step(k, x) == NextLabel(x, L, k, ctx)
           T == [k \in 0 .. n |-> {x \in S : Turn(x, k, L, p, t, H)}]
<1>1. n \in Nat /\ \A k \in 1 .. n : k - 1 \in 0 .. n /\ k \in 0 .. n
  BY NameParts DEF Name
<1>2. ASSUME NEW k \in 1 .. n, NEW v \in S, Turn(v, k - 1, L, p, t, H)
      PROVE  Step(k, v) \in S /\ Turn(Step(k, v), k, L, p, t, H)
  <2> DEFINE suffix == SubSeq(L, k, n)
             v2 == Step(k, v)
             longer == IF ctx THEN Remember(v, suffix) ELSE v.table
  <2>1. CASE v.pointed
    <3>1. v2 = v
      BY <2>1 DEF NextLabel
    <3>2. Turn(v, k, L, p, t, H)
      BY <1>2, <2>1 DEF Turn
    <3> QED
      BY <1>2, <3>1, <3>2
  <2>2. CASE ~v.pointed /\ ctx /\ suffix \in DOMAIN v.table
    <3>1. v2 = [v EXCEPT !.out = @ \o Pointer(v.table[suffix]), !.pointed = TRUE]
      BY <2>2 DEF NextLabel
    <3>2. v2.out = v.out \o Pointer(v.table[suffix]) /\ v2.pointed = TRUE /\ v2.table = v.table
          /\ v2 = [out |-> v2.out, table |-> v2.table, pointed |-> v2.pointed]
      BY <3>1
    <3> HIDE DEF v2
    <3>3. Turn(v2, k, L, p, t, H)
      BY <1>2, <2>2, <3>2, TurnPointer
    <3>4. v2 \in S
      BY <3>2, <3>3 DEF Turn, Entries
    <3> QED
      BY <3>3, <3>4 DEF v2
  <2>3. CASE ~v.pointed /\ ~(ctx /\ suffix \in DOMAIN v.table)
    <3>1. v2 = [v EXCEPT !.table = longer, !.out = @ \o (<<Len(L[k])>> \o L[k])]
      BY <2>3 DEF NextLabel
    <3>2. v2.out = v.out \o (<<Len(L[k])>> \o L[k]) /\ v2.pointed = FALSE /\ v2.table = longer
          /\ v2 = [out |-> v2.out, table |-> v2.table, pointed |-> v2.pointed]
      BY <2>3, <3>1
    <3>3. v2.table = v.table \/ (suffix \notin DOMAIN v.table /\ v2.table = Remember(v, suffix))
      BY <2>3, <3>2
    <3> HIDE DEF v2
    <3>4. Turn(v2, k, L, p, t, H)
      BY <1>2, <2>3, <3>2, <3>3, TurnLabel
    <3>5. v2 \in S
      BY <3>2, <3>4 DEF Turn, Entries
    <3> QED
      BY <3>4, <3>5 DEF v2
  <2> QED
    BY <2>1, <2>2, <2>3
<1>3. Begun(w) \in S /\ Turn(Begun(w), 0, L, p, t, H)
  <2>1. Entries(t) /\ t \in Tables
    BY DEF Entries
  <2>2. \A o \in Octets : Begins(p, o, H) => Right(o, t)
    BY DEF Steady
  <2>3. Starts(p, p)
    BY DEF Starts, Octets
  <2> QED
    BY <2>1, <2>2, <2>3 DEF Begun, Turn
<1> HIDE DEF Step, S
<1>4. PICK u : /\ u[0] = Begun(w)
               /\ \A k \in 1 .. n : u[k] = Step(k, u[k - 1])
               /\ write_name(w, L, ctx) =
                     [out |-> IF u[n].pointed THEN u[n].out ELSE Append(u[n].out, 0), table |-> u[n].table]
  <2> DEFINE X == [out : Octets, table : Tables, pointed : BOOLEAN]
             Eq(g) == g = [k \in 0 .. n |-> IF k = 0 THEN Begun(w) ELSE Step(k, g[k - 1])]
             u == CHOOSE g : Eq(g)
             In(m, g) == /\ DOMAIN g = 0 .. m /\ g[0] = Begun(w)
                         /\ \A k \in 1 .. m : g[k] = Step(k, g[k - 1])
             Q == {m \in Nat : \E g : In(m, g)}
  <2> HIDE DEF T
  <2>1. 0 \in Q
    <3> DEFINE g == [k \in 0 .. 0 |-> Begun(w)]
    <3>1. In(0, g)
      OBVIOUS
    <3> QED
      BY <3>1
  <2>2. ASSUME NEW m \in Nat, m \in Q PROVE m + 1 \in Q
    <3>1. PICK g : In(m, g)
      BY <2>2
    <3> DEFINE h == [k \in 0 .. (m + 1) |-> IF k = m + 1 THEN Step(m + 1, g[m]) ELSE g[k]]
    <3>2. DOMAIN h = 0 .. (m + 1) /\ h[0] = Begun(w)
      BY <3>1
    <3>3. ASSUME NEW k \in 1 .. (m + 1) PROVE h[k] = Step(k, h[k - 1])
      <4>1. CASE k = m + 1
        <5>1. h[k] = Step(m + 1, g[m]) /\ h[k - 1] = g[m]
          BY <4>1
        <5> QED
          BY <4>1, <5>1
      <4>2. CASE k # m + 1
        <5>1. k \in 1 .. m /\ k - 1 \in 0 .. m
          BY <4>2
        <5>2. h[k] = g[k] /\ h[k - 1] = g[k - 1]
          BY <4>2, <5>1
        <5> QED
          BY <3>1, <5>1, <5>2
      <4> QED
        BY <4>1, <4>2
    <3>4. In(m + 1, h)
      BY <3>2, <3>3
    <3> HIDE DEF h, In
    <3> QED
      BY <3>4
  <2>3. n \in Q
    <3> HIDE DEF Q, n
    <3> QED
      BY <1>1, <2>1, <2>2, NatInductionOn
  <2>4. PICK g : In(n, g)
    BY <2>3
  <2>5. Eq([k \in 0 .. n |-> g[k]])
    <3> DEFINE h == [k \in 0 .. n |-> g[k]]
    <3> HIDE DEF n
    <3>1. \A k \in 0 .. n : h[k] = IF k = 0 THEN Begun(w) ELSE Step(k, h[k - 1])
      <4> TAKE k \in 0 .. n
      <4>1. k = 0 \/ (k # 0 /\ k \in 1 .. n /\ k - 1 \in 0 .. n)
        BY <1>1
      <4> QED
        BY <2>4, <4>1
    <3>2. h = [k \in 0 .. n |-> h[k]]
      OBVIOUS
    <3> QED
      BY <3>1, <3>2
  <2>6. Eq(u)
    BY <2>5
  <2>7. write_name(w, L, ctx) = [out |-> IF u[n].pointed THEN u[n].out ELSE Append(u[n].out, 0), table |-> u[n].table]
    BY DEF write_name, Begun, Step
  <2> HIDE DEF u, n
  <2>8. u[0] = Begun(w) /\ \A k \in 1 .. n : u[k] = Step(k, u[k - 1])
    BY <1>1, <2>6
  <2> HIDE DEF Eq
  <2> QED
    BY <2>7, <2>8
<1>5. \A k \in 0 .. n : u[k] \in T[k]
  <2>1. 0 \in 0 .. n /\ u[0] \in T[0]
    BY <1>1, <1>3, <1>4
  <2>2. \A k \in 1 .. n : u[k - 1] \in T[k - 1] => u[k] \in T[k]
    BY <1>1, <1>2, <1>4
  <2> HIDE DEF T, n
  <2> QED
    BY <1>1, <2>1, <2>2, IterStays
<1>6. n \in 0 .. n
  BY <1>1
<1>7. Turn(u[n], n, L, p, t, H)
  BY <1>5, <1>6
<1>8. PICK v : v = u[n]
  OBVIOUS
<1>9. Turn(v, Len(L), L, w.out, w.table, H)
  BY <1>7, <1>8
<1>10. write_name(w, L, ctx) = [out |-> IF v.pointed THEN v.out ELSE Append(v.out, 0), table |-> v.table]
  BY <1>4, <1>8
<1> HIDE DEF n
<1>11. Ran(v, w, L, ctx, H)
  BY <1>9, <1>10 DEF Ran
<1> QED
  BY <1>11

LEMMA AppendIs ==
  ASSUME NEW p \in Seq(Nat), NEW x \in Nat
  PROVE Append(p, x) = p \o <<x>>
<1>1. Append(p, x) \in Seq(Nat) /\ p \o <<x>> \in Seq(Nat)
  OBVIOUS
<1>2. Len(Append(p, x)) = Len(p) + 1 /\ Len(p \o <<x>>) = Len(p) + 1
  OBVIOUS
<1>3. \A k \in 1 .. Len(p) + 1 : Append(p, x)[k] = (p \o <<x>>)[k]
  OBVIOUS
<1> QED
  BY <1>1, <1>2, <1>3, SeqEqual

\* A name keeps the table right, and adds right entries to it.
LEMMA WriteName ==
  ASSUME NEW L, Name(L), NEW w, w.out \in Octets, Entries(w.table), NEW ctx \in BOOLEAN, NEW H,
         Within(H, w.out), Steady(w.out, w.table, H)
  PROVE  /\ write_name(w, L, ctx).out \in Octets
         /\ Starts(w.out, write_name(w, L, ctx).out)
         /\ Entries(write_name(w, L, ctx).table)
         /\ Steady(write_name(w, L, ctx).out, write_name(w, L, ctx).table, H)
         /\ DOMAIN write_name(w, L, ctx) = {"out", "table"}
<1>0. PICK v : Ran(v, w, L, ctx, H)
  BY WriteNameRuns
<1>1. /\ Turn(v, Len(L), L, w.out, w.table, H)
      /\ write_name(w, L, ctx) = [out |-> IF v.pointed THEN v.out ELSE Append(v.out, 0), table |-> v.table]
  BY <1>0 DEF Ran
<1>2. PICK p \in Octets, z \in {Append(v.out, 0)} : p = v.out /\ z = Append(p, 0)
  BY <1>1 DEF Turn
<1>3. z = p \o <<0>> /\ <<0>> \in Octets /\ Len(<<0>>) = 1 /\ <<0>>[1] = 0 /\ 1 \in 1 .. 1
  <2>1. z = p \o <<0>>
    BY <1>2, AppendIs DEF Octets
  <2>2. <<0>> \in Octets /\ Len(<<0>>) = 1 /\ <<0>>[1] = 0 /\ 1 \in 1 .. 1
    BY DEF Octets
  <2> QED
    BY <2>1, <2>2
<1>4. CASE v.pointed
  BY <1>1, <1>4 DEF Turn
<1>5. CASE ~v.pointed
  <2>1. z \in Octets /\ Starts(p, z)
    BY <1>3, BeginsNamed
  <2>2. Starts(w.out, z)
    BY <1>1, <1>2, <2>1, StartsTransitive DEF Turn
  <2>3. ASSUME NEW o \in Octets, Begins(z, o, H) PROVE Right(o, v.table)
    <3>1. PICK q \in Octets : q = <<0>>
      BY <1>3
    <3>2. Begins(p, o, H) /\ Len(p) + Len(q) <= Len(o) /\ \A j \in 1 .. Len(q) : o[Len(p) + j] = q[j]
      <4>1. Starts(w.out, p) /\ Begins(p \o q, o, H)
        BY <1>1, <1>2, <1>3, <2>3, <3>1 DEF Turn
      <4> QED
        BY <4>1, Appended
    <3>3. Len(p) \in Nat /\ Len(p) < Len(o) /\ o[Len(p) + 1] = 0
      BY <1>3, <3>1, <3>2 DEF Octets
    <3>4. Reads(o, Len(p), <<>>)
      BY <3>3, Ends
    <3>5. SubSeq(L, Len(L) + 1, Len(L)) = <<>>
      BY DEF Name, Labels
    <3> QED
      BY <1>1, <1>2, <1>5, <3>2, <3>4, <3>5 DEF Turn
  <2>4. write_name(w, L, ctx) = [out |-> z, table |-> v.table]
    BY <1>1, <1>2, <1>5
  <2>5. Entries(v.table) /\ Steady(z, v.table, H)
    BY <1>1, <2>3 DEF Turn, Steady
  <2> QED
    BY <2>1, <2>2, <2>4, <2>5
<1> QED
  BY <1>4, <1>5

\* encode_labels raises or returns a name.
LEMMA EncodedIsName ==
  ASSUME NEW text \in Text, encode_labels(text) # Bad
  PROVE  Name(encode_labels(text))
<1> DEFINE u == Undotted(text)
           labels == IF u = <<>> THEN <<>> ELSE Split(u)
<1>1. text \in Octets
  BY Sizes DEF Text, Octets
<1>2. u \in Octets
  <2>1. CASE text # <<>>
    <3>1. Len(text) \in Nat /\ Len(text) - 1 \in 0 .. Len(text)
      BY <1>1, <2>1 DEF Octets
    <3>2. Front(text) \in Octets
      BY <1>1, <3>1, SubSeqProperties DEF Octets, Front
    <3> QED
      BY <1>1, <3>2 DEF Undotted
  <2> QED
    BY <1>1, <2>1 DEF Undotted
<1>3. labels \in Labels
  <2>1. PICK v : (\A k \in 0 .. Len(u) : v[k] \in (Labels \ {<<>>})) /\ Split(u) = v[Len(u)]
    BY <1>2, SplitRuns
  <2>2. Len(u) \in 0 .. Len(u)
    BY <1>2 DEF Octets
  <2>3. Split(u) \in Labels
    BY <2>1, <2>2
  <2> QED
    BY <2>3 DEF Labels
<1>4. encode_labels(text) = labels /\ \A k \in DOMAIN labels : Len(labels[k]) \in 1 .. MAX_LABEL
  BY DEF encode_labels
<1> HIDE DEF labels
<1> QED
  BY <1>3, <1>4 DEF Name

(***************************************************************************)
(* What a message being written may do to its table.                       *)
(***************************************************************************)
\* A steady table stays so while the message grows, and what may still change
\* in the old part was allowed to.
LEMMA SteadyGrows ==
  ASSUME NEW p \in Octets, NEW q \in Octets, Starts(p, q), NEW tab, NEW H, NEW G,
         \A j \in 1 .. Len(p) : j \in G => j \in H, Steady(p, tab, H)
  PROVE  Steady(q, tab, G)
<1> SUFFICES ASSUME NEW o \in Octets, Begins(q, o, G) PROVE Right(o, tab)
  BY DEF Steady
<1>1. Len(p) \in Nat /\ Len(q) \in Nat /\ Len(o) \in Nat
  BY DEF Octets
<1>2. \A j \in 1 .. Len(p) : j \in 1 .. Len(q)
  BY <1>1 DEF Starts
<1>3. Begins(p, o, H)
  BY <1>1, <1>2 DEF Begins, Starts
<1> QED
  BY <1>3 DEF Steady

\* The octet that is written again, at last.
LEMMA SteadyPatched ==
  ASSUME NEW q \in Octets, NEW h \in 1 .. Len(q), NEW x \in Nat, NEW tab, Steady(q, tab, {h}),
         NEW z, z = [q EXCEPT ![h] = x]
  PROVE  z \in Octets /\ Len(z) = Len(q) /\ Steady(z, tab, {})
<1>1. z \in Octets /\ Len(z) = Len(q) /\ \A j \in 1 .. Len(q) : j # h => z[j] = q[j]
  BY DEF Octets
<1>2. \A o \in Octets : Begins(z, o, {}) => Begins(q, o, {h})
  BY <1>1 DEF Begins
<1> QED
  BY <1>1, <1>2 DEF Steady

\* What is being written, and what writing makes of it.
Good(w, H) == w.out \in Octets /\ Entries(w.table) /\ Within(H, w.out) /\ Steady(w.out, w.table, H)
Onto(w, v, H) == Good(v, H) /\ Starts(w.out, v.out) /\ v = [out |-> v.out, table |-> v.table]

LEMMA WithinGrows ==
  ASSUME NEW p \in Octets, NEW q \in Octets, Starts(p, q), NEW H, Within(H, p)
  PROVE  Within(H, q)
<1>1. Len(p) \in Nat /\ Len(q) \in Nat
  BY DEF Octets
<1>2. \A j \in 1 .. Len(p) : j \in 1 .. Len(q)
  BY <1>1 DEF Starts
<1> QED
  BY <1>2 DEF Within

LEMMA OntoName ==
  ASSUME NEW L, Name(L), NEW w, NEW H, Good(w, H), NEW ctx \in BOOLEAN
  PROVE  Onto(w, write_name(w, L, ctx), H)
<1>1. PICK v : v = write_name(w, L, ctx)
  OBVIOUS
<1>2. v.out \in Octets /\ Starts(w.out, v.out) /\ Entries(v.table) /\ Steady(v.out, v.table, H)
  BY <1>1, WriteName DEF Good
<1>3. v = [out |-> v.out, table |-> v.table]
  BY <1>1 DEF write_name
<1>4. Within(H, v.out)
  BY <1>2, WithinGrows DEF Good
<1> QED
  BY <1>1, <1>2, <1>3, <1>4 DEF Onto, Good

\* Octets that are no name are written after the rest, and may leave one of
\* them open.
LEMMA OntoOctets ==
  ASSUME NEW w, NEW H, Good(w, H), NEW x \in Octets, NEW z, z = w.out \o x,
         NEW G, Within(G, z), \A j \in 1 .. Len(w.out) : j \in G => j \in H
  PROVE  Onto(w, [out |-> z, table |-> w.table], G)
<1>1. PICK p \in Octets : p = w.out
  BY DEF Good
<1>2. z \in Octets /\ Starts(p, z)
  BY <1>1, BeginsNamed
<1>3. Steady(z, w.table, G)
  BY <1>1, <1>2, SteadyGrows DEF Good
<1> QED
  BY <1>1, <1>2, <1>3 DEF Onto, Good

LEMMA WrittenOut ==
  ASSUME NEW p, NEW tab, NEW w, w = [out |-> p, table |-> tab], NEW z
  PROVE  [w EXCEPT !.out = z] = [out |-> z, table |-> tab]
  OBVIOUS

LEMMA OntoMore ==
  ASSUME NEW w, NEW H, Good(w, H), w = [out |-> w.out, table |-> w.table], NEW x \in Octets
  PROVE  Onto(w, [w EXCEPT !.out = @ \o x], H)
<1>1. PICK p \in Octets, z \in {w.out \o x} : p = w.out /\ z = p \o x
  BY DEF Good
<1>2. z \in Octets /\ Starts(p, z)
  BY <1>1, BeginsNamed
<1>3. Within(H, z)
  BY <1>1, <1>2, WithinGrows DEF Good
<1>4. Onto(w, [out |-> z, table |-> w.table], H)
  BY <1>1, <1>3, OntoOctets
<1>5. [w EXCEPT !.out = @ \o x] = [out |-> z, table |-> w.table]
  <2>1. PICK tab : tab = w.table
    OBVIOUS
  <2>2. w = [out |-> p, table |-> tab]
    BY <1>1, <2>1
  <2>3. [w EXCEPT !.out = @ \o x] = [w EXCEPT !.out = z]
    BY <1>1
  <2>4. [w EXCEPT !.out = z] = [out |-> z, table |-> tab]
    BY <2>2, WrittenOut
  <2> QED
    BY <2>1, <2>3, <2>4
<1> QED
  BY <1>4, <1>5

\* What is written besides names is octets.
LEMMA NamelessOctets ==
  /\ <<>> \in Octets
  /\ \A text \in Text : text \in Octets /\ <<0>> \o text \in Octets
  /\ \A strings \in Seq(Text) : Chunked(strings) \in Octets
<1>1. Text \subseteq Octets
  BY Sizes DEF Text, Octets
<1>2. ASSUME NEW text \in Text PROVE <<0>> \o text \in Octets
  <2>1. text \in Seq(Nat) /\ <<0>> \in Seq(Nat)
    BY <1>1 DEF Octets
  <2> QED
    BY <2>1 DEF Octets
<1>3. ASSUME NEW strings \in Seq(Text) PROVE Chunked(strings) \in Octets
  <2>1. strings \in Labels
    BY <1>1 DEF Labels
  <2>2. PICK u : (\A k \in 0 .. Len(strings) : u[k] \in Octets) /\ Chunked(strings) = u[Len(strings)]
    BY <2>1, ChunkedRuns
  <2>3. Len(strings) \in 0 .. Len(strings)
    BY <2>1 DEF Labels
  <2> QED
    BY <2>2, <2>3
<1> QED
  BY <1>1, <1>2, <1>3 DEF Octets

\* RDATA is written after its header, unless it cannot be (pack_into).
LEMMA OntoRData ==
  ASSUME NEW w, NEW H, Good(w, H), w = [out |-> w.out, table |-> w.table], NEW data \in RData,
         NEW compress \in BOOLEAN, pack_rdata(w, data, compress).out # <<>>
  PROVE  Onto(w, pack_rdata(w, data, compress), H)
<1> DEFINE labels == IF data.kind \in NamedKinds THEN encode_labels(data.of) ELSE <<>>
           v == pack_rdata(w, data, compress)
<1>1. \/ data.kind \in {"ns", "srv", "a", "ds", "unknown"} /\ data.of \in Text
      \/ data.kind = "txt" /\ data.of \in Seq(Text)
      \/ data.kind = "rrsig" /\ data.of \in Text /\ data.rest \in Text
      \/ data.kind = "https" /\ data.of \in Text /\ data.rest \in Seq(Text)
  BY DEF RData
<1>2. PICK p \in Octets, tab \in {w.table} : p = w.out /\ tab = w.table
  BY DEF Good
<1>3. w = [out |-> p, table |-> tab]
  BY <1>2
<1>4. ASSUME labels = Bad \/ TooLong(data) PROVE FALSE
  <2>1. v = [w EXCEPT !.out = <<>>]
    BY <1>4 DEF pack_rdata
  <2>2. v.out = <<>>
    BY <1>3, <2>1
  <2> QED
    BY <2>2
<1>5. CASE data.kind = "ns"
  <2>1. v = write_name(w, labels, compress)
    BY <1>4, <1>5 DEF pack_rdata
  <2>2. Name(labels)
    BY <1>1, <1>4, <1>5, EncodedIsName DEF NamedKinds
  <2> HIDE DEF labels, v
  <2>3. Onto(w, v, H)
    BY <2>1, <2>2, OntoName
  <2> QED
    BY <2>3 DEF v
<1>6. CASE data.kind \in {"srv", "rrsig", "https"}
  <2>1. v = [write_name([w EXCEPT !.out = Append(@, 0)], labels, FALSE) EXCEPT !.out = @ \o AfterName(data)]
    BY <1>4, <1>6 DEF pack_rdata
  <2>2. Name(labels)
    BY <1>1, <1>4, <1>6, EncodedIsName DEF NamedKinds
  <2>3. <<0>> \in Octets
    BY DEF Octets
  <2>4. Append(w.out, 0) = w.out \o <<0>>
    BY <1>2, AppendIs DEF Octets
  <2>5. PICK w2 : w2 = [w EXCEPT !.out = @ \o <<0>>]
    OBVIOUS
  <2>6. Onto(w, w2, H)
    BY <2>3, <2>5, OntoMore
  <2>7. PICK w3 : w3 = write_name(w2, labels, FALSE)
    OBVIOUS
  <2>8. v = [w3 EXCEPT !.out = @ \o AfterName(data)]
    BY <2>1, <2>4, <2>5, <2>7
  <2>9. AfterName(data) \in Octets
    BY <1>1, <1>6, NamelessOctets DEF AfterName
  <2> HIDE DEF labels, v
  <2>10. Onto(w2, w3, H)
    BY <2>2, <2>6, <2>7, OntoName DEF Onto
  <2>11. Onto(w3, v, H)
    BY <2>8, <2>9, <2>10, OntoMore DEF Onto
  <2>12. Onto(w, v, H)
    <3>1. w2.out \in Octets /\ w3.out \in Octets /\ v.out \in Octets
      BY <2>6, <2>10, <2>11 DEF Onto, Good
    <3> QED
      BY <1>2, <2>6, <2>10, <2>11, <3>1, StartsTransitive DEF Onto, Good
  <2> QED
    BY <2>12 DEF v
<1>7. CASE data.kind \in {"a", "ds", "txt", "unknown"}
  <2>1. PICK x : /\ x \in Octets
                 /\ v = [w EXCEPT !.out = @ \o x]
    <3>1. CASE data.kind = "txt"
      <4>1. v = [w EXCEPT !.out = @ \o Chunked(data.of)]
        BY <1>4, <3>1 DEF pack_rdata, NamedKinds
      <4>2. Chunked(data.of) \in Octets
        BY <1>1, <3>1, NamelessOctets
      <4> QED
        BY <4>1, <4>2
    <3>2. CASE data.kind = "ds"
      <4>1. v = [w EXCEPT !.out = @ \o (<<0>> \o data.of)]
        BY <1>4, <3>2 DEF pack_rdata, NamedKinds
      <4>2. <<0>> \o data.of \in Octets
        BY <1>1, <3>2, NamelessOctets
      <4> QED
        BY <4>1, <4>2
    <3>3. CASE data.kind \in {"a", "unknown"}
      <4>1. v = [w EXCEPT !.out = @ \o data.of]
        BY <1>4, <3>3 DEF pack_rdata, NamedKinds
      <4>2. data.of \in Octets
        BY <1>1, <3>3, NamelessOctets
      <4> QED
        BY <4>1, <4>2
    <3> QED
      BY <1>7, <3>1, <3>2, <3>3
  <2> HIDE DEF v
  <2>2. Onto(w, v, H)
    BY <2>1, OntoMore
  <2> QED
    BY <2>2 DEF v
<1>8. data.kind \in NamedKinds \cup {"a", "ds", "txt", "unknown"}
  BY <1>1 DEF NamedKinds
<1> HIDE DEF labels, v
<1> QED
  BY <1>5, <1>6, <1>7, <1>8 DEF NamedKinds, v

(***************************************************************************)
(* The table while a message is packed.                                    *)
(***************************************************************************)
DnsInv ==
  /\ msg \in Message /\ i \in Nat
  /\ Good([out |-> out, table |-> table], {})

LEMMA DnsInvInit == DnsInit => DnsInv
<1> SUFFICES ASSUME DnsInit PROVE DnsInv
  OBVIOUS
<1>1. msg \in Message
  <2>1. NoMessage \in Message
    BY DEF NoMessage, Message
  <2> QED
    BY <2>1, DnsAssumption DEF DnsInit
<1>2. table = Nothing /\ DOMAIN Nothing = {}
  BY DEF DnsInit, Nothing
<1>3. Entries(Nothing)
  <2>1. Nothing \in [{} -> Nat] /\ {} \in SUBSET Labels
    BY DEF Nothing
  <2>2. Nothing \in Tables
    BY <2>1 DEF Tables
  <2> QED
    BY <1>2, <2>2 DEF Entries
<1>4. Steady(out, Nothing, {})
  BY <1>2 DEF Steady, Right
<1>5. out \in Octets /\ Within({}, out)
  BY DEF DnsInit, Octets, Within
<1> QED
  BY <1>1, <1>2, <1>3, <1>4, <1>5 DEF DnsInv, Good, DnsInit

LEMMA DnsInvHeader == DnsInv /\ PackHeader => DnsInv'
<1> SUFFICES ASSUME DnsInv, PackHeader PROVE DnsInv'
  OBVIOUS
<1>1. PICK x \in Octets : x = <<Len(msg.questions), Len(msg.records)>>
  <2>1. Len(msg.questions) \in Nat /\ Len(msg.records) \in Nat
    BY DEF DnsInv, Message
  <2>2. <<Len(msg.questions), Len(msg.records)>> \in Octets
    BY <2>1 DEF Octets
  <2> QED
    BY <2>2
<1>2. out = <<>> /\ out' = x /\ table' = table /\ msg' = msg /\ i' = i
  BY <1>1 DEF PackHeader
<1>3. <<>> \in Octets /\ Starts(<<>>, x)
  BY <1>1 DEF Octets, Starts
<1>4. Entries(table) /\ Steady(<<>>, table, {})
  BY <1>2 DEF DnsInv, Good
<1>5. Steady(x, table, {})
  BY <1>3, <1>4, SteadyGrows
<1>6. Within({}, x)
  BY DEF Within
<1> QED
  BY <1>2, <1>4, <1>5, <1>6 DEF DnsInv, Good

LEMMA DnsInvQuestion == DnsInv /\ PackQuestion => DnsInv'
<1> SUFFICES ASSUME DnsInv, PackQuestion PROVE DnsInv'
  OBVIOUS
<1> DEFINE labels == encode_labels(msg.questions[i + 1])
<1>1. msg' = msg /\ i' = i + 1 /\ i' \in Nat
  BY DEF DnsInv, PackQuestion
<1>2. CASE labels = Bad
  BY <1>1, <1>2 DEF PackQuestion, Raise, DnsInv
<1>3. CASE labels # Bad
  <2>1. msg.questions \in Seq(Text) /\ msg.compress \in BOOLEAN /\ i \in Nat /\ i < Len(msg.questions)
    BY DEF DnsInv, PackQuestion, Message
  <2>2. msg.questions[i + 1] \in Text
    BY <2>1
  <2>3. Name(labels)
    BY <1>3, <2>2, EncodedIsName
  <2>4. PICK w : w = write_name([out |-> out, table |-> table], labels, msg.compress) /\ Write([w EXCEPT !.out = Append(@, 1)])
    BY <1>3 DEF PackQuestion
  <2> HIDE DEF labels
  <2>5. Onto([out |-> out, table |-> table], w, {})
    BY <2>1, <2>3, <2>4, OntoName DEF DnsInv
  <2>6. Good(w, {}) /\ w = [out |-> w.out, table |-> w.table]
    BY <2>5 DEF Onto
  <2>7. PICK p \in Octets : p = w.out
    BY <2>6 DEF Good
  <2>8. Append(p, 1) = p \o <<1>> /\ <<1>> \in Octets
    <3>1. <<1>> \in Octets
      BY DEF Octets
    <3>2. p \in Seq(Nat) /\ 1 \in Nat
      BY DEF Octets
    <3>3. Append(p, 1) = p \o <<1>>
      BY <3>2, AppendIs
    <3> QED
      BY <3>1, <3>3
  <2>9. PICK v : v = [w EXCEPT !.out = @ \o <<1>>]
    OBVIOUS
  <2>10. Good(v, {})
    BY <2>6, <2>8, <2>9, OntoMore DEF Onto
  <2>11. out' = v.out /\ table' = v.table
    BY <2>4, <2>7, <2>8, <2>9 DEF Write
  <2> QED
    BY <1>1, <2>10, <2>11 DEF DnsInv, Good
<1> QED
  BY <1>2, <1>3

LEMMA DnsInvRecord == DnsInv /\ PackRecord => DnsInv'
<1> SUFFICES ASSUME DnsInv, PackRecord PROVE DnsInv'
  OBVIOUS
<1>0. i >= Len(msg.questions) /\ i < Len(msg.questions) + Len(msg.records) /\ i' = i + 1 /\ msg' = msg
  BY DEF PackRecord
<1> DEFINE n == i - Len(msg.questions) + 1
           rec == msg.records[n]
           labels == encode_labels(rec.name)
           w0 == [out |-> out, table |-> table]
<1>1. msg' = msg /\ i' = i + 1 /\ i' \in Nat
  BY <1>0 DEF DnsInv
<1>2. out' = out /\ table' = table => DnsInv'
  BY <1>1 DEF DnsInv, Good
<1>3. rec.name \in Text /\ rec.data \in RData /\ rec.data.rtype \in Nat /\ msg.compress \in BOOLEAN
  <2>1. msg.records \in Seq([name : Text, data : RData]) /\ msg.compress \in BOOLEAN /\ msg.questions \in Seq(Text)
    BY DEF DnsInv, Message
  <2>2. n \in 1 .. Len(msg.records)
    <3>1. PICK a \in Nat, b \in Nat, j \in Nat : a = Len(msg.questions) /\ b = Len(msg.records) /\ j = i
      BY <2>1 DEF DnsInv
    <3>2. j >= a /\ j < a + b
      BY <1>0, <3>1
    <3>3. j - a + 1 \in 1 .. b
      BY <3>2
    <3> QED
      BY <3>1, <3>3
  <2>3. rec \in [name : Text, data : RData]
    <3>1. PICK rs, m : rs = msg.records /\ m = n
      OBVIOUS
    <3>2. \A S : \A s \in Seq(S) : \A k \in 1 .. Len(s) : s[k] \in S
      OBVIOUS
    <3> HIDE DEF n
    <3>3. rs[m] \in [name : Text, data : RData]
      BY <2>1, <2>2, <3>1, <3>2
    <3> QED
      BY <3>1, <3>3
  <2>4. rec.data.rtype \in 0 .. Octet - 1
    BY <2>3 DEF RData
  <2> QED
    BY <2>1, <2>3, <2>4, Sizes
<1>4. CASE labels = Bad
  BY <1>2, <1>4 DEF PackRecord, Raise
<1>5. CASE labels # Bad
  <2> DEFINE hdr == <<rec.data.rtype, 0>>
  <2>1. Name(labels)
    BY <1>3, <1>5, EncodedIsName
  <2>2. PICK w : /\ w = write_name(w0, labels, msg.compress)
                 /\ \E body \in {pack_rdata([w EXCEPT !.out = @ \o hdr], rec.data, msg.compress)} :
                      IF body.out = <<>> THEN Raise
                      ELSE LET rdlength == Len(body.out) - (Len(w.out) + 2) IN
                           IF rdlength >= Octet THEN Raise
                           ELSE Write([body EXCEPT !.out[Len(w.out) + 2] = rdlength])
    BY <1>5 DEF PackRecord
  <2>3. PICK v : v = [w EXCEPT !.out = @ \o hdr]
    OBVIOUS
  <2>4. PICK body : /\ body = pack_rdata(v, rec.data, msg.compress)
                    /\ IF body.out = <<>> THEN Raise
                       ELSE LET rdlength == Len(body.out) - (Len(w.out) + 2) IN
                            IF rdlength >= Octet THEN Raise
                            ELSE Write([body EXCEPT !.out[Len(w.out) + 2] = rdlength])
    BY <2>2, <2>3
  <2>5. Onto(w0, w, {})
    <3> HIDE DEF labels
    <3> QED
      BY <1>3, <2>1, <2>2, OntoName DEF DnsInv
  <2>6. Good(w, {}) /\ w = [out |-> w.out, table |-> w.table]
    BY <2>5 DEF Onto
  <2>7. PICK p \in Octets, tab \in {w.table} : p = w.out /\ tab = w.table
    BY <2>6 DEF Good
  <2>8. hdr \in Octets /\ Len(hdr) = 2
    BY <1>3 DEF Octets
  <2>9. PICK z, h : z = p \o hdr /\ h = Len(p) + 2
    OBVIOUS
  <2>10. z \in Octets /\ Len(z) = Len(p) + 2 /\ Len(p) \in Nat
    <3> HIDE DEF hdr
    <3>1. z \in Octets /\ Len(z) = Len(p) + Len(hdr)
      BY <2>8, <2>9, BeginsNamed
    <3> QED
      BY <2>8, <3>1 DEF Octets
  <2>11. Within({h}, z) /\ \A j \in 1 .. Len(p) : j \in {h} => j \in {}
    BY <2>9, <2>10 DEF Within
  <2>12. v = [out |-> z, table |-> tab]
    <3>1. w = [out |-> p, table |-> tab]
      BY <2>6, <2>7
    <3>2. v = [w EXCEPT !.out = z]
      BY <2>3, <2>7, <2>9
    <3> QED
      BY <3>1, <3>2, WrittenOut
  <2> HIDE DEF hdr, rec, labels, w0
  <2>13. Good(v, {h}) /\ v = [out |-> v.out, table |-> v.table]
    <3>1. Onto(w, [out |-> z, table |-> w.table], {h})
      BY <2>6, <2>7, <2>8, <2>9, <2>11, OntoOctets
    <3> QED
      BY <2>7, <2>12, <3>1 DEF Onto
  <2>14. CASE body.out = <<>>
    BY <1>2, <2>4, <2>14 DEF Raise
  <2>15. CASE body.out # <<>>
    <3>1. Onto(v, body, {h})
      BY <1>3, <2>4, <2>13, <2>15, OntoRData
    <3>2. PICK q \in Octets, t \in {body.table} : q = body.out /\ t = body.table
      BY <3>1 DEF Onto, Good
    <3>3. body = [out |-> q, table |-> t]
      BY <3>1, <3>2 DEF Onto
    <3>4. h \in 1 .. Len(q) /\ Entries(t) /\ Steady(q, t, {h})
      BY <3>1, <3>2 DEF Onto, Good, Within
    <3>5. CASE Len(q) - (Len(w.out) + 2) >= Octet
      BY <1>2, <2>4, <2>15, <3>2, <3>5 DEF Raise
    <3>6. CASE ~(Len(q) - (Len(w.out) + 2) >= Octet)
      <4>1. PICK x : x = Len(q) - (Len(w.out) + 2)
        OBVIOUS
      <4>2. x \in Nat
        <5>1. x = Len(q) - h /\ h \in Nat /\ Len(q) \in Nat
          BY <2>7, <2>9, <2>10, <4>1 DEF Octets
        <5> QED
          BY <3>4, <5>1
      <4>3. Write([body EXCEPT !.out[Len(w.out) + 2] = x])
        BY <2>4, <2>15, <3>2, <3>6, <4>1
      <4>4. PICK y : y = [q EXCEPT ![h] = x]
        OBVIOUS
      <4>5. out' = y /\ table' = t
        BY <2>7, <2>9, <3>3, <4>3, <4>4 DEF Write
      <4>6. y \in Octets /\ Steady(y, t, {})
        BY <3>4, <4>2, <4>4, SteadyPatched
      <4>7. Within({}, y)
        BY DEF Within
      <4> QED
        BY <1>1, <3>4, <4>5, <4>6, <4>7 DEF DnsInv, Good
    <3> QED
      BY <3>5, <3>6
  <2> QED
    BY <2>14, <2>15
<1> QED
  BY <1>4, <1>5

\* Nothing else writes.
LEMMA DnsInvKept == DnsInv /\ UNCHANGED <<msg, out, table, i>> => DnsInv'
  BY DEF DnsInv, Good

LEMMA DnsInvNext == DnsInv /\ [DnsNext]_vars => DnsInv'
<1> SUFFICES ASSUME DnsInv, [DnsNext]_vars PROVE DnsInv'
  OBVIOUS
<1>1. CASE PackHeader \/ PackQuestion \/ PackRecord
  BY <1>1, DnsInvHeader, DnsInvQuestion, DnsInvRecord
<1>2. CASE Deliver
  BY <1>2, DnsInvKept DEF Deliver
<1>3. CASE MessageHeader \/ ReadNext \/ ReadQuestion \/ ReadRecord \/ ReadRData
           \/ RunsPast \/ NameEnds \/ FollowPointer \/ BadLabelType \/ ReadLabel
  <2>1. Keep' = Keep
    <3>1. ASSUME NEW s, Read(s) PROVE Keep' = Keep
      BY <3>1 DEF Read, Keep
    <3>2. ASSUME NEW s, NEW part, Decode(s, part) PROVE Keep' = Keep
      BY <3>2 DEF Decode, Keep
    <3>3. Refuse => Keep' = Keep
      BY DEF Refuse, Keep
    <3>4. CASE MessageHeader
      BY <3>1, <3>3, <3>4 DEF MessageHeader
    <3>5. CASE ReadNext
      BY <3>2, <3>5 DEF ReadNext, Keep
    <3>6. CASE ReadQuestion
      BY <3>1, <3>3, <3>6 DEF ReadQuestion
    <3>7. CASE ReadRecord
      <4> DEFINE kind == KindOf(At(r.off))
                 start == r.off + 2
                 s == [r EXCEPT !.off = start, !.end = start + At(r.off + 1), !.owner = r.text, !.rtype = At(r.off)]
      <4>1. \/ Refuse
            \/ \E of \in {Slice(start, s.end), Slice(start + 1, s.end), Chunks(start, s.end)} :
                 Read(Record(s, r.text, kind, of, <<>>))
            \/ Decode(s, "rdata") \/ Decode([s EXCEPT !.off = start + 1], "rdata")
        BY <3>7 DEF ReadRecord
      <4> HIDE DEF kind, start, s, Keep
      <4> QED
        BY <3>1, <3>2, <3>3, <4>1
    <3>8. CASE ReadRData
      <4>1. \/ Refuse
            \/ \E rest \in {<<>>, Slice(r.off, r.end), Chunks(r.off, r.end)} :
                 Read(Record(r, r.owner, KindOf(r.rtype), r.text, rest))
        BY <3>8 DEF ReadRData
      <4> QED
        BY <3>1, <3>3, <4>1
    <3>9. CASE RunsPast \/ BadLabelType
      BY <3>3, <3>9 DEF RunsPast, BadLabelType
    <3>10. CASE NameEnds
      BY <3>1, <3>10 DEF NameEnds
    <3>11. CASE FollowPointer
      BY <3>3, <3>11 DEF FollowPointer, Keep
    <3>12. CASE ReadLabel
      BY <3>3, <3>12 DEF ReadLabel, Keep
    <3> QED
      BY <1>3, <3>4, <3>5, <3>6, <3>7, <3>8, <3>9, <3>10, <3>11, <3>12
  <2> QED
    BY <2>1, DnsInvKept DEF Keep
<1>4. CASE Over \/ UNCHANGED vars
  BY <1>4, DnsInvKept DEF Over, vars
<1> QED
  BY <1>1, <1>2, <1>3, <1>4 DEF DnsNext, DnsStep

(***************************************************************************)
(* What is spelt, Spells finds.                                            *)
(***************************************************************************)
LEMMA HopLeads ==
  ASSUME out \in Octets, NEW p \in Nat, NEW q \in Nat, Leads(out, p, q), q < Len(out), out[q + 1] < 3 * 2 ^ LenBits
  PROVE  Hop(p) = q
<1>1. PICK n \in Nat : n = 3 * 2 ^ LenBits
  BY Sizes
<1>2. out[q + 1] \in Int
  BY DEF Octets
<1>3. CASE p = q
  <2>1. ~(out[p + 1] >= 3 * 2 ^ LenBits)
    BY <1>1, <1>2, <1>3
  <2> QED
    BY <1>3, <2>1 DEF Hop
<1>4. CASE PointerAt(out, p, q)
  BY <1>4 DEF PointerAt, Hop
<1> QED
  BY <1>3, <1>4 DEF Leads

\* A label that is written where p leads is read from p.
LEMMA AfterLabel ==
  ASSUME out \in Octets, NEW p \in Nat, NEW q \in Nat, Leads(out, p, q), NEW label \in Octets,
         Len(label) \in 1 .. MAX_LABEL, LabelAt(out, q, label)
  PROVE  After(p, label) = q + 1 + Len(label)
<1> DEFINE n == Len(label)
           x == <<n>> \o label
           y == SubSeq(out, q + 1, q + 1 + n)
<1>1. n \in Nat /\ Len(out) \in Nat /\ q + 1 + n <= Len(out) /\ out[q + 1] = n /\ \A j \in 1 .. n : out[q + 1 + j] = label[j]
  BY DEF LabelAt, Octets
<1>2. q < Len(out) /\ q + n < Len(out)
  BY <1>1
<1>3. n < 3 * 2 ^ LenBits
  BY Sizes
<1>4. Hop(p) = q
  BY <1>1, <1>2, <1>3, HopLeads
<1>5. x \in Octets /\ Len(x) = n + 1 /\ x[1] = n /\ \A j \in 1 .. n : x[1 + j] = label[j]
  BY LabelIs
<1>6. y \in Octets /\ Len(y) = n + 1 /\ \A j \in 1 .. (n + 1) : y[j] = out[q + j]
  <2>1. q + 1 \in Nat /\ q + 1 + n \in Nat /\ q + 1 >= 1 /\ q + 1 + n <= Len(out)
    BY <1>1
  <2>2. \A j \in 1 .. (n + 1) : q + 1 + j - 1 = q + j
    BY <1>1
  <2>3. y \in Seq(Nat) /\ Len(y) = n + 1 /\ \A j \in 1 .. (n + 1) : y[j] = out[q + 1 + j - 1]
    <3>1. \A j \in (q + 1) .. (q + 1 + n) : out[j] \in Nat
      BY <1>1, <2>1 DEF Octets
    <3> HIDE DEF n
    <3> QED
      BY <1>1, <2>1, <3>1 DEF Octets
  <2> QED
    BY <2>2, <2>3 DEF Octets
<1>7. \A j \in 1 .. (n + 1) : y[j] = x[j]
  <2> TAKE j \in 1 .. (n + 1)
  <2>1. CASE j = 1
    BY <1>1, <1>5, <1>6, <2>1
  <2>2. CASE j # 1
    <3>1. PICK k \in 1 .. n : j = 1 + k
      BY <1>1, <2>2
    <3>2. q + j = q + 1 + k
      BY <3>1
    <3> QED
      BY <1>1, <1>5, <1>6, <3>1, <3>2
  <2> QED
    BY <2>1, <2>2
<1> HIDE DEF x, y
<1>8. y = x
  BY <1>5, <1>6, <1>7, SeqEqual DEF Octets
<1>9. p >= 0 /\ q + n < Len(out) /\ SubSeq(out, q + 1, q + 1 + n) = <<n>> \o label
  BY <1>2, <1>8 DEF x, y
<1> QED
  BY <1>4, <1>9 DEF After

LEMMA SpellsRuns ==
  ASSUME out \in Octets, NEW pos \in Int, NEW labels \in Labels
  PROVE  \E u : /\ u[0] = pos
                /\ \A k \in 1 .. Len(labels) : u[k] = After(u[k - 1], labels[k])
                /\ Spells(pos, labels) <=>
                     /\ u[Len(labels)] >= 0 /\ Hop(u[Len(labels)]) < Len(out)
                     /\ out[Hop(u[Len(labels)]) + 1] = 0
<1> DEFINE n == Len(labels)
           S == Int
           b == pos
           Step(k, x) == After(x, labels[k])
           st == [p \in (1 .. n) \X S |-> Step(p[1], p[2])]
           Eq(g) == g = [k \in 0 .. n |-> IF k = 0 THEN b ELSE Step(k, g[k - 1])]
           f == CHOOSE g : Eq(g)
<1>1. n \in Nat /\ \A k \in 1 .. n : labels[k] \in Octets /\ Len(labels[k]) \in Nat
  BY DEF Labels, Octets
<1>2. \A k \in 1 .. n : \A x \in S : Step(k, x) \in S
  <2> TAKE k \in 1 .. n
  <2> TAKE x \in S
  <2>1. ASSUME x >= 0 PROVE After(x, labels[k]) \in Int
    <3>1. x \in Nat /\ Len(out) \in Nat
      BY <2>1 DEF Octets
    <3>2. Hop(x) \in Int
      <4>1. CASE x + 1 < Len(out)
        <5>1. out[x + 1] \in Int /\ out[x + 2] \in Int
          BY <3>1, <4>1 DEF Octets
        <5>2. out[x + 1] % 2 ^ LenBits \in Int
          BY <5>1, Sizes
        <5>3. (out[x + 1] % 2 ^ LenBits) * Octet + out[x + 2] \in Int
          <6>1. PICK a \in Int, c \in Int, d \in Int : a = out[x + 1] % 2 ^ LenBits /\ c = Octet /\ d = out[x + 2]
            <7>1. Octet \in Int
              BY Sizes
            <7> QED
              BY <5>1, <5>2, <7>1
          <6>2. a * c + d \in Int
            OBVIOUS
          <6> QED
            BY <6>1, <6>2
        <5> QED
          BY <5>3 DEF Hop
      <4> QED
        BY <3>1, <4>1 DEF Hop
    <3> QED
      BY <1>1, <3>1, <3>2 DEF After
  <2>2. ~(x >= 0) => After(x, labels[k]) = -1
    BY DEF After
  <2> QED
    BY <2>1, <2>2
<1>3. b \in S
  OBVIOUS
<1>4. \A k \in 1 .. n : \A x \in S : st[<<k, x>>] = Step(k, x)
  OBVIOUS
<1>5. Spells(pos, labels) <=> f[n] >= 0 /\ Hop(f[n]) < Len(out) /\ out[Hop(f[n]) + 1] = 0
  BY DEF Spells
<1>0. n \in Nat
  BY <1>1
<1> HIDE DEF st, n, Step, S, b
<1>6. PICK g : g \in [0 .. n -> S] /\ Iterates(g, st, b, n)
  <2>1. Steps(st, n, S)
    BY <1>2, <1>4 DEF Steps
  <2> QED
    BY <1>0, <1>3, <2>1, IterExists
<1>7. Eq(g)
  <2>1. \A k \in 0 .. n : g[k] = IF k = 0 THEN b ELSE Step(k, g[k - 1])
    <3> TAKE k \in 0 .. n
    <3>1. k = 0 \/ (k # 0 /\ k \in 1 .. n /\ k - 1 \in 0 .. n)
      BY <1>0
    <3> QED
      BY <1>4, <1>6, <3>1 DEF Iterates
  <2> QED
    BY <1>6, <2>1
<1>8. Eq(f)
  BY <1>7
<1> HIDE DEF f
<1>9. f[0] = b /\ \A k \in 1 .. n : f[k] = Step(k, f[k - 1])
  BY <1>0, <1>8
<1> QED
  BY <1>5, <1>9 DEF n, Step, S, b

LEMMA SpeltSpells ==
  ASSUME out \in Octets, NEW s, Name(s), s # <<>>, NEW t \in Nat, Spelt(out, t, s)
  PROVE  Spells(t, s)
<1> DEFINE n == Len(s)
<1>1. PICK f : Path(out, f, s) /\ f[1] = t
  BY DEF Spelt
<1>2. n \in Nat /\ n >= 1 /\ \A k \in 1 .. n : s[k] \in Octets /\ Len(s[k]) \in 1 .. MAX_LABEL /\ Len(s[k]) \in Nat
  <2>1. s \in Seq(Octets) /\ DOMAIN s = 1 .. Len(s)
    BY DEF Name, Labels
  <2>2. \A k \in 1 .. n : s[k] \in Octets /\ Len(s[k]) \in 1 .. MAX_LABEL
    BY <2>1 DEF Name
  <2> QED
    BY <2>1, <2>2, Sizes
<1>3. PICK u : /\ u[0] = t
               /\ \A k \in 1 .. n : u[k] = After(u[k - 1], s[k])
               /\ Spells(t, s) <=> u[n] >= 0 /\ Hop(u[n]) < Len(out) /\ out[Hop(u[n]) + 1] = 0
  BY SpellsRuns DEF Name
<1>4. /\ \A k \in 1 .. (n + 1) : f[k] \in Nat
      /\ \A k \in 1 .. n : LabelAt(out, f[k], s[k]) /\ Leads(out, f[k] + 1 + Len(s[k]), f[k + 1])
      /\ f[n + 1] < Len(out) /\ out[f[n + 1] + 1] = 0
  BY <1>1 DEF Path
<1> DEFINE In(k, p) == p \in Nat /\ Leads(out, p, f[k + 1])
           T == [k \in 0 .. n |-> {p \in Nat : In(k, p)}]
<1> HIDE DEF n
<1>5. u[0] \in T[0]
  <2>1. In(0, t)
    BY <1>1 DEF Leads
  <2> QED
    BY <1>2, <1>3, <2>1
<1>6. ASSUME NEW k \in 1 .. n, u[k - 1] \in T[k - 1] PROVE u[k] \in T[k]
  <2>1. k \in Nat /\ k - 1 \in 0 .. n /\ k \in 0 .. n /\ k \in 1 .. (n + 1) /\ (k - 1) + 1 = k
    BY <1>2
  <2>2. u[k - 1] \in Nat /\ Leads(out, u[k - 1], f[k])
    BY <1>6, <2>1
  <2>3. u[k] = f[k] + 1 + Len(s[k])
    BY <1>2, <1>3, <1>4, <2>1, <2>2, AfterLabel
  <2>4. u[k] \in Nat
    BY <1>2, <1>4, <2>1, <2>3
  <2>5. In(k, u[k])
    BY <1>4, <2>3, <2>4
  <2> QED
    BY <2>1, <2>5
<1>7. \A k \in 0 .. n : u[k] \in T[k]
  <2> HIDE DEF T
  <2> QED
    BY <1>2, <1>5, <1>6, IterStays
<1>8. n \in 0 .. n /\ n + 1 \in 1 .. (n + 1)
  BY <1>2
<1>9. u[n] \in Nat /\ Leads(out, u[n], f[n + 1])
  BY <1>7, <1>8
<1>10. f[n + 1] \in Nat /\ out[f[n + 1] + 1] < 3 * 2 ^ LenBits
  BY <1>4, <1>8, Sizes
<1>11. Hop(u[n]) = f[n + 1]
  BY <1>4, <1>9, <1>10, HopLeads
<1>12. Spells(t, s)
  BY <1>3, <1>4, <1>9, <1>11
<1> QED
  BY <1>12

LEMMA InvTables == DnsInv => TableNames
<1> SUFFICES ASSUME DnsInv, NEW s \in DOMAIN table PROVE Spells(table[s], s)
  BY DEF TableNames
<1>1. out \in Octets /\ Entries(table) /\ Steady(out, table, {})
  BY DEF DnsInv, Good
<1>2. Begins(out, out, {})
  BY <1>1 DEF Begins, Octets
<1>3. Spelt(out, table[s], s)
  BY <1>1, <1>2 DEF Steady, Right
<1>4. Name(s) /\ s # <<>> /\ table[s] \in Nat
  BY <1>1, Sizes DEF Entries
<1> QED
  BY <1>1, <1>3, <1>4, SpeltSpells

\* However long a message grows and wherever it is compressed, every offset
\* that ctx["dns_names"] keeps spells the suffix it is kept for, the lengths
\* patched in since notwithstanding (write_name, ResourceRecord.pack_into).
THEOREM DnsTables == DnsSpec => []TableNames
<1>1. DnsSpec => []DnsInv
  BY DnsInvInit, DnsInvNext, PTL DEF DnsSpec
<1> QED
  BY <1>1, InvTables, PTL

(***************************************************************************)
(* Splitting what was joined.                                              *)
(***************************************************************************)
LEMMA SplitType == ASSUME NEW x \in Octets PROVE Split(x) \in Labels \ {<<>>}
<1>1. PICK u : (\A k \in 0 .. Len(x) : u[k] \in (Labels \ {<<>>})) /\ Split(x) = u[Len(x)]
  BY SplitRuns
<1>2. Len(x) \in 0 .. Len(x)
  BY DEF Octets
<1> QED
  BY <1>1, <1>2

LEMMA SplitNone == Split(<<>>) = << <<>> >>
<1>1. <<>> \in Octets /\ Len(<<>>) = 0
  BY DEF Octets
<1>2. PICK x \in Octets : x = <<>> /\ Len(x) = 0
  BY <1>1
<1>3. PICK u : u[0] = << <<>> >> /\ Split(x) = u[Len(x)]
  BY SplitRuns
<1> QED
  BY <1>2, <1>3

LEMMA SplitAppend ==
  ASSUME NEW x \in Octets, NEW c \in Nat
  PROVE  Split(Append(x, c)) = Put(Split(x), c)
<1> DEFINE n == Len(x)
<1>1. PICK y : y = Append(x, c)
  OBVIOUS
<1>2. n \in Nat /\ y \in Octets /\ Len(y) = n + 1 /\ y[n + 1] = c /\ \A k \in 1 .. n : y[k] = x[k]
  BY <1>1 DEF Octets
<1>3. PICK u : /\ u[0] = << <<>> >>
               /\ \A k \in 1 .. n : u[k] = Put(u[k - 1], x[k])
               /\ Split(x) = u[n]
  BY SplitRuns
<1>4. PICK v : /\ v[0] = << <<>> >>
               /\ \A k \in 1 .. Len(y) : v[k] = Put(v[k - 1], y[k])
               /\ Split(y) = v[Len(y)]
  BY <1>2, SplitRuns
<1> DEFINE T == [k \in 0 .. n |-> {u[k]}]
<1> HIDE DEF n
<1>5. v[0] \in T[0]
  BY <1>2, <1>3, <1>4
<1>6. ASSUME NEW k \in 1 .. n, v[k - 1] \in T[k - 1] PROVE v[k] \in T[k]
  <2>1. k - 1 \in 0 .. n /\ k \in 0 .. n /\ k \in 1 .. (n + 1)
    BY <1>2
  <2>2. v[k - 1] = u[k - 1]
    BY <1>6, <2>1
  <2>3. v[k] = u[k]
    BY <1>2, <1>3, <1>4, <2>1, <2>2
  <2> QED
    BY <2>1, <2>3
<1>7. \A k \in 0 .. n : v[k] \in T[k]
  <2> HIDE DEF T
  <2> QED
    BY <1>2, <1>5, <1>6, IterStays
<1>8. n \in 0 .. n /\ n + 1 \in 1 .. (n + 1) /\ (n + 1) - 1 = n
  BY <1>2
<1>9. v[n] = u[n]
  BY <1>7, <1>8
<1> QED
  BY <1>1, <1>2, <1>3, <1>4, <1>8, <1>9

LEMMA Concatenated ==
  ASSUME NEW a \in Seq(Nat), NEW p \in Seq(Nat)
  PROVE  /\ a \o p \in Seq(Nat) /\ Len(a \o p) = Len(a) + Len(p)
         /\ \A k \in 1 .. (Len(a) + Len(p)) : (a \o p)[k] = IF k <= Len(a) THEN a[k] ELSE p[k - Len(a)]
  OBVIOUS

LEMMA OneMore ==
  ASSUME NEW a \in Octets, NEW y \in Octets, NEW j \in 1 .. Len(y)
  PROVE  /\ a \o SubSeq(y, 1, j) \in Octets /\ a \o SubSeq(y, 1, j - 1) \in Octets
         /\ a \o SubSeq(y, 1, j) = Append(a \o SubSeq(y, 1, j - 1), y[j])
<1>0. a \in Seq(Nat) /\ y \in Seq(Nat)
  BY DEF Octets
<1>1. j \in Nat /\ j - 1 \in Nat /\ Len(y) \in Nat /\ j <= Len(y) /\ y[j] \in Nat
  BY <1>0
<1>2. PICK la \in Nat : la = Len(a)
  BY <1>0
<1>3. PICK p : p = SubSeq(y, 1, j)
  OBVIOUS
<1>4. p \in Seq(Nat) /\ Len(p) = j /\ \A k \in 1 .. j : p[k] = y[k]
  BY <1>0, <1>1, <1>3
<1>5. PICK q : q = SubSeq(y, 1, j - 1)
  OBVIOUS
<1>6. q \in Seq(Nat) /\ Len(q) = j - 1 /\ \A k \in 1 .. (j - 1) : q[k] = y[k]
  BY <1>0, <1>1, <1>5
<1>7. PICK s : s = a \o p
  OBVIOUS
<1>8. /\ s \in Seq(Nat) /\ Len(s) = la + j
      /\ \A k \in 1 .. (la + j) : s[k] = IF k <= la THEN a[k] ELSE p[k - la]
  BY <1>0, <1>2, <1>4, <1>7, Concatenated
<1>9. PICK x : x = a \o q
  OBVIOUS
<1>10. /\ x \in Seq(Nat) /\ Len(x) = la + (j - 1)
      /\ \A k \in 1 .. (la + (j - 1)) : x[k] = IF k <= la THEN a[k] ELSE q[k - la]
  <2>1. /\ x \in Seq(Nat) /\ Len(x) = la + Len(q)
        /\ \A k \in 1 .. (la + Len(q)) : x[k] = IF k <= la THEN a[k] ELSE q[k - la]
    BY <1>0, <1>2, <1>6, <1>9, Concatenated
  <2> QED
    BY <1>6, <2>1, Zenon
<1>11. PICK c \in Nat : c = y[j]
  BY <1>1
<1>12. PICK z : z = Append(x, c)
  OBVIOUS
<1>13. z \in Seq(Nat) /\ Len(z) = Len(x) + 1 /\ z[Len(x) + 1] = c /\ \A k \in 1 .. Len(x) : z[k] = x[k]
  BY <1>10, <1>12
<1>14. Len(z) = la + j /\ z[la + j] = c /\ \A k \in 1 .. (la + (j - 1)) : z[k] = x[k]
  <2>1. Len(x) + 1 = la + j
    BY <1>1, <1>2, <1>10
  <2> QED
    BY <1>10, <1>13, <2>1
<1>15. \A k \in 1 .. Len(s) : s[k] = z[k]
  <2> SUFFICES ASSUME NEW k \in 1 .. (la + j) PROVE s[k] = z[k]
    BY <1>8
  <2>1. CASE k <= la
    <3>1. k \in 1 .. (la + (j - 1))
      BY <1>1, <2>1
    <3> QED
      BY <1>8, <1>10, <1>14, <2>1, <3>1
  <2>2. CASE k = la + j
    <3>1. ~(k <= la) /\ k - la = j /\ j \in 1 .. j
      BY <1>1, <2>2
    <3> QED
      BY <1>4, <1>8, <1>11, <1>14, <2>2, <3>1
  <2>3. CASE ~(k <= la) /\ k # la + j
    <3>1. k \in 1 .. (la + (j - 1)) /\ k - la \in 1 .. (j - 1) /\ k - la \in 1 .. j
      BY <1>1, <2>3
    <3> QED
      BY <1>4, <1>6, <1>8, <1>10, <1>14, <2>3, <3>1
  <2> QED
    BY <2>1, <2>2, <2>3
<1>16. s = z
  BY <1>8, <1>14, <1>15, <1>13, SeqEqual
<1> QED
  BY <1>3, <1>5, <1>8, <1>7, <1>10, <1>9, <1>11, <1>12, <1>16 DEF Octets

\* Octets that are no dots go to the last label.
LEMMA SplitConcat ==
  ASSUME NEW x \in Octets, NEW y \in Octets, \A j \in 1 .. Len(y) : y[j] # Dot
  PROVE  Split(x \o y) = [Split(x) EXCEPT ![Len(Split(x))] = @ \o y]
<1>1. PICK M \in Labels \ {<<>>}, m \in {Len(Split(x))} : M = Split(x) /\ m = Len(M)
  BY SplitType
<1>2. m \in Nat /\ m >= 1 /\ m \in 1 .. m /\ M[m] \in Octets /\ M \in Seq(Octets)
  BY <1>1 DEF Labels
<1>3. PICK e \in Octets : e = M[m]
  BY <1>2
<1> DEFINE n == Len(y)
           Now(j) == [M EXCEPT ![m] = e \o SubSeq(y, 1, j)]
           g == [j \in 0 .. n |-> Split(x \o SubSeq(y, 1, j))]
           T == [j \in 0 .. n |-> {Now(j)}]
<1>4. n \in Nat
  BY DEF Octets
<1>5. SubSeq(y, 1, 0) = <<>> /\ SubSeq(y, 1, n) = y
  BY DEF Octets
<1>6. x \o <<>> = x /\ e \o <<>> = e
  BY DEF Octets
<1>7. Now(0) = M
  <2>1. Now(0) = [M EXCEPT ![m] = e]
    BY <1>5, <1>6
  <2> QED
    BY <1>1, <1>2, <1>3, <2>1 DEF Labels
<1>8. ASSUME NEW j \in 1 .. n, Split(x \o SubSeq(y, 1, j - 1)) = Now(j - 1)
      PROVE  Split(x \o SubSeq(y, 1, j)) = Now(j)
  <2>1. PICK a \in Octets, c \in {y[j]} : a = x \o SubSeq(y, 1, j - 1) /\ c = y[j]
    BY OneMore
  <2>2. c \in Nat /\ c # Dot
    BY <2>1 DEF Octets
  <2>3. Split(x \o SubSeq(y, 1, j)) = Put(Split(a), c)
    BY <2>1, <2>2, OneMore, SplitAppend
  <2>4. PICK d \in Octets : d = e \o SubSeq(y, 1, j - 1)
    BY OneMore
  <2>5. Split(a) = [M EXCEPT ![m] = d]
    BY <1>8, <2>1, <2>4
  <2>6. PICK P : P = [M EXCEPT ![m] = d]
    OBVIOUS
  <2>7. Len(P) = m /\ P[m] = d
    BY <1>1, <1>2, <2>6
  <2>8. Put(P, c) = [P EXCEPT ![m] = Append(d, c)]
    BY <2>2, <2>7 DEF Put
  <2>9. [P EXCEPT ![m] = Append(d, c)] = [M EXCEPT ![m] = Append(d, c)]
    BY <1>2, <2>6
  <2>10. Append(d, c) = e \o SubSeq(y, 1, j)
    BY <2>1, <2>4, OneMore
  <2> QED
    BY <2>3, <2>5, <2>6, <2>8, <2>9, <2>10
<1> HIDE DEF n, Now
<1>9. g[0] \in T[0]
  <2>1. Split(x \o SubSeq(y, 1, 0)) = Now(0)
    BY <1>1, <1>5, <1>6, <1>7
  <2>2. 0 \in 0 .. n
    BY <1>4
  <2> QED
    BY <2>1, <2>2
<1>10. ASSUME NEW j \in 1 .. n, g[j - 1] \in T[j - 1] PROVE g[j] \in T[j]
  <2>1. j - 1 \in 0 .. n /\ j \in 0 .. n
    BY <1>4
  <2>2. Split(x \o SubSeq(y, 1, j - 1)) = Now(j - 1)
    BY <1>10, <2>1
  <2> QED
    BY <1>8, <2>1, <2>2
<1>11. \A j \in 0 .. n : g[j] \in T[j]
  <2> HIDE DEF g, T
  <2> QED
    BY <1>4, <1>9, <1>10, IterStays
<1>12. n \in 0 .. n
  BY <1>4
<1>13. Split(x \o SubSeq(y, 1, n)) = Now(n)
  BY <1>11, <1>12
<1>14. Split(x \o y) = [M EXCEPT ![m] = M[m] \o y]
  BY <1>3, <1>5, <1>13 DEF Now
<1> QED
  BY <1>1, <1>14

Undottable(s) == \A k \in 1 .. Len(s) : \A j \in 1 .. Len(s[k]) : s[k][j] # Dot

\* One label more.
LEMMA SplitJoined ==
  ASSUME NEW x \in Octets, NEW label \in Octets, \A j \in 1 .. Len(label) : label[j] # Dot
  PROVE  Split(x \o (<<Dot>> \o label)) = Append(Split(x), label)
<1>1. PICK M \in Labels : M = Split(x)
  BY SplitType
<1>2. PICK z : z = Append(x, Dot)
  OBVIOUS
<1>3. z \in Octets
  BY <1>2, DotIs DEF Octets
<1>4. x \o (<<Dot>> \o label) = z \o label
  <2>1. x \in Seq(Nat) /\ label \in Seq(Nat) /\ <<Dot>> \in Seq(Nat)
    BY DotIs DEF Octets
  <2>2. z = x \o <<Dot>>
    BY <1>2, <2>1, DotIs, AppendIs
  <2> QED
    BY <2>1, <2>2, ConcatAssociative
<1>5. PICK P : P = Append(M, <<>>)
  OBVIOUS
<1>6. Split(z) = P
  BY <1>1, <1>2, <1>5, SplitAppend, DotIs DEF Put
<1>7. PICK n \in Nat : n = Len(M)
  BY DEF Labels
<1>8. <<>> \in Octets
  BY DEF Octets
<1>9. P \in Labels /\ Len(P) = n + 1 /\ P[n + 1] = <<>>
  BY <1>5, <1>7, <1>8 DEF Labels
<1>10. Split(z \o label) = [P EXCEPT ![n + 1] = <<>> \o label]
  BY <1>3, <1>6, <1>9, SplitConcat
<1>11. <<>> \o label = label
  BY DEF Octets
<1>12. [P EXCEPT ![n + 1] = label] = Append(M, label)
  <2>1. PICK Q : Q = [P EXCEPT ![n + 1] = label]
    OBVIOUS
  <2>2. Q \in Seq(Octets) /\ Len(Q) = n + 1 /\ Q[n + 1] = label /\ \A k \in 1 .. n : Q[k] = P[k]
    BY <1>9, <2>1 DEF Labels
  <2>3. PICK R : R = Append(M, label)
    OBVIOUS
  <2>4. R \in Seq(Octets) /\ Len(R) = n + 1 /\ R[n + 1] = label /\ \A k \in 1 .. n : R[k] = M[k]
    BY <1>7, <2>3 DEF Labels
  <2>5. \A k \in 1 .. n : P[k] = M[k]
    BY <1>5, <1>7 DEF Labels
  <2>6. \A k \in 1 .. (n + 1) : k = n + 1 \/ k \in 1 .. n
    OBVIOUS
  <2>7. \A k \in 1 .. Len(Q) : Q[k] = R[k]
    BY <2>2, <2>4, <2>5, <2>6
  <2>8. Q = R
    BY <2>2, <2>4, <2>7, SeqEqual
  <2> QED
    BY <2>1, <2>3, <2>8
<1> QED
  BY <1>1, <1>4, <1>10, <1>11, <1>12

LEMMA PrefixAppend ==
  ASSUME NEW L \in Labels, NEW k \in 1 .. Len(L)
  PROVE  SubSeq(L, 1, k) = Append(SubSeq(L, 1, k - 1), L[k])
<1>0. L \in Seq(Octets)
  BY DEF Labels
<1>1. k \in Nat /\ k - 1 \in Nat /\ Len(L) \in Nat /\ k <= Len(L) /\ L[k] \in Octets
  BY <1>0
<1>2. PICK p, q : p = SubSeq(L, 1, k) /\ q = SubSeq(L, 1, k - 1)
  OBVIOUS
<1>3. p \in Seq(Octets) /\ Len(p) = k /\ \A j \in 1 .. k : p[j] = L[j]
  BY <1>0, <1>1, <1>2
<1>4. q \in Seq(Octets) /\ Len(q) = k - 1 /\ \A j \in 1 .. (k - 1) : q[j] = L[j]
  BY <1>0, <1>1, <1>2
<1>5. PICK z : z = Append(q, L[k])
  OBVIOUS
<1>6. z \in Seq(Octets) /\ Len(z) = k /\ z[k] = L[k] /\ \A j \in 1 .. (k - 1) : z[j] = q[j]
  BY <1>1, <1>4, <1>5
<1>7. \A j \in 1 .. k : j = k \/ j \in 1 .. (k - 1)
  BY <1>1
<1>8. \A j \in 1 .. Len(p) : p[j] = z[j]
  BY <1>3, <1>4, <1>6, <1>7
<1>9. p = z
  BY <1>3, <1>6, <1>8, SeqEqual
<1> QED
  BY <1>2, <1>5, <1>9

\* The labels of a name that is not empty are what its text splits into, and
\* the text does not end in a dot.
LEMMA SplitJoin ==
  ASSUME NEW L, Name(L), L # <<>>, Undottable(L)
  PROVE  Split(Join(L)) = L /\ Join(L) \in Octets /\ Join(L) # <<>> /\ Join(L)[Len(Join(L))] # Dot
<1>1. PICK n \in Nat : n = Len(L) /\ n >= 1
  BY DEF Name, Labels
<1>2. /\ L \in Labels
      /\ \A k \in 1 .. n : L[k] \in Octets /\ Len(L[k]) \in Nat /\ Len(L[k]) >= 1 /\ \A j \in 1 .. Len(L[k]) : L[k][j] # Dot
  <2>1. L \in Seq(Octets) /\ DOMAIN L = 1 .. n
    BY <1>1 DEF Name, Labels
  <2>2. \A k \in 1 .. n : L[k] \in Octets /\ Len(L[k]) \in 1 .. MAX_LABEL
    BY <2>1 DEF Name
  <2> QED
    BY <1>1, <2>1, <2>2, Sizes DEF Undottable, Labels
<1>3. PICK u : /\ u[0] = <<>>
               /\ \A k \in 1 .. n : u[k] = IF k = 1 THEN L[1] ELSE u[k - 1] \o (<<Dot>> \o L[k])
               /\ \A k \in 0 .. n : u[k] \in Octets
               /\ Join(L) = u[n]
  BY <1>1, <1>2, JoinRuns
<1> DEFINE T == [k \in 0 .. n |-> {x \in Octets : k # 0 => Split(x) = SubSeq(L, 1, k)}]
<1>4. u[0] \in T[0]
  BY <1>3
<1>5. ASSUME NEW k \in 1 .. n, u[k - 1] \in T[k - 1] PROVE u[k] \in T[k]
  <2>1. k - 1 \in 0 .. n /\ k \in 0 .. n /\ k # 0
    BY <1>1
  <2>2. Split(u[k]) = SubSeq(L, 1, k)
    <3>1. CASE k = 1
      <4>1. u[k] = L[1] /\ <<>> \in Octets /\ <<>> \o L[1] = L[1] /\ 1 \in 1 .. n
        BY <1>1, <1>2, <1>3, <3>1 DEF Octets
      <4>2. PICK M : M = << <<>> >>
        OBVIOUS
      <4>3. Split(<<>>) = M /\ Len(M) = 1 /\ M[1] = <<>>
        BY <4>2, SplitNone
      <4>4. Split(<<>> \o L[1]) = [M EXCEPT ![1] = <<>> \o L[1]]
        <5>1. PICK z \in Octets, l \in Octets : z = <<>> /\ l = L[1]
          BY <1>2, <4>1
        <5>2. \A j \in 1 .. Len(l) : l[j] # Dot
          BY <1>2, <4>1, <5>1
        <5>3. Split(z \o l) = [Split(z) EXCEPT ![Len(Split(z))] = @ \o l]
          BY <5>2, SplitConcat
        <5>4. Split(z) = M
          BY <4>3, <5>1
        <5>5. Split(z \o l) = [M EXCEPT ![1] = <<>> \o l]
          BY <4>3, <5>3, <5>4
        <5> QED
          BY <5>1, <5>5
      <4>5. [M EXCEPT ![1] = L[1]] = <<L[1]>>
        BY <4>2
      <4>6. SubSeq(L, 1, 1) = <<L[1]>>
        <5>1. SubSeq(L, 1, 1) = Append(SubSeq(L, 1, 1 - 1), L[1])
          BY <1>1, <1>2, <4>1, PrefixAppend
        <5>2. SubSeq(L, 1, 1 - 1) = <<>>
          BY <1>2 DEF Labels
        <5>3. Append(<<>>, L[1]) = <<L[1]>>
          OBVIOUS
        <5> QED
          BY <5>1, <5>2, <5>3, Zenon
      <4> QED
        BY <3>1, <4>1, <4>4, <4>5, <4>6
    <3>2. CASE k # 1
      <4>1. k - 1 # 0 /\ Split(u[k - 1]) = SubSeq(L, 1, k - 1)
        BY <1>5, <2>1, <3>2
      <4>2. u[k] = u[k - 1] \o (<<Dot>> \o L[k]) /\ u[k - 1] \in Octets
        BY <1>3, <2>1, <3>2
      <4>3. Split(u[k]) = Append(Split(u[k - 1]), L[k])
        BY <1>2, <4>2, SplitJoined
      <4>4. SubSeq(L, 1, k) = Append(SubSeq(L, 1, k - 1), L[k])
        BY <1>1, <1>2, PrefixAppend
      <4> QED
        BY <4>1, <4>3, <4>4
    <3> QED
      BY <3>1, <3>2
  <2> QED
    BY <1>3, <2>1, <2>2
<1>6. \A k \in 0 .. n : u[k] \in T[k]
  <2> HIDE DEF T
  <2> QED
    BY <1>1, <1>4, <1>5, IterStays
<1>7. n \in 0 .. n /\ n # 0 /\ n \in 1 .. n
  BY <1>1
<1>8. Split(u[n]) = SubSeq(L, 1, n)
  BY <1>6, <1>7
<1>9. SubSeq(L, 1, n) = L
  BY <1>1, <1>2 DEF Labels
<1>10. u[n] # <<>> /\ u[n][Len(u[n])] # Dot
  <2>1. PICK x \in Octets, l \in Octets, m \in Nat : x = u[n] /\ l = L[n] /\ m = Len(l) /\ m >= 1 /\ l[m] # Dot
    BY <1>2, <1>3, <1>7
  <2>2. CASE n = 1
    <3>1. x = l
      BY <1>3, <1>7, <2>1, <2>2
    <3> QED
      BY <2>1, <3>1 DEF Octets
  <2>3. CASE n # 1
    <3>1. n - 1 \in 0 .. n
      BY <1>1
    <3>2. PICK y \in Octets, d \in {<<Dot>>} : y = u[n - 1] /\ d = <<Dot>>
      BY <1>3, <3>1
    <3>3. d \in Octets /\ Len(d) = 1
      BY <3>2, DotIs DEF Octets
    <3>4. PICK e : e = d \o l
      OBVIOUS
    <3>5. e \in Octets /\ Len(e) = Len(d) + Len(l) /\ \A j \in 1 .. Len(l) : e[Len(d) + j] = l[j]
      BY <3>3, <3>4, BeginsConcat
    <3>6. x = y \o e
      BY <1>3, <1>7, <2>1, <2>3, <3>2, <3>4
    <3>7. Len(x) = Len(y) + Len(e) /\ \A j \in 1 .. Len(e) : x[Len(y) + j] = e[j]
      BY <3>5, <3>6, BeginsConcat
    <3>8. Len(e) = 1 + m /\ e[1 + m] = l[m] /\ 1 + m \in 1 .. Len(e)
      BY <2>1, <3>3, <3>5
    <3>9. x[Len(x)] = l[m] /\ Len(y) \in Nat /\ Len(x) = Len(y) + (1 + m)
      BY <3>7, <3>8 DEF Octets
    <3> QED
      BY <2>1, <3>9 DEF Octets
  <2> QED
    BY <2>2, <2>3
<1> QED
  BY <1>3, <1>7, <1>8, <1>9, <1>10

\* What obeys the limits, and has no dot in a label, encode_labels gives back.
LEMMA JoinEncodes ==
  ASSUME NEW L, Name(L), Undottable(L), WireLen(L) <= MAX_NAME_WIRE
  PROVE  encode_labels(Join(L)) = L
<1>1. PICK x : x = Join(L)
  OBVIOUS
<1>2. (IF Undotted(x) = <<>> THEN <<>> ELSE Split(Undotted(x))) = L
  <2>1. CASE L = <<>>
    <3>1. L \in Labels /\ Len(L) = 0
      BY <2>1 DEF Name
    <3>2. PICK u : u[0] = <<>> /\ Join(L) = u[Len(L)]
      BY <3>1, JoinRuns
    <3>3. x = <<>>
      BY <1>1, <3>1, <3>2
    <3> QED
      BY <2>1, <3>3 DEF Undotted
  <2>2. CASE L # <<>>
    <3>1. Split(x) = L /\ x # <<>> /\ x[Len(x)] # Dot
      BY <1>1, <2>2, SplitJoin
    <3>2. Undotted(x) = x
      BY <3>1 DEF Undotted, Last
    <3> QED
      BY <3>1, <3>2
  <2> QED
    BY <2>1, <2>2
<1>3. \A k \in DOMAIN L : Len(L[k]) \in 1 .. MAX_LABEL
  BY DEF Name
<1>4. encode_labels(x) = L
  BY <1>2, <1>3 DEF encode_labels
<1> QED
  BY <1>1, <1>4

\* A label more is as many octets more, and its length's.
LEMMA WireLenAppend ==
  ASSUME NEW L \in Labels, NEW l \in Octets
  PROVE  WireLen(Append(L, l)) = WireLen(L) + (Len(l) + 1)
<1>0. PICK n \in Nat : n = Len(L)
  BY DEF Labels
<1>1. PICK M : M = Append(L, l) /\ n = Len(L)
  BY <1>0
<1>2. M \in Labels /\ Len(M) = n + 1 /\ M[n + 1] = l /\ \A k \in 1 .. n : M[k] = L[k]
  BY <1>1 DEF Labels
<1>3. PICK u : /\ u[0] = 1
               /\ \A k \in 1 .. n : u[k] = u[k - 1] + (Len(L[k]) + 1)
               /\ WireLen(L) = u[n]
  BY <1>1, WireLenRuns
<1>4. PICK v : /\ v[0] = 1
               /\ \A k \in 1 .. (n + 1) : v[k] = v[k - 1] + (Len(M[k]) + 1)
               /\ WireLen(M) = v[n + 1]
  BY <1>2, WireLenRuns
<1> DEFINE T == [k \in 0 .. n |-> {u[k]}]
<1>5. v[0] \in T[0]
  BY <1>3, <1>4
<1>6. ASSUME NEW k \in 1 .. n, v[k - 1] \in T[k - 1] PROVE v[k] \in T[k]
  <2>1. k - 1 \in 0 .. n /\ k \in 0 .. n /\ k \in 1 .. (n + 1)
    OBVIOUS
  <2>2. v[k - 1] = u[k - 1]
    BY <1>6, <2>1
  <2>3. v[k] = u[k]
    BY <1>2, <1>3, <1>4, <2>1, <2>2
  <2> QED
    BY <2>1, <2>3
<1>7. \A k \in 0 .. n : v[k] \in T[k]
  <2> HIDE DEF T
  <2> QED
    BY <1>5, <1>6, IterStays
<1>8. n \in 0 .. n /\ n + 1 \in 1 .. (n + 1) /\ (n + 1) - 1 = n
  OBVIOUS
<1>9. v[n] = u[n]
  BY <1>7, <1>8
<1> QED
  BY <1>1, <1>2, <1>3, <1>4, <1>8, <1>9

LEMMA NoLabels == WireLen(<<>>) = 1 /\ Name(<<>>) /\ Join(<<>>) = <<>>
<1>0. <<>> \in Labels /\ Len(<<>>) = 0
  BY DEF Labels
<1>1. PICK L \in Labels : L = <<>> /\ Len(L) = 0
  BY <1>0
<1>2. PICK u : u[0] = 1 /\ WireLen(L) = u[Len(L)]
  BY <1>1, WireLenRuns
<1>3. PICK v : v[0] = <<>> /\ Join(L) = v[Len(L)]
  BY <1>1, JoinRuns
<1>4. Name(L)
  BY <1>1 DEF Name
<1> QED
  BY <1>1, <1>2, <1>3, <1>4

(***************************************************************************)
(* The labels while a name is read.                                        *)
(***************************************************************************)
Parts == {"question", "record", "rdata"}
Fields == {"part", "off", "end", "resume", "labels", "wire", "text", "owner", "rtype", "questions", "records", "tick", "got"}
Reader(s) ==
  /\ DOMAIN s = Fields
  /\ s.off \in Nat /\ s.end \in Nat /\ s.resume \in Nat \cup {-1}
  /\ Name(s.labels) /\ s.wire = WireLen(s.labels) /\ s.wire \in Int /\ s.wire <= MAX_NAME_WIRE
ReaderInv ==
  /\ buf \in Octets /\ Reader(r)
  /\ mode = "pack" => r = Start
  /\ mode = "unpack" /\ r.part \in Parts => r.text = Join(r.labels)

LEMMA ReaderInit == DnsInit => ReaderInv
<1> SUFFICES ASSUME DnsInit PROVE ReaderInv
  OBVIOUS
<1>1. buf \in Octets
  <2>1. Text \subseteq Octets /\ <<>> \in Octets
    BY Sizes DEF Text, Octets
  <2>2. buf = <<>> \/ buf \in Received
    BY DEF DnsInit
  <2> QED
    BY <2>1, <2>2, DnsAssumption
<1>2. r = Start
  BY DEF DnsInit
<1>3. Start.off = 0 /\ Start.end = 0 /\ Start.resume = -1 /\ Start.labels = <<>> /\ Start.wire = 1 /\ Start.part = "header"
  BY DEF Start
<1>4. 1 <= MAX_NAME_WIRE
  BY DnsAssumption
<1> QED
  <2>1. DOMAIN Start = Fields
    BY DEF Start, Fields
  <2>2. Reader(Start)
    BY <1>3, <1>4, <2>1, NoLabels DEF Reader
  <2> QED
    BY <1>1, <1>2, <1>3, <2>2 DEF ReaderInv, Parts

LEMMA NamesAgree == ReaderInv => NamesReencode
<1> SUFFICES ASSUME ReaderInv, mode = "unpack", r.part \in {"question", "record", "rdata"},
                    \A k \in DOMAIN r.labels : Dot \notin ToSet(r.labels[k])
             PROVE  encode_labels(r.text) = r.labels
  BY DEF NamesReencode
<1>1. PICK L : L = r.labels
  OBVIOUS
<1>2. Name(L) /\ WireLen(L) <= MAX_NAME_WIRE /\ r.text = Join(L)
  BY <1>1 DEF ReaderInv, Reader, Parts
<1>3. Undottable(L)
  <2>1. DOMAIN L = 1 .. Len(L) /\ \A k \in 1 .. Len(L) : DOMAIN L[k] = 1 .. Len(L[k])
    BY <1>2 DEF Name, Labels, Octets
  <2> QED
    BY <1>1, <2>1 DEF Undottable, ToSet
<1> QED
  BY <1>1, <1>2, <1>3, JoinEncodes

LEMMA AtNat ==
  ASSUME buf \in Octets, NEW off \in Nat, off < Len(buf)
  PROVE  At(off) \in Nat
  BY DEF At, Octets

\* Where decode_name is called, no label is read yet.
LEMMA DecodeStarts ==
  ASSUME buf \in Octets, NEW s, Reader(s), NEW part, Decode(s, part)
  PROVE  ReaderInv'
<1>1. mode' = "name" /\ buf' = buf
  BY DEF Decode, Keep
<1>2. r' = [s EXCEPT !.part = part, !.resume = -1, !.labels = <<>>, !.wire = 1, !.tick = FALSE]
  BY DEF Decode
<1>3. DOMAIN r' = Fields /\ r'.off = s.off /\ r'.end = s.end /\ r'.resume = -1 /\ r'.labels = <<>> /\ r'.wire = 1
  BY <1>2 DEF Reader, Fields
<1>4. 1 <= MAX_NAME_WIRE
  BY DnsAssumption
<1>5. Reader(r')
  BY <1>3, <1>4, NoLabels DEF Reader
<1>6. ReaderInv'
  <2>1. buf' \in Octets
    BY <1>1
  <2> QED
    BY <1>1, <1>5, <2>1 DEF ReaderInv, Reader, Fields, Name, Octets, Labels, Parts
<1> QED
  BY <1>6

\* Between names the labels are let alone.
LEMMA ReadGoesOn ==
  ASSUME buf \in Octets, NEW s, Reader(s), s.part \notin Parts, Read(s)
  PROVE  ReaderInv'
<1>1. mode' = "unpack" /\ buf' = buf /\ r' = s
  BY DEF Read, Keep
<1>2. Reader(r')
  BY <1>1
<1> QED
  BY <1>1, <1>2 DEF ReaderInv, Reader, Parts

LEMMA RecordIs ==
  ASSUME NEW s, Reader(s), NEW name, NEW kind, NEW of, NEW rest
  PROVE  Reader(Record(s, name, kind, of, rest)) /\ Record(s, name, kind, of, rest).part \notin Parts
<1>1. PICK x : x = Append(s.got, [name |-> name, data |-> [kind |-> kind, of |-> of, rest |-> rest]])
  OBVIOUS
<1>2. PICK z : z = [s EXCEPT !.part = "items", !.off = s.end, !.got = x]
  OBVIOUS
<1>3. Record(s, name, kind, of, rest) = z
  BY <1>1, <1>2 DEF Record
<1>4. DOMAIN z = Fields /\ z.off = s.end /\ z.end = s.end /\ z.resume = s.resume /\ z.labels = s.labels /\ z.wire = s.wire /\ z.part = "items"
  BY <1>2 DEF Reader, Fields
<1> QED
  BY <1>3, <1>4 DEF Reader, Parts

LEMMA RefuseKeeps == ReaderInv /\ Refuse => ReaderInv'
<1> SUFFICES ASSUME ReaderInv, Refuse PROVE ReaderInv'
  OBVIOUS
<1>1. mode' = "raised" /\ buf' = buf /\ r' = r
  BY DEF Refuse, Keep
<1> QED
  BY <1>1 DEF ReaderInv, Reader

LEMMA ReaderPacks == ReaderInv /\ (PackHeader \/ PackQuestion \/ PackRecord) => ReaderInv'
<1> SUFFICES ASSUME ReaderInv, PackHeader \/ PackQuestion \/ PackRecord PROVE ReaderInv'
  OBVIOUS
<1>1. mode = "pack" /\ mode' \in {"pack", "raised"} /\ buf' = buf /\ r' = r
  <2>1. CASE PackHeader
    BY <2>1 DEF PackHeader
  <2>2. CASE PackQuestion
    BY <2>2 DEF PackQuestion, Raise
  <2>3. CASE PackRecord
    <3>1. mode = "pack" /\ buf' = buf /\ r' = r
      BY <2>3 DEF PackRecord
    <3>2. mode' \in {"raised", mode}
      BY <2>3 DEF PackRecord, Raise
    <3> QED
      BY <3>1, <3>2
  <2> QED
    BY <2>1, <2>2, <2>3
<1> QED
  BY <1>1 DEF ReaderInv, Reader

LEMMA ReaderDelivers == DnsInv /\ ReaderInv /\ Deliver => ReaderInv'
<1> SUFFICES ASSUME DnsInv, ReaderInv, Deliver PROVE ReaderInv'
  OBVIOUS
<1>1. mode = "pack" /\ mode' = "unpack" /\ r' = r /\ r = Start
  BY DEF Deliver, ReaderInv
<1>2. PICK n \in 0 .. Len(out) : buf' = SubSeq(out, 1, n)
  BY DEF Deliver
<1>3. out \in Octets
  BY DEF DnsInv, Good
<1>4. buf' \in Octets
  BY <1>2, <1>3 DEF Octets
<1>5. r'.part = "header"
  BY <1>1 DEF Start
<1> QED
  BY <1>1, <1>4, <1>5 DEF ReaderInv, Reader, Parts

LEMMA ReaderHeader == ReaderInv /\ MessageHeader => ReaderInv'
<1> SUFFICES ASSUME ReaderInv, MessageHeader PROVE ReaderInv'
  OBVIOUS
<1>1. CASE Refuse
  BY <1>1, RefuseKeeps
<1>2. CASE Read([r EXCEPT !.part = "items", !.off = 2, !.questions = At(0), !.records = At(1)])
  <2>1. PICK a, b, s : a = At(0) /\ b = At(1) /\ s = [r EXCEPT !.part = "items", !.off = 2, !.questions = a, !.records = b]
    OBVIOUS
  <2>2. /\ DOMAIN s = Fields /\ s.off = 2 /\ s.end = r.end /\ s.resume = r.resume
        /\ s.labels = r.labels /\ s.wire = r.wire /\ s.part = "items"
    BY <2>1 DEF ReaderInv, Reader, Fields
  <2>3. Reader(s) /\ s.part \notin Parts
    BY <2>2 DEF ReaderInv, Reader, Parts
  <2> QED
    BY <1>2, <2>1, <2>3, ReadGoesOn DEF ReaderInv
<1> QED
  BY <1>1, <1>2 DEF MessageHeader

LEMMA ReaderNext == ReaderInv /\ ReadNext => ReaderInv'
<1> SUFFICES ASSUME ReaderInv, ReadNext PROVE ReaderInv'
  OBVIOUS
<1>1. ASSUME NEW s, NEW part, Decode(s, part), DOMAIN s = Fields, s.off = r.off, s.end = r.end,
             s.resume = r.resume, s.labels = r.labels, s.wire = r.wire
      PROVE  ReaderInv'
  BY <1>1, DecodeStarts DEF ReaderInv, Reader
<1>2. CASE Decode([r EXCEPT !.questions = @ - 1], "question")
  <2>1. PICK n, s : n = r.questions - 1 /\ s = [r EXCEPT !.questions = n]
    OBVIOUS
  <2>2. /\ DOMAIN s = Fields /\ s.off = r.off /\ s.end = r.end /\ s.resume = r.resume
        /\ s.labels = r.labels /\ s.wire = r.wire
    BY <2>1 DEF ReaderInv, Reader, Fields
  <2> QED
    BY <1>1, <1>2, <2>1, <2>2
<1>3. CASE Decode([r EXCEPT !.records = @ - 1], "record")
  <2>1. PICK n, s : n = r.records - 1 /\ s = [r EXCEPT !.records = n]
    OBVIOUS
  <2>2. /\ DOMAIN s = Fields /\ s.off = r.off /\ s.end = r.end /\ s.resume = r.resume
        /\ s.labels = r.labels /\ s.wire = r.wire
    BY <2>1 DEF ReaderInv, Reader, Fields
  <2> QED
    BY <1>1, <1>3, <2>1, <2>2
<1>4. CASE mode' = "done" /\ UNCHANGED <<r, Keep>>
  BY <1>4 DEF ReaderInv, Reader, Keep
<1> QED
  BY <1>2, <1>3, <1>4 DEF ReadNext

LEMMA ReaderQuestion == ReaderInv /\ ReadQuestion => ReaderInv'
<1> SUFFICES ASSUME ReaderInv, ReadQuestion PROVE ReaderInv'
  OBVIOUS
<1>1. CASE Refuse
  BY <1>1, RefuseKeeps
<1>2. CASE Read([r EXCEPT !.part = "items", !.off = @ + 1, !.got = Append(@, [name |-> r.text, data |-> [kind |-> "question", of |-> <<>>, rest |-> <<>>]])])
  <2>1. PICK g : g = Append(r.got, [name |-> r.text, data |-> [kind |-> "question", of |-> <<>>, rest |-> <<>>]])
    OBVIOUS
  <2>2. PICK s : s = [r EXCEPT !.part = "items", !.off = @ + 1, !.got = g]
    OBVIOUS
  <2>3. /\ DOMAIN s = Fields /\ s.off = r.off + 1 /\ s.end = r.end /\ s.resume = r.resume
        /\ s.labels = r.labels /\ s.wire = r.wire /\ s.part = "items"
    BY <2>2 DEF ReaderInv, Reader, Fields
  <2>4. Reader(s) /\ s.part \notin Parts
    BY <2>3 DEF ReaderInv, Reader, Parts
  <2> QED
    BY <1>2, <2>1, <2>2, <2>4, ReadGoesOn DEF ReaderInv
<1> QED
  BY <1>1, <1>2 DEF ReadQuestion

LEMMA ReaderRecord == ReaderInv /\ ReadRecord => ReaderInv'
<1> SUFFICES ASSUME ReaderInv, ReadRecord PROVE ReaderInv'
  OBVIOUS
<1> DEFINE kind == KindOf(At(r.off))
           start == r.off + 2
           s == [r EXCEPT !.off = start, !.end = start + At(r.off + 1), !.owner = r.text, !.rtype = At(r.off)]
<1>1. \/ Refuse
      \/ /\ ~(r.off + 1 >= Len(buf))
         /\ \/ \E of \in {Slice(start, s.end), Slice(start + 1, s.end), Chunks(start, s.end)} :
                 Read(Record(s, r.text, kind, of, <<>>))
            \/ Decode(s, "rdata") \/ Decode([s EXCEPT !.off = start + 1], "rdata")
  BY DEF ReadRecord
<1>3. CASE Refuse
  BY <1>3, RefuseKeeps
<1>4. CASE ~Refuse
  <2>1. buf \in Octets /\ Len(buf) \in Nat /\ r.off \in Nat /\ r.off + 1 < Len(buf)
    <3>1. ~(r.off + 1 >= Len(buf))
      <4> HIDE DEF kind, start, s
      <4> QED
        BY <1>1, <1>4, Zenon
    <3>2. PICK l \in Nat, o \in Nat : l = Len(buf) /\ o = r.off
      BY DEF ReaderInv, Reader, Octets
    <3>3. o + 1 < l
      BY <3>1, <3>2
    <3> QED
      BY <3>2, <3>3 DEF ReaderInv
  <2>2. At(r.off + 1) \in Nat
    BY <2>1, AtNat
  <2>3. PICK b \in Nat, e \in Nat : b = start /\ e = start + At(r.off + 1)
    <3>1. start \in Nat /\ start + At(r.off + 1) \in Nat
      BY <2>1, <2>2
    <3> HIDE DEF start
    <3> QED
      BY <3>1
  <2>4. /\ DOMAIN s = Fields /\ s.off = b /\ s.end = e /\ s.resume = r.resume
        /\ s.labels = r.labels /\ s.wire = r.wire
    <3>1. PICK k : k = At(r.off)
      OBVIOUS
    <3>2. s = [r EXCEPT !.off = b, !.end = e, !.owner = r.text, !.rtype = k]
      BY <2>3, <3>1
    <3>3. DOMAIN r = Fields
      BY DEF ReaderInv, Reader
    <3> HIDE DEF s
    <3> QED
      BY <3>2, <3>3 DEF Fields
  <2>5. Reader(s)
    <3> HIDE DEF s
    <3> QED
      BY <2>4 DEF ReaderInv, Reader
  <2> HIDE DEF kind, start, s
  <2>6. ASSUME NEW of, Read(Record(s, r.text, kind, of, <<>>)) PROVE ReaderInv'
    BY <2>1, <2>5, <2>6, RecordIs, ReadGoesOn
  <2>7. CASE Decode(s, "rdata")
    BY <2>1, <2>5, <2>7, DecodeStarts
  <2>8. CASE Decode([s EXCEPT !.off = start + 1], "rdata")
    <3>1. PICK y : y = [s EXCEPT !.off = b + 1]
      OBVIOUS
    <3>2. /\ DOMAIN y = Fields /\ y.off = b + 1 /\ y.end = s.end /\ y.resume = s.resume
          /\ y.labels = s.labels /\ y.wire = s.wire
      BY <2>4, <3>1 DEF Fields
    <3>3. Reader(y)
      BY <2>5, <3>2 DEF Reader
    <3>4. Decode(y, "rdata")
      BY <2>3, <2>5, <2>8, <3>1
    <3> QED
      BY <2>1, <3>3, <3>4, DecodeStarts
  <2> QED
    BY <1>1, <1>4, <2>6, <2>7, <2>8
<1> QED
  BY <1>3, <1>4

LEMMA ReaderRData == ReaderInv /\ ReadRData => ReaderInv'
<1> SUFFICES ASSUME ReaderInv, ReadRData PROVE ReaderInv'
  OBVIOUS
<1> DEFINE kind == KindOf(r.rtype)
<1>1. ASSUME NEW rest, Read(Record(r, r.owner, kind, r.text, rest)) PROVE ReaderInv'
  <2> HIDE DEF kind
  <2> QED
    BY <1>1, RecordIs, ReadGoesOn DEF ReaderInv
<1>2. \/ Refuse
      \/ \E rest \in {<<>>, Slice(r.off, r.end), Chunks(r.off, r.end)} : Read(Record(r, r.owner, kind, r.text, rest))
  BY DEF ReadRData
<1> QED
  BY <1>1, <1>2, RefuseKeeps

\* The text of a name is its labels joined.
LEMMA ReaderNameEnds == ReaderInv /\ NameEnds => ReaderInv'
<1> SUFFICES ASSUME ReaderInv, NameEnds PROVE ReaderInv'
  OBVIOUS
<1>1. PICK o, x : o = (IF r.resume = -1 THEN r.off + 1 ELSE r.resume) /\ x = Join(r.labels)
  OBVIOUS
<1>2. o \in Nat
  BY <1>1 DEF ReaderInv, Reader
<1>3. PICK s : s = [r EXCEPT !.off = o, !.text = x]
  OBVIOUS
<1>4. Read(s)
  BY <1>1, <1>3 DEF NameEnds
<1>5. /\ DOMAIN s = Fields /\ s.off = o /\ s.end = r.end /\ s.resume = r.resume
      /\ s.labels = r.labels /\ s.wire = r.wire /\ s.text = x
  BY <1>3 DEF ReaderInv, Reader, Fields
<1>6. Reader(s)
  BY <1>2, <1>5 DEF ReaderInv, Reader
<1>7. mode' = "unpack" /\ buf' = buf /\ r' = s
  BY <1>4 DEF Read, Keep
<1>8. r'.text = Join(r'.labels)
  BY <1>1, <1>5, <1>7
<1> QED
  BY <1>6, <1>7, <1>8 DEF ReaderInv, Reader

LEMMA ReaderPointer == ReaderInv /\ FollowPointer => ReaderInv'
<1> SUFFICES ASSUME ReaderInv, FollowPointer PROVE ReaderInv'
  OBVIOUS
<1>1. PICK to : to = pointer_target(r.off)
  OBVIOUS
<1>2. CASE to = -1
  BY <1>1, <1>2, RefuseKeeps DEF FollowPointer
<1>3. CASE to # -1
  <2>1. buf \in Octets /\ Len(buf) \in Nat /\ r.off \in Nat
    BY DEF ReaderInv, Reader, Octets
  <2>2. ~(r.off + 1 >= Len(buf)) /\ to = (At(r.off) % 2 ^ LenBits) * Octet + At(r.off + 1)
    BY <1>1, <1>3 DEF pointer_target
  <2>3. At(r.off) \in Nat /\ At(r.off + 1) \in Nat
    <3>1. r.off < Len(buf) /\ r.off + 1 < Len(buf)
      BY <2>1, <2>2
    <3> QED
      BY <2>1, <3>1, AtNat
  <2>4. to \in Nat
    <3>1. PICK a \in Nat, c \in Nat, d \in Nat : a = At(r.off) % 2 ^ LenBits /\ c = Octet /\ d = At(r.off + 1)
      <4>1. At(r.off) % 2 ^ LenBits \in Nat /\ Octet \in Nat
        BY <2>3, Sizes
      <4> QED
        BY <2>3, <4>1
    <3>2. a * c + d \in Nat
      OBVIOUS
    <3> QED
      BY <2>2, <3>1, <3>2
  <2>5. PICK s : s = [r EXCEPT !.off = to, !.resume = IF @ = -1 THEN r.off + 2 ELSE @, !.tick = ~@]
    OBVIOUS
  <2>6. mode = "name" /\ mode' = mode /\ buf' = buf /\ r' = s
    BY <1>1, <1>3, <2>5 DEF FollowPointer, NameOctet, InName, Keep
  <2>7. /\ DOMAIN s = Fields /\ s.off = to /\ s.end = r.end
        /\ s.resume = IF r.resume = -1 THEN r.off + 2 ELSE r.resume
        /\ s.labels = r.labels /\ s.wire = r.wire
    BY <2>5 DEF ReaderInv, Reader, Fields
  <2>8. Reader(s)
    BY <2>1, <2>4, <2>7 DEF ReaderInv, Reader
  <2> QED
    BY <2>6, <2>8 DEF ReaderInv, Reader
<1> QED
  BY <1>2, <1>3

\* A label that is accepted is within the limits encode_labels has.
LEMMA ReaderLabel == ReaderInv /\ ReadLabel => ReaderInv'
<1> SUFFICES ASSUME ReaderInv, ReadLabel PROVE ReaderInv'
  OBVIOUS
<1>1. PICK n, l : n = At(r.off) /\ l = Slice(r.off + 1, r.off + 1 + n)
  OBVIOUS
<1>2. r.off < Len(buf) /\ n \in 1 .. MAX_LABEL /\ mode = "name"
  BY <1>1 DEF ReadLabel, NameOctet, InName
<1>3. n \in Nat /\ r.off \in Nat /\ buf \in Seq(Nat) /\ Len(buf) \in Nat
  BY <1>2, Sizes DEF ReaderInv, Reader, Octets
<1>4. CASE r.off + 1 + n > Len(buf) \/ r.wire + n + 1 > MAX_NAME_WIRE
  BY <1>1, <1>4, RefuseKeeps DEF ReadLabel
<1>5. CASE ~(r.off + 1 + n > Len(buf) \/ r.wire + n + 1 > MAX_NAME_WIRE)
  <2>1. PICK b \in Nat, e \in Nat : b = r.off + 2 /\ e = r.off + 1 + n /\ e <= Len(buf) /\ b <= e
    <3>1. r.off + 2 \in Nat /\ r.off + 1 + n \in Nat /\ r.off + 1 + n <= Len(buf) /\ r.off + 2 <= r.off + 1 + n
      BY <1>2, <1>3, <1>5
    <3> QED
      BY <3>1
  <2>2. l = SubSeq(buf, b, e)
    <3>1. r.off + 1 + 1 = b
      BY <1>3, <2>1
    <3>2. (IF e < Len(buf) THEN e ELSE Len(buf)) = e
      BY <1>3, <2>1
    <3>3. l = SubSeq(buf, r.off + 1 + 1, IF e < Len(buf) THEN e ELSE Len(buf))
      BY <1>1, <2>1 DEF Slice
    <3> QED
      BY <3>1, <3>2, <3>3, Zenon
  <2>3. l \in Octets /\ Len(l) = n
    <3>1. PICK o \in Nat, m \in Nat, c \in Seq(Nat) : o = r.off /\ m = n /\ c = buf
      BY <1>3
    <3>2. b = o + 2 /\ e = o + 1 + m
      BY <2>1, <3>1
    <3>3. b >= 1 /\ e - b + 1 = m
      BY <3>2
    <3>4. l = SubSeq(c, b, e) /\ e <= Len(c) /\ b <= e
      BY <2>1, <2>2, <3>1
    <3>5. \A k \in b .. e : c[k] \in Nat
      BY <3>3, <3>4
    <3>6. l \in Seq(Nat) /\ Len(l) = e - b + 1
      BY <3>3, <3>4, <3>5
    <3> QED
      BY <3>1, <3>3, <3>6 DEF Octets
  <2>4. PICK L \in Labels : L = r.labels /\ Name(L)
    BY DEF ReaderInv, Reader, Name
  <2>5. PICK M : M = Append(L, l)
    OBVIOUS
  <2>6. Name(M) /\ WireLen(M) = WireLen(L) + (n + 1)
    <3>1. M \in Labels /\ Len(M) = Len(L) + 1 /\ M[Len(L) + 1] = l /\ \A k \in 1 .. Len(L) : M[k] = L[k]
      BY <2>3, <2>4, <2>5 DEF Labels
    <3>2. DOMAIN M = 1 .. Len(M) /\ DOMAIN L = 1 .. Len(L) /\ Len(L) \in Nat
      BY <2>4, <3>1 DEF Labels
    <3>3. \A k \in 1 .. Len(M) : k = Len(L) + 1 \/ k \in 1 .. Len(L)
      BY <3>1, <3>2
    <3>4. \A k \in DOMAIN M : Len(M[k]) \in 1 .. MAX_LABEL
      BY <1>2, <2>3, <2>4, <3>1, <3>2, <3>3 DEF Name
    <3>5. WireLen(M) = WireLen(L) + (n + 1)
      BY <2>3, <2>4, <2>5, WireLenAppend
    <3> QED
      BY <3>1, <3>4, <3>5 DEF Name
  <2>7. PICK w : w = r.wire + n + 1
    OBVIOUS
  <2>8. w = WireLen(M) /\ w \in Int /\ w <= MAX_NAME_WIRE
    <3>1. PICK x \in Int : x = r.wire /\ x = WireLen(L)
      BY <2>4 DEF ReaderInv, Reader
    <3>2. w \in Int /\ w = x + (n + 1)
      BY <1>3, <2>7, <3>1
    <3> QED
      BY <1>5, <2>6, <2>7, <3>1, <3>2, DnsAssumption
  <2>9. PICK s : s = [r EXCEPT !.off = e, !.wire = w, !.labels = M]
    OBVIOUS
  <2>10. mode' = mode /\ buf' = buf /\ r' = s
    BY <1>1, <1>5, <2>1, <2>4, <2>5, <2>7, <2>9 DEF ReadLabel, Keep
  <2>11. /\ DOMAIN s = Fields /\ s.off = e /\ s.end = r.end /\ s.resume = r.resume
         /\ s.labels = M /\ s.wire = w
    BY <2>9 DEF ReaderInv, Reader, Fields
  <2>12. Reader(s)
    BY <2>6, <2>8, <2>11 DEF ReaderInv, Reader
  <2> QED
    BY <1>2, <2>10, <2>12 DEF ReaderInv, Reader
<1> QED
  BY <1>4, <1>5

LEMMA ReaderSteps == DnsInv /\ ReaderInv /\ [DnsNext]_vars => ReaderInv'
<1> SUFFICES ASSUME DnsInv, ReaderInv, [DnsNext]_vars PROVE ReaderInv'
  OBVIOUS
<1>1. CASE PackHeader \/ PackQuestion \/ PackRecord
  BY <1>1, ReaderPacks
<1>2. CASE Deliver \/ MessageHeader \/ ReadNext \/ ReadQuestion
  BY <1>2, ReaderDelivers, ReaderHeader, ReaderNext, ReaderQuestion
<1>3. CASE ReadRecord \/ ReadRData
  BY <1>3, ReaderRecord, ReaderRData
<1>4. CASE RunsPast \/ BadLabelType
  BY <1>4, RefuseKeeps DEF RunsPast, BadLabelType
<1>5. CASE NameEnds \/ FollowPointer \/ ReadLabel
  BY <1>5, ReaderNameEnds, ReaderPointer, ReaderLabel
<1>6. CASE Over \/ UNCHANGED vars
  <2>1. mode' = mode /\ buf' = buf /\ r' = r
    BY <1>6 DEF Over, vars
  <2> QED
    BY <2>1 DEF ReaderInv, Reader
<1> QED
  BY <1>1, <1>2, <1>3, <1>4, <1>5, <1>6 DEF DnsNext, DnsStep

\* A name decode_name returns is one encode_labels takes, and cuts into the
\* labels that were read, in whatever message and through whatever pointers:
\* the limits of the two agree.
THEOREM DnsNames == DnsSpec => []NamesReencode
<1>1. DnsSpec => [](DnsInv /\ ReaderInv)
  <2>1. DnsInit => DnsInv /\ ReaderInv
    BY DnsInvInit, ReaderInit
  <2>2. (DnsInv /\ ReaderInv) /\ [DnsNext]_vars => (DnsInv /\ ReaderInv)'
    BY DnsInvNext, ReaderSteps
  <2> QED
    BY <2>1, <2>2, PTL DEF DnsSpec
<1> QED
  BY <1>1, NamesAgree, PTL
=============================================================================
