--------------------------- MODULE Frontend_proofs ---------------------------
(***************************************************************************)
(* The declarative frontend, for any classes, any number of threads and    *)
(* any interleaving of their calls and class statements but one: while a   *)
(* class statement with a registration keyword runs, no other thread is in *)
(* a call or a class statement (~ConcurrentRegistration).  Without this    *)
(* hypothesis the theorems are false of the code: StructMeta.__new__ adds  *)
(* the class to the registry before it gives it its fields and caches, and *)
(* a thread that resolves it meanwhile caches the schema of its base.      *)
(*                                                                         *)
(* Threads that resolve the same class do so independently and publish     *)
(* one after the other.  What makes this sound is that the second schema   *)
(* equals the first, because a schema is determined by what is cached on   *)
(* the classes in it: a cache, once filled, never changes.  The predicates *)
(* take the state they are about (A: the classes' attributes, R: the       *)
(* registry, N: the named classes) as arguments.                           *)
(***************************************************************************)
EXTENDS Frontend, Stacks

AttrNames == {"wire", "resolved", "codec", "init", "to", "from"}

Cached(A, c) == A[c].resolved # NoSchema

\* The schema of a class as the caches of the classes in it determine it, and
\* whether those are filled.
Part(A, R, spec) ==
  CASE spec.kind = "struct" -> A[spec.cls].resolved
    [] spec.kind = "switch" -> Cases([j \in DOMAIN R.list |-> A[R.list[j]].resolved])
    [] OTHER -> Scalar
Ready(A, R, spec) ==
  /\ spec.kind = "struct" => Cached(A, spec.cls)
  /\ spec.kind = "switch" => R.entries # None /\ \A j \in DOMAIN R.list : Cached(A, R.list[j])
OwnSchema(A, R, c) == Schema(c, c, [i \in DOMAIN Decl[c] |-> Part(A, R, Decl[c][i])])
AllReady(A, R, c) == \A i \in DOMAIN Decl[c] : Ready(A, R, Decl[c][i])

\* Method objects hold those of nested classes, to any depth: a method is as it
\* should be if it is in a set of such methods.
ClosedMethods(S, A, N) ==
  \A x \in S :
    /\ x.cls \in N
    /\ \/ x = Trampoline(x.cls)
       \/ /\ x.kind = "compiled" /\ Cached(A, x.cls) /\ x.schema = A[x.cls].resolved
          /\ \A i \in DOMAIN Decl[x.cls] : Decl[x.cls][i].kind = "struct" => x.bound[i] \in S
MethodOk(x, A, N) == \E S : x \in S /\ ClosedMethods(S, A, N)

\* A class whose statement has completed.
ClassOk(c, A, R, N) ==
  /\ A[c].wire = c
  /\ Uses(c) \subseteq N
  /\ Cached(A, c) => A[c].resolved = OwnSchema(A, R, c) /\ AllReady(A, R, c)
  /\ A[c].codec # NoSchema => Cached(A, c) /\ A[c].codec = A[c].resolved
  /\ \A m \in Methods : MethodOk(A[c][m], A, N) /\ A[c][m].cls = c
AllCompiled(A, c) == \A m \in Methods : A[c][m].kind = "compiled"

-----------------------------------------------------------------------------
(* Frames. *)
IsFrame(f) ==
  f \in [fn : {f.fn}, cls : Classes, pc : {f.pc}, wire : {f.wire}, parts : {f.parts}, pairs : {f.pairs},
         cases : {f.cases}, meth : {f.meth}, m : {f.m}, codec : {f.codec}, run : {f.run}]

\* What a call on class c returns or holds: the schema cached on it.
Holds(A, c, v) == Cached(A, c) /\ v = A[c].resolved

InCases == {"items", "tuple", "assign", "freeze", "entries", "case"}

CollectOk(f, A, R) ==
  /\ f.pc \in InCases \cup {"field"}
  /\ f.wire = f.cls
  /\ Stack(f.parts) /\ Len(f.parts) <= Len(Decl[f.cls])
  /\ \A i \in 1 .. Len(f.parts) : f.parts[i] = Part(A, R, Decl[f.cls][i]) /\ Ready(A, R, Decl[f.cls][i])
  /\ f.pc \in InCases => Len(f.parts) < Len(Decl[f.cls]) /\ Decl[f.cls][Len(f.parts) + 1].kind = "switch"
  /\ f.pc # "case" => f.cases = <<>>
  /\ f.pc \in {"assign", "case"} => f.pairs = R.list
  /\ f.pc \in {"freeze", "entries", "case"} => R.entries # None
  /\ f.pc = "case" =>
       /\ Stack(f.cases) /\ Len(f.cases) < Len(R.list)
       /\ \A j \in 1 .. Len(f.cases) : Holds(A, R.list[j], f.cases[j])

\* The methods that are installed before the one the thread is at.
InstalledBefore == [compile |-> {}, init |-> {}, to |-> {"init"}, from |-> {"init", "to"}]
InstallOk(f, A, N) ==
  /\ f.pc \in Methods \cup {"compile"}
  /\ f.wire = f.cls /\ Holds(A, f.cls, f.run)
  /\ f.pc \in Methods => MethodOk(f.meth, A, N) /\ f.meth.kind = "compiled" /\ f.meth.cls = f.cls
  /\ \A m \in InstalledBefore[f.pc] : A[f.cls][m].kind = "compiled"

ResolveOk(f, A, R, N) ==
  /\ f.fn = "ensure_resolved"
  /\ (f.pc = "enter" /\ f.parts = <<>> /\ f.cases = <<>>) \/ CollectOk(f, A, R) \/ InstallOk(f, A, N)
CodecOk(f, A) ==
  f.fn = "get_codec" /\ (f.pc = "enter" \/ (f.pc = "compile" /\ Holds(A, f.cls, f.codec)))
TrampolineOk(f, A) ==
  /\ f.fn = "trampoline" /\ f.m \in Methods
  /\ f.pc = "enter" \/ f.pc = "delegate" \/ (f.pc = "return" /\ Holds(A, f.cls, f.run))
MethodFrameOk(f, A, N) ==
  /\ f.fn = "method" /\ f.m \in Methods /\ f.pc = "enter" /\ Stack(f.parts)
  /\ MethodOk(f.meth, A, N) /\ f.meth.kind = "compiled" /\ f.meth.cls = f.cls
TopLevelOk(f, A, N) ==
  /\ f.fn = "call" /\ f.m \in Ops
  /\ f.m = "unpack" => MethodOk(f.meth, A, N) /\ f.meth.cls = f.cls
  /\ \/ f.pc = "enter" /\ f.m # "construct"
     \/ /\ f.pc \in {"convert", "return"}
        /\ f.m # "construct" => Holds(A, f.cls, f.codec)
        /\ f.pc = "return" => Holds(A, f.cls, f.run)

\* The frame of a call, and that of a class statement.
InCallOk(f, A, R, N) ==
  /\ IsFrame(f) /\ f.cls \in N
  /\ ResolveOk(f, A, R, N) \/ CodecOk(f, A) \/ TrampolineOk(f, A) \/ MethodFrameOk(f, A, N) \/ TopLevelOk(f, A, N)

SetBefore ==
  [enter |-> {}, list |-> {}, append |-> {}, wire |-> {}, resolved |-> {"wire"}, codec |-> {"wire", "resolved"},
   init |-> {"wire", "resolved", "codec"}, to |-> {"wire", "resolved", "codec", "init"},
   from |-> {"wire", "resolved", "codec", "init", "to"}, bind |-> AttrNames]
InClassOk(f, A, R, N) ==
  /\ IsFrame(f) /\ f.fn = "class" /\ f.cls \notin N /\ Uses(f.cls) \subseteq N
  /\ f.pc \in DOMAIN SetBefore
  /\ \A a \in SetBefore[f.pc] : A[f.cls][a] = Fresh(f.cls)[a]
  /\ f.pc \in {"list", "append"} => f.cls \in Keyed
  /\ f.pc = "append" => R.entries = None
  /\ f.pc \in {"enter", "list", "append"} => f.cls \notin Range(R.list)
  /\ f.pc \notin {"enter", "list", "append"} => (f.cls \in Keyed => f.cls \in Range(R.list))

\* Frame f waits for frame g.
Awaits(f, g) ==
  \/ /\ g.fn = "ensure_resolved"
     /\ \/ /\ f.fn = "ensure_resolved" /\ f.pc = "field" /\ Len(f.parts) < Len(Decl[f.cls])
           /\ Decl[f.cls][Len(f.parts) + 1].kind = "struct" /\ g.cls = Decl[f.cls][Len(f.parts) + 1].cls
        \/ f.fn = "ensure_resolved" /\ f.pc = "case" /\ g.cls = f.pairs[Len(f.cases) + 1]
        \/ f.fn \in {"get_codec", "trampoline"} /\ f.pc = "enter" /\ g.cls = f.cls
  \/ g.fn = "get_codec" /\ f.fn = "call" /\ f.pc = "enter" /\ g.cls = f.cls
  \/ /\ g.fn \in {"trampoline", "method"}
     /\ \/ f.fn = "call" /\ f.pc = "convert" /\ g.cls = f.cls
        \/ f.fn = "trampoline" /\ f.pc = "delegate" /\ g.cls = f.cls
        \/ f.fn = "method"

\* A thread in a call, and one in a class statement.
CallStackOk(s, A, R, N) ==
  /\ Stack(s)
  /\ \A i \in DOMAIN s : InCallOk(s[i], A, R, N)
  /\ \A i \in DOMAIN s : i + 1 \in DOMAIN s => Awaits(s[i], s[i + 1])
  /\ s # <<>> => s[1].fn = "call"
ClassStackOk(s, A, R, N) == Stack(s) /\ Len(s) = 1 /\ InClassOk(s[1], A, R, N)

-----------------------------------------------------------------------------
(* The invariant. *)
AttrOk(A) == A = [c \in Classes |-> [a \in AttrNames |-> A[c][a]]]
RegistryOk(R) ==
  /\ R \in [list : Seq(Classes), entries : {R.entries}, frozen : BOOLEAN]
  /\ R.entries = None \/ R.entries = R.list
  /\ R.frozen => R.entries # None

StoreOk(A, R, N) ==
  /\ AttrOk(A) /\ RegistryOk(R) /\ N \subseteq Classes
  /\ \A c \in Classes \ N : ~Cached(A, c) /\ \A m \in Methods : A[c][m].kind # "compiled"
  /\ \A c \in N : ClassOk(c, A, R, N)
  /\ \A c \in N \cap Keyed : c \in Range(R.list)

\* The classes in the registry are named, but for one whose statement is still
\* running.
ListOk ==
  \A c \in Range(registry.list) :
    c \in named \/ \E t \in Threads : Registering(t) /\ stack[t][1].cls = c

StacksOk ==
  /\ stack = [t \in Threads |-> stack[t]]
  /\ \A t \in Threads : CallStackOk(stack[t], attr, registry, named) \/ ClassStackOk(stack[t], attr, registry, named)

\* A class statement that registers its class has the program to itself, and no
\* class is being defined twice.
Alone == \A t, u \in Threads : Registering(t) /\ u # t => stack[u] = <<>>
Apart == \A t, u \in Threads : Defining(t) /\ Defining(u) /\ u # t => stack[t][1].cls # stack[u][1].cls

\* A thread is installing the methods of class c.
Busy(c, s) ==
  s # <<>> /\ Last(s).fn = "ensure_resolved" /\ Last(s).cls = c /\ Last(s).pc \in Methods \cup {"compile"}
Installed ==
  \A c \in named \ spoiled : Cached(attr, c) => AllCompiled(attr, c) \/ \E t \in Threads : Busy(c, stack[t])

OutcomeOk(o, A) ==
  o.tag = "ok" /\ o.op # None =>
    /\ o.cls \in Classes /\ Holds(A, o.cls, o.run)
    /\ o.op # "construct" => Holds(A, o.cls, o.codec)
OutcomesOk == outcome = [t \in Threads |-> outcome[t]] /\ \A t \in Threads : OutcomeOk(outcome[t], attr)

\* The order in which the caches were filled: a schema is made of earlier ones.
Filled(A) == {c \in Classes : Cached(A, c)}
Inside(c, d, R) ==
  \E i \in DOMAIN Decl[c] :
    \/ Decl[c][i].kind = "struct" /\ d = Decl[c][i].cls
    \/ Decl[c][i].kind = "switch" /\ d \in Range(R.list)
OrderOk(r, A, R) ==
  \A c \in Filled(A) : r[c] < Cardinality(Filled(A)) /\ \A d \in Filled(A) : Inside(c, d, R) => r[d] < r[c]
Ordered == \E r \in [Classes -> Nat] : OrderOk(r, attr, registry)

FInv ==
  /\ StoreOk(attr, registry, named) /\ ListOk
  /\ StacksOk /\ Alone /\ Apart /\ Installed /\ OutcomesOk /\ Ordered

-----------------------------------------------------------------------------
\* Registered is the function its definition says it is.
LEMMA RegisteredDef ==
  Registered = [i \in 0 .. Len(Imported) |->
                  IF i = 0 THEN <<>>
                  ELSE IF Imported[i] \in Keyed THEN Append(Registered[i - 1], Imported[i])
                  ELSE Registered[i - 1]]
<1> DEFINE Step(i, r) == IF Imported[i] \in Keyed THEN Append(r, Imported[i]) ELSE r
           Eq(n, g) == g = [i \in 0 .. n |-> IF i = 0 THEN <<>> ELSE Step(i, g[i - 1])]
           S == {n \in Nat : \E g : Eq(n, g)}
<1>1. Len(Imported) \in Nat
  BY FrontendAssumption
<1> HIDE DEF Step
<1>2. 0 \in S
  <2> DEFINE g == [i \in 0 .. 0 |-> <<>>]
  <2>1. Eq(0, g)
    OBVIOUS
  <2> QED
    BY <2>1
<1>3. ASSUME NEW n \in Nat, n \in S PROVE n + 1 \in S
  <2>1. PICK g : Eq(n, g)
    BY <1>3
  <2> DEFINE h == [i \in 0 .. (n + 1) |-> IF i = n + 1 THEN Step(n + 1, g[n]) ELSE g[i]]
  <2>2. \A i \in 0 .. n : g[i] = IF i = 0 THEN <<>> ELSE Step(i, g[i - 1])
    BY <2>1
  <2>3. \A i \in 0 .. (n + 1) : h[i] = IF i = 0 THEN <<>> ELSE Step(i, h[i - 1])
    <3> SUFFICES ASSUME NEW i \in 0 .. (n + 1) PROVE h[i] = IF i = 0 THEN <<>> ELSE Step(i, h[i - 1])
      OBVIOUS
    <3>1. CASE i = n + 1
      BY <3>1
    <3>2. CASE i # n + 1
      BY <3>2, <2>2
    <3> QED
      BY <3>1, <3>2
  <2>4. Eq(n + 1, h)
    BY <2>3
  <2>5. n + 1 \in Nat
    OBVIOUS
  <2> HIDE DEF h, Eq
  <2> QED
    BY <2>4, <2>5
<1>4. PICK g : Eq(Len(Imported), g)
  BY <1>1, <1>2, <1>3, NatInductionOn
<1> QED
  BY <1>4 DEF Registered, Step

\* The registry holds the keyed classes among those imported.
LEMMA RegisteredKeyed ==
  /\ Registered[Len(Imported)] \in Seq(Classes)
  /\ Range(Registered[Len(Imported)]) = Range(Imported) \cap Keyed
<1> DEFINE n == Len(Imported)
           Upto(i) == {Imported[j] : j \in 1 .. i} \cap Keyed
           S == {i \in Nat : i <= n => Registered[i] \in Seq(Classes) /\ Range(Registered[i]) = Upto(i)}
<1>1. n \in Nat /\ DOMAIN Imported = 1 .. n /\ \A i \in 1 .. n : Imported[i] \in Classes
  BY FrontendAssumption
<1> HIDE DEF n
<1>2. 0 \in S
  <2>1. Registered[0] = <<>>
    BY <1>1, RegisteredDef DEF n
  <2>2. Range(<<>>) = {} /\ <<>> \in Seq(Classes)
    BY DEF Range
  <2>3. Upto(0) = {}
    OBVIOUS
  <2> HIDE DEF Upto
  <2> QED
    BY <2>1, <2>2, <2>3
<1>3. ASSUME NEW i \in Nat, i \in S PROVE i + 1 \in S
  <2> SUFFICES ASSUME i + 1 <= n
               PROVE  Registered[i + 1] \in Seq(Classes) /\ Range(Registered[i + 1]) = Upto(i + 1)
    OBVIOUS
  <2>1. i <= n /\ Registered[i] \in Seq(Classes) /\ Range(Registered[i]) = Upto(i)
    BY <1>1, <1>3
  <2>2. Imported[i + 1] \in Classes
    BY <1>1
  <2>3. Registered[i + 1] = IF Imported[i + 1] \in Keyed THEN Append(Registered[i], Imported[i + 1]) ELSE Registered[i]
    <3>1. i + 1 \in 0 .. n /\ i + 1 # 0 /\ (i + 1) - 1 = i
      BY <1>1
    <3> QED
      BY <3>1, RegisteredDef DEF n
  <2>4. Upto(i + 1) = Upto(i) \cup ({Imported[i + 1]} \cap Keyed)
    <3>1. 1 .. (i + 1) = (1 .. i) \cup {i + 1}
      OBVIOUS
    <3> QED
      BY <3>1
  <2> HIDE DEF Upto
  <2>5. CASE Imported[i + 1] \in Keyed
    <3>1. Range(Append(Registered[i], Imported[i + 1])) = Range(Registered[i]) \cup {Imported[i + 1]}
      BY <2>1, <2>2, AppendProperties DEF Range
    <3>2. Append(Registered[i], Imported[i + 1]) \in Seq(Classes)
      BY <2>1, <2>2, AppendProperties
    <3>3. Registered[i + 1] = Append(Registered[i], Imported[i + 1])
      BY <2>3, <2>5
    <3>4. Upto(i + 1) = Upto(i) \cup {Imported[i + 1]}
      BY <2>4, <2>5
    <3> QED
      BY <2>1, <3>1, <3>2, <3>3, <3>4
  <2>6. CASE Imported[i + 1] \notin Keyed
    BY <2>1, <2>3, <2>4, <2>6
  <2> QED
    BY <2>5, <2>6
<1>4. n \in S
  BY <1>1, <1>2, <1>3, NatInductionOn
<1>5. Range(Imported) = {Imported[j] : j \in 1 .. n}
  BY <1>1 DEF Range
<1> QED
  BY <1>1, <1>4, <1>5 DEF n

-----------------------------------------------------------------------------
(* The store. *)

\* Assigning one attribute of one class changes nothing else.
Assign(A, c, a, v) == [A EXCEPT ![c][a] = v]
LEMMA SetAttr ==
  ASSUME NEW A, AttrOk(A), NEW c \in Classes, NEW a \in AttrNames, NEW v
  PROVE  /\ AttrOk(Assign(A, c, a, v))
         /\ Assign(A, c, a, v)[c][a] = v
         /\ \A d \in Classes, b \in AttrNames : d # c \/ b # a => Assign(A, c, a, v)[d][b] = A[d][b]
<1> DEFINE B == [A EXCEPT ![c][a] = v]
<1>1. DOMAIN A = Classes /\ \A d \in Classes : A[d] = [b \in AttrNames |-> A[d][b]]
  BY DEF AttrOk
<1>2. DOMAIN A[c] = AttrNames
  BY <1>1
<1>3. B = [d \in Classes |-> IF d = c THEN [A[c] EXCEPT ![a] = v] ELSE A[d]]
  BY <1>1
<1>4. B[c][a] = v
  BY <1>2, <1>3
<1>5. \A d \in Classes, b \in AttrNames : d # c \/ b # a => B[d][b] = A[d][b]
  BY <1>1, <1>2, <1>3
<1>6. AttrOk(B)
  <2>1. \A d \in Classes : B[d] = [b \in AttrNames |-> B[d][b]]
    <3> SUFFICES ASSUME NEW d \in Classes PROVE B[d] = [b \in AttrNames |-> B[d][b]]
      OBVIOUS
    <3>1. CASE d # c
      BY <1>1, <1>3, <3>1
    <3>2. CASE d = c
      <4>1. B[c] = [A[c] EXCEPT ![a] = v]
        BY <1>3
      <4> HIDE DEF B
      <4>2. B[c] = [b \in AttrNames |-> IF b = a THEN v ELSE A[c][b]]
        BY <1>2, <4>1
      <4> QED
        BY <3>2, <4>2
    <3> QED
      BY <3>1, <3>2
  <2> QED
    BY <1>3, <2>1 DEF AttrOk
<1> QED
  BY <1>4, <1>5, <1>6 DEF Assign

\* What a step of a call may do to the store: fill caches, install compiled
\* methods and freeze the registry.
Grows(A, R, B, Q) ==
  /\ \A c \in Classes : Cached(A, c) => B[c].resolved = A[c].resolved
  /\ \A c \in Classes, m \in Methods : A[c][m].kind = "compiled" => B[c][m].kind = "compiled"
  /\ Q.list = R.list
  /\ R.entries # None => Q.entries # None

\* A call touches no class whose statement has not completed.
Spares(A, B, N) == \A c \in Classes \ N, a \in AttrNames : B[c][a] = A[c][a]

\* The classes of a specification are classes.
LEMMA SpecFacts ==
  ASSUME NEW c \in Classes
  PROVE  /\ Decl[c] \in Seq(Specs) /\ Len(Decl[c]) \in Nat /\ DOMAIN Decl[c] = 1 .. Len(Decl[c])
         /\ \A i \in DOMAIN Decl[c] :
              /\ Decl[c][i] \in Specs
              /\ Decl[c][i].kind \in {"scalar", "switch", "bad", "struct"}
              /\ Decl[c][i].kind = "struct" => Decl[c][i].cls \in Classes /\ Decl[c][i].cls \in Uses(c)
<1>1. Decl[c] \in Seq(Specs)
  BY FrontendAssumption
<1>2. Len(Decl[c]) \in Nat /\ DOMAIN Decl[c] = 1 .. Len(Decl[c]) /\ \A i \in DOMAIN Decl[c] : Decl[c][i] \in Specs
  BY <1>1
<1>3. \A s \in Specs : s.kind \in {"scalar", "switch", "bad", "struct"} /\ (s.kind = "struct" => s.cls \in Classes)
  BY DEF Specs
<1>4. \A i \in DOMAIN Decl[c] : Decl[c][i].kind = "struct" => Decl[c][i].cls \in Uses(c)
  BY DEF Uses
<1> QED
  BY <1>1, <1>2, <1>3, <1>4

\* A cached part of a schema stays what it is.
LEMMA PartStable ==
  ASSUME NEW A, NEW R, NEW B, NEW Q, Grows(A, R, B, Q), RegistryOk(R), NEW s \in Specs, Ready(A, R, s)
  PROVE  Part(B, Q, s) = Part(A, R, s) /\ Ready(B, Q, s)
<1>1. s.kind = "struct" => s.cls \in Classes
  BY DEF Specs
<1>2. \A j \in DOMAIN R.list : R.list[j] \in Classes
  BY DEF RegistryOk
<1>3. CASE s.kind = "struct"
  BY <1>1, <1>3 DEF Grows, Part, Ready, Cached
<1>4. CASE s.kind = "switch"
  <2>1. Q.list = R.list /\ Q.entries # None
    BY <1>4 DEF Grows, Ready
  <2>2. \A j \in DOMAIN R.list : B[R.list[j]].resolved = A[R.list[j]].resolved /\ Cached(B, R.list[j])
    BY <1>2, <1>4 DEF Grows, Ready, Cached
  <2>3. [j \in DOMAIN R.list |-> B[R.list[j]].resolved] = [j \in DOMAIN R.list |-> A[R.list[j]].resolved]
    BY <2>2
  <2> QED
    BY <1>4, <2>1, <2>2, <2>3 DEF Part, Ready
<1>5. CASE s.kind \notin {"struct", "switch"}
  BY <1>5 DEF Part, Ready
<1> QED
  BY <1>3, <1>4, <1>5

LEMMA MethodStable ==
  ASSUME NEW A, NEW R, NEW B, NEW Q, Grows(A, R, B, Q), NEW N, N \subseteq Classes, NEW P, N \subseteq P, NEW x,
         MethodOk(x, A, N)
  PROVE  MethodOk(x, B, P)
<1>1. PICK S : x \in S /\ ClosedMethods(S, A, N)
  BY DEF MethodOk
<1>2. \A c \in N : Cached(A, c) => Cached(B, c) /\ B[c].resolved = A[c].resolved
  BY DEF Grows, Cached
<1>3. ClosedMethods(S, B, P)
  BY <1>1, <1>2 DEF ClosedMethods
<1> QED
  BY <1>1, <1>3 DEF MethodOk

LEMMA HoldsStable ==
  ASSUME NEW A, NEW R, NEW B, NEW Q, Grows(A, R, B, Q), NEW c \in Classes, NEW v, Holds(A, c, v)
  PROVE  Holds(B, c, v)
  BY DEF Grows, Holds, Cached

\* What is known of a call under way stays true while other calls go on.
LEMMA FrameStable ==
  ASSUME NEW A, NEW R, NEW B, NEW Q, Grows(A, R, B, Q), RegistryOk(R),
         NEW N, N \subseteq Classes, NEW P, N \subseteq P, NEW f, InCallOk(f, A, R, N)
  PROVE  InCallOk(f, B, Q, P)
<1>1. f.cls \in Classes /\ f.cls \in P
  BY DEF InCallOk
<1>2. \A v : Holds(A, f.cls, v) => Holds(B, f.cls, v)
  BY <1>1, HoldsStable
<1>3. \A x : MethodOk(x, A, N) => MethodOk(x, B, P)
  BY MethodStable
<1>4. ASSUME CollectOk(f, A, R) PROVE CollectOk(f, B, Q)
  <2>1. Q.list = R.list /\ (R.entries # None => Q.entries # None)
    BY DEF Grows
  <2>2. \A i \in DOMAIN Decl[f.cls] :
          Ready(A, R, Decl[f.cls][i]) => Part(B, Q, Decl[f.cls][i]) = Part(A, R, Decl[f.cls][i]) /\ Ready(B, Q, Decl[f.cls][i])
    BY <1>1, SpecFacts, PartStable
  <2>3. \A i \in 1 .. Len(f.parts) : i \in DOMAIN Decl[f.cls]
    <3>1. Len(f.parts) \in Nat /\ Len(f.parts) <= Len(Decl[f.cls])
      BY <1>4, StackPush DEF CollectOk
    <3> QED
      BY <1>1, <3>1, SpecFacts
  <2>4. \A i \in 1 .. Len(f.parts) : f.parts[i] = Part(B, Q, Decl[f.cls][i]) /\ Ready(B, Q, Decl[f.cls][i])
    BY <1>4, <2>2, <2>3 DEF CollectOk
  <2>5. ASSUME f.pc = "case", NEW j \in 1 .. Len(f.cases) PROVE Holds(B, R.list[j], f.cases[j])
    <3>1. Len(f.cases) \in Nat /\ Len(f.cases) < Len(R.list) /\ Holds(A, R.list[j], f.cases[j])
      BY <1>4, <2>5, StackPush DEF CollectOk
    <3>2. R.list[j] \in Classes
      BY <3>1 DEF RegistryOk
    <3> QED
      BY <3>1, <3>2, HoldsStable
  <2> QED
    BY <1>4, <2>1, <2>4, <2>5 DEF CollectOk
<1>5. ASSUME InstallOk(f, A, N) PROVE InstallOk(f, B, P)
  <2>1. \A m \in InstalledBefore[f.pc] : m \in Methods
    BY <1>5 DEF InstallOk, InstalledBefore, Methods
  <2> QED
    BY <1>1, <1>2, <1>3, <1>5, <2>1 DEF InstallOk, Grows
<1>6. ResolveOk(f, A, R, N) => ResolveOk(f, B, Q, P)
  BY <1>4, <1>5 DEF ResolveOk
<1>7. CodecOk(f, A) => CodecOk(f, B)
  BY <1>2 DEF CodecOk
<1>8. TrampolineOk(f, A) => TrampolineOk(f, B)
  BY <1>2 DEF TrampolineOk
<1>9. MethodFrameOk(f, A, N) => MethodFrameOk(f, B, P)
  BY <1>3 DEF MethodFrameOk
<1>10. TopLevelOk(f, A, N) => TopLevelOk(f, B, P)
  BY <1>2, <1>3 DEF TopLevelOk
<1> QED
  BY <1>1, <1>6, <1>7, <1>8, <1>9, <1>10 DEF InCallOk

LEMMA CallStackStable ==
  ASSUME NEW A, NEW R, NEW B, NEW Q, Grows(A, R, B, Q), RegistryOk(R),
         NEW N, N \subseteq Classes, NEW P, N \subseteq P, NEW s, CallStackOk(s, A, R, N)
  PROVE  CallStackOk(s, B, Q, P)
  BY FrameStable DEF CallStackOk

\* What a step of a call may do to one class: cache its schema, keep its
\* codec, install one of its methods.
Improves(c, A, R, N, B) ==
  /\ B[c].wire = A[c].wire
  /\ B[c].resolved = A[c].resolved \/ (B[c].resolved = OwnSchema(A, R, c) /\ AllReady(A, R, c))
  /\ B[c].codec = A[c].codec \/ Holds(A, c, B[c].codec)
  /\ \A m \in Methods : B[c][m] = A[c][m] \/ (MethodOk(B[c][m], A, N) /\ B[c][m].cls = c)

LEMMA ClassStable ==
  ASSUME NEW A, NEW R, NEW B, NEW Q, Grows(A, R, B, Q), RegistryOk(R),
         NEW N, N \subseteq Classes, NEW P, N \subseteq P, NEW c \in N, ClassOk(c, A, R, N), Improves(c, A, R, N, B)
  PROVE  ClassOk(c, B, Q, P)
<1>1. \A x : MethodOk(x, A, N) => MethodOk(x, B, P)
  BY MethodStable
<1>2. ASSUME AllReady(A, R, c) PROVE OwnSchema(B, Q, c) = OwnSchema(A, R, c) /\ AllReady(B, Q, c)
  <2>1. \A i \in DOMAIN Decl[c] :
          Part(B, Q, Decl[c][i]) = Part(A, R, Decl[c][i]) /\ Ready(B, Q, Decl[c][i])
    BY <1>2, SpecFacts, PartStable DEF AllReady
  <2> QED
    BY <2>1 DEF OwnSchema, AllReady
<1>3. Cached(B, c) => B[c].resolved = OwnSchema(B, Q, c) /\ AllReady(B, Q, c)
  BY <1>2 DEF Improves, ClassOk, Cached
<1>4. B[c].codec # NoSchema => Cached(B, c) /\ B[c].codec = B[c].resolved
  BY DEF Improves, ClassOk, Cached, Holds, Grows
<1>5. \A m \in Methods : MethodOk(B[c][m], B, P) /\ B[c][m].cls = c
  BY <1>1 DEF Improves, ClassOk
<1> QED
  BY <1>3, <1>4, <1>5 DEF ClassOk, Improves

\* A step that assigns attributes of one class at most.
LEMMA StoreStable ==
  ASSUME NEW A, NEW R, NEW N, StoreOk(A, R, N), NEW B, NEW Q, AttrOk(B), RegistryOk(Q), Grows(A, R, B, Q),
         NEW c \in Classes,
         c \in N => Improves(c, A, R, N, B),
         c \notin N => ~Cached(B, c) /\ \A m \in Methods : B[c][m].kind # "compiled",
         \A d \in Classes, a \in AttrNames : d # c => B[d][a] = A[d][a]
  PROVE  StoreOk(B, Q, N)
<1>1. RegistryOk(R) /\ N \subseteq Classes /\ Q.list = R.list
  BY DEF StoreOk, Grows
<1>2. ASSUME NEW d \in N, d # c PROVE Improves(d, A, R, N, B)
  BY <1>1, <1>2 DEF Improves, AttrNames, Methods
<1>3. \A d \in N : ClassOk(d, B, Q, N)
  BY <1>1, <1>2, ClassStable DEF StoreOk
<1>4. \A d \in Classes \ N : ~Cached(B, d) /\ \A m \in Methods : B[d][m].kind # "compiled"
  BY DEF StoreOk, Cached, AttrNames, Methods
<1> QED
  BY <1>1, <1>3, <1>4 DEF StoreOk

\* The caches are filled in the same order if no other is filled.
LEMMA OrderStable ==
  ASSUME FInv, \A c \in Classes : Cached(attr, c) <=> Cached(attr', c), registry'.list = registry.list
  PROVE  Ordered'
<1>1. PICK r \in [Classes -> Nat] : OrderOk(r, attr, registry)
  BY DEF FInv, Ordered
<1>2. Filled(attr') = Filled(attr)
  BY DEF Filled
<1>3. OrderOk(r, attr', registry')
  BY <1>1, <1>2 DEF OrderOk, Inside
<1> QED
  BY <1>1, <1>3 DEF Ordered

-----------------------------------------------------------------------------
(* The stack of a call. *)

\* A stack as a function of the heights.
LEMMA StackIsFcn == ASSUME NEW s, Stack(s) PROVE s = [i \in 1 .. Len(s) |-> s[i]]
  BY LenProperties DEF Stack

\* A frame that has gone through some of the cases of a switch.
CasesOk(f, A, R, N) ==
  /\ IsFrame(f) /\ f.cls \in N /\ f.fn = "ensure_resolved" /\ f.pc = "case" /\ f.wire = f.cls
  /\ f.pairs = R.list /\ R.entries # None
  /\ Stack(f.parts) /\ Len(f.parts) < Len(Decl[f.cls]) /\ Decl[f.cls][Len(f.parts) + 1].kind = "switch"
  /\ \A i \in 1 .. Len(f.parts) : f.parts[i] = Part(A, R, Decl[f.cls][i]) /\ Ready(A, R, Decl[f.cls][i])
  /\ Stack(f.cases) /\ Len(f.cases) <= Len(R.list)
  /\ \A j \in 1 .. Len(f.cases) : Holds(A, R.list[j], f.cases[j])

\* All cases of a switch are resolved, or not yet.
LEMMA CasesDoneOk ==
  ASSUME NEW A, NEW R, NEW N, N \subseteq Classes, RegistryOk(R), NEW f, CasesOk(f, A, R, N)
  PROVE  /\ InCallOk(CasesDone(f), A, R, N)
         /\ CasesDone(f).fn = "ensure_resolved" /\ CasesDone(f).cls = f.cls
<1> USE DEF CasesOk
<1>1. Len(f.cases) \in Nat /\ Len(f.parts) \in Nat /\ Len(R.list) \in Nat /\ DOMAIN R.list = 1 .. Len(R.list)
  BY StackPush DEF RegistryOk
<1>2. CASE Len(f.cases) < Len(f.pairs)
  <2>1. CasesDone(f) = f
    BY <1>2 DEF CasesDone
  <2>2. CollectOk(f, A, R)
    BY <1>1, <1>2 DEF CollectOk, InCases
  <2> QED
    BY <2>1, <2>2 DEF InCallOk, ResolveOk
<1>3. CASE ~(Len(f.cases) < Len(f.pairs))
  <2> DEFINE g == CasesDone(f)
             k == Len(f.parts) + 1
             spec == Decl[f.cls][k]
  <2>1. g = [f EXCEPT !.pc = "field", !.parts = Append(@, Cases(f.cases)), !.pairs = <<>>, !.cases = <<>>]
    BY <1>3 DEF CasesDone
  <2>2. /\ g.fn = f.fn /\ g.cls = f.cls /\ g.pc = "field" /\ g.wire = f.wire
        /\ g.parts = Append(f.parts, Cases(f.cases)) /\ g.cases = <<>>
        /\ IsFrame(g)
    BY <2>1 DEF IsFrame
  <2>3. Len(f.cases) = Len(R.list)
    BY <1>1, <1>3
  <2>4. f.cases = [j \in DOMAIN R.list |-> A[R.list[j]].resolved] /\ \A j \in DOMAIN R.list : Cached(A, R.list[j])
    BY <1>1, <2>3, StackIsFcn DEF Holds
  <2>5. Cases(f.cases) = Part(A, R, spec) /\ Ready(A, R, spec)
    BY <2>4 DEF Part, Ready
  <2> HIDE DEF g
  <2>6. /\ Stack(g.parts) /\ Len(g.parts) = k
        /\ \A i \in 1 .. Len(f.parts) : g.parts[i] = f.parts[i]
        /\ g.parts[k] = Cases(f.cases)
    BY <2>2, StackPush
  <2>7. Len(g.parts) <= Len(Decl[f.cls])
    BY <1>1, <2>6, SpecFacts
  <2>8. \A i \in 1 .. k : g.parts[i] = Part(A, R, Decl[f.cls][i]) /\ Ready(A, R, Decl[f.cls][i])
    BY <1>1, <2>5, <2>6
  <2>9. CollectOk(g, A, R)
    BY <2>2, <2>6, <2>7, <2>8 DEF CollectOk, InCases
  <2> QED
    BY <2>2, <2>9 DEF InCallOk, ResolveOk, g
<1> QED
  BY <1>2, <1>3

\* A frame goes on with the schema that the call it made returned.
LEMMA ResumeOk ==
  ASSUME NEW A, NEW R, NEW N, N \subseteq Classes, RegistryOk(R), NEW f, InCallOk(f, A, R, N),
         NEW g, Awaits(f, g), NEW v, Holds(A, g.cls, v)
  PROVE  InCallOk(Resume(f, v), A, R, N) /\ Resume(f, v).fn = f.fn /\ Resume(f, v).cls = f.cls
<1> DEFINE h == Resume(f, v)
<1>0. IsFrame(f) /\ f.cls \in N /\ f.cls \in Classes
  BY DEF InCallOk
<1>1. CASE f.fn = "ensure_resolved" /\ f.pc = "field"
  <2> DEFINE k == Len(f.parts) + 1
  <2>1. CollectOk(f, A, R)
    BY <1>1 DEF InCallOk, ResolveOk, CodecOk, TrampolineOk, MethodFrameOk, TopLevelOk, InstallOk, Methods
  <2>2. Len(f.parts) < Len(Decl[f.cls]) /\ Decl[f.cls][k].kind = "struct" /\ g.cls = Decl[f.cls][k].cls
    BY <1>1 DEF Awaits
  <2>3. h = [f EXCEPT !.parts = Append(@, v)]
    BY <1>1 DEF Resume
  <2>4. IsFrame(h) /\ h.fn = f.fn /\ h.cls = f.cls /\ h.pc = "field" /\ h.wire = f.wire
        /\ h.parts = Append(f.parts, v) /\ h.cases = f.cases
    BY <1>0, <1>1, <2>3 DEF IsFrame
  <2> HIDE DEF h
  <2>5. Stack(f.parts) /\ Len(f.parts) \in Nat
    BY <2>1, StackPush DEF CollectOk
  <2>6. /\ Stack(h.parts) /\ Len(h.parts) = k
        /\ \A i \in 1 .. Len(f.parts) : h.parts[i] = f.parts[i]
        /\ h.parts[k] = v
    BY <2>4, <2>5, StackPush
  <2>7. Part(A, R, Decl[f.cls][k]) = v /\ Ready(A, R, Decl[f.cls][k])
    BY <2>2 DEF Part, Ready, Holds
  <2>8. \A i \in 1 .. k : h.parts[i] = Part(A, R, Decl[f.cls][i]) /\ Ready(A, R, Decl[f.cls][i])
    BY <2>1, <2>5, <2>6, <2>7 DEF CollectOk
  <2>9. Len(Decl[f.cls]) \in Nat
    BY <1>0, SpecFacts
  <2>10. CollectOk(h, A, R)
    BY <1>1, <2>1, <2>2, <2>4, <2>5, <2>6, <2>8, <2>9 DEF CollectOk, InCases
  <2> QED
    BY <1>0, <1>1, <2>4, <2>10 DEF InCallOk, ResolveOk, h
<1>2. CASE f.fn = "ensure_resolved" /\ f.pc = "case"
  <2> DEFINE e == [f EXCEPT !.cases = Append(@, v)]
  <2>1. CollectOk(f, A, R)
    BY <1>2 DEF InCallOk, ResolveOk, CodecOk, TrampolineOk, MethodFrameOk, TopLevelOk, InstallOk, Methods
  <2>2. h = CasesDone(e)
    BY <1>2 DEF Resume
  <2>3. IsFrame(e) /\ e.fn = f.fn /\ e.cls = f.cls /\ e.pc = "case" /\ e.wire = f.wire
        /\ e.parts = f.parts /\ e.pairs = f.pairs /\ e.cases = Append(f.cases, v)
    BY <1>0, <1>2 DEF IsFrame
  <2> HIDE DEF e
  <2>4. Stack(f.cases) /\ Len(f.cases) \in Nat /\ Len(f.cases) < Len(R.list) /\ f.pairs = R.list
    BY <1>2, <2>1, StackPush DEF CollectOk
  <2>5. Stack(e.cases) /\ Len(e.cases) = Len(f.cases) + 1
        /\ (\A i \in 1 .. Len(f.cases) : e.cases[i] = f.cases[i]) /\ e.cases[Len(f.cases) + 1] = v
    BY <2>3, <2>4, StackPush
  <2>6. g.cls = R.list[Len(f.cases) + 1]
    BY <1>2, <2>4 DEF Awaits
  <2>7. \A j \in 1 .. Len(e.cases) : Holds(A, R.list[j], e.cases[j])
    <3>1. \A j \in 1 .. Len(f.cases) : Holds(A, R.list[j], f.cases[j])
      BY <1>2, <2>1 DEF CollectOk
    <3>2. \A j \in 1 .. Len(e.cases) : j = Len(f.cases) + 1 \/ j \in 1 .. Len(f.cases)
      BY <2>4, <2>5
    <3> QED
      BY <2>5, <2>6, <3>1, <3>2
  <2>8. Len(R.list) \in Nat
    BY DEF RegistryOk
  <2>9. /\ R.entries # None /\ Stack(f.parts) /\ f.wire = f.cls
        /\ Len(f.parts) < Len(Decl[f.cls]) /\ Decl[f.cls][Len(f.parts) + 1].kind = "switch"
        /\ \A i \in 1 .. Len(f.parts) : f.parts[i] = Part(A, R, Decl[f.cls][i]) /\ Ready(A, R, Decl[f.cls][i])
    BY <1>2, <2>1 DEF CollectOk, InCases
  <2>10. Len(e.cases) <= Len(R.list)
    BY <2>4, <2>5, <2>8
  <2>11. InCallOk(CasesDone(e), A, R, N) /\ CasesDone(e).fn = "ensure_resolved" /\ CasesDone(e).cls = e.cls
    <3>1. /\ IsFrame(e) /\ e.cls \in N /\ e.fn = "ensure_resolved" /\ e.pc = "case" /\ e.wire = e.cls
          /\ e.pairs = R.list /\ R.entries # None
      BY <1>0, <1>2, <2>3, <2>4, <2>9
    <3>2. /\ Stack(e.parts) /\ Len(e.parts) < Len(Decl[e.cls]) /\ Decl[e.cls][Len(e.parts) + 1].kind = "switch"
          /\ \A i \in 1 .. Len(e.parts) : e.parts[i] = Part(A, R, Decl[e.cls][i]) /\ Ready(A, R, Decl[e.cls][i])
      BY <2>3, <2>9
    <3>3. CasesOk(e, A, R, N)
      BY <2>5, <2>7, <2>10, <3>1, <3>2 DEF CasesOk
    <3> QED
      BY <3>3, CasesDoneOk
  <2> QED
    BY <1>2, <2>2, <2>3, <2>11
<1>3. CASE f.fn = "call"
  <2>1. TopLevelOk(f, A, N)
    BY <1>3 DEF InCallOk, ResolveOk, CodecOk, TrampolineOk, MethodFrameOk
  <2>2. g.cls = f.cls /\ f.pc \in {"enter", "convert"}
    BY <1>3, <2>1 DEF Awaits
  <2>3. CASE f.pc = "enter"
    <3>1. h = [f EXCEPT !.pc = "convert", !.codec = v]
      BY <1>3, <2>3 DEF Resume
    <3>2. IsFrame(h) /\ h.fn = f.fn /\ h.cls = f.cls /\ h.pc = "convert" /\ h.codec = v /\ h.m = f.m /\ h.meth = f.meth
      BY <1>0, <3>1 DEF IsFrame
    <3> QED
      BY <1>0, <1>3, <2>1, <2>2, <3>2 DEF InCallOk, TopLevelOk
  <2>4. CASE f.pc = "convert"
    <3>1. h = [f EXCEPT !.pc = "return", !.run = v]
      BY <1>3, <2>4 DEF Resume
    <3>2. /\ IsFrame(h) /\ h.fn = f.fn /\ h.cls = f.cls /\ h.pc = "return" /\ h.codec = f.codec /\ h.m = f.m
          /\ h.meth = f.meth /\ h.run = v
      BY <1>0, <3>1 DEF IsFrame
    <3> QED
      BY <1>0, <1>3, <2>1, <2>2, <2>4, <3>2 DEF InCallOk, TopLevelOk
  <2> QED
    BY <2>2, <2>3, <2>4
<1>4. CASE f.fn = "trampoline"
  <2>1. TrampolineOk(f, A)
    BY <1>4 DEF InCallOk, ResolveOk, CodecOk, TopLevelOk, MethodFrameOk
  <2>2. g.cls = f.cls /\ f.pc \in {"enter", "delegate"}
    BY <1>4, <2>1 DEF Awaits
  <2>3. CASE f.pc = "enter"
    <3>1. h = [f EXCEPT !.pc = "delegate"]
      BY <1>4, <2>3 DEF Resume
    <3>2. IsFrame(h) /\ h.fn = f.fn /\ h.cls = f.cls /\ h.pc = "delegate" /\ h.m = f.m
      BY <1>0, <3>1 DEF IsFrame
    <3> QED
      BY <1>0, <1>4, <2>1, <3>2 DEF InCallOk, TrampolineOk
  <2>4. CASE f.pc = "delegate"
    <3>1. h = [f EXCEPT !.pc = "return", !.run = v]
      BY <1>4, <2>4 DEF Resume
    <3>2. IsFrame(h) /\ h.fn = f.fn /\ h.cls = f.cls /\ h.pc = "return" /\ h.m = f.m /\ h.run = v
      BY <1>0, <3>1 DEF IsFrame
    <3> QED
      BY <1>0, <1>4, <2>1, <2>2, <3>2 DEF InCallOk, TrampolineOk
  <2> QED
    BY <2>2, <2>3, <2>4
<1>5. CASE f.fn = "get_codec"
  <2>1. g.cls = f.cls
    BY <1>5 DEF Awaits
  <2>2. h = [f EXCEPT !.pc = "compile", !.codec = v]
    BY <1>5 DEF Resume
  <2>3. IsFrame(h) /\ h.fn = f.fn /\ h.cls = f.cls /\ h.pc = "compile" /\ h.codec = v
    BY <1>0, <2>2 DEF IsFrame
  <2> QED
    BY <1>0, <1>5, <2>1, <2>3 DEF InCallOk, CodecOk
<1>6. CASE f.fn = "method"
  <2>1. MethodFrameOk(f, A, N)
    BY <1>6 DEF InCallOk, ResolveOk, CodecOk, TopLevelOk, TrampolineOk
  <2>2. h = [f EXCEPT !.parts = Append(@, Scalar)]
    BY <1>6 DEF Resume
  <2>3. IsFrame(h) /\ h.fn = f.fn /\ h.cls = f.cls /\ h.pc = f.pc /\ h.meth = f.meth /\ h.m = f.m
        /\ h.parts = Append(f.parts, Scalar)
    BY <1>0, <2>2 DEF IsFrame
  <2>4. Stack(h.parts)
    BY <2>1, <2>3, StackPush DEF MethodFrameOk
  <2> QED
    BY <1>0, <1>6, <2>1, <2>3, <2>4 DEF InCallOk, MethodFrameOk
<1> QED
  BY <1>1, <1>2, <1>3, <1>4, <1>5, <1>6 DEF Awaits

\* A thread that makes no call.
LEMMA NoCall == ASSUME NEW A, NEW R, NEW N PROVE CallStackOk(<<>>, A, R, N)
<1>1. <<>> \in Seq({}) /\ \A i : i \notin DOMAIN <<>>
  OBVIOUS
<1>2. Stack(<<>>)
  BY <1>1, IsStack
<1> QED
  BY <1>1, <1>2 DEF CallStackOk

\* The innermost frame moves on.
LEMMA GotoStack ==
  ASSUME NEW A, NEW R, NEW N, NEW s, CallStackOk(s, A, R, N), s # <<>>,
         NEW f, InCallOk(f, A, R, N), f.fn = Last(s).fn, f.cls = Last(s).cls
  PROVE  /\ CallStackOk(Topped(s, f), A, R, N)
         /\ Topped(s, f) # <<>> /\ Last(Topped(s, f)) = f
<1> DEFINE e == Topped(s, f)
<1>0. Stack(s) /\ Len(s) \in Nat /\ Len(s) >= 1 /\ Last(s) = s[Len(s)] /\ DOMAIN s = 1 .. Len(s)
  BY StackPop DEF CallStackOk
<1>1. /\ \A i \in DOMAIN s : InCallOk(s[i], A, R, N)
      /\ \A i \in DOMAIN s : i + 1 \in DOMAIN s => Awaits(s[i], s[i + 1])
      /\ s[1].fn = "call"
  BY DEF CallStackOk
<1>2. /\ Stack(e) /\ e # <<>> /\ Len(e) = Len(s) /\ DOMAIN e = 1 .. Len(s)
      /\ \A i \in 1 .. (Len(s) - 1) : e[i] = s[i]
      /\ e[Len(s)] = f /\ Last(e) = f
  BY <1>0, StackUpdate
<1> HIDE DEF e
<1>3. \A i \in 1 .. Len(s) : i = Len(s) \/ i \in 1 .. (Len(s) - 1)
  BY <1>0, TopOrBelow
<1>4. \A i \in DOMAIN e : InCallOk(e[i], A, R, N) /\ e[i].fn = s[i].fn /\ e[i].cls = s[i].cls
  BY <1>0, <1>1, <1>2, <1>3
<1>5. ASSUME NEW i \in DOMAIN e, i + 1 \in DOMAIN e PROVE Awaits(e[i], e[i + 1])
  <2>1. i \in 1 .. (Len(s) - 1) /\ i \in DOMAIN s /\ i + 1 \in DOMAIN s
    BY <1>0, <1>2, <1>5
  <2>2. Awaits(s[i], s[i + 1]) /\ e[i] = s[i] /\ e[i + 1].fn = s[i + 1].fn /\ e[i + 1].cls = s[i + 1].cls
    BY <1>0, <1>1, <1>2, <1>4, <1>5, <2>1
  <2> QED
    BY <2>2 DEF Awaits
<1>6. 1 \in DOMAIN e
  BY <1>0, <1>1, <1>2
<1>7. CallStackOk(e, A, R, N)
  BY <1>0, <1>1, <1>2, <1>4, <1>5, <1>6 DEF CallStackOk
<1> QED
  BY <1>2, <1>7 DEF e

\* The innermost frame makes a call.
LEMMA PushStack ==
  ASSUME NEW A, NEW R, NEW N, NEW s, CallStackOk(s, A, R, N), s # <<>>,
         NEW g, InCallOk(g, A, R, N), Awaits(Last(s), g)
  PROVE  CallStackOk(Append(s, g), A, R, N)
<1> DEFINE e == Append(s, g)
<1>0. Stack(s) /\ Len(s) \in Nat /\ Len(s) >= 1 /\ Last(s) = s[Len(s)] /\ DOMAIN s = 1 .. Len(s)
  BY StackPop DEF CallStackOk
<1>1. /\ \A i \in DOMAIN s : InCallOk(s[i], A, R, N)
      /\ \A i \in DOMAIN s : i + 1 \in DOMAIN s => Awaits(s[i], s[i + 1])
      /\ s[1].fn = "call"
  BY DEF CallStackOk
<1>2. /\ Stack(e) /\ e # <<>> /\ Len(e) = Len(s) + 1 /\ DOMAIN e = 1 .. (Len(s) + 1)
      /\ \A i \in 1 .. Len(s) : e[i] = s[i]
      /\ e[Len(s) + 1] = g
  BY <1>0, StackPush
<1> HIDE DEF e
<1>3. \A i \in DOMAIN e : i = Len(s) + 1 \/ i \in 1 .. Len(s)
  BY <1>0, <1>1, <1>2
<1>4. \A i \in DOMAIN e : InCallOk(e[i], A, R, N)
  BY <1>0, <1>1, <1>2, <1>3
<1>5. ASSUME NEW i \in DOMAIN e, i + 1 \in DOMAIN e PROVE Awaits(e[i], e[i + 1])
  <2>1. i \in 1 .. Len(s)
    BY <1>0, <1>2, <1>5
  <2>2. CASE i = Len(s)
    BY <1>0, <1>1, <1>2, <2>1, <2>2
  <2>3. CASE i # Len(s)
    <3>1. i \in DOMAIN s /\ i + 1 \in DOMAIN s /\ i + 1 \in 1 .. Len(s)
      BY <1>0, <1>1, <2>1, <2>3
    <3> QED
      BY <1>0, <1>1, <1>2, <3>1
  <2> QED
    BY <2>2, <2>3
<1>6. 1 \in DOMAIN e /\ e[1] = s[1]
  BY <1>0, <1>1, <1>2
<1>7. CallStackOk(e, A, R, N)
  BY <1>0, <1>1, <1>2, <1>4, <1>5, <1>6 DEF CallStackOk
<1> QED
  BY <1>7 DEF e

\* The innermost frame returns the schema of its class.
Returned(s, v) == LET rest == Front(s) IN [rest EXCEPT ![Len(rest)] = Resume(@, v)]
LEMMA ReturnStack ==
  ASSUME NEW A, NEW R, NEW N, N \subseteq Classes, RegistryOk(R), NEW s, CallStackOk(s, A, R, N), s # <<>>,
         Last(s).fn # "call", NEW v, Holds(A, Last(s).cls, v)
  PROVE  CallStackOk(Returned(s, v), A, R, N)
<1> DEFINE rest == Front(s)
           f == Last(rest)
<1>0. Stack(s) /\ Len(s) \in Nat /\ Len(s) >= 1 /\ Last(s) = s[Len(s)] /\ DOMAIN s = 1 .. Len(s)
  BY StackPop DEF CallStackOk
<1>1. /\ \A i \in DOMAIN s : InCallOk(s[i], A, R, N)
      /\ \A i \in DOMAIN s : i + 1 \in DOMAIN s => Awaits(s[i], s[i + 1])
      /\ s[1].fn = "call"
  BY DEF CallStackOk
<1>2. /\ Stack(rest) /\ Len(rest) = Len(s) - 1 /\ DOMAIN rest = 1 .. (Len(s) - 1)
      /\ \A i \in 1 .. (Len(s) - 1) : rest[i] = s[i]
  BY <1>0, StackPop
<1>3. Len(s) - 1 \in 1 .. (Len(s) - 1)
  <2>1. Len(s) # 1
    BY <1>0, <1>1
  <2> QED
    BY <1>0, <2>1
<1>4. rest # <<>>
  BY <1>0, <1>1, <1>2, <1>3
<1> HIDE DEF rest
<1>5. f = s[Len(s) - 1]
  BY <1>2, <1>3, <1>4, StackPop
<1>6. Len(s) - 1 \in DOMAIN s /\ (Len(s) - 1) + 1 = Len(s) /\ Len(s) \in DOMAIN s
  BY <1>0, <1>1, <1>3
<1>7. Awaits(f, Last(s)) /\ InCallOk(f, A, R, N)
  BY <1>0, <1>1, <1>5, <1>6
<1>8. CallStackOk(rest, A, R, N)
  <2>1. \A i \in DOMAIN rest : i \in DOMAIN s /\ i \in 1 .. (Len(s) - 1)
    BY <1>0, <1>1, <1>2
  <2>2. 1 \in DOMAIN rest
    BY <1>2, <1>3
  <2>3. \A i \in DOMAIN rest : i + 1 \in DOMAIN rest => Awaits(rest[i], rest[i + 1])
    BY <1>0, <1>1, <1>2, <2>1
  <2>4. \A i \in DOMAIN rest : InCallOk(rest[i], A, R, N)
    BY <1>0, <1>1, <1>2, <2>1
  <2> QED
    BY <1>0, <1>1, <1>2, <2>1, <2>2, <2>3, <2>4 DEF CallStackOk
<1>9. InCallOk(Resume(f, v), A, R, N) /\ Resume(f, v).fn = f.fn /\ Resume(f, v).cls = f.cls
  BY <1>7, ResumeOk
<1>10. CallStackOk(Topped(rest, Resume(f, v)), A, R, N)
  BY <1>4, <1>8, <1>9, GotoStack
<1>11. Returned(s, v) = Topped(rest, Resume(f, v))
  BY <1>2, <1>4, StackPop DEF Returned, rest, Topped
<1> QED
  BY <1>10, <1>11

-----------------------------------------------------------------------------
(* A step of a thread in a call. *)

\* The frame of a call is not that of a class statement.
LEMMA CallFrame ==
  ASSUME NEW A, NEW R, NEW N, NEW f, InCallOk(f, A, R, N) PROVE f.fn # "class"
  BY DEF InCallOk, ResolveOk, CodecOk, TrampolineOk, MethodFrameOk, TopLevelOk

\* While no class is registered, the registry holds named classes.
LEMMA NoStatement ==
  ASSUME FInv, \A u \in Threads : ~Registering(u)
  PROVE  Range(registry.list) \subseteq named
  BY DEF FInv, ListOk

\* While a thread is in a call no class is registered.
LEMMA InCall ==
  ASSUME FInv, NEW t \in Threads, stack[t] # <<>>, Top(t).fn # "class"
  PROVE  /\ \A u \in Threads : ~Registering(u)
         /\ CallStackOk(stack[t], attr, registry, named)
         /\ Range(registry.list) \subseteq named
         /\ InCallOk(Top(t), attr, registry, named)
         /\ Top(t).cls \in named /\ Top(t).cls \in Classes
         /\ named \subseteq Classes /\ RegistryOk(registry) /\ AttrOk(attr)
         /\ ClassOk(Top(t).cls, attr, registry, named)
<1>1. /\ CallStackOk(stack[t], attr, registry, named) \/ ClassStackOk(stack[t], attr, registry, named)
      /\ Alone
      /\ named \subseteq Classes /\ RegistryOk(registry) /\ AttrOk(attr)
      /\ \A c \in named : ClassOk(c, attr, registry, named)
  BY DEF FInv, StacksOk, StoreOk
<1>2. ~ClassStackOk(stack[t], attr, registry, named)
  BY StackPop DEF ClassStackOk, Top, InClassOk
<1>3. CallStackOk(stack[t], attr, registry, named)
  BY <1>1, <1>2
<1>4. /\ Len(stack[t]) \in DOMAIN stack[t] /\ Top(t) = stack[t][Len(stack[t])] /\ stack[t][1].fn = "call"
  BY <1>3, StackPop DEF CallStackOk, Top
<1>5. ~Registering(t) /\ InCallOk(Top(t), attr, registry, named)
  BY <1>3, <1>4 DEF CallStackOk, Defining, Registering
<1>6. \A u \in Threads : ~Registering(u)
  BY <1>1, <1>5 DEF Alone
<1>7. Top(t).cls \in named
  BY <1>5 DEF InCallOk
<1> QED
  BY <1>1, <1>3, <1>5, <1>6, <1>7, NoStatement

\* Whoever installs the methods of a class goes on doing so or has installed them.
StillInstalled(A, B, N, s, s2) ==
  \A c \in N : Cached(B, c) /\ (Cached(A, c) => Busy(c, s)) => AllCompiled(B, c) \/ Busy(c, s2)

\* What a class statement has done so far stays while calls go on, unless it
\* registers its class.
LEMMA ClassStackStable ==
  ASSUME NEW A, NEW R, NEW B, NEW Q, Grows(A, R, B, Q), NEW N, Spares(A, B, N),
         NEW s, ClassStackOk(s, A, R, N), s[1].cls \notin Keyed
  PROVE  ClassStackOk(s, B, Q, N)
<1>1. InClassOk(s[1], A, R, N) /\ s[1].cls \in Classes \ N /\ s[1].pc \in DOMAIN SetBefore
  BY DEF ClassStackOk, InClassOk, IsFrame
<1>2. \A p \in DOMAIN SetBefore : SetBefore[p] \subseteq AttrNames
  BY DEF SetBefore, AttrNames
<1>3. \A a \in SetBefore[s[1].pc] : B[s[1].cls][a] = A[s[1].cls][a]
  BY <1>1, <1>2 DEF Spares
<1>4. Q.list = R.list
  BY DEF Grows
<1>5. InClassOk(s[1], B, Q, N)
  BY <1>1, <1>3, <1>4 DEF InClassOk
<1> QED
  BY <1>5 DEF ClassStackOk

\* A step of a thread that is in no class statement, before or after it.
LEMMA StepSpoils ==
  ASSUME FInv, NEW t \in Threads, \A u \in Threads : ~Registering(u),
         NEW s2, stack' = [stack EXCEPT ![t] = s2], named' = named, spoiled \subseteq spoiled',
         CallStackOk(s2, attr', registry', named),
         Grows(attr, registry, attr', registry'), StoreOk(attr', registry', named), Ordered',
         Spares(attr, attr', named),
         StillInstalled(attr, attr', named \ spoiled', stack[t], s2),
         outcome' = [u \in Threads |-> outcome'[u]],
         \A u \in Threads : outcome'[u] = outcome[u] \/ OutcomeOk(outcome'[u], attr')
  PROVE  FInv'
<1>1. /\ Range(registry.list) \subseteq named
      /\ named \subseteq Classes /\ RegistryOk(registry)
  BY NoStatement DEF FInv, StoreOk
<1>2. stack = [u \in Threads |-> stack[u]]
  BY DEF FInv, StacksOk
<1>3. /\ stack' = [u \in Threads |-> stack'[u]] /\ stack'[t] = s2
      /\ \A u \in Threads : u # t => stack'[u] = stack[u]
  BY <1>2
<1>4. ListOk'
  BY <1>1 DEF ListOk, Grows
<1>5. ASSUME NEW u \in Threads, u # t
      PROVE  CallStackOk(stack[u], attr', registry', named) \/ ClassStackOk(stack[u], attr', registry', named)
  <2>1. CASE CallStackOk(stack[u], attr, registry, named)
    BY <1>1, <2>1, CallStackStable
  <2>2. CASE ClassStackOk(stack[u], attr, registry, named)
    <3>1. stack[u] # <<>>
      BY <2>2, StackPop DEF ClassStackOk
    <3>2. stack[u][1].cls \notin Keyed
      BY <2>2, <3>1 DEF ClassStackOk, InClassOk, Registering, Defining
    <3> QED
      BY <2>2, <3>2, ClassStackStable
  <2> QED
    BY <2>1, <2>2 DEF FInv, StacksOk
<1>6. StacksOk'
  BY <1>3, <1>5 DEF StacksOk
<1>7. ~Defining(t)' /\ \A u \in Threads : u # t => (Defining(u)' <=> Defining(u)) /\ (Registering(u)' <=> Registering(u))
  BY <1>3 DEF CallStackOk, Defining, Registering
<1>8. Alone' /\ Apart'
  <2>1. \A u \in Threads : ~Registering(u)'
    BY <1>7 DEF Registering
  <2>2. Apart'
    BY <1>3, <1>7 DEF FInv, Apart
  <2> QED
    BY <2>1, <2>2 DEF Alone
<1>9. Installed'
  <2> SUFFICES ASSUME NEW c \in named \ spoiled', Cached(attr', c)
               PROVE  AllCompiled(attr', c) \/ \E u \in Threads : Busy(c, stack'[u])
    BY DEF Installed
  <2>1. CASE ~Cached(attr, c) \/ Busy(c, stack[t])
    BY <1>3, <2>1 DEF StillInstalled
  <2>2. CASE Cached(attr, c) /\ ~Busy(c, stack[t])
    <3>1. AllCompiled(attr, c) \/ \E u \in Threads : Busy(c, stack[u])
      BY <2>2 DEF FInv, Installed
    <3>2. CASE AllCompiled(attr, c)
      <4>1. c \in Classes
        BY <1>1
      <4> QED
        BY <3>2, <4>1 DEF AllCompiled, Grows
    <3>3. ASSUME NEW u \in Threads, Busy(c, stack[u]) PROVE Busy(c, stack'[u])
      BY <1>3, <2>2, <3>3
    <3> QED
      BY <3>1, <3>2, <3>3
  <2> QED
    BY <2>1, <2>2
<1>10. OutcomesOk'
  <2>1. ASSUME NEW u \in Threads, outcome'[u] = outcome[u] PROVE OutcomeOk(outcome'[u], attr')
    <3>1. OutcomeOk(outcome[u], attr)
      BY DEF FInv, OutcomesOk
    <3> QED
      BY <2>1, <3>1, HoldsStable DEF OutcomeOk
  <2> QED
    BY <2>1 DEF OutcomesOk
<1> QED
  BY <1>4, <1>6, <1>8, <1>9, <1>10 DEF FInv

\* So is every step but a raise from compile_functions.
LEMMA StepThread ==
  ASSUME FInv, NEW t \in Threads, \A u \in Threads : ~Registering(u),
         NEW s2, stack' = [stack EXCEPT ![t] = s2], named' = named /\ spoiled' = spoiled,
         CallStackOk(s2, attr', registry', named),
         Grows(attr, registry, attr', registry'), StoreOk(attr', registry', named), Ordered',
         Spares(attr, attr', named),
         StillInstalled(attr, attr', named, stack[t], s2),
         outcome' = [u \in Threads |-> outcome'[u]],
         \A u \in Threads : outcome'[u] = outcome[u] \/ OutcomeOk(outcome'[u], attr')
  PROVE  FInv'
<1>1. StillInstalled(attr, attr', named \ spoiled', stack[t], s2)
  BY DEF StillInstalled
<1> QED
  BY <1>1, StepSpoils

-----------------------------------------------------------------------------
(* Steps that change neither a class nor the registry. *)

LEMMA SameStore ==
  ASSUME FInv, UNCHANGED Shared
  PROVE  /\ Grows(attr, registry, attr', registry') /\ StoreOk(attr', registry', named) /\ Ordered'
         /\ Spares(attr, attr', named)
         /\ attr' = attr /\ registry' = registry
<1>1. attr' = attr /\ registry' = registry
  BY DEF Shared
<1> QED
  BY <1>1 DEF FInv, Grows, Ordered, Spares

NotInstalling(f) == f.fn = "ensure_resolved" => f.pc \notin Methods \cup {"compile"}

LEMMA SimpleGoto ==
  ASSUME FInv, NEW t \in Threads, stack[t] # <<>>, Top(t).fn # "class", UNCHANGED Shared,
         NEW f, Goto(t, f), InCallOk(f, attr, registry, named), f.fn = Top(t).fn, f.cls = Top(t).cls,
         NotInstalling(Top(t)) \/ ~NotInstalling(f)
  PROVE  FInv'
<1> DEFINE s2 == Topped(stack[t], f)
<1>1. CallStackOk(stack[t], attr, registry, named)
  BY InCall
<1>2. CallStackOk(s2, attr, registry, named) /\ s2 # <<>> /\ Last(s2) = f
  BY <1>1, GotoStack DEF Top
<1>3. stack' = [stack EXCEPT ![t] = s2] /\ outcome' = outcome /\ named' = named /\ spoiled' = spoiled
  BY DEF Goto, Topped, Books, FInv, StacksOk
<1> HIDE DEF s2
<1>4. StillInstalled(attr, attr', named, stack[t], s2)
  BY <1>2, SameStore DEF StillInstalled, Busy, NotInstalling, Top
<1>5. outcome' = [u \in Threads |-> outcome'[u]]
  BY <1>3 DEF FInv, OutcomesOk
<1> QED
  BY <1>2, <1>3, <1>4, <1>5, SameStore, InCall, StepThread

LEMMA SimpleRaise ==
  ASSUME FInv, NEW t \in Threads, stack[t] # <<>>, Top(t).fn # "class", UNCHANGED Shared,
         NEW e, e # "ok", Raise(t, e), NotInstalling(Top(t))
  PROVE  FInv'
<1>1. CallStackOk(<<>>, attr, registry, named)
  BY NoCall
<1>2. stack' = [stack EXCEPT ![t] = <<>>] /\ named' = named /\ spoiled' = spoiled
  BY DEF Raise, Exit, Books
<1>3. outcome' = [u \in Threads |-> outcome'[u]] /\ \A u \in Threads : outcome'[u] = outcome[u] \/ OutcomeOk(outcome'[u], attr')
  BY DEF Raise, Exit, FInv, OutcomesOk, OutcomeOk, Done
<1>4. StillInstalled(attr, attr', named, stack[t], <<>>)
  BY SameStore DEF StillInstalled, Busy, NotInstalling, Top
<1> QED
  BY <1>1, <1>2, <1>3, <1>4, SameStore, InCall, StepThread

LEMMA SimpleCall ==
  ASSUME FInv, NEW t \in Threads, stack[t] # <<>>, Top(t).fn # "class", UNCHANGED Shared,
         NEW g, Call(t, g), InCallOk(g, attr, registry, named), Awaits(Top(t), g)
  PROVE  FInv'
<1> DEFINE s2 == Append(stack[t], g)
<1>1. NotInstalling(Top(t))
  BY DEF NotInstalling, Awaits, Methods
<1>2. CASE Raise(t, "RecursionError")
  BY <1>1, <1>2, SimpleRaise
<1>3. CASE stack' = [stack EXCEPT ![t] = Append(@, g)] /\ UNCHANGED <<outcome, Books>>
  <2>1. CallStackOk(stack[t], attr, registry, named)
    BY InCall
  <2>2. CallStackOk(s2, attr, registry, named)
    BY <2>1, PushStack DEF Top
  <2>3. stack' = [stack EXCEPT ![t] = s2] /\ outcome' = outcome /\ named' = named /\ spoiled' = spoiled
    BY <1>3 DEF Books
  <2> HIDE DEF s2
  <2>4. StillInstalled(attr, attr', named, stack[t], s2)
    BY <1>1, SameStore DEF StillInstalled, Busy, NotInstalling, Top
  <2>5. outcome' = [u \in Threads |-> outcome'[u]]
    BY <2>3 DEF FInv, OutcomesOk
  <2> QED
    BY <2>2, <2>3, <2>4, <2>5, SameStore, InCall, StepThread
<1> QED
  BY <1>2, <1>3 DEF Call

LEMMA SimpleReturn ==
  ASSUME FInv, NEW t \in Threads, stack[t] # <<>>, Top(t).fn \notin {"class", "call"}, UNCHANGED Shared,
         NEW v, Return(t, v), Holds(attr, Top(t).cls, v), NotInstalling(Top(t))
  PROVE  FInv'
<1> DEFINE s2 == Returned(stack[t], v)
<1>1. CallStackOk(stack[t], attr, registry, named) /\ named \subseteq Classes /\ RegistryOk(registry)
  BY InCall
<1>2. CallStackOk(s2, attr, registry, named)
  BY <1>1, ReturnStack DEF Top
<1>3. stack' = [stack EXCEPT ![t] = s2] /\ outcome' = outcome /\ named' = named /\ spoiled' = spoiled
  BY DEF Return, Returned, Books
<1> HIDE DEF s2
<1>4. StillInstalled(attr, attr', named, stack[t], s2)
  BY SameStore DEF StillInstalled, Busy, NotInstalling, Top
<1>5. outcome' = [u \in Threads |-> outcome'[u]]
  BY <1>3 DEF FInv, OutcomesOk
<1> QED
  BY <1>2, <1>3, <1>4, <1>5, SameStore, InCall, StepThread

\* The frames of the calls the frontend makes.
LEMMA NewResolve ==
  ASSUME NEW A, NEW R, NEW N, N \subseteq Classes, NEW c \in N
  PROVE  /\ InCallOk(EnsureResolved(c), A, R, N)
         /\ EnsureResolved(c).fn = "ensure_resolved" /\ EnsureResolved(c).cls = c
<1>1. EnsureResolved(c).fn = "ensure_resolved" /\ EnsureResolved(c).cls = c
      /\ EnsureResolved(c).pc = "enter" /\ EnsureResolved(c).parts = <<>> /\ EnsureResolved(c).cases = <<>>
      /\ IsFrame(EnsureResolved(c))
  BY DEF EnsureResolved, Frame, IsFrame
<1> QED
  BY <1>1 DEF InCallOk, ResolveOk

LEMMA NewCodec ==
  ASSUME NEW A, NEW R, NEW N, N \subseteq Classes, NEW c \in N
  PROVE  InCallOk(GetCodec(c), A, R, N) /\ GetCodec(c).fn = "get_codec" /\ GetCodec(c).cls = c
<1>1. GetCodec(c).fn = "get_codec" /\ GetCodec(c).cls = c /\ GetCodec(c).pc = "enter" /\ IsFrame(GetCodec(c))
  BY DEF GetCodec, Frame, IsFrame
<1> QED
  BY <1>1 DEF InCallOk, CodecOk

LEMMA MethodKinds ==
  ASSUME NEW A, NEW N, NEW x, MethodOk(x, A, N)
  PROVE  /\ x.cls \in N
         /\ \/ x.kind = "trampoline" /\ x = Trampoline(x.cls)
            \/ x.kind = "compiled" /\ Holds(A, x.cls, x.schema)
<1>1. PICK S : x \in S /\ ClosedMethods(S, A, N)
  BY DEF MethodOk
<1>2. x = Trampoline(x.cls) => x.kind = "trampoline"
  BY DEF Trampoline
<1> QED
  BY <1>1, <1>2 DEF ClosedMethods, Holds

LEMMA NewInvoke ==
  ASSUME NEW A, NEW R, NEW N, N \subseteq Classes, NEW x, MethodOk(x, A, N), NEW m \in Methods
  PROVE  /\ InCallOk(Invoke(x, m), A, R, N)
         /\ Invoke(x, m).fn \in {"trampoline", "method"} /\ Invoke(x, m).cls = x.cls
<1> DEFINE g == Invoke(x, m)
<1>1. /\ g.fn = IF x.kind = "trampoline" THEN "trampoline" ELSE "method"
      /\ g.cls = x.cls /\ g.pc = "enter" /\ g.parts = <<>> /\ g.m = m /\ g.meth = x
      /\ (x.cls \in Classes => IsFrame(g))
  BY DEF Invoke, Frame, IsFrame
<1> HIDE DEF g
<1>2. x.cls \in N /\ x.kind \in {"trampoline", "compiled"}
  BY MethodKinds
<1>3. <<>> \in Seq({})
  OBVIOUS
<1>4. Stack(<<>>)
  BY <1>3, IsStack
<1>5. CASE x.kind = "trampoline"
  BY <1>1, <1>2, <1>5 DEF InCallOk, TrampolineOk, g
<1>6. CASE x.kind = "compiled"
  BY <1>1, <1>2, <1>4, <1>6 DEF InCallOk, MethodFrameOk, g
<1> QED
  BY <1>2, <1>5, <1>6

\* Attribute lookup finds what the class statement has put into the class.
LEMMA OwnAttributes ==
  ASSUME FInv, NEW c \in named
  PROVE  /\ WireFields(c) = c
         /\ \A m \in Methods : Method(c, m) = attr[c][m] /\ MethodOk(attr[c][m], attr, named) /\ attr[c][m].cls = c
<1>1. c \in Classes /\ ClassOk(c, attr, registry, named)
  BY DEF FInv, StoreOk
<1>2. c # NoClass
  BY <1>1, FrontendAssumption
<1>3. WireFields(c) = c
  BY <1>1, <1>2 DEF ClassOk, WireFields, Owner
<1>4. NoMethod.cls = NoClass
  BY DEF NoMethod
<1>5. \A m \in Methods : MethodOk(attr[c][m], attr, named) /\ attr[c][m].cls = c
  BY <1>1 DEF ClassOk
<1>6. \A m \in Methods : Method(c, m) = attr[c][m]
  BY <1>2, <1>4, <1>5 DEF Method, Owner
<1> QED
  BY <1>3, <1>5, <1>6

\* What At says, of a thread in a call.
LEMMA AtCall ==
  ASSUME FInv, NEW t \in Threads, NEW fn, NEW pc, At(t, fn, pc), fn # "class"
  PROVE  stack[t] # <<>> /\ Top(t).fn = fn /\ Top(t).fn # "class" /\ Top(t).pc = pc
  BY DEF At

LEMMA CheckResolvedStep ==
  ASSUME FInv, NEW t \in Threads, CheckResolved(t)
  PROVE  FInv'
<1> DEFINE f == Top(t)
           c == f.cls
           g == [f EXCEPT !.pc = "field", !.wire = WireFields(c)]
<1>1. stack[t] # <<>> /\ f.fn = "ensure_resolved" /\ f.pc = "enter" /\ UNCHANGED Shared
  BY AtCall DEF CheckResolved, At
<1>2. InCallOk(f, attr, registry, named) /\ c \in named /\ c \in Classes /\ IsFrame(f) /\ NotInstalling(f)
  BY <1>1, InCall DEF InCallOk, NotInstalling, Methods
<1>3. CASE attr[c].resolved # NoSchema
  <2>1. Return(t, attr[c].resolved) /\ Holds(attr, c, attr[c].resolved)
    BY <1>3 DEF CheckResolved, Holds, Cached
  <2> QED
    BY <1>1, <1>2, <2>1, SimpleReturn
<1>4. CASE attr[c].resolved = NoSchema
  <2>1. Goto(t, g)
    BY <1>4 DEF CheckResolved
  <2>2. IsFrame(g) /\ g.fn = f.fn /\ g.cls = c /\ g.pc = "field" /\ g.wire = c /\ g.parts = f.parts /\ g.cases = f.cases
    BY <1>2, OwnAttributes DEF IsFrame
  <2> HIDE DEF g
  <2>3. f.parts = <<>> /\ f.cases = <<>>
    BY <1>1, <1>2 DEF InCallOk, ResolveOk, CollectOk, InstallOk, CodecOk, TrampolineOk, MethodFrameOk, TopLevelOk, InCases, Methods
  <2>4. <<>> \in Seq({}) /\ Len(<<>>) = 0
    OBVIOUS
  <2>5. Stack(<<>>) /\ Len(Decl[c]) \in Nat
    BY <1>2, <2>4, IsStack, SpecFacts
  <2>6. CollectOk(g, attr, registry)
    BY <2>2, <2>3, <2>4, <2>5 DEF CollectOk, InCases
  <2>7. InCallOk(g, attr, registry, named)
    BY <1>1, <1>2, <2>2, <2>6 DEF InCallOk, ResolveOk
  <2> QED
    BY <1>1, <1>2, <2>1, <2>2, <2>7, SimpleGoto
<1> QED
  BY <1>3, <1>4

\* Where a frame of ensure_resolved is.
LEMMA Collecting ==
  ASSUME NEW A, NEW R, NEW N, NEW f, InCallOk(f, A, R, N), f.fn = "ensure_resolved", f.pc \in InCases \cup {"field"}
  PROVE  CollectOk(f, A, R)
  BY DEF InCallOk, ResolveOk, CodecOk, TrampolineOk, MethodFrameOk, TopLevelOk, InstallOk, InCases, Methods

LEMMA Installing ==
  ASSUME NEW A, NEW R, NEW N, NEW f, InCallOk(f, A, R, N), f.fn = "ensure_resolved", f.pc \in Methods \cup {"compile"}
  PROVE  InstallOk(f, A, N)
  BY DEF InCallOk, ResolveOk, CodecOk, TrampolineOk, MethodFrameOk, TopLevelOk, CollectOk, InCases, Methods

LEMMA ResolveFieldStep ==
  ASSUME FInv, NEW t \in Threads, ResolveField(t)
  PROVE  FInv'
<1> DEFINE f == Top(t)
           c == f.cls
           k == Len(f.parts) + 1
           spec == Decl[f.wire][k]
<1>1. stack[t] # <<>> /\ f.fn = "ensure_resolved" /\ f.pc = "field" /\ UNCHANGED Shared
  BY AtCall DEF ResolveField, At
<1>2. InCallOk(f, attr, registry, named) /\ c \in named /\ c \in Classes /\ IsFrame(f) /\ NotInstalling(f)
      /\ named \subseteq Classes /\ ClassOk(c, attr, registry, named)
  BY <1>1, InCall DEF InCallOk, NotInstalling, Methods
<1>3. CollectOk(f, attr, registry)
  BY <1>1, <1>2, Collecting
<1>4. f.wire = c /\ Stack(f.parts) /\ Len(f.parts) \in Nat /\ Len(Decl[c]) \in Nat /\ Len(f.parts) < Len(Decl[c])
      /\ k \in DOMAIN Decl[c]
  <2>1. f.wire = c /\ Stack(f.parts) /\ Len(f.parts) \in Nat
    BY <1>3, StackPush DEF CollectOk
  <2>2. k <= Len(Decl[c]) /\ Len(Decl[c]) \in Nat /\ DOMAIN Decl[c] = 1 .. Len(Decl[c])
    BY <1>2, <2>1, SpecFacts DEF ResolveField
  <2> QED
    BY <2>1, <2>2
<1>5. spec = Decl[c][k] /\ spec.kind \in {"scalar", "switch", "bad", "struct"}
      /\ (spec.kind = "struct" => spec.cls \in Uses(c))
  BY <1>2, <1>4, SpecFacts
<1>6. /\ spec.kind = "scalar" => Goto(t, [f EXCEPT !.parts = Append(@, Scalar)])
      /\ spec.kind = "struct" => Call(t, EnsureResolved(spec.cls))
      /\ spec.kind = "switch" => Goto(t, [f EXCEPT !.pc = "items"])
      /\ spec.kind = "bad" => Raise(t, "TypeError")
  BY <1>5 DEF ResolveField
<1> HIDE DEF f, spec
<1>7. CASE spec.kind = "scalar"
  <2> DEFINE g == [f EXCEPT !.parts = Append(@, Scalar)]
  <2>1. Goto(t, g)
    BY <1>6, <1>7
  <2>2. IsFrame(g) /\ g.fn = f.fn /\ g.cls = c /\ g.pc = f.pc /\ g.wire = f.wire /\ g.cases = f.cases
        /\ g.parts = Append(f.parts, Scalar)
    BY <1>2 DEF IsFrame
  <2> HIDE DEF g
  <2>3. /\ Stack(g.parts) /\ Len(g.parts) = k
        /\ \A i \in 1 .. Len(f.parts) : g.parts[i] = f.parts[i]
        /\ g.parts[k] = Scalar
    BY <1>4, <2>2, StackPush
  <2>4. Part(attr, registry, Decl[c][k]) = Scalar /\ Ready(attr, registry, Decl[c][k])
    BY <1>5, <1>7 DEF Part, Ready
  <2>5. \A i \in 1 .. k : g.parts[i] = Part(attr, registry, Decl[c][i]) /\ Ready(attr, registry, Decl[c][i])
    BY <1>3, <1>4, <2>3, <2>4 DEF CollectOk
  <2>6. CollectOk(g, attr, registry)
    BY <1>1, <1>3, <1>4, <2>2, <2>3, <2>5 DEF CollectOk, InCases
  <2>7. InCallOk(g, attr, registry, named)
    BY <1>1, <1>2, <2>2, <2>6 DEF InCallOk, ResolveOk
  <2> QED
    BY <1>1, <1>2, <2>1, <2>2, <2>7, SimpleGoto DEF f
<1>8. CASE spec.kind = "struct"
  <2>1. spec.cls \in named
    BY <1>2, <1>5, <1>8 DEF ClassOk
  <2>2. InCallOk(EnsureResolved(spec.cls), attr, registry, named)
        /\ EnsureResolved(spec.cls).fn = "ensure_resolved" /\ EnsureResolved(spec.cls).cls = spec.cls
    BY <1>2, <2>1, NewResolve
  <2>3. Awaits(f, EnsureResolved(spec.cls))
    BY <1>1, <1>4, <1>5, <1>8, <2>2 DEF Awaits
  <2> QED
    BY <1>1, <1>6, <1>8, <2>2, <2>3, SimpleCall DEF f
<1>9. CASE spec.kind = "switch"
  <2> DEFINE g == [f EXCEPT !.pc = "items"]
  <2>1. Goto(t, g)
    BY <1>6, <1>9
  <2>2. IsFrame(g) /\ g.fn = f.fn /\ g.cls = c /\ g.pc = "items" /\ g.wire = f.wire /\ g.cases = f.cases /\ g.parts = f.parts
    BY <1>2 DEF IsFrame
  <2> HIDE DEF g
  <2>3. CollectOk(g, attr, registry)
    BY <1>1, <1>3, <1>4, <1>5, <1>9, <2>2 DEF CollectOk, InCases
  <2>4. InCallOk(g, attr, registry, named)
    BY <1>1, <1>2, <2>2, <2>3 DEF InCallOk, ResolveOk
  <2> QED
    BY <1>1, <1>2, <2>1, <2>2, <2>4, SimpleGoto DEF f
<1>10. CASE spec.kind = "bad"
  BY <1>1, <1>2, <1>6, <1>10, SimpleRaise DEF f
<1> QED
  BY <1>5, <1>7, <1>8, <1>9, <1>10

LEMMA ResolveCaseStep ==
  ASSUME FInv, NEW t \in Threads, ResolveCase(t)
  PROVE  FInv'
<1> DEFINE f == Top(t)
           d == f.pairs[Len(f.cases) + 1]
<1>1. stack[t] # <<>> /\ f.fn = "ensure_resolved" /\ f.pc = "case" /\ UNCHANGED Shared /\ Call(t, EnsureResolved(d))
  BY AtCall DEF ResolveCase, At
<1>2. InCallOk(f, attr, registry, named) /\ named \subseteq Classes /\ RegistryOk(registry) /\ Range(registry.list) \subseteq named
  BY <1>1, InCall
<1>3. CollectOk(f, attr, registry)
  BY <1>1, <1>2, Collecting DEF InCases
<1> HIDE DEF f
<1>4. d \in named
  <2>1. Stack(f.cases) /\ Len(f.cases) \in Nat /\ Len(f.cases) < Len(registry.list) /\ f.pairs = registry.list
    BY <1>1, <1>3, StackPush DEF CollectOk
  <2>2. Len(registry.list) \in Nat /\ DOMAIN registry.list = 1 .. Len(registry.list)
    BY <1>2 DEF RegistryOk
  <2>3. Len(f.cases) + 1 \in DOMAIN registry.list
    BY <2>1, <2>2
  <2> QED
    BY <1>2, <2>1, <2>3 DEF Range
<1>5. InCallOk(EnsureResolved(d), attr, registry, named)
      /\ EnsureResolved(d).fn = "ensure_resolved" /\ EnsureResolved(d).cls = d
  BY <1>2, <1>4, NewResolve
<1>6. Awaits(f, EnsureResolved(d))
  BY <1>1, <1>5 DEF Awaits
<1> QED
  BY <1>1, <1>5, <1>6, SimpleCall DEF f

\* A compiled method, if the methods of the nested classes are as they should be.
LEMMA CompiledOk ==
  ASSUME NEW A, NEW N, NEW c \in N, NEW s, Holds(A, c, s), NEW b,
         \A i \in DOMAIN Decl[c] : Decl[c][i].kind = "struct" => MethodOk(b[i], A, N)
  PROVE  MethodOk(Compiled(c, s, b), A, N) /\ Compiled(c, s, b).kind = "compiled" /\ Compiled(c, s, b).cls = c
<1> DEFINE x == Compiled(c, s, b)
           I == {i \in DOMAIN Decl[c] : Decl[c][i].kind = "struct"}
           T == [i \in I |-> CHOOSE S : b[i] \in S /\ ClosedMethods(S, A, N)]
           U == {x} \cup UNION {T[i] : i \in I}
<1>1. x.kind = "compiled" /\ x.cls = c /\ x.schema = s /\ x.bound = b
  BY DEF Compiled
<1> HIDE DEF x
<1>2. \A i \in I : b[i] \in T[i] /\ ClosedMethods(T[i], A, N)
  BY DEF MethodOk
<1> HIDE DEF T
<1>3. ASSUME NEW y \in U
      PROVE  /\ y.cls \in N
             /\ \/ y = Trampoline(y.cls)
                \/ /\ y.kind = "compiled" /\ Cached(A, y.cls) /\ y.schema = A[y.cls].resolved
                   /\ \A i \in DOMAIN Decl[y.cls] : Decl[y.cls][i].kind = "struct" => y.bound[i] \in U
  <2>1. CASE y = x
    BY <1>1, <1>2, <2>1 DEF Holds
  <2>2. ASSUME NEW j \in I, y \in T[j]
        PROVE  /\ y.cls \in N
               /\ \/ y = Trampoline(y.cls)
                  \/ /\ y.kind = "compiled" /\ Cached(A, y.cls) /\ y.schema = A[y.cls].resolved
                     /\ \A i \in DOMAIN Decl[y.cls] : Decl[y.cls][i].kind = "struct" => y.bound[i] \in U
    <3>1. ClosedMethods(T[j], A, N) /\ T[j] \subseteq U
      BY <1>2
    <3> HIDE DEF U
    <3> QED
      BY <2>2, <3>1 DEF ClosedMethods
  <2> QED
    BY <2>1, <2>2
<1>4. x \in U
  OBVIOUS
<1> HIDE DEF U
<1>5. ClosedMethods(U, A, N)
  BY <1>3 DEF ClosedMethods
<1>6. MethodOk(x, A, N)
  BY <1>4, <1>5 DEF MethodOk
<1> QED
  BY <1>1, <1>6 DEF x

LEMMA CompileMethodsStep ==
  ASSUME FInv, NEW t \in Threads, CompileMethods(t)
  PROVE  FInv'
<1> DEFINE f == Top(t)
           c == f.cls
           specs == Decl[f.wire]
           bound == [i \in DOMAIN specs |->
                       IF specs[i].kind = "struct" THEN Method(specs[i].cls, "from") ELSE NoMethod]
           x == Compiled(c, f.run, bound)
           g == [f EXCEPT !.pc = "init", !.meth = x]
<1>0. CASE CompileRaises(t) # None
  <2> DEFINE o == Done(CompileRaises(t), stack[t][1].cls, stack[t][1].m, NoSchema, NoSchema)
  <2>1. /\ stack[t] # <<>> /\ f.fn = "ensure_resolved" /\ UNCHANGED Shared /\ named' = named
        /\ stack' = [stack EXCEPT ![t] = <<>>] /\ outcome' = [outcome EXCEPT ![t] = o]
        /\ spoiled' = spoiled \cup {c}
    BY <1>0 DEF CompileMethods, At, Exit
  <2>2. o.tag # "ok"
    BY <1>0 DEF CompileRaises, Done
  <2> HIDE DEF o
  <2>3. outcome' = [u \in Threads |-> outcome'[u]] /\ \A u \in Threads : outcome'[u] = outcome[u] \/ OutcomeOk(outcome'[u], attr')
    BY <2>1, <2>2 DEF FInv, OutcomesOk, OutcomeOk
  <2>4. StillInstalled(attr, attr', named \ spoiled', stack[t], <<>>)
    <3>1. \A d : Busy(d, stack[t]) => d = c
      BY DEF Busy, Top
    <3>2. attr' = attr
      BY <2>1, SameStore
    <3> QED
      BY <2>1, <3>1, <3>2 DEF StillInstalled
  <2>5. CallStackOk(<<>>, attr', registry', named)
    BY NoCall
  <2> QED
    BY <2>1, <2>3, <2>4, <2>5, SameStore, InCall, StepSpoils
<1>1. SUFFICES ASSUME stack[t] # <<>>, f.fn = "ensure_resolved", f.pc = "compile", UNCHANGED Shared, Goto(t, g)
               PROVE  FInv'
  BY <1>0, AtCall DEF CompileMethods, At
<1>2. InCallOk(f, attr, registry, named) /\ c \in named /\ c \in Classes /\ IsFrame(f)
      /\ named \subseteq Classes /\ ClassOk(c, attr, registry, named)
  BY <1>1, InCall DEF InCallOk
<1>3. InstallOk(f, attr, named)
  BY <1>1, <1>2, Installing
<1>4. f.wire = c /\ Holds(attr, c, f.run)
  BY <1>3 DEF InstallOk
<1>5. ASSUME NEW i \in DOMAIN Decl[c], Decl[c][i].kind = "struct" PROVE MethodOk(bound[i], attr, named)
  <2>1. Decl[c][i].cls \in named
    BY <1>2, <1>5, SpecFacts DEF ClassOk
  <2>2. bound[i] = Method(Decl[c][i].cls, "from")
    BY <1>4, <1>5
  <2> QED
    BY <2>1, <2>2, OwnAttributes DEF Methods
<1> HIDE DEF bound
<1>6. MethodOk(x, attr, named) /\ x.kind = "compiled" /\ x.cls = c
  BY <1>2, <1>4, <1>5, CompiledOk
<1> HIDE DEF x
<1>7. IsFrame(g) /\ g.fn = f.fn /\ g.cls = c /\ g.pc = "init" /\ g.wire = f.wire /\ g.run = f.run /\ g.meth = x
  BY <1>2 DEF IsFrame
<1> HIDE DEF g
<1>8. InstallOk(g, attr, named)
  BY <1>4, <1>6, <1>7 DEF InstallOk, InstalledBefore, Methods
<1>9. InCallOk(g, attr, registry, named)
  BY <1>1, <1>2, <1>7, <1>8 DEF InCallOk, ResolveOk
<1>10. ~NotInstalling(g)
  BY <1>1, <1>7 DEF NotInstalling, Methods
<1> QED
  BY <1>1, <1>7, <1>9, <1>10, SimpleGoto

LEMMA ItemsCheckStep ==
  ASSUME FInv, NEW t \in Threads, ItemsCheck(t)
  PROVE  FInv'
<1> DEFINE f == Top(t)
           g == [f EXCEPT !.pc = IF registry.frozen THEN "entries" ELSE "tuple"]
<1>1. stack[t] # <<>> /\ f.fn = "ensure_resolved" /\ f.pc = "items" /\ UNCHANGED Shared /\ Goto(t, g)
  BY AtCall DEF ItemsCheck, At
<1>2. InCallOk(f, attr, registry, named) /\ f.cls \in named /\ IsFrame(f) /\ NotInstalling(f) /\ RegistryOk(registry)
  BY <1>1, InCall DEF InCallOk, NotInstalling, Methods
<1>3. CollectOk(f, attr, registry)
  BY <1>1, <1>2, Collecting DEF InCases
<1>4. /\ IsFrame(g) /\ g.fn = f.fn /\ g.cls = f.cls /\ g.wire = f.wire /\ g.cases = f.cases /\ g.parts = f.parts
      /\ g.pc = "tuple" \/ (g.pc = "entries" /\ registry.entries # None)
  BY <1>2 DEF IsFrame, RegistryOk
<1> HIDE DEF f, g
<1>5. CollectOk(g, attr, registry)
  BY <1>1, <1>3, <1>4 DEF CollectOk, InCases
<1>6. InCallOk(g, attr, registry, named)
  BY <1>1, <1>2, <1>4, <1>5 DEF InCallOk, ResolveOk
<1> QED
  BY <1>1, <1>2, <1>4, <1>6, SimpleGoto DEF f

\* self.entries is the list until it is the tuple of the same entries.
LEMMA EntriesAreList == ASSUME RegistryOk(registry) PROVE Entries = registry.list
  BY DEF Entries, RegistryOk

LEMMA ItemsTupleStep ==
  ASSUME FInv, NEW t \in Threads, ItemsTuple(t)
  PROVE  FInv'
<1> DEFINE f == Top(t)
           g == [f EXCEPT !.pc = "assign", !.pairs = Entries]
<1>1. stack[t] # <<>> /\ f.fn = "ensure_resolved" /\ f.pc = "tuple" /\ UNCHANGED Shared /\ Goto(t, g)
  BY AtCall DEF ItemsTuple, At
<1>2. InCallOk(f, attr, registry, named) /\ f.cls \in named /\ IsFrame(f) /\ NotInstalling(f) /\ RegistryOk(registry)
  BY <1>1, InCall DEF InCallOk, NotInstalling, Methods
<1>3. CollectOk(f, attr, registry)
  BY <1>1, <1>2, Collecting DEF InCases
<1>4. /\ IsFrame(g) /\ g.fn = f.fn /\ g.cls = f.cls /\ g.wire = f.wire /\ g.cases = f.cases /\ g.parts = f.parts
      /\ g.pc = "assign" /\ g.pairs = registry.list
  BY <1>2, EntriesAreList DEF IsFrame
<1> HIDE DEF f, g
<1>5. CollectOk(g, attr, registry)
  BY <1>1, <1>3, <1>4 DEF CollectOk, InCases
<1>6. InCallOk(g, attr, registry, named)
  BY <1>1, <1>2, <1>4, <1>5 DEF InCallOk, ResolveOk
<1> QED
  BY <1>1, <1>2, <1>4, <1>6, SimpleGoto DEF f

LEMMA ItemsReturnStep ==
  ASSUME FInv, NEW t \in Threads, ItemsReturn(t)
  PROVE  FInv'
<1> DEFINE f == Top(t)
           e == [f EXCEPT !.pc = "case", !.pairs = Entries]
<1>1. stack[t] # <<>> /\ f.fn = "ensure_resolved" /\ f.pc = "entries" /\ UNCHANGED Shared /\ Goto(t, CasesDone(e))
  BY AtCall DEF ItemsReturn, At
<1>2. InCallOk(f, attr, registry, named) /\ f.cls \in named /\ IsFrame(f) /\ NotInstalling(f)
      /\ RegistryOk(registry) /\ named \subseteq Classes
  BY <1>1, InCall DEF InCallOk, NotInstalling, Methods
<1>3. CollectOk(f, attr, registry)
  BY <1>1, <1>2, Collecting DEF InCases
<1>4. /\ IsFrame(e) /\ e.fn = f.fn /\ e.cls = f.cls /\ e.wire = f.wire /\ e.cases = f.cases /\ e.parts = f.parts
      /\ e.pc = "case" /\ e.pairs = registry.list
  BY <1>2, EntriesAreList DEF IsFrame
<1> HIDE DEF f, e
<1>5. f.cases = <<>> /\ registry.entries # None /\ f.wire = f.cls /\ Stack(f.parts)
      /\ Len(f.parts) < Len(Decl[f.cls]) /\ Decl[f.cls][Len(f.parts) + 1].kind = "switch"
      /\ \A i \in 1 .. Len(f.parts) :
           f.parts[i] = Part(attr, registry, Decl[f.cls][i]) /\ Ready(attr, registry, Decl[f.cls][i])
  BY <1>1, <1>3 DEF CollectOk, InCases
<1>6. <<>> \in Seq({}) /\ Len(<<>>) = 0
  OBVIOUS
<1>7. Stack(e.cases) /\ Len(e.cases) = 0
  BY <1>4, <1>5, <1>6, IsStack
<1>8. Len(registry.list) \in Nat
  BY <1>2 DEF RegistryOk
<1>9. CasesOk(e, attr, registry, named)
  BY <1>1, <1>2, <1>4, <1>5, <1>7, <1>8 DEF CasesOk
<1>10. InCallOk(CasesDone(e), attr, registry, named) /\ CasesDone(e).fn = "ensure_resolved" /\ CasesDone(e).cls = e.cls
  BY <1>2, <1>9, CasesDoneOk
<1> QED
  BY <1>1, <1>2, <1>4, <1>10, SimpleGoto DEF f

-----------------------------------------------------------------------------
(* get_codec, the trampolines, the methods and the public operations. *)

LEMMA CheckCodecStep ==
  ASSUME FInv, NEW t \in Threads, CheckCodec(t)
  PROVE  FInv'
<1> DEFINE f == Top(t)
           c == f.cls
<1>1. stack[t] # <<>> /\ f.fn = "get_codec" /\ f.pc = "enter" /\ UNCHANGED Shared
  BY AtCall DEF CheckCodec, At
<1>2. InCallOk(f, attr, registry, named) /\ c \in named /\ NotInstalling(f)
      /\ named \subseteq Classes /\ ClassOk(c, attr, registry, named)
  BY <1>1, InCall DEF InCallOk, NotInstalling
<1>3. CASE attr[c].codec # NoSchema
  <2>1. Return(t, attr[c].codec) /\ Holds(attr, c, attr[c].codec)
    BY <1>2, <1>3 DEF CheckCodec, Holds, ClassOk
  <2> QED
    BY <1>1, <1>2, <2>1, SimpleReturn
<1>4. CASE attr[c].codec = NoSchema
  <2>1. Call(t, EnsureResolved(c))
    BY <1>4 DEF CheckCodec
  <2>2. InCallOk(EnsureResolved(c), attr, registry, named)
        /\ EnsureResolved(c).fn = "ensure_resolved" /\ EnsureResolved(c).cls = c
    BY <1>2, NewResolve
  <2>3. Awaits(f, EnsureResolved(c))
    BY <1>1, <2>2 DEF Awaits
  <2> QED
    BY <1>1, <2>1, <2>2, <2>3, SimpleCall
<1> QED
  BY <1>3, <1>4

LEMMA TrampolineResolveStep ==
  ASSUME FInv, NEW t \in Threads, TrampolineResolve(t)
  PROVE  FInv'
<1> DEFINE f == Top(t)
           c == f.cls
<1>1. stack[t] # <<>> /\ f.fn = "trampoline" /\ f.pc = "enter" /\ UNCHANGED Shared /\ Call(t, EnsureResolved(c))
  BY AtCall DEF TrampolineResolve, At
<1>2. c \in named /\ named \subseteq Classes
  BY <1>1, InCall
<1>3. InCallOk(EnsureResolved(c), attr, registry, named)
      /\ EnsureResolved(c).fn = "ensure_resolved" /\ EnsureResolved(c).cls = c
  BY <1>2, NewResolve
<1>4. Awaits(f, EnsureResolved(c))
  BY <1>1, <1>3 DEF Awaits
<1> QED
  BY <1>1, <1>3, <1>4, SimpleCall

LEMMA TrampolineDelegateStep ==
  ASSUME FInv, NEW t \in Threads, TrampolineDelegate(t)
  PROVE  FInv'
<1> DEFINE f == Top(t)
           c == f.cls
           g == Invoke(attr[c][f.m], f.m)
<1>1. stack[t] # <<>> /\ f.fn = "trampoline" /\ f.pc = "delegate" /\ UNCHANGED Shared /\ Call(t, g)
  BY AtCall DEF TrampolineDelegate, At
<1>2. c \in named /\ named \subseteq Classes /\ InCallOk(f, attr, registry, named)
  BY <1>1, InCall
<1>3. f.m \in Methods
  BY <1>1, <1>2 DEF InCallOk, ResolveOk, CodecOk, TrampolineOk, MethodFrameOk, TopLevelOk
<1>4. MethodOk(attr[c][f.m], attr, named) /\ attr[c][f.m].cls = c
  BY <1>2, <1>3, OwnAttributes
<1>5. InCallOk(g, attr, registry, named) /\ g.fn \in {"trampoline", "method"} /\ g.cls = c
  BY <1>2, <1>3, <1>4, NewInvoke
<1> HIDE DEF g
<1>6. Awaits(f, g)
  BY <1>1, <1>5 DEF Awaits
<1> QED
  BY <1>1, <1>5, <1>6, SimpleCall

LEMMA TrampolineReturnStep ==
  ASSUME FInv, NEW t \in Threads, TrampolineReturn(t)
  PROVE  FInv'
<1> DEFINE f == Top(t)
<1>1. stack[t] # <<>> /\ f.fn = "trampoline" /\ f.pc = "return" /\ UNCHANGED Shared /\ Return(t, f.run)
  BY AtCall DEF TrampolineReturn, At
<1>2. InCallOk(f, attr, registry, named)
  BY <1>1, InCall
<1>3. Holds(attr, f.cls, f.run) /\ NotInstalling(f)
  BY <1>1, <1>2 DEF InCallOk, ResolveOk, CodecOk, TrampolineOk, MethodFrameOk, TopLevelOk, NotInstalling
<1> QED
  BY <1>1, <1>3, SimpleReturn

LEMMA CallCodecStep ==
  ASSUME FInv, NEW t \in Threads, CallCodec(t)
  PROVE  FInv'
<1> DEFINE f == Top(t)
           c == f.cls
<1>1. stack[t] # <<>> /\ f.fn = "call" /\ f.pc = "enter" /\ UNCHANGED Shared /\ Call(t, GetCodec(c))
  BY AtCall DEF CallCodec, At
<1>2. c \in named /\ named \subseteq Classes
  BY <1>1, InCall
<1>3. InCallOk(GetCodec(c), attr, registry, named) /\ GetCodec(c).fn = "get_codec" /\ GetCodec(c).cls = c
  BY <1>2, NewCodec
<1>4. Awaits(f, GetCodec(c))
  BY <1>1, <1>3 DEF Awaits
<1> QED
  BY <1>1, <1>3, <1>4, SimpleCall

LEMMA CallConvertStep ==
  ASSUME FInv, NEW t \in Threads, CallConvert(t)
  PROVE  FInv'
<1> DEFINE f == Top(t)
           c == f.cls
           m == MethodOf[f.m]
           x == IF f.m = "unpack" THEN f.meth ELSE Method(c, m)
           g == Invoke(x, m)
<1>1. stack[t] # <<>> /\ f.fn = "call" /\ f.pc = "convert" /\ UNCHANGED Shared /\ Call(t, g)
  BY AtCall DEF CallConvert, At
<1>2. c \in named /\ named \subseteq Classes /\ InCallOk(f, attr, registry, named)
  BY <1>1, InCall
<1>3. TopLevelOk(f, attr, named)
  BY <1>1, <1>2 DEF InCallOk, ResolveOk, CodecOk, TrampolineOk, MethodFrameOk
<1>4. m \in Methods
  <2>1. f.m \in {"construct", "pack", "unpack", "parse"}
    BY <1>3, FrontendAssumption DEF TopLevelOk
  <2> QED
    BY <2>1 DEF MethodOf, Methods
<1> HIDE DEF m
<1>5. MethodOk(x, attr, named) /\ x.cls = c
  BY <1>2, <1>3, <1>4, OwnAttributes DEF TopLevelOk
<1> HIDE DEF x
<1>6. InCallOk(g, attr, registry, named) /\ g.fn \in {"trampoline", "method"} /\ g.cls = c
  BY <1>2, <1>4, <1>5, NewInvoke
<1> HIDE DEF g
<1>7. Awaits(f, g)
  BY <1>1, <1>6 DEF Awaits
<1> QED
  BY <1>1, <1>6, <1>7, SimpleCall

\* The schema cached on a class, part by part.
LEMMA CachedSchema ==
  ASSUME FInv, NEW c \in named, Cached(attr, c)
  PROVE  LET s == attr[c].resolved IN
         /\ s.cls = c /\ s.of = c
         /\ Len(s.parts) = Len(Decl[c])
         /\ \A k \in DOMAIN Decl[c] :
              s.parts[k] = Part(attr, registry, Decl[c][k]) /\ Ready(attr, registry, Decl[c][k])
<1> DEFINE p == [i \in DOMAIN Decl[c] |-> Part(attr, registry, Decl[c][i])]
<1>1. c \in Classes /\ attr[c].resolved = Schema(c, c, p) /\ AllReady(attr, registry, c)
  BY DEF FInv, StoreOk, ClassOk, OwnSchema
<1>2. Len(Decl[c]) \in Nat /\ DOMAIN Decl[c] = 1 .. Len(Decl[c])
  BY <1>1, SpecFacts
<1>3. Len(p) = Len(Decl[c])
  <2>1. p \in [1 .. Len(Decl[c]) -> Range(p)]
    BY <1>2 DEF Range
  <2> HIDE DEF p
  <2>2. p \in Seq(Range(p))
    BY <1>2, <2>1, SeqDef
  <2>3. DOMAIN p = 1 .. Len(p) /\ Len(p) \in Nat
    BY <2>2, LenProperties
  <2>4. DOMAIN p = 1 .. Len(Decl[c])
    BY <2>1
  <2> QED
    BY <1>2, <2>3, <2>4
<1> QED
  BY <1>1, <1>3 DEF Schema, AllReady

LEMMA RunFieldStep ==
  ASSUME FInv, NEW t \in Threads, RunField(t)
  PROVE  FInv'
<1> DEFINE f == Top(t)
           c == f.cls
           s == f.meth.schema
           k == Len(f.parts) + 1
           part == s.parts[k]
<1>1. stack[t] # <<>> /\ f.fn = "method" /\ f.pc = "enter" /\ UNCHANGED Shared
  BY AtCall DEF RunField, At
<1>2. InCallOk(f, attr, registry, named) /\ c \in named /\ c \in Classes /\ IsFrame(f) /\ NotInstalling(f)
      /\ named \subseteq Classes /\ RegistryOk(registry) /\ Range(registry.list) \subseteq named
      /\ ClassOk(c, attr, registry, named)
  BY <1>1, InCall DEF InCallOk, NotInstalling
<1>3. f.m \in Methods /\ MethodOk(f.meth, attr, named) /\ f.meth.kind = "compiled" /\ f.meth.cls = c /\ Stack(f.parts)
  BY <1>1, <1>2 DEF InCallOk, ResolveOk, CodecOk, TrampolineOk, TopLevelOk, MethodFrameOk
<1>4. Holds(attr, c, s)
  BY <1>3, MethodKinds DEF Trampoline
<1>5. /\ Len(s.parts) = Len(Decl[c])
      /\ \A i \in DOMAIN Decl[c] : s.parts[i] = Part(attr, registry, Decl[c][i]) /\ Ready(attr, registry, Decl[c][i])
  BY <1>2, <1>4, CachedSchema DEF Holds
<1>6. ASSUME Goto(t, Resume(f, NoSchema)) PROVE FInv'
  <2> DEFINE g == [f EXCEPT !.parts = Append(@, Scalar)]
  <2>1. Goto(t, g)
    BY <1>1, <1>6 DEF Resume
  <2>2. IsFrame(g) /\ g.fn = f.fn /\ g.cls = c /\ g.pc = f.pc /\ g.meth = f.meth /\ g.m = f.m
        /\ g.parts = Append(f.parts, Scalar)
    BY <1>2 DEF IsFrame
  <2> HIDE DEF g
  <2>3. Stack(g.parts)
    BY <1>3, <2>2, StackPush
  <2>4. InCallOk(g, attr, registry, named)
    BY <1>1, <1>2, <1>3, <2>2, <2>3 DEF InCallOk, MethodFrameOk
  <2> QED
    BY <1>1, <1>2, <2>1, <2>2, <2>4, SimpleGoto
<1>7. ASSUME NEW x, MethodOk(x, attr, named), Call(t, Invoke(x, f.m)) PROVE FInv'
  <2>1. InCallOk(Invoke(x, f.m), attr, registry, named) /\ Invoke(x, f.m).fn \in {"trampoline", "method"}
    BY <1>2, <1>3, <1>7, NewInvoke
  <2>2. Awaits(f, Invoke(x, f.m))
    BY <1>1, <2>1 DEF Awaits
  <2> QED
    BY <1>1, <1>7, <2>1, <2>2, SimpleCall
<1>8. CASE f.m = "init" \/ k > Len(s.parts)
  <2>1. Return(t, s)
    BY <1>8 DEF RunField
  <2> QED
    BY <1>1, <1>2, <1>4, <2>1, SimpleReturn
<1>9. CASE ~(f.m = "init" \/ k > Len(s.parts))
  <2>1. k \in DOMAIN Decl[c]
    <3>1. Len(f.parts) \in Nat /\ Len(Decl[c]) \in Nat /\ DOMAIN Decl[c] = 1 .. Len(Decl[c])
      BY <1>2, <1>3, StackPush, SpecFacts
    <3> QED
      BY <1>5, <1>9, <3>1
  <2>2. part = Part(attr, registry, Decl[c][k]) /\ Ready(attr, registry, Decl[c][k])
    BY <1>5, <2>1
  <2>3. /\ Decl[c][k].kind \in {"scalar", "switch", "bad", "struct"}
        /\ Decl[c][k].kind = "struct" => Decl[c][k].cls \in named
    BY <1>2, <2>1, SpecFacts DEF ClassOk
  <2>4. /\ part.of = "scalar" => Goto(t, Resume(f, NoSchema))
        /\ part.of = "cases" =>
             \/ Goto(t, Resume(f, NoSchema))
             \/ \E j \in DOMAIN part.parts : Call(t, Invoke(Method(part.parts[j].cls, f.m), f.m))
        /\ part.of \notin {"scalar", "cases"} =>
             Call(t, Invoke(IF f.m = "from" THEN f.meth.bound[k] ELSE Method(part.cls, f.m), f.m))
    BY <1>9 DEF RunField
  <2> HIDE DEF f, part, s, k
  <2>5. ASSUME Decl[c][k].kind = "struct"
        PROVE  part.of = Decl[c][k].cls /\ part.cls = Decl[c][k].cls
    <3>1. part = attr[Decl[c][k].cls].resolved /\ Cached(attr, Decl[c][k].cls)
      BY <2>2, <2>5 DEF Part, Ready
    <3> QED
      BY <2>3, <2>5, <3>1, CachedSchema
  <2>6. CASE part.of = "scalar"
    BY <1>6, <2>4, <2>6
  <2>7. CASE part.of = "cases"
    <3>1. Decl[c][k].kind # "struct"
      BY <1>2, <2>3, <2>5, <2>7, FrontendAssumption
    <3>2. Decl[c][k].kind = "switch"
      BY <2>2, <2>3, <2>7, <3>1 DEF Part, Scalar, Schema
    <3>3. part.parts = [j \in DOMAIN registry.list |-> attr[registry.list[j]].resolved]
          /\ \A j \in DOMAIN registry.list : Cached(attr, registry.list[j])
      BY <2>2, <3>2 DEF Part, Cases, Schema, Ready
    <3>4. ASSUME NEW j \in DOMAIN part.parts, Call(t, Invoke(Method(part.parts[j].cls, f.m), f.m)) PROVE FInv'
      <4>1. j \in DOMAIN registry.list /\ registry.list[j] \in named
        BY <1>2, <3>3, <3>4 DEF Range
      <4>2. part.parts[j].cls = registry.list[j]
        BY <3>3, <4>1, CachedSchema
      <4>3. MethodOk(Method(part.parts[j].cls, f.m), attr, named)
        BY <1>3, <4>1, <4>2, OwnAttributes
      <4> QED
        BY <1>7, <3>4, <4>3
    <3> QED
      BY <1>6, <2>4, <2>7, <3>4
  <2>8. CASE part.of \notin {"scalar", "cases"}
    <3> DEFINE x == IF f.m = "from" THEN f.meth.bound[k] ELSE Method(part.cls, f.m)
    <3>1. Decl[c][k].kind = "struct"
      BY <2>2, <2>3, <2>8 DEF Part, Scalar, Cases, Schema
    <3>2. MethodOk(f.meth.bound[k], attr, named)
      <4>1. PICK S : f.meth \in S /\ ClosedMethods(S, attr, named)
        BY <1>3 DEF MethodOk
      <4>2. f.meth # Trampoline(c)
        BY <1>3 DEF Trampoline
      <4>3. f.meth.bound[k] \in S
        BY <1>3, <2>1, <3>1, <4>1, <4>2 DEF ClosedMethods
      <4> QED
        BY <4>1, <4>3 DEF MethodOk
    <3>3. MethodOk(Method(part.cls, f.m), attr, named)
      BY <1>3, <2>3, <2>5, <3>1, OwnAttributes
    <3>4. MethodOk(x, attr, named)
      BY <3>2, <3>3
    <3>5. Call(t, Invoke(x, f.m))
      BY <2>4, <2>8
    <3> HIDE DEF x
    <3> QED
      BY <1>7, <3>4, <3>5
  <2> QED
    BY <2>6, <2>7, <2>8
<1> QED
  BY <1>8, <1>9

LEMMA CallReturnStep ==
  ASSUME FInv, NEW t \in Threads, CallReturn(t)
  PROVE  FInv'
<1> DEFINE f == Top(t)
<1>1. stack[t] # <<>> /\ f.fn = "call" /\ f.pc = "return" /\ UNCHANGED Shared
  BY AtCall DEF CallReturn, At
<1>2. InCallOk(f, attr, registry, named) /\ f.cls \in Classes /\ NotInstalling(f)
  BY <1>1, InCall DEF NotInstalling
<1>3. Holds(attr, f.cls, f.run) /\ (f.m # "construct" => Holds(attr, f.cls, f.codec))
  BY <1>1, <1>2 DEF InCallOk, ResolveOk, CodecOk, TrampolineOk, MethodFrameOk, TopLevelOk
<1>4. stack' = [stack EXCEPT ![t] = <<>>] /\ named' = named /\ spoiled' = spoiled
      /\ outcome' = [outcome EXCEPT ![t] = Done("ok", f.cls, f.m, f.codec, f.run)]
  BY DEF CallReturn
<1>5. OutcomeOk(Done("ok", f.cls, f.m, f.codec, f.run), attr)
  BY <1>2, <1>3 DEF OutcomeOk, Done
<1>6. outcome' = [u \in Threads |-> outcome'[u]] /\ \A u \in Threads : outcome'[u] = outcome[u] \/ OutcomeOk(outcome'[u], attr')
  BY <1>1, <1>4, <1>5, SameStore DEF FInv, OutcomesOk
<1>7. StillInstalled(attr, attr', named, stack[t], <<>>)
  BY <1>1, <1>2, SameStore DEF StillInstalled, Busy, NotInstalling, Top
<1>8. CallStackOk(<<>>, attr', registry', named)
  BY NoCall
<1> QED
  BY <1>1, <1>4, <1>6, <1>7, <1>8, SameStore, InCall, StepThread

-----------------------------------------------------------------------------
(* Steps that assign an attribute of a class, or of the registry. *)

LEMMA StoreCodecStep ==
  ASSUME FInv, NEW t \in Threads, StoreCodec(t)
  PROVE  FInv'
<1> DEFINE f == Top(t)
           c == f.cls
           s2 == Returned(stack[t], f.codec)
<1>0. CASE c \in Refused
  <2>1. stack[t] # <<>> /\ f.fn = "get_codec" /\ UNCHANGED Shared /\ Raise(t, "SchemaError")
    BY <1>0, AtCall DEF StoreCodec, At, Shared
  <2> QED
    BY <2>1, SimpleRaise DEF NotInstalling
<1> SUFFICES ASSUME c \notin Refused PROVE FInv'
  BY <1>0
<1>1. stack[t] # <<>> /\ f.fn = "get_codec" /\ f.pc = "compile" /\ registry' = registry
      /\ attr' = Assign(attr, c, "codec", f.codec) /\ Return(t, f.codec)
  BY AtCall DEF StoreCodec, At, Assign
<1>2. InCallOk(f, attr, registry, named) /\ c \in named /\ c \in Classes /\ NotInstalling(f)
      /\ named \subseteq Classes /\ RegistryOk(registry) /\ AttrOk(attr) /\ CallStackOk(stack[t], attr, registry, named)
  BY <1>1, InCall DEF NotInstalling
<1>3. Holds(attr, c, f.codec)
  BY <1>1, <1>2 DEF InCallOk, ResolveOk, CodecOk, TrampolineOk, MethodFrameOk, TopLevelOk
<1>4. /\ AttrOk(attr') /\ attr'[c].codec = f.codec
      /\ \A d \in Classes, b \in AttrNames : d # c \/ b # "codec" => attr'[d][b] = attr[d][b]
  BY <1>1, <1>2, SetAttr DEF AttrNames
<1>5. \A d \in Classes : attr'[d].resolved = attr[d].resolved /\ \A m \in Methods : attr'[d][m] = attr[d][m]
  BY <1>4 DEF AttrNames, Methods
<1>6. Grows(attr, registry, attr', registry')
  BY <1>1, <1>5 DEF Grows
<1>7. Improves(c, attr, registry, named, attr')
  BY <1>2, <1>3, <1>4, <1>5 DEF Improves, AttrNames
<1>8. StoreOk(attr', registry', named)
  <2>1. \A d \in Classes, b \in AttrNames : d # c => attr'[d][b] = attr[d][b]
    BY <1>4
  <2>2. StoreOk(attr, registry, named) /\ RegistryOk(registry')
    BY <1>1, <1>2 DEF FInv
  <2> QED
    BY <1>2, <1>4, <1>6, <1>7, <2>1, <2>2, StoreStable
<1>9. Ordered'
  BY <1>1, <1>5, OrderStable DEF Cached
<1>10. CallStackOk(stack[t], attr', registry', named) /\ Holds(attr', c, f.codec) /\ RegistryOk(registry')
  BY <1>1, <1>2, <1>3, <1>6, CallStackStable, HoldsStable
<1>11. CallStackOk(s2, attr', registry', named)
  BY <1>1, <1>2, <1>10, ReturnStack DEF Top
<1>12. stack' = [stack EXCEPT ![t] = s2] /\ outcome' = outcome /\ named' = named /\ spoiled' = spoiled
  BY <1>1 DEF Return, Returned, Books
<1> HIDE DEF s2
<1>13. StillInstalled(attr, attr', named, stack[t], s2)
  BY <1>2, <1>5 DEF StillInstalled, Busy, NotInstalling, Top, Cached
<1>14. outcome' = [u \in Threads |-> outcome'[u]] /\ Spares(attr, attr', named)
  BY <1>2, <1>4, <1>12 DEF FInv, OutcomesOk, Spares
<1> QED
  BY <1>1, <1>6, <1>8, <1>9, <1>11, <1>12, <1>13, <1>14, InCall, StepThread

LEMMA InstallMethodStep ==
  ASSUME FInv, NEW t \in Threads, InstallMethod(t)
  PROVE  FInv'
<1> DEFINE f == Top(t)
           c == f.cls
<1>1. PICK m \in Methods :
        /\ At(t, "ensure_resolved", m)
        /\ attr' = Assign(attr, c, m, f.meth)
        /\ IF m \in DOMAIN InstallNext THEN Goto(t, [f EXCEPT !.pc = InstallNext[m]]) ELSE Return(t, f.run)
  BY DEF InstallMethod, Assign
<1>2. stack[t] # <<>> /\ f.fn = "ensure_resolved" /\ f.pc = m /\ registry' = registry
  BY <1>1, AtCall DEF InstallMethod, At
<1>3. InCallOk(f, attr, registry, named) /\ c \in named /\ c \in Classes /\ IsFrame(f)
      /\ named \subseteq Classes /\ RegistryOk(registry) /\ AttrOk(attr) /\ CallStackOk(stack[t], attr, registry, named)
  BY <1>2, InCall DEF InCallOk
<1>4. InstallOk(f, attr, named)
  BY <1>2, <1>3, Installing
<1>5. /\ f.wire = c /\ Holds(attr, c, f.run)
      /\ MethodOk(f.meth, attr, named) /\ f.meth.kind = "compiled" /\ f.meth.cls = c
      /\ \A n \in InstalledBefore[m] : attr[c][n].kind = "compiled"
  BY <1>2, <1>4 DEF InstallOk
<1>6. m \in AttrNames /\ m \notin {"wire", "resolved", "codec"} /\ Methods \subseteq AttrNames
  BY DEF Methods, AttrNames
<1>7. /\ AttrOk(attr') /\ attr'[c][m] = f.meth
      /\ \A d \in Classes, b \in AttrNames : d # c \/ b # m => attr'[d][b] = attr[d][b]
  BY <1>1, <1>3, <1>6, SetAttr
<1>8. \A d \in Classes : attr'[d].resolved = attr[d].resolved
  BY <1>6, <1>7 DEF AttrNames
<1>9. \A d \in Classes, n \in Methods : attr[d][n].kind = "compiled" => attr'[d][n].kind = "compiled"
  BY <1>5, <1>6, <1>7
<1>10. Grows(attr, registry, attr', registry')
  BY <1>2, <1>8, <1>9 DEF Grows
<1>11. Improves(c, attr, registry, named, attr')
  <2>1. attr'[c].wire = attr[c].wire /\ attr'[c].codec = attr[c].codec
    BY <1>3, <1>6, <1>7 DEF AttrNames
  <2>2. \A n \in Methods : attr'[c][n] = attr[c][n] \/ (MethodOk(attr'[c][n], attr, named) /\ attr'[c][n].cls = c)
    BY <1>3, <1>5, <1>6, <1>7
  <2> QED
    BY <1>3, <1>8, <2>1, <2>2 DEF Improves
<1>12. StoreOk(attr', registry', named)
  BY <1>2, <1>3, <1>7, <1>10, <1>11, StoreStable DEF FInv
<1>13. Ordered'
  BY <1>2, <1>8, OrderStable DEF Cached
<1>14. CallStackOk(stack[t], attr', registry', named) /\ Holds(attr', c, f.run)
       /\ InCallOk(f, attr', registry', named) /\ InstallOk(f, attr', named)
  <2>1. InCallOk(f, attr', registry', named)
    BY <1>3, <1>10, FrameStable
  <2> QED
    BY <1>2, <1>3, <1>5, <1>10, <2>1, CallStackStable, HoldsStable, Installing
<1>15. outcome' = outcome /\ named' = named /\ spoiled' = spoiled
  BY <1>1 DEF Goto, Return, Books
<1>16. outcome' = [u \in Threads |-> outcome'[u]] /\ Spares(attr, attr', named)
  BY <1>3, <1>7, <1>15 DEF FInv, OutcomesOk, Spares
<1>17. CASE m \in {"init", "to"}
  <2> DEFINE g == [f EXCEPT !.pc = InstallNext[m]]
             s2 == Topped(stack[t], g)
  <2>1. Goto(t, g)
    BY <1>1, <1>17 DEF InstallNext
  <2>2. /\ IsFrame(g) /\ g.fn = f.fn /\ g.cls = c /\ g.wire = f.wire /\ g.run = f.run /\ g.meth = f.meth
        /\ g.pc = InstallNext[m]
    BY <1>3 DEF IsFrame
  <2>3. /\ InstallNext[m] \in Methods
        /\ \A n \in InstalledBefore[InstallNext[m]] : n = m \/ n \in InstalledBefore[m]
        /\ InstalledBefore[m] \subseteq Methods
    BY <1>17 DEF InstallNext, Methods, InstalledBefore
  <2> HIDE DEF g
  <2>4. \A n \in InstalledBefore[g.pc] : attr'[c][n].kind = "compiled"
    BY <1>3, <1>5, <1>7, <1>9, <2>2, <2>3
  <2>5. InstallOk(g, attr', named)
    BY <1>2, <1>14, <2>2, <2>3, <2>4 DEF InstallOk
  <2>6. InCallOk(g, attr', registry', named)
    BY <1>2, <1>3, <2>2, <2>5 DEF InCallOk, ResolveOk
  <2>7. CallStackOk(s2, attr', registry', named) /\ s2 # <<>> /\ Last(s2) = g
    BY <1>2, <1>14, <2>2, <2>6, GotoStack DEF Top
  <2>8. stack' = [stack EXCEPT ![t] = s2]
    BY <2>1 DEF Goto, Topped, FInv, StacksOk
  <2> HIDE DEF s2
  <2>9. StillInstalled(attr, attr', named, stack[t], s2)
    <3> SUFFICES ASSUME NEW d \in named, Cached(attr', d), Cached(attr, d) => Busy(d, stack[t])
                 PROVE  Busy(d, s2)
      BY DEF StillInstalled
    <3>1. d = c
      BY <1>3, <1>8 DEF Cached, Busy, Top
    <3> QED
      BY <1>2, <2>2, <2>3, <2>7, <3>1 DEF Busy
  <2> QED
    BY <1>2, <1>10, <1>12, <1>13, <1>15, <1>16, <2>7, <2>8, <2>9, InCall, StepThread
<1>18. CASE m = "from"
  <2> DEFINE s2 == Returned(stack[t], f.run)
  <2>1. Return(t, f.run)
    BY <1>1, <1>18 DEF InstallNext
  <2>2. CallStackOk(s2, attr', registry', named)
    BY <1>2, <1>3, <1>14, ReturnStack DEF Top
  <2>3. stack' = [stack EXCEPT ![t] = s2]
    BY <2>1 DEF Return, Returned
  <2> HIDE DEF s2
  <2>4. AllCompiled(attr', c)
    <3>1. \A n \in Methods : n = m \/ n \in InstalledBefore[m]
      BY <1>18 DEF Methods, InstalledBefore
    <3> QED
      BY <1>3, <1>5, <1>7, <1>9, <3>1 DEF AllCompiled
  <2>5. StillInstalled(attr, attr', named, stack[t], s2)
    <3> SUFFICES ASSUME NEW d \in named, Cached(attr', d), Cached(attr, d) => Busy(d, stack[t])
                 PROVE  AllCompiled(attr', d)
      BY DEF StillInstalled
    <3>1. d = c
      BY <1>3, <1>8 DEF Cached, Busy, Top
    <3> QED
      BY <2>4, <3>1
  <2> QED
    BY <1>2, <1>10, <1>12, <1>13, <1>15, <1>16, <2>2, <2>3, <2>5, InCall, StepThread
<1> QED
  BY <1>17, <1>18 DEF Methods

\* The innermost frame moves on as it assigns something.
LEMMA AssignGoto ==
  ASSUME FInv, NEW t \in Threads, stack[t] # <<>>, Top(t).fn # "class", NotInstalling(Top(t)),
         NEW f, Goto(t, f), InCallOk(f, attr', registry', named), f.fn = Top(t).fn, f.cls = Top(t).cls,
         Grows(attr, registry, attr', registry'), StoreOk(attr', registry', named), Ordered',
         Spares(attr, attr', named),
         \A d \in named : Cached(attr', d) => Cached(attr, d) \/ (d = f.cls /\ ~NotInstalling(f))
  PROVE  FInv'
<1> DEFINE s2 == Topped(stack[t], f)
<1>1. CallStackOk(stack[t], attr, registry, named) /\ named \subseteq Classes /\ RegistryOk(registry)
  BY InCall
<1>2. CallStackOk(stack[t], attr', registry', named)
  BY <1>1, CallStackStable
<1>3. CallStackOk(s2, attr', registry', named) /\ s2 # <<>> /\ Last(s2) = f
  BY <1>2, GotoStack DEF Top
<1>4. stack' = [stack EXCEPT ![t] = s2] /\ outcome' = outcome /\ named' = named /\ spoiled' = spoiled
  BY DEF Goto, Topped, Books, FInv, StacksOk
<1> HIDE DEF s2
<1>5. StillInstalled(attr, attr', named, stack[t], s2)
  BY <1>3 DEF StillInstalled, Busy, NotInstalling, Top
<1>6. outcome' = [u \in Threads |-> outcome'[u]]
  BY <1>4 DEF FInv, OutcomesOk
<1> QED
  BY <1>3, <1>4, <1>5, <1>6, InCall, StepThread

\* The step on the registry alone.
LEMMA RegistryStore ==
  ASSUME FInv, attr' = attr, RegistryOk(registry'), Grows(attr, registry, attr', registry'), NEW c \in named
  PROVE  StoreOk(attr', registry', named) /\ Ordered' /\ Spares(attr, attr', named)
<1>1. StoreOk(attr, registry, named) /\ AttrOk(attr) /\ c \in Classes
  BY DEF FInv, StoreOk
<1>2. Improves(c, attr, registry, named, attr)
  BY DEF Improves
<1>3. StoreOk(attr, registry', named)
  BY <1>1, <1>2, StoreStable
<1>4. Ordered'
  BY OrderStable DEF Grows
<1> QED
  BY <1>3, <1>4 DEF Spares

LEMMA ItemsAssignStep ==
  ASSUME FInv, NEW t \in Threads, ItemsAssign(t)
  PROVE  FInv'
<1> DEFINE f == Top(t)
           g == [f EXCEPT !.pc = "freeze"]
<1>1. stack[t] # <<>> /\ f.fn = "ensure_resolved" /\ f.pc = "assign" /\ attr' = attr /\ Goto(t, g)
      /\ registry' = [registry EXCEPT !.entries = f.pairs]
  BY AtCall DEF ItemsAssign, At
<1>2. InCallOk(f, attr, registry, named) /\ f.cls \in named /\ IsFrame(f) /\ NotInstalling(f)
      /\ RegistryOk(registry) /\ named \subseteq Classes
  BY <1>1, InCall DEF InCallOk, NotInstalling, Methods
<1>3. CollectOk(f, attr, registry)
  BY <1>1, <1>2, Collecting DEF InCases
<1>4. f.pairs = registry.list /\ registry.list # None
  BY <1>1, <1>2, <1>3, FrontendAssumption DEF CollectOk, RegistryOk
<1>5. /\ IsFrame(g) /\ g.fn = f.fn /\ g.cls = f.cls /\ g.wire = f.wire /\ g.cases = f.cases /\ g.parts = f.parts
      /\ g.pc = "freeze"
  BY <1>2 DEF IsFrame
<1>6. registry'.list = registry.list /\ registry'.entries = registry.list /\ RegistryOk(registry')
  BY <1>1, <1>2, <1>4 DEF RegistryOk
<1>7. Grows(attr, registry, attr', registry')
  BY <1>1, <1>4, <1>6 DEF Grows
<1> HIDE DEF f, g
<1>8. CollectOk(f, attr', registry')
  <2>1. InCallOk(f, attr', registry', named)
    BY <1>2, <1>7, FrameStable
  <2> QED
    BY <1>1, <2>1, Collecting DEF InCases
<1>9. CollectOk(g, attr', registry')
  BY <1>1, <1>4, <1>5, <1>6, <1>8 DEF CollectOk, InCases
<1>10. InCallOk(g, attr', registry', named)
  BY <1>1, <1>2, <1>5, <1>9 DEF InCallOk, ResolveOk
<1>11. StoreOk(attr', registry', named) /\ Ordered' /\ Spares(attr, attr', named)
  BY <1>1, <1>2, <1>6, <1>7, RegistryStore
<1> QED
  BY <1>1, <1>2, <1>5, <1>7, <1>10, <1>11, AssignGoto DEF f

LEMMA ItemsFreezeStep ==
  ASSUME FInv, NEW t \in Threads, ItemsFreeze(t)
  PROVE  FInv'
<1> DEFINE f == Top(t)
           g == [f EXCEPT !.pc = "entries"]
<1>1. stack[t] # <<>> /\ f.fn = "ensure_resolved" /\ f.pc = "freeze" /\ attr' = attr /\ Goto(t, g)
      /\ registry' = [registry EXCEPT !.frozen = TRUE]
  BY AtCall DEF ItemsFreeze, At
<1>2. InCallOk(f, attr, registry, named) /\ f.cls \in named /\ IsFrame(f) /\ NotInstalling(f)
      /\ RegistryOk(registry) /\ named \subseteq Classes
  BY <1>1, InCall DEF InCallOk, NotInstalling, Methods
<1>3. CollectOk(f, attr, registry)
  BY <1>1, <1>2, Collecting DEF InCases
<1>4. registry.entries # None
  BY <1>1, <1>3 DEF CollectOk
<1>5. /\ IsFrame(g) /\ g.fn = f.fn /\ g.cls = f.cls /\ g.wire = f.wire /\ g.cases = f.cases /\ g.parts = f.parts
      /\ g.pc = "entries"
  BY <1>2 DEF IsFrame
<1>6. registry'.list = registry.list /\ registry'.entries = registry.entries /\ RegistryOk(registry')
  BY <1>1, <1>2, <1>4 DEF RegistryOk
<1>7. Grows(attr, registry, attr', registry')
  BY <1>1, <1>6 DEF Grows
<1> HIDE DEF f, g
<1>8. CollectOk(f, attr', registry')
  <2>1. InCallOk(f, attr', registry', named)
    BY <1>2, <1>7, FrameStable
  <2> QED
    BY <1>1, <2>1, Collecting DEF InCases
<1>9. CollectOk(g, attr', registry')
  BY <1>1, <1>4, <1>5, <1>6, <1>8 DEF CollectOk, InCases
<1>10. InCallOk(g, attr', registry', named)
  BY <1>1, <1>2, <1>5, <1>9 DEF InCallOk, ResolveOk
<1>11. StoreOk(attr', registry', named) /\ Ordered' /\ Spares(attr, attr', named)
  BY <1>1, <1>2, <1>6, <1>7, RegistryStore
<1> QED
  BY <1>1, <1>2, <1>5, <1>7, <1>10, <1>11, AssignGoto DEF f

\* A cache that is filled comes after those of the classes in it.
LEMMA OrderExtends ==
  ASSUME FInv, NEW c \in named, ~Cached(attr, c), Cached(attr', c), AllReady(attr, registry, c),
         \A d \in Classes : d # c => attr'[d].resolved = attr[d].resolved,
         registry'.list = registry.list
  PROVE  Ordered'
<1> DEFINE F == Filled(attr)
           n == Cardinality(F)
<1>1. PICK r \in [Classes -> Nat] : OrderOk(r, attr, registry)
  BY DEF FInv, Ordered
<1>2. /\ c \in Classes /\ RegistryOk(registry) /\ F \subseteq named
      /\ \A d \in named : Cached(attr, d) => AllReady(attr, registry, d)
  BY DEF FInv, StoreOk, ClassOk, Filled
<1>3. IsFiniteSet(F) /\ n \in Nat
  <2>1. IsFiniteSet(F)
    BY FrontendAssumption, FS_Subset DEF Filled
  <2> QED
    BY <2>1, FS_CardinalityType
<1>4. Filled(attr') = F \cup {c} /\ c \notin F
  BY <1>2 DEF Filled, Cached
<1>5. Cardinality(Filled(attr')) = n + 1
  BY <1>3, <1>4, FS_AddElement
<1>6. ASSUME NEW d \in named, AllReady(attr, registry, d), NEW e, Inside(d, e, registry) PROVE Cached(attr, e)
  <2>1. PICK i \in DOMAIN Decl[d] :
          \/ Decl[d][i].kind = "struct" /\ e = Decl[d][i].cls
          \/ Decl[d][i].kind = "switch" /\ e \in Range(registry.list)
    BY <1>6 DEF Inside
  <2>2. Ready(attr, registry, Decl[d][i])
    BY <1>6 DEF AllReady
  <2> QED
    BY <2>1, <2>2 DEF Ready, Range
<1> DEFINE q == [r EXCEPT ![c] = n]
<1>7. q \in [Classes -> Nat] /\ q[c] = n /\ \A d \in Classes : d # c => q[d] = r[d]
  BY <1>2, <1>3
<1> HIDE DEF q, n
<1>8. \A d, e : Inside(d, e, registry') <=> Inside(d, e, registry)
  BY DEF Inside
<1>9. ASSUME NEW d \in Filled(attr')
      PROVE  q[d] < n + 1 /\ \A e \in Filled(attr') : Inside(d, e, registry) => q[e] < q[d]
  <2>1. CASE d = c
    <3>1. \A e \in Filled(attr') : Inside(c, e, registry) => e \in F /\ e # c
      BY <1>4, <1>6 DEF Filled
    <3>2. \A e \in F : r[e] < n /\ e \in Classes
      BY <1>1 DEF OrderOk, n, Filled
    <3> QED
      BY <1>3, <1>7, <2>1, <3>1, <3>2 DEF n
  <2>2. CASE d # c
    <3>1. d \in F /\ d \in named /\ d \in Classes
      BY <1>2, <1>4, <2>2 DEF Filled
    <3>2. AllReady(attr, registry, d)
      BY <1>2, <3>1 DEF Filled
    <3>3. \A e \in Filled(attr') : Inside(d, e, registry) => e \in F /\ e # c /\ e \in Classes
      BY <1>4, <1>6, <3>1, <3>2 DEF Filled
    <3>4. r[d] < n /\ \A e \in F : Inside(d, e, registry) => r[e] < r[d]
      BY <1>1, <3>1 DEF OrderOk, n
    <3>5. r[d] < n + 1
      BY <1>3, <3>1, <3>4 DEF n
    <3> QED
      BY <1>7, <2>2, <3>1, <3>3, <3>4, <3>5
  <2> QED
    BY <2>1, <2>2
<1>10. OrderOk(q, attr', registry')
  BY <1>5, <1>8, <1>9 DEF OrderOk, n
<1> QED
  BY <1>7, <1>10 DEF Ordered

LEMMA PublishStep ==
  ASSUME FInv, NEW t \in Threads, Publish(t)
  PROVE  FInv'
<1> DEFINE f == Top(t)
           c == f.cls
           s == Schema(c, f.wire, f.parts)
           g == [f EXCEPT !.pc = "compile", !.run = s, !.parts = <<>>]
<1>1. stack[t] # <<>> /\ f.fn = "ensure_resolved" /\ f.pc = "field" /\ registry' = registry
      /\ Len(f.parts) = Len(Decl[f.wire]) /\ attr' = Assign(attr, c, "resolved", s) /\ Goto(t, g)
  BY AtCall DEF Publish, At, Assign
<1>2. InCallOk(f, attr, registry, named) /\ c \in named /\ c \in Classes /\ IsFrame(f) /\ NotInstalling(f)
      /\ named \subseteq Classes /\ RegistryOk(registry) /\ AttrOk(attr) /\ ClassOk(c, attr, registry, named)
  BY <1>1, InCall DEF InCallOk, NotInstalling, Methods
<1>3. CollectOk(f, attr, registry)
  BY <1>1, <1>2, Collecting
<1>4. s = OwnSchema(attr, registry, c) /\ AllReady(attr, registry, c) /\ s # NoSchema /\ f.wire = c
  <2>1. /\ f.wire = c /\ Stack(f.parts) /\ Len(f.parts) = Len(Decl[c])
        /\ \A i \in 1 .. Len(f.parts) :
             f.parts[i] = Part(attr, registry, Decl[c][i]) /\ Ready(attr, registry, Decl[c][i])
    BY <1>1, <1>3 DEF CollectOk
  <2>2. DOMAIN Decl[c] = 1 .. Len(f.parts)
    BY <1>2, <2>1, SpecFacts
  <2>3. f.parts = [i \in 1 .. Len(f.parts) |-> f.parts[i]]
    BY <2>1, StackIsFcn
  <2>4. f.parts = [i \in DOMAIN Decl[c] |-> Part(attr, registry, Decl[c][i])]
    BY <2>1, <2>2, <2>3
  <2>5. c # NoClass
    BY <1>2, FrontendAssumption
  <2>6. s # NoSchema
    BY <2>5 DEF Schema, NoSchema
  <2> QED
    BY <2>1, <2>2, <2>4, <2>6 DEF OwnSchema, AllReady
<1>5. IsFrame(g) /\ g.fn = f.fn /\ g.cls = c /\ g.pc = "compile" /\ g.wire = f.wire /\ g.run = s
  BY <1>2 DEF IsFrame
<1> HIDE DEF s, g, f
<1>6. /\ AttrOk(attr') /\ attr'[c].resolved = s
      /\ \A d \in Classes, b \in AttrNames : d # c \/ b # "resolved" => attr'[d][b] = attr[d][b]
  BY <1>1, <1>2, SetAttr DEF AttrNames
<1>7. Cached(attr', c) /\ (Cached(attr, c) => attr[c].resolved = s)
  BY <1>2, <1>4, <1>6 DEF Cached, ClassOk
<1>8. \A d \in Classes : d # c => attr'[d].resolved = attr[d].resolved
  BY <1>6 DEF AttrNames
<1>9. \A d \in Classes, m \in Methods : attr'[d][m] = attr[d][m]
  BY <1>6 DEF AttrNames, Methods
<1>10. Grows(attr, registry, attr', registry')
  BY <1>1, <1>6, <1>7, <1>8, <1>9 DEF Grows
<1>11. Improves(c, attr, registry, named, attr')
  BY <1>2, <1>4, <1>6, <1>9 DEF Improves, AttrNames
<1>12. StoreOk(attr', registry', named)
  <2>1. \A d \in Classes, b \in AttrNames : d # c => attr'[d][b] = attr[d][b]
    BY <1>6
  <2>2. StoreOk(attr, registry, named) /\ RegistryOk(registry')
    BY <1>1, <1>2 DEF FInv
  <2> QED
    BY <1>2, <1>6, <1>10, <1>11, <2>1, <2>2, StoreStable
<1>13. Ordered'
  <2>1. CASE Cached(attr, c)
    BY <1>1, <1>7, <1>8, <2>1, OrderStable DEF Cached
  <2>2. CASE ~Cached(attr, c)
    BY <1>1, <1>2, <1>4, <1>7, <1>8, <2>2, OrderExtends
  <2> QED
    BY <2>1, <2>2
<1>14. InstallOk(g, attr', named)
  BY <1>4, <1>5, <1>6, <1>7 DEF InstallOk, InstalledBefore, Methods, Holds
<1>15. InCallOk(g, attr', registry', named)
  BY <1>1, <1>2, <1>5, <1>14 DEF InCallOk, ResolveOk
<1>16. ~NotInstalling(g)
  BY <1>1, <1>5 DEF NotInstalling
<1>17. \A d \in named : Cached(attr', d) => Cached(attr, d) \/ (d = g.cls /\ ~NotInstalling(g))
  BY <1>2, <1>5, <1>8, <1>16 DEF Cached
<1>18. Spares(attr, attr', named)
  BY <1>2, <1>6 DEF Spares
<1> QED
  BY <1>1, <1>2, <1>5, <1>10, <1>12, <1>13, <1>15, <1>17, <1>18, AssignGoto DEF f

-----------------------------------------------------------------------------
(* Class statements. *)

\* A thread in a class statement has the program to itself, if the statement
\* registers its class.
LEMMA InClass ==
  ASSUME FInv, NEW t \in Threads, stack[t] # <<>>, Top(t).fn = "class"
  PROVE  /\ Defining(t) /\ Stack(stack[t]) /\ Len(stack[t]) = 1 /\ Top(t) = stack[t][1]
         /\ InClassOk(Top(t), attr, registry, named) /\ Top(t).cls \in Classes
         /\ Top(t).cls \in Keyed => \A u \in Threads : u # t => stack[u] = <<>>
         /\ \A c : ~Busy(c, stack[t])
         /\ StoreOk(attr, registry, named)
<1>1. CallStackOk(stack[t], attr, registry, named) \/ ClassStackOk(stack[t], attr, registry, named)
  BY DEF FInv, StacksOk
<1>2. ASSUME CallStackOk(stack[t], attr, registry, named) PROVE FALSE
  <2>1. Len(stack[t]) \in DOMAIN stack[t] /\ Top(t) = stack[t][Len(stack[t])]
    BY <1>2, StackPop DEF CallStackOk, Top
  <2>2. InCallOk(Top(t), attr, registry, named)
    BY <1>2, <2>1 DEF CallStackOk
  <2> QED
    BY <2>2, CallFrame
<1>3. ClassStackOk(stack[t], attr, registry, named)
  BY <1>1, <1>2
<1>4. Stack(stack[t]) /\ Len(stack[t]) = 1 /\ Top(t) = stack[t][1] /\ InClassOk(Top(t), attr, registry, named)
  BY <1>3, StackPop DEF ClassStackOk, Top
<1>5. Defining(t) /\ Top(t).cls \in Classes /\ (Registering(t) <=> Top(t).cls \in Keyed)
  BY <1>4 DEF Defining, Registering, InClassOk, IsFrame
<1>6. Top(t).cls \in Keyed => \A u \in Threads : u # t => stack[u] = <<>>
  BY <1>5 DEF FInv, Alone
<1>7. \A c : ~Busy(c, stack[t])
  BY DEF Busy, Top
<1> QED
  BY <1>4, <1>5, <1>6, <1>7 DEF FInv

\* A step of a class statement, after which nothing is on the stack or the
\* statement goes on: the other threads are where they were.
LEMMA StepClass ==
  ASSUME FInv, NEW t \in Threads, stack[t] # <<>>, Top(t).fn = "class",
         registry' = registry \/ Top(t).cls \in Keyed,
         \A d \in Classes, a \in AttrNames : d # Top(t).cls => attr'[d][a] = attr[d][a],
         ~Cached(attr', Top(t).cls),
         named' = named \/ named' = named \cup {Top(t).cls}, spoiled' = spoiled,
         NEW s2, stack' = [stack EXCEPT ![t] = s2],
         s2 = <<>> \/ (ClassStackOk(s2, attr', registry', named') /\ s2[1].cls = Top(t).cls),
         StoreOk(attr', registry', named'), Ordered',
         \A c \in Range(registry'.list) : c \in Range(registry.list) \/ c = Top(t).cls,
         Top(t).cls \in Range(registry'.list) => Top(t).cls \in named' \/ (s2 # <<>> /\ Top(t).cls \in Keyed),
         NEW o, o.tag # "ok" \/ o.op = None, outcome' = outcome \/ outcome' = [outcome EXCEPT ![t] = o]
  PROVE  FInv'
<1> DEFINE c == Top(t).cls
<1>1. stack = [u \in Threads |-> stack[u]] /\ outcome = [u \in Threads |-> outcome[u]]
  BY DEF FInv, StacksOk, OutcomesOk
<1>2. /\ stack' = [u \in Threads |-> stack'[u]] /\ stack'[t] = s2
      /\ \A u \in Threads : u # t => stack'[u] = stack[u]
  BY <1>1
<1>3. /\ Defining(t) /\ Top(t) = stack[t][1] /\ c \in Classes /\ c \notin named
      /\ (c \in Keyed => \A u \in Threads : u # t => stack[u] = <<>>)
      /\ StoreOk(attr, registry, named) /\ named \subseteq Classes /\ RegistryOk(registry)
      /\ (Registering(t) <=> c \in Keyed)
  BY InClass DEF InClassOk, StoreOk, Registering
<1>4. \A d \in Classes : d # c =>
        attr'[d].resolved = attr[d].resolved /\ \A m \in Methods : attr'[d][m] = attr[d][m]
  BY DEF AttrNames, Methods
<1>5. ~Cached(attr, c) /\ \A m \in Methods : attr[c][m].kind # "compiled"
  BY <1>3 DEF StoreOk
<1>6. c \notin Keyed => Grows(attr, registry, attr', registry')
  BY <1>4, <1>5 DEF Grows
<1>7. ASSUME NEW u \in Threads, u # t
      PROVE  CallStackOk(stack[u], attr', registry', named') \/ ClassStackOk(stack[u], attr', registry', named')
  <2>1. CASE c \in Keyed
    BY <1>3, <1>7, <2>1, NoCall
  <2>2. CASE c \notin Keyed /\ CallStackOk(stack[u], attr, registry, named)
    BY <1>3, <1>6, <2>2, CallStackStable
  <2>3. CASE c \notin Keyed /\ ClassStackOk(stack[u], attr, registry, named)
    <3> DEFINE f == stack[u][1]
    <3>1. stack[u] # <<>> /\ InClassOk(f, attr, registry, named) /\ f.cls \in Classes /\ Defining(u)
      BY <2>3, StackPop DEF ClassStackOk, InClassOk, IsFrame, Defining
    <3>2. f.cls # c
      BY <1>3, <1>7, <3>1 DEF FInv, Apart
    <3>3. \A p \in DOMAIN SetBefore : SetBefore[p] \subseteq AttrNames
      BY DEF SetBefore, AttrNames
    <3>4. \A a \in SetBefore[f.pc] : attr'[f.cls][a] = attr[f.cls][a]
      BY <3>1, <3>2, <3>3 DEF InClassOk
    <3>5. InClassOk(f, attr', registry', named')
      BY <2>3, <3>1, <3>2, <3>4 DEF InClassOk
    <3> QED
      BY <2>3, <3>5 DEF ClassStackOk
  <2> QED
    BY <2>1, <2>2, <2>3 DEF FInv, StacksOk
<1>8. StacksOk'
  BY <1>2, <1>7, NoCall DEF StacksOk
<1>9. /\ \A u \in Threads : u # t => (Defining(u)' <=> Defining(u)) /\ (Registering(u)' <=> Registering(u))
      /\ Defining(t)' <=> s2 # <<>>
      /\ Registering(t)' <=> s2 # <<>> /\ c \in Keyed
  BY <1>2 DEF ClassStackOk, InClassOk, Defining, Registering
<1>10. Alone' /\ Apart'
  <2>1. ASSUME NEW u \in Threads, NEW v \in Threads, Registering(u)', v # u PROVE stack'[v] = <<>>
    <3>1. CASE u = t
      BY <1>2, <1>3, <1>9, <2>1, <3>1
    <3>2. CASE u # t
      BY <1>9, <2>1, <3>2 DEF FInv, Alone
    <3> QED
      BY <3>1, <3>2
  <2>2. Apart'
    BY <1>2, <1>3, <1>9 DEF FInv, Apart
  <2> QED
    BY <2>1, <2>2 DEF Alone
<1>11. Installed'
  <2> SUFFICES ASSUME NEW d \in named' \ spoiled', Cached(attr', d)
               PROVE  AllCompiled(attr', d) \/ \E u \in Threads : Busy(d, stack'[u])
    BY DEF Installed
  <2>1. d # c /\ d \in named \ spoiled /\ d \in Classes
    BY <1>3
  <2>2. AllCompiled(attr, d) \/ \E u \in Threads : Busy(d, stack[u])
    BY <1>4, <2>1 DEF FInv, Installed, Cached
  <2>3. ~Busy(d, stack[t])
    BY InClass
  <2> QED
    BY <1>2, <1>4, <2>1, <2>2, <2>3 DEF AllCompiled
<1>12. ListOk'
  <2> SUFFICES ASSUME NEW d \in Range(registry'.list), d \notin named'
               PROVE  \E u \in Threads : Registering(u)' /\ stack'[u][1].cls = d
    BY DEF ListOk
  <2>1. CASE d = c
    BY <1>2, <1>9, <2>1
  <2>2. CASE d # c
    <3>1. PICK u \in Threads : Registering(u) /\ stack[u][1].cls = d
      BY <2>2 DEF FInv, ListOk
    <3>2. u # t
      BY <1>3, <2>2, <3>1
    <3> QED
      BY <1>2, <1>9, <3>1, <3>2
  <2> QED
    BY <2>1, <2>2
<1>13. OutcomesOk'
  <2>1. outcome' = [u \in Threads |-> outcome'[u]] /\ \A u \in Threads : outcome'[u] = outcome[u] \/ outcome'[u] = o
    BY <1>1
  <2>2. OutcomeOk(o, attr')
    BY DEF OutcomeOk
  <2>3. \A d \in Classes : \A v : Holds(attr, d, v) => Holds(attr', d, v)
    BY <1>4, <1>5 DEF Holds, Cached
  <2>4. \A u \in Threads : OutcomeOk(outcome[u], attr')
    BY <2>3 DEF FInv, OutcomesOk, OutcomeOk
  <2> QED
    BY <2>1, <2>2, <2>4 DEF OutcomesOk
<1> QED
  BY <1>8, <1>10, <1>11, <1>12, <1>13 DEF FInv

\* The class statement goes on.
LEMMA ClassGoto ==
  ASSUME FInv, NEW t \in Threads, stack[t] # <<>>, Top(t).fn = "class",
         NEW g, Goto(t, g), g.cls = Top(t).cls, InClassOk(g, attr', registry', named),
         StoreOk(attr', registry', named), Ordered',
         registry' = registry \/ Top(t).cls \in Keyed,
         \A d \in Classes, a \in AttrNames : d # Top(t).cls => attr'[d][a] = attr[d][a],
         \A c \in Range(registry'.list) : c \in Range(registry.list) \/ c = Top(t).cls,
         Top(t).cls \in Range(registry'.list) => Top(t).cls \in Keyed
  PROVE  FInv'
<1> DEFINE s2 == Topped(stack[t], g)
<1>1. Stack(stack[t]) /\ Len(stack[t]) = 1
  BY InClass
<1>2. stack' = [stack EXCEPT ![t] = s2] /\ outcome' = outcome /\ named' = named /\ spoiled' = spoiled
  BY DEF Goto, Topped, Books, FInv, StacksOk
<1>3. Stack(s2) /\ Len(s2) = 1 /\ s2 # <<>> /\ s2[1] = g
  BY <1>1, StackUpdate
<1> HIDE DEF s2
<1>4. ClassStackOk(s2, attr', registry', named)
  BY <1>3 DEF ClassStackOk
<1>5. Idle.op = None
  BY DEF Idle, Done
<1>6. ~Cached(attr', Top(t).cls)
  BY InClass DEF StoreOk, InClassOk
<1> QED
  BY <1>2, <1>3, <1>4, <1>5, <1>6, StepClass

\* The class statement ends with an error, before the class is registered.
LEMMA ClassRaise ==
  ASSUME FInv, NEW t \in Threads, stack[t] # <<>>, Top(t).fn = "class",
         NEW e, e # "ok", Raise(t, e), UNCHANGED Shared, Top(t).pc \in {"enter", "list"}
  PROVE  FInv'
<1> DEFINE o == Done(e, stack[t][1].cls, stack[t][1].m, NoSchema, NoSchema)
<1>1. stack' = [stack EXCEPT ![t] = <<>>] /\ named' = named /\ spoiled' = spoiled /\ outcome' = [outcome EXCEPT ![t] = o]
  BY DEF Raise, Exit, Books
<1>2. o.tag # "ok"
  BY DEF Done
<1> HIDE DEF o
<1>3. attr' = attr /\ registry' = registry /\ StoreOk(attr', registry', named) /\ Ordered'
  BY SameStore
<1>4. Top(t).cls \notin Range(registry.list) /\ ~Cached(attr, Top(t).cls)
  BY InClass DEF InClassOk, StoreOk
<1> QED
  BY <1>1, <1>2, <1>3, <1>4, StepClass

LEMMA AddCheckStep ==
  ASSUME FInv, NEW t \in Threads, AddCheck(t)
  PROVE  FInv'
<1> DEFINE f == Top(t)
<1>1. stack[t] # <<>> /\ f.fn = "class" /\ f.pc = "enter" /\ UNCHANGED Shared
  BY DEF AddCheck, At
<1>2. InClassOk(f, attr, registry, named) /\ IsFrame(f)
  BY <1>1, InClass DEF InClassOk
<1>3. attr' = attr /\ registry' = registry /\ StoreOk(attr', registry', named) /\ Ordered'
  BY <1>1, SameStore
<1>4. ASSUME NEW p \in {"wire", "list"}, Goto(t, [f EXCEPT !.pc = p]), p = "wire" <=> f.cls \notin Keyed PROVE FInv'
  <2> DEFINE g == [f EXCEPT !.pc = p]
  <2>1. IsFrame(g) /\ g.fn = f.fn /\ g.cls = f.cls /\ g.pc = p
    BY <1>2 DEF IsFrame
  <2>2. Goto(t, g)
    BY <1>4
  <2> HIDE DEF g
  <2>3. p \in DOMAIN SetBefore /\ SetBefore[p] = {}
    BY DEF SetBefore
  <2>4. InClassOk(g, attr, registry, named)
    BY <1>1, <1>2, <1>4, <2>1, <2>3 DEF InClassOk
  <2> QED
    BY <1>1, <1>2, <1>3, <2>1, <2>2, <2>4, ClassGoto DEF InClassOk
<1>5. CASE f.cls \notin Keyed
  BY <1>4, <1>5 DEF AddCheck
<1>6. CASE f.cls \in Keyed /\ registry.frozen
  <2>1. Raise(t, "TypeError")
    BY <1>6 DEF AddCheck
  <2> QED
    BY <1>1, <2>1, ClassRaise
<1>7. CASE f.cls \in Keyed /\ ~registry.frozen
  BY <1>4, <1>7 DEF AddCheck
<1> QED
  BY <1>5, <1>6, <1>7

LEMMA AddListStep ==
  ASSUME FInv, NEW t \in Threads, AddList(t)
  PROVE  FInv'
<1> DEFINE f == Top(t)
<1>1. stack[t] # <<>> /\ f.fn = "class" /\ f.pc = "list" /\ UNCHANGED Shared
  BY DEF AddList, At
<1>2. InClassOk(f, attr, registry, named) /\ IsFrame(f)
  BY <1>1, InClass DEF InClassOk
<1>3. attr' = attr /\ registry' = registry /\ StoreOk(attr', registry', named) /\ Ordered'
  BY <1>1, SameStore
<1>4. CASE registry.entries = None
  <2> DEFINE g == [f EXCEPT !.pc = "append"]
  <2>1. IsFrame(g) /\ g.fn = f.fn /\ g.cls = f.cls /\ g.pc = "append"
    BY <1>2 DEF IsFrame
  <2>2. Goto(t, g)
    BY <1>4 DEF AddList
  <2> HIDE DEF g
  <2>3. "append" \in DOMAIN SetBefore /\ SetBefore["append"] = {}
    BY DEF SetBefore
  <2>4. InClassOk(g, attr, registry, named)
    BY <1>1, <1>2, <1>4, <2>1, <2>3 DEF InClassOk
  <2> QED
    BY <1>1, <1>2, <1>3, <2>1, <2>2, <2>4, ClassGoto DEF InClassOk
<1>5. CASE registry.entries # None
  <2>1. Raise(t, "AssertionError")
    BY <1>5 DEF AddList
  <2> QED
    BY <1>1, <2>1, ClassRaise
<1> QED
  BY <1>4, <1>5

\* Until the registry is first used, no class with a switch is resolved.
LEMMA RegisterStore ==
  ASSUME FInv, registry.entries = None, NEW c \in Classes,
         attr' = attr, registry' = [registry EXCEPT !.list = Append(@, c)]
  PROVE  /\ StoreOk(attr', registry', named) /\ Ordered'
         /\ registry'.entries = None /\ Range(registry'.list) = Range(registry.list) \cup {c}
<1>1. RegistryOk(registry) /\ AttrOk(attr) /\ StoreOk(attr, registry, named)
  BY DEF FInv, StoreOk
<1>2. registry.list \in Seq(Classes) /\ registry' = [registry EXCEPT !.list = Append(registry.list, c)]
  BY <1>1 DEF RegistryOk
<1>3. /\ registry'.list = Append(registry.list, c) /\ registry'.entries = registry.entries /\ registry'.frozen = registry.frozen
      /\ registry' \in [list : {registry'.list}, entries : {registry'.entries}, frozen : BOOLEAN]
  BY <1>1 DEF RegistryOk
<1>4. Append(registry.list, c) \in Seq(Classes) /\ Range(Append(registry.list, c)) = Range(registry.list) \cup {c}
  BY <1>2, AppendProperties DEF Range
<1>5. RegistryOk(registry')
  BY <1>1, <1>3, <1>4 DEF RegistryOk
<1>6. ASSUME NEW d \in named, Cached(attr, d), NEW i \in DOMAIN Decl[d] PROVE Decl[d][i].kind # "switch"
  BY <1>1, <1>6 DEF StoreOk, ClassOk, AllReady, Ready
<1>7. ASSUME NEW d \in named, Cached(attr, d)
      PROVE  OwnSchema(attr, registry', d) = OwnSchema(attr, registry, d) /\ AllReady(attr, registry', d)
  <2>1. AllReady(attr, registry, d)
    BY <1>1, <1>7 DEF StoreOk, ClassOk
  <2>2. \A i \in DOMAIN Decl[d] :
          Part(attr, registry', Decl[d][i]) = Part(attr, registry, Decl[d][i]) /\ Ready(attr, registry', Decl[d][i])
    BY <1>6, <1>7, <2>1 DEF Part, Ready, AllReady
  <2> QED
    BY <2>2 DEF OwnSchema, AllReady
<1>8. StoreOk(attr, registry', named)
  <2>1. \A d \in named : ClassOk(d, attr, registry', named)
    BY <1>1, <1>7 DEF StoreOk, ClassOk
  <2> QED
    BY <1>1, <1>3, <1>4, <1>5, <2>1 DEF StoreOk
<1>9. Ordered'
  <2>1. PICK r \in [Classes -> Nat] : OrderOk(r, attr, registry)
    BY DEF FInv, Ordered
  <2>2. \A d \in Filled(attr) : d \in named
    BY <1>1 DEF StoreOk, Filled
  <2>3. \A d \in Filled(attr) : \A e : Inside(d, e, registry') => Inside(d, e, registry)
    BY <1>6, <2>2 DEF Inside, Filled
  <2>4. OrderOk(r, attr, registry')
    BY <2>1, <2>3 DEF OrderOk
  <2> QED
    BY <2>1, <2>4 DEF Ordered
<1> QED
  BY <1>3, <1>4, <1>8, <1>9

LEMMA AddAppendStep ==
  ASSUME FInv, NEW t \in Threads, AddAppend(t)
  PROVE  FInv'
<1> DEFINE f == Top(t)
           g == [f EXCEPT !.pc = "wire"]
<1>1. stack[t] # <<>> /\ f.fn = "class" /\ f.pc = "append" /\ attr' = attr /\ Goto(t, g)
      /\ registry' = [registry EXCEPT !.list = Append(@, f.cls)]
  BY DEF AddAppend, At
<1>2. InClassOk(f, attr, registry, named) /\ IsFrame(f) /\ f.cls \in Classes
  BY <1>1, InClass DEF InClassOk
<1>3. registry.entries = None
  BY <1>1, <1>2 DEF InClassOk
<1>4. /\ StoreOk(attr', registry', named) /\ Ordered'
      /\ registry'.entries = None /\ Range(registry'.list) = Range(registry.list) \cup {f.cls}
  BY <1>1, <1>2, <1>3, RegisterStore
<1>5. IsFrame(g) /\ g.fn = f.fn /\ g.cls = f.cls /\ g.pc = "wire"
  BY <1>2 DEF IsFrame
<1> HIDE DEF g
<1>6. "wire" \in DOMAIN SetBefore /\ SetBefore["wire"] = {}
  BY DEF SetBefore
<1>7. InClassOk(g, attr', registry', named)
  BY <1>1, <1>2, <1>4, <1>5, <1>6 DEF InClassOk
<1>8. f.cls \in Keyed
  BY <1>1, <1>2 DEF InClassOk
<1> QED
  BY <1>1, <1>4, <1>5, <1>7, <1>8, ClassGoto

LEMMA DefineAttributeStep ==
  ASSUME FInv, NEW t \in Threads, DefineAttribute(t)
  PROVE  FInv'
<1> DEFINE f == Top(t)
           c == f.cls
<1>1. PICK a \in DOMAIN DefineNext :
        At(t, "class", a) /\ attr' = Assign(attr, c, a, Fresh(c)[a]) /\ Goto(t, [f EXCEPT !.pc = DefineNext[a]])
  BY DEF DefineAttribute, Assign
<1> DEFINE g == [f EXCEPT !.pc = DefineNext[a]]
<1>2. stack[t] # <<>> /\ f.fn = "class" /\ f.pc = a /\ registry' = registry /\ Goto(t, g)
  BY <1>1 DEF DefineAttribute, At
<1>3. InClassOk(f, attr, registry, named) /\ IsFrame(f) /\ c \in Classes /\ c \notin named
      /\ StoreOk(attr, registry, named) /\ AttrOk(attr) /\ RegistryOk(registry)
  BY <1>2, InClass DEF InClassOk, StoreOk
<1>4. a \in AttrNames /\ AttrNames = DOMAIN DefineNext
  BY DEF AttrNames, DefineNext
<1>5. /\ AttrOk(attr') /\ attr'[c][a] = Fresh(c)[a]
      /\ \A d \in Classes, b \in AttrNames : d # c \/ b # a => attr'[d][b] = attr[d][b]
  BY <1>1, <1>3, <1>4, SetAttr
<1>6. IsFrame(g) /\ g.fn = f.fn /\ g.cls = c /\ g.pc = DefineNext[a]
  BY <1>3 DEF IsFrame
<1> HIDE DEF f, g
<1>7. /\ Fresh(c).resolved = NoSchema
      /\ \A m \in Methods : Fresh(c)[m].kind # "compiled"
  BY DEF Fresh, Methods, Trampoline
<1>8. ~Cached(attr, c) /\ \A m \in Methods : attr[c][m].kind # "compiled"
  BY <1>3 DEF StoreOk
<1>9. "resolved" \in AttrNames /\ Methods \subseteq AttrNames
  BY DEF AttrNames, Methods
<1>10. ~Cached(attr', c) /\ \A m \in Methods : attr'[c][m].kind # "compiled"
  <2>1. attr'[c].resolved = NoSchema
    BY <1>3, <1>5, <1>7, <1>8, <1>9 DEF Cached
  <2>2. \A m \in Methods : attr'[c][m] = attr[c][m] \/ attr'[c][m] = Fresh(c)[m]
    BY <1>3, <1>5, <1>9
  <2> QED
    BY <1>7, <1>8, <2>1, <2>2 DEF Cached
<1>11. \A d \in Classes : Cached(attr, d) => attr'[d].resolved = attr[d].resolved
  BY <1>5, <1>8, <1>9
<1>12. Grows(attr, registry, attr', registry')
  <2>1. \A d \in Classes, m \in Methods : attr[d][m].kind = "compiled" => attr'[d][m].kind = "compiled"
    BY <1>5, <1>8, <1>9
  <2> QED
    BY <1>2, <1>11, <2>1 DEF Grows
<1>13. StoreOk(attr', registry', named)
  <2>1. \A d \in Classes, b \in AttrNames : d # c => attr'[d][b] = attr[d][b]
    BY <1>5
  <2>2. RegistryOk(registry')
    BY <1>2, <1>3
  <2> QED
    BY <1>3, <1>5, <1>10, <1>12, <2>1, <2>2, StoreStable
<1>14. Ordered'
  <2>1. \A d \in Classes : Cached(attr, d) <=> Cached(attr', d)
    BY <1>5, <1>8, <1>9, <1>10 DEF Cached
  <2> QED
    BY <1>2, <2>1, OrderStable
<1>15. InClassOk(g, attr', registry', named)
  <2>1. /\ DefineNext[a] \in DOMAIN SetBefore /\ DefineNext[a] \notin {"enter", "list", "append"}
        /\ a \notin {"enter", "list", "append"}
        /\ \A b \in SetBefore[DefineNext[a]] : b = a \/ b \in SetBefore[a]
        /\ SetBefore[a] \subseteq AttrNames
    BY DEF DefineNext, SetBefore, AttrNames
  <2>2. \A b \in SetBefore[a] : attr[c][b] = Fresh(c)[b]
    BY <1>2, <1>3 DEF InClassOk
  <2>3. \A b \in SetBefore[DefineNext[a]] : attr'[c][b] = Fresh(c)[b]
    BY <1>3, <1>5, <2>1, <2>2
  <2> QED
    BY <1>2, <1>3, <1>6, <2>1, <2>3 DEF InClassOk
<1>16. c \in Range(registry'.list) => c \in Keyed
  <2>1. \A d \in Range(registry.list) : d \notin named => d \in Keyed
    BY DEF FInv, ListOk, Registering
  <2> QED
    BY <1>2, <1>3, <2>1
<1>17. \A d \in Classes, b \in AttrNames : d # c => attr'[d][b] = attr[d][b]
  BY <1>5
<1> QED
  BY <1>2, <1>6, <1>13, <1>14, <1>15, <1>16, <1>17, ClassGoto DEF f

LEMMA TrampolineMethod == ASSUME NEW A, NEW N, NEW c \in N PROVE MethodOk(Trampoline(c), A, N) /\ Trampoline(c).cls = c
<1>1. Trampoline(c).cls = c
  BY DEF Trampoline
<1>2. ClosedMethods({Trampoline(c)}, A, N)
  BY <1>1 DEF ClosedMethods
<1> QED
  BY <1>1, <1>2 DEF MethodOk

\* A class as its statement leaves it.
LEMMA FreshClass ==
  ASSUME NEW A, NEW R, NEW N, NEW c \in N, Uses(c) \subseteq N, \A a \in AttrNames : A[c][a] = Fresh(c)[a]
  PROVE  ClassOk(c, A, R, N) /\ ~Cached(A, c)
<1>1. A[c].wire = c /\ A[c].resolved = NoSchema /\ A[c].codec = NoSchema /\ \A m \in Methods : A[c][m] = Trampoline(c)
  BY DEF Fresh, AttrNames, Methods
<1> QED
  BY <1>1, TrampolineMethod DEF ClassOk, Cached

LEMMA DefineBindStep ==
  ASSUME FInv, NEW t \in Threads, DefineBind(t)
  PROVE  FInv'
<1> DEFINE f == Top(t)
           c == f.cls
           o == Done("ok", c, None, NoSchema, NoSchema)
<1>1. stack[t] # <<>> /\ f.fn = "class" /\ f.pc = "bind" /\ UNCHANGED Shared /\ named' = named \cup {c}
      /\ outcome' = [outcome EXCEPT ![t] = o] /\ stack' = [stack EXCEPT ![t] = <<>>]
  BY DEF DefineBind, At
<1>2. o.op = None
  BY DEF Done
<1> HIDE DEF o
<1>3. InClassOk(f, attr, registry, named) /\ c \in Classes /\ c \notin named
      /\ StoreOk(attr, registry, named) /\ RegistryOk(registry)
  BY <1>1, InClass DEF InClassOk, StoreOk
<1>4. attr' = attr /\ registry' = registry /\ Ordered'
  BY <1>1, SameStore
<1>5. Grows(attr, registry, attr, registry)
  BY DEF Grows
<1>6. /\ Uses(c) \subseteq named /\ (c \in Keyed => c \in Range(registry.list))
      /\ \A a \in AttrNames : attr[c][a] = Fresh(c)[a]
  BY <1>1, <1>3 DEF InClassOk, SetBefore
<1>7. ClassOk(c, attr, registry, named') /\ ~Cached(attr, c)
  BY <1>1, <1>6, FreshClass
<1>8. \A d \in named : ClassOk(d, attr, registry, named')
  <2>1. \A d \in named : Improves(d, attr, registry, named, attr)
    BY DEF Improves
  <2> QED
    BY <1>1, <1>3, <1>5, <2>1, ClassStable DEF StoreOk
<1>9. StoreOk(attr', registry', named')
  BY <1>1, <1>3, <1>4, <1>6, <1>7, <1>8 DEF StoreOk
<1>10. spoiled' = spoiled
  BY DEF DefineBind
<1> QED
  BY <1>1, <1>2, <1>4, <1>7, <1>9, <1>10, StepClass

-----------------------------------------------------------------------------
(* The calls and the class statements that the program makes. *)

LEMMA OneFrame == ASSUME NEW x PROVE Stack(<<x>>) /\ Len(<<x>>) = 1 /\ <<x>>[1] = x /\ <<x>> # <<>> /\ DOMAIN <<x>> = {1}
<1>1. <<x>> \in Seq({x}) /\ Len(<<x>>) = 1 /\ <<x>>[1] = x /\ DOMAIN <<x>> = {1}
  OBVIOUS
<1>2. Stack(<<x>>)
  BY <1>1, IsStack
<1> QED
  BY <1>1, <1>2

LEMMA StartStep ==
  ASSUME ~ConcurrentRegistration, FInv, NEW t \in Threads, NEW op, NEW c, Start(t, op, c)
  PROVE  FInv'
<1> DEFINE x == IF op = "unpack" THEN Method(c, "from") ELSE NoMethod
           f == [TopLevel(op, c) EXCEPT !.meth = x]
           s2 == <<f>>
<1>1. stack[t] = <<>> /\ op \in Ops /\ c \in named /\ (\A u \in Threads : ~Registering(u)) /\ UNCHANGED Shared /\ named' = named /\ spoiled' = spoiled
      /\ stack' = [stack EXCEPT ![t] = s2] /\ outcome' = [outcome EXCEPT ![t] = Idle]
  BY DEF Start
<1>2. named \subseteq Classes
  BY DEF FInv, StoreOk
<1>3. /\ f.fn = "call" /\ f.cls = c /\ f.m = op /\ f.meth = x
      /\ f.pc = IF op = "construct" THEN "convert" ELSE "enter"
      /\ IsFrame(f)
  BY <1>1, <1>2 DEF TopLevel, Frame, IsFrame
<1>4. op = "unpack" => MethodOk(x, attr, named) /\ x.cls = c
  BY <1>1, OwnAttributes DEF Methods
<1> HIDE DEF f
<1>5. InCallOk(f, attr, registry, named)
  BY <1>1, <1>3, <1>4 DEF InCallOk, TopLevelOk
<1>6. CallStackOk(s2, attr, registry, named)
  BY <1>3, <1>5, OneFrame DEF CallStackOk
<1> HIDE DEF s2
<1>7. StillInstalled(attr, attr', named, stack[t], s2)
  BY <1>1, SameStore DEF StillInstalled, Busy
<1>8. outcome' = [u \in Threads |-> outcome'[u]] /\ \A u \in Threads : outcome'[u] = outcome[u] \/ OutcomeOk(outcome'[u], attr')
  BY <1>1 DEF FInv, OutcomesOk, OutcomeOk, Idle, Done
<1> QED
  BY <1>1, <1>6, <1>7, <1>8, SameStore, StepThread

LEMMA StartDefineStep ==
  ASSUME ~ConcurrentRegistration, FInv, NEW t \in Threads, NEW c \in Classes, StartDefine(t, c)
  PROVE  FInv'
<1> DEFINE f == Define(c)
           s2 == <<f>>
<1>1. /\ stack[t] = <<>> /\ c \notin named /\ Uses(c) \subseteq named
      /\ \A u \in Threads : Defining(u) => stack[u][1].cls # c
      /\ IF c \in Keyed THEN \A u \in Threads : stack[u] = <<>> ELSE ~ \E u \in Threads : Registering(u)
      /\ UNCHANGED Shared /\ named' = named /\ spoiled' = spoiled
      /\ stack' = [stack EXCEPT ![t] = s2] /\ outcome' = [outcome EXCEPT ![t] = Idle]
  BY DEF StartDefine
<1>2. \A u \in Threads : ~Registering(u)
  BY <1>1 DEF Registering, Defining
<1>3. Range(registry.list) \subseteq named
  BY <1>2, NoStatement
<1>4. attr' = attr /\ registry' = registry /\ StoreOk(attr', registry', named) /\ Ordered'
  BY <1>1, SameStore
<1>5. f.fn = "class" /\ f.cls = c /\ f.pc = "enter" /\ IsFrame(f)
  BY DEF Define, Frame, IsFrame
<1> HIDE DEF f
<1>6. "enter" \in DOMAIN SetBefore /\ SetBefore["enter"] = {}
  BY DEF SetBefore
<1>7. InClassOk(f, attr, registry, named)
  BY <1>1, <1>3, <1>5, <1>6 DEF InClassOk
<1>8. ClassStackOk(s2, attr, registry, named) /\ s2 # <<>> /\ s2[1] = f
  BY <1>7, OneFrame DEF ClassStackOk
<1> HIDE DEF s2
<1>9. /\ stack' = [u \in Threads |-> stack'[u]] /\ stack'[t] = s2
      /\ \A u \in Threads : u # t => stack'[u] = stack[u]
  BY <1>1 DEF FInv, StacksOk
<1>10. StacksOk'
  BY <1>1, <1>4, <1>8, <1>9 DEF FInv, StacksOk
<1>11. /\ \A u \in Threads : u # t => (Defining(u)' <=> Defining(u)) /\ (Registering(u)' <=> Registering(u))
       /\ Registering(t)' <=> c \in Keyed
  BY <1>5, <1>8, <1>9 DEF Defining, Registering
<1>12. Alone' /\ Apart'
  <2>1. ASSUME NEW u \in Threads, NEW v \in Threads, Registering(u)', v # u PROVE stack'[v] = <<>>
    BY <1>1, <1>2, <1>9, <1>11, <2>1
  <2>2. Apart'
    BY <1>1, <1>5, <1>8, <1>9, <1>11 DEF FInv, Apart
  <2> QED
    BY <2>1, <2>2 DEF Alone
<1>13. ListOk'
  BY <1>1, <1>3, <1>4 DEF ListOk
<1>14. Installed'
  <2>1. \A d : ~Busy(d, stack[t])
    BY <1>1 DEF Busy
  <2> QED
    BY <1>1, <1>4, <1>9, <2>1 DEF FInv, Installed
<1>15. OutcomesOk'
  BY <1>1, <1>4 DEF FInv, OutcomesOk, OutcomeOk, Idle, Done
<1> QED
  BY <1>1, <1>4, <1>10, <1>12, <1>13, <1>14, <1>15 DEF FInv

LEMMA FrontInitial == FrontInit => FInv
<1> SUFFICES ASSUME FrontInit PROVE FInv
  OBVIOUS
<1>1. /\ attr = [c \in Classes |-> IF c \in named THEN Fresh(c) ELSE Bare]
      /\ registry = [list |-> Registered[Len(Imported)], entries |-> None, frozen |-> FALSE]
      /\ stack = [t \in Threads |-> <<>>] /\ outcome = [t \in Threads |-> Idle] /\ named = Range(Imported)
  BY DEF FrontInit
<1>2. named \subseteq Classes /\ \A c \in named : Uses(c) \subseteq named
  <2>1. \A i \in DOMAIN Imported : Imported[i] \in Classes
    BY FrontendAssumption
  <2>2. named \subseteq Classes
    BY <1>1, <2>1 DEF Range
  <2>3. \A c \in Range(Imported) : Uses(c) \subseteq Range(Imported)
    BY FrontendAssumption
  <2> QED
    BY <1>1, <2>2, <2>3
<1>3. registry.list \in Seq(Classes) /\ Range(registry.list) = named \cap Keyed
  BY <1>1, RegisteredKeyed
<1>4. RegistryOk(registry)
  BY <1>1, <1>3 DEF RegistryOk
<1>5. AttrOk(attr)
  <2>1. \A c : Fresh(c) = [a \in AttrNames |-> Fresh(c)[a]] /\ Bare = [a \in AttrNames |-> Bare[a]]
    BY DEF Fresh, Bare, AttrNames
  <2>2. \A c \in Classes : attr[c] = [a \in AttrNames |-> attr[c][a]]
    BY <1>1, <2>1
  <2> QED
    BY <1>1, <2>2 DEF AttrOk
<1>6. \A c \in named : ClassOk(c, attr, registry, named) /\ ~Cached(attr, c)
  BY <1>1, <1>2, FreshClass
<1>7. \A c \in Classes \ named : ~Cached(attr, c) /\ \A m \in Methods : attr[c][m].kind # "compiled"
  BY <1>1 DEF Bare, Cached, Methods, NoMethod
<1>8. StoreOk(attr, registry, named)
  BY <1>2, <1>3, <1>4, <1>5, <1>6, <1>7 DEF StoreOk
<1>9. ListOk
  BY <1>3 DEF ListOk
<1>10. StacksOk /\ Alone /\ Apart
  BY <1>1, NoCall DEF StacksOk, Alone, Apart, Registering, Defining
<1>11. Installed
  BY <1>6 DEF Installed
<1>12. OutcomesOk
  BY <1>1 DEF OutcomesOk, OutcomeOk, Idle, Done
<1>13. Ordered
  <2>1. Filled(attr) = {}
    BY <1>6, <1>7 DEF Filled
  <2>2. [c \in Classes |-> 0] \in [Classes -> Nat]
    OBVIOUS
  <2> QED
    BY <2>1, <2>2 DEF Ordered, OrderOk
<1> QED
  BY <1>8, <1>9, <1>10, <1>11, <1>12, <1>13 DEF FInv

\* Whatever the threads do, and however the steps of their calls and of class
\* statements without a registration keyword interleave, the caches, the methods,
\* the registry and the calls and class statements under way are as described
\* above.  (One with such a keyword must have the program to itself.)
THEOREM FrontInvariance == ASSUME ~ConcurrentRegistration PROVE FrontSpec => []FInv
<1>1. FInv /\ [FrontNext]_vars => FInv'
  <2> SUFFICES ASSUME FInv, [FrontNext]_vars PROVE FInv'
    OBVIOUS
  <2>1. ASSUME UNCHANGED vars PROVE FInv'
    BY <2>1 DEF vars, FInv, ListOk, StacksOk, Alone, Apart, Installed, OutcomesOk, Ordered, Defining, Registering
  <2>2. ASSUME NEW t \in Threads, Resolution(t) PROVE FInv'
    BY <2>2, CheckResolvedStep, ResolveFieldStep, ResolveCaseStep, PublishStep, CompileMethodsStep, InstallMethodStep,
       ItemsCheckStep, ItemsTupleStep, ItemsAssignStep, ItemsFreezeStep, ItemsReturnStep DEF Resolution
  <2>3. ASSUME NEW t \in Threads, Definition(t) PROVE FInv'
    BY <2>3, AddCheckStep, AddListStep, AddAppendStep, DefineAttributeStep, DefineBindStep DEF Definition
  <2>4. ASSUME NEW t \in Threads, Operation(t) PROVE FInv'
    BY <2>4, CheckCodecStep, StoreCodecStep, TrampolineResolveStep, TrampolineDelegateStep, TrampolineReturnStep,
       RunFieldStep, CallCodecStep, CallConvertStep, CallReturnStep DEF Operation
  <2>5. ASSUME NEW t \in Threads, Begin(t) PROVE FInv'
    BY <2>5, StartStep, StartDefineStep DEF Begin
  <2> QED
    BY <2>1, <2>2, <2>3, <2>4, <2>5 DEF FrontNext, ThreadStep, Quiet
<1>2. FrontSpec => FrontInit /\ [][FrontNext]_vars
  BY PTL DEF FrontSpec
<1> QED
  BY <1>1, <1>2, FrontInitial, PTL

-----------------------------------------------------------------------------
(* What the program sees. *)

\* A call that succeeds converted its values with the schema its codec was
\* compiled from, that of the class it was made on.
THEOREM CallsAgreeAlways == ASSUME ~ConcurrentRegistration PROVE FrontSpec => []CallsAgree
<1>1. FInv => CallsAgree
  <2> SUFFICES ASSUME FInv, NEW t \in Threads, outcome[t].tag = "ok", outcome[t].op # None
               PROVE  /\ outcome[t].run.cls = outcome[t].cls
                      /\ outcome[t].op # "construct" => outcome[t].codec = outcome[t].run
    BY DEF CallsAgree
  <2> DEFINE o == outcome[t]
  <2>1. o.cls \in Classes /\ Holds(attr, o.cls, o.run) /\ (o.op # "construct" => Holds(attr, o.cls, o.codec))
    BY DEF FInv, OutcomesOk, OutcomeOk
  <2>2. o.cls \in named
    BY <2>1 DEF FInv, StoreOk, Holds
  <2>3. attr[o.cls].resolved.cls = o.cls
    BY <2>1, <2>2, CachedSchema DEF Holds
  <2> QED
    BY <2>1, <2>3 DEF Holds
<1> QED
  BY <1>1, FrontInvariance, PTL

\* A class that is resolved has its compiled methods or a thread is installing
\* them, unless compile_functions has raised for it in some thread after
\* resolved_cache was set.
THEOREM MethodsInstalled == ASSUME ~ConcurrentRegistration PROVE FrontSpec => []InstalledUnlessRaised
<1>1. FInv => InstalledUnlessRaised
  <2> SUFFICES ASSUME FInv, NEW c \in named \ spoiled, Cached(attr, c), NEW t \in Threads, Busy(c, stack[t])
               PROVE  \E i \in DOMAIN stack[t] :
                        stack[t][i].cls = c /\ stack[t][i].pc \in Methods \cup {"compile"}
    BY DEF FInv, Installed, InstalledUnlessRaised, Cached, AllCompiled
  <2>1. Stack(stack[t]) /\ stack[t] # <<>>
    BY DEF FInv, StacksOk, CallStackOk, ClassStackOk, Busy
  <2>2. Len(stack[t]) \in DOMAIN stack[t] /\ Last(stack[t]) = stack[t][Len(stack[t])]
    BY <2>1, StackPop
  <2> QED
    BY <2>2 DEF Busy
<1> QED
  BY <1>1, FrontInvariance, PTL

\* DeclaredTo is the function its definition says it is.
LEMMA DeclaredDef ==
  DeclaredTo = [n \in 0 .. Cardinality(Classes) |->
                  [c \in Classes |-> IF n = 0 THEN NoSchema ELSE Over(DeclaredTo[n - 1], c)]]
<1> DEFINE None0 == [c \in Classes |-> NoSchema]
           Step(d) == [c \in Classes |-> Over(d, c)]
           Eq(n, g) == g = [i \in 0 .. n |-> IF i = 0 THEN None0 ELSE Step(g[i - 1])]
           S == {n \in Nat : \E g : Eq(n, g)}
<1>1. Cardinality(Classes) \in Nat
  BY FrontendAssumption, FS_CardinalityType
<1> HIDE DEF Step, None0
<1>2. 0 \in S
  <2> DEFINE g == [i \in 0 .. 0 |-> None0]
  <2>1. Eq(0, g)
    OBVIOUS
  <2> QED
    BY <2>1
<1>3. ASSUME NEW n \in Nat, n \in S PROVE n + 1 \in S
  <2>1. PICK g : Eq(n, g)
    BY <1>3
  <2> DEFINE h == [i \in 0 .. (n + 1) |-> IF i = n + 1 THEN Step(g[n]) ELSE g[i]]
  <2>2. \A i \in 0 .. n : g[i] = IF i = 0 THEN None0 ELSE Step(g[i - 1])
    BY <2>1
  <2>3. \A i \in 0 .. (n + 1) : h[i] = IF i = 0 THEN None0 ELSE Step(h[i - 1])
    <3> SUFFICES ASSUME NEW i \in 0 .. (n + 1) PROVE h[i] = IF i = 0 THEN None0 ELSE Step(h[i - 1])
      OBVIOUS
    <3>1. CASE i = n + 1
      BY <3>1
    <3>2. CASE i # n + 1
      BY <3>2, <2>2
    <3> QED
      BY <3>1, <3>2
  <2>4. Eq(n + 1, h)
    BY <2>3
  <2>5. n + 1 \in Nat
    OBVIOUS
  <2> HIDE DEF h, Eq
  <2> QED
    BY <2>4, <2>5
<1>4. PICK g : Eq(Cardinality(Classes), g)
  BY <1>1, <1>2, <1>3, NatInductionOn
<1>5. g = [n \in 0 .. Cardinality(Classes) |->
             [c \in Classes |-> IF n = 0 THEN NoSchema ELSE Over(g[n - 1], c)]]
  <2>1. \A n \in 0 .. Cardinality(Classes) :
          (IF n = 0 THEN None0 ELSE Step(g[n - 1])) = [c \in Classes |-> IF n = 0 THEN NoSchema ELSE Over(g[n - 1], c)]
    BY DEF Step, None0
  <2> QED
    BY <1>4, <2>1
<1> QED
  BY <1>5 DEF DeclaredTo

\* What is cached on a class is what the declarations say, as deep as the class
\* is in the order in which the caches were filled.
LEMMA CachedAsDeclared ==
  ASSUME FInv, NEW r \in [Classes -> Nat], OrderOk(r, attr, registry)
  PROVE  \A n \in 0 .. Cardinality(Classes) : \A c \in Filled(attr) : r[c] < n => DeclaredTo[n][c] = attr[c].resolved
<1> DEFINE N == Cardinality(Classes)
           S == {n \in Nat : n <= N => \A c \in Filled(attr) : r[c] < n => DeclaredTo[n][c] = attr[c].resolved}
<1>1. N \in Nat
  BY FrontendAssumption, FS_CardinalityType
<1>2. /\ \A c \in Filled(attr) : c \in Classes /\ c \in named /\ Cached(attr, c) /\ r[c] \in Nat
      /\ RegistryOk(registry)
  BY DEF FInv, StoreOk, Filled
<1>3. 0 \in S
  BY <1>2
<1>4. ASSUME NEW n \in Nat, n \in S PROVE n + 1 \in S
  <2> SUFFICES ASSUME n + 1 <= N, NEW c \in Filled(attr), r[c] < n + 1
               PROVE  DeclaredTo[n + 1][c] = attr[c].resolved
    OBVIOUS
  <2>1. c \in Classes /\ c \in named /\ attr[c].resolved = OwnSchema(attr, registry, c) /\ AllReady(attr, registry, c)
    BY <1>2 DEF FInv, StoreOk, ClassOk
  <2>2. \A d \in Filled(attr) : r[d] < n => DeclaredTo[n][d] = attr[d].resolved
    BY <1>1, <1>4
  <2>3. \A d \in Filled(attr) : Inside(c, d, registry) => DeclaredTo[n][d] = attr[d].resolved
    <3>1. \A d \in Filled(attr) : Inside(c, d, registry) => r[d] < r[c]
      BY DEF OrderOk
    <3> QED
      BY <1>2, <2>2, <3>1
  <2>4. DeclaredTo[n + 1][c] = Over(DeclaredTo[n], c)
    <3>1. n + 1 \in 0 .. N /\ n + 1 # 0 /\ (n + 1) - 1 = n
      BY <1>1
    <3>2. DeclaredTo[n + 1] = [d \in Classes |-> IF n + 1 = 0 THEN NoSchema ELSE Over(DeclaredTo[(n + 1) - 1], d)]
      BY <3>1, DeclaredDef
    <3>3. DeclaredTo[n + 1][c] = Over(DeclaredTo[(n + 1) - 1], c)
      BY <2>1, <3>1, <3>2
    <3> QED
      BY <3>1, <3>3
  <2> DEFINE D == DeclaredTo[n]
             Want(i) == CASE Decl[c][i].kind = "struct" -> D[Decl[c][i].cls]
                          [] Decl[c][i].kind = "switch" -> Cases([j \in DOMAIN Entries |-> D[Entries[j]]])
                          [] OTHER -> Scalar
  <2>5. ASSUME NEW i \in DOMAIN Decl[c] PROVE Want(i) = Part(attr, registry, Decl[c][i])
    <3>1. Ready(attr, registry, Decl[c][i])
      BY <2>1 DEF AllReady
    <3>2. CASE Decl[c][i].kind = "struct"
      <4>1. Decl[c][i].cls \in Filled(attr) /\ Inside(c, Decl[c][i].cls, registry)
        BY <2>1, <3>1, <3>2, SpecFacts DEF Ready, Filled, Inside
      <4> QED
        BY <2>3, <3>2, <4>1 DEF Part
    <3>3. CASE Decl[c][i].kind = "switch"
      <4>1. Entries = registry.list /\ \A j \in DOMAIN registry.list : registry.list[j] \in Classes
        BY <1>2, EntriesAreList DEF RegistryOk
      <4>2. \A j \in DOMAIN registry.list : registry.list[j] \in Filled(attr) /\ Inside(c, registry.list[j], registry)
        BY <3>1, <3>3, <4>1 DEF Ready, Filled, Inside, Range
      <4>3. [j \in DOMAIN Entries |-> D[Entries[j]]] = [j \in DOMAIN registry.list |-> attr[registry.list[j]].resolved]
        BY <2>3, <4>1, <4>2
      <4> QED
        BY <3>3, <4>3 DEF Part
    <3>4. CASE Decl[c][i].kind \notin {"struct", "switch"}
      BY <3>4 DEF Part
    <3> QED
      BY <3>2, <3>3, <3>4
  <2>6. Over(D, c) = Schema(c, c, [i \in DOMAIN Decl[c] |-> Want(i)])
    BY DEF Over
  <2> HIDE DEF Want, D
  <2>7. [i \in DOMAIN Decl[c] |-> Want(i)] = [i \in DOMAIN Decl[c] |-> Part(attr, registry, Decl[c][i])]
    BY <2>5
  <2> QED
    BY <2>1, <2>4, <2>6, <2>7 DEF OwnSchema, D
<1>5. Nat \subseteq S
  BY <1>3, <1>4, NatInductionOn
<1> QED
  BY <1>1, <1>5

\* Whichever threads resolve a class, what is cached on it and compiled into
\* its methods is its own schema as declared.
THEOREM SchemasStayWhole == ASSUME ~ConcurrentRegistration PROVE FrontSpec => []SchemasWhole
<1>1. FInv => SchemasWhole
  <2> SUFFICES ASSUME FInv PROVE SchemasWhole
    OBVIOUS
  <2> DEFINE N == Cardinality(Classes)
             declared == DeclaredTo[N]
  <2>1. PICK r \in [Classes -> Nat] : OrderOk(r, attr, registry)
    BY DEF FInv, Ordered
  <2>2. N \in Nat /\ Cardinality(Filled(attr)) \in Nat /\ Cardinality(Filled(attr)) <= N
    <3>1. Filled(attr) \subseteq Classes
      BY DEF Filled
    <3>2. IsFiniteSet(Filled(attr)) /\ Cardinality(Filled(attr)) <= N
      BY <3>1, FrontendAssumption, FS_Subset
    <3> QED
      BY <3>2, FrontendAssumption, FS_CardinalityType
  <2>3. ASSUME NEW c \in named, Cached(attr, c) PROVE attr[c].resolved = declared[c]
    <3>1. c \in Filled(attr) /\ r[c] \in Nat
      BY <2>3 DEF FInv, StoreOk, Filled
    <3>2. r[c] < N
      BY <2>1, <2>2, <3>1 DEF OrderOk
    <3> QED
      BY <2>1, <2>2, <3>1, <3>2, CachedAsDeclared
  <2> HIDE DEF declared
  <2>4. ASSUME NEW c \in named
        PROVE  /\ {attr[c].resolved, attr[c].codec} \ {NoSchema} \subseteq {declared[c]}
               /\ \A m \in Methods :
                    attr[c][m] = Trampoline(c) \/ (attr[c][m].cls = c /\ attr[c][m].schema = declared[c])
    <3>1. ClassOk(c, attr, registry, named)
      BY DEF FInv, StoreOk
    <3>2. {attr[c].resolved, attr[c].codec} \ {NoSchema} \subseteq {declared[c]}
      BY <2>3, <3>1 DEF ClassOk, Cached
    <3>3. \A m \in Methods : MethodOk(attr[c][m], attr, named) /\ attr[c][m].cls = c
      BY <3>1 DEF ClassOk
    <3>4. \A m \in Methods : attr[c][m] = Trampoline(c) \/ (attr[c][m].cls = c /\ Holds(attr, c, attr[c][m].schema))
      BY <3>3, MethodKinds
    <3> QED
      BY <2>3, <3>2, <3>4 DEF Holds
  <2> QED
    BY <2>4 DEF SchemasWhole, declared
<1> QED
  BY <1>1, FrontInvariance, PTL
==============================================================================
