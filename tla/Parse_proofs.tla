---------------------------- MODULE Parse_proofs ----------------------------
(***************************************************************************)
(* The opcode-list parser keeps to its caps and locates an error once, for *)
(* every object graph (cycles included), every cap and every spelling.     *)
(*                                                                         *)
(* Nothing is assumed of the objects: the proofs look only at the calls on *)
(* the stack.  Going down the stack the depth of the types grows strictly, *)
(* so that the types are told apart by their depths, of which the cap      *)
(* leaves finitely many; the same holds for the expressions on top.        *)
(***************************************************************************)
EXTENDS Parse, Stacks

TypeFns == {"field", "spec"}

\* A call under way: its fields, and how deep it may be.  A type or an
\* expression that has come past its entry is within the cap.
CallOk(f) ==
  /\ f \in [fn : {"fields", "cases", "field", "spec", "expr"}, obj : {f.obj}, depth : Nat, path : {f.path}, i : Nat]
  /\ Stack(f.path)
  /\ f.fn = "field" => f.path # <<>>
  /\ f.fn \in TypeFns => f.depth <= MAX_SCHEMA_DEPTH + 1 /\ (f.i > 0 => f.depth <= MAX_SCHEMA_DEPTH)
  /\ f.fn = "fields" => f.depth <= MAX_SCHEMA_DEPTH + 1
  /\ f.fn = "cases" => f.depth <= MAX_SCHEMA_DEPTH
  /\ f.fn = "expr" => f.depth <= MAX_EXPR_DEPTH + 1 /\ (f.i > 0 => f.depth <= MAX_EXPR_DEPTH)

\* What the depths of a call f and of a call g made below it satisfy.
Below(f, g) ==
  /\ f.fn \in TypeFns /\ g.fn \in TypeFns \cup {"fields"} => f.depth < g.depth
  /\ f.fn \in TypeFns /\ g.fn = "cases" => f.depth <= g.depth
  /\ f.fn = "expr" => g.fn = "expr" /\ f.depth < g.depth

CallsOk == Stack(stack) /\ \A k \in DOMAIN stack : CallOk(stack[k])
CallsNested == \A j, k \in DOMAIN stack : j < k => Below(stack[j], stack[k])

\* Until the error has met a field, the field to blame is still on the stack.
Located ==
  /\ status = "run" => where = Unlocated
  /\ status = "err" =>
       IF cause.verbatim THEN where = Unlocated
       ELSE IF where = Unlocated THEN blame = InnermostField
       ELSE where = blame

IInv == CallsOk /\ CallsNested /\ Located /\ LocatedOnce

-----------------------------------------------------------------------------
\* Going on with another frame of the same call.
LEMMA GotoOk ==
  ASSUME IInv, status = "run", stack # <<>>, NEW f, CallOk(f),
         f.fn = Top.fn, f.depth = Top.depth, Goto(f)
  PROVE  IInv'
<1>1. stack' = Append(Front(stack), f) /\ UNCHANGED <<status, cause, where, blame>>
  BY DEF Goto, Fine
<1>2. Stack(stack)
  BY DEF IInv, CallsOk
<1> DEFINE n == Len(stack)
<1>3. /\ n \in Nat /\ n >= 1 /\ DOMAIN stack = 1 .. n /\ Top = stack[n]
      /\ Stack(stack') /\ DOMAIN stack' = 1 .. n
      /\ \A i \in 1 .. (n - 1) : stack'[i] = stack[i]
      /\ stack'[n] = f
  BY <1>1, <1>2, StackPop, StackReplace DEF Top
<1> HIDE DEF n
<1>4. CallsOk'
  <2>1. \A k \in 1 .. n : CallOk(stack'[k])
    BY <1>3 DEF IInv, CallsOk
  <2> QED
    BY <1>3, <2>1 DEF CallsOk, CallOk
<1>5. CallsNested'
  <2>1. \A k \in 1 .. n : stack'[k].fn = stack[k].fn /\ stack'[k].depth = stack[k].depth
    BY <1>3
  <2> QED
    BY <1>3, <2>1 DEF IInv, CallsNested, Below
<1>6. Located' /\ LocatedOnce'
  BY <1>1 DEF IInv, Located, LocatedOnce
<1> QED
  BY <1>4, <1>5, <1>6 DEF IInv

\* The frame on top, typed.
LEMMA TopOk ==
  ASSUME IInv, stack # <<>>
  PROVE  /\ CallOk(Top) /\ Top.depth \in Nat /\ Top.i \in Nat
         /\ Len(stack) \in Nat /\ Len(stack) >= 1 /\ DOMAIN stack = 1 .. Len(stack)
         /\ Top = stack[Len(stack)]
<1>1. Stack(stack)
  BY DEF IInv, CallsOk
<1>2. Len(stack) \in Nat /\ Len(stack) >= 1 /\ DOMAIN stack = 1 .. Len(stack) /\ Top = stack[Len(stack)]
  BY <1>1, StackPop DEF Top
<1>3. CallOk(Top)
  BY <1>2 DEF IInv, CallsOk
<1> QED
  BY <1>2, <1>3 DEF CallOk

\* A call below the one on top.
LEMMA DescendOk ==
  ASSUME IInv, status = "run", stack # <<>>, NEW g, CallOk(Advance), CallOk(g), Below(Top, g),
         \A f : CallOk(f) /\ Below(f, Top) => Below(f, g), Descend(g)
  PROVE  IInv'
<1> DEFINE n == Len(stack)
           s == Append(Front(stack), Advance)
<1>1. stack' = Append(s, g) /\ UNCHANGED <<status, cause, where, blame>>
  BY StackDescend DEF Descend, Fine, IInv, CallsOk
<1>2. Stack(stack)
  BY DEF IInv, CallsOk
<1>3. /\ n \in Nat /\ n >= 1 /\ DOMAIN stack = 1 .. n /\ Top = stack[n]
      /\ Stack(s) /\ Len(s) = n
      /\ \A i \in 1 .. (n - 1) : s[i] = stack[i]
      /\ s[n] = Advance
  BY <1>2, StackPop, StackReplace DEF Top
<1>4. Advance.fn = Top.fn /\ Advance.depth = Top.depth
  BY TopOk DEF Advance, CallOk
<1> HIDE DEF n, s
<1>5. /\ Stack(stack') /\ DOMAIN stack' = 1 .. (n + 1)
      /\ \A i \in 1 .. n : stack'[i] = s[i]
      /\ stack'[n + 1] = g
  BY <1>1, <1>3, StackPush
<1>6. CallsOk'
  <2>1. \A k \in 1 .. (n + 1) : CallOk(stack'[k])
    BY <1>3, <1>5 DEF IInv, CallsOk
  <2> QED
    BY <1>5, <2>1 DEF CallsOk, CallOk
<1>7. CallsNested'
  <2>1. \A k \in 1 .. n : stack'[k].fn = stack[k].fn /\ stack'[k].depth = stack[k].depth
    BY <1>3, <1>4, <1>5
  <2>2. \A j, k \in 1 .. n : j < k => Below(stack'[j], stack'[k])
    BY <1>3, <2>1 DEF IInv, CallsNested, Below
  <2>3. \A j \in 1 .. n : Below(stack'[j], g)
    <3>1. \A j \in 1 .. n : Below(stack[j], g)
      BY <1>3 DEF IInv, CallsOk, CallsNested
    <3> QED
      BY <2>1, <3>1 DEF Below
  <2>4. \A j, k \in 1 .. (n + 1) : j < k => Below(stack'[j], stack'[k])
    BY <1>3, <1>5, <2>2, <2>3
  <2> QED
    BY <1>5, <2>4 DEF CallsNested, Below
<1>8. Located' /\ LocatedOnce'
  BY <1>1 DEF IInv, Located, LocatedOnce
<1> QED
  BY <1>6, <1>7, <1>8 DEF IInv

\* Taking the top off keeps the invariants about the calls.
LEMMA PopOk ==
  ASSUME IInv, stack # <<>>, stack' = Front(stack)
  PROVE  CallsOk' /\ CallsNested'
<1> DEFINE n == Len(stack)
<1>1. /\ n \in Nat /\ DOMAIN stack = 1 .. n
      /\ Stack(stack') /\ DOMAIN stack' = 1 .. (n - 1)
      /\ \A i \in 1 .. (n - 1) : stack'[i] = stack[i]
  BY StackPop DEF IInv, CallsOk
<1> HIDE DEF n
<1>2. \A i \in 1 .. (n - 1) : i \in 1 .. n
  BY <1>1
<1> QED
  BY <1>1, <1>2 DEF IInv, CallsOk, CallsNested, CallOk, Below

LEMMA ReturnOk ==
  ASSUME IInv, status = "run", stack # <<>>, Return
  PROVE  IInv'
<1>1. stack' = Front(stack) /\ UNCHANGED <<status, cause, where, blame>>
  BY DEF Return, Fine
<1>2. Located' /\ LocatedOnce'
  BY <1>1 DEF IInv, Located, LocatedOnce
<1> QED
  BY <1>1, <1>2, PopOk DEF IInv

\* An error is raised: the field to blame is the innermost one.
LEMMA FailWithOk ==
  ASSUME IInv, status = "run", NEW what, NEW hint, NEW verbatim, FailWith(what, hint, verbatim)
  PROVE  IInv'
<1>1. /\ status' = "err" /\ blame' = InnermostField
      /\ UNCHANGED <<stack, where>>
  BY DEF FailWith
<1>2. where' = Unlocated
  BY <1>1 DEF IInv, Located
<1>3. InnermostField' = InnermostField
  BY <1>1 DEF InnermostField
<1>4. Located' /\ LocatedOnce'
  BY <1>1, <1>2, <1>3 DEF Located, LocatedOnce
<1>5. CallsOk' /\ CallsNested'
  BY <1>1 DEF IInv, CallsOk, CallsNested
<1> QED
  BY <1>4, <1>5 DEF IInv

LEMMA FailOk == ASSUME IInv, status = "run", NEW what, Fail(what) PROVE IInv'
  BY FailWithOk DEF Fail

-----------------------------------------------------------------------------
\* A further turn of the call on top.
LEMMA AdvanceOk ==
  ASSUME IInv, stack # <<>>, Top.fn \in TypeFns => Top.depth <= MAX_SCHEMA_DEPTH,
         Top.fn = "expr" => Top.depth <= MAX_EXPR_DEPTH
  PROVE  CallOk(Advance) /\ Advance.fn = Top.fn /\ Advance.depth = Top.depth
<1>1. CallOk(Top) /\ Top.depth \in Nat /\ Top.i \in Nat
  BY TopOk
<1>2. Advance = [fn |-> Top.fn, obj |-> Top.obj, depth |-> Top.depth, path |-> Top.path, i |-> Top.i + 1]
  BY <1>1 DEF Advance, CallOk
<1> QED
  BY <1>1, <1>2 DEF CallOk

\* A call that has just been made.
LEMMA NewCallOk ==
  ASSUME NEW fn \in {"fields", "cases", "field", "spec", "expr"}, NEW obj, NEW depth \in Nat, NEW path, Stack(path),
         fn = "field" => path # <<>>,
         fn \in TypeFns \cup {"fields"} => depth <= MAX_SCHEMA_DEPTH + 1,
         fn = "cases" => depth <= MAX_SCHEMA_DEPTH,
         fn = "expr" => depth <= MAX_EXPR_DEPTH + 1
  PROVE  /\ CallOk(Call(fn, obj, depth, path))
         /\ Call(fn, obj, depth, path).fn = fn /\ Call(fn, obj, depth, path).depth = depth
  BY DEF CallOk, Call, TypeFns

LEMMA ParseFieldsOk == ASSUME IInv, ParseFields PROVE IInv'
<1>1. status = "run" /\ stack # <<>> /\ Top.fn = "fields"
  BY DEF ParseFields, Running
<1>2. CASE Top.obj.t \notin Iterable
  BY <1>1, <1>2, FailWithOk DEF ParseFields
<1>3. CASE Top.obj.t \in Iterable /\ Top.i = Len(Top.obj.of)
  BY <1>1, <1>3, ReturnOk DEF ParseFields
<1>4. CASE Top.obj.t \in Iterable /\ Top.i # Len(Top.obj.of)
  <2> DEFINE a == Top.obj.of[Top.i + 1]
             g == Call("field", Val("spec", <<a>>), Top.depth, Append(Top.path, a))
  <2>1. CASE heap[a].t # "field"
    BY <1>1, <1>4, <2>1, FailOk DEF ParseFields
  <2>2. CASE heap[a].t = "field"
    <3>1. Descend(g)
      BY <1>1, <1>4, <2>2 DEF ParseFields
    <3>2. CallOk(Top) /\ Top.depth \in Nat
      BY <1>1, TopOk
    <3>3. Top.depth <= MAX_SCHEMA_DEPTH + 1 /\ Stack(Append(Top.path, a)) /\ Append(Top.path, a) # <<>>
      BY <1>1, <3>2, StackPush DEF CallOk
    <3>4. CallOk(g) /\ g.fn = "field" /\ g.depth = Top.depth
      BY <3>2, <3>3 DEF CallOk, Call, TypeFns
    <3>5. CallOk(Advance)
      BY <1>1, AdvanceOk DEF TypeFns
    <3> HIDE DEF g
    <3>6. Below(Top, g) /\ \A f : Below(f, Top) => Below(f, g)
      BY <1>1, <3>4 DEF Below, TypeFns
    <3> QED
      BY <1>1, <3>1, <3>4, <3>5, <3>6, DescendOk
  <2> QED
    BY <2>1, <2>2
<1> QED
  BY <1>2, <1>3, <1>4

LEMMA ParseTypeOk == ASSUME IInv, ParseType PROVE IInv'
<1>1. status = "run" /\ stack # <<>> /\ Top.fn \in TypeFns
  BY DEF ParseType, Running, TypeFns
<1>2. \/ \E what, hint, verbatim : FailWith(what, hint, verbatim)
      \/ Top.depth <= MAX_SCHEMA_DEPTH /\ Goto(Advance)
  <2>1. ~TooDeep(Top.depth) => Top.depth <= MAX_SCHEMA_DEPTH
    BY <1>1, TopOk, ParseAssumption DEF TooDeep
  <2>2. \/ \E what, hint, verbatim : FailWith(what, hint, verbatim)
        \/ ~TooDeep(Top.depth) /\ Goto(Advance)
    BY Zenon DEF ParseType, Fail
  <2> QED
    BY <2>1, <2>2
<1>3. CASE \E what, hint, verbatim : FailWith(what, hint, verbatim)
  BY <1>1, <1>3, FailWithOk
<1>4. CASE Top.depth <= MAX_SCHEMA_DEPTH /\ Goto(Advance)
  <2>1. CallOk(Advance) /\ Advance.fn = Top.fn /\ Advance.depth = Top.depth
    BY <1>1, <1>4, AdvanceOk DEF TypeFns
  <2> QED
    BY <1>1, <1>4, <2>1, GotoOk
<1> QED
  BY <1>2, <1>3, <1>4

Segments == {"[]", "?default"}

\* The calls the option parsers make, by the parser.
LEMMA OptionCalls ==
  ASSUME NEW p \in DOMAIN Descends
  PROVE  /\ p \in {"p_expr", "p_fields", "p_elem", "p_then", "p_default", "p_cases"}
         /\ Descends[p] = "expr" <=> p = "p_expr"
         /\ Descends[p] = "fields" <=> p = "p_fields"
         /\ Descends[p] = "cases" <=> p = "p_cases"
         /\ Descends[p] \in {"expr", "fields", "cases", "spec"}
         /\ Deeper[p] = IF p \in {"p_expr", "p_cases"} THEN 0 ELSE 1
         /\ Segment[p] \in Seq(Segments)
<1>1. p \in {"p_expr", "p_fields", "p_elem", "p_then", "p_default", "p_cases"}
  BY DEF Descends
<1>2. /\ Descends[p] = "expr" <=> p = "p_expr"
      /\ Descends[p] = "fields" <=> p = "p_fields"
      /\ Descends[p] = "cases" <=> p = "p_cases"
      /\ Descends[p] \in {"expr", "fields", "cases", "spec"}
  BY <1>1 DEF Descends
<1>3. Deeper[p] = IF p \in {"p_expr", "p_cases"} THEN 0 ELSE 1
  BY <1>1 DEF Deeper
<1>4. Segment[p] \in {<<>>, <<"[]">>, <<"?default">>}
  BY <1>1 DEF Segment
<1>5. <<>> \in Seq(Segments) /\ <<"[]">> \in Seq(Segments) /\ <<"?default">> \in Seq(Segments)
  BY DEF Segments
<1>6. Segment[p] \in Seq(Segments)
  BY <1>4, <1>5, Zenon
<1> QED
  BY <1>1, <1>2, <1>3, <1>6

\* A path goes on with the segment of an option.
LEMMA PathOk ==
  ASSUME NEW path, Stack(path), NEW more \in Seq(Segments)
  PROVE  Stack(path \o more)
<1> DEFINE S == Range(path) \cup Segments
<1>1. path \in Seq(S) /\ more \in Seq(S)
  BY SeqMonotonic DEF Stack
<1> HIDE DEF S
<1>2. path \o more \in Seq(S)
  BY <1>1, ConcatProperties
<1> QED
  BY <1>2, IsStack

LEMMA BindOptionOk == ASSUME IInv, BindOption PROVE IInv'
<1>1. status = "run" /\ stack # <<>> /\ Top.fn \in TypeFns /\ Top.i > 0
  BY DEF BindOption, Running, TypeFns
<1>2. CallOk(Top) /\ Top.depth \in Nat /\ Top.depth <= MAX_SCHEMA_DEPTH
  BY <1>1, TopOk DEF CallOk
<1>3. CallOk(Advance) /\ Advance.fn = Top.fn /\ Advance.depth = Top.depth
  BY <1>1, <1>2, AdvanceOk DEF TypeFns
<1> DEFINE o == heap[Top.obj.of[1]]
           opt == Kinds[o.kind][Top.i]
           v == o.opts[opt.key]
           depth == IF opt.parse = "p_expr" THEN 0 ELSE Top.depth + Deeper[opt.parse]
           g == Call(Descends[opt.parse], v, depth, Top.path \o Segment[opt.parse])
<1>4. \/ \E what, hint, verbatim : FailWith(what, hint, verbatim)
      \/ Goto(Advance)
      \/ opt.parse \in DOMAIN Descends /\ Descend(g)
  BY DEF BindOption, Fail
<1>5. CASE \E what, hint, verbatim : FailWith(what, hint, verbatim)
  BY <1>1, <1>5, FailWithOk
<1>6. CASE Goto(Advance)
  BY <1>1, <1>3, <1>6, GotoOk
<1>7. CASE opt.parse \in DOMAIN Descends /\ Descend(g)
  <2> HIDE DEF opt, v
  <2>1. /\ Descends[opt.parse] \in {"expr", "fields", "cases", "spec"} /\ depth \in Nat
        /\ depth = IF Descends[opt.parse] = "expr" THEN 0
                   ELSE IF Descends[opt.parse] = "cases" THEN Top.depth ELSE Top.depth + 1
    BY <1>2, <1>7, OptionCalls
  <2>2. Stack(Top.path \o Segment[opt.parse])
    BY <1>2, <1>7, OptionCalls, PathOk DEF CallOk
  <2> HIDE DEF depth
  <2>3. CallOk(g) /\ g.fn = Descends[opt.parse] /\ g.depth = depth
    BY <1>2, <2>1, <2>2, NewCallOk, ParseAssumption DEF TypeFns
  <2> HIDE DEF g
  <2>4. Below(Top, g)
    BY <1>1, <1>2, <2>1, <2>3 DEF Below, TypeFns
  <2>5. ASSUME NEW f, CallOk(f), Below(f, Top) PROVE Below(f, g)
    <3>1. f.fn \in TypeFns => f.depth < Top.depth
      BY <1>1, <2>5 DEF Below
    <3>2. f.fn # "expr"
      BY <1>1, <2>5 DEF Below, TypeFns
    <3>3. f.fn \in TypeFns => f.depth < Top.depth + 1 /\ f.depth <= Top.depth
      BY <1>2, <2>5, <3>1 DEF CallOk
    <3> QED
      BY <2>1, <2>3, <3>1, <3>2, <3>3 DEF Below, TypeFns
  <2> QED
    BY <1>1, <1>3, <1>7, <2>3, <2>4, <2>5, DescendOk
<1> QED
  BY <1>4, <1>5, <1>6, <1>7

LEMMA BuildTypeOk == ASSUME IInv, BuildType PROVE IInv'
  BY ReturnOk, FailOk DEF BuildType, Running

LEMMA ParseCasesOk == ASSUME IInv, ParseCases PROVE IInv'
<1>1. status = "run" /\ stack # <<>> /\ Top.fn = "cases"
  BY DEF ParseCases, Running
<1> DEFINE a == Top.obj.of[Top.i + 1]
           g == Call("spec", heap[a].opts["spec"], Top.depth + 1, Append(Top.path, a))
<1>2. (\E what, hint, verbatim : FailWith(what, hint, verbatim)) \/ Return \/ Descend(g)
  BY Zenon DEF ParseCases, Fail
<1>3. CASE (\E what, hint, verbatim : FailWith(what, hint, verbatim)) \/ Return
  BY <1>1, <1>3, FailWithOk, ReturnOk
<1>4. CASE Descend(g)
  <2>1. CallOk(Top) /\ Top.depth \in Nat
    BY <1>1, TopOk
  <2>2. Top.depth <= MAX_SCHEMA_DEPTH /\ Stack(Append(Top.path, a))
    BY <1>1, <2>1, StackPush DEF CallOk
  <2>3. CallOk(g) /\ g.fn = "spec" /\ g.depth = Top.depth + 1
    BY <2>1, <2>2, ParseAssumption DEF CallOk, Call, TypeFns
  <2>4. CallOk(Advance)
    BY <1>1, AdvanceOk DEF TypeFns
  <2> HIDE DEF g
  <2>5. Below(Top, g) /\ \A f : CallOk(f) /\ Below(f, Top) => Below(f, g)
    BY <1>1, <2>1, <2>3 DEF Below, TypeFns, CallOk
  <2> QED
    BY <1>1, <1>4, <2>3, <2>4, <2>5, DescendOk
<1> QED
  BY <1>2, <1>3, <1>4

LEMMA ParseExprOk == ASSUME IInv, ParseExpr PROVE IInv'
<1>1. status = "run" /\ stack # <<>> /\ Top.fn = "expr"
  BY DEF ParseExpr, Running
<1> DEFINE g == Call("expr", heap[Top.obj.of[Top.i + 1]].opts["value"], Top.depth + 1, Top.path)
<1>2. (\E what, hint, verbatim : FailWith(what, hint, verbatim)) \/ Return \/ (~(Top.depth > MAX_EXPR_DEPTH) /\ Descend(g))
  BY Zenon DEF ParseExpr, Fail
<1>3. CASE (\E what, hint, verbatim : FailWith(what, hint, verbatim)) \/ Return
  BY <1>1, <1>3, FailWithOk, ReturnOk
<1>4. CASE ~(Top.depth > MAX_EXPR_DEPTH) /\ Descend(g)
  <2>1. CallOk(Top) /\ Top.depth \in Nat /\ Top.depth <= MAX_EXPR_DEPTH
    BY <1>1, <1>4, TopOk, ParseAssumption
  <2>2. Stack(Top.path)
    BY <2>1 DEF CallOk
  <2>3. CallOk(g) /\ g.fn = "expr" /\ g.depth = Top.depth + 1
    BY <2>1, <2>2, ParseAssumption DEF CallOk, Call, TypeFns
  <2>4. CallOk(Advance)
    BY <1>1, <2>1, AdvanceOk DEF TypeFns
  <2> HIDE DEF g
  <2>5. Below(Top, g) /\ \A f : CallOk(f) /\ Below(f, Top) => Below(f, g)
    BY <1>1, <2>1, <2>3 DEF Below, TypeFns, CallOk
  <2> QED
    BY <1>1, <1>4, <2>3, <2>4, <2>5, DescendOk
<1> QED
  BY <1>2, <1>3, <1>4

-----------------------------------------------------------------------------
\* The innermost field is the call on top if that is a field, and that of the
\* calls below it otherwise.
LEMMA InnermostOk ==
  ASSUME IInv, stack # <<>>, stack' = Front(stack)
  PROVE  /\ Top.fn = "field" => InnermostField = Top.path
         /\ Top.fn # "field" => InnermostField' = InnermostField
<1> DEFINE n == Len(stack)
           fields == {i \in DOMAIN stack : stack[i].fn = "field"}
           after == {i \in DOMAIN stack' : stack'[i].fn = "field"}
           pick(F) == CHOOSE i \in F : \A j \in F : j <= i
           c == pick(fields)
<1>1. /\ n \in Nat /\ n >= 1 /\ DOMAIN stack = 1 .. n /\ Top = stack[n]
      /\ DOMAIN stack' = 1 .. (n - 1)
      /\ \A i \in 1 .. (n - 1) : stack'[i] = stack[i]
  BY StackPop DEF IInv, CallsOk, Top
<1>2. InnermostField = IF fields = {} THEN Unlocated ELSE stack[c].path
  BY DEF InnermostField, Path
<1> HIDE DEF n
<1>3. fields # {} => c \in fields /\ \A j \in fields : j <= c
  <2>1. fields \in SUBSET Nat /\ \A m \in fields : m <= n
    BY <1>1
  <2>2. fields # {} => \E i \in fields : \A j \in fields : j <= i
    BY <1>1, <2>1, GreatestNat
  <2> HIDE DEF fields
  <2> QED
    BY <2>2
<1>4. ASSUME Top.fn = "field" PROVE InnermostField = Top.path
  <2>1. n \in fields
    BY <1>1, <1>4
  <2>2. c = n
    BY <1>1, <1>3, <2>1
  <2> QED
    BY <1>1, <1>2, <2>1, <2>2
<1>5. ASSUME Top.fn # "field" PROVE InnermostField' = InnermostField
  <2>1. after = fields
    BY <1>1, <1>5
  <2>2. InnermostField' = IF after = {} THEN Unlocated ELSE stack'[pick(after)].path
    BY DEF InnermostField, Path, Unlocated
  <2>3. fields # {} => c \in 1 .. (n - 1)
    BY <1>1, <1>3, <1>5
  <2> HIDE DEF after, fields, pick
  <2>4. InnermostField' = IF fields = {} THEN Unlocated ELSE stack'[c].path
    BY <2>1, <2>2, Zenon
  <2> HIDE DEF c
  <2> QED
    BY <1>1, <1>2, <2>3, <2>4
<1> QED
  BY <1>4, <1>5

LEMMA UnwindOk == ASSUME IInv, Unwind PROVE IInv'
<1>1. /\ status = "err" /\ stack # <<>> /\ stack' = Front(stack)
      /\ where' = IF Top.fn = "field" THEN locate(Top.path) ELSE where
      /\ UNCHANGED <<status, cause, blame>>
  BY DEF Unwind, Path
<1>2. CallsOk' /\ CallsNested'
  BY <1>1, PopOk
<1>3. Located'
  <2>1. Top.fn = "field" => Top.path # Unlocated
    BY <1>1, TopOk DEF CallOk, Unlocated
  <2>2. /\ Top.fn = "field" => InnermostField = Top.path
        /\ Top.fn # "field" => InnermostField' = InnermostField
    BY <1>1, InnermostOk
  <2>3. Unlocated' = Unlocated
    BY DEF Unlocated
  <2> QED
    BY <1>1, <2>1, <2>2, <2>3 DEF IInv, Located, locate
<1>4. LocatedOnce'
  BY <1>1 DEF LocatedOnce
<1> QED
  BY <1>2, <1>3, <1>4 DEF IInv

LEMMA FinishOk == ASSUME IInv, Finish PROVE IInv'
<1>1. /\ stack = <<>> /\ status \in {"run", "err"}
      /\ status' = IF status = "run" THEN "ok" ELSE "failed"
      /\ UNCHANGED <<stack, cause, where, blame>>
  BY DEF Finish
<1>2. InnermostField = Unlocated
  BY <1>1 DEF InnermostField
<1>3. Located' /\ LocatedOnce'
  BY <1>1, <1>2 DEF IInv, Located, LocatedOnce, Unlocated
<1> QED
  BY <1>1, <1>3 DEF IInv, CallsOk, CallsNested

LEMMA InitOk == ASSUME ParseInit PROVE IInv
<1> DEFINE f == Call("fields", heap["root"].opts["fields"], 0, <<>>)
<1>1. stack = <<f>> /\ status = "run" /\ where = Unlocated
  BY DEF ParseInit
<1>2. Stack(<<>>)
  BY DEF Stack, Range
<1>3. CallOk(f)
  BY <1>2, ParseAssumption DEF CallOk, Call, TypeFns
<1>4. Stack(stack) /\ DOMAIN stack = {1} /\ stack[1] = f
  <2> HIDE DEF f
  <2>1. stack \in Seq({f}) /\ DOMAIN stack = {1} /\ stack[1] = f
    BY <1>1
  <2> QED
    BY <2>1, IsStack
<1> HIDE DEF f
<1> QED
  BY <1>1, <1>3, <1>4 DEF IInv, CallsOk, CallsNested, Located, LocatedOnce

LEMMA StepOk == ASSUME IInv, [ParseNext]_vars PROVE IInv'
<1>1. CASE UNCHANGED vars
  BY <1>1 DEF IInv, CallsOk, CallsNested, Located, LocatedOnce, InnermostField, vars
<1>2. CASE ParseStep
  BY <1>2, ParseFieldsOk, ParseTypeOk, BindOptionOk, BuildTypeOk, ParseCasesOk, ParseExprOk, UnwindOk, FinishOk
     DEF ParseStep
<1> QED
  BY <1>1, <1>2 DEF ParseNext, Over

\* The calls on the stack are nested and within the caps, and an error that
\* has been located was located at the field to blame, whatever objects
\* compile() is given.
THEOREM ParseInvariance == ParseSpec => []IInv
  BY InitOk, StepOk, PTL DEF ParseSpec

\* Types are told apart by their depths, and so are expressions.
LEMMA NestedBounded == ASSUME IInv PROVE StackBounded
<1> DEFINE types == {i \in DOMAIN stack : stack[i].fn \in {"field", "spec"}}
           exprs == {i \in DOMAIN stack : stack[i].fn = "expr"}
           depth == [i \in DOMAIN stack |-> stack[i].depth]
<1>1. DOMAIN stack \subseteq Nat
  <2>1. stack \in Seq(Range(stack))
    BY DEF IInv, CallsOk, Stack
  <2> QED
    BY <2>1, LenProperties
<1>2. \A i \in types : depth[i] \in 0 .. (MAX_SCHEMA_DEPTH + 1)
  BY ParseAssumption DEF IInv, CallsOk, CallOk, TypeFns
<1>3. \A i, j \in types : i # j => depth[i] # depth[j]
  <2>1. \A i, j \in types : i < j => depth[i] < depth[j]
    BY DEF IInv, CallsNested, Below, TypeFns
  <2> QED
    BY <1>1, <1>2, <2>1
<1>4. \A i \in exprs : depth[i] \in 0 .. (MAX_EXPR_DEPTH + 1)
  BY ParseAssumption DEF IInv, CallsOk, CallOk
<1>5. \A i, j \in exprs : i # j => depth[i] # depth[j]
  <2>1. \A i, j \in exprs : i < j => depth[i] < depth[j]
    BY DEF IInv, CallsNested, Below
  <2> QED
    BY <1>1, <1>4, <2>1
<1> HIDE DEF types, exprs, depth
<1>6. Cardinality(types) <= MAX_SCHEMA_DEPTH + 1 + 1
  BY <1>2, <1>3, DistinctBounded, ParseAssumption
<1>7. Cardinality(exprs) <= MAX_EXPR_DEPTH + 1 + 1
  BY <1>4, <1>5, DistinctBounded, ParseAssumption
<1>8. Cardinality(types) <= MAX_SCHEMA_DEPTH + 2 /\ Cardinality(exprs) <= MAX_EXPR_DEPTH + 2
  BY <1>6, <1>7, ParseAssumption
<1> QED
  BY <1>8 DEF StackBounded, types, exprs

\* parse.rs never has more calls under way than its two caps allow, for every
\* object graph: also one that holds itself.
THEOREM CapsHold == ParseSpec => []StackBounded
<1>1. IInv => StackBounded
  BY NestedBounded
<1> QED
  BY <1>1, ParseInvariance, PTL

\* The error a caller of compile() sees names the innermost field it was
\* raised in.
THEOREM ErrorsLocated == ParseSpec => []LocatedOnce
<1>1. IInv => LocatedOnce
  BY DEF IInv
<1> QED
  BY <1>1, ParseInvariance, PTL
=============================================================================
