------------------------------- MODULE Parse --------------------------------
(***************************************************************************)
(* The opcode-list parser (rustruct-py/src/parse.rs): Python tuples, lists *)
(* and dicts of a schema to TypeIn, as a machine whose stack is that of    *)
(* the mutually recursive functions.  The objects form a graph: a list or  *)
(* a dict may hold itself, so nothing but the depth cap ends the descent.  *)
(* Values are kept by what the parsers tell apart, names by their letters  *)
(* where a typo is looked up.                                              *)
(***************************************************************************)
EXTENDS Integers, Sequences, FiniteSets, SequencesExt

CONSTANTS
  MAX_SCHEMA_DEPTH, MAX_EXPR_DEPTH,
  Heaps,       \* the object graphs: a function from addresses to objects each
  Words,       \* spellings of an option the schema's author got wrong
  Spelling     \* [option names -> Seq of letters]

ASSUME ParseAssumption == MAX_SCHEMA_DEPTH \in Nat /\ MAX_EXPR_DEPTH \in Nat

VARIABLES
  heap,     \* the objects compile() was given; "root" is the fields argument
  typo,     \* how the option "typo" of a heap is spelled
  stack,    \* the calls under way, innermost last
  status,   \* "run", "err" while an error unwinds, "ok" and "failed" at the end
  cause,    \* what went wrong, the option suggested, and whether locate hands
            \* the error on as it is: no SchemaError, or " (at " in its text
  where,    \* the path an error message carries, or Unlocated
  blame     \* the path of the innermost field when the error was raised

vars == <<heap, typo, stack, status, cause, where, blame>>

\* The path of no field.
Unlocated == <<>>
-----------------------------------------------------------------------------
(***************************************************************************)
(* distance and nearest: the suggestion for a misspelled option.           *)
(***************************************************************************)
Least(S) == CHOOSE x \in S : \A y \in S : x <= y

UpTo(n) == [i \in 1 .. n |-> i]

\* Mutant: the swap looks back one row, not two.
NextRow_OneBack(a, b, i, before, previous) ==
  FoldLeft(LAMBDA current, j :
             LET swapped == i > 1 /\ j > 1 /\ a[i] = b[j - 1] /\ a[i - 1] = b[j] IN
             Append(current,
                    Least({previous[j] + (IF a[i] # b[j] THEN 1 ELSE 0), previous[j + 1] + 1, current[j] + 1}
                            \cup (IF swapped THEN {previous[j - 1] + 1} ELSE {}))),
           <<i>>, UpTo(Len(b)))

\* One row, column 0 first, from the row before it and the one before that.
NextRow(a, b, i, before, previous) ==
  FoldLeft(LAMBDA current, j :
             LET swapped == i > 1 /\ j > 1 /\ a[i] = b[j - 1] /\ a[i - 1] = b[j] IN
             Append(current,
                    Least({previous[j] + (IF a[i] # b[j] THEN 1 ELSE 0), previous[j + 1] + 1, current[j] + 1}
                            \cup (IF swapped THEN {before[j - 1] + 1} ELSE {}))),
           <<i>>, UpTo(Len(b)))

\* The rows rotate: of the matrix, only the last two are kept.
distance(a, b) ==
  LET first == [before |-> [j \in 1 .. Len(b) + 1 |-> 0], previous |-> [j \in 1 .. Len(b) + 1 |-> j - 1]]
      rotate(rows, i) == [before |-> rows.previous, previous |-> NextRow(a, b, i, rows.before, rows.previous)]
  IN Last(FoldLeft(rotate, first, UpTo(Len(a))).previous)

\* The score of a candidate, 2 * shared / (len + len), as a fraction.
Longer(a, b) == IF Len(a) > Len(b) THEN Len(a) ELSE Len(b)
Shared(d, a, b) == IF d > Longer(a, b) THEN 0 ELSE Longer(a, b) - d
Score(d, a, b) == [num |-> 2 * Shared(d, a, b), den |-> IF Len(a) + Len(b) = 0 THEN 1 ELSE Len(a) + Len(b)]
Above(s, r) == s.num * r.den > r.num * s.den
Cutoff == [num |-> 6, den |-> 10]

\* The first of the best-scoring names among those at or above the cutoff.
nearest(word, allowed) ==
  LET scored == [i \in DOMAIN allowed |->
                   [name |-> allowed[i], score |-> Score(distance(word, Spelling[allowed[i]]), word, Spelling[allowed[i]])]]
      better(best, c) == IF ~Above(Cutoff, c.score) /\ Above(c.score, best.score) THEN c ELSE best
  IN FoldLeft(better, [name |-> "none", score |-> [num |-> 0, den |-> 1]], scored).name
-----------------------------------------------------------------------------
(***************************************************************************)
(* The kind table: for each kind its options, in the order they are bound. *)
(***************************************************************************)
Req(key, parse) == [key |-> key, required |-> TRUE, parse |-> parse]
Opt(key, parse) == [key |-> key, required |-> FALSE, parse |-> parse]

Kinds ==
  [int |-> <<Opt("byteorder", "p_byteorder"), Opt("const", "p_i128")>>,
   float |-> <<Opt("byteorder", "p_byteorder")>>,
   bool |-> <<Opt("const", "p_bool")>>,
   raw |-> <<Opt("len", "p_usize"), Opt("const", "p_bytes")>>,
   bytes |-> <<Req("len", "p_expr"), Opt("max", "p_usize")>>,
   str |-> <<Req("len", "p_expr"), Opt("max", "p_usize"), Opt("encoding", "p_string"), Opt("errors", "p_string")>>,
   cstr |-> <<Opt("max", "p_usize"), Opt("encoding", "p_string"), Opt("errors", "p_string")>>,
   bits |-> <<Req("width", "p_width"), Opt("signed", "p_bool")>>,
   flags |-> <<Req("base", "p_prim"), Req("names", "p_names"), Opt("rest", "p_string"),
               Opt("byteorder", "p_byteorder")>>,
   digest |-> <<Req("algo", "p_string"), Req("over", "p_over"), Opt("verify", "p_bool"), Opt("poly", "p_u64"),
                Opt("init", "p_u64"), Opt("xorout", "p_u64"), Opt("refin", "p_bool"), Opt("refout", "p_bool")>>,
   struct |-> <<Req("fields", "p_fields"), Opt("byteorder", "p_byteorder"), Opt("size", "p_expr")>>,
   array |-> <<Req("elem", "p_elem"), Opt("count", "p_expr"), Opt("until_eof", "p_bool")>>,
   switch |-> <<Req("on", "p_expr"), Req("cases", "p_cases"), Opt("default", "p_default")>>,
   cond |-> <<Req("pred", "p_expr"), Req("then", "p_then")>>]

AllowedKeys(kind) == [i \in DOMAIN Kinds[kind] |-> Kinds[kind][i].key]

\* A Python value: its type, with strings and numbers split where a parser
\* splits them, and what it holds.  "surrogate" is a str that is not UTF-8,
\* "raising" an iterable whose iterator raises.
Val(t, of) == [t |-> t, of |-> of]
Strings == {"star", "word", "order", "prim"}    \* "*", a word, a byte order, an integer kind

p_over == {"star", "words", "empty"}
p_names == {"pairs", "empty"}

Iterable == {"fields", "cases", "empty"}

\* What the parsers that read one value accept (a Python bool is an int).
Leaves ==
  [p_bool |-> {"true", "false"},
   p_usize |-> {"true", "false", "zero", "small"}, p_u64 |-> {"true", "false", "zero", "small"},
   p_i128 |-> {"true", "false", "zero", "small", "negative", "huge"},
   p_bytes |-> {"bytes", "empty"}, p_string |-> Strings, p_byteorder |-> {"order"}, p_prim |-> {"prim"},
   p_width |-> {"true", "small"}, p_over |-> p_over, p_names |-> p_names]

\* A list or a tuple of nothing is iterated, and extracted, whatever it is for.
Accepts(v, parse) ==
  v.t \in Leaves[parse] \/ (v.of = <<>> /\ v.t \in Iterable /\ "empty" \in Leaves[parse])

\* Where Python's own error comes out of to_str()? and n?, not a SchemaError.
Foreign(v, parse) ==
  \/ v.t = "surrogate" /\ parse \in {"p_over", "p_expr"}
  \/ v.t = "raising" /\ parse \in {"p_over", "p_names", "p_fields", "p_cases"}

\* How a parser descends: the call it makes, how deep and under what name.
Descends ==
  [p_expr |-> "expr", p_fields |-> "fields", p_elem |-> "spec", p_then |-> "spec", p_default |-> "spec",
   p_cases |-> "cases"]
\* Mutant: a when's `then`, which has its field's name, has its depth too.
Deeper_NotThen ==
  [p_expr |-> 0, p_fields |-> 1, p_elem |-> 1, p_then |-> 0, p_default |-> 1, p_cases |-> 0]
Deeper == [p_expr |-> 0, p_fields |-> 1, p_elem |-> 1, p_then |-> 1, p_default |-> 1, p_cases |-> 0]
Segment ==
  [p_expr |-> <<>>, p_fields |-> <<>>, p_elem |-> <<"[]">>, p_then |-> <<>>, p_default |-> <<"?default">>,
   p_cases |-> <<>>]
Call(fn, obj, depth, path) == [fn |-> fn, obj |-> obj, depth |-> depth, path |-> path, i |-> 0]
Top == Last(stack)
Path(ctx) == ctx.path
-----------------------------------------------------------------------------
(***************************************************************************)
(* Control: go on, descend, return, fail.                                  *)
(***************************************************************************)
Keep == <<heap, typo>>
Fine == <<status, cause, where, blame>>

Goto(f) == stack' = Append(Front(stack), f) /\ UNCHANGED <<Keep, Fine>>
Advance == [Top EXCEPT !.i = @ + 1]
Descend(g) == stack' = Front(stack) \o <<Advance, g>> /\ UNCHANGED <<Keep, Fine>>
Return == stack' = Front(stack) /\ UNCHANGED <<Keep, Fine>>

InnermostField ==
  LET fields == {i \in DOMAIN stack : stack[i].fn = "field"} IN
  IF fields = {} THEN Unlocated ELSE Path(stack[CHOOSE i \in fields : \A j \in fields : j <= i])

NoCause == [what |-> "none", hint |-> "none", verbatim |-> FALSE]

FailWith(what, hint, verbatim) ==
  /\ status' = "err" /\ blame' = InnermostField
  /\ cause' = [what |-> what, hint |-> hint, verbatim |-> verbatim]
  /\ UNCHANGED <<stack, where, Keep>>
Fail(what) == FailWith(what, "none", FALSE)

Running(fns) == status = "run" /\ stack # <<>> /\ Top.fn \in fns
-----------------------------------------------------------------------------
(***************************************************************************)
(* The parsers.                                                            *)
(***************************************************************************)
\* parse_fields: an iterable of fields.
ParseFields ==
  /\ Running({"fields"})
  /\ IF Top.obj.t \notin Iterable THEN FailWith("shape", "none", Foreign(Top.obj, "p_fields"))
     ELSE IF Top.i = Len(Top.obj.of) THEN Return
     ELSE LET a == Top.obj.of[Top.i + 1] IN
          IF heap[a].t # "field" THEN Fail("shape")
          ELSE Descend(Call("field", Val("spec", <<a>>), Top.depth, Append(Top.path, a)))

\* parse_type_spec or parse_field, down to the kind, its depth and its keys.
\* Opts that are no dict fail like a kind that is no name.
\* Mutant: check_keys skips an option that carries None.
Unknown_NotNone(o) ==
  {k \in DOMAIN o.opts : o.opts[k].t # "none" /\ \A i \in DOMAIN Kinds[o.kind] : Kinds[o.kind][i].key # k}
Unknown(o) == {k \in DOMAIN o.opts : \A i \in DOMAIN Kinds[o.kind] : Kinds[o.kind][i].key # k}
TooDeep(depth) == depth > MAX_SCHEMA_DEPTH
AtText == " (at "

ParseType ==
  /\ Running({"field", "spec"}) /\ Top.i = 0
  /\ IF Top.obj.t # "spec" \/ heap[Top.obj.of[1]].t # Top.fn THEN Fail("shape")
     ELSE LET o == heap[Top.obj.of[1]] IN
          IF TooDeep(Top.depth) THEN Fail("depth")
          ELSE IF o.kind \notin DOMAIN Kinds THEN FailWith("kind", "none", o.kind = AtText)
          ELSE IF Unknown(o) # {}
          THEN FailWith("option", nearest(typo, AllowedKeys(o.kind)), AtText \in ToSet(typo))
          ELSE Goto(Advance)

\* bind!: the next option of the table; None is as good as not given.
Given(o, key) == key \in DOMAIN o.opts /\ o.opts[key].t # "none"

BindOption ==
  /\ Running({"field", "spec"}) /\ Top.i > 0
  /\ LET o == heap[Top.obj.of[1]]
         opt == Kinds[o.kind][Top.i]
         v == o.opts[opt.key]
     IN /\ Top.i <= Len(Kinds[o.kind])
        /\ IF ~Given(o, opt.key) THEN IF opt.required THEN Fail("required") ELSE Goto(Advance)
           ELSE IF opt.parse \in DOMAIN Descends
           THEN Descend(Call(Descends[opt.parse], v,
                             IF opt.parse = "p_expr" THEN 0 ELSE Top.depth + Deeper[opt.parse],
                             Top.path \o Segment[opt.parse]))
           ELSE IF Accepts(v, opt.parse) THEN Goto(Advance) ELSE FailWith("value", "none", Foreign(v, opt.parse))

\* extent: an array has a count or runs to the end, not both.
Extent(o) ==
  o.kind = "array" => (Given(o, "count") # (Given(o, "until_eof") /\ o.opts["until_eof"].t = "true"))

BuildType ==
  /\ Running({"field", "spec"}) /\ Top.i > 0
  /\ LET o == heap[Top.obj.of[1]] IN
       /\ Top.i > Len(Kinds[o.kind])
       /\ IF Extent(o) THEN Return ELSE Fail("extent")

\* p_cases: (int, (kind, opts)) pairs.
\* Mutant: the same pair is read again and again.
ParseCases_Stuck ==
  /\ Running({"cases"})
  /\ IF Top.obj.t \notin Iterable THEN Fail("shape")
     ELSE IF Top.i = Len(Top.obj.of) THEN Return
     ELSE LET a == Top.obj.of[Top.i + 1] IN
          IF heap[a].t # "case" \/ heap[a].kind # "int" THEN Fail("shape")
          ELSE /\ stack' = Append(stack, Call("spec", heap[a].opts["spec"], Top.depth + 1, Append(Top.path, a)))
               /\ UNCHANGED <<Keep, Fine>>
ParseCases ==
  /\ Running({"cases"})
  /\ IF Top.obj.t \notin Iterable THEN FailWith("shape", "none", Foreign(Top.obj, "p_cases"))
     ELSE IF Top.i = Len(Top.obj.of) THEN Return
     ELSE LET a == Top.obj.of[Top.i + 1] IN
          IF heap[a].t # "case" \/ heap[a].kind # "int" THEN Fail("shape")
          ELSE Descend(Call("spec", heap[a].opts["spec"], Top.depth + 1, Append(Top.path, a)))

\* expr: int | "*" | ("ref", name) | (op, a, b)
ParseExpr ==
  /\ Running({"expr"})
  /\ LET v == Top.obj IN
       IF Top.depth > MAX_EXPR_DEPTH THEN Fail("depth")
       ELSE IF v.t \in {"star", "zero", "small", "negative", "ref"} THEN Return
       ELSE IF v.t # "bin" THEN FailWith("value", "none", Foreign(v, "p_expr"))
       ELSE IF Top.i = Len(v.of) THEN Return
       ELSE Descend(Call("expr", heap[v.of[Top.i + 1]].opts["value"], Top.depth + 1, Top.path))

\* The error leaves the calls one by one; parse_field says where, once.
\* It tells a located message by " (at " in its text, and lets what is not a
\* SchemaError pass.
\* Mutant: the path is added by every field the error passes.
locate_Always(path) == path
locate(path) == IF where # Unlocated \/ cause.verbatim THEN where ELSE path

Unwind ==
  /\ status = "err" /\ stack # <<>>
  /\ where' = IF Top.fn = "field" THEN locate(Path(Top)) ELSE where
  /\ stack' = Front(stack)
  /\ UNCHANGED <<Keep, status, cause, blame>>

Finish ==
  /\ stack = <<>> /\ status \in {"run", "err"}
  /\ status' = IF status = "run" THEN "ok" ELSE "failed"
  /\ UNCHANGED <<Keep, stack, cause, where, blame>>

Over == status \in {"ok", "failed"} /\ UNCHANGED vars

UsesTypo(h) == \E a \in DOMAIN h : "typo" \in DOMAIN h[a].opts

ParseInit ==
  /\ heap \in Heaps
  /\ typo \in IF UsesTypo(heap) THEN Words ELSE {<<>>}
  /\ stack = <<Call("fields", heap["root"].opts["fields"], 0, <<>>)>>
  /\ status = "run" /\ cause = NoCause /\ where = Unlocated /\ blame = Unlocated

ParseStep ==
  ParseFields \/ ParseType \/ BindOption \/ BuildType \/ ParseCases \/ ParseExpr \/ Unwind \/ Finish

ParseNext == ParseStep \/ Over

Done == status \in {"ok", "failed"}

\* Weak fairness of ParseStep, which is enabled and changes the stack or the
\* status until the parser is done: it runs on its caller's thread.
ParseSpec == ParseInit /\ [][ParseNext]_vars /\ ([]<>Done \/ []<><<ParseStep>>_vars)
-----------------------------------------------------------------------------
\* However the objects refer to each other, a list or a dict that holds itself
\* included, the C stack holds no more calls than the two caps allow
\* (MAX_SCHEMA_DEPTH, MAX_EXPR_DEPTH in parse.rs).
StackBounded ==
  /\ Cardinality({i \in DOMAIN stack : stack[i].fn \in {"field", "spec"}}) <= MAX_SCHEMA_DEPTH + 2
  /\ Cardinality({i \in DOMAIN stack : stack[i].fn = "expr"}) <= MAX_EXPR_DEPTH + 2

\* The error a caller sees names the innermost field it was raised in, not one
\* of those it passed on its way out (locate, parse_field); one raised outside
\* every field, an error of Python's own, and one whose text has " (at " in it,
\* names none.
LocatedOnce == status = "failed" => where = IF cause.verbatim THEN Unlocated ELSE blame

(* What a well-formed schema is, by levels rather than by a traversal. *)

\* Element k + 1: the values k operators below v.
Levels(v) ==
  LET operands(S) == UNION {{heap[a].opts["value"] : a \in ToSet(w.of)} : w \in {w \in S : w.t = "bin"}}
  IN FoldLeft(LAMBDA levels, k : Append(levels, operands(Last(levels))), <<{v}>>, UpTo(MAX_EXPR_DEPTH + 1))

IsExpr(v) ==
  /\ \A w \in UNION ToSet(Levels(v)) : w.t \in {"star", "zero", "small", "negative", "ref", "bin"}
  /\ Last(Levels(v)) = {}

\* Given a set of types, whether a value is what a parser makes of them ...
IsSpec(v, types) == v.t = "spec" /\ heap[v.of[1]].t = "spec" /\ v.of[1] \in types
AreFields(v, types) == v.t \in Iterable /\ \A a \in ToSet(v.of) : heap[a].t = "field" /\ a \in types
Holds(v, parse, types) ==
  CASE parse = "p_expr" -> IsExpr(v)
    [] parse = "p_fields" -> AreFields(v, types)
    [] parse = "p_cases" ->
         /\ v.t \in Iterable
         /\ \A a \in ToSet(v.of) : heap[a].t = "case" /\ heap[a].kind = "int" /\ IsSpec(heap[a].opts["spec"], types)
    [] parse \in {"p_elem", "p_then", "p_default"} -> IsSpec(v, types)
    [] parse \in {"p_over", "p_names", "p_bytes"} /\ v.t \in Iterable -> v.of = <<>>
    [] OTHER -> v.t \in Leaves[parse]

\* ... and the objects that are types with parts among them.
TypesOver(types) ==
  {a \in DOMAIN heap :
     LET o == heap[a] IN
     /\ o.t \in {"field", "spec"} /\ o.kind \in DOMAIN Kinds
     /\ DOMAIN o.opts \subseteq ToSet(AllowedKeys(o.kind))
     /\ \A opt \in ToSet(Kinds[o.kind]) :
          IF opt.key \in DOMAIN o.opts /\ o.opts[opt.key].t # "none" THEN Holds(o.opts[opt.key], opt.parse, types)
          ELSE ~opt.required
     /\ Extent(o)}
Types == FoldLeft(LAMBDA types, k : TypesOver(types), {}, UpTo(MAX_SCHEMA_DEPTH + 1))

\* parse_fields accepts exactly the well-formed schemas: it turns none away,
\* and hands the compiler no type with an option misspelled, missing, of the
\* wrong type or nested past the caps.
AcceptsWellFormed == Done => (status = "ok" <=> AreFields(heap["root"].opts["fields"], Types))

\* One letter dropped, doubled up, replaced or exchanged with its neighbour.
OneEdit(w, name) ==
  \/ \E i \in DOMAIN name : w = RemoveAt(name, i)
  \/ \E i \in DOMAIN w : RemoveAt(w, i) = name
  \/ Len(w) = Len(name) /\ \E i \in DOMAIN name : \A j \in DOMAIN name \ {i} : w[j] = name[j]
  \/ /\ Len(w) = Len(name)
     /\ \E i \in 1 .. Len(name) - 1 :
          /\ w[i] = name[i + 1] /\ w[i + 1] = name[i]
          /\ \A j \in DOMAIN name \ {i, i + 1} : w[j] = name[j]

\* An option one typing error away from an allowed one of three letters or
\* more is answered with a name that is one typing error away (distance and
\* nearest: the swap is charged one edit, and the cutoff leaves it in reach).
SuggestsTypo ==
  cause.what = "option" =>
    \A a \in DOMAIN heap :
      "typo" \in DOMAIN heap[a].opts =>
        ((\E i \in DOMAIN Kinds[heap[a].kind] :
            LET name == Spelling[Kinds[heap[a].kind][i].key] IN Len(name) >= 3 /\ OneEdit(typo, name))
         => cause.hint # "none" /\ OneEdit(typo, Spelling[cause.hint]))

\* Every schema is answered, whatever its objects refer to.
ParseEnds == <>Done
=============================================================================
