------------------------------ MODULE MCParse -------------------------------
(***************************************************************************)
(* Parse on four families of schemas: graphs of nested types, cycles       *)
(* included; every value type in every option; nested expressions; and     *)
(* misspelled options.                                                     *)
(***************************************************************************)
EXTENDS Parse, TLC

None == Val("none", <<>>)
Small == Val("small", <<>>)
Ref == Val("ref", <<>>)
List(as) == Val("fields", as)
To(a) == Val("spec", <<a>>)
Obj(t, kind, opts) == [t |-> t, kind |-> kind, opts |-> opts]

Schema(fields, objects) == ("root" :> Obj("root", "none", [fields |-> fields])) @@ objects

\* A type whose parts are the given objects; a case list has one or two.
Shapes(t, to, fields) ==
  {Obj(t, "array", [elem |-> To(to), count |-> Small]), Obj(t, "cond", [pred |-> Ref, then |-> To(to)]),
   Obj(t, "struct", [fields |-> fields]),
   Obj(t, "switch", [on |-> Ref, cases |-> Val("cases", <<"c1", "c2">>), default |-> To(to)])}

Bare == [key \in {} |-> None]
Leaf(t) == Obj(t, "int", Bare)

Graphs ==
  {Schema(List(<<"f", "g">>), [f |-> f, g |-> Leaf("field"), s |-> s, u |-> u, c1 |-> Obj("case", "int", [spec |-> To("u")]), c2 |-> c2]) :
     f \in Shapes("field", "s", List(<<"g">>)) \cup {Leaf("field"), Obj("field", "array", [elem |-> To("g"), count |-> Small])},
     s \in Shapes("spec", "u", List(<<"g", "f">>)) \cup {Leaf("spec"), Obj("spec", AtText, Bare)},
     u \in Shapes("spec", "s", List(<<"f">>)) \cup
             {Leaf("spec"), Obj("spec", "bytes", [len |-> None]), Obj("junk", "none", Bare)},
     c2 \in {Obj("case", "int", [spec |-> To("s")]), Obj("case", "bool", [spec |-> To("s")])}}

Values == {None, Small, Ref, List(<<>>), List(<<"f">>), Val("cases", <<"c1">>), To("s"), Val("bin", <<"x", "y">>)}
            \cup {Val(t, <<>>) : t \in {"true", "false", "zero", "negative", "huge", "bytes", "star", "word", "order",
                                        "prim", "words", "pairs", "empty", "surrogate", "raising"}}

\* A value each parser takes, for the options that are not looked at.
Good ==
  [p_expr |-> Ref, p_fields |-> List(<<"g">>), p_elem |-> To("s"), p_then |-> To("s"), p_default |-> To("s"),
   p_cases |-> Val("cases", <<"c1">>), p_prim |-> Val("prim", <<>>), p_names |-> Val("pairs", <<>>),
   p_width |-> Small, p_string |-> Val("word", <<>>), p_over |-> Val("star", <<>>)]

Required(kind) == {i \in DOMAIN Kinds[kind] : Kinds[kind][i].required}
Defaults(kind) ==
  [key \in {Kinds[kind][i].key : i \in Required(kind)} |->
     Good[Kinds[kind][CHOOSE i \in Required(kind) : Kinds[kind][i].key = key].parse]]
Rest == [g |-> Leaf("field"), s |-> Leaf("spec"), c1 |-> Obj("case", "int", [spec |-> To("s")])]
Operands(x, y) == [x |-> Obj("expr", "none", [value |-> x]), y |-> Obj("expr", "none", [value |-> y])]

OneOption(kind, key, v) ==
  Schema(List(<<"f">>), ("f" :> Obj("field", kind, (key :> v) @@ Defaults(kind))) @@ Rest @@ Operands(Ref, Small))

Options ==
  (UNION {{OneOption(kind, Kinds[kind][i].key, v) : i \in DOMAIN Kinds[kind], v \in Values} : kind \in DOMAIN Kinds})
  \cup {Schema(List(<<"f">>), ("f" :> Obj("field", "array", [elem |-> To("s"), count |-> c, until_eof |-> e])) @@ Rest) :
          c \in {None, Small}, e \in {None, Val("true", <<>>), Val("false", <<>>)}}
  \cup {Schema(v, Rest) : v \in {Small, List(<<"s">>), List(<<>>), None, Val("raising", <<>>)}}

Exprs ==
  {Schema(List(<<"f">>),
          [f |-> Obj("field", "bytes", [len |-> Val("bin", <<"x", "y">>), max |-> None]),
           z |-> Obj("expr", "none", [value |-> z])] @@ Operands(x, y)) :
     x \in {Small, Val("bin", <<"z", "z">>), Val("true", <<>>)},
     y \in {Ref, Val("huge", <<>>), Val("surrogate", <<>>)},
     z \in {Ref, Val("bin", <<"y", "y">>), Val("word", <<>>)}}

\* A misspelled option, in a nested type, with and without a value.
Typos ==
  {Schema(List(<<"f">>), [f |-> Obj("field", "cond", [pred |-> Ref, then |-> To("u")]),
                          u |-> Obj("spec", kind, ("typo" :> v) @@ Defaults(kind))] @@ Rest) :
     kind \in {"bytes", "array", "cond", "switch"}, v \in {None, Small}}

MCHeaps == Graphs \cup Options \cup Exprs \cup Typos

MCSpelling ==
  [len |-> <<"l","e","n">>, max |-> <<"m","a","x">>, elem |-> <<"e","l","e","m">>, count |-> <<"c","o","u","n","t">>,
   until_eof |-> <<"u","n","t","i","l","_","e","o","f">>, pred |-> <<"p","r","e","d">>, then |-> <<"t","h","e","n">>,
   on |-> <<"o","n">>, cases |-> <<"c","a","s","e","s">>, default |-> <<"d","e","f","a","u","l","t">>,
   byteorder |-> <<>>, const |-> <<>>, encoding |-> <<>>, errors |-> <<>>, width |-> <<>>, signed |-> <<>>,
   base |-> <<>>, names |-> <<>>, rest |-> <<>>, algo |-> <<>>, over |-> <<>>, verify |-> <<>>, poly |-> <<>>,
   init |-> <<>>, xorout |-> <<>>, refin |-> <<>>, refout |-> <<>>, fields |-> <<>>, size |-> <<>>]

Letters == {"e", "n"}
Edits(w) ==
  {RemoveAt(w, i) : i \in DOMAIN w}
    \cup {InsertAt(w, i, c) : i \in 1 .. Len(w) + 1, c \in Letters}
    \cup {ReplaceAt(w, i, c) : i \in DOMAIN w, c \in Letters}
    \cup {[w EXCEPT ![i] = w[i + 1], ![i + 1] = w[i]] : i \in 1 .. Len(w) - 1}
MCWords ==
  (UNION {Edits(MCSpelling[k]) : k \in {"len", "max", "elem", "count", "until_eof", "pred", "then", "on", "default"}}
    \cup {<<"z">>, <<"l", AtText, "n">>, <<>>}) \ {MCSpelling[k] : k \in DOMAIN MCSpelling}
=============================================================================
