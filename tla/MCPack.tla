------------------------------- MODULE MCPack -------------------------------
(* Values, right and wrong, for every schema of the table. *)
EXTENDS Pack, Schemas

MCCode == SchemaCode
MCProg == SchemaProg

SeqsUpTo(S, n) == UNION {[1 .. k -> S] : k \in 0 .. n}
Ints(S) == {<<"int", n>> : n \in S}
Bools == {<<"bool", b>> : b \in BOOLEAN}
BytesUpTo(n) == {<<"bytes", s>> : s \in SeqsUpTo({0, 3}, n)}
Texts(n) == {<<"str", s>> : s \in SeqsUpTo({0, 1, 3}, n)}
Lists(S, n) == {<<"list", s>> : s \in SeqsUpTo(S, n)}
Maps(S) == {<<"map", m>> : m \in S}
None == [absent : {<<"int", 0>>}]   \* a mapping with none of the keys asked for

\* The values a call on each schema may get: in range and out of range, of
\* the right type and not, with and without keys.
Values == [
  tlv |-> Maps([t : Ints(-1 .. 4) \cup Bools, data : BytesUpTo(3) \cup Ints({0})]
                 \cup [t : Ints({1}), n : Ints({3}), data : BytesUpTo(2)]
                 \cup [t : BytesUpTo(1)] \cup [t : Ints({0})] \cup None) \cup Ints({0}),
  win |-> Maps([body : Maps([x : Ints({1}), z : Texts(2), rest : BytesUpTo(3)] \cup None), tail : Ints({2})]),
  list |-> Maps([items : Lists(Maps([v : BytesUpTo(1)] \cup [v : Ints({1})]), 2) \cup Ints({1})]),
  units |-> Maps([box : Maps([pairs : Lists(Lists(BytesUpTo(2), 1), 2)])]),
  pick |-> Maps([t : Ints(-2 .. 1), b : Bools, v : Ints({2}) \cup BytesUpTo(1) \cup Maps([v : BytesUpTo(1)]),
                 w : Ints({1}) \cup Texts(2)]),
  opt |-> Maps([p : Ints({0, 1, 2}), q : Ints({0, -1}) \cup BytesUpTo(0), a : Ints({3}), b : BytesUpTo(1)]
                 \cup [p : Ints({0}), q : Ints({-1})] \cup [p : Ints({1}), q : Ints({-1})]),
  sum |-> Maps([h : Ints(0 .. 3), body : BytesUpTo(2)]),
  part |-> Maps([h : Ints(0 .. 3), body : BytesUpTo(2), crc : Ints({5})]),
  loose |-> Maps([h : Ints(0 .. 3)]),
  txt |-> Maps([c : Texts(2) \cup {<<"str", <<2>> >>}, s : Texts(3) \cup Ints({0})]),
  flg |-> Maps([s : Maps([f : Bools \cup Ints(0 .. 2)] \cup None) \cup Ints({0}),
                k : Maps([g : Ints(0 .. 4), _rest : Ints({-1, 0, 1, 2, 9, 16})] \cup [g : BytesUpTo(0)]
                           \cup [g : Ints({3}), _rest : BytesUpTo(0)]),
                i : Maps([h : Bools])]),
  big |-> Maps([data : BytesUpTo(4)]),
  wide |-> Maps([data : BytesUpTo(2)]),
  raw |-> Maps([r : BytesUpTo(1)] \cup None),
  nest |-> Maps([mid : Maps([in : Maps([d : BytesUpTo(2), s : Texts(2)])])]),
  dual |-> Maps([n : Ints(0 .. 3), v : BytesUpTo(3) \cup Lists(Ints({0, 1, 4}), 2)]),
  vast |-> Maps([t : Ints({0, 7, 8, 9, 15, 16}), v : Ints({1}) \cup BytesUpTo(1)]),
  gate |-> Maps([opt : Ints({1}), data : BytesUpTo(2)]),
  hull |-> Maps([core : Maps([d : BytesUpTo(2)])]),
  abyss |-> Maps([in : Maps([mid : Maps([in : Maps([d : BytesUpTo(1), s : Texts(1)])])])])
]

ForRoots(roots, intos) ==
  UNION {{[root |-> r, value |-> v, into |-> i] : v \in Values[r], i \in intos} : r \in roots}

\* The frames open at every opcode and in every scope of the table, by
\* relaxation; Far is a depth the table does not reach.
Far == 9
Roots == {i.root : i \in Inputs}
Least(S) == CHOOSE n \in S : \A m \in S : n <= m
Relax(l) ==
  [op |-> [a \in Addr |->
             Least({Far} \cup {l.prog[p] : p \in {q \in ProgId : a \in Range(Prog[q])}}
                         \cup {l.op[b] : b \in {c \in Addr : a \in TargetsOf(Code[c])}})],
   prog |-> [p \in ProgId |->
             Least({Far} \cup {1 : r \in Roots \cap {p}}
                         \cup {l.op[b] + 1 : b \in {c \in Addr : Code[c].op = "Nest" /\ Code[c].prog = p}})]]
SchemaLevels ==
  LET levels[n \in 0 .. 2 * Far] ==
        IF n = 0 THEN [op |-> [a \in Addr |-> Far], prog |-> [p \in ProgId |-> Far]]
                 ELSE Relax(levels[n - 1])
  IN  levels[2 * Far]

ASSUME SchemasScoped == WellScoped(SchemaLevels)
=============================================================================
