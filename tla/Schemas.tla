------------------------------ MODULE Schemas ------------------------------
(***************************************************************************)
(* The compiled schemas the models run, as the compiler lays them out: one *)
(* table of opcodes and one of programs.  They are small versions of the   *)
(* formats in the repository's tests and examples, on a machine whose      *)
(* bytes have two bits and whose i64 has four, so that U2, two bytes wide, *)
(* plays the part of u64.                                                  *)
(***************************************************************************)
EXTENDS Integers, Sequences

U1 == [w |-> 1, signed |-> FALSE]
U2 == [w |-> 2, signed |-> FALSE]
I1 == [w |-> 1, signed |-> TRUE]

\* Items of a Fixed run.
IntAt(off, prim, be, key, reg, expected, derived, span) ==
  [kind |-> "Int", off |-> off, prim |-> prim, be |-> be, key |-> key, reg |-> reg,
   expected |-> expected, derived |-> derived, span |-> span]
Plain(off, prim, key) == IntAt(off, prim, TRUE, {key}, {}, {}, FALSE, {})
Input(off, prim, key, r) == IntAt(off, prim, TRUE, {key}, {r}, {}, FALSE, {})
Derived(off, prim, key, r) == IntAt(off, prim, TRUE, {key}, {r}, {}, TRUE, {})
Const(off, prim, key, c) == IntAt(off, prim, TRUE, {key}, {}, {c}, FALSE, {})
RawAt(kind, off, len, key, expected, span) ==
  [kind |-> kind, off |-> off, len |-> len, key |-> key, reg |-> {},
   expected |-> expected, span |-> span]

\* Opcodes.  Elements and branches have no key and no span.
Fixed(width, items) == [op |-> "Fixed", width |-> width, items |-> items]
One(prim) == Fixed(prim.w, <<IntAt(0, prim, TRUE, {}, {}, {}, FALSE, {})>>)
Bytes(len, max, key, span) == [op |-> "Bytes", len |-> len, max |-> max, key |-> key, span |-> span]
Str(len, max, enc, key) ==
  [op |-> "Str", len |-> len, max |-> max, enc |-> enc, key |-> key, span |-> {}]
CStr(max, enc, key) == [op |-> "CStr", max |-> max, enc |-> enc, key |-> key, span |-> {}]
BitRun(nbytes, items) == [op |-> "BitRun", nbytes |-> nbytes, items |-> items]
BitAt(off, width, signed, key, reg, derived) ==
  [off |-> off, width |-> width, signed |-> signed, key |-> {key}, reg |-> reg, derived |-> derived]
Flags(prim, items, rest, key) ==
  [op |-> "Flags", prim |-> prim, be |-> TRUE, items |-> items, rest |-> rest, key |-> key, span |-> {}]
FlagAt(key, shift, width) == [key |-> key, shift |-> shift, width |-> width]
Digest(over, verify, key, span) ==
  [op |-> "Digest", over |-> over, verify |-> verify, be |-> TRUE, key |-> {key}, span |-> span]
Nest(prog, size, key, span) == [op |-> "Nest", prog |-> prog, size |-> size, key |-> key, span |-> span]
Array(count, max_count, elem, key) ==
  [op |-> "Array", count |-> count, max_count |-> max_count, elem |-> elem, key |-> key, span |-> {}]
Switch(on, cases, default, key) ==
  [op |-> "Switch", on |-> on, cases |-> cases, default |-> default, key |-> key, span |-> {}]
Case(tag, to) == [tag |-> tag, to |-> to]
Cond(pred, then, key) == [op |-> "Cond", pred |-> pred, then |-> then, key |-> {key}, span |-> {}]

\* Expressions and lengths.
Imm(n) == [op |-> "Imm", arg |-> n]
Ref(up, r) == [op |-> "Reg", arg |-> [up |-> up, idx |-> r]]
Ins(op) == [op |-> op, arg |-> 0]
Of(up, r) == <<Ref(up, r)>>
Rest == [expr |-> <<>>, inv |-> {}]
Exactly(n) == [expr |-> <<Imm(n)>>, inv |-> {}]
Linear(up, r, a, b) ==
  [expr |-> (IF a = 1 THEN <<Ref(up, r)>> ELSE <<Ref(up, r), Imm(a), Ins("Mul")>>)
              \o (IF b = 0 THEN <<>> ELSE <<Imm(b), Ins("Add")>>),
   inv |-> {[reg |-> [up |-> up, idx |-> r], a |-> a, b |-> b]}]
LenOf(up, r) == Linear(up, r, 1, 0)

SchemaCode == [
  \* tlv: a tag, a derived length, the payload
  tlv_head |-> Fixed(2, <<Plain(0, U1, "t"), Derived(1, U1, "n", 0)>>),
  tlv_data |-> Bytes(LenOf(0, 0), 2, {"data"}, {}),
  \* win: a sized body in a window, then a trailer outside it
  win_head |-> Fixed(1, <<Derived(0, U1, "n", 0)>>),
  win_body |-> Nest("body", {LenOf(0, 0)}, {"body"}, {}),
  win_tail |-> Fixed(1, <<Plain(0, U1, "tail")>>),
  body_x |-> Fixed(1, <<Plain(0, U1, "x")>>),
  body_z |-> CStr(1, "Ascii", {"z"}),
  body_rest |-> Bytes(Rest, 2, {"rest"}, {}),
  \* list: a counted array of structures, each with a length of its own
  list_n |-> Fixed(1, <<Derived(0, U1, "n", 0)>>),
  list_items |-> Array(LenOf(0, 0), 2, "list_elem", {"items"}),
  list_elem |-> Nest("elem", {}, {}, {}),
  elem_k |-> Fixed(1, <<Derived(0, U1, "k", 0)>>),
  elem_v |-> Bytes(LenOf(0, 0), 3, {"v"}, {}),
  \* units: an array to the end of a window whose elements may be empty
  units_n |-> Fixed(1, <<Derived(0, U1, "n", 0)>>),
  units_box |-> Nest("box", {LenOf(0, 0)}, {"box"}, {}),
  box_pairs |-> Array(Rest, 2, "pair", {"pairs"}),
  pair |-> Array(Exactly(1), 2, "unit", {}),
  unit |-> Bytes(LenOf(1, 0), 2, {}, {}),
  \* pick: an explicit discriminant
  pick_t |-> Fixed(2, <<Input(0, I1, "t", 0), RawAt("Bool", 1, 1, {"b"}, {}, {})>>),
  pick_v |-> Switch(Of(0, 0), <<Case(0, "one"), Case(1, "two"), Case(-1, "deep")>>, {}, {"v"}),
  pick_w |-> Switch(<<Ref(0, 0), Imm(1), Ins("Lt")>>, <<Case(0, "text")>>, {"one"}, {"w"}),
  one |-> One(U1),
  two |-> Bytes(Exactly(1), 2, {}, {}),
  deep |-> Nest("elem", {}, {}, {}),
  text |-> CStr(2, "Utf8", {}),
  \* opt: presence bits, then fields that may be absent
  opt_bits |-> BitRun(1, <<BitAt(0, 1, FALSE, "p", {0}, FALSE), BitAt(1, 1, TRUE, "q", {1}, FALSE)>>),
  opt_a |-> Cond(Of(0, 0), "one", "a"),
  opt_b |-> Cond(<<Imm(3), Ref(0, 1), Ins("Div")>>, "two", "b"),
  \* sum: a checksum over the whole structure, and one over named fields
  sum_head |-> Fixed(1, <<IntAt(0, U1, TRUE, {"h"}, {}, {}, FALSE, {0})>>),
  sum_crc |-> Digest(<<>>, TRUE, "crc", {}),
  sum_body |-> Bytes(Rest, 2, {"body"}, {1}),
  dup_crc |-> Digest(<<>>, TRUE, "sum", {}),
  part_crc |-> Digest(<<1, 0>>, TRUE, "crc", {}),
  loose_crc |-> Digest(<<>>, FALSE, "crc", {}),
  \* txt: text to the end
  txt_c |-> CStr(1, "Ascii", {"c"}),
  txt_s |-> Str(Rest, 3, "Utf8", {"s"}),
  \* flg: named bits, reserved bits
  flg_s |-> Flags(U1, <<FlagAt("f", 0, 1)>>, "Strict", {"s"}),
  flg_k |-> Flags(U2, <<FlagAt("g", 1, 2)>>, "Keep", {"k"}),
  flg_i |-> Flags(U1, <<FlagAt("h", 1, 1)>>, "Ignore", {"i"}),
  \* big: a u64 length, a constant, a length that must not overflow or go negative
  big_head |-> Fixed(3, <<Const(0, U1, "magic", 1), Derived(1, U2, "n", 0)>>),
  big_data |-> Bytes(Linear(0, 0, 2, -3), 3, {"data"}, {}),
  wide_bits |-> BitRun(2, <<BitAt(0, 4, FALSE, "n", {0}, TRUE)>>),
  wide_data |-> Bytes(Linear(0, 0, 1, 1), 2, {"data"}, {}),
  raw_head |-> Fixed(3, <<RawAt("Raw", 0, 1, {}, {}, {}), RawAt("Raw", 1, 1, {"r"}, { <<2>> }, {}),
                          RawAt("Bool", 2, 1, {"b"}, {TRUE}, {})>>),
  \* nest: an inner structure whose length field lies two scopes out
  nest_n |-> Fixed(1, <<Derived(0, U1, "n", 0)>>),
  nest_mid |-> Nest("mid", {}, {"mid"}, {}),
  mid_m |-> Fixed(1, <<Derived(0, U1, "m", 0)>>),
  mid_in |-> Nest("inner", {LenOf(0, 0)}, {"in"}, {}),
  inner_d |-> Bytes(LenOf(2, 0), 2, {"d"}, {}),
  inner_s |-> Str(LenOf(2, 0), 2, "Ascii", {"s"}),
  \* dual: both a discriminant and a length, so explicit input
  dual_n |-> Fixed(1, <<Input(0, U1, "n", 0)>>),
  dual_v |-> Switch(Of(0, 0), <<Case(1, "dual_b"), Case(2, "dual_l")>>, {"dual_b"}, {"v"}),
  dual_b |-> Bytes(LenOf(0, 0), 3, {}, {}),
  dual_l |-> Array(LenOf(0, 0), 3, "one", {}),
  \* vast: a u64 discriminant
  vast_t |-> Fixed(2, <<Input(0, U2, "t", 0)>>),
  vast_v |-> Switch(Of(0, 0), <<Case(-7, "one")>>, {"two"}, {"v"}),
  \* gate: a predicate that reads a derived length
  gate_n |-> Fixed(1, <<Derived(0, U1, "n", 0)>>),
  gate_opt |-> Cond(Of(0, 0), "one", "opt"),
  gate_data |-> Bytes(LenOf(0, 0), 2, {"data"}, {}),
  \* hull: a structure with a digest inside one with a digest, lengths in both
  hull_n |-> Fixed(1, <<Derived(0, U1, "n", 0)>>),
  hull_core |-> Nest("core", {LenOf(0, 0)}, {"core"}, {0}),
  hull_crc |-> Digest(<<0>>, TRUE, "crc", {}),
  core_d |-> Bytes(Rest, 1, {"d"}, {}),
  core_crc |-> Digest(<<>>, TRUE, "crc", {}),
  \* abyss: deeper than MAX_DEPTH.  The compiler refuses it; run_struct checks
  \* for programs that were not compiled here.
  abyss_in |-> Nest("nest", {}, {"in"}, {})
]

SchemaProg == [
  tlv |-> <<"tlv_head", "tlv_data">>,
  win |-> <<"win_head", "win_body", "win_tail">>,
  body |-> <<"body_x", "body_z", "body_rest">>,
  list |-> <<"list_n", "list_items">>,
  elem |-> <<"elem_k", "elem_v">>,
  units |-> <<"units_n", "units_box">>,
  box |-> <<"box_pairs">>,
  pick |-> <<"pick_t", "pick_v", "pick_w">>,
  opt |-> <<"opt_bits", "opt_a", "opt_b">>,
  sum |-> <<"sum_head", "sum_crc", "sum_body">>,
  part |-> <<"part_crc", "sum_head", "sum_body">>,
  loose |-> <<"sum_head", "loose_crc">>,
  txt |-> <<"txt_c", "txt_s">>,
  flg |-> <<"flg_s", "flg_k", "flg_i">>,
  big |-> <<"big_head", "big_data">>,
  wide |-> <<"wide_bits", "wide_data">>,
  raw |-> <<"raw_head">>,
  nest |-> <<"nest_n", "nest_mid">>,
  mid |-> <<"mid_m", "mid_in">>,
  inner |-> <<"inner_d", "inner_s">>,
  dual |-> <<"dual_n", "dual_v">>,
  vast |-> <<"vast_t", "vast_v">>,
  gate |-> <<"gate_n", "gate_opt", "gate_data">>,
  hull |-> <<"hull_n", "hull_core", "hull_crc">>,
  core |-> <<"core_crc", "core_d">>,
  dup |-> <<"sum_head", "sum_crc", "dup_crc">>,
  abyss |-> <<"abyss_in">>
]
=============================================================================
