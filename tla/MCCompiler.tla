----------------------------- MODULE MCCompiler -----------------------------
(* Every schema of a few declarations over these types. *)
EXTENDS Compiler, ExprIn

A == Ref("a")
B == Ref("b")
U1 == [w |-> 1, signed |-> FALSE]

IntT(const) == [t |-> "Int", prim |-> U1, const |-> const]
Bits(width) == [t |-> "Bits", width |-> width]
Raw(len, const) == [t |-> "Raw", len |-> len, const |-> const]
Bytes(e) == [t |-> "Bytes", len |-> Describe(e)]
Flags(masks) == [t |-> "Flags", prim |-> U1, masks |-> masks]
Digest(over) == [t |-> "Digest", star |-> FALSE, over |-> over, w |-> 2]
Struct(size) == [t |-> "Struct", size |-> {Describe(e) : e \in size}]
Array(count, until_eof) == [t |-> "Array", count |-> {Describe(e) : e \in count}, until_eof |-> until_eof]
Switch(on, tags, default) == [t |-> "Switch", on |-> Describe(on), tags |-> tags, default |-> default]
Cond(pred) == [t |-> "Cond", pred |-> Describe(pred)]

\* 6 - 2 * a, in a form that has something to fold
Down == Bin("Sub", Bin("Add", Imm(4), Imm(2)), Bin("Mul", A, Imm(2)))

MCNames == {"a", "b", "c"}

\* Declarations the compiler accepts somewhere.
MCGoodTypes == {
  IntT({}), IntT({1}), Bits(1), Bytes(A), Bytes(Down), [t |-> "CStr"],
  Digest(<<"a">>), Digest(<<"b", "a">>),
  Struct({}), Struct({B}), Struct({Imm(2)}), Array({Imm(2)}, FALSE),
  Switch(A, <<0>>, TRUE), Switch(Bin("Lt", A, B), <<0, 1>>, FALSE), Cond(A)}
MCElems == {IntT({}), Flags(<<1, 2>>), Bytes(A), Struct({}), Array({A}, FALSE)}

\* What is refused whatever surrounds it.
MCBadTypes == {
  IntT({4}), Bits(0), Raw({1}, {2}), Raw({}, {}), Bytes(Bin("Mul", A, A)), Bytes(Bin("Div", Imm(1), Imm(0))),
  Bytes(Bin("Mul", A, Imm(0))), Bytes(Imm(-1)), Flags(<<1, 3>>), Flags(<<5>>), Digest(<<>>), Digest(<<"a", "a">>),
  Struct({Star}), Array({A}, TRUE), Array({}, FALSE), Switch(A, <<0, 0>>, FALSE), Switch(A, <<>>, FALSE),
  Cond(Star)}

MCTypes == MCGoodTypes \cup MCBadTypes \cup MCElems
=============================================================================
