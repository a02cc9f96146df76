------------------------------- MODULE ExprIn -------------------------------
(***************************************************************************)
(* The compiler's view of a length, count, size, discriminant or predicate *)
(* expression: constants are folded, a length is brought to the form       *)
(* a * ref + b, and postfix code is emitted.                               *)
(*                                                                         *)
(* An expression is Imm(n), Ref(name), Star ("*") or Bin(op, l, r).        *)
(* Results that may be refused are sets with at most one member.           *)
(***************************************************************************)
EXTENDS Expr

Imm(n) == [k |-> "imm", n |-> n]
Ref(name) == [k |-> "ref", name |-> name]
Star == [k |-> "greedy"]
Bin(op, l, r) == [k |-> "bin", op |-> op, l |-> l, r |-> r]

\* apply_const: the fault of a constant subexpression is a SchemaError.
ApplyConst(op, a, b) ==
  LET r == Apply(op, a, b) IN IF r.kind = "Ok" THEN {r.v} ELSE {}

RECURSIVE Fold(_), Linear(_), Postfix(_)

\* fold
Fold(e) ==
  CASE e.k \in {"imm", "ref"} -> {e}
    [] e.k = "greedy" -> {}
    [] OTHER -> UNION {IF l.k = "imm" /\ r.k = "imm"
                       THEN {Imm(v) : v \in ApplyConst(e.op, l.n, r.n)}
                       ELSE {Bin(e.op, l, r)} : l \in Fold(e.l), r \in Fold(e.r)}

\* A linear form is [ref, a, b]: ref is {} or the one field read.
\* Every coefficient is computed with checked arithmetic.
Form(ref, a, b) == IF a \in I64 /\ b \in I64 THEN {[ref |-> ref, a |-> a, b |-> b]} ELSE {}

\* Mutant: 8 - n taken for 8 + n.
Combine_SubKeepsSign(op, l, r) ==
  CASE op \in {"Add", "Sub"} /\ {} \in {l.ref, r.ref} ->
         Form(l.ref \cup r.ref, l.a + r.a, IF op = "Add" THEN l.b + r.b ELSE l.b - r.b)
    [] op = "Mul" /\ r.ref = {} -> Form(l.ref, l.a * r.b, l.b * r.b)
    [] op = "Mul" /\ r.ref # {} /\ l.ref = {} -> Form(r.ref, r.a * l.b, r.b * l.b)
    [] OTHER -> {}

Combine(op, l, r) ==
  CASE op = "Add" /\ {} \in {l.ref, r.ref} -> Form(l.ref \cup r.ref, l.a + r.a, l.b + r.b)
    [] op = "Sub" /\ {} \in {l.ref, r.ref} -> Form(l.ref \cup r.ref, l.a - r.a, l.b - r.b)
    [] op = "Mul" /\ r.ref = {} -> Form(l.ref, l.a * r.b, l.b * r.b)
    [] op = "Mul" /\ r.ref # {} /\ l.ref = {} -> Form(r.ref, r.a * l.b, r.b * l.b)
    [] OTHER -> {}

\* linear
Linear(e) ==
  CASE e.k = "imm" -> Form({}, 0, e.n)
    [] e.k = "ref" -> Form({e.name}, 1, 0)
    [] e.k = "greedy" -> {}
    [] OTHER -> UNION {Combine(e.op, l, r) : l \in Linear(e.l), r \in Linear(e.r)}

\* emit_into, with field names in the place of registers
Postfix(e) ==
  CASE e.k = "imm" -> <<[op |-> "Imm", arg |-> e.n]>>
    [] e.k = "ref" -> <<[op |-> "Ref", arg |-> e.name]>>
    [] OTHER -> Postfix(e.l) \o Postfix(e.r) \o <<[op |-> e.op, arg |-> 0]>>

\* postfix_depth: how many values the code has on the stack at most
PostfixDepth(code) ==
  LET operand(i) == code[i].op \in {"Imm", "Ref"}
      depth(j) == MapThenSumSet(LAMBDA i : IF operand(i) THEN 1 ELSE -1, 1 .. j)
  IN  CHOOSE d \in {depth(j) : j \in DOMAIN code} : \A j \in DOMAIN code : depth(j) <= d

\* All the compiler asks of an expression: whether it is "*", the folded
\* constant, the linear form, and the code; ok is FALSE when fold refuses it.
Describe(e) ==
  LET folded == Fold(e) IN
  [greedy |-> e.k = "greedy",
   ok |-> folded # {},
   imm |-> {f.n : f \in {x \in folded : x.k = "imm"}},
   lin |-> UNION {Linear(f) : f \in folded},
   code |-> IF folded = {} THEN <<>> ELSE Postfix(CHOOSE f \in folded : TRUE),
   depth |-> IF folded = {} THEN 0 ELSE PostfixDepth(Postfix(CHOOSE f \in folded : TRUE))]
=============================================================================
