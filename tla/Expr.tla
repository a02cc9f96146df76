-------------------------------- MODULE Expr --------------------------------
(***************************************************************************)
(* The postfix expression programs that lengths, counts, discriminants and *)
(* predicates compile to.  An expression is a sequence of instructions     *)
(* [op, arg]: Imm pushes the number arg, Reg the register arg = [up, idx], *)
(* every other instruction combines the two topmost entries.               *)
(*                                                                         *)
(* A register read is a function get from registers to results, so that    *)
(* the decoder (always a value) and the encoder (perhaps not yet known)    *)
(* share the evaluator.                                                    *)
(***************************************************************************)
EXTENDS Wire

EvalFaults == {"Overflow", "DivZero", "Missing"}
EvalResult == [kind : {"Ok"} \cup EvalFaults, v : I64]

Value(v) == [kind |-> "Ok", v |-> v]
Fault(kind) == [kind |-> kind, v |-> 0]

\* checked_add and friends: a result outside i64 is Overflow.
Checked(v) == IF v \in I64 THEN Value(v) ELSE Fault("Overflow")

\* Mutant: a u64 taken for an i64 as it is.
Wrap_None(v) == v

\* The signed reading of the low WordBits bits of v (wrapping arithmetic).
Wrap(v) == SignExtend(v % (2 ^ WordBits), WordBits)

\* i64 division truncates toward zero; \div floors.
Quot(a, b) ==
  LET Mag(n) == IF n < 0 THEN -n ELSE n
      q == Mag(a) \div Mag(b)
  IN  IF (a < 0) # (b < 0) THEN -q ELSE q

Truth(p) == Value(IF p THEN 1 ELSE 0)

\* Shl drops bits silently, whatever the amount in 0..WordBits-1 shifts out.
Apply(op, a, b) ==
  CASE op = "Add" -> Checked(a + b)
    [] op = "Sub" -> Checked(a - b)
    [] op = "Mul" -> Checked(a * b)
    [] op = "Div" -> IF b = 0 THEN Fault("DivZero") ELSE Checked(Quot(a, b))
    [] op = "Shl" -> IF b \in 0 .. (WordBits - 1) THEN Value(Wrap(a * 2 ^ b)) ELSE Fault("Overflow")
    [] op = "Shr" -> IF b \in 0 .. (WordBits - 1) THEN Value(a \div 2 ^ b) ELSE Fault("Overflow")
    [] op = "And" -> Value(Wrap(BitAnd(a, b)))
    [] op = "Or" -> Value(Wrap(BitOr(a, b)))
    [] op = "Xor" -> Value(Wrap(BitXor(a, b)))
    [] op = "Eq" -> Truth(a = b)
    [] op = "Ne" -> Truth(a # b)
    [] op = "Lt" -> Truth(a < b)
    [] op = "Le" -> Truth(a <= b)
    [] op = "Gt" -> Truth(a > b)
    [] op = "Ge" -> Truth(a >= b)

\* One instruction.  m is [kind, st]: the fault that stopped the evaluation,
\* or "Ok" and the stack.
Exec(m, ins, get) ==
  LET n == Len(m.st)
      operand == CASE ins.op = "Imm" -> Value(ins.arg)
                   [] ins.op = "Reg" -> get[ins.arg]
                   [] OTHER -> Apply(ins.op, m.st[n - 1], m.st[n])
      rest == IF ins.op \in {"Imm", "Reg"} THEN m.st ELSE SubSeq(m.st, 1, n - 2)
  IN  IF m.kind # "Ok" THEN m
      ELSE [kind |-> operand.kind, st |-> Append(rest, operand.v)]

Run(e, get) == FoldLeft(LAMBDA m, ins : Exec(m, ins, get), [kind |-> "Ok", st |-> <<>>], e)

\* Expr::eval.  Everything pushed is an i64, so the last test never fails; it
\* lets a proof use the result's type without unfolding the fold.
Eval(e, get) ==
  LET m == Run(e, get)
      r == [kind |-> m.kind, v |-> Last(m.st)]
  IN  IF r \in EvalResult THEN r ELSE Fault("Overflow")

\* Expr::as_const: a single immediate.
IsConst(e) == Len(e) = 1 /\ e[1].op = "Imm"
=============================================================================
