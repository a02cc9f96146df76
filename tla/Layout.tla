------------------------------- MODULE Layout -------------------------------
(***************************************************************************)
(* What the compiler and the interpreters agree on: the limits of a        *)
(* program, lengths, and how the items of a run lie in it.                 *)
(***************************************************************************)
EXTENDS Expr

CONSTANTS MAX_REGS, MAX_SPANS, MAX_DEPTH

\* Stacks have their top last.
SetTop(s, x) == [s EXCEPT ![Len(s)] = x]
MinOf(a, b) == IF a <= b THEN a ELSE b

Regs == 0 .. (MAX_REGS - 1)
Spans == 0 .. (MAX_SPANS - 1)

(***************************************************************************)
(* A length or a count is [expr, inv]: the expression the decoder          *)
(* evaluates and, for a length that refers to a field, the inverse the     *)
(* encoder applies.  The empty expression stands for a length that takes   *)
(* all that is left (LenSrc::Greedy) and a count that runs to the end of   *)
(* the window (CountSrc::UntilEof).                                        *)
(***************************************************************************)
Greedy == [expr |-> <<>>, inv |-> {}]
IsGreedy(len) == len.expr = <<>>

\* Bytes taken by one item of a Fixed opcode.
ItemWidth(item) == IF item.kind = "Int" THEN item.prim.w ELSE item.len

Disjoint(items) ==
  \A i, j \in DOMAIN items : i # j => items[i].reg \cap items[j].reg = {}

FixedOk(op) ==
  /\ op.width \in Nat
  /\ \A i \in DOMAIN op.items :
       /\ op.items[i].off \in Nat
       /\ ItemWidth(op.items[i]) \in Nat
       /\ op.items[i].off + ItemWidth(op.items[i]) <= op.width
  /\ Disjoint(op.items)
=============================================================================
