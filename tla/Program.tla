------------------------------ MODULE Program ------------------------------
(***************************************************************************)
(* Compiled schemas.  The tree of opcodes a schema compiles to is laid out *)
(* flat: Code maps addresses to opcodes, Prog maps a program (one scope)   *)
(* to the addresses of its opcodes in declaration order.  An array element,*)
(* a switch branch and the body of a conditional field are addresses, a    *)
(* nested structure is a program.                                          *)
(*                                                                         *)
(* Options are sets with at most one member: key = {} is Key::Skip,        *)
(* reg = {} a field no expression reads, expected = {} a field that is not *)
(* constant.                                                               *)
(***************************************************************************)
EXTENDS Layout

CONSTANTS
  Code,       \* [Addr -> opcode]
  Prog        \* [ProgId -> Seq(Addr)]

Addr == DOMAIN Code
ProgId == DOMAIN Prog

\* A flag is a field of bits of an unsigned integer; what no flag names is left over.
FlagBits(raw, item) == (raw \div 2 ^ item.shift) % (2 ^ item.width)
Leftover(raw, items) ==
  raw - Total([i \in DOMAIN items |-> FlagBits(raw, items[i]) * 2 ^ items[i].shift])

ValueOps == {"Fixed", "Bytes", "Str", "CStr", "Flags", "Nest", "Array", "Switch"}
FieldOps == ValueOps \cup {"BitRun", "Digest", "Cond"}

\* What the compiler guarantees of every opcode and the interpreters rely on:
\* sizes are naturals, items lie inside their run and write distinct
\* registers, and every address and program an opcode names exists.
OpOk(op) ==
  /\ op.op \in FieldOps
  /\ op.op = "Fixed" => FixedOk(op)
  /\ op.op = "BitRun" => op.nbytes \in Nat /\ Disjoint(op.items)
  /\ op.op \in {"Bytes", "Str", "CStr"} => op.max \in Nat
  /\ op.op = "Flags" => op.prim.w \in Nat
  /\ op.op = "Nest" => op.prog \in ProgId
  /\ op.op = "Array" => op.elem \in Addr /\ op.max_count \in Nat
  /\ op.op = "Switch" =>
       /\ \A i \in DOMAIN op.cases : op.cases[i].to \in Addr
       /\ op.default \subseteq Addr
  /\ op.op = "Cond" => op.then \in Addr

\* Bits, digests and conditional fields occur only as fields of a structure.
ValuePositions ==
  {Code[a].elem : a \in {x \in Addr : Code[x].op = "Array"}}
    \cup {Code[a].then : a \in {x \in Addr : Code[x].op = "Cond"}}
    \cup UNION {Code[a].default \cup {Code[a].cases[i].to : i \in DOMAIN Code[a].cases} :
                  a \in {x \in Addr : Code[x].op = "Switch"}}

ASSUME ProgramAssumption ==
  /\ MAX_REGS \in Nat /\ MAX_SPANS \in Nat /\ MAX_DEPTH \in Nat \ {0}
  /\ Prog \in [ProgId -> Seq(Addr)]
  /\ \A a \in Addr : OpOk(Code[a])

ASSUME PositionAssumption ==
  \A a \in ValuePositions : Code[a].op \in ValueOps
=============================================================================
