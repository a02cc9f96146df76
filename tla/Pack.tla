-------------------------------- MODULE Pack --------------------------------
(***************************************************************************)
(* The encoder: run_with, run_into_with and the functions they call, as a  *)
(* machine that takes one step per opcode.                                 *)
(*                                                                         *)
(* Lengths come before what they measure, so the field of a derived length *)
(* is reserved as zeros and patched when a consumer knows the length       *)
(* (res: the reservations of a frame, by register); digests are reserved   *)
(* and computed when their structure ends.  pctl is the recursion of       *)
(* pack_struct and of the array loop, pframes is PCtx.frames, arg the      *)
(* value pack_value is called with.                                        *)
(***************************************************************************)
EXTENDS Program

CONSTANTS
  Inputs,   \* calls: [root, value, into]; into = {offset} for pack_into
  Dsts      \* the caller's buffers for pack_into

\* What the encoder relies on besides ProgramAssumption: the items of a run lie
\* one after the other, constants have the type of their field, an inverse
\* a * x + b has a factor and goes to a register, and the fields of a scope
\* have registers of their own.
LensOf(op) ==
  CASE op.op \in {"Bytes", "Str"} -> {op.len}
    [] op.op = "Array" -> {op.count}
    [] op.op = "Nest" -> op.size
    [] OTHER -> {}

ItemOk(item) ==
  /\ item.kind \in {"Int", "Bool", "Raw"}
  /\ item.kind = "Int" =>
       /\ item.expected \subseteq Int
       /\ item.prim.w \in Nat \ {0} /\ item.prim.signed \in BOOLEAN /\ item.be \in BOOLEAN
  /\ item.kind = "Bool" => item.len = 1
  /\ item.kind = "Raw" => \A x \in item.expected : x \in Seq(Byte) /\ Len(x) = item.len

BitItemOk(item, nbytes) ==
  /\ item.off \in Nat /\ item.width \in 1 .. WordBits /\ item.signed \in BOOLEAN
  /\ item.off + item.width <= nbytes * ByteBits

EncodesOk(op) ==
  /\ \A len \in LensOf(op) : \A inv \in len.inv :
       inv.a \in I64 \ {0} /\ inv.b \in I64 /\ inv.reg.up \in Nat /\ inv.reg.idx \in Regs
  /\ op.op \in {"Fixed", "BitRun", "Flags"} => op.items \in Seq(Range(op.items))
  /\ op.op \in {"Fixed", "BitRun"} =>
       \A i \in DOMAIN op.items :
         op.items[i].reg \subseteq Regs /\ \A r, s \in op.items[i].reg : r = s
  /\ op.op = "Fixed" =>
       \A i \in DOMAIN op.items :
         /\ ItemOk(op.items[i])
         /\ op.items[i].off = (IF i = 1 THEN 0 ELSE op.items[i - 1].off + ItemWidth(op.items[i - 1]))
  /\ op.op = "BitRun" =>
       /\ \A i \in DOMAIN op.items : BitItemOk(op.items[i], op.nbytes)
       /\ \A i, j \in DOMAIN op.items :
            i < j => op.items[i].off + op.items[i].width <= op.items[j].off
  /\ op.op = "Flags" => \A i \in DOMAIN op.items : op.items[i].shift \in Nat
  /\ op.op = "Digest" => op.over \in Seq(Spans)

\* The registers of the fields of a run.
RegsOf(op) ==
  IF op.op \in {"Fixed", "BitRun"} THEN UNION {op.items[i].reg : i \in DOMAIN op.items} ELSE {}

ASSUME EncoderAssumption ==
  /\ \A a \in Addr : EncodesOk(Code[a])
  /\ \A p \in ProgId : \A i, j \in DOMAIN Prog[p] :
       i # j => RegsOf(Code[Prog[p][i]]) \cap RegsOf(Code[Prog[p][j]]) = {}
  /\ \A a \in ValuePositions : Code[a].op = "Fixed" => Code[a].items # <<>>

\* Every inverse settles in a frame that is open.  l bounds from below the
\* frames open at an opcode (l.op) and, with its own, in a scope (l.prog): a
\* call opens one, a nested structure one more, and a length refers to a
\* register of a scope it lies in.
TargetsOf(op) ==
  CASE op.op = "Array" -> {op.elem}
    [] op.op = "Cond" -> {op.then}
    [] op.op = "Switch" -> op.default \cup {op.cases[i].to : i \in DOMAIN op.cases}
    [] OTHER -> {}

WellScoped(l) ==
  /\ l.op \in [Addr -> Nat] /\ l.prog \in [ProgId -> Nat]
  /\ \A i \in Inputs : l.prog[i.root] <= 1
  /\ \A p \in ProgId : \A i \in DOMAIN Prog[p] : l.op[Prog[p][i]] <= l.prog[p]
  /\ \A a \in Addr :
       /\ \A len \in LensOf(Code[a]) : \A inv \in len.inv : inv.reg.up < l.op[a]
       /\ Code[a].op = "Nest" => l.prog[Code[a].prog] <= l.op[a] + 1
       /\ \A b \in TargetsOf(Code[a]) : l.op[b] <= l.op[a]

ASSUME InputAssumption ==
  /\ \A i \in Inputs : i.root \in ProgId /\ i.into \subseteq Nat
  /\ Dsts \subseteq Seq(Byte)

VARIABLES input, dst, pmode, out, pctl, pframes, pcur, arg, result

pvars == <<input, dst, pmode, out, pctl, pframes, pcur, arg, result>>

PackKinds == {"Ok", "Type", "Missing", "Range", "Length", "Limit", "Encode", "NulInCstr", "NoCase",
              "UnknownFlag", "Indivisible", "Inconsistent", "Overflow", "DivZero", "Buffer"}

NoArg == <<"none">>
NoOp == "none"

pack == Last(pctl)      \* the activation that goes on
PInStruct == pctl # <<>> /\ pack.k = "struct"
PInArray == pctl # <<>> /\ pack.k = "array"

NewPFrame ==
  [regs |-> [r \in Regs |-> 0], known |-> {}, res |-> [r \in Regs |-> {}],
   spans |-> [s \in Spans |-> <<0, 0>>], digests |-> <<>>]

(***************************************************************************)
(* Source: what a Python value can be read as.  A value is <<shape, data>>.*)
(***************************************************************************)
IsInt(v) == v[1] \in {"int", "bool"}
AsInt(v) == IF v[1] = "bool" THEN (IF v[2] THEN 1 ELSE 0) ELSE v[2]
Truthy(v) ==
  CASE v[1] = "bool" -> v[2]
    [] v[1] = "int" -> v[2] # 0
    [] OTHER -> DOMAIN v[2] # {}

\* view_get, for a key that may be Skip
Given(m, key) == {m[k] : k \in key \cap DOMAIN m}

(***************************************************************************)
(* Endings.                                                                *)
(***************************************************************************)
PStop(tag, kind, o) ==
  /\ pmode' = "done"
  /\ result' = [tag |-> tag, kind |-> kind]
  /\ out' = o
  /\ pctl' = <<>> /\ pframes' = <<>> /\ pcur' = NoOp /\ arg' = NoArg
  /\ UNCHANGED input

PFail(kind) == PStop("Err", kind, <<>>) /\ UNCHANGED dst

\* PCtx::get_reg: a register whose field has not been patched is Missing.
PRegFile ==
  [r \in [up : Nat, idx : Regs] |->
     LET f == pframes[Len(pframes) - r.up]
     IN  IF r.idx \in f.known THEN Value(f.regs[r.idx]) ELSE Fault("Missing")]

PEval(e) == Eval(e, PRegFile)

(***************************************************************************)
(* Patching.  A slot is the reserved field of a derived length: an integer *)
(* or bits.  These operators take the output and the frames they change    *)
(* and return them with a kind.                                            *)
(***************************************************************************)
\* Mutant: the largest length refused.
SlotFits_Strict(slot, x) ==
  IF slot.kind = "Int" THEN PrimMin(slot.prim) <= x /\ x < PrimMax(slot.prim)
                       ELSE BitsInRange(x + 1, slot.width, slot.signed)

SlotFits(slot, x) ==
  IF slot.kind = "Int" THEN PrimMin(slot.prim) <= x /\ x <= PrimMax(slot.prim)
                       ELSE BitsInRange(x, slot.width, slot.signed)

\* The bytes a slot lies in.
SlotEnd(slot) ==
  IF slot.kind = "Int" THEN slot.pos + slot.prim.w
  ELSE slot.pos + ((slot.off + slot.width + ByteBits - 1) \div ByteBits)

SlotRaw(o, slot) == Slice(o, slot.pos, SlotEnd(slot))

\* Mutant: the wrong byte order.
PatchSlot_Swapped(o, slot, x) ==
  WriteAt(o, slot.pos, IF slot.kind = "Int" THEN WriteUint(slot.prim.w, ~slot.be, x)
                       ELSE OrBits(SlotRaw(o, slot), slot.off, slot.width, x))

PatchSlot(o, slot, x) ==
  WriteAt(o, slot.pos, IF slot.kind = "Int" THEN WriteUint(slot.prim.w, slot.be, x)
                       ELSE OrBits(SlotRaw(o, slot), slot.off, slot.width, x))

Patched(kind, o, fs) == [kind |-> kind, out |-> o, frames |-> fs]

\* PCtx::apply_inv: the register of a length that reads a * x + b gets x.  The
\* first consumer patches the field, the others must agree with it.
ApplyInv(o, fs, inv, actual) ==
  LET d == actual - inv.b
      x == Quot(d, inv.a)
      fi == Len(fs) - inv.reg.up
      idx == inv.reg.idx
      f == fs[fi]
      agree(p) == Patched(IF p THEN "Ok" ELSE "Inconsistent", o, fs)
      resv == CHOOSE v \in f.res[idx] : TRUE
  IN  CASE d \notin I64 -> Patched("Range", o, fs)
        [] d \in I64 /\ d % inv.a # 0 -> Patched("Indivisible", o, fs)
        [] OTHER ->
             IF f.res[idx] = {} THEN agree(idx \in f.known /\ f.regs[idx] = x)
             ELSE IF resv.value # {} THEN agree(x \in resv.value)
             ELSE IF ~SlotFits(resv.slot, x) THEN Patched("Range", o, fs)
             ELSE Patched("Ok", PatchSlot(o, resv.slot, x),
                    [fs EXCEPT ![fi] = [f EXCEPT !.regs[idx] = x, !.known = @ \cup {idx},
                                                 !.res[idx] = {[slot |-> resv.slot, value |-> {x}]}]])

\* PCtx::finish_len
FinishLen(o, fs, len, actual) ==
  CASE IsGreedy(len) -> Patched("Ok", o, fs)
    [] ~IsGreedy(len) /\ len.inv = {} ->
         Patched(IF actual = len.expr[1].arg THEN "Ok" ELSE "Length", o, fs)
    [] OTHER -> ApplyInv(o, fs, CHOOSE inv \in len.inv : TRUE, actual)

\* The action that ends with a patch: give up, or go on in the caller.
AfterPatch(r, ctl) ==
  \/ r.kind # "Ok" /\ PFail(r.kind)
  \/ /\ r.kind = "Ok"
     /\ pmode' = "ret"
     /\ out' = r.out /\ pframes' = r.frames /\ pctl' = ctl
     /\ UNCHANGED <<input, dst, pcur, arg, result>>

(***************************************************************************)
(* pack_struct: a mapping, a frame, a scope.  via is the Nest opcode that  *)
(* the scope is the value of.                                              *)
(***************************************************************************)
EnterScope(p, via, v) ==
  \/ v[1] # "map" /\ PFail("Type")
  \/ /\ v[1] = "map"
     /\ pmode' = "step"
     /\ pctl' = Append(pctl, [k |-> "struct", id |-> p, via |-> via, i |-> 1, from |-> 0,
                              start |-> Len(out), given |-> v[2]])
     /\ pframes' = Append(pframes, NewPFrame)
     /\ UNCHANGED <<input, dst, out, pcur, arg, result>>

PackCall ==
  /\ pmode = "idle"
  /\ EnterScope(input.root, NoOp, input.value)

(***************************************************************************)
(* pack_op: the next field.                                                *)
(***************************************************************************)
PMoreOps == pack.i <= Len(Prog[pack.id])
PNextAddr == Prog[pack.id][pack.i]
PFieldOp == Code[PNextAddr]
PAtField(o) == pmode = "step" /\ PInStruct /\ PMoreOps /\ PFieldOp.op = o
PPassed == SetTop(pctl, [pack EXCEPT !.i = @ + 1])

\* pack_fixed_item: the number it writes, the fault, the bytes.  in holds the
\* value given, if there is one; an unnamed field is zero.
ItemNumber(item, in) ==
  CASE item.expected # {} -> CHOOSE x \in item.expected : TRUE
    [] item.expected = {} /\ in # {} -> AsInt(CHOOSE v \in in : TRUE)
    [] OTHER -> 0

Supplied(item) == item.expected = {} /\ ~(item.kind = "Int" /\ item.derived)

PackFault(item, in) ==
  CASE Supplied(item) /\ in = {} /\ item.key # {} -> "Missing"
    [] item.kind = "Int" /\ Supplied(item) /\ (\E v \in in : ~IsInt(v)) -> "Type"
    [] item.kind = "Raw" /\ Supplied(item) /\ (\E v \in in : v[1] # "bytes") -> "Type"
    [] item.kind = "Raw" /\ Supplied(item)
         /\ (\E v \in in : v[1] = "bytes" /\ Len(v[2]) # item.len) -> "Length"
    [] item.kind = "Int" /\ ~item.derived /\ (\A v \in in : IsInt(v))
         /\ ItemNumber(item, in) \notin PrimMin(item.prim) .. PrimMax(item.prim) -> "Range"
    [] OTHER -> "Ok"

PackItem(item, in) ==
  CASE item.kind = "Int" ->
         IF item.derived THEN Zeros(item.prim.w)
         ELSE WriteUint(item.prim.w, item.be, ItemNumber(item, in))
    [] item.kind = "Bool" ->
         LET on == IF item.expected # {} THEN TRUE \in item.expected ELSE \E v \in in : Truthy(v)
         IN  IF on THEN <<1>> ELSE <<0>>
    [] item.kind = "Raw" ->
         IF item.expected # {} THEN CHOOSE x \in item.expected : TRUE
         ELSE IF in # {} THEN (CHOOSE v \in in : TRUE)[2] ELSE Zeros(item.len)

\* The first item at fault is the one reported.
FirstFault(faults) ==
  \E i \in DOMAIN faults :
    /\ faults[i] # "Ok"
    /\ \A j \in 1 .. (i - 1) : faults[j] = "Ok"
    /\ PFail(faults[i])

NoFault(faults) == \A i \in DOMAIN faults : faults[i] = "Ok"

\* The frame after a run in which some items write numbers to slots: an input
\* register is known at once, a derived one has a reservation.
RunFrame(f, items, numbers, slots) ==
  LET writer(r) == CHOOSE i \in DOMAIN slots : r \in items[i].reg
      inputs == UNION {items[i].reg : i \in {j \in DOMAIN slots : ~items[j].derived}}
      deriveds == UNION {items[i].reg : i \in {j \in DOMAIN slots : items[j].derived}}
  IN  [f EXCEPT !.regs = [r \in Regs |-> IF r \in inputs THEN Wrap(numbers[writer(r)]) ELSE @[r]],
                !.known = @ \cup inputs,
                !.res = [r \in Regs |-> IF r \in deriveds
                                        THEN {[slot |-> slots[writer(r)], value |-> {}]}
                                        ELSE @[r]]]

PSetSpan(f, span, s, e) ==
  [f EXCEPT !.spans = [x \in Spans |-> IF x \in span THEN <<s, e>> ELSE f.spans[x]]]

SpanItems(f, items) ==
  [f EXCEPT !.spans = [s \in Spans |->
     LET at == {i \in DOMAIN items : s \in items[i].span}
         it == items[CHOOSE i \in at : TRUE]
     IN  IF at = {} THEN @[s] ELSE <<Len(out) + it.off, Len(out) + it.off + ItemWidth(it)>>]]

PutFixed ==
  /\ PAtField("Fixed")
  /\ LET items == PFieldOp.items
         in(item) == Given(pack.given, item.key)
         faults == [i \in DOMAIN items |-> PackFault(items[i], in(items[i]))]
         ints == {i \in DOMAIN items : items[i].kind = "Int"}
         numbers == [i \in ints |-> ItemNumber(items[i], in(items[i]))]
         slots == [i \in ints |-> [kind |-> "Int", pos |-> Len(out) + items[i].off,
                                   prim |-> items[i].prim, be |-> items[i].be]]
     IN
     \/ FirstFault(faults)
     \/ /\ NoFault(faults)
        /\ out' = out \o FlattenSeq([i \in DOMAIN items |-> PackItem(items[i], in(items[i]))])
        /\ pframes' = SetTop(pframes, SpanItems(RunFrame(Last(pframes), items, numbers, slots), items))
        /\ pctl' = PPassed
        /\ UNCHANGED <<input, dst, pmode, pcur, arg, result>>

\* pack_bit_item
BitFault(item, in) ==
  CASE item.derived -> "Ok"
    [] ~item.derived /\ in = {} /\ item.key # {} -> "Missing"
    [] ~item.derived /\ (\E v \in in : ~IsInt(v)) -> "Type"
    [] ~item.derived /\ (\E v \in in : IsInt(v) /\ ~BitsInRange(AsInt(v), item.width, item.signed)) -> "Range"
    [] OTHER -> "Ok"

BitNumber(item, in) == IF in = {} \/ item.derived THEN 0 ELSE AsInt(CHOOSE v \in in : TRUE)

\* The bytes of a run: every number ORed into its field.
PackBits(nbytes, items, numbers) ==
  LET run[i \in 0 .. Len(items)] ==
        IF i = 0 THEN Zeros(nbytes) ELSE OrBits(run[i - 1], items[i].off, items[i].width, numbers[i])
  IN  run[Len(items)]

PutBits ==
  /\ PAtField("BitRun")
  /\ LET items == PFieldOp.items
         in(item) == Given(pack.given, item.key)
         faults == [i \in DOMAIN items |-> BitFault(items[i], in(items[i]))]
         numbers == [i \in DOMAIN items |-> BitNumber(items[i], in(items[i]))]
         slots == [i \in DOMAIN items |-> [kind |-> "Bits", pos |-> Len(out), off |-> items[i].off,
                                           width |-> items[i].width, signed |-> items[i].signed]]
     IN
     \/ FirstFault(faults)
     \/ /\ NoFault(faults)
        /\ out' = out \o PackBits(PFieldOp.nbytes, items, numbers)
        /\ pframes' = SetTop(pframes, RunFrame(Last(pframes), items, numbers, slots))
        /\ pctl' = PPassed
        /\ UNCHANGED <<input, dst, pmode, pcur, arg, result>>

\* Whatever the mapping holds, a digest is reserved as zeros.
PutDigest ==
  /\ PAtField("Digest")
  /\ out' = out \o Zeros(ChecksumWidth)
  /\ pframes' = SetTop(pframes,
       [PSetSpan(Last(pframes), PFieldOp.span, Len(out), Len(out) + ChecksumWidth)
          EXCEPT !.digests = Append(@, [at |-> PNextAddr, pos |-> Len(out)])])
  /\ pctl' = PPassed
  /\ UNCHANGED <<input, dst, pmode, pcur, arg, result>>

\* pack_value on the opcode at a with value v.
PackValue(a, v, ctl) ==
  /\ pmode' = "value"
  /\ pcur' = a /\ arg' = v /\ pctl' = ctl
  /\ UNCHANGED <<input, dst, out, pframes, result>>

\* A named field whose value the mapping must hold.
PackNamed(a) ==
  LET v == Given(pack.given, PFieldOp.key) IN
  \/ v = {} /\ PFail("Missing")
  \/ \E x \in v : PackValue(a, x, SetTop(pctl, [pack EXCEPT !.from = Len(out)]))

PutCond ==
  /\ PAtField("Cond")
  /\ LET p == PEval(PFieldOp.pred) IN
     \/ p.kind # "Ok" /\ PFail(p.kind)
     \/ p.kind = "Ok" /\ p.v # 0 /\ PackNamed(PFieldOp.then)
     \/ /\ p.kind = "Ok" /\ p.v = 0
        /\ pctl' = PPassed
        /\ UNCHANGED <<input, dst, pmode, out, pframes, pcur, arg, result>>

PutOther ==
  /\ \E o \in ValueOps \ {"Fixed"} : PAtField(o)
  /\ PackNamed(PNextAddr)

PutDone ==
  /\ pmode = "ret" /\ PInStruct
  /\ pmode' = "step"
  /\ pframes' = SetTop(pframes, PSetSpan(Last(pframes), PFieldOp.span, pack.from, Len(out)))
  /\ pctl' = PPassed
  /\ UNCHANGED <<input, dst, out, pcur, arg, result>>

(***************************************************************************)
(* pack_value, by opcode.                                                  *)
(***************************************************************************)
POp == Code[pcur]
PAtValue(o) == pmode = "value" /\ POp.op = o

\* Append raw, then settle its length.
Extend(raw, len) == AfterPatch(FinishLen(out \o raw, pframes, len, Len(raw)), pctl)

PackFixed ==
  /\ PAtValue("Fixed")
  /\ LET item == POp.items[1] IN
     \/ PackFault(item, {arg}) # "Ok" /\ PFail(PackFault(item, {arg}))
     \/ PackFault(item, {arg}) = "Ok" /\ Extend(PackItem(item, {arg}), Greedy)

PackBytes ==
  /\ PAtValue("Bytes")
  /\ \/ arg[1] # "bytes" /\ PFail("Type")
     \/ arg[1] = "bytes" /\ Len(arg[2]) > POp.max /\ PFail("Limit")
     \/ arg[1] = "bytes" /\ Len(arg[2]) <= POp.max /\ Extend(arg[2], POp.len)

PackStr ==
  /\ PAtValue("Str")
  /\ \/ arg[1] # "str" /\ PFail("Type")
     \/ arg[1] = "str" /\ ~IsText(arg[2], POp.enc) /\ PFail("Encode")
     \/ /\ arg[1] = "str" /\ IsText(arg[2], POp.enc)
        /\ \/ Len(arg[2]) > POp.max /\ PFail("Limit")
           \/ Len(arg[2]) <= POp.max /\ Extend(arg[2], POp.len)

PackCStr ==
  /\ PAtValue("CStr")
  /\ \/ arg[1] # "str" /\ PFail("Type")
     \/ arg[1] = "str" /\ ~IsText(arg[2], POp.enc) /\ PFail("Encode")
     \/ /\ arg[1] = "str" /\ IsText(arg[2], POp.enc)
        /\ LET nul == \E i \in DOMAIN arg[2] : arg[2][i] = 0 IN
           \/ nul /\ PFail("NulInCstr")
           \/ ~nul /\ Len(arg[2]) > POp.max /\ PFail("Limit")
           \/ ~nul /\ Len(arg[2]) <= POp.max /\ Extend(Append(arg[2], 0), Greedy)

\* pack_flags.  The largest value of a field is (1u64 << width) - 1, and the
\* shift wraps for a field as wide as the word.
FlagMax(item) == 2 ^ (item.width % WordBits) - 1

FlagFault(item, in) ==
  CASE item.width # 1 /\ (\E v \in in : ~IsInt(v)) -> "Type"
    [] item.width # 1 /\ (\E v \in in : IsInt(v) /\ AsInt(v) \notin 0 .. FlagMax(item)) -> "Range"
    [] OTHER -> "Ok"

\* Mutant: only the lowest bit of a field is kept.
FlagNumber_LowBit(item, in) ==
  CASE in = {} -> 0
    [] in # {} /\ item.width = 1 -> IF \E v \in in : Truthy(v) THEN 1 ELSE 0
    [] OTHER -> AsInt(CHOOSE v \in in : TRUE) % 2

FlagNumber(item, in) ==
  CASE in = {} -> 0
    [] in # {} /\ item.width = 1 -> IF \E v \in in : Truthy(v) THEN 1 ELSE 0
    [] OTHER -> AsInt(CHOOSE v \in in : TRUE)

PackFlags ==
  /\ PAtValue("Flags")
  /\ \/ arg[1] # "map" /\ PFail("Type")
     \/ /\ arg[1] = "map"
        /\ LET items == POp.items
               keep == IF POp.rest = "Keep" THEN {"_rest"} ELSE {}
               unknown == DOMAIN arg[2] \ ({items[i].key : i \in DOMAIN items} \cup keep)
               in(item) == Given(arg[2], {item.key})
               faults == [i \in DOMAIN items |-> FlagFault(items[i], in(items[i]))]
               good == NoFault(faults)
               rest == Given(arg[2], keep)
               restOk(v) == /\ AsInt(v) \in 0 .. PrimMax(POp.prim)
                            /\ Leftover(AsInt(v), items) = AsInt(v)
               extra == IF rest = {} THEN 0 ELSE AsInt(CHOOSE v \in rest : TRUE)
               raw == extra + Total([i \in DOMAIN items |->
                                       FlagNumber(items[i], in(items[i])) * 2 ^ items[i].shift])
           IN
           \/ unknown # {} /\ PFail("UnknownFlag")
           \/ unknown = {} /\ FirstFault(faults)
           \/ unknown = {} /\ good /\ (\E v \in rest : ~IsInt(v)) /\ PFail("Type")
           \/ unknown = {} /\ good /\ (\E v \in rest : IsInt(v) /\ ~restOk(v)) /\ PFail("Range")
           \/ /\ unknown = {} /\ good /\ \A v \in rest : IsInt(v) /\ restOk(v)
              /\ Extend(WriteUint(POp.prim.w, POp.be, raw), Greedy)

PackNest ==
  /\ PAtValue("Nest")
  /\ EnterScope(POp.prog, pcur, arg)

PackArray ==
  /\ PAtValue("Array")
  /\ \/ arg[1] # "list" /\ PFail("Type")
     \/ /\ arg[1] = "list"
        /\ pmode' = "step"
        /\ pctl' = Append(pctl, [k |-> "array", id |-> pcur, via |-> NoOp, i |-> 1, from |-> 0,
                                 start |-> Len(out), given |-> arg[2]])
        /\ UNCHANGED <<input, dst, out, pframes, pcur, arg, result>>

PackSwitch ==
  /\ PAtValue("Switch")
  /\ LET tag == PEval(POp.on)
         hits == {POp.cases[i].to : i \in {j \in DOMAIN POp.cases : POp.cases[j].tag = tag.v}}
         targets == IF hits # {} THEN hits ELSE POp.default IN
     \/ tag.kind # "Ok" /\ PFail(tag.kind)
     \/ tag.kind = "Ok" /\ targets = {} /\ PFail("NoCase")
     \/ tag.kind = "Ok" /\ \E a \in targets : PackValue(a, arg, pctl)

(***************************************************************************)
(* The array loop, and the count once it is over.                          *)
(***************************************************************************)
PutElem ==
  /\ pmode = "step" /\ PInArray /\ pack.i <= Len(pack.given)
  /\ PackValue(Code[pack.id].elem, pack.given[pack.i], pctl)

PutElemDone ==
  /\ pmode = "ret" /\ PInArray
  /\ pmode' = "step"
  /\ pctl' = PPassed
  /\ UNCHANGED <<input, dst, out, pframes, pcur, arg, result>>

PutArrayEnd ==
  /\ pmode = "step" /\ PInArray /\ pack.i > Len(pack.given)
  /\ AfterPatch(FinishLen(out, pframes, Code[pack.id].count, Len(pack.given)), Front(pctl))

(***************************************************************************)
(* The end of a scope: its digests in declaration order, each over the     *)
(* output as the earlier ones left it, then the size of its window.        *)
(***************************************************************************)
DigestOver(o, d, start, spans) ==
  LET over == Code[d.at].over
  IN  IF over = <<>> THEN Slice(o, start, Len(o))
      ELSE FlattenSeq([i \in DOMAIN over |-> Slice(o, spans[over[i]][1], spans[over[i]][2])])

Seal(o, start, f) ==
  LET seal(acc, d) ==
        WriteAt(acc, d.pos, WriteUint(ChecksumWidth, Code[d.at].be,
                                      IpChecksum(DigestOver(acc, d, start, f.spans))))
      sealed[i \in 0 .. Len(f.digests)] == IF i = 0 THEN o ELSE seal(sealed[i - 1], f.digests[i])
  IN  sealed[Len(f.digests)]

\* Mutant: what fits is copied before the check.
Deliver_Partial(o) ==
  \/ input.into = {} /\ PStop("Ok", "Ok", o) /\ UNCHANGED dst
  \/ \E off \in input.into :
       \/ off + Len(o) > Len(dst) /\ PStop("Err", "Buffer", <<>>) /\ dst' = WriteAt(dst, off, o)
       \/ off + Len(o) <= Len(dst) /\ PStop("Ok", "Ok", o) /\ dst' = WriteAt(dst, off, o)

\* run_into_with: all of the bytes or none of them.
Deliver(o) ==
  \/ input.into = {} /\ PStop("Ok", "Ok", o) /\ UNCHANGED dst
  \/ \E off \in input.into :
       \/ off + Len(o) > Len(dst) /\ PFail("Buffer")
       \/ off + Len(o) <= Len(dst) /\ PStop("Ok", "Ok", o) /\ dst' = WriteAt(dst, off, o)

LeaveScope ==
  /\ pmode = "step" /\ PInStruct /\ ~PMoreOps
  /\ LET o == Seal(out, pack.start, Last(pframes)) IN
     \/ Len(pctl) = 1 /\ Deliver(o)
     \/ /\ Len(pctl) > 1
        /\ LET size == Code[pack.via].size
               len == IF size = {} THEN Greedy ELSE CHOOSE l \in size : TRUE
           IN  AfterPatch(FinishLen(o, Front(pframes), len, Len(o) - pack.start), Front(pctl))

-----------------------------------------------------------------------------
PackIdle ==
  /\ dst \in Dsts
  /\ pmode = "idle"
  /\ out = <<>> /\ pctl = <<>> /\ pframes = <<>>
  /\ pcur = NoOp /\ arg = NoArg
  /\ result = [tag |-> "none", kind |-> "Ok"]

PackInit == input \in Inputs /\ PackIdle

PutField == PutFixed \/ PutBits \/ PutDigest \/ PutCond \/ PutOther \/ PutDone
PutValue == PackFixed \/ PackBytes \/ PackStr \/ PackCStr \/ PackFlags \/ PackNest \/ PackArray \/ PackSwitch
PutArray == PutElem \/ PutElemDone \/ PutArrayEnd

PackStep == PackCall \/ PutField \/ PutValue \/ PutArray \/ LeaveScope

PackReturned == pmode = "done" /\ UNCHANGED pvars

PackSpec == PackInit /\ [][PackStep \/ PackReturned]_pvars
-----------------------------------------------------------------------------
(***************************************************************************)
(* Properties.                                                             *)
(***************************************************************************)
\* What a decoder reads back from a slot.
SlotValue(o, slot) ==
  IF slot.kind = "Int" THEN ReadInt(SlotRaw(o, slot), slot.prim, slot.be)
                       ELSE ReadBits(SlotRaw(o, slot), slot.off, slot.width, slot.signed)

Resvs == {p \in (DOMAIN pframes) \X Regs : pframes[p[1]].res[p[2]] # {}}

\* The encoder's state is well typed: output of bytes, registers of i64s, one
\* frame per open structure, kinds that the encoder reports.
PackTypeOK ==
  /\ pmode \in {"idle", "step", "value", "ret", "done"}
  /\ out \in Seq(Byte)
  /\ dst \in Seq(Byte)
  /\ result \in [tag : {"none", "Ok", "Err"}, kind : PackKinds]
  /\ (pmode \in {"step", "value", "ret"}) <=> pctl # <<>>
  /\ Len(pframes) = Cardinality({i \in DOMAIN pctl : pctl[i].k = "struct"})
  /\ \A i \in DOMAIN pframes :
       /\ pframes[i].regs \in [Regs -> I64]
       /\ pframes[i].known \subseteq Regs

\* A reserved field stays zero until its length is known, which is what
\* OR-ing bits in and digesting "self as zeros" rely on, and from then on it
\* holds the register's value: no later write disturbs a patched length.
SlotsHold ==
  \A p \in Resvs : \A v \in pframes[p[1]].res[p[2]] :
    /\ SlotEnd(v.slot) <= Len(out)
    /\ SlotValue(out, v.slot) = (IF v.value = {} THEN 0 ELSE CHOOSE x \in v.value : TRUE)
    /\ v.value # {} <=> p[2] \in pframes[p[1]].known
    /\ v.value # {} => v.value = {pframes[p[1]].regs[p[2]]}

\* pack_into writes the whole encoding or, on any error, nothing, and nothing
\* outside the bytes it reports.
IntoAllOrNothing ==
  [][\/ dst' = dst
     \/ /\ result'.tag = "Ok"
        /\ \E off \in input.into :
             /\ Slice(dst', off, off + Len(out')) = out'
             /\ \A i \in DOMAIN dst : i \notin (off + 1) .. (off + Len(out')) => dst'[i] = dst[i]]_pvars
=============================================================================
