--------------------------- MODULE Compiler_proofs ---------------------------
(***************************************************************************)
(* The schema compiler is proved about by one inductive invariant,         *)
(* CompilerInv, for every set of types and names and every limit.          *)
(*                                                                         *)
(* What makes it inductive is the agreement between code and notes.  Code  *)
(* that has read a field further out is somewhere: in an opcode of an open *)
(* scope, in the hands of an activation that waits, or in got.  Each read  *)
(* aims at a scope, counted from the outermost, and an index (Aim).  Every *)
(* aim hits a symbol with that name and register which is noted to be read *)
(* in that role (AllHit), and no symbol is noted to be read unless an aim  *)
(* says so (AllNoted).  A reference adds its own aim; opening, finishing   *)
(* and handing over only move aims around (Moved).                         *)
(*                                                                         *)
(* The parts: ScopeOk, of one scope; Level, how activations and open       *)
(* scopes lie in each other; Core, both with the aims; Good, Core with     *)
(* sizes and depths; CompilerInv, Good by mode, and ProgOk of a program.   *)
(***************************************************************************)
EXTENDS Compiler, Stacks

OpFields == {"op", "lens", "reads", "min", "static", "frames", "width", "items", "key", "span", "over", "own"}
ItemFields == {"kind", "off", "prim", "len", "key", "const", "reg", "span", "derived"}
SymFields == {"name", "op", "item", "refable", "flags", "const", "spannable", "reg", "span",
              "len_referenced", "used_in_on"}
ScopeFields == {"ops", "syms", "nregs", "nspans", "digests"}

\* Records with these fields, whatever the fields hold.
ItemShape(item) == DOMAIN item = ItemFields
OpShape(op) == DOMAIN op = OpFields /\ Stack(op.items) /\ \A i \in DOMAIN op.items : ItemShape(op.items[i])
SymShape(sym) == DOMAIN sym = SymFields
ScopeShape(sc) ==
  /\ DOMAIN sc = ScopeFields
  /\ Stack(sc.ops) /\ Stack(sc.syms) /\ Stack(sc.digests)
  /\ \A o \in DOMAIN sc.ops : OpShape(sc.ops[o])
  /\ \A p \in DOMAIN sc.syms : SymShape(sc.syms[p])

\* The item a symbol stands for.
ItemOf(sc, sym) == sc.ops[sym.op].items[sym.item]
SymPlaced(sc, sym) ==
  /\ sym.op \in DOMAIN sc.ops
  /\ sym.item = 0 => sym.refable = FALSE /\ sym.reg = {} /\ sc.ops[sym.op].key = {sym.name}
  /\ sym.item # 0 => /\ sym.item \in DOMAIN sc.ops[sym.op].items
                     /\ ItemOf(sc, sym).key = {sym.name}
                     /\ ItemOf(sc, sym).reg = sym.reg
                     /\ ItemOf(sc, sym).const = sym.const

\* What a reference changes: registers and the notes on them.
SameBut(f, g, S) == DOMAIN g = DOMAIN f /\ \A x \in DOMAIN f \ S : g[x] = f[x]
SameItems(its, its2) ==
  DOMAIN its2 = DOMAIN its /\ \A i \in DOMAIN its : SameBut(its[i], its2[i], {"reg"})
SameScope(sc, sc2) ==
  /\ SameBut(sc, sc2, {"ops", "syms", "nregs"})
  /\ DOMAIN sc2.ops = DOMAIN sc.ops
  /\ \A o \in DOMAIN sc.ops : SameBut(sc.ops[o], sc2.ops[o], {"items"}) /\ SameItems(sc.ops[o].items, sc2.ops[o].items)
  /\ DOMAIN sc2.syms = DOMAIN sc.syms
  /\ \A p \in DOMAIN sc.syms : SameBut(sc.syms[p], sc2.syms[p], {"reg", "len_referenced", "used_in_on"})

\* One member of a set that has one.
LEMMA TheOne == ASSUME NEW S, S # {} PROVE The(S) \in S
  BY DEF The

LEMMA TheOnly == ASSUME NEW x PROVE The({x}) = x
  BY DEF The

LEMMA StackDom ==
  ASSUME NEW s, Stack(s)
  PROVE  Len(s) \in Nat /\ DOMAIN s = 1 .. Len(s)
  BY DEF Stack

\* Changing an element of a sequence.
Put(s, k, x) == [s EXCEPT ![k] = x]
LEMMA StackPut ==
  ASSUME NEW s, Stack(s), NEW k \in DOMAIN s, NEW x
  PROVE  /\ Stack(Put(s, k, x))
         /\ DOMAIN Put(s, k, x) = DOMAIN s
         /\ Len(Put(s, k, x)) = Len(s)
         /\ Put(s, k, x)[k] = x
         /\ \A i \in DOMAIN s : i # k => Put(s, k, x)[i] = s[i]
<1> DEFINE S == Range(s) \cup {x}
<1>1. s \in Seq(S) /\ x \in S
  BY SeqMonotonic DEF Stack
<1>2. k \in 1 .. Len(s)
  BY StackDom
<1> HIDE DEF S
<1>3. Put(s, k, x) \in Seq(S) /\ Len(Put(s, k, x)) = Len(s)
  BY <1>1, <1>2, ExceptSeq DEF Put
<1>4. \A i \in DOMAIN s : Put(s, k, x)[i] = IF i = k THEN x ELSE s[i]
  BY DEF Put
<1>5. DOMAIN Put(s, k, x) = DOMAIN s
  BY DEF Put
<1> QED
  BY <1>3, <1>4, <1>5, IsStack

\* patch_reg, by the fields it leaves.
RegAt(sc, o, i) == sc.ops[o].items[i].reg
Patched(sc, sc2, a, b, idx) ==
  /\ DOMAIN sc2 = ScopeFields /\ \A x \in ScopeFields \ {"ops"} : sc2[x] = sc[x]
  /\ ScopeShape(sc2)
  /\ DOMAIN sc2.ops = DOMAIN sc.ops
  /\ \A o \in DOMAIN sc.ops :
       /\ SameBut(sc.ops[o], sc2.ops[o], {"items"})
       /\ SameItems(sc.ops[o].items, sc2.ops[o].items)
       /\ \A i \in DOMAIN sc.ops[o].items :
            RegAt(sc2, o, i) = IF o = a /\ i = b THEN {idx} ELSE RegAt(sc, o, i)

LEMMA PatchRegIs ==
  ASSUME NEW sc, ScopeShape(sc), NEW p \in DOMAIN sc.syms, NEW idx,
         SymPlaced(sc, sc.syms[p]), sc.syms[p].item # 0
  PROVE  Patched(sc, PatchReg(sc, p, idx), sc.syms[p].op, sc.syms[p].item, idx)
<1> DEFINE sym == sc.syms[p]
           a == sym.op
           b == sym.item
           item == sc.ops[a].items[b]
           item2 == [item EXCEPT !.reg = {idx}]
           its2 == Put(sc.ops[a].items, b, item2)
           op2 == [sc.ops[a] EXCEPT !.items = its2]
           ops2 == Put(sc.ops, a, op2)
           sc2 == [sc EXCEPT !.ops = ops2]
<1>1. PatchReg(sc, p, idx) = sc2
  BY DEF PatchReg, Put
<1>2. a \in DOMAIN sc.ops /\ b \in DOMAIN sc.ops[a].items /\ Stack(sc.ops) /\ Stack(sc.ops[a].items)
      /\ DOMAIN sc.ops[a] = OpFields /\ DOMAIN item = ItemFields /\ DOMAIN sc = ScopeFields
  BY DEF SymPlaced, ScopeShape, OpShape, ItemShape
<1>3. SameBut(item, item2, {"reg"}) /\ item2.reg = {idx} /\ DOMAIN item2 = ItemFields
  BY <1>2 DEF SameBut, ItemFields
<1> HIDE DEF item2
<1>4. Stack(its2) /\ DOMAIN its2 = DOMAIN sc.ops[a].items /\ its2[b] = item2
      /\ \A i \in DOMAIN sc.ops[a].items : i # b => its2[i] = sc.ops[a].items[i]
  <2>1. PICK s : s = sc.ops[a].items
    OBVIOUS
  <2>2. b \in DOMAIN s /\ Stack(s)
    BY <1>2, <2>1
  <2> HIDE DEF b
  <2>3. Stack(Put(s, b, item2)) /\ DOMAIN Put(s, b, item2) = DOMAIN s /\ Put(s, b, item2)[b] = item2
        /\ \A i \in DOMAIN s : i # b => Put(s, b, item2)[i] = s[i]
    BY <2>2, StackPut
  <2> QED
    BY <2>1, <2>3
<1> HIDE DEF its2
<1>5. SameBut(sc.ops[a], op2, {"items"}) /\ op2.items = its2 /\ DOMAIN op2 = OpFields
  BY <1>2 DEF SameBut, OpFields
<1> HIDE DEF op2
<1>6. Stack(ops2) /\ DOMAIN ops2 = DOMAIN sc.ops /\ ops2[a] = op2
      /\ \A o \in DOMAIN sc.ops : o # a => ops2[o] = sc.ops[o]
  BY <1>2, StackPut
<1> HIDE DEF ops2
<1>7. DOMAIN sc2 = ScopeFields /\ sc2.ops = ops2 /\ \A x \in ScopeFields \ {"ops"} : sc2[x] = sc[x]
  BY <1>2 DEF ScopeFields
<1> HIDE DEF sc2
<1>8. SameItems(sc.ops[a].items, its2)
  BY <1>3, <1>4 DEF SameItems, SameBut
<1>9. \A o \in DOMAIN sc.ops :
        SameBut(sc.ops[o], ops2[o], {"items"}) /\ SameItems(sc.ops[o].items, ops2[o].items)
  <2> TAKE o \in DOMAIN sc.ops
  <2>1. CASE o = a
    BY <2>1, <1>5, <1>6, <1>8
  <2>2. CASE o # a
    BY <2>2, <1>6 DEF SameItems, SameBut
  <2> QED
    BY <2>1, <2>2
<1>10. \A o \in DOMAIN sc.ops : OpShape(ops2[o])
  <2> TAKE o \in DOMAIN sc.ops
  <2>1. CASE o = a
    <3>1. \A i \in DOMAIN its2 : ItemShape(its2[i])
      BY <1>2, <1>3, <1>4 DEF OpShape, ItemShape, ScopeShape
    <3> QED
      BY <2>1, <3>1, <1>4, <1>5, <1>6 DEF OpShape
  <2>2. CASE o # a
    BY <2>2, <1>6 DEF ScopeShape
  <2> QED
    BY <2>1, <2>2
<1>11. ScopeShape(sc2)
  BY <1>6, <1>7, <1>10 DEF ScopeShape, ScopeFields
<1>12. \A o \in DOMAIN sc.ops : \A i \in DOMAIN sc.ops[o].items :
                       ops2[o].items[i].reg = IF o = a /\ i = b THEN {idx} ELSE sc.ops[o].items[i].reg
  BY <1>3, <1>4, <1>5, <1>6
<1> QED
  BY <1>1, <1>6, <1>7, <1>9, <1>11, <1>12 DEF Patched, RegAt

(***************************************************************************)
(* A scope: where its items lie, who owns its registers and what its       *)
(* symbols stand for.                                                      *)
(***************************************************************************)
Lies(item, width) ==
  item.off \in Nat /\ item.len \in Nat /\ item.prim.w = item.len /\ item.off + item.len <= width
RegOf1(reg, n) == reg = {} \/ \E idx \in 0 .. (n - 1) : reg = {idx}
Same(o, i, o2, i2) == o = o2 /\ i = i2

RunsOk(sc) ==
  \A o \in DOMAIN sc.ops : sc.ops[o].op = "Fixed" =>
    sc.ops[o].width \in Nat /\ \A i \in DOMAIN sc.ops[o].items : Lies(sc.ops[o].items[i], sc.ops[o].width)
RegsIn(sc) == \A o \in DOMAIN sc.ops : \A i \in DOMAIN sc.ops[o].items : RegOf1(RegAt(sc, o, i), sc.nregs)
RegsApart(sc) ==
  \A o, o2 \in DOMAIN sc.ops : \A i \in DOMAIN sc.ops[o].items : \A i2 \in DOMAIN sc.ops[o2].items :
    RegAt(sc, o, i) = RegAt(sc, o2, i2) /\ RegAt(sc, o, i) # {} => Same(o, i, o2, i2)
RegsOwned(sc) ==
  \A idx \in 0 .. (sc.nregs - 1) : \E o \in DOMAIN sc.ops : \E i \in DOMAIN sc.ops[o].items : RegAt(sc, o, i) = {idx}
SymsOk(sc) ==
  /\ \A p \in DOMAIN sc.syms :
       /\ SymPlaced(sc, sc.syms[p])
       /\ sc.syms[p].const \in BOOLEAN /\ sc.syms[p].len_referenced \in BOOLEAN /\ sc.syms[p].used_in_on \in BOOLEAN
  /\ \A p, q \in DOMAIN sc.syms : sc.syms[p].name = sc.syms[q].name => p = q
ScopeOk(sc) ==
  /\ ScopeShape(sc) /\ sc.nregs \in Nat /\ sc.nregs <= MAX_REGS
  /\ RunsOk(sc) /\ RegsIn(sc) /\ RegsApart(sc) /\ RegsOwned(sc) /\ SymsOk(sc)

\* Two symbols do not stand for one item.
LEMMA SymsApart ==
  ASSUME NEW sc, ScopeOk(sc), NEW p \in DOMAIN sc.syms, NEW q \in DOMAIN sc.syms,
         sc.syms[p].op = sc.syms[q].op, sc.syms[p].item = sc.syms[q].item
  PROVE  p = q
<1>1. SymPlaced(sc, sc.syms[p]) /\ SymPlaced(sc, sc.syms[q])
  BY DEF ScopeOk, SymsOk
<1>2. {sc.syms[p].name} = {sc.syms[q].name}
  <2>1. CASE sc.syms[p].item = 0
    BY <1>1, <2>1 DEF SymPlaced
  <2>2. CASE sc.syms[p].item # 0
    BY <1>1, <2>2 DEF SymPlaced, ItemOf
  <2> QED
    BY <2>1, <2>2
<1>3. sc.syms[p].name = sc.syms[q].name
  BY <1>2
<1> QED
  BY <1>3 DEF ScopeOk, SymsOk

\* What stays right when only a register changes: where items lie.
LEMMA RunsStay ==
  ASSUME NEW sc, NEW sc2, ScopeShape(sc), SameScope(sc, sc2), RunsOk(sc)
  PROVE  RunsOk(sc2)
<1> SUFFICES ASSUME NEW o \in DOMAIN sc2.ops, sc2.ops[o].op = "Fixed"
             PROVE  sc2.ops[o].width \in Nat
                    /\ \A i \in DOMAIN sc2.ops[o].items : Lies(sc2.ops[o].items[i], sc2.ops[o].width)
  BY DEF RunsOk
<1>1. o \in DOMAIN sc.ops /\ SameBut(sc.ops[o], sc2.ops[o], {"items"}) /\ SameItems(sc.ops[o].items, sc2.ops[o].items)
  BY DEF SameScope
<1>2. OpShape(sc.ops[o])
  BY <1>1 DEF ScopeShape
<1>3. sc2.ops[o].op = sc.ops[o].op /\ sc2.ops[o].width = sc.ops[o].width
  BY <1>1, <1>2 DEF SameBut, OpShape, OpFields
<1>4. sc.ops[o].width \in Nat /\ \A i \in DOMAIN sc.ops[o].items : Lies(sc.ops[o].items[i], sc.ops[o].width)
  BY <1>1, <1>3 DEF RunsOk
<1>5. ASSUME NEW i \in DOMAIN sc2.ops[o].items PROVE Lies(sc2.ops[o].items[i], sc2.ops[o].width)
  <2>1. i \in DOMAIN sc.ops[o].items /\ SameBut(sc.ops[o].items[i], sc2.ops[o].items[i], {"reg"})
    BY <1>1 DEF SameItems
  <2>2. DOMAIN sc.ops[o].items[i] = ItemFields
    BY <1>2, <2>1 DEF OpShape, ItemShape
  <2>3. /\ sc2.ops[o].items[i].off = sc.ops[o].items[i].off
        /\ sc2.ops[o].items[i].len = sc.ops[o].items[i].len
        /\ sc2.ops[o].items[i].prim = sc.ops[o].items[i].prim
    BY <2>1, <2>2 DEF SameBut, ItemFields
  <2> QED
    BY <1>3, <1>4, <2>1, <2>3 DEF Lies
<1> QED
  BY <1>3, <1>4, <1>5

\* Allocate gives a symbol without a register the next one.
LEMMA AllocateIs ==
  ASSUME NEW sc, ScopeOk(sc), NEW p \in DOMAIN sc.syms, sc.syms[p].item # 0,
         sc.syms[p].reg = {}, sc.nregs < MAX_REGS
  PROVE  LET sc2 == Allocate(sc, p)
         IN  /\ ScopeOk(sc2) /\ SameScope(sc, sc2) /\ DOMAIN sc2 = ScopeFields
             /\ sc2.syms[p].reg = {sc.nregs}
             /\ SameBut(sc.syms[p], sc2.syms[p], {"reg"})
             /\ \A q \in DOMAIN sc.syms : q # p => sc2.syms[q] = sc.syms[q]
<1> DEFINE sym == sc.syms[p]
           n == sc.nregs
           sc1 == PatchReg(sc, p, n)
           sym2 == [sym EXCEPT !.reg = {n}]
           syms2 == Put(sc.syms, p, sym2)
           sc2 == Allocate(sc, p)
<1>1. /\ ScopeShape(sc) /\ DOMAIN sc = ScopeFields /\ Stack(sc.syms) /\ DOMAIN sym = SymFields /\ n \in Nat
      /\ SymPlaced(sc, sym)
  BY DEF ScopeOk, ScopeShape, SymShape, SymsOk
<1>2. /\ DOMAIN sc1 = ScopeFields /\ \A x \in ScopeFields \ {"ops"} : sc1[x] = sc[x]
      /\ ScopeShape(sc1)
      /\ DOMAIN sc1.ops = DOMAIN sc.ops
      /\ \A o \in DOMAIN sc.ops :
           /\ SameBut(sc.ops[o], sc1.ops[o], {"items"})
           /\ SameItems(sc.ops[o].items, sc1.ops[o].items)
           /\ \A i \in DOMAIN sc.ops[o].items :
                RegAt(sc1, o, i) = IF o = sym.op /\ i = sym.item THEN {n} ELSE RegAt(sc, o, i)
  BY <1>1, PatchRegIs DEF Patched
<1> HIDE DEF sc1
<1>3. sc1.syms = sc.syms /\ sc1.nregs = n /\ sc1.nspans = sc.nspans /\ sc1.digests = sc.digests
  BY <1>2 DEF ScopeFields
<1>4. sc2 = [[sc1 EXCEPT !.nregs = n + 1] EXCEPT !.syms = syms2]
  <2>1. sc2 = [sc1 EXCEPT !.nregs = @ + 1, !.syms[p].reg = {n}]
    BY DEF Allocate, sc1
  <2> QED
    BY <2>1, <1>2, <1>3 DEF Put, ScopeFields
<1>5. DOMAIN sym2 = SymFields /\ sym2.reg = {n} /\ SameBut(sym, sym2, {"reg"})
  BY <1>1 DEF SameBut, SymFields
<1> HIDE DEF sym2
<1>6. Stack(syms2) /\ DOMAIN syms2 = DOMAIN sc.syms /\ syms2[p] = sym2
      /\ \A q \in DOMAIN sc.syms : q # p => syms2[q] = sc.syms[q]
  BY <1>1, StackPut
<1> HIDE DEF syms2
<1>7. DOMAIN sc2 = ScopeFields /\ sc2.ops = sc1.ops /\ sc2.syms = syms2 /\ sc2.nregs = n + 1
      /\ sc2.nspans = sc.nspans /\ sc2.digests = sc.digests
  BY <1>2, <1>3, <1>4 DEF ScopeFields
<1> HIDE DEF sc2
<1>8. SameScope(sc, sc2)
  <2>1. SameBut(sc, sc2, {"ops", "syms", "nregs"})
    BY <1>1, <1>7 DEF SameBut, ScopeFields
  <2>2. \A q \in DOMAIN sc.syms : SameBut(sc.syms[q], sc2.syms[q], {"reg", "len_referenced", "used_in_on"})
    BY <1>5, <1>6, <1>7 DEF SameBut
  <2> QED
    BY <1>2, <1>6, <1>7, <2>1, <2>2 DEF SameScope
<1>9. ScopeShape(sc2)
  <2>1. \A q \in DOMAIN syms2 : SymShape(syms2[q])
    BY <1>1, <1>5, <1>6 DEF SymShape, ScopeShape
  <2> QED
    BY <1>1, <1>2, <1>6, <1>7, <2>1 DEF ScopeShape
<1>10. RunsOk(sc2)
  BY <1>1, <1>8, RunsStay DEF ScopeOk
<1>11. \A o \in DOMAIN sc.ops : \A i \in DOMAIN sc.ops[o].items :
         RegAt(sc2, o, i) = IF o = sym.op /\ i = sym.item THEN {n} ELSE RegAt(sc, o, i)
  <2>1. \A o, i : RegAt(sc2, o, i) = RegAt(sc1, o, i)
    BY <1>7 DEF RegAt
  <2> QED
    BY <1>2, <2>1
<1>12. sym.op \in DOMAIN sc.ops /\ sym.item \in DOMAIN sc.ops[sym.op].items /\ RegAt(sc, sym.op, sym.item) = {}
  BY <1>1 DEF SymPlaced, ItemOf, RegAt
<1>13. /\ DOMAIN sc2.ops = DOMAIN sc.ops
       /\ \A o \in DOMAIN sc.ops : DOMAIN sc2.ops[o].items = DOMAIN sc.ops[o].items
  BY <1>2, <1>7 DEF SameItems
<1>14. RegsIn(sc2)
  <2> SUFFICES ASSUME NEW o \in DOMAIN sc.ops, NEW i \in DOMAIN sc.ops[o].items
               PROVE  RegOf1(RegAt(sc2, o, i), n + 1)
    BY <1>7, <1>13 DEF RegsIn
  <2>1. RegOf1(RegAt(sc, o, i), n)
    BY DEF ScopeOk, RegsIn
  <2>2. n \in 0 .. ((n + 1) - 1) /\ \A idx \in 0 .. (n - 1) : idx \in 0 .. ((n + 1) - 1)
    BY <1>1
  <2> QED
    BY <1>11, <2>1, <2>2 DEF RegOf1
<1>15. \A o \in DOMAIN sc.ops : \A i \in DOMAIN sc.ops[o].items : RegAt(sc, o, i) # {n}
  <2> TAKE o \in DOMAIN sc.ops
  <2> TAKE i \in DOMAIN sc.ops[o].items
  <2>1. RegOf1(RegAt(sc, o, i), n)
    BY DEF ScopeOk, RegsIn
  <2> QED
    BY <1>1, <2>1 DEF RegOf1
<1>16. RegsApart(sc2)
  <2> SUFFICES ASSUME NEW o \in DOMAIN sc.ops, NEW o2 \in DOMAIN sc.ops,
                      NEW i \in DOMAIN sc.ops[o].items, NEW i2 \in DOMAIN sc.ops[o2].items,
                      RegAt(sc2, o, i) = RegAt(sc2, o2, i2), RegAt(sc2, o, i) # {}
               PROVE  Same(o, i, o2, i2)
    BY <1>13 DEF RegsApart
  <2>1. RegAt(sc, o, i) = RegAt(sc, o2, i2) /\ RegAt(sc, o, i) # {} => Same(o, i, o2, i2)
    BY DEF ScopeOk, RegsApart
  <2>2. RegAt(sc, o, i) # {n} /\ RegAt(sc, o2, i2) # {n}
    BY <1>15
  <2> QED
    BY <1>11, <2>1, <2>2 DEF Same
<1>17. RegsOwned(sc2)
  <2> SUFFICES ASSUME NEW idx \in 0 .. ((n + 1) - 1)
               PROVE  \E o \in DOMAIN sc.ops : \E i \in DOMAIN sc.ops[o].items : RegAt(sc2, o, i) = {idx}
    BY <1>7, <1>13 DEF RegsOwned
  <2>1. CASE idx = n
    BY <2>1, <1>11, <1>12
  <2>2. CASE idx # n
    <3>1. idx \in 0 .. (n - 1)
      BY <1>1, <2>2
    <3>2. PICK o \in DOMAIN sc.ops : \E i \in DOMAIN sc.ops[o].items : RegAt(sc, o, i) = {idx}
      BY <3>1 DEF ScopeOk, RegsOwned
    <3>3. PICK i \in DOMAIN sc.ops[o].items : RegAt(sc, o, i) = {idx}
      BY <3>2
    <3>4. ~(o = sym.op /\ i = sym.item)
      BY <1>12, <3>3
    <3> QED
      BY <1>11, <3>3, <3>4
  <2> QED
    BY <2>1, <2>2
<1>18. SymsOk(sc2)
  <2>1. ASSUME NEW q \in DOMAIN sc.syms
        PROVE  /\ SymPlaced(sc2, sc2.syms[q])
               /\ sc2.syms[q].const \in BOOLEAN /\ sc2.syms[q].len_referenced \in BOOLEAN
               /\ sc2.syms[q].used_in_on \in BOOLEAN
    <3> DEFINE s == sc.syms[q]
               s2 == sc2.syms[q]
    <3>1. SymPlaced(sc, s) /\ s.const \in BOOLEAN /\ s.len_referenced \in BOOLEAN /\ s.used_in_on \in BOOLEAN
          /\ DOMAIN s = SymFields
      BY DEF ScopeOk, SymsOk, ScopeShape, SymShape
    <3>2. /\ s2.op = s.op /\ s2.item = s.item /\ s2.refable = s.refable /\ s2.name = s.name /\ s2.const = s.const
          /\ s2.len_referenced = s.len_referenced /\ s2.used_in_on = s.used_in_on
      BY <1>1, <1>5, <1>6, <1>7, <3>1 DEF SameBut, SymFields
    <3>3. SameBut(sc.ops[s.op], sc2.ops[s.op], {"items"}) /\ SameItems(sc.ops[s.op].items, sc2.ops[s.op].items)
          /\ OpShape(sc.ops[s.op])
      BY <1>1, <1>8, <3>1 DEF SameScope, SymPlaced, ScopeShape
    <3>4. sc2.ops[s.op].key = sc.ops[s.op].key
      BY <3>3 DEF SameBut, OpShape, OpFields
    <3>5. CASE s.item = 0
      <4>1. q # p
        BY <3>5
      <4>2. s2.reg = {}
        BY <3>1, <3>5, <4>1, <1>6, <1>7 DEF SymPlaced
      <4> QED
        BY <3>1, <3>2, <3>4, <3>5, <4>2, <1>13 DEF SymPlaced
    <3>6. CASE s.item # 0
      <4>1. s.op \in DOMAIN sc.ops /\ s.item \in DOMAIN sc.ops[s.op].items
        BY <3>1, <3>6 DEF SymPlaced
      <4>2. SameBut(ItemOf(sc, s), ItemOf(sc2, s), {"reg"}) /\ DOMAIN ItemOf(sc, s) = ItemFields
        BY <3>3, <4>1 DEF SameItems, ItemOf, OpShape, ItemShape
      <4>3. ItemOf(sc2, s).key = ItemOf(sc, s).key /\ ItemOf(sc2, s).const = ItemOf(sc, s).const
        BY <4>2 DEF SameBut, ItemFields
      <4>4. ItemOf(sc2, s).reg = s2.reg
        <5>1. CASE q = p
          BY <5>1, <4>1, <1>5, <1>6, <1>7, <1>11 DEF ItemOf, RegAt
        <5>2. CASE q # p
          <6>1. ~(s.op = sym.op /\ s.item = sym.item)
            BY <5>2, SymsApart
          <6>2. RegAt(sc2, s.op, s.item) = RegAt(sc, s.op, s.item)
            BY <6>1, <4>1, <1>11
          <6>3. s2.reg = s.reg
            BY <5>2, <1>6, <1>7
          <6> QED
            BY <3>1, <3>6, <6>2, <6>3 DEF ItemOf, RegAt, SymPlaced
        <5> QED
          BY <5>1, <5>2
      <4>5. ItemOf(sc2, s2) = ItemOf(sc2, s)
        BY <3>2 DEF ItemOf
      <4> QED
        BY <3>1, <3>2, <3>6, <4>1, <4>3, <4>4, <4>5, <1>13 DEF SymPlaced
    <3> QED
      BY <3>1, <3>2, <3>5, <3>6
  <2>2. ASSUME NEW q \in DOMAIN sc.syms, NEW r \in DOMAIN sc.syms, sc2.syms[q].name = sc2.syms[r].name
        PROVE  q = r
    <3>1. sc2.syms[q].name = sc.syms[q].name /\ sc2.syms[r].name = sc.syms[r].name
      BY <1>1, <1>5, <1>6, <1>7 DEF SameBut, SymFields
    <3> QED
      BY <2>2, <3>1 DEF ScopeOk, SymsOk
  <2> QED
    BY <1>6, <1>7, <2>1, <2>2 DEF SymsOk
<1>19. ScopeOk(sc2)
  <2>1. n + 1 <= MAX_REGS
    BY <1>1, CompilerAssumption
  <2> QED
    BY <1>1, <1>7, <1>9, <1>10, <1>14, <1>16, <1>17, <1>18, <2>1 DEF ScopeOk
<1> QED
  BY <1>5, <1>6, <1>7, <1>8, <1>19 DEF sc2

\* Nothing at all changes.
LEMMA SameScopeSelf == ASSUME NEW sc PROVE SameScope(sc, sc)
  BY DEF SameScope, SameBut, SameItems

LEMMA SameButTrans ==
  ASSUME NEW f, NEW g, NEW h, NEW S, SameBut(f, g, S), SameBut(g, h, S)
  PROVE  SameBut(f, h, S)
  BY DEF SameBut

LEMMA SameScopeTrans ==
  ASSUME NEW a, NEW b, NEW c, SameScope(a, b), SameScope(b, c)
  PROVE  SameScope(a, c)
<1>1. /\ SameBut(a, c, {"ops", "syms", "nregs"})
      /\ DOMAIN c.ops = DOMAIN a.ops /\ DOMAIN b.ops = DOMAIN a.ops
      /\ DOMAIN c.syms = DOMAIN a.syms /\ DOMAIN b.syms = DOMAIN a.syms
  BY SameButTrans DEF SameScope
<1>2. \A o \in DOMAIN a.ops : SameBut(a.ops[o], c.ops[o], {"items"})
  <2> TAKE o \in DOMAIN a.ops
  <2>1. SameBut(a.ops[o], b.ops[o], {"items"}) /\ SameBut(b.ops[o], c.ops[o], {"items"})
    BY <1>1 DEF SameScope
  <2> QED
    BY <2>1, SameButTrans
<1>3. \A o \in DOMAIN a.ops : SameItems(a.ops[o].items, c.ops[o].items)
  <2> TAKE o \in DOMAIN a.ops
  <2>1. SameItems(a.ops[o].items, b.ops[o].items) /\ SameItems(b.ops[o].items, c.ops[o].items)
    BY <1>1 DEF SameScope
  <2>2. /\ DOMAIN c.ops[o].items = DOMAIN a.ops[o].items
        /\ \A i \in DOMAIN a.ops[o].items : /\ SameBut(a.ops[o].items[i], b.ops[o].items[i], {"reg"})
                                            /\ SameBut(b.ops[o].items[i], c.ops[o].items[i], {"reg"})
    BY <2>1 DEF SameItems
  <2>3. \A i \in DOMAIN a.ops[o].items : SameBut(a.ops[o].items[i], c.ops[o].items[i], {"reg"})
    BY <2>2, SameButTrans
  <2> QED
    BY <2>2, <2>3 DEF SameItems
<1>4. \A p \in DOMAIN a.syms : SameBut(a.syms[p], c.syms[p], {"reg", "len_referenced", "used_in_on"})
  <2> TAKE p \in DOMAIN a.syms
  <2>1. /\ SameBut(a.syms[p], b.syms[p], {"reg", "len_referenced", "used_in_on"})
        /\ SameBut(b.syms[p], c.syms[p], {"reg", "len_referenced", "used_in_on"})
    BY <1>1 DEF SameScope
  <2> QED
    BY <2>1, SameButTrans
<1> QED
  BY <1>1, <1>2, <1>3, <1>4 DEF SameScope

\* A symbol that can be referred to stands for an item, and its register is
\* the item's: at most one.
LEMMA SymReg ==
  ASSUME NEW sc, ScopeOk(sc), NEW p \in DOMAIN sc.syms
  PROVE  RegOf1(sc.syms[p].reg, sc.nregs)
<1>1. SymPlaced(sc, sc.syms[p])
  BY DEF ScopeOk, SymsOk
<1>2. CASE sc.syms[p].item = 0
  BY <1>1, <1>2 DEF SymPlaced, RegOf1
<1>3. CASE sc.syms[p].item # 0
  BY <1>1, <1>3 DEF SymPlaced, ItemOf, ScopeOk, RegsIn, RegAt
<1> QED
  BY <1>2, <1>3

\* What a reference to symbol p of a scope makes of the scope.
Referred(sc, sc2, p, role) ==
  /\ ScopeOk(sc2) /\ SameScope(sc, sc2)
  /\ \E idx : sc2.syms[p].reg = {idx}
  /\ sc.syms[p].reg # {} => sc2.syms[p].reg = sc.syms[p].reg
  /\ sc2.syms[p].len_referenced = (sc.syms[p].len_referenced \/ (role = "Len" /\ ~sc.syms[p].const))
  /\ sc2.syms[p].used_in_on = (sc.syms[p].used_in_on \/ role = "On")
  /\ \A q \in DOMAIN sc.syms : q # p => sc2.syms[q] = sc.syms[q]

LEMMA NotedIs ==
  ASSUME NEW sc, ScopeOk(sc), NEW p \in DOMAIN sc.syms, NEW role, sc.syms[p].reg # {}
  PROVE  Referred(sc, Noted(sc, p, role), p, role)
<1> DEFINE s == sc.syms[p]
           s1 == [s EXCEPT !.len_referenced = @ \/ (role = "Len" /\ ~s.const)]
           s2 == [s1 EXCEPT !.used_in_on = @ \/ role = "On"]
           syms2 == Put(sc.syms, p, s2)
           sc2 == Noted(sc, p, role)
<1>1. /\ ScopeShape(sc) /\ DOMAIN sc = ScopeFields /\ Stack(sc.syms) /\ DOMAIN s = SymFields
      /\ SymPlaced(sc, s) /\ s.const \in BOOLEAN /\ s.len_referenced \in BOOLEAN /\ s.used_in_on \in BOOLEAN
  BY DEF ScopeOk, ScopeShape, SymShape, SymsOk
<1>2. /\ DOMAIN s2 = SymFields
      /\ s2.len_referenced = (s.len_referenced \/ (role = "Len" /\ ~s.const))
      /\ s2.used_in_on = (s.used_in_on \/ role = "On")
      /\ SameBut(s, s2, {"len_referenced", "used_in_on"})
  BY <1>1 DEF SymFields, SameBut
<1>3. sc2 = [sc EXCEPT !.syms = syms2]
  <2>1. s2 = [s EXCEPT !.len_referenced = @ \/ (role = "Len" /\ ~s.const), !.used_in_on = @ \/ role = "On"]
    OBVIOUS
  <2> QED
    BY <1>1, <2>1 DEF Noted, Put, ScopeFields
<1> HIDE DEF s2
<1>4. Stack(syms2) /\ DOMAIN syms2 = DOMAIN sc.syms /\ syms2[p] = s2
      /\ \A q \in DOMAIN sc.syms : q # p => syms2[q] = sc.syms[q]
  BY <1>1, StackPut
<1> HIDE DEF syms2
<1>5. DOMAIN sc2 = ScopeFields /\ sc2.syms = syms2 /\ sc2.ops = sc.ops /\ sc2.nregs = sc.nregs
      /\ sc2.nspans = sc.nspans /\ sc2.digests = sc.digests
  BY <1>1, <1>3 DEF ScopeFields
<1> HIDE DEF sc2
<1>6. \A q \in DOMAIN sc.syms : SameBut(sc.syms[q], syms2[q], {"len_referenced", "used_in_on"})
  BY <1>2, <1>4 DEF SameBut
<1>7. SameScope(sc, sc2)
  <2>1. SameBut(sc, sc2, {"ops", "syms", "nregs"})
    BY <1>1, <1>5 DEF SameBut, ScopeFields
  <2>2. \A q \in DOMAIN sc.syms : SameBut(sc.syms[q], sc2.syms[q], {"reg", "len_referenced", "used_in_on"})
    BY <1>5, <1>6 DEF SameBut
  <2> QED
    BY <1>4, <1>5, <2>1, <2>2 DEF SameScope, SameBut, SameItems
<1>8. ScopeShape(sc2)
  <2>1. \A q \in DOMAIN syms2 : SymShape(syms2[q])
    BY <1>1, <1>2, <1>4 DEF SymShape, ScopeShape
  <2> QED
    BY <1>1, <1>4, <1>5, <2>1 DEF ScopeShape
<1>9. RunsOk(sc2) /\ RegsIn(sc2) /\ RegsApart(sc2) /\ RegsOwned(sc2)
  <2>1. RunsOk(sc) /\ RegsIn(sc) /\ RegsApart(sc) /\ RegsOwned(sc)
    BY DEF ScopeOk
  <2>2. RunsOk(sc2)
    BY <1>5, <2>1 DEF RunsOk
  <2>3. \A o, i : RegAt(sc2, o, i) = RegAt(sc, o, i)
    BY <1>5 DEF RegAt
  <2>4. RegsIn(sc2)
    BY <1>5, <2>1, <2>3 DEF RegsIn
  <2>5. RegsApart(sc2)
    BY <1>5, <2>1, <2>3 DEF RegsApart
  <2>6. RegsOwned(sc2)
    BY <1>5, <2>1, <2>3 DEF RegsOwned
  <2> QED
    BY <2>2, <2>4, <2>5, <2>6
<1>10. SymsOk(sc2)
  <2>1. ASSUME NEW q \in DOMAIN sc.syms
        PROVE  /\ SymPlaced(sc2, sc2.syms[q]) /\ sc2.syms[q].name = sc.syms[q].name
               /\ sc2.syms[q].const \in BOOLEAN /\ sc2.syms[q].len_referenced \in BOOLEAN
               /\ sc2.syms[q].used_in_on \in BOOLEAN
    <3> DEFINE t == sc.syms[q]
               t2 == sc2.syms[q]
    <3>1. SymPlaced(sc, t) /\ DOMAIN t = SymFields /\ t.const \in BOOLEAN /\ t.len_referenced \in BOOLEAN
          /\ t.used_in_on \in BOOLEAN
      BY DEF ScopeOk, SymsOk, ScopeShape, SymShape
    <3>2. t2.op = t.op /\ t2.item = t.item /\ t2.refable = t.refable /\ t2.name = t.name /\ t2.const = t.const
          /\ t2.reg = t.reg
      BY <1>5, <1>6, <3>1 DEF SameBut, SymFields
    <3>3. SymPlaced(sc2, t2)
      BY <3>1, <3>2, <1>5 DEF SymPlaced, ItemOf
    <3>4. t2.len_referenced \in BOOLEAN /\ t2.used_in_on \in BOOLEAN
      <4>1. CASE q = p
        BY <4>1, <1>2, <1>4, <1>5
      <4>2. CASE q # p
        BY <4>2, <3>1, <1>4, <1>5
      <4> QED
        BY <4>1, <4>2
    <3> QED
      BY <3>1, <3>2, <3>3, <3>4
  <2>2. ASSUME NEW q \in DOMAIN sc.syms, NEW r \in DOMAIN sc.syms, sc2.syms[q].name = sc2.syms[r].name
        PROVE  q = r
    BY <2>1, <2>2 DEF ScopeOk, SymsOk
  <2> QED
    BY <1>4, <1>5, <2>1, <2>2 DEF SymsOk
<1>11. ScopeOk(sc2)
  BY <1>5, <1>8, <1>9, <1>10 DEF ScopeOk
<1>12. s2.reg = s.reg
  BY <1>1, <1>2 DEF SameBut, SymFields
<1>13. \E idx : s.reg = {idx}
  BY SymReg DEF RegOf1
<1>14. Referred(sc, sc2, p, role)
  BY <1>2, <1>4, <1>5, <1>7, <1>11, <1>12, <1>13 DEF Referred
<1> QED
  BY <1>14 DEF sc2

LEMMA ReferIs ==
  ASSUME NEW sc, ScopeOk(sc), NEW p \in DOMAIN sc.syms, NEW role,
         sc.syms[p].refable # FALSE, sc.syms[p].reg = {} => sc.nregs < MAX_REGS
  PROVE  Referred(sc, Noted(Allocate(sc, p), p, role), p, role)
<1>1. sc.syms[p].item # 0
  BY DEF ScopeOk, SymsOk, SymPlaced
<1>2. CASE sc.syms[p].reg # {}
  BY <1>2, NotedIs DEF Allocate
<1>3. CASE sc.syms[p].reg = {}
  <2> DEFINE sc1 == Allocate(sc, p)
  <2>1. /\ ScopeOk(sc1) /\ SameScope(sc, sc1) /\ DOMAIN sc1 = ScopeFields
        /\ sc1.syms[p].reg = {sc.nregs}
        /\ SameBut(sc.syms[p], sc1.syms[p], {"reg"})
        /\ \A q \in DOMAIN sc.syms : q # p => sc1.syms[q] = sc.syms[q]
    BY <1>1, <1>3, AllocateIs
  <2> HIDE DEF sc1
  <2>2. p \in DOMAIN sc1.syms /\ DOMAIN sc1.syms = DOMAIN sc.syms
    BY <2>1 DEF SameScope
  <2>3. Referred(sc1, Noted(sc1, p, role), p, role)
    BY <2>1, <2>2, NotedIs
  <2>4. sc1.syms[p].len_referenced = sc.syms[p].len_referenced /\ sc1.syms[p].used_in_on = sc.syms[p].used_in_on
        /\ sc1.syms[p].const = sc.syms[p].const
    <3>1. DOMAIN sc.syms[p] = SymFields
      BY DEF ScopeOk, ScopeShape, SymShape
    <3> QED
      BY <2>1, <3>1 DEF SameBut, SymFields
  <2>5. SameScope(sc, Noted(sc1, p, role))
    BY <2>1, <2>3, SameScopeTrans DEF Referred
  <2> QED
    BY <1>3, <2>1, <2>2, <2>3, <2>4, <2>5 DEF Referred, sc1
<1> QED
  BY <1>2, <1>3

(***************************************************************************)
(* References.  A target is the field that a piece of code reads: at is    *)
(* the scope, counted from the outermost.                                  *)
(***************************************************************************)
Hit(ss, t) ==
  /\ t.at \in DOMAIN ss
  /\ \E p \in DOMAIN ss[t.at].syms :
       /\ ss[t.at].syms[p].name = t.name
       /\ ss[t.at].syms[p].reg = {t.idx}
       /\ t.role = "Len" /\ ss[t.at].syms[p].const = FALSE => ss[t.at].syms[p].len_referenced = TRUE
       /\ t.role = "On" => ss[t.at].syms[p].used_in_on = TRUE
AllHit(ss, T) == \A t \in T : Hit(ss, t)

\* And a field is only noted to be read if something reads it.
ReadAs(T, i, reg, role) == \E t \in T : t.at = i /\ reg = {t.idx} /\ t.role = role
AllNoted(ss, T) ==
  \A i \in DOMAIN ss : \A p \in DOMAIN ss[i].syms :
    /\ ss[i].syms[p].len_referenced = TRUE => ss[i].syms[p].const = FALSE /\ ReadAs(T, i, ss[i].syms[p].reg, "Len")
    /\ ss[i].syms[p].used_in_on = TRUE => ReadAs(T, i, ss[i].syms[p].reg, "On")

ScopesOk(ss) == Stack(ss) /\ \A i \in DOMAIN ss : ScopeOk(ss[i])
SameScopes(ss, ss2) ==
  Stack(ss2) /\ DOMAIN ss2 = DOMAIN ss /\ Len(ss2) = Len(ss) /\ \A i \in DOMAIN ss : SameScope(ss[i], ss2[i])

\* The field n of the innermost scope that has it.
Declared(ss, n) == \E i \in DOMAIN ss : Position(ss[i], n) # {}
Target(ss, n, role) ==
  LET i == ScopeOf(ss, n)
  IN  [at |-> i, role |-> role, idx |-> The(ss[i].syms[The(Position(ss[i], n))].reg), name |-> n]

LEMMA ScopeOfIs ==
  ASSUME NEW ss, Stack(ss), NEW n, Declared(ss, n)
  PROVE  ScopeOf(ss, n) \in DOMAIN ss /\ Position(ss[ScopeOf(ss, n)], n) # {}
<1> DEFINE S == {i \in DOMAIN ss : Position(ss[i], n) # {}}
<1>1. S # {} /\ S \in SUBSET Nat /\ Len(ss) \in Nat /\ \A m \in S : m <= Len(ss)
  BY StackDom DEF Declared
<1> HIDE DEF S
<1>2. PICK x \in S : \A m \in S : m <= x
  BY <1>1, GreatestNat
<1>3. \E y \in S : \A m \in S : y >= m
  BY <1>1, <1>2
<1>4. Max(S) \in S
  BY <1>3 DEF Max
<1> QED
  BY <1>4 DEF ScopeOf, S

\* Names stay where they are.
LEMMA SamePosition ==
  ASSUME NEW sc, NEW sc2, ScopeShape(sc), SameScope(sc, sc2), NEW n
  PROVE  Position(sc2, n) = Position(sc, n)
<1>1. DOMAIN sc2.syms = DOMAIN sc.syms
  BY DEF SameScope
<1>2. \A p \in DOMAIN sc.syms : sc2.syms[p].name = sc.syms[p].name
  <2> TAKE p \in DOMAIN sc.syms
  <2>1. SameBut(sc.syms[p], sc2.syms[p], {"reg", "len_referenced", "used_in_on"}) /\ DOMAIN sc.syms[p] = SymFields
    BY DEF SameScope, ScopeShape, SymShape
  <2> QED
    BY <2>1 DEF SameBut, SymFields
<1> QED
  BY <1>1, <1>2 DEF Position

LEMMA SameScopeOf ==
  ASSUME NEW ss, NEW ss2, ScopesOk(ss), SameScopes(ss, ss2), NEW n
  PROVE  /\ \A i \in DOMAIN ss : Position(ss2[i], n) = Position(ss[i], n)
         /\ ScopeOf(ss2, n) = ScopeOf(ss, n)
         /\ Declared(ss2, n) <=> Declared(ss, n)
<1>1. \A i \in DOMAIN ss : Position(ss2[i], n) = Position(ss[i], n)
  <2> TAKE i \in DOMAIN ss
  <2>1. ScopeShape(ss[i]) /\ SameScope(ss[i], ss2[i])
    BY DEF ScopesOk, ScopeOk, SameScopes
  <2> QED
    BY <2>1, SamePosition
<1>2. DOMAIN ss2 = DOMAIN ss
  BY DEF SameScopes
<1>3. {i \in DOMAIN ss2 : Position(ss2[i], n) # {}} = {i \in DOMAIN ss : Position(ss[i], n) # {}}
  BY <1>1, <1>2
<1>4. ScopeOf(ss2, n) = ScopeOf(ss, n)
  BY <1>3 DEF ScopeOf
<1> QED
  BY <1>1, <1>2, <1>4 DEF Declared

\* A name has one position.
LEMMA ThePosition ==
  ASSUME NEW sc, ScopeOk(sc), NEW p \in DOMAIN sc.syms
  PROVE  Position(sc, sc.syms[p].name) = {p} /\ The(Position(sc, sc.syms[p].name)) = p
<1>1. Position(sc, sc.syms[p].name) = {p}
  BY DEF Position, ScopeOk, SymsOk
<1> QED
  BY <1>1, TheOnly

\* resolve_ref: one scope changes, by a reference to the symbol of this name.
Resolved(ss, ss2, n, role, i, p) ==
  /\ i \in DOMAIN ss /\ i = ScopeOf(ss, n) /\ p \in DOMAIN ss[i].syms /\ ss[i].syms[p].name = n
  /\ Stack(ss2) /\ DOMAIN ss2 = DOMAIN ss /\ Len(ss2) = Len(ss)
  /\ Referred(ss[i], ss2[i], p, role)
  /\ \A k \in DOMAIN ss : k # i => ss2[k] = ss[k]

LEMMA ResolveRefIs ==
  ASSUME NEW ss, ScopesOk(ss), NEW n, NEW role, NEW ss2 \in ResolveRef(ss, n, role)
  PROVE  \E i, p : Resolved(ss, ss2, n, role, i, p)
<1> DEFINE i == ScopeOf(ss, n)
           p == The(Position(ss[i], n))
           sc2 == Noted(Allocate(ss[i], p), p, role)
<1>1. Declared(ss, n)
  BY DEF ResolveRef, Declared
<1>2. Stack(ss) /\ i \in DOMAIN ss /\ Position(ss[i], n) # {}
  BY <1>1, ScopeOfIs DEF ScopesOk
<1>3. p \in Position(ss[i], n)
  BY <1>2, TheOne
<1>4. ss2 \in IF ss[i].syms[p].flags \/ ~ss[i].syms[p].refable \/ (ss[i].syms[p].reg = {} /\ ss[i].nregs >= MAX_REGS)
              THEN {} ELSE {[ss EXCEPT ![i] = sc2]}
  BY <1>1 DEF ResolveRef, Declared
<1>5. /\ ss2 = Put(ss, i, sc2) /\ ss[i].syms[p].refable # FALSE
      /\ ~(ss[i].syms[p].reg = {} /\ ss[i].nregs >= MAX_REGS)
  BY <1>4 DEF Put
<1>6. p \in DOMAIN ss[i].syms /\ ss[i].syms[p].name = n
  BY <1>3 DEF Position
<1>7. ScopeOk(ss[i])
  BY <1>2 DEF ScopesOk
<1>8. ss[i].syms[p].reg = {} => ss[i].nregs < MAX_REGS
  BY <1>5, <1>7, CompilerAssumption DEF ScopeOk
<1> HIDE DEF i, p
<1>9. Referred(ss[i], sc2, p, role)
  BY <1>5, <1>6, <1>7, <1>8, ReferIs
<1> HIDE DEF sc2
<1>10. /\ Stack(ss2) /\ DOMAIN ss2 = DOMAIN ss /\ Len(ss2) = Len(ss) /\ ss2[i] = sc2
       /\ \A k \in DOMAIN ss : k # i => ss2[k] = ss[k]
  BY <1>2, <1>5, StackPut
<1>11. Resolved(ss, ss2, n, role, i, p)
  BY <1>2, <1>6, <1>9, <1>10 DEF Resolved, i
<1> QED
  BY <1>11

\* One reference adds its target.
LEMMA ResolveStep ==
  ASSUME NEW ss, ScopesOk(ss), NEW ss2, NEW n, NEW role, NEW i, NEW p, Resolved(ss, ss2, n, role, i, p),
         NEW T, AllHit(ss, T), AllNoted(ss, T)
  PROVE  /\ ScopesOk(ss2) /\ SameScopes(ss, ss2) /\ Declared(ss2, n)
         /\ AllHit(ss2, T \cup {Target(ss2, n, role)})
         /\ AllNoted(ss2, T \cup {Target(ss2, n, role)})
         /\ \A m : Target(ss, m, role) \in T => Target(ss2, m, role) = Target(ss, m, role)
<1> DEFINE tg == Target(ss2, n, role)
<1>1. /\ i \in DOMAIN ss /\ p \in DOMAIN ss[i].syms /\ ss[i].syms[p].name = n /\ i = ScopeOf(ss, n)
      /\ Referred(ss[i], ss2[i], p, role)
      /\ \A k \in DOMAIN ss : k # i => ss2[k] = ss[k]
      /\ Stack(ss2) /\ DOMAIN ss2 = DOMAIN ss /\ Len(ss2) = Len(ss)
  BY DEF Resolved
<1>2. ScopesOk(ss2)
  <2>1. \A k \in DOMAIN ss : ScopeOk(ss2[k])
    BY <1>1 DEF Referred, ScopesOk
  <2> QED
    BY <1>1, <2>1 DEF ScopesOk
<1>3. SameScopes(ss, ss2)
  <2>1. \A k \in DOMAIN ss : SameScope(ss[k], ss2[k])
    BY <1>1, SameScopeSelf DEF Referred
  <2> QED
    BY <1>1, <2>1 DEF SameScopes
<1>4. /\ \A k \in DOMAIN ss : Position(ss2[k], n) = Position(ss[k], n)
      /\ ScopeOf(ss2, n) = i
      /\ Declared(ss2, n) <=> Declared(ss, n)
  BY <1>1, <1>3, SameScopeOf
<1>5. Position(ss2[i], n) = {p} /\ The(Position(ss2[i], n)) = p
  <2>1. ScopeOk(ss[i])
    BY <1>1 DEF ScopesOk
  <2> QED
    BY <1>1, <1>4, <2>1, ThePosition
<1>6. Declared(ss2, n)
  BY <1>1, <1>5 DEF Declared
<1>7. PICK x : ss2[i].syms[p].reg = {x}
  BY <1>1 DEF Referred
<1>8. tg = [at |-> i, role |-> role, idx |-> x, name |-> n]
  BY <1>4, <1>5, <1>7, TheOnly DEF Target
<1> HIDE DEF tg
<1>9. \A k \in DOMAIN ss : DOMAIN ss2[k].syms = DOMAIN ss[k].syms
  BY <1>3 DEF SameScopes, SameScope
<1>10. \A k \in DOMAIN ss : \A q \in DOMAIN ss[k].syms :
         /\ ss2[k].syms[q].name = ss[k].syms[q].name /\ ss2[k].syms[q].const = ss[k].syms[q].const
         /\ ss[k].syms[q].const \in BOOLEAN
         /\ ss[k].syms[q].len_referenced \in BOOLEAN /\ ss[k].syms[q].used_in_on \in BOOLEAN
  <2> TAKE k \in DOMAIN ss
  <2> TAKE q \in DOMAIN ss[k].syms
  <2>1. ScopeOk(ss[k]) /\ SameScope(ss[k], ss2[k])
    BY <1>3 DEF ScopesOk, SameScopes
  <2>2. DOMAIN ss[k].syms[q] = SymFields /\ SameBut(ss[k].syms[q], ss2[k].syms[q], {"reg", "len_referenced", "used_in_on"})
    BY <2>1 DEF ScopeOk, ScopeShape, SymShape, SameScope
  <2> QED
    BY <2>1, <2>2 DEF SameBut, SymFields, ScopeOk, SymsOk
<1>11. \A k \in DOMAIN ss : \A q \in DOMAIN ss[k].syms : ss[k].syms[q].reg # {} => ss2[k].syms[q].reg = ss[k].syms[q].reg
  BY <1>1 DEF Referred
<1>12. /\ ss2[i].syms[p].len_referenced = (ss[i].syms[p].len_referenced \/ (role = "Len" /\ ~ss[i].syms[p].const))
       /\ ss2[i].syms[p].used_in_on = (ss[i].syms[p].used_in_on \/ role = "On")
  BY <1>1 DEF Referred
<1>13. \A k \in DOMAIN ss : \A q \in DOMAIN ss[k].syms : ~(k = i /\ q = p) => ss2[k].syms[q] = ss[k].syms[q]
  BY <1>1 DEF Referred
<1>14. \A k \in DOMAIN ss : \A q \in DOMAIN ss[k].syms :
         /\ ss[k].syms[q].len_referenced = TRUE => ss2[k].syms[q].len_referenced = TRUE
         /\ ss[k].syms[q].used_in_on = TRUE => ss2[k].syms[q].used_in_on = TRUE
  <2> TAKE k \in DOMAIN ss
  <2> TAKE q \in DOMAIN ss[k].syms
  <2>1. CASE k = i /\ q = p
    BY <2>1, <1>12
  <2>2. CASE ~(k = i /\ q = p)
    BY <2>2, <1>13
  <2> QED
    BY <2>1, <2>2
<1>15. \A t \in T : Hit(ss2, t)
  <2> SUFFICES ASSUME NEW t \in T PROVE Hit(ss2, t)
    OBVIOUS
  <2>1. t.at \in DOMAIN ss
    BY DEF AllHit, Hit
  <2>2. PICK q \in DOMAIN ss[t.at].syms :
         /\ ss[t.at].syms[q].name = t.name
         /\ ss[t.at].syms[q].reg = {t.idx}
         /\ t.role = "Len" /\ ss[t.at].syms[q].const = FALSE => ss[t.at].syms[q].len_referenced = TRUE
         /\ t.role = "On" => ss[t.at].syms[q].used_in_on = TRUE
    BY DEF AllHit, Hit
  <2>3. ss2[t.at].syms[q].reg = {t.idx}
    BY <2>1, <2>2, <1>11
  <2> QED
    BY <2>1, <2>2, <2>3, <1>1, <1>9, <1>10, <1>14 DEF Hit
<1>16. Hit(ss2, tg)
  <2>1. tg.at = i /\ tg.name = n /\ tg.idx = x /\ tg.role = role
    BY <1>8
  <2>2. ss2[i].syms[p].name = n
    BY <1>1, <1>10
  <2>3. role = "Len" /\ ss2[i].syms[p].const = FALSE => ss2[i].syms[p].len_referenced = TRUE
    BY <1>1, <1>10, <1>12
  <2>4. role = "On" => ss2[i].syms[p].used_in_on = TRUE
    BY <1>1, <1>10, <1>12
  <2>5. i \in DOMAIN ss2 /\ p \in DOMAIN ss2[i].syms
    BY <1>1, <1>9
  <2> QED
    BY <2>1, <2>2, <2>3, <2>4, <2>5, <1>7 DEF Hit
<1>17. AllHit(ss2, T \cup {tg})
  BY <1>15, <1>16 DEF AllHit
<1>18. AllNoted(ss2, T \cup {tg})
  <2> SUFFICES ASSUME NEW k \in DOMAIN ss, NEW q \in DOMAIN ss[k].syms
               PROVE  /\ ss2[k].syms[q].len_referenced = TRUE =>
                           /\ ss2[k].syms[q].const = FALSE
                           /\ ReadAs(T \cup {tg}, k, ss2[k].syms[q].reg, "Len")
                      /\ ss2[k].syms[q].used_in_on = TRUE => ReadAs(T \cup {tg}, k, ss2[k].syms[q].reg, "On")
    BY <1>1, <1>9 DEF AllNoted
  <2>1. /\ ss[k].syms[q].len_referenced = TRUE =>
             ss[k].syms[q].const = FALSE /\ ReadAs(T, k, ss[k].syms[q].reg, "Len")
        /\ ss[k].syms[q].used_in_on = TRUE => ReadAs(T, k, ss[k].syms[q].reg, "On")
    BY DEF AllNoted
  <2>2. \A rl : ReadAs(T, k, ss[k].syms[q].reg, rl) => ReadAs(T \cup {tg}, k, ss2[k].syms[q].reg, rl)
    <3> SUFFICES ASSUME NEW rl, ReadAs(T, k, ss[k].syms[q].reg, rl)
                 PROVE  ReadAs(T \cup {tg}, k, ss2[k].syms[q].reg, rl)
      OBVIOUS
    <3>1. PICK t \in T : t.at = k /\ ss[k].syms[q].reg = {t.idx} /\ t.role = rl
      BY DEF ReadAs
    <3>2. ss2[k].syms[q].reg = {t.idx}
      BY <3>1, <1>11
    <3> QED
      BY <3>1, <3>2 DEF ReadAs
  <2>3. CASE k = i /\ q = p
    <3>1. \A rl : role = rl => ReadAs(T \cup {tg}, k, ss2[k].syms[q].reg, rl)
      BY <2>3, <1>7, <1>8 DEF ReadAs
    <3>2. ss2[k].syms[q].const = ss[k].syms[q].const /\ ss[k].syms[q].const \in BOOLEAN
          /\ ss[k].syms[q].len_referenced \in BOOLEAN /\ ss[k].syms[q].used_in_on \in BOOLEAN
      BY <1>10
    <3>3. ss2[k].syms[q].len_referenced = TRUE =>
            ss[k].syms[q].len_referenced = TRUE \/ (role = "Len" /\ ss[k].syms[q].const = FALSE)
      BY <2>3, <3>2, <1>12
    <3>4. ss2[k].syms[q].used_in_on = TRUE => ss[k].syms[q].used_in_on = TRUE \/ role = "On"
      BY <2>3, <3>2, <1>12
    <3> QED
      BY <2>1, <2>2, <3>1, <3>2, <3>3, <3>4
  <2>4. CASE ~(k = i /\ q = p)
    BY <2>1, <2>2, <2>4, <1>13
  <2> QED
    BY <2>3, <2>4
<1>19. ASSUME NEW m, Target(ss, m, role) \in T PROVE Target(ss2, m, role) = Target(ss, m, role)
  <2> DEFINE k == ScopeOf(ss, m)
             t == Target(ss, m, role)
  <2>1. t.at = k /\ t.name = m /\ t.idx = The(ss[k].syms[The(Position(ss[k], m))].reg)
    BY DEF Target
  <2>2. t \in T
    BY <1>19
  <2> HIDE DEF t
  <2>3. t.at \in DOMAIN ss /\ \E q \in DOMAIN ss[t.at].syms :
         ss[t.at].syms[q].name = t.name /\ ss[t.at].syms[q].reg = {t.idx}
    BY <2>2 DEF AllHit, Hit
  <2>4. PICK q \in DOMAIN ss[k].syms : ss[k].syms[q].name = m /\ ss[k].syms[q].reg = {t.idx}
    BY <2>1, <2>3
  <2>5. k \in DOMAIN ss /\ ScopeOk(ss[k])
    BY <2>1, <2>3 DEF ScopesOk
  <2>6. ss2[k].syms[q].reg = ss[k].syms[q].reg
    BY <2>4, <2>5, <1>11
  <2>7. The(Position(ss[k], m)) = q
    BY <2>4, <2>5, ThePosition
  <2>8. ScopeOf(ss2, m) = k /\ Position(ss2[k], m) = Position(ss[k], m)
    BY <2>5, <1>3, SameScopeOf
  <2> QED
    BY <2>6, <2>7, <2>8 DEF Target
<1> QED
  BY <1>2, <1>3, <1>6, <1>17, <1>18, <1>19 DEF tg

LEMMA SameScopesTrans ==
  ASSUME NEW a, NEW b, NEW c, SameScopes(a, b), SameScopes(b, c)
  PROVE  SameScopes(a, c)
<1>1. \A i \in DOMAIN a : SameScope(a[i], b[i]) /\ SameScope(b[i], c[i])
  BY DEF SameScopes
<1>2. \A i \in DOMAIN a : SameScope(a[i], c[i])
  BY <1>1, SameScopeTrans
<1> QED
  BY <1>2 DEF SameScopes

LEMMA SameScopesSelf == ASSUME NEW a, ScopesOk(a) PROVE SameScopes(a, a)
  BY SameScopeSelf DEF SameScopes, ScopesOk

\* emit_into runs through the scopes after each instruction.
AfterIns(ss, ins, role) == UNION {IF ins.op = "Ref" THEN ResolveRef(s, ins.arg, role) ELSE {s} : s \in ss}
ResolveRuns(f, ss, code, role) ==
  /\ f[0] = {ss}
  /\ \A j \in 1 .. Len(code) : f[j] = AfterIns(f[j - 1], code[j], role)
  /\ ResolveAll(ss, code, role) = f[Len(code)]
LEMMA ResolveAllRuns ==
  ASSUME NEW ss, NEW code, Listed(code), NEW role
  PROVE  \E f : ResolveRuns(f, ss, code, role)
<1> DEFINE n == Len(code)
           Step(j, x) == AfterIns(x, code[j], role)
           Ok(m, g) == g = [j \in 0 .. m |-> g[j]] /\ g[0] = {ss} /\ \A j \in 1 .. m : g[j] = Step(j, g[j - 1])
           S == {m \in Nat : \E g : Ok(m, g)}
           Eq(g) == g = [j \in 0 .. n |-> IF j = 0 THEN {ss} ELSE Step(j, g[j - 1])]
           f == CHOOSE g : Eq(g)
<1>0. n \in Nat
  BY DEF Listed
<1>1. 0 \in S
  <2> DEFINE g == [i \in 0 .. 0 |-> {ss}]
  <2> HIDE DEF Step
  <2>1. Ok(0, g)
    OBVIOUS
  <2> QED
    BY <2>1
<1>2. ASSUME NEW m \in Nat, m \in S PROVE m + 1 \in S
  <2> HIDE DEF Step
  <2>1. PICK g : Ok(m, g)
    BY <1>2
  <2> DEFINE h == [j \in 0 .. (m + 1) |-> IF j = m + 1 THEN Step(m + 1, g[m]) ELSE g[j]]
  <2>2. ASSUME NEW j \in 1 .. (m + 1) PROVE h[j] = Step(j, h[j - 1])
    <3>1. CASE j = m + 1
      BY <3>1
    <3>2. CASE j # m + 1
      <4>1. j \in 1 .. m /\ j \in 0 .. (m + 1) /\ j - 1 \in 0 .. (m + 1) /\ j - 1 # m + 1
        BY <3>2
      <4>2. h[j] = g[j] /\ h[j - 1] = g[j - 1]
        BY <3>2, <4>1
      <4> QED
        BY <2>1, <4>1, <4>2
    <3> QED
      BY <3>1, <3>2
  <2>3. h[0] = {ss} /\ h = [j \in 0 .. (m + 1) |-> h[j]]
    BY <2>1
  <2> HIDE DEF h
  <2>4. Ok(m + 1, h)
    BY <2>2, <2>3
  <2> HIDE DEF Ok
  <2> QED
    BY <2>4
<1> HIDE DEF S
<1>3. n \in S
  BY <1>0, <1>1, <1>2, NatInductionOn
<1>4. PICK g : Ok(n, g)
  BY <1>3 DEF S
<1> HIDE DEF Step
<1>5. \A j \in 0 .. n : g[j] = IF j = 0 THEN {ss} ELSE Step(j, g[j - 1])
  <2> TAKE j \in 0 .. n
  <2>1. j = 0 \/ (j # 0 /\ j \in 1 .. n)
    BY <1>0
  <2> QED
    BY <1>4, <2>1
<1>6. Eq(g)
  BY <1>4, <1>5
<1>7. Eq(f)
  BY <1>6
<1>8. ResolveAll(ss, code, role) = f[n]
  BY DEF ResolveAll, Step, AfterIns
<1> HIDE DEF f
<1>9. \A j \in 0 .. n : f[j] = IF j = 0 THEN {ss} ELSE Step(j, f[j - 1])
  BY <1>7
<1>10. f[0] = {ss} /\ \A j \in 1 .. n : f[j] = Step(j, f[j - 1])
  <2>1. 0 \in 0 .. n /\ \A j \in 1 .. n : j \in 0 .. n /\ j # 0
    BY <1>0
  <2> QED
    BY <1>9, <2>1
<1> QED
  BY <1>8, <1>10 DEF Step, ResolveRuns

\* What the names in the first j instructions refer to.
RefsUpTo(code, j) == {k \in 1 .. j : code[k].op = "Ref"}
Targets(ss, code, j, role) == {Target(ss, code[k].arg, role) : k \in RefsUpTo(code, j)}

\* Scopes that differ from ss by what has been resolved, the targets T included.
Since(ss, s, T) == ScopesOk(s) /\ SameScopes(ss, s) /\ AllHit(s, T) /\ AllNoted(s, T)

LEMMA ResolveAllOk ==
  ASSUME NEW ss, ScopesOk(ss), NEW code, Listed(code), NEW role, NEW T, AllHit(ss, T), AllNoted(ss, T),
         NEW s \in ResolveAll(ss, code, role)
  PROVE  Since(ss, s, T \cup Targets(s, code, Len(code), role))
<1> DEFINE n == Len(code)
<1>0. n \in Nat
  BY DEF Listed
<1>10. PICK f : ResolveRuns(f, ss, code, role)
  BY ResolveAllRuns
<1>1. /\ f[0] = {ss}
      /\ \A j \in 1 .. n : f[j] = AfterIns(f[j - 1], code[j], role)
      /\ ResolveAll(ss, code, role) = f[n]
  BY <1>10 DEF ResolveRuns
<1> HIDE DEF n
<1> DEFINE Good(m) == \A x \in f[m] : Since(ss, x, T \cup Targets(x, code, m, role))
           S == {m \in Nat : m <= n => Good(m)}
<1>2. 0 \in S
  <2> SUFFICES Since(ss, ss, T \cup Targets(ss, code, 0, role))
    BY <1>1
  <2>1. Targets(ss, code, 0, role) = {}
    BY DEF Targets, RefsUpTo
  <2>2. SameScopes(ss, ss)
    BY SameScopesSelf
  <2> QED
    BY <2>1, <2>2 DEF Since
<1>3. ASSUME NEW m \in Nat, m \in S PROVE m + 1 \in S
  <2> SUFFICES ASSUME m + 1 <= n, NEW y \in f[m + 1]
               PROVE  Since(ss, y, T \cup Targets(y, code, m + 1, role))
    OBVIOUS
  <2>1. m + 1 \in 1 .. n /\ (m + 1) - 1 = m /\ m <= n
    BY <1>0
  <2>2. y \in AfterIns(f[m], code[m + 1], role)
    BY <1>1, <2>1
  <2>3. PICK x \in f[m] : y \in IF code[m + 1].op = "Ref" THEN ResolveRef(x, code[m + 1].arg, role) ELSE {x}
    BY <2>2 DEF AfterIns
  <2>4. Since(ss, x, T \cup Targets(x, code, m, role))
    BY <1>3, <2>1
  <2>5. CASE code[m + 1].op # "Ref"
    <3>1. RefsUpTo(code, m + 1) = RefsUpTo(code, m)
      BY <2>5 DEF RefsUpTo
    <3>2. y = x
      BY <2>3, <2>5
    <3> QED
      BY <2>4, <3>1, <3>2 DEF Targets
  <2>6. CASE code[m + 1].op = "Ref"
    <3> DEFINE a == code[m + 1].arg
               U == T \cup Targets(x, code, m, role)
    <3>1. RefsUpTo(code, m + 1) = RefsUpTo(code, m) \cup {m + 1}
      BY <2>6 DEF RefsUpTo
    <3>2. y \in ResolveRef(x, a, role)
      BY <2>3, <2>6
    <3>3. ScopesOk(x) /\ SameScopes(ss, x) /\ AllHit(x, U) /\ AllNoted(x, U)
      BY <2>4 DEF Since
    <3> HIDE DEF a, U
    <3>4. PICK i, p : Resolved(x, y, a, role, i, p)
      BY <3>2, <3>3, ResolveRefIs
    <3>5. /\ ScopesOk(y) /\ SameScopes(x, y)
          /\ AllHit(y, U \cup {Target(y, a, role)}) /\ AllNoted(y, U \cup {Target(y, a, role)})
          /\ \A b : Target(x, b, role) \in U => Target(y, b, role) = Target(x, b, role)
      BY <3>3, <3>4, ResolveStep
    <3>6. \A k \in RefsUpTo(code, m) : Target(y, code[k].arg, role) = Target(x, code[k].arg, role)
      BY <3>5 DEF U, Targets
    <3>7. Targets(y, code, m + 1, role) = Targets(x, code, m, role) \cup {Target(y, a, role)}
      <4>1. Targets(y, code, m + 1, role) = Targets(y, code, m, role) \cup {Target(y, code[m + 1].arg, role)}
        BY <3>1 DEF Targets
      <4>2. Targets(y, code, m, role) = Targets(x, code, m, role)
        BY <3>6 DEF Targets
      <4> QED
        BY <4>1, <4>2 DEF a
    <3>8. U \cup {Target(y, a, role)} = T \cup Targets(y, code, m + 1, role)
      BY <3>7 DEF U
    <3>9. SameScopes(ss, y)
      BY <3>3, <3>5, SameScopesTrans
    <3> QED
      BY <3>5, <3>8, <3>9 DEF Since
  <2> QED
    BY <2>5, <2>6
<1> HIDE DEF S, Good
<1>4. n \in S
  BY <1>0, <1>2, <1>3, NatInductionOn
<1>5. Good(n)
  BY <1>0, <1>4 DEF S
<1> QED
  BY <1>1, <1>5 DEF Good, n

(***************************************************************************)
(* Code reads registers by level and index.                                *)
(***************************************************************************)
ReadFields == {"role", "up", "idx", "name"}
ReadOk(r) == DOMAIN r = ReadFields /\ r.up \in Nat
ReadsOk(S) == \A r \in S : ReadOk(r)
Aim(l, r) == [at |-> l - r.up, role |-> r.role, idx |-> r.idx, name |-> r.name]
Aims(l, S) == {Aim(l, r) : r \in S}

LEMMA EmitExprOk ==
  ASSUME NEW ss, ScopesOk(ss), NEW d, Listed(d.code), NEW role, NEW T, AllHit(ss, T), AllNoted(ss, T),
         NEW x \in EmitExpr(ss, d, role)
  PROVE  Since(ss, x.ss, T \cup Aims(Len(ss), x.reads)) /\ ReadsOk(x.reads)
<1> DEFINE refs == {j \in DOMAIN d.code : d.code[j].op = "Ref"}
           n == Len(d.code)
<1>1. PICK s \in ResolveAll(ss, d.code, role) :
        x = [ss |-> s,
             code |-> [j \in DOMAIN d.code |->
                    IF j \in refs THEN [op |-> "Reg", arg |-> RegOf(s, d.code[j].arg)] ELSE d.code[j]],
             reads |-> {[role |-> role, up |-> RegOf(s, d.code[j].arg).up,
                    idx |-> RegOf(s, d.code[j].arg).idx, name |-> d.code[j].arg] : j \in refs}]
  BY DEF EmitExpr
<1> DEFINE rd(j) == [role |-> role, up |-> RegOf(s, d.code[j].arg).up,
                     idx |-> RegOf(s, d.code[j].arg).idx, name |-> d.code[j].arg]
<1>2. x.ss = s /\ x.reads = {rd(j) : j \in refs}
  BY <1>1
<1>3. refs = RefsUpTo(d.code, n)
  BY DEF Listed, RefsUpTo
<1>4. Since(ss, s, T \cup Targets(s, d.code, n, role))
  BY ResolveAllOk
<1>5. Len(s) = Len(ss) /\ Len(ss) \in Nat /\ DOMAIN s = 1 .. Len(ss) /\ AllHit(s, Targets(s, d.code, n, role))
  BY <1>4, StackDom DEF Since, SameScopes, AllHit, ScopesOk
<1>6. ASSUME NEW j \in refs
      PROVE  Aim(Len(ss), rd(j)) = Target(s, d.code[j].arg, role) /\ ReadOk(rd(j))
  <2> DEFINE a == d.code[j].arg
             i == ScopeOf(s, a)
             tg == Target(s, a, role)
  <2>1. tg.at = i /\ tg = [at |-> i, role |-> role, idx |-> RegOf(s, a).idx, name |-> a]
    BY DEF Target, RegOf
  <2>2. tg \in Targets(s, d.code, n, role)
    BY <1>3 DEF Targets
  <2> HIDE DEF tg
  <2>3. i \in 1 .. Len(ss)
    BY <1>5, <2>1, <2>2 DEF AllHit, Hit
  <2>4. RegOf(s, a).up = Len(ss) - i
    BY <1>5 DEF RegOf
  <2>5. RegOf(s, a).up \in Nat /\ Len(ss) - RegOf(s, a).up = i
    BY <2>3, <2>4, <1>5
  <2>6. rd(j).up = RegOf(s, a).up /\ rd(j).role = role /\ rd(j).idx = RegOf(s, a).idx /\ rd(j).name = a
        /\ DOMAIN rd(j) = ReadFields
    BY DEF ReadFields
  <2> HIDE DEF rd
  <2> QED
    BY <2>1, <2>5, <2>6 DEF Aim, ReadOk, tg
<1> HIDE DEF rd
<1>7. Aims(Len(ss), x.reads) = Targets(s, d.code, n, role)
  <2>1. Aims(Len(ss), x.reads) = {Aim(Len(ss), rd(j)) : j \in refs}
    BY <1>2 DEF Aims
  <2>2. {Aim(Len(ss), rd(j)) : j \in refs} = {Target(s, d.code[j].arg, role) : j \in refs}
    BY <1>6
  <2> QED
    BY <2>1, <2>2, <1>3 DEF Targets
<1> QED
  BY <1>2, <1>4, <1>6, <1>7 DEF ReadsOk

\* A constant length is a natural number.
Const01(c) == c = {} \/ \E n \in Nat : c = {n}

LEMMA BuildLenOk ==
  ASSUME NEW ss, ScopesOk(ss), NEW d, Described(d), NEW T, AllHit(ss, T), AllNoted(ss, T),
         NEW x \in BuildLen(ss, d)
  PROVE  Since(ss, x.ss, T \cup Aims(Len(ss), x.reads)) /\ ReadsOk(x.reads) /\ Const01(x.const)
<1>1. Since(ss, ss, T \cup Aims(Len(ss), {})) /\ ReadsOk({})
  <2>1. Aims(Len(ss), {}) = {}
    BY DEF Aims
  <2> QED
    BY <2>1, SameScopesSelf DEF Since, ReadsOk
<1>2. CASE d.greedy
  <2>1. x.ss = ss /\ x.reads = {} /\ x.const = {}
    BY <1>2 DEF BuildLen
  <2> QED
    BY <1>1, <2>1 DEF Const01
<1>3. CASE ~d.greedy /\ d.imm # {}
  <2>1. PICK n \in {m \in d.imm : m >= 0} : x = [ss |-> ss, lens |-> {}, reads |-> {}, const |-> {n}, greedy |-> FALSE]
    BY <1>3 DEF BuildLen
  <2>2. n \in Nat
    BY DEF Described
  <2> QED
    BY <1>1, <2>1, <2>2 DEF Const01
<1>4. CASE ~d.greedy /\ d.imm = {}
  <2>1. x \in {[ss |-> y.ss, reads |-> y.reads, const |-> {}, greedy |-> FALSE,
           lens |-> {[code |-> y.code,
                      inv |-> [reg |-> RegOf(y.ss, The(l.ref)), a |-> l.a, b |-> l.b]] : l \in d.lin}] :
            y \in IF \E l \in d.lin : l.a # 0 THEN EmitExpr(ss, d, "Len") ELSE {}}
    BY <1>4 DEF BuildLen
  <2>2. PICK y \in EmitExpr(ss, d, "Len") : x.ss = y.ss /\ x.reads = y.reads /\ x.const = {}
    BY <2>1
  <2>3. Since(ss, y.ss, T \cup Aims(Len(ss), y.reads)) /\ ReadsOk(y.reads)
    BY EmitExprOk DEF Described
  <2> QED
    BY <2>2, <2>3 DEF Const01
<1> QED
  BY <1>2, <1>3, <1>4

(***************************************************************************)
(* The machine: open scopes ss, activations td, the scope lev[j] that      *)
(* activation j belongs to, and targets X of code that is in neither.      *)
(***************************************************************************)
ActFields == {"k", "name", "lens", "reads", "const", "sized", "arms", "cases", "done"}
ActReads(a) == a.reads \cup UNION {a.done[i].reads : i \in DOMAIN a.done}
ActOk(a) ==
  /\ DOMAIN a = ActFields /\ Stack(a.done) /\ ReadsOk(ActReads(a)) /\ a.name \in FieldNames
  /\ a.k \in {"fields", "nest", "array", "switch", "cond"}
  /\ a.k \in {"fields", "nest"} => a.done = <<>>
  /\ a.k = "fields" => a.reads = {}

Level(td, lev, n) ==
  /\ Stack(td) /\ td # <<>> /\ td[1].k = "fields" /\ lev[1] = 1 /\ lev[Len(td)] = n
  /\ \A j \in DOMAIN td : lev[j] \in Nat \ {0} /\ ActOk(td[j])
  /\ \A j \in DOMAIN td : j # 1 =>
       /\ lev[j] = lev[j - 1] + (IF td[j].k = "fields" THEN 1 ELSE 0)
       /\ td[j].k = "fields" <=> td[j - 1].k = "nest"
  /\ \A i, j \in DOMAIN td : i < j => lev[i] <= lev[j] /\ (td[j].k = "fields" => lev[i] < lev[j])

\* A field that waits to be finished has a name that its scope has not.
NamesFree(ss, td, lev) ==
  \A j \in DOMAIN td : td[j].k # "fields" =>
    \A n \in td[j].name : Position(ss[lev[j]], n) = {} /\ td[j - 1].k = "fields"

ScopeReads(sc) == UNION {sc.ops[o].reads : o \in DOMAIN sc.ops}
OpAims(ss) == UNION {Aims(i, ScopeReads(ss[i])) : i \in DOMAIN ss}
TodoAims(td, lev) == UNION {Aims(lev[j], ActReads(td[j])) : j \in DOMAIN td}
AllAims(ss, td, lev) == OpAims(ss) \cup TodoAims(td, lev)

Core(ss, td, lev, X) ==
  /\ ScopesOk(ss) /\ \A i \in DOMAIN ss : ReadsOk(ScopeReads(ss[i]))
  /\ Level(td, lev, Len(ss)) /\ NamesFree(ss, td, lev)
  /\ AllHit(ss, AllAims(ss, td, lev) \cup X) /\ AllNoted(ss, AllAims(ss, td, lev) \cup X)

\* An activation belongs to an open scope.
LEMMA LevelIn ==
  ASSUME NEW td, NEW lev, NEW n \in Nat, Level(td, lev, n), NEW j \in DOMAIN td
  PROVE  lev[j] \in 1 .. n
<1>1. DOMAIN td = 1 .. Len(td) /\ Len(td) \in Nat /\ j \in 1 .. Len(td)
  BY StackDom DEF Level
<1>2. CASE j = Len(td)
  BY <1>1, <1>2 DEF Level
<1>3. CASE j # Len(td)
  <2>1. j < Len(td) /\ Len(td) \in DOMAIN td
    BY <1>1, <1>3
  <2> QED
    BY <2>1 DEF Level
<1> QED
  BY <1>2, <1>3

LEMMA SameReads ==
  ASSUME NEW sc, NEW sc2, ScopeShape(sc), SameScope(sc, sc2)
  PROVE  ScopeReads(sc2) = ScopeReads(sc)
<1>1. DOMAIN sc2.ops = DOMAIN sc.ops
  BY DEF SameScope
<1>2. \A o \in DOMAIN sc.ops : sc2.ops[o].reads = sc.ops[o].reads
  <2> TAKE o \in DOMAIN sc.ops
  <2>1. SameBut(sc.ops[o], sc2.ops[o], {"items"}) /\ DOMAIN sc.ops[o] = OpFields
    BY DEF SameScope, ScopeShape, OpShape
  <2> QED
    BY <2>1 DEF SameBut, OpFields
<1> QED
  BY <1>1, <1>2 DEF ScopeReads

\* Resolving references leaves the machine as it should be, and adds targets.
LEMMA CoreSince ==
  ASSUME NEW ss, NEW td, NEW lev, NEW X, Core(ss, td, lev, X), NEW s, NEW Y,
         Since(ss, s, (AllAims(ss, td, lev) \cup X) \cup Y)
  PROVE  Core(s, td, lev, X \cup Y) /\ Len(s) = Len(ss)
<1>1. ScopesOk(ss) /\ ScopesOk(s) /\ SameScopes(ss, s) /\ Len(s) = Len(ss) /\ DOMAIN s = DOMAIN ss
  BY DEF Core, Since, SameScopes
<1>2. \A i \in DOMAIN ss : ScopeReads(s[i]) = ScopeReads(ss[i])
  <2> TAKE i \in DOMAIN ss
  <2>1. ScopeShape(ss[i]) /\ SameScope(ss[i], s[i])
    BY <1>1 DEF ScopesOk, ScopeOk, SameScopes
  <2> QED
    BY <2>1, SameReads
<1>3. OpAims(s) = OpAims(ss)
  BY <1>1, <1>2 DEF OpAims
<1>4. AllAims(s, td, lev) \cup (X \cup Y) = (AllAims(ss, td, lev) \cup X) \cup Y
  BY <1>3 DEF AllAims
<1>5. \A i \in DOMAIN s : ReadsOk(ScopeReads(s[i]))
  BY <1>1, <1>2 DEF Core
<1>6. NamesFree(s, td, lev)
  <2>1. \A j \in DOMAIN td : lev[j] \in DOMAIN ss
    <3>1. Len(ss) \in Nat /\ DOMAIN ss = 1 .. Len(ss) /\ Level(td, lev, Len(ss))
      BY <1>1, StackDom DEF Core, ScopesOk
    <3> QED
      BY <3>1, LevelIn
  <2>2. \A i \in DOMAIN ss : \A n : Position(s[i], n) = Position(ss[i], n)
    BY <1>1, SameScopeOf
  <2> QED
    BY <2>1, <2>2 DEF NamesFree, Core
<1> QED
  BY <1>1, <1>4, <1>5, <1>6 DEF Core, Since

(***************************************************************************)
(* Opcodes and items are added without a register.                         *)
(***************************************************************************)
InScope(sc, o, i) == o \in DOMAIN sc.ops /\ i \in DOMAIN sc.ops[o].items
Grown(sc, sc2) ==
  /\ ScopeShape(sc2) /\ RunsOk(sc2) /\ sc2.nregs = sc.nregs /\ sc2.syms = sc.syms
  /\ DOMAIN sc.ops \subseteq DOMAIN sc2.ops
  /\ \A o \in DOMAIN sc.ops :
       /\ DOMAIN sc.ops[o].items \subseteq DOMAIN sc2.ops[o].items
       /\ sc2.ops[o].key = sc.ops[o].key
       /\ \A i \in DOMAIN sc.ops[o].items : sc2.ops[o].items[i] = sc.ops[o].items[i]
  /\ \A o \in DOMAIN sc2.ops : \A i \in DOMAIN sc2.ops[o].items : ~InScope(sc, o, i) => RegAt(sc2, o, i) = {}

LEMMA GrownOk ==
  ASSUME NEW sc, ScopeOk(sc), NEW sc2, Grown(sc, sc2)
  PROVE  ScopeOk(sc2)
<1> USE DEF Grown
<1>1. \A o, i : InScope(sc, o, i) => InScope(sc2, o, i) /\ RegAt(sc2, o, i) = RegAt(sc, o, i)
  BY DEF InScope, RegAt
<1>2. \A o, i : InScope(sc2, o, i) /\ RegAt(sc2, o, i) # {} => InScope(sc, o, i)
  BY DEF InScope
<1>3. RegsIn(sc2)
  <2> SUFFICES ASSUME NEW o \in DOMAIN sc2.ops, NEW i \in DOMAIN sc2.ops[o].items
               PROVE  RegOf1(RegAt(sc2, o, i), sc2.nregs)
    BY DEF RegsIn
  <2>1. CASE InScope(sc, o, i)
    BY <1>1, <2>1 DEF InScope, ScopeOk, RegsIn
  <2>2. CASE ~InScope(sc, o, i)
    BY <2>2 DEF RegOf1
  <2> QED
    BY <2>1, <2>2
<1>4. RegsApart(sc2)
  <2> SUFFICES ASSUME NEW o \in DOMAIN sc2.ops, NEW o2 \in DOMAIN sc2.ops,
                      NEW i \in DOMAIN sc2.ops[o].items, NEW i2 \in DOMAIN sc2.ops[o2].items,
                      RegAt(sc2, o, i) = RegAt(sc2, o2, i2), RegAt(sc2, o, i) # {}
               PROVE  Same(o, i, o2, i2)
    BY DEF RegsApart
  <2>1. InScope(sc, o, i) /\ InScope(sc, o2, i2)
    BY <1>2 DEF InScope
  <2>2. RegAt(sc, o, i) = RegAt(sc, o2, i2) /\ RegAt(sc, o, i) # {}
    BY <1>1, <2>1
  <2> QED
    BY <2>1, <2>2 DEF InScope, ScopeOk, RegsApart
<1>5. RegsOwned(sc2)
  <2> SUFFICES ASSUME NEW idx \in 0 .. (sc.nregs - 1)
               PROVE  \E o \in DOMAIN sc2.ops : \E i \in DOMAIN sc2.ops[o].items : RegAt(sc2, o, i) = {idx}
    BY DEF RegsOwned
  <2>1. PICK o \in DOMAIN sc.ops : \E i \in DOMAIN sc.ops[o].items : RegAt(sc, o, i) = {idx}
    BY DEF ScopeOk, RegsOwned
  <2>2. PICK i \in DOMAIN sc.ops[o].items : RegAt(sc, o, i) = {idx}
    BY <2>1
  <2>3. InScope(sc2, o, i) /\ RegAt(sc2, o, i) = {idx}
    BY <1>1, <2>2 DEF InScope
  <2> QED
    BY <2>3 DEF InScope
<1>6. SymsOk(sc2)
  <2>1. ASSUME NEW p \in DOMAIN sc.syms PROVE SymPlaced(sc2, sc.syms[p])
    <3>1. SymPlaced(sc, sc.syms[p])
      BY DEF ScopeOk, SymsOk
    <3> QED
      BY <3>1 DEF SymPlaced, ItemOf
  <2> QED
    BY <2>1 DEF ScopeOk, SymsOk
<1> QED
  BY <1>3, <1>4, <1>5, <1>6 DEF ScopeOk

\* A symbol more.
SymMore(sc, sc2, sym) ==
  /\ DOMAIN sc2 = ScopeFields /\ \A x \in ScopeFields \ {"syms"} : sc2[x] = sc[x]
  /\ Stack(sc2.syms) /\ DOMAIN sc2.syms = 1 .. (Len(sc.syms) + 1)
  /\ \A p \in 1 .. Len(sc.syms) : sc2.syms[p] = sc.syms[p]
  /\ sc2.syms[Len(sc.syms) + 1] = sym

LEMMA SymMoreOk ==
  ASSUME NEW sc, ScopeOk(sc), NEW sc2, NEW sym, SymMore(sc, sc2, sym), SymShape(sym), SymPlaced(sc, sym),
         sym.const \in BOOLEAN, sym.len_referenced \in BOOLEAN, sym.used_in_on \in BOOLEAN,
         Position(sc, sym.name) = {}
  PROVE  ScopeOk(sc2)
<1>1. Len(sc.syms) \in Nat /\ DOMAIN sc.syms = 1 .. Len(sc.syms)
  BY StackDom DEF ScopeOk, ScopeShape
<1>2. sc2.ops = sc.ops /\ sc2.nregs = sc.nregs /\ sc2.digests = sc.digests
  BY DEF SymMore, ScopeFields
<1>3. /\ \A p \in DOMAIN sc2.syms : p = Len(sc.syms) + 1 \/ p \in DOMAIN sc.syms
      /\ \A p \in DOMAIN sc.syms : p \in DOMAIN sc2.syms /\ sc2.syms[p] = sc.syms[p]
      /\ sc2.syms[Len(sc.syms) + 1] = sym
  BY <1>1 DEF SymMore
<1>4. ScopeShape(sc2)
  <2>1. \A p \in DOMAIN sc2.syms : SymShape(sc2.syms[p])
    BY <1>1, <1>3 DEF ScopeOk, ScopeShape
  <2> QED
    BY <1>2, <2>1 DEF SymMore, ScopeOk, ScopeShape
<1>5. RunsOk(sc2) /\ RegsIn(sc2) /\ RegsApart(sc2) /\ RegsOwned(sc2)
  <2>1. RunsOk(sc) /\ RegsIn(sc) /\ RegsApart(sc) /\ RegsOwned(sc)
    BY DEF ScopeOk
  <2>2. RunsOk(sc2)
    BY <1>2, <2>1 DEF RunsOk
  <2>3. \A o, i : RegAt(sc2, o, i) = RegAt(sc, o, i)
    BY <1>2 DEF RegAt
  <2>4. RegsIn(sc2)
    BY <1>2, <2>1, <2>3 DEF RegsIn
  <2>5. RegsApart(sc2)
    BY <1>2, <2>1, <2>3 DEF RegsApart
  <2>6. RegsOwned(sc2)
    BY <1>2, <2>1, <2>3 DEF RegsOwned
  <2> QED
    BY <2>2, <2>4, <2>5, <2>6
<1>6. SymsOk(sc2)
  <2>1. ASSUME NEW p \in DOMAIN sc2.syms
        PROVE  /\ SymPlaced(sc2, sc2.syms[p])
               /\ sc2.syms[p].const \in BOOLEAN /\ sc2.syms[p].len_referenced \in BOOLEAN
               /\ sc2.syms[p].used_in_on \in BOOLEAN
    <3>1. \A s : SymPlaced(sc2, s) <=> SymPlaced(sc, s)
      BY <1>2 DEF SymPlaced, ItemOf
    <3> QED
      BY <1>3, <3>1 DEF ScopeOk, SymsOk
  <2>2. ASSUME NEW p \in DOMAIN sc2.syms, NEW q \in DOMAIN sc2.syms, sc2.syms[p].name = sc2.syms[q].name
        PROVE  p = q
    <3>1. \A s \in DOMAIN sc.syms : sc.syms[s].name # sym.name
      BY DEF Position
    <3>2. \A s, t \in DOMAIN sc.syms : sc.syms[s].name = sc.syms[t].name => s = t
      BY DEF ScopeOk, SymsOk
    <3> QED
      BY <1>3, <2>2, <3>1, <3>2
  <2> QED
    BY <2>1, <2>2 DEF SymsOk
<1> QED
  BY <1>2, <1>4, <1>5, <1>6 DEF ScopeOk

\* AddSym: one symbol more, or none.
SymsMore(sc, sc2) ==
  /\ Stack(sc2.syms) /\ DOMAIN sc.syms \subseteq DOMAIN sc2.syms
  /\ \A p \in DOMAIN sc.syms : sc2.syms[p] = sc.syms[p]
  /\ \A p \in DOMAIN sc2.syms \ DOMAIN sc.syms :
       sc2.syms[p].len_referenced = FALSE /\ sc2.syms[p].used_in_on = FALSE /\ sc2.syms[p].span = {}

\* Where the field of a new symbol is, and what adding the symbol does.
Found(sc, name, o, item, refable, const) ==
  /\ o \in DOMAIN sc.ops
  /\ item = 0 => refable = FALSE /\ sc.ops[o].key = name
  /\ item # 0 => /\ item \in DOMAIN sc.ops[o].items
                 /\ sc.ops[o].items[item].key = name
                 /\ sc.ops[o].items[item].reg = {} /\ sc.ops[o].items[item].const = const
Added(sc, sc2) == ScopeOk(sc2) /\ SymsMore(sc, sc2) /\ \A x \in ScopeFields \ {"syms"} : sc2[x] = sc[x]

LEMMA AddSymOk ==
  ASSUME NEW sc, ScopeOk(sc), NEW name \in FieldNames, NEW o, NEW item, NEW refable, NEW flags, NEW const \in BOOLEAN,
         NEW spannable, \A n \in name : Position(sc, n) = {}, Found(sc, name, o, item, refable, const)
  PROVE  Added(sc, AddSym(sc, name, o, item, refable, flags, const, spannable))
<1> DEFINE sc2 == AddSym(sc, name, o, item, refable, flags, const, spannable)
<1>1. CASE name = {}
  <2>1. sc2 = sc
    BY <1>1 DEF AddSym
  <2> QED
    BY <2>1 DEF SymsMore, ScopeOk, ScopeShape, Added
<1>2. CASE name # {}
  <2>1. PICK n : name = {n}
    BY <1>2 DEF FieldNames
  <2> DEFINE sym == Sym(n, o, item, refable, flags, const, spannable)
             syms2 == Append(sc.syms, sym)
  <2>2. The(name) = n
    BY <2>1, TheOnly
  <2>3. sc2 = [sc EXCEPT !.syms = syms2]
    BY <1>2, <2>2 DEF AddSym
  <2>4. /\ DOMAIN sym = SymFields
        /\ sym.name = n /\ sym.op = o /\ sym.item = item /\ sym.refable = refable /\ sym.const = const /\ sym.reg = {}
        /\ sym.len_referenced = FALSE /\ sym.used_in_on = FALSE /\ sym.span = {}
    BY DEF Sym, SymFields
  <2> HIDE DEF sym
  <2>5. DOMAIN sc = ScopeFields /\ Stack(sc.syms)
    BY DEF ScopeOk, ScopeShape
  <2>6. /\ Stack(syms2) /\ Len(sc.syms) \in Nat /\ DOMAIN sc.syms = 1 .. Len(sc.syms)
        /\ DOMAIN syms2 = 1 .. (Len(sc.syms) + 1)
        /\ \A p \in 1 .. Len(sc.syms) : syms2[p] = sc.syms[p]
        /\ syms2[Len(sc.syms) + 1] = sym
    BY <2>5, StackPush
  <2> HIDE DEF syms2
  <2>7. DOMAIN sc2 = ScopeFields /\ sc2.syms = syms2 /\ \A x \in ScopeFields \ {"syms"} : sc2[x] = sc[x]
    BY <2>3, <2>5 DEF ScopeFields
  <2> HIDE DEF sc2
  <2>8. SymMore(sc, sc2, sym)
    BY <2>6, <2>7 DEF SymMore
  <2>9. SymPlaced(sc, sym)
    BY <2>1, <2>4 DEF SymPlaced, ItemOf, Found
  <2>10. ScopeOk(sc2)
    BY <2>1, <2>4, <2>8, <2>9, SymMoreOk DEF SymShape
  <2>11. SymsMore(sc, sc2)
    <3>1. \A p \in DOMAIN sc2.syms \ DOMAIN sc.syms : sc2.syms[p] = sym
      BY <2>6, <2>7
    <3> QED
      BY <2>4, <2>6, <2>7, <3>1 DEF SymsMore
  <2> QED
    BY <2>7, <2>10, <2>11 DEF sc2, Added
<1> QED
  BY <1>1, <1>2

(***************************************************************************)
(* The steps of the machine.  First the scope on top changes, while the    *)
(* activation on top compiles its fields.                                  *)
(***************************************************************************)
LEMMA OpAimsOf ==
  ASSUME NEW ss, NEW i \in DOMAIN ss, NEW t \in Aims(i, ScopeReads(ss[i]))
  PROVE  t \in OpAims(ss)
  BY DEF OpAims

\* What is in hand moves into the scope: the two together stay the same.
Moved(A, X, B, X2) == B \cup X2 = A \cup X

LEMMA CoreTop ==
  ASSUME NEW ss, NEW td, NEW lev, NEW X, Core(ss, td, lev, X), Top(td).k = "fields",
         NEW sc2, ScopeOk(sc2), SymsMore(Top(ss), sc2), ReadsOk(ScopeReads(sc2)),
         NEW X2, Moved(Aims(Len(ss), ScopeReads(Top(ss))), X, Aims(Len(ss), ScopeReads(sc2)), X2)
  PROVE  Core(SetTop(ss, sc2), td, lev, X2) /\ Len(SetTop(ss, sc2)) = Len(ss)
<1> DEFINE n == Len(ss)
           s2 == SetTop(ss, sc2)
<1>1. ScopesOk(ss) /\ Stack(ss) /\ Level(td, lev, n) /\ Stack(td) /\ NamesFree(ss, td, lev)
  BY DEF Core, ScopesOk, Level
<1>2. n \in Nat /\ DOMAIN ss = 1 .. n /\ DOMAIN td = 1 .. Len(td) /\ Len(td) \in Nat
  BY <1>1, StackDom
<1>3. Len(td) \in DOMAIN td /\ lev[Len(td)] = n
  <2>1. Len(td) # 0
    BY <1>1 DEF Level, Stack
  <2> QED
    BY <1>1, <1>2, <2>1 DEF Level
<1>4. n \in DOMAIN ss
  BY <1>1, <1>2, <1>3, LevelIn
<1>5. /\ Stack(s2) /\ DOMAIN s2 = DOMAIN ss /\ Len(s2) = n /\ s2[n] = sc2
      /\ \A i \in DOMAIN ss : i # n => s2[i] = ss[i]
  <2>1. s2 = Put(ss, n, sc2)
    BY DEF SetTop, Put
  <2> QED
    BY <1>1, <1>4, <2>1, StackPut
<1> HIDE DEF s2
<1>6. Top(ss) = ss[n] /\ Aims(n, ScopeReads(sc2)) \cup X2 = Aims(n, ScopeReads(Top(ss))) \cup X
  BY DEF Top, Moved
<1>7. ScopesOk(s2)
  BY <1>1, <1>5 DEF ScopesOk
<1>8. \A i \in DOMAIN s2 : ReadsOk(ScopeReads(s2[i]))
  BY <1>5 DEF Core
<1>9. NamesFree(s2, td, lev)
  <2>1. \A j \in DOMAIN td : td[j].k # "fields" => lev[j] \in DOMAIN ss /\ lev[j] # n
    <3> SUFFICES ASSUME NEW j \in DOMAIN td, td[j].k # "fields" PROVE lev[j] \in DOMAIN ss /\ lev[j] # n
      OBVIOUS
    <3>1. lev[j] \in 1 .. n
      BY <1>1, <1>2, LevelIn
    <3>2. j # Len(td)
      BY DEF Top
    <3>3. j < Len(td)
      BY <1>2, <3>2
    <3>4. lev[j] < lev[Len(td)]
      BY <1>1, <1>3, <3>3 DEF Level, Top
    <3> QED
      BY <1>2, <1>3, <3>1, <3>4
  <2> QED
    BY <1>1, <1>5, <2>1 DEF NamesFree
<1>10. OpAims(s2) \cup X2 = OpAims(ss) \cup X
  <2>1. \A t : t \in OpAims(s2) \cup X2 => t \in OpAims(ss) \cup X
    <3> SUFFICES ASSUME NEW t \in OpAims(s2) \cup X2 PROVE t \in OpAims(ss) \cup X
      OBVIOUS
    <3>1. CASE t \in X2
      BY <3>1, <1>4, <1>6, OpAimsOf
    <3>2. CASE t \in OpAims(s2)
      <4>1. PICK i \in DOMAIN ss : t \in Aims(i, ScopeReads(s2[i]))
        BY <3>2, <1>5 DEF OpAims
      <4>2. CASE i = n
        BY <4>1, <4>2, <1>4, <1>5, <1>6, OpAimsOf
      <4>3. CASE i # n
        BY <4>1, <4>3, <1>5, OpAimsOf
      <4> QED
        BY <4>2, <4>3
    <3> QED
      BY <3>1, <3>2
  <2>2. \A t : t \in OpAims(ss) \cup X => t \in OpAims(s2) \cup X2
    <3> SUFFICES ASSUME NEW t \in OpAims(ss) \cup X PROVE t \in OpAims(s2) \cup X2
      OBVIOUS
    <3>1. CASE t \in X
      BY <3>1, <1>4, <1>5, <1>6, OpAimsOf
    <3>2. CASE t \in OpAims(ss)
      <4>1. PICK i \in DOMAIN ss : t \in Aims(i, ScopeReads(ss[i]))
        BY <3>2 DEF OpAims
      <4>2. CASE i = n
        BY <4>1, <4>2, <1>4, <1>5, <1>6, OpAimsOf
      <4>3. CASE i # n
        BY <4>1, <4>3, <1>5, OpAimsOf
      <4> QED
        BY <4>2, <4>3
    <3> QED
      BY <3>1, <3>2
  <2> QED
    BY <2>1, <2>2
<1> DEFINE T == AllAims(ss, td, lev) \cup X
<1>11. AllAims(s2, td, lev) \cup X2 = T
  BY <1>10 DEF AllAims
<1>12. AllHit(ss, T) /\ AllNoted(ss, T)
  BY DEF Core
<1> HIDE DEF T
<1>13. AllHit(s2, T)
  <2> SUFFICES ASSUME NEW t \in T PROVE Hit(s2, t)
    BY DEF AllHit
  <2>1. Hit(ss, t)
    BY <1>12 DEF AllHit
  <2>2. CASE t.at = n
    <3>1. PICK p \in DOMAIN ss[n].syms :
            /\ ss[n].syms[p].name = t.name
            /\ ss[n].syms[p].reg = {t.idx}
            /\ t.role = "Len" /\ ss[n].syms[p].const = FALSE => ss[n].syms[p].len_referenced = TRUE
            /\ t.role = "On" => ss[n].syms[p].used_in_on = TRUE
      BY <2>1, <2>2 DEF Hit
    <3>2. p \in DOMAIN sc2.syms /\ sc2.syms[p] = ss[n].syms[p]
      BY <1>6 DEF SymsMore
    <3> QED
      BY <1>4, <1>5, <2>2, <3>1, <3>2 DEF Hit
  <2>3. CASE t.at # n
    BY <2>1, <2>3, <1>5 DEF Hit
  <2> QED
    BY <2>2, <2>3
<1>14. AllNoted(s2, T)
  <2> SUFFICES ASSUME NEW i \in DOMAIN ss, NEW p \in DOMAIN s2[i].syms
               PROVE  /\ s2[i].syms[p].len_referenced = TRUE =>
                           s2[i].syms[p].const = FALSE /\ ReadAs(T, i, s2[i].syms[p].reg, "Len")
                      /\ s2[i].syms[p].used_in_on = TRUE => ReadAs(T, i, s2[i].syms[p].reg, "On")
    BY <1>5 DEF AllNoted
  <2>1. CASE i # n
    BY <2>1, <1>5, <1>12 DEF AllNoted
  <2>2. CASE i = n /\ p \in DOMAIN ss[n].syms
    <3>1. s2[i].syms[p] = ss[i].syms[p]
      BY <2>2, <1>5, <1>6 DEF SymsMore
    <3> QED
      BY <2>2, <3>1, <1>12 DEF AllNoted
  <2>3. CASE i = n /\ p \notin DOMAIN ss[n].syms
    BY <2>3, <1>5, <1>6 DEF SymsMore
  <2> QED
    BY <2>1, <2>2, <2>3
<1> QED
  BY <1>1, <1>5, <1>7, <1>8, <1>9, <1>11, <1>13, <1>14 DEF Core, s2

\* An activation is pushed, and takes the code that was in its hands.
AsTop(lev, k, n) == [j \in 1 .. k |-> IF j = k THEN n ELSE lev[j]]
LEMMA CorePush ==
  ASSUME NEW ss, NEW td, NEW lev, NEW X, NEW a, ActOk(a), Core(ss, td, lev, X \cup Aims(Len(ss), ActReads(a))),
         Top(td).k # "nest", a.k # "fields",
         \A n \in a.name : Position(Top(ss), n) = {} /\ Top(td).k = "fields"
  PROVE  Core(ss, Append(td, a), AsTop(lev, Len(td) + 1, Len(ss)), X)
<1> DEFINE n == Len(ss)
           m == Len(td)
           td2 == Append(td, a)
           lev2 == AsTop(lev, m + 1, n)
<1>1. ScopesOk(ss) /\ Stack(ss) /\ Level(td, lev, n) /\ Stack(td) /\ NamesFree(ss, td, lev)
  BY DEF Core, ScopesOk, Level
<1>2. n \in Nat /\ DOMAIN ss = 1 .. n /\ DOMAIN td = 1 .. m /\ m \in Nat
  BY <1>1, StackDom
<1>3. m \in DOMAIN td /\ lev[m] = n
  <2>1. m # 0
    BY <1>1 DEF Level, Stack
  <2> QED
    BY <1>1, <1>2, <2>1 DEF Level
<1>4. \A j \in DOMAIN td : lev[j] \in 1 .. n
  BY <1>1, <1>2, LevelIn
<1>5. /\ Stack(td2) /\ DOMAIN td2 = 1 .. (m + 1) /\ Len(td2) = m + 1 /\ td2 # <<>>
      /\ \A j \in 1 .. m : td2[j] = td[j]
      /\ td2[m + 1] = a
  BY <1>1, StackPush
<1> HIDE DEF td2
<1>6. lev2[m + 1] = n /\ \A j \in 1 .. m : lev2[j] = lev[j]
  BY <1>2 DEF AsTop
<1> HIDE DEF lev2
<1>7. Level(td2, lev2, n)
  <2>1. td2[1].k = "fields" /\ lev2[1] = 1
    BY <1>1, <1>2, <1>3, <1>5, <1>6 DEF Level
  <2>2. \A j \in 1 .. (m + 1) : j = m + 1 \/ j \in 1 .. m
    BY <1>2
  <2>3. \A j \in DOMAIN td2 : lev2[j] \in Nat \ {0} /\ ActOk(td2[j])
    <3>1. \A j \in DOMAIN td : lev[j] \in Nat \ {0} /\ ActOk(td[j])
      BY <1>1 DEF Level
    <3> QED
      BY <3>1, <2>2, <1>2, <1>3, <1>5, <1>6
  <2>4. ASSUME NEW j \in DOMAIN td2, j # 1
        PROVE  /\ lev2[j] = lev2[j - 1] + (IF td2[j].k = "fields" THEN 1 ELSE 0)
               /\ td2[j].k = "fields" <=> td2[j - 1].k = "nest"
    <3>1. CASE j = m + 1
      <4>1. td2[j] = a /\ td2[j - 1] = td[m] /\ lev2[j] = n /\ lev2[j - 1] = n
        BY <3>1, <1>2, <1>3, <1>5, <1>6
      <4> QED
        BY <4>1, <1>2 DEF Top
    <3>2. CASE j # m + 1
      <4>1. j \in 1 .. m /\ j - 1 \in 1 .. m
        BY <3>2, <2>4, <1>2, <1>5
      <4>2. td2[j] = td[j] /\ td2[j - 1] = td[j - 1] /\ lev2[j] = lev[j] /\ lev2[j - 1] = lev[j - 1]
        BY <4>1, <1>5, <1>6
      <4> QED
        BY <4>1, <4>2, <2>4, <1>1, <1>2 DEF Level
    <3> QED
      BY <3>1, <3>2
  <2>5. ASSUME NEW i \in DOMAIN td2, NEW j \in DOMAIN td2, i < j
        PROVE  lev2[i] <= lev2[j] /\ (td2[j].k = "fields" => lev2[i] < lev2[j])
    <3>1. i \in 1 .. m /\ lev2[i] = lev[i]
      BY <2>5, <1>2, <1>5, <1>6
    <3>2. CASE j = m + 1
      BY <3>1, <3>2, <1>2, <1>4, <1>5, <1>6
    <3>3. CASE j # m + 1
      <4>1. j \in 1 .. m /\ td2[j] = td[j] /\ lev2[j] = lev[j]
        BY <3>3, <1>2, <1>5, <1>6
      <4> QED
        BY <3>1, <4>1, <2>5, <1>1, <1>2 DEF Level
    <3> QED
      BY <3>2, <3>3
  <2> QED
    BY <2>1, <2>3, <2>4, <2>5, <1>5, <1>6 DEF Level
<1>8. NamesFree(ss, td2, lev2)
  <2> SUFFICES ASSUME NEW j \in DOMAIN td2, td2[j].k # "fields", NEW x \in td2[j].name
               PROVE  Position(ss[lev2[j]], x) = {} /\ td2[j - 1].k = "fields"
    BY DEF NamesFree
  <2>1. CASE j = m + 1
    <3>1. td2[j] = a /\ td2[j - 1] = td[m] /\ lev2[j] = n
      BY <2>1, <1>2, <1>3, <1>5, <1>6
    <3> QED
      BY <3>1 DEF Top
  <2>2. CASE j # m + 1
    <3>1. j \in 1 .. m /\ td2[j] = td[j] /\ lev2[j] = lev[j]
      BY <2>2, <1>2, <1>5, <1>6
    <3>2. j # 1
      BY <3>1, <1>1 DEF Level
    <3>3. td2[j - 1] = td[j - 1]
      BY <3>1, <3>2, <1>2, <1>5
    <3> QED
      BY <3>1, <3>3, <1>1, <1>2 DEF NamesFree
  <2> QED
    BY <2>1, <2>2
<1>9. TodoAims(td2, lev2) = TodoAims(td, lev) \cup Aims(n, ActReads(a))
  <2>1. \A j \in 1 .. m : Aims(lev2[j], ActReads(td2[j])) = Aims(lev[j], ActReads(td[j]))
    BY <1>5, <1>6
  <2>2. Aims(lev2[m + 1], ActReads(td2[m + 1])) = Aims(n, ActReads(a))
    BY <1>5, <1>6
  <2>3. DOMAIN td2 = DOMAIN td \cup {m + 1}
    BY <1>2, <1>5
  <2> QED
    BY <2>1, <2>2, <2>3, <1>2 DEF TodoAims
<1>10. AllAims(ss, td2, lev2) \cup X = AllAims(ss, td, lev) \cup (X \cup Aims(n, ActReads(a)))
  BY <1>9 DEF AllAims
<1>11. Core(ss, td2, lev2, X)
  BY <1>7, <1>8, <1>10 DEF Core
<1> QED
  BY <1>11 DEF td2, lev2

\* An activation is done and its code is in hand.
LEMMA CorePop ==
  ASSUME NEW ss, NEW td, NEW lev, NEW X, Core(ss, td, lev, X), Top(td).k # "fields"
  PROVE  /\ Core(ss, Front(td), lev, X \cup Aims(Len(ss), ActReads(Top(td))))
         /\ ActOk(Top(td))
         /\ Top(Front(td)).k # "nest"
         /\ \A n \in Top(td).name : Position(Top(ss), n) = {} /\ Top(Front(td)).k = "fields"
<1> DEFINE n == Len(ss)
           m == Len(td)
           td2 == Front(td)
           a == Top(td)
<1>1. ScopesOk(ss) /\ Stack(ss) /\ Level(td, lev, n) /\ Stack(td) /\ td # <<>> /\ NamesFree(ss, td, lev)
  BY DEF Core, ScopesOk, Level
<1>2. /\ DOMAIN td = 1 .. m /\ m \in Nat /\ m >= 1
      /\ Stack(td2) /\ Len(td2) = m - 1 /\ DOMAIN td2 = 1 .. (m - 1)
      /\ \A j \in 1 .. (m - 1) : td2[j] = td[j]
  BY <1>1, StackPop
<1>3. a = td[m] /\ lev[m] = n
  BY <1>1 DEF Level, Top
<1>4. m # 1
  BY <1>1, <1>3 DEF Level
<1>5. m - 1 \in 1 .. (m - 1) /\ m - 1 \in DOMAIN td /\ m \in DOMAIN td /\ 1 \in 1 .. (m - 1)
  BY <1>2, <1>4
<1> HIDE DEF td2
<1>6. Top(td2) = td[m - 1]
  BY <1>2, <1>5 DEF Top
<1>7. lev[m] = lev[m - 1] /\ (td[m].k = "fields" <=> td[m - 1].k = "nest") /\ lev[m - 1] \in Nat /\ ActOk(td[m])
  <2>1. \A j \in DOMAIN td : lev[j] \in Nat \ {0} /\ ActOk(td[j])
    BY <1>1 DEF Level
  <2>2. /\ lev[m] = lev[m - 1] + (IF td[m].k = "fields" THEN 1 ELSE 0)
        /\ td[m].k = "fields" <=> td[m - 1].k = "nest"
    BY <1>1, <1>4, <1>5 DEF Level
  <2> QED
    BY <2>1, <2>2, <1>3, <1>5
<1>8. Level(td2, lev, n)
  <2>1. \A j \in 1 .. (m - 1) : j \in DOMAIN td
    BY <1>2
  <2>2. td2 # <<>>
    BY <1>2, <1>5
  <2>3. td2[1].k = "fields" /\ lev[1] = 1 /\ lev[Len(td2)] = n
    BY <1>1, <1>2, <1>3, <1>5, <1>7 DEF Level
  <2>4. \A j \in DOMAIN td2 : lev[j] \in Nat \ {0} /\ ActOk(td2[j])
    BY <1>1, <1>2, <2>1 DEF Level
  <2>5. ASSUME NEW j \in DOMAIN td2, j # 1
        PROVE  /\ lev[j] = lev[j - 1] + (IF td2[j].k = "fields" THEN 1 ELSE 0)
               /\ td2[j].k = "fields" <=> td2[j - 1].k = "nest"
    <3>1. td2[j] = td[j] /\ td2[j - 1] = td[j - 1] /\ j \in DOMAIN td
      BY <2>5, <1>2
    <3> QED
      BY <3>1, <2>5, <1>1 DEF Level
  <2>6. \A i, j \in DOMAIN td2 : i < j => lev[i] <= lev[j] /\ (td2[j].k = "fields" => lev[i] < lev[j])
    BY <1>1, <1>2, <2>1 DEF Level
  <2> QED
    BY <1>2, <2>2, <2>3, <2>4, <2>5, <2>6 DEF Level
<1>9. NamesFree(ss, td2, lev)
  <2> SUFFICES ASSUME NEW j \in DOMAIN td2, td2[j].k # "fields", NEW x \in td2[j].name
               PROVE  Position(ss[lev[j]], x) = {} /\ td2[j - 1].k = "fields"
    BY DEF NamesFree
  <2>1. j # 1 /\ td2[j] = td[j] /\ j \in DOMAIN td /\ j - 1 \in 1 .. (m - 1)
    <3>1. td2[1].k = "fields"
      BY <1>8 DEF Level
    <3> QED
      BY <3>1, <1>2
  <2> QED
    BY <2>1, <1>1, <1>2 DEF NamesFree
<1>10. TodoAims(td, lev) = TodoAims(td2, lev) \cup Aims(n, ActReads(a))
  <2>1. \A j \in 1 .. (m - 1) : Aims(lev[j], ActReads(td2[j])) = Aims(lev[j], ActReads(td[j]))
    BY <1>2
  <2>2. Aims(lev[m], ActReads(td[m])) = Aims(n, ActReads(a))
    BY <1>3
  <2>3. DOMAIN td = DOMAIN td2 \cup {m}
    BY <1>2
  <2> QED
    BY <2>1, <2>2, <2>3, <1>2 DEF TodoAims
<1>11. AllAims(ss, td2, lev) \cup (X \cup Aims(n, ActReads(a))) = AllAims(ss, td, lev) \cup X
  BY <1>10 DEF AllAims
<1>12. Core(ss, td2, lev, X \cup Aims(n, ActReads(a)))
  BY <1>8, <1>9, <1>11 DEF Core
<1>13. \A x \in a.name : Position(Top(ss), x) = {} /\ Top(td2).k = "fields"
  BY <1>1, <1>3, <1>5, <1>6 DEF NamesFree, Top
<1> QED
  BY <1>3, <1>6, <1>7, <1>12, <1>13 DEF td2

\* A structure opens a scope.
LEMMA NewScopeOk == ScopeOk(NewScope) /\ ScopeReads(NewScope) = {} /\ NewScope.syms = <<>>
<1> DEFINE sc == NewScope
<1>1. /\ DOMAIN sc = ScopeFields /\ sc.ops = <<>> /\ sc.syms = <<>> /\ sc.nregs = 0
      /\ sc.digests = <<>>
  BY DEF NewScope, ScopeFields
<1> HIDE DEF sc
<1>2. Stack(<<>>) /\ DOMAIN <<>> = {}
  BY DEF Stack
<1>3. ScopeShape(sc)
  BY <1>1, <1>2 DEF ScopeShape
<1>4. RunsOk(sc) /\ RegsIn(sc) /\ RegsApart(sc) /\ RegsOwned(sc) /\ SymsOk(sc)
  BY <1>1, <1>2 DEF RunsOk, RegsIn, RegsApart, RegsOwned, SymsOk
<1>5. ScopeReads(sc) = {}
  BY <1>1, <1>2 DEF ScopeReads
<1>6. ScopeOk(sc)
  BY <1>1, <1>3, <1>4, CompilerAssumption DEF ScopeOk
<1> QED
  BY <1>1, <1>5, <1>6 DEF sc

LEMMA FieldsOk == ActOk(Fields) /\ ActReads(Fields) = {} /\ Fields.k = "fields"
<1> DEFINE a == Fields
<1>1. /\ DOMAIN a = ActFields /\ a.k = "fields" /\ a.name = {} /\ a.reads = {} /\ a.done = <<>>
  BY DEF Fields, Activation, ActFields
<1> HIDE DEF a
<1>2. Stack(<<>>) /\ DOMAIN <<>> = {}
  BY DEF Stack
<1>3. ActReads(a) = {}
  BY <1>1, <1>2 DEF ActReads
<1>4. ActOk(a)
  BY <1>1, <1>2, <1>3 DEF ActOk, ReadsOk, FieldNames
<1> QED
  BY <1>1, <1>3, <1>4 DEF a

LEMMA CoreNest ==
  ASSUME NEW ss, NEW td, NEW lev, NEW X, Core(ss, td, lev, X), Top(td).k = "nest"
  PROVE  Core(Append(ss, NewScope), Append(td, Fields), AsTop(lev, Len(td) + 1, Len(ss) + 1), X)
<1> DEFINE n == Len(ss)
           m == Len(td)
           ss2 == Append(ss, NewScope)
           td2 == Append(td, Fields)
           lev2 == AsTop(lev, m + 1, n + 1)
<1>1. ScopesOk(ss) /\ Stack(ss) /\ Level(td, lev, n) /\ Stack(td) /\ NamesFree(ss, td, lev)
  BY DEF Core, ScopesOk, Level
<1>2. n \in Nat /\ DOMAIN ss = 1 .. n /\ DOMAIN td = 1 .. m /\ m \in Nat
  BY <1>1, StackDom
<1>3. m \in DOMAIN td /\ lev[m] = n
  <2>1. m # 0
    BY <1>1 DEF Level, Stack
  <2> QED
    BY <1>1, <1>2, <2>1 DEF Level
<1>4. \A j \in DOMAIN td : lev[j] \in 1 .. n
  BY <1>1, <1>2, LevelIn
<1>5. /\ Stack(td2) /\ DOMAIN td2 = 1 .. (m + 1) /\ Len(td2) = m + 1 /\ td2 # <<>>
      /\ \A j \in 1 .. m : td2[j] = td[j]
      /\ td2[m + 1] = Fields
  BY <1>1, StackPush
<1> HIDE DEF td2
<1>6. lev2[m + 1] = n + 1 /\ \A j \in 1 .. m : lev2[j] = lev[j]
  BY <1>2 DEF AsTop
<1> HIDE DEF lev2
<1>7. /\ Stack(ss2) /\ DOMAIN ss2 = 1 .. (n + 1) /\ Len(ss2) = n + 1
      /\ \A i \in 1 .. n : ss2[i] = ss[i]
      /\ ss2[n + 1] = NewScope
  BY <1>1, StackPush
<1> HIDE DEF ss2
<1>8. Level(td2, lev2, n + 1)
  <2>1. td2[1].k = "fields" /\ lev2[1] = 1
    BY <1>1, <1>2, <1>3, <1>5, <1>6 DEF Level
  <2>2. \A j \in 1 .. (m + 1) : j = m + 1 \/ j \in 1 .. m
    BY <1>2
  <2>3. \A j \in DOMAIN td2 : lev2[j] \in Nat \ {0} /\ ActOk(td2[j])
    <3>1. \A j \in DOMAIN td : lev[j] \in Nat \ {0} /\ ActOk(td[j])
      BY <1>1 DEF Level
    <3> QED
      BY <3>1, <2>2, <1>2, <1>3, <1>5, <1>6, FieldsOk
  <2>4. ASSUME NEW j \in DOMAIN td2, j # 1
        PROVE  /\ lev2[j] = lev2[j - 1] + (IF td2[j].k = "fields" THEN 1 ELSE 0)
               /\ td2[j].k = "fields" <=> td2[j - 1].k = "nest"
    <3>1. CASE j = m + 1
      <4>1. td2[j].k = "fields" /\ td2[j - 1] = td[m] /\ lev2[j] = n + 1 /\ lev2[j - 1] = n
        BY <3>1, <1>2, <1>3, <1>5, <1>6, FieldsOk
      <4> QED
        BY <4>1, <1>2 DEF Top
    <3>2. CASE j # m + 1
      <4>1. j \in 1 .. m /\ j - 1 \in 1 .. m
        BY <3>2, <2>4, <1>2, <1>5
      <4>2. td2[j] = td[j] /\ td2[j - 1] = td[j - 1] /\ lev2[j] = lev[j] /\ lev2[j - 1] = lev[j - 1]
        BY <4>1, <1>5, <1>6
      <4> QED
        BY <4>1, <4>2, <2>4, <1>1, <1>2 DEF Level
    <3> QED
      BY <3>1, <3>2
  <2>5. ASSUME NEW i \in DOMAIN td2, NEW j \in DOMAIN td2, i < j
        PROVE  lev2[i] <= lev2[j] /\ (td2[j].k = "fields" => lev2[i] < lev2[j])
    <3>1. i \in 1 .. m /\ lev2[i] = lev[i]
      BY <2>5, <1>2, <1>5, <1>6
    <3>2. CASE j = m + 1
      BY <3>1, <3>2, <1>2, <1>4, <1>5, <1>6
    <3>3. CASE j # m + 1
      <4>1. j \in 1 .. m /\ td2[j] = td[j] /\ lev2[j] = lev[j]
        BY <3>3, <1>2, <1>5, <1>6
      <4> QED
        BY <3>1, <4>1, <2>5, <1>1, <1>2 DEF Level
    <3> QED
      BY <3>2, <3>3
  <2> QED
    BY <2>1, <2>3, <2>4, <2>5, <1>5, <1>6 DEF Level
<1>9. NamesFree(ss2, td2, lev2)
  <2> SUFFICES ASSUME NEW j \in DOMAIN td2, td2[j].k # "fields", NEW x \in td2[j].name
               PROVE  Position(ss2[lev2[j]], x) = {} /\ td2[j - 1].k = "fields"
    BY DEF NamesFree
  <2>1. j # m + 1
    BY <1>5, FieldsOk
  <2>2. j \in 1 .. m /\ td2[j] = td[j] /\ lev2[j] = lev[j]
    BY <2>1, <1>2, <1>5, <1>6
  <2>3. j # 1
    BY <2>2, <1>1 DEF Level
  <2>4. td2[j - 1] = td[j - 1] /\ ss2[lev[j]] = ss[lev[j]]
    BY <2>2, <2>3, <1>2, <1>4, <1>5, <1>7
  <2> QED
    BY <2>2, <2>4, <1>1, <1>2 DEF NamesFree
<1>10. TodoAims(td2, lev2) = TodoAims(td, lev)
  <2>1. \A j \in 1 .. m : Aims(lev2[j], ActReads(td2[j])) = Aims(lev[j], ActReads(td[j]))
    BY <1>5, <1>6
  <2>2. Aims(lev2[m + 1], ActReads(td2[m + 1])) = {}
    BY <1>5, FieldsOk DEF Aims
  <2>3. DOMAIN td2 = DOMAIN td \cup {m + 1}
    BY <1>2, <1>5
  <2> QED
    BY <2>1, <2>2, <2>3, <1>2 DEF TodoAims
<1>11. OpAims(ss2) = OpAims(ss)
  <2>1. \A i \in 1 .. n : Aims(i, ScopeReads(ss2[i])) = Aims(i, ScopeReads(ss[i]))
    BY <1>7
  <2>2. Aims(n + 1, ScopeReads(ss2[n + 1])) = {}
    BY <1>7, NewScopeOk DEF Aims
  <2>3. DOMAIN ss2 = DOMAIN ss \cup {n + 1}
    BY <1>2, <1>7
  <2> QED
    BY <2>1, <2>2, <2>3, <1>2 DEF OpAims
<1> DEFINE T == AllAims(ss, td, lev) \cup X
<1>12. AllAims(ss2, td2, lev2) \cup X = T
  BY <1>10, <1>11 DEF AllAims
<1>13. AllHit(ss, T) /\ AllNoted(ss, T) /\ \A i \in DOMAIN ss : ReadsOk(ScopeReads(ss[i]))
  BY DEF Core
<1> HIDE DEF T
<1>14. \A i \in DOMAIN ss2 : i = n + 1 \/ i \in DOMAIN ss
  BY <1>2, <1>7
<1>15. ScopesOk(ss2) /\ \A i \in DOMAIN ss2 : ReadsOk(ScopeReads(ss2[i]))
  BY <1>1, <1>2, <1>7, <1>13, <1>14, NewScopeOk DEF ScopesOk, ReadsOk
<1>16. AllHit(ss2, T)
  <2> SUFFICES ASSUME NEW t \in T PROVE Hit(ss2, t)
    BY DEF AllHit
  <2>1. Hit(ss, t)
    BY <1>13 DEF AllHit
  <2>2. t.at \in DOMAIN ss2 /\ ss2[t.at] = ss[t.at]
    BY <2>1, <1>2, <1>7 DEF Hit
  <2> QED
    BY <2>1, <2>2 DEF Hit
<1>17. AllNoted(ss2, T)
  <2>1. DOMAIN ss2[n + 1].syms = {}
    BY <1>7, NewScopeOk
  <2> QED
    BY <2>1, <1>2, <1>7, <1>13, <1>14 DEF AllNoted
<1>18. Core(ss2, td2, lev2, X)
  BY <1>7, <1>8, <1>9, <1>12, <1>15, <1>16, <1>17 DEF Core
<1> QED
  BY <1>18 DEF td2, ss2, lev2

\* A scope ends.  What its code reads further out stays in hand.
Outer(R) == {r \in R : r.up > 0}
ReadBy(R, reg, role) == \E r \in R : r.up = 0 /\ reg = {r.idx} /\ r.role = role
ReadsHit(sc, R) ==
  \A r \in R : r.up = 0 =>
    \E p \in DOMAIN sc.syms :
       /\ sc.syms[p].name = r.name
       /\ sc.syms[p].reg = {r.idx}
       /\ r.role = "Len" /\ sc.syms[p].const = FALSE => sc.syms[p].len_referenced = TRUE
       /\ r.role = "On" => sc.syms[p].used_in_on = TRUE
NotedRead(sc, R) ==
  \A p \in DOMAIN sc.syms :
    /\ sc.syms[p].len_referenced = TRUE => sc.syms[p].const = FALSE /\ ReadBy(R, sc.syms[p].reg, "Len")
    /\ sc.syms[p].used_in_on = TRUE => ReadBy(R, sc.syms[p].reg, "On")

LEMMA CoreHere ==
  ASSUME NEW ss, NEW td, NEW lev, Core(ss, td, lev, {}), Top(td).k = "fields"
  PROVE  /\ ScopeOk(Top(ss)) /\ ReadsOk(ScopeReads(Top(ss))) /\ Len(ss) \in DOMAIN ss
         /\ ReadsHit(Top(ss), ScopeReads(Top(ss))) /\ NotedRead(Top(ss), ScopeReads(Top(ss)))
<1> DEFINE n == Len(ss)
           m == Len(td)
           sc == ss[n]
           R == ScopeReads(sc)
           T == AllAims(ss, td, lev)
<1>0. Top(ss) = sc
  BY DEF Top
<1>1. ScopesOk(ss) /\ Stack(ss) /\ Level(td, lev, n) /\ Stack(td) /\ td # <<>>
  BY DEF Core, ScopesOk, Level
<1>2. n \in Nat /\ DOMAIN ss = 1 .. n /\ DOMAIN td = 1 .. m /\ m \in Nat
  BY <1>1, StackDom
<1>3. m \in DOMAIN td /\ lev[m] = n
  <2>1. m # 0
    BY <1>1 DEF Stack
  <2> QED
    BY <1>1, <1>2, <2>1 DEF Level
<1>4. n \in DOMAIN ss
  BY <1>1, <1>2, <1>3, LevelIn
<1>5. ScopeOk(sc) /\ ReadsOk(R) /\ AllHit(ss, T) /\ AllNoted(ss, T)
  <2>1. AllAims(ss, td, lev) \cup {} = T
    OBVIOUS
  <2> QED
    BY <1>1, <1>4, <2>1 DEF Core, ScopesOk
<1>6. \A r \in R : r.up = 0 => Aim(n, r) \in T
  BY <1>4 DEF AllAims, OpAims, Aims
<1>7. ASSUME NEW t \in T, t.at = n
      PROVE  \E r \in R : r.up = 0 /\ t.idx = r.idx /\ t.role = r.role
  <2>1. CASE t \in OpAims(ss)
    <3>1. PICK i \in DOMAIN ss : t \in Aims(i, ScopeReads(ss[i]))
      BY <2>1 DEF OpAims
    <3>2. PICK r \in ScopeReads(ss[i]) : t = Aim(i, r)
      BY <3>1 DEF Aims
    <3>3. r.up \in Nat
      BY <3>1 DEF Core, ReadsOk, ReadOk
    <3>4. i - r.up = n /\ t.idx = r.idx /\ t.role = r.role
      BY <3>2, <1>7 DEF Aim
    <3>5. i = n /\ r.up = 0
      BY <3>3, <3>4, <1>2
    <3> QED
      BY <3>2, <3>4, <3>5
  <2>2. CASE t \in TodoAims(td, lev)
    <3>1. PICK j \in DOMAIN td : t \in Aims(lev[j], ActReads(td[j]))
      BY <2>2 DEF TodoAims
    <3>2. PICK r \in ActReads(td[j]) : t = Aim(lev[j], r)
      BY <3>1 DEF Aims
    <3>3. ActOk(td[j]) /\ ActOk(td[m]) /\ lev[j] \in Nat
      BY <1>1, <1>3 DEF Level
    <3>4. r.up \in Nat
      BY <3>3 DEF ActOk, ReadsOk, ReadOk
    <3>5. lev[j] - r.up = n
      BY <3>2, <1>7 DEF Aim
    <3>6. lev[j] >= n
      BY <3>3, <3>4, <3>5, <1>2
    <3>7. j = m
      <4>1. j < m => lev[j] < lev[m]
        BY <1>1, <1>3 DEF Level, Top
      <4> QED
        BY <4>1, <3>3, <3>6, <1>2, <1>3
    <3>8. ActReads(td[m]) = {}
      <4>1. td[m].k = "fields"
        BY DEF Top
      <4> QED
        BY <4>1, <3>3 DEF ActOk, ActReads
    <3> QED
      BY <3>7, <3>8
  <2> QED
    BY <2>1, <2>2 DEF AllAims
<1> HIDE DEF T
<1>8. ReadsHit(sc, R)
  <2> SUFFICES ASSUME NEW r \in R, r.up = 0
               PROVE  \E p \in DOMAIN sc.syms :
                         /\ sc.syms[p].name = r.name
                         /\ sc.syms[p].reg = {r.idx}
                         /\ r.role = "Len" /\ sc.syms[p].const = FALSE => sc.syms[p].len_referenced = TRUE
                         /\ r.role = "On" => sc.syms[p].used_in_on = TRUE
    BY DEF ReadsHit
  <2>1. Hit(ss, Aim(n, r))
    BY <1>5, <1>6 DEF AllHit
  <2>2. Aim(n, r).at = n /\ Aim(n, r).name = r.name /\ Aim(n, r).idx = r.idx /\ Aim(n, r).role = r.role
    BY <1>2 DEF Aim
  <2> QED
    BY <2>1, <2>2 DEF Hit
<1>9. NotedRead(sc, R)
  <2>1. ASSUME NEW reg, NEW role, ReadAs(T, n, reg, role) PROVE ReadBy(R, reg, role)
    <3>1. PICK t \in T : t.at = n /\ reg = {t.idx} /\ t.role = role
      BY <2>1 DEF ReadAs
    <3> QED
      BY <3>1, <1>7 DEF ReadBy
  <2> QED
    BY <2>1, <1>4, <1>5 DEF NotedRead, AllNoted
<1> QED
  BY <1>0, <1>4, <1>5, <1>8, <1>9

LEMMA CoreEnd ==
  ASSUME NEW ss, NEW td, NEW lev, Core(ss, td, lev, {}), Top(td).k = "fields", Len(td) # 1
  PROVE  /\ Core(Front(ss), Front(td), lev, Aims(Len(ss), Outer(ScopeReads(Top(ss)))))
         /\ Top(Front(td)).k = "nest" /\ Len(Front(ss)) = Len(ss) - 1 /\ Len(ss) \in Nat
<1> DEFINE n == Len(ss)
           m == Len(td)
           ss2 == Front(ss)
           td2 == Front(td)
           R == ScopeReads(ss[n])
           X2 == Aims(n, Outer(R))
           T == AllAims(ss, td, lev)
           T2 == AllAims(ss2, td2, lev) \cup X2
<1>0. Top(ss) = ss[n]
  BY DEF Top
<1>1. ScopesOk(ss) /\ Stack(ss) /\ Level(td, lev, n) /\ Stack(td) /\ td # <<>> /\ NamesFree(ss, td, lev)
  BY DEF Core, ScopesOk, Level
<1>2. n \in Nat /\ DOMAIN ss = 1 .. n
  BY <1>1, StackDom
<1>3. /\ DOMAIN td = 1 .. m /\ m \in Nat /\ m >= 1
      /\ Stack(td2) /\ Len(td2) = m - 1 /\ DOMAIN td2 = 1 .. (m - 1)
      /\ \A j \in 1 .. (m - 1) : td2[j] = td[j]
  BY <1>1, StackPop
<1>4. m - 1 \in 1 .. (m - 1) /\ m - 1 \in DOMAIN td /\ m \in DOMAIN td /\ 1 \in 1 .. (m - 1) /\ lev[m] = n
  BY <1>1, <1>3 DEF Level
<1>5. n \in DOMAIN ss /\ n # 0 /\ ss # <<>>
  <2>1. n \in 1 .. n
    BY <1>1, <1>2, <1>4, LevelIn
  <2> QED
    BY <1>2, <2>1
<1>6. /\ Stack(ss2) /\ Len(ss2) = n - 1 /\ DOMAIN ss2 = 1 .. (n - 1)
      /\ \A i \in 1 .. (n - 1) : ss2[i] = ss[i]
  BY <1>1, <1>5, StackPop
<1> HIDE DEF td2, ss2
<1>7. td[m].k = "fields" /\ td[m - 1].k = "nest" /\ lev[m] = lev[m - 1] + 1 /\ lev[m - 1] \in Nat
  <2>1. td[m].k = "fields"
    BY DEF Top
  <2>2. /\ lev[m] = lev[m - 1] + (IF td[m].k = "fields" THEN 1 ELSE 0)
        /\ td[m].k = "fields" <=> td[m - 1].k = "nest"
    BY <1>1, <1>4 DEF Level
  <2>3. \A j \in DOMAIN td : lev[j] \in Nat
    BY <1>1 DEF Level
  <2> QED
    BY <2>1, <2>2, <2>3, <1>4
<1>8. lev[m - 1] = n - 1 /\ Top(td2).k = "nest"
  BY <1>2, <1>3, <1>4, <1>7 DEF Top
<1>9. \A j \in 1 .. (m - 1) : j \in DOMAIN td /\ j < m
  BY <1>3
<1>10. Level(td2, lev, n - 1)
  <2>2. td2 # <<>>
    BY <1>3, <1>4
  <2>3. td2[1].k = "fields" /\ lev[1] = 1 /\ lev[Len(td2)] = n - 1
    BY <1>1, <1>3, <1>4, <1>8 DEF Level
  <2>4. \A j \in DOMAIN td2 : lev[j] \in Nat \ {0} /\ ActOk(td2[j])
    BY <1>1, <1>3, <1>9 DEF Level
  <2>5. ASSUME NEW j \in DOMAIN td2, j # 1
        PROVE  /\ lev[j] = lev[j - 1] + (IF td2[j].k = "fields" THEN 1 ELSE 0)
               /\ td2[j].k = "fields" <=> td2[j - 1].k = "nest"
    <3>1. td2[j] = td[j] /\ td2[j - 1] = td[j - 1] /\ j \in DOMAIN td
      BY <2>5, <1>3
    <3> QED
      BY <3>1, <2>5, <1>1 DEF Level
  <2>6. \A i, j \in DOMAIN td2 : i < j => lev[i] <= lev[j] /\ (td2[j].k = "fields" => lev[i] < lev[j])
    BY <1>1, <1>3, <1>9 DEF Level
  <2> QED
    BY <1>3, <2>2, <2>3, <2>4, <2>5, <2>6 DEF Level
<1>11. \A j \in 1 .. (m - 1) : lev[j] \in 1 .. (n - 1)
  <2> TAKE j \in 1 .. (m - 1)
  <2>1. n - 1 \in Nat
    BY <1>2, <1>5
  <2> QED
    BY <2>1, <1>3, <1>10, LevelIn
<1>12. NamesFree(ss2, td2, lev)
  <2> SUFFICES ASSUME NEW j \in DOMAIN td2, td2[j].k # "fields", NEW x \in td2[j].name
               PROVE  Position(ss2[lev[j]], x) = {} /\ td2[j - 1].k = "fields"
    BY DEF NamesFree
  <2>1. j # 1 /\ td2[j] = td[j] /\ j \in DOMAIN td /\ j - 1 \in 1 .. (m - 1) /\ ss2[lev[j]] = ss[lev[j]]
    <3>1. td2[1].k = "fields"
      BY <1>10 DEF Level
    <3> QED
      BY <3>1, <1>3, <1>6, <1>11
  <2> QED
    BY <2>1, <1>1, <1>3 DEF NamesFree
<1>13. ReadsOk(R) /\ AllHit(ss, T) /\ AllNoted(ss, T) /\ \A i \in DOMAIN ss : ReadsOk(ScopeReads(ss[i]))
  <2>1. AllAims(ss, td, lev) \cup {} = T
    OBVIOUS
  <2> QED
    BY <1>5, <2>1 DEF Core
<1>14. OpAims(ss) = OpAims(ss2) \cup Aims(n, R)
  <2>1. \A i \in 1 .. (n - 1) : Aims(i, ScopeReads(ss2[i])) = Aims(i, ScopeReads(ss[i]))
    BY <1>6
  <2>2. DOMAIN ss = (1 .. (n - 1)) \cup {n}
    BY <1>2, <1>5
  <2>3. OpAims(ss2) = UNION {Aims(i, ScopeReads(ss[i])) : i \in 1 .. (n - 1)}
    BY <2>1, <1>6 DEF OpAims
  <2>4. OpAims(ss) = (UNION {Aims(i, ScopeReads(ss[i])) : i \in 1 .. (n - 1)}) \cup Aims(n, ScopeReads(ss[n]))
    BY <2>2 DEF OpAims
  <2> QED
    BY <2>3, <2>4
<1>15. TodoAims(td, lev) = TodoAims(td2, lev)
  <2>1. \A j \in 1 .. (m - 1) : Aims(lev[j], ActReads(td2[j])) = Aims(lev[j], ActReads(td[j]))
    BY <1>3
  <2>2. ActReads(td[m]) = {}
    <3>1. ActOk(td[m])
      BY <1>1, <1>4 DEF Level
    <3> QED
      BY <3>1, <1>7 DEF ActOk, ActReads
  <2>3. Aims(lev[m], ActReads(td[m])) = {}
    BY <2>2 DEF Aims
  <2>4. DOMAIN td = DOMAIN td2 \cup {m}
    BY <1>3
  <2> QED
    BY <2>1, <2>3, <2>4, <1>3 DEF TodoAims
<1>16. \A r \in R : r.up \in Nat
  BY <1>13 DEF ReadsOk, ReadOk
<1>17. T2 \subseteq T
  BY <1>14, <1>15 DEF AllAims, Aims, Outer
<1>18. \A t \in T : t \in T2 \/ t.at = n
  <2> SUFFICES ASSUME NEW t \in T PROVE t \in T2 \/ t.at = n
    OBVIOUS
  <2>1. CASE t \in Aims(n, R)
    <3>1. PICK r \in R : t = Aim(n, r)
      BY <2>1 DEF Aims
    <3>2. CASE r.up = 0
      BY <3>1, <3>2, <1>2 DEF Aim
    <3>3. CASE r.up # 0
      BY <3>1, <3>3, <1>16 DEF Aims, Outer
    <3> QED
      BY <3>2, <3>3
  <2>2. CASE t \notin Aims(n, R)
    BY <2>2, <1>14, <1>15 DEF AllAims
  <2> QED
    BY <2>1, <2>2
<1>19. \A t \in T2 : t.at # n
  <2> SUFFICES ASSUME NEW t \in T2 PROVE t.at # n
    OBVIOUS
  <2>1. CASE t \in X2
    <3>1. PICK r \in R : t = Aim(n, r) /\ r.up > 0
      BY <2>1 DEF Aims, Outer
    <3> QED
      BY <3>1, <1>2, <1>16 DEF Aim
  <2>2. CASE t \in OpAims(ss2)
    <3>1. PICK i \in 1 .. (n - 1) : t \in Aims(i, ScopeReads(ss2[i]))
      BY <2>2, <1>6 DEF OpAims
    <3>2. PICK r \in ScopeReads(ss[i]) : t = Aim(i, r)
      BY <3>1, <1>6 DEF Aims
    <3>3. i \in DOMAIN ss
      BY <3>1, <1>2
    <3>4. r.up \in Nat
      BY <3>2, <3>3, <1>13 DEF ReadsOk, ReadOk
    <3> QED
      BY <3>1, <3>2, <3>4, <1>2 DEF Aim
  <2>3. CASE t \in TodoAims(td2, lev)
    <3>1. PICK j \in 1 .. (m - 1) : t \in Aims(lev[j], ActReads(td2[j]))
      BY <2>3, <1>3 DEF TodoAims
    <3>2. PICK r \in ActReads(td[j]) : t = Aim(lev[j], r)
      BY <3>1, <1>3 DEF Aims
    <3>3. ActOk(td[j])
      BY <1>1, <1>9 DEF Level
    <3>4. r.up \in Nat
      BY <3>2, <3>3 DEF ActOk, ReadsOk, ReadOk
    <3> QED
      BY <3>2, <3>4, <1>2, <1>11 DEF Aim
  <2> QED
    BY <2>1, <2>2, <2>3 DEF AllAims
<1> HIDE DEF T, T2
<1>20. \A i \in DOMAIN ss2 : i \in DOMAIN ss /\ i # n /\ ss2[i] = ss[i]
  BY <1>2, <1>6
<1>21. AllHit(ss2, T2)
  <2> SUFFICES ASSUME NEW t \in T2 PROVE Hit(ss2, t)
    BY DEF AllHit
  <2>1. Hit(ss, t)
    BY <1>13, <1>17 DEF AllHit
  <2>2. t.at \in DOMAIN ss2 /\ ss2[t.at] = ss[t.at]
    BY <2>1, <1>2, <1>6, <1>19 DEF Hit
  <2> QED
    BY <2>1, <2>2 DEF Hit
<1>22. AllNoted(ss2, T2)
  <2>1. ASSUME NEW i \in DOMAIN ss2, NEW reg, NEW role, ReadAs(T, i, reg, role) PROVE ReadAs(T2, i, reg, role)
    <3>1. PICK t \in T : t.at = i /\ reg = {t.idx} /\ t.role = role
      BY <2>1 DEF ReadAs
    <3> QED
      BY <3>1, <1>18, <1>20 DEF ReadAs
  <2> QED
    BY <2>1, <1>13, <1>20 DEF AllNoted
<1>23. ScopesOk(ss2) /\ \A i \in DOMAIN ss2 : ReadsOk(ScopeReads(ss2[i]))
  BY <1>1, <1>6, <1>13, <1>20 DEF ScopesOk
<1>24. Core(ss2, td2, lev, X2)
  BY <1>6, <1>10, <1>12, <1>21, <1>22, <1>23 DEF Core, T2
<1> QED
  BY <1>0, <1>2, <1>6, <1>8, <1>24 DEF ss2, td2

(***************************************************************************)
(* Sizes and depths.                                                       *)
(***************************************************************************)
\* The sum of natural numbers is one.
LEMMA TotalNat ==
  ASSUME NEW n \in Nat, NEW s, s \in [1 .. n -> Nat]
  PROVE  Total(s) \in Nat
<1> DEFINE Step(i, x) == x + s[i]
           st == [p \in (1 .. n) \X Nat |-> Step(p[1], p[2])]
           Eq(g) == g = [i \in 0 .. n |-> IF i = 0 THEN 0 ELSE Step(i, g[i - 1])]
           f == CHOOSE g : Eq(g)
<1>1. \A i \in 1 .. n : \A x \in Nat : Step(i, x) \in Nat
  OBVIOUS
<1>2. \A i \in 1 .. n : \A x \in Nat : st[<<i, x>>] = Step(i, x)
  OBVIOUS
<1>3. Len(s) = n
  OBVIOUS
<1> HIDE DEF st, Step
<1>4. PICK g : g \in [0 .. n -> Nat] /\ Iterates(g, st, 0, n)
  <2>1. 0 \in Nat /\ Steps(st, n, Nat)
    BY <1>1, <1>2 DEF Steps
  <2> QED
    BY <2>1, IterExists
<1>5. \A i \in 0 .. n : g[i] = IF i = 0 THEN 0 ELSE Step(i, g[i - 1])
  <2> TAKE i \in 0 .. n
  <2>1. i = 0 \/ (i # 0 /\ i \in 1 .. n /\ i - 1 \in 0 .. n)
    OBVIOUS
  <2> QED
    BY <2>1, <1>2, <1>4 DEF Iterates
<1>6. Eq(g)
  BY <1>4, <1>5
<1>7. Eq(f)
  BY <1>6
<1>8. Total(s) = f[n]
  BY <1>3 DEF Total, Step
<1> HIDE DEF f
<1>9. \A i \in 0 .. n : f[i] = IF i = 0 THEN 0 ELSE Step(i, f[i - 1])
  BY <1>7
<1> DEFINE S == {m \in Nat : m <= n => f[m] \in Nat}
<1>10. 0 \in S
  BY <1>9
<1>11. ASSUME NEW m \in Nat, m \in S PROVE m + 1 \in S
  <2> SUFFICES ASSUME m + 1 <= n PROVE f[m + 1] \in Nat
    OBVIOUS
  <2>1. m + 1 \in 1 .. n /\ m + 1 \in 0 .. n /\ m + 1 # 0 /\ (m + 1) - 1 = m /\ f[m] \in Nat
    BY <1>11
  <2>2. f[m + 1] = Step(m + 1, f[m])
    BY <2>1, <1>9
  <2> QED
    BY <2>1, <2>2, <1>1
<1> HIDE DEF S
<1>12. n \in S
  BY <1>10, <1>11, NatInductionOn
<1> QED
  BY <1>8, <1>12 DEF S

\* The greatest of some natural numbers that have a bound.
LEMMA MaxIs ==
  ASSUME NEW S \in SUBSET Nat, S # {}, NEW b \in Nat, \A x \in S : x <= b
  PROVE  Max(S) \in S /\ \A x \in S : x <= Max(S)
<1>1. PICK x \in S : \A m \in S : m <= x
  BY GreatestNat
<1>2. \E y \in S : \A m \in S : y >= m
  BY <1>1
<1>3. Max(S) \in S /\ \A m \in S : Max(S) >= m
  BY <1>2 DEF Max
<1> QED
  BY <1>3

\* An opcode's size: what is static is the minimum, and a run is static.
Sized(op) ==
  /\ op.min \in Nat /\ op.frames \in Nat /\ op.static \subseteq {op.min}
  /\ op.op \in {"Fixed", "BitRun"} => op.static = {op.min}
  /\ \A i \in DOMAIN op.items : op.items[i].len \in Nat
Unspanned(op) == op.span = {} /\ \A i \in DOMAIN op.items : op.items[i].span = {}

\* The digests of a scope, one for each of their opcodes.
DigestsOk(sc) ==
  /\ \A k \in DOMAIN sc.digests :
       /\ sc.digests[k].op \in DOMAIN sc.ops /\ sc.ops[sc.digests[k].op].op = "Digest"
       /\ Listed(sc.digests[k].over)
  /\ \A k, l \in DOMAIN sc.digests : sc.digests[k].op = sc.digests[l].op => k = l

\* A scope that is open: its opcodes are sized, and no span is given out.
Sound(sc) ==
  /\ \A o \in DOMAIN sc.ops : Sized(sc.ops[o]) /\ Unspanned(sc.ops[o])
  /\ \A p \in DOMAIN sc.syms : sc.syms[p].span = {}
  /\ sc.nspans = 0 /\ DigestsOk(sc)

Frames(sc) == {sc.ops[o].frames : o \in DOMAIN sc.ops}
DoneFrames(a) == {a.done[i].frames : i \in DOMAIN a.done}
ActSized(a) ==
  /\ Const01(a.const) /\ (a.k = "nest" /\ a.const # {} => a.sized = TRUE)
  /\ \A i \in DOMAIN a.done : Sized(a.done[i])

LEMMA SoundSame ==
  ASSUME NEW sc, NEW sc2, ScopeShape(sc), SameScope(sc, sc2), Sound(sc)
  PROVE  Sound(sc2) /\ Frames(sc2) = Frames(sc)
<1>1. /\ DOMAIN sc2.ops = DOMAIN sc.ops /\ DOMAIN sc2.syms = DOMAIN sc.syms
      /\ sc2.nspans = sc.nspans /\ sc2.digests = sc.digests
  BY DEF SameScope, SameBut, ScopeShape, ScopeFields
<1>2. ASSUME NEW o \in DOMAIN sc.ops
      PROVE  /\ sc2.ops[o].op = sc.ops[o].op /\ sc2.ops[o].frames = sc.ops[o].frames
             /\ Sized(sc2.ops[o]) /\ Unspanned(sc2.ops[o])
  <2>1. SameBut(sc.ops[o], sc2.ops[o], {"items"}) /\ SameItems(sc.ops[o].items, sc2.ops[o].items) /\ OpShape(sc.ops[o])
    BY DEF SameScope, ScopeShape
  <2>2. /\ sc2.ops[o].op = sc.ops[o].op /\ sc2.ops[o].frames = sc.ops[o].frames /\ sc2.ops[o].min = sc.ops[o].min
        /\ sc2.ops[o].static = sc.ops[o].static /\ sc2.ops[o].span = sc.ops[o].span
    BY <2>1 DEF SameBut, OpShape, OpFields
  <2>3. DOMAIN sc2.ops[o].items = DOMAIN sc.ops[o].items
    BY <2>1 DEF SameItems
  <2>4. \A i \in DOMAIN sc.ops[o].items : /\ sc2.ops[o].items[i].span = sc.ops[o].items[i].span
                                          /\ sc2.ops[o].items[i].len = sc.ops[o].items[i].len
    <3> TAKE i \in DOMAIN sc.ops[o].items
    <3>1. SameBut(sc.ops[o].items[i], sc2.ops[o].items[i], {"reg"}) /\ DOMAIN sc.ops[o].items[i] = ItemFields
      BY <2>1 DEF SameItems, OpShape, ItemShape
    <3> QED
      BY <3>1 DEF SameBut, ItemFields
  <2>5. Sized(sc.ops[o]) /\ Unspanned(sc.ops[o])
    BY DEF Sound
  <2>6. Sized(sc2.ops[o])
    BY <2>2, <2>3, <2>4, <2>5 DEF Sized
  <2> QED
    BY <2>2, <2>3, <2>4, <2>5, <2>6 DEF Unspanned
<1>3. \A p \in DOMAIN sc.syms : sc2.syms[p].span = sc.syms[p].span
  <2> TAKE p \in DOMAIN sc.syms
  <2>1. SameBut(sc.syms[p], sc2.syms[p], {"reg", "len_referenced", "used_in_on"}) /\ DOMAIN sc.syms[p] = SymFields
    BY DEF SameScope, ScopeShape, SymShape
  <2> QED
    BY <2>1 DEF SameBut, SymFields
<1>4. DigestsOk(sc2)
  BY <1>1, <1>2 DEF Sound, DigestsOk
<1>5. Frames(sc2) = Frames(sc)
  BY <1>1, <1>2 DEF Frames
<1> QED
  BY <1>1, <1>2, <1>3, <1>4, <1>5 DEF Sound

\* How deep the structures go that have been compiled, from the outermost.
Rise(n, F) == {n + f : f \in F}
OpDepths(ss) == UNION {Rise(i, Frames(ss[i])) : i \in DOMAIN ss}
TodoDepths(td, lev) == UNION {Rise(lev[j], DoneFrames(td[j])) : j \in DOMAIN td}
Depths(ss, td, lev) == {Len(ss)} \cup (OpDepths(ss) \cup TodoDepths(td, lev))
Peak(D, d) == D \subseteq Nat /\ d \in D /\ \A x \in D : x <= d

\* The machine with what it measures, H the depths of what is in hand.
Good(ss, td, lev, X, H, dp) ==
  /\ Core(ss, td, lev, X)
  /\ \A i \in DOMAIN ss : Sound(ss[i])
  /\ \A j \in DOMAIN td : ActSized(td[j])
  /\ Peak(Depths(ss, td, lev) \cup H, dp)

SameNames(s, ss) == \A n : Position(Top(s), n) = Position(Top(ss), n)
SinceAll(ss, td, lev, X, s, Y) == Since(ss, s, (AllAims(ss, td, lev) \cup X) \cup Y)
LEMMA GoodSince ==
  ASSUME NEW ss, NEW td, NEW lev, NEW X, NEW H, NEW dp, Good(ss, td, lev, X, H, dp), NEW s, NEW Y,
         SinceAll(ss, td, lev, X, s, Y)
  PROVE  Good(s, td, lev, X \cup Y, H, dp) /\ Len(s) = Len(ss) /\ SameNames(s, ss)
<1> USE DEF SinceAll
<1>1. Core(ss, td, lev, X) /\ ScopesOk(ss) /\ SameScopes(ss, s)
  BY DEF Good, Core, Since
<1>2. Core(s, td, lev, X \cup Y) /\ Len(s) = Len(ss) /\ DOMAIN s = DOMAIN ss
  BY <1>1, CoreSince DEF SameScopes
<1>3. \A i \in DOMAIN ss : Sound(s[i]) /\ Frames(s[i]) = Frames(ss[i])
  <2> TAKE i \in DOMAIN ss
  <2>1. ScopeShape(ss[i]) /\ SameScope(ss[i], s[i]) /\ Sound(ss[i])
    BY <1>1 DEF ScopesOk, ScopeOk, SameScopes, Good
  <2> QED
    BY <2>1, SoundSame
<1>4. Depths(s, td, lev) = Depths(ss, td, lev)
  BY <1>2, <1>3 DEF Depths, OpDepths
<1>5. \A n : Position(Top(s), n) = Position(Top(ss), n)
  <2>1. Level(td, lev, Len(ss)) /\ Len(ss) \in Nat /\ DOMAIN ss = 1 .. Len(ss)
    BY <1>1, StackDom DEF Core, ScopesOk
  <2>2. Len(td) \in DOMAIN td /\ lev[Len(td)] = Len(ss)
    <3>1. Stack(td) /\ td # <<>> /\ Len(td) \in Nat /\ DOMAIN td = 1 .. Len(td)
      BY <2>1, StackDom DEF Level
    <3>2. Len(td) # 0
      BY <3>1 DEF Stack
    <3> QED
      BY <2>1, <3>1, <3>2 DEF Level
  <2>3. Len(ss) \in DOMAIN ss
    BY <2>1, <2>2, LevelIn
  <2> QED
    BY <1>1, <1>2, <2>3, SameScopeOf DEF Top
<1> QED
  BY <1>2, <1>3, <1>4, <1>5 DEF Good, SameNames

LEMMA RiseOf ==
  ASSUME NEW ss, NEW i \in DOMAIN ss, NEW t \in Rise(i, Frames(ss[i]))
  PROVE  t \in OpDepths(ss)
  BY DEF OpDepths

LEMMA TopIn ==
  ASSUME NEW ss, NEW td, NEW lev, NEW X, Core(ss, td, lev, X)
  PROVE  /\ Stack(ss) /\ Len(ss) \in Nat \ {0} /\ DOMAIN ss = 1 .. Len(ss) /\ Len(ss) \in DOMAIN ss
         /\ Stack(td) /\ Len(td) \in Nat \ {0} /\ DOMAIN td = 1 .. Len(td) /\ Len(td) \in DOMAIN td
         /\ Level(td, lev, Len(ss)) /\ lev[Len(td)] = Len(ss) /\ \A j \in DOMAIN td : lev[j] \in 1 .. Len(ss)
<1>1. ScopesOk(ss) /\ Stack(ss) /\ Level(td, lev, Len(ss)) /\ Stack(td) /\ td # <<>>
  BY DEF Core, ScopesOk, Level
<1>2. Len(ss) \in Nat /\ DOMAIN ss = 1 .. Len(ss) /\ DOMAIN td = 1 .. Len(td) /\ Len(td) \in Nat
  BY <1>1, StackDom
<1>3. Len(td) # 0
  BY <1>1 DEF Stack
<1>4. Len(td) \in DOMAIN td /\ lev[Len(td)] = Len(ss)
  BY <1>1, <1>2, <1>3 DEF Level
<1>5. \A j \in DOMAIN td : lev[j] \in 1 .. Len(ss)
  BY <1>1, <1>2, LevelIn
<1>6. Len(ss) \in 1 .. Len(ss)
  BY <1>4, <1>5
<1> QED
  BY <1>1, <1>2, <1>3, <1>4, <1>5, <1>6

LEMMA GoodTop ==
  ASSUME NEW ss, NEW td, NEW lev, NEW X, NEW H, NEW dp, Good(ss, td, lev, X, H, dp), Top(td).k = "fields",
         NEW sc2, ScopeOk(sc2), SymsMore(Top(ss), sc2), ReadsOk(ScopeReads(sc2)), Sound(sc2),
         NEW X2, Moved(Aims(Len(ss), ScopeReads(Top(ss))), X, Aims(Len(ss), ScopeReads(sc2)), X2),
         NEW H2, Moved(Rise(Len(ss), Frames(Top(ss))), H, Rise(Len(ss), Frames(sc2)), H2)
  PROVE  Good(SetTop(ss, sc2), td, lev, X2, H2, dp)
<1> DEFINE n == Len(ss)
           s2 == SetTop(ss, sc2)
<1>1. Core(ss, td, lev, X) /\ Stack(ss) /\ n \in DOMAIN ss /\ \A i \in DOMAIN ss : Sound(ss[i])
  BY TopIn DEF Good
<1>2. Core(s2, td, lev, X2) /\ Len(s2) = n
  BY <1>1, CoreTop
<1>3. /\ DOMAIN s2 = DOMAIN ss /\ s2[n] = sc2
      /\ \A i \in DOMAIN ss : i # n => s2[i] = ss[i]
  <2>1. s2 = Put(ss, n, sc2)
    BY DEF SetTop, Put
  <2> QED
    BY <1>1, <2>1, StackPut
<1> HIDE DEF s2
<1>4. \A i \in DOMAIN s2 : Sound(s2[i])
  BY <1>1, <1>3
<1>5. Top(ss) = ss[n] /\ Rise(n, Frames(sc2)) \cup H2 = Rise(n, Frames(Top(ss))) \cup H
  BY DEF Top, Moved
<1>6. OpDepths(s2) \cup H2 = OpDepths(ss) \cup H
  <2>1. \A t : t \in OpDepths(s2) \cup H2 => t \in OpDepths(ss) \cup H
    <3> SUFFICES ASSUME NEW t \in OpDepths(s2) \cup H2 PROVE t \in OpDepths(ss) \cup H
      OBVIOUS
    <3>1. CASE t \in H2
      BY <3>1, <1>1, <1>5, RiseOf
    <3>2. CASE t \in OpDepths(s2)
      <4>1. PICK i \in DOMAIN ss : t \in Rise(i, Frames(s2[i]))
        BY <3>2, <1>3 DEF OpDepths
      <4>2. CASE i = n
        BY <4>1, <4>2, <1>1, <1>3, <1>5, RiseOf
      <4>3. CASE i # n
        BY <4>1, <4>3, <1>3, RiseOf
      <4> QED
        BY <4>2, <4>3
    <3> QED
      BY <3>1, <3>2
  <2>2. \A t : t \in OpDepths(ss) \cup H => t \in OpDepths(s2) \cup H2
    <3> SUFFICES ASSUME NEW t \in OpDepths(ss) \cup H PROVE t \in OpDepths(s2) \cup H2
      OBVIOUS
    <3>1. CASE t \in H
      BY <3>1, <1>1, <1>3, <1>5, RiseOf
    <3>2. CASE t \in OpDepths(ss)
      <4>1. PICK i \in DOMAIN ss : t \in Rise(i, Frames(ss[i]))
        BY <3>2 DEF OpDepths
      <4>2. CASE i = n
        BY <4>1, <4>2, <1>1, <1>3, <1>5, RiseOf
      <4>3. CASE i # n
        BY <4>1, <4>3, <1>3, RiseOf
      <4> QED
        BY <4>2, <4>3
    <3> QED
      BY <3>1, <3>2
  <2> QED
    BY <2>1, <2>2
<1>7. Depths(s2, td, lev) \cup H2 = Depths(ss, td, lev) \cup H
  BY <1>2, <1>6 DEF Depths
<1> QED
  BY <1>2, <1>4, <1>7 DEF Good, s2

LEMMA GoodPush ==
  ASSUME NEW ss, NEW td, NEW lev, NEW X, NEW a, ActOk(a), ActSized(a), NEW dp, NEW H,
         Good(ss, td, lev, X \cup Aims(Len(ss), ActReads(a)), H \cup Rise(Len(ss), DoneFrames(a)), dp),
         Top(td).k # "nest", a.k # "fields",
         \A n \in a.name : Position(Top(ss), n) = {} /\ Top(td).k = "fields"
  PROVE  Good(ss, Append(td, a), AsTop(lev, Len(td) + 1, Len(ss)), X, H, dp)
<1> DEFINE n == Len(ss)
           m == Len(td)
           td2 == Append(td, a)
           lev2 == AsTop(lev, m + 1, n)
           A == Aims(Len(ss), ActReads(a))
           B == Rise(Len(ss), DoneFrames(a))
<1>1. Core(ss, td, lev, X \cup A)
  BY DEF Good
<1>2. Core(ss, td2, lev2, X)
  BY <1>1, CorePush
<1>3. m \in Nat /\ DOMAIN td = 1 .. m /\ Stack(td)
  BY <1>1, TopIn
<1>4. /\ DOMAIN td2 = DOMAIN td \cup {m + 1} /\ td2[m + 1] = a
      /\ \A j \in DOMAIN td : td2[j] = td[j]
  BY <1>3, StackPush
<1>5. lev2[m + 1] = n /\ \A j \in DOMAIN td : lev2[j] = lev[j]
  BY <1>3 DEF AsTop
<1> HIDE DEF td2, lev2
<1>6. \A j \in DOMAIN td2 : ActSized(td2[j])
  BY <1>4 DEF Good
<1>7. TodoDepths(td2, lev2) = TodoDepths(td, lev) \cup B
  BY <1>4, <1>5 DEF TodoDepths
<1>8. Depths(ss, td2, lev2) \cup H = Depths(ss, td, lev) \cup (H \cup B)
  BY <1>7 DEF Depths
<1> QED
  BY <1>2, <1>6, <1>8 DEF Good, td2, lev2

\* A field that is not finished has a name its scope has not.
FreeFor(ss, td, name) == \A n \in name : Position(Top(ss), n) = {} /\ Top(td).k = "fields"

LEMMA GoodPop ==
  ASSUME NEW ss, NEW td, NEW lev, NEW X, NEW H, NEW dp, Good(ss, td, lev, X, H, dp), Top(td).k # "fields"
  PROVE  /\ Good(ss, Front(td), lev, X \cup Aims(Len(ss), ActReads(Top(td))), H \cup Rise(Len(ss), DoneFrames(Top(td))), dp)
         /\ ActOk(Top(td)) /\ ActSized(Top(td))
         /\ Top(Front(td)).k # "nest"
         /\ FreeFor(ss, Front(td), Top(td).name)
<1> DEFINE n == Len(ss)
           m == Len(td)
           td2 == Front(td)
           B == Rise(n, DoneFrames(Top(td)))
<1>1. Core(ss, td, lev, X)
  BY DEF Good
<1>2. /\ Core(ss, td2, lev, X \cup Aims(Len(ss), ActReads(Top(td))))
      /\ ActOk(Top(td))
      /\ Top(td2).k # "nest"
      /\ FreeFor(ss, td2, Top(td).name)
  BY <1>1, CorePop DEF FreeFor
<1>3. Stack(td) /\ td # <<>> /\ m \in DOMAIN td /\ lev[m] = n /\ DOMAIN td = 1 .. m /\ m \in Nat
  BY <1>1, TopIn DEF Level
<1>4. DOMAIN td2 = 1 .. (m - 1) /\ \A j \in DOMAIN td2 : td2[j] = td[j]
  BY <1>3, StackPop
<1> HIDE DEF td2
<1>5. DOMAIN td = DOMAIN td2 \cup {m} /\ td[m] = Top(td)
  BY <1>3, <1>4 DEF Top
<1>6. (\A j \in DOMAIN td2 : ActSized(td2[j])) /\ ActSized(Top(td))
  BY <1>3, <1>4, <1>5 DEF Good
<1>7. TodoDepths(td, lev) = TodoDepths(td2, lev) \cup B
  BY <1>3, <1>4, <1>5 DEF TodoDepths
<1>8. Depths(ss, td2, lev) \cup (H \cup B) = Depths(ss, td, lev) \cup H
  BY <1>7 DEF Depths
<1> QED
  BY <1>2, <1>6, <1>8 DEF Good, td2

LEMMA NewScopeSound == Sound(NewScope) /\ Frames(NewScope) = {}
<1> DEFINE sc == NewScope
<1>1. sc.ops = <<>> /\ sc.syms = <<>> /\ sc.nspans = 0 /\ sc.digests = <<>>
  BY DEF NewScope
<1> HIDE DEF sc
<1>2. Sound(sc) /\ Frames(sc) = {}
  BY <1>1 DEF Sound, DigestsOk, Frames
<1> QED
  BY <1>2 DEF sc

LEMMA FieldsSized == ActSized(Fields) /\ DoneFrames(Fields) = {}
<1> DEFINE a == Fields
<1>1. a.k = "fields" /\ a.const = {} /\ a.done = <<>>
  BY DEF Fields, Activation
<1> HIDE DEF a
<1>2. ActSized(a) /\ DoneFrames(a) = {}
  BY <1>1 DEF ActSized, Const01, DoneFrames
<1> QED
  BY <1>2 DEF a

LEMMA GoodNest ==
  ASSUME NEW ss, NEW td, NEW lev, NEW X, NEW dp, Good(ss, td, lev, X, {}, dp), Top(td).k = "nest"
  PROVE  Good(Append(ss, NewScope), Append(td, Fields), AsTop(lev, Len(td) + 1, Len(ss) + 1), X, {},
              Max({dp, Len(ss) + 1}))
<1> DEFINE n == Len(ss)
           m == Len(td)
           td2 == Append(td, Fields)
           ss2 == Append(ss, NewScope)
           lev2 == AsTop(lev, m + 1, n + 1)
           D == Depths(ss, td, lev)
           D2 == Depths(ss2, td2, lev2)
           dp2 == Max({dp, n + 1})
<1>1. Core(ss, td, lev, X)
  BY DEF Good
<1>2. Core(ss2, td2, lev2, X)
  BY <1>1, CoreNest
<1>3. m \in Nat /\ DOMAIN td = 1 .. m /\ Stack(td) /\ n \in Nat /\ DOMAIN ss = 1 .. n /\ Stack(ss)
  BY <1>1, TopIn
<1>4. /\ DOMAIN td2 = DOMAIN td \cup {m + 1} /\ td2[m + 1] = Fields
      /\ \A j \in DOMAIN td : td2[j] = td[j]
  BY <1>3, StackPush
<1>5. lev2[m + 1] = n + 1 /\ \A j \in DOMAIN td : lev2[j] = lev[j]
  BY <1>3 DEF AsTop
<1>6. /\ DOMAIN ss2 = DOMAIN ss \cup {n + 1} /\ ss2[n + 1] = NewScope /\ Len(ss2) = n + 1
      /\ \A i \in DOMAIN ss : ss2[i] = ss[i]
  BY <1>3, StackPush
<1> HIDE DEF td2, lev2, ss2
<1>7. (\A j \in DOMAIN td2 : ActSized(td2[j])) /\ \A i \in DOMAIN ss2 : Sound(ss2[i])
  BY <1>4, <1>6, FieldsSized, NewScopeSound DEF Good
<1>8. TodoDepths(td2, lev2) = TodoDepths(td, lev)
  <2>1. Rise(lev2[m + 1], DoneFrames(td2[m + 1])) = {}
    BY <1>4, FieldsSized DEF Rise
  <2> QED
    BY <2>1, <1>4, <1>5 DEF TodoDepths
<1>9. OpDepths(ss2) = OpDepths(ss)
  <2>1. Rise(n + 1, Frames(ss2[n + 1])) = {}
    BY <1>6, NewScopeSound DEF Rise
  <2> QED
    BY <2>1, <1>6 DEF OpDepths
<1>10. /\ \A d : d \in D2 => d = n + 1 \/ d \in D
       /\ \A d : d \in D => d = n \/ d \in D2
       /\ n + 1 \in D2
  BY <1>6, <1>8, <1>9 DEF Depths
<1>11. D \cup {} = D
  OBVIOUS
<1>12. D \subseteq Nat /\ dp \in D /\ \A d \in D : d <= dp
  BY <1>11 DEF Good, Peak
<1>13. n \in D
  BY DEF Depths
<1> HIDE DEF D, D2
<1>14. dp2 = (IF n + 1 >= dp THEN n + 1 ELSE dp)
  <2>1. dp \in Nat /\ n + 1 \in Nat
    BY <1>3, <1>12
  <2>2. {dp, n + 1} \in SUBSET Nat /\ {dp, n + 1} # {} /\ dp + n + 1 \in Nat /\ \A x \in {dp, n + 1} : x <= dp + n + 1
    BY <2>1
  <2>3. dp2 \in {dp, n + 1} /\ \A x \in {dp, n + 1} : x <= dp2
    BY <2>2, MaxIs
  <2> QED
    BY <2>1, <2>3
<1> HIDE DEF dp2
<1>15. dp \in Nat /\ n \in Nat
  BY <1>3, <1>12
<1>16. D2 \subseteq Nat
  <2>1. n + 1 \in Nat /\ \A d \in D : d \in Nat
    BY <1>12, <1>15
  <2>2. \A d \in D2 : d \in Nat
    BY <2>1, <1>10
  <2> QED
    BY <2>2
<1>17. dp2 \in D2
  <2>1. CASE n + 1 >= dp
    BY <2>1, <1>10, <1>14
  <2>2. CASE ~(n + 1 >= dp)
    BY <2>2, <1>10, <1>12, <1>14, <1>15
  <2> QED
    BY <2>1, <2>2
<1>18. \A d \in D2 : d <= dp2
  <2> TAKE d \in D2
  <2>1. CASE d = n + 1
    BY <2>1, <1>14, <1>15
  <2>2. CASE d \in D
    <3>1. d \in Nat /\ d <= dp
      BY <2>2, <1>12
    <3> QED
      BY <3>1, <1>14, <1>15
  <2> QED
    BY <2>1, <2>2, <1>10
<1>19. Peak(D2 \cup {}, dp2)
  BY <1>16, <1>17, <1>18 DEF Peak
<1> QED
  BY <1>2, <1>7, <1>19 DEF Good, td2, lev2, ss2, dp2, D2

\* The depth of a scope that ends, and with it that of the structure.
LEMMA ScopeDepth ==
  ASSUME NEW ss, NEW td, NEW lev, NEW dp, Good(ss, td, lev, {}, {}, dp)
  PROVE  LET n == Len(ss)
             F == Frames(Top(ss))
             mx == Max({0} \cup F)
         IN  /\ mx \in Nat /\ n + mx \in {n} \cup Rise(n, F)
             /\ \A x \in {n} \cup Rise(n, F) : x <= n + mx
             /\ n \in Nat \ {0} /\ dp \in Nat
<1> DEFINE n == Len(ss)
           F == Frames(Top(ss))
           mx == Max({0} \cup F)
           D == Depths(ss, td, lev)
<1>1. Core(ss, td, lev, {})
  BY DEF Good
<1>2. n \in Nat \ {0} /\ n \in DOMAIN ss
  BY <1>1, TopIn
<1>3. D \cup {} = D
  OBVIOUS
<1>4. D \subseteq Nat /\ dp \in D /\ \A d \in D : d <= dp
  BY <1>3 DEF Good, Peak
<1>5. Rise(n, F) \subseteq D
  BY <1>2, RiseOf DEF Depths, Top
<1>6. \A f \in F : f \in Nat
  BY <1>2 DEF Good, Sound, Sized, Frames, Top
<1>7. \A f \in F : n + f <= dp
  BY <1>4, <1>5 DEF Rise
<1> HIDE DEF F, D
<1>8. dp \in Nat
  BY <1>4
<1>9. \A f \in F : f <= dp
  BY <1>2, <1>6, <1>7, <1>8
<1>10. {0} \cup F \in SUBSET Nat /\ {0} \cup F # {} /\ \A x \in {0} \cup F : x <= dp
  BY <1>6, <1>8, <1>9
<1>11. mx \in {0} \cup F /\ \A x \in {0} \cup F : x <= mx
  BY <1>8, <1>10, MaxIs
<1> HIDE DEF mx
<1>12. mx \in Nat
  BY <1>6, <1>11
<1>13. n + mx \in {n} \cup Rise(n, F)
  BY <1>2, <1>11 DEF Rise
<1>14. \A x \in {n} \cup Rise(n, F) : x <= n + mx
  BY <1>2, <1>6, <1>11, <1>12 DEF Rise
<1> QED
  BY <1>2, <1>8, <1>12, <1>13, <1>14 DEF mx, F

LEMMA GoodEnd ==
  ASSUME NEW ss, NEW td, NEW lev, NEW dp, Good(ss, td, lev, {}, {}, dp), Top(td).k = "fields", Len(td) # 1
  PROVE  /\ Good(Front(ss), Front(td), lev, Aims(Len(ss), Outer(ScopeReads(Top(ss)))),
                 {Len(Front(ss)) + (1 + Max({0} \cup Frames(Top(ss))))}, dp)
         /\ Top(Front(td)).k = "nest" /\ Len(Front(ss)) = Len(ss) - 1
<1> DEFINE n == Len(ss)
           m == Len(td)
           ss2 == Front(ss)
           td2 == Front(td)
           F == Frames(Top(ss))
           mx == Max({0} \cup F)
           D == Depths(ss, td, lev)
           D2 == Depths(ss2, td2, lev)
           h == Len(ss2) + (1 + mx)
<1>1. Core(ss, td, lev, {})
  BY DEF Good
<1>2. /\ Core(ss2, td2, lev, Aims(n, Outer(ScopeReads(Top(ss)))))
      /\ Top(td2).k = "nest" /\ Len(ss2) = n - 1
  BY <1>1, CoreEnd
<1>3. /\ mx \in Nat /\ n + mx \in {n} \cup Rise(n, F)
      /\ \A x \in {n} \cup Rise(n, F) : x <= n + mx
      /\ n \in Nat \ {0} /\ dp \in Nat
  BY ScopeDepth
<1>4. h = n + mx
  BY <1>2, <1>3
<1>5. /\ m \in DOMAIN td /\ DOMAIN td = 1 .. m /\ Stack(td) /\ td # <<>> /\ m \in Nat \ {0}
      /\ n \in DOMAIN ss /\ DOMAIN ss = 1 .. n /\ Stack(ss) /\ ss # <<>> /\ lev[m] = n
  BY <1>1, <1>3, TopIn DEF Level
<1>6. /\ DOMAIN td2 = 1 .. (m - 1) /\ \A j \in 1 .. (m - 1) : td2[j] = td[j]
      /\ DOMAIN ss2 = 1 .. (n - 1) /\ \A i \in 1 .. (n - 1) : ss2[i] = ss[i]
  BY <1>5, StackPop
<1> HIDE DEF td2, ss2, mx, h, F
<1>7. DOMAIN td = DOMAIN td2 \cup {m} /\ DOMAIN ss = DOMAIN ss2 \cup {n} /\ Top(ss) = ss[n] /\ Top(td) = td[m]
  <2>1. Top(ss) = ss[n] /\ Top(td) = td[m]
    BY DEF Top
  <2>5. m \in Nat \ {0} /\ n \in Nat \ {0}
    BY <1>3, <1>5
  <2> HIDE DEF m, n
  <2>2. m \in Nat /\ m >= 1 /\ n \in Nat /\ n >= 1
    BY <2>5
  <2>3. 1 .. m = (1 .. (m - 1)) \cup {m}
    BY <2>2
  <2>4. 1 .. n = (1 .. (n - 1)) \cup {n}
    BY <2>2
  <2> QED
    BY <2>1, <2>3, <2>4, <1>5, <1>6
<1>8. (\A j \in DOMAIN td2 : ActSized(td2[j])) /\ \A i \in DOMAIN ss2 : Sound(ss2[i])
  BY <1>6, <1>7 DEF Good
<1>9. TodoDepths(td, lev) = TodoDepths(td2, lev)
  <2>1. ActOk(td[m])
    BY <1>1, <1>5, TopIn DEF Level
  <2>2. td[m].done = <<>>
    BY <2>1, <1>7 DEF ActOk
  <2>3. Rise(lev[m], DoneFrames(td[m])) = {}
    BY <2>2 DEF Rise, DoneFrames
  <2>4. TodoDepths(td2, lev) = UNION {Rise(lev[j], DoneFrames(td[j])) : j \in 1 .. (m - 1)}
    BY <1>6 DEF TodoDepths
  <2>5. TodoDepths(td, lev) = (UNION {Rise(lev[j], DoneFrames(td[j])) : j \in 1 .. (m - 1)})
                                \cup Rise(lev[m], DoneFrames(td[m]))
    BY <1>6, <1>7 DEF TodoDepths
  <2> QED
    BY <2>3, <2>4, <2>5
<1>10. OpDepths(ss) = OpDepths(ss2) \cup Rise(n, F)
  <2>1. OpDepths(ss2) = UNION {Rise(i, Frames(ss[i])) : i \in 1 .. (n - 1)}
    BY <1>6 DEF OpDepths
  <2>2. DOMAIN ss = (1 .. (n - 1)) \cup {n}
    BY <1>6, <1>7
  <2>3. OpDepths(ss) = (UNION {Rise(i, Frames(ss[i])) : i \in 1 .. (n - 1)}) \cup Rise(n, Frames(ss[n]))
    BY <2>2 DEF OpDepths
  <2> QED
    BY <2>1, <2>3, <1>7 DEF F
<1>11. D \cup {} = D
  OBVIOUS
<1>12. D \subseteq Nat /\ dp \in D /\ \A d \in D : d <= dp
  BY <1>11 DEF Good, Peak
<1>13. /\ \A d : d \in D2 => d = n - 1 \/ d \in D
       /\ \A d : d \in D => d \in {n} \cup Rise(n, F) \/ d \in D2
       /\ \A d : d \in {n} \cup Rise(n, F) => d \in D
  BY <1>2, <1>9, <1>10 DEF Depths
<1> HIDE DEF D, D2
<1>14. h \in D
  BY <1>3, <1>4, <1>13
<1>15. h \in Nat /\ h <= dp /\ n <= h
  BY <1>3, <1>4, <1>12, <1>14
<1>16. \A d \in D2 \cup {h} : d \in Nat /\ d <= dp
  <2>1. n - 1 \in Nat /\ n - 1 <= dp
    BY <1>3, <1>15
  <2>2. \A d \in D : d \in Nat /\ d <= dp
    BY <1>12
  <2> QED
    BY <2>1, <2>2, <1>13, <1>15
<1>17. dp \in D2 \cup {h}
  <2>1. CASE dp \in D2
    BY <2>1
  <2>2. CASE dp \notin D2
    <3>1. dp \in {n} \cup Rise(n, F)
      BY <2>2, <1>12, <1>13
    <3>2. dp <= h
      BY <3>1, <1>3, <1>4
    <3> QED
      BY <3>2, <1>3, <1>15
  <2> QED
    BY <2>1, <2>2
<1>18. Peak(D2 \cup {h}, dp)
  BY <1>16, <1>17 DEF Peak
<1>19. Good(ss2, td2, lev, Aims(n, Outer(ScopeReads(Top(ss)))), {h}, dp)
  BY <1>2, <1>8, <1>18 DEF Good, D2
<1> QED
  BY <1>2, <1>19 DEF ss2, td2, h, mx, F

\* The outermost scope.
LEMMA LastDepth ==
  ASSUME NEW ss, NEW td, NEW lev, NEW dp, Good(ss, td, lev, {}, {}, dp), Top(td).k = "fields", Len(td) = 1
  PROVE  dp = 1 + Max({0} \cup Frames(Top(ss))) /\ Len(ss) = 1
<1> DEFINE F == Frames(Top(ss))
           mx == Max({0} \cup F)
           D == Depths(ss, td, lev)
<1>1. Core(ss, td, lev, {})
  BY DEF Good
<1>2. Len(ss) = 1 /\ DOMAIN ss = 1 .. 1 /\ DOMAIN td = 1 .. 1 /\ Level(td, lev, Len(ss))
  BY <1>1, TopIn DEF Level
<1>3. DOMAIN ss = {1} /\ DOMAIN td = {1} /\ Top(ss) = ss[1] /\ Top(td) = td[1]
  BY <1>2 DEF Top
<1>4. /\ mx \in Nat /\ 1 + mx \in {1} \cup Rise(1, F)
      /\ \A x \in {1} \cup Rise(1, F) : x <= 1 + mx
      /\ dp \in Nat
  BY <1>2, ScopeDepth
<1>5. TodoDepths(td, lev) = {}
  <2>1. ActOk(td[1])
    BY <1>2, <1>3 DEF Level
  <2>2. DOMAIN td[1].done = {}
    BY <2>1, <1>3 DEF ActOk
  <2>3. Rise(lev[1], DoneFrames(td[1])) = {}
    BY <2>2 DEF Rise, DoneFrames
  <2> QED
    BY <2>3, <1>3 DEF TodoDepths
<1>6. OpDepths(ss) = Rise(1, F)
  BY <1>3 DEF OpDepths
<1>7. D \cup {} = {1} \cup Rise(1, F)
  BY <1>2, <1>5, <1>6 DEF Depths
<1>8. Peak({1} \cup Rise(1, F), dp)
  BY <1>7 DEF Good
<1> HIDE DEF mx, F
<1>9. dp \in {1} \cup Rise(1, F) /\ \A x \in {1} \cup Rise(1, F) : x <= dp
  BY <1>8 DEF Peak
<1>10. dp <= 1 + mx /\ 1 + mx <= dp
  BY <1>4, <1>9
<1> QED
  BY <1>2, <1>4, <1>10 DEF mx, F

(***************************************************************************)
(* A finished opcode.                                                      *)
(***************************************************************************)
OpOk(op) ==
  /\ OpShape(op) /\ ReadsOk(op.reads) /\ Sized(op) /\ Unspanned(op)
  /\ \A i \in DOMAIN op.items : op.items[i].reg = {}
  /\ op.op = "Fixed" => op.width \in Nat /\ \A i \in DOMAIN op.items : Lies(op.items[i], op.width)

Keyed(op, name) == [op EXCEPT !.key = name]
LEMMA KeyedOk ==
  ASSUME NEW op, OpOk(op), NEW name
  PROVE  /\ OpOk(Keyed(op, name)) /\ Keyed(op, name).key = name
         /\ Keyed(op, name).reads = op.reads /\ Keyed(op, name).frames = op.frames /\ Keyed(op, name).op = op.op
<1> DEFINE k == Keyed(op, name)
<1>1. DOMAIN op = OpFields
  BY DEF OpOk, OpShape
<1>2. /\ DOMAIN k = OpFields /\ k.key = name
      /\ k.op = op.op /\ k.lens = op.lens /\ k.reads = op.reads /\ k.min = op.min /\ k.static = op.static
      /\ k.frames = op.frames /\ k.width = op.width /\ k.items = op.items /\ k.span = op.span
  BY <1>1 DEF Keyed, OpFields
<1> HIDE DEF k
<1>3. OpShape(k) /\ Sized(k) /\ Unspanned(k)
  BY <1>2 DEF OpOk, OpShape, Sized, Unspanned
<1>4. OpOk(k)
  BY <1>2, <1>3 DEF OpOk
<1> QED
  BY <1>2, <1>4 DEF k

\* A scope with one opcode more; a digest may be noted with it.
OpMore(sc, sc2, op) ==
  /\ DOMAIN sc2 = ScopeFields /\ \A x \in ScopeFields \ {"ops", "digests"} : sc2[x] = sc[x]
  /\ Stack(sc2.ops) /\ DOMAIN sc2.ops = 1 .. (Len(sc.ops) + 1)
  /\ \A o \in 1 .. Len(sc.ops) : sc2.ops[o] = sc.ops[o]
  /\ sc2.ops[Len(sc.ops) + 1] = op
  /\ Stack(sc2.digests) /\ DigestsOk(sc2)

LEMMA OpMoreOk ==
  ASSUME NEW sc, ScopeOk(sc), Sound(sc), NEW op, OpOk(op), NEW sc2, OpMore(sc, sc2, op)
  PROVE  /\ ScopeOk(sc2) /\ Sound(sc2) /\ sc2.syms = sc.syms
         /\ ScopeReads(sc2) = ScopeReads(sc) \cup op.reads
         /\ Frames(sc2) = Frames(sc) \cup {op.frames}
<1> DEFINE n == Len(sc.ops)
<1>1. n \in Nat /\ DOMAIN sc.ops = 1 .. n
  BY StackDom DEF ScopeOk, ScopeShape
<1>2. /\ DOMAIN sc2 = ScopeFields /\ sc2.syms = sc.syms /\ sc2.nregs = sc.nregs /\ sc2.nspans = sc.nspans
      /\ Stack(sc2.ops) /\ DOMAIN sc2.ops = DOMAIN sc.ops \cup {n + 1} /\ n + 1 \notin DOMAIN sc.ops
      /\ \A o \in DOMAIN sc.ops : sc2.ops[o] = sc.ops[o]
      /\ sc2.ops[n + 1] = op
      /\ Stack(sc2.digests) /\ DigestsOk(sc2)
  BY <1>1 DEF OpMore, ScopeFields
<1> HIDE DEF n
<1>3. ScopeShape(sc2)
  BY <1>2 DEF ScopeOk, ScopeShape, OpOk
<1>4. RunsOk(sc2)
  BY <1>2 DEF ScopeOk, RunsOk, OpOk
<1>5. Grown(sc, sc2)
  <2>1. \A o \in DOMAIN sc2.ops : \A i \in DOMAIN sc2.ops[o].items : ~InScope(sc, o, i) => RegAt(sc2, o, i) = {}
    <3> SUFFICES ASSUME NEW o \in DOMAIN sc2.ops, NEW i \in DOMAIN sc2.ops[o].items, ~InScope(sc, o, i)
                 PROVE  RegAt(sc2, o, i) = {}
      OBVIOUS
    <3>1. o = n + 1
      BY <1>2 DEF InScope
    <3> QED
      BY <3>1, <1>2 DEF RegAt, OpOk
  <2> QED
    BY <2>1, <1>2, <1>3, <1>4 DEF Grown
<1>6. ScopeOk(sc2)
  BY <1>5, GrownOk
<1>7. Sound(sc2)
  BY <1>2 DEF Sound, OpOk
<1>8. ScopeReads(sc2) = ScopeReads(sc) \cup op.reads
  BY <1>2 DEF ScopeReads
<1>9. Frames(sc2) = Frames(sc) \cup {op.frames}
  BY <1>2 DEF Frames
<1> QED
  BY <1>2, <1>6, <1>7, <1>8, <1>9

\* Names are added to a scope with its digests and spans as they are.
LEMMA SymsMoreSound ==
  ASSUME NEW sc, Sound(sc), NEW sc2, SymsMore(sc, sc2), \A x \in ScopeFields \ {"syms"} : sc2[x] = sc[x]
  PROVE  Sound(sc2) /\ ScopeReads(sc2) = ScopeReads(sc) /\ Frames(sc2) = Frames(sc)
<1>1. sc2.ops = sc.ops /\ sc2.nspans = sc.nspans /\ sc2.digests = sc.digests
  BY DEF ScopeFields
<1>2. DigestsOk(sc2)
  BY <1>1 DEF Sound, DigestsOk
<1>3. \A p \in DOMAIN sc2.syms : sc2.syms[p].span = {}
  BY DEF Sound, SymsMore
<1>4. Sound(sc2)
  BY <1>1, <1>2, <1>3 DEF Sound
<1> QED
  BY <1>1, <1>4 DEF ScopeReads, Frames

\* The opcode becomes the next field of its scope.
LEMMA FieldDone ==
  ASSUME NEW ss, NEW td, NEW lev, NEW op, NEW dp, OpOk(op), NEW name \in FieldNames, NEW flags, NEW spannable,
         Good(ss, td, lev, Aims(Len(ss), op.reads), {Len(ss) + op.frames}, dp), Top(td).k = "fields",
         \A n \in name : Position(Top(ss), n) = {},
         NEW with, OpMore(Top(ss), with, Keyed(op, name))
  PROVE  Good(SetTop(ss, AddSym(with, name, Len(with.ops), 0, FALSE, flags, FALSE, spannable)), td, lev, {}, {}, dp)
<1> DEFINE sc == Top(ss)
           sc2 == AddSym(with, name, Len(with.ops), 0, FALSE, flags, FALSE, spannable)
           k == Keyed(op, name)
<1>1. Core(ss, td, lev, Aims(Len(ss), op.reads)) /\ Len(ss) \in DOMAIN ss
  BY TopIn DEF Good
<1>2. ScopeOk(sc) /\ Sound(sc) /\ ReadsOk(ScopeReads(sc))
  BY <1>1 DEF Good, Core, ScopesOk, Top
<1>3. OpOk(k) /\ k.key = name /\ k.reads = op.reads /\ k.frames = op.frames
  BY KeyedOk
<1> HIDE DEF k
<1>4. /\ ScopeOk(with) /\ Sound(with) /\ with.syms = sc.syms
      /\ ScopeReads(with) = ScopeReads(sc) \cup op.reads
      /\ Frames(with) = Frames(sc) \cup {op.frames}
  BY <1>2, <1>3, OpMoreOk DEF k
<1>5. Len(with.ops) \in DOMAIN with.ops /\ with.ops[Len(with.ops)].key = name
  <2>1. Len(sc.ops) \in Nat
    BY <1>2, StackDom DEF ScopeOk, ScopeShape
  <2>2. Stack(with.ops) /\ DOMAIN with.ops = 1 .. (Len(sc.ops) + 1) /\ with.ops[Len(sc.ops) + 1] = k
    BY DEF OpMore, k
  <2>3. Len(with.ops) = Len(sc.ops) + 1
    <3>1. Len(with.ops) \in Nat /\ DOMAIN with.ops = 1 .. Len(with.ops)
      BY <2>2, StackDom
    <3>2. PICK a, b : a = Len(with.ops) /\ b = Len(sc.ops) + 1
      OBVIOUS
    <3>3. a \in Nat /\ b \in Nat /\ 1 .. a = 1 .. b /\ b >= 1
      BY <2>1, <2>2, <3>1, <3>2
    <3>4. a = b
      BY <3>3
    <3> QED
      BY <3>2, <3>4
  <2> QED
    BY <2>1, <2>2, <2>3, <1>3
<1>6. \A n \in name : Position(with, n) = {}
  BY <1>4 DEF Position
<1>7. ScopeOk(sc2) /\ SymsMore(with, sc2) /\ \A x \in ScopeFields \ {"syms"} : sc2[x] = with[x]
  <2>1. Found(with, name, Len(with.ops), 0, FALSE, FALSE)
    BY <1>5 DEF Found
  <2>2. Added(with, sc2)
    BY <1>4, <1>6, <2>1, AddSymOk
  <2> QED
    BY <2>2 DEF Added
<1> HIDE DEF sc2
<1>8. Sound(sc2) /\ ScopeReads(sc2) = ScopeReads(with) /\ Frames(sc2) = Frames(with)
  BY <1>4, <1>7, SymsMoreSound
<1>9. SymsMore(sc, sc2)
  BY <1>4, <1>7 DEF SymsMore
<1>10. ReadsOk(ScopeReads(sc2))
  BY <1>2, <1>4, <1>8 DEF ReadsOk, OpOk
<1>11. Moved(Aims(Len(ss), ScopeReads(sc)), Aims(Len(ss), op.reads), Aims(Len(ss), ScopeReads(sc2)), {})
  BY <1>4, <1>8 DEF Moved, Aims
<1>12. Moved(Rise(Len(ss), Frames(sc)), {Len(ss) + op.frames}, Rise(Len(ss), Frames(sc2)), {})
  BY <1>4, <1>8 DEF Moved, Rise
<1>13. Good(SetTop(ss, sc2), td, lev, {}, {}, dp)
  BY <1>7, <1>8, <1>9, <1>10, <1>11, <1>12, GoodTop
<1> QED
  BY <1>13 DEF sc2

\* A run with one item more: a new opcode, or the last one is longer.
Longer(sc, sc2, n, it) ==
  /\ n \in DOMAIN sc.ops /\ n = Len(sc.ops)
  /\ DOMAIN sc2 = ScopeFields /\ \A x \in ScopeFields \ {"ops"} : sc2[x] = sc[x]
  /\ Stack(sc2.ops) /\ DOMAIN sc2.ops = DOMAIN sc.ops /\ Len(sc2.ops) = n
  /\ \A o \in DOMAIN sc.ops : o # n => sc2.ops[o] = sc.ops[o]
  /\ SameBut(sc.ops[n], sc2.ops[n], {"items", "width", "min", "static"})
  /\ Stack(sc2.ops[n].items) /\ DOMAIN sc2.ops[n].items = 1 .. (Len(sc.ops[n].items) + 1)
  /\ \A i \in 1 .. Len(sc.ops[n].items) : sc2.ops[n].items[i] = sc.ops[n].items[i]
  /\ sc2.ops[n].items[Len(sc.ops[n].items) + 1] = it /\ Len(sc2.ops[n].items) = Len(sc.ops[n].items) + 1

\* An item before anything refers to it.
NewItem(it) == ItemShape(it) /\ it.reg = {} /\ it.span = {} /\ it.len \in Nat

Ran(sc, sc2, it) ==
  /\ ScopeOk(sc2) /\ Sound(sc2) /\ sc2.syms = sc.syms /\ ScopeReads(sc2) = ScopeReads(sc)
  /\ Frames(sc) \subseteq Frames(sc2) /\ Frames(sc2) \subseteq Frames(sc) \cup {0}
  /\ Len(sc2.ops) \in DOMAIN sc2.ops
  /\ LET items == sc2.ops[Len(sc2.ops)].items
     IN  Len(items) \in DOMAIN items /\ Len(items) # 0 /\ items[Len(items)] = it

LEMMA LongerOk ==
  ASSUME NEW sc, ScopeOk(sc), Sound(sc), NEW n, NEW it, NewItem(it), NEW sc2, Longer(sc, sc2, n, it),
         Sized(sc2.ops[n]),
         sc2.ops[n].op = "Fixed" =>
           sc2.ops[n].width \in Nat /\ \A i \in DOMAIN sc2.ops[n].items : Lies(sc2.ops[n].items[i], sc2.ops[n].width)
  PROVE  Ran(sc, sc2, it)
<1> DEFINE m == Len(sc.ops[n].items)
<1>1. ScopeShape(sc) /\ n \in DOMAIN sc.ops /\ OpShape(sc.ops[n])
  BY DEF ScopeOk, ScopeShape, Longer
<1>2. m \in Nat /\ DOMAIN sc.ops[n].items = 1 .. m
  BY <1>1, StackDom DEF OpShape
<1>3. /\ DOMAIN sc2 = ScopeFields /\ sc2.syms = sc.syms /\ sc2.nregs = sc.nregs /\ sc2.nspans = sc.nspans
      /\ sc2.digests = sc.digests
  BY DEF Longer, ScopeFields
<1>4. /\ DOMAIN sc2.ops[n] = OpFields /\ sc2.ops[n].op = sc.ops[n].op /\ sc2.ops[n].reads = sc.ops[n].reads
      /\ sc2.ops[n].frames = sc.ops[n].frames /\ sc2.ops[n].key = sc.ops[n].key /\ sc2.ops[n].span = sc.ops[n].span
  BY <1>1 DEF Longer, SameBut, OpShape, OpFields
<1>5. /\ DOMAIN sc2.ops[n].items = DOMAIN sc.ops[n].items \cup {m + 1}
      /\ m + 1 \notin DOMAIN sc.ops[n].items
      /\ \A i \in DOMAIN sc.ops[n].items : sc2.ops[n].items[i] = sc.ops[n].items[i]
      /\ sc2.ops[n].items[m + 1] = it /\ Len(sc2.ops[n].items) = m + 1
  <2>1. /\ DOMAIN sc2.ops[n].items = 1 .. (m + 1)
        /\ \A i \in 1 .. m : sc2.ops[n].items[i] = sc.ops[n].items[i]
        /\ sc2.ops[n].items[m + 1] = it /\ Len(sc2.ops[n].items) = m + 1
    BY DEF Longer
  <2> HIDE DEF m
  <2>2. 1 .. (m + 1) = (1 .. m) \cup {m + 1} /\ m + 1 \notin 1 .. m
    BY <1>2
  <2> QED
    BY <2>1, <2>2, <1>2
<1>6. /\ DOMAIN sc2.ops = DOMAIN sc.ops /\ Stack(sc2.ops) /\ Stack(sc2.ops[n].items) /\ Len(sc2.ops) = n
      /\ \A o \in DOMAIN sc.ops : o # n => sc2.ops[o] = sc.ops[o]
  BY DEF Longer
<1> HIDE DEF m
<1>7. OpShape(sc2.ops[n])
  BY <1>1, <1>4, <1>5, <1>6 DEF OpShape, NewItem
<1>8. ScopeShape(sc2)
  BY <1>1, <1>3, <1>6, <1>7 DEF ScopeShape
<1>9. RunsOk(sc2)
  BY <1>6 DEF ScopeOk, RunsOk
<1>10. Grown(sc, sc2)
  <2>1. \A o \in DOMAIN sc2.ops : \A i \in DOMAIN sc2.ops[o].items : ~InScope(sc, o, i) => RegAt(sc2, o, i) = {}
    <3> SUFFICES ASSUME NEW o \in DOMAIN sc2.ops, NEW i \in DOMAIN sc2.ops[o].items, ~InScope(sc, o, i)
                 PROVE  RegAt(sc2, o, i) = {}
      OBVIOUS
    <3>1. o = n
      BY <1>6 DEF InScope
    <3>2. i = m + 1
      BY <1>5, <1>6, <3>1 DEF InScope
    <3> QED
      BY <3>1, <3>2, <1>5 DEF RegAt, NewItem
  <2>2. \A o \in DOMAIN sc.ops :
          /\ DOMAIN sc.ops[o].items \subseteq DOMAIN sc2.ops[o].items
          /\ sc2.ops[o].key = sc.ops[o].key
          /\ \A i \in DOMAIN sc.ops[o].items : sc2.ops[o].items[i] = sc.ops[o].items[i]
    <3> TAKE o \in DOMAIN sc.ops
    <3>1. CASE o = n
      BY <3>1, <1>4, <1>5
    <3>2. CASE o # n
      BY <3>2, <1>6
    <3> QED
      BY <3>1, <3>2
  <2> QED
    BY <2>1, <2>2, <1>3, <1>6, <1>8, <1>9 DEF Grown
<1>11. ScopeOk(sc2)
  BY <1>10, GrownOk
<1>12. Sound(sc2)
  <2>1. Unspanned(sc2.ops[n])
    BY <1>1, <1>4, <1>5 DEF Unspanned, NewItem, Sound
  <2>2. \A o \in DOMAIN sc2.ops : Sized(sc2.ops[o]) /\ Unspanned(sc2.ops[o])
    BY <2>1, <1>6 DEF Sound
  <2>3. \A o \in DOMAIN sc2.ops : sc2.ops[o].op = sc.ops[o].op
    BY <1>4, <1>6
  <2>4. DigestsOk(sc2)
    BY <2>3, <1>3, <1>6 DEF Sound, DigestsOk
  <2> QED
    BY <2>2, <2>4, <1>3 DEF Sound
<1>13. ScopeReads(sc2) = ScopeReads(sc) /\ Frames(sc2) = Frames(sc)
  <2>1. \A o \in DOMAIN sc2.ops : sc2.ops[o].reads = sc.ops[o].reads /\ sc2.ops[o].frames = sc.ops[o].frames
    BY <1>4, <1>6
  <2> QED
    BY <2>1, <1>6 DEF ScopeReads, Frames
<1>14. m + 1 # 0
  BY <1>2 DEF m
<1> QED
  BY <1>1, <1>3, <1>5, <1>6, <1>11, <1>12, <1>13, <1>14 DEF Ran

\* An opcode of one item.
RunOf(op, it) ==
  /\ OpOk(op) /\ op.reads = {} /\ op.frames = 0
  /\ DOMAIN op.items = {1} /\ Len(op.items) = 1 /\ op.items[1] = it

LEMMA NewRunOk ==
  ASSUME NEW sc, ScopeOk(sc), Sound(sc), NEW op, NEW it, RunOf(op, it)
  PROVE  Ran(sc, [sc EXCEPT !.ops = Append(@, op)], it)
<1> DEFINE ops2 == Append(sc.ops, op)
           sc2 == [sc EXCEPT !.ops = ops2]
<1>1. DOMAIN sc = ScopeFields /\ Stack(sc.ops) /\ Stack(sc.digests)
  BY DEF ScopeOk, ScopeShape
<1>2. /\ Stack(ops2) /\ Len(sc.ops) \in Nat /\ DOMAIN sc.ops = 1 .. Len(sc.ops)
      /\ DOMAIN ops2 = 1 .. (Len(sc.ops) + 1) /\ Len(ops2) = Len(sc.ops) + 1
      /\ \A o \in 1 .. Len(sc.ops) : ops2[o] = sc.ops[o]
      /\ ops2[Len(sc.ops) + 1] = op
  BY <1>1, StackPush
<1> HIDE DEF ops2
<1>3. DOMAIN sc2 = ScopeFields /\ sc2.ops = ops2 /\ \A x \in ScopeFields \ {"ops"} : sc2[x] = sc[x]
  BY <1>1 DEF ScopeFields
<1> HIDE DEF sc2
<1>4. DigestsOk(sc2) /\ Stack(sc2.digests)
  <2>1. sc2.digests = sc.digests
    BY <1>3 DEF ScopeFields
  <2> QED
    BY <2>1, <1>1, <1>2, <1>3 DEF Sound, DigestsOk
<1>5. OpMore(sc, sc2, op)
  BY <1>2, <1>3, <1>4 DEF OpMore
<1>6. OpOk(op) /\ op.reads = {} /\ op.frames = 0
  BY DEF RunOf
<1>7. /\ ScopeOk(sc2) /\ Sound(sc2) /\ sc2.syms = sc.syms
      /\ ScopeReads(sc2) = ScopeReads(sc) \cup op.reads
      /\ Frames(sc2) = Frames(sc) \cup {op.frames}
  BY <1>5, <1>6, OpMoreOk
<1>8. Len(sc2.ops) \in DOMAIN sc2.ops /\ sc2.ops[Len(sc2.ops)] = op
  BY <1>2, <1>3
<1>9. Len(op.items) \in DOMAIN op.items /\ Len(op.items) # 0 /\ op.items[Len(op.items)] = it
  BY DEF RunOf
<1>10. Ran(sc, sc2, it)
  BY <1>6, <1>7, <1>8, <1>9 DEF Ran
<1> QED
  BY <1>10 DEF sc2, ops2

LEMMA ItemIs ==
  ASSUME NEW kind, NEW off \in Nat, NEW w \in Nat, NEW key, NEW const
  PROVE  LET it == Item(kind, off, w, key, const)
         IN  /\ NewItem(it) /\ it.key = key /\ it.const = const /\ it.len = w /\ it.off = off /\ it.prim.w = w
             /\ \A width \in Nat : off + w <= width => Lies(it, width)
  BY DEF Item, NewItem, ItemShape, ItemFields, Lies

\* The two ways a fixed-width field or a bit field is taken in.
Pushed(sc, sc2, key, const) ==
  \E it : Ran(sc, sc2, it) /\ it.key = key /\ it.const = const /\ it.reg = {}

\* An opcode of one item, as it is made for a run.
LEMMA RunOfIs ==
  ASSUME NEW kind \in {"Fixed", "BitRun"}, NEW min \in Nat, NEW it, NewItem(it),
         kind = "Fixed" => Lies(it, min)
  PROVE  RunOf([Op(kind, {}, {}, min, {min}, 0) EXCEPT !.items = <<it>>], it)
<1> DEFINE op == [Op(kind, {}, {}, min, {min}, 0) EXCEPT !.items = <<it>>]
           items == <<it>>
<1>1. Stack(items) /\ Len(items) = 1 /\ DOMAIN items = {1} /\ items[1] = it
  <2>1. items \in Seq({it})
    OBVIOUS
  <2>2. Stack(items)
    BY <2>1, IsStack
  <2> QED
    BY <2>2
<1> HIDE DEF items
<1>2. /\ DOMAIN op = OpFields /\ op.op = kind /\ op.reads = {} /\ op.min = min /\ op.static = {min} /\ op.frames = 0
      /\ op.width = min /\ op.items = items /\ op.span = {}
  BY DEF Op, OpFields, items
<1> HIDE DEF op
<1>3. OpShape(op) /\ Sized(op) /\ Unspanned(op) /\ ReadsOk(op.reads)
  BY <1>1, <1>2 DEF OpShape, Sized, Unspanned, ReadsOk, NewItem
<1>4. OpOk(op)
  BY <1>1, <1>2, <1>3 DEF OpOk, NewItem
<1> QED
  BY <1>1, <1>2, <1>4 DEF RunOf, op

\* Several fields of one opcode change at once.
Edited(sc, n, a, b, c, d) ==
  [sc EXCEPT !.ops[n].items = a, !.ops[n].width = b, !.ops[n].min = c, !.ops[n].static = d]
EditedOp(op, a, b, c, d) == [op EXCEPT !.items = a, !.width = b, !.min = c, !.static = d]
WithOp(sc, n, op) == [sc EXCEPT !.ops[n] = op]

LEMMA EditRun ==
  ASSUME NEW sc, NEW n, "ops" \in DOMAIN sc, n \in DOMAIN sc.ops, NEW a, NEW b, NEW c, NEW d
  PROVE  Edited(sc, n, a, b, c, d) = WithOp(sc, n, EditedOp(sc.ops[n], a, b, c, d))
<1> DEFINE q1 == [sc.ops[n] EXCEPT !.items = a]
           q2 == [q1 EXCEPT !.width = b]
           q3 == [q2 EXCEPT !.min = c]
           q4 == [q3 EXCEPT !.static = d]
           s1 == [sc EXCEPT !.ops[n].items = a]
           s2 == [s1 EXCEPT !.ops[n].width = b]
           s3 == [s2 EXCEPT !.ops[n].min = c]
           s4 == [s3 EXCEPT !.ops[n].static = d]
<1>1. /\ [sc EXCEPT !.ops[n].items = a, !.ops[n].width = b, !.ops[n].min = c, !.ops[n].static = d] = s4
      /\ [sc.ops[n] EXCEPT !.items = a, !.width = b, !.min = c, !.static = d] = q4
  BY Zenon
<1>0. DOMAIN sc.ops = DOMAIN s1.ops
  OBVIOUS
<1>2. s1 = [sc EXCEPT !.ops[n] = q1]
  OBVIOUS
<1> HIDE DEF s1, q1
<1>3. s2 = [sc EXCEPT !.ops[n] = q2]
  BY <1>2
<1> HIDE DEF s2, q2
<1>4. s3 = [sc EXCEPT !.ops[n] = q3]
  BY <1>3
<1> HIDE DEF s3, q3
<1>5. s4 = [sc EXCEPT !.ops[n] = q4]
  BY <1>4
<1> QED
  BY <1>1, <1>5 DEF Edited, EditedOp, WithOp

\* The last run with one item more and a new size.
Stretch(sc, n, it, width, min, static) ==
  [sc EXCEPT !.ops[n].items = Append(@, it), !.ops[n].width = width, !.ops[n].min = min, !.ops[n].static = static]
LEMMA StretchOk ==
  ASSUME NEW sc, ScopeOk(sc), Sound(sc), NEW n, n = Len(sc.ops), n \in DOMAIN sc.ops, NEW it, NewItem(it),
         NEW width, NEW min \in Nat,
         sc.ops[n].op = "Fixed" => /\ width \in Nat /\ width >= sc.ops[n].width /\ Lies(it, width)
  PROVE  Ran(sc, Stretch(sc, n, it, width, min, {min}), it)
<1> DEFINE op == sc.ops[n]
           items2 == Append(op.items, it)
           op2 == [op EXCEPT !.items = items2, !.width = width, !.min = min, !.static = {min}]
           ops2 == Put(sc.ops, n, op2)
           sc2 == [sc EXCEPT !.ops = ops2]
<1>1. DOMAIN sc = ScopeFields /\ Stack(sc.ops) /\ OpShape(op) /\ DOMAIN op = OpFields /\ Stack(op.items) /\ Sized(op)
  BY DEF ScopeOk, ScopeShape, OpShape, Sound
<1>2. Stretch(sc, n, it, width, min, {min}) = sc2
  <2>1. Stretch(sc, n, it, width, min, {min}) =
          Edited(sc, n, items2, width, min, {min})
    BY Zenon DEF Stretch, Edited
  <2>2. "ops" \in DOMAIN sc
    BY <1>1 DEF ScopeFields
  <2> HIDE DEF items2
  <2>3. Stretch(sc, n, it, width, min, {min}) = WithOp(sc, n, EditedOp(op, items2, width, min, {min}))
    BY <2>1, <2>2, EditRun
  <2>4. EditedOp(op, items2, width, min, {min}) = op2
    BY Zenon DEF EditedOp
  <2> HIDE DEF op2
  <2> QED
    BY <2>2, <2>3, <2>4 DEF Put, WithOp
<1>3. /\ Stack(items2) /\ Len(op.items) \in Nat /\ DOMAIN op.items = 1 .. Len(op.items)
      /\ DOMAIN items2 = 1 .. (Len(op.items) + 1) /\ Len(items2) = Len(op.items) + 1
      /\ \A i \in 1 .. Len(op.items) : items2[i] = op.items[i]
      /\ items2[Len(op.items) + 1] = it
  BY <1>1, StackPush
<1> HIDE DEF items2
<1>4. /\ DOMAIN op2 = OpFields /\ op2.items = items2 /\ op2.width = width /\ op2.min = min /\ op2.static = {min}
      /\ op2.op = op.op /\ op2.frames = op.frames /\ SameBut(op, op2, {"items", "width", "min", "static"})
  BY <1>1 DEF SameBut, OpFields
<1> HIDE DEF op2
<1>5. /\ Stack(ops2) /\ DOMAIN ops2 = DOMAIN sc.ops /\ Len(ops2) = Len(sc.ops) /\ ops2[n] = op2
      /\ \A o \in DOMAIN sc.ops : o # n => ops2[o] = sc.ops[o]
  BY <1>1, StackPut
<1> HIDE DEF ops2
<1>6. DOMAIN sc2 = ScopeFields /\ sc2.ops = ops2 /\ \A x \in ScopeFields \ {"ops"} : sc2[x] = sc[x]
  BY <1>1 DEF ScopeFields
<1> HIDE DEF sc2
<1>7. Longer(sc, sc2, n, it)
  BY <1>3, <1>4, <1>5, <1>6 DEF Longer
<1>8. \A i \in DOMAIN items2 : i \in DOMAIN op.items \/ items2[i] = it
  BY <1>3
<1>9. Sized(op2)
  <2>1. \A i \in DOMAIN items2 : items2[i].len \in Nat
    BY <1>1, <1>3, <1>8 DEF Sized, NewItem
  <2> QED
    BY <2>1, <1>1, <1>4 DEF Sized
<1>10. op2.op = "Fixed" => op2.width \in Nat /\ \A i \in DOMAIN op2.items : Lies(op2.items[i], op2.width)
  <2> SUFFICES ASSUME op2.op = "Fixed", NEW i \in DOMAIN items2 PROVE width \in Nat /\ Lies(items2[i], width)
    BY <1>4
  <2>1. width \in Nat /\ width >= op.width /\ Lies(it, width)
    BY <1>4
  <2>2. op.width \in Nat /\ \A k \in DOMAIN op.items : Lies(op.items[k], op.width)
    BY <1>4 DEF ScopeOk, RunsOk
  <2>3. CASE i \in DOMAIN op.items
    <3>1. Lies(items2[i], op.width)
      BY <2>2, <2>3, <1>3
    <3> QED
      BY <3>1, <2>1, <2>2 DEF Lies
  <2>4. CASE items2[i] = it
    BY <2>1, <2>4
  <2> QED
    BY <2>1, <2>3, <2>4, <1>8
<1>11. Ran(sc, sc2, it)
  BY <1>5, <1>6, <1>7, <1>9, <1>10, LongerOk
<1> QED
  BY <1>2, <1>11

LEMMA PushFixedOk ==
  ASSUME NEW sc, ScopeOk(sc), Sound(sc), NEW kind, NEW w \in Nat, NEW key, NEW const
  PROVE  Pushed(sc, PushFixed(sc, kind, w, key, const), key, const)
<1> DEFINE n == Len(sc.ops)
<1>1. n \in Nat /\ DOMAIN sc.ops = 1 .. n
  BY StackDom DEF ScopeOk, ScopeShape
<1>2. CASE n > 0 /\ sc.ops[n].op = "Fixed"
  <2>1. n \in DOMAIN sc.ops
    BY <1>1, <1>2
  <2>2. sc.ops[n].width \in Nat /\ sc.ops[n].min \in Nat /\ sc.ops[n].static = {sc.ops[n].min}
    BY <1>2, <2>1 DEF ScopeOk, RunsOk, Sound, Sized
  <2> DEFINE it == Item(kind, sc.ops[n].width, w, key, const)
             width == sc.ops[n].width + w
             min == sc.ops[n].min + w
  <2>3. width \in Nat /\ min \in Nat /\ width >= sc.ops[n].width
    BY <2>2
  <2>4. NewItem(it) /\ it.key = key /\ it.const = const /\ Lies(it, width)
    BY <2>2, <2>3, ItemIs
  <2>5. PushFixed(sc, kind, w, key, const) = Stretch(sc, n, it, width, min, {min})
    <3>1. DOMAIN sc = ScopeFields /\ DOMAIN sc.ops[n] = OpFields
      BY <2>1 DEF ScopeOk, ScopeShape, OpShape
    <3>2. The(sc.ops[n].static) = sc.ops[n].min
      BY <2>2, TheOnly
    <3> HIDE DEF it
    <3>3. PushFixed(sc, kind, w, key, const) =
            [sc EXCEPT !.ops[n].items = Append(@, it), !.ops[n].width = @ + w, !.ops[n].min = @ + w,
                       !.ops[n].static = {The(@) + w}]
      BY <1>2 DEF PushFixed, it
    <3> QED
      BY <2>1, <3>1, <3>2, <3>3 DEF Stretch, ScopeFields, OpFields
  <2> HIDE DEF it, width, min
  <2>6. Ran(sc, Stretch(sc, n, it, width, min, {min}), it)
    BY <2>1, <2>3, <2>4, StretchOk
  <2> QED
    BY <2>4, <2>5, <2>6 DEF Pushed, NewItem
<1>3. CASE ~(n > 0 /\ sc.ops[n].op = "Fixed")
  <2> DEFINE it == Item(kind, 0, w, key, const)
             op == [Op("Fixed", {}, {}, w, {w}, 0) EXCEPT !.items = <<it>>]
  <2>1. NewItem(it) /\ it.key = key /\ it.const = const /\ Lies(it, w)
    BY ItemIs
  <2>2. PushFixed(sc, kind, w, key, const) = [sc EXCEPT !.ops = Append(@, op)]
    BY <1>3 DEF PushFixed
  <2> HIDE DEF it
  <2>3. RunOf(op, it)
    BY <2>1, RunOfIs
  <2> HIDE DEF op
  <2>4. Ran(sc, [sc EXCEPT !.ops = Append(@, op)], it)
    BY <2>3, NewRunOk
  <2> QED
    BY <2>1, <2>2, <2>4 DEF Pushed, NewItem
<1> QED
  BY <1>2, <1>3

LEMMA PushBitsOk ==
  ASSUME NEW sc, ScopeOk(sc), Sound(sc), NEW w \in Nat, NEW key
  PROVE  Pushed(sc, PushBits(sc, w, key), key, FALSE)
<1> DEFINE n == Len(sc.ops)
           it == Item("Bits", 0, w, key, FALSE)
<1>1. n \in Nat /\ DOMAIN sc.ops = 1 .. n
  BY StackDom DEF ScopeOk, ScopeShape
<1>2. NewItem(it) /\ it.key = key /\ it.const = FALSE
  BY DEF Item, NewItem, ItemShape, ItemFields
<1>3. CASE n > 0 /\ sc.ops[n].op = "BitRun"
  <2> DEFINE width == sc.ops[n].width
             min == sc.ops[n].min
  <2>1. n \in DOMAIN sc.ops
    BY <1>1, <1>3
  <2>2. min \in Nat /\ sc.ops[n].static = {min} /\ sc.ops[n].op # "Fixed"
    BY <1>3, <2>1 DEF Sound, Sized
  <2>3. PushBits(sc, w, key) = Stretch(sc, n, it, width, min, {min})
    <3>1. DOMAIN sc = ScopeFields /\ DOMAIN sc.ops[n] = OpFields
      BY <2>1 DEF ScopeOk, ScopeShape, OpShape
    <3>2. PushBits(sc, w, key) = [sc EXCEPT !.ops[n].items = Append(@, it)]
      BY <1>3 DEF PushBits
    <3> DEFINE op == sc.ops[n]
               items2 == Append(op.items, it)
    <3>3. Stretch(sc, n, it, width, min, {min}) =
            Edited(sc, n, items2, width, min, {min})
      BY Zenon DEF Stretch, Edited
    <3>4. "ops" \in DOMAIN sc
      BY <3>1 DEF ScopeFields
    <3>5. PushBits(sc, w, key) = WithOp(sc, n, [op EXCEPT !.items = items2])
      BY <2>1, <3>2, <3>4 DEF WithOp
    <3>6. EditedOp(op, items2, width, min, {min}) = [op EXCEPT !.items = items2]
      BY <2>2, <3>1 DEF OpFields, EditedOp
    <3> HIDE DEF items2, it, width, min
    <3>7. Stretch(sc, n, it, width, min, {min}) =
            WithOp(sc, n, EditedOp(op, items2, width, min, {min}))
      BY <2>1, <3>3, <3>4, EditRun
    <3> QED
      BY <3>5, <3>6, <3>7
  <2> HIDE DEF it, width, min
  <2>4. Ran(sc, Stretch(sc, n, it, width, min, {min}), it)
    BY <2>1, <2>2, <1>2, StretchOk
  <2> QED
    BY <2>3, <2>4, <1>2 DEF Pushed, NewItem
<1>4. CASE ~(n > 0 /\ sc.ops[n].op = "BitRun")
  <2> DEFINE op == [Op("BitRun", {}, {}, 0, {0}, 0) EXCEPT !.items = <<it>>]
  <2>1. PushBits(sc, w, key) = [sc EXCEPT !.ops = Append(@, op)]
    BY <1>4 DEF PushBits
  <2> HIDE DEF it
  <2>2. RunOf(op, it)
    BY <1>2, RunOfIs
  <2> HIDE DEF op
  <2>3. Ran(sc, [sc EXCEPT !.ops = Append(@, op)], it)
    BY <2>2, NewRunOk
  <2> QED
    BY <1>2, <2>1, <2>3 DEF Pushed, NewItem
<1> QED
  BY <1>3, <1>4

-----------------------------------------------------------------------------
(***************************************************************************)
(* The states of the machine: declarations are read, an opcode or a        *)
(* program is handed to the activation on top, or compile has returned.    *)
(***************************************************************************)
\* A place is an opcode, item 0, or one of its items.
SpanAt(sc, o, i) == IF i = 0 THEN sc.ops[o].span ELSE sc.ops[o].items[i].span
PlacesOf(op) == {0} \cup DOMAIN op.items

\* Every span belongs to one symbol, and is kept at the symbol's place.
SpansOk(sc) ==
  /\ sc.nspans \in Nat
  /\ \A p \in DOMAIN sc.syms : RegOf1(sc.syms[p].span, sc.nspans)
                               /\ SpanAt(sc, sc.syms[p].op, sc.syms[p].item) = sc.syms[p].span
  /\ \A o \in DOMAIN sc.ops : \A i \in PlacesOf(sc.ops[o]) :
       SpanAt(sc, o, i) # {} => \E p \in DOMAIN sc.syms : Same(o, i, sc.syms[p].op, sc.syms[p].item)
  /\ \A p, q \in DOMAIN sc.syms : sc.syms[p].span = sc.syms[q].span /\ sc.syms[p].span # {} => p = q

\* A digest has its spans, in its order.
DigestDone(s, d) ==
  \A j \in DOMAIN d.over : \E p \in DOMAIN s.syms : s.syms[p].name = d.over[j] /\ s.syms[p].span = {s.ops[d.op].over[j]}
DigestsDone(s) == \A k \in DOMAIN s.digests : DigestDone(s, s.digests[k])

\* A finished program.
ProgReadsOk(p) == ReadsOk(p.reads) /\ ReadsHit(p.scope, p.reads)
DerivedOk(p) ==
  \A o \in DOMAIN p.scope.ops : \A i \in DOMAIN p.scope.ops[o].items :
    p.scope.ops[o].items[i].derived <=>
      /\ ReadBy(p.reads, RegAt(p.scope, o, i), "Len") /\ ~ReadBy(p.reads, RegAt(p.scope, o, i), "On")
      /\ ~p.scope.ops[o].items[i].const
ProgOk(p) ==
  /\ DOMAIN p = {"scope", "min", "static", "frames", "reads"}
  /\ ScopeOk(p.scope) /\ ProgReadsOk(p) /\ DerivedOk(p) /\ SpansOk(p.scope) /\ DigestsDone(p.scope)
  /\ p.min \in Nat /\ p.static \subseteq {p.min} /\ p.frames \in Nat

Running(ss, td, dp) == Top(td).k # "nest" /\ \E lev : Good(ss, td, lev, {}, {}, dp)
Waiting(ss, td, op, dp) ==
  /\ Top(td).k \notin {"fields", "nest"} /\ OpOk(op)
  /\ \E lev : Good(ss, td, lev, Aims(Len(ss), op.reads), {Len(ss) + op.frames}, dp)
Built(ss, td, p, dp) ==
  /\ Top(td).k = "nest" /\ ProgOk(p)
  /\ \E lev : Good(ss, td, lev, Aims(Len(ss) + 1, Outer(p.reads)), {Len(ss) + p.frames}, dp)

CompilerInv ==
  \/ mode = "run" /\ got = {} /\ Running(scopes, todo, deepest)
  \/ mode = "ret" /\ \E op : got = {op} /\ Waiting(scopes, todo, op, deepest)
  \/ mode = "ret" /\ \E p : got = {p} /\ Built(scopes, todo, p, deepest)
  \/ /\ mode = "ok" /\ scopes = <<>> /\ todo = <<>>
     /\ \E p : got = {p} /\ ProgOk(p) /\ p.frames = deepest /\ deepest <= MAX_DEPTH
  \/ mode = "err" /\ got = {} /\ scopes = <<>> /\ todo = <<>>

LEMMA WrongOk == Wrong => CompilerInv'
  BY DEF Wrong, CompilerInv

\* What is measured does not change with a depth that is there already.
LEMMA HandTop ==
  ASSUME NEW ss, NEW td, NEW lev, NEW X, NEW H, NEW H2, NEW dp, Good(ss, td, lev, X, H, dp),
         H \subseteq H2 \cup {Len(ss)}, H2 \subseteq H \cup {Len(ss)}
  PROVE  Good(ss, td, lev, X, H2, dp)
<1>1. Depths(ss, td, lev) \cup H2 = Depths(ss, td, lev) \cup H
  BY DEF Depths
<1> QED
  BY <1>1 DEF Good

\* A field of a run is declared.
LEMMA RunField ==
  ASSUME NEW ss, NEW td, NEW lev, NEW dp, Good(ss, td, lev, {}, {}, dp), Top(td).k = "fields",
         NEW name \in FieldNames, \A n \in name : Position(Top(ss), n) = {},
         NEW sc, NEW const \in BOOLEAN, Pushed(Top(ss), sc, name, const), NEW refable, NEW spannable
  PROVE  Good(SetTop(ss, AddSym(sc, name, Len(sc.ops), Len(Top(sc.ops).items), refable, FALSE, const, spannable)),
              td, lev, {}, {}, dp)
<1> DEFINE sc2 == AddSym(sc, name, Len(sc.ops), Len(Top(sc.ops).items), refable, FALSE, const, spannable)
<1>1. Core(ss, td, lev, {})
  BY DEF Good
<1>2. ScopeOk(Top(ss)) /\ ReadsOk(ScopeReads(Top(ss))) /\ Len(ss) \in Nat /\ Stack(ss) /\ Len(ss) \in DOMAIN ss
  BY <1>1, CoreHere, TopIn
<1>3. PICK it : Ran(Top(ss), sc, it) /\ it.key = name /\ it.const = const /\ it.reg = {}
  BY DEF Pushed
<1>4. /\ ScopeOk(sc) /\ Sound(sc) /\ sc.syms = Top(ss).syms /\ ScopeReads(sc) = ScopeReads(Top(ss))
      /\ Frames(Top(ss)) \subseteq Frames(sc) /\ Frames(sc) \subseteq Frames(Top(ss)) \cup {0}
  BY <1>3 DEF Ran
<1>5. Found(sc, name, Len(sc.ops), Len(Top(sc.ops).items), refable, const)
  BY <1>3 DEF Ran, Found, Top
<1>6. \A n \in name : Position(sc, n) = {}
  BY <1>4 DEF Position
<1>7. Added(sc, sc2)
  BY <1>4, <1>5, <1>6, AddSymOk
<1> HIDE DEF sc2
<1>8. ScopeOk(sc2) /\ SymsMore(sc, sc2) /\ \A x \in ScopeFields \ {"syms"} : sc2[x] = sc[x]
  BY <1>7 DEF Added
<1>9. Sound(sc2) /\ ScopeReads(sc2) = ScopeReads(sc) /\ Frames(sc2) = Frames(sc)
  BY <1>4, <1>8, SymsMoreSound
<1>10. SymsMore(Top(ss), sc2)
  BY <1>4, <1>8 DEF SymsMore
<1>11. Moved(Aims(Len(ss), ScopeReads(Top(ss))), {}, Aims(Len(ss), ScopeReads(sc2)), {})
  BY <1>4, <1>9 DEF Moved
<1>12. Moved(Rise(Len(ss), Frames(Top(ss))), {Len(ss)}, Rise(Len(ss), Frames(sc2)), {Len(ss)})
  <2> DEFINE F == Frames(Top(ss))
             F2 == Frames(sc2)
             n == Len(ss)
  <2>1. F \subseteq F2 /\ F2 \subseteq F \cup {0} /\ n \in Nat
    BY <1>2, <1>4, <1>9
  <2> HIDE DEF F, F2, n
  <2>2. \A f \in F2 : n + f \in Rise(n, F) \cup {n}
    BY <2>1 DEF Rise
  <2>3. \A f \in F : n + f \in Rise(n, F2)
    BY <2>1 DEF Rise
  <2>4. Rise(n, F) \subseteq Rise(n, F2) /\ Rise(n, F2) \subseteq Rise(n, F) \cup {n}
    BY <2>2, <2>3 DEF Rise
  <2>5. Moved(Rise(n, F), {n}, Rise(n, F2), {n})
    BY <2>4 DEF Moved
  <2> QED
    BY <2>5 DEF F, F2, n
<1>13. Good(ss, td, lev, {}, {Len(ss)}, dp)
  BY HandTop
<1>14. ReadsOk(ScopeReads(sc2))
  BY <1>2, <1>4, <1>9
<1>15. Good(SetTop(ss, sc2), td, lev, {}, {Len(ss)}, dp)
  BY <1>8, <1>9, <1>10, <1>11, <1>12, <1>13, <1>14, GoodTop
<1>16. Len(SetTop(ss, sc2)) = Len(ss)
  BY <1>1, <1>8, <1>10, <1>11, <1>14, CoreTop
<1>17. Good(SetTop(ss, sc2), td, lev, {}, {}, dp)
  BY <1>15, <1>16, HandTop
<1> QED
  BY <1>17 DEF sc2

\* The width of a type is a number.
LEMMA FixedWidthNat ==
  ASSUME NEW ty \in Types, ty.t \in FixedTypes, NEW w \in FixedWidth(ty)
  PROVE  w \in Nat
<1>1. CASE ty.t = "Int"
  BY <1>1, TypesAssumption DEF FixedWidth
<1>2. CASE ty.t = "Raw"
  BY <1>2, TypesAssumption DEF FixedWidth
<1>3. CASE ty.t \in {"Float", "Bool"}
  BY <1>3, TypesAssumption DEF FixedWidth
<1> QED
  BY <1>1, <1>2, <1>3 DEF FixedTypes

LEMMA DeclFixedOk ==
  ASSUME NEW name \in FieldNames, NEW ty \in Types, CompilerInv, DeclFixed(name, ty)
  PROVE  CompilerInv'
<1>1. CASE Wrong
  BY <1>1, WrongOk
<1>2. CASE \E w \in FixedWidth(ty) :
             LET const == ty.const # {}
                 sc == PushFixed(Top(scopes), ty.t, w, name, const)
             IN  /\ NameOk(name, ty)
                 /\ scopes' = SetTop(scopes, AddSym(sc, name, Len(sc.ops), Len(Top(sc.ops).items),
                                                    ty.t = "Int", FALSE, const, TRUE))
                 /\ UNCHANGED <<todo, mode, got, deepest>>
  <2> DEFINE const == ty.const # {}
             sc(w) == PushFixed(Top(scopes), ty.t, w, name, const)
  <2>1. PICK w \in FixedWidth(ty) :
          /\ NameOk(name, ty)
          /\ scopes' = SetTop(scopes, AddSym(sc(w), name, Len(sc(w).ops), Len(Top(sc(w).ops).items),
                                             ty.t = "Int", FALSE, const, TRUE))
          /\ todo' = todo /\ mode' = mode /\ got' = got /\ deepest' = deepest
    BY <1>2
  <2>2. mode = "run" /\ Top(todo).k = "fields" /\ ty.t \in FixedTypes
    BY DEF DeclFixed, AtField
  <2>3. got = {} /\ Running(scopes, todo, deepest)
    BY <2>2 DEF CompilerInv
  <2>4. PICK lev : Good(scopes, todo, lev, {}, {}, deepest)
    BY <2>3 DEF Running
  <2>5. w \in Nat
    BY <2>2, FixedWidthNat
  <2>6. ScopeOk(Top(scopes)) /\ Sound(Top(scopes))
    BY <2>2, <2>4, CoreHere DEF Good, Top
  <2>7. Pushed(Top(scopes), sc(w), name, const) /\ const \in BOOLEAN
    BY <2>5, <2>6, PushFixedOk
  <2>8. \A n \in name : Position(Top(scopes), n) = {}
    BY <2>1 DEF NameOk
  <2> HIDE DEF sc, const
  <2>9. Good(scopes', todo, lev, {}, {}, deepest)
    BY <2>1, <2>2, <2>4, <2>7, <2>8, RunField
  <2> QED
    BY <2>1, <2>2, <2>3, <2>9 DEF CompilerInv, Running
<1> QED
  BY <1>1, <1>2 DEF DeclFixed

LEMMA DeclBitsOk ==
  ASSUME NEW name \in FieldNames, NEW ty \in Types, CompilerInv, DeclBits(name, ty)
  PROVE  CompilerInv'
<1>1. CASE Wrong
  BY <1>1, WrongOk
<1>2. CASE LET sc == PushBits(Top(scopes), ty.width, name)
           IN  /\ NameOk(name, ty) /\ ty.width \in 1 .. WordBits
               /\ scopes' = SetTop(scopes, AddSym(sc, name, Len(sc.ops), Len(Top(sc.ops).items),
                                                  TRUE, FALSE, FALSE, FALSE))
               /\ UNCHANGED <<todo, mode, got, deepest>>
  <2> DEFINE sc == PushBits(Top(scopes), ty.width, name)
  <2>1. /\ NameOk(name, ty) /\ ty.width \in 1 .. WordBits
        /\ scopes' = SetTop(scopes, AddSym(sc, name, Len(sc.ops), Len(Top(sc.ops).items), TRUE, FALSE, FALSE, FALSE))
        /\ todo' = todo /\ mode' = mode /\ got' = got /\ deepest' = deepest
    BY <1>2
  <2>2. mode = "run" /\ Top(todo).k = "fields"
    BY DEF DeclBits, AtField
  <2>3. got = {} /\ Running(scopes, todo, deepest)
    BY <2>2 DEF CompilerInv
  <2>4. PICK lev : Good(scopes, todo, lev, {}, {}, deepest)
    BY <2>3 DEF Running
  <2>5. ty.width \in Nat
    BY <2>1
  <2>6. ScopeOk(Top(scopes)) /\ Sound(Top(scopes))
    BY <2>2, <2>4, CoreHere DEF Good, Top
  <2>7. Pushed(Top(scopes), sc, name, FALSE)
    BY <2>5, <2>6, PushBitsOk
  <2>8. \A n \in name : Position(Top(scopes), n) = {}
    BY <2>1 DEF NameOk
  <2> HIDE DEF sc
  <2>9. Good(scopes', todo, lev, {}, {}, deepest)
    BY <2>1, <2>2, <2>4, <2>7, <2>8, RunField
  <2> QED
    BY <2>1, <2>2, <2>3, <2>9 DEF CompilerInv, Running
<1> QED
  BY <1>1, <1>2 DEF DeclBits

\* An opcode made from parts.
Made(op, reads, frames) == OpOk(op) /\ op.reads = reads /\ op.frames = frames
LEMMA OpIs ==
  ASSUME NEW kind, kind \notin {"Fixed", "BitRun"}, NEW lens, NEW reads, ReadsOk(reads),
         NEW min \in Nat, NEW static, static \subseteq {min}, NEW frames \in Nat
  PROVE  Made(Op(kind, lens, reads, min, static, frames), reads, frames)
<1> DEFINE op == Op(kind, lens, reads, min, static, frames)
           items == <<>>
<1>1. Stack(items) /\ DOMAIN items = {}
  <2>1. items \in Seq({}) /\ DOMAIN items = {}
    OBVIOUS
  <2> HIDE DEF items
  <2>2. Stack(items)
    BY <2>1, IsStack
  <2> QED
    BY <2>1, <2>2
<1> HIDE DEF items
<1>2. /\ DOMAIN op = OpFields /\ op.op = kind /\ op.reads = reads /\ op.min = min /\ op.static = static
      /\ op.frames = frames /\ op.items = items /\ op.span = {}
  BY DEF Op, OpFields, items
<1> HIDE DEF op
<1>3. OpShape(op) /\ Sized(op) /\ Unspanned(op)
  BY <1>1, <1>2 DEF OpShape, Sized, Unspanned
<1>4. OpOk(op)
  BY <1>1, <1>2, <1>3 DEF OpOk
<1>5. Made(op, reads, frames)
  BY <1>2, <1>4 DEF Made
<1> QED
  BY <1>5 DEF op

LEMMA ReadingOk ==
  ASSUME NEW op, NEW reads, NEW frames, Made(op, reads, frames), NEW R
  PROVE  Made(Reading(op, R), reads, frames)
<1> DEFINE op2 == Reading(op, R)
<1>1. OpOk(op) /\ DOMAIN op = OpFields /\ op.reads = reads /\ op.frames = frames
  BY DEF Made, OpOk, OpShape
<1>2. DOMAIN op2 = OpFields /\ \A x \in OpFields \ {"own"} : op2[x] = op[x]
  BY <1>1 DEF Reading, OpFields
<1> HIDE DEF op2
<1>3. /\ op2.op = op.op /\ op2.reads = op.reads /\ op2.min = op.min /\ op2.static = op.static /\ op2.frames = op.frames
      /\ op2.width = op.width /\ op2.items = op.items /\ op2.span = op.span
  BY <1>2 DEF OpFields
<1>4. OpShape(op2) /\ Sized(op2) /\ Unspanned(op2)
  BY <1>1, <1>2, <1>3 DEF OpOk, OpShape, Sized, Unspanned
<1>5. OpOk(op2)
  BY <1>1, <1>3, <1>4 DEF OpOk
<1>6. Made(op2, reads, frames)
  BY <1>1, <1>3, <1>5 DEF Made
<1> QED
  BY <1>6 DEF op2

\* A leaf: what it takes from the scopes around it is in hand.
LeafIs(ss, x, T) ==
  Since(ss, x.ss, T \cup Aims(Len(ss), x.op.reads)) /\ OpOk(x.op) /\ x.op.frames = 0
LEMMA LeafOk ==
  ASSUME NEW ss, ScopesOk(ss), NEW ty \in Types, NEW T, AllHit(ss, T), AllNoted(ss, T), NEW x \in Leaf(ss, ty)
  PROVE  LeafIs(ss, x, T)
<1> SUFFICES ASSUME TRUE PROVE LeafIs(ss, x, T)
  OBVIOUS
<1>0. \A o : Made(o, {}, 0) /\ x = [ss |-> ss, op |-> o] => LeafIs(ss, x, T)
  <2> TAKE o
  <2> HAVE Made(o, {}, 0) /\ x = [ss |-> ss, op |-> o]
  <2>1. x.ss = ss /\ x.op = o /\ OpOk(o) /\ o.reads = {} /\ o.frames = 0
    BY DEF Made
  <2>2. Aims(Len(ss), o.reads) = {}
    BY <2>1 DEF Aims
  <2>3. T \cup Aims(Len(ss), o.reads) = T
    BY <2>2
  <2>4. Since(ss, ss, T)
    BY SameScopesSelf DEF Since
  <2> QED
    BY <2>1, <2>3, <2>4 DEF LeafIs
<1>1. CASE ty.t \in FixedTypes
  <2> DEFINE it(w) == Item(ty.t, 0, w, {}, FALSE)
             op(w) == [Op("Fixed", {}, {}, w, {w}, 0) EXCEPT !.items = <<it(w)>>]
  <2>0. ty.t \notin {"Bytes", "CStr", "Flags"}
    BY <1>1 DEF FixedTypes
  <2>1. PICK w \in FixedWidth(ty) : x = [ss |-> ss, op |-> op(w)]
    BY <1>1, <2>0 DEF Leaf
  <2>2. w \in Nat
    BY <1>1, FixedWidthNat
  <2>3. NewItem(it(w)) /\ Lies(it(w), w)
    BY <2>2 DEF Item, NewItem, ItemShape, ItemFields, Lies
  <2> HIDE DEF it
  <2>4. RunOf(op(w), it(w))
    BY <2>2, <2>3, RunOfIs
  <2> HIDE DEF op
  <2>5. Made(op(w), {}, 0)
    BY <2>4 DEF RunOf, Made
  <2> QED
    BY <1>0, <2>1, <2>5
<1>2. CASE ty.t = "Bytes"
  <2> DEFINE min(l) == IF l.const = {} THEN 0 ELSE The(l.const)
             op(l) == Op("Bytes", l.lens, l.reads, min(l), l.const, 0)
  <2>1. PICK l \in BuildLen(ss, ty.len) : x = [ss |-> l.ss, op |-> Reading(op(l), l.reads)]
    BY <1>2 DEF Leaf, FixedTypes
  <2>2. Described(ty.len)
    BY <1>2, TypesAssumption
  <2>3. Since(ss, l.ss, T \cup Aims(Len(ss), l.reads)) /\ ReadsOk(l.reads) /\ Const01(l.const)
    BY <2>2, BuildLenOk
  <2>4. min(l) \in Nat /\ l.const \subseteq {min(l)}
    <3>1. CASE l.const = {}
      BY <3>1
    <3>2. CASE \E n \in Nat : l.const = {n}
      BY <3>2, TheOnly
    <3> QED
      BY <2>3, <3>1, <3>2 DEF Const01
  <2> HIDE DEF min
  <2>5. Made(op(l), l.reads, 0)
    BY <2>3, <2>4, OpIs
  <2> HIDE DEF op
  <2>6. Made(Reading(op(l), l.reads), l.reads, 0)
    BY <2>5, ReadingOk
  <2>7. x.ss = l.ss /\ OpOk(x.op) /\ x.op.reads = l.reads /\ x.op.frames = 0
    BY <2>1, <2>6 DEF Made
  <2> QED
    BY <2>3, <2>7 DEF LeafIs
<1>3. CASE ty.t = "CStr"
  <2>1. x = [ss |-> ss, op |-> Op("CStr", {}, {}, 1, {}, 0)]
    BY <1>3 DEF Leaf, FixedTypes
  <2>2. Made(Op("CStr", {}, {}, 1, {}, 0), {}, 0)
    BY OpIs DEF ReadsOk
  <2> QED
    BY <1>0, <2>1, <2>2
<1>4. CASE ty.t = "Flags"
  <2>1. x = [ss |-> ss, op |-> Op("Flags", {}, {}, ty.prim.w, {ty.prim.w}, 0)]
    BY <1>4 DEF Leaf, FixedTypes
  <2>2. ty.prim.w \in Nat
    BY <1>4, TypesAssumption
  <2>3. Made(Op("Flags", {}, {}, ty.prim.w, {ty.prim.w}, 0), {}, 0)
    BY <2>2, OpIs DEF ReadsOk
  <2> QED
    BY <1>0, <2>1, <2>3
<1>5. ty.t \in FixedTypes \cup {"Bytes", "CStr", "Flags"}
  BY DEF Leaf
<1> QED
  BY <1>1, <1>2, <1>3, <1>4, <1>5

\* An opcode is finished.
LEMMA FinishOk ==
  ASSUME NEW ss, NEW rest, NEW lev, NEW name \in FieldNames, NEW op, OpOk(op), NEW flags, NEW spannable,
         Good(ss, rest, lev, Aims(Len(ss), op.reads), {Len(ss) + op.frames}, deepest),
         Top(rest).k # "nest", Top(rest).k = "fields" => \A n \in name : Position(Top(ss), n) = {},
         Finish(ss, rest, name, op, flags, spannable)
  PROVE  CompilerInv'
<1>1. CASE Top(rest).k = "fields"
  <2> DEFINE sc == Top(ss)
             with == [sc EXCEPT !.ops = Append(@, Keyed(op, name))]
  <2>1. /\ scopes' = SetTop(ss, AddSym(with, name, Len(with.ops), 0, FALSE, flags, FALSE, spannable))
        /\ mode' = "run" /\ got' = {} /\ todo' = rest /\ deepest' = deepest
    BY <1>1 DEF Finish, Keyed
  <2>2. OpMore(Top(ss), with, Keyed(op, name))
    <3>1. ScopeOk(sc) /\ Sound(sc)
      BY TopIn DEF Good, Core, ScopesOk, Top
    <3>2. DOMAIN sc = ScopeFields /\ Stack(sc.ops) /\ Stack(sc.digests)
      BY <3>1 DEF ScopeOk, ScopeShape
    <3> DEFINE ops2 == Append(sc.ops, Keyed(op, name))
    <3>3. /\ Stack(ops2) /\ DOMAIN ops2 = 1 .. (Len(sc.ops) + 1) /\ DOMAIN sc.ops = 1 .. Len(sc.ops)
          /\ Len(sc.ops) \in Nat
          /\ \A o \in 1 .. Len(sc.ops) : ops2[o] = sc.ops[o]
          /\ ops2[Len(sc.ops) + 1] = Keyed(op, name)
      BY <3>2, StackPush
    <3>4. DOMAIN with = ScopeFields /\ with.ops = ops2 /\ \A x \in ScopeFields \ {"ops"} : with[x] = sc[x]
      BY <3>2 DEF ScopeFields
    <3> HIDE DEF with, ops2, sc
    <3>5. with.digests = sc.digests
      BY <3>4 DEF ScopeFields
    <3>6. DigestsOk(with)
      BY <3>1, <3>3, <3>4, <3>5 DEF Sound, DigestsOk
    <3>7. OpMore(sc, with, Keyed(op, name))
      BY <3>2, <3>3, <3>4, <3>5, <3>6 DEF OpMore
    <3> QED
      BY <3>7 DEF sc
  <2> HIDE DEF with
  <2>3. Good(scopes', todo', lev, {}, {}, deepest')
    BY <1>1, <2>1, <2>2, FieldDone
  <2> QED
    BY <1>1, <2>1, <2>3 DEF CompilerInv, Running
<1>2. CASE Top(rest).k # "fields"
  <2>1. scopes' = ss /\ mode' = "ret" /\ got' = {op} /\ todo' = rest /\ deepest' = deepest
    BY <1>2 DEF Finish
  <2>2. Waiting(scopes', todo', op, deepest')
    BY <1>2, <2>1 DEF Waiting
  <2> QED
    BY <2>1, <2>2 DEF CompilerInv
<1> QED
  BY <1>1, <1>2

\* A leaf is read when its scope is open: it is ready to be finished.
LEMMA LeafReady ==
  ASSUME NEW ss, NEW td, NEW lev, NEW dp, Good(ss, td, lev, {}, {}, dp), NEW ty \in Types, NEW x \in Leaf(ss, ty)
  PROVE  /\ Good(x.ss, td, lev, Aims(Len(x.ss), x.op.reads), {Len(x.ss) + x.op.frames}, dp)
         /\ OpOk(x.op) /\ \A n : Position(Top(x.ss), n) = Position(Top(ss), n)
<1> DEFINE E == {}
           T == AllAims(ss, td, lev) \cup E
           Y == Aims(Len(ss), x.op.reads)
<1>0. Good(ss, td, lev, E, {}, dp) /\ E \cup Y = Y
  OBVIOUS
<1> HIDE DEF E
<1>1. ScopesOk(ss) /\ AllHit(ss, T) /\ AllNoted(ss, T) /\ Core(ss, td, lev, E)
  BY <1>0 DEF Good, Core
<1>2. LeafIs(ss, x, T)
  BY <1>1, LeafOk
<1>3. SinceAll(ss, td, lev, E, x.ss, Y) /\ OpOk(x.op) /\ x.op.frames = 0
  BY <1>2 DEF LeafIs, SinceAll
<1> HIDE DEF Y
<1>4. /\ Good(x.ss, td, lev, E \cup Y, {}, dp) /\ Len(x.ss) = Len(ss)
      /\ \A n : Position(Top(x.ss), n) = Position(Top(ss), n)
  <2>1. Good(x.ss, td, lev, E \cup Y, {}, dp)
    BY <1>0, <1>3, GoodSince
  <2>2. Len(x.ss) = Len(ss)
    BY <1>0, <1>3, GoodSince
  <2>3. SameNames(x.ss, ss)
    BY <1>0, <1>3, GoodSince
  <2> QED
    BY <2>1, <2>2, <2>3 DEF SameNames
<1>5. Len(ss) \in Nat
  BY <1>1, TopIn
<1> HIDE DEF T
<1>6. {Len(x.ss) + x.op.frames} \subseteq {} \cup {Len(x.ss)}
  BY <1>3, <1>4, <1>5
<1>8. Good(x.ss, td, lev, Y, {}, dp)
  BY <1>0, <1>4
<1> HIDE DEF Y
<1>9. Good(x.ss, td, lev, Y, {Len(x.ss) + x.op.frames}, dp)
  BY <1>6, <1>8, HandTop
<1> QED
  BY <1>3, <1>4, <1>9 DEF Y

LEMMA DeclLeafOk ==
  ASSUME NEW name \in FieldNames, NEW ty \in Types, CompilerInv, DeclLeaf(name, ty)
  PROVE  CompilerInv'
<1>1. CASE Wrong
  BY <1>1, WrongOk
<1>2. CASE \E x \in Leaf(scopes, ty) :
             NameOk(name, ty) /\ Finish(x.ss, todo, name, x.op, ty.t = "Flags", TRUE)
  <2>1. PICK x \in Leaf(scopes, ty) : NameOk(name, ty) /\ Finish(x.ss, todo, name, x.op, ty.t = "Flags", TRUE)
    BY <1>2
  <2>2. mode = "run" /\ Top(todo).k = "fields"
    BY DEF DeclLeaf, AtField
  <2>3. PICK lev : Good(scopes, todo, lev, {}, {}, deepest)
    BY <2>2 DEF CompilerInv, Running
  <2>4. /\ Good(x.ss, todo, lev, Aims(Len(x.ss), x.op.reads), {Len(x.ss) + x.op.frames}, deepest)
        /\ OpOk(x.op) /\ \A n : Position(Top(x.ss), n) = Position(Top(scopes), n)
    BY <2>3, LeafReady
  <2>5. \A n \in name : Position(Top(x.ss), n) = {}
    BY <2>1, <2>4 DEF NameOk
  <2> QED
    BY <2>1, <2>2, <2>4, <2>5, FinishOk
<1> QED
  BY <1>1, <1>2 DEF DeclLeaf

LEMMA ElemLeafOk ==
  ASSUME NEW ty \in Types, CompilerInv, ElemLeaf(ty)
  PROVE  CompilerInv'
<1>1. CASE Wrong
  BY <1>1, WrongOk
<1>2. CASE \E x \in Leaf(scopes, ty) : Finish(x.ss, todo, {}, x.op, FALSE, FALSE)
  <2>1. PICK x \in Leaf(scopes, ty) : Finish(x.ss, todo, {}, x.op, FALSE, FALSE)
    BY <1>2
  <2>2. mode = "run" /\ Top(todo).k # "fields"
    BY DEF ElemLeaf, AtElem
  <2>3. PICK lev : Good(scopes, todo, lev, {}, {}, deepest)
    BY <2>2 DEF CompilerInv, Running
  <2>4. Top(todo).k # "nest"
    BY <2>2 DEF CompilerInv, Running
  <2>5. /\ Good(x.ss, todo, lev, Aims(Len(x.ss), x.op.reads), {Len(x.ss) + x.op.frames}, deepest)
        /\ OpOk(x.op)
    BY <2>3, LeafReady
  <2>6. {} \in FieldNames
    BY DEF FieldNames
  <2> QED
    BY <2>1, <2>2, <2>4, <2>5, <2>6, FinishOk
<1> QED
  BY <1>1, <1>2 DEF ElemLeaf

LEMMA SetTopTwice ==
  ASSUME NEW s, Stack(s), Len(s) \in DOMAIN s, NEW x, NEW y
  PROVE  SetTop(SetTop(s, x), y) = SetTop(s, y) /\ Top(SetTop(s, x)) = x
<1>1. SetTop(s, x) = Put(s, Len(s), x)
  BY DEF SetTop, Put
<1>2. Len(SetTop(s, x)) = Len(s) /\ SetTop(s, x)[Len(s)] = x
  BY <1>1, StackPut
<1> QED
  BY <1>2 DEF SetTop, Top

\* A digest is noted together with its opcode.
LEMMA DigestMore ==
  ASSUME NEW sc, ScopeOk(sc), Sound(sc), NEW over, Listed(over), NEW op, op.op = "Digest"
  PROVE  OpMore(sc, [[sc EXCEPT !.digests = Append(@, [op |-> Len(sc.ops) + 1, over |-> over])] EXCEPT !.ops = Append(@, op)],
                op)
<1> DEFINE digest == [op |-> Len(sc.ops) + 1, over |-> over]
           digests2 == Append(sc.digests, digest)
           ops2 == Append(sc.ops, op)
           with == [[sc EXCEPT !.digests = digests2] EXCEPT !.ops = ops2]
<1>1. DOMAIN sc = ScopeFields /\ Stack(sc.ops) /\ Stack(sc.digests)
  BY DEF ScopeOk, ScopeShape
<1>2. /\ Stack(ops2) /\ DOMAIN ops2 = 1 .. (Len(sc.ops) + 1) /\ DOMAIN sc.ops = 1 .. Len(sc.ops)
      /\ Len(sc.ops) \in Nat
      /\ \A o \in 1 .. Len(sc.ops) : ops2[o] = sc.ops[o]
      /\ ops2[Len(sc.ops) + 1] = op
  BY <1>1, StackPush
<1>3. /\ Stack(digests2) /\ DOMAIN digests2 = 1 .. (Len(sc.digests) + 1) /\ DOMAIN sc.digests = 1 .. Len(sc.digests)
      /\ Len(sc.digests) \in Nat
      /\ \A k \in 1 .. Len(sc.digests) : digests2[k] = sc.digests[k]
      /\ digests2[Len(sc.digests) + 1] = digest
  BY <1>1, StackPush
<1>4. DOMAIN with = ScopeFields /\ with.ops = ops2 /\ with.digests = digests2
      /\ \A x \in ScopeFields \ {"ops", "digests"} : with[x] = sc[x]
  BY <1>1 DEF ScopeFields
<1>5. digest.op = Len(sc.ops) + 1 /\ digest.over = over
  OBVIOUS
<1> HIDE DEF with, ops2, digests2, digest
<1>6. DigestsOk(with)
  <2> DEFINE m == Len(sc.digests)
             n == Len(sc.ops)
  <2>1. \A k \in 1 .. (m + 1) : k = m + 1 \/ k \in 1 .. m
    BY <1>3
  <2>2. \A k \in 1 .. m : sc.digests[k].op \in 1 .. n /\ sc.ops[sc.digests[k].op].op = "Digest" /\ Listed(sc.digests[k].over)
    BY <1>2, <1>3 DEF Sound, DigestsOk
  <2>3. \A k, l \in 1 .. m : sc.digests[k].op = sc.digests[l].op => k = l
    BY <1>3 DEF Sound, DigestsOk
  <2>4. \A k \in 1 .. m : digests2[k].op \in 1 .. n /\ digests2[k].op # n + 1
    BY <1>2, <1>3, <2>2
  <2>5. \A k \in DOMAIN digests2 :
          digests2[k].op \in DOMAIN ops2 /\ ops2[digests2[k].op].op = "Digest" /\ Listed(digests2[k].over)
    <3> TAKE k \in DOMAIN digests2
    <3>1. CASE k = m + 1
      BY <3>1, <1>2, <1>3, <1>5
    <3>2. CASE k \in 1 .. m
      BY <3>2, <1>2, <1>3, <2>2, <2>4
    <3> QED
      BY <3>1, <3>2, <2>1, <1>3
  <2>6. \A k, l \in DOMAIN digests2 : digests2[k].op = digests2[l].op => k = l
    <3> TAKE k, l \in DOMAIN digests2
    <3> HAVE digests2[k].op = digests2[l].op
    <3>1. CASE k \in 1 .. m /\ l \in 1 .. m
      BY <3>1, <1>3, <2>3
    <3>2. CASE k = m + 1 /\ l = m + 1
      BY <3>2
    <3>3. CASE k = m + 1 /\ l \in 1 .. m
      BY <3>3, <1>3, <1>5, <2>4
    <3>4. CASE l = m + 1 /\ k \in 1 .. m
      BY <3>4, <1>3, <1>5, <2>4
    <3> QED
      BY <3>1, <3>2, <3>3, <3>4, <2>1, <1>3
  <2> QED
    BY <2>5, <2>6, <1>4 DEF DigestsOk
<1>7. OpMore(sc, with, op)
  BY <1>2, <1>3, <1>4, <1>6 DEF OpMore
<1> QED
  BY <1>7 DEF with, ops2, digests2, digest

\* What reads nothing and holds nothing deep has nothing in hand.
LEMMA NothingRead ==
  ASSUME NEW ss, NEW td, NEW lev, NEW dp, Good(ss, td, lev, {}, {}, dp), NEW op, Made(op, {}, 0)
  PROVE  Good(ss, td, lev, Aims(Len(ss), op.reads), {Len(ss) + op.frames}, dp)
<1>1. Len(ss) \in Nat
  BY TopIn DEF Good
<1>2. Aims(Len(ss), op.reads) = {} /\ Len(ss) + op.frames = Len(ss)
  BY <1>1 DEF Made, Aims
<1>3. Good(ss, td, lev, {}, {Len(ss)}, dp)
  BY HandTop
<1> QED
  BY <1>2, <1>3

LEMMA DeclDigestOk ==
  ASSUME NEW name \in FieldNames, NEW ty \in Types, CompilerInv, DeclDigest(name, ty)
  PROVE  CompilerInv'
<1> DEFINE sc == Top(scopes)
           noted == [sc EXCEPT !.digests = Append(@, [op |-> Len(sc.ops) + 1, over |-> ty.over])]
           ss == SetTop(scopes, noted)
           op == Op("Digest", {}, {}, ty.w, {ty.w}, 0)
<1>1. CASE Wrong
  BY <1>1, WrongOk
<1>2. CASE NameOk(name, ty) /\ Finish(ss, todo, name, op, FALSE, TRUE)
  <2>1. mode = "run" /\ Top(todo).k = "fields" /\ ty.t = "Digest"
    BY DEF DeclDigest, AtField
  <2>2. PICK lev : Good(scopes, todo, lev, {}, {}, deepest)
    BY <2>1 DEF CompilerInv, Running
  <2>3. ty.w \in Nat /\ Listed(ty.over)
    BY <2>1, TypesAssumption
  <2>4. ScopeOk(sc) /\ Sound(sc) /\ Stack(scopes) /\ Len(scopes) \in DOMAIN scopes
    BY <2>2, TopIn DEF Good, Core, ScopesOk, Top
  <2>5. Made(op, {}, 0)
    BY <2>3, OpIs DEF ReadsOk
  <2>6. op.op = "Digest"
    BY DEF Op
  <2> DEFINE keyed == Keyed(op, name)
             with == [noted EXCEPT !.ops = Append(@, keyed)]
  <2>7. /\ scopes' = SetTop(ss, AddSym([Top(ss) EXCEPT !.ops = Append(@, keyed)], name,
                                       Len([Top(ss) EXCEPT !.ops = Append(@, keyed)].ops), 0, FALSE, FALSE, FALSE, TRUE))
        /\ mode' = "run" /\ got' = {} /\ todo' = todo /\ deepest' = deepest
    BY <1>2, <2>1 DEF Finish, Keyed
  <2> HIDE DEF op
  <2>8. OpOk(op) /\ keyed.op = "Digest"
    BY <2>5, <2>6, KeyedOk DEF Made
  <2> HIDE DEF keyed
  <2>9. OpMore(sc, with, keyed)
    BY <2>3, <2>4, <2>8, DigestMore
  <2> HIDE DEF noted
  <2>10. \A x : SetTop(ss, x) = SetTop(scopes, x)
    BY <2>4, SetTopTwice
  <2>11. Top(ss) = noted
    BY <2>4, SetTopTwice
  <2> HIDE DEF ss
  <2>12. scopes' = SetTop(scopes, AddSym(with, name, Len(with.ops), 0, FALSE, FALSE, FALSE, TRUE))
    BY <2>7, <2>10, <2>11
  <2> HIDE DEF with
  <2>13. Good(scopes, todo, lev, Aims(Len(scopes), op.reads), {Len(scopes) + op.frames}, deepest)
    BY <2>2, <2>5, NothingRead
  <2>14. \A n \in name : Position(Top(scopes), n) = {}
    BY <1>2 DEF NameOk
  <2>15. Good(scopes', todo, lev, {}, {}, deepest)
    BY <2>1, <2>8, <2>9, <2>12, <2>13, <2>14, FieldDone DEF keyed
  <2> QED
    BY <2>1, <2>7, <2>15 DEF CompilerInv, Running
<1> QED
  BY <1>1, <1>2 DEF DeclDigest

\* An expression of a declaration is resolved: its code is ready to be kept.
Ready(ss, td, lev, x) == SinceAll(ss, td, lev, {}, x.ss, Aims(Len(ss), x.reads)) /\ ReadsOk(x.reads)

LEMMA LenReady ==
  ASSUME NEW ss, NEW td, NEW lev, NEW dp, Good(ss, td, lev, {}, {}, dp), NEW d, Described(d), NEW x \in BuildLen(ss, d)
  PROVE  Ready(ss, td, lev, x) /\ Const01(x.const)
<1> DEFINE E == {}
           T == AllAims(ss, td, lev) \cup E
<1>0. Core(ss, td, lev, E)
  BY DEF Good
<1> HIDE DEF E
<1>1. ScopesOk(ss) /\ AllHit(ss, T) /\ AllNoted(ss, T)
  BY <1>0 DEF Core
<1> HIDE DEF T
<1>2. Since(ss, x.ss, T \cup Aims(Len(ss), x.reads)) /\ ReadsOk(x.reads) /\ Const01(x.const)
  BY <1>1, BuildLenOk
<1> QED
  BY <1>2 DEF Ready, SinceAll, T, E

LEMMA ExprReady ==
  ASSUME NEW ss, NEW td, NEW lev, NEW dp, Good(ss, td, lev, {}, {}, dp), NEW d, Described(d), NEW role,
         NEW x \in EmitExpr(ss, d, role)
  PROVE  Ready(ss, td, lev, x)
<1> DEFINE E == {}
           T == AllAims(ss, td, lev) \cup E
<1>0. Core(ss, td, lev, E)
  BY DEF Good
<1> HIDE DEF E
<1>1. ScopesOk(ss) /\ AllHit(ss, T) /\ AllNoted(ss, T) /\ Listed(d.code)
  BY <1>0 DEF Core, Described
<1> HIDE DEF T
<1>2. Since(ss, x.ss, T \cup Aims(Len(ss), x.reads)) /\ ReadsOk(x.reads)
  BY <1>1, EmitExprOk
<1> QED
  BY <1>2 DEF Ready, SinceAll, T, E

LEMMA NoneReady ==
  ASSUME NEW ss, NEW td, NEW lev, NEW dp, Good(ss, td, lev, {}, {}, dp), NEW x, x.ss = ss, x.reads = {}
  PROVE  Ready(ss, td, lev, x)
<1>1. ScopesOk(ss) /\ AllHit(ss, AllAims(ss, td, lev) \cup {}) /\ AllNoted(ss, AllAims(ss, td, lev) \cup {})
  BY DEF Good, Core
<1>2. Aims(Len(ss), x.reads) = {}
  BY DEF Aims
<1>3. SameScopes(ss, x.ss)
  BY <1>1, SameScopesSelf
<1>4. (AllAims(ss, td, lev) \cup {}) \cup {} = AllAims(ss, td, lev) \cup {}
  OBVIOUS
<1>5. Since(ss, x.ss, (AllAims(ss, td, lev) \cup {}) \cup {})
  BY <1>1, <1>3, <1>4 DEF Since
<1> QED
  BY <1>2, <1>5 DEF Ready, SinceAll, ReadsOk

\* An activation before any of the types inside it is compiled.
Fresh(a, k, name, reads) ==
  ActOk(a) /\ ActSized(a) /\ a.k = k /\ a.name = name /\ ActReads(a) = reads /\ DoneFrames(a) = {}

LEMMA FreshIs ==
  ASSUME NEW k \in {"nest", "array", "switch", "cond"}, NEW name \in FieldNames, NEW lens, NEW reads, ReadsOk(reads),
         NEW const, Const01(const), NEW arms, NEW cases, NEW sized, k = "nest" /\ const # {} => sized = TRUE
  PROVE  Fresh([Activation(k, name, lens, reads, const, arms, cases) EXCEPT !.sized = sized], k, name, reads)
<1> DEFINE a == [Activation(k, name, lens, reads, const, arms, cases) EXCEPT !.sized = sized]
           done == <<>>
<1>1. done \in Seq({}) /\ DOMAIN done = {} /\ done = <<>>
  OBVIOUS
<1>2. /\ DOMAIN a = ActFields /\ a.k = k /\ a.name = name /\ a.reads = reads /\ a.const = const /\ a.sized = sized
      /\ a.done = done
  BY DEF Activation, ActFields
<1> HIDE DEF a, done
<1>3. Stack(done)
  BY <1>1, IsStack
<1>4. ActReads(a) = reads /\ DoneFrames(a) = {}
  BY <1>1, <1>2 DEF ActReads, DoneFrames
<1>5. ActOk(a)
  BY <1>1, <1>2, <1>3, <1>4 DEF ActOk
<1>6. ActSized(a)
  BY <1>1, <1>2 DEF ActSized
<1>7. Fresh(a, k, name, reads)
  BY <1>2, <1>4, <1>5, <1>6 DEF Fresh
<1> QED
  BY <1>7 DEF a

LEMMA UnsizedIs ==
  ASSUME NEW k \in {"array", "switch", "cond"}, NEW name \in FieldNames, NEW lens, NEW reads, ReadsOk(reads),
         NEW const, Const01(const), NEW arms, NEW cases
  PROVE  Fresh(Activation(k, name, lens, reads, const, arms, cases), k, name, reads)
<1> DEFINE a == Activation(k, name, lens, reads, const, arms, cases)
<1>1. [a EXCEPT !.sized = FALSE] = a
  <2>1. a.sized = FALSE /\ a = [y \in DOMAIN a |-> a[y]]
    BY DEF Activation
  <2> HIDE DEF a
  <2> QED
    BY <2>1
<1>2. Fresh([a EXCEPT !.sized = FALSE], k, name, reads)
  BY FreshIs
<1> QED
  BY <1>1, <1>2

\* The opening half of an activation.
LEMMA OpenOk ==
  ASSUME NEW ss, NEW td, NEW lev, NEW dp, Good(ss, td, lev, {}, {}, dp), NEW x, Ready(ss, td, lev, x),
         NEW a, NEW k, NEW name, Fresh(a, k, name, x.reads), k # "fields", Top(td).k # "nest",
         FreeFor(ss, td, name)
  PROVE  /\ Good(x.ss, Append(td, a), AsTop(lev, Len(td) + 1, Len(ss)), {}, {}, dp)
         /\ Len(x.ss) = Len(ss) /\ Top(Append(td, a)) = a
<1> DEFINE E == {}
           Y == Aims(Len(ss), x.reads)
<1>0. Good(ss, td, lev, E, E, dp) /\ SinceAll(ss, td, lev, E, x.ss, Y)
  BY DEF Ready
<1> HIDE DEF E, Y
<1>1. Good(x.ss, td, lev, E \cup Y, E, dp) /\ Len(x.ss) = Len(ss) /\ SameNames(x.ss, ss)
  BY <1>0, GoodSince
<1>2. ActOk(a) /\ ActSized(a) /\ a.k = k /\ a.name = name /\ ActReads(a) = x.reads /\ DoneFrames(a) = {}
  BY DEF Fresh
<1>3. Rise(Len(x.ss), DoneFrames(a)) = {}
  BY <1>2 DEF Rise
<1>4. E \cup Rise(Len(x.ss), DoneFrames(a)) = E /\ E \cup Aims(Len(x.ss), ActReads(a)) = E \cup Y
  BY <1>1, <1>2, <1>3 DEF Y
<1>5. Good(x.ss, td, lev, E \cup Aims(Len(x.ss), ActReads(a)), E \cup Rise(Len(x.ss), DoneFrames(a)), dp)
  BY <1>1, <1>4
<1>6. \A n \in a.name : Position(Top(x.ss), n) = {} /\ Top(td).k = "fields"
  BY <1>1, <1>2 DEF SameNames, FreeFor
<1>7. Good(x.ss, Append(td, a), AsTop(lev, Len(td) + 1, Len(x.ss)), E, E, dp)
  BY <1>2, <1>5, <1>6, GoodPush
<1>8. Top(Append(td, a)) = a
  <2>1. Stack(td)
    BY <1>0, TopIn DEF Good
  <2> QED
    BY <2>1, StackPush DEF Top
<1> QED
  BY <1>1, <1>7, <1>8 DEF E

\* What opening needs of the state: the scope on top has no field of the name.
LEMMA Opened ==
  ASSUME NEW name, NEW ty, NEW t, CompilerInv, Opening(name, ty, t), Nameable(name, ty)
  PROVE  /\ mode = "run" /\ got = {} /\ Top(todo).k # "nest" /\ ty.t = t
         /\ FreeFor(scopes, todo, name)
         /\ \E lev : Good(scopes, todo, lev, {}, {}, deepest)
<1>1. mode = "run" /\ ty.t = t /\ (Top(todo).k = "fields" \/ (name = {} /\ Top(todo).k # "fields"))
  BY DEF Opening, AtField, AtElem
<1>2. got = {} /\ Running(scopes, todo, deepest)
  BY <1>1 DEF CompilerInv
<1>3. FreeFor(scopes, todo, name)
  BY <1>1 DEF Nameable, NameOk, FreeFor
<1> QED
  BY <1>1, <1>2, <1>3 DEF Running

\* An activation waits for the types inside it.
LEMMA WaitOk ==
  ASSUME NEW name \in FieldNames, NEW ty, NEW t, CompilerInv, Opening(name, ty, t), Nameable(name, ty),
         NEW x, \A lev : Good(scopes, todo, lev, {}, {}, deepest) => Ready(scopes, todo, lev, x),
         NEW a, NEW k \in {"array", "switch", "cond"}, Fresh(a, k, name, x.reads), Wait(x.ss, a)
  PROVE  CompilerInv'
<1>1. mode = "run" /\ got = {} /\ Top(todo).k # "nest" /\ FreeFor(scopes, todo, name) /\ k # "fields"
  BY Opened
<1>2. PICK lev : Good(scopes, todo, lev, {}, {}, deepest)
  BY Opened
<1>3. Ready(scopes, todo, lev, x)
  BY <1>2
<1>4. /\ Good(x.ss, Append(todo, a), AsTop(lev, Len(todo) + 1, Len(scopes)), {}, {}, deepest)
      /\ Top(Append(todo, a)) = a
  <2>1. Good(x.ss, Append(todo, a), AsTop(lev, Len(todo) + 1, Len(scopes)), {}, {}, deepest)
    BY <1>1, <1>2, <1>3, OpenOk
  <2>2. Stack(todo)
    BY <1>2, TopIn DEF Good
  <2>3. Top(Append(todo, a)) = a
    BY <2>2, StackPush DEF Top
  <2> QED
    BY <2>1, <2>3
<1>5. scopes' = x.ss /\ todo' = Append(todo, a) /\ mode' = mode /\ got' = got /\ deepest' = deepest
  BY DEF Wait
<1>6. Top(todo').k # "nest"
  BY <1>4, <1>5 DEF Fresh
<1>7. Running(scopes', todo', deepest')
  BY <1>4, <1>5, <1>6 DEF Running
<1> QED
  BY <1>1, <1>5, <1>7 DEF CompilerInv

\* The states of a "fields" activation on top of one that waits for its program.
LEMMA StackTwo ==
  ASSUME NEW s, Stack(s), NEW x, NEW y
  PROVE  s \o <<x, y>> = Append(Append(s, x), y)
<1> DEFINE S == Range(s) \cup {x, y}
<1>1. s \in Seq(S) /\ x \in S /\ y \in S
  BY SeqMonotonic DEF Stack
<1> HIDE DEF S
<1> QED
  BY <1>1

LEMMA OpenStructOk ==
  ASSUME NEW name \in FieldNames, NEW ty \in Types, CompilerInv, OpenStruct(name, ty)
  PROVE  CompilerInv'
<1> DEFINE sizes == IF ty.size = {} THEN {[ss |-> scopes, lens |-> {}, reads |-> {}, const |-> {}]}
                    ELSE {l \in BuildLen(scopes, The(ty.size)) : ~l.greedy}
           act(l) == [Activation("nest", name, l.lens, l.reads, l.const, 0, 0) EXCEPT !.sized = ty.size # {}]
<1>1. CASE Wrong
  BY <1>1, WrongOk
<1>2. CASE \E l \in sizes :
              /\ Nameable(name, ty)
              /\ scopes' = Append(l.ss, NewScope)
              /\ todo' = todo \o <<act(l), Fields>>
              /\ deepest' = Max({deepest, Len(scopes) + 1})
              /\ UNCHANGED <<mode, got>>
  <2>1. PICK l \in sizes :
              /\ Nameable(name, ty)
              /\ scopes' = Append(l.ss, NewScope)
              /\ todo' = todo \o <<act(l), Fields>>
              /\ deepest' = Max({deepest, Len(scopes) + 1})
              /\ mode' = mode /\ got' = got
    BY <1>2
  <2>2. Opening(name, ty, "Struct")
    BY DEF OpenStruct
  <2>3. mode = "run" /\ got = {} /\ Top(todo).k # "nest" /\ ty.t = "Struct" /\ FreeFor(scopes, todo, name)
    BY <2>1, <2>2, Opened
  <2>4. PICK lev : Good(scopes, todo, lev, {}, {}, deepest)
    BY <2>1, <2>2, Opened
  <2>5. Ready(scopes, todo, lev, l) /\ Const01(l.const) /\ (l.const # {} => ty.size # {})
    <3>1. CASE ty.size = {}
      <4>1. l.ss = scopes /\ l.reads = {} /\ l.const = {}
        BY <2>1, <3>1
      <4> QED
        BY <4>1, <2>4, NoneReady DEF Const01
    <3>2. CASE ty.size # {}
      <4>1. l \in BuildLen(scopes, The(ty.size))
        BY <2>1, <3>2
      <4>2. Described(The(ty.size))
        BY <2>3, <3>2, TheOne, TypesAssumption
      <4> QED
        BY <4>1, <4>2, <3>2, <2>4, LenReady
    <3> QED
      BY <3>1, <3>2
  <2>6. ReadsOk(l.reads)
    BY <2>5 DEF Ready
  <2> DEFINE sized == ty.size # {}
  <2>7. Fresh(act(l), "nest", name, l.reads)
    <3>1. l.const # {} => sized = TRUE
      BY <2>5
    <3> HIDE DEF sized
    <3>2. Fresh([Activation("nest", name, l.lens, l.reads, l.const, 0, 0) EXCEPT !.sized = sized], "nest", name, l.reads)
      BY <3>1, <2>5, <2>6, FreshIs
    <3> QED
      BY <3>2 DEF sized
  <2> HIDE DEF act, sizes
  <2> DEFINE a == act(l)
             lev2 == AsTop(lev, Len(todo) + 1, Len(scopes))
             td2 == Append(todo, a)
  <2>8. Stack(todo)
    BY <2>4, TopIn DEF Good
  <2>9. todo' = Append(td2, Fields) /\ Top(td2) = a /\ Top(todo').k = "fields"
    <3>1. todo' = Append(td2, Fields)
      BY <2>1, <2>8, StackTwo
    <3>2. Stack(td2) /\ Top(td2) = a
      BY <2>8, StackPush DEF Top
    <3>3. Top(Append(td2, Fields)) = Fields
      BY <3>2, StackPush DEF Top
    <3> QED
      BY <3>1, <3>2, <3>3, FieldsOk
  <2>10. Good(l.ss, td2, lev2, {}, {}, deepest)
    BY <2>3, <2>4, <2>5, <2>7, OpenOk
  <2>11. Len(l.ss) = Len(scopes)
    <3>1. SinceAll(scopes, todo, lev, {}, l.ss, Aims(Len(scopes), l.reads))
      BY <2>5 DEF Ready
    <3> QED
      BY <3>1 DEF SinceAll, Since, SameScopes
  <2>12. Top(td2).k = "nest"
    BY <2>7, <2>9 DEF Fresh
  <2> HIDE DEF td2, lev2
  <2> DEFINE lev3 == AsTop(lev2, Len(td2) + 1, Len(l.ss) + 1)
  <2>13. Good(Append(l.ss, NewScope), Append(td2, Fields), lev3, {}, {}, Max({deepest, Len(l.ss) + 1}))
    BY <2>10, <2>12, GoodNest
  <2>14. Good(scopes', todo', lev3, {}, {}, deepest')
    BY <2>1, <2>9, <2>11, <2>13
  <2> QED
    BY <2>1, <2>3, <2>9, <2>14 DEF CompilerInv, Running
<1> QED
  BY <1>1, <1>2 DEF OpenStruct

LEMMA OpenArrayOk ==
  ASSUME NEW name \in FieldNames, NEW ty \in Types, CompilerInv, OpenArray(name, ty)
  PROVE  CompilerInv'
<1> DEFINE none == [ss |-> scopes, lens |-> {}, reads |-> {}, const |-> {}]
           counts == CASE ty.count # {} /\ ~ty.until_eof -> BuildLen(scopes, The(ty.count))
                       [] ty.count = {} /\ ty.until_eof -> {none}
                       [] OTHER -> {}
           act(l) == Activation("array", name, l.lens, l.reads, l.const, 1, 0)
<1>1. CASE Wrong
  BY <1>1, WrongOk
<1>2. CASE \E l \in counts : Nameable(name, ty) /\ Wait(l.ss, act(l))
  <2>1. PICK l \in counts : Nameable(name, ty) /\ Wait(l.ss, act(l))
    BY <1>2
  <2>2. Opening(name, ty, "Array")
    BY DEF OpenArray
  <2>3. ty.t = "Array"
    BY <2>2 DEF Opening
  <2>4. (ty.count # {} /\ l \in BuildLen(scopes, The(ty.count))) \/ l = none
    BY <2>1
  <2>5. ASSUME NEW lev, Good(scopes, todo, lev, {}, {}, deepest)
        PROVE  Ready(scopes, todo, lev, l) /\ Const01(l.const)
    <3>1. CASE l = none
      <4>1. l.ss = scopes /\ l.reads = {} /\ l.const = {}
        BY <3>1
      <4> QED
        BY <4>1, <2>5, NoneReady DEF Const01
    <3>2. CASE ty.count # {} /\ l \in BuildLen(scopes, The(ty.count))
      <4>1. Described(The(ty.count))
        BY <2>3, <3>2, TheOne, TypesAssumption
      <4> QED
        BY <4>1, <3>2, <2>5, LenReady
    <3> QED
      BY <2>4, <3>1, <3>2
  <2>6. ReadsOk(l.reads) /\ Const01(l.const)
    <3>1. PICK lev : Good(scopes, todo, lev, {}, {}, deepest)
      BY <2>1, <2>2, Opened
    <3> QED
      BY <2>5, <3>1 DEF Ready
  <2>7. Fresh(act(l), "array", name, l.reads)
    BY <2>6, UnsizedIs
  <2> HIDE DEF act, counts, none
  <2> QED
    BY <2>1, <2>2, <2>5, <2>7, WaitOk
<1> QED
  BY <1>1, <1>2 DEF OpenArray

LEMMA OpenSwitchOk ==
  ASSUME NEW name \in FieldNames, NEW ty \in Types, CompilerInv, OpenSwitch(name, ty)
  PROVE  CompilerInv'
<1> DEFINE arms == Len(ty.tags) + (IF ty.default THEN 1 ELSE 0)
           ons == IF arms > 0 /\ IsInjective(ty.tags) THEN EmitExpr(scopes, ty.on, "On") ELSE {}
           act(x) == Activation("switch", name, {}, x.reads, {}, arms, Len(ty.tags))
<1>1. CASE Wrong
  BY <1>1, WrongOk
<1>2. CASE \E x \in ons : Nameable(name, ty) /\ Wait(x.ss, act(x))
  <2>1. PICK x \in ons : Nameable(name, ty) /\ Wait(x.ss, act(x))
    BY <1>2
  <2>2. Opening(name, ty, "Switch")
    BY DEF OpenSwitch
  <2>3. ty.t = "Switch"
    BY <2>2 DEF Opening
  <2>4. x \in EmitExpr(scopes, ty.on, "On") /\ Described(ty.on)
    BY <2>1, <2>3, TypesAssumption
  <2>5. ASSUME NEW lev, Good(scopes, todo, lev, {}, {}, deepest)
        PROVE  Ready(scopes, todo, lev, x)
    BY <2>4, <2>5, ExprReady
  <2>6. ReadsOk(x.reads)
    <3>1. PICK lev : Good(scopes, todo, lev, {}, {}, deepest)
      BY <2>1, <2>2, Opened
    <3> QED
      BY <2>5, <3>1 DEF Ready
  <2>7. Fresh(act(x), "switch", name, x.reads)
    BY <2>6, UnsizedIs DEF Const01
  <2> HIDE DEF act, ons, arms
  <2> QED
    BY <2>1, <2>2, <2>5, <2>7, WaitOk
<1> QED
  BY <1>1, <1>2 DEF OpenSwitch

LEMMA OpenCondOk ==
  ASSUME NEW name \in FieldNames, NEW ty \in Types, CompilerInv, OpenCond(name, ty)
  PROVE  CompilerInv'
<1> DEFINE act(x) == Activation("cond", name, {}, x.reads, {}, 1, 0)
<1>1. CASE Wrong
  BY <1>1, WrongOk
<1>2. CASE \E x \in EmitExpr(scopes, ty.pred, "Pred") : NameOk(name, ty) /\ Wait(x.ss, act(x))
  <2>1. PICK x \in EmitExpr(scopes, ty.pred, "Pred") : NameOk(name, ty) /\ Wait(x.ss, act(x))
    BY <1>2
  <2>2. Opening(name, ty, "Cond") /\ ty.t = "Cond" /\ Nameable(name, ty)
    BY <2>1 DEF OpenCond, Opening, Nameable
  <2>4. Described(ty.pred)
    BY <2>2, TypesAssumption
  <2>5. ASSUME NEW lev, Good(scopes, todo, lev, {}, {}, deepest)
        PROVE  Ready(scopes, todo, lev, x)
    BY <2>1, <2>4, <2>5, ExprReady
  <2>6. ReadsOk(x.reads)
    <3>1. PICK lev : Good(scopes, todo, lev, {}, {}, deepest)
      BY <2>2, Opened
    <3> QED
      BY <2>5, <3>1 DEF Ready
  <2>7. Fresh(act(x), "cond", name, x.reads)
    BY <2>6, UnsizedIs DEF Const01
  <2> HIDE DEF act
  <2> QED
    BY <2>1, <2>2, <2>5, <2>7, WaitOk
<1> QED
  BY <1>1, <1>2 DEF OpenCond

\* Of the depths in hand, only the greatest counts.
LEMMA HandMax ==
  ASSUME NEW ss, NEW td, NEW lev, NEW X, NEW H, NEW h \in H, NEW dp, Good(ss, td, lev, X, H, dp), \A x \in H : x <= h
  PROVE  Good(ss, td, lev, X, {h}, dp)
<1>1. /\ Depths(ss, td, lev) \cup H \subseteq Nat /\ dp \in Depths(ss, td, lev) \cup H
      /\ \A x \in Depths(ss, td, lev) \cup H : x <= dp
  BY DEF Good, Peak
<1>2. h \in Nat /\ dp \in Nat /\ h <= dp
  BY <1>1
<1>3. dp \in Depths(ss, td, lev) \cup {h}
  <2>1. CASE dp \in H
    BY <2>1, <1>2
  <2> QED
    BY <2>1, <1>1
<1>4. Depths(ss, td, lev) \cup {h} \subseteq Nat /\ \A x \in Depths(ss, td, lev) \cup {h} : x <= dp
  BY <1>1, <1>2
<1> QED
  BY <1>3, <1>4 DEF Good, Peak

\* The element, branch or field is taken in.
TakenIn(a, op) == [a EXCEPT !.done = Append(@, op)]
WithDone(a, b, op) ==
  /\ ActOk(b) /\ ActSized(b) /\ b.k = a.k /\ b.name = a.name /\ b.done = Append(a.done, op)
  /\ ActReads(b) = ActReads(a) \cup op.reads /\ DoneFrames(b) = DoneFrames(a) \cup {op.frames}
  /\ 1 \in DOMAIN b.done /\ \A i \in DOMAIN b.done : Sized(b.done[i])
  /\ b.reads = a.reads /\ b.const = a.const
LEMMA TakenInOk ==
  ASSUME NEW a, ActOk(a), ActSized(a), a.k \notin {"fields", "nest"}, NEW op, OpOk(op)
  PROVE  WithDone(a, TakenIn(a, op), op)
<1> DEFINE done2 == Append(a.done, op)
           b == [a EXCEPT !.done = done2]
<1>1. DOMAIN a = ActFields /\ Stack(a.done) /\ ReadsOk(ActReads(a)) /\ ReadsOk(op.reads) /\ Sized(op)
  BY DEF ActOk, OpOk
<1>2. /\ Stack(done2) /\ Len(a.done) \in Nat /\ DOMAIN a.done = 1 .. Len(a.done)
      /\ DOMAIN done2 = 1 .. (Len(a.done) + 1)
      /\ \A i \in 1 .. Len(a.done) : done2[i] = a.done[i]
      /\ done2[Len(a.done) + 1] = op
  BY <1>1, StackPush
<1> HIDE DEF done2
<1>3. /\ DOMAIN b = ActFields /\ b.done = done2 /\ b.k = a.k /\ b.name = a.name /\ b.reads = a.reads
      /\ b.const = a.const /\ b.sized = a.sized
  BY <1>1 DEF ActFields
<1> HIDE DEF b
<1>4. DOMAIN done2 = DOMAIN a.done \cup {Len(a.done) + 1} /\ 1 \in DOMAIN done2
  BY <1>2
<1>5. \A i \in DOMAIN a.done : done2[i] = a.done[i]
  BY <1>2
<1>6. ActReads(b) = ActReads(a) \cup op.reads
  <2>1. UNION {done2[i].reads : i \in DOMAIN done2} = (UNION {a.done[i].reads : i \in DOMAIN a.done}) \cup op.reads
    BY <1>2, <1>4, <1>5
  <2> QED
    BY <2>1, <1>3 DEF ActReads
<1>7. DoneFrames(b) = DoneFrames(a) \cup {op.frames}
  BY <1>2, <1>3, <1>4, <1>5 DEF DoneFrames
<1>8. ReadsOk(ActReads(b))
  BY <1>1, <1>6 DEF ReadsOk
<1>9. ActOk(b)
  BY <1>2, <1>3, <1>8 DEF ActOk
<1>10. \A i \in DOMAIN done2 : Sized(done2[i])
  BY <1>1, <1>2, <1>4, <1>5 DEF ActSized
<1>11. ActSized(b)
  BY <1>3, <1>10 DEF ActSized
<1>12. b = TakenIn(a, op)
  BY DEF b, TakenIn, done2
<1> QED
  BY <1>3, <1>4, <1>6, <1>7, <1>9, <1>10, <1>11, <1>12 DEF done2, WithDone

\* Sizes of what has opcodes inside.
LEMMA InsideSized ==
  ASSUME NEW a, Const01(a.const), a.k \in {"array", "switch", "cond"},
         NEW done, 1 \in DOMAIN done, \A i \in DOMAIN done : Sized(done[i])
  PROVE  SizeMin(a, done) \in Nat /\ SizeStatic(a, done) \subseteq {SizeMin(a, done)}
<1>1. \A i \in DOMAIN done : done[i].min \in Nat /\ done[i].static \subseteq {done[i].min}
  BY DEF Sized
<1>2. CASE a.k = "array"
  <2>1. CASE a.const = {}
    BY <2>1, <1>2 DEF SizeMin, SizeStatic
  <2>2. CASE \E n \in Nat : a.const = {n}
    <3>1. PICK n \in Nat : a.const = {n}
      BY <2>2
    <3>2. SizeMin(a, done) = n * done[1].min
      BY <3>1, <1>2, TheOnly DEF SizeMin
    <3>3. SizeStatic(a, done) = {n * m : m \in done[1].static}
      BY <3>1, <1>2 DEF SizeStatic
    <3>4. done[1].min \in Nat /\ done[1].static \subseteq {done[1].min}
      BY <1>1
    <3>5. n * done[1].min \in Nat
      BY <3>4
    <3> QED
      BY <3>2, <3>3, <3>4, <3>5
  <2> QED
    BY <2>1, <2>2 DEF Const01
<1>3. CASE a.k = "switch"
  <2> DEFINE S == {done[i].min : i \in DOMAIN done}
  <2>1. S \in SUBSET Nat /\ S # {}
    BY <1>1
  <2>2. SizeMin(a, done) = Min(S)
    BY <1>3 DEF SizeMin
  <2>3. Min(S) \in S
    <3>1. \E n \in S : \A m \in S : n <= m
      BY <2>1, LeastNat
    <3> HIDE DEF S
    <3> QED
      BY <3>1 DEF Min
  <2>4. Min(S) \in Nat
    BY <2>1, <2>3
  <2>5. PICK k \in DOMAIN done : Min(S) = done[k].min
    BY <2>3
  <2> HIDE DEF S
  <2>6. SizeStatic(a, done) = {} \/ SizeStatic(a, done) = done[k].static
    BY <1>3 DEF SizeStatic
  <2> QED
    BY <1>1, <2>2, <2>4, <2>5, <2>6
<1>4. CASE a.k = "cond"
  BY <1>4 DEF SizeMin, SizeStatic
<1> QED
  BY <1>2, <1>3, <1>4

LEMMA AimsCup ==
  ASSUME NEW n, NEW R, NEW S
  PROVE  Aims(n, R \cup S) = Aims(n, R) \cup Aims(n, S)
  BY DEF Aims

LEMMA RiseCup ==
  ASSUME NEW n, NEW F, NEW G
  PROVE  Rise(n, F \cup G) = Rise(n, F) \cup Rise(n, G)
  BY DEF Rise

\* In place of the top.
LEMMA TopAnew ==
  ASSUME NEW s, Stack(s), s # <<>>, NEW x
  PROVE  SetTop(s, x) = Append(Front(s), x) /\ Top(Append(Front(s), x)) = x
<1>1. s \in Seq(Range(s) \cup {x}) /\ x \in Range(s) \cup {x}
  BY SeqMonotonic DEF Stack
<1>2. /\ Len(s) \in Nat /\ Len(s) >= 1 /\ DOMAIN s = 1 .. Len(s)
      /\ DOMAIN Append(Front(s), x) = 1 .. Len(s) /\ Len(Append(Front(s), x)) = Len(s)
      /\ \A i \in 1 .. (Len(s) - 1) : Append(Front(s), x)[i] = s[i]
      /\ Append(Front(s), x)[Len(s)] = x
      /\ Stack(Append(Front(s), x))
  BY StackPop, StackReplace
<1>3. SetTop(s, x) = Put(s, Len(s), x)
  BY DEF SetTop, Put
<1>4. Len(s) \in DOMAIN s
  <2> DEFINE n == Len(s)
  <2>1. n \in Nat /\ n >= 1 /\ DOMAIN s = 1 .. n
    BY <1>2
  <2> HIDE DEF n
  <2>2. n \in DOMAIN s
    BY <2>1
  <2> QED
    BY <2>2 DEF n
<1>5. /\ Stack(SetTop(s, x)) /\ DOMAIN SetTop(s, x) = 1 .. Len(s) /\ SetTop(s, x)[Len(s)] = x
      /\ \A i \in 1 .. Len(s) : i # Len(s) => SetTop(s, x)[i] = s[i]
  <2>1. /\ Stack(Put(s, Len(s), x)) /\ DOMAIN Put(s, Len(s), x) = DOMAIN s /\ Put(s, Len(s), x)[Len(s)] = x
        /\ \A i \in DOMAIN s : i # Len(s) => Put(s, Len(s), x)[i] = s[i]
    BY <1>4, StackPut
  <2> QED
    BY <2>1, <1>2, <1>3
<1> DEFINE p == SetTop(s, x)
           q == Append(Front(s), x)
<1>6. p = [i \in 1 .. Len(s) |-> p[i]] /\ q = [i \in 1 .. Len(s) |-> q[i]]
  <2>1. \A t : Stack(t) => t = [i \in DOMAIN t |-> t[i]]
    BY DEF Stack
  <2> QED
    BY <1>2, <1>5, <2>1
<1>7. \A i \in 1 .. Len(s) : p[i] = q[i]
  BY <1>2, <1>5, TopOrBelow
<1> HIDE DEF p, q
<1>8. p = q
  BY <1>6, <1>7
<1> QED
  BY <1>2, <1>8 DEF p, q, Top

\* What is handed over, and the activation it is handed to.
LEMMA Handed ==
  ASSUME CompilerInv, mode = "ret", Top(todo).k # "nest"
  PROVE  \E op, lev :
           /\ got = {op} /\ OpOk(op)
           /\ Good(scopes, Front(todo), lev, Aims(Len(scopes), ActReads(TakenIn(Top(todo), op))),
                   Rise(Len(scopes), DoneFrames(TakenIn(Top(todo), op))), deepest)
           /\ WithDone(Top(todo), TakenIn(Top(todo), op), op) /\ Top(todo).k \in {"array", "switch", "cond"}
           /\ Top(Front(todo)).k # "nest" /\ FreeFor(scopes, Front(todo), Top(todo).name)
           /\ Stack(todo) /\ todo # <<>> /\ ActOk(Top(todo))
<1> DEFINE a == Top(todo)
           n == Len(scopes)
<1>1. PICK op : got = {op} /\ Waiting(scopes, todo, op, deepest)
  BY DEF CompilerInv, Built
<1>2. PICK lev : Good(scopes, todo, lev, Aims(n, op.reads), {n + op.frames}, deepest)
  BY <1>1 DEF Waiting
<1>3. OpOk(op) /\ a.k \notin {"fields", "nest"}
  BY <1>1 DEF Waiting
<1>4. /\ Good(scopes, Front(todo), lev, Aims(n, op.reads) \cup Aims(n, ActReads(a)),
              {n + op.frames} \cup Rise(n, DoneFrames(a)), deepest)
      /\ ActOk(a) /\ ActSized(a) /\ Top(Front(todo)).k # "nest" /\ FreeFor(scopes, Front(todo), a.name)
  BY <1>2, <1>3, GoodPop
<1> HIDE DEF a
<1>5. WithDone(a, TakenIn(a, op), op)
  BY <1>3, <1>4, TakenInOk
<1>6. /\ ActReads(TakenIn(a, op)) = ActReads(a) \cup op.reads
      /\ DoneFrames(TakenIn(a, op)) = DoneFrames(a) \cup {op.frames}
  BY <1>5 DEF WithDone
<1>7. Aims(n, ActReads(TakenIn(a, op))) = Aims(n, op.reads) \cup Aims(n, ActReads(a))
  BY <1>6, AimsCup
<1>8. Rise(n, DoneFrames(TakenIn(a, op))) = {n + op.frames} \cup Rise(n, DoneFrames(a))
  BY <1>6 DEF Rise
<1>9. a.k \in {"array", "switch", "cond"}
  BY <1>3, <1>4 DEF ActOk
<1>10. Stack(todo) /\ todo # <<>>
  BY <1>2, TopIn DEF Good, Level
<1>11. Good(scopes, Front(todo), lev, Aims(n, ActReads(TakenIn(a, op))), Rise(n, DoneFrames(TakenIn(a, op))), deepest)
  BY <1>4, <1>7, <1>8
<1> QED
  BY <1>1, <1>3, <1>4, <1>5, <1>9, <1>10, <1>11 DEF a

\* The next type inside is compiled.
LEMMA TakeMore ==
  ASSUME NEW ss, NEW rest, NEW lev, NEW b, NEW dp,
         Good(ss, rest, lev, Aims(Len(ss), ActReads(b)), Rise(Len(ss), DoneFrames(b)), dp),
         ActOk(b), ActSized(b), b.k \notin {"fields", "nest"}, Top(rest).k # "nest", FreeFor(ss, rest, b.name)
  PROVE  \E lev2 : Good(ss, Append(rest, b), lev2, {}, {}, dp)
<1> DEFINE E == {}
           X == Aims(Len(ss), ActReads(b))
           H == Rise(Len(ss), DoneFrames(b))
<1>1. E \cup X = X /\ E \cup H = H
  OBVIOUS
<1> HIDE DEF E, X, H
<1>2. Good(ss, rest, lev, E \cup X, E \cup H, dp)
  BY <1>1 DEF X, H
<1>3. \A n \in b.name : Position(Top(ss), n) = {} /\ Top(rest).k = "fields"
  BY DEF FreeFor
<1>4. Good(ss, Append(rest, b), AsTop(lev, Len(rest) + 1, Len(ss)), E, E, dp)
  BY <1>2, <1>3, GoodPush DEF X, H
<1> QED
  BY <1>4 DEF E

LEMMA DepthOf ==
  ASSUME NEW ss, NEW rest, NEW lev, NEW X, NEW F, NEW dp, Good(ss, rest, lev, X, Rise(Len(ss), F), dp),
         F # {}, F \subseteq Nat
  PROVE  Max(F) \in Nat /\ Good(ss, rest, lev, X, {Len(ss) + Max(F)}, dp)
<1> DEFINE n == Len(ss)
           H == Rise(n, F)
           h == n + Max(F)
<1>1. n \in Nat
  BY TopIn DEF Good
<1>2. dp \in Nat /\ \A f \in F : n + f <= dp
  BY DEF Good, Peak, Rise
<1>3. \A f \in F : f <= dp
  BY <1>1, <1>2
<1>4. Max(F) \in F /\ \A f \in F : f <= Max(F)
  BY <1>2, <1>3, MaxIs
<1>5. Max(F) \in Nat
  BY <1>4
<1>6. h \in H
  BY <1>4 DEF Rise
<1>7. \A x \in H : x <= h
  BY <1>1, <1>4, <1>5 DEF Rise
<1> HIDE DEF H, h
<1>8. Good(ss, rest, lev, X, {h}, dp)
  BY <1>6, <1>7, HandMax DEF H
<1> QED
  BY <1>5, <1>8 DEF h

LEMMA TakeElemOk == ASSUME CompilerInv, TakeElem PROVE CompilerInv'
<1> DEFINE a == Top(todo)
           done == a.done \o <<The(got)>>
           op == Op(OpName[a.k],
                    a.lens \cup UNION {done[i].lens : i \in DOMAIN done},
                    a.reads \cup UNION {done[i].reads : i \in DOMAIN done},
                    SizeMin(a, done), SizeStatic(a, done), Depth(a, done))
           own == IF a.k = "array" THEN a.reads ELSE {}
<1>1. mode = "ret" /\ a.k # "nest"
  BY DEF TakeElem
<1>2. PICK op0, lev :
           /\ got = {op0} /\ OpOk(op0)
           /\ Good(scopes, Front(todo), lev, Aims(Len(scopes), ActReads(TakenIn(a, op0))),
                   Rise(Len(scopes), DoneFrames(TakenIn(a, op0))), deepest)
           /\ WithDone(a, TakenIn(a, op0), op0) /\ a.k \in {"array", "switch", "cond"}
           /\ Top(Front(todo)).k # "nest" /\ FreeFor(scopes, Front(todo), a.name)
           /\ Stack(todo) /\ todo # <<>> /\ ActOk(a)
  BY <1>1, Handed
<1> DEFINE b == TakenIn(a, op0)
<1>3. The(got) = op0
  BY <1>2, TheOnly
<1>4. /\ ActOk(b) /\ ActSized(b) /\ b.k = a.k /\ b.name = a.name /\ b.reads = a.reads /\ b.const = a.const
      /\ b.done = Append(a.done, op0) /\ 1 \in DOMAIN b.done /\ \A i \in DOMAIN b.done : Sized(b.done[i])
  BY <1>2 DEF WithDone
<1>5. done = b.done /\ b = [a EXCEPT !.done = done]
  <2>1. Stack(a.done)
    BY <1>2 DEF ActOk
  <2>2. \A x : a.done \o <<x>> = Append(a.done, x)
    <3> TAKE x
    <3>1. a.done \in Seq(Range(a.done) \cup {x}) /\ x \in Range(a.done) \cup {x}
      BY <2>1, SeqMonotonic DEF Stack
    <3> QED
      BY <3>1
  <2> QED
    BY <1>3, <1>4, <2>2 DEF TakenIn
<1> HIDE DEF b, done
<1>6. CASE /\ todo' = SetTop(todo, [a EXCEPT !.done = done])
           /\ mode' = "run" /\ got' = {}
           /\ UNCHANGED <<scopes, deepest>>
  <2>1. todo' = Append(Front(todo), b) /\ Top(todo') = b
    <3>1. todo' = SetTop(todo, b)
      BY <1>5, <1>6
    <3> QED
      BY <3>1, <1>2, TopAnew
  <2>2. b.k \notin {"fields", "nest"}
    BY <1>2, <1>4
  <2>3. \E lev2 : Good(scopes, Append(Front(todo), b), lev2, {}, {}, deepest)
    BY <1>2, <1>4, <2>2, TakeMore DEF b
  <2>4. Running(scopes', todo', deepest')
    BY <1>6, <2>1, <2>2, <2>3 DEF Running
  <2> QED
    BY <1>6, <2>4 DEF CompilerInv
<1>7. CASE Finish(scopes, Front(todo), a.name, Reading(op, own), FALSE, a.k # "cond")
  <2>1. /\ SizeMin(b, done) \in Nat /\ SizeStatic(b, done) \subseteq {SizeMin(b, done)}
    <3>1. Const01(b.const) /\ b.k \in {"array", "switch", "cond"}
      BY <1>2, <1>4 DEF ActSized
    <3> QED
      BY <1>4, <1>5, <3>1, InsideSized
  <2>2. SizeMin(a, done) \in Nat /\ SizeStatic(a, done) \subseteq {SizeMin(a, done)}
    BY <1>2, <1>4, <1>5, InsideSized DEF ActSized
  <2> DEFINE reads == a.reads \cup UNION {done[i].reads : i \in DOMAIN done}
             frames == Depth(a, done)
  <2>3. reads = ActReads(b) /\ ReadsOk(reads)
    <3> DEFINE R(d) == UNION {d[i].reads : i \in DOMAIN d}
    <3>1. ActReads(b) = b.reads \cup R(b.done) /\ reads = a.reads \cup R(done)
      BY DEF ActReads
    <3> HIDE DEF R, reads
    <3>2. reads = ActReads(b)
      BY <3>1, <1>4, <1>5
    <3> QED
      BY <3>2, <1>4 DEF ActOk
  <2>4. frames = Max(DoneFrames(b)) /\ DoneFrames(b) # {} /\ DoneFrames(b) \subseteq Nat
    BY <1>4, <1>5 DEF Depth, DoneFrames, Sized
  <2>5. /\ frames \in Nat
        /\ Good(scopes, Front(todo), lev, Aims(Len(scopes), reads), {Len(scopes) + frames}, deepest)
    <3> HIDE DEF reads, frames
    <3>1. Good(scopes, Front(todo), lev, Aims(Len(scopes), reads), Rise(Len(scopes), DoneFrames(b)), deepest)
      BY <1>2, <2>3 DEF b
    <3> QED
      BY <3>1, <2>4, DepthOf
  <2>6. OpName[a.k] \notin {"Fixed", "BitRun"}
    BY <1>2 DEF OpName
  <2> HIDE DEF reads, frames
  <2>7. Made(op, reads, frames)
    BY <2>2, <2>3, <2>5, <2>6, OpIs DEF reads, frames
  <2> DEFINE op2 == Reading(op, own)
  <2> HIDE DEF op, own
  <2>8. Made(op2, reads, frames)
    BY <2>7, ReadingOk
  <2> HIDE DEF op2
  <2>9. OpOk(op2) /\ op2.reads = reads /\ op2.frames = frames
    BY <2>8 DEF Made
  <2>10. Good(scopes, Front(todo), lev, Aims(Len(scopes), op2.reads), {Len(scopes) + op2.frames}, deepest)
    BY <2>5, <2>9
  <2>11. a.name \in FieldNames
    BY <1>4 DEF ActOk
  <2>12. Top(Front(todo)).k = "fields" => \A n \in a.name : Position(Top(scopes), n) = {}
    BY <1>2 DEF FreeFor
  <2> QED
    BY <1>2, <1>7, <2>9, <2>10, <2>11, <2>12, FinishOk DEF op2
<1> QED
  BY <1>6, <1>7 DEF TakeElem, done

\* What a program reads outside it is one level nearer for the structure.
Nearer(R) == {[r EXCEPT !.up = @ - 1] : r \in Outer(R)}
LEMMA NearerOk ==
  ASSUME NEW n \in Nat, NEW R, ReadsOk(R)
  PROVE  ReadsOk(Nearer(R)) /\ Aims(n, Nearer(R)) = Aims(n + 1, Outer(R))
<1> DEFINE near(r) == [r EXCEPT !.up = @ - 1]
<1>1. ASSUME NEW r \in Outer(R)
      PROVE  ReadOk(near(r)) /\ Aim(n, near(r)) = Aim(n + 1, r)
  <2>1. DOMAIN r = ReadFields /\ r.up \in Nat /\ r.up > 0
    BY DEF Outer, ReadsOk, ReadOk
  <2>2. /\ DOMAIN near(r) = ReadFields /\ near(r).up = r.up - 1
        /\ near(r).role = r.role /\ near(r).idx = r.idx /\ near(r).name = r.name
    BY <2>1 DEF ReadFields
  <2> HIDE DEF near
  <2>3. r.up - 1 \in Nat /\ n - (r.up - 1) = (n + 1) - r.up
    BY <2>1
  <2> QED
    BY <2>2, <2>3 DEF ReadOk, Aim
<1>2. Nearer(R) = {near(r) : r \in Outer(R)}
  BY DEF Nearer
<1> HIDE DEF near
<1>3. ReadsOk(Nearer(R))
  BY <1>1, <1>2 DEF ReadsOk
<1>4. \A t : t \in Aims(n, Nearer(R)) <=> t \in Aims(n + 1, Outer(R))
  <2> TAKE t
  <2>1. t \in Aims(n, Nearer(R)) <=> \E r \in Outer(R) : t = Aim(n, near(r))
    BY <1>2 DEF Aims
  <2>2. t \in Aims(n + 1, Outer(R)) <=> \E r \in Outer(R) : t = Aim(n + 1, r)
    BY DEF Aims
  <2> QED
    BY <2>1, <2>2, <1>1
<1> QED
  BY <1>3, <1>4

LEMMA TakeProgOk == ASSUME CompilerInv, TakeProg PROVE CompilerInv'
<1> DEFINE a == Top(todo)
           p == The(got)
           outer == {[r EXCEPT !.up = @ - 1] : r \in {x \in p.reads : x.up > 0}}
           min == IF a.const = {} THEN p.min ELSE The(a.const)
           static == IF a.sized THEN a.const ELSE p.static
           reads == a.reads \cup outer
           op == Op("Nest", a.lens, reads, min, static, p.frames)
           n == Len(scopes)
<1>1. mode = "ret" /\ a.k = "nest"
  BY DEF TakeProg
<1>2. PICK p0 : got = {p0} /\ Built(scopes, todo, p0, deepest)
  BY <1>1 DEF CompilerInv, Waiting
<1>3. p = p0
  BY <1>2, TheOnly
<1> HIDE DEF p
<1>4. ProgOk(p) /\ \E lev : Good(scopes, todo, lev, Aims(n + 1, Outer(p.reads)), {n + p.frames}, deepest)
  BY <1>2, <1>3 DEF Built
<1>5. PICK lev : Good(scopes, todo, lev, Aims(n + 1, Outer(p.reads)), {n + p.frames}, deepest)
  BY <1>4
<1>6. /\ Good(scopes, Front(todo), lev, Aims(n + 1, Outer(p.reads)) \cup Aims(n, ActReads(a)),
              {n + p.frames} \cup Rise(n, DoneFrames(a)), deepest)
      /\ ActOk(a) /\ ActSized(a) /\ Top(Front(todo)).k # "nest" /\ FreeFor(scopes, Front(todo), a.name)
  BY <1>1, <1>5, GoodPop
<1>7. n \in Nat
  BY <1>5, TopIn DEF Good
<1> HIDE DEF a, n
<1>8. a.done = <<>> /\ a.name \in FieldNames /\ ReadsOk(ActReads(a))
  BY <1>1, <1>6 DEF ActOk
<1>9. ActReads(a) = a.reads /\ DoneFrames(a) = {}
  BY <1>8 DEF ActReads, DoneFrames
<1>10. outer = Nearer(p.reads)
  BY DEF Nearer, Outer
<1> HIDE DEF outer
<1>11. ReadsOk(outer) /\ Aims(n, outer) = Aims(n + 1, Outer(p.reads)) /\ ReadsOk(p.reads)
  <2>1. ReadsOk(p.reads)
    BY <1>4 DEF ProgOk, ProgReadsOk
  <2> QED
    BY <2>1, <1>7, <1>10, NearerOk
<1>12. ReadsOk(reads)
  BY <1>8, <1>9, <1>11 DEF ReadsOk
<1>13. Aims(n, reads) = Aims(n + 1, Outer(p.reads)) \cup Aims(n, ActReads(a))
  <2>1. Aims(n, a.reads \cup outer) = Aims(n, a.reads) \cup Aims(n, outer)
    BY AimsCup
  <2> QED
    BY <2>1, <1>9, <1>11
<1>14. {n + p.frames} \cup Rise(n, DoneFrames(a)) = {n + p.frames}
  BY <1>9 DEF Rise
<1>15. min \in Nat /\ static \subseteq {min} /\ p.frames \in Nat
  <2>1. p.min \in Nat /\ p.static \subseteq {p.min} /\ p.frames \in Nat
    BY <1>4 DEF ProgOk
  <2>2. CASE a.const = {}
    BY <2>1, <2>2
  <2>3. CASE \E m \in Nat : a.const = {m}
    <3>1. PICK m \in Nat : a.const = {m}
      BY <2>3
    <3>2. a.sized = TRUE
      BY <3>1, <1>1, <1>6 DEF ActSized
    <3>3. The(a.const) = m
      BY <3>1, TheOnly
    <3> QED
      BY <2>1, <3>1, <3>2, <3>3
  <2> QED
    BY <2>2, <2>3, <1>6 DEF ActSized, Const01
<1> HIDE DEF reads, min, static
<1>16. Made(op, reads, p.frames)
  BY <1>12, <1>15, OpIs
<1> HIDE DEF op
<1> DEFINE op2 == Reading(op, a.reads)
<1>17. Made(op2, reads, p.frames)
  BY <1>16, ReadingOk
<1> HIDE DEF op2
<1>18. OpOk(op2) /\ op2.reads = reads /\ op2.frames = p.frames
  BY <1>17 DEF Made
<1>19. Good(scopes, Front(todo), lev, Aims(n, op2.reads), {n + op2.frames}, deepest)
  BY <1>6, <1>13, <1>14, <1>18
<1>20. CASE Wrong
  BY <1>20, WrongOk
<1>21. CASE Finish(scopes, Front(todo), a.name, op2, FALSE, TRUE)
  <2>1. Top(Front(todo)).k = "fields" => \A x \in a.name : Position(Top(scopes), x) = {}
    BY <1>6 DEF FreeFor
  <2>2. Good(scopes, Front(todo), lev, Aims(Len(scopes), op2.reads), {Len(scopes) + op2.frames}, deepest)
    BY <1>19 DEF n
  <2> QED
    BY <1>6, <1>8, <1>18, <1>21, <2>1, <2>2, FinishOk
<1>22. Wrong \/ Finish(scopes, Front(todo), a.name, op2, FALSE, TRUE)
  BY DEF TakeProg, op2, op, reads, min, static, outer, p, a
<1> QED
  BY <1>20, <1>21, <1>22

-----------------------------------------------------------------------------
(***************************************************************************)
(* The end of a scope: fields are marked as derived, bit runs are sized,   *)
(* spans are given out.  Nothing else changes.                             *)
(***************************************************************************)
EndFields == {"derived", "width", "min", "static", "span", "over"}
OpEnded(op, op2, S) ==
  /\ SameBut(op, op2, {"items"} \cup S) /\ Stack(op2.items) /\ DOMAIN op2.items = DOMAIN op.items
  /\ \A i \in DOMAIN op.items : SameBut(op.items[i], op2.items[i], S)
  /\ op2.op = op.op /\ (op.op = "Fixed" => op2.width = op.width)
  /\ Sized(op) => Sized(op2)
Ended(sc, sc2, S) ==
  /\ SameBut(sc, sc2, {"ops", "syms", "nspans"}) /\ ("span" \notin S => sc2.nspans = sc.nspans)
  /\ Stack(sc2.ops) /\ DOMAIN sc2.ops = DOMAIN sc.ops
  /\ \A o \in DOMAIN sc.ops : OpEnded(sc.ops[o], sc2.ops[o], S)
  /\ Stack(sc2.syms) /\ DOMAIN sc2.syms = DOMAIN sc.syms
  /\ \A p \in DOMAIN sc.syms : SameBut(sc.syms[p], sc2.syms[p], S)

LEMMA EndedSelf ==
  ASSUME NEW sc, ScopeShape(sc), NEW S
  PROVE  Ended(sc, sc, S)
  BY DEF Ended, OpEnded, SameBut, ScopeShape, OpShape

LEMMA SameButMore ==
  ASSUME NEW f, NEW g, NEW h, NEW S, NEW T, SameBut(f, g, S), SameBut(g, h, T)
  PROVE  SameBut(f, h, S \cup T)
  BY DEF SameBut

LEMMA EndedTrans ==
  ASSUME NEW a, NEW b, NEW c, NEW S, NEW T, Ended(a, b, S), Ended(b, c, T)
  PROVE  Ended(a, c, S \cup T)
<1> DEFINE U == S \cup T
<1>1. SameBut(a, c, {"ops", "syms", "nspans"}) /\ ("span" \notin U => c.nspans = a.nspans)
  BY DEF Ended, SameBut
<1>2. DOMAIN c.ops = DOMAIN a.ops /\ DOMAIN c.syms = DOMAIN a.syms /\ Stack(c.ops) /\ Stack(c.syms)
  BY DEF Ended
<1>3. ASSUME NEW o \in DOMAIN a.ops PROVE OpEnded(a.ops[o], c.ops[o], U)
  <2> DEFINE x == a.ops[o]
             y == b.ops[o]
             z == c.ops[o]
  <2>1. OpEnded(x, y, S) /\ OpEnded(y, z, T)
    BY <1>3 DEF Ended
  <2> HIDE DEF x, y, z
  <2>2. SameBut(x, z, {"items"} \cup U)
    <3>1. SameBut(x, z, ({"items"} \cup S) \cup ({"items"} \cup T))
      BY <2>1, SameButMore DEF OpEnded
    <3>2. ({"items"} \cup S) \cup ({"items"} \cup T) = {"items"} \cup U
      OBVIOUS
    <3> HIDE DEF U
    <3>3. SameBut(x, z, {"items"} \cup U)
      BY <3>1, <3>2
    <3> QED
      BY <3>3
  <2>3. DOMAIN y.items = DOMAIN x.items /\ DOMAIN z.items = DOMAIN x.items /\ Stack(z.items)
    BY <2>1 DEF OpEnded
  <2>4. ASSUME NEW i \in DOMAIN x.items PROVE SameBut(x.items[i], z.items[i], U)
    <3>1. SameBut(x.items[i], y.items[i], S) /\ SameBut(y.items[i], z.items[i], T)
      BY <2>1, <2>3, <2>4 DEF OpEnded
    <3> QED
      BY <3>1, SameButMore
  <2>5. z.op = x.op /\ (x.op = "Fixed" => z.width = x.width) /\ (Sized(x) => Sized(z))
    BY <2>1 DEF OpEnded
  <2>6. OpEnded(x, z, U)
    BY <2>2, <2>3, <2>4, <2>5 DEF OpEnded
  <2> QED
    BY <2>6 DEF x, z
<1>4. ASSUME NEW p \in DOMAIN a.syms PROVE SameBut(a.syms[p], c.syms[p], U)
  <2>1. SameBut(a.syms[p], b.syms[p], S) /\ SameBut(b.syms[p], c.syms[p], T)
    BY <1>4 DEF Ended
  <2> QED
    BY <2>1, SameButMore
<1> HIDE DEF U
<1>5. Ended(a, c, U)
  BY <1>1, <1>2, <1>3, <1>4 DEF Ended
<1> QED
  BY <1>5 DEF U

\* What is asked of a scope does not depend on what its end changes.
EndedSame(sc, sc2) ==
  /\ ScopeOk(sc2) /\ ScopeReads(sc2) = ScopeReads(sc) /\ Frames(sc2) = Frames(sc)
  /\ \A n : Position(sc2, n) = Position(sc, n)
  /\ DigestsOk(sc) => DigestsOk(sc2)
  /\ \A o \in DOMAIN sc.ops : \A i \in DOMAIN sc.ops[o].items : RegAt(sc2, o, i) = RegAt(sc, o, i)
  /\ \A p \in DOMAIN sc.syms :
       /\ sc2.syms[p].name = sc.syms[p].name /\ sc2.syms[p].op = sc.syms[p].op /\ sc2.syms[p].item = sc.syms[p].item
       /\ sc2.syms[p].reg = sc.syms[p].reg /\ sc2.syms[p].const = sc.syms[p].const
       /\ sc2.syms[p].len_referenced = sc.syms[p].len_referenced
       /\ sc2.syms[p].used_in_on = sc.syms[p].used_in_on

SameItem(x, y) ==
  /\ ItemShape(y) /\ y.off = x.off /\ y.len = x.len /\ y.prim = x.prim
  /\ y.key = x.key /\ y.const = x.const /\ y.reg = x.reg

LEMMA EndedOk ==
  ASSUME NEW sc, ScopeOk(sc), NEW sc2, NEW S \in SUBSET EndFields, Ended(sc, sc2, S)
  PROVE  EndedSame(sc, sc2)
<1>1. /\ DOMAIN sc = ScopeFields /\ Stack(sc.ops) /\ Stack(sc.syms) /\ Stack(sc.digests)
      /\ \A o \in DOMAIN sc.ops : OpShape(sc.ops[o])
      /\ \A p \in DOMAIN sc.syms : SymShape(sc.syms[p])
  BY DEF ScopeOk, ScopeShape
<1>2. /\ DOMAIN sc2 = ScopeFields /\ sc2.nregs = sc.nregs /\ sc2.digests = sc.digests
      /\ DOMAIN sc2.ops = DOMAIN sc.ops /\ DOMAIN sc2.syms = DOMAIN sc.syms /\ Stack(sc2.ops) /\ Stack(sc2.syms)
  BY <1>1 DEF Ended, SameBut, ScopeFields
<1>3. ASSUME NEW o \in DOMAIN sc.ops
      PROVE  /\ DOMAIN sc2.ops[o] = OpFields /\ Stack(sc2.ops[o].items)
             /\ DOMAIN sc2.ops[o].items = DOMAIN sc.ops[o].items
             /\ sc2.ops[o].op = sc.ops[o].op /\ sc2.ops[o].key = sc.ops[o].key /\ sc2.ops[o].reads = sc.ops[o].reads
             /\ sc2.ops[o].frames = sc.ops[o].frames
             /\ (sc.ops[o].op = "Fixed" => sc2.ops[o].width = sc.ops[o].width)
  <2>1. OpEnded(sc.ops[o], sc2.ops[o], S) /\ DOMAIN sc.ops[o] = OpFields
    BY <1>1, <1>3 DEF Ended, OpShape
  <2> QED
    BY <2>1 DEF OpEnded, SameBut, OpFields, EndFields
<1>4. ASSUME NEW o \in DOMAIN sc.ops, NEW i \in DOMAIN sc.ops[o].items
      PROVE  SameItem(sc.ops[o].items[i], sc2.ops[o].items[i])
  <2> DEFINE x == sc.ops[o].items[i]
             y == sc2.ops[o].items[i]
  <2>1. SameBut(x, y, S) /\ ItemShape(x)
    BY <1>1, <1>4 DEF Ended, OpEnded, OpShape
  <2> QED
    BY <2>1 DEF SameItem, SameBut, ItemShape, ItemFields, EndFields
<1>5. ASSUME NEW p \in DOMAIN sc.syms
      PROVE  /\ SymShape(sc2.syms[p])
             /\ sc2.syms[p].name = sc.syms[p].name /\ sc2.syms[p].op = sc.syms[p].op /\ sc2.syms[p].item = sc.syms[p].item
             /\ sc2.syms[p].reg = sc.syms[p].reg /\ sc2.syms[p].const = sc.syms[p].const
             /\ sc2.syms[p].len_referenced = sc.syms[p].len_referenced
             /\ sc2.syms[p].used_in_on = sc.syms[p].used_in_on /\ sc2.syms[p].refable = sc.syms[p].refable
  <2>1. SameBut(sc.syms[p], sc2.syms[p], S) /\ SymShape(sc.syms[p])
    BY <1>1, <1>5 DEF Ended
  <2> QED
    BY <2>1 DEF SameBut, SymShape, SymFields, EndFields
<1>6. ScopeShape(sc2)
  BY <1>1, <1>2, <1>3, <1>4, <1>5 DEF ScopeShape, OpShape, SameItem
<1>7. \A o \in DOMAIN sc.ops : \A i \in DOMAIN sc.ops[o].items : RegAt(sc2, o, i) = RegAt(sc, o, i)
  BY <1>4 DEF RegAt, SameItem
<1>8. RunsOk(sc2)
  <2> SUFFICES ASSUME NEW o \in DOMAIN sc.ops, sc.ops[o].op = "Fixed"
               PROVE  sc2.ops[o].width \in Nat /\ \A i \in DOMAIN sc.ops[o].items : Lies(sc2.ops[o].items[i], sc2.ops[o].width)
    BY <1>2, <1>3 DEF RunsOk
  <2>1. sc.ops[o].width \in Nat /\ \A i \in DOMAIN sc.ops[o].items : Lies(sc.ops[o].items[i], sc.ops[o].width)
    BY DEF ScopeOk, RunsOk
  <2>2. ASSUME NEW i \in DOMAIN sc.ops[o].items PROVE Lies(sc2.ops[o].items[i], sc.ops[o].width)
    <3>1. Lies(sc.ops[o].items[i], sc.ops[o].width)
      BY <2>1
    <3> QED
      BY <3>1, <1>4 DEF Lies, SameItem
  <2> QED
    BY <2>1, <2>2, <1>3
<1>9. RegsIn(sc2)
  BY <1>2, <1>3, <1>7 DEF RegsIn, ScopeOk
<1>10. RegsApart(sc2)
  BY <1>2, <1>3, <1>7 DEF RegsApart, ScopeOk
<1>11. RegsOwned(sc2)
  <2> SUFFICES ASSUME NEW idx \in 0 .. (sc.nregs - 1)
               PROVE  \E o \in DOMAIN sc2.ops : \E i \in DOMAIN sc2.ops[o].items : RegAt(sc2, o, i) = {idx}
    BY <1>2 DEF RegsOwned
  <2>1. PICK o \in DOMAIN sc.ops : \E i \in DOMAIN sc.ops[o].items : RegAt(sc, o, i) = {idx}
    BY DEF RegsOwned, ScopeOk
  <2> QED
    BY <2>1, <1>2, <1>3, <1>7
<1>12. SymsOk(sc2)
  <2>1. ASSUME NEW p \in DOMAIN sc.syms PROVE SymPlaced(sc2, sc2.syms[p])
    <3> DEFINE s == sc.syms[p]
               s2 == sc2.syms[p]
    <3>1. SymPlaced(sc, s)
      BY <2>1 DEF ScopeOk, SymsOk
    <3>2. s2.name = s.name /\ s2.op = s.op /\ s2.item = s.item /\ s2.reg = s.reg /\ s2.const = s.const /\ s2.refable = s.refable
      BY <1>5, <2>1
    <3> HIDE DEF s
    <3> SUFFICES SymPlaced(sc2, s2)
      OBVIOUS
    <3> HIDE DEF s2
    <3>3. s.op \in DOMAIN sc.ops
      BY <3>1 DEF SymPlaced
    <3>4. CASE s.item = 0
      BY <3>1, <3>2, <3>3, <3>4, <1>2, <1>3 DEF SymPlaced
    <3>5. CASE s.item # 0
      <4>1. /\ s.item \in DOMAIN sc.ops[s.op].items
            /\ ItemOf(sc, s).key = {s.name} /\ ItemOf(sc, s).reg = s.reg /\ ItemOf(sc, s).const = s.const
        BY <3>1, <3>5 DEF SymPlaced
      <4>2. ItemOf(sc2, s2).key = {s.name} /\ ItemOf(sc2, s2).reg = s.reg /\ ItemOf(sc2, s2).const = s.const
        <5>1. SameItem(sc.ops[s.op].items[s.item], sc2.ops[s.op].items[s.item])
          BY <4>1, <3>3, <1>4
        <5> QED
          BY <4>1, <5>1, <3>2 DEF ItemOf, SameItem
      <4> QED
        BY <4>1, <4>2, <3>2, <3>3, <3>5, <1>2, <1>3 DEF SymPlaced
    <3> QED
      BY <3>4, <3>5
  <2>2. \A p \in DOMAIN sc.syms :
          sc.syms[p].const \in BOOLEAN /\ sc.syms[p].len_referenced \in BOOLEAN /\ sc.syms[p].used_in_on \in BOOLEAN
    BY DEF ScopeOk, SymsOk
  <2>3. \A p, q \in DOMAIN sc.syms : sc2.syms[p].name = sc2.syms[q].name => p = q
    BY <1>5 DEF ScopeOk, SymsOk
  <2> QED
    BY <2>1, <2>2, <2>3, <1>2, <1>5 DEF SymsOk
<1>13. ScopeOk(sc2)
  BY <1>2, <1>6, <1>8, <1>9, <1>10, <1>11, <1>12 DEF ScopeOk
<1>14. ScopeReads(sc2) = ScopeReads(sc) /\ Frames(sc2) = Frames(sc)
  BY <1>2, <1>3 DEF ScopeReads, Frames
<1>15. \A n : Position(sc2, n) = Position(sc, n)
  BY <1>2, <1>5 DEF Position
<1>16. DigestsOk(sc) => DigestsOk(sc2)
  BY <1>2, <1>3 DEF DigestsOk
<1> QED
  BY <1>5, <1>7, <1>13, <1>14, <1>15, <1>16 DEF EndedSame

\* Mapping a sequence.
LEMMA MapStack ==
  ASSUME NEW s, Stack(s), NEW f, f = [i \in DOMAIN s |-> f[i]]
  PROVE  Stack(f) /\ DOMAIN f = DOMAIN s
<1>1. Len(s) \in Nat /\ DOMAIN s = 1 .. Len(s)
  BY StackDom
<1>2. DOMAIN f = 1 .. Len(s)
  BY <1>1
<1>3. f \in [1 .. Len(s) -> Range(f)]
  BY <1>1, <1>2 DEF Range
<1>4. f \in Seq(Range(f))
  BY <1>1, <1>3, SeqDef
<1> QED
  BY <1>1, <1>2, <1>4 DEF Stack

\* The items that resolve_deferred_derives marks.
Deriving(sc, o, i) == \E p \in DOMAIN sc.syms : sc.syms[p].op = o /\ sc.syms[p].item = i /\ Derives(sc.syms[p])
DerivedAs(sc, sc2) ==
  \A o \in DOMAIN sc.ops : \A i \in DOMAIN sc.ops[o].items : sc2.ops[o].items[i].derived = Deriving(sc, o, i)
MarkItem(sc, o, i) == [sc.ops[o].items[i] EXCEPT !.derived = Deriving(sc, o, i)]
MarkOp(sc, o) == [sc.ops[o] EXCEPT !.items = [i \in DOMAIN sc.ops[o].items |-> MarkItem(sc, o, i)]]
MarkOps(sc) == [o \in DOMAIN sc.ops |-> MarkOp(sc, o)]

LEMMA MarkIs ==
  ASSUME NEW sc
  PROVE  ResolveDerives(sc) = [sc EXCEPT !.ops = MarkOps(sc)]
  BY Zenon DEF ResolveDerives, MarkOps, MarkOp, MarkItem, Deriving

LEMMA ResolveDerivesOk ==
  ASSUME NEW sc, ScopeOk(sc)
  PROVE  Ended(sc, ResolveDerives(sc), {"derived"}) /\ DerivedAs(sc, ResolveDerives(sc))
<1> DEFINE sc2 == ResolveDerives(sc)
<1>1. /\ DOMAIN sc = ScopeFields /\ Stack(sc.ops) /\ Stack(sc.syms)
      /\ \A o \in DOMAIN sc.ops : OpShape(sc.ops[o])
      /\ \A p \in DOMAIN sc.syms : SymShape(sc.syms[p])
  BY DEF ScopeOk, ScopeShape
<1>2. DOMAIN sc2 = ScopeFields /\ sc2.ops = MarkOps(sc) /\ \A x \in ScopeFields \ {"ops"} : sc2[x] = sc[x]
  <2>1. sc2 = [sc EXCEPT !.ops = MarkOps(sc)]
    BY MarkIs
  <2> HIDE DEF sc2
  <2> QED
    BY <2>1, <1>1 DEF ScopeFields
<1>3. Stack(MarkOps(sc)) /\ DOMAIN MarkOps(sc) = DOMAIN sc.ops /\ \A o \in DOMAIN sc.ops : MarkOps(sc)[o] = MarkOp(sc, o)
  <2>1. DOMAIN MarkOps(sc) = DOMAIN sc.ops /\ \A o \in DOMAIN sc.ops : MarkOps(sc)[o] = MarkOp(sc, o)
    BY DEF MarkOps
  <2>2. MarkOps(sc) = [o \in DOMAIN sc.ops |-> MarkOps(sc)[o]]
    BY DEF MarkOps
  <2> QED
    BY <2>1, <2>2, <1>1, MapStack
<1>4. ASSUME NEW o \in DOMAIN sc.ops
      PROVE  /\ OpEnded(sc.ops[o], MarkOp(sc, o), {"derived"})
             /\ \A i \in DOMAIN sc.ops[o].items : MarkOp(sc, o).items[i].derived = Deriving(sc, o, i)
  <2> DEFINE op == sc.ops[o]
             its == [i \in DOMAIN sc.ops[o].items |-> MarkItem(sc, o, i)]
             op2 == MarkOp(sc, o)
  <2>1. DOMAIN op = OpFields /\ Stack(op.items) /\ \A i \in DOMAIN op.items : DOMAIN op.items[i] = ItemFields
    BY <1>1, <1>4 DEF OpShape, ItemShape
  <2>2. DOMAIN its = DOMAIN op.items /\ \A i \in DOMAIN op.items : its[i] = MarkItem(sc, o, i)
    OBVIOUS
  <2>3. its = [i \in DOMAIN op.items |-> its[i]]
    OBVIOUS
  <2>4. op2 = [op EXCEPT !.items = its]
    BY DEF MarkOp
  <2>5. ASSUME NEW i \in DOMAIN op.items
        PROVE  SameBut(op.items[i], its[i], {"derived"}) /\ its[i].derived = Deriving(sc, o, i) /\ its[i].len = op.items[i].len
    <3>1. its[i] = [op.items[i] EXCEPT !.derived = Deriving(sc, o, i)]
      BY <2>2, <2>5 DEF MarkItem
    <3> HIDE DEF its
    <3> QED
      BY <3>1, <2>1, <2>5 DEF SameBut, ItemFields
  <2> HIDE DEF op2, its, op
  <2>6. Stack(its)
    BY <2>1, <2>3, MapStack
  <2>7. DOMAIN op2 = OpFields /\ op2.items = its /\ \A x \in OpFields \ {"items"} : op2[x] = op[x]
    BY <2>1, <2>4 DEF OpFields
  <2>8. SameBut(op, op2, {"items"} \cup {"derived"})
    BY <2>1, <2>7 DEF SameBut
  <2>9. op2.op = op.op /\ op2.width = op.width /\ op2.min = op.min /\ op2.frames = op.frames /\ op2.static = op.static
    BY <2>7 DEF OpFields
  <2>10. Sized(op) => Sized(op2)
    BY <2>2, <2>5, <2>7, <2>9 DEF Sized
  <2>11. OpEnded(op, op2, {"derived"})
    BY <2>2, <2>5, <2>6, <2>7, <2>8, <2>9, <2>10 DEF OpEnded
  <2>12. \A i \in DOMAIN op.items : op2.items[i].derived = Deriving(sc, o, i)
    BY <2>2, <2>5, <2>7
  <2> QED
    BY <2>11, <2>12 DEF op, op2
<1> HIDE DEF sc2
<1>5. sc2.syms = sc.syms /\ sc2.nspans = sc.nspans /\ SameBut(sc, sc2, {"ops", "syms", "nspans"})
  BY <1>1, <1>2 DEF SameBut, ScopeFields
<1>6. Ended(sc, sc2, {"derived"})
  BY <1>1, <1>2, <1>3, <1>4, <1>5 DEF Ended, SameBut
<1>7. DerivedAs(sc, sc2)
  BY <1>2, <1>3, <1>4 DEF DerivedAs
<1> QED
  BY <1>6, <1>7 DEF sc2

\* A bit run with whole bytes.
BitsOf(op) == Total([i \in DOMAIN op.items |-> op.items[i].len])
BytesOf(op) == BitsOf(op) \div ByteBits
AlignOp(op) ==
  IF op.op = "BitRun" THEN [op EXCEPT !.width = BytesOf(op), !.min = BytesOf(op), !.static = {BytesOf(op)}] ELSE op
AlignOps(sc) == [o \in DOMAIN sc.ops |-> AlignOp(sc.ops[o])]

LEMMA AlignIs ==
  ASSUME NEW sc, NEW sc2 \in AlignBits(sc)
  PROVE  sc2 = [sc EXCEPT !.ops = AlignOps(sc)]
  BY Zenon DEF AlignBits, AlignOps, AlignOp, BytesOf, BitsOf

SizeFields == {"width", "min", "static"}
LEMMA AlignOpOk ==
  ASSUME NEW op, OpShape(op), Sized(op)
  PROVE  OpEnded(op, AlignOp(op), SizeFields)
<1> DEFINE op2 == AlignOp(op)
           n == BytesOf(op)
<1>1. DOMAIN op = OpFields /\ Stack(op.items)
  BY DEF OpShape
<1>2. CASE op.op # "BitRun"
  <2>1. op2 = op
    BY <1>2 DEF AlignOp
  <2> QED
    BY <1>1, <2>1 DEF OpEnded, SameBut
<1>3. CASE op.op = "BitRun"
  <2>1. Len(op.items) \in Nat /\ DOMAIN op.items = 1 .. Len(op.items)
    BY <1>1, StackDom
  <2>2. [i \in DOMAIN op.items |-> op.items[i].len] \in [1 .. Len(op.items) -> Nat]
    BY <2>1 DEF Sized
  <2>3. BitsOf(op) \in Nat
    BY <2>1, <2>2, TotalNat DEF BitsOf
  <2>4. n \in Nat
    BY <2>3, WireAssumption DEF BytesOf
  <2> HIDE DEF n
  <2>5. op2 = [op EXCEPT !.width = n, !.min = n, !.static = {n}]
    BY <1>3 DEF AlignOp, n
  <2> HIDE DEF op2
  <2>6. /\ DOMAIN op2 = OpFields /\ op2.min = n /\ op2.static = {n}
        /\ \A x \in OpFields \ SizeFields : op2[x] = op[x]
    BY <1>1, <2>5 DEF OpFields, SizeFields
  <2>7. op2.items = op.items /\ op2.op = op.op /\ op2.frames = op.frames
    BY <2>6 DEF OpFields, SizeFields
  <2>8. Sized(op) => Sized(op2)
    BY <2>4, <2>6, <2>7 DEF Sized
  <2>9. SameBut(op, op2, {"items"} \cup SizeFields)
    BY <1>1, <2>6 DEF SameBut
  <2>10. OpEnded(op, op2, SizeFields)
    BY <1>1, <1>3, <2>7, <2>8, <2>9 DEF OpEnded, SameBut
  <2> QED
    BY <2>10 DEF op2
<1> QED
  BY <1>2, <1>3

LEMMA AlignOk ==
  ASSUME NEW sc, ScopeOk(sc), \A o \in DOMAIN sc.ops : Sized(sc.ops[o]), NEW sc2 \in AlignBits(sc)
  PROVE  Ended(sc, sc2, SizeFields)
<1>1. /\ DOMAIN sc = ScopeFields /\ Stack(sc.ops) /\ Stack(sc.syms)
      /\ \A o \in DOMAIN sc.ops : OpShape(sc.ops[o])
  BY DEF ScopeOk, ScopeShape
<1>2. DOMAIN sc2 = ScopeFields /\ sc2.ops = AlignOps(sc) /\ \A x \in ScopeFields \ {"ops"} : sc2[x] = sc[x]
  BY AlignIs, <1>1 DEF ScopeFields
<1>3. Stack(AlignOps(sc)) /\ DOMAIN AlignOps(sc) = DOMAIN sc.ops
      /\ \A o \in DOMAIN sc.ops : AlignOps(sc)[o] = AlignOp(sc.ops[o])
  <2>1. DOMAIN AlignOps(sc) = DOMAIN sc.ops /\ \A o \in DOMAIN sc.ops : AlignOps(sc)[o] = AlignOp(sc.ops[o])
    BY DEF AlignOps
  <2>2. AlignOps(sc) = [o \in DOMAIN sc.ops |-> AlignOps(sc)[o]]
    BY DEF AlignOps
  <2> QED
    BY <2>1, <2>2, <1>1, MapStack
<1>4. \A o \in DOMAIN sc.ops : OpEnded(sc.ops[o], AlignOp(sc.ops[o]), SizeFields)
  BY <1>1, AlignOpOk
<1>5. sc2.syms = sc.syms /\ sc2.nspans = sc.nspans /\ SameBut(sc, sc2, {"ops", "syms", "nspans"})
  BY <1>1, <1>2 DEF SameBut, ScopeFields
<1> QED
  BY <1>1, <1>2, <1>3, <1>4, <1>5 DEF Ended, SameBut

(***************************************************************************)
(* Spans.                                                                  *)
(***************************************************************************)
SpanPut(sc, a, b, idx) ==
  IF b = 0 THEN [sc EXCEPT !.ops[a].span = {idx}] ELSE [sc EXCEPT !.ops[a].items[b].span = {idx}]

\* One place is given a span.
Marked(sc, sc2, a, b, idx) ==
  /\ DOMAIN sc2 = ScopeFields /\ \A x \in ScopeFields \ {"ops"} : sc2[x] = sc[x]
  /\ Stack(sc2.ops) /\ DOMAIN sc2.ops = DOMAIN sc.ops
  /\ \A o \in DOMAIN sc.ops : OpEnded(sc.ops[o], sc2.ops[o], {"span"})
  /\ \A o \in DOMAIN sc.ops : \A i \in PlacesOf(sc.ops[o]) :
       SpanAt(sc2, o, i) = IF o = a /\ i = b THEN {idx} ELSE SpanAt(sc, o, i)

LEMMA SpanPutOp ==
  ASSUME NEW sc, ScopeShape(sc), NEW a \in DOMAIN sc.ops, NEW idx
  PROVE  Marked(sc, SpanPut(sc, a, 0, idx), a, 0, idx)
<1> DEFINE op2 == [sc.ops[a] EXCEPT !.span = {idx}]
           ops2 == Put(sc.ops, a, op2)
           sc2 == [sc EXCEPT !.ops = ops2]
<1>1. SpanPut(sc, a, 0, idx) = sc2
  BY DEF SpanPut, Put
<1>2. /\ DOMAIN sc = ScopeFields /\ Stack(sc.ops) /\ \A o \in DOMAIN sc.ops : DOMAIN sc.ops[o] = OpFields /\ Stack(sc.ops[o].items)
      /\ \A o \in DOMAIN sc.ops : 0 \notin DOMAIN sc.ops[o].items
  <2>1. DOMAIN sc = ScopeFields /\ Stack(sc.ops) /\ \A o \in DOMAIN sc.ops : DOMAIN sc.ops[o] = OpFields /\ Stack(sc.ops[o].items)
    BY DEF ScopeShape, OpShape
  <2>2. \A o \in DOMAIN sc.ops : 0 \notin DOMAIN sc.ops[o].items
    BY <2>1, StackDom
  <2> QED
    BY <2>1, <2>2
<1>3. DOMAIN op2 = OpFields /\ op2.span = {idx} /\ \A x \in OpFields \ {"span"} : op2[x] = sc.ops[a][x]
  BY <1>2 DEF OpFields
<1> HIDE DEF op2
<1>4. Stack(ops2) /\ DOMAIN ops2 = DOMAIN sc.ops /\ ops2[a] = op2
      /\ \A o \in DOMAIN sc.ops : o # a => ops2[o] = sc.ops[o]
  BY <1>2, StackPut
<1> HIDE DEF ops2
<1>5. DOMAIN sc2 = ScopeFields /\ sc2.ops = ops2 /\ \A x \in ScopeFields \ {"ops"} : sc2[x] = sc[x]
  BY <1>2 DEF ScopeFields
<1> HIDE DEF sc2
<1>6. op2.items = sc.ops[a].items /\ op2.op = sc.ops[a].op /\ op2.width = sc.ops[a].width /\ op2.min = sc.ops[a].min
      /\ op2.static = sc.ops[a].static /\ op2.frames = sc.ops[a].frames
  BY <1>3 DEF OpFields
<1>7. OpEnded(sc.ops[a], op2, {"span"})
  BY <1>2, <1>3, <1>6 DEF OpEnded, SameBut, Sized
<1>8. \A o \in DOMAIN sc.ops : OpEnded(sc.ops[o], ops2[o], {"span"})
  <2> TAKE o \in DOMAIN sc.ops
  <2>1. CASE o = a
    BY <2>1, <1>4, <1>7
  <2>2. CASE o # a
    BY <2>2, <1>2, <1>4 DEF OpEnded, SameBut
  <2> QED
    BY <2>1, <2>2
<1>9. \A o \in DOMAIN sc.ops : \A i \in PlacesOf(sc.ops[o]) :
        SpanAt(sc2, o, i) = IF o = a /\ i = 0 THEN {idx} ELSE SpanAt(sc, o, i)
  BY <1>3, <1>4, <1>5, <1>6 DEF SpanAt, PlacesOf
<1>10. Marked(sc, sc2, a, 0, idx)
  BY <1>4, <1>5, <1>8, <1>9 DEF Marked
<1> QED
  BY <1>1, <1>10

LEMMA SpanPutItem ==
  ASSUME NEW sc, ScopeShape(sc), NEW a \in DOMAIN sc.ops, NEW b \in DOMAIN sc.ops[a].items, NEW idx
  PROVE  Marked(sc, SpanPut(sc, a, b, idx), a, b, idx)
<1> DEFINE item == sc.ops[a].items[b]
           item2 == [item EXCEPT !.span = {idx}]
           its2 == Put(sc.ops[a].items, b, item2)
           op2 == [sc.ops[a] EXCEPT !.items = its2]
           ops2 == Put(sc.ops, a, op2)
           sc2 == [sc EXCEPT !.ops = ops2]
<1>2. /\ DOMAIN sc = ScopeFields /\ Stack(sc.ops)
      /\ \A o \in DOMAIN sc.ops : DOMAIN sc.ops[o] = OpFields /\ Stack(sc.ops[o].items)
      /\ \A o \in DOMAIN sc.ops : \A i \in DOMAIN sc.ops[o].items : DOMAIN sc.ops[o].items[i] = ItemFields
      /\ \A o \in DOMAIN sc.ops : 0 \notin DOMAIN sc.ops[o].items
  <2>1. /\ DOMAIN sc = ScopeFields /\ Stack(sc.ops)
        /\ \A o \in DOMAIN sc.ops : DOMAIN sc.ops[o] = OpFields /\ Stack(sc.ops[o].items)
        /\ \A o \in DOMAIN sc.ops : \A i \in DOMAIN sc.ops[o].items : DOMAIN sc.ops[o].items[i] = ItemFields
    BY DEF ScopeShape, OpShape, ItemShape
  <2>2. \A o \in DOMAIN sc.ops : 0 \notin DOMAIN sc.ops[o].items
    BY <2>1, StackDom
  <2> QED
    BY <2>1, <2>2
<1>1. SpanPut(sc, a, b, idx) = sc2
  <2>1. b # 0
    BY <1>2
  <2> QED
    BY <2>1 DEF SpanPut, Put
<1>3. SameBut(item, item2, {"span"}) /\ item2.span = {idx} /\ item2.len = item.len
  BY <1>2 DEF SameBut, ItemFields
<1> HIDE DEF item2
<1>4. Stack(its2) /\ DOMAIN its2 = DOMAIN sc.ops[a].items /\ its2[b] = item2
      /\ \A i \in DOMAIN sc.ops[a].items : i # b => its2[i] = sc.ops[a].items[i]
  <2>1. PICK s : s = sc.ops[a].items
    OBVIOUS
  <2>2. b \in DOMAIN s /\ Stack(s)
    BY <1>2, <2>1
  <2>3. Stack(Put(s, b, item2)) /\ DOMAIN Put(s, b, item2) = DOMAIN s /\ Put(s, b, item2)[b] = item2
        /\ \A i \in DOMAIN s : i # b => Put(s, b, item2)[i] = s[i]
    BY <2>2, StackPut
  <2> QED
    BY <2>1, <2>3
<1> HIDE DEF its2
<1>5. DOMAIN op2 = OpFields /\ op2.items = its2 /\ \A x \in OpFields \ {"items"} : op2[x] = sc.ops[a][x]
  BY <1>2 DEF OpFields
<1> HIDE DEF op2
<1>6. Stack(ops2) /\ DOMAIN ops2 = DOMAIN sc.ops /\ ops2[a] = op2
      /\ \A o \in DOMAIN sc.ops : o # a => ops2[o] = sc.ops[o]
  BY <1>2, StackPut
<1> HIDE DEF ops2
<1>7. DOMAIN sc2 = ScopeFields /\ sc2.ops = ops2 /\ \A x \in ScopeFields \ {"ops"} : sc2[x] = sc[x]
  BY <1>2 DEF ScopeFields
<1> HIDE DEF sc2
<1>8. op2.op = sc.ops[a].op /\ op2.width = sc.ops[a].width /\ op2.min = sc.ops[a].min /\ op2.span = sc.ops[a].span
      /\ op2.static = sc.ops[a].static /\ op2.frames = sc.ops[a].frames
  BY <1>5 DEF OpFields
<1>9. \A i \in DOMAIN sc.ops[a].items : SameBut(sc.ops[a].items[i], its2[i], {"span"}) /\ its2[i].len = sc.ops[a].items[i].len
  <2> TAKE i \in DOMAIN sc.ops[a].items
  <2>1. CASE i = b
    BY <2>1, <1>3, <1>4
  <2>2. CASE i # b
    BY <2>2, <1>4 DEF SameBut
  <2> QED
    BY <2>1, <2>2
<1>10. OpEnded(sc.ops[a], op2, {"span"})
  <2>1. SameBut(sc.ops[a], op2, {"items"} \cup {"span"})
    BY <1>2, <1>5 DEF SameBut
  <2>2. Sized(sc.ops[a]) => Sized(op2)
    BY <1>4, <1>5, <1>8, <1>9 DEF Sized
  <2> QED
    BY <2>1, <2>2, <1>4, <1>5, <1>8, <1>9 DEF OpEnded
<1>11. \A o \in DOMAIN sc.ops : OpEnded(sc.ops[o], ops2[o], {"span"})
  <2> TAKE o \in DOMAIN sc.ops
  <2>1. CASE o = a
    BY <2>1, <1>6, <1>10
  <2>2. CASE o # a
    BY <2>2, <1>2, <1>6 DEF OpEnded, SameBut
  <2> QED
    BY <2>1, <2>2
<1>12. \A o \in DOMAIN sc.ops : \A i \in PlacesOf(sc.ops[o]) :
        SpanAt(sc2, o, i) = IF o = a /\ i = b THEN {idx} ELSE SpanAt(sc, o, i)
  <2> TAKE o \in DOMAIN sc.ops
  <2> TAKE i \in PlacesOf(sc.ops[o])
  <2>1. CASE i = 0
    BY <2>1, <1>2, <1>6, <1>7, <1>8 DEF SpanAt
  <2>2. CASE i # 0
    <3>1. i \in DOMAIN sc.ops[o].items
      BY <2>2 DEF PlacesOf
    <3>2. CASE o = a
      BY <2>2, <3>1, <3>2, <1>3, <1>4, <1>5, <1>6, <1>7 DEF SpanAt
    <3>3. CASE o # a
      BY <3>3, <1>6, <1>7 DEF SpanAt
    <3> QED
      BY <3>2, <3>3
  <2> QED
    BY <2>1, <2>2
<1>13. Marked(sc, sc2, a, b, idx)
  BY <1>6, <1>7, <1>11, <1>12 DEF Marked
<1> QED
  BY <1>1, <1>13

LEMMA PlacedAt ==
  ASSUME NEW sc, ScopeOk(sc), NEW p \in DOMAIN sc.syms
  PROVE  sc.syms[p].op \in DOMAIN sc.ops /\ sc.syms[p].item \in PlacesOf(sc.ops[sc.syms[p].op])
<1>1. SymPlaced(sc, sc.syms[p])
  BY DEF ScopeOk, SymsOk
<1> QED
  BY <1>1 DEF SymPlaced, PlacesOf

LEMMA SoundSpans ==
  ASSUME NEW sc, ScopeOk(sc), Sound(sc)
  PROVE  SpansOk(sc)
<1>1. \A o \in DOMAIN sc.ops : \A i \in PlacesOf(sc.ops[o]) : SpanAt(sc, o, i) = {}
  BY DEF Sound, Unspanned, SpanAt, PlacesOf
<1>2. \A p \in DOMAIN sc.syms : sc.syms[p].span = {} /\ SpanAt(sc, sc.syms[p].op, sc.syms[p].item) = {}
  BY <1>1, PlacedAt DEF Sound
<1>3. sc.nspans \in Nat
  BY DEF Sound
<1>4. \A p \in DOMAIN sc.syms : RegOf1(sc.syms[p].span, sc.nspans)
  BY <1>2 DEF RegOf1
<1> QED
  BY <1>1, <1>2, <1>3, <1>4 DEF SpansOk

\* What the other steps of a scope's end leave of the spans.
LEMMA SpansStay ==
  ASSUME NEW sc, ScopeOk(sc), NEW sc2, NEW S, S \subseteq EndFields, "span" \notin S, Ended(sc, sc2, S), SpansOk(sc)
  PROVE  SpansOk(sc2)
<1>1. \A p \in DOMAIN sc.syms : SymShape(sc.syms[p])
  BY DEF ScopeOk, ScopeShape
<1>2. \A o \in DOMAIN sc.ops : OpShape(sc.ops[o])
  BY DEF ScopeOk, ScopeShape
<1>3. DOMAIN sc2.syms = DOMAIN sc.syms /\ DOMAIN sc2.ops = DOMAIN sc.ops /\ sc2.nspans = sc.nspans
  BY DEF Ended
<1>4. ASSUME NEW p \in DOMAIN sc.syms
      PROVE  sc2.syms[p].span = sc.syms[p].span /\ sc2.syms[p].op = sc.syms[p].op /\ sc2.syms[p].item = sc.syms[p].item
  <2>1. SameBut(sc.syms[p], sc2.syms[p], S) /\ SymShape(sc.syms[p])
    BY <1>1 DEF Ended
  <2> QED
    BY <2>1 DEF SameBut, SymShape, SymFields, EndFields
<1>5. ASSUME NEW o \in DOMAIN sc.ops
      PROVE  PlacesOf(sc2.ops[o]) = PlacesOf(sc.ops[o]) /\ \A i \in PlacesOf(sc.ops[o]) : SpanAt(sc2, o, i) = SpanAt(sc, o, i)
  <2>1. OpEnded(sc.ops[o], sc2.ops[o], S) /\ OpShape(sc.ops[o])
    BY <1>2 DEF Ended
  <2>2. sc2.ops[o].span = sc.ops[o].span /\ DOMAIN sc2.ops[o].items = DOMAIN sc.ops[o].items
    BY <2>1 DEF OpEnded, SameBut, OpShape, OpFields
  <2>3. \A i \in DOMAIN sc.ops[o].items : sc2.ops[o].items[i].span = sc.ops[o].items[i].span
    BY <2>1 DEF OpEnded, SameBut, OpShape, ItemShape, ItemFields
  <2> QED
    BY <2>2, <2>3 DEF PlacesOf, SpanAt
<1>6. \A p \in DOMAIN sc.syms : SpanAt(sc2, sc.syms[p].op, sc.syms[p].item) = SpanAt(sc, sc.syms[p].op, sc.syms[p].item)
  BY <1>5, PlacedAt
<1>7. \A p \in DOMAIN sc2.syms : RegOf1(sc2.syms[p].span, sc2.nspans)
                               /\ SpanAt(sc2, sc2.syms[p].op, sc2.syms[p].item) = sc2.syms[p].span
  BY <1>3, <1>4, <1>6 DEF SpansOk
<1>8. ASSUME NEW o \in DOMAIN sc2.ops, NEW i \in PlacesOf(sc2.ops[o]), SpanAt(sc2, o, i) # {}
      PROVE  \E p \in DOMAIN sc2.syms : Same(o, i, sc2.syms[p].op, sc2.syms[p].item)
  <2>1. o \in DOMAIN sc.ops /\ i \in PlacesOf(sc.ops[o]) /\ SpanAt(sc, o, i) # {}
    BY <1>3, <1>5, <1>8
  <2>2. PICK p \in DOMAIN sc.syms : Same(o, i, sc.syms[p].op, sc.syms[p].item)
    BY <2>1 DEF SpansOk
  <2> QED
    BY <2>2, <1>3, <1>4
<1>9. \A p, q \in DOMAIN sc2.syms : sc2.syms[p].span = sc2.syms[q].span /\ sc2.syms[p].span # {} => p = q
  BY <1>3, <1>4 DEF SpansOk
<1>10. sc2.nspans \in Nat
  BY <1>3 DEF SpansOk
<1> QED
  BY <1>7, <1>8, <1>9, <1>10 DEF SpansOk

\* A field that has a span keeps it.
KeptSpans(sc, s) == \A p \in DOMAIN sc.syms : sc.syms[p].span # {} => s.syms[p].span = sc.syms[p].span
Spanned(sc, s) == Ended(sc, s, {"span"}) /\ SpansOk(s) /\ KeptSpans(sc, s)
HasSpan(s, n) == \E p \in DOMAIN s.syms : s.syms[p].name = n /\ \E x : s.syms[p].span = {x}

\* A symbol without a span is given the next one.
GiveSpan(sc, p) ==
  LET m == SpanPut(sc, sc.syms[p].op, sc.syms[p].item, sc.nspans)
  IN  [m EXCEPT !.nspans = @ + 1, !.syms[p].span = {sc.nspans}]

LEMMA CoverCases ==
  ASSUME NEW sc, NEW n, NEW s \in Cover(sc, n)
  PROVE  /\ Position(sc, n) # {}
         /\ \/ sc.syms[The(Position(sc, n))].span # {} /\ s = sc
            \/ sc.syms[The(Position(sc, n))].span = {} /\ s = GiveSpan(sc, The(Position(sc, n)))
  BY Zenon DEF Cover, NeedsSpan, GiveSpan, SpanPut

LEMMA GiveSpanOk ==
  ASSUME NEW sc, ScopeOk(sc), SpansOk(sc), NEW p \in DOMAIN sc.syms, sc.syms[p].span = {}
  PROVE  Spanned(sc, GiveSpan(sc, p)) /\ GiveSpan(sc, p).syms[p].span = {sc.nspans}
<1> DEFINE a == sc.syms[p].op
           b == sc.syms[p].item
           m == SpanPut(sc, a, b, sc.nspans)
           sym2 == [sc.syms[p] EXCEPT !.span = {sc.nspans}]
           syms2 == Put(sc.syms, p, sym2)
           s == GiveSpan(sc, p)
<1>1. DOMAIN sc = ScopeFields /\ ScopeShape(sc) /\ Stack(sc.syms) /\ DOMAIN sc.syms[p] = SymFields /\ sc.nspans \in Nat
  BY DEF ScopeOk, ScopeShape, SymShape, SpansOk
<1>2. a \in DOMAIN sc.ops /\ b \in PlacesOf(sc.ops[a])
  BY PlacedAt
<1>3. Marked(sc, m, a, b, sc.nspans)
  <2>1. CASE b = 0
    BY <2>1, <1>1, <1>2, SpanPutOp
  <2>2. CASE b # 0
    BY <2>2, <1>1, <1>2, SpanPutItem DEF PlacesOf
  <2> QED
    BY <2>1, <2>2
<1>4. DOMAIN m = ScopeFields /\ m.syms = sc.syms /\ m.nspans = sc.nspans /\ m.nregs = sc.nregs /\ m.digests = sc.digests
  BY <1>3 DEF Marked, ScopeFields
<1>5. s = [m EXCEPT !.nspans = m.nspans + 1, !.syms[p].span = {sc.nspans}]
  BY DEF GiveSpan
<1> HIDE DEF m, s
<1>6. s = [m EXCEPT !.nspans = sc.nspans + 1, !.syms = syms2]
  BY <1>4, <1>5, Zenon DEF Put
<1>7. sym2.span = {sc.nspans} /\ SameBut(sc.syms[p], sym2, {"span"}) /\ sym2.op = a /\ sym2.item = b
  BY <1>1 DEF SameBut, SymFields
<1> HIDE DEF sym2
<1>8. Stack(syms2) /\ DOMAIN syms2 = DOMAIN sc.syms /\ syms2[p] = sym2
      /\ \A q \in DOMAIN sc.syms : q # p => syms2[q] = sc.syms[q]
  BY <1>1, StackPut
<1> HIDE DEF syms2
<1>9. DOMAIN s = ScopeFields /\ s.syms = syms2 /\ s.nspans = sc.nspans + 1 /\ s.ops = m.ops
      /\ s.nregs = sc.nregs /\ s.digests = sc.digests
  BY <1>4, <1>6 DEF ScopeFields
<1> HIDE DEF a, b
<1>10. \A q \in DOMAIN sc.syms : SameBut(sc.syms[q], s.syms[q], {"span"})
  <2> TAKE q \in DOMAIN sc.syms
  <2>1. CASE q = p
    BY <2>1, <1>7, <1>8, <1>9
  <2>2. CASE q # p
    BY <2>2, <1>8, <1>9 DEF SameBut
  <2> QED
    BY <2>1, <2>2
<1>11. Ended(sc, s, {"span"})
  <2>1. SameBut(sc, s, {"ops", "syms", "nspans"})
    BY <1>1, <1>9 DEF SameBut, ScopeFields
  <2>2. Stack(s.ops) /\ DOMAIN s.ops = DOMAIN sc.ops /\ \A o \in DOMAIN sc.ops : OpEnded(sc.ops[o], s.ops[o], {"span"})
    BY <1>3, <1>9 DEF Marked
  <2> QED
    BY <2>1, <2>2, <1>8, <1>9, <1>10 DEF Ended
<1>12. \A o \in DOMAIN sc.ops : PlacesOf(s.ops[o]) = PlacesOf(sc.ops[o])
  BY <1>11 DEF Ended, OpEnded, PlacesOf
<1>13. \A o \in DOMAIN sc.ops : \A i \in PlacesOf(sc.ops[o]) :
         SpanAt(s, o, i) = IF o = a /\ i = b THEN {sc.nspans} ELSE SpanAt(sc, o, i)
  BY <1>3, <1>9 DEF Marked, SpanAt
<1>14. \A q \in DOMAIN sc.syms : s.syms[q].op = sc.syms[q].op /\ s.syms[q].item = sc.syms[q].item
  <2>1. \A q \in DOMAIN sc.syms : DOMAIN sc.syms[q] = SymFields
    BY DEF ScopeOk, ScopeShape, SymShape
  <2> QED
    BY <2>1, <1>10 DEF SameBut, SymFields
<1>15. ASSUME NEW q \in DOMAIN sc.syms
       PROVE  RegOf1(s.syms[q].span, s.nspans) /\ SpanAt(s, sc.syms[q].op, sc.syms[q].item) = s.syms[q].span
  <2>1. sc.syms[q].op \in DOMAIN sc.ops /\ sc.syms[q].item \in PlacesOf(sc.ops[sc.syms[q].op])
    BY PlacedAt
  <2>2. CASE q = p
    <3>1. SpanAt(s, sc.syms[q].op, sc.syms[q].item) = {sc.nspans} /\ s.syms[q].span = {sc.nspans}
      BY <2>1, <2>2, <1>7, <1>8, <1>9, <1>13 DEF a, b
    <3>2. sc.nspans \in 0 .. (s.nspans - 1)
      BY <1>1, <1>9
    <3> QED
      BY <3>1, <3>2 DEF RegOf1
  <2>3. CASE q # p
    <3>1. s.syms[q].span = sc.syms[q].span
      BY <2>3, <1>8, <1>9
    <3>2. ~(sc.syms[q].op = a /\ sc.syms[q].item = b)
      BY <2>3, SymsApart DEF a, b
    <3>3. SpanAt(s, sc.syms[q].op, sc.syms[q].item) = sc.syms[q].span
      BY <2>1, <3>2, <1>13 DEF SpansOk
    <3>4. RegOf1(sc.syms[q].span, sc.nspans)
      BY DEF SpansOk
    <3>5. RegOf1(sc.syms[q].span, sc.nspans + 1)
      <4>1. \A i \in 0 .. (sc.nspans - 1) : i \in 0 .. ((sc.nspans + 1) - 1)
        BY <1>1
      <4> QED
        BY <3>4, <4>1 DEF RegOf1
    <3> QED
      BY <3>1, <3>3, <3>5, <1>9
  <2> QED
    BY <2>2, <2>3
<1>16. ASSUME NEW o \in DOMAIN s.ops, NEW i \in PlacesOf(s.ops[o]), SpanAt(s, o, i) # {}
       PROVE  \E q \in DOMAIN s.syms : Same(o, i, s.syms[q].op, s.syms[q].item)
  <2>1. o \in DOMAIN sc.ops /\ i \in PlacesOf(sc.ops[o]) /\ DOMAIN s.syms = DOMAIN sc.syms
    BY <1>11, <1>12, <1>16 DEF Ended
  <2>2. CASE o = a /\ i = b
    BY <2>1, <2>2, <1>14 DEF Same, a, b
  <2>3. CASE ~(o = a /\ i = b)
    <3>1. SpanAt(sc, o, i) # {}
      BY <1>13, <1>16, <2>1, <2>3
    <3>2. PICK q \in DOMAIN sc.syms : Same(o, i, sc.syms[q].op, sc.syms[q].item)
      BY <2>1, <3>1 DEF SpansOk
    <3> QED
      BY <2>1, <3>2, <1>14
  <2> QED
    BY <2>2, <2>3
<1>17. ASSUME NEW q \in DOMAIN sc.syms, NEW r \in DOMAIN sc.syms, s.syms[q].span = s.syms[r].span, s.syms[q].span # {}
       PROVE  q = r
  <2>1. \A x \in DOMAIN sc.syms : sc.syms[x].span # {sc.nspans}
    <3>1. \A x \in DOMAIN sc.syms : RegOf1(sc.syms[x].span, sc.nspans)
      BY DEF SpansOk
    <3> QED
      BY <3>1, <1>1 DEF RegOf1
  <2>2. \A x, y \in DOMAIN sc.syms : sc.syms[x].span = sc.syms[y].span /\ sc.syms[x].span # {} => x = y
    BY DEF SpansOk
  <2>3. \A x \in DOMAIN sc.syms : s.syms[x].span = IF x = p THEN {sc.nspans} ELSE sc.syms[x].span
    BY <1>7, <1>8, <1>9
  <2> QED
    BY <2>1, <2>2, <2>3, <1>17
<1>18. SpansOk(s)
  <2>1. DOMAIN s.syms = DOMAIN sc.syms /\ s.nspans \in Nat
    BY <1>1, <1>8, <1>9
  <2>2. \A q \in DOMAIN s.syms : RegOf1(s.syms[q].span, s.nspans)
                               /\ SpanAt(s, s.syms[q].op, s.syms[q].item) = s.syms[q].span
    BY <2>1, <1>14, <1>15
  <2>3. \A q, r \in DOMAIN s.syms : s.syms[q].span = s.syms[r].span /\ s.syms[q].span # {} => q = r
    BY <2>1, <1>17
  <2> QED
    BY <2>1, <2>2, <2>3, <1>16 DEF SpansOk
<1>19. KeptSpans(sc, s)
  BY <1>8, <1>9 DEF KeptSpans
<1>20. s.syms[p].span = {sc.nspans}
  BY <1>7, <1>8, <1>9
<1> QED
  BY <1>11, <1>18, <1>19, <1>20 DEF Spanned, s

LEMMA CoverOk ==
  ASSUME NEW sc, ScopeOk(sc), SpansOk(sc), NEW n, NEW s \in Cover(sc, n)
  PROVE  Spanned(sc, s) /\ HasSpan(s, n)
<1> DEFINE p == The(Position(sc, n))
<1>1. Position(sc, n) # {} /\ \/ sc.syms[p].span # {} /\ s = sc
                              \/ sc.syms[p].span = {} /\ s = GiveSpan(sc, p)
  BY CoverCases
<1>2. p \in DOMAIN sc.syms /\ sc.syms[p].name = n
  <2>1. p \in Position(sc, n)
    BY <1>1, TheOne
  <2> QED
    BY <2>1 DEF Position
<1> HIDE DEF p
<1>3. CASE sc.syms[p].span # {} /\ s = sc
  <2>1. Ended(sc, sc, {"span"})
    BY EndedSelf DEF ScopeOk
  <2>2. Spanned(sc, sc)
    BY <2>1 DEF Spanned, KeptSpans
  <2>3. \E x : sc.syms[p].span = {x}
    BY <1>2, <1>3 DEF SpansOk, RegOf1
  <2> QED
    BY <1>2, <1>3, <2>2, <2>3 DEF HasSpan
<1>4. CASE sc.syms[p].span = {} /\ s = GiveSpan(sc, p)
  <2>1. Spanned(sc, s) /\ s.syms[p].span = {sc.nspans}
    BY <1>2, <1>4, GiveSpanOk
  <2>2. DOMAIN s.syms = DOMAIN sc.syms /\ SameBut(sc.syms[p], s.syms[p], {"span"}) /\ SymShape(sc.syms[p])
    BY <2>1, <1>2 DEF Spanned, Ended, ScopeOk, ScopeShape
  <2>3. s.syms[p].name = n
    BY <2>2, <1>2 DEF SameBut, SymShape, SymFields
  <2> QED
    BY <2>1, <2>2, <2>3, <1>2 DEF HasSpan
<1> QED
  BY <1>1, <1>3, <1>4

\* The fields of a digest are covered one after the other.
AfterCover(ss, n) == UNION {Cover(s, n) : s \in ss}
CoverRuns(f, sc, over) ==
  /\ f[0] = {sc}
  /\ \A j \in 1 .. Len(over) : f[j] = AfterCover(f[j - 1], over[j])
  /\ CoverEach(sc, over) = f[Len(over)]
LEMMA CoverEachRuns ==
  ASSUME NEW sc, NEW over, Listed(over)
  PROVE  \E f : CoverRuns(f, sc, over)
<1> DEFINE n == Len(over)
           Step(j, x) == AfterCover(x, over[j])
           Ok(m, g) == g = [j \in 0 .. m |-> g[j]] /\ g[0] = {sc} /\ \A j \in 1 .. m : g[j] = Step(j, g[j - 1])
           S == {m \in Nat : \E g : Ok(m, g)}
           Eq(g) == g = [j \in 0 .. n |-> IF j = 0 THEN {sc} ELSE Step(j, g[j - 1])]
           f == CHOOSE g : Eq(g)
<1>0. n \in Nat
  BY DEF Listed
<1>1. 0 \in S
  <2> DEFINE g == [i \in 0 .. 0 |-> {sc}]
  <2> HIDE DEF Step
  <2>1. Ok(0, g)
    OBVIOUS
  <2> QED
    BY <2>1
<1>2. ASSUME NEW m \in Nat, m \in S PROVE m + 1 \in S
  <2> HIDE DEF Step
  <2>1. PICK g : Ok(m, g)
    BY <1>2
  <2> DEFINE h == [j \in 0 .. (m + 1) |-> IF j = m + 1 THEN Step(m + 1, g[m]) ELSE g[j]]
  <2>2. ASSUME NEW j \in 1 .. (m + 1) PROVE h[j] = Step(j, h[j - 1])
    <3>1. CASE j = m + 1
      BY <3>1
    <3>2. CASE j # m + 1
      <4>1. j \in 1 .. m /\ j \in 0 .. (m + 1) /\ j - 1 \in 0 .. (m + 1) /\ j - 1 # m + 1
        BY <3>2
      <4>2. h[j] = g[j] /\ h[j - 1] = g[j - 1]
        BY <3>2, <4>1
      <4> QED
        BY <2>1, <4>1, <4>2
    <3> QED
      BY <3>1, <3>2
  <2>3. h[0] = {sc} /\ h = [j \in 0 .. (m + 1) |-> h[j]]
    BY <2>1
  <2> HIDE DEF h
  <2>4. Ok(m + 1, h)
    BY <2>2, <2>3
  <2> HIDE DEF Ok
  <2> QED
    BY <2>4
<1> HIDE DEF S
<1>3. n \in S
  BY <1>0, <1>1, <1>2, NatInductionOn
<1>4. PICK g : Ok(n, g)
  BY <1>3 DEF S
<1> HIDE DEF Step
<1>5. \A j \in 0 .. n : g[j] = IF j = 0 THEN {sc} ELSE Step(j, g[j - 1])
  <2> TAKE j \in 0 .. n
  <2>1. j = 0 \/ (j # 0 /\ j \in 1 .. n)
    BY <1>0
  <2> QED
    BY <1>4, <2>1
<1>6. Eq(g)
  BY <1>4, <1>5
<1>7. Eq(f)
  BY <1>6
<1>8. CoverEach(sc, over) = f[n]
  BY DEF CoverEach, Step, AfterCover
<1> HIDE DEF f
<1>9. \A j \in 0 .. n : f[j] = IF j = 0 THEN {sc} ELSE Step(j, f[j - 1])
  BY <1>7
<1>10. f[0] = {sc} /\ \A j \in 1 .. n : f[j] = Step(j, f[j - 1])
  <2>1. 0 \in 0 .. n /\ \A j \in 1 .. n : j \in 0 .. n /\ j # 0
    BY <1>0
  <2> QED
    BY <1>9, <2>1
<1> QED
  BY <1>8, <1>10 DEF Step, CoverRuns

LEMMA SpannedSelf ==
  ASSUME NEW sc, ScopeOk(sc), SpansOk(sc)
  PROVE  Spanned(sc, sc)
  BY EndedSelf DEF ScopeOk, Spanned, KeptSpans

LEMMA KeptTrans ==
  ASSUME NEW a, NEW b, NEW c, DOMAIN b.syms = DOMAIN a.syms, KeptSpans(a, b), KeptSpans(b, c)
  PROVE  KeptSpans(a, c)
  BY DEF KeptSpans

LEMMA SpannedTrans ==
  ASSUME NEW a, NEW b, NEW c, Spanned(a, b), Spanned(b, c)
  PROVE  Spanned(a, c)
<1>1. Ended(a, c, {"span"} \cup {"span"})
  BY EndedTrans DEF Spanned
<1>2. {"span"} \cup {"span"} = {"span"}
  OBVIOUS
<1>3. Ended(a, c, {"span"})
  BY <1>1, <1>2
<1>4. DOMAIN b.syms = DOMAIN a.syms /\ DOMAIN c.syms = DOMAIN b.syms
  BY DEF Spanned, Ended
<1>5. KeptSpans(a, c)
  BY <1>4, KeptTrans DEF Spanned
<1> QED
  BY <1>3, <1>5 DEF Spanned

LEMMA SpannedScope ==
  ASSUME NEW sc, ScopeOk(sc), NEW s, Spanned(sc, s)
  PROVE  /\ ScopeOk(s) /\ SpansOk(s) /\ \A p \in DOMAIN sc.syms : s.syms[p].name = sc.syms[p].name
         /\ DOMAIN s.syms = DOMAIN sc.syms
<1>1. {"span"} \in SUBSET EndFields
  BY DEF EndFields
<1>2. Ended(sc, s, {"span"}) /\ SpansOk(s)
  BY DEF Spanned
<1>3. EndedSame(sc, s)
  BY <1>1, <1>2, EndedOk
<1> QED
  BY <1>2, <1>3 DEF EndedSame, Ended

LEMMA HasSpanKept ==
  ASSUME NEW sc, ScopeOk(sc), NEW s, Spanned(sc, s), NEW n, HasSpan(sc, n)
  PROVE  HasSpan(s, n)
<1>1. PICK p \in DOMAIN sc.syms : sc.syms[p].name = n /\ \E x : sc.syms[p].span = {x}
  BY DEF HasSpan
<1>2. p \in DOMAIN s.syms /\ s.syms[p].name = n
  BY <1>1, SpannedScope
<1>3. sc.syms[p].span # {}
  BY <1>1
<1>4. s.syms[p].span = sc.syms[p].span
  BY <1>3 DEF Spanned, KeptSpans
<1> QED
  BY <1>1, <1>2, <1>4 DEF HasSpan

LEMMA CoverEachOk ==
  ASSUME NEW sc, ScopeOk(sc), SpansOk(sc), NEW over, Listed(over), NEW s \in CoverEach(sc, over)
  PROVE  Spanned(sc, s) /\ \A j \in DOMAIN over : HasSpan(s, over[j])
<1> DEFINE n == Len(over)
<1>0. n \in Nat /\ DOMAIN over = 1 .. n
  BY DEF Listed
<1>10. PICK f : CoverRuns(f, sc, over)
  BY CoverEachRuns
<1>1. f[0] = {sc} /\ (\A j \in 1 .. n : f[j] = AfterCover(f[j - 1], over[j])) /\ CoverEach(sc, over) = f[n]
  BY <1>10 DEF CoverRuns
<1> HIDE DEF n
<1> DEFINE Fine(m) == \A x \in f[m] : Spanned(sc, x) /\ \A j \in 1 .. m : HasSpan(x, over[j])
           S == {m \in Nat : m <= n => Fine(m)}
<1>2. 0 \in S
  BY <1>1, SpannedSelf
<1>3. ASSUME NEW m \in Nat, m \in S PROVE m + 1 \in S
  <2> SUFFICES ASSUME m + 1 <= n, NEW y \in f[m + 1]
               PROVE  Spanned(sc, y) /\ \A j \in 1 .. (m + 1) : HasSpan(y, over[j])
    OBVIOUS
  <2>1. m + 1 \in 1 .. n /\ (m + 1) - 1 = m /\ m <= n
    BY <1>0
  <2>2. y \in AfterCover(f[m], over[m + 1])
    BY <1>1, <2>1
  <2>3. PICK x \in f[m] : y \in Cover(x, over[m + 1])
    BY <2>2 DEF AfterCover
  <2>4. Spanned(sc, x) /\ \A j \in 1 .. m : HasSpan(x, over[j])
    BY <1>3, <2>1
  <2> HIDE DEF S
  <2>5. ScopeOk(x) /\ SpansOk(x)
    BY <2>4, SpannedScope
  <2>6. Spanned(x, y) /\ HasSpan(y, over[m + 1])
    BY <2>3, <2>5, CoverOk
  <2>7. Spanned(sc, y)
    BY <2>4, <2>6, SpannedTrans
  <2>8. ASSUME NEW j \in 1 .. (m + 1) PROVE HasSpan(y, over[j])
    <3>1. CASE j = m + 1
      BY <3>1, <2>6
    <3>2. CASE j # m + 1
      <4>1. HasSpan(x, over[j])
        BY <3>2, <2>4
      <4> QED
        BY <4>1, <2>5, <2>6, HasSpanKept
    <3> QED
      BY <3>1, <3>2
  <2> QED
    BY <2>7, <2>8
<1> HIDE DEF S, Fine
<1>4. n \in S
  BY <1>0, <1>2, <1>3, NatInductionOn
<1>5. Fine(n)
  BY <1>0, <1>4 DEF S
<1> QED
  BY <1>0, <1>1, <1>5 DEF Fine

\* What resolving digests changes.
Covering(sc, s) == Ended(sc, s, {"span", "over"}) /\ SpansOk(s) /\ KeptSpans(sc, s)

\* Only this digest's spans are new.
Written(s, a, f) == [s EXCEPT !.ops[a].over = f]
LEMMA WrittenIs ==
  ASSUME NEW s, ScopeOk(s), SpansOk(s), NEW a \in DOMAIN s.ops, NEW f
  PROVE  /\ Ended(s, Written(s, a, f), {"over"}) /\ SpansOk(Written(s, a, f)) /\ Written(s, a, f).syms = s.syms
         /\ Written(s, a, f).ops[a].over = f
         /\ \A o \in DOMAIN s.ops : o # a => Written(s, a, f).ops[o] = s.ops[o]
<1> DEFINE op2 == [s.ops[a] EXCEPT !.over = f]
           ops2 == Put(s.ops, a, op2)
           t == Written(s, a, f)
<1>1. t = [s EXCEPT !.ops = ops2]
  BY DEF Written, Put
<1>2. DOMAIN s = ScopeFields /\ Stack(s.ops) /\ Stack(s.syms) /\ \A o \in DOMAIN s.ops : OpShape(s.ops[o])
  BY DEF ScopeOk, ScopeShape
<1>3. DOMAIN s.ops[a] = OpFields
  BY <1>2 DEF OpShape
<1>4. DOMAIN op2 = OpFields /\ op2.over = f /\ \A x \in OpFields \ {"over"} : op2[x] = s.ops[a][x]
  BY <1>3 DEF OpFields
<1> HIDE DEF op2
<1>5. Stack(ops2) /\ DOMAIN ops2 = DOMAIN s.ops /\ ops2[a] = op2
      /\ \A o \in DOMAIN s.ops : o # a => ops2[o] = s.ops[o]
  BY <1>2, StackPut
<1> HIDE DEF ops2, t
<1>6. DOMAIN t = ScopeFields /\ t.ops = ops2 /\ \A x \in ScopeFields \ {"ops"} : t[x] = s[x]
  BY <1>1, <1>2 DEF ScopeFields
<1>7. op2.items = s.ops[a].items /\ op2.op = s.ops[a].op /\ op2.width = s.ops[a].width /\ op2.min = s.ops[a].min
      /\ op2.static = s.ops[a].static /\ op2.frames = s.ops[a].frames
  BY <1>4 DEF OpFields
<1>8. OpEnded(s.ops[a], op2, {"over"})
  <2>1. SameBut(s.ops[a], op2, {"items"} \cup {"over"})
    BY <1>3, <1>4 DEF SameBut
  <2>2. Sized(s.ops[a]) => Sized(op2)
    BY <1>7 DEF Sized
  <2>3. Stack(op2.items) /\ \A i \in DOMAIN s.ops[a].items : SameBut(s.ops[a].items[i], op2.items[i], {"over"})
    BY <1>2, <1>7 DEF OpShape, SameBut
  <2> QED
    BY <2>1, <2>2, <2>3, <1>7 DEF OpEnded
<1>9. \A o \in DOMAIN s.ops : OpEnded(s.ops[o], ops2[o], {"over"})
  <2> TAKE o \in DOMAIN s.ops
  <2>1. CASE o = a
    BY <2>1, <1>5, <1>8
  <2>2. CASE o # a
    BY <2>2, <1>2, <1>5 DEF OpEnded, SameBut, OpShape
  <2> QED
    BY <2>1, <2>2
<1>10. t.syms = s.syms /\ t.nspans = s.nspans /\ SameBut(s, t, {"ops", "syms", "nspans"})
  BY <1>2, <1>6 DEF SameBut, ScopeFields
<1>11. Ended(s, t, {"over"})
  BY <1>2, <1>5, <1>6, <1>9, <1>10 DEF Ended, SameBut
<1>12. SpansOk(t)
  <2>1. {"over"} \subseteq EndFields /\ "span" \notin {"over"}
    BY DEF EndFields
  <2> QED
    BY <2>1, <1>11, SpansStay
<1> QED
  BY <1>4, <1>5, <1>6, <1>10, <1>11, <1>12 DEF t

LEMMA CoveringTrans ==
  ASSUME NEW a, NEW b, NEW c, Covering(a, b), Covering(b, c)
  PROVE  Covering(a, c)
<1>1. Ended(a, c, {"span", "over"} \cup {"span", "over"})
  BY EndedTrans DEF Covering
<1>2. {"span", "over"} \cup {"span", "over"} = {"span", "over"}
  OBVIOUS
<1>3. Ended(a, c, {"span", "over"})
  BY <1>1, <1>2
<1>4. DOMAIN b.syms = DOMAIN a.syms /\ DOMAIN c.syms = DOMAIN b.syms
  BY DEF Covering, Ended
<1>5. KeptSpans(a, c)
  BY <1>4, KeptTrans DEF Covering
<1> QED
  BY <1>3, <1>5 DEF Covering

LEMMA CoveringScope ==
  ASSUME NEW sc, ScopeOk(sc), NEW s, Covering(sc, s)
  PROVE  /\ ScopeOk(s) /\ SpansOk(s) /\ \A p \in DOMAIN sc.syms : s.syms[p].name = sc.syms[p].name
         /\ DOMAIN s.syms = DOMAIN sc.syms /\ DOMAIN s.ops = DOMAIN sc.ops
<1>1. {"span", "over"} \in SUBSET EndFields
  BY DEF EndFields
<1>2. Ended(sc, s, {"span", "over"}) /\ SpansOk(s)
  BY DEF Covering
<1>3. EndedSame(sc, s)
  BY <1>1, <1>2, EndedOk
<1> QED
  BY <1>2, <1>3 DEF EndedSame, Ended

LEMMA CoverAllOk ==
  ASSUME NEW sc, ScopeOk(sc), SpansOk(sc), NEW d, d.op \in DOMAIN sc.ops, Listed(d.over), NEW t \in CoverAll(sc, d)
  PROVE  /\ Covering(sc, t) /\ DigestDone(t, d)
         /\ \A o \in DOMAIN sc.ops : o # d.op => t.ops[o].over = sc.ops[o].over
<1>1. PICK s \in CoverEach(sc, d.over) :
        t = [s EXCEPT !.ops[d.op].over = [j \in DOMAIN d.over |-> The(s.syms[The(Position(s, d.over[j]))].span)]]
  BY DEF CoverAll
<1> DEFINE f == [j \in DOMAIN d.over |-> The(s.syms[The(Position(s, d.over[j]))].span)]
<1>2. Spanned(sc, s) /\ \A j \in DOMAIN d.over : HasSpan(s, d.over[j])
  BY CoverEachOk
<1>3. ScopeOk(s) /\ SpansOk(s) /\ DOMAIN s.ops = DOMAIN sc.ops
  BY <1>2, SpannedScope DEF Spanned, Ended
<1>4. t = Written(s, d.op, f)
  BY <1>1 DEF Written
<1> HIDE DEF f
<1>10. d.op \in DOMAIN s.ops
  BY <1>3
<1>5. /\ Ended(s, t, {"over"}) /\ SpansOk(t) /\ t.syms = s.syms /\ t.ops[d.op].over = f
      /\ \A o \in DOMAIN s.ops : o # d.op => t.ops[o] = s.ops[o]
  BY <1>3, <1>4, <1>10, WrittenIs
<1>6. Covering(sc, t)
  <2>1. Ended(sc, t, {"span"} \cup {"over"})
    BY <1>2, <1>5, EndedTrans DEF Spanned
  <2>2. {"span"} \cup {"over"} = {"span", "over"}
    OBVIOUS
  <2>3. Ended(sc, t, {"span", "over"})
    BY <2>1, <2>2
  <2>4. KeptSpans(sc, t)
    BY <1>2, <1>5 DEF Spanned, KeptSpans
  <2> QED
    BY <2>3, <2>4, <1>5 DEF Covering
<1>7. ASSUME NEW j \in DOMAIN d.over
      PROVE  \E p \in DOMAIN t.syms : t.syms[p].name = d.over[j] /\ t.syms[p].span = {t.ops[d.op].over[j]}
  <2>1. PICK p \in DOMAIN s.syms : s.syms[p].name = d.over[j] /\ \E x : s.syms[p].span = {x}
    BY <1>2, <1>7 DEF HasSpan
  <2>2. PICK x : s.syms[p].span = {x}
    BY <2>1
  <2>3. The(Position(s, d.over[j])) = p
    BY <1>3, <2>1, ThePosition
  <2>4. f[j] = The(s.syms[p].span)
    BY <1>7, <2>3 DEF f
  <2>5. f[j] = x
    BY <2>2, <2>4, TheOnly
  <2> QED
    BY <1>5, <2>1, <2>2, <2>5
<1>8. \A o \in DOMAIN sc.ops : o # d.op => t.ops[o].over = sc.ops[o].over
  <2> SUFFICES ASSUME NEW o \in DOMAIN sc.ops, o # d.op PROVE t.ops[o].over = sc.ops[o].over
    OBVIOUS
  <2>1. t.ops[o] = s.ops[o]
    BY <1>3, <1>5
  <2>2. OpEnded(sc.ops[o], s.ops[o], {"span"}) /\ OpShape(sc.ops[o])
    BY <1>2 DEF Spanned, Ended, ScopeOk, ScopeShape
  <2>3. s.ops[o].over = sc.ops[o].over
    BY <2>2 DEF OpEnded, SameBut, OpShape, OpFields
  <2> QED
    BY <2>1, <2>3
<1>9. DigestDone(t, d)
  BY <1>7 DEF DigestDone
<1> QED
  BY <1>6, <1>8, <1>9

\* The digests of a scope are resolved one after the other.
AfterDigest(ss, d) == UNION {CoverAll(s, d) : s \in ss}
DigestRuns(f, sc) ==
  /\ f[0] = {sc}
  /\ \A j \in 1 .. Len(sc.digests) : f[j] = AfterDigest(f[j - 1], sc.digests[j])
  /\ ResolveDigests(sc) = f[Len(sc.digests)]
LEMMA DigestRunsAre ==
  ASSUME NEW sc, Stack(sc.digests)
  PROVE  \E f : DigestRuns(f, sc)
<1> DEFINE n == Len(sc.digests)
           Step(j, x) == AfterDigest(x, sc.digests[j])
           Ok(m, g) == g = [j \in 0 .. m |-> g[j]] /\ g[0] = {sc} /\ \A j \in 1 .. m : g[j] = Step(j, g[j - 1])
           S == {m \in Nat : \E g : Ok(m, g)}
           Eq(g) == g = [j \in 0 .. n |-> IF j = 0 THEN {sc} ELSE Step(j, g[j - 1])]
           f == CHOOSE g : Eq(g)
<1>0. n \in Nat
  BY StackDom
<1>1. 0 \in S
  <2> DEFINE g == [i \in 0 .. 0 |-> {sc}]
  <2> HIDE DEF Step
  <2>1. Ok(0, g)
    OBVIOUS
  <2> QED
    BY <2>1
<1>2. ASSUME NEW m \in Nat, m \in S PROVE m + 1 \in S
  <2> HIDE DEF Step
  <2>1. PICK g : Ok(m, g)
    BY <1>2
  <2> DEFINE h == [j \in 0 .. (m + 1) |-> IF j = m + 1 THEN Step(m + 1, g[m]) ELSE g[j]]
  <2>2. ASSUME NEW j \in 1 .. (m + 1) PROVE h[j] = Step(j, h[j - 1])
    <3>1. CASE j = m + 1
      BY <3>1
    <3>2. CASE j # m + 1
      <4>1. j \in 1 .. m /\ j \in 0 .. (m + 1) /\ j - 1 \in 0 .. (m + 1) /\ j - 1 # m + 1
        BY <3>2
      <4>2. h[j] = g[j] /\ h[j - 1] = g[j - 1]
        BY <3>2, <4>1
      <4> QED
        BY <2>1, <4>1, <4>2
    <3> QED
      BY <3>1, <3>2
  <2>3. h[0] = {sc} /\ h = [j \in 0 .. (m + 1) |-> h[j]]
    BY <2>1
  <2> HIDE DEF h
  <2>4. Ok(m + 1, h)
    BY <2>2, <2>3
  <2> HIDE DEF Ok
  <2> QED
    BY <2>4
<1> HIDE DEF S
<1>3. n \in S
  BY <1>0, <1>1, <1>2, NatInductionOn
<1>4. PICK g : Ok(n, g)
  BY <1>3 DEF S
<1> HIDE DEF Step
<1>5. \A j \in 0 .. n : g[j] = IF j = 0 THEN {sc} ELSE Step(j, g[j - 1])
  <2> TAKE j \in 0 .. n
  <2>1. j = 0 \/ (j # 0 /\ j \in 1 .. n)
    BY <1>0
  <2> QED
    BY <1>4, <2>1
<1>6. Eq(g)
  BY <1>4, <1>5
<1>7. Eq(f)
  BY <1>6
<1>8. ResolveDigests(sc) = f[n]
  BY DEF ResolveDigests, Step, AfterDigest
<1> HIDE DEF f
<1>9. \A j \in 0 .. n : f[j] = IF j = 0 THEN {sc} ELSE Step(j, f[j - 1])
  BY <1>7
<1>10. f[0] = {sc} /\ \A j \in 1 .. n : f[j] = Step(j, f[j - 1])
  <2>1. 0 \in 0 .. n /\ \A j \in 1 .. n : j \in 0 .. n /\ j # 0
    BY <1>0
  <2> QED
    BY <1>9, <2>1
<1> QED
  BY <1>8, <1>10 DEF Step, DigestRuns

LEMMA ResolveDigestsOk ==
  ASSUME NEW sc, ScopeOk(sc), SpansOk(sc), DigestsOk(sc), NEW s \in ResolveDigests(sc)
  PROVE  Covering(sc, s) /\ \A k \in DOMAIN sc.digests : DigestDone(s, sc.digests[k])
<1> DEFINE n == Len(sc.digests)
<1>20. Stack(sc.digests)
  BY DEF ScopeOk, ScopeShape
<1>0. n \in Nat /\ DOMAIN sc.digests = 1 .. n
  BY <1>20, StackDom
<1>10. PICK f : DigestRuns(f, sc)
  BY <1>20, DigestRunsAre
<1>1. f[0] = {sc} /\ (\A j \in 1 .. n : f[j] = AfterDigest(f[j - 1], sc.digests[j])) /\ ResolveDigests(sc) = f[n]
  BY <1>10 DEF DigestRuns
<1> HIDE DEF n
<1> DEFINE Fine(m) == \A x \in f[m] : Covering(sc, x) /\ \A k \in 1 .. m : DigestDone(x, sc.digests[k])
           S == {m \in Nat : m <= n => Fine(m)}
<1>2. 0 \in S
  <2>1. Covering(sc, sc)
    BY EndedSelf DEF ScopeOk, Covering, KeptSpans
  <2> QED
    BY <1>1, <2>1
<1>3. ASSUME NEW m \in Nat, m \in S PROVE m + 1 \in S
  <2> SUFFICES ASSUME m + 1 <= n, NEW y \in f[m + 1]
               PROVE  Covering(sc, y) /\ \A k \in 1 .. (m + 1) : DigestDone(y, sc.digests[k])
    OBVIOUS
  <2>1. m + 1 \in 1 .. n /\ (m + 1) - 1 = m /\ m <= n
    BY <1>0
  <2> DEFINE d == sc.digests[m + 1]
  <2>2. y \in AfterDigest(f[m], d)
    BY <1>1, <2>1
  <2>3. PICK x \in f[m] : y \in CoverAll(x, d)
    BY <2>2 DEF AfterDigest
  <2>4. Covering(sc, x) /\ \A k \in 1 .. m : DigestDone(x, sc.digests[k])
    BY <1>3, <2>1
  <2> HIDE DEF S
  <2>5. ScopeOk(x) /\ SpansOk(x) /\ DOMAIN x.ops = DOMAIN sc.ops
    BY <2>4, CoveringScope
  <2>6. d.op \in DOMAIN x.ops /\ Listed(d.over) /\ \A k \in 1 .. m : sc.digests[k].op \in DOMAIN x.ops /\ sc.digests[k].op # d.op
    BY <1>0, <2>1, <2>5 DEF DigestsOk
  <2> HIDE DEF d
  <2>7. /\ Covering(x, y) /\ DigestDone(y, d)
        /\ \A o \in DOMAIN x.ops : o # d.op => y.ops[o].over = x.ops[o].over
    BY <2>3, <2>5, <2>6, CoverAllOk
  <2>8. Covering(sc, y)
    BY <2>4, <2>7, CoveringTrans
  <2>9. ASSUME NEW k \in 1 .. (m + 1) PROVE DigestDone(y, sc.digests[k])
    <3>1. CASE k = m + 1
      BY <3>1, <2>7 DEF d
    <3>2. CASE k # m + 1
      <4> DEFINE e == sc.digests[k]
      <4>1. DigestDone(x, e) /\ e.op \in DOMAIN x.ops /\ e.op # d.op
        BY <3>2, <2>4, <2>6
      <4> HIDE DEF e
      <4>2. y.ops[e.op].over = x.ops[e.op].over
        BY <4>1, <2>7
      <4>3. DOMAIN y.syms = DOMAIN x.syms /\ \A p \in DOMAIN x.syms : y.syms[p].name = x.syms[p].name
        BY <2>5, <2>7, CoveringScope
      <4>4. ASSUME NEW j \in DOMAIN e.over
            PROVE  \E p \in DOMAIN y.syms : y.syms[p].name = e.over[j] /\ y.syms[p].span = {y.ops[e.op].over[j]}
        <5>1. PICK p \in DOMAIN x.syms : x.syms[p].name = e.over[j] /\ x.syms[p].span = {x.ops[e.op].over[j]}
          BY <4>1, <4>4 DEF DigestDone
        <5>2. x.syms[p].span # {}
          BY <5>1
        <5>3. y.syms[p].span = x.syms[p].span
          BY <5>2, <2>7 DEF Covering, KeptSpans
        <5> QED
          BY <5>1, <5>3, <4>2, <4>3
      <4>5. DigestDone(y, e)
        BY <4>4 DEF DigestDone
      <4> QED
        BY <4>5 DEF e
    <3> QED
      BY <3>1, <3>2
  <2> QED
    BY <2>8, <2>9
<1> HIDE DEF S, Fine
<1>4. n \in S
  BY <1>0, <1>2, <1>3, NatInductionOn
<1>5. Fine(n)
  BY <1>0, <1>4 DEF S
<1> QED
  BY <1>0, <1>1, <1>5 DEF Fine

\* A symbol's register is its item's.
LEMMA SymItem ==
  ASSUME NEW sc, ScopeOk(sc), NEW p \in DOMAIN sc.syms, sc.syms[p].item # 0
  PROVE  /\ InScope(sc, sc.syms[p].op, sc.syms[p].item)
         /\ RegAt(sc, sc.syms[p].op, sc.syms[p].item) = sc.syms[p].reg
         /\ sc.ops[sc.syms[p].op].items[sc.syms[p].item].const = sc.syms[p].const
         /\ sc.ops[sc.syms[p].op].items[sc.syms[p].item].key = {sc.syms[p].name}
<1>1. SymPlaced(sc, sc.syms[p])
  BY DEF ScopeOk, SymsOk
<1> QED
  BY <1>1 DEF SymPlaced, ItemOf, InScope, RegAt

\* Code in this scope or further in reads an item by its register: the item has
\* a symbol, and it is noted there.
SymNoted(sc, p, o, i, role) ==
  /\ sc.syms[p].op = o /\ sc.syms[p].item = i /\ sc.syms[p].reg = RegAt(sc, o, i)
  /\ role = "Len" /\ sc.syms[p].const = FALSE => sc.syms[p].len_referenced = TRUE
  /\ role = "On" => sc.syms[p].used_in_on = TRUE

LEMMA ReadSym ==
  ASSUME NEW sc, ScopeOk(sc), NEW R, ReadsHit(sc, R), NEW o, NEW i, InScope(sc, o, i), NEW role,
         ReadBy(R, RegAt(sc, o, i), role)
  PROVE  \E p \in DOMAIN sc.syms : SymNoted(sc, p, o, i, role)
<1>1. PICK r \in R : r.up = 0 /\ RegAt(sc, o, i) = {r.idx} /\ r.role = role
  BY DEF ReadBy
<1>2. PICK p \in DOMAIN sc.syms :
        /\ sc.syms[p].reg = {r.idx}
        /\ r.role = "Len" /\ sc.syms[p].const = FALSE => sc.syms[p].len_referenced = TRUE
        /\ r.role = "On" => sc.syms[p].used_in_on = TRUE
  BY <1>1 DEF ReadsHit
<1>3. SymPlaced(sc, sc.syms[p])
  BY DEF ScopeOk, SymsOk
<1>4. sc.syms[p].item # 0
  BY <1>2, <1>3 DEF SymPlaced
<1>5. InScope(sc, sc.syms[p].op, sc.syms[p].item) /\ RegAt(sc, sc.syms[p].op, sc.syms[p].item) = {r.idx}
  BY <1>2, <1>4, SymItem
<1>6. RegsApart(sc) /\ {r.idx} # {}
  BY DEF ScopeOk
<1>7. Same(o, i, sc.syms[p].op, sc.syms[p].item)
  BY <1>1, <1>5, <1>6 DEF RegsApart, InScope
<1> QED
  BY <1>1, <1>2, <1>7 DEF Same, SymNoted

\* What resolve_deferred_derives decides by the notes on the symbols is what
\* the scope's code and the code further in say.
DerivesWhen(R, reg, const) == ReadBy(R, reg, "Len") /\ ~ReadBy(R, reg, "On") /\ ~const

LEMMA DerivingIs ==
  ASSUME NEW sc, ScopeOk(sc), NEW R, ReadsHit(sc, R), NotedRead(sc, R), NEW o, NEW i, InScope(sc, o, i)
  PROVE  Deriving(sc, o, i) <=> DerivesWhen(R, RegAt(sc, o, i), sc.ops[o].items[i].const)
<1>0. i # 0
  <2>1. Stack(sc.ops[o].items)
    BY DEF InScope, ScopeOk, ScopeShape, OpShape
  <2> QED
    BY <2>1, StackDom DEF InScope
<1>1. ASSUME NEW p \in DOMAIN sc.syms, sc.syms[p].op = o, sc.syms[p].item = i
      PROVE  /\ sc.syms[p].reg = RegAt(sc, o, i) /\ sc.syms[p].const = sc.ops[o].items[i].const
             /\ sc.syms[p].const \in BOOLEAN /\ sc.syms[p].len_referenced \in BOOLEAN /\ sc.syms[p].used_in_on \in BOOLEAN
  <2>1. sc.syms[p].const \in BOOLEAN /\ sc.syms[p].len_referenced \in BOOLEAN /\ sc.syms[p].used_in_on \in BOOLEAN
    BY DEF ScopeOk, SymsOk
  <2> QED
    BY <1>0, <1>1, <2>1, SymItem
<1>2. ASSUME Deriving(sc, o, i)
      PROVE  DerivesWhen(R, RegAt(sc, o, i), sc.ops[o].items[i].const)
  <2>1. PICK p \in DOMAIN sc.syms : sc.syms[p].op = o /\ sc.syms[p].item = i /\ Derives(sc.syms[p])
    BY <1>2 DEF Deriving
  <2>2. sc.syms[p].len_referenced = TRUE /\ sc.syms[p].used_in_on = FALSE /\ ~sc.syms[p].const
    BY <1>1, <2>1 DEF Derives
  <2>3. ReadBy(R, RegAt(sc, o, i), "Len")
    BY <1>1, <2>1, <2>2 DEF NotedRead
  <2>4. ~ReadBy(R, RegAt(sc, o, i), "On")
    <3> SUFFICES ASSUME ReadBy(R, RegAt(sc, o, i), "On") PROVE FALSE
      OBVIOUS
    <3>3. PICK q \in DOMAIN sc.syms : SymNoted(sc, q, o, i, "On")
      BY ReadSym
    <3>1. sc.syms[q].op = o /\ sc.syms[q].item = i /\ sc.syms[q].used_in_on = TRUE
      BY <3>3 DEF SymNoted
    <3>2. p = q
      BY <2>1, <3>1, SymsApart
    <3> QED
      BY <2>2, <3>1, <3>2
  <2> QED
    BY <1>1, <2>1, <2>2, <2>3, <2>4 DEF DerivesWhen
<1>3. ASSUME DerivesWhen(R, RegAt(sc, o, i), sc.ops[o].items[i].const)
      PROVE  Deriving(sc, o, i)
  <2>1. ReadBy(R, RegAt(sc, o, i), "Len") /\ ~ReadBy(R, RegAt(sc, o, i), "On") /\ ~sc.ops[o].items[i].const
    BY <1>3 DEF DerivesWhen
  <2>6. PICK p \in DOMAIN sc.syms : SymNoted(sc, p, o, i, "Len")
    BY <2>1, ReadSym
  <2>2. /\ sc.syms[p].op = o /\ sc.syms[p].item = i /\ sc.syms[p].reg = RegAt(sc, o, i)
        /\ sc.syms[p].const = FALSE => sc.syms[p].len_referenced = TRUE
    BY <2>6 DEF SymNoted
  <2>3. sc.syms[p].const = FALSE /\ sc.syms[p].len_referenced = TRUE
    BY <1>1, <2>1, <2>2
  <2>4. sc.syms[p].used_in_on = FALSE
    BY <1>1, <2>1, <2>2 DEF NotedRead
  <2>5. Derives(sc.syms[p])
    BY <2>3, <2>4 DEF Derives
  <2> QED
    BY <2>2, <2>5 DEF Deriving
<1> QED
  BY <1>2, <1>3

\* The end of a scope, all three steps.
LEMMA ScopeEnded ==
  ASSUME NEW sc, ScopeOk(sc), Sound(sc), NEW sa \in AlignBits(ResolveDerives(sc)), NEW s \in ResolveDigests(sa)
  PROVE  Ended(sc, s, EndFields) /\ DerivedAs(sc, s) /\ SpansOk(s) /\ DigestsDone(s)
<1> DEFINE sd == ResolveDerives(sc)
<1>1. Ended(sc, sd, {"derived"}) /\ DerivedAs(sc, sd)
  BY ResolveDerivesOk
<1> HIDE DEF sd
<1>2. {"derived"} \in SUBSET EndFields /\ SizeFields \in SUBSET EndFields /\ {"span", "over"} \in SUBSET EndFields
      /\ "span" \notin {"derived"} /\ "span" \notin SizeFields
      /\ EndFields = ({"derived"} \cup SizeFields) \cup {"span", "over"}
  BY DEF EndFields, SizeFields
<1>3. EndedSame(sc, sd)
  BY <1>1, <1>2, EndedOk
<1>4. ScopeOk(sd) /\ DigestsOk(sd)
  BY <1>3 DEF EndedSame, Sound
<1>5. \A o \in DOMAIN sd.ops : Sized(sd.ops[o])
  BY <1>1 DEF Ended, OpEnded, Sound
<1>6. SpansOk(sc)
  BY SoundSpans
<1>7. SpansOk(sd)
  BY <1>1, <1>2, <1>6, SpansStay
<1>8. Ended(sd, sa, SizeFields)
  BY <1>4, <1>5, AlignOk DEF sd
<1>9. EndedSame(sd, sa)
  BY <1>2, <1>4, <1>8, EndedOk
<1>10. ScopeOk(sa) /\ DigestsOk(sa)
  BY <1>4, <1>9 DEF EndedSame
<1>11. SpansOk(sa)
  BY <1>2, <1>4, <1>7, <1>8, SpansStay
<1>12. Covering(sa, s) /\ \A k \in DOMAIN sa.digests : DigestDone(s, sa.digests[k])
  BY <1>10, <1>11, ResolveDigestsOk
<1>13. Ended(sa, s, {"span", "over"}) /\ SpansOk(s)
  BY <1>12 DEF Covering
<1>14. Ended(sc, sa, {"derived"} \cup SizeFields)
  BY <1>1, <1>8, EndedTrans
<1>15. Ended(sc, s, ({"derived"} \cup SizeFields) \cup {"span", "over"})
  BY <1>13, <1>14, EndedTrans
<1>16. Ended(sc, s, EndFields)
  BY <1>2, <1>15
<1>17. DigestsDone(s)
  <2>1. s.digests = sa.digests
    BY <1>10, <1>13 DEF Ended, SameBut, ScopeOk, ScopeShape, ScopeFields
  <2> QED
    BY <1>12, <2>1 DEF DigestsDone
<1>18. ASSUME NEW o \in DOMAIN sc.ops, NEW i \in DOMAIN sc.ops[o].items
       PROVE  s.ops[o].items[i].derived = Deriving(sc, o, i)
  <2>1. OpEnded(sc.ops[o], sd.ops[o], {"derived"}) /\ DOMAIN sd.ops = DOMAIN sc.ops
    BY <1>1 DEF Ended
  <2>2. OpEnded(sd.ops[o], sa.ops[o], SizeFields) /\ DOMAIN sa.ops = DOMAIN sc.ops
    BY <1>8, <2>1 DEF Ended
  <2>3. OpEnded(sa.ops[o], s.ops[o], {"span", "over"})
    BY <1>13, <2>2 DEF Ended
  <2>4. i \in DOMAIN sd.ops[o].items /\ i \in DOMAIN sa.ops[o].items
    BY <2>1, <2>2, <1>18 DEF OpEnded
  <2>5. DOMAIN sd.ops[o].items[i] = ItemFields /\ DOMAIN sa.ops[o].items[i] = ItemFields
    BY <1>4, <1>10, <2>1, <2>2, <2>4 DEF ScopeOk, ScopeShape, OpShape, ItemShape
  <2>6. sa.ops[o].items[i].derived = sd.ops[o].items[i].derived
    BY <2>2, <2>4, <2>5 DEF OpEnded, SameBut, ItemFields, SizeFields
  <2>7. s.ops[o].items[i].derived = sa.ops[o].items[i].derived
    BY <2>3, <2>4, <2>5 DEF OpEnded, SameBut, ItemFields
  <2> QED
    BY <1>1, <2>6, <2>7 DEF DerivedAs
<1>19. DerivedAs(sc, s)
  BY <1>18 DEF DerivedAs
<1> QED
  BY <1>13, <1>16, <1>17, <1>19

\* A scope that has its sizes.
LEMMA SizesOf ==
  ASSUME NEW s, Stack(s.ops), \A o \in DOMAIN s.ops : Sized(s.ops[o])
  PROVE  Program(s).min \in Nat /\ Program(s).static \subseteq {Program(s).min}
<1> DEFINE mins == [o \in DOMAIN s.ops |-> s.ops[o].min]
           stats == [o \in DOMAIN s.ops |-> The(s.ops[o].static)]
           every == \A o \in DOMAIN s.ops : s.ops[o].static # {}
<1>1. Len(s.ops) \in Nat /\ DOMAIN s.ops = 1 .. Len(s.ops)
  BY StackDom
<1>2. mins \in [1 .. Len(s.ops) -> Nat]
  BY <1>1 DEF Sized
<1>3. Total(mins) \in Nat
  BY <1>1, <1>2, TotalNat
<1>4. Program(s).min = Total(mins) /\ Program(s).static = IF every THEN {Total(stats)} ELSE {}
  BY DEF Program
<1>5. ASSUME every PROVE stats = mins
  <2>1. \A o \in DOMAIN s.ops : The(s.ops[o].static) = s.ops[o].min
    <3> TAKE o \in DOMAIN s.ops
    <3>1. s.ops[o].static \subseteq {s.ops[o].min} /\ s.ops[o].static # {}
      BY <1>5 DEF Sized
    <3>2. The(s.ops[o].static) \in s.ops[o].static
      BY <3>1, TheOne
    <3> QED
      BY <3>1, <3>2
  <2> QED
    BY <2>1
<1> HIDE DEF mins, stats, every
<1> QED
  BY <1>3, <1>4, <1>5

LEMMA ProgramOk ==
  ASSUME NEW sc, ScopeOk(sc), Sound(sc), ReadsOk(ScopeReads(sc)), ReadsHit(sc, ScopeReads(sc)),
         NotedRead(sc, ScopeReads(sc)), Max({0} \cup Frames(sc)) \in Nat,
         NEW sa \in AlignBits(ResolveDerives(sc)), NEW s \in ResolveDigests(sa)
  PROVE  /\ ProgOk(Program(s)) /\ Program(s).reads = ScopeReads(sc)
         /\ Program(s).frames = 1 + Max({0} \cup Frames(sc))
<1> DEFINE p == Program(s)
           R == ScopeReads(sc)
<1>1. Ended(sc, s, EndFields) /\ DerivedAs(sc, s) /\ SpansOk(s) /\ DigestsDone(s)
  BY ScopeEnded
<1>2. EndedSame(sc, s)
  BY <1>1, EndedOk
<1>3. /\ DOMAIN p = {"scope", "min", "static", "frames", "reads"}
      /\ p.scope = s /\ p.reads = ScopeReads(s) /\ p.frames = 1 + Max({0} \cup Frames(s))
  BY DEF Program, ScopeReads, Frames
<1>4. p.reads = R /\ p.frames = 1 + Max({0} \cup Frames(sc))
  BY <1>2, <1>3 DEF EndedSame
<1>5. p.min \in Nat /\ p.static \subseteq {p.min}
  <2>1. Stack(s.ops) /\ \A o \in DOMAIN s.ops : Sized(s.ops[o])
    BY <1>1 DEF Ended, OpEnded, Sound
  <2> QED
    BY <2>1, SizesOf
<1> HIDE DEF p, R
<1>6. ReadsHit(s, R)
  <2> SUFFICES ASSUME NEW r \in R, r.up = 0
               PROVE  \E q \in DOMAIN s.syms :
                        /\ s.syms[q].name = r.name
                        /\ s.syms[q].reg = {r.idx}
                        /\ r.role = "Len" /\ s.syms[q].const = FALSE => s.syms[q].len_referenced = TRUE
                        /\ r.role = "On" => s.syms[q].used_in_on = TRUE
    BY DEF ReadsHit
  <2>1. PICK q \in DOMAIN sc.syms :
                        /\ sc.syms[q].name = r.name
                        /\ sc.syms[q].reg = {r.idx}
                        /\ r.role = "Len" /\ sc.syms[q].const = FALSE => sc.syms[q].len_referenced = TRUE
                        /\ r.role = "On" => sc.syms[q].used_in_on = TRUE
    BY DEF ReadsHit, R
  <2>2. q \in DOMAIN s.syms
    BY <1>1 DEF Ended
  <2>3. /\ s.syms[q].name = sc.syms[q].name /\ s.syms[q].reg = sc.syms[q].reg /\ s.syms[q].const = sc.syms[q].const
        /\ s.syms[q].len_referenced = sc.syms[q].len_referenced /\ s.syms[q].used_in_on = sc.syms[q].used_in_on
    BY <1>2 DEF EndedSame
  <2> QED
    BY <2>1, <2>2, <2>3
<1>7. DerivedOk(p)
  <2> SUFFICES ASSUME NEW o \in DOMAIN s.ops, NEW i \in DOMAIN s.ops[o].items
               PROVE  s.ops[o].items[i].derived <=>
                        /\ ReadBy(R, RegAt(s, o, i), "Len") /\ ~ReadBy(R, RegAt(s, o, i), "On")
                        /\ ~s.ops[o].items[i].const
    BY <1>3, <1>4 DEF DerivedOk
  <2>1. o \in DOMAIN sc.ops /\ OpEnded(sc.ops[o], s.ops[o], EndFields)
    BY <1>1 DEF Ended
  <2>2. i \in DOMAIN sc.ops[o].items /\ SameBut(sc.ops[o].items[i], s.ops[o].items[i], EndFields)
    BY <2>1 DEF OpEnded
  <2>3. DOMAIN sc.ops[o].items[i] = ItemFields
    BY <2>1, <2>2 DEF ScopeOk, ScopeShape, OpShape, ItemShape
  <2>4. s.ops[o].items[i].const = sc.ops[o].items[i].const
    BY <2>2, <2>3 DEF SameBut, ItemFields, EndFields
  <2>5. RegAt(s, o, i) = RegAt(sc, o, i)
    BY <1>2, <2>1, <2>2 DEF EndedSame
  <2>6. s.ops[o].items[i].derived = Deriving(sc, o, i)
    BY <1>1, <2>1, <2>2 DEF DerivedAs
  <2>7. Deriving(sc, o, i) <=> DerivesWhen(R, RegAt(sc, o, i), sc.ops[o].items[i].const)
    BY <2>1, <2>2, DerivingIs DEF InScope, R
  <2> QED
    BY <2>4, <2>5, <2>6, <2>7 DEF DerivesWhen
<1>8. p.frames \in Nat
  BY <1>4
<1>9. ProgReadsOk(p)
  BY <1>3, <1>4, <1>6 DEF ProgReadsOk, R
<1>10. ScopeOk(p.scope) /\ SpansOk(p.scope) /\ DigestsDone(p.scope)
  BY <1>1, <1>2, <1>3 DEF EndedSame
<1>11. ProgOk(p)
  BY <1>3, <1>5, <1>7, <1>8, <1>9, <1>10 DEF ProgOk
<1> QED
  BY <1>4, <1>11 DEF p, R

LEMMA EndScopeOk == ASSUME CompilerInv, EndScope PROVE CompilerInv'
<1> DEFINE done == UNION {ResolveDigests(sc) : sc \in AlignBits(ResolveDerives(Top(scopes)))}
           outermost == Len(todo) = 1
           tooDeep(p) == outermost /\ p.frames > MAX_DEPTH
<1>1. mode = "run" /\ Top(todo).k = "fields"
  BY DEF EndScope
<1>2. Wrong \/ \E sc \in done :
              /\ ~tooDeep(Program(sc))
              /\ got' = {Program(sc)}
              /\ scopes' = Front(scopes) /\ todo' = Front(todo)
              /\ mode' = IF outermost THEN "ok" ELSE "ret"
              /\ UNCHANGED deepest
  BY DEF EndScope
<1>3. CASE Wrong
  BY <1>3, WrongOk
<1>4. CASE ~Wrong
  <2>1. PICK s \in done :
              /\ ~tooDeep(Program(s))
              /\ got' = {Program(s)}
              /\ scopes' = Front(scopes) /\ todo' = Front(todo)
              /\ mode' = IF outermost THEN "ok" ELSE "ret"
              /\ deepest' = deepest
    BY <1>2, <1>4
  <2>2. PICK sa \in AlignBits(ResolveDerives(Top(scopes))) : s \in ResolveDigests(sa)
    BY <2>1
  <2>3. Running(scopes, todo, deepest)
    BY <1>1 DEF CompilerInv
  <2>4. PICK lev : Good(scopes, todo, lev, {}, {}, deepest)
    BY <2>3 DEF Running
  <2> DEFINE sc == Top(scopes)
             p == Program(s)
  <2>5. Core(scopes, todo, lev, {}) /\ Len(scopes) \in DOMAIN scopes
    BY <2>4, TopIn DEF Good
  <2>6. ScopeOk(sc) /\ ReadsOk(ScopeReads(sc)) /\ ReadsHit(sc, ScopeReads(sc)) /\ NotedRead(sc, ScopeReads(sc))
    BY <2>5, <1>1, CoreHere
  <2>7. Sound(sc)
    BY <2>4, <2>5 DEF Good, Top
  <2>8. Max({0} \cup Frames(sc)) \in Nat
    BY <2>4, ScopeDepth
  <2>9. ProgOk(p) /\ p.reads = ScopeReads(sc) /\ p.frames = 1 + Max({0} \cup Frames(sc))
    BY <2>2, <2>6, <2>7, <2>8, ProgramOk
  <2>10. CASE Len(todo) = 1
    <3>1. deepest = p.frames /\ Len(scopes) = 1
      BY <2>4, <2>9, <2>10, <1>1, LastDepth
    <3>2. mode' = "ok" /\ got' = {p} /\ scopes' = Front(scopes) /\ todo' = Front(todo) /\ deepest' = deepest
          /\ ~(p.frames > MAX_DEPTH)
      BY <2>1, <2>10
    <3>3. Stack(scopes) /\ Stack(todo)
      BY <2>5, TopIn
    <3>4. Front(scopes) = <<>> /\ Front(todo) = <<>>
      BY <2>10, <3>1 DEF Front
    <3>5. p.frames \in Nat /\ deepest <= MAX_DEPTH
      <4>1. MAX_DEPTH \in Nat /\ p.frames \in Nat
        BY <2>9, CompilerAssumption DEF ProgOk
      <4> QED
        BY <4>1, <3>1, <3>2
    <3> HIDE DEF p
    <3> QED
      BY <3>1, <3>2, <3>4, <3>5, <2>9 DEF CompilerInv
  <2>11. CASE Len(todo) # 1
    <3>1. /\ Good(Front(scopes), Front(todo), lev, Aims(Len(scopes), Outer(ScopeReads(sc))),
                 {Len(Front(scopes)) + (1 + Max({0} \cup Frames(sc)))}, deepest)
          /\ Top(Front(todo)).k = "nest" /\ Len(Front(scopes)) = Len(scopes) - 1
      BY <2>4, <2>11, <1>1, GoodEnd
    <3>2. Len(scopes) \in Nat
      BY <2>5, TopIn
    <3>3. Len(Front(scopes)) + 1 = Len(scopes)
      BY <3>1, <3>2
    <3> HIDE DEF p, sc
    <3>4. Built(Front(scopes), Front(todo), p, deepest)
      BY <3>1, <3>3, <2>9 DEF Built
    <3>5. mode' = "ret" /\ got' = {p} /\ scopes' = Front(scopes) /\ todo' = Front(todo) /\ deepest' = deepest
      BY <2>1, <2>11 DEF p
    <3> QED
      BY <3>4, <3>5 DEF CompilerInv
  <2> QED
    BY <2>10, <2>11
<1> QED
  BY <1>3, <1>4

LEMMA CompilerInitOk == CompilerInit => CompilerInv
<1> SUFFICES ASSUME CompilerInit PROVE CompilerInv
  OBVIOUS
<1> DEFINE lev == [j \in 1 .. 1 |-> 1]
           ss == <<NewScope>>
           td == <<Fields>>
<1>1. scopes = ss /\ todo = td /\ mode = "run" /\ got = {} /\ deepest = 1
  BY DEF CompilerInit
<1>2. ScopeOk(NewScope) /\ ScopeReads(NewScope) = {} /\ NewScope.syms = <<>> /\ Sound(NewScope) /\ Frames(NewScope) = {}
  BY NewScopeOk, NewScopeSound
<1>3. ActOk(Fields) /\ ActReads(Fields) = {} /\ Fields.k = "fields" /\ ActSized(Fields) /\ DoneFrames(Fields) = {}
  BY FieldsOk, FieldsSized
<1>4. DOMAIN ss = {1} /\ Len(ss) = 1 /\ ss[1] = NewScope /\ DOMAIN td = {1} /\ Len(td) = 1 /\ td[1] = Fields /\ lev[1] = 1
  OBVIOUS
<1>5. Stack(ss) /\ Stack(td) /\ td # <<>>
  <2>1. ss \in Seq({NewScope}) /\ td \in Seq({Fields})
    OBVIOUS
  <2> QED
    BY <2>1, IsStack
<1> HIDE DEF ss, td, lev
<1>6. ScopesOk(ss) /\ \A i \in DOMAIN ss : ReadsOk(ScopeReads(ss[i])) /\ Sound(ss[i])
  BY <1>2, <1>4, <1>5 DEF ScopesOk, ReadsOk
<1>7. Level(td, lev, Len(ss))
  BY <1>3, <1>4, <1>5 DEF Level
<1>8. NamesFree(ss, td, lev)
  BY <1>3, <1>4 DEF NamesFree
<1>9. AllAims(ss, td, lev) \cup {} = {}
  BY <1>2, <1>3, <1>4 DEF AllAims, OpAims, TodoAims, Aims
<1>10. AllHit(ss, {}) /\ AllNoted(ss, {})
  <2>1. \A i \in DOMAIN ss : DOMAIN ss[i].syms = {}
    BY <1>2, <1>4
  <2> QED
    BY <2>1 DEF AllHit, AllNoted
<1>11. Core(ss, td, lev, {})
  BY <1>6, <1>7, <1>8, <1>9, <1>10 DEF Core
<1>12. Peak(Depths(ss, td, lev) \cup {}, 1)
  <2>1. Depths(ss, td, lev) \cup {} = {1}
    BY <1>2, <1>3, <1>4 DEF Depths, OpDepths, TodoDepths, Rise
  <2> QED
    BY <2>1 DEF Peak
<1>13. \A j \in DOMAIN td : ActSized(td[j])
  BY <1>3, <1>4
<1>14. Good(ss, td, lev, {}, {}, 1)
  BY <1>6, <1>11, <1>12, <1>13 DEF Good
<1>15. Top(td).k # "nest"
  BY <1>3, <1>4 DEF Top
<1>16. Running(ss, td, 1)
  BY <1>14, <1>15 DEF Running
<1> QED
  BY <1>1, <1>16 DEF CompilerInv

LEMMA CompilerStepOk == CompilerInv /\ [CompilerNext]_cvars => CompilerInv'
<1> SUFFICES ASSUME CompilerInv, [CompilerNext]_cvars PROVE CompilerInv'
  OBVIOUS
<1>1. CASE Declare
  <2>1. PICK ty \in Types :
          (\E name \in FieldNames :
             \/ DeclFixed(name, ty) \/ DeclBits(name, ty) \/ DeclLeaf(name, ty) \/ DeclDigest(name, ty)
             \/ OpenStruct(name, ty) \/ OpenArray(name, ty) \/ OpenSwitch(name, ty) \/ OpenCond(name, ty))
          \/ ElemLeaf(ty)
    BY <1>1 DEF Declare
  <2>2. CASE ElemLeaf(ty)
    BY <2>2, ElemLeafOk
  <2>3. CASE ~ElemLeaf(ty)
    <3>1. PICK name \in FieldNames :
             \/ DeclFixed(name, ty) \/ DeclBits(name, ty) \/ DeclLeaf(name, ty) \/ DeclDigest(name, ty)
             \/ OpenStruct(name, ty) \/ OpenArray(name, ty) \/ OpenSwitch(name, ty) \/ OpenCond(name, ty)
      BY <2>1, <2>3
    <3>2. CASE DeclFixed(name, ty)
      BY <3>2, DeclFixedOk
    <3>3. CASE DeclBits(name, ty)
      BY <3>3, DeclBitsOk
    <3>4. CASE DeclLeaf(name, ty)
      BY <3>4, DeclLeafOk
    <3>5. CASE DeclDigest(name, ty)
      BY <3>5, DeclDigestOk
    <3>6. CASE OpenStruct(name, ty)
      BY <3>6, OpenStructOk
    <3>7. CASE OpenArray(name, ty)
      BY <3>7, OpenArrayOk
    <3>8. CASE OpenSwitch(name, ty)
      BY <3>8, OpenSwitchOk
    <3>9. CASE OpenCond(name, ty)
      BY <3>9, OpenCondOk
    <3> QED
      BY <3>1, <3>2, <3>3, <3>4, <3>5, <3>6, <3>7, <3>8, <3>9
  <2> QED
    BY <2>2, <2>3
<1>2. CASE TakeElem
  BY <1>2, TakeElemOk
<1>3. CASE TakeProg
  BY <1>3, TakeProgOk
<1>4. CASE EndScope
  BY <1>4, EndScopeOk
<1>5. CASE Compiled \/ UNCHANGED cvars
  <2>1. scopes' = scopes /\ todo' = todo /\ mode' = mode /\ got' = got /\ deepest' = deepest
    BY <1>5 DEF Compiled, cvars
  <2> QED
    BY <2>1 DEF CompilerInv
<1> QED
  BY <1>1, <1>2, <1>3, <1>4, <1>5 DEF CompilerNext

\* CompilerInv is an invariant of the compiler: scopes, activations and what is
\* handed over fit each other at every step of compile_field, compile_elem and
\* compile_scope.
THEOREM CompilerSafe == CompilerSpec => []CompilerInv
  BY CompilerInitOk, CompilerStepOk, PTL DEF CompilerSpec

(***************************************************************************)
(* What the invariant says of the scopes that are open and of a program    *)
(* that is finished.                                                       *)
(***************************************************************************)
LEMMA ProgramsOk ==
  ASSUME CompilerInv, NEW p \in Programs
  PROVE  got = {p} /\ ProgOk(p)
<1>1. p \in got /\ "scope" \in DOMAIN p
  BY DEF Programs
<1>2. \A op : OpOk(op) => "scope" \notin DOMAIN op
  BY DEF OpOk, OpShape, OpFields
<1>3. \/ \E op : got = {op} /\ OpOk(op)
      \/ \E q : got = {q} /\ ProgOk(q)
  BY <1>1 DEF CompilerInv, Waiting, Built
<1> QED
  BY <1>1, <1>2, <1>3

LEMMA OpenOnes ==
  ASSUME CompilerInv
  PROVE  /\ ScopesOk(scopes) /\ \A i \in DOMAIN scopes : ReadsOk(ScopeReads(scopes[i]))
         /\ AllHit(scopes, OpAims(scopes))
<1>1. CASE scopes = <<>>
  <2>1. Stack(scopes) /\ DOMAIN scopes = {}
    <3>1. scopes \in Seq({})
      BY <1>1
    <3>2. Stack(scopes)
      BY <3>1, IsStack
    <3>3. DOMAIN scopes = {}
      BY <1>1
    <3> QED
      BY <3>2, <3>3
  <2> QED
    BY <2>1 DEF ScopesOk, AllHit, OpAims
<1>2. CASE scopes # <<>>
  <2>1. \E td, lev, X, H, dp : Good(scopes, td, lev, X, H, dp)
    BY <1>2 DEF CompilerInv, Running, Waiting, Built
  <2>2. PICK td, lev, X, H, dp : Good(scopes, td, lev, X, H, dp)
    BY <2>1
  <2> QED
    BY <2>2 DEF Good, Core, AllHit, AllAims
<1> QED
  BY <1>1, <1>2

LEMMA ScopesAre ==
  ASSUME CompilerInv, NEW sc \in Scopes
  PROVE  ScopeOk(sc)
  BY ProgramsOk, OpenOnes DEF Scopes, ScopesOk, ProgOk

\* One item has a register.
LEMMA OwnersAre ==
  ASSUME NEW sc, ScopeOk(sc), NEW o, NEW i, InScope(sc, o, i), NEW idx, RegAt(sc, o, i) = {idx}
  PROVE  Owners(sc, idx) = {<<o, i>>} /\ OwnerOf(sc, idx) = sc.ops[o].items[i]
<1>1. \A o2 \in DOMAIN sc.ops : \A i2 \in DOMAIN sc.ops[o2].items :
        RegAt(sc, o2, i2) = {idx} => Same(o, i, o2, i2)
  <2> SUFFICES ASSUME NEW o2 \in DOMAIN sc.ops, NEW i2 \in DOMAIN sc.ops[o2].items, RegAt(sc, o2, i2) = {idx}
               PROVE  Same(o, i, o2, i2)
    OBVIOUS
  <2>1. RegsApart(sc) /\ RegAt(sc, o, i) = RegAt(sc, o2, i2) /\ RegAt(sc, o, i) # {}
    BY DEF ScopeOk
  <2> QED
    BY <2>1 DEF RegsApart, InScope
<1>2. \A at \in Places(sc) : at[1] \in DOMAIN sc.ops /\ at[2] \in DOMAIN sc.ops[at[1]].items /\ at = <<at[1], at[2]>>
  BY DEF Places
<1>3. <<o, i>> \in Places(sc)
  BY DEF Places, InScope
<1>4. \A at \in Owners(sc, idx) : at = <<o, i>>
  BY <1>1, <1>2 DEF Owners, Same, RegAt
<1>5. <<o, i>> \in Owners(sc, idx)
  BY <1>3 DEF Owners, RegAt
<1>6. Owners(sc, idx) = {<<o, i>>}
  BY <1>4, <1>5
<1>7. The(Owners(sc, idx)) = <<o, i>>
  BY <1>6, TheOnly
<1>8. OwnerOf(sc, idx) = sc.ops[The(Owners(sc, idx))[1]].items[The(Owners(sc, idx))[2]]
  BY DEF OwnerOf
<1> QED
  BY <1>6, <1>7, <1>8

\* A symbol with a register leads to the item that owns it.
LEMMA OwnerNamed ==
  ASSUME NEW sc, ScopeOk(sc), NEW p \in DOMAIN sc.syms, NEW idx, sc.syms[p].reg = {idx}
  PROVE  idx \in 0 .. (sc.nregs - 1) /\ OwnerOf(sc, idx).key = {sc.syms[p].name}
<1>1. SymPlaced(sc, sc.syms[p])
  BY DEF ScopeOk, SymsOk
<1>2. sc.syms[p].item # 0
  BY <1>1 DEF SymPlaced
<1>3. /\ InScope(sc, sc.syms[p].op, sc.syms[p].item)
      /\ RegAt(sc, sc.syms[p].op, sc.syms[p].item) = {idx}
      /\ sc.ops[sc.syms[p].op].items[sc.syms[p].item].key = {sc.syms[p].name}
  BY <1>2, SymItem
<1>4. OwnerOf(sc, idx) = sc.ops[sc.syms[p].op].items[sc.syms[p].item]
  BY <1>3, OwnersAre
<1>5. RegOf1(sc.syms[p].reg, sc.nregs)
  BY SymReg
<1>6. idx \in 0 .. (sc.nregs - 1)
  BY <1>5 DEF RegOf1
<1> QED
  BY <1>3, <1>4, <1>6

LEMMA PlacedRegs ==
  ASSUME NEW sc, ScopeOk(sc)
  PROVE  /\ sc.nregs <= MAX_REGS
         /\ \A o \in DOMAIN sc.ops : sc.ops[o].op = "Fixed" => FixedOk(sc.ops[o])
         /\ \A o \in DOMAIN sc.ops : \A i \in DOMAIN sc.ops[o].items : sc.ops[o].items[i].reg \subseteq 0 .. (sc.nregs - 1)
         /\ \A idx \in 0 .. (sc.nregs - 1) : Cardinality(Owners(sc, idx)) = 1
<1>1. ASSUME NEW o \in DOMAIN sc.ops, NEW i \in DOMAIN sc.ops[o].items
      PROVE  RegOf1(sc.ops[o].items[i].reg, sc.nregs)
  BY <1>1 DEF ScopeOk, RegsIn, RegAt
<1>2. ASSUME NEW o \in DOMAIN sc.ops, sc.ops[o].op = "Fixed"
      PROVE  FixedOk(sc.ops[o])
  <2>1. sc.ops[o].width \in Nat /\ \A i \in DOMAIN sc.ops[o].items : Lies(sc.ops[o].items[i], sc.ops[o].width)
    BY <1>2 DEF ScopeOk, RunsOk
  <2>2. Disjoint(sc.ops[o].items)
    <3> SUFFICES ASSUME NEW i \in DOMAIN sc.ops[o].items, NEW j \in DOMAIN sc.ops[o].items, i # j
                 PROVE  sc.ops[o].items[i].reg \cap sc.ops[o].items[j].reg = {}
      BY DEF Disjoint
    <3>1. RegOf1(sc.ops[o].items[i].reg, sc.nregs) /\ RegOf1(sc.ops[o].items[j].reg, sc.nregs)
      BY <1>1
    <3>2. sc.ops[o].items[i].reg # {} => sc.ops[o].items[i].reg # sc.ops[o].items[j].reg
      BY DEF ScopeOk, RegsApart, RegAt, Same
    <3> QED
      BY <3>1, <3>2 DEF RegOf1
  <2> QED
    BY <2>1, <2>2 DEF FixedOk, Lies, ItemWidth
<1>3. ASSUME NEW idx \in 0 .. (sc.nregs - 1) PROVE Cardinality(Owners(sc, idx)) = 1
  <2>1. PICK o \in DOMAIN sc.ops : \E i \in DOMAIN sc.ops[o].items : RegAt(sc, o, i) = {idx}
    BY <1>3 DEF ScopeOk, RegsOwned
  <2>2. PICK i \in DOMAIN sc.ops[o].items : RegAt(sc, o, i) = {idx}
    BY <2>1
  <2>3. Owners(sc, idx) = {<<o, i>>}
    BY <2>2, OwnersAre DEF InScope
  <2> QED
    BY <2>3, FS_Singleton
<1>4. \A o \in DOMAIN sc.ops : \A i \in DOMAIN sc.ops[o].items : sc.ops[o].items[i].reg \subseteq 0 .. (sc.nregs - 1)
  BY <1>1 DEF RegOf1
<1>5. sc.nregs <= MAX_REGS
  BY DEF ScopeOk
<1> QED
  BY <1>2, <1>3, <1>4, <1>5

\* Registers are placed.
LEMMA InvPlaced == CompilerInv => RegistersPlaced
<1> SUFFICES ASSUME CompilerInv, NEW sc \in Scopes
             PROVE  /\ sc.nregs <= MAX_REGS
                    /\ \A o \in DOMAIN sc.ops : sc.ops[o].op = "Fixed" => FixedOk(sc.ops[o])
                    /\ \A o \in DOMAIN sc.ops : \A i \in DOMAIN sc.ops[o].items :
                         sc.ops[o].items[i].reg \subseteq 0 .. (sc.nregs - 1)
                    /\ \A idx \in 0 .. (sc.nregs - 1) : Cardinality(Owners(sc, idx)) = 1
  BY Zenon DEF RegistersPlaced
<1>1. ScopeOk(sc)
  BY ScopesAre
<1> QED
  BY <1>1, PlacedRegs

LEMMA InvRefs == CompilerInv => RefsResolve
<1> SUFFICES ASSUME CompilerInv PROVE RefsResolve
  OBVIOUS
<1>1. ASSUME NEW i \in DOMAIN scopes, NEW o \in DOMAIN scopes[i].ops, NEW r \in scopes[i].ops[o].reads
      PROVE  /\ r.up < i /\ r.idx < scopes[i - r.up].nregs
             /\ OwnerOf(scopes[i - r.up], r.idx).key = {r.name}
  <2>1. r \in ScopeReads(scopes[i])
    BY <1>1 DEF ScopeReads
  <2>2. r.up \in Nat
    BY <2>1, OpenOnes DEF ReadsOk, ReadOk
  <2>3. Hit(scopes, Aim(i, r))
    <3>1. Aim(i, r) \in OpAims(scopes)
      BY <2>1 DEF OpAims, Aims
    <3> QED
      BY <3>1, OpenOnes DEF AllHit
  <2>4. i - r.up \in DOMAIN scopes /\
        \E p \in DOMAIN scopes[i - r.up].syms :
          scopes[i - r.up].syms[p].name = r.name /\ scopes[i - r.up].syms[p].reg = {r.idx}
    BY <2>3 DEF Hit, Aim
  <2>5. ScopesOk(scopes) /\ Len(scopes) \in Nat /\ DOMAIN scopes = 1 .. Len(scopes)
    BY OpenOnes, StackDom DEF ScopesOk
  <2>6. r.up < i
    BY <2>2, <2>4, <2>5, <1>1
  <2> DEFINE sc == scopes[i - r.up]
  <2>7. PICK p \in DOMAIN sc.syms : sc.syms[p].name = r.name /\ sc.syms[p].reg = {r.idx}
    BY <2>4
  <2>8. ScopeOk(sc)
    BY <2>4, <2>5 DEF ScopesOk
  <2> HIDE DEF sc
  <2>9. r.idx \in 0 .. (sc.nregs - 1) /\ OwnerOf(sc, r.idx).key = {r.name}
    BY <2>7, <2>8, OwnerNamed
  <2>10. r.idx < sc.nregs
    BY <2>8, <2>9 DEF ScopeOk
  <2> QED
    BY <2>6, <2>9, <2>10 DEF sc
<1>2. ASSUME NEW q \in Programs, NEW r \in q.reads, r.up = 0
      PROVE  r.idx < q.scope.nregs /\ OwnerOf(q.scope, r.idx).key = {r.name}
  <2> DEFINE sc == q.scope
  <2>1. ScopeOk(sc) /\ ReadsHit(sc, q.reads)
    BY ProgramsOk DEF ProgOk, ProgReadsOk
  <2>2. PICK p \in DOMAIN sc.syms : sc.syms[p].name = r.name /\ sc.syms[p].reg = {r.idx}
    BY <1>2, <2>1 DEF ReadsHit
  <2> HIDE DEF sc
  <2>3. r.idx \in 0 .. (sc.nregs - 1) /\ OwnerOf(sc, r.idx).key = {r.name}
    BY <2>1, <2>2, OwnerNamed
  <2>4. r.idx < sc.nregs
    BY <2>1, <2>3 DEF ScopeOk
  <2> QED
    BY <2>3, <2>4 DEF sc
<1> QED
  BY <1>1, <1>2, Zenon DEF RefsResolve

LEMMA InvDerived == CompilerInv => DerivedSound
<1> SUFFICES ASSUME CompilerInv PROVE DerivedSound
  OBVIOUS
<1>1. ASSUME NEW p \in Programs, NEW o \in DOMAIN p.scope.ops, NEW i \in DOMAIN p.scope.ops[o].items
      PROVE  LET item == p.scope.ops[o].items[i]
                 by(role) == \E r \in p.reads : r.up = 0 /\ {r.idx} = item.reg /\ r.role = role
             IN  item.derived <=> by("Len") /\ ~by("On") /\ ~item.const
  <2>1. p.scope.ops[o].items[i].derived <=>
          /\ ReadBy(p.reads, RegAt(p.scope, o, i), "Len") /\ ~ReadBy(p.reads, RegAt(p.scope, o, i), "On")
          /\ ~p.scope.ops[o].items[i].const
    BY <1>1, ProgramsOk DEF ProgOk, DerivedOk
  <2>2. ASSUME NEW role
        PROVE  ReadBy(p.reads, RegAt(p.scope, o, i), role) <=>
                 \E r \in p.reads : r.up = 0 /\ {r.idx} = p.scope.ops[o].items[i].reg /\ r.role = role
    BY DEF ReadBy, RegAt
  <2> QED
    BY <2>1, <2>2
<1> QED
  BY <1>1, Zenon DEF DerivedSound

LEMMA InvMeasured == CompilerInv => Measured
<1> SUFFICES ASSUME CompilerInv PROVE Measured
  OBVIOUS
<1>1. \A p \in Programs : p.static \subseteq {p.min}
  BY ProgramsOk DEF ProgOk
<1>2. ASSUME mode = "ok" PROVE \A p \in got : p.frames = deepest /\ deepest <= MAX_DEPTH
  BY <1>2 DEF CompilerInv
<1> QED
  BY <1>1, <1>2 DEF Measured

\* What records a span is the place of the symbol that has it.
LEMMA RecordingIs ==
  ASSUME NEW sc, ScopeOk(sc), SpansOk(sc), NEW p \in DOMAIN sc.syms, NEW x, sc.syms[p].span = {x}
  PROVE  Recording(sc, x) = {<<sc.syms[p].op, sc.syms[p].item>>}
<1>1. \A o \in DOMAIN sc.ops : 0 \notin DOMAIN sc.ops[o].items
  <2> TAKE o \in DOMAIN sc.ops
  <2>1. Stack(sc.ops[o].items)
    BY DEF ScopeOk, ScopeShape, OpShape
  <2> QED
    BY <2>1, StackDom
<1>2. ASSUME NEW o \in DOMAIN sc.ops, NEW i \in PlacesOf(sc.ops[o]), x \in SpanAt(sc, o, i)
      PROVE  o = sc.syms[p].op /\ i = sc.syms[p].item
  <2>1. SpanAt(sc, o, i) # {}
    BY <1>2
  <2>2. PICK q \in DOMAIN sc.syms : Same(o, i, sc.syms[q].op, sc.syms[q].item)
    BY <1>2, <2>1 DEF SpansOk
  <2>3. SpanAt(sc, o, i) = sc.syms[q].span /\ RegOf1(sc.syms[q].span, sc.nspans)
    BY <2>2 DEF SpansOk, Same
  <2>4. sc.syms[q].span = {x}
    BY <1>2, <2>3 DEF RegOf1
  <2>5. q = p
    BY <2>4 DEF SpansOk
  <2> QED
    BY <2>2, <2>5 DEF Same
<1>3. /\ sc.syms[p].op \in DOMAIN sc.ops /\ sc.syms[p].item \in PlacesOf(sc.ops[sc.syms[p].op])
      /\ x \in SpanAt(sc, sc.syms[p].op, sc.syms[p].item)
  BY PlacedAt DEF SpansOk
<1>4. ASSUME NEW at \in Recording(sc, x) PROVE at = <<sc.syms[p].op, sc.syms[p].item>>
  <2>1. CASE \E o \in DOMAIN sc.ops : at = <<o, 0>> /\ x \in sc.ops[o].span
    BY <1>2, <2>1 DEF PlacesOf, SpanAt
  <2>2. CASE \E o \in DOMAIN sc.ops : \E i \in DOMAIN sc.ops[o].items : at = <<o, i>> /\ x \in sc.ops[o].items[i].span
    <3>1. PICK o \in DOMAIN sc.ops : \E i \in DOMAIN sc.ops[o].items : at = <<o, i>> /\ x \in sc.ops[o].items[i].span
      BY <2>2
    <3>2. PICK i \in DOMAIN sc.ops[o].items : at = <<o, i>> /\ x \in sc.ops[o].items[i].span
      BY <3>1
    <3>3. i # 0 /\ i \in PlacesOf(sc.ops[o])
      BY <1>1 DEF PlacesOf
    <3>4. x \in SpanAt(sc, o, i)
      BY <3>2, <3>3 DEF SpanAt
    <3> QED
      BY <1>2, <3>2, <3>3, <3>4
  <2> QED
    BY <1>4, <2>1, <2>2 DEF Recording, Places
<1>5. <<sc.syms[p].op, sc.syms[p].item>> \in Recording(sc, x)
  BY <1>3 DEF Recording, Places, PlacesOf, SpanAt
<1> QED
  BY <1>4, <1>5

LEMMA InvSpans == CompilerInv => SpansCover
<1> SUFFICES ASSUME CompilerInv PROVE SpansCover
  OBVIOUS
<1>1. ASSUME NEW q \in Programs, NEW k \in DOMAIN q.scope.digests
      PROVE  LET sc == q.scope
                 d == sc.digests[k]
                 key(at) == IF at[2] = 0 THEN sc.ops[at[1]].key ELSE sc.ops[at[1]].items[at[2]].key
             IN  \A j \in DOMAIN d.over :
                   {key(at) : at \in Recording(sc, sc.ops[d.op].over[j])} = {{d.over[j]}}
  <2> DEFINE sc == q.scope
             d == sc.digests[k]
             key(at) == IF at[2] = 0 THEN sc.ops[at[1]].key ELSE sc.ops[at[1]].items[at[2]].key
  <2>1. ScopeOk(sc) /\ SpansOk(sc) /\ DigestDone(sc, d)
    BY <1>1, ProgramsOk DEF ProgOk, DigestsDone
  <2> HIDE DEF sc, d
  <2>2. ASSUME NEW j \in DOMAIN d.over
        PROVE  {key(at) : at \in Recording(sc, sc.ops[d.op].over[j])} = {{d.over[j]}}
    <3>1. PICK p \in DOMAIN sc.syms : sc.syms[p].name = d.over[j] /\ sc.syms[p].span = {sc.ops[d.op].over[j]}
      BY <2>1, <2>2 DEF DigestDone
    <3> DEFINE at0 == <<sc.syms[p].op, sc.syms[p].item>>
    <3>2. Recording(sc, sc.ops[d.op].over[j]) = {at0}
      BY <2>1, <3>1, RecordingIs
    <3>3. key(at0) = {d.over[j]}
      <4>1. SymPlaced(sc, sc.syms[p])
        BY <2>1 DEF ScopeOk, SymsOk
      <4> QED
        BY <4>1, <3>1 DEF SymPlaced, ItemOf
    <3> HIDE DEF at0, key
    <3>4. {key(at) : at \in {at0}} = {key(at0)}
      OBVIOUS
    <3> QED
      BY <3>2, <3>3, <3>4
  <2> QED
    BY <2>2 DEF sc, d
<1> QED
  BY <1>1, Zenon DEF SpansCover

\* RegistersPlaced: in every scope, open or finished, a register belongs to
\* exactly one field and items lie inside their run (patch_reg, push_fixed).
THEOREM CompilerPlaces == CompilerSpec => []RegistersPlaced
  BY CompilerSafe, InvPlaced, PTL

\* RefsResolve: a level and an index lead to the field that the code names,
\* in scopes that are still open and in programs (resolve_ref).
THEOREM CompilerResolves == CompilerSpec => []RefsResolve
  BY CompilerSafe, InvRefs, PTL

\* DerivedSound: a field is derived exactly if a length reads it, no switch
\* does and it is no constant (resolve_deferred_derives).
THEOREM CompilerDerives == CompilerSpec => []DerivedSound
  BY CompilerSafe, InvDerived, PTL

\* SpansCover: each span of a digest is recorded by the field it lists and by
\* no other, however many digests share it (the digests at a scope's end).
THEOREM CompilerCovers == CompilerSpec => []SpansCover
  BY CompilerSafe, InvSpans, PTL

\* Measured: the depth of an accepted program is the number of scopes that were
\* open at a time, and a static size is the minimum (frame_depth, op_static).
THEOREM CompilerMeasures == CompilerSpec => []Measured
  BY CompilerSafe, InvMeasured, PTL

=============================================================================
