------------------------------ MODULE Compiler ------------------------------
(***************************************************************************)
(* The schema compiler: declarations become opcodes, one scope for each    *)
(* structure.  References between fields are resolved on the way:          *)
(* resolve_ref reaches back into the scopes that are still open and gives  *)
(* a field a register there; whether the field is derived, and which spans *)
(* a digest covers, is only decided when its scope ends.                   *)
(*                                                                         *)
(* The schema is not an input.  Whoever declares it picks the next name    *)
(* and type at every step, so that the machine runs through all schemas of *)
(* its Types and Names.  A type is a record with a tag t; the types inside *)
(* an array, a switch, a conditional field or a structure are picked when  *)
(* the compiler gets to them.  Byte order, names of encodings and of       *)
(* algorithms, and the wording of errors are left out.                     *)
(*                                                                         *)
(* An opcode keeps what is asked of it later: its items if it is a run,    *)
(* its size and depth, and what its expressions read:                      *)
(*   lens   the lengths, as [code, inv]                                    *)
(*   reads  the registers, as [role, up, idx, name], also by code in       *)
(*          structures inside it, with up counted from this scope.         *)
(*   own    the names in its own length, count or size                     *)
(***************************************************************************)
EXTENDS Layout, FiniteSets

CONSTANTS
  Names, Types, Elems, \* Elems: the types inside arrays, switches and conditional fields
  EXPR_STACK,
  MaxTypes, MaxNest    \* bounds: declarations in a schema, activations

ASSUME CompilerAssumption ==
  /\ MAX_REGS \in Nat /\ MAX_SPANS \in Nat /\ MAX_DEPTH \in Nat \ {0}
  /\ EXPR_STACK \in Nat /\ MaxTypes \in Nat /\ MaxNest \in Nat

\* What a declaration says of itself before it is compiled: its widths are
\* unsigned, a constant length is an integer and code is a sequence.
Listed(s) == Len(s) \in Nat /\ DOMAIN s = 1 .. Len(s)
Described(d) == d.imm \subseteq Int /\ Listed(d.code)

ASSUME TypesAssumption ==
  \A ty \in Types :
    /\ ty.t \in {"Int", "Flags"} => ty.prim.w \in Nat
    /\ ty.t \in {"Float", "Bool", "Digest"} => ty.w \in Nat
    /\ ty.t = "Raw" => ty.len \cup ty.const \subseteq Nat
    /\ ty.t = "Digest" => Listed(ty.over)
    /\ ty.t = "Bytes" => Described(ty.len)
    /\ ty.t = "Struct" => \A d \in ty.size : Described(d)
    /\ ty.t = "Array" => \A d \in ty.count : Described(d)
    /\ ty.t = "Switch" => Described(ty.on) /\ Listed(ty.tags)
    /\ ty.t = "Cond" => Described(ty.pred)

VARIABLES
  scopes,    \* open scopes, innermost last
  todo,      \* activations of compile_field and compile_elem, innermost last
  mode,      \* "run", "ret" (got is handed to the activation on top), "ok", "err"
  got,       \* {} or the opcode or program just finished
  taken,     \* declarations so far
  deepest    \* how many scopes have been open at a time

cvars == <<scopes, todo, mode, got, taken, deepest>>

NewScope == [ops |-> <<>>, syms |-> <<>>, nregs |-> 0, nspans |-> 0, digests |-> <<>>]

The(s) == CHOOSE x \in s : TRUE
Top(s) == s[Len(s)]

-----------------------------------------------------------------------------
(***************************************************************************)
(* Opcodes and symbols.                                                    *)
(***************************************************************************)
Op(kind, lens, reads, min, static, frames) ==
  [op |-> kind, lens |-> lens, reads |-> reads, min |-> min, static |-> static,
   frames |-> frames, width |-> min, items |-> <<>>, key |-> {}, span |-> {}, over |-> <<>>, own |-> {}]

\* The same, with the names that the length just built reads.
Reading(op, reads) == [op EXCEPT !.own = {r.name : r \in reads}]

Item(kind, off, w, key, const) ==
  [kind |-> kind, off |-> off, prim |-> [w |-> w], len |-> w, key |-> key,
   const |-> const, reg |-> {}, span |-> {}, derived |-> FALSE]

Sym(name, op, item, refable, flags, const, spannable) ==
  [name |-> name, op |-> op, item |-> item, refable |-> refable, flags |-> flags,
   const |-> const, spannable |-> spannable, reg |-> {}, span |-> {},
   len_referenced |-> FALSE, used_in_on |-> FALSE]

Position(sc, n) == {p \in DOMAIN sc.syms : sc.syms[p].name = n}

\* add_sym: an unnamed field cannot be referred to.
AddSym(sc, name, op, item, refable, flags, const, spannable) ==
  IF name = {} THEN sc
  ELSE [sc EXCEPT !.syms = Append(@, Sym(The(name), op, item, refable, flags, const, spannable))]

\* push_fixed: fixed-width neighbours share one run.
PushFixed(sc, kind, w, key, const) ==
  LET n == Len(sc.ops) IN
  IF n > 0 /\ sc.ops[n].op = "Fixed"
  THEN [sc EXCEPT !.ops[n].items = Append(@, Item(kind, sc.ops[n].width, w, key, const)),
                  !.ops[n].width = @ + w, !.ops[n].min = @ + w, !.ops[n].static = {The(@) + w}]
  ELSE [sc EXCEPT !.ops = Append(@, [Op("Fixed", {}, {}, w, {w}, 0) EXCEPT
                                       !.items = <<Item(kind, 0, w, key, const)>>])]

PushBits(sc, w, key) ==
  LET n == Len(sc.ops)
      item == Item("Bits", 0, w, key, FALSE)
  IN  IF n > 0 /\ sc.ops[n].op = "BitRun"
      THEN [sc EXCEPT !.ops[n].items = Append(@, item)]
      ELSE [sc EXCEPT !.ops = Append(@, [Op("BitRun", {}, {}, 0, {0}, 0) EXCEPT !.items = <<item>>])]

-----------------------------------------------------------------------------
(***************************************************************************)
(* References.  An expression is described by [greedy, ok, imm, lin, code, *)
(* depth], its code reading fields by name.                                *)
(***************************************************************************)
\* The innermost open scope that has declared n.
ScopeOf(ss, n) == Max({i \in DOMAIN ss : Position(ss[i], n) # {}})

\* patch_reg
PatchReg(sc, p, idx) == [sc EXCEPT !.ops[sc.syms[p].op].items[sc.syms[p].item].reg = {idx}]

\* Mutant: a field that was given a register is given another.
Allocate_Again(sc, p) ==
  [PatchReg(sc, p, sc.nregs) EXCEPT !.nregs = @ + 1, !.syms[p].reg = {sc.nregs}]

Allocate(sc, p) ==
  IF sc.syms[p].reg # {} THEN sc
  ELSE [PatchReg(sc, p, sc.nregs) EXCEPT !.nregs = @ + 1, !.syms[p].reg = {sc.nregs}]

Noted(sc, p, role) ==
  [sc EXCEPT !.syms[p].len_referenced = @ \/ (role = "Len" /\ ~sc.syms[p].const),
             !.syms[p].used_in_on = @ \/ role = "On"]

\* resolve_ref: {} if the reference is refused
ResolveRef(ss, n, role) ==
  IF \A i \in DOMAIN ss : Position(ss[i], n) = {} THEN {}
  ELSE LET i == ScopeOf(ss, n)
           p == The(Position(ss[i], n))
           sym == ss[i].syms[p]
       IN  IF sym.flags \/ ~sym.refable \/ (sym.reg = {} /\ ss[i].nregs >= MAX_REGS) THEN {}
           ELSE {[ss EXCEPT ![i] = Noted(Allocate(ss[i], p), p, role)]}

\* Mutant: levels counted from the outermost scope.
RegOf_Outside(ss, n) ==
  LET i == ScopeOf(ss, n)
  IN  [up |-> i - 1, idx |-> The(ss[i].syms[The(Position(ss[i], n))].reg)]

RegOf(ss, n) ==
  LET i == ScopeOf(ss, n)
  IN  [up |-> Len(ss) - i, idx |-> The(ss[i].syms[The(Position(ss[i], n))].reg)]

\* emit_into: every name resolved, left to right.
ResolveAll(ss, code, role) ==
  LET upto[j \in 0 .. Len(code)] ==
        IF j = 0 THEN {ss}
        ELSE UNION {IF code[j].op = "Ref" THEN ResolveRef(s, code[j].arg, role) ELSE {s} : s \in upto[j - 1]}
  IN  upto[Len(code)]

\* emit_expr: the names resolved and the depth checked.  What comes back is {}
\* or the scopes, the code and what it reads.
EmitExpr(ss, d, role) ==
  LET refs == {j \in DOMAIN d.code : d.code[j].op = "Ref"}
      after == IF d.ok /\ d.depth <= EXPR_STACK THEN ResolveAll(ss, d.code, role) ELSE {}
  IN  {[ss |-> s,
        code |-> [j \in DOMAIN d.code |->
                    IF j \in refs THEN [op |-> "Reg", arg |-> RegOf(s, d.code[j].arg)] ELSE d.code[j]],
        reads |-> {[role |-> role, up |-> RegOf(s, d.code[j].arg).up,
                    idx |-> RegOf(s, d.code[j].arg).idx, name |-> d.code[j].arg] : j \in refs}] : s \in after}

\* build_len: "*", a constant that is not negative, or a * ref + b with a # 0.
\* const is the length if it is constant (len_const).
BuildLen(ss, d) ==
  CASE d.greedy -> {[ss |-> ss, lens |-> {}, reads |-> {}, const |-> {}, greedy |-> TRUE]}
    [] ~d.greedy /\ d.imm # {} ->
         {[ss |-> ss, lens |-> {}, reads |-> {}, const |-> {n}, greedy |-> FALSE] : n \in {m \in d.imm : m >= 0}}
    [] OTHER ->
         {[ss |-> x.ss, reads |-> x.reads, const |-> {}, greedy |-> FALSE,
           lens |-> {[code |-> x.code,
                      inv |-> [reg |-> RegOf(x.ss, The(l.ref)), a |-> l.a, b |-> l.b]] : l \in d.lin}] :
            x \in IF \E l \in d.lin : l.a # 0 THEN EmitExpr(ss, d, "Len") ELSE {}}

-----------------------------------------------------------------------------
(***************************************************************************)
(* Declarations.  AtField is compile_field on the next field, AtElem is    *)
(* compile_elem; check_name and named_only refuse a name.                  *)
(***************************************************************************)
FixedTypes == {"Int", "Float", "Bool", "Raw"}
Unnameable == FixedTypes \cup {"Bits"}

FieldNames == {{}} \cup {{n} : n \in Names}

AtField(name, ty) ==
  /\ mode = "run" /\ Top(todo).k = "fields"
  /\ taken < MaxTypes /\ taken' = taken + 1

NameOk(name, ty) ==
  /\ \A n \in name : Position(Top(scopes), n) = {}
  /\ name = {} => ty.t \in Unnameable

AtElem(ty) ==
  /\ mode = "run" /\ Top(todo).k # "fields" /\ ty \in Elems
  /\ UNCHANGED taken

\* A SchemaError ends it all.
Wrong == mode' = "err" /\ got' = {} /\ scopes' = <<>> /\ todo' = <<>> /\ UNCHANGED deepest

\* The width of a fixed-width type, {} if the declaration is refused: a
\* constant out of its type's range, raw bytes of no or of two lengths.
FixedWidth(ty) ==
  CASE ty.t = "Int" -> IF \A c \in ty.const : c \in PrimMin(ty.prim) .. PrimMax(ty.prim) THEN {ty.prim.w} ELSE {}
    [] ty.t = "Raw" -> IF Cardinality(ty.len \cup ty.const) = 1 THEN ty.len \cup ty.const ELSE {}
    [] OTHER -> {ty.w}

\* flags: masks of an unsigned base, in range, contiguous and disjoint
Contiguous(m) == \E lo, hi \in 0 .. WordBits : lo < hi /\ m = 2 ^ hi - 2 ^ lo
FlagsOk(ty) ==
  /\ ~ty.prim.signed
  /\ \A i \in DOMAIN ty.masks :
       /\ Contiguous(ty.masks[i]) /\ ty.masks[i] <= PrimMax(ty.prim)
       /\ \A j \in DOMAIN ty.masks : i # j => BitAnd(ty.masks[i], ty.masks[j]) = 0

\* An opcode that has no types inside it: {} or [ss, op].
Leaf(ss, ty) ==
  CASE ty.t \in FixedTypes ->
         {[ss |-> ss, op |-> [Op("Fixed", {}, {}, w, {w}, 0) EXCEPT !.items = <<Item(ty.t, 0, w, {}, FALSE)>>]] :
            w \in FixedWidth(ty)}
    [] ty.t = "Bytes" ->
         {[ss |-> l.ss, op |-> Reading(Op("Bytes", l.lens, l.reads, IF l.const = {} THEN 0 ELSE The(l.const), l.const, 0),
                                       l.reads)] :
            l \in BuildLen(ss, ty.len)}
    [] ty.t = "CStr" -> {[ss |-> ss, op |-> Op("CStr", {}, {}, 1, {}, 0)]}
    [] ty.t = "Flags" ->
         IF FlagsOk(ty) THEN {[ss |-> ss, op |-> Op("Flags", {}, {}, ty.prim.w, {ty.prim.w}, 0)]} ELSE {}
    [] OTHER -> {}

\* An opcode is finished: it becomes the next field of the scope on top, or
\* goes back to the activation that waits for an element.
Finish(ss, rest, name, op, flags, spannable) ==
  LET sc == Top(ss)
      with == [sc EXCEPT !.ops = Append(@, [op EXCEPT !.key = name])]
      field == Top(rest).k = "fields"
  IN  /\ scopes' = IF field
                   THEN SetTop(ss, AddSym(with, name, Len(with.ops), 0, FALSE, flags, FALSE, spannable))
                   ELSE ss
      /\ mode' = IF field THEN "run" ELSE "ret"
      /\ got' = IF field THEN {} ELSE {op}
      /\ todo' = rest
      /\ UNCHANGED deepest

DeclFixed(name, ty) ==
  /\ ty.t \in FixedTypes /\ AtField(name, ty)
  /\ \/ (~NameOk(name, ty) \/ FixedWidth(ty) = {}) /\ Wrong
     \/ \E w \in FixedWidth(ty) :
          LET const == ty.const # {}
              sc == PushFixed(Top(scopes), ty.t, w, name, const)
          IN  /\ NameOk(name, ty)
              /\ scopes' = SetTop(scopes, AddSym(sc, name, Len(sc.ops), Len(Top(sc.ops).items),
                                                 ty.t = "Int", FALSE, const, TRUE))
              /\ UNCHANGED <<todo, mode, got, deepest>>

DeclBits(name, ty) ==
  /\ ty.t = "Bits" /\ AtField(name, ty)
  /\ \/ (~NameOk(name, ty) \/ ty.width \notin 1 .. WordBits) /\ Wrong
     \/ LET sc == PushBits(Top(scopes), ty.width, name)
        IN  /\ NameOk(name, ty) /\ ty.width \in 1 .. WordBits
            /\ scopes' = SetTop(scopes, AddSym(sc, name, Len(sc.ops), Len(Top(sc.ops).items),
                                               TRUE, FALSE, FALSE, FALSE))
            /\ UNCHANGED <<todo, mode, got, deepest>>

DeclLeaf(name, ty) ==
  /\ ty.t \in {"Bytes", "CStr", "Flags"} /\ AtField(name, ty)
  /\ \/ (~NameOk(name, ty) \/ Leaf(scopes, ty) = {}) /\ Wrong
     \/ \E x \in Leaf(scopes, ty) :
          NameOk(name, ty) /\ Finish(x.ss, todo, name, x.op, ty.t = "Flags", TRUE)

\* A digest's spans are resolved when the scope ends.  over is <<>> for "*".
DeclDigest(name, ty) ==
  LET ok == ty.star \/ (ty.over # <<>> /\ IsInjective(ty.over) /\ Range(ty.over) \cap name = {})
      digest == [op |-> Len(Top(scopes).ops) + 1, over |-> ty.over]
      ss == SetTop(scopes, [Top(scopes) EXCEPT !.digests = Append(@, digest)])
  IN  /\ ty.t = "Digest" /\ AtField(name, ty)
      /\ \/ (~NameOk(name, ty) \/ ~ok) /\ Wrong
         \/ NameOk(name, ty) /\ ok /\ Finish(ss, todo, name, Op("Digest", {}, {}, ty.w, {ty.w}, 0), FALSE, TRUE)

ElemLeaf(ty) ==
  /\ ty.t \in FixedTypes \cup {"Bytes", "CStr", "Flags", "Bits", "Digest", "Cond"} /\ AtElem(ty)
  /\ \/ Leaf(scopes, ty) = {} /\ Wrong
     \/ \E x \in Leaf(scopes, ty) : Finish(x.ss, todo, {}, x.op, FALSE, FALSE)

-----------------------------------------------------------------------------
(***************************************************************************)
(* Types with types inside them, as a field or as an element.  The opening *)
(* half of the activation resolves its own expression and waits.           *)
(***************************************************************************)
Activation(k, name, lens, reads, const, arms, cases) ==
  [k |-> k, name |-> name, lens |-> lens, reads |-> reads, const |-> const,
   sized |-> FALSE, arms |-> arms, cases |-> cases, done |-> <<>>]

Fields == Activation("fields", {}, {}, {}, {}, 0, 0)

Opening(name, ty, t) ==
  /\ ty.t = t
  /\ \/ AtField(name, ty)
     \/ name = {} /\ AtElem(ty) /\ Len(todo) < MaxNest

Nameable(name, ty) == Top(todo).k # "fields" \/ NameOk(name, ty)

Wait(ss, entry) == scopes' = ss /\ todo' = Append(todo, entry) /\ UNCHANGED <<mode, got, deepest>>

\* size is {} or {e}, where e is not "*".
OpenStruct(name, ty) ==
  LET sizes == IF ty.size = {} THEN {[ss |-> scopes, lens |-> {}, reads |-> {}, const |-> {}]}
               ELSE {l \in BuildLen(scopes, The(ty.size)) : ~l.greedy}
  IN  /\ Opening(name, ty, "Struct")
      /\ \/ (~Nameable(name, ty) \/ sizes = {}) /\ Wrong
         \/ \E l \in sizes :
              /\ Nameable(name, ty)
              /\ scopes' = Append(l.ss, NewScope)
              /\ todo' = todo \o <<[Activation("nest", name, l.lens, l.reads, l.const, 0, 0) EXCEPT
                                      !.sized = ty.size # {}], Fields>>
              /\ deepest' = Max({deepest, Len(scopes) + 1})
              /\ UNCHANGED <<mode, got>>

\* Exactly one of count and until_eof.
OpenArray(name, ty) ==
  LET counts == CASE ty.count # {} /\ ~ty.until_eof -> BuildLen(scopes, The(ty.count))
                  [] ty.count = {} /\ ty.until_eof -> {[ss |-> scopes, lens |-> {}, reads |-> {}, const |-> {}]}
                  [] OTHER -> {}
  IN  /\ Opening(name, ty, "Array")
      /\ \/ (~Nameable(name, ty) \/ counts = {}) /\ Wrong
         \/ \E l \in counts :
              Nameable(name, ty) /\ Wait(l.ss, Activation("array", name, l.lens, l.reads, l.const, 1, 0))

OpenSwitch(name, ty) ==
  LET arms == Len(ty.tags) + (IF ty.default THEN 1 ELSE 0)
      ons == IF arms > 0 /\ IsInjective(ty.tags) THEN EmitExpr(scopes, ty.on, "On") ELSE {}
  IN  /\ Opening(name, ty, "Switch")
      /\ \/ (~Nameable(name, ty) \/ ons = {}) /\ Wrong
         \/ \E x \in ons :
              Nameable(name, ty) /\ Wait(x.ss, Activation("switch", name, {}, x.reads, {}, arms, Len(ty.tags)))

OpenCond(name, ty) ==
  /\ ty.t = "Cond" /\ AtField(name, ty)
  /\ \/ (~NameOk(name, ty) \/ EmitExpr(scopes, ty.pred, "Pred") = {}) /\ Wrong
     \/ \E x \in EmitExpr(scopes, ty.pred, "Pred") :
          NameOk(name, ty) /\ Wait(x.ss, Activation("cond", name, {}, x.reads, {}, 1, 0))

(***************************************************************************)
(* op_min, op_static and in_op (of frame_depth) of an opcode with opcodes  *)
(* inside, from those of the opcodes inside.                               *)
(***************************************************************************)
SizeMin(a, done) ==
  CASE a.k = "array" -> IF a.const = {} THEN 0 ELSE The(a.const) * done[1].min
    [] a.k = "switch" -> Min({done[i].min : i \in DOMAIN done})
    [] OTHER -> 0

SizeStatic(a, done) ==
  CASE a.k = "array" -> {n * m : n \in a.const, m \in done[1].static}
    [] a.k = "switch" -> IF a.cases > 0 /\ \A i \in DOMAIN done : done[i].static = done[1].static
                         THEN done[1].static ELSE {}
    [] OTHER -> {}

\* Mutant: the default branch of a switch is not looked into.
Depth_NoDefault(a, done) ==
  Max({0} \cup {done[i].frames : i \in {j \in DOMAIN done : a.k = "switch" => j <= a.cases}})
Depth(a, done) == Max({done[i].frames : i \in DOMAIN done})

OpName == [array |-> "Array", switch |-> "Switch", cond |-> "Cond"]

\* The element, the branch or the conditional field is compiled.
TakeElem ==
  LET a == Top(todo)
      done == a.done \o <<The(got)>>
      op == Op(OpName[a.k],
               a.lens \cup UNION {done[i].lens : i \in DOMAIN done},
               a.reads \cup UNION {done[i].reads : i \in DOMAIN done},
               SizeMin(a, done), SizeStatic(a, done), Depth(a, done))
  IN  /\ mode = "ret" /\ a.k # "nest"
      /\ \/ /\ Len(done) < a.arms
            /\ todo' = SetTop(todo, [a EXCEPT !.done = done])
            /\ mode' = "run" /\ got' = {}
            /\ UNCHANGED <<scopes, deepest>>
         \/ /\ Len(done) = a.arms
            /\ Finish(scopes, Front(todo), a.name, Reading(op, IF a.k = "array" THEN a.reads ELSE {}), FALSE, a.k # "cond")
      /\ UNCHANGED taken

\* The structure is compiled.  What its code reads outside it is one level
\* nearer here.  Only a field's constant size is compared with the body's.
TakeProg ==
  LET a == Top(todo)
      p == The(got)
      outer == {[r EXCEPT !.up = @ - 1] : r \in {x \in p.reads : x.up > 0}}
      rest == Front(todo)
      op == Op("Nest", a.lens, a.reads \cup outer,
               IF a.const = {} THEN p.min ELSE The(a.const),
               IF a.sized THEN a.const ELSE p.static, p.frames)
      clash == Top(rest).k = "fields" /\ a.const # {} /\ p.static # {} /\ a.const # p.static
  IN  /\ mode = "ret" /\ a.k = "nest"
      /\ \/ clash /\ Wrong
         \/ ~clash /\ Finish(scopes, rest, a.name, Reading(op, a.reads), FALSE, TRUE)
      /\ UNCHANGED taken

-----------------------------------------------------------------------------
(***************************************************************************)
(* The end of a scope.                                                     *)
(***************************************************************************)
\* Mutant: every field a length refers to is derived.
Derives_Always(sym) == sym.len_referenced /\ ~sym.const
Derives(sym) == sym.len_referenced /\ ~sym.used_in_on /\ ~sym.const

\* resolve_deferred_derives
ResolveDerives(sc) ==
  LET derived(o, i) == \E p \in DOMAIN sc.syms :
                         sc.syms[p].op = o /\ sc.syms[p].item = i /\ Derives(sc.syms[p])
      items(o) == [i \in DOMAIN sc.ops[o].items |-> [sc.ops[o].items[i] EXCEPT !.derived = derived(o, i)]]
  IN  [sc EXCEPT !.ops = [o \in DOMAIN sc.ops |-> [sc.ops[o] EXCEPT !.items = items(o)]]]

\* Bit runs take whole bytes, {} if one does not.
AlignBits(sc) ==
  LET bits(op) == Total([i \in DOMAIN op.items |-> op.items[i].len])
      nbytes(op) == bits(op) \div ByteBits
      sized(op) == IF op.op = "BitRun"
                   THEN [op EXCEPT !.width = nbytes(op), !.min = nbytes(op), !.static = {nbytes(op)}] ELSE op
  IN  IF \E o \in DOMAIN sc.ops : sc.ops[o].op = "BitRun" /\ bits(sc.ops[o]) % ByteBits # 0 THEN {}
      ELSE {[sc EXCEPT !.ops = [o \in DOMAIN @ |-> sized(@[o])]]}

\* Mutant: a field covered by two digests gets a second span.
NeedsSpan_Always(sym) == TRUE
NeedsSpan(sym) == sym.span = {}

\* A field that a digest covers records its span.
Cover(sc, n) ==
  LET p == The(Position(sc, n))
      sym == sc.syms[p]
      marked == IF sym.item = 0 THEN [sc EXCEPT !.ops[sym.op].span = {sc.nspans}]
                                ELSE [sc EXCEPT !.ops[sym.op].items[sym.item].span = {sc.nspans}]
  IN  IF Position(sc, n) = {} \/ ~sym.spannable \/ (NeedsSpan(sym) /\ sc.nspans >= MAX_SPANS) THEN {}
      ELSE IF ~NeedsSpan(sym) THEN {sc}
      ELSE {[marked EXCEPT !.nspans = @ + 1, !.syms[p].span = {sc.nspans}]}

\* The fields of one digest, in its order.
CoverEach(sc, over) ==
  LET upto[j \in 0 .. Len(over)] ==
        IF j = 0 THEN {sc} ELSE UNION {Cover(s, over[j]) : s \in upto[j - 1]}
  IN  upto[Len(over)]

CoverAll(sc, d) ==
  {[s EXCEPT !.ops[d.op].over = [j \in DOMAIN d.over |-> The(s.syms[The(Position(s, d.over[j]))].span)]] :
     s \in CoverEach(sc, d.over)}

ResolveDigests(sc) ==
  LET upto[k \in 0 .. Len(sc.digests)] ==
        IF k = 0 THEN {sc} ELSE UNION {CoverAll(s, sc.digests[k]) : s \in upto[k - 1]}
  IN  upto[Len(sc.digests)]

Program(sc) ==
  LET every == \A o \in DOMAIN sc.ops : sc.ops[o].static # {}
  IN  [scope |-> sc,
       min |-> Total([o \in DOMAIN sc.ops |-> sc.ops[o].min]),
       static |-> IF every THEN {Total([o \in DOMAIN sc.ops |-> The(sc.ops[o].static)])} ELSE {},
       frames |-> 1 + Max({0} \cup {sc.ops[o].frames : o \in DOMAIN sc.ops}),
       reads |-> UNION {sc.ops[o].reads : o \in DOMAIN sc.ops}]

\* compile_scope returns; for the outermost scope, so does compile.
EndScope ==
  LET done == UNION {ResolveDigests(sc) : sc \in AlignBits(ResolveDerives(Top(scopes)))}
      outermost == Len(todo) = 1
      tooDeep(p) == outermost /\ p.frames > MAX_DEPTH
  IN  /\ mode = "run" /\ Top(todo).k = "fields"
      /\ \/ (done = {} \/ \E sc \in done : tooDeep(Program(sc))) /\ Wrong
         \/ \E sc \in done :
              /\ ~tooDeep(Program(sc))
              /\ got' = {Program(sc)}
              /\ scopes' = Front(scopes) /\ todo' = Front(todo)
              /\ mode' = IF outermost THEN "ok" ELSE "ret"
              /\ UNCHANGED deepest
      /\ UNCHANGED taken

\* The other reader of a declaration: ensure_resolved in struct.py, which
\* decides by itself which fields of a class the caller never supplies and
\* leaves those out of the mapping it packs.
Named(sc) == UNION {sc.ops[o].key \cup UNION {sc.ops[o].items[i].key : i \in DOMAIN sc.ops[o].items} :
                      o \in DOMAIN sc.ops}
ConstNames(sc) == {n \in Named(sc) : \E p \in Position(sc, n) : sc.syms[p].const}
DigestNames(sc) == UNION {sc.ops[o].key : o \in {x \in DOMAIN sc.ops : sc.ops[x].op = "Digest"}}
NoInputNames(sc) ==
  (UNION {sc.ops[o].own : o \in DOMAIN sc.ops} \cap Named(sc)) \cup ConstNames(sc) \cup DigestNames(sc)

\* compile has returned.
Compiled == mode \in {"ok", "err"} /\ UNCHANGED cvars

CompilerInit ==
  /\ scopes = <<NewScope>> /\ todo = <<Fields>>
  /\ mode = "run" /\ got = {} /\ taken = 0 /\ deepest = 1

Declare ==
  \E ty \in Types :
    \/ \E name \in FieldNames :
         \/ DeclFixed(name, ty) \/ DeclBits(name, ty) \/ DeclLeaf(name, ty) \/ DeclDigest(name, ty)
         \/ OpenStruct(name, ty) \/ OpenArray(name, ty) \/ OpenSwitch(name, ty) \/ OpenCond(name, ty)
    \/ ElemLeaf(ty)

CompilerNext == Declare \/ TakeElem \/ TakeProg \/ EndScope \/ Compiled

CompilerSpec == CompilerInit /\ [][CompilerNext]_cvars
-----------------------------------------------------------------------------
(***************************************************************************)
(* Properties.                                                             *)
(***************************************************************************)
Programs == {p \in got : "scope" \in DOMAIN p}
Scopes == {scopes[i] : i \in DOMAIN scopes} \cup {p.scope : p \in Programs}

\* The items of a scope, as <<opcode, item>>, and those that own a register.
Places(sc) == UNION {{<<o, i>> : i \in DOMAIN sc.ops[o].items} : o \in DOMAIN sc.ops}
Owners(sc, idx) == {at \in Places(sc) : sc.ops[at[1]].items[at[2]].reg = {idx}}
OwnerOf(sc, idx) == LET at == The(Owners(sc, idx)) IN sc.ops[at[1]].items[at[2]]

\* Items lie inside their run, and a register of a scope belongs to exactly one
\* field: what the interpreters assume of a program (FixedOk), established
\* across runs that grow and references that arrive from scopes further in.
RegistersPlaced ==
  \A sc \in Scopes :
    /\ sc.nregs <= MAX_REGS
    /\ \A o \in DOMAIN sc.ops : sc.ops[o].op = "Fixed" => FixedOk(sc.ops[o])
    /\ \A o \in DOMAIN sc.ops : \A i \in DOMAIN sc.ops[o].items : sc.ops[o].items[i].reg \subseteq 0 .. (sc.nregs - 1)
    /\ \A idx \in 0 .. (sc.nregs - 1) : Cardinality(Owners(sc, idx)) = 1

\* What code reads is the field it names: a level and an index lead to the
\* field's own item, for code that is still waiting for the scopes around it
\* to end included.
RefsResolve ==
  /\ \A i \in DOMAIN scopes : \A o \in DOMAIN scopes[i].ops : \A r \in scopes[i].ops[o].reads :
       /\ r.up < i /\ r.idx < scopes[i - r.up].nregs
       /\ OwnerOf(scopes[i - r.up], r.idx).key = {r.name}
  /\ \A p \in Programs : \A r \in p.reads :
       r.up = 0 => r.idx < p.scope.nregs /\ OwnerOf(p.scope, r.idx).key = {r.name}

\* A field is derived exactly if some length, here or in a structure inside,
\* reads it and no switch does: pack can compute it, and never has to choose a
\* branch by a value it does not have yet.
DerivedSound ==
  \A p \in Programs : \A o \in DOMAIN p.scope.ops : \A i \in DOMAIN p.scope.ops[o].items :
    LET item == p.scope.ops[o].items[i]
        by(role) == \E r \in p.reads : r.up = 0 /\ {r.idx} = item.reg /\ r.role = role
    IN  item.derived <=> by("Len") /\ ~by("On") /\ ~item.const

\* "referencing a field from `on=` does not make it derived -- the discriminant
\* stays an ordinary, caller-supplied field": struct.py leaves no field out of
\* the mapping that a switch reads, for compile does not derive those and pack
\* looks them up.
DiscriminantSupplied ==
  \A p \in Programs : \A r \in p.reads :
    r.up = 0 /\ r.role = "On" => r.name \notin NoInputNames(p.scope) \ ConstNames(p.scope)

\* The fields and items that record span s, by key.
Recording(sc, s) ==
  {<<o, 0>> : o \in {x \in DOMAIN sc.ops : s \in sc.ops[x].span}}
    \cup {at \in Places(sc) : s \in sc.ops[at[1]].items[at[2]].span}

\* A digest covers the fields it lists, in that order: each of its spans is
\* recorded by that field and no other, however many digests share it.
SpansCover ==
  \A p \in Programs : \A k \in DOMAIN p.scope.digests :
    LET sc == p.scope
        d == sc.digests[k]
        key(at) == IF at[2] = 0 THEN sc.ops[at[1]].key ELSE sc.ops[at[1]].items[at[2]].key
    IN  \A j \in DOMAIN d.over :
          {key(at) : at \in Recording(sc, sc.ops[d.op].over[j])} = {{d.over[j]}}

\* The inverse pack applies undoes the length unpack evaluates, wherever the
\* evaluation does not fault.
InvertsLength ==
  \A sc \in Scopes : \A o \in DOMAIN sc.ops : \A l \in sc.ops[o].lens : \A n \in I64 :
    LET r == Eval(l.code, [x \in {l.inv.reg} |-> Value(n)])
    IN  r.kind = "Ok" => r.v = l.inv.a * n + l.inv.b

\* What compile measures on the finished program is right: its depth is the
\* number of scopes that were open at a time, so an accepted schema never meets
\* run_struct's depth check, and a static size, found by a recursion of its
\* own, is also the minimum.
Measured ==
  /\ mode = "ok" => \A p \in got : p.frames = deepest /\ deepest <= MAX_DEPTH
  /\ \A p \in Programs : p.static \subseteq {p.min}
=============================================================================
