------------------------------- MODULE Unpack -------------------------------
(***************************************************************************)
(* The decoder: run_with and the functions it calls, as a machine that     *)
(* takes one step per opcode.                                              *)
(*                                                                         *)
(* The recursion of run_struct and do_array is the control stack ctl: an   *)
(* entry is one activation, with its position and the limit of the window  *)
(* it reads in.  frames is Ctx.frames, one frame per structure being read. *)
(* mode says what happens next: "step" the topmost activation goes on,     *)
(* "value" op_value runs the opcode at cur, "ret" op_value has returned    *)
(* val and the position ret, "done" run_with has returned outcome.  The    *)
(* builder's unfinished maps and lists are the stack vals, one per entry   *)
(* of ctl.                                                                 *)
(***************************************************************************)
EXTENDS Program

CONSTANTS
  Requests,   \* calls of run_with: [root, offset, exact, stream]
  Buffers     \* the buffers it is called on

ASSUME CallAssumption ==
  /\ Requests \subseteq [root : ProgId, offset : Nat, exact : BOOLEAN, stream : BOOLEAN]
  /\ Buffers \subseteq Seq(Byte)

VARIABLES req, buf, mode, ctl, frames, cur, ret, val, vals, outcome

vars == <<req, buf, mode, ctl, frames, cur, ret, val, vals, outcome>>

Kinds == {"Truncated", "Trailing", "NegativeLen", "Overflow", "DivZero", "Missing",
          "Unterminated", "NoCase", "Decode", "Limit", "Depth", "Checksum", "Const",
          "ReservedBits"}

UntilEof == -1   \* the count of an array that runs to the end of its window
NoVal == <<"none">>
NoAddr == "none"
Pending == [tag |-> "none", kind |-> "Ok", at |-> 0]

here == Last(ctl)
InStruct == ctl # <<>> /\ here.k = "struct"
InArray == ctl # <<>> /\ here.k = "array"

NewFrame == [regs |-> [r \in Regs |-> 0], spans |-> [s \in Spans |-> <<0, 0>>]]

StructEntry(p, pos, limit, win) ==
  [k |-> "struct", id |-> p, i |-> 1, n |-> 0, start |-> pos, pos |-> pos,
   limit |-> limit, win |-> win, depth |-> Len(frames) + 1, deferred |-> <<>>]

ArrayEntry(a, n) ==
  [k |-> "array", id |-> a, i |-> 0, n |-> n, start |-> here.pos, pos |-> here.pos,
   limit |-> here.limit, win |-> {}, depth |-> Len(frames), deferred |-> <<>>]

\* Mutant: a span that runs to the end of the window instead of the field's.
SetSpan_ToLimit(f, span, s, e) ==
  [f EXCEPT !.spans = [x \in Spans |-> IF x \in span THEN <<s, here.limit>> ELSE f.spans[x]]]

SetSpan(f, span, s, e) ==
  [f EXCEPT !.spans = [x \in Spans |-> IF x \in span THEN <<s, e>> ELSE f.spans[x]]]

\* map_set under a key that may be Skip (the empty set).
Put(m, key, v) == [k \in DOMAIN m \cup key |-> IF k \in key THEN v ELSE m[k]]

(***************************************************************************)
(* Endings.  An error leaves through every open run_struct, each of which  *)
(* pops its frame.                                                         *)
(***************************************************************************)
Stop(tag, kind, at, v) ==
  /\ mode' = "done"
  /\ outcome' = [tag |-> tag, kind |-> kind, at |-> at]
  /\ val' = v
  /\ ctl' = <<>> /\ frames' = <<>> /\ vals' = <<>> /\ cur' = NoAddr /\ ret' = 0
  /\ UNCHANGED <<req, buf>>

Fail(kind, at) == Stop("Invalid", kind, at, NoVal)

\* Mutants: the caller's mode ignored either way, and one byte too few asked for.
Starve_Incomplete(needed) == Stop("Incomplete", "Truncated", needed, NoVal)
Starve_Invalid(needed) == Fail("Truncated", Len(buf))
Starve_OneLess(needed) ==
  IF req.stream THEN Stop("Incomplete", "Truncated", needed - 1, NoVal)
                ELSE Fail("Truncated", Len(buf))

\* A shortage is Incomplete for a streaming caller and Invalid otherwise.
Starve(needed) ==
  IF req.stream THEN Stop("Incomplete", "Truncated", needed, NoVal)
                ELSE Fail("Truncated", Len(buf))

\* Mutants: the buffer's end instead of the window's; the whole field asked
\* for instead of what is missing of it.
Fits_Buffer(n) == here.pos + n <= Len(buf)
Short_Whole(n) == IF here.limit = Len(buf) THEN Starve(n) ELSE Fail("Truncated", here.pos)

\* Ctx::need
Fits(n) == here.pos + n <= here.limit
Short(n) ==
  IF here.limit = Len(buf) THEN Starve(here.pos + n - Len(buf))
                           ELSE Fail("Truncated", here.pos)

(***************************************************************************)
(* Expressions read the registers of the current frame and of the frames   *)
(* around it.                                                              *)
(***************************************************************************)
RegFile == [r \in [up : Nat, idx : Regs] |-> Value(frames[Len(frames) - r.up].regs[r.idx])]
EvalHere(e) == Eval(e, RegFile)

EvalLen(e) ==
  LET r == EvalHere(e)
  IN  IF r.kind = "Ok" /\ r.v < 0 THEN Fault("NegativeLen") ELSE r

AtMost(r, max) == IF r.kind = "Ok" /\ r.v > max THEN Fault("Limit") ELSE r

\* resolve_len
ResolveLen(op) ==
  AtMost(IF IsGreedy(op.len) THEN Value(here.limit - here.pos) ELSE EvalLen(op.len.expr),
         op.max)

(***************************************************************************)
(* Entering a structure (run_struct): the depth check, then a frame.       *)
(***************************************************************************)
\* Mutant: one level too many.
Enter_Deeper(p, pos, limit, win) ==
  \/ Len(frames) > MAX_DEPTH /\ Fail("Depth", pos)
  \/ /\ Len(frames) <= MAX_DEPTH
     /\ mode' = "step"
     /\ ctl' = Append(ctl, StructEntry(p, pos, limit, win))
     /\ frames' = Append(frames, NewFrame)
     /\ vals' = Append(vals, <<>>)
     /\ UNCHANGED <<req, buf, cur, ret, val, outcome>>

Enter(p, pos, limit, win) ==
  \/ /\ Len(frames) >= MAX_DEPTH
     /\ Fail("Depth", pos)
  \/ /\ Len(frames) < MAX_DEPTH
     /\ mode' = "step"
     /\ ctl' = Append(ctl, StructEntry(p, pos, limit, win))
     /\ frames' = Append(frames, NewFrame)
     /\ vals' = Append(vals, <<>>)
     /\ UNCHANGED <<req, buf, cur, ret, val, outcome>>

\* Where decoding starts: run_with clamps the offset to the buffer.
Origin == MinOf(req.offset, Len(buf))

\* run_with
Call ==
  /\ mode = "idle"
  /\ Enter(req.root, Origin, Len(buf), {})

(***************************************************************************)
(* run_op: the next field of the structure on top.                         *)
(***************************************************************************)
MoreOps == here.i <= Len(Prog[here.id])
NextAddr == Prog[here.id][here.i]
FieldOp == Code[NextAddr]
AtField(o) == mode = "step" /\ InStruct /\ MoreOps /\ FieldOp.op = o

\* Mutant: what took no bytes is not counted.
Passed_IfMoved(end) ==
  SetTop(ctl, [here EXCEPT !.i = IF end > here.pos THEN @ + 1 ELSE @, !.pos = end])

\* The structure on top has handled a field that ended at end.
Passed(end) == SetTop(ctl, [here EXCEPT !.i = @ + 1, !.pos = end])

ItemRaw(item) ==
  Slice(buf, here.pos + item.off, here.pos + item.off + ItemWidth(item))

ItemInt(item) == ReadInt(ItemRaw(item), item.prim, item.be)

ItemVal(item) ==
  CASE item.kind = "Int" -> <<"int", ItemInt(item)>>
    [] item.kind = "Bool" -> <<"bool", ItemRaw(item) # <<0>> >>
    [] item.kind = "Raw" -> <<"bytes", ItemRaw(item)>>

\* Mutant: a u64 above i64::MAX goes into the register unchecked.
ItemFault_NoOverflow(item) ==
  IF \E x \in item.expected : x # ItemVal(item)[2] THEN "Const" ELSE "Ok"

\* read_fixed_item, its errors: a constant first, then the register.
ItemFault(item) ==
  IF \E x \in item.expected : x # ItemVal(item)[2] THEN "Const"
  ELSE IF item.reg # {} /\ ItemInt(item) \notin I64 THEN "Overflow"
  ELSE "Ok"

BadItems(items) == {i \in DOMAIN items : ItemFault(items[i]) # "Ok"}

\* The first failing item is the one reported.
FailItem(items) ==
  \E i \in BadItems(items) :
    /\ \A j \in BadItems(items) : i <= j
    /\ Fail(ItemFault(items[i]), here.pos + items[i].off)

\* The frame after a run of items: its registers and its spans.
Writers(items, r) == {i \in DOMAIN items : r \in items[i].reg}

ItemsFrame(f, items) ==
  [regs |-> [r \in Regs |->
               IF Writers(items, r) = {} THEN f.regs[r]
               ELSE ItemInt(items[CHOOSE i \in Writers(items, r) : TRUE])],
   spans |-> [s \in Spans |->
               LET at == {i \in DOMAIN items : s \in items[i].span}
                   it == items[CHOOSE i \in at : TRUE]
               IN  IF at = {} THEN f.spans[s]
                   ELSE <<here.pos + it.off, here.pos + it.off + ItemWidth(it)>>]]

KeysOf(items) == UNION {items[i].key : i \in DOMAIN items}
ItemOf(items, k) == items[CHOOSE i \in DOMAIN items : k \in items[i].key]

DoFixed ==
  /\ AtField("Fixed")
  /\ \/ ~Fits(FieldOp.width) /\ Short(FieldOp.width)
     \/ Fits(FieldOp.width) /\ FailItem(FieldOp.items)
     \/ /\ Fits(FieldOp.width)
        /\ BadItems(FieldOp.items) = {}
        /\ frames' = SetTop(frames, ItemsFrame(Last(frames), FieldOp.items))
        /\ vals' = SetTop(vals,
             [k \in DOMAIN Last(vals) \cup KeysOf(FieldOp.items) |->
                IF k \in KeysOf(FieldOp.items) THEN ItemVal(ItemOf(FieldOp.items, k))
                                               ELSE Last(vals)[k]])
        /\ ctl' = Passed(here.pos + FieldOp.width)
        /\ UNCHANGED <<req, buf, mode, cur, ret, val, outcome>>

RunRaw(op) == Slice(buf, here.pos, here.pos + op.nbytes)
BitVal(op, item) == ReadBits(RunRaw(op), item.off, item.width, item.signed)
BadBits(op) == {i \in DOMAIN op.items : op.items[i].reg # {} /\ BitVal(op, op.items[i]) \notin I64}

DoBitRun ==
  /\ AtField("BitRun")
  /\ LET op == FieldOp IN
     \/ ~Fits(op.nbytes) /\ Short(op.nbytes)
     \/ Fits(op.nbytes) /\ BadBits(op) # {} /\ Fail("Overflow", here.pos)
     \/ /\ Fits(op.nbytes)
        /\ BadBits(op) = {}
        /\ frames' = SetTop(frames, [Last(frames) EXCEPT !.regs =
             [r \in Regs |->
                IF Writers(op.items, r) = {} THEN Last(frames).regs[r]
                ELSE BitVal(op, op.items[CHOOSE i \in Writers(op.items, r) : TRUE])]])
        /\ vals' = SetTop(vals,
             [k \in DOMAIN Last(vals) \cup KeysOf(op.items) |->
                IF k \in KeysOf(op.items) THEN <<"int", BitVal(op, ItemOf(op.items, k))>>
                                          ELSE Last(vals)[k]])
        /\ ctl' = Passed(here.pos + op.nbytes)
        /\ UNCHANGED <<req, buf, mode, cur, ret, val, outcome>>

\* A digest is read here and verified when its structure ends.
DoDigest ==
  /\ AtField("Digest")
  /\ LET end == here.pos + ChecksumWidth IN
     \/ ~Fits(ChecksumWidth) /\ Short(ChecksumWidth)
     \/ /\ Fits(ChecksumWidth)
        /\ frames' = SetTop(frames, SetSpan(Last(frames), FieldOp.span, here.pos, end))
        /\ vals' = SetTop(vals, Put(Last(vals), FieldOp.key,
             <<"int", ReadUint(Slice(buf, here.pos, end), FieldOp.be)>>))
        /\ ctl' = SetTop(ctl, [here EXCEPT
             !.i = @ + 1, !.pos = end,
             !.deferred = Append(@, [at |-> NextAddr, pos |-> here.pos])])
        /\ UNCHANGED <<req, buf, mode, cur, ret, val, outcome>>

\* op_value on the opcode at address a.
Descend(a) ==
  /\ mode' = "value"
  /\ cur' = a
  /\ UNCHANGED <<req, buf, ctl, frames, ret, val, vals, outcome>>

\* A conditional field is there, absent, or its predicate faults.
DoCond ==
  /\ AtField("Cond")
  /\ \E p \in {EvalHere(FieldOp.pred)} :
     \/ p.kind # "Ok" /\ Fail(p.kind, here.pos)
     \/ p.kind = "Ok" /\ p.v # 0 /\ Descend(FieldOp.then)
     \/ /\ p.kind = "Ok" /\ p.v = 0
        /\ ctl' = Passed(here.pos)
        /\ UNCHANGED <<req, buf, mode, frames, cur, ret, val, vals, outcome>>

\* Every other opcode produces one value under its key.
DoOther ==
  /\ \E o \in ValueOps \ {"Fixed"} : AtField(o)
  /\ Descend(NextAddr)

FieldDone ==
  /\ mode = "ret"
  /\ InStruct
  /\ frames' = SetTop(frames, SetSpan(Last(frames), FieldOp.span, here.pos, ret))
  /\ vals' = SetTop(vals, Put(Last(vals), FieldOp.key, val))
  /\ ctl' = Passed(ret)
  /\ mode' = "step"
  /\ UNCHANGED <<req, buf, cur, ret, val, outcome>>

(***************************************************************************)
(* op_value, by opcode.                                                    *)
(***************************************************************************)
Op == Code[cur]
AtValue(o) == mode = "value" /\ Op.op = o

Return(end, v) ==
  /\ mode' = "ret"
  /\ ret' = end
  /\ val' = v
  /\ UNCHANGED <<req, buf, ctl, frames, cur, vals, outcome>>

\* One item, without a name: an array element or a branch.
ValFixed ==
  /\ AtValue("Fixed")
  /\ \/ ~Fits(Op.width) /\ Short(Op.width)
     \/ Fits(Op.width) /\ FailItem(Op.items)
     \/ /\ Fits(Op.width)
        /\ BadItems(Op.items) = {}
        /\ Return(here.pos + Op.width, ItemVal(Op.items[1]))

ValBytes ==
  /\ AtValue("Bytes")
  /\ \E n \in {ResolveLen(Op)} :
     \/ n.kind # "Ok" /\ Fail(n.kind, here.pos)
     \/ n.kind = "Ok" /\ ~Fits(n.v) /\ Short(n.v)
     \/ /\ n.kind = "Ok" /\ Fits(n.v)
        /\ Return(here.pos + n.v, <<"bytes", Slice(buf, here.pos, here.pos + n.v)>>)

ValStr ==
  /\ AtValue("Str")
  /\ \E n \in {ResolveLen(Op)} :
     LET raw == Slice(buf, here.pos, here.pos + n.v) IN
     \/ n.kind # "Ok" /\ Fail(n.kind, here.pos)
     \/ n.kind = "Ok" /\ ~Fits(n.v) /\ Short(n.v)
     \/ n.kind = "Ok" /\ Fits(n.v) /\ ~IsText(raw, Op.enc) /\ Fail("Decode", here.pos)
     \/ n.kind = "Ok" /\ Fits(n.v) /\ IsText(raw, Op.enc) /\ Return(here.pos + n.v, <<"str", raw>>)

\* do_cstr: at most max bytes before the NUL, all inside the window.
ValCStr ==
  /\ AtValue("CStr")
  /\ LET window == here.limit - here.pos
         scan == MinOf(window, Op.max + 1)
         nuls == {i \in 0 .. (scan - 1) : buf[here.pos + i + 1] = 0}
         text(i) == Slice(buf, here.pos, here.pos + i) IN
     \/ \E i \in nuls :
          /\ \A j \in nuls : i <= j
          /\ \/ ~IsText(text(i), Op.enc) /\ Fail("Decode", here.pos)
             \/ IsText(text(i), Op.enc) /\ Return(here.pos + i + 1, <<"str", text(i)>>)
     \/ nuls = {} /\ window > Op.max /\ Fail("Limit", here.pos)
     \/ nuls = {} /\ window <= Op.max /\ here.limit = Len(buf) /\ Starve(1)
     \/ nuls = {} /\ window <= Op.max /\ here.limit # Len(buf) /\ Fail("Unterminated", here.pos)

\* do_flags: contiguous fields of one unsigned integer, and what is left over.
FlagVal(raw, item) ==
  IF item.width = 1 THEN <<"bool", FlagBits(raw, item) # 0>> ELSE <<"int", FlagBits(raw, item)>>
FlagItem(items, k) == items[CHOOSE i \in DOMAIN items : items[i].key = k]

\* Mutant: the bits no flag names are lost.
FlagMap_NoRest(raw, op) ==
  LET named == {op.items[i].key : i \in DOMAIN op.items}
      all == IF op.rest = "Keep" THEN named \cup {"_rest"} ELSE named
  IN  [k \in all |-> IF k \in named THEN FlagVal(raw, FlagItem(op.items, k)) ELSE <<"int", 0>>]

FlagMap(raw, op) ==
  LET named == {op.items[i].key : i \in DOMAIN op.items}
      all == IF op.rest = "Keep" THEN named \cup {"_rest"} ELSE named
  IN  [k \in all |-> IF k \in named THEN FlagVal(raw, FlagItem(op.items, k))
                                    ELSE <<"int", Leftover(raw, op.items)>>]

ValFlags ==
  /\ AtValue("Flags")
  /\ LET w == Op.prim.w
         raw == ReadUint(Slice(buf, here.pos, here.pos + w), Op.be)
         reserved == Op.rest = "Strict" /\ Leftover(raw, Op.items) # 0 IN
     \/ ~Fits(w) /\ Short(w)
     \/ Fits(w) /\ reserved /\ Fail("ReservedBits", here.pos)
     \/ Fits(w) /\ ~reserved /\ Return(here.pos + w, <<"map", FlagMap(raw, Op)>>)

\* do_nest: in the same window, or in a window of its own.
ValNest ==
  /\ AtValue("Nest")
  /\ \/ Op.size = {} /\ Enter(Op.prog, here.pos, here.limit, {})
     \/ \E len \in Op.size :
          \E sz \in {EvalLen(len.expr)} :
          \/ sz.kind # "Ok" /\ Fail(sz.kind, here.pos)
          \/ sz.kind = "Ok" /\ ~Fits(sz.v) /\ Short(sz.v)
          \/ /\ sz.kind = "Ok" /\ Fits(sz.v)
             /\ Enter(Op.prog, here.pos, here.pos + sz.v, {here.pos + sz.v})

\* do_array: the count, then one element at a time.
ValArray ==
  /\ AtValue("Array")
  /\ \E n \in {IF IsGreedy(Op.count) THEN Value(UntilEof)
               ELSE AtMost(EvalLen(Op.count.expr), Op.max_count)} :
     \/ n.kind # "Ok" /\ Fail(n.kind, here.pos)
     \/ /\ n.kind = "Ok"
        /\ mode' = "step"
        /\ ctl' = Append(ctl, ArrayEntry(cur, n.v))
        /\ vals' = Append(vals, <<>>)
        /\ UNCHANGED <<req, buf, frames, cur, ret, val, outcome>>

\* do_switch
ValSwitch ==
  /\ AtValue("Switch")
  /\ \E tag \in {EvalHere(Op.on)} :
     LET hits == {Op.cases[i].to : i \in {j \in DOMAIN Op.cases : Op.cases[j].tag = tag.v}}
         targets == IF hits # {} THEN hits ELSE Op.default IN
     \/ tag.kind # "Ok" /\ Fail(tag.kind, here.pos)
     \/ tag.kind = "Ok" /\ targets = {} /\ Fail("NoCase", here.pos)
     \/ tag.kind = "Ok" /\ \E a \in targets : Descend(a)

(***************************************************************************)
(* The loop of do_array.                                                   *)
(***************************************************************************)
MoreElems == IF here.n = UntilEof THEN here.pos < here.limit ELSE here.i < here.n
OverCount == here.n = UntilEof /\ here.i >= Code[here.id].max_count

ElemNext ==
  /\ mode = "step" /\ InArray /\ MoreElems
  /\ \/ OverCount /\ Fail("Limit", here.pos)
     \/ ~OverCount /\ Descend(Code[here.id].elem)

ElemDone ==
  /\ mode = "ret" /\ InArray
  /\ ctl' = Passed(ret)
  /\ vals' = SetTop(vals, Append(Last(vals), val))
  /\ mode' = "step"
  /\ UNCHANGED <<req, buf, frames, cur, ret, val, outcome>>

ArrayEnd ==
  /\ mode = "step" /\ InArray /\ ~MoreElems
  /\ mode' = "ret"
  /\ ret' = here.pos
  /\ val' = <<"list", Last(vals)>>
  /\ ctl' = Front(ctl)
  /\ vals' = Front(vals)
  /\ UNCHANGED <<req, buf, frames, cur, outcome>>

(***************************************************************************)
(* The end of a structure: its digests in declaration order, then the      *)
(* window it had to fill, then its caller.                                 *)
(***************************************************************************)
Covered(d) ==
  LET op == Code[d.at]
      spans == Last(frames).spans
  IN  IF op.over = <<>>
      THEN Slice(buf, here.start, d.pos) \o Zeros(ChecksumWidth)
             \o Slice(buf, d.pos + ChecksumWidth, here.pos)
      ELSE FlattenSeq([i \in DOMAIN op.over |-> Slice(buf, spans[op.over[i]][1], spans[op.over[i]][2])])

Verifies(d) ==
  \/ ~Code[d.at].verify
  \/ IpChecksum(Covered(d)) =
       ReadUint(Slice(buf, d.pos, d.pos + ChecksumWidth), Code[d.at].be)

BadDigests == {i \in DOMAIN here.deferred : ~Verifies(here.deferred[i])}

Overhang == here.win # {} /\ here.pos \notin here.win

LeaveStruct ==
  /\ mode = "step" /\ InStruct /\ ~MoreOps
  /\ \/ \E i \in BadDigests :
          /\ \A j \in BadDigests : i <= j
          /\ Fail("Checksum", here.deferred[i].pos)
     \/ BadDigests = {} /\ Overhang /\ Fail("Trailing", here.pos)
     \/ /\ BadDigests = {} /\ ~Overhang /\ Len(ctl) > 1
        /\ mode' = "ret"
        /\ ret' = here.pos
        /\ val' = <<"map", Last(vals)>>
        /\ ctl' = Front(ctl) /\ frames' = Front(frames) /\ vals' = Front(vals)
        /\ UNCHANGED <<req, buf, cur, outcome>>
     \/ /\ BadDigests = {} /\ Len(ctl) = 1
        /\ \/ req.exact /\ here.pos # Len(buf) /\ Fail("Trailing", here.pos)
           \/ (req.exact => here.pos = Len(buf)) /\ Stop("Ok", "Ok", here.pos, <<"map", Last(vals)>>)

-----------------------------------------------------------------------------
Init ==
  /\ req \in Requests
  /\ buf \in Buffers
  /\ mode = "idle"
  /\ ctl = <<>> /\ frames = <<>> /\ vals = <<>>
  /\ cur = NoAddr /\ ret = 0 /\ val = NoVal
  /\ outcome = Pending

FieldStep == DoFixed \/ DoBitRun \/ DoDigest \/ DoCond \/ DoOther \/ FieldDone
ValueStep == ValFixed \/ ValBytes \/ ValStr \/ ValCStr \/ ValFlags \/ ValNest \/ ValArray \/ ValSwitch
ArrayStep == ElemNext \/ ElemDone \/ ArrayEnd

Step == Call \/ FieldStep \/ ValueStep \/ ArrayStep \/ LeaveStruct

\* run_with has returned: the caller has the outcome and nothing runs.
Returned == mode = "done" /\ UNCHANGED vars

Next == Step \/ Returned

Spec == Init /\ [][Next]_vars

\* The thread that runs the decoder keeps running until the call returns:
\* WF_vars(Step), since a step is possible exactly while mode # "done" (the
\* runs check that nothing else deadlocks).  In this form TLC need not
\* evaluate ENABLED Step.
FairSpec == Spec /\ ([]<>(mode = "done") \/ []<><<mode # "done">>_vars)
-----------------------------------------------------------------------------
(***************************************************************************)
(* Properties.                                                             *)
(***************************************************************************)
Frame == [regs : [Regs -> I64], spans : [Spans -> Nat \X Nat]]
Deferred == [at : Addr, pos : Nat]

Entry == [k : {"struct", "array"}, id : ProgId \cup Addr, i : Nat, n : Int, start : Nat,
          pos : Nat, limit : Nat, win : SUBSET Nat, depth : Nat, deferred : Seq(Deferred)]

\* An activation runs a program, at one of its fields or at its end, or an
\* array opcode.
EntryOk(e) ==
  /\ e.k = "struct" => e.id \in ProgId /\ e.i \in 1 .. (Len(Prog[e.id]) + 1)
  /\ e.k = "array" => e.id \in Addr /\ Code[e.id].op = "Array"

\* The machine's state is well typed: every activation runs a program or an
\* array that exists, registers hold i64s, and the reported kinds are Kinds.
TypeOK ==
  /\ mode \in {"idle", "step", "value", "ret", "done"}
  /\ buf \in Seq(Byte)
  /\ req \in [root : ProgId, offset : Nat, exact : BOOLEAN, stream : BOOLEAN]
  /\ ret \in Nat
  /\ mode = "value" => cur \in Addr
  /\ frames \in Seq(Frame)
  /\ ctl \in Seq(Entry)
  /\ \A i \in DOMAIN ctl : EntryOk(ctl[i])
  /\ outcome \in [tag : {"none", "Ok", "Incomplete", "Invalid"}, kind : Kinds \cup {"Ok"}, at : Nat]

\* Every position lies in its window and every window in the one around it,
\* so no `limit - pos` of do_cstr, do_array or resolve_len underflows and no
\* slice of the buffer is out of range.
InWindows ==
  /\ \A i \in DOMAIN ctl :
       /\ Origin <= ctl[i].start
       /\ ctl[i].start <= ctl[i].pos /\ ctl[i].pos <= ctl[i].limit /\ ctl[i].limit <= Len(buf)
       /\ \A w \in ctl[i].win : w = ctl[i].limit
       /\ i > 1 => ctl[i - 1].pos <= ctl[i].start /\ ctl[i].limit <= ctl[i - 1].limit
  /\ mode = "ret" => here.pos <= ret /\ ret <= here.limit

\* A span of a structure's scope is still unset, or runs forwards over bytes
\* that the structure has read.
SpanRead(e, x) == x = <<0, 0>> \/ (e.start <= x[1] /\ x[1] <= x[2] /\ x[2] <= e.pos)

\* The bytes a digest covers, and its own, are bytes its own structure has
\* read, so that nothing of an earlier structure and nothing that comes later
\* is hashed: Deferred::compute slices the buffer at scope_start, field and
\* span bounds.
DigestsInside ==
  \A i \in DOMAIN ctl :
    /\ \A j \in DOMAIN ctl[i].deferred :
         /\ ctl[i].start <= ctl[i].deferred[j].pos
         /\ ctl[i].deferred[j].pos + ChecksumWidth <= ctl[i].pos
         /\ Code[ctl[i].deferred[j].at].op = "Digest"
    /\ ctl[i].k = "struct" =>
         \A s \in Spans : SpanRead(ctl[i], frames[ctl[i].depth].spans[s])

\* One frame per open structure and never more than MAX_DEPTH of them, and an
\* activation that waits for a value still has the field it is for, so that
\* neither `frames.last_mut().expect("frame")` nor the field is ever missing.
FramesMatch ==
  /\ Len(frames) <= MAX_DEPTH
  /\ (mode \in {"step", "value", "ret"}) <=> ctl # <<>>
  /\ ctl = <<>> => frames = <<>>
  /\ ctl # <<>> => ctl[1].k = "struct" /\ ctl[1].depth = 1 /\ here.depth = Len(frames)
  /\ \A i \in DOMAIN ctl :
       /\ ctl[i].depth >= 1
       /\ i > 1 => ctl[i].depth = ctl[i - 1].depth + (IF ctl[i].k = "struct" THEN 1 ELSE 0)
       /\ ctl[i].k = "struct" /\ (i < Len(ctl) \/ mode \in {"value", "ret"}) =>
            ctl[i].i <= Len(Prog[ctl[i].id])

\* What the caller is told refers to the buffer it passed: the end of an Ok
\* and the offset of an Invalid lie between the start and the end of the
\* buffer, and Incomplete asks for at least one byte.
OutcomeInBuffer ==
  mode = "done" =>
    IF outcome.tag = "Incomplete" THEN req.stream /\ outcome.at >= 1
                                  ELSE Origin <= outcome.at /\ outcome.at <= Len(buf)

\* Decoding ends, whatever the buffer: loops over elements that take no bytes
\* included.
Terminates == <>(mode = "done")
=============================================================================
