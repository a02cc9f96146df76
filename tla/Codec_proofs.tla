---------------------------- MODULE Codec_proofs ----------------------------
(***************************************************************************)
(* The decoder's invariants, for every schema, buffer and limit, and the   *)
(* key cache that the facade keeps for decoder and encoder.                *)
(*                                                                         *)
(* The decoder's invariants are inductive together.  A step changes the    *)
(* machine in one of six ways (it stops, goes down to a value, returns one,*)
(* passes a field, opens an activation or closes one); there is a lemma    *)
(* for each, and an action is shown to be an instance of them.             *)
(*                                                                         *)
(* No name is looked up in the key cache that compile() did not put there. *)
(* The cache of a root is what is collected below its fields, and what is  *)
(* collected below an opcode contains its own names and all that is        *)
(* collected below the opcodes inside it.  Both interpreters only ever go  *)
(* from an opcode to one inside it, so they stay within the cache.         *)
(***************************************************************************)
EXTENDS Codec, Stacks

(***************************************************************************)
(* What is inductive.  DigestsInBuffer is what each step can be shown to   *)
(* keep without knowing which frame is whose: where the deferred digests   *)
(* lie, and that spans lie in the buffer.  That a span lies in its own     *)
(* structure is SpansRead, further down.                                   *)
(***************************************************************************)
DigestsInBuffer ==
  /\ \A i \in DOMAIN ctl : \A j \in DOMAIN ctl[i].deferred :
       /\ ctl[i].start <= ctl[i].deferred[j].pos
       /\ ctl[i].deferred[j].pos + ChecksumWidth <= ctl[i].pos
       /\ Code[ctl[i].deferred[j].at].op = "Digest"
  /\ \A f \in DOMAIN frames : \A s \in Spans :
       /\ frames[f].spans[s][1] <= frames[f].spans[s][2]
       /\ frames[f].spans[s][2] <= Len(buf)

IInv == TypeOK /\ FramesMatch /\ InWindows /\ DigestsInBuffer /\ OutcomeInBuffer

(***************************************************************************)
(* Stacks.                                                                 *)
(***************************************************************************)
\* Replacing the top keeps the stack's height and everything below.
LEMMA StackSet ==
  ASSUME NEW S, NEW s \in Seq(S), s # <<>>, NEW x \in S
  PROVE  /\ SetTop(s, x) \in Seq(S)
         /\ SetTop(s, x) # <<>>
         /\ Len(SetTop(s, x)) = Len(s)
         /\ Last(SetTop(s, x)) = x
         /\ \A i \in 1 .. (Len(s) - 1) : SetTop(s, x)[i] = s[i]
         /\ SetTop(s, x)[Len(s)] = x
<1>1. Len(s) \in 1 .. Len(s)
  OBVIOUS
<1> QED
  BY <1>1 DEF Last, SetTop

(***************************************************************************)
(* Expressions.                                                            *)
(***************************************************************************)
\* The machine integers are integers and include zero.
LEMMA ZeroIsI64 == 0 \in I64 /\ I64 \subseteq Int
  BY WireAssumption DEF I64

\* An expression yields an i64 or one of its faults.
LEMMA EvalType == ASSUME NEW e, NEW get PROVE Eval(e, get) \in EvalResult
<1> DEFINE m == Run(e, get)
           r == [kind |-> m.kind, v |-> Last(m.st)]
<1>1. Fault("Overflow") \in EvalResult
  BY ZeroIsI64 DEF EvalResult, Fault, EvalFaults
<1>2. Eval(e, get) = IF r \in EvalResult THEN r ELSE Fault("Overflow")
  BY DEF Eval
<1> HIDE DEF r
<1> QED
  BY <1>1, <1>2

\* The results that lengths and counts have: a fault that is reported, or a
\* natural number.
LenResult(r) == r.kind \in Kinds \cup {"Ok"} /\ (r.kind = "Ok" => r.v \in Nat)

\* The same with the registers of the open frames.
LEMMA EvalHereType == ASSUME NEW e
  PROVE  EvalHere(e).kind \in Kinds \cup {"Ok"} /\ EvalHere(e).v \in Int
  BY EvalType, ZeroIsI64 DEF EvalHere, EvalResult, EvalFaults, Kinds

\* eval_len: a length is never negative.
LEMMA EvalLenType == ASSUME NEW e PROVE LenResult(EvalLen(e))
<1>1. EvalHere(e).kind \in Kinds \cup {"Ok"} /\ EvalHere(e).v \in Int
  BY EvalHereType
<1>2. EvalLen(e) = IF EvalHere(e).kind = "Ok" /\ EvalHere(e).v < 0 THEN Fault("NegativeLen") ELSE EvalHere(e)
  BY DEF EvalLen
<1> QED
  BY <1>1, <1>2 DEF LenResult, Fault, Kinds

\* A limit turns a length that is too large into a fault.
LEMMA AtMostType == ASSUME NEW r, NEW max, LenResult(r) PROVE LenResult(AtMost(r, max))
  BY DEF LenResult, AtMost, Fault, Kinds

\* resolve_len, whether the length is an expression or all that is left.
LEMMA ResolveLenType ==
  ASSUME NEW op, here.limit \in Nat, here.pos \in Nat, here.pos <= here.limit
  PROVE  LenResult(ResolveLen(op))
<1>1. LenResult(Value(here.limit - here.pos))
  BY DEF LenResult, Value
<1> QED
  BY <1>1, EvalLenType, AtMostType DEF ResolveLen

(***************************************************************************)
(* The machine stops.                                                      *)
(***************************************************************************)
\* An outcome of the right kind with a position inside the buffer, or a
\* positive demand made by a streaming caller.
LEMMA StopOk ==
  ASSUME IInv,
         NEW tag \in {"Ok", "Incomplete", "Invalid"}, NEW kind \in Kinds \cup {"Ok"},
         NEW at \in Nat, NEW v,
         IF tag = "Incomplete" THEN req.stream /\ at >= 1 ELSE Origin <= at /\ at <= Len(buf),
         Stop(tag, kind, at, v)
  PROVE  IInv'
<1>1. /\ mode' = "done" /\ outcome' = [tag |-> tag, kind |-> kind, at |-> at]
      /\ ctl' = <<>> /\ frames' = <<>> /\ ret' = 0 /\ req' = req /\ buf' = buf
  BY DEF Stop
<1>2. TypeOK'
  BY <1>1 DEF IInv, TypeOK
<1>3. FramesMatch'
  BY <1>1, ProgramAssumption DEF FramesMatch
<1>4. InWindows' /\ DigestsInBuffer'
  BY <1>1 DEF InWindows, DigestsInBuffer
<1>5. OutcomeInBuffer'
  BY <1>1 DEF OutcomeInBuffer, Origin
<1> QED
  BY <1>2, <1>3, <1>4, <1>5 DEF IInv

\* An error at a position between the start and the end of the buffer.
LEMMA FailOk ==
  ASSUME IInv, NEW kind \in Kinds, NEW at \in Nat, Origin <= at, at <= Len(buf), Fail(kind, at)
  PROVE  IInv'
  BY StopOk DEF Fail

\* What is known of the activation on top.
LEMMA HereFacts ==
  ASSUME IInv, ctl # <<>>
  PROVE  /\ here \in Entry /\ EntryOk(here) /\ here = ctl[Len(ctl)]
         /\ Len(ctl) \in Nat /\ Len(ctl) >= 1
         /\ Len(buf) \in Nat /\ Origin \in Nat
         /\ here.pos \in Nat /\ here.limit \in Nat /\ here.start \in Nat
         /\ Origin <= here.start /\ here.start <= here.pos
         /\ here.pos <= here.limit /\ here.limit <= Len(buf)
         /\ frames # <<>> /\ here.depth = Len(frames)
         /\ Last(frames) \in Frame
<1>1. ctl \in Seq(Entry) /\ buf \in Seq(Byte) /\ req.offset \in Nat /\ frames \in Seq(Frame)
  BY DEF IInv, TypeOK
<1>2. PICK n \in Nat : n = Len(ctl) /\ n >= 1 /\ n \in DOMAIN ctl
  BY <1>1
<1>3. here = ctl[n] /\ here \in Entry
  BY <1>1, <1>2, StackTop DEF here
<1>4. EntryOk(here)
  BY <1>2, <1>3 DEF IInv, TypeOK
<1>5. Len(buf) \in Nat /\ Origin \in Nat
  BY <1>1 DEF Origin, MinOf
<1>6. here.pos \in Nat /\ here.limit \in Nat /\ here.start \in Nat /\ here.depth \in Nat
  BY <1>3 DEF Entry
<1>7. /\ Origin <= here.start /\ here.start <= here.pos
      /\ here.pos <= here.limit /\ here.limit <= Len(buf)
  BY <1>2, <1>3 DEF IInv, InWindows
<1>8. here.depth = Len(frames) /\ here.depth >= 1
  BY <1>2, <1>3 DEF IInv, FramesMatch
<1>9. frames # <<>> 
  BY <1>1, <1>8
<1>10. Last(frames) \in Frame
  BY <1>1, <1>9, StackTop
<1> QED
  BY <1>2, <1>3, <1>4, <1>5, <1>6, <1>7, <1>8, <1>9, <1>10

\* A fault at the current position.
LEMMA FailHere ==
  ASSUME IInv, ctl # <<>>, NEW kind \in Kinds, Fail(kind, here.pos)
  PROVE  IInv'
  BY HereFacts, FailOk

\* A shortage of at least one byte.
LEMMA StarveOk ==
  ASSUME IInv, NEW needed \in Nat, needed >= 1, Starve(needed)
  PROVE  IInv'
<1>1. Len(buf) \in Nat /\ Origin \in Nat /\ Origin <= Len(buf)
  BY DEF IInv, TypeOK, Origin, MinOf
<1>2. CASE req.stream
  BY <1>2, StopOk DEF Starve, Kinds
<1>3. CASE ~req.stream
  BY <1>1, <1>3, FailOk DEF Starve, Kinds
<1> QED
  BY <1>2, <1>3

\* What fits ends inside the window, and so inside the buffer.
LEMMA FitsIn ==
  ASSUME IInv, ctl # <<>>, NEW n \in Nat, Fits(n)
  PROVE  /\ here.pos \in Nat /\ here.pos + n \in Nat /\ Len(buf) \in Nat
         /\ here.pos <= here.pos + n /\ here.pos + n <= here.limit /\ here.pos + n <= Len(buf)
  BY HereFacts DEF Fits

\* need(): what does not fit is either missing from the buffer or beyond the
\* window.
LEMMA ShortOk ==
  ASSUME IInv, ctl # <<>>, NEW n \in Nat, ~Fits(n), Short(n)
  PROVE  IInv'
<1>1. CASE here.limit = Len(buf)
  <2>1. here.pos + n - Len(buf) \in Nat /\ here.pos + n - Len(buf) >= 1
    BY <1>1, HereFacts DEF Fits
  <2> QED
    BY <1>1, <2>1, StarveOk DEF Short
<1>2. CASE here.limit # Len(buf)
  BY <1>2, FailHere DEF Short, Kinds
<1> QED
  BY <1>1, <1>2

(***************************************************************************)
(* The machine goes down to a value, or returns one: the stacks stay.      *)
(***************************************************************************)
\* The activation on top, if it is a structure, has a field left.
TopHasField == InStruct => MoreOps

\* Going down to a value changes neither the activations nor the frames.
LEMMA DescendOk ==
  ASSUME IInv, ctl # <<>>, NEW a \in Addr, mode \in {"step", "value"}, TopHasField, Descend(a)
  PROVE  IInv'
<1>1. /\ mode' = "value" /\ cur' = a
      /\ UNCHANGED <<req, buf, ctl, frames, ret, outcome>>
  BY DEF Descend
<1>2. TypeOK'
  BY <1>1 DEF IInv, TypeOK
<1>3. FramesMatch'
  <2>1. \A i \in DOMAIN ctl : ctl[i].k = "struct" => ctl[i].i <= Len(Prog[ctl[i].id])
    <3> SUFFICES ASSUME NEW i \in DOMAIN ctl, ctl[i].k = "struct"
                 PROVE  ctl[i].i <= Len(Prog[ctl[i].id])
      OBVIOUS
    <3>1. CASE i < Len(ctl)
      BY <3>1 DEF IInv, FramesMatch
    <3>2. CASE i = Len(ctl)
      BY <3>2, HereFacts DEF TopHasField, InStruct, MoreOps
    <3> QED
      BY <3>1, <3>2 DEF IInv, TypeOK
  <2>2. here' = here
    BY <1>1 DEF here
  <2> QED
    BY <1>1, <2>1, <2>2 DEF IInv, FramesMatch
<1>4. InWindows' /\ DigestsInBuffer' /\ OutcomeInBuffer'
  BY <1>1 DEF IInv, InWindows, DigestsInBuffer, OutcomeInBuffer, Origin
<1> QED
  BY <1>2, <1>3, <1>4 DEF IInv

\* A value that ends inside the window may be returned.
LEMMA ReturnOk ==
  ASSUME IInv, mode = "value", NEW end \in Nat, here.pos <= end, end <= here.limit,
         NEW v, Return(end, v)
  PROVE  IInv'
<1>1. /\ mode' = "ret" /\ ret' = end
      /\ UNCHANGED <<req, buf, ctl, frames, cur, outcome>>
  BY DEF Return
<1>2. here' = here
  BY <1>1 DEF here
<1>3. TypeOK'
  BY <1>1 DEF IInv, TypeOK
<1>4. FramesMatch'
  BY <1>1, <1>2 DEF IInv, FramesMatch
<1>5. InWindows'
  BY <1>1, <1>2 DEF IInv, InWindows, Origin
<1>6. DigestsInBuffer' /\ OutcomeInBuffer'
  BY <1>1 DEF IInv, DigestsInBuffer, OutcomeInBuffer, Origin
<1> QED
  BY <1>3, <1>4, <1>5, <1>6 DEF IInv

(***************************************************************************)
(* The activation on top passes a field or an element.                     *)
(***************************************************************************)
SpansOk(f) == \A s \in Spans : f.spans[s][1] <= f.spans[s][2] /\ f.spans[s][2] <= Len(buf)

DeferredOk(e) ==
  \A j \in DOMAIN e.deferred :
    /\ e.start <= e.deferred[j].pos
    /\ e.deferred[j].pos + ChecksumWidth <= e.pos
    /\ Code[e.deferred[j].at].op = "Digest"

\* e is the entry here, moved on to the next field, which starts at e.pos.
MovedOn(e) ==
  /\ e \in Entry
  /\ e.k = here.k /\ e.id = here.id /\ e.i = here.i + 1 /\ e.start = here.start
  /\ e.limit = here.limit /\ e.win = here.win /\ e.depth = here.depth
  /\ here.pos <= e.pos /\ e.pos <= here.limit
  /\ DeferredOk(e)

\* The activation on top may be replaced by itself, moved on.
LEMMA AdvanceOk ==
  ASSUME IInv, ctl # <<>>, TopHasField, NEW e, MovedOn(e),
         ctl' = SetTop(ctl, e), mode' = "step",
         frames' \in Seq(Frame), Len(frames') = Len(frames),
         \A i \in DOMAIN frames' : SpansOk(frames'[i]),
         UNCHANGED <<req, buf, ret, outcome>>
  PROVE  IInv'
<1> PICK n \in Nat : n = Len(ctl) /\ n >= 1
  BY HereFacts
<1>1. ctl \in Seq(Entry) /\ e \in Entry
  BY DEF IInv, TypeOK, MovedOn
<1>2. /\ ctl' \in Seq(Entry) /\ ctl' # <<>> /\ Len(ctl') = n /\ here' = e
      /\ \A i \in 1 .. (n - 1) : ctl'[i] = ctl[i]
      /\ ctl'[n] = e
      /\ DOMAIN ctl' = 1 .. n /\ DOMAIN ctl = 1 .. n
  <2>1. /\ SetTop(ctl, e) \in Seq(Entry)
        /\ SetTop(ctl, e) # <<>>
        /\ Len(SetTop(ctl, e)) = Len(ctl)
        /\ Last(SetTop(ctl, e)) = e
        /\ \A i \in 1 .. (Len(ctl) - 1) : SetTop(ctl, e)[i] = ctl[i]
        /\ SetTop(ctl, e)[Len(ctl)] = e
    BY <1>1, StackSet, Zenon
  <2>2. here' = Last(ctl')
    BY DEF here
  <2>3. ctl' \in Seq(Entry) /\ ctl' # <<>> /\ Len(ctl') = n /\ here' = e /\ ctl'[n] = e
    BY <2>1, <2>2
  <2>4. \A i \in 1 .. (n - 1) : ctl'[i] = ctl[i]
    BY <2>1
  <2> QED
    BY <1>1, <2>3, <2>4
<1>3. here = ctl[n] /\ EntryOk(here)
  BY HereFacts
<1>4. EntryOk(e)
  <2>1. CASE e.k = "struct"
    <3>1. here.id \in ProgId /\ here.i \in 1 .. Len(Prog[here.id]) /\ Len(Prog[here.id]) \in Nat
      BY <1>3, <2>1, ProgramAssumption DEF EntryOk, TopHasField, InStruct, MoreOps, MovedOn
    <3> QED
      BY <2>1, <3>1 DEF EntryOk, MovedOn
  <2>2. CASE e.k # "struct"
    BY <1>3, <2>2 DEF EntryOk, MovedOn
  <2> QED
    BY <2>1, <2>2
<1>5. TypeOK'
  <2>1. \A i \in 1 .. n : EntryOk(ctl[i])
    BY <1>2 DEF IInv, TypeOK
  <2>2. ASSUME NEW i \in 1 .. n PROVE EntryOk(ctl'[i])
    <3>1. i \in 1 .. (n - 1) \/ i = n
      OBVIOUS
    <3> QED
      BY <1>2, <1>4, <2>1, <3>1
  <2> QED
    BY <1>2, <2>2 DEF IInv, TypeOK
<1>6. FramesMatch'
  <2>1. \A i \in 1 .. n : ctl'[i].k = ctl[i].k /\ ctl'[i].id = ctl[i].id /\ ctl'[i].depth = ctl[i].depth
    BY <1>2, <1>3 DEF MovedOn
  <2>2. /\ ctl[1].k = "struct" /\ ctl[1].depth = 1 /\ here.depth = Len(frames) /\ Len(frames) <= MAX_DEPTH
        /\ \A i \in 1 .. n :
             /\ ctl[i].depth >= 1
             /\ i > 1 => ctl[i].depth = ctl[i - 1].depth + (IF ctl[i].k = "struct" THEN 1 ELSE 0)
             /\ ctl[i].k = "struct" /\ i < n => ctl[i].i <= Len(Prog[ctl[i].id])
    BY <1>2 DEF IInv, FramesMatch
  <2>3. /\ ctl'[1].k = "struct" /\ ctl'[1].depth = 1 /\ here'.depth = Len(frames')
    BY <1>2, <2>1, <2>2 DEF MovedOn
  <2>4. ASSUME NEW i \in 1 .. n
        PROVE  /\ ctl'[i].depth >= 1
               /\ i > 1 => ctl'[i].depth = ctl'[i - 1].depth + (IF ctl'[i].k = "struct" THEN 1 ELSE 0)
               /\ ctl'[i].k = "struct" /\ i < n => ctl'[i].i <= Len(Prog[ctl'[i].id])
    <3>1. i > 1 => i - 1 \in 1 .. n
      OBVIOUS
    <3>2. i < n => ctl'[i] = ctl[i]
      BY <1>2
    <3> QED
      BY <2>1, <2>2, <3>1, <3>2
  <2> QED
    BY <1>2, <2>2, <2>3, <2>4 DEF FramesMatch
<1>7. InWindows'
  <2>1. \A i \in 1 .. n :
          /\ ctl'[i].start = ctl[i].start /\ ctl'[i].limit = ctl[i].limit /\ ctl'[i].win = ctl[i].win
          /\ i < n => ctl'[i].pos = ctl[i].pos
    BY <1>2, <1>3 DEF MovedOn
  <2>2. \A i \in 1 .. n :
          /\ Origin <= ctl[i].start
          /\ ctl[i].start <= ctl[i].pos /\ ctl[i].pos <= ctl[i].limit /\ ctl[i].limit <= Len(buf)
          /\ \A w \in ctl[i].win : w = ctl[i].limit
          /\ i > 1 => ctl[i - 1].pos <= ctl[i].start /\ ctl[i].limit <= ctl[i - 1].limit
    BY <1>2 DEF IInv, InWindows
  <2>3. e.start <= e.pos /\ e.pos <= e.limit
    BY HereFacts DEF MovedOn, Entry
  <2>4. Origin' = Origin /\ buf' = buf
    BY DEF Origin
  <2>5. ASSUME NEW i \in 1 .. n
        PROVE  /\ Origin' <= ctl'[i].start
               /\ ctl'[i].start <= ctl'[i].pos /\ ctl'[i].pos <= ctl'[i].limit /\ ctl'[i].limit <= Len(buf')
               /\ \A w \in ctl'[i].win : w = ctl'[i].limit
               /\ i > 1 => ctl'[i - 1].pos <= ctl'[i].start /\ ctl'[i].limit <= ctl'[i - 1].limit
    <3>1. i > 1 => i - 1 \in 1 .. n /\ i - 1 < n
      OBVIOUS
    <3>2. ctl'[i].pos = IF i < n THEN ctl[i].pos ELSE e.pos
      BY <1>2
    <3>3. i < n \/ ctl'[i] = e
      BY <1>2
    <3> QED
      BY <2>1, <2>2, <2>3, <2>4, <3>1, <3>2, <3>3
  <2> QED
    BY <1>2, <2>5 DEF InWindows
<1>8. DigestsInBuffer'
  <2>1. \A i \in 1 .. n : DeferredOk(ctl'[i])
    BY <1>2 DEF IInv, DigestsInBuffer, DeferredOk, MovedOn
  <2> QED
    BY <1>2, <2>1 DEF DigestsInBuffer, DeferredOk, SpansOk
<1>9. OutcomeInBuffer'
  BY DEF OutcomeInBuffer
<1> QED
  BY <1>5, <1>6, <1>7, <1>8, <1>9 DEF IInv

(***************************************************************************)
(* An activation opens.                                                    *)
(***************************************************************************)
\* The entry e may go on top: it starts empty, in a window inside the one of
\* the activation that waits for it.
MayOpen(e) ==
  /\ e \in Entry /\ EntryOk(e)
  /\ e.start = e.pos /\ e.deferred = <<>>
  /\ Origin <= e.pos /\ e.pos <= e.limit /\ e.limit <= Len(buf)
  /\ \A w \in e.win : w = e.limit
  /\ e.depth >= 1
  /\ ctl = <<>> => e.k = "struct" /\ e.depth = 1
  /\ ctl # <<>> =>
       /\ mode = "value"
       /\ here.pos <= e.pos /\ e.limit <= here.limit
       /\ e.depth = here.depth + (IF e.k = "struct" THEN 1 ELSE 0)

\* An activation that may open keeps the invariant.
LEMMA OpenOk ==
  ASSUME IInv, NEW e, MayOpen(e), ctl' = Append(ctl, e), mode' = "step",
         frames' \in Seq(Frame), Len(frames') = e.depth, e.depth <= MAX_DEPTH,
         \A i \in DOMAIN frames' : SpansOk(frames'[i]),
         UNCHANGED <<req, buf, ret, outcome>>
  PROVE  IInv'
<1>1. ctl \in Seq(Entry) /\ e \in Entry /\ EntryOk(e)
  BY DEF IInv, TypeOK, MayOpen
<1> PICK n \in Nat : n = Len(ctl)
  BY <1>1
<1>2. /\ ctl' \in Seq(Entry) /\ ctl' # <<>> /\ Len(ctl') = n + 1 /\ here' = e
      /\ \A i \in 1 .. n : ctl'[i] = ctl[i]
      /\ ctl'[n + 1] = e
      /\ DOMAIN ctl' = 1 .. (n + 1) /\ DOMAIN ctl = 1 .. n
  <2>1. /\ ctl' \in Seq(Entry) /\ ctl' # <<>> /\ Len(ctl') = n + 1
        /\ \A i \in 1 .. n : ctl'[i] = ctl[i]
        /\ ctl'[n + 1] = e
    BY <1>1
  <2> QED
    BY <1>1, <2>1 DEF here, Last
<1>3. n >= 1 => ctl # <<>> /\ here = ctl[n]
  BY <1>1 DEF here, Last
<1>4. n = 0 => ctl = <<>>
  BY <1>1, EmptySeq
<1>5. TypeOK'
  <2>1. \A i \in 1 .. n : EntryOk(ctl[i])
    BY <1>2 DEF IInv, TypeOK
  <2>2. ASSUME NEW i \in 1 .. (n + 1) PROVE EntryOk(ctl'[i])
    <3>1. i \in 1 .. n \/ i = n + 1
      OBVIOUS
    <3> QED
      BY <1>1, <1>2, <2>1, <3>1
  <2> QED
    BY <1>2, <2>2 DEF IInv, TypeOK
<1>6. FramesMatch'
  <2>1. \A i \in 1 .. n :
          /\ ctl[i].depth >= 1
          /\ i > 1 => ctl[i].depth = ctl[i - 1].depth + (IF ctl[i].k = "struct" THEN 1 ELSE 0)
          /\ ctl[i].k = "struct" /\ (i < n \/ mode = "value") => ctl[i].i <= Len(Prog[ctl[i].id])
    BY <1>2 DEF IInv, FramesMatch
  <2>2. ctl'[1].k = "struct" /\ ctl'[1].depth = 1
    <3>1. CASE n = 0
      BY <1>2, <1>4, <3>1 DEF MayOpen
    <3>2. CASE n >= 1
      <4>1. ctl'[1] = ctl[1]
        BY <1>2, <3>2
      <4> QED
        BY <1>3, <3>2, <4>1 DEF IInv, FramesMatch
    <3> QED
      BY <3>1, <3>2
  <2>3. ASSUME NEW i \in 1 .. (n + 1)
        PROVE  /\ ctl'[i].depth >= 1
               /\ i > 1 => ctl'[i].depth = ctl'[i - 1].depth + (IF ctl'[i].k = "struct" THEN 1 ELSE 0)
               /\ ctl'[i].k = "struct" /\ i < n + 1 => ctl'[i].i <= Len(Prog[ctl'[i].id])
    <3>1. CASE i = n + 1
      <4>1. i > 1 => n >= 1 /\ n \in 1 .. n /\ ctl'[i - 1] = ctl[n] /\ i - 1 = n
        BY <1>2, <3>1
      <4> QED
        BY <1>2, <1>3, <3>1, <4>1 DEF MayOpen
    <3>2. CASE i \in 1 .. n
      <4>1. i > 1 => i - 1 \in 1 .. n
        BY <3>2
      <4>2. mode = "value"
        BY <1>3, <3>2 DEF MayOpen
      <4> QED
        BY <1>2, <2>1, <3>2, <4>1, <4>2
    <3> QED
      BY <3>1, <3>2
  <2> QED
    BY <1>2, <2>2, <2>3 DEF FramesMatch
<1>7. InWindows'
  <2>1. \A i \in 1 .. n :
          /\ Origin <= ctl[i].start
          /\ ctl[i].start <= ctl[i].pos /\ ctl[i].pos <= ctl[i].limit /\ ctl[i].limit <= Len(buf)
          /\ \A w \in ctl[i].win : w = ctl[i].limit
          /\ i > 1 => ctl[i - 1].pos <= ctl[i].start /\ ctl[i].limit <= ctl[i - 1].limit
    BY <1>2 DEF IInv, InWindows
  <2>2. Origin' = Origin /\ buf' = buf
    BY DEF Origin
  <2>3. e.start = e.pos /\ e.pos \in Nat
    BY DEF MayOpen, Entry
  <2>4. ASSUME NEW i \in 1 .. (n + 1)
        PROVE  /\ Origin' <= ctl'[i].start
               /\ ctl'[i].start <= ctl'[i].pos /\ ctl'[i].pos <= ctl'[i].limit /\ ctl'[i].limit <= Len(buf')
               /\ \A w \in ctl'[i].win : w = ctl'[i].limit
               /\ i > 1 => ctl'[i - 1].pos <= ctl'[i].start /\ ctl'[i].limit <= ctl'[i - 1].limit
    <3>1. CASE i = n + 1
      <4>1. i > 1 => n >= 1 /\ n \in 1 .. n /\ ctl'[i - 1] = ctl[n] /\ i - 1 = n
        BY <1>2, <3>1
      <4> QED
        BY <1>2, <1>3, <2>2, <2>3, <3>1, <4>1 DEF MayOpen
    <3>2. CASE i \in 1 .. n
      <4>1. i > 1 => i - 1 \in 1 .. n
        BY <3>2
      <4> QED
        BY <1>2, <2>1, <2>2, <3>2, <4>1
    <3> QED
      BY <3>1, <3>2
  <2> QED
    BY <1>2, <2>4 DEF InWindows
<1>8. DigestsInBuffer'
  <2>1. DeferredOk(e)
    BY DEF MayOpen, DeferredOk
  <2>2. ASSUME NEW i \in 1 .. (n + 1) PROVE DeferredOk(ctl'[i])
    <3>1. i \in 1 .. n \/ i = n + 1
      OBVIOUS
    <3>2. \A j \in 1 .. n : DeferredOk(ctl[j])
      BY <1>2 DEF IInv, DigestsInBuffer, DeferredOk
    <3> QED
      BY <1>2, <2>1, <3>1, <3>2
  <2> QED
    BY <1>2, <2>2 DEF DigestsInBuffer, DeferredOk, SpansOk
<1>9. OutcomeInBuffer'
  BY DEF OutcomeInBuffer
<1> QED
  BY <1>5, <1>6, <1>7, <1>8, <1>9 DEF IInv

(***************************************************************************)
(* An activation closes and its value is returned to the one below.        *)
(***************************************************************************)
\* The activation below takes over, with a value that ends in its window.
LEMMA CloseOk ==
  ASSUME IInv, mode = "step", Len(ctl) >= 2, ctl' = Front(ctl), mode' = "ret", ret' = here.pos,
         IF here.k = "struct" THEN frames' = Front(frames) ELSE frames' = frames,
         UNCHANGED <<req, buf, outcome>>
  PROVE  IInv'
<1>1. ctl \in Seq(Entry) /\ frames \in Seq(Frame)
  BY DEF IInv, TypeOK
<1> PICK n \in Nat : n = Len(ctl) - 1 /\ n >= 1
  BY <1>1
<1>2. ctl # <<>> /\ here = ctl[n + 1] /\ DOMAIN ctl = 1 .. (n + 1)
  BY <1>1 DEF here, Last
<1>3. /\ ctl' \in Seq(Entry) /\ ctl' # <<>> /\ Len(ctl') = n /\ here' = ctl[n]
      /\ \A i \in 1 .. n : ctl'[i] = ctl[i]
      /\ DOMAIN ctl' = 1 .. n
  <2>1. /\ Front(ctl) \in Seq(Entry) /\ Len(Front(ctl)) = Len(ctl) - 1
        /\ \A i \in 1 .. (Len(ctl) - 1) : Front(ctl)[i] = ctl[i]
    BY <1>1, <1>2, StackTop, Zenon
  <2>2. /\ ctl' \in Seq(Entry) /\ Len(ctl') = n
        /\ \A i \in 1 .. n : ctl'[i] = ctl[i]
    BY <2>1
  <2> QED
    BY <2>2 DEF here, Last
<1>4. /\ \A i \in 1 .. (n + 1) :
           /\ ctl[i].depth >= 1
           /\ i > 1 => ctl[i].depth = ctl[i - 1].depth + (IF ctl[i].k = "struct" THEN 1 ELSE 0)
           /\ ctl[i].k = "struct" /\ i < n + 1 => ctl[i].i <= Len(Prog[ctl[i].id])
      /\ Len(frames) <= MAX_DEPTH
      /\ ctl[1].k = "struct" /\ ctl[1].depth = 1 /\ here.depth = Len(frames)
  BY <1>2 DEF IInv, FramesMatch
<1>5. ctl[n + 1].depth = ctl[n].depth + (IF here.k = "struct" THEN 1 ELSE 0) /\ ctl[n].depth \in Nat
  <2>1. n + 1 \in 1 .. (n + 1) /\ n + 1 > 1 /\ n + 1 - 1 = n /\ n \in 1 .. (n + 1)
    OBVIOUS
  <2>2. ctl[n] \in Entry
    BY <1>1, <1>2, <2>1
  <2> QED
    BY <1>2, <1>4, <2>1, <2>2 DEF Entry
<1>6. /\ frames' \in Seq(Frame) /\ Len(frames') = ctl[n].depth /\ Len(frames') <= MAX_DEPTH
      /\ \A i \in DOMAIN frames' : i \in DOMAIN frames /\ frames'[i] = frames[i]
  <2>1. Len(frames) \in Nat /\ Len(frames) = ctl[n].depth + (IF here.k = "struct" THEN 1 ELSE 0)
    BY <1>1, <1>2, <1>4, <1>5
  <2>2. CASE here.k = "struct"
    <3>1. frames # <<>>
      BY <1>2, HereFacts
    <3>2. /\ Front(frames) \in Seq(Frame) /\ Len(Front(frames)) = Len(frames) - 1
          /\ \A i \in 1 .. (Len(frames) - 1) : Front(frames)[i] = frames[i]
      BY <1>1, <3>1, StackTop, Zenon
    <3>3. PICK m \in Nat : m = Len(frames) - 1
      BY <2>1, <2>2, <1>5
    <3>4. frames' \in Seq(Frame) /\ Len(frames') = m /\ \A i \in 1 .. m : frames'[i] = frames[i]
      BY <2>2, <3>2, <3>3
    <3>5. DOMAIN frames' = 1 .. m /\ DOMAIN frames = 1 .. (m + 1)
      BY <1>1, <2>1, <3>3, <3>4
    <3> QED
      BY <1>4, <2>1, <2>2, <1>5, <3>3, <3>4, <3>5, ProgramAssumption
  <2>3. CASE here.k # "struct"
    BY <1>1, <1>4, <1>5, <2>1, <2>3
  <2> QED
    BY <2>2, <2>3
<1>7. TypeOK'
  <2>1. here.pos \in Nat
    BY <1>2, HereFacts
  <2>2. ASSUME NEW i \in 1 .. n PROVE EntryOk(ctl'[i])
    <3>1. i \in DOMAIN ctl /\ ctl'[i] = ctl[i]
      BY <1>2, <1>3
    <3> QED
      BY <3>1 DEF IInv, TypeOK
  <2> QED
    BY <1>3, <1>6, <2>1, <2>2 DEF IInv, TypeOK
<1>8. FramesMatch'
  <2>1. ctl'[1].k = "struct" /\ ctl'[1].depth = 1 /\ here'.depth = Len(frames')
    BY <1>3, <1>4, <1>6
  <2>2. ASSUME NEW i \in 1 .. n
        PROVE  /\ ctl'[i].depth >= 1
               /\ i > 1 => ctl'[i].depth = ctl'[i - 1].depth + (IF ctl'[i].k = "struct" THEN 1 ELSE 0)
               /\ ctl'[i].k = "struct" => ctl'[i].i <= Len(Prog[ctl'[i].id])
    <3>1. i \in 1 .. (n + 1) /\ i < n + 1 /\ (i > 1 => i - 1 \in 1 .. n)
      OBVIOUS
    <3> QED
      BY <1>3, <1>4, <3>1
  <2> QED
    BY <1>3, <1>6, <2>1, <2>2 DEF FramesMatch
<1>9. InWindows'
  <2>1. \A i \in 1 .. (n + 1) :
          /\ Origin <= ctl[i].start
          /\ ctl[i].start <= ctl[i].pos /\ ctl[i].pos <= ctl[i].limit /\ ctl[i].limit <= Len(buf)
          /\ \A w \in ctl[i].win : w = ctl[i].limit
          /\ i > 1 => ctl[i - 1].pos <= ctl[i].start /\ ctl[i].limit <= ctl[i - 1].limit
    BY <1>2 DEF IInv, InWindows
  <2>2. Origin' = Origin /\ buf' = buf
    BY DEF Origin
  <2>3. here'.pos <= here.pos /\ here.pos <= here'.limit
    <3>1. n + 1 \in 1 .. (n + 1) /\ n + 1 > 1 /\ n + 1 - 1 = n /\ n \in 1 .. (n + 1)
      OBVIOUS
    <3>2. ctl[n] \in Entry /\ ctl[n + 1] \in Entry
      BY <1>1, <1>2, <3>1
    <3>3. /\ ctl[n].pos \in Nat /\ ctl[n].limit \in Nat /\ ctl[n + 1].start \in Nat
          /\ ctl[n + 1].pos \in Nat /\ ctl[n + 1].limit \in Nat
      BY <3>2 DEF Entry
    <3>4. /\ ctl[n].pos <= ctl[n + 1].start /\ ctl[n + 1].start <= ctl[n + 1].pos
          /\ ctl[n + 1].pos <= ctl[n + 1].limit /\ ctl[n + 1].limit <= ctl[n].limit
      BY <2>1, <3>1
    <3> QED
      BY <1>2, <1>3, <3>3, <3>4
  <2>4. ASSUME NEW i \in 1 .. n
        PROVE  /\ Origin' <= ctl'[i].start
               /\ ctl'[i].start <= ctl'[i].pos /\ ctl'[i].pos <= ctl'[i].limit /\ ctl'[i].limit <= Len(buf')
               /\ \A w \in ctl'[i].win : w = ctl'[i].limit
               /\ i > 1 => ctl'[i - 1].pos <= ctl'[i].start /\ ctl'[i].limit <= ctl'[i - 1].limit
    <3>1. i \in 1 .. (n + 1) /\ (i > 1 => i - 1 \in 1 .. n)
      OBVIOUS
    <3> QED
      BY <1>3, <2>1, <2>2, <3>1
  <2> QED
    BY <1>3, <2>3, <2>4 DEF InWindows
<1>10. DigestsInBuffer'
  <2>1. ASSUME NEW i \in 1 .. n PROVE DeferredOk(ctl'[i])
    BY <1>2, <1>3 DEF IInv, DigestsInBuffer, DeferredOk
  <2>2. \A i \in DOMAIN frames' : SpansOk(frames'[i])
    BY <1>6 DEF IInv, DigestsInBuffer, SpansOk
  <2> QED
    BY <1>3, <2>1, <2>2 DEF DigestsInBuffer, DeferredOk, SpansOk
<1>11. OutcomeInBuffer'
  BY DEF OutcomeInBuffer
<1> QED
  BY <1>7, <1>8, <1>9, <1>10, <1>11 DEF IInv

(***************************************************************************)
(* Frames.                                                                 *)
(***************************************************************************)
\* Every span of every open frame is a part of the buffer.
LEMMA FramesSpans ==
  ASSUME IInv
  PROVE  frames \in Seq(Frame) /\ \A i \in DOMAIN frames : SpansOk(frames[i])
  BY DEF IInv, TypeOK, DigestsInBuffer, SpansOk

\* A frame starts with registers and spans at zero.
LEMMA NewFrameOk ==
  ASSUME IInv
  PROVE  NewFrame \in Frame /\ SpansOk(NewFrame)
<1>1. Len(buf) \in Nat
  BY DEF IInv, TypeOK
<1> QED
  BY <1>1, ZeroIsI64 DEF NewFrame, Frame, SpansOk

\* set_span with a part of the buffer keeps a frame's spans in the buffer.
LEMMA SetSpanOk ==
  ASSUME NEW f \in Frame, SpansOk(f), NEW span, NEW s \in Nat, NEW e \in Nat,
         s <= e, e <= Len(buf)
  PROVE  SetSpan(f, span, s, e) \in Frame /\ SpansOk(SetSpan(f, span, s, e))
<1> DEFINE sp == [x \in Spans |-> IF x \in span THEN <<s, e>> ELSE f.spans[x]]
<1>1. f.regs \in [Regs -> I64] /\ f.spans \in [Spans -> Nat \X Nat]
  BY DEF Frame
<1>2. sp \in [Spans -> Nat \X Nat]
  BY <1>1
<1>3. \A x \in Spans : sp[x][1] <= sp[x][2] /\ sp[x][2] <= Len(buf)
  BY DEF SpansOk
<1> HIDE DEF sp
<1>4. SetSpan(f, span, s, e) = [f EXCEPT !.spans = sp]
  BY DEF SetSpan, sp
<1> QED
  BY <1>1, <1>2, <1>3, <1>4 DEF Frame, SpansOk

\* The top frame is replaced by a good one: all frames are still good.
LEMMA TopFrameOk ==
  ASSUME IInv, ctl # <<>>, NEW f \in Frame, SpansOk(f), frames' = SetTop(frames, f)
  PROVE  /\ frames' \in Seq(Frame) /\ Len(frames') = Len(frames)
         /\ \A i \in DOMAIN frames' : SpansOk(frames'[i])
<1>1. frames \in Seq(Frame) /\ frames # <<>>
  BY HereFacts, FramesSpans
<1> PICK n \in Nat : n = Len(frames) /\ n >= 1
  BY <1>1
<1>2. /\ SetTop(frames, f) \in Seq(Frame) /\ Len(SetTop(frames, f)) = Len(frames)
      /\ \A i \in 1 .. (Len(frames) - 1) : SetTop(frames, f)[i] = frames[i]
      /\ SetTop(frames, f)[Len(frames)] = f
  <2> SUFFICES ASSUME NEW F, NEW s \in Seq(F), s # <<>>, NEW x \in F
               PROVE  /\ SetTop(s, x) \in Seq(F) /\ Len(SetTop(s, x)) = Len(s)
                      /\ \A i \in 1 .. (Len(s) - 1) : SetTop(s, x)[i] = s[i]
                      /\ SetTop(s, x)[Len(s)] = x
    BY <1>1
  <2> QED
    BY StackSet
<1>3. /\ frames' \in Seq(Frame) /\ Len(frames') = n
      /\ \A i \in 1 .. (n - 1) : frames'[i] = frames[i]
      /\ frames'[n] = f
  BY <1>2
<1>4. \A i \in 1 .. n : SpansOk(frames[i])
  BY <1>1, FramesSpans
<1>5. ASSUME NEW i \in 1 .. n PROVE SpansOk(frames'[i])
  <2>1. i \in 1 .. (n - 1) \/ i = n
    OBVIOUS
  <2> QED
    BY <1>3, <1>4, <2>1
<1> QED
  BY <1>3, <1>5

\* The top frame is one of the frames.
LEMMA TopFrame ==
  ASSUME IInv, ctl # <<>>
  PROVE  Last(frames) \in Frame /\ SpansOk(Last(frames))
<1>1. frames \in Seq(Frame) /\ frames # <<>> /\ Last(frames) \in Frame
  BY HereFacts, FramesSpans
<1>2. Last(frames) = frames[Len(frames)] /\ Len(frames) \in DOMAIN frames
  BY <1>1, StackTop
<1> QED
  BY <1>1, <1>2, FramesSpans

(***************************************************************************)
(* The activation on top passes a field that ends at end.                  *)
(***************************************************************************)
\* An entry moved on differs from the old one in its field and its position.
LEMMA EntryMoved ==
  ASSUME NEW h \in Entry, NEW end \in Nat
  PROVE  LET e == [h EXCEPT !.i = @ + 1, !.pos = end]
         IN  /\ e \in Entry
             /\ e.k = h.k /\ e.id = h.id /\ e.i = h.i + 1 /\ e.start = h.start
             /\ e.limit = h.limit /\ e.win = h.win /\ e.depth = h.depth
             /\ e.pos = end /\ e.deferred = h.deferred
<1> DEFINE g == [h EXCEPT !.i = h.i + 1]
           e == [g EXCEPT !.pos = end]
<1>1. [h EXCEPT !.i = h.i + 1, !.pos = end] = e
  OBVIOUS
<1>2. g \in Entry
  BY DEF Entry
<1>3. /\ g.k = h.k /\ g.id = h.id /\ g.i = h.i + 1 /\ g.start = h.start
      /\ g.limit = h.limit /\ g.win = h.win /\ g.depth = h.depth
      /\ g.deferred = h.deferred
  BY DEF Entry
<1> HIDE DEF g
<1>4. /\ e \in Entry
      /\ e.k = g.k /\ e.id = g.id /\ e.i = g.i /\ e.start = g.start
      /\ e.limit = g.limit /\ e.win = g.win /\ e.depth = g.depth
      /\ e.pos = end /\ e.deferred = g.deferred
  BY <1>2 DEF Entry
<1> HIDE DEF e
<1> QED
  BY <1>1, <1>3, <1>4

\* Passed keeps the invariant when end lies in the window.
LEMMA PassedOk ==
  ASSUME IInv, ctl # <<>>, TopHasField, NEW end \in Nat, here.pos <= end, end <= here.limit,
         ctl' = Passed(end), mode' = "step",
         frames' \in Seq(Frame), Len(frames') = Len(frames),
         \A i \in DOMAIN frames' : SpansOk(frames'[i]),
         UNCHANGED <<req, buf, ret, outcome>>
  PROVE  IInv'
<1> DEFINE e == [here EXCEPT !.i = @ + 1, !.pos = end]
<1>1. here \in Entry
  BY HereFacts
<1>2. /\ e \in Entry
      /\ e.k = here.k /\ e.id = here.id /\ e.i = here.i + 1 /\ e.start = here.start
      /\ e.limit = here.limit /\ e.win = here.win /\ e.depth = here.depth
      /\ e.pos = end /\ e.deferred = here.deferred
  BY <1>1, EntryMoved
<1>3. DeferredOk(here)
  <2>1. Len(ctl) \in DOMAIN ctl /\ here = ctl[Len(ctl)]
    BY HereFacts DEF IInv, TypeOK
  <2> QED
    BY <2>1 DEF IInv, DigestsInBuffer, DeferredOk
<1>4. DeferredOk(e)
  <2> SUFFICES ASSUME NEW j \in DOMAIN e.deferred
               PROVE  /\ e.start <= e.deferred[j].pos
                      /\ e.deferred[j].pos + ChecksumWidth <= e.pos
                      /\ Code[e.deferred[j].at].op = "Digest"
    BY DEF DeferredOk
  <2>1. here.deferred[j] \in Deferred /\ j \in DOMAIN here.deferred
    BY <1>1, <1>2 DEF Entry
  <2>2. here.deferred[j].pos \in Nat /\ here.pos \in Nat
    BY <1>1, <2>1 DEF Entry, Deferred
  <2> QED
    BY <1>2, <1>3, <2>1, <2>2 DEF DeferredOk, ChecksumWidth
<1>5. ctl' = SetTop(ctl, e)
  BY DEF Passed
<1> HIDE DEF e
<1>6. MovedOn(e)
  BY <1>2, <1>4 DEF MovedOn
<1> QED
  BY <1>5, <1>6, AdvanceOk

\* The same when the frames do not change.
LEMMA PassedSameFrames ==
  ASSUME IInv, ctl # <<>>, TopHasField, NEW end \in Nat, here.pos <= end, end <= here.limit,
         ctl' = Passed(end), mode' = "step", UNCHANGED <<req, buf, ret, outcome, frames>>
  PROVE  IInv'
  BY PassedOk, FramesSpans

(***************************************************************************)
(* run_struct.                                                             *)
(***************************************************************************)
\* Enter keeps the invariant when the new structure's window lies in the one
\* of the activation that waits for it.
LEMMA EnterOk ==
  ASSUME IInv, NEW p \in ProgId, NEW pos \in Nat, NEW limit \in Nat, NEW win \in SUBSET Nat,
         Origin <= pos, pos <= limit, limit <= Len(buf), \A w \in win : w = limit,
         ctl # <<>> => mode = "value" /\ here.pos <= pos /\ limit <= here.limit,
         Enter(p, pos, limit, win)
  PROVE  IInv'
<1>1. Len(buf) \in Nat /\ frames \in Seq(Frame) /\ Len(frames) \in Nat /\ ctl \in Seq(Entry)
  BY DEF IInv, TypeOK
<1>2. CASE Fail("Depth", pos)
  BY <1>1, <1>2, FailOk DEF Kinds
<1>3. CASE /\ Len(frames) < MAX_DEPTH
           /\ mode' = "step"
           /\ ctl' = Append(ctl, StructEntry(p, pos, limit, win))
           /\ frames' = Append(frames, NewFrame)
           /\ UNCHANGED <<req, buf, cur, ret, val, outcome>>
  <2> DEFINE e == StructEntry(p, pos, limit, win)
  <2>1. /\ e.k = "struct" /\ e.id = p /\ e.i = 1 /\ e.start = pos /\ e.pos = pos /\ e.limit = limit
        /\ e.win = win /\ e.depth = Len(frames) + 1 /\ e.deferred = <<>>
    BY DEF StructEntry
  <2>2. e \in Entry
    BY <1>1 DEF StructEntry, Entry
  <2>3. EntryOk(e)
    <3>1. Len(Prog[p]) \in Nat
      BY ProgramAssumption
    <3> QED
      BY <2>1, <3>1 DEF EntryOk
  <2>4. ctl = <<>> => e.depth = 1
    <3>1. ctl = <<>> => frames = <<>>
      BY DEF IInv, FramesMatch
    <3> QED
      BY <2>1, <3>1
  <2>5. ctl # <<>> => here.depth = Len(frames)
    BY HereFacts
  <2>6. /\ frames' \in Seq(Frame) /\ Len(frames') = Len(frames) + 1
        /\ \A i \in DOMAIN frames' : SpansOk(frames'[i])
    <3>1. PICK n \in Nat : n = Len(frames)
      BY <1>1
    <3>2. NewFrame \in Frame /\ SpansOk(NewFrame)
      BY NewFrameOk
    <3>3. /\ frames' \in Seq(Frame) /\ Len(frames') = n + 1 /\ frames'[n + 1] = NewFrame
          /\ \A i \in 1 .. n : frames'[i] = frames[i]
      BY <1>1, <1>3, <3>1, <3>2
    <3>4. \A i \in 1 .. n : SpansOk(frames[i])
      BY <3>1, FramesSpans
    <3>5. ASSUME NEW i \in 1 .. (n + 1) PROVE SpansOk(frames'[i])
      <4>1. i \in 1 .. n \/ i = n + 1
        OBVIOUS
      <4> QED
        BY <3>2, <3>3, <3>4, <4>1
    <3> QED
      BY <3>1, <3>3, <3>5
  <2> HIDE DEF e
  <2>7. MayOpen(e)
    <3>1. e.start = e.pos /\ e.deferred = <<>> /\ e.depth >= 1
      BY <1>1, <2>1
    <3>2. Origin <= e.pos /\ e.pos <= e.limit /\ e.limit <= Len(buf) /\ \A w \in e.win : w = e.limit
      BY <2>1
    <3>3. ctl = <<>> => e.k = "struct" /\ e.depth = 1
      BY <2>1, <2>4
    <3>4. ctl # <<>> =>
            /\ mode = "value"
            /\ here.pos <= e.pos /\ e.limit <= here.limit
            /\ e.depth = here.depth + (IF e.k = "struct" THEN 1 ELSE 0)
      BY <2>1, <2>5
    <3> QED
      BY <2>2, <2>3, <3>1, <3>2, <3>3, <3>4 DEF MayOpen
  <2>8. ctl' = Append(ctl, e)
    BY <1>3 DEF e
  <2>9. e.depth <= MAX_DEPTH
    BY <1>1, <1>3, <2>1, ProgramAssumption
  <2> QED
    BY <1>3, <2>1, <2>6, <2>7, <2>8, <2>9, OpenOk
<1> QED
  BY <1>2, <1>3 DEF Enter

(***************************************************************************)
(* The opcodes at hand.                                                    *)
(***************************************************************************)
\* The next field of the structure on top is an opcode of the program.
LEMMA FieldOpOk ==
  ASSUME IInv, InStruct, MoreOps
  PROVE  ctl # <<>> /\ TopHasField /\ NextAddr \in Addr /\ OpOk(FieldOp)
<1>1. ctl # <<>> /\ EntryOk(here) /\ here.k = "struct"
  BY HereFacts DEF InStruct
<1>2. here.id \in ProgId /\ here.i \in 1 .. (Len(Prog[here.id]) + 1)
  BY <1>1 DEF EntryOk
<1>3. Prog[here.id] \in Seq(Addr)
  BY <1>2, ProgramAssumption
<1>4. NextAddr \in Addr
  BY <1>2, <1>3 DEF NextAddr, MoreOps
<1> QED
  BY <1>1, <1>4, ProgramAssumption DEF FieldOp, TopHasField

\* op_value runs an opcode of the program for an activation that waits.
LEMMA ValueOpOk ==
  ASSUME IInv, mode \in {"value", "ret"}
  PROVE  /\ ctl # <<>> /\ TopHasField
         /\ mode = "value" => cur \in Addr /\ OpOk(Op)
<1>1. ctl # <<>>
  BY DEF IInv, FramesMatch
<1>2. TopHasField
  <2>1. Len(ctl) \in DOMAIN ctl /\ here = ctl[Len(ctl)]
    BY <1>1, HereFacts DEF IInv, TypeOK
  <2> QED
    BY <2>1 DEF IInv, FramesMatch, TopHasField, InStruct, MoreOps
<1>3. mode = "value" => cur \in Addr
  BY DEF IInv, TypeOK
<1> QED
  BY <1>1, <1>2, <1>3, ProgramAssumption DEF Op

\* A failing item is reported inside its run.
LEMMA FailItemOk ==
  ASSUME IInv, ctl # <<>>, NEW op, FixedOk(op), Fits(op.width), FailItem(op.items)
  PROVE  IInv'
<1>1. PICK i \in BadItems(op.items) : Fail(ItemFault(op.items[i]), here.pos + op.items[i].off)
  BY DEF FailItem
<1>2. i \in DOMAIN op.items /\ ItemFault(op.items[i]) # "Ok"
  BY DEF BadItems
<1>3. ItemFault(op.items[i]) \in Kinds
  BY <1>2 DEF ItemFault, Kinds
<1>4. /\ op.items[i].off \in Nat /\ op.width \in Nat /\ ItemWidth(op.items[i]) \in Nat
      /\ op.items[i].off + ItemWidth(op.items[i]) <= op.width
  BY <1>2 DEF FixedOk
<1>5. here.pos + op.items[i].off \in Nat /\ Origin <= here.pos + op.items[i].off
      /\ here.pos + op.items[i].off <= Len(buf)
  BY <1>4, HereFacts DEF Fits
<1> QED
  BY <1>1, <1>3, <1>5, FailOk

\* A good run of items leaves i64s in the registers and parts of the buffer
\* in the spans.
LEMMA ItemsFrameOk ==
  ASSUME IInv, ctl # <<>>, NEW op, FixedOk(op), Fits(op.width), BadItems(op.items) = {},
         NEW f \in Frame, SpansOk(f)
  PROVE  ItemsFrame(f, op.items) \in Frame /\ SpansOk(ItemsFrame(f, op.items))
<1> DEFINE g == ItemsFrame(f, op.items)
<1>1. f.regs \in [Regs -> I64] /\ f.spans \in [Spans -> Nat \X Nat]
  BY DEF Frame
<1>2. ASSUME NEW r \in Regs, Writers(op.items, r) # {}
      PROVE  ItemInt(op.items[CHOOSE i \in Writers(op.items, r) : TRUE]) \in I64
  <2>1. PICK i : i = CHOOSE x \in Writers(op.items, r) : TRUE
    OBVIOUS
  <2>2. i \in Writers(op.items, r)
    BY <1>2, <2>1
  <2>3. i \in DOMAIN op.items /\ r \in op.items[i].reg
    BY <2>2 DEF Writers
  <2>4. ItemFault(op.items[i]) = "Ok"
    BY <2>3 DEF BadItems
  <2>5. ItemInt(op.items[i]) \in I64
    BY <2>3, <2>4 DEF ItemFault
  <2> QED
    BY <2>1, <2>5
<1>3. ASSUME NEW s \in Spans, {i \in DOMAIN op.items : s \in op.items[i].span} # {}
      PROVE  LET it == op.items[CHOOSE i \in {i \in DOMAIN op.items : s \in op.items[i].span} : TRUE]
             IN  /\ <<here.pos + it.off, here.pos + it.off + ItemWidth(it)>> \in Nat \X Nat
                 /\ here.pos + it.off <= here.pos + it.off + ItemWidth(it)
                 /\ here.pos + it.off + ItemWidth(it) <= Len(buf)
  <2> DEFINE at == {i \in DOMAIN op.items : s \in op.items[i].span}
  <2>1. PICK i : i = CHOOSE x \in at : TRUE
    OBVIOUS
  <2>2. i \in at
    BY <1>3, <2>1
  <2>3. /\ op.items[i].off \in Nat /\ op.width \in Nat /\ ItemWidth(op.items[i]) \in Nat
        /\ op.items[i].off + ItemWidth(op.items[i]) <= op.width
    BY <2>2 DEF FixedOk
  <2>4. /\ <<here.pos + op.items[i].off, here.pos + op.items[i].off + ItemWidth(op.items[i])>> \in Nat \X Nat
        /\ here.pos + op.items[i].off <= here.pos + op.items[i].off + ItemWidth(op.items[i])
        /\ here.pos + op.items[i].off + ItemWidth(op.items[i]) <= Len(buf)
    <3>1. PICK o \in Nat, w \in Nat : o = op.items[i].off /\ w = ItemWidth(op.items[i]) /\ o + w <= op.width
      BY <2>3
    <3>2. here.pos \in Nat /\ here.pos + op.width <= Len(buf) /\ Len(buf) \in Nat /\ op.width \in Nat
      BY <2>3, FitsIn
    <3>3. here.pos + o \in Nat /\ here.pos + o + w \in Nat /\ here.pos + o + w <= Len(buf)
      BY <3>1, <3>2
    <3> QED
      BY <3>1, <3>2, <3>3
  <2> QED
    BY <2>1, <2>4
<1>4. \A r \in Regs : g.regs[r] \in I64
  BY <1>1, <1>2 DEF ItemsFrame
<1>5. \A s \in Spans : g.spans[s] \in Nat \X Nat /\ g.spans[s][1] <= g.spans[s][2] /\ g.spans[s][2] <= Len(buf)
  <2> SUFFICES ASSUME NEW s \in Spans
               PROVE  g.spans[s] \in Nat \X Nat /\ g.spans[s][1] <= g.spans[s][2] /\ g.spans[s][2] <= Len(buf)
    OBVIOUS
  <2> DEFINE at == {i \in DOMAIN op.items : s \in op.items[i].span}
             it == op.items[CHOOSE i \in at : TRUE]
  <2>1. g.spans[s] = IF at = {} THEN f.spans[s]
                     ELSE <<here.pos + it.off, here.pos + it.off + ItemWidth(it)>>
    BY DEF ItemsFrame
  <2>2. at # {} =>
          /\ <<here.pos + it.off, here.pos + it.off + ItemWidth(it)>> \in Nat \X Nat
          /\ here.pos + it.off <= here.pos + it.off + ItemWidth(it)
          /\ here.pos + it.off + ItemWidth(it) <= Len(buf)
    BY <1>3
  <2> HIDE DEF at, it
  <2> QED
    BY <1>1, <2>1, <2>2 DEF SpansOk
<1>6. /\ g = [regs |-> g.regs, spans |-> g.spans]
      /\ g.regs = [r \in Regs |-> g.regs[r]] /\ g.spans = [s \in Spans |-> g.spans[s]]
  BY DEF ItemsFrame
<1> HIDE DEF g
<1>7. g.regs \in [Regs -> I64] /\ g.spans \in [Spans -> Nat \X Nat]
  BY <1>4, <1>5, <1>6
<1>8. g \in Frame
  BY <1>6, <1>7 DEF Frame
<1>9. SpansOk(g)
  BY <1>5 DEF SpansOk
<1> QED
  BY <1>8, <1>9 DEF g

(***************************************************************************)
(* The fields of a structure.                                              *)
(***************************************************************************)
\* What AtField gives.
LEMMA AtFieldFacts ==
  ASSUME IInv, NEW o, AtField(o)
  PROVE  /\ mode = "step" /\ InStruct /\ ctl # <<>> /\ TopHasField
         /\ NextAddr \in Addr /\ OpOk(FieldOp) /\ FieldOp.op = o
  BY FieldOpOk DEF AtField

\* A run of fixed-width items is read whole, or fails.
LEMMA DoFixedOk == ASSUME IInv, DoFixed PROVE IInv'
<1>1. /\ mode = "step" /\ ctl # <<>> /\ TopHasField /\ FixedOk(FieldOp)
  BY AtFieldFacts DEF DoFixed, OpOk
<1>2. FieldOp.width \in Nat
  BY <1>1 DEF FixedOk
<1>3. CASE ~Fits(FieldOp.width) /\ Short(FieldOp.width)
  BY <1>1, <1>2, <1>3, ShortOk
<1>4. CASE Fits(FieldOp.width) /\ FailItem(FieldOp.items)
  BY <1>1, <1>4, FailItemOk
<1>5. CASE /\ Fits(FieldOp.width) /\ BadItems(FieldOp.items) = {}
           /\ frames' = SetTop(frames, ItemsFrame(Last(frames), FieldOp.items))
           /\ ctl' = Passed(here.pos + FieldOp.width)
           /\ UNCHANGED <<req, buf, mode, cur, ret, val, outcome>>
  <2> DEFINE f == ItemsFrame(Last(frames), FieldOp.items)
  <2>1. f \in Frame /\ SpansOk(f)
    BY <1>1, <1>5, ItemsFrameOk, TopFrame
  <2>2. frames' = SetTop(frames, f)
    BY <1>5
  <2> HIDE DEF f
  <2>3. /\ frames' \in Seq(Frame) /\ Len(frames') = Len(frames)
        /\ \A i \in DOMAIN frames' : SpansOk(frames'[i])
    BY <1>1, <2>1, <2>2, TopFrameOk
  <2>4. /\ here.pos + FieldOp.width \in Nat
        /\ here.pos <= here.pos + FieldOp.width /\ here.pos + FieldOp.width <= here.limit
    BY <1>1, <1>2, <1>5, FitsIn
  <2> QED
    BY <1>1, <1>5, <2>3, <2>4, PassedOk
<1> QED
  BY <1>3, <1>4, <1>5 DEF DoFixed

\* A run of bit fields that are read leaves i64s in the registers.
LEMMA DoBitRunOk == ASSUME IInv, DoBitRun PROVE IInv'
<1> DEFINE op == FieldOp
           regs == [r \in Regs |->
                      IF Writers(op.items, r) = {} THEN Last(frames).regs[r]
                      ELSE BitVal(op, op.items[CHOOSE i \in Writers(op.items, r) : TRUE])]
<1>1. /\ mode = "step" /\ ctl # <<>> /\ TopHasField /\ op.nbytes \in Nat
  BY AtFieldFacts DEF DoBitRun, OpOk
<1>2. CASE ~Fits(op.nbytes) /\ Short(op.nbytes)
  BY <1>1, <1>2, ShortOk
<1>3. CASE Fail("Overflow", here.pos)
  BY <1>1, <1>3, FailHere DEF Kinds
<1>4. CASE /\ Fits(op.nbytes) /\ BadBits(op) = {}
           /\ frames' = SetTop(frames, [Last(frames) EXCEPT !.regs = regs])
           /\ ctl' = Passed(here.pos + op.nbytes)
           /\ UNCHANGED <<req, buf, mode, cur, ret, val, outcome>>
  <2>1. Last(frames) \in Frame /\ SpansOk(Last(frames))
    BY <1>1, TopFrame
  <2>2. Last(frames).regs \in [Regs -> I64] /\ Last(frames).spans \in [Spans -> Nat \X Nat]
    BY <2>1 DEF Frame
  <2>3. ASSUME NEW r \in Regs, Writers(op.items, r) # {}
        PROVE  BitVal(op, op.items[CHOOSE i \in Writers(op.items, r) : TRUE]) \in I64
    <3>1. PICK i : i = CHOOSE x \in Writers(op.items, r) : TRUE
      OBVIOUS
    <3>2. i \in Writers(op.items, r)
      BY <2>3, <3>1
    <3>3. i \in DOMAIN op.items /\ op.items[i].reg # {}
      BY <3>2 DEF Writers
    <3>4. BitVal(op, op.items[i]) \in I64
      BY <1>4, <3>3 DEF BadBits
    <3> QED
      BY <3>1, <3>4
  <2>4. regs \in [Regs -> I64]
    BY <2>2, <2>3
  <2> HIDE DEF regs
  <2> DEFINE f == [Last(frames) EXCEPT !.regs = regs]
  <2>5. f \in Frame /\ f.spans = Last(frames).spans
    BY <2>1, <2>4 DEF Frame
  <2>6. SpansOk(f)
    BY <2>1, <2>5 DEF SpansOk
  <2>7. frames' = SetTop(frames, f)
    BY <1>4
  <2> HIDE DEF f
  <2>8. /\ frames' \in Seq(Frame) /\ Len(frames') = Len(frames)
        /\ \A i \in DOMAIN frames' : SpansOk(frames'[i])
    BY <1>1, <2>5, <2>6, <2>7, TopFrameOk
  <2>9. /\ here.pos + op.nbytes \in Nat
        /\ here.pos <= here.pos + op.nbytes /\ here.pos + op.nbytes <= here.limit
    BY <1>1, <1>4, FitsIn
  <2> QED
    BY <1>1, <1>4, <2>8, <2>9, PassedOk
<1> QED
  BY <1>2, <1>3, <1>4 DEF DoBitRun

\* A digest is remembered with its place, which the structure has read.
LEMMA DoDigestOk == ASSUME IInv, DoDigest PROVE IInv'
<1> DEFINE end == here.pos + ChecksumWidth
           d == [at |-> NextAddr, pos |-> here.pos]
<1>1. /\ mode = "step" /\ ctl # <<>> /\ TopHasField /\ NextAddr \in Addr
      /\ Code[NextAddr].op = "Digest" /\ ChecksumWidth \in Nat
  BY AtFieldFacts DEF DoDigest, ChecksumWidth, FieldOp
<1>2. CASE ~Fits(ChecksumWidth) /\ Short(ChecksumWidth)
  BY <1>1, <1>2, ShortOk
<1>3. CASE /\ Fits(ChecksumWidth)
           /\ frames' = SetTop(frames, SetSpan(Last(frames), FieldOp.span, here.pos, end))
           /\ ctl' = SetTop(ctl, [here EXCEPT !.i = @ + 1, !.pos = end, !.deferred = Append(@, d)])
           /\ UNCHANGED <<req, buf, mode, cur, ret, val, outcome>>
  <2>1. /\ here.pos \in Nat /\ end \in Nat /\ here.pos <= end /\ end <= here.limit /\ end <= Len(buf)
    BY <1>1, <1>3, FitsIn
  <2>2. here \in Entry /\ here.start <= here.pos
    BY <1>1, HereFacts
  <2> DEFINE f == SetSpan(Last(frames), FieldOp.span, here.pos, end)
             e == [here EXCEPT !.i = @ + 1, !.pos = end]
             e2 == [e EXCEPT !.deferred = Append(here.deferred, d)]
  <2>3. f \in Frame /\ SpansOk(f)
    BY <1>1, <2>1, TopFrame, SetSpanOk
  <2>4. frames' = SetTop(frames, f)
    BY <1>3
  <2>5. /\ e \in Entry
        /\ e.k = here.k /\ e.id = here.id /\ e.i = here.i + 1 /\ e.start = here.start
        /\ e.limit = here.limit /\ e.win = here.win /\ e.depth = here.depth
        /\ e.pos = end /\ e.deferred = here.deferred
    BY <2>1, <2>2, EntryMoved
  <2>6. ctl' = SetTop(ctl, e2)
    BY <1>3
  <2>7. here.deferred \in Seq(Deferred) /\ d \in Deferred
    BY <1>1, <2>1, <2>2 DEF Entry, Deferred
  <2>8. Append(here.deferred, d) \in Seq(Deferred)
    BY <2>7
  <2>9. DeferredOk(here)
    <3>1. Len(ctl) \in DOMAIN ctl /\ here = ctl[Len(ctl)]
      BY <1>1, HereFacts DEF IInv, TypeOK
    <3> QED
      BY <3>1 DEF IInv, DigestsInBuffer, DeferredOk
  <2> HIDE DEF f, e
  <2>10. /\ e2 \in Entry
         /\ e2.k = e.k /\ e2.id = e.id /\ e2.i = e.i /\ e2.start = e.start
         /\ e2.limit = e.limit /\ e2.win = e.win /\ e2.depth = e.depth
         /\ e2.pos = e.pos /\ e2.deferred = Append(here.deferred, d)
    BY <2>5, <2>8 DEF Entry
  <2> HIDE DEF e2
  <2>11. DeferredOk(e2)
    <3> PICK n \in Nat : n = Len(here.deferred)
      BY <2>7
    <3>1. /\ DOMAIN e2.deferred = 1 .. (n + 1) /\ e2.deferred[n + 1] = d
          /\ \A j \in 1 .. n : e2.deferred[j] = here.deferred[j]
      BY <2>7, <2>10
    <3>2. \A j \in 1 .. n :
            /\ here.start <= here.deferred[j].pos
            /\ here.deferred[j].pos + ChecksumWidth <= here.pos
            /\ Code[here.deferred[j].at].op = "Digest"
            /\ here.deferred[j].pos \in Nat
      <4>1. \A j \in 1 .. n : j \in DOMAIN here.deferred /\ here.deferred[j] \in Deferred
        BY <2>7
      <4>2. \A x \in Deferred : x.pos \in Nat
        BY DEF Deferred
      <4> QED
        BY <2>9, <4>1, <4>2 DEF DeferredOk
    <3>3. ASSUME NEW j \in 1 .. (n + 1)
          PROVE  /\ e2.start <= e2.deferred[j].pos
                 /\ e2.deferred[j].pos + ChecksumWidth <= e2.pos
                 /\ Code[e2.deferred[j].at].op = "Digest"
      <4>1. CASE j = n + 1
        <5>1. e2.deferred[j] = d /\ d.pos = here.pos /\ d.at = NextAddr
          BY <3>1, <4>1
        <5>2. e2.start = here.start /\ e2.pos = end
          BY <2>5, <2>10
        <5> HIDE DEF d
        <5> QED
          BY <1>1, <2>1, <2>2, <5>1, <5>2
      <4>2. CASE j \in 1 .. n
        <5>1. e2.deferred[j] = here.deferred[j]
          BY <3>1, <4>2
        <5>2. e2.start = here.start /\ e2.pos = end
          BY <2>5, <2>10
        <5>3. /\ here.start <= here.deferred[j].pos
              /\ here.deferred[j].pos + ChecksumWidth <= here.pos
              /\ Code[here.deferred[j].at].op = "Digest"
              /\ here.deferred[j].pos \in Nat
          BY <3>2, <4>2
        <5> QED
          BY <1>1, <2>1, <5>1, <5>2, <5>3
      <4> QED
        BY <4>1, <4>2
    <3> QED
      BY <3>1, <3>3 DEF DeferredOk
  <2>12. MovedOn(e2)
    BY <2>1, <2>5, <2>10, <2>11 DEF MovedOn
  <2>13. /\ frames' \in Seq(Frame) /\ Len(frames') = Len(frames)
         /\ \A i \in DOMAIN frames' : SpansOk(frames'[i])
    BY <1>1, <2>3, <2>4, TopFrameOk
  <2> QED
    BY <1>1, <1>3, <2>6, <2>12, <2>13, AdvanceOk
<1> QED
  BY <1>2, <1>3 DEF DoDigest

\* A conditional field fails, is skipped in place, or is read as a value.
LEMMA DoCondOk == ASSUME IInv, DoCond PROVE IInv'
<1> DEFINE p == EvalHere(FieldOp.pred)
<1>1. /\ mode = "step" /\ ctl # <<>> /\ TopHasField /\ FieldOp.then \in Addr
  BY AtFieldFacts DEF DoCond, OpOk
<1>2. p.kind \in Kinds \cup {"Ok"}
  BY EvalHereType
<1> HIDE DEF p
<1>3. CASE p.kind # "Ok" /\ Fail(p.kind, here.pos)
  BY <1>1, <1>2, <1>3, FailHere
<1>4. CASE Descend(FieldOp.then)
  BY <1>1, <1>4, DescendOk
<1>5. CASE /\ ctl' = Passed(here.pos)
           /\ UNCHANGED <<req, buf, mode, frames, cur, ret, val, vals, outcome>>
  <2>1. here.pos \in Nat /\ here.pos <= here.pos /\ here.pos <= here.limit
    BY <1>1, HereFacts
  <2> QED
    BY <1>1, <1>5, <2>1, PassedSameFrames
<1> QED
  BY <1>3, <1>4, <1>5 DEF DoCond, p

\* The other opcodes go to op_value.
LEMMA DoOtherOk == ASSUME IInv, DoOther PROVE IInv'
<1>1. mode = "step" /\ ctl # <<>> /\ TopHasField /\ NextAddr \in Addr /\ Descend(NextAddr)
  BY AtFieldFacts DEF DoOther
<1> QED
  BY <1>1, DescendOk

\* A value is stored and the structure moves to where it ended.
LEMMA FieldDoneOk == ASSUME IInv, FieldDone PROVE IInv'
<1>1. mode = "ret" /\ ctl # <<>> /\ TopHasField
  BY ValueOpOk DEF FieldDone
<1>2. ret \in Nat /\ here.pos \in Nat /\ here.pos <= ret /\ ret <= here.limit /\ ret <= Len(buf)
  <2>1. ret \in Nat /\ here.pos <= ret /\ ret <= here.limit
    BY <1>1 DEF IInv, TypeOK, InWindows
  <2> QED
    BY <1>1, <2>1, HereFacts
<1> DEFINE f == SetSpan(Last(frames), FieldOp.span, here.pos, ret)
<1>3. f \in Frame /\ SpansOk(f)
  BY <1>1, <1>2, TopFrame, SetSpanOk
<1>4. frames' = SetTop(frames, f)
  BY DEF FieldDone
<1> HIDE DEF f
<1>5. /\ frames' \in Seq(Frame) /\ Len(frames') = Len(frames)
      /\ \A i \in DOMAIN frames' : SpansOk(frames'[i])
  BY <1>1, <1>3, <1>4, TopFrameOk
<1>6. ctl' = Passed(ret) /\ mode' = "step" /\ UNCHANGED <<req, buf, ret, outcome>>
  BY DEF FieldDone
<1> QED
  BY <1>1, <1>2, <1>5, <1>6, PassedOk

(***************************************************************************)
(* Values.                                                                 *)
(***************************************************************************)
\* What AtValue gives.
LEMMA AtValueFacts ==
  ASSUME IInv, NEW o, AtValue(o)
  PROVE  mode = "value" /\ ctl # <<>> /\ TopHasField /\ cur \in Addr /\ OpOk(Op) /\ Op.op = o
  BY ValueOpOk DEF AtValue

\* n bytes that fit are returned as a value.
LEMMA TakeOk ==
  ASSUME IInv, mode = "value", ctl # <<>>, NEW n \in Nat, Fits(n), NEW v, Return(here.pos + n, v)
  PROVE  IInv'
  BY FitsIn, ReturnOk

\* A single item: read, or reported like a run of one.
LEMMA ValFixedOk == ASSUME IInv, ValFixed PROVE IInv'
<1>1. mode = "value" /\ ctl # <<>> /\ FixedOk(Op)
  BY AtValueFacts DEF ValFixed, OpOk
<1>2. Op.width \in Nat
  BY <1>1 DEF FixedOk
<1>3. CASE ~Fits(Op.width) /\ Short(Op.width)
  BY <1>1, <1>2, <1>3, ShortOk
<1>4. CASE Fits(Op.width) /\ FailItem(Op.items)
  BY <1>1, <1>4, FailItemOk
<1>5. CASE Fits(Op.width) /\ Return(here.pos + Op.width, ItemVal(Op.items[1]))
  BY <1>1, <1>2, <1>5, TakeOk
<1> QED
  BY <1>3, <1>4, <1>5 DEF ValFixed

\* The length of a bytes or text value is a fault to report or a natural.
LEMMA ValueLength ==
  ASSUME IInv, ctl # <<>>
  PROVE  /\ ResolveLen(Op).kind \in Kinds \cup {"Ok"}
         /\ ResolveLen(Op).kind = "Ok" => ResolveLen(Op).v \in Nat
  BY HereFacts, ResolveLenType DEF LenResult

\* Bytes: the length, the bytes, the value.
LEMMA ValBytesOk == ASSUME IInv, ValBytes PROVE IInv'
<1> DEFINE n == ResolveLen(Op)
<1>1. mode = "value" /\ ctl # <<>>
  BY AtValueFacts DEF ValBytes
<1>2. n.kind \in Kinds \cup {"Ok"} /\ (n.kind = "Ok" => n.v \in Nat)
  BY <1>1, ValueLength
<1> HIDE DEF n
<1>3. CASE n.kind # "Ok" /\ Fail(n.kind, here.pos)
  BY <1>1, <1>2, <1>3, FailHere
<1>4. CASE n.kind = "Ok" /\ ~Fits(n.v) /\ Short(n.v)
  BY <1>1, <1>2, <1>4, ShortOk
<1>5. CASE /\ n.kind = "Ok" /\ Fits(n.v)
           /\ Return(here.pos + n.v, <<"bytes", Slice(buf, here.pos, here.pos + n.v)>>)
  BY <1>1, <1>2, <1>5, TakeOk
<1> QED
  BY <1>3, <1>4, <1>5 DEF ValBytes, n

\* Text: as bytes, and the bytes have to be text.
LEMMA ValStrOk == ASSUME IInv, ValStr PROVE IInv'
<1> DEFINE n == ResolveLen(Op)
<1>1. mode = "value" /\ ctl # <<>>
  BY AtValueFacts DEF ValStr
<1>2. n.kind \in Kinds \cup {"Ok"} /\ (n.kind = "Ok" => n.v \in Nat)
  BY <1>1, ValueLength
<1> HIDE DEF n
<1>3. CASE n.kind # "Ok" /\ Fail(n.kind, here.pos)
  BY <1>1, <1>2, <1>3, FailHere
<1>4. CASE n.kind = "Ok" /\ ~Fits(n.v) /\ Short(n.v)
  BY <1>1, <1>2, <1>4, ShortOk
<1>5. CASE Fail("Decode", here.pos)
  BY <1>1, <1>5, FailHere DEF Kinds
<1>6. CASE /\ n.kind = "Ok" /\ Fits(n.v)
           /\ Return(here.pos + n.v, <<"str", Slice(buf, here.pos, here.pos + n.v)>>)
  BY <1>1, <1>2, <1>6, TakeOk
<1> QED
  BY <1>3, <1>4, <1>5, <1>6 DEF ValStr, n

\* A terminated string ends one byte after its NUL, inside the window.
LEMMA ValCStrOk == ASSUME IInv, ValCStr PROVE IInv'
<1> DEFINE window == here.limit - here.pos
           scan == MinOf(window, Op.max + 1)
           nuls == {i \in 0 .. (scan - 1) : buf[here.pos + i + 1] = 0}
           text(i) == Slice(buf, here.pos, here.pos + i)
<1>1. mode = "value" /\ ctl # <<>> /\ Op.max \in Nat
  BY AtValueFacts DEF ValCStr, OpOk
<1>2. here.pos \in Nat /\ here.limit \in Nat /\ here.pos <= here.limit
  BY <1>1, HereFacts
<1>3. CASE \E i \in nuls : Return(here.pos + i + 1, <<"str", text(i)>>)
  <2>1. PICK i \in nuls : Return(here.pos + i + 1, <<"str", text(i)>>)
    BY <1>3
  <2>2. i \in 0 .. (scan - 1) /\ scan <= window /\ scan \in Int
    BY <1>1, <1>2 DEF MinOf
  <2>3. here.pos + i + 1 \in Nat /\ here.pos <= here.pos + i + 1 /\ here.pos + i + 1 <= here.limit
    BY <1>2, <2>2
  <2> QED
    BY <1>1, <2>1, <2>3, ReturnOk
<1>4. CASE \E kind \in {"Decode", "Limit", "Unterminated"} : Fail(kind, here.pos)
  BY <1>1, <1>4, FailHere DEF Kinds
<1>5. CASE Starve(1)
  BY <1>5, StarveOk
<1> QED
  BY <1>3, <1>4, <1>5 DEF ValCStr

\* A set of flags is one integer.
LEMMA ValFlagsOk == ASSUME IInv, ValFlags PROVE IInv'
<1> DEFINE raw == ReadUint(Slice(buf, here.pos, here.pos + Op.prim.w), Op.be)
<1>1. mode = "value" /\ ctl # <<>> /\ Op.prim.w \in Nat
  BY AtValueFacts DEF ValFlags, OpOk
<1>2. CASE ~Fits(Op.prim.w) /\ Short(Op.prim.w)
  BY <1>1, <1>2, ShortOk
<1>3. CASE Fail("ReservedBits", here.pos)
  BY <1>1, <1>3, FailHere DEF Kinds
<1>4. CASE Fits(Op.prim.w) /\ Return(here.pos + Op.prim.w, <<"map", FlagMap(raw, Op)>>)
  BY <1>1, <1>4, TakeOk
<1> QED
  BY <1>2, <1>3, <1>4 DEF ValFlags

\* A nested structure reads in the same window or in one that fits in it.
LEMMA ValNestOk == ASSUME IInv, ValNest PROVE IInv'
<1>1. mode = "value" /\ ctl # <<>> /\ Op.prog \in ProgId
  BY AtValueFacts DEF ValNest, OpOk
<1>2. /\ Origin \in Nat /\ here.pos \in Nat /\ here.limit \in Nat /\ Len(buf) \in Nat
      /\ Origin <= here.pos /\ here.pos <= here.limit /\ here.limit <= Len(buf)
  BY <1>1, HereFacts
<1>3. CASE Enter(Op.prog, here.pos, here.limit, {})
  BY <1>1, <1>2, <1>3, EnterOk
<1>4. CASE \E len \in Op.size :
             \E sz \in {EvalLen(len.expr)} :
             \/ sz.kind # "Ok" /\ Fail(sz.kind, here.pos)
             \/ sz.kind = "Ok" /\ ~Fits(sz.v) /\ Short(sz.v)
             \/ /\ sz.kind = "Ok" /\ Fits(sz.v)
                /\ Enter(Op.prog, here.pos, here.pos + sz.v, {here.pos + sz.v})
  <2> PICK len \in Op.size :
             \E sz \in {EvalLen(len.expr)} :
             \/ sz.kind # "Ok" /\ Fail(sz.kind, here.pos)
             \/ sz.kind = "Ok" /\ ~Fits(sz.v) /\ Short(sz.v)
             \/ /\ sz.kind = "Ok" /\ Fits(sz.v)
                /\ Enter(Op.prog, here.pos, here.pos + sz.v, {here.pos + sz.v})
    BY <1>4
  <2> DEFINE sz == EvalLen(len.expr)
  <2>1. sz.kind \in Kinds \cup {"Ok"} /\ (sz.kind = "Ok" => sz.v \in Nat)
    BY EvalLenType DEF LenResult
  <2>2. \/ sz.kind # "Ok" /\ Fail(sz.kind, here.pos)
        \/ sz.kind = "Ok" /\ ~Fits(sz.v) /\ Short(sz.v)
        \/ /\ sz.kind = "Ok" /\ Fits(sz.v)
           /\ Enter(Op.prog, here.pos, here.pos + sz.v, {here.pos + sz.v})
    OBVIOUS
  <2> HIDE DEF sz
  <2>3. CASE sz.kind # "Ok" /\ Fail(sz.kind, here.pos)
    BY <1>1, <2>1, <2>3, FailHere
  <2>4. CASE sz.kind = "Ok" /\ ~Fits(sz.v) /\ Short(sz.v)
    BY <1>1, <2>1, <2>4, ShortOk
  <2>5. CASE /\ sz.kind = "Ok" /\ Fits(sz.v)
             /\ Enter(Op.prog, here.pos, here.pos + sz.v, {here.pos + sz.v})
    <3> DEFINE end == here.pos + sz.v
    <3>1. end \in Nat /\ here.pos <= end /\ end <= here.limit /\ end <= Len(buf)
      BY <1>1, <2>1, <2>5, FitsIn
    <3>2. Enter(Op.prog, here.pos, end, {end})
      BY <2>5
    <3> HIDE DEF end
    <3>3. {end} \in SUBSET Nat /\ \A w \in {end} : w = end
      BY <3>1
    <3> QED
      BY <1>1, <1>2, <3>1, <3>2, <3>3, EnterOk
  <2> QED
    BY <2>2, <2>3, <2>4, <2>5
<1> QED
  BY <1>3, <1>4 DEF ValNest

\* An array starts where its value is, in the same window.
LEMMA ValArrayOk == ASSUME IInv, ValArray PROVE IInv'
<1> DEFINE n == IF IsGreedy(Op.count) THEN Value(UntilEof)
                ELSE AtMost(EvalLen(Op.count.expr), Op.max_count)
<1>1. mode = "value" /\ ctl # <<>> /\ cur \in Addr /\ Op.op = "Array"
  BY AtValueFacts DEF ValArray
<1>2. n.kind \in Kinds \cup {"Ok"} /\ (n.kind = "Ok" => n.v \in Int)
  <2>1. LenResult(AtMost(EvalLen(Op.count.expr), Op.max_count))
    BY EvalLenType, AtMostType
  <2> QED
    BY <2>1 DEF LenResult, Value, UntilEof
<1>3. \/ n.kind # "Ok" /\ Fail(n.kind, here.pos)
      \/ /\ n.kind = "Ok" /\ mode' = "step" /\ ctl' = Append(ctl, ArrayEntry(cur, n.v))
         /\ UNCHANGED <<req, buf, frames, cur, ret, val, outcome>>
  BY DEF ValArray
<1> HIDE DEF n
<1>4. CASE n.kind # "Ok" /\ Fail(n.kind, here.pos)
  BY <1>1, <1>2, <1>4, FailHere
<1>5. CASE /\ n.kind = "Ok" /\ mode' = "step" /\ ctl' = Append(ctl, ArrayEntry(cur, n.v))
           /\ UNCHANGED <<req, buf, frames, cur, ret, val, outcome>>
  <2> DEFINE e == ArrayEntry(cur, n.v)
  <2>1. /\ e.k = "array" /\ e.id = cur /\ e.start = here.pos /\ e.pos = here.pos /\ e.limit = here.limit
        /\ e.win = {} /\ e.depth = Len(frames) /\ e.deferred = <<>>
    BY DEF ArrayEntry
  <2>2. here \in Entry /\ here.pos \in Nat /\ here.limit \in Nat /\ Len(frames) \in Nat
    BY <1>1, HereFacts DEF IInv, TypeOK
  <2>3. e \in Entry
    BY <1>1, <1>2, <1>5, <2>2 DEF ArrayEntry, Entry
  <2>4. EntryOk(e)
    BY <1>1, <2>1 DEF EntryOk, Op
  <2>5. ctl' = Append(ctl, e)
    BY <1>5
  <2> HIDE DEF e
  <2>6. /\ Origin <= e.pos /\ e.pos <= e.limit /\ e.limit <= Len(buf)
        /\ e.depth = here.depth /\ e.depth >= 1 /\ e.depth <= MAX_DEPTH
    <3>1. /\ Origin \in Nat /\ here.start \in Nat /\ Len(buf) \in Nat
          /\ Origin <= here.start /\ here.start <= here.pos /\ here.pos <= here.limit /\ here.limit <= Len(buf)
          /\ here.depth = Len(frames)
      BY <1>1, HereFacts
    <3>2. here.depth >= 1 /\ Len(frames) <= MAX_DEPTH
      <4>1. Len(ctl) \in DOMAIN ctl /\ here = ctl[Len(ctl)]
        BY <1>1, HereFacts DEF IInv, TypeOK
      <4> QED
        BY <4>1 DEF IInv, FramesMatch
    <3> QED
      BY <2>1, <2>2, <3>1, <3>2
  <2>7. MayOpen(e)
    <3>1. /\ e.start = e.pos /\ e.deferred = <<>> /\ \A w \in e.win : w = e.limit
      BY <2>1
    <3>2. /\ here.pos <= e.pos /\ e.limit <= here.limit
          /\ e.depth = here.depth + (IF e.k = "struct" THEN 1 ELSE 0)
      BY <2>1, <2>2, <2>6
    <3> QED
      BY <1>1, <2>3, <2>4, <2>6, <3>1, <3>2 DEF MayOpen
  <2>8. frames' \in Seq(Frame) /\ Len(frames') = e.depth /\ \A i \in DOMAIN frames' : SpansOk(frames'[i])
    BY <1>5, <2>1, FramesSpans
  <2> QED
    BY <1>5, <2>5, <2>6, <2>7, <2>8, OpenOk
<1> QED
  BY <1>3, <1>4, <1>5

\* A switch goes on with the branch its tag selects, or the default.
LEMMA ValSwitchOk == ASSUME IInv, ValSwitch PROVE IInv'
<1> DEFINE tag == EvalHere(Op.on)
           hits == {Op.cases[i].to : i \in {j \in DOMAIN Op.cases : Op.cases[j].tag = tag.v}}
           targets == IF hits # {} THEN hits ELSE Op.default
<1>1. /\ mode = "value" /\ ctl # <<>> /\ TopHasField
      /\ (\A i \in DOMAIN Op.cases : Op.cases[i].to \in Addr) /\ Op.default \subseteq Addr
  BY AtValueFacts DEF ValSwitch, OpOk
<1>2. tag.kind \in Kinds \cup {"Ok"}
  BY EvalHereType
<1>3. hits \subseteq Addr
  BY <1>1
<1>4. targets \subseteq Addr
  BY <1>1, <1>3
<1>5. CASE tag.kind # "Ok" /\ Fail(tag.kind, here.pos)
  <2> HIDE DEF tag
  <2> QED
    BY <1>1, <1>2, <1>5, FailHere
<1>6. CASE Fail("NoCase", here.pos)
  BY <1>1, <1>6, FailHere DEF Kinds
<1>7. CASE \E a \in targets : Descend(a)
  <2> HIDE DEF targets
  <2> QED
    BY <1>1, <1>4, <1>7, DescendOk
<1> QED
  BY <1>5, <1>6, <1>7 DEF ValSwitch

(***************************************************************************)
(* The elements of an array.                                               *)
(***************************************************************************)
\* What InArray gives.
LEMMA InArrayFacts ==
  ASSUME IInv, InArray
  PROVE  ctl # <<>> /\ TopHasField /\ here.id \in Addr /\ Code[here.id].elem \in Addr
<1>1. ctl # <<>> /\ here.k = "array" /\ EntryOk(here)
  BY HereFacts DEF InArray
<1>2. here.id \in Addr /\ Code[here.id].op = "Array"
  BY <1>1 DEF EntryOk
<1>3. OpOk(Code[here.id])
  BY <1>2, ProgramAssumption
<1> QED
  BY <1>1, <1>2, <1>3 DEF OpOk, TopHasField, InStruct

\* The next element is a value to read, unless there are too many.
LEMMA ElemNextOk == ASSUME IInv, ElemNext PROVE IInv'
<1>1. mode = "step" /\ ctl # <<>> /\ TopHasField /\ Code[here.id].elem \in Addr
  BY InArrayFacts DEF ElemNext
<1>2. CASE Fail("Limit", here.pos)
  BY <1>1, <1>2, FailHere DEF Kinds
<1>3. CASE Descend(Code[here.id].elem)
  BY <1>1, <1>3, DescendOk
<1> QED
  BY <1>2, <1>3 DEF ElemNext

\* An element is stored and the array moves to where it ended.
LEMMA ElemDoneOk == ASSUME IInv, ElemDone PROVE IInv'
<1>1. mode = "ret" /\ ctl # <<>> /\ TopHasField
  BY InArrayFacts DEF ElemDone
<1>2. ret \in Nat /\ here.pos <= ret /\ ret <= here.limit
  BY <1>1 DEF IInv, TypeOK, InWindows
<1>3. ctl' = Passed(ret) /\ mode' = "step" /\ UNCHANGED <<req, buf, ret, outcome, frames>>
  BY DEF ElemDone
<1> QED
  BY <1>1, <1>2, <1>3, PassedSameFrames

\* The outermost activation is a structure, so an array is inside another.
LEMMA ArrayEndOk == ASSUME IInv, ArrayEnd PROVE IInv'
<1>1. mode = "step" /\ ctl # <<>> /\ here.k = "array"
  BY DEF ArrayEnd, InArray
<1>2. Len(ctl) >= 2
  <2>1. here = ctl[Len(ctl)] /\ Len(ctl) \in Nat /\ Len(ctl) >= 1 /\ ctl[1].k = "struct"
    BY <1>1, HereFacts DEF IInv, FramesMatch
  <2>2. Len(ctl) # 1
    BY <1>1, <2>1
  <2> QED
    BY <2>1, <2>2
<1>3. ctl' = Front(ctl) /\ mode' = "ret" /\ ret' = here.pos /\ frames' = frames
      /\ UNCHANGED <<req, buf, outcome>>
  BY DEF ArrayEnd
<1> QED
  BY <1>1, <1>2, <1>3, CloseOk

(***************************************************************************)
(* The end of a structure.                                                 *)
(***************************************************************************)
\* A structure that ends reports a digest or an overhang, or returns.
LEMMA LeaveStructOk == ASSUME IInv, LeaveStruct PROVE IInv'
<1>1. mode = "step" /\ ctl # <<>> /\ here.k = "struct"
  BY DEF LeaveStruct, InStruct
<1>2. /\ here \in Entry /\ Origin \in Nat /\ here.pos \in Nat /\ here.start \in Nat /\ here.limit \in Nat
      /\ Len(buf) \in Nat /\ Len(ctl) \in Nat
      /\ Origin <= here.start /\ here.start <= here.pos /\ here.pos <= here.limit /\ here.limit <= Len(buf)
  BY <1>1, HereFacts
<1>3. CASE \E i \in BadDigests : Fail("Checksum", here.deferred[i].pos)
  <2>1. PICK i \in BadDigests : Fail("Checksum", here.deferred[i].pos)
    BY <1>3
  <2>2. i \in DOMAIN here.deferred
    BY DEF BadDigests
  <2>3. here.deferred[i] \in Deferred
    BY <1>2, <2>2 DEF Entry
  <2>4. here.deferred[i].pos \in Nat
    BY <2>3 DEF Deferred
  <2>5. /\ here.start <= here.deferred[i].pos
        /\ here.deferred[i].pos + ChecksumWidth <= here.pos
    <3>1. Len(ctl) \in DOMAIN ctl /\ here = ctl[Len(ctl)]
      BY <1>1, HereFacts DEF IInv, TypeOK
    <3> QED
      BY <2>2, <3>1 DEF IInv, DigestsInBuffer
  <2>6. Origin <= here.deferred[i].pos /\ here.deferred[i].pos <= Len(buf)
    BY <1>2, <2>4, <2>5 DEF ChecksumWidth
  <2> QED
    BY <2>1, <2>4, <2>6, FailOk DEF Kinds
<1>4. CASE Fail("Trailing", here.pos)
  BY <1>1, <1>4, FailHere DEF Kinds
<1>5. CASE /\ Len(ctl) > 1 /\ mode' = "ret" /\ ret' = here.pos
           /\ ctl' = Front(ctl) /\ frames' = Front(frames)
           /\ UNCHANGED <<req, buf, cur, outcome>>
  <2>1. Len(ctl) >= 2
    BY <1>2, <1>5
  <2> QED
    BY <1>1, <1>5, <2>1, CloseOk
<1>6. CASE Stop("Ok", "Ok", here.pos, <<"map", Last(vals)>>)
  <2>1. Origin <= here.pos /\ here.pos <= Len(buf)
    BY <1>2
  <2>2. PICK v : Stop("Ok", "Ok", here.pos, v)
    BY <1>6
  <2> QED
    BY <1>2, <2>1, <2>2, StopOk
<1> QED
  BY <1>3, <1>4, <1>5, <1>6 DEF LeaveStruct

(***************************************************************************)
(* The whole machine.                                                      *)
(***************************************************************************)
\* Before the call nothing is open.
LEMMA InitOk == ASSUME Init PROVE IInv
<1>1. req \in [root : ProgId, offset : Nat, exact : BOOLEAN, stream : BOOLEAN] /\ buf \in Seq(Byte)
  BY CallAssumption DEF Init
<1>2. /\ mode = "idle" /\ ctl = <<>> /\ frames = <<>> /\ ret = 0 /\ outcome = Pending
  BY DEF Init
<1>3. TypeOK
  BY <1>1, <1>2 DEF TypeOK, Pending
<1>4. FramesMatch
  BY <1>2, ProgramAssumption DEF FramesMatch
<1>5. InWindows /\ DigestsInBuffer /\ OutcomeInBuffer
  BY <1>2 DEF InWindows, DigestsInBuffer, OutcomeInBuffer
<1> QED
  BY <1>3, <1>4, <1>5 DEF IInv

\* run_with starts inside the buffer, whatever offset it is given.
LEMMA CallOk == ASSUME IInv, Call PROVE IInv'
<1>1. ctl = <<>> /\ Enter(req.root, Origin, Len(buf), {})
  BY DEF Call, IInv, FramesMatch
<1>2. req.root \in ProgId /\ req.offset \in Nat /\ Len(buf) \in Nat
  BY DEF IInv, TypeOK
<1>3. Origin \in Nat /\ Origin <= Len(buf)
  BY <1>2 DEF Origin, MinOf
<1> QED
  BY <1>1, <1>2, <1>3, EnterOk

\* Every step keeps the invariant.
LEMMA StepOk == ASSUME IInv, [Next]_vars PROVE IInv'
<1>1. CASE Call
  BY <1>1, CallOk
<1>2. CASE FieldStep
  BY <1>2, DoFixedOk, DoBitRunOk, DoDigestOk, DoCondOk, DoOtherOk, FieldDoneOk DEF FieldStep
<1>3. CASE ValueStep
  BY <1>3, ValFixedOk, ValBytesOk, ValStrOk, ValCStrOk, ValFlagsOk, ValNestOk, ValArrayOk, ValSwitchOk
     DEF ValueStep
<1>4. CASE ArrayStep
  BY <1>4, ElemNextOk, ElemDoneOk, ArrayEndOk DEF ArrayStep
<1>5. CASE LeaveStruct
  BY <1>5, LeaveStructOk
<1>6. CASE UNCHANGED vars
  <2>1. /\ req' = req /\ buf' = buf /\ mode' = mode /\ ctl' = ctl /\ frames' = frames
        /\ cur' = cur /\ ret' = ret /\ outcome' = outcome
    BY <1>6 DEF vars
  <2>2. here' = here /\ Origin' = Origin
    BY <2>1 DEF here, Origin
  <2>3. TypeOK' /\ DigestsInBuffer' /\ OutcomeInBuffer'
    BY <2>1, <2>2 DEF IInv, TypeOK, DigestsInBuffer, OutcomeInBuffer
  <2>4. InWindows' /\ FramesMatch'
    BY <2>1, <2>2 DEF IInv, InWindows, FramesMatch
  <2> QED
    BY <2>3, <2>4 DEF IInv
<1> QED
  BY <1>1, <1>2, <1>3, <1>4, <1>5, <1>6 DEF Next, Step, Returned

(***************************************************************************)
(* Whose spans.  Every structure has a frame of its own, the ones further  *)
(* down have lower frames, and only the structure on top writes to its     *)
(* frame, what lies between its position and the next.                     *)
(***************************************************************************)
OwnFrames ==
  \A i, j \in DOMAIN ctl : i < j =>
    /\ ctl[i].depth <= ctl[j].depth
    /\ ctl[j].k = "struct" => ctl[i].depth < ctl[j].depth

SpansOf(e, f) == \A s \in Spans : SpanRead(e, f.spans[s])

SpansRead ==
  \A i \in DOMAIN ctl : ctl[i].k = "struct" => SpansOf(ctl[i], frames[ctl[i].depth])

ScopeInv == OwnFrames /\ SpansRead

\* Where the frames of the activations are.
LEMMA FrameOf ==
  ASSUME IInv, OwnFrames, NEW i \in DOMAIN ctl
  PROVE  /\ ctl[i] \in Entry /\ ctl[i].depth \in 1 .. Len(frames) /\ ctl # <<>>
         /\ i \in 1 .. Len(ctl) /\ i < Len(ctl) => (here.k = "struct" => ctl[i].depth < Len(frames))
<1>1. ctl \in Seq(Entry) /\ frames \in Seq(Frame)
  BY DEF IInv, TypeOK
<1>2. ctl[i] \in Entry /\ ctl # <<>> /\ i \in 1 .. Len(ctl) /\ Len(ctl) \in DOMAIN ctl
  BY <1>1
<1>3. here = ctl[Len(ctl)] /\ here.depth = Len(frames)
  BY <1>2, HereFacts
<1>4. ctl[i].depth \in Nat /\ ctl[i].depth >= 1 /\ Len(frames) \in Nat
  BY <1>1, <1>2 DEF IInv, FramesMatch, Entry
<1>5. i < Len(ctl) => /\ ctl[i].depth <= here.depth
                      /\ here.k = "struct" => ctl[i].depth < here.depth
  BY <1>2, <1>3 DEF OwnFrames
<1>6. i = Len(ctl) => ctl[i].depth = here.depth
  BY <1>3
<1> QED
  BY <1>2, <1>3, <1>4, <1>5, <1>6

\* Nothing to show when activations and frames stay, or all are closed.
LEMMA ScopeSame ==
  ASSUME ScopeInv, UNCHANGED <<ctl, frames>>
  PROVE  ScopeInv'
  BY DEF ScopeInv, OwnFrames, SpansRead, SpansOf

LEMMA ScopeStop ==
  ASSUME NEW tag, NEW kind, NEW at, NEW v, Stop(tag, kind, at, v)
  PROVE  ScopeInv'
  BY DEF Stop, ScopeInv, OwnFrames, SpansRead

LEMMA ScopeFail ==
  ASSUME NEW kind, NEW at, Fail(kind, at)
  PROVE  ScopeInv'
  BY ScopeStop DEF Fail

LEMMA ScopeShort ==
  ASSUME NEW n, Short(n) \/ Starve(n)
  PROVE  ScopeInv'
  BY ScopeFail, ScopeStop DEF Short, Starve

\* A structure that moves on has still read what it had read.
LEMMA SpansMoved ==
  ASSUME NEW e \in Entry, NEW d \in Entry, NEW f \in Frame, SpansOf(e, f),
         d.start = e.start, e.pos <= d.pos
  PROVE  SpansOf(d, f)
<1> SUFFICES ASSUME NEW s \in Spans PROVE SpanRead(d, f.spans[s])
  BY DEF SpansOf
<1>1. f.spans[s] \in Nat \X Nat /\ SpanRead(e, f.spans[s])
  BY DEF SpansOf, Frame
<1>2. f.spans[s][1] \in Nat /\ f.spans[s][2] \in Nat /\ e.pos \in Nat /\ d.pos \in Nat
  BY <1>1 DEF Entry
<1> QED
  BY <1>1, <1>2 DEF SpanRead

\* The activation on top is replaced by itself, moved on to e, and its frame,
\* if it changes, by one whose spans e has read.
LEMMA ScopeMoved ==
  ASSUME IInv, ScopeInv, ctl # <<>>, NEW e \in Entry,
         e.k = here.k, e.depth = here.depth, e.start = here.start, here.pos <= e.pos,
         ctl' = SetTop(ctl, e),
         \/ frames' = frames
         \/ /\ here.k = "struct"
            /\ \E f \in Frame : SpansOf(e, f) /\ frames' = SetTop(frames, f)
  PROVE  ScopeInv'
<1>1. ctl \in Seq(Entry) /\ frames \in Seq(Frame)
  BY DEF IInv, TypeOK
<1> PICK n \in Nat : n = Len(ctl) /\ n >= 1 /\ n \in DOMAIN ctl /\ DOMAIN ctl = 1 .. n
  BY <1>1
<1>2. here = ctl[n] /\ here.depth = Len(frames) /\ here \in Entry /\ frames # <<>>
  BY HereFacts
<1>3. /\ Len(ctl') = n /\ DOMAIN ctl' = 1 .. n /\ ctl'[n] = e
      /\ \A i \in 1 .. (n - 1) : ctl'[i] = ctl[i]
  <2>1. /\ SetTop(ctl, e) \in Seq(Entry) /\ Len(SetTop(ctl, e)) = Len(ctl)
        /\ \A i \in 1 .. (Len(ctl) - 1) : SetTop(ctl, e)[i] = ctl[i]
        /\ SetTop(ctl, e)[Len(ctl)] = e
    <3> SUFFICES ASSUME NEW F, NEW s \in Seq(F), s # <<>>, NEW x \in F
                 PROVE  /\ SetTop(s, x) \in Seq(F) /\ Len(SetTop(s, x)) = Len(s)
                        /\ \A i \in 1 .. (Len(s) - 1) : SetTop(s, x)[i] = s[i]
                        /\ SetTop(s, x)[Len(s)] = x
      BY <1>1
    <3> QED
      BY StackSet
  <2> QED
    BY <2>1
<1>4. OwnFrames'
  <2>1. \A i \in 1 .. n : ctl'[i].k = ctl[i].k /\ ctl'[i].depth = ctl[i].depth
    BY <1>2, <1>3
  <2> QED
    BY <1>3, <2>1 DEF ScopeInv, OwnFrames
<1>5. ASSUME NEW i \in 1 .. n, ctl'[i].k = "struct"
      PROVE  SpansOf(ctl'[i], frames'[ctl'[i].depth])
  <2>1. CASE i = n
    <3>1. ctl'[i] = e /\ e.depth = Len(frames) /\ here.k = "struct"
      BY <1>2, <1>3, <1>5, <2>1
    <3>2. CASE frames' = frames
      <4>1. SpansOf(here, frames[here.depth]) /\ frames[here.depth] \in Frame
        BY <1>1, <1>2, <3>1 DEF ScopeInv, SpansRead
      <4> QED
        BY <1>2, <3>1, <3>2, <4>1, SpansMoved
    <3>3. CASE \E f \in Frame : SpansOf(e, f) /\ frames' = SetTop(frames, f)
      <4>1. PICK f \in Frame : SpansOf(e, f) /\ frames' = SetTop(frames, f)
        BY <3>3
      <4>2. frames'[Len(frames)] = f
        BY <1>1, <1>2, <4>1, StackSet, Zenon
      <4> QED
        BY <3>1, <4>1, <4>2
    <3> QED
      BY <3>2, <3>3
  <2>2. CASE i < n
    <3>1. ctl'[i] = ctl[i] /\ SpansOf(ctl[i], frames[ctl[i].depth])
      BY <1>3, <1>5, <2>2 DEF ScopeInv, SpansRead
    <3>2. CASE frames' = frames
      BY <3>1, <3>2
    <3>3. CASE /\ here.k = "struct"
               /\ \E f \in Frame : SpansOf(e, f) /\ frames' = SetTop(frames, f)
      <4>1. PICK f \in Frame : frames' = SetTop(frames, f)
        BY <3>3
      <4>2. \A d \in 1 .. (Len(frames) - 1) : frames'[d] = frames[d]
        <5>1. \A d \in 1 .. (Len(frames) - 1) : SetTop(frames, f)[d] = frames[d]
          BY <1>1, <1>2, StackSet
        <5> QED
          BY <4>1, <5>1
      <4>3. ctl[i].depth \in 1 .. Len(frames) /\ ctl[i].depth < Len(frames) /\ Len(frames) \in Nat
        BY <1>1, <2>2, <3>3, FrameOf DEF ScopeInv
      <4> QED
        BY <3>1, <4>2, <4>3
    <3> QED
      BY <3>2, <3>3
  <2> QED
    BY <2>1, <2>2
<1> QED
  BY <1>3, <1>4, <1>5 DEF ScopeInv, SpansRead

\* A new structure's spans are unset; an array has no frame.
LEMMA ScopeOpen ==
  ASSUME IInv, ScopeInv, NEW e \in Entry, ctl' = Append(ctl, e),
         \/ e.k = "struct" /\ e.depth = Len(frames) + 1 /\ frames' = Append(frames, NewFrame)
         \/ e.k = "array" /\ e.depth = Len(frames) /\ frames' = frames
  PROVE  ScopeInv'
<1>1. ctl \in Seq(Entry) /\ frames \in Seq(Frame) /\ NewFrame \in Frame
  BY NewFrameOk DEF IInv, TypeOK
<1> PICK n \in Nat : n = Len(ctl) /\ DOMAIN ctl = 1 .. n
  BY <1>1
<1>2. /\ DOMAIN ctl' = 1 .. (n + 1) /\ ctl'[n + 1] = e
      /\ \A i \in 1 .. n : ctl'[i] = ctl[i]
  BY <1>1
<1>3. ASSUME NEW i \in 1 .. n
      PROVE  /\ ctl[i].depth \in 1 .. Len(frames) /\ ctl[i].depth \in Nat
             /\ frames'[ctl[i].depth] = frames[ctl[i].depth]
  <2>1. ctl[i].depth \in 1 .. Len(frames) /\ ctl[i] \in Entry
    BY FrameOf DEF ScopeInv
  <2> QED
    BY <1>1, <2>1
<1>4. ASSUME NEW i \in 1 .. (n + 1), NEW j \in 1 .. (n + 1), i < j
      PROVE  /\ ctl'[i].depth <= ctl'[j].depth
             /\ ctl'[j].k = "struct" => ctl'[i].depth < ctl'[j].depth
  <2>1. i \in 1 .. n /\ (j \in 1 .. n \/ j = n + 1) /\ Len(frames) \in Nat
    BY <1>1, <1>4
  <2>2. CASE j = n + 1
    BY <1>2, <1>3, <2>1, <2>2
  <2>3. CASE j \in 1 .. n
    BY <1>2, <1>4, <2>1, <2>3 DEF ScopeInv, OwnFrames
  <2> QED
    BY <2>1, <2>2, <2>3
<1>5. ASSUME NEW i \in 1 .. (n + 1), ctl'[i].k = "struct"
      PROVE  SpansOf(ctl'[i], frames'[ctl'[i].depth])
  <2>1. CASE i = n + 1
    <3>1. ctl'[i] = e /\ frames'[e.depth] = NewFrame
      BY <1>1, <1>2, <1>5, <2>1
    <3> QED
      BY <3>1 DEF SpansOf, SpanRead, NewFrame
  <2>2. CASE i \in 1 .. n
    BY <1>2, <1>3, <1>5, <2>2 DEF ScopeInv, SpansRead
  <2> QED
    BY <2>1, <2>2
<1> QED
  BY <1>2, <1>4, <1>5 DEF ScopeInv, OwnFrames, SpansRead

\* The one on top closes: a structure with its frame, an array without.
LEMMA ScopeClose ==
  ASSUME IInv, ScopeInv, ctl # <<>>, ctl' = Front(ctl),
         IF here.k = "struct" THEN frames' = Front(frames) ELSE frames' = frames
  PROVE  ScopeInv'
<1>1. ctl \in Seq(Entry) /\ frames \in Seq(Frame) /\ frames # <<>>
  BY HereFacts DEF IInv, TypeOK
<1> PICK n \in Nat : n = Len(ctl) - 1 /\ DOMAIN ctl = 1 .. (n + 1)
  BY <1>1, HereFacts
<1>2. DOMAIN ctl' = 1 .. n /\ \A i \in 1 .. n : ctl'[i] = ctl[i]
  <2>1. /\ Front(ctl) \in Seq(Entry) /\ Len(Front(ctl)) = Len(ctl) - 1
        /\ \A i \in 1 .. (Len(ctl) - 1) : Front(ctl)[i] = ctl[i]
    BY <1>1, StackTop, Zenon
  <2> QED
    BY <2>1
<1>3. ASSUME NEW i \in 1 .. n PROVE frames'[ctl[i].depth] = frames[ctl[i].depth]
  <2>1. CASE here.k = "struct"
    <3>1. ctl[i].depth \in 1 .. Len(frames) /\ ctl[i].depth < Len(frames) /\ Len(frames) \in Nat
      BY <1>1, <2>1, FrameOf DEF ScopeInv
    <3>2. \A d \in 1 .. (Len(frames) - 1) : Front(frames)[d] = frames[d]
      BY <1>1, StackTop, Zenon
    <3> QED
      BY <2>1, <3>1, <3>2
  <2>2. CASE here.k # "struct"
    BY <2>2
  <2> QED
    BY <2>1, <2>2
<1>4. OwnFrames'
  BY <1>2 DEF ScopeInv, OwnFrames
<1>5. SpansRead'
  BY <1>2, <1>3 DEF ScopeInv, SpansRead
<1> QED
  BY <1>4, <1>5 DEF ScopeInv

\* A field passed: the activation moves on and its frame gets the spans.
LEMMA ScopePassed ==
  ASSUME IInv, ScopeInv, ctl # <<>>, NEW end \in Nat, here.pos <= end, ctl' = Passed(end),
         \/ frames' = frames
         \/ /\ here.k = "struct"
            /\ \E f \in Frame : SpansOf([here EXCEPT !.i = @ + 1, !.pos = end], f) /\ frames' = SetTop(frames, f)
  PROVE  ScopeInv'
<1> DEFINE e == [here EXCEPT !.i = @ + 1, !.pos = end]
<1>1. here \in Entry
  BY HereFacts
<1>2. e \in Entry /\ e.k = here.k /\ e.start = here.start /\ e.depth = here.depth /\ e.pos = end
  BY <1>1, EntryMoved
<1>3. ctl' = SetTop(ctl, e)
  BY DEF Passed
<1>4. \/ frames' = frames
      \/ here.k = "struct" /\ \E f \in Frame : SpansOf(e, f) /\ frames' = SetTop(frames, f)
  OBVIOUS
<1> HIDE DEF e
<1> QED
  BY <1>2, <1>3, <1>4, ScopeMoved

\* The top frame's spans are inside what the structure on top has read, and
\* still are when it has read more.
LEMMA TopSpans ==
  ASSUME IInv, ScopeInv, InStruct, NEW e \in Entry, e.start = here.start, here.pos <= e.pos
  PROVE  Last(frames) \in Frame /\ SpansOf(e, Last(frames))
<1>1. ctl # <<>> /\ here.k = "struct"
  BY DEF InStruct
<1>2. ctl \in Seq(Entry) /\ frames \in Seq(Frame) /\ frames # <<>>
  BY <1>1, HereFacts DEF IInv, TypeOK
<1>3. Len(ctl) \in DOMAIN ctl /\ here = ctl[Len(ctl)] /\ here \in Entry
      /\ Last(frames) = frames[here.depth] /\ Last(frames) \in Frame
  BY <1>1, <1>2, HereFacts, StackTop
<1>4. SpansOf(here, Last(frames))
  BY <1>1, <1>3 DEF ScopeInv, SpansRead
<1> QED
  BY <1>3, <1>4, SpansMoved

\* set_span with what the field took.
LEMMA ScopeSpan ==
  ASSUME NEW e \in Entry, NEW f \in Frame, SpansOf(e, f), NEW span, NEW s \in Nat, NEW end \in Nat,
         e.start <= s, s <= end, end <= e.pos
  PROVE  SetSpan(f, span, s, end) \in Frame /\ SpansOf(e, SetSpan(f, span, s, end))
<1> DEFINE sp == [x \in Spans |-> IF x \in span THEN <<s, end>> ELSE f.spans[x]]
<1>1. f.regs \in [Regs -> I64] /\ f.spans \in [Spans -> Nat \X Nat]
  BY DEF Frame
<1>2. sp \in [Spans -> Nat \X Nat]
  BY <1>1
<1>3. \A x \in Spans : SpanRead(e, sp[x])
  BY DEF SpansOf, SpanRead
<1> HIDE DEF sp
<1>4. SetSpan(f, span, s, end) = [f EXCEPT !.spans = sp]
  BY DEF SetSpan, sp
<1> QED
  BY <1>1, <1>2, <1>3, <1>4 DEF Frame, SpansOf

\* The items of a run lie one behind the other from where it starts.
LEMMA ScopeItems ==
  ASSUME IInv, ScopeInv, InStruct, NEW op, FixedOk(op), Fits(op.width), BadItems(op.items) = {},
         NEW e \in Entry, e.start = here.start, e.pos = here.pos + op.width
  PROVE  LET f == ItemsFrame(Last(frames), op.items) IN f \in Frame /\ SpansOf(e, f)
<1> DEFINE f == ItemsFrame(Last(frames), op.items)
<1>1. ctl # <<>> /\ op.width \in Nat
  BY DEF InStruct, FixedOk
<1>2. Last(frames) \in Frame /\ SpansOk(Last(frames))
  BY <1>1, TopFrame
<1>3. f \in Frame
  BY <1>1, <1>2, ItemsFrameOk
<1>4. here.pos \in Nat /\ here.start \in Nat /\ here.start <= here.pos /\ here.pos <= e.pos
  BY <1>1, HereFacts
<1>5. SpansOf(e, Last(frames))
  BY <1>4, TopSpans
<1>6. ASSUME NEW s \in Spans PROVE SpanRead(e, f.spans[s])
  <2> DEFINE at == {i \in DOMAIN op.items : s \in op.items[i].span}
             it == op.items[CHOOSE i \in at : TRUE]
  <2>1. f.spans[s] = IF at = {} THEN Last(frames).spans[s]
                     ELSE <<here.pos + it.off, here.pos + it.off + ItemWidth(it)>>
    BY DEF ItemsFrame
  <2>2. CASE at = {}
    BY <1>5, <2>1, <2>2 DEF SpansOf
  <2>3. CASE at # {}
    <3>1. PICK i \in DOMAIN op.items : it = op.items[i]
      BY <2>3
    <3>2. PICK o \in Nat, w \in Nat : o = it.off /\ w = ItemWidth(it) /\ o + w <= op.width
      <4> HIDE DEF it
      <4> QED
        BY <3>1 DEF FixedOk
    <3>3. f.spans[s] = <<here.pos + o, here.pos + o + w>>
      BY <2>1, <2>3, <3>2
    <3>4. /\ e.start <= here.pos + o /\ here.pos + o <= here.pos + o + w
          /\ here.pos + o + w <= e.pos
      BY <1>1, <1>4, <3>2
    <3> QED
      BY <3>3, <3>4 DEF SpanRead
  <2> QED
    BY <2>2, <2>3
<1> HIDE DEF f
<1>7. SpansOf(e, f)
  BY <1>6 DEF SpansOf
<1> QED
  BY <1>3, <1>7 DEF f

\* A field of the structure on top.
LEMMA FieldScope == ASSUME IInv, ScopeInv, FieldStep PROVE ScopeInv'
<1> DEFINE To(end) == [here EXCEPT !.i = @ + 1, !.pos = end]
<1>0. InStruct => ctl # <<>> /\ here.k = "struct" /\ here \in Entry /\ here.pos \in Nat
                  /\ here.start \in Nat /\ here.start <= here.pos
  BY HereFacts DEF InStruct
<1>1. ASSUME NEW end \in Nat, InStruct, here.pos <= end
      PROVE  /\ To(end) \in Entry /\ To(end).start = here.start /\ To(end).pos = end
             /\ To(end).k = here.k /\ To(end).depth = here.depth
  BY <1>0, <1>1, EntryMoved
<1>2. ASSUME DoFixed PROVE ScopeInv'
  <2>1. InStruct /\ FixedOk(FieldOp) /\ FieldOp.width \in Nat
    BY <1>2, AtFieldFacts DEF DoFixed, OpOk, FixedOk
  <2>2. CASE ~Fits(FieldOp.width) /\ Short(FieldOp.width)
    BY <2>2, ScopeShort
  <2>3. CASE FailItem(FieldOp.items)
    BY <2>3, ScopeFail DEF FailItem
  <2>4. CASE /\ Fits(FieldOp.width) /\ BadItems(FieldOp.items) = {}
             /\ frames' = SetTop(frames, ItemsFrame(Last(frames), FieldOp.items))
             /\ ctl' = Passed(here.pos + FieldOp.width)
    <3>1. here.pos + FieldOp.width \in Nat /\ here.pos <= here.pos + FieldOp.width
      BY <1>0, <2>1
    <3> DEFINE e == To(here.pos + FieldOp.width)
               f == ItemsFrame(Last(frames), FieldOp.items)
    <3>2. e \in Entry /\ e.start = here.start /\ e.pos = here.pos + FieldOp.width
      BY <1>1, <2>1, <3>1
    <3> HIDE DEF e
    <3>3. f \in Frame /\ SpansOf(e, f)
      BY <2>1, <2>4, <3>2, ScopeItems
    <3> HIDE DEF f
    <3>4. frames' = SetTop(frames, f)
      BY <2>4 DEF f
    <3>5. \E g \in Frame : SpansOf(To(here.pos + FieldOp.width), g) /\ frames' = SetTop(frames, g)
      BY <3>3, <3>4 DEF e
    <3> QED
      BY <1>0, <2>1, <2>4, <3>1, <3>5, ScopePassed
  <2> QED
    BY <1>2, <2>2, <2>3, <2>4 DEF DoFixed
<1>3. ASSUME DoBitRun PROVE ScopeInv'
  <2>1. InStruct /\ FieldOp.nbytes \in Nat
    BY <1>3, AtFieldFacts DEF DoBitRun, OpOk
  <2> DEFINE regs == [r \in Regs |->
                        IF Writers(FieldOp.items, r) = {} THEN Last(frames).regs[r]
                        ELSE BitVal(FieldOp, FieldOp.items[CHOOSE i \in Writers(FieldOp.items, r) : TRUE])]
             f == [Last(frames) EXCEPT !.regs = regs]
             end == here.pos + FieldOp.nbytes
  <2>2. CASE Short(FieldOp.nbytes)
    BY <2>2, ScopeShort
  <2>3. CASE Fail("Overflow", here.pos)
    BY <2>3, ScopeFail
  <2>4. CASE /\ BadBits(FieldOp) = {} /\ frames' = SetTop(frames, f) /\ ctl' = Passed(end)
    <3>1. end \in Nat /\ here.pos <= end
      BY <1>0, <2>1
    <3>2. To(end) \in Entry /\ To(end).start = here.start /\ here.pos <= To(end).pos
      BY <1>1, <2>1, <3>1
    <3>3. Last(frames) \in Frame /\ SpansOf(To(end), Last(frames))
      BY <2>1, <3>2, TopSpans
    <3>4. ASSUME NEW r \in Regs, Writers(FieldOp.items, r) # {}
          PROVE  BitVal(FieldOp, FieldOp.items[CHOOSE i \in Writers(FieldOp.items, r) : TRUE]) \in I64
      <4>1. PICK i \in Writers(FieldOp.items, r) : i = CHOOSE x \in Writers(FieldOp.items, r) : TRUE
        BY <3>4
      <4>2. i \in DOMAIN FieldOp.items /\ FieldOp.items[i].reg # {}
        BY DEF Writers
      <4>3. BitVal(FieldOp, FieldOp.items[i]) \in I64
        BY <2>4, <4>2 DEF BadBits
      <4> QED
        BY <4>1, <4>3
    <3>5. regs \in [Regs -> I64]
      BY <3>3, <3>4 DEF Frame
    <3> HIDE DEF regs
    <3>6. f \in Frame /\ f.spans = Last(frames).spans
      BY <3>3, <3>5 DEF Frame
    <3> HIDE DEF f
    <3>7. SpansOf(To(end), f)
      BY <3>3, <3>6 DEF SpansOf
    <3> HIDE DEF end
    <3>8. \E g \in Frame : SpansOf(To(end), g) /\ frames' = SetTop(frames, g)
      BY <2>4, <3>6, <3>7
    <3> QED
      BY <1>0, <2>1, <2>4, <3>1, <3>8, ScopePassed
  <2> QED
    BY <1>3, <2>2, <2>3, <2>4 DEF DoBitRun
<1>4. ASSUME DoDigest PROVE ScopeInv'
  <2>1. InStruct /\ NextAddr \in Addr /\ ChecksumWidth \in Nat
    BY <1>4, AtFieldFacts DEF DoDigest, ChecksumWidth
  <2> DEFINE end == here.pos + ChecksumWidth
             d == [at |-> NextAddr, pos |-> here.pos]
             e == [To(end) EXCEPT !.deferred = Append(here.deferred, d)]
             f == SetSpan(Last(frames), FieldOp.span, here.pos, end)
  <2>2. CASE Short(ChecksumWidth)
    BY <2>2, ScopeShort
  <2>3. CASE /\ frames' = SetTop(frames, f)
             /\ ctl' = SetTop(ctl, [here EXCEPT !.i = @ + 1, !.pos = end, !.deferred = Append(@, d)])
    <3>1. end \in Nat /\ here.pos <= end /\ d \in Deferred
      BY <1>0, <2>1 DEF Deferred
    <3>2. /\ To(end) \in Entry /\ To(end).start = here.start /\ To(end).pos = end
          /\ To(end).k = here.k /\ To(end).depth = here.depth
      BY <1>1, <2>1, <3>1
    <3>3. here.deferred \in Seq(Deferred)
      BY <1>0, <2>1 DEF Entry
    <3>4. Append(here.deferred, d) \in Seq(Deferred)
      BY <3>1, <3>3
    <3>5. ctl' = SetTop(ctl, e)
      BY <2>3
    <3> HIDE DEF To, d
    <3>6. /\ e \in Entry /\ e.start = here.start /\ e.pos = end
          /\ e.k = here.k /\ e.depth = here.depth
      BY <3>2, <3>4 DEF Entry
    <3> HIDE DEF e
    <3>7. Last(frames) \in Frame /\ SpansOf(e, Last(frames))
      BY <2>1, <3>1, <3>6, TopSpans
    <3>8. f \in Frame /\ SpansOf(e, f)
      BY <1>0, <2>1, <3>1, <3>6, <3>7, ScopeSpan
    <3> HIDE DEF f, end
    <3> QED
      BY <1>0, <2>1, <2>3, <3>1, <3>5, <3>6, <3>8, ScopeMoved
  <2> QED
    BY <1>4, <2>2, <2>3 DEF DoDigest
<1>5. ASSUME DoCond PROVE ScopeInv'
  <2>1. InStruct
    BY <1>5 DEF DoCond, AtField
  <2>2. CASE \E kind : Fail(kind, here.pos)
    BY <2>2, ScopeFail
  <2>3. CASE Descend(FieldOp.then)
    BY <2>3, ScopeSame DEF Descend
  <2>4. CASE ctl' = Passed(here.pos) /\ frames' = frames
    BY <1>0, <2>1, <2>4, ScopePassed
  <2> QED
    BY <1>5, <2>2, <2>3, <2>4 DEF DoCond
<1>6. ASSUME DoOther PROVE ScopeInv'
  BY <1>6, ScopeSame DEF DoOther, Descend
<1>7. ASSUME FieldDone PROVE ScopeInv'
  <2>1. InStruct /\ mode = "ret" /\ ret \in Nat /\ here.pos <= ret
    BY <1>7 DEF FieldDone, IInv, TypeOK, InWindows
  <2> DEFINE f == SetSpan(Last(frames), FieldOp.span, here.pos, ret)
  <2>2. To(ret) \in Entry /\ To(ret).start = here.start /\ To(ret).pos = ret
    BY <1>1, <2>1
  <2>3. Last(frames) \in Frame /\ SpansOf(To(ret), Last(frames))
    BY <2>1, <2>2, TopSpans
  <2>4. f \in Frame /\ SpansOf(To(ret), f)
    <3> HIDE DEF To
    <3> QED
      BY <1>0, <2>1, <2>2, <2>3, ScopeSpan
  <2>5. frames' = SetTop(frames, f) /\ ctl' = Passed(ret)
    BY <1>7 DEF FieldDone
  <2> HIDE DEF f
  <2> QED
    BY <1>0, <2>1, <2>4, <2>5, ScopePassed
<1> QED
  BY <1>2, <1>3, <1>4, <1>5, <1>6, <1>7 DEF FieldStep

\* run_struct opens a structure, whoever calls it.
LEMMA EnterRead ==
  ASSUME IInv, ScopeInv, NEW p \in ProgId, NEW pos \in Nat, NEW limit \in Nat, NEW win \in SUBSET Nat,
         Enter(p, pos, limit, win)
  PROVE  ScopeInv'
<1>1. CASE Fail("Depth", pos)
  BY <1>1, ScopeFail
<1>2. CASE ctl' = Append(ctl, StructEntry(p, pos, limit, win)) /\ frames' = Append(frames, NewFrame)
  <2> DEFINE e == StructEntry(p, pos, limit, win)
  <2>1. Len(frames) \in Nat
    BY DEF IInv, TypeOK
  <2>2. e \in Entry /\ e.k = "struct" /\ e.depth = Len(frames) + 1
    BY <2>1 DEF StructEntry, Entry
  <2> HIDE DEF e
  <2>3. ctl' = Append(ctl, e)
    BY <1>2 DEF e
  <2> QED
    BY <1>2, <2>2, <2>3, ScopeOpen
<1> QED
  BY <1>1, <1>2 DEF Enter

\* op_value: only a nested structure and an array open an activation.
LEMMA ValueScope == ASSUME IInv, ScopeInv, ValueStep PROVE ScopeInv'
<1>1. ASSUME NEW end, NEW v, Return(end, v) PROVE ScopeInv'
  BY <1>1, ScopeSame DEF Return
<1>2. ASSUME ValNest PROVE ScopeInv'
  <2>1. mode = "value" /\ ctl # <<>> /\ Op.prog \in ProgId
    BY <1>2, AtValueFacts DEF ValNest, OpOk
  <2>2. here.pos \in Nat /\ here.limit \in Nat
    BY <2>1, HereFacts
  <2>3. CASE Enter(Op.prog, here.pos, here.limit, {})
    BY <2>1, <2>2, <2>3, EnterRead
  <2>4. ASSUME NEW len \in Op.size,
               \E sz \in {EvalLen(len.expr)} :
               \/ sz.kind # "Ok" /\ Fail(sz.kind, here.pos)
               \/ sz.kind = "Ok" /\ ~Fits(sz.v) /\ Short(sz.v)
               \/ /\ sz.kind = "Ok" /\ Fits(sz.v)
                  /\ Enter(Op.prog, here.pos, here.pos + sz.v, {here.pos + sz.v})
        PROVE  ScopeInv'
    <3> DEFINE sz == EvalLen(len.expr)
    <3>1. sz.kind = "Ok" => sz.v \in Nat
      BY EvalLenType DEF LenResult
    <3>2. \/ sz.kind # "Ok" /\ Fail(sz.kind, here.pos)
          \/ Short(sz.v)
          \/ sz.kind = "Ok" /\ Enter(Op.prog, here.pos, here.pos + sz.v, {here.pos + sz.v})
      BY <2>4
    <3> HIDE DEF sz
    <3>3. CASE sz.kind = "Ok" /\ Enter(Op.prog, here.pos, here.pos + sz.v, {here.pos + sz.v})
      <4>1. here.pos + sz.v \in Nat
        BY <2>2, <3>1, <3>3
      <4> QED
        BY <2>1, <2>2, <3>3, <4>1, EnterRead
    <3> QED
      BY <3>2, <3>3, ScopeFail, ScopeShort
  <2> QED
    BY <1>2, <2>3, <2>4 DEF ValNest
<1>3. ASSUME ValArray PROVE ScopeInv'
  <2>1. mode = "value" /\ ctl # <<>> /\ cur \in Addr
    BY <1>3, AtValueFacts DEF ValArray
  <2>2. here.pos \in Nat /\ here.limit \in Nat /\ Len(frames) \in Nat
    BY <2>1, HereFacts DEF IInv, TypeOK
  <2> DEFINE n == IF IsGreedy(Op.count) THEN Value(UntilEof)
                  ELSE AtMost(EvalLen(Op.count.expr), Op.max_count)
  <2>3. n.kind = "Ok" => n.v \in Int
    <3>1. LenResult(AtMost(EvalLen(Op.count.expr), Op.max_count))
      BY EvalLenType, AtMostType
    <3> QED
      BY <3>1 DEF LenResult, Value, UntilEof
  <2>4. \/ Fail(n.kind, here.pos)
        \/ n.kind = "Ok" /\ ctl' = Append(ctl, ArrayEntry(cur, n.v)) /\ frames' = frames
    BY <1>3 DEF ValArray
  <2> HIDE DEF n
  <2>5. CASE n.kind = "Ok" /\ ctl' = Append(ctl, ArrayEntry(cur, n.v)) /\ frames' = frames
    <3> DEFINE e == ArrayEntry(cur, n.v)
    <3>1. e \in Entry /\ e.k = "array" /\ e.depth = Len(frames)
      BY <2>1, <2>2, <2>3, <2>5 DEF ArrayEntry, Entry
    <3> HIDE DEF e
    <3>2. ctl' = Append(ctl, e)
      BY <2>5 DEF e
    <3> QED
      BY <2>5, <3>1, <3>2, ScopeOpen
  <2> QED
    BY <2>4, <2>5, ScopeFail
<1>4. ASSUME ValFixed \/ ValBytes \/ ValStr PROVE ScopeInv'
  BY <1>1, <1>4, ScopeFail, ScopeShort DEF ValFixed, ValBytes, ValStr, FailItem
<1>5. ASSUME ValCStr PROVE ScopeInv'
  BY <1>1, <1>5, ScopeFail, ScopeShort DEF ValCStr
<1>6. ASSUME ValFlags PROVE ScopeInv'
  BY <1>1, <1>6, ScopeFail, ScopeShort DEF ValFlags
<1>7. ASSUME ValSwitch PROVE ScopeInv'
  BY <1>7, ScopeFail, ScopeSame DEF ValSwitch, Descend
<1> QED
  BY <1>2, <1>3, <1>4, <1>5, <1>6, <1>7 DEF ValueStep

\* The elements of an array, and the end of a structure.
LEMMA RestScope == ASSUME IInv, ScopeInv, Call \/ ArrayStep \/ LeaveStruct PROVE ScopeInv'
<1>1. ASSUME Call PROVE ScopeInv'
  <2>1. req.root \in ProgId /\ Origin \in Nat /\ Len(buf) \in Nat
    BY DEF IInv, TypeOK, Origin, MinOf
  <2> QED
    BY <1>1, <2>1, EnterRead DEF Call
<1>2. ASSUME ElemNext PROVE ScopeInv'
  BY <1>2, ScopeFail, ScopeSame DEF ElemNext, Descend
<1>3. ASSUME ElemDone PROVE ScopeInv'
  <2>1. ctl # <<>> /\ ret \in Nat /\ here.pos <= ret
    BY <1>3 DEF ElemDone, InArray, IInv, TypeOK, InWindows
  <2> QED
    BY <1>3, <2>1, ScopePassed DEF ElemDone
<1>4. ASSUME ArrayEnd PROVE ScopeInv'
  <2>1. ctl # <<>> /\ here.k = "array" /\ ctl' = Front(ctl) /\ frames' = frames
    BY <1>4 DEF ArrayEnd, InArray
  <2> QED
    BY <2>1, ScopeClose
<1>5. ASSUME LeaveStruct PROVE ScopeInv'
  <2>1. ctl # <<>> /\ here.k = "struct"
    BY <1>5 DEF LeaveStruct, InStruct
  <2>2. \/ \E kind, at : Fail(kind, at)
        \/ \E v : Stop("Ok", "Ok", here.pos, v)
        \/ ctl' = Front(ctl) /\ frames' = Front(frames)
    BY <1>5 DEF LeaveStruct
  <2> QED
    BY <2>1, <2>2, ScopeFail, ScopeStop, ScopeClose
<1> QED
  BY <1>1, <1>2, <1>3, <1>4, <1>5 DEF ArrayStep

LEMMA ScopeStep == ASSUME IInv, ScopeInv, [Next]_vars PROVE ScopeInv'
<1>1. CASE UNCHANGED vars
  BY <1>1, ScopeSame DEF vars
<1> QED
  BY <1>1, FieldScope, ValueScope, RestScope DEF Next, Step, Returned

\* The decoder's invariants hold together in every reachable state: run_with
\* and everything it calls, on every program, buffer and limit.
THEOREM Invariance == Spec => []IInv
  BY InitOk, StepOk, PTL DEF Spec

\* Every structure's spans lie in what it has read, in every reachable state.
THEOREM ScopesRead == Spec => []ScopeInv
<1>1. Init => ScopeInv
  BY DEF Init, ScopeInv, OwnFrames, SpansRead
<1>2. IInv /\ ScopeInv /\ [Next]_vars => ScopeInv'
  BY ScopeStep
<1> QED
  BY <1>1, <1>2, Invariance, PTL DEF Spec

\* The decoder's state is well typed: registers only ever hold i64s, and
\* what runs is always an opcode of the compiled program.
THEOREM TypeCorrect == Spec => []TypeOK
<1>1. IInv => TypeOK
  BY DEF IInv
<1> QED
  BY <1>1, Invariance, PTL

\* Every read of run_op and op_value stays inside the innermost window, and
\* windows nest: no position subtraction underflows, no slice is out of range.
THEOREM ReadsInWindows == Spec => []InWindows
<1>1. IInv => InWindows
  BY DEF IInv
<1> QED
  BY <1>1, Invariance, PTL

\* Deferred::compute only slices bytes that its own structure has read: every
\* deferred digest and every recorded span lies between the structure's start
\* and its position.
THEOREM DigestsCoverRead == Spec => []DigestsInside
<1>1. IInv /\ ScopeInv => DigestsInside
  BY DEF IInv, ScopeInv, DigestsInBuffer, SpansRead, SpansOf, DigestsInside
<1> QED
  BY <1>1, Invariance, ScopesRead, PTL

\* run_struct keeps one frame per open structure, at most MAX_DEPTH.
THEOREM DepthBounded == Spec => []FramesMatch
<1>1. IInv => FramesMatch
  BY DEF IInv
<1> QED
  BY <1>1, Invariance, PTL

\* The Outcome of run_with refers to the caller's buffer, and Incomplete asks
\* for at least one more byte.
THEOREM OutcomeSound == Spec => []OutcomeInBuffer
<1>1. IInv => OutcomeInBuffer
  BY DEF IInv
<1> QED
  BY <1>1, Invariance, PTL

(***************************************************************************)
(* collect_op_keys.  It is recursive: that a function which satisfies its  *)
(* equation exists is shown from the opcodes reachable from an address.    *)
(***************************************************************************)
ClosedInside(S) == \A a \in S : Inside(Code[a]) \subseteq S
Reach(a) == {b \in Addr : \A S \in SUBSET Addr : a \in S /\ ClosedInside(S) => b \in S}

Collects(f) ==
  f = [a \in DOMAIN Code |-> OpKeys(Code[a]) \cup UNION {f[b] : b \in Inside(Code[a])}]

LEMMA InsideAddr == \A a \in Addr : Inside(Code[a]) \subseteq Addr
<1> SUFFICES ASSUME NEW a \in Addr, NEW b \in Inside(Code[a]) PROVE b \in Addr
  OBVIOUS
<1>1. OpOk(Code[a]) /\ Prog \in [ProgId -> Seq(Addr)]
  BY ProgramAssumption
<1>2. CASE Code[a].op = "Nest"
  <2>1. b \in Range(Prog[Code[a].prog]) /\ Prog[Code[a].prog] \in Seq(Addr)
    BY <1>1, <1>2 DEF Inside, OpOk
  <2> QED
    BY <2>1 DEF Range
<1>3. CASE Code[a].op = "Array"
  BY <1>1, <1>3 DEF Inside, OpOk
<1>4. CASE Code[a].op = "Switch"
  BY <1>1, <1>4 DEF Inside, OpOk
<1>5. CASE Code[a].op = "Cond"
  BY <1>1, <1>5 DEF Inside, OpOk
<1>6. CASE Code[a].op \notin {"Nest", "Array", "Switch", "Cond"}
  BY <1>6 DEF Inside
<1> QED
  BY <1>2, <1>3, <1>4, <1>5, <1>6

LEMMA ReachInside ==
  ASSUME NEW a \in Addr
  PROVE  Reach(a) = {a} \cup UNION {Reach(b) : b \in Inside(Code[a])}
<1> DEFINE T == {a} \cup UNION {Reach(b) : b \in Inside(Code[a])}
<1>1. ASSUME NEW b \in Addr PROVE b \in Reach(b) /\ \A c \in Reach(b) : Inside(Code[c]) \subseteq Reach(b)
  BY InsideAddr DEF Reach, ClosedInside
<1>2. T \in SUBSET Addr
  BY DEF Reach
<1>3. ClosedInside(T)
  <2> SUFFICES ASSUME NEW c \in T, NEW d \in Inside(Code[c]) PROVE d \in T
    BY DEF ClosedInside
  <2>1. CASE c = a
    BY <2>1, <1>1, InsideAddr
  <2>2. CASE c # a
    <3>1. PICK b \in Inside(Code[a]) : c \in Reach(b)
      BY <2>2
    <3>2. d \in Reach(b)
      BY <3>1, <1>1, InsideAddr
    <3> QED
      BY <3>1, <3>2
  <2> QED
    BY <2>1, <2>2
<1>4. Reach(a) \subseteq T
  BY <1>2, <1>3 DEF Reach
<1>5. ASSUME NEW b \in Inside(Code[a]), NEW c \in Reach(b) PROVE c \in Reach(a)
  BY <1>5 DEF Reach, ClosedInside
<1> QED
  BY <1>1, <1>4, <1>5

LEMMA CollectsExists == \E f : Collects(f)
<1> DEFINE f == [a \in DOMAIN Code |-> UNION {OpKeys(Code[b]) : b \in Reach(a)}]
<1>1. ASSUME NEW a \in Addr
      PROVE  f[a] = OpKeys(Code[a]) \cup UNION {f[b] : b \in Inside(Code[a])}
  <2>1. \A b \in Inside(Code[a]) : f[b] = UNION {OpKeys(Code[c]) : c \in Reach(b)}
    BY InsideAddr DEF Addr
  <2>2. f[a] = UNION {OpKeys(Code[b]) : b \in Reach(a)}
    BY DEF Addr
  <2>3. Reach(a) = {a} \cup UNION {Reach(b) : b \in Inside(Code[a])}
    BY ReachInside
  <2> HIDE DEF f
  <2>4. UNION {f[b] : b \in Inside(Code[a])} = UNION {OpKeys(Code[c]) : c \in UNION {Reach(b) : b \in Inside(Code[a])}}
    BY <2>1
  <2> QED
    BY <2>2, <2>3, <2>4
<1>2. Collects(f)
  BY <1>1 DEF Collects, Addr
<1> QED
  BY <1>2

LEMMA Collected ==
  \A a \in Addr : collect_op_keys[a] = OpKeys(Code[a]) \cup UNION {collect_op_keys[b] : b \in Inside(Code[a])}
<1>1. Collects(collect_op_keys)
  BY CollectsExists DEF Collects, collect_op_keys
<1> QED
  BY <1>1 DEF Collects, Addr

(***************************************************************************)
(* Being within the cache of a root passes from an opcode to those inside. *)
(***************************************************************************)
Within(root, a) == a \in Addr /\ collect_op_keys[a] \subseteq build_key_cache(root)

Fields(root, p) == p \in ProgId /\ \A i \in DOMAIN Prog[p] : Within(root, Prog[p][i])

LEMMA WithinInside ==
  ASSUME NEW root, NEW a, Within(root, a)
  PROVE  /\ OpKeys(Code[a]) \subseteq build_key_cache(root)
         /\ \A b \in Inside(Code[a]) : Within(root, b)
<1>1. a \in Addr /\ collect_op_keys[a] \subseteq build_key_cache(root)
  BY DEF Within
<1>2. collect_op_keys[a] = OpKeys(Code[a]) \cup UNION {collect_op_keys[b] : b \in Inside(Code[a])}
  BY <1>1, Collected
<1>3. \A b \in Inside(Code[a]) : b \in Addr /\ collect_op_keys[b] \subseteq collect_op_keys[a]
  BY <1>1, <1>2, InsideAddr
<1> QED
  BY <1>1, <1>2, <1>3 DEF Within

LEMMA WithinParts ==
  ASSUME NEW root, NEW a, Within(root, a)
  PROVE  /\ Code[a].op = "Nest" => Fields(root, Code[a].prog)
         /\ Code[a].op = "Array" => Within(root, Code[a].elem)
         /\ Code[a].op = "Cond" => Within(root, Code[a].then)
         /\ Code[a].op = "Switch" =>
              /\ \A i \in DOMAIN Code[a].cases : Within(root, Code[a].cases[i].to)
              /\ \A b \in Code[a].default : Within(root, b)
<1>1. \A b \in Inside(Code[a]) : Within(root, b)
  BY WithinInside
<1>2. OpOk(Code[a])
  BY ProgramAssumption DEF Within
<1>3. CASE Code[a].op = "Nest"
  <2>1. Code[a].prog \in ProgId /\ Inside(Code[a]) = Range(Prog[Code[a].prog])
    BY <1>2, <1>3 DEF OpOk, Inside
  <2> QED
    BY <1>1, <1>3, <2>1 DEF Fields, Range
<1>4. CASE Code[a].op # "Nest"
  BY <1>1, <1>4 DEF Inside
<1> QED
  BY <1>3, <1>4

LEMMA RootWithin == ASSUME NEW root \in ProgId PROVE Fields(root, root)
<1>1. Prog[root] \in Seq(Addr)
  BY ProgramAssumption
<1>2. ASSUME NEW i \in DOMAIN Prog[root] PROVE Within(root, Prog[root][i])
  <2>1. Prog[root][i] \in Addr /\ Prog[root][i] \in Range(Prog[root])
    BY <1>1 DEF Range
  <2> QED
    BY <2>1 DEF Within, build_key_cache
<1> QED
  BY <1>2 DEF Fields

LEMMA OpAtField ==
  ASSUME NEW root, NEW p, Fields(root, p), NEW i \in Nat \ {0}, i <= Len(Prog[p])
  PROVE  Within(root, Prog[p][i])
<1>1. Prog[p] \in Seq(Addr)
  BY ProgramAssumption DEF Fields
<1>2. i \in DOMAIN Prog[p]
  BY <1>1
<1> QED
  BY <1>2 DEF Fields

(***************************************************************************)
(* Activations, of either interpreter.                                     *)
(***************************************************************************)
EntryWithin(root, e) ==
  /\ {"k", "id", "i"} \subseteq DOMAIN e
  /\ e.k \in {"struct", "array"}
  /\ e.k = "struct" => Fields(root, e.id) /\ e.i \in Nat \ {0}
  /\ e.k = "array" => Within(root, e.id) /\ Code[e.id].op = "Array"

ActsWithin(root, s) == Stack(s) /\ \A i \in DOMAIN s : EntryWithin(root, s[i])

LEMMA ActsTop ==
  ASSUME NEW root, NEW s, ActsWithin(root, s), s # <<>>
  PROVE  /\ EntryWithin(root, Last(s))
         /\ ActsWithin(root, Front(s))
<1>1. /\ Len(s) \in Nat /\ Len(s) >= 1 /\ DOMAIN s = 1 .. Len(s) /\ Last(s) = s[Len(s)]
      /\ Stack(Front(s)) /\ DOMAIN Front(s) = 1 .. (Len(s) - 1)
      /\ \A i \in 1 .. (Len(s) - 1) : Front(s)[i] = s[i]
  BY StackPop DEF ActsWithin
<1>2. Len(s) \in DOMAIN s /\ \A i \in 1 .. (Len(s) - 1) : i \in DOMAIN s
  BY <1>1
<1> QED
  BY <1>1, <1>2 DEF ActsWithin

LEMMA ActsPush ==
  ASSUME NEW root, NEW s, ActsWithin(root, s), NEW e, EntryWithin(root, e)
  PROVE  ActsWithin(root, Append(s, e))
<1>1. /\ Stack(Append(s, e))
      /\ Len(s) \in Nat /\ DOMAIN s = 1 .. Len(s)
      /\ DOMAIN Append(s, e) = 1 .. (Len(s) + 1)
      /\ \A i \in 1 .. Len(s) : Append(s, e)[i] = s[i]
      /\ Append(s, e)[Len(s) + 1] = e
  BY StackPush DEF ActsWithin
<1>2. \A i \in 1 .. (Len(s) + 1) : i \in 1 .. Len(s) \/ i = Len(s) + 1
  BY <1>1
<1> QED
  BY <1>1, <1>2 DEF ActsWithin

LEMMA ActsSet ==
  ASSUME NEW root, NEW s, ActsWithin(root, s), s # <<>>, NEW e, EntryWithin(root, e)
  PROVE  ActsWithin(root, SetTop(s, e))
<1>1. SetTop(s, e) = Topped(s, e)
  BY DEF SetTop, Topped
<1>2. /\ Stack(Topped(s, e))
      /\ DOMAIN Topped(s, e) = 1 .. Len(s)
      /\ \A i \in 1 .. (Len(s) - 1) : Topped(s, e)[i] = s[i]
      /\ Topped(s, e)[Len(s)] = e
  BY StackUpdate DEF ActsWithin
<1>3. Len(s) \in Nat /\ DOMAIN s = 1 .. Len(s)
  BY StackPop DEF ActsWithin
<1>4. \A i \in 1 .. Len(s) : i = Len(s) \/ i \in 1 .. (Len(s) - 1)
  BY <1>3, TopOrBelow
<1> QED
  BY <1>1, <1>2, <1>3, <1>4 DEF ActsWithin

\* The same activation, further on.
Later(e, f) ==
  /\ {"k", "id", "i"} \subseteq DOMAIN f
  /\ f.k = e.k /\ f.id = e.id
  /\ e.k = "struct" => f.i = e.i \/ f.i = e.i + 1

LEMMA LaterWithin ==
  ASSUME NEW root, NEW e, NEW f, EntryWithin(root, e), Later(e, f)
  PROVE  EntryWithin(root, f)
  BY DEF EntryWithin, Later

(***************************************************************************)
(* The encoder.                                                            *)
(***************************************************************************)
EncoderKeys ==
  /\ ActsWithin(input.root, pctl)
  /\ pmode \in {"idle", "done"} => pctl = <<>>
  /\ pmode = "value" => Within(input.root, pcur)

LEMMA NoActs == ASSUME NEW root PROVE ActsWithin(root, <<>>)
<1>1. Stack(<<>>)
  BY DEF Stack
<1> QED
  BY <1>1 DEF ActsWithin

LEMMA PStopKeys == ASSUME NEW tag, NEW kind, NEW o, PStop(tag, kind, o) PROVE EncoderKeys'
<1>1. pctl' = <<>> /\ pmode' = "done"
  BY DEF PStop
<1> QED
  BY <1>1, NoActs DEF EncoderKeys

LEMMA PFailKeys == ASSUME NEW kind, PFail(kind) PROVE EncoderKeys'
  BY PStopKeys DEF PFail

LEMMA FirstFaultKeys == ASSUME NEW faults, FirstFault(faults) PROVE EncoderKeys'
  BY PFailKeys DEF FirstFault

\* The activation that goes on, and the opcode it is at.
LEMMA PackTop ==
  ASSUME EncoderKeys, pctl # <<>>
  PROVE  /\ EntryWithin(input.root, pack)
         /\ ActsWithin(input.root, Front(pctl))
         /\ PInStruct \/ PInArray
         /\ PInStruct /\ PMoreOps => Within(input.root, PNextAddr)
<1>1. EntryWithin(input.root, pack) /\ ActsWithin(input.root, Front(pctl))
  BY ActsTop DEF EncoderKeys, pack
<1>2. PInStruct \/ PInArray
  BY <1>1 DEF EntryWithin, PInStruct, PInArray
<1>3. PInStruct /\ PMoreOps => Within(input.root, PNextAddr)
  BY <1>1, OpAtField DEF EntryWithin, PInStruct, PMoreOps, PNextAddr
<1> QED
  BY <1>1, <1>2, <1>3

LEMMA PackLater ==
  ASSUME EncoderKeys, pctl # <<>>, NEW e, Later(pack, e)
  PROVE  ActsWithin(input.root, SetTop(pctl, e))
<1>1. EntryWithin(input.root, e)
  BY PackTop, LaterWithin
<1> QED
  BY <1>1, ActsSet DEF EncoderKeys

LEMMA PPassedWithin ==
  ASSUME EncoderKeys, pctl # <<>>
  PROVE  ActsWithin(input.root, PPassed)
<1>1. Later(pack, [pack EXCEPT !.i = @ + 1])
  BY PackTop DEF Later, EntryWithin
<1> QED
  BY <1>1, PackLater DEF PPassed

LEMMA AfterPatchKeys ==
  ASSUME NEW r, NEW c, ActsWithin(input.root, c), AfterPatch(r, c)
  PROVE  EncoderKeys'
<1>1. CASE PFail(r.kind)
  BY <1>1, PFailKeys
<1>2. CASE pmode' = "ret" /\ pctl' = c /\ UNCHANGED input
  BY <1>2 DEF EncoderKeys
<1> QED
  BY <1>1, <1>2 DEF AfterPatch

LEMMA EnterScopeKeys ==
  ASSUME EncoderKeys, NEW p, Fields(input.root, p), NEW via, NEW v, EnterScope(p, via, v)
  PROVE  EncoderKeys'
<1>1. CASE PFail("Type")
  BY <1>1, PFailKeys
<1>2. ASSUME NEW e, e.k = "struct", e.id = p, e.i = 1, {"k", "id", "i"} \subseteq DOMAIN e,
             pmode' = "step", pctl' = Append(pctl, e), UNCHANGED input
      PROVE  EncoderKeys'
  <2>1. EntryWithin(input.root, e)
    BY <1>2 DEF EntryWithin
  <2>2. ActsWithin(input.root, Append(pctl, e))
    BY <2>1, ActsPush DEF EncoderKeys
  <2> QED
    BY <1>2, <2>2 DEF EncoderKeys
<1> QED
  BY <1>1, <1>2 DEF EnterScope

LEMMA PackValueKeys ==
  ASSUME NEW a, Within(input.root, a), NEW v, NEW c, ActsWithin(input.root, c),
         PackValue(a, v, c)
  PROVE  EncoderKeys'
  BY DEF PackValue, EncoderKeys

LEMMA PackNamedKeys ==
  ASSUME EncoderKeys, pctl # <<>>, NEW a, Within(input.root, a), PackNamed(a)
  PROVE  EncoderKeys'
<1>1. CASE PFail("Missing")
  BY <1>1, PFailKeys
<1>2. ASSUME NEW x, PackValue(a, x, SetTop(pctl, [pack EXCEPT !.from = Len(out)]))
      PROVE  EncoderKeys'
  <2>1. Later(pack, [pack EXCEPT !.from = Len(out)])
    BY PackTop DEF Later, EntryWithin
  <2> QED
    BY <1>2, <2>1, PackLater, PackValueKeys
<1> QED
  BY <1>1, <1>2 DEF PackNamed

\* A run, a digest or an absent field: the structure has passed it.
LEMMA PassesKeys ==
  ASSUME EncoderKeys, pctl # <<>>, pctl' = PPassed, pmode' = "step", UNCHANGED input
  PROVE  EncoderKeys'
  BY PPassedWithin DEF EncoderKeys

LEMMA PutFieldKeys == ASSUME EncoderKeys, PutField PROVE EncoderKeys'
<1>1. CASE PutFixed
  <2>1. pctl # <<>> /\ pmode = "step"
    BY <1>1 DEF PutFixed, PAtField, PInStruct
  <2>2. (\E faults : FirstFault(faults)) \/ (pctl' = PPassed /\ UNCHANGED <<input, pmode>>)
    BY <1>1 DEF PutFixed
  <2> QED
    BY <2>1, <2>2, FirstFaultKeys, PassesKeys
<1>2. CASE PutBits
  <2>1. pctl # <<>> /\ pmode = "step"
    BY <1>2 DEF PutBits, PAtField, PInStruct
  <2>2. (\E faults : FirstFault(faults)) \/ (pctl' = PPassed /\ UNCHANGED <<input, pmode>>)
    BY <1>2 DEF PutBits
  <2> QED
    BY <2>1, <2>2, FirstFaultKeys, PassesKeys
<1>3. CASE PutDigest
  BY <1>3, PassesKeys DEF PutDigest, PAtField, PInStruct
<1>4. CASE PutCond
  <2>1. pctl # <<>> /\ pmode = "step" /\ PInStruct /\ PMoreOps /\ PFieldOp.op = "Cond"
    BY <1>4 DEF PutCond, PAtField, PInStruct
  <2>2. Within(input.root, PFieldOp.then)
    BY <2>1, PackTop, WithinParts DEF PFieldOp
  <2>3. (\E kind : PFail(kind)) \/ PackNamed(PFieldOp.then) \/ (pctl' = PPassed /\ UNCHANGED <<input, pmode>>)
    BY <1>4 DEF PutCond
  <2> QED
    BY <2>1, <2>2, <2>3, PFailKeys, PackNamedKeys, PassesKeys
<1>5. CASE PutOther
  <2>1. pctl # <<>> /\ PInStruct /\ PMoreOps /\ PackNamed(PNextAddr)
    BY <1>5 DEF PutOther, PAtField, PInStruct
  <2> QED
    BY <2>1, PackTop, PackNamedKeys
<1>6. CASE PutDone
  BY <1>6, PassesKeys DEF PutDone, PInStruct
<1> QED
  BY <1>1, <1>2, <1>3, <1>4, <1>5, <1>6 DEF PutField

\* Bytes, strings and numbers end with a patch.
LEMMA ExtendKeys ==
  ASSUME EncoderKeys, NEW raw, NEW len, Extend(raw, len)
  PROVE  EncoderKeys'
  BY AfterPatchKeys DEF Extend, EncoderKeys

LEMMA PackScalarKeys ==
  ASSUME EncoderKeys, PackFixed \/ PackBytes \/ PackStr \/ PackCStr \/ PackFlags
  PROVE  EncoderKeys'
<1>1. \/ \E kind : PFail(kind)
      \/ \E faults : FirstFault(faults)
      \/ \E raw, len : Extend(raw, len)
  <2>1. CASE PackFixed
    BY <2>1 DEF PackFixed
  <2>2. CASE PackBytes
    BY <2>2 DEF PackBytes
  <2>3. CASE PackStr
    BY <2>3 DEF PackStr
  <2>4. CASE PackCStr
    BY <2>4 DEF PackCStr
  <2>5. CASE PackFlags
    BY <2>5 DEF PackFlags
  <2> QED
    BY <2>1, <2>2, <2>3, <2>4, <2>5
<1> QED
  BY <1>1, PFailKeys, FirstFaultKeys, ExtendKeys

LEMMA PutValueKeys == ASSUME EncoderKeys, PutValue PROVE EncoderKeys'
<1>1. pmode = "value" /\ Within(input.root, pcur) /\ ActsWithin(input.root, pctl)
  <2>1. pmode = "value"
    BY DEF PutValue, PackFixed, PackBytes, PackStr, PackCStr, PackFlags, PackNest, PackArray,
           PackSwitch, PAtValue
  <2> QED
    BY <2>1 DEF EncoderKeys
<1>2. CASE PackFixed \/ PackBytes \/ PackStr \/ PackCStr \/ PackFlags
  BY <1>1, <1>2, PackScalarKeys
<1>3. CASE PackNest
  <2>1. Fields(input.root, POp.prog)
    BY <1>1, <1>3, WithinParts DEF PackNest, PAtValue, POp
  <2> QED
    BY <1>3, <2>1, EnterScopeKeys DEF PackNest
<1>4. CASE PackArray
  <2>1. CASE PFail("Type")
    BY <2>1, PFailKeys
  <2>2. ASSUME NEW e, e.k = "array", e.id = pcur, {"k", "id", "i"} \subseteq DOMAIN e,
               pmode' = "step", pctl' = Append(pctl, e), UNCHANGED input
        PROVE  EncoderKeys'
    <3>1. EntryWithin(input.root, e)
      BY <1>1, <1>4, <2>2 DEF EntryWithin, PackArray, PAtValue, POp
    <3>2. ActsWithin(input.root, Append(pctl, e))
      BY <1>1, <3>1, ActsPush
    <3> QED
      BY <2>2, <3>2 DEF EncoderKeys
  <2> QED
    BY <1>4, <2>1, <2>2 DEF PackArray
<1>5. CASE PackSwitch
  <2>1. /\ \A i \in DOMAIN POp.cases : Within(input.root, POp.cases[i].to)
        /\ \A b \in POp.default : Within(input.root, b)
    BY <1>1, <1>5, WithinParts DEF PackSwitch, PAtValue, POp
  <2>2. \/ \E kind : PFail(kind)
        \/ \E a : Within(input.root, a) /\ PackValue(a, arg, pctl)
    BY <1>5, <2>1 DEF PackSwitch
  <2> QED
    BY <1>1, <2>2, PFailKeys, PackValueKeys
<1> QED
  BY <1>2, <1>3, <1>4, <1>5 DEF PutValue

LEMMA PutArrayKeys == ASSUME EncoderKeys, PutArray PROVE EncoderKeys'
<1>1. CASE PutElem
  <2>1. pctl # <<>> /\ pack.k = "array"
    BY <1>1 DEF PutElem, PInArray
  <2>2. Within(input.root, Code[pack.id].elem)
    BY <2>1, PackTop, WithinParts DEF EntryWithin
  <2> QED
    BY <1>1, <2>1, <2>2, PackValueKeys DEF PutElem, EncoderKeys
<1>2. CASE PutElemDone
  BY <1>2, PassesKeys DEF PutElemDone, PInArray
<1>3. CASE PutArrayEnd
  <2>1. ActsWithin(input.root, Front(pctl))
    BY <1>3, PackTop DEF PutArrayEnd, PInArray
  <2> QED
    BY <1>3, <2>1, AfterPatchKeys DEF PutArrayEnd
<1> QED
  BY <1>1, <1>2, <1>3 DEF PutArray

LEMMA LeaveScopeKeys == ASSUME EncoderKeys, LeaveScope PROVE EncoderKeys'
<1>1. ActsWithin(input.root, Front(pctl))
  BY PackTop DEF LeaveScope, PInStruct
<1>2. \/ \E tag, kind, o : PStop(tag, kind, o)
      \/ \E kind : PFail(kind)
      \/ \E r : AfterPatch(r, Front(pctl))
  BY DEF LeaveScope, Deliver
<1> QED
  BY <1>1, <1>2, PStopKeys, PFailKeys, AfterPatchKeys

LEMMA InputKept == ASSUME PackStep PROVE input' = input
<1>1. ASSUME NEW kind, PFail(kind) PROVE input' = input
  BY <1>1 DEF PFail, PStop
<1>2. ASSUME NEW r, NEW c, AfterPatch(r, c) PROVE input' = input
  BY <1>1, <1>2 DEF AfterPatch
<1>3. ASSUME NEW faults, FirstFault(faults) PROVE input' = input
  BY <1>1, <1>3 DEF FirstFault
<1>4. ASSUME NEW p, NEW via, NEW v, EnterScope(p, via, v) PROVE input' = input
  BY <1>1, <1>4 DEF EnterScope
<1>5. ASSUME NEW a, PackNamed(a) PROVE input' = input
  BY <1>1, <1>5 DEF PackNamed, PackValue
<1>6. ASSUME PutField PROVE input' = input
  <2>1. CASE PutFixed
    BY <2>1, <1>3 DEF PutFixed
  <2>2. CASE PutBits
    BY <2>2, <1>3 DEF PutBits
  <2>3. CASE PutDigest \/ PutDone
    BY <2>3 DEF PutDigest, PutDone
  <2>4. CASE PutCond
    BY <2>4, <1>1, <1>5 DEF PutCond
  <2>5. CASE PutOther
    BY <2>5, <1>5 DEF PutOther
  <2> QED
    BY <1>6, <2>1, <2>2, <2>3, <2>4, <2>5 DEF PutField
<1>7. ASSUME PutValue PROVE input' = input
  <2>1. ASSUME NEW raw, NEW len, Extend(raw, len) PROVE input' = input
    BY <2>1, <1>2 DEF Extend
  <2>2. CASE PackFixed
    BY <2>2, <1>1, <2>1 DEF PackFixed
  <2>3. CASE PackBytes
    BY <2>3, <1>1, <2>1 DEF PackBytes
  <2>4. CASE PackStr
    BY <2>4, <1>1, <2>1 DEF PackStr
  <2>5. CASE PackCStr
    BY <2>5, <1>1, <2>1 DEF PackCStr
  <2>6. CASE PackFlags
    BY <2>6, <1>1, <1>3, <2>1 DEF PackFlags
  <2>7. CASE PackNest
    BY <2>7, <1>4 DEF PackNest
  <2>8. CASE PackArray
    BY <2>8, <1>1 DEF PackArray
  <2>9. CASE PackSwitch
    BY <2>9, <1>1 DEF PackSwitch, PackValue
  <2> QED
    BY <1>7, <2>2, <2>3, <2>4, <2>5, <2>6, <2>7, <2>8, <2>9 DEF PutValue
<1>8. ASSUME PutArray PROVE input' = input
  BY <1>8, <1>2 DEF PutArray, PutElem, PutElemDone, PutArrayEnd, PackValue
<1>9. ASSUME LeaveScope PROVE input' = input
  BY <1>9, <1>1, <1>2 DEF LeaveScope, Deliver, PStop
<1> QED
  BY <1>4, <1>6, <1>7, <1>8, <1>9 DEF PackStep, PackCall

LEMMA EncoderStays == ASSUME EncoderKeys, input.root \in ProgId, PackStep PROVE EncoderKeys'
<1>1. ASSUME PackCall PROVE EncoderKeys'
  BY <1>1, RootWithin, EnterScopeKeys DEF PackCall
<1> QED
  BY <1>1, PutFieldKeys, PutValueKeys, PutArrayKeys, LeaveScopeKeys DEF PackStep

(***************************************************************************)
(* The decoder.  A structure that waits for a value is at a field that has *)
(* one, whose key is the field's own.                                      *)
(***************************************************************************)
Keys == build_key_cache(req.root)

Waits(e) ==
  e.k = "struct" => e.i <= Len(Prog[e.id]) /\ Code[Prog[e.id][e.i]].op \notin {"Fixed", "BitRun"}

Named(v) == v[1] = "map" => DOMAIN v[2] \subseteq Keys

\* A value to decode: an unnamed Fixed has an item.
Ready(a) == Within(req.root, a) /\ (Code[a].op = "Fixed" => Code[a].items # <<>>)

DecoderKeys ==
  /\ req.root \in ProgId
  /\ mode \in {"idle", "done"} => ctl = <<>>
  /\ ActsWithin(req.root, ctl)
  /\ Stack(vals) /\ Len(vals) = Len(ctl)
  /\ \A i \in DOMAIN ctl : ctl[i].k = "struct" => DOMAIN vals[i] \subseteq Keys
  /\ \A i \in DOMAIN ctl : i < Len(ctl) \/ mode \in {"value", "ret"} => Waits(ctl[i])
  /\ mode = "value" => Ready(cur)
  /\ Named(val)

LEMMA EmptyStack == Stack(<<>>) /\ Len(<<>>) = 0
  BY DEF Stack

LEMMA NoValNamed == Named(NoVal)
  BY DEF Named, NoVal

LEMMA StopKeys ==
  ASSUME req.root \in ProgId, NEW tag, NEW kind, NEW at, NEW v, Named(v), Stop(tag, kind, at, v)
  PROVE  DecoderKeys'
<1>1. mode' = "done" /\ ctl' = <<>> /\ vals' = <<>> /\ val' = v /\ req' = req
  BY DEF Stop
<1>2. ActsWithin(req'.root, <<>>) /\ Stack(<<>>)
  BY NoActs, EmptyStack
<1>3. Named(val)'
  BY <1>1 DEF Named, Keys
<1> QED
  BY <1>1, <1>2, <1>3 DEF DecoderKeys

LEMMA FailKeys == ASSUME req.root \in ProgId, NEW kind, NEW at, Fail(kind, at) PROVE DecoderKeys'
  BY StopKeys, NoValNamed DEF Fail

LEMMA ShortKeys == ASSUME req.root \in ProgId, NEW n, Short(n) PROVE DecoderKeys'
  BY FailKeys, StopKeys, NoValNamed DEF Short, Starve

LEMMA StarveKeys == ASSUME req.root \in ProgId, NEW n, Starve(n) PROVE DecoderKeys'
  BY FailKeys, StopKeys, NoValNamed DEF Starve

\* The activation that goes on, and the opcode it is at.
LEMMA Top ==
  ASSUME DecoderKeys, ctl # <<>>
  PROVE  /\ EntryWithin(req.root, here)
         /\ here = ctl[Len(ctl)] /\ Last(vals) = vals[Len(ctl)]
         /\ Len(ctl) \in Nat /\ Len(ctl) >= 1 /\ Len(ctl) \in DOMAIN ctl /\ DOMAIN ctl = 1 .. Len(ctl)
         /\ vals # <<>> /\ Len(vals) = Len(ctl)
         /\ here.k = "struct" => DOMAIN Last(vals) \subseteq Keys
         /\ InStruct /\ MoreOps => Within(req.root, NextAddr)
<1>1. EntryWithin(req.root, here)
  BY ActsTop DEF DecoderKeys, here
<1>2. Len(ctl) \in Nat /\ Len(ctl) >= 1 /\ DOMAIN ctl = 1 .. Len(ctl) /\ here = ctl[Len(ctl)]
  BY StackPop DEF DecoderKeys, ActsWithin, here
<1>3. vals # <<>> /\ Len(vals) = Len(ctl)
  BY <1>2, EmptyStack DEF DecoderKeys
<1>4. Last(vals) = vals[Len(ctl)]
  BY <1>3, StackPop DEF DecoderKeys
<1>5. Len(ctl) \in DOMAIN ctl
  BY <1>2
<1>6. InStruct /\ MoreOps => Within(req.root, NextAddr)
  BY <1>1, OpAtField DEF EntryWithin, InStruct, MoreOps, NextAddr
<1> QED
  BY <1>1, <1>2, <1>3, <1>4, <1>5, <1>6 DEF DecoderKeys

LEMMA DescendKeys ==
  ASSUME DecoderKeys, NEW a, Ready(a), ctl # <<>> => Waits(here), Descend(a)
  PROVE  DecoderKeys'
<1>1. /\ mode' = "value" /\ cur' = a
      /\ UNCHANGED <<req, ctl, val, vals>>
  BY DEF Descend
<1>2. \A i \in DOMAIN ctl : Waits(ctl[i])
  <2> SUFFICES ASSUME ctl # <<>> PROVE \A i \in DOMAIN ctl : Waits(ctl[i])
    OBVIOUS
  <2>1. \A i \in DOMAIN ctl : i = Len(ctl) \/ i < Len(ctl)
    BY Top
  <2> QED
    BY <2>1, Top DEF DecoderKeys
<1>3. Ready(cur)' /\ Named(val)' /\ Keys' = Keys
  BY <1>1 DEF DecoderKeys, Ready, Named, Keys
<1> QED
  BY <1>1, <1>2, <1>3 DEF DecoderKeys, Waits

LEMMA ReturnKeys ==
  ASSUME DecoderKeys, mode = "value", NEW end, NEW v, Named(v), Return(end, v)
  PROVE  DecoderKeys'
<1>1. /\ mode' = "ret" /\ val' = v
      /\ UNCHANGED <<req, ctl, vals>>
  BY DEF Return
<1>2. Named(val)' /\ Keys' = Keys
  BY <1>1 DEF Named, Keys
<1> QED
  BY <1>1, <1>2 DEF DecoderKeys, Waits

\* Opening a structure or an array.
LEMMA OpenKeys ==
  ASSUME DecoderKeys, mode \in {"idle", "value"}, NEW e, EntryWithin(req.root, e),
         mode' = "step", ctl' = Append(ctl, e), vals' = Append(vals, <<>>), UNCHANGED <<req, val>>
  PROVE  DecoderKeys'
<1>1. Stack(ctl) /\ Stack(vals) /\ Len(vals) = Len(ctl)
  BY DEF DecoderKeys, ActsWithin
<1>2. /\ Len(ctl) \in Nat /\ DOMAIN ctl = 1 .. Len(ctl)
      /\ Len(ctl') = Len(ctl) + 1 /\ DOMAIN ctl' = 1 .. (Len(ctl) + 1)
      /\ \A i \in 1 .. Len(ctl) : ctl'[i] = ctl[i]
      /\ ctl'[Len(ctl) + 1] = e
  BY <1>1, StackPush
<1>3. /\ Stack(vals') /\ Len(vals') = Len(ctl) + 1
      /\ \A i \in 1 .. Len(ctl) : vals'[i] = vals[i]
      /\ vals'[Len(ctl) + 1] = <<>>
  BY <1>1, StackPush
<1>4. ActsWithin(req'.root, ctl') /\ Keys' = Keys /\ Named(val)'
  BY ActsPush DEF DecoderKeys, Keys, Named
<1>5. \A i \in 1 .. (Len(ctl) + 1) : i = Len(ctl) + 1 \/ i \in 1 .. Len(ctl)
  BY <1>2
<1>6. \A i \in DOMAIN ctl' : ctl'[i].k = "struct" => DOMAIN vals'[i] \subseteq Keys
  <2>1. DOMAIN <<>> = {}
    OBVIOUS
  <2> QED
    BY <1>2, <1>3, <1>5, <2>1 DEF DecoderKeys
<1>7. \A i \in 1 .. Len(ctl) : Waits(ctl[i])
  BY <1>2 DEF DecoderKeys
<1>8. \A i \in DOMAIN ctl' : i < Len(ctl') => Waits(ctl'[i])
  <2>1. \A i \in 1 .. (Len(ctl) + 1) : i < Len(ctl) + 1 => i \in 1 .. Len(ctl)
    BY <1>2
  <2> QED
    BY <1>2, <1>7, <2>1
<1> QED
  BY <1>2, <1>3, <1>4, <1>6, <1>8 DEF DecoderKeys, Waits

LEMMA EnterKeys ==
  ASSUME DecoderKeys, mode \in {"idle", "value"}, NEW p, Fields(req.root, p),
         NEW pos, NEW limit, NEW win, Enter(p, pos, limit, win)
  PROVE  DecoderKeys'
<1>1. CASE Fail("Depth", pos)
  BY <1>1, FailKeys DEF DecoderKeys
<1>2. CASE ~Fail("Depth", pos)
  <2>1. EntryWithin(req.root, StructEntry(p, pos, limit, win))
    BY DEF EntryWithin, StructEntry
  <2> QED
    BY <1>2, <2>1, OpenKeys DEF Enter
<1> QED
  BY <1>1, <1>2

\* The top goes on to its next field or element.
LEMMA PassKeys ==
  ASSUME DecoderKeys, ctl # <<>>, NEW e, Later(here, e), NEW m,
         here.k = "struct" => DOMAIN m \subseteq Keys,
         mode' = "step", ctl' = SetTop(ctl, e), vals' = SetTop(vals, m), UNCHANGED <<req, val>>
  PROVE  DecoderKeys'
<1>1. /\ Stack(ctl) /\ Stack(vals) /\ vals # <<>> /\ Len(vals) = Len(ctl)
      /\ Len(ctl) \in Nat /\ DOMAIN ctl = 1 .. Len(ctl)
  BY Top DEF DecoderKeys, ActsWithin
<1>2. SetTop(ctl, e) = Topped(ctl, e) /\ SetTop(vals, m) = Topped(vals, m)
  BY DEF SetTop, Topped
<1>3. /\ Len(ctl') = Len(ctl) /\ DOMAIN ctl' = 1 .. Len(ctl)
      /\ \A i \in 1 .. (Len(ctl) - 1) : ctl'[i] = ctl[i]
      /\ ctl'[Len(ctl)] = e
  BY <1>1, <1>2, StackUpdate
<1>4. /\ Stack(vals') /\ Len(vals') = Len(ctl)
      /\ \A i \in 1 .. (Len(ctl) - 1) : vals'[i] = vals[i]
      /\ vals'[Len(ctl)] = m
  BY <1>1, <1>2, StackUpdate
<1>5. EntryWithin(req.root, e)
  BY Top, LaterWithin
<1>6. ActsWithin(req'.root, ctl') /\ Keys' = Keys /\ Named(val)'
  BY <1>5, ActsSet DEF DecoderKeys, Keys, Named
<1>7. \A i \in 1 .. Len(ctl) : i = Len(ctl) \/ i \in 1 .. (Len(ctl) - 1)
  BY <1>1, TopOrBelow
<1>8. \A i \in 1 .. (Len(ctl) - 1) : i \in DOMAIN ctl /\ i < Len(ctl)
  BY <1>1
<1>9. \A i \in DOMAIN ctl' : ctl'[i].k = "struct" => DOMAIN vals'[i] \subseteq Keys
  BY <1>3, <1>4, <1>7, <1>8 DEF DecoderKeys, Later
<1>10. \A i \in DOMAIN ctl' : i < Len(ctl') => Waits(ctl'[i])
  <2>1. \A i \in 1 .. Len(ctl) : i < Len(ctl) => i \in 1 .. (Len(ctl) - 1)
    BY <1>1
  <2> QED
    BY <1>3, <1>8, <2>1 DEF DecoderKeys
<1> QED
  BY <1>3, <1>4, <1>6, <1>9, <1>10 DEF DecoderKeys, Waits

\* The top returns a value.
LEMMA CloseKeys ==
  ASSUME DecoderKeys, ctl # <<>>, NEW v, Named(v),
         mode' = "ret", ctl' = Front(ctl), vals' = Front(vals), val' = v, UNCHANGED req
  PROVE  DecoderKeys'
<1>1. /\ Stack(ctl) /\ Stack(vals) /\ vals # <<>> /\ Len(vals) = Len(ctl)
      /\ Len(ctl) \in Nat /\ Len(ctl) >= 1 /\ DOMAIN ctl = 1 .. Len(ctl)
  BY Top DEF DecoderKeys, ActsWithin
<1>2. /\ Len(ctl') = Len(ctl) - 1 /\ DOMAIN ctl' = 1 .. (Len(ctl) - 1)
      /\ \A i \in 1 .. (Len(ctl) - 1) : ctl'[i] = ctl[i]
  BY <1>1, StackPop
<1>3. /\ Stack(vals') /\ Len(vals') = Len(ctl) - 1
      /\ \A i \in 1 .. (Len(ctl) - 1) : vals'[i] = vals[i]
  BY <1>1, StackPop
<1>4. ActsWithin(req'.root, ctl') /\ Keys' = Keys /\ Named(val)'
  BY ActsTop DEF DecoderKeys, Keys, Named
<1>5. \A i \in 1 .. (Len(ctl) - 1) : i \in DOMAIN ctl /\ i < Len(ctl)
  BY <1>1
<1>6. \A i \in DOMAIN ctl' : ctl'[i].k = "struct" => DOMAIN vals'[i] \subseteq Keys
  BY <1>2, <1>3, <1>5 DEF DecoderKeys
<1>7. \A i \in DOMAIN ctl' : Waits(ctl'[i])
  BY <1>2, <1>5 DEF DecoderKeys
<1> QED
  BY <1>2, <1>3, <1>4, <1>6, <1>7 DEF DecoderKeys, Waits

(***************************************************************************)
(* The decoder's actions.                                                  *)
(***************************************************************************)
\* What an array, a condition or a switch goes down to.
LEMMA ReadyParts ==
  ASSUME NEW a, Within(req.root, a)
  PROVE  /\ Code[a].op = "Array" => Ready(Code[a].elem)
         /\ Code[a].op = "Cond" => Ready(Code[a].then)
         /\ Code[a].op = "Switch" =>
              /\ \A i \in DOMAIN Code[a].cases : Ready(Code[a].cases[i].to)
              /\ \A b \in Code[a].default : Ready(b)
<1>1. a \in Addr
  BY DEF Within
<1>2. CASE Code[a].op = "Array"
  <2>1. Code[a].elem \in ValuePositions
    BY <1>1, <1>2 DEF ValuePositions
  <2> QED
    BY <1>2, <2>1, WithinParts, EncoderAssumption DEF Ready
<1>3. CASE Code[a].op = "Cond"
  <2>1. Code[a].then \in ValuePositions
    BY <1>1, <1>3 DEF ValuePositions
  <2> QED
    BY <1>3, <2>1, WithinParts, EncoderAssumption DEF Ready
<1>4. CASE Code[a].op = "Switch"
  <2>1. ASSUME NEW b \in Code[a].default \cup {Code[a].cases[i].to : i \in DOMAIN Code[a].cases}
        PROVE  b \in ValuePositions
    BY <1>1, <1>4 DEF ValuePositions
  <2> QED
    BY <1>4, <2>1, WithinParts, EncoderAssumption DEF Ready
<1> QED
  BY <1>2, <1>3, <1>4

\* A field under its key.
LEMMA PutKeys ==
  ASSUME NEW m, DOMAIN m \subseteq Keys, NEW key, key \subseteq Keys, NEW v
  PROVE  DOMAIN Put(m, key, v) \subseteq Keys
  BY DEF Put

LEMMA PassedLater ==
  ASSUME DecoderKeys, ctl # <<>>, NEW end
  PROVE  Later(here, [here EXCEPT !.i = @ + 1, !.pos = end])
  BY Top DEF Later, EntryWithin

LEMMA SameTop ==
  ASSUME DecoderKeys, ctl # <<>>
  PROVE  SetTop(vals, Last(vals)) = vals
<1>1. vals \in Seq(Range(vals)) /\ Last(vals) = vals[Len(vals)]
  BY Top, StackPop DEF DecoderKeys, Stack
<1> QED
  BY <1>1 DEF SetTop

LEMMA RunKeys ==
  ASSUME DecoderKeys, ctl # <<>>, here.k = "struct", NEW end, NEW m,
         DOMAIN m = DOMAIN Last(vals) \cup OpKeys(FieldOp), InStruct, MoreOps,
         mode' = "step", ctl' = Passed(end), vals' = SetTop(vals, m), UNCHANGED <<req, val>>
  PROVE  DecoderKeys'
<1>1. DOMAIN m \subseteq Keys
  BY Top, WithinInside DEF FieldOp, Keys
<1> QED
  BY <1>1, PassedLater, PassKeys DEF Passed

LEMMA FieldStepKeys == ASSUME DecoderKeys, FieldStep PROVE DecoderKeys'
<1>1. /\ ctl # <<>> /\ here.k = "struct" /\ InStruct /\ req.root \in ProgId
      /\ DOMAIN Last(vals) \subseteq Keys
  <2>1. InStruct
    BY DEF FieldStep, DoFixed, DoBitRun, DoDigest, DoCond, DoOther, FieldDone, AtField
  <2> QED
    BY <2>1, Top DEF InStruct, DecoderKeys
<1>2. CASE DoFixed
  <2>1. mode = "step" /\ MoreOps /\ FieldOp.op = "Fixed"
    BY <1>2 DEF DoFixed, AtField
  <2>2. OpKeys(FieldOp) = KeysOf(FieldOp.items)
    BY <2>1 DEF OpKeys, KeysOf
  <2>3. \/ \E n : Short(n)
        \/ \E kind, at : Fail(kind, at)
        \/ \E m, end : /\ DOMAIN m = DOMAIN Last(vals) \cup OpKeys(FieldOp)
                       /\ vals' = SetTop(vals, m) /\ ctl' = Passed(end)
                       /\ UNCHANGED <<req, mode, val>>
    BY <1>2, <2>2 DEF DoFixed, FailItem
  <2> QED
    BY <1>1, <2>1, <2>3, ShortKeys, FailKeys, RunKeys
<1>3. CASE DoBitRun
  <2>1. mode = "step" /\ MoreOps /\ FieldOp.op = "BitRun"
    BY <1>3 DEF DoBitRun, AtField
  <2>2. OpKeys(FieldOp) = KeysOf(FieldOp.items)
    BY <2>1 DEF OpKeys, KeysOf
  <2>3. \/ \E n : Short(n)
        \/ \E kind, at : Fail(kind, at)
        \/ \E m, end : /\ DOMAIN m = DOMAIN Last(vals) \cup OpKeys(FieldOp)
                       /\ vals' = SetTop(vals, m) /\ ctl' = Passed(end)
                       /\ UNCHANGED <<req, mode, val>>
    BY <1>3, <2>2 DEF DoBitRun
  <2> QED
    BY <1>1, <2>1, <2>3, ShortKeys, FailKeys, RunKeys
<1>4. CASE DoDigest
  <2>1. mode = "step" /\ MoreOps /\ FieldOp.op = "Digest"
    BY <1>4 DEF DoDigest, AtField
  <2>2. FieldOp.key \subseteq Keys
    BY <1>1, <2>1, Top, WithinInside DEF FieldOp, Keys, OpKeys
  <2>3. \/ \E n : Short(n)
        \/ \E v, d : /\ vals' = SetTop(vals, Put(Last(vals), FieldOp.key, v))
                     /\ ctl' = SetTop(ctl, [here EXCEPT !.i = @ + 1, !.pos = here.pos + ChecksumWidth,
                                                        !.deferred = Append(@, d)])
                     /\ UNCHANGED <<req, mode, val>>
    BY <1>4 DEF DoDigest
  <2>4. ASSUME NEW v, NEW d,
               vals' = SetTop(vals, Put(Last(vals), FieldOp.key, v)),
               ctl' = SetTop(ctl, [here EXCEPT !.i = @ + 1, !.pos = here.pos + ChecksumWidth,
                                              !.deferred = Append(@, d)]),
               UNCHANGED <<req, mode, val>>
        PROVE  DecoderKeys'
    <3>1. Later(here, [here EXCEPT !.i = @ + 1, !.pos = here.pos + ChecksumWidth,
                                   !.deferred = Append(@, d)])
      BY <1>1, Top DEF Later, EntryWithin
    <3>2. DOMAIN Put(Last(vals), FieldOp.key, v) \subseteq Keys
      BY <1>1, <2>2, PutKeys
    <3> QED
      BY <1>1, <2>1, <2>4, <3>1, <3>2, PassKeys
  <2> QED
    BY <1>1, <2>3, <2>4, ShortKeys
<1>5. CASE DoCond
  <2>1. mode = "step" /\ MoreOps /\ FieldOp.op = "Cond"
    BY <1>5 DEF DoCond, AtField
  <2>2. Ready(FieldOp.then) /\ Waits(here)
    BY <1>1, <2>1, Top, ReadyParts DEF FieldOp, Waits, MoreOps, NextAddr
  <2>3. \/ \E kind, at : Fail(kind, at)
        \/ Descend(FieldOp.then)
        \/ ctl' = Passed(here.pos) /\ UNCHANGED <<req, mode, val, vals>>
    BY <1>5 DEF DoCond
  <2>4. CASE ctl' = Passed(here.pos) /\ UNCHANGED <<req, mode, val, vals>>
    BY <1>1, <2>1, <2>4, SameTop, PassedLater, PassKeys DEF Passed
  <2> QED
    BY <1>1, <2>2, <2>3, <2>4, FailKeys, DescendKeys
<1>6. CASE DoOther
  <2>1. /\ MoreOps /\ FieldOp.op \in ValueOps \ {"Fixed"} /\ Descend(NextAddr)
    BY <1>6 DEF DoOther, AtField
  <2>2. FieldOp.op \notin {"Fixed", "BitRun"}
    BY <2>1 DEF ValueOps
  <2>3. Ready(NextAddr) /\ Waits(here)
    BY <1>1, <2>1, <2>2, Top DEF Ready, FieldOp, Waits, MoreOps, NextAddr
  <2> QED
    BY <1>1, <2>1, <2>3, DescendKeys
<1>7. CASE FieldDone
  <2>1. Waits(here)
    BY <1>1, <1>7, Top DEF FieldDone, DecoderKeys
  <2>2. MoreOps /\ FieldOp.op \notin {"Fixed", "BitRun"}
    BY <1>1, <2>1 DEF Waits, MoreOps, FieldOp, NextAddr
  <2>3. FieldOp.key \subseteq Keys
    <3>1. OpKeys(FieldOp) \subseteq Keys
      BY <1>1, <2>2, Top, WithinInside DEF FieldOp, Keys
    <3> QED
      BY <2>2, <3>1 DEF OpKeys
  <2>4. DOMAIN Put(Last(vals), FieldOp.key, val) \subseteq Keys
    BY <1>1, <2>3, PutKeys
  <2> QED
    BY <1>1, <1>7, <2>4, PassedLater, PassKeys DEF FieldDone, Passed
<1> QED
  BY <1>2, <1>3, <1>4, <1>5, <1>6, <1>7 DEF FieldStep

\* A value that is no map has no names.
LEMMA ItemNamed ==
  ASSUME NEW a, Ready(a), Code[a].op = "Fixed"
  PROVE  Named(ItemVal(Code[a].items[1]))
<1>1. EncodesOk(Code[a]) /\ Code[a].items # <<>>
  BY EncoderAssumption DEF Ready, Within
<1>2. 1 \in DOMAIN Code[a].items
  BY <1>1 DEF EncodesOk
<1>3. Code[a].items[1].kind \in {"Int", "Bool", "Raw"}
  BY <1>1, <1>2 DEF EncodesOk, ItemOk
<1> QED
  BY <1>3 DEF ItemVal, Named

LEMMA ValueStepKeys == ASSUME DecoderKeys, ValueStep PROVE DecoderKeys'
<1>1. mode = "value" /\ req.root \in ProgId /\ Ready(cur) /\ Within(req.root, cur)
  <2>1. mode = "value"
    BY DEF ValueStep, ValFixed, ValBytes, ValStr, ValCStr, ValFlags, ValNest, ValArray, ValSwitch, AtValue
  <2> QED
    BY <2>1 DEF DecoderKeys, Ready
<1>2. \A x : Named(<<"bytes", x>>) /\ Named(<<"str", x>>)
  BY DEF Named
<1>3. CASE ValFixed
  <2>1. Named(ItemVal(Op.items[1]))
    BY <1>1, <1>3, ItemNamed DEF ValFixed, AtValue, Op
  <2>2. \/ \E n : Short(n)
        \/ \E kind, at : Fail(kind, at)
        \/ \E end : Return(end, ItemVal(Op.items[1]))
    BY <1>3 DEF ValFixed, FailItem
  <2> QED
    BY <1>1, <2>1, <2>2, ShortKeys, FailKeys, ReturnKeys
<1>4. CASE ValBytes
  <2>1. \/ \E n : Short(n)
        \/ \E kind, at : Fail(kind, at)
        \/ \E end, x : Return(end, <<"bytes", x>>)
    BY <1>4 DEF ValBytes
  <2> QED
    BY <1>1, <1>2, <2>1, ShortKeys, FailKeys, ReturnKeys
<1>5. CASE ValStr
  <2>1. \/ \E n : Short(n)
        \/ \E kind, at : Fail(kind, at)
        \/ \E end, x : Return(end, <<"str", x>>)
    BY <1>5 DEF ValStr
  <2> QED
    BY <1>1, <1>2, <2>1, ShortKeys, FailKeys, ReturnKeys
<1>6. CASE ValCStr
  <2>1. \/ \E n : Starve(n)
        \/ \E kind, at : Fail(kind, at)
        \/ \E end, x : Return(end, <<"str", x>>)
    BY <1>6 DEF ValCStr
  <2> QED
    BY <1>1, <1>2, <2>1, StarveKeys, FailKeys, ReturnKeys
<1>7. CASE ValFlags
  <2>1. Op.op = "Flags" /\ OpKeys(Op) \subseteq Keys
    BY <1>1, <1>7, WithinInside DEF ValFlags, AtValue, Op, Keys
  <2>2. ASSUME NEW raw PROVE Named(<<"map", FlagMap(raw, Op)>>)
    BY <2>1 DEF Named, FlagMap, OpKeys
  <2>3. \/ \E n : Short(n)
        \/ \E kind, at : Fail(kind, at)
        \/ \E end, raw : Return(end, <<"map", FlagMap(raw, Op)>>)
    BY <1>7 DEF ValFlags
  <2> QED
    BY <1>1, <2>2, <2>3, ShortKeys, FailKeys, ReturnKeys
<1>8. CASE ValNest
  <2>1. Fields(req.root, Op.prog)
    BY <1>1, <1>8, WithinParts DEF ValNest, AtValue, Op
  <2>2. \/ \E n : Short(n)
        \/ \E kind, at : Fail(kind, at)
        \/ \E pos, limit, win : Enter(Op.prog, pos, limit, win)
    BY <1>8 DEF ValNest
  <2> QED
    BY <1>1, <2>1, <2>2, ShortKeys, FailKeys, EnterKeys
<1>9. CASE ValArray
  <2>1. ASSUME NEW n PROVE EntryWithin(req.root, ArrayEntry(cur, n))
    BY <1>1, <1>9 DEF EntryWithin, ArrayEntry, ValArray, AtValue, Op
  <2>2. \/ \E kind, at : Fail(kind, at)
        \/ \E n : /\ mode' = "step" /\ ctl' = Append(ctl, ArrayEntry(cur, n))
                  /\ vals' = Append(vals, <<>>) /\ UNCHANGED <<req, val>>
    BY <1>9 DEF ValArray
  <2> QED
    BY <1>1, <2>1, <2>2, FailKeys, OpenKeys
<1>10. CASE ValSwitch
  <2>1. /\ \A i \in DOMAIN Op.cases : Ready(Op.cases[i].to)
        /\ \A b \in Op.default : Ready(b)
    BY <1>1, <1>10, ReadyParts DEF ValSwitch, AtValue, Op
  <2>2. \/ \E kind, at : Fail(kind, at)
        \/ \E a : Ready(a) /\ Descend(a)
    BY <1>10, <2>1 DEF ValSwitch
  <2>3. ctl # <<>> => Waits(here)
    BY <1>1, Top DEF DecoderKeys
  <2> QED
    BY <1>1, <2>2, <2>3, FailKeys, DescendKeys
<1> QED
  BY <1>3, <1>4, <1>5, <1>6, <1>7, <1>8, <1>9, <1>10 DEF ValueStep

LEMMA ArrayStepKeys == ASSUME DecoderKeys, ArrayStep PROVE DecoderKeys'
<1>1. ctl # <<>> /\ here.k = "array" /\ req.root \in ProgId
  BY DEF ArrayStep, ElemNext, ElemDone, ArrayEnd, InArray, DecoderKeys
<1>2. EntryWithin(req.root, here)
  BY <1>1, Top
<1>3. CASE ElemNext
  <2>1. Ready(Code[here.id].elem) /\ Waits(here)
    BY <1>1, <1>2, ReadyParts DEF EntryWithin, Waits
  <2>2. (\E kind, at : Fail(kind, at)) \/ Descend(Code[here.id].elem)
    BY <1>3 DEF ElemNext
  <2> QED
    BY <1>1, <2>1, <2>2, FailKeys, DescendKeys
<1>4. CASE ElemDone
  BY <1>1, <1>4, PassedLater, PassKeys DEF ElemDone, Passed
<1>5. CASE ArrayEnd
  <2>1. Named(<<"list", Last(vals)>>)
    BY DEF Named
  <2> QED
    BY <1>1, <1>5, <2>1, CloseKeys DEF ArrayEnd
<1> QED
  BY <1>3, <1>4, <1>5 DEF ArrayStep

LEMMA LeaveStructKeys == ASSUME DecoderKeys, LeaveStruct PROVE DecoderKeys'
<1>1. ctl # <<>> /\ here.k = "struct" /\ req.root \in ProgId
  BY DEF LeaveStruct, InStruct, DecoderKeys
<1>2. Named(<<"map", Last(vals)>>)
  BY <1>1, Top DEF Named
<1>3. \/ \E kind, at : Fail(kind, at)
      \/ \E tag, kind, at : Stop(tag, kind, at, <<"map", Last(vals)>>)
      \/ /\ mode' = "ret" /\ val' = <<"map", Last(vals)>>
         /\ ctl' = Front(ctl) /\ vals' = Front(vals) /\ UNCHANGED req
  BY DEF LeaveStruct
<1> QED
  BY <1>1, <1>2, <1>3, FailKeys, StopKeys, CloseKeys

LEMMA DecoderStays == ASSUME DecoderKeys, Step PROVE DecoderKeys'
<1>1. CASE Call
  <2>1. Fields(req.root, req.root)
    BY RootWithin DEF DecoderKeys
  <2> QED
    BY <1>1, <2>1, EnterKeys DEF Call
<1> QED
  BY <1>1, FieldStepKeys, ValueStepKeys, ArrayStepKeys, LeaveStructKeys DEF Step

(***************************************************************************)
(* Both in turn.                                                           *)
(***************************************************************************)
CodecKeys ==
  /\ DecoderKeys
  /\ EncoderKeys
  /\ stage \in {"encode", "settle"} => input.root \in ProgId /\ mode \in {"idle", "done"}
  /\ stage \in {"decode", "again"} => pmode \in {"idle", "done"}

LEMMA DecoderSame ==
  ASSUME DecoderKeys, UNCHANGED <<req, mode, ctl, vals, cur, val>>
  PROVE  DecoderKeys'
  BY DEF DecoderKeys, Keys, Named, Ready, Waits

LEMMA EncoderSame ==
  ASSUME EncoderKeys, UNCHANGED <<input, pmode, pctl, pcur>>
  PROVE  EncoderKeys'
  BY DEF EncoderKeys

LEMMA DecoderStarts ==
  ASSUME req.root \in ProgId, mode = "idle", ctl = <<>>, vals = <<>>, val = NoVal
  PROVE  DecoderKeys
  BY NoActs, EmptyStack, NoValNamed DEF DecoderKeys

LEMMA EncoderStarts ==
  ASSUME pmode = "idle", pctl = <<>>
  PROVE  EncoderKeys
  BY NoActs DEF EncoderKeys

LEMMA CodecStarts == ASSUME FromWire \/ FromValue PROVE CodecKeys
<1>1. Init /\ PackIdle
  BY DEF FromWire, FromValue, PackInit
<1>2. req.root \in ProgId
  BY <1>1, CallAssumption DEF Init
<1>3. DecoderKeys /\ EncoderKeys
  BY <1>1, <1>2, DecoderStarts, EncoderStarts DEF Init, PackIdle
<1>4. pmode = "idle" /\ mode = "idle"
  BY <1>1 DEF PackIdle, Init
<1>5. stage = "encode" => input.root \in ProgId
  BY InputAssumption DEF FromWire, FromValue, PackInit
<1>6. stage # "settle"
  BY DEF FromWire, FromValue
<1> QED
  BY <1>3, <1>4, <1>5, <1>6 DEF CodecKeys

LEMMA CodecStays == ASSUME CodecKeys, [CodecNext]_cvars PROVE CodecKeys'
<1>1. CASE Decoding
  <2>1. DecoderKeys' /\ EncoderKeys'
    BY <1>1, DecoderStays, EncoderSame DEF Decoding, CodecKeys, pvars
  <2> QED
    BY <1>1, <2>1 DEF Decoding, CodecKeys, pvars
<1>2. CASE Encoding
  <2>1. DecoderKeys' /\ EncoderKeys' /\ input' = input /\ mode' = mode
    BY <1>2, DecoderSame, EncoderStays, InputKept DEF Encoding, CodecKeys, vars
  <2> QED
    BY <1>2, <2>1 DEF Encoding, CodecKeys
<1>3. ASSUME NEW next \in {"encode", "settle"}, PackIt(next), stage \in {"decode", "again"}
      PROVE  CodecKeys'
  <2>1. pctl = <<>>
    BY <1>3 DEF CodecKeys, EncoderKeys
  <2>2. EncoderKeys'
    BY <1>3, <2>1, NoActs DEF PackIt, EncoderKeys
  <2>3. DecoderKeys' /\ req.root \in ProgId /\ mode' = "done"
    BY <1>3, DecoderSame DEF PackIt, CodecKeys, DecoderKeys, vars
  <2>4. input'.root \in ProgId /\ stage' \in {"encode", "settle"}
    BY <1>3, <2>3 DEF PackIt
  <2> QED
    BY <2>2, <2>3, <2>4 DEF CodecKeys
<1>4. CASE Repack \/ Settle
  BY <1>3, <1>4 DEF Repack, Settle
<1>5. CASE Reread
  <2>1. /\ req'.root = input.root /\ input.root \in ProgId /\ mode' = "idle" /\ val' = NoVal
        /\ stage' = "again" /\ pmode = "done" /\ UNCHANGED <<ctl, vals, pvars>>
    BY <1>5 DEF Reread, CodecKeys
  <2>2. EncoderKeys' /\ pmode' = "done"
    BY <2>1, EncoderSame DEF CodecKeys, pvars
  <2>3. ctl = <<>>
    BY <1>5 DEF Reread, CodecKeys, DecoderKeys
  <2>4. vals = <<>>
    BY <2>3, EmptyStack DEF CodecKeys, DecoderKeys, Stack
  <2>5. DecoderKeys'
    BY <2>1, <2>3, <2>4, NoActs, EmptyStack, NoValNamed DEF DecoderKeys, Named, NoVal
  <2> QED
    BY <2>1, <2>2, <2>5 DEF CodecKeys
<1>6. CASE Finished \/ UNCHANGED cvars
  <2>1. UNCHANGED cvars
    BY <1>6 DEF Finished
  <2>2. DecoderKeys' /\ EncoderKeys'
    BY <2>1, DecoderSame, EncoderSame DEF CodecKeys, cvars, vars, pvars
  <2> QED
    BY <2>1, <2>2 DEF CodecKeys, cvars, vars, pvars
<1> QED
  BY <1>1, <1>2, <1>4, <1>5, <1>6 DEF CodecNext

LEMMA KeysFollow == ASSUME CodecKeys PROVE KeysCached
<1>1. ASSUME NEW i \in OpenMaps PROVE DOMAIN vals[i] \subseteq Keys
  <2>1. DOMAIN vals = DOMAIN ctl
    BY DEF CodecKeys, DecoderKeys, ActsWithin, Stack
  <2> QED
    BY <2>1 DEF OpenMaps, CodecKeys, DecoderKeys
<1>2. val[1] = "map" => DOMAIN val[2] \subseteq Keys
  BY DEF CodecKeys, DecoderKeys, Named
<1>3. PInStruct /\ PMoreOps => OpKeys(PFieldOp) \subseteq build_key_cache(input.root)
  BY PackTop, WithinInside DEF CodecKeys, PFieldOp, PInStruct
<1>4. pmode = "value" => OpKeys(POp) \subseteq build_key_cache(input.root)
  BY WithinInside DEF CodecKeys, EncoderKeys, POp
<1> QED
  BY <1>1, <1>2, <1>3, <1>4 DEF KeysCached, Keys

\* Every name that the decoder sets in a mapping and every name that the encoder
\* asks one for is in the key cache compile() made for the codec that was
\* called, for every program, buffer and value and however the two are mixed:
\* the lookup in key_cache never panics.
THEOREM NamesCached == CodecSpec => []KeysCached
<1>1. FromWire \/ FromValue => CodecKeys
  BY CodecStarts
<1>2. CodecKeys /\ [CodecNext]_cvars => CodecKeys'
  BY CodecStays
<1>3. CodecKeys => KeysCached
  BY KeysFollow
<1> QED
  BY <1>1, <1>2, <1>3, PTL DEF CodecSpec
=============================================================================
