------------------------------- MODULE Codec -------------------------------
(***************************************************************************)
(* A codec packs what it has unpacked and unpacks what it has packed.  The *)
(* decoder and the encoder run in turn on each other's result:             *)
(*                                                                         *)
(*   "decode"  unpack some buffer                                          *)
(*   "encode"  pack the value                                              *)
(*   "again"   unpack the bytes, all of them                               *)
(*   "settle"  pack that value                                             *)
(***************************************************************************)
EXTENDS Unpack, Pack

VARIABLES stage, first   \* first: the value "encode" started from

(***************************************************************************)
(* The key cache: compile() makes one string object for every name of the  *)
(* program, and PyBuilder and PySource look names up there, never anew; a  *)
(* name that was not collected is a panic.                                 *)
(***************************************************************************)
\* The names an opcode itself carries.
OpKeys(op) ==
  CASE op.op \in {"Fixed", "BitRun"} -> UNION {op.items[i].key : i \in DOMAIN op.items}
    [] op.op = "Flags" ->
         op.key \cup {op.items[i].key : i \in DOMAIN op.items} \cup (IF op.rest = "Keep" THEN {"_rest"} ELSE {})
    [] OTHER -> op.key

\* Mutant: the branches of a switch are not visited.
Inside_NoCases(op) ==
  CASE op.op = "Nest" -> Range(Prog[op.prog])
    [] op.op = "Array" -> {op.elem}
    [] op.op = "Cond" -> {op.then}
    [] OTHER -> {}

\* The opcodes directly inside one.
Inside(op) ==
  CASE op.op = "Nest" -> Range(Prog[op.prog])
    [] op.op = "Array" -> {op.elem}
    [] op.op = "Switch" -> {op.cases[i].to : i \in DOMAIN op.cases} \cup op.default
    [] op.op = "Cond" -> {op.then}
    [] OTHER -> {}

collect_op_keys[a \in DOMAIN Code] ==
  OpKeys(Code[a]) \cup UNION {collect_op_keys[b] : b \in Inside(Code[a])}

build_key_cache(p) == UNION {collect_op_keys[a] : a \in Range(Prog[p])}

cvars == <<vars, pvars, stage, first>>

\* Codec.unpack, .unpack_from or .parse
Decoding == stage \in {"decode", "again"} /\ Step /\ UNCHANGED <<pvars, stage, first>>

\* Codec.pack
Encoding == stage \in {"encode", "settle"} /\ PackStep /\ UNCHANGED <<vars, stage, first>>

\* What was decoded is packed.
PackIt(next) ==
  /\ mode = "done" /\ outcome.tag = "Ok"
  /\ input' = [root |-> req.root, value |-> val, into |-> {}]
  /\ pmode' = "idle" /\ out' = <<>>
  /\ result' = [tag |-> "none", kind |-> "Ok"]
  /\ stage' = next
  /\ UNCHANGED <<vars, dst, pctl, pframes, pcur, arg>>

Repack == stage = "decode" /\ PackIt("encode") /\ first' = val
Settle == stage = "again" /\ PackIt("settle") /\ UNCHANGED first

\* What pack returned is unpacked, exactly.
Reread ==
  /\ stage = "encode" /\ pmode = "done" /\ result.tag = "Ok" /\ input.into = {}
  /\ req' = [root |-> input.root, offset |-> 0, exact |-> TRUE, stream |-> FALSE]
  /\ buf' = out
  /\ mode' = "idle" /\ outcome' = Pending /\ val' = NoVal
  /\ stage' = "again"
  /\ UNCHANGED <<ctl, frames, cur, ret, vals, pvars, first>>

\* An operation has failed, pack_into has returned, or both have been done
\* twice.
Finished ==
  /\ \/ stage \in {"decode", "again"} /\ mode = "done" /\ outcome.tag # "Ok"
     \/ stage = "encode" /\ pmode = "done" /\ (result.tag # "Ok" \/ input.into # {})
     \/ stage = "settle" /\ pmode = "done"
  /\ UNCHANGED cvars

CodecNext == Decoding \/ Encoding \/ Repack \/ Settle \/ Reread \/ Finished

\* A relay: what arrives is unpacked and packed again.
FromWire == input = NoArg /\ Init /\ PackIdle /\ stage = "decode" /\ first = NoVal

\* A sender: the first thing that happens is pack, on any input; what the
\* decoder was last called with does not matter.
FromValue ==
  /\ buf = CHOOSE b \in Buffers : TRUE
  /\ req = CHOOSE q \in Requests : TRUE
  /\ Init /\ PackInit /\ stage = "encode" /\ first = NoVal

ValueSpec == FromValue /\ [][CodecNext]_cvars
CodecSpec == (FromWire \/ FromValue) /\ [][CodecNext]_cvars
-----------------------------------------------------------------------------
(***************************************************************************)
(* Properties.                                                             *)
(***************************************************************************)
\* Everything the decoder returns can be packed again: no length disagrees
\* with its data, no register is asked for before it is known.
Repackable ==
  first # NoVal /\ stage \in {"encode", "settle"} /\ pmode = "done" => result.tag = "Ok"

\* What pack writes, unpack with the same schema accepts to the last byte:
\* patched lengths, windows and digests included.
OwnOutputDecodes ==
  stage = "again" /\ mode = "done" => outcome.tag = "Ok"

Unverified(p) == \E i \in DOMAIN Prog[p] : Code[Prog[p][i]].op = "Digest" /\ ~Code[Prog[p][i]].verify

\* Packing a decoded value loses nothing: the value comes back, but for a
\* digest that was accepted unverified and that pack corrects.
SameValue ==
  stage = "again" /\ mode = "done" /\ outcome.tag = "Ok" /\ first # NoVal =>
    val = first \/ Unverified(req.root)

OpenMaps == {i \in DOMAIN vals : ctl[i].k = "struct"}

\* "every schema key is pre-cached in Codec::key_cache at compile time": no
\* key that the decoder has set in a mapping or that the encoder
\* is about to ask for is missing from the cache of the codec that was called,
\* however deep in windows, elements, branches and conditions it occurs.
KeysCached ==
  /\ \A i \in OpenMaps : DOMAIN vals[i] \subseteq build_key_cache(req.root)
  /\ val[1] = "map" => DOMAIN val[2] \subseteq build_key_cache(req.root)
  /\ pmode = "step" /\ PInStruct /\ PMoreOps => OpKeys(PFieldOp) \subseteq build_key_cache(input.root)
  /\ pmode = "value" => OpKeys(POp) \subseteq build_key_cache(input.root)

\* pack(unpack(buf)) = buf for every buf that pack wrote: one pass through
\* the codec reaches the canonical bytes.
RoundTrip ==
  stage = "settle" /\ pmode = "done" => result.tag = "Ok" /\ out = buf
=============================================================================
