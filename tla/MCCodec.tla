------------------------------ MODULE MCCodec ------------------------------
(* Round trips of every schema, from buffers and from values. *)
EXTENDS Codec, MCPack

Exact(roots) == {[root |-> r, offset |-> 0, exact |-> TRUE, stream |-> FALSE] : r \in roots}

\* The schemas whose digests do not cover a later digest and whose predicates
\* read no derived length.
WireRoots == {"tlv", "win", "list", "units", "pick", "opt", "sum", "part", "loose", "txt",
              "flg", "big", "wide", "raw", "nest", "dual", "hull"}
MCWireRequests == Exact(WireRoots)

MaxLen == 5
MCBuffers == UNION {[1 .. n -> 0 .. 3] : n \in 0 .. MaxLen}
MCNoBuffer == {<<>>}
MCNoRequest == Exact({"tlv"})

\* Codec.pack on the schemas that decode as they pack, and Codec.pack_into,
\* which is not read back, on a few and on those that do not: vast wraps where
\* unpack overflows, abyss packs deeper than unpack goes.
MCValueInputs ==
  ForRoots(WireRoots \cup {"gate"}, {{}})
    \cup ForRoots({"tlv", "list"}, {{0}, {1}, {4}, {7}})
    \cup ForRoots({"vast", "abyss"}, {{0}})
MCDsts == {<<1, 2, 1, 2, 1>>}
=============================================================================
