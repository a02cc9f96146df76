------------------------------ MODULE MCStream ------------------------------
(* Every schema on every short buffer by all three callers, and those that *)
(* can be streamed as a stream of every short message, in pieces.          *)
EXTENDS Stream, Schemas

MCCode == SchemaCode
MCProg == SchemaProg

Parsing(roots) == {[root |-> r, offset |-> 0, exact |-> FALSE, stream |-> TRUE] : r \in roots}

\* The schemas whose greedy fields all lie in windows.
MCBounded == Parsing({"tlv", "win", "list", "units", "pick", "opt", "loose", "flg", "big", "wide",
                      "raw", "nest", "abyss"})
\* Greedy at the top: what is left of the buffer is taken.
MCGreedy == Parsing({"txt"})
WireLen == 4
MCWires == [1 .. WireLen -> 0 .. 3]
MCEmpty == {<<>>}

MCRoots == {"tlv", "win", "list", "units", "pick", "opt", "sum", "part", "loose", "txt",
            "flg", "big", "wide", "raw", "nest", "dual", "hull", "abyss"}

\* Codec::unpack, Codec::unpack_from and Codec::parse
MCRequests ==
  Parsing(MCRoots)
    \cup {[root |-> r, offset |-> 0, exact |-> TRUE, stream |-> FALSE] : r \in MCRoots}
    \cup {[root |-> r, offset |-> 1, exact |-> FALSE, stream |-> FALSE] : r \in MCRoots}

MaxLen == 4
MCBuffers == UNION {[1 .. n -> 0 .. 3] : n \in 0 .. MaxLen}
=============================================================================
