------------------------------ MODULE MCDigest ------------------------------
(* Small CRCs of every shape and the Internet checksum, fed in any pieces. *)
EXTENDS Digest

Crc(width, poly, init, xorout, refin, refout) ==
  [width |-> width, poly |-> poly, init |-> init, xorout |-> xorout, refin |-> refin, refout |-> refout]

\* Plain, reflected as the presets are, and reflected on one side only.
MCCrcSpecs == {Crc(2, 3, 3, 0, FALSE, FALSE), Crc(4, 3, 15, 15, TRUE, TRUE),
               Crc(4, 9, 0, 0, TRUE, FALSE), Crc(4, 5, 6, 1, FALSE, TRUE)}

\* Long pieces of the largest words, up to as many words as a word has values:
\* with one more the sum of a piece passes the accumulator.
Longest == 2 * (WordMax + 1)
MCPieces == UNION {[1 .. n -> 0 .. 3] : n \in 0 .. 2}
              \cup {[i \in 1 .. n |-> 3] : n \in (Longest - 3) .. Longest}
MCZeroRuns == {1, 3}
=============================================================================
