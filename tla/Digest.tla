------------------------------- MODULE Digest -------------------------------
(***************************************************************************)
(* digest.rs: a Hasher is created, fed in pieces and finalized.  The pieces*)
(* are the regions a digest covers: unpack cuts them at the digest's own   *)
(* field, which counts as zeros, pack does not, so the result must not     *)
(* depend on the cuts.                                                     *)
(*                                                                         *)
(* The accumulator of the Internet checksum is a u32, twice the width of   *)
(* the words it sums; it wraps in a release build.                         *)
(***************************************************************************)
EXTENDS Wire

CONSTANTS
  CrcSpecs,     \* [width, poly, init, xorout, refin, refout]
  Pieces,       \* what update may be called with
  ZeroRuns,     \* what update_zeros may be called with
  ZeroBlock,    \* bytes update_zeros feeds at a time
  MaxFed,       \* bound on the bytes fed to a CRC
  MaxCalls      \* bound on the calls of update and update_zeros

VARIABLES algo, hasher, fed, digest, calls

dvars == <<algo, hasher, fed, digest, calls>>

None == {}   \* no pending byte, no digest yet
Ip == [name |-> "ip"]
IsCrc == algo # Ip

(***************************************************************************)
(* CRC: bit-serial, the state shifted once per input bit.                  *)
(***************************************************************************)
Reflect(v, width) ==
  MapThenSumSet(LAMBDA i : Bit(v, i) * 2 ^ (width - 1 - i), 0 .. (width - 1))

\* The bits of a byte in the order they are fed.
FeedOrder(spec, byte) ==
  [i \in 1 .. ByteBits |-> Bit(byte, IF spec.refin THEN i - 1 ELSE ByteBits - i)]

CrcBit(spec, state, bit) ==
  LET shifted == (state * 2) % (2 ^ spec.width)
  IN  IF Bit(state, spec.width - 1) # bit THEN BitXor(shifted, spec.poly) ELSE shifted

CrcByte(spec, state, byte) ==
  FoldLeft(LAMBDA s, bit : CrcBit(spec, s, bit), state, FeedOrder(spec, byte))

CrcFinal(spec, state) ==
  BitXor(IF spec.refout THEN Reflect(state, spec.width) ELSE state, spec.xorout)

(***************************************************************************)
(* The Internet checksum: words are summed, the carries folded in at the   *)
(* end of each piece, and an odd last byte waits for the next one.         *)
(***************************************************************************)
AccMod == (WordMax + 1) * (WordMax + 1)

FoldIn[s \in 0 .. (AccMod - 1)] ==
  IF s <= WordMax THEN s ELSE FoldIn[(s % (WordMax + 1)) + (s \div (WordMax + 1))]

\* Mutant: the pending byte is forgotten at the end of a piece.
IpUpdate_DropOdd(h, data) ==
  LET n == Len(data) \div 2
      words == MapThenSumSet(LAMBDA k : data[2 * k - 1] * Base + data[2 * k], 1 .. n)
  IN  [sum |-> FoldIn[(h.sum + words) % AccMod], odd |-> None]

IpUpdate(h, data) ==
  LET all == SetToSeq(h.odd) \o data
      n == Len(all) \div 2
      words == MapThenSumSet(LAMBDA k : all[2 * k - 1] * Base + all[2 * k], 1 .. n)
  IN  [sum |-> FoldIn[(h.sum + words) % AccMod],
       odd |-> IF Len(all) = 2 * n THEN None ELSE {Last(all)}]

IpFinal(h) == WordMax - FoldIn[h.sum + MapThenSumSet(LAMBDA hi : hi * Base, h.odd)]

(***************************************************************************)
(* The Hasher.                                                             *)
(***************************************************************************)
New(a) == IF a = Ip THEN [sum |-> 0, odd |-> None] ELSE a.init

Updated(h, data) ==
  IF IsCrc THEN FoldLeft(LAMBDA s, byte : CrcByte(algo, s, byte), h, data)
           ELSE IpUpdate(h, data)

MayFeed(n) ==
  /\ digest = None
  /\ calls < MaxCalls /\ calls' = calls + 1
  /\ IsCrc => Len(fed) + n <= MaxFed

\* Hasher::update
Update(data) ==
  /\ MayFeed(Len(data))
  /\ hasher' = Updated(hasher, data)
  /\ fed' = fed \o data
  /\ UNCHANGED <<algo, digest>>

\* Hasher::update_zeros: whole blocks, then the rest.
UpdateZeros(n) ==
  /\ MayFeed(n)
  /\ LET blocks == [i \in 1 .. (n \div ZeroBlock) |-> Zeros(ZeroBlock)]
         rest == IF n % ZeroBlock = 0 THEN <<>> ELSE <<Zeros(n % ZeroBlock)>>
     IN  hasher' = FoldLeft(Updated, hasher, blocks \o rest)
  /\ fed' = fed \o Zeros(n)
  /\ UNCHANGED <<algo, digest>>

\* Hasher::finalize consumes the hasher.
Finalize ==
  /\ digest = None
  /\ digest' = {IF IsCrc THEN CrcFinal(algo, hasher) ELSE IpFinal(hasher)}
  /\ UNCHANGED <<algo, hasher, fed, calls>>

DigestInit ==
  /\ algo \in CrcSpecs \cup {Ip}
  /\ hasher = New(algo)
  /\ fed = <<>>
  /\ digest = None
  /\ calls = 0

Finalized == digest # None /\ UNCHANGED dvars

DigestNext ==
  \/ \E data \in Pieces : Update(data)
  \/ \E n \in ZeroRuns : UpdateZeros(n)
  \/ Finalize
  \/ Finalized

DigestSpec == DigestInit /\ [][DigestNext]_dvars
-----------------------------------------------------------------------------
(***************************************************************************)
(* References.  A CRC is the remainder of a division of polynomials over   *)
(* GF(2), written as numbers whose bits are the coefficients.              *)
(***************************************************************************)
PolyTimes(a, b) ==
  LET deg == WordBits - 1
      coeff(k) == MapThenSumSet(LAMBDA i : Bit(a, i) * Bit(b, k - i), 0 .. k) % 2
  IN  MapThenSumSet(LAMBDA k : coeff(k) * 2 ^ k, 0 .. deg)

MessageBits(spec, data) == FlattenSeq([i \in DOMAIN data |-> FeedOrder(spec, data[i])])

\* The polynomial of the message, first bit highest, over the initial value.
Dividend(spec, data) ==
  LET bits == MessageBits(spec, data)
      n == Len(bits)
      poly == MapThenSumSet(LAMBDA i : bits[i] * 2 ^ (n - i), 1 .. n)
  IN  BitXor(poly * 2 ^ spec.width, spec.init * 2 ^ n)

\* The remainder of the division by x^width + poly: what is left of the
\* dividend after the multiple of the divisor that brings it below x^width.
Remainder(spec, data) ==
  LET g == 2 ^ spec.width + spec.poly
      n == Len(data) * ByteBits
      d == Dividend(spec, data)
      left(q) == BitXor(d, PolyTimes(q, g))
  IN  left(CHOOSE q \in 0 .. (2 ^ n - 1) : left(q) < 2 ^ spec.width)

Reference(a, data) ==
  IF a = Ip THEN IpChecksum(data) ELSE CrcFinal(a, Remainder(a, data))

\* The pieces cannot be told from the result: a digest is that of all the
\* bytes fed, as the mathematical definition gives it, wherever they were cut
\* and whether zeros came as bytes or as update_zeros, up to the longest piece
\* whose words the u32 can sum before the carries are folded in.
DigestOfWhole == \A d \in digest : d = Reference(algo, fed)
=============================================================================
