-------------------------------- MODULE Wire --------------------------------
(***************************************************************************)
(* Bytes and what the codec reads from and writes to them: integers in     *)
(* both byte orders, bit fields, text, and the Internet checksum.          *)
(*                                                                         *)
(* A byte has ByteBits bits (8 in the program) and the machine integer of  *)
(* the expression language has WordBits bits (64 in the program): TLC      *)
(* checks the same definitions on a scaled-down machine.  Buffer offsets   *)
(* are 0-based as in the code; Slice(b, s, e) is b[s..e].                  *)
(***************************************************************************)
EXTENDS Integers, Sequences, SequencesExt

CONSTANTS
  ByteBits,   \* bits in a byte; even, so that the two top bits classify UTF-8
  WordBits,   \* bits of i64/u64
  I64Max      \* i64::MAX

ASSUME WireAssumption ==
  /\ ByteBits \in Nat \ {0, 1}
  /\ WordBits \in Nat \ {0}
  /\ I64Max \in Nat
  /\ I64Max + 1 = 2 ^ (WordBits - 1)

Base == 2 ^ ByteBits
Byte == 0 .. (Base - 1)
I64 == (-I64Max - 1) .. I64Max

Slice(b, s, e) == SubSeq(b, s + 1, e)
Zeros(n) == [i \in 1 .. n |-> 0]

\* The sum of a sequence.
Total(s) ==
  LET upto[i \in 0 .. Len(s)] == IF i = 0 THEN 0 ELSE upto[i - 1] + s[i]
  IN  upto[Len(s)]

(***************************************************************************)
(* Integers.  An IntPrim is [w |-> bytes, signed |-> BOOLEAN].             *)
(***************************************************************************)
PrimMin(prim) == IF prim.signed THEN -(2 ^ (prim.w * ByteBits - 1)) ELSE 0
PrimMax(prim) == 2 ^ (prim.w * ByteBits - (IF prim.signed THEN 1 ELSE 0)) - 1

ReadUint(raw, be) ==
  LET weight(i) == Base ^ (IF be THEN Len(raw) - i ELSE i - 1)
  IN  Total([i \in DOMAIN raw |-> raw[i] * weight(i)])

SignExtend(u, bits) == IF u >= 2 ^ (bits - 1) THEN u - 2 ^ bits ELSE u

ReadInt(raw, prim, be) ==
  IF prim.signed THEN SignExtend(ReadUint(raw, be), Len(raw) * ByteBits)
                 ELSE ReadUint(raw, be)

\* Two's complement falls out of floored division and modulus.
WriteUint(w, be, v) ==
  [i \in 1 .. w |-> (v \div (Base ^ (IF be THEN w - i ELSE i - 1))) % Base]

\* out with the bytes from pos on replaced by raw
WriteAt(out, pos, raw) ==
  [i \in DOMAIN out |-> IF i \in (pos + 1) .. (pos + Len(raw)) THEN raw[i - pos] ELSE out[i]]

(***************************************************************************)
(* Bit fields, most significant bit first within and across bytes: field   *)
(* [off, off + width) of a run is a digit group of the run read as one     *)
(* big-endian number.                                                      *)
(***************************************************************************)
BitShift(raw, off, width) == 2 ^ (Len(raw) * ByteBits - off - width)

ReadBits(raw, off, width, signed) ==
  LET v == (ReadUint(raw, TRUE) \div BitShift(raw, off, width)) % (2 ^ width)
  IN  IF signed THEN SignExtend(v, width) ELSE v

BitsInRange(v, width, signed) ==
  IF signed THEN v >= -(2 ^ (width - 1)) /\ v < 2 ^ (width - 1)
            ELSE v >= 0 /\ v < 2 ^ width

\* Bit i of the two's complement representation of n.
Bit(n, i) == (n \div (2 ^ i)) % 2

\* Combine a and b bit by bit with f, as WordBits-bit unsigned numbers.
BitWise(f(_, _), a, b) ==
  Total([i \in 1 .. WordBits |-> f(Bit(a, i - 1), Bit(b, i - 1)) * 2 ^ (i - 1)])

BitAnd(a, b) == BitWise(LAMBDA x, y : x * y, a, b)
BitOr(a, b) == BitWise(LAMBDA x, y : IF x + y > 0 THEN 1 ELSE 0, a, b)
BitXor(a, b) == BitWise(LAMBDA x, y : (x + y) % 2, a, b)

\* The run's bytes after OR-ing the low width bits of v into its field.
OrBits(raw, off, width, v) ==
  LET old == ReadBits(raw, off, width, FALSE)
      new == BitOr(old, v % (2 ^ width))
  IN  WriteUint(Len(raw), TRUE,
                ReadUint(raw, TRUE) + (new - old) * BitShift(raw, off, width))

(***************************************************************************)
(* Text.  A string is the sequence of its encoded bytes; what an encoding  *)
(* decides is which byte sequences are strings.  UTF-8 is abstracted to    *)
(* one- and two-byte characters: a byte whose two top bits are 10 is a     *)
(* continuation, 11 a lead.                                                *)
(***************************************************************************)
Class(b) == b \div (Base \div 4)
IsAscii(raw) == \A i \in DOMAIN raw : Class(raw[i]) < 2

IsUtf8(raw) ==
  \A i \in DOMAIN raw :
    /\ Class(raw[i]) = 3 => i + 1 \in DOMAIN raw /\ Class(raw[i + 1]) = 2
    /\ Class(raw[i]) = 2 => i - 1 \in DOMAIN raw /\ Class(raw[i - 1]) = 3

IsText(raw, enc) ==
  CASE enc = "Latin1" -> TRUE
    [] enc = "Ascii" -> IsAscii(raw)
    [] enc = "Utf8" -> IsUtf8(raw)

(***************************************************************************)
(* The Internet checksum (Algo::IpChecksum): the complement of the         *)
(* end-around-carry sum of the big-endian two-byte words, an odd last byte *)
(* counting as the high half of a word.                                    *)
(***************************************************************************)
WordMax == Base * Base - 1
ChecksumWidth == 2

EndAround(s) == IF s = 0 THEN 0 ELSE ((s - 1) % WordMax) + 1

IpChecksum(raw) ==
  LET high(i) == i % 2 = 1
      sum == Total([i \in DOMAIN raw |-> raw[i] * (IF high(i) THEN Base ELSE 1)])
  IN  WordMax - EndAround(sum)
=============================================================================
