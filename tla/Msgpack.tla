------------------------------ MODULE Msgpack -------------------------------
(***************************************************************************)
(* MessagePack (formats/msgpack.py): decode and encode, each a loop over a *)
(* work stack of its own instead of a recursion.  One turn of a loop is    *)
(* one step.  Octets are those of the format; the four widths of integers  *)
(* and lengths (1, 2, 4 and 8 octets) are a parameter, so that the largest *)
(* of them has a limit within reach; there may be several settings of it,  *)
(* and one is taken for good.                                              *)
(*                                                                         *)
(* A Python value is a pair of its type and what it holds; a dict holds    *)
(* the sequence of its items.  A float is its octets.                      *)
(***************************************************************************)
EXTENDS Integers, Sequences, SequencesExt

CONSTANTS
  Settings,    \* of the octets of 8, 16, 32 and 64 bit integers
  Values,      \* [Settings -> what encode may be called with]
  Received     \* [Settings -> what decode may be called with]

ASSUME MsgpackAssumption ==
  /\ Settings \subseteq [1 .. 4 -> Nat \ {0}]
  /\ \A w \in Settings : \A k \in 1 .. 3 : w[k] <= w[k + 1]
  /\ DOMAIN Values = Settings /\ DOMAIN Received = Settings

VARIABLES
  widths,   \* the setting
  mode,     \* "encode", "decode", or how the calls ended
  value,    \* encode's argument
  work,     \* encode's stack, the next value last
  out,      \* what encode has written
  buf, off, \* decode's argument and how far it has read
  frames,   \* decode's stack of containers in progress, the innermost last
  result    \* what decode returned

vars == <<widths, mode, value, work, out, buf, off, frames, result>>

Nil == <<"nil", 0>>
-----------------------------------------------------------------------------
(***************************************************************************)
(* Value: one tag and what belongs to it.                                  *)
(***************************************************************************)
Bound(k) == 256 ^ widths[k]
FloatOctets == widths[4]

\* The lowest n octets of v, most significant first (v may be negative).
Octets(v, n) == [k \in 1 .. n |-> (v \div 256 ^ (n - k)) % 256]
Unsigned(s) == FoldLeft(LAMBDA v, octet : v * 256 + octet, 0, s)
Signed(s) == IF s[1] < 128 THEN Unsigned(s) ELSE Unsigned(s) - 256 ^ Len(s)

Tag(hi4, lo4) == hi4 * 16 + lo4
Pack(hi4, lo4, payload) == <<Tag(hi4, lo4)>> \o payload
LenPrefixed(k, data) == Octets(Len(data), widths[k]) \o data

\* What follows a tag: nothing, n octets, an integer, or octets whose number
\* comes first in as many octets.
Takes(how, n) == [how |-> how, n |-> n]
Case(hi4, lo4) ==
  CASE hi4 \in 0 .. 9 \cup {14, 15} -> Takes("octets", 0)
    [] hi4 = 10 -> Takes("octets", lo4)
    [] hi4 = 11 -> Takes("octets", lo4 + 16)
    [] hi4 = 12 -> (CASE lo4 \in {0, 2, 3} -> Takes("octets", 0)
                      [] lo4 \in 4 .. 6 -> Takes("prefixed", widths[lo4 - 3])
                      [] lo4 = 11 -> Takes("octets", FloatOctets)
                      [] lo4 \in 12 .. 15 -> Takes("unsigned", widths[lo4 - 11])
                      [] OTHER -> Takes("none", 0))
    [] hi4 = 13 -> (CASE lo4 \in 0 .. 3 -> Takes("signed", widths[lo4 + 1])
                      [] lo4 \in 9 .. 11 -> Takes("prefixed", widths[lo4 - 8])
                      [] lo4 \in {12, 14} -> Takes("unsigned", widths[2])
                      [] lo4 \in {13, 15} -> Takes("unsigned", widths[3])
                      [] OTHER -> Takes("none", 0))

\* Value.unpack_from: hi4, lo4, the payload and the offset after it.
Fails == [ok |-> FALSE]
unpack_from(at) ==
  LET hi4 == buf[at + 1] \div 16
      lo4 == buf[at + 1] % 16
      takes == Case(hi4, lo4)
      from == at + 1 + (IF takes.how = "prefixed" THEN takes.n ELSE 0)
      size == IF takes.how = "prefixed" THEN Unsigned(SubSeq(buf, at + 2, from)) ELSE takes.n
      payload == SubSeq(buf, from + 1, from + size)
  IN IF at >= Len(buf) \/ takes.how = "none" \/ from > Len(buf) \/ size > Len(buf) - from THEN Fails
     ELSE [ok |-> TRUE, hi4 |-> hi4, lo4 |-> lo4, end |-> from + size,
           p |-> CASE takes.how = "unsigned" -> Unsigned(payload)
                   [] takes.how = "signed" -> Signed(payload)
                   [] OTHER -> payload]

\* classify: a leaf with its value, or a container with its count.  Text that
\* does not decode raises.
Leaf(type, x) == [kind |-> "leaf", of |-> <<type, x>>]
Text(s) == IF \A k \in DOMAIN s : s[k] < 128 THEN Leaf("str", s) ELSE [kind |-> "raises"]
Holder(kind, n) == [kind |-> kind, of |-> n]

classify(mv) ==
  LET h == mv.hi4
      lo4 == mv.lo4
  IN CASE h <= 7 -> Leaf("int", h * 16 + lo4)
       [] h = 8 -> Holder("map", lo4)
       [] h = 9 -> Holder("list", lo4)
       [] h \in {10, 11} -> Text(mv.p)
       [] h = 14 -> Leaf("int", lo4 - 32)
       [] h = 15 -> Leaf("int", lo4 - 16)
       [] h = 12 -> (CASE lo4 = 0 -> Leaf("nil", 0)
                       [] lo4 \in {2, 3} -> Leaf("bool", lo4 = 3)
                       [] lo4 \in 4 .. 6 -> Leaf("bytes", mv.p)
                       [] lo4 = 11 -> Leaf("float", mv.p)
                       [] lo4 \in 12 .. 15 -> Leaf("int", mv.p))
       [] h = 13 -> (CASE lo4 \in 0 .. 3 -> Leaf("int", mv.p)
                       [] lo4 \in 9 .. 11 -> Text(mv.p)
                       [] lo4 \in {12, 13} -> Holder("list", mv.p)
                       [] lo4 \in {14, 15} -> Holder("map", mv.p))
-----------------------------------------------------------------------------
(***************************************************************************)
(* decode and decode_from.                                                 *)
(***************************************************************************)
Frame(kind, need) == [kind |-> kind, need |-> need, items |-> <<>>]

\* Python compares a bool as the number it is.
Key(v) == IF v[1] = "bool" THEN <<"int", IF v[2] THEN 1 ELSE 0>> ELSE v
Hashable(v) == v[1] \notin {"list", "map"}

\* dict(pairs): a key that is there already keeps its place and gets the value.
Dict(pairs) ==
  FoldLeft(LAMBDA d, pair :
             IF \E k \in DOMAIN d : Key(d[k][1]) = Key(pair[1])
             THEN LET k == CHOOSE k \in DOMAIN d : Key(d[k][1]) = Key(pair[1]) IN [d EXCEPT ![k][2] = pair[2]]
             ELSE Append(d, pair),
           <<>>, pairs)

\* Mutant: keys and values change places.
finish_frame_Swapped(frame) ==
  IF frame.kind = "list" THEN <<"list", frame.items>>
  ELSE <<"map", Dict([k \in 1 .. Len(frame.items) \div 2 |-> <<frame.items[2 * k], frame.items[2 * k - 1]>>])>>

finish_frame(frame) ==
  IF frame.kind = "list" THEN <<"list", frame.items>>
  ELSE <<"map", Dict([k \in 1 .. Len(frame.items) \div 2 |-> <<frame.items[2 * k - 1], frame.items[2 * k]>>])>>

\* zip takes the items of a map in pairs; an unhashable key raises TypeError.
Unhashable(frame) == frame.kind = "map" /\ \E k \in 1 .. Len(frame.items) \div 2 : ~Hashable(frame.items[2 * k - 1])

Take(frame, v) == [frame EXCEPT !.items = Append(@, v), !.need = @ - 1]
ReplaceTop(stack, top) == Append(Front(stack), top)

Decoding == mode = "decode"
Raise == mode' = "raised" /\ UNCHANGED <<off, frames, result>>
Encoder == <<widths, value, work, out>>

\* The innermost container is complete.
CloseFrame ==
  /\ Decoding /\ Len(frames) > 1 /\ Last(frames).need = 0
  /\ IF Unhashable(Last(frames)) THEN Raise
     ELSE /\ frames' = ReplaceTop(Front(frames), Take(Last(Front(frames)), finish_frame(Last(frames))))
          /\ UNCHANGED <<mode, off, result>>
  /\ UNCHANGED <<Encoder, buf>>

\* The next tag: a leaf, or a container that is opened.
ReadValue ==
  /\ Decoding /\ Last(frames).need > 0
  /\ LET mv == unpack_from(off)
         c == classify(mv)
     IN IF ~mv.ok THEN Raise
        ELSE IF c.kind = "raises" THEN Raise
        ELSE /\ off' = mv.end
             /\ frames' = IF c.kind = "leaf" THEN ReplaceTop(frames, Take(Last(frames), c.of))
                          ELSE Append(frames, Frame(c.kind, IF c.kind = "list" THEN c.of ELSE 2 * c.of))
             /\ UNCHANGED <<mode, result>>
  /\ UNCHANGED <<Encoder, buf>>

\* The root frame is complete: decode checks that nothing is left.  A value
\* that was received is encoded in its turn.
DecodeReturn ==
  /\ Decoding /\ Len(frames) = 1 /\ Last(frames).need = 0
  /\ LET v == Last(frames).items[1] IN
       IF off # Len(buf) THEN Raise /\ UNCHANGED Encoder
       ELSE /\ result' = v
            /\ IF out = <<>> THEN mode' = "encode" /\ value' = v /\ work' = <<v>>
               ELSE mode' = "done" /\ UNCHANGED <<value, work>>
            /\ UNCHANGED <<off, frames, out>>
  /\ UNCHANGED <<widths, buf>>
-----------------------------------------------------------------------------
(***************************************************************************)
(* encode.                                                                 *)
(***************************************************************************)
Refused == <<>>    \* ValueError, or TypeError

\* The first of the widths that a number fits in, or 0.
First(fitting) == IF fitting = {} THEN 0 ELSE Min(fitting)

\* Mutant: the least number of a width goes to the next one.
encode_int_Strict(v) ==
  LET up == First({k \in 1 .. 4 : v < Bound(k)})
      down == First({k \in 1 .. 4 : -(Bound(k) \div 2) < v})
  IN CASE v \in 0 .. 127 \/ v \in -32 .. -1 -> Pack((v % 256) \div 16, v % 16, <<>>)
       [] v > 127 -> IF up = 0 THEN Refused ELSE Pack(12, 11 + up, Octets(v, widths[up]))
       [] v < -32 -> IF down = 0 THEN Refused ELSE Pack(13, down - 1, Octets(v, widths[down]))

encode_int(v) ==
  LET up == First({k \in 1 .. 4 : v < Bound(k)})
      down == First({k \in 1 .. 4 : -(Bound(k) \div 2) <= v})
  IN CASE v \in 0 .. 127 \/ v \in -32 .. -1 -> Pack((v % 256) \div 16, v % 16, <<>>)
       [] v > 127 -> IF up = 0 THEN Refused ELSE Pack(12, 11 + up, Octets(v, widths[up]))
       [] v < -32 -> IF down = 0 THEN Refused ELSE Pack(13, down - 1, Octets(v, widths[down]))

encode_bin(data) ==
  LET k == First({w \in 1 .. 3 : Len(data) < Bound(w)}) IN
  IF k = 0 THEN Refused ELSE Pack(12, 3 + k, LenPrefixed(k, data))

encode_str(data) ==
  LET k == First({w \in 1 .. 3 : Len(data) < Bound(w)}) IN
  CASE Len(data) <= 15 -> Pack(10, Len(data), data)
    [] Len(data) \in 16 .. 31 -> Pack(11, Len(data) - 16, data)
    [] Len(data) > 31 -> IF k = 0 THEN Refused ELSE Pack(13, 8 + k, LenPrefixed(k, data))

\* encode_array_header, encode_map_header: the count in the tag, or after it.
Header(n, fix, lo4) ==
  LET k == First({w \in 2 .. 3 : n < Bound(w)}) IN
  IF n <= 15 THEN Pack(fix, n, <<>>)
  ELSE IF k = 0 THEN Refused ELSE Pack(13, lo4 + k - 2, Octets(n, widths[k]))
encode_array_header(n) == Header(n, 9, 12)
encode_map_header(n) == Header(n, 8, 14)

\* What is written for a value itself, and what it leaves on the stack.
Own(v) ==
  CASE v[1] = "nil" -> Pack(12, 0, <<>>)
    [] v[1] = "bool" -> Pack(12, IF v[2] THEN 3 ELSE 2, <<>>)
    [] v[1] = "int" -> encode_int(v[2])
    [] v[1] = "float" -> Pack(12, 11, v[2])
    [] v[1] = "bytes" -> encode_bin(v[2])
    [] v[1] = "str" -> encode_str(v[2])
    [] v[1] = "list" -> encode_array_header(Len(v[2]))
    [] v[1] = "map" -> encode_map_header(Len(v[2]))
    [] OTHER -> Refused

Inside(v) ==
  CASE v[1] = "list" -> Reverse(v[2])
    [] v[1] = "map" -> Reverse(FlattenSeq(v[2]))
    [] OTHER -> <<>>

Decoder == <<buf, off, frames, result>>

EncodeNext ==
  /\ mode = "encode" /\ work # <<>>
  /\ IF Own(Last(work)) = Refused THEN mode' = "refused" /\ UNCHANGED <<work, out>>
     ELSE /\ out' = out \o Own(Last(work))
          /\ work' = Front(work) \o Inside(Last(work))
          /\ UNCHANGED mode
  /\ UNCHANGED <<widths, value, Decoder>>

\* encode returns, and the message, or the first octets of it, is decoded.
EncodeReturn ==
  /\ mode = "encode" /\ work = <<>>
  /\ mode' = "decode" /\ off' = 0 /\ frames' = <<Frame("root", 1)>>
  /\ \E n \in 0 .. Len(out) : buf' = SubSeq(out, 1, n)
  /\ UNCHANGED <<Encoder, result>>
-----------------------------------------------------------------------------
MsgpackInit ==
  /\ widths \in Settings
  /\ \/ value \in Values[widths] /\ mode = "encode" /\ work = <<value>> /\ buf = <<>>
     \/ value = Nil /\ mode = "decode" /\ work = <<>> /\ buf \in Received[widths]
  /\ out = <<>> /\ off = 0 /\ frames = <<Frame("root", 1)>> /\ result = Nil

Over == mode \in {"done", "raised", "refused"} /\ UNCHANGED vars

MsgpackNext == EncodeNext \/ EncodeReturn \/ CloseFrame \/ ReadValue \/ DecodeReturn \/ Over

MsgpackSpec == MsgpackInit /\ [][MsgpackNext]_vars
-----------------------------------------------------------------------------
\* What the format can say: numbers of 64 bits, lengths of 32.
RECURSIVE Fits(_)
Fits(v) ==
  CASE v[1] \in {"nil", "bool", "float"} -> TRUE
    [] v[1] = "int" -> -(Bound(4) \div 2) <= v[2] /\ v[2] < Bound(4)
    [] v[1] \in {"bytes", "str"} -> Len(v[2]) < Bound(3)
    [] v[1] = "list" -> Len(v[2]) < Bound(3) /\ \A x \in ToSet(v[2]) : Fits(x)
    [] v[1] = "map" -> Len(v[2]) < Bound(3) /\ \A item \in ToSet(v[2]) : Fits(item[1]) /\ Fits(item[2])
    [] OTHER -> FALSE

\* The two loops undo each other, however deep and wherever a container is
\* empty: decode returns the value encode was given, with a dict's items in
\* their order, and refuses what was cut, wherever that was; and encode refuses
\* what the format cannot say, at any depth, and nothing else, so not what
\* decode returned.
Recoded ==
  /\ mode = "done" => buf = out /\ result = value
  /\ mode = "raised" => out = <<>> \/ buf # out
  /\ mode = "refused" => result = Nil /\ ~Fits(value)

\* encode chooses "the most compact tag that fits": no message that decode
\* accepts says the same in fewer octets than encode does.
Compact == mode = "encode" /\ result # Nil => Len(out) <= Len(buf)
=============================================================================
