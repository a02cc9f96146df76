----------------------------- MODULE MCMsgpack ------------------------------
(* Values at the limits of every tag, and every short message of tags. *)
EXTENDS Msgpack

\* TLC's integers have 32 bits.  With the first widths the limits of 8, 16 and
\* 32 bits are apart; with the second, those of 32 and 64 bits, and a length
\* that no tag can say is within reach.
MCNear == <<1, 2, 3, 3>>
MCWide == <<1, 1, 2, 3>>
MCSettings == {MCNear, MCWide}

Seqs(S, lo, hi) == UNION {[1 .. n -> S] : n \in lo .. hi}
Run(x, n) == [k \in 1 .. n |-> x]

\* Both sides of every limit that an int or a length meets.
Ints == {<<"int", n>> : n \in {-8388609, -8388608, -32769, -32768, -129, -128, -33, -32, -1, 0, 127, 128, 255, 256,
                               65535, 65536, 16777215, 16777216}}
Lengths == {0, 1, 15, 16, 31, 32, 255, 256}
Leaves ==
  Ints \cup {Nil, <<"bool", TRUE>>, <<"bool", FALSE>>, <<"float", <<64, 0, 255>>>>}
    \cup {<<type, Run(97, n)>> : type \in {"bytes", "str"}, n \in Lengths}

\* Small leaves, and two levels of containers over them.
Small == {Nil, <<"int", 1>>, <<"int", 300>>, <<"str", <<97>> >>}
Pairs(keys, S) == {<<k, v>> : k \in keys, v \in S}
Dicts(S) == {<<"map", d>> : d \in {d \in Seqs(Pairs(Small, S), 0, 2) : Len(d) = 2 => d[1][1] # d[2][1]}}
Lists(S) == {<<"list", s>> : s \in Seqs(S, 0, 2)}
Empty == {<<"list", <<>> >>, <<"map", <<>> >>}
Inner == Lists({Nil, <<"int", 1>>} \cup Empty) \cup {<<"map", << <<Nil, e>> >> >> : e \in Empty}
Long == {<<"list", Run(Nil, n)>> : n \in {15, 16, 255, 256}}
          \cup {<<"map", [k \in 1 .. n |-> << <<"int", k>>, Nil>>]>> : n \in {15, 16}}
Foreign == {<<"tuple", <<>> >>, <<"list", <<Nil, <<"tuple", <<>> >> >> >>}
Common == Leaves \cup Foreign \cup Lists(Inner) \cup Dicts(Small \cup Empty) \cup Long
Unsayable == {<<type, Run(97, 65536)>> : type \in {"bytes", "str"}} \cup {<<"list", Run(Nil, 65536)>>}
MCValues == [w \in MCSettings |-> IF w = MCWide THEN Common \cup Unsayable ELSE Common]

\* Numbers, lengths and counts at the limits, in every form that has room.
Longhand(w) ==
  {Pack(12, 11 + k, Octets(v[2], w[k])) : k \in 2 .. 4, v \in {v \in Ints : v[2] >= 0}}
    \cup {Pack(13, k - 1, Octets(v[2], w[k])) : k \in 2 .. 4, v \in {v \in Ints : v[2] < 0}}
    \cup {Pack(12, 3 + k, Octets(n, w[k]) \o Run(97, n)) : k \in 1 .. 3, n \in Lengths}
    \cup {Pack(13, 8 + k, Octets(n, w[k]) \o Run(97, n)) : k \in 1 .. 3, n \in Lengths}
    \cup {Pack(13, 10 + k, Octets(n, w[k]) \o Run(192, n)) : k \in 2 .. 3, n \in {0, 15, 16, 255}}

\* A tag of every class, and octets for counts and text.
Tags == {0, 1, 127, 128, 129, 144, 145, 146, 160, 161, 177, 192, 193, 194, 195, 196, 199, 202, 203, 204, 205, 206, 207, 208,
         209, 210, 211, 212, 217, 218, 220, 221, 222, 223, 224, 255}
Short ==
  Seqs(Tags, 0, 2) \cup Seqs({0, 1, 129, 130, 144, 146, 161, 192, 195}, 3, 4)
    \cup {<<tag>> \o s : tag \in Tags, s \in Seqs({0, 1, 200}, 2, 4)}
MCReceived == [w \in MCSettings |-> Longhand(w) \cup Short]
=============================================================================
