------------------------------- MODULE MCDns --------------------------------
(***************************************************************************)
(* Dns with octets of three bits: labels of one octet, pointers to the     *)
(* first 16 offsets, names of at most three labels.                        *)
(***************************************************************************)
EXTENDS Dns

MCDot == 5
x == 1
y == 2
Names == {<<>>, <<MCDot>>, <<x>>, <<y, MCDot, x>>, <<y, MCDot, x, MCDot>>, <<x, MCDot, y, MCDot, x>>}
BadNames == {<<x, x>>, <<x, MCDot, MCDot>>, <<x, MCDot, x, MCDot, x, MCDot, x>>}

Data(kind, rtype, of, rest) == [kind |-> kind, rtype |-> rtype, of |-> of, rest |-> rest]
Datas ==
  {Data("ns", 1, n, <<>>) : n \in {<<>>, <<y, MCDot, x>>, <<x, MCDot, y, MCDot, x>>, <<x, x>>}}
    \cup {Data("srv", 2, n, <<>>) : n \in {<<y, MCDot, x>>, <<x, x>>}}
    \cup {Data("txt", 3, of, <<>>) : of \in {<<<<>>, <<6, 0>>>>, <<<<1, 2, 3, 4, 5, 6, 7, 0>>>>}}
    \cup {Data("a", 4, <<7>>, <<>>), Data("ds", 5, <<2, 1>>, <<>>), Data("unknown", 6, <<1, 2, 3, 4, 5, 6>>, <<>>)}
    \cup {Data("rrsig", 7, <<y, MCDot, x>>, <<3, 0>>), Data("https", 0, <<x>>, <<<<6>>, <<>>, <<1, 0>>>>)}
Records(names) == {[name |-> n, data |-> d] : n \in names, d \in Datas}

\* One or two questions, up to two records; the long ones pass offset 16.
MCMessages ==
  [questions : {<<n>> : n \in Names \cup BadNames} \cup {<<>>}, records : {<<>>}, compress : BOOLEAN]
    \cup [questions : {<<>>, <<<<x, MCDot, y, MCDot, x>>>>}, records : {<<d>> : d \in Records(Names)}, compress : BOOLEAN]
    \cup [questions : {<<<<y, MCDot, x>>>>},
          records : {<<d, e>> : d \in Records({<<x>>, <<x, MCDot, y, MCDot, x>>}), e \in Records({<<x>>, <<x, MCDot, y, MCDot, x>>})},
          compress : BOOLEAN]

\* Messages of one question or one record, of up to four octets after the
\* header, and longer ones of the octets that steer a name.
Bodies(S, n) == UNION {[1 .. k -> S] : k \in 0 .. n}
MCReceived ==
  {h \o b : h \in {<<1, 0>>, <<0, 1>>}, b \in Bodies(0 .. 7, 4)}
    \cup {<<1, 0>> \o b : b \in Bodies({0, 1, 6}, 7)}
=============================================================================
