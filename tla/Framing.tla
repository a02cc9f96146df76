------------------------------ MODULE Framing -------------------------------
(***************************************************************************)
(* What a parser promises a caller that reads messages off a stream and    *)
(* calls it again whenever more has arrived (the docstrings of Codec.parse *)
(* and Incomplete.needed), without a word on how it decodes: it may ask    *)
(* for more, never for bytes beyond the message, and once it has decided   *)
(* it says the same however much has arrived since.                        *)
(***************************************************************************)
EXTENDS Integers

VARIABLES
  have,     \* bytes that have arrived
  said,     \* the parser's last answer
  floor,    \* bytes the parser has said it needs
  final     \* the first decision

fvars == <<have, said, floor, final>>

\* An answer is a tag, a number (how many more bytes are needed, or how long
\* the message is) and what was decoded or found wrong.
Asking(s) == s.tag = "asking"
Needs(s) == s.tag = "need"
Accepts(s) == s.tag = "ok"
Decides(s) == s.tag \in {"ok", "bad"}
Open == final.tag = "undecided"

FramingInit == have \in Nat /\ Asking(said) /\ floor = 0 /\ Open

\* More has arrived, and the parser is called with all of it.
Arrive ==
  /\ ~Asking(said)
  /\ have' \in Nat /\ have' > have /\ Asking(said')
  /\ UNCHANGED <<floor, final>>

\* It asks for more, and never for less than it already did.
Need ==
  /\ Asking(said) /\ Open
  /\ Needs(said') /\ said'.n \in Nat \ {0}
  /\ floor' = have + said'.n /\ floor' >= floor
  /\ UNCHANGED <<have, final>>

\* It decides.  A message is accepted when all that was asked for is there, and
\* all of that is the message's; one byte may be enough to refuse it.
Decide ==
  /\ Asking(said)
  /\ Decides(said') /\ (Accepts(said') => said'.n \in floor .. have)
  /\ (Open \/ final = said') /\ final' = said'
  /\ UNCHANGED <<have, floor>>

FramingNext == Arrive \/ Need \/ Decide

FramingSpec == FramingInit /\ [][FramingNext]_fvars
=============================================================================
