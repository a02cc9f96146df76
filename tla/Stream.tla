------------------------------- MODULE Stream -------------------------------
(***************************************************************************)
(* Streaming: the decoder called again and again on a growing prefix of    *)
(* what a peer sends.  Codec.parse keeps nothing between calls, so what    *)
(* one call promises is only kept by the next one deciding alike: Feed     *)
(* hands over more bytes and starts run_with afresh.                       *)
(***************************************************************************)
EXTENDS Unpack

CONSTANTS
  Wires,     \* what the peer sends, from the first byte on
  Streamed   \* the requests of callers that call again

ASSUME StreamAssumption ==
  /\ Wires \subseteq Seq(Byte)
  /\ Streamed \subseteq Requests /\ \A q \in Streamed : q.stream

VARIABLES
  wire,      \* what will arrive
  demand,    \* how long the buffer must be, as the last Incomplete said
  earlier    \* outcome and value of the call before this one

svars == <<vars, wire, demand, earlier>>

\* Nothing has arrived yet; or all there is to come has, and one call is made.
StreamInit ==
  /\ Init
  /\ \/ req \in Streamed /\ buf = <<>> /\ wire \in Wires
     \/ wire = buf
  /\ demand = 0
  /\ earlier = [outcome |-> Pending, val |-> NoVal]

\* n more bytes have arrived, and the caller parses again.
Feed(n) ==
  /\ mode = "done"
  /\ Len(buf) + n <= Len(wire)
  /\ buf' = SubSeq(wire, 1, Len(buf) + n)
  /\ earlier' = [outcome |-> outcome, val |-> val]
  /\ demand' = IF outcome.tag = "Incomplete" THEN Len(buf) + outcome.at ELSE demand
  /\ mode' = "idle" /\ outcome' = Pending /\ val' = NoVal
  /\ UNCHANGED <<req, ctl, frames, cur, ret, vals, wire>>

Parse == Step /\ UNCHANGED <<wire, demand, earlier>>

\* A caller that parses whenever something has arrived, whatever the last
\* call said.
Receive == \E n \in 1 .. Len(wire) : Feed(n)

\* The read loop: exactly the bytes Incomplete asks for.
ReadNeeded == outcome.tag = "Incomplete" /\ Feed(outcome.at)

\* The peer has nothing more, or the caller is satisfied.
Hangup == mode = "done" /\ UNCHANGED svars

StreamNext == Parse \/ Receive \/ ReadNeeded \/ Hangup

StreamSpec == StreamInit /\ [][StreamNext]_svars

\* A call runs to its end (WF_svars(Parse), see FairSpec), and a caller that
\* is asked for bytes the peer does send gets them.
FairStream ==
  /\ StreamSpec
  /\ []<>(mode = "done") \/ []<><<mode # "done">>_svars
  /\ WF_svars(ReadNeeded)
-----------------------------------------------------------------------------
(***************************************************************************)
(* Properties.                                                             *)
(***************************************************************************)
\* The answer of a call that has returned, as a caller takes it.
Answer(o, v) ==
  [tag |-> CASE o.tag = "Incomplete" -> "need" [] o.tag = "Ok" -> "ok" [] o.tag = "Invalid" -> "bad",
   n |-> o.at, what |-> <<o, v>>]
NoAnswer(tag) == [tag |-> tag, n |-> 0, what |-> <<Pending, NoVal>>]

Answered == mode = "done"
Decided(o) == o.tag \in {"Ok", "Invalid"}

Promise ==
  INSTANCE Framing WITH
    have <- Len(buf),
    said <- IF Answered THEN Answer(outcome, val) ELSE NoAnswer("asking"),
    floor <- IF Answered /\ outcome.tag = "Incomplete" THEN Len(buf) + outcome.at ELSE demand,
    final <- IF Decided(earlier.outcome) THEN Answer(earlier.outcome, earlier.val)
             ELSE IF Answered /\ Decided(outcome) THEN Answer(outcome, val)
             ELSE NoAnswer("undecided")

\* The decoder, called afresh on every longer prefix, keeps the promise of a
\* parser that remembers: it asks for no byte beyond the message and never for
\* less than before, accepts no earlier than it has what it asked for, and
\* bytes that arrive later change neither a success nor a rejection, for a
\* schema whose greedy fields all lie in windows ("needed" is the minimum, and
\* no overshoot).
KeepsPromise == Promise!FramingSpec

\* The read loop ends: every Incomplete makes progress, until the message is
\* decided or asks for more than the peer sends.
LoopEnds ==
  <>[](mode = "done" /\ (outcome.tag = "Incomplete" => Len(buf) + outcome.at > Len(wire)))

\* "parse() never treats a mere data shortage as malformed": a prefix of
\* something that decodes is never Invalid.
ShortageNeverInvalid ==
  mode = "done" /\ outcome.tag = "Ok" => earlier.outcome.tag # "Invalid"
=============================================================================
