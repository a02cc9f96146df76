------------------------------ MODULE ReadLoop ------------------------------
(***************************************************************************)
(* The read loop (tests/test_streaming.py, and the tutorial on partial     *)
(* input): it calls the parser, reads the bytes Incomplete asks for off    *)
(* the socket, and calls again with all it has; an accepted message is     *)
(* taken off the buffer, and what follows it begins the next one.  All it  *)
(* knows of the parser is its promise (Framing), message by message.       *)
(***************************************************************************)
EXTENDS Framing, TLAPS

VARIABLES
  sock,     \* bytes read off the socket since the connection was opened
  ended     \* where in them the last message accepted ended

lvars == <<fvars, sock, ended>>

LoopInit == FramingInit /\ have = 0 /\ sock = 0 /\ ended = 0

Answers == (Need \/ Decide) /\ UNCHANGED <<sock, ended>>

\* recv(needed), appended to the buffer.
ReadMore ==
  /\ Needs(said) /\ Arrive /\ have' = have + said.n
  /\ sock' = sock + said.n /\ UNCHANGED ended

\* The buffer from the end of the message on; the parser knows nothing of it.
NextMessage ==
  /\ Accepts(said)
  /\ have' = have - said.n /\ ended' = ended + said.n
  /\ Asking(said') /\ floor' = 0 /\ Open'
  /\ UNCHANGED sock

\* A message found malformed ends the connection.
LoopNext == Answers \/ ReadMore \/ NextMessage

LoopSpec == LoopInit /\ [][LoopNext]_lvars
-----------------------------------------------------------------------------
\* The loop has read no byte beyond the message it is on: when it is accepted,
\* it ends where the socket has been read to, and the next one begins there.
NothingBeyond ==
  /\ Accepts(said) => ended + said.n = sock
  /\ Asking(said) /\ floor = 0 => ended = sock

\* What was asked for is what is there; and what is in the buffer is what was
\* read since the last message ended.
LoopInv ==
  /\ have \in Nat /\ floor \in Nat /\ ended \in Nat /\ sock = ended + have
  /\ Asking(said) => floor = have
  /\ Needs(said) => said.n \in Nat \ {0} /\ floor = have + said.n
  /\ Accepts(said) => said.n = have

LEMMA LoopInvInit == LoopInit => LoopInv
  BY DEF LoopInit, FramingInit, LoopInv, Asking, Needs, Accepts

LEMMA LoopInvNext == LoopInv /\ [LoopNext]_lvars => LoopInv'
<1> SUFFICES ASSUME LoopInv, [LoopNext]_lvars PROVE LoopInv'
  OBVIOUS
<1>1. CASE Need /\ UNCHANGED <<sock, ended>>
  BY <1>1 DEF Need, LoopInv, Asking, Needs, Accepts
<1>2. CASE Decide /\ UNCHANGED <<sock, ended>>
  <2>1. Accepts(said') => said'.n \in floor .. have /\ floor = have
    BY <1>2 DEF Decide, LoopInv
  <2>2. ~Asking(said') /\ ~Needs(said')
    BY <1>2 DEF Decide, Decides, Asking, Needs
  <2> QED
    BY <1>2, <2>1, <2>2 DEF Decide, LoopInv
\* The read makes the buffer as long as the parser said it must be.
<1>3. CASE ReadMore
  <2>1. Asking(said') /\ ~Needs(said') /\ ~Accepts(said') /\ floor' = floor
    BY <1>3 DEF ReadMore, Arrive, Asking, Needs, Accepts
  <2> QED
    BY <1>3, <2>1 DEF ReadMore, LoopInv
\* Nothing is left in the buffer for the next message to begin with.
<1>4. CASE NextMessage
  <2>1. have = said.n /\ have' = 0 /\ floor' = 0
    BY <1>4 DEF NextMessage, LoopInv
  <2>2. ~Needs(said') /\ ~Accepts(said')
    BY <1>4 DEF NextMessage, Asking, Needs, Accepts
  <2> QED
    BY <1>4, <2>1, <2>2 DEF NextMessage, LoopInv
<1>5. CASE UNCHANGED lvars
  BY <1>5 DEF lvars, fvars, LoopInv
<1> QED
  BY <1>1, <1>2, <1>3, <1>4, <1>5 DEF LoopNext, Answers

\* The loop of any number of messages, of any lengths, over a parser that keeps
\* the promise, reads no byte of a message before the one ahead of it is
\* accepted ("monotonic progress, not an overshoot", tests/streaming.rs).
THEOREM LoopReadsExactly == LoopSpec => []NothingBeyond
<1>1. LoopInv => NothingBeyond
  BY DEF LoopInv, NothingBeyond
<1> QED
  BY <1>1, LoopInvInit, LoopInvNext, PTL DEF LoopSpec
=============================================================================
