-------------------------------- MODULE Dns ---------------------------------
(***************************************************************************)
(* DNS messages (protocols/dns.py): the part of a format that the schema   *)
(* language cannot say.  Names are compressed into pointers to absolute    *)
(* offsets through a table the whole message shares, lengths are patched   *)
(* in afterwards, and the reader follows pointers a peer chose.            *)
(*                                                                         *)
(* Octets are numbers below Octet; the top two bits of a name's octet tell *)
(* labels from pointers and the LenBits below them are the length or the   *)
(* pointer's high part, as in the code with 256 and 6.  Fixed-width parts  *)
(* are one octet each.  The three record sections, read by the same loop   *)
(* one after the other, are one.                                           *)
(***************************************************************************)
EXTENDS Integers, Sequences, FiniteSets, SequencesExt

CONSTANTS
  LenBits, Octet, MAX_NAME_WIRE,
  Dot,         \* the octet of "." in text
  Messages,    \* what DNS.pack is called on: [questions, records, compress]
  Received     \* what DNS.unpack is called on that pack did not write

\* What the types of Python say of a message: text is encoded one octet a
\* letter, chunks are bytes.
Text == Seq(0 .. Octet - 1)
RData ==
  [kind : {"ns", "srv", "a", "ds", "unknown"}, rtype : 0 .. Octet - 1, of : Text, rest : {<<>>}]
    \cup [kind : {"txt"}, rtype : 0 .. Octet - 1, of : Seq(Text), rest : {<<>>}]
    \cup [kind : {"rrsig"}, rtype : 0 .. Octet - 1, of : Text, rest : Text]
    \cup [kind : {"https"}, rtype : 0 .. Octet - 1, of : Text, rest : Seq(Text)]
Message == [questions : Seq(Text), records : Seq([name : Text, data : RData]), compress : BOOLEAN]

ASSUME DnsAssumption ==
  /\ LenBits \in Nat /\ 2 ^ LenBits \in Nat \ {0} /\ Octet = 4 * 2 ^ LenBits
  /\ MAX_NAME_WIRE \in Nat \ {0} /\ Dot \in 0 .. Octet - 1
  /\ \A m \in Messages : m \in Message
  /\ \A b \in Received : b \in Text

VARIABLES
  mode,      \* "pack", "unpack" and "name" while reading, "done", "raised"
  msg,       \* the message packed, or NoMessage
  out,       \* the bytearray being written
  table,     \* ctx["dns_names"]: suffixes already written, and where
  i,         \* how many questions and records are written
  buf,       \* the bytes being read
  r          \* the reader: where it is, and what it has read

vars == <<mode, msg, out, table, i, buf, r>>

MAX_LABEL == 2 ^ LenBits - 1
POINTER_LIMIT == 2 ^ LenBits * Octet - 1
NoMessage == [questions |-> <<>>, records |-> <<>>, compress |-> FALSE]
Nothing == [s \in {} |-> 0]

\* The types of RDATA the registry knows, by their wire tag: one compressible
\* name; numbers and a name never compressed; chunks of text; a Struct; a Struct
\* of numbers that ends in bytes up to the end of its buffer (DS, DNSKEY, TLSA,
\* SSHFP, CAA); numbers, a name and a signature up to the end of the RDATA; and
\* numbers, a name and chunks that end with the RDATA (HTTPS, NSEC).
RDataKind == [ns |-> 1, srv |-> 2, txt |-> 3, a |-> 4, ds |-> 5, rrsig |-> 7, https |-> 0]
KindOf(rtype) ==
  IF \E k \in DOMAIN RDataKind : RDataKind[k] = rtype THEN CHOOSE k \in DOMAIN RDataKind : RDataKind[k] = rtype
  ELSE "unknown"
-----------------------------------------------------------------------------
(***************************************************************************)
(* Writing.                                                                *)
(***************************************************************************)
Bad == << <<-1>> >>    \* ValueError

WireLen(labels) ==
  LET upto[k \in 0 .. Len(labels)] == IF k = 0 THEN 1 ELSE upto[k - 1] + (Len(labels[k]) + 1)
  IN  upto[Len(labels)]

\* text.split("."): a dot begins a label, any other octet goes to the last one.
Put(labels, c) ==
  IF c = Dot THEN Append(labels, <<>>) ELSE [labels EXCEPT ![Len(labels)] = Append(@, c)]
Split(text) ==
  LET upto[k \in 0 .. Len(text)] == IF k = 0 THEN << <<>> >> ELSE Put(upto[k - 1], text[k])
  IN  upto[Len(text)]
Undotted(text) == IF text # <<>> /\ Last(text) = Dot THEN Front(text) ELSE text

\* Mutant: a name of exactly MAX_NAME_WIRE bytes is too long.
encode_labels_Tight(text) ==
  LET labels == IF Undotted(text) = <<>> THEN <<>> ELSE Split(Undotted(text))
  IN IF (\A k \in DOMAIN labels : Len(labels[k]) \in 1 .. MAX_LABEL) /\ WireLen(labels) < MAX_NAME_WIRE
     THEN labels ELSE Bad

encode_labels(text) ==
  LET labels == IF Undotted(text) = <<>> THEN <<>> ELSE Split(Undotted(text))
  IN IF (\A k \in DOMAIN labels : Len(labels[k]) \in 1 .. MAX_LABEL) /\ WireLen(labels) <= MAX_NAME_WIRE
     THEN labels ELSE Bad

\* 0xC0 | (target >> 8), target & 0xFF
Pointer(target) == <<3 * 2 ^ LenBits + ((target \div Octet) % 2 ^ LenBits), target % Octet>>

\* The state of a pack: what is written, and the table.
\* Mutant: offsets that a pointer cannot hold are remembered too.
Remember_NoLimit(w, suffix) == [s \in DOMAIN w.table \cup {suffix} |-> IF s = suffix THEN Len(w.out) ELSE w.table[s]]
Remember(w, suffix) ==
  IF Len(w.out) <= POINTER_LIMIT
  THEN [s \in DOMAIN w.table \cup {suffix} |-> IF s = suffix THEN Len(w.out) ELSE w.table[s]]
  ELSE w.table

\* One turn of the loop over the labels.
NextLabel(v, labels, k, ctx) ==
  LET suffix == SubSeq(labels, k, Len(labels)) IN
  IF v.pointed THEN v
  ELSE IF ctx /\ suffix \in DOMAIN v.table
  THEN [v EXCEPT !.out = @ \o Pointer(v.table[suffix]), !.pointed = TRUE]
  ELSE [v EXCEPT !.table = IF ctx THEN Remember(v, suffix) ELSE @,
                 !.out = @ \o (<<Len(labels[k])>> \o labels[k])]

write_name(w, labels, ctx) ==
  LET upto[k \in 0 .. Len(labels)] ==
        IF k = 0 THEN [out |-> w.out, table |-> w.table, pointed |-> FALSE]
        ELSE NextLabel(upto[k - 1], labels, k, ctx)
      all == upto[Len(labels)]
  IN [out |-> IF all.pointed THEN all.out ELSE Append(all.out, 0), table |-> all.table]

Write(w) == out' = w.out /\ table' = w.table
Raise == mode' = "raised" /\ UNCHANGED <<out, table>>

\* DNS.pack: the header comes first, with the counts.
PackHeader ==
  /\ mode = "pack" /\ out = <<>>
  /\ out' = <<Len(msg.questions), Len(msg.records)>>
  /\ UNCHANGED <<mode, msg, table, i, buf, r>>

\* Question.pack_into: the name and its fixed-width tail.
PackQuestion ==
  /\ mode = "pack" /\ out # <<>> /\ i < Len(msg.questions)
  /\ LET labels == encode_labels(msg.questions[i + 1]) IN
       IF labels = Bad THEN Raise
       ELSE \E w \in {write_name([out |-> out, table |-> table], labels, msg.compress)} :
              Write([w EXCEPT !.out = Append(@, 1)]) /\ UNCHANGED mode
  /\ i' = i + 1
  /\ UNCHANGED <<msg, buf, r>>

\* TXT.pack_into
Chunked(strings) ==
  LET upto[k \in 0 .. Len(strings)] ==
        IF k = 0 THEN <<>> ELSE upto[k - 1] \o (<<Len(strings[k])>> \o strings[k])
  IN  upto[Len(strings)]

\* What follows the name; a chunk too long for its length octet raises.
NamedKinds == {"ns", "srv", "rrsig", "https"}
AfterName(data) == CASE data.kind \in {"ns", "srv"} -> <<>>
                     [] data.kind = "rrsig" -> data.rest
                     [] data.kind = "https" -> Chunked(data.rest)
TooLong(data) ==
  LET strings == CASE data.kind = "txt" -> data.of [] data.kind = "https" -> data.rest [] OTHER -> <<>>
  IN  \E k \in DOMAIN strings : Len(strings[k]) >= Octet

\* The pack_into methods of the kinds of RDATA; nothing is written where one raises.
pack_rdata(w, data, compress) ==
  LET labels == IF data.kind \in NamedKinds THEN encode_labels(data.of) ELSE <<>> IN
  IF labels = Bad \/ TooLong(data) THEN [w EXCEPT !.out = <<>>]
  ELSE CASE data.kind = "ns" -> write_name(w, labels, compress)
         [] data.kind \in {"srv", "rrsig", "https"} ->
              [write_name([w EXCEPT !.out = Append(@, 0)], labels, FALSE) EXCEPT !.out = @ \o AfterName(data)]
         [] data.kind = "txt" -> [w EXCEPT !.out = @ \o Chunked(data.of)]
         [] data.kind = "ds" -> [w EXCEPT !.out = @ \o (<<0>> \o data.of)]
         [] data.kind \in {"a", "unknown"} -> [w EXCEPT !.out = @ \o data.of]

\* ResourceRecord.pack_into: the header is written with RDLENGTH 0, and again
\* over itself once the RDATA is there.
\* Mutant: the RDATA is packed by itself and appended.
PackRecord_Apart ==
  /\ mode = "pack" /\ out # <<>> /\ i >= Len(msg.questions) /\ i < Len(msg.questions) + Len(msg.records)
  /\ LET rec == msg.records[i - Len(msg.questions) + 1]
         labels == encode_labels(rec.name)
     IN IF labels = Bad THEN Raise
        ELSE \E w \in {write_name([out |-> out, table |-> table], labels, msg.compress)} :
             \E body \in {pack_rdata([w EXCEPT !.out = <<>>], rec.data, msg.compress)} :
               Write([body EXCEPT !.out = w.out \o <<rec.data.rtype, Len(body.out)>> \o @]) /\ UNCHANGED mode
  /\ i' = i + 1
  /\ UNCHANGED <<msg, buf, r>>

PackRecord ==
  /\ mode = "pack" /\ out # <<>> /\ i >= Len(msg.questions) /\ i < Len(msg.questions) + Len(msg.records)
  /\ LET rec == msg.records[i - Len(msg.questions) + 1]
         labels == encode_labels(rec.name)
     IN IF labels = Bad THEN Raise
        ELSE \E w \in {write_name([out |-> out, table |-> table], labels, msg.compress)} :
             \E body \in {pack_rdata([w EXCEPT !.out = @ \o <<rec.data.rtype, 0>>], rec.data, msg.compress)} :
               IF body.out = <<>> THEN Raise
               ELSE LET rdlength == Len(body.out) - (Len(w.out) + 2) IN
                    IF rdlength >= Octet THEN Raise
                    ELSE Write([body EXCEPT !.out[Len(w.out) + 2] = rdlength]) /\ UNCHANGED mode
  /\ i' = i + 1
  /\ UNCHANGED <<msg, buf, r>>

\* DNS.pack returns, and all of the message arrives or its first bytes do.
Deliver ==
  /\ mode = "pack" /\ out # <<>> /\ i = Len(msg.questions) + Len(msg.records)
  /\ mode' = "unpack"
  /\ \E n \in 0 .. Len(out) : buf' = SubSeq(out, 1, n)
  /\ UNCHANGED <<msg, out, table, i, r>>
-----------------------------------------------------------------------------
(***************************************************************************)
(* Reading.  Offsets count from 0.                                         *)
(***************************************************************************)
At(off) == buf[off + 1]
Slice(from, to) == SubSeq(buf, from + 1, IF to < Len(buf) THEN to ELSE Len(buf))

Keep == <<msg, out, table, i, buf>>
Reading(part) == mode = "unpack" /\ r.part = part
Refuse == mode' = "raised" /\ UNCHANGED <<r, Keep>>
Read(s) == mode' = "unpack" /\ r' = s /\ UNCHANGED Keep

\* decode_name is called at r.off on behalf of a part of the message.
Decode(s, part) ==
  /\ mode' = "name" /\ UNCHANGED Keep
  /\ r' = [s EXCEPT !.part = part, !.resume = -1, !.labels = <<>>, !.wire = 1, !.tick = FALSE]

MessageHeader ==
  /\ Reading("header")
  /\ IF Len(buf) < 2 THEN Refuse
     ELSE Read([r EXCEPT !.part = "items", !.off = 2, !.questions = At(0), !.records = At(1)])

\* read_n: the next question or record, or the message is read.
ReadNext ==
  /\ Reading("items")
  /\ IF r.questions > 0 THEN Decode([r EXCEPT !.questions = @ - 1], "question")
     ELSE IF r.records > 0 THEN Decode([r EXCEPT !.records = @ - 1], "record")
     ELSE mode' = "done" /\ UNCHANGED <<r, Keep>>

InName == mode = "name"
NameOctet(low, high) == InName /\ r.off < Len(buf) /\ At(r.off) \in low .. high

\* Mutant: the end of the buffer ends the name.
RunsPast_Ends == InName /\ r.off >= Len(buf) /\ Read([r EXCEPT !.text = <<>>])
RunsPast == InName /\ r.off >= Len(buf) /\ Refuse

\* ".".join(labels)
Join(labels) ==
  LET upto[k \in 0 .. Len(labels)] ==
        IF k = 0 THEN <<>> ELSE IF k = 1 THEN labels[1] ELSE upto[k - 1] \o (<<Dot>> \o labels[k])
  IN  upto[Len(labels)]

\* The name, and the offset after it or after its first pointer.
NameEnds ==
  /\ NameOctet(0, 0)
  /\ Read([r EXCEPT !.off = IF r.resume = -1 THEN @ + 1 ELSE r.resume, !.text = Join(r.labels)])

\* Mutant: a pointer may lead to itself.
pointer_target_Self(off) ==
  IF off + 1 >= Len(buf) THEN -1
  ELSE LET target == (At(off) % 2 ^ LenBits) * Octet + At(off + 1) IN
       IF target > off THEN -1 ELSE target

\* -1 is ValueError.
pointer_target(off) ==
  IF off + 1 >= Len(buf) THEN -1
  ELSE LET target == (At(off) % 2 ^ LenBits) * Octet + At(off + 1) IN
       IF target >= off THEN -1 ELSE target

\* The tick makes following a pointer a step even where it leads to itself.
FollowPointer ==
  /\ NameOctet(3 * 2 ^ LenBits, Octet - 1)
  /\ LET target == pointer_target(r.off) IN
     IF target = -1 THEN Refuse
     ELSE /\ mode' = mode /\ UNCHANGED Keep
          /\ r' = [r EXCEPT !.off = target, !.resume = IF @ = -1 THEN r.off + 2 ELSE @, !.tick = ~@]

BadLabelType == NameOctet(2 ^ LenBits, 3 * 2 ^ LenBits - 1) /\ Refuse

ReadLabel ==
  /\ NameOctet(1, MAX_LABEL)
  /\ LET stop == r.off + 1 + At(r.off) IN
     IF stop > Len(buf) \/ r.wire + At(r.off) + 1 > MAX_NAME_WIRE THEN Refuse
     ELSE /\ mode' = mode /\ UNCHANGED Keep
          /\ r' = [r EXCEPT !.off = stop, !.wire = @ + At(r.off) + 1, !.labels = Append(@, Slice(r.off + 1, stop))]

\* Question.unpack, after the name.
ReadQuestion ==
  /\ Reading("question")
  /\ IF r.off >= Len(buf) THEN Refuse
     ELSE Read([r EXCEPT !.part = "items", !.off = @ + 1, !.got = Append(@, [name |-> r.text, data |-> [kind |-> "question", of |-> <<>>, rest |-> <<>>]])])

\* ResourceRecord.unpack, after the name: the header, and the RDATA.
Record(s, name, kind, of, rest) ==
  [s EXCEPT !.part = "items", !.off = s.end,
            !.got = Append(@, [name |-> name, data |-> [kind |-> kind, of |-> of, rest |-> rest]])]

\* TXT.unpack, and the loops of HTTPS.unpack and decode_type_bitmap: the chunks
\* from pos up to end, a slice short where the buffer is; Bad is an error.
Chunks(pos, end) ==
  LET chunk(c, k) ==
        IF c.pos >= end \/ c.of = Bad THEN c
        ELSE IF c.pos >= Len(buf) THEN [c EXCEPT !.of = Bad]
        ELSE [pos |-> c.pos + 1 + At(c.pos), of |-> Append(c.of, Slice(c.pos + 1, c.pos + 1 + At(c.pos)))]
  IN FoldLeft(chunk, [pos |-> pos, of |-> <<>>], [k \in 1 .. end - pos |-> k]).of

ReadRecord ==
  /\ Reading("record")
  /\ IF r.off + 1 >= Len(buf) THEN Refuse
     ELSE LET kind == KindOf(At(r.off))
              start == r.off + 2
              s == [r EXCEPT !.off = start, !.end = start + At(r.off + 1), !.owner = r.text, !.rtype = At(r.off)]
          IN \/ kind = "unknown" /\ Read(Record(s, r.text, kind, Slice(start, s.end), <<>>))
             \/ kind = "a" /\ IF Len(Slice(start, s.end)) # 1 THEN Refuse
                              ELSE Read(Record(s, r.text, kind, Slice(start, s.end), <<>>))
             \/ kind = "ds" /\ IF Slice(start, s.end) = <<>> THEN Refuse
                               ELSE Read(Record(s, r.text, kind, Slice(start + 1, s.end), <<>>))
             \/ kind = "txt" /\ \E of \in {Chunks(start, s.end)} :
                  IF of = Bad THEN Refuse ELSE Read(Record(s, r.text, kind, of, <<>>))
             \/ kind = "ns" /\ Decode(s, "rdata")
             \/ kind \in NamedKinds \ {"ns"} /\
                  IF start >= Len(buf) THEN Refuse ELSE Decode([s EXCEPT !.off = start + 1], "rdata")

\* The RDATA that has a name, after it.  Where the name ended is looked at by
\* those that have more to read, which they do up to the end of the RDATA.
ReadRData ==
  /\ Reading("rdata")
  /\ \E kind \in {KindOf(r.rtype)} :
       \/ kind \in {"ns", "srv"} /\ Read(Record(r, r.owner, kind, r.text, <<>>))
       \/ kind = "rrsig" /\ Read(Record(r, r.owner, kind, r.text, Slice(r.off, r.end)))
       \/ kind = "https" /\ \E rest \in {Chunks(r.off, r.end)} :
            IF rest = Bad THEN Refuse ELSE Read(Record(r, r.owner, kind, r.text, rest))

Over == mode \in {"done", "raised"} /\ UNCHANGED vars

Start ==
  [part |-> "header", off |-> 0, end |-> 0, resume |-> -1, labels |-> <<>>, wire |-> 1, text |-> <<>>,
   owner |-> <<>>, rtype |-> 0, questions |-> 0, records |-> 0, tick |-> FALSE, got |-> <<>>]

DnsInit ==
  /\ \/ msg \in Messages /\ mode = "pack" /\ buf = <<>>
     \/ msg = NoMessage /\ mode = "unpack" /\ buf \in Received
  /\ out = <<>> /\ table = Nothing /\ i = 0 /\ r = Start

DnsStep ==
  \/ PackHeader \/ PackQuestion \/ PackRecord \/ Deliver
  \/ MessageHeader \/ ReadNext \/ ReadQuestion \/ ReadRecord \/ ReadRData
  \/ RunsPast \/ NameEnds \/ FollowPointer \/ BadLabelType \/ ReadLabel

DnsNext == DnsStep \/ Over

Done == mode \in {"done", "raised"}

\* Weak fairness of DnsStep, which is enabled and changes r until the calls
\* return: pack and unpack run on their caller's thread.
DnsSpec == DnsInit /\ [][DnsNext]_vars /\ ([]<>Done \/ []<><<DnsStep>>_vars)
-----------------------------------------------------------------------------
\* Where a pointer at pos leads, or pos.
Hop(pos) ==
  IF pos + 1 < Len(out) /\ out[pos + 1] >= 3 * 2 ^ LenBits
  THEN (out[pos + 1] % 2 ^ LenBits) * Octet + out[pos + 2] ELSE pos

\* The labels are written from pos on, a pointer taken where one stands.
After(p, label) ==
  LET q == Hop(p) IN
  IF p >= 0 /\ q + Len(label) < Len(out) /\ SubSeq(out, q + 1, q + 1 + Len(label)) = <<Len(label)>> \o label
  THEN q + 1 + Len(label) ELSE -1
Spells(pos, labels) ==
  LET after[k \in 0 .. Len(labels)] == IF k = 0 THEN pos ELSE After(after[k - 1], labels[k])
      end == after[Len(labels)]
  IN end >= 0 /\ Hop(end) < Len(out) /\ out[Hop(end) + 1] = 0

\* The compression table is right at every moment of a pack: the offset it
\* keeps for a suffix is one from which the message spells that suffix, the
\* lengths patched in since and the records written after it notwithstanding
\* (write_name, ResourceRecord.pack_into).
TableNames == \A suffix \in DOMAIN table : Spells(table[suffix], suffix)

Written ==
  [k \in DOMAIN msg.questions |->
     [name |-> Undotted(msg.questions[k]), data |-> [kind |-> "question", of |-> <<>>, rest |-> <<>>]]]
    \o [k \in DOMAIN msg.records |->
          LET data == msg.records[k].data IN
          [name |-> Undotted(msg.records[k].name),
           data |-> [kind |-> data.kind, of |-> IF data.kind \in NamedKinds THEN Undotted(data.of) ELSE data.of,
                     rest |-> data.rest]]]

\* The k-th question or record is read as it was written, up to where its tail
\* begins, and the tail too.
HeadKept(k) ==
  LET got == r.got[k]
      wrote == Written[k]
  IN /\ got.name = wrote.name /\ got.data.kind = wrote.data.kind
     /\ wrote.data.kind \in NamedKinds => got.data.of = wrote.data.of
TailKept(k) == r.got[k].data.of = Written[k].data.of /\ r.got[k].data.rest = Written[k].data.rest

\* What pack wrote, unpack reads, with and without compression, also where the
\* message has grown past what a pointer can hold.
MessageRoundTrip ==
  (buf # <<>> /\ buf = out) =>
    /\ mode # "raised"
    /\ mode = "done" => Len(r.got) = Len(Written) /\ \A k \in DOMAIN Written : HeadKept(k) /\ TailKept(k)

\* A message of which only the first bytes arrived is refused, unless it was cut
\* in a last part that unpack takes as long as the buffer has it, and then that
\* tail of the last record is all that is lost.  Such tails have TXT and RDATA of
\* unknown types, the Structs that end in slice(len="*") or string(len="*"), RRSIG
\* and what ends in chunks (unpack_rdata, RRSIG.unpack, HTTPS.unpack).
CutNoticed ==
  (msg # NoMessage /\ mode = "done" /\ Len(buf) < Len(out)) =>
    /\ msg.records # <<>> /\ Last(msg.records).data.kind \in {"txt", "unknown", "ds", "rrsig", "https"}
    /\ Len(r.got) = Len(Written)
    /\ \A k \in DOMAIN Written : HeadKept(k) /\ (k < Len(Written) => TailKept(k))

\* A name decode_name accepts is one encode_labels accepts, and cuts into the
\* same labels, unless a label had a "." in it: the limits of the two agree.
NamesReencode ==
  (mode = "unpack" /\ r.part \in {"question", "record", "rdata"} /\ \A k \in DOMAIN r.labels : Dot \notin ToSet(r.labels[k]))
    => encode_labels(r.text) = r.labels

\* Whatever pointers a peer put in a message, it is read or refused: a pointer
\* chain descends, and what loops through labels meets the length cap
\* (pointer_target, decode_name).
UnpackEnds == <>Done
=============================================================================
