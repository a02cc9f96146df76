# rustruct in TLA+

A verification project for [rustruct](../src/README.md): a library that compiles a
declarative description of a binary format into a small program of opcodes and
interprets that program in both directions, `unpack`/`parse` and `pack`.

The core (`crates/rustruct`) is a sequential Rust library. What is hard about it is
not threads. It is two interpreters that must agree on every program; a compiler that
decides, while a schema is still being read, which fields the encoder will have to
compute; lengths that are written after the data they count; digests over regions
that are not finished; windows inside windows; and a streaming caller who calls
`parse` again and again on a growing buffer with nothing kept between the calls.
Threads come in one layer up: the Python frontend resolves and compiles a class the
first time any thread uses it, with no lock.

- [The system](#the-system) — components, state, operations, interactions
- [Modules](#modules) — what models what, and how
- [Runs](#runs) — what TLC checks, with which bounds, and what it shows
- [Findings](#findings) — where the code and its documentation disagree
- [Proofs](#proofs) — what TLAPS proves, and how the argument goes
- [What is only model-checked](#what-is-only-model-checked), [What is not modelled](#what-is-not-modelled), [Plan](#plan)

## The system

| component | source | state | operations | must be true |
|---|---|---|---|---|
| schema compiler | `compile.rs`, `schema.rs` | open scopes (opcodes, symbols, registers, spans, digests), one activation per nested type | one per declared type, as a field and as an element; end of a scope | registers belong to one field; a reference reads the field it names; a field is derived exactly when the encoder can compute it; depth and sizes are what the interpreters will meet |
| compiled program | `program.rs` | immutable tree of opcodes | — | what the interpreters index by without checking |
| decoder | `unpack.rs` | cursor, limit, frames (registers, spans), deferred digests | one per opcode, for a field and for a value; entering and leaving a structure | no read outside its window; every call returns; the outcome tells the truth about the buffer |
| encoder | `pack.rs` | output, frames (registers, reservations, spans), digests | one per opcode; patching a reserved slot; sealing digests; `pack_into` | slots hold what was patched; all or nothing in the caller's buffer; the output decodes |
| expression machine | `expr.rs` | a stack | `eval` | checked arithmetic, the same for both interpreters |
| digests | `digest.rs` | CRC register, or sum and odd byte | `update`, `update_zeros`, `finalize` | the result does not depend on how the message was cut |
| streaming use | `rustruct-py/src/lib.rs` (`parse`), `tests/streaming.rs`, docs | the caller's buffer | feed and parse again | `needed` never overshoots; a verdict never changes; the read loop ends |
| opcode-list parser | `rustruct-py/src/parse.rs` | the C stack, the path an error will carry | one per recursive function; unwinding | objects that hold themselves end at the depth caps; a well-formed schema is accepted; an error names its field |
| codec facade | `rustruct-py/src/lib.rs` | none between calls but a key cache | `unpack`, `unpack_from`, `parse`, `pack`, `pack_into` | round trips; every name a call looks up is in the cache |
| frontend | `src/rustruct/struct.py`, `fields.py` | per-class caches and methods, a registry that freezes | class statement, construct, pack, unpack, parse, from any thread | what is cached is the class's own schema; a registration is kept or refused; every call ends |
| DNS messages | `src/rustruct/protocols/dns.py` | the table of names already written; offsets while reading | pack and unpack of a whole message, name by name | pointers lead to the name meant, and end; a cut message is noticed |
| MessagePack | `src/rustruct/formats/msgpack.py` | a work stack each way | `encode`, `decode` | the two loops undo each other; the shortest form is written |
| fixed-layout protocols and images | `inet.py`, `tcp.py`, `udp.py`, `formats/image/*` | none | declarations over the core | see [What is not modelled](#what-is-not-modelled) |

How they interact. The frontend turns a class into a list of tuples, `rustruct-py`
parses that into `schema.rs`, `compile` turns it into a `Program`, and every later call
runs `unpack.rs` or `pack.rs` on it. There is no channel between decoder and encoder
but the program and the value: that `unpack(pack(v))` works rests on the two reading
the same opcodes the same way. There is no channel between two calls of `parse` but
the caller's buffer.

The behaviours that are hard, each listed in `PROJECT.json` under `hazards` at its line
with the properties that watch it:

- *order*: a derived length is reserved, then patched by its first consumer, then
  checked by the others, in other scopes and branches; digests are verified and
  computed at scope exit, over spans recorded earlier; the compiler patches registers
  into opcodes of scopes that are still growing;
- *retry and delivery*: `Incomplete`, more bytes, the same call again; a datagram that
  was cut;
- *limits*: i64 overflow of a u64, `MAX_DEPTH`, `MAX_REGS`, `max_count`, a window that
  ends exactly at the buffer's end, arrays of empty elements, the depth caps of the
  parser, the 14 bits of a DNS pointer, the u32 accumulator of the checksum;
- *partial failure*: an error half way through `pack_into`, or frames deep;
- *interleaving*: two threads that use a class for the first time, one of them between
  any two attribute accesses of the other; registration against freezing.

## Modules

| module | models | source |
|---|---|---|
| `Wire` | integers in both byte orders, bit fields, text, the Internet checksum as a function | `unpack.rs`, `pack.rs`, `program.rs`, `digest.rs` |
| `Expr` | the postfix machine | `expr.rs` |
| `Layout` | limits, lengths, how the items of a run lie in it | `program.rs` |
| `Program` | opcodes as a flat table of addresses, and what the interpreters assume of it | `program.rs`, `compile.rs` |
| `Unpack` | the decoder | `unpack.rs` |
| `Pack` | the encoder | `pack.rs`, `model.rs` |
| `Stream` = `Unpack` + a caller | one call on all there is, or `parse` on growing prefixes | `rustruct-py/src/lib.rs`, `tests/streaming.rs` |
| `Framing` | what a parser promises a caller that reads off a stream; `Stream` implements it | the docstrings of `Codec.parse` and `Incomplete.needed` |
| `ReadLoop` = `Framing` + a socket | a loop that reads message after message, and the theorem about it | `tests/test_streaming.py`, `tests/streaming.rs`, `docs/tutorials/try-partial-input.md` |
| `Codec` = `Unpack` + `Pack` | unpack, pack, unpack, pack of each other's results; the key cache | `rustruct-py/src/lib.rs` |
| `Digest` | the hashers as state machines, and the definitions they must agree with | `digest.rs` |
| `ExprIn` | constant folding, linear forms, postfix code | `compile.rs` |
| `Compiler` | the scope machine | `compile.rs` |
| `Parse` | the parser of opcode lists, as a machine over a graph of Python objects | `rustruct-py/src/parse.rs` |
| `Frontend` | classes that resolve themselves on first use, in several threads | `struct.py`, `fields.py` |
| `Dns` | messages: names, compression, record headers patched after their data | `protocols/dns.py` |
| `Msgpack` | the loops of `decode` and `encode`, and the tags | `formats/msgpack.py` |
| `Schemas` | the programs the interpreter runs use | small versions of the formats in `tests/` and `examples/` |
| `Stacks` | lemmas on sequences used as stacks, and induction over naturals, which the proof modules share | |
| `Codec_proofs` (with those about `Unpack`), `Pack_proofs`, `Compiler_proofs`, `Parse_proofs`, `Frontend_proofs`, `Dns_proofs` | the theorems about these components | |
| `MC*` | instances for TLC | |

`PROJECT.json` maps every definition to its lines.

**Recursion becomes an explicit control stack.** `run_struct`, `run_value` and the array
loop call each other in the code. `Unpack` keeps their activations in `ctl` (position in
the program or array, where the structure started, the limit in force, the window to
leave, the digests deferred), their register frames in `frames`, and finished values in
`vals`. Every action is one opcode, whole: `DoFixed` reads the run, checks every item,
writes every register and span and advances, or fails at the first bad item. `mode` says
what the innermost activation waits for: `step` (next opcode), `value` (evaluate the
opcode at `cur`), `ret` (a value is there). An `Err` returned through `?` is `Stop`: the
call is over, whatever was open. `Pack` has the same shape, its variables named with a
`p`; its frames hold `res`, the reservations of derived fields, and `ApplyInv` is the
function that patches the first time and compares every other time.

**What a length is.** In a program it is `[expr, inv]`: the code `unpack` evaluates and
the inverse `pack` applies to the actual length. `Compiler` shows the two belong together
(`InvertsLength`); `Codec` shows what follows from it.

**The compiler has no input.** Whoever declares the schema picks the next name and type
at each step, so one run goes through every schema of a few declarations, the wrong ones
included. `scopes` are the `Scope`s of the code, `todo` the activations of
`compile_field` and `compile_elem` that wait for a type inside. What the loops of the code
do symbol by symbol is a recursive function over the list (`ResolveAll`, `CoverAll`,
`ResolveDerives`, `ResolveDigests`), so that the module can be proved about. `Compiler`
establishes what `Program`'s assumptions state of a program (`FixedOk`, `Disjoint`).

**Attribute by attribute.** In `Frontend` a step is one access to what threads share: a
lookup in a class's `__dict__`, an assignment to it, a read or write of the registry.
`stack[t]` holds the Python frames of a thread (`ensure_resolved`, `get_codec`, a
trampoline, a compiled method, a class statement), and a frame resumes with what the call
it made returns. A schema is its shape: whose fields, and for each a scalar, a nested
schema or the schemas of its cases, which is what a stale or foreign cache would get
wrong. `Registry.items` is five steps (check, copy, assign, freeze, read) and `add` three;
a list and the tuple that replaces it are two objects, so an `append` may go to a list
nobody reads any more. The interpreter's recursion limit is a bound on the stack, and
reaching it an exception.

**Objects form a graph.** `Parse` reads its schema from a heap of addresses, so a list may
hold itself. Values are kept by what the parsers tell apart (a bool, zero, a small or huge
or negative int, a byte order, any other word, a `str` that is not UTF-8, an iterable that
raises), names by their letters where the parser looks for the nearest option. An error that
is not a `SchemaError`, of the last two, goes up as it is.

**Names as octets.** `Dns` packs and unpacks real octets, three bits wide, with two bits of
label type and one of length, so a label has at most one octet and a pointer four bits.
A kind of RDATA is a shape the code reads its own way: a compressed name (`ns`), a name
never compressed (`srv`), chunks (`txt`), a `Struct` of fixed length (`a`), a `Struct` that
ends in greedy bytes (`ds`, for DS, DNSKEY, TLSA, SSHFP and CAA), a name and then bytes up to
the end of the RDATA (`rrsig`), a name and then chunks up to there (`https`, and NSEC), and
the unknown.

**Data.** In the interpreters a byte has `ByteBits` bits and an i64 has `WordBits`; the
runs use 2 and 4, so that *every* buffer of four or five bytes is tried, `U2` plays u64 and
overflows an i64 as u64 does, and 2-byte words play the 16-bit words of the checksum.
Floats are opaque raw bytes. A string is its encoded bytes; UTF-8 is cut down to characters
of one or two bytes, which is what it takes for a character to be cut. Error paths are kept
in `Parse` alone, wording nowhere; error kinds are kept.

## Runs

All runs check deadlock: a state machine that is stuck in the middle of a call is an error.

| run | instance | states | shows |
|---|---|---|---|
| `decoder` | 18 schemas, every buffer of up to 4 bytes, called once by three callers (exact, at offset 1, stream); 13 of them, whose greedy fields lie in windows, on every wire of 4 bytes and every way to cut it | 390 k | `TypeOK`, `InWindows`, `DigestsInside`, `FramesMatch`, `OutcomeInBuffer`, `Terminates`, `KeepsPromise`, `LoopEnds` |
| `codec` | 17 schemas from every buffer of up to 5 bytes; good and bad values of 20 schemas, into a new buffer or a caller's at four offsets | 247 k | `PackTypeOK`, `SlotsHold`, `IntoAllOrNothing`, `Repackable`, `OwnOutputDecodes`, `SameValue`, `RoundTrip`, `KeysCached` |
| `compiler` | every schema of 3 declarations over 35 types and 3 names | 149 k | `RegistersPlaced`, `RefsResolve`, `DerivedSound`, `SpansCover`, `InvertsLength`, `Measured` |
| `digest` | 4 CRC shapes and the Internet checksum, every message of up to 4 bytes in pieces, and pieces as long as the accumulator allows | 27 k | `DigestOfWhole` |
| `frontend` | two threads, eight classes (a base with a registry, a class that is among its own cases, one whose fields have no wire type, one whose methods cannot be generated), two calls or class statements | 144 k | `SchemasWhole`, `CallsAgree`, `InstalledUnlessRaised`, `CallsEnd` |
| `parse` | object graphs right, wrong and cyclic, over every kind and option; misspelt options | 39 k | `StackBounded`, `LocatedOnce`, `AcceptsWellFormed`, `SuggestsTypo`, `ParseEnds` |
| `dns` | messages of up to two questions or records, whole and cut, and every received message of a few octets; RDATA of eight shapes | 277 k | `TableNames`, `MessageRoundTrip`, `CutNoticed`, `NamesReencode`, `UnpackEnds` |
| `msgpack` | values on both sides of every limit, containers in containers, whole and cut; every short message of tags, and every number and length in every form that has room for it; two settings of the widths | 419 k | `Recoded`, `Compact` |
| `stream_greedy`, `frontend_race`, `frontend_late_import`, `compiler_omits` | the instance of the run they are named after, or one schema of it | | the [findings](#findings) |

What the properties say, in the order of the table:

- `InWindows`: the cursor is at or before the innermost limit, limits nest, the outermost
  is in the buffer. It is why the slices of `unpack.rs` do not panic.
- `DigestsInside`: every recorded span and every deferred digest lies between the start of
  its structure and the position that structure has read to (the cursor, or where the cursor
  returns to when a window inside is left), so that verification at scope exit hashes bytes
  that were read, and read for this structure.
- `FramesMatch`: one register frame per open structure, never more than `MAX_DEPTH`.
- `OutcomeInBuffer`: success ends in the buffer, `Incomplete` is only said to a stream and
  asks for at least one byte.
- `Terminates`: every call returns, an array to the end of its window included, whose
  elements may take no bytes at all (it is `max_count` that ends it).
- `KeepsPromise`: `Stream` implements `Framing`, the specification of a parser that
  remembers what it said. What `needed` asked for was part of the message, so a caller that
  reads exactly that takes no byte of the next one; a later call never asks for less; and
  once `Ok` or `Invalid`, more bytes change neither outcome nor value. The mapping takes
  `floor` from the last `Incomplete` and `final` from the first decision; the decoder has
  neither, it only decides alike every time.
- `LoopEnds`: reading exactly `needed` ends in a decision, or in a demand for more than
  the peer sends.
- `SlotsHold`: the slot of a patched register holds, in the output, what the register
  holds; an unpatched one is still zero (bit fields are OR-ed in).
- `IntoAllOrNothing`: `pack_into` changes the caller's buffer only when it succeeds.
- `Repackable`, `SameValue`: whatever decodes can be packed, and comes back the same (but
  for a digest with `verify=False`, which pack corrects).
- `KeysCached`: every name the decoder or the encoder looks up in the maps it has open was
  put in the cache by the separate recursion that ran at compile time (`build_key_cache`),
  whose lookups are `expect`s.
- `OwnOutputDecodes`, `RoundTrip`: whatever pack writes unpacks to the last byte, and
  packs to the same bytes again.
- `RegistersPlaced`, `RefsResolve`: see the compiler's row above; levels are counted right
  for code in structures inside, while the outer scope goes on growing.
- `DerivedSound`: derived exactly if a length reads the field, no switch does, and it is
  not constant, whichever came first and from whatever depth.
- `SpansCover`: each name of `over` leads to the span recorded by that field.
- `InvertsLength`: `a * n + b` is what the emitted code evaluates to, for every register
  value `n`, folding, subtraction and multiplication included.
- `Measured`: the depth measured on the finished tree is the number of scopes that were open
  at once, so a compiled schema never meets the decoder's depth check; and `op_static` and
  `op_min` agree where both say something.
- `DigestOfWhole`: a CRC is the remainder of polynomial division with the initial value,
  reflections and final xor, a checksum is RFC 1071's, whatever the pieces.
- `SchemasWhole`: whichever threads resolve a class, what is cached on it and compiled into
  its methods is its own schema as declared, all registered cases included.
- `CallsAgree`: a call that succeeds converts with the schema its codec was compiled from.
- `InstalledUnlessRaised`: a resolved class whose methods nobody is installing has them,
  unless generating them raised in some thread. That is the one way left: see the
  [findings](#findings).
- `CallsEnd`: every call returns or raises, a class among its own cases included.
- `StackBounded`, `ParseEnds`: however the objects refer to each other, the two caps bound
  the calls on the C stack, and the parser returns.
- `LocatedOnce`: the path in an error is that of the innermost field, not of one it passed
  on its way out (and none, if the text it quotes looks like a path already, or if the error
  is Python's own).
- `AcceptsWellFormed`: the parser accepts exactly the schemas of a separate definition of
  well-formedness, `None` options and depths at the cap included.
- `SuggestsTypo`: an option one typing error (a letter dropped, added, changed, or two
  exchanged) away from an allowed one is answered with a name one typing error away.
- `TableNames`: at every moment of a pack, each suffix in the compression table is spelled
  in the output from the offset kept for it.
- `MessageRoundTrip`, `CutNoticed`: what pack wrote unpack reads, and a prefix of it is
  refused, unless the cut is in a last part that unpack takes as long as the buffer has it:
  TXT and unknown RDATA, the `Struct`s that end in greedy bytes, RRSIG, HTTPS, NSEC. Then that
  tail of the last record is all that is lost.
- `NamesReencode`: the limits of `decode_name` and `encode_labels` are the same.
- `Recoded`: decode returns what encode was given and refuses what was cut; encode refuses
  what the format cannot say, at any depth, and nothing else.
- `Compact`: no message that decode accepts is shorter than what encode writes for its value,
  the ones in a longer form than needed included.
- `UnpackEnds`: whatever pointers a message holds, unpack returns.

Each property has a mutant in `PROJECT.json`: a change to one mapped definition, of the
kind a bug would be (a dropped overflow check, a swapped span, a frame left behind), under
which TLC finds the property violated.

**Bounds and why they are enough.** `MaxLen` 4 and 5 bytes: the longest schema needs 5
bytes for a message with a non-empty payload, and the shorter ones have room for trailing
bytes, overruns and cut-off fields; `MAX_DEPTH` 3 with one schema (`abyss`) that goes
deeper, which the compiler would refuse and `run_struct` checks nevertheless for programs
not compiled here; `MAX_REGS` and `MAX_SPANS` 2, so that they run out in the compiler;
`MaxTypes` 3 declarations with up to `MaxNest` 4 activations: a field, something that
refers to it from inside a structure or an array, and a third that refers to it in
another role. `EXPR_STACK` 3. `MaxFed` 4 bytes (odd and even pieces) in `MaxCalls` 3
updates; the long pieces end at `Longest`, as many words as the accumulator can add.

`Frontend`: `MaxCalls` 2 with two threads puts both on the first use of one class, or one
in a class statement; the registry's and every class's state carries over from the first
call to the second. `RecursionLimit` 5 frames is enough for the calls on one nested class and
too few for some that go deeper, so that methods fail to be generated for that reason too (8,
in the runs of the findings, is enough for all that do not recurse on themselves).
`ConcurrentRegistration = FALSE`: class statements run beside calls and beside each other, but
one with a registration keyword runs alone, as it does where the modules that register are
imported before threads start. It has to: the new class is in the registry before its
fields are its own (`struct.py:833-835`), so a switch resolved in between takes those of its
base class, and `frontend_late_import` shows what else happens.

`Parse`: `MAX_SCHEMA_DEPTH` 3 and `MAX_EXPR_DEPTH` 2, with graphs on both sides of each. `Dns`: `MAX_NAME_WIRE` 7 octets (three labels), messages on both sides
of offset 16, which is where pointers end. `Msgpack`: octets and tags are real. TLC's integers
have 32 bits, so the widths 1, 2, 4, 8 are 1, 2, 3, 3 in one setting, where the 32 and 64 bit
forms differ in their tags alone, and 1, 1, 2, 3 in another, where the 8 and 16 bit ones do;
in both there are ints beyond the largest. Lengths go up to 256; those of 65,536, which is
beyond every length in the second setting, are only seen refused.

**Fairness.** A call, once made, runs to its end: it is a synchronous function, and nothing
interrupts it. Formally weak fairness of the interpreter's step; `FairSpec` writes it as
`[]<>(mode = "done") \/ []<><<mode # "done">>_vars`, which says the same, since a step is
enabled exactly while the call is not done; `FairStream` repeats it for every call. `ParseSpec` and `DnsSpec` state it in the same
form for the parser and for DNS. `Frontend` has one such conjunct for each thread
(`Scheduled`): the operating system and the interpreter schedule every thread that can run,
and no step waits for another thread. Nobody has to make a call. `LoopEnds` also needs
`WF(ReadNeeded)`: the caller does read, and the peer's bytes do arrive, as long as the peer
sent them. Without that, no read loop ends.

## Findings

Four places where the code does something else than a comment, a test or the documentation
says. Each is a run whose single property TLC violates.

| run | what happens | what is said |
|---|---|---|
| `stream_greedy` | a greedy `str` outside any window is `Invalid` when the buffer ends inside a character | `docs/reference/low-level-schema.md:75`, `tests/streaming.rs:1` |
| `frontend_race` | `ensure_resolved` sets `resolved_cache` before the methods are installed; a second thread's trampoline finds it set and calls itself until `RecursionError` | `struct.py:782` |
| `frontend_late_import` | `Registry.add` appends to the list between `items()`'s copy of it and its freeze: the class statement succeeds, and its class is in no switch | `fields.py:229` |
| `compiler_omits` | a field that is the length of one field and the discriminant of another is left out by the frontend and not derived by the compiler: pack can only fail | `struct.py:735`, `tests/test_frontend_dispatch.py:87` |

The passing runs leave these schemas out where they would only repeat a finding: `decoder`
streams no greedy field outside a window, `codec` no two digests over each other.

Met while modelling, and kept out of the runs' instances or of their bounds:

- `need()` compares the limit with the buffer's length (`unpack.rs:122`), so a field that
  overruns a window that ends exactly at the buffer's end is `Incomplete`, and `Invalid` at
  the next call (`tests/windows.rs:69` says `Invalid`). `KeepsPromise` holds nevertheless:
  an answer that asks for more is not yet a decision.
- With two digests over `"*"` pack computes the first over zeros where the second will be
  (`pack.rs:237`), and its own output fails verification, although a digest "is always
  computed on pack" (`docs/reference/schema-language.md:221`). The schema is `dup`;
  `OwnOutputDecodes` fails with it.
- `msgpack.py:18` says of floats that "both widths decode on read"; the tag of a float32 has
  no case, and decode raises. `encode` of a list that holds itself never ends.
- A predicate between a derived length and its data reads a register nobody has patched
  (`pack.rs:119`), and pack fails with a missing field; `docs/explanation/opcodes.md:163`
  and `compile.rs:133` expect it to be known.
- Pack does not look at an array's `max_count` (`pack.rs:424`), unpack refuses the result
  (`docs/explanation/opcodes.md:136`).
- One `update` of more than 65,536 words of `0xFFFF` wraps the u32 before it is folded
  (`digest.rs:169`); with one more word than `Longest`, `DigestOfWhole` fails.
- `1u64 << width` in `pack.rs:687` wraps for a flag as wide as u64.
- Where generating the methods raises (`struct.py:755-764`: `SyntaxError` for a field named
  `self`, `RecursionError` near the limit), `resolved_cache` has been set (`:747`): the class
  stays resolved with its trampolines, which from then on call themselves. `InstalledUnlessRaised`
  without its exception (`spoiled`) fails so.
- An array of structures takes two levels of the parser's depth for one frame of the
  decoder, so the parser refuses schemas the decoder has frames for; the comment at
  `parse.rs:39` says a schema the decoder can handle gets as far as compiling.
- A DNS message cut inside the last part of its last record is read as if it were whole,
  where that part is taken from a slice: unknown RDATA (`dns.py:836`), DS, DNSKEY, TLSA,
  SSHFP and CAA, which end in greedy fields (`:838`), RRSIG (`:632`), the chunks of TXT
  (`:502`), HTTPS (`:760`) and NSEC (`:671`). It is the exception in `CutNoticed`.

## Proofs

`ReadLoop` proves that the promise of `Framing` gives a read loop what it needs:

| theorem | states |
|---|---|
| `LoopReadsExactly` | `LoopSpec => []NothingBeyond` |

The loop serves one connection: it calls the parser, reads what `Incomplete` asks for,
calls again with all of it, takes an accepted message off its buffer and goes on with the
next one, for any number of messages of any lengths. It never reads a byte of a message
before the one ahead of it is accepted, and then the message ends where the socket has been
read to. That is nowhere in the promise, which speaks of one message and of how far `needed`
may go, and it fails if a caller reads more than that. *The argument* (`LoopInv`): whenever
the parser is asked, what it has said it needs is what is there; so an accepted message,
which takes all that was asked for and no more than there is, takes everything, and the next
one begins with nothing. `KeepsPromise`, checked by TLC, carries the promise over to the
decoder.

`Codec_proofs` proves of the decoder, for every program that satisfies `ProgramAssumption`, every buffer,
every call, every size of byte and word and every value of `MAX_REGS`, `MAX_SPANS` and
`MAX_DEPTH`:

| theorem | states |
|---|---|
| `Invariance` | `Spec => []IInv` |
| `TypeCorrect` | `Spec => []TypeOK` |
| `ReadsInWindows` | `Spec => []InWindows` |
| `DigestsCoverRead` | `Spec => []DigestsInside` |
| `DepthBounded` | `Spec => []FramesMatch` |
| `OutcomeSound` | `Spec => []OutcomeInBuffer` |

*Assumptions.* `WireAssumption` (a byte has at least two bits, `I64Max` belongs to the word
size), `ProgramAssumption` (sizes are naturals, items lie in their run and write distinct
registers, addresses exist: what the compiler guarantees, see `CompilerPlaces`), and
`CallAssumption` (the root exists, the offset is a natural, buffers are sequences of bytes).

*Why one invariant.* None of the five is inductive alone. Leaving a structure restores the
position of the activation below: that it is in its window needs `InWindows` of the whole
stack; that there is a frame to pop needs `FramesMatch`; that a digest's spans lie before
the cursor needs the cursor to be where `InWindows` says; and all need the types.
`IInv` is their conjunction, but for the spans, and TLC checks each conjunct in the run
`decoder`. Spans come after: `ScopeInv` says, on top of `IInv`, that each lies between the start
of its structure and what was read of it.

*The argument.* An action changes the control state in one of six ways: it stops (`StopOk`,
`FailOk`, `StarveOk`, `ShortOk`), descends into a value (`DescendOk`), returns a value
(`ReturnOk`), advances over a field (`AdvanceOk`, `PassedOk`), opens a structure or an array
(`EnterOk`, `OpenOk`), or closes one (`CloseOk`). For each of these a lemma says which facts
make it preserve `IInv`; then each action has a lemma that shows these facts from its guard.
`StepOk` collects them, and `Invariance` follows with the usual temporal step.

`Pack_proofs` proves, for every program that satisfies the assumptions of `Program` and
`Pack`, every value, destination and offset, and every size of byte, word and limit:

| theorem | states |
|---|---|
| `PackInvariance` | `PackSpec => []PInv` |
| `PackTypeCorrect` | `PackSpec => []PackTypeOK` |
| `IntoAtomic` | `PackSpec => IntoAllOrNothing` |

*Hypotheses* (`Wellformed`). The values are those a caller can pass (`Val`: integers,
booleans, bytes, lists and maps of values, to any depth). The program is well scoped: some
assignment of levels to opcodes bounds the frames open there, and a length's register is in
one of them, which is what `resolve_ref` guarantees by counting scopes; `MCPack` computes
such an assignment for the schemas of the runs and TLC evaluates it, so the hypothesis is
not empty. `PowerLaw` states `b ^ 0 = 1` and `b ^ (n + 1) = b * b ^ n`, since the prover
does not know the operator.

*The invariant.* `PackTypeOK` alone is not inductive: `apply_inv` writes into a slot
reserved any number of opcodes earlier, in a frame any number of scopes out. `PInv` adds
that slots, spans and pending digests lie inside the output, which only grows; that
structures open in `pctl` and frames in `pframes` correspond one to one; that the levels of
the innermost scope are covered by the frames that are open, so that the frame an inverse
names exists; and that the value being packed is one the opcode can meet. `IntoAtomic` rests
on it because only the end of the outermost scope touches `dst`, with an output of known
length.

Its second half proves, under the same hypotheses, that patching does what it is for:

| theorem | states |
|---|---|
| `SlotsStay` | `PackSpec => []SlotsHold` |

*Assumptions.* It rests on two more facts that the compiler guarantees, both conjuncts of
`EncoderAssumption`, which TLC evaluates for the schemas of the runs: the items of a run of
bits follow one another without overlap (`finish_scope`), and no two fields of a program
have the same register (`resolve_ref` takes a new one, `patch_reg` gives it to one field).

*The invariant.* A slot keeps its value only while nothing is written over it, and that
value is the register's only while nothing else writes the register. So `SInv` says of all
the structures open at once: their slots are apart from one another, bytes from bytes and,
for neighbours in a run of bits, bits from bits of a byte they share; they are clear of
every digest reserved, which is filled in when its scope ends; and the registers a
structure has written or reserved are those of fields it has passed, so that the next field
finds its own free.

*The argument.* The lemmas it begins with know nothing of the encoder: division, powers
and digits, from which a field ORed into zero bits reads back, the bits beside it read as
before, and a number written in either byte order reads back as itself. After that there is
one lemma for each way the output changes: it grows (slots read as before, a new run
reserves zeros), a slot is patched (it reads as the value, the others as before), or a
digest is filled in (every slot reads as before). Each action is one of these, with what it
does to the frames. `SInv` is proved together with `PInv`, on which it rests for the types.

`Codec_proofs` also proves, for every program, buffer, call and value, with no hypothesis beyond
the assumptions of `Program`, `Unpack` and `Pack`:

| theorem | states |
|---|---|
| `NamesCached` | `CodecSpec => []KeysCached` |

*The argument.* `collect_op_keys` is recursive, and that some function satisfies its equation
has to be shown first: one is built from the opcodes reachable from an address (the least
set closed under `Inside`). From the equation, what is collected below an opcode contains
its own names and what is collected below the opcodes inside it. `CodecKeys` says that every
activation of either interpreter runs a program or an array within the cache of the codec
that was called, that a structure that waits for a value is at a field whose key is its own,
and that the interpreter whose turn it is not has nothing open, since the root changes when
the turn does.

`Compiler_proofs` proves, for every set of types and names, every schema made of them, any
nesting and every value of `MAX_REGS`, `MAX_SPANS`, `MAX_DEPTH` and `EXPR_STACK`:

| theorem | states |
|---|---|
| `CompilerSafe` | `CompilerSpec => []CompilerInv` |
| `CompilerPlaces` | `CompilerSpec => []RegistersPlaced` |
| `CompilerResolves` | `CompilerSpec => []RefsResolve` |
| `CompilerDerives` | `CompilerSpec => []DerivedSound` |
| `CompilerCovers` | `CompilerSpec => []SpansCover` |
| `CompilerMeasures` | `CompilerSpec => []Measured` |

*Assumptions.* `CompilerAssumption` (the limits are naturals, `MAX_DEPTH` is not zero),
`TypesAssumption` (what Rust's types say of a declaration: widths are unsigned, lists are
lists, constants are integers) and `WireAssumption`. Nothing is assumed of whether a
schema makes sense: one that does not ends in an error.

*The invariant.* What has to agree is in two places at once. Code that reads a field
further out may be in an opcode of an open scope, in the hands of an activation that waits
for a type inside, or in what was just finished; the field it reads belongs to a scope that
is still growing. Each read is therefore an *aim*: the scope it means, counted from the
outermost, the index, the name and the role. `AllHit` says that every aim meets a symbol of
that name with that register, which is noted to be read in that role; `AllNoted`, the other
way round, that no symbol is noted to be read unless there is such an aim (without it
`DerivedSound` would allow a field to be derived that no length reads). `ScopeOk` says of
one scope that symbols, items, registers and spans correspond one to one; `Level` how
activations and open scopes lie in each other; `Core` is these with the aims; `Good` adds
sizes and depths (`Depths` are the scopes open now and below what is finished, and `Peak`
says that the deepest of them is the deepest there ever was); `CompilerInv` says `Good` of
each `mode`, and `ProgOk` of a finished program.

*The argument.* A reference adds one aim and notes it (`ResolveRef` is the only place that
does). Opening a scope, finishing an opcode and handing it over only move aims from one
place to another, and the set of them stays (`Moved`). The end of a scope changes only the
fields of opcodes and items that nothing aims at (`EndFields`): that of `derived` follows
from what the symbols are noted to be read for, that of `over` is an induction over the
fields a digest lists, in which a span once given is kept and one newly given is fresh. The
five properties then follow from the invariant.

`Parse_proofs` proves, for every graph of objects (one that holds itself too), every cap and
every vocabulary:

| theorem | states |
|---|---|
| `ParseInvariance` | `ParseSpec => []IInv` |
| `CapsHold` | `ParseSpec => []StackBounded` |
| `ErrorsLocated` | `ParseSpec => []LocatedOnce` |

Nothing is assumed of the objects. Going down the stack, the depth of the types grows
strictly and so does that of the expressions above them (`Below`); a call past its entry is
within its cap. Calls of one sort are thus told apart by their depths, and there are only as
many as the cap leaves depths: a counting argument, which no check of the cap states. For
errors the invariant says that until the error has met a field, the innermost field on the
stack is the one to blame.

`Frontend_proofs` proves, for any classes and declarations, those whose methods or codecs
cannot be made included, and any number of threads:

| theorem | states |
|---|---|
| `FrontInvariance` | `FrontSpec => []FInv` |
| `CallsAgreeAlways` | `FrontSpec => []CallsAgree` |
| `MethodsInstalled` | `FrontSpec => []InstalledUnlessRaised` |
| `SchemasStayWhole` | `FrontSpec => []SchemasWhole` |

*Hypothesis.* `~ConcurrentRegistration`: a class statement with a registration keyword has the
program to itself. Accesses interleave in any way otherwise, those of other class statements
with calls included. Without it the theorems are false of the code: a switch resolved while
a class is half built (`struct.py:833-835`) takes the fields of its base class for its own,
and what that makes of a schema stays. Nothing is proved of registration itself
(`frontend_late_import`).

*The argument.* Threads that resolve the same class do so independently, and each publishes
its result. `FInv` says that a cache, once filled, never changes, because every schema a
thread is about to publish is the one the caches of the classes in it determine
(`OwnSchema`), and those were filled before it; that what frames on a stack hold agrees with
the caches; that a method is a trampoline or was compiled from its class's cache; and that
classes can be ranked in the order in which their caches were filled. The rank makes the
last theorem an induction: the schema of a class of rank `n` is the declared one because
those of its parts, of smaller rank, are.

`Dns_proofs` proves, for every message, every received sequence of octets, every size of
octet and every `MAX_NAME_WIRE`:

| theorem | states |
|---|---|
| `DnsTables` | `DnsSpec => []TableNames` |
| `DnsNames` | `DnsSpec => []NamesReencode` |

*Assumptions.* `DnsAssumption`: an octet has two bits more than a label's length, the octet
of "." is one, and messages are what Python's types say (`Message`: text, chunks of text and
tags that fit an octet), received octets are octets. Nothing else is assumed of what a peer
sends, nor that a message that is packed makes sense.

*The invariants.* `TableNames` is not inductive: an entry is made before the name it stands
for is written to its end, and the end may be a pointer. `Steady(p, tab, H)` says of what is
written so far, `p`, that in *every* message that begins with `p`, but for the octets at `H`,
each entry spells its suffix. Whatever is written later leaves that true, and `H` is the
one octet a record's length is patched into: while the RDATA is written the table must be
steady whatever that octet is going to be. Inside `write_name` the entries just made are
right in every message that goes on with the rest of the name (`Turn`); the rest is what a
pointer leads to, by the entry it was taken from, or the labels up to the zero octet.
`Steady` ranges over every message there is, so that TLC checks what follows from it,
`TableNames`. `ReaderInv` says of the reader that its labels obey the limits of `encode_labels`, that
`r.wire` is what they measure, and that the text handed on is the labels joined.

*The argument.* `SteadyGrows` and `SteadyPatched` carry the table over everything else that is
written; `SpeltSpells` follows a spelt name as `Spells` does, label by label and at most one
pointer after each. For names, `SplitJoin` shows that splitting at the dots undoes joining
where no label holds a dot, an induction over the labels in which `SplitConcat`, one over the
octets of a label, is the step.

## What is only model-checked

- Liveness: termination, the end of the read loop, of every call of the frontend, of the
  parser and of DNS unpacking.
- The value of an expression (a fold over its code, which the proofs use only through its
  type), and all that rests on what the decoder makes of the encoder's output:
  `RoundTrip`, `SameValue`, `Repackable`, `OwnOutputDecodes`, `DigestOfWhole`, `Recoded`,
  `Compact`, and of `Dns` the properties of whole messages, `MessageRoundTrip` and
  `CutNoticed`. They are inductions over data.
- `AcceptsWellFormed` and `SuggestsTypo`: what recursive functions compute.
- That `Stream` implements `Framing`: it compares two runs of the decoder on two prefixes, and
  TLC does on wires of 4 bytes.
- `InvertsLength`: it compares the value of folded code with its linear form, an induction over
  expressions, and `ExprIn`, which does the folding, declares recursive operators.

## What is not modelled

- md5, sha1 and sha256 are external crates; in the interpreters the Internet checksum, two
  bytes wide, stands for every digest. The table of named CRCs is data.
- The conversion between Python objects and the value model, and the buffer protocol
  (`lib.rs`): a tree walk and calls into CPython. `vocabulary()` describes the kind table
  and changes nothing.
- In `Compiler`: byte order, the names of encodings and algorithms; `Str` is compiled as
  `Bytes` is, up to the encoding, and shares its tag. Sizes are natural numbers without a
  limit, where the code adds `usize`s with saturating, checked and plain additions
  (`compile.rs:1116`): a schema whose sizes add up to 2^64 bytes is outside the model.
- In `Parse`: the texts of errors but for the path and the suggestion. In a schema that is
  no cycle but shares its objects, the number of paths of up to `MAX_SCHEMA_DEPTH` levels is
  exponential: the parser ends, late.
- In `Frontend`: the descriptors of fields and the text of the generated functions, which
  convert value by value; base classes of base classes.
- In `Dns`: the single types of RDATA, of which each shape stands for several (see *Names as
  octets*); RDATA with more than one name (SOA, RP), with several strings before a name
  (NAPTR) or a greedy last field that must be text (CAA), which are made of the same calls one
  after the other. The numbers before a name or a tail are one octet.
- In `Msgpack`: the real limits of 32 and 64 bits (see the bounds); text that is not ASCII, and the equality of a float with an int as keys of
  one dict; what is left out by the code itself (ext types).
- Fixed-layout protocols and image headers: declarations over the core, without state.

## Plan

1. `Compiler` against `Unpack`: minimum and static size as bounds on what the decoder
   consumes; schemas with full-width flags.
2. Proofs: that `Stream` implements `Framing`; that what the compiler establishes of its opcodes
   (`CompilerInv`) is what `Program` and `Pack` assume of theirs, as a refinement of tables.
