------------------------------ MODULE Frontend ------------------------------
(***************************************************************************)
(* The declarative frontend (struct.py, fields.py): classes that resolve   *)
(* and compile themselves on first use, in whatever threads first use      *)
(* them.  There is no lock: a thread may be preempted between any two      *)
(* accesses to a class attribute or to a registry, so each such access is  *)
(* a step of its own.  A schema is kept as its shape: whose fields, and    *)
(* for each of them a scalar, a nested schema or the schemas of the cases. *)
(***************************************************************************)
EXTENDS Naturals, Sequences, FiniteSets, SequencesExt

CONSTANTS
  Threads,
  Classes,          \* the Struct subclasses of the program
  Base,             \* [Classes -> Classes \cup {NoClass}], the base class
  Decl,             \* [Classes -> Seq(Specs)], the annotations of a class
  Keyed,            \* the classes declared with a registration keyword
  Unbuildable,      \* classes for which generated code is no Python: a field named self
  Refused,          \* classes whose schema compile_codec refuses
  Imported,         \* Seq(Classes): defined before the threads start, in order
  ConcurrentRegistration,  \* may a keyed class be defined while other threads are at work?
  Ops,              \* subset of {"construct", "pack", "unpack", "parse"}
  MaxCalls,         \* bound on the calls the program makes
  RecursionLimit,   \* the frames the interpreter leaves to a call
  NoClass, None

Methods == {"init", "to", "from"}    \* __init__, to_mapping, from_mapping

\* An annotation: a scalar, a Struct subclass, a switch over the registry, or
\* something type_spec refuses.
Specs == [kind : {"scalar", "switch", "bad"}, cls : {NoClass}] \cup [kind : {"struct"}, cls : Classes]

\* The classes the statement of a class names: its base and those it nests.
Uses(c) == ({Base[c]} \ {NoClass}) \cup {Decl[c][i].cls : i \in {i \in DOMAIN Decl[c] : Decl[c][i].kind = "struct"}}

ASSUME FrontendAssumption ==
  /\ Base \in [Classes -> Classes \cup {NoClass}]
  /\ Decl \in [Classes -> Seq(Specs)]
  /\ Keyed \subseteq Classes /\ Unbuildable \subseteq Classes /\ Refused \subseteq Classes
  /\ Imported \in Seq(Classes) /\ \A c \in Range(Imported) : Uses(c) \subseteq Range(Imported)
  /\ ConcurrentRegistration \in BOOLEAN
  /\ Ops \subseteq {"construct", "pack", "unpack", "parse"}
  /\ MaxCalls \in Nat /\ RecursionLimit \in Nat
  /\ IsFiniteSet(Classes) /\ {NoClass, "cases"} \cap Classes = {}
  /\ None \notin Seq(Classes) /\ None \notin Ops

VARIABLES
  attr,       \* a class's own __dict__: wire_fields, resolved_cache, codec_cache, methods
  registry,   \* [list, entries, frozen]: the list object, self.entries, self.frozen
  stack,      \* stack[t]: the Python frames of thread t, innermost last
  outcome,    \* outcome[t]: how the last top-level call ended, and with which schemas
  calls,      \* top-level calls made so far
  named,      \* classes whose class statement has completed
  instances,  \* classes of which the program holds an instance
  spoiled     \* classes for which generating the methods has raised

vars == <<attr, registry, stack, outcome, calls, named, instances, spoiled>>
-----------------------------------------------------------------------------
(***************************************************************************)
(* Data.                                                                   *)
(***************************************************************************)
\* fields_tuple and the shapes of class c, from the fields that class w declares.
Schema(c, w, parts) == [cls |-> c, of |-> w, parts |-> parts]
Scalar == Schema(NoClass, "scalar", <<>>)
Cases(parts) == Schema(NoClass, "cases", parts)
\* Python's None where a schema may be, and where a method may be.
NoSchema == Schema(NoClass, "none", <<>>)
NoMethod == [kind |-> "none", cls |-> NoClass, schema |-> NoSchema, bound |-> <<>>]

Trampoline(c) == [kind |-> "trampoline", cls |-> c, schema |-> NoSchema, bound |-> <<>>]
Compiled(c, s, bound) == [kind |-> "compiled", cls |-> c, schema |-> s, bound |-> bound]

\* What a class statement leaves in the class's __dict__, and what is there
\* before it has run.
Fresh(c) == [wire |-> c, resolved |-> NoSchema, codec |-> NoSchema,
             init |-> Trampoline(c), to |-> Trampoline(c), from |-> Trampoline(c)]
Bare == [wire |-> NoClass, resolved |-> NoSchema, codec |-> NoSchema,
         init |-> NoMethod, to |-> NoMethod, from |-> NoMethod]

\* Attribute lookup through the base classes.
Owner(c, a, absent) == IF attr[c][a] # absent \/ Base[c] = NoClass THEN c ELSE Base[c]
WireFields(c) == attr[Owner(c, "wire", NoClass)].wire
Method(c, m) == attr[Owner(c, m, NoMethod)][m]

Done(tag, c, op, codec, run) == [tag |-> tag, cls |-> c, op |-> op, codec |-> codec, run |-> run]
Idle == Done("idle", NoClass, None, NoSchema, NoSchema)

\* A frame of the interpreter.
Frame(fn, c) == [fn |-> fn, cls |-> c, pc |-> "enter", wire |-> NoClass, parts |-> <<>>,
                 pairs |-> <<>>, cases |-> <<>>, meth |-> NoMethod, m |-> None, codec |-> NoSchema,
                 run |-> NoSchema]
EnsureResolved(c) == Frame("ensure_resolved", c)
GetCodec(c) == Frame("get_codec", c)
TopLevel(op, c) == [Frame("call", c) EXCEPT !.m = op, !.pc = IF op = "construct" THEN "convert" ELSE "enter"]
Define(c) == Frame("class", c)
\* Calling a method object.
Invoke(meth, m) ==
  [Frame(IF meth.kind = "trampoline" THEN "trampoline" ELSE "method", meth.cls)
     EXCEPT !.m = m, !.meth = meth]

Top(t) == Last(stack[t])

\* The keyed classes among the first i imported ones, in their order.
Registered[i \in 0 .. Len(Imported)] ==
  IF i = 0 THEN <<>>
  ELSE IF Imported[i] \in Keyed THEN Append(Registered[i - 1], Imported[i])
  ELSE Registered[i - 1]

FrontInit ==
  /\ attr = [c \in Classes |-> IF c \in Range(Imported) THEN Fresh(c) ELSE Bare]
  /\ registry = [list |-> Registered[Len(Imported)], entries |-> None, frozen |-> FALSE]
  /\ stack = [t \in Threads |-> <<>>]
  /\ outcome = [t \in Threads |-> Idle]
  /\ calls = 0
  /\ named = Range(Imported)
  /\ instances = {}
  /\ spoiled = {}
-----------------------------------------------------------------------------
(***************************************************************************)
(* The interpreter: a frame moves on, calls, returns or raises.  Nothing   *)
(* in the frontend catches, so an exception ends the whole call.           *)
(***************************************************************************)
Shared == <<attr, registry>>
Books == <<calls, named, instances, spoiled>>

\* resolve_cases has gone through all the pairs: that field is done.
CasesDone(f) ==
  IF Len(f.cases) < Len(f.pairs) THEN f
  ELSE [f EXCEPT !.pc = "field", !.parts = Append(@, Cases(f.cases)), !.pairs = <<>>, !.cases = <<>>]

\* A frame goes on with what the call it made returned.
Resume(f, v) ==
  CASE f.fn = "ensure_resolved" /\ f.pc = "field" -> [f EXCEPT !.parts = Append(@, v)]
    [] f.fn = "ensure_resolved" /\ f.pc = "case" -> CasesDone([f EXCEPT !.cases = Append(@, v)])
    [] f.fn = "call" /\ f.pc = "enter" -> [f EXCEPT !.pc = "convert", !.codec = v]
    [] f.fn \in {"call", "trampoline"} /\ f.pc \in {"convert", "delegate"} -> [f EXCEPT !.pc = "return", !.run = v]
    [] f.fn = "trampoline" /\ f.pc = "enter" -> [f EXCEPT !.pc = "delegate"]
    [] f.fn = "get_codec" -> [f EXCEPT !.pc = "compile", !.codec = v]
    [] f.fn = "method" -> [f EXCEPT !.parts = Append(@, Scalar)]

Goto(t, f) ==
  /\ stack' = [stack EXCEPT ![t][Len(stack[t])] = f]
  /\ UNCHANGED <<outcome, Books>>

Exit(t, e) ==
  /\ outcome' = [outcome EXCEPT ![t] = Done(e, stack[t][1].cls, stack[t][1].m, NoSchema, NoSchema)]
  /\ stack' = [stack EXCEPT ![t] = <<>>]

Raise(t, e) == Exit(t, e) /\ UNCHANGED Books

Call(t, g) ==
  IF Len(stack[t]) = RecursionLimit THEN Raise(t, "RecursionError")
  ELSE /\ stack' = [stack EXCEPT ![t] = Append(@, g)]
       /\ UNCHANGED <<outcome, Books>>

Return(t, v) ==
  /\ stack' = [stack EXCEPT ![t] = LET rest == Front(@) IN [rest EXCEPT ![Len(rest)] = Resume(@, v)]]
  /\ UNCHANGED <<outcome, Books>>

At(t, fn, pc) == stack[t] # <<>> /\ Top(t).fn = fn /\ Top(t).pc = pc
-----------------------------------------------------------------------------
(***************************************************************************)
(* ensure_resolved(cls)                                                    *)
(***************************************************************************)
\* Mutant: the cache of a base class is taken for the class's own.
CheckResolved_Inherited(t) ==
  /\ At(t, "ensure_resolved", "enter")
  /\ LET c == Top(t).cls
         found == attr[Owner(c, "resolved", NoSchema)].resolved
     IN IF found # NoSchema THEN Return(t, found)
        ELSE Goto(t, [Top(t) EXCEPT !.pc = "field", !.wire = WireFields(c)])
  /\ UNCHANGED Shared

CheckResolved(t) ==
  /\ At(t, "ensure_resolved", "enter")
  /\ LET c == Top(t).cls IN
       IF attr[c].resolved # NoSchema THEN Return(t, attr[c].resolved)
       ELSE Goto(t, [Top(t) EXCEPT !.pc = "field", !.wire = WireFields(c)])
  /\ UNCHANGED Shared

\* One turn of the loop over the fields, through type_spec.
ResolveField(t) ==
  /\ At(t, "ensure_resolved", "field")
  /\ LET f == Top(t)
         k == Len(f.parts) + 1
         spec == Decl[f.wire][k]
     IN /\ k <= Len(Decl[f.wire])
        /\ CASE spec.kind = "scalar" -> Goto(t, [f EXCEPT !.parts = Append(@, Scalar)])
             [] spec.kind = "struct" -> Call(t, EnsureResolved(spec.cls))
             [] spec.kind = "switch" -> Goto(t, [f EXCEPT !.pc = "items"])
             [] spec.kind = "bad" -> Raise(t, "TypeError")
  /\ UNCHANGED Shared

ResolveCase(t) ==
  /\ At(t, "ensure_resolved", "case")
  /\ Call(t, EnsureResolved(Top(t).pairs[Len(Top(t).cases) + 1]))
  /\ UNCHANGED Shared

\* All fields are resolved: cls.resolved_cache = resolved
Publish(t) ==
  /\ At(t, "ensure_resolved", "field")
  /\ LET f == Top(t)
         s == Schema(f.cls, f.wire, f.parts)
     IN /\ Len(f.parts) = Len(Decl[f.wire])
        /\ attr' = [attr EXCEPT ![f.cls].resolved = s]
        /\ Goto(t, [f EXCEPT !.pc = "compile", !.run = s, !.parts = <<>>])
  /\ UNCHANGED registry

\* compile_functions: from_mapping of a nested structure is bound as it is now.
\* The generated code may be no Python, and generating it takes frames; either
\* way resolved_cache is set by now and stays.
CompileRaises(t) ==
  IF Len(stack[t]) = RecursionLimit THEN "RecursionError"
  ELSE IF Top(t).cls \in Unbuildable THEN "SyntaxError"
  ELSE None

CompileMethods(t) ==
  /\ At(t, "ensure_resolved", "compile")
  /\ LET f == Top(t)
         specs == Decl[f.wire]
         bound == [i \in DOMAIN specs |->
                     IF specs[i].kind = "struct" THEN Method(specs[i].cls, "from") ELSE NoMethod]
     IN IF CompileRaises(t) = None
        THEN Goto(t, [f EXCEPT !.pc = "init", !.meth = Compiled(f.cls, f.run, bound)])
        ELSE /\ Exit(t, CompileRaises(t))
             /\ spoiled' = spoiled \cup {f.cls}
             /\ UNCHANGED <<calls, named, instances>>
  /\ UNCHANGED Shared

\* Mutant: from_mapping stays the trampoline.
InstallNext_NoFrom == [init |-> "to"]

\* The compiled methods go into cls.__dict__ one by one.
InstallNext == [init |-> "to", to |-> "from"]

InstallMethod(t) ==
  /\ \E m \in Methods :
       /\ At(t, "ensure_resolved", m)
       /\ attr' = [attr EXCEPT ![Top(t).cls][m] = Top(t).meth]
       /\ IF m \in DOMAIN InstallNext THEN Goto(t, [Top(t) EXCEPT !.pc = InstallNext[m]])
          ELSE Return(t, Top(t).run)
  /\ UNCHANGED registry
-----------------------------------------------------------------------------
(***************************************************************************)
(* Registry.items() and Registry.add(tag, cls)                             *)
(***************************************************************************)
Entries == IF registry.entries = None THEN registry.list ELSE registry.entries

ItemsCheck(t) ==
  /\ At(t, "ensure_resolved", "items")
  /\ Goto(t, [Top(t) EXCEPT !.pc = IF registry.frozen THEN "entries" ELSE "tuple"])
  /\ UNCHANGED Shared

ItemsTuple(t) ==
  /\ At(t, "ensure_resolved", "tuple")
  /\ Goto(t, [Top(t) EXCEPT !.pc = "assign", !.pairs = Entries])
  /\ UNCHANGED Shared

ItemsAssign(t) ==
  /\ At(t, "ensure_resolved", "assign")
  /\ registry' = [registry EXCEPT !.entries = Top(t).pairs]
  /\ Goto(t, [Top(t) EXCEPT !.pc = "freeze"])
  /\ UNCHANGED attr

ItemsFreeze(t) ==
  /\ At(t, "ensure_resolved", "freeze")
  /\ registry' = [registry EXCEPT !.frozen = TRUE]
  /\ Goto(t, [Top(t) EXCEPT !.pc = "entries"])
  /\ UNCHANGED attr

ItemsReturn(t) ==
  /\ At(t, "ensure_resolved", "entries")
  /\ Goto(t, CasesDone([Top(t) EXCEPT !.pc = "case", !.pairs = Entries]))
  /\ UNCHANGED Shared

AddCheck(t) ==
  /\ At(t, "class", "enter")
  /\ IF Top(t).cls \notin Keyed THEN Goto(t, [Top(t) EXCEPT !.pc = "wire"])
     ELSE IF registry.frozen THEN Raise(t, "TypeError")
     ELSE Goto(t, [Top(t) EXCEPT !.pc = "list"])
  /\ UNCHANGED Shared

\* entries = self.entries; assert isinstance(entries, list)
AddList(t) ==
  /\ At(t, "class", "list")
  /\ IF registry.entries = None THEN Goto(t, [Top(t) EXCEPT !.pc = "append"])
     ELSE Raise(t, "AssertionError")
  /\ UNCHANGED Shared

\* The append goes to the list, whatever self.entries is by now.
AddAppend(t) ==
  /\ At(t, "class", "append")
  /\ registry' = [registry EXCEPT !.list = Append(@, Top(t).cls)]
  /\ Goto(t, [Top(t) EXCEPT !.pc = "wire"])
  /\ UNCHANGED attr

\* The rest of StructMeta.__new__, in its order.
DefineNext == [wire |-> "resolved", resolved |-> "codec", codec |-> "init",
               init |-> "to", to |-> "from", from |-> "bind"]

DefineAttribute(t) ==
  /\ \E a \in DOMAIN DefineNext :
       /\ At(t, "class", a)
       /\ attr' = [attr EXCEPT ![Top(t).cls][a] = Fresh(Top(t).cls)[a]]
       /\ Goto(t, [Top(t) EXCEPT !.pc = DefineNext[a]])
  /\ UNCHANGED registry

\* The class statement binds the class's name: other code can use it.
DefineBind(t) ==
  /\ At(t, "class", "bind")
  /\ named' = named \cup {Top(t).cls}
  /\ outcome' = [outcome EXCEPT ![t] = Done("ok", Top(t).cls, None, NoSchema, NoSchema)]
  /\ stack' = [stack EXCEPT ![t] = <<>>]
  /\ UNCHANGED <<Shared, calls, instances, spoiled>>
-----------------------------------------------------------------------------
(***************************************************************************)
(* get_codec(cls), the trampolines, the compiled methods and the public    *)
(* operations on top of them.                                              *)
(***************************************************************************)
\* Mutant: the codec of a base class is taken for the class's own.
CheckCodec_Inherited(t) ==
  /\ At(t, "get_codec", "enter")
  /\ LET c == Top(t).cls
         found == attr[Owner(c, "codec", NoSchema)].codec
     IN IF found # NoSchema THEN Return(t, found) ELSE Call(t, EnsureResolved(c))
  /\ UNCHANGED Shared

CheckCodec(t) ==
  /\ At(t, "get_codec", "enter")
  /\ LET c == Top(t).cls IN
       IF attr[c].codec # NoSchema THEN Return(t, attr[c].codec) ELSE Call(t, EnsureResolved(c))
  /\ UNCHANGED Shared

StoreCodec(t) ==
  /\ At(t, "get_codec", "compile")
  /\ \/ /\ Top(t).cls \in Refused
        /\ Raise(t, "SchemaError")
        /\ UNCHANGED attr
     \/ /\ Top(t).cls \notin Refused
        /\ attr' = [attr EXCEPT ![Top(t).cls].codec = Top(t).codec]
        /\ Return(t, Top(t).codec)
  /\ UNCHANGED registry

TrampolineResolve(t) ==
  /\ At(t, "trampoline", "enter")
  /\ Call(t, EnsureResolved(Top(t).cls))
  /\ UNCHANGED Shared

\* cls.__dict__[method](...): a compiled method, or once more the trampoline.
TrampolineDelegate(t) ==
  /\ At(t, "trampoline", "delegate")
  /\ Call(t, Invoke(attr[Top(t).cls][Top(t).m], Top(t).m))
  /\ UNCHANGED Shared

\* Mutant: the trampoline starts over instead of returning.
TrampolineReturn_Again(t) ==
  /\ At(t, "trampoline", "return")
  /\ Goto(t, [Top(t) EXCEPT !.pc = "delegate"])
  /\ UNCHANGED Shared

TrampolineReturn(t) ==
  /\ At(t, "trampoline", "return")
  /\ Return(t, Top(t).run)
  /\ UNCHANGED Shared

\* A compiled method converts the fields in turn.  __init__ only stores
\* them; a nested structure is converted by the method bound for it
\* (from_mapping) or by the value's own (to_mapping), a case by the case
\* class's own, and a value no case is meant for passes through.
RunField(t) ==
  /\ At(t, "method", "enter")
  /\ LET f == Top(t)
         s == f.meth.schema
         k == Len(f.parts) + 1
         part == s.parts[k]
         through == Goto(t, Resume(f, NoSchema))
     IN IF f.m = "init" \/ k > Len(s.parts) THEN Return(t, s)
        ELSE CASE part.of = "scalar" -> through
               [] part.of = "cases" ->
                    through \/ \E j \in DOMAIN part.parts : Call(t, Invoke(Method(part.parts[j].cls, f.m), f.m))
               [] OTHER -> Call(t, Invoke(IF f.m = "from" THEN f.meth.bound[k] ELSE Method(part.cls, f.m), f.m))
  /\ UNCHANGED Shared

Defining(t) == stack[t] # <<>> /\ stack[t][1].fn = "class"
Registering(t) == Defining(t) /\ stack[t][1].cls \in Keyed

\* The public operations.  unpack looks cls.from_mapping up before it calls
\* get_codec, pack and parse look their method up after it.
Start(t, op, c) ==
  /\ stack[t] = <<>> /\ calls < MaxCalls
  /\ op \in Ops /\ c \in named
  /\ op = "pack" => c \in instances
  /\ ConcurrentRegistration \/ ~ \E u \in Threads : Registering(u)
  /\ stack' = [stack EXCEPT ![t] =
       <<[TopLevel(op, c) EXCEPT !.meth = IF op = "unpack" THEN Method(c, "from") ELSE NoMethod]>>]
  /\ calls' = calls + 1
  /\ outcome' = [outcome EXCEPT ![t] = Idle]
  /\ UNCHANGED <<Shared, named, instances, spoiled>>

\* A class statement: an import, or a definition, in the middle of the program.
\* Others go on meanwhile, but not (unless ConcurrentRegistration) while a class
\* is registered: it is in the registry before it has fields of its own.
StartDefine(t, c) ==
  /\ stack[t] = <<>> /\ calls < MaxCalls
  /\ c \notin named /\ \A u \in Threads : Defining(u) => stack[u][1].cls # c
  /\ Uses(c) \subseteq named
  /\ \/ ConcurrentRegistration
     \/ IF c \in Keyed THEN \A u \in Threads : stack[u] = <<>>
                        ELSE ~ \E u \in Threads : Registering(u)
  /\ stack' = [stack EXCEPT ![t] = <<Define(c)>>]
  /\ calls' = calls + 1
  /\ outcome' = [outcome EXCEPT ![t] = Idle]
  /\ UNCHANGED <<Shared, named, instances, spoiled>>

CallCodec(t) ==
  /\ At(t, "call", "enter")
  /\ Call(t, GetCodec(Top(t).cls))
  /\ UNCHANGED Shared

MethodOf == [construct |-> "init", pack |-> "to", unpack |-> "from", parse |-> "from"]

CallConvert(t) ==
  /\ At(t, "call", "convert")
  /\ LET f == Top(t)
         m == MethodOf[f.m]
     IN Call(t, Invoke(IF f.m = "unpack" THEN f.meth ELSE Method(f.cls, m), m))
  /\ UNCHANGED Shared

CallReturn(t) ==
  /\ At(t, "call", "return")
  /\ LET f == Top(t) IN
       /\ outcome' = [outcome EXCEPT ![t] = Done("ok", f.cls, f.m, f.codec, f.run)]
       /\ instances' = instances \cup {f.cls}
  /\ stack' = [stack EXCEPT ![t] = <<>>]
  /\ UNCHANGED <<Shared, calls, named, spoiled>>
-----------------------------------------------------------------------------
Resolution(t) ==
  \/ CheckResolved(t) \/ ResolveField(t) \/ ResolveCase(t)
  \/ Publish(t) \/ CompileMethods(t) \/ InstallMethod(t)
  \/ ItemsCheck(t) \/ ItemsTuple(t) \/ ItemsAssign(t) \/ ItemsFreeze(t) \/ ItemsReturn(t)

Definition(t) ==
  AddCheck(t) \/ AddList(t) \/ AddAppend(t) \/ DefineAttribute(t) \/ DefineBind(t)

Operation(t) ==
  \/ CheckCodec(t) \/ StoreCodec(t)
  \/ TrampolineResolve(t) \/ TrampolineDelegate(t) \/ TrampolineReturn(t) \/ RunField(t)
  \/ CallCodec(t) \/ CallConvert(t) \/ CallReturn(t)

ThreadStep(t) == Resolution(t) \/ Definition(t) \/ Operation(t)

Begin(t) == \E c \in Classes : StartDefine(t, c) \/ \E op \in Ops : Start(t, op, c)

\* No call is under way, and the program makes none any more.
Quiet == (\A t \in Threads : stack[t] = <<>>) /\ UNCHANGED vars

FrontNext == Quiet \/ \E t \in Threads : ThreadStep(t) \/ Begin(t)

\* The interpreter schedules every thread, and whether a thread makes another
\* call is up to the program: WF_vars(ThreadStep(t)), spelled out, as a step of
\* a thread is possible exactly while it is in a call and changes its stack.
Scheduled(t) == []<>(stack[t] = <<>>) \/ []<><<stack'[t] # stack[t]>>_vars

FrontSpec == FrontInit /\ [][FrontNext]_vars /\ \A t \in Threads : Scheduled(t)
-----------------------------------------------------------------------------
(***************************************************************************)
(* Properties.                                                             *)
(***************************************************************************)
\* The schema of a class over the given schemas of the classes in it, and what
\* the declarations and the registry say it is, n classes deep.
Over(schemas, c) ==
  Schema(c, c, [i \in DOMAIN Decl[c] |->
    CASE Decl[c][i].kind = "struct" -> schemas[Decl[c][i].cls]
      [] Decl[c][i].kind = "switch" -> Cases([j \in DOMAIN Entries |-> schemas[Entries[j]]])
      [] OTHER -> Scalar])
DeclaredTo[n \in 0 .. Cardinality(Classes)] ==
  [c \in Classes |-> IF n = 0 THEN NoSchema ELSE Over(DeclaredTo[n - 1], c)]

\* Whichever threads resolve a class, and however their steps interleave,
\* what is cached on it and compiled into its methods is its own schema as
\* declared, with every registered class among the cases ("cached once on
\* `cls.resolved_cache` and never touched again"; no method or cache of an
\* ancestor leaks in).
SchemasWhole ==
  LET declared == DeclaredTo[Cardinality(Classes)] IN
  \A c \in named :
    /\ {attr[c].resolved, attr[c].codec} \ {NoSchema} \subseteq {declared[c]}
    /\ \A m \in Methods : attr[c][m] = Trampoline(c) \/ (attr[c][m].cls = c /\ attr[c][m].schema = declared[c])

\* A class statement that succeeds has registered its class: "a loud,
\* immediate error instead of a silent no-op".
RegistrationsKept ==
  \A c \in named \cap Keyed : c \in Range(Entries)

\* A call that succeeds converted its values with the schema its codec was
\* compiled from, that of the class it was made on.
CallsAgree ==
  \A t \in Threads : outcome[t].tag = "ok" /\ outcome[t].op # None =>
    /\ outcome[t].run.cls = outcome[t].cls
    /\ outcome[t].op # "construct" => outcome[t].codec = outcome[t].run

\* A class that is resolved has its compiled methods, or a thread is still
\* installing them: a trampoline "resolves+compiles (idempotent, cached) on
\* first call", so what a call meets halfway does not last.  That is so of
\* every class for which compile_functions has raised in no thread: nothing
\* else that happens between the assignment to resolved_cache and the last
\* method, in any thread, leaves a trampoline behind for good.
InstalledUnlessRaised ==
  \A c \in named \ spoiled :
    attr[c].resolved = NoSchema
    \/ \A m \in Methods : attr[c][m].kind = "compiled"
    \/ \E t \in Threads : \E i \in DOMAIN stack[t] :
         stack[t][i].cls = c /\ stack[t][i].pc \in Methods \cup {"compile"}

\* Every call ends, with a result or an exception, whatever the other
\* threads do and even if a class is among its own cases.
CallsEnd == \A t \in Threads : stack[t] # <<>> ~> stack[t] = <<>>

\* A trampoline "resolves+compiles (idempotent, cached) on first call and
\* immediately delegates this same call to the freshly-compiled version":
\* it never calls itself until the interpreter gives up (as the resolution of
\* a class that is among its own cases does).
DelegatesToCompiled ==
  \A t \in Threads : outcome[t].tag = "RecursionError" =>
    \E c \in Range(Entries) : \E i \in DOMAIN Decl[c] : Decl[c][i].kind = "switch"
=============================================================================
