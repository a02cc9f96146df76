----------------------------- MODULE MCFrontend -----------------------------
(* Two threads that use a small hierarchy for the first time at once.      *)
EXTENDS Frontend

CONSTANTS t1, t2, base, leaf, late, outer, plain, selfish, odd, own

Scalars(n) == [i \in 1 .. n |-> [kind |-> "scalar", cls |-> NoClass]]
Nested(c) == <<[kind |-> "struct", cls |-> c]>>
Switch == <<[kind |-> "switch", cls |-> NoClass]>>

MCThreads == {t1, t2}
\* base owns the registry, in which leaf is registered; outer nests leaf and
\* switches over the registry.  late, selfish and plain may be defined on the
\* way; selfish switches over the registry it is in, and plain nests outer.
\* The second field of odd has no wire type; own has a field named self, and
\* compile_codec would refuse it as well.
MCClasses == {base, leaf, late, outer, plain, selfish, odd, own}
MCKeyed == {leaf, late, selfish}
MCBase == [c \in MCClasses |-> IF c \in MCKeyed THEN base ELSE NoClass]
MCDecl == [c \in MCClasses |-> CASE c = base -> <<>>
                                  [] c = outer -> Nested(leaf) \o Switch
                                  [] c = selfish -> Switch
                                  [] c = plain -> Nested(outer)
                                  [] c = odd -> Switch \o <<[kind |-> "bad", cls |-> NoClass]>>
                                  [] OTHER -> Scalars(1)]
MCImported == <<base, leaf, outer, odd, own>>
MCBroken == {own}
MCSound == {}
MCOps == {"construct", "pack", "unpack", "parse"}
=============================================================================
