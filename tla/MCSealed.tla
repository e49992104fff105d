------------------------------ MODULE MCSealed ------------------------------
(* One collection, with one seed at a time: created, minted, burned, archived *)
(* and created again.                                                         *)
EXTENDS Supply

CONSTANTS u1, c1, a1, f, g

Creator == [c \in Series |-> u1]
Symbol == [c \in Series |-> c]
SomeTerms == {[potential |-> 0, cap |-> 0, transferable |-> TRUE, burnable |-> TRUE]}
SomeSchemas == {NoSchema, [immutable |-> {f}, mutable |-> {g}], [immutable |-> {}, mutable |-> {g}]}
SomePayloads == {NoData, {g}}
=============================================================================
