------------------------------ MODULE MCParser ------------------------------
(* Model-checking Parser: every short CSV. *)
EXTENDS Parser

Csv(n, names) == [1 .. n -> [layer: names, kind: Kinds]]

\* One layer of up to six rows, two of four in any interleaving, and layers
\* with a gap in their numbers.
ShortModels == Csv(6, {0}) \cup Csv(5, {0}) \cup Csv(4, {0, 1}) \cup Csv(3, {0, 1, 2})

\* Two layers of two blocks and one, with a prefix and a postfix.
R(n, kind) == [layer |-> n, kind |-> kind]
TwoLayers == <<
    R(0, "other"), R(0, "LOAD_INP"), R(0, "other"), R(0, "STORE"),
    R(0, "LOAD_INP"), R(0, "LOAD_INP"), R(0, "STORE"), R(0, "other"), R(0, "FINISH"),
    R(1, "other"), R(1, "LOAD_INP"), R(1, "STORE"), R(1, "FINISH")>>

MCModels == ShortModels \cup {TwoLayers}
=============================================================================
