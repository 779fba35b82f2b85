--------------------------- MODULE MCMemoryCache ----------------------------
(* Files of four rows in two groups, with up to three addresses in the order *)
(* d1, d2, d3 of their first use; 256 + 32 fit, 256 + 32 + 16 do not.        *)
EXTENDS MemoryCache

Drams == <<"d1", "d2", "d3">>
Kinds == [name : {"LOAD INP"}, elements : {1, 2}] \cup [name : {"LOAD WGT"}, elements : {1}]
           \cup [name : {"STORE"}, elements : {1}] \cup [name : {"LOAD ACC"}, elements : {1}]
Orders == {o \in [1 .. 4 -> 1 .. 3] : \A k \in 1 .. 4 : o[k] > 1 => \E j \in 1 .. k - 1 : o[j] = o[k] - 1}
MCInputs ==
    {[k \in 1 .. 4 |-> [name |-> f[k].name, elements |-> f[k].elements,
                        dram |-> Drams[o[k]], key |-> IF k <= 2 THEN 1 ELSE 2]] :
        f \in [1 .. 4 -> Kinds], o \in Orders}
=============================================================================
