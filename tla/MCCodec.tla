------------------------------ MODULE MCCodec -------------------------------
(***************************************************************************)
(* Rows of every name, in the modules that run them, with small values      *)
(* first and then with one field after another at and beyond its limits;    *)
(* one row of each name with every combination of flags; rows whose loops   *)
(* or sizes overflow int; and rows in modules they do not belong to, with   *)
(* values in fields that are not theirs.                                    *)
(***************************************************************************)
EXTENDS Codec

Kinds == {<<n, "LOAD">> : n \in {"LOAD_INP", "LOAD_WGT", "NOP-MEMORY-STAGE"}}
   \cup {<<n, "COMPUTE">> : n \in {"LOAD_ACC", "LOAD_UOP", "GEMM", "NOP-COMPUTE-STAGE",
                                   "ALU_mul", "FINISH"} \cup AluOps}
   \cup {<<n, "STORE">> : n \in {"STORE", "NOP-STORE-STAGE"}}
Idle == {"NOP-MEMORY-STAGE", "NOP-COMPUTE-STAGE", "NOP-STORE-STAGE", "FINISH"}

\* A field's place in the words makes its small value, of at most 4 bits.
Layout(name) ==
    LET layout == IF name = "ALU_mul" THEN AluLayout ELSE encode_layout(instruction_type(name))
    IN  [f \in DOMAIN layout \ {"memory_id", "alu_opcode"} |-> layout[f]]
Base(name) == [f \in Fields |->
    IF name \in Idle \/ f \notin DOMAIN Layout(name) \/ f = "reset_out" THEN 0
    ELSE 15 - Layout(name)[f].right \div 4]

RowOf(kind, flags, fields) == [name |-> kind[1], mod |-> kind[2], flags |-> flags, fields |-> fields]
Some == {"pop_prev", "push_next"}

FlagRows  == {RowOf(k, flags, Base(k[1])) : k \in Kinds, flags \in SUBSET Flags}
Limits(f, w) == {0, 2^w - 1} \cup
    (IF f \in {"dram_hi", "dram_lo"} THEN {2^15 - 1, 2^15} ELSE {2^w, 2^w + 5, -1})
LimitRows == UNION {UNION {{RowOf(k, Some, [Base(k[1]) EXCEPT ![f] = v])
                              : v \in Limits(f, Layout(k[1])[f].width)}
                             : f \in DOMAIN Layout(k[1])} : k \in {n \in Kinds : n[1] \notin Idle}}
WideRows  == {RowOf(<<n, m>>, Some, [Base(n) EXCEPT !["y_size"] = y, !["x_size"] = x])
                : <<n, m>> \in {<<"LOAD_INP", "LOAD">>, <<"LOAD_WGT", "LOAD">>,
                               <<"LOAD_ACC", "COMPUTE">>, <<"STORE", "STORE">>},
                  y \in {1, 56, 65535}, x \in {1, 14, 65535}}
LoopRows  == {RowOf(<<"GEMM", "COMPUTE">>, Some,
                  [Base("GEMM") EXCEPT !["range_1"] = r, !["gemm_outer_loop_iter"] = o,
                                       !["gemm_inner_loop_iter"] = i])
                : r \in {2, 3, 16383}, o \in {0, 56, 16383}, i \in {1, 16383}}

\* Every name, and one nobody knows, in every module, its own or not, with the
\* same value in every field, carried or not.
StrayRows == {RowOf(<<n, m>>, Some, [f \in Fields |-> IF f \in DOMAIN MemoryLayout \cup more THEN v ELSE 0])
                : n \in {k[1] : k \in Kinds} \cup {"unknown"}, m \in {"LOAD", "COMPUTE", "STORE"},
                  v \in {0, 1, 3}, more \in {{}, DOMAIN AluLayout \cup DOMAIN GemmLayout}}
  \cup {RowOf(<<n, m>>, Some, [f \in Fields |-> IF f \in {"y_size", "range_0", "range_1"} THEN 0 ELSE 3])
                : n \in {k[1] : k \in Kinds} \cup {"unknown"}, m \in {"LOAD", "COMPUTE", "STORE"}}

MCRows == StrayRows \cup FlagRows \cup LimitRows \cup WideRows \cup LoopRows

\* config.json, and other values.
MCPlatforms == {[load_cycles |-> 80, load_weigts_cycles |-> w, store_cycles |-> 40] : w \in {60, 90}}
=============================================================================
