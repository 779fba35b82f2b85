------------------------------- MODULE Codec --------------------------------
(***************************************************************************)
(* What becomes of a row of the CSV between the parser and the module that   *)
(* executes it: encode() packs it into two 64-bit words, the words travel   *)
(* through the queues, the decoding constructor makes an Instruction of     *)
(* them (instruction.cpp), and the module asks it how long it runs          *)
(* (latency() of the three modules).  The rest of the project works with    *)
(* the decoded flags and the latency as given; here is where they come from.*)
(*                                                                          *)
(* A word is the set of the bits in it that are 1, numbered as the code      *)
(* numbers them, from 63 down to 0.  The DRAM address is held in two halves *)
(* of 16 bits.  An int computation that overflows is undefined: a value     *)
(* that may be is the set of its possible values, empty when there is none. *)
(***************************************************************************)
EXTENDS Integers

CONSTANTS Rows,         \* rows of the CSV
          Platforms     \* configurations: [load_cycles, load_weigts_cycles, store_cycles]

VARIABLES
    row,        \* the row as the parser read it
    platform,   \* PlatformConfig
    phase,      \* "parsed", "encoded", "decoded", "timed", or "threw"
    words,      \* the two words
    current,    \* the decoded instruction
    ns          \* the value of latency()

vars == <<row, platform, phase, words, current, ns>>

Flags   == {"pop_prev", "pop_next", "push_prev", "push_next"}
LoadOps == {"LOAD_ACC", "LOAD_UOP", "LOAD_INP", "LOAD_WGT", "NOP-MEMORY-STAGE"}
AluOps  == {"ALU_add", "ALU_add_imm", "ALU_max_imm", "ALU_min_imm", "ALU_shr"}
LOAD   == 0
STORE  == 1
GEMM   == 2
FINISH == 3
ALU    == 4

\* Mutant: two lines of the table are swapped.
memory_id_swapped(name) ==
    CASE name = "LOAD_WGT" -> 2 [] name = "LOAD_INP" -> 1
      [] name = "LOAD_ACC" -> 3 [] name = "STORE" -> 4 [] OTHER -> 0

\* Maps read with operator[]: the value of a missing key is the zero one.
instruction_type(name) ==
    CASE name \in LoadOps                       -> LOAD
      [] name \in {"GEMM", "NOP-COMPUTE-STAGE"} -> GEMM
      [] name \in AluOps                        -> ALU
      [] name = "FINISH"                        -> FINISH
      [] name \in {"NOP-STORE-STAGE", "STORE"}  -> STORE
      [] OTHER                                  -> LOAD

memory_id(name) ==
    CASE name = "LOAD_WGT" -> 1 [] name = "LOAD_INP" -> 2
      [] name = "LOAD_ACC" -> 3 [] name = "STORE" -> 4 [] OTHER -> 0

alu_opcode(name) ==
    CASE name = "ALU_max_imm" -> 1
      [] name \in {"ALU_add", "ALU_add_imm"} -> 2
      [] name = "ALU_shr" -> 3 [] name = "ALU_mul" -> 4 [] OTHER -> 0

\* The names the decoder has for the memories and the ALU's operations; it
\* puts "LOAD " or "STORE " before the memory's.
load_names  == <<"LOAD_UOP", "LOAD_WGT", "LOAD_INP", "LOAD_ACC", "LOAD_STORE">>
store_names == <<"STORE_UOP", "STORE_WGT", "STORE_INP", "STORE_ACC", "STORE_STORE">>
alu_names   == <<"ALU_min_imm", "ALU_max_imm", "ALU_add", "ALU_shr", "ALU_mul">>

(***************************************************************************)
(* Where the words hold a field: in width bits of a word, from left         *)
(* downwards, as `left' runs over the widths of vta_config.h.  A layout     *)
(* places the fields by their names.                                        *)
(***************************************************************************)
At(word, left, width) == [word |-> word, right |-> left - width + 1, width |-> width]

HeadLayout == [opcode    |-> At(1, 63, 3),
               pop_prev  |-> At(1, 60, 1), pop_next  |-> At(1, 59, 1),
               push_prev |-> At(1, 58, 1), push_next |-> At(1, 57, 1)]

MemoryLayout == [memory_id |-> At(1, 56, 3),  sram    |-> At(1, 53, 16),
                 dram_hi   |-> At(1, 37, 16), dram_lo |-> At(1, 21, 16),
                 y_size    |-> At(2, 63, 16), x_size  |-> At(2, 47, 16), stride |-> At(2, 31, 16),
                 y0_pad    |-> At(2, 15, 4),  y1_pad  |-> At(2, 11, 4),
                 x0_pad    |-> At(2, 7, 4),   x1_pad  |-> At(2, 3, 4)]

GemmLayout == [reset_out |-> At(1, 56, 1), range_0 |-> At(1, 55, 13), range_1 |-> At(1, 42, 14),
               gemm_outer_loop_iter |-> At(1, 28, 14), gemm_inner_loop_iter |-> At(1, 14, 14),
               gemm_outer_loop_acc  |-> At(2, 63, 11), gemm_inner_loop_acc  |-> At(2, 52, 11),
               gemm_outer_loop_inp  |-> At(2, 41, 11), gemm_inner_loop_inp  |-> At(2, 30, 11),
               gemm_outer_loop_wgt  |-> At(2, 19, 10), gemm_inner_loop_wgt  |-> At(2, 9, 10)]

AluLayout == [reset_out |-> At(1, 56, 1), range_0 |-> At(1, 55, 13), range_1 |-> At(1, 42, 14),
              alu_outer_loop_iter |-> At(1, 28, 14), alu_inner_loop_iter |-> At(1, 14, 14),
              alu_outer_loop_dst  |-> At(2, 63, 11), alu_inner_loop_dst  |-> At(2, 52, 11),
              alu_outer_loop_src  |-> At(2, 41, 11), alu_inner_loop_src  |-> At(2, 30, 11),
              alu_opcode          |-> At(2, 19, 3)]

\* The decoder puts the loop counts of an ALU instruction into the GEMM fields.
AluDecoded == [reset_out |-> At(1, 56, 1), range_0 |-> At(1, 55, 13), range_1 |-> At(1, 42, 14),
               gemm_outer_loop_iter |-> At(1, 28, 14), gemm_inner_loop_iter |-> At(1, 14, 14),
               alu_outer_loop_dst   |-> At(2, 63, 11), alu_inner_loop_dst   |-> At(2, 52, 11),
               alu_outer_loop_src   |-> At(2, 41, 11), alu_inner_loop_src   |-> At(2, 30, 11),
               alu_opcode           |-> At(2, 19, 3)]

\* Mutant: the inner loop count of a GEMM goes one bit too far to the left.
encode_layout_overlapping(opcode) ==
    CASE opcode \in {LOAD, STORE} -> MemoryLayout
      [] opcode = GEMM            -> [GemmLayout EXCEPT !["gemm_inner_loop_iter"] = At(1, 15, 14)]
      [] opcode = ALU             -> AluLayout
      [] opcode = FINISH          -> << >>

\* FINISH carries nothing; the decoder reads it as a GEMM.
encode_layout(opcode) ==
    CASE opcode \in {LOAD, STORE} -> MemoryLayout
      [] opcode = GEMM            -> GemmLayout
      [] opcode = ALU             -> AluLayout
      [] opcode = FINISH          -> << >>

decode_layout(opcode) ==
    CASE opcode \in {LOAD, STORE}  -> MemoryLayout
      [] opcode \in {GEMM, FINISH} -> GemmLayout
      [] opcode = ALU              -> AluDecoded

Fields == DOMAIN MemoryLayout \cup DOMAIN GemmLayout \cup DOMAIN AluLayout

\* The member initialisers of Instruction.
Defaults == [f \in Fields |-> IF f \in DOMAIN MemoryLayout \cup {"reset_out", "range_0", "range_1"}
                              THEN 0 ELSE -1]

Bit(b) == IF b THEN 1 ELSE 0

\* range(left, right) = value, for the fields of a layout in one word: the
\* low bits of the value, of an int in two's complement.
Written(layout, word, value) ==
    {b \in 0 .. 63 : \E f \in DOMAIN layout :
        LET at == layout[f]
        IN  /\ at.word = word
            /\ at.right <= b /\ b < at.right + at.width
            /\ (value[f] \div 2^(b - at.right)) % 2 = 1}

\* range(left, right).to_uint().  No field is wider than 16 bits.
Read(ws, at) ==
    LET bit(k) == IF k < at.width /\ at.right + k \in ws[at.word] THEN 2^k ELSE 0
    IN  bit(0) + bit(1) + bit(2) + bit(3) + bit(4) + bit(5) + bit(6) + bit(7)
          + bit(8) + bit(9) + bit(10) + bit(11) + bit(12) + bit(13) + bit(14) + bit(15)

\* The parser's rows; mod is the module that is to run the row.
Row == [name : STRING, mod : {"LOAD", "COMPUTE", "STORE"}, flags : SUBSET Flags,
        fields : [Fields -> Int]]

ASSUME RowsAssumption == Rows \subseteq Row

ASSUME PlatformsAssumption ==
    Platforms \subseteq [load_cycles : Int, load_weigts_cycles : Int, store_cycles : Int]

-----------------------------------------------------------------------------
Init ==
    /\ row \in Rows
    /\ platform \in Platforms
    /\ phase = "parsed"
    /\ words = << >> /\ current = << >> /\ ns = {}

\* What encode() writes: opcode and flags, and the fields, of which the two
\* codes come from the name, and get_reset_out() is a bool.
Head(r) == [f \in DOMAIN HeadLayout |->
               IF f = "opcode" THEN instruction_type(r.name) ELSE Bit(f \in r.flags)]
Encoded(r) == [f \in Fields |->
    CASE f = "memory_id"  -> memory_id(r.name)
      [] f = "alu_opcode" -> alu_opcode(r.name)
      [] f = "reset_out"  -> Bit(r.fields[f] # 0)
      [] OTHER            -> r.fields[f]]

Words(r) ==
    LET layout == encode_layout(instruction_type(r.name))
        word(w) == Written(HeadLayout, w, Head(r)) \cup Written(layout, w, Encoded(r))
    IN  <<word(1), word(2)>>

\* std::stoi of an address that is no int throws, and nobody catches.
encode ==
    LET throws == instruction_type(row.name) \in {LOAD, STORE} /\ row.fields["dram_hi"] >= 2^15
    IN  /\ phase = "parsed"
        /\ \/ throws /\ phase' = "threw" /\ UNCHANGED words
           \/ ~throws /\ phase' = "encoded" /\ words' = Words(row)
        /\ UNCHANGED <<row, platform, current, ns>>

\* Mutant: FINISH is named by the branch it shares with GEMM.
finish_decoded_as_gemm(opcode, fields) ==
    CASE opcode = LOAD  -> load_names[fields["memory_id"] + 1]
      [] opcode = STORE -> store_names[fields["memory_id"] + 1]
      [] opcode \in {GEMM, FINISH} -> "GEMM"
      [] opcode = ALU   -> alu_names[fields["alu_opcode"] + 1]

\* The name the decoder gives: the row's name is lost.
DecodedName(opcode, fields) ==
    CASE opcode = LOAD   -> load_names[fields["memory_id"] + 1]
      [] opcode = STORE  -> store_names[fields["memory_id"] + 1]
      [] opcode = GEMM   -> "GEMM"
      [] opcode = FINISH -> "FINISH"
      [] opcode = ALU    -> alu_names[fields["alu_opcode"] + 1]

\* Instruction::Instruction(data).
Instruction(ws, mod) ==
    LET opcode == Read(ws, HeadLayout["opcode"])
        layout == decode_layout(opcode)
        fields == [f \in Fields |-> IF f \in DOMAIN layout THEN Read(ws, layout[f]) ELSE Defaults[f]]
    IN  [name |-> DecodedName(opcode, fields), mod |-> mod, fields |-> fields,
         flags |-> {f \in Flags : Read(ws, HeadLayout[f]) = 1}]

decode ==
    /\ phase = "encoded"
    /\ phase' = "decoded"
    /\ current' = Instruction(words, row.mod)
    /\ UNCHANGED <<row, platform, words, ns>>

-----------------------------------------------------------------------------
(* latency() *)

IntMax == 2147483647
Magnitude(a) == IF a < 0 THEN -a ELSE a

\* int arithmetic on sets of possible values.
Times(A, B) == {q[1] * q[2] : q \in {p \in A \X B :
                   p[2] = 0 \/ Magnitude(p[1]) <= IntMax \div Magnitude(p[2])}}
Plus(A, B)  == {q[1] + q[2] : q \in {p \in A \X B :
                   IF p[2] >= 0 THEN p[1] <= IntMax - p[2] ELSE p[1] >= -IntMax - p[2]}}

\* y_size * 100 + cycles * ceil(y_size * x_size / per), the division in double.
Transfer(y, x, cycles, per) ==
    LET blocks(n) == (n - 1) \div per + 1
    IN  Plus({y * 100}, Times({cycles}, {blocks(n) : n \in Times({y}, {x})}))

outer_loop_iter(i) ==
    CASE i.name \in {"LOAD_UOP", "LOAD_ACC", "FINISH", "NOP-COMPUTE-STAGE"} -> 0
      [] i.name = "GEMM" -> i.fields["gemm_outer_loop_iter"]
      [] OTHER           -> i.fields["alu_outer_loop_iter"]
inner_loop_iter(i) ==
    CASE i.name \in {"LOAD_UOP", "LOAD_ACC", "FINISH", "NOP-COMPUTE-STAGE"} -> 0
      [] i.name = "GEMM" -> i.fields["gemm_inner_loop_iter"]
      [] OTHER           -> i.fields["alu_inner_loop_iter"]

Iterations(i) == Times(Times({i.fields["range_1"] - i.fields["range_0"]}, {outer_loop_iter(i)}),
                       {inner_loop_iter(i)})

\* Mutant: nothing to transfer takes no time.
load_latency_without_nop(i, p) ==
    LET y == i.fields["y_size"]  x == i.fields["x_size"]
    IN  IF i.name = "LOAD_INP" THEN Transfer(y, x, p.load_cycles, 16)
        ELSE Plus({y * 100}, Times(Times({p.load_cycles}, {y}), {x}))

LoadLatency(i, p) ==
    LET y == i.fields["y_size"]  x == i.fields["x_size"]
    IN  IF y = 0 THEN {15}
        ELSE IF i.name = "LOAD_INP" THEN Transfer(y, x, p.load_cycles, 16)
        ELSE Plus({y * 100}, Times(Times({p.load_cycles}, {y}), {x}))

ComputeLatency(i, p) ==
    LET y == i.fields["y_size"]  x == i.fields["x_size"]
    IN  CASE y # 0 -> Transfer(y, x, p.load_cycles, IF i.name = "LOAD_ACC" THEN 4 ELSE 16)
          [] y = 0 /\ i.name = "GEMM" -> Plus(Iterations(i), {100})
          [] y = 0 /\ i.name = "NOP-COMPUTE-STAGE" -> {15}
          [] y = 0 /\ i.name = "FINISH" -> {10}
          [] OTHER -> Plus(Times({2}, Iterations(i)), {100})

StoreLatency(i, p) ==
    IF i.fields["y_size"] = 0 THEN {15}
    ELSE Transfer(i.fields["y_size"], i.fields["x_size"], p.store_cycles, 16)

Latency(i, p) ==
    CASE i.mod = "LOAD"    -> LoadLatency(i, p)
      [] i.mod = "COMPUTE" -> ComputeLatency(i, p)
      [] i.mod = "STORE"   -> StoreLatency(i, p)

latency ==
    /\ phase = "decoded"
    /\ phase' = "timed"
    /\ ns' = Latency(current, platform)
    /\ UNCHANGED <<row, platform, words, current>>

Next == encode \/ decode \/ latency

Spec == Init /\ [][Next]_vars
-----------------------------------------------------------------------------
(* Properties. *)

Decoded == phase \in {"decoded", "timed"}

\* The fields of a row that its words carry, as the decoder names them.
Carried(r) == decode_layout(instruction_type(r.name))

\* The field of the row that a decoded field comes from.
Origin(r, f) ==
    CASE r.name \in AluOps /\ f = "gemm_outer_loop_iter" -> "alu_outer_loop_iter"
      [] r.name \in AluOps /\ f = "gemm_inner_loop_iter" -> "alu_inner_loop_iter"
      [] OTHER -> f

\* Every value of the row is within the width of its field, and a size or a
\* range for which its words have no field is 0.
Fits(r) ==
    /\ \A f \in DOMAIN Carried(r) : Encoded(r)[Origin(r, f)] \in 0 .. 2^Carried(r)[f].width - 1
    /\ \A f \in {"y_size", "range_0", "range_1"} \ DOMAIN Carried(r) : r.fields[f] = 0

\* The control of an instruction survives the words: its dependency flags,
\* and whether it is the FINISH that ends the layer (ComputeModule compares
\* the decoded name).  Token protocol and layer order rest on this.
ControlKept ==
    Decoded => /\ current.flags = row.flags
               /\ current.name = "FINISH" <=> row.name = "FINISH"

\* The decoder finds every field where the encoder put it, and a value too
\* wide for its field (or negative) loses its high bits without touching the
\* fields beside it.  FINISH carries no fields.
FieldsKept ==
    Decoded /\ row.name # "FINISH" =>
        \A f \in DOMAIN Carried(row) :
            current.fields[f] = Encoded(row)[Origin(row, f)] % 2^Carried(row)[f].width

\* latency() asks the decoded instruction, whose name is not the row's: the
\* answer is the same as for the row, but for ALU instructions (their loop
\* counts are looked for in fields the decoder leaves at -1) and for
\* NOP-COMPUTE-STAGE, which comes back as GEMM.
LatencyKept ==
    phase = "timed" /\ Fits(row) /\ row.name \notin AluOps \cup {"NOP-COMPUTE-STAGE"}
        => ns = Latency(row, platform)

\* A latency that is defined is positive, unless a range is reversed or the
\* configuration counts cycles below 0: the modules notify their finish
\* event in the future.
TimeAdvances ==
    /\ phase = "timed"
    /\ current.fields["range_0"] <= current.fields["range_1"]
    /\ platform.load_cycles >= 0 /\ platform.store_cycles >= 0
    => \A t \in ns : t >= 10

-----------------------------------------------------------------------------
(* What the documentation says and the code does not do (see README.md). *)

\* "ALU: 2 x (range_1 - range_0) x outer_loop_iter x inner_loop_iter + 100 ns"
\* (README.md:119).
AluLatencyDocumented ==
    phase = "timed" /\ Fits(row) /\ row.name \in AluOps /\ row.fields["y_size"] = 0
        => ns = Plus(Times({2}, Times(Times({row.fields["range_1"] - row.fields["range_0"]},
                                            {row.fields["alu_outer_loop_iter"]}),
                                      {row.fields["alu_inner_loop_iter"]})), {100})

\* "NOP / FINISH: 15 ns / 10 ns" (README.md:121), in the compute module.
NopLatencyDocumented ==
    phase = "timed" /\ row.mod = "COMPUTE" /\ Fits(row)
        => (row.name = "NOP-COMPUTE-STAGE" => ns = {15}) /\ (row.name = "FINISH" => ns = {10})

\* "Latency is determined by the instruction's memory transfer size and
\* load_cycles / load_weights_cycles from config" (README.md:108-109): the
\* weights' cycles make a difference to the load of weights.
WeightCyclesCount ==
    phase = "timed" /\ row.name = "LOAD_WGT" /\ row.mod = "LOAD"
      /\ row.fields["y_size"] * row.fields["x_size"] > 0 /\ Fits(row)
        => \A p \in Platforms : p.load_weigts_cycles # platform.load_weigts_cycles
                                  => ns # Latency(current, p)
=============================================================================
