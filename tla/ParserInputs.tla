---------------------------- MODULE ParserInputs ----------------------------
(* What the passes of the Parser are checked on. *)
EXTENDS CsvReader

(* Files of up to two lines, each of a given length with at most one odd cell. *)

\* The lengths around the PC, the last column that is needed and the cache.
Lengths == {1, 2, 4, 53, 54, 55, 56}
Odd     == {LAYER_POS, PC_POS, MODULE_POS, 4, 12, DRAM_ADDRESS_POS, 53, CACHE_POS, 60}

\* The numbers of a line tell it and the column apart.
Line(n, len, odd, cell) ==
    [k \in 1 .. len |-> CASE k - 1 = odd -> cell
                          [] k - 1 # odd /\ k - 1 = MODULE_POS -> IF len = 54 THEN Load ELSE Compute
                          [] OTHER -> 100 * n + k - 1]
Lines(n) == {Line(n, len, odd, cell) : len \in Lengths, odd \in Odd, cell \in {Blank, Word}}

\* A line of column names.
HeaderLine == [k \in 1 .. 55 |-> Word]

MCFiles == {<< >>, <<HeaderLine>>} \cup {<<a>> : a \in Lines(1)}
             \cup {<<a, b>> : a \in Lines(1) \cup {HeaderLine}, b \in Lines(2)}

(* Accesses of up to three rows, which may touch but do not overlap. *)

MCAddresses ==
    {a \in [start: {0, 1, 3, 6}, x: 1 .. 3, y: 1 .. 3, stride: 1 .. 3, word_size: {1, 2}] :
        a.x <= a.stride /\ (a.y = 1 => a.stride = a.x)}

(* Every group of three instructions, and every group of five of the ones    *)
(* that fill and drain the queues between load, compute and store.           *)

MCNr == [LOAD |-> 2, COMPUTE |-> 3, STORE |-> 2]

Instr(n, m, f) == [name |-> n, module |-> m, pop_prev |-> f[1], pop_next |-> f[2],
                   push_prev |-> f[3], push_next |-> f[4]]
Flags == BOOLEAN \X BOOLEAN \X BOOLEAN \X BOOLEAN
NoFlag == <<FALSE, FALSE, FALSE, FALSE>>

Instructions ==
    {Instr("LOAD INP", "LOAD", <<FALSE, a, FALSE, b>>) : a, b \in BOOLEAN}
      \cup {Instr("GEMM", "COMPUTE", f) : f \in Flags}
      \cup {Instr(n, "STORE", <<a, FALSE, b, FALSE>>) : n \in {"STORE", "NOP-STORE-STAGE"}, a, b \in BOOLEAN}
      \cup {Instr("FINISH", "COMPUTE", NoFlag), Instr("ALU - mul", "COMPUTE", <<TRUE, FALSE, FALSE, TRUE>>),
           Instr("unknown", "COMPUTE", <<FALSE, TRUE, TRUE, FALSE>>), Instr("unknown", "STORE", <<TRUE, FALSE, TRUE, FALSE>>),
           Instr("STORE", "LOAD", <<TRUE, FALSE, FALSE, TRUE>>), Instr("GEMM", "STORE", <<FALSE, FALSE, TRUE, FALSE>>),
           Instr("STORE", "COMPUTE", <<FALSE, FALSE, TRUE, FALSE>>)}

Traffic ==
    {Instr("LOAD INP", "LOAD", <<FALSE, FALSE, FALSE, TRUE>>),
     Instr("GEMM", "COMPUTE", <<TRUE, FALSE, FALSE, FALSE>>),
     Instr("GEMM", "COMPUTE", <<TRUE, FALSE, FALSE, TRUE>>),
     Instr("GEMM", "COMPUTE", <<FALSE, TRUE, FALSE, FALSE>>),
     Instr("STORE", "STORE", <<TRUE, FALSE, TRUE, FALSE>>),
     Instr("FINISH", "COMPUTE", NoFlag)}

MCGroups == [1 .. 3 -> Instructions] \cup [1 .. 5 -> Traffic]
=============================================================================
