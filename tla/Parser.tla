------------------------------- MODULE Parser -------------------------------
(***************************************************************************)
(* How the parser groups the rows of the CSV into what the Fetcher takes    *)
(* for layers (parser.cpp): by the layer column, or each layer cut into     *)
(* blocks, from a LOAD INP to the next STORE, with the rows before the      *)
(* first block repeated in front of each block and the rows after the last  *)
(* block behind each.                                                       *)
(*                                                                          *)
(* A row is its layer and what the grouping looks at in its name: LOAD INP, *)
(* STORE, FINISH (a compute row; the properties look for it) or other, for  *)
(* which the branches of the three modules do the same.  Row k of layer n   *)
(* has the name "layer_n".  Rows are named by their position.               *)
(***************************************************************************)
EXTENDS Naturals, Sequences, FiniteSets

CONSTANT Models         \* the contents of the CSV files considered

Kinds == {"LOAD_INP", "STORE", "FINISH", "other"}
ASSUME ModelsAssumption == Models \subseteq Seq([layer: Nat, kind: Kinds])

VARIABLES
    granulatity,        \* PlatformConfig::granulatity, spelt as in the code
    all_instructions,   \* the rows
    phase,              \* "split", "encode" or "done"
    taken,              \* the rows that have been sorted by layer
    by_layer,           \* those rows: layers_instructions or, in the
                        \* granularity of layers, splited_instructions
    keys,               \* names of the groups, in order
    splited,            \* splited_instructions: rows by name of group
    layers,             \* what the Fetcher gets: the rows of each group
    (* Locals of laod_blocks_instructions. *)
    layer_idx, row, start_block_idx, block_strated, block_name,
    add_prefix, add_postfix, prefix, postfix

scan   == <<row, block_strated, block_name, add_prefix, add_postfix, prefix, postfix>>
locals == <<layer_idx, start_block_idx, scan>>
vars   == <<granulatity, all_instructions, phase, taken, by_layer, keys, splited, layers, locals>>

Layer(i)   == all_instructions[i].layer
Kind(i)    == all_instructions[i].kind
Names      == {Layer(i) : i \in DOMAIN all_instructions}

\* operator[] of std::map: an unknown name gives an empty vector.
Rows(n)    == IF n \in Names THEN by_layer[n] ELSE << >>
At(key)    == IF key \in DOMAIN splited THEN splited[key] ELSE << >>
NoBlock    == << >>                         \* block_name before the first block

\* splited_instructions when row i has joined the group called key.
Joined(key, i) ==
    [k \in DOMAIN splited \cup {key} |-> IF k = key THEN Append(At(key), i) ELSE splited[k]]

Init ==
    /\ granulatity \in {"layer", "block"}
    /\ all_instructions \in Models
    /\ phase = "split" /\ taken = 0
    /\ by_layer = [n \in Names |-> << >>]
    /\ keys = << >> /\ splited = << >> /\ layers = << >>
    /\ layer_idx = 0 /\ start_block_idx = 0 /\ row = 1
    /\ block_strated = FALSE /\ block_name = NoBlock
    /\ add_prefix = TRUE /\ add_postfix = FALSE
    /\ prefix = << >> /\ postfix = << >>

\* The first loop of either function.
split_row ==
    /\ phase = "split" /\ taken < Len(all_instructions)
    /\ taken' = taken + 1
    /\ by_layer' = [by_layer EXCEPT ![Layer(taken + 1)] = Append(@, taken + 1)]
    /\ UNCHANGED <<granulatity, all_instructions, phase, keys, splited, layers, locals>>

Split == phase = "split" /\ taken = Len(all_instructions)

\* The keys are numbered from 0, whatever the layers are called.
load_layers_instruction ==
    /\ Split /\ granulatity = "layer"
    /\ splited' = [key \in {<<n>> : n \in Names} |-> Rows(key[1])]
    /\ keys' = [k \in 1 .. Cardinality(Names) |-> <<k - 1>>]
    /\ phase' = "encode"
    /\ UNCHANGED <<granulatity, all_instructions, taken, by_layer, layers, locals>>

Scanning ==
    Split /\ granulatity = "block"
      /\ layer_idx < Cardinality(Names) /\ row <= Len(Rows(layer_idx))
Instr   == Rows(layer_idx)[row]

\* The row joins the open block, the prefix and the postfix, as the flags say
\* once the row has changed them.
Keep ==
    /\ splited' = IF block_strated' THEN Joined(block_name', Instr) ELSE splited
    /\ prefix' = IF add_prefix' THEN Append(prefix, Instr) ELSE prefix
    /\ row' = row + 1
    /\ UNCHANGED <<granulatity, all_instructions, phase, taken, by_layer, layers, layer_idx,
                   start_block_idx>>

\* Mutant: the postfix of the block before is kept.
start_block_with_postfix ==
    /\ Scanning /\ Kind(Instr) = "LOAD_INP" /\ ~ block_strated
    /\ add_prefix' = FALSE /\ add_postfix' = FALSE /\ block_strated' = TRUE
    /\ block_name' = <<layer_idx, Len(keys) - start_block_idx>>
    /\ keys' = Append(keys, block_name')
    /\ postfix' = postfix
    /\ Keep

\* The first LOAD INP after a STORE, or in the layer.  (block_idx counts the
\* blocks of the layer, which are the keys from start_block_idx on.)
start_block ==
    /\ Scanning /\ Kind(Instr) = "LOAD_INP" /\ ~ block_strated
    /\ add_prefix' = FALSE /\ add_postfix' = FALSE /\ block_strated' = TRUE
    /\ block_name' = <<layer_idx, Len(keys) - start_block_idx>>
    /\ keys' = Append(keys, block_name')
    /\ postfix' = << >>
    /\ Keep

\* Any other LOAD, COMPUTE or NOP-STORE-STAGE row, and a LOAD INP in a block.
add_row ==
    /\ Scanning /\ Kind(Instr) # "STORE"
    /\ Kind(Instr) = "LOAD_INP" => block_strated
    /\ UNCHANGED <<add_prefix, add_postfix, block_strated, block_name, keys>>
    /\ postfix' = IF add_postfix THEN Append(postfix, Instr) ELSE postfix
    /\ Keep

\* Mutant: the rows behind a block are not collected.
end_block_without_postfix ==
    /\ Scanning /\ Kind(Instr) = "STORE"
    /\ block_strated' = FALSE
    /\ splited' = Joined(block_name, Instr)
    /\ row' = row + 1
    /\ UNCHANGED <<granulatity, all_instructions, phase, taken, by_layer, keys, layers, layer_idx,
                   start_block_idx, block_name, add_prefix, add_postfix, prefix, postfix>>

\* A STORE joins the last block, open or not: before the first, one that is
\* no group.
end_block ==
    /\ Scanning /\ Kind(Instr) = "STORE"
    /\ add_postfix' = TRUE /\ block_strated' = FALSE
    /\ splited' = Joined(block_name, Instr)
    /\ row' = row + 1
    /\ UNCHANGED <<granulatity, all_instructions, phase, taken, by_layer, keys, layers, layer_idx,
                   start_block_idx, block_name, add_prefix, prefix, postfix>>

BlocksFrom(k) == {keys[j] : j \in k + 1 .. Len(keys)}

NextLayer ==
    /\ Split /\ granulatity = "block"
    /\ layer_idx < Cardinality(Names) /\ row > Len(Rows(layer_idx))
    /\ layer_idx' = layer_idx + 1 /\ start_block_idx' = Len(keys) /\ row' = 1
    /\ block_strated' = FALSE /\ block_name' = NoBlock
    /\ add_prefix' = TRUE /\ add_postfix' = FALSE
    /\ prefix' = << >> /\ postfix' = << >>
    /\ UNCHANGED <<granulatity, all_instructions, phase, taken, by_layer, keys, layers>>

\* Mutant: every block so far gets the prefix and the postfix of this layer.
end_layer_everywhere ==
    /\ NextLayer
    /\ splited' = [key \in DOMAIN splited |->
          IF key \in BlocksFrom(0) THEN prefix \o splited[key] \o postfix ELSE splited[key]]

\* Mutant: the prefix goes behind the block with the postfix.
end_layer_behind ==
    /\ NextLayer
    /\ splited' = [key \in DOMAIN splited |->
          IF key \in BlocksFrom(start_block_idx) THEN splited[key] \o prefix \o postfix
          ELSE splited[key]]

\* The blocks of this layer get its prefix and its postfix.
end_layer ==
    /\ NextLayer
    /\ splited' = [key \in DOMAIN splited |->
          IF key \in BlocksFrom(start_block_idx) THEN prefix \o splited[key] \o postfix
          ELSE splited[key]]

end_blocks ==
    /\ Split /\ granulatity = "block" /\ layer_idx = Cardinality(Names)
    /\ phase' = "encode"
    /\ UNCHANGED <<granulatity, all_instructions, taken, by_layer, keys, splited, layers, locals>>

build_encoded_splited_instructions ==
    /\ phase = "encode"
    /\ layers' = [k \in DOMAIN keys |-> At(keys[k])]
    /\ phase' = "done"
    /\ UNCHANGED <<granulatity, all_instructions, taken, by_layer, keys, splited, locals>>

Done == phase = "done" /\ UNCHANGED vars

Next ==
    \/ split_row \/ load_layers_instruction
    \/ start_block \/ add_row \/ end_block \/ end_layer \/ end_blocks
    \/ build_encoded_splited_instructions
    \/ Done

Spec == Init /\ [][Next]_vars

-----------------------------------------------------------------------------
ToSet(s) == {s[k] : k \in DOMAIN s}

Before(i)     == {j \in 1 .. i - 1 : Layer(j) = Layer(i)}
After(i)      == {j \in i + 1 .. Len(all_instructions) : Layer(j) = Layer(i)}
Some(S, kind) == \E j \in S : Kind(j) = kind

\* No LOAD INP follows the last STORE before row i.
Behind(i) ==
    \E s \in Before(i) : Kind(s) = "STORE"
       /\ \A j \in s + 1 .. i : Layer(j) = Layer(i) => Kind(j) # "LOAD_INP"

\* A row between a STORE and the LOAD INP that starts the next block.
BetweenBlocks(i) ==
    /\ Kind(i) # "STORE" /\ Behind(i)
    /\ Some(Before(i), "LOAD_INP") /\ Some(After(i), "LOAD_INP")

\* The rows that are in no group are exactly those whose layer is not among
\* layer_0 .. layer_(n-1) for n the number of layers and, in blocks, those of
\* a layer without LOAD INP, a STORE before the first LOAD INP, and the rows
\* between two blocks: every other row reaches the Fetcher.
LostRows ==
    phase = "done" =>
        \A i \in DOMAIN all_instructions :
            (\A k \in DOMAIN layers : i \notin ToSet(layers[k])) <=>
                \/ Layer(i) >= Cardinality(Names)
                \/ /\ granulatity = "block"
                   /\ \/ ~ Some(Before(i) \cup {i} \cup After(i), "LOAD_INP")
                      \/ Kind(i) = "STORE" /\ ~ Some(Before(i), "LOAD_INP")
                      \/ BetweenBlocks(i)

\* A second STORE behind a block.
Straggler(i) == Kind(i) = "STORE" /\ Behind(i)

\* In a group the rows are of one layer, none is there twice, and they are in
\* the order of the CSV, the shared ones included: tokens match instructions
\* by their order.  (In blocks, a second STORE behind a block overtakes the
\* rows behind the block.)
InProgramOrder ==
    phase = "done" =>
        \A k \in DOMAIN layers : \A a, b \in DOMAIN layers[k] :
            LET i == layers[k][a]
                j == layers[k][b]
            IN  a < b =>
                   /\ Layer(i) = Layer(j)
                   /\ i # j
                   /\ granulatity = "layer" \/ ~ Straggler(i) => i < j

\* Layer n ends with its only FINISH and, in blocks, a STORE closes its last
\* block.
Finished(n) ==
    /\ \E i \in DOMAIN all_instructions : Layer(i) = n /\ Kind(i) = "FINISH"
    /\ \A i \in DOMAIN all_instructions : Layer(i) = n =>
          /\ Kind(i) = "FINISH" <=> After(i) = {}
          /\ granulatity = "block" /\ Kind(i) = "LOAD_INP" => Some(After(i), "STORE")

\* What the Fetcher relies on to be triggered for the next group: each ends
\* with a FINISH and has no other, if the layers of the CSV do.
GroupsEndWithFinish ==
    phase = "done" /\ (\A n \in Names : n < Cardinality(Names) /\ Finished(n)) =>
        \A k \in DOMAIN layers :
            /\ layers[k] # << >>
            /\ \A a \in DOMAIN layers[k] :
                  Kind(layers[k][a]) = "FINISH" <=> a = Len(layers[k])

\* The rows before the first block of a layer, and those behind its last.
Shared(i) ==
    /\ Kind(i) # "STORE"
    /\ \/ ~ Some(Before(i) \cup {i}, "LOAD_INP")
       \/ Behind(i) /\ ~ Some(After(i), "LOAD_INP")

\* Of the rows that are in some block, the shared ones are in every block of
\* their layer, and a row of a tile is in one only, that of the last LOAD INP
\* up to it: no work is done twice, and none in the wrong block.
EachTileOnce ==
    phase = "done" /\ granulatity = "block" =>
        \A i \in DOMAIN all_instructions :
            LET in == {k \in DOMAIN layers : i \in ToSet(layers[k])}
            IN  in # {} =>
                   IF Shared(i) THEN in = {k \in DOMAIN keys : keys[k][1] = Layer(i)}
                   ELSE /\ Cardinality(in) = 1
                        /\ \E j \in Before(i) \cup {i} :
                              /\ Kind(j) = "LOAD_INP"
                              /\ ~ Some(After(j) \cap (Before(i) \cup {i}), "LOAD_INP")
                              /\ \A k \in in : j \in ToSet(layers[k])

-----------------------------------------------------------------------------
(* The inductive invariant. *)

Phases == {"split", "encode", "done"}

TypeOK ==
    /\ granulatity \in {"layer", "block"}
    /\ all_instructions \in Models
    /\ phase \in Phases
    /\ taken \in 0 .. Len(all_instructions)
    /\ by_layer \in [Names -> Seq(Nat)]
    /\ keys \in Seq(Seq(Nat))
    /\ DOMAIN splited \subseteq Seq(Nat)
    /\ \A key \in DOMAIN splited : splited[key] \in Seq(Nat)
    /\ layer_idx \in 0 .. Cardinality(Names)
    /\ row \in 1 .. Len(Rows(layer_idx)) + 1
    /\ start_block_idx \in 0 .. Len(keys)
    /\ block_strated \in BOOLEAN /\ add_prefix \in BOOLEAN /\ add_postfix \in BOOLEAN
    /\ block_name \in Seq(Nat)
    /\ prefix \in Seq(Nat) /\ postfix \in Seq(Nat)

\* Sequence s lists the numbers of S, the smaller before the greater.
Lists(s, S) == ToSet(s) = S /\ \A a, b \in DOMAIN s : a < b => s[a] < s[b]

\* The rows taken are sorted by layer and in order.
RowsSorted ==
    \A n \in Names : Lists(by_layer[n], {i \in DOMAIN all_instructions : i <= taken /\ Layer(i) = n})

\* Three sorts of rows: those every block of the layer begins with, those of
\* a block, those every block of the layer ends with.
InPrefix(i)  == Kind(i) # "STORE" /\ ~ Some(Before(i) \cup {i}, "LOAD_INP")
InBlock(i)   == Some(Before(i) \cup {i}, "LOAD_INP") /\ (Kind(i) = "STORE" \/ ~ Behind(i))
InPostfix(i) == Kind(i) # "STORE" /\ Behind(i) /\ ~ Some(After(i), "LOAD_INP")

\* The rows of the layer that have been scanned, and those after row i.
Seen      == {Rows(layer_idx)[k] : k \in 1 .. row - 1}
Later(i)  == {j \in Seen : i < j}
Opened    == Some(Seen, "LOAD_INP")
Closed    == \E s \in Seen : Kind(s) = "STORE" /\ ~ Some(Later(s), "LOAD_INP")
Blocks    == start_block_idx + 1 .. Len(keys)
Members(k) == ToSet(splited[keys[k]])

\* What the flags and the two collections say of the rows scanned.
FlagsOK ==
    /\ add_prefix <=> ~ Opened
    /\ add_postfix <=> Closed
    /\ block_strated <=> Opened /\ ~ Closed
    /\ Blocks # {} <=> Opened
    /\ block_name = IF Opened THEN keys[Len(keys)] ELSE NoBlock
    /\ Lists(prefix, {i \in Seen : InPrefix(i)})
    /\ Lists(postfix, {i \in Seen : Kind(i) # "STORE" /\ Behind(i) /\ ~ Some(Later(i), "LOAD_INP")})

\* Block names tell the blocks apart.
KeysOK ==
    /\ \A k \in DOMAIN keys :
          /\ keys[k] \in DOMAIN splited \ {NoBlock}
          /\ k <= start_block_idx => keys[k][1] < layer_idx
          /\ k \in Blocks => keys[k] = <<layer_idx, (k - start_block_idx) - 1>>
    /\ \A j, k \in DOMAIN keys : j # k => keys[j] # keys[k]
    /\ DOMAIN splited \subseteq {keys[k] : k \in DOMAIN keys} \cup {NoBlock}

\* j is the LOAD INP that row i belongs to.
Opens(j, i) ==
    /\ j \in Before(i) \cup {i} /\ Kind(j) = "LOAD_INP"
    /\ ~ Some(After(j) \cap (Before(i) \cup {i}), "LOAD_INP")

\* The blocks of the layer share its rows, except those between blocks.
BlocksOK ==
    /\ \A k \in Blocks :
          /\ Lists(splited[keys[k]], Members(k)) /\ Members(k) # {}
          /\ \A i \in Members(k) : i \in Seen /\ InBlock(i) /\ \E j \in Members(k) : Opens(j, i)
          /\ \A j \in Blocks \ {k} : Members(j) \cap Members(k) = {}
    /\ \A i \in Seen : InBlock(i) => \E k \in Blocks : i \in Members(k)
    /\ Opened => \E j \in Members(Len(keys)) : Kind(j) = "LOAD_INP" /\ ~ Some(Later(j), "LOAD_INP")

\* A group of rows of layer n as the Fetcher gets it.
GroupOK(s, n) ==
    /\ \A i \in ToSet(s) :
          /\ i \in DOMAIN all_instructions /\ Layer(i) = n
          /\ InPrefix(i) \/ InBlock(i) \/ InPostfix(i)
          /\ InBlock(i) => \E j \in ToSet(s) : Opens(j, i)
    /\ \A i \in DOMAIN all_instructions :
          Layer(i) = n /\ (InPrefix(i) \/ InPostfix(i)) => i \in ToSet(s)
    /\ \A a, b \in DOMAIN s : a < b => s[a] # s[b] /\ (~ Straggler(s[a]) => s[a] < s[b])
    /\ \E j \in DOMAIN all_instructions :
          Layer(j) = n /\ Kind(j) = "LOAD_INP" /\ ~ Some(After(j), "LOAD_INP")

\* The groups 1 .. m are those of the layers before n.
GroupsOK(m, n) ==
    /\ \A k \in 1 .. m : GroupOK(splited[keys[k]], keys[k][1])
    /\ \A j, k \in 1 .. m : j # k => \A i \in Members(j) \cap Members(k) : ~ InBlock(i)
    /\ \A i \in DOMAIN all_instructions :
          Layer(i) < n /\ InBlock(i) => \E k \in 1 .. m : i \in Members(k)

\* In blocks: while the layers are scanned, and after.
BlockInv ==
    granulatity = "block" =>
        /\ KeysOK
        /\ phase = "split" => FlagsOK /\ BlocksOK /\ GroupsOK(start_block_idx, layer_idx)
        /\ phase # "split" =>
              start_block_idx = Len(keys) /\ GroupsOK(Len(keys), Cardinality(Names))

\* In layers.
LayerInv ==
    granulatity = "layer" =>
        /\ start_block_idx = 0
        /\ phase # "split" =>
              /\ keys = [k \in 1 .. Cardinality(Names) |-> <<k - 1>>]
              /\ \A k \in DOMAIN keys : At(keys[k]) = Rows(k - 1)

Handed == phase = "done" => layers = [k \in DOMAIN keys |-> At(keys[k])]

IInv ==
    /\ TypeOK /\ RowsSorted
    /\ phase # "split" => taken = Len(all_instructions)
    /\ taken < Len(all_instructions) => row = 1 /\ layer_idx = 0
    /\ layer_idx = Cardinality(Names) => row = 1
    /\ BlockInv /\ LayerInv /\ Handed
=============================================================================
