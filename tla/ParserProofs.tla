---------------------------- MODULE ParserProofs ----------------------------
(***************************************************************************)
(* Proofs about Parser, for every CSV.                                      *)
(*                                                                          *)
(* Every row is of one of the sorts InPrefix, InBlock, InPostfix, or lost,  *)
(* by what comes before and after it in its layer.  The scan is followed    *)
(* with an invariant that says the same of the rows it has seen; at the end *)
(* of a layer it gives the groups of that layer, and the properties follow  *)
(* from what is then known of every group (GroupsOK).                       *)
(***************************************************************************)
EXTENDS Parser, SequenceTheorems, FiniteSetTheorems, TLAPS

-----------------------------------------------------------------------------
(* Sequences that list a set of numbers. *)

LEMMA EmptyLists == Lists(<< >>, {})
  BY DEF Lists, ToSet

\* Append, for a number greater than all.
LEMMA AppendLists ==
    ASSUME NEW s \in Seq(Nat), NEW S, Lists(s, S), NEW x \in Nat, \A i \in S : i < x
    PROVE  Append(s, x) \in Seq(Nat) /\ Lists(Append(s, x), S \cup {x})
  <1> DEFINE t == Append(s, x)
  <1>1. /\ DOMAIN t = 1 .. Len(s) + 1 /\ DOMAIN s = 1 .. Len(s) /\ Len(s) \in Nat
        /\ \A k \in DOMAIN s : t[k] = s[k] /\ s[k] \in Nat
        /\ t[Len(s) + 1] = x
        /\ t \in Seq(Nat)
    BY AppendProperties, LenProperties
  <1> HIDE DEF t
  <1>2. /\ \A k \in DOMAIN t : (k \in DOMAIN s /\ t[k] = s[k]) \/ (k = Len(s) + 1 /\ t[k] = x)
        /\ \A k \in DOMAIN s : k \in DOMAIN t /\ t[k] = s[k]
        /\ Len(s) + 1 \in DOMAIN t
    BY <1>1
  <1>3. ToSet(t) = S \cup {x}
    BY <1>1, <1>2 DEF Lists, ToSet
  <1>4. ASSUME NEW a \in DOMAIN t, NEW b \in DOMAIN t, a < b PROVE t[a] < t[b]
    <2>1. a \in DOMAIN s /\ t[a] = s[a] /\ s[a] \in S
      BY <1>1, <1>2, <1>4 DEF Lists, ToSet
    <2> QED
      BY <1>2, <1>4, <2>1 DEF Lists
  <1> QED
    BY <1>1, <1>3, <1>4 DEF Lists, t

\* i stands before j in s.
Ahead(s, i, j) == \E a, b \in DOMAIN s : a < b /\ s[a] = i /\ s[b] = j

\* What stands where in a concatenation.
LEMMA ConcatAhead ==
    ASSUME NEW s \in Seq(Nat), NEW t \in Seq(Nat)
    PROVE  /\ s \o t \in Seq(Nat)
           /\ ToSet(s \o t) = ToSet(s) \cup ToSet(t)
           /\ \A i, j : Ahead(s \o t, i, j) =>
                 Ahead(s, i, j) \/ Ahead(t, i, j) \/ (i \in ToSet(s) /\ j \in ToSet(t))
  <1> DEFINE u == s \o t
  <1>1. PICK n \in Nat, m \in Nat :
        /\ u \in Seq(Nat)
        /\ DOMAIN s = 1 .. n /\ DOMAIN t = 1 .. m /\ DOMAIN u = 1 .. n + m
        /\ \A k \in 1 .. n + m : u[k] = IF k <= n THEN s[k] ELSE t[k - n]
    BY ConcatProperties, LenProperties
  <1> HIDE DEF u
  <1>2. /\ \A k \in DOMAIN s : k \in DOMAIN u /\ u[k] = s[k]
        /\ \A k \in DOMAIN t : k + n \in DOMAIN u /\ u[k + n] = t[k]
        /\ \A k \in DOMAIN u : \/ k \in DOMAIN s /\ u[k] = s[k]
                               \/ k > n /\ k - n \in DOMAIN t /\ u[k] = t[k - n]
    <2>1. \A k \in 1 .. n : k \in 1 .. n + m /\ k <= n
      OBVIOUS
    <2>2. \A k \in 1 .. m : k + n \in 1 .. n + m /\ ~ (k + n <= n) /\ (k + n) - n = k
      OBVIOUS
    <2>3. \A k \in 1 .. n + m : k \in 1 .. n \/ (k > n /\ k - n \in 1 .. m /\ ~ (k <= n))
      OBVIOUS
    <2> QED
      BY <1>1, <2>1, <2>2, <2>3
  <1>3. ToSet(u) = ToSet(s) \cup ToSet(t)
    BY <1>2 DEF ToSet
  <1>4. ASSUME NEW a \in DOMAIN u, NEW b \in DOMAIN u, a < b
        PROVE  \/ Ahead(s, u[a], u[b]) \/ Ahead(t, u[a], u[b])
               \/ u[a] \in ToSet(s) /\ u[b] \in ToSet(t)
    <2>1. CASE a \in DOMAIN s /\ u[a] = s[a] /\ b \in DOMAIN s /\ u[b] = s[b]
      BY <1>4, <2>1 DEF Ahead
    <2>2. CASE a \in DOMAIN s /\ u[a] = s[a] /\ b - n \in DOMAIN t /\ u[b] = t[b - n]
      BY <2>2 DEF ToSet
    <2>3. CASE /\ a > n /\ a - n \in DOMAIN t /\ u[a] = t[a - n]
               /\ b - n \in DOMAIN t /\ u[b] = t[b - n]
      <3>1. a - n < b - n
        BY <1>1, <1>4
      <3> QED
        BY <2>3, <3>1 DEF Ahead
    <2>4. ~ (a > n /\ b \in DOMAIN s)
      BY <1>1, <1>4
    <2> QED
      BY <1>2, <2>1, <2>2, <2>3, <2>4
  <1>5. ASSUME NEW i, NEW j, Ahead(u, i, j)
        PROVE  Ahead(s, i, j) \/ Ahead(t, i, j) \/ (i \in ToSet(s) /\ j \in ToSet(t))
    <2>1. PICK a \in DOMAIN u, b \in DOMAIN u : a < b /\ u[a] = i /\ u[b] = j
      BY <1>5 DEF Ahead
    <2> QED
      BY <1>4, <2>1
  <1> QED
    BY <1>1, <1>3, <1>5 DEF u

\* In a sequence that lists a set the numbers increase.
LEMMA ListsAhead ==
    ASSUME NEW s, NEW S, Lists(s, S), NEW i, NEW j, Ahead(s, i, j)
    PROVE  i < j /\ i \in S /\ j \in S
  BY DEF Lists, Ahead, ToSet

-----------------------------------------------------------------------------
(* The rows. *)

\* The rows are numbered from 1, and there are finitely many layers.
LEMMA RowFacts ==
    ASSUME all_instructions \in Models
    PROVE  /\ Len(all_instructions) \in Nat
           /\ DOMAIN all_instructions = 1 .. Len(all_instructions)
           /\ \A i \in DOMAIN all_instructions :
                 i \in Nat /\ Layer(i) \in Nat /\ Layer(i) \in Names /\ Kind(i) \in Kinds
           /\ Names \in SUBSET Nat
           /\ IsFiniteSet(Names) /\ Cardinality(Names) \in Nat
  <1>1. all_instructions \in Seq([layer: Nat, kind: Kinds])
    BY ModelsAssumption
  <1>2. /\ Len(all_instructions) \in Nat
        /\ DOMAIN all_instructions = 1 .. Len(all_instructions)
        /\ \A i \in DOMAIN all_instructions : all_instructions[i] \in [layer: Nat, kind: Kinds]
    BY <1>1, LenProperties, ElementOfSeq
  <1>3. \A i \in DOMAIN all_instructions :
           i \in Nat /\ Layer(i) \in Nat /\ Layer(i) \in Names /\ Kind(i) \in Kinds
    BY <1>2 DEF Layer, Kind, Names
  <1>4. IsFiniteSet(DOMAIN all_instructions)
    BY <1>2, FS_Interval
  <1> DEFINE f == [i \in DOMAIN all_instructions |-> Layer(i)]
  <1>5. f \in Surjection(DOMAIN all_instructions, Names)
    BY DEF Surjection, Names
  <1>6. IsFiniteSet(Names)
    BY <1>4, <1>5, FS_Surjection
  <1> QED
    BY <1>2, <1>3, <1>6, FS_CardinalityType DEF Names

\* No step changes the rows, nor what is said of them.
LEMMA RowsFixed ==
    ASSUME [Next]_vars
    PROVE  /\ all_instructions' = all_instructions /\ granulatity' = granulatity /\ Names' = Names
           /\ \A i : Layer(i)' = Layer(i) /\ Kind(i)' = Kind(i)
           /\ \A i : Before(i)' = Before(i) /\ After(i)' = After(i)
           /\ \A i : Behind(i)' <=> Behind(i)
           /\ \A i : InPrefix(i)' <=> InPrefix(i)
           /\ \A i : InBlock(i)' <=> InBlock(i)
           /\ \A i : InPostfix(i)' <=> InPostfix(i)
           /\ \A i : Straggler(i)' <=> Straggler(i)
           /\ \A i, j : Opens(j, i)' <=> Opens(j, i)
  <1>1. all_instructions' = all_instructions /\ granulatity' = granulatity
    BY DEF Next, vars, split_row, load_layers_instruction, start_block, add_row, end_block, Keep,
           end_layer, NextLayer, end_blocks, build_encoded_splited_instructions, Done
  <1>2. /\ Names' = Names
        /\ \A i : Layer(i)' = Layer(i) /\ Kind(i)' = Kind(i)
    BY <1>1 DEF Names, Layer, Kind
  <1>3. \A i : Before(i)' = Before(i) /\ After(i)' = After(i)
    BY <1>1, <1>2 DEF Before, After
  <1>4. \A i : Behind(i)' <=> Behind(i)
    BY <1>2, <1>3 DEF Behind
  <1> QED
    BY <1>1, <1>2, <1>3, <1>4 DEF InPrefix, InBlock, InPostfix, Straggler, Opens, Some

\* The rows of a layer are a sequence of numbers.
LEMMA RowsType ==
    ASSUME TypeOK, NEW n
    PROVE  Rows(n) \in Seq(Nat) /\ Len(Rows(n)) \in Nat /\ DOMAIN Rows(n) = 1 .. Len(Rows(n))
  <1>1. Rows(n) \in Seq(Nat)
    BY EmptySeq DEF TypeOK, Rows
  <1> QED
    BY <1>1, LenProperties

\* A step does not change what is said of a given group.
LEMMA GroupFixed ==
    ASSUME [Next]_vars, NEW CONSTANT s, NEW CONSTANT n, GroupOK(s, n)
    PROVE  GroupOK(s, n)'
  <1>1. /\ \A i \in ToSet(s) :
              /\ i \in DOMAIN all_instructions' /\ Layer(i)' = n
              /\ InPrefix(i)' \/ InBlock(i)' \/ InPostfix(i)'
              /\ InBlock(i)' => \E j \in ToSet(s) : Opens(j, i)'
        /\ \A i \in DOMAIN all_instructions' :
              Layer(i)' = n /\ (InPrefix(i)' \/ InPostfix(i)') => i \in ToSet(s)
    BY RowsFixed DEF GroupOK
  <1>2. \A a, b \in DOMAIN s : a < b => s[a] # s[b] /\ (~ Straggler(s[a])' => s[a] < s[b])
    BY RowsFixed DEF GroupOK
  <1>3. \E j \in DOMAIN all_instructions' :
           Layer(j)' = n /\ Kind(j)' = "LOAD_INP" /\ ~ \E i \in After(j)' : Kind(i)' = "LOAD_INP"
    <2>1. PICK j \in DOMAIN all_instructions :
             Layer(j) = n /\ Kind(j) = "LOAD_INP" /\ ~ \E i \in After(j) : Kind(i) = "LOAD_INP"
      BY DEF GroupOK, Some
    <2> QED
      BY <2>1, RowsFixed
  <1> QED
    BY <1>1, <1>2, <1>3 DEF GroupOK, Some

\* A step that leaves groups alone leaves what is known of them true.
LEMMA GroupsFixed ==
    ASSUME [Next]_vars, NEW CONSTANT m, NEW CONSTANT n,
           \A k \in 1 .. m : keys'[k] = keys[k] /\ splited'[keys[k]] = splited[keys[k]],
           GroupsOK(m, n)
    PROVE  GroupsOK(m, n)'
  <1>1. ASSUME NEW CONSTANT k \in 1 .. m PROVE GroupOK(splited[keys[k]], keys[k][1])'
    <2>1. PICK s, l : s = splited[keys[k]] /\ l = keys[k][1]
      OBVIOUS
    <2>2. splited'[keys'[k]] = s /\ keys'[k][1] = l
      BY <1>1, <2>1
    <2>3. GroupOK(s, l)'
      BY <2>1, GroupFixed DEF GroupsOK
    <2> QED
      BY <2>2, <2>3
  <1>2. \A j, k \in 1 .. m : j # k => \A i \in (Members(j) \cap Members(k))' : ~ InBlock(i)'
    BY RowsFixed DEF GroupsOK, Members, ToSet
  <1>3. \A i \in DOMAIN all_instructions' :
           Layer(i)' < n /\ InBlock(i)' => \E k \in 1 .. m : i \in Members(k)'
    BY RowsFixed DEF GroupsOK, Members, ToSet
  <1> QED
    BY <1>1, <1>2, <1>3 DEF GroupsOK

-----------------------------------------------------------------------------
(* The invariant holds at first. *)

\* Nothing has been taken, scanned or grouped.
LEMMA InitInv == Init => IInv
  <1> SUFFICES ASSUME Init PROVE IInv
    OBVIOUS
  <1> USE DEF Init
  <1>1. /\ Len(all_instructions) \in Nat /\ Names \in SUBSET Nat /\ Cardinality(Names) \in Nat
        /\ \A i \in DOMAIN all_instructions : i \in Nat /\ 0 < i /\ Layer(i) \in Nat
    BY RowFacts
  <1>2. Rows(0) = << >>
    BY DEF Rows
  <1>3. Len(keys) = 0 /\ DOMAIN keys = {} /\ DOMAIN splited = {}
    OBVIOUS
  <1>4. TypeOK
    <2>1. /\ by_layer \in [Names -> Seq(Nat)] /\ keys \in Seq(Seq(Nat)) /\ block_name \in Seq(Nat)
          /\ prefix \in Seq(Nat) /\ postfix \in Seq(Nat)
      BY EmptySeq DEF NoBlock
    <2>2. /\ taken \in 0 .. Len(all_instructions) /\ layer_idx \in 0 .. Cardinality(Names)
          /\ row \in 1 .. Len(Rows(layer_idx)) + 1 /\ start_block_idx \in 0 .. Len(keys)
      BY <1>1, <1>2, <1>3
    <2> QED
      BY <1>3, <2>1, <2>2 DEF TypeOK, Phases
  <1>5. RowsSorted
    BY <1>1 DEF RowsSorted, Lists, ToSet
  <1>6. Seen = {} /\ Blocks = {} /\ ~ Opened /\ ~ Closed
    BY <1>3 DEF Seen, Blocks, Opened, Closed, Some
  <1>7. KeysOK
    BY <1>3 DEF KeysOK
  <1>8. FlagsOK
    BY <1>6, EmptyLists DEF FlagsOK
  <1>9. BlocksOK
    BY <1>6 DEF BlocksOK
  <1>10. GroupsOK(0, 0)
    BY <1>1 DEF GroupsOK
  <1> QED
    BY <1>1, <1>4, <1>5, <1>7, <1>8, <1>9, <1>10 DEF IInv, BlockInv, LayerInv, Handed

-----------------------------------------------------------------------------
(* The steps that do not scan. *)

\* Before any row has been scanned the flags are as at first, whatever rows
\* there are.
LEMMA NothingSeen ==
    ASSUME row = 1, [Next]_vars,
           UNCHANGED <<phase, keys, splited, locals>>,
           KeysOK, FlagsOK, BlocksOK, GroupsOK(start_block_idx, layer_idx)
    PROVE  (KeysOK /\ FlagsOK /\ BlocksOK /\ GroupsOK(start_block_idx, layer_idx))'
  <1> USE DEF locals, scan
  <1>1. Seen = {} /\ Seen' = {}
    BY DEF Seen
  <1>2. ~ Opened /\ ~ Closed /\ ~ Opened' /\ ~ Closed' /\ Blocks' = Blocks
    BY <1>1 DEF Opened, Closed, Some, Blocks
  <1>3. KeysOK'
    BY <1>2 DEF KeysOK
  <1>4. FlagsOK'
    BY <1>1, <1>2 DEF FlagsOK, Lists
  <1>5. BlocksOK'
    BY <1>1, <1>2 DEF BlocksOK, FlagsOK
  <1>6. PICK m, n : m = start_block_idx /\ n = layer_idx
    OBVIOUS
  <1>7. GroupsOK(m, n)'
    BY <1>6, GroupsFixed
  <1> QED
    BY <1>3, <1>4, <1>5, <1>6, <1>7

\* A row is taken.
LEMMA SplitRow == IInv /\ split_row => IInv'
  <1> SUFFICES ASSUME IInv, split_row PROVE IInv'
    OBVIOUS
  <1>1. [Next]_vars
    BY DEF Next
  <1>2. TypeOK /\ RowsSorted /\ row = 1 /\ layer_idx = 0 /\ phase = "split"
    BY DEF IInv, split_row
  <1>3. PICK t \in Nat, x \in Nat : /\ taken = t /\ x = t + 1 /\ x \in DOMAIN all_instructions
                                  /\ Layer(x) \in Names /\ Layer(x) \in Nat
    BY <1>2, RowFacts DEF TypeOK, split_row
  <1>4. \A i \in DOMAIN all_instructions : i \in Nat
    BY <1>2, RowFacts DEF TypeOK
  <1>5. /\ by_layer' = [by_layer EXCEPT ![Layer(x)] = Append(@, x)] /\ taken' = x
        /\ UNCHANGED <<granulatity, all_instructions, phase, keys, splited, layers, locals>>
    BY <1>3 DEF split_row
  <1>6. ASSUME NEW n \in Names
        PROVE  /\ by_layer'[n] \in Seq(Nat)
               /\ Lists(by_layer'[n], {i \in DOMAIN all_instructions : i <= x /\ Layer(i) = n})
    <2> DEFINE S == {i \in DOMAIN all_instructions : i <= t /\ Layer(i) = n}
               T == {i \in DOMAIN all_instructions : i <= x /\ Layer(i) = n}
    <2>1. by_layer[n] \in Seq(Nat) /\ Lists(by_layer[n], S) /\ by_layer \in [Names -> Seq(Nat)]
      BY <1>2, <1>3 DEF TypeOK, RowsSorted
    <2>2. CASE n = Layer(x)
      <3>1. T = S \cup {x} /\ \A i \in S : i < x
        BY <1>3, <1>4, <2>2
      <3>2. by_layer'[n] = Append(by_layer[n], x)
        BY <1>5, <2>1, <2>2
      <3> HIDE DEF S, T
      <3>3. by_layer'[n] \in Seq(Nat) /\ Lists(by_layer'[n], T)
        BY <1>3, <2>1, <3>1, <3>2, AppendLists
      <3> QED
        BY <3>3 DEF T
    <2>3. CASE n # Layer(x)
      <3>1. T = S
        BY <1>3, <1>4, <2>3
      <3>2. by_layer'[n] = by_layer[n]
        BY <1>5, <2>1, <2>3
      <3> QED
        BY <2>1, <3>1, <3>2
    <2> QED
      BY <2>2, <2>3
  <1>7. /\ Names' = Names /\ Cardinality(Names)' = Cardinality(Names)
        /\ \A i : Layer(i)' = Layer(i)
    BY <1>1, RowsFixed
  <1>8. RowsSorted'
    BY <1>5, <1>6, <1>7 DEF RowsSorted
  <1>9. TypeOK'
    <2>1. by_layer' \in [Names -> Seq(Nat)]
      BY <1>2, <1>5, <1>6 DEF TypeOK
    <2>2. taken' \in 0 .. Len(all_instructions)
      BY <1>2, <1>3, <1>5, RowFacts DEF TypeOK
    <2>3. Rows(0)' \in Seq(Nat)
      BY <2>1, <1>7, EmptySeq DEF Rows
    <2>4. row' \in (1 .. Len(Rows(layer_idx)) + 1)'
      BY <1>2, <1>5, <2>3, LenProperties DEF locals, scan
    <2> QED
      BY <1>2, <1>5, <1>7, <2>1, <2>2, <2>4 DEF TypeOK, locals, scan
  <1>10. BlockInv'
    BY <1>1, <1>2, <1>5, NothingSeen DEF IInv, BlockInv
  <1> QED
    BY <1>2, <1>5, <1>8, <1>9, <1>10 DEF IInv, LayerInv, Handed, locals, scan

\* The layers become the groups.
LEMMA LoadLayers == IInv /\ load_layers_instruction => IInv'
  <1> SUFFICES ASSUME IInv, load_layers_instruction PROVE IInv'
    OBVIOUS
  <1> USE DEF locals, scan
  <1>1. [Next]_vars
    BY DEF Next
  <1>2. TypeOK /\ RowsSorted /\ granulatity = "layer" /\ taken = Len(all_instructions)
    BY DEF IInv, load_layers_instruction, Split
  <1>3. PICK c \in Nat : c = Cardinality(Names) /\ Names \in SUBSET Nat
    BY <1>2, RowFacts DEF TypeOK
  <1>4. /\ splited' = [key \in {<<n>> : n \in Names} |-> Rows(key[1])]
        /\ keys' = [k \in 1 .. c |-> <<k - 1>>]
        /\ phase' = "encode" /\ taken' = taken /\ granulatity' = granulatity
        /\ all_instructions' = all_instructions /\ by_layer' = by_layer
        /\ UNCHANGED <<layers, locals>>
    BY <1>3 DEF load_layers_instruction
  <1>5. /\ Names' = Names /\ Cardinality(Names)' = c
        /\ \A i : Layer(i)' = Layer(i)
        /\ \A n : Rows(n)' = Rows(n)
    BY <1>1, <1>3, <1>4, RowsFixed DEF Rows
  <1>6. RowsSorted'
    BY <1>2, <1>4, <1>5 DEF RowsSorted
  <1>7. TypeOK'
    <2>1. keys' \in Seq(Seq(Nat)) /\ Len(keys') = c
      <3>1. \A k \in 1 .. c : <<k - 1>> \in Seq(Nat)
        BY <1>3
      <3>2. keys' \in [1 .. c -> Seq(Nat)]
        BY <1>4, <3>1
      <3>3. keys' \in Seq(Seq(Nat))
        BY <1>3, <3>2, SeqDef
      <3> QED
        BY <1>3, <3>2, <3>3, LenProperties
    <2>2. DOMAIN splited' \subseteq Seq(Nat)
      <3>1. \A n \in Names : <<n>> \in Seq(Nat)
        BY <1>3
      <3> QED
        BY <1>4, <3>1
    <2>3. \A key \in DOMAIN splited' : splited'[key] \in Seq(Nat)
      BY <1>2, <1>4, RowsType
    <2>4. start_block_idx' \in 0 .. Len(keys')
      BY <1>2, <1>3, <1>4, <2>1 DEF IInv, LayerInv
    <2>5. row' \in (1 .. Len(Rows(layer_idx)) + 1)' /\ layer_idx' \in 0 .. c
      BY <1>2, <1>3, <1>4, <1>5 DEF TypeOK
    <2> QED
      BY <1>2, <1>4, <1>5, <2>1, <2>2, <2>3, <2>4, <2>5 DEF TypeOK, Phases
  <1>8. LayerInv'
    <2>1. DOMAIN keys' = 1 .. c
      BY <1>4
    <2>2. ASSUME NEW k \in 1 .. c PROVE At(keys[k])' = Rows(k - 1)'
      <3>1. keys'[k] = <<k - 1>> /\ k - 1 \in Nat
        BY <1>3, <1>4
      <3>2. k - 1 \in Names => At(keys[k])' = Rows(k - 1)
        BY <1>4, <3>1 DEF At
      <3>3. k - 1 \notin Names => At(keys[k])' = << >> /\ Rows(k - 1) = << >>
        BY <1>4, <3>1 DEF At, Rows
      <3>4. At(keys[k])' = Rows(k - 1)
        BY <3>2, <3>3 DEF Rows
      <3> QED
        BY <1>4, <1>5, <3>4 DEF Rows
    <2> QED
      BY <1>2, <1>4, <1>5, <2>1, <2>2 DEF LayerInv, IInv
  <1> QED
    BY <1>2, <1>3, <1>4, <1>5, <1>6, <1>7, <1>8 DEF IInv, BlockInv, Handed

\* The last layer has been scanned.
LEMMA EndBlocks == IInv /\ end_blocks => IInv'
  <1> SUFFICES ASSUME IInv, end_blocks PROVE IInv'
    OBVIOUS
  <1> USE DEF locals, scan
  <1>1. [Next]_vars
    BY DEF Next
  <1>2. /\ TypeOK /\ RowsSorted /\ granulatity = "block" /\ taken = Len(all_instructions)
        /\ layer_idx = Cardinality(Names) /\ row = 1
        /\ KeysOK /\ FlagsOK /\ GroupsOK(start_block_idx, layer_idx)
    BY DEF IInv, BlockInv, end_blocks, Split
  <1>3. /\ phase' = "encode"
        /\ UNCHANGED <<granulatity, all_instructions, taken, by_layer, keys, splited, layers, locals>>
    BY DEF end_blocks
  <1>4. /\ Names' = Names
        /\ \A i : Layer(i)' = Layer(i)
        /\ \A n : Rows(n)' = Rows(n)
    BY <1>1, <1>3, RowsFixed DEF Rows
  <1>5. start_block_idx = Len(keys)
    <2>1. ~ Opened
      BY <1>2 DEF Opened, Seen, Some
    <2>2. PICK n \in Nat, m \in Nat : m <= n /\ n = Len(keys) /\ m = start_block_idx
      BY <1>2, LenProperties DEF TypeOK
    <2>3. m + 1 .. n = {}
      BY <1>2, <2>1, <2>2 DEF FlagsOK, Blocks
    <2>4. m = n
      <3> SUFFICES ASSUME m # n PROVE FALSE
        OBVIOUS
      <3>1. n \in m + 1 .. n
        BY <2>2
      <3> QED
        BY <2>3, <3>1
    <2> QED
      BY <2>2, <2>4
  <1>6. PICK m, n : m = Len(keys) /\ n = Cardinality(Names)
    OBVIOUS
  <1>7. GroupsOK(m, n)'
    BY <1>1, <1>2, <1>3, <1>5, <1>6, GroupsFixed
  <1>8. TypeOK' /\ RowsSorted' /\ KeysOK'
    BY <1>2, <1>3, <1>4 DEF TypeOK, RowsSorted, KeysOK, Blocks, Phases
  <1> QED
    BY <1>2, <1>3, <1>4, <1>5, <1>6, <1>7, <1>8 DEF IInv, BlockInv, LayerInv, Handed

\* What stays when neither the phase "split" nor the groups are concerned.
LEMMA Encode == IInv /\ build_encoded_splited_instructions => IInv'
  <1> SUFFICES ASSUME IInv, build_encoded_splited_instructions PROVE IInv'
    OBVIOUS
  <1> USE DEF locals, scan
  <1>1. [Next]_vars
    BY DEF Next
  <1>2. /\ phase = "encode" /\ phase' = "done" /\ layers' = [k \in DOMAIN keys |-> At(keys[k])]
        /\ UNCHANGED <<granulatity, all_instructions, taken, by_layer, keys, splited, locals>>
    BY DEF build_encoded_splited_instructions
  <1>3. /\ Names' = Names
        /\ \A i : Layer(i)' = Layer(i)
        /\ \A n : Rows(n)' = Rows(n)
        /\ \A key : At(key)' = At(key)
    BY <1>1, <1>2, RowsFixed DEF Rows, At
  <1>4. TypeOK' /\ RowsSorted'
    BY <1>2, <1>3 DEF TypeOK, RowsSorted, Phases, IInv
  <1>5. Handed'
    BY <1>2, <1>3 DEF Handed, At
  <1>6. LayerInv'
    BY <1>2, <1>3 DEF LayerInv, IInv, At, Rows
  <1>7. ASSUME granulatity = "block"
        PROVE  /\ KeysOK' /\ start_block_idx' = Len(keys')
               /\ GroupsOK(Len(keys), Cardinality(Names))'
    <2>1. PICK m, n : m = Len(keys) /\ n = Cardinality(Names)
      OBVIOUS
    <2>2. KeysOK /\ start_block_idx = Len(keys) /\ GroupsOK(m, n)
      BY <1>2, <1>7, <2>1 DEF IInv, BlockInv
    <2>3. GroupsOK(m, n)'
      BY <1>1, <1>2, <2>2, GroupsFixed
    <2>4. KeysOK'
      BY <1>2, <2>2 DEF KeysOK, Blocks
    <2> QED
      BY <1>2, <1>3, <2>1, <2>2, <2>3, <2>4
  <1>8. BlockInv'
    BY <1>2, <1>7 DEF BlockInv
  <1> QED
    BY <1>2, <1>3, <1>4, <1>5, <1>6, <1>8 DEF IInv

\* A step that changes nothing.
LEMMA Stutter == IInv /\ UNCHANGED vars => IInv'
  <1> SUFFICES ASSUME IInv, UNCHANGED vars PROVE IInv'
    OBVIOUS
  <1>1. [Next]_vars
    OBVIOUS
  <1>2. UNCHANGED <<granulatity, all_instructions, phase, taken, by_layer, keys, splited, layers,
                    layer_idx, start_block_idx, row, block_strated, block_name, add_prefix,
                    add_postfix, prefix, postfix>>
    BY DEF vars, locals, scan
  <1>3. /\ Names' = Names
        /\ \A i : Layer(i)' = Layer(i) /\ Kind(i)' = Kind(i)
        /\ \A n : Rows(n)' = Rows(n)
        /\ \A key : At(key)' = At(key)
        /\ Seen' = Seen
    BY <1>1, <1>2, RowsFixed DEF Rows, At, Seen
  <1>4. TypeOK' /\ RowsSorted' /\ LayerInv' /\ Handed'
    BY <1>2, <1>3 DEF IInv, TypeOK, RowsSorted, LayerInv, Handed, At, Rows
  <1>5. KeysOK => KeysOK'
    BY <1>2, <1>3 DEF KeysOK, Blocks
  <1>6. /\ \A i : Later(i)' = Later(i)
        /\ Opened' <=> Opened
    BY <1>3 DEF Later, Opened, Some
  <1>7. Closed' <=> Closed
    BY <1>3, <1>6 DEF Closed, Some
  <1>8. /\ {i \in Seen : InPrefix(i)}' = {i \in Seen : InPrefix(i)}
        /\ {i \in Seen : Kind(i) # "STORE" /\ Behind(i) /\ ~ Some(Later(i), "LOAD_INP")}' =
           {i \in Seen : Kind(i) # "STORE" /\ Behind(i) /\ ~ Some(Later(i), "LOAD_INP")}
    BY <1>1, <1>3, <1>6, RowsFixed DEF Some
  <1>9. FlagsOK => FlagsOK'
    BY <1>2, <1>3, <1>6, <1>7, <1>8 DEF FlagsOK, Blocks, Lists
  <1>10. BlocksOK => BlocksOK'
    <2> SUFFICES ASSUME BlocksOK PROVE BlocksOK'
      OBVIOUS
    <2>1. /\ Blocks' = Blocks
          /\ \A k : Members(k)' = Members(k)
          /\ \A k : Lists(splited[keys[k]], Members(k)) => Lists(splited[keys[k]], Members(k))'
      BY <1>2 DEF Blocks, Members, Lists, ToSet
    <2>2. \A k \in Blocks' :
             /\ Lists(splited[keys[k]], Members(k))' /\ Members(k)' # {}
             /\ \A i \in Members(k)' : i \in Seen' /\ InBlock(i)' /\ \E j \in Members(k)' : Opens(j, i)'
             /\ \A j \in Blocks' \ {k} : Members(j)' \cap Members(k)' = {}
      BY <1>1, <1>3, <2>1, RowsFixed DEF BlocksOK
    <2>3. \A i \in Seen' : InBlock(i)' => \E k \in Blocks' : i \in Members(k)'
      BY <1>1, <1>3, <2>1, RowsFixed DEF BlocksOK
    <2>4. Opened' => \E j \in Members(Len(keys))' : Kind(j)' = "LOAD_INP" /\ ~ Some(Later(j), "LOAD_INP")'
      BY <1>2, <1>3, <1>6, <2>1 DEF BlocksOK, Some, Members, ToSet
    <2> QED
      BY <2>2, <2>3, <2>4 DEF BlocksOK
  <1>11. PICK m, l, n, c : /\ m = start_block_idx /\ l = layer_idx
                           /\ n = Len(keys) /\ c = Cardinality(Names)
    OBVIOUS
  <1>12. (GroupsOK(m, l) => GroupsOK(m, l)') /\ (GroupsOK(n, c) => GroupsOK(n, c)')
    BY <1>1, <1>2, GroupsFixed
  <1>13. BlockInv'
    BY <1>2, <1>3, <1>5, <1>9, <1>10, <1>11, <1>12 DEF IInv, BlockInv
  <1> QED
    BY <1>2, <1>3, <1>4, <1>13 DEF IInv

-----------------------------------------------------------------------------
(* The scan of a layer. *)

\* Once all rows are taken, a layer's rows are all there.
LEMMA LayerRows ==
    ASSUME TypeOK, RowsSorted, taken = Len(all_instructions), NEW l \in Names
    PROVE  Rows(l) = by_layer[l] /\ Lists(Rows(l), {i \in DOMAIN all_instructions : Layer(i) = l})
  <1>1. \A i \in DOMAIN all_instructions : i <= Len(all_instructions)
    BY RowFacts DEF TypeOK
  <1>2. {i \in DOMAIN all_instructions : i <= taken /\ Layer(i) = l} =
           {i \in DOMAIN all_instructions : Layer(i) = l}
    BY <1>1
  <1> QED
    BY <1>2 DEF RowsSorted, Rows

\* The row to be scanned next comes after those of its layer that have been.
LEMMA ScanFacts ==
    ASSUME IInv, Scanning, NEW x, x = Instr
    PROVE  /\ x \in DOMAIN all_instructions /\ x \in Nat /\ Kind(x) \in Kinds
           /\ Layer(x) = layer_idx /\ layer_idx \in Nat
           /\ Seen = Before(x)
           /\ \A i \in Seen : i \in DOMAIN all_instructions /\ i \in Nat /\ i < x /\ Layer(i) = layer_idx
  <1>1. TypeOK /\ RowsSorted /\ taken = Len(all_instructions) /\ row <= Len(Rows(layer_idx))
    BY DEF IInv, Scanning, Split
  <1>2. PICK r \in Nat, n \in Nat, R \in Seq(Nat) :
           /\ r = row /\ R = Rows(layer_idx) /\ r \in 1 .. n /\ DOMAIN R = 1 .. n
    <2>1. /\ Rows(layer_idx) \in Seq(Nat) /\ Len(Rows(layer_idx)) \in Nat
          /\ DOMAIN Rows(layer_idx) = 1 .. Len(Rows(layer_idx))
      BY <1>1, RowsType
    <2>2. row \in 1 .. Len(Rows(layer_idx))
      BY <1>1, <2>1 DEF TypeOK
    <2> QED
      BY <2>1, <2>2
  <1>3. layer_idx \in Names
    <2> SUFFICES ASSUME layer_idx \notin Names PROVE FALSE
      OBVIOUS
    <2>1. DOMAIN R = {}
      BY <1>2 DEF Rows
    <2> QED
      BY <1>2, <2>1
  <1>4. Lists(R, {i \in DOMAIN all_instructions : Layer(i) = layer_idx}) /\ x = R[r]
    BY <1>1, <1>2, <1>3, LayerRows DEF Instr
  <1>5. \A i \in DOMAIN all_instructions :
           i \in Nat /\ 1 <= i /\ Layer(i) \in Nat /\ Kind(i) \in Kinds
    BY <1>1, RowFacts DEF TypeOK
  <1>6. x \in DOMAIN all_instructions /\ Layer(x) = layer_idx
    BY <1>2, <1>4 DEF Lists, ToSet
  <1>7. \A k \in 1 .. n : R[k] \in DOMAIN all_instructions /\ Layer(R[k]) = layer_idx
    BY <1>2, <1>4 DEF Lists, ToSet
  <1>8. Seen = {R[k] : k \in 1 .. r - 1}
    BY <1>2 DEF Seen
  <1>9. ASSUME NEW i \in Seen
        PROVE  i \in DOMAIN all_instructions /\ i < x /\ Layer(i) = layer_idx
    <2>1. PICK k \in 1 .. r - 1 : i = R[k]
      BY <1>8
    <2>2. k \in 1 .. n /\ k < r
      BY <1>2
    <2> QED
      BY <1>2, <1>4, <1>7, <2>1, <2>2 DEF Lists
  <1>10. ASSUME NEW i \in Before(x) PROVE i \in Seen
    <2>1. i \in DOMAIN all_instructions /\ i < x /\ Layer(i) = layer_idx
      BY <1>1, <1>5, <1>6, RowFacts DEF Before, TypeOK
    <2>2. PICK k \in 1 .. n : i = R[k]
      BY <1>2, <1>4, <2>1 DEF Lists, ToSet
    <2>3. k < r
      <3>1. ~ (r < k)
        <4> SUFFICES ASSUME r < k PROVE FALSE
          OBVIOUS
        <4>1. x < i
          BY <1>2, <1>4, <2>2 DEF Lists
        <4> QED
          BY <1>5, <1>6, <2>1, <4>1
      <3>2. k # r
        BY <1>4, <1>5, <1>6, <2>1, <2>2
      <3> QED
        BY <1>2, <3>1, <3>2
    <2>4. k \in 1 .. r - 1
      BY <1>2, <2>3
    <2> QED
      BY <1>8, <2>2, <2>4
  <1>11. Seen \subseteq Before(x)
    BY <1>5, <1>6, <1>9 DEF Before
  <1> QED
    BY <1>5, <1>6, <1>9, <1>10, <1>11

\* What the row to be scanned is, by the rows scanned before it.
LEMMA RowKind ==
    ASSUME IInv, Scanning, NEW x, x = Instr
    PROVE  /\ InPrefix(x) <=> Kind(x) # "STORE" /\ Kind(x) # "LOAD_INP" /\ ~ Opened
           /\ Behind(x) <=> Closed /\ Kind(x) # "LOAD_INP"
           /\ InBlock(x) <=> \/ Kind(x) = "LOAD_INP"
                             \/ Opened /\ (Kind(x) = "STORE" \/ ~ Closed)
  <1>1. /\ x \in DOMAIN all_instructions /\ x \in Nat /\ Layer(x) = layer_idx
        /\ Seen = Before(x)
        /\ \A i \in Seen : i \in Nat /\ i < x /\ Layer(i) = layer_idx
    BY ScanFacts
  <1>2. Some(Before(x) \cup {x}, "LOAD_INP") <=> Opened \/ Kind(x) = "LOAD_INP"
    BY <1>1 DEF Some, Opened
  <1>3. ASSUME NEW s \in Before(x)
        PROVE  (\A j \in s + 1 .. x : Layer(j) = Layer(x) => Kind(j) # "LOAD_INP")
                  <=> ~ Some(Later(s), "LOAD_INP") /\ Kind(x) # "LOAD_INP"
    <2>1. \A j \in Later(s) : j \in s + 1 .. x /\ Layer(j) = Layer(x)
      BY <1>1 DEF Later
    <2>2. \A j \in s + 1 .. x : Layer(j) = Layer(x) => j = x \/ j \in Later(s)
      BY <1>1 DEF Later, Before
    <2>3. x \in s + 1 .. x
      BY <1>1
    <2> QED
      BY <2>1, <2>2, <2>3 DEF Some
  <1>4. Behind(x) <=> Closed /\ Kind(x) # "LOAD_INP"
    BY <1>1, <1>3 DEF Behind, Closed
  <1>5. InPrefix(x) <=> Kind(x) # "STORE" /\ Kind(x) # "LOAD_INP" /\ ~ Opened
    BY <1>2 DEF InPrefix
  <1>6. Kind(x) = "LOAD_INP" => Kind(x) # "STORE"
    OBVIOUS
  <1> QED
    BY <1>2, <1>4, <1>5, <1>6 DEF InBlock

\* What scanning a row does to what has been seen.
LEMMA ScanStep ==
    ASSUME IInv, Scanning, NEW x, x = Instr, [Next]_vars, row' = row + 1,
           layer_idx' = layer_idx, by_layer' = by_layer
    PROVE  /\ Seen' = Seen \cup {x}
           /\ \A i \in Seen : Later(i)' = Later(i) \cup {x}
           /\ Later(x)' = {}
           /\ Opened' <=> Opened \/ Kind(x) = "LOAD_INP"
           /\ Closed' <=> Kind(x) = "STORE" \/ (Closed /\ Kind(x) # "LOAD_INP")
  <1>1. /\ x \in Nat
        /\ \A i \in Seen : i \in Nat /\ i < x
    BY ScanFacts
  <1>2. /\ Names' = Names
        /\ \A i : Kind(i)' = Kind(i)
    BY RowsFixed
  <1>3. PICK r \in Nat, R \in Seq(Nat) : r = row /\ R = Rows(layer_idx) /\ r >= 1
    BY RowsType DEF IInv, TypeOK
  <1>4. Seen' = {R[k] : k \in 1 .. r}
    BY <1>2, <1>3 DEF Seen, Rows
  <1>5. 1 .. r = (1 .. r - 1) \cup {r}
    BY <1>3
  <1>6. Seen' = Seen \cup {x}
    BY <1>3, <1>4, <1>5 DEF Seen, Instr
  <1>7. /\ \A i \in Seen : Later(i)' = Later(i) \cup {x}
        /\ Later(x)' = {}
    BY <1>1, <1>6 DEF Later
  <1>8. Opened' <=> Opened \/ Kind(x) = "LOAD_INP"
    BY <1>2, <1>6 DEF Opened, Some
  <1>9. ASSUME NEW s \in Seen
        PROVE  ~ Some(Later(s), "LOAD_INP")' <=> ~ Some(Later(s), "LOAD_INP") /\ Kind(x) # "LOAD_INP"
    BY <1>2, <1>7 DEF Some
  <1>10. Closed' <=> Kind(x) = "STORE" \/ (Closed /\ Kind(x) # "LOAD_INP")
    <2>1. Closed' <=> \E s \in Seen \cup {x} : Kind(s) = "STORE" /\ ~ Some(Later(s), "LOAD_INP")'
      BY <1>2, <1>6 DEF Closed, Some
    <2>2. ~ Some(Later(x), "LOAD_INP")'
      BY <1>7 DEF Some
    <2>3. Kind(x) = "STORE" => Kind(x) # "LOAD_INP"
      OBVIOUS
    <2> QED
      BY <1>9, <2>1, <2>2, <2>3 DEF Closed
  <1> QED
    BY <1>6, <1>7, <1>8, <1>10

Scans == start_block \/ add_row \/ end_block

\* What becomes of a row: it starts a block, joins the last one, or is in none.
NewBlock  == <<layer_idx, Len(keys) - start_block_idx>>
Starts(x) == /\ Kind(x) = "LOAD_INP"
             /\ keys' = Append(keys, NewBlock) /\ splited' = Joined(NewBlock, x)
Joins(x)  == /\ Opened /\ InBlock(x)
             /\ keys' = keys /\ splited' = Joined(keys[Len(keys)], x)
Stays(x)  == /\ ~ InBlock(x)
             /\ keys' = keys /\ splited' \in {splited, Joined(NoBlock, x)}

\* What holds while a layer is scanned.
LEMMA ScanInv ==
    ASSUME IInv, Scanning
    PROVE  /\ TypeOK /\ RowsSorted /\ KeysOK /\ FlagsOK /\ BlocksOK
           /\ GroupsOK(start_block_idx, layer_idx)
           /\ phase = "split" /\ granulatity = "block" /\ taken = Len(all_instructions)
           /\ layer_idx < Cardinality(Names)
  BY DEF IInv, BlockInv, Scanning, Split

\* The three actions agree on what they leave alone, and do one of the three.
LEMMA ScanCases ==
    ASSUME IInv, Scans
    PROVE  /\ Scanning /\ row' = row + 1
           /\ UNCHANGED <<granulatity, all_instructions, phase, taken, by_layer, layers, layer_idx,
                          start_block_idx>>
           /\ Starts(Instr) \/ Joins(Instr) \/ Stays(Instr)
  <1>1. Scanning
    BY DEF Scans, start_block, add_row, end_block
  <1>2. /\ row' = row + 1
        /\ UNCHANGED <<granulatity, all_instructions, phase, taken, by_layer, layers, layer_idx,
                       start_block_idx>>
    BY DEF Scans, start_block, add_row, end_block, Keep
  <1>3. PICK x : x = Instr
    OBVIOUS
  <1>4. /\ InBlock(x) <=> \/ Kind(x) = "LOAD_INP"
                          \/ Opened /\ (Kind(x) = "STORE" \/ ~ Closed)
        /\ FlagsOK
    BY <1>1, <1>3, RowKind, ScanInv
  <1>5. CASE start_block
    <2>1. Starts(x)
      BY <1>3, <1>5 DEF start_block, Keep, Starts, NewBlock
    <2> QED
      BY <1>1, <1>2, <1>3, <2>1
  <1>6. CASE add_row /\ block_strated
    <2>1. Opened /\ ~ Closed /\ block_name = keys[Len(keys)] /\ InBlock(x)
      BY <1>4, <1>6 DEF FlagsOK
    <2>2. keys' = keys /\ splited' = Joined(keys[Len(keys)], x)
      BY <1>3, <1>6, <2>1 DEF add_row, Keep
    <2> QED
      BY <1>1, <1>2, <1>3, <2>1, <2>2 DEF Joins
  <1>7. CASE add_row /\ ~ block_strated
    <2>1. Kind(x) # "STORE" /\ Kind(x) # "LOAD_INP" /\ keys' = keys /\ splited' = splited
      BY <1>3, <1>7 DEF add_row, Keep
    <2>2. ~ InBlock(x)
      BY <1>4, <1>7, <2>1 DEF FlagsOK
    <2> QED
      BY <1>1, <1>2, <1>3, <2>1, <2>2 DEF Stays
  <1>8. CASE end_block
    <2>1. Kind(x) = "STORE" /\ Kind(x) # "LOAD_INP" /\ keys' = keys /\ splited' = Joined(block_name, x)
      BY <1>3, <1>8 DEF end_block
    <2>2. Opened => Joins(x)
      BY <1>4, <2>1 DEF FlagsOK, Joins
    <2>3. ~ Opened => Stays(x)
      BY <1>4, <2>1 DEF FlagsOK, Stays
    <2> QED
      BY <1>1, <1>2, <1>3, <2>2, <2>3
  <1> QED
    BY <1>5, <1>6, <1>7, <1>8 DEF Scans

\* The groups after a row: all but the one it joins are as before.
LEMMA ScanGroups ==
    ASSUME IInv, Scanning, NEW x, x = Instr, NEW n, n = Len(keys), NEW m, m = start_block_idx
    PROVE  /\ n \in Nat /\ m \in 0 .. n /\ DOMAIN keys = 1 .. n
           /\ Starts(x) =>
                 /\ Len(keys') = n + 1 /\ \A k \in 1 .. n : keys'[k] = keys[k]
                 /\ keys'[n + 1] = <<layer_idx, n - m>> /\ <<layer_idx, n - m>> \notin DOMAIN splited
                 /\ DOMAIN splited' = DOMAIN splited \cup {<<layer_idx, n - m>>}
                 /\ splited'[<<layer_idx, n - m>>] = Append(<< >>, x)
                 /\ \A k \in 1 .. n : splited'[keys[k]] = splited[keys[k]]
           /\ Joins(x) =>
                 /\ keys' = keys /\ m < n /\ DOMAIN splited' = DOMAIN splited
                 /\ splited'[keys[n]] = Append(splited[keys[n]], x)
                 /\ \A k \in (1 .. n) \ {n} : splited'[keys[k]] = splited[keys[k]]
           /\ Stays(x) =>
                 /\ keys' = keys
                 /\ DOMAIN splited' \subseteq DOMAIN splited \cup {NoBlock}
                 /\ DOMAIN splited \subseteq DOMAIN splited'
                 /\ \A k \in 1 .. n : splited'[keys[k]] = splited[keys[k]]
  <1>1. TypeOK /\ KeysOK /\ FlagsOK
    BY ScanInv
  <1>2. n \in Nat /\ m \in 0 .. n /\ DOMAIN keys = 1 .. n /\ keys \in Seq(Seq(Nat))
    BY <1>1, LenProperties DEF TypeOK
  <1>3. \A k \in 1 .. n :
           /\ keys[k] \in DOMAIN splited /\ keys[k] # NoBlock
           /\ \A j \in 1 .. n : j # k => keys[j] # keys[k]
    BY <1>1, <1>2 DEF KeysOK
  <1>4. ASSUME Starts(x)
        PROVE  /\ Len(keys') = n + 1 /\ \A k \in 1 .. n : keys'[k] = keys[k]
               /\ keys'[n + 1] = <<layer_idx, n - m>> /\ <<layer_idx, n - m>> \notin DOMAIN splited
               /\ DOMAIN splited' = DOMAIN splited \cup {<<layer_idx, n - m>>}
               /\ splited'[<<layer_idx, n - m>>] = Append(<< >>, x)
               /\ \A k \in 1 .. n : splited'[keys[k]] = splited[keys[k]]
    <2>1. PICK b : b = <<layer_idx, n - m>>
      OBVIOUS
    <2>2. b # NoBlock /\ b[1] = layer_idx /\ b[2] = n - m
      BY <2>1 DEF NoBlock
    <2>3. ASSUME NEW k \in 1 .. n PROVE keys[k] # b
      <3>1. CASE k <= m
        <4>1. keys[k][1] < layer_idx /\ layer_idx \in Nat
          BY <1>1, <1>2, <3>1, ScanFacts DEF KeysOK
        <4> QED
          BY <2>2, <4>1
      <3>2. CASE ~ (k <= m)
        <4> k \in m + 1 .. n
          BY <1>2, <3>2
        <4>1. keys[k] = <<layer_idx, (k - m) - 1>>
          BY <1>1, <1>2 DEF KeysOK, Blocks
        <4>2. (k - m) - 1 # n - m
          BY <1>2
        <4> QED
          BY <2>2, <4>1, <4>2
      <3> QED
        BY <3>1, <3>2
    <2>4. b \notin DOMAIN splited
      BY <1>1, <1>2, <2>2, <2>3 DEF KeysOK
    <2>5. keys' = Append(keys, b) /\ splited' = Joined(b, x)
      BY <1>4, <2>1 DEF Starts, NewBlock
    <2>6. b \in Seq(Nat)
      <3>1. layer_idx \in Nat /\ n - m \in Nat
        BY <1>2, ScanFacts
      <3> QED
        BY <2>1, <3>1
    <2>7. Len(keys') = n + 1 /\ keys'[n + 1] = b /\ \A k \in 1 .. n : keys'[k] = keys[k]
      BY <1>2, <2>5, <2>6, AppendProperties
    <2>8. /\ DOMAIN splited' = DOMAIN splited \cup {b}
          /\ splited'[b] = Append(<< >>, x)
          /\ \A key \in DOMAIN splited \ {b} : splited'[key] = splited[key]
      <3>1. At(b) = << >>
        BY <2>4 DEF At
      <3> QED
        BY <2>5, <3>1 DEF Joined
    <2>9. \A k \in 1 .. n : splited'[keys[k]] = splited[keys[k]]
      BY <1>3, <2>3, <2>8
    <2> QED
      BY <2>1, <2>4, <2>7, <2>8, <2>9
  <1>5. ASSUME Joins(x)
        PROVE  /\ keys' = keys /\ m < n /\ DOMAIN splited' = DOMAIN splited
               /\ splited'[keys[n]] = Append(splited[keys[n]], x)
               /\ \A k \in (1 .. n) \ {n} : splited'[keys[k]] = splited[keys[k]]
    <2>1. PICK b : b = keys[n]
      OBVIOUS
    <2>2. keys' = keys /\ splited' = Joined(b, x) /\ m + 1 .. n # {}
      BY <1>1, <1>5, <2>1 DEF Joins, FlagsOK, Blocks
    <2>3. m < n /\ n \in 1 .. n
      BY <1>2, <2>2
    <2>4. At(b) = splited[b] /\ b \in DOMAIN splited
      BY <1>3, <2>1, <2>3 DEF At
    <2>5. /\ DOMAIN splited' = DOMAIN splited
          /\ splited'[b] = Append(splited[b], x)
          /\ \A key \in DOMAIN splited \ {b} : splited'[key] = splited[key]
      <3>1. /\ DOMAIN splited' = DOMAIN splited \cup {b}
            /\ splited'[b] = Append(At(b), x)
            /\ \A key \in DOMAIN splited \ {b} : splited'[key] = splited[key]
        BY <2>2 DEF Joined
      <3> QED
        BY <2>4, <3>1
    <2>6. \A k \in (1 .. n) \ {n} : splited'[keys[k]] = splited[keys[k]]
      BY <1>3, <2>1, <2>3, <2>5
    <2> QED
      BY <2>1, <2>2, <2>3, <2>5, <2>6
  <1>6. ASSUME Stays(x)
        PROVE  /\ keys' = keys
               /\ DOMAIN splited' \subseteq DOMAIN splited \cup {NoBlock}
               /\ DOMAIN splited \subseteq DOMAIN splited'
               /\ \A k \in 1 .. n : splited'[keys[k]] = splited[keys[k]]
    <2>1. keys' = keys /\ (splited' = splited \/ splited' = Joined(NoBlock, x))
      BY <1>6 DEF Stays
    <2>2. CASE splited' = splited
      BY <2>1, <2>2
    <2>3. CASE splited' = Joined(NoBlock, x)
      <3>1. /\ DOMAIN splited' = DOMAIN splited \cup {NoBlock}
            /\ \A key \in DOMAIN splited \ {NoBlock} : splited'[key] = splited[key]
        BY <2>3 DEF Joined
      <3> QED
        BY <1>3, <2>1, <3>1
    <2> QED
      BY <2>1, <2>2, <2>3
  <1> QED
    BY <1>2, <1>4, <1>5, <1>6

\* A new block has a name of its own.
LEMMA ScanKeys ==
    ASSUME IInv, Scans
    PROVE  KeysOK'
  <1>1. PICK x, n, m, l : /\ x = Instr /\ n = Len(keys) /\ m = start_block_idx /\ l = layer_idx
    OBVIOUS
  <1>2. /\ Scanning /\ KeysOK /\ layer_idx' = l /\ start_block_idx' = m
        /\ Starts(x) \/ Joins(x) \/ Stays(x)
    BY <1>1, ScanCases, ScanInv
  <1>3. n \in Nat /\ m \in 0 .. n /\ DOMAIN keys = 1 .. n /\ l \in Nat
    BY <1>1, <1>2, ScanGroups, ScanFacts
  <1>4. CASE Starts(x)
    <2>1. PICK b : b = <<l, n - m>>
      OBVIOUS
    <2>2. /\ Len(keys') = n + 1 /\ keys'[n + 1] = b /\ \A k \in 1 .. n : keys'[k] = keys[k]
          /\ b \notin DOMAIN splited /\ DOMAIN splited' = DOMAIN splited \cup {b}
      BY <1>1, <1>2, <1>4, <2>1, ScanGroups
    <2>3. keys' = Append(keys, b) /\ b # NoBlock
      BY <1>1, <1>4, <2>1 DEF Starts, NewBlock, NoBlock
    <2>4. DOMAIN keys' = 1 .. n + 1
      <3>1. b \in Seq(Nat) /\ keys \in Seq(Seq(Nat))
        <4>1. n - m \in Nat
          BY <1>3
        <4>2. b \in Seq(Nat)
          BY <1>3, <2>1, <4>1
        <4> QED
          BY <1>2, <4>2, ScanInv DEF TypeOK
      <3>2. keys' \in Seq(Seq(Nat))
        BY <2>3, <3>1, AppendProperties
      <3> QED
        BY <2>2, <3>2, LenProperties
    <2>5. 1 .. n + 1 = (1 .. n) \cup {n + 1} /\ n + 1 \notin 1 .. n /\ ~ (n + 1 <= m)
      BY <1>3
    <2>6. \A k \in 1 .. n : keys[k] \in DOMAIN splited /\ keys[k] # NoBlock /\ keys[k] # b
      BY <1>2, <1>3, <2>2 DEF KeysOK
    <2>7. \A k \in 1 .. n : k \in m + 1 .. n + 1 => k \in m + 1 .. n
      BY <1>3
    <2>8. \A k \in 1 .. n + 1 :
             /\ keys'[k] \in DOMAIN splited' \ {NoBlock}
             /\ k <= m => keys'[k][1] < l
             /\ k \in m + 1 .. n + 1 => keys'[k] = <<l, (k - m) - 1>>
      <3>1. ASSUME NEW k \in 1 .. n
            PROVE  /\ keys'[k] \in DOMAIN splited' \ {NoBlock}
                   /\ k <= m => keys'[k][1] < l
                   /\ k \in m + 1 .. n + 1 => keys'[k] = <<l, (k - m) - 1>>
        BY <1>1, <1>2, <1>3, <2>2, <2>6, <2>7 DEF KeysOK, Blocks
      <3>2. keys'[n + 1] \in DOMAIN splited' \ {NoBlock}
        BY <2>2, <2>3
      <3>3. ((n + 1) - m) - 1 = n - m
        BY <1>3
      <3>4. keys'[n + 1] = <<l, ((n + 1) - m) - 1>>
        BY <2>1, <2>2, <3>3
      <3> QED
        BY <2>5, <3>1, <3>2, <3>4
    <2>9. \A j, k \in 1 .. n + 1 : j # k => keys'[j] # keys'[k]
      BY <1>2, <1>3, <2>2, <2>5, <2>6 DEF KeysOK
    <2>10. DOMAIN splited' \subseteq {keys'[k] : k \in 1 .. n + 1} \cup {NoBlock}
      BY <1>2, <1>3, <2>2, <2>5 DEF KeysOK
    <2> QED
      BY <1>2, <2>2, <2>4, <2>8, <2>9, <2>10 DEF KeysOK, Blocks
  <1>5. CASE Joins(x)
    <2>1. keys' = keys /\ DOMAIN splited' = DOMAIN splited
      BY <1>1, <1>2, <1>5, ScanGroups
    <2> QED
      BY <1>1, <1>2, <2>1 DEF KeysOK, Blocks
  <1>6. CASE Stays(x)
    <2>1. /\ keys' = keys
          /\ DOMAIN splited' \subseteq DOMAIN splited \cup {NoBlock}
          /\ DOMAIN splited \subseteq DOMAIN splited'
      BY <1>1, <1>2, <1>6, ScanGroups
    <2> QED
      BY <1>1, <1>2, <2>1 DEF KeysOK, Blocks
  <1> QED
    BY <1>2, <1>4, <1>5, <1>6

\* Types while a layer is scanned.
LEMMA ScanType ==
    ASSUME IInv, Scans
    PROVE  TypeOK' /\ RowsSorted'
  <1>1. PICK x, b, n, m : x = Instr /\ b = NewBlock /\ n = Len(keys) /\ m = start_block_idx
    OBVIOUS
  <1>2. /\ Scanning /\ TypeOK /\ RowsSorted /\ row' = row + 1
        /\ UNCHANGED <<granulatity, all_instructions, phase, taken, by_layer, layers, layer_idx,
                       start_block_idx>>
        /\ Starts(x) \/ Joins(x) \/ Stays(x)
    BY <1>1, ScanCases, ScanInv
  <1>3. x \in Nat /\ layer_idx \in Nat
    BY <1>1, <1>2, ScanFacts
  <1>4. /\ Names' = Names
        /\ \A i : Layer(i)' = Layer(i)
        /\ \A layer : Rows(layer)' = Rows(layer)
    <2>1. [Next]_vars
      BY DEF Scans, Next
    <2> QED
      BY <1>2, <2>1, RowsFixed DEF Rows
  <1>5. b \in Seq(Nat)
    <2>1. n \in Nat /\ m \in 0 .. n
      BY <1>1, <1>2, ScanGroups
    <2>2. n - m \in Nat
      BY <2>1
    <2> QED
      BY <1>1, <1>3, <2>2 DEF NewBlock
  <1>6. keys' \in Seq(Seq(Nat)) /\ n \in Nat /\ Len(keys') \in {n, n + 1}
    <2>1. keys \in Seq(Seq(Nat)) /\ n \in Nat
      BY <1>1, <1>2, LenProperties DEF TypeOK
    <2>2. keys' = keys \/ keys' = Append(keys, b)
      BY <1>1, <1>2 DEF Starts, Joins, Stays
    <2>3. Append(keys, b) \in Seq(Seq(Nat)) /\ Len(Append(keys, b)) = n + 1
      BY <1>1, <1>5, <2>1, AppendProperties
    <2> QED
      BY <1>1, <2>1, <2>2, <2>3
  <1>7. ASSUME NEW key \in Seq(Nat), splited' = Joined(key, x)
        PROVE  /\ DOMAIN splited' \subseteq Seq(Nat)
               /\ \A k \in DOMAIN splited' : splited'[k] \in Seq(Nat)
    <2>1. /\ DOMAIN splited' = DOMAIN splited \cup {key}
          /\ splited'[key] = Append(At(key), x)
          /\ \A k \in DOMAIN splited \ {key} : splited'[k] = splited[k]
      BY <1>7 DEF Joined
    <2>2. At(key) \in Seq(Nat)
      BY <1>2, EmptySeq DEF TypeOK, At
    <2>3. Append(At(key), x) \in Seq(Nat)
      BY <1>3, <2>2, AppendProperties
    <2> QED
      BY <1>2, <2>1, <2>3 DEF TypeOK
  <1>8. /\ DOMAIN splited' \subseteq Seq(Nat)
        /\ \A k \in DOMAIN splited' : splited'[k] \in Seq(Nat)
    <2>1. CASE Starts(x)
      BY <1>1, <1>5, <1>7, <2>1 DEF Starts
    <2>2. CASE Joins(x)
      <3>1. n \in Nat /\ m \in 0 .. n /\ m < n
        BY <1>1, <1>2, <2>2, ScanGroups
      <3>2. n \in 1 .. n
        BY <3>1
      <3>3. keys[Len(keys)] \in Seq(Nat)
        BY <1>1, <1>2, <3>2, ElementOfSeq DEF TypeOK
      <3> QED
        BY <1>7, <2>2, <3>3 DEF Joins
    <2>3. CASE Stays(x)
      <3>1. NoBlock \in Seq(Nat)
        BY EmptySeq DEF NoBlock
      <3> QED
        BY <1>2, <1>7, <2>3, <3>1 DEF Stays, TypeOK
    <2> QED
      BY <1>2, <2>1, <2>2, <2>3
  <1>9. /\ block_strated' \in BOOLEAN /\ add_prefix' \in BOOLEAN /\ add_postfix' \in BOOLEAN
        /\ block_name' \in Seq(Nat)
    BY <1>1, <1>2, <1>5 DEF TypeOK, Scans, start_block, add_row, end_block, NewBlock
  <1>10. prefix' \in Seq(Nat) /\ postfix' \in Seq(Nat)
    <2>1. /\ prefix' = prefix \/ prefix' = Append(prefix, x)
          /\ postfix' = postfix \/ postfix' = Append(postfix, x) \/ postfix' = << >>
      BY <1>1 DEF Scans, start_block, add_row, end_block, Keep
    <2>2. prefix \in Seq(Nat) /\ postfix \in Seq(Nat) /\ << >> \in Seq(Nat)
      BY <1>2, EmptySeq DEF TypeOK
    <2>3. Append(prefix, x) \in Seq(Nat) /\ Append(postfix, x) \in Seq(Nat)
      BY <1>3, <2>2, AppendProperties
    <2> QED
      BY <2>1, <2>2, <2>3
  <1>11. start_block_idx' \in 0 .. Len(keys')
    <2>1. m \in 0 .. n /\ start_block_idx' = m
      BY <1>1, <1>2, ScanGroups
    <2> QED
      BY <1>6, <2>1
  <1>12. row' \in (1 .. Len(Rows(layer_idx)) + 1)'
    <2>1. /\ row \in Nat /\ row >= 1 /\ row <= Len(Rows(layer_idx))
          /\ Len(Rows(layer_idx)) \in Nat /\ Len(Rows(layer_idx))' = Len(Rows(layer_idx))
      BY <1>2, <1>4, RowsType DEF TypeOK, Scanning
    <2> QED
      BY <1>2, <2>1
  <1> QED
    BY <1>2, <1>4, <1>6, <1>8, <1>9, <1>10, <1>11, <1>12 DEF TypeOK, RowsSorted

\* The rows behind the last block, as far as they have been seen.
Trailing == {i \in Seen : Kind(i) # "STORE" /\ Behind(i) /\ ~ Some(Later(i), "LOAD_INP")}

\* Rows are collected for the postfix only behind a closed block.
LEMMA TrailingClosed ==
    ASSUME IInv, Scanning, Trailing # {}
    PROVE  Closed
  <1>1. PICK i \in Seen : Behind(i) /\ ~ Some(Later(i), "LOAD_INP")
    BY DEF Trailing
  <1>2. PICK s \in Before(i) :
           /\ Kind(s) = "STORE"
           /\ \A j \in s + 1 .. i : Layer(j) = Layer(i) => Kind(j) # "LOAD_INP"
    BY <1>1 DEF Behind
  <1>3. PICK x : x = Instr
    OBVIOUS
  <1>4. /\ Seen = Before(x) /\ Layer(x) = layer_idx /\ x \in Nat
        /\ \A j \in Seen : j \in Nat /\ j < x /\ Layer(j) = layer_idx
    BY <1>3, ScanFacts
  <1>5. s \in Seen
    <2>1. i \in Nat /\ i < x /\ Layer(i) = Layer(x)
      BY <1>1, <1>4
    <2>2. s \in 1 .. i - 1 /\ Layer(s) = Layer(i)
      BY <1>2 DEF Before
    <2>3. s \in 1 .. x - 1
      BY <1>4, <2>1, <2>2
    <2> QED
      BY <1>4, <2>1, <2>2, <2>3 DEF Before
  <1>6. ASSUME NEW j \in Later(s) PROVE Kind(j) # "LOAD_INP"
    <2>1. j \in Seen /\ s < j /\ j \in Nat /\ i \in Nat /\ s \in Nat /\ Layer(j) = Layer(i)
      BY <1>1, <1>4, <1>5, <1>6 DEF Later
    <2>2. CASE j <= i
      <3>1. j \in s + 1 .. i
        BY <2>1, <2>2
      <3> QED
        BY <1>2, <2>1, <3>1
    <2>3. CASE i < j
      BY <1>1, <2>1, <2>3 DEF Later, Some
    <2>4. j <= i \/ i < j
      BY <2>1
    <2> QED
      BY <2>2, <2>3, <2>4
  <1> QED
    BY <1>2, <1>5, <1>6 DEF Closed, Some

\* The flags and the two collections follow the rows.
LEMMA ScanFlags ==
    ASSUME IInv, Scans
    PROVE  FlagsOK'
  <1>1. PICK x, n, m : x = Instr /\ n = Len(keys) /\ m = start_block_idx
    OBVIOUS
  <1>2. PICK P, Q : P = {i \in Seen : InPrefix(i)} /\ Q = Trailing
    OBVIOUS
  <1>3. /\ Scanning /\ FlagsOK /\ TypeOK /\ row' = row + 1 /\ [Next]_vars
        /\ UNCHANGED <<granulatity, all_instructions, phase, taken, by_layer, layers, layer_idx,
                       start_block_idx>>
    BY <1>1, ScanCases, ScanInv DEF Scans, Next
  <1>4. /\ Seen' = Seen \cup {x}
        /\ \A i \in Seen : Later(i)' = Later(i) \cup {x}
        /\ Later(x)' = {}
        /\ Opened' <=> Opened \/ Kind(x) = "LOAD_INP"
        /\ Closed' <=> Kind(x) = "STORE" \/ (Closed /\ Kind(x) # "LOAD_INP")
    BY <1>1, <1>3, ScanStep
  <1>5. /\ InPrefix(x) <=> Kind(x) # "STORE" /\ Kind(x) # "LOAD_INP" /\ ~ Opened
        /\ Behind(x) <=> Closed /\ Kind(x) # "LOAD_INP"
    BY <1>1, <1>3, RowKind
  <1>6. x \in Nat /\ \A i \in Seen : i < x
    BY <1>1, <1>3, ScanFacts
  <1>7. /\ \A i : InPrefix(i)' <=> InPrefix(i)
        /\ \A i : Behind(i)' <=> Behind(i)
        /\ \A i : Kind(i)' = Kind(i)
    BY <1>3, RowsFixed
  <1>8. /\ InPrefix(x) => {i \in Seen : InPrefix(i)}' = P \cup {x}
        /\ ~ InPrefix(x) => {i \in Seen : InPrefix(i)}' = P
    BY <1>2, <1>4, <1>7
  <1>9. ASSUME NEW i \in Seen
        PROVE  ~ Some(Later(i), "LOAD_INP")' <=> ~ Some(Later(i), "LOAD_INP") /\ Kind(x) # "LOAD_INP"
    BY <1>4, <1>7 DEF Some
  <1>10. ~ Some(Later(x), "LOAD_INP")'
    BY <1>4 DEF Some
  <1>11. Trailing' = {i \in Seen \cup {x} :
                        Kind(i) # "STORE" /\ Behind(i) /\ ~ Some(Later(i), "LOAD_INP")'}
    BY <1>4, <1>7 DEF Trailing, Some
  <1>12. /\ Kind(x) = "LOAD_INP" => Trailing' = {}
         /\ Kind(x) = "STORE" => Trailing' = Q
         /\ Kind(x) \notin {"LOAD_INP", "STORE"} /\ Closed => Trailing' = Q \cup {x}
         /\ Kind(x) \notin {"LOAD_INP", "STORE"} /\ ~ Closed => Trailing' = Q
    BY <1>2, <1>5, <1>9, <1>10, <1>11 DEF Trailing
  <1>13. Lists(prefix, P) /\ Lists(postfix, Q) /\ prefix \in Seq(Nat) /\ postfix \in Seq(Nat)
    BY <1>2, <1>3 DEF FlagsOK, TypeOK, Trailing
  <1>14. Lists(Append(prefix, x), P \cup {x}) /\ Lists(Append(postfix, x), Q \cup {x})
    <2>1. (\A i \in P : i < x) /\ (\A i \in Q : i < x)
      BY <1>2, <1>6 DEF Trailing
    <2> QED
      BY <1>6, <1>13, <2>1, AppendLists
  <1>15. Q # {} => Closed
    BY <1>2, <1>3, TrailingClosed
  <1>16. n \in Nat /\ m \in 0 .. n
    BY <1>1, <1>3, ScanGroups
  <1>17. CASE start_block
    <2>1. /\ Kind(x) = "LOAD_INP" /\ Kind(x) # "STORE" /\ Starts(x)
          /\ add_prefix' = FALSE /\ add_postfix' = FALSE /\ block_strated' = TRUE
          /\ block_name' = NewBlock /\ postfix' = << >> /\ prefix' = prefix
      BY <1>1, <1>17 DEF start_block, Keep, NewBlock, Starts
    <2>2. Opened' /\ ~ Closed'
      BY <1>4, <2>1
    <2>3. Len(keys') = n + 1 /\ keys'[n + 1] = <<layer_idx, n - m>> /\ start_block_idx' = m
      BY <1>1, <1>3, <2>1, ScanGroups
    <2>4. Blocks' # {}
      <3>1. n + 1 \in m + 1 .. n + 1
        BY <1>16
      <3> QED
        BY <2>3, <3>1 DEF Blocks
    <2>5. block_name' = keys'[Len(keys')]
      BY <1>1, <2>1, <2>3 DEF NewBlock
    <2>6. Lists(prefix', {i \in Seen : InPrefix(i)}')
      BY <1>5, <1>8, <1>13, <2>1
    <2>7. Lists(postfix', Trailing')
      BY <1>12, <2>1, EmptyLists
    <2> QED
      BY <2>1, <2>2, <2>4, <2>5, <2>6, <2>7 DEF FlagsOK, Trailing
  <1>18. CASE add_row
    <2>1. /\ Kind(x) # "STORE" /\ (Kind(x) = "LOAD_INP" => block_strated)
          /\ UNCHANGED <<add_prefix, add_postfix, block_strated, block_name, keys>>
          /\ postfix' = IF add_postfix THEN Append(postfix, x) ELSE postfix
          /\ prefix' = IF add_prefix THEN Append(prefix, x) ELSE prefix
      BY <1>1, <1>18 DEF add_row, Keep
    <2>2. /\ add_prefix <=> ~ Opened
          /\ add_postfix <=> Closed
          /\ block_strated <=> Opened /\ ~ Closed
          /\ Blocks # {} <=> Opened
          /\ block_name = IF Opened THEN keys[Len(keys)] ELSE NoBlock
      BY <1>3 DEF FlagsOK
    <2>3. (Opened' <=> Opened) /\ (Closed' <=> Closed) /\ Blocks' = Blocks
      BY <1>3, <1>4, <2>1, <2>2 DEF Blocks
    <2>4. Lists(prefix', {i \in Seen : InPrefix(i)}')
      BY <1>5, <1>8, <1>13, <1>14, <2>1, <2>2
    <2>5. Lists(postfix', Trailing')
      <3>1. CASE Kind(x) = "LOAD_INP"
        BY <1>12, <1>13, <1>15, <2>1, <2>2, <3>1
      <3>2. CASE Kind(x) # "LOAD_INP"
        BY <1>12, <1>13, <1>14, <2>1, <2>2, <3>2
      <3> QED
        BY <3>1, <3>2
    <2> QED
      BY <2>1, <2>2, <2>3, <2>4, <2>5 DEF FlagsOK, Trailing
  <1>19. CASE end_block
    <2>1. /\ Kind(x) = "STORE" /\ Kind(x) # "LOAD_INP"
          /\ add_postfix' = TRUE /\ block_strated' = FALSE
          /\ UNCHANGED <<keys, block_name, add_prefix, prefix, postfix>>
      BY <1>1, <1>19 DEF end_block
    <2>2. /\ add_prefix <=> ~ Opened
          /\ Blocks # {} <=> Opened
          /\ block_name = IF Opened THEN keys[Len(keys)] ELSE NoBlock
      BY <1>3 DEF FlagsOK
    <2>3. (Opened' <=> Opened) /\ Closed' /\ Blocks' = Blocks
      BY <1>3, <1>4, <2>1 DEF Blocks
    <2>4. Lists(prefix', {i \in Seen : InPrefix(i)}')
      BY <1>5, <1>8, <1>13, <2>1
    <2>5. Lists(postfix', Trailing')
      BY <1>12, <1>13, <2>1
    <2> QED
      BY <2>1, <2>2, <2>3, <2>4, <2>5 DEF FlagsOK, Trailing
  <1> QED
    BY <1>17, <1>18, <1>19 DEF Scans

\* The LOAD INP a row belongs to is the last one seen.
LEMMA LastLoadOpens ==
    ASSUME IInv, Scanning, NEW x, x = Instr,
           NEW j, j \in Seen \cup {x}, Kind(j) = "LOAD_INP",
           j = x \/ (Kind(x) # "LOAD_INP" /\ ~ Some(Later(j), "LOAD_INP"))
    PROVE  Opens(j, x)
  <1>1. /\ x \in Nat /\ Seen = Before(x)
        /\ \A i \in Seen : i \in Nat /\ i < x
    BY ScanFacts
  <1>2. ASSUME NEW t, t \in After(j), t \in Before(x) \cup {x} PROVE Kind(t) # "LOAD_INP"
    <2>1. j \in Nat /\ j < t
      BY <1>1, <1>2 DEF After
    <2>2. j # x
      BY <1>1, <1>2, <2>1
    <2>3. CASE t = x
      BY <2>2, <2>3
    <2>4. CASE t \in Seen
      BY <2>1, <2>2, <2>4 DEF Later, Some
    <2> QED
      BY <1>1, <1>2, <2>3, <2>4
  <1> QED
    BY <1>1, <1>2 DEF Opens, Some

\* The row that joins a block belongs to it; the other blocks stay.
LEMMA ScanBlocks ==
    ASSUME IInv, Scans
    PROVE  BlocksOK'
  <1>1. PICK x, n, m : x = Instr /\ n = Len(keys) /\ m = start_block_idx
    OBVIOUS
  <1>2. /\ Scanning /\ BlocksOK /\ FlagsOK /\ TypeOK /\ KeysOK /\ row' = row + 1 /\ [Next]_vars
        /\ UNCHANGED <<granulatity, all_instructions, phase, taken, by_layer, layers, layer_idx,
                       start_block_idx>>
        /\ Starts(x) \/ Joins(x) \/ Stays(x)
    BY <1>1, ScanCases, ScanInv DEF Scans, Next
  <1>3. /\ Seen' = Seen \cup {x}
        /\ \A i \in Seen : Later(i)' = Later(i) \cup {x}
        /\ Later(x)' = {}
        /\ Opened' <=> Opened \/ Kind(x) = "LOAD_INP"
    BY <1>1, <1>2, ScanStep
  <1>4. x \in Nat /\ \A i \in Seen : i < x /\ i \in Nat
    BY <1>1, <1>2, ScanFacts
  <1>5. /\ \A i : InBlock(i)' <=> InBlock(i)
        /\ \A i : Kind(i)' = Kind(i)
        /\ \A i, j : Opens(j, i)' <=> Opens(j, i)
    BY <1>2, RowsFixed
  <1>6. n \in Nat /\ m \in 0 .. n /\ DOMAIN keys = 1 .. n /\ Blocks = m + 1 .. n
    BY <1>1, <1>2, ScanGroups DEF Blocks
  <1>7. InBlock(x) <=> Kind(x) = "LOAD_INP" \/ (Opened /\ (Kind(x) = "STORE" \/ ~ Closed))
    BY <1>1, <1>2, RowKind
  <1>8. \A k \in Blocks : splited[keys[k]] \in Seq(Nat)
    <2>1. \A k \in Blocks : k \in DOMAIN keys
      BY <1>6
    <2> QED
      BY <1>2, <2>1 DEF KeysOK, TypeOK
  \* Where the row goes: block K, which held the rows of S in the order of s.
  <1>9. ASSUME NEW K, NEW s, NEW S,
               K = Len(keys'), Blocks' = Blocks \cup {K}, K \in Blocks => S = Members(K),
               \A k \in Blocks \ {K} : splited'[keys'[k]] = splited[keys[k]],
               splited'[keys'[K]] = Append(s, x), s \in Seq(Nat), Lists(s, S),
               \A i \in S : i \in Seen /\ InBlock(i) /\ \E j \in S : Opens(j, i),
               \A k \in Blocks \ {K} : Members(k) \cap S = {},
               InBlock(x),
               \E j \in S \cup {x} : Kind(j) = "LOAD_INP"
                  /\ (j = x \/ (Kind(x) # "LOAD_INP" /\ ~ Some(Later(j), "LOAD_INP")))
        PROVE  BlocksOK'
    <2>1. Lists(Append(s, x), S \cup {x})
      BY <1>4, <1>9, AppendLists
    <2>2. Members(K)' = S \cup {x} /\ Lists(splited[keys[K]], Members(K))'
      <3>1. PICK u : u = splited'[keys'[K]]
        OBVIOUS
      <3>2. Lists(u, S \cup {x}) /\ ToSet(u) = S \cup {x}
        BY <1>9, <2>1, <3>1 DEF Lists
      <3> QED
        BY <3>1, <3>2 DEF Members, Lists, ToSet
    <2>3. ASSUME NEW k \in Blocks \ {K}
          PROVE  Members(k)' = Members(k) /\ Lists(splited[keys[k]], Members(k))'
      <3>1. splited'[keys'[k]] = splited[keys[k]]
        BY <1>9
      <3>2. Lists(splited[keys[k]], Members(k))
        BY <1>2 DEF BlocksOK
      <3> QED
        BY <3>1, <3>2 DEF Members, Lists, ToSet
    <2>4. PICK j : /\ j \in S \cup {x} /\ Kind(j) = "LOAD_INP"
                   /\ j = x \/ (Kind(x) # "LOAD_INP" /\ ~ Some(Later(j), "LOAD_INP"))
      BY <1>9
    <2>5. Opens(j, x)
      BY <1>1, <1>2, <1>9, <2>4, LastLoadOpens
    <2>6. ~ Some(Later(j), "LOAD_INP")'
      <3>1. CASE j = x
        BY <1>3, <3>1 DEF Some
      <3>2. CASE j # x
        <4>1. Later(j)' = Later(j) \cup {x} /\ Kind(x) # "LOAD_INP" /\ ~ Some(Later(j), "LOAD_INP")
          BY <1>3, <1>9, <2>4, <3>2
        <4> QED
          BY <1>5, <4>1 DEF Some
      <3> QED
        BY <3>1, <3>2
    <2>7. x \notin Seen
      BY <1>4
    <2>8. \A k \in Blocks : Members(k) \subseteq Seen
      BY <1>2 DEF BlocksOK
    <2>9. \A k \in Blocks' :
             /\ Lists(splited[keys[k]], Members(k))' /\ Members(k)' # {}
             /\ \A i \in Members(k)' : i \in Seen' /\ InBlock(i)' /\ \E t \in Members(k)' : Opens(t, i)'
      <3>1. /\ Lists(splited[keys[K]], Members(K))' /\ Members(K)' # {}
            /\ \A i \in Members(K)' : i \in Seen' /\ InBlock(i)' /\ \E t \in Members(K)' : Opens(t, i)'
        BY <1>3, <1>5, <1>9, <2>2, <2>4, <2>5
      <3>2. ASSUME NEW k \in Blocks \ {K}
            PROVE  /\ Lists(splited[keys[k]], Members(k))' /\ Members(k)' # {}
                   /\ \A i \in Members(k)' : i \in Seen' /\ InBlock(i)' /\ \E t \in Members(k)' : Opens(t, i)'
        BY <1>2, <1>3, <1>5, <2>3 DEF BlocksOK
      <3> QED
        BY <1>9, <3>1, <3>2
    <2>10. \A k \in Blocks', t \in Blocks' : t # k => Members(t)' \cap Members(k)' = {}
      <3>1. ASSUME NEW k \in Blocks \ {K}, NEW t \in Blocks \ {K}, t # k
            PROVE  Members(t)' \cap Members(k)' = {}
        BY <1>2, <2>3, <3>1 DEF BlocksOK
      <3>2. ASSUME NEW k \in Blocks \ {K}
            PROVE  Members(k)' \cap Members(K)' = {} /\ Members(K)' \cap Members(k)' = {}
        BY <1>9, <2>2, <2>3, <2>7, <2>8
      <3> QED
        BY <1>9, <3>1, <3>2
    <2>11. \A i \in Seen' : InBlock(i)' => \E k \in Blocks' : i \in Members(k)'
      BY <1>2, <1>3, <1>5, <1>9, <2>2, <2>3 DEF BlocksOK
    <2>12. \E t \in Members(Len(keys))' : Kind(t)' = "LOAD_INP" /\ ~ Some(Later(t), "LOAD_INP")'
      <3>1. Members(Len(keys))' = Members(K)'
        BY <1>9 DEF Members, ToSet
      <3> QED
        BY <1>5, <2>2, <2>4, <2>6, <3>1
    <2> QED
      BY <2>9, <2>10, <2>11, <2>12 DEF BlocksOK
  <1>10. CASE Starts(x)
    <2>1. /\ Len(keys') = n + 1 /\ keys'[n + 1] = <<layer_idx, n - m>>
          /\ splited'[<<layer_idx, n - m>>] = Append(<< >>, x)
          /\ \A k \in 1 .. n : keys'[k] = keys[k] /\ splited'[keys[k]] = splited[keys[k]]
      BY <1>1, <1>2, <1>10, ScanGroups
    <2>2. PICK K : K = n + 1
      OBVIOUS
    <2>3. /\ Blocks' = Blocks \cup {K} /\ K \notin Blocks
          /\ \A k \in Blocks : k \in 1 .. n
      <3>1. Blocks' = m + 1 .. n + 1
        BY <1>1, <1>2, <2>1 DEF Blocks
      <3>2. m + 1 .. n + 1 = (m + 1 .. n) \cup {n + 1}
        BY <1>6
      <3> QED
        BY <1>6, <2>2, <3>1, <3>2
    <2>4. \A k \in Blocks \ {K} : splited'[keys'[k]] = splited[keys[k]]
      BY <2>1, <2>3
    <2>5. splited'[keys'[K]] = Append(<< >>, x) /\ K = Len(keys')
      BY <2>1, <2>2
    <2>6. Kind(x) = "LOAD_INP" /\ InBlock(x)
      BY <1>7, <1>10 DEF Starts
    <2>7. PICK s, S : s = << >> /\ S = {}
      OBVIOUS
    <2>8. /\ s \in Seq(Nat) /\ Lists(s, S) /\ splited'[keys'[K]] = Append(s, x)
          /\ \A k \in Blocks \ {K} : Members(k) \cap S = {}
          /\ \A i \in S : i \in Seen /\ InBlock(i) /\ \E j \in S : Opens(j, i)
      BY <2>5, <2>7, EmptyLists, EmptySeq
    <2>9. \E t \in S \cup {x} : Kind(t) = "LOAD_INP"
             /\ (t = x \/ (Kind(x) # "LOAD_INP" /\ ~ Some(Later(t), "LOAD_INP")))
      BY <2>6
    <2> QED
      BY <1>9, <2>3, <2>4, <2>5, <2>6, <2>8, <2>9
  <1>11. CASE Joins(x)
    <2>1. /\ keys' = keys /\ m < n
          /\ splited'[keys[n]] = Append(splited[keys[n]], x)
          /\ \A k \in (1 .. n) \ {n} : splited'[keys[k]] = splited[keys[k]]
      <3>1. Scanning
        BY <1>2
      <3> QED
        BY <1>1, <1>11, <3>1, ScanGroups
    <2>2. n \in Blocks /\ \A k \in Blocks : k \in 1 .. n
      BY <1>6, <2>1
    <2>3. Blocks' = Blocks \cup {n} /\ n = Len(keys')
      BY <1>1, <1>2, <2>1, <2>2 DEF Blocks
    <2>4. PICK s, S : s = splited[keys[n]] /\ S = Members(n)
      OBVIOUS
    <2>5. /\ s \in Seq(Nat) /\ Lists(s, S)
          /\ \A i \in S : i \in Seen /\ InBlock(i) /\ \E j \in S : Opens(j, i)
          /\ \A k \in Blocks \ {n} : Members(k) \cap S = {}
      BY <1>2, <1>8, <2>2, <2>4 DEF BlocksOK
    <2>6. splited'[keys'[n]] = Append(s, x) /\ \A k \in Blocks \ {n} : splited'[keys'[k]] = splited[keys[k]]
      BY <2>1, <2>2, <2>4
    <2>7. Opened /\ InBlock(x)
      BY <1>11 DEF Joins
    <2>8. PICK j \in S : Kind(j) = "LOAD_INP" /\ ~ Some(Later(j), "LOAD_INP")
      BY <1>1, <1>2, <2>4, <2>7 DEF BlocksOK
    <2>9. \E t \in S \cup {x} : Kind(t) = "LOAD_INP"
             /\ (t = x \/ (Kind(x) # "LOAD_INP" /\ ~ Some(Later(t), "LOAD_INP")))
      BY <2>8
    <2> QED
      BY <1>9, <2>3, <2>4, <2>5, <2>6, <2>7, <2>9
  <1>12. CASE Stays(x)
    <2>1. keys' = keys /\ \A k \in 1 .. n : splited'[keys[k]] = splited[keys[k]]
      BY <1>1, <1>2, <1>12, ScanGroups
    <2>2. ~ InBlock(x) /\ Kind(x) # "LOAD_INP"
      BY <1>7, <1>12 DEF Stays
    <2>3. Blocks' = Blocks /\ \A k \in Blocks : k \in 1 .. n
      <3>1. start_block_idx' = start_block_idx
        BY <1>2
      <3>2. Blocks' = Blocks
        BY <2>1, <3>1 DEF Blocks
      <3> QED
        BY <1>6, <3>2
    <2>4. ASSUME NEW k \in Blocks
          PROVE  Members(k)' = Members(k) /\ Lists(splited[keys[k]], Members(k))'
      BY <1>2, <2>1, <2>3 DEF Members, BlocksOK, Lists, ToSet
    <2>5. \A k \in Blocks' :
             /\ Lists(splited[keys[k]], Members(k))' /\ Members(k)' # {}
             /\ \A i \in Members(k)' : i \in Seen' /\ InBlock(i)' /\ \E t \in Members(k)' : Opens(t, i)'
             /\ \A t \in Blocks' \ {k} : Members(t)' \cap Members(k)' = {}
      BY <1>2, <1>3, <1>5, <2>3, <2>4 DEF BlocksOK
    <2>6. \A i \in Seen' : InBlock(i)' => \E k \in Blocks' : i \in Members(k)'
      BY <1>2, <1>3, <1>5, <2>2, <2>3, <2>4 DEF BlocksOK
    <2>7. ASSUME Opened'
          PROVE  \E t \in Members(Len(keys))' : Kind(t)' = "LOAD_INP" /\ ~ Some(Later(t), "LOAD_INP")'
      <3>1. Opened /\ Blocks # {}
        BY <1>2, <1>3, <2>2, <2>7 DEF FlagsOK
      <3>2. n \in Blocks
        BY <1>6, <3>1
      <3>3. Members(Len(keys))' = Members(n)
        BY <1>1, <2>1, <2>4, <3>2 DEF Members, ToSet
      <3>4. PICK j \in Members(n) : Kind(j) = "LOAD_INP" /\ ~ Some(Later(j), "LOAD_INP")
        BY <1>1, <1>2, <3>1 DEF BlocksOK
      <3>5. j \in Seen
        BY <1>2, <3>2 DEF BlocksOK
      <3>6. ~ Some(Later(j), "LOAD_INP")'
        BY <1>3, <1>5, <2>2, <3>4, <3>5 DEF Some
      <3> QED
        BY <1>5, <3>3, <3>4, <3>6
    <2> QED
      BY <2>5, <2>6, <2>7 DEF BlocksOK
  <1> QED
    BY <1>2, <1>10, <1>11, <1>12

\* A scanned row keeps the invariant.
LEMMA Scan == IInv /\ Scans => IInv'
  <1> SUFFICES ASSUME IInv, Scans PROVE IInv'
    OBVIOUS
  <1>1. PICK x, n, m, l : x = Instr /\ n = Len(keys) /\ m = start_block_idx /\ l = layer_idx
    OBVIOUS
  <1>2. /\ Scanning /\ [Next]_vars
        /\ UNCHANGED <<granulatity, all_instructions, phase, taken, by_layer, layers, layer_idx,
                       start_block_idx>>
        /\ Starts(x) \/ Joins(x) \/ Stays(x)
    BY <1>1, ScanCases DEF Scans, Next
  <1>3. /\ phase = "split" /\ granulatity = "block" /\ taken = Len(all_instructions)
        /\ layer_idx < Cardinality(Names) /\ GroupsOK(m, l) /\ layer_idx \in Nat
    BY <1>1, <1>2, ScanInv, ScanFacts
  <1>4. n \in Nat /\ m \in 0 .. n
    BY <1>1, <1>2, ScanGroups
  <1>5. ASSUME NEW k \in 1 .. m PROVE keys'[k] = keys[k] /\ splited'[keys[k]] = splited[keys[k]]
    <2>1. k \in 1 .. n
      BY <1>4
    <2>2. CASE Starts(x)
      BY <1>1, <1>2, <2>1, <2>2, ScanGroups
    <2>3. CASE Joins(x)
      <3>1. /\ keys' = keys /\ m < n
            /\ \A j \in (1 .. n) \ {n} : splited'[keys[j]] = splited[keys[j]]
        BY <1>1, <1>2, <2>3, ScanGroups
      <3>2. k \in (1 .. n) \ {n}
        BY <1>4, <2>1, <3>1
      <3> QED
        BY <3>1, <3>2
    <2>4. CASE Stays(x)
      <3>1. keys' = keys /\ \A j \in 1 .. n : splited'[keys[j]] = splited[keys[j]]
        BY <1>1, <1>2, <2>4, ScanGroups
      <3> QED
        BY <2>1, <3>1
    <2> QED
      BY <1>2, <2>2, <2>3, <2>4
  <1>6. GroupsOK(m, l)'
    BY <1>2, <1>3, <1>5, GroupsFixed
  <1>7. TypeOK' /\ RowsSorted' /\ KeysOK' /\ FlagsOK' /\ BlocksOK'
    BY ScanType, ScanKeys, ScanFlags, ScanBlocks
  <1>8. BlockInv'
    BY <1>1, <1>2, <1>3, <1>6, <1>7 DEF BlockInv
  <1>9. Cardinality(Names)' = Cardinality(Names)
    BY <1>2, RowsFixed
  <1> QED
    BY <1>2, <1>3, <1>7, <1>8, <1>9 DEF IInv, LayerInv, Handed

-----------------------------------------------------------------------------
(* The end of a layer. *)

\* At the end of a layer all its rows have been seen.
LEMMA LayerSeen ==
    ASSUME IInv, NextLayer
    PROVE  /\ Seen = {i \in DOMAIN all_instructions : Layer(i) = layer_idx}
           /\ \A i \in Seen : i \in Nat /\ Later(i) = After(i)
           /\ layer_idx \in Nat
  <1>1. /\ TypeOK /\ RowsSorted /\ taken = Len(all_instructions) /\ row > Len(Rows(layer_idx))
    BY DEF IInv, NextLayer, Split
  <1>2. /\ Len(all_instructions) \in Nat /\ DOMAIN all_instructions = 1 .. Len(all_instructions)
        /\ \A i \in DOMAIN all_instructions : i \in Nat /\ Layer(i) \in Nat /\ Layer(i) \in Names
        /\ Cardinality(Names) \in Nat
    BY <1>1, RowFacts DEF TypeOK
  <1>3. PICK n \in Nat, R \in Seq(Nat) : R = Rows(layer_idx) /\ DOMAIN R = 1 .. n /\ row = n + 1
    <2>1. /\ Rows(layer_idx) \in Seq(Nat) /\ Len(Rows(layer_idx)) \in Nat
          /\ DOMAIN Rows(layer_idx) = 1 .. Len(Rows(layer_idx))
      BY <1>1, RowsType
    <2>2. row = Len(Rows(layer_idx)) + 1
      BY <1>1, <2>1 DEF TypeOK
    <2> QED
      BY <2>1, <2>2
  <1>4. Seen = ToSet(R)
    <2>1. Seen = {R[k] : k \in 1 .. n}
      BY <1>3 DEF Seen
    <2> QED
      BY <1>3, <2>1 DEF ToSet
  <1>5. Seen = {i \in DOMAIN all_instructions : Layer(i) = layer_idx}
    <2>1. CASE layer_idx \in Names
      BY <1>1, <1>3, <1>4, <2>1, LayerRows DEF Lists
    <2>2. CASE layer_idx \notin Names
      <3>1. DOMAIN R = {}
        BY <1>3, <2>2 DEF Rows
      <3> QED
        BY <1>2, <1>4, <2>2, <3>1 DEF ToSet
    <2> QED
      BY <2>1, <2>2
  <1>6. ASSUME NEW i \in Seen PROVE i \in Nat /\ Later(i) = After(i)
    BY <1>2, <1>5 DEF Later, After
  <1> QED
    BY <1>1, <1>2, <1>5, <1>6 DEF TypeOK

\* The rows every block begins with come before the rows of the blocks, and
\* these before the rows every block ends with, but for the stragglers.
LEMMA SortOrder ==
    ASSUME all_instructions \in Models, NEW i \in DOMAIN all_instructions,
           NEW j \in DOMAIN all_instructions, Layer(i) = Layer(j)
    PROVE  /\ InPrefix(i) /\ InBlock(j) => i < j
           /\ InPrefix(i) /\ InPostfix(j)
                 /\ (\E o \in DOMAIN all_instructions : Layer(o) = Layer(i) /\ Kind(o) = "LOAD_INP")
                 => i < j
           /\ InBlock(i) /\ InPostfix(j) => i # j /\ (~ Straggler(i) => i < j)
  <1>1. /\ Len(all_instructions) \in Nat /\ DOMAIN all_instructions = 1 .. Len(all_instructions)
        /\ \A o \in DOMAIN all_instructions : o \in Nat /\ 1 <= o
    BY RowFacts
  <1>2. ASSUME InPrefix(i), NEW o \in DOMAIN all_instructions, Layer(o) = Layer(i), Kind(o) = "LOAD_INP"
        PROVE  i < o
    <2>1. o \notin Before(i) /\ o # i
      BY <1>2 DEF InPrefix, Some
    <2>2. ~ (o < i)
      BY <1>1, <1>2, <2>1 DEF Before
    <2> QED
      BY <1>1, <2>1, <2>2
  <1>3. ASSUME InPrefix(i), InBlock(j) PROVE i < j
    <2>1. PICK o \in Before(j) \cup {j} : Kind(o) = "LOAD_INP"
      BY <1>3 DEF InBlock, Some
    <2>2. o \in DOMAIN all_instructions /\ Layer(o) = Layer(i) /\ o <= j
      BY <1>1, <2>1 DEF Before
    <2> QED
      BY <1>1, <1>2, <1>3, <2>1, <2>2
  <1>4. ASSUME InPrefix(i), InPostfix(j),
               NEW o \in DOMAIN all_instructions, Layer(o) = Layer(i), Kind(o) = "LOAD_INP"
        PROVE  i < j
    <2>1. i < o
      BY <1>2, <1>4
    <2>2. ~ (j < o)
      BY <1>1, <1>4 DEF InPostfix, Some, After
    <2> QED
      BY <1>1, <2>1, <2>2
  <1>5. ASSUME InBlock(i), InPostfix(j) PROVE i # j
    BY <1>5 DEF InBlock, InPostfix
  <1>6. ASSUME InBlock(i), InPostfix(j), ~ Straggler(i) PROVE i < j
    <2>1. ~ Behind(i)
      BY <1>6 DEF InBlock, Straggler
    <2>2. PICK s \in Before(j) :
             /\ Kind(s) = "STORE"
             /\ \A o \in s + 1 .. j : Layer(o) = Layer(j) => Kind(o) # "LOAD_INP"
      BY <1>6 DEF InPostfix, Behind
    <2>3. s \in Nat /\ 1 <= s /\ s < j /\ Layer(s) = Layer(j)
      BY <1>1, <2>2 DEF Before
    <2>4. ASSUME j < i PROVE FALSE
      <3>1. s \in Before(i)
        BY <1>1, <2>3, <2>4 DEF Before
      <3>2. ASSUME NEW o \in s + 1 .. i, Layer(o) = Layer(i) PROVE Kind(o) # "LOAD_INP"
        <4>1. CASE o <= j
          BY <1>1, <2>2, <2>3, <3>2, <4>1
        <4>2. CASE j < o
          <5>1. o \in After(j)
            BY <1>1, <2>3, <3>2, <4>2 DEF After
          <5> QED
            BY <1>6, <5>1 DEF InPostfix, Some
        <4> QED
          BY <1>1, <2>3, <3>2, <4>1, <4>2
      <3> QED
        BY <2>1, <2>2, <3>1, <3>2 DEF Behind
    <2> QED
      BY <1>1, <1>5, <1>6, <2>4
  <1> QED
    BY <1>3, <1>4, <1>5, <1>6

\* A finished block is a group as the Fetcher gets it.
LEMMA GroupDone ==
    ASSUME IInv, NextLayer, NEW k \in Blocks
    PROVE  GroupOK(prefix \o splited[keys[k]] \o postfix, layer_idx)
  <1> DEFINE A == {i \in DOMAIN all_instructions : Layer(i) = layer_idx}
             P == {i \in A : InPrefix(i)}
             Q == {i \in A : InPostfix(i)}
             B == Members(k)
  <1>1. /\ TypeOK /\ KeysOK /\ FlagsOK /\ BlocksOK
    BY DEF IInv, BlockInv, NextLayer, Split
  <1>2. Seen = A /\ \A i \in Seen : i \in Nat /\ Later(i) = After(i)
    BY LayerSeen
  <1>3. PICK s, p, q : s = splited[keys[k]] /\ p = prefix /\ q = postfix
    OBVIOUS
  <1>4. s \in Seq(Nat) /\ p \in Seq(Nat) /\ q \in Seq(Nat)
    <2>1. k \in DOMAIN keys
      BY <1>1, LenProperties DEF TypeOK, Blocks
    <2> QED
      BY <1>1, <1>3, <2>1 DEF KeysOK, TypeOK
  <1>5. Lists(p, P) /\ Lists(s, B) /\ Lists(q, Q)
    <2>1. {i \in Seen : InPrefix(i)} = P
      BY <1>2
    <2>2. {i \in Seen : Kind(i) # "STORE" /\ Behind(i) /\ ~ Some(Later(i), "LOAD_INP")} = Q
      BY <1>2 DEF InPostfix
    <2> QED
      BY <1>1, <1>3, <2>1, <2>2 DEF FlagsOK, BlocksOK
  <1>6. \A i \in B : i \in A /\ InBlock(i) /\ \E j \in B : Opens(j, i)
    BY <1>1, <1>2 DEF BlocksOK
  <1>7. PICK o \in A : Kind(o) = "LOAD_INP" /\ ~ Some(After(o), "LOAD_INP")
    <2>1. Opened
      BY <1>1 DEF FlagsOK
    <2>2. PICK j \in Members(Len(keys)) : Kind(j) = "LOAD_INP" /\ ~ Some(Later(j), "LOAD_INP")
      BY <1>1, <2>1 DEF BlocksOK
    <2>3. Len(keys) \in Blocks
      <3>1. PICK n \in Nat, m \in Nat : n = Len(keys) /\ m = start_block_idx
        BY <1>1, LenProperties DEF TypeOK
      <3> QED
        BY <3>1 DEF Blocks
    <2>4. j \in Seen
      BY <1>1, <2>2, <2>3 DEF BlocksOK
    <2> QED
      BY <1>2, <2>2, <2>4
  <1> HIDE DEF B
  <1>8. PICK u : u = p \o s \o q
    OBVIOUS
  <1>9. /\ ToSet(u) = P \cup B \cup Q
        /\ \A i, j : Ahead(u, i, j) =>
              \/ Ahead(p, i, j) \/ Ahead(s, i, j) \/ Ahead(q, i, j)
              \/ i \in P /\ j \in B
              \/ i \in P \cup B /\ j \in Q
    <2>1. PICK v : v = p \o s
      OBVIOUS
    <2>2. /\ v \in Seq(Nat)
          /\ ToSet(v) = P \cup B
          /\ \A i, j : Ahead(v, i, j) => Ahead(p, i, j) \/ Ahead(s, i, j) \/ (i \in P /\ j \in B)
      BY <1>4, <1>5, <2>1, ConcatAhead DEF Lists
    <2>3. /\ ToSet(u) = ToSet(v) \cup Q
          /\ \A i, j : Ahead(u, i, j) => Ahead(v, i, j) \/ Ahead(q, i, j) \/ (i \in ToSet(v) /\ j \in Q)
      BY <1>4, <1>5, <1>8, <2>1, <2>2, ConcatAhead DEF Lists
    <2> QED
      BY <2>2, <2>3
  <1>10. ASSUME NEW i, NEW j, Ahead(u, i, j)
         PROVE  i # j /\ (~ Straggler(i) => i < j)
    <2>1. ASSUME i < j, i \in A PROVE i # j
      BY <1>2, <2>1
    <2>2. CASE Ahead(p, i, j)
      BY <1>5, <2>1, <2>2, ListsAhead
    <2>3. CASE Ahead(s, i, j)
      BY <1>5, <1>6, <2>1, <2>3, ListsAhead
    <2>4. CASE Ahead(q, i, j)
      BY <1>5, <2>1, <2>4, ListsAhead
    <2>5. CASE i \in P /\ j \in B
      BY <1>1, <1>6, <2>1, <2>5, SortOrder DEF TypeOK
    <2>6. CASE i \in P /\ j \in Q
      BY <1>1, <1>7, <2>1, <2>6, SortOrder DEF TypeOK
    <2>7. CASE i \in B /\ j \in Q
      BY <1>1, <1>6, <2>7, SortOrder DEF TypeOK
    <2> QED
      BY <1>9, <1>10, <2>2, <2>3, <2>4, <2>5, <2>6, <2>7
  <1>11. \A a, b \in DOMAIN u : a < b => u[a] # u[b] /\ (~ Straggler(u[a]) => u[a] < u[b])
    BY <1>10 DEF Ahead
  <1>12. \A i \in ToSet(u) :
            /\ i \in DOMAIN all_instructions /\ Layer(i) = layer_idx
            /\ InPrefix(i) \/ InBlock(i) \/ InPostfix(i)
            /\ InBlock(i) => \E j \in ToSet(u) : Opens(j, i)
    <2>1. \A i : InBlock(i) => ~ InPrefix(i) /\ ~ InPostfix(i)
      BY DEF InBlock, InPrefix, InPostfix
    <2> QED
      BY <1>6, <1>9, <2>1
  <1>13. \A i \in DOMAIN all_instructions :
            Layer(i) = layer_idx /\ (InPrefix(i) \/ InPostfix(i)) => i \in ToSet(u)
    BY <1>9
  <1>14. GroupOK(u, layer_idx)
    BY <1>7, <1>11, <1>12, <1>13 DEF GroupOK
  <1> QED
    BY <1>3, <1>8, <1>14

\* The blocks of the layer become its groups.
LEMMA EndLayer == IInv /\ end_layer => IInv'
  <1> SUFFICES ASSUME IInv, end_layer PROVE IInv'
    OBVIOUS
  <1>1. /\ NextLayer /\ [Next]_vars
        /\ splited' = [key \in DOMAIN splited |->
               IF key \in BlocksFrom(start_block_idx) THEN prefix \o splited[key] \o postfix
               ELSE splited[key]]
    BY DEF end_layer, Next
  <1>2. /\ TypeOK /\ RowsSorted /\ KeysOK /\ FlagsOK /\ BlocksOK
        /\ GroupsOK(start_block_idx, layer_idx)
        /\ phase = "split" /\ granulatity = "block" /\ taken = Len(all_instructions)
    BY <1>1 DEF IInv, BlockInv, NextLayer, Split
  <1>3. PICK n \in Nat, m \in Nat, l \in Nat, p \in Seq(Nat), q \in Seq(Nat) :
           /\ n = Len(keys) /\ m = start_block_idx /\ l = layer_idx /\ m <= n
           /\ p = prefix /\ q = postfix
    BY <1>1, <1>2, LenProperties, LayerSeen DEF TypeOK
  <1>4. PICK c \in Nat : c = Cardinality(Names) /\ l < c
    BY <1>1, <1>2, <1>3, RowFacts DEF TypeOK, NextLayer
  <1>5. /\ layer_idx' = l + 1 /\ start_block_idx' = n /\ row' = 1
        /\ block_strated' = FALSE /\ block_name' = NoBlock
        /\ add_prefix' = TRUE /\ add_postfix' = FALSE
        /\ prefix' = << >> /\ postfix' = << >>
        /\ UNCHANGED <<granulatity, all_instructions, phase, taken, by_layer, keys, layers>>
    BY <1>1, <1>3 DEF NextLayer
  <1>6. /\ Names' = Names /\ Cardinality(Names)' = c
        /\ \A i : Layer(i)' = Layer(i)
        /\ \A r : Rows(r)' = Rows(r)
    BY <1>1, <1>4, <1>5, RowsFixed DEF Rows
  <1>7. /\ DOMAIN keys = 1 .. n /\ Blocks = m + 1 .. n
        /\ 1 .. n = (1 .. m) \cup (m + 1 .. n)
    BY <1>2, <1>3, LenProperties DEF TypeOK, Blocks
  \* What happens to a group.
  <1>8. ASSUME NEW k \in Blocks
        PROVE  /\ keys[k][1] = l
               /\ splited'[keys[k]] = p \o splited[keys[k]] \o q
    <2>1. k \in m + 1 .. n /\ keys[k] \in DOMAIN splited /\ keys[k] = <<l, (k - m) - 1>>
      BY <1>2, <1>3, <1>7 DEF KeysOK
    <2>2. keys[k] \in BlocksFrom(start_block_idx)
      BY <1>3, <2>1 DEF BlocksFrom
    <2>3. PICK b : b = keys[k]
      OBVIOUS
    <2>4. b[1] = l
      BY <2>1, <2>3
    <2> QED
      BY <1>1, <1>3, <2>1, <2>2, <2>3, <2>4
  <1>9. ASSUME NEW k \in 1 .. m
        PROVE  /\ keys[k][1] < l
               /\ splited'[keys[k]] = splited[keys[k]]
    <2>1. k \in 1 .. n /\ k \notin m + 1 .. n
      BY <1>3
    <2>2. keys[k] \in DOMAIN splited /\ keys[k][1] < l
      <3>1. /\ k \in DOMAIN keys /\ k <= start_block_idx
            /\ \A i \in DOMAIN keys : keys[i] \in DOMAIN splited
                  /\ (i <= start_block_idx => keys[i][1] < layer_idx)
        BY <1>2, <1>3, <1>7, <2>1 DEF KeysOK
      <3> QED
        BY <1>3, <3>1
    <2>3. \A j \in m + 1 .. n : j \in 1 .. n /\ j # k
      BY <1>3, <2>1
    <2>4. keys[k] \notin BlocksFrom(start_block_idx)
      BY <1>2, <1>3, <1>7, <2>1, <2>3 DEF BlocksFrom, KeysOK
    <2> QED
      BY <1>1, <2>2, <2>4
  <1>10. ASSUME NEW k \in Blocks
         PROVE  /\ GroupOK(splited[keys[k]], keys[k][1])'
                /\ \A i \in Members(k)' : Layer(i) = l /\ (InBlock(i) => i \in Members(k))
                /\ Members(k) \subseteq Members(k)'
    <2>1. PICK s, u : s = splited[keys[k]] /\ u = p \o s \o q
      OBVIOUS
    <2>2. GroupOK(u, l) /\ splited'[keys'[k]] = u /\ keys'[k][1] = l
      BY <1>1, <1>3, <1>5, <1>8, <2>1, GroupDone
    <2>3. GroupOK(splited[keys[k]], keys[k][1])'
      <3>1. GroupOK(u, l)'
        BY <1>1, <2>2, GroupFixed
      <3> QED
        BY <2>2, <3>1
    <2>4. s \in Seq(Nat) /\ p \in Seq(Nat) /\ q \in Seq(Nat)
      BY <1>2, <1>3, <1>7, <2>1 DEF KeysOK, TypeOK
    <2>5. ToSet(u) = ToSet(p) \cup ToSet(s) \cup ToSet(q)
      <3>1. PICK v : v = p \o s
        OBVIOUS
      <3>2. v \in Seq(Nat) /\ ToSet(v) = ToSet(p) \cup ToSet(s)
        BY <2>4, <3>1, ConcatAhead
      <3>3. ToSet(u) = ToSet(v) \cup ToSet(q)
        BY <2>1, <2>4, <3>1, <3>2, ConcatAhead
      <3> QED
        BY <3>2, <3>3
    <2>6. /\ \A i \in ToSet(p) : InPrefix(i)
          /\ \A i \in ToSet(q) : Kind(i) # "STORE" /\ Behind(i)
      BY <1>2, <1>3 DEF FlagsOK, Lists
    <2>7. \A i \in ToSet(u) : InBlock(i) => i \in ToSet(s)
      BY <2>5, <2>6 DEF InBlock, InPrefix
    <2>8. \A i \in ToSet(u) : Layer(i) = l
      BY <2>2 DEF GroupOK
    <2>9. Members(k)' = ToSet(u) /\ Members(k) = ToSet(s)
      BY <2>1, <2>2 DEF Members, ToSet
    <2> QED
      BY <2>3, <2>5, <2>7, <2>8, <2>9
  <1>11. ASSUME NEW k \in 1 .. m
         PROVE  /\ GroupOK(splited[keys[k]], keys[k][1])'
                /\ \A i \in Members(k)' : Layer(i) < l
                /\ Members(k)' = Members(k)
    <2>1. PICK s, r : s = splited[keys[k]] /\ r = keys[k][1]
      OBVIOUS
    <2>2. GroupOK(s, r) /\ r < l /\ splited'[keys'[k]] = s /\ keys'[k][1] = r
      BY <1>2, <1>3, <1>5, <1>9, <2>1 DEF GroupsOK
    <2>3. GroupOK(splited[keys[k]], keys[k][1])'
      <3>1. GroupOK(s, r)'
        BY <1>1, <2>2, GroupFixed
      <3> QED
        BY <2>2, <3>1
    <2>4. Members(k)' = ToSet(s) /\ Members(k) = ToSet(s)
      BY <2>1, <2>2 DEF Members, ToSet
    <2>5. \A i \in ToSet(s) : Layer(i) < l
      BY <2>2 DEF GroupOK
    <2> QED
      BY <2>3, <2>4, <2>5
  <1>12. PICK d : d = l + 1
    OBVIOUS
  <1>13. GroupsOK(n, d)'
    <2>1. \A k \in 1 .. n : GroupOK(splited[keys[k]], keys[k][1])'
      BY <1>7, <1>10, <1>11
    <2>2. ASSUME NEW j \in 1 .. n, NEW k \in 1 .. n, j # k,
                 NEW i, i \in Members(j)', i \in Members(k)', InBlock(i)
          PROVE  FALSE
      <3>1. CASE j \in 1 .. m /\ k \in 1 .. m
        BY <1>2, <1>3, <1>11, <2>2, <3>1 DEF GroupsOK
      <3>2. CASE j \in Blocks /\ k \in Blocks
        BY <1>2, <1>10, <2>2, <3>2 DEF BlocksOK
      <3>3. CASE j \in 1 .. m /\ k \in Blocks
        <4>1. Layer(i) < l /\ Layer(i) = l
          BY <1>10, <1>11, <2>2, <3>3
        <4> QED
          BY <4>1
      <3>4. CASE j \in Blocks /\ k \in 1 .. m
        <4>1. Layer(i) < l /\ Layer(i) = l
          BY <1>10, <1>11, <2>2, <3>4
        <4> QED
          BY <4>1
      <3> QED
        BY <1>7, <3>1, <3>2, <3>3, <3>4
    <2>3. ASSUME NEW i \in DOMAIN all_instructions, Layer(i) < d, InBlock(i)
          PROVE  \E k \in 1 .. n : i \in Members(k)'
      <3>1. Layer(i) < l \/ Layer(i) = l
        BY <1>2, <1>12, <2>3, RowFacts DEF TypeOK
      <3>2. CASE Layer(i) < l
        <4>1. PICK k \in 1 .. m : i \in Members(k)
          BY <1>2, <1>3, <2>3, <3>2 DEF GroupsOK
        <4> QED
          BY <1>7, <1>11, <4>1
      <3>3. CASE Layer(i) = l
        <4>1. i \in Seen
          BY <1>1, <1>3, <3>3, LayerSeen
        <4>2. PICK k \in Blocks : i \in Members(k)
          BY <1>2, <2>3, <4>1 DEF BlocksOK
        <4> QED
          BY <1>7, <1>10, <4>2
      <3> QED
        BY <3>1, <3>2, <3>3
    <2>4. /\ \A i : InBlock(i)' <=> InBlock(i)
          /\ DOMAIN all_instructions' = DOMAIN all_instructions
      BY <1>1, RowsFixed
    <2>5. \A j, k \in 1 .. n : j # k => \A i \in (Members(j) \cap Members(k))' : ~ InBlock(i)'
      BY <2>2, <2>4
    <2>6. \A i \in DOMAIN all_instructions' :
             Layer(i)' < d /\ InBlock(i)' => \E k \in 1 .. n : i \in Members(k)'
      BY <1>6, <2>3, <2>4
    <2> QED
      BY <2>1, <2>5, <2>6 DEF GroupsOK
  <1>14. KeysOK'
    <2>1. DOMAIN splited' = DOMAIN splited /\ keys' = keys
      BY <1>1, <1>5
    <2>2. Blocks' = {}
      BY <1>3, <1>5 DEF Blocks
    <2>3. \A k \in 1 .. n : keys[k][1] < l + 1
      <3>1. ASSUME NEW k \in Blocks PROVE keys[k][1] < l + 1
        BY <1>8
      <3>2. ASSUME NEW k \in 1 .. m PROVE keys[k][1] < l + 1
        <4>1. keys[k][1] < l /\ keys[k][1] \in Nat
          <5>1. k \in DOMAIN keys
            BY <1>7
          <5>2. keys[k] \in Seq(Nat) /\ keys[k] # << >>
            BY <1>2, <5>1 DEF KeysOK, TypeOK, NoBlock
          <5>3. keys[k][1] \in Nat
            BY <5>2, EmptySeq, ElementOfSeq
          <5> QED
            BY <1>9, <5>3
        <4> QED
          BY <4>1
      <3> QED
        BY <1>7, <3>1, <3>2
    <2> QED
      BY <1>2, <1>5, <1>7, <2>1, <2>2, <2>3 DEF KeysOK
  <1>15. Seen' = {} /\ Blocks' = {} /\ ~ Opened' /\ ~ Closed'
    BY <1>3, <1>5 DEF Seen, Blocks, Opened, Closed, Some
  <1>16. FlagsOK' /\ BlocksOK'
    BY <1>5, <1>15, EmptyLists DEF FlagsOK, BlocksOK, NoBlock
  <1>17. TypeOK'
    <2>1. \A key \in DOMAIN splited : splited'[key] \in Seq(Nat)
      <3>1. ASSUME NEW key \in DOMAIN splited PROVE splited'[key] \in Seq(Nat)
        <4>1. PICK s : s = splited[key]
          OBVIOUS
        <4>2. s \in Seq(Nat) /\ p \in Seq(Nat) /\ q \in Seq(Nat)
          BY <1>2, <1>3, <4>1 DEF TypeOK
        <4>3. p \o s \o q \in Seq(Nat)
          BY <4>2, ConcatProperties
        <4> QED
          BY <1>1, <1>3, <4>1, <4>2, <4>3
      <3> QED
        BY <3>1
    <2>2. Rows(l + 1) \in Seq(Nat) /\ Len(Rows(l + 1)) \in Nat
      BY <1>2, RowsType
    <2>3. row' \in (1 .. Len(Rows(layer_idx)) + 1)' /\ layer_idx' \in 0 .. c
          /\ start_block_idx' \in 0 .. Len(keys')
      BY <1>3, <1>4, <1>5, <1>6, <2>2 DEF Rows
    <2>4. block_name' \in Seq(Nat) /\ prefix' \in Seq(Nat) /\ postfix' \in Seq(Nat)
      BY <1>5, EmptySeq DEF NoBlock
    <2> QED
      BY <1>1, <1>2, <1>5, <1>6, <2>1, <2>3, <2>4 DEF TypeOK
  <1>18. RowsSorted'
    BY <1>2, <1>5, <1>6 DEF RowsSorted
  <1>19. BlockInv'
    BY <1>2, <1>5, <1>12, <1>13, <1>14, <1>16 DEF BlockInv
  <1> QED
    BY <1>2, <1>5, <1>6, <1>17, <1>18, <1>19 DEF IInv, LayerInv, Handed

\* The invariant holds throughout.
THEOREM Invariance == Spec => []IInv
  <1>1. IInv /\ [Next]_vars => IInv'
    BY SplitRow, LoadLayers, Scan, EndLayer, EndBlocks, Encode, Stutter DEF Next, Done, Scans
  <1> QED
    BY <1>1, InitInv, PTL DEF Spec
-----------------------------------------------------------------------------
(* What the Fetcher gets. *)

\* In layers, group k lists the rows of layer k - 1.
LEMMA LayerGroups ==
    ASSUME IInv, phase = "done", granulatity = "layer"
    PROVE  /\ all_instructions \in Models
           /\ DOMAIN layers = 1 .. Cardinality(Names)
           /\ \A k \in DOMAIN layers :
                 /\ layers[k] \in Seq(Nat)
                 /\ Lists(layers[k], {i \in DOMAIN all_instructions : Layer(i) = k - 1})
  <1>1. /\ TypeOK /\ RowsSorted /\ taken = Len(all_instructions)
        /\ keys = [k \in 1 .. Cardinality(Names) |-> <<k - 1>>]
        /\ \A k \in DOMAIN keys : At(keys[k]) = Rows(k - 1)
        /\ layers = [k \in DOMAIN keys |-> At(keys[k])]
    BY DEF IInv, LayerInv, Handed
  <1>2. all_instructions \in Models
    BY <1>1 DEF TypeOK
  <1>3. DOMAIN layers = 1 .. Cardinality(Names) /\ \A k \in DOMAIN layers : layers[k] = Rows(k - 1)
    BY <1>1
  <1>4. ASSUME NEW k \in DOMAIN layers
        PROVE  /\ layers[k] \in Seq(Nat)
               /\ Lists(layers[k], {i \in DOMAIN all_instructions : Layer(i) = k - 1})
    <2>1. layers[k] \in Seq(Nat)
      BY <1>1, <1>3, RowsType
    <2>2. CASE k - 1 \in Names
      BY <1>1, <1>3, <2>1, <2>2, LayerRows
    <2>3. CASE k - 1 \notin Names
      <3>1. layers[k] = << >>
        BY <1>3, <2>3 DEF Rows
      <3>2. {i \in DOMAIN all_instructions : Layer(i) = k - 1} = {}
        BY <1>2, <2>3, RowFacts
      <3> QED
        BY <2>1, <3>1, <3>2, EmptyLists
    <2> QED
      BY <2>2, <2>3
  <1> QED
    BY <1>2, <1>3, <1>4

\* In blocks, group k is one of the layer in its name; the groups share no
\* row of a block, and none is missing.
LEMMA BlockGroups ==
    ASSUME IInv, phase = "done", granulatity = "block"
    PROVE  /\ all_instructions \in Models
           /\ DOMAIN layers = DOMAIN keys
           /\ \A k \in DOMAIN layers :
                 /\ layers[k] \in Seq(Nat)
                 /\ keys[k][1] < Cardinality(Names)
                 /\ GroupOK(layers[k], keys[k][1])
           /\ \A j, k \in DOMAIN layers : j # k =>
                 \A i \in ToSet(layers[j]) \cap ToSet(layers[k]) : ~ InBlock(i)
           /\ \A i \in DOMAIN all_instructions :
                 Layer(i) < Cardinality(Names) /\ InBlock(i) =>
                    \E k \in DOMAIN layers : i \in ToSet(layers[k])
  <1>1. /\ TypeOK /\ KeysOK /\ start_block_idx = Len(keys)
        /\ GroupsOK(Len(keys), Cardinality(Names))
        /\ layers = [k \in DOMAIN keys |-> At(keys[k])]
    BY DEF IInv, BlockInv, Handed
  <1>2. all_instructions \in Models
    BY <1>1 DEF TypeOK
  <1>3. PICK n \in Nat : n = Len(keys) /\ DOMAIN keys = 1 .. n
    BY <1>1, LenProperties DEF TypeOK
  <1>4. PICK l \in Nat, c \in Nat : l = layer_idx /\ c = Cardinality(Names) /\ l <= c
    <2>1. Cardinality(Names) \in Nat /\ layer_idx \in 0 .. Cardinality(Names)
      BY <1>1, <1>2, RowFacts DEF TypeOK
    <2> QED
      BY <2>1
  <1>5. DOMAIN layers = 1 .. n /\ \A k \in 1 .. n : layers[k] = At(keys[k])
    BY <1>1, <1>3
  <1>6. ASSUME NEW k \in 1 .. n
        PROVE  /\ layers[k] = splited[keys[k]] /\ layers[k] \in Seq(Nat)
               /\ keys[k][1] < c
    <2>1. keys[k] \in DOMAIN splited /\ (k <= start_block_idx => keys[k][1] < layer_idx)
      BY <1>1, <1>3 DEF KeysOK
    <2>2. splited[keys[k]] \in Seq(Nat)
      BY <1>1, <2>1 DEF TypeOK
    <2>3. keys[k][1] < l
      BY <1>1, <1>3, <1>4, <2>1
    <2>4. keys[k][1] \in Nat
      <3>1. keys[k] \in Seq(Nat) /\ keys[k] # << >>
        BY <1>1, <1>3 DEF KeysOK, TypeOK, NoBlock
      <3> QED
        BY <3>1, EmptySeq, ElementOfSeq
    <2> QED
      BY <1>4, <1>5, <2>1, <2>2, <2>3, <2>4 DEF At
  <1>7. /\ \A k \in 1 .. n : GroupOK(splited[keys[k]], keys[k][1])
        /\ \A j, k \in 1 .. n : j # k => \A i \in Members(j) \cap Members(k) : ~ InBlock(i)
        /\ \A i \in DOMAIN all_instructions :
              Layer(i) < c /\ InBlock(i) => \E k \in 1 .. n : i \in Members(k)
    BY <1>1, <1>3, <1>4 DEF GroupsOK
  <1>8. \A k \in 1 .. n : Members(k) = ToSet(layers[k])
    BY <1>6 DEF Members
  <1> QED
    BY <1>2, <1>3, <1>4, <1>5, <1>6, <1>7, <1>8

\* A LOAD INP is a row of the block it starts.
LEMMA LoadInBlock ==
    ASSUME all_instructions \in Models, NEW i \in DOMAIN all_instructions
    PROVE  /\ Kind(i) = "LOAD_INP" => InBlock(i)
           /\ Behind(i) => Kind(i) # "LOAD_INP"
  <1>1. Behind(i) => Kind(i) # "LOAD_INP"
    <2> SUFFICES ASSUME Behind(i) PROVE Kind(i) # "LOAD_INP"
      OBVIOUS
    <2>1. PICK s \in Before(i) : \A j \in s + 1 .. i : Layer(j) = Layer(i) => Kind(j) # "LOAD_INP"
      BY DEF Behind
    <2>2. i \in s + 1 .. i
      BY <2>1, RowFacts DEF Before
    <2> QED
      BY <2>1, <2>2
  <1> QED
    BY <1>1 DEF InBlock, Some

\* In layers, the rows of a layer whose number no group has are lost.
LEMMA LostInLayers == IInv /\ granulatity = "layer" => LostRows
  <1> SUFFICES ASSUME IInv, granulatity = "layer", phase = "done", NEW i \in DOMAIN all_instructions
               PROVE  (\A k \in DOMAIN layers : i \notin ToSet(layers[k]))
                         <=> Layer(i) >= Cardinality(Names)
    BY DEF LostRows
  <1>1. PICK c \in Nat, n \in Nat :
           c = Cardinality(Names) /\ n = Layer(i) /\ DOMAIN layers = 1 .. c
    BY LayerGroups, RowFacts
  <1>2. \A k \in 1 .. c : i \in ToSet(layers[k]) <=> n = k - 1
    BY <1>1, LayerGroups DEF Lists
  <1>3. (\A k \in 1 .. c : n # k - 1) <=> n >= c
    <2>1. n < c => n + 1 \in 1 .. c /\ n = (n + 1) - 1
      OBVIOUS
    <2> QED
      BY <2>1
  <1> QED
    BY <1>1, <1>2, <1>3

\* In blocks, what is of none of the three sorts.
LEMMA LostInBlocks == IInv /\ granulatity = "block" => LostRows
  <1> SUFFICES ASSUME IInv, granulatity = "block", phase = "done", NEW i \in DOMAIN all_instructions
               PROVE  (\A k \in DOMAIN layers : i \notin ToSet(layers[k])) <=>
                         \/ Layer(i) >= Cardinality(Names)
                         \/ ~ Some(Before(i) \cup {i} \cup After(i), "LOAD_INP")
                         \/ Kind(i) = "STORE" /\ ~ Some(Before(i), "LOAD_INP")
                         \/ BetweenBlocks(i)
    BY DEF LostRows
  <1>1. /\ all_instructions \in Models
        /\ \A k \in DOMAIN layers :
              keys[k][1] < Cardinality(Names) /\ GroupOK(layers[k], keys[k][1])
    BY BlockGroups
  <1>2. PICK c \in Nat, n \in Nat : c = Cardinality(Names) /\ n = Layer(i)
    BY <1>1, RowFacts
  <1>3. \A o \in DOMAIN all_instructions :
           Layer(o) = n => o \in Before(i) \cup {i} \cup After(i)
    BY <1>1, <1>2, RowFacts DEF Before, After
  <1>4. ASSUME NEW k \in DOMAIN layers, i \in ToSet(layers[k])
        PROVE  /\ ~ (n >= c)
               /\ Some(Before(i) \cup {i} \cup After(i), "LOAD_INP")
               /\ ~ (Kind(i) = "STORE" /\ ~ Some(Before(i), "LOAD_INP"))
               /\ ~ BetweenBlocks(i)
    <2>1. /\ n = keys[k][1] /\ n < c
          /\ InPrefix(i) \/ InBlock(i) \/ InPostfix(i)
      BY <1>1, <1>2, <1>4 DEF GroupOK
    <2>2. PICK o \in DOMAIN all_instructions : Layer(o) = n /\ Kind(o) = "LOAD_INP"
      BY <1>1, <1>4, <2>1 DEF GroupOK
    <2>3. Some(Before(i) \cup {i} \cup After(i), "LOAD_INP")
      BY <1>3, <2>2 DEF Some
    <2>4. ~ (Kind(i) = "STORE" /\ ~ Some(Before(i), "LOAD_INP"))
      BY <2>1 DEF InPrefix, InBlock, InPostfix, Some
    <2>5. ~ BetweenBlocks(i)
      BY <2>1 DEF InPrefix, InBlock, InPostfix, BetweenBlocks, Some
    <2> QED
      BY <2>1, <2>3, <2>4, <2>5
  <1>5. ASSUME n < c,
               Some(Before(i) \cup {i} \cup After(i), "LOAD_INP"),
               ~ (Kind(i) = "STORE" /\ ~ Some(Before(i), "LOAD_INP")),
               ~ BetweenBlocks(i)
        PROVE  \E k \in DOMAIN layers : i \in ToSet(layers[k])
    <2>1. InPrefix(i) \/ InBlock(i) \/ InPostfix(i)
      <3>1. CASE Kind(i) = "STORE"
        BY <1>5, <3>1 DEF InBlock, Some
      <3>2. CASE Kind(i) # "STORE" /\ ~ Behind(i)
        BY <3>2 DEF InPrefix, InBlock
      <3>3. CASE Kind(i) # "STORE" /\ Behind(i)
        <4>1. Kind(i) # "LOAD_INP"
          BY <1>1, <3>3, LoadInBlock
        <4> QED
          BY <1>5, <3>3, <4>1 DEF InPrefix, InPostfix, BetweenBlocks, Some
      <3> QED
        BY <3>1, <3>2, <3>3
    <2>2. CASE InBlock(i)
      BY <1>2, <1>5, <2>2, BlockGroups
    <2>3. CASE InPrefix(i) \/ InPostfix(i)
      <3>1. PICK o \in Before(i) \cup {i} \cup After(i) : Kind(o) = "LOAD_INP"
        BY <1>5 DEF Some
      <3>2. o \in DOMAIN all_instructions /\ Layer(o) = n
        BY <1>1, <1>2, <3>1, RowFacts DEF Before, After
      <3>3. InBlock(o)
        BY <1>1, <3>1, <3>2, LoadInBlock
      <3>4. PICK k \in DOMAIN layers : o \in ToSet(layers[k])
        BY <1>2, <1>5, <3>2, <3>3, BlockGroups
      <3>5. keys[k][1] = n
        BY <1>1, <3>2, <3>4 DEF GroupOK
      <3> QED
        BY <1>1, <1>2, <2>3, <3>5 DEF GroupOK
    <2> QED
      BY <2>1, <2>2, <2>3
  <1>6. n >= c \/ n < c
    OBVIOUS
  <1> QED
    BY <1>2, <1>4, <1>5, <1>6

\* Every row reaches the Fetcher but those of a layer that is not numbered as
\* the parser numbers them, and in blocks those of no block, a STORE before
\* the first block and the rows between two blocks (laod_blocks_instructions).
THEOREM NoRowLost == Spec => []LostRows
  <1>1. IInv => LostRows
    BY LostInLayers, LostInBlocks DEF IInv, TypeOK
  <1> QED
    BY <1>1, Invariance, PTL

\* The rows of a group are of one layer and in the order of the CSV.
THEOREM GroupsInOrder == Spec => []InProgramOrder
  <1>1. ASSUME IInv, phase = "done", NEW k \in DOMAIN layers,
               NEW a \in DOMAIN layers[k], NEW b \in DOMAIN layers[k], a < b
        PROVE  /\ Layer(layers[k][a]) = Layer(layers[k][b])
               /\ layers[k][a] # layers[k][b]
               /\ granulatity = "layer" \/ ~ Straggler(layers[k][a])
                     => layers[k][a] < layers[k][b]
    <2>1. layers[k][a] \in ToSet(layers[k]) /\ layers[k][b] \in ToSet(layers[k])
      BY DEF ToSet
    <2>2. CASE granulatity = "layer"
      <3>1. /\ layers[k] \in Seq(Nat)
            /\ Lists(layers[k], {i \in DOMAIN all_instructions : Layer(i) = k - 1})
        BY <1>1, <2>2, LayerGroups
      <3>2. layers[k][a] \in Nat /\ layers[k][b] \in Nat
        BY <3>1, LenProperties, ElementOfSeq
      <3>3. layers[k][a] < layers[k][b]
        BY <1>1, <3>1 DEF Lists
      <3> QED
        BY <2>1, <3>1, <3>2, <3>3 DEF Lists
    <2>3. CASE granulatity = "block"
      <3>1. GroupOK(layers[k], keys[k][1])
        BY <1>1, <2>3, BlockGroups
      <3> QED
        BY <1>1, <2>1, <2>3, <3>1 DEF GroupOK
    <2> QED
      BY <1>1, <2>2, <2>3 DEF IInv, TypeOK
  <1>2. IInv => InProgramOrder
    BY <1>1 DEF InProgramOrder
  <1> QED
    BY <1>2, Invariance, PTL

\* A sequence of rows of layer n in which its FINISH comes before no other.
LEMMA EndsWithFinish ==
    ASSUME all_instructions \in Models, NEW n, Finished(n),
           NEW s \in Seq(Nat), NEW f \in ToSet(s), Kind(f) = "FINISH",
           \A i \in ToSet(s) : i \in DOMAIN all_instructions /\ Layer(i) = n,
           \A a, b \in DOMAIN s : a < b /\ s[a] = f => f < s[b]
    PROVE  s # << >> /\ \A a \in DOMAIN s : Kind(s[a]) = "FINISH" <=> a = Len(s)
  <1>1. PICK m \in Nat : m = Len(s) /\ DOMAIN s = 1 .. m
    BY LenProperties
  <1>2. /\ Len(all_instructions) \in Nat /\ DOMAIN all_instructions = 1 .. Len(all_instructions)
        /\ \A i \in DOMAIN all_instructions : i \in Nat
    BY RowFacts
  <1>3. PICK c \in 1 .. m : s[c] = f
    BY <1>1 DEF ToSet
  <1>4. f \in DOMAIN all_instructions /\ Layer(f) = n /\ After(f) = {}
    BY DEF Finished
  <1>5. \A i \in ToSet(s) : ~ (f < i)
    BY <1>2, <1>4 DEF After
  <1>6. ASSUME NEW a \in 1 .. m, s[a] = f PROVE a = m
    <2>1. m \in 1 .. m /\ s[m] \in ToSet(s)
      BY <1>1 DEF ToSet
    <2>2. ~ (a < m)
      BY <1>1, <1>5, <1>6, <2>1
    <2> QED
      BY <2>2
  <1>7. ASSUME NEW a \in 1 .. m, Kind(s[a]) = "FINISH" PROVE s[a] = f
    <2>1. s[a] \in ToSet(s)
      BY <1>1 DEF ToSet
    <2>2. s[a] \in DOMAIN all_instructions /\ Layer(s[a]) = n /\ After(s[a]) = {}
      BY <1>7, <2>1 DEF Finished
    <2>3. ~ (s[a] < f)
      BY <1>2, <1>4, <2>2 DEF After
    <2> QED
      BY <1>2, <1>4, <1>5, <2>1, <2>2, <2>3
  <1> QED
    BY <1>1, <1>3, <1>6, <1>7

\* Each group ends with a FINISH and has no other, if the layers do.
THEOREM FinishEndsGroups == Spec => []GroupsEndWithFinish
  <1>1. ASSUME IInv, phase = "done", \A n \in Names : n < Cardinality(Names) /\ Finished(n),
               NEW k \in DOMAIN layers
        PROVE  /\ layers[k] # << >>
               /\ \A a \in DOMAIN layers[k] :
                     Kind(layers[k][a]) = "FINISH" <=> a = Len(layers[k])
    <2>1. CASE granulatity = "layer"
      <3>1. PICK c \in Nat :
               /\ c = Cardinality(Names) /\ DOMAIN layers = 1 .. c
               /\ Names \in SUBSET Nat /\ IsFiniteSet(Names)
        BY <1>1, <2>1, LayerGroups, RowFacts
      <3>2. Names = 0 .. c - 1
        <4>1. Names \subseteq 0 .. c - 1
          BY <1>1, <3>1
        <4>2. IsFiniteSet(0 .. c - 1) /\ Cardinality(0 .. c - 1) = c
          BY FS_Interval
        <4> QED
          BY <3>1, <4>1, <4>2, FS_Subset
      <3>3. PICK n \in Nat, s \in Seq(Nat) :
               /\ n = k - 1 /\ n \in Names /\ s = layers[k]
               /\ Lists(s, {i \in DOMAIN all_instructions : Layer(i) = n})
        <4>1. k - 1 \in 0 .. c - 1
          BY <3>1
        <4> QED
          BY <1>1, <2>1, <3>2, <4>1, LayerGroups
      <3>4. PICK f \in DOMAIN all_instructions : Layer(f) = n /\ Kind(f) = "FINISH"
        BY <1>1, <3>3 DEF Finished
      <3>5. f \in ToSet(s)
        BY <3>3, <3>4 DEF Lists
      <3>6. \A i \in ToSet(s) : i \in DOMAIN all_instructions /\ Layer(i) = n
        BY <3>3 DEF Lists
      <3>7. \A a, b \in DOMAIN s : a < b /\ s[a] = f => f < s[b]
        BY <3>3 DEF Lists
      <3>8. s # << >> /\ \A a \in DOMAIN s : Kind(s[a]) = "FINISH" <=> a = Len(s)
        BY <1>1, <2>1, <3>3, <3>4, <3>5, <3>6, <3>7, LayerGroups, EndsWithFinish
      <3> QED
        BY <3>3, <3>8
    <2>2. CASE granulatity = "block"
      <3>0. PICK n : n = keys[k][1]
        OBVIOUS
      <3>1. PICK s \in Seq(Nat) : s = layers[k] /\ GroupOK(s, n)
        BY <1>1, <2>2, <3>0, BlockGroups
      <3>2. /\ all_instructions \in Models
            /\ Len(all_instructions) \in Nat
            /\ DOMAIN all_instructions = 1 .. Len(all_instructions)
            /\ \A i \in DOMAIN all_instructions : i \in Nat /\ Layer(i) \in Names
        BY <1>1, <2>2, BlockGroups, RowFacts
      <3>3. PICK l \in DOMAIN all_instructions :
               Layer(l) = n /\ Kind(l) = "LOAD_INP" /\ ~ Some(After(l), "LOAD_INP")
        BY <3>1 DEF GroupOK
      <3>4. n \in Names /\ Finished(n)
        BY <1>1, <3>2, <3>3
      <3>5. PICK f \in DOMAIN all_instructions :
               Layer(f) = n /\ Kind(f) = "FINISH" /\ After(f) = {}
        BY <3>4 DEF Finished
      <3>6. PICK z \in After(l) : Kind(z) = "STORE"
        BY <2>2, <3>3, <3>4 DEF Finished, Some
      <3>7. z \in DOMAIN all_instructions /\ Layer(z) = n /\ l < z
        BY <3>2, <3>3, <3>6 DEF After
      <3>8. z < f
        <4>1. z # f
          BY <3>5, <3>6
        <4>2. ~ (f < z)
          BY <3>2, <3>5, <3>7 DEF After
        <4> QED
          BY <3>2, <3>7, <4>1, <4>2
      <3>9. Behind(f)
        <4>1. z \in Before(f)
          BY <3>2, <3>5, <3>7, <3>8 DEF Before
        <4>2. ASSUME NEW j \in z + 1 .. f, Layer(j) = Layer(f) PROVE Kind(j) # "LOAD_INP"
          <5>1. j \in After(l)
            BY <3>2, <3>3, <3>5, <3>7, <4>2 DEF After
          <5> QED
            BY <3>3, <5>1 DEF Some
        <4> QED
          BY <3>6, <4>1, <4>2 DEF Behind
      <3>10. InPostfix(f) /\ ~ Straggler(f)
        BY <3>5, <3>9 DEF InPostfix, Straggler, Some
      <3>11. f \in ToSet(s)
        BY <3>1, <3>5, <3>10 DEF GroupOK
      <3>12. \A i \in ToSet(s) : i \in DOMAIN all_instructions /\ Layer(i) = n
        BY <3>1 DEF GroupOK
      <3>13. \A a, b \in DOMAIN s : a < b /\ s[a] = f => f < s[b]
        BY <3>1, <3>10 DEF GroupOK
      <3>14. s # << >> /\ \A a \in DOMAIN s : Kind(s[a]) = "FINISH" <=> a = Len(s)
        BY <3>2, <3>4, <3>5, <3>11, <3>12, <3>13, EndsWithFinish
      <3> QED
        BY <3>1, <3>14
    <2> QED
      BY <1>1, <2>1, <2>2 DEF IInv, TypeOK
  <1>2. IInv => GroupsEndWithFinish
    BY <1>1 DEF GroupsEndWithFinish
  <1> QED
    BY <1>2, Invariance, PTL

\* The shared rows are in every block of their layer, a row of a tile in one,
\* that of its LOAD INP.
THEOREM TilesDoneOnce == Spec => []EachTileOnce
  <1>1. ASSUME IInv, phase = "done", granulatity = "block", NEW i \in DOMAIN all_instructions,
               NEW in, in = {k \in DOMAIN layers : i \in ToSet(layers[k])}, in # {}
        PROVE  IF Shared(i) THEN in = {k \in DOMAIN keys : keys[k][1] = Layer(i)}
               ELSE /\ Cardinality(in) = 1
                    /\ \E j \in Before(i) \cup {i} :
                          /\ Kind(j) = "LOAD_INP"
                          /\ ~ Some(After(j) \cap (Before(i) \cup {i}), "LOAD_INP")
                          /\ \A k \in in : j \in ToSet(layers[k])
    <2>1. /\ DOMAIN layers = DOMAIN keys
          /\ \A k \in DOMAIN layers : GroupOK(layers[k], keys[k][1])
          /\ \A j, k \in DOMAIN layers : j # k =>
                \A o \in ToSet(layers[j]) \cap ToSet(layers[k]) : ~ InBlock(o)
      BY <1>1, BlockGroups
    <2>2. PICK g \in DOMAIN layers : i \in ToSet(layers[g])
      BY <1>1
    <2>3. \A k \in in : keys[k][1] = Layer(i)
      BY <1>1, <2>1 DEF GroupOK
    <2>4. InPrefix(i) \/ InBlock(i) \/ InPostfix(i)
      BY <2>1, <2>2 DEF GroupOK
    <2>5. Shared(i) <=> InPrefix(i) \/ InPostfix(i)
      BY DEF Shared, InPrefix, InPostfix
    <2>6. CASE Shared(i)
      <3>1. ASSUME NEW k \in DOMAIN layers, keys[k][1] = Layer(i) PROVE i \in ToSet(layers[k])
        BY <2>1, <2>5, <2>6, <3>1 DEF GroupOK
      <3> QED
        BY <1>1, <2>1, <2>3, <2>6, <3>1
    <2>7. CASE ~ Shared(i)
      <3>1. InBlock(i)
        BY <2>4, <2>5, <2>7
      <3>2. in = {g}
        BY <1>1, <2>1, <2>2, <3>1
      <3>3. Cardinality(in) = 1
        BY <3>2, FS_Singleton
      <3>4. PICK j \in ToSet(layers[g]) : Opens(j, i)
        BY <2>1, <2>2, <3>1 DEF GroupOK
      <3>5. \A k \in in : j \in ToSet(layers[k])
        BY <3>2, <3>4
      <3> QED
        BY <2>7, <3>3, <3>4, <3>5 DEF Opens
    <2> QED
      BY <2>6, <2>7
  <1>2. IInv => EachTileOnce
    BY <1>1 DEF EachTileOnce
  <1> QED
    BY <1>2, Invariance, PTL
=============================================================================
