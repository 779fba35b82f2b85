------------------------- MODULE MemoryCacheProofs --------------------------
(***************************************************************************)
(* The choice of cache candidates, for every file and every cache size.     *)
(*                                                                          *)
(* The invariant has two halves.  While the rows are visited, the index and *)
(* the list of entries are inverse to each other (Indexed), so that the     *)
(* hits of an entry are the uses of its address; the sort only rearranges   *)
(* the entries.  While entries are offered, their hits only fall (Sorted),  *)
(* and an entry left out is larger than every later one taken (Smaller).    *)
(***************************************************************************)
EXTENDS MemoryCache, SequenceTheorems, FiniteSetTheorems, TLAPS

Rows    == [name : STRING, dram : STRING, elements : Nat, key : Nat]
Entries == [dram : STRING, size : Nat, hits : Nat, first : Nat, last : Nat]

Typed ==
    /\ input \in Inputs /\ rows \in 0 .. Len(input) /\ unique \in Seq(Entries)
    /\ offered \in 0 .. Len(unique) /\ cached \subseteq 1 .. offered /\ used \in Nat
    /\ phase = "visit" => offered = 0 /\ cached = {} /\ used = 0
    /\ phase # "visit" => rows = Len(input)

Indexed ==
    /\ \A d \in DOMAIN index : index[d] \in DOMAIN unique
    /\ phase = "visit" =>
          /\ \A d \in DOMAIN index : unique[index[d]].dram = d
          /\ \A a \in DOMAIN unique : unique[a].dram \in DOMAIN index /\ index[unique[a].dram] = a

Sorted ==
    phase # "visit" => \A a, b \in DOMAIN unique : a < b => unique[b].hits <= unique[a].hits

Smaller ==
    \A a \in (1 .. offered) \ cached, b \in cached : a < b => unique[b].size < unique[a].size

\* HitsCounted, taken apart.
Listed == \A k \in 1 .. rows : input[k].name \in Cacheable =>
              \E a \in DOMAIN unique : unique[a].dram = input[k].dram
Counted(a) ==
    /\ Uses(a.dram) # {} /\ a.hits = Cardinality(Uses(a.dram))
    /\ \E k \in Uses(a.dram) : input[k].key = a.first
    /\ \E k \in Uses(a.dram) : input[k].key = a.last
    /\ \A k \in Uses(a.dram) : input[k].key \in a.first .. a.last
AllCounted == \A a \in DOMAIN unique : Counted(unique[a])
Distinct == \A a, b \in DOMAIN unique : unique[a].dram = unique[b].dram => a = b

IInv == /\ Typed /\ Indexed /\ Sorted /\ Smaller /\ Listed /\ AllCounted /\ Distinct
        /\ Budget /\ NothingMoreFits

-----------------------------------------------------------------------------
(* The rows and the entries. *)

\* A row of the input has a key and a size.
LEMMA InputRows ==
    ASSUME Typed
    PROVE  /\ input \in Seq(Rows) /\ Len(input) \in Nat /\ DOMAIN input = 1 .. Len(input)
           /\ \A j, k \in DOMAIN input : j <= k => input[j].key <= input[k].key
           /\ \A k \in DOMAIN input : input[k] \in Rows
           /\ rows \in Nat /\ 1 .. rows \subseteq DOMAIN input
<1>1. input \in Seq(Rows)
  BY InputsAssumption DEF Typed, Rows
<1>2. Len(input) \in Nat /\ DOMAIN input = 1 .. Len(input)
      /\ \A k \in DOMAIN input : input[k] \in Rows
  BY <1>1
<1>3. \A j, k \in DOMAIN input : j <= k => input[j].key <= input[k].key
  BY InputsAssumption DEF Typed
<1>4. rows \in Nat /\ 1 .. rows \subseteq DOMAIN input
  <2>1. rows \in 0 .. Len(input)
    BY DEF Typed
  <2> QED
    BY <1>2, <2>1
<1> QED
  BY <1>1, <1>2, <1>3, <1>4

\* What the list holds has the type of an entry.
LEMMA EntriesTyped ==
    ASSUME Typed
    PROVE  /\ Len(unique) \in Nat /\ DOMAIN unique = 1 .. Len(unique)
           /\ \A a \in DOMAIN unique : unique[a] \in Entries
BY DEF Typed

\* The uses of an address before and after one more row.
LEMMA UsesGrow ==
    ASSUME Typed, phase = "visit", rows < Len(input), rows' = rows + 1, input' = input, NEW d
    PROVE  /\ IsFiniteSet(Uses(d)) /\ rows + 1 \notin Uses(d) /\ rows + 1 \in DOMAIN input
           /\ Row.dram = d /\ Row.name \in Cacheable => Uses(d)' = Uses(d) \cup {rows + 1}
           /\ Row.dram # d \/ Row.name \notin Cacheable => Uses(d)' = Uses(d)
<1>1. rows \in Nat /\ Len(input) \in Nat /\ DOMAIN input = 1 .. Len(input)
  BY InputRows
<1>2. IsFiniteSet(1 .. rows) /\ Uses(d) \subseteq 1 .. rows
  BY <1>1, FS_Interval DEF Uses
<1>3. IsFiniteSet(Uses(d))
  BY <1>2, FS_Subset
<1>4. rows + 1 \notin Uses(d) /\ rows + 1 \in DOMAIN input
  BY <1>1, <1>2
<1>5. 1 .. rows' = (1 .. rows) \cup {rows + 1}
  BY <1>1
<1>6. Uses(d)' = {k \in 1 .. rows' : input[k].dram = d /\ input[k].name \in Cacheable}
  BY DEF Uses, Cacheable
<1>7. Row = input[rows + 1]
  BY DEF Row
<1> QED
  BY <1>3, <1>4, <1>5, <1>6, <1>7 DEF Uses

\* Init: nothing is listed yet.
LEMMA InitSafe == Init => IInv
<1> SUFFICES ASSUME Init PROVE IInv
  OBVIOUS
<1>1. input \in Seq(Rows) /\ Len(input) \in Nat
  BY InputsAssumption DEF Init, Rows
<1>2. unique = << >> /\ DOMAIN unique = {} /\ unique \in Seq(Entries) /\ Len(unique) = 0
  BY DEF Init
<1>3. Typed
  BY <1>1, <1>2 DEF Init, Typed
<1>4. Indexed /\ Listed /\ AllCounted /\ Distinct
  BY <1>2 DEF Init, Indexed, Listed, AllCounted, Distinct
<1>5. Sorted /\ Smaller /\ Budget /\ NothingMoreFits
  BY <1>2, SizeAssumption DEF Init, Sorted, Smaller, Budget, NothingMoreFits
<1> QED
  BY <1>3, <1>4, <1>5 DEF IInv

-----------------------------------------------------------------------------
(* Visiting the rows. *)

\* A row that is no cacheable load changes nothing that is counted.
LEMMA SkipSafe ==
    ASSUME IInv, skip_row
    PROVE  IInv'
<1>1. /\ phase = "visit" /\ rows < Len(input) /\ rows' = rows + 1 /\ Row.name \notin Cacheable
      /\ UNCHANGED <<input, offered, cached, used, phase, unique, index>>
  BY DEF skip_row, Visiting
<1>2. Typed /\ rows \in Nat /\ Len(input) \in Nat
  BY InputRows DEF IInv
<1>3. \A d : Uses(d)' = Uses(d)
  BY <1>1, <1>2, UsesGrow
<1>4. Typed'
  BY <1>1, <1>2 DEF Typed
<1>5. Indexed' /\ Sorted' /\ Smaller' /\ Distinct' /\ Budget' /\ NothingMoreFits'
  BY <1>1 DEF IInv, Indexed, Sorted, Smaller, Distinct, Budget, NothingMoreFits
<1>6. Listed'
  <2> SUFFICES ASSUME NEW k \in 1 .. rows', input[k].name \in Cacheable
               PROVE  \E a \in DOMAIN unique : unique[a].dram = input[k].dram
    BY <1>1 DEF Listed, Cacheable
  <2>1. k \in 1 .. rows
    BY <1>1, <1>2 DEF Row
  <2> QED
    BY <2>1 DEF IInv, Listed
<1>7. AllCounted'
  BY <1>1, <1>3 DEF IInv, AllCounted, Counted
<1> QED
  BY <1>4, <1>5, <1>6, <1>7 DEF IInv

\* A first use: no earlier row names the address.
LEMMA NewSafe ==
    ASSUME IInv, new_address
    PROVE  IInv'
<1> DEFINE e == Found
           n == Len(unique) + 1
<1>1. /\ phase = "visit" /\ rows < Len(input) /\ rows' = rows + 1 /\ Row.name \in Cacheable
      /\ Row.dram \notin DOMAIN index
      /\ UNCHANGED <<input, offered, cached, used, phase>>
      /\ unique' = Append(unique, e)
      /\ DOMAIN index' = DOMAIN index \cup {Row.dram} /\ index'[Row.dram] = n
      /\ \A d \in DOMAIN index : index'[d] = index[d]
  BY DEF new_address, Visiting
<1>2. Typed /\ rows \in Nat /\ Len(input) \in Nat /\ rows + 1 \in DOMAIN input
  BY <1>1, InputRows DEF IInv
<1>3. Row \in Rows /\ Row.key \in Nat
  BY <1>2, InputRows DEF Row, Rows
<1>4. e \in Entries /\ e.dram = Row.dram /\ e.hits = 1 /\ e.first = Row.key /\ e.last = Row.key
  <2>1. Row.elements * word_size(Row.name) \in Nat
    <3>1. Row.elements \in Nat /\ word_size(Row.name) \in {16, 256}
      BY <1>3 DEF word_size, Rows
    <3>2. Row.elements * 16 \in Nat /\ Row.elements * 256 \in Nat
      BY <3>1
    <3> QED
      BY <3>1, <3>2
  <2> QED
    BY <1>3, <2>1 DEF Found, Entries, Rows
<1> HIDE DEF e
<1>5. /\ unique \in Seq(Entries) /\ unique' \in Seq(Entries) /\ n \in Nat
      /\ Len(unique) \in Nat /\ DOMAIN unique = 1 .. Len(unique)
      /\ DOMAIN unique' = 1 .. n /\ n \notin DOMAIN unique /\ n \in DOMAIN unique'
      /\ DOMAIN unique' = DOMAIN unique \cup {n}
      /\ Len(unique') = n
      /\ \A a \in DOMAIN unique : unique'[a] = unique[a]
      /\ unique'[n] = e
  <2>1. unique \in Seq(Entries) /\ Len(unique) \in Nat /\ DOMAIN unique = 1 .. Len(unique)
    BY <1>2 DEF Typed
  <2>2. /\ Append(unique, e) \in Seq(Entries) /\ Len(Append(unique, e)) = n
        /\ \A a \in 1 .. Len(unique) : Append(unique, e)[a] = unique[a]
        /\ Append(unique, e)[n] = e
    BY <1>4, <2>1, AppendProperties
  <2>3. unique' \in Seq(Entries) /\ Len(unique') = n /\ DOMAIN unique' = 1 .. n
    BY <1>1, <2>2
  <2>4. n \notin 1 .. Len(unique) /\ n \in 1 .. n /\ 1 .. n = (1 .. Len(unique)) \cup {n}
    BY <2>1
  <2> QED
    BY <1>1, <2>1, <2>2, <2>3, <2>4
<1> HIDE DEF n
<1>6. /\ \A d \in DOMAIN index : index[d] \in DOMAIN unique /\ unique[index[d]].dram = d
      /\ \A a \in DOMAIN unique : unique[a].dram \in DOMAIN index /\ index[unique[a].dram] = a
  BY <1>1 DEF IInv, Indexed
<1>7. \A a \in DOMAIN unique : unique[a].dram # Row.dram
  BY <1>1, <1>6
<1>8. Uses(Row.dram) = {}
  <2> SUFFICES ASSUME NEW k \in Uses(Row.dram) PROVE FALSE
    OBVIOUS
  <2>1. k \in 1 .. rows /\ input[k].name \in Cacheable /\ input[k].dram = Row.dram
    BY DEF Uses
  <2> QED
    BY <1>7, <2>1 DEF IInv, Listed
<1>9. PICK addr : addr = Row.dram
  OBVIOUS
<1>16. Uses(addr)' = {rows + 1} /\ \A c : c # addr => Uses(c)' = Uses(c)
  BY <1>1, <1>2, <1>8, <1>9, UsesGrow
<1>10. Typed'
  BY <1>1, <1>2, <1>5 DEF Typed
<1>11. Indexed'
  <2>1. \A d \in DOMAIN index' : index'[d] \in DOMAIN unique' /\ unique'[index'[d]].dram = d
    BY <1>1, <1>4, <1>5, <1>6
  <2>2. \A a \in DOMAIN unique' : unique'[a].dram \in DOMAIN index' /\ index'[unique'[a].dram] = a
    BY <1>1, <1>4, <1>5, <1>6, <1>7
  <2> QED
    BY <2>1, <2>2 DEF Indexed
<1>12. Listed'
  <2> SUFFICES ASSUME NEW k \in 1 .. rows', input[k].name \in Cacheable
               PROVE  \E a \in DOMAIN unique' : unique'[a].dram = input[k].dram
    BY <1>1 DEF Listed, Cacheable
  <2>1. CASE k = rows + 1
    BY <1>4, <1>5, <2>1 DEF Row
  <2>2. CASE k \in 1 .. rows
    BY <1>5, <2>2 DEF IInv, Listed
  <2> QED
    BY <1>1, <1>2, <2>1, <2>2
<1>13. AllCounted'
  <2> SUFFICES ASSUME NEW a \in DOMAIN unique' PROVE Counted(unique[a])'
    BY DEF AllCounted
  <2>1. CASE a \in DOMAIN unique
    <3>1. Counted(unique[a]) /\ unique'[a] = unique[a] /\ Uses(unique[a].dram)' = Uses(unique[a].dram)
      BY <1>5, <1>7, <1>9, <1>16, <2>1 DEF IInv, AllCounted
    <3> QED
      BY <1>1, <3>1 DEF Counted
  <2>2. CASE a = n
    <3>1. unique'[a] = e /\ unique'[a].dram = addr /\ Cardinality({rows + 1}) = 1
      BY <1>4, <1>5, <1>9, <2>2, FS_Singleton
    <3>4. Uses(unique[a].dram)' = {rows + 1}
      BY <1>16, <3>1 DEF Uses
    <3>2. input'[rows + 1].key = Row.key
      BY <1>1 DEF Row
    <3>3. Row.key \in Row.key .. Row.key
      BY <1>3
    <3> QED
      BY <1>4, <3>1, <3>2, <3>3, <3>4 DEF Counted
  <2> QED
    BY <1>5, <2>1, <2>2
<1>14. Distinct'
  <2> SUFFICES ASSUME NEW a \in DOMAIN unique', NEW b \in DOMAIN unique', unique'[a].dram = unique'[b].dram
               PROVE  a = b
    BY DEF Distinct
  <2> QED
    BY <1>4, <1>5, <1>7 DEF IInv, Distinct
<1>15. Sorted' /\ Smaller' /\ Budget' /\ NothingMoreFits'
  <2>1. offered = 0 /\ cached = {} /\ used = 0
    BY <1>1, <1>2 DEF Typed
  <2> QED
    BY <1>1, <2>1, SizeAssumption DEF Sorted, Smaller, Budget, NothingMoreFits
<1> QED
  BY <1>10, <1>11, <1>12, <1>13, <1>14, <1>15 DEF IInv

\* A further use: the entry the index leads to is the one of the address.
LEMMA KnownSafe ==
    ASSUME IInv, known_address
    PROVE  IInv'
<1> DEFINE n == index[Row.dram]
<1>1. /\ phase = "visit" /\ rows < Len(input) /\ rows' = rows + 1 /\ Row.name \in Cacheable
      /\ Row.dram \in DOMAIN index
      /\ UNCHANGED <<input, offered, cached, used, phase, index>>
      /\ unique' = [unique EXCEPT ![n] = hit(@, Row.key)]
  BY DEF known_address, Visiting
<1>2. Typed /\ rows \in Nat /\ Len(input) \in Nat /\ rows + 1 \in DOMAIN input
  BY <1>1, InputRows DEF IInv
<1>3. Row \in Rows /\ Row.key \in Nat
  BY <1>2, InputRows DEF Row, Rows
<1>4. /\ \A d \in DOMAIN index : index[d] \in DOMAIN unique /\ unique[index[d]].dram = d
      /\ \A a \in DOMAIN unique : unique[a].dram \in DOMAIN index /\ index[unique[a].dram] = a
  BY <1>1 DEF IInv, Indexed
<1>5. n \in DOMAIN unique /\ unique[n].dram = Row.dram /\ unique[n] \in Entries
      /\ \A a \in DOMAIN unique : a # n => unique[a].dram # Row.dram
  BY <1>1, <1>2, <1>4 DEF Typed
<1> HIDE DEF n
<1>6. /\ unique' \in Seq(Entries) /\ Len(unique') = Len(unique) /\ DOMAIN unique' = DOMAIN unique
      /\ \A a \in DOMAIN unique : a # n => unique'[a] = unique[a]
      /\ unique'[n] = hit(unique[n], Row.key)
      /\ \A a \in DOMAIN unique : unique'[a].dram = unique[a].dram
  <2>1. hit(unique[n], Row.key) \in Entries /\ hit(unique[n], Row.key).dram = unique[n].dram
    <3>1. PICK e \in Entries, key \in Nat : e = unique[n] /\ key = Row.key
      BY <1>3, <1>5
    <3> DEFINE f == [e EXCEPT !.hits = e.hits + 1]
    <3>2. f \in Entries /\ f.dram = e.dram
      BY DEF Entries
    <3>3. hit(e, key) = [f EXCEPT !.last = key]
      BY DEF hit
    <3> HIDE DEF f
    <3>4. [f EXCEPT !.last = key] \in Entries /\ [f EXCEPT !.last = key].dram = f.dram
      BY <3>2 DEF Entries
    <3> QED
      BY <3>1, <3>2, <3>3, <3>4
  <2> QED
    BY <1>1, <1>2, <1>5, <2>1 DEF Typed
<1>13. PICK addr : addr = Row.dram
  OBVIOUS
<1>7. /\ IsFiniteSet(Uses(addr)) /\ rows + 1 \notin Uses(addr)
      /\ Uses(addr)' = Uses(addr) \cup {rows + 1}
      /\ \A c : c # addr => Uses(c)' = Uses(c)
  BY <1>1, <1>2, <1>13, UsesGrow
<1>8. Typed'
  BY <1>1, <1>2, <1>6 DEF Typed
<1>9. Indexed' /\ Distinct'
  BY <1>1, <1>4, <1>6 DEF Indexed, Distinct
<1>10. Listed'
  <2> SUFFICES ASSUME NEW k \in 1 .. rows', input[k].name \in Cacheable
               PROVE  \E a \in DOMAIN unique' : unique'[a].dram = input[k].dram
    BY <1>1 DEF Listed, Cacheable
  <2>1. CASE k = rows + 1
    BY <1>5, <1>6, <2>1 DEF Row
  <2>2. CASE k \in 1 .. rows
    BY <1>6, <2>2 DEF IInv, Listed
  <2> QED
    BY <1>1, <1>2, <2>1, <2>2
<1>11. AllCounted'
  <2> SUFFICES ASSUME NEW a \in DOMAIN unique' PROVE Counted(unique[a])'
    BY DEF AllCounted
  <2>1. CASE a # n
    <3>1. Counted(unique[a]) /\ unique'[a] = unique[a] /\ Uses(unique[a].dram)' = Uses(unique[a].dram)
      BY <1>5, <1>6, <1>7, <1>13, <2>1 DEF IInv, AllCounted
    <3> QED
      BY <1>1, <3>1 DEF Counted
  <2>2. CASE a = n
    <3> DEFINE U == Uses(addr)
               e == unique[n]
               key == Row.key
    <3>1. /\ U # {} /\ e.hits = Cardinality(U) /\ e.first \in Nat /\ e.last \in Nat
          /\ \E k \in U : input[k].key = e.first
          /\ \E k \in U : input[k].key = e.last
          /\ \A k \in U : input[k].key \in e.first .. e.last
      BY <1>5, <1>13 DEF IInv, AllCounted, Counted, Entries
    <3>2. /\ unique'[a].dram = addr /\ unique'[a].hits = e.hits + 1
          /\ unique'[a].first = e.first /\ unique'[a].last = key
      BY <1>5, <1>6, <1>13, <2>2 DEF hit, Entries
    <3>3. Cardinality(U \cup {rows + 1}) = Cardinality(U) + 1
      BY <1>7, FS_AddElement
    <3>4. input[rows + 1].key = key
      BY DEF Row
    <3>5. \A k \in U : input[k].key \in Nat /\ input[k].key <= key
      <4> SUFFICES ASSUME NEW k \in U PROVE input[k].key \in Nat /\ input[k].key <= key
        OBVIOUS
      <4>1. k \in 1 .. rows /\ k \in DOMAIN input /\ k <= rows + 1
        BY <1>2, InputRows DEF Uses
      <4> QED
        BY <1>2, <3>4, <4>1, InputRows DEF Rows
    <3> HIDE DEF U, e, key
    <3>6. \A k \in U \cup {rows + 1} : input[k].key \in e.first .. key
      <4>1. PICK k \in U : input[k].key = e.first
        BY <3>1
      <4>2. e.first <= key /\ key \in Nat
        BY <1>3, <3>5, <4>1 DEF key
      <4> QED
        BY <3>1, <3>4, <3>5, <4>2
    <3>7. Uses(addr)' = U \cup {rows + 1}
      BY <1>7 DEF U
    <3>8. Uses(unique[a].dram)' = U \cup {rows + 1}
      BY <3>2, <3>7 DEF Uses
    <3> QED
      BY <1>1, <3>1, <3>2, <3>3, <3>4, <3>6, <3>8 DEF Counted
  <2> QED
    BY <2>1, <2>2
<1>12. Sorted' /\ Smaller' /\ Budget' /\ NothingMoreFits'
  <2>1. offered = 0 /\ cached = {} /\ used = 0
    BY <1>1, <1>2 DEF Typed
  <2> QED
    BY <1>1, <2>1, SizeAssumption DEF Sorted, Smaller, Budget, NothingMoreFits
<1> QED
  BY <1>8, <1>9, <1>10, <1>11, <1>12 DEF IInv

-----------------------------------------------------------------------------
(* Sorting and choosing. *)

\* Injective on a finite set, the sort loses no entry.
LEMMA SortSafe ==
    ASSUME IInv, sort
    PROVE  IInv'
<1>1. /\ phase = "visit" /\ rows = Len(input) /\ phase' = "choose"
      /\ UNCHANGED <<input, rows, index, offered, cached, used>>
  BY DEF sort
<1>2. PICK from \in [DOMAIN unique -> DOMAIN unique] :
         /\ \A a, b \in DOMAIN unique : a < b => Before(from[a], from[b])
         /\ unique' = [a \in DOMAIN unique |-> unique[from[a]]]
  BY DEF sort
<1>3. /\ Len(unique) \in Nat /\ DOMAIN unique = 1 .. Len(unique)
      /\ \A a \in DOMAIN unique : unique[a] \in Entries /\ unique[a].hits \in Nat
  BY EntriesTyped DEF IInv, Entries
<1>4. \A a, b \in DOMAIN unique : a # b => from[a] # from[b]
  <2> SUFFICES ASSUME NEW a \in DOMAIN unique, NEW b \in DOMAIN unique, a < b PROVE from[a] # from[b]
    BY <1>3
  <2>1. from[a] \in DOMAIN unique /\ unique[from[a]].hits \in Nat /\ from[a] \in Nat
    BY <1>2, <1>3
  <2> QED
    BY <1>2, <2>1 DEF Before
<1>5. \A b \in DOMAIN unique : \E a \in DOMAIN unique : from[a] = b
  <2>1. from \in Injection(DOMAIN unique, DOMAIN unique)
    BY <1>4 DEF Injection, IsInjective
  <2>2. IsFiniteSet(DOMAIN unique)
    BY <1>3, FS_Interval
  <2>3. from \in Surjection(DOMAIN unique, DOMAIN unique)
    BY <2>1, <2>2, FS_Injection
  <2> QED
    BY <2>3 DEF Surjection
<1>6. /\ DOMAIN unique' = DOMAIN unique /\ unique' \in Seq(Entries) /\ Len(unique') = Len(unique)
      /\ \A a \in DOMAIN unique : from[a] \in DOMAIN unique /\ unique'[a] = unique[from[a]]
  <2>1. unique' \in [1 .. Len(unique) -> Entries]
    BY <1>2, <1>3
  <2> QED
    BY <1>2, <1>3, <2>1
<1>7. Typed'
  BY <1>1, <1>6 DEF IInv, Typed
<1>8. Indexed' /\ Smaller' /\ Budget' /\ NothingMoreFits'
  BY <1>1, <1>6, SizeAssumption DEF IInv, Typed, Indexed, Smaller, Budget, NothingMoreFits
<1>9. Listed'
  <2> SUFFICES ASSUME NEW k \in 1 .. rows, input[k].name \in Cacheable
               PROVE  \E a \in DOMAIN unique' : unique'[a].dram = input[k].dram
    BY <1>1 DEF Listed, Cacheable
  <2>1. PICK b \in DOMAIN unique : unique[b].dram = input[k].dram
    BY DEF IInv, Listed
  <2>2. PICK a \in DOMAIN unique : from[a] = b
    BY <1>5
  <2>3. unique'[a].dram = input[k].dram
    BY <1>6, <2>1, <2>2
  <2> QED
    BY <1>6, <2>3
<1>10. AllCounted'
  <2> SUFFICES ASSUME NEW a \in DOMAIN unique PROVE Counted(unique[a])'
    BY <1>6 DEF AllCounted
  <2>1. PICK e : e = unique'[a] /\ Counted(e)
    BY <1>6 DEF IInv, AllCounted
  <2>2. Uses(unique[a].dram)' = Uses(e.dram)
    BY <1>1, <2>1 DEF Uses, Cacheable
  <2> QED
    BY <1>1, <2>1, <2>2 DEF Counted
<1>11. Distinct'
  BY <1>4, <1>6 DEF IInv, Distinct
<1>12. Sorted'
  <2> SUFFICES ASSUME NEW a \in DOMAIN unique, NEW b \in DOMAIN unique, a < b
               PROVE  unique'[b].hits <= unique'[a].hits
    BY <1>6 DEF Sorted
  <2>1. Before(from[a], from[b])
    BY <1>2
  <2>2. unique[from[a]].hits \in Nat /\ unique[from[b]].hits \in Nat
    BY <1>3, <1>6
  <2> QED
    BY <1>6, <2>1, <2>2 DEF Before
<1> QED
  BY <1>7, <1>8, <1>9, <1>10, <1>11, <1>12 DEF IInv

\* What take and leave do not touch.
LEMMA ChoosingKeeps ==
    ASSUME IInv, UNCHANGED <<input, rows, unique, index, phase>>
    PROVE  Indexed' /\ Sorted' /\ Listed' /\ AllCounted' /\ Distinct'
<1>1. Indexed' /\ Sorted' /\ Listed' /\ Distinct'
  BY DEF IInv, Indexed, Sorted, Listed, Distinct
<1>2. AllCounted'
  BY DEF IInv, AllCounted, Counted, Uses
<1> QED
  BY <1>1, <1>2

\* A candidate is taken: it fits into what is left.
LEMMA TakeSafe ==
    ASSUME IInv, take
    PROVE  IInv'
<1>1. /\ phase = "choose" /\ offered < Len(unique)
      /\ used + unique[Offer].size <= MaxCacheMemSize
      /\ cached' = cached \cup {Offer} /\ used' = used + unique[Offer].size /\ offered' = Offer
      /\ UNCHANGED <<input, rows, unique, index, phase>>
  BY DEF take
<1>2. /\ Offer = offered + 1 /\ offered \in Nat /\ used \in Nat /\ cached \subseteq 1 .. offered
      /\ Len(unique) \in Nat /\ Offer \in DOMAIN unique
      /\ \A a \in DOMAIN unique : unique[a] \in Entries /\ unique[a].size \in Nat
      /\ \A a \in 1 .. Offer : a \in DOMAIN unique
  <2>1. Offer = offered + 1 /\ offered \in Nat /\ used \in Nat /\ cached \subseteq 1 .. offered
    BY EntriesTyped DEF IInv, Typed, Offer
  <2>2. Len(unique) \in Nat /\ DOMAIN unique = 1 .. Len(unique)
        /\ \A a \in DOMAIN unique : unique[a] \in Entries
    BY EntriesTyped DEF IInv
  <2>3. \A a \in DOMAIN unique : unique[a].size \in Nat
    BY <2>2 DEF Entries
  <2>4. 1 .. Offer \subseteq DOMAIN unique /\ Offer \in 1 .. Offer
    BY <1>1, <2>1, <2>2
  <2> QED
    BY <2>1, <2>2, <2>3, <2>4
<1>3. \A a \in (1 .. Offer) \ cached' : a \in (1 .. offered) \ cached
  BY <1>1, <1>2
<1>4. \A a \in (1 .. offered) \ cached : used + unique[a].size > MaxCacheMemSize
  BY DEF IInv, NothingMoreFits
<1>5. Typed'
  BY <1>1, <1>2 DEF IInv, Typed
<1>6. NothingMoreFits' /\ Budget'
  <2>1. Budget'
    BY <1>1, <1>2, SizeAssumption DEF Budget
  <2>2. ASSUME NEW a \in (1 .. offered) \ cached PROVE used' + unique[a].size > MaxCacheMemSize
    <3>1. unique[a].size \in Nat /\ unique[Offer].size \in Nat
      BY <1>2
    <3>2. used + unique[a].size > MaxCacheMemSize
      BY <1>4
    <3> QED
      BY <1>1, <1>2, <3>1, <3>2, SizeAssumption
  <2> QED
    BY <1>1, <1>3, <2>1, <2>2 DEF NothingMoreFits
<1>7. Smaller'
  <2> SUFFICES ASSUME NEW a \in (1 .. offered) \ cached, NEW b \in cached \cup {Offer}, a < b
               PROVE  unique[b].size < unique[a].size
    BY <1>1, <1>3 DEF Smaller
  <2>1. CASE b = Offer
    <3>1. unique[a].size \in Nat /\ unique[Offer].size \in Nat
      BY <1>2
    <3>2. used + unique[a].size > MaxCacheMemSize
      BY <1>4
    <3> QED
      BY <1>1, <1>2, <2>1, <3>1, <3>2, SizeAssumption
  <2>2. CASE b \in cached
    BY <2>2 DEF IInv, Smaller
  <2> QED
    BY <2>1, <2>2
<1> QED
  BY <1>1, <1>5, <1>6, <1>7, ChoosingKeeps DEF IInv

\* A candidate is left: what is free is less than its size, for good.
LEMMA LeaveSafe ==
    ASSUME IInv, leave
    PROVE  IInv'
<1>1. /\ phase = "choose" /\ offered < Len(unique)
      /\ used + unique[Offer].size > MaxCacheMemSize /\ offered' = Offer
      /\ UNCHANGED <<input, rows, unique, index, cached, used, phase>>
  BY DEF leave
<1>2. /\ Offer = offered + 1 /\ offered \in Nat /\ cached \subseteq 1 .. offered
      /\ Len(unique) \in Nat
  BY EntriesTyped DEF IInv, Typed, Offer
<1>3. \A a \in (1 .. Offer) \ cached : a \in (1 .. offered) \ cached \/ a = Offer
  BY <1>2
<1>4. Typed'
  BY <1>1, <1>2 DEF IInv, Typed
<1>5. NothingMoreFits' /\ Budget'
  BY <1>1, <1>3 DEF IInv, NothingMoreFits, Budget
<1>6. Smaller'
  BY <1>1, <1>2, <1>3 DEF IInv, Smaller
<1> QED
  BY <1>1, <1>4, <1>5, <1>6, ChoosingKeeps DEF IInv

\* Every step of both passes.
LEMMA StepSafe == IInv /\ [Next]_vars => IInv'
<1> SUFFICES ASSUME IInv, [Next]_vars PROVE IInv'
  OBVIOUS
<1>1. ASSUME UNCHANGED <<input, rows, unique, index, offered, cached, used>>,
             phase' = phase \/ (phase = "choose" /\ phase' = "done")
      PROVE  IInv'
  <2>1. Typed' /\ Indexed' /\ Sorted' /\ Smaller' /\ Listed' /\ Distinct' /\ Budget' /\ NothingMoreFits'
    BY <1>1 DEF IInv, Typed, Indexed, Sorted, Smaller, Listed, Distinct, Budget, NothingMoreFits
  <2>2. AllCounted'
    BY <1>1 DEF IInv, AllCounted, Counted, Uses
  <2> QED
    BY <2>1, <2>2 DEF IInv
<1>2. CASE finish
  BY <1>1, <1>2 DEF finish
<1>3. CASE UNCHANGED vars
  BY <1>1, <1>3 DEF vars
<1> QED
  BY <1>2, <1>3, SkipSafe, NewSafe, KnownSafe, SortSafe, TakeSafe, LeaveSafe DEF Next

\* The invariant holds throughout, for every file and every cache size.
THEOREM Invariance == Spec => []IInv
<1>1. Init => IInv
  BY InitSafe
<1>2. IInv /\ [Next]_vars => IInv'
  BY StepSafe
<1> QED
  BY <1>1, <1>2, PTL DEF Spec

\* The positions in the index and among the chosen are positions of the list.
THEOREM TypeCorrect == Spec => []TypeOK
<1>1. IInv => TypeOK
  BY InputRows DEF IInv, Typed, Indexed, TypeOK
<1> QED
  BY <1>1, Invariance, PTL

\* Each address has one entry, with as many hits as rows that use it, from the
\* first group to the last.
THEOREM HitsAreUses == Spec => []HitsCounted
<1>1. IInv => HitsCounted
  BY DEF IInv, Listed, AllCounted, Counted, Distinct, HitsCounted
<1> QED
  BY <1>1, Invariance, PTL

\* The chosen addresses fit into the cache together.
THEOREM WithinBudget == Spec => []Budget
<1>1. IInv => Budget
  BY DEF IInv
<1> QED
  BY <1>1, Invariance, PTL

\* No address turned down would fit into what the choice leaves free.
THEOREM Maximal == Spec => []NothingMoreFits
<1>1. IInv => NothingMoreFits
  BY DEF IInv
<1> QED
  BY <1>1, Invariance, PTL

\* Only smaller addresses are taken before one with more hits.
THEOREM HitsFirst == Spec => []PassedOverForSmaller
<1>1. ASSUME IInv PROVE PassedOverForSmaller
  <2> SUFFICES ASSUME NEW a \in (1 .. offered) \ cached, NEW b \in cached,
                      unique[a].hits > unique[b].hits
               PROVE  unique[a].size > unique[b].size
    BY DEF PassedOverForSmaller
  <2>1. /\ a \in DOMAIN unique /\ b \in DOMAIN unique /\ a \in Nat /\ b \in Nat
        /\ unique[a] \in Entries /\ unique[b] \in Entries /\ phase # "visit"
    BY <1>1, EntriesTyped DEF IInv, Typed
  <2>2. unique[a].hits \in Nat /\ unique[b].hits \in Nat /\ unique[a].size \in Nat /\ unique[b].size \in Nat
    BY <2>1 DEF Entries
  <2>3. ~ (b < a) /\ a # b
    BY <1>1, <2>1, <2>2 DEF IInv, Sorted
  <2>4. unique[b].size < unique[a].size
    BY <1>1, <2>1, <2>3 DEF IInv, Smaller
  <2> QED
    BY <2>2, <2>4
<1> QED
  BY <1>1, Invariance, PTL
=============================================================================
