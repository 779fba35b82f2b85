---------------------------- MODULE MemoryCache -----------------------------
(***************************************************************************)
(* Parser::check_memory_cache (parser.cpp): which DRAM accesses are worth   *)
(* keeping in a cache.  One pass over the rows of all groups lists every    *)
(* address with its hits; the list is sorted by hits, and addresses are     *)
(* taken from the front as long as they fit.  sc_main does not call it.     *)
(***************************************************************************)
EXTENDS Integers, Sequences, FiniteSets

CONSTANTS
    Inputs,             \* files, each the rows of all groups in the order of the loops:
                        \* [name, dram, elements (x * y), key (name of the group)]
    MaxCacheMemSize     \* PlatformConfig::max_cache_mem_size

Cacheable == {"LOAD INP", "LOAD WGT", "STORE"}
word_size(name) == IF name = "LOAD WGT" THEN 256 ELSE 16

ASSUME InputsAssumption ==
    \A f \in Inputs :
        /\ f \in Seq([name : STRING, dram : STRING, elements : Nat, key : Nat])
        /\ \A j, k \in DOMAIN f : j <= k => f[j].key <= f[k].key
ASSUME SizeAssumption == MaxCacheMemSize \in Nat

VARIABLES
    input,      \* the file
    rows,       \* rows visited
    unique,     \* unique_ddr_address: [dram, size, hits, first, last]
    index,      \* unique_ddr_address_idx
    offered,    \* entries of unique offered to the cache
    cached,     \* to_be_cached_address, as positions in unique
    used,       \* tmp_cache_size
    phase       \* "visit", "choose", "done"

vars == <<input, rows, unique, index, offered, cached, used, phase>>

Init ==
    /\ input \in Inputs
    /\ rows = 0 /\ unique = << >> /\ index = << >>
    /\ offered = 0 /\ cached = {} /\ used = 0
    /\ phase = "visit"

\* MemoryAddress::hit.
hit(a, key) == [a EXCEPT !.hits = @ + 1, !.last = key]

Row == input[rows + 1]
Found == [dram |-> Row.dram, size |-> Row.elements * word_size(Row.name),
          hits |-> 1, first |-> Row.key, last |-> Row.key]

Visiting == phase = "visit" /\ rows < Len(input) /\ rows' = rows + 1
              /\ UNCHANGED <<input, offered, cached, used, phase>>

skip_row ==
    /\ Visiting /\ Row.name \notin Cacheable
    /\ UNCHANGED <<unique, index>>

\* The size of an address is that of the first row that names it.
new_address ==
    /\ Visiting /\ Row.name \in Cacheable /\ Row.dram \notin DOMAIN index
    /\ unique' = Append(unique, Found)
    /\ index' = [d \in DOMAIN index \cup {Row.dram} |->
                   IF d = Row.dram THEN Len(unique) + 1 ELSE index[d]]

\* Mutant: every use counts as a first one.
known_address_restarted ==
    /\ Visiting /\ Row.name \in Cacheable /\ Row.dram \in DOMAIN index
    /\ unique' = [unique EXCEPT ![index[Row.dram]] = [hit(@, Row.key) EXCEPT !.first = Row.key]]
    /\ UNCHANGED index

known_address ==
    /\ Visiting /\ Row.name \in Cacheable /\ Row.dram \in DOMAIN index
    /\ unique' = [unique EXCEPT ![index[Row.dram]] = hit(@, Row.key)]
    /\ UNCHANGED index

\* stable_sort by hits, most first.
Before(a, b) == unique[a].hits > unique[b].hits \/ (unique[a].hits = unique[b].hits /\ a < b)

\* Mutant: the addresses are sorted by size.
sort_by_size ==
    /\ phase = "visit" /\ rows = Len(input) /\ phase' = "choose"
    /\ \E from \in [DOMAIN unique -> DOMAIN unique] :
          /\ \A a, b \in DOMAIN unique : a < b => /\ from[a] # from[b]
                                                /\ unique[from[a]].size <= unique[from[b]].size
          /\ unique' = [a \in DOMAIN unique |-> unique[from[a]]]
    /\ UNCHANGED <<input, rows, index, offered, cached, used>>

\* The index is not sorted along: from here on it is stale.
sort ==
    /\ phase = "visit" /\ rows = Len(input) /\ phase' = "choose"
    /\ \E from \in [DOMAIN unique -> DOMAIN unique] :
          /\ \A a, b \in DOMAIN unique : a < b => Before(from[a], from[b])
          /\ unique' = [a \in DOMAIN unique |-> unique[from[a]]]
    /\ UNCHANGED <<input, rows, index, offered, cached, used>>

Offer == offered + 1

take ==
    /\ phase = "choose" /\ offered < Len(unique)
    /\ used + unique[Offer].size <= MaxCacheMemSize
    /\ cached' = cached \cup {Offer} /\ used' = used + unique[Offer].size
    /\ offered' = Offer
    /\ UNCHANGED <<input, rows, unique, index, phase>>

\* Mutant: the first address that does not fit ends the loop.
leave_all ==
    /\ phase = "choose" /\ offered < Len(unique)
    /\ used + unique[Offer].size > MaxCacheMemSize
    /\ offered' = Len(unique)
    /\ UNCHANGED <<input, rows, unique, index, cached, used, phase>>

leave ==
    /\ phase = "choose" /\ offered < Len(unique)
    /\ used + unique[Offer].size > MaxCacheMemSize
    /\ offered' = Offer
    /\ UNCHANGED <<input, rows, unique, index, cached, used, phase>>

finish ==
    /\ phase = "choose" /\ offered = Len(unique) /\ phase' = "done"
    /\ UNCHANGED <<input, rows, unique, index, offered, cached, used>>

Next == skip_row \/ new_address \/ known_address \/ sort \/ take \/ leave \/ finish

Spec == Init /\ [][Next]_vars

-----------------------------------------------------------------------------
(* Properties. *)

\* Types; until the sort the index leads to the entry of its address.
TypeOK ==
    /\ rows \in 0 .. Len(input) /\ offered \in 0 .. Len(unique) /\ used \in Nat
    /\ cached \subseteq 1 .. offered
    /\ \A d \in DOMAIN index : index[d] \in DOMAIN unique
    /\ phase = "visit" => \A d \in DOMAIN index : unique[index[d]].dram = d
    /\ phase # "visit" => rows = Len(input)

Uses(d) == {k \in 1 .. rows : input[k].dram = d /\ input[k].name \in Cacheable}

\* Each address that is used has one entry, with as many hits as uses, and
\* first and last name the first and the last group that uses it.
HitsCounted ==
    /\ \A k \in 1 .. rows : input[k].name \in Cacheable =>
          \E a \in DOMAIN unique : unique[a].dram = input[k].dram
    /\ \A a \in DOMAIN unique : LET U == Uses(unique[a].dram) IN
          /\ unique[a].hits = Cardinality(U)
          /\ \E k \in U : input[k].key = unique[a].first
          /\ \E k \in U : input[k].key = unique[a].last
          /\ \A k \in U : input[k].key \in unique[a].first .. unique[a].last
    /\ \A a, b \in DOMAIN unique : unique[a].dram = unique[b].dram => a = b

\* The addresses chosen fit together.
Budget == used <= MaxCacheMemSize

\* Nothing that would still fit is left out: an address turned down does not
\* fit into what is left, now or at the end.
NothingMoreFits ==
    \A a \in (1 .. offered) \ cached : used + unique[a].size > MaxCacheMemSize

\* An address with fewer hits is cached in the place of one with more only if
\* it is the smaller one.
PassedOverForSmaller ==
    \A a \in (1 .. offered) \ cached, b \in cached :
        unique[a].hits > unique[b].hits => unique[a].size > unique[b].size
=============================================================================
