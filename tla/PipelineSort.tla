---------------------------- MODULE PipelineSort ----------------------------
(***************************************************************************)
(* Parser::sort_instructions_to_pipelines (parser.cpp): the instructions of *)
(* one group are dealt out to the pipelines of their module, and each token *)
(* push is paired with the pop that will take it.  The pipelines of a       *)
(* module are dealt out in turn; a FINISH starts all of them over.  Every   *)
(* group starts with new counters and queues, so one group is enough.       *)
(* sc_main does not call it.                                                *)
(***************************************************************************)
EXTENDS Integers, Sequences, FiniteSets

CONSTANTS
    Groups,     \* sequences of instructions
    Nr          \* pipelines per module, at least one: nr_load_pipeline, ... (PlatformConfig)

Modules == {"LOAD", "COMPUTE", "STORE"}
Queues  == {"l2c", "c2l", "s2c", "c2s"}

\* Name and module are columns of the CSV, and may be any text.
InstructionRow ==
    [name : STRING, module : STRING,
     pop_prev : BOOLEAN, pop_next : BOOLEAN, push_prev : BOOLEAN, push_next : BOOLEAN]

ASSUME GroupsAssumption == Groups \subseteq Seq(InstructionRow)
ASSUME NrAssumption     == Nr \in [Modules -> Nat \ {0}]

VARIABLES
    group,      \* the instructions
    done,       \* how many of them are sorted
    counter,    \* current_<module>_pl_counter
    queue,      \* <producer>_to_<consumer>_queue
    set,        \* per sorted instruction, [current, source1, source2, destination1, destination2]
    list,       \* <module>_instructions[key][pipeline], as positions in group
    undefined   \* "none", "empty": front() or pop() of an empty queue,
                \* "index": an array index out of range

sort_vars == <<group, done, counter, queue, set, list, undefined>>

StartSort ==
    /\ done = 0 /\ set = << >> /\ undefined = "none"
    /\ counter = [m \in Modules |-> 1]
    /\ queue = [q \in Queues |-> << >>]
    /\ list = [m \in Modules |-> [p \in 1 .. Nr[m] |-> << >>]]

SortInit == group \in Groups /\ StartSort

I == group[done + 1]

\* module_type(name), by which an instruction is listed; module is the column
\* of the CSV.  "ALU - mul", which has an ALU opcode, is among the Undefined.
module_type(name) ==
    CASE name \in {"LOAD INP", "LOAD WGT", "NOP-MEMORY-STAGE"} -> "LOAD"
      [] name \in {"STORE", "NOP-STORE-STAGE"}                -> "STORE"
      [] name \in {"FINISH", "LOAD UOP", "GEMM", "LOAD ACC", "ALU - add", "ALU - max imm",
                   "ALU - add imm", "ALU - shr", "ALU - min imm", "NOP-COMPUTE-STAGE"} -> "COMPUTE"
      [] OTHER                                                -> "Undefined"

\* Of the instructions of the STORE module only these two are looked at.
Stores(i) == i.module = "STORE" /\ i.name \in {"STORE", "NOP-STORE-STAGE"}

\* The token queues an instruction pops and pushes.  A compute instruction
\* that pushes to both sides is only asked for the first.
Source1(i) == CASE Stores(i) /\ i.pop_prev             -> "c2s"
                [] i.module = "LOAD" /\ i.pop_next    -> "c2l"
                [] i.module = "COMPUTE" /\ i.pop_prev -> "l2c"
                [] OTHER -> "none"
Source2(i) == IF i.module = "COMPUTE" /\ i.pop_next THEN "s2c" ELSE "none"
PopsOf(i)  == {Source1(i), Source2(i)} \ {"none"}

Destination1(i) == CASE Stores(i) /\ i.push_prev             -> "s2c"
                     [] i.module = "LOAD" /\ i.push_next    -> "l2c"
                     [] i.module = "COMPUTE" /\ i.push_prev -> "c2l"
                     [] OTHER -> "none"
Destination2(i) == IF i.module = "COMPUTE" /\ ~ i.push_prev /\ i.push_next THEN "c2s" ELSE "none"
PushesOf(i)     == {Destination1(i), Destination2(i)} \ {"none"}

\* Which instructions move on to the next pipeline, and which of the others
\* are given one: a STORE is dealt out when it pops, a NOP-STORE-STAGE when it
\* pushes, and neither is given one otherwise.
Deals(i) == IF Stores(i) /\ i.name = "STORE" THEN i.pop_prev ELSE PushesOf(i) # {}
Given(i) == Deals(i) \/ i.module \in {"LOAD", "COMPUTE"}

current(i) == IF Given(i) THEN counter[i.module] ELSE 0

following(m)      == IF counter[m] + 1 > Nr[m] THEN 1 ELSE counter[m] + 1

\* Mutant: FINISH does not start the pipelines over.
counters_kept(i) == [m \in Modules |-> IF m = i.module /\ Deals(i) THEN following(m) ELSE counter[m]]
counters(i) ==
    IF i.name = "FINISH" THEN [m \in Modules |-> 1]
    ELSE [m \in Modules |-> IF m = i.module /\ Deals(i) THEN following(m) ELSE counter[m]]

source(q) == IF q = "none" THEN 0 ELSE Head(queue[q])

\* A token is known by how many wait in front of it.
destination(q) == IF q = "none" THEN 0 ELSE Len(queue[q]) + 1

\* Mutant: the newest token is taken, as from a stack.
exchange_as_stack(i) ==
    [q \in Queues |-> IF q \in PopsOf(i) THEN SubSeq(queue[q], 1, Len(queue[q]) - 1)
                      ELSE IF q \in PushesOf(i) THEN Append(queue[q], destination(q))
                      ELSE queue[q]]

\* Mutant: a push to a queue in use is not recorded.
exchange_once(i) ==
    [q \in Queues |-> IF q \in PopsOf(i) THEN Tail(queue[q])
                      ELSE IF q \in PushesOf(i) /\ queue[q] = << >> THEN <<destination(q)>>
                      ELSE queue[q]]

\* No instruction pops the queue it pushes.
exchange(i) ==
    [q \in Queues |-> IF q \in PopsOf(i) THEN Tail(queue[q])
                      ELSE IF q \in PushesOf(i) THEN Append(queue[q], destination(q))
                      ELSE queue[q]]

Sorting == undefined = "none" /\ done < Len(group) /\ UNCHANGED group

NothingToPop(i) == \E q \in PopsOf(i) : queue[q] = << >>
NoIndex(i) ==
    LET m == module_type(i.name) IN m \in Modules /\ current(i) \notin 1 .. Nr[m]

\* Mutant: what is of no other type is listed with the compute instructions.
listed_by_elimination(i) ==
    LET m == IF module_type(i.name) \in Modules THEN module_type(i.name) ELSE "COMPUTE"
    IN  [list EXCEPT ![m][current(i)] = Append(@, done + 1)]

\* An instruction of no type has taken its tokens and its turn, and is left
\* out: the code prints ERROR! and goes on.
listed(i) ==
    LET m == module_type(i.name)
    IN  IF m \in Modules THEN [list EXCEPT ![m][current(i)] = Append(@, done + 1)] ELSE list

sort_instruction ==
    /\ Sorting /\ ~ NothingToPop(I) /\ ~ NoIndex(I)
    /\ set' = Append(set, [current |-> current(I),
                           source1 |-> source(Source1(I)), source2 |-> source(Source2(I)),
                           destination1 |-> destination(Destination1(I)),
                           destination2 |-> destination(Destination2(I))])
    /\ queue' = exchange(I)
    /\ list' = listed(I)
    /\ counter' = counters(I)
    /\ done' = done + 1
    /\ UNCHANGED undefined

\* Undefined behaviour: what follows is not modelled.
sort_fault ==
    /\ Sorting
    /\ NothingToPop(I) \/ NoIndex(I)
    /\ undefined' = IF NothingToPop(I) THEN "empty" ELSE "index"
    /\ UNCHANGED <<done, counter, queue, set, list>>

SortNext == sort_instruction \/ sort_fault

SortSpec == SortInit /\ [][SortNext]_sort_vars

-----------------------------------------------------------------------------
SettingType == [current : Nat, source1 : Nat, source2 : Nat, destination1 : Nat, destination2 : Nat]

SortTypeOK ==
    /\ group \in Seq(InstructionRow)
    /\ done \in 0 .. Len(group)
    /\ counter \in [Modules -> Nat]
    /\ queue \in [Queues -> Seq(Nat)]
    /\ set \in Seq(SettingType) /\ Len(set) = done
    /\ list = [m \in Modules |-> list[m]]
    /\ \A m \in Modules : list[m] \in [1 .. Nr[m] -> Seq(1 .. done)]
    /\ undefined \in {"none", "empty", "index"}

(* Properties. *)

Occurs(m, p, n) == {k \in DOMAIN list[m][p] : list[m][p][k] = n}

\* Every sorted instruction of a known type is in one list, once: that of the
\* pipeline it was given; one of an unknown name is in none; and every
\* pipeline is in program order.
EachOnce ==
    /\ \A n \in 1 .. done, m \in Modules : \A p \in 1 .. Nr[m] :
          Cardinality(Occurs(m, p, n)) =
              IF m = module_type(group[n].name) /\ p = set[n].current THEN 1 ELSE 0
    /\ \A m \in Modules : \A p \in 1 .. Nr[m] : \A j, k \in DOMAIN list[m][p] :
          j < k => list[m][p][j] < list[m][p][k]

\* What makes it inductive: a list holds the instructions it should.
Listed ==
    \A m \in Modules : \A p \in 1 .. Nr[m] :
        /\ \A n \in 1 .. done :
              (\E k \in DOMAIN list[m][p] : list[m][p][k] = n)
                  <=> m = module_type(group[n].name) /\ p = set[n].current
        /\ \A j, k \in DOMAIN list[m][p] : j < k => list[m][p][j] < list[m][p][k]

\* The instructions of module m dealt out since the last FINISH before n.
DealtBefore(m, n) ==
    {k \in 1 .. n - 1 : /\ group[k].module = m /\ Deals(group[k])
                        /\ \A f \in k .. n - 1 : group[f].name # "FINISH"}
Turn(m, n) == (Cardinality(DealtBefore(m, n)) % Nr[m]) + 1

\* The pipelines take turns: between two FINISHes no pipeline is given a
\* second instruction before each has been given one.
InTurn ==
    \A n \in 1 .. done : Given(group[n]) => set[n].current = Turn(group[n].module, n)

\* What makes it inductive: it is so of the counters.
CountersTurn == \A m \in Modules : counter[m] = Turn(m, done + 1)

\* The sorted instructions that pop, or push, a queue; the place of the n-th
\* instruction among them; and the number a token was taken, or sent, by.
Popping(q)  == {n \in 1 .. done : q \in PopsOf(group[n])}
Pushing(q)  == {n \in 1 .. done : q \in PushesOf(group[n])}
Rank(n, S)  == Cardinality({k \in S : k <= n})
Taken(n, q) == IF q = Source2(group[n]) THEN set[n].source2 ELSE set[n].source1
Sent(n, q)  == IF q = Destination2(group[n]) THEN set[n].destination2 ELSE set[n].destination1

\* The k-th pop of a queue is given the number its k-th push was given,
\* whatever was pushed and popped in between.
PopsMeetPushes ==
    \A q \in Queues : \A a \in Popping(q) :
        \E b \in Pushing(q) :
            /\ b < a
            /\ Rank(b, Pushing(q)) = Rank(a, Popping(q))
            /\ Taken(a, q) = Sent(b, q)

\* What makes it inductive: in a queue wait the numbers of the pushes that no
\* pop has met, in order.
QueuesWait ==
    \A q \in Queues :
        /\ Cardinality(Pushing(q)) = Cardinality(Popping(q)) + Len(queue[q])
        /\ \A k \in 1 .. Len(queue[q]) :
              \E b \in Pushing(q) : /\ Rank(b, Pushing(q)) = Cardinality(Popping(q)) + k
                                    /\ Sent(b, q) = queue[q][k]

\* Up to the n-th instruction every pop has a push before it.
Balanced(n) ==
    \A m \in 1 .. n, q \in Queues :
        Cardinality({k \in 1 .. m : q \in PopsOf(group[k])})
            <= Cardinality({k \in 1 .. m - 1 : q \in PushesOf(group[k])})

\* An empty queue is popped exactly when the file is to blame.  An index is out
\* of range only for a row of a known name whose module is not that of its
\* name, or for a STORE that does not pop or a NOP-STORE-STAGE that does not
\* push: no counter ever leaves the pipelines of its module, and a row of an
\* unknown name is not looked up at all.
FaultsEarned ==
    /\ Balanced(done)
    /\ undefined = "empty" => ~ Balanced(done + 1)
    /\ undefined = "index" =>
          LET i == group[done + 1]
          IN  /\ module_type(i.name) \in Modules
              /\ i.module # module_type(i.name) \/ (Stores(i) /\ ~ Deals(i))

\* The inductive invariant.
SortInv == SortTypeOK /\ Listed /\ InTurn /\ CountersTurn /\ PopsMeetPushes /\ QueuesWait /\ FaultsEarned

-----------------------------------------------------------------------------
(* What the documentation says and the code does not do (see README.md). *)

\* "An instruction's `pop_prev`/`pop_next`/`push_prev`/`push_next` flags
\* control whether it must wait for (pop) or send (push) a dependency token"
\* (README.md:143): each push flag is given a destination.
EveryPushSent ==
    \A n \in 1 .. done :
        group[n].module = "COMPUTE" =>
            /\ group[n].push_prev => set[n].destination1 # 0
            /\ group[n].push_next => set[n].destination2 # 0
=============================================================================
