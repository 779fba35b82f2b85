------------------------------ MODULE Topology ------------------------------
(***************************************************************************)
(* The static structure of the simulator: the three execution modules, the *)
(* seven queues that VTA::VTA wires between them, and instructions.  Every  *)
(* other module of the project speaks this vocabulary.                      *)
(*                                                                          *)
(* A program is what the parser hands to the Fetcher, with the contents of  *)
(* the encoded words abstracted to what control depends on: the module the  *)
(* instruction is routed to, its four dependency flags, whether it is       *)
(* FINISH, and how long it runs.  Instructions are named by their position  *)
(* in the concatenation of all layers; layerEnd[k] is the position of the   *)
(* last instruction of layer k.                                             *)
(***************************************************************************)
EXTENDS Naturals, Sequences, FiniteSets

CONSTANT capacity       \* Queue::capacity, in words (128 in the code)

Modules     == {"Load", "Compute", "Store"}
TokenQueues == {"l2c", "c2l", "s2c", "c2s"}
InstrQueues == {"li", "ci", "si"}
Queues      == TokenQueues \cup InstrQueues

\* The instruction queue each module reads from.
InstrQueue == [m \in Modules |->
    CASE m = "Load" -> "li" [] m = "Compute" -> "ci" [] m = "Store" -> "si"]

\* The module at the output of each queue.
Consumer == [q \in Queues |->
    CASE q \in {"c2l", "li"}        -> "Load"
      [] q \in {"l2c", "s2c", "ci"} -> "Compute"
      [] q \in {"c2s", "si"}        -> "Store"]

\* The module at the input of each token queue (the Fetcher feeds the others).
Producer == [q \in TokenQueues |->
    CASE q = "l2c" -> "Load" [] q \in {"c2l", "c2s"} -> "Compute" [] q = "s2c" -> "Store"]

\* Which flag of the consumer, and of the producer, governs a token queue.
PopFlag  == [q \in TokenQueues |-> IF q \in {"c2l", "s2c"} THEN "next" ELSE "prev"]
PushFlag == [q \in TokenQueues |-> IF q \in {"l2c", "c2s"} THEN "next" ELSE "prev"]

PopPorts(m)  == {q \in TokenQueues : Consumer[q] = m}
PushPorts(m) == {q \in TokenQueues : Producer[q] = m}

Sides == {"prev", "next"}
Instruction == [mod: Modules, pop: SUBSET Sides, push: SUBSET Sides,
                finish: BOOLEAN, latency: Nat]

\* The token queues an instruction waits on before it runs and feeds after:
\* Load has only a next neighbour and Store only a previous one, and FINISH
\* returns from finalize_instruction before its push flags are looked at.
Pops(i)   == {q \in PopPorts(i.mod) : PopFlag[q] \in i.pop}
Pushes(i) == IF i.finish THEN {} ELSE {q \in PushPorts(i.mod) : PushFlag[q] \in i.push}

\* Programs as the parser leaves them.
Program == [code: Seq(Instruction), layerEnd: Seq(Nat)]

(***************************************************************************)
(* What the rest of the simulator needs of a program: every layer ends with *)
(* a FINISH, which runs on the compute module, and FINISH appears nowhere   *)
(* else.  (With a FINISH inside a layer the Fetcher would load the next     *)
(* layer while still sending this one.)                                     *)
(***************************************************************************)
WellFormed(p) ==
    /\ p \in Program
    /\ Len(p.layerEnd) > 0 /\ p.layerEnd[Len(p.layerEnd)] = Len(p.code)
    /\ \A k \in DOMAIN p.layerEnd : p.layerEnd[k] \in 1 .. Len(p.code)
    /\ \A j, k \in DOMAIN p.layerEnd : j < k => p.layerEnd[j] < p.layerEnd[k]
    /\ \A i \in DOMAIN p.code :
          /\ p.code[i].finish <=> \E k \in DOMAIN p.layerEnd : i = p.layerEnd[k]
          /\ p.code[i].finish => p.code[i].mod = "Compute"

\* How many of the first n instructions of code s push, or pop, queue q.
Pushed(s, q, n) == Cardinality({i \in 1 .. n : q \in Pushes(s[i])})
Popped(s, q, n) == Cardinality({i \in 1 .. n : q \in Pops(s[i])})

(***************************************************************************)
(* Run one instruction at a time, in program order, the code never waits    *)
(* for a token that is not there nor for room in a full queue.              *)
(***************************************************************************)
Balanced(s) ==
    \A q \in TokenQueues, n \in 1 .. Len(s) :
        /\ Popped(s, q, n) <= Pushed(s, q, n - 1)
        /\ Pushed(s, q, n) <= Popped(s, q, n) + capacity

ASSUME CapacityAssumption == capacity \in Nat /\ capacity > 0 /\ capacity % 2 = 0
=============================================================================
