----------------------------- MODULE ProgramSets ----------------------------
(* Programs for the model-checking modules. *)
EXTENDS Topology, FiniteSets

Instr0(m, pops, pushes, latency) ==
    [mod |-> m, pop |-> pops, push |-> pushes, finish |-> FALSE, latency |-> latency]
L(pops, pushes, latency) == Instr0("Load", pops, pushes, latency)
C(pops, pushes, latency) == Instr0("Compute", pops, pushes, latency)
S(pops, pushes, latency) == Instr0("Store", pops, pushes, latency)
FINISH == [mod |-> "Compute", pop |-> {}, push |-> {}, finish |-> TRUE, latency |-> 10]

\* The program whose layers end where the FINISHes of s are.
Layered(s) == [code |-> s, layerEnd |-> SelectSeq([k \in 1 .. Len(s) |-> k], LAMBDA k : s[k].finish)]

\* Every instruction, over the flags its module looks at.
Flagged(latency) ==
    {L(a, b, latency) : a \in SUBSET {"next"}, b \in SUBSET {"next"}}
      \cup {S(a, b, latency) : a \in SUBSET {"prev"}, b \in SUBSET {"prev"}}
      \cup {C(a, b, 100) : a \in SUBSET Sides, b \in SUBSET Sides}

\* Every balanced one-layer program of n instructions and a FINISH.
AllPrograms(n, latencies) ==
    LET codes == [1 .. n -> UNION {Flagged(l) : l \in latencies}]
    IN  {Layered(Append(s, FINISH)) : s \in {c \in codes : Balanced(c)}}

\* Two layers; in the first, two tiles go through the pipeline with every
\* dependency flag in use, in the second the store waits for the compute.
Tiles == Layered(<<
    L({}, {"next"}, 15),
    C({"prev"}, {"prev", "next"}, 100),
    S({"prev"}, {"prev"}, 15),
    L({"next"}, {"next"}, 180),
    C({"prev", "next"}, {"next"}, 100),
    S({"prev"}, {}, 180),
    FINISH,
    C({}, {"next"}, 115),
    S({"prev"}, {}, 15),
    FINISH>>)

\* n times instruction i.
Times(n, i) == [k \in 1 .. n |-> i]

\* In each of these a producer runs ahead of its consumer by more tokens than
\* a queue of two holds, and the Fetcher ahead of a module by more than one
\* instruction.
AheadPrograms == {
    Layered(Times(4, L({}, {"next"}, 15)) \o Times(4, C({"prev"}, {}, 180)) \o <<FINISH>>),
    Layered(Times(4, C({}, {"prev"}, 100)) \o Times(4, L({"next"}, {}, 580)) \o <<FINISH>>),
    Layered(Times(4, C({}, {"next"}, 100)) \o Times(4, S({"prev"}, {}, 580)) \o <<FINISH>>),
    Layered(Times(4, S({}, {"prev"}, 15)) \o Times(4, C({"next"}, {}, 180)) \o <<FINISH>>)}

\* Compute takes its first token x + 8 ns into the layer, about when Load
\* fills a queue of four.
Race(x) == Layered(
    <<C({}, {}, x), C({"prev"}, {}, 100), L({}, {}, 15)>> \o Times(4, L({}, {"next"}, 15))
      \o Times(3, C({"prev"}, {}, 100)) \o <<FINISH>>)

SmallPrograms == AllPrograms(2, {15, 180}) \cup {Tiles, Race(117), Race(119)}
RacePrograms  == {Race(118)}

\* The fourth compute instruction pushes to both sides when c2s is full: its
\* push to c2l is over, and fills c2l, long before the one to c2s.
Both == C({}, {"prev", "next"}, 100)
DoublePush == Layered(<<
    Both, S({"prev"}, {}, 980), L({"next"}, {}, 15),
    Both, L({"next"}, {}, 580),
    Both, S({"prev"}, {}, 15),
    Both, L({"next"}, {}, 15), L({"next"}, {}, 15), S({"prev"}, {}, 15), S({"prev"}, {}, 15),
    FINISH>>)
DoublePrograms == {DoublePush}
=============================================================================
