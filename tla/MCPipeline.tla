------------------------------ MODULE MCPipeline ----------------------------
(* Model-checking Pipeline: all small programs, and some longer ones. *)
EXTENDS Pipeline, ProgramSets

DeepTiles == Layered(<<
    L({}, {"next"}, 0), L({}, {"next"}, 0), C({"prev"}, {"prev", "next"}, 0),
    S({"prev"}, {"prev"}, 0), C({"prev", "next"}, {"prev"}, 0), L({"next"}, {}, 0), FINISH,
    L({"next"}, {"next"}, 0), C({"prev"}, {}, 0), FINISH>>)

\* Three tokens through queues of two: the Load module has to wait.
Ahead == Layered(<<
    L({}, {"next"}, 0), L({}, {"next"}, 0), L({}, {"next"}, 0),
    C({"prev"}, {}, 0), C({"prev"}, {}, 0), C({"prev"}, {}, 0), FINISH>>)

MCPrograms == AllPrograms(3, {0}) \cup {DeepTiles, Ahead}
=============================================================================
