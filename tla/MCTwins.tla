------------------------------ MODULE MCTwins -------------------------------
(* Twins on the programs of ProgramSets.  In Race(118) a token is taken in   *)
(* the nanosecond in which the next one fills the queue, and the order of   *)
(* the two decides whether that one is stored twice: the defect             *)
(* vta_full_token_queue shows, and the one exception found.                 *)
EXTENDS Twins, ProgramSets

TwinPrograms ==
    AllPrograms(2, {15, 180}) \cup {Tiles, DoublePush}
      \cup {Race(x) : x \in 80 .. 130 \ {118}}
=============================================================================
