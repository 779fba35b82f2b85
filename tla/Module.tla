------------------------------- MODULE Module -------------------------------
(***************************************************************************)
(* The Module base class (module.cpp): fetching an instruction, two words   *)
(* long, from the module's instruction queue.                               *)
(*                                                                          *)
(* current is the pc of the instruction in execution, 0 for nullptr.        *)
(***************************************************************************)
EXTENDS Fetcher

VARIABLE module     \* the fields of the three Module objects

Null == 0

ModuleInit ==
    module = [m \in Modules |->
        [current |-> Null, part |-> << >>, i_queue_rdy_state |-> FALSE, result |-> FALSE]]

Current(m) == module[m].current

\* Mutant: does not look whether the queue shows an instruction.
fetch_blindly(m) ==
    /\ Execute(<<m, "fetch">>, Nothing, Notify(<<InstrQueue[m], "activate_pull_rdy">>, 1))
    /\ module' = [module EXCEPT ![m].i_queue_rdy_state = TRUE]

fetch_instruction(m) ==
    LET q   == InstrQueue[m]
        vld == High(<<q, "out_vld">>)
    IN  /\ Execute(<<m, "fetch">>, Nothing, NotifyIf(vld, <<q, "activate_pull_rdy">>, 1))
        /\ module' = [module EXCEPT ![m].i_queue_rdy_state = vld \/ @]

i_queue_vld_handler(m) ==
    LET q    == InstrQueue[m]
        idle == Current(m) = Null
    IN  /\ Execute(<<q, "out_vld">>, Nothing, NotifyIf(idle, <<q, "activate_pull_rdy">>, 1))
        /\ module' = [module EXCEPT ![m].i_queue_rdy_state = idle \/ @]

i_queue_end_handler(m) ==
    LET q == InstrQueue[m]
    IN  /\ Execute(<<q, "out_end">>, Nothing, Notify(<<q, "activate_pull_rdy">>, 0))
        /\ module' = [module EXCEPT ![m].i_queue_rdy_state = FALSE]

activate_i_queue_rdy_handler(m) ==
    LET q   == InstrQueue[m]
        rdy == module[m].i_queue_rdy_state
    IN  /\ Execute(<<q, "activate_pull_rdy">>, <<q, "out_rdy">> :> rdy,
                   NotifyIf(rdy, <<q, "read_pull_data">>, 1))
        /\ UNCHANGED module

\* Two words that are not the halves of one instruction decode into neither:
\* the fault "torn" marks the run, which is followed no further.
read_i_queue_data_handler(m) ==
    LET q     == InstrQueue[m]
        e     == <<q, "read_pull_data">>
        words == Append(module[m].part, sig[<<q, "out_data">>])
        i     == words[1][1]
    IN  \/ /\ ~ High(<<q, "out_vld">>)
           /\ Execute(e, Nothing, {})
           /\ UNCHANGED module
        \/ /\ High(<<q, "out_vld">>) /\ Len(words) < 2
           /\ Execute(e, Nothing, Notify(e, 1))
           /\ module' = [module EXCEPT ![m].part = words]
        \/ /\ High(<<q, "out_vld">>) /\ Len(words) = 2
           /\ words = <<<<i, 1>>, <<i, 2>>>>
           /\ Execute(e, Nothing, Notify(<<m, "check_dep">>, 0))
           /\ module' = [module EXCEPT ![m].part = << >>, ![m].current = i]
        \/ /\ High(<<q, "out_vld">>) /\ Len(words) = 2
           /\ words # <<<<i, 1>>, <<i, 2>>>>
           /\ Abort(e, "torn")
           /\ UNCHANGED module

ModuleBase(m) ==
    \/ fetch_instruction(m)
    \/ i_queue_vld_handler(m)
    \/ i_queue_end_handler(m)
    \/ activate_i_queue_rdy_handler(m)
    \/ read_i_queue_data_handler(m)
=============================================================================
