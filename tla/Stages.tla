------------------------------- MODULE Stages -------------------------------
(***************************************************************************)
(* What LoadModule, ComputeModule and StoreModule add to the base class:    *)
(* the life of an instruction from check_dependencies to the end of its     *)
(* pushes, and the handlers of the token ports.  The three classes repeat   *)
(* the same handlers for each neighbour they have; here a handler takes the *)
(* token queue it works on, and the stage actions quantify over the         *)
(* neighbours of the module.  The places where the classes differ are       *)
(* parameters, given in the definitions of the three modules at the end.    *)
(***************************************************************************)
EXTENDS Module

VARIABLES
    pull,       \* per token queue, the fields of the port that pulls from it
    push,       \* per token queue, the fields of the port that pushes to it
    out_signal  \* ComputeModule::out_signal

StagesInit ==
    /\ pull = [q \in TokenQueues |-> [rdy_state |-> FALSE, is_waiting |-> FALSE, data |-> << >>]]
    /\ push = [q \in TokenQueues |-> [vld_state |-> FALSE, end_state |-> FALSE, did_push |-> FALSE]]
    /\ out_signal = FALSE

\* The instruction in execution; only read where Current(m) # Null.
Instr(m) == Code[Current(m)]

\* The pointers that are freed and reset when an instruction leaves.
Retire(m) ==
    /\ module' = [module EXCEPT ![m].current = Null, ![m].result = FALSE]
    /\ pull' = [q \in TokenQueues |->
                  IF q \in PopPorts(m) THEN [pull[q] EXCEPT !.data = << >>] ELSE pull[q]]

\* A method that follows a null current.
NullCurrent(m, e) ==
    /\ Current(m) = Null
    /\ Abort(e, "null")
    /\ UNCHANGED <<module, pull, push, out_signal>>

\* Every token the instruction pops is asked for at once: now if the queue
\* shows one, otherwise when its out_vld rises.
check_dependencies(m) ==
    LET e     == <<m, "check_dep">>
        wants == Pops(Instr(m))
        now   == {q \in wants : High(<<q, "out_vld">>)}
    IN  \/ NullCurrent(m, e)
        \/ /\ Current(m) # Null
           /\ Execute(e, Nothing, NotifyIf(wants = {}, <<m, "dep_received">>, 0)
                          \cup {<<<<q, "activate_pull_rdy">>, 1>> : q \in now})
           /\ pull' = [q \in TokenQueues |->
                 [pull[q] EXCEPT !.rdy_state = q \in now \/ @,
                                 !.is_waiting = q \in wants \ now \/ @]]
           /\ UNCHANGED <<module, push, out_signal>>

\* Mutant: one of two tokens is enough.
receive_any_dependency(m) ==
    /\ Current(m) # Null
    /\ Execute(<<m, "receive_dep">>, Nothing,
          NotifyIf(\E q \in Pops(Instr(m)) : pull[q].data # << >>, <<m, "dep_received">>, 0))
    /\ UNCHANGED <<module, pull, push, out_signal>>

receive_dependencies(m) ==
    LET e     == <<m, "receive_dep">>
        wants == Pops(Instr(m))
    IN  \/ NullCurrent(m, e)
        \/ /\ Current(m) # Null
           /\ Execute(e, Nothing,
                 NotifyIf(wants # {} /\ \A q \in wants : pull[q].data # << >>,
                          <<m, "dep_received">>, 0))
           /\ UNCHANGED <<module, pull, push, out_signal>>

dependencies_received(m) ==
    LET e == <<m, "dep_received">>
    IN  \/ NullCurrent(m, e)
        \/ /\ Current(m) # Null
           /\ Execute(e, Nothing, Notify(<<m, "finish">>, Instr(m).latency))
           /\ UNCHANGED <<module, pull, push, out_signal>>

\* FINISH, in the compute module, leaves at once and signals the ARM; it
\* neither pushes nor asks for the next instruction.
finalize_instruction(m) ==
    LET e    == <<m, "finish">>
        last == m = "Compute" /\ Instr(m).finish
    IN  \/ NullCurrent(m, e)
        \/ /\ Current(m) # Null /\ ~ last
           /\ Execute(e, Nothing, Notify(<<m, "push_dep">>, 0))
           /\ module' = [module EXCEPT ![m].result = TRUE]
           /\ UNCHANGED <<pull, push, out_signal>>
        \/ /\ Current(m) # Null /\ last
           /\ Execute(e, Nothing, Notify(<<m, "send_signal">>, 0))
           /\ Retire(m)
           /\ push' = [q \in TokenQueues |->
                 [push[q] EXCEPT !.did_push = @ /\ q \notin PushPorts(m)]]
           /\ out_signal' = TRUE

push_dependencies(m) ==
    LET e     == <<m, "push_dep">>
        gives == Pushes(Instr(m))
    IN  \/ NullCurrent(m, e)
        \/ /\ Current(m) # Null /\ gives # {}
           /\ Execute(e, Nothing, {<<<<q, "activate_push_vld">>, 1>> : q \in gives})
           /\ push' = [q \in TokenQueues |->
                 [push[q] EXCEPT !.vld_state = q \in gives \/ @]]
           /\ UNCHANGED <<module, pull, out_signal>>
        \/ /\ Current(m) # Null /\ gives = {}
           /\ Execute(e, Nothing, Notify(<<m, "fetch">>, 1))
           /\ Retire(m)
           /\ push' = [q \in TokenQueues |->
                 [push[q] EXCEPT !.did_push = @ /\ q \notin PushPorts(m)]]
           /\ UNCHANGED out_signal

\* Runs after each end pulse.  The vld of every port stays up until the last
\* of the pushes is over, and drops 1 ns after.
dependencies_pushed(m) ==
    LET e     == <<m, "dep_pushed">>
        gives == Pushes(Instr(m))
        over  == \A q \in gives : push[q].did_push
    IN  \/ NullCurrent(m, e)
        \/ /\ Current(m) # Null /\ ~ over
           /\ Execute(e, Nothing, {})
           /\ UNCHANGED <<module, pull, push, out_signal>>
        \/ /\ Current(m) # Null /\ over
           /\ Execute(e, Nothing, Notify(<<m, "fetch">>, 1)
                          \cup {<<<<q, "activate_push_vld">>, 1>> : q \in PushPorts(m)})
           /\ Retire(m)
           /\ push' = [q \in TokenQueues |-> IF q \in PushPorts(m)
                 THEN [push[q] EXCEPT !.vld_state = FALSE, !.did_push = FALSE] ELSE push[q]]
           /\ UNCHANGED out_signal

-----------------------------------------------------------------------------
(* Push ports. *)

activate_push_vld_handler(q) ==
    /\ Execute(<<q, "activate_push_vld">>, <<q, "in_vld">> :> push[q].vld_state, {})
    /\ UNCHANGED push

activate_push_end_handler(q) ==
    LET ending == push[q].end_state
    IN  /\ Execute(<<q, "activate_push_end">>, <<q, "in_end">> :> ending,
                   NotifyIf(ending, <<q, "activate_push_end">>, 1)
                     \cup NotifyIf(ending, <<Producer[q], "dep_pushed">>, 0))
        /\ push' = [push EXCEPT ![q].end_state = FALSE, ![q].did_push = ending \/ @]

push_rdy_handler(q) ==
    /\ Execute(<<q, "in_rdy">>, Nothing, Notify(<<q, "write_push_data">>, 0))
    /\ UNCHANGED push

write_push_data_handler(q) ==
    LET e == <<q, "write_push_data">>
        i == Current(Producer[q])
    IN  \/ /\ i = Null
           /\ Abort(e, "null") /\ UNCHANGED push
        \/ /\ i # Null
           /\ Execute(e, <<q, "in_data">> :> i, Notify(<<q, "activate_push_end">>, 1))
           /\ push' = [push EXCEPT ![q].end_state = TRUE]

PushPort(q) ==
    /\ \/ activate_push_vld_handler(q)
       \/ activate_push_end_handler(q)
       \/ push_rdy_handler(q)
       \/ write_push_data_handler(q)
    /\ UNCHANGED <<module, pull, out_signal>>

(* Pull ports. *)

activate_pull_rdy_handler(q) ==
    /\ Execute(<<q, "activate_pull_rdy">>, <<q, "out_rdy">> :> pull[q].rdy_state,
               NotifyIf(pull[q].rdy_state, <<q, "read_pull_data">>, 1))
    /\ UNCHANGED pull

pull_vld_handler(q) ==
    LET m     == Consumer[q]
        wakes == Current(m) # Null /\ q \in Pops(Instr(m)) /\ pull[q].is_waiting
    IN  /\ Execute(<<q, "out_vld">>, Nothing, NotifyIf(wakes, <<q, "activate_pull_rdy">>, 1))
        /\ pull' = [pull EXCEPT ![q].is_waiting = @ /\ ~ wakes,
                                ![q].rdy_state = wakes \/ @]

read_pull_data_handler(q) ==
    /\ Execute(<<q, "read_pull_data">>, Nothing, {})
    /\ pull' = [pull EXCEPT ![q].data = <<sig[<<q, "out_data">>]>>]

\* drop is the delay after which rdy goes down.
pull_end_handler(q, drop) ==
    /\ Execute(<<q, "out_end">>, Nothing, Notify(<<q, "activate_pull_rdy">>, drop)
                 \cup Notify(<<Consumer[q], "receive_dep">>, 0))
    /\ pull' = [pull EXCEPT ![q].rdy_state = FALSE]

PullPort(q, drop) ==
    /\ \/ activate_pull_rdy_handler(q)
       \/ pull_vld_handler(q)
       \/ read_pull_data_handler(q)
       \/ pull_end_handler(q, drop)
    /\ UNCHANGED <<module, push, out_signal>>

-----------------------------------------------------------------------------
(* The three modules. *)

Stage(m) ==
    \/ check_dependencies(m)
    \/ receive_dependencies(m)
    \/ dependencies_received(m)
    \/ finalize_instruction(m)
    \/ push_dependencies(m)
    \/ dependencies_pushed(m)

Fetch(m) == ModuleBase(m) /\ UNCHANGED <<pull, push, out_signal>>

LoadStage == Stage("Load")
LoadPorts == PushPort("l2c") \/ PullPort("c2l", 1)
LoadModule == Fetch("Load") \/ LoadStage \/ LoadPorts

StoreStage == Stage("Store")
StorePorts == PushPort("s2c") \/ PullPort("c2s", 1)
StoreModule == Fetch("Store") \/ StoreStage \/ StorePorts

send_signal_handler ==
    /\ Execute(<<"Compute", "send_signal">>, <<"ARM", "in_trig">> :> out_signal,
               NotifyIf(out_signal, <<"Compute", "send_signal">>, 1))
    /\ out_signal' = FALSE
    /\ UNCHANGED <<module, pull, push>>

ComputeStage == Stage("Compute")
ComputePorts == \/ PushPort("c2l") \/ PushPort("c2s")
                \/ PullPort("l2c", 0) \/ PullPort("s2c", 1)
ComputeModule == Fetch("Compute") \/ ComputeStage \/ send_signal_handler \/ ComputePorts
=============================================================================
