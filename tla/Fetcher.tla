------------------------------ MODULE Fetcher -------------------------------
(***************************************************************************)
(* The Fetcher and the ARM host that triggers it (fetcher.cpp, arm.cpp).    *)
(* On each trigger the Fetcher loads the instructions of the next layer;    *)
(* it sends them one at a time, in order, each to the instruction queue of  *)
(* its module, and fetches the next one only after the end pulse.           *)
(***************************************************************************)
EXTENDS SystemC

VARIABLES
    program,    \* keys and encoded_splited_instructions, fixed by the parser
    fetcher,    \* the fields of the Fetcher
    arm         \* ARM::out_signal

Code == program.code
Mod(i) == Code[i].mod

FetcherInit ==
    /\ fetcher = [current_layer |-> 0, instructions |-> << >>, type |-> "Load",
                  part |-> << >>, vld_state |-> [q \in InstrQueues |-> FALSE],
                  end_state |-> [q \in InstrQueues |-> FALSE]]
    /\ arm = FALSE

\* The pcs of the instructions of layer k.
LayerInstructions(k) ==
    LET first == IF k = 1 THEN 1 ELSE program.layerEnd[k - 1] + 1
    IN  [j \in 1 .. program.layerEnd[k] - first + 1 |-> first + j - 1]

in_trig_handler ==
    /\ Execute(<<"Fetcher", "in_trig">>, Nothing, Notify(<<"Fetcher", "load_layer">>, 0))
    /\ UNCHANGED fetcher

load_layer_instructions ==
    LET over == fetcher.current_layer = Len(program.layerEnd)
    IN  /\ Execute(<<"Fetcher", "load_layer">>, Nothing,
                   NotifyIf(~ over, <<"Fetcher", "load">>, 1))
        /\ IF over THEN UNCHANGED fetcher
           ELSE fetcher' = [fetcher EXCEPT
                    !.instructions = @ \o LayerInstructions(fetcher.current_layer + 1),
                    !.current_layer = @ + 1]

load_instruction ==
    LET some == fetcher.instructions # << >>
        i    == Head(fetcher.instructions)
    IN  /\ Execute(<<"Fetcher", "load">>, Nothing, NotifyIf(some, <<"Fetcher", "send">>, 5))
        /\ IF some
           THEN fetcher' = [fetcher EXCEPT
                    !.instructions = Tail(@), !.type = Mod(i),
                    !.part = <<<<i, 1>>, <<i, 2>>>>]
           ELSE UNCHANGED fetcher

send_instruction ==
    LET q == InstrQueue[fetcher.type]
    IN  /\ Execute(<<"Fetcher", "send">>, Nothing, Notify(<<q, "activate_push_vld">>, 1))
        /\ fetcher' = [fetcher EXCEPT !.vld_state[q] = TRUE]

activate_queue_vld_handler(q) ==
    /\ Execute(<<q, "activate_push_vld">>, <<q, "in_vld">> :> fetcher.vld_state[q], {})
    /\ UNCHANGED fetcher

activate_queue_end_handler(q) ==
    LET ending == fetcher.end_state[q]
    IN  /\ Execute(<<q, "activate_push_end">>, <<q, "in_end">> :> ending,
                   NotifyIf(ending, <<q, "activate_push_end">>, 1)
                     \cup NotifyIf(ending, <<q, "activate_push_vld">>, 0)
                     \cup NotifyIf(ending, <<"Fetcher", "load">>, 1))
        /\ fetcher' = [fetcher EXCEPT
               !.end_state[q] = FALSE,
               !.vld_state[q] = IF ending THEN FALSE ELSE @]

queue_rdy_handler(q) ==
    /\ Execute(<<q, "in_rdy">>, Nothing, Notify(<<q, "write_push_data">>, 0))
    /\ UNCHANGED fetcher

\* front() and erase(begin()) of an empty vector are undefined behaviour.
write_data_handler(q) ==
    LET more == Len(fetcher.part) > 1
    IN  IF fetcher.part = << >>
        THEN Abort(<<q, "write_push_data">>, "empty") /\ UNCHANGED fetcher
        ELSE /\ Execute(<<q, "write_push_data">>, <<q, "in_data">> :> Head(fetcher.part),
                        Notify(<<q, IF more THEN "write_push_data" ELSE "activate_push_end">>, 1))
             /\ fetcher' = [fetcher EXCEPT
                    !.part = Tail(@), !.end_state[q] = ~ more \/ @]

FetcherNext ==
    \/ in_trig_handler
    \/ load_layer_instructions
    \/ load_instruction
    \/ send_instruction
    \/ \E q \in InstrQueues :
          \/ activate_queue_vld_handler(q)
          \/ activate_queue_end_handler(q)
          \/ queue_rdy_handler(q)
          \/ write_data_handler(q)

\* ARM: one pulse of arm_fetcher_trig when the simulation starts, and one for
\* every pulse the compute module raises on FINISH.
arm_in_trig_handler ==
    /\ Execute(<<"ARM", "in_trig">>, Nothing, Notify(<<"ARM", "send_signal">>, 1))
    /\ arm' = TRUE

arm_send_signal_handler ==
    /\ Execute(<<"ARM", "send_signal">>, <<"Fetcher", "in_trig">> :> arm,
               NotifyIf(arm, <<"ARM", "send_signal">>, 1))
    /\ arm' = FALSE

ARMNext == arm_in_trig_handler \/ arm_send_signal_handler
=============================================================================
