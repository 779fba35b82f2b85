------------------------------- MODULE Queue --------------------------------
(***************************************************************************)
(* The Queue SystemC module (queue.h, queue.cpp): a FIFO of 64-bit words    *)
(* with a vld/rdy/data/end handshake on each side.  The same class holds    *)
(* instructions, two words each, and dependency tokens, one word each.      *)
(*                                                                          *)
(* A word of an instruction queue is <<i, h>>, half h of instruction i.  A   *)
(* token is the position of the instruction that pushed it.  (The code      *)
(* writes get_pc(), which is 0 for every decoded instruction: nobody reads  *)
(* a token's value, and here it is what tells tokens apart.)  Instructions  *)
(* are numbered from 1: the 0 a bus carries before it is written is none.   *)
(***************************************************************************)
EXTENDS SystemC

VARIABLE queue      \* the fields of the seven Queue objects

QueueInit ==
    queue = [q \in Queues |->
        [data |-> << >>, part |-> << >>, out_parts |-> 0,
         in_rdy_state |-> FALSE, out_vld_state |-> FALSE, out_end_state |-> FALSE]]

Size(q) == Len(queue[q].data)

\* Mutant: accepts one transfer too many.
in_vld_off_by_one(q) ==
    LET room == Size(q) <= capacity
    IN  /\ Execute(<<q, "in_vld">>, Nothing,
                   NotifyIf(room, <<q, "activate_in_rdy">>, 1))
        /\ queue' = [queue EXCEPT ![q].in_rdy_state = room \/ @]

\* Positive edge of in_vld: accept when there is room, else stay silent until
\* write_out_data makes some.
in_vld_handler(q) ==
    LET room == Size(q) < capacity
    IN  /\ Execute(<<q, "in_vld">>, Nothing,
                   NotifyIf(room, <<q, "activate_in_rdy">>, 1))
        /\ queue' = [queue EXCEPT ![q].in_rdy_state = room \/ @]

\* Mutant: in_rdy stays up after the end pulse.
in_end_keeps_rdy(q) ==
    /\ Execute(<<q, "in_end">>, Nothing, Notify(<<q, "activate_in_rdy">>, 0))
    /\ UNCHANGED queue

in_end_handler(q) ==
    /\ Execute(<<q, "in_end">>, Nothing, Notify(<<q, "activate_in_rdy">>, 0))
    /\ queue' = [queue EXCEPT ![q].in_rdy_state = FALSE]

out_rdy_handler(q) ==
    /\ Execute(<<q, "out_rdy">>, Nothing, Notify(<<q, "write_out_data">>, 0))
    /\ queue' = [queue EXCEPT ![q].out_parts = IF q \in InstrQueues THEN 0 ELSE @]

activate_in_rdy_handler(q) ==
    /\ Execute(<<q, "activate_in_rdy">>, <<q, "in_rdy">> :> queue[q].in_rdy_state,
               NotifyIf(queue[q].in_rdy_state, <<q, "read_in_data">>, 1))
    /\ UNCHANGED queue

activate_out_vld_handler(q) ==
    /\ Execute(<<q, "activate_out_vld">>, <<q, "out_vld">> :> queue[q].out_vld_state, {})
    /\ UNCHANGED queue

\* Mutant: out_vld goes down although words are left.
activate_out_end_forgets(q) ==
    LET ending == queue[q].out_end_state
    IN  /\ Execute(<<q, "activate_out_end">>, <<q, "out_end">> :> ending,
                   NotifyIf(ending, <<q, "activate_out_end">>, 1)
                     \cup NotifyIf(ending, <<q, "activate_out_vld">>, 0))
        /\ queue' = [queue EXCEPT
               ![q].out_end_state = FALSE, ![q].out_vld_state = @ /\ ~ ending]

\* The end pulse.  out_vld is asked to drop and, when words are left, to rise
\* again 1 ns later: two notifications of one event, of which the kernel keeps
\* the first, by which time out_vld_state is already back at true.
activate_out_end_handler(q) ==
    LET ending == queue[q].out_end_state
    IN  /\ Execute(<<q, "activate_out_end">>, <<q, "out_end">> :> ending,
                   NotifyIf(ending, <<q, "activate_out_end">>, 1)
                     \cup NotifyIf(ending, <<q, "activate_out_vld">>, 0)
                     \cup NotifyIf(ending /\ Size(q) > 0, <<q, "activate_out_vld">>, 1))
        /\ queue' = [queue EXCEPT
               ![q].out_end_state = FALSE,
               ![q].out_vld_state = IF ending THEN Size(q) > 0 ELSE @]

\* The front word goes out, as the parts-th of its transfer; restart says
\* whether in_rdy is raised again for a producer left waiting.
WordOut(q, parts, last, restart) ==
    /\ Execute(<<q, "write_out_data">>,
               <<q, "out_data">> :> Head(queue[q].data),
               NotifyIf(~ last, <<q, "write_out_data">>, 1)
                 \cup NotifyIf(restart, <<q, "activate_in_rdy">>, 1)
                 \cup NotifyIf(last, <<q, "activate_out_end">>, 1))
    /\ queue' = [queue EXCEPT
           ![q].data = Tail(@),
           ![q].out_parts = IF q \in InstrQueues THEN parts ELSE @,
           ![q].in_rdy_state = restart \/ @,
           ![q].out_end_state = last \/ @]

\* The queue was full before the transfer started.
WasFull(q, parts) ==
    IF q \in TokenQueues THEN Size(q) = capacity ELSE Size(q) - 1 + parts = capacity

\* Mutant: nobody restarts a producer that found the queue full.
write_out_data_without_restart(q) ==
    LET parts == queue[q].out_parts + 1
        last  == q \in TokenQueues \/ parts >= 2
    IN  Size(q) > 0 /\ WordOut(q, parts, last, FALSE)

\* Mutant: the restart does not look whether a producer waits.
write_out_data_without_vld(q) ==
    LET parts == queue[q].out_parts + 1
        last  == q \in TokenQueues \/ parts >= 2
    IN  Size(q) > 0 /\ WordOut(q, parts, last, last /\ WasFull(q, parts))

\* The last word of a transfer starts the end pulse, and restarts a producer
\* that found the queue full and still holds in_vld.  front() of an empty
\* std::queue is undefined behaviour.
write_out_data_handler(q) ==
    LET parts == queue[q].out_parts + 1
        last  == q \in TokenQueues \/ parts >= 2
    IN  IF Size(q) = 0
        THEN Abort(<<q, "write_out_data">>, "empty") /\ UNCHANGED queue
        ELSE WordOut(q, parts, last, last /\ WasFull(q, parts) /\ High(<<q, "in_vld">>))

\* One word comes in, if in_vld is still up.  The two halves of an
\* instruction are stored together.
read_in_data_handler(q) ==
    LET words == Append(queue[q].part, sig[<<q, "in_data">>])
        whole == q \in TokenQueues \/ Len(words) = 2
    IN  IF ~ High(<<q, "in_vld">>)
        THEN Execute(<<q, "read_in_data">>, Nothing, {}) /\ UNCHANGED queue
        ELSE /\ Execute(<<q, "read_in_data">>, Nothing,
                        Notify(<<q, IF whole THEN "activate_out_vld" ELSE "read_in_data">>, 1))
             /\ queue' = [queue EXCEPT
                    ![q].part = IF whole THEN << >> ELSE words,
                    ![q].data = IF whole THEN @ \o words ELSE @,
                    ![q].out_vld_state = whole \/ @]

QueueNext(q) ==
    \/ in_vld_handler(q)
    \/ in_end_handler(q)
    \/ out_rdy_handler(q)
    \/ activate_in_rdy_handler(q)
    \/ activate_out_vld_handler(q)
    \/ activate_out_end_handler(q)
    \/ write_out_data_handler(q)
    \/ read_in_data_handler(q)
=============================================================================
