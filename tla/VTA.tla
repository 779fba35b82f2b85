-------------------------------- MODULE VTA ---------------------------------
(***************************************************************************)
(* The whole simulator: ARM, Fetcher, the three execution modules and the   *)
(* seven queues, wired as in VTA::VTA and run by the SystemC kernel, from   *)
(* the start of sc_start() to its return.                                   *)
(***************************************************************************)
EXTENDS Stages, Queue

CONSTANT Programs       \* the programs simulated

VARIABLES
    \* History, read by the properties only: what the words and tokens that
    \* moved so far amount to.
    fetched,    \* instructions the instruction queues have received
    issued,     \* per module, the instruction that left its queue, until it retires
    pulled,     \* per module, the queues that gave it a token since then
    pushed,     \* per module, the queues that took its token since then
    triggers    \* triggers raised and not yet served

history == <<fetched, issued, pulled, pushed, triggers>>
stages  == <<module, pull, push, out_signal>>
vars    == <<kernel, program, queue, fetcher, arm, stages, history>>

\* The SC_METHOD VTA::start, the one method that runs at initialization.
start ==
    /\ Execute(<<"VTA", "start">>, Nothing,
               {<<<<m, "fetch">>, 0>> : m \in Modules} \cup Notify(<<"ARM", "send_signal">>, 1))
    /\ arm' = TRUE
    /\ UNCHANGED <<queue, fetcher, stages>>

Process ==
    \/ start
    \/ ARMNext /\ UNCHANGED <<queue, fetcher, stages>>
    \/ FetcherNext /\ UNCHANGED <<queue, arm, stages>>
    \/ LoadModule /\ UNCHANGED <<queue, fetcher, arm>>
    \/ ComputeModule /\ UNCHANGED <<queue, fetcher, arm>>
    \/ StoreModule /\ UNCHANGED <<queue, fetcher, arm>>
    \/ (\E q \in Queues : QueueNext(q)) /\ UNCHANGED <<fetcher, arm, stages>>

Grew(q)   == Len(queue'[q].data) > Len(queue[q].data)
Shrank(q) == Len(queue'[q].data) < Len(queue[q].data)
Left(m)   == Current(m) # Null /\ module'[m].current = Null

Observe ==
    /\ fetched' = fetched + (IF \E q \in InstrQueues : Grew(q) THEN 1 ELSE 0)
    /\ issued' = [m \in Modules |->
          LET q == InstrQueue[m] IN
          IF Left(m) THEN Null
          ELSE IF Shrank(q) /\ Head(queue[q].data)[2] = 2 THEN Head(queue[q].data)[1]
          ELSE issued[m]]
    /\ pulled' = [m \in Modules |->
          IF Left(m) THEN {} ELSE pulled[m] \cup {q \in PopPorts(m) : Shrank(q)}]
    /\ pushed' = [m \in Modules |->
          IF Left(m) THEN {} ELSE pushed[m] \cup {q \in PushPorts(m) : Grew(q)}]
    /\ LET raised == out_signal' /\ ~ out_signal
           served == <<"Fetcher", "load_layer">> \in runnable \ runnable'
       IN  triggers' = IF raised THEN triggers + 1
                       ELSE IF served THEN triggers - 1 ELSE triggers

Init ==
    /\ program \in Programs
    /\ KernelInit /\ QueueInit /\ FetcherInit /\ ModuleInit /\ StagesInit
    /\ fetched = 0
    /\ issued = [m \in Modules |-> Null]
    /\ pulled = [m \in Modules |-> {}]
    /\ pushed = [m \in Modules |-> {}]
    /\ triggers = 1

Next ==
    /\ \/ Process /\ Observe
       \/ (Delta \/ Advance) /\ UNCHANGED <<queue, fetcher, arm, stages, history>>
    /\ UNCHANGED program

\* sc_start() has returned.
Returned == Starved /\ UNCHANGED vars

\* The kernel never idles while a method, an update or a notification is due.
Spec == Init /\ [][Next \/ Returned]_vars /\ WF_vars(Next)

-----------------------------------------------------------------------------
(* The abstract pipeline behind the signals. *)

\* An instruction is in its queue as long as its second word is.
Waiting(m) == [k \in 1 .. Len(SelectSeq(queue[InstrQueue[m]].data, LAMBDA w : w[2] = 2)) |->
                 SelectSeq(queue[InstrQueue[m]].data, LAMBDA w : w[2] = 2)[k][1]]

Scheduled(e) == e \in runnable \cup DOMAIN pending

StageOf(m) ==
    IF issued[m] = Null THEN "idle"
    ELSE IF module[m].result THEN "push"
    ELSE IF Scheduled(<<m, "finish">>) THEN "run"
    ELSE "pull"

Pipe == INSTANCE Pipeline WITH
    layer   <- fetcher.current_layer,
    iqueue  <- [m \in Modules |-> Waiting(m)],
    current <- issued,
    stage   <- [m \in Modules |-> StageOf(m)],
    tokens  <- [q \in TokenQueues |-> queue[q].data]

-----------------------------------------------------------------------------
(* Properties. *)

\* The signal-level simulator does nothing the pipeline would not: each step
\* of a method is a step of Pipeline or changes nothing it sees.  Hence every
\* instruction reaches its module, once and in order; a module starts only
\* with the tokens its instruction pops; exactly one token of an instruction
\* goes to each queue it feeds; layers follow one another.
ImplementsPipeline == Pipe!Spec

\* No method follows the null current of an idle module, takes the front of
\* an empty queue, or decodes two words that are not one instruction; and no
\* queue, whose room is checked a nanosecond before a word is read, ever holds
\* more than its capacity.
NoFault == fault = "none" /\ \A q \in Queues : Size(q) <= capacity

\* A queue raises in_rdy only to a producer that is asking, and only with
\* room for all it sends: one token, or both words of an instruction.  (The
\* decision is taken 1 ns before, in in_vld_handler or write_out_data_handler.)
RdyMeansRoom ==
    [][\A q \in Queues :
         ~ High(<<q, "in_rdy">>) /\ sig'[<<q, "in_rdy">>]
           => /\ High(<<q, "in_vld">>)
              /\ Size(q) + (IF q \in InstrQueues THEN 2 ELSE 1) <= capacity]_vars

\* No instruction has two tokens in a queue: the push flags of an instruction
\* control whether it sends "a dependency token" (README.md:143-144).
OneTokenPerInstruction ==
    \A q \in TokenQueues : \A j, k \in DOMAIN queue[q].data :
        j # k => queue[q].data[j] # queue[q].data[k]

\* When the simulation ends every handshake is over: all wires are low but
\* the out_vld of the queues in which tokens nobody pops are left.
HandshakesEnd ==
    Starved /\ fault = "none" =>
        \A s \in Wires :
            High(s) <=> s[2] = "out_vld" /\ queue[s[1]].data # << >>

Complete ==
    /\ fetched = Len(Code)
    /\ \A m \in Modules : issued[m] = Null /\ Current(m) = Null
    /\ \A q \in InstrQueues : queue[q].data = << >>

\* Every simulation of a balanced program ends, with every instruction of
\* every layer executed: no module is left waiting for a token that was sent,
\* for room in a queue that has been drained, or for an instruction.
Completes == <>(Complete /\ Starved)
=============================================================================
