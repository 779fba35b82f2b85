------------------------------ MODULE Pipeline ------------------------------
(***************************************************************************)
(* What the simulator promises, without signals, events or time.  Each      *)
(* layer is started by a trigger; its instructions go, in program order,    *)
(* into the bounded instruction queue of their module; each module takes    *)
(* its instructions in order, pulls the tokens the instruction pops, runs   *)
(* it, pushes the tokens it pushes, and takes the next one.  FINISH raises  *)
(* the trigger of the next layer.  VTA.tla is the simulator itself; it      *)
(* implements this specification step by step.                              *)
(***************************************************************************)
EXTENDS Topology

CONSTANT Programs       \* the programs considered

ASSUME ProgramsAssumption == \A p \in Programs : WellFormed(p)

VARIABLES
    program,    \* the program being simulated
    layer,      \* layers the Fetcher has loaded
    triggers,   \* triggers on their way to the Fetcher
    fetched,    \* instructions handed to the instruction queues
    iqueue,     \* per module, the instructions waiting in its queue
    current,    \* per module, the instruction taken, 0 for none
    stage,      \* per module, how far that instruction is
    pulled,     \* per module, the queues it has pulled a token from
    pushed,     \* per module, the queues it has pushed its token to
    tokens      \* per token queue, the instructions whose tokens wait in it

vars == <<program, layer, triggers, fetched, iqueue, current, stage, pulled, pushed, tokens>>

Code   == program.code
Mod(i) == Code[i].mod
Loaded == IF layer = 0 THEN 0 ELSE program.layerEnd[layer]

Init ==
    /\ program \in Programs
    /\ layer = 0
    /\ triggers = 1
    /\ fetched = 0
    /\ iqueue = [m \in Modules |-> << >>]
    /\ current = [m \in Modules |-> 0]
    /\ stage = [m \in Modules |-> "idle"]
    /\ pulled = [m \in Modules |-> {}]
    /\ pushed = [m \in Modules |-> {}]
    /\ tokens = [q \in TokenQueues |-> << >>]

\* Mutant: the end of the layers is not checked.
LoadLayerUnchecked ==
    /\ triggers > 0
    /\ triggers' = triggers - 1
    /\ layer' = layer + 1
    /\ UNCHANGED <<program, fetched, iqueue, current, stage, pulled, pushed, tokens>>

\* Mutant: the trigger is not consumed.
LoadLayerAgain ==
    /\ triggers > 0
    /\ layer' = IF layer < Len(program.layerEnd) THEN layer + 1 ELSE layer
    /\ UNCHANGED <<program, triggers, fetched, iqueue, current, stage, pulled, pushed, tokens>>

\* A trigger after the last layer is absorbed.
MayLoad == triggers > 0
LoadLayer ==
    /\ MayLoad
    /\ triggers' = triggers - 1
    /\ layer' = IF layer < Len(program.layerEnd) THEN layer + 1 ELSE layer
    /\ UNCHANGED <<program, fetched, iqueue, current, stage, pulled, pushed, tokens>>

\* Mutant: routed by the type of the instruction before.
FetchMisrouted ==
    LET i == fetched + 1
        m == Mod(IF i = 1 THEN 1 ELSE fetched)
    IN  /\ i <= Loaded
        /\ 2 * Len(iqueue[m]) < capacity
        /\ fetched' = i
        /\ iqueue' = [iqueue EXCEPT ![m] = Append(@, i)]
        /\ UNCHANGED <<program, layer, triggers, current, stage, pulled, pushed, tokens>>

\* An instruction takes two words of its queue.
MayFetch == fetched < Loaded /\ 2 * Len(iqueue[Mod(fetched + 1)]) < capacity
Fetch ==
    LET i == fetched + 1
    IN  /\ MayFetch
        /\ fetched' = i
        /\ iqueue' = [iqueue EXCEPT ![Mod(i)] = Append(@, i)]
        /\ UNCHANGED <<program, layer, triggers, current, stage, pulled, pushed, tokens>>

MayIssue(m) == stage[m] = "idle" /\ iqueue[m] # << >>
Issue(m) ==
    /\ MayIssue(m)
    /\ current' = [current EXCEPT ![m] = Head(iqueue[m])]
    /\ iqueue' = [iqueue EXCEPT ![m] = Tail(@)]
    /\ stage' = [stage EXCEPT ![m] = "pull"]
    /\ UNCHANGED <<program, layer, triggers, fetched, pulled, pushed, tokens>>

MayPull(m, q) ==
    stage[m] = "pull" /\ q \in Pops(Code[current[m]]) \ pulled[m] /\ tokens[q] # << >>
Pull(m, q) ==
    /\ MayPull(m, q)
    /\ tokens' = [tokens EXCEPT ![q] = Tail(@)]
    /\ pulled' = [pulled EXCEPT ![m] = @ \cup {q}]
    /\ UNCHANGED <<program, layer, triggers, fetched, iqueue, current, stage, pushed>>

\* Mutant: one of two tokens is enough.
StartEarly(m) ==
    /\ stage[m] = "pull"
    /\ pulled[m] # {} \/ Pops(Code[current[m]]) = {}
    /\ stage' = [stage EXCEPT ![m] = "run"]
    /\ UNCHANGED <<program, layer, triggers, fetched, iqueue, current, pulled, pushed, tokens>>

MayStart(m) == stage[m] = "pull" /\ pulled[m] = Pops(Code[current[m]])
Start(m) ==
    /\ MayStart(m)
    /\ stage' = [stage EXCEPT ![m] = "run"]
    /\ UNCHANGED <<program, layer, triggers, fetched, iqueue, current, pulled, pushed, tokens>>

\* Mutant: the tokens pulled are not forgotten.
LeaveWithTokens(m) ==
    /\ current' = [current EXCEPT ![m] = 0]
    /\ stage' = [stage EXCEPT ![m] = "idle"]
    /\ pushed' = [pushed EXCEPT ![m] = {}]
    /\ UNCHANGED pulled

Leave(m) ==
    /\ current' = [current EXCEPT ![m] = 0]
    /\ stage' = [stage EXCEPT ![m] = "idle"]
    /\ pulled' = [pulled EXCEPT ![m] = {}]
    /\ pushed' = [pushed EXCEPT ![m] = {}]

\* Mutant: the FINISH of a layer raises no trigger.
FinalizeSilently(m) ==
    /\ stage[m] = "run"
    /\ IF Code[current[m]].finish
       THEN Leave(m)
       ELSE stage' = [stage EXCEPT ![m] = "push"] /\ UNCHANGED <<current, pulled, pushed>>
    /\ UNCHANGED <<program, layer, triggers, fetched, iqueue, tokens>>

MayFinalize(m) == stage[m] = "run"
Finalize(m) ==
    /\ MayFinalize(m)
    /\ IF Code[current[m]].finish
       THEN Leave(m) /\ triggers' = triggers + 1
       ELSE /\ stage' = [stage EXCEPT ![m] = "push"]
            /\ UNCHANGED <<current, pulled, pushed, triggers>>
    /\ UNCHANGED <<program, layer, fetched, iqueue, tokens>>

\* Mutant: the token may go before the instruction is over.
PushEarly(m, q) ==
    /\ stage[m] \in {"run", "push"}
    /\ q \in Pushes(Code[current[m]]) \ pushed[m]
    /\ Len(tokens[q]) < capacity
    /\ tokens' = [tokens EXCEPT ![q] = Append(@, current[m])]
    /\ pushed' = [pushed EXCEPT ![m] = @ \cup {q}]
    /\ UNCHANGED <<program, layer, triggers, fetched, iqueue, current, stage, pulled>>

\* Mutant: nothing remembers that the token has gone.
PushAgain(m, q) ==
    /\ stage[m] = "push"
    /\ q \in Pushes(Code[current[m]])
    /\ Len(tokens[q]) < capacity
    /\ tokens' = [tokens EXCEPT ![q] = Append(@, current[m])]
    /\ pushed' = [pushed EXCEPT ![m] = @ \cup {q}]
    /\ UNCHANGED <<program, layer, triggers, fetched, iqueue, current, stage, pulled>>

MayPush(m, q) ==
    stage[m] = "push" /\ q \in Pushes(Code[current[m]]) \ pushed[m] /\ Len(tokens[q]) < capacity
Push(m, q) ==
    /\ MayPush(m, q)
    /\ tokens' = [tokens EXCEPT ![q] = Append(@, current[m])]
    /\ pushed' = [pushed EXCEPT ![m] = @ \cup {q}]
    /\ UNCHANGED <<program, layer, triggers, fetched, iqueue, current, stage, pulled>>

MayRetire(m) == stage[m] = "push" /\ pushed[m] = Pushes(Code[current[m]])
Retire(m) ==
    /\ MayRetire(m)
    /\ Leave(m)
    /\ UNCHANGED <<program, layer, triggers, fetched, iqueue, tokens>>

ModuleStep(m) ==
    \/ Issue(m) \/ Start(m) \/ Finalize(m) \/ Retire(m)
    \/ \E q \in TokenQueues : Pull(m, q) \/ Push(m, q)

Next == LoadLayer \/ Fetch \/ \E m \in Modules : ModuleStep(m)

Spec == Init /\ [][Next]_vars

FairSpec == Spec /\ WF_vars(Next)

-----------------------------------------------------------------------------
Stages == {"idle", "pull", "run", "push"}
Pcs    == 1 .. Len(Code)

TypeOK ==
    /\ WellFormed(program)
    /\ layer \in 0 .. Len(program.layerEnd)
    /\ triggers \in Nat
    /\ fetched \in 0 .. Len(Code)
    /\ iqueue \in [Modules -> Seq(Pcs)]
    /\ current \in [Modules -> Pcs \cup {0}]
    /\ stage \in [Modules -> Stages]
    /\ pulled \in [Modules -> SUBSET TokenQueues]
    /\ pushed \in [Modules -> SUBSET TokenQueues]
    /\ tokens \in [TokenQueues -> Seq(Pcs)]

\* Instruction i waits in the queue of its module.
Queued(i) == \E k \in DOMAIN iqueue[Mod(i)] : iqueue[Mod(i)][k] = i

\* Instruction i has been fetched and its execution is over.
Executed(i) ==
    /\ i \in 1 .. fetched
    /\ ~ Queued(i)
    /\ current[Mod(i)] = i => stage[Mod(i)] = "push"

\* The instruction a module works on is one of its own; nothing else is in
\* progress on an idle module.
CurrentOK ==
    \A m \in Modules :
        IF stage[m] = "idle"
        THEN current[m] = 0 /\ pulled[m] = {} /\ pushed[m] = {}
        ELSE /\ current[m] \in 1 .. fetched
             /\ Mod(current[m]) = m
             /\ pulled[m] \subseteq Pops(Code[current[m]])
             /\ pushed[m] \subseteq Pushes(Code[current[m]])
             /\ stage[m] # "push" => pushed[m] = {}
             /\ stage[m] \in {"run", "push"} => pulled[m] = Pops(Code[current[m]])

\* The instructions of a module run in program order (module.cpp takes them
\* from a FIFO the Fetcher fills in order): each instruction queue is sorted,
\* holds only instructions of its module, and all of them come after the one
\* in execution.
InOrder ==
    \A m \in Modules :
        /\ \A k \in DOMAIN iqueue[m] :
              /\ iqueue[m][k] <= fetched
              /\ Mod(iqueue[m][k]) = m
              /\ current[m] < iqueue[m][k]
        /\ \A j, k \in DOMAIN iqueue[m] : j < k => iqueue[m][j] < iqueue[m][k]

\* A token says that the instruction that pushed it is over ("I finished
\* loading your input data, you can start"): whatever waits in a token queue
\* was put there by an executed instruction of the producer with that flag.
TokensEarned ==
    \A q \in TokenQueues : \A k \in DOMAIN tokens[q] :
        LET i == tokens[q][k]
        IN  Executed(i) /\ Mod(i) = Producer[q] /\ q \in Pushes(Code[i])

\* Tokens wait in program order, so that no instruction has two in a queue,
\* and none is there of the instruction being pushed for, or a later one.
TokensInOrder ==
    \A q \in TokenQueues :
        /\ \A k \in DOMAIN tokens[q], j \in DOMAIN iqueue[Producer[q]] :
              tokens[q][k] < iqueue[Producer[q]][j]
        /\ \A j, k \in DOMAIN tokens[q] : j < k => tokens[q][j] < tokens[q][k]
        /\ \A k \in DOMAIN tokens[q] :
              LET m == Producer[q]
              IN  stage[m] # "idle" =>
                     IF q \in pushed[m] THEN tokens[q][k] <= current[m]
                                        ELSE tokens[q][k] < current[m]

\* The host waits for the end of a layer before it starts the next: a layer
\* is loaded only when the FINISH of every layer before it has been executed,
\* and at most one trigger is under way.
LayerBarrier ==
    /\ triggers \in {0, 1}
    /\ fetched <= Loaded
    /\ \A k \in 1 .. layer : k < layer \/ triggers = 1 => Executed(program.layerEnd[k])

\* Every instruction of every layer is executed.
AllExecuted == \A i \in Pcs : Executed(i)
Completes   == <>[](AllExecuted /\ \A m \in Modules : stage[m] = "idle")

\* Instruction i has left its instruction queue; it has pulled its token from q;
\* it has pushed its token to q.
Gone(i)         == i \in 1 .. fetched /\ ~ Queued(i)
HasPulled(i, q) == Gone(i) /\ q \in Pops(Code[i]) /\ (current[Mod(i)] = i => q \in pulled[Mod(i)])
HasPushed(i, q) == Gone(i) /\ q \in Pushes(Code[i]) /\ (current[Mod(i)] = i => q \in pushed[Mod(i)])
Pullers(q) == {i \in Pcs : HasPulled(i, q)}
Pushers(q) == {i \in Pcs : HasPushed(i, q)}

\* The token of a queue that an instruction may pull is the one the compiler
\* meant for it: the k-th instruction of the program to pop the queue takes the
\* token of the k-th to push it, however far the modules have run apart.
TokensMatched ==
    \A q \in TokenQueues :
        LET c == current[Consumer[q]]
        IN  MayPull(Consumer[q], q) => Pushed(Code, q, Head(tokens[q])) = Popped(Code, q, c)

\* What makes it inductive: of every queue, the tokens are those pushed and not
\* yet pulled, in the order of the program.
TokensCounted ==
    \A q \in TokenQueues :
        /\ Cardinality(Pushers(q)) = Cardinality(Pullers(q)) + Len(tokens[q])
        /\ \A k \in DOMAIN tokens[q] :
              Pushed(Code, q, tokens[q][k]) = Cardinality(Pullers(q)) + k

\* What has left its queue comes before what is in it, and not after what has
\* left it last.
LeftInOrder ==
    \A i \in Pcs : Gone(i) =>
        /\ \A k \in DOMAIN iqueue[Mod(i)] : i < iqueue[Mod(i)][k]
        /\ stage[Mod(i)] # "idle" => i <= current[Mod(i)]

\* No trigger is lost: there is one, or the FINISH that raises it is to come,
\* or all layers are loaded.
TriggerToCome ==
    triggers = 0 /\ layer < Len(program.layerEnd) =>
        layer > 0 /\ ~ Executed(program.layerEnd[layer])

\* A program that never waits when it is run one instruction at a time never
\* comes to a standstill when the modules overlap, whatever the capacity: until
\* everything is executed, some step is possible.
MayStep ==
    \/ MayLoad \/ MayFetch
    \/ \E m \in Modules :
          \/ MayIssue(m) \/ MayStart(m) \/ MayFinalize(m) \/ MayRetire(m)
          \/ \E q \in TokenQueues : MayPull(m, q) \/ MayPush(m, q)
NeverStuck ==
    Balanced(Code) => MayStep \/ (AllExecuted /\ \A m \in Modules : stage[m] = "idle")

\* The inductive invariants.
IInv == TypeOK /\ CurrentOK /\ InOrder /\ TokensEarned /\ TokensInOrder /\ LayerBarrier
JInv == IInv /\ LeftInOrder /\ TokensCounted /\ TriggerToCome
=============================================================================
