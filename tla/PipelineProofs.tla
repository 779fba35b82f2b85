--------------------------- MODULE PipelineProofs ---------------------------
(***************************************************************************)
(* Proofs about Pipeline, for every set of well-formed programs and every   *)
(* capacity.                                                                *)
(*                                                                          *)
(* First the types and the safety invariants, with the inductive IInv.      *)
(* Then (from "Progress" on) tokens are matched in program order, and a     *)
(* balanced program is never stuck: the tokens in a queue are accounted for *)
(* (TokensCounted), they are those of the instructions that have pushed and *)
(* that no pop has met, in the order of the program.  For this the          *)
(* instructions of a module must leave their queue in order (LeftInOrder).  *)
(* If nothing could move, the earliest instruction under way would wait for *)
(* a token, or for room, although all instructions before it are over; the  *)
(* accounts say it does not.                                                *)
(***************************************************************************)
EXTENDS Pipeline, SequenceTheorems, FiniteSetTheorems, TLAPS

(***************************************************************************)
(* What the wiring of Topology gives for an instruction of the program.     *)
(***************************************************************************)
LEMMA InstructionFacts ==
    ASSUME WellFormed(program), NEW i \in Pcs
    PROVE  /\ Mod(i) \in Modules
           /\ Pops(Code[i]) \subseteq TokenQueues
           /\ Pushes(Code[i]) \subseteq TokenQueues
           /\ \A q \in Pushes(Code[i]) : Producer[q] = Mod(i)
  <1>1. Code \in Seq(Instruction)
    BY DEF WellFormed, Program, Code
  <1>2. Code[i] \in Instruction
    BY <1>1, ElementOfSeq DEF Pcs
  <1> QED
    BY <1>2 DEF Mod, Instruction, Pops, Pushes, PopPorts, PushPorts

\* What has been loaded is a prefix of the program.
LEMMA LoadedBound ==
    ASSUME WellFormed(program), layer \in 0 .. Len(program.layerEnd)
    PROVE  Loaded \in 0 .. Len(Code)
  <1>1. Len(Code) \in Nat /\ DOMAIN program.layerEnd = 1 .. Len(program.layerEnd)
    BY LenProperties DEF WellFormed, Program, Code
  <1>2. CASE layer = 0
    BY <1>1, <1>2 DEF Loaded
  <1>3. CASE layer # 0
    <2>1. layer \in DOMAIN program.layerEnd
      BY <1>1, <1>3
    <2>2. program.layerEnd[layer] \in 1 .. Len(Code)
      BY <2>1 DEF WellFormed, Code
    <2> QED
      BY <1>1, <1>3, <2>2 DEF Loaded
  <1> QED
    BY <1>2, <1>3

\* Every token queue is fed by a module (VTA::VTA).
LEMMA ProducerFacts == \A q \in TokenQueues : Producer[q] \in Modules
  BY DEF TokenQueues, Producer, Modules

-----------------------------------------------------------------------------
(* The initial states. *)

\* The start of sc_start() satisfies the invariant: nothing is fetched, and
\* the one trigger is that of ARM::start.
LEMMA InitInv == Init => IInv
  <1> SUFFICES ASSUME Init PROVE IInv
    OBVIOUS
  <1> USE DEF Init
  <1>1. TypeOK
    <2>1. WellFormed(program)
      BY ProgramsAssumption
    <2>2. Len(Code) \in Nat /\ Len(program.layerEnd) \in Nat
      BY <2>1 DEF WellFormed, Program, Code
    <2> QED
      BY <2>1, <2>2 DEF TypeOK, Stages, Pcs
  <1>2. CurrentOK
    BY DEF CurrentOK
  <1>3. InOrder /\ TokensEarned /\ TokensInOrder
    BY ProducerFacts DEF InOrder, TokensEarned, TokensInOrder
  <1>4. LayerBarrier
    BY DEF LayerBarrier, Loaded
  <1> QED
    BY <1>1, <1>2, <1>3, <1>4 DEF IInv

-----------------------------------------------------------------------------
(* Type correctness is preserved. *)

\* No step of any module puts a variable outside its type; in particular a
\* queue only ever receives positions of instructions of the program.
LEMMA TypeStep == TypeOK /\ CurrentOK /\ LayerBarrier /\ [Next]_vars => TypeOK'
  <1> SUFFICES ASSUME TypeOK, CurrentOK, LayerBarrier, [Next]_vars PROVE TypeOK'
    OBVIOUS
  <1>0. program' = program
    BY DEF Next, vars, LoadLayer, Fetch, ModuleStep, Issue, Start, Finalize, Retire, Pull, Push
  <1>a. Code' = Code /\ Pcs' = Pcs /\ WellFormed(program)'
    BY <1>0 DEF Code, Pcs, TypeOK, WellFormed, Program
  <1>b. Len(Code) \in Nat /\ Len(program.layerEnd) \in Nat
    BY DEF TypeOK, WellFormed, Program, Code
  <1>1. CASE LoadLayer
    BY <1>0, <1>a, <1>b, <1>1 DEF LoadLayer, MayLoad, TypeOK
  <1>2. CASE Fetch
    <2> DEFINE i == fetched + 1
    <2>1. i \in Pcs
      BY <1>b, <1>2, LoadedBound DEF Fetch, MayFetch, TypeOK, Pcs
    <2>2. Append(iqueue[Mod(i)], i) \in Seq(Pcs)
      BY <2>1, InstructionFacts, AppendProperties DEF TypeOK
    <2>3. iqueue' \in [Modules -> Seq(Pcs)]
      BY <2>2, <1>2 DEF Fetch, TypeOK
    <2> QED
      BY <1>0, <1>a, <1>b, <1>2, <2>1, <2>3 DEF Fetch, TypeOK, Pcs
  <1>3. ASSUME NEW m \in Modules, Issue(m) PROVE TypeOK'
    <2>1. Head(iqueue[m]) \in Pcs /\ Tail(iqueue[m]) \in Seq(Pcs)
      BY <1>3, HeadTailProperties DEF Issue, MayIssue, TypeOK
    <2> QED
      BY <1>0, <1>a, <1>3, <2>1 DEF Issue, TypeOK, Stages
  <1>4. ASSUME NEW m \in Modules, NEW q \in TokenQueues, Pull(m, q) PROVE TypeOK'
    <2>1. Tail(tokens[q]) \in Seq(Pcs)
      BY <1>4, HeadTailProperties DEF Pull, MayPull, TypeOK
    <2> QED
      BY <1>0, <1>a, <1>4, <2>1 DEF Pull, TypeOK
  <1>5. ASSUME NEW m \in Modules, Start(m) PROVE TypeOK'
    BY <1>0, <1>a, <1>5 DEF Start, TypeOK, Stages
  <1>6. ASSUME NEW m \in Modules, Finalize(m) PROVE TypeOK'
    <2>1. CASE Code[current[m]].finish
      <3>1. Leave(m) /\ triggers' = triggers + 1 /\ UNCHANGED <<layer, fetched, iqueue, tokens>>
        BY <1>6, <2>1 DEF Finalize
      <3> QED
        BY <1>0, <1>a, <3>1 DEF Leave, TypeOK, Stages
    <2>2. CASE ~ Code[current[m]].finish
      <3>1. /\ stage' = [stage EXCEPT ![m] = "push"]
            /\ UNCHANGED <<layer, triggers, fetched, iqueue, current, pulled, pushed, tokens>>
        BY <1>6, <2>2 DEF Finalize
      <3> QED
        BY <1>0, <1>a, <3>1 DEF TypeOK, Stages
    <2> QED
      BY <2>1, <2>2
  <1>7. ASSUME NEW m \in Modules, NEW q \in TokenQueues, Push(m, q) PROVE TypeOK'
    <2>1. current[m] \in Pcs
      BY <1>7 DEF Push, MayPush, TypeOK, CurrentOK, Pcs
    <2>2. Append(tokens[q], current[m]) \in Seq(Pcs)
      BY <2>1, AppendProperties DEF TypeOK
    <2> QED
      BY <1>0, <1>a, <1>7, <2>2 DEF Push, TypeOK
  <1>8. ASSUME NEW m \in Modules, Retire(m) PROVE TypeOK'
    BY <1>0, <1>a, <1>8 DEF Retire, Leave, TypeOK, Stages
  <1>9. CASE UNCHANGED vars
    BY <1>0, <1>a, <1>9 DEF vars, TypeOK
  <1> QED
    BY <1>1, <1>2, <1>3, <1>4, <1>5, <1>6, <1>7, <1>8, <1>9 DEF Next, ModuleStep

\* The parser's output is not touched by the simulation.
LEMMA ProgramFixed ==
    TypeOK /\ [Next]_vars => program' = program /\ Code' = Code /\ Pcs' = Pcs
  <1> SUFFICES ASSUME TypeOK, [Next]_vars PROVE program' = program
    BY DEF Code, Pcs
  <1> QED
    BY DEF Next, vars, LoadLayer, Fetch, ModuleStep, Issue, Start, Finalize, Retire, Pull, Push

-----------------------------------------------------------------------------
(* Each module works on an instruction of its own. *)

\* An instruction starts with exactly the tokens it pops (dependencies_received
\* after receive_dependencies), and one that leaves takes its marks along.
LEMMA CurrentStep == TypeOK /\ CurrentOK /\ InOrder /\ [Next]_vars => CurrentOK'
  <1> SUFFICES ASSUME TypeOK, CurrentOK, InOrder, [Next]_vars PROVE CurrentOK'
    OBVIOUS
  <1>0. Code' = Code /\ Pcs' = Pcs
    BY ProgramFixed
  <1>a. \A i : Mod(i)' = Mod(i)
    BY <1>0 DEF Mod
  <1>b. fetched \in Nat
    BY DEF TypeOK
  <1>1. CASE LoadLayer
    BY <1>0, <1>a, <1>1 DEF LoadLayer, CurrentOK
  <1>2. CASE Fetch
    <2>1. fetched' = fetched + 1 /\ UNCHANGED <<current, stage, pulled, pushed>>
      BY <1>2 DEF Fetch
    <2> QED
      BY <1>0, <1>a, <1>b, <2>1 DEF CurrentOK
  <1>3. ASSUME NEW m \in Modules, Issue(m) PROVE CurrentOK'
    <2> DEFINE i == Head(iqueue[m])
    <2>1. 1 \in DOMAIN iqueue[m] /\ i = iqueue[m][1] /\ i \in Pcs
      BY <1>3, HeadTailProperties, EmptySeq DEF Issue, MayIssue, TypeOK
    <2>2. i \in 1 .. fetched /\ Mod(i) = m
      BY <1>b, <2>1 DEF InOrder, Pcs
    <2>3. /\ current' = [current EXCEPT ![m] = i]
          /\ stage' = [stage EXCEPT ![m] = "pull"]
          /\ UNCHANGED <<fetched, pulled, pushed>>
          /\ stage[m] = "idle"
      BY <1>3 DEF Issue, MayIssue
    <2> QED
      BY <1>0, <1>a, <2>2, <2>3 DEF CurrentOK, TypeOK
  <1>4. ASSUME NEW m \in Modules, NEW q \in TokenQueues, Pull(m, q) PROVE CurrentOK'
    BY <1>0, <1>a, <1>4 DEF Pull, MayPull, CurrentOK, TypeOK
  <1>5. ASSUME NEW m \in Modules, Start(m) PROVE CurrentOK'
    BY <1>0, <1>a, <1>5 DEF Start, MayStart, CurrentOK, TypeOK
  <1>6. ASSUME NEW m \in Modules, Finalize(m) PROVE CurrentOK'
    <2>1. CASE Code[current[m]].finish
      <3>1. Leave(m) /\ UNCHANGED fetched
        BY <1>6, <2>1 DEF Finalize
      <3> QED
        BY <1>0, <1>a, <3>1 DEF Leave, CurrentOK, TypeOK
    <2>2. CASE ~ Code[current[m]].finish
      <3>1. /\ stage[m] = "run"
            /\ stage' = [stage EXCEPT ![m] = "push"]
            /\ UNCHANGED <<fetched, current, pulled, pushed>>
        BY <1>6, <2>2 DEF Finalize, MayFinalize
      <3> QED
        BY <1>0, <1>a, <3>1 DEF CurrentOK, TypeOK
    <2> QED
      BY <2>1, <2>2
  <1>7. ASSUME NEW m \in Modules, NEW q \in TokenQueues, Push(m, q) PROVE CurrentOK'
    BY <1>0, <1>a, <1>7 DEF Push, MayPush, CurrentOK, TypeOK
  <1>8. ASSUME NEW m \in Modules, Retire(m) PROVE CurrentOK'
    BY <1>0, <1>a, <1>8 DEF Retire, Leave, CurrentOK, TypeOK
  <1>9. CASE UNCHANGED vars
    BY <1>0, <1>a, <1>9 DEF vars, CurrentOK
  <1> QED
    BY <1>1, <1>2, <1>3, <1>4, <1>5, <1>6, <1>7, <1>8, <1>9 DEF Next, ModuleStep

-----------------------------------------------------------------------------
(* What Append and Tail do to the entries of a queue. *)

\* Append keeps the entries, and adds one at the end.
LEMMA AppendEntries ==
    ASSUME NEW T, NEW s \in Seq(T), NEW e \in T
    PROVE  /\ DOMAIN Append(s, e) = 1 .. Len(s) + 1
           /\ \A k \in DOMAIN Append(s, e) :
                 Append(s, e)[k] = IF k \in DOMAIN s THEN s[k] ELSE e
           /\ DOMAIN s = 1 .. Len(s)
           /\ Len(s) \in Nat
  BY AppendProperties, LenProperties

\* Tail shifts the entries by one.
LEMMA TailEntries ==
    ASSUME NEW T, NEW s \in Seq(T), s # << >>
    PROVE  /\ 1 \in DOMAIN s /\ Head(s) = s[1]
           /\ DOMAIN Tail(s) = 1 .. Len(s) - 1
           /\ \A k \in DOMAIN Tail(s) : k + 1 \in DOMAIN s /\ Tail(s)[k] = s[k + 1]
           /\ DOMAIN s = 1 .. Len(s)
           /\ Len(s) \in Nat
  BY HeadTailProperties, LenProperties, EmptySeq

-----------------------------------------------------------------------------
(* Program order within a module. *)

\* The Fetcher appends the next instruction of the program and a module takes
\* the head of its queue, so that the queues stay sorted.
LEMMA InOrderStep == TypeOK /\ CurrentOK /\ InOrder /\ LayerBarrier /\ [Next]_vars => InOrder'
  <1> SUFFICES ASSUME TypeOK, CurrentOK, InOrder, LayerBarrier, [Next]_vars PROVE InOrder'
    OBVIOUS
  <1>0. Code' = Code /\ Pcs' = Pcs
    BY ProgramFixed
  <1>a. \A i : Mod(i)' = Mod(i)
    BY <1>0 DEF Mod
  <1>b. fetched \in Nat /\ \A m \in Modules : iqueue[m] \in Seq(Pcs)
    BY DEF TypeOK
  <1>1. CASE LoadLayer
    BY <1>0, <1>a, <1>1 DEF LoadLayer, InOrder
  <1>2. CASE Fetch
    <2> DEFINE i == fetched + 1
               n == Mod(i)
    <2>1. i \in Pcs /\ n \in Modules
      <3>1. i \in Pcs
        BY <1>b, <1>2, LoadedBound DEF Fetch, MayFetch, TypeOK, Pcs
      <3> QED
        BY <3>1, InstructionFacts DEF TypeOK
    <2>2. /\ fetched' = i
          /\ iqueue' = [iqueue EXCEPT ![n] = Append(@, i)]
          /\ current' = current
      BY <1>2 DEF Fetch
    <2>3. \A m \in Modules : current[m] < i
      BY <1>b DEF TypeOK, CurrentOK
    <2> SUFFICES ASSUME NEW m \in Modules
                 PROVE  /\ \A k \in DOMAIN iqueue'[m] :
                              /\ iqueue'[m][k] <= i
                              /\ Mod(iqueue'[m][k]) = m
                              /\ current[m] < iqueue'[m][k]
                        /\ \A j, k \in DOMAIN iqueue'[m] : j < k => iqueue'[m][j] < iqueue'[m][k]
      BY <1>a, <2>2 DEF InOrder
    <2>4. CASE m # n
      <3>1. iqueue'[m] = iqueue[m]
        BY <2>2, <2>4 DEF TypeOK
      <3>2. \A k \in DOMAIN iqueue[m] : iqueue[m][k] <= i
        <4> SUFFICES ASSUME NEW k \in DOMAIN iqueue[m] PROVE iqueue[m][k] <= i
          OBVIOUS
        <4>1. iqueue[m][k] \in Pcs
          BY <1>b, ElementOfSeq, LenProperties
        <4>2. iqueue[m][k] <= fetched
          BY DEF InOrder
        <4> QED
          BY <1>b, <4>1, <4>2 DEF Pcs
      <3> QED
        BY <3>1, <3>2 DEF InOrder
    <2>5. CASE m = n
      <3> DEFINE s == iqueue[n]
      <3>1. iqueue'[m] = Append(s, i)
        BY <2>1, <2>2, <2>5 DEF TypeOK
      <3>2. s \in Seq(Pcs)
        BY <1>b, <2>1
      <3>3. \A k \in DOMAIN s : s[k] \in Pcs /\ s[k] <= fetched /\ Mod(s[k]) = n /\ current[n] < s[k]
        BY <2>1, <3>2, ElementOfSeq, LenProperties DEF InOrder
      <3>4. \A j, k \in DOMAIN s : j < k => s[j] < s[k]
        BY <2>1 DEF InOrder
      <3> DEFINE t == Append(s, i)
      <3>5. \A k \in DOMAIN t : \/ k \in DOMAIN s /\ t[k] = s[k]
                                \/ k = Len(s) + 1 /\ t[k] = i
        BY <2>1, <3>2, AppendEntries
      <3>6. DOMAIN s = 1 .. Len(s) /\ Len(s) \in Nat
        BY <3>2, LenProperties
      <3> HIDE DEF s, t
      <3>7. \A k \in DOMAIN t : t[k] <= i /\ Mod(t[k]) = n /\ current[n] < t[k]
        BY <1>b, <2>1, <2>3, <3>3, <3>5 DEF Pcs
      <3>8. \A j, k \in DOMAIN t : j < k => t[j] < t[k]
        BY <1>b, <3>3, <3>4, <3>5, <3>6 DEF Pcs
      <3> QED
        BY <2>5, <3>1, <3>7, <3>8 DEF t
    <2> QED
      BY <2>4, <2>5
  <1>3. ASSUME NEW n \in Modules, Issue(n) PROVE InOrder'
    <2>1. /\ iqueue[n] # << >>
          /\ current' = [current EXCEPT ![n] = Head(iqueue[n])]
          /\ iqueue' = [iqueue EXCEPT ![n] = Tail(@)]
          /\ fetched' = fetched
      BY <1>3 DEF Issue, MayIssue
    <2> SUFFICES ASSUME NEW m \in Modules
                 PROVE  /\ \A k \in DOMAIN iqueue'[m] :
                              /\ iqueue'[m][k] <= fetched
                              /\ Mod(iqueue'[m][k]) = m
                              /\ current'[m] < iqueue'[m][k]
                        /\ \A j, k \in DOMAIN iqueue'[m] : j < k => iqueue'[m][j] < iqueue'[m][k]
      BY <1>a, <2>1 DEF InOrder
    <2>2. CASE m # n
      BY <2>1, <2>2 DEF InOrder, TypeOK
    <2>3. CASE m = n
      <3> DEFINE s == iqueue[n]
      <3>1. iqueue'[m] = Tail(s) /\ current'[m] = Head(s)
        BY <2>1, <2>3 DEF TypeOK
      <3>2. s \in Seq(Pcs) /\ s # << >>
        BY <1>b, <2>1
      <3>3. \A k \in DOMAIN s : s[k] <= fetched /\ Mod(s[k]) = n
        BY DEF InOrder
      <3>4. \A j, k \in DOMAIN s : j < k => s[j] < s[k]
        BY DEF InOrder
      <3> HIDE DEF s
      <3> QED
        BY <2>3, <3>1, <3>2, <3>3, <3>4, TailEntries
    <2> QED
      BY <2>2, <2>3
  <1>4. ASSUME UNCHANGED <<iqueue, fetched>>,
               \A m \in Modules : current'[m] = current[m] \/ current'[m] = 0
        PROVE  InOrder'
    <2>1. \A m \in Modules : \A k \in DOMAIN iqueue[m] : 0 < iqueue[m][k]
      BY <1>b, ElementOfSeq, LenProperties DEF Pcs
    <2> QED
      BY <1>a, <1>4, <2>1 DEF InOrder
  <1>5. ASSUME NEW m \in Modules, NEW q \in TokenQueues, Pull(m, q) \/ Push(m, q) PROVE InOrder'
    BY <1>4, <1>5 DEF Pull, Push
  <1>6. ASSUME NEW m \in Modules, Start(m) PROVE InOrder'
    BY <1>4, <1>6 DEF Start
  <1>7. ASSUME NEW m \in Modules, Finalize(m) PROVE InOrder'
    <2>1. UNCHANGED <<iqueue, fetched>>
      BY <1>7 DEF Finalize
    <2>2. current' = current \/ current' = [current EXCEPT ![m] = 0]
      BY <1>7 DEF Finalize, Leave
    <2> QED
      BY <1>4, <2>1, <2>2 DEF TypeOK
  <1>8. ASSUME NEW m \in Modules, Retire(m) PROVE InOrder'
    BY <1>4, <1>8 DEF Retire, Leave, TypeOK
  <1>9. CASE UNCHANGED vars
    BY <1>4, <1>9 DEF vars
  <1> QED
    BY <1>1, <1>2, <1>3, <1>5, <1>6, <1>7, <1>8, <1>9 DEF Next, ModuleStep

-----------------------------------------------------------------------------
(* What has been executed stays executed. *)

\* An instruction that is over is not fetched or run again.
LEMMA ExecutedStable ==
    TypeOK /\ CurrentOK /\ InOrder /\ LayerBarrier /\ [Next]_vars
       => \A i \in Pcs : Executed(i) => Executed(i)'
  <1> SUFFICES ASSUME TypeOK, CurrentOK, InOrder, LayerBarrier, [Next]_vars,
                      NEW i \in Pcs, Executed(i)
               PROVE  Executed(i)'
    OBVIOUS
  <1> DEFINE n == Mod(i)
  <1>0. Code' = Code /\ Mod(i)' = n /\ n \in Modules
    BY ProgramFixed, InstructionFacts DEF TypeOK, Mod
  <1>b. fetched \in Nat /\ iqueue[n] \in Seq(Pcs)
    BY <1>0 DEF TypeOK
  <1>c. /\ i \in 1 .. fetched
        /\ \A k \in DOMAIN iqueue[n] : iqueue[n][k] # i
        /\ current[n] = i => stage[n] = "push"
    BY DEF Executed, Queued
  \* It is enough that i does not come back, to a queue or into execution.
  <1>d. ASSUME fetched' \in Nat, fetched <= fetched',
               \A k \in DOMAIN iqueue'[n] : iqueue'[n][k] # i,
               current'[n] = i => stage'[n] = "push"
        PROVE  Executed(i)'
    BY <1>0, <1>b, <1>c, <1>d DEF Executed, Queued
  <1>1. CASE UNCHANGED <<fetched, iqueue, current, stage>>
    BY <1>1, <1>b, <1>c, <1>d
  <1>2. CASE Fetch
    <2> DEFINE e == fetched + 1
    <2>1. /\ fetched' = e
          /\ iqueue' = [iqueue EXCEPT ![Mod(e)] = Append(@, e)]
          /\ UNCHANGED <<current, stage>>
      BY <1>2 DEF Fetch
    <2>2. e \in Pcs
      BY <1>b, <1>2, LoadedBound DEF Fetch, MayFetch, TypeOK, Pcs
    <2>3. \A k \in DOMAIN iqueue'[n] : iqueue'[n][k] # i
      <3>1. CASE Mod(e) # n
        BY <1>0, <1>c, <2>1, <3>1 DEF TypeOK
      <3>2. CASE Mod(e) = n
        <4>1. iqueue'[n] = Append(iqueue[n], e)
          BY <1>0, <2>1, <3>2 DEF TypeOK
        <4> QED
          BY <1>b, <1>c, <2>2, <4>1, AppendEntries
      <3> QED
        BY <3>1, <3>2
    <2> QED
      BY <1>b, <1>c, <1>d, <2>1, <2>3
  <1>3. ASSUME NEW m \in Modules, Issue(m) PROVE Executed(i)'
    <2>1. /\ iqueue[m] # << >>
          /\ current' = [current EXCEPT ![m] = Head(iqueue[m])]
          /\ iqueue' = [iqueue EXCEPT ![m] = Tail(@)]
          /\ stage' = [stage EXCEPT ![m] = "pull"]
          /\ fetched' = fetched
      BY <1>3 DEF Issue, MayIssue
    <2>2. CASE m # n
      BY <1>0, <1>b, <1>c, <1>d, <2>1, <2>2 DEF TypeOK
    <2>3. CASE m = n
      <3>1. iqueue'[n] = Tail(iqueue[n]) /\ current'[n] = Head(iqueue[n])
        BY <1>0, <2>1, <2>3 DEF TypeOK
      <3>2. Head(iqueue[n]) # i /\ \A k \in DOMAIN Tail(iqueue[n]) : Tail(iqueue[n])[k] # i
        BY <1>b, <1>c, <2>1, <2>3, TailEntries
      <3>3. fetched' \in Nat /\ fetched <= fetched'
        BY <1>b, <2>1
      <3>4. current'[n] # i /\ \A k \in DOMAIN iqueue'[n] : iqueue'[n][k] # i
        BY <3>1, <3>2
      <3> QED
        BY <1>d, <3>3, <3>4
    <2> QED
      BY <2>2, <2>3
  <1>4. ASSUME NEW m \in Modules, Leave(m), UNCHANGED <<fetched, iqueue>> PROVE Executed(i)'
    <2>1. current'[n] = i => current[n] = i /\ stage'[n] = stage[n]
      BY <1>0, <1>4 DEF Leave, TypeOK, Pcs
    <2> QED
      BY <1>4, <1>b, <1>c, <1>d, <2>1
  <1>5. ASSUME NEW m \in Modules, Start(m) PROVE Executed(i)'
    <2>1. /\ stage[m] = "pull"
          /\ stage' = [stage EXCEPT ![m] = "run"]
          /\ UNCHANGED <<fetched, iqueue, current>>
      BY <1>5 DEF Start, MayStart
    <2> QED
      BY <1>0, <1>b, <1>c, <1>d, <2>1 DEF TypeOK
  <1>6. ASSUME NEW m \in Modules, Finalize(m) PROVE Executed(i)'
    <2>1. CASE Code[current[m]].finish
      BY <1>4, <1>6, <2>1 DEF Finalize
    <2>2. CASE ~ Code[current[m]].finish
      <3>1. /\ stage' = [stage EXCEPT ![m] = "push"]
            /\ UNCHANGED <<fetched, iqueue, current>>
        BY <1>6, <2>2 DEF Finalize
      <3> QED
        BY <1>0, <1>b, <1>c, <1>d, <3>1 DEF TypeOK
    <2> QED
      BY <2>1, <2>2
  <1>7. ASSUME NEW m \in Modules, Retire(m) PROVE Executed(i)'
    BY <1>4, <1>7 DEF Retire
  <1>8. ASSUME NEW m \in Modules, NEW q \in TokenQueues, Pull(m, q) \/ Push(m, q) PROVE Executed(i)'
    BY <1>1, <1>8 DEF Pull, Push
  <1>9. CASE LoadLayer \/ UNCHANGED vars
    BY <1>1, <1>9 DEF LoadLayer, vars
  <1> QED
    BY <1>2, <1>3, <1>5, <1>6, <1>7, <1>8, <1>9 DEF Next, ModuleStep

-----------------------------------------------------------------------------
(* Tokens come from executed instructions. *)

\* A token is pushed only after finalize_instruction, by the producer of the
\* queue, for an instruction with the flag.
LEMMA TokensEarnedStep ==
    TypeOK /\ CurrentOK /\ InOrder /\ TokensEarned /\ LayerBarrier /\ [Next]_vars => TokensEarned'
  <1> SUFFICES ASSUME TypeOK, CurrentOK, InOrder, TokensEarned, LayerBarrier, [Next]_vars,
                      NEW q \in TokenQueues, NEW k \in DOMAIN tokens'[q],
                      NEW i, i = tokens'[q][k]
               PROVE  Executed(i)' /\ Mod(i)' = Producer[q] /\ q \in Pushes(Code'[i])
    BY DEF TokensEarned
  <1> DEFINE Earned(e) == e \in Pcs /\ Executed(e) /\ Mod(e) = Producer[q] /\ q \in Pushes(Code[e])
  <1>0. Code' = Code /\ \A e : Mod(e)' = Mod(e)
    BY ProgramFixed DEF Mod
  <1>a. tokens[q] \in Seq(Pcs) /\ \A j \in DOMAIN tokens[q] : Earned(tokens[q][j])
    BY ElementOfSeq, LenProperties DEF TypeOK, TokensEarned
  <1>b. SUFFICES Earned(i)
    BY <1>0, ExecutedStable
  <1> HIDE DEF Earned
  <1>1. CASE tokens'[q] = tokens[q]
    BY <1>1, <1>a
  <1>2. ASSUME NEW m \in Modules, NEW p \in TokenQueues, Pull(m, p) PROVE Earned(i)
    <2>1. tokens[p] # << >> /\ tokens' = [tokens EXCEPT ![p] = Tail(@)]
      BY <1>2 DEF Pull, MayPull
    <2>2. CASE p = q
      <3>1. tokens'[q] = Tail(tokens[q])
        BY <2>1, <2>2 DEF TypeOK
      <3> QED
        BY <1>a, <2>1, <2>2, <3>1, TailEntries
    <2> QED
      BY <1>1, <2>1, <2>2 DEF TypeOK
  <1>3. ASSUME NEW m \in Modules, NEW p \in TokenQueues, Push(m, p) PROVE Earned(i)
    <2> DEFINE e == current[m]
    <2>1. /\ stage[m] = "push" /\ p \in Pushes(Code[e])
          /\ tokens' = [tokens EXCEPT ![p] = Append(@, e)]
      BY <1>3 DEF Push, MayPush
    <2>2. CASE p = q
      <3>1. tokens'[q] = Append(tokens[q], e)
        BY <2>1, <2>2 DEF TypeOK
      <3>2. e \in Pcs /\ e \in 1 .. fetched /\ Mod(e) = m
        BY <2>1 DEF TypeOK, CurrentOK, Pcs
      <3>3. Mod(e) = Producer[q] /\ q \in Pushes(Code[e])
        BY <2>1, <2>2, <3>2, InstructionFacts DEF TypeOK
      <3>4. ~ Queued(e)
        BY <3>2 DEF InOrder, Queued, Pcs
      <3>5. Earned(e)
        BY <2>1, <3>2, <3>3, <3>4 DEF Earned, Executed
      <3> QED
        BY <1>a, <3>1, <3>2, <3>5, AppendEntries
    <2> QED
      BY <1>1, <2>1, <2>2 DEF TypeOK
  <1>4. CASE UNCHANGED tokens
    BY <1>1, <1>4
  <1> QED
    BY <1>2, <1>3, <1>4
       DEF Next, vars, LoadLayer, Fetch, ModuleStep, Issue, Start, Finalize, Retire

-----------------------------------------------------------------------------
(* Tokens wait in program order. *)

\* An instruction pushes once to each queue, after all those before it.
LEMMA TokensInOrderStep ==
    TypeOK /\ CurrentOK /\ InOrder /\ TokensEarned /\ TokensInOrder /\ LayerBarrier /\ [Next]_vars
       => TokensInOrder'
  <1> SUFFICES ASSUME TypeOK, CurrentOK, InOrder, TokensEarned, TokensInOrder, LayerBarrier,
                      [Next]_vars, NEW q \in TokenQueues
               PROVE  /\ \A k \in DOMAIN tokens'[q], j \in DOMAIN iqueue'[Producer[q]] :
                            tokens'[q][k] < iqueue'[Producer[q]][j]
                      /\ \A j, k \in DOMAIN tokens'[q] : j < k => tokens'[q][j] < tokens'[q][k]
                      /\ \A k \in DOMAIN tokens'[q] : stage'[Producer[q]] # "idle" =>
                            IF q \in pushed'[Producer[q]]
                            THEN tokens'[q][k] <= current'[Producer[q]]
                            ELSE tokens'[q][k] < current'[Producer[q]]
    BY DEF TokensInOrder
  <1> DEFINE p    == Producer[q]
             toks == tokens[q]
             wait == iqueue[p]
             Behind(t, w)      == \A k \in DOMAIN t, j \in DOMAIN w : t[k] < w[j]
             Sorted(t)         == \A j, k \in DOMAIN t : j < k => t[j] < t[k]
             Below(t, st, pu, c) == \A k \in DOMAIN t : st # "idle" =>
                                      IF q \in pu THEN t[k] <= c ELSE t[k] < c
  <1>a. p \in Modules
    BY ProducerFacts
  <1>b. /\ toks \in Seq(Pcs) /\ wait \in Seq(Pcs) /\ fetched \in Nat
        /\ \A k \in DOMAIN toks : toks[k] \in Pcs /\ toks[k] <= fetched
        /\ \A k \in DOMAIN wait : wait[k] \in Pcs
    <2>1. toks \in Seq(Pcs) /\ wait \in Seq(Pcs) /\ fetched \in Nat
      BY <1>a DEF TypeOK
    <2>2. \A k \in DOMAIN toks : toks[k] <= fetched
      BY DEF TokensEarned, Executed
    <2> QED
      BY <2>1, <2>2, ElementOfSeq, LenProperties
  <1>c. Behind(toks, wait) /\ Sorted(toks) /\ Below(toks, stage[p], pushed[p], current[p])
    BY <1>a DEF TokensInOrder
  <1>d. SUFFICES /\ Behind(tokens'[q], iqueue'[p]) /\ Sorted(tokens'[q])
                 /\ Below(tokens'[q], stage'[p], pushed'[p], current'[p])
    OBVIOUS
  <1> HIDE DEF p, toks, wait
  <1>t. ASSUME NEW T, T = Tail(toks), toks # << >>
        PROVE  Behind(T, wait) /\ Sorted(T) /\ Below(T, stage[p], pushed[p], current[p])
    <2>1. \A k \in DOMAIN T : k \in Int /\ k + 1 \in DOMAIN toks /\ T[k] = toks[k + 1]
      BY <1>b, <1>t, TailEntries
    <2> QED
      BY <1>c, <2>1
  <1>1. CASE UNCHANGED <<iqueue, current, stage, pushed, tokens>>
    BY <1>1, <1>c DEF p, toks, wait
  <1>2. CASE Fetch
    <2> DEFINE e == fetched + 1
    <2>1. /\ iqueue' = [iqueue EXCEPT ![Mod(e)] = Append(@, e)]
          /\ UNCHANGED <<current, stage, pushed, tokens>>
      BY <1>2 DEF Fetch
    <2>2. e \in Pcs
      BY <1>b, <1>2, LoadedBound DEF Fetch, MayFetch, TypeOK, Pcs
    <2>3. iqueue'[p] = wait \/ iqueue'[p] = Append(wait, e)
      BY <1>a, <2>1 DEF wait, TypeOK
    <2>4. Behind(toks, Append(wait, e))
      <3> DEFINE w == Append(wait, e)
      <3>1. \A j \in DOMAIN w : w[j] = e \/ (j \in DOMAIN wait /\ w[j] = wait[j])
        BY <1>b, <2>2, AppendEntries
      <3>2. \A k \in DOMAIN toks : toks[k] < e
        BY <1>b DEF Pcs
      <3> HIDE DEF w, e
      <3>3. Behind(toks, w)
        BY <1>c, <3>1, <3>2
      <3> QED
        BY <3>3 DEF w
    <2> QED
      BY <1>c, <2>1, <2>3, <2>4 DEF toks
  <1>3. ASSUME NEW m \in Modules, Issue(m)
        PROVE  /\ Behind(tokens'[q], iqueue'[p]) /\ Sorted(tokens'[q])
               /\ Below(tokens'[q], stage'[p], pushed'[p], current'[p])
    <2>1. /\ iqueue[m] # << >> /\ stage[m] = "idle"
          /\ current' = [current EXCEPT ![m] = Head(iqueue[m])]
          /\ iqueue' = [iqueue EXCEPT ![m] = Tail(@)]
          /\ stage' = [stage EXCEPT ![m] = "pull"]
          /\ UNCHANGED <<pushed, tokens>>
      BY <1>3 DEF Issue, MayIssue
    <2>2. CASE m # p
      BY <1>a, <1>c, <2>1, <2>2 DEF toks, wait, TypeOK
    <2>3. CASE m = p
      <3>1. iqueue'[p] = Tail(wait) /\ current'[p] = Head(wait) /\ pushed'[p] = {} /\ wait # << >>
        BY <1>a, <2>1, <2>3 DEF wait, TypeOK, CurrentOK
      <3>2. \A k \in DOMAIN Tail(wait) : k + 1 \in DOMAIN wait /\ Tail(wait)[k] = wait[k + 1]
        BY <1>b, <3>1, TailEntries
      <3>3. 1 \in DOMAIN wait /\ Head(wait) = wait[1]
        BY <1>b, <3>1, TailEntries
      <3>4. Behind(toks, Tail(wait))
        BY <1>c, <3>2
      <3>5. Below(toks, stage'[p], {}, Head(wait))
        BY <1>c, <3>3
      <3> QED
        BY <1>c, <2>1, <3>1, <3>4, <3>5 DEF toks
    <2> QED
      BY <2>2, <2>3
  <1>4. ASSUME NEW m \in Modules, NEW r \in TokenQueues, Pull(m, r)
        PROVE  /\ Behind(tokens'[q], iqueue'[p]) /\ Sorted(tokens'[q])
               /\ Below(tokens'[q], stage'[p], pushed'[p], current'[p])
    <2>1. /\ tokens[r] # << >> /\ tokens' = [tokens EXCEPT ![r] = Tail(@)]
          /\ UNCHANGED <<iqueue, current, stage, pushed>>
      BY <1>4 DEF Pull, MayPull
    <2>2. tokens'[q] = toks \/ (tokens'[q] = Tail(toks) /\ toks # << >>)
      BY <2>1 DEF toks, TypeOK
    <2> QED
      BY <1>c, <1>t, <2>1, <2>2 DEF wait
  <1>5. ASSUME NEW m \in Modules, NEW r \in TokenQueues, Push(m, r)
        PROVE  /\ Behind(tokens'[q], iqueue'[p]) /\ Sorted(tokens'[q])
               /\ Below(tokens'[q], stage'[p], pushed'[p], current'[p])
    <2> DEFINE e == current[m]
    <2>1. /\ stage[m] = "push" /\ r \in Pushes(Code[e]) \ pushed[m]
          /\ tokens' = [tokens EXCEPT ![r] = Append(@, e)]
          /\ pushed' = [pushed EXCEPT ![m] = @ \cup {r}]
          /\ UNCHANGED <<iqueue, current, stage>>
      BY <1>5 DEF Push, MayPush
    <2>2. CASE r # q
      <3>1. tokens'[q] = toks /\ (q \in pushed'[p] <=> q \in pushed[p])
        BY <1>a, <2>1, <2>2 DEF toks, TypeOK
      <3> QED
        BY <1>c, <2>1, <3>1 DEF wait
    <2>3. CASE r = q
      <3>1. e \in Pcs /\ Mod(e) = m
        BY <2>1 DEF TypeOK, CurrentOK, Pcs
      <3>2. p = m
        BY <2>1, <2>3, <3>1, InstructionFacts DEF p, TypeOK
      <3>3. tokens'[q] = Append(toks, e) /\ q \in pushed'[p] /\ q \notin pushed[p]
        BY <1>a, <2>1, <2>3, <3>2 DEF toks, TypeOK
      <3>4. \A k \in DOMAIN toks : toks[k] < e
        BY <1>c, <2>1, <3>2, <3>3
      <3>5. \A j \in DOMAIN wait : e < wait[j]
        BY <1>a, <3>2 DEF wait, InOrder
      <3> DEFINE t == Append(toks, e)
      <3>6. \A k \in DOMAIN t : \/ k \in DOMAIN toks /\ t[k] = toks[k]
                                \/ k = Len(toks) + 1 /\ t[k] = e
        BY <1>b, <3>1, AppendEntries
      <3>7. DOMAIN toks = 1 .. Len(toks) /\ Len(toks) \in Nat
        BY <1>b, LenProperties
      <3> HIDE DEF t, e
      <3>8. Behind(t, wait)
        BY <1>c, <3>5, <3>6
      <3>9. Sorted(t)
        BY <1>c, <3>4, <3>6, <3>7
      <3>10. \A k \in DOMAIN t : t[k] <= e
        BY <1>b, <3>1, <3>4, <3>6 DEF Pcs
      <3>11. tokens'[q] = t /\ iqueue'[p] = wait /\ current'[p] = e
        BY <2>1, <3>2, <3>3 DEF t, e, wait
      <3> QED
        BY <3>3, <3>8, <3>9, <3>10, <3>11
    <2> QED
      BY <2>2, <2>3
  <1>6. ASSUME NEW m \in Modules, NEW st \in Stages \ {"idle"},
               stage[m] # "idle", stage' = [stage EXCEPT ![m] = st],
               UNCHANGED <<iqueue, current, pushed, tokens>>
        PROVE  /\ Behind(tokens'[q], iqueue'[p]) /\ Sorted(tokens'[q])
               /\ Below(tokens'[q], stage'[p], pushed'[p], current'[p])
    <2>1. stage'[p] # "idle" => stage[p] # "idle"
      BY <1>6, <1>a DEF TypeOK
    <2> QED
      BY <1>6, <1>c, <2>1 DEF toks, wait
  <1>7. ASSUME NEW m \in Modules, Leave(m), UNCHANGED <<iqueue, tokens>>
        PROVE  /\ Behind(tokens'[q], iqueue'[p]) /\ Sorted(tokens'[q])
               /\ Below(tokens'[q], stage'[p], pushed'[p], current'[p])
    <2>1. stage'[p] # "idle" => /\ stage'[p] = stage[p] /\ pushed'[p] = pushed[p]
                                /\ current'[p] = current[p]
      BY <1>7, <1>a DEF Leave, TypeOK
    <2> QED
      BY <1>7, <1>c, <2>1 DEF toks, wait
  <1>8. ASSUME NEW m \in Modules, Start(m) \/ Finalize(m) \/ Retire(m)
        PROVE  /\ Behind(tokens'[q], iqueue'[p]) /\ Sorted(tokens'[q])
               /\ Below(tokens'[q], stage'[p], pushed'[p], current'[p])
    <2>1. CASE Start(m)
      BY <1>6, <2>1 DEF Start, MayStart, Stages
    <2>2. CASE Finalize(m) /\ Code[current[m]].finish
      BY <1>7, <2>2 DEF Finalize
    <2>3. CASE Finalize(m) /\ ~ Code[current[m]].finish
      BY <1>6, <2>3 DEF Finalize, MayFinalize, Stages
    <2>4. CASE Retire(m)
      BY <1>7, <2>4 DEF Retire
    <2> QED
      BY <1>8, <2>1, <2>2, <2>3, <2>4
  <1>9. CASE LoadLayer \/ UNCHANGED vars
    BY <1>1, <1>9 DEF LoadLayer, vars
  <1> QED
    BY <1>2, <1>3, <1>4, <1>5, <1>8, <1>9 DEF Next, ModuleStep

-----------------------------------------------------------------------------
(* A layer starts after the FINISH of the one before. *)

\* Layers end at increasing positions, and every FINISH ends one.
LEMMA LayerFacts ==
    ASSUME WellFormed(program)
    PROVE  /\ Len(program.layerEnd) \in Nat
           /\ \A k \in 1 .. Len(program.layerEnd) : program.layerEnd[k] \in Pcs
           /\ \A j, k \in 1 .. Len(program.layerEnd) :
                 j < k => program.layerEnd[j] < program.layerEnd[k]
           /\ \A i \in Pcs : Code[i].finish =>
                 \E k \in 1 .. Len(program.layerEnd) : i = program.layerEnd[k]
  <1>1. /\ DOMAIN program.layerEnd = 1 .. Len(program.layerEnd)
        /\ Len(program.layerEnd) \in Nat
        /\ DOMAIN program.code = 1 .. Len(program.code)
    BY LenProperties DEF WellFormed, Program
  <1> QED
    BY <1>1 DEF WellFormed, Pcs, Code

\* The FINISH in execution is that of the last layer loaded, and no trigger
\* is under way.
LEMMA FinishOfLastLayer ==
    ASSUME TypeOK, CurrentOK, LayerBarrier, NEW m \in Modules,
           stage[m] = "run", Code[current[m]].finish
    PROVE  layer \in 1 .. Len(program.layerEnd) /\ current[m] = program.layerEnd[layer] /\ triggers = 0
  <1> DEFINE i == current[m]
  <1>1. i \in 1 .. fetched /\ i \in Pcs /\ Mod(i) = m /\ fetched \in Nat
    BY DEF TypeOK, CurrentOK, Pcs
  <1>2. PICK k \in 1 .. Len(program.layerEnd) : i = program.layerEnd[k]
    BY <1>1, LayerFacts DEF TypeOK
  <1>3. ~ Executed(i)
    BY <1>1 DEF Executed
  <1>4. fetched <= Loaded /\ layer \in 0 .. Len(program.layerEnd)
    BY DEF TypeOK, LayerBarrier
  <1>5. layer # 0
    BY <1>1, <1>4 DEF Loaded
  <1>6. i <= program.layerEnd[layer]
    <2>1. fetched <= program.layerEnd[layer]
      BY <1>4, <1>5 DEF Loaded
    <2>2. program.layerEnd[layer] \in Pcs
      BY <1>4, <1>5, LayerFacts DEF TypeOK
    <2> QED
      BY <1>1, <2>1, <2>2 DEF Pcs
  <1>7. ~ layer < k
    BY <1>2, <1>4, <1>5, <1>6, LayerFacts DEF TypeOK, Pcs
  <1>8. k \in 1 .. layer
    BY <1>4, <1>5, <1>7, LayerFacts DEF TypeOK
  <1>9. ~ (k < layer \/ triggers = 1)
    BY <1>2, <1>3, <1>8 DEF LayerBarrier
  <1> QED
    BY <1>2, <1>4, <1>5, <1>8, <1>9, LayerFacts DEF LayerBarrier, TypeOK

\* Only the FINISH of the last layer loaded raises a trigger, and only a
\* trigger loads a layer.
LEMMA LayerBarrierStep ==
    TypeOK /\ CurrentOK /\ InOrder /\ LayerBarrier /\ [Next]_vars => LayerBarrier'
  <1> SUFFICES ASSUME TypeOK, CurrentOK, InOrder, LayerBarrier, [Next]_vars PROVE LayerBarrier'
    OBVIOUS
  <1>0. program' = program /\ Pcs' = Pcs
    BY ProgramFixed
  <1>a. /\ layer \in 0 .. Len(program.layerEnd)
        /\ Len(program.layerEnd) \in Nat
        /\ \A k \in 1 .. Len(program.layerEnd) : program.layerEnd[k] \in Pcs
        /\ \A j, k \in 1 .. Len(program.layerEnd) : j < k => program.layerEnd[j] < program.layerEnd[k]
        /\ fetched \in Nat
    BY LayerFacts DEF TypeOK
  <1>c. ASSUME NEW k \in 1 .. layer, NEW i \in Pcs, i = program.layerEnd[k], Executed(i)'
        PROVE  Executed(program.layerEnd[k])'
    BY <1>0, <1>c DEF Executed, Queued, Mod, Code
  <1>b. \A k \in 1 .. layer : k < layer \/ triggers = 1 => Executed(program.layerEnd[k])'
    <2> SUFFICES ASSUME NEW k \in 1 .. layer, k < layer \/ triggers = 1
                 PROVE  Executed(program.layerEnd[k])'
      OBVIOUS
    <2>1. PICK i \in Pcs : i = program.layerEnd[k]
      BY <1>a
    <2>2. Executed(i)
      BY <2>1 DEF LayerBarrier
    <2> QED
      BY <1>c, <2>1, <2>2, ExecutedStable
  <1>1. ASSUME UNCHANGED <<layer, triggers>>, fetched' <= Loaded PROVE LayerBarrier'
    BY <1>0, <1>1, <1>b DEF LayerBarrier, Loaded
  <1>2. CASE LoadLayer
    <2>1. /\ triggers = 1 /\ triggers' = 0
          /\ layer' = IF layer < Len(program.layerEnd) THEN layer + 1 ELSE layer
          /\ fetched' = fetched
      BY <1>2 DEF LoadLayer, MayLoad, LayerBarrier
    <2>2. fetched <= Loaded'
      <3>1. CASE layer' = layer
        BY <1>0, <3>1 DEF LayerBarrier, Loaded
      <3>2. CASE layer' = layer + 1 /\ layer < Len(program.layerEnd)
        <4>1. Loaded' = program.layerEnd[layer + 1] /\ layer + 1 \in 1 .. Len(program.layerEnd)
          BY <1>0, <1>a, <3>2 DEF Loaded
        <4>2. CASE layer = 0
          <5>1. fetched <= 0 /\ program.layerEnd[layer + 1] \in Pcs
            BY <1>a, <4>1, <4>2 DEF LayerBarrier, Loaded
          <5> QED
            BY <1>a, <4>1, <5>1 DEF Pcs
        <4>3. CASE layer # 0
          <5>1. /\ fetched <= program.layerEnd[layer]
                /\ program.layerEnd[layer] < program.layerEnd[layer + 1]
                /\ program.layerEnd[layer] \in Pcs /\ program.layerEnd[layer + 1] \in Pcs
            BY <1>a, <4>1, <4>3 DEF LayerBarrier, Loaded
          <5> QED
            BY <1>a, <4>1, <5>1 DEF Pcs
        <4> QED
          BY <4>2, <4>3
      <3> QED
        BY <2>1, <3>1, <3>2
    <2>3. \A k \in 1 .. layer' : k < layer' => k \in 1 .. layer
      BY <1>a, <2>1
    <2> QED
      BY <1>0, <1>b, <2>1, <2>2, <2>3 DEF LayerBarrier
  <1>3. CASE Fetch
    <2>1. fetched < Loaded /\ fetched' = fetched + 1 /\ UNCHANGED <<layer, triggers>>
      BY <1>3 DEF Fetch, MayFetch
    <2>2. Loaded \in Nat
      BY LoadedBound DEF TypeOK
    <2> QED
      BY <1>1, <1>a, <2>1, <2>2
  <1>4. ASSUME NEW m \in Modules, Finalize(m), Code[current[m]].finish PROVE LayerBarrier'
    <2>0. PICK i \in Pcs : i = current[m]
      BY <1>4 DEF Finalize, MayFinalize, CurrentOK, TypeOK, Pcs
    <2>1. Leave(m) /\ triggers' = triggers + 1 /\ UNCHANGED <<layer, fetched, iqueue>> /\ stage[m] = "run"
      BY <1>4 DEF Finalize, MayFinalize
    <2>2. layer \in 1 .. Len(program.layerEnd) /\ i = program.layerEnd[layer] /\ triggers = 0
      BY <1>4, <2>0, <2>1, FinishOfLastLayer
    <2>3. Executed(i)'
      <3>1. i \in 1 .. fetched /\ Mod(i) = m
        BY <2>0, <2>1 DEF CurrentOK
      <3>2. ~ Queued(i)
        BY <2>0, <3>1 DEF Queued, InOrder, Pcs
      <3>3. current'[m] = 0
        BY <2>1 DEF Leave, TypeOK
      <3>4. Mod(i)' = Mod(i) /\ ~ Queued(i)'
        BY <1>0, <2>1, <3>2 DEF Queued, Mod, Code
      <3> QED
        BY <2>1, <3>1, <3>3, <3>4 DEF Executed, Pcs
    <2>4. \A k \in 1 .. layer : k < layer \/ k = layer
      BY <2>2
    <2>5. \A k \in 1 .. layer : Executed(program.layerEnd[k])'
      BY <1>b, <1>c, <2>2, <2>3, <2>4
    <2> QED
      BY <1>0, <2>1, <2>2, <2>5 DEF LayerBarrier, Loaded
  <1>5. ASSUME NEW m \in Modules, Finalize(m), ~ Code[current[m]].finish PROVE LayerBarrier'
    BY <1>1, <1>5 DEF Finalize, LayerBarrier
  <1>6. ASSUME NEW m \in Modules, Issue(m) \/ Start(m) \/ Retire(m) PROVE LayerBarrier'
    BY <1>1, <1>6 DEF Issue, Start, Retire, LayerBarrier
  <1>7. ASSUME NEW m \in Modules, NEW q \in TokenQueues, Pull(m, q) \/ Push(m, q) PROVE LayerBarrier'
    BY <1>1, <1>7 DEF Pull, Push, LayerBarrier
  <1>8. CASE UNCHANGED vars
    BY <1>1, <1>8 DEF vars, LayerBarrier
  <1> QED
    BY <1>2, <1>3, <1>4, <1>5, <1>6, <1>7, <1>8 DEF Next, ModuleStep

-----------------------------------------------------------------------------
(* The theorems. *)

\* IInv holds in every reachable state: it is inductive.
THEOREM Invariance == Spec => []IInv
  <1>1. Init => IInv
    BY InitInv
  <1>2. IInv /\ [Next]_vars => IInv'
    BY TypeStep, CurrentStep, InOrderStep, TokensEarnedStep, TokensInOrderStep, LayerBarrierStep
       DEF IInv
  <1> QED
    BY <1>1, <1>2, PTL DEF Spec

\* Type correctness of the pipeline, for every program and capacity.
THEOREM TypeCorrect == Spec => []TypeOK
  BY Invariance, PTL DEF IInv

\* An instruction runs only when it has pulled every token it pops, and an
\* idle module holds none.
THEOREM DependenciesHonoured == Spec => []CurrentOK
  BY Invariance, PTL DEF IInv

\* Each module executes its instructions in program order: its FIFO is sorted
\* and everything in it comes after the instruction in execution.
THEOREM ProgramOrder == Spec => []InOrder
  BY Invariance, PTL DEF IInv

\* Every token in l2c, c2l, s2c or c2s was pushed by an instruction that has
\* finished executing and carries the push flag of that queue.
THEOREM TokensAreEarned == Spec => []TokensEarned
  BY Invariance, PTL DEF IInv

\* No instruction has two tokens in a queue, and tokens are never reordered.
THEOREM TokensAreOrdered == Spec => []TokensInOrder
  BY Invariance, PTL DEF IInv

\* The host starts a layer only after the FINISH of the previous one.
THEOREM LayersAreSequential == Spec => []LayerBarrier
  BY Invariance, PTL DEF IInv

(***************************************************************************)
(* Progress.                                                                *)
(***************************************************************************)
-----------------------------------------------------------------------------
(* Facts about the state. *)

\* Every token queue is read by a module, and no module reads what it feeds.
LEMMA PortFacts ==
    ASSUME WellFormed(program), NEW i \in Pcs
    PROVE  /\ \A q \in Pops(Code[i]) : q \in TokenQueues /\ Consumer[q] = Mod(i)
           /\ \A q \in Pushes(Code[i]) : q \in TokenQueues /\ Producer[q] = Mod(i)
           /\ Pops(Code[i]) \cap Pushes(Code[i]) = {}
           /\ Mod(i) \in Modules
           /\ Code[i].finish => Pushes(Code[i]) = {}
  <1>1. Code \in Seq(Instruction)
    BY DEF WellFormed, Program, Code
  <1>2. Code[i] \in Instruction
    BY <1>1, ElementOfSeq DEF Pcs
  <1>3. \A q \in TokenQueues : Consumer[q] # Producer[q]
    BY DEF TokenQueues, Queues, Consumer, Producer
  <1> QED
    BY <1>2, <1>3 DEF Mod, Instruction, Pops, Pushes, PopPorts, PushPorts

\* The instruction of a busy module.
LEMMA BusyFacts ==
    ASSUME TypeOK, CurrentOK, InOrder, NEW m \in Modules, stage[m] # "idle"
    PROVE  /\ current[m] \in Pcs /\ current[m] <= fetched /\ Mod(current[m]) = m
           /\ Gone(current[m])
  <1>1. /\ current[m] \in 1 .. fetched /\ Mod(current[m]) = m
        /\ fetched \in 0 .. Len(Code) /\ current[m] \in Pcs \cup {0}
    BY DEF CurrentOK, TypeOK
  <1>2. current[m] \in Pcs /\ current[m] <= fetched
    BY <1>1 DEF Pcs
  <1>3. ~ Queued(current[m])
    BY <1>1, <1>2 DEF InOrder, Queued, Pcs
  <1> QED
    BY <1>1, <1>2, <1>3 DEF Gone

\* What waits in a queue.
LEMMA QueueFacts ==
    ASSUME TypeOK, InOrder, NEW m \in Modules, NEW k \in DOMAIN iqueue[m]
    PROVE  /\ iqueue[m][k] \in Pcs /\ iqueue[m][k] <= fetched /\ Mod(iqueue[m][k]) = m
           /\ Queued(iqueue[m][k])
  <1>1. iqueue[m] \in Seq(Pcs)
    BY DEF TypeOK
  <1>2. iqueue[m][k] \in Pcs
    BY <1>1, ElementOfSeq, LenProperties
  <1> QED
    BY <1>2 DEF InOrder, Queued

\* A module without an instruction has none in progress.
LEMMA IdleFacts ==
    ASSUME TypeOK, CurrentOK, NEW m \in Modules, stage[m] = "idle"
    PROVE  current[m] = 0 /\ pulled[m] = {} /\ pushed[m] = {} /\ current[m] \notin Pcs
  BY DEF CurrentOK, Pcs

-----------------------------------------------------------------------------
(* What has left its queue, has been pulled and has been pushed. *)

\* No step changes the program, nor what it says of an instruction.
LEMMA CodeFixed ==
    ASSUME TypeOK, [Next]_vars
    PROVE  /\ Code' = Code /\ Pcs' = Pcs /\ program' = program
           /\ \A i : Mod(i)' = Mod(i)
           /\ \A i : Pops(Code[i])' = Pops(Code[i]) /\ Pushes(Code[i])' = Pushes(Code[i])
           /\ \A q, n : Pushed(Code, q, n)' = Pushed(Code, q, n)
           /\ \A q, n : Popped(Code, q, n)' = Popped(Code, q, n)
  <1>1. Code' = Code /\ Pcs' = Pcs /\ program' = program
    BY ProgramFixed
  <1> QED
    BY <1>1 DEF Mod, Pops, Pushes, PopPorts, PushPorts, Pushed, Popped

\* Steps that leave the instruction queues alone.
LEMMA QueuesAlone ==
    ASSUME TypeOK, [Next]_vars, UNCHANGED <<fetched, iqueue>>
    PROVE  \A i : (Queued(i)' <=> Queued(i)) /\ (Gone(i)' <=> Gone(i))
  <1>1. \A i : Queued(i)' <=> Queued(i)
    BY CodeFixed DEF Queued
  <1> QED
    BY <1>1 DEF Gone

\* What the Fetcher hands over waits in the queue of its module.
LEMMA AfterFetch ==
    ASSUME TypeOK, LayerBarrier, Fetch, NEW n, n = fetched + 1
    PROVE  /\ n \in Pcs /\ Mod(n) \in Modules /\ Queued(n)'
           /\ \A i \in Pcs : Gone(i)' <=> Gone(i)
           /\ \A m \in Modules : \A k \in DOMAIN iqueue'[m] :
                 \/ iqueue'[m][k] = n
                 \/ \E j \in DOMAIN iqueue[m] : iqueue'[m][k] = iqueue[m][j]
  <1>0. [Next]_vars
    BY DEF Next
  <1>1. fetched \in Nat /\ n \in Pcs
    BY LoadedBound DEF Fetch, MayFetch, TypeOK, Pcs, WellFormed, Program
  <1>2. Mod(n) \in Modules
    BY <1>1, InstructionFacts DEF TypeOK
  <1>3. fetched' = n /\ iqueue' = [iqueue EXCEPT ![Mod(n)] = Append(@, n)]
    BY DEF Fetch
  <1> DEFINE s == iqueue[Mod(n)]
  <1>4. /\ s \in Seq(Pcs)
        /\ iqueue'[Mod(n)] = Append(s, n)
        /\ \A m \in Modules \ {Mod(n)} : iqueue'[m] = iqueue[m]
    BY <1>2, <1>3 DEF TypeOK
  <1>5. /\ DOMAIN Append(s, n) = 1 .. Len(s) + 1
        /\ \A k \in DOMAIN Append(s, n) : Append(s, n)[k] = IF k \in DOMAIN s THEN s[k] ELSE n
        /\ DOMAIN s = 1 .. Len(s)
        /\ Len(s) \in Nat
    BY <1>1, <1>4, AppendEntries
  <1> DEFINE t == Append(s, n)
  <1>6. /\ \A k \in DOMAIN t : (k \in DOMAIN s /\ t[k] = s[k]) \/ t[k] = n
        /\ \A k \in DOMAIN s : k \in DOMAIN t /\ t[k] = s[k]
        /\ Len(s) + 1 \in DOMAIN t /\ t[Len(s) + 1] = n
    BY <1>5
  <1> HIDE DEF s, t
  <1>7. Queued(n)'
    BY <1>0, <1>4, <1>6, CodeFixed DEF Queued, t
  <1>8. ASSUME NEW i \in Pcs \ {n} PROVE Queued(i)' <=> Queued(i)
    <2>1. Mod(i)' = Mod(i) /\ Mod(i) \in Modules
      BY <1>0, CodeFixed, InstructionFacts DEF TypeOK
    <2>2. CASE Mod(i) = Mod(n)
      BY <1>4, <1>6, <2>1, <2>2 DEF Queued, t, s
    <2>3. CASE Mod(i) # Mod(n)
      BY <1>4, <2>1, <2>3 DEF Queued
    <2> QED
      BY <2>2, <2>3
  <1>9. ASSUME NEW i \in Pcs PROVE Gone(i)' <=> Gone(i)
    <2>1. CASE i = n
      BY <1>1, <1>7, <2>1 DEF Gone
    <2>2. CASE i # n
      <3>1. i \in 1 .. fetched' <=> i \in 1 .. fetched
        BY <1>1, <1>3, <2>2 DEF Pcs
      <3> QED
        BY <1>8, <2>2, <3>1 DEF Gone
    <2> QED
      BY <2>1, <2>2
  <1>10. ASSUME NEW m \in Modules, NEW k \in DOMAIN iqueue'[m]
         PROVE  \/ iqueue'[m][k] = n
                \/ \E j \in DOMAIN iqueue[m] : iqueue'[m][k] = iqueue[m][j]
    <2>1. CASE m = Mod(n)
      <3>1. iqueue'[m] = t /\ iqueue[m] = s
        BY <1>4, <2>1 DEF t, s
      <3> QED
        BY <1>6, <3>1
    <2>2. CASE m # Mod(n)
      <3>1. iqueue'[m] = iqueue[m]
        BY <1>4, <2>2
      <3> QED
        BY <3>1
    <2> QED
      BY <2>1, <2>2
  <1> QED
    BY <1>1, <1>2, <1>7, <1>9, <1>10

\* The head of the queue leaves it, and nothing else does.
LEMMA AfterIssue ==
    ASSUME TypeOK, InOrder, NEW m \in Modules, Issue(m),
           NEW h, h = Head(iqueue[m])
    PROVE  /\ h \in Pcs /\ Mod(h) = m /\ ~ Gone(h) /\ Gone(h)'
           /\ \A i \in Pcs \ {h} : Gone(i)' <=> Gone(i)
           /\ \E k \in DOMAIN iqueue[m] : iqueue[m][k] = h
           /\ \A k \in DOMAIN iqueue'[m] :
                 iqueue'[m][k] > h /\ \E j \in DOMAIN iqueue[m] : iqueue'[m][k] = iqueue[m][j]
           /\ \A n \in Modules \ {m} : iqueue'[n] = iqueue[n]
  <1> DEFINE s == iqueue[m]
             t == Tail(s)
  <1>0. [Next]_vars
    BY DEF Next, ModuleStep
  <1>1. /\ s \in Seq(Pcs) /\ s # << >>
        /\ iqueue'[m] = t
        /\ \A n \in Modules \ {m} : iqueue'[n] = iqueue[n]
        /\ fetched' = fetched
    BY DEF Issue, MayIssue, TypeOK
  <1>2. /\ 1 \in DOMAIN s /\ h = s[1]
        /\ DOMAIN t = 1 .. Len(s) - 1
        /\ \A k \in DOMAIN t : k + 1 \in DOMAIN s /\ t[k] = s[k + 1]
        /\ DOMAIN s = 1 .. Len(s)
        /\ Len(s) \in Nat
    BY <1>1, TailEntries
  <1>3. /\ \A k \in DOMAIN s : s[k] \in Pcs /\ s[k] <= fetched /\ Mod(s[k]) = m
        /\ \A j, k \in DOMAIN s : j < k => s[j] < s[k]
    <2>1. \A k \in DOMAIN s : s[k] \in Pcs
      BY <1>1, ElementOfSeq, LenProperties
    <2> QED
      BY <2>1 DEF InOrder
  <1> HIDE DEF s, t
  <1>4. h \in Pcs /\ h <= fetched /\ Mod(h) = m
    BY <1>2, <1>3
  <1>5. \A k \in DOMAIN t : t[k] \in Pcs /\ t[k] > h /\ \E j \in DOMAIN s : t[k] = s[j]
    BY <1>2, <1>3 DEF Pcs
  <1>6. \A k \in DOMAIN s : s[k] # h => \E j \in DOMAIN t : t[j] = s[k]
    <2> SUFFICES ASSUME NEW k \in DOMAIN s, s[k] # h PROVE \E j \in DOMAIN t : t[j] = s[k]
      OBVIOUS
    <2>1. k - 1 \in DOMAIN t
      BY <1>2
    <2>2. t[k - 1] = s[(k - 1) + 1] /\ (k - 1) + 1 = k
      BY <1>2, <2>1
    <2> QED
      BY <2>1, <2>2
  <1>7. Queued(h) /\ ~ Queued(h)'
    <2>1. Queued(h)
      BY <1>2, <1>4 DEF Queued, s
    <2>2. Mod(h)' = m
      BY <1>0, <1>4, CodeFixed
    <2>3. \A k \in DOMAIN t : t[k] # h
      BY <1>4, <1>5 DEF Pcs
    <2> QED
      BY <1>1, <2>1, <2>2, <2>3 DEF Queued
  <1>8. ASSUME NEW i \in Pcs \ {h} PROVE Queued(i)' <=> Queued(i)
    <2>1. Mod(i)' = Mod(i) /\ Mod(i) \in Modules
      BY <1>0, CodeFixed, InstructionFacts DEF TypeOK
    <2>2. CASE Mod(i) = m
      <3>1. (\E k \in DOMAIN t : t[k] = i) <=> (\E k \in DOMAIN s : s[k] = i)
        BY <1>5, <1>6
      <3> QED
        BY <1>1, <2>1, <2>2, <3>1 DEF Queued, s
    <2>3. CASE Mod(i) # m
      BY <1>1, <2>1, <2>3 DEF Queued
    <2> QED
      BY <2>2, <2>3
  <1>9. ~ Gone(h) /\ Gone(h)' /\ \A i \in Pcs \ {h} : Gone(i)' <=> Gone(i)
    BY <1>1, <1>4, <1>7, <1>8 DEF Gone, Pcs, TypeOK
  <1> QED
    BY <1>1, <1>2, <1>4, <1>5, <1>9 DEF s

-----------------------------------------------------------------------------
(* Order of departure. *)

\* A module takes the head of a sorted queue, and the Fetcher appends what
\* comes later, so that instructions leave their queue in program order.
LEMMA LeftInOrderStep ==
    TypeOK /\ CurrentOK /\ InOrder /\ LayerBarrier /\ LeftInOrder /\ [Next]_vars => LeftInOrder'
  <1> SUFFICES ASSUME TypeOK, CurrentOK, InOrder, LayerBarrier, LeftInOrder, [Next]_vars,
                      NEW i \in Pcs, Gone(i)'
               PROVE  /\ \A k \in DOMAIN iqueue'[Mod(i)] : i < iqueue'[Mod(i)][k]
                      /\ stage'[Mod(i)] # "idle" => i <= current'[Mod(i)]
    BY CodeFixed DEF LeftInOrder
  <1> DEFINE p == Mod(i)
  <1>a. p \in Modules /\ i \in Nat
    BY InstructionFacts DEF TypeOK, Pcs
  <1>b. Gone(i) => /\ \A k \in DOMAIN iqueue[p] : i < iqueue[p][k]
                   /\ stage[p] # "idle" => i <= current[p]
    BY DEF LeftInOrder
  <1> HIDE DEF p
  <1>1. ASSUME UNCHANGED <<fetched, iqueue>>,
               stage'[p] # "idle" => stage[p] # "idle" /\ current'[p] = current[p]
        PROVE  /\ \A k \in DOMAIN iqueue'[p] : i < iqueue'[p][k]
               /\ stage'[p] # "idle" => i <= current'[p]
    BY <1>1, <1>b, QueuesAlone
  <1>2. CASE Fetch
    <2>0. PICK n : n = fetched + 1
      OBVIOUS
    <2>1. /\ n \in Pcs /\ Gone(i)
          /\ \A k \in DOMAIN iqueue'[p] :
                iqueue'[p][k] = n \/ \E j \in DOMAIN iqueue[p] : iqueue'[p][k] = iqueue[p][j]
      BY <1>2, <1>a, <2>0, AfterFetch
    <2>2. i < n
      BY <2>0, <2>1 DEF Gone, TypeOK
    <2>3. UNCHANGED <<stage, current>>
      BY <1>2 DEF Fetch
    <2> QED
      BY <1>b, <2>1, <2>2, <2>3 DEF p
  <1>3. ASSUME NEW m \in Modules, Issue(m)
        PROVE  /\ \A k \in DOMAIN iqueue'[p] : i < iqueue'[p][k]
               /\ stage'[p] # "idle" => i <= current'[p]
    <2>0. PICK h : h = Head(iqueue[m])
      OBVIOUS
    <2>1. /\ h \in Pcs /\ Mod(h) = m
          /\ i # h => Gone(i)
          /\ \E k \in DOMAIN iqueue[m] : iqueue[m][k] = h
          /\ \A k \in DOMAIN iqueue'[m] :
                iqueue'[m][k] > h /\ \E j \in DOMAIN iqueue[m] : iqueue'[m][k] = iqueue[m][j]
          /\ \A n \in Modules \ {m} : iqueue'[n] = iqueue[n]
      BY <1>3, <2>0, AfterIssue
    <2>2. /\ current' = [current EXCEPT ![m] = h]
          /\ stage' = [stage EXCEPT ![m] = "pull"]
      BY <1>3, <2>0 DEF Issue
    <2>3. CASE p # m
      BY <1>a, <1>b, <2>1, <2>2, <2>3 DEF TypeOK, p
    <2>4. CASE p = m
      <3>1. current'[p] = h
        BY <1>a, <2>2, <2>4 DEF TypeOK
      <3>2. CASE i = h
        BY <1>a, <2>1, <2>4, <3>1, <3>2
      <3>3. CASE i # h
        <4>1. \A k \in DOMAIN iqueue[p] : i < iqueue[p][k]
          BY <1>b, <2>1, <3>3
        <4> QED
          BY <1>a, <2>1, <2>4, <3>1, <4>1 DEF Pcs
      <3> QED
        BY <3>2, <3>3
    <2> QED
      BY <2>3, <2>4
  <1>4. ASSUME NEW m \in Modules, Start(m) \/ Finalize(m) \/ Retire(m)
        PROVE  /\ \A k \in DOMAIN iqueue'[p] : i < iqueue'[p][k]
               /\ stage'[p] # "idle" => i <= current'[p]
    <2>1. UNCHANGED <<fetched, iqueue>>
      BY <1>4 DEF Start, Finalize, Retire
    <2>2. \/ Leave(m)
          \/ stage[m] # "idle" /\ current' = current /\ \E st : stage' = [stage EXCEPT ![m] = st]
      BY <1>4 DEF Start, MayStart, Finalize, MayFinalize, Retire
    <2>3. stage'[p] # "idle" => stage[p] # "idle" /\ current'[p] = current[p]
      BY <1>a, <2>2 DEF Leave, TypeOK
    <2> QED
      BY <1>1, <2>1, <2>3
  <1>5. ASSUME NEW m \in Modules, NEW q \in TokenQueues, Pull(m, q) \/ Push(m, q)
        PROVE  /\ \A k \in DOMAIN iqueue'[p] : i < iqueue'[p][k]
               /\ stage'[p] # "idle" => i <= current'[p]
    BY <1>1, <1>5 DEF Pull, Push
  <1>6. CASE LoadLayer \/ UNCHANGED vars
    BY <1>1, <1>6 DEF LoadLayer, vars, p
  <1> QED
    BY <1>2, <1>3, <1>4, <1>5, <1>6 DEF Next, ModuleStep, p

-----------------------------------------------------------------------------
(* Who has pulled from a queue, and who has pushed to it. *)

SameHands ==
    \A i \in Pcs, q \in TokenQueues :
        /\ HasPulled(i, q)' <=> HasPulled(i, q)
        /\ HasPushed(i, q)' <=> HasPushed(i, q)

\* Fetching an instruction is not taking it.
LEMMA FetchKeepsHands ==
    ASSUME TypeOK, LayerBarrier, Fetch
    PROVE  SameHands
  <1>1. [Next]_vars /\ UNCHANGED <<current, pulled, pushed>>
    BY DEF Next, Fetch
  <1>2. \A i \in Pcs : Gone(i)' <=> Gone(i)
    BY AfterFetch
  <1> QED
    BY <1>1, <1>2, CodeFixed DEF SameHands, HasPulled, HasPushed

\* An instruction is taken with no token pulled or pushed.
LEMMA IssueKeepsHands ==
    ASSUME TypeOK, CurrentOK, InOrder, NEW m \in Modules, Issue(m)
    PROVE  SameHands
  <1>0. PICK h : h = Head(iqueue[m])
    OBVIOUS
  <1>1. /\ h \in Pcs /\ Mod(h) = m /\ ~ Gone(h)
        /\ \A i \in Pcs \ {h} : Gone(i)' <=> Gone(i)
    BY <1>0, AfterIssue
  <1>2. /\ [Next]_vars
        /\ current' = [current EXCEPT ![m] = h] /\ UNCHANGED <<pulled, pushed>>
        /\ current[m] = 0 /\ pulled[m] = {} /\ pushed[m] = {}
    BY <1>0, IdleFacts DEF Next, ModuleStep, Issue, MayIssue
  <1> SUFFICES ASSUME NEW i \in Pcs, NEW q \in TokenQueues
               PROVE  /\ HasPulled(i, q)' <=> HasPulled(i, q)
                      /\ HasPushed(i, q)' <=> HasPushed(i, q)
    BY DEF SameHands
  <1>3. CASE i = h
    <2>1. current'[m] = h /\ Mod(i)' = m
      BY <1>1, <1>2, <1>3, CodeFixed DEF TypeOK
    <2>2. ~ HasPulled(i, q)' /\ ~ HasPushed(i, q)'
      BY <1>2, <1>3, <2>1 DEF HasPulled, HasPushed
    <2> QED
      BY <1>1, <1>3, <2>2 DEF HasPulled, HasPushed
  <1>4. CASE i # h
    <2>1. Mod(i) \in Modules /\ Mod(i)' = Mod(i)
      BY <1>2, CodeFixed, InstructionFacts DEF TypeOK
    <2>2. current'[Mod(i)] = i <=> current[Mod(i)] = i
      BY <1>2, <1>4, <2>1 DEF TypeOK, Pcs
    <2>3. Gone(i)' <=> Gone(i)
      BY <1>1, <1>4
    <2> QED
      BY <1>2, <2>1, <2>2, <2>3, CodeFixed DEF HasPulled, HasPushed
  <1> QED
    BY <1>3, <1>4

\* An instruction leaves with all its tokens pulled and pushed.
LEMMA LeaveKeepsHands ==
    ASSUME TypeOK, CurrentOK, InOrder, NEW m \in Modules, Finalize(m) \/ Retire(m)
    PROVE  SameHands
  <1>1. [Next]_vars /\ UNCHANGED <<fetched, iqueue>>
    BY DEF Next, ModuleStep, Finalize, Retire
  <1>2. \A i : Gone(i)' <=> Gone(i)
    BY <1>1, QueuesAlone
  <1>3. CASE UNCHANGED <<current, pulled, pushed>>
    BY <1>1, <1>2, <1>3, CodeFixed DEF SameHands, HasPulled, HasPushed
  <1>4. CASE Leave(m) /\ ((stage[m] = "run" /\ Code[current[m]].finish) \/ MayRetire(m))
    <2> DEFINE c == current[m]
    <2>1. c \in Pcs /\ Mod(c) = m
      BY <1>4, BusyFacts DEF MayRetire
    <2>2. pulled[m] = Pops(Code[c]) /\ pushed[m] = Pushes(Code[c])
      <3>1. CASE MayRetire(m)
        BY <3>1 DEF MayRetire, CurrentOK
      <3>2. CASE stage[m] = "run" /\ Code[current[m]].finish
        BY <2>1, <3>2, PortFacts DEF CurrentOK, TypeOK
      <3> QED
        BY <1>4, <3>1, <3>2
    <2>3. /\ current' = [current EXCEPT ![m] = 0]
          /\ pulled' = [pulled EXCEPT ![m] = {}]
          /\ pushed' = [pushed EXCEPT ![m] = {}]
      BY <1>4 DEF Leave
    <2> SUFFICES ASSUME NEW i \in Pcs, NEW q \in TokenQueues
                 PROVE  /\ HasPulled(i, q)' <=> HasPulled(i, q)
                        /\ HasPushed(i, q)' <=> HasPushed(i, q)
      BY DEF SameHands
    <2>4. Mod(i) \in Modules /\ Mod(i)' = Mod(i)
      BY <1>1, CodeFixed, InstructionFacts DEF TypeOK
    <2>5. CASE Mod(i) = m
      <3>1. current'[Mod(i)] # i
        BY <2>3, <2>4, <2>5 DEF TypeOK, Pcs
      <3>2. /\ HasPulled(i, q)' <=> Gone(i) /\ q \in Pops(Code[i])
            /\ HasPushed(i, q)' <=> Gone(i) /\ q \in Pushes(Code[i])
        BY <1>1, <1>2, <2>4, <3>1, CodeFixed DEF HasPulled, HasPushed
      <3>3. /\ HasPulled(i, q) <=> Gone(i) /\ q \in Pops(Code[i])
            /\ HasPushed(i, q) <=> Gone(i) /\ q \in Pushes(Code[i])
        BY <2>2, <2>5 DEF HasPulled, HasPushed
      <3> QED
        BY <3>2, <3>3
    <2>6. CASE Mod(i) # m
      <3>1. /\ current'[Mod(i)] = current[Mod(i)]
            /\ pulled'[Mod(i)] = pulled[Mod(i)]
            /\ pushed'[Mod(i)] = pushed[Mod(i)]
        BY <2>3, <2>4, <2>6 DEF TypeOK
      <3> QED
        BY <1>1, <1>2, <2>4, <3>1, CodeFixed DEF HasPulled, HasPushed
    <2> QED
      BY <2>5, <2>6
  <1> QED
    BY <1>3, <1>4 DEF Finalize, MayFinalize, Retire

\* Nor do the steps that leave the marks alone.
LEMMA OthersKeepHands ==
    ASSUME TypeOK, [Next]_vars, UNCHANGED <<fetched, iqueue, current, pulled, pushed>>
    PROVE  SameHands
  BY QueuesAlone, CodeFixed DEF SameHands, HasPulled, HasPushed

\* Pulling a token makes one puller more, the instruction of the module.
LEMMA HandsOfPull ==
    ASSUME TypeOK, CurrentOK, InOrder, NEW m \in Modules, NEW r \in TokenQueues, Pull(m, r),
           NEW c, c = current[m]
    PROVE  /\ c \in Pcs /\ c \notin Pullers(r)
           /\ Pullers(r)' = Pullers(r) \cup {c}
           /\ \A q \in TokenQueues \ {r} : Pullers(q)' = Pullers(q)
           /\ \A q \in TokenQueues : Pushers(q)' = Pushers(q)
  <1>1. /\ stage[m] # "idle" /\ r \in Pops(Code[c]) /\ r \notin pulled[m]
        /\ pulled' = [pulled EXCEPT ![m] = @ \cup {r}]
        /\ UNCHANGED <<fetched, iqueue, current, pushed>>
    BY DEF Pull, MayPull
  <1>2. [Next]_vars
    BY DEF Next, ModuleStep
  <1>3. c \in Pcs /\ Mod(c) = m /\ Gone(c)
    BY <1>1, BusyFacts
  <1>4. \A i : Gone(i)' <=> Gone(i)
    BY <1>1, <1>2, QueuesAlone
  <1>5. \A i \in Pcs, q \in TokenQueues : HasPushed(i, q)' <=> HasPushed(i, q)
    BY <1>1, <1>2, <1>4, CodeFixed DEF HasPushed
  <1>6. \A i \in Pcs, q \in TokenQueues :
           HasPulled(i, q)' <=> HasPulled(i, q) \/ (i = c /\ q = r)
    <2> SUFFICES ASSUME NEW i \in Pcs, NEW q \in TokenQueues
                 PROVE  HasPulled(i, q)' <=> HasPulled(i, q) \/ (i = c /\ q = r)
      OBVIOUS
    <2>1. Mod(i) \in Modules
      BY InstructionFacts DEF TypeOK
    <2>2. HasPulled(i, q)' <=>
             Gone(i) /\ q \in Pops(Code[i]) /\ (current[Mod(i)] = i => q \in pulled'[Mod(i)])
      BY <1>1, <1>2, <1>4, CodeFixed DEF HasPulled
    <2>3. CASE Mod(i) = m
      <3>1. pulled'[Mod(i)] = pulled[m] \cup {r}
        BY <1>1, <2>3 DEF TypeOK
      <3> QED
        BY <1>1, <1>3, <2>2, <2>3, <3>1 DEF HasPulled
    <2>4. CASE Mod(i) # m
      <3>1. pulled'[Mod(i)] = pulled[Mod(i)]
        BY <1>1, <2>1, <2>4 DEF TypeOK
      <3> QED
        BY <1>3, <2>2, <2>4, <3>1 DEF HasPulled
    <2> QED
      BY <2>3, <2>4
  <1>7. c \notin Pullers(r)
    BY <1>1, <1>3 DEF Pullers, HasPulled
  <1> QED
    BY <1>2, <1>3, <1>5, <1>6, <1>7, CodeFixed DEF Pullers, Pushers

\* Pushing a token makes one pusher more.
LEMMA HandsOfPush ==
    ASSUME TypeOK, CurrentOK, InOrder, NEW m \in Modules, NEW r \in TokenQueues, Push(m, r),
           NEW c, c = current[m]
    PROVE  /\ c \in Pcs /\ c \notin Pushers(r)
           /\ Pushers(r)' = Pushers(r) \cup {c}
           /\ \A q \in TokenQueues \ {r} : Pushers(q)' = Pushers(q)
           /\ \A q \in TokenQueues : Pullers(q)' = Pullers(q)
  <1>1. /\ stage[m] # "idle" /\ r \in Pushes(Code[c]) /\ r \notin pushed[m]
        /\ pushed' = [pushed EXCEPT ![m] = @ \cup {r}]
        /\ UNCHANGED <<fetched, iqueue, current, pulled>>
    BY DEF Push, MayPush
  <1>2. [Next]_vars
    BY DEF Next, ModuleStep
  <1>3. c \in Pcs /\ Mod(c) = m /\ Gone(c)
    BY <1>1, BusyFacts
  <1>4. \A i : Gone(i)' <=> Gone(i)
    BY <1>1, <1>2, QueuesAlone
  <1>5. \A i \in Pcs, q \in TokenQueues : HasPulled(i, q)' <=> HasPulled(i, q)
    BY <1>1, <1>2, <1>4, CodeFixed DEF HasPulled
  <1>6. \A i \in Pcs, q \in TokenQueues :
           HasPushed(i, q)' <=> HasPushed(i, q) \/ (i = c /\ q = r)
    <2> SUFFICES ASSUME NEW i \in Pcs, NEW q \in TokenQueues
                 PROVE  HasPushed(i, q)' <=> HasPushed(i, q) \/ (i = c /\ q = r)
      OBVIOUS
    <2>1. Mod(i) \in Modules
      BY InstructionFacts DEF TypeOK
    <2>2. HasPushed(i, q)' <=>
             Gone(i) /\ q \in Pushes(Code[i]) /\ (current[Mod(i)] = i => q \in pushed'[Mod(i)])
      BY <1>1, <1>2, <1>4, CodeFixed DEF HasPushed
    <2>3. CASE Mod(i) = m
      <3>1. pushed'[Mod(i)] = pushed[m] \cup {r}
        BY <1>1, <2>3 DEF TypeOK
      <3> QED
        BY <1>1, <1>3, <2>2, <2>3, <3>1 DEF HasPushed
    <2>4. CASE Mod(i) # m
      <3>1. pushed'[Mod(i)] = pushed[Mod(i)]
        BY <1>1, <2>1, <2>4 DEF TypeOK
      <3> QED
        BY <1>3, <2>2, <2>4, <3>1 DEF HasPushed
    <2> QED
      BY <2>3, <2>4
  <1>7. c \notin Pushers(r)
    BY <1>1, <1>3 DEF Pushers, HasPushed
  <1> QED
    BY <1>2, <1>3, <1>5, <1>6, <1>7, CodeFixed DEF Pullers, Pushers

-----------------------------------------------------------------------------
(* Counting them. *)

\* How many have pushed, and pulled, is a number.
LEMMA HandsFinite ==
    ASSUME TypeOK, NEW q
    PROVE  /\ IsFiniteSet(Pullers(q)) /\ Cardinality(Pullers(q)) \in Nat
           /\ IsFiniteSet(Pushers(q)) /\ Cardinality(Pushers(q)) \in Nat
  <1>1. IsFiniteSet(Pcs)
    BY FS_Interval DEF TypeOK, Pcs
  <1>2. Pullers(q) \in SUBSET Pcs /\ Pushers(q) \in SUBSET Pcs
    BY DEF Pullers, Pushers
  <1> QED
    BY <1>1, <1>2, FS_Subset, FS_CardinalityType

\* So is how many instructions of a prefix push, or pop.
LEMMA PrefixFinite ==
    ASSUME NEW s, NEW q, NEW n \in Nat
    PROVE  /\ IsFiniteSet({i \in 1 .. n : q \in Pushes(s[i])}) /\ Pushed(s, q, n) \in Nat
           /\ IsFiniteSet({i \in 1 .. n : q \in Pops(s[i])}) /\ Popped(s, q, n) \in Nat
  <1>1. IsFiniteSet(1 .. n)
    BY FS_Interval
  <1>2. /\ {i \in 1 .. n : q \in Pushes(s[i])} \in SUBSET (1 .. n)
        /\ {i \in 1 .. n : q \in Pops(s[i])} \in SUBSET (1 .. n)
    OBVIOUS
  <1> QED
    BY <1>1, <1>2, FS_Subset, FS_CardinalityType DEF Pushed, Popped

\* Before the instruction in execution, all of its module have left, and after
\* it none.
LEMMA BeforeCurrent ==
    ASSUME TypeOK, CurrentOK, InOrder, LeftInOrder, NEW m \in Modules, stage[m] # "idle",
           NEW i \in Pcs, Mod(i) = m
    PROVE  Gone(i) <=> i <= current[m]
  <1>1. current[m] \in Pcs /\ current[m] <= fetched /\ fetched \in Nat /\ i \in Nat
    BY BusyFacts DEF TypeOK, Pcs
  <1>2. Gone(i) => i <= current[m]
    BY DEF LeftInOrder
  <1>3. ASSUME i <= current[m] PROVE Gone(i)
    <2>1. i \in 1 .. fetched
      BY <1>1, <1>3 DEF Pcs
    <2>2. ~ Queued(i)
      BY <1>1, <1>3 DEF InOrder, Queued, Pcs
    <2> QED
      BY <2>1, <2>2 DEF Gone
  <1> QED
    BY <1>2, <1>3

\* The next to push a queue is, in the program, the one after all that have.
LEMMA RankOfPush ==
    ASSUME TypeOK, CurrentOK, InOrder, LeftInOrder,
           NEW m \in Modules, stage[m] # "idle", NEW c, c = current[m],
           NEW q, q \in Pushes(Code[c]), q \notin pushed[m]
    PROVE  Pushed(Code, q, c) = Cardinality(Pushers(q)) + 1
  <1>1. c \in Pcs /\ Mod(c) = m /\ Gone(c)
    BY BusyFacts
  <1>2. Producer[q] = m /\ q \in TokenQueues
    BY <1>1, PortFacts DEF TypeOK
  <1>3. c \notin Pushers(q)
    BY <1>1 DEF Pushers, HasPushed
  <1>4. ASSUME NEW i \in Pushers(q) PROVE i \in 1 .. c /\ q \in Pushes(Code[i])
    <2>1. i \in Pcs /\ Gone(i) /\ q \in Pushes(Code[i])
      BY <1>4 DEF Pushers, HasPushed
    <2>2. Mod(i) = m
      BY <1>2, <2>1, PortFacts DEF TypeOK
    <2> QED
      BY <1>1, <2>1, <2>2, BeforeCurrent DEF Pcs
  <1>5. ASSUME NEW i \in 1 .. c, q \in Pushes(Code[i]), i # c PROVE i \in Pushers(q)
    <2>1. i \in Pcs
      BY <1>1 DEF Pcs, TypeOK
    <2>2. Mod(i) = m
      BY <1>2, <1>5, <2>1, PortFacts DEF TypeOK
    <2>3. Gone(i)
      BY <1>1, <2>1, <2>2, BeforeCurrent DEF Pcs
    <2> QED
      BY <1>5, <2>1, <2>2, <2>3 DEF Pushers, HasPushed
  <1>6. {i \in 1 .. c : q \in Pushes(Code[i])} = Pushers(q) \cup {c}
    BY <1>1, <1>4, <1>5 DEF Pcs
  <1> QED
    BY <1>3, <1>6, HandsFinite, FS_AddElement DEF Pushed

\* The next to pop a queue is, in the program, the one after all that have.
LEMMA RankOfPull ==
    ASSUME TypeOK, CurrentOK, InOrder, LeftInOrder,
           NEW m \in Modules, stage[m] # "idle", NEW c, c = current[m],
           NEW q, q \in Pops(Code[c]), q \notin pulled[m]
    PROVE  Popped(Code, q, c) = Cardinality(Pullers(q)) + 1
  <1>1. c \in Pcs /\ Mod(c) = m /\ Gone(c)
    BY BusyFacts
  <1>2. Consumer[q] = m /\ q \in TokenQueues
    BY <1>1, PortFacts DEF TypeOK
  <1>3. c \notin Pullers(q)
    BY <1>1 DEF Pullers, HasPulled
  <1>4. ASSUME NEW i \in Pullers(q) PROVE i \in 1 .. c /\ q \in Pops(Code[i])
    <2>1. i \in Pcs /\ Gone(i) /\ q \in Pops(Code[i])
      BY <1>4 DEF Pullers, HasPulled
    <2>2. Mod(i) = m
      BY <1>2, <2>1, PortFacts DEF TypeOK
    <2> QED
      BY <1>1, <2>1, <2>2, BeforeCurrent DEF Pcs
  <1>5. ASSUME NEW i \in 1 .. c, q \in Pops(Code[i]), i # c PROVE i \in Pullers(q)
    <2>1. i \in Pcs
      BY <1>1 DEF Pcs, TypeOK
    <2>2. Mod(i) = m
      BY <1>2, <1>5, <2>1, PortFacts DEF TypeOK
    <2>3. Gone(i)
      BY <1>1, <2>1, <2>2, BeforeCurrent DEF Pcs
    <2> QED
      BY <1>5, <2>1, <2>2, <2>3 DEF Pullers, HasPulled
  <1>6. {i \in 1 .. c : q \in Pops(Code[i])} = Pullers(q) \cup {c}
    BY <1>1, <1>4, <1>5 DEF Pcs
  <1> QED
    BY <1>3, <1>6, HandsFinite, FS_AddElement DEF Popped

-----------------------------------------------------------------------------
(* The accounts of the tokens. *)

CountedIn(q) ==
    /\ Cardinality(Pushers(q)) = Cardinality(Pullers(q)) + Len(tokens[q])
    /\ \A k \in DOMAIN tokens[q] :
          Pushed(Code, q, tokens[q][k]) = Cardinality(Pullers(q)) + k

\* A token goes in when its pusher is counted and comes out when its puller is;
\* it is the next in program order both times.
LEMMA TokensCountedStep ==
    TypeOK /\ CurrentOK /\ InOrder /\ LayerBarrier /\ LeftInOrder /\ TokensCounted /\ [Next]_vars
        => TokensCounted'
  <1> SUFFICES ASSUME TypeOK, CurrentOK, InOrder, LayerBarrier, LeftInOrder, TokensCounted,
                      [Next]_vars, NEW q \in TokenQueues
               PROVE  CountedIn(q)'
    BY DEF TokensCounted, CountedIn
  <1>a. CountedIn(q)
    BY DEF TokensCounted, CountedIn
  <1>b. \A n : Pushed(Code, q, n)' = Pushed(Code, q, n)
    BY CodeFixed
  <1>c. tokens[q] \in Seq(Pcs)
    BY DEF TypeOK
  <1>d. Cardinality(Pullers(q)) \in Nat /\ Cardinality(Pushers(q)) \in Nat
    BY HandsFinite
  <1>1. ASSUME Pullers(q)' = Pullers(q), Pushers(q)' = Pushers(q), tokens'[q] = tokens[q]
        PROVE  CountedIn(q)'
    BY <1>1, <1>a, CodeFixed DEF CountedIn, Pushed
  <1>2. ASSUME SameHands, tokens' = tokens PROVE CountedIn(q)'
    <2>1. Pullers(q)' = Pullers(q) /\ Pushers(q)' = Pushers(q)
      BY <1>2, CodeFixed DEF SameHands, Pullers, Pushers
    <2> QED
      BY <1>1, <1>2, <2>1
  <1>3. ASSUME NEW m \in Modules, NEW r \in TokenQueues, Pull(m, r) PROVE CountedIn(q)'
    <2>0. PICK c : c = current[m]
      OBVIOUS
    <2>1. tokens[r] # << >> /\ tokens' = [tokens EXCEPT ![r] = Tail(@)]
      BY <1>3 DEF Pull, MayPull
    <2>2. CASE q # r
      <3>1. Pullers(q)' = Pullers(q) /\ Pushers(q)' = Pushers(q)
        BY <1>3, <2>0, <2>2, HandsOfPull
      <3> QED
        BY <1>1, <2>1, <2>2, <3>1 DEF TypeOK
    <2>3. CASE q = r
      <3>1. /\ Pushers(q)' = Pushers(q)
            /\ Pullers(q)' = Pullers(q) \cup {c} /\ c \notin Pullers(q)
        BY <1>3, <2>0, <2>3, HandsOfPull
      <3>2. Cardinality(Pullers(q)') = Cardinality(Pullers(q)) + 1
        BY <3>1, HandsFinite, FS_AddElement
      <3> DEFINE s == tokens[q]
                 t == Tail(s)
      <3>3. tokens'[q] = t
        BY <2>1, <2>3 DEF TypeOK
      <3>4. /\ DOMAIN t = 1 .. Len(s) - 1
            /\ \A k \in DOMAIN t : k + 1 \in DOMAIN s /\ t[k] = s[k + 1]
            /\ Len(s) \in Nat /\ 1 \in DOMAIN s /\ DOMAIN s = 1 .. Len(s)
        BY <1>c, <2>1, <2>3, TailEntries
      <3>5. Len(t) = Len(s) - 1
        BY <1>c, <2>1, <2>3, <3>4, HeadTailProperties
      <3>6. /\ Cardinality(Pushers(q)) = Cardinality(Pullers(q)) + Len(s)
            /\ \A k \in DOMAIN s : Pushed(Code, q, s[k]) = Cardinality(Pullers(q)) + k
        BY <1>a DEF CountedIn
      <3> HIDE DEF s, t
      <3>7. \A k \in DOMAIN t : Pushed(Code, q, t[k]) = (Cardinality(Pullers(q)) + 1) + k
        BY <1>d, <3>4, <3>6
      <3>8. Cardinality(Pushers(q)) = (Cardinality(Pullers(q)) + 1) + Len(t)
        BY <1>d, <3>4, <3>5, <3>6
      <3>9. /\ Cardinality(Pushers(q)') = Cardinality(Pullers(q)') + Len(tokens'[q])
            /\ \A k \in DOMAIN tokens'[q] :
                  Pushed(Code, q, tokens'[q][k]) = Cardinality(Pullers(q)') + k
        BY <3>1, <3>2, <3>3, <3>7, <3>8
      <3> QED
        BY <3>9, CodeFixed DEF CountedIn, Pushed
    <2> QED
      BY <2>2, <2>3
  <1>4. ASSUME NEW m \in Modules, NEW r \in TokenQueues, Push(m, r) PROVE CountedIn(q)'
    <2>0. PICK c : c = current[m]
      OBVIOUS
    <2>1. /\ stage[m] # "idle" /\ r \in Pushes(Code[c]) /\ r \notin pushed[m]
          /\ tokens' = [tokens EXCEPT ![r] = Append(@, c)]
      BY <1>4, <2>0 DEF Push, MayPush
    <2>2. CASE q # r
      <3>1. Pullers(q)' = Pullers(q) /\ Pushers(q)' = Pushers(q)
        BY <1>4, <2>0, <2>2, HandsOfPush
      <3> QED
        BY <1>1, <2>1, <2>2, <3>1 DEF TypeOK
    <2>3. CASE q = r
      <3>1. /\ c \in Pcs
            /\ Pullers(q)' = Pullers(q)
            /\ Pushers(q)' = Pushers(q) \cup {c} /\ c \notin Pushers(q)
        BY <1>4, <2>0, <2>3, HandsOfPush
      <3>2. Cardinality(Pushers(q)') = Cardinality(Pushers(q)) + 1
        BY <3>1, HandsFinite, FS_AddElement
      <3> DEFINE s == tokens[q]
                 t == Append(s, c)
      <3>3. tokens'[q] = t
        BY <2>1, <2>3 DEF TypeOK
      <3>4. /\ DOMAIN t = 1 .. Len(s) + 1
            /\ \A k \in DOMAIN t : t[k] = IF k \in DOMAIN s THEN s[k] ELSE c
            /\ Len(s) \in Nat /\ DOMAIN s = 1 .. Len(s)
        BY <1>c, <3>1, AppendEntries
      <3>5. Len(t) = Len(s) + 1
        BY <1>c, <3>1, AppendProperties
      <3>6. /\ Cardinality(Pushers(q)) = Cardinality(Pullers(q)) + Len(s)
            /\ \A k \in DOMAIN s : Pushed(Code, q, s[k]) = Cardinality(Pullers(q)) + k
        BY <1>a DEF CountedIn
      <3>7. Pushed(Code, q, c) = Cardinality(Pushers(q)) + 1
        BY <2>0, <2>1, <2>3, RankOfPush
      <3> HIDE DEF s, t
      <3>8. \A k \in DOMAIN t : Pushed(Code, q, t[k]) = Cardinality(Pullers(q)) + k
        BY <1>d, <3>4, <3>6, <3>7
      <3>9. /\ Cardinality(Pushers(q)') = Cardinality(Pullers(q)') + Len(tokens'[q])
            /\ \A k \in DOMAIN tokens'[q] :
                  Pushed(Code, q, tokens'[q][k]) = Cardinality(Pullers(q)') + k
        BY <1>d, <3>1, <3>2, <3>3, <3>4, <3>5, <3>6, <3>8
      <3> QED
        BY <3>9, CodeFixed DEF CountedIn, Pushed
    <2> QED
      BY <2>2, <2>3
  <1>5. CASE Fetch
    BY <1>2, <1>5, FetchKeepsHands DEF Fetch
  <1>6. ASSUME NEW m \in Modules, Issue(m) PROVE CountedIn(q)'
    BY <1>2, <1>6, IssueKeepsHands DEF Issue
  <1>7. ASSUME NEW m \in Modules, Finalize(m) \/ Retire(m) PROVE CountedIn(q)'
    <2>1. tokens' = tokens
      BY <1>7 DEF Finalize, Retire
    <2> QED
      BY <1>2, <1>7, <2>1, LeaveKeepsHands
  <1>8. ASSUME NEW m \in Modules, Start(m) PROVE CountedIn(q)'
    BY <1>2, <1>8, OthersKeepHands DEF Start
  <1>9. CASE LoadLayer \/ UNCHANGED vars
    BY <1>2, <1>9, OthersKeepHands DEF LoadLayer, vars
  <1> QED
    BY <1>3, <1>4, <1>5, <1>6, <1>7, <1>8, <1>9 DEF Next, ModuleStep

-----------------------------------------------------------------------------
(* The trigger of the next layer. *)

\* Only its last step of execution makes an instruction executed.
LEMMA ExecutedByFinalize ==
    ASSUME TypeOK, CurrentOK, InOrder, LayerBarrier, [Next]_vars,
           NEW i \in Pcs, Executed(i)', ~ Executed(i)
    PROVE  \E m \in Modules : Finalize(m) /\ i = current[m]
  <1> DEFINE p == Mod(i)
  <1>a. p \in Modules /\ Mod(i)' = p /\ i # 0
    BY CodeFixed, InstructionFacts DEF TypeOK, Pcs
  <1>b. /\ Gone(i)' /\ (current'[p] = i => stage'[p] = "push")
        /\ Gone(i) => current[p] = i /\ stage[p] # "push"
    BY <1>a DEF Executed, Gone
  <1> HIDE DEF p
  <1>1. ASSUME Gone(i)' <=> Gone(i), stage'[p] = stage[p], current'[p] = current[p] PROVE FALSE
    BY <1>1, <1>b
  <1>2. CASE Fetch
    <2>1. PICK n : n = fetched + 1
      OBVIOUS
    <2> QED
      BY <1>1, <1>2, <2>1, AfterFetch DEF Fetch
  <1>3. ASSUME NEW m \in Modules, Issue(m) PROVE FALSE
    <2>0. PICK h : h = Head(iqueue[m])
      OBVIOUS
    <2>1. h \in Pcs /\ Mod(h) = m /\ (i # h => (Gone(i)' <=> Gone(i)))
      BY <1>3, <2>0, AfterIssue
    <2>2. /\ current' = [current EXCEPT ![m] = h]
          /\ stage' = [stage EXCEPT ![m] = "pull"]
      BY <1>3, <2>0 DEF Issue
    <2>3. stage[m] = "idle" /\ current[m] = 0
      BY <1>3, IdleFacts DEF Issue, MayIssue
    <2>4. CASE i = h
      <3>1. current'[p] = i /\ stage'[p] = "pull"
        BY <1>a, <2>1, <2>2, <2>4 DEF TypeOK, p
      <3> QED
        BY <1>b, <3>1
    <2>5. CASE i # h
      <3>1. CASE p = m
        BY <1>a, <1>b, <2>1, <2>3, <2>5, <3>1
      <3>2. CASE p # m
        BY <1>1, <1>a, <2>1, <2>2, <2>5, <3>2 DEF TypeOK
      <3> QED
        BY <3>1, <3>2
    <2> QED
      BY <2>4, <2>5
  <1>4. ASSUME NEW m \in Modules, Start(m) PROVE FALSE
    <2>1. UNCHANGED <<fetched, iqueue, current>> /\ stage' = [stage EXCEPT ![m] = "run"]
      BY <1>4 DEF Start
    <2>2. Gone(i)' <=> Gone(i)
      BY <2>1, QueuesAlone
    <2> QED
      BY <1>1, <1>a, <1>b, <2>1, <2>2 DEF TypeOK
  <1>5. ASSUME NEW m \in Modules, Finalize(m) PROVE i = current[m]
    <2>1. /\ UNCHANGED <<fetched, iqueue>>
          /\ \A n \in Modules \ {m} : current'[n] = current[n] /\ stage'[n] = stage[n]
      BY <1>5 DEF Finalize, Leave, TypeOK
    <2>2. Gone(i)' <=> Gone(i)
      BY <2>1, QueuesAlone
    <2> QED
      BY <1>1, <1>a, <1>b, <2>1, <2>2
  <1>6. ASSUME NEW m \in Modules, Retire(m) PROVE FALSE
    <2>1. /\ UNCHANGED <<fetched, iqueue>> /\ stage[m] = "push"
          /\ \A n \in Modules \ {m} : current'[n] = current[n] /\ stage'[n] = stage[n]
      BY <1>6 DEF Retire, MayRetire, Leave, TypeOK
    <2>2. Gone(i)' <=> Gone(i)
      BY <2>1, QueuesAlone
    <2> QED
      BY <1>1, <1>a, <1>b, <2>1, <2>2
  <1>7. ASSUME NEW m \in Modules, NEW q \in TokenQueues, Pull(m, q) \/ Push(m, q) PROVE FALSE
    <2>1. UNCHANGED <<fetched, iqueue, current, stage>>
      BY <1>7 DEF Pull, Push
    <2> QED
      BY <1>1, <2>1, QueuesAlone
  <1>8. CASE LoadLayer \/ UNCHANGED vars
    <2>1. UNCHANGED <<fetched, iqueue, current, stage>>
      BY <1>8 DEF LoadLayer, vars
    <2> QED
      BY <1>1, <2>1, QueuesAlone
  <1> QED
    BY <1>2, <1>3, <1>4, <1>5, <1>6, <1>7, <1>8 DEF Next, ModuleStep

\* A trigger is consumed to load a layer, whose FINISH raises the next one.
LEMMA TriggerStep ==
    TypeOK /\ CurrentOK /\ InOrder /\ LayerBarrier /\ TriggerToCome /\ [Next]_vars
        => TriggerToCome'
  <1> SUFFICES ASSUME TypeOK, CurrentOK, InOrder, LayerBarrier, TriggerToCome, [Next]_vars
               PROVE  TriggerToCome'
    OBVIOUS
  <1> SUFFICES ASSUME triggers' = 0, NEW k, k = layer', k < Len(program.layerEnd)
               PROVE  k > 0 /\ \A e \in Pcs : e = program.layerEnd[k] => ~ Executed(e)'
    <2>1. /\ \A n \in 1 .. Len(program.layerEnd) : program.layerEnd[n] \in Pcs
          /\ Len(program.layerEnd) \in Nat
      BY LayerFacts DEF TypeOK
    <2>2. layer' \in 0 .. Len(program.layerEnd)
      BY CodeFixed, TypeStep DEF TypeOK
    <2>3. ASSUME NEW e, e = program.layerEnd[layer]', ~ Executed(e)'
          PROVE  ~ Executed(program.layerEnd[layer])'
      BY <2>3 DEF Executed, Queued, Mod
    <2> QED
      BY <2>1, <2>2, <2>3, CodeFixed DEF TriggerToCome
  <1>a. /\ layer \in 0 .. Len(program.layerEnd)
        /\ Len(program.layerEnd) \in Nat
        /\ \A n \in 1 .. Len(program.layerEnd) : program.layerEnd[n] \in Pcs
        /\ \A j, n \in 1 .. Len(program.layerEnd) : j < n => program.layerEnd[j] < program.layerEnd[n]
        /\ fetched \in Nat
    BY LayerFacts DEF TypeOK
  <1>1. CASE LoadLayer
    <2>1. /\ layer < Len(program.layerEnd) /\ k = layer + 1
          /\ fetched' = fetched
      BY <1>1, <1>a DEF LoadLayer
    <2> SUFFICES ASSUME NEW e \in Pcs, e = program.layerEnd[k] PROVE ~ Executed(e)'
      BY <1>a, <2>1
    <2>3. fetched < e
      <3>1. fetched <= Loaded
        BY DEF LayerBarrier
      <3>2. Loaded < e
        BY <1>a, <2>1 DEF Loaded, Pcs
      <3>3. Loaded \in Nat
        BY LoadedBound DEF TypeOK
      <3> QED
        BY <1>a, <3>1, <3>2, <3>3 DEF Pcs
    <2> QED
      BY <1>a, <2>1, <2>3 DEF Executed, Pcs
  <1>2. CASE UNCHANGED <<layer, triggers>>
    <2>1. k = layer /\ layer > 0 /\ ~ Executed(program.layerEnd[layer])
      BY <1>2 DEF TriggerToCome
    <2> SUFFICES ASSUME NEW e \in Pcs, e = program.layerEnd[k] PROVE ~ Executed(e)'
      BY <2>1
    <2>3. Code[e].finish
      <3>1. /\ DOMAIN program.layerEnd = 1 .. Len(program.layerEnd)
            /\ DOMAIN program.code = 1 .. Len(program.code)
        BY LenProperties DEF TypeOK, WellFormed, Program
      <3>2. layer \in DOMAIN program.layerEnd /\ e = program.layerEnd[layer]
        BY <1>a, <2>1, <3>1
      <3>3. e \in DOMAIN program.code
        BY <3>1 DEF Pcs, Code
      <3> QED
        BY <3>2, <3>3 DEF TypeOK, WellFormed, Code
    <2>4. ASSUME NEW m \in Modules, Finalize(m) PROVE e # current[m]
      BY <1>2, <1>a, <2>3, <2>4 DEF Finalize, LayerBarrier
    <2>5. ~ Executed(e)
      BY <2>1
    <2> QED
      BY <2>4, <2>5, ExecutedByFinalize
  <1>3. ASSUME NEW m \in Modules, Finalize(m), ~ UNCHANGED <<layer, triggers>> PROVE FALSE
    <2>1. triggers' = triggers + 1
      BY <1>3 DEF Finalize
    <2> QED
      BY <2>1 DEF LayerBarrier
  <1>4. CASE ~ LoadLayer /\ ~ \E m \in Modules : Finalize(m)
    BY <1>2, <1>4
       DEF Next, ModuleStep, Fetch, Issue, Pull, Start, Push, Retire, vars
  <1> QED
    BY <1>1, <1>2, <1>3, <1>4

-----------------------------------------------------------------------------
(* The stronger invariant. *)

\* Nothing is fetched at the start, and the first trigger is there.
LEMMA InitAccounts == Init => LeftInOrder /\ TokensCounted /\ TriggerToCome
  <1> SUFFICES ASSUME Init PROVE LeftInOrder /\ TokensCounted /\ TriggerToCome
    OBVIOUS
  <1>1. \A i : ~ Gone(i)
    BY DEF Init, Gone
  <1>2. \A q : Pullers(q) = {} /\ Pushers(q) = {}
    BY <1>1 DEF Pullers, Pushers, HasPulled, HasPushed
  <1>3. TokensCounted
    <2> SUFFICES ASSUME NEW q \in TokenQueues
                 PROVE  /\ Cardinality(Pushers(q)) = Cardinality(Pullers(q)) + Len(tokens[q])
                        /\ DOMAIN tokens[q] = {}
      BY DEF TokensCounted
    <2>1. tokens[q] = << >>
      BY DEF Init
    <2>2. Cardinality(Pushers(q)) = 0 /\ Cardinality(Pullers(q)) = 0
      BY <1>2, FS_EmptySet
    <2> QED
      BY <2>1, <2>2
  <1> QED
    BY <1>1, <1>3 DEF LeftInOrder, TriggerToCome, Init

\* JInv is inductive.
THEOREM StrongInvariance == Spec => []JInv
  <1>1. Init => JInv
    BY InitInv, InitAccounts DEF JInv
  <1>2. JInv /\ [Next]_vars => JInv'
    <2> SUFFICES ASSUME JInv, [Next]_vars PROVE JInv'
      OBVIOUS
    <2>1. IInv'
      BY TypeStep, CurrentStep, InOrderStep, TokensEarnedStep, TokensInOrderStep, LayerBarrierStep
         DEF IInv, JInv
    <2>2. LeftInOrder' /\ TokensCounted' /\ TriggerToCome'
      BY LeftInOrderStep, TokensCountedStep, TriggerStep DEF IInv, JInv
    <2> QED
      BY <2>1, <2>2 DEF JInv
  <1> QED
    BY <1>1, <1>2, PTL DEF Spec

\* The token an instruction may take is the one meant for it: if it is the
\* n-th of the program to pop the queue, the token is that of the n-th to push.
THEOREM MatchedInOrder == Spec => []TokensMatched
  <1>1. JInv => TokensMatched
    <2> SUFFICES ASSUME JInv, NEW q \in TokenQueues, NEW m, m = Consumer[q], MayPull(m, q),
                        NEW c, c = current[m]
                 PROVE  Pushed(Code, q, Head(tokens[q])) = Popped(Code, q, c)
      BY DEF TokensMatched
    <2>1. m \in Modules
      BY DEF TokenQueues, Queues, Consumer, Modules
    <2>2. stage[m] # "idle" /\ q \in Pops(Code[c]) /\ q \notin pulled[m] /\ tokens[q] # << >>
      BY DEF MayPull
    <2>3. Popped(Code, q, c) = Cardinality(Pullers(q)) + 1
      BY <2>1, <2>2, RankOfPull DEF JInv, IInv
    <2>4. 1 \in DOMAIN tokens[q] /\ Head(tokens[q]) = tokens[q][1]
      BY <2>2, TailEntries DEF JInv, IInv, TypeOK
    <2> QED
      BY <2>3, <2>4 DEF JInv, TokensCounted
  <1> QED
    BY <1>1, StrongInvariance, PTL

-----------------------------------------------------------------------------
(* Nothing waits for ever. *)

\* Everything before instruction c is over.
Over(c) == \A i \in Pcs : i < c => Gone(i) /\ current[Mod(i)] # i

\* If a module has an instruction and no module can take one, or a step with
\* one, the first instruction under way has only finished ones before it.
LEMMA FirstUnderWay ==
    ASSUME TypeOK, CurrentOK, InOrder, \A n \in Modules : ~ MayIssue(n),
           NEW k \in Modules, stage[k] # "idle"
    PROVE  \E m \in Modules : stage[m] # "idle" /\ Over(current[m])
  <1>1. \A m \in Modules : current[m] \in Nat
    BY DEF TypeOK, Pcs
  <1>2. PICK m \in Modules : /\ stage[m] # "idle"
                             /\ \A n \in Modules : stage[n] # "idle" => current[m] <= current[n]
    BY <1>1 DEF Modules
  <1> SUFFICES ASSUME NEW i \in Pcs, i < current[m] PROVE Gone(i) /\ current[Mod(i)] # i
    BY <1>2 DEF Over
  <1>3. Mod(i) \in Modules /\ i \in Nat /\ i # 0
    BY InstructionFacts DEF TypeOK, Pcs
  <1>4. current[Mod(i)] # i
    <2>1. CASE stage[Mod(i)] = "idle"
      BY <1>3, <2>1, IdleFacts
    <2>2. CASE stage[Mod(i)] # "idle"
      BY <1>1, <1>2, <1>3, <2>2
    <2> QED
      BY <2>1, <2>2
  <1>5. i \in 1 .. fetched
    BY <1>1, <1>2, <1>3, BusyFacts DEF TypeOK, Pcs
  <1>6. ~ Queued(i)
    <2> SUFFICES ASSUME NEW j \in DOMAIN iqueue[Mod(i)], iqueue[Mod(i)][j] = i PROVE FALSE
      BY DEF Queued
    <2>1. iqueue[Mod(i)] # << >>
      BY <1>3 DEF TypeOK
    <2>2. stage[Mod(i)] # "idle"
      BY <1>3, <2>1 DEF MayIssue
    <2>3. current[Mod(i)] < i
      BY <1>3 DEF InOrder
    <2> QED
      BY <1>1, <1>2, <1>3, <2>2, <2>3
  <1> QED
    BY <1>4, <1>5, <1>6 DEF Gone

\* It finds the tokens it pops.
LEMMA TokenIsThere ==
    ASSUME TypeOK, CurrentOK, InOrder, LeftInOrder, TokensCounted, Balanced(Code),
           NEW m \in Modules, stage[m] # "idle", NEW c, c = current[m], Over(c),
           NEW q, q \in Pops(Code[c]), q \notin pulled[m]
    PROVE  tokens[q] # << >>
  <1>1. c \in Pcs /\ Mod(c) = m /\ q \in TokenQueues
    BY BusyFacts, PortFacts DEF TypeOK
  <1>2. Len(Code) \in Nat /\ c \in 1 .. Len(Code) /\ c - 1 \in Nat
    BY <1>1 DEF Pcs, TypeOK, WellFormed, Program, Code
  <1>3. Popped(Code, q, c) = Cardinality(Pullers(q)) + 1
    BY RankOfPull
  <1>4. Popped(Code, q, c) <= Pushed(Code, q, c - 1)
    BY <1>1, <1>2 DEF Balanced
  <1>5. {i \in 1 .. c - 1 : q \in Pushes(Code[i])} \in SUBSET Pushers(q)
    BY <1>2 DEF Over, Pushers, HasPushed, Pcs
  <1>6. Pushed(Code, q, c - 1) <= Cardinality(Pushers(q))
    BY <1>5, HandsFinite, FS_Subset DEF Pushed
  <1>7. Cardinality(Pushers(q)) = Cardinality(Pullers(q)) + Len(tokens[q])
    BY <1>1 DEF TokensCounted
  <1>8. Pushed(Code, q, c - 1) \in Nat /\ Cardinality(Pushers(q)) \in Nat /\ Cardinality(Pullers(q)) \in Nat
    BY <1>2, PrefixFinite, HandsFinite
  <1>9. Len(tokens[q]) # 0
    BY <1>3, <1>4, <1>6, <1>7, <1>8
  <1> QED
    BY <1>9

\* And room for the tokens it pushes.
LEMMA RoomIsThere ==
    ASSUME TypeOK, CurrentOK, InOrder, LeftInOrder, TokensCounted, Balanced(Code),
           NEW m \in Modules, stage[m] # "idle", NEW c, c = current[m], Over(c),
           NEW q, q \in Pushes(Code[c]), q \notin pushed[m]
    PROVE  Len(tokens[q]) < capacity
  <1>1. /\ c \in Pcs /\ Mod(c) = m /\ q \in TokenQueues
        /\ q \notin Pops(Code[c])
    BY BusyFacts, PortFacts DEF TypeOK
  <1>2. Len(Code) \in Nat /\ c \in 1 .. Len(Code) /\ c \in Nat
    BY <1>1 DEF Pcs, TypeOK, WellFormed, Program, Code
  <1>3. Pushed(Code, q, c) = Cardinality(Pushers(q)) + 1
    BY RankOfPush
  <1>4. Pushed(Code, q, c) <= Popped(Code, q, c) + capacity
    BY <1>1, <1>2 DEF Balanced
  <1>5. {i \in 1 .. c : q \in Pops(Code[i])} \in SUBSET Pullers(q)
    <2> SUFFICES ASSUME NEW i \in 1 .. c, q \in Pops(Code[i]) PROVE i \in Pullers(q)
      OBVIOUS
    <2>1. i \in Pcs /\ i < c
      BY <1>1, <1>2 DEF Pcs
    <2> QED
      BY <2>1 DEF Over, Pullers, HasPulled
  <1>6. Popped(Code, q, c) <= Cardinality(Pullers(q))
    BY <1>5, HandsFinite, FS_Subset DEF Popped
  <1>7. Cardinality(Pushers(q)) = Cardinality(Pullers(q)) + Len(tokens[q])
    BY <1>1 DEF TokensCounted
  <1>8. /\ Popped(Code, q, c) \in Nat /\ Cardinality(Pushers(q)) \in Nat
        /\ Cardinality(Pullers(q)) \in Nat /\ capacity \in Nat
    BY <1>2, PrefixFinite, HandsFinite, CapacityAssumption
  <1>9. PICK n : n = Len(tokens[q])
    OBVIOUS
  <1>10. n \in Nat
    <2>1. tokens[q] \in Seq(Pcs)
      BY <1>1 DEF TypeOK
    <2> QED
      BY <1>9, <2>1, LenProperties
  <1>11. n < capacity
    BY <1>3, <1>4, <1>6, <1>7, <1>8, <1>9, <1>10
  <1> QED
    BY <1>9, <1>11

\* A module with the first instruction under way can go on.
LEMMA FirstMoves ==
    ASSUME JInv, Balanced(Code), NEW m \in Modules, stage[m] # "idle", Over(current[m])
    PROVE  \/ MayStart(m) \/ MayFinalize(m) \/ MayRetire(m)
           \/ \E q \in TokenQueues : MayPull(m, q) \/ MayPush(m, q)
  <1> USE DEF JInv, IInv
  <1>0. PICK c : c = current[m]
    OBVIOUS
  <1>1. c \in Pcs
    BY <1>0, BusyFacts
  <1>2. CASE stage[m] = "pull"
    <2>1. CASE pulled[m] = Pops(Code[c])
      BY <1>0, <1>2, <2>1 DEF MayStart
    <2>2. CASE pulled[m] # Pops(Code[c])
      <3>1. PICK q \in Pops(Code[c]) : q \notin pulled[m]
        BY <1>0, <1>2, <2>2 DEF CurrentOK
      <3>2. tokens[q] # << >> /\ q \in TokenQueues
        BY <1>0, <1>1, <3>1, TokenIsThere, PortFacts DEF TypeOK
      <3> QED
        BY <1>0, <1>2, <3>1, <3>2 DEF MayPull
    <2> QED
      BY <2>1, <2>2
  <1>3. CASE stage[m] = "run"
    BY <1>3 DEF MayFinalize
  <1>4. CASE stage[m] = "push"
    <2>1. CASE pushed[m] = Pushes(Code[c])
      BY <1>0, <1>4, <2>1 DEF MayRetire
    <2>2. CASE pushed[m] # Pushes(Code[c])
      <3>1. PICK q \in Pushes(Code[c]) : q \notin pushed[m]
        BY <1>0, <1>4, <2>2 DEF CurrentOK
      <3>2. Len(tokens[q]) < capacity /\ q \in TokenQueues
        BY <1>0, <1>1, <3>1, RoomIsThere, PortFacts DEF TypeOK
      <3> QED
        BY <1>0, <1>4, <3>1, <3>2 DEF MayPush
    <2> QED
      BY <2>1, <2>2
  <1> QED
    BY <1>2, <1>3, <1>4 DEF TypeOK, Stages

\* When all modules are idle, their queues are empty and nothing can be fetched
\* or loaded, everything is executed.
LEMMA AllDone ==
    ASSUME JInv, \A m \in Modules : stage[m] = "idle" /\ ~ MayIssue(m),
           ~ MayFetch, ~ MayLoad
    PROVE  AllExecuted
  <1> USE DEF JInv, IInv
  <1>1. \A m \in Modules : iqueue[m] = << >> /\ current[m] = 0
    BY IdleFacts DEF MayIssue
  <1>2. /\ layer \in 0 .. Len(program.layerEnd)
        /\ Len(program.layerEnd) \in Nat /\ Len(Code) \in Nat
        /\ fetched \in 0 .. Len(Code) /\ triggers = 0
        /\ Loaded \in 0 .. Len(Code)
    BY LoadedBound DEF TypeOK, MayLoad, WellFormed, Program, Code
  <1>3. fetched = Loaded
    <2> SUFFICES ASSUME fetched # Loaded PROVE FALSE
      OBVIOUS
    <2>1. fetched < Loaded /\ fetched + 1 \in Pcs
      BY <1>2 DEF LayerBarrier, Pcs
    <2>2. Mod(fetched + 1) \in Modules
      BY <2>1, InstructionFacts DEF TypeOK
    <2>3. Len(iqueue[Mod(fetched + 1)]) = 0
      BY <1>1, <2>2, EmptySeq
    <2> QED
      BY <2>1, <2>3, CapacityAssumption DEF MayFetch
  <1>4. \A i \in Pcs : i <= fetched => Executed(i)
    <2> SUFFICES ASSUME NEW i \in Pcs, i <= fetched PROVE Executed(i)
      OBVIOUS
    <2>1. Mod(i) \in Modules /\ i \in 1 .. fetched /\ i # 0
      BY <1>2, InstructionFacts DEF TypeOK, Pcs
    <2> QED
      BY <1>1, <2>1, EmptySeq DEF Executed, Queued
  <1>5. layer = Len(program.layerEnd)
    <2> SUFFICES ASSUME layer < Len(program.layerEnd) PROVE FALSE
      BY <1>2
    <2>1. layer > 0 /\ ~ Executed(program.layerEnd[layer])
      BY <1>2 DEF TriggerToCome
    <2>2. program.layerEnd[layer] \in Pcs
      BY <1>2, <2>1, LayerFacts DEF TypeOK
    <2>3. program.layerEnd[layer] = fetched
      BY <1>3, <2>1 DEF Loaded
    <2> QED
      BY <1>2, <1>4, <2>1, <2>2, <2>3
  <1>6. fetched = Len(Code)
    <2>1. layer > 0 /\ program.layerEnd[layer] = Len(Code)
      BY <1>5 DEF TypeOK, WellFormed, Code
    <2> QED
      BY <1>3, <2>1 DEF Loaded
  <1> QED
    BY <1>2, <1>4, <1>6 DEF AllExecuted, Pcs

\* A balanced program of any length, on queues of any capacity, always has a
\* next step until all of it is executed: no module waits for another in a
\* circle, no token and no trigger is lost.
THEOREM NoStandstill == Spec => []NeverStuck
  <1>1. JInv => NeverStuck
    <2> SUFFICES ASSUME JInv, Balanced(Code), ~ MayStep
                 PROVE  AllExecuted /\ \A m \in Modules : stage[m] = "idle"
      BY DEF NeverStuck
    <2>1. /\ ~ MayLoad /\ ~ MayFetch
          /\ \A m \in Modules :
                /\ ~ MayIssue(m) /\ ~ MayStart(m) /\ ~ MayFinalize(m) /\ ~ MayRetire(m)
                /\ \A q \in TokenQueues : ~ MayPull(m, q) /\ ~ MayPush(m, q)
      BY DEF MayStep
    <2>2. \A m \in Modules : stage[m] = "idle"
      <3> SUFFICES ASSUME NEW k \in Modules, stage[k] # "idle" PROVE FALSE
        OBVIOUS
      <3>1. PICK m \in Modules : stage[m] # "idle" /\ Over(current[m])
        BY <2>1, FirstUnderWay DEF JInv, IInv
      <3> QED
        BY <2>1, <3>1, FirstMoves
    <2> QED
      BY <2>1, <2>2, AllDone
  <1> QED
    BY <1>1, StrongInvariance, PTL
=============================================================================
