------------------------- MODULE PipelineSortProofs -------------------------
(***************************************************************************)
(* Dealing out a group to the pipelines, for every group and every number   *)
(* of pipelines.                                                            *)
(*                                                                          *)
(* The invariant ties the state the code keeps to what has been sorted so   *)
(* far: a counter is the number of turns since the last FINISH, modulo the  *)
(* pipelines (CountersTurn); a queue holds the numbers of the pushes no pop *)
(* has met (QueuesWait); a list holds the instructions it should (Listed).  *)
(***************************************************************************)
EXTENDS PipelineSort, SequenceTheorems, FiniteSetTheorems, TLAPS

-----------------------------------------------------------------------------
(* Counting. *)

\* One more element of 1 .. d + 1: the count goes up, the ranks below stay.
LEMMA OneMore ==
    ASSUME NEW d \in Nat, NEW S \in SUBSET (1 .. d)
    PROVE  /\ IsFiniteSet(S) /\ Cardinality(S) \in Nat
           /\ Cardinality(S \cup {d + 1}) = Cardinality(S) + 1
           /\ \A n \in 1 .. d : Rank(n, S \cup {d + 1}) = Rank(n, S)
           /\ Rank(d + 1, S \cup {d + 1}) = Cardinality(S) + 1
<1>1. IsFiniteSet(1 .. d)
  BY FS_Interval
<1>2. IsFiniteSet(S) /\ Cardinality(S) \in Nat
  BY <1>1, FS_Subset, FS_CardinalityType
<1>3. d + 1 \notin S
  OBVIOUS
<1>4. Cardinality(S \cup {d + 1}) = Cardinality(S) + 1
  BY <1>2, <1>3, FS_AddElement
<1>5. ASSUME NEW n \in 1 .. d
      PROVE  {k \in S \cup {d + 1} : k <= n} = {k \in S : k <= n}
  OBVIOUS
<1>6. {k \in S \cup {d + 1} : k <= d + 1} = S \cup {d + 1}
  <2>1. \A k \in S \cup {d + 1} : k <= d + 1
    OBVIOUS
  <2>2. QED
    BY <2>1, Zenon
<1>7. QED
  BY <1>2, <1>4, <1>5, <1>6 DEF Rank

\* The turn after this one.
LEMMA NextTurn ==
    ASSUME NEW c \in Nat, NEW n \in Nat \ {0}
    PROVE  /\ c % n \in 0 .. n - 1
           /\ (c + 1) % n = IF (c % n) + 1 = n THEN 0 ELSE (c % n) + 1
<1>1. c % n \in 0 .. n - 1 /\ c \div n \in Int /\ c = n * (c \div n) + (c % n)
  OBVIOUS
<1>2. PICK a \in Int, r \in 0 .. n - 1 : r = c % n /\ c = n * a + r
  BY <1>1
<1>3. (c + 1) % n \in 0 .. n - 1 /\ (c + 1) \div n \in Int
        /\ c + 1 = n * ((c + 1) \div n) + ((c + 1) % n)
  OBVIOUS
<1>4. PICK b \in Int, t \in 0 .. n - 1 : t = (c + 1) % n /\ c + 1 = n * b + t
  BY <1>3
<1>5. n * b + t = n * a + r + 1
  BY <1>2, <1>4
<1>6. n * (b - a) = r + 1 - t
  BY <1>5
<1>7. b - a \in {0, 1}
  BY <1>6
<1>8. t = IF r + 1 = n THEN 0 ELSE r + 1
  BY <1>6, <1>7
<1>9. QED
  BY <1>2, <1>4, <1>8
-----------------------------------------------------------------------------
(* One instruction. *)

\* An instruction that is sorted, and the state it is sorted in.
LEMMA Facts ==
    ASSUME SortTypeOK, Sorting
    PROVE  /\ done \in Nat /\ Len(group) \in Nat /\ done + 1 \in 1 .. Len(group)
           /\ \A n \in 1 .. done + 1 : group[n] \in InstructionRow
           /\ I \in InstructionRow
           /\ Len(set) = done /\ \A n \in 1 .. done : set[n] \in SettingType
           /\ \A q \in Queues : queue[q] \in Seq(Nat) /\ Len(queue[q]) \in Nat
           /\ group' = group
<1>1. PICK l \in Nat : l = Len(group)
  BY DEF SortTypeOK
<1>2. done \in 0 .. l /\ done < l
  BY <1>1 DEF SortTypeOK, Sorting
<1>3. done \in Nat /\ done + 1 \in 1 .. l
  BY <1>2
<1>4. \A n \in 1 .. l : group[n] \in InstructionRow
  BY <1>1, ElementOfSeq DEF SortTypeOK
<1>5. \A n \in 1 .. done + 1 : n \in 1 .. l
  BY <1>2
<1>6. \A n \in 1 .. done : set[n] \in SettingType
  BY ElementOfSeq DEF SortTypeOK
<1>7. \A q \in Queues : queue[q] \in Seq(Nat)
  BY DEF SortTypeOK
<1>8. \A q \in Queues : Len(queue[q]) \in Nat
  BY <1>7, LenProperties
<1>9. group' = group /\ Len(set) = done
  BY DEF Sorting, SortTypeOK
<1>10. QED
  BY <1>1, <1>3, <1>4, <1>5, <1>6, <1>7, <1>8, <1>9 DEF I

\* What an instruction pops and pushes are queues, and no queue is both.
LEMMA PopsPushes ==
    ASSUME NEW i
    PROVE  /\ PopsOf(i) \subseteq Queues /\ PushesOf(i) \subseteq Queues
           /\ PopsOf(i) \cap PushesOf(i) = {}
           /\ Source1(i) \in PopsOf(i) \cup {"none"} /\ Source2(i) \in PopsOf(i) \cup {"none"}
           /\ Destination1(i) \in PushesOf(i) \cup {"none"}
           /\ Destination2(i) \in PushesOf(i) \cup {"none"}
           /\ \A q \in PopsOf(i) : q # Source2(i) => q = Source1(i)
           /\ \A q \in PushesOf(i) : q # Destination2(i) => q = Destination1(i)
           /\ "none" \notin Queues
BY DEF PopsOf, PushesOf, Source1, Source2, Destination1, Destination2, Stores, Queues

\* What sort_instruction does to the settings.
LEMMA SettingStep ==
    ASSUME SortTypeOK, sort_instruction
    PROVE  /\ done' = done + 1 /\ group' = group
           /\ Len(set') = done + 1 /\ set' \in Seq(SettingType)
           /\ \A n \in 1 .. done : set'[n] = set[n]
           /\ set'[done + 1].current = current(I)
           /\ set'[done + 1].source1 = source(Source1(I))
           /\ set'[done + 1].source2 = source(Source2(I))
           /\ set'[done + 1].destination1 = destination(Destination1(I))
           /\ set'[done + 1].destination2 = destination(Destination2(I))
<1> DEFINE e == [current |-> current(I),
                 source1 |-> source(Source1(I)), source2 |-> source(Source2(I)),
                 destination1 |-> destination(Destination1(I)),
                 destination2 |-> destination(Destination2(I))]
<1>0. Sorting
  BY DEF sort_instruction
<1>1. /\ done \in Nat /\ Len(set) = done /\ set \in Seq(SettingType)
      /\ group' = group /\ done' = done + 1 /\ set' = Append(set, e)
  BY <1>0, Facts DEF SortTypeOK, sort_instruction
<1>2. current(I) \in Nat
  BY DEF SortTypeOK, current, Given, Deals, PushesOf, Destination1, Destination2, Stores, Modules
<1>3. ASSUME NEW q, q \in PopsOf(I) \cup {"none"}
      PROVE  source(q) \in Nat
  <2>1. CASE q = "none"
    BY <2>1 DEF source
  <2>2. CASE q # "none"
    <3>1. q \in Queues /\ queue[q] \in Seq(Nat) /\ queue[q] # << >>
      BY <1>0, <1>3, <2>2, Facts, PopsPushes DEF sort_instruction, NothingToPop
    <3>2. QED
      BY <2>2, <3>1, HeadTailProperties DEF source
  <2>3. QED
    BY <2>1, <2>2
<1>4. ASSUME NEW q, q \in PushesOf(I) \cup {"none"}
      PROVE  destination(q) \in Nat
  BY <1>0, <1>4, Facts, PopsPushes DEF destination
<1>5. e \in SettingType
  BY <1>2, <1>3, <1>4, PopsPushes DEF SettingType
<1> HIDE DEF e
<1>6. /\ Append(set, e) \in Seq(SettingType) /\ Len(Append(set, e)) = done + 1
      /\ \A n \in 1 .. done : Append(set, e)[n] = set[n]
      /\ Append(set, e)[done + 1] = e
  BY <1>1, <1>5, AppendProperties
<1>7. QED
  BY <1>1, <1>6 DEF e

-----------------------------------------------------------------------------
(* The lists. *)

\* t is s, a list of some of 1 .. d in order, or s with d + 1 behind it.
LengthenedTo(d, s, t) ==
    /\ t \in Seq(1 .. d + 1)
    /\ \A j, k \in DOMAIN t : j < k => t[j] < t[k]
    /\ \A n \in 1 .. d : (\E k \in DOMAIN t : t[k] = n) <=> (\E k \in DOMAIN s : s[k] = n)
    /\ (\E k \in DOMAIN t : t[k] = d + 1) <=> t # s

\* A list of some of 1 .. d that takes d + 1, or stays as it is.
LEMMA Lengthened ==
    ASSUME NEW d \in Nat, NEW s \in Seq(1 .. d), NEW t,
           \A j, k \in DOMAIN s : j < k => s[j] < s[k],
           t = Append(s, d + 1) \/ t = s
    PROVE  LengthenedTo(d, s, t)
<1>1. PICK l \in Nat : l = Len(s) /\ s \in [1 .. l -> 1 .. d]
  BY LenProperties
<1>2. \A k \in 1 .. l : s[k] \in 1 .. d
  BY <1>1
<1>3. CASE t = s
  <2>1. s \in Seq(1 .. d + 1)
    BY <1>1, SeqDef
  <2>2. \A k \in 1 .. l : s[k] # d + 1
    BY <1>2
  <2>3. QED
    BY <1>1, <1>3, <2>1, <2>2 DEF LengthenedTo
<1>4. CASE t = Append(s, d + 1)
  <2>1. s \in Seq(1 .. d + 1)
    BY <1>1, SeqDef
  <2>2. /\ t \in Seq(1 .. d + 1) /\ Len(t) = l + 1 /\ DOMAIN t = 1 .. l + 1
        /\ \A k \in 1 .. l : t[k] = s[k]
        /\ t[l + 1] = d + 1
    BY <1>1, <1>4, <2>1, AppendProperties, LenProperties
  <2>3. ASSUME NEW j \in 1 .. l + 1, NEW k \in 1 .. l + 1, j < k
        PROVE  t[j] < t[k]
    <3>1. j \in 1 .. l /\ (k \in 1 .. l \/ k = l + 1)
      BY <2>3
    <3>2. s[j] < d + 1 /\ (k \in 1 .. l => s[j] < s[k])
      BY <1>1, <1>2, <2>3, <3>1
    <3>3. QED
      BY <2>2, <3>1, <3>2
  <2>4. ASSUME NEW n \in 1 .. d
        PROVE  (\E k \in 1 .. l + 1 : t[k] = n) <=> (\E k \in 1 .. l : s[k] = n)
    <3>1. n # d + 1 /\ \A k \in 1 .. l + 1 : k \in 1 .. l \/ k = l + 1
      OBVIOUS
    <3>2. 1 .. l \subseteq 1 .. l + 1
      OBVIOUS
    <3>3. QED
      BY <2>2, <3>1, <3>2
  <2>5. l + 1 \in 1 .. l + 1 /\ t # s
    BY <1>1, <2>2
  <2>6. QED
    BY <1>1, <2>2, <2>3, <2>4, <2>5 DEF LengthenedTo
<1>5. QED
  BY <1>3, <1>4

\* An instruction is put in the list of the pipeline it was given.
LEMMA ListStep ==
    ASSUME SortTypeOK, Listed, sort_instruction
    PROVE  /\ list' = [m \in Modules |-> list'[m]]
           /\ \A m \in Modules : list'[m] \in [1 .. Nr[m] -> Seq(1 .. done')]
           /\ Listed'
<1> DEFINE M == module_type(I.name)
           P == current(I)
<1>1. /\ done \in Nat /\ done' = done + 1 /\ group' = group /\ set'[done + 1].current = P
      /\ \A n \in 1 .. done : set'[n] = set[n]
  BY SettingStep, Facts DEF sort_instruction
<1>2. list' = listed(I) /\ (M \in Modules => P \in 1 .. Nr[M])
  BY DEF sort_instruction, NoIndex
<1>3. /\ list = [m \in Modules |-> list[m]]
      /\ \A m \in Modules : list[m] \in [1 .. Nr[m] -> Seq(1 .. done)]
  BY DEF SortTypeOK
<1> HIDE DEF M, P
<1>4. list' = IF M \in Modules THEN [list EXCEPT ![M][P] = Append(@, done + 1)] ELSE list
  BY <1>2 DEF listed, M, P
<1>5. /\ list' = [m \in Modules |-> list'[m]]
      /\ \A m \in Modules : list'[m] = [p \in 1 .. Nr[m] |-> list'[m][p]]
      /\ \A m \in Modules : \A p \in 1 .. Nr[m] :
            list'[m][p] = IF m = M /\ p = P THEN Append(list[m][p], done + 1) ELSE list[m][p]
  <2>1. list' = [m \in Modules |-> list'[m]]
    BY <1>3, <1>4
  <2>2. ASSUME NEW m \in Modules, m # M
        PROVE  list'[m] = list[m]
    BY <1>3, <1>4, <2>2
  <2>3. ASSUME M \in Modules
        PROVE  list'[M] = [list[M] EXCEPT ![P] = Append(@, done + 1)]
    BY <1>3, <1>4, <2>3
  <2>4. ASSUME NEW m \in Modules
        PROVE  list[m] = [p \in 1 .. Nr[m] |-> list[m][p]]
    BY <1>3
  <2>5. ASSUME NEW m \in Modules
        PROVE  /\ list'[m] = [p \in 1 .. Nr[m] |-> list'[m][p]]
               /\ \A p \in 1 .. Nr[m] :
                     list'[m][p] = IF m = M /\ p = P THEN Append(list[m][p], done + 1) ELSE list[m][p]
    <3>1. CASE m = M
      <4>1. list[m] = [p \in 1 .. Nr[m] |-> list[m][p]]
        BY <2>4
      <4>2. list'[m] = [list[m] EXCEPT ![P] = Append(@, done + 1)]
        BY <2>3, <3>1
      <4>3. QED
        BY <3>1, <4>1, <4>2
    <3>2. CASE m # M
      BY <2>2, <2>4, <3>2
    <3>3. QED
      BY <3>1, <3>2
  <2>6. QED
    BY <2>1, <2>5
<1>6. ASSUME NEW m \in Modules, NEW p \in 1 .. Nr[m]
      PROVE  /\ list'[m][p] \in Seq(1 .. done + 1)
             /\ \A j, k \in DOMAIN list'[m][p] : j < k => list'[m][p][j] < list'[m][p][k]
             /\ \A n \in 1 .. done : (\E k \in DOMAIN list'[m][p] : list'[m][p][k] = n)
                                      <=> (\E k \in DOMAIN list[m][p] : list[m][p][k] = n)
             /\ (\E k \in DOMAIN list'[m][p] : list'[m][p][k] = done + 1) <=> m = M /\ p = P
  <2>1. list[m][p] \in Seq(1 .. done)
    BY <1>3
  <2>2. \A j, k \in DOMAIN list[m][p] : j < k => list[m][p][j] < list[m][p][k]
    BY DEF Listed
  <2>3. list'[m][p] = Append(list[m][p], done + 1) \/ list'[m][p] = list[m][p]
    BY <1>5
  <2>4. Append(list[m][p], done + 1) # list[m][p]
    BY <1>1, <2>1, AppendProperties, LenProperties
  <2>5. list'[m][p] # list[m][p] <=> m = M /\ p = P
    BY <1>5, <2>4
  <2>6. LengthenedTo(done, list[m][p], list'[m][p])
    BY <1>1, <2>1, <2>2, <2>3, Lengthened
  <2>7. QED
    BY <2>5, <2>6 DEF LengthenedTo
<1>7. ASSUME NEW m \in Modules, NEW p \in 1 .. Nr[m], NEW n \in 1 .. done + 1
      PROVE  (\E k \in DOMAIN list'[m][p] : list'[m][p][k] = n)
                <=> m = module_type(group[n].name) /\ p = set'[n].current
  <2>1. CASE n = done + 1
    BY <1>1, <1>6, <2>1 DEF M, I
  <2>2. CASE n # done + 1
    <3>1. n \in 1 .. done
      BY <1>1, <2>2
    <3>2. (\E k \in DOMAIN list[m][p] : list[m][p][k] = n)
             <=> m = module_type(group[n].name) /\ p = set[n].current
      BY <3>1 DEF Listed
    <3>3. QED
      BY <1>1, <1>6, <3>1, <3>2
  <2>3. QED
    BY <2>1, <2>2
<1>8. Listed'
  BY <1>1, <1>6, <1>7 DEF Listed
<1>9. QED
  BY <1>1, <1>5, <1>6, <1>8

\* In order and complete: each instruction is in its list once.
LEMMA ListedOnce ==
    ASSUME SortTypeOK, Listed
    PROVE  EachOnce
<1>1. ASSUME NEW n \in 1 .. done, NEW m \in Modules, NEW p \in 1 .. Nr[m]
      PROVE  Cardinality(Occurs(m, p, n)) =
                IF m = module_type(group[n].name) /\ p = set[n].current THEN 1 ELSE 0
  <2> DEFINE s == list[m][p]
  <2>1. /\ (\E k \in DOMAIN s : s[k] = n) <=> m = module_type(group[n].name) /\ p = set[n].current
        /\ \A j, k \in DOMAIN s : j < k => s[j] < s[k]
    BY DEF Listed
  <2>2. CASE \E k \in DOMAIN s : s[k] = n
    <3>1. PICK k \in DOMAIN s : s[k] = n
      BY <2>2
    <3>2. s \in Seq(1 .. done) /\ n \in Int
      <4>1. s \in Seq(1 .. done)
        BY DEF SortTypeOK
      <4>2. n \in Int
        BY LenProperties DEF SortTypeOK
      <4>3. QED
        BY <4>1, <4>2
    <3>3. ASSUME NEW j \in DOMAIN s, s[j] = n
          PROVE  j = k
      <4>1. DOMAIN s = 1 .. Len(s) /\ Len(s) \in Nat
        BY <3>2, LenProperties
      <4>2. ~ (n < n)
        BY <3>2
      <4>3. ~ (j < k) /\ ~ (k < j)
        BY <2>1, <3>1, <3>3, <4>2
      <4>4. QED
        BY <3>1, <4>1, <4>3
    <3>4. Occurs(m, p, n) = {k}
      BY <3>1, <3>3 DEF Occurs
    <3>5. QED
      BY <2>1, <2>2, <3>4, FS_Singleton
  <2>3. CASE ~ \E k \in DOMAIN s : s[k] = n
    <3>1. Occurs(m, p, n) = {}
      BY <2>3 DEF Occurs
    <3>2. QED
      BY <2>1, <2>3, <3>1, FS_EmptySet
  <2>4. QED
    BY <2>2, <2>3
<1>2. QED
  BY <1>1 DEF Listed, EachOnce

-----------------------------------------------------------------------------
(* The turns. *)

\* What has been dealt out after the n-th instruction, from what was before.
LEMMA DealtStep ==
    ASSUME NEW m, NEW n \in Nat \ {0}
    PROVE  DealtBefore(m, n + 1) =
              IF group[n].name = "FINISH" THEN {}
              ELSE IF group[n].module = m /\ Deals(group[n]) THEN DealtBefore(m, n) \cup {n}
              ELSE DealtBefore(m, n)
<1> DEFINE Dealt(k)   == group[k].module = m /\ Deals(group[k])
           Since(k, l) == \A f \in k .. l : group[f].name # "FINISH"
<1>1. /\ DealtBefore(m, n + 1) = {k \in 1 .. n : Dealt(k) /\ Since(k, n)}
      /\ DealtBefore(m, n) = {k \in 1 .. n - 1 : Dealt(k) /\ Since(k, n - 1)}
  BY DEF DealtBefore
<1>2. ASSUME NEW k \in 1 .. n
      PROVE  /\ Since(k, n) <=> (group[n].name # "FINISH" /\ (k \in 1 .. n - 1 => Since(k, n - 1)))
             /\ k \in 1 .. n - 1 \/ k = n
  <2>1. k .. n = (k .. n - 1) \cup {n} /\ n \in k .. n
    OBVIOUS
  <2>2. k \in 1 .. n - 1 \/ k = n
    OBVIOUS
  <2>3. k = n => k .. n - 1 = {}
    OBVIOUS
  <2>4. QED
    BY <2>1, <2>2, <2>3
<1>3. 1 .. n = (1 .. n - 1) \cup {n} /\ n \notin 1 .. n - 1
  OBVIOUS
<1> HIDE DEF Dealt, Since
<1>4. CASE group[n].name = "FINISH"
  BY <1>1, <1>2, <1>4
<1>5. CASE group[n].name # "FINISH"
  <2>1. DealtBefore(m, n + 1) = {k \in 1 .. n : Dealt(k) /\ (k \in 1 .. n - 1 => Since(k, n - 1))}
    BY <1>1, <1>2, <1>5
  <2>2. DealtBefore(m, n + 1) = DealtBefore(m, n) \cup {k \in {n} : Dealt(k)}
    BY <1>1, <1>3, <2>1
  <2>3. Dealt(n) <=> group[n].module = m /\ Deals(group[n])
    BY DEF Dealt
  <2>4. QED
    BY <1>5, <2>2, <2>3
<1>6. QED
  BY <1>4, <1>5

\* The counters follow the turns.
LEMMA TurnStep ==
    ASSUME SortTypeOK, CountersTurn, InTurn, sort_instruction
    PROVE  CountersTurn' /\ InTurn' /\ counter' \in [Modules -> Nat]
<1> DEFINE N == done + 1
<1>1. /\ Sorting /\ done \in Nat /\ N \in Nat \ {0} /\ done' = N /\ group' = group
      /\ I = group[N] /\ set'[N].current = current(I)
      /\ \A n \in 1 .. done : set'[n] = set[n]
  BY SettingStep, Facts DEF sort_instruction, I
<1>2. counter' = counters(I)
  BY DEF sort_instruction
<1>3. \A m \in Modules : Nr[m] \in Nat \ {0}
  BY NrAssumption
<1> HIDE DEF N
<1>4. ASSUME NEW m \in Modules
      PROVE  counter'[m] = Turn(m, N + 1) /\ counter'[m] \in Nat
  <2>1. DealtBefore(m, N) \in SUBSET (1 .. done)
    BY <1>1 DEF DealtBefore, N
  <2>2. PICK c \in Nat : c = Cardinality(DealtBefore(m, N))
    BY <1>1, <2>1, OneMore
  <2>3. Cardinality(DealtBefore(m, N) \cup {N}) = c + 1
    BY <1>1, <2>1, <2>2, OneMore DEF N
  <2>4. counter[m] = (c % Nr[m]) + 1
    BY <2>2 DEF CountersTurn, Turn, N
  <2>5. /\ c % Nr[m] \in 0 .. Nr[m] - 1
        /\ (c + 1) % Nr[m] = IF (c % Nr[m]) + 1 = Nr[m] THEN 0 ELSE (c % Nr[m]) + 1
    BY <1>3, <2>2, NextTurn
  <2>6. CASE I.name = "FINISH"
    <3>1. counter'[m] = 1 /\ DealtBefore(m, N + 1) = {}
      BY <1>1, <1>2, <2>6, DealtStep DEF counters
    <3>2. Turn(m, N + 1) = (0 % Nr[m]) + 1
      BY <3>1, FS_EmptySet DEF Turn
    <3>3. 0 % Nr[m] = 0
      BY <1>3
    <3>4. QED
      BY <3>1, <3>2, <3>3
  <2>7. CASE I.name # "FINISH" /\ I.module = m /\ Deals(I)
    <3>1. counter'[m] = following(m) /\ DealtBefore(m, N + 1) = DealtBefore(m, N) \cup {N}
      BY <1>1, <1>2, <2>7, DealtStep DEF counters
    <3>2. Turn(m, N + 1) = ((c + 1) % Nr[m]) + 1
      BY <2>3, <3>1 DEF Turn
    <3>3. PICK r \in 0 .. Nr[m] - 1 : r = c % Nr[m]
      BY <2>5
    <3>4. counter'[m] = IF r + 2 > Nr[m] THEN 1 ELSE r + 2
      BY <1>3, <2>4, <3>1, <3>3 DEF following
    <3>5. Turn(m, N + 1) = (IF r + 1 = Nr[m] THEN 0 ELSE r + 1) + 1
      BY <2>5, <3>2, <3>3
    <3>6. QED
      BY <1>3, <3>3, <3>4, <3>5
  <2>8. CASE I.name # "FINISH" /\ ~ (I.module = m /\ Deals(I))
    <3>1. counter'[m] = counter[m] /\ DealtBefore(m, N + 1) = DealtBefore(m, N)
      BY <1>1, <1>2, <2>8, DealtStep DEF counters
    <3>2. QED
      BY <2>2, <2>4, <2>5, <3>1 DEF Turn
  <2>9. QED
    BY <2>6, <2>7, <2>8
<1>5. CountersTurn'
  BY <1>1, <1>4 DEF CountersTurn, Turn, DealtBefore
<1>6. ASSUME NEW n \in 1 .. N, Given(group[n])
      PROVE  set'[n].current = Turn(group[n].module, n)
  <2>1. CASE n = N
    <3>1. I.module \in Modules
      BY <1>1, <1>6, <2>1
         DEF Given, Deals, PushesOf, Destination1, Destination2, Stores, Modules
    <3>2. QED
      BY <1>1, <1>6, <2>1, <3>1 DEF current, CountersTurn, N
  <2>2. CASE n # N
    <3>1. n \in 1 .. done
      BY <1>1, <2>2 DEF N
    <3>2. QED
      BY <1>1, <1>6, <3>1 DEF InTurn
  <2>3. QED
    BY <2>1, <2>2
<1>7. InTurn'
  BY <1>1, <1>6 DEF InTurn, Turn, DealtBefore
<1>8. counter' \in [Modules -> Nat]
  BY <1>2, <1>4 DEF counters
<1>9. QED
  BY <1>5, <1>7, <1>8

-----------------------------------------------------------------------------
(* The queues. *)

\* What has popped and pushed a queue after one more instruction.
LEMMA TrafficStep ==
    ASSUME SortTypeOK, sort_instruction, NEW q \in Queues, NEW N \in Nat, N = done + 1
    PROVE  /\ Popping(q)' = IF q \in PopsOf(I) THEN Popping(q) \cup {N} ELSE Popping(q)
           /\ Pushing(q)' = IF q \in PushesOf(I) THEN Pushing(q) \cup {N} ELSE Pushing(q)
           /\ Popping(q) \in SUBSET (1 .. done) /\ Pushing(q) \in SUBSET (1 .. done)
           /\ \A n \in 1 .. done : Taken(n, q)' = Taken(n, q) /\ Sent(n, q)' = Sent(n, q)
           /\ q \in PopsOf(I) => Taken(N, q)' = Head(queue[q])
           /\ q \in PushesOf(I) => Sent(N, q)' = Len(queue[q]) + 1
<1>1. /\ done \in Nat /\ done' = N /\ group' = group /\ I = group[N]
      /\ \A n \in 1 .. done : set'[n] = set[n]
      /\ set'[N].source1 = source(Source1(I)) /\ set'[N].source2 = source(Source2(I))
      /\ set'[N].destination1 = destination(Destination1(I))
      /\ set'[N].destination2 = destination(Destination2(I))
  BY SettingStep, Facts DEF sort_instruction, I
<1>2. 1 .. N = (1 .. done) \cup {N}
  BY <1>1
<1>3. /\ Popping(q)' = {n \in 1 .. N : q \in PopsOf(group[n])}
      /\ Pushing(q)' = {n \in 1 .. N : q \in PushesOf(group[n])}
  BY <1>1 DEF Popping, Pushing
<1>4. /\ Popping(q)' = IF q \in PopsOf(I) THEN Popping(q) \cup {N} ELSE Popping(q)
      /\ Pushing(q)' = IF q \in PushesOf(I) THEN Pushing(q) \cup {N} ELSE Pushing(q)
  BY <1>1, <1>2, <1>3 DEF Popping, Pushing
<1>5. \A n \in 1 .. done : Taken(n, q)' = Taken(n, q) /\ Sent(n, q)' = Sent(n, q)
  BY <1>1 DEF Taken, Sent
<1>6. q # "none"
  BY DEF Queues
<1>7. ASSUME q \in PopsOf(I)
      PROVE  Taken(N, q)' = Head(queue[q])
  BY <1>1, <1>6, <1>7, PopsPushes DEF Taken, source
<1>8. ASSUME q \in PushesOf(I)
      PROVE  Sent(N, q)' = Len(queue[q]) + 1
  BY <1>1, <1>6, <1>8, PopsPushes DEF Sent, destination
<1>9. QED
  BY <1>4, <1>5, <1>7, <1>8 DEF Popping, Pushing

\* A queue that is not used stays as it was; one that is popped gives the
\* number of the first push not yet met; one that is pushed takes a new last.
LEMMA QueueStep ==
    ASSUME SortTypeOK, PopsMeetPushes, QueuesWait, sort_instruction
    PROVE  PopsMeetPushes' /\ QueuesWait' /\ queue' \in [Queues -> Seq(Nat)]
<1>0. PICK N \in Nat : N = done + 1
  BY Facts DEF sort_instruction
<1>1. /\ Sorting /\ done \in Nat /\ done' = N /\ ~ NothingToPop(I) /\ queue' = exchange(I)
  BY <1>0, Facts, SettingStep DEF sort_instruction
<1>2. ASSUME NEW q \in Queues
      PROVE  /\ \A a \in Popping(q)' : \E b \in Pushing(q)' :
                   b < a /\ Rank(b, Pushing(q)') = Rank(a, Popping(q)') /\ Taken(a, q)' = Sent(b, q)'
             /\ Cardinality(Pushing(q)') = Cardinality(Popping(q)') + Len(queue'[q])
             /\ \A k \in 1 .. Len(queue'[q]) : \E b \in Pushing(q)' :
                   Rank(b, Pushing(q)') = Cardinality(Popping(q)') + k /\ Sent(b, q)' = queue'[q][k]
             /\ queue'[q] \in Seq(Nat)
  <2>1. PICK l \in Nat : l = Len(queue[q])
    BY <1>1, Facts
  <2>2. queue[q] \in Seq(Nat)
    BY <1>1, Facts
  <2>3. PICK A \in SUBSET (1 .. done), B \in SUBSET (1 .. done) : A = Popping(q) /\ B = Pushing(q)
    BY <1>0, TrafficStep
  <2>4. PICK a0 \in Nat, b0 \in Nat : a0 = Cardinality(A) /\ b0 = Cardinality(B)
    BY <1>1, <2>3, OneMore
  <2>5. /\ b0 = a0 + l
        /\ \A k \in 1 .. l : \E b \in B : Rank(b, B) = a0 + k /\ Sent(b, q) = queue[q][k]
        /\ \A a \in A : \E b \in B : b < a /\ Rank(b, B) = Rank(a, A) /\ Taken(a, q) = Sent(b, q)
    BY <2>1, <2>3, <2>4 DEF QueuesWait, PopsMeetPushes
  <2>6. /\ Cardinality(A \cup {N}) = a0 + 1 /\ Cardinality(B \cup {N}) = b0 + 1
        /\ \A n \in 1 .. done : Rank(n, A \cup {N}) = Rank(n, A) /\ Rank(n, B \cup {N}) = Rank(n, B)
        /\ Rank(N, A \cup {N}) = a0 + 1 /\ Rank(N, B \cup {N}) = b0 + 1
    BY <1>0, <1>1, <2>4, OneMore
  <2>7. \A n \in 1 .. done : Taken(n, q)' = Taken(n, q) /\ Sent(n, q)' = Sent(n, q)
    BY <1>0, TrafficStep
  <2>8. \A n \in 1 .. done : n < N
    BY <1>0, <1>1
  <2>9. CASE q \in PopsOf(I)
    <3>1. q \notin PushesOf(I) /\ queue[q] # << >>
      BY <1>1, <2>9, PopsPushes DEF NothingToPop
    <3>2. /\ Popping(q)' = A \cup {N} /\ Pushing(q)' = B /\ Taken(N, q)' = Head(queue[q])
      BY <2>3, <2>9, <3>1, <1>0, TrafficStep
    <3>3. queue'[q] = Tail(queue[q])
      BY <1>1, <2>9 DEF exchange
    <3>4. l \in Nat \ {0} /\ Head(queue[q]) = queue[q][1]
      BY <2>1, <2>2, <3>1, EmptySeq, HeadTailProperties, LenProperties
    <3>5. /\ queue'[q] \in Seq(Nat) /\ Len(queue'[q]) = l - 1
          /\ \A k \in 1 .. l - 1 : queue'[q][k] = queue[q][k + 1]
      BY <2>1, <2>2, <3>1, <3>3, HeadTailProperties
    <3>6. PICK b1 \in B : Rank(b1, B) = a0 + 1 /\ Sent(b1, q) = queue[q][1]
      <4>1. 1 \in 1 .. l
        BY <3>4
      <4>2. QED
        BY <2>5, <4>1
    <3>7. b1 < N /\ Rank(b1, B) = Rank(N, A \cup {N}) /\ Taken(N, q)' = Sent(b1, q)'
      BY <2>6, <2>7, <2>8, <3>2, <3>4, <3>6
    <3>8. \A a \in A : \E b \in B :
             b < a /\ Rank(b, B) = Rank(a, A \cup {N}) /\ Taken(a, q)' = Sent(b, q)'
      BY <2>5, <2>6, <2>7
    <3>9. ASSUME NEW k \in 1 .. l - 1
          PROVE  \E b \in B : Rank(b, B) = (a0 + 1) + k /\ Sent(b, q)' = queue'[q][k]
      <4>1. k + 1 \in 1 .. l /\ a0 + (k + 1) = (a0 + 1) + k
        BY <3>4
      <4>2. PICK b \in B : Rank(b, B) = a0 + (k + 1) /\ Sent(b, q) = queue[q][k + 1]
        BY <2>5, <4>1
      <4>3. QED
        BY <2>7, <3>5, <4>1, <4>2
    <3>10. b0 = (a0 + 1) + (l - 1)
      BY <2>5, <3>4
    <3>11. \A a \in Popping(q)' : \E b \in Pushing(q)' :
              b < a /\ Rank(b, Pushing(q)') = Rank(a, Popping(q)') /\ Taken(a, q)' = Sent(b, q)'
      BY <3>2, <3>7, <3>8, Zenon
    <3>12. Cardinality(Pushing(q)') = Cardinality(Popping(q)') + Len(queue'[q])
      BY <2>4, <2>6, <3>2, <3>5, <3>10
    <3>13. \A k \in 1 .. Len(queue'[q]) : \E b \in Pushing(q)' :
              Rank(b, Pushing(q)') = Cardinality(Popping(q)') + k /\ Sent(b, q)' = queue'[q][k]
      BY <2>6, <3>2, <3>5, <3>9, Zenon
    <3>14. QED
      BY <3>5, <3>11, <3>12, <3>13
  <2>10. CASE q \in PushesOf(I)
    <3>1. q \notin PopsOf(I)
      BY <2>10, PopsPushes
    <3>2. /\ Popping(q)' = A /\ Pushing(q)' = B \cup {N} /\ Sent(N, q)' = l + 1
      BY <2>1, <2>3, <2>10, <3>1, <1>0, TrafficStep
    <3>3. queue'[q] = Append(queue[q], l + 1)
      BY <1>1, <2>1, <2>10, <3>1 DEF exchange, destination, Queues
    <3>4. /\ queue'[q] \in Seq(Nat) /\ Len(queue'[q]) = l + 1
          /\ \A k \in 1 .. l : queue'[q][k] = queue[q][k]
          /\ queue'[q][l + 1] = l + 1
      BY <2>1, <2>2, <3>3, AppendProperties
    <3>5. \A a \in A : \E b \in B \cup {N} :
             b < a /\ Rank(b, B \cup {N}) = Rank(a, A) /\ Taken(a, q)' = Sent(b, q)'
      BY <2>5, <2>6, <2>7
    <3>6. ASSUME NEW k \in 1 .. l + 1
          PROVE  \E b \in B \cup {N} : Rank(b, B \cup {N}) = a0 + k /\ Sent(b, q)' = queue'[q][k]
      <4>1. CASE k \in 1 .. l
        <5>1. PICK b \in B : Rank(b, B) = a0 + k /\ Sent(b, q) = queue[q][k]
          BY <2>5, <4>1
        <5>2. QED
          BY <2>6, <2>7, <3>4, <4>1, <5>1
      <4>2. CASE k = l + 1
        <5>1. b0 + 1 = a0 + (l + 1)
          BY <2>5
        <5>2. QED
          BY <2>6, <3>2, <3>4, <4>2, <5>1
      <4>3. k \in 1 .. l \/ k = l + 1
        OBVIOUS
      <4>4. QED
        BY <4>1, <4>2, <4>3
    <3>7. b0 + 1 = a0 + (l + 1)
      BY <2>5
    <3>8. \A a \in Popping(q)' : \E b \in Pushing(q)' :
              b < a /\ Rank(b, Pushing(q)') = Rank(a, Popping(q)') /\ Taken(a, q)' = Sent(b, q)'
      BY <3>2, <3>5, Zenon
    <3>9. Cardinality(Pushing(q)') = Cardinality(Popping(q)') + Len(queue'[q])
      BY <2>4, <2>6, <3>2, <3>4, <3>7
    <3>10. \A k \in 1 .. Len(queue'[q]) : \E b \in Pushing(q)' :
              Rank(b, Pushing(q)') = Cardinality(Popping(q)') + k /\ Sent(b, q)' = queue'[q][k]
      BY <2>4, <3>2, <3>4, <3>6, Zenon
    <3>11. QED
      BY <3>4, <3>8, <3>9, <3>10
  <2>11. CASE q \notin PopsOf(I) /\ q \notin PushesOf(I)
    <3>1. Popping(q)' = A /\ Pushing(q)' = B /\ queue'[q] = queue[q]
      BY <1>1, <2>3, <2>11, <1>0, TrafficStep DEF exchange
    <3>2. \A a \in A : \E b \in B : b < a /\ Rank(b, B) = Rank(a, A) /\ Taken(a, q)' = Sent(b, q)'
      BY <2>5, <2>7
    <3>3. \A k \in 1 .. l : \E b \in B : Rank(b, B) = a0 + k /\ Sent(b, q)' = queue[q][k]
      BY <2>5, <2>7
    <3>4. QED
      BY <2>1, <2>2, <2>4, <2>5, <3>1, <3>2, <3>3, Zenon
  <2>12. QED
    BY <2>9, <2>10, <2>11
<1>3. queue' \in [Queues -> Seq(Nat)]
  <2>1. queue' = [q \in Queues |-> queue'[q]]
    BY <1>1 DEF exchange
  <2>2. QED
    BY <1>2, <2>1
<1>4. PopsMeetPushes'
  BY <1>2 DEF PopsMeetPushes
<1>5. QueuesWait'
  BY <1>2 DEF QueuesWait
<1>6. QED
  BY <1>3, <1>4, <1>5

-----------------------------------------------------------------------------
(* The faults. *)

\* One more instruction is balanced if each queue it pops has been pushed more
\* often than popped.
LEMMA BalancedStep ==
    ASSUME NEW n \in Nat
    PROVE  Balanced(n + 1) <=>
              /\ Balanced(n)
              /\ \A q \in Queues : Cardinality({k \in 1 .. n + 1 : q \in PopsOf(group[k])})
                                      <= Cardinality({k \in 1 .. n : q \in PushesOf(group[k])})
<1> DEFINE Within(m, q) == Cardinality({k \in 1 .. m : q \in PopsOf(group[k])})
                              <= Cardinality({k \in 1 .. m - 1 : q \in PushesOf(group[k])})
<1>1. 1 .. n + 1 = (1 .. n) \cup {n + 1} /\ (n + 1) - 1 = n
  OBVIOUS
<1>2. /\ Balanced(n + 1) <=> \A m \in 1 .. n + 1, q \in Queues : Within(m, q)
      /\ Balanced(n) <=> \A m \in 1 .. n, q \in Queues : Within(m, q)
  BY DEF Balanced
<1>3. \A q \in Queues :
         Within(n + 1, q) <=> Cardinality({k \in 1 .. n + 1 : q \in PopsOf(group[k])})
                                <= Cardinality({k \in 1 .. n : q \in PushesOf(group[k])})
  BY <1>1
<1> HIDE DEF Within
<1>4. QED
  BY <1>1, <1>2, <1>3, Zenon

\* The counts after the next instruction.
LEMMA Counts ==
    ASSUME SortTypeOK, QueuesWait, Sorting, NEW q \in Queues
    PROVE  Cardinality({k \in 1 .. done + 1 : q \in PopsOf(group[k])})
              <= Cardinality({k \in 1 .. done : q \in PushesOf(group[k])})
           <=> ~ (q \in PopsOf(I) /\ queue[q] = << >>)
<1>1. done \in Nat /\ I = group[done + 1] /\ queue[q] \in Seq(Nat)
  BY Facts DEF I
<1>2. PICK l \in Nat : l = Len(queue[q]) /\ (l = 0 <=> queue[q] = << >>)
  BY <1>1, EmptySeq, LenProperties
<1>3. PICK A \in SUBSET (1 .. done), B \in SUBSET (1 .. done) :
         /\ A = {k \in 1 .. done : q \in PopsOf(group[k])} /\ A = Popping(q)
         /\ B = {k \in 1 .. done : q \in PushesOf(group[k])} /\ B = Pushing(q)
  BY DEF Popping, Pushing
<1>4. PICK a \in Nat, b \in Nat : a = Cardinality(A) /\ b = Cardinality(B) /\ b = a + l
  BY <1>1, <1>2, <1>3, OneMore DEF QueuesWait
<1>5. {k \in 1 .. done + 1 : q \in PopsOf(group[k])} = IF q \in PopsOf(I) THEN A \cup {done + 1} ELSE A
  <2>1. 1 .. done + 1 = (1 .. done) \cup {done + 1}
    BY <1>1
  <2>2. QED
    BY <1>1, <1>3, <2>1
<1>6. Cardinality(A \cup {done + 1}) = a + 1
  BY <1>1, <1>4, OneMore
<1>7. Cardinality({k \in 1 .. done + 1 : q \in PopsOf(group[k])}) = IF q \in PopsOf(I) THEN a + 1 ELSE a
  BY <1>4, <1>5, <1>6
<1>8. Cardinality({k \in 1 .. done : q \in PushesOf(group[k])}) = b
  BY <1>3, <1>4
<1>9. (IF q \in PopsOf(I) THEN a + 1 ELSE a) <= b <=> ~ (q \in PopsOf(I) /\ l = 0)
  BY <1>4
<1>10. QED
  BY <1>2, <1>7, <1>8, <1>9

\* The file is balanced as far as it is sorted, and not where it is given up.
LEMMA FaultStep ==
    ASSUME SortTypeOK, QueuesWait, FaultsEarned, Sorting
    PROVE  Balanced(done + 1) <=> ~ NothingToPop(I)
<1>1. Balanced(done) /\ done \in Nat
  BY Facts DEF FaultsEarned
<1>2. (\A q \in Queues : Cardinality({k \in 1 .. done + 1 : q \in PopsOf(group[k])})
                            <= Cardinality({k \in 1 .. done : q \in PushesOf(group[k])}))
         <=> ~ NothingToPop(I)
  BY Counts, PopsPushes DEF NothingToPop
<1>3. QED
  BY <1>1, <1>2, BalancedStep

\* A counter is a pipeline of its module, so an index goes astray only by the
\* row.
LEMMA IndexFault ==
    ASSUME SortTypeOK, CountersTurn, NoIndex(I)
    PROVE  /\ module_type(I.name) \in Modules
           /\ I.module # module_type(I.name) \/ (Stores(I) /\ ~ Deals(I))
<1>0. module_type(I.name) \in Modules
  BY DEF NoIndex
<1> SUFFICES ASSUME I.module = module_type(I.name)
             PROVE  Stores(I) /\ ~ Deals(I)
  BY <1>0
<1>1. PICK m \in Modules : m = I.module /\ m = module_type(I.name) /\ current(I) \notin 1 .. Nr[m]
  BY DEF NoIndex
<1>2. counter[m] \in 1 .. Nr[m]
  <2>1. DealtBefore(m, done + 1) \in SUBSET (1 .. done) /\ done \in Nat
    BY LenProperties DEF DealtBefore, SortTypeOK
  <2>2. PICK c \in Nat : c = Cardinality(DealtBefore(m, done + 1))
    BY <2>1, OneMore
  <2>3. Nr[m] \in Nat \ {0} /\ counter[m] = (c % Nr[m]) + 1
    BY <2>2, NrAssumption DEF CountersTurn, Turn
  <2>4. c % Nr[m] \in 0 .. Nr[m] - 1
    BY <2>2, <2>3, NextTurn
  <2>5. QED
    BY <2>3, <2>4
<1>3. ~ Given(I)
  BY <1>1, <1>2 DEF current
<1>4. m = "STORE" /\ ~ Deals(I)
  BY <1>1, <1>3 DEF Given, Modules
<1>5. I.name \in {"STORE", "NOP-STORE-STAGE"}
  BY <1>1, <1>4 DEF module_type
<1>6. QED
  BY <1>1, <1>4, <1>5 DEF Stores

-----------------------------------------------------------------------------
(* The theorems. *)

LEMMA InitInv == SortInit => SortInv
<1> SUFFICES ASSUME SortInit
             PROVE  SortInv
  OBVIOUS
<1> USE DEF SortInit, StartSort
<1>1. SortTypeOK
  <2>1. group \in Seq(InstructionRow) /\ Len(group) \in Nat
    BY GroupsAssumption, LenProperties
  <2>2. counter \in [Modules -> Nat] /\ queue \in [Queues -> Seq(Nat)]
    BY EmptySeq
  <2>3. set \in Seq(SettingType) /\ Len(set) = 0
    BY EmptySeq
  <2>4. /\ list = [m \in Modules |-> list[m]]
        /\ \A m \in Modules : list[m] \in [1 .. Nr[m] -> Seq(1 .. done)]
    <3>1. \A m \in Modules : list[m] = [p \in 1 .. Nr[m] |-> << >>]
      OBVIOUS
    <3>2. << >> \in Seq(1 .. done)
      BY EmptySeq
    <3>3. QED
      BY <3>1, <3>2
  <2>5. QED
    BY <2>1, <2>2, <2>3, <2>4 DEF SortTypeOK
<1>2. Listed /\ InTurn /\ PopsMeetPushes
  <2>1. 1 .. done = {}
    OBVIOUS
  <2>2. \A m \in Modules : \A p \in 1 .. Nr[m] : list[m][p] = << >>
    OBVIOUS
  <2>3. \A q \in Queues : Popping(q) = {}
    BY <2>1 DEF Popping
  <2>4. QED
    BY <2>1, <2>2, <2>3 DEF Listed, InTurn, PopsMeetPushes
<1>3. CountersTurn
  <2>1. ASSUME NEW m \in Modules
        PROVE  Turn(m, 1) = 1
    <3>1. DealtBefore(m, 1) = {}
      BY DEF DealtBefore
    <3>2. Nr[m] \in Nat \ {0}
      BY NrAssumption
    <3>3. Turn(m, 1) = (0 % Nr[m]) + 1
      BY <3>1, FS_EmptySet DEF Turn
    <3>4. 0 % Nr[m] = 0
      BY <3>2
    <3>5. QED
      BY <3>3, <3>4
  <2>2. QED
    BY <2>1 DEF CountersTurn
<1>4. QueuesWait
  <2>1. ASSUME NEW q \in Queues
        PROVE  Popping(q) = {} /\ Pushing(q) = {} /\ Len(queue[q]) = 0
    BY EmptySeq DEF Popping, Pushing
  <2>2. Cardinality({}) = Cardinality({}) + 0 /\ 1 .. 0 = {}
    BY FS_EmptySet
  <2>3. QED
    BY <2>1, <2>2 DEF QueuesWait
<1>5. FaultsEarned
  BY DEF FaultsEarned, Balanced
<1>6. QED
  BY <1>1, <1>2, <1>3, <1>4, <1>5 DEF SortInv

\* Nothing but undefined has changed.
LEMMA SameTypes ==
    ASSUME SortTypeOK, UNCHANGED <<group, done, counter, queue, set, list>>,
           undefined' \in {"none", "empty", "index"}
    PROVE  SortTypeOK'
<1>1. group' \in Seq(InstructionRow) /\ done' \in 0 .. Len(group')
  BY DEF SortTypeOK
<1>2. counter' \in [Modules -> Nat] /\ queue' \in [Queues -> Seq(Nat)]
  BY DEF SortTypeOK
<1>3. set' \in Seq(SettingType) /\ Len(set') = done'
  BY DEF SortTypeOK
<1>4. list' = [m \in Modules |-> list'[m]]
  BY DEF SortTypeOK
<1>5. \A m \in Modules : list'[m] \in [1 .. Nr[m] -> Seq(1 .. done')]
  BY DEF SortTypeOK
<1>6. QED
  BY <1>1, <1>2, <1>3, <1>4, <1>5 DEF SortTypeOK

LEMMA NextInv == SortInv /\ [SortNext]_sort_vars => SortInv'
<1> SUFFICES ASSUME SortInv, [SortNext]_sort_vars
             PROVE  SortInv'
  OBVIOUS
<1> USE DEF SortInv
<1>1. CASE sort_instruction
  <2>1. /\ Sorting /\ group' = group /\ done' = done + 1 /\ undefined' = undefined
        /\ undefined = "none" /\ done + 1 \in 1 .. Len(group) /\ Len(group) \in Nat /\ done \in Nat
    BY <1>1, Facts DEF sort_instruction, Sorting
  <2>2. Listed' /\ InTurn' /\ CountersTurn' /\ PopsMeetPushes' /\ QueuesWait'
    BY <1>1, ListStep, TurnStep, QueueStep
  <2>3. SortTypeOK'
    <3>1. counter' \in [Modules -> Nat] /\ queue' \in [Queues -> Seq(Nat)]
      BY <1>1, TurnStep, QueueStep
    <3>2. set' \in Seq(SettingType) /\ Len(set') = done'
      BY <1>1, SettingStep
    <3>3. /\ list' = [m \in Modules |-> list'[m]]
          /\ \A m \in Modules : list'[m] \in [1 .. Nr[m] -> Seq(1 .. done')]
      BY <1>1, ListStep
    <3>4. group' \in Seq(InstructionRow) /\ done' \in 0 .. Len(group')
      BY <2>1 DEF SortTypeOK
    <3>5. QED
      BY <2>1, <3>1, <3>2, <3>3, <3>4 DEF SortTypeOK
  <2>4. FaultsEarned'
    <3>1. Balanced(done + 1)
      BY <1>1, <2>1, FaultStep DEF sort_instruction
    <3>2. QED
      BY <2>1, <3>1 DEF FaultsEarned, Balanced
  <2>5. QED
    BY <2>2, <2>3, <2>4
<1>2. CASE sort_fault
  <2>1. /\ Sorting /\ UNCHANGED <<group, done, counter, queue, set, list>>
        /\ undefined' \in {"empty", "index"} /\ (undefined' = "empty" => NothingToPop(I))
        /\ undefined' = "index" => NoIndex(I)
    BY <1>2 DEF sort_fault, Sorting
  <2>2. SortTypeOK' /\ Listed' /\ InTurn' /\ CountersTurn' /\ PopsMeetPushes' /\ QueuesWait'
    <3>1. SortTypeOK'
      BY <2>1, SameTypes
    <3>2. Listed'
      BY <2>1 DEF Listed
    <3>3. InTurn' /\ CountersTurn'
      BY <2>1 DEF InTurn, CountersTurn, Turn, DealtBefore
    <3>4. /\ \A q : Popping(q)' = Popping(q) /\ Pushing(q)' = Pushing(q)
          /\ \A n, q : Taken(n, q)' = Taken(n, q) /\ Sent(n, q)' = Sent(n, q)
      BY <2>1 DEF Popping, Pushing, Taken, Sent
    <3>5. PopsMeetPushes' /\ QueuesWait'
      BY <2>1, <3>4 DEF PopsMeetPushes, QueuesWait
    <3>6. QED
      BY <3>1, <3>2, <3>3, <3>5
  <2>3. FaultsEarned'
    <3>1. NothingToPop(I) => ~ Balanced(done + 1)
      BY <2>1, FaultStep
    <3>2. NoIndex(I) => /\ module_type(I.name) \in Modules
                        /\ I.module # module_type(I.name) \/ (Stores(I) /\ ~ Deals(I))
      BY IndexFault
    <3>3. Balanced(done)' /\ (Balanced(done + 1) <=> Balanced(done + 1)')
      BY <2>1 DEF FaultsEarned, Balanced
    <3>4. group' = group /\ done' = done /\ I = group[done + 1]
      BY <2>1 DEF I
    <3>5. undefined' = "empty" => ~ Balanced(done + 1)'
      BY <2>1, <3>1, <3>3
    <3>6. undefined' = "index" =>
             /\ module_type(group[done + 1].name) \in Modules
             /\ \/ group[done + 1].module # module_type(group[done + 1].name)
                \/ Stores(group[done + 1]) /\ ~ Deals(group[done + 1])
      BY <2>1, <3>2, <3>4
    <3>7. QED
      BY <3>3, <3>4, <3>5, <3>6 DEF FaultsEarned
  <2>4. QED
    BY <2>2, <2>3
<1>3. CASE UNCHANGED sort_vars
  <2>1. UNCHANGED <<group, done, counter, queue, set, list, undefined>>
    BY <1>3 DEF sort_vars
  <2>2. SortTypeOK'
    BY <2>1, SameTypes DEF SortTypeOK
  <2>3. Listed' /\ FaultsEarned'
    BY <2>1 DEF Listed, FaultsEarned, Balanced
  <2>4. InTurn' /\ CountersTurn'
    BY <2>1 DEF InTurn, CountersTurn, Turn, DealtBefore
  <2>5. /\ \A q : Popping(q)' = Popping(q) /\ Pushing(q)' = Pushing(q)
        /\ \A n, q : Taken(n, q)' = Taken(n, q) /\ Sent(n, q)' = Sent(n, q)
    BY <2>1 DEF Popping, Pushing, Taken, Sent
  <2>6. PopsMeetPushes' /\ QueuesWait'
    BY <2>1, <2>5 DEF PopsMeetPushes, QueuesWait
  <2>7. QED
    BY <2>2, <2>3, <2>4, <2>6
<1>4. QED
  BY <1>1, <1>2, <1>3 DEF SortNext

\* The invariant holds of sort_instructions_to_pipelines at every instruction.
THEOREM Invariance == SortSpec => []SortInv
BY InitInv, NextInv, PTL DEF SortSpec

\* Every instruction sorted so far stands in the list of the pipeline it was
\* given and in no other, once, and every list is in program order.
THEOREM SortedOnce == SortSpec => []EachOnce
<1>1. SortInv => EachOnce
  BY ListedOnce DEF SortInv
<1>2. QED
  BY <1>1, Invariance, PTL

\* The pipelines of a module take turns from one FINISH to the next.
THEOREM PipelinesTakeTurns == SortSpec => []InTurn
<1>1. SortInv => InTurn
  BY DEF SortInv
<1>2. QED
  BY <1>1, Invariance, PTL

\* The k-th pop of a queue gets the number of its k-th push.
THEOREM PairedInOrder == SortSpec => []PopsMeetPushes
<1>1. SortInv => PopsMeetPushes
  BY DEF SortInv
<1>2. QED
  BY <1>1, Invariance, PTL

\* front() of an empty queue is reached exactly when the group pops a token
\* that no instruction before has pushed, and a list is indexed out of range only
\* by a row that is given no pipeline, or whose name and module disagree.
THEOREM FaultsAreEarned == SortSpec => []FaultsEarned
<1>1. SortInv => FaultsEarned
  BY DEF SortInv
<1>2. QED
  BY <1>1, Invariance, PTL
=============================================================================
