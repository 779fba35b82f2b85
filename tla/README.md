# A TLA+ model of the VTA simulator

The repository simulates a VTA accelerator in SystemC: a host (`ARM`), a
`Fetcher`, the three execution modules `LoadModule`, `ComputeModule` and
`StoreModule`, and seven instances of one `Queue` class between them. This
directory holds a TLA+ model of that simulator down to its `SC_METHOD`s, signals
and event notifications; an abstract specification, `Pipeline`, of what the
assembled simulator promises; TLC runs that show the first implements the second
on small programs; a run of two kernels side by side, which shows that times do
not depend on the order the kernel chooses; and proofs, checked by TLAPS, of the
invariants of `Pipeline` for every queue capacity and every program, among them
that tokens meet the instructions they are meant for and that a balanced program
never comes to a standstill. Around the simulator, further modules model how the
model file becomes instructions and how these are grouped, listed and dealt out
(the passes of `Parser`), how an instruction is packed into words and timed, and
the client of the message queue server. All of these are proved about too: the
reader of the file, the grouping, the choice of cache candidates, the subtraction
of one access from another, the dealing out to pipelines, the words and latencies
of an instruction and the client.

Paths below are relative to the root of the repository.

## 1. The system

### Components

| component | state | operations | modelled in |
|---|---|---|---|
| SystemC kernel (library) | signals, pending event notifications, runnable methods, time | evaluate, update, delta and timed notification | `SystemC` |
| `Queue` (`src/simulation/queue.cpp`) ×7 | `data`, half a received instruction, `out_parts`, three output levels | 8 `SC_METHOD`s: a vld/rdy/data/end handshake on each side | `Queue` |
| `Fetcher` (`fetcher.cpp`) | current layer, instructions left in it, words of the instruction under way, output levels | load a layer, load and route an instruction, send its two words | `Fetcher` |
| `ARM` (`arm.cpp`) | output level | one trigger at start, one for every FINISH | `Fetcher` |
| `Module` base class (`module.cpp`) | current instruction, words read, `i_queue_rdy` level | fetch an instruction, by polling or on the edge of `vld` | `Module` |
| `LoadModule`, `ComputeModule`, `StoreModule` | result, port levels, received tokens, `is_waiting`, `did_push` | pull tokens, execute, push tokens, leave | `Stages` |
| `VTA` and `sc_main` (`vta.cpp`, `main.cpp`) | wiring | start, run until no event is left | `Topology`, `VTA` |
| instruction codec, latencies (`instruction.cpp`, `latency()` of the modules) | the words and the decoded fields | `encode`, decode, `latency()` | `Codec` |
| parser, reading (`parser.cpp`) | the file, the vector of cells, the instructions read | split a line, convert its cells | `CsvReader`, `VtaConfig` |
| parser, grouping (`parser.cpp`) | rows, groups, and what a scan of a layer collects | group by layer or by block, hand over to the Fetcher | `Parser` |
| parser, cache candidates (`parser.cpp`, `type.h`) | addresses with hits and an index of them; intervals of two accesses | list, sort, choose; cut one access out of another | `MemoryCache`, `Intervals` |
| parser, pipelines (`parser.cpp`) | turn counters, token queues, one list per pipeline | deal out an instruction, pair a pop with its push | `PipelineSort` |
| ZMQ client (`communication.cpp`, `message.h`) | the call it is in | `send_data`, `send_schedule`, `recv_data`, `read_schedule` | `Communication` |
| configuration, utilities, `archive/`, bundled headers | | | not modelled |

### How they interact

All components run as `SC_METHOD`s of one kernel and share nothing but signals;
a producer and a consumer meet at a queue through four wires on each side.

    ARM --trigger--> Fetcher --instructions--> li, ci, si --> Load, Compute, Store
     ^                                                              |
     +---------------------- trigger on FINISH ---------------------+ (Compute)

    Load --l2c--> Compute --c2s--> Store        forward tokens
    Load <--c2l-- Compute <--s2c-- Store        backward tokens

An instruction is two 64-bit words in an instruction queue, a dependency token
is one word in a token queue. An instruction waits for a token from each queue
its `pop_prev`/`pop_next` flags name, runs for its latency, puts a token in each
queue its `push_prev`/`push_next` flags name, and leaves. FINISH leaves
without pushing and makes the host trigger the next layer.

Before the simulation, the parser turns the CSV file into instructions, groups
them and encodes each into two words; the words are what travels through the
queues, and the module that receives them decodes them and asks the decoded
instruction for its latency. `check_memory_cache`, `sort_instructions_to_pipelines`
and the ZMQ client are complete but nothing in `main.cpp` calls them; they
interact with the rest only through the parser's list of instructions, or not
at all. The client talks to a message queue server, and through it to other
clients and a scheduler, which are outside the repository.

### What is hard

* **Interleaving.** Methods runnable in one delta cycle run in an order the
  SystemC standard leaves open. Two tokens, or two end pulses, may reach the
  compute module in the same delta cycle.
* **Time.** Handshakes are built from 1 ns delays; a decision taken on a level
  (is the producer blocked? does the queue show an instruction?) is used a
  nanosecond later, when the level may have gone.
* **Notification semantics.** An `sc_event` keeps only its earliest pending
  notification. `Queue::activate_out_end_handler` notifies `activate_out_vld`
  twice and lives off which of the two survives.
* **Limits.** A full queue answers nothing; the pop that makes room restarts the
  producer. Nothing else would ever wake it.
* **Termination.** The simulation ends when no event is left. A lost wake-up
  ends it as silently as success does.
* **Unreliable partners.** The client's request may be refused, answered by
  something that is no message, or lost before or after the server acted on it.
  It never retries a write and never learns which of these happened.
* **Passes that edit what they scan.** The interval subtraction inserts into and
  erases from the vector its index runs over; the cache index is used while the
  vector it points into grows; pops and pushes are paired by distances to the
  front of a queue that moves.
* **Conversions.** Fields are cut to widths, two opcodes coincide, products of
  ints overflow, `std::stoi` throws or reads half a number.

`PROJECT.json` lists each hazard at its line with the properties that guard it.

### What makes each component correct

| component | property | where |
|---|---|---|
| Queue | in_rdy is raised only to a producer that asks, and only with room for its whole transfer | `VTA!RdyMeansRoom` |
| Queue | never the front of an empty queue; never half an instruction | `VTA!NoFault` |
| Queue, ports | no handshake is left standing at the end | `VTA!HandshakesEnd` |
| Queue, ports | no instruction has two tokens in a queue | `VTA!OneTokenPerInstruction` (**violated**, section 6) |
| Fetcher, ARM | a layer starts after the FINISH of the ones before | `Pipeline!LayerBarrier` |
| Fetcher, Module | a module's instructions run once each, in program order | `Pipeline!InOrder` |
| stages | an instruction runs with all its tokens and none left over | `Pipeline!CurrentOK` |
| stages | a token means its instruction is over | `Pipeline!TokensEarned` |
| stages | the k-th pop of a queue takes the token of its k-th push | `Pipeline!TokensMatched` |
| the whole | a balanced program always has a next step until all is executed | `Pipeline!NeverStuck` |
| parser | exactly these rows reach the Fetcher, in these groups and in this order | `Parser!LostRows`, `EachTileOnce`, `InProgramOrder` |
| parser, Fetcher | each group ends with the FINISH that triggers the next | `Parser!GroupsEndWithFinish` |
| parser, reading | cells stay in their rows and columns; the reader stops at the first line that is no row, and at no other | `CsvReader!Aligned`, `MisreadsEarned` |
| parser, intervals | no byte is lost or in two places; the intersection is cut out unless the cursor wraps | `Intervals!Partition`, `ExcludedUnlessWrapped` (`AllExcluded` is **violated**, section 6) |
| parser, cache candidates | hits are uses; nothing that fits is left out; only a smaller address passes one with more hits | `MemoryCache!HitsCounted`, `NothingMoreFits`, `PassedOverForSmaller` |
| parser, pipelines | each instruction once, in turn; the k-th pop gets the k-th push; a name nobody knows is listed nowhere; faults only for unbalanced groups and misplaced rows | `PipelineSort!EachOnce`, `InTurn`, `PopsMeetPushes`, `FaultsEarned` |
| codec | flags and FINISH survive; fields stay apart; latency is the row's, and positive | `Codec!ControlKept`, `FieldsKept`, `LatencyKept`, `TimeAdvances` |
| client | nothing handed out is dropped, goes elsewhere, or comes twice; polling ends | `Communication!NothingDropped`, `OwnMail`, `NoDuplicates`, `ReadsReturn` |
| kernel and all processes | times and state do not depend on the order of methods in a delta cycle | `Twins!OrderIrrelevant` (but for one program, section 6) |
| the whole | every instruction of every layer is executed | `Completes`, in both |
| the whole | the simulator does only what `Pipeline` allows | `VTA!ImplementsPipeline` |

## 2. The modules

    Topology <- SystemC <- Queue -----------------+
                   ^                              v
                   +---- Fetcher <- Module <- Stages <- VTA <- MCVTA
                                                         ^---- Twins <- MCTwins
    Topology <- Pipeline  <-- (refinement mapping Pipe) -- VTA
                   ^--- PipelineProofs
                   ^--- MCPipeline       ProgramSets -> MCVTA, MCTwins, MCPipeline

    Parser <- MCParser
       ^--- ParserProofs
    VtaConfig <- CsvReader <- ParserInputs -------+
                 ^--- CsvReaderProofs             v
    MemoryCache <- MCMemoryCache -------> MCParserPasses
        ^--- MemoryCacheProofs               ^      ^
    Intervals -------------------------------+      |
        ^--- IntervalsProofs     PipelineSort ------+
                                    ^--- PipelineSortProofs
    Codec <- MCCodec
      ^--- CodecProofs
    Communication <- CommunicationProofs

* **Topology**: the queues, who is at each end and which flag governs which
  queue, what a program is and which are balanced. A program is what the parser hands the Fetcher;
  an instruction is reduced to the module it is routed to, its four flags,
  whether it is FINISH and its latency, and is named by its position.
* **SystemC**: signals (`sig`, written values in `nxt`), the pending
  notification of each event as the delay that remains, and the methods still to
  run. Each of the simulator's methods is statically sensitive to one event or
  one positive edge, so a method is named by it. `Execute(e, writes, notes)` is
  one method run to its end; `Delta` and `Advance` are the kernel's phases. The
  absolute time is not kept: nothing reads it but the log. `Abort` records
  undefined behaviour of C++ (`front()` of an empty container, a null `current`)
  and ends the behaviour there: what the build does next is anyone's guess, and
  `NoFault` says it does not come to that.
* **Queue**: the eight methods of `queue.cpp`, under their names. `type`
  becomes membership of `InstrQueues` or `TokenQueues`. The code writes
  `get_pc()` as a token's value, which the decoding constructor sets to 0
  (`instruction.cpp:102`), and reads it nowhere; the model writes the
  instruction's position, so that properties can tell tokens apart.
* **Fetcher**: `fetcher.cpp`, where the handlers the code writes out three times
  take the queue as a parameter, and `arm.cpp`.
* **Module**: the base class's fetch protocol.
* **Stages**: what the three classes add. They are the same code with different
  neighbours, so one definition serves all, over the token queues at the
  module's ports. The differences are parameters: FINISH exists on Compute only,
  and `l2c`'s pull side drops its rdy in zero time where the others take 1 ns.
* **VTA**: the processes together, the start, and the end of the simulation
  (`Returned`). `Observe` keeps history variables: what has been fetched,
  which instruction has left its queue, which tokens it took and gave. No action
  reads them.
* **Pipeline**: the abstract specification: bounded FIFOs of instructions and
  tokens, and per module `Issue`, `Pull`, `Start`, `Finalize`, `Push`, `Retire`.
  The guard of each action has a name of its own (`MayIssue`, ...), so that
  `NeverStuck` can say without ENABLED that one of them is met.
  One step here is one method of the simulator; every other method is a stutter.

* **Parser**: the grouping of `parser.cpp`, one action per row sorted by its layer
  (`split_row`, the first loop of both functions) and one per branch of the scan
  of a layer in `laod_blocks_instructions`, whose locals are variables; a row is
  its layer and the kind the branches look at. `layers` is what the Fetcher
  gets. It meets the rest at one point: `Topology!WellFormed` assumes of a
  program what `GroupsEndWithFinish` says of the groups.

* **Twins**: VTA beside a second VTA (`INSTANCE VTA WITH sig <- sig2, ...`) on
  the same program. Each twin's kernel chooses freely among its runnable
  methods; the two meet when an instant of simulated time is over and move on
  together. `OrderIrrelevant` compares every queue, module and signal there. The
  second twin is run whole instants at a time, so only its choices, not the
  interleaving of the two, are explored.
* **CsvReader**: `load_instructions_from_csv`, one action per line. A cell is an
  int, an empty cell, a space, text, or one of the two module names; what the
  code does with each (`stoi` throws, `to_int` gives 0, the appended space saves
  an empty last cell) is modelled, and so is reading past the end of the vector
  of cells (`"range"`). Column numbers are those of `vta_config.h` (`VtaConfig`).
* **Codec**: `encode()`, the decoding constructor and `latency()`. A layout is a
  structure that places each field in bits of one of the two words; a word is the
  set of its bits that are 1. No field an int is put together from is wider than
  16 bits, so `Read` is a sum of sixteen terms and needs no recursion. TLC's
  integers are ints, so a DRAM address is two halves of 16 bits, and a
  computation that leaves `int` has the empty set of values: C++ gives it none.
  A row is any name, known or not, with any integers (`RowsAssumption`); the
  platform's cycle counts are any integers too (`PlatformsAssumption`), because
  `config.h:97-99` checks no range. Names join their parts by underscores.
* **MemoryCache**: `check_memory_cache`: one action for each case of a row, the
  `stable_sort`, and the two cases of the choice. **Intervals**: the intervals of
  a `MemoryAddress` and `execlude_intersection_intervals` with its two cursors,
  one action per branch of the loop, the `i--` and the skipped `i++` included.
  `MemoryCache` does not use `Intervals`, because `check_memory_cache` does not
  call it.
* **PipelineSort**: `sort_instructions_to_pipelines` for one group (each group
  starts afresh). The branches of the code for each name and module are
  functions of the instruction: which queues it pops and pushes, whether it is
  dealt out, which counters it advances.
* **Communication**: a client is one thread that blocks in `recv()`, so its state
  is the call it is in, what is on the wire and what the last call returned. The
  server and the scheduler are external: they may enqueue or dequeue, answer
  Error or something that is no JSON, or go down with whatever is under way.
* **MCParserPasses** runs the four passes: a behaviour is one pass, on inputs of
  its own (`ParserInputs`, `MCMemoryCache`); the rest of the state is as before its
  pass is called. They share nothing but the Parser object and the sequential call.

The refinement mapping is `Pipe` in `VTA.tla`. An instruction is in its queue as
long as its second word is; it is `pull`ing from then until its `finish` event
is pending, `run`ning until `result` is set, then `push`ing.

## 3. Assumptions

* **Well-formed programs** (`Topology!WellFormed`): a FINISH for Compute ends
  each layer and occurs nowhere else. With FINISH inside a layer the Fetcher
  would load the next layer over the instruction it is sending. `Parser` shows
  which model files give such programs.
* **Balanced programs** (`Topology!Balanced`), for completion and for the
  instances TLC checks: run one at a time, in order, no instruction lacks a
  token or room for one. That is what a compiler's schedule gives; a program
  that pops what nobody pushes hangs, as it should. Of the theorems only
  `NoStandstill` speaks of them, as the premise of `NeverStuck`.
* **Capacity**: at least 2 words, one instruction; the code has 128.
* **Groups have at least one pipeline of each kind** (`NrAssumption`), lines have
  at least one cell (`CsvReader!FilesOK`), the rows of an access hold something
  and do not overlap (`Intervals!AddressesOK`: `x` and `word_size` are positive
  and `x <= stride`, with which the code's sweep finds nothing to remove), and the scheduler is not one of the
  clients (`NamesAssumption`). The rows of `check_memory_cache` come in the order
  of the loops, so the numbers of their groups do not fall, and its inputs are
  finite sequences (`InputsAssumption`); the cache size is a natural number
  (`SizeAssumption`).
* **One call of `check_memory_cache`** per Parser. A second would use an index
  that the sort has made stale (`parser.cpp:303`); nothing makes one.
* **The server** keeps each queue in order and hands a message out once, and
  answers a client before that client's next request: ZeroMQ REQ sockets allow no
  other order.
* **Latencies** in the programs of `VTA` are those `latency()` gives: 15 for a NOP of Load and Store, 180
  for one row, n + 100 for a GEMM of n iterations, 10 for FINISH.

## 4. Runs

| run | module | programs, bounds | distinct states | what it shows |
|---|---|---|---|---|
| `pipeline_programs` | MCPipeline | capacity 2; every balanced program of 3 instructions and a FINISH, a two-layer one, one that overruns a queue | 193,407 | the parts of the inductive invariant; tokens meet their instructions; no standstill; completion |
| `vta_programs` | MCVTA | capacity 4; every balanced program of 2 instructions and a FINISH with short and long loads and stores; two tiles and a second layer; a queue filled as it is drained, before and after | 67,597 | the simulator implements `Pipeline`, meets no undefined behaviour, ends with every handshake over and everything executed |
| `vta_backpressure` | MCVTA | capacity 2; in each program one token queue and an instruction queue are overrun | 5,102 | a blocked producer is restarted, exactly when there is room, and nothing is lost or repeated |
| `parser_groups` | MCParser | every CSV of 6 rows in one layer, of 4 in two interleaved, of 3 with gaps in the layer numbers; one of 13 rows | 233,391 | which rows reach the Fetcher, in which groups and order |
| `twins` | MCTwins | capacity 4; every balanced program of 2 instructions and a FINISH with latencies 15 and 180, `Tiles`, `DoublePush`, `Race(80)` to `Race(130)` but 118 | 249,550 | two kernels that order methods differently agree after every nanosecond |
| `parser_passes` | MCParserPasses | files of two lines with one odd cell each, with and without a header; pairs of accesses of three rows; groups of 3 and 5 instructions; files of 4 cacheable rows and 3 addresses | 296,515 | the four other passes of the parser |
| `codec_rows` | MCCodec | rows of every name: all flags, each field at and beyond its limits, values in fields the name does not have, sizes and loops that overflow; every name in every module | 9,280 | what survives encoding, and when the latency is the row's |
| `communication_calls` | Communication | 2 clients, 1 peer, 2 calls each, 4 schedules | 362,860 | what the client promises whatever the server does |
| `codec_alu_latency` | MCCodec | as `codec_rows` | violation | section 6 |
| `intervals_wrap` | MCParserPasses | as `parser_passes` | violation | section 6 |
| `vta_full_token_queue` | MCVTA | capacity 4, `Race(118)` | violation | section 6 |
| `vta_double_push` | MCVTA | capacity 2, `DoublePush` | violation | section 6 |

**Why these bounds are enough.** Capacity enters the code in two comparisons, "is
there room" and "was it full"; capacities 2 and 4 reach both, and with 2 an
instruction queue is full with one instruction. The interesting cases of a
handshake involve at most two modules and the queues between; the programs of
two and three instructions contain every pair of them with every combination of
flags, and `Tiles` uses all flags in one run. What longer programs add is
timing: which of two events comes first. The programs with several latencies
vary that, and the order within a delta cycle is always explored in full. They
do not cover all timings, which is how section 6's first race hides: of the
latencies 100 to 130 of its first instruction only 118 shows it.

For `Parser`, the flags of the scan depend on the last STORE and LOAD INP only;
six rows hold two blocks and any two rows before, between, in or behind them.

For the passes: two lines show what one leaves in the vector of cells for the
next, and one odd cell per line at each position the code treats differently,
with every length around the ones it needs, gives each fault. Three rows against
three, with touching, nested and equal ends, reach every branch of the
subtraction and two successive ones on one interval. Five instructions fill a
token queue, drain it and wrap the counters (two and three pipelines); four rows
give three addresses, hits up to four, and a large address before small ones
that still fit. A word has no state, so `codec_rows` varies one field at a time,
which is enough to see one run into another; the proofs hold for all values together. For `Communication`, two clients
with two calls each let one write while the other reads the same queue, fail and
call again; a third call would add no new pair. The bounds `MaxCalls` and
`MaxSchedules` only end the model; the proofs hold for all values.

**Deadlock.** The runs of `VTA` and `Parser` check for deadlock. The simulation
may stop only at `Returned`, where no method, update or notification is left; a
state after undefined behaviour looks the same and is excluded by `NoFault`.
`pipeline_programs` turns the check off: `Pipeline` stops after its last layer,
and `NeverStuck` and `Completes` say it stops nowhere else. So do `codec_rows`
and `parser_passes`, whose behaviours end when the function returns or throws,
and `communication_calls`: a client may stop calling, or wait for ever for a
lost reply, which is what the code does.

**Fairness.** `WF_vars(Next)` in both. `sc_start()` is a loop that runs methods
until none is left; it never idles with something due. No fairness is assumed
between methods: each evaluation phase runs every runnable method before time
moves, which the model enforces by guards. For `Pipeline`, weak fairness of
`Next` as a whole is likewise all that is assumed; it suffices because every
step makes progress, and no step can be repeated for ever. `Communication`
assumes weak fairness of each client's own steps (a thread whose `recv()` has
returned runs on), of the server's answer to each client, and of publishing for
each peer; nothing obliges a client to call or the server to accept. `ReadsReturn`
therefore excepts a lost message, since no `recv()` has a timeout. The
sequential passes and the codec have no liveness properties and need none.

## 5. Proofs

`PipelineProofs` proves, for every `capacity` and every set `Programs` that meet
`CapacityAssumption` and `ProgramsAssumption`:

| theorem | statement |
|---|---|
| `Invariance` | `Spec => []IInv` |
| `TypeCorrect` | `Spec => []TypeOK` |
| `DependenciesHonoured` | `Spec => []CurrentOK` |
| `ProgramOrder` | `Spec => []InOrder` |
| `TokensAreEarned` | `Spec => []TokensEarned` |
| `TokensAreOrdered` | `Spec => []TokensInOrder` |
| `LayersAreSequential` | `Spec => []LayerBarrier` |
| `StrongInvariance` | `Spec => []JInv` |
| `MatchedInOrder` | `Spec => []TokensMatched` |
| `NoStandstill` | `Spec => []NeverStuck` |

**The argument.** `IInv` is the conjunction of the type invariant and the five
properties; none of them but `TypeOK` is inductive alone:

* `TokensEarned` says a token's instruction is executed. That it stays so when
  the producer takes its next instruction needs `CurrentOK` and `InOrder`: the
  next is another one, because queues are sorted and lie ahead of `current`.
* `TokensInOrder` needs that the instruction pushing is later than all whose
  tokens wait. It is strengthened to "every token is earlier than everything in
  the producer's instruction queue", so that it survives `Issue`.
* `InOrder` needs `fetched` to bound the queues, so that `Fetch` appends
  something greater.
* `LayerBarrier` needs that the FINISH which raises a trigger is the last
  instruction of the layer loaded last. `WellFormed` gives that FINISH ends some
  layer; that an earlier layer's FINISH is not running again comes from
  `LayerBarrier` itself (it is executed), from `CurrentOK` (it is `current`,
  and not `push`ing) and from `fetched <= Loaded`.

The proof goes action by action; lemmas state once what `Append` and `Tail` do
to a sorted sequence, and what changes of queue and stage leave `Executed`
alone. The last steps combine them by `PTL`.

**Tokens and progress.** The second half of `PipelineProofs` adds three parts to
`IInv`, and `JInv` is all of them. `TokensCounted` is the account of a queue: as many instructions
have pushed as have pulled and as tokens wait, and the k-th token waiting is
that of the (pulled + k)-th push of the program. It is kept by a push or a pull
only because instructions of one module leave their queue in program order
(`LeftInOrder`, which `InOrder` alone does not give: it says nothing of an
instruction that is over), so that the one pushing or pulling is the next in the
program to do so. `TokensMatched` is the case k = 1. `TriggerToCome` says that
while layers are left there is a trigger or a FINISH that will raise one.

`NeverStuck` says: if the program is balanced, then some guard is met, or
everything is executed and every module idle. Suppose none is met and some
module is busy. Of all busy modules take the one with the earliest instruction;
every instruction before it is over, for a module that holds back an earlier
one in its queue is busy with one still earlier. If this instruction lacked a
token, the account would count fewer pushes than `Balanced` promises from
the instructions before it; if it lacked room, it would count more tokens than
`Balanced` allows. Later instructions that have run ahead only add tokens it can
take, or take tokens and make room; that is why the premise may speak of running
one instruction at a time. With all modules idle the queues are empty, what has
been fetched is executed, and `TriggerToCome` gives the next layer or the end.
TLC checks the same with `Completes` for liveness on small programs.

`ParserProofs` proves, for every set of CSV contents of any length and in both
granularities:

| theorem | statement |
|---|---|
| `Invariance` | `Spec => []IInv` |
| `NoRowLost` | `Spec => []LostRows` |
| `GroupsInOrder` | `Spec => []InProgramOrder` |
| `FinishEndsGroups` | `Spec => []GroupsEndWithFinish` |
| `TilesDoneOnce` | `Spec => []EachTileOnce` |

What a row is for the grouping follows from the rows before and after it in its
layer, whatever the scan does: it is one every block begins with (`InPrefix`), one
of a block (`InBlock`), one every block ends with (`InPostfix`), or none of
these and lost. The properties say what becomes of each sort at the end, and are true
of any state before it; the invariant says what the scan knows of the rows it has
seen. `FlagsOK`: the three flags tell whether a LOAD INP has been seen and whether
a STORE has come since, `prefix` lists the rows that begin, and `postfix` those
that would end if no LOAD INP came any more, which is why `start_block` must clear
it. `BlocksOK`: the blocks of the layer share out the rows of blocks seen, each
row with its LOAD INP. `KeysOK`: no two blocks have one name, so that appending
to one leaves the others alone, and a STORE before the first block goes to an entry no
key names. When a layer ends, rows seen are rows of the layer and `GroupOK` holds
of each of its groups; `GroupsOK` carries that through the layers that follow. The four
theorems need only `GroupsOK` (in layers, that a group lists the rows of its
layer) and the definitions of the sorts.

`PipelineSortProofs` proves, for every group and every number of pipelines:
`Invariance`, `SortedOnce` (`EachOnce`), `PipelinesTakeTurns` (`InTurn`),
`PairedInOrder` (`PopsMeetPushes`) and `FaultsAreEarned` (`FaultsEarned`). The
invariant says of each piece of state what it stands for: a counter is the
number of turns since the last FINISH modulo the pipelines (`CountersTurn`), a
list holds the instructions given to its pipeline (`Listed`), and a queue holds
the numbers of the pushes no pop has met, in order (`QueuesWait`). `FaultsEarned`
follows from the last, which counts pushes and pops, and from `CountersTurn`, which
keeps every counter in range. Names are any text, as in the CSV: what
`module_type` calls Undefined (`config.cpp:22`) takes its tokens and its turn, is
in no list and faults at no index.

`CommunicationProofs` proves, for every set of clients and peers and all bounds:
`Invariance`, `TypeCorrect`, `RepliesKept` (`NothingDropped`), `MailIsOwn`
(`OwnMail`), `FalseIsUnsent` (`FalseMeansUnsent`) and `AtMostOnce`
(`NoDuplicates`). The properties speak of results and queues; the invariant adds
what leads there. `Phase(c)` says what can be on the wire at each point of a
call: a write carries the message of the call, not yet stored; a read asks for
the box of the call, and its answer comes from there. `Accepted`, `Stored` and
`Handed` say that messages are told apart by their numbers, so that what a client
sends now is new; that is what makes `NoDuplicates` inductive.

`MemoryCacheProofs` proves, for every file and cache size: `Invariance`,
`TypeCorrect`, `HitsAreUses` (`HitsCounted`), `WithinBudget` (`Budget`), `Maximal`
(`NothingMoreFits`) and `HitsFirst` (`PassedOverForSmaller`). The invariant has
two halves: while rows are visited, index and list are inverse to each other
(`Indexed`), so a hit is counted for its address; while entries are offered,
hits only fall (`Sorted`) and an entry left out is larger than any later one
taken (`Smaller`). The sort is a permutation, and only rearranges the first half.

`CsvReaderProofs` proves, for every set of files: `Invariance`, `CellsStay`
(`Aligned`) and `StopsForCause` (`MisreadsEarned`). What makes `Aligned`
inductive is that the vector of cells is empty whenever a line is read; a lemma
shows that the appended space saves the last cell and changes nothing else, so
that a cell's place among the words is its place in the line. `MisreadsEarned` says
which lines stop the reader and which do not; a header is one that does, which
section 6 sets against the documentation.

`IntervalsProofs` proves, for every two accesses whose rows do not overlap:
`Invariance`, `CutIsPartition` (`Partition`) and `CutIsComplete`
(`ExcludedUnlessWrapped`). The invariant says where the cursors stand.
`Frontier`: what has been found ends before the rest of one of the two
addresses, so that a cut appended to `found` keeps it in order. `Behind`: an
interval left behind by its cursor meets none of the other's any more, so that
at the end of either list nothing common is left. `CutStep` proves the four
cutting branches at once, from what they share: the pieces put in the place of
an interval lie in it, apart from the cut, and with the cut are all of it; and
the cursor that moves on passes all the pieces. `SpliceEntries` says what
erasing, replacing or inserting at the cursor does to the entries of the vector.

`CodecProofs` proves, for every set of rows and of platforms:

| theorem | statement |
|---|---|
| `Invariance` | `Spec => []Way` |
| `ControlKeptAlways` | `Spec => []ControlKept` |
| `FieldsKeptAlways` | `Spec => []FieldsKept` |
| `LatencyKeptAlways` | `Spec => []LatencyKept` |
| `TimeAdvancesAlways` | `Spec => []TimeAdvances` |

The model has three steps, so the invariant `Way` only says what each leaves: the
words are those `encode()` makes of the row, the instruction is the one the
constructor makes of these, and the latency is what `latency()` may return for
it. The work is in the operators. That sixteen bits give their number back
would be an induction over the width; widths are at most 16, so `OneBit` has a case
for each bit instead, and `ReadBits` adds them up. `HeadPlaced`, `MemoryPlaced`,
`GemmPlaced` and `AluPlaced` show that no two fields of a layout share a bit, nor
one of them with the flags before it; this is where an overlapping layout would
fail. `ReadWritten` then gives each field back modulo 2 to its width.
`DecodedFields` and `DecodedNames` follow the opcode through the branches of the
constructor, up to the one opcode two names share (GEMM and NOP-COMPUTE-STAGE).
Two of the properties have premises, which are what the code needs:

* `LatencyKept` supposes `Fits`: each value fits its field, and a size or range the
  words have no place for is 0, as a blank cell is. Otherwise `encode()` drops it
  and the latency with it.
* It leaves out the ALU instructions and NOP-COMPUTE-STAGE, for which
  it is false (section 6).
* `TimeAdvances` supposes cycle counts that are not negative and a range that is
  not reversed: otherwise a latency may be negative, and neither `config.h` nor the
  parser prevents that. The ALU's loop counts need no premise: both come back as -1.

**Only model-checked.** Liveness (`Completes`, `ReadsReturn`): the prover does
not reach fairness. `OrderIrrelevant`, for the same reason as the refinement
below. The refinement `VTA => Pipeline` and `NoFault`, `RdyMeansRoom` and `HandshakesEnd`
at signal level: these depend on the exact nanosecond at which levels change, and
they are not true of every program and every latency (section 6, 1), so that a
theorem would need a premise about times that no code checks.
The theorems hold of `Pipeline`; they carry over to the simulator where
`ImplementsPipeline` holds, which section 6 shows is not everywhere.

## 6. Where the code and its documentation differ

Four differences have a run.

`README.md:143-144` says: "An instruction's `pop_prev`/`pop_next`/`push_prev`/
`push_next` flags control whether it must wait for (pop) or send (push) a
dependency token before/after execution". One instruction, one token.
`OneTokenPerInstruction` says just that of the token queues, and fails twice.
Both times the cause is that `Queue::write_out_data_handler` takes `in_vld` for
"a producer is blocked", while a producer that has been served may still hold
it.

1. **`vta_full_token_queue`** (`queue.cpp:122`). A producer drops `in_vld` 1 ns
   after its end pulse. If its token filled the queue and the consumer takes a
   token in that nanosecond, the queue finds itself full, sees `in_vld`, raises
   `in_rdy` and reads the same token again. A later compute instruction then
   starts before its data is loaded; later still, an end pulse reaches an idle
   compute module and `receive_dependencies` follows its null `current` (`NoFault`
   fails under the same configuration). The same schedule exists at the code's
   capacity of 128, with a first GEMM of 2827 ns and 128 loads ahead of the
   consumer; its trace is too long to keep as a run.
2. **`vta_double_push`** (`compute_module.cpp:247`). A compute instruction that
   pushes to both sides drops both vlds only when both pushes are over. If one
   side blocks while the other's push has filled its queue, that queue is popped
   with the vld still up and takes the token twice. The window is as long as the
   other side blocks.

3. **`codec_alu_latency`** (`instruction.cpp:209`). README.md:119 gives an ALU
   instruction `2 x (range_1 - range_0) x outer_loop_iter x inner_loop_iter + 100`
   ns. The decoder puts the loop counts into the GEMM fields, the getters look
   into the ALU fields, which are still -1, and the product of the two is 1: the
   latency does not depend on the counts.
4. **`intervals_wrap`** (`type.h:178`). When the first interval of an address is
   covered and both intervals end at the same byte, `i--` leaves -1, which is more
   than any `size()` when compared with one, and the `i++` that would undo it is skipped; the scan ends and the rest of the intersection
   stays in, although the comment at `type.h:175` says it is excluded.

`twins` meets the first of them again: `Race(118)` is left out of its programs,
because there the order of two methods decides whether a token is stored twice,
and the twins part for good.

Further differences are stated as definitions, each of which TLC refutes when it
is given as an INVARIANT; they have no run of their own:

* `Codec!NopLatencyDocumented`: README.md:121 gives a NOP 15 ns; NOP-COMPUTE-STAGE
  shares its opcode with GEMM, comes back as a GEMM and takes 100 ns.
* `Codec!WeightCyclesCount`: README.md:108-109 names `load_weights_cycles`;
  `load_module.cpp:47` never uses it.
* `Communication!TrueMeansReceived`: a confirmation "that the message has been
  received" (`communication.cpp:136`, `179`); an Error reply is a confirmation too
  (`141`, `184`).
* `Communication!RecvBlocks`: `recv_data` is to "block until the message is
  received" (`communication.cpp:198`); it returns the Empty reply.
* `Communication!ScheduleValid`: "block until msg_queue returns a valid message"
  (`communication.cpp:255`); an Error reply is returned as a schedule.
* `CsvReader!HeaderPassedOver`: `docs/VTA-Simulator-Testing-Guide.html:157-160` cuts a
  model to be run down to "header + first ~59 instruction rows"; nothing passes over a
  header, and `stoi` of its second cell throws, uncaught (`parser.cpp:46`).
  README.md:52 has it as the code does: each row is an instruction.
* `PipelineSort!EveryPushSent`: a compute instruction with both push flags is
  given one destination only: the second test is an `else if` (`parser.cpp:456`).

The runs of `VTA` that pass therefore use programs in which no token queue is popped
within the nanosecond after it was filled, nor double pushes against a full
queue; `Race(117)` and `Race(119)` in `vta_programs` are the two sides of the
first window.

The grouping (`Parser`) found no sentence of the documentation to differ from, but its
properties carry exceptions a user of block granularity should know: rows
between a STORE and the next block's LOAD INP are in no block, a second STORE
behind a block overtakes the rows before it, a layer without LOAD INP vanishes,
and a last block without STORE leaves earlier blocks without FINISH, after
which the simulation stops early and silently.

## 7. Mutants

Each property of a passing run has a mutant: a definition beside the real one
that makes a plausible mistake (an off-by-one in the room test, a restart
forgotten, one token of two enough, ...), under which the property fails.
`PROJECT.json` pairs them. The mutants appear in no specification.

## 8. Not modelled

* Configuration (`config.cpp` but for `module_type`, `config_json.cpp`,
  `files_manager.h`) and the command line: they read JSON into records and build
  paths. What they give is a CONSTANT (`Nr`, `Platforms`, `MaxCacheMemSize`).
* Log messages and the time stamps printed on FINISH.
* The string helpers of `utilities.cpp` other than `to_int` and
  `concatStringsModern`.
* The message schema, and the move assignment of the client's sockets; message
  contents are a sender and a number.
* `archive/` (outside the build).
* The bundled third-party headers `json.hpp`, `json-schema.hpp` and
  `magic_enum.hpp`. They are 26,500 of the repository's 32,400 lines, and generic
  library code; the map covers about half of what remains, and nearly all of
  `simulation/`, `parser.cpp` and the codec.

## 9. Plan

Done, in this order: `Topology`, `SystemC`, `Queue`, `Fetcher`, `Module`,
`Stages`, `VTA`; `Pipeline` with its proofs; `Parser`; `Twins`; `Codec`;
`Communication`, `MemoryCache`, `CsvReader` and `Intervals` with their proofs;
`PipelineSort`, then its proofs; the accounts of tokens and `NeverStuck` with their
proofs; the proofs of `Parser`; the proofs of `Codec`. Left:

1. **Blocks in the pipeline**: compose `Parser` with `Pipeline`: whether the
   blocks cut from a balanced layer, with prefix and postfix repeated, are
   themselves balanced.
2. **Proofs of the queue**: bounds and word conservation of `Queue` for every
   capacity, under an environment that follows the handshake.
