--------------------------- MODULE MCParserPasses ---------------------------
(***************************************************************************)
(* The passes of the Parser beside the grouping, each over inputs of its    *)
(* own: reading the file, listing the cache candidates, subtracting one     *)
(* access from another and sorting into pipelines.  They share nothing but  *)
(* the Parser object, and each is a sequential call: a behaviour is one of  *)
(* them, and the others stay as they are before their call.                 *)
(***************************************************************************)
EXTENDS MCMemoryCache, ParserInputs, Intervals, PipelineSort

VARIABLE pass   \* which pass is called

ASSUME FilesAssumption == FilesOK
ASSUME AddressesAssumption == AddressesOK

NoAccess == [start |-> 0, x |-> 1, y |-> 0, stride |-> 1, word_size |-> 1]

NoFile ==
    /\ file = << >> /\ open = FALSE /\ lines = 0 /\ content = << >>
    /\ all_instructions = << >> /\ fault = "none"
NoCut ==
    /\ this = NoAccess /\ other = NoAccess /\ batches = << >> /\ found = << >>
    /\ i = 0 /\ j = 0 /\ stage = "compare"
NoRows ==
    /\ input = << >> /\ rows = 0 /\ unique = << >> /\ index = << >>
    /\ offered = 0 /\ cached = {} /\ used = 0 /\ phase = "done"
NoGroup == group = << >> /\ StartSort

PassesInit ==
    \/ pass = "load_instructions_from_csv" /\ ReadInit /\ NoCut /\ NoGroup /\ NoRows
    \/ pass = "execlude_intersection_intervals" /\ CutInit /\ NoFile /\ NoGroup /\ NoRows
    \/ pass = "sort_instructions_to_pipelines" /\ SortInit /\ NoFile /\ NoCut /\ NoRows
    \/ pass = "check_memory_cache" /\ Init /\ NoFile /\ NoCut /\ NoGroup

Load_instructions == pass = "load_instructions_from_csv" /\ ReadNext
                       /\ UNCHANGED <<pass, cut_vars, sort_vars, vars>>
Execlude_intersection == pass = "execlude_intersection_intervals" /\ CutNext
                       /\ UNCHANGED <<pass, read_vars, sort_vars, vars>>
Sort_instructions == pass = "sort_instructions_to_pipelines" /\ SortNext
                       /\ UNCHANGED <<pass, read_vars, cut_vars, vars>>
Check_memory_cache == pass = "check_memory_cache" /\ Next
                       /\ UNCHANGED <<pass, read_vars, cut_vars, sort_vars>>

PassesNext == Load_instructions \/ Execlude_intersection \/ Sort_instructions \/ Check_memory_cache

all == <<pass, read_vars, cut_vars, sort_vars, vars>>

PassesSpec == PassesInit /\ [][PassesNext]_all

=============================================================================
