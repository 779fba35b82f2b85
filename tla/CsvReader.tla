----------------------------- MODULE CsvReader ------------------------------
(***************************************************************************)
(* Parser::load_instructions_from_csv: each line of the CSV file becomes an *)
(* Instruction.  A file is a sequence of lines, and a line the sequence of  *)
(* the cells its commas separate: a blank line is one empty cell.  A cell   *)
(* is the int std::stoi finds at its front, or one of the Named cells.      *)
(***************************************************************************)
EXTENDS VtaConfig, SequencesExt

CONSTANTS
    Files,          \* the files the parser may be given, of lines of at least one cell
    Blank,          \* an empty cell
    Space,          \* a cell of one space
    Word,           \* any other text, digits beyond an int included
    Load,           \* the text LOAD
    Compute         \* the text COMPUTE

Named == {Blank, Space, Word, Load, Compute}

VARIABLES
    file,           \* the lines of the file at model_path
    open,           \* file.is_open()
    lines,          \* how many lines getline has returned
    content,        \* the vector of cells
    all_instructions,
    fault           \* "none"; "range": an index past the end of content;
                    \* "threw": std::stoi, which nothing catches

read_vars == <<file, open, lines, content, all_instructions, fault>>

-----------------------------------------------------------------------------
ReadInit ==
    /\ file \in Files
    /\ open \in BOOLEAN
    /\ lines = 0
    /\ content = << >>
    /\ all_instructions = << >>
    /\ fault = "none"

\* Mutant: the line is split as it is.
spaced_forgotten(l) == l

\* concatStringsModern(line, " "): only an empty last cell is changed by it.
spaced(l) == IF Last(l) = Blank THEN Front(l) \o <<Space>> ELSE l

\* getline(str, word, ','): what follows the last comma is a word only if it
\* is not empty.
split(l) == IF Last(l) = Blank THEN Front(l) ELSE l

to_int(cell) == IF cell \in Named THEN 0 ELSE cell

\* What an instruction takes from the cell at a position.
field(pos, cell) ==
    CASE pos \in TextColumns -> cell
      [] pos \in AddressColumns -> IF cell = Blank THEN 0 ELSE cell
      [] OTHER -> to_int(cell)

instr_type(moduleName) ==
    CASE moduleName = Load -> "LOAD"
      [] moduleName = Compute -> "COMPUTE"
      [] OTHER -> "STORE"

\* The cache column may be missing.
instruction(cells) ==
    [field |-> [pos \in Columns |-> IF pos < Len(cells)
                                   THEN field(pos, cells[pos + 1])
                                   ELSE 0],
     type |-> instr_type(cells[MODULE_POS + 1])]

\* The first read of content that goes wrong, in the order the code makes them.
misread(cells) ==
    CASE Len(cells) <= PC_POS -> "range"
      [] cells[PC_POS + 1] \in Named -> "threw"
      [] Len(cells) < CACHE_POS -> "range"
      [] OTHER -> "none"

\* Mutant: content.clear() is forgotten.
cleared_never(cells) == cells

cleared(cells) == << >>

getline == lines < Len(file)

\* One turn of the while loop.
load_row ==
    /\ open /\ fault = "none" /\ getline
    /\ lines' = lines + 1
    /\ LET cells == content \o split(spaced(file[lines'])) IN
         /\ fault' = misread(cells)
         /\ IF fault' = "none"
              THEN /\ all_instructions' =
                        Append(all_instructions, instruction(cells))
                   /\ content' = cleared(cells)
              ELSE content' = cells /\ UNCHANGED all_instructions
    /\ UNCHANGED <<file, open>>

ReadNext == load_row

\* The reader runs alone, before the simulation.
ReadSpec == ReadInit /\ [][ReadNext]_read_vars

-----------------------------------------------------------------------------
Cells == Int \cup Named

\* What is assumed of the constants.
FilesOK ==
    /\ Blank # Space
    /\ Files \subseteq Seq(Seq(Cells) \ {<< >>})

CellAt(l, pos) == IF pos < Len(l) THEN l[pos + 1] ELSE Blank

\* Each line read has become one instruction, but for the one that stopped
\* the reader, and cells do not move between rows or columns: the n-th
\* instruction holds the numbers of the n-th line, each in its own field, and
\* 0 where the line has an empty cell, text, or nothing at all, whatever came
\* before that line.
Aligned ==
    /\ Len(all_instructions) = IF fault = "none" THEN lines ELSE lines - 1
    /\ \A n \in DOMAIN all_instructions : \A pos \in Columns \ (TextColumns \cup AddressColumns) :
          LET cell == CellAt(file[n], pos)
          IN  all_instructions[n].field[pos] = IF cell \in Named THEN 0 ELSE cell

\* A line that spells an instruction: it has enough commas, and a number for
\* its PC.
IsRow(l) == Len(l) >= CACHE_POS /\ l[PC_POS + 1] \notin Named

\* The reader stops at the first line that is no row, a header included, and at
\* no other: an empty cell at the end of a line is not a missing one, the cache
\* column may be missing, and what came before a line does not help it.
MisreadsEarned ==
    \A n \in 1 .. lines : IsRow(file[n]) <=> n < lines \/ fault = "none"

-----------------------------------------------------------------------------
(* What the documentation says and the code does not do (see README.md). *)

\* "header + first ~59 instruction rows" (docs/VTA-Simulator-Testing-Guide.html:159),
\* of a file that is to be run: a header, followed by rows, is passed over.
\* std::stoi of its second cell throws.
IsHeader(l) == \A k \in DOMAIN l : l[k] = Word
HeaderPassedOver ==
    file # << >> /\ IsHeader(file[1]) /\ (\A n \in 2 .. Len(file) : IsRow(file[n]))
        => fault = "none"
=============================================================================
