-------------------------- MODULE CsvReaderProofs ---------------------------
(***************************************************************************)
(* The reader of the CSV file, for every file of lines of at least one cell. *)
(*                                                                          *)
(* What makes the properties inductive is that content is empty whenever a  *)
(* line is read (Typed), so that a cell's place in content is its place in  *)
(* the line, and that the space appended to a line saves its last cell.     *)
(***************************************************************************)
EXTENDS CsvReader, SequenceTheorems, TLAPS

Instructions == [field : [Columns -> Cells], type : {"LOAD", "COMPUTE", "STORE"}]

Typed ==
    /\ file \in Files /\ lines \in 0 .. Len(file)
    /\ all_instructions \in Seq(Instructions)
    /\ fault = "none" => content = << >>
    /\ fault # "none" => lines > 0

IInv == Typed /\ Aligned /\ MisreadsEarned

-----------------------------------------------------------------------------
(* A file is a sequence of lines, a line a sequence of cells. *)
LEMMA LinesAreLines ==
    ASSUME FilesOK, NEW f \in Files
    PROVE  /\ Len(f) \in Nat /\ DOMAIN f = 1 .. Len(f)
           /\ \A n \in 1 .. Len(f) : f[n] \in Seq(Cells) /\ f[n] # << >>
BY DEF FilesOK

\* Front takes the last entry off.
LEMMA FrontEntries ==
    ASSUME NEW T, NEW s \in Seq(T), s # << >>
    PROVE  /\ Front(s) \in Seq(T) /\ Len(Front(s)) = Len(s) - 1
           /\ \A k \in 1 .. Len(s) - 1 : Front(s)[k] = s[k]
<1>1. PICK n \in Nat : n = Len(s) - 1
  OBVIOUS
<1>2. Front(s) = SubSeq(s, 1, n)
  BY <1>1 DEF Front
<1>3. \A k \in 1 .. n : s[k] \in T
  BY <1>1
<1>4. /\ SubSeq(s, 1, n) \in Seq(T)
      /\ Len(SubSeq(s, 1, n)) = IF 1 <= n THEN n - 1 + 1 ELSE 0
      /\ \A k \in 1 .. n - 1 + 1 : SubSeq(s, 1, n)[k] = s[1 + k - 1]
  BY ONLY <1>3, SubSeqProperties, n \in Int, 1 \in Int
<1>5. Len(SubSeq(s, 1, n)) = n
  BY <1>4
<1>6. ASSUME NEW k \in 1 .. n PROVE SubSeq(s, 1, n)[k] = s[k]
  BY <1>4
<1> QED
  BY <1>1, <1>2, <1>4, <1>5, <1>6

\* Splitting a line yields its cells, each in its place: the space that is
\* appended saves an empty last cell, and changes nothing else.
LEMMA SplitKeepsCells ==
    ASSUME FilesOK, NEW l \in Seq(Cells), l # << >>
    PROVE  LET c == split(spaced(l)) IN
           /\ c \in Seq(Cells) /\ Len(c) = Len(l)
           /\ \A k \in 1 .. Len(l) : c[k] = IF k = Len(l) /\ l[k] = Blank THEN Space ELSE l[k]
<1>1. Len(l) \in Nat \ {0} /\ Blank # Space /\ Space \in Cells
  BY DEF FilesOK, Cells, Named
<1>2. CASE Last(l) = Blank
  <2> DEFINE s == Front(l) \o <<Space>>
  <2>1. /\ Front(l) \in Seq(Cells) /\ Len(Front(l)) = Len(l) - 1
        /\ \A k \in 1 .. Len(l) - 1 : Front(l)[k] = l[k]
    BY <1>1, FrontEntries
  <2>2. /\ s \in Seq(Cells) /\ Len(s) = Len(l) /\ s[Len(l)] = Space
        /\ \A k \in 1 .. Len(l) - 1 : s[k] = l[k]
    BY <1>1, <2>1
  <2>3. split(spaced(l)) = s
    BY <1>1, <1>2, <2>2 DEF split, spaced, Last
  <2>4. l[Len(l)] = Blank
    BY <1>2 DEF Last
  <2> HIDE DEF s
  <2> QED
    BY <1>1, <2>2, <2>3, <2>4
<1>3. CASE Last(l) # Blank
  BY <1>1, <1>3 DEF split, spaced, Last
<1> QED
  BY <1>2, <1>3

\* What is read of a line's cells is an instruction.
LEMMA ReadIsInstruction ==
    ASSUME FilesOK, NEW c \in Seq(Cells)
    PROVE  instruction(c) \in Instructions
<1>1. \A pos \in Columns : pos \in Nat
  BY DEF Columns
<1>2. ASSUME NEW pos \in Columns, pos < Len(c)
      PROVE  field(pos, c[pos + 1]) \in Cells
  <2>1. c[pos + 1] \in Cells
    BY <1>1, <1>2
  <2> QED
    BY <2>1 DEF field, to_int, Cells
<1>3. instr_type(c[MODULE_POS + 1]) \in {"LOAD", "COMPUTE", "STORE"}
  BY DEF instr_type
<1> QED
  BY <1>2, <1>3 DEF instruction, Instructions, Cells

-----------------------------------------------------------------------------
LEMMA InitInvariant == ASSUME FilesOK PROVE ReadInit => IInv
<1>1. SUFFICES ASSUME FilesOK, ReadInit PROVE IInv
  OBVIOUS
<1>2. Len(file) \in Nat
  BY <1>1, LinesAreLines DEF ReadInit
<1> QED
  BY <1>1, <1>2 DEF ReadInit, IInv, Typed, Aligned, MisreadsEarned

LEMMA RowInvariant == ASSUME FilesOK, IInv, load_row PROVE IInv'
<1> DEFINE l == file[lines + 1]
           c == split(spaced(l))
<1>1. /\ file' = file /\ file \in Files /\ lines \in Nat /\ lines < Len(file) /\ lines' = lines + 1
      /\ fault = "none" /\ content = << >> /\ Len(all_instructions) = lines
      /\ Len(file) \in Nat /\ all_instructions \in Seq(Instructions)
  BY LinesAreLines DEF IInv, Typed, Aligned, load_row, getline
<1>2. l \in Seq(Cells) /\ l # << >>
  BY <1>1, LinesAreLines
<1>3. /\ c \in Seq(Cells) /\ Len(c) = Len(l) /\ Len(l) \in Nat \ {0}
      /\ \A k \in 1 .. Len(l) : c[k] = IF k = Len(l) /\ l[k] = Blank THEN Space ELSE l[k]
  BY <1>2, SplitKeepsCells
<1>4. content \o c = c
  BY <1>1, <1>3
<1>5. /\ fault' = misread(c)
      /\ IF fault' = "none"
           THEN all_instructions' = Append(all_instructions, instruction(c)) /\ content' = << >>
           ELSE all_instructions' = all_instructions
  BY <1>1, <1>4 DEF load_row, cleared
<1>6. Typed'
  BY <1>1, <1>3, <1>5, ReadIsInstruction DEF Typed
<1>7. Aligned'
  <2>1. CASE fault' = "none"
    <3>1. /\ Len(all_instructions') = lines + 1
          /\ all_instructions'[lines + 1] = instruction(c)
          /\ \A n \in 1 .. lines : all_instructions'[n] = all_instructions[n]
          /\ DOMAIN all_instructions' = 1 .. lines + 1
      <4>1. instruction(c) \in Instructions
        BY <1>3, ReadIsInstruction
      <4>2. all_instructions' = Append(all_instructions, instruction(c))
        BY <1>5, <2>1
      <4> HIDE DEF c
      <4> QED
        BY <1>1, <4>1, <4>2, AppendProperties
    <3>2. ASSUME NEW pos \in Columns \ (TextColumns \cup AddressColumns)
          PROVE  instruction(c).field[pos] = LET cell == CellAt(l, pos)
                                             IN  IF cell \in Named THEN 0 ELSE cell
      <4>1. pos \in Nat
        BY DEF Columns
      <4>2. instruction(c).field[pos] = IF pos < Len(l) THEN to_int(c[pos + 1]) ELSE 0
        BY <1>3 DEF instruction, field
      <4>3. CASE pos < Len(l)
        BY <1>3, <4>1, <4>2, <4>3 DEF CellAt, to_int, Named
      <4>4. CASE ~ pos < Len(l)
        BY <4>2, <4>4 DEF CellAt, Named
      <4> QED
        BY <4>3, <4>4
    <3> QED
      BY <1>1, <2>1, <3>1, <3>2 DEF IInv, Aligned
  <2>2. CASE fault' # "none"
    BY <1>1, <1>5, <2>2 DEF IInv, Aligned
  <2> QED
    BY <2>1, <2>2
<1>8. MisreadsEarned'
  <2>1. misread(c) = "none" <=> Len(l) >= CACHE_POS /\ c[PC_POS + 1] \notin Named
    BY <1>3 DEF misread, PC_POS, CACHE_POS
  <2>2. Len(l) >= CACHE_POS => (c[PC_POS + 1] \in Named <=> l[PC_POS + 1] \in Named)
    BY <1>3 DEF PC_POS, CACHE_POS, Named
  <2>3. IsRow(l) <=> fault' = "none"
    BY <1>5, <2>1, <2>2 DEF IsRow
  <2>4. \A n \in 1 .. lines : IsRow(file[n])
    BY <1>1 DEF IInv, MisreadsEarned
  <2>5. ASSUME NEW n \in 1 .. lines + 1
        PROVE  IsRow(file[n]) <=> n < lines + 1 \/ fault' = "none"
    BY <1>1, <2>3, <2>4
  <2> QED
    BY <1>1, <2>5 DEF MisreadsEarned
<1> QED
  BY <1>6, <1>7, <1>8 DEF IInv

LEMMA IdleInvariant == ASSUME IInv, UNCHANGED read_vars PROVE IInv'
BY DEF IInv, Typed, Aligned, MisreadsEarned, read_vars

\* The reader keeps its invariant.
THEOREM Invariance == ASSUME FilesOK PROVE ReadSpec => []IInv
<1>1. ReadInit => IInv
  BY InitInvariant
<1>2. IInv /\ [ReadNext]_read_vars => IInv'
  BY RowInvariant, IdleInvariant DEF ReadNext
<1> QED
  BY <1>1, <1>2, PTL DEF ReadSpec

\* Each line becomes the instruction it spells, whatever the lines before it
\* were like (load_instructions_from_csv).
THEOREM CellsStay == ASSUME FilesOK PROVE ReadSpec => []Aligned
<1>1. IInv => Aligned
  BY DEF IInv
<1> QED
  BY <1>1, Invariance, PTL

\* The reader stops at the first line that lacks cells, or a number for its PC,
\* and at no other.
THEOREM StopsForCause == ASSUME FilesOK PROVE ReadSpec => []MisreadsEarned
<1>1. IInv => MisreadsEarned
  BY DEF IInv
<1> QED
  BY <1>1, Invariance, PTL
=============================================================================
