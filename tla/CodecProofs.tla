---------------------------- MODULE CodecProofs -----------------------------
(***************************************************************************)
(* Proofs about Codec, for every row and configuration.                     *)
(*                                                                          *)
(* The sum of the bits k < w of a number, each with its weight, is the      *)
(* number modulo 2^w (ReadBits).  The fields of a layout do not overlap, so *)
(* that the bits read for a field are those written for it (ReadWritten).   *)
(* What is decoded from a row's words is thereby known field by field       *)
(* (DecodedFields), then its name (DecodedNames), and the invariants follow *)
(* from an inductive one that says of the state which step of the row's way *)
(* it is.                                                                   *)
(***************************************************************************)
EXTENDS Codec, TLAPS

-----------------------------------------------------------------------------
(* Numbers and their bits. *)

LEMMA Powers ==
    /\ 2^0 = 1 /\ 2^1 = 2 /\ 2^2 = 4 /\ 2^3 = 8 /\ 2^4 = 16 /\ 2^5 = 32 /\ 2^6 = 64 /\ 2^7 = 128
    /\ 2^8 = 256 /\ 2^9 = 512 /\ 2^10 = 1024 /\ 2^11 = 2048 /\ 2^12 = 4096 /\ 2^13 = 8192
    /\ 2^14 = 16384 /\ 2^15 = 32768 /\ 2^16 = 65536
  OBVIOUS

LEMMA PowersPositive == \A k \in 0 .. 16 : 2^k \in Nat \ {0}
  <1> SUFFICES ASSUME NEW k \in 0 .. 16 PROVE 2^k \in Nat \ {0}
    OBVIOUS
  <1> USE Powers
  <1>0. CASE k = 0  BY <1>0
  <1>1. CASE k = 1  BY <1>1
  <1>2. CASE k = 2  BY <1>2
  <1>3. CASE k = 3  BY <1>3
  <1>4. CASE k = 4  BY <1>4
  <1>5. CASE k = 5  BY <1>5
  <1>6. CASE k = 6  BY <1>6
  <1>7. CASE k = 7  BY <1>7
  <1>8. CASE k = 8  BY <1>8
  <1>9. CASE k = 9  BY <1>9
  <1>10. CASE k = 10  BY <1>10
  <1>11. CASE k = 11  BY <1>11
  <1>12. CASE k = 12  BY <1>12
  <1>13. CASE k = 13  BY <1>13
  <1>14. CASE k = 14  BY <1>14
  <1>15. CASE k = 15  BY <1>15
  <1>16. CASE k = 16  BY <1>16
  <1> QED
    BY <1>0, <1>1, <1>2, <1>3, <1>4, <1>5, <1>6, <1>7, <1>8,
       <1>9, <1>10, <1>11, <1>12, <1>13, <1>14, <1>15, <1>16

\* One bit more of a number, in two's complement if it is negative.
LEMMA OneBit ==
    ASSUME NEW v \in Int, NEW k \in 0 .. 15
    PROVE  v % 2^(k + 1) = (v % 2^k) + (IF (v \div 2^k) % 2 = 1 THEN 2^k ELSE 0)
  <1> USE Powers
  <1>0. CASE k = 0  BY <1>0
  <1>1. CASE k = 1  BY <1>1
  <1>2. CASE k = 2  BY <1>2
  <1>3. CASE k = 3  BY <1>3
  <1>4. CASE k = 4  BY <1>4
  <1>5. CASE k = 5  BY <1>5
  <1>6. CASE k = 6  BY <1>6
  <1>7. CASE k = 7  BY <1>7
  <1>8. CASE k = 8  BY <1>8
  <1>9. CASE k = 9  BY <1>9
  <1>10. CASE k = 10  BY <1>10
  <1>11. CASE k = 11  BY <1>11
  <1>12. CASE k = 12  BY <1>12
  <1>13. CASE k = 13  BY <1>13
  <1>14. CASE k = 14  BY <1>14
  <1>15. CASE k = 15  BY <1>15
  <1> QED
    BY <1>0, <1>1, <1>2, <1>3, <1>4, <1>5, <1>6, <1>7, <1>8, <1>9, <1>10, <1>11, <1>12, <1>13, <1>14, <1>15

Place == [word : 1 .. 2, right : 0 .. 63, width : 1 .. 16]

\* Reading a place whose bits are the low bits of v.
LEMMA ReadBits ==
    ASSUME NEW ws, NEW at \in Place, NEW v \in Int,
           \A k \in 0 .. at.width - 1 :
               at.right + k \in ws[at.word] <=> (v \div 2^k) % 2 = 1
    PROVE  Read(ws, at) = v % 2^at.width
  <1> DEFINE bit(k) == IF k < at.width /\ at.right + k \in ws[at.word] THEN 2^k ELSE 0
             low(k) == v % (2^k)
             w == at.width
  <1>1. w \in 1 .. 16
    BY DEF Place
  <1>2. \A k \in 0 .. 15 : bit(k) = IF k < w THEN low(k + 1) - low(k) ELSE 0
    <2> SUFFICES ASSUME NEW k \in 0 .. 15 PROVE bit(k) = IF k < w THEN low(k + 1) - low(k) ELSE 0
      OBVIOUS
    <2>0. 2^k \in Int /\ low(k) \in Int /\ low(k + 1) \in Int
      <3>1. k \in 0 .. 16 /\ k + 1 \in 0 .. 16
        OBVIOUS
      <3>2. 2^k \in Nat \ {0} /\ 2^(k + 1) \in Nat \ {0}
        BY <3>1, PowersPositive
      <3> QED
        BY <3>2
    <2>1. low(k + 1) = low(k) + (IF (v \div 2^k) % 2 = 1 THEN 2^k ELSE 0)
      BY OneBit
    <2>2. CASE k < w
      <3>1. k \in 0 .. at.width - 1
        BY <1>1, <2>2
      <3>2. bit(k) = IF (v \div 2^k) % 2 = 1 THEN 2^k ELSE 0
        BY <2>2, <3>1
      <3> HIDE DEF bit, low
      <3> QED
        BY <2>0, <2>1, <2>2, <3>2
    <2>3. CASE ~(k < w)
      BY <2>3
    <2> QED
      BY <2>2, <2>3
  <1>3. low(0) = 0
    BY Powers
  <1>4. \A k \in 0 .. 16 : low(k) \in Int
    <2> SUFFICES ASSUME NEW k \in 0 .. 16 PROVE v % 2^k \in Int
      OBVIOUS
    <2>1. 2^k \in Nat \ {0}
      BY PowersPositive
    <2> QED
      BY <2>1
  <1>5. Read(ws, at) = bit(0) + bit(1) + bit(2) + bit(3) + bit(4) + bit(5) + bit(6) + bit(7)
          + bit(8) + bit(9) + bit(10) + bit(11) + bit(12) + bit(13) + bit(14) + bit(15)
    BY DEF Read
  <1> HIDE DEF bit, low, w
  <1>6. bit(0) + bit(1) + bit(2) + bit(3) + bit(4) + bit(5) + bit(6) + bit(7)
          + bit(8) + bit(9) + bit(10) + bit(11) + bit(12) + bit(13) + bit(14) + bit(15) = low(w)
    BY <1>1, <1>2, <1>3, <1>4
  <1> QED
    BY <1>5, <1>6 DEF low, w

-----------------------------------------------------------------------------
(* The layouts, and what is read from the words they were written to. *)

Overlap(x, y) == x.word = y.word /\ x.right < y.right + y.width /\ y.right < x.right + x.width

\* The places of a layout are within the words, and no two overlap.
WellPlaced(layout) ==
    \A f \in DOMAIN layout :
        /\ layout[f] \in Place /\ layout[f].right + layout[f].width <= 64
        /\ \A g \in DOMAIN layout : Overlap(layout[f], layout[g]) => f = g

\* No place of the one overlaps one of the other.
Apart(layout, other) ==
    \A f \in DOMAIN layout, g \in DOMAIN other :
        ~Overlap(layout[f], other[g]) /\ ~Overlap(other[g], layout[f])

LEMMA HeadPlaced == WellPlaced(HeadLayout)
  <1>1. \A f \in DOMAIN HeadLayout :
           HeadLayout[f] \in Place /\ HeadLayout[f].right + HeadLayout[f].width <= 64
    BY DEF HeadLayout, At, Place
  <1>2. \A f, g \in DOMAIN HeadLayout : Overlap(HeadLayout[f], HeadLayout[g]) => f = g
    BY DEF HeadLayout, At, Overlap
  <1> QED
    BY <1>1, <1>2 DEF WellPlaced

LEMMA MemoryPlaced == WellPlaced(MemoryLayout) /\ Apart(MemoryLayout, HeadLayout)
  <1>1. \A f \in DOMAIN MemoryLayout :
           MemoryLayout[f] \in Place /\ MemoryLayout[f].right + MemoryLayout[f].width <= 64
    BY DEF MemoryLayout, At, Place
  <1>2. \A f, g \in DOMAIN MemoryLayout : Overlap(MemoryLayout[f], MemoryLayout[g]) => f = g
    BY DEF MemoryLayout, At, Overlap
  <1>3. Apart(MemoryLayout, HeadLayout)
    BY DEF MemoryLayout, HeadLayout, At, Overlap, Apart
  <1> QED
    BY <1>1, <1>2, <1>3 DEF WellPlaced

LEMMA GemmPlaced == WellPlaced(GemmLayout) /\ Apart(GemmLayout, HeadLayout)
  <1>1. \A f \in DOMAIN GemmLayout :
           GemmLayout[f] \in Place /\ GemmLayout[f].right + GemmLayout[f].width <= 64
    BY DEF GemmLayout, At, Place
  <1>2. \A f, g \in DOMAIN GemmLayout : Overlap(GemmLayout[f], GemmLayout[g]) => f = g
    BY DEF GemmLayout, At, Overlap
  <1>3. Apart(GemmLayout, HeadLayout)
    BY DEF GemmLayout, HeadLayout, At, Overlap, Apart
  <1> QED
    BY <1>1, <1>2, <1>3 DEF WellPlaced

LEMMA AluPlaced == WellPlaced(AluLayout) /\ Apart(AluLayout, HeadLayout)
  <1>1. \A f \in DOMAIN AluLayout :
           AluLayout[f] \in Place /\ AluLayout[f].right + AluLayout[f].width <= 64
    BY DEF AluLayout, At, Place
  <1>2. \A f, g \in DOMAIN AluLayout : Overlap(AluLayout[f], AluLayout[g]) => f = g
    BY DEF AluLayout, At, Overlap
  <1>3. Apart(AluLayout, HeadLayout)
    BY DEF AluLayout, HeadLayout, At, Overlap, Apart
  <1> QED
    BY <1>1, <1>2, <1>3 DEF WellPlaced

LEMMA SharedBit ==
    ASSUME NEW x \in Place, NEW y \in Place, x.word = y.word, NEW b \in Int,
           x.right <= b, b < x.right + x.width, y.right <= b, b < y.right + y.width
    PROVE  Overlap(x, y)
  <1>1. x.right \in Int /\ x.width \in Int /\ y.right \in Int /\ y.width \in Int
    BY DEF Place
  <1> QED
    BY <1>1 DEF Overlap

\* What is read at a place of a layout, of two that were written.
LEMMA ReadWritten ==
    ASSUME NEW layout, NEW other, WellPlaced(layout), WellPlaced(other), Apart(layout, other),
           NEW value, NEW rest, NEW f \in DOMAIN layout, value[f] \in Int,
           NEW ws, \A w \in 1 .. 2 : ws[w] = Written(layout, w, value) \cup Written(other, w, rest)
    PROVE  Read(ws, layout[f]) = value[f] % 2^layout[f].width
  <1> DEFINE at == layout[f]
             v  == value[f]
  <1>1. at \in Place /\ at.right + at.width <= 64
    BY DEF WellPlaced
  <1>2. at.word \in 1 .. 2 /\ at.right \in 0 .. 63 /\ at.width \in 1 .. 16
    BY <1>1 DEF Place
  <1>3. ASSUME NEW k \in 0 .. at.width - 1
        PROVE  at.right + k \in ws[at.word] <=> (v \div 2^k) % 2 = 1
    <2> DEFINE b == at.right + k
    <2>1. b \in 0 .. 63 /\ at.right <= b /\ b < at.right + at.width /\ b - at.right = k
      <3> HIDE DEF at
      <3>1. PICK r \in 0 .. 63, n \in 1 .. 16 : r = at.right /\ n = at.width /\ r + n <= 64
        BY <1>1, <1>2
      <3>2. k \in 0 .. n - 1
        BY <3>1
      <3>3. r + k \in 0 .. 63
        BY <3>1, <3>2
      <3>4. r <= r + k /\ r + k < r + n
        BY <3>2
      <3>5. r + k - r = k
        BY <3>2
      <3> QED
        BY <3>1, <3>3, <3>4, <3>5
    <2>2. ws[at.word] = Written(layout, at.word, value) \cup Written(other, at.word, rest)
      BY <1>2
    <2>3. ASSUME (v \div 2^k) % 2 = 1 PROVE b \in Written(layout, at.word, value)
      <3>1. b - layout[f].right = k /\ (value[f] \div 2^k) % 2 = 1
        BY <2>1, <2>3
      <3>2. b \in 0 .. 63 /\ layout[f].right <= b /\ b < layout[f].right + layout[f].width
        BY <2>1
      <3> HIDE DEF b
      <3>3. (value[f] \div 2^(b - layout[f].right)) % 2 = 1
        BY <3>1
      <3> QED
        BY <3>2, <3>3 DEF Written
    <2>4. ASSUME b \in Written(layout, at.word, value) PROVE (v \div 2^k) % 2 = 1
      <3>1. PICK g \in DOMAIN layout :
                /\ layout[g].word = at.word
                /\ layout[g].right <= b /\ b < layout[g].right + layout[g].width
                /\ (value[g] \div 2^(b - layout[g].right)) % 2 = 1
        BY <2>4 DEF Written
      <3>2. layout[g] \in Place
        BY DEF WellPlaced
      <3>3. Overlap(at, layout[g])
        <4> HIDE DEF b, at
        <4> QED
          BY <1>1, <2>1, <3>1, <3>2, SharedBit
      <3>4. f = g
        BY <3>3 DEF WellPlaced
      <3> QED
        BY <2>1, <3>1, <3>4
    <2>5. b \notin Written(other, at.word, rest)
      <3> SUFFICES ASSUME b \in Written(other, at.word, rest) PROVE FALSE
        OBVIOUS
      <3>1. PICK g \in DOMAIN other :
                /\ other[g].word = at.word
                /\ other[g].right <= b /\ b < other[g].right + other[g].width
        BY DEF Written
      <3>2. other[g] \in Place
        BY DEF WellPlaced
      <3>3. Overlap(at, other[g])
        <4> HIDE DEF b, at
        <4> QED
          BY <1>1, <2>1, <3>1, <3>2, SharedBit
      <3> QED
        BY <3>3 DEF Apart
    <2> QED
      BY <2>2, <2>3, <2>4, <2>5
  <1> HIDE DEF at, v
  <1>4. v \in Int
    BY DEF v
  <1>5. Read(ws, at) = v % 2^at.width
    BY <1>1, <1>3, <1>4, ReadBits
  <1> QED
    BY <1>5 DEF at, v

-----------------------------------------------------------------------------
(* What the decoder makes of the words of a row. *)

Op(r) == instruction_type(r.name)

\* The types, and the names behind them.
LEMMA Opcodes ==
    ASSUME NEW r \in Row
    PROVE  /\ Op(r) \in {LOAD, STORE, GEMM, FINISH, ALU}
           /\ Op(r) = FINISH <=> r.name = "FINISH"
           /\ Op(r) = ALU <=> r.name \in AluOps
           /\ Op(r) = GEMM <=> r.name \in {"GEMM", "NOP-COMPUTE-STAGE"}
  BY DEF Op, instruction_type, LOAD, STORE, GEMM, FINISH, ALU, AluOps, LoadOps

LEMMA Codes ==
    ASSUME NEW r \in Row
    PROVE  memory_id(r.name) \in 0 .. 4 /\ alu_opcode(r.name) \in 0 .. 4
  BY DEF memory_id, alu_opcode

LEMMA Placed ==
    ASSUME NEW r \in Row
    PROVE  WellPlaced(encode_layout(Op(r))) /\ Apart(encode_layout(Op(r)), HeadLayout)
  <1>1. CASE Op(r) \in {LOAD, STORE}
    <2>1. encode_layout(Op(r)) = MemoryLayout
      BY <1>1 DEF encode_layout, LOAD, STORE, GEMM, FINISH, ALU
    <2> QED
      BY <2>1, MemoryPlaced
  <1>2. CASE Op(r) = GEMM
    <2>1. encode_layout(Op(r)) = GemmLayout
      BY <1>2 DEF encode_layout, LOAD, STORE, GEMM, FINISH, ALU
    <2> QED
      BY <2>1, GemmPlaced
  <1>3. CASE Op(r) = ALU
    <2>1. encode_layout(Op(r)) = AluLayout
      BY <1>3 DEF encode_layout, LOAD, STORE, GEMM, FINISH, ALU
    <2> QED
      BY <2>1, AluPlaced
  <1>4. CASE Op(r) = FINISH
    <2>1. encode_layout(Op(r)) = << >>
      BY <1>4 DEF encode_layout, LOAD, STORE, GEMM, ALU, FINISH
    <2>2. DOMAIN << >> = {}
      OBVIOUS
    <2> QED
      BY <2>1, <2>2 DEF WellPlaced, Apart
  <1> QED
    BY <1>1, <1>2, <1>3, <1>4, Opcodes

LEMMA EncodedTyped ==
    ASSUME NEW r \in Row
    PROVE  /\ \A f \in Fields : Encoded(r)[f] \in Int
           /\ \A f \in DOMAIN HeadLayout : Head(r)[f] \in Int
  <1>1. r.fields \in [Fields -> Int]
    BY DEF Row
  <1>2. ASSUME NEW f \in Fields PROVE Encoded(r)[f] \in Int
    BY <1>1, Codes DEF Encoded, Bit
  <1>3. ASSUME NEW f \in DOMAIN HeadLayout PROVE Head(r)[f] \in Int
    BY Opcodes DEF Head, Bit, Op, LOAD, STORE, GEMM, FINISH, ALU
  <1> QED
    BY <1>2, <1>3

LEMMA WordsWritten ==
    ASSUME NEW r \in Row, NEW w \in 1 .. 2
    PROVE  Words(r)[w] = Written(HeadLayout, w, Head(r)) \cup Written(encode_layout(Op(r)), w, Encoded(r))
  <1>1. w = 1 \/ w = 2
    OBVIOUS
  <1> QED
    BY <1>1 DEF Words, Op

\* The decoder reads the opcode and the flags.
LEMMA HeadRead ==
    ASSUME NEW r \in Row
    PROVE  /\ Read(Words(r), HeadLayout["opcode"]) = Op(r)
           /\ \A f \in Flags : Read(Words(r), HeadLayout[f]) = 1 <=> f \in r.flags
  <1>1. ASSUME NEW f \in DOMAIN HeadLayout
        PROVE  Read(Words(r), HeadLayout[f]) = Head(r)[f] % 2^HeadLayout[f].width
    <2>1. Apart(HeadLayout, encode_layout(Op(r)))
      BY Placed DEF Apart
    <2>2. Head(r)[f] \in Int
      BY EncodedTyped
    <2> QED
      BY <2>1, <2>2, HeadPlaced, Placed, WordsWritten, ReadWritten
  <1>2. DOMAIN HeadLayout = Flags \cup {"opcode"}
    BY DEF HeadLayout, Flags
  <1>3. Read(Words(r), HeadLayout["opcode"]) = Op(r)
    <2>1. HeadLayout["opcode"].width = 3 /\ Head(r)["opcode"] = Op(r)
      BY <1>2 DEF HeadLayout, At, Head, Op
    <2>2. Op(r) % 8 = Op(r)
      BY Opcodes DEF LOAD, STORE, GEMM, FINISH, ALU
    <2>3. "opcode" \in DOMAIN HeadLayout /\ 2^HeadLayout["opcode"].width = 8
      BY <1>2, <2>1, Powers
    <2> QED
      BY <1>1, <2>1, <2>2, <2>3
  <1>4. ASSUME NEW f \in Flags PROVE Read(Words(r), HeadLayout[f]) = 1 <=> f \in r.flags
    <2>1. HeadLayout[f].width = 1 /\ f # "opcode"
      BY DEF HeadLayout, At, Flags
    <2>2. Head(r)[f] = Bit(f \in r.flags)
      BY <1>2, <2>1 DEF Head
    <2>3. Read(Words(r), HeadLayout[f]) = Head(r)[f] % 2
      <3>1. f \in DOMAIN HeadLayout /\ 2^HeadLayout[f].width = 2
        BY <1>2, <2>1, Powers
      <3> QED
        BY <1>1, <3>1
    <2> QED
      BY <2>2, <2>3 DEF Bit
  <1> QED
    BY <1>3, <1>4

\* The place a field is read at is one the encoder wrote.
LEMMA Origins ==
    ASSUME NEW r \in Row, Op(r) # FINISH, NEW f \in DOMAIN Carried(r)
    PROVE  /\ Origin(r, f) \in DOMAIN encode_layout(Op(r)) /\ Origin(r, f) \in Fields
           /\ Carried(r)[f] = encode_layout(Op(r))[Origin(r, f)]
  <1>1. CASE Op(r) \in {LOAD, STORE}
    <2>1. encode_layout(Op(r)) = MemoryLayout /\ Carried(r) = MemoryLayout
      BY <1>1 DEF encode_layout, decode_layout, Carried, Op, LOAD, STORE, GEMM, FINISH, ALU
    <2>2. r.name \notin AluOps
      BY <1>1, Opcodes DEF LOAD, STORE, GEMM, FINISH, ALU
    <2>3. Origin(r, f) = f
      BY <2>2 DEF Origin
    <2> QED
      BY <2>1, <2>3 DEF Fields
  <1>2. CASE Op(r) = GEMM
    <2>1. encode_layout(Op(r)) = GemmLayout /\ Carried(r) = GemmLayout
      BY <1>2 DEF encode_layout, decode_layout, Carried, Op, LOAD, STORE, GEMM, FINISH, ALU
    <2>2. r.name \notin AluOps
      BY <1>2, Opcodes DEF LOAD, STORE, GEMM, FINISH, ALU
    <2>3. Origin(r, f) = f
      BY <2>2 DEF Origin
    <2> QED
      BY <2>1, <2>3 DEF Fields
  <1>3. CASE Op(r) = ALU
    <2>1. encode_layout(Op(r)) = AluLayout /\ Carried(r) = AluDecoded
      BY <1>3 DEF encode_layout, decode_layout, Carried, Op, LOAD, STORE, GEMM, FINISH, ALU
    <2>2. r.name \in AluOps
      BY <1>3, Opcodes
    <2>3. Origin(r, f) \in DOMAIN AluLayout /\ AluDecoded[f] = AluLayout[Origin(r, f)]
      BY <2>1, <2>2 DEF Origin, AluDecoded, AluLayout, At
    <2> QED
      BY <2>1, <2>3 DEF Fields
  <1> QED
    BY <1>1, <1>2, <1>3, Opcodes

LEMMA CarriedFields ==
    ASSUME NEW r \in Row, NEW f \in DOMAIN Carried(r)
    PROVE  f \in Fields
  <1>1. CASE Op(r) \in {LOAD, STORE}
    <2>1. Carried(r) = MemoryLayout
      BY <1>1 DEF decode_layout, Carried, Op, LOAD, STORE, GEMM, FINISH, ALU
    <2> QED
      BY <2>1 DEF Fields
  <1>2. CASE Op(r) \in {GEMM, FINISH}
    <2>1. Carried(r) = GemmLayout
      BY <1>2 DEF decode_layout, Carried, Op, LOAD, STORE, GEMM, FINISH, ALU
    <2> QED
      BY <2>1 DEF Fields
  <1>3. CASE Op(r) = ALU
    <2>1. Carried(r) = AluDecoded
      BY <1>3 DEF decode_layout, Carried, Op, LOAD, STORE, GEMM, FINISH, ALU
    <2>2. DOMAIN AluDecoded \subseteq DOMAIN AluLayout \cup DOMAIN GemmLayout
      BY DEF AluDecoded, AluLayout, GemmLayout
    <2> QED
      BY <2>1, <2>2 DEF Fields
  <1> QED
    BY <1>1, <1>2, <1>3, Opcodes

\* What is decoded from the words of a row.
Back(r) == Instruction(Words(r), r.mod)

LEMMA DecodedFields ==
    ASSUME NEW r \in Row
    PROVE  /\ Back(r).mod = r.mod /\ Back(r).flags = r.flags
           /\ Back(r).name = DecodedName(Op(r), Back(r).fields)
           /\ \A f \in Fields \ DOMAIN Carried(r) : Back(r).fields[f] = Defaults[f]
           /\ Op(r) # FINISH => \A f \in DOMAIN Carried(r) :
                 Back(r).fields[f] = Encoded(r)[Origin(r, f)] % 2^Carried(r)[f].width
  <1> DEFINE ws == Words(r)
             fields == [f \in Fields |-> IF f \in DOMAIN Carried(r) THEN Read(ws, Carried(r)[f])
                                         ELSE Defaults[f]]
  <1>1. /\ Back(r).name = DecodedName(Op(r), fields) /\ Back(r).mod = r.mod
        /\ Back(r).fields = fields
        /\ Back(r).flags = {f \in Flags : Read(ws, HeadLayout[f]) = 1}
    <2>1. Read(ws, HeadLayout["opcode"]) = Op(r)
      BY HeadRead
    <2> QED
      BY <2>1 DEF Back, Instruction, Carried, Op
  <1>2. Back(r).flags = r.flags
    BY <1>1, HeadRead DEF Row
  <1>3. ASSUME Op(r) # FINISH, NEW f \in DOMAIN Carried(r)
        PROVE  Read(ws, Carried(r)[f]) = Encoded(r)[Origin(r, f)] % 2^Carried(r)[f].width
    <2> DEFINE g == Origin(r, f)
    <2>1. /\ g \in DOMAIN encode_layout(Op(r)) /\ g \in Fields
          /\ Carried(r)[f] = encode_layout(Op(r))[g]
      BY <1>3, Origins
    <2>2. Encoded(r)[g] \in Int
      BY <2>1, EncodedTyped
    <2>3. \A w \in 1 .. 2 : ws[w] = Written(encode_layout(Op(r)), w, Encoded(r)) \cup Written(HeadLayout, w, Head(r))
      BY WordsWritten
    <2> HIDE DEF g, ws
    <2>4. Read(ws, encode_layout(Op(r))[g]) = Encoded(r)[g] % 2^encode_layout(Op(r))[g].width
      BY <2>1, <2>2, <2>3, HeadPlaced, Placed, ReadWritten
    <2> QED
      BY <2>1, <2>4 DEF g
  <1> HIDE DEF ws
  <1> QED
    BY <1>1, <1>2, <1>3, CarriedFields

\* The decoded name, as far as the modules look at it.
LEMMA DecodedNames ==
    ASSUME NEW r \in Row
    PROVE  /\ Back(r).name # "NOP-COMPUTE-STAGE"
           /\ Back(r).name = "FINISH" <=> r.name = "FINISH"
           /\ Back(r).name = "GEMM" <=> r.name \in {"GEMM", "NOP-COMPUTE-STAGE"}
           /\ Back(r).name = "LOAD_INP" <=> r.name = "LOAD_INP"
           /\ Back(r).name = "LOAD_ACC" <=> r.name = "LOAD_ACC"
  <1> DEFINE fields == Back(r).fields
  <1>1. Back(r).name = DecodedName(Op(r), fields)
    BY DecodedFields
  <1>2. CASE Op(r) \in {LOAD, STORE}
    <2>1. Carried(r) = MemoryLayout
      BY <1>2 DEF decode_layout, Carried, Op, LOAD, STORE, GEMM, FINISH, ALU
    <2>2. "memory_id" \in DOMAIN MemoryLayout /\ MemoryLayout["memory_id"].width = 3
      BY DEF MemoryLayout, At
    <2>3. Origin(r, "memory_id") = "memory_id"
      BY DEF Origin
    <2>4. "memory_id" \in Fields /\ Encoded(r)["memory_id"] = memory_id(r.name)
      BY <2>2 DEF Encoded, Fields
    <2>5. fields["memory_id"] = memory_id(r.name) % 2^3
      <3>1. fields["memory_id"] = Encoded(r)[Origin(r, "memory_id")] % 2^Carried(r)["memory_id"].width
        <4>1. Op(r) # FINISH
          BY <1>2 DEF LOAD, STORE, GEMM, FINISH, ALU
        <4>2. "memory_id" \in DOMAIN Carried(r)
          BY <2>1, <2>2, <2>4
        <4> QED
          BY <4>1, <4>2, DecodedFields
      <3> QED
        BY <2>1, <2>2, <2>3, <2>4, <3>1
    <2>6. fields["memory_id"] = memory_id(r.name)
      BY <2>5, Codes, Powers
    <2> HIDE DEF fields
    <2>7. CASE Op(r) = LOAD
      <3>1. Back(r).name = load_names[memory_id(r.name) + 1]
        BY <1>1, <2>6, <2>7 DEF DecodedName, LOAD, STORE, GEMM, FINISH, ALU
      <3>2. r.name \notin {"GEMM", "NOP-COMPUTE-STAGE", "FINISH", "STORE"}
        BY <2>7 DEF Op, instruction_type, LoadOps, AluOps, LOAD, STORE, GEMM, FINISH, ALU
      <3>3. /\ Back(r).name \in {"LOAD_UOP", "LOAD_WGT", "LOAD_INP", "LOAD_ACC"}
            /\ Back(r).name = "LOAD_INP" <=> memory_id(r.name) = 2
            /\ Back(r).name = "LOAD_ACC" <=> memory_id(r.name) = 3
        <4>1. memory_id(r.name) \in 0 .. 3
          BY <3>2, Codes DEF memory_id
        <4> QED
          BY <3>1, <4>1 DEF load_names
      <3>4. memory_id(r.name) = 2 <=> r.name = "LOAD_INP"
        BY DEF memory_id
      <3>5. memory_id(r.name) = 3 <=> r.name = "LOAD_ACC"
        BY DEF memory_id
      <3> QED
        BY <3>2, <3>3, <3>4, <3>5
    <2>8. CASE Op(r) = STORE
      <3>1. Back(r).name = store_names[memory_id(r.name) + 1]
        BY <1>1, <2>6, <2>8 DEF DecodedName, LOAD, STORE, GEMM, FINISH, ALU
      <3>2. r.name \in {"NOP-STORE-STAGE", "STORE"}
        BY <2>8 DEF Op, instruction_type, LoadOps, AluOps, LOAD, STORE, GEMM, FINISH, ALU
      <3>3. memory_id(r.name) \in {0, 4}
        BY <3>2 DEF memory_id
      <3>4. Back(r).name \in {"STORE_UOP", "STORE_STORE"}
        BY <3>1, <3>3 DEF store_names
      <3> QED
        BY <3>2, <3>4
    <2> QED
      BY <1>2, <2>7, <2>8
  <1>3. CASE Op(r) = GEMM
    <2>1. Back(r).name = "GEMM"
      BY <1>1, <1>3 DEF DecodedName, LOAD, STORE, GEMM, FINISH, ALU
    <2> QED
      BY <1>3, <2>1, Opcodes DEF GEMM
  <1>4. CASE Op(r) = FINISH
    <2>1. Back(r).name = "FINISH"
      BY <1>1, <1>4 DEF DecodedName, LOAD, STORE, GEMM, FINISH, ALU
    <2> QED
      BY <1>4, <2>1, Opcodes DEF FINISH
  <1>5. CASE Op(r) = ALU
    <2>1. Carried(r) = AluDecoded
      BY <1>5 DEF decode_layout, Carried, Op, LOAD, STORE, GEMM, FINISH, ALU
    <2>2. "alu_opcode" \in DOMAIN AluDecoded /\ AluDecoded["alu_opcode"].width = 3
      BY DEF AluDecoded, At
    <2>3. Origin(r, "alu_opcode") = "alu_opcode"
      BY DEF Origin
    <2>4. "alu_opcode" \in Fields /\ Encoded(r)["alu_opcode"] = alu_opcode(r.name)
      BY DEF Encoded, Fields, AluLayout
    <2>5. fields["alu_opcode"] = alu_opcode(r.name) % 2^3
      <3>1. fields["alu_opcode"] = Encoded(r)[Origin(r, "alu_opcode")] % 2^Carried(r)["alu_opcode"].width
        <4>1. Op(r) # FINISH
          BY <1>5 DEF LOAD, STORE, GEMM, FINISH, ALU
        <4>2. "alu_opcode" \in DOMAIN Carried(r)
          BY <2>1, <2>2, <2>4
        <4> QED
          BY <4>1, <4>2, DecodedFields
      <3> QED
        BY <2>1, <2>2, <2>3, <2>4, <3>1
    <2>6. fields["alu_opcode"] = alu_opcode(r.name)
      BY <2>5, Codes, Powers
    <2> HIDE DEF fields
    <2>7. Back(r).name = alu_names[alu_opcode(r.name) + 1]
      BY <1>1, <1>5, <2>6 DEF DecodedName, LOAD, STORE, GEMM, FINISH, ALU
    <2>8. Back(r).name \in {"ALU_min_imm", "ALU_max_imm", "ALU_add", "ALU_shr", "ALU_mul"}
      BY <2>7, Codes DEF alu_names
    <2>9. r.name \in AluOps
      BY <1>5, Opcodes
    <2> QED
      BY <2>8, <2>9 DEF AluOps
  <1> QED
    BY <1>2, <1>3, <1>4, <1>5, Opcodes

\* Values within the widths of their fields come back as they were.
LEMMA FitsBack ==
    ASSUME NEW r \in Row, Fits(r), Op(r) # FINISH, NEW f \in DOMAIN Carried(r)
    PROVE  Back(r).fields[f] = Encoded(r)[Origin(r, f)]
  <1> DEFINE v == Encoded(r)[Origin(r, f)]
             n == 2^Carried(r)[f].width
  <1>1. Back(r).fields[f] = v % n
    BY DecodedFields
  <1>2. v \in 0 .. n - 1
    BY DEF Fits
  <1>3. n \in Nat \ {0}
    <2>1. Carried(r)[f] \in Place
      BY Origins, Placed DEF WellPlaced
    <2>2. Carried(r)[f].width \in 0 .. 16
      BY <2>1 DEF Place
    <2> QED
      BY <2>2, PowersPositive
  <1> HIDE DEF v, n
  <1>4. v % n = v
    BY <1>2, <1>3
  <1> QED
    BY <1>1, <1>4 DEF v

\* Which layout has which of the fields latency() looks at.
LEMMA WhoCarries ==
    ASSUME NEW r \in Row
    PROVE  /\ {"y_size", "x_size", "range_0", "range_1", "gemm_outer_loop_iter", "gemm_inner_loop_iter",
               "alu_outer_loop_iter", "alu_inner_loop_iter"} \subseteq Fields
           /\ {"alu_outer_loop_iter", "alu_inner_loop_iter"} \cap DOMAIN Carried(r) = {}
           /\ Op(r) \in {LOAD, STORE} =>
                 /\ {"y_size", "x_size"} \subseteq DOMAIN Carried(r)
                 /\ {"range_0", "range_1"} \cap DOMAIN Carried(r) = {}
           /\ Op(r) \notin {LOAD, STORE} => 
                 /\ {"y_size", "x_size"} \cap DOMAIN Carried(r) = {}
                 /\ {"range_0", "range_1", "gemm_outer_loop_iter", "gemm_inner_loop_iter"} \subseteq DOMAIN Carried(r)
  <1>1. {"y_size", "x_size", "range_0", "range_1", "gemm_outer_loop_iter", "gemm_inner_loop_iter",
         "alu_outer_loop_iter", "alu_inner_loop_iter"} \subseteq Fields
    BY DEF Fields, MemoryLayout, GemmLayout, AluLayout
  <1>2. CASE Op(r) \in {LOAD, STORE}
    <2>1. Carried(r) = MemoryLayout
      BY <1>2 DEF decode_layout, Carried, Op, LOAD, STORE, GEMM, FINISH, ALU
    <2> QED
      BY <1>1, <1>2, <2>1 DEF MemoryLayout
  <1>3. CASE Op(r) \in {GEMM, FINISH}
    <2>1. Carried(r) = GemmLayout /\ Op(r) \notin {LOAD, STORE}
      BY <1>3 DEF decode_layout, Carried, Op, LOAD, STORE, GEMM, FINISH, ALU
    <2> QED
      BY <1>1, <2>1 DEF GemmLayout
  <1>4. CASE Op(r) = ALU
    <2>1. Carried(r) = AluDecoded /\ Op(r) \notin {LOAD, STORE}
      BY <1>4 DEF decode_layout, Carried, Op, LOAD, STORE, GEMM, FINISH, ALU
    <2> QED
      BY <1>1, <2>1 DEF AluDecoded
  <1> QED
    BY <1>2, <1>3, <1>4, Opcodes

LEMMA DefaultValues ==
    /\ \A f \in {"y_size", "x_size", "range_0", "range_1"} : Defaults[f] = 0
    /\ \A f \in {"alu_outer_loop_iter", "alu_inner_loop_iter"} : Defaults[f] = -1
  BY DEF Defaults, Fields, MemoryLayout, GemmLayout, AluLayout

\* The sizes and ranges of a row that fits.
LEMMA SizesBack ==
    ASSUME NEW r \in Row, Fits(r)
    PROVE  /\ Back(r).fields["y_size"] = r.fields["y_size"]
           /\ Op(r) \in {LOAD, STORE} => Back(r).fields["x_size"] = r.fields["x_size"]
           /\ Op(r) \notin {LOAD, STORE} => r.fields["y_size"] = 0
           /\ Op(r) \in {LOAD, STORE} => /\ r.fields["range_0"] = 0 /\ r.fields["range_1"] = 0
                                        /\ Back(r).fields["range_0"] = 0 /\ Back(r).fields["range_1"] = 0
           /\ Op(r) = GEMM =>
                 \A f \in {"range_0", "range_1", "gemm_outer_loop_iter", "gemm_inner_loop_iter"} :
                     Back(r).fields[f] = r.fields[f]
  <1>1. ASSUME NEW f \in {"y_size", "x_size", "range_0", "range_1", "gemm_outer_loop_iter", "gemm_inner_loop_iter"},
               f \in DOMAIN Carried(r), Op(r) \notin {FINISH, ALU}
        PROVE  Back(r).fields[f] = r.fields[f]
    <2>1. f \in Fields
      BY WhoCarries
    <2>2. r.name \notin AluOps
      BY <1>1, Opcodes
    <2>3. Origin(r, f) = f
      BY <2>2 DEF Origin
    <2>4. Encoded(r)[f] = r.fields[f]
      BY <1>1, <2>1 DEF Encoded
    <2> QED
      BY <1>1, <2>1, <2>3, <2>4, FitsBack
  <1>2. ASSUME NEW f \in {"y_size", "range_0", "range_1"}, f \notin DOMAIN Carried(r)
        PROVE  Back(r).fields[f] = 0 /\ r.fields[f] = 0
    <2>1. Back(r).fields[f] = Defaults[f]
      BY <1>2, WhoCarries, DecodedFields
    <2> QED
      BY <1>2, <2>1, DefaultValues DEF Fits
  <1>3. CASE Op(r) \in {LOAD, STORE}
    <2>1. Op(r) \notin {FINISH, ALU, GEMM}
      BY <1>3 DEF LOAD, STORE, GEMM, FINISH, ALU
    <2> QED
      BY <1>1, <1>2, <1>3, <2>1, WhoCarries
  <1>4. CASE Op(r) \notin {LOAD, STORE}
    <2>1. Op(r) = GEMM => Op(r) \notin {FINISH, ALU}
      BY DEF LOAD, STORE, GEMM, FINISH, ALU
    <2> QED
      BY <1>1, <1>2, <1>4, <2>1, WhoCarries
  <1> QED
    BY <1>3, <1>4

-----------------------------------------------------------------------------
(* latency() *)

LEMMA TimesOf ==
    ASSUME NEW A, NEW B, NEW t \in Times(A, B)
    PROVE  \E a \in A, b \in B : t = a * b
  BY DEF Times

LEMMA PlusOf ==
    ASSUME NEW A, NEW B, NEW t \in Plus(A, B)
    PROVE  \E a \in A, b \in B : t = a + b
  BY DEF Plus

\* A product with 0 is defined, and 0.
LEMMA TimesZero ==
    ASSUME NEW b \in Int
    PROVE  Times({0}, {b}) = {0}
  <1>1. b = 0 \/ Magnitude(0) <= IntMax \div Magnitude(b)
    <2> SUFFICES ASSUME b # 0 PROVE 0 <= IntMax \div Magnitude(b)
      BY DEF Magnitude
    <2>1. Magnitude(b) \in Nat \ {0}
      BY DEF Magnitude
    <2> DEFINE m == Magnitude(b)
    <2> HIDE DEF m
    <2>2. m \in Nat \ {0} => 0 <= 2147483647 \div m
      OBVIOUS
    <2> QED
      BY <2>1, <2>2 DEF m, IntMax
  <1>2. <<0, b>> \in {p \in {0} \X {b} : p[2] = 0 \/ Magnitude(p[1]) <= IntMax \div Magnitude(p[2])}
    BY <1>1
  <1>3. 0 * b = 0
    OBVIOUS
  <1>4. 0 \in Times({0}, {b})
    BY <1>2, <1>3 DEF Times
  <1>5. \A t \in Times({0}, {b}) : t = 0
    BY <1>3, TimesOf
  <1> QED
    BY <1>4, <1>5

\* No range, no iterations.
LEMMA NoIterations ==
    ASSUME NEW i, i.fields["range_0"] = 0, i.fields["range_1"] = 0,
           outer_loop_iter(i) \in Int, inner_loop_iter(i) \in Int
    PROVE  Iterations(i) = {0}
  <1>1. i.fields["range_1"] - i.fields["range_0"] = 0
    OBVIOUS
  <1> QED
    BY <1>1, TimesZero DEF Iterations

LEMMA LoopsTyped ==
    ASSUME NEW i, \A f \in {"gemm_outer_loop_iter", "gemm_inner_loop_iter", "alu_outer_loop_iter", "alu_inner_loop_iter"} :
                      i.fields[f] \in Int
    PROVE  outer_loop_iter(i) \in Int /\ inner_loop_iter(i) \in Int
  BY DEF outer_loop_iter, inner_loop_iter

\* The loop counts of a decoded instruction: of a GEMM as decoded, of others
\* both 0, or both -1 as they were initialised.
LEMMA LoopsBack ==
    ASSUME NEW r \in Row
    PROVE  \/ outer_loop_iter(Back(r)) \in Nat /\ inner_loop_iter(Back(r)) \in Nat
           \/ outer_loop_iter(Back(r)) = -1 /\ inner_loop_iter(Back(r)) = -1
  <1> DEFINE i == Back(r)
  <1>1. i.fields["alu_outer_loop_iter"] = -1 /\ i.fields["alu_inner_loop_iter"] = -1
    BY WhoCarries, DecodedFields, DefaultValues
  <1>2. CASE i.name = "GEMM"
    <2>1. Op(r) = GEMM
      BY <1>2, DecodedNames, Opcodes
    <2>2. ASSUME NEW f \in {"gemm_outer_loop_iter", "gemm_inner_loop_iter"} PROVE i.fields[f] \in Nat
      <3>1. f \in DOMAIN Carried(r) /\ Op(r) # FINISH
        BY <2>1, WhoCarries DEF LOAD, STORE, GEMM, FINISH, ALU
      <3>2. i.fields[f] = Encoded(r)[Origin(r, f)] % 2^Carried(r)[f].width
        BY <3>1, DecodedFields
      <3>3. Origin(r, f) \in Fields /\ Carried(r)[f] \in Place
        BY <3>1, Origins, Placed DEF WellPlaced
      <3>4. Carried(r)[f].width \in 0 .. 16
        BY <3>3 DEF Place
      <3>5. 2^Carried(r)[f].width \in Nat \ {0}
        BY <3>4, PowersPositive
      <3>6. Encoded(r)[Origin(r, f)] \in Int
        BY <3>3, EncodedTyped
      <3> QED
        BY <3>2, <3>5, <3>6
    <2>3. outer_loop_iter(i) = i.fields["gemm_outer_loop_iter"] /\ inner_loop_iter(i) = i.fields["gemm_inner_loop_iter"]
      BY <1>2 DEF outer_loop_iter, inner_loop_iter
    <2>4. outer_loop_iter(i) \in Nat /\ inner_loop_iter(i) \in Nat
      BY <2>2, <2>3
    <2> QED
      BY <2>4
  <1>3. CASE i.name \in {"LOAD_UOP", "LOAD_ACC", "FINISH", "NOP-COMPUTE-STAGE"}
    <2>1. outer_loop_iter(i) = 0 /\ inner_loop_iter(i) = 0
      BY <1>3 DEF outer_loop_iter, inner_loop_iter
    <2> QED
      BY <2>1
  <1>4. CASE i.name \notin {"LOAD_UOP", "LOAD_ACC", "FINISH", "NOP-COMPUTE-STAGE", "GEMM"}
    <2>1. outer_loop_iter(i) = -1 /\ inner_loop_iter(i) = -1
      BY <1>1, <1>4 DEF outer_loop_iter, inner_loop_iter
    <2> QED
      BY <2>1
  <1> QED
    BY <1>2, <1>3, <1>4

LEMMA SizesTyped ==
    ASSUME NEW r \in Row
    PROVE  /\ Back(r).fields["y_size"] \in Nat /\ Back(r).fields["x_size"] \in Nat
           /\ r.name = "FINISH" => Back(r).fields["y_size"] = 0
           /\ r.name # "FINISH" => Back(r).fields["range_0"] \in Int /\ Back(r).fields["range_1"] \in Int
  <1>1. ASSUME NEW f \in {"y_size", "x_size", "range_0", "range_1"}, r.name # "FINISH"
        PROVE  Back(r).fields[f] \in Nat
    <2>1. CASE f \in DOMAIN Carried(r)
      <3>1. f \in DOMAIN Carried(r) /\ Op(r) # FINISH
        BY <1>1, <2>1, WhoCarries, Opcodes
      <3>2. Back(r).fields[f] = Encoded(r)[Origin(r, f)] % 2^Carried(r)[f].width
        BY <3>1, DecodedFields
      <3>3. Origin(r, f) \in Fields /\ Carried(r)[f] \in Place
        BY <3>1, Origins, Placed DEF WellPlaced
      <3>4. Carried(r)[f].width \in 0 .. 16
        BY <3>3 DEF Place
      <3>5. 2^Carried(r)[f].width \in Nat \ {0}
        BY <3>4, PowersPositive
      <3>6. Encoded(r)[Origin(r, f)] \in Int
        BY <3>3, EncodedTyped
      <3> QED
        BY <3>2, <3>5, <3>6
    <2>2. CASE f \notin DOMAIN Carried(r)
      BY <2>2, WhoCarries, DecodedFields, DefaultValues
    <2> QED
      BY <2>1, <2>2
  <1>2. ASSUME r.name = "FINISH"
        PROVE  Back(r).fields["y_size"] = 0 /\ Back(r).fields["x_size"] = 0
    <2>1. Op(r) \notin {LOAD, STORE}
      BY <1>2, Opcodes DEF LOAD, STORE, GEMM, FINISH, ALU
    <2> QED
      BY <2>1, WhoCarries, DecodedFields, DefaultValues
  <1> QED
    BY <1>1, <1>2

\* latency() of a row and of what comes back for it.
LEMMA LatencyBack ==
    ASSUME NEW r \in Row, NEW p, Fits(r), r.name \notin AluOps \cup {"NOP-COMPUTE-STAGE"}
    PROVE  Latency(Back(r), p) = Latency(r, p)
  <1> DEFINE i == Back(r)
  <1>1. i.mod = r.mod /\ r.mod \in {"LOAD", "COMPUTE", "STORE"}
    BY DecodedFields DEF Row
  <1>2. i.fields["y_size"] = r.fields["y_size"]
    BY SizesBack
  <1>3. r.fields["y_size"] # 0 => i.fields["x_size"] = r.fields["x_size"]
    BY SizesBack
  <1>4. /\ i.name = "LOAD_INP" <=> r.name = "LOAD_INP"
        /\ i.name = "LOAD_ACC" <=> r.name = "LOAD_ACC"
        /\ i.name = "GEMM" <=> r.name = "GEMM"
        /\ i.name = "FINISH" <=> r.name = "FINISH"
        /\ i.name # "NOP-COMPUTE-STAGE" /\ r.name # "NOP-COMPUTE-STAGE"
    BY DecodedNames
  <1>5. LoadLatency(i, p) = LoadLatency(r, p)
    <2>1. CASE r.fields["y_size"] = 0
      BY <1>2, <2>1 DEF LoadLatency
    <2>2. CASE r.fields["y_size"] # 0
      <3>1. i.fields["x_size"] = r.fields["x_size"]
        BY <1>3, <2>2
      <3>2. CASE r.name = "LOAD_INP"
        BY <1>2, <1>4, <2>2, <3>1, <3>2 DEF LoadLatency
      <3>3. CASE r.name # "LOAD_INP"
        BY <1>2, <1>4, <2>2, <3>1, <3>3 DEF LoadLatency
      <3> QED
        BY <3>2, <3>3
    <2> QED
      BY <2>1, <2>2
  <1>6. StoreLatency(i, p) = StoreLatency(r, p)
    <2>1. CASE r.fields["y_size"] = 0
      BY <1>2, <2>1 DEF StoreLatency
    <2>2. CASE r.fields["y_size"] # 0
      BY <1>2, <1>3, <2>2 DEF StoreLatency
    <2> QED
      BY <2>1, <2>2
  <1>7. ComputeLatency(i, p) = ComputeLatency(r, p)
    <2>1. CASE r.fields["y_size"] # 0
      <3>1. i.fields["x_size"] = r.fields["x_size"]
        BY <1>3, <2>1
      <3>2. CASE r.name = "LOAD_ACC"
        BY <1>2, <1>4, <2>1, <3>1, <3>2 DEF ComputeLatency
      <3>3. CASE r.name # "LOAD_ACC"
        BY <1>2, <1>4, <2>1, <3>1, <3>3 DEF ComputeLatency
      <3> QED
        BY <3>2, <3>3
    <2>2. CASE r.fields["y_size"] = 0 /\ r.name = "GEMM"
      <3>1. Op(r) = GEMM
        BY <2>2, Opcodes
      <3>2. \A f \in {"range_0", "range_1", "gemm_outer_loop_iter", "gemm_inner_loop_iter"} :
               i.fields[f] = r.fields[f]
        BY <3>1, SizesBack
      <3>3. outer_loop_iter(i) = outer_loop_iter(r) /\ inner_loop_iter(i) = inner_loop_iter(r)
        BY <1>4, <2>2, <3>2 DEF outer_loop_iter, inner_loop_iter
      <3>4. Iterations(i) = Iterations(r)
        BY <3>2, <3>3 DEF Iterations
      <3>5. ComputeLatency(r, p) = Plus(Iterations(r), {100})
        BY <2>2 DEF ComputeLatency
      <3>6. ComputeLatency(i, p) = Plus(Iterations(i), {100})
        BY <1>2, <1>4, <2>2 DEF ComputeLatency
      <3> QED
        BY <3>4, <3>5, <3>6
    <2>3. CASE r.fields["y_size"] = 0 /\ r.name = "FINISH"
      BY <1>2, <1>4, <2>3 DEF ComputeLatency
    <2>4. CASE r.fields["y_size"] = 0 /\ r.name \notin {"GEMM", "FINISH"}
      <3>1. Op(r) \in {LOAD, STORE}
        BY <2>4, Opcodes
      <3>2. /\ r.fields["range_0"] = 0 /\ r.fields["range_1"] = 0
            /\ i.fields["range_0"] = 0 /\ i.fields["range_1"] = 0
        BY <3>1, SizesBack
      <3>3. Iterations(i) = {0}
        <4>1. outer_loop_iter(i) \in Int /\ inner_loop_iter(i) \in Int
          BY LoopsBack
        <4> QED
          BY <3>2, <4>1, NoIterations
      <3>4. Iterations(r) = {0}
        <4>1. r.fields \in [Fields -> Int]
          BY DEF Row
        <4>2. outer_loop_iter(r) \in Int /\ inner_loop_iter(r) \in Int
          BY <4>1, WhoCarries, LoopsTyped
        <4> QED
          BY <3>2, <4>2, NoIterations
      <3>5. ComputeLatency(r, p) = Plus(Times({2}, Iterations(r)), {100})
        BY <1>4, <2>4 DEF ComputeLatency
      <3>6. ComputeLatency(i, p) = Plus(Times({2}, Iterations(i)), {100})
        BY <1>2, <1>4, <2>4 DEF ComputeLatency
      <3> QED
        BY <3>3, <3>4, <3>5, <3>6
    <2> QED
      BY <2>1, <2>2, <2>3, <2>4
  <1> QED
    BY <1>1, <1>5, <1>6, <1>7 DEF Latency

\* A transfer of at least one row takes at least 100 ns.
LEMMA TransferTakes ==
    ASSUME NEW y \in Nat \ {0}, NEW x \in Nat, NEW c \in Nat, NEW per \in {4, 16},
           NEW t \in Transfer(y, x, c, per)
    PROVE  t \in Int /\ t >= 100
  <1> DEFINE blocks(n) == (n - 1) \div per + 1
             B == {blocks(n) : n \in Times({y}, {x})}
  <1>1. t \in Plus({y * 100}, Times({c}, B))
    BY DEF Transfer
  <1>2. PICK b : b \in Times({c}, B) /\ t = y * 100 + b
    <2> HIDE DEF B
    <2> QED
      BY <1>1, PlusOf
  <1>3. PICK k : k \in B /\ b = c * k
    <2> HIDE DEF B
    <2> QED
      BY <1>2, TimesOf
  <1>4. PICK n : n \in Times({y}, {x}) /\ k = blocks(n)
    BY <1>3
  <1>5. n \in Nat
    <2>1. n = y * x
      BY <1>4, TimesOf
    <2>2. y * x \in Nat
      OBVIOUS
    <2> QED
      BY <2>1, <2>2
  <1>6. k \in Nat
    <2>1. CASE per = 4  BY <1>4, <1>5, <2>1
    <2>2. CASE per = 16  BY <1>4, <1>5, <2>2
    <2> QED
      BY <2>1, <2>2
  <1>7. b \in Nat
    <2>1. c * k \in Nat
      BY <1>6
    <2> QED
      BY <1>3, <2>1
  <1> QED
    BY <1>2, <1>7

LEMMA IterationsCount ==
    ASSUME NEW r \in Row, r.name # "FINISH", Back(r).fields["range_0"] <= Back(r).fields["range_1"],
           NEW n \in Iterations(Back(r))
    PROVE  n \in Nat
  <1> DEFINE i == Back(r)
             d == i.fields["range_1"] - i.fields["range_0"]
             o == outer_loop_iter(i)
             k == inner_loop_iter(i)
  <1>1. d \in Nat
    BY SizesTyped
  <1>2. PICK m \in Times({d}, {o}) : n = m * k
    BY TimesOf DEF Iterations
  <1>3. m = d * o
    BY TimesOf
  <1>4. \/ o \in Nat /\ k \in Nat
        \/ o = -1 /\ k = -1
    BY LoopsBack
  <1> HIDE DEF d, o, k
  <1>5. CASE o \in Nat /\ k \in Nat
    <2>1. d * o \in Nat
      BY <1>1, <1>5
    <2>2. m * k \in Nat
      BY <1>3, <1>5, <2>1
    <2> QED
      BY <1>2, <2>2
  <1>6. CASE o = -1 /\ k = -1
    BY <1>1, <1>2, <1>3, <1>6
  <1> QED
    BY <1>4, <1>5, <1>6

LEMMA LatencyTakes ==
    ASSUME NEW r \in Row, Back(r).fields["range_0"] <= Back(r).fields["range_1"],
           NEW p \in [load_cycles : Int, load_weigts_cycles : Int, store_cycles : Int],
           p.load_cycles >= 0, p.store_cycles >= 0,
           NEW t \in Latency(Back(r), p)
    PROVE  t >= 10
  <1> DEFINE i == Back(r)
             y == i.fields["y_size"]
             x == i.fields["x_size"]
  <1>1. y \in Nat /\ x \in Nat /\ p.load_cycles \in Nat /\ p.store_cycles \in Nat
    BY SizesTyped
  <1>2. i.mod = r.mod /\ r.mod \in {"LOAD", "COMPUTE", "STORE"}
    BY DecodedFields DEF Row
  <1>3. CASE i.mod = "LOAD"
    <2>1. t \in LoadLatency(i, p)
      BY <1>3 DEF Latency
    <2>2. CASE y = 0
      BY <2>1, <2>2 DEF LoadLatency
    <2>3. CASE y # 0 /\ i.name = "LOAD_INP"
      <3>1. t \in Transfer(y, x, p.load_cycles, 16)
        BY <2>1, <2>3 DEF LoadLatency
      <3> HIDE DEF x, y
      <3>2. t \in Int /\ t >= 100
        BY <1>1, <2>3, <3>1, TransferTakes
      <3> QED
        BY <3>2
    <2>4. CASE y # 0 /\ i.name # "LOAD_INP"
      <3>1. t \in Plus({y * 100}, Times(Times({p.load_cycles}, {y}), {x}))
        BY <2>1, <2>4 DEF LoadLatency
      <3>2. PICK b \in Times(Times({p.load_cycles}, {y}), {x}) : t = y * 100 + b
        BY <3>1, PlusOf
      <3>3. PICK a \in Times({p.load_cycles}, {y}) : b = a * x
        BY TimesOf
      <3>4. a = p.load_cycles * y
        BY TimesOf
      <3> HIDE DEF x, y
      <3>5. a \in Nat
        BY <1>1, <3>4
      <3>6. b \in Nat
        BY <1>1, <3>3, <3>5
      <3> QED
        BY <1>1, <2>4, <3>2, <3>6
    <2> QED
      BY <2>2, <2>3, <2>4
  <1>4. CASE i.mod = "STORE"
    <2>1. t \in StoreLatency(i, p)
      BY <1>4 DEF Latency
    <2>2. CASE y = 0
      BY <2>1, <2>2 DEF StoreLatency
    <2>3. CASE y # 0
      <3>1. t \in Transfer(y, x, p.store_cycles, 16)
        BY <2>1, <2>3 DEF StoreLatency
      <3> HIDE DEF x, y
      <3>2. t \in Int /\ t >= 100
        BY <1>1, <2>3, <3>1, TransferTakes
      <3> QED
        BY <3>2
    <2> QED
      BY <2>2, <2>3
  <1>5. CASE i.mod = "COMPUTE"
    <2>1. t \in ComputeLatency(i, p)
      BY <1>5 DEF Latency
    <2>2. CASE y # 0
      <3>1. PICK per \in {4, 16} : t \in Transfer(y, x, p.load_cycles, per)
        <4>1. CASE i.name = "LOAD_ACC"  BY <2>1, <2>2, <4>1 DEF ComputeLatency
        <4>2. CASE i.name # "LOAD_ACC"  BY <2>1, <2>2, <4>2 DEF ComputeLatency
        <4> QED
          BY <4>1, <4>2
      <3> HIDE DEF x, y
      <3>2. t \in Int /\ t >= 100
        BY <1>1, <2>2, <3>1, TransferTakes
      <3> QED
        BY <3>2
    <2>3. CASE y = 0 /\ i.name = "FINISH"
      <3>1. t \in {10}
        BY <2>1, <2>3 DEF ComputeLatency
      <3> QED
        BY <3>1
    <2>4. CASE y = 0 /\ i.name = "GEMM"
      <3>1. t \in Plus(Iterations(i), {100})
        BY <2>1, <2>4 DEF ComputeLatency
      <3>2. PICK n \in Iterations(i) : t = n + 100
        BY <3>1, PlusOf
      <3>3. n \in Nat
        BY <2>4, DecodedNames, IterationsCount
      <3> QED
        BY <3>2, <3>3
    <2>5. CASE y = 0 /\ i.name \notin {"GEMM", "FINISH"}
      <3>1. t \in Plus(Times({2}, Iterations(i)), {100})
        BY <2>1, <2>5, DecodedNames DEF ComputeLatency
      <3>2. PICK b \in Times({2}, Iterations(i)) : t = b + 100
        BY <3>1, PlusOf
      <3>3. PICK n \in Iterations(i) : b = 2 * n
        BY TimesOf
      <3>4. n \in Nat
        BY <2>5, DecodedNames, IterationsCount
      <3> QED
        BY <3>2, <3>3, <3>4
    <2> QED
      BY <2>2, <2>3, <2>4, <2>5
  <1> QED
    BY <1>2, <1>3, <1>4, <1>5

-----------------------------------------------------------------------------
(* The invariants. *)

\* The way of a row: each variable holds what the steps so far made of the
\* row, and nothing else.
Way ==
    /\ row \in Rows /\ platform \in Platforms
    /\ phase = "encoded" => words = Words(row)
    /\ Decoded => current = Back(row)
    /\ phase = "timed" => ns = Latency(current, platform)

\* Way holds in every state, of every set of rows and configurations.
THEOREM Invariance == Spec => []Way
  <1>1. Init => Way
    BY DEF Init, Way, Decoded
  <1>2. Way /\ [Next]_vars => Way'
    <2> SUFFICES ASSUME Way, [Next]_vars PROVE Way'
      OBVIOUS
    <2>1. CASE encode
      <3>1. row' = row /\ platform' = platform /\ phase' \in {"threw", "encoded"}
        BY <2>1 DEF encode
      <3>2. phase' = "encoded" => words' = Words(row)
        BY <2>1 DEF encode
      <3> QED
        BY <3>1, <3>2 DEF Way, Decoded
    <2>2. CASE decode
      BY <2>2 DEF Way, decode, Decoded, Back
    <2>3. CASE latency
      BY <2>3 DEF Way, latency, Decoded
    <2>4. CASE UNCHANGED vars
      BY <2>4 DEF Way, vars, Decoded
    <2> QED
      BY <2>1, <2>2, <2>3, <2>4 DEF Next
  <1> QED
    BY <1>1, <1>2, PTL DEF Spec

\* The dependency flags of every row survive the words, and exactly the row
\* FINISH comes back as FINISH.
THEOREM ControlKeptAlways == Spec => []ControlKept
  <1>1. Way => ControlKept
    BY RowsAssumption, DecodedFields, DecodedNames DEF Way, ControlKept
  <1> QED
    BY <1>1, Invariance, PTL

\* Every carried field of every row comes back modulo its width, whatever
\* values the row has in it and in the others.
THEOREM FieldsKeptAlways == Spec => []FieldsKept
  <1>1. Way => FieldsKept
    <2> SUFFICES ASSUME Way, Decoded, row.name # "FINISH", NEW f \in DOMAIN Carried(row)
                 PROVE  current.fields[f] = Encoded(row)[Origin(row, f)] % 2^Carried(row)[f].width
      BY DEF FieldsKept
    <2>1. row \in Row /\ current = Back(row)
      BY RowsAssumption DEF Way
    <2>2. Op(row) # FINISH
      BY <2>1, Opcodes
    <2> QED
      BY <2>1, <2>2, DecodedFields
  <1> QED
    BY <1>1, Invariance, PTL

\* The latency of what is decoded is the row's, for every row that fits, in
\* whatever module, and every configuration.
THEOREM LatencyKeptAlways == Spec => []LatencyKept
  <1>1. Way => LatencyKept
    BY RowsAssumption, LatencyBack DEF Way, LatencyKept, Decoded
  <1> QED
    BY <1>1, Invariance, PTL

\* No instruction takes less than 10 ns, whatever the words.
THEOREM TimeAdvancesAlways == Spec => []TimeAdvances
  <1>1. Way => TimeAdvances
    <2> SUFFICES ASSUME Way, phase = "timed",
                        current.fields["range_0"] <= current.fields["range_1"],
                        platform.load_cycles >= 0, platform.store_cycles >= 0,
                        NEW t \in ns
                 PROVE  t >= 10
      BY DEF TimeAdvances
    <2>1. row \in Row /\ current = Back(row) /\ t \in Latency(Back(row), platform)
      BY RowsAssumption DEF Way, Decoded
    <2>2. platform \in [load_cycles : Int, load_weigts_cycles : Int, store_cycles : Int]
      BY PlatformsAssumption DEF Way
    <2> QED
      BY <2>1, <2>2, LatencyTakes
  <1> QED
    BY <1>1, Invariance, PTL
=============================================================================
