----------------------------- MODULE Intervals ------------------------------
(***************************************************************************)
(* MemoryAddress (type.h): the bytes of a two-dimensional DRAM access as a  *)
(* list of intervals, one per row, and execlude_intersection_intervals,     *)
(* which cuts out of this address what another one covers and returns what  *)
(* it cut.  An interval <<s, e>> is the bytes from s to e - 1.              *)
(***************************************************************************)
EXTENDS Integers, Sequences

CONSTANT Addresses      \* accesses: [start, x, y, stride, word_size]

VARIABLES
    this, other,    \* the two addresses
    batches,        \* batches of this
    found,          \* intersection_intervals
    i, j,           \* the two cursors, 0-based as in the code
    stage           \* "compare", "scan" or "done"

cut_vars == <<this, other, batches, found, i, j, stage>>

Batches(a) ==
    [k \in 1 .. a.y |-> LET s == a.start + (k - 1) * a.stride * a.word_size
                        IN  <<s, s + a.x * a.word_size>>]
last_element(a) == a.start + (a.y - 1) * a.stride * a.word_size + a.x * a.word_size

CutInit ==
    /\ this \in Addresses /\ other \in Addresses
    /\ batches = Batches(this)
    /\ found = << >> /\ i = 0 /\ j = 0 /\ stage = "compare"

Larger(a, b)  == IF a > b THEN a ELSE b
Smaller(a, b) == IF a < b THEN a ELSE b

\* Addresses whose hulls are apart have nothing in common.
compare ==
    /\ stage = "compare"
    /\ stage' = IF Larger(this.start, other.start) < Smaller(last_element(this), last_element(other))
                THEN "scan" ELSE "done"
    /\ UNCHANGED <<this, other, batches, found, i, j>>

\* i is compared as a size_t: after the i-- of a first interval it is larger
\* than any size.
More == i >= 0 /\ i < Len(batches) /\ j < Len(Batches(other))

B1 == batches[i + 1]
B2 == Batches(other)[j + 1]
L  == Larger(B1[1], B2[1])
R  == Smaller(B1[2], B2[2])

\* Mutant: the interval that reaches further is left behind.
advance_further(k) == IF B1[2] > B2[2] THEN i' = k + 1 /\ j' = j ELSE i' = k /\ j' = j + 1

\* The interval that ends first is left behind; k is i as changed so far.
Advance(k) == IF B1[2] < B2[2] THEN i' = k + 1 /\ j' = j ELSE i' = k /\ j' = j + 1

Scan == stage = "scan" /\ More /\ UNCHANGED <<this, other, stage>>

apart ==
    /\ Scan /\ ~ L < R
    /\ Advance(i)
    /\ UNCHANGED <<batches, found>>

Cut(pieces) ==
    /\ found' = Append(found, <<L, R>>)
    /\ batches' = SubSeq(batches, 1, i) \o pieces \o SubSeq(batches, i + 2, Len(batches))

covered ==
    /\ Scan /\ L < R /\ B1 = <<L, R>>
    /\ Cut(<< >>)
    /\ Advance(i - 1)

\* Mutant: the part behind the cut is forgotten.
cut_middle_keeping_front ==
    /\ Scan /\ L < R /\ B1[1] < L /\ B1[2] > R
    /\ Cut(<< <<B1[1], L>> >>)
    /\ Advance(i)

cut_middle ==
    /\ Scan /\ L < R /\ B1[1] < L /\ B1[2] > R
    /\ Cut(<< <<B1[1], L>>, <<R, B1[2]>> >>)
    /\ Advance(i)

cut_end ==
    /\ Scan /\ L < R /\ B1[1] < L /\ B1[2] = R
    /\ Cut(<< <<B1[1], L>> >>)
    /\ Advance(i)

cut_front ==
    /\ Scan /\ L < R /\ B1[1] = L /\ B1[2] > R
    /\ Cut(<< <<R, B1[2]>> >>)
    /\ Advance(i)

Empty(b) == b[2] <= b[1]

\* If anything was cut, empty intervals are swept out.
sweep ==
    /\ stage = "scan" /\ ~ More
    /\ batches' = IF found # << >> /\ \E k \in DOMAIN batches : Empty(batches[k])
                  THEN SelectSeq(batches, LAMBDA b : ~ Empty(b)) ELSE batches
    /\ stage' = "done"
    /\ UNCHANGED <<this, other, found, i, j>>

CutNext == compare \/ apart \/ covered \/ cut_middle \/ cut_end \/ cut_front \/ sweep

CutSpec == CutInit /\ [][CutNext]_cut_vars

-----------------------------------------------------------------------------
\* What is assumed of the accesses: rows hold something and do not overlap.
AddressesOK ==
    /\ Addresses \subseteq [start : Nat, x : Nat \ {0}, y : Nat, stride : Nat, word_size : Nat \ {0}]
    /\ \A a \in Addresses : a.x <= a.stride

(* Properties. *)

Points(s) == UNION {s[k][1] .. s[k][2] - 1 : k \in DOMAIN s}
Mine      == Points(Batches(this))
Theirs    == Points(Batches(other))

\* At every moment nothing is lost and nothing is in two places: the bytes of
\* this address are those still in batches and those returned, once each, in
\* intervals in ascending order; the ones returned are the other's too.
Partition ==
    /\ Points(batches) \cup Points(found) = Mine
    /\ Points(batches) \cap Points(found) = {}
    /\ Points(found) \subseteq Theirs
    /\ \A s \in {batches, found} : \A k \in 1 .. Len(s) - 1 : s[k][2] <= s[k + 1][1]

\* The whole intersection is cut out, unless the first interval was covered
\* by one that ends where it ends: then i-- leaves -1 and the scan is over
\* (see AllExcluded).
ExcludedUnlessWrapped ==
    stage = "done" /\ i >= 0 => Points(batches) \cap Theirs = {}

-----------------------------------------------------------------------------
(* What the documentation says and the code does not do (see README.md). *)

\* "execlude the intersection from the current interval" (type.h:175).
AllExcluded == stage = "done" => Points(batches) \cap Theirs = {}
=============================================================================
