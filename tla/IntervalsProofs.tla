-------------------------- MODULE IntervalsProofs ---------------------------
(***************************************************************************)
(* Cutting one access out of another, for all accesses whose rows do not    *)
(* overlap.                                                                 *)
(*                                                                          *)
(* The properties need to know where the two cursors stand.  Frontier: what *)
(* has been found ends before the rest of the other address, or before the  *)
(* rest of this one.  Behind: of two intervals of which one has been left   *)
(* behind by its cursor, neither meets the other any more.                  *)
(***************************************************************************)
EXTENDS Intervals, SequenceTheorems, TLAPS

Pairs == Int \X Int

Inside(b, x) == b[1] <= x /\ x < b[2]
Apart(b, c)  == b[2] <= c[1] \/ c[2] <= b[1]

Ordered(s) ==
    /\ \A k \in DOMAIN s : s[k][1] < s[k][2]
    /\ \A k, m \in DOMAIN s : k < m => s[k][2] <= s[m][1]

Rest == Batches(other)

Typed ==
    /\ this \in Addresses /\ other \in Addresses
    /\ batches \in Seq(Pairs) /\ found \in Seq(Pairs)
    /\ i \in Int /\ i >= -1 /\ j \in Nat
    /\ stage \in {"compare", "scan", "done"}

Fresh == stage = "compare" => batches = Batches(this) /\ found = << >> /\ i = 0 /\ j = 0

Whole ==
    /\ Points(batches) \cup Points(found) = Mine
    /\ Points(batches) \cap Points(found) = {}
    /\ Points(found) \subseteq Theirs

Frontier ==
    \/ \A k \in DOMAIN found, n \in DOMAIN Rest : n > j => found[k][2] <= Rest[n][1]
    \/ \A k \in DOMAIN found, m \in DOMAIN batches : m > i => found[k][2] <= batches[m][1]

Behind ==
    stage = "scan" /\ i >= 0 =>
        \A m \in DOMAIN batches, n \in DOMAIN Rest : m <= i \/ n <= j => Apart(batches[m], Rest[n])

IInv == /\ Typed /\ Fresh /\ Ordered(batches) /\ Ordered(found)
        /\ Whole /\ Frontier /\ Behind /\ ExcludedUnlessWrapped

-----------------------------------------------------------------------------
(* Rows of an access, and points of intervals. *)

LEMMA Multiples == ASSUME NEW p \in Nat, NEW q \in Nat, NEW s \in Nat, p < q
                   PROVE  p * s \in Nat /\ q * s \in Nat /\ p * s + s <= q * s
<1>1. PICK d \in Nat : q = p + 1 + d
  <2>1. q - p - 1 \in Nat /\ q = p + 1 + (q - p - 1)
    OBVIOUS
  <2> QED
    BY <2>1
<1>2. q * s = p * s + s + d * s
  BY <1>1
<1>3. p * s \in Nat /\ d * s \in Nat
  BY <1>1
<1> QED
  BY <1>2, <1>3

LEMMA FunctionsAreSequences ==
    ASSUME NEW T, NEW n \in Nat, NEW f \in [1 .. n -> T]
    PROVE  f \in Seq(T) /\ Len(f) = n
OBVIOUS

\* The rows of an access are in order and within its hull.
LEMMA RowsOrdered ==
    ASSUME AddressesOK, NEW a \in Addresses
    PROVE  /\ Batches(a) \in Seq(Pairs) /\ Ordered(Batches(a))
           /\ DOMAIN Batches(a) = 1 .. Len(Batches(a)) /\ Len(Batches(a)) \in Nat
           /\ a.start \in Int /\ last_element(a) \in Int
           /\ \A k \in DOMAIN Batches(a) :
                 a.start <= Batches(a)[k][1] /\ Batches(a)[k][2] <= last_element(a)
<1>1. /\ a.start \in Nat /\ a.x \in Nat \ {0} /\ a.y \in Nat /\ a.stride \in Nat
      /\ a.word_size \in Nat \ {0} /\ a.x <= a.stride
  BY DEF AddressesOK
<1>2. PICK s \in Nat : s = a.stride * a.word_size
  BY <1>1
<1>3. PICK w \in Nat \ {0} : w = a.x * a.word_size
  <2>1. a.x * a.word_size \in Nat \ {0}
    BY <1>1
  <2> QED
    BY <2>1
<1>4. w <= s
  <2>1. PICK d \in Nat : a.stride = a.x + d
    <3>1. a.stride - a.x \in Nat /\ a.stride = a.x + (a.stride - a.x)
      BY <1>1
    <3> QED
      BY <3>1
  <2>2. s = w + d * a.word_size
    BY <1>1, <1>2, <1>3, <2>1
  <2>3. d * a.word_size \in Nat
    BY <1>1, <2>1
  <2> QED
    BY <1>2, <1>3, <2>2, <2>3
<1>5. \A k \in Int : (k - 1) * a.stride * a.word_size = (k - 1) * s
  BY <1>1, <1>2
<1>6. /\ Batches(a) = [k \in 1 .. a.y |-> <<a.start + (k - 1) * s, a.start + (k - 1) * s + w>>]
      /\ last_element(a) = a.start + (a.y - 1) * s + w
  BY <1>1, <1>3, <1>5 DEF Batches, last_element
<1>7. \A k \in 1 .. a.y : (k - 1) * s \in Nat
  BY <1>1, <1>2
<1> DEFINE o == [k \in 1 .. a.y |-> (k - 1) * s]
<1>8. o \in [1 .. a.y -> Nat] /\ \A k \in 1 .. a.y : o[k] = (k - 1) * s
  BY <1>7
<1>9. \A k, m \in 1 .. a.y : k < m => o[k] + s <= o[m]
  <2>1. SUFFICES ASSUME NEW k \in 1 .. a.y, NEW m \in 1 .. a.y, k < m
                 PROVE  (k - 1) * s + s <= (m - 1) * s
    BY <1>8
  <2>2. k - 1 \in Nat /\ m - 1 \in Nat /\ k - 1 < m - 1
    BY <1>1, <2>1
  <2> QED
    BY <2>2, Multiples
<1>10. /\ DOMAIN Batches(a) = 1 .. a.y
       /\ \A k \in 1 .. a.y : Batches(a)[k] = <<a.start + o[k], a.start + o[k] + w>>
  BY <1>6, <1>8
<1>11. \A k \in 1 .. a.y : o[k] <= (a.y - 1) * s
  <2>1. SUFFICES ASSUME NEW k \in 1 .. a.y PROVE o[k] <= o[a.y]
    BY <1>1, <1>8
  <2>2. CASE k = a.y
    BY <1>8, <2>2
  <2>3. CASE k < a.y
    BY <1>1, <1>2, <1>8, <1>9, <2>3
  <2> QED
    BY <1>1, <2>2, <2>3
<1>12. (a.y - 1) * s \in Int /\ last_element(a) \in Int
  BY <1>1, <1>2, <1>3, <1>6
<1> HIDE DEF o
<1>13. \A k \in 1 .. a.y : Batches(a)[k] \in Pairs
  <2>1. SUFFICES ASSUME NEW k \in 1 .. a.y PROVE Batches(a)[k] \in Pairs
    OBVIOUS
  <2>2. o[k] \in Nat /\ a.start + o[k] \in Int /\ a.start + o[k] + w \in Int
    BY <1>1, <1>3, <1>8
  <2>3. <<a.start + o[k], a.start + o[k] + w>> \in Pairs
    BY ONLY <2>2 DEF Pairs
  <2>4. Batches(a)[k] = <<a.start + o[k], a.start + o[k] + w>>
    BY <1>10
  <2> QED
    BY ONLY <2>3, <2>4
<1>14. Batches(a) \in Seq(Pairs) /\ Len(Batches(a)) = a.y
  <2>1. Batches(a) \in [1 .. a.y -> Pairs]
    BY <1>6, <1>10, <1>13
  <2> QED
    BY ONLY <1>1, <2>1, FunctionsAreSequences
<1>15. \A k \in 1 .. a.y : Batches(a)[k][1] = a.start + o[k] /\ Batches(a)[k][2] = a.start + o[k] + w
  BY <1>10
<1>16. Ordered(Batches(a))
  <2>1. \A k, m \in 1 .. a.y : k < m => a.start + o[k] + w <= a.start + o[m]
    <3>1. SUFFICES ASSUME NEW k \in 1 .. a.y, NEW m \in 1 .. a.y, k < m
                   PROVE  a.start + o[k] + w <= a.start + o[m]
      OBVIOUS
    <3>2. o[k] \in Nat /\ o[m] \in Nat /\ o[k] + s <= o[m]
      BY <1>8, <1>9, <3>1
    <3> QED
      BY ONLY <1>1, <1>4, <3>2
  <2>2. \A k \in 1 .. a.y : a.start + o[k] < a.start + o[k] + w
    BY <1>1, <1>3, <1>8
  <2> QED
    BY ONLY <1>10, <1>15, <2>1, <2>2 DEF Ordered
<1>17. \A k \in 1 .. a.y : a.start <= a.start + o[k] /\ a.start + o[k] + w <= last_element(a)
  <2>1. SUFFICES ASSUME NEW k \in 1 .. a.y
                 PROVE  a.start <= a.start + o[k] /\ a.start + o[k] + w <= last_element(a)
    OBVIOUS
  <2>2. PICK e \in Int : e = (a.y - 1) * s
    BY <1>12
  <2>3. o[k] \in Nat /\ o[k] <= e /\ last_element(a) = a.start + e + w
    BY <1>6, <1>8, <1>11, <2>2
  <2> QED
    BY ONLY <1>1, <1>3, <2>2, <2>3
<1> QED
  BY <1>1, <1>10, <1>12, <1>14, <1>15, <1>16, <1>17

\* A point of a sequence of intervals is inside one of them.
LEMMA PointsInside ==
    ASSUME NEW s \in Seq(Pairs)
    PROVE  /\ \A x \in Points(s) : x \in Int /\ \E k \in DOMAIN s : Inside(s[k], x)
           /\ \A x \in Int : (\E k \in DOMAIN s : Inside(s[k], x)) => x \in Points(s)
<1>1. \A k \in DOMAIN s : s[k] \in Pairs
  OBVIOUS
<1>2. \A k \in DOMAIN s : s[k][1] \in Int /\ s[k][2] \in Int
  BY <1>1 DEF Pairs
<1> QED
  BY <1>2 DEF Points, Inside

\* Replacing entry h + 1 of s by the entries of p.
Splice(s, p, h) == SubSeq(s, 1, h) \o p \o SubSeq(s, h + 2, Len(s))

Spliced(t, s, p, h, n, l) ==
    /\ DOMAIN t = 1 .. n - 1 + l
    /\ \A m \in 1 .. n - 1 + l :
          t[m] = IF m <= h THEN s[m] ELSE IF m <= h + l THEN p[m - h] ELSE s[m - l + 1]

LEMMA SpliceEntries ==
    ASSUME NEW T, NEW s \in Seq(T), NEW p \in Seq(T),
           NEW n \in Nat, n = Len(s), NEW l \in Nat, l = Len(p), NEW h \in 0 .. n - 1
    PROVE  Splice(s, p, h) \in Seq(T) /\ Spliced(Splice(s, p, h), s, p, h, n, l)
<1> DEFINE u == SubSeq(s, 1, h)
           v == SubSeq(s, h + 2, Len(s))
<1>1. n \in Nat /\ n = Len(s) /\ h \in 0 .. n - 1
  OBVIOUS
<1>2. \A k \in 1 .. n : s[k] \in T
  BY <1>1
<1>3. /\ u \in Seq(T) /\ Len(u) = IF 1 <= h THEN h - 1 + 1 ELSE 0
      /\ \A k \in 1 .. h - 1 + 1 : u[k] = s[1 + k - 1]
  <2>1. \A k \in 1 .. h : s[k] \in T
    BY <1>1, <1>2
  <2> QED
    BY ONLY <2>1, SubSeqProperties, h \in Int, 1 \in Int
<1>4. /\ v \in Seq(T) /\ Len(v) = IF h + 2 <= n THEN n - (h + 2) + 1 ELSE 0
      /\ \A k \in 1 .. n - (h + 2) + 1 : v[k] = s[h + 2 + k - 1]
  <2>1. \A k \in h + 2 .. n : s[k] \in T
    BY <1>1, <1>2
  <2>2. PICK g \in Int : g = h + 2
    BY <1>1
  <2>3. n \in Int /\ \A k \in g .. n : s[k] \in T
    BY <2>1, <2>2
  <2> DEFINE w == SubSeq(s, g, n)
  <2>4. /\ w \in Seq(T) /\ Len(w) = IF g <= n THEN n - g + 1 ELSE 0
        /\ \A k \in 1 .. n - g + 1 : w[k] = s[g + k - 1]
    BY ONLY <2>2, <2>3, SubSeqProperties
  <2>5. v = w
    BY <1>1, <2>2
  <2> HIDE DEF v, w
  <2> QED
    BY ONLY <2>2, <2>4, <2>5
<1> HIDE DEF u, v
<1>5. Len(u) = h /\ \A k \in 1 .. h : u[k] = s[k]
  BY <1>1, <1>3
<1>6. Len(v) = n - h - 1 /\ \A k \in 1 .. n - h - 1 : v[k] = s[h + 1 + k]
  <2>1. Len(v) = n - h - 1
    BY <1>1, <1>4
  <2>2. ASSUME NEW k \in 1 .. n - h - 1 PROVE v[k] = s[h + 1 + k]
    <3>1. k \in 1 .. n - (h + 2) + 1 /\ h + 2 + k - 1 = h + 1 + k
      BY <1>1
    <3> QED
      BY <1>4, <3>1
  <2> QED
    BY <2>1, <2>2
<1>7. l \in Nat /\ l = Len(p)
  OBVIOUS
<1>8. /\ u \o p \in Seq(T) /\ Len(u \o p) = h + l
      /\ \A k \in 1 .. h + l : (u \o p)[k] = IF k <= h THEN s[k] ELSE p[k - h]
  <2>1. /\ u \o p \in Seq(T) /\ Len(u \o p) = Len(u) + Len(p)
        /\ \A k \in 1 .. Len(u) + Len(p) :
              (u \o p)[k] = IF k <= Len(u) THEN u[k] ELSE p[k - Len(u)]
    BY ONLY <1>3, p \in Seq(T), ConcatProperties
  <2>2. ASSUME NEW k \in 1 .. h + l PROVE (u \o p)[k] = IF k <= h THEN s[k] ELSE p[k - h]
    <3>1. (u \o p)[k] = IF k <= h THEN u[k] ELSE p[k - h]
      BY <1>5, <1>7, <2>1
    <3>2. k <= h => k \in 1 .. h
      BY <1>1
    <3> QED
      BY <1>5, <3>1, <3>2
  <2> QED
    BY <1>5, <1>7, <2>1, <2>2
<1> DEFINE x == u \o p
<1> HIDE DEF x
<1>9. /\ x \o v \in Seq(T) /\ Len(x \o v) = n - 1 + l
      /\ \A m \in 1 .. n - 1 + l : (x \o v)[m] = IF m <= h + l THEN x[m] ELSE v[m - (h + l)]
  <2>1. x \in Seq(T) /\ Len(x) = h + l
    BY <1>8 DEF x
  <2>2. /\ x \o v \in Seq(T) /\ Len(x \o v) = Len(x) + Len(v)
        /\ \A m \in 1 .. Len(x) + Len(v) :
              (x \o v)[m] = IF m <= Len(x) THEN x[m] ELSE v[m - Len(x)]
    BY ONLY <1>4, <2>1, ConcatProperties
  <2>3. Len(x) + Len(v) = n - 1 + l
    BY <1>1, <1>6, <1>7, <2>1
  <2> QED
    BY ONLY <2>1, <2>2, <2>3
<1>10. ASSUME NEW m \in 1 .. n - 1 + l
       PROVE  (x \o v)[m] = IF m <= h THEN s[m] ELSE IF m <= h + l THEN p[m - h] ELSE s[m - l + 1]
  <2>1. CASE m <= h + l
    <3>1. m \in 1 .. h + l
      BY <1>1, <1>7, <2>1
    <3>2. (x \o v)[m] = x[m]
      BY <1>9, <2>1
    <3> QED
      BY <1>8, <2>1, <3>1, <3>2 DEF x
  <2>2. CASE ~ m <= h + l
    <3>1. m - (h + l) \in 1 .. n - h - 1 /\ h + 1 + (m - (h + l)) = m - l + 1 /\ ~ m <= h
      BY <1>1, <1>7, <2>2
    <3> QED
      BY <1>6, <1>9, <2>2, <3>1
  <2> QED
    BY <2>1, <2>2
<1>11. Splice(s, p, h) = x \o v
  BY DEF x, u, v, Splice
<1>12. DOMAIN (x \o v) = 1 .. n - 1 + l
  BY <1>9, LenProperties
<1> QED
  BY <1>9, <1>10, <1>11, <1>12 DEF Spliced

-----------------------------------------------------------------------------
(* The cursors. *)

LEMMA AtCursors ==
    ASSUME AddressesOK, IInv, More
    PROVE  /\ i \in 0 .. Len(batches) - 1 /\ Len(batches) \in Nat
           /\ DOMAIN batches = 1 .. Len(batches)
           /\ i + 1 \in DOMAIN batches /\ B1 = batches[i + 1]
           /\ j + 1 \in DOMAIN Rest /\ B2 = Rest[j + 1] /\ Rest \in Seq(Pairs) /\ Ordered(Rest)
           /\ B1[1] \in Int /\ B1[2] \in Int /\ B1[1] < B1[2]
           /\ B2[1] \in Int /\ B2[2] \in Int /\ B2[1] < B2[2]
           /\ L \in Int /\ B1[1] <= L /\ B2[1] <= L /\ (L = B1[1] \/ L = B2[1])
           /\ R \in Int /\ R <= B1[2] /\ R <= B2[2] /\ (R = B1[2] \/ R = B2[2])
<1>1. /\ Rest \in Seq(Pairs) /\ Ordered(Rest) /\ DOMAIN Rest = 1 .. Len(Rest) /\ Len(Rest) \in Nat
  BY RowsOrdered DEF IInv, Typed, Rest
<1>2. /\ Len(batches) \in Nat /\ DOMAIN batches = 1 .. Len(batches)
      /\ \A k \in DOMAIN batches : batches[k] \in Pairs
  BY DEF IInv, Typed
<1>3. i \in 0 .. Len(batches) - 1 /\ j \in 0 .. Len(Rest) - 1
  BY <1>1, <1>2 DEF IInv, Typed, More, Rest
<1>4. i + 1 \in DOMAIN batches /\ j + 1 \in DOMAIN Rest
  BY <1>1, <1>2, <1>3
<1>5. B1 = batches[i + 1] /\ B2 = Rest[j + 1]
  BY DEF B1, B2, Rest
<1>6. B1 \in Pairs /\ B2 \in Pairs
  BY <1>1, <1>2, <1>4, <1>5
<1>7. B1[1] \in Int /\ B1[2] \in Int /\ B2[1] \in Int /\ B2[2] \in Int
  BY <1>6 DEF Pairs
<1>8. B1[1] < B1[2] /\ B2[1] < B2[2]
  BY <1>1, <1>4, <1>5 DEF IInv, Ordered
<1>9. /\ L \in Int /\ B1[1] <= L /\ B2[1] <= L /\ (L = B1[1] \/ L = B2[1])
      /\ R \in Int /\ R <= B1[2] /\ R <= B2[2] /\ (R = B1[2] \/ R = B2[2])
  BY ONLY <1>7 DEF L, R, Larger, Smaller
<1> QED
  BY <1>1, <1>2, <1>3, <1>4, <1>5, <1>7, <1>8, <1>9

\* What has been found ends before anything that may still be found.
LEMMA FoundBefore ==
    ASSUME AddressesOK, IInv, More, NEW k \in DOMAIN found
    PROVE  found[k][1] \in Int /\ found[k][2] \in Int /\ found[k][2] <= L
<1>1. found[k][1] \in Int /\ found[k][2] \in Int
  <2>1. found[k] \in Pairs
    BY DEF IInv, Typed
  <2> QED
    BY <2>1 DEF Pairs
<1>2. j + 1 > j /\ i + 1 > i
  BY DEF IInv, Typed
<1>3. found[k][2] <= B2[1] \/ found[k][2] <= B1[1]
  BY <1>2, AtCursors DEF IInv, Frontier
<1> QED
  BY <1>1, <1>3, AtCursors

\* Cutting the intersection out of the interval at the cursor, and leaving
\* behind the one of the two that ends first.
LEMMA CutStep ==
    ASSUME AddressesOK, IInv, Scan, L < R, NEW p \in Seq(Pairs), NEW c \in {i - 1, i},
           Ordered(p),
           \A q \in DOMAIN p : /\ B1[1] <= p[q][1] /\ p[q][2] <= B1[2]
                              /\ Apart(p[q], <<L, R>>),
           \A x \in Int : Inside(B1, x) =>
                 Inside(<<L, R>>, x) \/ \E q \in DOMAIN p : Inside(p[q], x),
           B1[2] < B2[2] => c + 1 = i + Len(p),
           Cut(p), Advance(c)
    PROVE  IInv'
<1> DEFINE b1 == B1
           b2 == B2
           lo == L
           hi == R
           t  == Splice(batches, p, i)
<1>1. /\ this' = this /\ other' = other /\ stage' = stage /\ stage = "scan" /\ More
      /\ batches' = t /\ found' = Append(found, <<lo, hi>>) /\ lo < hi
  BY DEF Scan, Cut, Splice
<1>2. /\ i \in 0 .. Len(batches) - 1 /\ Len(batches) \in Nat
      /\ DOMAIN batches = 1 .. Len(batches)
      /\ i + 1 \in DOMAIN batches /\ b1 = batches[i + 1]
      /\ j + 1 \in DOMAIN Rest /\ b2 = Rest[j + 1] /\ Rest \in Seq(Pairs) /\ Ordered(Rest)
      /\ b1[1] \in Int /\ b1[2] \in Int /\ b1[1] < b1[2]
      /\ b2[1] \in Int /\ b2[2] \in Int /\ b2[1] < b2[2]
      /\ lo \in Int /\ b1[1] <= lo /\ b2[1] <= lo /\ (lo = b1[1] \/ lo = b2[1])
      /\ hi \in Int /\ hi <= b1[2] /\ hi <= b2[2] /\ (hi = b1[2] \/ hi = b2[2])
  BY <1>1, AtCursors
<1>3. PICK l \in Nat : l = Len(p) /\ DOMAIN p = 1 .. l
  BY LenProperties
<1>n. PICK z \in Nat : z = Len(batches) /\ i \in 0 .. z - 1 /\ DOMAIN batches = 1 .. z
  BY <1>2
<1>4. /\ t \in Seq(Pairs) /\ DOMAIN t = 1 .. z - 1 + l
      /\ \A m \in 1 .. z - 1 + l :
            t[m] = IF m <= i THEN batches[m]
                   ELSE IF m <= i + l THEN p[m - i] ELSE batches[m - l + 1]
  <2>1. batches \in Seq(Pairs)
    BY DEF IInv, Typed
  <2>2. l \in Nat /\ z \in Nat /\ l = Len(p) /\ z = Len(batches) /\ i \in 0 .. z - 1
    BY ONLY <1>3, <1>n
  <2>3. t \in Seq(Pairs) /\ Spliced(t, batches, p, i, z, l)
    BY ONLY <2>1, <2>2, p \in Seq(Pairs), SpliceEntries
  <2> QED
    BY ONLY <2>3 DEF Spliced
<1> HIDE DEF t, b1, b2, lo, hi
\* The three parts of the new sequence.
<1>5. ASSUME NEW m \in DOMAIN t, m <= i
      PROVE  /\ m \in DOMAIN batches /\ t[m] = batches[m]
             /\ t[m][2] <= b1[1]
  <2>1. m \in DOMAIN batches /\ t[m] = batches[m] /\ m < i + 1
    BY <1>n, <1>3, <1>4, <1>5
  <2> QED
    BY <1>2, <2>1 DEF IInv, Ordered
<1>6. ASSUME NEW m \in DOMAIN t, m > i, m <= i + l
      PROVE  /\ m - i \in DOMAIN p /\ t[m] = p[m - i]
             /\ b1[1] <= t[m][1] /\ t[m][2] <= b1[2] /\ Apart(t[m], <<lo, hi>>)
  <2>1. m - i \in DOMAIN p /\ t[m] = p[m - i]
    <3>1. m \in 1 .. z - 1 + l /\ m - i \in 1 .. l /\ ~ m <= i
      BY ONLY <1>n, <1>3, <1>4, <1>6
    <3> QED
      BY ONLY <1>3, <1>4, <1>6, <3>1
  <2> QED
    BY <2>1 DEF b1, lo, hi
<1>7. ASSUME NEW m \in DOMAIN t, m > i + l
      PROVE  /\ m - l + 1 \in DOMAIN batches /\ m - l + 1 > i + 1
             /\ t[m] = batches[m - l + 1] /\ b1[2] <= t[m][1]
  <2>1. /\ m - l + 1 \in DOMAIN batches /\ m - l + 1 > i + 1
        /\ t[m] = batches[m - l + 1]
    <3>1. m \in 1 .. z - 1 + l /\ ~ m <= i /\ ~ m <= i + l
      BY ONLY <1>n, <1>3, <1>4, <1>7
    <3>2. m - l + 1 \in 1 .. z /\ m - l + 1 > i + 1
      BY ONLY <1>n, <1>3, <1>4, <1>7
    <3> QED
      BY ONLY <1>n, <1>4, <3>1, <3>2
  <2> QED
    BY <1>2, <2>1 DEF IInv, Ordered
<1>8. \A m \in DOMAIN t : t[m][1] \in Int /\ t[m][2] \in Int
  <2>1. \A m \in DOMAIN t : t[m] \in Pairs
    BY <1>4
  <2> QED
    BY <2>1 DEF Pairs
<1>9. \A m \in DOMAIN t : m \in Int /\ (m <= i \/ (m > i /\ m <= i + l) \/ m > i + l)
  BY <1>n, <1>3, <1>4
<1>10. Ordered(t)
  <2>1. ASSUME NEW m \in DOMAIN t PROVE t[m][1] < t[m][2]
    <3>1. CASE m <= i
      BY <1>5, <3>1 DEF IInv, Ordered
    <3>2. CASE m > i /\ m <= i + l
      BY <1>6, <3>2 DEF Ordered
    <3>3. CASE m > i + l
      BY <1>7, <3>3 DEF IInv, Ordered
    <3> QED
      BY <1>9, <3>1, <3>2, <3>3
  <2>2. ASSUME NEW m \in DOMAIN t, NEW n \in DOMAIN t, m < n PROVE t[m][2] <= t[n][1]
    <3>1. CASE n <= i
      <4>1. m <= i
        BY <1>2, <1>9, <2>2, <3>1
      <4> QED
        BY <1>5, <2>2, <3>1, <4>1 DEF IInv, Ordered
    <3>2. CASE m > i /\ n <= i + l
      <4>1. n > i /\ m <= i + l /\ m - i < n - i
        BY <1>2, <1>3, <1>9, <2>2, <3>2
      <4> QED
        BY <1>6, <2>2, <3>2, <4>1 DEF Ordered
    <3>3. CASE m > i + l
      <4>1. n > i + l /\ m - l + 1 < n - l + 1
        BY <1>2, <1>3, <1>9, <2>2, <3>3
      <4> QED
        BY <1>7, <2>2, <3>3, <4>1 DEF IInv, Ordered
    <3>4. CASE m <= i /\ n > i /\ n <= i + l
      <4>1. t[m][2] <= b1[1] /\ b1[1] <= t[n][1]
        BY ONLY <1>5, <1>6, <2>2, <3>4
      <4> QED
        BY ONLY <1>2, <1>8, <2>2, <4>1
    <3>5. CASE m <= i /\ n > i + l
      <4>1. t[m][2] <= b1[1] /\ b1[2] <= t[n][1]
        BY ONLY <1>5, <1>7, <2>2, <3>5
      <4>2. t[m][2] \in Int /\ t[n][1] \in Int
        BY ONLY <1>8, <2>2
      <4> QED
        BY ONLY <1>2, <4>1, <4>2
    <3>6. CASE m > i /\ m <= i + l /\ n > i + l
      <4>1. t[m][2] <= b1[2] /\ b1[2] <= t[n][1]
        BY ONLY <1>6, <1>7, <2>2, <3>6
      <4> QED
        BY ONLY <1>2, <1>8, <2>2, <4>1
    <3> QED
      BY <1>9, <3>1, <3>2, <3>3, <3>4, <3>5, <3>6
  <2> QED
    BY <2>1, <2>2 DEF Ordered
\* What has been found, with the cut at its end.
<1>11. PICK e \in Nat : e = Len(found) /\ DOMAIN found = 1 .. e
  BY LenProperties DEF IInv, Typed
<1> DEFINE f == Append(found, <<lo, hi>>)
<1>12. /\ f \in Seq(Pairs) /\ DOMAIN f = 1 .. e + 1
       /\ \A k \in 1 .. e : f[k] = found[k]
       /\ f[e + 1] = <<lo, hi>>
  <2>1. found \in Seq(Pairs) /\ <<lo, hi>> \in Pairs
    BY <1>2 DEF IInv, Typed, Pairs
  <2> DEFINE cut == <<lo, hi>>
  <2> HIDE DEF cut
  <2>2. /\ Append(found, cut) \in Seq(Pairs) /\ Len(Append(found, cut)) = Len(found) + 1
        /\ \A k \in 1 .. Len(found) : Append(found, cut)[k] = found[k]
        /\ Append(found, cut)[Len(found) + 1] = cut
    BY <2>1, AppendProperties DEF cut
  <2>3. f = Append(found, cut)
    BY DEF cut
  <2> HIDE DEF f
  <2>4. DOMAIN f = 1 .. Len(f)
    BY <2>2, <2>3, LenProperties
  <2> QED
    BY <1>11, <2>2, <2>3, <2>4 DEF cut
<1> HIDE DEF f
<1>13. ASSUME NEW k \in DOMAIN f
       PROVE  \/ k \in DOMAIN found /\ k < e + 1 /\ f[k] = found[k] /\ f[k][2] \in Int /\ f[k][2] <= lo
              \/ k = e + 1 /\ f[k] = <<lo, hi>>
  <2>1. k \in 1 .. e \/ k = e + 1
    BY <1>11, <1>12, <1>13
  <2>2. CASE k \in 1 .. e
    <3>1. k \in DOMAIN found /\ k < e + 1 /\ f[k] = found[k]
      BY <1>11, <1>12, <2>2
    <3> QED
      BY <1>1, <3>1, FoundBefore DEF lo
  <2> QED
    BY <1>12, <2>1, <2>2
<1>14. Ordered(f)
  <2>1. ASSUME NEW k \in DOMAIN f PROVE f[k][1] < f[k][2]
    BY <1>1, <1>13 DEF IInv, Ordered, lo, hi
  <2>2. ASSUME NEW k \in DOMAIN f, NEW m \in DOMAIN f, k < m PROVE f[k][2] <= f[m][1]
    <3>1. k \in DOMAIN found /\ f[k] = found[k] /\ f[k][2] <= lo
      BY <1>11, <1>12, <1>13, <2>2
    <3>2. CASE m = e + 1 /\ f[m] = <<lo, hi>>
      BY <3>1, <3>2
    <3>3. CASE m \in DOMAIN found /\ f[m] = found[m]
      BY <2>2, <3>1, <3>3 DEF IInv, Ordered
    <3> QED
      BY <1>13, <3>2, <3>3
  <2> QED
    BY <2>1, <2>2 DEF Ordered
<1>15. \A k \in DOMAIN f : f[k][2] \in Int /\ f[k][2] <= hi
  BY <1>1, <1>2, <1>13 DEF lo, hi
\* The bytes.
<1>16. ASSUME NEW x \in Int, NEW m \in DOMAIN t, Inside(t[m], x)
       PROVE  x \in Points(batches) /\ ~ Inside(<<lo, hi>>, x)
  <2>1. batches \in Seq(Pairs)
    BY DEF IInv, Typed
  <2>2. CASE m <= i
    <3>1. m \in DOMAIN batches /\ t[m] = batches[m] /\ t[m][2] <= b1[1]
      BY <1>5, <2>2
    <3>2. x \in Points(batches)
      BY ONLY <1>16, <2>1, <3>1, PointsInside
    <3> QED
      BY <1>2, <1>8, <1>16, <3>1, <3>2 DEF Inside
  <2>3. CASE m > i /\ m <= i + l
    <3>1. b1[1] <= t[m][1] /\ t[m][2] <= b1[2] /\ Apart(t[m], <<lo, hi>>)
      BY <1>6, <2>3
    <3>2. Inside(b1, x)
      BY <1>2, <1>8, <1>16, <3>1 DEF Inside
    <3>3. x \in Points(batches)
      BY <1>2, <2>1, <3>2, PointsInside
    <3> QED
      BY <1>2, <1>8, <1>16, <3>1, <3>3 DEF Inside, Apart
  <2>4. CASE m > i + l
    <3>1. m - l + 1 \in DOMAIN batches /\ t[m] = batches[m - l + 1] /\ b1[2] <= t[m][1]
      BY <1>7, <2>4
    <3>2. x \in Points(batches)
      BY ONLY <1>16, <2>1, <3>1, PointsInside
    <3> QED
      BY <1>2, <1>8, <1>16, <3>1, <3>2 DEF Inside
  <2> QED
    BY <1>9, <2>2, <2>3, <2>4
<1>17. ASSUME NEW x \in Int, NEW m \in DOMAIN batches, Inside(batches[m], x)
       PROVE  (\E n \in DOMAIN t : Inside(t[n], x)) \/ Inside(<<lo, hi>>, x)
  <2>1. m \in 1 .. z
    BY <1>n
  <2>2. CASE m <= i
    <3>1. m \in 1 .. z - 1 + l
      BY <1>n, <1>3, <2>1, <2>2
    <3>2. m \in DOMAIN t /\ t[m] = batches[m]
      BY <1>4, <2>2, <3>1
    <3> QED
      BY <1>17, <3>2
  <2>3. CASE m = i + 1
    <3>1. Inside(<<lo, hi>>, x) \/ \E q \in DOMAIN p : Inside(p[q], x)
      BY <1>2, <1>17, <2>3 DEF b1, lo, hi
    <3>2. ASSUME NEW q \in DOMAIN p, Inside(p[q], x) PROVE \E n \in DOMAIN t : Inside(t[n], x)
      <4>1. i + q \in 1 .. z - 1 + l /\ ~ i + q <= i /\ i + q <= i + l /\ (i + q) - i = q
        BY ONLY <1>n, <1>3, <3>2
      <4>2. i + q \in DOMAIN t /\ t[i + q] = p[q]
        BY ONLY <1>4, <4>1
      <4> QED
        BY <3>2, <4>2
    <3> QED
      BY <3>1, <3>2
  <2>4. CASE m > i + 1
    <3>1. /\ m + l - 1 \in 1 .. z - 1 + l /\ ~ m + l - 1 <= i /\ ~ m + l - 1 <= i + l
          /\ (m + l - 1) - l + 1 = m
      BY ONLY <1>n, <1>3, <2>1, <2>4
    <3>2. m + l - 1 \in DOMAIN t /\ t[m + l - 1] = batches[m]
      BY ONLY <1>4, <3>1
    <3> QED
      BY <1>17, <3>2
  <2>5. m <= i \/ m = i + 1 \/ m > i + 1
    BY ONLY <1>n, <2>1
  <2> QED
    BY ONLY <2>2, <2>3, <2>4, <2>5
<1>18. ASSUME NEW x \in Int, Inside(<<lo, hi>>, x) PROVE Inside(b1, x) /\ Inside(b2, x)
  <2>1. lo <= x /\ x < hi
    BY <1>18 DEF Inside
  <2>2. b1[1] <= x /\ x < b1[2] /\ b2[1] <= x /\ x < b2[2]
    BY ONLY <1>2, <2>1, x \in Int
  <2> QED
    BY <2>2 DEF Inside
<1>19. Points(t) \cup Points(f) = Mine
  <2>1. Points(batches) \cup Points(found) = Mine
    BY DEF IInv, Whole
  <2>2. batches \in Seq(Pairs) /\ found \in Seq(Pairs)
    BY DEF IInv, Typed
  <2>3. ASSUME NEW x \in Points(t) PROVE x \in Mine
    BY <1>4, <1>16, <2>1, PointsInside
  <2>4. ASSUME NEW x \in Points(f) PROVE x \in Mine
    <3>1. PICK k \in DOMAIN f : Inside(f[k], x) /\ x \in Int
      BY <1>12, <2>4, PointsInside
    <3>2. CASE k \in DOMAIN found /\ f[k] = found[k]
      BY <2>1, <2>2, <3>1, <3>2, PointsInside
    <3>3. CASE f[k] = <<lo, hi>>
      BY <1>2, <1>18, <2>1, <2>2, <3>1, <3>3, PointsInside
    <3> QED
      BY <1>13, <3>2, <3>3
  <2>5. ASSUME NEW x \in Points(batches) PROVE x \in Points(t) \cup Points(f)
    <3>1. x \in Int /\ \E m \in DOMAIN batches : Inside(batches[m], x)
      BY <2>2, PointsInside
    <3>2. (\E n \in DOMAIN t : Inside(t[n], x)) \/ Inside(<<lo, hi>>, x)
      BY <1>17, <3>1
    <3>3. e + 1 \in DOMAIN f /\ f[e + 1] = <<lo, hi>>
      BY <1>11, <1>12
    <3> QED
      BY <1>4, <1>12, <3>1, <3>2, <3>3, PointsInside
  <2>6. ASSUME NEW x \in Points(found) PROVE x \in Points(f)
    <3>1. PICK k \in DOMAIN found : Inside(found[k], x) /\ x \in Int
      BY <2>2, PointsInside
    <3>2. k \in DOMAIN f /\ f[k] = found[k]
      BY <1>11, <1>12
    <3> QED
      BY <1>12, <3>1, <3>2, PointsInside
  <2> QED
    BY <2>1, <2>3, <2>4, <2>5, <2>6
<1>20. Points(t) \cap Points(f) = {}
  <2>1. SUFFICES ASSUME NEW x \in Points(t), x \in Points(f) PROVE FALSE
    OBVIOUS
  <2>2. x \in Int /\ x \in Points(batches) /\ ~ Inside(<<lo, hi>>, x)
    BY <1>4, <1>16, <2>1, PointsInside
  <2>3. PICK k \in DOMAIN f : Inside(f[k], x)
    BY <1>12, <2>1, PointsInside
  <2>4. k \in DOMAIN found /\ f[k] = found[k]
    BY <1>13, <2>2, <2>3
  <2> QED
    BY <2>2, <2>3, <2>4, PointsInside DEF IInv, Typed, Whole
<1>21. Points(f) \subseteq Theirs
  <2>1. SUFFICES ASSUME NEW x \in Points(f) PROVE x \in Theirs
    OBVIOUS
  <2>2. PICK k \in DOMAIN f : Inside(f[k], x) /\ x \in Int
    BY <1>12, <2>1, PointsInside
  <2>3. CASE k \in DOMAIN found /\ f[k] = found[k]
    BY <2>2, <2>3, PointsInside DEF IInv, Typed, Whole
  <2>4. CASE f[k] = <<lo, hi>>
    BY <1>2, <1>18, <2>2, <2>4, PointsInside DEF Theirs, Rest
  <2> QED
    BY <1>13, <2>3, <2>4
\* The cursors.
<1>22. \/ b1[2] < b2[2] /\ i' = i + l /\ j' = j
       \/ ~ b1[2] < b2[2] /\ i' = c /\ j' = j + 1
  BY <1>3 DEF Advance, b1, b2
<1>23. j \in Nat /\ c \in Int /\ c <= i /\ c >= -1
  BY <1>2 DEF IInv, Typed
<1>24. \A n \in DOMAIN Rest : n \in Int /\ Rest[n][1] \in Int /\ Rest[n][2] \in Int
  <2>1. \A n \in DOMAIN Rest : n \in Int /\ Rest[n] \in Pairs
    BY <1>2
  <2> QED
    BY <2>1 DEF Pairs
<1>25. ASSUME NEW n \in DOMAIN Rest, n > j + 1 PROVE b2[2] <= Rest[n][1]
  <2>1. j + 1 < n
    BY <1>23, <1>24, <1>25
  <2> QED
    BY <1>2, <2>1 DEF Ordered
<1>26. \/ \A k \in DOMAIN f, n \in DOMAIN Rest : n > j' => f[k][2] <= Rest[n][1]
       \/ \A k \in DOMAIN f, m \in DOMAIN t : m > i' => f[k][2] <= t[m][1]
  <2>1. CASE b1[2] < b2[2] /\ i' = i + l /\ j' = j
    <3>1. ASSUME NEW k \in DOMAIN f, NEW m \in DOMAIN t, m > i' PROVE f[k][2] <= t[m][1]
      <4>1. b1[2] <= t[m][1]
        BY <1>7, <2>1, <3>1
      <4> QED
        BY <1>2, <1>8, <1>15, <4>1
    <3> QED
      BY <3>1
  <2>2. CASE ~ b1[2] < b2[2] /\ i' = c /\ j' = j + 1
    <3>1. ASSUME NEW k \in DOMAIN f, NEW n \in DOMAIN Rest, n > j' PROVE f[k][2] <= Rest[n][1]
      <4>1. b2[2] <= Rest[n][1]
        BY <1>25, <2>2, <3>1
      <4> QED
        BY <1>2, <1>15, <1>24, <4>1
    <3> QED
      BY <3>1
  <2> QED
    BY <1>22, <2>1, <2>2
\* What is left of the interval no longer meets the other's.
<1>27. ASSUME NEW m \in DOMAIN t, m > i, m <= i + l PROVE Apart(t[m], b2)
  <2>1. b1[1] <= t[m][1] /\ t[m][2] <= b1[2] /\ Apart(t[m], <<lo, hi>>)
    BY <1>6, <1>27
  <2>2. t[m][1] < t[m][2] /\ t[m][1] \in Int /\ t[m][2] \in Int
    BY <1>8, <1>10, <1>27 DEF Ordered
  <2>3. t[m][2] <= lo \/ hi <= t[m][1]
    BY <2>1 DEF Apart
  <2>4. t[m][2] <= b2[1] \/ b2[2] <= t[m][1]
    BY ONLY <1>2, <2>1, <2>2, <2>3
  <2> QED
    BY <2>4 DEF Apart
<1>28. \A m \in DOMAIN batches, n \in DOMAIN Rest : m <= i \/ n <= j => Apart(batches[m], Rest[n])
  BY <1>1, <1>2 DEF IInv, Behind
<1>29. ASSUME NEW m \in DOMAIN t, NEW n \in DOMAIN Rest, m <= i' \/ n <= j'
       PROVE  Apart(t[m], Rest[n])
  <2>n. /\ b1[1] \in Int /\ b1[2] \in Int /\ b2[2] \in Int
        /\ t[m][1] \in Int /\ t[m][2] \in Int /\ Rest[n][1] \in Int /\ Rest[n][2] \in Int
    BY <1>2, <1>8, <1>24
  <2>1. CASE m <= i
    BY <1>5, <1>28, <2>1
  <2>2. CASE m > i /\ m <= i + l
    <3>1. n <= j \/ n = j + 1 \/ n > j + 1
      BY <1>23, <1>24
    <3>2. CASE n <= j
      <4>1. Apart(b1, Rest[n]) /\ b1[1] <= t[m][1] /\ t[m][2] <= b1[2]
        BY <1>2, <1>6, <1>28, <2>2, <3>2
      <4>2. t[m][2] <= Rest[n][1] \/ Rest[n][2] <= t[m][1]
        BY ONLY <2>n, <4>1 DEF Apart
      <4> QED
        BY <4>2 DEF Apart
    <3>3. CASE n = j + 1
      BY <1>2, <1>27, <2>2, <3>3
    <3>4. CASE n > j + 1
      <4>1. b1[2] < b2[2]
        BY <1>2, <1>9, <1>22, <1>23, <1>24, <1>29, <2>2, <3>4
      <4>2. t[m][2] <= b1[2] /\ b2[2] <= Rest[n][1]
        BY <1>6, <1>25, <2>2, <3>4
      <4>3. t[m][2] <= Rest[n][1]
        BY ONLY <2>n, <4>1, <4>2
      <4> QED
        BY <4>3 DEF Apart
    <3> QED
      BY <3>1, <3>2, <3>3, <3>4
  <2>3. CASE m > i + l
    <3>1. /\ m - l + 1 \in DOMAIN batches /\ t[m] = batches[m - l + 1] /\ b1[2] <= t[m][1]
      BY <1>7, <2>3
    <3>2. ~ m <= i /\ ~ m <= i + l /\ ~ m <= c
      <4>1. m \in Int /\ i \in Int /\ l \in Nat
        BY <1>n, <1>3, <1>9
      <4> QED
        BY ONLY <1>23, <2>3, <4>1
    <3>3. n <= j \/ (n = j + 1 /\ b2[2] <= b1[2])
      BY <1>2, <1>22, <1>23, <1>24, <1>29, <3>2
    <3>4. CASE n <= j
      BY <1>28, <3>1, <3>4
    <3>5. CASE n = j + 1 /\ b2[2] <= b1[2]
      <4>1. b2[2] <= t[m][1]
        BY ONLY <2>n, <3>1, <3>5
      <4> QED
        BY <1>2, <3>5, <4>1 DEF Apart
    <3> QED
      BY <3>3, <3>4, <3>5
  <2> QED
    BY <1>9, <2>1, <2>2, <2>3
<1>30. Rest' = Rest /\ Mine' = Mine /\ Theirs' = Theirs
  BY <1>1 DEF Rest, Mine, Theirs
<1>31. batches' = t /\ found' = f
  BY <1>1 DEF f, lo, hi
<1>32. Typed' /\ Fresh' /\ ExcludedUnlessWrapped'
  <2>1. i' \in Int /\ i' >= -1 /\ j' \in Nat
    BY <1>2, <1>3, <1>22, <1>23
  <2>2. stage' = "scan"
    BY <1>1
  <2> QED
    BY <1>1, <1>4, <1>12, <1>31, <2>1, <2>2 DEF IInv, Typed, Fresh, ExcludedUnlessWrapped
<1>33. Ordered(batches)' /\ Ordered(found)' /\ Whole'
  <2>1. Points(batches)' = Points(t) /\ Points(found)' = Points(f)
    BY <1>31 DEF Points
  <2> QED
    BY <1>10, <1>14, <1>19, <1>20, <1>21, <1>30, <1>31, <2>1 DEF Whole, Ordered
<1>34. Frontier' /\ Behind'
  BY <1>26, <1>29, <1>30, <1>31 DEF Frontier, Behind
<1> QED
  BY <1>32, <1>33, <1>34 DEF IInv
-----------------------------------------------------------------------------
(* The operations. *)

LEMMA StartHolds == ASSUME AddressesOK, CutInit PROVE IInv
<1>1. this \in Addresses /\ other \in Addresses
  BY DEF CutInit
<1>2. batches \in Seq(Pairs) /\ Ordered(batches) /\ batches = Batches(this)
  BY <1>1, RowsOrdered DEF CutInit
<1>3. found \in Seq(Pairs) /\ DOMAIN found = {} /\ found = << >>
  BY DEF CutInit
<1>4. Points(found) = {} /\ Points(batches) = Mine
  BY <1>2, <1>3 DEF Points, Mine
<1>5. Ordered(found) /\ Whole /\ Frontier
  BY <1>3, <1>4 DEF Ordered, Whole, Frontier
<1>6. i = 0 /\ j = 0 /\ stage = "compare"
  BY DEF CutInit
<1>7. Typed /\ Fresh /\ Behind /\ ExcludedUnlessWrapped
  BY <1>1, <1>2, <1>3, <1>6 DEF Typed, Fresh, Behind, ExcludedUnlessWrapped
<1> QED
  BY <1>2, <1>5, <1>7 DEF IInv

\* A step that changes neither sequence keeps what only they say.
LEMMA SameSequences ==
    ASSUME IInv, UNCHANGED <<this, other, batches, found>>
    PROVE  Ordered(batches)' /\ Ordered(found)' /\ Whole' /\ Rest' = Rest
<1>1. Rest' = Rest /\ Mine' = Mine /\ Theirs' = Theirs
  BY DEF Rest, Mine, Theirs
<1>2. Points(batches)' = Points(batches) /\ Points(found)' = Points(found)
  BY DEF Points
<1> QED
  BY <1>1, <1>2 DEF IInv, Whole, Ordered

\* Hulls that are apart: the accesses have no byte in common.
LEMMA HullsApart ==
    ASSUME AddressesOK, IInv, batches = Batches(this),
           ~ Larger(this.start, other.start) < Smaller(last_element(this), last_element(other))
    PROVE  Points(batches) \cap Theirs = {}
<1>1. SUFFICES ASSUME NEW x \in Points(batches), x \in Theirs PROVE FALSE
  OBVIOUS
<1> DEFINE a == Batches(this)
<1>2. /\ a \in Seq(Pairs) /\ this.start \in Int /\ last_element(this) \in Int
      /\ \A k \in DOMAIN a : this.start <= a[k][1] /\ a[k][2] <= last_element(this)
  BY RowsOrdered DEF IInv, Typed
<1>3. /\ Rest \in Seq(Pairs) /\ other.start \in Int /\ last_element(other) \in Int
      /\ \A n \in DOMAIN Rest : other.start <= Rest[n][1] /\ Rest[n][2] <= last_element(other)
  BY RowsOrdered DEF IInv, Typed, Rest
<1> HIDE DEF a
<1>4. PICK k \in DOMAIN a : Inside(a[k], x) /\ x \in Int
  <2>1. x \in Points(a)
    BY DEF a
  <2> QED
    BY <1>2, <2>1, PointsInside
<1>5. PICK n \in DOMAIN Rest : Inside(Rest[n], x)
  <2>1. x \in Points(Rest)
    BY <1>1 DEF Theirs, Rest
  <2> QED
    BY <1>3, <2>1, PointsInside
<1>6. a[k] \in Pairs /\ Rest[n] \in Pairs
  BY <1>2, <1>3
<1>7. /\ a[k][1] \in Int /\ a[k][2] \in Int /\ Rest[n][1] \in Int /\ Rest[n][2] \in Int
      /\ x \in Int /\ a[k][1] <= x /\ x < a[k][2] /\ Rest[n][1] <= x /\ x < Rest[n][2]
  BY <1>4, <1>5, <1>6 DEF Pairs, Inside
<1>8. /\ this.start <= x /\ x < last_element(this)
      /\ other.start <= x /\ x < last_element(other)
  <2>1. /\ this.start <= a[k][1] /\ a[k][2] <= last_element(this)
        /\ other.start <= Rest[n][1] /\ Rest[n][2] <= last_element(other)
    BY <1>2, <1>3
  <2>2. /\ this.start \in Int /\ last_element(this) \in Int
        /\ other.start \in Int /\ last_element(other) \in Int
    BY <1>2, <1>3
  <2> QED
    BY ONLY <1>7, <2>1, <2>2
<1> QED
  BY <1>2, <1>3, <1>7, <1>8 DEF Larger, Smaller

LEMMA compareKeeps == ASSUME AddressesOK, IInv, compare PROVE IInv'
<1>1. /\ stage = "compare" /\ UNCHANGED <<this, other, batches, found, i, j>>
      /\ batches = Batches(this) /\ found = << >> /\ i = 0 /\ j = 0
  BY DEF compare, IInv, Fresh
<1>2. Ordered(batches)' /\ Ordered(found)' /\ Whole' /\ Rest' = Rest
  BY <1>1, SameSequences
<1>3. Rest \in Seq(Pairs)
  BY RowsOrdered DEF IInv, Typed, Rest
<1>4. Frontier' /\ Behind'
  <2>1. DOMAIN found' = {}
    BY <1>1
  <2>2. \A m \in DOMAIN batches, n \in DOMAIN Rest : ~ m <= 0 /\ ~ n <= 0
    BY <1>3 DEF IInv, Typed
  <2> QED
    BY <1>1, <1>2, <2>1, <2>2 DEF Frontier, Behind
<1>5. stage' \in {"scan", "done"}
  BY DEF compare
<1>6. Typed' /\ Fresh'
  BY <1>1, <1>5 DEF IInv, Typed, Fresh
<1>7. ExcludedUnlessWrapped'
  <2>1. CASE stage' = "scan"
    BY <2>1 DEF ExcludedUnlessWrapped
  <2>2. CASE stage' = "done"
    <3>1. ~ Larger(this.start, other.start) < Smaller(last_element(this), last_element(other))
      BY <2>2 DEF compare
    <3>2. Points(batches) \cap Theirs = {}
      BY <1>1, <3>1, HullsApart
    <3>3. Points(batches)' = Points(batches) /\ Theirs' = Theirs
      BY <1>1 DEF Points, Theirs
    <3> QED
      BY <3>2, <3>3 DEF ExcludedUnlessWrapped
  <2> QED
    BY <1>5, <2>1, <2>2
<1> QED
  BY <1>2, <1>4, <1>6, <1>7 DEF IInv

LEMMA sweepKeeps == ASSUME AddressesOK, IInv, sweep PROVE IInv'
<1>1. stage = "scan" /\ ~ More /\ stage' = "done" /\ UNCHANGED <<this, other, found, i, j>>
  BY DEF sweep
<1>2. batches' = batches
  <2>1. \A k \in DOMAIN batches : batches[k][1] \in Int /\ batches[k][2] \in Int
    <3>1. \A k \in DOMAIN batches : batches[k] \in Pairs
      BY DEF IInv, Typed
    <3> QED
      BY <3>1 DEF Pairs
  <2>2. \A k \in DOMAIN batches : ~ Empty(batches[k])
    BY <2>1 DEF IInv, Ordered, Empty
  <2> QED
    BY <2>2 DEF sweep
<1>3. Ordered(batches)' /\ Ordered(found)' /\ Whole' /\ Rest' = Rest
  BY <1>1, <1>2, SameSequences
<1>4. Typed' /\ Fresh' /\ Frontier' /\ Behind'
  BY <1>1, <1>2, <1>3 DEF IInv, Typed, Fresh, Frontier, Behind
<1>5. ExcludedUnlessWrapped'
  <2>1. SUFFICES ASSUME i >= 0, NEW x \in Points(batches), x \in Theirs PROVE FALSE
    <3>1. Points(batches)' = Points(batches) /\ Theirs' = Theirs
      BY <1>1, <1>2 DEF Points, Theirs
    <3> QED
      BY <1>1, <3>1 DEF ExcludedUnlessWrapped
  <2>2. Rest \in Seq(Pairs) /\ batches \in Seq(Pairs)
    BY RowsOrdered DEF IInv, Typed, Rest
  <2>3. PICK m \in DOMAIN batches : Inside(batches[m], x) /\ x \in Int
    BY <2>1, <2>2, PointsInside
  <2>4. PICK n \in DOMAIN Rest : Inside(Rest[n], x)
    <3>1. x \in Points(Rest)
      BY <2>1 DEF Theirs, Rest
    <3> QED
      BY <2>2, <3>1, PointsInside
  <2>5. m <= i \/ n <= j
    <3>1. m \in 1 .. Len(batches) /\ n \in 1 .. Len(Rest)
      BY <2>2, LenProperties
    <3>2. Len(batches) \in Nat /\ Len(Rest) \in Nat /\ i \in Int /\ j \in Nat
      BY <2>2, LenProperties DEF IInv, Typed
    <3>3. ~ i < Len(batches) \/ ~ j < Len(Rest)
      BY <1>1, <2>1 DEF More, Rest
    <3> QED
      BY ONLY <3>1, <3>2, <3>3
  <2>6. Apart(batches[m], Rest[n])
    BY <1>1, <2>1, <2>5 DEF IInv, Behind
  <2>7. batches[m] \in Pairs /\ Rest[n] \in Pairs
    BY <2>2
  <2> QED
    BY ONLY <2>3, <2>4, <2>6, <2>7 DEF Apart, Inside, Pairs
<1> QED
  BY <1>3, <1>4, <1>5 DEF IInv

LEMMA apartKeeps == ASSUME AddressesOK, IInv, apart PROVE IInv'
<1>1. /\ UNCHANGED <<this, other, batches, found>> /\ stage = "scan" /\ stage' = "scan"
      /\ More /\ ~ L < R
  BY DEF apart, Scan
<1> DEFINE b1 == B1
           b2 == B2
<1>2. /\ i \in 0 .. Len(batches) - 1 /\ Len(batches) \in Nat /\ DOMAIN batches = 1 .. Len(batches)
      /\ i + 1 \in DOMAIN batches /\ b1 = batches[i + 1]
      /\ j + 1 \in DOMAIN Rest /\ b2 = Rest[j + 1] /\ Rest \in Seq(Pairs) /\ Ordered(Rest)
      /\ b1[1] \in Int /\ b1[2] \in Int /\ b2[1] \in Int /\ b2[2] \in Int
      /\ (L = b1[1] \/ L = b2[1]) /\ (R = b1[2] \/ R = b2[2])
      /\ L \in Int /\ R \in Int /\ b1[1] < b1[2] /\ b2[1] < b2[2]
  BY <1>1, AtCursors
<1>3. \/ b1[2] < b2[2] /\ i' = i + 1 /\ j' = j
      \/ ~ b1[2] < b2[2] /\ i' = i /\ j' = j + 1
  BY DEF apart, Advance
<1> HIDE DEF b1, b2
<1>4. i \in Nat /\ j \in Nat
  BY <1>2 DEF IInv, Typed
<1>5. Ordered(batches)' /\ Ordered(found)' /\ Whole' /\ Rest' = Rest
  BY <1>1, SameSequences
<1>6. Typed' /\ Fresh' /\ ExcludedUnlessWrapped'
  <2>1. i' \in Int /\ i' >= -1 /\ j' \in Nat
    BY <1>3, <1>4
  <2> QED
    BY <1>1, <2>1 DEF IInv, Typed, Fresh, ExcludedUnlessWrapped
<1>7. /\ \A m \in DOMAIN batches : m \in Int /\ batches[m][1] \in Int /\ batches[m][2] \in Int
      /\ \A n \in DOMAIN Rest : n \in Int /\ Rest[n][1] \in Int /\ Rest[n][2] \in Int
  <2>1. /\ \A m \in DOMAIN batches : m \in Int /\ batches[m] \in Pairs
        /\ \A n \in DOMAIN Rest : n \in Int /\ Rest[n] \in Pairs
    BY <1>2 DEF IInv, Typed
  <2> QED
    BY <2>1 DEF Pairs
<1>8. Frontier'
  <2>1. CASE \A k \in DOMAIN found, n \in DOMAIN Rest : n > j => found[k][2] <= Rest[n][1]
    <3>1. \A n \in DOMAIN Rest : n > j' => n > j
      BY <1>3, <1>4, <1>7
    <3> QED
      BY <1>1, <1>5, <2>1, <3>1 DEF Frontier
  <2>2. CASE \A k \in DOMAIN found, m \in DOMAIN batches : m > i => found[k][2] <= batches[m][1]
    <3>1. \A m \in DOMAIN batches : m > i' => m > i
      BY <1>3, <1>4, <1>7
    <3> QED
      BY <1>1, <1>5, <2>2, <3>1 DEF Frontier
  <2> QED
    BY <2>1, <2>2 DEF IInv, Frontier
<1>9. b1[2] <= b2[1] \/ b2[2] <= b1[1]
  BY ONLY <1>1, <1>2
<1>10. ASSUME NEW m \in DOMAIN batches, NEW n \in DOMAIN Rest, m <= i' \/ n <= j'
       PROVE  Apart(batches[m], Rest[n])
  <2>1. /\ m \in Int /\ batches[m][1] \in Int /\ batches[m][2] \in Int
        /\ n \in Int /\ Rest[n][1] \in Int /\ Rest[n][2] \in Int
    BY <1>7
  <2>2. CASE m <= i \/ n <= j
    BY <1>1, <1>4, <2>2 DEF IInv, Behind
  <2>3. CASE m = i + 1 /\ n = j + 1
    BY <1>2, <1>9, <2>3 DEF Apart
  <2>4. CASE m = i + 1 /\ n > j + 1 /\ b1[2] < b2[2]
    <3>1. b2[2] <= Rest[n][1] /\ batches[m] = b1
      BY <1>2, <2>4 DEF Ordered
    <3>2. batches[m][2] <= Rest[n][1]
      BY ONLY <1>2, <2>1, <2>4, <3>1
    <3> QED
      BY <3>2 DEF Apart
  <2>5. CASE n = j + 1 /\ m > i + 1 /\ ~ b1[2] < b2[2]
    <3>1. b1[2] <= batches[m][1] /\ Rest[n] = b2
      BY <1>2, <2>5 DEF IInv, Ordered
    <3>2. Rest[n][2] <= batches[m][1]
      BY ONLY <1>2, <2>1, <2>5, <3>1
    <3> QED
      BY <3>2 DEF Apart
  <2> QED
    BY <1>3, <1>4, <1>10, <2>1, <2>2, <2>3, <2>4, <2>5
<1>11. Behind'
  BY <1>1, <1>5, <1>10 DEF Behind
<1> QED
  BY <1>5, <1>6, <1>8, <1>11 DEF IInv

\* What AtCursors says, under one name.
LEMMA AtCut ==
    ASSUME AddressesOK, IInv, Scan, L < R
    PROVE  /\ B1[1] \in Int /\ B1[2] \in Int /\ B2[2] \in Int /\ L \in Int /\ R \in Int
           /\ B1[1] <= L /\ R <= B1[2] /\ R <= B2[2] /\ (R = B1[2] \/ R = B2[2])
BY AtCursors DEF Scan

LEMMA coveredKeeps == ASSUME AddressesOK, IInv, covered PROVE IInv'
<1> DEFINE p == << >>
<1>1. Scan /\ L < R /\ Cut(p) /\ Advance(i - 1) /\ B1 = <<L, R>>
  BY DEF covered
<1>2. p \in Seq(Pairs) /\ DOMAIN p = {} /\ Len(p) = 0 /\ i - 1 \in {i - 1, i}
  OBVIOUS
<1> HIDE DEF p
<1>3. Ordered(p)
  BY <1>2 DEF Ordered
<1>4. (i - 1) + 1 = i + Len(p)
  BY <1>2 DEF IInv, Typed
<1> QED
  BY <1>1, <1>2, <1>3, <1>4, CutStep

LEMMA cut_middleKeeps == ASSUME AddressesOK, IInv, cut_middle PROVE IInv'
<1> DEFINE p == << <<B1[1], L>>, <<R, B1[2]>> >>
<1>1. Scan /\ L < R /\ Cut(p) /\ Advance(i) /\ B1[1] < L /\ B1[2] > R
  BY DEF cut_middle
<1>2. /\ B1[1] \in Int /\ B1[2] \in Int /\ B2[2] \in Int /\ L \in Int /\ R \in Int
      /\ B1[1] <= L /\ R <= B1[2] /\ R <= B2[2] /\ (R = B1[2] \/ R = B2[2])
  BY <1>1, AtCut
<1>3. /\ p \in Seq(Pairs) /\ DOMAIN p = {1, 2}
      /\ p[1][1] = B1[1] /\ p[1][2] = L /\ p[2][1] = R /\ p[2][2] = B1[2]
  BY <1>2 DEF Pairs
<1> HIDE DEF p
<1>4. Ordered(p)
  <2>1. \A k \in DOMAIN p : p[k][1] < p[k][2]
    BY <1>1, <1>2, <1>3
  <2>2. \A k, m \in DOMAIN p : k < m => p[k][2] <= p[m][1]
    <3>1. \A k, m \in DOMAIN p : k < m => k = 1 /\ m = 2
      BY ONLY <1>3
    <3> QED
      BY <1>1, <1>2, <1>3, <3>1
  <2> QED
    BY ONLY <2>1, <2>2 DEF Ordered
<1>5. \A q \in DOMAIN p : B1[1] <= p[q][1] /\ p[q][2] <= B1[2] /\ Apart(p[q], <<L, R>>)
  BY <1>1, <1>2, <1>3 DEF Apart
<1>6. ASSUME NEW x \in Int, Inside(B1, x)
      PROVE  Inside(<<L, R>>, x) \/ \E q \in DOMAIN p : Inside(p[q], x)
  <2>1. Inside(p[1], x) \/ Inside(<<L, R>>, x) \/ Inside(p[2], x)
    BY <1>2, <1>3, <1>6 DEF Inside
  <2> QED
    BY <1>3, <2>1
<1>7. ~ B1[2] < B2[2]
  BY <1>1, <1>2
<1> QED
  BY <1>1, <1>3, <1>4, <1>5, <1>6, <1>7, CutStep

LEMMA cut_endKeeps == ASSUME AddressesOK, IInv, cut_end PROVE IInv'
<1> DEFINE p == << <<B1[1], L>> >>
<1>1. Scan /\ L < R /\ Cut(p) /\ Advance(i) /\ B1[1] < L /\ B1[2] = R
  BY DEF cut_end
<1>2. /\ B1[1] \in Int /\ B1[2] \in Int /\ B2[2] \in Int /\ L \in Int /\ R \in Int
      /\ B1[1] <= L /\ R <= B1[2] /\ R <= B2[2] /\ (R = B1[2] \/ R = B2[2])
  BY <1>1, AtCut
<1>3. /\ p \in Seq(Pairs) /\ DOMAIN p = {1} /\ Len(p) = 1
      /\ p[1][1] = B1[1] /\ p[1][2] = L
  BY <1>2 DEF Pairs
<1> HIDE DEF p
<1>4. Ordered(p)
  BY <1>1, <1>2, <1>3 DEF Ordered
<1>5. \A q \in DOMAIN p : B1[1] <= p[q][1] /\ p[q][2] <= B1[2] /\ Apart(p[q], <<L, R>>)
  BY <1>1, <1>2, <1>3 DEF Apart
<1>6. ASSUME NEW x \in Int, Inside(B1, x)
      PROVE  Inside(<<L, R>>, x) \/ \E q \in DOMAIN p : Inside(p[q], x)
  <2>1. Inside(p[1], x) \/ Inside(<<L, R>>, x)
    BY <1>1, <1>2, <1>3, <1>6 DEF Inside
  <2> QED
    BY <1>3, <2>1
<1>7. i + 1 = i + Len(p)
  BY <1>3
<1> QED
  BY <1>1, <1>3, <1>4, <1>5, <1>6, <1>7, CutStep

LEMMA cut_frontKeeps == ASSUME AddressesOK, IInv, cut_front PROVE IInv'
<1> DEFINE p == << <<R, B1[2]>> >>
<1>1. Scan /\ L < R /\ Cut(p) /\ Advance(i) /\ B1[1] = L /\ B1[2] > R
  BY DEF cut_front
<1>2. /\ B1[1] \in Int /\ B1[2] \in Int /\ B2[2] \in Int /\ L \in Int /\ R \in Int
      /\ B1[1] <= L /\ R <= B1[2] /\ R <= B2[2] /\ (R = B1[2] \/ R = B2[2])
  BY <1>1, AtCut
<1>3. /\ p \in Seq(Pairs) /\ DOMAIN p = {1} /\ Len(p) = 1
      /\ p[1][1] = R /\ p[1][2] = B1[2]
  BY <1>2 DEF Pairs
<1> HIDE DEF p
<1>4. Ordered(p)
  BY <1>1, <1>2, <1>3 DEF Ordered
<1>5. \A q \in DOMAIN p : B1[1] <= p[q][1] /\ p[q][2] <= B1[2] /\ Apart(p[q], <<L, R>>)
  BY <1>1, <1>2, <1>3 DEF Apart
<1>6. ASSUME NEW x \in Int, Inside(B1, x)
      PROVE  Inside(<<L, R>>, x) \/ \E q \in DOMAIN p : Inside(p[q], x)
  <2>1. Inside(p[1], x) \/ Inside(<<L, R>>, x)
    BY <1>1, <1>2, <1>3, <1>6 DEF Inside
  <2> QED
    BY <1>3, <2>1
<1>7. i + 1 = i + Len(p)
  BY <1>3
<1> QED
  BY <1>1, <1>3, <1>4, <1>5, <1>6, <1>7, CutStep

-----------------------------------------------------------------------------

LEMMA StutterKeeps == ASSUME IInv, UNCHANGED cut_vars PROVE IInv'
<1>1. UNCHANGED <<this, other, batches, found, i, j, stage>>
  BY DEF cut_vars
<1>2. Ordered(batches)' /\ Ordered(found)' /\ Whole' /\ Rest' = Rest
  BY <1>1, SameSequences
<1>3. Points(batches)' = Points(batches) /\ Theirs' = Theirs
  BY <1>1 DEF Points, Theirs
<1> QED
  BY <1>1, <1>2, <1>3 DEF IInv, Typed, Fresh, Frontier, Behind, ExcludedUnlessWrapped

\* The inductive invariant of the cut, for any set of accesses.
THEOREM Invariance == ASSUME AddressesOK PROVE CutSpec => []IInv
<1>1. CutInit => IInv
  BY StartHolds
<1>2. IInv /\ [CutNext]_cut_vars => IInv'
  BY compareKeeps, apartKeeps, coveredKeeps, cut_middleKeeps, cut_endKeeps, cut_frontKeeps,
     sweepKeeps, StutterKeeps DEF CutNext
<1> QED
  BY <1>1, <1>2, PTL DEF CutSpec

\* Whatever the two accesses, cutting loses no byte, doubles none and returns
\* only bytes of both (execlude_intersection_intervals, type.h).
THEOREM CutIsPartition == ASSUME AddressesOK PROVE CutSpec => []Partition
<1>1. IInv => Partition
  <2>1. SUFFICES ASSUME IInv PROVE Partition
    OBVIOUS
  <2>2. ASSUME NEW s \in {batches, found}, NEW k \in 1 .. Len(s) - 1
        PROVE  s[k][2] <= s[k + 1][1]
    <3>1. s \in Seq(Pairs) /\ Ordered(s)
      BY <2>1 DEF IInv, Typed
    <3>2. DOMAIN s = 1 .. Len(s) /\ Len(s) \in Nat
      BY <3>1, LenProperties
    <3>3. k \in DOMAIN s /\ k + 1 \in DOMAIN s /\ k < k + 1
      BY ONLY <3>2, k \in 1 .. Len(s) - 1
    <3> QED
      BY <3>1, <3>3 DEF Ordered
  <2> QED
    BY <2>1, <2>2 DEF IInv, Whole, Partition
<1> QED
  BY <1>1, Invariance, PTL

\* Whatever the two accesses, the cut is complete unless the cursor wrapped.
THEOREM CutIsComplete == ASSUME AddressesOK PROVE CutSpec => []ExcludedUnlessWrapped
<1>1. IInv => ExcludedUnlessWrapped
  BY DEF IInv
<1> QED
  BY <1>1, Invariance, PTL

=============================================================================
