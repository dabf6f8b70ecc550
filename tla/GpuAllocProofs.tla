--------------------------- MODULE GpuAllocProofs ---------------------------
(***************************************************************************)
(* Proofs about GpuAlloc: for every size of RAM_G, every size of the       *)
(* tables and every set of resources, as long as no full table is trimmed  *)
(* and no sequence number has come round.                                  *)
(***************************************************************************)
EXTENDS GpuAlloc, WellFoundedInduction, TLAPS

(* Multiples of four from the start of RAM_G to its end.                   *)
Cells == {a \in 0 .. RamGSize : a % 4 = 0}

RefType   == [idx : 0 .. MaxAllocs, seq : 0 .. SeqCount - 1]
EntryType == [address : Cells, length : Cells, id : 0 .. MaxAllocs, flags : SUBSET Flags]
Tables    == [refs : [Ids -> RefType], entries : [Ids -> EntryType], nb : 1 .. MaxAllocs]

(* The entries of a table, the ids it has given out, and the block each of *)
(* these stands for.                                                       *)
Span(t)      == 0 .. t.nb - 1
Given(t)     == {i \in Ids : t.refs[i].idx # NoId}
Place(t, id) == t.entries[t.refs[id].idx]

End(e) == e.address + e.length

(* What an entry ends at: the next one, or RAM_G does.                     *)
Bound(t, i) == IF i + 1 < t.nb THEN t.entries[i + 1].address ELSE RamGSize

(* The entries lie end to end, and none is empty.  That a later entry lies *)
(* beyond an earlier one follows, but only by induction: it is a part of   *)
(* the invariant of its own.                                               *)
Tiling(t) ==
  /\ t.entries[0].address = 0
  /\ \A i \in Span(t) : t.entries[i].length > 0 /\ End(t.entries[i]) = Bound(t, i)
  /\ \A i, j \in Span(t) : i < j => End(t.entries[i]) <= t.entries[j].address

NoPair(t) ==
  \A i \in Span(t) : i + 1 < t.nb => ~(IsFree(t.entries[i]) /\ IsFree(t.entries[i + 1]))

Match(t) ==
  /\ \A i \in Span(t) : ~IsFree(t.entries[i]) => t.refs[t.entries[i].id].idx = i
  /\ \A id \in Ids : t.refs[id].idx # NoId =>
       t.refs[id].idx \in Span(t) /\ t.entries[t.refs[id].idx].id = id

Good(t) == t \in Tables /\ Tiling(t) /\ NoPair(t) /\ Match(t)

-----------------------------------------------------------------------------
(* Numbers.                                                                *)

LEMMA Parameters ==
  /\ MaxAllocs \in Nat /\ MaxAllocs >= 2 /\ NoId = MaxAllocs
  /\ RamGSize \in Nat /\ RamGSize >= 4 /\ RamGSize % 4 = 0
  /\ SeqCount \in Nat /\ SeqCount > 2
  /\ 0 \in Cells /\ RamGSize \in Cells /\ 0 \in Ids /\ Cells \subseteq Nat
<1>1. /\ MaxAllocs \in Nat /\ MaxAllocs >= 2 /\ NoId = MaxAllocs
      /\ RamGSize \in Nat /\ RamGSize > 0 /\ RamGSize % 4 = 0
      /\ SeqCount \in Nat /\ SeqCount > 2
  BY GpuAllocAssumption DEF NoId
<1>2. RamGSize >= 4
  BY <1>1
<1>. QED
  BY <1>1, <1>2 DEF Cells, Ids

(* A set of numbers that is not empty has a least one.                     *)
LEMMA Least ==
  ASSUME NEW T \in SUBSET Nat, T # {}
  PROVE  \E n \in T : \A m \in T : n <= m
<1> DEFINE R == {ss \in Nat \X Nat : ss[1] < ss[2]}
<1>1. IsWellFoundedOn(R, Nat)
  BY NatLessThanWellFounded DEF OpToRel
<1>2. \E x \in T : \A y \in T : ~(<<y, x>> \in R)
  <2> HIDE DEF R
  <2>. QED
    BY <1>1, WFMin
<1>3. PICK x \in T : \A y \in T : ~(<<y, x>> \in R)
  BY <1>2
<1>4. ASSUME NEW y \in T
      PROVE  x <= y
  <2>1. ~(y < x)
    BY <1>3
  <2>. QED
    BY <2>1
<1>. QED
  BY <1>4

(* What Min finds, by the definition of the community modules.             *)
LEMMA MinIs ==
  ASSUME NEW T \in SUBSET Nat, T # {}
  PROVE  Min(T) \in T /\ \A n \in T : Min(T) <= n
<1>1. \E x \in T : \A y \in T : x <= y
  BY Least
<1>. QED
  BY <1>1 DEF Min

LEMMA AlignIs ==
  ASSUME NEW n \in Nat
  PROVE  /\ Align4(n) \in Nat /\ Align4(n) % 4 = 0 /\ n <= Align4(n)
         /\ n > 0 => Align4(n) >= 4
         /\ n % 4 = 0 => Align4(n) = n
BY DEF Align4

(* A sequence number stays in its 24 bits, and counts up until they are    *)
(* full.                                                                   *)
LEMMA SeqMoves ==
  ASSUME NEW s \in 0 .. SeqCount - 1
  PROVE  NextSeq(s) \in 0 .. SeqCount - 1 /\ (s + 1 < SeqCount => NextSeq(s) = s + 1)
BY Parameters DEF NextSeq

-----------------------------------------------------------------------------
(* Tables.                                                                 *)

LEMMA TableFields ==
  ASSUME NEW t \in Tables
  PROVE  /\ t.nb \in 1 .. MaxAllocs /\ t.refs \in [Ids -> RefType]
         /\ t.entries \in [Ids -> EntryType]
         /\ Span(t) \subseteq Ids /\ Given(t) \subseteq Ids /\ 0 \in Span(t)
         /\ \A i \in Ids : /\ t.refs[i].idx \in 0 .. MaxAllocs
                           /\ t.refs[i].seq \in 0 .. SeqCount - 1
         /\ \A i \in Ids : /\ t.entries[i].address \in Cells /\ t.entries[i].length \in Cells
                           /\ t.entries[i].id \in 0 .. MaxAllocs
                           /\ t.entries[i].flags \subseteq Flags
                           /\ ~IsFree(t.entries[i]) => t.entries[i].id \in Ids
<1>1. /\ t.nb \in 1 .. MaxAllocs /\ t.refs \in [Ids -> RefType]
      /\ t.entries \in [Ids -> EntryType]
  BY DEF Tables
<1>2. Span(t) \subseteq Ids /\ Given(t) \subseteq Ids /\ 0 \in Span(t)
  BY <1>1, Parameters DEF Span, Ids, Given
<1>3. ASSUME NEW i \in Ids
      PROVE  t.refs[i].idx \in 0 .. MaxAllocs /\ t.refs[i].seq \in 0 .. SeqCount - 1
  BY <1>1 DEF RefType
<1>4. ASSUME NEW i \in Ids
      PROVE  /\ t.entries[i].address \in Cells /\ t.entries[i].length \in Cells
             /\ t.entries[i].id \in 0 .. MaxAllocs /\ t.entries[i].flags \subseteq Flags
             /\ ~IsFree(t.entries[i]) => t.entries[i].id \in Ids
  <2>1. t.entries[i] \in EntryType
    BY <1>1
  <2>2. /\ t.entries[i].address \in Cells /\ t.entries[i].length \in Cells
        /\ t.entries[i].id \in 0 .. MaxAllocs /\ t.entries[i].flags \subseteq Flags
    BY <2>1 DEF EntryType
  <2>. QED
    BY <2>2, Parameters DEF IsFree, Ids
<1>. QED
  BY <1>1, <1>2, <1>3, <1>4

(* Every given id stands for a block of its own, apart from all others.    *)
LEMMA PlacesApart ==
  ASSUME NEW t, Good(t), NEW a \in Given(t)
  PROVE  /\ t.refs[a].idx \in Span(t) /\ Place(t, a).id = a /\ Place(t, a) \in EntryType
         /\ ~IsFree(Place(t, a)) /\ Place(t, a).length > 0 /\ End(Place(t, a)) <= RamGSize
         /\ \A b \in Given(t) : a # b =>
              \/ End(Place(t, a)) <= Place(t, b).address
              \/ End(Place(t, b)) <= Place(t, a).address
<1>0. t \in Tables
  BY DEF Good
<1>1. ASSUME NEW b \in Given(t)
      PROVE  b \in Ids /\ t.refs[b].idx \in Span(t) /\ Place(t, b).id = b
  BY DEF Good, Match, Given, Place
<1>2. Place(t, a) \in EntryType
  BY <1>0, <1>1, TableFields DEF Place
<1>3. ~IsFree(Place(t, a))
  BY <1>1, Parameters DEF IsFree, Ids, Place
<1>4. Place(t, a).length > 0
  BY <1>1 DEF Good, Tiling, Place
<1>5. End(Place(t, a)) <= RamGSize
  <2> DEFINE i == t.refs[a].idx
  <2>1. i \in Span(t) /\ End(t.entries[i]) = Bound(t, i)
    BY <1>1 DEF Good, Tiling
  <2>2. Bound(t, i) \in Cells
    <3>1. CASE i + 1 < t.nb
      <4>1. i + 1 \in Span(t)
        BY <1>0, <2>1, <3>1, TableFields DEF Span
      <4>. QED
        BY <1>0, <3>1, <4>1, TableFields DEF Bound
    <3>2. CASE ~(i + 1 < t.nb)
      BY <3>2, Parameters DEF Bound
    <3>. QED
      BY <3>1, <3>2
  <2>. QED
    BY <2>1, <2>2, Parameters DEF Place, Cells
<1>6. ASSUME NEW b \in Given(t), a # b
      PROVE  \/ End(Place(t, a)) <= Place(t, b).address
             \/ End(Place(t, b)) <= Place(t, a).address
  <2> DEFINE i == t.refs[a].idx
             j == t.refs[b].idx
  <2>1. i \in Span(t) /\ j \in Span(t) /\ i # j
    BY <1>1, <1>6 DEF Place
  <2>2. i < j \/ j < i
    BY <2>1 DEF Span
  <2>. QED
    BY <2>1, <2>2 DEF Good, Tiling, Place
<1>. QED
  BY <1>1, <1>2, <1>3, <1>4, <1>5, <1>6

(* Flags do not matter to where a block lies.                              *)
Alike(t, u) ==
  /\ u.nb = t.nb /\ u.refs = t.refs
  /\ \A i \in Ids : /\ u.entries[i].address = t.entries[i].address
                    /\ u.entries[i].length = t.entries[i].length
                    /\ u.entries[i].id = t.entries[i].id

(* Tables that differ in flags only are as good as each other.             *)
LEMMA AlikeGood ==
  ASSUME NEW t, NEW u \in Tables, Good(t), Alike(t, u)
  PROVE  Good(u) /\ Given(u) = Given(t)
<1>0. t \in Tables
  BY DEF Good
<1>1. Span(u) = Span(t) /\ Span(t) \subseteq Ids
  BY <1>0, TableFields DEF Alike, Span
<1>2. ASSUME NEW i \in Span(t)
      PROVE  /\ u.entries[i].address = t.entries[i].address
             /\ u.entries[i].length = t.entries[i].length
             /\ u.entries[i].id = t.entries[i].id
             /\ IsFree(u.entries[i]) <=> IsFree(t.entries[i])
             /\ End(u.entries[i]) = End(t.entries[i])
  BY <1>1, <1>2 DEF Alike, IsFree, End
<1>3. ASSUME NEW i \in Span(t), i + 1 < t.nb
      PROVE  i + 1 \in Span(t)
  BY <1>0, <1>3, TableFields DEF Span
<1>4. Tiling(u)
  <2>1. u.entries[0].address = 0
    BY <1>0, <1>2, TableFields DEF Good, Tiling
  <2>2. ASSUME NEW i \in Span(t)
        PROVE  u.entries[i].length > 0 /\ End(u.entries[i]) = Bound(u, i)
    <3>1. Bound(u, i) = Bound(t, i)
      BY <1>2, <1>3 DEF Bound, Alike
    <3>. QED
      BY <1>2, <3>1 DEF Good, Tiling
  <2>3. ASSUME NEW i \in Span(t), NEW j \in Span(t), i < j
        PROVE  End(u.entries[i]) <= u.entries[j].address
    BY <1>2, <2>3 DEF Good, Tiling
  <2>. QED
    BY <1>1, <2>1, <2>2, <2>3 DEF Tiling
<1>5. NoPair(u)
  BY <1>1, <1>2, <1>3 DEF Good, NoPair, Alike
<1>6. Match(u)
  BY <1>1, <1>2 DEF Good, Match, Alike
<1>7. Given(u) = Given(t)
  BY DEF Given, Alike
<1>. QED
  BY <1>4, <1>5, <1>6, <1>7 DEF Good

(* A free entry i is cut: the block e takes its start, and what is left of *)
(* it, if anything (k is 1), becomes an entry of its own.                  *)
Splits(t, u, i, k, e) ==
  /\ u \in Tables /\ k \in {0, 1} /\ i \in Span(t) /\ u.nb = t.nb + k
  /\ IsFree(t.entries[i]) /\ e \in EntryType /\ e.id \in Ids /\ e.id \notin Given(t)
  /\ e.address = t.entries[i].address /\ e.length > 0
  /\ IF k = 0 THEN e.length = t.entries[i].length
              ELSE /\ e.length < t.entries[i].length
                   /\ u.entries[i + 1] = FreeEntry(End(e), t.entries[i].length - e.length)
  /\ u.entries[i] = e
  /\ \A j \in Span(t) : (j < i => u.entries[j] = t.entries[j])
                        /\ (j > i => u.entries[j + k] = t.entries[j])
  /\ u.refs[e.id].idx = i
  /\ \A id \in Ids : id # e.id =>
       u.refs[id].idx = IF id \in Given(t) /\ t.refs[id].idx > i
                        THEN t.refs[id].idx + k ELSE t.refs[id].idx

(* Which entries there are after the cut.                                  *)
LEMMA SplitCases ==
  ASSUME NEW t, NEW u, NEW i, NEW k, NEW e, Good(t), Splits(t, u, i, k, e),
         NEW j \in Span(u)
  PROVE  /\ k \in {0, 1} /\ i \in Nat /\ j \in Nat /\ t.nb \in Nat
         /\ \/ j < i /\ j \in Span(t) /\ u.entries[j] = t.entries[j]
            \/ j = i /\ u.entries[j] = e
            \/ /\ k = 1 /\ j = i + 1
               /\ u.entries[j] = FreeEntry(End(e), t.entries[i].length - e.length)
            \/ /\ j > i + k /\ j - k \in Span(t) /\ j - k > i
               /\ u.entries[j] = t.entries[j - k]
<1>1. k \in {0, 1} /\ i \in Span(t) /\ u.nb = t.nb + k /\ t.nb \in 1 .. MaxAllocs
  BY TableFields DEF Good, Splits
<1>2. i \in Nat /\ j \in Nat /\ t.nb \in Nat /\ j < t.nb + k /\ i < t.nb
  BY <1>1, Parameters DEF Span
<1>3. CASE j < i
  <2>1. j \in Span(t)
    BY <1>2, <1>3 DEF Span
  <2>. QED
    BY <1>1, <1>2, <1>3, <2>1 DEF Splits
<1>4. CASE j = i
  BY <1>1, <1>2, <1>4 DEF Splits
<1>5. CASE k = 1 /\ j = i + 1
  BY <1>1, <1>2, <1>5 DEF Splits
<1>6. CASE j > i + k
  <2>1. j - k \in Span(t) /\ j - k > i /\ (j - k) + k = j
    BY <1>1, <1>2, <1>6 DEF Span
  <2>2. u.entries[(j - k) + k] = t.entries[j - k]
    BY <2>1 DEF Splits
  <2>. QED
    BY <1>1, <1>2, <1>6, <2>1, <2>2
<1>. QED
  BY <1>1, <1>2, <1>3, <1>4, <1>5, <1>6

(* Bounds and types of the entries of a table, as numbers.                 *)
LEMMA LooseNumbers ==
  ASSUME NEW t \in Tables, Tiling(t), NEW j \in Span(t)
  PROVE  /\ j \in Nat /\ j < t.nb /\ t.nb \in Nat
         /\ t.entries[j].address \in Nat /\ t.entries[j].length \in Nat
         /\ t.entries[j].length > 0 /\ End(t.entries[j]) \in Nat
         /\ t.entries[j].address < End(t.entries[j])
         /\ End(t.entries[j]) = Bound(t, j)
         /\ t.entries[j] \in EntryType
<1>1. t \in Tables /\ j \in Ids /\ t.nb \in 1 .. MaxAllocs
  BY TableFields
<1>2. j \in Nat /\ j < t.nb /\ t.nb \in Nat
  BY <1>1, Parameters DEF Span
<1>3. t.entries[j].address \in Nat /\ t.entries[j].length \in Nat
  BY <1>1, TableFields, Parameters
<1>4. t.entries[j].length > 0 /\ End(t.entries[j]) = Bound(t, j)
  BY DEF Tiling
<1>5. End(t.entries[j]) \in Nat /\ t.entries[j].address < End(t.entries[j])
  BY <1>3, <1>4 DEF End
<1>6. t.entries[j] \in EntryType
  BY <1>1, TableFields
<1>. QED
  BY <1>2, <1>3, <1>4, <1>5, <1>6

LEMMA EntryNumbers ==
  ASSUME NEW t, Good(t), NEW j \in Span(t)
  PROVE  /\ j \in Nat /\ j < t.nb /\ t.nb \in Nat
         /\ t.entries[j].address \in Nat /\ t.entries[j].length \in Nat
         /\ t.entries[j].length > 0 /\ End(t.entries[j]) \in Nat
         /\ t.entries[j].address < End(t.entries[j])
         /\ End(t.entries[j]) = Bound(t, j)
         /\ t.entries[j] \in EntryType
BY LooseNumbers DEF Good

LEMMA SplitNumbers ==
  ASSUME NEW t, NEW u, NEW i, NEW k, NEW e, Good(t), Splits(t, u, i, k, e)
  PROVE  LET r == FreeEntry(End(e), t.entries[i].length - e.length)
         IN  /\ e.address = t.entries[i].address /\ e.address \in Nat /\ e.length \in Nat
             /\ e.length > 0 /\ e.address < End(e) /\ End(e) \in Nat
             /\ End(e) <= End(t.entries[i])
             /\ k = 0 => End(e) = End(t.entries[i])
             /\ k = 1 => End(e) < End(t.entries[i])
             /\ r.address = End(e) /\ End(r) = End(t.entries[i])
             /\ k = 1 => r.length > 0
<1> DEFINE r == FreeEntry(End(e), t.entries[i].length - e.length)
           a == t.entries[i].address
           n == t.entries[i].length
           m == e.length
<1>1. a \in Nat /\ n \in Nat /\ End(t.entries[i]) = a + n
  BY EntryNumbers DEF Splits, End
<1>2. e.address = a /\ m \in Nat /\ m > 0 /\ End(e) = a + m /\ k \in {0, 1}
  BY Parameters DEF Splits, EntryType, End
<1>3. (k = 0 => m = n) /\ (k = 1 => m < n)
  BY DEF Splits
<1>4. r.address = a + m /\ r.length = n - m /\ End(r) = (a + m) + (n - m)
  BY <1>2 DEF FreeEntry, End
<1>5. m <= n
  BY <1>1, <1>2, <1>3
<1> HIDE DEF a, n, m, r
<1>6. e.address = t.entries[i].address /\ e.length = m
  BY <1>2 DEF a, m
<1>7. /\ a \in Nat /\ m > 0 /\ a < End(e) /\ End(e) \in Nat
      /\ End(e) <= End(t.entries[i])
      /\ (k = 0 => End(e) = End(t.entries[i]))
      /\ (k = 1 => End(e) < End(t.entries[i]))
      /\ r.address = End(e) /\ End(r) = End(t.entries[i])
      /\ (k = 1 => r.length > 0)
  BY <1>1, <1>2, <1>3, <1>4, <1>5
<1>. QED
  BY <1>2, <1>6, <1>7 DEF r

(* The entries of a table that was cut, each with its neighbours.          *)
LEMMA SplitTiles ==
  ASSUME NEW t, NEW u, NEW i, NEW k, NEW e, Good(t), Splits(t, u, i, k, e)
  PROVE  Tiling(u)
<1> DEFINE r == FreeEntry(End(e), t.entries[i].length - e.length)
           Case(j) == \/ j < i /\ j \in Span(t) /\ u.entries[j] = t.entries[j]
                      \/ j = i /\ u.entries[j] = e
                      \/ k = 1 /\ j = i + 1 /\ u.entries[j] = r
                      \/ /\ j > i + k /\ j - k \in Span(t) /\ j - k > i
                         /\ u.entries[j] = t.entries[j - k]
<1>0. /\ t \in Tables /\ u \in Tables /\ k \in {0, 1} /\ i \in Span(t) /\ u.nb = t.nb + k
      /\ t.nb \in Nat /\ i \in Nat /\ i < t.nb
  BY EntryNumbers DEF Good, Splits
<1>3. /\ e.address = t.entries[i].address /\ e.address \in Nat /\ e.length > 0
      /\ e.address < End(e) /\ End(e) \in Nat /\ End(e) <= End(t.entries[i])
      /\ k = 0 => End(e) = End(t.entries[i])
      /\ k = 1 => End(e) < End(t.entries[i])
      /\ r.address = End(e) /\ End(r) = End(t.entries[i])
      /\ k = 1 => r.length > 0
  BY SplitNumbers
<1> HIDE DEF r
<1>5. ASSUME NEW j \in Span(u)
      PROVE  j \in Nat /\ j < u.nb /\ Case(j)
  <2>1. j \in Nat /\ Case(j)
    BY SplitCases DEF r
  <2>. QED
    BY <1>0, <2>1 DEF Span
<1>6. u.entries[0].address = 0
  <2>1. 0 \in Span(u)
    BY <1>0, TableFields
  <2>2. t.entries[0].address = 0
    BY DEF Good, Tiling
  <2>3. Case(0)
    BY <1>5, <2>1
  <2>. QED
    BY <1>0, <1>3, <2>2, <2>3
<1>7. ASSUME NEW j \in Span(u)
      PROVE  u.entries[j].length > 0
  <2>1. Case(j)
    BY <1>5
  <2>2. CASE j \in Span(t) /\ u.entries[j] = t.entries[j]
    BY <2>2, EntryNumbers
  <2>3. CASE j - k \in Span(t) /\ u.entries[j] = t.entries[j - k]
    <3> DEFINE m == j - k
    <3> HIDE DEF m
    <3>1. m \in Span(t) /\ u.entries[j] = t.entries[m]
      BY <2>3 DEF m
    <3>. QED
      BY <3>1, EntryNumbers
  <2>. QED
    BY <1>3, <2>1, <2>2, <2>3
<1>8. ASSUME NEW j \in Span(u), NEW m \in Span(u), j < m
      PROVE  End(u.entries[j]) <= u.entries[m].address
  <2>0. j \in Nat /\ m \in Nat /\ Case(j) /\ Case(m) /\ j < m
    BY <1>5, <1>8
  <2>1. ASSUME NEW a \in Span(t), NEW b \in Span(t), a < b
        PROVE  End(t.entries[a]) <= t.entries[b].address
    BY <2>1 DEF Good, Tiling
  <2>2. End(t.entries[i]) \in Nat /\ t.entries[i].address \in Nat
    BY <1>0, EntryNumbers
  \* where the later one begins
  <2>3. /\ m > i => End(e) <= u.entries[m].address
        /\ m > i + k => End(t.entries[i]) <= u.entries[m].address
        /\ m >= i => u.entries[m].address >= t.entries[i].address
        /\ u.entries[m].address \in Nat
    <3>1. CASE m < i
      <4>1. m \in Span(t) /\ u.entries[m] = t.entries[m]
        BY <1>0, <2>0, <3>1
      <4>. QED
        BY <1>0, <2>0, <3>1, <4>1, EntryNumbers
    <3>2. CASE m = i
      <4>1. u.entries[m] = e
        BY <1>0, <2>0, <3>2
      <4>. QED
        BY <1>0, <1>3, <2>0, <3>2, <4>1
    <3>3. CASE k = 1 /\ m = i + 1
      <4>1. u.entries[m] = r
        BY <1>0, <2>0, <3>3
      <4>. QED
        BY <1>0, <1>3, <2>0, <2>2, <3>3, <4>1
    <3>4. CASE m > i + k
      <4> DEFINE q == m - k
      <4>1. q \in Span(t) /\ i < q /\ u.entries[m] = t.entries[q]
        BY <1>0, <2>0, <3>4
      <4> HIDE DEF q
      <4>2. End(t.entries[i]) <= t.entries[q].address /\ t.entries[q].address \in Nat
        BY <1>0, <2>1, <4>1, EntryNumbers
      <4>. QED
        BY <1>0, <1>3, <2>0, <2>2, <3>4, <4>1, <4>2
    <3>. QED
      BY <1>0, <2>0, <3>1, <3>2, <3>3, <3>4
  <2>4. CASE j < i
    <3>1. u.entries[j] = t.entries[j] /\ j \in Span(t)
      BY <1>0, <2>0, <2>4
    <3>2. End(t.entries[j]) <= t.entries[i].address /\ End(t.entries[j]) \in Nat
      BY <1>0, <2>1, <2>4, <3>1, EntryNumbers
    <3>3. CASE m < i
      <4>1. u.entries[m] = t.entries[m] /\ m \in Span(t)
        BY <1>0, <2>0, <3>3
      <4>. QED
        BY <2>0, <2>1, <3>1, <4>1
    <3>4. CASE m >= i
      BY <2>2, <2>3, <3>1, <3>2, <3>4
    <3>. QED
      BY <1>0, <2>0, <3>3, <3>4
  <2>5. CASE j = i
    <3>1. u.entries[j] = e
      BY <1>0, <2>0, <2>5
    <3>. QED
      BY <2>0, <2>3, <2>5, <3>1
  <2>6. CASE k = 1 /\ j = i + 1
    <3>1. u.entries[j] = r /\ m > i + k
      BY <1>0, <2>0, <2>6
    <3>. QED
      BY <1>3, <2>3, <3>1
  <2>7. CASE j > i + k
    <3> DEFINE p == j - k
               q == m - k
    <3>1. /\ p \in Span(t) /\ q \in Span(t) /\ p < q
          /\ u.entries[j] = t.entries[p] /\ u.entries[m] = t.entries[q]
      BY <1>0, <2>0, <2>7
    <3> HIDE DEF p, q
    <3>. QED
      BY <2>1, <3>1
  <2>. QED
    BY <1>0, <2>0, <2>4, <2>5, <2>6, <2>7
<1>9. ASSUME NEW j \in Span(u)
      PROVE  End(u.entries[j]) = Bound(u, j)
  <2>0. j \in Nat /\ Case(j) /\ j < u.nb
    BY <1>5
  <2>1. ASSUME j + 1 < u.nb
        PROVE  Case(j + 1)
    <3>1. j + 1 \in Span(u)
      BY <1>0, <2>0, <2>1 DEF Span
    <3>. QED
      BY <1>5, <3>1
  <2>2. CASE j < i
    <3>1. u.entries[j] = t.entries[j] /\ j \in Span(t) /\ j + 1 < t.nb /\ j + 1 < u.nb
      BY <1>0, <2>0, <2>2
    <3>2. End(t.entries[j]) = t.entries[j + 1].address
      BY <3>1, EntryNumbers DEF Bound
    <3>3. u.entries[j + 1].address = t.entries[j + 1].address
      <4>1. Case(j + 1)
        BY <2>1, <3>1
      <4>. QED
        BY <1>0, <1>3, <2>0, <2>2, <4>1
    <3>. QED
      BY <3>1, <3>2, <3>3 DEF Bound
  <2>3. CASE j = i /\ k = 1
    <3>1. u.entries[j] = e /\ j + 1 < u.nb
      BY <1>0, <2>0, <2>3
    <3>2. Case(j + 1)
      BY <2>1, <3>1
    <3>3. u.entries[j + 1] = r
      BY <1>0, <2>0, <2>3, <3>2
    <3>. QED
      BY <1>3, <3>1, <3>3 DEF Bound
  <2>4. CASE j >= i + k
    <3> DEFINE p == j - k
    <3>1. p \in Span(t) /\ End(u.entries[j]) = End(t.entries[p])
      <4>1. CASE j > i + k
        BY <1>0, <2>0, <4>1
      <4>2. CASE j = i + 1 /\ k = 1
        <5>1. p = i /\ u.entries[j] = r
          BY <1>0, <2>0, <4>2
        <5>. QED
          BY <1>0, <1>3, <5>1
      <4>3. CASE j = i /\ k = 0
        <5>1. p = i /\ u.entries[j] = e
          BY <1>0, <2>0, <4>3
        <5>. QED
          BY <1>0, <1>3, <4>3, <5>1
      <4>. QED
        BY <1>0, <2>0, <2>4, <4>1, <4>2, <4>3
    <3>2. p \in Nat /\ (j + 1 < u.nb <=> p + 1 < t.nb)
      BY <1>0, <2>0, <2>4
    <3>3. ASSUME j + 1 < u.nb
          PROVE  u.entries[j + 1] = t.entries[p + 1]
      <4>1. Case(j + 1)
        BY <2>1, <3>3
      <4>2. (j + 1) - k = p + 1 /\ j + 1 > i + k
        BY <1>0, <2>0, <2>4
      <4>. QED
        BY <1>0, <2>0, <2>4, <4>1, <4>2
    <3> HIDE DEF p
    <3>4. End(t.entries[p]) = Bound(t, p)
      BY <3>1, EntryNumbers
    <3>. QED
      BY <3>1, <3>2, <3>3, <3>4 DEF Bound
  <2>. QED
    BY <1>0, <2>0, <2>2, <2>3, <2>4
<1>. QED
  BY <1>6, <1>7, <1>8, <1>9 DEF Tiling

(* A table stays good when a free entry is cut.                            *)
LEMMA SplitGood ==
  ASSUME NEW t, NEW u, NEW i, NEW k, NEW e, Good(t), Splits(t, u, i, k, e)
  PROVE  /\ Good(u) /\ Given(u) = Given(t) \cup {e.id} /\ Place(u, e.id) = e
         /\ \A id \in Given(t) : Place(u, id) = Place(t, id)
<1> DEFINE r == FreeEntry(End(e), t.entries[i].length - e.length)
           Case(j) == \/ j < i /\ j \in Span(t) /\ u.entries[j] = t.entries[j]
                      \/ j = i /\ u.entries[j] = e
                      \/ k = 1 /\ j = i + 1 /\ u.entries[j] = r
                      \/ /\ j > i + k /\ j - k \in Span(t) /\ j - k > i
                         /\ u.entries[j] = t.entries[j - k]
<1>0. /\ t \in Tables /\ u \in Tables /\ k \in {0, 1} /\ i \in Span(t) /\ u.nb = t.nb + k
      /\ t.nb \in Nat /\ i \in Nat /\ i < t.nb /\ u.nb \in 1 .. MaxAllocs
  BY EntryNumbers, TableFields DEF Good, Splits
<1>1. /\ e.id \in Ids /\ e.id \notin Given(t) /\ ~IsFree(e) /\ IsFree(r) /\ IsFree(t.entries[i])
      /\ u.entries[i] = e /\ u.refs[e.id].idx = i
  BY Parameters DEF Splits, IsFree, FreeEntry, Ids
<1> HIDE DEF r
<1>2. ASSUME NEW j \in Span(u)
      PROVE  j \in Nat /\ j < u.nb /\ Case(j)
  <2>1. j \in Nat /\ Case(j)
    BY SplitCases DEF r
  <2>. QED
    BY <1>0, <2>1 DEF Span
<1>3. ASSUME NEW id \in Given(t)
      PROVE  LET q == t.refs[id].idx
             IN  /\ id \in Ids /\ id # e.id /\ q \in Span(t) /\ q \in Nat /\ q < t.nb /\ q # i
                 /\ u.refs[id].idx = (IF q > i THEN q + k ELSE q)
                 /\ u.refs[id].idx \in Span(u)
                 /\ u.entries[u.refs[id].idx] = t.entries[q] /\ t.entries[q].id = id
  <2> DEFINE q == t.refs[id].idx
  <2>1. id \in Ids /\ id # e.id /\ q \in Span(t) /\ t.entries[q].id = id
    BY <1>1 DEF Good, Match, Given
  <2>2. q \in Nat /\ q < t.nb
    BY <2>1, EntryNumbers
  <2>3. q # i
    BY <1>1, <2>1, Parameters DEF IsFree, Ids
  <2>4. u.refs[id].idx = IF q > i THEN q + k ELSE q
    BY <1>3, <2>1 DEF Splits
  <2>5. (q < i => u.entries[q] = t.entries[q]) /\ (q > i => u.entries[q + k] = t.entries[q])
    BY <2>1 DEF Splits
  <2> HIDE DEF q
  <2>6. u.refs[id].idx \in Span(u)
    BY <1>0, <2>2, <2>4 DEF Span
  <2>7. u.entries[u.refs[id].idx] = t.entries[q]
    BY <1>0, <2>2, <2>3, <2>4, <2>5
  <2>. QED
    BY <2>1, <2>2, <2>3, <2>4, <2>6, <2>7 DEF q
<1>4. NoPair(u)
  <2> SUFFICES ASSUME NEW j \in Span(u), j + 1 < u.nb
               PROVE  ~(IsFree(u.entries[j]) /\ IsFree(u.entries[j + 1]))
    BY DEF NoPair
  <2>0. ASSUME NEW p \in Span(t), p + 1 < t.nb
        PROVE  ~(IsFree(t.entries[p]) /\ IsFree(t.entries[p + 1]))
    BY <2>0 DEF Good, NoPair
  <2>1. j \in Nat /\ Case(j)
    BY <1>2
  <2>2. Case(j + 1)
    <3>1. j + 1 \in Span(u)
      BY <1>0, <2>1 DEF Span
    <3>. QED
      BY <1>2, <3>1
  <2>3. CASE j < i /\ j + 1 < i
    <3>1. j \in Span(t) /\ u.entries[j] = t.entries[j] /\ u.entries[j + 1] = t.entries[j + 1]
          /\ j + 1 < t.nb
      BY <1>0, <2>1, <2>2, <2>3
    <3>. QED
      BY <2>0, <3>1
  <2>4. CASE j + 1 = i \/ j = i
    <3>1. u.entries[j] = e \/ u.entries[j + 1] = e
      BY <1>0, <1>1, <2>1, <2>2, <2>4
    <3>. QED
      BY <1>1, <3>1
  <2>5. CASE j > i
    <3> DEFINE p == j - k
    <3>1. p \in Span(t) /\ p + 1 < t.nb /\ u.entries[j + 1] = t.entries[p + 1]
          /\ p \in Nat /\ (p = i \/ u.entries[j] = t.entries[p])
      <4>1. (j + 1) - k = p + 1 /\ p \in Nat /\ p + 1 < t.nb
        BY <1>0, <2>1, <2>5
      <4>2. p \in Span(t)
        BY <1>0, <4>1 DEF Span
      <4>3. u.entries[j + 1] = t.entries[(j + 1) - k]
        BY <1>0, <2>1, <2>2, <2>5
      <4>4. p = i \/ u.entries[j] = t.entries[p]
        BY <1>0, <2>1, <2>5
      <4>. QED
        BY <4>1, <4>2, <4>3, <4>4
    <3> HIDE DEF p
    <3>2. ~(IsFree(t.entries[p]) /\ IsFree(t.entries[p + 1]))
      BY <2>0, <3>1
    <3>. QED
      BY <1>1, <3>1, <3>2
  <2>. QED
    BY <1>0, <2>1, <2>3, <2>4, <2>5
<1>5. Match(u)
  <2>1. ASSUME NEW j \in Span(u), ~IsFree(u.entries[j])
        PROVE  u.refs[u.entries[j].id].idx = j
    <3>1. j \in Nat /\ Case(j)
      BY <1>2
    <3>2. ASSUME NEW p \in Span(t), u.entries[j] = t.entries[p], p # i
          PROVE  u.refs[u.entries[j].id].idx = IF p > i THEN p + k ELSE p
      <4>1. t.refs[t.entries[p].id].idx = p /\ t.entries[p].id \in Ids
        BY <1>0, <2>1, <3>2, TableFields DEF Good, Match
      <4>2. t.entries[p].id \in Given(t)
        BY <1>0, <4>1, EntryNumbers, TableFields, Parameters DEF Given
      <4>. QED
        BY <1>3, <3>2, <4>1, <4>2
    <3>3. CASE j < i
      BY <1>0, <3>1, <3>2, <3>3
    <3>4. CASE j > i
      <4> DEFINE p == j - k
      <4>1. p \in Span(t) /\ u.entries[j] = t.entries[p] /\ p > i /\ p # i
        BY <1>0, <1>1, <2>1, <3>1, <3>4
      <4>2. p \in Nat /\ p + k = j
        BY <1>0, <3>1, <4>1, EntryNumbers
      <4> HIDE DEF p
      <4>3. u.refs[u.entries[j].id].idx = p + k
        BY <3>2, <4>1
      <4>. QED
        BY <4>2, <4>3
    <3>. QED
      BY <1>0, <1>1, <3>1, <3>3, <3>4
  <2>2. ASSUME NEW id \in Ids, u.refs[id].idx # NoId
        PROVE  u.refs[id].idx \in Span(u) /\ u.entries[u.refs[id].idx].id = id
    <3>1. CASE id = e.id
      <4>1. i \in Span(u)
        BY <1>0 DEF Span
      <4>. QED
        BY <1>1, <3>1, <4>1
    <3>2. CASE id # e.id
      <4>1. id \in Given(t)
        BY <2>2, <3>2 DEF Splits, Given
      <4>. QED
        BY <1>3, <4>1
    <3>. QED
      BY <3>1, <3>2
  <2>. QED
    BY <2>1, <2>2 DEF Match
<1>6. Given(u) = Given(t) \cup {e.id}
  <2>1. ASSUME NEW id \in Ids
        PROVE  u.refs[id].idx # NoId <=> id \in Given(t) \/ id = e.id
    <3>1. CASE id = e.id
      BY <1>0, <1>1, <3>1, Parameters
    <3>2. CASE id \in Given(t)
      <4>1. u.refs[id].idx \in Span(u)
        BY <1>3, <3>2
      <4>2. u.refs[id].idx < MaxAllocs
        <5> DEFINE q == u.refs[id].idx
        <5>1. q \in Nat /\ q < u.nb
          BY <1>2, <4>1
        <5> HIDE DEF q
        <5>2. q < MaxAllocs
          BY <1>0, <5>1, Parameters
        <5>. QED
          BY <5>2 DEF q
      <4>. QED
        BY <3>2, <4>1, <4>2, <1>2, Parameters
    <3>3. CASE id # e.id /\ id \notin Given(t)
      BY <3>3 DEF Splits, Given
    <3>. QED
      BY <3>1, <3>2, <3>3
  <2>. QED
    BY <1>1, <2>1 DEF Given
<1>7. Place(u, e.id) = e
  BY <1>1 DEF Place
<1>8. ASSUME NEW id \in Given(t)
      PROVE  Place(u, id) = Place(t, id)
  BY <1>3 DEF Place
<1>9. Tiling(u)
  BY SplitTiles
<1>. QED
  BY <1>0, <1>4, <1>5, <1>6, <1>7, <1>8, <1>9 DEF Good

LEMMA LooseEnd ==
  ASSUME NEW t \in Tables, Tiling(t), NEW j \in Span(t)
  PROVE  End(t.entries[j]) \in Cells
<1>1. j \in Nat /\ End(t.entries[j]) = Bound(t, j)
  BY LooseNumbers
<1>2. CASE j + 1 < t.nb
  <2>1. j + 1 \in Span(t)
    BY <1>1, <1>2, TableFields DEF Span
  <2>. QED
    BY <1>1, <1>2, <2>1, TableFields DEF Bound
<1>3. CASE ~(j + 1 < t.nb)
  BY <1>1, <1>3, Parameters DEF Bound
<1>. QED
  BY <1>2, <1>3

LEMMA EndInRam ==
  ASSUME NEW t, Good(t), NEW j \in Span(t)
  PROVE  End(t.entries[j]) \in Cells
BY LooseEnd DEF Good

-----------------------------------------------------------------------------
(* Esd_GpuAlloc_Alloc.                                                     *)

(* The free entry and the id it takes, and the block it makes of them.     *)
FreeAt(t, bytes)        == Min(OpenEntries(t, Align4(bytes)))
NewBlock(t, bytes, fls) ==
  [address |-> t.entries[FreeAt(t, bytes)].address, length |-> Align4(bytes),
   id |-> NewHandle(t).id, flags |-> fls \cup {"used"}]

(* Records, field by field.                                                *)
Refill(x, l, d, f)     == [x EXCEPT !.length = l, !.id = d, !.flags = f]
Rewrite(t, i, x, n, y) == [t EXCEPT !.entries[i] = x, !.refs[n] = y]

LEMMA Refilled ==
  ASSUME NEW x \in EntryType, NEW l, NEW d, NEW f
  PROVE  Refill(x, l, d, f)
           = [address |-> x.address, length |-> l, id |-> d, flags |-> f]
<1> DEFINE y == [x EXCEPT !.length = l, !.id = d, !.flags = f]
<1>1. y.address = x.address /\ y.length = l /\ y.id = d /\ y.flags = f
  BY DEF EntryType
<1>2. y \in [address : Cells, length : {l}, id : {d}, flags : {f}]
  BY DEF EntryType
<1> HIDE DEF y
<1>3. y = [address |-> y.address, length |-> y.length, id |-> y.id, flags |-> y.flags]
  BY <1>2
<1>. QED
  BY <1>1, <1>3 DEF y, Refill

LEMMA Rewritten ==
  ASSUME NEW t \in Tables, NEW i, NEW x, NEW n, NEW y
  PROVE  Rewrite(t, i, x, n, y)
           = [refs |-> [t.refs EXCEPT ![n] = y], entries |-> [t.entries EXCEPT ![i] = x],
              nb |-> t.nb]
<1> DEFINE w == [t EXCEPT !.entries[i] = x, !.refs[n] = y]
           a == [t.refs EXCEPT ![n] = y]
           b == [t.entries EXCEPT ![i] = x]
<1>1. w.refs = a /\ w.entries = b /\ w.nb = t.nb
  BY DEF Tables
<1>2. w \in [refs : {a}, entries : {b}, nb : {t.nb}]
  BY DEF Tables
<1> HIDE DEF w, a, b
<1>3. w = [refs |-> w.refs, entries |-> w.entries, nb |-> w.nb]
  BY <1>2
<1>. QED
  BY <1>1, <1>3 DEF w, a, b, Rewrite

(* Alloc finds an id that is not given out and a free entry long enough.   *)
LEMMA AllocTakes ==
  ASSUME NEW t, Good(t), NEW bytes \in Nat \ {0}, NEW fls \in SUBSET Flags,
         CanAlloc(t, bytes)
  PROVE  LET i == FreeAt(t, bytes)
             n == NewHandle(t).id
         IN  /\ i \in Span(t) /\ IsFree(t.entries[i]) /\ t.entries[i].length >= Align4(bytes)
             /\ Align4(bytes) \in Cells /\ Align4(bytes) > 0 /\ bytes <= Align4(bytes)
             /\ n \in Ids /\ n \notin Given(t)
             /\ NewHandle(t).seq = NextSeq(t.refs[n].seq)
             /\ NewHandle(t) \in [id : Ids, seq : 0 .. SeqCount - 1]
             /\ NewBlock(t, bytes, fls) \in EntryType
<1> DEFINE i == FreeAt(t, bytes)
           n == NewHandle(t).id
           a == Align4(bytes)
<1>0. t \in Tables
  BY DEF Good
<1>1. OpenEntries(t, a) \subseteq Span(t) /\ OpenEntries(t, a) # {}
      /\ UnusedIds(t) \subseteq Ids /\ UnusedIds(t) # {}
  BY DEF OpenEntries, UnusedIds, CanAlloc, Span
<1>2. Span(t) \subseteq Ids /\ Ids \subseteq Nat
  BY <1>0, TableFields, Parameters DEF Ids
<1>3. i \in OpenEntries(t, a)
  <2>1. OpenEntries(t, a) \in SUBSET Nat
    BY <1>1, <1>2
  <2>. QED
    BY <1>1, <2>1, MinIs DEF FreeAt
<1>4. n \in UnusedIds(t)
  <2>1. UnusedIds(t) \in SUBSET Nat
    BY <1>1, <1>2
  <2>2. Min(UnusedIds(t)) \in UnusedIds(t)
    BY <1>1, <2>1, MinIs
  <2>. QED
    BY <2>2 DEF NewHandle
<1>5. i \in Span(t) /\ IsFree(t.entries[i]) /\ t.entries[i].length >= a
  BY <1>3 DEF OpenEntries, Span
<1>6. a \in Nat /\ a % 4 = 0 /\ a > 0 /\ bytes <= a
  BY AlignIs
<1>7. a \in Cells
  <2>1. t.entries[i].length \in Cells
    BY <1>0, <1>2, <1>5, TableFields
  <2> HIDE DEF a, i
  <2>. QED
    BY <1>5, <1>6, <2>1, Parameters DEF Cells
<1>8. n \in Ids /\ n \notin Given(t)
  BY <1>4 DEF UnusedIds, Given
<1>9. NewHandle(t).seq = NextSeq(t.refs[n].seq)
  BY DEF NewHandle
<1>10. NewHandle(t) \in [id : Ids, seq : 0 .. SeqCount - 1]
  <2>1. NextSeq(t.refs[n].seq) \in 0 .. SeqCount - 1
    BY <1>0, <1>8, TableFields, SeqMoves
  <2>2. NewHandle(t) = [id |-> n, seq |-> NextSeq(t.refs[n].seq)]
    BY DEF NewHandle
  <2> HIDE DEF n
  <2>. QED
    BY <1>8, <2>1, <2>2
<1>11. NewBlock(t, bytes, fls) \in EntryType
  <2>1. t.entries[i].address \in Cells
    BY <1>0, <1>2, <1>5, TableFields
  <2>2. n \in 0 .. MaxAllocs
    BY <1>8, Parameters DEF Ids
  <2>3. fls \cup {"used"} \in SUBSET Flags
    BY DEF Flags
  <2>4. NewBlock(t, bytes, fls) =
          [address |-> t.entries[i].address, length |-> a, id |-> n, flags |-> fls \cup {"used"}]
    BY DEF NewBlock
  <2> HIDE DEF a, i, n
  <2>. QED
    BY <1>7, <2>1, <2>2, <2>3, <2>4 DEF EntryType
<1>. QED
  BY <1>5, <1>6, <1>7, <1>8, <1>9, <1>10, <1>11

(* Alloc cuts that entry.                                                  *)
LEMMA AllocSplits ==
  ASSUME NEW t, Good(t), NEW bytes \in Nat \ {0}, NEW fls \in SUBSET Flags,
         CanAlloc(t, bytes)
  PROVE  LET i == FreeAt(t, bytes)
             e == NewBlock(t, bytes, fls)
             u == Alloc(t, bytes, fls)
         IN  /\ \E k \in {0, 1} : Splits(t, u, i, k, e)
             /\ u.refs[e.id].seq = NewHandle(t).seq
             /\ \A id \in Ids : id # e.id => u.refs[id].seq = t.refs[id].seq
<1> DEFINE i == FreeAt(t, bytes)
           e == NewBlock(t, bytes, fls)
           n == NewHandle(t).id
           s == NewHandle(t).seq
           rest == t.entries[i].length - Align4(bytes)
           v == [refs    |-> [t.refs EXCEPT ![n] = [idx |-> i, seq |-> s]],
                 entries |-> [t.entries EXCEPT ![i] = e], nb |-> t.nb]
           u == Alloc(t, bytes, fls)
<1>0. /\ t \in Tables /\ t.nb \in 1 .. MaxAllocs /\ t.nb < MaxAllocs
      /\ t.refs \in [Ids -> RefType] /\ t.entries \in [Ids -> EntryType]
      /\ Span(t) \subseteq Ids
  BY TableFields DEF Good, CanAlloc
<1>1. /\ i \in Span(t) /\ IsFree(t.entries[i]) /\ t.entries[i].length >= Align4(bytes)
      /\ Align4(bytes) \in Cells /\ Align4(bytes) > 0
      /\ n \in Ids /\ n \notin Given(t) /\ s = NextSeq(t.refs[n].seq)
      /\ s \in 0 .. SeqCount - 1 /\ e \in EntryType
  BY AllocTakes
<1>2. e.address = t.entries[i].address /\ e.length = Align4(bytes) /\ e.id = n
      /\ e.flags = fls \cup {"used"}
  BY DEF NewBlock
<1>3. i \in Ids /\ i \in Nat /\ i < t.nb
  BY <1>0, <1>1, EntryNumbers
<1>4. u = IF rest = 0 THEN v ELSE InsertFree(v, i + 1, rest)
  <2>1. [t.entries[i] EXCEPT !.length = Align4(bytes), !.id = n, !.flags = fls \cup {"used"}] = e
    <3> DEFINE x == t.entries[i]
               l == Align4(bytes)
               f == fls \cup {"used"}
    <3>1. x \in EntryType
      BY <1>0, <1>3
    <3>2. e = [address |-> x.address, length |-> l, id |-> n, flags |-> f]
      BY DEF NewBlock
    <3> HIDE DEF x, l, f, n, e
    <3>3. Refill(x, l, n, f) = e
      BY <3>1, <3>2, Refilled
    <3>. QED
      BY <3>3 DEF x, l, f, Refill
  <2>2. [t EXCEPT !.entries[i] = e, !.refs[n] = [idx |-> i, seq |-> s]] = v
    <3> HIDE DEF e, i, n, s
    <3>1. Rewrite(t, i, e, n, [idx |-> i, seq |-> s]) = v
      BY <1>0, Rewritten DEF v
    <3>. QED
      BY <3>1 DEF Rewrite
  <2>3. [t EXCEPT !.entries[i] = [@ EXCEPT !.length = Align4(bytes), !.id = n,
                                           !.flags = fls \cup {"used"}],
                  !.refs[n] = [idx |-> i, seq |-> s]] = v
    <3> HIDE DEF e, i, n, s, v
    <3>. QED
      BY <2>1, <2>2
  <2>. QED
    BY <2>3 DEF Alloc, Remaining, FreeAt
<1>5. rest \in Nat /\ rest \in Cells /\ End(e) \in Cells
  <2> DEFINE l == t.entries[i].length
             a == t.entries[i].address
  <2>1. l \in Cells /\ a \in Cells
    BY <1>0, <1>3, TableFields
  <2>2. End(t.entries[i]) \in Cells /\ End(t.entries[i]) = a + l
    BY <1>1, EndInRam DEF End
  <2>3. End(e) = a + Align4(bytes) /\ rest = l - Align4(bytes)
    BY <1>2 DEF End
  <2> HIDE DEF l, a, rest, e
  <2>. QED
    BY <1>1, <2>1, <2>2, <2>3, Parameters DEF Cells, l
<1> HIDE DEF i, e, n, s, rest, u
<1>6. v \in Tables
  <2>1. [idx |-> i, seq |-> s] \in RefType
    BY <1>0, <1>1, <1>3, Parameters DEF RefType
  <2>2. [t.refs EXCEPT ![n] = [idx |-> i, seq |-> s]] \in [Ids -> RefType]
    BY <1>0, <1>1, <2>1
  <2>3. [t.entries EXCEPT ![i] = e] \in [Ids -> EntryType]
    BY <1>0, <1>1
  <2>. QED
    BY <1>0, <2>2, <2>3 DEF Tables
<1>7. /\ v.nb = t.nb /\ v.refs[n] = [idx |-> i, seq |-> s]
      /\ v.entries[i] = e
      /\ \A id \in Ids : id # n => v.refs[id] = t.refs[id]
      /\ \A j \in Ids : j # i => v.entries[j] = t.entries[j]
  BY <1>0, <1>1, <1>3
<1> HIDE DEF v
<1>8. CASE rest = 0
  <2>1. u = v
    BY <1>4, <1>8
  <2>2. \A j \in Span(t) : (j < i => u.entries[j] = t.entries[j])
                           /\ (j > i => u.entries[j + 0] = t.entries[j])
    <3> SUFFICES ASSUME NEW j \in Span(t)
                 PROVE  (j < i => u.entries[j] = t.entries[j])
                        /\ (j > i => u.entries[j + 0] = t.entries[j])
      OBVIOUS
    <3>1. j \in Nat /\ j \in Ids /\ j + 0 = j
      BY <1>0, EntryNumbers
    <3>. QED
      BY <1>3, <1>7, <2>1, <3>1
  <2>3. \A id \in Ids : id # e.id =>
           u.refs[id].idx = IF id \in Given(t) /\ t.refs[id].idx > i
                            THEN t.refs[id].idx + 0 ELSE t.refs[id].idx
    <3> SUFFICES ASSUME NEW id \in Ids, id # e.id
                 PROVE  u.refs[id].idx = IF id \in Given(t) /\ t.refs[id].idx > i
                                         THEN t.refs[id].idx + 0 ELSE t.refs[id].idx
      OBVIOUS
    <3>1. u.refs[id].idx = t.refs[id].idx /\ t.refs[id].idx + 0 = t.refs[id].idx
      BY <1>0, <1>2, <1>7, <2>1, TableFields
    <3>. QED
      BY <3>1
  <2>4. e.length = t.entries[i].length
    <3> DEFINE l == t.entries[i].length
               a == Align4(bytes)
    <3>1. l \in Nat /\ a \in Nat /\ rest = l - a
      BY <1>1, EntryNumbers, Parameters DEF rest
    <3> HIDE DEF l, a
    <3>2. a = l
      BY <1>8, <3>1
    <3>. QED
      BY <1>2, <3>2 DEF l, a
  <2>5. Splits(t, u, i, 0, e)
    BY <1>0, <1>1, <1>2, <1>6, <1>7, <2>1, <2>2, <2>3, <2>4 DEF Splits
  <2>. QED
    BY <1>2, <1>7, <2>1, <2>5 DEF i, e, u, s
<1>9. CASE rest # 0
  <2>1. u = InsertFree(v, i + 1, rest)
    BY <1>4, <1>9
  <2>2. /\ u.nb = t.nb + 1 /\ u.refs = RefsMoveUp(v, i + 1)
        /\ u.entries = [j \in Ids |->
             IF j = i + 1
             THEN FreeEntry(v.entries[(i + 1) - 1].address + v.entries[(i + 1) - 1].length, rest)
             ELSE IF j \in (i + 1) + 1 .. v.nb THEN v.entries[j - 1] ELSE v.entries[j]]
        /\ u = [refs |-> u.refs, entries |-> u.entries, nb |-> u.nb]
    BY <1>7, <2>1 DEF InsertFree
  <2>3. FreeEntry(v.entries[(i + 1) - 1].address + v.entries[(i + 1) - 1].length, rest)
          = FreeEntry(End(e), rest)
    <3>1. (i + 1) - 1 = i
      BY <1>3
    <3>. QED
      BY <1>7, <3>1 DEF End
  <2>4. FreeEntry(End(e), rest) \in EntryType
    BY <1>5, Parameters DEF FreeEntry, EntryType
  <2>5. u.entries = [j \in Ids |-> IF j = i + 1 THEN FreeEntry(End(e), rest)
                                   ELSE IF j \in i + 2 .. t.nb THEN v.entries[j - 1]
                                   ELSE v.entries[j]]
    <3>1. (i + 1) + 1 = i + 2
      BY <1>3
    <3>. QED
      BY <1>7, <2>2, <2>3, <3>1
  <2>6. u.entries \in [Ids -> EntryType]
    <3>1. v.entries \in [Ids -> EntryType]
      BY <1>6, TableFields
    <3>2. ASSUME NEW j \in Ids, j \in i + 2 .. t.nb
          PROVE  j - 1 \in Ids
      BY <1>0, <1>3, <3>2, Parameters DEF Ids
    <3>. QED
      BY <2>4, <2>5, <3>1, <3>2
  <2>7. /\ u.entries[i] = e
        /\ u.entries[i + 1] = FreeEntry(End(e), rest)
        /\ \A j \in Span(t) : (j < i => u.entries[j] = t.entries[j])
                              /\ (j > i => u.entries[j + 1] = t.entries[j])
    <3>1. i + 1 \in Ids
      BY <1>0, <1>3, Parameters DEF Ids
    <3>2. u.entries[i] = e /\ u.entries[i + 1] = FreeEntry(End(e), rest)
      BY <1>3, <1>7, <2>5, <3>1
    <3>3. ASSUME NEW j \in Span(t), j < i
          PROVE  u.entries[j] = t.entries[j]
      <4>1. j \in Nat /\ j \in Ids
        BY <1>0, EntryNumbers
      <4>2. u.entries[j] = v.entries[j]
        BY <1>3, <2>5, <3>3, <4>1
      <4>. QED
        BY <1>3, <1>7, <3>3, <4>1, <4>2
    <3>4. ASSUME NEW j \in Span(t), j > i
          PROVE  u.entries[j + 1] = t.entries[j]
      <4>1. j \in Nat /\ j \in Ids /\ j < t.nb
        BY <1>0, EntryNumbers
      <4>2. j + 1 \in Ids /\ j + 1 # i + 1 /\ j + 1 \in i + 2 .. t.nb /\ (j + 1) - 1 = j
        BY <1>0, <1>3, <3>4, <4>1, Parameters DEF Ids
      <4>3. u.entries[j + 1] = v.entries[j]
        BY <2>5, <4>2
      <4>. QED
        BY <1>3, <1>7, <3>4, <4>1, <4>3
    <3>. QED
      BY <3>2, <3>3, <3>4
  <2>8. ASSUME NEW id \in Ids
        PROVE  /\ u.refs[id].seq = v.refs[id].seq
               /\ id = n => u.refs[id].idx = i
               /\ id # n => u.refs[id].idx = IF id \in Given(t) /\ t.refs[id].idx > i
                                             THEN t.refs[id].idx + 1 ELSE t.refs[id].idx
               /\ u.refs[id] \in RefType
    <3> DEFINE Moves == \E j \in i + 1 .. t.nb - 1 : v.entries[j].id = id
    <3>1. u.refs[id] = IF Moves THEN [v.refs[id] EXCEPT !.idx = @ + 1] ELSE v.refs[id]
      BY <1>7, <2>2 DEF RefsMoveUp
    <3>2. v.refs[id] \in RefType
      BY <1>6, TableFields
    <3>3. ASSUME Moves
          PROVE  id \in Given(t) /\ t.refs[id].idx > i
      <4>1. PICK j \in i + 1 .. t.nb - 1 : v.entries[j].id = id
        BY <3>3
      <4>2. j \in Span(t) /\ j # i /\ j > i
        BY <1>0, <1>3, <4>1 DEF Span
      <4>3. t.entries[j].id = id
        BY <1>0, <1>7, <4>1, <4>2
      <4>4. t.refs[id].idx = j
        BY <4>2, <4>3, Parameters DEF Good, Match, IsFree, Ids
      <4>5. j # NoId
        BY <1>0, <4>2, EntryNumbers, Parameters
      <4>. QED
        BY <4>2, <4>4, <4>5 DEF Given
    <3>4. ASSUME id \in Given(t), t.refs[id].idx > i
          PROVE  Moves /\ t.refs[id].idx < t.nb
      <4> DEFINE j == t.refs[id].idx
      <4>1. j \in Span(t) /\ t.entries[j].id = id
        BY <3>4 DEF Good, Match, Given
      <4>2. j \in i + 1 .. t.nb - 1 /\ j # i /\ j \in Ids
        BY <1>0, <1>3, <3>4, <4>1, EntryNumbers
      <4>3. v.entries[j].id = id
        BY <1>7, <4>1, <4>2
      <4>4. j < t.nb
        BY <4>1, EntryNumbers
      <4>. QED
        BY <4>2, <4>3, <4>4
    <3> HIDE DEF Moves
    <3>5. CASE Moves
      <4>1. u.refs[id] = [v.refs[id] EXCEPT !.idx = @ + 1]
        BY <3>1, <3>5
      <4>2. id # n /\ v.refs[id] = t.refs[id]
        BY <1>1, <1>7, <3>3, <3>5
      <4>3. /\ u.refs[id].seq = v.refs[id].seq /\ u.refs[id].idx = t.refs[id].idx + 1
            /\ u.refs[id] = [idx |-> t.refs[id].idx + 1, seq |-> t.refs[id].seq]
        BY <3>2, <4>1, <4>2 DEF RefType
      <4>4. t.refs[id].idx + 1 \in 0 .. MaxAllocs /\ t.refs[id].seq \in 0 .. SeqCount - 1
        <5> DEFINE q == t.refs[id].idx
        <5>1. q \in 0 .. MaxAllocs /\ q < t.nb /\ t.refs[id].seq \in 0 .. SeqCount - 1
          BY <1>0, <3>3, <3>4, <3>5, TableFields
        <5> HIDE DEF q
        <5>2. q + 1 \in 0 .. MaxAllocs
          BY <1>0, <5>1, Parameters
        <5>. QED
          BY <5>1, <5>2 DEF q
      <4>. QED
        BY <3>3, <3>5, <4>2, <4>3, <4>4 DEF RefType
    <3>6. CASE ~Moves
      <4>1. u.refs[id] = v.refs[id]
        BY <3>1, <3>6
      <4>2. id # n => v.refs[id] = t.refs[id] /\ ~(id \in Given(t) /\ t.refs[id].idx > i)
        BY <1>7, <3>4, <3>6
      <4>3. id = n => v.refs[id].idx = i
        BY <1>7
      <4>. QED
        BY <3>2, <4>1, <4>2, <4>3
    <3>. QED
      BY <3>5, <3>6
  <2>9. u \in Tables
    <3>1. u.refs \in [Ids -> RefType]
      BY <2>2, <2>8 DEF RefsMoveUp
    <3>2. u.nb \in 1 .. MaxAllocs
      BY <1>0, <2>2, Parameters
    <3>. QED
      BY <2>2, <2>6, <3>1, <3>2 DEF Tables
  <2>10. e.length < t.entries[i].length /\ t.entries[i].length - e.length = rest
    <3> DEFINE l == t.entries[i].length
               a == Align4(bytes)
    <3>1. l \in Nat /\ a \in Nat /\ rest = l - a /\ a <= l
      BY <1>1, EntryNumbers, Parameters DEF rest
    <3> HIDE DEF l, a
    <3>2. a < l /\ l - a = rest
      BY <1>9, <3>1
    <3>. QED
      BY <1>2, <3>2 DEF l, a
  <2>11. Splits(t, u, i, 1, e)
    <3>1. u.entries[i + 1] = FreeEntry(End(e), t.entries[i].length - e.length)
      BY <2>7, <2>10
    <3>2. u.refs[e.id].idx = i
      BY <1>1, <1>2, <2>8
    <3>3. \A id \in Ids : id # e.id =>
             u.refs[id].idx = IF id \in Given(t) /\ t.refs[id].idx > i
                              THEN t.refs[id].idx + 1 ELSE t.refs[id].idx
      BY <1>2, <2>8
    <3>4. e.id \in Ids /\ e.id \notin Given(t) /\ e.length > 0
      BY <1>1, <1>2
    <3>5. /\ i \in Span(t) /\ IsFree(t.entries[i]) /\ e \in EntryType
          /\ e.address = t.entries[i].address /\ u.nb = t.nb + 1
          /\ 1 \in {0, 1} /\ e.length < t.entries[i].length
      BY <1>1, <1>2, <2>2, <2>10
    <3>. QED
      BY ONLY <2>7, <2>9, <3>1, <3>2, <3>3, <3>4, <3>5 DEF Splits
  <2>. QED
    BY <1>1, <1>2, <1>7, <2>8, <2>11 DEF i, e, u, s
<1>. QED
  BY <1>8, <1>9

(* What Alloc returns: a block of the size asked for, under a new id, and  *)
(* the others where they were.                                             *)
LEMMA AllocGood ==
  ASSUME NEW t, Good(t), NEW bytes \in Nat \ {0}, NEW fls \in SUBSET Flags,
         CanAlloc(t, bytes)
  PROVE  LET n == NewHandle(t)
             u == Alloc(t, bytes, fls)
         IN  /\ n \in [id : Ids, seq : 0 .. SeqCount - 1] /\ n.id \in Ids /\ n.id \notin Given(t)
             /\ Good(u) /\ Given(u) = Given(t) \cup {n.id}
             /\ \A id \in Given(t) : Place(u, id) = Place(t, id)
             /\ Place(u, n.id) = NewBlock(t, bytes, fls)
             /\ Place(u, n.id).length = Align4(bytes) /\ bytes <= Align4(bytes)
             /\ Place(u, n.id).flags = fls \cup {"used"}
             /\ n.seq = NextSeq(t.refs[n.id].seq) /\ u.refs[n.id].seq = n.seq
             /\ \A id \in Ids : id # n.id => u.refs[id].seq = t.refs[id].seq
<1> DEFINE n == NewHandle(t)
           u == Alloc(t, bytes, fls)
           e == NewBlock(t, bytes, fls)
           i == FreeAt(t, bytes)
<1>1. /\ n.id \in Ids /\ n.id \notin Given(t) /\ n.seq = NextSeq(t.refs[n.id].seq)
      /\ n \in [id : Ids, seq : 0 .. SeqCount - 1] /\ bytes <= Align4(bytes)
  BY AllocTakes
<1>2. PICK k \in {0, 1} : Splits(t, u, i, k, e)
  BY AllocSplits
<1>3. u.refs[e.id].seq = n.seq /\ \A id \in Ids : id # e.id => u.refs[id].seq = t.refs[id].seq
  BY AllocSplits
<1>4. e.id = n.id /\ e.length = Align4(bytes) /\ e.flags = fls \cup {"used"}
  BY DEF NewBlock
<1> HIDE DEF n, u, e, i
<1>5. /\ Good(u) /\ Given(u) = Given(t) \cup {e.id} /\ Place(u, e.id) = e
      /\ \A id \in Given(t) : Place(u, id) = Place(t, id)
  BY <1>2, SplitGood
<1>6. /\ n \in [id : Ids, seq : 0 .. SeqCount - 1] /\ n.id \in Ids /\ n.id \notin Given(t)
      /\ Good(u) /\ Given(u) = Given(t) \cup {n.id}
      /\ \A id \in Given(t) : Place(u, id) = Place(t, id)
      /\ Place(u, n.id) = e
      /\ Place(u, n.id).length = Align4(bytes) /\ bytes <= Align4(bytes)
      /\ Place(u, n.id).flags = fls \cup {"used"}
      /\ n.seq = NextSeq(t.refs[n.id].seq) /\ u.refs[n.id].seq = n.seq
      /\ \A id \in Ids : id # n.id => u.refs[id].seq = t.refs[id].seq
  BY <1>1, <1>3, <1>4, <1>5
<1>. QED
  BY <1>6 DEF n, u, e

-----------------------------------------------------------------------------
(* GpuAlloc_CollapseFree and Esd_GpuAlloc_Free.                            *)

(* What CollapseFree is handed: entry at has just become free, and may     *)
(* have free neighbours.                                                   *)
Loose(t, at) ==
  /\ t \in Tables /\ Tiling(t) /\ Match(t)
  /\ at \in Span(t) /\ IsFree(t.entries[at])
  /\ \A i \in Span(t) : i + 1 < t.nb /\ i # at /\ i + 1 # at =>
       ~(IsFree(t.entries[i]) /\ IsFree(t.entries[i + 1]))

(* The free entries low .. low + s become one, and those after it move     *)
(* down.                                                                   *)
Merges(t, u, at, low, s) ==
  /\ u \in Tables /\ s \in {0, 1, 2} /\ low \in Nat /\ low + s < t.nb /\ u.nb = t.nb - s
  /\ low <= at /\ at <= low + s
  /\ \A j \in Span(t) : low <= j /\ j <= low + s => IsFree(t.entries[j])
  /\ low > 0 => ~IsFree(t.entries[low - 1])
  /\ low + s + 1 < t.nb => ~IsFree(t.entries[low + s + 1])
  /\ IsFree(u.entries[low]) /\ u.entries[low].address = t.entries[low].address
  /\ End(u.entries[low]) = End(t.entries[low + s])
  /\ \A j \in Span(t) : (j < low => u.entries[j] = t.entries[j])
                        /\ (j > low + s => u.entries[j - s] = t.entries[j])
  /\ \A id \in Ids :
       /\ u.refs[id].seq = t.refs[id].seq
       /\ u.refs[id].idx = IF id \in Given(t) /\ t.refs[id].idx > low
                           THEN t.refs[id].idx - s ELSE t.refs[id].idx

(* Which entries there are after the merge.                                *)
LEMMA MergeCases ==
  ASSUME NEW t, NEW u, NEW at, NEW low, NEW s, Loose(t, at), Merges(t, u, at, low, s),
         NEW j \in Span(u)
  PROVE  /\ j \in Nat /\ j < u.nb
         /\ \/ j < low /\ j \in Span(t) /\ u.entries[j] = t.entries[j]
            \/ j = low
            \/ /\ j > low /\ j + s \in Span(t) /\ j + s > low + s
               /\ u.entries[j] = t.entries[j + s]
<1>1. /\ s \in {0, 1, 2} /\ low \in Nat /\ low + s < t.nb /\ u.nb = t.nb - s
      /\ t.nb \in 1 .. MaxAllocs
  BY TableFields DEF Loose, Merges
<1>2. j \in Nat /\ j < u.nb /\ t.nb \in Nat
  BY <1>1, Parameters DEF Span
<1>3. CASE j < low
  <2>1. j \in Span(t)
    BY <1>1, <1>2, <1>3 DEF Span
  <2>. QED
    BY <1>2, <1>3, <2>1 DEF Merges
<1>4. CASE j > low
  <2>1. j + s \in Span(t) /\ j + s > low + s /\ (j + s) - s = j
    BY <1>1, <1>2, <1>4 DEF Span
  <2>2. u.entries[(j + s) - s] = t.entries[j + s]
    BY <2>1 DEF Merges
  <2>. QED
    BY <1>2, <1>4, <2>1, <2>2
<1>. QED
  BY <1>1, <1>2, <1>3, <1>4

(* Joining free neighbours keeps the entries end to end.                   *)
LEMMA MergeTiles ==
  ASSUME NEW t, NEW u, NEW at, NEW low, NEW s, Loose(t, at), Merges(t, u, at, low, s)
  PROVE  Tiling(u)
<1> DEFINE Case(j) == \/ j < low /\ j \in Span(t) /\ u.entries[j] = t.entries[j]
                      \/ j = low
                      \/ /\ j > low /\ j + s \in Span(t) /\ j + s > low + s
                         /\ u.entries[j] = t.entries[j + s]
           top == low + s
<1>0. /\ t \in Tables /\ u \in Tables /\ s \in {0, 1, 2} /\ low \in Nat /\ low + s < t.nb
      /\ u.nb = t.nb - s /\ t.nb \in 1 .. MaxAllocs /\ t.nb \in Nat /\ u.nb \in Nat
      /\ low \in Span(t) /\ top \in Span(t) /\ low \in Span(u) /\ top \in Nat /\ low <= top
  <2>1. /\ t \in Tables /\ u \in Tables /\ s \in {0, 1, 2} /\ low \in Nat /\ low + s < t.nb
        /\ u.nb = t.nb - s /\ t.nb \in 1 .. MaxAllocs
    BY TableFields DEF Loose, Merges
  <2>. QED
    BY <2>1, Parameters DEF Span
<1>1. ASSUME NEW j \in Span(t)
      PROVE  /\ j \in Nat /\ j < t.nb
             /\ t.entries[j].address \in Nat /\ t.entries[j].length > 0
             /\ End(t.entries[j]) \in Nat /\ t.entries[j].address < End(t.entries[j])
             /\ End(t.entries[j]) = Bound(t, j)
  BY LooseNumbers DEF Loose
<1>2. ASSUME NEW a \in Span(t), NEW b \in Span(t), a < b
      PROVE  End(t.entries[a]) <= t.entries[b].address
  BY <1>2 DEF Loose, Tiling
<1>3. ASSUME NEW j \in Span(u)
      PROVE  j \in Nat /\ j < u.nb /\ Case(j)
  BY MergeCases
<1>4. /\ u.entries[low].address = t.entries[low].address
      /\ End(u.entries[low]) = End(t.entries[top])
  BY DEF Merges
<1>5. t.entries[low].address < End(t.entries[top])
  <2>1. CASE low = top
    BY <1>0, <1>1, <2>1
  <2>2. CASE low < top
    <3>1. End(t.entries[low]) <= t.entries[top].address
      BY <1>0, <1>2, <2>2
    <3>. QED
      BY <1>0, <1>1, <3>1
  <2>. QED
    BY <1>0, <2>1, <2>2
<1> HIDE DEF top
<1>6. top = low + s
  BY DEF top
<1>7. u.entries[low].length > 0 /\ u.entries[low].address \in Nat /\ End(u.entries[low]) \in Nat
  <2>1. /\ u.entries[low].address \in Nat /\ u.entries[low].length \in Nat
        /\ End(u.entries[low]) = u.entries[low].address + u.entries[low].length
    BY <1>0, TableFields, Parameters DEF End
  <2>2. u.entries[low].address < End(u.entries[low])
    BY <1>4, <1>5
  <2>. QED
    BY <2>1, <2>2
<1>8. u.entries[0].address = 0
  <2>1. 0 \in Span(u) /\ t.entries[0].address = 0
    BY <1>0, TableFields DEF Loose, Tiling
  <2>2. Case(0)
    BY <1>3, <2>1
  <2>. QED
    BY <1>0, <1>4, <2>1, <2>2
<1>9. ASSUME NEW j \in Span(u)
      PROVE  u.entries[j].length > 0
  <2>1. Case(j)
    BY <1>3
  <2>2. CASE j \in Span(t) /\ u.entries[j] = t.entries[j]
    BY <2>2, <1>1
  <2>3. CASE j + s \in Span(t) /\ u.entries[j] = t.entries[j + s]
    <3> DEFINE m == j + s
    <3> HIDE DEF m
    <3>1. m \in Span(t) /\ u.entries[j] = t.entries[m]
      BY <2>3 DEF m
    <3>. QED
      BY <3>1, <1>1
  <2>. QED
    BY <1>7, <2>1, <2>2, <2>3
<1>10. ASSUME NEW j \in Span(u), NEW m \in Span(u), j < m
       PROVE  End(u.entries[j]) <= u.entries[m].address
  <2>0. j \in Nat /\ m \in Nat /\ Case(j) /\ Case(m) /\ j < m
    BY <1>3, <1>10
  <2>1. CASE m < low
    <3>1. /\ m \in Span(t) /\ j \in Span(t)
          /\ u.entries[m] = t.entries[m] /\ u.entries[j] = t.entries[j]
      BY <1>0, <2>0, <2>1
    <3>. QED
      BY <1>2, <2>0, <3>1
  <2>2. CASE m = low
    <3>1. j \in Span(t) /\ u.entries[j] = t.entries[j]
      BY <1>0, <2>0, <2>2
    <3>2. End(t.entries[j]) <= t.entries[low].address
      BY <1>0, <1>2, <2>0, <2>2, <3>1
    <3>. QED
      BY <1>4, <2>2, <3>1, <3>2
  <2>3. CASE m > low
    <3> DEFINE q == m + s
    <3>1. q \in Span(t) /\ q > top /\ u.entries[m] = t.entries[q] /\ q \in Nat /\ q = m + s
      BY <1>0, <1>6, <2>0, <2>3
    <3> HIDE DEF q
    <3>2. CASE j < low
      <4>1. j \in Span(t) /\ u.entries[j] = t.entries[j] /\ j < q
        BY <1>0, <2>0, <3>1, <3>2
      <4>. QED
        BY <1>2, <3>1, <4>1
    <3>3. CASE j = low
      <4>1. End(t.entries[top]) <= t.entries[q].address
        BY <1>0, <1>2, <3>1
      <4>. QED
        BY <1>4, <3>1, <3>3, <4>1
    <3>4. CASE j > low
      <4> DEFINE p == j + s
      <4>1. p \in Span(t) /\ p < q /\ u.entries[j] = t.entries[p]
        BY <1>0, <2>0, <3>1, <3>4
      <4> HIDE DEF p
      <4>. QED
        BY <1>2, <3>1, <4>1
    <3>. QED
      BY <1>0, <2>0, <3>2, <3>3, <3>4
  <2>. QED
    BY <1>0, <2>0, <2>1, <2>2, <2>3
<1>11. ASSUME NEW j \in Span(u)
       PROVE  End(u.entries[j]) = Bound(u, j)
  <2>0. j \in Nat /\ Case(j) /\ j < u.nb
    BY <1>3
  <2>1. ASSUME j + 1 < u.nb
        PROVE  Case(j + 1)
    <3>1. j + 1 \in Span(u)
      BY <1>0, <2>0, <2>1 DEF Span
    <3>. QED
      BY <1>3, <3>1
  <2>2. CASE j < low
    <3>1. u.entries[j] = t.entries[j] /\ j \in Span(t) /\ j + 1 < t.nb /\ j + 1 < u.nb
      BY <1>0, <2>0, <2>2
    <3>2. End(t.entries[j]) = t.entries[j + 1].address
      BY <1>1, <3>1 DEF Bound
    <3>3. u.entries[j + 1].address = t.entries[j + 1].address
      <4>1. Case(j + 1)
        BY <2>1, <3>1
      <4>. QED
        BY <1>0, <1>4, <2>0, <2>2, <4>1
    <3>. QED
      BY <3>1, <3>2, <3>3 DEF Bound
  <2>3. CASE j >= low
    <3> DEFINE p == j + s
    <3>1. p \in Span(t) /\ End(u.entries[j]) = End(t.entries[p])
      <4>1. CASE j > low
        BY <1>0, <2>0, <4>1
      <4>2. CASE j = low
        BY <1>0, <1>4, <1>6, <4>2
      <4>. QED
        BY <1>0, <2>0, <2>3, <4>1, <4>2
    <3>2. p \in Nat /\ (j + 1 < u.nb <=> p + 1 < t.nb)
      BY <1>0, <2>0
    <3>3. ASSUME j + 1 < u.nb
          PROVE  u.entries[j + 1] = t.entries[p + 1]
      <4>1. Case(j + 1)
        BY <2>1, <3>3
      <4>2. (j + 1) + s = p + 1 /\ j + 1 > low
        BY <1>0, <2>0, <2>3
      <4>. QED
        BY <1>0, <2>0, <4>1, <4>2
    <3> HIDE DEF p
    <3>4. End(t.entries[p]) = Bound(t, p)
      BY <1>1, <3>1
    <3>. QED
      BY <3>1, <3>2, <3>3, <3>4 DEF Bound
  <2>. QED
    BY <1>0, <2>0, <2>2, <2>3
<1>. QED
  BY <1>8, <1>9, <1>10, <1>11 DEF Tiling

(* It keeps the references right, and leaves no two free entries side by   *)
(* side.                                                                   *)
LEMMA MergeGood ==
  ASSUME NEW t, NEW u, NEW at, NEW low, NEW s, Loose(t, at), Merges(t, u, at, low, s)
  PROVE  /\ Good(u) /\ Given(u) = Given(t)
         /\ \A id \in Given(t) : Place(u, id) = Place(t, id)
         /\ \A id \in Ids : u.refs[id].seq = t.refs[id].seq
<1> DEFINE Case(j) == \/ j < low /\ j \in Span(t) /\ u.entries[j] = t.entries[j]
                      \/ j = low
                      \/ /\ j > low /\ j + s \in Span(t) /\ j + s > low + s
                         /\ u.entries[j] = t.entries[j + s]
<1>0. /\ t \in Tables /\ u \in Tables /\ s \in {0, 1, 2} /\ low \in Nat /\ low + s < t.nb
      /\ u.nb = t.nb - s /\ t.nb \in 1 .. MaxAllocs /\ t.nb \in Nat /\ u.nb \in Nat
      /\ low \in Span(t) /\ low \in Span(u) /\ at \in Nat /\ low <= at /\ at <= low + s
      /\ IsFree(u.entries[low])
  <2>1. /\ t \in Tables /\ u \in Tables /\ s \in {0, 1, 2} /\ low \in Nat /\ low + s < t.nb
        /\ u.nb = t.nb - s /\ t.nb \in 1 .. MaxAllocs /\ at \in Span(t)
        /\ low <= at /\ at <= low + s /\ IsFree(u.entries[low])
    BY TableFields DEF Loose, Merges
  <2>. QED
    BY <2>1, Parameters DEF Span
<1>1. ASSUME NEW j \in Span(t), low <= j, j <= low + s
      PROVE  IsFree(t.entries[j])
  BY <1>1 DEF Merges
<1>2. ASSUME NEW j \in Span(u)
      PROVE  j \in Nat /\ j < u.nb /\ Case(j)
  BY MergeCases
<1>3. ASSUME NEW id \in Given(t)
      PROVE  LET q == t.refs[id].idx
             IN  /\ id \in Ids /\ q \in Span(t) /\ q \in Nat /\ q < t.nb
                 /\ q < low \/ q > low + s
                 /\ u.refs[id].idx = (IF q > low THEN q - s ELSE q)
                 /\ u.refs[id].idx \in Span(u)
                 /\ u.entries[u.refs[id].idx] = t.entries[q] /\ t.entries[q].id = id
  <2> DEFINE q == t.refs[id].idx
  <2>1. id \in Ids /\ q \in Span(t) /\ t.entries[q].id = id
    BY DEF Loose, Match, Given
  <2>2. q \in Nat /\ q < t.nb
    BY <1>0, <2>1 DEF Span
  <2>3. q < low \/ q > low + s
    <3>1. ~IsFree(t.entries[q])
      BY <2>1, Parameters DEF IsFree, Ids
    <3> HIDE DEF q
    <3>2. ~(low <= q /\ q <= low + s)
      BY <1>1, <2>1, <3>1
    <3>. QED
      BY <1>0, <2>2, <3>2
  <2>4. u.refs[id].idx = IF q > low THEN q - s ELSE q
    BY <1>3, <2>1 DEF Merges
  <2>5. (q < low => u.entries[q] = t.entries[q]) /\ (q > low + s => u.entries[q - s] = t.entries[q])
    BY <2>1 DEF Merges
  <2> HIDE DEF q
  <2>6. u.refs[id].idx \in Span(u)
    BY <1>0, <2>2, <2>3, <2>4 DEF Span
  <2>7. u.entries[u.refs[id].idx] = t.entries[q]
    BY <1>0, <2>2, <2>3, <2>4, <2>5
  <2>. QED
    BY <2>1, <2>2, <2>3, <2>4, <2>6, <2>7 DEF q
<1>4. NoPair(u)
  <2> SUFFICES ASSUME NEW j \in Span(u), j + 1 < u.nb
               PROVE  ~(IsFree(u.entries[j]) /\ IsFree(u.entries[j + 1]))
    BY DEF NoPair
  <2>0. ASSUME NEW p \in Span(t), p + 1 < t.nb, p # at, p + 1 # at
        PROVE  ~(IsFree(t.entries[p]) /\ IsFree(t.entries[p + 1]))
    BY <2>0 DEF Loose
  <2>1. j \in Nat /\ Case(j)
    BY <1>2
  <2>2. Case(j + 1)
    <3>1. j + 1 \in Span(u)
      BY <1>0, <2>1 DEF Span
    <3>. QED
      BY <1>2, <3>1
  <2>3. CASE j + 1 < low
    <3>1. /\ j \in Span(t) /\ u.entries[j] = t.entries[j] /\ u.entries[j + 1] = t.entries[j + 1]
          /\ j + 1 < t.nb /\ j # at /\ j + 1 # at
      BY <1>0, <2>1, <2>2, <2>3
    <3>. QED
      BY <2>0, <3>1
  <2>4. CASE j + 1 = low
    <3>1. u.entries[j] = t.entries[j] /\ j = low - 1 /\ low > 0
      BY <1>0, <2>1, <2>4
    <3>2. ~IsFree(t.entries[low - 1])
      BY <3>1 DEF Merges
    <3>. QED
      BY <3>1, <3>2
  <2>5. CASE j = low
    <3>1. (j + 1) + s = low + s + 1 /\ low + s + 1 < t.nb
      BY <1>0, <2>1, <2>5
    <3>2. u.entries[j + 1] = t.entries[low + s + 1]
      BY <1>0, <2>1, <2>2, <2>5, <3>1
    <3>3. ~IsFree(t.entries[low + s + 1])
      BY <3>1 DEF Merges
    <3>. QED
      BY <3>2, <3>3
  <2>6. CASE j > low
    <3> DEFINE p == j + s
    <3>1. /\ p \in Span(t) /\ p + 1 < t.nb /\ p # at /\ p + 1 # at
          /\ u.entries[j] = t.entries[p] /\ u.entries[j + 1] = t.entries[p + 1]
      <4>1. (j + 1) + s = p + 1 /\ p \in Nat /\ p + 1 < t.nb /\ p > low + s
        BY <1>0, <2>1, <2>6
      <4>2. p # at /\ p + 1 # at
        BY <1>0, <4>1
      <4>3. u.entries[j + 1] = t.entries[(j + 1) + s]
        BY <1>0, <2>1, <2>2, <2>6
      <4>4. u.entries[j] = t.entries[p] /\ p \in Span(t)
        BY <1>0, <2>1, <2>6
      <4>. QED
        BY <4>1, <4>2, <4>3, <4>4
    <3> HIDE DEF p
    <3>. QED
      BY <2>0, <3>1
  <2>. QED
    BY <1>0, <2>1, <2>3, <2>4, <2>5, <2>6
<1>5. Match(u)
  <2>1. ASSUME NEW j \in Span(u), ~IsFree(u.entries[j])
        PROVE  u.refs[u.entries[j].id].idx = j
    <3>1. j \in Nat /\ Case(j) /\ j # low
      BY <1>0, <1>2, <2>1
    <3>2. ASSUME NEW p \in Span(t), u.entries[j] = t.entries[p]
          PROVE  u.refs[u.entries[j].id].idx = IF p > low THEN p - s ELSE p
      <4>1. t.refs[t.entries[p].id].idx = p /\ t.entries[p].id \in Ids
        BY <1>0, <2>1, <3>2, TableFields DEF Loose, Match
      <4>2. p \in Nat /\ p < t.nb
        BY <1>0 DEF Span
      <4>3. t.entries[p].id \in Given(t)
        BY <1>0, <4>1, <4>2, Parameters DEF Given
      <4>. QED
        BY <1>3, <3>2, <4>1, <4>3
    <3>3. CASE j < low
      BY <1>0, <3>1, <3>2, <3>3
    <3>4. CASE j > low
      <4> DEFINE p == j + s
      <4>1. p \in Span(t) /\ u.entries[j] = t.entries[p] /\ p > low + s /\ p \in Nat /\ p - s = j
        BY <1>0, <3>1, <3>4
      <4> HIDE DEF p
      <4>2. u.refs[u.entries[j].id].idx = p - s
        BY <1>0, <3>2, <4>1
      <4>. QED
        BY <4>1, <4>2
    <3>. QED
      BY <1>0, <3>1, <3>3, <3>4
  <2>2. ASSUME NEW id \in Ids, u.refs[id].idx # NoId
        PROVE  u.refs[id].idx \in Span(u) /\ u.entries[u.refs[id].idx].id = id
    <3>1. id \in Given(t)
      BY <2>2 DEF Merges, Given
    <3>. QED
      BY <1>3, <3>1
  <2>. QED
    BY <2>1, <2>2 DEF Match
<1>6. Given(u) = Given(t)
  <2>1. ASSUME NEW id \in Ids
        PROVE  u.refs[id].idx # NoId <=> id \in Given(t)
    <3>1. CASE id \in Given(t)
      <4> DEFINE q == u.refs[id].idx
      <4>1. q \in Span(u)
        BY <1>3, <3>1
      <4> HIDE DEF q
      <4>2. q \in Nat /\ q < u.nb
        BY <1>2, <4>1
      <4>3. q < MaxAllocs
        BY <1>0, <4>2, Parameters
      <4>4. q # NoId
        BY <4>2, <4>3, Parameters
      <4>. QED
        BY <3>1, <4>4 DEF q
    <3>2. CASE id \notin Given(t)
      BY <3>2 DEF Merges, Given
    <3>. QED
      BY <3>1, <3>2
  <2>. QED
    BY <2>1 DEF Given
<1>7. ASSUME NEW id \in Given(t)
      PROVE  Place(u, id) = Place(t, id)
  BY <1>3 DEF Place
<1>8. \A id \in Ids : u.refs[id].seq = t.refs[id].seq
  BY DEF Merges
<1>9. Tiling(u)
  BY MergeTiles
<1>. QED
  BY <1>0, <1>4, <1>5, <1>6, <1>7, <1>8, <1>9 DEF Good

LEMMA Grows ==
  ASSUME NEW es \in [Ids -> EntryType], NEW a \in Ids, NEW n \in Cells,
         es[a].address + es[a].length + n <= RamGSize
  PROVE  LET g == [es EXCEPT ![a].length = @ + n]
         IN  /\ g \in [Ids -> EntryType]
             /\ \A j \in Ids : j # a => g[j] = es[j]
             /\ g[a].address = es[a].address /\ g[a].id = es[a].id
             /\ g[a].length = es[a].length + n
             /\ End(g[a]) = es[a].address + (es[a].length + n)
<1> DEFINE x == es[a]
           l == es[a].length
           y == [x EXCEPT !.length = l + n]
           g == [es EXCEPT ![a].length = @ + n]
<1>1. x \in EntryType /\ x.address \in Cells /\ l \in Cells
  BY DEF EntryType
<1>2. l + n \in Cells
  <2> DEFINE b == x.address
  <2>1. b \in Cells /\ l \in Cells /\ b + l + n <= RamGSize
    BY <1>1
  <2> HIDE DEF b, l
  <2>. QED
    BY <2>1, Parameters DEF Cells
<1>3. y \in EntryType /\ y.address = x.address /\ y.id = x.id /\ y.length = l + n
  <2> HIDE DEF x, l
  <2>. QED
    BY <1>1, <1>2 DEF EntryType
<1>4. g = [es EXCEPT ![a] = y]
  OBVIOUS
<1> HIDE DEF y, g
<1>5. g \in [Ids -> EntryType] /\ g[a] = y /\ \A j \in Ids : j # a => g[j] = es[j]
  BY <1>3, <1>4
<1>6. End(g[a]) = es[a].address + (es[a].length + n)
  BY <1>3, <1>5 DEF End
<1>. QED
  BY <1>3, <1>5, <1>6 DEF g

(* CollapseFree joins the free neighbours of an entry.                     *)
LEMMA CollapseMerges ==
  ASSUME NEW t, NEW at, Loose(t, at)
  PROVE  \E low, s : Merges(t, CollapseFree(t, at), at, low, s)
<1> DEFINE nx    == NextIsFree(t, at)
           pv    == PrevIsFree(t, at)
           shift == (IF nx THEN 1 ELSE 0) + (IF pv THEN 1 ELSE 0)
           low   == IF pv THEN at - 1 ELSE at
           top   == IF nx THEN at + 1 ELSE at
           grown == IF nx THEN [t.entries EXCEPT ![at].length = @ + t.entries[at + 1].length]
                          ELSE t.entries
           joined == IF low < at THEN [grown EXCEPT ![low].length = @ + grown[at].length]
                                 ELSE grown
           nb    == t.nb - shift
           moved == [i \in Ids |-> IF i \in low + 1 .. nb - 1 THEN joined[i + shift]
                                                              ELSE joined[i]]
           refs  == [i \in Ids |->
                       IF \E j \in low + 1 .. nb - 1 : moved[j].id = i
                       THEN [t.refs[i] EXCEPT !.idx =
                               CHOOSE j \in low + 1 .. nb - 1 : moved[j].id = i]
                       ELSE t.refs[i]]
           u     == CollapseFree(t, at)
<1>0. u = [refs |-> refs, entries |-> moved, nb |-> nb]
  BY DEF CollapseFree
<1>1. /\ t \in Tables /\ Tiling(t) /\ Match(t) /\ at \in Span(t) /\ IsFree(t.entries[at])
      /\ t.refs \in [Ids -> RefType] /\ t.entries \in [Ids -> EntryType]
      /\ t.nb \in 1 .. MaxAllocs /\ t.nb \in Nat /\ at \in Nat /\ at < t.nb
      /\ Span(t) \subseteq Ids
  <2>1. t \in Tables /\ Tiling(t) /\ Match(t) /\ at \in Span(t) /\ IsFree(t.entries[at])
    BY DEF Loose
  <2>. QED
    BY <2>1, LooseNumbers, TableFields
<1>2. /\ nx => at + 1 < t.nb /\ IsFree(t.entries[at + 1])
      /\ at + 1 < t.nb /\ ~nx => ~IsFree(t.entries[at + 1])
      /\ pv => at > 0 /\ IsFree(t.entries[at - 1])
      /\ at > 0 /\ ~pv => ~IsFree(t.entries[at - 1])
  BY DEF NextIsFree, PrevIsFree
<1> HIDE DEF nx, pv
<1>3. /\ shift \in {0, 1, 2} /\ low \in Nat /\ low <= at /\ at <= top /\ top = low + shift
      /\ top < t.nb /\ top \in Nat
      /\ low = at \/ (low = at - 1 /\ pv)
      /\ top = at \/ (top = at + 1 /\ nx)
      /\ nb \in 1 .. MaxAllocs /\ nb = t.nb - shift /\ nb \in Nat
      /\ low \in Span(t) /\ top \in Span(t) /\ low \in Ids /\ top \in Ids
  <2>1. (IF nx THEN 1 ELSE 0) \in {0, 1} /\ (IF pv THEN 1 ELSE 0) \in {0, 1}
    OBVIOUS
  <2>2. /\ shift \in {0, 1, 2} /\ low \in Nat /\ low <= at /\ at <= top /\ top = low + shift
        /\ top < t.nb /\ top \in Nat
        /\ low = at \/ (low = at - 1 /\ pv)
        /\ top = at \/ (top = at + 1 /\ nx)
    BY <1>1, <1>2
  <2> HIDE DEF low, top, shift
  <2>3. nb \in 1 .. MaxAllocs /\ nb \in Nat /\ nb = t.nb - shift
    BY <1>1, <2>2, Parameters
  <2>4. low \in Span(t) /\ top \in Span(t)
    BY <1>1, <2>2 DEF Span
  <2>. QED
    BY <1>1, <2>2, <2>3, <2>4
<1>4. (low = at => ~pv) /\ (top = at => ~nx)
  <2>1. (pv => low # at) /\ (nx => top # at)
    BY <1>1
  <2>. QED
    BY <2>1
<1> HIDE DEF low, top, shift, nb
<1>5. ASSUME NEW j \in Span(t), low <= j, j <= low + shift
      PROVE  IsFree(t.entries[j])
  <2>1. j \in Nat
    BY <1>1 DEF Span
  <2>2. j = at \/ (j = at - 1 /\ pv) \/ (j = at + 1 /\ nx)
    BY <1>1, <1>3, <1>5, <2>1
  <2>. QED
    BY <1>1, <1>2, <2>2
<1>6. ASSUME NEW i \in Span(t), i + 1 < t.nb, i # at, i + 1 # at
      PROVE  ~(IsFree(t.entries[i]) /\ IsFree(t.entries[i + 1]))
  BY <1>6 DEF Loose
<1>7. low > 0 => ~IsFree(t.entries[low - 1])
  <2> HAVE low > 0
  <2>1. CASE low = at
    BY <1>2, <1>4, <2>1
  <2>2. CASE low = at - 1 /\ pv
    <3>1. /\ low - 1 \in Span(t) /\ (low - 1) + 1 < t.nb /\ low - 1 # at
          /\ (low - 1) + 1 # at /\ (low - 1) + 1 = low
      BY <1>1, <1>3, <2>2 DEF Span
    <3>2. ~(IsFree(t.entries[low - 1]) /\ IsFree(t.entries[(low - 1) + 1]))
      BY <1>6, <3>1
    <3>. QED
      BY <1>2, <2>2, <3>1, <3>2
  <2>. QED
    BY <1>3, <2>1, <2>2
<1>8. low + shift + 1 < t.nb => ~IsFree(t.entries[low + shift + 1])
  <2> HAVE low + shift + 1 < t.nb
  <2>0. low + shift + 1 = top + 1
    BY <1>3
  <2>1. CASE top = at
    BY <1>2, <1>4, <2>0, <2>1
  <2>2. CASE top = at + 1 /\ nx
    <3>1. top \in Span(t) /\ top + 1 < t.nb /\ top # at /\ top + 1 # at
      BY <1>1, <1>3, <2>0, <2>2
    <3>2. ~(IsFree(t.entries[top]) /\ IsFree(t.entries[top + 1]))
      BY <1>6, <3>1
    <3>. QED
      BY <1>2, <2>0, <2>2, <3>2
  <2>. QED
    BY <1>3, <2>1, <2>2
<1>9. ASSUME NEW j \in Span(t), j + 1 < t.nb
      PROVE  End(t.entries[j]) = t.entries[j + 1].address
  BY <1>1, <1>9, LooseNumbers DEF Bound
<1>10. ASSUME NEW j \in Span(t)
       PROVE  /\ t.entries[j].address \in Cells /\ t.entries[j].length \in Cells
              /\ End(t.entries[j]) \in Cells
              /\ End(t.entries[j]) = t.entries[j].address + t.entries[j].length
  <2>1. End(t.entries[j]) \in Cells
    BY <1>1, LooseEnd
  <2>2. t.entries[j].address \in Cells /\ t.entries[j].length \in Cells
    BY <1>1, TableFields
  <2>. QED
    BY <2>1, <2>2 DEF End
<1>11. /\ grown \in [Ids -> EntryType] /\ \A j \in Ids : j # at => grown[j] = t.entries[j]
       /\ grown[at].address = t.entries[at].address /\ IsFree(grown[at])
       /\ End(grown[at]) = End(t.entries[top])
  <2>1. CASE ~nx
    <3>1. grown = t.entries /\ top = at
      BY <1>3, <2>1
    <3>. QED
      BY <1>1, <3>1
  <2>2. CASE nx
    <3> DEFINE b  == t.entries[at].address
               l1 == t.entries[at].length
               l2 == t.entries[at + 1].length
    <3>1. grown = [t.entries EXCEPT ![at].length = @ + l2] /\ top = at + 1
      BY <1>3, <1>4, <2>2
    <3>2. /\ b \in Cells /\ l1 \in Cells /\ l2 \in Cells
          /\ End(t.entries[top]) \in Cells
          /\ End(t.entries[at]) = b + l1
          /\ End(t.entries[at]) = t.entries[at + 1].address
          /\ End(t.entries[top]) = t.entries[at + 1].address + l2
      BY <1>1, <1>3, <1>9, <1>10, <3>1
    <3>3. b + l1 + l2 = End(t.entries[top]) /\ b + (l1 + l2) = End(t.entries[top])
          /\ b + l1 + l2 <= RamGSize
      <4> HIDE DEF b, l1, l2
      <4>. QED
        BY <3>2, Parameters DEF Cells
    <3> HIDE DEF l2, grown
    <3>4. /\ grown \in [Ids -> EntryType]
          /\ \A j \in Ids : j # at => grown[j] = t.entries[j]
          /\ grown[at].address = b /\ grown[at].id = t.entries[at].id
          /\ End(grown[at]) = b + (l1 + l2)
      BY <1>1, <3>1, <3>2, <3>3, Grows
    <3>. QED
      BY <1>1, <3>3, <3>4 DEF IsFree
  <2>. QED
    BY <2>1, <2>2
<1> HIDE DEF grown
<1>12. /\ joined \in [Ids -> EntryType]
       /\ \A j \in Ids : j # at /\ j # low => joined[j] = t.entries[j]
       /\ joined[low].address = t.entries[low].address /\ IsFree(joined[low])
       /\ End(joined[low]) = End(t.entries[top])
  <2>1. CASE low = at
    <3>1. joined = grown
      BY <1>1, <2>1
    <3>. QED
      BY <1>11, <2>1, <3>1
  <2>2. CASE low = at - 1 /\ pv
    <3> DEFINE b  == t.entries[low].address
               l1 == t.entries[low].length
               c  == t.entries[at].address
               l2 == grown[at].length
    <3>1. joined = [grown EXCEPT ![low].length = @ + l2] /\ low + 1 = at /\ low # at
      BY <1>1, <1>3, <2>2
    <3>2. grown[low] = t.entries[low]
      BY <1>3, <1>11, <3>1
    <3>3. /\ b \in Cells /\ l1 \in Cells /\ c \in Cells
          /\ End(t.entries[top]) \in Cells /\ End(t.entries[low]) = b + l1
          /\ End(t.entries[low]) = c
      BY <1>1, <1>3, <1>9, <1>10, <3>1
    <3>4. l2 \in Cells /\ End(grown[at]) = c + l2
      <4>1. grown[at] \in EntryType
        BY <1>1, <1>11
      <4>. QED
        BY <1>11, <4>1 DEF EntryType, End
    <3>5. b + l1 + l2 = End(t.entries[top]) /\ b + (l1 + l2) = End(t.entries[top])
          /\ b + l1 + l2 <= RamGSize
      <4> HIDE DEF b, l1, l2, c
      <4>. QED
        BY <1>11, <3>3, <3>4, Parameters DEF Cells
    <3> HIDE DEF l2, joined
    <3>6. /\ joined \in [Ids -> EntryType]
          /\ \A j \in Ids : j # low => joined[j] = grown[j]
          /\ joined[low].address = b /\ joined[low].id = grown[low].id
          /\ End(joined[low]) = b + (l1 + l2)
      BY <1>3, <1>11, <3>1, <3>2, <3>4, <3>5, Grows
    <3>7. IsFree(t.entries[low])
      BY <1>2, <2>2
    <3>. QED
      BY <1>11, <3>2, <3>5, <3>6, <3>7 DEF IsFree
  <2>. QED
    BY <1>3, <2>1, <2>2
<1> HIDE DEF joined
<1>13. ASSUME NEW i \in Ids
       PROVE  /\ moved[i] = IF i \in low + 1 .. nb - 1 THEN joined[i + shift] ELSE joined[i]
              /\ i \in low + 1 .. nb - 1 =>
                   i + shift \in Span(t) /\ i + shift \in Ids /\ i + shift # at
                   /\ i + shift # low /\ i + shift > low + shift
                   /\ moved[i] = t.entries[i + shift]
  <2>1. moved[i] = IF i \in low + 1 .. nb - 1 THEN joined[i + shift] ELSE joined[i]
    OBVIOUS
  <2>2. ASSUME i \in low + 1 .. nb - 1
        PROVE  i + shift \in Span(t) /\ i + shift \in Ids /\ i + shift # at
               /\ i + shift # low /\ i + shift > low + shift
    <3>1. i + shift \in Nat /\ i + shift < t.nb /\ i + shift > low + shift
      BY <1>1, <1>3, <2>2
    <3>2. i + shift \in Span(t)
      BY <1>1, <3>1 DEF Span
    <3>. QED
      BY <1>1, <1>3, <3>1, <3>2
  <2>. QED
    BY <1>12, <2>1, <2>2
<1>14. moved \in [Ids -> EntryType] /\ moved[low] = joined[low]
  <2>1. ASSUME NEW i \in Ids
        PROVE  moved[i] \in EntryType
    BY <1>12, <1>13
  <2>2. moved = [i \in Ids |-> moved[i]]
    OBVIOUS
  <2>3. ~(low \in low + 1 .. nb - 1)
    BY <1>3
  <2>4. moved[low] = joined[low]
    BY <1>3, <1>13, <2>3
  <2>5. moved \in [Ids -> EntryType]
    <3> HIDE DEF moved
    <3>. QED
      BY <2>1, <2>2
  <2>. QED
    BY <2>4, <2>5
<1>15. ASSUME NEW j \in Span(t)
       PROVE  /\ j < low => moved[j] = t.entries[j]
              /\ j > low + shift => /\ moved[j - shift] = t.entries[j]
                                    /\ j - shift \in low + 1 .. nb - 1
  <2>1. j \in Nat /\ j < t.nb /\ j \in Ids
    BY <1>1 DEF Span
  <2>2. ASSUME j < low
        PROVE  moved[j] = t.entries[j]
    <3>1. ~(j \in low + 1 .. nb - 1) /\ j # at /\ j # low
      BY <1>1, <1>3, <2>1, <2>2
    <3>. QED
      BY <1>12, <1>13, <2>1, <3>1
  <2>3. ASSUME j > low + shift
        PROVE  moved[j - shift] = t.entries[j] /\ j - shift \in low + 1 .. nb - 1
    <3> DEFINE m == j - shift
    <3>1. m \in low + 1 .. nb - 1 /\ m + shift = j /\ m \in Ids
      BY <1>1, <1>3, <2>1, <2>3, Parameters DEF Ids
    <3> HIDE DEF m
    <3>2. moved[m] = t.entries[m + shift]
      BY <1>13, <3>1
    <3>. QED
      BY <3>1, <3>2 DEF m
  <2>. QED
    BY <2>2, <2>3
<1>16. low + 1 .. nb - 1 \subseteq Ids
  BY <1>3, Parameters DEF Ids
<1> HIDE DEF moved
<1>17. ASSUME NEW id \in Ids
       PROVE  /\ refs[id].seq = t.refs[id].seq /\ refs[id] \in RefType
              /\ refs[id].idx = IF id \in Given(t) /\ t.refs[id].idx > low
                                THEN t.refs[id].idx - shift ELSE t.refs[id].idx
  <2> DEFINE Js == {j \in low + 1 .. nb - 1 : moved[j].id = id}
             new == CHOOSE j \in low + 1 .. nb - 1 : moved[j].id = id
             old == t.refs[id].idx
  <2>0. refs[id] = IF \E j \in low + 1 .. nb - 1 : moved[j].id = id
                   THEN [t.refs[id] EXCEPT !.idx = new] ELSE t.refs[id]
    OBVIOUS
  <2>1. t.refs[id] \in RefType /\ old \in 0 .. MaxAllocs /\ t.refs[id].seq \in 0 .. SeqCount - 1
    BY <1>1, TableFields
  <2>2. ASSUME NEW j \in low + 1 .. nb - 1, moved[j].id = id
        PROVE  id \in Given(t) /\ old = j + shift /\ old > low /\ j = old - shift
    <3>1. /\ j \in Ids /\ j + shift \in Span(t) /\ j + shift > low + shift
          /\ moved[j] = t.entries[j + shift]
      BY <1>13, <1>16
    <3> DEFINE p == j + shift
    <3>2. p \in Span(t) /\ t.entries[p].id = id /\ p > low + shift
      BY <2>2, <3>1
    <3> HIDE DEF p
    <3>3. ~IsFree(t.entries[p])
      BY <3>2, Parameters DEF IsFree, Ids
    <3>4. old = p
      BY <1>1, <3>2, <3>3 DEF Match
    <3>5. p \in Nat /\ p < MaxAllocs /\ p # NoId
      BY <1>1, <3>2, Parameters DEF Ids
    <3>6. j \in Nat
      BY <3>1, Parameters DEF Ids
    <3>7. old > low /\ j = old - shift
      <4>1. p = j + shift
        BY DEF p
      <4>. QED
        BY <1>3, <3>2, <3>4, <3>5, <3>6, <4>1
    <3>. QED
      BY <3>4, <3>5, <3>7 DEF Given, p
  <2>3. ASSUME id \in Given(t), old > low
        PROVE  \E j \in low + 1 .. nb - 1 : moved[j].id = id
    <3>1. old \in Span(t) /\ t.entries[old].id = id /\ old \in Nat
      BY <1>1, <2>3 DEF Match, Given, Span
    <3>2. ~IsFree(t.entries[old])
      BY <3>1, Parameters DEF IsFree, Ids
    <3>3. old > low + shift
      <4> HIDE DEF old
      <4>1. ~(low <= old /\ old <= low + shift)
        BY <1>5, <3>1, <3>2
      <4>. QED
        BY <1>3, <2>3, <3>1, <4>1
    <3>4. moved[old - shift] = t.entries[old] /\ old - shift \in low + 1 .. nb - 1
      BY <1>15, <3>1, <3>3
    <3>. QED
      BY <3>1, <3>4
  <2>4. CASE \E j \in low + 1 .. nb - 1 : moved[j].id = id
    <3>1. new \in low + 1 .. nb - 1 /\ moved[new].id = id
      <4> HIDE DEF shift
      <4>. QED
        BY <2>4
    <3> HIDE DEF new
    <3>2. id \in Given(t) /\ old > low /\ new = old - shift
      BY <2>2, <3>1
    <3>3. refs[id] = [t.refs[id] EXCEPT !.idx = new]
      BY <2>0, <2>4
    <3>4. new \in 0 .. MaxAllocs
      BY <1>3, <3>1, Parameters
    <3> HIDE DEF refs
    <3>5. refs[id].idx = new /\ refs[id].seq = t.refs[id].seq /\ refs[id] \in RefType
      BY <2>1, <3>3, <3>4 DEF RefType
    <3>. QED
      BY <3>2, <3>5
  <2>5. CASE ~(\E j \in low + 1 .. nb - 1 : moved[j].id = id)
    <3>1. refs[id] = t.refs[id]
      BY <2>0, <2>5
    <3>2. ~(id \in Given(t) /\ old > low)
      BY <2>3, <2>5
    <3>. QED
      BY <2>1, <3>1, <3>2
  <2>. QED
    BY <2>4, <2>5
<1>18. refs \in [Ids -> RefType]
  <2>1. refs = [i \in Ids |-> refs[i]]
    OBVIOUS
  <2> HIDE DEF refs
  <2>. QED
    BY <1>17, <2>1
<1> HIDE DEF refs, u
<1>19. u.refs = refs /\ u.entries = moved /\ u.nb = nb /\ u \in Tables
  BY <1>0, <1>3, <1>14, <1>18 DEF Tables
<1>20. Merges(t, u, at, low, shift)
  <2>1. /\ u \in Tables /\ shift \in {0, 1, 2} /\ low \in Nat /\ low + shift < t.nb
        /\ u.nb = t.nb - shift /\ low <= at /\ at <= low + shift
    BY <1>3, <1>19
  <2>2. \A j \in Span(t) : low <= j /\ j <= low + shift => IsFree(t.entries[j])
    BY <1>5
  <2>3. /\ IsFree(u.entries[low]) /\ u.entries[low].address = t.entries[low].address
        /\ End(u.entries[low]) = End(t.entries[low + shift])
    BY <1>3, <1>12, <1>14, <1>19
  <2>4. \A j \in Span(t) : (j < low => u.entries[j] = t.entries[j])
                           /\ (j > low + shift => u.entries[j - shift] = t.entries[j])
    BY <1>15, <1>19
  <2>5. \A id \in Ids :
          /\ u.refs[id].seq = t.refs[id].seq
          /\ u.refs[id].idx = IF id \in Given(t) /\ t.refs[id].idx > low
                              THEN t.refs[id].idx - shift ELSE t.refs[id].idx
    BY <1>17, <1>19
  <2>. QED
    BY ONLY <2>1, <2>2, <2>3, <2>4, <2>5, <1>7, <1>8 DEF Merges
<1>. QED
  BY <1>20 DEF u

(* Freeing an id takes its block away, and no other.                       *)
LEMMA FreeIdGood ==
  ASSUME NEW t, Good(t), NEW id \in Given(t)
  PROVE  LET u == FreeId(t, id)
         IN  /\ Good(u) /\ Given(u) = Given(t) \ {id}
             /\ \A a \in Given(t) : a # id => /\ Place(u, a) = Place(t, a)
                                             /\ u.refs[a].idx <= t.refs[a].idx
             /\ u.refs[id].seq = NextSeq(t.refs[id].seq)
             /\ \A a \in Ids : a # id => u.refs[a].seq = t.refs[a].seq
<1> DEFINE i == t.refs[id].idx
           x == t.entries[i]
           e == [x EXCEPT !.id = NoId, !.flags = {}]
           r == [idx |-> NoId, seq |-> NextSeq(t.refs[id].seq)]
           v == [t EXCEPT !.refs[id] = r, !.entries[i] = e]
           u == FreeId(t, id)
<1>0. u = CollapseFree(v, i)
  BY DEF FreeId
<1>1. /\ t \in Tables /\ Tiling(t) /\ NoPair(t) /\ Match(t) /\ id \in Ids /\ i \in Span(t)
      /\ i \in Ids /\ i \in Nat /\ i < t.nb /\ x.id = id /\ ~IsFree(x)
      /\ t.refs \in [Ids -> RefType] /\ t.entries \in [Ids -> EntryType] /\ t.nb \in 1 .. MaxAllocs
  <2>1. t \in Tables /\ Tiling(t) /\ NoPair(t) /\ Match(t)
    BY DEF Good
  <2>2. id \in Ids /\ i \in Span(t) /\ x.id = id
    BY <2>1 DEF Given, Match
  <2>3. ~IsFree(x)
    BY <2>2, Parameters DEF IsFree, Ids
  <2>. QED
    BY <2>1, <2>2, <2>3, TableFields, EntryNumbers
<1>2. r \in RefType /\ r.idx = NoId /\ r.seq = NextSeq(t.refs[id].seq)
  <2>1. NextSeq(t.refs[id].seq) \in 0 .. SeqCount - 1
    BY <1>1, TableFields, SeqMoves
  <2>. QED
    BY <2>1, Parameters DEF RefType
<1>3. e \in EntryType /\ IsFree(e) /\ e.address = x.address /\ e.length = x.length
  <2>1. x \in EntryType
    BY <1>1
  <2> HIDE DEF x
  <2>2. e.id = NoId /\ e.address = x.address /\ e.length = x.length
    BY <2>1 DEF EntryType
  <2>3. e \in EntryType
    <3> DEFINE none == {}
    <3>1. none \in SUBSET Flags /\ NoId \in 0 .. MaxAllocs
      BY Parameters
    <3>2. e = [x EXCEPT !.id = NoId, !.flags = none]
      OBVIOUS
    <3> HIDE DEF none, e
    <3>. QED
      BY <2>1, <3>1, <3>2 DEF EntryType
  <2>. QED
    BY <2>2, <2>3 DEF IsFree
<1> HIDE DEF i, x, e, r
<1>4. /\ v.refs = [t.refs EXCEPT ![id] = r] /\ v.entries = [t.entries EXCEPT ![i] = e]
      /\ v.nb = t.nb
  BY <1>1 DEF Tables
<1>5. v \in [refs : {v.refs}, entries : {v.entries}, nb : {v.nb}]
  BY <1>1 DEF Tables
<1> HIDE DEF v
<1>6. v \in Tables
  <2>1. v.refs \in [Ids -> RefType] /\ v.entries \in [Ids -> EntryType]
    BY <1>1, <1>2, <1>3, <1>4
  <2>2. v = [refs |-> v.refs, entries |-> v.entries, nb |-> v.nb]
    BY <1>5
  <2>. QED
    BY <1>1, <1>4, <2>1, <2>2 DEF Tables
<1>7. /\ v.refs[id] = r /\ v.entries[i] = e
      /\ \A a \in Ids : a # id => v.refs[a] = t.refs[a]
      /\ \A j \in Ids : j # i => v.entries[j] = t.entries[j]
      /\ Span(v) = Span(t) /\ Span(t) \subseteq Ids
  BY <1>1, <1>4, TableFields DEF Span
<1>8. ASSUME NEW j \in Ids
      PROVE  /\ v.entries[j].address = t.entries[j].address
             /\ v.entries[j].length = t.entries[j].length
             /\ End(v.entries[j]) = End(t.entries[j])
             /\ j # i => (IsFree(v.entries[j]) <=> IsFree(t.entries[j]))
  BY <1>3, <1>7 DEF End, x
<1>9. Tiling(v)
  <2>1. ASSUME NEW j \in Span(t)
        PROVE  j \in Ids /\ Bound(v, j) = Bound(t, j)
    <3>1. CASE j + 1 < t.nb
      <4>1. j \in Nat /\ j + 1 \in Ids
        BY <1>1, <3>1, Parameters DEF Span, Ids
      <4>. QED
        BY <1>4, <1>7, <1>8, <3>1, <4>1 DEF Bound
    <3>2. CASE ~(j + 1 < t.nb)
      BY <1>4, <1>7, <3>2 DEF Bound
    <3>. QED
      BY <3>1, <3>2
  <2>2. v.entries[0].address = 0
    BY <1>1, <1>8, Parameters DEF Tiling
  <2>3. ASSUME NEW j \in Span(t)
        PROVE  v.entries[j].length > 0 /\ End(v.entries[j]) = Bound(v, j)
    BY <1>1, <1>8, <2>1 DEF Tiling
  <2>4. ASSUME NEW j \in Span(t), NEW k \in Span(t), j < k
        PROVE  End(v.entries[j]) <= v.entries[k].address
    BY <1>1, <1>8, <2>1, <2>4 DEF Tiling
  <2>. QED
    BY <1>7, <2>2, <2>3, <2>4 DEF Tiling
<1>10. Match(v)
  <2>1. ASSUME NEW j \in Span(t), ~IsFree(v.entries[j])
        PROVE  v.refs[v.entries[j].id].idx = j
    <3>1. j # i /\ j \in Ids /\ v.entries[j] = t.entries[j]
      BY <1>3, <1>7, <2>1
    <3>2. t.refs[t.entries[j].id].idx = j /\ t.entries[j].id \in Ids
      BY <1>1, <2>1, <3>1, TableFields DEF Match
    <3>3. t.entries[j].id # id
      BY <3>1, <3>2 DEF i
    <3>. QED
      BY <1>7, <3>1, <3>2, <3>3
  <2>2. ASSUME NEW a \in Ids, v.refs[a].idx # NoId
        PROVE  v.refs[a].idx \in Span(t) /\ v.entries[v.refs[a].idx].id = a
    <3>1. a # id /\ v.refs[a] = t.refs[a]
      BY <1>2, <1>7, <2>2
    <3>2. t.refs[a].idx \in Span(t) /\ t.entries[t.refs[a].idx].id = a
      BY <1>1, <2>2, <3>1 DEF Match
    <3>3. t.refs[a].idx # i
      BY <1>1, <3>1, <3>2 DEF x
    <3>. QED
      BY <1>7, <3>1, <3>2, <3>3
  <2>. QED
    BY <1>7, <2>1, <2>2 DEF Match
<1>11. Loose(v, i)
  <2>1. ASSUME NEW j \in Span(t), j + 1 < t.nb, j # i, j + 1 # i
        PROVE  ~(IsFree(v.entries[j]) /\ IsFree(v.entries[j + 1]))
    <3>1. j \in Ids /\ j + 1 \in Ids
      BY <1>1, <2>1, Parameters DEF Span, Ids
    <3>2. ~(IsFree(t.entries[j]) /\ IsFree(t.entries[j + 1]))
      BY <1>1, <2>1 DEF NoPair
    <3>. QED
      BY <1>7, <2>1, <3>1, <3>2
  <2>. QED
    BY <1>1, <1>3, <1>4, <1>6, <1>7, <1>9, <1>10, <2>1 DEF Loose
<1>12. PICK low, s : Merges(v, u, i, low, s)
  BY <1>0, <1>11, CollapseMerges
<1> HIDE DEF u
<1>13. /\ Good(u) /\ Given(u) = Given(v)
       /\ \A a \in Given(v) : Place(u, a) = Place(v, a)
       /\ \A a \in Ids : u.refs[a].seq = v.refs[a].seq
  BY <1>11, <1>12, MergeGood
<1>14. Given(v) = Given(t) \ {id}
  <2>1. ASSUME NEW a \in Ids
        PROVE  v.refs[a].idx # NoId <=> (t.refs[a].idx # NoId /\ a # id)
    BY <1>2, <1>7
  <2>. QED
    BY <2>1 DEF Given
<1>15. ASSUME NEW a \in Given(t), a # id
       PROVE  Place(u, a) = Place(t, a) /\ u.refs[a].idx <= t.refs[a].idx
  <2>1. a \in Ids /\ a \in Given(v) /\ v.refs[a] = t.refs[a]
    BY <1>7, <1>14, <1>15 DEF Given
  <2>2. t.refs[a].idx \in Span(t) /\ t.entries[t.refs[a].idx].id = a
    BY <1>1, <2>1 DEF Match, Given
  <2>3. t.refs[a].idx # i
    BY <1>1, <1>15, <2>2 DEF x
  <2>4. Place(v, a) = Place(t, a)
    BY <1>7, <2>1, <2>2, <2>3 DEF Place
  <2>5. u.refs[a].idx <= t.refs[a].idx
    <3> DEFINE q == t.refs[a].idx
               p == u.refs[a].idx
    <3>1. q \in Nat
      BY <1>1, <2>2 DEF Span
    <3>2. p = q - s \/ p = q
      BY <1>12, <2>1 DEF Merges
    <3>3. s \in {0, 1, 2}
      BY <1>12 DEF Merges
    <3> HIDE DEF p, q
    <3>4. p <= q
      BY <3>1, <3>2, <3>3
    <3>. QED
      BY <3>4 DEF p, q
  <2>. QED
    BY <1>13, <2>1, <2>4, <2>5
<1>16. /\ u.refs[id].seq = NextSeq(t.refs[id].seq)
       /\ \A a \in Ids : a # id => u.refs[a].seq = t.refs[a].seq
  BY <1>1, <1>2, <1>7, <1>13
<1>. QED
  BY <1>13, <1>14, <1>15, <1>16 DEF u

-----------------------------------------------------------------------------
(* Esd_GpuAlloc_Reset, and taking all of RAM_G after it.                   *)

(* After a reset all of RAM_G is one free entry, and every sequence number *)
(* has moved on.                                                           *)
LEMMA ClearedGood ==
  ASSUME NEW refs \in [Ids -> RefType]
  PROVE  LET u == Cleared(refs)
         IN  /\ Good(u) /\ Given(u) = {}
             /\ \A a \in Ids : u.refs[a].seq = NextSeq(refs[a].seq)
             /\ CanAlloc(u, RamGSize)
<1> DEFINE u == Cleared(refs)
           nr == [i \in Ids |-> [idx |-> NoId, seq |-> NextSeq(refs[i].seq)]]
           ne == [i \in Ids |-> IF i = 0 THEN FreeEntry(0, RamGSize) ELSE FreeEntry(RamGSize, 0)]
<1>1. u = [refs |-> nr, entries |-> ne, nb |-> 1]
  BY DEF Cleared, ResetSeq
<1>2. ASSUME NEW a \in Ids
      PROVE  nr[a] \in RefType /\ nr[a].idx = NoId /\ nr[a].seq = NextSeq(refs[a].seq)
  <2>1. refs[a].seq \in 0 .. SeqCount - 1
    BY DEF RefType
  <2>2. NextSeq(refs[a].seq) \in 0 .. SeqCount - 1
    BY <2>1, SeqMoves
  <2>. QED
    BY <2>2, Parameters DEF RefType
<1>3. ASSUME NEW a \in Ids
      PROVE  ne[a] \in EntryType
  <2>1. FreeEntry(0, RamGSize) \in EntryType /\ FreeEntry(RamGSize, 0) \in EntryType
    BY Parameters DEF FreeEntry, EntryType
  <2>. QED
    BY <2>1
<1>4. ne[0] = FreeEntry(0, RamGSize)
  BY Parameters
<1>5. nr \in [Ids -> RefType] /\ ne \in [Ids -> EntryType]
  <2>1. nr = [a \in Ids |-> nr[a]] /\ ne = [a \in Ids |-> ne[a]]
    OBVIOUS
  <2> HIDE DEF nr, ne
  <2>. QED
    BY <1>2, <1>3, <2>1
<1> HIDE DEF nr, ne, u
<1>6. u \in Tables /\ u.refs = nr /\ u.entries = ne /\ u.nb = 1 /\ Span(u) = {0}
  BY <1>1, <1>5, Parameters DEF Tables, Span
<1>7. /\ u.entries[0].address = 0 /\ u.entries[0].length = RamGSize
      /\ End(u.entries[0]) = RamGSize /\ IsFree(u.entries[0])
  BY <1>4, <1>6, Parameters DEF FreeEntry, End, IsFree
<1>8. Tiling(u)
  <2>1. Bound(u, 0) = RamGSize
    BY <1>6 DEF Bound
  <2>. QED
    BY <1>6, <1>7, <2>1, Parameters DEF Tiling
<1>9. NoPair(u)
  BY <1>6 DEF NoPair
<1>10. Match(u)
  BY <1>2, <1>6, <1>7 DEF Match
<1>11. Given(u) = {}
  BY <1>2, <1>6 DEF Given
<1>12. CanAlloc(u, RamGSize)
  <2>1. Align4(RamGSize) = RamGSize
    BY Parameters, AlignIs
  <2>2. 0 \in OpenEntries(u, RamGSize)
    BY <1>6, <1>7, Parameters DEF OpenEntries
  <2>3. 0 \in UnusedIds(u)
    BY <1>2, <1>6, Parameters DEF UnusedIds
  <2>. QED
    BY <1>6, <2>1, <2>2, <2>3, Parameters DEF CanAlloc
<1>13. \A a \in Ids : u.refs[a].seq = NextSeq(refs[a].seq)
  BY <1>2, <1>6
<1>. QED
  BY <1>6, <1>8, <1>9, <1>10, <1>11, <1>12, <1>13 DEF Good, u

-----------------------------------------------------------------------------
(* Esd_GpuAlloc_Get and the first loop of Update: only flags change.       *)

SetFlags(t, i, fl) == [t EXCEPT !.entries[i].flags = fl]

(* Setting the flags of an entry changes nothing else.                     *)
LEMMA FlagsGood ==
  ASSUME NEW t, Good(t), NEW i \in Ids, NEW fl \in SUBSET Flags
  PROVE  LET u == SetFlags(t, i, fl)
         IN  /\ Good(u) /\ Given(u) = Given(t) /\ u.refs = t.refs /\ u.nb = t.nb
             /\ \A id \in Given(t) :
                  /\ Place(u, id).address = Place(t, id).address
                  /\ Place(u, id).length = Place(t, id).length
                  /\ Place(u, id).flags = IF t.refs[id].idx = i THEN fl ELSE Place(t, id).flags
<1> DEFINE x == t.entries[i]
           e == [x EXCEPT !.flags = fl]
           u == SetFlags(t, i, fl)
<1>1. t \in Tables /\ t.entries \in [Ids -> EntryType] /\ x \in EntryType
  BY TableFields DEF Good
<1>2. u = [t EXCEPT !.entries[i] = e]
  BY DEF SetFlags
<1>3. /\ e \in EntryType /\ e.address = x.address /\ e.length = x.length /\ e.id = x.id
      /\ e.flags = fl
  <2> HIDE DEF x
  <2>. QED
    BY <1>1 DEF EntryType
<1> HIDE DEF u, e
<1>4. u.refs = t.refs /\ u.nb = t.nb /\ u.entries = [t.entries EXCEPT ![i] = e]
  BY <1>1, <1>2 DEF Tables
<1>5. u \in [refs : {u.refs}, entries : {u.entries}, nb : {u.nb}]
  BY <1>1, <1>2 DEF Tables
<1>6. u \in Tables
  <2>1. u.entries \in [Ids -> EntryType] /\ u.refs \in [Ids -> RefType] /\ u.nb \in 1 .. MaxAllocs
    BY <1>1, <1>3, <1>4, TableFields
  <2>2. u = [refs |-> u.refs, entries |-> u.entries, nb |-> u.nb]
    BY <1>5
  <2>. QED
    BY <2>1, <2>2 DEF Tables
<1>7. u.entries[i] = e /\ \A j \in Ids : j # i => u.entries[j] = t.entries[j]
  BY <1>1, <1>4
<1>8. Alike(t, u)
  BY <1>3, <1>4, <1>7 DEF Alike
<1>9. Good(u) /\ Given(u) = Given(t)
  BY <1>6, <1>8, AlikeGood
<1>10. ASSUME NEW id \in Given(t)
       PROVE  /\ Place(u, id).address = Place(t, id).address
              /\ Place(u, id).length = Place(t, id).length
              /\ Place(u, id).flags = IF t.refs[id].idx = i THEN fl ELSE Place(t, id).flags
  <2>1. t.refs[id].idx \in Ids
    BY <1>1, PlacesApart, TableFields
  <2>. QED
    BY <1>3, <1>4, <1>7, <2>1 DEF Place
<1>. QED
  BY <1>4, <1>9, <1>10 DEF u

-----------------------------------------------------------------------------
(* Defragmentation.                                                        *)

(* The entry to move is one that is in use.                                *)
LEMMA LargestIs ==
  ASSUME NEW t, Good(t), Fragmented(t)
  PROVE  LargestIdx(t) \in Span(t) /\ ~IsFree(t.entries[LargestIdx(t)])
<1> DEFINE M == Movable(t)
           S(i) == Space(t, i)
           T == {n \in 0 .. 3 * RamGSize : \E i \in M : n = 3 * RamGSize - S(i)}
           L == {i \in M : \A j \in M : S(j) <= S(i)}
<1>0. t \in Tables /\ t.nb \in Nat /\ t.nb <= MaxAllocs
  BY TableFields, Parameters DEF Good
<1>1. LeftIdx(t) \in Nat
  <2> DEFINE F == {i \in 0 .. t.nb - 1 : IsFree(t.entries[i])} \cup {t.nb}
  <2>1. F \in SUBSET Nat /\ F # {}
    BY <1>0
  <2> HIDE DEF F
  <2>2. Min(F) \in Nat
    BY <2>1, MinIs
  <2>. QED
    BY <2>2 DEF LeftIdx, F
<1>2. ASSUME NEW i \in M
      PROVE  i \in Nat /\ i \in Span(t) /\ i \in Ids /\ i > 0 /\ ~IsFree(t.entries[i])
  <2>1. /\ i \in LeftIdx(t) + 1 .. t.nb - 1 /\ ~IsFree(t.entries[i])
    BY DEF Movable
  <2>2. i \in Nat /\ i > 0 /\ i < t.nb
    BY <1>0, <1>1, <2>1
  <2>3. i \in Span(t)
    BY <1>0, <2>2 DEF Span
  <2>. QED
    BY <1>0, <2>1, <2>2, <2>3, TableFields
<1>3. ASSUME NEW i \in M
      PROVE  S(i) \in 0 .. 3 * RamGSize
  <2> DEFINE a == IF i > LeftIdx(t) + 1 THEN t.entries[i].length ELSE 0
             b == IF IsFree(t.entries[i - 1]) THEN t.entries[i - 1].length ELSE 0
             c == IF i + 1 < MaxAllocs /\ IsFree(t.entries[i + 1])
                  THEN t.entries[i + 1].length ELSE 0
  <2>1. ASSUME NEW j \in Ids
        PROVE  t.entries[j].length \in 0 .. RamGSize
    BY <1>0, TableFields, Parameters DEF Cells
  <2>2. a \in 0 .. RamGSize
    BY <1>2, <2>1, Parameters
  <2>3. b \in 0 .. RamGSize
    <3>1. i - 1 \in Ids
      BY <1>2, Parameters DEF Ids
    <3>. QED
      BY <2>1, <3>1, Parameters
  <2>4. c \in 0 .. RamGSize
    <3>1. i + 1 < MaxAllocs => i + 1 \in Ids
      BY <1>2, Parameters DEF Ids
    <3>. QED
      BY <2>1, <3>1, Parameters
  <2>5. S(i) = a + b + c
    BY DEF Space
  <2> HIDE DEF a, b, c, S
  <2>. QED
    BY <2>2, <2>3, <2>4, <2>5, Parameters
<1>4. M # {}
  BY DEF Fragmented
<1> HIDE DEF M, S
<1>5. T \in SUBSET Nat /\ T # {}
  <2>1. PICK i \in M : TRUE
    BY <1>4
  <2>2. 3 * RamGSize - S(i) \in 0 .. 3 * RamGSize
    BY <1>3, Parameters
  <2>3. 3 * RamGSize \in Nat
    BY Parameters
  <2>. QED
    BY <2>2, <2>3
<1>6. PICK n \in T : \A m \in T : n <= m
  <2> HIDE DEF T
  <2>. QED
    BY <1>5, Least
<1>7. PICK i \in M : n = 3 * RamGSize - S(i)
  BY <1>6
<1>8. ASSUME NEW j \in M
      PROVE  S(j) <= S(i)
  <2>1. 3 * RamGSize - S(j) \in T
    BY <1>3, Parameters
  <2>2. 3 * RamGSize - S(i) <= 3 * RamGSize - S(j)
    BY <1>6, <1>7, <2>1
  <2>. QED
    BY <1>3, <2>2, Parameters
<1>9. L # {} /\ L \in SUBSET Nat
  BY <1>2, <1>8
<1>10. LargestIdx(t) = Min(L)
  BY DEF LargestIdx, M, S
<1>11. Min(L) \in L
  <2> HIDE DEF L
  <2>. QED
    BY <1>9, MinIs
<1>12. LargestIdx(t) \in M
  BY <1>10, <1>11
<1>. QED
  BY <1>2, <1>12

(* After a move the two ids have traded blocks.                            *)
LEMMA SwapGood ==
  ASSUME NEW t, Good(t), NEW id \in Given(t), NEW new \in Given(t), id # new
  PROVE  LET u == SwapHandles(t, id, new)
         IN  /\ Good(u) /\ Given(u) = Given(t)
             /\ \A a \in Ids : u.refs[a].seq = t.refs[a].seq
             /\ Place(u, id).address = Place(t, new).address
             /\ Place(u, id).length = Place(t, new).length
             /\ Place(u, new).address = Place(t, id).address
             /\ Place(u, new).length = Place(t, id).length
             /\ \A a \in Given(t) : a # id /\ a # new => Place(u, a) = Place(t, a)
<1> DEFINE i  == t.refs[id].idx
           j  == t.refs[new].idx
           ej == [t.entries[j] EXCEPT !.id = id, !.flags = t.entries[j].flags \ {"used"}]
           ei == [t.entries[i] EXCEPT !.id = new, !.flags = OldFlags(t.entries[i].flags)]
           w1 == [t EXCEPT !.entries[j] = ej]
           w2 == [w1 EXCEPT !.entries[i] = ei]
           w3 == [w2 EXCEPT !.refs[id].idx = j]
           w4 == [w3 EXCEPT !.refs[new].idx = i]
           u  == SwapHandles(t, id, new)
<1>1. /\ t \in Tables /\ Tiling(t) /\ NoPair(t) /\ Match(t)
      /\ t.refs \in [Ids -> RefType] /\ t.entries \in [Ids -> EntryType] /\ t.nb \in 1 .. MaxAllocs
      /\ Span(t) \subseteq Ids
      /\ id \in Ids /\ new \in Ids /\ i \in Span(t) /\ j \in Span(t) /\ i \in Ids /\ j \in Ids
      /\ t.entries[i].id = id /\ t.entries[j].id = new /\ i # j
      /\ i \in Nat /\ j \in Nat /\ i < t.nb /\ j < t.nb
      /\ i \in 0 .. MaxAllocs /\ j \in 0 .. MaxAllocs
  <2>1. t \in Tables /\ Tiling(t) /\ NoPair(t) /\ Match(t)
    BY DEF Good
  <2>2. /\ id \in Ids /\ new \in Ids /\ i \in Span(t) /\ j \in Span(t)
        /\ t.entries[i].id = id /\ t.entries[j].id = new
    BY <2>1 DEF Given, Match
  <2>3. i # j
    BY <2>2
  <2>4. i \in Nat /\ j \in Nat /\ i < t.nb /\ j < t.nb
    BY <2>2, EntryNumbers
  <2>. QED
    BY <2>1, <2>2, <2>3, <2>4, TableFields
<1>2. u = w4
  BY DEF SwapHandles
<1> HIDE DEF u, i, j
<1>3. ej \in EntryType /\ ej.address = t.entries[j].address /\ ej.length = t.entries[j].length
      /\ ej.id = id
  <2> DEFINE x == t.entries[j]
             f == x.flags \ {"used"}
  <2>1. x \in EntryType /\ f \in SUBSET Flags /\ id \in 0 .. MaxAllocs
    BY <1>1, Parameters DEF EntryType, Ids
  <2>2. ej = [x EXCEPT !.id = id, !.flags = f]
    BY DEF x
  <2> HIDE DEF x, f, ej
  <2>3. ej \in EntryType /\ ej.address = x.address /\ ej.length = x.length /\ ej.id = id
    BY <2>1, <2>2 DEF EntryType
  <2>. QED
    BY <2>3 DEF x
<1>4. ei \in EntryType /\ ei.address = t.entries[i].address /\ ei.length = t.entries[i].length
      /\ ei.id = new
  <2> DEFINE x == t.entries[i]
             f == OldFlags(x.flags)
  <2>1. x \in EntryType /\ f \in SUBSET Flags /\ new \in 0 .. MaxAllocs
    BY <1>1, Parameters DEF EntryType, Ids, OldFlags, Flags
  <2>2. ei = [x EXCEPT !.id = new, !.flags = f]
    BY DEF x
  <2> HIDE DEF x, f, ei
  <2>3. ei \in EntryType /\ ei.address = x.address /\ ei.length = x.length /\ ei.id = new
    BY <2>1, <2>2 DEF EntryType
  <2>. QED
    BY <2>3 DEF x
<1>5. /\ w1.refs = t.refs /\ w1.entries = [t.entries EXCEPT ![j] = ej] /\ w1.nb = t.nb
      /\ w1 \in [refs : {w1.refs}, entries : {w1.entries}, nb : {w1.nb}]
  <2> HIDE DEF ej
  <2>. QED
    BY <1>1 DEF Tables
<1> HIDE DEF w1, ej
<1>6. w1.entries \in [Ids -> EntryType]
  BY <1>1, <1>3, <1>5
<1>7. w2 = [w1 EXCEPT !.entries[i] = ei]
  OBVIOUS
<1> HIDE DEF w2, ei
<1>8. /\ w2.refs = t.refs /\ w2.nb = t.nb
      /\ w2.entries = [[t.entries EXCEPT ![j] = ej] EXCEPT ![i] = ei]
      /\ w2 \in [refs : {w2.refs}, entries : {w2.entries}, nb : {w2.nb}]
  BY <1>5, <1>7
<1>9. /\ w3.refs = [t.refs EXCEPT ![id].idx = j] /\ w3.nb = t.nb /\ w3.entries = w2.entries
      /\ w3 \in [refs : {w3.refs}, entries : {w3.entries}, nb : {w3.nb}]
  BY <1>8
<1> HIDE DEF w3
<1>10. /\ w4.refs = [[t.refs EXCEPT ![id].idx = j] EXCEPT ![new].idx = i]
       /\ w4.nb = t.nb /\ w4.entries = w2.entries
       /\ w4 \in [refs : {w4.refs}, entries : {w4.entries}, nb : {w4.nb}]
  BY <1>9
<1> HIDE DEF w4
<1>11. /\ u.entries[i] = ei /\ u.entries[j] = ej
       /\ \A k \in Ids : k # i /\ k # j => u.entries[k] = t.entries[k]
       /\ u.entries \in [Ids -> EntryType] /\ u.nb = t.nb
  BY <1>1, <1>2, <1>3, <1>4, <1>8, <1>10
<1>12. /\ u.refs[id].idx = j /\ u.refs[new].idx = i
       /\ u.refs[id].seq = t.refs[id].seq /\ u.refs[new].seq = t.refs[new].seq
       /\ \A a \in Ids : a # id /\ a # new => u.refs[a] = t.refs[a]
       /\ u.refs \in [Ids -> RefType]
  <2>1. t.refs[id] \in RefType /\ t.refs[new] \in RefType
    BY <1>1
  <2> DEFINE ri == [t.refs[id] EXCEPT !.idx = j]
             rn == [t.refs[new] EXCEPT !.idx = i]
  <2>2. /\ ri \in RefType /\ rn \in RefType /\ ri.idx = j /\ rn.idx = i
        /\ ri.seq = t.refs[id].seq /\ rn.seq = t.refs[new].seq
    BY <1>1, <2>1 DEF RefType
  <2>3. u.refs = [[t.refs EXCEPT ![id] = ri] EXCEPT ![new] = rn]
    BY <1>1, <1>2, <1>10
  <2> HIDE DEF ri, rn
  <2>. QED
    BY <1>1, <2>2, <2>3
<1>13. u \in Tables
  <2>1. u = [refs |-> u.refs, entries |-> u.entries, nb |-> u.nb]
    BY <1>2, <1>10
  <2>. QED
    BY <1>1, <1>11, <1>12, <2>1 DEF Tables
<1>14. ASSUME NEW k \in Ids
       PROVE  /\ u.entries[k].address = t.entries[k].address
              /\ u.entries[k].length = t.entries[k].length
              /\ End(u.entries[k]) = End(t.entries[k])
              /\ IsFree(u.entries[k]) <=> IsFree(t.entries[k])
  <2>1. new # NoId /\ id # NoId
    BY <1>1, Parameters DEF Ids
  <2>. QED
    BY <1>1, <1>3, <1>4, <1>11, <2>1 DEF End, IsFree
<1>15. Span(u) = Span(t)
  BY <1>11 DEF Span
<1>16. ASSUME NEW k \in Span(t), k + 1 < t.nb
       PROVE  k \in Ids /\ k + 1 \in Ids
  BY <1>1, <1>16, Parameters DEF Span, Ids
<1>17. Tiling(u)
  <2>1. ASSUME NEW k \in Span(t)
        PROVE  Bound(u, k) = Bound(t, k)
    BY <1>11, <1>14, <1>16 DEF Bound
  <2>2. u.entries[0].address = 0
    BY <1>1, <1>14, Parameters DEF Tiling
  <2>3. ASSUME NEW k \in Span(t)
        PROVE  u.entries[k].length > 0 /\ End(u.entries[k]) = Bound(u, k)
    BY <1>1, <1>14, <2>1 DEF Tiling
  <2>4. ASSUME NEW k \in Span(t), NEW m \in Span(t), k < m
        PROVE  End(u.entries[k]) <= u.entries[m].address
    BY <1>1, <1>14, <2>4 DEF Tiling
  <2>. QED
    BY <1>15, <2>2, <2>3, <2>4 DEF Tiling
<1>18. NoPair(u)
  BY <1>1, <1>11, <1>14, <1>15, <1>16 DEF NoPair
<1>19. Match(u)
  <2>1. ASSUME NEW k \in Span(t), ~IsFree(u.entries[k])
        PROVE  u.refs[u.entries[k].id].idx = k
    <3>1. CASE k = i
      BY <1>4, <1>11, <1>12, <3>1
    <3>2. CASE k = j
      BY <1>3, <1>11, <1>12, <3>2
    <3>3. CASE k # i /\ k # j
      <4>1. k \in Ids /\ u.entries[k] = t.entries[k]
        BY <1>1, <1>11, <3>3
      <4>2. t.refs[t.entries[k].id].idx = k /\ t.entries[k].id \in Ids
        BY <1>1, <2>1, <4>1, TableFields DEF Match
      <4>3. t.entries[k].id # id /\ t.entries[k].id # new
        BY <3>3, <4>2 DEF i, j
      <4>. QED
        BY <1>12, <4>1, <4>2, <4>3
    <3>. QED
      BY <3>1, <3>2, <3>3
  <2>2. ASSUME NEW a \in Ids, u.refs[a].idx # NoId
        PROVE  u.refs[a].idx \in Span(t) /\ u.entries[u.refs[a].idx].id = a
    <3>1. CASE a = id
      BY <1>1, <1>3, <1>11, <1>12, <3>1
    <3>2. CASE a = new
      BY <1>1, <1>4, <1>11, <1>12, <3>2
    <3>3. CASE a # id /\ a # new
      <4>1. u.refs[a] = t.refs[a]
        BY <1>12, <3>3
      <4>2. t.refs[a].idx \in Span(t) /\ t.entries[t.refs[a].idx].id = a
        BY <1>1, <2>2, <4>1 DEF Match
      <4>3. t.refs[a].idx # i /\ t.refs[a].idx # j
        BY <1>1, <3>3, <4>2
      <4>. QED
        BY <1>1, <1>11, <4>1, <4>2, <4>3
    <3>. QED
      BY <3>1, <3>2, <3>3
  <2>. QED
    BY <1>15, <2>1, <2>2 DEF Match
<1>20. Given(u) = Given(t)
  <2>1. i # NoId /\ j # NoId /\ t.refs[id].idx = i /\ t.refs[new].idx = j
    BY <1>1, Parameters DEF i, j, Ids
  <2>2. ASSUME NEW a \in Ids
        PROVE  u.refs[a].idx # NoId <=> t.refs[a].idx # NoId
    BY <1>1, <1>12, <2>1
  <2>. QED
    BY <2>2 DEF Given
<1>21. /\ Place(u, id).address = Place(t, new).address
       /\ Place(u, id).length = Place(t, new).length
       /\ Place(u, new).address = Place(t, id).address
       /\ Place(u, new).length = Place(t, id).length
  BY <1>3, <1>4, <1>11, <1>12 DEF Place, i, j
<1>22. ASSUME NEW a \in Given(t), a # id, a # new
       PROVE  Place(u, a) = Place(t, a)
  <2>1. a \in Ids /\ u.refs[a] = t.refs[a]
    BY <1>12, <1>22 DEF Given
  <2>2. t.refs[a].idx \in Span(t) /\ t.entries[t.refs[a].idx].id = a
    BY <1>1, <2>1 DEF Match, Given
  <2>3. t.refs[a].idx # i /\ t.refs[a].idx # j
    BY <1>1, <1>22, <2>2
  <2>. QED
    BY <1>1, <1>11, <2>1, <2>2, <2>3 DEF Place
<1>23. \A a \in Ids : u.refs[a].seq = t.refs[a].seq
  BY <1>12
<1>. QED
  BY <1>13, <1>17, <1>18, <1>19, <1>20, <1>21, <1>22, <1>23 DEF Good, u

-----------------------------------------------------------------------------
(* Handles.                                                                *)

(* A sequence number is 24 bits wide: the results below hold until one     *)
(* comes round.  (Taking all of RAM_G moves one on by two.)                *)
Room(t) == \A id \in Ids : t.refs[id].seq + 2 < SeqCount
NoWrap  == Room(ga)

HandleType == [id : 0 .. MaxAllocs, seq : 0 .. SeqCount - 1]

(* A handle is never ahead of its id, and it is behind when the id is not  *)
(* given out.                                                              *)
Known(t, h) ==
  h.id \in Ids => /\ h.seq <= t.refs[h.id].seq
                  /\ t.refs[h.id].idx = NoId => h.seq < t.refs[h.id].seq

(* What the tables may become: an id moves on in its count, or stays as it *)
(* is and keeps its block if it had one.                                   *)
Later(t, u) ==
  \A id \in Ids : \/ u.refs[id].seq > t.refs[id].seq
                  \/ /\ u.refs[id].seq = t.refs[id].seq
                     /\ id \in Given(t) => id \in Given(u)

(* Steps of the tables add up.                                             *)
LEMMA LaterAgain ==
  ASSUME NEW t \in Tables, NEW u \in Tables, NEW v \in Tables, Later(t, u), Later(u, v)
  PROVE  Later(t, v)
<1> SUFFICES ASSUME NEW id \in Ids
             PROVE  \/ v.refs[id].seq > t.refs[id].seq
                    \/ /\ v.refs[id].seq = t.refs[id].seq
                       /\ id \in Given(t) => id \in Given(v)
  BY DEF Later
<1> DEFINE a == t.refs[id].seq
           b == u.refs[id].seq
           c == v.refs[id].seq
<1>1. a \in Int /\ b \in Int /\ c \in Int
  BY TableFields, Parameters
<1>2. b > a \/ (b = a /\ (id \in Given(t) => id \in Given(u)))
  BY DEF Later
<1>3. c > b \/ (c = b /\ (id \in Given(u) => id \in Given(v)))
  BY DEF Later
<1> HIDE DEF a, b, c
<1>4. c > a \/ (c = a /\ (id \in Given(t) => id \in Given(v)))
  BY <1>1, <1>2, <1>3
<1>. QED
  BY <1>4 DEF a, c

LEMMA LaterSame ==
  ASSUME NEW t, NEW u, Given(u) = Given(t),
         \A id \in Ids : u.refs[id].seq = t.refs[id].seq
  PROVE  Later(t, u)
BY DEF Later

(* A handle that resolves has an id that is given out.                     *)
LEMMA HeldIsGiven ==
  ASSUME NEW t, NEW h \in HandleType, Known(t, h), Resolves(t, h), t \in Tables
  PROVE  h.id \in Ids /\ h.id \in Given(t)
<1>1. h.id \in Ids
  BY Parameters DEF Resolves, HandleType, Ids
<1>2. t.refs[h.id].seq = h.seq /\ h.seq \in Int
  BY Parameters DEF Resolves, HandleType
<1>3. t.refs[h.id].idx # NoId
  BY <1>1, <1>2 DEF Known
<1>. QED
  BY <1>1, <1>3 DEF Given

(* A handle stays known, and one that resolves has resolved before.        *)
LEMMA LaterHandles ==
  ASSUME NEW t \in Tables, NEW u \in Tables, NEW h \in HandleType, Known(t, h), Later(t, u)
  PROVE  /\ Known(u, h)
         /\ Resolves(u, h) => Resolves(t, h) /\ h.id \in Given(t) /\ h.id \in Given(u)
<1> SUFFICES ASSUME h.id \in Ids
             PROVE  /\ Known(u, h)
                    /\ Resolves(u, h) => Resolves(t, h) /\ h.id \in Given(t) /\ h.id \in Given(u)
  BY Parameters DEF Known, Resolves, HandleType, Ids
<1> DEFINE a == t.refs[h.id].seq
           b == u.refs[h.id].seq
           s == h.seq
<1>1. a \in Int /\ b \in Int /\ s \in Int
  BY TableFields, Parameters DEF HandleType
<1>2. b > a \/ (b = a /\ (h.id \in Given(t) => h.id \in Given(u)))
  BY DEF Later
<1>3. s <= a /\ (h.id \notin Given(t) => s < a)
  BY DEF Known, Given
<1> HIDE DEF a, b, s
<1>4. s <= b /\ (h.id \notin Given(u) => s < b)
  BY <1>1, <1>2, <1>3
<1>5. b = s => a = s /\ h.id \in Given(t) /\ h.id \in Given(u)
  BY <1>1, <1>2, <1>3
<1>6. Known(u, h)
  BY <1>4 DEF Known, Given, b, s
<1>7. Resolves(u, h) => Resolves(t, h) /\ h.id \in Given(t) /\ h.id \in Given(u)
  BY <1>5 DEF Resolves, a, b, s
<1>. QED
  BY <1>6, <1>7

(* Alloc only moves on, and its handle resolves.                           *)
LEMMA AllocLater ==
  ASSUME NEW t, Good(t), Room(t), NEW bytes \in Nat \ {0}, NEW fls \in SUBSET Flags,
         CanAlloc(t, bytes)
  PROVE  LET n == NewHandle(t)
             u == Alloc(t, bytes, fls)
         IN  /\ Later(t, u) /\ n \in HandleType /\ Known(u, n) /\ Resolves(u, n)
             /\ n.seq + 1 < SeqCount /\ n.seq = t.refs[n.id].seq + 1
<1> DEFINE n == NewHandle(t)
           u == Alloc(t, bytes, fls)
<1>1. /\ n \in [id : Ids, seq : 0 .. SeqCount - 1] /\ n.id \in Ids /\ n.id \notin Given(t)
      /\ Good(u) /\ Given(u) = Given(t) \cup {n.id}
      /\ n.seq = NextSeq(t.refs[n.id].seq) /\ u.refs[n.id].seq = n.seq
      /\ \A id \in Ids : id # n.id => u.refs[id].seq = t.refs[id].seq
  BY AllocGood
<1> HIDE DEF n, u
<1>2. t.refs[n.id].seq \in 0 .. SeqCount - 1
  BY <1>1, TableFields DEF Good
<1>3. t.refs[n.id].seq + 2 < SeqCount
  BY <1>1 DEF Room
<1>4. n.seq = t.refs[n.id].seq + 1 /\ n.seq + 1 < SeqCount /\ n.seq > t.refs[n.id].seq
  <2> DEFINE s == t.refs[n.id].seq
  <2>1. n.seq = NextSeq(s) /\ s \in 0 .. SeqCount - 1 /\ s + 2 < SeqCount
    BY <1>1, <1>2, <1>3
  <2> HIDE DEF s
  <2>2. n.seq = s + 1 /\ n.seq + 1 < SeqCount /\ n.seq > s
    BY <2>1, SeqMoves, Parameters
  <2>. QED
    BY <2>2 DEF s
<1>5. Later(t, u)
  BY <1>1, <1>4 DEF Later
<1>6. n \in HandleType
  BY <1>1, Parameters DEF HandleType, Ids
<1>7. Known(u, n)
  BY <1>1, <1>6, Parameters DEF Known, Given, HandleType
<1>8. Resolves(u, n)
  BY <1>1, Parameters DEF Resolves, Ids
<1>. QED
  BY <1>4, <1>5, <1>6, <1>7, <1>8 DEF n, u

(* Freeing an id moves it on by one.                                       *)
LEMMA FreeLater ==
  ASSUME NEW t, Good(t), NEW id \in Given(t), t.refs[id].seq + 1 < SeqCount
  PROVE  /\ Later(t, FreeId(t, id))
         /\ FreeId(t, id).refs[id].seq = t.refs[id].seq + 1
<1> DEFINE u == FreeId(t, id)
<1>1. /\ Given(u) = Given(t) \ {id} /\ u.refs[id].seq = NextSeq(t.refs[id].seq)
      /\ \A a \in Ids : a # id => u.refs[a].seq = t.refs[a].seq
  BY FreeIdGood
<1>2. t.refs[id].seq \in 0 .. SeqCount - 1
  BY TableFields DEF Good, Given
<1> HIDE DEF u
<1>3. u.refs[id].seq = t.refs[id].seq + 1 /\ u.refs[id].seq > t.refs[id].seq
  BY <1>1, <1>2, SeqMoves, Parameters
<1>4. Later(t, u)
  BY <1>1, <1>3 DEF Later
<1>. QED
  BY <1>3, <1>4 DEF u

-----------------------------------------------------------------------------
(* What the blocks hold.                                                   *)

Block(t, id) == Words(Place(t, id).address, Place(t, id).length)

SameBlock(t, u, id) == /\ Place(u, id).address = Place(t, id).address
                       /\ Place(u, id).length = Place(t, id).length

(* Block id has room for resource r and holds its data.                    *)
Has(t, m, id, r) ==
  Place(t, id).length >= SizeOf[r] /\ \A a \in Block(t, id) : m[a] = r

(* A block lies in RAM_G and begins with its address.                      *)
LEMMA BlockIs ==
  ASSUME NEW t, Good(t), NEW id \in Given(t)
  PROVE  /\ Block(t, id) \subseteq WordAddr
         /\ Place(t, id).address \in Block(t, id) /\ Place(t, id).address \in WordAddr
         /\ Place(t, id).address \in Cells /\ Place(t, id).length \in Cells
         /\ Place(t, id).length > 0 /\ End(Place(t, id)) <= RamGSize
<1> DEFINE b == Place(t, id).address
           l == Place(t, id).length
<1>1. b \in Cells /\ l \in Cells /\ l > 0 /\ b + l <= RamGSize /\ End(Place(t, id)) = b + l
  BY PlacesApart DEF EntryType, End
<1> HIDE DEF b, l
<1>2. b \in WordAddr /\ b \in Words(b, l) /\ Words(b, l) \subseteq WordAddr
  BY <1>1, Parameters DEF Cells, WordAddr, Words
<1>. QED
  BY <1>1, <1>2 DEF Block, b, l

(* No two blocks share a word.                                             *)
LEMMA BlocksApart ==
  ASSUME NEW t, Good(t), NEW a \in Given(t), NEW b \in Given(t), a # b
  PROVE  Block(t, a) \cap Block(t, b) = {}
<1> DEFINE p == Place(t, a).address
           l == Place(t, a).length
           q == Place(t, b).address
           m == Place(t, b).length
<1>1. p \in Nat /\ l \in Nat /\ q \in Nat /\ m \in Nat
  BY BlockIs, Parameters
<1>2. p + l <= q \/ q + m <= p
  BY PlacesApart DEF End
<1> HIDE DEF p, l, q, m
<1>3. Words(p, l) \cap Words(q, m) = {}
  BY <1>1, <1>2, Parameters DEF Words, WordAddr
<1>. QED
  BY <1>3 DEF Block, p, l, q, m

(* Data stays where its block stays and nobody writes into it.             *)
LEMMA HasStays ==
  ASSUME NEW t, NEW u, NEW m, NEW w, NEW id, NEW r, SameBlock(t, u, id), Has(t, m, id, r),
         \A a \in Block(t, id) : w[a] = m[a]
  PROVE  Has(u, w, id, r)
BY DEF SameBlock, Has, Block

-----------------------------------------------------------------------------
(* The invariant.                                                          *)

Typed ==
  /\ ramg \in [WordAddr -> Resources \cup {"none"}]
  /\ handle \in [Resources -> HandleType]
  /\ size \in [Resources -> Nat] /\ \A r \in Resources : size[r] <= SizeOf[r]
  /\ phase \in {"frame", "sweep", "defrag"} /\ sweepIdx \in 0 .. MaxAllocs
  /\ drawing \in SUBSET [resource : Resources, address : Cells]
  /\ shown \in SUBSET [resource : Resources, address : Cells]
  /\ wild \in BOOLEAN

HandlesKnown == \A r \in Resources : Known(ga, handle[r])

Content == \A r \in Held : Has(ga, ramg, handle[r].id, r)

(* What is drawn is still held where it was drawn, and marked.             *)
Leads(d) == d.resource \in Held /\ Place(ga, handle[d.resource].id).address = d.address
Marked(d) == "used" \in Place(ga, handle[d.resource].id).flags

Drawn == \A d \in drawing : phase = "frame" /\ Leads(d) /\ Marked(d)

(* While Update collects, what is on the screen is held; the part that is  *)
(* not yet swept is marked.                                                *)
Swept == phase = "sweep" =>
  \A d \in shown : Leads(d) /\ (ga.refs[handle[d.resource].id].idx >= sweepIdx => Marked(d))

(* What is on the screen lies at the start of a block of somebody's.       *)
Kept == \A d \in shown : /\ ramg[d.address] = d.resource
                         /\ \E id \in Given(ga) : Place(ga, id).address = d.address

Inv == /\ Good(ga) /\ Typed /\ HandlesKnown /\ Content /\ Drawn
       /\ ~FramesLost => Swept /\ Kept

(* No block is truncated while the table of entries is full: Truncate then *)
(* changes the tables in a way Tiled does not survive.                     *)
RoomToTruncate ==
  \A r \in Resources, bytes \in TruncateSizes :
    Truncate(r, bytes) => ~(ga.nb >= MaxAllocs /\ Resolves(ga, handle[r]))

(* What it means to be held.                                               *)
LEMMA HeldFacts ==
  ASSUME Inv, NEW r \in Held
  PROVE  /\ r \in Resources /\ handle[r] \in HandleType /\ handle[r].id \in Ids
         /\ handle[r].id \in Given(ga) /\ Has(ga, ramg, handle[r].id, r)
         /\ Resolves(ga, handle[r]) /\ EntryOf(ga, handle[r]) = Place(ga, handle[r].id)
<1>1. r \in Resources /\ Resolves(ga, handle[r])
  BY DEF Held
<1>2. handle[r] \in HandleType /\ Known(ga, handle[r]) /\ ga \in Tables
  BY <1>1 DEF Inv, Typed, HandlesKnown, Good
<1>3. handle[r].id \in Ids /\ handle[r].id \in Given(ga)
  BY <1>1, <1>2, HeldIsGiven
<1>. QED
  BY <1>1, <1>2, <1>3 DEF Inv, Content, EntryOf, Place

(* No two resources hold the same block.                                   *)
LEMMA HoldersApart ==
  ASSUME Inv, NEW r \in Held, NEW q \in Held, r # q
  PROVE  handle[r].id # handle[q].id
<1>1. SUFFICES ASSUME handle[r].id = handle[q].id
               PROVE  FALSE
  OBVIOUS
<1> DEFINE i == handle[r].id
<1>2. i \in Given(ga) /\ Has(ga, ramg, i, r) /\ Has(ga, ramg, i, q)
  BY <1>1, HeldFacts
<1> HIDE DEF i
<1>3. Place(ga, i).address \in Block(ga, i)
  BY <1>2, BlockIs DEF Inv
<1>. QED
  BY <1>2, <1>3 DEF Has

(* What it means to be led to.                                             *)
LEMMA LeadsFacts ==
  ASSUME Inv, NEW d, Leads(d)
  PROVE  /\ d.resource \in Held /\ handle[d.resource].id \in Given(ga)
         /\ Place(ga, handle[d.resource].id).address = d.address
         /\ d.address \in Block(ga, handle[d.resource].id)
         /\ ramg[d.address] = d.resource
         /\ d.address \in Cells /\ d.resource \in Resources
<1> DEFINE i == handle[d.resource].id
<1>1. d.resource \in Held /\ Place(ga, i).address = d.address
  BY DEF Leads
<1>2. i \in Given(ga) /\ Has(ga, ramg, i, d.resource) /\ d.resource \in Resources
  BY <1>1, HeldFacts
<1> HIDE DEF i
<1>3. Place(ga, i).address \in Block(ga, i) /\ Place(ga, i).address \in Cells
  BY <1>2, BlockIs DEF Inv
<1>4. ramg[d.address] = d.resource
  BY <1>1, <1>2, <1>3 DEF Has
<1>. QED
  BY <1>1, <1>2, <1>3, <1>4 DEF i

(* Handles through a step: they stay known, and who holds a block after it *)
(* held it before, unless its handle is new.                               *)
LEMMA HandlesThrough ==
  ASSUME Inv, ga' \in Tables, Later(ga, ga'), NEW r \in Resources, handle'[r] = handle[r]
  PROVE  /\ Known(ga, handle[r])' /\ Known(ga', handle'[r])
         /\ r \in Held' => /\ r \in Held /\ handle[r].id \in Given(ga)
                           /\ handle[r].id \in Given(ga') /\ Has(ga, ramg, handle[r].id, r)
<1>1. ga \in Tables /\ handle[r] \in HandleType /\ Known(ga, handle[r])
  BY DEF Inv, Good, Typed, HandlesKnown
<1>2. /\ Known(ga', handle[r])
      /\ Resolves(ga', handle[r]) =>
           Resolves(ga, handle[r]) /\ handle[r].id \in Given(ga) /\ handle[r].id \in Given(ga')
  BY <1>1, LaterHandles
<1>3. r \in Held' => Resolves(ga', handle[r])
  BY DEF Held
<1>4. r \in Held' => r \in Held
  BY <1>2, <1>3 DEF Held
<1>5. Known(ga', handle'[r]) = Known(ga, handle[r])'
  BY DEF Known
<1>. QED
  BY <1>2, <1>3, <1>4, <1>5 DEF Inv, Content

(* A block keeps its holder if its sequence number does not move.          *)
LEMMA StillHeld ==
  ASSUME NEW r \in Held, handle'[r] = handle[r],
         ga'.refs[handle[r].id].seq = ga.refs[handle[r].id].seq
  PROVE  r \in Held'
BY DEF Held, Resolves

(* Blocks that outlive a step stay where they are, and nobody writes to    *)
(* them.                                                                   *)
Calm(t, u, m, w) ==
  /\ Good(u) /\ Later(t, u)
  /\ \A id \in Given(t) : id \in Given(u) =>
       SameBlock(t, u, id) /\ \A a \in Block(t, id) : w[a] = m[a]

LEMMA CalmContent ==
  ASSUME Inv, Calm(ga, ga', ramg, ramg'), NEW r \in Resources, handle'[r] = handle[r]
  PROVE  /\ Known(ga, handle[r])'
         /\ r \in Held' => r \in Held /\ Has(ga, ramg, handle[r].id, r)'
<1>1. ga' \in Tables /\ Later(ga, ga')
  BY DEF Calm, Good
<1>2. /\ Known(ga, handle[r])'
      /\ r \in Held' => /\ r \in Held /\ handle[r].id \in Given(ga)
                        /\ handle[r].id \in Given(ga') /\ Has(ga, ramg, handle[r].id, r)
  BY <1>1, HandlesThrough
<1>3. ASSUME r \in Held'
      PROVE  Has(ga, ramg, handle[r].id, r)'
  <2> DEFINE i == handle[r].id
  <2>1. i \in Given(ga) /\ i \in Given(ga') /\ Has(ga, ramg, i, r)
    BY <1>2, <1>3
  <2> HIDE DEF i
  <2>2. SameBlock(ga, ga', i) /\ \A a \in Block(ga, i) : ramg'[a] = ramg[a]
    BY <2>1 DEF Calm
  <2>3. Has(ga', ramg', i, r)
    BY <2>1, <2>2, HasStays
  <2>4. Has(ga', ramg', handle'[r].id, r)
    BY <2>3 DEF i
  <2>. QED
    BY <2>4 DEF Has, Block, Place
<1>. QED
  BY <1>2, <1>3

LEMMA CalmLeads ==
  ASSUME Inv, Calm(ga, ga', ramg, ramg'), NEW d, Leads(d),
         handle'[d.resource] = handle[d.resource],
         ga'.refs[handle[d.resource].id].seq = ga.refs[handle[d.resource].id].seq
  PROVE  /\ Leads(d)' /\ handle[d.resource].id \in Given(ga')
         /\ (handle[d.resource].id)' = handle[d.resource].id
<1> DEFINE r == d.resource
<1>1. r \in Held /\ r \in Resources /\ Place(ga, handle[r].id).address = d.address
  BY LeadsFacts
<1>2. r \in Held'
  BY <1>1, StillHeld
<1>3. ga' \in Tables /\ Later(ga, ga')
  BY DEF Calm, Good
<1>4. handle[r].id \in Given(ga) /\ handle[r].id \in Given(ga')
  BY <1>1, <1>2, <1>3, HandlesThrough
<1>5. SameBlock(ga, ga', handle[r].id)
  BY <1>4 DEF Calm
<1>6. Place(ga', handle'[r].id).address = d.address
  BY <1>1, <1>5 DEF SameBlock
<1>7. Leads(d)'
  BY <1>2, <1>6 DEF Leads, Place
<1>. QED
  BY <1>4, <1>7

LEMMA CalmKept ==
  ASSUME Inv, Calm(ga, ga', ramg, ramg'), NEW d, ramg[d.address] = d.resource,
         NEW id \in Given(ga), id \in Given(ga'), Place(ga, id).address = d.address
  PROVE  /\ ramg'[d.address] = d.resource
         /\ \E i \in Given(ga)' : (Place(ga, i).address)' = d.address
<1>1. SameBlock(ga, ga', id) /\ \A a \in Block(ga, id) : ramg'[a] = ramg[a]
  BY DEF Calm
<1>2. d.address \in Block(ga, id)
  BY BlockIs DEF Inv
<1>3. id \in Given(ga)'
  BY DEF Given
<1>. QED
  BY <1>1, <1>2, <1>3 DEF SameBlock, Place

LEMMA InvNext ==
  ASSUME Good(ga'), Typed', HandlesKnown', Content', Drawn', ~FramesLost => Swept' /\ Kept'
  PROVE  Inv'
<1>1. Good(ga)'
  BY DEF Good, Tables, Tiling, NoPair, Match, Span, Bound
<1>. QED
  BY <1>1 DEF Inv

-----------------------------------------------------------------------------
(* The application's steps.                                                *)

(* A loaded resource is looked up and drawn.                               *)
LEMMA UseStep ==
  ASSUME Inv, NEW r \in Resources, phase = "frame", UseLoaded(r),
         UNCHANGED <<phase, sweepIdx, shown, wild>>
  PROVE  Inv' /\ Later(ga, ga')
<1> DEFINE i  == ga.refs[handle[r].id].idx
           fl == ga.entries[i].flags \cup {"used"}
           new == [resource |-> r, address |-> Address(ga, r)]
<1>1. /\ r \in Held /\ ga' = SetFlags(ga, i, fl) /\ UNCHANGED <<ramg, handle, size>>
      /\ drawing' = drawing \cup {new}
  BY DEF UseLoaded, Held, MarkUsed, SetFlags
<1>2. /\ handle[r].id \in Given(ga) /\ EntryOf(ga, handle[r]) = Place(ga, handle[r].id)
      /\ handle[r].id \in Ids
  BY <1>1, HeldFacts
<1>3. Good(ga)
  BY DEF Inv
<1>4. i \in Ids /\ fl \in SUBSET Flags
  <2>1. ga \in Tables /\ i \in Span(ga)
    BY <1>2, <1>3, PlacesApart DEF Good
  <2>2. i \in Ids /\ ga.entries[i].flags \subseteq Flags
    BY <2>1, TableFields
  <2>. QED
    BY <2>2 DEF Flags
<1>5. /\ Good(ga') /\ Given(ga') = Given(ga) /\ ga'.refs = ga.refs /\ ga'.nb = ga.nb
      /\ \A id \in Given(ga) :
           /\ Place(ga', id).address = Place(ga, id).address
           /\ Place(ga', id).length = Place(ga, id).length
           /\ Place(ga', id).flags = IF ga.refs[id].idx = i THEN fl ELSE Place(ga, id).flags
  <2> HIDE DEF i, fl
  <2>. QED
    BY <1>1, <1>3, <1>4, FlagsGood
<1>6. Later(ga, ga')
  BY <1>5, LaterSame
<1>7. Calm(ga, ga', ramg, ramg')
  BY <1>1, <1>5, <1>6 DEF Calm, SameBlock
<1>8. Leads(new) /\ new.resource = r /\ new \in [resource : Resources, address : Cells]
  <2>1. new.resource = r /\ new.address = Place(ga, handle[r].id).address
    BY <1>2 DEF Address
  <2>2. Leads(new)
    BY <1>1, <2>1 DEF Leads
  <2>3. new.address \in Cells
    BY <2>2, LeadsFacts
  <2>. QED
    BY <2>1, <2>2, <2>3
<1> HIDE DEF new
<1>9. ASSUME NEW id \in Given(ga), "used" \in Place(ga, id).flags
      PROVE  "used" \in Place(ga', id).flags
  BY <1>5, <1>9
<1>10. Typed'
  <2>1. drawing' \in SUBSET [resource : Resources, address : Cells]
    BY <1>1, <1>8 DEF Inv, Typed
  <2>. QED
    BY <1>1, <2>1 DEF Inv, Typed
<1>11. HandlesKnown' /\ Content'
  BY <1>1, <1>7, CalmContent DEF HandlesKnown, Content, Held
<1>12. ASSUME NEW d, Leads(d)
       PROVE  Leads(d)' /\ (handle[d.resource].id)' = handle[d.resource].id
              /\ handle[d.resource].id \in Given(ga)
  <2>1. handle'[d.resource] = handle[d.resource]
    BY <1>1
  <2>2. Leads(d)'
    BY <1>5, <1>7, <1>12, <2>1, CalmLeads
  <2>. QED
    BY <1>12, <2>1, <2>2, LeadsFacts
<1>13. Drawn'
  <2> SUFFICES ASSUME NEW d \in drawing'
               PROVE  (phase = "frame" /\ Leads(d) /\ Marked(d))'
    BY DEF Drawn
  <2>1. CASE d \in drawing
    <3>1. Leads(d) /\ Marked(d)
      BY <2>1 DEF Inv, Drawn
    <3>2. "used" \in Place(ga', handle[d.resource].id).flags
      BY <1>9, <1>12, <3>1 DEF Marked
    <3>3. Marked(d)'
      BY <1>12, <3>1, <3>2 DEF Marked, Place
    <3>. QED
      BY <1>12, <3>1, <3>3
  <2>2. CASE d = new
    <3>1. Place(ga', handle[r].id).flags = fl
      BY <1>2, <1>5
    <3>2. Marked(d)'
      <4>1. "used" \in Place(ga', handle'[d.resource].id).flags
        BY <1>1, <1>8, <2>2, <3>1
      <4>. QED
        BY <4>1 DEF Marked, Place
    <3>. QED
      BY <1>8, <1>12, <2>2, <3>2
  <2>. QED
    BY <1>1, <2>1, <2>2
<1>14. ASSUME ~FramesLost
       PROVE  Swept' /\ Kept'
  <2>1. Swept'
    BY DEF Swept
  <2>2. ASSUME NEW d \in shown
        PROVE  /\ ramg'[d.address] = d.resource
               /\ \E j \in Given(ga)' : (Place(ga, j).address)' = d.address
    <3>1. PICK id \in Given(ga) : Place(ga, id).address = d.address /\ ramg[d.address] = d.resource
      BY <1>14 DEF Inv, Kept
    <3>. QED
      BY <1>5, <1>7, <3>1, CalmKept
  <2>3. Kept'
    BY <2>2 DEF Kept
  <2>. QED
    BY <2>1, <2>3
<1>. QED
  BY <1>5, <1>6, <1>10, <1>11, <1>13, <1>14, InvNext

LEMMA LoadFacts ==
  ASSUME Inv, NoWrap, NEW r \in Resources, CanAlloc(ga, SizeOf[r])
  PROVE  LET n == NewHandle(ga)
             t == Alloc(ga, SizeOf[r], FlagsOf[r])
         IN  /\ Good(ga) /\ Good(t) /\ Later(ga, t) /\ Known(t, n) /\ Resolves(t, n)
             /\ n \in HandleType /\ n.id \in Ids /\ n.id \notin Given(ga)
             /\ Given(t) = Given(ga) \cup {n.id} /\ t.refs[n.id].seq = n.seq
             /\ n.seq + 1 < SeqCount
             /\ \A id \in Given(ga) : /\ Place(t, id) = Place(ga, id)
                                      /\ t.refs[id].seq = ga.refs[id].seq
             /\ EntryOf(t, n) = Place(t, n.id)
             /\ "used" \in Place(t, n.id).flags /\ SizeOf[r] <= Place(t, n.id).length
<1> DEFINE b == SizeOf[r]
           f == FlagsOf[r]
           n == NewHandle(ga)
           t == Alloc(ga, b, f)
<1>1. Good(ga) /\ SizeOf[r] \in Nat \ {0} /\ FlagsOf[r] \in SUBSET Flags /\ Room(ga)
  <2>1. SizeOf[r] \in Nat \ {0} /\ FlagsOf[r] \in SUBSET {"gc", "fixed"}
    BY GpuAllocAssumption
  <2>. QED
    BY <2>1 DEF Inv, Flags, NoWrap
<1>2. /\ n \in [id : Ids, seq : 0 .. SeqCount - 1] /\ n.id \in Ids /\ n.id \notin Given(ga)
      /\ Good(t) /\ Given(t) = Given(ga) \cup {n.id}
      /\ \A id \in Given(ga) : Place(t, id) = Place(ga, id)
      /\ Place(t, n.id).length = Align4(b) /\ b <= Align4(b)
      /\ Place(t, n.id).flags = f \cup {"used"}
      /\ t.refs[n.id].seq = n.seq
      /\ \A id \in Ids : id # n.id => t.refs[id].seq = ga.refs[id].seq
  <2> HIDE DEF b, f
  <2>1. b \in Nat \ {0} /\ f \in SUBSET Flags /\ Good(ga) /\ CanAlloc(ga, b)
    BY <1>1 DEF b, f
  <2>. QED
    BY <2>1, AllocGood
<1>3. /\ Later(ga, t) /\ n \in HandleType /\ Known(t, n) /\ Resolves(t, n)
      /\ n.seq + 1 < SeqCount
  <2> HIDE DEF b, f
  <2>1. b \in Nat \ {0} /\ f \in SUBSET Flags /\ Good(ga) /\ Room(ga) /\ CanAlloc(ga, b)
    BY <1>1 DEF b, f
  <2>. QED
    BY <2>1, AllocLater
<1> HIDE DEF n, t
<1>4. \A id \in Given(ga) : t.refs[id].seq = ga.refs[id].seq
  BY <1>2 DEF Given
<1>5. EntryOf(t, n) = Place(t, n.id)
  BY DEF EntryOf, Place
<1>. QED
  BY <1>1, <1>2, <1>3, <1>4, <1>5 DEF n, t

(* A step that gives r, which held nothing, another handle, and leaves all *)
(* blocks that were given alone.                                           *)
LEMMA NewHandleStep ==
  ASSUME Inv, Calm(ga, ga', ramg, ramg'), NEW r \in Resources, r \notin Held,
         Given(ga) \subseteq Given(ga'),
         \A id \in Given(ga) : /\ Place(ga', id) = Place(ga, id)
                               /\ ga'.refs[id].seq = ga.refs[id].seq,
         \A q \in Resources : q # r => handle'[q] = handle[q],
         phase = "frame", UNCHANGED <<phase, shown>>
  PROVE  /\ \A d \in drawing : d.resource # r /\ Leads(d)' /\ Marked(d)'
         /\ ~FramesLost => Swept' /\ Kept'
         /\ \A q \in Resources : q # r =>
              /\ Known(ga, handle[q])'
              /\ q \in Held' => Has(ga, ramg, handle[q].id, q)'
<1>1. ASSUME NEW d \in drawing
      PROVE  d.resource # r /\ Leads(d)' /\ Marked(d)'
  <2>1. Leads(d) /\ Marked(d)
    BY DEF Inv, Drawn
  <2> DEFINE q == d.resource
  <2>2. q # r /\ q \in Resources /\ handle[q].id \in Given(ga) /\ handle'[q] = handle[q]
    BY <2>1, LeadsFacts
  <2>3. Leads(d)' /\ (handle[q].id)' = handle[q].id
    BY <2>1, <2>2, CalmLeads
  <2>4. "used" \in Place(ga', handle[q].id).flags
    BY <2>1, <2>2 DEF Marked
  <2>5. Marked(d)'
    BY <2>2, <2>4 DEF Marked, Place
  <2>. QED
    BY <2>2, <2>3, <2>5
<1>2. ASSUME ~FramesLost
      PROVE  Swept' /\ Kept'
  <2>1. Swept'
    BY DEF Swept
  <2>2. ASSUME NEW d \in shown
        PROVE  /\ ramg'[d.address] = d.resource
               /\ \E i \in Given(ga)' : (Place(ga, i).address)' = d.address
    <3>1. PICK id \in Given(ga) : Place(ga, id).address = d.address /\ ramg[d.address] = d.resource
      BY <1>2 DEF Inv, Kept
    <3>. QED
      BY <3>1, CalmKept
  <2>3. Kept'
    BY <2>2 DEF Kept
  <2>. QED
    BY <2>1, <2>3
<1>3. ASSUME NEW q \in Resources, q # r
      PROVE  Known(ga, handle[q])' /\ (q \in Held' => Has(ga, ramg, handle[q].id, q)')
  BY <1>3, CalmContent
<1>. QED
  BY <1>1, <1>2, <1>3

(* A resource is given a new block, and loaded or given up.                *)
LEMMA LoadStep ==
  ASSUME Inv, NoWrap, NEW r \in Resources, phase = "frame", LoadAgain(r),
         UNCHANGED <<phase, sweepIdx, shown, wild>>
  PROVE  Inv' /\ Later(ga, ga')
<1> DEFINE n   == NewHandle(ga)
           t   == Alloc(ga, SizeOf[r], FlagsOf[r])
           e   == EntryOf(t, n)
           mem == Words(e.address, e.length)
           new == [resource |-> r, address |-> e.address]
           Loaded == /\ ga' = t
                     /\ ramg' = [a \in WordAddr |-> IF a \in mem THEN r ELSE ramg[a]]
                     /\ drawing' = drawing \cup {new}
                     /\ size' = [size EXCEPT ![r] = SizeOf[r]]
           Failed == /\ ga' = Free(t, n)
                     /\ ramg' = [a \in WordAddr |-> IF a \in mem THEN "none" ELSE ramg[a]]
                     /\ UNCHANGED <<drawing, size>>
<1>0. Loaded \/ Failed
  BY DEF LoadAgain
<1>1. CanAlloc(ga, SizeOf[r]) /\ handle' = [handle EXCEPT ![r] = n] /\ r \notin Held
  BY DEF LoadAgain, Held
<1>2. /\ Good(ga) /\ Good(t) /\ Later(ga, t) /\ Known(t, n) /\ Resolves(t, n)
      /\ n \in HandleType /\ n.id \in Ids /\ n.id \notin Given(ga)
      /\ Given(t) = Given(ga) \cup {n.id} /\ t.refs[n.id].seq = n.seq
      /\ n.seq + 1 < SeqCount
      /\ \A id \in Given(ga) : /\ Place(t, id) = Place(ga, id)
                               /\ t.refs[id].seq = ga.refs[id].seq
      /\ EntryOf(t, n) = Place(t, n.id)
      /\ "used" \in Place(t, n.id).flags /\ SizeOf[r] <= Place(t, n.id).length
  <2>1. CanAlloc(ga, SizeOf[r])
    BY <1>1
  <2> HIDE DEF e, mem, new
  <2>. QED
    BY <2>1, LoadFacts
<1> HIDE DEF n, t
<1>3. mem = Block(t, n.id) /\ mem \subseteq WordAddr /\ e.address \in mem /\ e.address \in Cells
  <2>1. n.id \in Given(t)
    BY <1>2
  <2>. QED
    BY <1>2, <2>1, BlockIs DEF Block
<1>4. ASSUME NEW id \in Given(ga), NEW a \in Block(ga, id)
      PROVE  a \in WordAddr /\ a \notin mem
  <2>1. Block(t, id) = Block(ga, id) /\ id \in Given(t) /\ n.id \in Given(t) /\ id # n.id
    BY <1>2 DEF Block
  <2>2. Block(t, id) \cap Block(t, n.id) = {} /\ Block(t, id) \subseteq WordAddr
    BY <1>2, <2>1, BlocksApart, BlockIs
  <2>. QED
    BY <1>3, <2>1, <2>2
<1>5. /\ handle \in [Resources -> HandleType] /\ handle' \in [Resources -> HandleType]
      /\ handle'[r] = n /\ \A q \in Resources : q # r => handle'[q] = handle[q]
      /\ ramg \in [WordAddr -> Resources \cup {"none"}]
      /\ size \in [Resources -> Nat] /\ \A q \in Resources : size[q] <= SizeOf[q]
  <2>1. /\ handle \in [Resources -> HandleType]
        /\ size \in [Resources -> Nat] /\ \A q \in Resources : size[q] <= SizeOf[q]
        /\ ramg \in [WordAddr -> Resources \cup {"none"}]
    BY DEF Inv, Typed
  <2>. QED
    BY <1>1, <1>2, <2>1
<1>6. SizeOf \in [Resources -> Nat \ {0}]
  BY GpuAllocAssumption
<1> HIDE DEF e, mem
<1>7. CASE Loaded
  <2>1. Calm(ga, ga', ramg, ramg')
    <3>1. ASSUME NEW id \in Given(ga)
          PROVE  SameBlock(ga, t, id) /\ \A a \in Block(ga, id) : ramg'[a] = ramg[a]
      BY <1>2, <1>4, <1>7 DEF SameBlock
    <3>. QED
      BY <1>2, <1>7, <3>1 DEF Calm
  <2>2. /\ \A d \in drawing : d.resource # r /\ Leads(d)' /\ Marked(d)'
        /\ ~FramesLost => Swept' /\ Kept'
        /\ \A q \in Resources : q # r =>
             /\ Known(ga, handle[q])'
             /\ q \in Held' => Has(ga, ramg, handle[q].id, q)'
    <3>1. /\ Given(ga) \subseteq Given(ga')
          /\ \A id \in Given(ga) : /\ Place(ga', id) = Place(ga, id)
                                   /\ ga'.refs[id].seq = ga.refs[id].seq
      BY <1>2, <1>7
    <3>. QED
      BY <1>1, <1>5, <2>1, <3>1, NewHandleStep
  <2>3. /\ Known(ga, handle[r])' /\ Has(ga, ramg, handle[r].id, r)' /\ r \in Held'
        /\ \A d : d = new => Leads(d)' /\ Marked(d)'
    <3>1. Has(ga', ramg', n.id, r)
      BY <1>2, <1>3, <1>7 DEF Has
    <3>2. Known(ga', handle'[r]) /\ Has(ga', ramg', handle'[r].id, r) /\ Resolves(ga', handle'[r])
      BY <1>2, <1>5, <1>7, <3>1
    <3>3. Place(ga', handle'[r].id).address = e.address
          /\ "used" \in Place(ga', handle'[r].id).flags
      BY <1>2, <1>5, <1>7 DEF e
    <3>4. r \in Held'
      BY <3>2 DEF Held, Resolves
    <3>5. Known(ga, handle[r])' /\ Has(ga, ramg, handle[r].id, r)'
      BY <3>2 DEF Known, Has, Block, Place
    <3>6. ASSUME NEW d, d = new
          PROVE  Leads(d)' /\ Marked(d)'
      <4>1. d.resource = r /\ d.address = e.address
        BY <3>6
      <4>. QED
        BY <3>3, <3>4, <4>1 DEF Leads, Marked, Place
    <3>. QED
      BY <3>4, <3>5, <3>6
  <2>4. Typed'
    <3>1. ramg' \in [WordAddr -> Resources \cup {"none"}]
      BY <1>5, <1>7
    <3>2. size' \in [Resources -> Nat] /\ \A q \in Resources : size'[q] <= SizeOf[q]
      BY <1>5, <1>6, <1>7
    <3>3. new \in [resource : Resources, address : Cells]
      BY <1>3
    <3>4. drawing' \in SUBSET [resource : Resources, address : Cells]
      <4> HIDE DEF new
      <4>. QED
        BY <1>7, <3>3 DEF Inv, Typed
    <3>. QED
      BY <1>5, <3>1, <3>2, <3>4 DEF Inv, Typed
  <2>5. HandlesKnown' /\ Content'
    BY <2>2, <2>3 DEF HandlesKnown, Content, Held
  <2>6. Drawn'
    <3>1. phase' = "frame" /\ drawing' = drawing \cup {new}
      BY <1>7
    <3>2. ASSUME NEW d \in drawing'
          PROVE  Leads(d)' /\ Marked(d)'
      <4> HIDE DEF new
      <4>. QED
        BY <2>2, <2>3, <3>1
    <3>. QED
      BY <3>1, <3>2 DEF Drawn
  <2>7. Good(ga')
    BY <1>2, <1>7
  <2>8. Inv'
    BY <2>2, <2>4, <2>5, <2>6, <2>7, InvNext
  <2>. QED
    BY <1>2, <1>7, <2>8
<1>8. CASE Failed
  <2>1. n.id \in Given(t) /\ t.refs[n.id].seq + 1 < SeqCount /\ n.seq \in 0 .. SeqCount - 1
    BY <1>2 DEF HandleType
  <2>2. ga' = FreeId(t, n.id)
    BY <1>2, <1>8 DEF Free
  <2>3. /\ Good(ga') /\ Given(ga') = Given(t) \ {n.id}
        /\ \A a \in Given(t) : a # n.id => Place(ga', a) = Place(t, a)
        /\ \A a \in Ids : a # n.id => ga'.refs[a].seq = t.refs[a].seq
    BY <1>2, <2>1, <2>2, FreeIdGood
  <2>4. Later(t, ga') /\ ga'.refs[n.id].seq = n.seq + 1
    BY <1>2, <2>1, <2>2, FreeLater
  <2>5. Later(ga, ga')
    <3>1. ga \in Tables /\ t \in Tables /\ ga' \in Tables
      BY <1>2, <2>3 DEF Good
    <3>. QED
      BY <1>2, <2>4, <3>1, LaterAgain
  <2>6. /\ Given(ga') = Given(ga)
        /\ \A id \in Given(ga) : /\ Place(ga', id) = Place(ga, id)
                                 /\ ga'.refs[id].seq = ga.refs[id].seq
    <3>1. Given(ga') = Given(ga) /\ Given(ga) \subseteq Given(t)
      BY <1>2, <2>3
    <3>2. ASSUME NEW id \in Given(ga)
          PROVE  id \in Given(t) /\ id # n.id /\ id \in Ids
      BY <1>2, <3>1 DEF Given
    <3>. QED
      BY <1>2, <2>3, <3>1, <3>2
  <2>7. Calm(ga, ga', ramg, ramg')
    <3>1. ASSUME NEW id \in Given(ga)
          PROVE  SameBlock(ga, ga', id) /\ \A a \in Block(ga, id) : ramg'[a] = ramg[a]
      BY <1>4, <1>8, <2>6 DEF SameBlock
    <3>. QED
      BY <2>3, <2>5, <3>1 DEF Calm
  <2>8. /\ \A d \in drawing : d.resource # r /\ Leads(d)' /\ Marked(d)'
        /\ ~FramesLost => Swept' /\ Kept'
        /\ \A q \in Resources : q # r =>
             /\ Known(ga, handle[q])'
             /\ q \in Held' => Has(ga, ramg, handle[q].id, q)'
    BY <1>1, <1>5, <2>6, <2>7, NewHandleStep
  <2>9. Known(ga, handle[r])' /\ r \notin Held'
    <3>1. n.seq < ga'.refs[n.id].seq /\ n.seq # ga'.refs[n.id].seq
      BY <2>1, <2>4, Parameters
    <3>2. n.seq <= ga'.refs[n.id].seq
      BY <2>1, <2>4, Parameters
    <3>3. Known(ga', handle'[r]) /\ ~Resolves(ga', handle'[r])
      BY <1>5, <3>1, <3>2 DEF Known, Resolves
    <3>. QED
      BY <3>3 DEF Known, Held, Resolves
  <2>10. Typed'
    <3>1. ramg' \in [WordAddr -> Resources \cup {"none"}]
      BY <1>5, <1>8
    <3>. QED
      BY <1>5, <1>8, <3>1 DEF Inv, Typed
  <2>11. HandlesKnown' /\ Content'
    BY <2>8, <2>9 DEF HandlesKnown, Content, Held
  <2>12. Drawn'
    <3>1. phase' = "frame" /\ drawing' = drawing
      BY <1>8
    <3>. QED
      BY <2>8, <3>1 DEF Drawn
  <2>13. Inv'
    BY <2>3, <2>8, <2>10, <2>11, <2>12, InvNext
  <2>. QED
    BY <2>5, <2>13
<1>. QED
  BY <1>0, <1>7, <1>8

(* There is no room for a resource.                                        *)
LEMMA NoRoomStep ==
  ASSUME Inv, NEW r \in Resources, phase = "frame", NoRoom(r),
         UNCHANGED <<phase, sweepIdx, shown, wild>>
  PROVE  Inv' /\ Later(ga, ga')
<1>1. /\ r \notin Held /\ handle' = [handle EXCEPT ![r] = InvalidHandle]
      /\ UNCHANGED <<ga, ramg, drawing, size>>
  BY DEF NoRoom, Held
<1>2. InvalidHandle \in HandleType /\ InvalidHandle.id = NoId
  BY Parameters DEF InvalidHandle, HandleType
<1>3. /\ handle' \in [Resources -> HandleType] /\ handle'[r] = InvalidHandle
      /\ \A q \in Resources : q # r => handle'[q] = handle[q]
  BY <1>1, <1>2 DEF Inv, Typed
<1>4. Good(ga') /\ Given(ga') = Given(ga) /\ Later(ga, ga')
  BY <1>1, LaterSame DEF Inv
<1>5. Calm(ga, ga', ramg, ramg')
  BY <1>1, <1>4 DEF Calm, SameBlock
<1>6. /\ \A d \in drawing : d.resource # r /\ Leads(d)' /\ Marked(d)'
      /\ ~FramesLost => Swept' /\ Kept'
      /\ \A q \in Resources : q # r =>
           /\ Known(ga, handle[q])'
           /\ q \in Held' => Has(ga, ramg, handle[q].id, q)'
  <2>1. /\ Given(ga) \subseteq Given(ga')
        /\ \A id \in Given(ga) : /\ Place(ga', id) = Place(ga, id)
                                 /\ ga'.refs[id].seq = ga.refs[id].seq
    BY <1>1
  <2>. QED
    BY <1>1, <1>3, <1>5, <2>1, NewHandleStep
<1>7. Known(ga, handle[r])' /\ r \notin Held'
  <2>1. Known(ga', handle'[r]) /\ ~Resolves(ga', handle'[r])
    BY <1>2, <1>3, Parameters DEF Known, Resolves, Ids
  <2>. QED
    BY <2>1 DEF Known, Held, Resolves
<1>8. Typed'
  BY <1>1, <1>3 DEF Inv, Typed
<1>9. HandlesKnown' /\ Content'
  BY <1>6, <1>7 DEF HandlesKnown, Content, Held
<1>10. Drawn'
  BY <1>1, <1>6 DEF Drawn
<1>11. Inv'
  BY <1>4, <1>6, <1>8, <1>9, <1>10, InvNext
<1>. QED
  BY <1>4, <1>11

(* The application gives a resource up.                                    *)
LEMMA FreeStep ==
  ASSUME Inv, NoWrap, NEW r \in Resources, FreeResource(r)
  PROVE  Inv' /\ Later(ga, ga')
<1>1. /\ phase = "frame" /\ ga' = Free(ga, handle[r])
      /\ handle' = [handle EXCEPT ![r] = InvalidHandle]
      /\ drawing' = {d \in drawing : d.resource # r}
      /\ shown' = {d \in shown : d.resource # r}
      /\ UNCHANGED <<ramg, size, phase, sweepIdx, wild>>
  BY DEF FreeResource
<1>2. InvalidHandle \in HandleType /\ InvalidHandle.id = NoId
  BY Parameters DEF InvalidHandle, HandleType
<1>3. /\ handle' \in [Resources -> HandleType] /\ handle'[r] = InvalidHandle
      /\ \A q \in Resources : q # r => handle'[q] = handle[q]
  BY <1>1, <1>2 DEF Inv, Typed
<1> DEFINE f == handle[r].id
<1>4. /\ Good(ga') /\ Later(ga, ga')
      /\ \A id \in Given(ga) : ~(r \in Held /\ id = f) =>
           /\ id \in Given(ga') /\ Place(ga', id) = Place(ga, id)
           /\ ga'.refs[id].seq = ga.refs[id].seq
      /\ r \in Held => f \in Given(ga) /\ Given(ga') = Given(ga) \ {f}
      /\ r \notin Held => Given(ga') = Given(ga)
  <2>1. CASE r \in Held
    <3>1. f \in Given(ga) /\ f \in Ids /\ ga' = FreeId(ga, f)
      BY <1>1, <2>1, HeldFacts DEF Free
    <3> HIDE DEF f
    <3>2. Good(ga) /\ ga.refs[f].seq \in Int /\ ga.refs[f].seq + 2 < SeqCount
      BY <3>1, TableFields, Parameters DEF Inv, Good, NoWrap, Room
    <3>3. ga.refs[f].seq + 1 < SeqCount
      BY <3>2, Parameters
    <3>4. /\ Good(ga') /\ Given(ga') = Given(ga) \ {f}
          /\ \A a \in Given(ga) : a # f => Place(ga', a) = Place(ga, a)
          /\ \A a \in Ids : a # f => ga'.refs[a].seq = ga.refs[a].seq
      BY <3>1, <3>2, FreeIdGood
    <3>5. Later(ga, ga')
      BY <3>1, <3>2, <3>3, FreeLater
    <3>. QED
      BY <2>1, <3>1, <3>4, <3>5 DEF Given
  <2>2. CASE r \notin Held
    <3>1. ga' = ga
      BY <1>1, <2>2 DEF Free, Held
    <3>. QED
      BY <2>2, <3>1, LaterSame DEF Inv
  <2>. QED
    BY <2>1, <2>2
<1>5. Calm(ga, ga', ramg, ramg')
  BY <1>1, <1>4 DEF Calm, SameBlock
<1>6. ASSUME NEW q \in Resources
      PROVE  Known(ga, handle[q])' /\ (q \in Held' => Has(ga, ramg, handle[q].id, q)')
  <2>1. CASE q = r
    <3>1. Known(ga', handle'[q]) /\ ~Resolves(ga', handle'[q])
      BY <1>2, <1>3, <2>1, Parameters DEF Known, Resolves, Ids
    <3>. QED
      BY <3>1 DEF Known, Held, Resolves
  <2>2. CASE q # r
    BY <1>3, <1>5, <2>2, CalmContent
  <2>. QED
    BY <2>1, <2>2
<1>7. HandlesKnown' /\ Content'
  BY <1>6 DEF HandlesKnown, Content, Held
<1>8. Typed'
  BY <1>1, <1>3 DEF Inv, Typed
<1>9. Drawn'
  <2> SUFFICES ASSUME NEW d \in drawing'
               PROVE  (phase = "frame" /\ Leads(d) /\ Marked(d))'
    BY DEF Drawn
  <2>1. Leads(d) /\ Marked(d) /\ d.resource # r
    BY <1>1 DEF Inv, Drawn
  <2> DEFINE q == d.resource
  <2>2. /\ q \in Resources /\ q \in Held /\ handle[q].id \in Given(ga) /\ handle'[q] = handle[q]
        /\ r \in Held => handle[q].id # f
    BY <1>3, <2>1, LeadsFacts, HoldersApart
  <2>3. /\ Place(ga', handle[q].id) = Place(ga, handle[q].id)
        /\ ga'.refs[handle[q].id].seq = ga.refs[handle[q].id].seq
    BY <1>4, <2>2
  <2>4. Leads(d)'
    BY <1>5, <2>1, <2>2, <2>3, CalmLeads
  <2>5. "used" \in Place(ga', handle'[q].id).flags
    BY <2>1, <2>2, <2>3 DEF Marked
  <2>6. Marked(d)'
    BY <2>5 DEF Marked, Place
  <2>. QED
    BY <1>1, <2>4, <2>6
<1>10. ASSUME ~FramesLost
       PROVE  Swept' /\ Kept'
  <2>1. Swept'
    BY <1>1 DEF Swept
  <2>2. ASSUME NEW d \in shown, d.resource # r
        PROVE  /\ ramg'[d.address] = d.resource
               /\ \E i \in Given(ga)' : (Place(ga, i).address)' = d.address
    <3>1. PICK id \in Given(ga) : Place(ga, id).address = d.address /\ ramg[d.address] = d.resource
      BY <1>10 DEF Inv, Kept
    <3>2. ~(r \in Held /\ id = f)
      <4>1. SUFFICES ASSUME r \in Held, id = f
                     PROVE  FALSE
        OBVIOUS
      <4>2. Has(ga, ramg, id, r) /\ Place(ga, id).address \in Block(ga, id)
        BY <4>1, HeldFacts, BlockIs DEF Inv
      <4>. QED
        BY <2>2, <3>1, <4>2 DEF Has
    <3>3. id \in Given(ga')
      BY <1>4, <3>2
    <3>. QED
      BY <1>5, <3>1, <3>3, CalmKept
  <2>3. Kept'
    BY <1>1, <2>2 DEF Kept
  <2>. QED
    BY <2>1, <2>3
<1>11. Inv'
  BY <1>4, <1>7, <1>8, <1>9, <1>10, InvNext
<1>. QED
  BY <1>4, <1>11

(* All of RAM_G goes: no handle resolves any more.                         *)
LEMMA ForgetStep ==
  ASSUME Inv, Good(ga'), \A id \in Ids : ga'.refs[id].seq > ga.refs[id].seq,
         ramg' \in [WordAddr -> Resources \cup {"none"}],
         drawing' = {}, shown' = {}, phase = "frame",
         UNCHANGED <<handle, size, phase, sweepIdx, wild>>
  PROVE  Inv' /\ Later(ga, ga')
<1>1. Later(ga, ga')
  BY DEF Later
<1>2. ASSUME NEW r \in Resources
      PROVE  Known(ga, handle[r])' /\ r \notin Held'
  <2>1. handle[r] \in HandleType /\ Known(ga, handle[r]) /\ ga \in Tables /\ ga' \in Tables
    BY DEF Inv, Typed, HandlesKnown, Good
  <2>2. Known(ga', handle[r])
    BY <1>1, <2>1, LaterHandles
  <2>3. ~Resolves(ga', handle[r])
    <3>1. SUFFICES ASSUME handle[r].id \in Ids
                   PROVE  ga'.refs[handle[r].id].seq # handle[r].seq
      BY <2>1, Parameters DEF Resolves, HandleType, Ids
    <3> DEFINE a == ga.refs[handle[r].id].seq
               b == ga'.refs[handle[r].id].seq
               h == handle[r].seq
    <3>2. a \in Int /\ b \in Int /\ h \in Int
      BY <2>1, <3>1, TableFields, Parameters DEF HandleType
    <3>3. h <= a /\ b > a
      BY <2>1, <3>1 DEF Known
    <3> HIDE DEF a, b, h
    <3>4. b # h
      BY <3>2, <3>3
    <3>. QED
      BY <3>4 DEF b, h
  <2>. QED
    BY <2>2, <2>3 DEF Known, Held, Resolves
<1>3. HandlesKnown' /\ Content'
  BY <1>2 DEF HandlesKnown, Content, Held
<1>4. Typed'
  BY DEF Inv, Typed
<1>5. Drawn' /\ Swept' /\ Kept'
  BY DEF Drawn, Swept, Kept
<1>6. Inv'
  BY <1>3, <1>4, <1>5, InvNext
<1>. QED
  BY <1>1, <1>6

LEMMA ClearedSeqs ==
  ASSUME Inv, NoWrap
  PROVE  LET u == Cleared(ga.refs)
         IN  /\ Good(u) /\ Given(u) = {} /\ CanAlloc(u, RamGSize)
             /\ \A id \in Ids : /\ u.refs[id].seq = ga.refs[id].seq + 1
                                /\ u.refs[id].seq > ga.refs[id].seq
                                /\ u.refs[id].seq + 1 < SeqCount
<1> DEFINE u == Cleared(ga.refs)
<1>1. ga.refs \in [Ids -> RefType]
  BY TableFields DEF Inv, Good
<1>2. /\ Good(u) /\ Given(u) = {} /\ CanAlloc(u, RamGSize)
      /\ \A id \in Ids : u.refs[id].seq = NextSeq(ga.refs[id].seq)
  BY <1>1, ClearedGood
<1> HIDE DEF u
<1>3. ASSUME NEW id \in Ids
      PROVE  /\ u.refs[id].seq = ga.refs[id].seq + 1
             /\ u.refs[id].seq > ga.refs[id].seq
             /\ u.refs[id].seq + 1 < SeqCount
  <2> DEFINE s == ga.refs[id].seq
  <2>1. s \in 0 .. SeqCount - 1 /\ s + 2 < SeqCount /\ u.refs[id].seq = NextSeq(s)
    BY <1>2, TableFields DEF Inv, Good, NoWrap, Room
  <2> HIDE DEF s
  <2>2. NextSeq(s) = s + 1 /\ s + 1 > s /\ (s + 1) + 1 < SeqCount
    BY <2>1, SeqMoves, Parameters
  <2>3. u.refs[id].seq = s + 1 /\ u.refs[id].seq > s /\ u.refs[id].seq + 1 < SeqCount
    BY <2>1, <2>2
  <2>. QED
    BY <2>3 DEF s
<1>. QED
  BY <1>2, <1>3 DEF u

(* All handles go stale at a reset.                                        *)
LEMMA ResetStep ==
  ASSUME Inv, NoWrap, Reset
  PROVE  Inv' /\ Later(ga, ga')
<1>1. /\ ga' = Cleared(ga.refs) /\ drawing' = {} /\ shown' = {} /\ phase = "frame"
      /\ UNCHANGED <<ramg, handle, size, phase, sweepIdx, wild>>
  BY DEF Reset
<1>2. Good(ga') /\ \A id \in Ids : ga'.refs[id].seq > ga.refs[id].seq
  BY <1>1, ClearedSeqs
<1>3. ramg' \in [WordAddr -> Resources \cup {"none"}]
  BY <1>1 DEF Inv, Typed
<1>. QED
  BY <1>1, <1>2, <1>3, ForgetStep

(* So they do when one block takes all of RAM_G.                           *)
LEMMA TakeOverStep ==
  ASSUME Inv, NoWrap, NEW flags \in {{}, {"gc"}}, TakeOver(flags)
  PROVE  Inv' /\ Later(ga, ga')
<1> DEFINE c == Cleared(ga.refs)
           n == NewHandle(c)
<1>1. /\ ga' = Alloc(c, RamGSize, flags) /\ ramg' = [a \in WordAddr |-> "none"]
      /\ drawing' = {} /\ shown' = {} /\ phase = "frame"
      /\ UNCHANGED <<handle, size, phase, sweepIdx, wild>>
  BY DEF TakeOver
<1>2. /\ Good(c) /\ CanAlloc(c, RamGSize)
      /\ \A id \in Ids : /\ c.refs[id].seq > ga.refs[id].seq
                         /\ c.refs[id].seq + 1 < SeqCount
  BY ClearedSeqs
<1>3. RamGSize \in Nat \ {0} /\ flags \in SUBSET Flags
  BY Parameters DEF Flags
<1> HIDE DEF c, n
<1>4. /\ Good(ga') /\ n.id \in Ids /\ n.seq = NextSeq(c.refs[n.id].seq)
      /\ ga'.refs[n.id].seq = n.seq
      /\ \A id \in Ids : id # n.id => ga'.refs[id].seq = c.refs[id].seq
  BY <1>1, <1>2, <1>3, AllocGood DEF n
<1>5. ASSUME NEW id \in Ids
      PROVE  ga'.refs[id].seq > ga.refs[id].seq
  <2>1. CASE id # n.id
    BY <1>2, <1>4, <2>1
  <2>2. CASE id = n.id
    <3> DEFINE s == c.refs[id].seq
               g == ga.refs[id].seq
    <3>1. s \in 0 .. SeqCount - 1 /\ g \in Int /\ s > g /\ s + 1 < SeqCount
      BY <1>2, TableFields, Parameters DEF Inv, Good
    <3>2. ga'.refs[id].seq = NextSeq(s)
      BY <1>4, <2>2
    <3> HIDE DEF s, g
    <3>3. ga'.refs[id].seq > g
      BY <3>1, <3>2, SeqMoves, Parameters
    <3>. QED
      BY <3>3 DEF g
  <2>. QED
    BY <2>1, <2>2
<1>6. ramg' \in [WordAddr -> Resources \cup {"none"}]
  BY <1>1
<1>. QED
  BY <1>1, <1>4, <1>5, <1>6, ForgetStep

-----------------------------------------------------------------------------
(* The end of a frame, and Update.                                         *)

(* What was drawn is shown, and Update begins.                             *)
LEMMA EndFrameStep ==
  ASSUME Inv, EndFrame
  PROVE  Inv' /\ Later(ga, ga')
<1>1. /\ phase = "frame" /\ drawing' = {} /\ phase' = "sweep" /\ sweepIdx' = 0
      /\ UNCHANGED <<ga, ramg, handle, size, wild>>
      /\ shown' = drawing \/ (FramesLost /\ shown' = shown)
  BY DEF EndFrame
<1>2. Good(ga') /\ Later(ga, ga')
  BY <1>1, LaterSame DEF Inv
<1>3. HandlesKnown' /\ Content'
  BY <1>1 DEF Inv, HandlesKnown, Content, Known, Held, Resolves, Has, Block, Place
<1>4. Typed'
  <2>1. shown' \in SUBSET [resource : Resources, address : Cells] /\ sweepIdx' \in 0 .. MaxAllocs
    BY <1>1, Parameters DEF Inv, Typed
  <2>. QED
    BY <1>1, <2>1 DEF Inv, Typed
<1>5. Drawn'
  BY <1>1 DEF Drawn
<1>6. ASSUME ~FramesLost
      PROVE  Swept' /\ Kept'
  <2>1. shown' = drawing
    BY <1>1, <1>6
  <2>2. ASSUME NEW d \in drawing
        PROVE  /\ Leads(d)' /\ Marked(d)' /\ ramg'[d.address] = d.resource
               /\ \E i \in Given(ga)' : (Place(ga, i).address)' = d.address
    <3>1. Leads(d) /\ Marked(d)
      BY DEF Inv, Drawn
    <3>2. /\ handle[d.resource].id \in Given(ga) /\ ramg[d.address] = d.resource
          /\ Place(ga, handle[d.resource].id).address = d.address
      BY <3>1, LeadsFacts
    <3>3. Leads(d)' /\ Marked(d)'
      BY <1>1, <3>1 DEF Leads, Marked, Held, Resolves, Place
    <3>4. \E i \in Given(ga)' : (Place(ga, i).address)' = d.address
      BY <1>1, <3>2 DEF Given, Place
    <3>. QED
      BY <1>1, <3>2, <3>3, <3>4
  <2>3. Swept'
    BY <2>1, <2>2 DEF Swept
  <2>4. Kept'
    BY <2>1, <2>2 DEF Kept
  <2>. QED
    BY <2>3, <2>4
<1>7. Inv'
  BY <1>2, <1>3, <1>4, <1>5, <1>6, InvNext
<1>. QED
  BY <1>2, <1>7

(* Outside the application's part of a frame nothing is being drawn.       *)
LEMMA NothingDrawn ==
  ASSUME Inv, phase # "frame"
  PROVE  drawing = {}
BY DEF Inv, Drawn

(* An unused block is collected: nothing on the screen lies in it.         *)
LEMMA SweepFreeStep ==
  ASSUME Inv, NoWrap, SweepFree
  PROVE  Inv' /\ Later(ga, ga')
<1> DEFINE e == ga.entries[sweepIdx]
           f == e.id
<1>1. /\ phase = "sweep" /\ sweepIdx < ga.nb /\ ~IsFree(e) /\ "used" \notin e.flags
      /\ ga' = FreeId(ga, f)
      /\ UNCHANGED <<ramg, handle, size, phase, sweepIdx, drawing, shown, wild>>
  BY DEF SweepFree, Sweeping, Unused
<1>2. Good(ga) /\ ga \in Tables /\ ga.nb \in Nat /\ sweepIdx \in Nat
  BY TableFields, Parameters DEF Inv, Good, Typed
<1>3. sweepIdx \in Span(ga)
  BY <1>1, <1>2 DEF Span
<1>4. f \in Given(ga) /\ f \in Ids /\ ga.refs[f].idx = sweepIdx /\ Place(ga, f) = e
  <2>1. ga.refs[f].idx = sweepIdx /\ f \in Ids
    BY <1>1, <1>2, <1>3, TableFields DEF Good, Match
  <2>2. sweepIdx # NoId
    BY <1>1, <1>2, TableFields, Parameters
  <2>. QED
    BY <2>1, <2>2 DEF Given, Place
<1> HIDE DEF f, e
<1>5. ga.refs[f].seq + 1 < SeqCount
  <2>1. ga.refs[f].seq \in Int /\ ga.refs[f].seq + 2 < SeqCount
    BY <1>2, <1>4, TableFields, Parameters DEF NoWrap, Room
  <2>. QED
    BY <2>1, Parameters
<1>6. /\ Good(ga') /\ Given(ga') = Given(ga) \ {f}
      /\ \A a \in Given(ga) : a # f => /\ Place(ga', a) = Place(ga, a)
                                      /\ ga'.refs[a].idx <= ga.refs[a].idx
      /\ \A a \in Ids : a # f => ga'.refs[a].seq = ga.refs[a].seq
      /\ Later(ga, ga')
  BY <1>1, <1>2, <1>4, <1>5, FreeIdGood, FreeLater
<1>7. Calm(ga, ga', ramg, ramg')
  BY <1>1, <1>6 DEF Calm, SameBlock
<1>8. HandlesKnown' /\ Content'
  BY <1>1, <1>7, CalmContent DEF HandlesKnown, Content, Held
<1>9. Typed'
  BY <1>1 DEF Inv, Typed
<1>10. Drawn'
  BY <1>1, NothingDrawn DEF Drawn
<1>11. ASSUME ~FramesLost
       PROVE  Swept' /\ Kept'
  <2>1. ASSUME NEW d \in shown
        PROVE  /\ Leads(d)' /\ (ga.refs[handle[d.resource].id].idx >= sweepIdx => Marked(d))'
               /\ ramg'[d.address] = d.resource
               /\ \E i \in Given(ga)' : (Place(ga, i).address)' = d.address
    <3> DEFINE q == d.resource
               h == handle[q].id
    <3>1. Leads(d) /\ (ga.refs[h].idx >= sweepIdx => Marked(d))
      BY <1>1, <1>11 DEF Inv, Swept
    <3>2. /\ h \in Given(ga) /\ ramg[d.address] = q /\ q \in Resources
          /\ Place(ga, h).address = d.address /\ handle'[q] = handle[q]
      BY <1>1, <3>1, LeadsFacts
    <3>3. h # f
      <4>1. SUFFICES ASSUME h = f
                     PROVE  FALSE
        OBVIOUS
      <4>2. Marked(d)
        BY <1>2, <1>4, <3>1, <4>1
      <4>. QED
        BY <1>1, <1>4, <4>1, <4>2 DEF Marked
    <3>4. /\ Place(ga', h) = Place(ga, h) /\ ga'.refs[h].idx <= ga.refs[h].idx
          /\ ga'.refs[h].seq = ga.refs[h].seq /\ h \in Given(ga')
      BY <1>6, <3>2, <3>3 DEF Given
    <3>5. Leads(d)' /\ (handle[q].id)' = h
      BY <1>7, <3>1, <3>2, <3>4, CalmLeads
    <3>6. ASSUME ga'.refs[h].idx >= sweepIdx
          PROVE  Marked(d)'
      <4>1. ga.refs[h].idx >= sweepIdx
        <5> DEFINE a == ga.refs[h].idx
                   b == ga'.refs[h].idx
        <5>1. a \in Nat /\ b \in Nat /\ b <= a /\ b >= sweepIdx
          <6>1. a \in Span(ga) /\ b \in Span(ga')
            BY <1>2, <1>6, <3>2, <3>4, PlacesApart
          <6>. QED
            BY <1>2, <1>6, <3>4, <3>6, <6>1, EntryNumbers
        <5> HIDE DEF a, b
        <5>2. a >= sweepIdx
          BY <1>2, <5>1
        <5>. QED
          BY <5>2 DEF a
      <4>2. "used" \in Place(ga', handle'[q].id).flags
        BY <3>1, <3>2, <3>4, <4>1 DEF Marked
      <4>. QED
        BY <4>2 DEF Marked, Place
    <3>7. (ga.refs[handle[q].id].idx >= sweepIdx)' = (ga'.refs[h].idx >= sweepIdx)
      BY <1>1, <3>5
    <3>8. ramg'[d.address] = d.resource /\ \E i \in Given(ga)' : (Place(ga, i).address)' = d.address
      BY <1>7, <3>2, <3>4, CalmKept
    <3>. QED
      BY <3>5, <3>6, <3>7, <3>8
  <2>2. Swept'
    BY <1>1, <2>1 DEF Swept
  <2>3. Kept'
    BY <1>1, <2>1 DEF Kept
  <2>. QED
    BY <2>2, <2>3
<1>12. Inv'
  BY <1>6, <1>8, <1>9, <1>10, <1>11, InvNext
<1>. QED
  BY <1>6, <1>12

(* A used one is kept, and its mark is taken off.                          *)
LEMMA SweepKeepStep ==
  ASSUME Inv, SweepKeep
  PROVE  Inv' /\ Later(ga, ga')
<1> DEFINE fl == ga.entries[sweepIdx].flags \ {"used"}
<1>1. /\ phase = "sweep" /\ sweepIdx < ga.nb /\ ga' = SetFlags(ga, sweepIdx, fl)
      /\ sweepIdx' = sweepIdx + 1
      /\ UNCHANGED <<ramg, handle, size, phase, drawing, shown, wild>>
  BY DEF SweepKeep, Sweeping, SetFlags
<1>2. /\ Good(ga) /\ ga \in Tables /\ ga.nb \in Nat /\ ga.nb <= MaxAllocs /\ sweepIdx \in Nat
      /\ sweepIdx \in Ids /\ fl \in SUBSET Flags
  <2>1. Good(ga) /\ ga \in Tables /\ ga.nb \in Nat /\ ga.nb <= MaxAllocs /\ sweepIdx \in Nat
    BY TableFields, Parameters DEF Inv, Good, Typed
  <2>2. sweepIdx \in Ids
    BY <1>1, <2>1, Parameters DEF Ids
  <2>. QED
    BY <2>1, <2>2, TableFields
<1> HIDE DEF fl
<1>3. /\ Good(ga') /\ Given(ga') = Given(ga) /\ ga'.refs = ga.refs /\ ga'.nb = ga.nb
      /\ \A id \in Given(ga) :
           /\ Place(ga', id).address = Place(ga, id).address
           /\ Place(ga', id).length = Place(ga, id).length
           /\ Place(ga', id).flags = IF ga.refs[id].idx = sweepIdx THEN fl
                                                                   ELSE Place(ga, id).flags
  BY <1>1, <1>2, FlagsGood
<1>4. Later(ga, ga')
  BY <1>3, LaterSame
<1>5. Calm(ga, ga', ramg, ramg')
  BY <1>1, <1>3, <1>4 DEF Calm, SameBlock
<1>6. HandlesKnown' /\ Content'
  BY <1>1, <1>5, CalmContent DEF HandlesKnown, Content, Held
<1>7. Typed'
  <2>1. sweepIdx' \in 0 .. MaxAllocs
    BY <1>1, <1>2, Parameters
  <2>. QED
    BY <1>1, <2>1 DEF Inv, Typed
<1>8. Drawn'
  BY <1>1, NothingDrawn DEF Drawn
<1>9. ASSUME ~FramesLost
      PROVE  Swept' /\ Kept'
  <2>1. ASSUME NEW d \in shown
        PROVE  /\ Leads(d)' /\ (ga.refs[handle[d.resource].id].idx >= sweepIdx => Marked(d))'
               /\ ramg'[d.address] = d.resource
               /\ \E i \in Given(ga)' : (Place(ga, i).address)' = d.address
    <3> DEFINE q == d.resource
               h == handle[q].id
    <3>1. Leads(d) /\ (ga.refs[h].idx >= sweepIdx => Marked(d))
      BY <1>1, <1>9 DEF Inv, Swept
    <3>2. /\ h \in Given(ga) /\ ramg[d.address] = q /\ q \in Resources
          /\ Place(ga, h).address = d.address /\ handle'[q] = handle[q]
      BY <1>1, <3>1, LeadsFacts
    <3>3. ga'.refs[h].seq = ga.refs[h].seq /\ h \in Given(ga') /\ ga'.refs[h].idx = ga.refs[h].idx
      BY <1>3, <3>2
    <3>4. Leads(d)' /\ (handle[q].id)' = h
      BY <1>5, <3>1, <3>2, <3>3, CalmLeads
    <3>5. ASSUME ga'.refs[h].idx >= sweepIdx + 1
          PROVE  Marked(d)'
      <4>1. ga.refs[h].idx >= sweepIdx /\ ga.refs[h].idx # sweepIdx
        <5> DEFINE a == ga.refs[h].idx
        <5>1. a \in Nat /\ a >= sweepIdx + 1
          <6>1. a \in Span(ga)
            BY <1>2, <3>2, PlacesApart
          <6>. QED
            BY <1>2, <3>3, <3>5, <6>1, EntryNumbers
        <5> HIDE DEF a
        <5>2. a >= sweepIdx /\ a # sweepIdx
          BY <1>2, <5>1
        <5>. QED
          BY <5>2 DEF a
      <4>2. Place(ga', h).flags = Place(ga, h).flags
        BY <1>3, <3>2, <4>1
      <4>3. "used" \in Place(ga', handle'[q].id).flags
        BY <3>1, <3>2, <4>1, <4>2 DEF Marked
      <4>. QED
        BY <4>3 DEF Marked, Place
    <3>6. (ga.refs[handle[q].id].idx >= sweepIdx)' = (ga'.refs[h].idx >= sweepIdx + 1)
      BY <1>1, <3>4
    <3>7. ramg'[d.address] = d.resource /\ \E i \in Given(ga)' : (Place(ga, i).address)' = d.address
      BY <1>5, <3>2, <3>3, CalmKept
    <3>. QED
      BY <3>4, <3>5, <3>6, <3>7
  <2>2. Swept'
    BY <1>1, <2>1 DEF Swept
  <2>3. Kept'
    BY <1>1, <2>1 DEF Kept
  <2>. QED
    BY <2>2, <2>3
<1>10. Inv'
  BY <1>3, <1>6, <1>7, <1>8, <1>9, InvNext
<1>. QED
  BY <1>4, <1>10

(* Steps that only move Update on.                                         *)
LEMMA PhaseStep ==
  ASSUME Inv, SweepDone \/ NothingToMove
  PROVE  Inv' /\ Later(ga, ga')
<1>1. /\ phase # "frame" /\ phase' \in {"frame", "defrag"} /\ sweepIdx' \in {0, sweepIdx}
      /\ UNCHANGED <<ga, ramg, handle, size, drawing, shown, wild>>
  BY DEF SweepDone, NothingToMove
<1>2. Good(ga') /\ Later(ga, ga')
  BY <1>1, LaterSame DEF Inv
<1>3. HandlesKnown' /\ Content'
  BY <1>1 DEF Inv, HandlesKnown, Content, Known, Held, Resolves, Has, Block, Place
<1>4. Typed'
  <2>1. sweepIdx' \in 0 .. MaxAllocs /\ phase' \in {"frame", "sweep", "defrag"}
    BY <1>1, Parameters DEF Inv, Typed
  <2>. QED
    BY <1>1, <2>1 DEF Inv, Typed
<1>5. Drawn'
  BY <1>1, NothingDrawn DEF Drawn
<1>6. Swept'
  BY <1>1 DEF Swept
<1>7. ~FramesLost => Kept'
  BY <1>1 DEF Inv, Kept, Given, Place
<1>8. Inv'
  BY <1>2, <1>3, <1>4, <1>5, <1>6, <1>7, InvNext
<1>. QED
  BY <1>2, <1>8

(* Defragmentation ends Update, and touches the tables and RAM_G only.     *)
LEMMA MoveEnds ==
  ASSUME Inv, MoveBlock, Good(ga'), Later(ga, ga'),
         ramg' \in [WordAddr -> Resources \cup {"none"}], Content', ~FramesLost => Kept'
  PROVE  Inv'
<1>1. /\ phase = "defrag" /\ phase' = "frame" /\ wild' \in BOOLEAN
      /\ UNCHANGED <<handle, size, sweepIdx, drawing, shown>>
  BY DEF MoveBlock, Inv, Typed
<1>2. Typed'
  BY <1>1 DEF Inv, Typed
<1>3. HandlesKnown'
  <2>1. ga' \in Tables
    BY DEF Good
  <2>. QED
    BY <1>1, <2>1, HandlesThrough DEF HandlesKnown
<1>4. Drawn'
  BY <1>1, NothingDrawn DEF Drawn
<1>5. Swept'
  BY <1>1 DEF Swept
<1>. QED
  BY <1>2, <1>3, <1>4, <1>5, InvNext

(* The block that is moved, and the one found for it.                      *)
LEMMA MoveFacts ==
  ASSUME Inv, NoWrap, Fragmented(ga), NEW e, e = ga.entries[LargestIdx(ga)],
         CanAlloc(ga, e.length), NEW t, t = Alloc(ga, e.length, e.flags),
         NEW n, n = NewHandle(ga)
  PROVE  /\ e.id \in Given(ga) /\ Place(ga, e.id) = e
         /\ n.id \in Ids /\ n.id \notin Given(ga) /\ EntryOf(t, n) = Place(t, n.id)
         /\ Good(t) /\ Later(ga, t) /\ Given(t) = Given(ga) \cup {n.id}
         /\ \A id \in Given(ga) : Place(t, id) = Place(ga, id)
         /\ Place(t, n.id).length = e.length
<1>0. Good(ga) /\ ga \in Tables /\ Room(ga)
  BY DEF Inv, Good, NoWrap
<1> DEFINE i == LargestIdx(ga)
<1>1. i \in Span(ga) /\ ~IsFree(e)
  BY <1>0, LargestIs
<1>2. /\ e.id \in Ids /\ e.length \in Cells /\ e.length > 0 /\ e.flags \in SUBSET Flags
      /\ i \in Ids
  BY <1>0, <1>1, TableFields, EntryNumbers
<1>3. ga.refs[e.id].idx = i /\ i # NoId
  <2> HIDE DEF i
  <2>1. e = ga.entries[i]
    BY DEF i
  <2>2. ga.refs[e.id].idx = i
    BY <1>0, <1>1, <2>1 DEF Good, Match
  <2>3. i # NoId
    BY <1>2, Parameters DEF Ids
  <2>. QED
    BY <2>2, <2>3
<1>4. e.id \in Given(ga) /\ Place(ga, e.id) = e
  BY <1>2, <1>3 DEF Given, Place
<1> HIDE DEF i
<1>5. e.length \in Nat \ {0} /\ e.length % 4 = 0
  BY <1>2, Parameters DEF Cells
<1>6. Align4(e.length) = e.length
  <2> DEFINE l == e.length
  <2> HIDE DEF l
  <2>1. l \in Nat /\ l % 4 = 0
    BY <1>5 DEF l
  <2>2. Align4(l) = l
    BY <2>1, AlignIs
  <2>. QED
    BY <2>2 DEF l
<1>7. /\ n.id \in Ids /\ n.id \notin Given(ga) /\ Good(t) /\ Given(t) = Given(ga) \cup {n.id}
      /\ \A id \in Given(ga) : Place(t, id) = Place(ga, id)
      /\ Place(t, n.id).length = Align4(e.length)
  BY <1>0, <1>2, <1>5, AllocGood
<1>8. Later(ga, t)
  BY <1>0, <1>2, <1>5, AllocLater
<1>9. EntryOf(t, n) = Place(t, n.id)
  BY DEF EntryOf, Place
<1>. QED
  BY <1>4, <1>6, <1>7, <1>8, <1>9

(* The copy leaves all blocks that were given as they are, and fills the   *)
(* new one with what the old one holds.                                    *)
LEMMA CopyFills ==
  ASSUME NEW from \in Cells, NEW to \in Cells, NEW length \in Cells,
         from + length <= RamGSize, NEW r, \A a \in Words(from, length) : ramg[a] = r
  PROVE  \A a \in Words(to, length) : Copied(from, to, length)[a] = r
<1> SUFFICES ASSUME NEW a \in Words(to, length)
             PROVE  Copied(from, to, length)[a] = r
  OBVIOUS
<1>1. a \in WordAddr /\ a \in Nat /\ a % 4 = 0 /\ to <= a /\ a < to + length
  BY Parameters DEF Words, WordAddr
<1>2. /\ from \in Nat /\ to \in Nat /\ length \in Nat /\ RamGSize \in Nat
      /\ from % 4 = 0 /\ to % 4 = 0
  BY Parameters DEF Cells
<1> DEFINE b == from + (a - to)
<1>3. /\ b \in 0 .. RamGSize - 1 /\ b % 4 = 0 /\ from <= b /\ b < from + length
  BY <1>1, <1>2
<1>4. b \in Words(from, length)
  BY <1>3 DEF Words, WordAddr
<1>. QED
  BY <1>1, <1>4 DEF Copied

(* A block is copied and its handle moves; the old address keeps its data. *)
LEMMA MoveBlockStep ==
  ASSUME Inv, NoWrap, MoveBlock
  PROVE  Inv' /\ Later(ga, ga')
<1> DEFINE e  == ga.entries[LargestIdx(ga)]
           t  == Alloc(ga, e.length, e.flags)
           n  == NewHandle(ga)
           to == EntryOf(t, n).address
           Moved  == ga' = SwapHandles(t, e.id, n.id) /\ ramg' = Copied(e.address, to, e.length)
           Failed == /\ ga' = t
                     /\ ramg' = [a \in WordAddr |->
                                   IF a \in Words(to, e.length) THEN "none" ELSE ramg[a]]
<1>1. /\ Fragmented(ga) /\ UNCHANGED <<handle, shown>>
      /\ IF CanAlloc(ga, e.length) THEN Moved \/ Failed ELSE UNCHANGED <<ga, ramg>>
  BY DEF MoveBlock
<1>2. Good(ga) /\ ga \in Tables /\ ramg \in [WordAddr -> Resources \cup {"none"}]
  BY DEF Inv, Good, Typed
<1>3. ASSUME Calm(ga, ga', ramg, ramg'), Given(ga) \subseteq Given(ga')
      PROVE  Content' /\ (~FramesLost => Kept')
  <2>1. Content'
    BY <1>1, <1>3, CalmContent DEF Content, Held
  <2>2. ASSUME ~FramesLost, NEW d \in shown
        PROVE  /\ ramg'[d.address] = d.resource
               /\ \E i \in Given(ga)' : (Place(ga, i).address)' = d.address
    <3>1. PICK id \in Given(ga) : Place(ga, id).address = d.address /\ ramg[d.address] = d.resource
      BY <2>2 DEF Inv, Kept
    <3>. QED
      BY <1>3, <3>1, CalmKept
  <2>. QED
    BY <1>1, <2>1, <2>2 DEF Kept
<1>4. CASE ~CanAlloc(ga, e.length)
  <2>1. UNCHANGED <<ga, ramg>>
    BY <1>1, <1>4
  <2>2. Calm(ga, ga', ramg, ramg')
    BY <1>2, <2>1, LaterSame DEF Calm, SameBlock
  <2>. QED
    BY <1>2, <1>3, <2>1, <2>2, MoveEnds DEF Calm
<1>5. CASE CanAlloc(ga, e.length)
  <2>1. /\ e.id \in Given(ga) /\ Place(ga, e.id) = e
        /\ n.id \in Ids /\ n.id \notin Given(ga) /\ EntryOf(t, n) = Place(t, n.id)
        /\ Good(t) /\ Later(ga, t) /\ Given(t) = Given(ga) \cup {n.id}
        /\ \A id \in Given(ga) : Place(t, id) = Place(ga, id)
        /\ Place(t, n.id).length = e.length
    BY <1>1, <1>5, MoveFacts
  <2>2. Moved \/ Failed
    BY <1>1, <1>5
  <2> HIDE DEF e, t, n
  <2>3. to = Place(t, n.id).address /\ Words(to, e.length) = Block(t, n.id)
    BY <2>1 DEF Block
  <2>4. Words(to, e.length) \subseteq WordAddr
    BY <2>1, <2>3, BlockIs
  <2>5. ASSUME NEW id \in Given(ga), NEW a \in Block(ga, id)
        PROVE  a \in WordAddr /\ a \notin Words(to, e.length)
    <3>1. Block(t, id) = Block(ga, id) /\ id \in Given(t) /\ n.id \in Given(t) /\ id # n.id
      BY <2>1 DEF Block
    <3>2. Block(t, id) \cap Block(t, n.id) = {} /\ Block(t, id) \subseteq WordAddr
      BY <2>1, <3>1, BlocksApart, BlockIs
    <3>. QED
      BY <2>3, <3>1, <3>2
  <2> HIDE DEF to
  <2>6. CASE Failed
    <3>1. Calm(ga, ga', ramg, ramg') /\ Given(ga) \subseteq Given(ga')
      BY <2>1, <2>5, <2>6 DEF Calm, SameBlock
    <3>2. ramg' \in [WordAddr -> Resources \cup {"none"}]
      BY <1>2, <2>6
    <3>. QED
      BY <1>3, <3>1, <3>2, MoveEnds DEF Calm
  <2>7. CASE Moved
    <3> DEFINE f == e.id
               m == n.id
    <3>1. /\ f \in Given(t) /\ m \in Given(t) /\ f # m /\ f \in Given(ga)
          /\ ga' = SwapHandles(t, f, m)
      BY <2>1, <2>7
    <3> HIDE DEF f, m
    <3>2. /\ Good(ga') /\ Given(ga') = Given(t)
          /\ \A a \in Ids : ga'.refs[a].seq = t.refs[a].seq
          /\ Place(ga', f).address = Place(t, m).address
          /\ Place(ga', f).length = Place(t, m).length
          /\ Place(ga', m).address = Place(t, f).address
          /\ \A a \in Given(t) : a # f /\ a # m => Place(ga', a) = Place(t, a)
      <4>1. Good(t)
        BY ONLY <2>1
      <4> HIDE DEF t
      <4>. QED
        BY ONLY <4>1, <3>1, SwapGood
    <3>3. Later(ga, ga')
      <4>1. t \in Tables /\ ga' \in Tables /\ Later(t, ga')
        BY <2>1, <3>2, LaterSame DEF Good
      <4>. QED
        BY <1>2, <2>1, <4>1, LaterAgain
    <3>4. /\ Place(ga, f) = e /\ Place(ga', f).address = to /\ Place(ga', f).length = e.length
          /\ Place(ga', m).address = e.address /\ m \in Given(ga')
          /\ \A a \in Given(ga) : a # f => Place(ga', a) = Place(ga, a)
      BY <2>1, <2>3, <3>1, <3>2 DEF f, m
    <3>5. /\ e.address \in Cells /\ e.length \in Cells /\ to \in Cells
          /\ e.address + e.length <= RamGSize
      <4>1. /\ Place(ga, f).address \in Cells /\ Place(ga, f).length \in Cells
            /\ End(Place(ga, f)) <= RamGSize
        BY <1>2, <3>1, BlockIs
      <4>2. Place(t, m).address \in Cells
        BY <2>1, <3>1, BlockIs
      <4>. QED
        BY <2>3, <3>4, <4>1, <4>2 DEF End, m
    <3>6. ASSUME NEW id \in Given(ga), NEW a \in Block(ga, id)
          PROVE  ramg'[a] = ramg[a]
      <4>1. a \in WordAddr /\ a \notin Words(to, e.length)
        BY <2>5
      <4>. QED
        BY <2>7, <4>1 DEF Copied
    <3>7. ramg' \in [WordAddr -> Resources \cup {"none"}]
      <4>1. ASSUME NEW a \in Words(to, e.length)
            PROVE  ramg[e.address + (a - to)] \in Resources \cup {"none"}
        <5>1. a \in Nat /\ a % 4 = 0 /\ to <= a /\ a < to + e.length
          BY Parameters DEF Words, WordAddr
        <5> DEFINE x == e.address
                   l == e.length
        <5>2. x \in Nat /\ l \in Nat /\ to \in Nat /\ x % 4 = 0 /\ to % 4 = 0 /\ x + l <= RamGSize
          BY <3>5, Parameters DEF Cells
        <5> HIDE DEF x, l
        <5>3. x + (a - to) \in 0 .. RamGSize - 1 /\ (x + (a - to)) % 4 = 0
          BY <5>1, <5>2, Parameters DEF l
        <5>4. x + (a - to) \in WordAddr
          BY <5>3 DEF WordAddr
        <5>. QED
          BY <1>2, <5>4 DEF x
      <4>. QED
        BY <1>2, <2>7, <4>1 DEF Copied
    <3>8. Content'
      <4> SUFFICES ASSUME NEW r \in Held'
                   PROVE  Has(ga, ramg, handle[r].id, r)'
        BY DEF Content
      <4> DEFINE i == handle[r].id
      <4>1. r \in Resources /\ handle'[r] = handle[r]
        BY <1>1 DEF Held
      <4>2. ga' \in Tables
        BY <3>2 DEF Good
      <4>3. i \in Given(ga) /\ Has(ga, ramg, i, r)
        BY <3>3, <4>1, <4>2, HandlesThrough
      <4> HIDE DEF i
      <4>4. CASE i # f
        <5>1. Has(ga', ramg', i, r)
          BY <3>4, <3>6, <4>3, <4>4, HasStays DEF SameBlock
        <5>. QED
          BY <4>1, <5>1 DEF i, Has, Block, Place
      <4>5. CASE i = f
        <5>1. e.length >= SizeOf[r] /\ \A a \in Words(e.address, e.length) : ramg[a] = r
          BY <3>4, <4>3, <4>5 DEF Has, Block
        <5>2. \A a \in Words(to, e.length) : ramg'[a] = r
          <6>1. \A a \in Words(to, e.length) : Copied(e.address, to, e.length)[a] = r
            BY <3>5, <5>1, CopyFills
          <6>. QED
            BY <2>7, <6>1
        <5>3. Has(ga', ramg', i, r)
          BY <3>4, <4>5, <5>1, <5>2 DEF Has, Block
        <5>. QED
          BY <4>1, <5>3 DEF i, Has, Block, Place
      <4>. QED
        BY <4>4, <4>5
    <3>9. ASSUME ~FramesLost
          PROVE  Kept'
      <4> SUFFICES ASSUME NEW d \in shown
                   PROVE  /\ ramg'[d.address] = d.resource
                          /\ \E j \in Given(ga)' : (Place(ga, j).address)' = d.address
        BY <1>1 DEF Kept
      <4>1. PICK id \in Given(ga) :
              Place(ga, id).address = d.address /\ ramg[d.address] = d.resource
        BY <3>9 DEF Inv, Kept
      <4>2. ramg'[d.address] = d.resource
        BY <1>2, <3>6, <4>1, BlockIs
      <4>3. \E j \in Given(ga') : Place(ga', j).address = d.address
        <5>1. CASE id = f
          BY <3>4, <4>1, <5>1
        <5>2. CASE id # f
          BY <2>1, <3>2, <3>4, <4>1, <5>2
        <5>. QED
          BY <5>1, <5>2
      <4>. QED
        BY <4>2, <4>3 DEF Given, Place
    <3>. QED
      BY <3>2, <3>3, <3>7, <3>8, <3>9, MoveEnds
  <2>. QED
    BY <2>2, <2>6, <2>7
<1>. QED
  BY <1>4, <1>5

-----------------------------------------------------------------------------
(* Every step.                                                             *)

LEMMA Initial == Init => Inv
<1> SUFFICES ASSUME Init
             PROVE  Inv
  OBVIOUS
<1> DEFINE refs == [i \in Ids |-> [idx |-> NoId, seq |-> 0]]
<1>1. refs \in [Ids -> RefType]
  BY Parameters DEF RefType
<1>2. ga = Cleared(refs) /\ \A i \in Ids : refs[i].seq = 0
  BY DEF Init
<1> HIDE DEF refs
<1>3. Good(ga) /\ Given(ga) = {} /\ \A i \in Ids : ga.refs[i].seq = NextSeq(0)
  BY <1>1, <1>2, ClearedGood
<1>4. /\ ramg = [a \in WordAddr |-> "none"] /\ handle = [r \in Resources |-> InvalidHandle]
      /\ size = SizeOf /\ phase = "frame" /\ sweepIdx = 0
      /\ drawing = {} /\ shown = {} /\ wild = FALSE
  BY DEF Init
<1>5. InvalidHandle \in HandleType /\ InvalidHandle.id = MaxAllocs /\ InvalidHandle.id \notin Ids
  BY Parameters DEF InvalidHandle, HandleType, Ids
<1>6. Typed
  <2>1. ramg \in [WordAddr -> Resources \cup {"none"}] /\ handle \in [Resources -> HandleType]
    BY <1>4, <1>5
  <2>2. sweepIdx \in 0 .. MaxAllocs
    BY <1>4, Parameters
  <2>3. size \in [Resources -> Nat] /\ \A r \in Resources : size[r] <= SizeOf[r]
    BY <1>4, GpuAllocAssumption
  <2>. QED
    BY <1>4, <2>1, <2>2, <2>3 DEF Typed
<1>7. HandlesKnown
  BY <1>4, <1>5 DEF HandlesKnown, Known
<1>8. Held = {}
  BY <1>4, <1>5, Parameters DEF Held, Resolves
<1>9. Content /\ Drawn /\ Swept /\ Kept
  BY <1>4, <1>8 DEF Content, Drawn, Swept, Kept
<1>. QED
  BY <1>3, <1>6, <1>7, <1>9 DEF Inv

LEMMA Stutter ==
  ASSUME Inv, UNCHANGED vars
  PROVE  Inv' /\ Later(ga, ga')
<1>1. UNCHANGED <<ga, ramg, handle, size, phase, sweepIdx, drawing, shown, wild>>
  BY DEF vars
<1>2. Good(ga') /\ Later(ga, ga')
  BY <1>1, LaterSame DEF Inv
<1>3. HandlesKnown' /\ Content'
  BY <1>1 DEF Inv, HandlesKnown, Content, Known, Held, Resolves, Has, Block, Place
<1>4. Typed'
  BY <1>1 DEF Inv, Typed
<1>5. Drawn'
  BY <1>1 DEF Inv, Drawn, Leads, Marked, Held, Resolves, Place
<1>6. ~FramesLost => Swept' /\ Kept'
  BY <1>1 DEF Inv, Swept, Kept, Leads, Marked, Held, Resolves, Given, Place
<1>. QED
  BY <1>2, <1>3, <1>4, <1>5, <1>6, InvNext

(* Truncating with room to spare only changes what the resource asks for.  *)
LEMMA TruncateStep ==
  ASSUME Inv, NEW r \in Resources, NEW bytes \in TruncateSizes, Truncate(r, bytes),
         ~(ga.nb >= MaxAllocs /\ Resolves(ga, handle[r]))
  PROVE  Inv' /\ Later(ga, ga')
<1>1. /\ bytes < size[r] /\ size' = [size EXCEPT ![r] = bytes]
      /\ UNCHANGED <<ga, ramg, handle, phase, sweepIdx, drawing, shown, wild>>
  BY DEF Truncate
<1>2. Good(ga') /\ Later(ga, ga')
  BY <1>1, LaterSame DEF Inv
<1>3. HandlesKnown' /\ Content'
  BY <1>1 DEF Inv, HandlesKnown, Content, Known, Held, Resolves, Has, Block, Place
<1>4. Typed'
  <2>1. size \in [Resources -> Nat] /\ \A q \in Resources : size[q] <= SizeOf[q]
    BY DEF Inv, Typed
  <2>2. bytes \in Nat /\ SizeOf[r] \in Nat
    BY GpuAllocAssumption
  <2>3. size' \in [Resources -> Nat]
    BY <1>1, <2>1, <2>2
  <2>4. bytes <= SizeOf[r]
    <3> DEFINE b == size[r]
               m == SizeOf[r]
    <3>1. b \in Nat /\ m \in Nat /\ bytes < b /\ b <= m
      BY <1>1, <2>1, <2>2
    <3> HIDE DEF b, m
    <3>2. bytes <= m
      BY <2>2, <3>1
    <3>. QED
      BY <3>2 DEF m
  <2>5. ASSUME NEW q \in Resources
        PROVE  size'[q] <= SizeOf[q]
    BY <1>1, <2>1, <2>4
  <2>6. (\A q \in Resources : size[q] <= SizeOf[q])'
    BY <2>5
  <2>. QED
    BY <1>1, <2>3, <2>6 DEF Inv, Typed
<1>5. Drawn'
  BY <1>1 DEF Inv, Drawn, Leads, Marked, Held, Resolves, Place
<1>6. ~FramesLost => Swept' /\ Kept'
  BY <1>1 DEF Inv, Swept, Kept, Leads, Marked, Held, Resolves, Given, Place
<1>. QED
  BY <1>2, <1>3, <1>4, <1>5, <1>6, InvNext


(* Every step keeps the invariant, and the tables only move on.            *)
LEMMA EveryStep ==
  ASSUME Inv, NoWrap, [RoomToTruncate]_vars, [Next]_vars
  PROVE  Inv' /\ Later(ga, ga')
<1>1. UNCHANGED vars \/ RoomToTruncate
  OBVIOUS
<1>2. CASE UNCHANGED vars
  BY <1>2, Stutter
<1>3. CASE Application /\ RoomToTruncate
  <2>1. ASSUME NEW r \in Resources, LoadResource(r)
        PROVE  Inv' /\ Later(ga, ga')
    BY <2>1, UseStep, LoadStep, NoRoomStep DEF LoadResource
  <2>2. ASSUME NEW r \in Resources, FreeResource(r)
        PROVE  Inv' /\ Later(ga, ga')
    BY <2>2, FreeStep
  <2>3. ASSUME NEW flags \in {{}, {"gc"}}, TakeOver(flags)
        PROVE  Inv' /\ Later(ga, ga')
    BY <2>3, TakeOverStep
  <2>4. CASE Reset
    BY <2>4, ResetStep
  <2>5. ASSUME NEW r \in Resources, NEW bytes \in TruncateSizes, Truncate(r, bytes)
        PROVE  Inv' /\ Later(ga, ga')
    <3>1. ~(ga.nb >= MaxAllocs /\ Resolves(ga, handle[r]))
      BY <1>3, <2>5 DEF RoomToTruncate
    <3>. QED
      BY <2>5, <3>1, TruncateStep
  <2>. QED
    BY <1>3, <2>1, <2>2, <2>3, <2>4, <2>5 DEF Application
<1>4. CASE EndFrame
  BY <1>4, EndFrameStep
<1>5. CASE Update
  BY <1>5, SweepFreeStep, SweepKeepStep, PhaseStep, MoveBlockStep DEF Update
<1>. QED
  BY <1>1, <1>2, <1>3, <1>4, <1>5 DEF Next

(* The hypotheses of the results: no sequence number comes round, and no   *)
(* full table is trimmed.                                                  *)
Assumed == []NoWrap /\ [][RoomToTruncate]_vars

LEMMA Always == Spec /\ Assumed => []Inv
<1>1. Inv /\ NoWrap /\ [RoomToTruncate]_vars /\ [Next]_vars => Inv'
  BY EveryStep
<1>. QED
  BY <1>1, Initial, PTL DEF Spec, Assumed

-----------------------------------------------------------------------------
(* The results.                                                            *)

(* Every table, handle and address of Esd_GpuAlloc.c keeps its range:      *)
(* NbAllocEntries stays within the tables, no entry lies outside RAM_G.    *)
THEOREM TypeCorrect == Spec /\ Assumed => []TypeOK
<1>1. Inv => TypeOK
  <2> SUFFICES ASSUME Inv
               PROVE  TypeOK
    OBVIOUS
  <2>1. ga \in Tables /\ Cells \subseteq 0 .. RamGSize
    BY DEF Inv, Good, Cells
  <2>2. EntryType \subseteq [address : 0 .. RamGSize, length : 0 .. RamGSize,
                             id : 0 .. MaxAllocs, flags : SUBSET Flags]
    BY <2>1 DEF EntryType
  <2>3. ga \in [refs    : [Ids -> [idx : 0 .. MaxAllocs, seq : 0 .. SeqCount - 1]],
                entries : [Ids -> [address : 0 .. RamGSize, length : 0 .. RamGSize,
                                   id : 0 .. MaxAllocs, flags : SUBSET Flags]],
                nb      : 1 .. MaxAllocs]
    BY <2>1, <2>2 DEF Tables, RefType
  <2>4. size \in [Resources -> Nat]
    BY DEF Inv, Typed
  <2>5. /\ drawing \in SUBSET [resource : Resources, address : 0 .. RamGSize]
        /\ shown \in SUBSET [resource : Resources, address : 0 .. RamGSize]
    BY <2>1 DEF Inv, Typed
  <2>. QED
    BY <2>3, <2>4, <2>5 DEF TypeOK, Inv, Typed, HandleType
<1>. QED
  BY <1>1, Always, PTL

(* The entries of AllocEntries lie end to end over all of RAM_G, and free  *)
(* ones are joined: no split, merge or move of the allocator loses memory  *)
(* or gives it out twice.                                                  *)
THEOREM TablesTile == Spec /\ Assumed => []Tiled
<1>1. Inv => Tiled
  BY DEF Inv, Good, Tiling, NoPair, Tiled, Entries, Span, End, Bound
<1>. QED
  BY <1>1, Always, PTL

(* AllocRefs and AllocEntries point at each other, however the insertions  *)
(* and removals of the allocator shift the entries.                        *)
THEOREM RefsAreRight == Spec /\ Assumed => []RefsMatch
<1>1. Inv => RefsMatch
  BY DEF Inv, Good, Match, RefsMatch, Entries, Span
<1>. QED
  BY <1>1, Always, PTL

(* While a handle resolves, Esd_GpuAlloc_Get leads to its own resource's   *)
(* data, wherever Esd_GpuAlloc_Update has moved it.                        *)
THEOREM HandlesLead == Spec /\ Assumed => []ContentKept
<1>1. Inv => ContentKept
  <2> SUFFICES ASSUME Inv, NEW r \in Held
               PROVE  /\ Length(ga, r) >= size[r]
                      /\ \A a \in Words(Address(ga, r), size[r]) : ramg[a] = r
    BY DEF ContentKept
  <2> DEFINE i == handle[r].id
             p == Place(ga, i).address
             l == Place(ga, i).length
  <2>1. /\ i \in Given(ga) /\ Has(ga, ramg, i, r) /\ EntryOf(ga, handle[r]) = Place(ga, i)
        /\ r \in Resources
    BY HeldFacts
  <2>2. size[r] \in Nat /\ SizeOf[r] \in Nat /\ size[r] <= SizeOf[r]
    BY <2>1, GpuAllocAssumption DEF Inv, Typed
  <2>3. Length(ga, r) = l /\ Address(ga, r) = p
    BY <2>1 DEF Length, Address
  <2>4. p \in Nat /\ l \in Nat
    BY <2>1, BlockIs, Parameters DEF Inv
  <2>5. l >= SizeOf[r] /\ \A a \in Words(p, l) : ramg[a] = r
    BY <2>1 DEF Has, Block
  <2> HIDE DEF p, l
  <2>6. l >= size[r] /\ Words(p, size[r]) \subseteq Words(p, l)
    BY <2>2, <2>4, <2>5, Parameters DEF Words, WordAddr
  <2>. QED
    BY <2>2, <2>3, <2>5, <2>6
<1>. QED
  BY <1>1, Always, PTL

(* When no frame is lost, collecting and moving blocks in                  *)
(* Esd_GpuAlloc_Update never disturbs what the display list on the screen, *)
(* or the one being built, points at.                                      *)
THEOREM FrameStaysIntact ==
  ~FramesLost => (Spec /\ Assumed => []FrameIntact)
<1>1. Inv => (~FramesLost => FrameIntact)
  <2> SUFFICES ASSUME Inv, ~FramesLost, NEW d \in drawing \cup shown
               PROVE  ramg[d.address] = d.resource
    BY DEF FrameIntact
  <2>1. CASE d \in drawing
    BY <2>1, LeadsFacts DEF Inv, Drawn
  <2>2. CASE d \in shown
    BY <2>2 DEF Inv, Kept
  <2>. QED
    BY <2>1, <2>2
<1> DEFINE Shows == Inv /\ ~FramesLost
<1>2. ~FramesLost /\ Init => Shows
  BY Initial
<1>3. Shows /\ NoWrap /\ [RoomToTruncate]_vars /\ [Next]_vars => Shows'
  BY EveryStep
<1>4. Shows => FrameIntact
  BY <1>1
<1> HIDE DEF Shows
<1>. QED
  BY <1>2, <1>3, <1>4, PTL DEF Spec, Assumed

(* A handle that Esd_GpuAlloc_Get has once turned down is turned down for  *)
(* good, however often its id is given out again: until the 24 bits of the *)
(* id's Seq have come round, nobody is led to another's block.             *)
THEOREM StaleHandles == Spec /\ Assumed => StaleStaysStale
<1>1. ASSUME Inv, NoWrap, [RoomToTruncate]_vars, [Next]_vars, NEW r \in Resources,
             handle'[r] = handle[r], ~Resolves(ga, handle[r])
      PROVE  ~Resolves(ga', handle[r])
  <2>1. Inv' /\ Later(ga, ga')
    BY <1>1, EveryStep
  <2>2. ga \in Tables /\ handle[r] \in HandleType /\ Known(ga, handle[r])
    BY <1>1 DEF Inv, Good, Typed, HandlesKnown
  <2>3. ga' \in Tables
    BY <2>1 DEF Inv, Good, Tables, RefType, EntryType, Cells, Ids
  <2>. QED
    BY <1>1, <2>1, <2>2, <2>3, LaterHandles
<1>2. Inv /\ NoWrap /\ [RoomToTruncate]_vars /\ [Next]_vars =>
        [\A r \in Resources :
           handle'[r] = handle[r] /\ ~Resolves(ga, handle[r]) => ~Resolves(ga', handle[r])]_vars
  BY <1>1
<1>. QED
  BY <1>2, Always, PTL DEF Spec, Assumed, StaleStaysStale
=============================================================================
