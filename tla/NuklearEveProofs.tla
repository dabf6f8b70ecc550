-------------------------- MODULE NuklearEveProofs --------------------------
(***************************************************************************)
(* Proofs about NuklearEve: for every list of commands, every set of       *)
(* colours and every width of the row.                                     *)
(***************************************************************************)
EXTENDS NuklearEve, FiniteSetTheorems, WellFoundedInduction, TLAPS

Rects    == [x : Int, w : Int]
Scissors == [x : Int, w : Nat]
Paints   == Seq(Colours \cup {Background})
Marks    == {0, 1, 254, 255}

-----------------------------------------------------------------------------
(* Numbers and sets of numbers.                                            *)

LEMMA Least ==
  ASSUME NEW T \in SUBSET Nat, T # {}
  PROVE  \E n \in T : \A m \in T : n <= m
<1> DEFINE R == {ss \in Nat \X Nat : ss[1] < ss[2]}
<1>1. IsWellFoundedOn(R, Nat)
  BY NatLessThanWellFounded DEF OpToRel
<1>2. \E x \in T : \A y \in T : ~(<<y, x>> \in R)
  <2> HIDE DEF R
  <2>. QED
    BY <1>1, WFMin
<1>3. PICK x \in T : \A y \in T : ~(<<y, x>> \in R)
  BY <1>2
<1>4. ASSUME NEW y \in T
      PROVE  x <= y
  <2>1. ~(y < x)
    BY <1>3
  <2>. QED
    BY <2>1
<1>. QED
  BY <1>4

LEMMA MaxIs ==
  ASSUME NEW S \in SUBSET Int, \E m \in S : \A n \in S : n <= m
  PROVE  Max(S) \in S /\ \A n \in S : n <= Max(S)
<1>1. \E m \in S : \A n \in S : m >= n
  OBVIOUS
<1>. QED
  BY <1>1 DEF Max

LEMMA MinIs ==
  ASSUME NEW S \in SUBSET Int, \E m \in S : \A n \in S : m <= n
  PROVE  Min(S) \in S /\ \A n \in S : Min(S) <= n
  BY DEF Min

LEMMA MaxOfTwo ==
  ASSUME NEW a \in Int, NEW b \in Int
  PROVE  Max({a, b}) = IF a <= b THEN b ELSE a
<1>1. {a, b} \in SUBSET Int /\ \E m \in {a, b} : \A n \in {a, b} : n <= m
  OBVIOUS
<1>2. Max({a, b}) \in {a, b} /\ \A n \in {a, b} : n <= Max({a, b})
  BY <1>1, MaxIs
<1>. QED
  BY <1>2

LEMMA MinOfTwo ==
  ASSUME NEW a \in Int, NEW b \in Int
  PROVE  Min({a, b}) = IF a <= b THEN a ELSE b
<1>1. {a, b} \in SUBSET Int /\ \E m \in {a, b} : \A n \in {a, b} : m <= n
  OBVIOUS
<1>2. Min({a, b}) \in {a, b} /\ \A n \in {a, b} : Min({a, b}) <= n
  BY <1>1, MinIs
<1>. QED
  BY <1>2

-----------------------------------------------------------------------------
(* The scissor.                                                            *)

LEMMA RowIsInt == Row \subseteq Int /\ Base \in Scissors /\ Scissored(Base) = Row
  BY NuklearAssumption DEF Row, Base, Scissors, Scissored

(* A rectangle cut to another is what both have of the row.                *)
LEMMA AdjustIsMeet ==
  ASSUME NEW a \in Rects, NEW b \in Rects
  PROVE  /\ Adjust(a, b) \in Scissors
         /\ Scissored(Adjust(a, b)) = Scissored(a) \cap Scissored(b)
<1> DEFINE x == IF b.x <= a.x THEN a.x ELSE b.x
           e == IF a.x + a.w <= b.x + b.w THEN a.x + a.w ELSE b.x + b.w
           w == e - x
           v == IF w <= 0 THEN 0 ELSE w
<1>1. a.x \in Int /\ a.w \in Int /\ b.x \in Int /\ b.w \in Int
  BY DEF Rects
<1>2. x \in Int /\ e \in Int /\ w \in Int /\ v \in Nat
  BY <1>1
<1>3. Max({b.x, a.x}) = x /\ Min({a.x + a.w, b.x + b.w}) = e
  BY <1>1, MaxOfTwo, MinOfTwo
<1>4. Max({w, 0}) = v
  <2> HIDE DEF w
  <2>. QED
    BY <1>2, MaxOfTwo
<1>5. Adjust(a, b) = [x |-> x, w |-> v]
  BY <1>3, <1>4 DEF Adjust
<1>6. ASSUME NEW p \in Int
      PROVE  p \in x .. x + v - 1 <=> p \in a.x .. a.x + a.w - 1 /\ p \in b.x .. b.x + b.w - 1
  BY <1>1
<1>7. Scissored(Adjust(a, b)) = Row \cap x .. x + v - 1
  <2> HIDE DEF x, v
  <2>. QED
    BY <1>5 DEF Scissored
<1>. QED
  <2> HIDE DEF x, v
  <2>1. Adjust(a, b) \in Scissors
    BY <1>2, <1>5 DEF Scissors
  <2>. QED
    BY <1>6, <1>7, <2>1, RowIsInt DEF Scissored

-----------------------------------------------------------------------------
(* Painting.                                                               *)

LEMMA PaintedTyped ==
  ASSUME NEW px \in [Row -> Paints], NEW cols, NEW k \in Colours
  PROVE  Painted(px, cols, k) \in [Row -> Paints]
<1>1. ASSUME NEW p \in Row
      PROVE  /\ px[p] \in Paints /\ <<k>> \in Paints
             /\ Append(px[p], k) \in Paints
  BY DEF Paints
<1>. QED
  BY <1>1 DEF Painted

(* Painting the same pixel of two rows leaves them the same.               *)
LEMMA PaintedAt ==
  ASSUME NEW px, NEW py, NEW A, NEW B, NEW k, NEW p \in Row,
         px[p] = py[p], p \in A <=> p \in B
  PROVE  Painted(px, A, k)[p] = Painted(py, B, k)[p]
  BY DEF Painted

LEMMA PaintedOpaque ==
  ASSUME NEW px, NEW A, NEW k \in Opaque, NEW p \in Row
  PROVE  Painted(px, A, k)[p] = IF p \in A THEN <<k>> ELSE px[p]
  BY DEF Painted

LEMMA PaintedBeside ==
  ASSUME NEW px, NEW A, NEW k, NEW p \in Row, p \notin A
  PROVE  Painted(px, A, k)[p] = px[p]
  BY DEF Painted

LEMMA StencilTyped ==
  ASSUME NEW st \in [Row -> Marks], NEW cols
  PROVE  /\ \A v \in Marks : StencilPut(st, cols, v) \in [Row -> Marks]
         /\ StencilInvert(st, cols) \in [Row -> Marks]
  BY DEF StencilPut, StencilInvert, Marks

-----------------------------------------------------------------------------
(* Polygons.  Every edge inverts what is below it: after k edges a pixel   *)
(* is inverted if an odd number of the first k lies above it.              *)

Edge(c, e)       == c.edges[e].from .. c.edges[e].to - 1
Upto(c, p, k)    == { e \in 1 .. k : p \in Edge(c, e) }
OddUpto(c, p, k) == Cardinality(Upto(c, p, k)) % 2 = 1

(* f[k] is the stencil after k edges, within the scissor n.                *)
Runs(f, st, c, n, k) ==
  /\ f[0] = st
  /\ \A e \in 1 .. k : f[e] = StencilInvert(f[e - 1], Scissored(n) \cap Edge(c, e))

Inverts(s, st, c, n, k) ==
  \A p \in Row : s[p] = IF p \in Scissored(n) /\ OddUpto(c, p, k) THEN 255 - st[p] ELSE st[p]

LEMMA UptoGrows ==
  ASSUME NEW c, NEW p, NEW k \in Nat
  PROVE  /\ OddUpto(c, p, k) \in BOOLEAN /\ ~OddUpto(c, p, 0)
         /\ OddUpto(c, p, k + 1) <=> (OddUpto(c, p, k) <=> p \notin Edge(c, k + 1))
<1>1. /\ IsFiniteSet(1 .. k) /\ Upto(c, p, k) \in SUBSET (1 .. k)
  BY FS_Interval DEF Upto
<1>2. IsFiniteSet(Upto(c, p, k))
  BY <1>1, FS_Subset
<1>3. Cardinality(Upto(c, p, k)) \in Nat
  BY <1>2, FS_CardinalityType
<1>4. Upto(c, p, 0) = {} /\ Cardinality({}) = 0
  BY FS_EmptySet DEF Upto
<1>5. 1 .. k + 1 = (1 .. k) \cup {k + 1}
  OBVIOUS
<1>6. CASE p \in Edge(c, k + 1)
  <2>1. Upto(c, p, k + 1) = Upto(c, p, k) \cup {k + 1} /\ k + 1 \notin Upto(c, p, k)
    BY <1>5, <1>6 DEF Upto
  <2>2. Cardinality(Upto(c, p, k + 1)) = Cardinality(Upto(c, p, k)) + 1
    BY <1>2, <2>1, FS_AddElement
  <2> DEFINE m == Cardinality(Upto(c, p, k))
  <2>3. (m + 1) % 2 = 1 <=> ~(m % 2 = 1)
    <3> HIDE DEF m
    <3>1. m \in Nat
      BY <1>3 DEF m
    <3>. QED
      BY <3>1
  <2>4. OddUpto(c, p, k + 1) <=> ~OddUpto(c, p, k)
    BY <2>2, <2>3 DEF OddUpto
  <2>5. OddUpto(c, p, k) \in BOOLEAN /\ ~OddUpto(c, p, 0)
    BY <1>4 DEF OddUpto
  <2>. QED
    BY <1>6, <2>4, <2>5
<1>7. CASE p \notin Edge(c, k + 1)
  <2>1. Upto(c, p, k + 1) = Upto(c, p, k)
    BY <1>5, <1>7 DEF Upto
  <2>2. OddUpto(c, p, k + 1) <=> OddUpto(c, p, k)
    BY <2>1 DEF OddUpto
  <2>3. OddUpto(c, p, k) \in BOOLEAN /\ ~OddUpto(c, p, 0)
    BY <1>4 DEF OddUpto
  <2>. QED
    BY <1>7, <2>2, <2>3
<1>. QED
  BY <1>6, <1>7

LEMMA RunInverts ==
  ASSUME NEW f, NEW st \in [Row -> Marks], NEW c, NEW n, NEW L \in Nat,
         Runs(f, st, c, n, L)
  PROVE  \A k \in 0 .. L : f[k] \in [Row -> Marks] /\ Inverts(f[k], st, c, n, k)
<1> DEFINE Good(k) == f[k] \in [Row -> Marks] /\ Inverts(f[k], st, c, n, k)
           T == {k \in 0 .. L : ~Good(k)}
<1>1. Good(0)
  <2>1. f[0] = st
    BY DEF Runs
  <2>2. \A p \in Row : ~OddUpto(c, p, 0)
    BY UptoGrows
  <2>. QED
    BY <2>1, <2>2 DEF Inverts
<1>2. ASSUME NEW k \in 0 .. L, k # 0, Good(k - 1)
      PROVE  Good(k)
  <2> DEFINE j == k - 1
  <2>1. j \in Nat /\ k = j + 1 /\ k \in 1 .. L
    BY <1>2
  <2>2. f[k] = StencilInvert(f[j], Scissored(n) \cap Edge(c, k))
    BY <2>1 DEF Runs
  <2>3. f[k] \in [Row -> Marks]
    BY <1>2, <2>2, StencilTyped
  <2>4. ASSUME NEW p \in Row
        PROVE  f[k][p] = IF p \in Scissored(n) /\ OddUpto(c, p, k) THEN 255 - st[p] ELSE st[p]
    <3>1. f[j][p] = IF p \in Scissored(n) /\ OddUpto(c, p, j) THEN 255 - st[p] ELSE st[p]
      BY <1>2 DEF Inverts
    <3>2. f[k][p] = IF p \in Scissored(n) \cap Edge(c, k) THEN 255 - f[j][p] ELSE f[j][p]
      BY <2>2 DEF StencilInvert
    <3>3. OddUpto(c, p, k) <=> (OddUpto(c, p, j) <=> p \notin Edge(c, k))
      <4> HIDE DEF j
      <4>. QED
        BY <2>1, UptoGrows
    <3>4. st[p] \in Int
      BY DEF Marks
    <3> HIDE DEF j
    <3>. QED
      BY <3>1, <3>2, <3>3, <3>4
  <2>. QED
    BY <2>3, <2>4 DEF Inverts
<1>3. T = {}
  <2>1. SUFFICES ASSUME T # {} PROVE FALSE
    OBVIOUS
  <2>2. T \in SUBSET Nat
    OBVIOUS
  <2>3. PICK k \in T : \A m \in T : k <= m
    <3> HIDE DEF T
    <3>. QED
      BY <2>1, <2>2, Least
  <2>4. k \in 0 .. L /\ ~Good(k)
    OBVIOUS
  <2> HIDE DEF Good
  <2>5. k # 0
    BY <1>1, <2>4
  <2>6. k - 1 \in 0 .. L /\ k - 1 \notin T
    BY <2>3, <2>4, <2>5
  <2>7. Good(k - 1)
    BY <2>6
  <2>. QED
    BY <1>2, <2>4, <2>5, <2>7
<1>. QED
  BY <1>3

LEMMA RunExists ==
  ASSUME NEW st, NEW c, NEW n, NEW L \in Nat
  PROVE  \E f : Runs(f, st, c, n, L)
<1> DEFINE Good(k) == \E f : Runs(f, st, c, n, k)
           T == {k \in 0 .. L : ~Good(k)}
<1>1. Good(0)
  <2>1. Runs([e \in {0} |-> st], st, c, n, 0)
    BY DEF Runs
  <2>. QED
    BY <2>1
<1>2. ASSUME NEW k \in 0 .. L, k # 0, Good(k - 1)
      PROVE  Good(k)
  <2>1. PICK f : Runs(f, st, c, n, k - 1)
    BY <1>2
  <2> DEFINE g == [e \in 0 .. k |-> IF e = k THEN StencilInvert(f[k - 1], Scissored(n) \cap Edge(c, k))
                                    ELSE f[e]]
  <2>2. \A e \in 0 .. k - 1 : g[e] = f[e]
    OBVIOUS
  <2>3. g[k] = StencilInvert(f[k - 1], Scissored(n) \cap Edge(c, k))
    OBVIOUS
  <2> HIDE DEF g
  <2>4. f[0] = st /\ \A e \in 1 .. k - 1 : f[e] = StencilInvert(f[e - 1], Scissored(n) \cap Edge(c, e))
    BY <2>1 DEF Runs
  <2>5. g[0] = st
    BY <1>2, <2>2, <2>4
  <2>6. ASSUME NEW e \in 1 .. k
        PROVE  g[e] = StencilInvert(g[e - 1], Scissored(n) \cap Edge(c, e))
    <3>1. g[e - 1] = f[e - 1]
      BY <2>2
    <3>2. CASE e = k
      BY <2>3, <3>1, <3>2
    <3>3. CASE e # k
      <4>1. e \in 1 .. k - 1 /\ e \in 0 .. k - 1
        BY <3>3
      <4>. QED
        BY <2>2, <2>4, <3>1, <4>1
    <3>. QED
      BY <3>2, <3>3
  <2>7. Runs(g, st, c, n, k)
    BY <2>5, <2>6 DEF Runs
  <2>. QED
    BY <2>7
<1>3. T = {}
  <2>1. SUFFICES ASSUME T # {} PROVE FALSE
    OBVIOUS
  <2>2. T \in SUBSET Nat
    OBVIOUS
  <2>3. PICK k \in T : \A m \in T : k <= m
    <3> HIDE DEF T
    <3>. QED
      BY <2>1, <2>2, Least
  <2>4. k \in 0 .. L /\ ~Good(k)
    OBVIOUS
  <2> HIDE DEF Good
  <2>5. k # 0
    BY <1>1, <2>4
  <2>6. k - 1 \in 0 .. L /\ k - 1 \notin T
    BY <2>3, <2>4, <2>5
  <2>7. Good(k - 1)
    BY <2>6
  <2>. QED
    BY <1>2, <2>4, <2>5, <2>7
<1>. QED
  BY <1>3

(* Inverted is the last stencil of such a run.                             *)
LEMMA InvertedRuns ==
  ASSUME NEW st, NEW c, NEW n, Len(c.edges) \in Nat
  PROVE  \E f : Runs(f, st, c, n, Len(c.edges)) /\ Inverted(st, c, n) = f[Len(c.edges)]
<1> DEFINE L == Len(c.edges)
           Body(f) == [e \in 0 .. L |->
                         IF e = 0 THEN st
                         ELSE StencilInvert(f[e - 1], Scissored(n) \cap c.edges[e].from .. c.edges[e].to - 1)]
           G == CHOOSE f : f = Body(f)
<1>1. Inverted(st, c, n) = G[L]
  BY DEF Inverted
<1>2. PICK f : Runs(f, st, c, n, L)
  BY RunExists
<1>3. \E g : g = Body(g)
  <2> DEFINE g == [e \in 0 .. L |-> f[e]]
  <2>1. ASSUME NEW e \in 0 .. L
        PROVE  g[e] = Body(g)[e]
    <3>1. CASE e = 0
      BY <1>2, <3>1 DEF Runs
    <3>2. CASE e # 0
      <4>1. e \in 1 .. L /\ e - 1 \in 0 .. L
        BY <3>2
      <4>. QED
        BY <1>2, <3>2, <4>1 DEF Runs, Edge
    <3>. QED
      BY <3>1, <3>2
  <2>2. g = Body(g)
    BY <2>1
  <2>. QED
    BY <2>2
<1>4. G = Body(G)
  BY <1>3
<1>5. Runs(G, st, c, n, L)
  <2> HIDE DEF G
  <2>1. \A e \in 0 .. L :
          Body(G)[e] = IF e = 0 THEN st
                       ELSE StencilInvert(G[e - 1], Scissored(n) \cap Edge(c, e))
    BY DEF Edge
  <2> HIDE DEF Body
  <2>2. \A e \in 0 .. L : G[e] = Body(G)[e]
    BY <1>4
  <2>3. 0 \in 0 .. L /\ \A e \in 1 .. L : e \in 0 .. L /\ e # 0
    OBVIOUS
  <2>. QED
    BY <2>1, <2>2, <2>3 DEF Runs
<1>. QED
  BY <1>1, <1>5

(* The boundary of a polygon is around all of its edges.                   *)
Ends(c, k) == { c.edges[e].from : e \in 1 .. k } \cup { c.edges[e].to : e \in 1 .. k }

Bounded(S) ==
  /\ S \in SUBSET Int
  /\ \E m \in S : \A n \in S : n <= m
  /\ \E m \in S : \A n \in S : m <= n

LEMMA BoundedGrows ==
  ASSUME NEW S, Bounded(S), NEW a \in Int
  PROVE  Bounded(S \cup {a})
<1>0. S \in SUBSET Int /\ S \cup {a} \in SUBSET Int
  BY DEF Bounded
<1>1. PICK m \in S : \A n \in S : n <= m
  BY DEF Bounded
<1>2. \E i \in S \cup {a} : \A n \in S \cup {a} : n <= i
  <2>1. CASE a <= m
    <3>1. \A n \in S \cup {a} : n <= m
      BY <1>0, <1>1, <2>1
    <3>. QED
      BY <3>1
  <2>2. CASE ~(a <= m)
    <3>1. \A n \in S \cup {a} : n <= a
      BY <1>0, <1>1, <2>2
    <3>. QED
      BY <3>1
  <2>. QED
    BY <2>1, <2>2
<1>3. PICK l \in S : \A n \in S : l <= n
  BY DEF Bounded
<1>4. \E i \in S \cup {a} : \A n \in S \cup {a} : i <= n
  <2>1. CASE l <= a
    <3>1. \A n \in S \cup {a} : l <= n
      BY <1>0, <1>3, <2>1
    <3>. QED
      BY <3>1
  <2>2. CASE ~(l <= a)
    <3>1. \A n \in S \cup {a} : a <= n
      BY <1>0, <1>3, <2>2
    <3>. QED
      BY <3>1
  <2>. QED
    BY <2>1, <2>2
<1>. QED
  BY <1>0, <1>2, <1>4, Zenon DEF Bounded

LEMMA EndsBounded ==
  ASSUME NEW c, NEW L \in Nat, NEW z \in Int,
         \A e \in 1 .. L : c.edges[e].from \in Int /\ c.edges[e].to \in Int
  PROVE  Bounded(Ends(c, L) \cup {z})
<1> DEFINE Good(k) == Bounded(Ends(c, k) \cup {z})
           T == {k \in 0 .. L : ~Good(k)}
<1>1. Good(0)
  <2>1. Ends(c, 0) \cup {z} = {z}
    BY DEF Ends
  <2>2. Bounded({z})
    BY DEF Bounded
  <2>. QED
    BY <2>1, <2>2
<1>2. ASSUME NEW k \in 0 .. L, k # 0, Good(k - 1)
      PROVE  Good(k)
  <2>1. k \in 1 .. L /\ 1 .. k = (1 .. k - 1) \cup {k}
    BY <1>2
  <2>2. Ends(c, k) \cup {z} = Ends(c, k - 1) \cup {z} \cup {c.edges[k].from} \cup {c.edges[k].to}
    BY <2>1 DEF Ends
  <2>3. Bounded(Ends(c, k - 1) \cup {z} \cup {c.edges[k].from})
    BY <1>2, <2>1, BoundedGrows
  <2>. QED
    BY <2>1, <2>2, <2>3, BoundedGrows
<1>3. T = {}
  <2>1. SUFFICES ASSUME T # {} PROVE FALSE
    OBVIOUS
  <2>2. T \in SUBSET Nat
    OBVIOUS
  <2>3. PICK k \in T : \A m \in T : k <= m
    <3> HIDE DEF T
    <3>. QED
      BY <2>1, <2>2, Least
  <2>4. k \in 0 .. L /\ ~Good(k)
    OBVIOUS
  <2> HIDE DEF Good
  <2>5. k # 0
    BY <1>1, <2>4
  <2>6. k - 1 \in 0 .. L /\ k - 1 \notin T
    BY <2>3, <2>4, <2>5
  <2>7. Good(k - 1)
    BY <2>6
  <2>. QED
    BY <1>2, <2>4, <2>5, <2>7
<1>. QED
  BY <1>3

LEMMA PolygonTyped ==
  ASSUME NEW c \in Commands, c.kind = "polygon_filled"
  PROVE  /\ Len(c.edges) \in Nat /\ DOMAIN c.edges = 1 .. Len(c.edges)
         /\ \A e \in 1 .. Len(c.edges) : c.edges[e].from \in Int /\ c.edges[e].to \in Int
<1>1. c.edges \in Seq([from : Int, to : Int])
  BY NuklearAssumption
<1> DEFINE R == [from : Int, to : Int]
<1>2. \A s \in Seq(R) :
        /\ Len(s) \in Nat /\ DOMAIN s = 1 .. Len(s)
        /\ \A e \in 1 .. Len(s) : s[e] \in R
  <2> HIDE DEF R
  <2>. QED
    OBVIOUS
<1>3. \A r \in [from : Int, to : Int] : r.from \in Int /\ r.to \in Int
  OBVIOUS
<1>. QED
  BY <1>1, <1>2, <1>3, Zenon

LEMMA BoundaryCovers ==
  ASSUME NEW c \in Commands, c.kind = "polygon_filled"
  PROVE  /\ Boundary(c) \in Rects
         /\ \A e \in DOMAIN c.edges :
              Row \cap Edge(c, e) \subseteq Scissored(Boundary(c))
<1> DEFINE L == Len(c.edges)
           ends == Ends(c, L)
           far == 4095
           left == Min(ends \cup {far})
           right == Max(ends \cup {0})
<1>0. DOMAIN c.edges = 1 .. L
  BY PolygonTyped
<1>1. Boundary(c) = [x |-> left, w |-> right - left]
  BY <1>0 DEF Boundary, Ends
<1>2. Bounded(ends \cup {0}) /\ Bounded(ends \cup {far})
  <2>1. far \in Int /\ 0 \in Int
    OBVIOUS
  <2>2. /\ L \in Nat
        /\ \A e \in 1 .. L : c.edges[e].from \in Int /\ c.edges[e].to \in Int
    BY PolygonTyped
  <2> HIDE DEF far, L
  <2>. QED
    BY <2>1, <2>2, EndsBounded
<1>3. left \in Int /\ right \in Int /\ \A n \in ends : left <= n /\ n <= right
  <2> HIDE DEF ends, far
  <2>1. right \in ends \cup {0} /\ \A n \in ends \cup {0} : n <= right
    BY <1>2, MaxIs DEF Bounded
  <2>2. left \in ends \cup {far} /\ \A n \in ends \cup {far} : left <= n
    BY <1>2, MinIs DEF Bounded
  <2>3. ends \cup {0} \subseteq Int /\ ends \cup {far} \subseteq Int
    BY <1>2 DEF Bounded
  <2>. QED
    BY <2>1, <2>2, <2>3
<1>4. Boundary(c) \in Rects
  <2> HIDE DEF left, right
  <2>. QED
    BY <1>1, <1>3 DEF Rects
<1>5. ASSUME NEW e \in DOMAIN c.edges, NEW p \in Row, p \in Edge(c, e)
      PROVE  p \in Scissored(Boundary(c))
  <2>1. /\ c.edges[e].from \in Int /\ c.edges[e].to \in Int
        /\ c.edges[e].from \in ends /\ c.edges[e].to \in ends
    BY PolygonTyped DEF Ends
  <2>2. p \in Int
    BY RowIsInt
  <2> DEFINE f == c.edges[e].from
             t == c.edges[e].to
  <2>3. p \in f .. t - 1
    BY <1>5 DEF Edge
  <2>4. left <= f /\ t <= right
    <3>1. f \in ends /\ t \in ends
      BY <2>1
    <3> HIDE DEF left, right, f, t, ends
    <3>. QED
      BY <1>3, <3>1
  <2> HIDE DEF left, right, f, t, ends
  <2>5. p \in left .. left + (right - left) - 1
    <3>1. f \in Int /\ t \in Int
      BY <2>1 DEF f, t
    <3>. QED
      BY <1>3, <2>2, <2>3, <2>4, <3>1
  <2>. QED
    BY <1>1, <2>5 DEF Scissored
<1>. QED
  BY <1>4, <1>5

(* What Polygon draws: within the scissor, what an odd number of edges lies *)
(* above.                                                                  *)
LEMMA PolygonDraws ==
  ASSUME NEW c \in Commands, c.kind = "polygon_filled",
         NEW s \in Scissors, NEW st0 \in [Row -> Marks]
  PROVE  LET narrow == Adjust(Boundary(c), s)
             st     == Inverted(StencilPut(st0, Scissored(narrow), 0), c, narrow)
         IN  /\ st \in [Row -> Marks]
             /\ { p \in Scissored(narrow) : st[p] = 255 } = Scissored(s) \cap Meant(c)
<1> DEFINE L      == Len(c.edges)
           narrow == Adjust(Boundary(c), s)
           clear  == StencilPut(st0, Scissored(narrow), 0)
           st     == Inverted(clear, c, narrow)
<1>1. L \in Nat /\ DOMAIN c.edges = 1 .. L
  BY PolygonTyped
<1>2. Scissored(narrow) = Scissored(Boundary(c)) \cap Scissored(s)
  <2>1. s \in Rects
    BY DEF Rects, Scissors
  <2>. QED
    BY <2>1, BoundaryCovers, AdjustIsMeet
<1> HIDE DEF narrow
<1>3. clear \in [Row -> Marks] /\ \A p \in Row \cap Scissored(narrow) : clear[p] = 0
  <2>1. 0 \in Marks
    BY DEF Marks
  <2>. QED
    BY <2>1, StencilTyped DEF StencilPut
<1> HIDE DEF clear
<1>4. PICK f : Runs(f, clear, c, narrow, L) /\ st = f[L]
  BY <1>1, InvertedRuns
<1>5. st \in [Row -> Marks] /\ Inverts(st, clear, c, narrow, L)
  BY <1>1, <1>3, <1>4, RunInverts
<1> HIDE DEF st
<1>6. Meant(c) = { p \in Row : OddUpto(c, p, L) }
  <2>1. \A p \in Row : Above(c, p) % 2 = 1 <=> OddUpto(c, p, L)
    BY <1>1 DEF Above, OddUpto, Upto, Edge
  <2>. QED
    BY <2>1 DEF Meant
<1>7. ASSUME NEW p \in Row, OddUpto(c, p, L)
      PROVE  p \in Scissored(Boundary(c))
  <2>1. Upto(c, p, L) # {}
    <3>1. SUFFICES ASSUME Upto(c, p, L) = {} PROVE FALSE
      OBVIOUS
    <3>2. Cardinality(Upto(c, p, L)) = 0
      BY <3>1, FS_EmptySet
    <3>. QED
      BY <1>7, <3>2 DEF OddUpto
  <2>2. PICK e \in 1 .. L : p \in Edge(c, e)
    BY <2>1 DEF Upto
  <2>. QED
    BY <1>1, <2>2, BoundaryCovers
<1>8. ASSUME NEW p \in Scissored(narrow)
      PROVE  st[p] = 255 <=> OddUpto(c, p, L)
  <2>1. p \in Row
    BY DEF Scissored
  <2>2. st[p] = IF OddUpto(c, p, L) THEN 255 - clear[p] ELSE clear[p]
    BY <1>5, <1>8, <2>1 DEF Inverts
  <2>3. clear[p] = 0
    BY <1>3, <1>8, <2>1
  <2>. QED
    BY <2>2, <2>3
<1>9. { p \in Scissored(narrow) : st[p] = 255 } = Scissored(s) \cap Meant(c)
  BY <1>2, <1>6, <1>7, <1>8 DEF Scissored
<1>. QED
  BY <1>5, <1>9 DEF st, clear, narrow

-----------------------------------------------------------------------------
(* Rectangles.  What the code reckons in sixteenths of a pixel, in fields  *)
(* of 12, 15 and 16 bits, is the rectangle as long as it fits them.        *)

LEMMA SignedFits ==
  ASSUME NEW n \in Int, 0 - 16384 <= n, n < 16384
  PROVE  Signed15(n) = n
<1> DEFINE half == 2 ^ 14
           all  == 2 ^ 15
<1>1. half = 16384 /\ all = 32768
  OBVIOUS
<1>2. Signed15(n) = ((n + half) % all) - half
  BY DEF Signed15
<1> HIDE DEF half, all
<1>3. half \in Int /\ all \in Int /\ all > 0
  BY <1>1
<1>4. n + half \in Int /\ 0 <= n + half /\ n + half < all
  BY <1>1, <1>3
<1>5. (n + half) % all = n + half
  BY <1>3, <1>4
<1>. QED
  BY <1>2, <1>3, <1>5

FitsFields(x, w, r) ==
  /\ x \in Int /\ 0 - 9000 <= x /\ x <= 9000
  /\ w \in Int /\ 0 - 5000 <= w /\ w <= 5000
  /\ r \in 0 .. 255

LEMMA FillIsRectangle ==
  ASSUME NEW x, NEW w, NEW r, FitsFields(x, w, r)
  PROVE  FillRect(x, w, r) = x .. x + w - 1
<1>. USE DEF FitsFields
<1> DEFINE q == IF r = 0 THEN 1 ELSE r
<1>1. q \in 1 .. 255 /\ r % 2 ^ 16 = r
  <2>1. 2 ^ 16 = 65536
    OBVIOUS
  <2>. QED
    BY <2>1
<1>2. Max({r % 2 ^ 16, 1}) = q
  <2>1. Max({r, 1}) = IF r <= 1 THEN 1 ELSE r
    BY MaxOfTwo
  <2>. QED
    BY <1>1, <2>1
<1>3. (16 * q + 8) % 2 ^ 12 = 16 * q + 8
  <2>1. 2 ^ 12 = 4096
    OBVIOUS
  <2> HIDE DEF q
  <2>. QED
    BY <1>1, <2>1
<1>5. Signed15(x + q) = x + q /\ Signed15(x + w - 1 - q) = x + w - 1 - q
  <2> HIDE DEF q
  <2>1. /\ x + q \in Int /\ 0 - 16384 <= x + q /\ x + q < 16384
        /\ x + w - 1 - q \in Int /\ 0 - 16384 <= x + w - 1 - q /\ x + w - 1 - q < 16384
    BY <1>1
  <2>. QED
    BY <2>1, SignedFits
<1>6. FillRect(x, w, r) = (16 * (x + q) - (16 * q + 8) + 15) \div 16
                            .. (16 * (x + w - 1 - q) + (16 * q + 8)) \div 16
  <2> HIDE DEF q
  <2>. QED
    BY <1>2, <1>3, <1>5 DEF FillRect
<1>7. /\ (16 * (x + q) - (16 * q + 8) + 15) \div 16 = x
      /\ (16 * (x + w - 1 - q) + (16 * q + 8)) \div 16 = x + w - 1
  <2> HIDE DEF q
  <2>. QED
    BY <1>1
<1>. QED
  BY <1>6, <1>7

(* The sizes the fields hold: rectangles and outlines on the largest       *)
(* screens, and roundings that neither exceed the line width nor become    *)
(* negative inside an outline.                                             *)
SizesFit ==
  \A c \in Commands :
    /\ c.kind \in {"rect", "rect_filled"} =>
         /\ 0 - 4096 <= c.x /\ c.x <= 4096
         /\ 1 <= c.w /\ c.w <= 4096
         /\ c.rounding <= 255
    /\ c.kind = "rect" =>
         /\ c.thickness \div 2 <= c.rounding
         /\ c.rounding - c.thickness \div 2 + c.thickness <= 255

FitsAround(r, t) ==
  /\ t \in Nat /\ r.x \in Int /\ r.w \in Int /\ r.rounding \in Nat
  /\ 0 - 4096 <= r.x /\ r.x <= 4096 /\ 1 <= r.w /\ r.w <= 4096
  /\ t \div 2 <= r.rounding /\ r.rounding - t \div 2 + t <= 255

(* Half a thickness, rounded down, is half of it or half a pixel less.     *)
LEMMA HalfOf ==
  \A n \in Nat : n \div 2 \in Nat /\ (n = 2 * (n \div 2) \/ n = 2 * (n \div 2) + 1)
  OBVIOUS

LEMMA OuterInner ==
  ASSUME NEW r, NEW t, FitsAround(r, t)
  PROVE  /\ Outer(r, t) = r.x - t \div 2 .. r.x + r.w - 1 + t \div 2
         /\ Inner(r, t) = r.x - t \div 2 + t .. r.x + r.w - 1 + t \div 2 - t
<1>. USE DEF FitsAround
<1> DEFINE h == t \div 2
<1>1. h \in Nat /\ 2 * h <= t /\ t <= 2 * h + 1
  OBVIOUS
<1>2. Outer(r, t) = FillRect(r.x - h, r.w + 2 * h, r.rounding - h + t)
  BY DEF Outer
<1>3. Inner(r, t) = FillRect(r.x - h + t, r.w + 2 * h - 2 * t, r.rounding - h)
  BY DEF Inner
<1>4. h <= r.rounding /\ r.rounding - h + t <= 255
  OBVIOUS
<1> HIDE DEF h
<1> DEFINE x == r.x
           w == r.w
           d == r.rounding
<1>5. x \in Int /\ w \in Int /\ d \in Nat /\ 0 - 4096 <= x /\ x <= 4096 /\ 1 <= w /\ w <= 4096
  OBVIOUS
<1>6. h <= d /\ d - h + t <= 255
  BY <1>4
<1> HIDE DEF x, w, d
<1>7. h <= 255 /\ t <= 255
  BY <1>1, <1>5, <1>6
<1>8. FillRect(x - h, w + 2 * h, d - h + t) = x - h .. (x - h) + (w + 2 * h) - 1
  <2> DEFINE a == x - h
             b == w + 2 * h
             e == d - h + t
  <2>1. FitsFields(a, b, e)
    BY <1>1, <1>5, <1>6, <1>7 DEF FitsFields
  <2> HIDE DEF a, b, e
  <2>2. FillRect(a, b, e) = a .. a + b - 1
    BY ONLY <2>1, FillIsRectangle
  <2>. QED
    BY <2>2 DEF a, b, e
<1>9. FillRect(x - h + t, w + 2 * h - 2 * t, d - h) = x - h + t .. (x - h + t) + (w + 2 * h - 2 * t) - 1
  <2> DEFINE a == x - h + t
             b == w + 2 * h - 2 * t
             e == d - h
  <2>1. FitsFields(a, b, e)
    BY <1>1, <1>5, <1>6, <1>7 DEF FitsFields
  <2> HIDE DEF a, b, e
  <2>2. FillRect(a, b, e) = a .. a + b - 1
    BY ONLY <2>1, FillIsRectangle
  <2>. QED
    BY <2>2 DEF a, b, e
<1>10. /\ (x - h) + (w + 2 * h) - 1 = x + w - 1 + h
       /\ (x - h + t) + (w + 2 * h - 2 * t) - 1 = x + w - 1 + h - t
  BY <1>1, <1>5
<1>. QED
  BY <1>2, <1>3, <1>8, <1>9, <1>10 DEF h, x, w, d

(* Both ways to draw an outline draw its border.                           *)
LEMMA BorderIs ==
  ASSUME NEW c, NEW p \in Int,
         c.x \in Int, c.w \in Int, c.thickness \in Nat, 1 <= c.w
  PROVE  p \in Border(c) <=>
           /\ c.x - c.thickness \div 2 <= p /\ p <= c.x + c.w - 1 + c.thickness \div 2
           /\ \/ p <  c.x - c.thickness \div 2 + c.thickness
              \/ p >  c.x + c.w - 1 + c.thickness \div 2 - c.thickness
<1> DEFINE h == c.thickness \div 2
           t == c.thickness
           x == c.x
           w == c.w
<1>1. /\ h \in Nat /\ t \in Nat /\ 2 * h <= t /\ t <= 2 * h + 1
      /\ x \in Int /\ w \in Int /\ 1 <= w
  OBVIOUS
<1>2. Border(c) = (x - h .. x - h + t - 1) \cup (x + w + h - t .. x + w + h - 1)
  BY DEF Border
<1> HIDE DEF h, t, x, w
<1>3. p \in (x - h .. x - h + t - 1) \cup (x + w + h - t .. x + w + h - 1) <=>
        /\ x - h <= p /\ p <= x + w - 1 + h
        /\ p < x - h + t \/ p > x + w - 1 + h - t
  BY <1>1
<1>. QED
  BY <1>2, <1>3 DEF h, t, x, w

LEMMA EdgesAre ==
  ASSUME NEW c, NEW p \in Int,
         c.x \in Int, c.w \in Int, c.thickness \in Nat, 1 <= c.w
  PROVE  /\ p \in Edges(c).outer <=>
              c.x - c.thickness \div 2 <= p /\ p <= c.x + c.w - 1 + c.thickness \div 2
         /\ p \in Edges(c).inner <=>
              /\ c.x - c.thickness \div 2 + c.thickness <= p
              /\ p <= c.x + c.w - 1 + c.thickness \div 2 - c.thickness
<1> DEFINE h == c.thickness \div 2
           t == c.thickness
           x == c.x
           w == c.w
           o == IF t % 2 = 1 THEN 0 ELSE 8
           x0 == 16 * x - o
           x1 == 16 * (x + w) - 16 + o
           in == - ((16 * t) \div 2)
           out == in + 16 * t
<1>1. /\ h \in Nat /\ t \in Nat /\ ((t = 2 * h /\ o = 8) \/ (t = 2 * h + 1 /\ o = 0))
      /\ x \in Int /\ w \in Int /\ 1 <= w
  OBVIOUS
<1>2. in = 0 - 8 * t
  OBVIOUS
<1>3. /\ Edges(c).outer = (x0 - out + 15) \div 16 .. (x1 + out) \div 16
      /\ Edges(c).inner = (x0 - in + 15) \div 16 .. (x1 + in) \div 16
  <2> DEFINE i == in
             b == 16 * t
             Within(n) == (x0 - n + 15) \div 16 .. (x1 + n) \div 16
  <2>1. Edges(c) = [outer |-> Within(in + 16 * t), inner |-> Within(in)]
    BY DEF Edges
  <2>. QED
    BY <2>1
<1> HIDE DEF h, t, x, w, o, in
<1>4. /\ (x0 - out + 15) \div 16 = x - h
      /\ (x1 + out) \div 16 = x + w - 1 + h
  BY <1>1, <1>2
<1>5. /\ (x0 - in + 15) \div 16 = x - h + t
      /\ (x1 + in) \div 16 = x + w - 1 + h - t
  BY <1>1, <1>2
<1> HIDE DEF x0, x1, out
<1>6. /\ x - h \in Int /\ x + w - 1 + h \in Int
      /\ x - h + t \in Int /\ x + w - 1 + h - t \in Int
  BY <1>1
<1>. QED
  BY <1>3, <1>4, <1>5, <1>6 DEF h, t, x, w

-----------------------------------------------------------------------------
(* What the commands mean.                                                 *)
LEMMA MeantIs ==
  ASSUME NEW c
  PROVE  /\ c.kind = "rect" => Meant(c) = Border(c)
         /\ c.kind \in {"rect_filled", "line"} => Meant(c) = c.x .. c.x + c.w - 1
  BY DEF Meant

LEMMA CommandTyped ==
  ASSUME NEW c \in Commands
  PROVE  /\ c.kind # "scissor" => c.colour \in Colours
         /\ c.kind # "polygon_filled" => c.x \in Int /\ c.w \in Nat
         /\ c.kind \in {"rect", "rect_filled"} => c.rounding \in Nat
         /\ c.kind = "rect" => c.thickness \in Nat
  BY NuklearAssumption DEF Colours

LEMMA HeadTyped ==
  ASSUME cmds \in Seq(Commands), cmds # <<>>
  PROVE  /\ cmds[1] \in Commands /\ Tail(cmds) \in Seq(Commands)
         /\ Len(cmds) > 1 => cmds[2] \in Commands /\ Tail(Tail(cmds)) \in Seq(Commands)
<1>1. Len(cmds) \in Nat /\ Len(cmds) > 0 /\ cmds[1] \in Commands /\ Tail(cmds) \in Seq(Commands)
  OBVIOUS
<1>2. Len(Tail(cmds)) = Len(cmds) - 1
  OBVIOUS
<1>3. Len(cmds) > 1 => cmds[2] \in Commands /\ Tail(cmds) # <<>>
  <2>1. Len(cmds) > 1 => cmds[2] \in Commands
    OBVIOUS
  <2>2. Len(cmds) > 1 => Len(Tail(cmds)) # 0 /\ Len(<<>>) = 0
    BY <1>1, <1>2
  <2>. QED
    BY <2>1, <2>2
<1>4. \A s \in Seq(Commands) : s # <<>> => Tail(s) \in Seq(Commands)
  OBVIOUS
<1>. QED
  BY <1>1, <1>3, <1>4

LEMMA DrawTyped ==
  ASSUME NEW px \in [Row -> Paints], NEW cols, NEW k \in Colours
  PROVE  Draws(cols, px, k) \in [Row -> Paints]
  BY PaintedTyped DEF Draws

LEMMA AskedTyped ==
  ASSUME NEW px \in [Row -> Paints], NEW c \in Commands, c.kind # "scissor"
  PROVE  Asked(px, c) \in [Row -> Paints]
  BY PaintedTyped, CommandTyped DEF Asked

-----------------------------------------------------------------------------
(* The invariant of the scissor.                                           *)
Inv == TypeOK /\ ScissorIsRight /\ (drawn => cmds = <<>>)

LEMMA InitInv ==
  Init => Inv
<1> SUFFICES ASSUME Init PROVE Inv
  OBVIOUS
<1>. USE DEF Init
<1>1. cmds \in Seq(Commands)
  <2>1. PICK n \in 0 .. MaxCommands : cmds \in [1 .. n -> Commands]
    OBVIOUS
  <2>2. n \in Nat
    BY NuklearAssumption
  <2>. QED
    BY <2>1, <2>2
<1>2. scissor \in Scissors /\ Scissored(scissor) = Row
  BY RowIsInt
<1>3. pixels \in [Row -> Paints] /\ stencil \in [Row -> Marks]
  <2>1. <<Background>> \in Paints /\ 0 \in Marks
    BY DEF Paints, Marks
  <2>. QED
    BY <2>1
<1>4. drawn = FALSE /\ clip = Row /\ asked = pixels
  OBVIOUS
<1>. QED
  BY <1>1, <1>2, <1>3, <1>4 DEF Inv, TypeOK, ScissorIsRight, Scissors, Paints, Marks

(* What is the same of every command: all but the scissor and what it      *)
(* draws.                                                                  *)
LEMMA DrewInv ==
  ASSUME Inv, cmds # <<>>, drawn' = FALSE,
         cmds' = Tail(cmds) \/ (Len(cmds) > 1 /\ cmds' = Tail(Tail(cmds))),
         UNCHANGED <<scissor, clip>>,
         pixels' \in [Row -> Paints], stencil' \in [Row -> Marks],
         asked' \in [Row -> Paints]
  PROVE  Inv'
<1>1. cmds' \in Seq(Commands)
  BY HeadTyped DEF Inv, TypeOK
<1>2. scissor' \in Scissors /\ clip' \subseteq Row
  BY DEF Inv, TypeOK, Scissors
<1>3. drawn = FALSE
  BY DEF Inv, TypeOK
<1>4. Scissored(scissor') = clip'
  BY <1>3 DEF Inv, ScissorIsRight
<1>5. drawn' \in BOOLEAN
  OBVIOUS
<1>. QED
  BY <1>1, <1>2, <1>4, <1>5 DEF Inv, TypeOK, ScissorIsRight, Scissors, Paints, Marks

Paintable ==
  /\ pixels \in [Row -> Paints] /\ asked \in [Row -> Paints]
  /\ stencil \in [Row -> Marks] /\ scissor \in Scissors

LEMMA InvPaintable ==
  Inv => Paintable
  BY DEF Inv, TypeOK, Paintable, Scissors, Paints, Marks

LEMMA FusesTyped ==
  ASSUME Inv, cmds # <<>>, NEW r, NEW kind, Fuses(r, kind), kind \in {"rect", "rect_filled"}
  PROVE  /\ Len(cmds) > 1 /\ cmds[2] \in Commands /\ cmds[2].kind = kind
         /\ cmds[2].x = r.x /\ cmds[2].w = r.w /\ cmds[2].rounding = r.rounding
         /\ r.colour \in Opaque /\ cmds[2].colour \in Opaque
         /\ cmds[2].colour \in Colours
<1>1. Len(cmds) > 1 /\ cmds[2].kind = kind
  BY DEF Fuses
<1>2. cmds[2] \in Commands
  BY <1>1, HeadTyped DEF Inv, TypeOK
<1>3. cmds[2].colour \in Colours
  BY <1>1, <1>2, CommandTyped
<1>. QED
  BY <1>1, <1>2, <1>3 DEF Fuses

LEMMA ScissorStep ==
  ASSUME Inv, cmds # <<>>, drawn' = FALSE, Scissor(cmds[1])
  PROVE  Inv'
<1> DEFINE c == cmds[1]
<1>1. c \in Commands /\ Tail(cmds) \in Seq(Commands)
  BY HeadTyped DEF Inv, TypeOK
<1>2. c.x \in Int /\ c.w \in Nat
  BY <1>1, CommandTyped DEF Scissor
<1>3. Clip(c) \in Rects /\ Base \in Rects
  BY <1>2, RowIsInt DEF Clip, Rects, Scissors
<1>4. /\ scissor' \in Scissors
      /\ Scissored(scissor') = Scissored(Clip(c)) \cap Row
  BY <1>3, RowIsInt, AdjustIsMeet DEF Scissor
<1>5. Scissored(Clip(c)) = Row \cap c.x .. c.x + c.w
  BY <1>2 DEF Clip, Scissored
<1>6. Scissored(scissor') = clip' /\ clip' \subseteq Row
  BY <1>4, <1>5 DEF Scissor
<1>7. cmds' \in Seq(Commands) /\ UNCHANGED <<pixels, stencil, asked>>
  BY <1>1 DEF Scissor
<1>. QED
  BY <1>4, <1>6, <1>7 DEF Inv, TypeOK, ScissorIsRight, Scissors

LEMMA FillWithOutlineStep ==
  ASSUME Inv, cmds # <<>>, drawn' = FALSE, FillWithOutline(cmds[1])
  PROVE  Inv'
<1> DEFINE r  == cmds[1]
           rs == cmds[2]
<1>1. r \in Commands /\ r.kind = "rect_filled" /\ r.colour \in Colours
  BY HeadTyped, CommandTyped DEF Inv, TypeOK, FillWithOutline
<1>2. Len(cmds) > 1 /\ rs \in Commands /\ rs.kind = "rect" /\ rs.colour \in Colours
  <2>1. Fuses(r, "rect")
    BY DEF FillWithOutline
  <2>. QED
    BY <2>1, FusesTyped
<1>3. pixels' \in [Row -> Paints]
  <2>1. Draws(Outer(r, rs.thickness), pixels, rs.colour) \in [Row -> Paints]
    BY <1>2, InvPaintable, DrawTyped DEF Paintable
  <2>. QED
    BY <1>1, <2>1, DrawTyped DEF FillWithOutline
<1>4. asked' \in [Row -> Paints]
  <2>1. Asked(asked, r) \in [Row -> Paints]
    BY <1>1, InvPaintable, AskedTyped DEF Paintable
  <2>. QED
    BY <1>2, <2>1, AskedTyped DEF FillWithOutline, DrewBoth
<1>5. UNCHANGED <<scissor, clip, stencil>> /\ cmds' = Tail(Tail(cmds))
  BY DEF FillWithOutline, DrewBoth
<1>. QED
  BY <1>2, <1>3, <1>4, <1>5, InvPaintable, DrewInv DEF Paintable

LEMMA OutlineBehindStep ==
  ASSUME Inv, cmds # <<>>, drawn' = FALSE, OutlineBehind(cmds[1])
  PROVE  Inv'
<1> DEFINE r  == cmds[1]
           rs == cmds[2]
<1>1. r \in Commands /\ r.kind = "rect" /\ r.colour \in Colours
  BY HeadTyped, CommandTyped DEF Inv, TypeOK, OutlineBehind
<1>2. Len(cmds) > 1 /\ rs \in Commands /\ rs.kind = "rect_filled" /\ rs.colour \in Colours
  <2>1. Fuses(r, "rect_filled")
    BY DEF OutlineBehind
  <2>. QED
    BY <2>1, FusesTyped
<1>3. pixels' \in [Row -> Paints]
  <2>1. Draws(Outer(r, r.thickness), pixels, rs.colour) \in [Row -> Paints]
    BY <1>2, InvPaintable, DrawTyped DEF Paintable
  <2>. QED
    BY <1>2, <2>1, DrawTyped DEF OutlineBehind
<1>4. asked' \in [Row -> Paints]
  <2>1. Asked(asked, r) \in [Row -> Paints]
    BY <1>1, InvPaintable, AskedTyped DEF Paintable
  <2>. QED
    BY <1>2, <2>1, AskedTyped DEF OutlineBehind, DrewBoth
<1>5. UNCHANGED <<scissor, clip, stencil>> /\ cmds' = Tail(Tail(cmds))
  BY DEF OutlineBehind, DrewBoth
<1>. QED
  BY <1>2, <1>3, <1>4, <1>5, InvPaintable, DrewInv DEF Paintable

(* A command drawn on its own.                                             *)
LEMMA DrewStep ==
  ASSUME Inv, cmds # <<>>, drawn' = FALSE, Drew, cmds[1].kind # "scissor",
         pixels' \in [Row -> Paints], stencil' \in [Row -> Marks]
  PROVE  Inv'
<1>1. cmds[1] \in Commands
  BY HeadTyped DEF Inv, TypeOK
<1>2. asked' \in [Row -> Paints]
  BY <1>1, InvPaintable, AskedTyped DEF Drew, Paintable
<1>. QED
  BY <1>2, DrewInv DEF Drew

LEMMA SingleStep ==
  ASSUME Inv, cmds # <<>>, drawn' = FALSE,
         \/ Fill(cmds[1]) \/ Outline(cmds[1]) \/ Polygon(cmds[1]) \/ Line(cmds[1])
  PROVE  Inv'
<1> DEFINE c == cmds[1]
<1>1. c \in Commands
  BY HeadTyped DEF Inv, TypeOK
<1>2. CASE Fill(c)
  <2>1. pixels' \in [Row -> Paints]
    BY <1>1, <1>2, CommandTyped, InvPaintable, DrawTyped DEF Fill, Paintable
  <2>2. stencil' \in [Row -> Marks] /\ Drew /\ c.kind # "scissor"
    BY <1>2, InvPaintable DEF Fill, Paintable
  <2>. QED
    BY <2>1, <2>2, DrewStep
<1>3. CASE Line(c)
  <2>1. pixels' \in [Row -> Paints]
    BY <1>1, <1>3, CommandTyped, InvPaintable, DrawTyped DEF Line, Paintable
  <2>2. stencil' \in [Row -> Marks] /\ Drew /\ c.kind # "scissor"
    BY <1>3, InvPaintable DEF Line, Paintable
  <2>. QED
    BY <2>1, <2>2, DrewStep
<1>4. CASE Outline(c)
  <2>1. Drew /\ c.kind = "rect" /\ c.colour \in Colours
    BY <1>1, <1>4, CommandTyped DEF Outline
  <2>2. pixels \in [Row -> Paints] /\ stencil \in [Row -> Marks]
    BY InvPaintable DEF Paintable
  <2>3. CASE c.thickness = 0
    <3>1. UNCHANGED <<pixels, stencil>>
      BY <1>4, <2>3 DEF Outline
    <3>. QED
      BY <2>1, <2>2, <3>1, DrewStep
  <2>4. CASE c.thickness # 0
    <3> DEFINE e   == Edges(c)
               st1 == StencilPut(stencil, e.outer \cap Scissored(scissor), 0)
               st2 == StencilPut(st1, e.inner \cap Scissored(scissor), 1)
    <3>1. /\ pixels' = Draws({ p \in e.outer \cap Row : st2[p] # 1 }, pixels, c.colour)
          /\ stencil' = st2
      BY <1>4, <2>4 DEF Outline
    <3>2. 0 \in Marks /\ 1 \in Marks
      BY DEF Marks
    <3>3. st1 \in [Row -> Marks]
      BY <2>2, <3>2, StencilTyped
    <3>4. st2 \in [Row -> Marks]
      <4> HIDE DEF st1
      <4>. QED
        BY <3>2, <3>3, StencilTyped
    <3> HIDE DEF st2
    <3>5. pixels' \in [Row -> Paints]
      BY <2>1, <2>2, <3>1, DrawTyped
    <3>. QED
      BY <2>1, <3>1, <3>4, <3>5, DrewStep
  <2>. QED
    BY <2>3, <2>4
<1>5. CASE Polygon(c)
  <2>1. Drew /\ c.kind = "polygon_filled" /\ c.colour \in Colours
    BY <1>1, <1>5, CommandTyped DEF Polygon
  <2>2. /\ pixels \in [Row -> Paints] /\ stencil \in [Row -> Marks]
        /\ scissor \in Scissors
    BY InvPaintable DEF Paintable
  <2> DEFINE narrow == Adjust(Boundary(c), scissor)
             st     == Inverted(StencilPut(stencil, Scissored(narrow), 0), c, narrow)
  <2>3. st \in [Row -> Marks]
    BY <1>1, <2>1, <2>2, PolygonDraws
  <2>4. /\ pixels' = Painted(pixels, { p \in Scissored(narrow) : st[p] = 255 }, c.colour)
        /\ stencil' = st
    BY <1>5 DEF Polygon
  <2> HIDE DEF narrow, st
  <2>5. pixels' \in [Row -> Paints]
    BY <2>1, <2>2, <2>4, PaintedTyped
  <2>. QED
    BY <2>1, <2>3, <2>4, <2>5, DrewStep
<1>. QED
  BY <1>2, <1>3, <1>4, <1>5

LEMMA NextInv ==
  Inv /\ [Next]_vars => Inv'
<1> SUFFICES ASSUME Inv, [Next]_vars PROVE Inv'
  OBVIOUS
<1>1. CASE Command
  <2>1. cmds # <<>> /\ drawn' = FALSE
    BY <1>1 DEF Command
  <2>2. \/ Scissor(cmds[1]) \/ FillWithOutline(cmds[1]) \/ OutlineBehind(cmds[1])
        \/ Fill(cmds[1]) \/ Outline(cmds[1]) \/ Polygon(cmds[1]) \/ Line(cmds[1])
    BY <1>1 DEF Command
  <2>. QED
    BY <2>1, <2>2, ScissorStep, FillWithOutlineStep, OutlineBehindStep, SingleStep
<1>2. CASE End
  <2>1. scissor' \in Scissors /\ Scissored(scissor') = Row
    BY <1>2, RowIsInt DEF End
  <2>2. drawn' = TRUE /\ cmds' = <<>> /\ UNCHANGED <<cmds, pixels, stencil, clip, asked>>
    BY <1>2 DEF End
  <2>. QED
    BY <2>1, <2>2 DEF Inv, TypeOK, ScissorIsRight, Scissors
<1>3. CASE UNCHANGED vars
  BY <1>3 DEF vars, Inv, TypeOK, ScissorIsRight, Scissored
<1>. QED
  BY <1>1, <1>2, <1>3 DEF Next

(* In every state every variable has its type: no scissor is of negative   *)
(* size, and the stencil holds what outlines and polygons put there.       *)
THEOREM TypeCorrect == Spec => []TypeOK
<1>1. Inv => TypeOK
  BY DEF Inv
<1>. QED
  BY <1>1, InitInv, NextInv, PTL DEF Spec

(* The scissor of Esd_Scissor.c is at every command the screen cut to what *)
(* Nuklear last asked for, and after the frame the whole screen.           *)
THEOREM ScissorRight == Spec => []ScissorIsRight
<1>1. Inv => ScissorIsRight
  BY DEF Inv
<1>. QED
  BY <1>1, InitInv, NextInv, PTL DEF Spec

-----------------------------------------------------------------------------
(* What is painted is what was asked for.                                  *)
Agree == \A p \in Row \ behind : pixels[p] = asked[p]

LEMMA ClipIsScissor ==
  ASSUME Inv, cmds # <<>>
  PROVE  Scissored(scissor) = clip
  BY DEF Inv, TypeOK, ScissorIsRight

LEMMA RectFits ==
  ASSUME SizesFit, NEW c \in Commands, c.kind \in {"rect", "rect_filled"}
  PROVE  /\ FitsFields(c.x, c.w, c.rounding)
         /\ c.x \in Int /\ c.w \in Int /\ c.rounding \in Nat
         /\ 0 - 4096 <= c.x /\ c.x <= 4096 /\ 1 <= c.w /\ c.w <= 4096
<1>1. c.x \in Int /\ c.w \in Nat /\ c.rounding \in Nat
  BY CommandTyped
<1>2. 0 - 4096 <= c.x /\ c.x <= 4096 /\ 1 <= c.w /\ c.w <= 4096 /\ c.rounding <= 255
  BY DEF SizesFit
<1>. QED
  BY <1>1, <1>2 DEF FitsFields

LEMMA OutlineFits ==
  ASSUME SizesFit, NEW c \in Commands, c.kind = "rect"
  PROVE  /\ c.thickness \in Nat /\ c.thickness \div 2 <= c.rounding
         /\ c.rounding - c.thickness \div 2 + c.thickness <= 255
  BY CommandTyped DEF SizesFit

(* A command that draws, clipped, the columns it means.                    *)
LEMMA DrewAgrees ==
  ASSUME Inv, cmds # <<>>, Agree, Drew, NEW cols,
         pixels' = Painted(pixels, cols, cmds[1].colour),
         \A p \in Row : p \in cols <=> p \in clip /\ p \in Meant(cmds[1])
  PROVE  Agree'
<1>1. ASSUME NEW p \in Row \ behind'
      PROVE  pixels'[p] = asked'[p]
  <2>1. pixels[p] = asked[p] /\ p \in Row
    BY <1>1 DEF Agree, Drew
  <2>2. asked' = Painted(asked, clip \cap Meant(cmds[1]), cmds[1].colour)
    BY DEF Drew, Asked
  <2>3. p \in cols <=> p \in clip \cap Meant(cmds[1])
    BY <2>1
  <2> DEFINE A == clip \cap Meant(cmds[1])
             k == cmds[1].colour
  <2> HIDE DEF A, k
  <2>4. Painted(pixels, cols, k)[p] = Painted(asked, A, k)[p]
    BY <2>1, <2>3, PaintedAt DEF A
  <2>. QED
    BY <2>2, <2>4 DEF A, k
<1>. QED
  BY <1>1, RowIsInt DEF Agree, Row

LEMMA FillAgrees ==
  ASSUME SizesFit, Inv, cmds # <<>>, Agree, Fill(cmds[1])
  PROVE  Agree'
<1> DEFINE r    == cmds[1]
           cols == FillRect(r.x, r.w, r.rounding) \cap Scissored(scissor)
<1>1. r \in Commands /\ r.kind = "rect_filled" /\ Drew
  BY HeadTyped DEF Inv, TypeOK, Fill
<1>2. pixels' = Painted(pixels, cols, r.colour)
  BY DEF Fill, Draws
<1>3. FillRect(r.x, r.w, r.rounding) = Meant(r)
  <2>1. FillRect(r.x, r.w, r.rounding) = r.x .. r.x + r.w - 1
    BY <1>1, RectFits, FillIsRectangle
  <2>. QED
    BY <1>1, <2>1, MeantIs
<1>4. \A p \in Row : p \in cols <=> p \in clip /\ p \in Meant(r)
  BY <1>3, ClipIsScissor
<1> HIDE DEF cols
<1>. QED
  BY <1>1, <1>2, <1>4, DrewAgrees

LEMMA LineAgrees ==
  ASSUME Inv, cmds # <<>>, Agree, Line(cmds[1])
  PROVE  Agree'
<1> DEFINE r    == cmds[1]
           cols == (r.x .. r.x + r.w - 1) \cap Scissored(scissor)
<1>1. r.kind = "line" /\ Drew
  BY DEF Line
<1>2. pixels' = Painted(pixels, cols, r.colour)
  BY DEF Line, Draws
<1>3. r.x .. r.x + r.w - 1 = Meant(r)
  BY <1>1, MeantIs
<1>4. \A p \in Row : p \in cols <=> p \in clip /\ p \in Meant(r)
  BY <1>3, ClipIsScissor
<1> HIDE DEF cols
<1>. QED
  BY <1>1, <1>2, <1>4, DrewAgrees

LEMMA PolygonAgrees ==
  ASSUME Inv, cmds # <<>>, Agree, Polygon(cmds[1])
  PROVE  Agree'
<1> DEFINE c      == cmds[1]
           narrow == Adjust(Boundary(c), scissor)
           st     == Inverted(StencilPut(stencil, Scissored(narrow), 0), c, narrow)
           cols   == { p \in Scissored(narrow) : st[p] = 255 }
<1>1. c \in Commands /\ c.kind = "polygon_filled" /\ Drew
  BY HeadTyped DEF Inv, TypeOK, Polygon
<1>2. pixels' = Painted(pixels, cols, c.colour)
  BY DEF Polygon
<1>3. cols = Scissored(scissor) \cap Meant(c)
  BY <1>1, InvPaintable, PolygonDraws DEF Paintable
<1> HIDE DEF cols
<1>4. \A p \in Row : p \in cols <=> p \in clip /\ p \in Meant(c)
  BY <1>3, ClipIsScissor
<1>. QED
  BY <1>1, <1>2, <1>4, DrewAgrees

LEMMA OutlineAgrees ==
  ASSUME SizesFit, Inv, cmds # <<>>, Agree, Outline(cmds[1])
  PROVE  Agree'
<1> DEFINE c == cmds[1]
           e == Edges(c)
           t == c.thickness
<1>1. c \in Commands /\ c.kind = "rect" /\ Drew
  BY HeadTyped DEF Inv, TypeOK, Outline
<1>2. c.x \in Int /\ c.w \in Int /\ 1 <= c.w /\ t \in Nat
  BY <1>1, RectFits, OutlineFits
<1>3. \A p \in Row : p \in Meant(c) <=> p \in e.outer /\ p \notin e.inner
  <2> TAKE p \in Row
  <2>1. p \in Int
    BY RowIsInt
  <2>2. Meant(c) = Border(c)
    BY <1>1, MeantIs
  <2> DEFINE h == t \div 2
             x == c.x
             w == c.w
  <2>3. p \in Border(c) <=> /\ x - h <= p /\ p <= x + w - 1 + h
                            /\ p < x - h + t \/ p > x + w - 1 + h - t
    BY <1>2, <2>1, BorderIs
  <2>4. /\ p \in e.outer <=> x - h <= p /\ p <= x + w - 1 + h
        /\ p \in e.inner <=> x - h + t <= p /\ p <= x + w - 1 + h - t
    BY <1>2, <2>1, EdgesAre
  <2>5. h \in Int /\ x \in Int /\ w \in Int /\ t \in Int
    BY <1>2
  <2> HIDE DEF h, x, w, t, e
  <2>. QED
    BY <2>1, <2>2, <2>3, <2>4, <2>5
<1>4. CASE t = 0
  <2>1. pixels' = pixels
    BY <1>4 DEF Outline
  <2>2. ASSUME NEW p \in Row
        PROVE  p \notin Meant(c)
    <3>1. p \in Int
      BY RowIsInt
    <3>2. Meant(c) = Border(c) /\ t \div 2 = 0
      BY <1>1, <1>4, MeantIs
    <3> HIDE DEF c
    <3>. QED
      BY <1>2, <1>4, <3>1, <3>2, BorderIs
  <2>3. pixels \in [Row -> Paints]
    BY InvPaintable DEF Paintable
  <2>4. pixels' = Painted(pixels, {}, c.colour)
    BY <2>1, <2>3 DEF Painted
  <2>. QED
    BY <1>1, <2>2, <2>4, DrewAgrees
<1>5. CASE t # 0
  <2> DEFINE st1  == StencilPut(stencil, e.outer \cap Scissored(scissor), 0)
             st2  == StencilPut(st1, e.inner \cap Scissored(scissor), 1)
             cols == { p \in e.outer \cap Row : st2[p] # 1 } \cap Scissored(scissor)
  <2>1. pixels' = Painted(pixels, cols, c.colour)
    BY <1>5 DEF Outline, Draws
  <2>2. ASSUME NEW p \in Row
        PROVE  p \in cols <=> p \in clip /\ p \in Meant(c)
    <3>1. Scissored(scissor) = clip
      BY ClipIsScissor
    <3>2. st1[p] = IF p \in e.outer \cap clip THEN 0 ELSE stencil[p]
      BY <3>1 DEF StencilPut
    <3>3. st2[p] = IF p \in e.inner \cap clip THEN 1 ELSE st1[p]
      BY <3>1 DEF StencilPut
    <3> HIDE DEF e, st1, st2
    <3>4. p \in cols <=> p \in e.outer /\ st2[p] # 1 /\ p \in clip
      BY <3>1
    <3>. QED
      BY <1>3, <3>2, <3>3, <3>4 DEF e
  <2> HIDE DEF cols
  <2>. QED
    BY <1>1, <2>1, <2>2, DrewAgrees
<1>. QED
  BY <1>4, <1>5

LEMMA FillWithOutlineAgrees ==
  ASSUME SizesFit, Inv, cmds # <<>>, Agree, FillWithOutline(cmds[1])
  PROVE  Agree'
<1> DEFINE r   == cmds[1]
           rs  == cmds[2]
           t   == rs.thickness
           out == Outer(r, t)
           in  == Inner(r, t)
<1>0. Fuses(r, "rect")
  BY DEF FillWithOutline
<1>1. r \in Commands /\ r.kind = "rect_filled"
  BY HeadTyped DEF Inv, TypeOK, FillWithOutline
<1>2. /\ rs \in Commands /\ rs.kind = "rect"
      /\ rs.x = r.x /\ rs.w = r.w /\ rs.rounding = r.rounding
      /\ r.colour \in Opaque /\ rs.colour \in Opaque
  BY <1>0, FusesTyped
<1>3. /\ r.x \in Int /\ r.w \in Int /\ r.rounding \in Nat
      /\ 0 - 4096 <= r.x /\ r.x <= 4096 /\ 1 <= r.w /\ r.w <= 4096
  BY <1>1, RectFits
<1>4. t \in Nat /\ t \div 2 <= r.rounding /\ r.rounding - t \div 2 + t <= 255
  BY <1>2, OutlineFits
<1>5. /\ out = r.x - t \div 2 .. r.x + r.w - 1 + t \div 2
      /\ in = r.x - t \div 2 + t .. r.x + r.w - 1 + t \div 2 - t
  <2>1. FitsAround(r, t)
    BY <1>3, <1>4 DEF FitsAround
  <2>. QED
    BY ONLY <2>1, OuterInner
<1>6. Meant(r) = r.x .. r.x + r.w - 1 /\ Meant(rs) = Border(rs)
  BY <1>1, <1>2, MeantIs
<1>7. ASSUME NEW p \in Row
      PROVE  /\ p \in in <=> p \in Meant(r) /\ p \notin Meant(rs)
             /\ p \in out <=> p \in Meant(r) \/ p \in Meant(rs)
  <2> DEFINE h == t \div 2
             x == r.x
             w == r.w
  <2>1. p \in Int
    BY RowIsInt
  <2>2. p \in Meant(rs) <=> /\ x - h <= p /\ p <= x + w - 1 + h
                            /\ p < x - h + t \/ p > x + w - 1 + h - t
    <3>1. rs.x = x /\ rs.w = w /\ rs.thickness = t /\ Meant(rs) = Border(rs)
      BY <1>2, <1>6
    <3>2. rs.x \in Int /\ rs.w \in Int /\ rs.thickness \in Nat /\ 1 <= rs.w
      BY <1>2, <1>3, <1>4
    <3>3. p \in Border(rs) <=>
            /\ rs.x - rs.thickness \div 2 <= p /\ p <= rs.x + rs.w - 1 + rs.thickness \div 2
            /\ \/ p <  rs.x - rs.thickness \div 2 + rs.thickness
               \/ p >  rs.x + rs.w - 1 + rs.thickness \div 2 - rs.thickness
      <4> HIDE DEF rs
      <4>. QED
        BY <3>2, <2>1, BorderIs
    <3>. QED
      BY <3>1, <3>3
  <2>3. p \in Meant(r) <=> x <= p /\ p <= x + w - 1
    BY <1>3, <1>6, <2>1
  <2>4. p \in out <=> x - h <= p /\ p <= x + w - 1 + h
    BY <1>3, <1>4, <1>5, <2>1
  <2>5. p \in in <=> x - h + t <= p /\ p <= x + w - 1 + h - t
    BY <1>3, <1>4, <1>5, <2>1
  <2>6. /\ h \in Nat /\ t \in Nat /\ (t = 2 * h \/ t = 2 * h + 1)
        /\ x \in Int /\ w \in Int /\ 1 <= w
    <3>1. h \in Nat /\ (t = 2 * h \/ t = 2 * h + 1)
      BY ONLY <1>4, HalfOf, Zenon
    <3>2. t \in Nat /\ x \in Int /\ w \in Int /\ 1 <= w
      BY ONLY <1>3, <1>4
    <3>. QED
      BY ONLY <3>1, <3>2
  <2> HIDE DEF h, x, w, t, in, out
  <2>. QED
    BY ONLY <2>1, <2>2, <2>3, <2>4, <2>5, <2>6
<1>8. ASSUME NEW p \in Row \ behind'
      PROVE  pixels'[p] = asked'[p]
  <2>1. p \in Row /\ pixels[p] = asked[p]
    BY <1>8 DEF Agree, FillWithOutline
  <2>2. Scissored(scissor) = clip
    BY ClipIsScissor
  <2> DEFINE px1 == Painted(pixels, out \cap clip, rs.colour)
             px2 == Painted(px1, in \cap clip, r.colour)
             as1 == Painted(asked, clip \cap Meant(r), r.colour)
             as2 == Painted(as1, clip \cap Meant(rs), rs.colour)
  <2>3. pixels' = px2
    BY <2>2 DEF FillWithOutline, Draws
  <2>4. asked' = as2
    BY DEF FillWithOutline, DrewBoth, Asked
  <2>5. px1[p] = IF p \in out \cap clip THEN <<rs.colour>> ELSE pixels[p]
    BY <1>2, <2>1, PaintedOpaque
  <2>6. as1[p] = IF p \in clip \cap Meant(r) THEN <<r.colour>> ELSE asked[p]
    BY <1>2, <2>1, PaintedOpaque
  <2> HIDE DEF px1, as1
  <2>7. px2[p] = IF p \in in \cap clip THEN <<r.colour>> ELSE px1[p]
    BY <1>2, <2>1, PaintedOpaque
  <2>8. as2[p] = IF p \in clip \cap Meant(rs) THEN <<rs.colour>> ELSE as1[p]
    BY <1>2, <2>1, PaintedOpaque
  <2> HIDE DEF px2, as2, in, out
  <2>. QED
    BY <1>7, <2>1, <2>3, <2>4, <2>5, <2>6, <2>7, <2>8
<1>. QED
  BY <1>8, RowIsInt DEF Agree, Row

LEMMA OutlineBehindAgrees ==
  ASSUME SizesFit, Inv, cmds # <<>>, Agree, OutlineBehind(cmds[1])
  PROVE  Agree'
<1> DEFINE r   == cmds[1]
           rs  == cmds[2]
           t   == r.thickness
           out == Outer(r, t)
           fil == FillRect(rs.x, rs.w, rs.rounding)
<1>0. Fuses(r, "rect_filled")
  BY DEF OutlineBehind
<1>1. r \in Commands /\ r.kind = "rect"
  BY HeadTyped DEF Inv, TypeOK, OutlineBehind
<1>2. /\ rs \in Commands /\ rs.kind = "rect_filled"
      /\ rs.x = r.x /\ rs.w = r.w /\ rs.rounding = r.rounding
  BY <1>0, FusesTyped
<1>3. /\ r.x \in Int /\ r.w \in Int /\ r.rounding \in Nat
      /\ 0 - 4096 <= r.x /\ r.x <= 4096 /\ 1 <= r.w /\ r.w <= 4096
  BY <1>1, RectFits
<1>4. t \in Nat /\ t \div 2 <= r.rounding /\ r.rounding - t \div 2 + t <= 255
  BY <1>1, OutlineFits
<1>5. out = r.x - t \div 2 .. r.x + r.w - 1 + t \div 2
  <2>1. FitsAround(r, t)
    BY <1>3, <1>4 DEF FitsAround
  <2>. QED
    BY ONLY <2>1, OuterInner
<1>6. fil = r.x .. r.x + r.w - 1
  BY <1>2, RectFits, FillIsRectangle
<1>7. Meant(rs) = r.x .. r.x + r.w - 1 /\ Meant(r) = Border(r)
  BY <1>1, <1>2, MeantIs
<1>8. ASSUME NEW p \in Row, p \notin out
      PROVE  p \notin fil /\ p \notin Meant(r) /\ p \notin Meant(rs)
  <2> DEFINE h == t \div 2
             x == r.x
             w == r.w
  <2>1. p \in Int
    BY RowIsInt
  <2>2. p \in Meant(r) => x - h <= p /\ p <= x + w - 1 + h
    BY <1>3, <1>4, <1>7, <2>1, BorderIs
  <2>3. /\ p \in Meant(rs) <=> x <= p /\ p <= x + w - 1
        /\ p \in fil <=> x <= p /\ p <= x + w - 1
    BY <1>3, <1>6, <1>7, <2>1
  <2>4. p \in out <=> x - h <= p /\ p <= x + w - 1 + h
    BY <1>3, <1>4, <1>5, <2>1
  <2>5. h \in Nat /\ x \in Int /\ w \in Int
    BY <1>3, <1>4
  <2> HIDE DEF h, x, w, t, out, fil
  <2>. QED
    BY <1>8, <2>1, <2>2, <2>3, <2>4, <2>5
<1>9. ASSUME NEW p \in Row \ behind'
      PROVE  pixels'[p] = asked'[p]
  <2>1. p \in Row /\ pixels[p] = asked[p] /\ p \notin out
    BY <1>9 DEF Agree, OutlineBehind
  <2>2. p \notin fil /\ p \notin Meant(r) /\ p \notin Meant(rs)
    BY <1>8, <2>1
  <2> DEFINE px1 == Painted(pixels, out \cap Scissored(scissor), rs.colour)
             px2 == Painted(px1, fil \cap Scissored(scissor), rs.colour)
             as1 == Painted(asked, clip \cap Meant(r), r.colour)
             as2 == Painted(as1, clip \cap Meant(rs), rs.colour)
  <2>3. pixels' = px2
    BY DEF OutlineBehind, Draws
  <2>4. asked' = as2
    BY DEF OutlineBehind, DrewBoth, Asked
  <2>5. px1[p] = pixels[p]
    <3> HIDE DEF out
    <3>. QED
      BY <2>1, PaintedBeside
  <2>6. as1[p] = asked[p]
    BY <2>1, <2>2, PaintedBeside
  <2> HIDE DEF px1, as1
  <2>7. px2[p] = px1[p]
    <3> HIDE DEF fil
    <3>. QED
      BY <2>1, <2>2, PaintedBeside
  <2>8. as2[p] = as1[p]
    BY <2>1, <2>2, PaintedBeside
  <2> HIDE DEF px2, as2
  <2>. QED
    BY <2>1, <2>3, <2>4, <2>5, <2>6, <2>7, <2>8
<1>. QED
  BY <1>9, RowIsInt DEF Agree, Row

LEMMA NextAgrees ==
  ASSUME SizesFit, Inv, Agree, [Next]_vars
  PROVE  Agree'
<1>1. CASE Command
  <2>1. cmds # <<>>
    BY <1>1 DEF Command
  <2>2. \/ Scissor(cmds[1]) \/ FillWithOutline(cmds[1]) \/ OutlineBehind(cmds[1])
        \/ Fill(cmds[1]) \/ Outline(cmds[1]) \/ Polygon(cmds[1]) \/ Line(cmds[1])
    BY <1>1 DEF Command
  <2>3. CASE Scissor(cmds[1])
    <3>1. UNCHANGED <<pixels, asked, behind>>
      BY <2>3 DEF Scissor
    <3>. QED
      BY <3>1 DEF Agree
  <2>. QED
    BY <2>1, <2>2, <2>3, FillWithOutlineAgrees, OutlineBehindAgrees, FillAgrees,
       OutlineAgrees, PolygonAgrees, LineAgrees
<1>2. CASE End
  BY <1>2 DEF End, Agree
<1>3. CASE UNCHANGED vars
  BY <1>3 DEF vars, Agree
<1>. QED
  BY <1>1, <1>2, <1>3 DEF Next

(* Fusing rectangles with their outlines, what the stencil is left at and  *)
(* what polygons do to the scissor does not show: every pixel has what     *)
(* Nuklear asked for, in that order, clipped as it asked.  This is for     *)
(* rectangles of sizes the engine's fields hold, and outlines at most      *)
(* about twice as thick as the rounding.                                   *)
THEOREM PaintsAsAsked == SizesFit => (Spec => []PaintedAsAsked)
<1> DEFINE I == SizesFit /\ Inv /\ Agree
<1>1. SizesFit /\ Init => I
  <2>1. Init => Agree
    BY DEF Init, Agree
  <2>. QED
    BY <2>1, InitInv
<1>2. I /\ [Next]_vars => I'
  <2>1. SizesFit => SizesFit'
    BY DEF SizesFit
  <2>. QED
    BY <2>1, NextInv, NextAgrees
<1>3. I => PaintedAsAsked
  BY DEF Agree, PaintedAsAsked
<1> HIDE DEF I
<1>. QED
  BY <1>1, <1>2, <1>3, PTL DEF Spec
=============================================================================
