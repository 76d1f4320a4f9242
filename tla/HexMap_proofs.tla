---------------------------- MODULE HexMap_proofs ----------------------------
(***************************************************************************)
(* What the grid and its distances are, for a map of any size: the facts   *)
(* that the proofs about the searches and about the battle rest on.        *)
(***************************************************************************)
EXTENDS HexMap, FiniteSetTheorems, SequenceTheorems, NaturalsInduction, WellFoundedInduction, TLAPS

\* Induction, for a set of numbers instead of a property of them.
LEMMA SetInduction ==
    ASSUME NEW S, 0 \in S, \A n \in Nat : n \in S => n + 1 \in S
    PROVE  Nat \subseteq S
<1> DEFINE T == Nat \ S
<1> SUFFICES ASSUME T # {} PROVE FALSE
    OBVIOUS
<1>1. IsWellFoundedOn(OpToRel(<, Nat), Nat)
    BY NatLessThanWellFounded
<1>2. \E x \in T : \A y \in T : ~ (<<y, x>> \in OpToRel(<, Nat))
    BY <1>1, WFMin
<1>3. PICK x \in T : \A y \in T : ~ (y < x)
    BY <1>2 DEF OpToRel
<1>4. x - 1 \in Nat /\ x - 1 < x /\ x - 1 + 1 = x
    OBVIOUS
<1> QED
    BY <1>3, <1>4

----------------------------------------------------------------------------
(* The grid. *)

LEMMA MapSizeType == MapSize \in Nat \ {0}
BY HexMapAssumption DEF MapSize, HexMapAssumption

\* The rows above and below an even row are odd, and the other way round.
LEMMA RowParity == ASSUME NEW y \in Int
                   PROVE  /\ y % 2 \in {0, 1}
                          /\ (y + 1) % 2 = 1 - (y % 2)
                          /\ (y - 1) % 2 = 1 - (y % 2)
OBVIOUS

\* The neighbours of a tile, without the tables of directions.
Adjacent(x, y, a, b) ==
    \/ b = y /\ (a = x + 1 \/ a = x - 1)
    \/ (b = y + 1 \/ b = y - 1) /\ IF y % 2 = 0 THEN a = x \/ a = x + 1 ELSE a = x \/ a = x - 1

LEMMA NeighborsAreAdjacent ==
    ASSUME NEW x \in Int, NEW y \in Int, NEW a \in Int, NEW b \in Int
    PROVE  <<a, b>> \in {NeighborCoord(<<x, y>>, n) : n \in Direction} <=> Adjacent(x, y, a, b)
<1>1. Direction = {1, 2, 3, 4, 5, 6}
    BY DEF Direction
<1>2. ASSUME NEW n \in Direction
      PROVE  <<a, b>> = NeighborCoord(<<x, y>>, n) <=> a = x + Dx(y)[n] /\ b = y + Dy[n]
    <2>1. NeighborCoord(<<x, y>>, n) = <<x + Dx(y)[n], y + Dy[n]>>
        BY DEF NeighborCoord
    <2> QED
        BY <2>1
<1>3. <<a, b>> \in {NeighborCoord(<<x, y>>, n) : n \in Direction}
        <=> \E n \in {1, 2, 3, 4, 5, 6} : a = x + Dx(y)[n] /\ b = y + Dy[n]
    BY <1>1, <1>2
<1>4. Dy[1] = 0 /\ Dy[2] = 1 /\ Dy[3] = 1 /\ Dy[4] = 0 /\ Dy[5] = -1 /\ Dy[6] = -1
    BY DEF Dy
<1>5. CASE y % 2 = 0
    <2>1. /\ Dx(y)[1] = 1 /\ Dx(y)[2] = 1 /\ Dx(y)[3] = 0
          /\ Dx(y)[4] = -1 /\ Dx(y)[5] = 0 /\ Dx(y)[6] = 1
        BY <1>5 DEF Dx
    <2> QED
        BY <1>3, <1>4, <1>5, <2>1 DEF Adjacent
<1>6. CASE y % 2 # 0
    <2>1. /\ Dx(y)[1] = 1 /\ Dx(y)[2] = 0 /\ Dx(y)[3] = -1
          /\ Dx(y)[4] = -1 /\ Dx(y)[5] = -1 /\ Dx(y)[6] = 0
        BY <1>6 DEF Dx
    <2> QED
        BY <1>3, <1>4, <1>6, <2>1 DEF Adjacent
<1> QED
    BY <1>5, <1>6

LEMMA AdjacentSymmetric ==
    ASSUME NEW x \in Int, NEW y \in Int, NEW a \in Int, NEW b \in Int, Adjacent(x, y, a, b)
    PROVE  Adjacent(a, b, x, y)
<1>1. y % 2 \in {0, 1} /\ (y + 1) % 2 = 1 - (y % 2) /\ (y - 1) % 2 = 1 - (y % 2)
    BY RowParity
<1>2. CASE b = y
    BY <1>2 DEF Adjacent
<1>3. CASE b = y + 1
    BY <1>1, <1>3 DEF Adjacent
<1>4. CASE b = y - 1
    BY <1>1, <1>4 DEF Adjacent
<1> QED
    BY <1>2, <1>3, <1>4 DEF Adjacent

\* Every edge of map->edges can be taken both ways, although the rows are shifted.
LEMMA EdgesSymmetric == \A t, u \in Tile : u \in Edges[t] => t \in Edges[u]
<1> SUFFICES ASSUME NEW t \in Tile, NEW u \in Tile, u \in Edges[t]
             PROVE  t \in Edges[u]
    OBVIOUS
<1>1. PICK x \in Int, y \in Int : t = <<x, y>>
    BY HexMapAssumption DEF Tile, HexMapAssumption
<1>2. PICK a \in Int, b \in Int : u = <<a, b>>
    BY HexMapAssumption DEF Tile, HexMapAssumption
<1>3. <<a, b>> \in {NeighborCoord(<<x, y>>, n) : n \in Direction}
    BY <1>1, <1>2 DEF Edges
<1>4. <<x, y>> \in {NeighborCoord(<<a, b>>, n) : n \in Direction}
    BY <1>3, NeighborsAreAdjacent, AdjacentSymmetric
<1> QED
    BY <1>1, <1>2, <1>4 DEF Edges

----------------------------------------------------------------------------
(* The layers of a search. *)

\* One layer from the one before it.
Grow(near, free) == near \cup (free \cap UNION {Edges[t] : t \in near})

LEMMA GrowType == ASSUME NEW near \in SUBSET Tile, NEW free PROVE Grow(near, free) \in SUBSET Tile
BY DEF Grow, Edges

\* s is the list of the first n + 1 layers.
LayersUpTo(s, n, from, free) ==
    /\ s \in Seq(SUBSET Tile) /\ Len(s) = n + 1
    /\ s[1] = {from}
    /\ \A k \in 1..n : s[k + 1] = Grow(s[k], free)

LEMMA OneMoreLayer ==
    ASSUME NEW from \in Tile, NEW free, NEW n \in Nat, NEW s, LayersUpTo(s, n, from, free)
    PROVE  LayersUpTo(Append(s, Grow(s[n + 1], free)), n + 1, from, free)
<1> DEFINE next == Grow(s[n + 1], free)
<1>1. s \in Seq(SUBSET Tile) /\ Len(s) = n + 1 /\ s[n + 1] \in SUBSET Tile
    <2>1. s \in Seq(SUBSET Tile) /\ Len(s) = n + 1 /\ n + 1 \in 1..Len(s)
        BY DEF LayersUpTo
    <2> QED
        BY <2>1, ElementOfSeq
<1>2. next \in SUBSET Tile
    BY <1>1, GrowType
<1> HIDE DEF next
<1>3. /\ Append(s, next) \in Seq(SUBSET Tile) /\ Len(Append(s, next)) = n + 2
      /\ \A i \in 1..(n + 1) : Append(s, next)[i] = s[i]
      /\ Append(s, next)[n + 2] = next
    BY <1>1, <1>2, AppendProperties
<1>4. ASSUME NEW k \in 1..(n + 1)
      PROVE  Append(s, next)[k + 1] = Grow(Append(s, next)[k], free)
    <2>1. CASE k = n + 1
        BY <1>3, <2>1 DEF next
    <2>2. CASE k # n + 1
        <3>1. k \in 1..n /\ k + 1 \in 1..(n + 1)
            BY <2>2
        <3> QED
            BY <1>3, <3>1 DEF LayersUpTo
    <2> QED
        BY <2>1, <2>2
<1>5. Append(s, next)[1] = {from}
    BY <1>3 DEF LayersUpTo
<1>6. LayersUpTo(Append(s, next), n + 1, from, free)
    BY <1>3, <1>4, <1>5 DEF LayersUpTo
<1> QED
    BY <1>6 DEF next

LEMMA FirstLayer ==
    ASSUME NEW from \in Tile, NEW free PROVE LayersUpTo(<<{from}>>, 0, from, free)
BY DEF LayersUpTo

\* The recursion has a solution: one that goes as far as n can be taken further by a step.
LEMMA LayersExist ==
    ASSUME NEW from \in Tile, NEW free, NEW m \in Nat
    PROVE  \E g \in [0..m -> Seq(SUBSET Tile)] :
              /\ g[0] = <<{from}>>
              /\ \A k \in 1..m : g[k] = Append(g[k - 1], Grow(g[k - 1][k], free))
<1> DEFINE Solution(g, n) ==
              /\ g[0] = <<{from}>>
              /\ \A k \in 1..n : g[k] = Append(g[k - 1], Grow(g[k - 1][k], free))
              /\ \A k \in 0..n : LayersUpTo(g[k], k, from, free)
           S == {n \in Nat : \E g \in [0..n -> Seq(SUBSET Tile)] : Solution(g, n)}
<1>1. 0 \in S
    <2> DEFINE g == [k \in 0..0 |-> <<{from}>>]
    <2>1. LayersUpTo(<<{from}>>, 0, from, free)
        BY FirstLayer
    <2>2. g \in [0..0 -> Seq(SUBSET Tile)]
        BY <2>1 DEF LayersUpTo
    <2>3. Solution(g, 0)
        BY <2>1
    <2> QED
        BY <2>2, <2>3
<1>2. ASSUME NEW n \in Nat, n \in S PROVE n + 1 \in S
    <2>1. PICK g \in [0..n -> Seq(SUBSET Tile)] : Solution(g, n)
        BY <1>2
    <2> DEFINE next == Append(g[n], Grow(g[n][n + 1], free))
               h == [k \in 0..(n + 1) |-> IF k = n + 1 THEN next ELSE g[k]]
    <2>2. LayersUpTo(next, n + 1, from, free)
        BY <2>1, OneMoreLayer
    <2>3. h \in [0..(n + 1) -> Seq(SUBSET Tile)]
        BY <2>2 DEF LayersUpTo
    <2>4. \A k \in 0..n : h[k] = g[k]
        OBVIOUS
    <2>5. h[n + 1] = next
        OBVIOUS
    <2> HIDE DEF h
    <2>6. ASSUME NEW k \in 1..(n + 1)
          PROVE  h[k] = Append(h[k - 1], Grow(h[k - 1][k], free))
        <3>1. CASE k = n + 1
            BY <2>4, <2>5, <3>1
        <3>2. CASE k # n + 1
            <4>1. k \in 1..n /\ k - 1 \in 0..n /\ k \in 0..n
                BY <3>2
            <4> QED
                BY <2>1, <2>4, <4>1
        <3> QED
            BY <3>1, <3>2
    <2>7. ASSUME NEW k \in 0..(n + 1) PROVE LayersUpTo(h[k], k, from, free)
        <3>1. CASE k = n + 1
            BY <2>2, <2>5, <3>1
        <3>2. CASE k # n + 1
            BY <2>1, <2>4, <3>2
        <3> QED
            BY <3>1, <3>2
    <2>8. h[0] = <<{from}>>
        BY <2>1, <2>4
    <2>9. Solution(h, n + 1)
        BY <2>6, <2>7, <2>8
    <2> HIDE DEF Solution
    <2> QED
        BY <2>3, <2>9
<1> HIDE DEF S
<1>3. m \in S
    BY <1>1, <1>2, SetInduction
<1> QED
    BY <1>3 DEF S

\* Layers() is the list of MapSize + 1 layers that it is meant to be.
LEMMA LayersAre ==
    ASSUME NEW from \in Tile, NEW free
    PROVE  LayersUpTo(Layers(from, free), MapSize, from, free)
<1> DEFINE Step(f) == [k \in 0..MapSize |->
                          IF k = 0 THEN <<{from}>>
                          ELSE Append(f[k - 1],
                                      f[k - 1][k] \cup (free \cap UNION {Edges[t] : t \in f[k - 1][k]}))]
           near == CHOOSE f : f = Step(f)
<1>1. Layers(from, free) = near[MapSize]
    BY DEF Layers
<1>2. \E f : f = Step(f)
    <2>1. PICK g \in [0..MapSize -> Seq(SUBSET Tile)] :
              /\ g[0] = <<{from}>>
              /\ \A k \in 1..MapSize : g[k] = Append(g[k - 1], Grow(g[k - 1][k], free))
        BY MapSizeType, LayersExist
    <2>2. ASSUME NEW k \in 0..MapSize PROVE g[k] = Step(g)[k]
        <3>1. CASE k = 0
            BY <2>1, <3>1
        <3>2. CASE k # 0
            <4>1. k \in 1..MapSize
                BY <3>2, MapSizeType
            <4> QED
                BY <2>1, <3>2, <4>1 DEF Grow
        <3> QED
            BY <3>1, <3>2
    <2>3. g = Step(g)
        BY <2>2
    <2> QED
        BY <2>3
<1>3. near = Step(near)
    BY <1>2
<1>4. near[0] = <<{from}>>
    <2>1. 0 \in 0..MapSize
        BY MapSizeType
    <2>2. Step(near)[0] = <<{from}>>
        BY <2>1
    <2> QED
        BY <1>3, <2>2
<1>5. ASSUME NEW k \in 1..MapSize
      PROVE  near[k] = Append(near[k - 1], Grow(near[k - 1][k], free))
    <2>1. k \in 0..MapSize /\ k # 0
        OBVIOUS
    <2>2. Step(near)[k] = Append(near[k - 1], Grow(near[k - 1][k], free))
        BY <2>1 DEF Grow
    <2> QED
        BY <1>3, <2>2
<1> HIDE DEF near
<1> DEFINE S == {n \in Nat : n <= MapSize => LayersUpTo(near[n], n, from, free)}
<1>6. 0 \in S
    BY <1>4, FirstLayer
<1>7. ASSUME NEW n \in Nat, n \in S PROVE n + 1 \in S
    <2> SUFFICES ASSUME n + 1 <= MapSize PROVE LayersUpTo(near[n + 1], n + 1, from, free)
        OBVIOUS
    <2>1. LayersUpTo(near[n], n, from, free)
        BY <1>7, MapSizeType
    <2>2. near[n + 1] = Append(near[n], Grow(near[n][n + 1], free))
        BY <1>5, MapSizeType
    <2> QED
        BY <2>1, <2>2, OneMoreLayer
<1> HIDE DEF S
<1>8. MapSize \in S
    BY <1>6, <1>7, SetInduction, MapSizeType
<1> QED
    BY <1>1, <1>8 DEF S

----------------------------------------------------------------------------
(* Distances. *)

\* Layers only grow, and over free tiles.
LEMMA LayersGrow ==
    ASSUME NEW s, NEW n \in Nat, NEW from \in Tile, NEW free, LayersUpTo(s, n, from, free)
    PROVE  /\ DOMAIN s = 1..(n + 1)
           /\ \A k \in 1..(n + 1) : /\ s[k] \in SUBSET Tile
                                    /\ from \in s[k]
                                    /\ s[k] \subseteq free \cup {from}
           /\ \A k \in 1..n : s[k] \subseteq s[k + 1]
<1>1. /\ DOMAIN s = 1..(n + 1) /\ s[1] = {from}
      /\ \A k \in 1..n : s[k + 1] = Grow(s[k], free)
      /\ \A k \in 1..(n + 1) : s[k] \in SUBSET Tile
    BY ElementOfSeq, LenProperties DEF LayersUpTo
<1> DEFINE S == {k \in Nat : k < n + 1 => from \in s[k + 1] /\ s[k + 1] \subseteq free \cup {from}}
<1>2. 0 \in S
    BY <1>1
<1>3. ASSUME NEW k \in Nat, k \in S PROVE k + 1 \in S
    <2> SUFFICES ASSUME k + 1 < n + 1
                 PROVE  from \in s[k + 2] /\ s[k + 2] \subseteq free \cup {from}
        OBVIOUS
    <2>1. from \in s[k + 1] /\ s[k + 1] \subseteq free \cup {from}
        BY <1>3
    <2>2. k + 1 \in 1..n
        OBVIOUS
    <2>3. s[k + 2] = Grow(s[k + 1], free)
        BY <1>1, <2>2
    <2> QED
        BY <2>1, <2>3 DEF Grow
<1> HIDE DEF S
<1>4. Nat \subseteq S
    BY <1>2, <1>3, SetInduction
<1>5. ASSUME NEW k \in 1..(n + 1) PROVE from \in s[k] /\ s[k] \subseteq free \cup {from}
    <2>1. k - 1 \in S /\ k - 1 < n + 1
        BY <1>4
    <2> QED
        BY <2>1 DEF S
<1> QED
    BY <1>1, <1>5 DEF Grow

\* The distances of a search: it finds the tile it starts from at distance 0, every other
\* tile it finds is free and further away, and the tiles next to its start are found.
LEMMA DistanceFacts ==
    ASSUME NEW from \in Tile, NEW free
    PROVE  LET D == Distances(from, free)
           IN  /\ DOMAIN D \subseteq Tile
               /\ DOMAIN D \subseteq free \cup {from}
               /\ from \in DOMAIN D
               /\ \A t \in DOMAIN D : D[t] \in Nat /\ (D[t] = 0 <=> t = from)
<1> DEFINE L == Layers(from, free)
           D == Distances(from, free)
           Before(t) == {k \in DOMAIN L : t \notin L[k]}
<1> HIDE DEF L
<1>0. LayersUpTo(L, MapSize, from, free)
    BY LayersAre DEF L
<1>1. LayersUpTo(L, MapSize, from, free) /\ MapSize \in Nat \ {0}
    BY <1>0, MapSizeType
<1>2. /\ DOMAIN L = 1..(MapSize + 1)
      /\ \A k \in 1..(MapSize + 1) : /\ L[k] \in SUBSET Tile
                                     /\ from \in L[k]
                                     /\ L[k] \subseteq free \cup {from}
    BY <1>1, LayersGrow, Zenon
<1>3. L[1] = {from}
    BY <1>1 DEF LayersUpTo
<1>4. D = [t \in L[MapSize + 1] |-> Cardinality(Before(t))]
    BY DEF Distances, L
<1> HIDE DEF D
<1>5. DOMAIN D = L[MapSize + 1] /\ MapSize + 1 \in 1..(MapSize + 1)
    BY <1>1, <1>4
<1>6. ASSUME NEW t \in DOMAIN D PROVE D[t] \in Nat /\ (D[t] = 0 <=> t = from)
    <2>1. D[t] = Cardinality(Before(t))
        BY <1>4, <1>5
    <2>2. IsFiniteSet(Before(t))
        <3>1. IsFiniteSet(1..(MapSize + 1))
            BY <1>1, FS_Interval
        <3>2. Before(t) \in SUBSET (1..(MapSize + 1))
            BY <1>2
        <3> HIDE DEF Before
        <3> QED
            BY <3>1, <3>2, FS_Subset
    <2>3. Before(t) = {} <=> t = from
        BY <1>1, <1>2, <1>3
    <2> HIDE DEF Before
    <2>4. Cardinality(Before(t)) \in Nat /\ (Cardinality(Before(t)) = 0 <=> Before(t) = {})
        BY <2>2, FS_CardinalityType, FS_EmptySet
    <2> QED
        BY <2>1, <2>3, <2>4
<1>7. /\ DOMAIN D \subseteq Tile /\ DOMAIN D \subseteq free \cup {from} /\ from \in DOMAIN D
    BY <1>2, <1>5
<1> QED
    BY <1>6, <1>7 DEF D

\* A layer holds the layers before it.
LEMMA LayersNest ==
    ASSUME NEW s, NEW n \in Nat, NEW from \in Tile, NEW free, LayersUpTo(s, n, from, free),
           NEW i \in 1..(n + 1), NEW j \in i..(n + 1)
    PROVE  s[i] \subseteq s[j]
<1> DEFINE S == {d \in Nat : i + d <= n + 1 => s[i] \subseteq s[i + d]}
<1>1. 0 \in S
    OBVIOUS
<1>2. ASSUME NEW d \in Nat, d \in S PROVE d + 1 \in S
    <2> SUFFICES ASSUME i + (d + 1) <= n + 1 PROVE s[i] \subseteq s[i + (d + 1)]
        OBVIOUS
    <2>1. s[i] \subseteq s[i + d]
        BY <1>2
    <2>2. i + d \in 1..n /\ i + (d + 1) = (i + d) + 1
        OBVIOUS
    <2>3. s[i + d] \subseteq s[(i + d) + 1]
        BY <2>2, LayersGrow, Zenon
    <2> QED
        BY <2>1, <2>2, <2>3
<1> HIDE DEF S
<1>3. j - i \in S
    BY <1>1, <1>2, SetInduction
<1> QED
    BY <1>3 DEF S

\* The distance of a tile is the number of the layer that it comes with.
LEMMA DistanceOfLayer ==
    ASSUME NEW from \in Tile, NEW free, NEW m \in 0..MapSize, NEW t,
           t \in Layers(from, free)[m + 1],
           m = 0 \/ t \notin Layers(from, free)[m]
    PROVE  t \in DOMAIN Distances(from, free) /\ Distances(from, free)[t] = m
<1> DEFINE L == Layers(from, free)
           Before == {k \in DOMAIN L : t \notin L[k]}
<1> HIDE DEF L
<1>1. LayersUpTo(L, MapSize, from, free) /\ MapSize \in Nat \ {0}
    BY LayersAre, MapSizeType DEF L
<1>2. DOMAIN L = 1..(MapSize + 1)
    BY <1>1, LayersGrow, Zenon
<1>3. t \in L[m + 1] /\ (m = 0 \/ t \notin L[m])
    BY DEF L
<1>4. \A i \in 1..(MapSize + 1) : \A j \in i..(MapSize + 1) : L[i] \subseteq L[j]
    BY <1>1, LayersNest, Zenon
<1>5. \A k \in (m + 1)..(MapSize + 1) : t \in L[k]
    BY <1>1, <1>3, <1>4
<1>6. \A k \in 1..m : t \notin L[k]
    <2> SUFFICES ASSUME NEW k \in 1..m PROVE t \notin L[k]
        OBVIOUS
    <2>1. k \in 1..(MapSize + 1) /\ m \in k..(MapSize + 1) /\ m # 0
        BY <1>1
    <2> QED
        BY <1>3, <1>4, <2>1
<1>7. Before = 1..m
    BY <1>1, <1>2, <1>5, <1>6
<1>8. Cardinality(1..m) = m
    <2>1. m \in Int /\ 1 \in Int /\ m - 1 + 1 = m /\ (1 > m => m = 0)
        BY <1>1
    <2>2. Cardinality(1..m) = IF 1 > m THEN 0 ELSE m - 1 + 1
        BY <2>1, FS_Interval
    <2> QED
        BY <2>1, <2>2
<1>9. t \in L[MapSize + 1]
    BY <1>1, <1>5
<1>10. Distances(from, free) = [x \in L[MapSize + 1] |-> Cardinality({k \in DOMAIN L : x \notin L[k]})]
    BY DEF Distances, L
<1> QED
    BY <1>7, <1>8, <1>9, <1>10

LEMMA LayerOfDistance ==
    ASSUME NEW from \in Tile, NEW free, NEW t \in DOMAIN Distances(from, free)
    PROVE  /\ Distances(from, free)[t] \in 0..MapSize
           /\ t \in Layers(from, free)[Distances(from, free)[t] + 1]
<1> DEFINE L == Layers(from, free)
           S == {k \in Nat : k <= MapSize => t \notin L[k + 1]}
<1>1. t \in L[MapSize + 1] /\ MapSize \in Nat
    BY MapSizeType DEF Distances
<1> HIDE DEF L
<1>2. MapSize \notin S
    BY <1>1
<1>3. \E m \in 0..MapSize : t \in L[m + 1] /\ (m = 0 \/ t \notin L[m])
    <2> SUFFICES ASSUME \A m \in 0..MapSize : t \in L[m + 1] => m # 0 /\ t \in L[m]
                 PROVE  FALSE
        OBVIOUS
    <2>1. 0 \in S
        BY <1>1
    <2>2. ASSUME NEW k \in Nat, k \in S PROVE k + 1 \in S
        <3> SUFFICES ASSUME k + 1 <= MapSize, t \in L[(k + 1) + 1] PROVE FALSE
            OBVIOUS
        <3>1. t \in L[k + 1]
            BY <1>1
        <3> QED
            BY <1>1, <2>2, <3>1
    <2> HIDE DEF S
    <2>3. MapSize \in S
        BY <1>1, <2>1, <2>2, SetInduction
    <2> QED
        BY <1>2, <2>3
<1>4. PICK m \in 0..MapSize : t \in L[m + 1] /\ (m = 0 \/ t \notin L[m])
    BY <1>3
<1>5. Distances(from, free)[t] = m
    BY <1>4, DistanceOfLayer DEF L
<1> QED
    BY <1>4, <1>5 DEF L
=============================================================================
