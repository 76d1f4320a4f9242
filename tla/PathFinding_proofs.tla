-------------------------- MODULE PathFinding_proofs --------------------------
(***************************************************************************)
(* Proofs about the searches, for a map of any size and any obstacles: the *)
(* frontier loses no tile, no assertion fails, and every answer is what    *)
(* the meaning of distance says it is.                                     *)
(***************************************************************************)
EXTENDS PathFinding, HexMap_proofs

----------------------------------------------------------------------------
(* The inductive invariant. *)

\* The layers that the answers are measured by.
Layer(k) == Layers(start, Tile \ blocked)[k + 1]

InFrontier(t) == \E i \in 1..Len(frontier) : frontier[i] = t

\* A tile whose edges have all been looked at: what they lead to has been found, and not
\* more than a step further away.
Closed(t) == \A u \in Edges[t] \ blocked : u \in Visited /\ depth[u] <= depth[t] + 1

\* came_from leads from every tile that was found back to the start, a step at a time.
Tree ==
    /\ cameFrom[start] = None /\ depth[start] = 0
    /\ \A t \in Tile \ {start} : cameFrom[t] # None
    /\ \A t \in Visited \ {start} : /\ cameFrom[t] \in Visited /\ t \notin blocked
                                    /\ t \in Edges[cameFrom[t]]
                                    /\ depth[t] = depth[cameFrom[t]] + 1

\* A tile is found no further away than there are tiles, and in the layer of its depth.
Layered ==
    \A t \in Visited : /\ depth[t] < MapSize /\ t \in Layer(depth[t])
                       /\ \A j \in 0..depth[t] : \E u \in Visited : depth[u] = j

\* The frontier holds tiles once, in the order of their depths, and no tile was found more
\* than a step further away than any of them.
Ordered ==
    \A i \in 1..Len(frontier) :
        /\ frontier[i] \in Visited
        /\ \A t \in Visited : depth[t] <= depth[frontier[i]] + 1
        /\ \A j \in 1..Len(frontier) :
              i < j => frontier[i] # frontier[j] /\ depth[frontier[i]] <= depth[frontier[j]]

\* Before a tile is consumed, every tile was found and waits, or is closed; what was
\* consumed is counted.
Consuming ==
    /\ pc \in {"call", "consume", "measure"} => \A t \in Visited : InFrontier(t) \/ Closed(t)
    /\ pc \in {"call", "consume"} => rounds + Len(frontier) = Cardinality(Visited)
    /\ pc = "call" => frontier = <<start>> /\ Visited = {start}

\* While the edges of a tile are looked at, it is the only one that neither waits nor is
\* closed, and the frontier is no nearer to the start than it.
Expanding ==
    pc = "edges" =>
        /\ current \in Visited /\ ~InFrontier(current)
        /\ \A i \in 1..Len(frontier) : depth[current] <= depth[frontier[i]]
        /\ \A t \in Visited : depth[t] <= depth[current] + 1
        /\ \A t \in Visited : t = current \/ InFrontier(t) \/ Closed(t)
        /\ \A n \in 1..(edge - 1) :
              LET u == NeighborCoord(current, n)
              IN  u \in Tile \ blocked => u \in Visited /\ depth[u] <= depth[current] + 1
        /\ rounds + 1 + Len(frontier) = Cardinality(Visited)

\* What is asked for: a search that goes on has not come to it.
Asked ==
    /\ pc \in {"call", "consume", "edges"} => goal = target /\ path = <<>> /\ distance = 0
    /\ (pc \in {"consume", "edges", "walk"} /\ mode # "FLOWFIELD") => target \in Tile \ {start}
    /\ mode = "FIND" => goal = target
    /\ (pc \in {"consume", "edges"} /\ mode = "FIND_NEIGHBOR") =>
          /\ goal \notin Visited
          /\ \A t \in Visited : InFrontier(t) \/ (pc = "edges" /\ t = current) \/ goal \notin Edges[t]
          /\ pc = "edges" => \A n \in 1..(edge - 1) : NeighborCoord(current, n) # goal

\* A walk back from a tile that was found follows came_from; a walk back from one that was
\* not ends at once. The answer is decided before it begins.
Walking ==
    pc = "walk" =>
        /\ mode # "FLOWFIELD" /\ goal \in Tile
        /\ Len(path) = distance /\ rounds = distance
        /\ IF goal \in Visited
           THEN /\ here \in Visited /\ depth[here] + distance = depth[goal]
                /\ \A i \in 1..distance : path[i] \in Visited \ {start}
                /\ \A i \in 1..distance : cameFrom[path[i]] = IF i = distance THEN here ELSE path[i + 1]
                /\ IF distance = 0 THEN here = goal ELSE path[1] = goal
                /\ mode = "FIND_NEIGHBOR" => goal \in Edges[target]
                /\ Answer = <<"OK", depth[goal]>>
           ELSE /\ (here = goal /\ distance = 0) \/ (here = NotVisited /\ distance = 1)
                /\ Answer = <<"INCOMPLETE_FLOWFIELD", 0>>

\* The same for the distance of a tile in a flow field.
Measuring ==
    pc = "measure" =>
        /\ mode = "FLOWFIELD" /\ target \in Tile
        /\ IF target \in Visited
           THEN /\ \/ here = None /\ distance = depth[target]
                   \/ here \in Visited /\ distance + 1 + depth[here] = depth[target]
                /\ Answer = <<"OK", depth[target]>>
           ELSE here = NotVisited /\ distance = 0 /\ Answer = <<"ERROR", NoDistance>>

SearchInv == Tree /\ Layered /\ Ordered /\ Consuming /\ Expanding /\ Asked

PathInv == PathTypeOK /\ NothingFails /\ SearchInv /\ Walking /\ Measuring /\ AnswerIsExact /\ PathIsWalk

----------------------------------------------------------------------------
(* Counting tiles. *)

LEMMA TileFinite == IsFiniteSet(Tile) /\ Cardinality(Tile) = MapSize
<1>1. W \in Nat \ {0} /\ H \in Nat \ {0}
    BY HexMapAssumption DEF HexMapAssumption
<1>2. IsFiniteSet(0..(W - 1)) /\ Cardinality(0..(W - 1)) = W
    BY <1>1, FS_Interval
<1>3. IsFiniteSet(0..(H - 1)) /\ Cardinality(0..(H - 1)) = H
    BY <1>1, FS_Interval
<1> DEFINE X == 0..(W - 1)
           Y == 0..(H - 1)
<1> HIDE DEF X, Y
<1>4. IsFiniteSet(X \X Y) /\ Cardinality(X \X Y) = Cardinality(X) * Cardinality(Y)
    <2>1. IsFiniteSet(X) /\ IsFiniteSet(Y)
        BY <1>2, <1>3 DEF X, Y
    <2> QED
        BY <2>1, FS_Product, Zenon
<1> QED
    BY <1>2, <1>3, <1>4, Zenon DEF Tile, MapSize, X, Y

LEMMA SubsetOfTile ==
    ASSUME NEW S, S \subseteq Tile
    PROVE  /\ IsFiniteSet(S) /\ Cardinality(S) \in Nat /\ Cardinality(S) <= MapSize
           /\ \A t \in Tile : t \notin S => /\ Cardinality(S) < MapSize
                                            /\ Cardinality(S \cup {t}) = Cardinality(S) + 1
<1>1. IsFiniteSet(S) /\ Cardinality(S) <= MapSize
    BY TileFinite, FS_Subset
<1>2. Cardinality(S) \in Nat /\ MapSize \in Nat
    BY <1>1, FS_CardinalityType, MapSizeType
<1>3. ASSUME NEW t \in Tile, t \notin S
      PROVE  Cardinality(S) < MapSize /\ Cardinality(S \cup {t}) = Cardinality(S) + 1
    <2>1. Cardinality(S) # MapSize
        BY <1>3, TileFinite, FS_Subset
    <2>2. Cardinality(S \cup {t}) = Cardinality(S) + 1
        BY <1>1, <1>3, FS_AddElement
    <2> QED
        BY <1>1, <1>2, <2>1, <2>2
<1> QED
    BY <1>1, <1>2, <1>3

\* Where tiles have all the depths up to d, there are more tiles than d.
LEMMA MoreTilesThanDepth ==
    ASSUME NEW S \in SUBSET Tile, NEW f \in [Tile -> Nat], NEW d \in Nat,
           \A j \in 0..d : \E u \in S : f[u] = j
    PROVE  d + 1 <= Cardinality(S)
<1> DEFINE T == {u \in S : f[u] \in 0..d}
           g == [u \in T |-> f[u]]
<1>1. IsFiniteSet(S) /\ IsFiniteSet(T) /\ Cardinality(T) <= Cardinality(S)
      /\ Cardinality(T) \in Nat /\ Cardinality(S) \in Nat
    <2>1. IsFiniteSet(S) /\ Cardinality(S) \in Nat
        BY SubsetOfTile
    <2>2. T \in SUBSET S
        OBVIOUS
    <2> HIDE DEF T
    <2>3. IsFiniteSet(T) /\ Cardinality(T) <= Cardinality(S)
        BY <2>1, <2>2, FS_Subset
    <2>4. Cardinality(T) \in Nat
        BY <2>3, FS_CardinalityType
    <2> QED
        BY <2>1, <2>3, <2>4
<1>2. g \in Surjection(T, 0..d)
    <2>1. g \in [T -> 0..d]
        OBVIOUS
    <2>2. ASSUME NEW j \in 0..d PROVE \E u \in T : g[u] = j
        <3>1. PICK u \in S : f[u] = j
            OBVIOUS
        <3>2. u \in T /\ g[u] = j
            BY <3>1
        <3> QED
            BY <3>2
    <2> HIDE DEF g, T
    <2> QED
        BY <2>1, <2>2 DEF Surjection
<1> HIDE DEF g, T
<1>3. Cardinality(0..d) <= Cardinality(T)
    BY <1>1, <1>2, FS_Surjection
<1>4. Cardinality(0..d) = d + 1
    BY FS_Interval
<1> QED
    BY <1>1, <1>3, <1>4

----------------------------------------------------------------------------
(* What the search has found when it knows enough. *)

LEMMA LayerFacts ==
    ASSUME start \in Tile
    PROVE  /\ Layer(0) = {start}
           /\ \A k \in 0..(MapSize - 1) : Layer(k + 1) = Grow(Layer(k), Tile \ blocked)
           /\ \A k \in 0..MapSize : Layer(k) \in SUBSET Tile
<1> DEFINE L == Layers(start, Tile \ blocked)
<1>1. LayersUpTo(L, MapSize, start, Tile \ blocked)
    BY LayersAre
<1> HIDE DEF L
<1>2. \A k \in 0..(MapSize - 1) : k + 1 \in 1..MapSize
    BY MapSizeType
<1>3. \A k \in 1..(MapSize + 1) : L[k] \in SUBSET Tile
    BY <1>1, MapSizeType, LayersGrow, Zenon
<1>4. \A k \in 0..MapSize : k + 1 \in 1..(MapSize + 1)
    BY MapSizeType
<1>5. \A k : Layer(k) = L[k + 1]
    BY DEF Layer, L
<1>6. L[1] = {start} /\ \A k \in 1..MapSize : L[k + 1] = Grow(L[k], Tile \ blocked)
    BY <1>1, Zenon DEF LayersUpTo
<1>7. Layer(0) = {start}
    BY <1>5, <1>6
<1>8. ASSUME NEW k \in 0..(MapSize - 1) PROVE Layer(k + 1) = Grow(Layer(k), Tile \ blocked)
    BY <1>2, <1>5, <1>6
<1>9. ASSUME NEW k \in 0..MapSize PROVE Layer(k) \in SUBSET Tile
    BY <1>3, <1>4, <1>5
<1> QED
    BY <1>7, <1>8, <1>9

\* Where every tile less than h away is closed, the tiles at most h away have been found,
\* and at the depth that is their distance.
LEMMA Flood ==
    ASSUME start \in Tile, depth \in [Tile -> Nat], Tree, Layered, start \in Visited,
           NEW h \in 0..MapSize,
           \A t \in Visited : depth[t] < h => Closed(t)
    PROVE  LET D == Distances(start, Tile \ blocked)
           IN  /\ \A t \in Visited : depth[t] <= h => t \in DOMAIN D /\ D[t] = depth[t]
               /\ \A t \in DOMAIN D : D[t] <= h => t \in Visited /\ D[t] = depth[t]
<1> DEFINE D == Distances(start, Tile \ blocked)
           Near(k) == {t \in Visited : depth[t] <= k}
           S == {k \in Nat : k <= h => Layer(k) \subseteq Near(k)}
<1>1. MapSize \in Nat /\ h \in Nat /\ h <= MapSize
    BY MapSizeType
<1>2. 0 \in S
    BY LayerFacts DEF Tree
<1>3. ASSUME NEW k \in Nat, k \in S PROVE k + 1 \in S
    <2> SUFFICES ASSUME k + 1 <= h, NEW u \in Layer(k + 1)
                 PROVE  u \in Visited /\ depth[u] <= k + 1
        OBVIOUS
    <2>1. k \in 0..(MapSize - 1) /\ k < h
        BY <1>1
    <2>2. Layer(k) \subseteq Near(k)
        BY <1>3, <1>1, <2>1
    <2>3. Layer(k + 1) = Grow(Layer(k), Tile \ blocked)
        BY <2>1, LayerFacts
    <2>4. CASE u \in Layer(k)
        BY <2>2, <2>4 DEF Visited
    <2>5. CASE u \notin Layer(k)
        <3>1. PICK t \in Layer(k) : u \in Edges[t] \ blocked
            BY <2>3, <2>5 DEF Grow
        <3>2. t \in Visited /\ depth[t] <= k /\ depth[t] \in Nat
            BY <2>2, <3>1 DEF Visited
        <3>3. Closed(t)
            BY <2>1, <3>2
        <3>4. u \in Visited /\ depth[u] <= depth[t] + 1
            BY <3>1, <3>3 DEF Closed
        <3> QED
            BY <3>2, <3>4 DEF Visited
    <2> QED
        BY <2>4, <2>5
<1> HIDE DEF S
<1>4. ASSUME NEW k \in 0..h PROVE Layer(k) \subseteq Near(k)
    <2>1. k \in S
        BY <1>1, <1>2, <1>3, SetInduction
    <2> QED
        BY <2>1 DEF S
<1>5. ASSUME NEW t \in Visited, depth[t] <= h
      PROVE  t \in DOMAIN D /\ D[t] = depth[t]
    <2>1. depth[t] \in 0..MapSize /\ t \in Layer(depth[t]) /\ depth[t] \in Nat
        BY <1>1 DEF Layered, Visited
    <2>2. ASSUME depth[t] # 0 PROVE t \notin Layer(depth[t] - 1)
        <3>1. depth[t] - 1 \in 0..h /\ ~(depth[t] <= depth[t] - 1)
            BY <1>5, <2>1, <2>2
        <3> QED
            BY <1>4, <3>1
    <2>3. t \in Layers(start, Tile \ blocked)[depth[t] + 1]
        BY <2>1 DEF Layer
    <2>4. depth[t] = 0 \/ t \notin Layers(start, Tile \ blocked)[depth[t]]
        <3>1. depth[t] - 1 + 1 = depth[t]
            BY <2>1
        <3> QED
            BY <2>2, <3>1 DEF Layer
    <2> QED
        BY <2>1, <2>3, <2>4, DistanceOfLayer
<1>6. ASSUME NEW t \in DOMAIN D, D[t] <= h
      PROVE  t \in Visited /\ D[t] = depth[t]
    <2>1. D[t] \in 0..MapSize /\ t \in Layer(D[t])
        BY LayerOfDistance DEF Layer
    <2>2. D[t] \in 0..h
        BY <1>1, <1>6, <2>1
    <2>3. t \in Near(D[t])
        BY <1>4, <2>1, <2>2
    <2>4. t \in Visited /\ depth[t] <= h /\ depth[t] \in Nat
        BY <1>1, <2>2, <2>3 DEF Visited
    <2> QED
        BY <1>5, <2>4
<1> QED
    BY <1>5, <1>6

----------------------------------------------------------------------------
(* Answers. *)

\* The answers, one kind of request at a time.
LEMMA AnswerCases ==
    ASSUME start \in Tile, mode \in {"FIND", "FIND_NEIGHBOR", "FLOWFIELD"}
    PROVE  LET D == Distances(start, Tile \ blocked)
               beside == DOMAIN D \cap Edges[target]
           IN  /\ mode = "FLOWFIELD" =>
                     Answer = IF target \in DOMAIN D THEN <<"OK", D[target]>> ELSE <<"ERROR", NoDistance>>
               /\ mode # "FLOWFIELD" /\ target \notin Tile => Answer = <<"ERROR", 0>>
               /\ mode # "FLOWFIELD" /\ target = start => Answer = <<"OK", 0>>
               /\ mode = "FIND" /\ target \in Tile \ {start} =>
                     Answer = IF target \in DOMAIN D THEN <<"OK", D[target]>> ELSE <<"INCOMPLETE_FLOWFIELD", 0>>
               /\ mode = "FIND_NEIGHBOR" /\ target \in Tile \ {start} =>
                     Answer = IF beside = {} THEN <<"INCOMPLETE_FLOWFIELD", 0>>
                              ELSE <<"OK", Min({D[t] : t \in beside})>>
<1>1. CASE mode = "FLOWFIELD"
    BY <1>1, Zenon DEF Answer
<1>2. CASE mode = "FIND"
    <2>1. mode # "FLOWFIELD" /\ mode # "FIND_NEIGHBOR"
        BY <1>2
    <2>2. target \notin Tile => target # start
        OBVIOUS
    <2> QED
        BY <1>2, <2>1, <2>2, Zenon DEF Answer
<1>3. CASE mode = "FIND_NEIGHBOR"
    <2>1. mode # "FLOWFIELD" /\ mode # "FIND"
        BY <1>3
    <2>2. target \notin Tile => target # start
        OBVIOUS
    <2> QED
        BY <1>3, <2>1, <2>2, Zenon DEF Answer
<1> QED
    BY <1>1, <1>2, <1>3

\* The answer is decided by the request and the target.
LEMMA AnswerStays == UNCHANGED <<request, target>> => Answer' = Answer
<1> SUFFICES ASSUME UNCHANGED <<request, target>> PROVE Answer' = Answer
    OBVIOUS
<1>1. mode' = mode /\ blocked' = blocked /\ start' = start /\ target' = target
    BY DEF request
<1> QED
    BY <1>1, Zenon DEF Answer

\* What a step that leaves the search alone keeps.
LEMMA SearchStays ==
    ASSUME Tree, Layered, Ordered, UNCHANGED <<request, search>>
    PROVE  /\ Tree' /\ Layered' /\ Ordered' /\ Visited' = Visited
           /\ \A t : InFrontier(t)' = InFrontier(t) /\ Closed(t)' = Closed(t)
           /\ UNCHANGED <<mode, blocked, start, frontier, cameFrom, current, edge, depth>>
<1>1. UNCHANGED <<mode, blocked, start, frontier, cameFrom, current, edge, depth>>
    BY DEF request, search
<1>2. Visited' = Visited
    BY <1>1 DEF Visited
<1>3. ASSUME NEW t PROVE InFrontier(t)' = InFrontier(t) /\ Closed(t)' = Closed(t)
    BY <1>1, <1>2 DEF InFrontier, Closed
<1>4. Tree'
    BY <1>1, <1>2 DEF Tree
<1>5. Layered'
    BY <1>1, <1>2 DEF Layered, Layer
<1>6. Ordered'
    BY <1>1, <1>2 DEF Ordered
<1> QED
    BY <1>1, <1>2, <1>3, <1>4, <1>5, <1>6

\* The least of some numbers.
LEMMA MinIs ==
    ASSUME NEW S \in SUBSET Int, NEW x \in S, \A y \in S : x <= y
    PROVE  Min(S) = x
<1>1. \E z \in S : \A y \in S : z <= y
    OBVIOUS
<1>2. PICK z \in S : z = Min(S) /\ \A y \in S : z <= y
    BY <1>1 DEF Min
<1>3. x <= z /\ z <= x
    BY <1>2
<1> QED
    BY <1>2, <1>3

----------------------------------------------------------------------------
(* The beginning of a call. *)

LEMMA InitInv == Init => PathInv
<1> SUFFICES ASSUME Init PROVE PathInv
    OBVIOUS
<1>1. MapSize \in Nat \ {0} /\ NotVisited \notin Tile /\ None \notin Tile /\ NotVisited # None
    BY MapSizeType, PathAssumption DEF PathAssumption
<1>2. /\ mode \in {"FIND", "FIND_NEIGHBOR", "FLOWFIELD"} /\ blocked \in SUBSET Tile
      /\ start \in Tile /\ target \in Tile \cup {OffMap} /\ goal = target /\ pc = "call"
      /\ frontier = <<start>> /\ current = start /\ edge = 1 /\ rounds = 0 /\ here = start
      /\ path = <<>> /\ distance = 0 /\ result = "PENDING"
      /\ cameFrom = [t \in Tile |-> IF t = start THEN None ELSE NotVisited]
      /\ depth = [t \in Tile |-> 0]
    BY DEF Init
<1>3. /\ frontier \in Seq(Tile) /\ Len(frontier) = 1 /\ frontier[1] = start
      /\ path \in Seq(Tile)
    BY <1>2
<1>4. Visited = {start}
    BY <1>1, <1>2 DEF Visited
<1>5. PathTypeOK
    BY <1>1, <1>2, <1>3 DEF PathTypeOK
<1>6. Tree
    BY <1>1, <1>2, <1>4 DEF Tree
<1>7. Layered
    BY <1>1, <1>2, <1>4, LayerFacts DEF Layered
<1>8. Ordered
    BY <1>2, <1>3, <1>4 DEF Ordered
<1>9. Consuming
    <2>1. Cardinality(Visited) = 1
        BY <1>4, FS_Singleton
    <2>2. InFrontier(start)
        BY <1>3 DEF InFrontier
    <2> QED
        BY <1>2, <1>3, <1>4, <2>1, <2>2 DEF Consuming
<1>10. Expanding /\ Asked /\ Walking /\ Measuring
    BY <1>2 DEF Expanding, Asked, Walking, Measuring
<1>11. NothingFails /\ AnswerIsExact /\ PathIsWalk
    BY <1>2 DEF NothingFails, AnswerIsExact, PathIsWalk
<1> QED
    BY <1>5, <1>6, <1>7, <1>8, <1>9, <1>10, <1>11 DEF PathInv, SearchInv

LEMMA ReturnEarlyKeeps == PathInv /\ ReturnEarly => PathInv'
<1> SUFFICES ASSUME PathInv, ReturnEarly PROVE PathInv'
    OBVIOUS
<1>1. /\ pc = "call" /\ pc' = "done" /\ mode # "FLOWFIELD"
      /\ \/ goal \notin Tile /\ result' = "ERROR" /\ distance' = 0
         \/ goal = start /\ result' = "OK" /\ distance' = 0
      /\ UNCHANGED <<request, target, goal, search, rounds, here, path>>
    BY DEF ReturnEarly, Finish
<1>2. PathTypeOK /\ Tree /\ Layered /\ Ordered /\ Asked /\ goal = target
    BY <1>1 DEF PathInv, SearchInv, Asked
<1>3. /\ Tree' /\ Layered' /\ Ordered'
      /\ UNCHANGED <<mode, blocked, start, frontier, cameFrom, current, edge, depth>>
    BY <1>1, <1>2, SearchStays
<1>4. UNCHANGED <<target, goal, rounds, here, path>>
    BY <1>1
<1>5. PathTypeOK'
    BY <1>1, <1>2, <1>3, <1>4, MapSizeType DEF PathTypeOK
<1>6. NothingFails' /\ Consuming' /\ Expanding' /\ Walking' /\ Measuring'
    BY <1>1 DEF NothingFails, Consuming, Expanding, Walking, Measuring
<1>7. Asked'
    BY <1>1, <1>2, <1>3, <1>4 DEF Asked
<1>8. AnswerIsExact'
    <2>1. Answer' = Answer
        BY <1>1, <1>4, AnswerStays
    <2>2. start \in Tile /\ mode \in {"FIND", "FIND_NEIGHBOR", "FLOWFIELD"}
        BY <1>2 DEF PathTypeOK
    <2>3. /\ target \notin Tile => Answer = <<"ERROR", 0>>
          /\ target = start => Answer = <<"OK", 0>>
        BY <1>1, <2>2, AnswerCases
    <2> QED
        BY <1>1, <1>2, <2>1, <2>3 DEF AnswerIsExact
<1>9. PathIsWalk'
    BY <1>1, <1>2, <1>3, <1>4 DEF PathIsWalk
<1> QED
    BY <1>3, <1>5, <1>6, <1>7, <1>8, <1>9 DEF PathInv, SearchInv

LEMMA SearchKeeps == PathInv /\ Search => PathInv'
<1> SUFFICES ASSUME PathInv, Search PROVE PathInv'
    OBVIOUS
<1>1. /\ pc = "call" /\ pc' = "consume"
      /\ mode = "FLOWFIELD" \/ (goal \in Tile /\ goal # start)
      /\ UNCHANGED <<request, target, goal, search, rounds, here, answer>>
    BY DEF Search
<1>2. /\ PathTypeOK /\ Tree /\ Layered /\ Ordered /\ Consuming /\ Asked /\ goal = target
      /\ frontier = <<start>> /\ Visited = {start}
    BY <1>1 DEF PathInv, SearchInv, Asked, Consuming
<1>3. /\ Tree' /\ Layered' /\ Ordered' /\ Visited' = Visited
      /\ \A t : InFrontier(t)' = InFrontier(t) /\ Closed(t)' = Closed(t)
      /\ UNCHANGED <<mode, blocked, start, frontier, cameFrom, current, edge, depth>>
    BY <1>1, <1>2, SearchStays
<1>4. UNCHANGED <<target, goal, rounds, here, path, distance, result>>
    BY <1>1 DEF answer
<1>5. PathTypeOK'
    BY <1>1, <1>2, <1>3, <1>4 DEF PathTypeOK
<1>6. NothingFails' /\ Expanding' /\ Walking' /\ Measuring' /\ AnswerIsExact' /\ PathIsWalk'
    BY <1>1 DEF NothingFails, Expanding, Walking, Measuring, AnswerIsExact, PathIsWalk
<1>7. Consuming'
    BY <1>1, <1>2, <1>3, <1>4 DEF Consuming
<1>8. Asked'
    <2>1. \A t \in Visited' : InFrontier(t)'
        BY <1>2, <1>3 DEF InFrontier
    <2> QED
        BY <1>1, <1>2, <1>3, <1>4, <2>1 DEF Asked
<1> QED
    BY <1>3, <1>5, <1>6, <1>7, <1>8 DEF PathInv, SearchInv

----------------------------------------------------------------------------
(* The end of a turn, and of the search. *)

\* Where the last edge has been looked at, the tile is closed.
LEMMA LastEdge ==
    ASSUME PathInv, pc = "edges", edge \notin Direction
    PROVE  /\ Closed(current)
           /\ mode = "FIND_NEIGHBOR" => goal \notin Edges[current]
<1>1. PathTypeOK /\ Expanding /\ Asked
    BY DEF PathInv, SearchInv
<1>2. edge = 7 /\ current \in Tile
    BY <1>1 DEF PathTypeOK, Direction
<1>3. 1..(edge - 1) = Direction
    BY <1>2 DEF Direction
<1>4. ASSUME NEW u \in Edges[current] PROVE u \in Tile /\ \E n \in 1..(edge - 1) : u = NeighborCoord(current, n)
    BY <1>2, <1>3 DEF Edges
<1>5. ASSUME NEW u \in Edges[current] \ blocked PROVE u \in Visited /\ depth[u] <= depth[current] + 1
    BY <1>1, <1>4 DEF Expanding
<1>6. ASSUME mode = "FIND_NEIGHBOR" PROVE goal \notin Edges[current]
    BY <1>1, <1>4, <1>6 DEF Asked
<1> QED
    BY <1>5, <1>6 DEF Closed

LEMMA EdgesDoneKeeps == PathInv /\ EdgesDone => PathInv'
<1> SUFFICES ASSUME PathInv, EdgesDone PROVE PathInv'
    OBVIOUS
<1>1. /\ pc = "edges" /\ edge \notin Direction
      /\ IF rounds < MapSize THEN pc' = "consume" ELSE pc' = "aborted"
      /\ rounds' = rounds + 1
      /\ UNCHANGED <<request, target, goal, search, here, answer>>
    BY DEF EdgesDone
<1>2. PathTypeOK /\ Tree /\ Layered /\ Ordered /\ Expanding /\ Asked
    BY DEF PathInv, SearchInv
<1>3. /\ Tree' /\ Layered' /\ Ordered' /\ Visited' = Visited
      /\ \A t : InFrontier(t)' = InFrontier(t) /\ Closed(t)' = Closed(t)
      /\ UNCHANGED <<mode, blocked, start, frontier, cameFrom, current, edge, depth>>
    BY <1>1, <1>2, SearchStays
<1>4. UNCHANGED <<target, goal, here, path, distance, result>>
    BY <1>1 DEF answer
<1>5. rounds < MapSize /\ pc' = "consume"
    <2>1. Cardinality(Visited) \in Nat /\ Cardinality(Visited) <= MapSize /\ MapSize \in Nat
        BY SubsetOfTile, MapSizeType DEF Visited
    <2>2. Len(frontier) \in Nat /\ rounds \in Nat
        BY <1>2 DEF PathTypeOK
    <2>3. rounds + 1 + Len(frontier) = Cardinality(Visited)
        BY <1>1, <1>2 DEF Expanding
    <2>4. rounds < MapSize
        BY <2>1, <2>2, <2>3
    <2> QED
        BY <1>1, <2>4
<1>6. PathTypeOK'
    <2>1. rounds' \in 0..MapSize
        BY <1>1, <1>2, <1>5, MapSizeType DEF PathTypeOK
    <2> QED
        BY <1>2, <1>3, <1>4, <1>5, <2>1 DEF PathTypeOK
<1>7. NothingFails' /\ Expanding' /\ Walking' /\ Measuring' /\ AnswerIsExact' /\ PathIsWalk'
    BY <1>5 DEF NothingFails, Expanding, Walking, Measuring, AnswerIsExact, PathIsWalk
<1>8. Consuming'
    <2>1. \A t \in Visited : InFrontier(t) \/ Closed(t)
        BY <1>1, <1>2, LastEdge DEF Expanding
    <2>2. rounds' + Len(frontier') = Cardinality(Visited')
        BY <1>1, <1>2, <1>3 DEF Expanding
    <2> QED
        BY <1>3, <1>5, <2>1, <2>2 DEF Consuming
<1>9. Asked'
    <2>1. goal = target /\ path = <<>> /\ distance = 0
        BY <1>1, <1>2 DEF Asked
    <2>2. mode # "FLOWFIELD" => target \in Tile \ {start}
        BY <1>1, <1>2 DEF Asked
    <2>3. ASSUME mode = "FIND_NEIGHBOR"
          PROVE  goal \notin Visited /\ \A t \in Visited : InFrontier(t) \/ goal \notin Edges[t]
        BY <1>1, <1>2, <2>3, LastEdge DEF Asked
    <2> QED
        BY <1>3, <1>4, <1>5, <2>1, <2>2, <2>3 DEF Asked
<1> QED
    BY <1>3, <1>6, <1>7, <1>8, <1>9 DEF PathInv, SearchInv

\* When the frontier is empty, the tiles that were found are those that can be reached.
LEMMA AllFound ==
    ASSUME PathInv, pc = "consume", frontier = <<>>
    PROVE  LET D == Distances(start, Tile \ blocked)
           IN  DOMAIN D = Visited /\ \A t \in Visited : D[t] = depth[t]
<1> DEFINE D == Distances(start, Tile \ blocked)
<1>1. PathTypeOK /\ Tree /\ Layered /\ Consuming
    BY DEF PathInv, SearchInv
<1>2. start \in Tile /\ depth \in [Tile -> Nat]
    BY <1>1 DEF PathTypeOK
<1>3. start \in Visited
    BY <1>1, <1>2, PathAssumption DEF Tree, Visited, PathAssumption
<1>4. \A t \in Visited : Closed(t)
    <2>1. \A t : ~InFrontier(t)
        BY DEF InFrontier
    <2> QED
        BY <1>1, <2>1 DEF Consuming
<1>5. MapSize \in 0..MapSize /\ \A t \in Visited : depth[t] <= MapSize
    BY <1>1, <1>2, MapSizeType DEF Layered, Visited
<1> HIDE DEF D
<1>6. /\ \A t \in Visited : depth[t] <= MapSize => t \in DOMAIN D /\ D[t] = depth[t]
      /\ \A t \in DOMAIN D : D[t] <= MapSize => t \in Visited /\ D[t] = depth[t]
    BY <1>1, <1>2, <1>3, <1>4, <1>5, Flood DEF D
<1>7. \A t \in DOMAIN D : D[t] \in 0..MapSize
    BY <1>2, LayerOfDistance DEF D
<1>8. \A t \in DOMAIN D : D[t] <= MapSize
    BY <1>7, MapSizeType
<1>9. DOMAIN D = Visited /\ \A t \in Visited : D[t] = depth[t]
    BY <1>5, <1>6, <1>8
<1> QED
    BY <1>9 DEF D

\* What a flow field is asked next: the distance of the next state's target.
LEMMA FlowFieldAnswer ==
    ASSUME mode' = "FLOWFIELD", UNCHANGED <<blocked, start>>
    PROVE  LET D == Distances(start, Tile \ blocked)
           IN  Answer' = IF target' \in DOMAIN D THEN <<"OK", D[target']>> ELSE <<"ERROR", NoDistance>>
BY Zenon DEF Answer

LEMMA ExhaustedKeeps == PathInv /\ Exhausted => PathInv'
<1> SUFFICES ASSUME PathInv, Exhausted PROVE PathInv'
    OBVIOUS
<1> DEFINE D == Distances(start, Tile \ blocked)
<1>1. /\ pc = "consume" /\ frontier = <<>> /\ rounds' = 0
      /\ UNCHANGED <<request, search, answer>>
    BY DEF Exhausted
<1>2. \/ /\ mode = "FLOWFIELD" /\ target' \in Tile /\ goal' = target' /\ here' = cameFrom[target']
         /\ pc' = "measure"
      \/ mode # "FLOWFIELD" /\ here' = goal /\ pc' = "walk" /\ UNCHANGED <<target, goal>>
    BY DEF Exhausted
<1>3. PathTypeOK /\ Tree /\ Layered /\ Ordered /\ Consuming /\ Asked
    BY DEF PathInv, SearchInv
<1>4. /\ Tree' /\ Layered' /\ Ordered' /\ Visited' = Visited
      /\ \A t : InFrontier(t)' = InFrontier(t) /\ Closed(t)' = Closed(t)
      /\ UNCHANGED <<mode, blocked, start, frontier, cameFrom, current, edge, depth>>
    BY <1>1, <1>3, SearchStays
<1>5. UNCHANGED <<path, distance, result>> /\ path = <<>> /\ distance = 0 /\ goal = target
    BY <1>1, <1>3 DEF answer, Asked
<1>6. /\ start \in Tile /\ depth \in [Tile -> Nat] /\ mode \in {"FIND", "FIND_NEIGHBOR", "FLOWFIELD"}
      /\ cameFrom \in [Tile -> Tile \cup {NotVisited, None}]
    BY <1>3 DEF PathTypeOK
<1>7. DOMAIN D = Visited /\ \A t \in Visited : D[t] = depth[t]
    BY <1>1, AllFound
<1> HIDE DEF D
<1>8. PathTypeOK'
    <2>1. 0 \in 0..MapSize
        BY MapSizeType
    <2>2. target' \in Tile \cup {OffMap} /\ goal' \in Tile \cup {OffMap}
          /\ here' \in Tile \cup {NotVisited, None, OffMap} /\ pc' \in {"walk", "measure"}
        BY <1>2, <1>3, <1>6 DEF PathTypeOK
    <2> QED
        BY <1>1, <1>3, <1>4, <1>5, <2>1, <2>2 DEF PathTypeOK
<1>9. NothingFails' /\ Expanding' /\ AnswerIsExact' /\ PathIsWalk'
    BY <1>2 DEF NothingFails, Expanding, AnswerIsExact, PathIsWalk
<1>10. Consuming'
    <2>1. \A t \in Visited : InFrontier(t) \/ Closed(t)
        BY <1>1, <1>3 DEF Consuming
    <2> QED
        BY <1>2, <1>4, <2>1 DEF Consuming
<1>11. Asked'
    BY <1>1, <1>2, <1>3, <1>4 DEF Asked
<1>12. Walking'
    <2> SUFFICES ASSUME mode # "FLOWFIELD", here' = goal, pc' = "walk", UNCHANGED <<target, goal>>
                 PROVE  Walking'
        BY <1>2 DEF Walking
    <2>1. goal = target /\ target \in Tile \ {start}
        BY <1>1, <1>3 DEF Asked
    <2>2. Answer' = Answer
        BY <1>1, AnswerStays
    <2>3. Len(path') = 0 /\ \A i : i \notin 1..distance'
        BY <1>5
    <2>4. CASE mode = "FIND"
        <3>1. Answer = IF target \in Visited THEN <<"OK", depth[target]>> ELSE <<"INCOMPLETE_FLOWFIELD", 0>>
            <4>1. Answer = IF target \in DOMAIN D THEN <<"OK", D[target]>> ELSE <<"INCOMPLETE_FLOWFIELD", 0>>
                BY <1>6, <2>1, <2>4, AnswerCases DEF D
            <4> QED
                BY <1>7, <4>1
        <3>2. depth[goal] + 0 = depth[goal]
            BY <1>6, <2>1
        <3> QED
            BY <1>1, <1>4, <1>5, <2>1, <2>2, <2>3, <2>4, <3>1, <3>2 DEF Walking
    <2>5. CASE mode = "FIND_NEIGHBOR"
        <3>1. goal \notin Visited /\ \A t \in Visited : goal \notin Edges[t]
            BY <1>1, <1>3, <2>5 DEF Asked, InFrontier
        <3>2. DOMAIN D \cap Edges[target] = {}
            <4>1. \A t \in Edges[target] : t \in Tile
                BY <2>1 DEF Edges
            <4> QED
                BY <1>7, <2>1, <3>1, <4>1, EdgesSymmetric
        <3>3. Answer = <<"INCOMPLETE_FLOWFIELD", 0>>
            BY <1>6, <2>1, <2>5, <3>2, AnswerCases DEF D
        <3> QED
            BY <1>1, <1>4, <1>5, <2>1, <2>2, <2>3, <2>5, <3>1, <3>3 DEF Walking
    <2> QED
        BY <1>6, <2>4, <2>5
<1>13. Measuring'
    <2> SUFFICES ASSUME mode = "FLOWFIELD", target' \in Tile, here' = cameFrom[target'], pc' = "measure"
                 PROVE  Measuring'
        BY <1>2 DEF Measuring
    <2>1. Answer' = IF target' \in DOMAIN D THEN <<"OK", D[target']>> ELSE <<"ERROR", NoDistance>>
        BY <1>4, FlowFieldAnswer DEF D
    <2>2. target' \in Visited => Answer' = <<"OK", depth[target']>>
        BY <1>7, <2>1
    <2>3. target' \notin Visited => Answer' = <<"ERROR", NoDistance>> /\ cameFrom[target'] = NotVisited
        BY <1>7, <2>1 DEF Visited
    <2>4. ASSUME target' \in Visited
          PROVE  \/ here' = None /\ distance' = depth[target']
                 \/ here' \in Visited /\ distance' + 1 + depth[here'] = depth[target']
        <3>1. CASE target' = start
            BY <1>3, <1>5, <3>1 DEF Tree
        <3>2. CASE target' # start
            <4>1. here' \in Visited /\ depth[target'] = depth[here'] + 1
                BY <1>3, <2>4, <3>2 DEF Tree
            <4>2. depth[here'] \in Nat
                BY <1>6, <4>1 DEF Visited
            <4> QED
                BY <1>5, <4>1, <4>2
        <3> QED
            BY <3>1, <3>2
    <2> QED
        BY <1>4, <1>5, <2>2, <2>3, <2>4 DEF Measuring
<1> QED
    BY <1>4, <1>8, <1>9, <1>10, <1>11, <1>12, <1>13 DEF PathInv, SearchInv

----------------------------------------------------------------------------
(* The walk back. *)

LEMMA WalkBackKeeps == PathInv /\ WalkBack => PathInv'
<1> SUFFICES ASSUME PathInv, WalkBack PROVE PathInv'
    OBVIOUS
<1>1. /\ pc = "walk" /\ here \notin {start, NotVisited}
      /\ IF here = None \/ rounds >= MapSize
         THEN pc' = "aborted" /\ UNCHANGED <<path, distance, here, rounds>>
         ELSE /\ path' = Append(path, here) /\ here' = cameFrom[here]
              /\ distance' = distance + 1 /\ rounds' = rounds + 1
              /\ UNCHANGED pc
      /\ UNCHANGED <<request, target, goal, search, result>>
    BY DEF WalkBack
<1>2. PathTypeOK /\ Tree /\ Layered /\ Ordered /\ Asked /\ Walking
    BY DEF PathInv, SearchInv
<1>3. /\ Tree' /\ Layered' /\ Ordered' /\ Visited' = Visited
      /\ UNCHANGED <<mode, blocked, start, frontier, cameFrom, current, edge, depth>>
    BY <1>1, <1>2, SearchStays
<1>4. /\ depth \in [Tile -> Nat] /\ cameFrom \in [Tile -> Tile \cup {NotVisited, None}]
      /\ path \in Seq(Tile) /\ MapSize \in Nat \ {0} /\ Visited \subseteq Tile /\ Len(path) \in Nat
    BY <1>2, MapSizeType DEF PathTypeOK, Visited
<1>5. mode # "FLOWFIELD" /\ goal \in Tile /\ Len(path) = distance /\ rounds = distance
    BY <1>1, <1>2 DEF Walking
<1>6. here \in Tile /\ distance < MapSize
    <2>1. CASE goal \in Visited
        <3>1. here \in Visited /\ depth[here] + distance = depth[goal] /\ depth[goal] < MapSize
            BY <1>1, <1>2, <2>1 DEF Walking, Layered
        <3> QED
            BY <1>4, <1>5, <3>1
    <2>2. CASE goal \notin Visited
        <3>1. here = goal /\ distance = 0
            BY <1>1, <1>2, <2>2 DEF Walking
        <3> QED
            BY <1>4, <1>5, <3>1
    <2> QED
        BY <2>1, <2>2
<1>7. /\ pc' = "walk" /\ path' = Append(path, here) /\ here' = cameFrom[here]
      /\ distance' = distance + 1 /\ rounds' = distance + 1
      /\ UNCHANGED <<target, goal, result>>
    <2>1. ~(here = None \/ rounds >= MapSize)
        BY <1>4, <1>5, <1>6, PathAssumption DEF PathAssumption
    <2> QED
        BY <1>1, <1>5, <2>1
<1>8. /\ path' \in Seq(Tile) /\ Len(path') = distance + 1
      /\ \A i \in 1..distance : path'[i] = path[i]
      /\ path'[distance + 1] = here
    <2>1. LET p == Append(path, here)
          IN  /\ p \in Seq(Tile) /\ Len(p) = Len(path) + 1
              /\ \A i \in 1..Len(path) : p[i] = path[i]
              /\ p[Len(path) + 1] = here
        BY <1>4, <1>6, AppendProperties
    <2> QED
        BY <1>5, <1>7, <2>1
<1>9. PathTypeOK'
    <2>1. distance' \in -1..MapSize /\ rounds' \in 0..MapSize
        BY <1>4, <1>5, <1>6, <1>7
    <2>2. here' \in Tile \cup {NotVisited, None, OffMap}
        BY <1>4, <1>6, <1>7
    <2> QED
        BY <1>2, <1>3, <1>7, <1>8, <2>1, <2>2 DEF PathTypeOK
<1>10. NothingFails' /\ Consuming' /\ Expanding' /\ Measuring' /\ AnswerIsExact' /\ PathIsWalk'
    BY <1>7 DEF NothingFails, Consuming, Expanding, Measuring, AnswerIsExact, PathIsWalk
<1>11. Asked'
    BY <1>1, <1>2, <1>3, <1>7 DEF Asked
<1>12. Walking'
    <2>0. Answer' = Answer
        BY <1>1, AnswerStays
    <2>1. CASE goal \notin Visited
        <3>1. here = goal /\ distance = 0 /\ Answer = <<"INCOMPLETE_FLOWFIELD", 0>>
            BY <1>1, <1>2, <2>1 DEF Walking
        <3>2. here' = NotVisited
            BY <1>5, <1>7, <2>1, <3>1 DEF Visited
        <3> QED
            BY <1>3, <1>5, <1>7, <1>8, <2>0, <2>1, <3>1, <3>2 DEF Walking
    <2>2. CASE goal \in Visited
        <3>1. /\ here \in Visited /\ depth[here] + distance = depth[goal]
              /\ \A i \in 1..distance : path[i] \in Visited \ {start}
              /\ \A i \in 1..distance : cameFrom[path[i]] = IF i = distance THEN here ELSE path[i + 1]
              /\ IF distance = 0 THEN here = goal ELSE path[1] = goal
              /\ mode = "FIND_NEIGHBOR" => goal \in Edges[target]
              /\ Answer = <<"OK", depth[goal]>>
            BY <1>1, <1>2, <2>2 DEF Walking
        <3>2. here \in Visited \ {start}
            BY <1>1, <3>1
        <3>3. here' \in Visited /\ depth[here] = depth[here'] + 1
            BY <1>2, <1>7, <3>2 DEF Tree
        <3>4. depth[here'] + (distance + 1) = depth[goal]
            BY <1>4, <1>5, <3>1, <3>3
        <3>5. distance \in Nat
            BY <1>4, <1>5
        <3>6. ASSUME NEW i \in 1..(distance + 1)
              PROVE  /\ path'[i] \in Visited \ {start}
                     /\ cameFrom[path'[i]] = IF i = distance + 1 THEN here' ELSE path'[i + 1]
            <4>1. CASE i = distance + 1
                BY <1>7, <1>8, <3>2, <4>1
            <4>2. CASE i \in 1..(distance - 1)
                <5>1. i \in 1..distance /\ i + 1 \in 1..distance /\ i # distance /\ i # distance + 1
                    BY <3>5, <4>2
                <5> QED
                    BY <1>8, <3>1, <5>1
            <4>3. CASE i = distance
                <5>1. i \in 1..distance /\ i # distance + 1
                    BY <3>5, <4>3
                <5> QED
                    BY <1>8, <3>1, <4>3, <5>1
            <4> QED
                BY <3>5, <4>1, <4>2, <4>3
        <3>7. path'[1] = goal /\ distance + 1 # 0
            <4>1. CASE distance = 0
                BY <1>8, <3>1, <4>1
            <4>2. CASE distance # 0
                BY <1>8, <3>1, <3>5, <4>2
            <4> QED
                BY <3>5, <4>1, <4>2
        <3> QED
            BY <1>3, <1>5, <1>7, <1>8, <2>0, <2>2, <3>1, <3>3, <3>4, <3>6, <3>7 DEF Walking
    <2> QED
        BY <2>1, <2>2
<1> QED
    BY <1>3, <1>9, <1>10, <1>11, <1>12 DEF PathInv, SearchInv

LEMMA WalkEndsKeeps == PathInv /\ WalkEnds => PathInv'
<1> SUFFICES ASSUME PathInv, WalkEnds PROVE PathInv'
    OBVIOUS
<1>1. /\ pc = "walk" /\ pc' = "done"
      /\ \/ here = start /\ result' = "OK" /\ distance' = distance /\ path' = path
         \/ here = NotVisited /\ result' = "INCOMPLETE_FLOWFIELD" /\ distance' = 0 /\ path' = <<>>
      /\ UNCHANGED <<request, target, goal, search, rounds, here>>
    BY DEF WalkEnds, Finish
<1>2. PathTypeOK /\ Tree /\ Layered /\ Ordered /\ Asked /\ Walking
    BY DEF PathInv, SearchInv
<1>3. /\ Tree' /\ Layered' /\ Ordered' /\ Visited' = Visited
      /\ UNCHANGED <<mode, blocked, start, frontier, cameFrom, current, edge, depth>>
    BY <1>1, <1>2, SearchStays
<1>4. UNCHANGED <<target, goal, rounds, here>>
    BY <1>1
<1>5. /\ depth \in [Tile -> Nat] /\ start \in Tile /\ Visited \subseteq Tile /\ start \in Visited
      /\ NotVisited \notin Tile
    BY <1>2, PathAssumption DEF PathTypeOK, Visited, Tree, PathAssumption
<1>6. mode # "FLOWFIELD" /\ goal \in Tile /\ Len(path) = distance /\ distance \in Nat
    BY <1>1, <1>2 DEF Walking, PathTypeOK
<1>7. PathTypeOK'
    <2>0. 0 \in -1..MapSize /\ <<>> \in Seq(Tile)
        BY MapSizeType
    <2>1. path' \in Seq(Tile) /\ distance' \in -1..MapSize
        BY <1>1, <1>2, <2>0, Zenon DEF PathTypeOK
    <2> QED
        BY <1>1, <1>2, <1>3, <1>4, <2>1 DEF PathTypeOK
<1>8. NothingFails' /\ Consuming' /\ Expanding' /\ Walking' /\ Measuring'
    BY <1>1 DEF NothingFails, Consuming, Expanding, Walking, Measuring
<1>9. Asked'
    BY <1>1, <1>2, <1>3, <1>4 DEF Asked
<1>10. Answer' = Answer
    BY <1>1, AnswerStays
<1>11. CASE here = NotVisited
    <2>1. goal \notin Visited /\ Answer = <<"INCOMPLETE_FLOWFIELD", 0>>
        BY <1>1, <1>2, <1>5, <1>11 DEF Walking
    <2>2. result' = "INCOMPLETE_FLOWFIELD" /\ distance' = 0
        BY <1>1, <1>5, <1>11
    <2>3. AnswerIsExact' /\ PathIsWalk'
        BY <1>10, <2>1, <2>2 DEF AnswerIsExact, PathIsWalk
    <2> QED
        BY <1>3, <1>7, <1>8, <1>9, <2>3 DEF PathInv, SearchInv
<1>12. CASE here = start
    <2>1. goal \in Visited
        BY <1>1, <1>2, <1>5, <1>12 DEF Walking
    <2>2. result' = "OK" /\ distance' = distance /\ path' = path
        BY <1>1, <1>5, <1>12
    <2>3. /\ depth[start] + distance = depth[goal] /\ Answer = <<"OK", depth[goal]>>
          /\ \A i \in 1..distance : path[i] \in Visited \ {start}
          /\ \A i \in 1..distance : cameFrom[path[i]] = IF i = distance THEN start ELSE path[i + 1]
          /\ IF distance = 0 THEN start = goal ELSE path[1] = goal
          /\ mode = "FIND_NEIGHBOR" => goal \in Edges[target]
        BY <1>1, <1>2, <1>12, <2>1 DEF Walking
    <2>4. distance = depth[goal]
        BY <1>2, <1>6, <2>3 DEF Tree
    <2>5. AnswerIsExact'
        BY <1>10, <2>2, <2>3, <2>4 DEF AnswerIsExact
    <2>6. ASSUME NEW i \in 0..(distance - 1)
          PROVE  /\ path[distance - i] \in Tile \ blocked
                 /\ path[distance - i] \in Edges[IF i = 0 THEN start ELSE path[distance - (i - 1)]]
        <3>1. distance - i \in 1..distance
            BY <1>6
        <3>2. path[distance - i] \in Visited \ {start}
            BY <2>3, <3>1
        <3>3. path[distance - i] \notin blocked /\ path[distance - i] \in Edges[cameFrom[path[distance - i]]]
            BY <1>2, <3>2 DEF Tree
        <3>4. cameFrom[path[distance - i]] = IF i = 0 THEN start ELSE path[distance - (i - 1)]
            <4>1. (distance - i = distance) <=> i = 0
                BY <1>6
            <4>2. distance - i + 1 = distance - (i - 1)
                BY <1>6
            <4> QED
                BY <2>3, <3>1, <4>1, <4>2
        <3> QED
            BY <1>5, <3>2, <3>3, <3>4
    <2>7. distance > 0 => path[distance - (distance - 1)] = goal
        BY <1>6, <2>3
    <2>8. mode = "FIND" => goal = target
        BY <1>2 DEF Asked
    <2>9. PathIsWalk'
        BY <1>3, <1>4, <2>2, <2>3, <2>6, <2>7, <2>8 DEF PathIsWalk, PathAt
    <2> QED
        BY <1>3, <1>7, <1>8, <1>9, <2>5, <2>9 DEF PathInv, SearchInv
<1> QED
    BY <1>1, <1>11, <1>12

----------------------------------------------------------------------------
(* The distance of a tile in a flow field. *)

LEMMA MeasureKeeps == PathInv /\ Measure => PathInv'
<1> SUFFICES ASSUME PathInv, Measure PROVE PathInv'
    OBVIOUS
<1>1. /\ pc = "measure"
      /\ \/ /\ here = NotVisited /\ pc' = "done" /\ result' = "ERROR" /\ distance' = NoDistance
            /\ here' = here
         \/ /\ here = None \/ distance >= MapSize
            /\ pc' = "done" /\ result' = "OK" /\ distance' = distance /\ here' = here
         \/ /\ here \in Tile /\ distance < MapSize
            /\ here' = cameFrom[here] /\ distance' = distance + 1
            /\ pc' = pc /\ result' = result
      /\ UNCHANGED <<request, target, goal, search, rounds, path>>
    BY DEF Measure, Finish
<1>2. PathTypeOK /\ Tree /\ Layered /\ Ordered /\ Consuming /\ Asked /\ Measuring
    BY DEF PathInv, SearchInv
<1>3. /\ Tree' /\ Layered' /\ Ordered' /\ Visited' = Visited
      /\ \A t : InFrontier(t)' = InFrontier(t) /\ Closed(t)' = Closed(t)
      /\ UNCHANGED <<mode, blocked, start, frontier, cameFrom, current, edge, depth>>
    BY <1>1, <1>2, SearchStays
<1>4. UNCHANGED <<target, goal, rounds, path>>
    BY <1>1
<1>5. /\ depth \in [Tile -> Nat] /\ cameFrom \in [Tile -> Tile \cup {NotVisited, None}]
      /\ start \in Tile /\ Visited \subseteq Tile /\ MapSize \in Nat \ {0} /\ distance \in Int
      /\ NotVisited \notin Tile /\ None \notin Tile /\ NotVisited # None
    BY <1>2, MapSizeType, PathAssumption DEF PathTypeOK, Visited, PathAssumption
<1>6. /\ mode = "FLOWFIELD" /\ target \in Tile
      /\ IF target \in Visited
         THEN /\ \/ here = None /\ distance = depth[target]
                 \/ here \in Visited /\ distance + 1 + depth[here] = depth[target]
              /\ Answer = <<"OK", depth[target]>>
         ELSE here = NotVisited /\ distance = 0 /\ Answer = <<"ERROR", NoDistance>>
    BY <1>1, <1>2 DEF Measuring
<1>7. PathTypeOK'
    <2>1. distance' \in -1..MapSize /\ here' \in Tile \cup {NotVisited, None, OffMap}
          /\ result' \in {"PENDING", "OK", "ERROR", "INCOMPLETE_FLOWFIELD"}
          /\ pc' \in {"measure", "done"}
        BY <1>1, <1>2, <1>5 DEF PathTypeOK, NoDistance
    <2> QED
        BY <1>2, <1>3, <1>4, <2>1 DEF PathTypeOK
<1>8. NothingFails' /\ Expanding' /\ Walking' /\ PathIsWalk'
    BY <1>1, <1>3, <1>6 DEF NothingFails, Expanding, Walking, PathIsWalk
<1>9. Consuming' /\ Asked'
    <2>1. \A t \in Visited : InFrontier(t) \/ Closed(t)
        BY <1>1, <1>2 DEF Consuming
    <2>2. pc' \in {"measure", "done"}
        BY <1>1
    <2>3. Consuming'
        BY <1>3, <2>1, <2>2 DEF Consuming
    <2>4. Asked'
        BY <1>2, <1>3, <1>4, <2>2 DEF Asked
    <2> QED
        BY <2>3, <2>4
<1>10. Answer' = Answer
    BY <1>1, AnswerStays
<1>11. target \in Visited => depth[target] \in Nat /\ depth[target] < MapSize
    BY <1>2, <1>5 DEF Layered
<1>12. AnswerIsExact'
    <2>1. CASE pc' # "done"
        BY <2>1 DEF AnswerIsExact
    <2>2. CASE pc' = "done" /\ target \notin Visited
        <3>1. result' = "ERROR" /\ distance' = NoDistance
            BY <1>1, <1>5, <1>6, <2>2
        <3> QED
            BY <1>6, <1>10, <2>2, <3>1 DEF AnswerIsExact
    <2>3. CASE pc' = "done" /\ target \in Visited
        <3>1. here # NotVisited
            BY <1>5, <1>6, <2>3
        <3>2. ASSUME here # None PROVE ~(distance >= MapSize)
            <4>1. here \in Visited /\ distance + 1 + depth[here] = depth[target] /\ depth[here] \in Nat
                BY <1>5, <1>6, <2>3, <3>2
            <4> QED
                BY <1>5, <1>11, <2>3, <4>1
        <3>3. here = None /\ result' = "OK" /\ distance' = distance
            BY <1>1, <2>3, <3>1, <3>2
        <3>4. distance = depth[target] /\ Answer = <<"OK", depth[target]>>
            BY <1>5, <1>6, <2>3, <3>3
        <3> QED
            BY <1>10, <3>3, <3>4 DEF AnswerIsExact
    <2> QED
        BY <2>1, <2>2, <2>3
<1>13. Measuring'
    <2> SUFFICES ASSUME pc' = "measure" PROVE Measuring'
        BY DEF Measuring
    <2>1. here \in Tile /\ here' = cameFrom[here] /\ distance' = distance + 1
        BY <1>1
    <2>2. target \in Visited /\ here \in Visited /\ distance + 1 + depth[here] = depth[target]
        BY <1>5, <1>6, <2>1
    <2>3. \/ here' = None /\ distance' = depth[target]
          \/ here' \in Visited /\ distance' + 1 + depth[here'] = depth[target]
        <3>1. CASE here = start
            BY <1>2, <1>5, <2>1, <2>2, <3>1 DEF Tree
        <3>2. CASE here # start
            <4>1. here' \in Visited /\ depth[here] = depth[here'] + 1
                BY <1>2, <2>1, <2>2, <3>2 DEF Tree
            <4>2. depth[here'] \in Nat
                BY <1>5, <4>1
            <4> QED
                BY <1>5, <2>1, <2>2, <4>1, <4>2
        <3> QED
            BY <3>1, <3>2
    <2> QED
        BY <1>3, <1>4, <1>6, <1>10, <2>2, <2>3 DEF Measuring
<1> QED
    BY <1>3, <1>7, <1>8, <1>9, <1>12, <1>13 DEF PathInv, SearchInv

----------------------------------------------------------------------------
(* A tile is consumed. *)

\* What a step keeps that finds no tile and takes none for another.
LEMMA TreeStays ==
    ASSUME Tree, Layered, UNCHANGED <<blocked, start, cameFrom, depth>>
    PROVE  Tree' /\ Layered' /\ Visited' = Visited /\ \A t : Closed(t)' = Closed(t)
<1>1. Visited' = Visited
    BY DEF Visited
<1> QED
    BY <1>1 DEF Tree, Layered, Layer, Closed

\* A search for a path that comes to its goal has come to it by a shortest way.
LEMMA GoalConsumed ==
    ASSUME PathInv, pc = "consume", frontier # <<>>, mode = "FIND", frontier[1] = goal
    PROVE  Answer = <<"OK", depth[goal]>>
<1> DEFINE D == Distances(start, Tile \ blocked)
           h == depth[goal]
<1>1. PathTypeOK /\ Tree /\ Layered /\ Ordered /\ Consuming /\ Asked
    BY DEF PathInv, SearchInv
<1>2. /\ start \in Tile /\ depth \in [Tile -> Nat] /\ frontier \in Seq(Tile)
      /\ mode \in {"FIND", "FIND_NEIGHBOR", "FLOWFIELD"} /\ MapSize \in Nat
    BY <1>1, MapSizeType DEF PathTypeOK
<1>3. start \in Visited
    BY <1>1, <1>2, PathAssumption DEF Tree, Visited, PathAssumption
<1>4. 1 \in 1..Len(frontier) /\ Len(frontier) \in Nat
    BY <1>2
<1>5. goal \in Visited /\ goal \in Tile /\ h \in 0..MapSize
    BY <1>1, <1>2, <1>4 DEF Ordered, Layered, Visited
<1>6. ASSUME NEW t \in Visited, depth[t] < h PROVE Closed(t)
    <2>1. ASSUME NEW i \in 1..Len(frontier) PROVE frontier[i] # t
        <3>1. depth[frontier[1]] <= depth[frontier[i]]
            <4>1. CASE i = 1
                BY <1>2, <1>5, <4>1
            <4>2. CASE i # 1
                BY <1>1, <1>4, <4>2 DEF Ordered
            <4> QED
                BY <4>1, <4>2
        <3>2. t \in Tile /\ depth[t] \in Nat /\ h \in Nat
            BY <1>2, <1>5 DEF Visited
        <3> QED
            BY <1>6, <3>1, <3>2
    <2>2. ~InFrontier(t)
        BY <2>1 DEF InFrontier
    <2> QED
        BY <1>1, <2>2 DEF Consuming
<1>7. h <= h
    BY <1>5
<1> HIDE DEF D, h
<1>8. \A t \in Visited : depth[t] <= h => t \in DOMAIN D /\ D[t] = depth[t]
    BY <1>1, <1>2, <1>3, <1>5, <1>6, Flood DEF D
<1>9. goal \in DOMAIN D /\ D[goal] = depth[goal]
    BY <1>5, <1>7, <1>8 DEF h
<1>10. goal = target /\ target \in Tile \ {start}
    BY <1>1 DEF Asked
<1>11. Answer = IF target \in DOMAIN D THEN <<"OK", D[target]>> ELSE <<"INCOMPLETE_FLOWFIELD", 0>>
    BY <1>2, <1>10, AnswerCases DEF D
<1> QED
    BY <1>9, <1>10, <1>11

LEMMA ConsumeKeeps == PathInv /\ Consume => PathInv'
<1> SUFFICES ASSUME PathInv, Consume PROVE PathInv'
    OBVIOUS
<1>1. /\ pc = "consume" /\ frontier # <<>> /\ frontier' = Tail(frontier)
      /\ current' = Head(frontier) /\ edge' = 1
      /\ IF mode # "FLOWFIELD" /\ current' = goal
         THEN pc' = "walk" /\ here' = goal /\ rounds' = 0
         ELSE pc' = "edges" /\ UNCHANGED <<here, rounds>>
      /\ UNCHANGED <<request, target, goal, cameFrom, depth, answer>>
    BY DEF Consume
<1>2. PathTypeOK /\ Tree /\ Layered /\ Ordered /\ Consuming /\ Asked
    BY DEF PathInv, SearchInv
<1>3. UNCHANGED <<mode, blocked, start, target, goal, cameFrom, depth, path, distance, result>>
    BY <1>1 DEF request, answer
<1>4. Tree' /\ Layered' /\ Visited' = Visited /\ \A t : Closed(t)' = Closed(t)
    BY <1>2, <1>3, TreeStays
<1>5. /\ start \in Tile /\ depth \in [Tile -> Nat] /\ frontier \in Seq(Tile) /\ Len(frontier) \in Nat
      /\ Visited \subseteq Tile /\ MapSize \in Nat /\ Len(frontier) <= MapSize /\ rounds \in Nat
    BY <1>2, MapSizeType DEF PathTypeOK, Visited
<1>6. /\ frontier' \in Seq(Tile) /\ Len(frontier') = Len(frontier) - 1 /\ Len(frontier) >= 1
      /\ \A i \in 1..Len(frontier') : frontier'[i] = frontier[i + 1]
      /\ current' = frontier[1] /\ current' \in Tile
    BY <1>1, <1>5
<1>7. \A i \in 1..Len(frontier') : i + 1 \in 1..Len(frontier) /\ 1 < i + 1
    BY <1>5, <1>6
<1>8. current' \in Visited /\ 1 \in 1..Len(frontier)
    BY <1>2, <1>5, <1>6 DEF Ordered
<1>9. \A t \in Tile : InFrontier(t) => t = current' \/ InFrontier(t)'
    <2> SUFFICES ASSUME NEW t, NEW i \in 1..Len(frontier), frontier[i] = t, t # current'
                 PROVE  \E j \in 1..Len(frontier') : frontier'[j] = t
        BY DEF InFrontier
    <2>1. i # 1
        BY <1>6
    <2>2. i - 1 \in 1..Len(frontier') /\ (i - 1) + 1 = i
        BY <1>5, <1>6, <2>1
    <2> QED
        BY <1>6, <2>2
<1>10. Ordered'
    <2>1. ASSUME NEW i \in 1..Len(frontier')
          PROVE  /\ frontier'[i] \in Visited
                 /\ \A t \in Visited : depth[t] <= depth[frontier'[i]] + 1
                 /\ \A j \in 1..Len(frontier') :
                      i < j => frontier'[i] # frontier'[j] /\ depth[frontier'[i]] <= depth[frontier'[j]]
        <3>1. frontier'[i] = frontier[i + 1] /\ i + 1 \in 1..Len(frontier)
            BY <1>6, <1>7
        <3>2. \A j \in 1..Len(frontier') : i < j => i + 1 < j + 1
            BY <1>5, <1>6
        <3> QED
            BY <1>2, <1>6, <1>7, <3>1, <3>2 DEF Ordered
    <2> QED
        BY <1>3, <1>4, <2>1 DEF Ordered
<1>11. CASE mode # "FLOWFIELD" /\ current' = goal
    <2>1. pc' = "walk" /\ here' = goal /\ rounds' = 0
        BY <1>1, <1>11
    <2>2. mode = "FIND"
        BY <1>1, <1>2, <1>8, <1>11 DEF Asked, PathTypeOK
    <2>3. Answer' = <<"OK", depth[goal]>>
        <3>1. Answer = <<"OK", depth[goal]>>
            BY <1>1, <1>6, <1>11, <2>2, GoalConsumed
        <3> QED
            BY <1>1, <3>1, AnswerStays
    <2>4. path = <<>> /\ distance = 0 /\ goal = target
        BY <1>1, <1>2 DEF Asked
    <2>5. PathTypeOK'
        <3>1. 0 \in 0..MapSize /\ Len(frontier') <= MapSize
            BY <1>5, <1>6
        <3> QED
            BY <1>1, <1>2, <1>3, <1>6, <1>8, <1>11, <2>1, <3>1 DEF PathTypeOK
    <2>6. Walking'
        <3>1. Len(path') = 0 /\ (\A i : i \notin 1..distance') /\ depth[goal] + 0 = depth[goal]
            BY <1>3, <1>5, <1>6, <1>11, <2>4
        <3> QED
            BY <1>3, <1>4, <1>6, <1>8, <1>11, <2>1, <2>2, <2>3, <2>4, <3>1 DEF Walking
    <2>7. Asked'
        BY <1>1, <1>2, <1>3, <2>1, <2>2 DEF Asked
    <2>8. NothingFails' /\ Consuming' /\ Expanding' /\ Measuring' /\ AnswerIsExact' /\ PathIsWalk'
        BY <2>1 DEF NothingFails, Consuming, Expanding, Measuring, AnswerIsExact, PathIsWalk
    <2> QED
        BY <1>4, <1>10, <2>5, <2>6, <2>7, <2>8 DEF PathInv, SearchInv
<1>12. CASE ~(mode # "FLOWFIELD" /\ current' = goal)
    <2>1. pc' = "edges" /\ UNCHANGED <<here, rounds>>
        BY <1>1, <1>12
    <2>2. PathTypeOK'
        <3>1. Len(frontier') <= MapSize
            BY <1>5, <1>6
        <3> QED
            BY <1>1, <1>2, <1>3, <1>6, <2>1, <3>1 DEF PathTypeOK
    <2>3. Expanding'
        <3>1. ~InFrontier(current)'
            <4>1. \A i \in 1..Len(frontier') : frontier[1] # frontier[i + 1]
                BY <1>2, <1>7, <1>8 DEF Ordered
            <4> QED
                BY <1>6, <4>1 DEF InFrontier
        <3>2. /\ \A i \in 1..Len(frontier') : depth[current'] <= depth[frontier'[i]]
              /\ \A t \in Visited : depth[t] <= depth[current'] + 1
            BY <1>2, <1>6, <1>7, <1>8 DEF Ordered
        <3>3. \A t \in Visited : t = current' \/ InFrontier(t)' \/ Closed(t)
            BY <1>1, <1>2, <1>5, <1>9 DEF Consuming
        <3>4. \A n : n \notin 1..(edge' - 1)
            BY <1>1
        <3>5. rounds' + 1 + Len(frontier') = Cardinality(Visited')
            BY <1>1, <1>2, <1>4, <1>5, <1>6, <2>1 DEF Consuming
        <3>6. \A t \in Visited' : t = current' \/ InFrontier(t)' \/ Closed(t)'
            BY <1>4, <3>3
        <3> QED
            BY <1>3, <1>4, <1>8, <3>1, <3>2, <3>4, <3>5, <3>6 DEF Expanding
    <2>4. Asked'
        <3>1. goal = target /\ path = <<>> /\ distance = 0 /\ (mode # "FLOWFIELD" => target \in Tile \ {start})
            BY <1>1, <1>2 DEF Asked
        <3>2. ASSUME mode = "FIND_NEIGHBOR"
              PROVE  /\ goal \notin Visited
                     /\ \A t \in Visited : InFrontier(t)' \/ t = current' \/ goal \notin Edges[t]
            BY <1>1, <1>2, <1>5, <1>9, <3>2 DEF Asked
        <3>3. \A n : n \notin 1..(edge' - 1)
            BY <1>1
        <3> QED
            BY <1>3, <1>4, <2>1, <3>1, <3>2, <3>3 DEF Asked
    <2>5. NothingFails' /\ Consuming' /\ Walking' /\ Measuring' /\ AnswerIsExact' /\ PathIsWalk'
        BY <2>1 DEF NothingFails, Consuming, Walking, Measuring, AnswerIsExact, PathIsWalk
    <2> QED
        BY <1>4, <1>10, <2>2, <2>3, <2>4, <2>5 DEF PathInv, SearchInv
<1> QED
    BY <1>11, <1>12

----------------------------------------------------------------------------
(* An edge is looked at. *)

\* The edge leads to a tile beside the goal: no tile beside it is nearer to the start.
LEMMA GoalBeside ==
    ASSUME PathInv, pc = "edges", mode = "FIND_NEIGHBOR", goal \in Edges[current]
    PROVE  current \in Edges[target] /\ Answer = <<"OK", depth[current]>>
<1> DEFINE D == Distances(start, Tile \ blocked)
           h == depth[current]
           beside == DOMAIN D \cap Edges[target]
           near == {D[t] : t \in beside}
<1>1. PathTypeOK /\ Tree /\ Layered /\ Ordered /\ Expanding /\ Asked
    BY DEF PathInv, SearchInv
<1>2. /\ start \in Tile /\ depth \in [Tile -> Nat]
      /\ mode \in {"FIND", "FIND_NEIGHBOR", "FLOWFIELD"} /\ MapSize \in Nat
    BY <1>1, MapSizeType DEF PathTypeOK
<1>3. start \in Visited
    BY <1>1, <1>2, PathAssumption DEF Tree, Visited, PathAssumption
<1>4. current \in Visited /\ current \in Tile /\ h \in 0..MapSize
    BY <1>1, <1>2 DEF Expanding, Layered, Visited
<1>5. goal = target /\ target \in Tile \ {start}
    BY <1>1 DEF Asked
<1>6. current \in Edges[target]
    BY <1>4, <1>5, EdgesSymmetric
\* a tile that is nearer has left the frontier and is not the one that is looked at
<1>7. ASSUME NEW t \in Visited, depth[t] < h
      PROVE  ~InFrontier(t) /\ t # current /\ Closed(t)
    <2>1. t \in Tile /\ depth[t] \in Nat /\ h \in Nat
        BY <1>2, <1>4 DEF Visited
    <2>2. ~InFrontier(t)
        BY <1>1, <1>7, <2>1 DEF InFrontier, Expanding
    <2>3. t # current
        BY <1>7, <2>1
    <2> QED
        BY <1>1, <2>2, <2>3 DEF Expanding
<1>8. h <= h
    BY <1>4
<1> HIDE DEF D, h
<1>9. /\ \A t \in Visited : depth[t] <= h => t \in DOMAIN D /\ D[t] = depth[t]
      /\ \A t \in DOMAIN D : D[t] <= h => t \in Visited /\ D[t] = depth[t]
    BY <1>1, <1>2, <1>3, <1>4, <1>7, Flood DEF D
<1>10. current \in DOMAIN D /\ D[current] = h
    BY <1>4, <1>8, <1>9 DEF h
<1>11. \A t \in DOMAIN D : D[t] \in Nat
    BY <1>2, DistanceFacts DEF D
<1>12. ASSUME NEW t \in beside PROVE h <= D[t]
    <2> SUFFICES ASSUME D[t] < h PROVE FALSE
        BY <1>4, <1>11
    <2>1. t \in Visited /\ depth[t] < h
        BY <1>4, <1>9, <1>11
    <2>2. t \in Tile
        BY <2>1 DEF Visited
    <2>3. goal \in Edges[t]
        BY <1>5, <2>2, EdgesSymmetric
    <2> QED
        BY <1>1, <1>7, <2>1, <2>3 DEF Asked
<1>13. Min(near) = h
    <2>1. near \in SUBSET Int /\ h \in near /\ \A y \in near : h <= y
        BY <1>6, <1>10, <1>11, <1>12
    <2> HIDE DEF near
    <2> QED
        BY <2>1, MinIs
<1>14. beside # {}
    BY <1>6, <1>10
<1>15. Answer = IF beside = {} THEN <<"INCOMPLETE_FLOWFIELD", 0>> ELSE <<"OK", Min(near)>>
    BY <1>2, <1>5, AnswerCases DEF D
<1> HIDE DEF beside, near
<1> QED
    BY <1>6, <1>13, <1>14, <1>15 DEF h

LEMMA SettleKeeps ==
    ASSUME PathInv, pc = "edges", edge \in Direction, mode = "FIND_NEIGHBOR",
           NeighborCoord(current, edge) = goal, SettleBeside, UNCHANGED <<request, target, answer>>
    PROVE  PathInv'
<1>1. /\ goal' = current /\ pc' = "walk" /\ here' = current /\ rounds' = 0
      /\ UNCHANGED search
    BY DEF SettleBeside
<1>2. PathTypeOK /\ Tree /\ Layered /\ Ordered /\ Expanding /\ Asked
    BY DEF PathInv, SearchInv
<1>3. /\ Tree' /\ Layered' /\ Ordered' /\ Visited' = Visited
      /\ UNCHANGED <<mode, blocked, start, frontier, cameFrom, current, edge, depth>>
    BY <1>1, <1>2, SearchStays
<1>4. UNCHANGED <<target, path, distance, result>> /\ path = <<>> /\ distance = 0
    BY <1>2 DEF answer, Asked
<1>5. current \in Tile /\ current \in Visited /\ depth \in [Tile -> Nat] /\ MapSize \in Nat
    BY <1>2, MapSizeType DEF PathTypeOK, Expanding
<1>6. goal = target /\ target \in Tile \ {start}
    BY <1>2 DEF Asked
<1>7. goal \in Edges[current]
    BY <1>5, <1>6 DEF Edges
<1>8. current \in Edges[target] /\ Answer = <<"OK", depth[current]>>
    BY <1>7, GoalBeside
<1>9. Answer' = Answer
    BY AnswerStays
<1>10. PathTypeOK'
    <2>1. 0 \in 0..MapSize
        BY <1>5
    <2> QED
        BY <1>1, <1>2, <1>3, <1>4, <1>5, <2>1 DEF PathTypeOK
<1>11. Walking'
    <2>1. Len(path') = 0 /\ (\A i : i \notin 1..distance') /\ depth[current] + 0 = depth[current]
        BY <1>4, <1>5
    <2> QED
        BY <1>1, <1>3, <1>4, <1>5, <1>8, <1>9, <2>1 DEF Walking
<1>12. Asked'
    BY <1>1, <1>3, <1>4, <1>6 DEF Asked
<1>13. NothingFails' /\ Consuming' /\ Expanding' /\ Measuring' /\ AnswerIsExact' /\ PathIsWalk'
    BY <1>1 DEF NothingFails, Consuming, Expanding, Measuring, AnswerIsExact, PathIsWalk
<1> QED
    BY <1>3, <1>10, <1>11, <1>12, <1>13 DEF PathInv, SearchInv

\* The edge leads off the map, to an obstacle, or to a tile that was found before.
LEMMA NothingNewKeeps ==
    ASSUME PathInv, pc = "edges", edge \in Direction,
           ~(mode = "FIND_NEIGHBOR" /\ NeighborCoord(current, edge) = goal),
           NeighborCoord(current, edge) \in Tile \ blocked => NeighborCoord(current, edge) \in Visited,
           UNCHANGED <<frontier, cameFrom, depth>>, edge' = edge + 1,
           UNCHANGED <<goal, pc, here, rounds, current>>, UNCHANGED <<request, target, answer>>
    PROVE  PathInv'
<1>1. PathTypeOK /\ Tree /\ Layered /\ Ordered /\ Expanding /\ Asked
    BY DEF PathInv, SearchInv
<1>2. UNCHANGED <<mode, blocked, start, target, goal, pc, here, rounds, current, frontier, cameFrom,
                  depth, path, distance, result>>
    BY DEF request, answer
<1>3. Tree' /\ Layered' /\ Visited' = Visited /\ \A t : Closed(t)' = Closed(t)
    BY <1>1, <1>2, TreeStays
<1>4. Ordered' /\ \A t : InFrontier(t)' = InFrontier(t)
    BY <1>1, <1>2, <1>3 DEF Ordered, InFrontier
<1>5. edge \in 1..6 /\ edge' \in 1..7
    BY DEF Direction
<1>6. PathTypeOK'
    BY <1>1, <1>2, <1>5 DEF PathTypeOK
<1>7. \A n \in 1..(edge' - 1) : n \in 1..(edge - 1) \/ n = edge
    BY <1>5
<1>8. Expanding'
    <2>1. ASSUME NEW n \in 1..(edge' - 1), NeighborCoord(current, n) \in Tile \ blocked
          PROVE  /\ NeighborCoord(current, n) \in Visited
                 /\ depth[NeighborCoord(current, n)] <= depth[current] + 1
        BY <1>1, <1>7, <2>1 DEF Expanding
    <2>2. ~InFrontier(current)'
        BY <1>1, <1>2 DEF Expanding, InFrontier
    <2>3. \A t \in Visited' : t = current' \/ InFrontier(t)' \/ Closed(t)'
        BY <1>1, <1>2, <1>3, <1>4 DEF Expanding
    <2>4. /\ current \in Visited
          /\ \A i \in 1..Len(frontier) : depth[current] <= depth[frontier[i]]
          /\ \A t \in Visited : depth[t] <= depth[current] + 1
          /\ rounds + 1 + Len(frontier) = Cardinality(Visited)
        BY <1>1 DEF Expanding
    <2> QED
        BY <1>2, <1>3, <2>1, <2>2, <2>3, <2>4 DEF Expanding
<1>9. Asked'
    <2>1. goal = target /\ path = <<>> /\ distance = 0 /\ (mode # "FLOWFIELD" => target \in Tile \ {start})
        BY <1>1 DEF Asked
    <2>2. ASSUME mode = "FIND_NEIGHBOR"
          PROVE  /\ goal \notin Visited
                 /\ \A t \in Visited : InFrontier(t) \/ t = current \/ goal \notin Edges[t]
                 /\ \A n \in 1..(edge' - 1) : NeighborCoord(current, n) # goal
        BY <1>1, <1>7, <2>2 DEF Asked
    <2> QED
        BY <1>2, <1>3, <1>4, <2>1, <2>2 DEF Asked
<1>10. NothingFails' /\ Consuming' /\ Walking' /\ Measuring' /\ AnswerIsExact' /\ PathIsWalk'
    BY <1>2 DEF NothingFails, Consuming, Walking, Measuring, AnswerIsExact, PathIsWalk
<1> QED
    BY <1>3, <1>4, <1>6, <1>8, <1>9, <1>10 DEF PathInv, SearchInv

\* The edge leads to a tile that had not been found.
LEMMA FoundKeeps ==
    ASSUME PathInv, pc = "edges", edge \in Direction,
           ~(mode = "FIND_NEIGHBOR" /\ NeighborCoord(current, edge) = goal),
           NEW t \in Tile \ blocked, t = NeighborCoord(current, edge), t \notin Visited,
           frontier' = RingAppend(frontier, t),
           cameFrom' = [cameFrom EXCEPT ![t] = current],
           depth' = [depth EXCEPT ![t] = depth[current] + 1],
           edge' = edge + 1,
           UNCHANGED <<goal, pc, here, rounds, current>>, UNCHANGED <<request, target, answer>>
    PROVE  PathInv'
<1> DEFINE d == depth[current]
           n == Len(frontier)
<1>1. PathTypeOK /\ Tree /\ Layered /\ Ordered /\ Expanding /\ Asked
    BY DEF PathInv, SearchInv
<1>2. UNCHANGED <<mode, blocked, start, target, goal, pc, here, rounds, current, path, distance, result>>
    BY DEF request, answer
<1>3. /\ start \in Tile /\ depth \in [Tile -> Nat] /\ frontier \in Seq(Tile) /\ n \in Nat
      /\ cameFrom \in [Tile -> Tile \cup {NotVisited, None}]
      /\ current \in Tile /\ MapSize \in Nat \ {0} /\ rounds \in Nat /\ Visited \subseteq Tile
      /\ NotVisited \notin Tile /\ None \notin Tile /\ NotVisited # None
    BY <1>1, MapSizeType, PathAssumption DEF PathTypeOK, Visited, PathAssumption
<1>4. current \in Visited /\ t # current /\ d \in Nat /\ d < MapSize
    BY <1>1, <1>3 DEF Expanding, Layered
<1>5. /\ cameFrom' \in [Tile -> Tile \cup {NotVisited, None}] /\ cameFrom'[t] = current
      /\ \A u \in Tile : u # t => cameFrom'[u] = cameFrom[u]
    BY <1>3
<1>6. /\ depth' \in [Tile -> Nat] /\ depth'[t] = d + 1
      /\ \A u \in Tile : u # t => depth'[u] = depth[u]
    BY <1>3, <1>4
<1>7. Visited' = Visited \cup {t}
    <2>1. \A u \in Tile : cameFrom'[u] # NotVisited <=> cameFrom[u] # NotVisited \/ u = t
        BY <1>3, <1>5
    <2> QED
        BY <2>1 DEF Visited
<1>8. /\ Cardinality(Visited) \in Nat /\ Cardinality(Visited) < MapSize
      /\ Cardinality(Visited') = Cardinality(Visited) + 1
    BY <1>3, <1>7, SubsetOfTile
<1>9. n < MapSize
    <2>1. rounds + 1 + n = Cardinality(Visited)
        BY <1>1 DEF Expanding
    <2> QED
        BY <1>3, <1>8, <2>1
<1>10. /\ frontier' \in Seq(Tile) /\ Len(frontier') = n + 1
       /\ \A i \in 1..n : frontier'[i] = frontier[i]
       /\ frontier'[n + 1] = t
    <2>1. frontier' = Append(frontier, t)
        BY <1>9 DEF RingAppend
    <2> QED
        BY <1>3, <2>1, AppendProperties
<1>11. \A i \in 1..(n + 1) : i \in 1..n \/ i = n + 1
    BY <1>3
<1> HIDE DEF d, n
<1>12. /\ \A u : InFrontier(u) => InFrontier(u)'
       /\ InFrontier(t)'
       /\ \A u : InFrontier(u)' => InFrontier(u) \/ u = t
    <2>1. Len(frontier) = n /\ 1..n \subseteq 1..(n + 1) /\ n + 1 \in 1..(n + 1)
        BY <1>3 DEF n
    <2> QED
        BY <1>10, <1>11, <2>1 DEF InFrontier
<1>13. ASSUME NEW u \in Visited
       PROVE  u # t /\ u \in Tile /\ depth'[u] = depth[u] /\ cameFrom'[u] = cameFrom[u] /\ depth[u] \in Nat
    BY <1>3, <1>5, <1>6
<1>14. t \in Edges[current]
    BY <1>3 DEF Edges
<1>15. PathTypeOK'
    <2>1. edge' \in 1..7 /\ Len(frontier') <= MapSize
        BY <1>3, <1>9, <1>10 DEF Direction
    <2> QED
        BY <1>1, <1>2, <1>5, <1>6, <1>10, <2>1 DEF PathTypeOK
<1>16. Tree'
    <2>1. start \in Visited
        BY <1>1, <1>3 DEF Tree, Visited
    <2>2. cameFrom'[start] = None /\ depth'[start] = 0
        BY <1>1, <1>13, <2>1 DEF Tree
    <2>3. ASSUME NEW u \in Tile \ {start} PROVE cameFrom'[u] # None
        BY <1>1, <1>3, <1>5 DEF Tree
    <2>4. ASSUME NEW u \in Visited' \ {start}
          PROVE  /\ cameFrom'[u] \in Visited' /\ u \notin blocked
                 /\ u \in Edges[cameFrom'[u]]
                 /\ depth'[u] = depth'[cameFrom'[u]] + 1
        <3>1. CASE u = t
            BY <1>4, <1>5, <1>6, <1>7, <1>13, <1>14, <3>1 DEF d
        <3>2. CASE u # t
            <4>1. u \in Visited \ {start}
                BY <1>7, <3>2
            <4>2. cameFrom[u] \in Visited /\ u \notin blocked /\ u \in Edges[cameFrom[u]]
                  /\ depth[u] = depth[cameFrom[u]] + 1
                BY <1>1, <4>1 DEF Tree
            <4> QED
                BY <1>7, <1>13, <4>1, <4>2
        <3> QED
            BY <3>1, <3>2
    <2> QED
        BY <1>2, <2>2, <2>3, <2>4 DEF Tree
<1>17. Layered'
    <2>1. \A k : Layer(k)' = Layer(k)
        BY <1>2 DEF Layer
    <2>2. ASSUME NEW u \in Visited
          PROVE  /\ depth[u] < MapSize /\ u \in Layer(depth[u])
                 /\ \A j \in 0..depth[u] : \E v \in Visited' : depth'[v] = j
        <3>1. \A j \in 0..depth[u] : \E v \in Visited : depth[v] = j
            BY <1>1 DEF Layered
        <3> QED
            BY <1>1, <1>7, <1>13, <3>1 DEF Layered
    <2>3. \A j \in 0..(d + 1) : \E v \in Visited' : depth'[v] = j
        <3>1. \A j \in 0..(d + 1) : j \in 0..d \/ j = d + 1
            BY <1>4
        <3> QED
            BY <1>4, <1>6, <1>7, <2>2, <3>1 DEF d
    <2>4. d + 1 < MapSize
        <3>1. Visited' \in SUBSET Tile /\ d + 1 \in Nat
            BY <1>3, <1>4, <1>7
        <3> DEFINE S == Visited'
                   f == depth'
        <3>2. S \in SUBSET Tile /\ f \in [Tile -> Nat] /\ \A j \in 0..(d + 1) : \E v \in S : f[v] = j
            BY <1>6, <2>3, <3>1
        <3> HIDE DEF S, f
        <3>3. (d + 1) + 1 <= Cardinality(S)
            BY <3>1, <3>2, MoreTilesThanDepth
        <3>4. (d + 1) + 1 <= Cardinality(Visited) + 1
            BY <1>8, <3>3 DEF S
        <3> QED
            BY <1>3, <1>4, <1>8, <3>4
    <2>5. t \in Layer(d + 1)
        <3>1. d \in 0..(MapSize - 1) /\ current \in Layer(d)
            BY <1>1, <1>3, <1>4 DEF Layered, d
        <3>2. Layer(d + 1) = Grow(Layer(d), Tile \ blocked)
            BY <1>3, <3>1, LayerFacts
        <3> QED
            BY <1>14, <3>1, <3>2 DEF Grow
    <2>6. ASSUME NEW u \in Visited'
          PROVE  /\ depth'[u] < MapSize /\ u \in Layer(depth'[u])
                 /\ \A j \in 0..depth'[u] : \E v \in Visited' : depth'[v] = j
        <3>1. CASE u = t
            BY <1>6, <2>3, <2>4, <2>5, <3>1
        <3>2. CASE u # t
            BY <1>7, <1>13, <2>2, <3>2
        <3> QED
            BY <3>1, <3>2
    <2> QED
        BY <2>1, <2>6 DEF Layered
<1>18. \A u \in Visited : depth[u] <= d + 1
    BY <1>1 DEF Expanding, d
<1>19. \A i \in 1..n : frontier[i] \in Visited /\ d <= depth[frontier[i]]
    BY <1>1 DEF Expanding, Ordered, d, n
<1>20. Ordered'
    <2>1. ASSUME NEW i \in 1..(n + 1)
          PROVE  /\ frontier'[i] \in Visited'
                 /\ d <= depth'[frontier'[i]]
                 /\ \A u \in Visited' : depth'[u] <= depth'[frontier'[i]] + 1
        <3>1. frontier'[i] \in Visited' /\ d <= depth'[frontier'[i]] /\ depth'[frontier'[i]] \in Nat
            <4>1. CASE i = n + 1
                BY <1>4, <1>6, <1>7, <1>10, <4>1
            <4>2. CASE i \in 1..n
                BY <1>7, <1>10, <1>13, <1>19, <4>2
            <4> QED
                BY <1>11, <4>1, <4>2
        <3>2. ASSUME NEW u \in Visited' PROVE depth'[u] <= d + 1 /\ depth'[u] \in Nat
            BY <1>4, <1>6, <1>7, <1>13, <1>18
        <3>3. ASSUME NEW u \in Visited' PROVE depth'[u] <= depth'[frontier'[i]] + 1
            BY <1>4, <3>1, <3>2
        <3> QED
            BY <3>1, <3>3
    <2>2. ASSUME NEW i \in 1..(n + 1), NEW j \in 1..(n + 1), i < j
          PROVE  frontier'[i] # frontier'[j] /\ depth'[frontier'[i]] <= depth'[frontier'[j]]
        <3>1. i \in 1..n
            BY <1>3, <2>2
        <3>2. frontier'[i] = frontier[i] /\ frontier[i] \in Visited
            BY <1>10, <1>19, <3>1
        <3>3. CASE j = n + 1
            BY <1>6, <1>10, <1>13, <1>18, <3>2, <3>3
        <3>4. CASE j \in 1..n
            <4>1. frontier[i] # frontier[j] /\ depth[frontier[i]] <= depth[frontier[j]]
                BY <1>1, <2>2, <3>1, <3>4 DEF Ordered, n
            <4>2. frontier'[j] = frontier[j] /\ frontier[j] \in Visited
                BY <1>10, <1>19, <3>4
            <4> QED
                BY <1>13, <3>2, <4>1, <4>2
        <3> QED
            BY <1>11, <3>3, <3>4
    <2> QED
        BY <1>10, <2>1, <2>2 DEF Ordered
<1>21. Expanding'
    <2>1. ~InFrontier(current)'
        <3>1. ~InFrontier(current)
            BY <1>1 DEF Expanding
        <3>2. ~\E i \in 1..Len(frontier) : frontier[i] = current
            BY <3>1 DEF InFrontier
        <3>3. ~\E i \in 1..Len(frontier') : frontier'[i] = current
            BY <1>4, <1>10, <1>11, <3>2 DEF n
        <3> QED
            BY <1>2, <3>3 DEF InFrontier
    <2>2. depth'[current] = d /\ current \in Visited'
        BY <1>4, <1>7, <1>13 DEF d
    <2>3. \A i \in 1..(n + 1) : d <= depth'[frontier'[i]]
        <3>1. d <= depth'[t]
            BY <1>4, <1>6
        <3> QED
            BY <1>10, <1>11, <1>13, <1>19, <3>1
    <2>4. \A u \in Visited' : depth'[u] <= d + 1
        BY <1>4, <1>6, <1>7, <1>13, <1>18
    <2>5. \A u \in Visited' : u = current \/ InFrontier(u)' \/ Closed(u)'
        <3> SUFFICES ASSUME NEW u \in Visited', u # current, ~InFrontier(u)'
                     PROVE  Closed(u)'
            OBVIOUS
        <3>1. u \in Visited /\ ~InFrontier(u)
            BY <1>7, <1>12
        <3>2. Closed(u)
            BY <1>1, <3>1 DEF Expanding
        <3>3. \A v \in Edges[u] \ blocked : v \in Visited' /\ depth'[v] <= depth'[u] + 1
            BY <1>7, <1>13, <3>1, <3>2 DEF Closed
        <3> QED
            BY <1>2, <3>3 DEF Closed
    <2>6. ASSUME NEW m \in 1..(edge' - 1), NeighborCoord(current, m) \in Tile \ blocked
          PROVE  /\ NeighborCoord(current, m) \in Visited'
                 /\ depth'[NeighborCoord(current, m)] <= d + 1
        <3>1. CASE m = edge
            BY <1>4, <1>6, <1>7, <3>1
        <3>2. CASE m # edge
            <4>1. m \in 1..(edge - 1)
                BY <3>2 DEF Direction
            <4> QED
                BY <1>1, <1>7, <1>13, <2>6, <4>1 DEF Expanding, d
        <3> QED
            BY <3>1, <3>2
    <2>7. rounds + 1 + (n + 1) = Cardinality(Visited')
        <3>1. rounds + 1 + n = Cardinality(Visited)
            BY <1>1 DEF Expanding, n
        <3> QED
            BY <1>3, <1>8, <3>1
    <2> QED
        BY <1>2, <1>10, <2>1, <2>2, <2>3, <2>4, <2>5, <2>6, <2>7 DEF Expanding
<1>22. Asked'
    <2>1. goal = target /\ path = <<>> /\ distance = 0 /\ (mode # "FLOWFIELD" => target \in Tile \ {start})
        BY <1>1 DEF Asked
    <2>2. ASSUME mode = "FIND_NEIGHBOR"
          PROVE  /\ goal \notin Visited'
                 /\ \A u \in Visited' : InFrontier(u)' \/ u = current \/ goal \notin Edges[u]
                 /\ \A m \in 1..(edge' - 1) : NeighborCoord(current, m) # goal
        <3>1. \A m \in 1..(edge' - 1) : m \in 1..(edge - 1) \/ m = edge
            BY DEF Direction
        <3> QED
            BY <1>1, <1>7, <1>12, <2>2, <3>1 DEF Asked
    <2> QED
        BY <1>2, <2>1, <2>2 DEF Asked
<1>23. NothingFails' /\ Consuming' /\ Walking' /\ Measuring' /\ AnswerIsExact' /\ PathIsWalk'
    BY <1>2 DEF NothingFails, Consuming, Walking, Measuring, AnswerIsExact, PathIsWalk
<1> QED
    BY <1>15, <1>16, <1>17, <1>20, <1>21, <1>22, <1>23 DEF PathInv, SearchInv

LEMMA LookAtEdgeKeeps == PathInv /\ LookAtEdge => PathInv'
<1> SUFFICES ASSUME PathInv, LookAtEdge PROVE PathInv'
    OBVIOUS
<1> DEFINE next == NeighborCoord(current, edge)
<1>1. pc = "edges" /\ edge \in Direction /\ UNCHANGED <<request, target, answer>>
    BY DEF LookAtEdge
<1>2. CASE mode = "FIND_NEIGHBOR" /\ next = goal
    <2>1. SettleBeside
        BY <1>2 DEF LookAtEdge
    <2> QED
        BY <1>1, <1>2, <2>1, SettleKeeps
<1>3. CASE ~(mode = "FIND_NEIGHBOR" /\ next = goal)
    <2>1. /\ IF next \in Tile THEN Discover(next) ELSE UNCHANGED <<frontier, cameFrom, depth>>
          /\ edge' = edge + 1
          /\ UNCHANGED <<goal, pc, here, rounds, current>>
        BY <1>3 DEF LookAtEdge
    <2>2. CASE next \in Tile \ blocked /\ next \notin Visited
        <3>1. /\ frontier' = RingAppend(frontier, next)
              /\ cameFrom' = [cameFrom EXCEPT ![next] = current]
              /\ depth' = [depth EXCEPT ![next] = depth[current] + 1]
            BY <2>1, <2>2 DEF Discover, IsObstacle, Visited
        <3> HIDE DEF next
        <3>2. next = NeighborCoord(current, edge) /\ ~(mode = "FIND_NEIGHBOR" /\ NeighborCoord(current, edge) = goal)
            BY <1>3 DEF next
        <3> QED
            BY <1>1, <2>1, <2>2, <3>1, <3>2, FoundKeeps
    <2>3. CASE ~(next \in Tile \ blocked /\ next \notin Visited)
        <3>1. UNCHANGED <<frontier, cameFrom, depth>>
            BY <2>1, <2>3 DEF Discover, IsObstacle, Visited
        <3> QED
            BY <1>1, <1>3, <2>1, <2>3, <3>1, NothingNewKeeps
    <2> QED
        BY <2>2, <2>3
<1> QED
    BY <1>2, <1>3

----------------------------------------------------------------------------
(* The theorems. *)

LEMMA StutterKeeps == PathInv /\ UNCHANGED vars => PathInv'
<1> SUFFICES ASSUME PathInv, UNCHANGED vars PROVE PathInv'
    OBVIOUS
<1>1. /\ UNCHANGED <<mode, blocked, start, target, goal, pc, rounds, here, path, distance, result>>
      /\ UNCHANGED <<frontier, cameFrom, current, edge, depth>>
      /\ UNCHANGED <<request, search>>
    BY DEF vars, request, search, answer
<1>2. /\ PathTypeOK /\ NothingFails /\ Tree /\ Layered /\ Ordered /\ Consuming /\ Expanding /\ Asked
      /\ Walking /\ Measuring /\ AnswerIsExact /\ PathIsWalk
    BY DEF PathInv, SearchInv
<1>3. /\ Tree' /\ Layered' /\ Ordered' /\ Visited' = Visited
      /\ \A t : InFrontier(t)' = InFrontier(t) /\ Closed(t)' = Closed(t)
    BY <1>1, <1>2, SearchStays
<1>4. Answer' = Answer
    BY <1>1, AnswerStays
<1>5. PathTypeOK'
    BY <1>1, <1>2 DEF PathTypeOK
<1>6. Consuming'
    BY <1>1, <1>2, <1>3 DEF Consuming
<1>7. Expanding'
    <2>1. InFrontier(current)' = InFrontier(current)
        BY <1>1 DEF InFrontier
    <2> QED
        BY <1>1, <1>2, <1>3, <2>1 DEF Expanding
<1>8. Asked'
    BY <1>1, <1>2, <1>3 DEF Asked
<1>9. Walking' /\ Measuring'
    BY <1>1, <1>2, <1>3, <1>4 DEF Walking, Measuring
<1>10. NothingFails' /\ AnswerIsExact'
    BY <1>1, <1>2, <1>4 DEF NothingFails, AnswerIsExact
<1>11. PathIsWalk'
    BY <1>1, <1>2 DEF PathIsWalk, PathAt
<1> QED
    BY <1>3, <1>5, <1>6, <1>7, <1>8, <1>9, <1>10, <1>11 DEF PathInv, SearchInv

LEMMA StepsKeep == PathInv /\ [Next]_vars => PathInv'
<1>1. PathInv /\ Next => PathInv'
    BY ReturnEarlyKeeps, SearchKeeps, ConsumeKeeps, LookAtEdgeKeeps, EdgesDoneKeeps,
       ExhaustedKeeps, WalkBackKeeps, WalkEndsKeeps, MeasureKeeps DEF Next
<1> QED
    BY <1>1, StutterKeeps

\* The invariant holds for every search on every map.
THEOREM PathInvariant == Spec => []PathInv
<1>1. Init => PathInv
    BY InitInv
<1>2. PathInv /\ [Next]_vars => PathInv'
    BY StepsKeep
<1> QED
    BY <1>1, <1>2, PTL DEF Spec

\* Everything a search keeps is of its type: no ring buffer holds more than map_size tiles, no
\* counter goes beyond it, and no mark is taken for a tile.
THEOREM PathTyped == Spec => []PathTypeOK
<1>1. PathInv => PathTypeOK
    BY DEF PathInv
<1> QED
    BY <1>1, PathInvariant, PTL

\* No assertion of the searches fails: neither loop takes more turns than there are tiles, and
\* the walk back does not come to the mark of the start.
THEOREM NothingEverFails == Spec => []NothingFails
<1>1. PathInv => NothingFails
    BY DEF PathInv
<1> QED
    BY <1>1, PathInvariant, PTL

\* Every edge of the tile that is looked at can be taken both ways, on a grid of any size,
\* although its rows are shifted.
THEOREM EdgesGoBothWays == Spec => []EdgesBothWays
<1>1. PathInv => EdgesBothWays
    <2> SUFFICES ASSUME PathInv, NEW t \in Tile
                 PROVE  t \in Edges[current] <=> current \in Edges[t]
        BY DEF EdgesBothWays
    <2>1. current \in Tile
        BY DEF PathInv, PathTypeOK
    <2> QED
        BY <2>1, EdgesSymmetric
<1> QED
    BY <1>1, PathInvariant, PTL

\* The ring buffer loses no tile: what is reached from a tile that has left the frontier has
\* been found.
THEOREM FrontierForgetsNothing == Spec => []NothingForgotten
<1>1. PathInv => NothingForgotten
    <2> SUFFICES ASSUME PathInv, pc \in {"consume", "measure"},
                        NEW t \in Visited \ {frontier[i] : i \in DOMAIN frontier},
                        NEW u \in Edges[t] \ blocked
                 PROVE  u \in Visited
        BY DEF NothingForgotten
    <2>1. DOMAIN frontier = 1..Len(frontier)
        <3>1. frontier \in Seq(Tile)
            BY DEF PathInv, PathTypeOK
        <3> QED
            BY <3>1, LenProperties
    <2>2. ~InFrontier(t)
        BY <2>1 DEF InFrontier
    <2>3. Closed(t)
        BY <2>2 DEF PathInv, SearchInv, Consuming
    <2> QED
        BY <2>3 DEF Closed
<1> QED
    BY <1>1, PathInvariant, PTL

\* A search finds its goal, or a tile beside it, by a shortest way whenever there is a way, and
\* says so when there is none.
THEOREM AnswersAreExact == Spec => []AnswerIsExact
<1>1. PathInv => AnswerIsExact
    BY DEF PathInv
<1> QED
    BY <1>1, PathInvariant, PTL

\* What hexmap_path_at() yields is a walk from the start to the goal over tiles that are no
\* obstacles.
THEOREM PathsAreWalks == Spec => []PathIsWalk
<1>1. PathInv => PathIsWalk
    BY DEF PathInv
<1> QED
    BY <1>1, PathInvariant, PTL
=============================================================================
