------------------------------- MODULE HexMap -------------------------------
(***************************************************************************)
(* The grid of game/hexmap.c, and what distance means on it. A tile is its *)
(* hexcoord <<x, y>>: the conversions between coordinates and indexes into *)
(* map->tiles are one-to-one (x + y * w), so the index is left out.        *)
(***************************************************************************)
EXTENDS Integers, FiniteSets, SequencesExt

CONSTANTS W, H   \* map->w and map->h (7 and 11 in the code)

ASSUME HexMapAssumption == W \in Nat \ {0} /\ H \in Nat \ {0}

\* hexmap_is_valid_coord()
Tile == (0..(W - 1)) \X (0..(H - 1))

\* How many tiles there are: the length of every array and queue of the search.
MapSize == W * H

\* A coordinate that is not on the map: a destroyed path holds it twice.
OffMap == <<-1, -1>>

\* The six directions, E to NE. Rows are shifted: an odd row lies half a tile to the
\* left of an even one.
Direction == 1..6
Dx(y) == IF y % 2 = 0 THEN << 1, 1, 0, -1,  0, 1 >>
                      ELSE << 1, 0, -1, -1, -1, 0 >>
Dy    == << 0, 1, 1, 0, -1, -1 >>

\* Mutant of NeighborCoord: every row is taken for an even one.
NeighborCoordEven(t, n) == << t[1] + Dx(0)[n], t[2] + Dy[n] >>

\* hexmap_get_neighbor_coord(); the result may be off the map.
NeighborCoord(t, n) == << t[1] + Dx(t[2])[n], t[2] + Dy[n] >>

\* map->edges, as hexmap_generate_edges() fills it: where a tile's edges lead.
Edges == [t \in Tile |-> {NeighborCoord(t, n) : n \in Direction} \cap Tile]

----------------------------------------------------------------------------
(* What the search is measured by. *)

\* Layers(from, free)[k + 1]: the tiles at most k steps from `from`, over free tiles.
Layers(from, free) ==
    LET near[k \in 0..MapSize] ==
          IF k = 0 THEN <<{from}>>
          ELSE LET before == near[k - 1]
               IN  Append(before, before[k] \cup (free \cap UNION {Edges[t] : t \in before[k]}))
    IN  near[MapSize]

\* Distances(from, free): for each tile that can be reached, the length of a shortest
\* walk from `from` over free tiles.
Distances(from, free) ==
    LET layers == Layers(from, free)
    IN  [t \in layers[MapSize + 1] |-> Cardinality({k \in DOMAIN layers : t \notin layers[k]})]
=============================================================================
