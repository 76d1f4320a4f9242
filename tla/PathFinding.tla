----------------------------- MODULE PathFinding -----------------------------
(***************************************************************************)
(* The searches of game/hexmap.c: hexmap_path_find_ex() without a flag and *)
(* with PATH_FLAGS_FIND_NEIGHBOR, and hexmap_generate_flowfield() followed *)
(* by hexmap_flowfield_distance(). One behaviour is one call, on any map.  *)
(*                                                                         *)
(* The search is the same loop in both: consume a tile of the frontier and *)
(* look at its edges. A step is one turn of an innermost loop.             *)
(***************************************************************************)
EXTENDS HexMap

CONSTANTS NotVisited,   \* NODE_NOT_VISITED
          None,         \* NODE_NONE
          MaxBlocked    \* bound: how many tiles are obstacles

ASSUME PathAssumption == /\ {NotVisited, None} \cap Tile = {}
                         /\ NotVisited # None
                         /\ MaxBlocked \in Nat

VARIABLES mode,      \* which of the three
          blocked,   \* the tiles for which hexmap_is_tile_obstacle() holds
          start,
          target,    \* the goal that was asked for
          goal,      \* the goal that is walked back from
          pc,
          frontier,  \* the ring buffer, oldest first
          cameFrom,
          current,   \* current_node_i
          edge,      \* the direction of the edge to look at next
          rounds,    \* NUMBER_OF_ITERATIONS
          here,      \* walk_back_iter, or index
          path,      \* output_path->tiles: from the goal back
          distance,  \* output_path->distance_in_tiles, or the value returned
          result,
          depth      \* history: how many steps from the start a tile was found at

request == <<mode, blocked, start>>
search  == <<frontier, cameFrom, current, edge, depth>>
answer  == <<path, distance, result>>
vars == <<request, target, goal, pc, search, rounds, here, answer>>

IsObstacle(t) == t \in blocked

Init == /\ mode \in {"FIND", "FIND_NEIGHBOR", "FLOWFIELD"}
        /\ blocked \in {b \in SUBSET Tile : Cardinality(b) <= MaxBlocked}
        /\ start \in Tile
        /\ target \in IF mode = "FLOWFIELD" THEN {start} ELSE Tile \cup {OffMap}
        /\ goal = target
        /\ pc = "call"
        /\ frontier = <<start>>
        /\ cameFrom = [t \in Tile |-> IF t = start THEN None ELSE NotVisited]
        /\ current = start /\ edge = 1
        /\ rounds = 0
        /\ here = start
        /\ path = <<>> /\ distance = 0 /\ result = "PENDING"
        /\ depth = [t \in Tile |-> 0]

Finish(r, d) == /\ pc' = "done"
                /\ result' = r
                /\ distance' = d

----------------------------------------------------------------------------
(* The search. *)

\* The goal is off the map, or where the search starts.
ReturnEarly == /\ pc = "call"
               /\ mode # "FLOWFIELD"
               /\ \/ goal \notin Tile /\ Finish("ERROR", 0)
                  \/ goal = start /\ Finish("OK", 0)
               /\ UNCHANGED <<request, target, goal, search, rounds, here, path>>

Search == /\ pc = "call"
          /\ mode = "FLOWFIELD" \/ (goal \in Tile /\ goal # start)
          /\ pc' = "consume"
          /\ UNCHANGED <<request, target, goal, search, rounds, here, answer>>

\* RINGBUFFER_APPEND: a full buffer takes the value in place of its oldest.
RingAppend(f, t) == IF Len(f) < MapSize THEN Append(f, t) ELSE [f EXCEPT ![1] = t]

\* RINGBUFFER_CONSUME. A search for a path ends when it comes to the goal.
Consume == /\ pc = "consume"
           /\ frontier # <<>>
           /\ frontier' = Tail(frontier)
           /\ current' = Head(frontier)
           /\ IF mode # "FLOWFIELD" /\ current' = goal
              THEN pc' = "walk" /\ here' = goal /\ rounds' = 0
              ELSE pc' = "edges" /\ UNCHANGED <<here, rounds>>
           /\ edge' = 1
           /\ UNCHANGED <<request, target, goal, cameFrom, depth, answer>>

\* goto goal_reached: the tile next to the goal becomes the goal.
SettleBeside == /\ goal' = current
                /\ pc' = "walk" /\ here' = current /\ rounds' = 0
                /\ UNCHANGED search

\* Mutant of Discover: obstacles are walked over.
DiscoverAny(t) ==
    IF cameFrom[t] = NotVisited
    THEN /\ frontier' = RingAppend(frontier, t)
         /\ cameFrom' = [cameFrom EXCEPT ![t] = current]
         /\ depth' = [depth EXCEPT ![t] = depth[current] + 1]
    ELSE UNCHANGED <<frontier, cameFrom, depth>>

\* Mutant of Discover: a tile is appended whenever an edge leads to it.
DiscoverAgain(t) ==
    IF ~IsObstacle(t) /\ t # start
    THEN /\ frontier' = RingAppend(frontier, t)
         /\ cameFrom' = [cameFrom EXCEPT ![t] = IF @ = NotVisited THEN current ELSE @]
         /\ depth' = [depth EXCEPT ![t] = depth[current] + 1]
    ELSE UNCHANGED <<frontier, cameFrom, depth>>

\* Mutant of Discover: came_from is overwritten by the last edge to a tile.
DiscoverLast(t) ==
    IF ~IsObstacle(t)
    THEN /\ frontier' = IF cameFrom[t] = NotVisited THEN RingAppend(frontier, t) ELSE frontier
         /\ cameFrom' = [cameFrom EXCEPT ![t] = current]
         /\ depth' = [depth EXCEPT ![t] = depth[current] + 1]
    ELSE UNCHANGED <<frontier, cameFrom, depth>>

\* Mutant of Discover: the frontier is too small for the tiles it must hold.
DiscoverUnqueued(t) ==
    IF ~IsObstacle(t) /\ cameFrom[t] = NotVisited
    THEN /\ frontier' = IF Len(frontier) < 2 THEN RingAppend(frontier, t) ELSE frontier
         /\ cameFrom' = [cameFrom EXCEPT ![t] = current]
         /\ depth' = [depth EXCEPT ![t] = depth[current] + 1]
    ELSE UNCHANGED <<frontier, cameFrom, depth>>

Discover(t) ==
    IF ~IsObstacle(t) /\ cameFrom[t] = NotVisited
    THEN /\ frontier' = RingAppend(frontier, t)
         /\ cameFrom' = [cameFrom EXCEPT ![t] = current]
         /\ depth' = [depth EXCEPT ![t] = depth[current] + 1]
    ELSE UNCHANGED <<frontier, cameFrom, depth>>

\* The next edge. Directions that leave the map have none.
LookAtEdge ==
    /\ pc = "edges"
    /\ edge \in Direction
    /\ LET next == NeighborCoord(current, edge)
       IN  IF mode = "FIND_NEIGHBOR" /\ next = goal
           THEN SettleBeside
           ELSE /\ IF next \in Tile THEN Discover(next)
                                    ELSE UNCHANGED <<frontier, cameFrom, depth>>
                /\ edge' = edge + 1
                /\ UNCHANGED <<goal, pc, here, rounds, current>>
    /\ UNCHANGED <<request, target, answer>>

\* The end of a turn, with its assert(NUMBER_OF_ITERATIONS++ < map_size).
EdgesDone == /\ pc = "edges"
             /\ edge \notin Direction
             /\ IF rounds < MapSize THEN pc' = "consume" ELSE pc' = "aborted"
             /\ rounds' = rounds + 1
             /\ UNCHANGED <<request, target, goal, search, here, answer>>

\* The frontier is empty. A path is walked back to from the goal all the same; the
\* flow field is complete, and is asked for the distance of some tile.
Exhausted ==
    /\ pc = "consume"
    /\ frontier = <<>>
    /\ rounds' = 0
    /\ IF mode = "FLOWFIELD"
       THEN \E t \in Tile : target' = t /\ goal' = t /\ here' = cameFrom[t] /\ pc' = "measure"
       ELSE here' = goal /\ pc' = "walk" /\ UNCHANGED <<target, goal>>
    /\ UNCHANGED <<request, search, answer>>

----------------------------------------------------------------------------
(* hexmap_path_find_ex(): walk back to build the path. *)

WalkBack ==
    /\ pc = "walk"
    /\ here \notin {start, NotVisited}
    /\ IF here = None \/ rounds >= MapSize
       THEN pc' = "aborted" /\ UNCHANGED <<path, distance, here, rounds>>
       ELSE /\ path' = Append(path, here)
            /\ here' = cameFrom[here]
            /\ distance' = distance + 1
            /\ rounds' = rounds + 1
            /\ UNCHANGED pc
    /\ UNCHANGED <<request, target, goal, search, result>>

\* Mutant of WalkEnds: a walk that starts at a tile that was not found goes on.
WalkEndsFound ==
    /\ pc = "walk"
    /\ here = start /\ Finish("OK", distance)
    /\ UNCHANGED <<request, target, goal, search, rounds, here, path>>

WalkEnds ==
    /\ pc = "walk"
    /\ \/ here = start /\ Finish("OK", distance) /\ UNCHANGED path
       \/ here = NotVisited /\ Finish("INCOMPLETE_FLOWFIELD", 0) /\ path' = <<>>
    /\ UNCHANGED <<request, target, goal, search, rounds, here>>

\* Mutant of PathAt: the path is read from the goal.
PathAtFromGoal(i) == path[i + 1]

\* hexmap_path_at(): the i-th tile of a path, from the start, the first being 0.
PathAt(i) == path[distance - i]

----------------------------------------------------------------------------
(* hexmap_flowfield_distance(). *)

\* (usize)-1
NoDistance == -1

Measure ==
    /\ pc = "measure"
    /\ \/ here = NotVisited /\ Finish("ERROR", NoDistance) /\ UNCHANGED here
       \/ (here = None \/ distance >= MapSize) /\ Finish("OK", distance) /\ UNCHANGED here
       \/ /\ here \in Tile
          /\ distance < MapSize
          /\ here' = cameFrom[here]
          /\ distance' = distance + 1
          /\ UNCHANGED <<pc, result>>
    /\ UNCHANGED <<request, target, goal, search, rounds, path>>

----------------------------------------------------------------------------
Next == \/ ReturnEarly \/ Search
        \/ Consume \/ LookAtEdge \/ EdgesDone \/ Exhausted
        \/ WalkBack \/ WalkEnds
        \/ Measure

Spec == Init /\ [][Next]_vars

\* A call runs: nothing it does waits for anything.
FairSpec == Spec /\ WF_vars(Next)

----------------------------------------------------------------------------
(* Properties. *)

PathTypeOK ==
    /\ mode \in {"FIND", "FIND_NEIGHBOR", "FLOWFIELD"}
    /\ blocked \in SUBSET Tile /\ start \in Tile
    /\ target \in Tile \cup {OffMap} /\ goal \in Tile \cup {OffMap}
    /\ pc \in {"call", "consume", "edges", "walk", "measure", "done", "aborted"}
    /\ frontier \in Seq(Tile) /\ Len(frontier) <= MapSize
    /\ cameFrom \in [Tile -> Tile \cup {NotVisited, None}]
    /\ current \in Tile /\ edge \in 1..7
    /\ rounds \in 0..MapSize
    /\ here \in Tile \cup {NotVisited, None, OffMap}
    /\ path \in Seq(Tile) /\ distance \in -1..MapSize
    /\ result \in {"PENDING", "OK", "ERROR", "INCOMPLETE_FLOWFIELD"}
    /\ depth \in [Tile -> Nat]

\* No assertion fails: neither loop takes more turns than there are tiles, and the
\* walk back never comes to the mark of the start.
NothingFails == pc # "aborted"

\* Every edge can be taken both ways, although the rows of the grid are shifted: the
\* search goes from the start to the goal, and the path is built the other way.
EdgesBothWays == \A t \in Tile : t \in Edges[current] <=> current \in Edges[t]

\* The tiles found so far.
Visited == {t \in Tile : cameFrom[t] # NotVisited}

\* The ring buffer of map_size items never overwrites one that is yet to be looked at:
\* what is reached from a tile that has left the frontier has been found.
NothingForgotten ==
    pc \in {"consume", "measure"} =>
        \A t \in Visited \ {frontier[i] : i \in DOMAIN frontier} :
            Edges[t] \ blocked \subseteq Visited

\* The answers that `request` has by the meaning of distance.
Answer ==
    LET D == Distances(start, Tile \ blocked)
        reach == DOMAIN D
    IN  CASE mode = "FLOWFIELD" ->
               IF target \in reach THEN <<"OK", D[target]>> ELSE <<"ERROR", NoDistance>>
          [] mode # "FLOWFIELD" /\ target \notin Tile -> <<"ERROR", 0>>
          [] mode # "FLOWFIELD" /\ target = start -> <<"OK", 0>>
          [] mode = "FIND" /\ target \in Tile \ {start} ->
               IF target \in reach THEN <<"OK", D[target]>> ELSE <<"INCOMPLETE_FLOWFIELD", 0>>
          [] OTHER ->
               LET beside == reach \cap Edges[target]
               IN  IF beside = {} THEN <<"INCOMPLETE_FLOWFIELD", 0>>
                   ELSE <<"OK", Min({D[t] : t \in beside})>>

\* A search finds its goal, or a tile beside it, whenever there is a way over tiles that
\* are no obstacles, by a shortest way, and says so when there is none.
AnswerIsExact == pc = "done" => <<result, distance>> = Answer

\* What hexmap_path_at() yields leads from the start to the goal: each tile is beside
\* the one before it and no obstacle, and the last one is the goal or beside the target.
PathIsWalk ==
    (pc = "done" /\ mode # "FLOWFIELD" /\ result = "OK") =>
        /\ \A i \in 0..(distance - 1) :
              /\ PathAt(i) \in Tile \ blocked
              /\ PathAt(i) \in Edges[IF i = 0 THEN start ELSE PathAt(i - 1)]
        /\ distance > 0 => PathAt(distance - 1) = goal
        /\ mode = "FIND" => goal = target
        /\ (mode = "FIND_NEIGHBOR" /\ target # start) => goal \in Edges[target]

\* Every call returns.
Ends == <>(pc = "done")
=============================================================================
